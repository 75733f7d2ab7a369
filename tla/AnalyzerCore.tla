---------------------------- MODULE AnalyzerCore ----------------------------
(***************************************************************************)
(* The analyzer while a sample runs (CAPEsolo/analyzer.py): the analysis   *)
(* loop, the handlers of the command pipe, and what they share - the list  *)
(* of tracked processes, process_lock, INJECT_LIST and LASTINJECT_TIME.    *)
(*                                                                         *)
(* Every monitored process has a pipe of its own, and PipeDispatcher a     *)
(* thread for every pipe.  A thread handles one command at a time while    *)
(* its process waits for the answer, so a handler is named by its sender.  *)
(* What capemon and the sample do is the environment of the handlers.      *)
(***************************************************************************)
EXTENDS Naturals, FiniteSets

CONSTANTS
  Pid,                \* the processes of the sample, and of Windows services
  Root,               \* the one the package started and put on the list
  Free,               \* process_lock is not held
  Protected,          \* processes with a name in Files.PROTECTED_NAMES
  Host,               \* those of services and of the shell, which run from the start
  Flagged,            \* those of services with a flag MONITORED_... of their own
  NeedsDcom,          \* those of winmgmt and BITS
  Dcom,               \* that of DcomLaunch, which is injected before these
  Services,           \* services.exe, or Free
  PidCheck,           \* pid_check: the loop watches the processes
  Interactive,        \* INTERACTIVE_MODE
  TerminateProcesses, \* config.terminate_processes
  DieInCall,          \* may a process die while its command is handled?
  Raising,            \* commands whose handlers may raise while they hold process_lock
  MaxInject           \* bound on the injections into one process

ASSUME AnalyzerConstants ==
  /\ Root \in Pid
  /\ Free \notin Pid
  /\ Protected \subseteq Pid
  /\ Host \subseteq Pid \ {Root} /\ Flagged \subseteq Host
  /\ NeedsDcom \subseteq Flagged /\ Dcom \notin NeedsDcom
  /\ NeedsDcom # {} => Dcom \in Flagged
  /\ Services \in (Host \ Flagged) \cup {Free}
  /\ {PidCheck, Interactive, TerminateProcesses, DieInCall} \subseteq BOOLEAN
  /\ Raising \subseteq {"LOADED", "KILL", "SHUTDOWN"}
  /\ MaxInject \in Nat \ {0}

VARIABLES
  life,      \* [Pid -> unborn, alive or dead]
  loaded,    \* processes in which the monitor runs
  injected,  \* [Pid -> number of injections]
  call,      \* [Pid -> command of this process and how far its handler is]
  lock,      \* holder of process_lock
  pids,      \* process_list.pids
  leaving,   \* processes a KILL command took off the list
  injectList,\* INJECT_LIST
  monitored, \* hosts whose flag MONITORED_... is set
  critical,  \* CRITICAL_PROCESS_LIST
  since,     \* age of LASTINJECT_TIME, against 15 seconds
  emptyFor,  \* age of emptytime, against 5 seconds
  over,      \* why the loop is to end: the timeout has passed, do_run is unset
  timedOut,  \* ANALYSIS_TIMED_OUT
  loop,      \* where the analysis loop is
  ended,     \* why it was left
  visited,   \* processes the shutdown phase has dealt with
  current    \* the process it waits for, Root when it waits for none

procVars  == <<life, loaded, injected>>
listVars  == <<pids, leaving, injectList>>
hostVars  == <<monitored, critical>>
timeVars  == <<since, emptyFor, over>>
loopVars  == <<timedOut, loop, ended, visited, current>>
vars == <<procVars, call, lock, listVars, hostVars, timeVars, loopVars>>

-----------------------------------------------------------------------------

\* SERVICE stands for INTEROP, WMI, TASKSCHED, BITS and SERVICE.
Command == {"LOADED", "PROCESS", "PROCESS2", "KILL", "SHUTDOWN", "SERVICE", "SHELL"}

\* Where a handler can be: not started, waiting for process_lock, holding it,
\* between the test of a flag and its assignment, before its injection, between
\* the injection and its timestamp.
Place == {"check", "acquire", "locked", "mark", "inject", "stamp"}

\* A handler that deals with DcomLaunch first says which service comes then.
Idle == [cmd |-> "none"]
Call(c, arg, place) == [cmd |-> c, arg |-> arg, at |-> place, then |-> arg]
AllCalls == [cmd : Command, arg : Pid, at : Place, then : Pid]

Alive(p) == life[p] = "alive"
At(p, place) == call[p] # Idle /\ call[p].at = place
Handling(p, cmd, place) == At(p, place) /\ call[p].cmd = cmd
Goto(p, place) == call' = [call EXCEPT ![p].at = place]
Answer(p) == call' = [call EXCEPT ![p] = Idle]
First(p) == call[p].then # call[p].arg
Continue(p) == call' = [call EXCEPT ![p] =
  IF First(p) THEN Call(@.cmd, @.then, "inject") ELSE Idle]

\* A process that can talk to the analyzer and is not waiting for an answer.
\* What the monitor of a service says beyond LOADED is left out.
CanSend(p) == Alive(p) /\ p \in loaded \ (leaving \cup Host) /\ call[p] = Idle

TypeOK ==
  /\ life \in [Pid -> {"unborn", "alive", "dead"}]
  /\ loaded \in SUBSET Pid
  /\ injected \in [Pid -> 0..MaxInject]
  /\ call \in [Pid -> AllCalls \cup {Idle}]
  /\ lock \in Pid \cup {Free}
  /\ pids \in SUBSET Pid
  /\ leaving \in SUBSET Pid
  /\ injectList \in SUBSET Pid
  /\ monitored \in SUBSET Host /\ critical \in SUBSET Pid
  /\ since \in {"never", "recent", "old"}
  /\ emptyFor \in {"no", "recent", "old"}
  /\ over \in {"no", "timeout", "stopped"}
  /\ timedOut \in BOOLEAN
  /\ loop \in {"top", "test", "scan", "judge", "check", "stop", "wait", "done"}
  /\ ended \in {"no", "timeout", "empty", "package", "stopped"}
  /\ visited \in SUBSET Pid
  /\ current \in Pid

\* The package has started the root process, suspended, injected and resumed
\* it, and run() has put it on the list.
Init ==
  /\ life = [p \in Pid |-> IF p \in Host \cup {Root} THEN "alive" ELSE "unborn"]
  /\ loaded = {}
  /\ injected = [p \in Pid |-> IF p = Root THEN 1 ELSE 0]
  /\ call = [p \in Pid |-> Idle]
  /\ lock = Free
  /\ pids = {Root}
  /\ leaving = {}
  /\ injectList = {}
  /\ monitored = {} /\ critical = {Services} \ {Free}
  /\ since = "never"
  /\ emptyFor = "no"
  /\ over = "no"
  /\ timedOut = FALSE
  /\ loop = "top"
  /\ ended = "no"
  /\ visited = {}
  /\ current = Root

-----------------------------------------------------------------------------
(* The environment: the sample's processes, their monitors, and time. *)

\* A process starts another one and announces it (PROCESS).
Spawn(p, c) ==
  /\ CanSend(p)
  /\ life[c] = "unborn"
  /\ life' = [life EXCEPT ![c] = "alive"]
  /\ call' = [call EXCEPT ![p] = Call("PROCESS", c, "check")]
  /\ UNCHANGED <<loaded, injected, lock, listVars, hostVars, timeVars, loopVars>>

\* A process announces one that exists already: PROCESS once more, or
\* PROCESS2 for an injection by APC.
Announce(p, c, cmd) ==
  /\ CanSend(p)
  /\ c # p /\ Alive(c)
  /\ injected[c] < MaxInject
  /\ call' = [call EXCEPT ![p] = Call(cmd, c, IF cmd = "PROCESS" THEN "check" ELSE "acquire")]
  /\ UNCHANGED <<procVars, lock, listVars, hostVars, timeVars, loopVars>>

\* RESUME: _handle_resume sets LASTINJECT_TIME and goes on as PROCESS does.
Resume(p, c) ==
  /\ CanSend(p)
  /\ c # p /\ Alive(c)
  /\ injected[c] < MaxInject
  /\ since' = "recent"
  /\ call' = [call EXCEPT ![p] = Call("PROCESS", c, "check")]
  /\ UNCHANGED <<procVars, lock, listVars, hostVars, emptyFor, over, loopVars>>

\* The monitor comes up in an injected process and says so.
Load(c) ==
  /\ Alive(c) /\ injected[c] > 0 /\ c \notin loaded
  /\ loaded' = loaded \cup {c}
  /\ call' = [call EXCEPT ![c] = Call("LOADED", c, "acquire")]
  /\ UNCHANGED <<life, injected, lock, listVars, hostVars, timeVars, loopVars>>

\* A process is about to terminate another one, which is not itself waiting
\* for an answer unless DieInCall.
SendKill(p, t) ==
  /\ CanSend(p)
  /\ t # p /\ t \in loaded \ (leaving \cup Host) /\ Alive(t)
  /\ call[t] = Idle \/ DieInCall
  /\ call' = [call EXCEPT ![p] = Call("KILL", t, "acquire")]
  /\ UNCHANGED <<procVars, lock, listVars, hostVars, timeVars, loopVars>>

SendShutdown(p) ==
  /\ CanSend(p)
  /\ call' = [call EXCEPT ![p] = Call("SHUTDOWN", p, "acquire")]
  /\ UNCHANGED <<procVars, lock, listVars, hostVars, timeVars, loopVars>>

\* INTEROP, WMI, TASKSCHED, BITS, SERVICE where p3_legacy_service_monitor is set,
\* and SHELL, which injects the shell whatever was done before.  The stop and
\* start of a service before its injection are left out.
Request(p, h) ==
  /\ CanSend(p)
  /\ h \in Host /\ injected[h] < MaxInject
  /\ call' = [call EXCEPT ![p] =
       IF h \in Flagged \cup {Services} THEN Call("SERVICE", h, "check")
                                      ELSE Call("SHELL", h, "inject")]
  /\ UNCHANGED <<procVars, lock, listVars, hostVars, timeVars, loopVars>>

\* REBOOT: handle_reboot() unsets do_run, unless it could not write to the
\* registry.  It changes nothing else here, so request and handler are one step.
Reboot(p) ==
  /\ CanSend(p)
  /\ over' = "stopped"
  /\ UNCHANGED <<procVars, call, lock, listVars, hostVars, since, emptyFor, loopVars>>

\* A service runs as long as Windows does.
Exit(p) ==
  /\ Alive(p) /\ p \notin Host
  /\ call[p] = Idle \/ DieInCall
  /\ life' = [life EXCEPT ![p] = "dead"]
  /\ UNCHANGED <<loaded, injected, call, lock, listVars, hostVars, timeVars, loopVars>>

\* 15 seconds pass since the last injection.  The grace is meant for monitors
\* that are still coming up, and they are assumed to keep it: no process that
\* was injected is still missing on the list.
Age ==
  /\ since = "recent"
  /\ \A c \in Pid : Alive(c) /\ injected[c] > 0 => c \in pids \cup leaving
  /\ since' = "old"
  /\ UNCHANGED <<procVars, call, lock, listVars, hostVars, emptyFor, over, loopVars>>

\* 5 seconds pass since the list was first seen empty.
AgeEmpty ==
  /\ emptyFor = "recent"
  /\ emptyFor' = "old"
  /\ UNCHANGED <<procVars, call, lock, listVars, hostVars, since, over, loopVars>>

\* The timeout of the analysis passes, or the termination folder appears.
Expire ==
  /\ over = "no" /\ over' = "timeout"
  /\ UNCHANGED <<procVars, call, lock, listVars, hostVars, since, emptyFor, loopVars>>

Environment ==
  \/ \E p, c \in Pid :
       \/ Spawn(p, c)
       \/ Announce(p, c, "PROCESS")
       \/ Announce(p, c, "PROCESS2")
       \/ Resume(p, c)
       \/ SendKill(p, c)
       \/ Request(p, c)
  \/ \E p \in Pid : Load(p) \/ SendShutdown(p) \/ Reboot(p) \/ Exit(p)
  \/ Age \/ AgeEmpty \/ Expire

-----------------------------------------------------------------------------
(* The handlers, one thread per sender p. *)

\* _handle_process, without process_lock: a process that is not on the list
\* is put on INJECT_LIST, whether or not it was there, and injected.
Check(p) ==
  /\ Handling(p, "PROCESS", "check")
  /\ LET c == call[p].arg IN
     IF timedOut \/ c \in pids
     THEN Answer(p) /\ UNCHANGED injectList
     ELSE Goto(p, "inject") /\ injectList' = injectList \cup {c}
  /\ UNCHANGED <<procVars, lock, pids, leaving, hostVars, timeVars, loopVars>>

\* The flag of a service is tested; one that is dealt with first is not asked for
\* the timeout.  services.exe has its flag set by LOADED only.
TestFlag(p) ==
  /\ Handling(p, "SERVICE", "check")
  /\ LET h == call[p].arg IN
     IF h \in monitored \/ (timedOut /\ ~First(p)) THEN Continue(p)
     ELSE Goto(p, IF h = Services THEN "inject" ELSE "mark")
  /\ UNCHANGED <<procVars, lock, listVars, hostVars, timeVars, loopVars>>

\* The flag is set, whoever has set it since; winmgmt and BITS go on to DcomLaunch.
Mark(p) ==
  /\ At(p, "mark")
  /\ LET h == call[p].arg IN
     /\ monitored' = monitored \cup {h}
     /\ IF h \in NeedsDcom
        THEN call' = [call EXCEPT ![p] = [Call("SERVICE", Dcom, "check") EXCEPT !.then = h]]
        ELSE Goto(p, "inject")
  /\ UNCHANGED <<procVars, lock, listVars, critical, timeVars, loopVars>>

\* pid_from_service_name() finds no process.
NoProcess(p) ==
  /\ At(p, "inject") /\ call[p].arg \in Host /\ call[p].cmd \in {"SERVICE", "SHELL"}
  /\ Continue(p)
  /\ UNCHANGED <<procVars, lock, listVars, hostVars, timeVars, loopVars>>

\* proc.inject(), before which a service or the shell is noted as critical.
\* Injecting a process that is gone fails, and the handler goes on all the same.
\* PROCESS asks in_protected_path() first, but of the bare file name, which lies
\* in no protected directory: it spares nobody.
Inject(p) ==
  /\ At(p, "inject")
  /\ LET c == call[p].arg IN
     injected' = IF Alive(c) /\ injected[c] < MaxInject
                 THEN [injected EXCEPT ![c] = @ + 1] ELSE injected
  /\ critical' = critical \cup
       (IF call[p].cmd \in {"SERVICE", "SHELL"} THEN {call[p].arg} ELSE {})
  /\ Goto(p, "stamp")
  /\ UNCHANGED <<life, loaded, lock, listVars, monitored, timeVars, loopVars>>

\* LASTINJECT_TIME = now
Stamp(p) ==
  /\ At(p, "stamp")
  /\ since' = "recent"
  /\ Continue(p)
  /\ UNCHANGED <<procVars, lock, listVars, hostVars, emptyFor, over, loopVars>>

\* process_lock.acquire(); the lock is not reentrant.
Acquire(p) ==
  /\ At(p, "acquire")
  /\ lock = Free
  /\ lock' = p
  /\ Goto(p, "locked")
  /\ UNCHANGED <<procVars, listVars, hostVars, timeVars, loopVars>>

\* An exception under process_lock: dispatch() logs it and answers, and nobody
\* releases the lock.
Raise(p) ==
  /\ call[p].cmd \in Raising
  /\ Answer(p)
  /\ UNCHANGED <<pids, leaving, injectList, monitored, lock>>

\* _handle_loaded; int(data) may raise.
Loaded(p) ==
  /\ Handling(p, "LOADED", "locked")
  /\ \/ /\ pids' = pids \cup {p}
        /\ injectList' = injectList \ {p}
        /\ monitored' = monitored \cup ({p} \cap {Services})
        /\ lock' = Free
        /\ Answer(p)
        /\ UNCHANGED leaving
     \/ Raise(p)
  /\ UNCHANGED <<procVars, critical, timeVars, loopVars>>

\* _inject_process: a process on the list is left alone.  Any other one is
\* put on the list before it is injected, unless its name is protected: then
\* the handler returns without having released the lock.
InjectProcess(p) ==
  /\ Handling(p, "PROCESS2", "locked")
  /\ LET c == call[p].arg IN
     \/ /\ c \in pids
        /\ lock' = Free /\ Answer(p) /\ UNCHANGED pids
     \/ /\ c \notin pids \cup Protected
        /\ pids' = pids \cup {c}
        /\ lock' = Free /\ Goto(p, "inject")
     \/ /\ c \in Protected \ pids
        /\ Answer(p) /\ UNCHANGED <<pids, lock>>
  /\ UNCHANGED <<procVars, leaving, injectList, hostVars, timeVars, loopVars>>

\* _handle_kill; int(data) may raise.
Kill(p) ==
  /\ Handling(p, "KILL", "locked")
  /\ \/ /\ pids' = pids \ {call[p].arg}
        /\ leaving' = leaving \cup {call[p].arg}
        /\ lock' = Free
        /\ Answer(p)
        /\ UNCHANGED <<injectList, monitored>>
     \/ Raise(p)
  /\ UNCHANGED <<procVars, critical, timeVars, loopVars>>

\* _handle_shutdown signals the processes on the list and, for one that listens,
\* dumps files, which may raise (Pick and Hash of DroppedFiles).
Shutdown(p) ==
  /\ Handling(p, "SHUTDOWN", "locked")
  /\ \/ /\ lock' = Free
        /\ Answer(p)
        /\ UNCHANGED <<listVars, monitored>>
     \/ pids # {} /\ Raise(p)
  /\ UNCHANGED <<procVars, critical, timeVars, loopVars>>

Handler(p) ==
  \/ Check(p) \/ TestFlag(p) \/ Mark(p) \/ NoProcess(p) \/ Inject(p) \/ Stamp(p)
  \/ Acquire(p)
  \/ Loaded(p) \/ InjectProcess(p) \/ Kill(p) \/ Shutdown(p)

-----------------------------------------------------------------------------
(* The analysis loop. *)

LoopTo(place) == loop' = place /\ UNCHANGED <<timedOut, ended, visited, current>>
Leave(why, flag) ==
  /\ loop' = "stop" /\ ended' = why /\ timedOut' = flag
  /\ UNCHANGED <<visited, current>>

\* Mutant: the lock is tested before the timeout is.
TopLockFirst ==
  /\ loop = "top"
  /\ lock = Free
  /\ CASE over = "stopped" -> Leave("stopped", timedOut)
       [] over = "timeout" -> Leave("timeout", TRUE)
       [] OTHER            -> LoopTo("test")
  /\ UNCHANGED <<procVars, call, lock, listVars, hostVars, timeVars>>

\* do_run, the timeout, the termination folder: each leaves the loop.
Top ==
  /\ loop = "top"
  /\ CASE over = "stopped" -> Leave("stopped", timedOut)
       [] over = "timeout" -> Leave("timeout", TRUE)
       [] OTHER            -> LoopTo("test")
  /\ UNCHANGED <<procVars, call, lock, listVars, hostVars, timeVars>>

\* process_lock.locked(): come back later.  It is only looked at.
TestLock ==
  /\ loop = "test"
  /\ LoopTo(IF lock # Free THEN "top" ELSE IF PidCheck THEN "scan" ELSE "check")
  /\ UNCHANGED <<procVars, call, lock, listVars, hostVars, timeVars>>

\* The dead processes go off the list.  The code removes from the list it
\* iterates over, so one that follows another may stay for the next pass.
Scan ==
  /\ loop = "scan"
  /\ LET dead == {p \in pids : ~Alive(p)} IN
     \E D \in SUBSET dead :
       /\ dead # {} => D # {}
       /\ pids' = pids \ D
  /\ LoopTo("judge")
  /\ UNCHANGED <<procVars, call, lock, leaving, injectList, hostVars, timeVars>>

\* Mutants: the two clocks are mixed up; the injections of the last 15
\* seconds do not count.
JudgeWrongClock ==
  /\ loop = "judge"
  /\ pids = {} /\ since # "recent" /\ emptyFor = "no"
  /\ emptyFor' = since /\ LoopTo("check")
  /\ UNCHANGED <<procVars, call, lock, listVars, hostVars, since, over>>
JudgeImpatient ==
  /\ loop = "judge"
  /\ \E related \in BOOLEAN :
     IF pids # {} \/ related
     THEN emptyFor' = "no" /\ LoopTo("check")
     ELSE IF emptyFor = "old"
     THEN /\ IF Interactive THEN LoopTo("top") ELSE Leave("empty", timedOut)
          /\ UNCHANGED emptyFor
     ELSE emptyFor' = "recent" /\ LoopTo("check")
  /\ UNCHANGED <<procVars, call, lock, listVars, hostVars, since, over>>

\* Is the list empty, no service related to the sample alive, and no process
\* injected within 15 seconds - and has this been so for 5 seconds?
Judge ==
  /\ loop = "judge"
  /\ \E related \in BOOLEAN :
     IF pids # {} \/ related \/ since = "recent"
     THEN emptyFor' = "no" /\ LoopTo("check")
     ELSE IF emptyFor = "old"
     THEN /\ IF Interactive THEN LoopTo("top") ELSE Leave("empty", timedOut)
          /\ UNCHANGED emptyFor
     ELSE emptyFor' = "recent" /\ LoopTo("check")
  /\ UNCHANGED <<procVars, call, lock, listVars, hostVars, since, over>>

\* package.check()
CheckPackage ==
  /\ loop = "check"
  /\ LoopTo("top") \/ Leave("package", timedOut)
  /\ UNCHANGED <<procVars, call, lock, listVars, hostVars, timeVars>>

\* "Tell all processes to complete their monitoring": the next one on the
\* list, which handlers still extend; wait for it if it is to be terminated.
\* One that cannot be told, or that is critical, is spared.
Tell ==
  /\ loop = "stop"
  /\ IF pids \subseteq visited
     THEN loop' = "done" /\ UNCHANGED <<visited, current>>
     ELSE \E p \in pids \ visited, spared \in BOOLEAN :
            /\ visited' = visited \cup {p}
            /\ IF TerminateProcesses /\ Alive(p) /\ p \notin critical /\ ~spared
               THEN loop' = "wait" /\ current' = p
               ELSE UNCHANGED <<loop, current>>
  /\ UNCHANGED <<procVars, call, lock, listVars, hostVars, timeVars, timedOut, ended>>

\* proc.terminate(), once the process has had its time.
Terminate ==
  /\ loop = "wait"
  /\ Alive(current)
  /\ life' = [life EXCEPT ![current] = "dead"]
  /\ UNCHANGED <<loaded, injected, call, lock, listVars, hostVars, timeVars, loopVars>>

\* while proc.is_alive()
Waited ==
  /\ loop = "wait"
  /\ ~Alive(current)
  /\ loop' = "stop" /\ current' = Root
  /\ UNCHANGED <<procVars, call, lock, listVars, hostVars, timeVars, timedOut, ended, visited>>

Loop ==
  \/ Top \/ TestLock \/ Scan \/ Judge \/ CheckPackage
  \/ Tell \/ Terminate \/ Waited

-----------------------------------------------------------------------------

Next == Environment \/ Loop \/ \E p \in Pid : Handler(p)

\* Threads that can run are scheduled, and the configured timeout passes.
\* Acquiring is strongly fair: the lock is handed to one of its waiters.  A
\* terminate() that is repeated every second succeeds in the end.
Fairness ==
  /\ WF_vars(Loop)
  /\ WF_vars(Expire)
  /\ \A p \in Pid : WF_vars(Handler(p)) /\ SF_vars(Acquire(p))

Spec == Init /\ [][Next]_vars /\ Fairness

-----------------------------------------------------------------------------
(* Properties. *)

\* The handler of one of p's commands is dealing with c.
DealsWith(p, c) == call[p] # Idle /\ call[p].arg = c

\* The analysis is not ended for want of processes while a process of the
\* sample runs with the monitor in it (analysis_loop against the handlers).
\* Two exceptions: its own death has been announced by a KILL; or that of the
\* process whose announcement is just being handled has, so that neither of
\* the two is on the list.
NoLiveProcessAbandoned ==
  [][ended' = "empty" /\ ended = "no" =>
       \A c \in Pid : Alive(c) /\ injected[c] > 0 =>
         c \in leaving \/ \E p \in leaving : DealsWith(p, c)]_vars

\* The analysis ends, whatever the processes do and even if process_lock is
\* never released again.
AnalysisEnds == <>(loop = "done")

\* "If the process lock is locked, it means that something is operating on
\* the list of monitored processes" (analysis_loop).
LockMeansOperating == lock # Free => At(lock, "locked")

=============================================================================
