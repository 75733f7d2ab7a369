----------------------------- MODULE JobManager -----------------------------
(***************************************************************************)
(* The analysis jobs of the MCP server: AnalysisJobManager of             *)
(* CAPEsolo/mcp_server.py, the thread it starts for every accepted job,   *)
(* and the process-wide objects those threads share - the debugger        *)
(* session, the ResultServer singleton, the root logger, the analysis     *)
(* directory, the termination folder and the analyzer's module globals.   *)
(*                                                                         *)
(* The manager's lock covers only the job table.  Everything else is      *)
(* touched by a worker thread outside it, and a worker clears the active  *)
(* job BEFORE it runs its finally block, so the cleanup of one job and    *)
(* the set-up of the next are two threads on the same objects.            *)
(***************************************************************************)
EXTENDS Naturals, FiniteSets

CONSTANTS
  Job,       \* job identifiers (uuid4 hex strings)
  NoJob,     \* None
  LogFaults  \* bound: the values of `polite` with which opening analysis.log
             \* may fail (BOOLEAN in the code)

ASSUME NoJobIsNoJob == NoJob \notin Job
ASSUME LogFaultsBound == LogFaults \subseteq BOOLEAN

VARIABLES
  state,        \* [Job -> job["state"]], "absent" while not in _jobs
  active,       \* _active_job_id
  pc,           \* [Job -> place of the job's worker thread]
  cancelCall,   \* [Job -> progress of a cancel() call on this job]
  killFolder,   \* the md5("cape-<id>") folder exists in TMP
  timedOut,     \* analyzer.ANALYSIS_TIMED_OUT, a module global
  endedBy,      \* [Job -> how the analysis loop was left] (ghost)
  dbg,          \* self._debugger, named by the job that created it
  pipes,        \* jobs whose debugger pipe server is running
  single,       \* Singleton._instances[ResultServer], by its creator
  server,       \* [Job -> condition of the ResultServer the job built]
  mine,         \* [Job -> the ResultServer held in _run_job's local]
  rootLevel,    \* level of the root logger
  restore,      \* [Job -> root level its log handler saved], "none" without one
  dir,          \* what the one analysis directory of all jobs holds of each
  report,       \* [Job -> what its cached report was built from, {} without one]
  polite,       \* the client submits only when no worker is left running
  prompt        \* and has asked for the report of every completed job by then

jobVars    == <<state, active>>
stopVars   == <<killFolder, timedOut, endedBy>>
dbgVars    == <<dbg, pipes>>
srvVars    == <<single, server, mine>>
logVars    == <<rootLevel, restore>>
dirVars    == <<dir, report>>
client     == <<polite, prompt>>
vars == <<jobVars, pc, cancelCall, stopVars, dbgVars, srvVars, logVars, dirVars, client>>

-----------------------------------------------------------------------------
(* Values. *)

Live     == {"queued", "running"}
Terminal == {"completed", "failed"}
State    == {"absent"} \cup Live \cup Terminal

\* The worker's statements, in order.  Everything from "dbgCheck" on is its
\* finally block; "crashed" is a thread whose finally block was itself left
\* by an exception.
SetUp     == {"server", "debugger", "launch", "start"}
Analysing == {"loop", "poll"}
InRun     == SetUp \cup Analysing \cup {"finish"}
CleanUp   == {"dbgCheck", "dbgShut", "dbgClear", "shutdown", "drain", "restore"}
Ended     == {"done", "crashed"}
PC        == {"none", "begin"} \cup InRun \cup CleanUp \cup Ended

\* What the analysis directory may hold of a job: its sample copy, the artifacts of
\* its run, the uploads that came after the run.  Nothing is ever removed from it.
Artifact == Job \X {"sample", "run", "late"}
Of(j)    == {a \in Artifact : a[1] = j}

JobOrNone == Job \cup {NoJob}

TypeOK ==
  /\ state \in [Job -> State]
  /\ active \in JobOrNone
  /\ pc \in [Job -> PC]
  /\ cancelCall \in [Job -> {"none", "checked", "signalled"}]
  /\ killFolder \in BOOLEAN
  /\ timedOut \in BOOLEAN
  /\ endedBy \in [Job -> {"no", "request", "other"}]
  /\ dbg \in JobOrNone
  /\ pipes \in SUBSET Job
  /\ single \in JobOrNone
  /\ server \in [Job -> {"none", "up", "closing", "stopped"}]
  /\ mine \in [Job -> JobOrNone]
  /\ rootLevel \in {"base", "debug"}
  /\ restore \in [Job -> {"none", "base", "debug"}]
  /\ dir \subseteq Artifact
  /\ report \in [Job -> SUBSET Artifact]
  /\ polite \in BOOLEAN /\ prompt \in BOOLEAN

Init ==
  /\ state = [j \in Job |-> "absent"]
  /\ active = NoJob
  /\ pc = [j \in Job |-> "none"]
  /\ cancelCall = [j \in Job |-> "none"]
  /\ killFolder = FALSE
  /\ timedOut = FALSE
  /\ endedBy = [j \in Job |-> "no"]
  /\ dbg = NoJob
  /\ pipes = {}
  /\ single = NoJob
  /\ server = [j \in Job |-> "none"]
  /\ mine = [j \in Job |-> NoJob]
  /\ rootLevel = "base"
  /\ restore = [j \in Job |-> "none"]
  /\ dir = {}
  /\ report = [j \in Job |-> {}]
  /\ polite \in BOOLEAN /\ prompt \in {FALSE, polite}

-----------------------------------------------------------------------------
(* Helpers. *)

\* A worker thread of the job exists and has not returned.
Running(j) == pc[j] \notin {"none"} \cup Ended

Goto(j, place) == pc' = [pc EXCEPT ![j] = place]

\* The client submits another job: the server lets it do so at any time.
Permitted ==
  /\ polite => \A k \in Job : ~Running(k)
  /\ prompt => \A k \in Job : state[k] = "completed" => report[k] # {}

\* Mutant: a failed job keeps the slot.
ActiveAfterFailureKept(j, s) == IF s = "completed" THEN NoJob ELSE active

\* _set_job: the active job is forgotten with its terminal state, and only
\* if it still is this job.
ActiveAfter(j, s) == IF s \in Terminal /\ active = j THEN NoJob ELSE active
SetState(j, s) ==
  /\ state' = [state EXCEPT ![j] = s]
  /\ active' = ActiveAfter(j, s)

-----------------------------------------------------------------------------
(* The tool calls. *)

\* Mutant: submit() does not look at the active slot.
SubmitUnchecked(j) ==
  /\ state[j] = "absent"
  /\ Permitted
  /\ state' = [state EXCEPT ![j] = "queued"]
  /\ active' = j
  /\ Goto(j, "begin")
  /\ UNCHANGED <<cancelCall, stopVars, dbgVars, srvVars, logVars, dirVars, client>>

\* submit(): one critical section tests and takes the active slot; the
\* worker thread starts after it.
Submit(j) ==
  /\ state[j] = "absent"
  /\ active = NoJob
  /\ Permitted
  /\ state' = [state EXCEPT ![j] = "queued"]
  /\ active' = j
  /\ Goto(j, "begin")
  /\ UNCHANGED <<cancelCall, stopVars, dbgVars, srvVars, logVars, dirVars, client>>

\* cancel(), under the lock: is this the job that is active?
CancelCheck(j) ==
  /\ cancelCall[j] = "none"
  /\ state[j] \in Live
  /\ active = j
  /\ cancelCall' = [cancelCall EXCEPT ![j] = "checked"]
  /\ UNCHANGED <<jobVars, pc, stopVars, dbgVars, srvVars, logVars, dirVars, client>>

\* Mutants: cancel() writes the state it returns; cancel() sends no signal.
CancelSignalState(j) ==
  /\ cancelCall[j] = "checked"
  /\ killFolder' = TRUE
  /\ cancelCall' = [cancelCall EXCEPT ![j] = "signalled"]
  /\ state' = [state EXCEPT ![j] = "running"]
  /\ UNCHANGED <<active, pc, timedOut, endedBy, dbgVars, srvVars, logVars, dirVars, client>>
CancelSignalLost(j) ==
  /\ cancelCall[j] = "checked"
  /\ cancelCall' = [cancelCall EXCEPT ![j] = "signalled"]
  /\ UNCHANGED <<jobVars, pc, stopVars, dbgVars, srvVars, logVars, dirVars, client>>

\* cancel(), after the lock: create the termination folder.  Its name holds
\* the analysis id, which is the same for every job.
CancelSignal(j) ==
  /\ cancelCall[j] = "checked"
  /\ killFolder' = TRUE
  /\ cancelCall' = [cancelCall EXCEPT ![j] = "signalled"]
  /\ UNCHANGED <<jobVars, pc, timedOut, endedBy, dbgVars, srvVars, logVars, dirVars, client>>

\* Mutant: get_results() does not wait for "completed".
GetResultsEarly(j) ==
  /\ state[j] # "absent"
  /\ report[j] = {}
  /\ report' = [report EXCEPT ![j] = dir]
  /\ UNCHANGED <<jobVars, pc, cancelCall, stopVars, dbgVars, srvVars, logVars, dir, client>>

\* get_results() and _compute_results(): the first call builds the report
\* from the directory all jobs share - from whatever that holds by then - and
\* later calls return the cached one.
GetResults(j) ==
  /\ state[j] = "completed"
  /\ report[j] = {}
  /\ report' = [report EXCEPT ![j] = dir]
  /\ UNCHANGED <<jobVars, pc, cancelCall, stopVars, dbgVars, srvVars, logVars, dir, client>>

-----------------------------------------------------------------------------
(* The worker thread: _run_job. *)

\* _install_analysis_log_handler: remember the root level and lower it, or
\* (analysis.log cannot be opened) do nothing.
InstallLog(j) ==
  \/ /\ restore' = [restore EXCEPT ![j] = rootLevel]
     /\ rootLevel' = "debug"
  \/ polite \in LogFaults /\ UNCHANGED logVars

\* The worker starts: its log handler, the job is running, and the sample is
\* copied into the analysis directory.
Begin(j) ==
  /\ pc[j] = "begin"
  /\ InstallLog(j)
  /\ SetState(j, "running")
  /\ dir' = dir \cup {<<j, "sample">>}
  /\ Goto(j, "server")
  /\ UNCHANGED <<cancelCall, stopVars, dbgVars, srvVars, report, client>>

\* Mutant: a state no client knows.
FailOddly(j) == SetState(j, "cancelled") /\ Goto(j, "dbgCheck")

\* The except clause of _run_job: the job has failed, clean up.
Fail(j) == SetState(j, "failed") /\ Goto(j, "dbgCheck")

\* What follows ResultServer(...) and analyzer.prepare(): a debugger, if the
\* job was submitted with interactive_debug.
AfterServer(j) == \E place \in {"debugger", "start"} : Goto(j, place)

\* ResultServer(...): the singleton, if there is one, whatever its condition;
\* else a new server.  A port that cannot be bound is a Raise.
GetServer(j) ==
  /\ pc[j] = "server"
  /\ \/ /\ single # NoJob
        /\ mine' = [mine EXCEPT ![j] = single]
        /\ AfterServer(j)
        /\ UNCHANGED <<single, server>>
     \/ /\ single = NoJob
        /\ \A k \in Job : server[k] # "up"
        /\ single' = j
        /\ server' = [server EXCEPT ![j] = "up"]
        /\ mine' = [mine EXCEPT ![j] = j]
        /\ AfterServer(j)
  /\ UNCHANGED <<jobVars, cancelCall, stopVars, dbgVars, logVars, dirVars, client>>

\* self._debugger = DebuggerSession()
NewDebugger(j) ==
  /\ pc[j] = "debugger"
  /\ dbg' = j
  /\ Goto(j, "launch")
  /\ UNCHANGED <<jobVars, cancelCall, stopVars, pipes, srvVars, logVars, dirVars, client>>

\* self._debugger.launch(), which reads the attribute again.
LaunchDebugger(j) ==
  /\ pc[j] = "launch"
  /\ IF dbg = NoJob
     THEN Fail(j) /\ UNCHANGED pipes
     ELSE Goto(j, "start") /\ pipes' = pipes \cup {dbg} /\ UNCHANGED jobVars
  /\ UNCHANGED <<cancelCall, stopVars, dbg, srvVars, logVars, dirVars, client>>

\* analyzer.run() up to its loop; it may also return without a result.
Start(j) ==
  /\ pc[j] = "start"
  /\ \E place \in {"loop", "finish"} : Goto(j, place)
  /\ UNCHANGED <<jobVars, cancelCall, stopVars, dbgVars, srvVars, logVars, dirVars, client>>

\* Staging, binding the port, prepare(), the debugger and the package may
\* all raise.
Raise(j) ==
  /\ pc[j] \in SetUp
  /\ Fail(j)
  /\ UNCHANGED <<cancelCall, stopVars, dbgVars, srvVars, logVars, dirVars, client>>

\* What the sample's processes sent is stored if the server was listening.
Stored(j) == IF server[mine[j]] = "up" THEN dir \cup {<<j, "run">>} ELSE dir

\* Leaving analysis_loop for reason `why`.
LeaveLoop(j, why) ==
  /\ endedBy' = [endedBy EXCEPT ![j] = why]
  /\ dir' = Stored(j)
  /\ Goto(j, "finish")
  /\ UNCHANGED <<jobVars, cancelCall, killFolder, dbgVars, srvVars, logVars, report, client>>

LoopTimeout(j) ==
  /\ pc[j] = "loop"
  /\ timedOut' = TRUE
  /\ LeaveLoop(j, "other")

LoopKilled(j) ==
  /\ pc[j] = "loop"
  /\ killFolder
  /\ timedOut' = TRUE
  /\ LeaveLoop(j, "request")

LoopFlagged(j) ==
  /\ pc[j] = "loop"
  /\ ~killFolder
  /\ timedOut
  /\ LeaveLoop(j, "other")
  /\ UNCHANGED timedOut

\* None of the three: look at the processes and the package.
LoopPass(j) ==
  /\ pc[j] = "loop"
  /\ ~killFolder
  /\ ~timedOut
  /\ Goto(j, "poll")
  /\ UNCHANGED <<jobVars, cancelCall, stopVars, dbgVars, srvVars, logVars, dirVars, client>>

LoopEmpty(j) ==
  /\ pc[j] = "poll"
  /\ LeaveLoop(j, "other")
  /\ UNCHANGED timedOut

LoopAgain(j) ==
  /\ pc[j] = "poll"
  /\ Goto(j, "loop")
  /\ UNCHANGED <<jobVars, cancelCall, stopVars, dbgVars, srvVars, logVars, dirVars, client>>

\* The run is over: publish the result.  From here on the job is no longer
\* the active one, and the finally block is still to come.
Finish(j) ==
  /\ pc[j] = "finish"
  /\ SetState(j, IF endedBy[j] = "no" THEN "failed" ELSE "completed")
  /\ Goto(j, "dbgCheck")
  /\ UNCHANGED <<cancelCall, stopVars, dbgVars, srvVars, logVars, dirVars, client>>

-----------------------------------------------------------------------------
(* The worker thread: the finally block and _cleanup_analyzer. *)

\* if self._debugger:
DbgCheck(j) ==
  /\ pc[j] = "dbgCheck"
  /\ Goto(j, IF dbg = NoJob THEN "shutdown" ELSE "dbgShut")
  /\ UNCHANGED <<jobVars, cancelCall, stopVars, dbgVars, srvVars, logVars, dirVars, client>>

\* self._debugger.shutdown(): an AttributeError on None leaves the finally
\* block, and the rest of it never runs.
DbgShutdown(j) ==
  /\ pc[j] = "dbgShut"
  /\ Goto(j, IF dbg = NoJob THEN "crashed" ELSE "dbgClear")
  /\ pipes' = pipes \ {dbg}
  /\ UNCHANGED <<jobVars, cancelCall, stopVars, dbg, srvVars, logVars, dirVars, client>>

\* self._debugger = None
DbgClear(j) ==
  /\ pc[j] = "dbgClear"
  /\ dbg' = NoJob
  /\ Goto(j, "shutdown")
  /\ UNCHANGED <<jobVars, cancelCall, stopVars, pipes, srvVars, logVars, dirVars, client>>

\* shutdown_server(), first half: the listener closes.
Shutdown(j) ==
  /\ pc[j] = "shutdown"
  /\ IF mine[j] = NoJob
     THEN Goto(j, "restore") /\ UNCHANGED server
     ELSE /\ Goto(j, "drain")
          /\ server' = [server EXCEPT ![mine[j]] = IF @ = "up" THEN "closing" ELSE @]
  /\ UNCHANGED <<jobVars, cancelCall, stopVars, dbgVars, single, mine, logVars, dirVars, client>>

\* Mutant: the singleton keeps the stopped server.
DrainKeepsInstance(j) ==
  /\ pc[j] = "drain"
  /\ Goto(j, "restore")
  /\ server' = [server EXCEPT ![mine[j]] = "stopped"]
  /\ UNCHANGED <<jobVars, cancelCall, stopVars, dbgVars, single, mine, logVars, dirVars, client>>

\* shutdown_server(), second half: what upload_files("debugger") and
\* ("tlsdump") sent after the run, and the uploads still in flight, are
\* stored, if there were any; the thread is joined, and _forget_instance
\* drops whatever instance is registered.
Drain(j) ==
  /\ pc[j] = "drain"
  /\ Goto(j, "restore")
  /\ server' = [server EXCEPT ![mine[j]] = "stopped"]
  /\ single' = NoJob
  /\ \/ /\ server[mine[j]] = "closing"
        /\ dir' = dir \cup {<<j, "late">>}
     \/ UNCHANGED dir
  /\ UNCHANGED <<jobVars, cancelCall, stopVars, dbgVars, mine, logVars, report, client>>

\* Mutant: the handler goes, the levels stay.
RestoreNothing(j) ==
  /\ pc[j] = "restore"
  /\ Goto(j, "done")
  /\ restore' = [restore EXCEPT ![j] = "none"]
  /\ UNCHANGED <<jobVars, cancelCall, stopVars, dbgVars, srvVars, rootLevel, dirVars, client>>

\* _remove_analysis_log_handler
RestoreLog(j) ==
  /\ pc[j] = "restore"
  /\ Goto(j, "done")
  /\ rootLevel' = IF restore[j] = "none" THEN rootLevel ELSE restore[j]
  /\ restore' = [restore EXCEPT ![j] = "none"]
  /\ UNCHANGED <<jobVars, cancelCall, stopVars, dbgVars, srvVars, dirVars, client>>

-----------------------------------------------------------------------------

Loop(j) ==
  \/ LoopTimeout(j) \/ LoopKilled(j) \/ LoopFlagged(j)
  \/ LoopPass(j) \/ LoopEmpty(j) \/ LoopAgain(j)

SetUpStep(j) ==
  \/ Begin(j) \/ GetServer(j)
  \/ NewDebugger(j) \/ LaunchDebugger(j) \/ Start(j) \/ Raise(j)

CleanUpStep(j) ==
  \/ DbgCheck(j) \/ DbgShutdown(j) \/ DbgClear(j)
  \/ Shutdown(j) \/ Drain(j) \/ RestoreLog(j)

Worker(j) == SetUpStep(j) \/ Loop(j) \/ Finish(j) \/ CleanUpStep(j)

Call(j) ==
  \/ Submit(j)
  \/ CancelCheck(j)
  \/ CancelSignal(j)
  \/ GetResults(j)

Next == \E j \in Job : Worker(j) \/ Call(j)

\* A thread that can run is eventually scheduled, and a cancel() call that
\* has been admitted returns.  Nothing makes a sample end or a clock expire:
\* no step out of the analysis loop is fair by itself.
Spec ==
  /\ Init /\ [][Next]_vars
  /\ \A j \in Job : WF_vars(Worker(j)) /\ WF_vars(CancelSignal(j))

-----------------------------------------------------------------------------
(* Properties. *)

\* The active slot and the job table agree: the active job is the one and
\* only job that is queued or running.
ActiveIsLive == \A j \in Job : (active = j) <=> (state[j] \in Live)

\* Two jobs are never set up or analysed at the same time: the analyzer, its
\* pipes and its configuration file are one per process.
OneAnalysis ==
  \A i, j \in Job : pc[i] \in InRun /\ pc[j] \in InRun => i = j

\* A published result is never taken back: whatever a worker still does in
\* its finally block, the state a client polled for stays.
TerminalIsFinal ==
  [][\A j \in Job : state[j] \in Terminal => state'[j] = state[j]]_vars

\* A cancel() that was admitted ends the job, even if the sample never exits
\* and the timeout never comes.
CancelEndsJob ==
  \A j \in Job : cancelCall[j] = "checked" ~> state[j] \in Terminal

\* A job that has been handed a ResultServer has a working one until its run
\* is over (see _forget_instance in capelib/resultserver.py).
HandedServerWorks ==
  \A j \in Job :
    pc[j] \in InRun /\ mine[j] # NoJob => server[mine[j]] = "up"

\* The same for a client that leaves the last worker time to return before it
\* submits again.  No tool tells it when that is.
PoliteServerWorks == polite => HandedServerWorks

\* For such a client nothing of a job outlives its worker: no server, no
\* debugger pipe, no log handler, and the root logger at its old level.
PoliteLeavesNothing ==
  polite /\ (\A j \in Job : ~Running(j)) =>
    /\ single = NoJob
    /\ \A j \in Job : server[j] # "up"
    /\ dbg = NoJob
    /\ pipes = {}
    /\ \A j \in Job : restore[j] = "none"
    /\ rootLevel = "base"

\* For such a client a report holds what the run of its job stored; and if it reads
\* each report before the next job, a report looks back only: of two jobs at most one
\* report mixes both.  It does mix them, as nothing empties the directory, and for a
\* client that reads later so do both, against mcp_server.py:966-968 ("no longer
\* changes once a job completes").
PoliteReportLooksBack ==
  \A j \in Job : report[j] # {} =>
    /\ polite => <<j, "run">> \in report[j]
    /\ prompt => \A k \in Job \ {j} :
         report[j] \cap Of(k) = {} \/ report[k] \cap Of(j) = {}

=============================================================================
