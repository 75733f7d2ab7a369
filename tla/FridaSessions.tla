---------------------------- MODULE FridaSessions ----------------------------
(***************************************************************************)
(* The Frida sessions of an analysis: FridaMuncher in                      *)
(* CAPEsolo/modules/auxiliary/frida_muncher.py.  A thread per tracked      *)
(* process (a worker) waits for capemon, attaches and loads the scripts.   *)
(* Attaching is a remote call that may hang, so it runs on a thread of its *)
(* own, which the worker waits for with a timeout, and which may have been *)
(* started early, as a ticket of the process.  stop() cleans up beside     *)
(* both, and joins neither.                                                *)
(*                                                                         *)
(* A worker is named by its process and the way it was enrolled.  A        *)
(* process that is a child and the target of an injection may get two.  An *)
(* attach call and its session are named by the worker that started it.    *)
(***************************************************************************)
EXTENDS Naturals, FiniteSets

CONSTANTS
  Root,        \* the process the package started
  Child,       \* processes the watcher may find
  Target,      \* processes an event may report as injected
  None,
  EarlyRoles,  \* roles for which the early attach is enabled
  MaxSessions, \* max_sessions
  MaxAttempts  \* attach_retries

Roles == {"root", "child", "injected"}

Proc   == {Root} \cup Child \cup Target
Worker == {<<Root, "root">>} \cup Child \X {"child"} \cup Target \X {"injected"}
Pid(w)  == w[1]
Role(w) == w[2]

ASSUME FridaConstants ==
  /\ Root \notin Child \cup Target
  /\ None \notin Proc \cup Worker
  /\ EarlyRoles \subseteq Roles
  /\ MaxSessions \in Nat \ {0} /\ MaxAttempts \in Nat \ {0}

VARIABLES
  alive,    \* processes that run
  lineage,  \* processes in self.lineage
  pending,  \* self.pending_identities
  seen,     \* process the watcher has found new, or None
  pc,       \* [Worker -> place in _instrument_process]
  attempts, \* [Worker -> attach attempts so far]
  waitOn,   \* [Worker -> attach call it waits for or has got, or None]
  rpc,      \* [Worker -> progress of the attach call it started]
  cancel,   \* attach calls whose cancel_event is set
  live,     \* attach calls whose Frida session is attached
  ticket,   \* [Proc -> its early attach call, or None]
  claimed,  \* processes whose ticket is claimed
  sessions, \* [Proc -> self.sessions, by attach call, or None]
  hooked,   \* sessions with a "detached" callback
  stop,     \* progress of stop()
  todo,     \* tickets stop() has still to look at
  taken     \* sessions stop() has taken from the table and has still to detach

procVars == <<alive, lineage, pending, seen>>
workVars == <<pc, attempts, waitOn>>
rpcVars  == <<rpc, cancel, live>>
tickVars == <<ticket, claimed>>
tabVars  == <<sessions, hooked>>
stopVars == <<stop, todo, taken>>
vars == <<procVars, workVars, rpcVars, tickVars, tabVars, stopVars>>

\* An attach call has returned when done_event is set: with a session in its
\* result, or with none.
Returned == {"session", "empty"}

TypeOK ==
  /\ alive \subseteq Proc /\ lineage \subseteq Proc /\ pending \subseteq Child \cup Target
  /\ seen \in Child \cup {None}
  /\ pc \in [Worker -> {"none", "sync", "policy", "claim", "mark", "begin",
                        "wait", "attached", "setup", "leaving", "done"}]
  /\ attempts \in [Worker -> 0..MaxAttempts]
  /\ waitOn \in [Worker -> Worker \cup {None}]
  /\ rpc \in [Worker -> {"none", "attaching", "tested"} \cup Returned]
  /\ cancel \subseteq Worker
  /\ live \subseteq Worker
  /\ ticket \in [Proc -> Worker \cup {None}]
  /\ claimed \subseteq Proc
  /\ sessions \in [Proc -> Worker \cup {None}]
  /\ hooked \subseteq Worker
  /\ stop \in {"no", "set", "tickets", "done"}
  /\ todo \subseteq Proc /\ taken \subseteq Worker

\* _run() has found the root and started the watcher and the root's worker.
Init ==
  /\ alive = Proc /\ lineage = {Root} /\ pending = {} /\ seen = None
  /\ pc = [w \in Worker |-> IF Role(w) = "root" THEN "sync" ELSE "none"]
  /\ attempts = [w \in Worker |-> 0]
  /\ waitOn = [w \in Worker |-> None]
  /\ rpc = [w \in Worker |-> "none"]
  /\ cancel = {} /\ live = {}
  /\ ticket = [p \in Proc |-> None] /\ claimed = {}
  /\ sessions = [p \in Proc |-> None] /\ hooked = {}
  /\ stop = "no" /\ todo = {} /\ taken = {}

-----------------------------------------------------------------------------
(* Helpers. *)

Goto(w, place) == pc' = [pc EXCEPT ![w] = place]

\* The worker goes on, and its process stays in `pending`.
Stay(w, place) == Goto(w, place) /\ UNCHANGED <<pending, attempts, waitOn>>

\* The worker returns, and its locals are gone; its finally clause takes the
\* process off `pending`.
Quit(w) ==
  /\ Goto(w, "done")
  /\ attempts' = [attempts EXCEPT ![w] = 0]
  /\ waitOn' = [waitOn EXCEPT ![w] = None]
  /\ pending' = pending \ {Pid(w)}

InTable == {p \in Proc : sessions[p] # None}

\* len(self.sessions) + len(self.pending_identities) < self.max_sessions
Room == Cardinality(InTable) + Cardinality(pending) < MaxSessions

-----------------------------------------------------------------------------
(* Enrolment. *)

\* _watch_descendants finds a process it does not know.
WatchCheck(p) ==
  /\ stop = "no"
  /\ seen = None
  /\ p \in Child \cap alive
  /\ p \notin lineage \cup pending
  /\ seen' = p
  /\ UNCHANGED <<alive, lineage, pending, workVars, rpcVars, tickVars, tabVars, stopVars>>

\* Having looked at it, the watcher adds it - without asking again - and
\* starts its worker if there is room.
WatchEnroll ==
  /\ seen # None
  /\ lineage' = lineage \cup {seen}
  /\ IF Room
     THEN pending' = pending \cup {seen} /\ Goto(<<seen, "child">>, "sync")
     ELSE UNCHANGED <<pending, pc>>
  /\ seen' = None
  /\ UNCHANGED <<alive, attempts, waitOn, rpcVars, tickVars, tabVars, stopVars>>

\* Mutant: the workers that have not attached yet take no room.
EnrollInjectedEager(p) ==
  /\ p \in Target \cap alive
  /\ p \notin lineage \cup pending
  /\ Cardinality(InTable) < MaxSessions
  /\ lineage' = lineage \cup {p}
  /\ pending' = pending \cup {p}
  /\ Goto(<<p, "injected">>, "sync")
  /\ UNCHANGED <<alive, seen, attempts, waitOn, rpcVars, tickVars, tabVars, stopVars>>

\* _schedule_injected_target: all of it under the lock.
EnrollInjected(p) ==
  /\ p \in Target \cap alive
  /\ p \notin lineage \cup pending
  /\ Room
  /\ lineage' = lineage \cup {p}
  /\ pending' = pending \cup {p}
  /\ Goto(<<p, "injected">>, "sync")
  /\ UNCHANGED <<alive, seen, attempts, waitOn, rpcVars, tickVars, tabVars, stopVars>>

-----------------------------------------------------------------------------
(* The attach call r: _attach_rpc_worker. *)

\* frida.attach() returns a session, and cancel_event and stop_event are tested
\* at once: a session that is late is detached.
AttachSucceeds(r) ==
  /\ rpc[r] = "attaching"
  /\ Pid(r) \in alive
  /\ IF r \in cancel \/ stop # "no"
     THEN rpc' = [rpc EXCEPT ![r] = "empty"] /\ UNCHANGED live
     ELSE rpc' = [rpc EXCEPT ![r] = "tested"] /\ live' = live \cup {r}
  /\ UNCHANGED <<procVars, workVars, cancel, tickVars, tabVars, stopVars>>

AttachFails(r) ==
  /\ rpc[r] = "attaching"
  /\ rpc' = [rpc EXCEPT ![r] = "empty"]
  /\ UNCHANGED <<procVars, workVars, cancel, live, tickVars, tabVars, stopVars>>

\* result["session"] = session, and done_event.
Publish(r) ==
  /\ rpc[r] = "tested"
  /\ rpc' = [rpc EXCEPT ![r] = "session"]
  /\ UNCHANGED <<procVars, workVars, cancel, live, tickVars, tabVars, stopVars>>

AttachCall(r) == AttachSucceeds(r) \/ AttachFails(r) \/ Publish(r)

-----------------------------------------------------------------------------
(* The worker w: _instrument_process. *)

\* The worker gives its process up before the attach: the process died, or
\* stop() was called.
Lost(w) ==
  /\ pc[w] \in {"sync", "policy"}
  /\ Pid(w) \notin alive \/ stop # "no"
  /\ Quit(w)
  /\ UNCHANGED <<alive, lineage, seen, rpcVars, tickVars, tabVars, stopVars>>

\* _wait_for_capemon; when capemon is mapped, the attach may start early.
Sync(w) ==
  /\ pc[w] = "sync"
  /\ Pid(w) \in alive /\ stop = "no"
  /\ \/ /\ Role(w) \in EarlyRoles /\ ticket[Pid(w)] = None
        /\ ticket' = [ticket EXCEPT ![Pid(w)] = w]
        /\ rpc' = [rpc EXCEPT ![w] = "attaching"]
     \/ UNCHANGED <<ticket, rpc>>
  /\ Goto(w, IF Role(w) = "child" THEN "policy" ELSE "claim")
  /\ UNCHANGED <<procVars, attempts, waitOn, cancel, live, claimed, tabVars, stopVars>>

\* _wait_for_root_priority and _wait_for_child_attach_policy: attach now, or
\* leave the child to capemon.
Policy(w) ==
  /\ pc[w] = "policy"
  /\ Pid(w) \in alive /\ stop = "no"
  /\ \/ Stay(w, "claim")
     \/ Quit(w)
  /\ UNCHANGED <<alive, lineage, seen, rpcVars, tickVars, tabVars, stopVars>>

\* _claim_early_agent_attach: a ticket that is claimed ends the worker.
ClaimCheck(w) ==
  /\ pc[w] = "claim"
  /\ IF Pid(w) \in claimed
     THEN Quit(w)
     ELSE Stay(w, IF ticket[Pid(w)] = None THEN "begin" ELSE "mark")
  /\ UNCHANGED <<alive, lineage, seen, rpcVars, tickVars, tabVars, stopVars>>

ClaimMark(w) ==
  /\ pc[w] = "mark"
  /\ claimed' = claimed \cup {Pid(w)}
  /\ waitOn' = [waitOn EXCEPT ![w] = ticket[Pid(w)]]
  /\ attempts' = [attempts EXCEPT ![w] = 1]
  /\ Goto(w, "wait")
  /\ UNCHANGED <<procVars, rpcVars, ticket, tabVars, stopVars>>

\* Mutant: one attempt too many.
BeginOnceMore(w) ==
  /\ pc[w] = "begin"
  /\ \/ /\ Pid(w) \in alive /\ attempts[w] <= MaxAttempts
        /\ attempts' = [attempts EXCEPT ![w] = @ + 1]
        /\ rpc' = [rpc EXCEPT ![w] = "attaching"]
        /\ waitOn' = [waitOn EXCEPT ![w] = w]
        /\ Goto(w, "wait")
        /\ UNCHANGED pending
     \/ Quit(w) /\ UNCHANGED rpc
  /\ UNCHANGED <<alive, lineage, seen, cancel, live, tickVars, tabVars, stopVars>>

\* _attach_with_retry: the next attempt, unless there is no device, no
\* process, or no attempt left.
Begin(w) ==
  /\ pc[w] = "begin"
  /\ \/ /\ Pid(w) \in alive /\ attempts[w] < MaxAttempts
        /\ attempts' = [attempts EXCEPT ![w] = @ + 1]
        /\ rpc' = [rpc EXCEPT ![w] = "attaching"]
        /\ waitOn' = [waitOn EXCEPT ![w] = w]
        /\ Goto(w, "wait")
        /\ UNCHANGED pending
     \/ Quit(w) /\ UNCHANGED rpc
  /\ UNCHANGED <<alive, lineage, seen, cancel, live, tickVars, tabVars, stopVars>>

\* The call returned a session.  One of a process that died is to be detached.
GotSession(w) ==
  /\ pc[w] = "wait"
  /\ rpc[waitOn[w]] = "session"
  /\ Stay(w, IF Pid(w) \in alive THEN "attached" ELSE "leaving")
  /\ UNCHANGED <<alive, lineage, seen, rpcVars, tickVars, tabVars, stopVars>>

\* It returned none: try again, or do not.
GotNone(w) ==
  /\ pc[w] = "wait"
  /\ rpc[waitOn[w]] = "empty"
  /\ \/ Stay(w, "begin")
     \/ Quit(w)
  /\ UNCHANGED <<alive, lineage, seen, rpcVars, tickVars, tabVars, stopVars>>

\* Mutant: no timeout.
GiveUpNever(w) ==
  /\ pc[w] = "wait"
  /\ rpc[waitOn[w]] \notin Returned
  /\ Pid(w) \notin alive \/ stop # "no"
  /\ cancel' = cancel \cup {waitOn[w]}
  /\ Quit(w)
  /\ UNCHANGED <<alive, lineage, seen, rpc, live, tickVars, tabVars, stopVars>>

\* It has not returned when time is up, the process died, or stop() was
\* called.  (The last test of done_event and cancel_event.set() are one step:
\* a call that returns between them is one that does right after.)
GiveUp(w) ==
  /\ pc[w] = "wait"
  /\ rpc[waitOn[w]] \notin Returned
  /\ cancel' = cancel \cup {waitOn[w]}
  /\ Quit(w)
  /\ UNCHANGED <<alive, lineage, seen, rpc, live, tickVars, tabVars, stopVars>>

\* self.sessions[pid] = session, whatever was there and whatever stop() did;
\* then session.on("detached", ...), which may fail, or come too late.
Insert(w) ==
  /\ pc[w] = "attached"
  /\ sessions' = [sessions EXCEPT ![Pid(w)] = waitOn[w]]
  /\ hooked' \in {hooked, hooked \cup {waitOn[w]}}
  /\ Goto(w, "setup")
  /\ UNCHANGED <<procVars, attempts, waitOn, rpcVars, tickVars, stopVars>>

\* The set-up - create_script(), load() and unload(), which have no timeout - ends with
\* scripts that are ready.
SetupSucceeds(w) ==
  /\ pc[w] = "setup"
  /\ Quit(w)
  /\ UNCHANGED <<alive, lineage, seen, rpcVars, tickVars, tabVars, stopVars>>

\* Mutant: the session is forgotten and not detached.
SetupFailsAttached(w) ==
  /\ pc[w] = "setup"
  /\ sessions' = [sessions EXCEPT ![Pid(w)] = None]
  /\ Quit(w)
  /\ UNCHANGED <<alive, lineage, seen, rpcVars, tickVars, hooked, stopVars>>

\* A script cannot be loaded or is not ready in time.
SetupFails(w) ==
  /\ pc[w] = "setup"
  /\ sessions' = [sessions EXCEPT ![Pid(w)] = None]
  /\ Stay(w, "leaving")
  /\ UNCHANGED <<alive, lineage, seen, rpcVars, tickVars, hooked, stopVars>>

\* detach() of the worker's session, which has no timeout either.
Detach(w) ==
  /\ pc[w] = "leaving"
  /\ live' = live \ {waitOn[w]}
  /\ Quit(w)
  /\ UNCHANGED <<alive, lineage, seen, rpc, cancel, tickVars, tabVars, stopVars>>

WorkerStep(w) ==
  \/ Lost(w) \/ Sync(w) \/ Policy(w)
  \/ ClaimCheck(w) \/ ClaimMark(w) \/ Begin(w)
  \/ GotSession(w) \/ GotNone(w) \/ GiveUp(w)
  \/ Insert(w) \/ SetupSucceeds(w) \/ SetupFails(w) \/ Detach(w)

-----------------------------------------------------------------------------
(* The processes, Frida's callback, and stop(). *)

\* A process ends, and the sessions in it with it.
Die(p) ==
  /\ p \in alive
  /\ alive' = alive \ {p}
  /\ live' = live \ {r \in Worker : Pid(r) = p}
  /\ UNCHANGED <<lineage, pending, seen, workVars, rpc, cancel, tickVars, tabVars, stopVars>>

\* _on_session_detached forgets whatever session the process has.
OnDetached(r) ==
  /\ r \in hooked
  /\ r \notin live
  /\ sessions' = [sessions EXCEPT ![Pid(r)] = None]
  /\ hooked' = hooked \ {r}
  /\ UNCHANGED <<procVars, workVars, rpcVars, tickVars, stopVars>>

StopSet ==
  /\ stop = "no"
  /\ stop' = "set"
  /\ UNCHANGED <<procVars, workVars, rpcVars, tickVars, tabVars, todo, taken>>

StopSnapshot ==
  /\ stop = "set"
  /\ stop' = "tickets"
  /\ todo' = {p \in Proc : ticket[p] # None}
  /\ UNCHANGED <<procVars, workVars, rpcVars, tickVars, tabVars, taken>>

\* A ticket nobody claimed: cancel its call, or detach the session it has got.
StopTicket(p) ==
  /\ p \in todo
  /\ todo' = todo \ {p}
  /\ IF p \in claimed
     THEN UNCHANGED <<cancel, live>>
     ELSE IF rpc[ticket[p]] \in Returned
     THEN live' = live \ {ticket[p]} /\ UNCHANGED cancel
     ELSE cancel' = cancel \cup {ticket[p]} /\ UNCHANGED live
  /\ UNCHANGED <<procVars, workVars, rpc, tickVars, tabVars, stop, taken>>

\* The table is emptied, once, and what was in it detached.
StopSessions ==
  /\ stop = "tickets" /\ todo = {}
  /\ stop' = "done"
  /\ taken' = {sessions[p] : p \in InTable}
  /\ sessions' = [p \in Proc |-> None]
  /\ UNCHANGED <<procVars, workVars, rpcVars, tickVars, hooked, todo>>

StopDetach(r) ==
  /\ r \in taken
  /\ taken' = taken \ {r} /\ live' = live \ {r}
  /\ UNCHANGED <<procVars, workVars, rpc, cancel, tickVars, tabVars, stop, todo>>

Next ==
  \/ \E p \in Proc : WatchCheck(p) \/ EnrollInjected(p) \/ Die(p) \/ StopTicket(p)
  \/ \E w \in Worker : WorkerStep(w) \/ AttachCall(w) \/ OnDetached(w) \/ StopDetach(w)
  \/ WatchEnroll \/ StopSet \/ StopSnapshot \/ StopSessions

\* The worker is in a call of Frida that has no timeout.
InCall(w) == pc[w] \in {"setup", "leaving"}

\* The workers are threads, and each of their waits has a timeout, but for their own
\* calls of Frida; nothing need be asked of the root's.  Nothing is assumed of Frida:
\* an attach call, a set-up and a detach may never return.
Fairness ==
  \A w \in (Child \X {"child"}) \cup (Target \X {"injected"}) :
    WF_vars(~InCall(w) /\ WorkerStep(w))

Spec == Init /\ [][Next]_vars /\ Fairness

-----------------------------------------------------------------------------
(* Properties. *)

\* Two workers have been started for p: the watcher had found it new, and an
\* injection was reported, before it was enrolled.
Twice(p) ==
  \E v, w \in Worker : v # w /\ Pid(v) = p /\ Pid(w) = p /\ pc[v] # "none" /\ pc[w] # "none"

\* No more than max_sessions processes besides the root are attached or about
\* to be, through all enrolments, ends and callbacks - unless one of them was
\* enrolled twice.
SessionLimit ==
  (\A p \in Proc : ~Twice(p)) =>
    Cardinality((InTable \cup pending) \ {Root}) <= MaxSessions

\* The table has the session of r after stop() has emptied it.
LeftBehind(r) == stop = "done" /\ sessions[Pid(r)] = r

\* A session that nobody cancelled, in a process that was not enrolled twice, is in
\* the hands of somebody who has still to detach it as long as it lives: its attach
\* call, the ticket of its process, its worker, the table or stop(); the ticket and
\* the table count until stop() has looked at them.  One exception contradicts
\* frida_muncher.py:3785-3787, where stop() "still performs explicit cleanup": a worker
\* that was past its attach inserts its session into the table that stop() has emptied.
SessionAccounted ==
  \A r \in Worker : r \in live /\ r \notin cancel /\ ~Twice(Pid(r)) /\ ~LeftBehind(r) =>
    \/ rpc[r] \notin Returned
    \/ ticket[Pid(r)] = r /\ Pid(r) \notin claimed /\ stop # "done"
    \/ \E w \in Worker : waitOn[w] = r /\ pc[w] \in {"wait", "attached", "setup", "leaving"}
    \/ sessions[Pid(r)] = r
    \/ r \in taken

\* A process does not stay in `pending`, where it takes a place of max_sessions, even
\* if its attach call never returns: it leaves, or its worker has got a session and is
\* in another call of Frida, which no timeout ends.
PendingDrains ==
  \A p \in Child \cup Target :
    p \in pending ~> p \notin pending \/ \E w \in Worker : Pid(w) = p /\ InCall(w)

=============================================================================
