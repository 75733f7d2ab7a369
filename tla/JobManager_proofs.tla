-------------------------- MODULE JobManager_proofs --------------------------
(***************************************************************************)
(* Theorems about the two parts of the MCP server: about JobManager, for   *)
(* any set of jobs and any log faults, and in the second half about the    *)
(* debugger session of a job, DebugRendezvous, for any callers and any     *)
(* number of commands.                                                     *)
(***************************************************************************)
EXTENDS JobManager, DebugRendezvous, TLAPS

USE DEF Live, Terminal, State, SetUp, Analysing, InRun, CleanUp, Ended, PC,
        Artifact, JobOrNone, client

\* The variables of JobManager keep their types: no statement of a worker and
\* no tool call writes a value that another one does not expect.
THEOREM TypeCorrect == Spec => []TypeOK
<1>1. Init => TypeOK
  <2> SUFFICES ASSUME Init PROVE TypeOK
    OBVIOUS
  <2>1. polite \in BOOLEAN /\ prompt \in BOOLEAN
    BY DEF Init
  <2>2. killFolder \in BOOLEAN /\ timedOut \in BOOLEAN
    BY DEF Init
  <2> QED
    BY <2>1, <2>2 DEF Init, TypeOK
<1>2. TypeOK /\ [Next]_vars => TypeOK'
  <2> SUFFICES ASSUME TypeOK, [Next]_vars PROVE TypeOK'
    OBVIOUS
  <2> USE DEF TypeOK, SetState, ActiveAfter, Goto, jobVars, stopVars, dbgVars,
              srvVars, logVars, dirVars
  <2>1. ASSUME NEW j \in Job, SetUpStep(j) PROVE TypeOK'
    <3>1. CASE Begin(j)
      BY <3>1 DEF Begin, InstallLog
    <3>2. CASE GetServer(j)
      BY <3>2 DEF GetServer, AfterServer
    <3>3. CASE NewDebugger(j)
      BY <3>3 DEF NewDebugger
    <3>4. CASE LaunchDebugger(j)
      BY <3>4 DEF LaunchDebugger, Fail
    <3>5. CASE Start(j)
      BY <3>5 DEF Start
    <3>6. CASE Raise(j)
      BY <3>6 DEF Raise, Fail
    <3> QED
      BY <2>1, <3>1, <3>2, <3>3, <3>4, <3>5, <3>6 DEF SetUpStep
  <2>2. ASSUME NEW j \in Job, Loop(j) PROVE TypeOK'
    <3>1. CASE LoopTimeout(j)
      BY <3>1 DEF LoopTimeout, LeaveLoop, Stored
    <3>2. CASE LoopKilled(j)
      BY <3>2 DEF LoopKilled, LeaveLoop, Stored
    <3>3. CASE LoopFlagged(j)
      BY <3>3 DEF LoopFlagged, LeaveLoop, Stored
    <3>4. CASE LoopPass(j)
      BY <3>4 DEF LoopPass
    <3>5. CASE LoopEmpty(j)
      BY <3>5 DEF LoopEmpty, LeaveLoop, Stored
    <3>6. CASE LoopAgain(j)
      BY <3>6 DEF LoopAgain
    <3> QED
      BY <2>2, <3>1, <3>2, <3>3, <3>4, <3>5, <3>6 DEF Loop
  <2>3. ASSUME NEW j \in Job, Finish(j) PROVE TypeOK'
    BY <2>3 DEF Finish
  <2>4. ASSUME NEW j \in Job, CleanUpStep(j) PROVE TypeOK'
    <3>1. CASE DbgCheck(j)
      BY <3>1 DEF DbgCheck
    <3>2. CASE DbgShutdown(j)
      BY <3>2 DEF DbgShutdown
    <3>3. CASE DbgClear(j)
      BY <3>3 DEF DbgClear
    <3>4. CASE Shutdown(j)
      BY <3>4 DEF Shutdown
    <3>5. CASE Drain(j)
      <4>1. dir' \subseteq Artifact
        BY <3>5 DEF Drain
      <4>2. server' \in [Job -> {"none", "up", "closing", "stopped"}] /\ pc' \in [Job -> PC]
        BY <3>5 DEF Drain
      <4> QED
        BY <3>5, <4>1, <4>2 DEF Drain
    <3>6. CASE RestoreLog(j)
      BY <3>6 DEF RestoreLog
    <3> QED
      BY <2>4, <3>1, <3>2, <3>3, <3>4, <3>5, <3>6 DEF CleanUpStep
  <2>5. ASSUME NEW j \in Job, Call(j) PROVE TypeOK'
    <3>1. CASE Submit(j)
      BY <3>1 DEF Submit
    <3>2. CASE CancelCheck(j)
      BY <3>2 DEF CancelCheck
    <3>3. CASE CancelSignal(j)
      BY <3>3 DEF CancelSignal
    <3>4. CASE GetResults(j)
      BY <3>4 DEF GetResults
    <3> QED
      BY <2>5, <3>1, <3>2, <3>3, <3>4 DEF Call
  <2>6. CASE UNCHANGED vars
    BY <2>6 DEF vars
  <2> QED
    BY <2>1, <2>2, <2>3, <2>4, <2>5, <2>6 DEF Next, Worker
<1> QED
  BY <1>1, <1>2, PTL DEF Spec

-----------------------------------------------------------------------------
(* The active slot.  ActiveIsLive alone is not inductive: nothing in it says *)
(* that the worker that is about to set a state is the active job's.         *)

\* The job whose worker has not published its result yet is the active one.
RunIsActive == \A j \in Job : pc[j] \in {"begin"} \cup InRun => active = j

\* A job the table does not hold has no worker.
AbsentIsIdle == \A j \in Job : state[j] = "absent" => pc[j] = "none"

SlotInv == ActiveIsLive /\ RunIsActive /\ AbsentIsIdle

\* What a step does to the slot: it leaves it and the places that matter
\* alone, it takes it for a job that is not live, it moves the active job
\* between live states, or it frees it with that job's terminal state.
SlotKept ==
  /\ active' = active
  /\ \A j \in Job : (state'[j] \in Live) <=> (state[j] \in Live)
  /\ \A j \in Job : state[j] \in Terminal => state'[j] = state[j]
  /\ \A j \in Job : (state'[j] = "absent") <=> (state[j] = "absent")
  /\ \A j \in Job : pc'[j] \in {"begin"} \cup InRun => pc[j] \in {"begin"} \cup InRun
  /\ \A j \in Job : pc[j] = "none" => pc'[j] = "none"
SlotTaken(j) ==
  /\ active = NoJob /\ active' = j
  /\ state[j] = "absent"
  /\ state' = [state EXCEPT ![j] = "queued"]
  /\ pc' = [pc EXCEPT ![j] = "begin"]
SlotFreed(j) ==
  /\ pc[j] \in InRun
  /\ active' = ActiveAfter(j, state'[j])
  /\ \E s \in Terminal : state' = [state EXCEPT ![j] = s]
  /\ pc' = [pc EXCEPT ![j] = "dbgCheck"]

SlotStep == SlotKept \/ \E j \in Job : SlotTaken(j) \/ SlotFreed(j)

\* The bookkeeping moves of a worker leave the slot alone.
LEMMA GotoKeepsSlot ==
  ASSUME TypeOK, NEW j \in Job, NEW place \in PC, Goto(j, place), UNCHANGED jobVars,
         pc[j] # "none",
         place \in {"begin"} \cup InRun => pc[j] \in {"begin"} \cup InRun
  PROVE  SlotKept
BY DEF TypeOK, Goto, jobVars, SlotKept

\* Every step of the specification is one of the three.
LEMMA StepsOfSlot ==
  ASSUME TypeOK, SlotInv, [Next]_vars
  PROVE  SlotStep
<1> USE DEF SlotInv
<1>1. ASSUME NEW j \in Job, Begin(j) PROVE SlotKept
  <2>1. active = j /\ state[j] \in Live
    BY <1>1 DEF Begin, RunIsActive, ActiveIsLive
  <2>2. active' = active /\ state' = [state EXCEPT ![j] = "running"]
    BY <1>1 DEF Begin, SetState, ActiveAfter
  <2>3. pc' = [pc EXCEPT ![j] = "server"] /\ pc[j] = "begin"
    BY <1>1 DEF Begin, Goto
  <2> QED
    BY <2>1, <2>2, <2>3 DEF TypeOK, SlotKept
<1>2. ASSUME NEW j \in Job, Raise(j) PROVE SlotFreed(j)
  BY <1>2 DEF Raise, Fail, SetState, Goto, SlotFreed, TypeOK
<1>3. ASSUME NEW j \in Job, LaunchDebugger(j) PROVE SlotKept \/ SlotFreed(j)
  <2>1. CASE dbg = NoJob
    BY <1>3, <2>1 DEF LaunchDebugger, Fail, SetState, Goto, SlotFreed, TypeOK
  <2>2. CASE dbg # NoJob
    BY <1>3, <2>2, GotoKeepsSlot DEF LaunchDebugger
  <2> QED
    BY <2>1, <2>2
<1>4. ASSUME NEW j \in Job, Finish(j) PROVE SlotFreed(j)
  BY <1>4 DEF Finish, SetState, Goto, SlotFreed, TypeOK
<1>5. ASSUME NEW j \in Job, GetServer(j) \/ NewDebugger(j) \/ Start(j) PROVE SlotKept
  BY <1>5, GotoKeepsSlot DEF GetServer, AfterServer, NewDebugger, Start
<1>6. ASSUME NEW j \in Job, Loop(j) PROVE SlotKept
  BY <1>6, GotoKeepsSlot
     DEF Loop, LoopTimeout, LoopKilled, LoopFlagged, LoopPass, LoopEmpty,
         LoopAgain, LeaveLoop
<1>7. ASSUME NEW j \in Job, CleanUpStep(j) PROVE SlotKept
  BY <1>7, GotoKeepsSlot
     DEF CleanUpStep, DbgCheck, DbgShutdown, DbgClear, Shutdown, Drain, RestoreLog
<1>8. ASSUME NEW j \in Job, Submit(j) PROVE SlotTaken(j)
  BY <1>8 DEF Submit, Goto, SlotTaken
<1>9. ASSUME NEW j \in Job, CancelCheck(j) \/ CancelSignal(j) \/ GetResults(j)
      PROVE  SlotKept
  BY <1>9 DEF CancelCheck, CancelSignal, GetResults, jobVars, SlotKept
<1>10. CASE UNCHANGED vars
  BY <1>10 DEF vars, jobVars, SlotStep, SlotKept
<1> QED
  BY <1>1, <1>2, <1>3, <1>4, <1>5, <1>6, <1>7, <1>8, <1>9, <1>10
     DEF SlotStep, Next, Worker, SetUpStep, CleanUpStep, Call

\* The slot invariant is inductive.
LEMMA SlotStepKeepsInv ==
  ASSUME TypeOK, TypeOK', SlotInv, SlotStep
  PROVE  SlotInv'
<1> USE NoJobIsNoJob DEF SlotInv, ActiveIsLive, RunIsActive, AbsentIsIdle
<1>1. CASE SlotKept
  BY <1>1 DEF SlotKept, TypeOK
<1>2. ASSUME NEW j \in Job, SlotTaken(j) PROVE SlotInv'
  <2>1. \A k \in Job : state[k] \notin Live /\ pc[k] \notin {"begin"} \cup InRun
    BY <1>2 DEF SlotTaken
  <2>2. \A k \in Job \ {j} : state'[k] = state[k] /\ pc'[k] = pc[k]
    BY <1>2 DEF SlotTaken, TypeOK
  <2>3. active' = j /\ state'[j] = "queued" /\ pc'[j] = "begin"
    BY <1>2 DEF SlotTaken, TypeOK
  <2> QED
    BY <2>1, <2>2, <2>3
<1>3. ASSUME NEW j \in Job, SlotFreed(j) PROVE SlotInv'
  <2>1. active = j
    BY <1>3 DEF SlotFreed
  <2>2. state'[j] \in Terminal /\ active' = NoJob /\ pc'[j] = "dbgCheck"
    BY <1>3, <2>1 DEF SlotFreed, ActiveAfter, TypeOK
  <2>3. \A k \in Job \ {j} : state'[k] = state[k] /\ pc'[k] = pc[k]
    BY <1>3 DEF SlotFreed, TypeOK
  <2> QED
    BY <2>1, <2>2, <2>3
<1> QED
  BY <1>1, <1>2, <1>3 DEF SlotStep

\* SlotInv holds in every reachable state.
LEMMA SlotInvHolds == Spec => []SlotInv
<1>1. Init => SlotInv
  BY NoJobIsNoJob DEF Init, SlotInv, ActiveIsLive, RunIsActive, AbsentIsIdle
<1>2. TypeOK /\ TypeOK' /\ SlotInv /\ [Next]_vars => SlotInv'
  BY StepsOfSlot, SlotStepKeepsInv
<1> QED
  BY <1>1, <1>2, TypeCorrect, PTL DEF Spec

\* The active slot and the job table agree, for any number of jobs: _set_job
\* clears the slot exactly when it ends the active job.
THEOREM ActiveJobIsLive == Spec => []ActiveIsLive
<1>1. SlotInv => ActiveIsLive
  BY DEF SlotInv
<1> QED
  BY <1>1, SlotInvHolds, PTL

\* Never two jobs in set-up or analysis at a time, though the workers of any
\* number of earlier jobs may still be cleaning up.
THEOREM OneAnalysisAtATime == Spec => []OneAnalysis
<1>1. SlotInv => OneAnalysis
  BY DEF SlotInv, RunIsActive, OneAnalysis
<1> QED
  BY <1>1, SlotInvHolds, PTL

\* No worker and no tool call takes a published result back.
THEOREM ResultsAreFinal == Spec => TerminalIsFinal
<1>1. TypeOK /\ SlotInv /\ [Next]_vars =>
        [\A j \in Job : state[j] \in Terminal => state'[j] = state[j]]_vars
  <2> SUFFICES ASSUME TypeOK, SlotInv, [Next]_vars,
                      NEW j \in Job, state[j] \in Terminal
               PROVE  state'[j] = state[j]
    OBVIOUS
  <2>1. CASE SlotKept
    BY <2>1 DEF SlotKept
  <2>2. ASSUME NEW k \in Job, SlotTaken(k) PROVE state'[j] = state[j]
    BY <2>2 DEF SlotTaken, TypeOK
  <2>3. ASSUME NEW k \in Job, SlotFreed(k) PROVE state'[j] = state[j]
    <3>1. state[k] \in Live
      BY <2>3 DEF SlotFreed, SlotInv, RunIsActive, ActiveIsLive
    <3> QED
      BY <2>3, <3>1 DEF SlotFreed, TypeOK
  <2> QED
    BY <2>1, <2>2, <2>3, StepsOfSlot DEF SlotStep
<1> QED
  BY <1>1, TypeCorrect, SlotInvHolds, PTL DEF Spec, TerminalIsFinal

-----------------------------------------------------------------------------
(* A client that waits for the last worker.  That its jobs find a working    *)
(* server, and leave nothing behind, is a matter of what the one worker that *)
(* runs has acquired and released by each of its statements.                 *)

AnyRunning == \E k \in Job : Running(k)
OneWorker  == \A i, k \in Job : Running(i) /\ Running(k) => i = k

\* The ResultServer by the place of the worker that may hold it.
ServerStage(j) ==
  /\ pc[j] \in {"begin", "server"} => single = NoJob /\ mine[j] = NoJob
  /\ pc[j] \in InRun \ {"server"} => single = j /\ mine[j] = j /\ server[j] = "up"
  /\ pc[j] \in CleanUp \ {"restore"} => single = mine[j]
  /\ pc[j] = "drain" => single # NoJob
  /\ pc[j] = "restore" => single = NoJob

\* The debugger session and its pipe.
DebugStage(j) ==
  /\ pc[j] \in {"begin", "server", "debugger", "shutdown", "drain", "restore"}
       => dbg = NoJob
  /\ pc[j] = "dbgShut" => dbg # NoJob
  /\ pc[j] = "dbgClear" => pipes = {}
  /\ pipes \subseteq {dbg}

\* The handler that copies the root logger to the job's analysis.log.
LogStage(j) ==
  \/ restore[j] = "none" /\ rootLevel = "base"
  \/ restore[j] = "base" /\ rootLevel = "debug" /\ pc[j] # "begin"

Clean == single = NoJob /\ dbg = NoJob /\ pipes = {} /\ rootLevel = "base"
Stage(j) == ServerStage(j) /\ DebugStage(j) /\ LogStage(j)

PoliteInv ==
  polite =>
    /\ OneWorker
    /\ ~AnyRunning => Clean
    /\ \A j \in Job : Running(j) => Stage(j)
    /\ \A j \in Job : ~Running(j) => restore[j] = "none"
    /\ \A j \in Job : pc[j] = "none" => mine[j] = NoJob
    /\ \A j \in Job : server[j] = "up" => single = j

\* Only the worker that runs touches what the stages speak of: a step of it is
\* judged by what it does to its own stage and to the server that is up.
LEMMA WorkerKeepsPolite ==
  ASSUME TypeOK, PoliteInv, polite, polite' = polite,
         NEW j \in Job, Running(j), NEW place \in PC \ {"none"}, Goto(j, place),
         \A k \in Job \ {j} : restore'[k] = restore[k] /\ mine'[k] = mine[k],
         \A k \in Job : server'[k] = "up" => single' = k,
         place \notin Ended => Stage(j)',
         place \in Ended => Clean' /\ restore'[j] = "none"
  PROVE  PoliteInv'
<1>1. pc'[j] = place /\ \A k \in Job \ {j} : pc'[k] = pc[k] /\ ~Running(k)
  BY DEF Goto, TypeOK, PoliteInv, OneWorker
<1>2. \A k \in Job \ {j} : ~Running(k)'
  BY <1>1 DEF Running
<1>3. Running(j)' <=> place \notin Ended
  BY <1>1 DEF Running
<1>4. OneWorker'
  BY <1>2 DEF OneWorker
<1>5. (~AnyRunning => Clean)'
  BY <1>2, <1>3 DEF AnyRunning
<1>6. (\A k \in Job : Running(k) => Stage(k))'
  BY <1>2, <1>3
<1>7. (\A k \in Job : ~Running(k) => restore[k] = "none")'
  BY <1>1, <1>3 DEF PoliteInv
<1>8. (\A k \in Job : pc[k] = "none" => mine[k] = NoJob)'
  BY <1>1 DEF PoliteInv
<1> QED
  BY <1>4, <1>5, <1>6, <1>7, <1>8 DEF PoliteInv

\* The set-up acquires in a fixed order.
LEMMA SetUpKeepsPolite ==
  ASSUME TypeOK, PoliteInv, polite, NEW j \in Job, SetUpStep(j)
  PROVE  PoliteInv'
<1> USE NoJobIsNoJob DEF TypeOK
<1>1. CASE Begin(j)
  <2>1. Running(j) /\ Goto(j, "server") /\ pc[j] = "begin" /\ pc'[j] = "server"
    BY <1>1 DEF Begin, Running, Goto
  <2>2. Stage(j) /\ \A k \in Job : server[k] = "up" => single = k
    BY <2>1 DEF PoliteInv
  <2>3. UNCHANGED <<single, server, mine, dbg, pipes, polite>>
    BY <1>1 DEF Begin, srvVars, dbgVars
  <2>4. ServerStage(j)' /\ DebugStage(j)'
    BY <2>1, <2>2, <2>3 DEF Stage, ServerStage, DebugStage
  <2>5. LogStage(j)'
    BY <1>1, <2>1, <2>2 DEF Begin, InstallLog, Stage, LogStage, logVars
  <2>6. \A k \in Job \ {j} : restore'[k] = restore[k] /\ mine'[k] = mine[k]
    <3>1. mine' = mine /\ (restore' = restore \/ \E e : restore' = [restore EXCEPT ![j] = e])
      BY <1>1, <2>3 DEF Begin, InstallLog, logVars
    <3> QED
      BY <3>1
  <2> QED
    BY <2>1, <2>2, <2>3, <2>4, <2>5, <2>6, WorkerKeepsPolite DEF Stage
<1>2. CASE GetServer(j)
  <2>1. PICK place \in {"debugger", "start"} : Goto(j, place)
    BY <1>2 DEF GetServer, AfterServer
  <2>2. Running(j) /\ pc[j] = "server" /\ pc'[j] = place
    BY <1>2, <2>1 DEF GetServer, Running, Goto
  <2>3. Stage(j) /\ single = NoJob /\ \A k \in Job : server[k] # "up"
    BY <2>2 DEF PoliteInv, Stage, ServerStage
  <2>4. /\ single' = j
        /\ server' = [server EXCEPT ![j] = "up"]
        /\ mine' = [mine EXCEPT ![j] = j]
    BY <1>2, <2>3 DEF GetServer
  <2>5. UNCHANGED <<dbg, pipes, rootLevel, restore, polite>>
    BY <1>2 DEF GetServer, dbgVars, logVars
  <2>6. ServerStage(j)'
    BY <2>2, <2>4 DEF ServerStage
  <2>7. DebugStage(j)' /\ LogStage(j)'
    BY <2>2, <2>3, <2>5 DEF Stage, DebugStage, LogStage
  <2>8. \A k \in Job : server'[k] = "up" => single' = k
    BY <2>3, <2>4
  <2>9. \A k \in Job \ {j} : restore'[k] = restore[k] /\ mine'[k] = mine[k]
    BY <2>4, <2>5
  <2> QED
    BY <2>1, <2>2, <2>5, <2>6, <2>7, <2>8, <2>9, WorkerKeepsPolite DEF Stage
<1>3. ASSUME NEW place \in {"launch", "start", "loop", "finish", "dbgCheck"}, Goto(j, place),
             pc[j] \in SetUp, place # "dbgCheck" => pc[j] # "server",
             dbg' = j \/ UNCHANGED dbg, UNCHANGED pipes \/ pipes' = pipes \cup {dbg},
             pipes' \subseteq {dbg'},
             UNCHANGED <<srvVars, logVars, polite>>
      PROVE  PoliteInv'
  <2>1. Running(j) /\ pc'[j] = place
    BY <1>3 DEF Running, Goto
  <2>2. Stage(j) /\ \A k \in Job : server[k] = "up" => single = k
    BY <2>1 DEF PoliteInv
  <2>3. ServerStage(j)'
    BY <1>3, <2>1, <2>2 DEF Stage, ServerStage, srvVars
  <2>4. DebugStage(j)'
    BY <1>3, <2>1, <2>2 DEF Stage, DebugStage
  <2>5. LogStage(j)'
    BY <1>3, <2>1, <2>2 DEF Stage, LogStage, logVars
  <2> QED
    BY <1>3, <2>1, <2>2, <2>3, <2>4, <2>5, WorkerKeepsPolite
       DEF Stage, srvVars, logVars
<1>4. ASSUME pc[j] \in SetUp, polite
      PROVE  pipes \subseteq {dbg} /\ (pc[j] = "debugger" => pipes = {})
  BY <1>4 DEF PoliteInv, Stage, DebugStage, Running
<1>5. CASE NewDebugger(j)
  BY <1>5, <1>4, <1>3 DEF NewDebugger
<1>6. CASE LaunchDebugger(j)
  BY <1>6, <1>4, <1>3 DEF LaunchDebugger, Fail
<1>7. CASE Start(j)
  BY <1>7, <1>4, <1>3 DEF Start, dbgVars
<1>8. CASE Raise(j)
  BY <1>8, <1>4, <1>3 DEF Raise, Fail, dbgVars
<1> QED
  BY <1>1, <1>2, <1>5, <1>6, <1>7, <1>8 DEF SetUpStep

\* The run itself neither acquires nor releases.
LEMMA RunKeepsPolite ==
  ASSUME TypeOK, PoliteInv, polite, NEW j \in Job, Loop(j) \/ Finish(j)
  PROVE  PoliteInv'
<1>1. PICK place \in Analysing \cup {"finish", "dbgCheck"} : Goto(j, place)
  BY DEF Loop, LoopTimeout, LoopKilled, LoopFlagged, LoopPass, LoopEmpty,
         LoopAgain, LeaveLoop, Finish
<1>2. pc[j] \in Analysing \cup {"finish"}
  BY DEF Loop, LoopTimeout, LoopKilled, LoopFlagged, LoopPass, LoopEmpty,
         LoopAgain, Finish
<1>3. UNCHANGED <<dbgVars, srvVars, logVars, polite>>
  BY DEF Loop, LoopTimeout, LoopKilled, LoopFlagged, LoopPass, LoopEmpty,
         LoopAgain, LeaveLoop, Finish
<1>4. Running(j) /\ pc'[j] = place
  BY <1>1, <1>2 DEF Running, Goto, TypeOK
<1>5. Stage(j) /\ \A k \in Job : server[k] = "up" => single = k
  BY <1>4 DEF PoliteInv
<1>6. ServerStage(j)'
  BY <1>2, <1>3, <1>4, <1>5 DEF Stage, ServerStage, srvVars
<1>7. DebugStage(j)' /\ LogStage(j)'
  BY <1>2, <1>3, <1>4, <1>5 DEF Stage, DebugStage, LogStage, dbgVars, logVars
<1> QED
  BY <1>1, <1>3, <1>4, <1>5, <1>6, <1>7, WorkerKeepsPolite DEF Stage, srvVars, logVars

\* The finally block releases all of it, in the order of its statements.
LEMMA CleanUpKeepsPolite ==
  ASSUME TypeOK, PoliteInv, polite, NEW j \in Job, CleanUpStep(j)
  PROVE  PoliteInv'
<1> USE NoJobIsNoJob DEF TypeOK
<1>1. pc[j] \in CleanUp /\ Running(j)
  BY DEF CleanUpStep, DbgCheck, DbgShutdown, DbgClear, Shutdown, Drain,
         RestoreLog, Running
<1>2. Stage(j) /\ \A k \in Job : server[k] = "up" => single = k
  BY <1>1 DEF PoliteInv
<1>3. CASE DbgCheck(j)
  <2>1. PICK place \in {"shutdown", "dbgShut"} :
          Goto(j, place) /\ (place = "shutdown" <=> dbg = NoJob)
    BY <1>3 DEF DbgCheck
  <2>2. pc[j] = "dbgCheck" /\ pc'[j] = place /\ UNCHANGED <<dbgVars, srvVars, logVars, polite>>
    BY <1>3, <2>1 DEF DbgCheck, Goto
  <2>3. ServerStage(j)'
    BY <1>2, <2>2 DEF Stage, ServerStage, srvVars
  <2>4. DebugStage(j)' /\ LogStage(j)'
    BY <1>2, <2>1, <2>2 DEF Stage, DebugStage, LogStage, dbgVars, logVars
  <2> QED
    BY <1>1, <1>2, <2>1, <2>2, <2>3, <2>4, WorkerKeepsPolite DEF Stage, srvVars, logVars
<1>4. CASE DbgShutdown(j)
  <2>1. dbg # NoJob /\ pc[j] = "dbgShut"
    BY <1>2, <1>4 DEF DbgShutdown, Stage, DebugStage
  <2>2. Goto(j, "dbgClear") /\ pc'[j] = "dbgClear"
    BY <1>4, <2>1 DEF DbgShutdown, Goto
  <2>3. UNCHANGED <<dbg, srvVars, logVars, polite>> /\ pipes' = pipes \ {dbg}
    BY <1>4 DEF DbgShutdown
  <2>4. ServerStage(j)'
    BY <1>2, <2>1, <2>2, <2>3 DEF Stage, ServerStage, srvVars
  <2>5. DebugStage(j)' /\ LogStage(j)'
    BY <1>2, <2>1, <2>2, <2>3 DEF Stage, DebugStage, LogStage, logVars
  <2> QED
    BY <1>1, <1>2, <2>2, <2>3, <2>4, <2>5, WorkerKeepsPolite DEF Stage, srvVars, logVars
<1>5. CASE DbgClear(j)
  <2>1. pc[j] = "dbgClear" /\ pipes = {}
    BY <1>2, <1>5 DEF DbgClear, Stage, DebugStage
  <2>2. Goto(j, "shutdown") /\ pc'[j] = "shutdown"
    BY <1>5 DEF DbgClear, Goto
  <2>3. UNCHANGED <<pipes, srvVars, logVars, polite>> /\ dbg' = NoJob
    BY <1>5 DEF DbgClear
  <2>4. ServerStage(j)'
    BY <1>2, <2>1, <2>2, <2>3 DEF Stage, ServerStage, srvVars
  <2>5. DebugStage(j)' /\ LogStage(j)'
    BY <1>2, <2>1, <2>2, <2>3 DEF Stage, DebugStage, LogStage, logVars
  <2> QED
    BY <1>1, <1>2, <2>2, <2>3, <2>4, <2>5, WorkerKeepsPolite DEF Stage, srvVars, logVars
<1>6. CASE Shutdown(j)
  <2>1. PICK place \in {"restore", "drain"} :
          Goto(j, place) /\ (place = "restore" <=> mine[j] = NoJob)
    BY <1>6 DEF Shutdown
  <2>2. pc[j] = "shutdown" /\ pc'[j] = place /\ UNCHANGED <<dbgVars, single, mine, logVars, polite>>
    BY <1>6, <2>1 DEF Shutdown, Goto
  <2>3. ServerStage(j)'
    BY <1>2, <2>1, <2>2 DEF Stage, ServerStage
  <2>4. DebugStage(j)' /\ LogStage(j)'
    BY <1>2, <2>1, <2>2 DEF Stage, DebugStage, LogStage, dbgVars, logVars
  <2>5. \A k \in Job : server'[k] = "up" => server[k] = "up"
    BY <1>6 DEF Shutdown
  <2> QED
    BY <1>1, <1>2, <2>1, <2>2, <2>3, <2>4, <2>5, WorkerKeepsPolite DEF Stage, logVars
<1>7. CASE Drain(j)
  <2>1. pc[j] = "drain" /\ single = mine[j] /\ single # NoJob /\ dbg = NoJob
    BY <1>2, <1>7 DEF Drain, Stage, ServerStage, DebugStage
  <2>2. Goto(j, "restore") /\ pc'[j] = "restore"
    BY <1>7 DEF Drain, Goto
  <2>3. UNCHANGED <<dbgVars, mine, logVars, polite>> /\ single' = NoJob
    BY <1>7 DEF Drain
  <2>4. \A k \in Job : server'[k] # "up"
    BY <1>2, <1>7, <2>1 DEF Drain
  <2>5. ServerStage(j)'
    BY <2>2, <2>3 DEF ServerStage
  <2>6. DebugStage(j)' /\ LogStage(j)'
    BY <1>2, <2>1, <2>2, <2>3 DEF Stage, DebugStage, LogStage, dbgVars, logVars
  <2> QED
    BY <1>1, <2>2, <2>3, <2>4, <2>5, <2>6, WorkerKeepsPolite DEF Stage, logVars
<1>8. CASE RestoreLog(j)
  <2>1. pc[j] = "restore" /\ single = NoJob /\ dbg = NoJob /\ pipes = {}
    BY <1>2, <1>8 DEF RestoreLog, Stage, ServerStage, DebugStage
  <2>2. Goto(j, "done") /\ UNCHANGED <<dbgVars, srvVars, polite>>
    BY <1>8 DEF RestoreLog
  <2>3. restore' = [restore EXCEPT ![j] = "none"] /\ rootLevel' = "base"
    BY <1>2, <1>8 DEF RestoreLog, Stage, LogStage
  <2>4. Clean'
    BY <2>1, <2>2, <2>3 DEF Clean, dbgVars, srvVars
  <2>5. restore'[j] = "none" /\ \A k \in Job \ {j} : restore'[k] = restore[k] /\ mine'[k] = mine[k]
    BY <2>2, <2>3 DEF srvVars
  <2>6. \A k \in Job : server'[k] = "up" => single' = k
    BY <1>2, <2>2 DEF srvVars
  <2> QED
    BY <1>1, <2>2, <2>4, <2>5, <2>6, WorkerKeepsPolite
<1> QED
  BY <1>3, <1>4, <1>5, <1>6, <1>7, <1>8 DEF CleanUpStep

\* A tool call of such a client starts a worker only where none is left.
LEMMA CallKeepsPolite ==
  ASSUME TypeOK, SlotInv, PoliteInv, polite, NEW j \in Job, Call(j)
  PROVE  PoliteInv'
<1>1. CASE Submit(j)
  <2>1. \A k \in Job : ~Running(k)
    BY <1>1 DEF Submit, Permitted
  <2>2. Clean /\ (\A k \in Job : restore[k] = "none") /\ mine[j] = NoJob
    BY <1>1, <2>1 DEF PoliteInv, AnyRunning, Submit, SlotInv, AbsentIsIdle
  <2>3. UNCHANGED <<dbgVars, srvVars, logVars, polite>>
    BY <1>1 DEF Submit
  <2>4. pc'[j] = "begin" /\ \A k \in Job \ {j} : pc'[k] = pc[k]
    BY <1>1 DEF Submit, Goto, TypeOK
  <2>5. Running(j)' /\ \A k \in Job \ {j} : ~Running(k)'
    BY <2>1, <2>4 DEF Running
  <2>6. Stage(j)'
    BY <2>2, <2>3, <2>4
       DEF Clean, Stage, ServerStage, DebugStage, LogStage, dbgVars, srvVars, logVars
  <2>7. \A k \in Job : server'[k] = "up" => single' = k
    BY <2>3 DEF srvVars, PoliteInv
  <2>8. \A k \in Job : restore'[k] = "none"
    BY <2>2, <2>3 DEF logVars
  <2>9. (\A k \in Job : pc[k] = "none" => mine[k] = NoJob)'
    BY <2>3, <2>4 DEF PoliteInv, srvVars
  <2> QED
    BY <2>5, <2>6, <2>7, <2>8, <2>9 DEF PoliteInv, OneWorker, AnyRunning
<1>2. CASE CancelCheck(j) \/ CancelSignal(j) \/ GetResults(j)
  <2>1. UNCHANGED <<pc, dbgVars, srvVars, logVars, polite>>
    BY <1>2 DEF CancelCheck, CancelSignal, GetResults
  <2> QED
    BY <2>1 DEF PoliteInv, OneWorker, AnyRunning, Running, Clean, Stage,
                ServerStage, DebugStage, LogStage, dbgVars, srvVars, logVars
<1> QED
  BY <1>1, <1>2 DEF Call

\* PoliteInv holds in every reachable state.
LEMMA PoliteInvHolds == Spec => []PoliteInv
<1>1. Init => PoliteInv
  BY NoJobIsNoJob DEF Init, PoliteInv, OneWorker, AnyRunning, Running, Clean
<1>2. TypeOK /\ SlotInv /\ PoliteInv /\ [Next]_vars => PoliteInv'
  <2> SUFFICES ASSUME TypeOK, SlotInv, PoliteInv, [Next]_vars PROVE PoliteInv'
    OBVIOUS
  <2>1. polite' = polite
    BY DEF Next, Worker, SetUpStep, Loop, CleanUpStep, Call,
           Begin, GetServer, NewDebugger, LaunchDebugger, Start, Raise,
           LoopTimeout, LoopKilled, LoopFlagged, LoopPass, LoopEmpty, LoopAgain,
           LeaveLoop, Finish, DbgCheck, DbgShutdown, DbgClear, Shutdown, Drain,
           RestoreLog, Submit, CancelCheck, CancelSignal, GetResults, vars
  <2>2. CASE ~polite
    BY <2>1, <2>2 DEF PoliteInv
  <2>3. CASE polite /\ UNCHANGED vars
    BY <2>3 DEF PoliteInv, OneWorker, AnyRunning, Running, Clean, Stage,
                ServerStage, DebugStage, LogStage, vars, dbgVars, srvVars, logVars
  <2> QED
    BY <2>2, <2>3, SetUpKeepsPolite, RunKeepsPolite, CleanUpKeepsPolite,
       CallKeepsPolite DEF Next, Worker
<1> QED
  BY <1>1, <1>2, TypeCorrect, SlotInvHolds, PTL DEF Spec

\* A client that waits for the last worker always gets a ResultServer that
\* works until its job's run is over, for any number of jobs in a row: the
\* singleton has been forgotten before the next worker asks for it.
THEOREM PoliteClientHasServer == Spec => []PoliteServerWorks
<1>1. TypeOK /\ PoliteInv => PoliteServerWorks
  <2> SUFFICES ASSUME TypeOK, PoliteInv, polite, NEW j \in Job,
                      pc[j] \in InRun, mine[j] # NoJob
               PROVE  server[mine[j]] = "up"
    BY DEF PoliteServerWorks, HandedServerWorks
  <2>1. ServerStage(j)
    BY DEF PoliteInv, Stage, Running
  <2> QED
    BY <2>1 DEF ServerStage
<1> QED
  BY <1>1, TypeCorrect, PoliteInvHolds, PTL

\* Whatever way its jobs end - and setting up a server, a debugger or the log
\* handler may fail in each of them - nothing of them is left in the process.
THEOREM PoliteClientLeavesNothing == Spec => []PoliteLeavesNothing
<1>1. PoliteInv => PoliteLeavesNothing
  BY NoJobIsNoJob DEF PoliteInv, PoliteLeavesNothing, AnyRunning, Clean
<1> QED
  BY <1>1, PoliteInvHolds, PTL

-----------------------------------------------------------------------------
(* Reports.  A job is completed only by way of the loop, and what the loop  *)
(* leaves behind is kept by all that follows.                               *)

\* The artifacts of the job's run are in the directory.
HoldsRun(j) == <<j, "run">> \in dir

Early == {"none", "begin"} \cup SetUp \cup Analysing

StoredInv ==
  polite => \A j \in Job :
    /\ pc[j] \in Early => endedBy[j] = "no"
    /\ endedBy[j] # "no" => HoldsRun(j)
    /\ state[j] = "completed" => endedBy[j] # "no"
    /\ report[j] # {} => <<j, "run">> \in report[j]

\* A step that is not the loop's last, and does not complete its job.
LEMMA StoredStays ==
  ASSUME TypeOK, StoredInv, polite,
         UNCHANGED <<endedBy, dir, report>>,
         \A j \in Job : pc'[j] \in Early => pc[j] \in Early,
         \A j \in Job : state'[j] = "completed" => state[j] = "completed"
  PROVE  StoredInv'
  BY DEF StoredInv, HoldsRun

LEMMA ClientStays == [Next]_vars => polite' = polite /\ prompt' = prompt
  BY DEF Next, Worker, SetUpStep, Loop, CleanUpStep, Call,
         Begin, GetServer, NewDebugger, LaunchDebugger, Start, Raise,
         LoopTimeout, LoopKilled, LoopFlagged, LoopPass, LoopEmpty, LoopAgain,
         LeaveLoop, Finish, DbgCheck, DbgShutdown, DbgClear, Shutdown, Drain,
         RestoreLog, Submit, CancelCheck, CancelSignal, GetResults, vars

LEMMA StoredKeeps ==
  ASSUME TypeOK, SlotInv, PoliteInv, StoredInv, polite, Next
  PROVE  StoredInv'
<1> USE DEF TypeOK, Goto
<1> HIDE DEF Live, Terminal, State, InRun, CleanUp, Ended, JobOrNone
<1>1. ASSUME NEW j \in Job, pc[j] = "begin", Begin(j) PROVE StoredInv'
  <2>1. endedBy[j] = "no" /\ UNCHANGED <<endedBy, report>>
    BY <1>1 DEF StoredInv, Early, Begin, stopVars
  <2>2. dir' = dir \cup {<<j, "sample">>}
        /\ \A k \in Job \ {j} : state'[k] = state[k] /\ pc'[k] = pc[k]
    BY <1>1 DEF Begin, SetState
  <2>3. state'[j] # "completed"
    BY <1>1 DEF Begin, SetState
  <2>4. \A k \in Job : HoldsRun(k)' <=> HoldsRun(k)
    BY <2>2 DEF HoldsRun
  <2> QED
    BY <2>1, <2>2, <2>3, <2>4 DEF StoredInv
<1>2. ASSUME NEW j \in Job, NewDebugger(j) \/ LaunchDebugger(j) \/ Start(j) \/ Raise(j) \/ GetServer(j)
      PROVE  StoredInv'
  <2>1. pc[j] \in Early /\ UNCHANGED <<endedBy, dir, report>>
    BY <1>2 DEF NewDebugger, LaunchDebugger, Start, Raise, GetServer, Early, stopVars, dirVars
  <2>2. \A k \in Job \ {j} : pc'[k] = pc[k]
    <3>1. CASE NewDebugger(j) \/ LaunchDebugger(j)
      BY <3>1 DEF NewDebugger, LaunchDebugger, Fail
    <3>2. CASE Start(j) \/ Raise(j)
      BY <3>2 DEF Start, Raise, Fail
    <3>3. CASE GetServer(j)
      BY <3>3 DEF GetServer, AfterServer
    <3> QED
      BY <1>2, <3>1, <3>2, <3>3
  <2>3. state' = state \/ state' = [state EXCEPT ![j] = "failed"]
    BY <1>2 DEF NewDebugger, LaunchDebugger, Start, Raise, GetServer, Fail, SetState, jobVars
  <2> QED
    BY <2>1, <2>2, <2>3, StoredStays
<1>3. ASSUME NEW j \in Job, NEW why \in {"request", "other"}, pc[j] \in Analysing,
             LeaveLoop(j, why)
      PROVE  StoredInv'
  <2>1. server[mine[j]] = "up"
    <3>1. Running(j) /\ pc[j] \in InRun \ {"server"}
      BY <1>3 DEF Running, InRun, Ended
    <3> QED
      BY <3>1 DEF PoliteInv, Stage, ServerStage
  <2>2. dir' = dir \cup {<<j, "run">>} /\ endedBy' = [endedBy EXCEPT ![j] = why]
        /\ pc' = [pc EXCEPT ![j] = "finish"] /\ UNCHANGED <<state, report, polite>>
    BY <1>3, <2>1 DEF LeaveLoop, Stored, jobVars
  <2>3. /\ HoldsRun(j)' /\ endedBy'[j] # "no" /\ pc'[j] \notin Early
        /\ \A k \in Job \ {j} : /\ HoldsRun(k)' <=> HoldsRun(k)
                                /\ endedBy'[k] = endedBy[k] /\ pc'[k] = pc[k]
    BY <2>2 DEF HoldsRun, Early
  <2> QED
    BY <2>2, <2>3 DEF StoredInv
<1>4. ASSUME NEW j \in Job, Loop(j) PROVE StoredInv'
  <2>1. CASE LoopPass(j) \/ LoopAgain(j)
    <3>1. UNCHANGED <<endedBy, dir, report, state>> /\ pc[j] \in Early
          /\ \A k \in Job \ {j} : pc'[k] = pc[k]
      BY <2>1 DEF LoopPass, LoopAgain, Early, stopVars, dirVars, jobVars
    <3> QED
      BY <3>1, StoredStays
  <2>2. CASE LoopTimeout(j) \/ LoopKilled(j) \/ LoopFlagged(j) \/ LoopEmpty(j)
    BY <1>3, <2>2 DEF LoopTimeout, LoopKilled, LoopFlagged, LoopEmpty
  <2> QED
    BY <1>4, <2>1, <2>2 DEF Loop
<1>5. ASSUME NEW j \in Job, Finish(j) PROVE StoredInv'
  <2>1. /\ UNCHANGED <<endedBy, dir, report, polite>> /\ pc'[j] \notin Early
        /\ \A k \in Job \ {j} : state'[k] = state[k] /\ pc'[k] = pc[k]
        /\ state'[j] = "completed" => endedBy[j] # "no"
    BY <1>5 DEF Finish, SetState, stopVars, dirVars, Early
  <2> QED
    BY <2>1 DEF StoredInv, HoldsRun
<1>6. ASSUME NEW j \in Job, CleanUpStep(j) PROVE StoredInv'
  <2>1. UNCHANGED <<endedBy, report, state, polite>>
    BY <1>6 DEF CleanUpStep, DbgCheck, DbgShutdown, DbgClear, Shutdown, Drain, RestoreLog,
         stopVars, jobVars, dirVars
  <2>2. PICK place \in {"dbgShut", "dbgClear", "shutdown", "drain", "restore", "done", "crashed"} :
          Goto(j, place)
    <3> HIDE DEF Goto
    <3> QED
      BY <1>6 DEF CleanUpStep, DbgCheck, DbgShutdown, DbgClear, Shutdown, Drain, RestoreLog
  <2>3. pc'[j] \notin Early /\ \A k \in Job \ {j} : pc'[k] = pc[k]
    BY <2>2 DEF Early
  <2>4. dir \subseteq dir'
    BY <1>6 DEF CleanUpStep, DbgCheck, DbgShutdown, DbgClear, Shutdown, Drain, RestoreLog, dirVars
  <2>5. \A k \in Job : HoldsRun(k) => HoldsRun(k)'
    BY <2>4 DEF HoldsRun
  <2> QED
    BY <2>1, <2>3, <2>5 DEF StoredInv
<1>7. ASSUME NEW j \in Job, Submit(j) PROVE StoredInv'
  <2>1. pc[j] = "none" /\ state'[j] # "completed"
    BY <1>7 DEF SlotInv, AbsentIsIdle, Submit
  <2>2. /\ UNCHANGED <<endedBy, dir, report>>
        /\ \A k \in Job \ {j} : state'[k] = state[k] /\ pc'[k] = pc[k]
    BY <1>7 DEF Submit, stopVars, dirVars
  <2> QED
    BY <2>1, <2>2, StoredStays DEF Early
<1>8. ASSUME NEW j \in Job, CancelCheck(j) \/ CancelSignal(j) PROVE StoredInv'
  BY <1>8, StoredStays DEF CancelCheck, CancelSignal, jobVars, stopVars, dirVars
<1>9. ASSUME NEW j \in Job, GetResults(j) PROVE StoredInv'
  <2>1. HoldsRun(j)
    BY <1>9 DEF StoredInv, GetResults
  <2>2. /\ UNCHANGED <<endedBy, dir, pc, state, polite>>
        /\ report'[j] = dir /\ \A k \in Job \ {j} : report'[k] = report[k]
    BY <1>9, <2>1 DEF GetResults, jobVars, stopVars
  <2> QED
    BY <2>1, <2>2 DEF StoredInv, HoldsRun
<1> QED
  BY <1>1, <1>2, <1>4, <1>5, <1>6, <1>7, <1>8, <1>9
     DEF Next, Worker, SetUpStep, Call, Begin

LEMMA StoredInvHolds == Spec => []StoredInv
<1>1. Init => StoredInv
  BY DEF Init, StoredInv, Early
<1>2. TypeOK /\ SlotInv /\ PoliteInv /\ StoredInv /\ [Next]_vars => StoredInv'
  <2> SUFFICES ASSUME TypeOK, SlotInv, PoliteInv, StoredInv, [Next]_vars PROVE StoredInv'
    OBVIOUS
  <2>1. polite' = polite
    BY ClientStays
  <2>2. CASE ~polite
    BY <2>1, <2>2 DEF StoredInv
  <2>3. CASE polite /\ UNCHANGED vars
    BY <2>3, StoredStays DEF vars, jobVars, stopVars, dirVars
  <2> QED
    BY <2>2, <2>3, StoredKeeps
<1> QED
  BY <1>1, <1>2, TypeCorrect, SlotInvHolds, PoliteInvHolds, PTL DEF Spec

-----------------------------------------------------------------------------
(* A client that reads each report before its next job: one job at a time   *)
(* is unread, and what a report holds of others is of jobs that were read.  *)

Unread(j) == state[j] \in Live \/ (state[j] = "completed" /\ report[j] = {})

PromptInv ==
  prompt =>
    /\ \A j, k \in Job : Unread(j) /\ Unread(k) => j = k
    /\ \A j \in Job : Of(j) \cap dir # {} => state[j] # "absent"
    /\ \A j \in Job : report[j] # {} => state[j] = "completed"
    /\ \A j \in Job : \A k \in Job \ {j} : report[j] \cap Of(k) # {} =>
         /\ state[k] # "absent" /\ ~Unread(k)
         /\ report[k] \cap Of(j) = {}

\* The directory gets artifacts of jobs that have a worker.
DirGrows == /\ report' = report
            /\ \A a \in dir' : a \in dir \/ \E j \in Job : a \in Of(j) /\ pc[j] # "none"

LEMMA StepsOfDir ==
  ASSUME TypeOK, [Next]_vars, \A j \in Job : ~GetResults(j)
  PROVE  DirGrows
<1> USE DEF DirGrows, Of, dirVars
<1>1. ASSUME NEW j \in Job, Begin(j) PROVE DirGrows
  BY <1>1 DEF Begin
<1>2. ASSUME NEW j \in Job, NEW why \in {"request", "other"}, LeaveLoop(j, why), pc[j] \in Analysing
      PROVE  DirGrows
  BY <1>2 DEF LeaveLoop, Stored
<1>3. ASSUME NEW j \in Job, Loop(j) PROVE DirGrows
  BY <1>2, <1>3 DEF Loop, LoopTimeout, LoopKilled, LoopFlagged, LoopPass, LoopEmpty, LoopAgain
<1>4. ASSUME NEW j \in Job, Drain(j) PROVE DirGrows
  BY <1>4 DEF Drain
<1>5. ASSUME UNCHANGED dirVars PROVE DirGrows
  BY <1>5
<1>6. ASSUME NEW j \in Job, SetUpStep(j) PROVE DirGrows
  BY <1>1, <1>5, <1>6 DEF SetUpStep, GetServer, NewDebugger, LaunchDebugger, Start, Raise
<1>7. ASSUME NEW j \in Job, Finish(j) \/ CleanUpStep(j) PROVE DirGrows
  BY <1>4, <1>5, <1>7 DEF Finish, CleanUpStep, DbgCheck, DbgShutdown, DbgClear, Shutdown, RestoreLog
<1>8. ASSUME NEW j \in Job, Submit(j) \/ CancelCheck(j) \/ CancelSignal(j) PROVE DirGrows
  BY <1>5, <1>8 DEF Submit, CancelCheck, CancelSignal
<1> QED
  BY <1>3, <1>5, <1>6, <1>7, <1>8 DEF Next, Worker, Call, vars

\* Only submit() adds a job to the table.
LEMMA TakenBySubmit ==
  ASSUME TypeOK, SlotInv, [Next]_vars, NEW j \in Job, SlotTaken(j)
  PROVE  \E k \in Job : Submit(k)
<1>1. state[j] = "absent" /\ pc[j] = "none" /\ state'[j] = "queued"
  BY DEF SlotTaken, SlotInv, AbsentIsIdle, TypeOK
<1>2. ASSUME NEW k \in Job, Worker(k) PROVE FALSE
  <2>1. k # j
    BY <1>1, <1>2 DEF Worker, SetUpStep, Loop, CleanUpStep, Begin, GetServer, NewDebugger,
         LaunchDebugger, Start, Raise, LoopTimeout, LoopKilled, LoopFlagged, LoopPass,
         LoopEmpty, LoopAgain, Finish, DbgCheck, DbgShutdown, DbgClear, Shutdown, Drain,
         RestoreLog
  <2>2. state' = state \/ \E s \in State : state' = [state EXCEPT ![k] = s]
    BY <1>2 DEF Worker, SetUpStep, Loop, CleanUpStep, Begin, GetServer, NewDebugger,
         LaunchDebugger, Start, Raise, LoopTimeout, LoopKilled, LoopFlagged, LoopPass,
         LoopEmpty, LoopAgain, LeaveLoop, Finish, DbgCheck, DbgShutdown, DbgClear, Shutdown,
         Drain, RestoreLog, Fail, SetState, jobVars
  <2> QED
    BY <1>1, <2>1, <2>2 DEF TypeOK
<1>3. ASSUME NEW k \in Job, CancelCheck(k) \/ CancelSignal(k) \/ GetResults(k) PROVE FALSE
  BY <1>1, <1>3 DEF CancelCheck, CancelSignal, GetResults, jobVars
<1>4. ~UNCHANGED vars
  BY <1>1 DEF vars, jobVars
<1> QED
  BY <1>2, <1>3, <1>4 DEF Next, Call

LEMMA PromptKeeps ==
  ASSUME TypeOK, TypeOK', SlotInv, PromptInv, prompt, prompt' = prompt, [Next]_vars
  PROVE  PromptInv'
<1>1. ASSUME NEW j \in Job, GetResults(j) PROVE PromptInv'
  <2>1. /\ UNCHANGED <<state, dir>> /\ Unread(j) /\ state[j] = "completed"
        /\ report'[j] = dir /\ \A k \in Job \ {j} : report'[k] = report[k]
    BY <1>1 DEF GetResults, TypeOK, Unread, jobVars
  <2>2. \A k \in Job : Unread(k)' => Unread(k)
    BY <2>1 DEF Unread
  <2>3. \A k \in Job \ {j} : /\ ~Unread(k)
                              /\ report[k] \cap Of(j) = {}
    BY <2>1 DEF PromptInv
  <2>4. \A k \in Job : Of(k)' = Of(k)
    BY DEF Of
  <2> QED
    BY <2>1, <2>2, <2>3, <2>4 DEF PromptInv
<1>2. ASSUME DirGrows, \A k \in Job : Unread(k)' /\ state[k] # "absent" => Unread(k),
             \A k, l \in Job : Unread(k)' /\ Unread(l)' => k = l,
             \A k \in Job : state[k] # "absent" => state'[k] # "absent",
             \A k \in Job : state[k] = "completed" => state'[k] = "completed"
      PROVE  PromptInv'
  <2>1. \A k \in Job : Of(k)' = Of(k)
    BY DEF Of
  <2>2. ASSUME NEW k \in Job, Of(k) \cap dir' # {} PROVE state[k] # "absent"
    <3>1. \A l \in Job : l # k => Of(k) \cap Of(l) = {}
      BY DEF Of
    <3>2. Of(k) \cap dir # {} \/ pc[k] # "none"
      BY <1>2, <2>2, <3>1 DEF DirGrows
    <3> QED
      BY <3>2 DEF PromptInv, SlotInv, AbsentIsIdle
  <2> QED
    BY <1>2, <2>1, <2>2 DEF PromptInv, DirGrows
<1>3. CASE SlotKept /\ DirGrows
  <2>1. \A k \in Job : Unread(k)' <=> Unread(k)
    BY <1>3 DEF SlotKept, DirGrows, Unread, TypeOK
  <2> QED
    BY <1>2, <1>3, <2>1 DEF SlotKept, PromptInv
<1>4. ASSUME NEW j \in Job, SlotFreed(j), DirGrows PROVE PromptInv'
  <2>1. state[j] \in Live
    BY <1>4 DEF SlotFreed, SlotInv, RunIsActive, ActiveIsLive
  <2>2. state'[j] \in Terminal /\ \A k \in Job \ {j} : state'[k] = state[k]
    BY <1>4 DEF SlotFreed, TypeOK
  <2>3. \A k \in Job : Unread(k)' => Unread(k)
    BY <1>4, <2>1, <2>2 DEF DirGrows, Unread
  <2> QED
    BY <1>2, <1>4, <2>1, <2>2, <2>3 DEF PromptInv
<1>5. ASSUME NEW j \in Job, Submit(j), DirGrows PROVE PromptInv'
  <2>1. \A k \in Job : ~Unread(k)
    BY <1>5, NoJobIsNoJob DEF Submit, Permitted, Unread, SlotInv, ActiveIsLive
  <2>2. state[j] = "absent" /\ state'[j] = "queued" /\ \A k \in Job \ {j} : state'[k] = state[k]
    BY <1>5 DEF Submit, TypeOK
  <2>3. \A k \in Job : Unread(k)' => k = j
    BY <1>5, <2>1, <2>2 DEF DirGrows, Unread
  <2> QED
    BY <1>2, <1>5, <2>2, <2>3
<1>6. ASSUME \A j \in Job : ~Submit(j) /\ ~GetResults(j) PROVE PromptInv'
  <2>1. DirGrows
    BY <1>6, StepsOfDir
  <2>2. ASSUME NEW j \in Job, SlotTaken(j) PROVE FALSE
    BY <1>6, <2>2, TakenBySubmit
  <2> QED
    BY <1>3, <1>4, <2>1, <2>2, StepsOfSlot DEF SlotStep
<1>7. ASSUME NEW j \in Job, Submit(j) PROVE DirGrows
  BY <1>7 DEF Submit, DirGrows, dirVars
<1> QED
  BY <1>1, <1>5, <1>6, <1>7

\* A client that waits for the last worker never gets a report that misses what
\* the run of its job stored: what get_results() caches, it builds from artifacts
\* that are there before the job is completed and that no later step takes away.  If it
\* also reads each report before it submits the next job, of any two jobs at most one
\* report holds anything of the other's.
THEOREM PoliteReportsLookBack == Spec => []PoliteReportLooksBack
<1>1. Init => PromptInv
  BY DEF Init, PromptInv, Unread
<1>2. TypeOK /\ TypeOK' /\ SlotInv /\ PromptInv /\ [Next]_vars => PromptInv'
  BY PromptKeeps, ClientStays DEF PromptInv
<1>3. StoredInv /\ PromptInv => PoliteReportLooksBack
  BY DEF StoredInv, PromptInv, PoliteReportLooksBack
<1> QED
  BY <1>1, <1>2, <1>3, TypeCorrect, SlotInvHolds, StoredInvHolds, PTL DEF Spec

-----------------------------------------------------------------------------
(* The debugger session of a job, whose own client is polite in another    *)
(* sense.  Its inductive invariant SessionInv follows one command from the *)
(* call that sends it to the caller that gets its payload, and says where  *)
(* it can be only once.                                                    *)

USE RendezvousConstants DEF Cmd, Payload, Timeout

CallOrNone == 0..MaxCmd \cup {None}
Result == Payload \cup {None, Timeout}

\* The type invariant by what it speaks of; what taken and handed count has its
\* bounds below.
SlotTypes ==
  /\ pending \in {0, sent} /\ response \in Payload \cup {None} /\ connected \in BOOLEAN
  /\ sent \in 0..MaxCmd
CallTypes ==
  /\ sendLock \in Caller \cup {None} /\ call \in [Caller -> CallOrNone]
  /\ resuming \in SUBSET Cmd
CountTypes ==
  /\ taken \in [Cmd -> Nat] /\ handed \in [Cmd -> Nat]
  /\ result \in [Cmd -> Result]
TargetTypes ==
  /\ at \in {"running", "busy", "asking", "refused"} /\ on \in 0..MaxCmd
  /\ politeCaller \in BOOLEAN
SessionTypes == SlotTypes /\ CallTypes /\ CountTypes /\ TargetTypes

\* The caller of a command holds sendLock, so its command is the last one sent.
SendLockInv ==
  \A k \in Caller : /\ call[k] \notin {0, None} => sendLock = k /\ call[k] = sent
                    /\ sendLock = k => call[k] \notin {0, None}

\* A command is not sent yet, pending, with the target, in the slot for payloads,
\* or handed over: it never goes back, and where it has left it does not return.
PassInv ==
  \A n \in Cmd :
    /\ taken[n] <= 1 /\ handed[n] <= 1
    /\ n > sent \/ n = pending => taken[n] = 0
    /\ taken[n] = 0 => on # n /\ response # n /\ handed[n] = 0
    /\ on = n => response # n /\ handed[n] = 0
    /\ response = n => handed[n] = 0
    /\ result[n] = Timeout => n <= sent /\ n # pending

\* What a polite client waits for is pending, being carried out, or answered.
Asked(n) == at = "asking" /\ pending = n /\ response = None
CarriedOut(n) == at \in {"running", "busy"} /\ on = n /\ pending = 0 /\ response = None
Answered(n) == at = "asking" /\ pending = 0 /\ response = n
OneCallInv ==
  politeCaller =>
    /\ \A k, l \in Caller : call[k] # None /\ call[l] # None => k = l
    /\ \A k \in Caller : call[k] \notin {0, None} =>
         Asked(call[k]) \/ CarriedOut(call[k]) \/ Answered(call[k])

SessionInv == SessionTypes /\ SendLockInv /\ PassInv /\ OneCallInv /\ PoliteOwnPayload

-----------------------------------------------------------------------------
(* The debug server and the pipe handler. *)

\* BREAK, for a target that had a command to carry out or that was refused one.
LEMMA HandleBreakKeeps ==
  ASSUME SessionInv, NEW p \in Payload \cup {None}, HandleBreak(p),
         \/ at \in {"running", "busy"} /\ p = on
         \/ at = "refused" /\ p = None
  PROVE  SessionInv'
<1> USE DEF HandleBreak, callers, ghosts
<1>1. SessionTypes'
  BY DEF SessionInv, SessionTypes, SlotTypes, CallTypes, CountTypes, TargetTypes
<1>2. SendLockInv'
  BY DEF SessionInv, SendLockInv
<1>3. PassInv'
  <2>1. SUFFICES ASSUME NEW n \in Cmd
                 PROVE  /\ taken[n] <= 1 /\ handed[n] <= 1
                        /\ n > sent \/ n = pending => taken[n] = 0
                        /\ taken[n] = 0 => response' # n /\ handed[n] = 0
                        /\ response' = n => handed[n] = 0
                        /\ result[n] = Timeout => n <= sent /\ n # pending
    BY DEF PassInv
  <2>2. response' = n => response = n \/ on = n
    BY DEF SessionInv, SessionTypes, SlotTypes
  <2> QED
    BY <2>1, <2>2 DEF SessionInv, PassInv
<1>4. OneCallInv'
  BY DEF SessionInv, OneCallInv, SessionTypes, TargetTypes, Asked, CarriedOut, Answered
<1>5. PoliteOwnPayload'
  BY DEF SessionInv, PoliteOwnPayload
<1> QED
  BY <1>1, <1>2, <1>3, <1>4, <1>5 DEF SessionInv

LEMMA TakeCommandKeeps ==
  ASSUME SessionInv, TakeCommand
  PROVE  SessionInv'
<1> USE DEF TakeCommand, callers
<1>1. pending \in Cmd
  BY DEF SessionInv, SessionTypes, SlotTypes
<1>2. SessionTypes'
  BY <1>1 DEF SessionInv, SessionTypes, SlotTypes, CallTypes, CountTypes, TargetTypes
<1>3. SendLockInv'
  BY DEF SessionInv, SendLockInv
<1>4. PassInv'
  <2> SUFFICES ASSUME NEW n \in Cmd
               PROVE  /\ taken'[n] <= 1 /\ handed[n] <= 1
                      /\ n > sent => taken'[n] = 0
                      /\ taken'[n] = 0 => pending # n /\ response # n /\ handed[n] = 0
                      /\ pending = n => response # n /\ handed[n] = 0
                      /\ response = n => handed[n] = 0
                      /\ result[n] = Timeout => n <= sent
    BY DEF PassInv
  <2>1. CASE n = pending
    <3>1. taken[n] = 0 /\ taken'[n] = 1 /\ n <= sent
      BY <1>1, <2>1 DEF SessionInv, PassInv, SessionTypes, SlotTypes, CountTypes
    <3>2. response # n /\ handed[n] = 0 /\ on # n
      BY <3>1 DEF SessionInv, PassInv
    <3>3. sent \in Int
      BY DEF SessionInv, SessionTypes, SlotTypes
    <3> QED
      BY <2>1, <3>1, <3>2, <3>3
  <2>2. CASE n # pending
    BY <1>1, <2>2 DEF SessionInv, PassInv, SessionTypes, CountTypes
  <2> QED
    BY <2>1, <2>2
<1>5. OneCallInv'
  BY <1>1 DEF SessionInv, OneCallInv, Asked, CarriedOut, Answered
<1>6. PoliteOwnPayload'
  BY DEF SessionInv, PoliteOwnPayload
<1> QED
  BY <1>2, <1>3, <1>4, <1>5, <1>6 DEF SessionInv

\* A time-out of BREAK, or a target that runs on: no command is with the target.
LEMMA TargetMoves ==
  ASSUME SessionInv, AskTimeout \/ RunOn
  PROVE  SessionInv'
<1> USE DEF AskTimeout, RunOn, slots, callers, ghosts
<1>1. SessionTypes'
  BY DEF SessionInv, SessionTypes, SlotTypes, CallTypes, CountTypes, TargetTypes
<1>2. SendLockInv' /\ PassInv' /\ PoliteOwnPayload'
  BY DEF SessionInv, SendLockInv, PassInv, PoliteOwnPayload
<1>3. OneCallInv'
  BY DEF SessionInv, OneCallInv, NoCalls, Asked, CarriedOut, Answered
<1> QED
  BY <1>1, <1>2, <1>3 DEF SessionInv

-----------------------------------------------------------------------------
(* The callers. *)

LEMMA SendKeeps ==
  ASSUME SessionInv, NEW k \in Caller, NEW resume \in BOOLEAN, Send(k, resume)
  PROVE  SessionInv'
<1> USE DEF Send, ghosts, target
<1>1. sent \in 0..MaxCmd /\ sent + 1 \in Cmd
  BY DEF SessionInv, SessionTypes, SlotTypes
<1>2. SessionTypes'
  <2>1. SlotTypes' /\ TargetTypes'
    BY <1>1 DEF SessionInv, SessionTypes, SlotTypes, TargetTypes
  <2>2. CallTypes'
    BY <1>1 DEF SessionInv, SessionTypes, CallTypes, CallOrNone
  <2>3. CountTypes'
    BY DEF SessionInv, SessionTypes, CountTypes
  <2> QED
    BY <2>1, <2>2, <2>3 DEF SessionTypes
<1>3. call'[k] = sent + 1 /\ \A l \in Caller \ {k} : call'[l] = call[l]
  BY DEF SessionInv, SessionTypes, CallTypes
<1>4. SendLockInv'
  BY <1>1, <1>3 DEF SessionInv, SendLockInv
<1>5. PassInv'
  BY <1>1 DEF SessionInv, PassInv
<1>6. OneCallInv'
  BY <1>3 DEF SessionInv, OneCallInv, NoCalls, Asked
<1>7. PoliteOwnPayload'
  BY DEF SessionInv, PoliteOwnPayload
<1> QED
  BY <1>2, <1>4, <1>5, <1>6, <1>7 DEF SessionInv

LEMMA WaitKeeps ==
  ASSUME SessionInv, NEW k \in Caller, WaitForBreak(k)
  PROVE  SessionInv'
<1> USE DEF WaitForBreak, slots, ghosts, target
<1>1. SessionTypes'
  BY DEF SessionInv, SessionTypes, SlotTypes, CallTypes, CountTypes, TargetTypes, CallOrNone
<1>2. call'[k] = 0 /\ \A l \in Caller \ {k} : call'[l] = call[l]
  BY DEF SessionInv, SessionTypes, CallTypes
<1>3. SendLockInv'
  BY <1>2 DEF SessionInv, SendLockInv
<1>4. PassInv' /\ PoliteOwnPayload'
  BY DEF SessionInv, PassInv, PoliteOwnPayload
<1>5. OneCallInv'
  BY <1>2 DEF SessionInv, OneCallInv, NoCalls, Asked, CarriedOut, Answered
<1> QED
  BY <1>1, <1>3, <1>4, <1>5 DEF SessionInv

\* The end of a call: nobody waits for its command any more.
LEMMA CallEnds ==
  ASSUME SessionInv, NEW k \in Caller, call[k] # None,
         call' = [call EXCEPT ![k] = None], Unlock(k), UNCHANGED <<sent, resuming>>
  PROVE  /\ CallTypes' /\ SendLockInv'
         /\ call'[k] = None /\ \A l \in Caller \ {k} : call'[l] = call[l]
<1>1. CallTypes'
  BY DEF SessionInv, SessionTypes, CallTypes, CallOrNone, Unlock
<1>2. call'[k] = None /\ \A l \in Caller \ {k} : call'[l] = call[l]
  BY DEF SessionInv, SessionTypes, CallTypes
<1>3. SendLockInv'
  <2>1. sendLock' = IF sendLock = k THEN None ELSE sendLock
    BY DEF Unlock
  <2>2. None \notin Caller /\ None # 0
    OBVIOUS
  <2> QED
    BY <1>2, <2>1, <2>2 DEF SessionInv, SendLockInv
<1> QED
  BY <1>1, <1>2, <1>3

\* The payload that is handed over leaves the slot.
LEMMA ReceiveKeeps ==
  ASSUME SessionInv, NEW k \in Caller, Receive(k)
  PROVE  SessionInv'
<1> USE DEF Receive, target
<1>1. response \in Payload /\ call[k] \in 0..MaxCmd
  BY DEF SessionInv, SessionTypes, SlotTypes, CallTypes, CallOrNone
<1>2. /\ CallTypes' /\ SendLockInv' /\ call'[k] = None
      /\ \A l \in Caller \ {k} : call'[l] = call[l]
  BY CallEnds
<1>3. \A n \in Cmd : result'[n] = IF n = call[k] THEN response ELSE result[n]
  BY <1>1 DEF SessionInv, SessionTypes, CountTypes, Record
<1>4. \A n \in Cmd : handed'[n] = IF n = response THEN handed[n] + 1 ELSE handed[n]
  BY <1>1 DEF SessionInv, SessionTypes, CountTypes
<1>5. SessionTypes'
  <2>1. CountTypes'
    <3>1. handed' \in [Cmd -> Nat]
      BY <1>1 DEF SessionInv, SessionTypes, CountTypes
    <3>2. result' \in [Cmd -> Result]
      BY <1>1 DEF SessionInv, SessionTypes, CountTypes, Record, Result
    <3> QED
      BY <3>1, <3>2 DEF SessionInv, SessionTypes, CountTypes
  <2>2. SlotTypes' /\ TargetTypes'
    BY DEF SessionInv, SessionTypes, SlotTypes, TargetTypes
  <2> QED
    BY <1>2, <2>1, <2>2 DEF SessionTypes
<1>6. PassInv'
  <2>1. response' = None /\ None \notin Int
    OBVIOUS
  <2> SUFFICES ASSUME NEW n \in Cmd
               PROVE  /\ taken[n] <= 1 /\ handed'[n] <= 1
                      /\ n > sent \/ n = pending => taken[n] = 0
                      /\ taken[n] = 0 => on # n /\ handed'[n] = 0
                      /\ on = n => handed'[n] = 0
                      /\ result'[n] = Timeout => n <= sent /\ n # pending
    BY <2>1 DEF PassInv
  <2>2. handed'[n] = IF n = response THEN 1 ELSE handed[n]
    BY <1>4 DEF SessionInv, PassInv
  <2>3. result'[n] = Timeout => result[n] = Timeout
    BY <1>1, <1>3
  <2> QED
    BY <2>2, <2>3 DEF SessionInv, PassInv
<1>7. OneCallInv'
  BY <1>2 DEF SessionInv, OneCallInv
<1>8. PoliteOwnPayload'
  <2> SUFFICES ASSUME politeCaller, NEW n \in Cmd
               PROVE  result'[n] \in {None, Timeout, n}
    BY DEF PoliteOwnPayload
  <2>1. n = call[k] => response = n
    BY DEF SessionInv, OneCallInv, Asked, CarriedOut, Answered
  <2> QED
    BY <1>3, <2>1 DEF SessionInv, PoliteOwnPayload
<1> QED
  BY <1>2, <1>5, <1>6, <1>7, <1>8 DEF SessionInv

\* A command that is withdrawn was the last one sent: it is not pending any more.
LEMMA GiveUpKeeps ==
  ASSUME SessionInv, NEW k \in Caller, GiveUp(k)
  PROVE  SessionInv'
<1> USE DEF GiveUp, target
<1>1. call[k] \in 0..MaxCmd /\ (call[k] # 0 => call[k] = sent)
  BY DEF SessionInv, SessionTypes, CallTypes, CallOrNone, SendLockInv
<1>2. /\ CallTypes' /\ SendLockInv' /\ call'[k] = None
      /\ \A l \in Caller \ {k} : call'[l] = call[l]
  BY CallEnds
<1>3. \A n \in Cmd : result'[n] = IF n = call[k] THEN Timeout ELSE result[n]
  BY <1>1 DEF SessionInv, SessionTypes, CountTypes, Record
<1>4. SessionTypes'
  <2>1. result' \in [Cmd -> Result]
    BY <1>1 DEF SessionInv, SessionTypes, CountTypes, Record, Result
  <2> QED
    BY <1>2, <2>1 DEF SessionInv, SessionTypes, SlotTypes, CountTypes, TargetTypes
<1>5. PassInv'
  BY <1>1, <1>3 DEF SessionInv, PassInv, SessionTypes, SlotTypes
<1>6. OneCallInv'
  <2> SUFFICES ASSUME politeCaller, NEW l \in Caller, l # k, call[l] # None
               PROVE  FALSE
    BY <1>2 DEF SessionInv, OneCallInv
  <2> QED
    BY DEF SessionInv, OneCallInv
<1>7. PoliteOwnPayload'
  BY <1>3 DEF SessionInv, PoliteOwnPayload
<1> QED
  BY <1>2, <1>4, <1>5, <1>6, <1>7 DEF SessionInv

-----------------------------------------------------------------------------

LEMMA SessionInvHolds == SessionSpec => []SessionInv
<1>1. SessionInit => SessionInv
  <2> SUFFICES ASSUME SessionInit PROVE SessionInv
    OBVIOUS
  <2>1. SessionTypes
    <3>1. SlotTypes /\ TargetTypes
      <4>1. connected \in BOOLEAN /\ politeCaller \in BOOLEAN
        BY DEF SessionInit
      <4> QED
        BY <4>1 DEF SessionInit, SlotTypes, TargetTypes
    <3>2. CallTypes /\ CountTypes
      BY DEF SessionInit, CallTypes, CallOrNone, CountTypes, Result
    <3> QED
      BY <3>1, <3>2 DEF SessionTypes
  <2>2. SendLockInv /\ OneCallInv /\ PoliteOwnPayload
    BY DEF SessionInit, SendLockInv, OneCallInv, PoliteOwnPayload
  <2>3. PassInv
    BY DEF SessionInit, PassInv
  <2> QED
    BY <2>1, <2>2, <2>3 DEF SessionInv
<1>2. SessionInv /\ [SessionNext]_sessionVars => SessionInv'
  <2> SUFFICES ASSUME SessionInv, [SessionNext]_sessionVars
               PROVE  SessionInv'
    OBVIOUS
  <2>1. ASSUME NEW k \in Caller, NEW resume \in BOOLEAN, Send(k, resume)
        PROVE  SessionInv'
    BY <2>1, SendKeeps
  <2>2. ASSUME NEW k \in Caller, WaitForBreak(k) PROVE SessionInv'
    BY <2>2, WaitKeeps
  <2>3. ASSUME NEW k \in Caller, Receive(k) PROVE SessionInv'
    BY <2>3, ReceiveKeeps
  <2>4. ASSUME NEW k \in Caller, GiveUp(k) PROVE SessionInv'
    BY <2>4, GiveUpKeeps
  <2>5. ASSUME TakeCommand PROVE SessionInv'
    BY <2>5, TakeCommandKeeps
  <2>6. ASSUME AskTimeout \/ RunOn PROVE SessionInv'
    BY <2>6, TargetMoves
  <2>7. ASSUME Break \/ CarryOut \/ AskAgain PROVE SessionInv'
    <3>1. on \in Payload
      BY DEF SessionInv, SessionTypes, TargetTypes
    <3> QED
      BY <2>7, <3>1, HandleBreakKeeps DEF Break, CarryOut, AskAgain
  <2>8. CASE UNCHANGED sessionVars
    BY <2>8 DEF sessionVars, slots, callers, ghosts, target, SessionInv,
                SessionTypes, SlotTypes, CallTypes, CountTypes, TargetTypes, SendLockInv,
                PassInv, OneCallInv, PoliteOwnPayload,
                Asked, CarriedOut, Answered
  <2> QED
    BY <2>1, <2>2, <2>3, <2>4, <2>5, <2>6, <2>7, <2>8 DEF SessionNext, Tool
<1> QED
  BY <1>1, <1>2, PTL DEF SessionSpec

\* The slots, the callers' state and the target's keep their types; a pending
\* command is the last one sent, whoever else sends or gives up meanwhile.
THEOREM SessionTypeCorrect == SessionSpec => []SessionTypeOK
<1>1. SessionInv => SessionTypeOK
  BY DEF SessionInv, SessionTypes, SlotTypes, CallTypes, CountTypes, TargetTypes, CallOrNone,
         Result, SessionTypeOK
<1> QED
  BY <1>1, SessionInvHolds, PTL

\* The debug server gets a command at most once, with any number of callers that
\* send, time out and send again, and however often the target breaks.
THEOREM CommandsAreTakenOnce == SessionSpec => []CommandOnce
<1>1. SessionInv => CommandOnce
  BY DEF SessionInv, PassInv, CommandOnce
<1> QED
  BY <1>1, SessionInvHolds, PTL

\* A payload is handed to one caller: _TakeResponse leaves none for the callers
\* that wait beside it in WaitForBreak and SendCommand.
THEOREM PayloadsAreHandedOnce == SessionSpec => []PayloadOnce
<1>1. SessionInv => PayloadOnce
  BY DEF SessionInv, PassInv, PayloadOnce
<1> QED
  BY <1>1, SessionInvHolds, PTL

\* A client with one call at a time, which sends while the target is halted, gets
\* the payload of its own command or none.
THEOREM PoliteClientsGetTheirOwn == SessionSpec => []PoliteOwnPayload
<1>1. SessionInv => PoliteOwnPayload
  BY DEF SessionInv
<1> QED
  BY <1>1, SessionInvHolds, PTL

\* A command that was withdrawn before the debug server got it is never carried
\* out: what SendCommand reported as timed out is not pending.
THEOREM WithdrawnCommandsAreGone == SessionSpec => WithdrawnIsGone
<1>1. ASSUME SessionInv, [SessionNext]_sessionVars
      PROVE  [\A n \in Cmd : result[n] = Timeout => taken'[n] = taken[n]]_sessionVars
  <2> SUFFICES ASSUME NEW n \in Cmd, result[n] = Timeout
               PROVE  taken'[n] = taken[n]
    OBVIOUS
  <2>1. n # pending
    BY <1>1 DEF SessionInv, PassInv
  <2>2. ASSUME TakeCommand PROVE taken'[n] = taken[n]
    <3>1. pending \in Cmd
      BY <1>1, <2>2 DEF TakeCommand, SessionInv, SessionTypes, SlotTypes
    <3> QED
      BY <1>1, <2>1, <2>2, <3>1 DEF TakeCommand, SessionInv, SessionTypes, CountTypes
  <2>3. ASSUME ~TakeCommand PROVE taken' = taken
    BY <1>1, <2>3 DEF SessionNext, Tool, Send, WaitForBreak, Receive,
         GiveUp, AskTimeout, RunOn, Break, CarryOut,
         AskAgain, HandleBreak, sessionVars, ghosts
  <2> QED
    BY <2>2, <2>3
<1> QED
  BY <1>1, SessionInvHolds, PTL DEF SessionSpec, WithdrawnIsGone

=============================================================================
