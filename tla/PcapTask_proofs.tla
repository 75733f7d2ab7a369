--------------------------- MODULE PcapTask_proofs ---------------------------
(***************************************************************************)
(* Theorems about PcapTask, for any number of attempts, any file lengths,  *)
(* any number of agent restarts and (but for ReportIsWhole, which is about *)
(* one fault) any number of failed writes and killed attempts.             *)
(***************************************************************************)
EXTENDS PcapTask, TLAPS

USE PcapConstants DEF Run, None, Status

\* The type invariant by who writes what.
ClientTypes ==
  /\ run \in 0..MaxRun
  /\ pc \in {"idle", "starting", "marking", "running", "stopping", "fetching",
             "writing", "binding", "reporting"}
  /\ runtime \in [Run -> [status : Status, started : BOOLEAN, fetched : BOOLEAN,
                          sha : 0..MaxLen]]
WireTypes ==
  /\ asked \subseteq Run \X Kind
  /\ answers \subseteq [run : Run, kind : Kind, ok : BOOLEAN, len : 0..MaxLen]
Record == [state : {"none", "capturing", "stopped"}, len : 0..MaxLen]
AgentTypes ==
  /\ proc \in [Run -> {"none", "running", "exited"}]
  /\ orphans \subseteq Run
  /\ len \in [Run -> 0..MaxLen]
  /\ active \in Run \cup {None}
  /\ records \in [Run -> Record]
  /\ crashes \in 0..MaxCrash
DiskTypes ==
  /\ dump \in [run : Run \cup {None}, len : 0..MaxLen]
  /\ bound \in [run : Run \cup {None}, status : Status, fetched : BOOLEAN]
  /\ report \in Run \cup {None}
FaultTypes == faults \in 0..MaxFault

\* An attempt that has begun has a number.
Numbered == pc # "idle" => run \in Run

Types == ClientTypes /\ WireTypes /\ AgentTypes /\ DiskTypes /\ FaultTypes

LEMMA TypesAreTypeOK == Types <=> TypeOK
BY DEF Types, Record, TypeOK, ClientTypes, WireTypes, AgentTypes, DiskTypes, FaultTypes

\* What a step leaves alone keeps its types.
LEMMA UnchangedTypes ==
  /\ UNCHANGED client /\ ClientTypes => ClientTypes'
  /\ UNCHANGED client /\ Numbered => Numbered'
  /\ UNCHANGED wire /\ WireTypes => WireTypes'
  /\ UNCHANGED agent /\ AgentTypes => AgentTypes'
  /\ UNCHANGED disk /\ DiskTypes => DiskTypes'
  /\ UNCHANGED faults /\ FaultTypes => FaultTypes'
BY DEF client, wire, agent, disk, Numbered, ClientTypes, WireTypes, AgentTypes,
       DiskTypes, FaultTypes

\* Zero is a length, and the agent's records are records.
LEMMA RecordTypes ==
  /\ 0 \in 0..MaxLen
  /\ NoRecord \in Record
  /\ [state |-> "capturing", len |-> 0] \in Record
  /\ \A n \in 0..MaxLen : [state |-> "stopped", len |-> n] \in Record
BY DEF NoRecord, Record

\* What the agent's refresh leaves is a slot and records.
LEMMA RefreshTypes ==
  ASSUME AgentTypes
  PROVE  /\ ActiveNow \in Run \cup {None}
         /\ RecordsNow \in [Run -> Record]
BY RecordTypes DEF AgentTypes, ActiveNow, RecordsNow, Refreshed

\* An answer of the agent is well formed.
LEMMA AnswerTypes ==
  ASSUME WireTypes, NEW r \in Run, NEW kind \in Kind, NEW ok \in BOOLEAN,
         NEW n \in 0..MaxLen, Answer(r, kind, ok, n)
  PROVE  WireTypes'
<1>1. asked' \subseteq Run \X Kind
  BY DEF WireTypes, Answer
<1>2. [run |-> r, kind |-> kind, ok |-> ok, len |-> n]
        \in [run : Run, kind : Kind, ok : BOOLEAN, len : 0..MaxLen]
  OBVIOUS
<1>3. answers' \subseteq [run : Run, kind : Kind, ok : BOOLEAN, len : 0..MaxLen]
  BY <1>2 DEF WireTypes, Answer
<1> QED
  BY <1>1, <1>3 DEF WireTypes

\* A handler of the agent, and its dumpcap.
LEMMA AgentKeepsTypes ==
  ASSUME AgentTypes, WireTypes, NEW r \in Run, Agent(r)
  PROVE  AgentTypes' /\ WireTypes' /\ UNCHANGED <<client, disk, faults>>
<1>1. CASE HandleStart(r)
  <2>1. AgentTypes'
    <3>1. records' \in [Run -> Record]
      BY <1>1, RefreshTypes, RecordTypes DEF HandleStart
    <3> QED
      BY <1>1, <3>1, RefreshTypes DEF HandleStart, AgentTypes
  <2> QED
    BY <1>1, <2>1, AnswerTypes, RecordTypes DEF HandleStart, Kind
<1>2. CASE RefuseStart(r)
  <2>1. AgentTypes'
    BY <1>2, RefreshTypes DEF RefuseStart, AgentTypes
  <2> QED
    BY <1>2, <2>1, AnswerTypes, RecordTypes DEF RefuseStart, Kind
<1>3. CASE HandleStop(r)
  <2>1. AgentTypes'
    <3>1. records' \in [Run -> Record]
      <4>1. [state |-> "stopped", len |-> len[r]] \in Record
        BY RecordTypes DEF AgentTypes
      <4> QED
        BY <1>3, <4>1, RefreshTypes DEF HandleStop, AgentTypes
    <3> QED
      BY <1>3, <3>1, RefreshTypes DEF HandleStop, AgentTypes
  <2>2. RecordsNow[r].len \in 0..MaxLen /\ len[r] \in 0..MaxLen
    BY RefreshTypes DEF AgentTypes, Record
  <2> QED
    BY <1>3, <2>1, <2>2, AnswerTypes, RecordTypes DEF HandleStop, Kind
<1>4. CASE HandleFetch(r)
  <2>1. AgentTypes'
    BY <1>4, RefreshTypes DEF HandleFetch, AgentTypes
  <2>2. len[r] \in 0..MaxLen
    BY DEF AgentTypes
  <2> QED
    BY <1>4, <2>1, <2>2, AnswerTypes DEF HandleFetch, Kind
<1>5. ASSUME NEW kind \in {"stop", "fetch"}, Unknown(r, kind)
      PROVE  AgentTypes' /\ WireTypes' /\ UNCHANGED <<client, disk, faults>>
  <2>1. AgentTypes'
    BY <1>5, RefreshTypes DEF Unknown, AgentTypes
  <2> QED
    BY <1>5, <2>1, AnswerTypes, RecordTypes, kind \in Kind DEF Unknown, Kind
<1>6. CASE Write(r)
  <2>1. len[r] + 1 \in 0..MaxLen
    BY <1>6 DEF Write, AgentTypes
  <2> QED
    BY <1>6, <2>1, UnchangedTypes DEF Write, AgentTypes
<1>7. CASE Expire(r)
  BY <1>7, UnchangedTypes DEF Expire, AgentTypes
<1> QED
  BY <1>1, <1>2, <1>3, <1>4, <1>5, <1>6, <1>7 DEF Agent

\* Taking an answer off the wire, or leaving it there.
LEMMA HearTypes ==
  ASSUME WireTypes, answers' \subseteq answers, asked' \subseteq asked
  PROVE  WireTypes'
BY DEF WireTypes

\* What the client writes to its runtime and to its small files.
LEMMA SetRuntimeTypes ==
  ASSUME ClientTypes, Numbered, pc # "idle",
         NEW values \in [status : Status, started : BOOLEAN, fetched : BOOLEAN,
                         sha : 0..MaxLen],
         SetRuntime(values)
  PROVE  runtime' \in [Run -> [status : Status, started : BOOLEAN, fetched : BOOLEAN,
                               sha : 0..MaxLen]]
BY DEF ClientTypes, SetRuntime

LEMMA RuntimeTypes ==
  ASSUME ClientTypes, Numbered, pc # "idle"
  PROVE  /\ run \in Run
         /\ runtime[run] \in [status : Status, started : BOOLEAN, fetched : BOOLEAN,
                              sha : 0..MaxLen]
         /\ Snapshot \in [run : Run \cup {None}, status : Status, fetched : BOOLEAN]
BY DEF ClientTypes, Numbered, Snapshot

LEMMA SnapshotTypes ==
  ASSUME DiskTypes, FaultTypes, ClientTypes, Numbered, pc # "idle",
         WriteFile(bound, Snapshot), UNCHANGED <<dump, report>>
  PROVE  DiskTypes' /\ FaultTypes'
<1>1. FaultTypes'
  BY DEF WriteFile, FaultTypes
<1> QED
  BY <1>1, RuntimeTypes DEF WriteFile, DiskTypes

\* A step of the client.
LEMMA ClientKeepsTypes ==
  ASSUME Types, Numbered, Client
  PROVE  Types' /\ Numbered'
<1> USE DEF Types
<1>1. CASE Started
  <2>1. ClientTypes' /\ Numbered'
    BY <1>1, SetRuntimeTypes, RuntimeTypes DEF Started, ClientTypes, Numbered
  <2> QED
    BY <1>1, <2>1, UnchangedTypes, HearTypes DEF Started, Hear
<1>2. CASE StartFailed
  <2>1. ClientTypes' /\ Numbered'
    BY <1>2, SetRuntimeTypes, RuntimeTypes DEF StartFailed, ClientTypes, Numbered
  <2> QED
    BY <1>2, <2>1, UnchangedTypes, HearTypes DEF StartFailed, Unheard, Hear
<1>3. CASE Mark
  <2>1. ClientTypes' /\ Numbered'
    BY <1>3 DEF Mark, ClientTypes, Numbered
  <2> QED
    BY <1>3, <2>1, UnchangedTypes, SnapshotTypes DEF Mark
<1>4. CASE Stop
  <2>1. ClientTypes' /\ Numbered'
    BY <1>4 DEF Stop, ClientTypes, Numbered
  <2>2. WireTypes'
    BY <1>4 DEF Stop, Ask, Kind, WireTypes, Numbered
  <2> QED
    BY <1>4, <2>1, <2>2, UnchangedTypes DEF Stop
<1>5. CASE Stopped
  <2>1. ClientTypes' /\ Numbered'
    BY <1>5, SetRuntimeTypes, RuntimeTypes DEF Stopped, ClientTypes, Numbered
  <2>2. WireTypes'
    BY <1>5 DEF Stopped, Hear, Ask, Kind, WireTypes, Numbered
  <2> QED
    BY <1>5, <2>1, <2>2, UnchangedTypes DEF Stopped
<1>6. CASE StoppedOnly
  <2>1. ClientTypes' /\ Numbered'
    BY <1>6, SetRuntimeTypes, RuntimeTypes DEF StoppedOnly, ClientTypes, Numbered
  <2> QED
    BY <1>6, <2>1, UnchangedTypes, HearTypes DEF StoppedOnly, Hear
<1>7. CASE StopFailed
  <2>1. ClientTypes' /\ Numbered'
    BY <1>7, SetRuntimeTypes, RuntimeTypes DEF StopFailed, ClientTypes, Numbered
  <2> QED
    BY <1>7, <2>1, UnchangedTypes, HearTypes DEF StopFailed, Unheard, Hear
<1>8. CASE Fetched
  <2>1. ClientTypes' /\ Numbered'
    BY <1>8, SetRuntimeTypes, RuntimeTypes DEF Fetched, ClientTypes, Numbered
  <2>2. DiskTypes'
    BY <1>8, RuntimeTypes DEF Fetched, DiskTypes
  <2> QED
    BY <1>8, <2>1, <2>2, UnchangedTypes, HearTypes DEF Fetched, Hear
<1>9. CASE FetchFailed
  <2>1. ClientTypes' /\ Numbered'
    BY <1>9, SetRuntimeTypes, RuntimeTypes DEF FetchFailed, ClientTypes, Numbered
  <2> QED
    BY <1>9, <2>1, UnchangedTypes, HearTypes DEF FetchFailed, Unheard, Hear
<1>10. CASE WriteRuntime
  <2>1. ClientTypes' /\ Numbered'
    BY <1>10 DEF WriteRuntime, ClientTypes, Numbered
  <2> QED
    BY <1>10, <2>1, UnchangedTypes, SnapshotTypes DEF WriteRuntime
<1>11. CASE Bind
  <2>1. ClientTypes' /\ Numbered'
    BY <1>11 DEF Bind, ClientTypes, Numbered
  <2> QED
    BY <1>11, <2>1, UnchangedTypes, SnapshotTypes DEF Bind
<1>12. CASE WriteReport
  <2>1. ClientTypes' /\ Numbered'
    BY <1>12 DEF WriteReport, ClientTypes, Numbered
  <2>2. DiskTypes' /\ FaultTypes'
    BY <1>12, RuntimeTypes DEF WriteReport, WriteFile, DiskTypes, FaultTypes
  <2> QED
    BY <1>12, <2>1, <2>2, UnchangedTypes DEF WriteReport
<1> QED
  BY <1>1, <1>2, <1>3, <1>4, <1>5, <1>6, <1>7, <1>8, <1>9, <1>10, <1>11, <1>12
     DEF Client

\* The client and the agent keep the types of what they hold, send and write,
\* and an attempt that has begun has its number.
LEMMA TypesHold == Spec => [](Types /\ Numbered)
<1>1. Init => Types /\ Numbered
  <2> SUFFICES ASSUME Init PROVE Types /\ Numbered
    OBVIOUS
  <2>1. ClientTypes /\ Numbered
    BY DEF Init, ClientTypes, NewRuntime, Numbered
  <2>2. WireTypes
    BY DEF Init, WireTypes
  <2>3. AgentTypes
    BY RecordTypes DEF Init, AgentTypes
  <2>4. DiskTypes /\ FaultTypes
    BY RecordTypes DEF Init, DiskTypes, FaultTypes
  <2> QED
    BY <2>1, <2>2, <2>3, <2>4 DEF Types
<1>2. Types /\ Numbered /\ [Next]_vars => Types' /\ Numbered'
  <2> SUFFICES ASSUME Types, Numbered, [Next]_vars PROVE Types' /\ Numbered'
    OBVIOUS
  <2> USE DEF Types
  <2>1. ASSUME NEW r \in Run, Agent(r) PROVE Types' /\ Numbered'
    BY <2>1, AgentKeepsTypes, UnchangedTypes
  <2>2. CASE Client
    BY <2>2, ClientKeepsTypes
  <2>3. CASE Start
    <3>1. ClientTypes' /\ Numbered'
      BY <2>3 DEF Start, ClientTypes, Numbered
    <3>2. WireTypes'
      BY <2>3 DEF Start, ClientTypes, WireTypes, Kind
    <3> QED
      BY <2>3, <3>1, <3>2, UnchangedTypes DEF Start
  <2>4. CASE Kill
    <3>1. ClientTypes' /\ Numbered' /\ FaultTypes'
      BY <2>4 DEF Kill, ClientTypes, Numbered, FaultTypes
    <3> QED
      BY <2>4, <3>1, UnchangedTypes DEF Kill
  <2>5. CASE Lose
    BY <2>5, HearTypes, UnchangedTypes DEF Lose
  <2>6. CASE HandleStatus
    <3>1. AgentTypes'
      BY <2>6, RefreshTypes DEF HandleStatus, AgentTypes
    <3> QED
      BY <2>6, <3>1, UnchangedTypes DEF HandleStatus
  <2>7. CASE Restart
    <3>1. AgentTypes'
      <4>1. records' \in [Run -> Record] /\ orphans' \subseteq Run
        BY <2>7, RecordTypes DEF Restart, AgentTypes
      <4>2. crashes' \in 0..MaxCrash
        BY <2>7 DEF Restart, AgentTypes
      <4> QED
        BY <2>7, <4>1, <4>2 DEF Restart, AgentTypes
    <3> QED
      BY <2>7, <3>1, HearTypes, UnchangedTypes DEF Restart
  <2>8. CASE Shutdown
    <3>1. AgentTypes'
      BY <2>8, RecordTypes DEF Shutdown, AgentTypes
    <3> QED
      BY <2>8, <3>1, HearTypes, UnchangedTypes DEF Shutdown
  <2>9. CASE UNCHANGED vars
    BY <2>9, UnchangedTypes DEF vars
  <2> QED
    BY <2>1, <2>2, <2>3, <2>4, <2>5, <2>6, <2>7, <2>8, <2>9 DEF Next
<1> QED
  BY <1>1, <1>2, PTL DEF Spec

\* Every variable keeps its type, for every number of attempts.
THEOREM TypeCorrect == Spec => []TypeOK
BY TypesHold, TypesAreTypeOK, PTL DEF Types

-----------------------------------------------------------------------------
(* What the agent holds.  A run is started at most once, its record says     *)
(* stopped only of a dumpcap that has ended, with the length of its file,    *)
(* and a dumpcap that no restart has orphaned is the active one.             *)

\* The agent's slot a and records recs, before or after a refresh.
SlotOf(a, recs) ==
  /\ a # None => recs[a].state = "capturing"
  /\ \A r \in Run : recs[r].state # "none" => proc[r] # "none"
  /\ \A r \in Run : recs[r].state = "stopped" => proc[r] = "exited" /\ recs[r].len = len[r]
  /\ \A r \in Run : proc[r] = "running" => r \in orphans \/ a = r

StartedOnce ==
  /\ \A r \in Run : r > run => proc[r] = "none"
  /\ \A r \in Run : <<r, "start">> \in asked => r <= run /\ proc[r] = "none"
  /\ \A r \in orphans : proc[r] # "none"

\* An answer tells the truth about a file that no longer grows.
TrueAnswers ==
  \A a \in answers : a.ok /\ a.kind # "start" => proc[a.run] = "exited" /\ a.len = len[a.run]

AgentInv == SlotOf(active, records) /\ StartedOnce /\ TrueAnswers

\* The refresh finalizes the active record if its dumpcap has ended, and what
\* is still active after it is being written.
LEMMA RefreshKeepsSlot ==
  ASSUME Types, SlotOf(active, records)
  PROVE  /\ SlotOf(ActiveNow, RecordsNow)
         /\ ActiveNow # None => /\ ActiveNow = active /\ RecordsNow = records
                                /\ proc[active] = "running"
         /\ \A r \in Run : records[r].state # "capturing" => RecordsNow[r] = records[r]
<1> USE DEF Types, AgentTypes, SlotOf, ActiveNow, RecordsNow
<1>1. CASE Refreshed
  <2>1. active \in Run /\ proc[active] = "exited" /\ ActiveNow = None
    BY <1>1 DEF Refreshed
  <2>2. /\ RecordsNow[active] = [state |-> "stopped", len |-> len[active]]
        /\ \A r \in Run \ {active} : RecordsNow[r] = records[r]
    BY <1>1, <2>1
  <2> QED
    BY <2>1, <2>2
<1>2. CASE ~Refreshed
  <2>1. ActiveNow = active /\ RecordsNow = records
    BY <1>2
  <2>2. active # None => proc[active] = "running"
    BY <1>2 DEF Refreshed
  <2> QED
    BY <2>1, <2>2
<1> QED
  BY <1>1, <1>2

\* An answer is taken off the requests, and added to the answers.
LEMMA AnswerKeepsTruth ==
  ASSUME TrueAnswers, WireTypes, NEW r \in Run, NEW kind, NEW ok, NEW n,
         Answer(r, kind, ok, n),
         \A q \in Run : proc[q] = "exited" => proc'[q] = "exited" /\ len'[q] = len[q],
         ok /\ kind # "start" => proc'[r] = "exited" /\ n = len'[r]
  PROVE  TrueAnswers'
BY DEF TrueAnswers, WireTypes, Answer

\* A handler of the agent, and its dumpcap.
LEMMA AgentKeepsInv ==
  ASSUME Types, AgentInv, NEW r \in Run, Agent(r)
  PROVE  AgentInv'
<1> DEFINE new == [state |-> "capturing", len |-> 0]
<1> USE RefreshKeepsSlot DEF Types, AgentInv
<1>1. CASE HandleStart(r)
  <2>1. /\ proc[r] = "none" /\ proc'[r] # "none" /\ r <= run /\ ActiveNow = None
        /\ asked' = asked \ {<<r, "start">>}
        /\ \A q \in Run \ {r} : proc'[q] = proc[q]
        /\ UNCHANGED <<run, orphans, len>>
    BY <1>1 DEF HandleStart, StartedOnce, Answer, AgentTypes, client
  <2>2. StartedOnce'
    <3>1. \A q \in Run : <<q, "start">> \in asked' => q # r /\ <<q, "start">> \in asked
      BY <2>1
    <3> QED
      <4>1. \A q \in Run : q > run => q # r /\ proc'[q] = "none"
        BY <2>1 DEF StartedOnce, ClientTypes
      <4>2. \A q \in Run : <<q, "start">> \in asked' => q <= run /\ proc'[q] = "none"
        BY <2>1, <3>1 DEF StartedOnce
      <4>3. \A q \in orphans : proc'[q] # "none"
        BY <2>1 DEF StartedOnce, AgentTypes
      <4> QED
        BY <2>1, <4>1, <4>2, <4>3 DEF StartedOnce
  <2>3. TrueAnswers'
    BY <1>1, <2>1, AnswerKeepsTruth DEF HandleStart
  <2>4. SlotOf(active, records)'
    <3>1. RecordsNow \in [Run -> Record] /\ SlotOf(None, RecordsNow)
      BY <2>1, RefreshTypes
    <3>2. CASE proc'[r] = "running" /\ active' = r /\ records' = [RecordsNow EXCEPT ![r] = new]
      BY <2>1, <3>1, <3>2 DEF SlotOf
    <3>3. CASE proc'[r] = "exited" /\ active' = None /\ records' = RecordsNow
      BY <2>1, <3>1, <3>3 DEF SlotOf
    <3> QED
      BY <1>1, <2>1, <3>2, <3>3 DEF HandleStart, AgentTypes
  <2> QED
    BY <2>2, <2>3, <2>4
<1>2. CASE RefuseStart(r)
  <2>1. TrueAnswers'
    BY <1>2, AnswerKeepsTruth DEF RefuseStart
  <2> QED
    BY <1>2, <2>1 DEF RefuseStart, SlotOf, StartedOnce, Answer, client
<1>8. CASE HandleStop(r) /\ Answer(r, "stop", FALSE, 0) /\ UNCHANGED <<proc, active, records>>
  <2>1. UNCHANGED <<run, orphans, len>> /\ asked' \subseteq asked
    BY <1>8 DEF HandleStop, Answer, client
  <2>2. TrueAnswers'
    BY <1>8, <2>1, AnswerKeepsTruth
  <2> QED
    BY <1>8, <2>1, <2>2 DEF SlotOf, StartedOnce
<1>3. CASE HandleStop(r) /\ ~(Answer(r, "stop", FALSE, 0) /\ UNCHANGED <<proc, active, records>>)
  <2>1. /\ UNCHANGED <<run, orphans, len>>
        /\ asked' \subseteq asked
        /\ proc[r] # "none"
        /\ proc' = [proc EXCEPT ![r] = "exited"]
    <3>1. proc[r] # "none"
      BY <1>3 DEF HandleStop, SlotOf
    <3>2. RecordsNow[r].state = "stopped" => proc[r] = "exited"
      BY DEF SlotOf
    <3> QED
      BY <1>3, <3>1, <3>2 DEF HandleStop, Answer, AgentTypes, client
  <2>2. StartedOnce'
    BY <2>1 DEF StartedOnce, AgentTypes
  <2>3. TrueAnswers'
    <3>1. \A q \in Run : proc[q] = "exited" => proc'[q] = "exited" /\ len'[q] = len[q]
      BY <2>1 DEF AgentTypes
    <3>2. proc'[r] = "exited" /\ len'[r] = len[r]
      BY <2>1 DEF AgentTypes
    <3>3. RecordsNow[r].state = "stopped" => RecordsNow[r].len = len[r]
      BY DEF SlotOf
    <3> QED
      BY <1>3, <3>1, <3>2, <3>3, AnswerKeepsTruth DEF HandleStop
  <2>4. SlotOf(active, records)'
    <3>1. CASE RecordsNow[r].state = "stopped"
      BY <1>3, <2>1, <3>1 DEF HandleStop, SlotOf, AgentTypes
    <3>2. CASE /\ active' = IF active = r THEN None ELSE active
               /\ records' = [records EXCEPT ![r] = [state |-> "stopped", len |-> len[r]]]
      BY <2>1, <3>2 DEF SlotOf, AgentTypes
    <3>3. CASE UNCHANGED <<active, records>> /\ RecordsNow[r].state # "stopped"
      <4>1. records[r].state # "stopped"
        BY <3>3
      <4> QED
        BY <2>1, <3>3, <4>1 DEF SlotOf, AgentTypes
    <3> QED
      BY <1>3, <3>1, <3>2, <3>3 DEF HandleStop
  <2> QED
    BY <2>2, <2>3, <2>4
<1>4. CASE HandleFetch(r)
  <2>1. proc[r] = "exited"
    BY <1>4 DEF HandleFetch, SlotOf
  <2>2. TrueAnswers'
    BY <1>4, <2>1, AnswerKeepsTruth DEF HandleFetch
  <2> QED
    BY <1>4, <2>2 DEF HandleFetch, SlotOf, StartedOnce, Answer, client
<1>5. ASSUME NEW kind \in {"stop", "fetch"}, Unknown(r, kind) PROVE AgentInv'
  <2>1. TrueAnswers'
    BY <1>5, AnswerKeepsTruth DEF Unknown
  <2> QED
    BY <1>5, <2>1 DEF Unknown, SlotOf, StartedOnce, Answer, client
<1>6. CASE Write(r)
  <2>1. /\ UNCHANGED <<run, asked, answers, proc, orphans, active, records>>
        /\ proc[r] = "running" /\ \A q \in Run \ {r} : len'[q] = len[q]
    BY <1>6 DEF Write, AgentTypes, client, wire
  <2> QED
    BY <2>1 DEF SlotOf, StartedOnce, TrueAnswers, WireTypes
<1>7. CASE Expire(r)
  <2>1. /\ UNCHANGED <<run, asked, answers, len, orphans, active, records>>
        /\ proc[r] = "running" /\ proc'[r] = "exited"
        /\ \A q \in Run \ {r} : proc'[q] = proc[q]
    BY <1>7 DEF Expire, AgentTypes, client, wire
  <2>2. SlotOf(active, records)'
    BY <2>1 DEF SlotOf
  <2>3. StartedOnce'
    BY <2>1 DEF StartedOnce, AgentTypes
  <2>4. TrueAnswers'
    BY <2>1 DEF TrueAnswers, WireTypes
  <2> QED
    BY <2>2, <2>3, <2>4
<1> QED
  BY <1>1, <1>2, <1>3, <1>4, <1>5, <1>6, <1>7, <1>8 DEF Agent

\* Every step keeps what the agent holds.
LEMMA StepKeepsAgentInv ==
  ASSUME Types, Numbered, AgentInv, [Next]_vars
  PROVE  AgentInv'
<1> USE DEF Types, AgentInv
<1>1. ASSUME NEW r \in Run, Agent(r) PROVE AgentInv'
  BY <1>1, AgentKeepsInv
<1>2. CASE Client \/ Kill \/ Lose \/ UNCHANGED vars
  <2>1. UNCHANGED agent
    BY <1>2 DEF Client, Started, StartFailed, Mark, Stop, Stopped, StoppedOnly,
       StopFailed, Fetched, FetchFailed, WriteRuntime, Bind, WriteReport, Kill,
       Lose, vars
  <2>2. answers' \subseteq answers
    BY <1>2 DEF Client, Started, StartFailed, Mark, Stop, Stopped, StoppedOnly,
       StopFailed, Fetched, FetchFailed, WriteRuntime, Bind, WriteReport, Kill,
       Lose, vars, wire, Unheard, Hear
  <2>3. run' = run
    BY <1>2 DEF Client, Started, StartFailed, Mark, Stop, Stopped, StoppedOnly,
       StopFailed, Fetched, FetchFailed, WriteRuntime, Bind, WriteReport, Kill,
       Lose, vars, client
  <2>4. \A q \in Run : <<q, "start">> \in asked' => <<q, "start">> \in asked
    <3>1. asked' \subseteq asked \cup {<<run, "stop">>, <<run, "fetch">>}
      BY <1>2 DEF Client, Started, StartFailed, Mark, Stop, Stopped, StoppedOnly,
         StopFailed, Fetched, FetchFailed, WriteRuntime, Bind, WriteReport, Kill,
         Lose, vars, wire, Ask
    <3>2. \A q \in Run : <<q, "start">> \notin {<<run, "stop">>, <<run, "fetch">>}
      OBVIOUS
    <3> QED
      BY <3>1, <3>2
  <2>5. SlotOf(active, records)'
    BY <2>1 DEF SlotOf, agent
  <2>6. StartedOnce' /\ TrueAnswers'
    BY <2>1, <2>2, <2>3, <2>4 DEF StartedOnce, TrueAnswers, agent
  <2> QED
    BY <2>5, <2>6
<1>3. CASE Start
  <2>1. run' = run + 1 /\ run' \in Run /\ UNCHANGED <<answers, agent>>
    BY <1>3 DEF Start, ClientTypes
  <2>2. \A q \in Run : <<q, "start">> \in asked' => q = run' \/ <<q, "start">> \in asked
    BY <1>3 DEF Start
  <2>3. SlotOf(active, records)' /\ TrueAnswers'
    BY <2>1 DEF SlotOf, TrueAnswers, agent
  <2>4. StartedOnce'
    BY <2>1, <2>2 DEF StartedOnce, ClientTypes, agent
  <2> QED
    BY <2>3, <2>4
<1>4. CASE HandleStatus
  <2>1. UNCHANGED <<run, wire, proc, orphans, len>> /\ active' = ActiveNow /\ records' = RecordsNow
    BY <1>4 DEF HandleStatus, client
  <2> QED
    BY <2>1, RefreshKeepsSlot DEF SlotOf, StartedOnce, TrueAnswers, wire
<1>5. CASE Restart
  <2>1. /\ UNCHANGED <<run, proc, len, answers>> /\ asked' = {} /\ active' = None
        /\ orphans' = orphans \cup {r \in Run : proc[r] = "running"}
        /\ \A r \in Run : records'[r].state = "none"
    BY <1>5 DEF Restart, NoRecord, client
  <2>2. SlotOf(active, records)'
    BY <2>1 DEF SlotOf
  <2>3. StartedOnce' /\ TrueAnswers'
    BY <2>1 DEF StartedOnce, TrueAnswers
  <2> QED
    BY <2>2, <2>3
<1>6. CASE Shutdown
  <2>1. /\ UNCHANGED <<run, orphans, len, answers>> /\ asked' = {} /\ active' = None
        /\ active \in Run /\ proc[active] # "none" /\ proc'[active] = "exited"
        /\ \A r \in Run \ {active} : proc'[r] = proc[r]
        /\ \A r \in Run : records'[r].state = "none"
    BY <1>6 DEF Shutdown, NoRecord, client, AgentTypes, SlotOf
  <2>2. SlotOf(active, records)'
    BY <2>1 DEF SlotOf
  <2>3. StartedOnce'
    BY <2>1 DEF StartedOnce, AgentTypes
  <2>4. TrueAnswers'
    BY <2>1 DEF TrueAnswers, WireTypes
  <2> QED
    BY <2>2, <2>3, <2>4
<1> QED
  BY <1>1, <1>2, <1>3, <1>4, <1>5, <1>6 DEF Next

LEMMA AgentInvHolds == Spec => []AgentInv
<1>1. Init => AgentInv
  BY DEF Init, AgentInv, SlotOf, StartedOnce, TrueAnswers, NoRecord
<1> QED
  BY <1>1, StepKeepsAgentInv, TypesHold, PTL DEF Spec

\* A finalized record stays as it was told to the client, and the file behind
\* it does not grow, until the agent is started anew (CaptureManager.stop() of
\* a stopped record, start() of a run, _refresh_locked()).
THEOREM RecordsAreFinal == Spec => RecordFinal
<1>1. ASSUME Types, Numbered, AgentInv, Next, NEW r \in Run, records[r].state = "stopped"
      PROVE  /\ records'[r] = records[r] \/ crashes' # crashes
             /\ len'[r] = records[r].len
  <2> USE DEF Types, AgentInv
  <2>1. proc[r] = "exited" /\ len[r] = records[r].len /\ RecordsNow[r] = records[r]
    BY <1>1, RefreshKeepsSlot DEF SlotOf
  <2>2. ASSUME NEW q \in Run, Agent(q)
        PROVE  records'[r] = records[r] /\ len'[r] = len[r]
    <3>1. q # r \/ ~HandleStart(q)
      BY <1>1, <2>1 DEF HandleStart, StartedOnce
    <3> USE <2>1, <2>2, <3>1, RefreshTypes, <1>1 DEF AgentTypes
    <3>2. len'[r] = len[r]
      BY DEF Agent, HandleStart, RefuseStart, HandleStop, HandleFetch, Unknown, Write, Expire
    <3>3. CASE HandleStart(q)
      BY <3>2, <3>3 DEF HandleStart
    <3>4. CASE HandleStop(q)
      BY <3>2, <3>4 DEF HandleStop
    <3> QED
      BY <3>2, <3>3, <3>4 DEF Agent, RefuseStart, HandleFetch, Unknown, Write, Expire
  <2>3. CASE Start \/ Client \/ Kill \/ Lose
    BY <2>1, <2>3 DEF Start, Client, Started, StartFailed, Mark, Stop, Stopped, StoppedOnly,
       StopFailed, Fetched, FetchFailed, WriteRuntime, Bind, WriteReport, Kill,
       Lose, agent
  <2>4. CASE HandleStatus
    BY <2>1, <2>4 DEF HandleStatus
  <2>5. CASE Restart \/ Shutdown
    BY <1>1, <2>1, <2>5 DEF Restart, Shutdown, AgentTypes
  <2> QED
    BY <1>1, <2>1, <2>2, <2>3, <2>4, <2>5 DEF Next
<1>2. Types /\ Numbered /\ AgentInv /\ [Next]_vars =>
        [\A r \in Run : records[r].state = "stopped" =>
            /\ records'[r] = records[r] \/ crashes' # crashes
            /\ len'[r] = records[r].len]_vars
  BY <1>1
<1> QED
  BY <1>2, TypesHold, AgentInvHolds, PTL DEF Spec, RecordFinal

\* The agent answers busy only while some dumpcap writes: a capture that has
\* ended by itself, whose end nobody has asked about, does not block the next.
THEOREM BusyMeansCapturing == Spec => BusyIsTrue
<1>1. Types /\ AgentInv /\ [Next]_vars =>
        [\A r \in Run : RefuseStart(r) => \E s \in Run : proc[s] = "running"]_vars
  <2> SUFFICES ASSUME Types, AgentInv, NEW r \in Run, RefuseStart(r)
               PROVE  \E s \in Run : proc[s] = "running"
    OBVIOUS
  <2>1. ActiveNow # None /\ active \in Run \cup {None}
    BY DEF RefuseStart, Types, AgentTypes
  <2> QED
    BY <2>1, RefreshKeepsSlot DEF AgentInv
<1> QED
  BY <1>1, TypesHold, AgentInvHolds, PTL DEF Spec, BusyIsTrue

-----------------------------------------------------------------------------
\* What the client knows of its attempt, by its place in it.
ClientInv ==
  /\ \A r \in Run : r > run => runtime[r] = NewRuntime
  /\ pc = "starting" => runtime[run] = NewRuntime
  /\ pc \in {"marking", "running"} =>
       runtime[run].status = IF runtime[run].started THEN "capturing" ELSE "start_failed"
  /\ pc = "stopping" => runtime[run].status = "capturing"
  /\ pc \in {"marking", "running", "stopping", "fetching"} => ~runtime[run].fetched
  /\ pc = "fetching" => /\ runtime[run].status \in {"complete", "empty"}
                        /\ proc[run] = "exited" /\ runtime[run].sha = len[run]

\* A dumpcap that has ended does not write again.
LEMMA EndedStays ==
  ASSUME Types, AgentInv, [Next]_vars, NEW q \in Run, proc[q] = "exited"
  PROVE  proc'[q] = "exited" /\ len'[q] = len[q]
<1> USE DEF Types, AgentTypes
<1>1. ASSUME NEW r \in Run, Agent(r) PROVE proc'[q] = "exited" /\ len'[q] = len[q]
  <2>1. HandleStart(r) => q # r
    BY DEF HandleStart, AgentInv, StartedOnce
  <2> QED
    BY <1>1, <2>1
       DEF Agent, HandleStart, RefuseStart, HandleStop, HandleFetch, Unknown, Write, Expire
<1>2. CASE Start \/ Client \/ Kill \/ Lose \/ UNCHANGED vars
  <2>1. UNCHANGED agent
    BY <1>2 DEF Start, Client, Started, StartFailed, Mark, Stop, Stopped, StoppedOnly,
       StopFailed, Fetched, FetchFailed, WriteRuntime, Bind, WriteReport, Kill,
       Lose, vars
  <2> QED
    BY <2>1 DEF agent
<1>3. CASE HandleStatus \/ Restart \/ Shutdown
  BY <1>3 DEF HandleStatus, Restart, Shutdown
<1> QED
  BY <1>1, <1>2, <1>3 DEF Next

\* What a heard answer says, when it is one to a stop or a fetch.
LEMMA HeardIsTrue ==
  ASSUME Types, Numbered, pc # "idle", AgentInv, NEW kind \in {"stop", "fetch"}, NEW n,
         Hear(kind, TRUE, n)
  PROVE  proc[run] = "exited" /\ n = len[run]
BY DEF Hear, AgentInv, TrueAnswers

\* The client's knowledge changes with its own steps only.
LEMMA StepKeepsClientInv ==
  ASSUME Types, Numbered, AgentInv, ClientInv, [Next]_vars
  PROVE  ClientInv'
<1> USE DEF Types
<1>1. ASSUME UNCHANGED client PROVE ClientInv'
  <2>1. pc = "fetching" => run \in Run
    BY DEF Numbered
  <2> QED
    BY <1>1, <2>1, EndedStays DEF client, ClientInv
<1>2. CASE Start
  <2>1. /\ run' = run + 1 /\ run' \in Run /\ pc' = "starting" /\ UNCHANGED runtime
    BY <1>2 DEF Start, ClientTypes
  <2> QED
    BY <2>1 DEF ClientInv, ClientTypes
<1>3. CASE Client
  <2>1. pc # "idle" /\ run' = run /\ run \in Run
    BY <1>3 DEF Client, Started, StartFailed, Mark, Stop, Stopped, StoppedOnly,
       StopFailed, Fetched, FetchFailed, WriteRuntime, Bind, WriteReport, client, Numbered
  <2>2. UNCHANGED runtime \/ \E values : SetRuntime(values)
    BY <1>3 DEF Client, Started, StartFailed, Mark, Stop, Stopped, StoppedOnly,
       StopFailed, Fetched, FetchFailed, WriteRuntime, Bind, WriteReport, client
  <2>3. \A r \in Run : r > run' => runtime'[r] = NewRuntime
    BY <2>1, <2>2 DEF ClientInv, SetRuntime, ClientTypes
  <2> USE <2>1 DEF ClientInv, ClientTypes
  <2>4. CASE Started
    BY <2>3, <2>4 DEF Started, SetRuntime, NewRuntime
  <2>5. CASE StartFailed
    BY <2>3, <2>5 DEF StartFailed, SetRuntime, NewRuntime
  <2>6. CASE Mark
    BY <2>3, <2>6 DEF Mark
  <2>7. CASE Stop
    BY <2>3, <2>7 DEF Stop
  <2>8. CASE Stopped
    <3>1. PICK n \in 0..MaxLen :
            /\ Hear("stop", TRUE, n)
            /\ SetRuntime([runtime[run] EXCEPT !.status = IF n = 0 THEN "empty" ELSE "complete",
                                               !.sha = n])
      BY <2>8 DEF Stopped
    <3>2. proc[run] = "exited" /\ n = len[run]
      BY <3>1, HeardIsTrue
    <3>3. /\ runtime'[run].status \in {"complete", "empty"} /\ runtime'[run].sha = n
          /\ runtime'[run].fetched = runtime[run].fetched /\ ~runtime[run].fetched
      BY <2>8, <3>1 DEF SetRuntime, Stopped
    <3>4. UNCHANGED <<proc, len>> /\ pc' = "fetching"
      BY <2>8 DEF Stopped, agent
    <3> QED
      BY <2>3, <3>2, <3>3, <3>4
  <2>9. CASE StoppedOnly \/ StopFailed \/ Fetched \/ FetchFailed
    BY <2>3, <2>9 DEF StoppedOnly, StopFailed, Fetched, FetchFailed
  <2>10. CASE WriteRuntime \/ Bind \/ WriteReport
    BY <2>3, <2>10 DEF WriteRuntime, Bind, WriteReport
  <2> QED
    BY <1>3, <2>4, <2>5, <2>6, <2>7, <2>8, <2>9, <2>10 DEF Client
<1>4. CASE Kill
  BY <1>4 DEF Kill, ClientInv
<1>5. CASE Lose \/ HandleStatus \/ Restart \/ Shutdown \/ UNCHANGED vars
  BY <1>1, <1>5 DEF Lose, HandleStatus, Restart, Shutdown, vars
<1>6. ASSUME NEW r \in Run, Agent(r) PROVE ClientInv'
  BY <1>1, <1>6, AgentKeepsTypes
<1> QED
  BY <1>2, <1>3, <1>4, <1>5, <1>6 DEF Next

LEMMA ClientInvHolds == Spec => []ClientInv
<1>1. Init => ClientInv
  BY DEF Init, ClientInv
<1> QED
  BY <1>1, StepKeepsClientInv, TypesHold, AgentInvHolds, PTL DEF Spec

-----------------------------------------------------------------------------
(* PcapTask implements Capture, step by step: what the agent does to a       *)
(* dumpcap is a step of its capture's phase, and what the client concludes   *)
(* is a step of the verdict.  The fairness of Capture stays with TLC.        *)

\* The client calls the capture of r complete and has its file.
Done(r) == runtime[r].status = "complete" /\ runtime[r].fetched

\* The phases and verdicts of Capture, one by one, before and after a step.
PhasesAndVerdicts ==
  /\ \A r \in Run : Phase[r] = IF proc[r] = "none" THEN "none"
                               ELSE IF proc[r] = "exited" THEN "ended"
                               ELSE IF r \in orphans THEN "orphan" ELSE "capturing"
  /\ \A r \in Run : Verdict[r] = IF Done(r) THEN "complete"
       ELSE IF runtime[r].status \in {"start_failed", "stop_failed", "fetch_failed"}
            THEN "failed" ELSE "open"

LEMMA PhaseAndVerdict ==
  /\ AgentTypes => PhasesAndVerdicts
  /\ AgentTypes' => PhasesAndVerdicts'
BY DEF PhasesAndVerdicts, Phase, Verdict, Done, AgentTypes

\* Phases change with the agent's variables, verdicts with the runtime.
LEMMA PhaseMoves ==
  ASSUME NEW r \in Run, \A q \in Run \ {r} : Phase'[q] = Phase[q]
  PROVE  Phase' = [Phase EXCEPT ![r] = Phase'[r]]
BY DEF Phase

LEMMA VerdictMoves ==
  ASSUME NEW r \in Run, NEW v, Verdict'[r] = v, \A q \in Run \ {r} : Verdict'[q] = Verdict[q]
  PROVE  Verdict' = [Verdict EXCEPT ![r] = v]
BY DEF Verdict

LEMMA PhaseStays ==
  /\ UNCHANGED <<proc, orphans>> => Phase' = Phase
  /\ UNCHANGED runtime => Verdict' = Verdict
BY DEF Phase, Verdict

\* No capture is being recorded once the agent's refresh has emptied its slot.
LEMMA NoneCapturing ==
  ASSUME Types, Types', AgentInv, ActiveNow = None, NEW r \in Run
  PROVE  Phase[r] # "capturing"
<1>1. proc[r] = "running" => r \in orphans
  BY RefreshKeepsSlot DEF AgentInv, SlotOf
<1> QED
  BY <1>1, PhaseAndVerdict DEF PhasesAndVerdicts, Types, AgentTypes

AbstractStep == [Abstract!Next]_(Abstract!vars)

\* An ending of the dumpcap of r.
LEMMA EndingIsEnd ==
  ASSUME Types, Types', NEW r \in Run, proc[r] # "none", proc' = [proc EXCEPT ![r] = "exited"],
         UNCHANGED <<orphans, runtime>>
  PROVE  AbstractStep
<1>1. AgentTypes /\ AgentTypes'
  BY DEF Types
<1>2. proc'[r] = "exited" /\ \A q \in Run \ {r} : proc'[q] = proc[q]
  BY <1>1 DEF AgentTypes
<1>3. PhasesAndVerdicts /\ PhasesAndVerdicts'
  BY <1>1, PhaseAndVerdict
<1>4. Phase'[r] = "ended" /\ \A q \in Run \ {r} : Phase'[q] = Phase[q]
  BY <1>2, <1>3 DEF PhasesAndVerdicts
<1>5. Verdict' = Verdict
  BY PhaseStays
<1>6. CASE proc[r] = "running"
  <2>1. Phase[r] \in {"capturing", "orphan"}
    BY <1>3, <1>6 DEF PhasesAndVerdicts
  <2>2. Phase' = [Phase EXCEPT ![r] = "ended"]
    BY <1>4, PhaseMoves
  <2> QED
    BY <1>5, <2>1, <2>2 DEF AbstractStep, Abstract!Next, Abstract!End
<1>7. CASE proc[r] = "exited"
  <2>1. proc' = proc
    BY <1>1, <1>7 DEF AgentTypes
  <2> QED
    BY <1>5, <2>1, PhaseStays DEF AbstractStep, Abstract!vars
<1> QED
  BY <1>1, <1>6, <1>7 DEF AgentTypes

LEMMA AgentStepIsCapture ==
  ASSUME Types, Types', AgentInv, NEW r \in Run, Agent(r)
  PROVE  AbstractStep
<1> USE PhaseAndVerdict, PhaseStays DEF PhasesAndVerdicts, Types, client
<1>1. CASE HandleStart(r)
  <2>1. /\ proc[r] = "none" /\ r \notin orphans /\ ActiveNow = None
        /\ UNCHANGED <<orphans, runtime>>
    BY <1>1 DEF HandleStart, AgentInv, StartedOnce
  <2>2. Phase[r] = "none" /\ \A q \in Run : Phase[q] # "capturing"
    BY <2>1, NoneCapturing
  <2>3. CASE proc' = [proc EXCEPT ![r] = "running"]
    <3>1. Phase'[r] = "capturing" /\ \A q \in Run \ {r} : Phase'[q] = Phase[q]
      <4>1. proc'[r] = "running" /\ \A q \in Run \ {r} : proc'[q] = proc[q]
        BY <2>3 DEF AgentTypes
      <4> QED
        BY <2>1, <4>1
    <3>2. Phase' = [Phase EXCEPT ![r] = "capturing"]
      BY <3>1, PhaseMoves
    <3> QED
      BY <2>1, <2>2, <3>2 DEF AbstractStep, Abstract!Next, Abstract!Start
  <2>4. CASE proc' = [proc EXCEPT ![r] = "exited"]
    <3>1. Phase'[r] = "ended" /\ \A q \in Run \ {r} : Phase'[q] = Phase[q]
      <4>1. proc'[r] = "exited" /\ \A q \in Run \ {r} : proc'[q] = proc[q]
        BY <2>4 DEF AgentTypes
      <4> QED
        BY <2>1, <4>1
    <3>2. Phase' = [Phase EXCEPT ![r] = "ended"]
      BY <3>1, PhaseMoves
    <3> QED
      BY <2>1, <2>2, <3>2 DEF AbstractStep, Abstract!Next, Abstract!Refuse
  <2> QED
    BY <1>1, <2>3, <2>4 DEF HandleStart
<1>2. CASE HandleStop(r)
  <2>1. proc[r] # "none" /\ UNCHANGED <<orphans, runtime>>
    BY <1>2, RefreshKeepsSlot DEF HandleStop, AgentInv, SlotOf
  <2> QED
    BY <1>2, <2>1, EndingIsEnd DEF HandleStop, AbstractStep, Abstract!vars
<1>3. CASE Expire(r)
  BY <1>3, EndingIsEnd DEF Expire
<1>4. CASE \/ RefuseStart(r) \/ HandleFetch(r) \/ Write(r)
           \/ \E kind \in {"stop", "fetch"} : Unknown(r, kind)
  BY <1>4 DEF RefuseStart, HandleFetch, Write, Unknown, AbstractStep, Abstract!vars
<1> QED
  BY <1>1, <1>2, <1>3, <1>4 DEF Agent

\* The agent's restart and its interruption.
LEMMA CrashIsCapture ==
  ASSUME Types, Types', AgentInv, Restart \/ Shutdown
  PROVE  AbstractStep
<1> USE PhaseAndVerdict, PhaseStays DEF PhasesAndVerdicts, Types, AgentTypes, client
<1>1. CASE Shutdown
  <2>1. active \in Run /\ proc[active] # "none"
    BY <1>1 DEF Shutdown, AgentInv, SlotOf
  <2> QED
    BY <1>1, <2>1, EndingIsEnd DEF Shutdown
<1>2. CASE Restart
  <2>1. /\ orphans' = orphans \cup {q \in Run : proc[q] = "running"}
        /\ UNCHANGED <<proc, runtime>>
    BY <1>2 DEF Restart
  <2>2. \A q \in Run : q # active => Phase'[q] = Phase[q]
    <3>1. \A q \in Run : q # active /\ proc[q] = "running" => q \in orphans
      BY DEF AgentInv, SlotOf
    <3>2. \A q \in Run : q # active => (q \in orphans' <=> q \in orphans)
      BY <2>1, <3>1
    <3> SUFFICES ASSUME NEW q \in Run, q # active PROVE Phase'[q] = Phase[q]
      OBVIOUS
    <3>3. CASE q \in orphans
      BY <2>1, <3>2, <3>3
    <3>4. CASE q \notin orphans
      <4>1. q \notin orphans' /\ proc'[q] = proc[q] /\ proc[q] # "running"
        BY <2>1, <3>1, <3>2, <3>4
      <4> QED
        BY <3>4, <4>1
    <3> QED
      BY <3>3, <3>4
  <2>3. CASE active \in Run /\ proc[active] = "running" /\ active \notin orphans
    <3>1. Phase[active] = "capturing" /\ Phase'[active] = "orphan"
      BY <2>1, <2>3
    <3>2. Phase' = [Phase EXCEPT ![active] = "orphan"]
      BY <2>2, <2>3, <3>1, PhaseMoves
    <3> QED
      BY <2>1, <2>3, <3>1, <3>2 DEF AbstractStep, Abstract!Next, Abstract!Orphan
  <2>4. CASE ~(active \in Run /\ proc[active] = "running" /\ active \notin orphans)
    <3>1. orphans' = orphans
      <4>1. \A q \in Run : proc[q] = "running" => q \in orphans \/ active = q
        BY DEF AgentInv, SlotOf
      <4>2. \A q \in Run : proc[q] = "running" => q \in orphans
        BY <2>4, <4>1
      <4> QED
        BY <2>1, <4>2
    <3> QED
      BY <2>1, <3>1 DEF AbstractStep, Abstract!vars
  <2> QED
    BY <2>3, <2>4
<1> QED
  BY <1>1, <1>2

\* The client's conclusions.
LEMMA ConclusionIsVerdict ==
  ASSUME Types, Types', Numbered, pc # "idle", Verdict[run] = "open", NEW values, SetRuntime(values),
         UNCHANGED <<proc, orphans>>,
         \/ values.status \in {"start_failed", "stop_failed", "fetch_failed"}
         \/ values.status = "complete" /\ values.fetched /\ proc[run] = "exited"
         \/ values.status = "complete" /\ ~values.fetched
         \/ values.status \in {"capturing", "empty", "stopped_not_fetched"}
  PROVE  AbstractStep
<1>1. runtime'[run] = values /\ \A q \in Run \ {run} : runtime'[q] = runtime[q]
  BY DEF Types, Numbered, SetRuntime, ClientTypes
<1>2. \A q \in Run \ {run} : Verdict'[q] = Verdict[q]
  <2>1. PhasesAndVerdicts /\ PhasesAndVerdicts'
    BY PhaseAndVerdict DEF Types
  <2> QED
    BY <1>1, <2>1 DEF PhasesAndVerdicts, Done
<1> USE PhaseAndVerdict, PhaseStays DEF PhasesAndVerdicts, Done, Types, Numbered, SetRuntime, ClientTypes
<1>3. CASE values.status \in {"start_failed", "stop_failed", "fetch_failed"}
  <2>1. Verdict' = [Verdict EXCEPT ![run] = "failed"]
    BY <1>1, <1>2, <1>3, VerdictMoves
  <2> QED
    BY <2>1 DEF AbstractStep, Abstract!Next, Abstract!Fail
<1>4. CASE values.status = "complete" /\ values.fetched /\ proc[run] = "exited"
  <2>1. Verdict' = [Verdict EXCEPT ![run] = "complete"] /\ Phase[run] = "ended"
    BY <1>1, <1>2, <1>4, VerdictMoves
  <2> QED
    BY <2>1 DEF AbstractStep, Abstract!Next, Abstract!Complete
<1>5. CASE \/ values.status = "complete" /\ ~values.fetched
           \/ values.status \in {"capturing", "empty", "stopped_not_fetched"}
  <2>1. Verdict'[run] = Verdict[run]
    BY <1>1, <1>5
  <2>2. Verdict' = Verdict
    BY <1>2, <2>1 DEF Verdict
  <2> QED
    BY <2>2 DEF AbstractStep, Abstract!vars
<1> QED
  BY <1>3, <1>4, <1>5

LEMMA ClientStepIsCapture ==
  ASSUME Types, Types', Numbered, AgentInv, ClientInv, Client
  PROVE  AbstractStep
<1> USE DEF Types, Numbered, agent
<1>1. CASE Mark \/ Stop \/ WriteRuntime \/ Bind \/ WriteReport
  BY <1>1, PhaseStays DEF Mark, Stop, WriteRuntime, Bind, WriteReport, AbstractStep, Abstract!vars
<1>2. CASE Started \/ StartFailed
  <2>1. Verdict[run] = "open"
    <3>1. run \in Run /\ runtime[run].status = "configured"
      <4>1. pc = "starting"
        BY <1>2 DEF Started, StartFailed
      <4> QED
        BY <4>1 DEF ClientInv, NewRuntime
    <3> QED
      BY <3>1, PhaseAndVerdict DEF PhasesAndVerdicts, Done
  <2> QED
    BY <1>2, <2>1, ConclusionIsVerdict DEF Started, StartFailed, ClientTypes
<1>3. CASE Stopped \/ StoppedOnly \/ StopFailed
  <2>1. Verdict[run] = "open"
    BY <1>3, PhaseAndVerdict DEF PhasesAndVerdicts, Done, Stopped, StoppedOnly, StopFailed, ClientInv
  <2>2. CASE Stopped
    <3>1. PICK n \in 0..MaxLen :
            SetRuntime([runtime[run] EXCEPT !.status = IF n = 0 THEN "empty" ELSE "complete", !.sha = n])
      BY <2>2 DEF Stopped
    <3>2. pc = "stopping" /\ UNCHANGED <<proc, orphans>> /\ ~runtime[run].fetched
      BY <2>2 DEF Stopped, ClientInv
    <3> DEFINE values == [runtime[run] EXCEPT !.status = IF n = 0 THEN "empty" ELSE "complete", !.sha = n]
    <3>3. values.status \in {"empty", "complete"} /\ ~values.fetched
      BY <3>2 DEF ClientTypes
    <3> QED
      BY <2>1, <3>1, <3>2, <3>3, ConclusionIsVerdict
  <2> QED
    BY <1>3, <2>1, <2>2, ConclusionIsVerdict DEF StoppedOnly, StopFailed, ClientTypes
<1>4. CASE Fetched \/ FetchFailed
  <2>1. Verdict[run] = "open" /\ proc[run] = "exited"
    BY <1>4, PhaseAndVerdict DEF PhasesAndVerdicts, Done, Fetched, FetchFailed, ClientInv
  <2> QED
    BY <1>4, <2>1, ConclusionIsVerdict DEF Fetched, FetchFailed, ClientTypes
<1> QED
  BY <1>1, <1>2, <1>3, <1>4 DEF Client

\* Whatever client, agent, network and dumpcap do, the captures go through what
\* Capture allows: recorded one at a time, none called complete and fetched before it
\* has ended, and what has been so called, or has failed, stays so.  This is IsCapture
\* but for its fairness.
THEOREM StepsAreCapture == Spec => Abstract!Init /\ [][Abstract!Next]_(Abstract!vars)
<1>1. Init => Abstract!Init
  BY DEF Init, Abstract!Init, Phase, Verdict, NewRuntime
<1>2. Types /\ Types' /\ Numbered /\ AgentInv /\ ClientInv /\ [Next]_vars => AbstractStep
  <2> SUFFICES ASSUME Types, Types', Numbered, AgentInv, ClientInv, [Next]_vars PROVE AbstractStep
    OBVIOUS
  <2>1. ASSUME NEW r \in Run, Agent(r) PROVE AbstractStep
    BY <2>1, AgentStepIsCapture
  <2>2. CASE Client
    BY <2>2, ClientStepIsCapture
  <2>3. CASE Restart \/ Shutdown
    BY <2>3, CrashIsCapture
  <2>4. CASE Start \/ Kill \/ Lose \/ HandleStatus \/ UNCHANGED vars
    <3>1. UNCHANGED <<proc, orphans, runtime>>
      BY <2>4 DEF Start, Kill, Lose, HandleStatus, vars, client, agent
    <3> QED
      BY <3>1, PhaseStays DEF AbstractStep, Abstract!vars
  <2> QED
    BY <2>1, <2>2, <2>3, <2>4 DEF Next
<1> QED
  BY <1>1, <1>2, TypesHold, AgentInvHolds, ClientInvHolds, PTL DEF Spec, AbstractStep

\* What the captures are in any implementation of Capture.
Functions == Phase = [r \in Run |-> Phase[r]] /\ Verdict = [r \in Run |-> Verdict[r]]
OneCapture == \A r, s \in Run : Phase[r] = "capturing" /\ Phase[s] = "capturing" => r = s
CompleteHasEnded == \A r \in Run : Verdict[r] = "complete" => Phase[r] = "ended"

LEMMA CaptureStepKeeps ==
  ASSUME Functions, OneCapture, CompleteHasEnded, AbstractStep
  PROVE  OneCapture' /\ CompleteHasEnded'
<1>1. CASE UNCHANGED <<Phase, Verdict>>
  BY <1>1, Zenon DEF OneCapture, CompleteHasEnded
<1>2. CASE \E r \in Run : \E e : Phase' = Phase /\ Verdict' = [Verdict EXCEPT ![r] = e]
                               /\ (e = "complete" => Phase[r] = "ended")
  <2> HIDE DEF Phase, Verdict
  <2> QED
    BY <1>2 DEF Functions, OneCapture, CompleteHasEnded
<1>3. CASE \E r \in Run : \E e :
             /\ Verdict' = Verdict /\ Phase' = [Phase EXCEPT ![r] = e]
             /\ Phase[r] # "ended"
             /\ e = "capturing" => \A s \in Run : Phase[s] # "capturing"
  BY <1>3 DEF Functions, OneCapture, CompleteHasEnded
<1> QED
  BY <1>1, <1>2, <1>3 DEF AbstractStep, Abstract!Next, Abstract!vars, Abstract!Start,
     Abstract!Refuse, Abstract!Orphan, Abstract!End, Abstract!Complete, Abstract!Fail

\* Through StepsAreCapture: start(), refresh() and stop() of the agent never have two
\* dumpcaps of its own recording at once, and the client calls a capture complete and
\* fetched only when its dumpcap has exited, whatever answers are lost and whoever dies.
THEOREM CapturesAreExclusive == Spec => [](OneCapture /\ CompleteHasEnded)
<1>1. Abstract!Init => OneCapture /\ CompleteHasEnded
  BY Zenon DEF Abstract!Init, OneCapture, CompleteHasEnded
<1>2. Functions
  BY DEF Functions, Phase, Verdict
<1>3. OneCapture /\ CompleteHasEnded /\ AbstractStep => (OneCapture /\ CompleteHasEnded)'
  BY <1>2, CaptureStepKeeps
<1> QED
  BY <1>1, <1>3, StepsAreCapture, PTL DEF AbstractStep

-----------------------------------------------------------------------------
(* What the analysis directory holds, whatever fails; and when one write may *)
(* fail or one attempt may be killed: the bound run is behind the downloaded *)
(* one only where an attempt has lost the first of its writes of             *)
(* pcap_runtime.json and has not come to the second.                         *)

\* A completed attempt's file is the one in place, or a later one is.
CompleteIsWhole ==
  /\ \A r \in Run : Done(r) => r <= dump.run
  /\ dump.run # None /\ Done(dump.run) => proc[dump.run] = "exited" /\ dump.len = len[dump.run]
  /\ bound.status = "complete" /\ bound.fetched => bound.run \in Run /\ Done(bound.run)

BoundFollowsDump ==
  /\ dump.run <= run
  /\ pc \in {"running", "stopping", "fetching"} => bound.run = run \/ faults = MaxFault
  /\ dump.run <= bound.run \/ (pc = "writing" /\ faults = MaxFault)

DiskInv == CompleteIsWhole /\ (MaxFault <= 1 => BoundFollowsDump)

\* A step that leaves the client's knowledge and the directory alone.
LEMMA OtherStepKeepsDiskInv ==
  ASSUME Types, AgentInv, DiskInv, [Next]_vars, UNCHANGED <<client, disk, faults>>
  PROVE  DiskInv'
<1>1. UNCHANGED <<run, pc, runtime, dump, bound, faults>>
  BY DEF client, disk
<1>2. dump.run \in Run \cup {None}
  BY DEF Types, DiskTypes
<1> QED
  BY <1>1, <1>2, EndedStays DEF DiskInv, CompleteIsWhole, Done, BoundFollowsDump

\* A write of pcap_runtime.json by an attempt that is past its download.
LEMMA SnapshotKeepsDiskInv ==
  ASSUME Types, Numbered, AgentInv, ClientInv, DiskInv, [Next]_vars,
         Mark \/ WriteRuntime \/ Bind
  PROVE  DiskInv'
<1> USE DEF Types, Numbered, ClientTypes, DiskTypes, FaultTypes
<1>1. /\ UNCHANGED <<run, runtime, dump, proc, len>> /\ WriteFile(bound, Snapshot)
      /\ pc \in {"marking", "writing", "binding"} /\ run \in Run
      /\ pc' = IF pc = "marking" THEN "running"
               ELSE IF pc = "writing" THEN "binding" ELSE "reporting"
  BY DEF Mark, WriteRuntime, Bind, agent
<1>2. CompleteIsWhole'
  <2>1. bound' = Snapshot \/ bound' = bound
    BY <1>1 DEF WriteFile
  <2> QED
    BY <1>1, <2>1 DEF DiskInv, CompleteIsWhole, Done, Snapshot
<1>3. ASSUME MaxFault <= 1 PROVE BoundFollowsDump'
  <2>1. CASE bound' = Snapshot /\ UNCHANGED faults
    <3>1. bound'.run = run
      BY <2>1 DEF Snapshot
    <3> QED
      BY <1>1, <1>3, <3>1 DEF DiskInv, BoundFollowsDump
  <2>2. CASE bound' = bound /\ faults < MaxFault /\ faults' = faults + 1
    <3>1. faults' = MaxFault /\ faults # MaxFault
      BY <1>3, <2>2
    <3> QED
      BY <1>1, <1>3, <2>2, <3>1 DEF DiskInv, BoundFollowsDump
  <2> QED
    BY <1>1, <2>1, <2>2 DEF WriteFile
<1> QED
  BY <1>2, <1>3 DEF DiskInv

\* The download: what is called complete has the length the agent has told.
LEMMA DownloadKeepsDiskInv ==
  ASSUME Types, Numbered, AgentInv, ClientInv, DiskInv, Fetched
  PROVE  DiskInv'
<1> USE DEF Types, Numbered, ClientTypes, DiskTypes, FaultTypes
<1>1. PICK n \in 1..MaxLen, got \in 1..MaxLen :
        /\ got <= n /\ Hear("fetch", TRUE, n)
        /\ dump' = [run |-> run, len |-> got]
        /\ SetRuntime([runtime[run] EXCEPT !.fetched = TRUE,
                        !.status = IF runtime[run].sha \in {0, got} THEN "complete"
                                                                    ELSE "fetch_failed"])
  BY DEF Fetched
<1>2. /\ run \in Run /\ pc = "fetching" /\ pc' = "writing"
      /\ UNCHANGED <<run, bound, faults, proc, len>>
  BY DEF Fetched, agent
<1>3. proc[run] = "exited" /\ runtime[run].sha = len[run] /\ n = len[run]
      /\ ~Done(run)
  BY <1>1, <1>2, HeardIsTrue DEF ClientInv, Done
<1>4. /\ dump'.run = run /\ dump'.len = got
      /\ runtime'[run].status = "complete" => got = len[run]
      /\ \A q \in Run \ {run} : runtime'[q] = runtime[q]
  BY <1>1, <1>2, <1>3 DEF SetRuntime
<1>5. CompleteIsWhole'
  <2>1. \A q \in Run : runtime'[q].status = "complete" /\ runtime'[q].fetched => q <= run
    BY <1>2, <1>4 DEF ClientInv, NewRuntime
  <2>2. bound.status = "complete" /\ bound.fetched => bound.run # run
    BY <1>3 DEF DiskInv, CompleteIsWhole
  <2> QED
    BY <1>2, <1>3, <1>4, <2>1, <2>2 DEF DiskInv, CompleteIsWhole, Done
<1>6. MaxFault <= 1 => BoundFollowsDump'
  BY <1>2, <1>4 DEF DiskInv, BoundFollowsDump
<1> QED
  BY <1>5, <1>6 DEF DiskInv

\* The other conclusions of the client complete nothing.
LEMMA ConclusionKeepsDiskInv ==
  ASSUME Types, Numbered, AgentInv, ClientInv, DiskInv,
         Started \/ StartFailed \/ Stopped \/ StoppedOnly \/ StopFailed \/ FetchFailed
  PROVE  DiskInv'
<1> USE DEF Types, Numbered, ClientTypes, DiskTypes, FaultTypes
<1>1. /\ run \in Run /\ UNCHANGED <<run, dump, bound, faults, proc, len>>
      /\ pc \in {"starting", "stopping", "fetching"}
      /\ pc' \in {"marking", "fetching", "writing"}
      /\ pc' = "fetching" => pc = "stopping"
  BY DEF Started, StartFailed, Stopped, StoppedOnly, StopFailed, FetchFailed, disk, agent
<1>2. \E s \in Status :
        \/ SetRuntime([runtime[run] EXCEPT !.status = s])
        \/ \E b \in BOOLEAN : SetRuntime([runtime[run] EXCEPT !.status = s, !.started = b])
        \/ \E n \in 0..MaxLen : SetRuntime([runtime[run] EXCEPT !.status = s, !.sha = n])
  BY DEF Started, StartFailed, Stopped, StoppedOnly, StopFailed, FetchFailed
<1>3. /\ ~runtime'[run].fetched /\ ~runtime[run].fetched
      /\ \A q \in Run \ {run} : runtime'[q] = runtime[q]
  <2>1. ~runtime[run].fetched
    BY <1>1 DEF ClientInv, NewRuntime
  <2>2. runtime'[run].fetched = runtime[run].fetched
    <3>1. ASSUME NEW s \in Status, SetRuntime([runtime[run] EXCEPT !.status = s])
          PROVE  runtime'[run].fetched = runtime[run].fetched
      BY <1>1, <3>1 DEF SetRuntime
    <3>2. ASSUME NEW s \in Status, NEW b \in BOOLEAN,
                 SetRuntime([runtime[run] EXCEPT !.status = s, !.started = b])
          PROVE  runtime'[run].fetched = runtime[run].fetched
      BY <1>1, <3>2 DEF SetRuntime
    <3>3. ASSUME NEW s \in Status, NEW n \in 0..MaxLen,
                 SetRuntime([runtime[run] EXCEPT !.status = s, !.sha = n])
          PROVE  runtime'[run].fetched = runtime[run].fetched
      BY <1>1, <3>3 DEF SetRuntime
    <3> QED
      BY <1>2, <3>1, <3>2, <3>3
  <2>3. \A q \in Run \ {run} : runtime'[q] = runtime[q]
    <3>1. \E values : SetRuntime(values)
      BY <1>2
    <3> QED
      BY <1>1, <3>1 DEF SetRuntime
  <2> QED
    BY <2>1, <2>2, <2>3
<1>4. CompleteIsWhole'
  BY <1>1, <1>3 DEF DiskInv, CompleteIsWhole, Done
<1>5. MaxFault <= 1 => BoundFollowsDump'
  BY <1>1 DEF DiskInv, BoundFollowsDump
<1> QED
  BY <1>4, <1>5 DEF DiskInv

LEMMA StepKeepsDiskInv ==
  ASSUME Types, Numbered, AgentInv, ClientInv, DiskInv, [Next]_vars
  PROVE  DiskInv'
<1> USE DEF Types
<1>1. CASE Client
  <2>1. CASE Stop
    <3>1. UNCHANGED <<run, runtime, proc, len, dump, bound, faults>>
          /\ pc = "running" /\ pc' \in {"stopping", "reporting"}
      BY <2>1 DEF Stop, agent, disk
    <3> QED
      BY <3>1 DEF DiskInv, CompleteIsWhole, Done, BoundFollowsDump
  <2>2. CASE WriteReport
    <3>1. UNCHANGED <<run, runtime, proc, len, dump, bound>>
          /\ pc = "reporting" /\ pc' = "idle"
      BY <2>2 DEF WriteReport, agent
    <3> QED
      BY <3>1 DEF DiskInv, CompleteIsWhole, Done, BoundFollowsDump
  <2> QED
    BY <1>1, <2>1, <2>2, SnapshotKeepsDiskInv, DownloadKeepsDiskInv, ConclusionKeepsDiskInv
       DEF Client
<1>2. CASE Start
  <2>1. /\ UNCHANGED <<runtime, proc, len, dump, bound, faults>> /\ run' = run + 1
        /\ pc = "idle" /\ pc' = "starting" /\ run \in 0..MaxRun
        /\ dump.run \in 0..MaxRun
    BY <1>2 DEF Start, agent, disk, ClientTypes, DiskTypes
  <2> QED
    BY <2>1 DEF DiskInv, CompleteIsWhole, Done, BoundFollowsDump
<1>3. CASE Kill
  <2>1. /\ UNCHANGED <<run, runtime, proc, len, dump, bound>>
        /\ faults < MaxFault /\ pc' = "idle"
    BY <1>3 DEF Kill, agent, disk
  <2> QED
    BY <2>1 DEF DiskInv, CompleteIsWhole, Done, BoundFollowsDump, FaultTypes
<1>4. CASE Lose \/ HandleStatus \/ Restart \/ Shutdown \/ UNCHANGED vars
  BY <1>4, OtherStepKeepsDiskInv DEF Lose, HandleStatus, Restart, Shutdown, vars
<1>5. ASSUME NEW r \in Run, Agent(r) PROVE DiskInv'
  BY <1>5, AgentKeepsTypes, OtherStepKeepsDiskInv
<1> QED
  BY <1>1, <1>2, <1>3, <1>4, <1>5 DEF Next

LEMMA DiskInvHolds == Spec => []DiskInv
<1>1. Init => DiskInv
  BY DEF Init, DiskInv, CompleteIsWhole, Done, BoundFollowsDump, NewRuntime
<1> QED
  BY <1>1, StepKeepsDiskInv, TypesHold, AgentInvHolds, ClientInvHolds, PTL DEF Spec

\* A capture that pcap_runtime.json calls complete and fetched is in the directory, if
\* no later attempt has put its own there.
CompleteIsThere ==
  bound.status = "complete" /\ bound.fetched =>
    /\ dump.run # None /\ bound.run <= dump.run
    /\ bound.run = dump.run => proc[dump.run] = "exited" /\ dump.len = len[dump.run]

\* At every moment, and whatever writes fail or attempts are killed, the capture that
\* pcap_runtime.json calls complete and fetched is whole, unless a later one has
\* replaced it: it says both only after stop_and_fetch() has compared the hashes.
THEOREM CompleteCapturesAreThere == Spec => []CompleteIsThere
<1>1. Types /\ DiskInv => CompleteIsThere
  BY DEF Types, DiskTypes, DiskInv, CompleteIsWhole, Done, CompleteIsThere
<1> QED
  BY <1>1, TypesHold, DiskInvHolds, PTL

\* With one failed write or one killed attempt, for any number of attempts and
\* any behaviour of the agent and the network: whenever discover_task_capture()
\* would take the file of the directory, the file is the whole capture of the
\* run that pcap_runtime.json and the report speak of.
THEOREM ReportsAreWhole == MaxFault <= 1 => (Spec => []ReportIsWhole)
<1> SUFFICES ASSUME MaxFault <= 1 PROVE Spec => []ReportIsWhole
  OBVIOUS
<1>1. Types /\ DiskInv => ReportIsWhole
  <2> SUFFICES ASSUME Types, DiskInv, pc = "idle", Usable
               PROVE  /\ bound.run = dump.run
                      /\ report \in {None, dump.run}
                      /\ proc[dump.run] = "exited" /\ dump.len = len[dump.run]
    BY DEF ReportIsWhole
  <2>1. dump.run \in Run /\ bound.run \in 0..MaxRun /\ dump.run <= bound.run
    BY DEF Types, DiskTypes, Usable, DiskInv, BoundFollowsDump
  <2>2. bound.run # None
    BY <2>1
  <2>3. bound.run <= dump.run /\ Done(bound.run)
    BY <2>1, <2>2 DEF Usable, DiskInv, CompleteIsWhole
  <2>4. bound.run = dump.run
    BY <2>1, <2>3
  <2> QED
    BY <2>1, <2>2, <2>3, <2>4 DEF Usable, DiskInv, CompleteIsWhole
<1> QED
  BY <1>1, TypesHold, DiskInvHolds, PTL

=============================================================================
