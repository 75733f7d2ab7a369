------------------------------ MODULE PcapTask ------------------------------
(***************************************************************************)
(* The packet capture of an analysis.  PcapTaskClient                      *)
(* (CAPEsolo/lib/common/pcap_task_client.py), driven by FridaMuncher, asks *)
(* an agent on another machine (extras/ubuntu_pcap_agent) to run dumpcap,  *)
(* to stop it and to send the file.  A request or its answer may be lost,  *)
(* and a request the client has given up may still be served.  The agent   *)
(* may die, which its dumpcap survives.                                    *)
(*                                                                         *)
(* Attempts follow each other in the same analysis directory: `Run` is     *)
(* 1..MaxRun in the order they are made, each with a run_id of its own.    *)
(* A file is its length, and a hash that of the file it was taken of; 0    *)
(* stands for every length below 24 bytes.                                 *)
(***************************************************************************)
EXTENDS Naturals, FiniteSets

CONSTANTS
  MaxRun,   \* bound: attempts
  MaxLen,   \* bound: length of a capture file
  MaxCrash, \* bound: deaths of the agent
  MaxFault  \* bound: writes that fail and attempts that are killed

ASSUME PcapConstants ==
  /\ MaxRun \in Nat \ {0} /\ MaxLen \in Nat \ {0}
  /\ MaxCrash \in Nat /\ MaxFault \in Nat

Run == 1..MaxRun
None == 0          \* no run, no hash
Kind == {"start", "stop", "fetch"}

VARIABLES
  run,     \* the latest attempt, or None
  pc,      \* progress of the attempt
  runtime, \* [Run -> PcapTaskClient.runtime]
  asked,   \* requests on their way: <<run, kind>>
  answers, \* answers on their way: [run, kind, ok, len]
  proc,    \* [Run -> its dumpcap]
  orphans, \* runs whose dumpcap has outlived its agent
  len,     \* [Run -> length of the file the agent's machine keeps]
  active,  \* the agent's `active`
  records, \* [Run -> the agent's record]
  dump,    \* dump.pcapng of the analysis directory
  bound,   \* pcap_runtime.json of the analysis directory
  report,  \* the run_id in frida_p3_runtime.json, or None
  crashes, faults

client == <<run, pc, runtime>>
wire   == <<asked, answers>>
agent  == <<proc, orphans, len, active, records, crashes>>
disk   == <<dump, bound, report>>
vars   == <<client, wire, agent, disk, faults>>

Status == {"configured", "start_failed", "capturing", "stop_failed", "empty",
           "stopped_not_fetched", "fetch_failed", "complete"}
NoRecord == [state |-> "none", len |-> 0]
NewRuntime == [status |-> "configured", started |-> FALSE, fetched |-> FALSE, sha |-> 0]

TypeOK ==
  /\ run \in 0..MaxRun
  /\ pc \in {"idle", "starting", "marking", "running", "stopping", "fetching",
             "writing", "binding", "reporting"}
  /\ runtime \in [Run -> [status : Status, started : BOOLEAN, fetched : BOOLEAN,
                          sha : 0..MaxLen]]
  /\ asked \subseteq Run \X Kind
  /\ answers \subseteq [run : Run, kind : Kind, ok : BOOLEAN, len : 0..MaxLen]
  /\ proc \in [Run -> {"none", "running", "exited"}]
  /\ orphans \subseteq Run
  /\ len \in [Run -> 0..MaxLen]
  /\ active \in Run \cup {None}
  /\ records \in [Run -> [state : {"none", "capturing", "stopped"}, len : 0..MaxLen]]
  /\ dump \in [run : Run \cup {None}, len : 0..MaxLen]
  /\ bound \in [run : Run \cup {None}, status : Status, fetched : BOOLEAN]
  /\ report \in Run \cup {None}
  /\ crashes \in 0..MaxCrash /\ faults \in 0..MaxFault

Init ==
  /\ run = None /\ pc = "idle" /\ runtime = [r \in Run |-> NewRuntime]
  /\ asked = {} /\ answers = {}
  /\ proc = [r \in Run |-> "none"] /\ orphans = {} /\ len = [r \in Run |-> 0]
  /\ active = None /\ records = [r \in Run |-> NoRecord]
  /\ dump = [run |-> None, len |-> 0]
  /\ bound = [run |-> None, status |-> "configured", fetched |-> FALSE]
  /\ report = None /\ crashes = 0 /\ faults = 0

-----------------------------------------------------------------------------
(* The agent.  A handler holds the agent's lock from its first look at the *)
(* state to its answer, so each request is one step.                       *)

\* Mutants: every look finalizes the active record; none does.
RefreshedEver == active # None
ActiveAsKept == active

\* _refresh_locked: the active record whose dumpcap is seen to have ended is
\* finalized.
Refreshed == active # None /\ proc[active] = "exited"
ActiveNow == IF Refreshed THEN None ELSE active
RecordsNow ==
  IF Refreshed THEN [records EXCEPT ![active] = [state |-> "stopped", len |-> len[active]]]
  ELSE records

Answer(r, kind, ok, n) ==
  /\ asked' = asked \ {<<r, kind>>}
  /\ answers' = answers \cup {[run |-> r, kind |-> kind, ok |-> ok, len |-> n]}

\* Mutant: whatever else is being captured.
HandleStartAnyway(r) ==
  /\ <<r, "start">> \in asked
  /\ proc' = [proc EXCEPT ![r] = "running"]
  /\ active' = r
  /\ records' = [RecordsNow EXCEPT ![r] = [state |-> "capturing", len |-> 0]]
  /\ Answer(r, "start", TRUE, 0)
  /\ UNCHANGED <<client, disk, faults, orphans, len, crashes>>

\* start() of a run for which dumpcap comes up, or does not.
HandleStart(r) ==
  /\ <<r, "start">> \in asked
  /\ ActiveNow = None
  /\ \/ /\ proc' = [proc EXCEPT ![r] = "running"]
        /\ active' = r
        /\ records' = [RecordsNow EXCEPT ![r] = [state |-> "capturing", len |-> 0]]
        /\ Answer(r, "start", TRUE, 0)
     \/ /\ proc' = [proc EXCEPT ![r] = "exited"]
        /\ active' = ActiveNow /\ records' = RecordsNow
        /\ Answer(r, "start", FALSE, 0)
  /\ UNCHANGED <<client, disk, faults, orphans, len, crashes>>

\* start() while another capture is active.
RefuseStart(r) ==
  /\ <<r, "start">> \in asked
  /\ ActiveNow # None
  /\ Answer(r, "start", FALSE, 0)
  /\ active' = ActiveNow /\ records' = RecordsNow
  /\ UNCHANGED <<client, disk, faults, proc, orphans, len, crashes>>

\* stop() of a run the agent knows.  Whether dumpcap has ended is asked twice: if
\* it ends between, the answer is the record as it was, not stopped.  If it does not
\* end when it is killed, the answer is an error and the capture stays active.
HandleStop(r) ==
  /\ <<r, "stop">> \in asked
  /\ RecordsNow[r].state # "none"
  /\ IF RecordsNow[r].state = "stopped"
     THEN /\ Answer(r, "stop", TRUE, RecordsNow[r].len)
          /\ active' = ActiveNow /\ records' = RecordsNow /\ UNCHANGED proc
     ELSE \/ /\ proc' = [proc EXCEPT ![r] = "exited"]
             /\ Answer(r, "stop", TRUE, len[r])
             /\ active' = (IF active = r THEN None ELSE active)
             /\ records' = [records EXCEPT ![r] = [state |-> "stopped", len |-> len[r]]]
          \/ /\ \/ proc' = [proc EXCEPT ![r] = "exited"]
                \/ UNCHANGED proc
             /\ Answer(r, "stop", FALSE, 0)
             /\ UNCHANGED <<active, records>>
  /\ UNCHANGED <<client, disk, faults, orphans, len, crashes>>

\* capture_path() of a run whose record is stopped; the file goes out as it is.
HandleFetch(r) ==
  /\ <<r, "fetch">> \in asked
  /\ RecordsNow[r].state = "stopped"
  /\ Answer(r, "fetch", TRUE, len[r])
  /\ active' = ActiveNow /\ records' = RecordsNow
  /\ UNCHANGED <<client, disk, faults, proc, orphans, len, crashes>>

\* stop() of an unknown run, and capture_path() of one that is not stopped.
Unknown(r, kind) ==
  /\ <<r, kind>> \in asked
  /\ \/ kind = "stop" /\ RecordsNow[r].state = "none"
     \/ kind = "fetch" /\ RecordsNow[r].state # "stopped"
  /\ Answer(r, kind, FALSE, 0)
  /\ active' = ActiveNow /\ records' = RecordsNow
  /\ UNCHANGED <<client, disk, faults, proc, orphans, len, crashes>>

\* get() for the client's clock sampler, of which only the refresh is left.  A
\* request of it may still arrive when its attempt is over.
HandleStatus ==
  /\ Refreshed /\ \E r \in Run : runtime[r].started
  /\ active' = ActiveNow /\ records' = RecordsNow
  /\ UNCHANGED <<client, wire, disk, faults, proc, orphans, len, crashes>>

\* The agent is killed and started again: it knows nothing, its connections
\* are reset, and its dumpcap, a session of its own, goes on.
Restart ==
  /\ crashes < MaxCrash /\ crashes' = crashes + 1
  /\ orphans' = orphans \cup {r \in Run : proc[r] = "running"}
  /\ active' = None /\ records' = [r \in Run |-> NoRecord]
  /\ asked' = {} /\ UNCHANGED answers
  /\ UNCHANGED <<client, disk, faults, proc, len>>

\* The agent is interrupted: main() stops the active capture first.
Shutdown ==
  /\ crashes < MaxCrash /\ crashes' = crashes + 1
  /\ active # None
  /\ proc' = [proc EXCEPT ![active] = "exited"]
  /\ active' = None /\ records' = [r \in Run |-> NoRecord]
  /\ asked' = {} /\ UNCHANGED answers
  /\ UNCHANGED <<client, disk, faults, orphans, len>>

\* dumpcap writes, and ends after its duration.
Write(r) ==
  /\ proc[r] = "running" /\ len[r] < MaxLen
  /\ len' = [len EXCEPT ![r] = @ + 1]
  /\ UNCHANGED <<client, wire, disk, faults, proc, orphans, active, records, crashes>>

Expire(r) ==
  /\ proc[r] = "running"
  /\ proc' = [proc EXCEPT ![r] = "exited"]
  /\ UNCHANGED <<client, wire, disk, faults, orphans, len, active, records, crashes>>

Lose ==
  /\ \/ \E q \in asked : asked' = asked \ {q} /\ UNCHANGED answers
     \/ \E a \in answers : answers' = answers \ {a} /\ UNCHANGED asked
  /\ UNCHANGED <<client, agent, disk, faults>>

-----------------------------------------------------------------------------
(* The client.  Every request has a timeout and none is repeated.          *)

Ask(kind) == asked' = asked \cup {<<run, kind>>}

SetRuntime(values) == runtime' = [runtime EXCEPT ![run] = values]

\* An answer to the client's request, which it takes off the wire.
Hear(kind, ok, n) ==
  LET a == [run |-> run, kind |-> kind, ok |-> ok, len |-> n]
  IN  a \in answers /\ answers' = answers \ {a}

\* The request failed: an error answer, or none in time.  An answer that comes
\* later finds nobody.
Unheard(kind) ==
  \/ Hear(kind, FALSE, 0)
  \/ UNCHANGED answers

\* A write of a small file, which may fail and is not repeated.
WriteFile(file, value) ==
  \/ file' = value /\ UNCHANGED faults
  \/ UNCHANGED file /\ faults < MaxFault /\ faults' = faults + 1

Start ==
  /\ pc = "idle" /\ run < MaxRun
  /\ run' = run + 1 /\ pc' = "starting"
  /\ asked' = asked \cup {<<run', "start">>}
  /\ UNCHANGED <<runtime, answers, agent, disk, faults>>

Started ==
  /\ pc = "starting" /\ pc' = "marking"
  /\ Hear("start", TRUE, 0)
  /\ SetRuntime([runtime[run] EXCEPT !.status = "capturing", !.started = TRUE])
  /\ UNCHANGED <<run, asked, agent, disk, faults>>

StartFailed ==
  /\ pc = "starting" /\ pc' = "marking"
  /\ Unheard("start")
  /\ SetRuntime([runtime[run] EXCEPT !.status = "start_failed"])
  /\ UNCHANGED <<run, asked, agent, disk, faults>>

\* _write_pcap_runtime_snapshot()
Snapshot == [run |-> run, status |-> runtime[run].status, fetched |-> runtime[run].fetched]

Mark ==
  /\ pc = "marking" /\ pc' = "running"
  /\ WriteFile(bound, Snapshot)
  /\ UNCHANGED <<run, runtime, wire, agent, dump, report>>

\* FridaMuncher.stop(): without a capture it goes straight on to its report.
Stop ==
  /\ pc = "running"
  /\ IF runtime[run].started THEN pc' = "stopping" /\ Ask("stop")
                             ELSE pc' = "reporting" /\ UNCHANGED asked
  /\ UNCHANGED <<run, runtime, answers, agent, disk, faults>>

\* Mutant: the status is a word of the client's own.
StoppedAsAsked ==
  /\ pc = "stopping" /\ pc' = "fetching"
  /\ \E n \in 0..MaxLen :
       /\ Hear("stop", TRUE, n)
       /\ SetRuntime([runtime[run] EXCEPT !.status = "stopped", !.sha = n])
  /\ Ask("fetch")
  /\ UNCHANGED <<run, agent, disk, faults>>

\* The status is the agent's, who calls a file complete that has a header.
Stopped ==
  /\ pc = "stopping" /\ pc' = "fetching"
  /\ \E n \in 0..MaxLen :
       /\ Hear("stop", TRUE, n)
       /\ SetRuntime([runtime[run] EXCEPT !.status = IF n = 0 THEN "empty" ELSE "complete",
                                          !.sha = n])
  /\ Ask("fetch")
  /\ UNCHANGED <<run, agent, disk, faults>>

\* The same where pcap_capture_fetch is off: the file stays with the agent.
StoppedOnly ==
  /\ pc = "stopping" /\ pc' = "writing"
  /\ \E n \in 0..MaxLen : Hear("stop", TRUE, n)
  /\ SetRuntime([runtime[run] EXCEPT !.status = "stopped_not_fetched"])
  /\ UNCHANGED <<run, asked, agent, disk, faults>>

StopFailed ==
  /\ pc = "stopping" /\ pc' = "writing"
  /\ Unheard("stop")
  /\ SetRuntime([runtime[run] EXCEPT !.status = "stop_failed"])
  /\ UNCHANGED <<run, asked, agent, disk, faults>>

\* Mutant: what has arrived is the capture.
FetchedUnchecked ==
  /\ pc = "fetching" /\ pc' = "writing"
  /\ \E n \in 1..MaxLen, got \in 1..MaxLen :
       /\ got <= n /\ Hear("fetch", TRUE, n)
       /\ dump' = [run |-> run, len |-> got]
       /\ SetRuntime([runtime[run] EXCEPT !.fetched = TRUE, !.status = "complete"])
  /\ UNCHANGED <<run, asked, agent, bound, report, faults>>

\* _download(): the stream may end early, which read() does not tell from its
\* end.  What has a header replaces dump.pcapng, and then its hash is compared.
Fetched ==
  /\ pc = "fetching" /\ pc' = "writing"
  /\ \E n \in 1..MaxLen, got \in 1..MaxLen :
       /\ got <= n /\ Hear("fetch", TRUE, n)
       /\ dump' = [run |-> run, len |-> got]
       /\ SetRuntime([runtime[run] EXCEPT !.fetched = TRUE,
                        !.status = IF runtime[run].sha \in {0, got} THEN "complete"
                                                                    ELSE "fetch_failed"])
  /\ UNCHANGED <<run, asked, agent, bound, report, faults>>

FetchFailed ==
  /\ pc = "fetching" /\ pc' = "writing"
  /\ \/ Unheard("fetch")
     \/ \E n \in 0..MaxLen : Hear("fetch", TRUE, n)
  /\ SetRuntime([runtime[run] EXCEPT !.status = "fetch_failed"])
  /\ UNCHANGED <<run, asked, agent, disk, faults>>

\* _write_runtime(), and the snapshot _stop_pcap_capture() writes after it.
WriteRuntime ==
  /\ pc = "writing" /\ pc' = "binding"
  /\ WriteFile(bound, Snapshot)
  /\ UNCHANGED <<run, runtime, wire, agent, dump, report>>

Bind ==
  /\ pc = "binding" /\ pc' = "reporting"
  /\ WriteFile(bound, Snapshot)
  /\ UNCHANGED <<run, runtime, wire, agent, dump, report>>

\* _write_p3_runtime_report()
WriteReport ==
  /\ pc = "reporting" /\ pc' = "idle"
  /\ WriteFile(report, run)
  /\ UNCHANGED <<run, runtime, wire, agent, dump, bound>>

\* The program ends in the middle of an attempt.
Kill ==
  /\ pc # "idle" /\ pc' = "idle"
  /\ faults < MaxFault /\ faults' = faults + 1
  /\ UNCHANGED <<run, runtime, wire, agent, disk>>

Client == \/ Started \/ StartFailed \/ Mark \/ Stop \/ Stopped \/ StoppedOnly
          \/ StopFailed \/ Fetched \/ FetchFailed \/ WriteRuntime \/ Bind \/ WriteReport

Agent(r) ==
  \/ HandleStart(r) \/ RefuseStart(r) \/ HandleStop(r) \/ HandleFetch(r)
  \/ \E kind \in {"stop", "fetch"} : Unknown(r, kind)
  \/ Write(r) \/ Expire(r)

Next == Start \/ Client \/ Kill \/ Lose \/ HandleStatus \/ Restart \/ Shutdown
        \/ \E r \in Run : Agent(r)

\* dumpcap ends after its duration.
Spec == Init /\ [][Next]_vars /\ \A r \in Run : WF_vars(Expire(r))

-----------------------------------------------------------------------------
(* Properties. *)

\* What discover_task_capture() gives a report made of the analysis directory.
Usable ==
  /\ bound.run # None => /\ report \in {None, bound.run}
                         /\ bound.status = "complete" /\ bound.fetched
  /\ dump.run # None /\ dump.len # 0

\* After any one failed write or killed attempt, a report is made only of the
\* whole capture of the run whose result is on disk: never of a truncated
\* download, nor of what another attempt has left (network_pid.py:43).
ReportIsWhole ==
  pc = "idle" /\ Usable =>
    /\ bound.run = dump.run
    /\ report \in {None, dump.run}
    /\ proc[dump.run] = "exited" /\ dump.len = len[dump.run]

\* A capture the agent has finalized keeps its record, with the hash it has
\* told, and its file, whatever is asked of it later, until the agent restarts.
RecordFinal ==
  [][\A r \in Run : records[r].state = "stopped" =>
       /\ records'[r] = records[r] \/ crashes' # crashes
       /\ len'[r] = records[r].len]_vars

\* start() is refused as busy only while a capture is being recorded, not
\* because of one that ended and nobody asked about.
BusyIsTrue ==
  [][\A r \in Run : RefuseStart(r) => \E s \in Run : proc[s] = "running"]_vars

\* The attempts' captures as Capture describes them.  A capture is complete when the
\* client has both the word and the file: the agent gives its word at the stop, and
\* the fetch may still take it back.
Phase == [r \in Run |-> CASE proc[r] = "none"    -> "none"
                          [] proc[r] = "exited"  -> "ended"
                          [] proc[r] = "running" /\ r \in orphans -> "orphan"
                          [] OTHER               -> "capturing"]
Verdict == [r \in Run |->
  CASE runtime[r].status = "complete" /\ runtime[r].fetched                   -> "complete"
    [] runtime[r].status \in {"start_failed", "stop_failed", "fetch_failed"} -> "failed"
    [] OTHER                                                                 -> "open"]
Abstract == INSTANCE Capture WITH Run <- Run, phase <- Phase, verdict <- Verdict

\* The agent records one requested capture at a time, every capture ends, and
\* what the client calls complete and fetched, which is what discover_task_capture()
\* asks for, is a capture that has ended, and stays so.
IsCapture == Abstract!Spec

=============================================================================
