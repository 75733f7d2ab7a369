------------------------------- MODULE Capture -------------------------------
(***************************************************************************)
(* What an analysis may rely on when it asks for a packet capture: the     *)
(* capture machine records one requested capture at a time, every capture  *)
(* ends by itself, and a capture is called complete only after it has      *)
(* ended.  PcapTask implements this with an agent, a client and a network  *)
(* between them.                                                           *)
(***************************************************************************)
EXTENDS Naturals

CONSTANT Run   \* the attempts, one capture each

VARIABLES
  phase,   \* [Run -> none, capturing, orphan or ended]
  verdict  \* [Run -> what the analysis says of it: open, complete or failed]

vars == <<phase, verdict>>

Init ==
  /\ phase = [r \in Run |-> "none"]
  /\ verdict = [r \in Run |-> "open"]

\* The machine starts to record r: nothing else is being recorded, except for
\* what an agent that has died left behind.
Start(r) ==
  /\ phase[r] = "none"
  /\ \A s \in Run : phase[s] # "capturing"
  /\ phase' = [phase EXCEPT ![r] = "capturing"]
  /\ UNCHANGED verdict

\* The capture could not be started, and never will be.
Refuse(r) ==
  /\ phase[r] = "none"
  /\ phase' = [phase EXCEPT ![r] = "ended"]
  /\ UNCHANGED verdict

\* The agent dies and its capture goes on without it.
Orphan(r) ==
  /\ phase[r] = "capturing"
  /\ phase' = [phase EXCEPT ![r] = "orphan"]
  /\ UNCHANGED verdict

End(r) ==
  /\ phase[r] \in {"capturing", "orphan"}
  /\ phase' = [phase EXCEPT ![r] = "ended"]
  /\ UNCHANGED verdict

Complete(r) ==
  /\ phase[r] = "ended" /\ verdict[r] = "open"
  /\ verdict' = [verdict EXCEPT ![r] = "complete"]
  /\ UNCHANGED phase

Fail(r) ==
  /\ verdict[r] = "open"
  /\ verdict' = [verdict EXCEPT ![r] = "failed"]
  /\ UNCHANGED phase

Next == \E r \in Run :
  Start(r) \/ Refuse(r) \/ Orphan(r) \/ End(r) \/ Complete(r) \/ Fail(r)

Spec == Init /\ [][Next]_vars /\ \A r \in Run : WF_vars(End(r))
=============================================================================
