------------------------ MODULE FridaSessions_proofs ------------------------
(***************************************************************************)
(* Theorems about FridaSessions, for any processes, finite or not, and any *)
(* limits.  A process that is enrolled once has one worker, and nobody     *)
(* else touches its attach call, its ticket or its entry of the table:     *)
(* SoloInv follows a session through them, from hand to hand.              *)
(***************************************************************************)
EXTENDS FridaSessions, FiniteSetTheorems, TLAPS

\* The type invariant by what it speaks of.
Place == {"none", "sync", "policy", "claim", "mark", "begin", "wait", "attached", "setup", "leaving",
          "done"}
Progress == {"none", "attaching", "tested"} \cup Returned
ProcTypes ==
  /\ alive \subseteq Proc /\ lineage \subseteq Proc /\ pending \subseteq Child \cup Target
  /\ seen \in Child \cup {None}
WorkTypes ==
  /\ pc \in [Worker -> Place] /\ attempts \in [Worker -> 0..MaxAttempts]
  /\ waitOn \in [Worker -> Worker \cup {None}]
RpcTypes == rpc \in [Worker -> Progress] /\ cancel \subseteq Worker /\ live \subseteq Worker
TickTypes == ticket \in [Proc -> Worker \cup {None}] /\ claimed \subseteq Proc
TabTypes == sessions \in [Proc -> Worker \cup {None}] /\ hooked \subseteq Worker
StopTypes ==
  stop \in {"no", "set", "tickets", "done"} /\ todo \subseteq Proc /\ taken \subseteq Worker
Types == ProcTypes /\ WorkTypes /\ RpcTypes /\ TickTypes /\ TabTypes /\ StopTypes

Started(w) == pc[w] # "none"

\* What is named exists: calls are of started workers, and of the process of whoever
\* waits for them or has them as its ticket.
LinkInv ==
  /\ \A w \in Worker :
       /\ ~Started(w) => rpc[w] = "none" /\ w \notin live /\ w \notin hooked
       /\ waitOn[w] # None => Pid(waitOn[w]) = Pid(w) /\ Started(waitOn[w])
       /\ pc[w] \in {"wait", "attached", "setup", "leaving"} => waitOn[w] # None
       /\ pc[w] = "mark" => ticket[Pid(w)] # None
  /\ \A p \in Proc :
       /\ ticket[p] # None => Pid(ticket[p]) = p /\ Started(ticket[p])
       /\ p \in claimed \cup todo => ticket[p] # None
  /\ stop = "done" => todo = {}
  /\ stop # "done" => taken = {}

\* No worker is started again: a started one's process is in the lineage, and what
\* the watcher has found new has no worker of the watcher's yet.
EnrolInv ==
  \A w \in Worker : /\ Started(w) => Pid(w) \in lineage
                    /\ seen = Pid(w) /\ Role(w) = "child" => ~Started(w)

\* The one worker of its process.
Solo(w) == Started(w) /\ \A v \in Worker \ {w} : Pid(v) = Pid(w) => ~Started(v)

HasTicket(w) == ticket[Pid(w)] = w /\ Pid(w) \notin claimed

\* Its way to the attach, with or without a ticket.
OnItsWay(w) ==
  /\ pc[w] = "sync" => rpc[w] = "none" /\ ticket[Pid(w)] = None
  /\ pc[w] \in {"policy", "claim"} =>
       \/ rpc[w] = "none" /\ ticket[Pid(w)] = None
       \/ ticket[Pid(w)] = w
  /\ pc[w] = "mark" => ticket[Pid(w)] = w
  /\ pc[w] \in {"sync", "policy", "claim", "mark"} => Pid(w) \notin claimed
  /\ pc[w] = "begin" => rpc[w] \in {"none", "empty"}
  /\ pc[w] \in {"begin", "wait", "attached", "setup", "leaving"} => ~HasTicket(w)
  /\ pc[w] \in {"wait", "attached", "setup", "leaving"} => waitOn[w] = w
  /\ pc[w] \in {"attached", "setup", "leaving"} => rpc[w] = "session"

\* Its ticket has something that stop() has to cancel or to detach.
Owed(w) ==
  /\ HasTicket(w) /\ w \notin cancel
  /\ rpc[w] \in {"attaching", "tested"} \/ (rpc[w] = "session" /\ w \in live)

\* Its session, in the hands of the ticket, the worker, the table or stop(), which
\* passes no ticket over.
InHands(w) ==
  /\ rpc[w] \in {"none", "attaching", "empty"} => w \notin live
  /\ w \notin cancel /\ rpc[w] \in {"attaching", "tested"} => HasTicket(w) \/ pc[w] = "wait"
  /\ w \notin cancel /\ w \in live /\ rpc[w] = "session" =>
       \/ HasTicket(w) \/ pc[w] \in {"wait", "attached", "leaving"}
       \/ sessions[Pid(w)] = w \/ w \in taken
  /\ stop \in {"tickets", "done"} /\ Owed(w) => Pid(w) \in todo

SoloInv == \A w \in Worker : Solo(w) => OnItsWay(w) /\ InHands(w)

\* Until it returns, the worker of a process but the root keeps it in `pending`.
PendInv ==
  \A w \in Worker : Solo(w) /\ pc[w] # "done" /\ Pid(w) # Root => Pid(w) \in pending

\* What is attached or about to be; a process that was enrolled twice is not counted,
\* as its second worker may put it into the table when its place is another's.
Used == (InTable \cup pending) \ ({Root} \cup {p \in Proc : Twice(p)})
UsedLimit == Cardinality(Used) <= MaxSessions
LimitInv == IsFiniteSet(InTable) /\ IsFiniteSet(pending) /\ UsedLimit

Inv == Types /\ LinkInv /\ EnrolInv /\ SoloInv /\ PendInv /\ LimitInv

-----------------------------------------------------------------------------
(* Workers are named by process and role. *)

LEMMA PidIs == \A w \in Worker : Pid(w) \in Proc
  BY DEF Worker, Proc, Pid

LEMMA WorkerIs ==
  /\ \A p \in Child : /\ <<p, "child">> \in Worker
                      /\ Pid(<<p, "child">>) = p /\ Role(<<p, "child">>) = "child"
  /\ \A p \in Target : /\ <<p, "injected">> \in Worker
                       /\ Pid(<<p, "injected">>) = p /\ Role(<<p, "injected">>) = "injected"
  BY DEF Worker, Pid, Role

LEMMA ChildIs == \A w \in Worker : Role(w) = "child" => w = <<Pid(w), "child">>
  BY DEF Worker, Pid, Role

LEMMA RootIs == \A w \in Worker : Role(w) = "root" => Pid(w) = Root
  BY DEF Worker, Pid, Role

LEMMA NoneIsNone == None \notin Proc /\ None \notin Worker /\ Root \notin Child \cup Target
  BY FridaConstants

LEMMA TwiceIs == \A w \in Worker : Started(w) /\ ~Twice(Pid(w)) <=> Started(w) /\ Solo(w)
  BY DEF Twice, Solo, Started

-----------------------------------------------------------------------------
(* Types and links. *)

LEMMA QuitIs ==
  ASSUME WorkTypes, NEW w \in Worker, Quit(w)
  PROVE  /\ WorkTypes' /\ pc'[w] = "done" /\ waitOn'[w] = None
         /\ \A v \in Worker \ {w} : pc'[v] = pc[v] /\ waitOn'[v] = waitOn[v]
  BY FridaConstants DEF WorkTypes, Quit, Goto, Place

LEMMA GotoIs ==
  ASSUME WorkTypes, NEW w \in Worker, NEW place \in Place, Goto(w, place),
         UNCHANGED <<attempts, waitOn>>
  PROVE  /\ WorkTypes' /\ pc'[w] = place
         /\ \A v \in Worker : waitOn'[v] = waitOn[v]
         /\ \A v \in Worker \ {w} : pc'[v] = pc[v]
  BY DEF WorkTypes, Goto

\* What a step of a worker leaves alone; most steps wait for what they waited for.
LEMMA WorkerMoves ==
  ASSUME Types, LinkInv, NEW w \in Worker, WorkerStep(w)
  PROVE  /\ WorkTypes' /\ Started(w) /\ pc'[w] # "none"
         /\ \A v \in Worker \ {w} : pc'[v] = pc[v] /\ waitOn'[v] = waitOn[v]
         /\ UNCHANGED <<alive, lineage, seen, stopVars>>
         /\ pending' = pending \/ (pc'[w] = "done" /\ pending' = pending \ {Pid(w)})
<1>1. WorkTypes
  BY DEF Types
<1>2. Started(w)
  BY DEF WorkerStep, Lost, Sync, Policy, ClaimCheck, ClaimMark, Begin, GotSession, GotNone,
         GiveUp, Insert, SetupSucceeds, SetupFails, Detach, Started
<1>3. ASSUME Quit(w) PROVE WorkTypes' /\ pc'[w] = "done" /\ pending' = pending \ {Pid(w)}
               /\ \A v \in Worker \ {w} : pc'[v] = pc[v] /\ waitOn'[v] = waitOn[v]
  BY <1>1, <1>3, QuitIs DEF Quit
<1>4. ASSUME NEW place \in Place \ {"none"}, Goto(w, place),
             UNCHANGED <<attempts, waitOn>>
      PROVE  WorkTypes' /\ pc'[w] # "none"
               /\ \A v \in Worker \ {w} : pc'[v] = pc[v] /\ waitOn'[v] = waitOn[v]
  BY <1>1, <1>4, GotoIs
<1>5. CASE Lost(w) \/ GiveUp(w) \/ SetupSucceeds(w) \/ Detach(w)
  BY <1>2, <1>3, <1>5 DEF Lost, GiveUp, SetupSucceeds, Detach
<1>6. CASE Sync(w) \/ Insert(w)
  BY <1>2, <1>4, <1>6 DEF Sync, Insert, Place, procVars
<1>7. CASE Policy(w) \/ GotNone(w) \/ GotSession(w) \/ SetupFails(w)
  BY <1>2, <1>3, <1>4, <1>7 DEF Policy, GotNone, GotSession, SetupFails, Stay, Place
<1>8. CASE ClaimCheck(w)
  BY <1>2, <1>3, <1>4, <1>8 DEF ClaimCheck, Stay, Place
<1>9. CASE ClaimMark(w)
  <2>1. ticket[Pid(w)] \in Worker \cup {None} /\ attempts \in [Worker -> Nat] /\ 1 \in 0..MaxAttempts
    BY <1>9, PidIs, FridaConstants DEF Types, TickTypes, WorkTypes
  <2> QED
    BY <1>1, <1>2, <1>9, <2>1 DEF ClaimMark, Goto, WorkTypes, Place, procVars
<1>10. CASE Begin(w)
  <2>1. CASE Quit(w)
    BY <1>2, <1>3, <1>10, <2>1 DEF Begin
  <2>2. CASE attempts[w] < MaxAttempts /\ attempts' = [attempts EXCEPT ![w] = @ + 1]
             /\ waitOn' = [waitOn EXCEPT ![w] = w] /\ Goto(w, "wait") /\ UNCHANGED pending
    <3>1. attempts[w] + 1 \in 0..MaxAttempts
      BY <1>1, <2>2, FridaConstants DEF WorkTypes
    <3> QED
      BY <1>1, <1>2, <1>10, <2>2, <3>1 DEF Begin, Goto, WorkTypes, Place
  <2> QED
    BY <1>10, <2>1, <2>2 DEF Begin
<1> QED
  BY <1>5, <1>6, <1>7, <1>8, <1>9, <1>10 DEF WorkerStep

\* It touches its own attach call and what belongs to its process, and else only the
\* call it waits for.
LEMMA WorkerTouches ==
  ASSUME Types, LinkInv, NEW w \in Worker, WorkerStep(w)
  PROVE  /\ RpcTypes' /\ TickTypes' /\ TabTypes'
         /\ \A v \in Worker \ {w} : rpc'[v] = rpc[v]
         /\ cancel' \ cancel \subseteq {waitOn[w]} /\ cancel \subseteq cancel'
         /\ live' \subseteq live /\ live \ live' \subseteq {waitOn[w]}
         /\ \A q \in Proc \ {Pid(w)} : ticket'[q] = ticket[q] /\ sessions'[q] = sessions[q]
         /\ ticket' = ticket \/ (ticket[Pid(w)] = None /\ ticket'[Pid(w)] = w)
         /\ claimed' = claimed
              \/ (claimed' = claimed \cup {Pid(w)} /\ ticket' = ticket /\ pc[w] = "mark")
         /\ hooked' \ hooked \subseteq {waitOn[w]} \ {None}
<1>1. RpcTypes /\ TickTypes /\ TabTypes /\ Pid(w) \in Proc /\ WorkTypes
  BY PidIs DEF Types
<1>2. pc[w] \in {"wait", "attached", "setup", "leaving"} => waitOn[w] \in Worker
  BY <1>1 DEF LinkInv, WorkTypes
<1> USE DEF RpcTypes, TickTypes, TabTypes
<1>3. CASE Lost(w) \/ Policy(w) \/ ClaimCheck(w) \/ GotNone(w) \/ SetupSucceeds(w)
  BY <1>1, <1>3 DEF Lost, Policy, ClaimCheck, GotNone, SetupSucceeds, rpcVars, tickVars, tabVars
<1>4. CASE Sync(w)
  BY <1>1, <1>4 DEF Sync, tabVars, Progress
<1>5. CASE ClaimMark(w)
  BY <1>1, <1>5 DEF ClaimMark, tabVars, rpcVars
<1>6. CASE Begin(w)
  BY <1>1, <1>6 DEF Begin, tabVars, tickVars, Progress
<1>7. CASE GotSession(w) \/ GiveUp(w) \/ Detach(w)
  BY <1>1, <1>2, <1>7 DEF GotSession, GiveUp, Detach, rpcVars, tabVars, tickVars
<1>8. CASE Insert(w)
  BY <1>1, <1>2, <1>8, NoneIsNone DEF Insert, rpcVars, tickVars
<1>9. CASE SetupFails(w)
  BY <1>1, <1>2, <1>9 DEF SetupFails, rpcVars, tickVars
<1> QED
  BY <1>3, <1>4, <1>5, <1>6, <1>7, <1>8, <1>9 DEF WorkerStep

\* WatchEnroll and EnrollInjected: a worker is started, with nothing else of it there.
LEMMA EnrollIs ==
  ASSUME Types, EnrolInv, WatchEnroll \/ \E p \in Proc : EnrollInjected(p)
  PROVE  \/ /\ UNCHANGED <<pc, pending, waitOn, rpcVars, tickVars, tabVars, stopVars>>
            /\ ProcTypes' /\ WorkTypes' /\ seen' = None /\ lineage \subseteq lineage'
         \/ \E w \in Worker :
              /\ ~Started(w) /\ Pid(w) # Root
              /\ ProcTypes' /\ WorkTypes' /\ pc'[w] = "sync" /\ Room
              /\ \A v \in Worker \ {w} : pc'[v] = pc[v]
              /\ pending' = pending \cup {Pid(w)} /\ lineage' = lineage \cup {Pid(w)}
              /\ seen' = None \/ (seen' = seen /\ Role(w) # "child")
              /\ UNCHANGED <<waitOn, rpcVars, tickVars, tabVars, stopVars>>
<1>1. ProcTypes /\ WorkTypes
  BY DEF Types
<1>2. ASSUME WatchEnroll, Room PROVE \E w \in Worker :
              /\ ~Started(w) /\ Pid(w) # Root
              /\ ProcTypes' /\ WorkTypes' /\ pc'[w] = "sync" /\ Room
              /\ \A v \in Worker \ {w} : pc'[v] = pc[v]
              /\ pending' = pending \cup {Pid(w)} /\ lineage' = lineage \cup {Pid(w)}
              /\ seen' = None \/ (seen' = seen /\ Role(w) # "child")
              /\ UNCHANGED <<waitOn, rpcVars, tickVars, tabVars, stopVars>>
  <2>1. PICK w \in Worker : w = <<seen, "child">> /\ Pid(w) = seen /\ Role(w) = "child"
                            /\ seen \in Child
    BY <1>1, <1>2, WorkerIs DEF WatchEnroll, ProcTypes
  <2>2. Goto(w, "sync") /\ UNCHANGED <<attempts, waitOn>>
    BY <1>2, <2>1 DEF WatchEnroll
  <2>3. WorkTypes' /\ pc'[w] = "sync" /\ \A v \in Worker \ {w} : pc'[v] = pc[v]
    BY <1>1, <2>2, GotoIs DEF Place
  <2>4. ~Started(w) /\ Pid(w) # Root
    BY <2>1, NoneIsNone DEF EnrolInv
  <2>5. ProcTypes'
    BY <1>1, <1>2, <2>1 DEF WatchEnroll, ProcTypes, Proc
  <2> QED
    BY <1>2, <2>1, <2>3, <2>4, <2>5 DEF WatchEnroll
<1>3. ASSUME WatchEnroll, ~Room
      PROVE  /\ UNCHANGED <<pc, pending, waitOn, rpcVars, tickVars, tabVars, stopVars>>
             /\ ProcTypes' /\ WorkTypes' /\ seen' = None /\ lineage \subseteq lineage'
  BY <1>1, <1>3 DEF WatchEnroll, ProcTypes, WorkTypes, Proc
<1>4. ASSUME NEW p \in Proc, EnrollInjected(p) PROVE \E w \in Worker :
              /\ ~Started(w) /\ Pid(w) # Root
              /\ ProcTypes' /\ WorkTypes' /\ pc'[w] = "sync" /\ Room
              /\ \A v \in Worker \ {w} : pc'[v] = pc[v]
              /\ pending' = pending \cup {Pid(w)} /\ lineage' = lineage \cup {Pid(w)}
              /\ seen' = None \/ (seen' = seen /\ Role(w) # "child")
              /\ UNCHANGED <<waitOn, rpcVars, tickVars, tabVars, stopVars>>
  <2>1. PICK w \in Worker : w = <<p, "injected">> /\ Pid(w) = p /\ Role(w) = "injected"
                            /\ p \in Target
    BY <1>4, WorkerIs DEF EnrollInjected
  <2>2. Goto(w, "sync") /\ UNCHANGED <<attempts, waitOn>>
    BY <1>4, <2>1 DEF EnrollInjected
  <2>3. WorkTypes' /\ pc'[w] = "sync" /\ \A v \in Worker \ {w} : pc'[v] = pc[v]
    BY <1>1, <2>2, GotoIs DEF Place
  <2>4. ~Started(w) /\ Pid(w) # Root
    BY <1>4, <2>1, NoneIsNone DEF EnrolInv, EnrollInjected
  <2>5. ProcTypes'
    BY <1>1, <1>4, <2>1 DEF EnrollInjected, ProcTypes, Proc
  <2> QED
    BY <1>4, <2>1, <2>3, <2>4, <2>5 DEF EnrollInjected
<1> QED
  BY <1>2, <1>3, <1>4

\* The steps outside of the workers, after which the same calls are waited for.
LEMMA OthersMove ==
  ASSUME Types, LinkInv,
         \/ \E p \in Proc : WatchCheck(p) \/ Die(p) \/ StopTicket(p)
         \/ \E r \in Worker : AttachCall(r) \/ OnDetached(r) \/ StopDetach(r)
         \/ StopSet \/ StopSnapshot \/ StopSessions
  PROVE  /\ Types' /\ UNCHANGED <<workVars, tickVars, lineage, pending>>
         /\ seen' = seen \/ (seen' \in Child /\ seen' \notin lineage)
         /\ \A v \in Worker : rpc'[v] = rpc[v] \/ (Started(v) /\ rpc[v] \in {"attaching", "tested"})
         /\ \A v \in live' \ live : Started(v)
         /\ hooked' \subseteq hooked
         /\ \A p \in todo' : p \in todo \/ ticket[p] # None
         /\ stop' = "done" => todo' = {}
         /\ stop' # "done" => taken' = {}
         /\ \A p \in Proc : sessions'[p] \in {sessions[p], None}
<1>1. ProcTypes /\ WorkTypes /\ RpcTypes /\ TickTypes /\ TabTypes /\ StopTypes
  BY DEF Types
<1> USE <1>1 DEF procVars, workVars, rpcVars, tickVars, tabVars, stopVars
<1>2. ASSUME NEW p \in Proc, WatchCheck(p) \/ Die(p)
      PROVE  /\ ProcTypes' /\ live' \subseteq live /\ UNCHANGED <<lineage, pending>>
             /\ seen' = seen \/ (seen' \in Child /\ seen' \notin lineage)
             /\ UNCHANGED <<workVars, rpc, cancel, tickVars, tabVars, stopVars>>
  BY <1>2 DEF WatchCheck, Die, ProcTypes
<1>3. ASSUME NEW p \in Proc, StopTicket(p)
      PROVE  /\ RpcTypes' /\ StopTypes' /\ live' \subseteq live /\ todo' \subseteq todo
             /\ UNCHANGED <<procVars, workVars, rpc, tickVars, tabVars, stop, taken>>
  <2>1. ticket[p] \in Worker
    BY <1>3 DEF StopTicket, LinkInv, TickTypes
  <2> QED
    BY <1>3, <2>1 DEF StopTicket, RpcTypes, StopTypes
<1>4. ASSUME NEW r \in Worker, AttachCall(r)
      PROVE  /\ RpcTypes' /\ live' \subseteq live \cup {r} /\ Started(r)
             /\ rpc[r] \in {"attaching", "tested"} /\ \A v \in Worker \ {r} : rpc'[v] = rpc[v]
             /\ UNCHANGED <<procVars, workVars, tickVars, tabVars, stopVars>>
  BY <1>4 DEF AttachCall, AttachSucceeds, AttachFails, Publish, RpcTypes, LinkInv, Progress, Returned
<1>5. ASSUME NEW r \in Worker, OnDetached(r)
      PROVE  /\ TabTypes' /\ hooked' \subseteq hooked
             /\ \A p \in Proc : sessions'[p] \in {sessions[p], None}
             /\ UNCHANGED <<procVars, workVars, rpcVars, tickVars, stopVars>>
  BY <1>5, PidIs DEF OnDetached, TabTypes
<1>6. ASSUME StopSet \/ StopSnapshot
      PROVE  /\ StopTypes' /\ UNCHANGED <<procVars, workVars, rpcVars, tickVars, tabVars>>
             /\ \A p \in todo' : p \in todo \/ ticket[p] # None
             /\ stop' # "done" /\ taken' = taken /\ stop # "done"
  BY <1>6 DEF StopSet, StopSnapshot, StopTypes
<1>7. ASSUME StopSessions
      PROVE  /\ TabTypes' /\ StopTypes' /\ todo' = {} /\ stop' = "done"
             /\ \A p \in Proc : sessions'[p] \in {sessions[p], None}
             /\ UNCHANGED <<procVars, workVars, rpcVars, tickVars, hooked>>
  BY <1>7 DEF StopSessions, TabTypes, StopTypes, InTable
<1>14. ASSUME NEW r \in Worker, StopDetach(r)
       PROVE  /\ RpcTypes' /\ StopTypes' /\ live' \subseteq live /\ taken' \subseteq taken
              /\ UNCHANGED <<procVars, workVars, rpc, cancel, tickVars, tabVars, stop, todo>>
  BY <1>14 DEF StopDetach, RpcTypes, StopTypes
<1>8. CASE \E p \in Proc : WatchCheck(p) \/ Die(p)
  BY <1>2, <1>8 DEF LinkInv, Types, WorkTypes, RpcTypes, TickTypes, TabTypes, StopTypes
<1>9. CASE \E p \in Proc : StopTicket(p)
  BY <1>3, <1>9 DEF LinkInv, Types, ProcTypes, WorkTypes, TickTypes, TabTypes
<1>10. CASE \E r \in Worker : AttachCall(r)
  BY <1>4, <1>10 DEF LinkInv, Types, ProcTypes, WorkTypes, TickTypes, TabTypes, StopTypes
<1>11. CASE \E r \in Worker : OnDetached(r)
  BY <1>5, <1>11 DEF LinkInv, Types, ProcTypes, WorkTypes, RpcTypes, TickTypes, StopTypes
<1>12. CASE StopSet \/ StopSnapshot
  BY <1>6, <1>12 DEF LinkInv, Types, ProcTypes, WorkTypes, RpcTypes, TickTypes, TabTypes
<1>13. CASE StopSessions
  BY <1>7, <1>13 DEF Types, ProcTypes, WorkTypes, RpcTypes, TickTypes
<1>15. CASE \E r \in Worker : StopDetach(r)
  BY <1>14, <1>15 DEF LinkInv, Types, ProcTypes, WorkTypes, TickTypes, TabTypes
<1> QED
  BY <1>8, <1>9, <1>10, <1>11, <1>12, <1>13, <1>15

Enrolment == WatchEnroll \/ \E p \in Proc : EnrollInjected(p)
Others ==
  \/ \E p \in Proc : WatchCheck(p) \/ Die(p) \/ StopTicket(p)
  \/ \E r \in Worker : AttachCall(r) \/ OnDetached(r) \/ StopDetach(r)
  \/ StopSet \/ StopSnapshot \/ StopSessions

LEMMA NextIs == Next <=> Enrolment \/ Others \/ \E w \in Worker : WorkerStep(w)
  BY DEF Next, Enrolment, Others

LEMMA LinksKeep ==
  ASSUME Types, LinkInv, EnrolInv, Next
  PROVE  Types' /\ LinkInv' /\ EnrolInv'
<1> USE DEF Started
<1>1. CASE Enrolment
  <2>1. Types'
    BY <1>1, EnrollIs DEF Enrolment, Types, RpcTypes, TickTypes, TabTypes, StopTypes,
         rpcVars, tickVars, tabVars, stopVars
  <2>2. LinkInv' /\ EnrolInv'
    <3>1. CASE UNCHANGED <<pc, pending, waitOn, rpcVars, tickVars, tabVars, stopVars>>
               /\ seen' = None /\ lineage \subseteq lineage'
      BY <3>1, PidIs, NoneIsNone DEF LinkInv, EnrolInv, rpcVars, tickVars, tabVars, stopVars
    <3>2. ASSUME NEW w \in Worker, ~Started(w), pc'[w] = "sync",
                 \A v \in Worker \ {w} : pc'[v] = pc[v],
                 lineage' = lineage \cup {Pid(w)},
                 seen' = None \/ (seen' = seen /\ Role(w) # "child"),
                 UNCHANGED <<waitOn, rpcVars, tickVars, tabVars, stopVars>>
          PROVE  LinkInv' /\ EnrolInv'
      <4>1. \A v \in Worker \cup {None} : Started(v) /\ v \in Worker => Started(v)'
        BY <3>2
      <4>2. LinkInv'
        BY <3>2, <4>1 DEF LinkInv, Types, WorkTypes, TickTypes, rpcVars, tickVars, tabVars, stopVars
      <4>3. EnrolInv'
        BY <3>2, PidIs, NoneIsNone DEF EnrolInv
      <4> QED
        BY <4>2, <4>3
    <3> QED
      BY <1>1, <3>1, <3>2, EnrollIs DEF Enrolment
  <2> QED
    BY <2>1, <2>2
<1>2. ASSUME NEW w \in Worker, WorkerStep(w) PROVE Types' /\ LinkInv' /\ EnrolInv'
  <2>1. /\ WorkTypes' /\ Started(w) /\ pc'[w] # "none"
        /\ \A v \in Worker \ {w} : pc'[v] = pc[v] /\ waitOn'[v] = waitOn[v]
        /\ UNCHANGED <<alive, lineage, seen, stopVars>>
        /\ pending' = pending \/ (pc'[w] = "done" /\ pending' = pending \ {Pid(w)})
    BY <1>2, WorkerMoves
  <2>2. /\ RpcTypes' /\ TickTypes' /\ TabTypes'
        /\ \A v \in Worker \ {w} : rpc'[v] = rpc[v]
        /\ live' \subseteq live
        /\ \A q \in Proc \ {Pid(w)} : ticket'[q] = ticket[q]
        /\ ticket' = ticket \/ (ticket[Pid(w)] = None /\ ticket'[Pid(w)] = w)
        /\ claimed' = claimed
             \/ (claimed' = claimed \cup {Pid(w)} /\ ticket' = ticket /\ pc[w] = "mark")
        /\ hooked' \ hooked \subseteq {waitOn[w]} \ {None}
    BY <1>2, WorkerTouches
  <2>3. Types'
    BY <2>1, <2>2 DEF Types, ProcTypes, StopTypes, stopVars
  <2>4. EnrolInv'
    BY <2>1 DEF EnrolInv
  <2>5. \A v \in Worker : Started(v)' <=> Started(v)
    BY <2>1
  <2>6. \A p \in Proc : ticket'[p] = ticket[p] \/ (p = Pid(w) /\ ticket'[p] = w)
    BY <2>2
  <2>7. /\ waitOn'[w] # None => Pid(waitOn'[w]) = Pid(w) /\ Started(waitOn'[w])
        /\ pc'[w] \in {"wait", "attached", "setup", "leaving"} => waitOn'[w] # None
        /\ pc'[w] = "mark" => ticket'[Pid(w)] # None
    <3> USE DEF Goto, Stay, Quit
    <3>1. WorkTypes /\ TickTypes /\ Pid(w) \in Proc
      BY PidIs DEF Types
    <3>2. CASE Lost(w) \/ GiveUp(w) \/ SetupSucceeds(w) \/ Detach(w)
      BY <3>1, <3>2 DEF Lost, GiveUp, SetupSucceeds, Detach, WorkTypes
    <3>3. CASE Sync(w) \/ Insert(w)
      BY <3>1, <3>3 DEF Sync, Insert, WorkTypes, LinkInv
    <3>4. CASE Policy(w) \/ GotNone(w) \/ GotSession(w) \/ SetupFails(w)
      BY <3>1, <3>4 DEF Policy, GotNone, GotSession, SetupFails, WorkTypes, LinkInv
    <3>5. CASE ClaimCheck(w)
      BY <3>1, <3>5 DEF ClaimCheck, WorkTypes, LinkInv, tickVars
    <3>6. CASE ClaimMark(w)
      BY <3>1, <3>6 DEF ClaimMark, WorkTypes, LinkInv
    <3>7. CASE Begin(w)
      BY <2>1, <3>1, <3>7, NoneIsNone DEF Begin, WorkTypes
    <3> QED
      BY <1>2, <3>2, <3>3, <3>4, <3>5, <3>6, <3>7 DEF WorkerStep
  <2>8. LinkInv'
    <3>1. ASSUME NEW v \in Worker
          PROVE  /\ ~Started(v) => rpc'[v] = "none" /\ v \notin live' /\ v \notin hooked'
                 /\ waitOn'[v] # None => Pid(waitOn'[v]) = Pid(v) /\ Started(waitOn'[v])
                 /\ pc'[v] \in {"wait", "attached", "setup", "leaving"} => waitOn'[v] # None
                 /\ pc'[v] = "mark" => ticket'[Pid(v)] # None
      <4>1. CASE v = w
        BY <2>1, <2>7, <4>1
      <4>2. CASE v # w
        BY <2>1, <2>2, <2>6, <4>2, NoneIsNone, PidIs DEF LinkInv
      <4> QED
        BY <4>1, <4>2
    <3>2. ASSUME NEW p \in Proc
          PROVE  /\ ticket'[p] # None => Pid(ticket'[p]) = p /\ Started(ticket'[p])
                 /\ p \in (claimed \cup todo)' => ticket'[p] # None
      BY <2>1, <2>2, <2>6, NoneIsNone DEF LinkInv, stopVars
    <3>3. \A v \in Worker : waitOn'[v] # None => waitOn'[v] \in Worker
      BY <2>1 DEF WorkTypes
    <3>4. \A p \in Proc : ticket'[p] # None => ticket'[p] \in Worker
      BY <2>2 DEF TickTypes
    <3>5. (stop' = "done" => todo' = {}) /\ (stop' # "done" => taken' = {})
      BY <2>1 DEF LinkInv, stopVars
    <3> QED
      BY <2>5, <3>1, <3>2, <3>3, <3>4, <3>5 DEF LinkInv
  <2> QED
    BY <2>3, <2>4, <2>8
<1>3. CASE Others
  <2>1. /\ Types' /\ UNCHANGED <<workVars, tickVars, lineage, pending>>
        /\ seen' = seen \/ (seen' \in Child /\ seen' \notin lineage)
        /\ \A v \in Worker : rpc'[v] = rpc[v] \/ (Started(v) /\ rpc[v] \in {"attaching", "tested"})
        /\ \A v \in live' \ live : Started(v)
        /\ hooked' \subseteq hooked
        /\ \A p \in todo' : p \in todo \/ ticket[p] # None
        /\ stop' = "done" => todo' = {}
        /\ stop' # "done" => taken' = {}
    BY <1>3, OthersMove DEF Others
  <2>2. LinkInv'
    BY <2>1 DEF LinkInv, workVars, tickVars
  <2>3. EnrolInv'
    BY <2>1 DEF EnrolInv, workVars
  <2> QED
    BY <2>1, <2>2, <2>3
<1> QED
  BY <1>1, <1>2, <1>3, NextIs

-----------------------------------------------------------------------------
(* The way of a session. *)

\* Starting is for good, so who is alone has been alone.
LEMMA SoloStays ==
  ASSUME NEW v \in Worker, Started(v), Solo(v)',
         \A u \in Worker : Started(u) => Started(u)'
  PROVE  Solo(v)
  BY DEF Solo

\* What holds of a session goes on to hold when others lose theirs or are cancelled.
LEMMA OthersStay ==
  ASSUME NEW v \in Worker, OnItsWay(v), InHands(v),
         pc'[v] = pc[v], waitOn'[v] = waitOn[v], rpc'[v] = rpc[v],
         ticket'[Pid(v)] = ticket[Pid(v)],
         Pid(v) \in claimed' <=> Pid(v) \in claimed,
         v \in cancel => v \in cancel', v \in live' => v \in live,
         v \in live' => sessions'[Pid(v)] = sessions[Pid(v)],
         v \in live' /\ v \in taken => v \in taken',
         stop' \in {"tickets", "done"} => stop \in {"tickets", "done"},
         Pid(v) \in todo => Pid(v) \in todo'
  PROVE  OnItsWay(v)' /\ InHands(v)'
<1>1. OnItsWay(v)'
  BY DEF OnItsWay, HasTicket
<1>2. InHands(v)'
  BY DEF InHands, HasTicket, Owed
<1> QED
  BY <1>1, <1>2

\* The worker's own step.
LEMMA WorkerSolo ==
  ASSUME Types, LinkInv, NEW w \in Worker, Solo(w), OnItsWay(w), InHands(w), WorkerStep(w)
  PROVE  OnItsWay(w)' /\ InHands(w)'
<1>1. /\ pc \in [Worker -> Place] /\ waitOn \in [Worker -> Worker \cup {None}]
      /\ rpc \in [Worker -> Progress] /\ Pid(w) \in Proc
      /\ ticket \in [Proc -> Worker \cup {None}] /\ sessions \in [Proc -> Worker \cup {None}]
  BY PidIs DEF Types, WorkTypes, RpcTypes, TickTypes, TabTypes
<1>2. ticket[Pid(w)] # None => ticket[Pid(w)] = w
  BY <1>1 DEF LinkInv, Solo, Started
<1> USE NoneIsNone DEF OnItsWay, InHands, HasTicket, Owed, Goto, Stay, Quit, Returned, stopVars
<1>3. CASE Lost(w)
  BY <1>1, <1>3 DEF Lost, rpcVars, tickVars, tabVars
<1>4. CASE Sync(w)
  BY <1>1, <1>4 DEF Sync, tabVars
<1>5. CASE Policy(w)
  BY <1>1, <1>5 DEF Policy, rpcVars, tickVars, tabVars
<1>6. CASE ClaimCheck(w)
  BY <1>1, <1>6 DEF ClaimCheck, rpcVars, tickVars, tabVars
<1>7. CASE ClaimMark(w)
  BY <1>1, <1>7 DEF ClaimMark, rpcVars, tabVars
<1>8. CASE Begin(w)
  BY <1>1, <1>8 DEF Begin, tickVars, tabVars
<1>9. CASE GotSession(w)
  BY <1>1, <1>9 DEF GotSession, rpcVars, tickVars, tabVars
<1>10. CASE GotNone(w)
  BY <1>1, <1>10 DEF GotNone, rpcVars, tickVars, tabVars
<1>11. CASE GiveUp(w)
  BY <1>1, <1>11 DEF GiveUp, tickVars, tabVars
<1>12. CASE Insert(w)
  BY <1>1, <1>12 DEF Insert, rpcVars, tickVars
<1>13. CASE SetupSucceeds(w)
  BY <1>1, <1>13 DEF SetupSucceeds, rpcVars, tickVars, tabVars
<1>14. CASE SetupFails(w)
  BY <1>1, <1>14 DEF SetupFails, rpcVars, tickVars
<1>15. CASE Detach(w)
  BY <1>1, <1>15 DEF Detach, tickVars, tabVars
<1> QED
  BY <1>3, <1>4, <1>5, <1>6, <1>7, <1>8, <1>9, <1>10, <1>11, <1>12, <1>13, <1>14,
     <1>15 DEF WorkerStep

\* A step of the attach call, of stop(), of Frida or of a process that ends.
LEMMA OthersSolo ==
  ASSUME Types, LinkInv, NEW w \in Worker, Solo(w), OnItsWay(w), InHands(w), Others
  PROVE  OnItsWay(w)' /\ InHands(w)'
<1>1. /\ rpc \in [Worker -> Progress] /\ Pid(w) \in Proc
      /\ ticket \in [Proc -> Worker \cup {None}] /\ sessions \in [Proc -> Worker \cup {None}]
  BY PidIs DEF Types, RpcTypes, TickTypes, TabTypes
<1>2. /\ \A r \in Worker \ {w} : Pid(r) = Pid(w) => rpc[r] = "none" /\ r \notin hooked
      /\ \A p \in Proc : ticket[p] # None => Pid(ticket[p]) = p
  BY DEF LinkInv, Solo
<1> USE DEF procVars, workVars, rpcVars, tickVars, tabVars, stopVars
<1>3. ASSUME NEW p \in Proc, WatchCheck(p) \/ Die(p) PROVE OnItsWay(w)' /\ InHands(w)'
  BY <1>3, OthersStay DEF WatchCheck, Die
<1>9. ASSUME NEW p \in Proc, StopTicket(p) PROVE OnItsWay(w)' /\ InHands(w)'
  <2>1. CASE p # Pid(w)
    BY <1>9, <2>1, OthersStay DEF StopTicket
  <2>2. CASE p = Pid(w)
    <3>1. /\ UNCHANGED <<pc, waitOn, rpc, ticket, claimed, sessions, taken, stop>>
          /\ cancel \subseteq cancel' /\ live' \subseteq live
      BY <1>9 DEF StopTicket
    <3>2. OnItsWay(w)'
      BY <3>1 DEF OnItsWay, HasTicket
    <3>3. ~Owed(w)'
      BY <1>1, <1>9, <2>2, <3>1 DEF StopTicket, Owed, HasTicket, Returned
    <3>4. InHands(w)'
      BY <3>1, <3>3 DEF InHands, HasTicket
    <3> QED
      BY <3>2, <3>4
  <2> QED
    BY <2>1, <2>2
<1>4. CASE StopSet
  BY <1>4, OthersStay DEF StopSet
<1>10. CASE StopSnapshot
  <2>1. /\ UNCHANGED <<pc, waitOn, rpc, cancel, live, ticket, claimed, sessions, taken>>
        /\ HasTicket(w) => Pid(w) \in todo'
    BY <1>1, <1>10, NoneIsNone DEF StopSnapshot, HasTicket
  <2>2. OnItsWay(w)'
    BY <2>1 DEF OnItsWay, HasTicket
  <2>3. InHands(w)'
    BY <2>1 DEF InHands, HasTicket, Owed
  <2> QED
    BY <2>2, <2>3
<1>5. CASE StopSessions
  <2>1. sessions[Pid(w)] = w => w \in taken'
    BY <1>1, <1>5, NoneIsNone DEF StopSessions, InTable
  <2>2. stop = "tickets" /\ taken = {}
        /\ UNCHANGED <<pc, waitOn, rpc, cancel, live, ticket, claimed, todo>>
    BY <1>5 DEF StopSessions, LinkInv
  <2>3. OnItsWay(w)'
    BY <2>2 DEF OnItsWay, HasTicket
  <2>4. InHands(w)'
    BY <2>1, <2>2 DEF InHands, HasTicket, Owed
  <2> QED
    BY <2>3, <2>4
<1>11. ASSUME NEW r \in Worker, StopDetach(r) PROVE OnItsWay(w)' /\ InHands(w)'
  BY <1>11, OthersStay DEF StopDetach
<1>6. ASSUME NEW r \in Worker, OnDetached(r) PROVE OnItsWay(w)' /\ InHands(w)'
  <2>1. w \in live => Pid(r) # Pid(w)
    BY <1>2, <1>6 DEF OnDetached
  <2>2. w \in live => sessions'[Pid(w)] = sessions[Pid(w)]
    BY <1>1, <1>6, <2>1 DEF OnDetached
  <2> QED
    BY <1>6, <2>2, OthersStay DEF OnDetached
<1>7. ASSUME NEW r \in Worker, AttachCall(r), r # w PROVE OnItsWay(w)' /\ InHands(w)'
  <2>1. rpc'[w] = rpc[w] /\ (w \in live' => w \in live)
    BY <1>1, <1>7 DEF AttachCall, AttachSucceeds, AttachFails, Publish
  <2> QED
    BY <1>7, <2>1, OthersStay DEF AttachCall, AttachSucceeds, AttachFails, Publish
<1>8. ASSUME AttachCall(w) PROVE OnItsWay(w)' /\ InHands(w)'
  <2>1. UNCHANGED <<pc, waitOn, ticket, claimed, cancel, sessions, stopVars>>
    BY <1>8 DEF AttachCall, AttachSucceeds, AttachFails, Publish
  <2>2. /\ rpc[w] \in {"attaching", "tested"}
        /\ \/ rpc'[w] = "empty" /\ live' = live /\ rpc[w] = "attaching"
           \/ rpc'[w] = "tested" /\ rpc[w] = "attaching" /\ stop = "no"
           \/ rpc'[w] = "session" /\ rpc[w] = "tested"
    BY <1>1, <1>8 DEF AttachCall, AttachSucceeds, AttachFails, Publish
  <2>3. OnItsWay(w)'
    BY <2>1, <2>2 DEF OnItsWay, HasTicket
  <2>4. InHands(w)'
    BY <2>1, <2>2 DEF InHands, HasTicket, Owed
  <2> QED
    BY <2>3, <2>4
<1> QED
  BY <1>3, <1>4, <1>5, <1>6, <1>7, <1>8, <1>9, <1>10, <1>11 DEF Others

LEMMA SoloKeeps ==
  ASSUME Types, LinkInv, EnrolInv, SoloInv, Next
  PROVE  SoloInv'
<1> SUFFICES ASSUME NEW v \in Worker, Solo(v)'
             PROVE  OnItsWay(v)' /\ InHands(v)'
  BY DEF SoloInv
<1>1. CASE Others
  <2>1. pc' = pc
    BY <1>1, OthersMove DEF Others, workVars
  <2>2. Solo(v)
    BY <2>1 DEF Solo, Started
  <2> QED
    BY <1>1, <2>2, OthersSolo DEF SoloInv
<1>2. ASSUME NEW w \in Worker, WorkerStep(w) PROVE OnItsWay(v)' /\ InHands(v)'
  <2>1. /\ Started(w) /\ Started(w)'
        /\ \A u \in Worker \ {w} : pc'[u] = pc[u] /\ waitOn'[u] = waitOn[u]
        /\ UNCHANGED <<stop, todo, taken>>
    BY <1>2, WorkerMoves DEF Started, stopVars
  <2>2. Started(v) /\ Solo(v)
    BY <2>1, SoloStays DEF Solo, Started
  <2>3. CASE v = w
    BY <1>2, <2>2, <2>3, WorkerSolo DEF SoloInv
  <2>4. CASE v # w
    <3>1. Pid(v) # Pid(w) /\ Pid(v) \in Proc
      BY <2>1, <2>2, <2>4, PidIs DEF Solo
    <3>2. v # waitOn[w]
      BY <3>1, NoneIsNone DEF LinkInv
    <3>3. /\ \A u \in Worker \ {w} : rpc'[u] = rpc[u]
          /\ cancel \subseteq cancel' /\ live' \subseteq live
          /\ \A q \in Proc \ {Pid(w)} : ticket'[q] = ticket[q] /\ sessions'[q] = sessions[q]
          /\ claimed' = claimed \/ claimed' = claimed \cup {Pid(w)}
      BY <1>2, WorkerTouches
    <3> QED
      BY <2>1, <2>2, <2>4, <3>1, <3>3, OthersStay DEF SoloInv
  <2> QED
    BY <2>3, <2>4
<1>3. CASE Enrolment
  <2>1. CASE UNCHANGED <<pc, waitOn, rpcVars, tickVars, tabVars, stopVars>>
    <3>1. Solo(v)
      BY <2>1 DEF Solo, Started
    <3> QED
      BY <2>1, <3>1, OthersStay DEF SoloInv, rpcVars, tickVars, tabVars, stopVars
  <2>2. ASSUME NEW w \in Worker, ~Started(w), pc'[w] = "sync",
               \A u \in Worker \ {w} : pc'[u] = pc[u],
               UNCHANGED <<waitOn, rpcVars, tickVars, tabVars, stopVars>>
        PROVE  OnItsWay(v)' /\ InHands(v)'
    <3>1. CASE v # w
      <4>1. Started(v) /\ Solo(v)
        BY <2>2, <3>1, SoloStays DEF Solo, Started
      <4> QED
        BY <2>2, <3>1, <4>1, OthersStay DEF SoloInv, rpcVars, tickVars, tabVars, stopVars
    <3>2. CASE v = w
      <4>1. ticket[Pid(w)] = None /\ Pid(w) \notin claimed
        <5>1. \A u \in Worker : Pid(u) = Pid(w) => ~Started(u)
          BY <2>2, <3>2 DEF Solo, Started
        <5>2. Pid(w) \in Proc /\ ticket \in [Proc -> Worker \cup {None}]
          BY PidIs DEF Types, TickTypes
        <5> QED
          BY <5>1, <5>2 DEF LinkInv
      <4>2. rpc[w] = "none" /\ w \notin live
        BY <2>2 DEF LinkInv
      <4> QED
        BY <2>2, <3>2, <4>1, <4>2 DEF OnItsWay, InHands, HasTicket, Owed, rpcVars, tickVars, tabVars, stopVars
    <3> QED
      BY <3>1, <3>2
  <2> QED
    BY <1>3, <2>1, <2>2, EnrollIs DEF Enrolment
<1> QED
  BY <1>1, <1>2, <1>3, NextIs

-----------------------------------------------------------------------------
(* The limit. *)

LEMMA PendingKeeps ==
  ASSUME Types, LinkInv, EnrolInv, PendInv, Next
  PROVE  PendInv'
<1> SUFFICES ASSUME NEW v \in Worker, Solo(v)', pc'[v] # "done", Pid(v) # Root
             PROVE  Pid(v) \in pending'
  BY DEF PendInv
<1>1. CASE Others
  <2>1. pc' = pc /\ pending' = pending
    BY <1>1, OthersMove DEF Others, workVars
  <2> QED
    BY <2>1 DEF PendInv, Solo, Started
<1>2. ASSUME NEW w \in Worker, WorkerStep(w) PROVE Pid(v) \in pending'
  <2>1. /\ Started(w) /\ Started(w)'
        /\ \A u \in Worker \ {w} : pc'[u] = pc[u]
        /\ pending' = pending \/ (pc'[w] = "done" /\ pending' = pending \ {Pid(w)})
    BY <1>2, WorkerMoves DEF Started
  <2>2. Solo(v)
    BY <2>1, SoloStays DEF Solo, Started
  <2>3. pc[w] # "done"
    BY <1>2 DEF WorkerStep, Lost, Sync, Policy, ClaimCheck, ClaimMark, Begin, GotSession,
         GotNone, GiveUp, Insert, SetupSucceeds, SetupFails, Detach
  <2>4. v # w => Pid(v) # Pid(w)
    BY <2>1, <2>2 DEF Solo
  <2> QED
    BY <2>1, <2>2, <2>3, <2>4 DEF PendInv
<1>3. CASE Enrolment
  <2>1. CASE pc' = pc /\ pending' = pending
    BY <2>1 DEF PendInv, Solo, Started
  <2>2. ASSUME NEW w \in Worker, ~Started(w), pc'[w] = "sync",
               \A u \in Worker \ {w} : pc'[u] = pc[u], pending' = pending \cup {Pid(w)}
        PROVE  Pid(v) \in pending'
    <3>1. v # w => Started(v) /\ Solo(v)
      BY <2>2, SoloStays DEF Solo, Started
    <3> QED
      BY <2>2, <3>1 DEF PendInv
  <2> QED
    BY <1>3, <2>1, <2>2, EnrollIs DEF Enrolment
<1> QED
  BY <1>1, <1>2, <1>3, NextIs

LEMMA Counted ==
  ASSUME NEW T, NEW P, NEW p, NEW N, IsFiniteSet(T), IsFiniteSet(P)
  PROVE  LET U == (T \cup (P \cup {p})) \ N
         IN  Cardinality(U) \in Nat /\ Cardinality(U) <= Cardinality(T) + Cardinality(P) + 1
<1> DEFINE Q == P \cup {p}
           W == T \cup Q
<1>1. /\ Cardinality(T) \in Nat /\ Cardinality(P) \in Nat
      /\ IsFiniteSet(Q) /\ Cardinality(Q) <= Cardinality(P) + 1
  BY FS_CardinalityType, FS_AddElement
<1>2. IsFiniteSet(T \cap Q) /\ Cardinality(T \cap Q) \in Nat /\ Cardinality(Q) \in Nat
  BY <1>1, FS_Subset, FS_CardinalityType
<1>3. IsFiniteSet(W) /\ Cardinality(W) = Cardinality(T) + Cardinality(Q) - Cardinality(T \cap Q)
  BY <1>1, FS_Union
<1>4. Cardinality(W) <= Cardinality(T) + Cardinality(P) + 1 /\ Cardinality(W) \in Nat
  BY <1>1, <1>2, <1>3, FS_CardinalityType
<1>5. W \ N \in SUBSET W
  OBVIOUS
<1>6. Cardinality(W \ N) \in Nat /\ Cardinality(W \ N) <= Cardinality(W)
  BY <1>3, <1>5, FS_Subset, FS_CardinalityType
<1> QED
  BY <1>1, <1>4, <1>6

LEMMA LimitKeeps ==
  ASSUME Types, LinkInv, EnrolInv, PendInv, LimitInv, Next
  PROVE  LimitInv'
<1>1. IsFiniteSet(InTable) /\ IsFiniteSet(pending) /\ IsFiniteSet(Used)
  <2>1. IsFiniteSet(InTable \cup pending) /\ Used \in SUBSET (InTable \cup pending)
    BY FS_Union DEF LimitInv, Used
  <2> QED
    BY <2>1, FS_Subset DEF LimitInv
<1>2. ASSUME \A u \in Worker : Started(u) => Started(u)', NEW p \in Proc, Twice(p)
      PROVE  Twice(p)'
  BY <1>2 DEF Twice, Started
<1>3. ASSUME Used' \subseteq Used PROVE UsedLimit'
  <2>1. /\ Cardinality(Used') <= Cardinality(Used)
        /\ Cardinality(Used') \in Nat /\ Cardinality(Used) \in Nat
    BY <1>1, <1>3, FS_Subset, FS_CardinalityType
  <2> QED
    BY <2>1, FridaConstants DEF LimitInv, UsedLimit
<1>4. CASE Others
  <2>1. /\ pc' = pc /\ pending' = pending
        /\ \A p \in Proc : sessions'[p] \in {sessions[p], None}
    BY <1>4, OthersMove DEF Others, workVars
  <2>2. InTable' \in SUBSET InTable
    BY <2>1 DEF InTable
  <2>3. \A p \in Proc : Twice(p) => Twice(p)'
    BY <1>2, <2>1 DEF Started
  <2>4. UsedLimit'
    BY <1>3, <2>1, <2>2, <2>3 DEF Used
  <2> QED
    BY <1>1, <2>1, <2>2, <2>4, FS_Subset DEF LimitInv
<1>5. ASSUME NEW w \in Worker, WorkerStep(w) PROVE LimitInv'
  <2>1. /\ Started(w) /\ Pid(w) \in Proc
        /\ \A u \in Worker : Started(u) => Started(u)'
        /\ pending' \in SUBSET pending
    BY <1>5, WorkerMoves, PidIs DEF Started
  <2>2. InTable' \in SUBSET (InTable \cup {Pid(w)})
    BY <1>5, WorkerTouches DEF InTable
  <2>3. IsFiniteSet(InTable') /\ IsFiniteSet(pending')
    BY <1>1, <2>1, <2>2, FS_AddElement, FS_Subset
  <2>4. \A p \in Proc : Twice(p) => Twice(p)'
    BY <1>2, <2>1
  <2>5. CASE Twice(Pid(w))
    BY <1>3, <2>1, <2>2, <2>3, <2>4, <2>5 DEF LimitInv, Used
  <2>6. CASE Insert(w) /\ ~Twice(Pid(w))
    <3>1. Solo(w)
      BY <2>1, <2>6 DEF Solo, Twice, Started
    <3>2. Pid(w) \in pending \cup {Root} /\ pending' = pending
      BY <2>6, <3>1 DEF PendInv, Insert, procVars
    <3>3. Used' \subseteq Used
      BY <2>2, <2>4, <3>2 DEF Used
    <3> QED
      BY <1>3, <2>3, <3>3 DEF LimitInv
  <2>7. CASE ~Insert(w)
    <3>1. sessions' = sessions \/ sessions' = [sessions EXCEPT ![Pid(w)] = None]
      BY <1>5, <2>7 DEF WorkerStep, Lost, Sync, Policy, ClaimCheck, ClaimMark, Begin,
           GotSession, GotNone, GiveUp, SetupSucceeds, SetupFails, Detach, tabVars
    <3>2. \A p \in Proc : sessions'[p] # None => sessions[p] # None
      BY <2>1, <3>1 DEF Types, TabTypes
    <3>3. Used' \subseteq Used
      BY <2>1, <2>4, <3>2 DEF Used, InTable
    <3> QED
      BY <1>3, <2>3, <3>3 DEF LimitInv
  <2> QED
    BY <2>5, <2>6, <2>7
<1>6. CASE Enrolment
  <2>1. CASE UNCHANGED <<pc, pending, tabVars>>
    BY <2>1 DEF LimitInv, UsedLimit, Used, Twice, InTable, tabVars
  <2>2. ASSUME NEW w \in Worker, Room, pending' = pending \cup {Pid(w)}, UNCHANGED tabVars
        PROVE  LimitInv'
    <3>1. InTable' = InTable
      BY <2>2 DEF InTable, tabVars
    <3>2. IsFiniteSet(pending')
      BY <1>1, <2>2, FS_AddElement
    <3> DEFINE Exempt == {Root} \cup {p \in Proc : Twice(p)'}
    <3>3. Used' = (InTable \cup (pending \cup {Pid(w)})) \ Exempt
      BY <2>2, <3>1 DEF Used
    <3>4. /\ Cardinality(Used') \in Nat
          /\ Cardinality(Used') <= Cardinality(InTable) + Cardinality(pending) + 1
      <4> HIDE DEF Exempt
      <4> QED
        BY <1>1, <3>3, Counted
    <3>5. Cardinality(InTable) \in Nat /\ Cardinality(pending) \in Nat
      BY <1>1, FS_CardinalityType
    <3>6. UsedLimit'
      BY <2>2, <3>4, <3>5, FridaConstants DEF Room, UsedLimit
    <3> QED
      BY <1>1, <3>1, <3>2, <3>6 DEF LimitInv
  <2> QED
    BY <1>6, <2>1, <2>2, EnrollIs DEF Enrolment
<1> QED
  BY <1>4, <1>5, <1>6, NextIs

-----------------------------------------------------------------------------

LEMMA InvHolds == Spec => []Inv
<1>1. Init => Inv
  <2> SUFFICES ASSUME Init PROVE Inv
    OBVIOUS
  <2>1. Types
    <3>1. ProcTypes /\ TabTypes /\ StopTypes /\ TickTypes
      BY DEF Init, ProcTypes, TabTypes, StopTypes, TickTypes, Proc
    <3>2. WorkTypes /\ RpcTypes
      BY FridaConstants DEF Init, WorkTypes, RpcTypes, Place, Progress
    <3> QED
      BY <3>1, <3>2 DEF Types
  <2>2. \A w \in Worker : Started(w) => Pid(w) = Root /\ pc[w] = "sync"
    BY RootIs DEF Init, Started
  <2>3. LinkInv
    BY <2>2 DEF Init, LinkInv, Started
  <2>4. EnrolInv
    BY <2>2, PidIs, NoneIsNone DEF Init, EnrolInv
  <2>5. SoloInv
    BY <2>2, PidIs DEF Init, SoloInv, Solo, OnItsWay, InHands, HasTicket
  <2>6. PendInv
    BY <2>2 DEF PendInv, Solo
  <2>7. LimitInv
    <3>1. InTable = {} /\ pending = {} /\ Used = {}
      BY DEF Init, InTable, Used
    <3> QED
      BY <3>1, FS_EmptySet, FridaConstants DEF LimitInv, UsedLimit
  <2> QED
    BY <2>1, <2>3, <2>4, <2>5, <2>6, <2>7 DEF Inv
<1>2. Inv /\ [Next]_vars => Inv'
  <2>1. CASE Next
    BY <2>1, LinksKeep, SoloKeeps, PendingKeeps, LimitKeeps DEF Inv
  <2>2. ASSUME Inv, UNCHANGED vars PROVE Inv'
    <3> USE DEF vars, procVars, workVars, rpcVars, tickVars, tabVars, stopVars
    <3>1. Types' /\ LinkInv' /\ EnrolInv'
      BY <2>2 DEF Inv, Types, ProcTypes, WorkTypes, RpcTypes, TickTypes, TabTypes, StopTypes,
           LinkInv, EnrolInv, Started
    <3>2. SoloInv' /\ PendInv'
      BY <2>2 DEF Inv, SoloInv, PendInv, Solo, Started, OnItsWay, InHands, HasTicket, Owed
    <3>3. LimitInv'
      BY <2>2 DEF Inv, LimitInv, UsedLimit, Used, Twice, InTable
    <3> QED
      BY <3>1, <3>2, <3>3 DEF Inv
  <2> QED
    BY <2>1, <2>2
<1> QED
  BY <1>1, <1>2, PTL DEF Spec

\* The tables, the tickets and the workers' locals keep their types; no worker
\* attaches more often than attach_retries, the claimed early attach included.
THEOREM TypeCorrect == Spec => []TypeOK
<1>1. Inv => TypeOK
  BY DEF Inv, Types, ProcTypes, WorkTypes, RpcTypes, TickTypes, TabTypes, StopTypes, Place,
         Progress, TypeOK
<1> QED
  BY <1>1, InvHolds, PTL

\* Whatever is enrolled by both threads, the processes besides the root that were
\* enrolled once never are more than max_sessions: one that was enrolled twice may
\* exceed the limit itself, and takes nobody else over it.
THEOREM OnlyTwiceExceeds == Spec => []UsedLimit
<1>1. Inv => UsedLimit
  BY DEF Inv, LimitInv
<1> QED
  BY <1>1, InvHolds, PTL

\* Not more than max_sessions processes besides the root are attached or about to
\* be, for any number of processes - unless one was enrolled by two threads.
THEOREM SessionsAreLimited == Spec => []SessionLimit
<1>1. UsedLimit => SessionLimit
  <2> SUFFICES ASSUME UsedLimit, \A p \in Proc : ~Twice(p) PROVE SessionLimit
    BY DEF SessionLimit
  <2>1. Used = (InTable \cup pending) \ {Root}
    BY DEF Used
  <2> QED
    BY <2>1 DEF UsedLimit, SessionLimit
<1> QED
  BY <1>1, OnlyTwiceExceeds, PTL

\* A session that nobody cancelled, of a process with one worker, is never lost
\* between the attach call, the ticket, the worker, the table and stop(), whatever
\* Frida's callback and the end of the process do meanwhile - unless its worker puts it
\* into the table that stop() has emptied.
THEOREM SessionsAreAccounted == Spec => []SessionAccounted
<1>1. Inv => SessionAccounted
  <2> SUFFICES ASSUME Inv, NEW r \in Worker, r \in live, r \notin cancel, ~Twice(Pid(r)),
                      rpc[r] \in Returned, HasTicket(r) => stop = "done",
                      sessions[Pid(r)] # r, r \notin taken
               PROVE  waitOn[r] = r /\ pc[r] \in {"wait", "attached", "setup", "leaving"}
    BY DEF SessionAccounted, HasTicket
  <2>1. Solo(r)
    BY TwiceIs DEF Inv, LinkInv
  <2>2. OnItsWay(r) /\ InHands(r)
    BY <2>1 DEF Inv, SoloInv
  <2> QED
    BY <2>2 DEF Inv, LinkInv, OnItsWay, InHands, Owed, Returned
<1> QED
  BY <1>1, InvHolds, PTL

=============================================================================
