------------------------- MODULE AnalyzerCore_proofs -------------------------
(***************************************************************************)
(* Theorems about AnalyzerCore, for any set of processes and services.     *)
(* The loop looks at the list and at the age of the last injection, and    *)
(* at neither of them atomically with the handlers.  The inductive         *)
(* invariant Inv therefore says where a process with the monitor in it is  *)
(* accounted for at every moment between its injection and its LOADED.     *)
(***************************************************************************)
EXTENDS AnalyzerCore, TLAPS

\* The type invariant by what it speaks of.
ProcTypes ==
  /\ life \in [Pid -> {"unborn", "alive", "dead"}]
  /\ loaded \in SUBSET Pid
  /\ injected \in [Pid -> 0..MaxInject]
CallTypes == call \in [Pid -> AllCalls \cup {Idle}]
LockType == lock \in Pid \cup {Free}
ListTypes == pids \in SUBSET Pid /\ leaving \in SUBSET Pid /\ injectList \in SUBSET Pid
HostTypes == monitored \in SUBSET Host /\ critical \in SUBSET Pid
TimeTypes ==
  /\ since \in {"never", "recent", "old"} /\ emptyFor \in {"no", "recent", "old"}
  /\ over \in {"no", "timeout", "stopped"}
LoopTypes ==
  /\ timedOut \in BOOLEAN
  /\ loop \in {"top", "test", "scan", "judge", "check", "stop", "wait", "done"}
  /\ ended \in {"no", "timeout", "empty", "package", "stopped"}
  /\ visited \in SUBSET Pid /\ current \in Pid
Types ==
  ProcTypes /\ CallTypes /\ LockType /\ ListTypes /\ HostTypes /\ TimeTypes /\ LoopTypes

\* Only a process with the monitor in it has a command handled; LOADED goes through
\* the lock, a handler in its critical section has the lock, and flags are of services.
OfService(e) ==
  /\ e.cmd = "SERVICE" => e.arg \in Host /\ e.then \in Host
  /\ e.at = "mark" => e.cmd = "SERVICE"
CallInv ==
  \A p \in Pid : call[p] # Idle =>
    /\ p \in loaded
    /\ call[p].cmd = "LOADED" => call[p].at \in {"acquire", "locked"}
    /\ call[p].at = "locked" => lock = p
    /\ OfService(call[p])

\* Nobody injects a process that does not exist yet.
BornInv == \A c \in Pid : life[c] = "unborn" => injected[c] = 0 /\ c \notin loaded

\* The shutdown phase begins when a reason is noted.
LoopInv == ended = "no" => loop \notin {"stop", "wait", "done"}

Listed(p) == p \in pids \cup leaving

\* A process that can talk is on the list, was taken off it, or is just saying LOADED,
\* unless there are handlers that fail to read it.
LoadedIsKnown(p) ==
  "LOADED" \notin Raising =>
    (Alive(p) /\ p \in loaded => Listed(p) \/ (call[p] # Idle /\ call[p].cmd = "LOADED"))

\* A process that was injected is on the list, was taken off it, has its grace of 15
\* seconds, or is that of a handler which is about to grant it.
InjectedIsKnown(c) ==
  Alive(c) /\ injected[c] > 0 =>
    Listed(c) \/ since = "recent" \/ \E p \in Pid : At(p, "stamp") /\ DealsWith(p, c)

TrackInv == ended = "no" => \A p \in Pid : LoadedIsKnown(p) /\ InjectedIsKnown(p)

Inv == Types /\ CallInv /\ BornInv /\ LoopInv /\ TrackInv

-----------------------------------------------------------------------------
(* What a handler's record becomes. *)

LEMMA IdleIsNoCall == Idle \notin AllCalls
  BY DEF Idle, AllCalls, Command

LEMMA CallIs ==
  ASSUME NEW cmd \in Command, NEW c \in Pid, NEW place \in Place
  PROVE  /\ Call(cmd, c, place) \in AllCalls
         /\ Call(cmd, c, place).cmd = cmd /\ Call(cmd, c, place).arg = c
         /\ Call(cmd, c, place).at = place /\ Call(cmd, c, place).then = c
  BY DEF Call, AllCalls

LEMMA CallTyped ==
  ASSUME CallTypes, NEW p \in Pid, call[p] # Idle
  PROVE  /\ call[p] \in AllCalls /\ call[p].cmd \in Command /\ call[p].at \in Place
         /\ call[p].arg \in Pid /\ call[p].then \in Pid
  BY DEF CallTypes, AllCalls

LEMMA GotoIs ==
  ASSUME CallTypes, NEW p \in Pid, call[p] # Idle, NEW place \in Place, Goto(p, place)
  PROVE  \E e \in AllCalls : /\ call' = [call EXCEPT ![p] = e]
                             /\ e.cmd = call[p].cmd /\ e.arg = call[p].arg /\ e.at = place
                             /\ e.then = call[p].then
<1>1. call[p] \in AllCalls
  BY CallTyped
<1> DEFINE e == [call[p] EXCEPT !.at = place]
<1>2. e \in AllCalls /\ e.cmd = call[p].cmd /\ e.arg = call[p].arg /\ e.at = place
                       /\ e.then = call[p].then
  BY <1>1 DEF AllCalls
<1>3. call' = [call EXCEPT ![p] = e]
  BY DEF Goto
<1> QED
  BY <1>2, <1>3

LEMMA ContinueIs ==
  ASSUME CallTypes, NEW p \in Pid, call[p] # Idle, Continue(p)
  PROVE  \E e \in AllCalls \cup {Idle} :
           /\ call' = [call EXCEPT ![p] = e]
           /\ e # Idle => /\ e.cmd = call[p].cmd /\ e.at = "inject"
                          /\ e.arg = call[p].then /\ e.then = call[p].then
<1>1. call[p].cmd \in Command /\ call[p].then \in Pid /\ "inject" \in Place
  BY CallTyped DEF Place
<1>2. CASE First(p)
  <2>1. call' = [call EXCEPT ![p] = Call(call[p].cmd, call[p].then, "inject")]
    BY <1>2 DEF Continue
  <2> DEFINE e == Call(call[p].cmd, call[p].then, "inject")
  <2>2. e \in AllCalls /\ e.cmd = call[p].cmd /\ e.at = "inject"
        /\ e.arg = call[p].then /\ e.then = call[p].then
    BY <1>1, CallIs
  <2>3. call' = [call EXCEPT ![p] = e]
    BY <2>1
  <2> HIDE DEF e
  <2> QED
    BY <2>2, <2>3
<1>3. CASE ~First(p)
  BY <1>3 DEF Continue
<1> QED
  BY <1>2, <1>3

LEMMA Frame ==
  ASSUME CallTypes, NEW p \in Pid, NEW e \in AllCalls \cup {Idle}, call' = [call EXCEPT ![p] = e]
  PROVE  CallTypes' /\ call'[p] = e /\ \A q \in Pid \ {p} : call'[q] = call[q]
  BY DEF CallTypes

-----------------------------------------------------------------------------
(* The environment. *)

\* A process that is not waiting for an answer sends a command.
LEMMA AskKeeps ==
  ASSUME Inv, NEW p \in Pid, NEW c \in Pid, NEW cmd \in Command,
         NEW place \in {"check", "acquire", "inject"}, cmd = "LOADED" => place = "acquire",
         cmd = "SERVICE" => c \in Host,
         call[p] = Idle, call' = [call EXCEPT ![p] = Call(cmd, c, place)],
         p \in loaded', ProcTypes', TimeTypes', BornInv',
         loaded' = loaded \/ (loaded' = loaded \cup {p} /\ cmd = "LOADED"),
         \A q \in Pid : Alive(q)' => Alive(q) \/ (injected[q] = 0 /\ q \notin loaded'),
         since' = since \/ since' = "recent",
         UNCHANGED <<injected, lock, listVars, hostVars, loopVars>>
  PROVE  Inv'
<1> DEFINE e == Call(cmd, c, place)
<1>1. e \in AllCalls /\ e # Idle /\ e.cmd = cmd /\ e.arg = c /\ e.at = place /\ e.then = c
  BY CallIs, IdleIsNoCall DEF Place
<1>2. call' = [call EXCEPT ![p] = e]
  OBVIOUS
<1> HIDE DEF e
<1>3. CallTypes' /\ call'[p] = e /\ \A q \in Pid \ {p} : call'[q] = call[q]
  BY <1>1, <1>2, Frame DEF Inv, Types
<1>4. Types'
  BY <1>3 DEF Inv, Types, LockType, ListTypes, HostTypes, LoopTypes, listVars, hostVars, loopVars
<1>5. CallInv'
  BY <1>1, <1>3 DEF Inv, CallInv, OfService
<1>6. LoopInv'
  BY DEF Inv, LoopInv, loopVars
<1>7. TrackInv'
  <2> SUFFICES ASSUME ended = "no", NEW q \in Pid
               PROVE  LoadedIsKnown(q)' /\ InjectedIsKnown(q)'
    BY DEF TrackInv, loopVars
  <2>1. LoadedIsKnown(q) /\ InjectedIsKnown(q)
    BY DEF Inv, TrackInv
  <2>2. Listed(q)' <=> Listed(q)
    BY DEF Listed, listVars
  <2>3. LoadedIsKnown(q)'
    BY <1>1, <1>3, <2>1, <2>2 DEF LoadedIsKnown
  <2>4. \A r \in Pid : At(r, "stamp") /\ DealsWith(r, q) => (At(r, "stamp") /\ DealsWith(r, q))'
    BY <1>3 DEF At, DealsWith
  <2>5. InjectedIsKnown(q)'
    BY <2>1, <2>2, <2>4 DEF InjectedIsKnown, Inv, Types, ProcTypes
  <2> QED
    BY <2>3, <2>5
<1> QED
  BY <1>4, <1>5, <1>6, <1>7 DEF Inv

LEMMA EnvironmentKeeps ==
  ASSUME Inv, Environment
  PROVE  Inv'
<1> USE DEF ProcTypes, Alive
<1>1. ProcTypes /\ TimeTypes /\ BornInv
  BY DEF Inv, Types
<1>2. ASSUME NEW p \in Pid, NEW c \in Pid, Spawn(p, c) PROVE Inv'
  <2>1. ProcTypes' /\ BornInv' /\ \A q \in Pid : Alive(q)' => Alive(q) \/ (injected[q] = 0 /\ q \notin loaded')
    BY <1>1, <1>2 DEF Spawn, BornInv
  <2> QED
    BY <1>1, <1>2, <2>1, AskKeeps DEF Spawn, CanSend, Command, TimeTypes, timeVars
<1>3. ASSUME NEW p \in Pid, NEW c \in Pid, NEW cmd \in {"PROCESS", "PROCESS2"},
             NEW place \in {"check", "acquire"}, CanSend(p), UNCHANGED procVars, TimeTypes',
             since' = since \/ since' = "recent",
             call' = [call EXCEPT ![p] = Call(cmd, c, place)],
             UNCHANGED <<lock, listVars, hostVars, loopVars>>
      PROVE  Inv'
  BY <1>1, <1>3, AskKeeps DEF CanSend, Command, BornInv, procVars
<1>4. ASSUME NEW p \in Pid, NEW c \in Pid,
             Announce(p, c, "PROCESS") \/ Announce(p, c, "PROCESS2") \/ Resume(p, c)
      PROVE  Inv'
  BY <1>1, <1>3, <1>4 DEF Announce, Resume, TimeTypes, timeVars
<1>5. ASSUME NEW p \in Pid, NEW c \in Pid, SendKill(p, c) PROVE Inv'
  BY <1>1, <1>5, AskKeeps DEF SendKill, CanSend, Command, BornInv, procVars, TimeTypes, timeVars
<1>6. ASSUME NEW p \in Pid, NEW c \in Pid, Request(p, c) PROVE Inv'
  <2>1. PICK cmd \in {"SERVICE", "SHELL"}, place \in {"check", "inject"} :
          call' = [call EXCEPT ![p] = Call(cmd, c, place)]
    BY <1>6 DEF Request
  <2> QED
    BY <1>1, <1>6, <2>1, AskKeeps
       DEF Request, CanSend, Command, BornInv, procVars, TimeTypes, timeVars
<1>7. ASSUME NEW p \in Pid, SendShutdown(p) PROVE Inv'
  BY <1>1, <1>7, AskKeeps
     DEF SendShutdown, CanSend, Command, BornInv, procVars, TimeTypes, timeVars
<1>8. ASSUME NEW p \in Pid, Load(p) PROVE Inv'
  <2>1. call[p] = Idle
    BY <1>8 DEF Load, Inv, CallInv
  <2>2. ProcTypes' /\ BornInv'
    BY <1>1, <1>8 DEF Load, BornInv
  <2>3. TimeTypes'
    BY <1>1, <1>8 DEF Load, TimeTypes, timeVars
  <2>4. call' = [call EXCEPT ![p] = Call("LOADED", p, "acquire")] /\ loaded' = loaded \cup {p}
    BY <1>8 DEF Load
  <2> QED
    BY <1>1, <1>8, <2>1, <2>2, <2>3, <2>4, AskKeeps DEF Load, Command, timeVars
<1>9. ASSUME UNCHANGED <<loaded, injected, call, lock, listVars, hostVars, loopVars>>,
             ProcTypes', TimeTypes',
             \A q \in Pid : life'[q] # life[q] => life'[q] = "dead",
             since = "recent" /\ since' # "recent" =>
               \A c \in Pid : Alive(c) /\ injected[c] > 0 => Listed(c)
      PROVE  Inv'
  <2>1. Types'
    BY <1>9 DEF Inv, Types, CallTypes, LockType, ListTypes, HostTypes, LoopTypes,
                listVars, hostVars, loopVars
  <2>2. CallInv' /\ LoopInv'
    BY <1>9 DEF Inv, CallInv, LoopInv, loopVars
  <2>3. BornInv'
    BY <1>9 DEF Inv, BornInv
  <2>4. TrackInv'
    <3> SUFFICES ASSUME ended = "no", NEW q \in Pid
                 PROVE  LoadedIsKnown(q)' /\ InjectedIsKnown(q)'
      BY <1>9 DEF TrackInv, loopVars
    <3>1. LoadedIsKnown(q) /\ InjectedIsKnown(q)
      BY DEF Inv, TrackInv
    <3>2. (Alive(q)' => Alive(q)) /\ (Listed(q)' <=> Listed(q))
      BY <1>9 DEF Listed, listVars
    <3>3. LoadedIsKnown(q)'
      BY <1>9, <3>1, <3>2 DEF LoadedIsKnown
    <3>4. InjectedIsKnown(q)'
      BY <1>9, <3>1, <3>2 DEF InjectedIsKnown, At, DealsWith
    <3> QED
      BY <3>3, <3>4
  <2> QED
    BY <2>1, <2>2, <2>3, <2>4 DEF Inv
<1>10. ASSUME NEW p \in Pid, Reboot(p) PROVE Inv'
  BY <1>1, <1>9, <1>10 DEF Reboot, procVars, TimeTypes
<1>11. ASSUME NEW p \in Pid, Exit(p) PROVE Inv'
  BY <1>1, <1>9, <1>11 DEF Exit, TimeTypes, timeVars
<1>12. CASE Age
  BY <1>1, <1>9, <1>12 DEF Age, procVars, TimeTypes, Listed
<1>13. CASE AgeEmpty \/ Expire
  BY <1>1, <1>9, <1>13 DEF AgeEmpty, Expire, procVars, TimeTypes
<1> QED
  BY <1>2, <1>4, <1>5, <1>6, <1>7, <1>8, <1>10, <1>11, <1>12, <1>13 DEF Environment

-----------------------------------------------------------------------------
(* The handlers. *)

\* A handler goes on, or answers.  It may not leave "stamp" without having granted
\* the grace, nor a LOADED without having listed the process.
LEMMA HandlerStep ==
  ASSUME Inv, NEW p \in Pid, call[p] # Idle, NEW e \in AllCalls \cup {Idle},
         call' = [call EXCEPT ![p] = e],
         UNCHANGED <<life, loaded, loopVars>>,
         injected' \in [Pid -> 0..MaxInject],
         LockType', ListTypes', HostTypes', TimeTypes',
         e # Idle => /\ e.cmd = "LOADED" => e.at \in {"acquire", "locked"}
                     /\ e.at = "locked" => lock' = p
                     /\ OfService(e),
         \A q \in Pid \ {p} : At(q, "locked") => lock' = q,
         \A c \in Pid : injected'[c] > 0 =>
           injected[c] > 0 \/ (Alive(c) /\ e # Idle /\ e.at = "stamp" /\ e.arg = c),
         call[p].cmd = "LOADED" /\ "LOADED" \notin Raising =>
           (e # Idle /\ e.cmd = "LOADED") \/ Listed(p)',
         call[p].at = "stamp" => since' = "recent",
         \A c \in Pid : Listed(c) => Listed(c)',
         since = "recent" => since' = "recent"
  PROVE  Inv'
<1>1. CallTypes' /\ call'[p] = e /\ \A q \in Pid \ {p} : call'[q] = call[q]
  BY Frame DEF Inv, Types
<1>2. Types'
  BY <1>1 DEF Inv, Types, ProcTypes, LoopTypes, loopVars
<1>3. CallInv'
  BY <1>1 DEF Inv, CallInv, At
<1>4. LoopInv'
  BY DEF Inv, LoopInv, loopVars
<1>5. BornInv'
  <2> SUFFICES ASSUME NEW c \in Pid, life[c] = "unborn"
               PROVE  injected'[c] = 0 /\ c \notin loaded
    BY DEF BornInv
  <2>1. injected[c] = 0 /\ c \notin loaded /\ ~Alive(c)
    BY DEF Inv, BornInv, Alive
  <2>2. ~(injected'[c] > 0) /\ injected'[c] \in Nat
    BY <2>1
  <2> QED
    BY <2>1, <2>2
<1>6. TrackInv'
  <2> SUFFICES ASSUME ended = "no", NEW q \in Pid
               PROVE  LoadedIsKnown(q)' /\ InjectedIsKnown(q)'
    BY DEF TrackInv, loopVars
  <2>1. LoadedIsKnown(q) /\ InjectedIsKnown(q) /\ (Alive(q)' <=> Alive(q))
    BY DEF Inv, TrackInv, Alive
  <2>2. LoadedIsKnown(q)'
    BY <1>1, <2>1 DEF LoadedIsKnown
  <2>3. ASSUME NEW r \in Pid, At(r, "stamp"), DealsWith(r, q)
        PROVE  since' = "recent" \/ (At(r, "stamp") /\ DealsWith(r, q))'
    BY <1>1, <2>3 DEF At, DealsWith
  <2>4. InjectedIsKnown(q)'
    <3>1. CASE injected[q] > 0
      BY <2>1, <2>3, <3>1 DEF InjectedIsKnown
    <3>2. CASE ~(injected[q] > 0)
      <4>1. injected'[q] > 0 => (At(p, "stamp") /\ DealsWith(p, q))'
        BY <1>1, <3>2 DEF At, DealsWith
      <4> QED
        BY <4>1 DEF InjectedIsKnown
    <3> QED
      BY <3>1, <3>2
  <2> QED
    BY <2>2, <2>4
<1> QED
  BY <1>2, <1>3, <1>4, <1>5, <1>6 DEF Inv

LEMMA HandlerKeeps ==
  ASSUME Inv, NEW p \in Pid, Handler(p)
  PROVE  Inv'
<1> USE DEF At, Handling
<1>1. call[p] # Idle
  BY DEF Handler, Check, TestFlag, Mark, NoProcess, Inject, Stamp, Acquire, Loaded, InjectProcess,
         Kill, Shutdown
<1>2. /\ CallTypes /\ LockType /\ ListTypes /\ HostTypes /\ TimeTypes
      /\ injected \in [Pid -> 0..MaxInject]
  BY DEF Inv, Types, ProcTypes
<1>3. /\ call[p].cmd \in Command /\ call[p].arg \in Pid
      /\ call[p].cmd = "LOADED" => call[p].at \in {"acquire", "locked"}
      /\ \A q \in Pid : At(q, "locked") => lock = q
      /\ OfService(call[p])
  BY <1>1, <1>2, CallTyped DEF Inv, CallInv
<1>4. ASSUME UNCHANGED <<life, loaded, loopVars, injected, lock, pids, leaving>>,
             injectList' \in SUBSET Pid, HostTypes', TimeTypes',
             since' = since \/ since' = "recent", call[p].at = "stamp" => since' = "recent",
             call[p].at \notin {"acquire", "locked"},
             \/ Answer(p) \/ Continue(p)
             \/ \E place \in {"inject", "mark"} :
                  Goto(p, place) /\ (place = "mark" => call[p].cmd = "SERVICE")
      PROVE  Inv'
  <2>1. PICK e \in AllCalls \cup {Idle} :
               /\ call' = [call EXCEPT ![p] = e]
               /\ e # Idle => /\ e.cmd = call[p].cmd /\ e.at \in {"inject", "mark"}
                              /\ OfService(e)
    <3>1. CASE Answer(p)
      BY <3>1 DEF Answer
    <3>2. CASE Continue(p)
      BY <1>1, <1>2, <1>3, <3>2, ContinueIs DEF OfService
    <3>3. CASE \E place \in {"inject", "mark"} :
                 Goto(p, place) /\ (place = "mark" => call[p].cmd = "SERVICE")
      BY <1>1, <1>2, <1>3, <1>4, <3>3, GotoIs DEF Place, OfService
    <3> QED
      BY <1>4, <3>1, <3>2, <3>3
  <2>2. LockType' /\ ListTypes' /\ \A c \in Pid : Listed(c)' <=> Listed(c)
    BY <1>2, <1>4 DEF LockType, ListTypes, Listed
  <2> QED
    BY <1>1, <1>2, <1>3, <1>4, <2>1, <2>2, HandlerStep
<1>5. CASE Check(p)
  BY <1>2, <1>3, <1>4, <1>5
     DEF Check, procVars, hostVars, timeVars, HostTypes, TimeTypes, ListTypes
<1>6. CASE TestFlag(p)
  BY <1>2, <1>3, <1>4, <1>6
     DEF TestFlag, procVars, listVars, hostVars, timeVars, HostTypes, TimeTypes, ListTypes
<1>7. CASE NoProcess(p)
  BY <1>2, <1>3, <1>4, <1>7
     DEF NoProcess, procVars, listVars, hostVars, timeVars, HostTypes, TimeTypes, ListTypes
<1>8. CASE Stamp(p)
  BY <1>2, <1>3, <1>4, <1>8
     DEF Stamp, procVars, listVars, hostVars, HostTypes, TimeTypes, ListTypes
<1>9. CASE Mark(p)
  <2>1. call[p].at = "mark" /\ call[p].cmd = "SERVICE" /\ call[p].arg \in Host
    BY <1>3, <1>9 DEF Mark, OfService
  <2>2. HostTypes' /\ UNCHANGED <<life, loaded, injected, loopVars, lock, listVars, timeVars>>
    BY <1>2, <1>9, <2>1 DEF Mark, HostTypes, procVars
  <2>3. PICK e \in AllCalls : /\ call' = [call EXCEPT ![p] = e]
                              /\ e.cmd = "SERVICE" /\ e.at \in {"check", "inject"}
                              /\ OfService(e)
    <3>1. CASE call[p].arg \in NeedsDcom
      <4> DEFINE e == [Call("SERVICE", Dcom, "check") EXCEPT !.then = call[p].arg]
      <4>1. Dcom \in Pid /\ Dcom \in Host
        BY <3>1, AnalyzerConstants
      <4>2. /\ e \in AllCalls
            /\ e.cmd = "SERVICE" /\ e.arg = Dcom /\ e.at = "check" /\ e.then = call[p].arg
        BY <1>3, <4>1 DEF Call, AllCalls, Command, Place
      <4>3. call' = [call EXCEPT ![p] = e]
        BY <1>9, <3>1 DEF Mark
      <4> HIDE DEF e
      <4>4. OfService(e)
        BY <2>1, <4>1, <4>2 DEF OfService
      <4> QED
        BY <4>2, <4>3, <4>4
    <3>2. CASE call[p].arg \notin NeedsDcom
      <4>1. Goto(p, "inject")
        BY <1>9, <3>2 DEF Mark
      <4> QED
        BY <1>1, <1>2, <1>3, <2>1, <4>1, GotoIs DEF Place, OfService
    <3> QED
      BY <3>1, <3>2
  <2> QED
    BY <1>1, <1>2, <1>3, <2>1, <2>2, <2>3, HandlerStep
       DEF LockType, ListTypes, TimeTypes, Listed, listVars, timeVars
<1>10. CASE Inject(p)
  <2>1. call[p].at = "inject" /\ Goto(p, "stamp")
    BY <1>10 DEF Inject
  <2>2. PICK e \in AllCalls : /\ call' = [call EXCEPT ![p] = e]
                              /\ e.cmd = call[p].cmd /\ e.arg = call[p].arg /\ e.at = "stamp"
                              /\ e.then = call[p].then
    BY <1>1, <1>2, <2>1, GotoIs DEF Place
  <2>3. HostTypes' /\ UNCHANGED <<life, loaded, loopVars, lock, listVars, timeVars>>
    BY <1>2, <1>3, <1>10 DEF Inject, HostTypes
  <2>4. /\ injected' \in [Pid -> 0..MaxInject]
        /\ \A c \in Pid : injected'[c] > 0 => injected[c] > 0 \/ (Alive(c) /\ call[p].arg = c)
    BY <1>2, <1>3, <1>10, AnalyzerConstants DEF Inject
  <2>5. e # Idle /\ OfService(e)
    BY <1>3, <2>2, IdleIsNoCall DEF OfService
  <2> QED
    BY <1>1, <1>2, <1>3, <2>1, <2>2, <2>3, <2>4, <2>5, HandlerStep
       DEF LockType, ListTypes, TimeTypes, Listed, listVars, timeVars
<1>11. CASE Acquire(p)
  <2>1. call[p].at = "acquire" /\ lock = Free /\ lock' = p /\ Goto(p, "locked")
    BY <1>11 DEF Acquire
  <2>2. PICK e \in AllCalls : /\ call' = [call EXCEPT ![p] = e]
                              /\ e.cmd = call[p].cmd /\ e.arg = call[p].arg /\ e.at = "locked"
                              /\ e.then = call[p].then
    BY <1>1, <1>2, <2>1, GotoIs DEF Place
  <2>3. UNCHANGED <<life, loaded, injected, loopVars, listVars, hostVars, timeVars>>
    BY <1>11 DEF Acquire, procVars
  <2>4. \A q \in Pid \ {p} : ~At(q, "locked")
    BY <1>3, <2>1, AnalyzerConstants
  <2>5. e # Idle /\ OfService(e)
    BY <1>3, <2>2, IdleIsNoCall DEF OfService
  <2> QED
    BY <1>1, <1>2, <1>3, <2>1, <2>2, <2>3, <2>4, <2>5, HandlerStep
       DEF LockType, ListTypes, TimeTypes, HostTypes, Listed, listVars, timeVars, hostVars
<1>12. ASSUME call[p].at = "locked", lock' \in {lock, Free}, ListTypes', HostTypes',
              UNCHANGED <<life, loaded, injected, loopVars, timeVars>>,
              Answer(p) \/ (Goto(p, "inject") /\ call[p].cmd = "PROCESS2"),
              call[p].cmd = "LOADED" /\ "LOADED" \notin Raising => Listed(p)',
              \A c \in Pid : Listed(c) => Listed(c)'
       PROVE  Inv'
  <2>1. PICK e \in AllCalls \cup {Idle} :
               /\ call' = [call EXCEPT ![p] = e]
               /\ e # Idle => e.cmd = "PROCESS2" /\ e.at = "inject"
    <3>1. CASE Answer(p)
      BY <3>1 DEF Answer
    <3>2. CASE Goto(p, "inject") /\ call[p].cmd = "PROCESS2"
      BY <1>1, <1>2, <3>2, GotoIs DEF Place
    <3> QED
      BY <1>12, <3>1, <3>2
  <2>2. \A q \in Pid \ {p} : ~At(q, "locked")
    BY <1>1, <1>3, <1>12
  <2>3. LockType' /\ TimeTypes'
    BY <1>2, <1>12 DEF LockType, TimeTypes, timeVars
  <2>4. e # Idle => OfService(e)
    BY <2>1 DEF OfService
  <2> QED
    BY <1>1, <1>2, <1>12, <2>1, <2>2, <2>3, <2>4, HandlerStep DEF timeVars
<1>13. CASE Loaded(p)
  <2>1. ListTypes' /\ HostTypes' /\ (Listed(p)' \/ "LOADED" \in Raising)
        /\ \A c \in Pid : Listed(c) => Listed(c)'
    <3>1. CASE Raise(p)
      BY <1>2, <1>13, <3>1 DEF Loaded, Raise, Handling, ListTypes, HostTypes, Listed
    <3>2. CASE ~Raise(p)
      BY <1>2, <1>13, <3>2, AnalyzerConstants DEF Loaded, ListTypes, HostTypes, Listed
    <3> QED
      BY <3>1, <3>2
  <2>2. UNCHANGED <<procVars, timeVars, loopVars>> /\ Answer(p) /\ lock' \in {Free, lock}
        /\ call[p].cmd = "LOADED"
    BY <1>13 DEF Loaded, Raise, Handling
  <2> QED
    BY <1>12, <1>13, <2>1, <2>2 DEF Loaded, procVars
<1>14. CASE InjectProcess(p)
  <2>1. ListTypes' /\ \A c \in Pid : Listed(c) => Listed(c)'
    BY <1>2, <1>3, <1>14 DEF InjectProcess, ListTypes, Listed
  <2>2. HostTypes'
    BY <1>2, <1>14 DEF InjectProcess, HostTypes, hostVars
  <2> QED
    BY <1>12, <1>14, <2>1, <2>2 DEF InjectProcess, procVars
<1>15. CASE Kill(p) \/ Shutdown(p)
  <2>1. ListTypes' /\ HostTypes' /\ \A c \in Pid : Listed(c) => Listed(c)'
    <3>1. CASE Raise(p)
      BY <1>2, <1>15, <3>1 DEF Kill, Shutdown, Raise, ListTypes, HostTypes, Listed
    <3>2. CASE ~Raise(p)
      BY <1>2, <1>3, <1>15, <3>2 DEF Kill, Shutdown, ListTypes, HostTypes, Listed, listVars
    <3> QED
      BY <3>1, <3>2
  <2>2. UNCHANGED <<procVars, timeVars, loopVars>> /\ Answer(p) /\ lock' \in {Free, lock}
    BY <1>15 DEF Kill, Shutdown, Raise
  <2> QED
    BY <1>12, <1>15, <2>1, <2>2 DEF Kill, Shutdown, procVars
<1> QED
  BY <1>5, <1>6, <1>7, <1>8, <1>9, <1>10, <1>11, <1>13, <1>14, <1>15 DEF Handler

-----------------------------------------------------------------------------
(* The loop. *)

\* It has no part in the calls.  What it takes off the list is dead, and only in
\* the shutdown phase it terminates a process.
LEMMA LoopKeeps ==
  ASSUME Inv, Loop
  PROVE  Inv'
<1>1. ASSUME UNCHANGED <<loaded, injected, call, lock, leaving, injectList, hostVars, since>>,
             ProcTypes', ListTypes', TimeTypes', LoopTypes', LoopInv', BornInv',
             ended' = "no" => UNCHANGED <<life, ended>>,
             \A p \in Pid : Alive(p) /\ Listed(p) => Listed(p)'
      PROVE  Inv'
  <2>1. Types' /\ CallInv'
    BY <1>1 DEF Inv, Types, CallTypes, LockType, HostTypes, hostVars, CallInv
  <2>2. TrackInv'
    BY <1>1 DEF Inv, TrackInv, LoadedIsKnown, InjectedIsKnown, Alive, At, DealsWith
  <2> QED
    BY <1>1, <2>1, <2>2 DEF Inv
<1>2. ProcTypes /\ ListTypes /\ TimeTypes /\ LoopTypes /\ LoopInv /\ BornInv
  BY DEF Inv, Types
<1>3. CASE Top
  BY <1>1, <1>2, <1>3 DEF Top, Leave, LoopTo, procVars, listVars, timeVars, ProcTypes, ListTypes,
       TimeTypes, LoopTypes, LoopInv, BornInv, Listed
<1>4. CASE TestLock \/ CheckPackage
  BY <1>1, <1>2, <1>4 DEF TestLock, CheckPackage, Leave, LoopTo, procVars, listVars, timeVars,
       ProcTypes, ListTypes, TimeTypes, LoopTypes, LoopInv, BornInv, Listed
<1>5. CASE Scan
  <2>1. ListTypes' /\ \A p \in Pid : Alive(p) /\ Listed(p) => Listed(p)'
    BY <1>2, <1>5 DEF Scan, ListTypes, Listed
  <2> QED
    BY <1>1, <1>2, <1>5, <2>1 DEF Scan, LoopTo, procVars, timeVars, ProcTypes,
         TimeTypes, LoopTypes, LoopInv, BornInv
<1>6. CASE Judge
  BY <1>1, <1>2, <1>6 DEF Judge, Leave, LoopTo, procVars, listVars, timeVars, ProcTypes, ListTypes,
       TimeTypes, LoopTypes, LoopInv, BornInv, Listed
<1>7. CASE Tell
  BY <1>1, <1>2, <1>7 DEF Tell, procVars, listVars, timeVars, ProcTypes, ListTypes,
       TimeTypes, LoopTypes, LoopInv, BornInv, Listed
<1>8. CASE Terminate
  BY <1>1, <1>2, <1>8 DEF Terminate, procVars, listVars, timeVars, loopVars, ProcTypes, ListTypes,
       TimeTypes, LoopTypes, LoopInv, BornInv, Listed
<1>9. CASE Waited
  BY <1>1, <1>2, <1>9, AnalyzerConstants DEF Waited, procVars, listVars, timeVars, ProcTypes, ListTypes,
       TimeTypes, LoopTypes, LoopInv, BornInv, Listed
<1> QED
  BY <1>3, <1>4, <1>5, <1>6, <1>7, <1>8, <1>9 DEF Loop

-----------------------------------------------------------------------------

LEMMA InvHolds == Spec => []Inv
<1>1. Init => Inv
  <2> SUFFICES ASSUME Init PROVE Inv
    OBVIOUS
  <2>1. ProcTypes /\ CallTypes /\ LockType /\ ListTypes /\ HostTypes /\ TimeTypes
    BY AnalyzerConstants
       DEF Init, ProcTypes, CallTypes, LockType, ListTypes, HostTypes, TimeTypes
  <2>2. LoopTypes
    BY AnalyzerConstants DEF Init, LoopTypes
  <2>3. CallInv /\ BornInv /\ LoopInv
    BY AnalyzerConstants DEF Init, CallInv, BornInv, LoopInv
  <2>4. TrackInv
    BY AnalyzerConstants DEF Init, TrackInv, LoadedIsKnown, InjectedIsKnown, Listed
  <2> QED
    BY <2>1, <2>2, <2>3, <2>4 DEF Inv, Types
<1>2. Inv /\ [Next]_vars => Inv'
  <2> SUFFICES ASSUME Inv, [Next]_vars PROVE Inv'
    OBVIOUS
  <2>1. CASE UNCHANGED vars
    BY <2>1 DEF vars, procVars, listVars, hostVars, timeVars, loopVars, Inv, Types, ProcTypes,
         CallTypes, LockType, ListTypes, HostTypes, TimeTypes, LoopTypes, CallInv, BornInv,
         LoopInv, TrackInv, LoadedIsKnown, InjectedIsKnown, Listed, Alive, At, DealsWith
  <2> QED
    BY <2>1, EnvironmentKeeps, HandlerKeeps, LoopKeeps DEF Next
<1> QED
  BY <1>1, <1>2, PTL DEF Spec

\* The state shared by the loop and the handlers keeps its types: among the rest,
\* only services have their flag MONITORED_... set.
THEOREM TypeCorrect == Spec => []TypeOK
<1>1. Inv => TypeOK
  BY DEF Inv, Types, ProcTypes, CallTypes, LockType, ListTypes, HostTypes, TimeTypes, LoopTypes,
         TypeOK
<1> QED
  BY <1>1, InvHolds, PTL

\* The handlers that test and change the list of processes under process_lock are
\* never two at a time, and the thread that does so has the lock.
OneOperates ==
  \A p, q \in Pid : At(p, "locked") /\ At(q, "locked") => p = q /\ lock = p

\* Threads of any number of processes announce, report and kill at a time, and none
\* changes the list under another one's eyes.
THEOREM ListOperationsExclude == Spec => []OneOperates
<1>1. Inv => OneOperates
  BY DEF Inv, CallInv, OneOperates, At
<1> QED
  BY <1>1, InvHolds, PTL

\* Whatever dies while its command is handled: a live process with the monitor in
\* it is abandoned only if it was taken off the list by a KILL, or if the handler
\* that has injected it serves a process that was, or one that has died.
AbandonedWithSender ==
  [][ended' = "empty" /\ ended = "no" =>
       \A c \in Pid : Alive(c) /\ injected[c] > 0 =>
         c \in leaving \/ \E p \in Pid : DealsWith(p, c) /\ (p \in leaving \/ ~Alive(p))]_vars

\* The last pass of analysis_loop, which clears the list for want of processes, leaves
\* no injected process that is neither a KILL's nor that of a sender gone with it.
THEOREM NoneIsAbandonedAlone == "LOADED" \notin Raising => (Spec => AbandonedWithSender)
<1> SUFFICES ASSUME "LOADED" \notin Raising PROVE Spec => AbandonedWithSender
  OBVIOUS
<1>1. ASSUME Inv, [Next]_vars
      PROVE  [ended' = "empty" /\ ended = "no" =>
                \A c \in Pid : Alive(c) /\ injected[c] > 0 =>
                  c \in leaving \/ \E p \in Pid : DealsWith(p, c) /\ (p \in leaving \/ ~Alive(p))]_vars
  <2> SUFFICES ASSUME ended' = "empty", ended = "no", NEW c \in Pid, Alive(c), injected[c] > 0,
                      c \notin leaving
               PROVE  \E p \in Pid : DealsWith(p, c) /\ (p \in leaving \/ ~Alive(p))
    OBVIOUS
  <2>1. ASSUME Environment \/ \E p \in Pid : Handler(p) PROVE FALSE
    BY <2>1
       DEF Environment, Spawn, Announce, Resume, SendKill, Request, Load, SendShutdown, Reboot,
           Exit, Age, AgeEmpty, Expire, Handler, Check, TestFlag, Mark, NoProcess, Inject,
           Stamp, Acquire, Loaded, InjectProcess, Kill, Shutdown, loopVars
  <2>2. Loop
    BY <1>1, <2>1 DEF Next, vars, loopVars
  <2>3. Judge
    BY <2>2 DEF Loop, Top, TestLock, Scan, CheckPackage, Tell, Terminate, Waited,
         Leave, LoopTo, loopVars
  <2>4. pids = {} /\ since # "recent"
    BY <2>3 DEF Judge, LoopTo
  <2>5. PICK p \in Pid : At(p, "stamp") /\ DealsWith(p, c)
    BY <1>1, <2>4 DEF Inv, TrackInv, InjectedIsKnown, Listed
  <2>6. p \in loaded /\ call[p].cmd # "LOADED" /\ LoadedIsKnown(p)
    BY <1>1, <2>5 DEF Inv, CallInv, TrackInv, At
  <2> QED
    BY <2>4, <2>5, <2>6 DEF LoadedIsKnown, Listed
<1> QED
  BY <1>1, InvHolds, PTL DEF Spec, AbandonedWithSender

\* Where no process dies while its command is handled, a sender is alive until the
\* shutdown phase terminates it.
SendersLive == ended = "no" => \A p \in Pid : call[p] # Idle => Alive(p)

LEMMA SendersLiveHolds == ~DieInCall => (Spec => []SendersLive)
<1> SUFFICES ASSUME ~DieInCall PROVE Spec => []SendersLive
  OBVIOUS
<1>1. Init => SendersLive
  BY DEF Init, SendersLive
<1>2. Inv /\ SendersLive /\ [Next]_vars => SendersLive'
  <2> SUFFICES ASSUME Inv, SendersLive, [Next]_vars, ended' = "no", NEW q \in Pid, call'[q] # Idle
               PROVE  Alive(q)'
    BY DEF SendersLive
  <2> USE DEF Alive, CanSend
  <2>1. CallTypes /\ ProcTypes
    BY DEF Inv, Types
  <2>2. ASSUME NEW p \in Pid, NEW c \in Pid,
               \/ Spawn(p, c) \/ Announce(p, c, "PROCESS") \/ Announce(p, c, "PROCESS2")
               \/ Resume(p, c) \/ SendKill(p, c) \/ Request(p, c)
        PROVE  Alive(q)'
    BY <2>1, <2>2 DEF SendersLive, CallTypes, ProcTypes, Spawn, Announce, Resume, SendKill, Request,
         procVars, loopVars
  <2>3. ASSUME NEW p \in Pid, Load(p) \/ SendShutdown(p) \/ Reboot(p) \/ Exit(p)
        PROVE  Alive(q)'
    BY <2>1, <2>3 DEF SendersLive, CallTypes, ProcTypes, Load, SendShutdown, Reboot, Exit,
         procVars, loopVars
  <2>4. CASE Age \/ AgeEmpty \/ Expire
    BY <2>4 DEF SendersLive, Age, AgeEmpty, Expire, procVars, loopVars
  <2>5. ASSUME NEW p \in Pid, Handler(p)
        PROVE  Alive(q)'
    <3>1. ended = "no" /\ life' = life
      BY <2>5 DEF Handler, Check, TestFlag, Mark, NoProcess, Inject, Stamp, Acquire, Loaded,
           InjectProcess, Kill, Shutdown, procVars, loopVars
    <3>2. call[p] # Idle
      BY <2>5 DEF Handler, Check, TestFlag, Mark, NoProcess, Inject, Stamp, Acquire, Loaded,
           InjectProcess, Kill, Shutdown, Handling, At
    <3>3. q # p => call'[q] = call[q]
      BY <2>1, <2>5 DEF CallTypes, Handler, Check, TestFlag, Mark, NoProcess, Inject, Stamp,
           Acquire, Loaded, InjectProcess, Kill, Shutdown, Raise, Goto, Answer, Continue
    <3> QED
      BY <3>1, <3>2, <3>3 DEF SendersLive
  <2>6. CASE Loop
    <3>1. call' = call /\ (ended = "no" => life' = life)
      BY <2>6 DEF Inv, LoopInv, Loop, Top, TestLock, Scan, Judge, CheckPackage, Tell, Terminate,
           Waited, procVars
    <3>2. ended = "no"
      BY <2>6 DEF Loop, Top, TestLock, Scan, Judge, CheckPackage, Tell, Terminate, Waited,
           Leave, LoopTo, loopVars
    <3> QED
      BY <3>1, <3>2 DEF SendersLive
  <2>7. CASE UNCHANGED vars
    BY <2>7 DEF SendersLive, vars, procVars, loopVars
  <2> QED
    BY <2>2, <2>3, <2>4, <2>5, <2>6, <2>7 DEF Next, Environment
<1> QED
  BY <1>1, <1>2, InvHolds, PTL DEF Spec

\* So where none does, the analysis is not ended for want of processes while one
\* of the sample runs with the monitor in it, but for the two exceptions a KILL makes.
THEOREM NoneIsAbandoned ==
  ~DieInCall /\ "LOADED" \notin Raising => (Spec => NoLiveProcessAbandoned)
<1> SUFFICES ASSUME ~DieInCall, "LOADED" \notin Raising PROVE Spec => NoLiveProcessAbandoned
  OBVIOUS
<1>1. ASSUME SendersLive, AnalyzerConstants,
             [ended' = "empty" /\ ended = "no" =>
                \A c \in Pid : Alive(c) /\ injected[c] > 0 =>
                  c \in leaving \/ \E p \in Pid : DealsWith(p, c) /\ (p \in leaving \/ ~Alive(p))]_vars
      PROVE  [ended' = "empty" /\ ended = "no" =>
                \A c \in Pid : Alive(c) /\ injected[c] > 0 =>
                  c \in leaving \/ \E p \in leaving : DealsWith(p, c)]_vars
  BY <1>1 DEF SendersLive, DealsWith
<1> QED
  BY <1>1, SendersLiveHolds, NoneIsAbandonedAlone, AnalyzerConstants, PTL
     DEF AbandonedWithSender, NoLiveProcessAbandoned

\* What a handler does without the lock leaves it outside the critical section.
LEMMA NoneEnters ==
  ASSUME Inv, NEW p \in Pid,
         Check(p) \/ TestFlag(p) \/ Mark(p) \/ NoProcess(p) \/ Inject(p) \/ Stamp(p)
  PROVE  ~At(p, "locked")'
<1>1. CallTypes /\ call[p] # Idle /\ call[p].at \in {"check", "mark", "inject", "stamp"}
  BY DEF Inv, Types, Check, TestFlag, Mark, NoProcess, Inject, Stamp, Handling, At
<1>2. ASSUME Answer(p) PROVE ~At(p, "locked")'
  BY <1>1, <1>2 DEF Answer, CallTypes, At
<1>3. ASSUME NEW place \in {"mark", "inject", "stamp"}, Goto(p, place) PROVE ~At(p, "locked")'
  <2>1. PICK e \in AllCalls : call' = [call EXCEPT ![p] = e] /\ e.at = place
    BY <1>1, <1>3, GotoIs DEF Place
  <2> QED
    BY <1>1, <2>1, Frame DEF At
<1>4. ASSUME Continue(p) PROVE ~At(p, "locked")'
  <2>1. PICK e \in AllCalls \cup {Idle} :
          call' = [call EXCEPT ![p] = e] /\ (e # Idle => e.at = "inject")
    BY <1>1, <1>4, ContinueIs
  <2> QED
    BY <1>1, <2>1, Frame DEF At
<1>5. ASSUME Mark(p), call[p].arg \in NeedsDcom PROVE ~At(p, "locked")'
  <2>1. call'[p].at = "check"
    BY <1>1, <1>5 DEF Mark, CallTypes, Call
  <2> QED
    BY <2>1 DEF At
<1>6. CASE Check(p)
  BY <1>2, <1>3, <1>6 DEF Check
<1>7. CASE TestFlag(p)
  BY <1>3, <1>4, <1>7 DEF TestFlag
<1>8. CASE Mark(p)
  BY <1>3, <1>5, <1>8 DEF Mark
<1>9. CASE NoProcess(p) \/ Inject(p) \/ Stamp(p)
  BY <1>3, <1>4, <1>9 DEF NoProcess, Inject, Stamp
<1> QED
  BY <1>6, <1>7, <1>8, <1>9

\* process_lock is held by a thread that does not operate on the list.
Leaked == lock # Free /\ ~At(lock, "locked")

\* Then it stays so, no thread operates on the list ever again, and nothing is added
\* to the list.
LeakIsForever == [][Leaked => Leaked' /\ lock' = lock /\ pids' \subseteq pids]_vars

\* Whatever leaks process_lock - PROCESS2 for a protected name, or an exception under
\* the lock (analyzer.py:1422, 1122, 1372, 1363) - it is for good: no process is added
\* to the list that the loop watches.
THEOREM LeaksLast == Spec => LeakIsForever
<1>1. ASSUME Inv, [Next]_vars
      PROVE  [Leaked => Leaked' /\ lock' = lock /\ pids' \subseteq pids]_vars
  <2> SUFFICES ASSUME Leaked
               PROVE  Leaked' /\ lock' = lock /\ pids' \subseteq pids
    OBVIOUS
  <2>1. CallTypes /\ LockType /\ lock \in Pid /\ \A q \in Pid : ~At(q, "locked")
    BY <1>1 DEF Inv, Types, LockType, CallInv, Leaked, At
  <2>2. ASSUME lock' = lock, pids' \subseteq pids, NEW p \in Pid,
               NEW e \in AllCalls \cup {Idle}, e # Idle => e.at # "locked",
               call' = [call EXCEPT ![p] = e]
        PROVE  Leaked' /\ lock' = lock /\ pids' \subseteq pids
    BY <2>1, <2>2, Frame DEF Leaked, At
  <2>3. ASSUME NEW p \in Pid, NEW c \in Pid,
               \/ Spawn(p, c) \/ Announce(p, c, "PROCESS") \/ Announce(p, c, "PROCESS2")
               \/ Resume(p, c) \/ SendKill(p, c) \/ Request(p, c) \/ Load(p) \/ SendShutdown(p)
        PROVE  Leaked' /\ lock' = lock /\ pids' \subseteq pids
    <3>1. UNCHANGED <<lock, pids>>
      BY <2>3 DEF Spawn, Announce, Resume, SendKill, Request, Load, SendShutdown, listVars
    <3>2. PICK cmd \in Command, d \in Pid, place \in {"check", "acquire", "inject"} :
            call' = [call EXCEPT ![p] = Call(cmd, d, place)]
      BY <2>3 DEF Spawn, Announce, Resume, SendKill, Request, Load, SendShutdown, Command
    <3> QED
      BY <2>2, <3>1, <3>2, CallIs DEF Place
  <2>4. CASE Age \/ AgeEmpty \/ Expire \/ Loop \/ UNCHANGED vars \/ \E p \in Pid : Reboot(p) \/ Exit(p)
    <3>1. UNCHANGED <<call, lock>> /\ pids' \subseteq pids
      BY <2>4 DEF Age, AgeEmpty, Expire, Loop, Top, TestLock, Scan, Judge, CheckPackage, Tell,
           Terminate, Waited, vars, listVars, Reboot, Exit
    <3> QED
      BY <3>1 DEF Leaked, At
  <2>5. ASSUME NEW p \in Pid,
               Check(p) \/ TestFlag(p) \/ Mark(p) \/ NoProcess(p) \/ Inject(p) \/ Stamp(p)
        PROVE  Leaked' /\ lock' = lock /\ pids' \subseteq pids
    <3>1. lock' = lock /\ pids' \subseteq pids /\ \A q \in Pid \ {p} : call'[q] = call[q]
      BY <2>1, <2>5 DEF CallTypes, Check, TestFlag, Mark, NoProcess, Inject, Stamp, Goto, Answer,
           Continue, listVars
    <3>2. ~At(p, "locked")'
      BY <1>1, <2>5, NoneEnters
    <3> QED
      BY <2>1, <3>1, <3>2 DEF Leaked, At
  <2>6. ASSUME NEW p \in Pid,
               Acquire(p) \/ Loaded(p) \/ InjectProcess(p) \/ Kill(p) \/ Shutdown(p)
        PROVE  FALSE
    BY <2>1, <2>6 DEF Acquire, Loaded, InjectProcess, Kill, Shutdown, Handling, At, Leaked
  <2>7. CASE Environment
    BY <2>3, <2>4, <2>7 DEF Environment
  <2>8. ASSUME NEW p \in Pid, Handler(p) PROVE Leaked' /\ lock' = lock /\ pids' \subseteq pids
    BY <2>5, <2>6, <2>8 DEF Handler
  <2>9. Environment \/ Loop \/ (\E p \in Pid : Handler(p)) \/ UNCHANGED vars
    BY <1>1 DEF Next
  <2> QED
    BY <2>4, <2>7, <2>8, <2>9
<1> QED
  BY <1>1, InvHolds, PTL DEF Spec, LeakIsForever

=============================================================================
