--------------------------- MODULE LogServer_proofs ---------------------------
(***************************************************************************)
(* Proofs about LogServer.  The log of a process is whole because its path *)
(* has one instance that is ever opened: the pool keeps a second log       *)
(* server from being made once the first is there.                         *)
(***************************************************************************)
EXTENDS LogServer, SequenceTheorems, TLAPS

\* An instance that a monitor has opened.
Opened(i) == pipe[i] \notin {"none", "free"}

\* The messages are numbered as they were written, from the header on.
Numbered(s, first) == \A k \in 1..Len(s) : s[k] = first + k - 1
Chained(s, t, n) ==
  Len(s) + Len(t) = n + 1 /\ Numbered(s, 0) /\ Numbered(t, Len(s))

(* The inductive invariant. *)

\* Where a log server is, and what there is of its pipe, its connection and its log.
ServerInv ==
  /\ \A i \in Server :
       /\ place[i] \in {"none", "create", "absent"} <=> pipe[i] = "none"
       /\ place[i] \in {"none", "create", "connect", "absent", "failed"} <=> conn[i] = "none"
       /\ ~Opened(i) => data[i] = <<>> /\ sent[i] = 0
       /\ place[i] \notin {"none", "create", "connect", "failed"} => owner[i] \in pool
  /\ \A p \in Pid : LET by == log[p].by
                    IN  /\ by = None => log[p].messages = <<>>
                        /\ by # None => owner[by] = p /\ Opened(by) /\ conn[by] # "none"

\* A second log server of a process is begun only while the first is not pooled.
CrowdInv ==
  \A i, j \in Server : i # j /\ owner[i] = owner[j] /\ owner[i] # None => owner[i] \in crowded

\* The stream of the one instance of a process that was opened.
StreamInv ==
  \A p \in Pid : ~Polluted(p) =>
    /\ Numbered(log[p].messages, 0)
    /\ \A i \in ServersOf(p) :
         conn[i] \in {"none", "up"} /\ pipe[i] \in {"held", "broken"} =>
           Chained(StoredBy(i), data[i], sent[i])

Inv == TypeOK /\ ServerInv /\ CrowdInv /\ StreamInv

-----------------------------------------------------------------------------
(* Sequences. *)

Messages == Seq(0..MaxRecord)

\* Two sequences that follow each other in the numbers make up the whole.
LEMMA ChainIsWhole ==
  ASSUME NEW s \in Messages, NEW t \in Messages, NEW n \in 0..MaxRecord, Chained(s, t, n)
  PROVE  s \o t = Upto(n)
<1>1. /\ s \o t \in Messages /\ Len(s \o t) = n + 1
      /\ \A k \in 1..n + 1 : (s \o t)[k] = IF k <= Len(s) THEN s[k] ELSE t[k - Len(s)]
  BY ConcatProperties DEF Chained, Messages
<1>2. Len(s) \in Nat /\ Len(t) \in Nat /\ Len(s) + Len(t) = n + 1
  BY DEF Chained, Messages
<1>3. ASSUME NEW k \in 1..n + 1 PROVE (s \o t)[k] = k - 1
  <2>1. CASE k <= Len(s)
    BY <1>1, <1>2, <2>1 DEF Chained, Numbered
  <2>2. CASE ~(k <= Len(s))
    <3>1. k - Len(s) \in 1..Len(t)
      BY <1>2, <2>2
    <3> QED
      BY <1>1, <1>2, <2>2, <3>1 DEF Chained, Numbered
  <2> QED
    BY <2>1, <2>2
<1>4. s \o t \in [1..n + 1 -> 0..MaxRecord]
  BY <1>1, LenProperties DEF Messages
<1> QED
  BY <1>3, <1>4 DEF Upto

\* A log that is numbered is empty, or whole up to its last message.
LEMMA NumberedIsUpto ==
  ASSUME NEW s \in Messages, Numbered(s, 0)
  PROVE  \E n \in 0..MaxRecord : s \in {<<>>, Upto(n)}
<1>1. Len(s) \in Nat /\ s \in [1..Len(s) -> 0..MaxRecord] /\ MaxRecord \in Nat
  BY LenProperties, LogConstants DEF Messages
<1>2. CASE Len(s) = 0
  BY <1>1, <1>2, EmptySeq DEF Messages
<1>3. CASE Len(s) # 0
  <2>1. Len(s) - 1 \in 0..MaxRecord
    BY <1>1, <1>3 DEF Numbered
  <2>2. s = Upto(Len(s) - 1)
    BY <1>1, <1>3 DEF Numbered, Upto
  <2> QED
    BY <2>1, <2>2
<1> QED
  BY <1>2, <1>3

\* The head of the second becomes the last of the first.
LEMMA ChainMoves ==
  ASSUME NEW s \in Messages, NEW t \in Messages, t # <<>>, NEW n \in Nat, Chained(s, t, n)
  PROVE  Head(t) = Len(s) /\ Chained(Append(s, Head(t)), Tail(t), n)
<1>1. /\ Len(s) \in Nat /\ Len(t) \in Nat \ {0} /\ Len(s) + Len(t) = n + 1
      /\ \A k \in 1..Len(s) : s[k] = k - 1
      /\ \A k \in 1..Len(t) : t[k] = Len(s) + k - 1
  BY DEF Chained, Numbered, Messages
<1>2. Head(t) = t[1] /\ t[1] = Len(s) /\ Head(t) \in 0..MaxRecord
  <2>1. Head(t) = t[1]
    BY SMT DEF Messages
  <2>2. t[1] = Len(s)
    BY <1>1
  <2>3. Head(t) \in 0..MaxRecord
    BY HeadTailProperties DEF Messages
  <2> QED
    BY <2>1, <2>2, <2>3
<1>3. /\ Len(Append(s, Head(t))) = Len(s) + 1
      /\ \A k \in 1..Len(s) : Append(s, Head(t))[k] = s[k]
      /\ Append(s, Head(t))[Len(s) + 1] = Head(t)
  BY <1>1, <1>2, AppendProperties DEF Messages
<1>4. /\ Len(Tail(t)) = Len(t) - 1
      /\ \A k \in 1..Len(t) - 1 : Tail(t)[k] = t[k + 1]
  BY <1>1, HeadTailProperties DEF Messages
<1>5. Numbered(Append(s, Head(t)), 0)
  BY <1>1, <1>2, <1>3 DEF Numbered
<1>6. Numbered(Tail(t), Len(s) + 1)
  BY <1>1, <1>4 DEF Numbered
<1>7. Len(Append(s, Head(t))) + Len(Tail(t)) = n + 1
  BY <1>1, <1>3, <1>4
<1> QED
  BY <1>1, <1>2, <1>3, <1>5, <1>6, <1>7 DEF Chained

\* The next record.
LEMMA ChainGrows ==
  ASSUME NEW s \in Messages, NEW t \in Messages, NEW n \in Nat, n + 1 \in 0..MaxRecord,
         Chained(s, t, n)
  PROVE  Chained(s, Append(t, n + 1), n + 1)
<1>1. /\ Len(s) \in Nat /\ Len(t) \in Nat /\ Len(s) + Len(t) = n + 1
      /\ \A k \in 1..Len(s) : s[k] = k - 1
      /\ \A k \in 1..Len(t) : t[k] = Len(s) + k - 1
  BY DEF Chained, Numbered, Messages
<1>2. /\ Len(Append(t, n + 1)) = Len(t) + 1
      /\ \A k \in 1..Len(t) : Append(t, n + 1)[k] = t[k]
      /\ Append(t, n + 1)[Len(t) + 1] = n + 1
  BY <1>1, AppendProperties DEF Messages
<1> QED
  BY <1>1, <1>2 DEF Chained, Numbered

\* The first message of a pipe follows an empty log.
LEMMA ChainBegins == Chained(<<>>, <<Header>>, 0)
  BY DEF Chained, Numbered, Header

-----------------------------------------------------------------------------
(* The store. *)

\* What BsonStore makes of a message that is numbered.
LEMMA StoredFacts ==
  ASSUME TypeOK, NEW i \in Server, owner[i] \in Pid, NEW m \in 0..MaxRecord
  PROVE  /\ Stored(i, m) \in [by : Server \cup {None}, messages : Messages]
         /\ Stored(i, m).by = i
<1> DEFINE old == log[owner[i]]
<1>1. /\ old \in [by : Server \cup {None}, messages : Messages]
      /\ Torn \in Messages /\ <<Header>> \in Messages
      /\ Append(old.messages, m) \in Messages
  BY LogConstants, AppendProperties DEF TypeOK, Messages, Torn, Header
<1>2. CASE old.by = i
  <2>1. Stored(i, m) =
          [old EXCEPT !.messages = IF @ = Torn THEN Torn ELSE Append(@, m)]
    BY <1>2 DEF Stored
  <2> HIDE DEF old
  <2> QED
    BY <1>1, <1>2, <2>1
<1>3. CASE old.by # i
  <2>1. Stored(i, m) =
          [by |-> i, messages |-> IF m = Header /\ (old.by = None \/ conn[old.by] # "up")
                                  THEN <<Header>> ELSE Torn]
    BY <1>3 DEF Stored
  <2> HIDE DEF old
  <2> QED
    BY <1>1, <2>1
<1> QED
  BY <1>2, <1>3

LEMMA TornIsNot ==
  ASSUME NEW s \in Messages, Numbered(s, 0)
  PROVE  s # Torn
<1> SUFFICES ASSUME s = Torn PROVE FALSE
  OBVIOUS
<1>1. Len(s) = 2 /\ s[2] = 0
  BY DEF Torn, Header
<1> QED
  BY <1>1 DEF Numbered

LEMMA StoredAppends ==
  ASSUME TypeOK, NEW i \in Server, owner[i] \in Pid, NEW m \in 0..MaxRecord,
         log[owner[i]].by = i, Numbered(log[owner[i]].messages, 0)
  PROVE  Stored(i, m).messages = Append(log[owner[i]].messages, m)
<1> DEFINE old == log[owner[i]]
<1>1. old \in [by : Server \cup {None}, messages : Messages]
  BY DEF TypeOK, Messages
<1>2. old.messages # Torn
  BY <1>1, TornIsNot
<1>3. Stored(i, m) = [old EXCEPT !.messages = IF @ = Torn THEN Torn ELSE Append(@, m)]
  BY DEF Stored
<1>4. [old EXCEPT !.messages = IF @ = Torn THEN Torn ELSE Append(@, m)]
        = [old EXCEPT !.messages = Append(old.messages, m)]
  BY <1>2, Zenon
<1>5. Stored(i, m).messages = Append(old.messages, m)
  <2> HIDE DEF old
  <2> QED
    BY <1>1, <1>3, <1>4
<1> QED
  BY <1>5

LEMMA StoredBegins ==
  ASSUME TypeOK, NEW i \in Server, owner[i] \in Pid, log[owner[i]].by = None
  PROVE  Stored(i, Header).messages = <<Header>>
BY DEF Stored, Server, None

LEMMA StoredByType ==
  ASSUME TypeOK, NEW i \in Server, owner[i] \in Pid
  PROVE  StoredBy(i) \in Messages
BY EmptySeq DEF TypeOK, StoredBy, Messages

-----------------------------------------------------------------------------
(* Steps. *)

\* One step, with the process and the log server that take it named.
LEMMA StepCases ==
  ASSUME Next
  PROVE  \/ \E p \in Pid : p \in pool /\ told' = told \cup {p}
                           /\ UNCHANGED <<serving, pool, crowded, owner, place, pipe, monitor, conn, log>>
         \/ \E p \in Pid : p \notin pool /\ Begin(p)
         \/ \E p \in Pid : Open(p)
         \/ \E i \in Server : Write(i)
         \/ \E i \in Server : Break(i)
         \/ \E i \in Server : CreatePipe(i)
         \/ \E i \in Server : StartThread(i)
         \/ \E i \in Server : Accept(i)
         \/ \E i \in Server : Miss(i)
         \/ \E i \in Server : Forward(i)
         \/ \E i \in Server : Lose(i)
         \/ \E i \in Server : Cut(i)
         \/ ShutDown
         \/ Start
BY Zenon DEF Next, Run, Inject

\* The type invariant, for the messages.
LEMMA TypeKept ==
  ASSUME TypeOK, ServerInv, [Next]_vars
  PROVE  TypeOK'
<1> USE LogConstants DEF Server, None, Header
<1>1. CASE UNCHANGED vars
  BY <1>1 DEF TypeOK, vars, injection, monitor
<1>2. CASE \E p \in Pid : p \in pool /\ told' = told \cup {p}
                          /\ UNCHANGED <<serving, pool, crowded, owner, place, pipe, monitor, conn, log>>
  BY <1>2 DEF TypeOK, monitor
<1>3. ASSUME NEW p \in Pid, Begin(p) PROVE TypeOK'
  <2>1. PICK i \in Server : /\ owner[i] = None /\ owner' = [owner EXCEPT ![i] = p]
                            /\ place' = [place EXCEPT ![i] = "create"]
    BY <1>3, Zenon DEF Begin, Goto
  <2>2. pipe[i] = "none" /\ crowded' \subseteq Pid
    BY <1>3, <2>1 DEF TypeOK, ServerInv, Begin
  <2>3. UNCHANGED <<serving, pool, told, pipe, data, sent, conn, log>>
    BY <1>3 DEF Begin, monitor
  <2> QED
    BY <2>1, <2>2, <2>3 DEF TypeOK
<1>4. ASSUME NEW p \in Pid, Open(p) PROVE TypeOK'
  <2>1. PICK i \in ServersOf(p) : /\ pipe[i] = "free" /\ pipe' = [pipe EXCEPT ![i] = "held"]
                                  /\ data' = [data EXCEPT ![i] = <<0>>]
    BY <1>4, Zenon DEF Open
  <2>2. i \in Server /\ <<0>> \in Seq(0..MaxRecord)
    BY <2>1 DEF ServersOf
  <2> QED
    BY <1>4, <2>1, <2>2 DEF TypeOK, Open, injection
<1>5. ASSUME NEW i \in Server, Write(i) PROVE TypeOK'
  <2>1. sent[i] + 1 \in 0..MaxRecord
    BY <1>5 DEF TypeOK, Write
  <2>2. Append(data[i], sent[i] + 1) \in Seq(0..MaxRecord)
    BY <2>1, AppendProperties DEF TypeOK
  <2> QED
    BY <1>5, <2>1, <2>2 DEF TypeOK, Write, injection
<1>6. ASSUME NEW i \in Server, Break(i) PROVE TypeOK'
  BY <1>6 DEF TypeOK, Break, injection, monitor
<1>7. ASSUME NEW i \in Server, CreatePipe(i) PROVE TypeOK'
  <2>1. owner[i] \in Pid /\ pipe[i] = "none"
    BY <1>7 DEF TypeOK, ServerInv, CreatePipe
  <2>2. CASE Goto(i, "connect") /\ pipe' = [pipe EXCEPT ![i] = "free"] /\ UNCHANGED <<pool, told>>
    BY <1>7, <2>1, <2>2 DEF TypeOK, CreatePipe, Goto, monitor
  <2>3. CASE Goto(i, "absent") /\ Pool(owner[i]) /\ UNCHANGED pipe
    BY <1>7, <2>1, <2>3 DEF TypeOK, CreatePipe, Goto, Pool, monitor
  <2> QED
    BY <1>7, <2>2, <2>3 DEF CreatePipe
<1>8. ASSUME NEW i \in Server, StartThread(i) PROVE TypeOK'
  <2>1. owner[i] \in Pid /\ pipe[i] # "closed"
    BY <1>8 DEF TypeOK, StartThread
  <2>2. CASE serving
    <3>1. /\ place' = [place EXCEPT ![i] = "listen"] /\ conn' = [conn EXCEPT ![i] = "up"]
          /\ pool' \subseteq Pid /\ told' \subseteq Pid /\ place[i] = "connect"
          /\ UNCHANGED <<serving, crowded, owner, pipe, data, sent, log>>
      BY <1>8, <2>1, <2>2 DEF TypeOK, StartThread, Goto, Pool, monitor
    <3> QED
      BY <2>1, <3>1 DEF TypeOK
  <2>3. CASE ~serving
    BY <1>8, <2>1, <2>3 DEF TypeOK, StartThread, Goto, monitor
  <2> QED
    BY <2>2, <2>3
<1>9. ASSUME NEW i \in Server, Accept(i) PROVE TypeOK'
  BY <1>9 DEF TypeOK, Accept, Goto, injection, monitor
<1>10. ASSUME NEW i \in Server, Miss(i) PROVE TypeOK'
  BY <1>10 DEF TypeOK, Miss, Goto, injection
<1>11. ASSUME NEW i \in Server, Forward(i) PROVE TypeOK'
  <2>1. owner[i] \in Pid
    BY <1>11 DEF TypeOK, Forward
  <2>2. Head(data[i]) \in 0..MaxRecord /\ Tail(data[i]) \in Seq(0..MaxRecord)
    BY <1>11, HeadTailProperties DEF TypeOK, Forward
  <2>3. Stored(i, Head(data[i])) \in [by : Server \cup {None}, messages : Seq(0..MaxRecord)]
    BY <2>1, <2>2, StoredFacts DEF Messages
  <2> QED
    BY <1>11, <2>1, <2>2, <2>3 DEF TypeOK, Forward, injection
<1>12. ASSUME NEW i \in Server, Lose(i) PROVE TypeOK'
  <2>1. Tail(data[i]) \in Seq(0..MaxRecord)
    BY <1>12, HeadTailProperties DEF TypeOK, Lose
  <2>2. <<>> \in Seq(0..MaxRecord)
    BY EmptySeq
  <2>3. CASE data' = [data EXCEPT ![i] = Tail(@)] /\ UNCHANGED <<place, pipe>>
    BY <1>12, <2>1, <2>3 DEF TypeOK, Lose, injection
  <2>4. CASE /\ Goto(i, "done") /\ pipe' = [pipe EXCEPT ![i] = "closed"]
             /\ data' = [data EXCEPT ![i] = <<>>]
    BY <1>12, <2>2, <2>4 DEF TypeOK, Lose, Goto, injection
  <2> QED
    BY <1>12, <2>3, <2>4 DEF Lose
<1>13. ASSUME NEW i \in Server, Cut(i) PROVE TypeOK'
  BY <1>13 DEF TypeOK, Cut, injection, monitor
<1>14. CASE ShutDown
  BY <1>14 DEF TypeOK, ShutDown, injection, monitor
<1>15. CASE Start
  BY <1>15 DEF TypeOK, Start, injection, monitor
<1>16. CASE Next
  BY <1>16, <1>2, <1>3, <1>4, <1>5, <1>6, <1>7, <1>8, <1>9, <1>10, <1>11, <1>12, <1>13, <1>14,
     <1>15, StepCases, Zenon
<1> QED
  BY <1>1, <1>16

LEMMA ServerKept ==
  ASSUME TypeOK, TypeOK', ServerInv, [Next]_vars
  PROVE  ServerInv'
<1> USE DEF Server, None, Header, Opened
<1>1. CASE UNCHANGED vars
  BY <1>1 DEF ServerInv, vars, injection, monitor
<1>2. CASE \E p \in Pid : p \in pool /\ told' = told \cup {p}
                          /\ UNCHANGED <<serving, pool, crowded, owner, place, pipe, monitor, conn, log>>
  BY <1>2 DEF ServerInv, monitor
<1>3. ASSUME NEW p \in Pid, Begin(p) PROVE ServerInv'
  <2>1. PICK i \in Server : /\ owner[i] = None /\ owner' = [owner EXCEPT ![i] = p]
                            /\ place' = [place EXCEPT ![i] = "create"]
    BY <1>3, Zenon DEF Begin, Goto
  <2>2. place[i] = "none" /\ UNCHANGED <<pool, pipe, monitor, conn, log>>
    BY <1>3, <2>1 DEF TypeOK, Begin
  <2> QED
    BY <2>1, <2>2, LogConstants DEF TypeOK, ServerInv, monitor
<1>4. ASSUME NEW p \in Pid, Open(p) PROVE ServerInv'
  <2>1. PICK i \in ServersOf(p) : /\ pipe[i] = "free" /\ pipe' = [pipe EXCEPT ![i] = "held"]
                                  /\ data' = [data EXCEPT ![i] = <<0>>]
    BY <1>4, Zenon DEF Open
  <2>2. i \in Server
    BY <2>1 DEF ServersOf
  <2> QED
    BY <1>4, <2>1, <2>2 DEF TypeOK, ServerInv, Open, injection
<1>5. ASSUME NEW i \in Server, Write(i) PROVE ServerInv'
  BY <1>5 DEF TypeOK, ServerInv, Write, injection
<1>6. ASSUME NEW i \in Server, Break(i) PROVE ServerInv'
  BY <1>6 DEF TypeOK, ServerInv, Break, injection, monitor
<1>7. ASSUME NEW i \in Server, CreatePipe(i) PROVE ServerInv'
  BY <1>7 DEF TypeOK, ServerInv, CreatePipe, Goto, Pool, monitor
<1>8. ASSUME NEW i \in Server, StartThread(i) PROVE ServerInv'
  <2>1. CASE serving
    BY <1>8, <2>1 DEF TypeOK, ServerInv, StartThread, Goto, Pool, monitor
  <2>2. CASE ~serving
    BY <1>8, <2>2 DEF TypeOK, ServerInv, StartThread, Goto, monitor
  <2> QED
    BY <2>1, <2>2
<1>9. ASSUME NEW i \in Server, Accept(i) PROVE ServerInv'
  BY <1>9 DEF TypeOK, ServerInv, Accept, Goto, injection, monitor
<1>10. ASSUME NEW i \in Server, Miss(i) PROVE ServerInv'
  BY <1>10 DEF TypeOK, ServerInv, Miss, Goto, injection
<1>11. ASSUME NEW i \in Server, Forward(i) PROVE ServerInv'
  <2>0. Head(data[i]) \in 0..MaxRecord
    BY <1>11, HeadTailProperties DEF TypeOK, Forward
  <2>1. owner[i] \in Pid /\ Head(data[i]) \in 0..MaxRecord
    BY <1>11, <2>0 DEF TypeOK, Forward
  <2>2. log' = [log EXCEPT ![owner[i]] = Stored(i, Head(data[i]))]
        /\ Stored(i, Head(data[i])).by = i
    BY <1>11, <2>1, StoredFacts DEF Forward
  <2>3. Opened(i) /\ conn[i] = "up" /\ data' = [data EXCEPT ![i] = Tail(@)]
        /\ UNCHANGED <<pool, owner, place, pipe, sent, conn>>
    BY <1>11 DEF TypeOK, Forward, injection
  <2>4. log'[owner[i]].by = i /\ \A p \in Pid : p # owner[i] => log'[p] = log[p]
    BY <2>1, <2>2 DEF TypeOK
  <2>5. \A j \in Server : ~Opened(j)' => data'[j] = <<>> /\ sent'[j] = 0
    BY <2>3 DEF TypeOK, ServerInv
  <2>6. \A p \in Pid : log'[p].by = None => log'[p].messages = <<>>
    BY <2>1, <2>4 DEF ServerInv
  <2>7. \A p \in Pid : log'[p].by # None => LET by == log'[p].by
                                             IN  owner[by] = p /\ Opened(by) /\ conn[by] # "none"
    BY <2>1, <2>3, <2>4 DEF ServerInv
  <2> QED
    BY <2>3, <2>5, <2>6, <2>7 DEF ServerInv
<1>12. ASSUME NEW i \in Server, Lose(i) PROVE ServerInv'
  <2>1. CASE data' = [data EXCEPT ![i] = Tail(@)] /\ UNCHANGED <<place, pipe>>
    BY <1>12, <2>1 DEF TypeOK, ServerInv, Lose, injection
  <2>2. CASE /\ Goto(i, "done") /\ pipe' = [pipe EXCEPT ![i] = "closed"]
             /\ data' = [data EXCEPT ![i] = <<>>]
    BY <1>12, <2>2 DEF TypeOK, ServerInv, Lose, Goto, injection
  <2> QED
    BY <1>12, <2>1, <2>2 DEF Lose
<1>13. ASSUME NEW i \in Server, Cut(i) PROVE ServerInv'
  BY <1>13 DEF TypeOK, ServerInv, Cut, injection, monitor
<1>14. CASE ShutDown
  BY <1>14 DEF ServerInv, ShutDown, injection, monitor
<1>15. CASE Start
  BY <1>15 DEF ServerInv, Start, injection, monitor
<1>16. CASE Next
  BY <1>16, <1>2, <1>3, <1>4, <1>5, <1>6, <1>7, <1>8, <1>9, <1>10, <1>11, <1>12, <1>13, <1>14,
     <1>15, StepCases, Zenon
<1> QED
  BY <1>1, <1>16

\* Only Begin() makes a log server, and it knows whether another is not pooled yet.
LEMMA CrowdKept ==
  ASSUME TypeOK, ServerInv, CrowdInv, [Next]_vars
  PROVE  CrowdInv'
<1>1. CASE UNCHANGED <<owner, crowded>>
  BY <1>1 DEF CrowdInv
<1>2. ASSUME NEW p \in Pid, p \notin pool, Begin(p) PROVE CrowdInv'
  <2>1. PICK i \in Server : owner[i] = None /\ owner' = [owner EXCEPT ![i] = p]
    BY <1>2, Zenon DEF Begin
  <2>2. crowded \subseteq crowded'
    BY <1>2 DEF Begin
  <2>3. ASSUME NEW j \in Server, owner[j] = p PROVE p \in crowded'
    <3>1. place[j] \in {"create", "connect", "failed"}
      BY <1>2, <2>3, LogConstants DEF TypeOK, ServerInv, None
    <3> QED
      BY <1>2, <2>3, <3>1 DEF Begin, ServersOf
  <2> QED
    BY <2>1, <2>2, <2>3 DEF TypeOK, CrowdInv
<1>3. Next => (\E p \in Pid : p \notin pool /\ Begin(p)) \/ UNCHANGED <<owner, crowded>>
  BY StepCases DEF Open, Write, Break, CreatePipe, StartThread, Accept, Miss, Forward, Lose,
     Cut, ShutDown, Start, Pool, injection
<1> QED
  BY <1>1, <1>2, <1>3 DEF vars, injection

\* What is polluted stays so.
LEMMA PollutedStays ==
  ASSUME TypeOK, ServerInv, [Next]_vars, NEW p \in Pid, Polluted(p)
  PROVE  Polluted(p)'
<1>1. PICK i, j \in Server : /\ owner[i] = p /\ owner[j] = p /\ i # j
                             /\ Opened(i) /\ Opened(j) /\ p \in crowded
  BY DEF Polluted, ServersOf, Opened
<1>2. \A k \in Server : owner[k] = p => owner'[k] = p
  BY StepCases, LogConstants
  DEF TypeOK, None, Begin, Open, Write, Break, CreatePipe, StartThread, Accept, Miss, Forward,
      Lose, Cut, ShutDown, Start, Pool, vars, injection
<1>3. \A k \in Server : Opened(k) => Opened(k)'
  <2>1. Next => \/ pipe' = pipe
                \/ \E k \in Server, new \in {"free", "held", "broken", "closed"} :
                     /\ pipe' = [pipe EXCEPT ![k] = new]
                     /\ new = "free" => place[k] = "create"
    <3>1. (\E q \in Pid : Open(q)) => \E k \in Server : pipe' = [pipe EXCEPT ![k] = "held"]
      BY Zenon DEF Open, ServersOf
    <3>2. (\E k \in Server : Lose(k)) =>
             \/ pipe' = pipe
             \/ \E k \in Server : pipe' = [pipe EXCEPT ![k] = "closed"]
      BY DEF Lose
    <3>3. (\E k \in Server : CreatePipe(k)) =>
             \/ pipe' = pipe
             \/ \E k \in Server : pipe' = [pipe EXCEPT ![k] = "free"] /\ place[k] = "create"
      BY DEF CreatePipe
    <3> QED
      BY StepCases, <3>1, <3>2, <3>3
      DEF Begin, Write, Break, StartThread, Accept, Miss, Forward, Cut, ShutDown, Start
  <2>2. Next \/ pipe' = pipe
    BY DEF vars
  <2> QED
    BY <2>1, <2>2 DEF TypeOK, ServerInv, Opened
<1>4. crowded \subseteq crowded'
  BY StepCases
  DEF Begin, Open, Write, Break, CreatePipe, StartThread, Accept, Miss, Forward,
      Lose, Cut, ShutDown, Start, Pool, vars, injection
<1> QED
  BY <1>1, <1>2, <1>3, <1>4 DEF Polluted, ServersOf, Opened

\* Two instances of a process that were opened pollute it.
LEMMA Lone ==
  ASSUME TypeOK, CrowdInv, NEW i \in Server, NEW j \in Server, Opened(i), Opened(j),
         owner[i] \in Pid, owner[j] = owner[i], ~Polluted(owner[i])
  PROVE  i = j
BY LogConstants DEF CrowdInv, Polluted, ServersOf, Opened, None

\* The stream of one process, and of one instance.
Stream(p, i) ==
  conn[i] \in {"none", "up"} /\ pipe[i] \in {"held", "broken"} =>
    Chained(StoredBy(i), data[i], sent[i])

LEMMA StreamSame ==
  ASSUME NEW p, NEW i \in Server, owner[i] = p, Stream(p, i), UNCHANGED log,
         owner'[i] = owner[i], data'[i] = data[i], sent'[i] = sent[i], conn'[i] = conn[i],
         pipe'[i] = pipe[i]
  PROVE  Stream(p, i)'
<1>1. StoredBy(i)' = StoredBy(i)
  BY DEF StoredBy
<1> QED
  BY <1>1 DEF Stream, Chained, Numbered

LEMMA StreamKept ==
  ASSUME Inv, TypeOK', ServerInv', CrowdInv', [Next]_vars
  PROVE  StreamInv'
<1> SUFFICES ASSUME NEW p \in Pid, ~Polluted(p)'
             PROVE  Numbered(log[p].messages, 0)' /\ \A i \in ServersOf(p)' : Stream(p, i)'
  BY Zenon DEF StreamInv, Stream
<1> USE DEF Inv
<1>1. ~Polluted(p)
  BY PollutedStays
<1>2. Numbered(log[p].messages, 0) /\ \A i \in ServersOf(p) : Stream(p, i)
  BY <1>1 DEF StreamInv, Stream
\* What leaves the log, the pipe and its reader as they are.
<1>3. ASSUME UNCHANGED <<owner, data, sent, log>>,
             \A i \in ServersOf(p) : /\ conn'[i] \in {"none", "up"} => conn[i] \in {"none", "up"}
                                     /\ pipe'[i] \in {"held", "broken"} => pipe[i] \in {"held", "broken"}
      PROVE  Numbered(log[p].messages, 0)' /\ \A i \in ServersOf(p)' : Stream(p, i)'
  <2>1. \A i \in ServersOf(p)' : i \in ServersOf(p) /\ StoredBy(i)' = StoredBy(i)
    BY <1>3 DEF ServersOf, StoredBy
  <2>2. ASSUME NEW i \in ServersOf(p)' PROVE Stream(p, i)'
    BY <1>2, <1>3, <2>1, <2>2 DEF Stream, Chained, Numbered
  <2> QED
    BY <1>2, <1>3, <2>2 DEF Numbered
<1>4. CASE UNCHANGED vars
  BY <1>3, <1>4 DEF vars, injection, monitor
<1>5. CASE \E q \in Pid : q \in pool /\ told' = told \cup {q}
                          /\ UNCHANGED <<serving, pool, crowded, owner, place, pipe, monitor, conn, log>>
  BY <1>3, <1>5 DEF monitor
<1>6. ASSUME NEW q \in Pid, Begin(q)
      PROVE  Numbered(log[p].messages, 0)' /\ \A i \in ServersOf(p)' : Stream(p, i)'
  <2>1. PICK k \in Server : owner[k] = None /\ owner' = [owner EXCEPT ![k] = q]
    BY <1>6, Zenon DEF Begin
  <2>2. pipe[k] = "none" /\ UNCHANGED <<pipe, data, sent, conn, log>>
    BY <1>6, <2>1 DEF TypeOK, ServerInv, Begin, monitor
  <2>3. ASSUME NEW i \in ServersOf(p)' PROVE Stream(p, i)'
    <3>1. CASE i = k
      BY <2>2, <3>1 DEF Stream
    <3>2. CASE i # k
      <4>1. i \in ServersOf(p) /\ owner'[i] = owner[i]
        BY <2>1, <2>3, <3>2 DEF ServersOf, TypeOK
      <4> QED
        BY <2>2, <4>1, StreamSame, <1>2 DEF ServersOf
    <3> QED
      BY <3>1, <3>2
  <2> QED
    BY <1>2, <2>2, <2>3 DEF Numbered
<1>7. ASSUME NEW q \in Pid, Open(q)
      PROVE  Numbered(log[p].messages, 0)' /\ \A i \in ServersOf(p)' : Stream(p, i)'
  <2>1. PICK k \in ServersOf(q) : /\ pipe[k] = "free" /\ pipe' = [pipe EXCEPT ![k] = "held"]
                                  /\ data' = [data EXCEPT ![k] = <<Header>>]
    BY <1>7, Zenon DEF Open
  <2>2. UNCHANGED <<owner, conn, sent, log>> /\ k \in Server /\ owner[k] = q
    BY <1>7, <2>1 DEF Open, injection, ServersOf
  <2>3. sent[k] = 0 /\ StoredBy(k) = <<>>
    BY <2>1, <2>2 DEF ServerInv, Opened, StoredBy, TypeOK, Server, None
  <2>4. ASSUME NEW i \in ServersOf(p)' PROVE Stream(p, i)'
    <3>1. i \in ServersOf(p) /\ StoredBy(i)' = StoredBy(i)
      BY <2>2, <2>4 DEF ServersOf, StoredBy
    <3>2. CASE i = k
      <4>1. data'[k] = <<Header>> /\ sent'[k] = 0 /\ StoredBy(k)' = <<>>
        BY <2>1, <2>2, <2>3, <3>1, <3>2 DEF TypeOK
      <4> QED
        BY <3>2, <4>1, ChainBegins DEF Stream, Chained, Numbered
    <3>3. CASE i # k
      <4>1. i \in Server /\ data'[i] = data[i] /\ pipe'[i] = pipe[i]
        BY <2>1, <3>1, <3>3 DEF TypeOK, ServersOf
      <4> QED
        BY <1>2, <2>2, <3>1, <4>1 DEF Stream, Chained, Numbered
    <3> QED
      BY <3>2, <3>3
  <2> QED
    BY <1>2, <2>2, <2>4 DEF Numbered
<1>8. ASSUME NEW k \in Server, Write(k)
      PROVE  Numbered(log[p].messages, 0)' /\ \A i \in ServersOf(p)' : Stream(p, i)'
  <2>1. /\ UNCHANGED <<owner, conn, pipe, log>> /\ pipe[k] = "held" /\ sent[k] + 1 \in 0..MaxRecord
        /\ sent' = [sent EXCEPT ![k] = sent[k] + 1]
        /\ data' = [data EXCEPT ![k] = Append(data[k], sent[k] + 1)]
    BY <1>8 DEF Write, injection, TypeOK
  <2>2. ASSUME NEW i \in ServersOf(p)' PROVE Stream(p, i)'
    <3>1. i \in ServersOf(p) /\ i \in Server /\ StoredBy(i)' = StoredBy(i) /\ owner[i] \in Pid
      BY <2>1, <2>2 DEF ServersOf, StoredBy
    <3>2. CASE i = k
      <4>1. data'[k] = Append(data[k], sent[k] + 1) /\ sent'[k] = sent[k] + 1
            /\ data[k] \in Messages /\ sent[k] \in Nat /\ StoredBy(k) \in Messages
        BY <2>1, <3>1, <3>2, StoredByType, LogConstants DEF TypeOK, Messages
      <4>2. Stream(p, k) => (conn[k] \in {"none", "up"} =>
                               Chained(StoredBy(k), Append(data[k], sent[k] + 1), sent[k] + 1))
        BY <2>1, <4>1, ChainGrows DEF Stream
      <4> QED
        <5>1. Stream(p, k)' = (conn[k] \in {"none", "up"} =>
                                 Chained(StoredBy(k), Append(data[k], sent[k] + 1), sent[k] + 1))
          BY <2>1, <3>1, <3>2, <4>1 DEF Stream, Chained, Numbered
        <5> QED
          BY <1>2, <3>1, <3>2, <4>2, <5>1
    <3>3. CASE i # k
      <4>1. data'[i] = data[i] /\ sent'[i] = sent[i]
        BY <2>1, <3>1, <3>3 DEF TypeOK
      <4> QED
        BY <1>2, <2>1, <3>1, <4>1 DEF Stream, Chained, Numbered
    <3> QED
      BY <3>2, <3>3
  <2> QED
    BY <1>2, <2>1, <2>2 DEF Numbered
<1>9. ASSUME NEW k \in Server, Break(k)
      PROVE  Numbered(log[p].messages, 0)' /\ \A i \in ServersOf(p)' : Stream(p, i)'
  BY <1>3, <1>9 DEF Break, TypeOK, ServersOf, injection, monitor
<1>10. ASSUME NEW k \in Server, CreatePipe(k)
       PROVE  Numbered(log[p].messages, 0)' /\ \A i \in ServersOf(p)' : Stream(p, i)'
  BY <1>3, <1>10 DEF CreatePipe, TypeOK, ServersOf, monitor
<1>11. ASSUME NEW k \in Server, StartThread(k)
       PROVE  Numbered(log[p].messages, 0)' /\ \A i \in ServersOf(p)' : Stream(p, i)'
  <2>1. UNCHANGED <<owner, pipe, data, sent, log>> /\ conn[k] = "none"
    BY <1>11 DEF StartThread, ServerInv, monitor
  <2>2. \A i \in Server : conn'[i] = conn[i] \/ i = k
    BY <1>11 DEF StartThread, TypeOK
  <2> QED
    BY <1>3, <2>1, <2>2 DEF ServersOf
<1>12. ASSUME NEW k \in Server, Accept(k)
       PROVE  Numbered(log[p].messages, 0)' /\ \A i \in ServersOf(p)' : Stream(p, i)'
  BY <1>3, <1>12 DEF Accept, injection, monitor
<1>13. ASSUME NEW k \in Server, Miss(k) \/ Lose(k)
       PROVE  Numbered(log[p].messages, 0)' /\ \A i \in ServersOf(p)' : Stream(p, i)'
  <2>1. /\ UNCHANGED <<owner, sent, log>> /\ conn'[k] \notin {"none", "up"}
        /\ \A i \in Server : i # k => /\ conn'[i] = conn[i] /\ data'[i] = data[i]
                                      /\ pipe'[i] = pipe[i]
    BY <1>13 DEF Miss, Lose, TypeOK, injection
  <2>2. ASSUME NEW i \in ServersOf(p)' PROVE Stream(p, i)'
    <3>1. CASE i = k
      BY <2>1, <3>1 DEF Stream
    <3>2. CASE i # k
      BY <1>2, <2>1, <2>2, <3>2, StreamSame DEF ServersOf
    <3> QED
      BY <3>1, <3>2
  <2> QED
    BY <1>2, <2>1, <2>2 DEF Numbered
<1>14. ASSUME NEW k \in Server, Cut(k)
       PROVE  Numbered(log[p].messages, 0)' /\ \A i \in ServersOf(p)' : Stream(p, i)'
  BY <1>3, <1>14 DEF Cut, TypeOK, ServersOf, injection, monitor
<1>15. CASE ShutDown \/ Start
  BY <1>3, <1>15 DEF ShutDown, Start, injection, monitor
<1>16. ASSUME NEW k \in Server, Forward(k)
       PROVE  Numbered(log[p].messages, 0)' /\ \A i \in ServersOf(p)' : Stream(p, i)'
  <2> DEFINE m == Head(data[k])
  <2>1. /\ data[k] # <<>> /\ conn[k] = "up" /\ place[k] = "serve"
        /\ data' = [data EXCEPT ![k] = Tail(data[k])]
        /\ log' = [log EXCEPT ![owner[k]] = Stored(k, m)]
        /\ UNCHANGED <<owner, pipe, sent, conn>>
    BY <1>16 DEF Forward, injection
  <2>2. /\ owner[k] \in Pid /\ pipe[k] \in {"held", "broken"} /\ sent[k] \in Nat
        /\ data[k] \in Messages
    BY <2>1, LogConstants DEF TypeOK, Messages
  <2>3. m \in 0..MaxRecord /\ StoredBy(k) \in Messages
    BY <2>1, <2>2, HeadTailProperties, StoredByType DEF Messages
  <2>4. CASE owner[k] # p
    <3>1. log'[p] = log[p]
      BY <2>1, <2>2, <2>4 DEF TypeOK
    <3>2. ASSUME NEW i \in ServersOf(p)' PROVE Stream(p, i)'
      <4>1. i \in ServersOf(p) /\ i \in Server /\ owner[i] = p /\ i # k
        BY <2>1, <2>4, <3>2 DEF ServersOf
      <4>2. data'[i] = data[i] /\ StoredBy(i)' = StoredBy(i)
        BY <2>1, <3>1, <4>1 DEF TypeOK, StoredBy
      <4> QED
        BY <1>2, <2>1, <4>1, <4>2 DEF Stream, Chained, Numbered
    <3> QED
      BY <1>2, <3>1, <3>2 DEF Numbered
  <2>5. CASE owner[k] = p
    <3>1. Chained(StoredBy(k), data[k], sent[k])
      BY <1>2, <2>1, <2>2, <2>5 DEF Stream, ServersOf
    <3>2. m = Len(StoredBy(k)) /\ Chained(Append(StoredBy(k), m), Tail(data[k]), sent[k])
      BY <2>1, <2>2, <2>3, <3>1, ChainMoves
    <3>3. Stored(k, m).messages = Append(StoredBy(k), m)
      <4>1. CASE log[p].by = k
        BY <1>2, <2>2, <2>3, <2>5, <4>1, StoredAppends DEF StoredBy
      <4>2. CASE log[p].by # k
        <5>1. StoredBy(k) = <<>> /\ m = Header
          BY <2>5, <3>2, <4>2 DEF StoredBy, Header
        <5>2. log[p].by = None
          <6>1. log[p].by \in Server \cup {None}
            BY DEF TypeOK
          <6>2. log[p].by # None => owner[log[p].by] = p /\ Opened(log[p].by)
            BY DEF ServerInv
          <6>3. Opened(k)
            BY <2>2 DEF Opened
          <6> QED
            BY <1>1, <2>2, <2>5, <4>2, <6>1, <6>2, <6>3, Lone
        <5>3. Stored(k, m).messages = <<Header>>
          BY <2>2, <2>5, <5>1, <5>2, StoredBegins
        <5> QED
          BY <5>1, <5>3
      <4> QED
        BY <4>1, <4>2
    <3>4. log'[p] = Stored(k, m) /\ log'[p].by = k
      BY <2>1, <2>2, <2>3, <2>5, StoredFacts DEF TypeOK
    <3>5. StoredBy(k)' = Append(StoredBy(k), m) /\ log'[p].messages = Append(StoredBy(k), m)
      BY <2>1, <2>5, <3>3, <3>4 DEF StoredBy
    <3>6. data'[k] = Tail(data[k])
      BY <2>1 DEF TypeOK
    <3>7. Numbered(log'[p].messages, 0) /\ Chained(StoredBy(k)', data'[k], sent'[k])
      BY <2>1, <3>2, <3>5, <3>6 DEF Chained
    <3>8. ASSUME NEW i \in ServersOf(p)' PROVE Stream(p, i)'
      <4>1. CASE i = k
        BY <3>7, <4>1 DEF Stream, Chained, Numbered
      <4>2. CASE i # k
        <5>1. i \in Server /\ owner[i] = p
          BY <2>1, <3>8 DEF ServersOf
        <5>2. ~Opened(i)
          BY <1>1, <2>2, <2>5, <4>2, <5>1, Lone DEF Opened
        <5> QED
          BY <2>1, <5>2 DEF Stream, Opened
      <4> QED
        BY <4>1, <4>2
    <3> QED
      BY <3>7, <3>8 DEF Numbered
  <2> QED
    BY <2>4, <2>5
<1>17. CASE Next
  BY <1>17, <1>5, <1>6, <1>7, <1>8, <1>9, <1>10, <1>11, <1>12, <1>13, <1>14, <1>15, <1>16,
     StepCases, Zenon
<1> QED
  BY <1>4, <1>17

-----------------------------------------------------------------------------
(* Theorems. *)

LEMMA InvHolds == Spec => []Inv
<1>1. Init => Inv
  <2>1. ASSUME Init PROVE TypeOK
    BY <2>1, LogConstants, EmptySeq DEF Init, TypeOK, Server, None
  <2>2. ASSUME Init PROVE ServerInv /\ CrowdInv
    BY <2>1, <2>2 DEF Init, ServerInv, CrowdInv, Opened, None
  <2>3. ASSUME Init PROVE StreamInv
    BY <2>3 DEF Init, StreamInv, Numbered
  <2> QED
    BY <2>1, <2>2, <2>3 DEF Inv
<1>2. Inv /\ [Next]_vars => Inv'
  <2> SUFFICES ASSUME Inv, [Next]_vars PROVE Inv'
    OBVIOUS
  <2>1. TypeOK'
    BY TypeKept DEF Inv
  <2>2. ServerInv'
    BY <2>1, ServerKept DEF Inv
  <2>3. CrowdInv'
    BY CrowdKept DEF Inv
  <2> QED
    BY <2>1, <2>2, <2>3, StreamKept DEF Inv
<1> QED
  BY <1>1, <1>2, PTL DEF Spec

\* Every state has its type.
THEOREM TypeCorrect == Spec => []TypeOK
BY InvHolds, PTL DEF Inv

\* The log of a process that is not polluted is its own, whole and in order: process.py:713
\* looks at the pool, and log.py keeps one connection to one instance.
THEOREM LogsAreWhole == Spec => []LogWhole
<1>1. Inv => LogWhole
  <2> SUFFICES ASSUME Inv, NEW p \in Pid, ~Polluted(p)
               PROVE  /\ \E n \in 0..MaxRecord : log[p].messages \in {<<>>, Upto(n)}
                      /\ \A i \in ServersOf(p) :
                           place[i] \in {"listen", "serve"} /\ conn[i] = "up" /\ pipe[i] # "free" =>
                             StoredBy(i) \o data[i] = Upto(sent[i])
    BY Zenon DEF LogWhole
  <2>1. \E n \in 0..MaxRecord : log[p].messages \in {<<>>, Upto(n)}
    BY NumberedIsUpto DEF Inv, StreamInv, TypeOK, Messages
  <2>2. ASSUME NEW i \in ServersOf(p), place[i] \in {"listen", "serve"}, conn[i] = "up",
               pipe[i] # "free"
        PROVE  StoredBy(i) \o data[i] = Upto(sent[i])
    <3>1. i \in Server /\ owner[i] \in Pid
      BY DEF ServersOf
    <3>2. pipe[i] \in {"held", "broken"}
      BY <2>2, <3>1 DEF Inv, TypeOK, ServerInv
    <3>3. Chained(StoredBy(i), data[i], sent[i])
      BY <2>2, <3>2 DEF Inv, StreamInv
    <3>4. StoredBy(i) \in Messages /\ data[i] \in Messages /\ sent[i] \in 0..MaxRecord
      BY <3>1, StoredByType DEF Inv, TypeOK, Messages
    <3> QED
      BY <3>3, <3>4, ChainIsWhole
  <2> QED
    BY <2>1, <2>2
<1> QED
  BY InvHolds, <1>1, PTL

=============================================================================
