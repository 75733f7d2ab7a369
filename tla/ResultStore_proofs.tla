------------------------- MODULE ResultStore_proofs -------------------------
(***************************************************************************)
(* Theorems about ResultStore, for any connections, any amount of content, *)
(* any upload_max_size and any pool_size.  The inductive invariant Inv     *)
(* says what the handler of each connection has read and written, who has  *)
(* the one uploaded file, and that a connection is counted at most once.   *)
(***************************************************************************)
EXTENDS ResultStore, FiniteSetTheorems, SequenceTheorems, TLAPS

USE StoreConstants

Chunk == Conn \cup {Hole}
Line == [conn : Conn, incomplete : BOOLEAN, truncated : BOOLEAN]
HandlerState == {"none", "queued", "recorded", "died", "killed", "lost"} \cup Busy

\* The type invariant by what it speaks of.  What stats may amount to is below.
PeerTypes ==
  /\ kind \in [Conn -> Kind \cup {"none"}]
  /\ peer \in [Conn -> {"new", "open", "closed", "reset"}]
  /\ sent \in [Conn -> 0..Size]
HandlerTypes ==
  /\ handler \in [Conn -> HandlerState]
  /\ got \in [Conn -> 0..Size] /\ pos \in [Conn -> 0..Size] /\ held \in [Conn -> 0..Size]
  /\ failed \subseteq Conn /\ unflushed \subseteq Conn /\ capped \subseteq Conn
DiskTypes ==
  /\ stored \in [Place -> Seq(Chunk)] /\ made \subseteq Place /\ listed \subseteq Line
StopTypes ==
  /\ server \in {"up", "draining", "stopped"}
  /\ caller \in {"no", "join", "stop", "force", "told"}
  /\ stats \in [complete : Nat, incomplete : Nat]
Types == PeerTypes /\ HandlerTypes /\ DiskTypes /\ StopTypes

\* A handler that has not opened its file has nothing; one that copies has read
\* what was sent, and of an upload of which no write has failed it has as much as
\* upload_max_size allows in the file or the buffer.
HeaderOf(c) ==
  /\ (kind[c] = "none" <=> peer[c] = "new") /\ (handler[c] = "none" <=> peer[c] = "new")
  /\ handler[c] = "copying" => kind[c] \in Place
  /\ handler[c] = "discarding" => kind[c] \in Whole \cup {"log"}
ContentOf(c) ==
  /\ handler[c] \in {"none", "queued", "header"} =>
       got[c] = 0 /\ pos[c] = 0 /\ c \notin failed /\ c \notin capped
  /\ held[c] > 0 => handler[c] \in {"copying", "killed"} /\ kind[c] \in Place
  /\ got[c] <= sent[c] /\ pos[c] + held[c] <= got[c]
  /\ handler[c] = "copying" /\ kind[c] \in Whole /\ c \notin failed =>
       pos[c] + held[c] = Cap(got[c]) /\ (c \in capped <=> got[c] > MaxUpload)
ConnInv == \A c \in Conn : HeaderOf(c) /\ ContentOf(c)

\* files.json has lines of ended handlers only, and a line that says that all is
\* there is right about it, unless the last flush has failed.
ListedInv ==
  \A e \in listed :
    /\ handler[e.conn] = "recorded"
    /\ kind[e.conn] \in Whole /\ ~e.incomplete =>
         /\ peer[e.conn] = "closed" /\ (e.truncated <=> sent[e.conn] > MaxUpload)
         /\ e.conn \notin unflushed => pos[e.conn] = Cap(sent[e.conn])

\* Connection c has not had the uploaded file.
Elsewhere(c) ==
  kind[c] = "upload" =>
    /\ handler[c] # "copying" /\ held[c] = 0
    /\ \A e \in listed : e.conn = c => e.incomplete

\* The uploaded file is that of the one connection that has created it.
UploadOf(w) ==
  /\ kind[w] = "upload" /\ handler[w] \notin {"none", "queued", "header"}
  /\ stored["upload"] = [j \in 1..pos[w] |-> w]
  /\ \A c \in Conn \ {w} : Elsewhere(c)
UploadInv ==
  IF "upload" \in made THEN \E w \in Conn : UploadOf(w)
  ELSE stored["upload"] = <<>> /\ \A c \in Conn : Elsewhere(c)

\* A *_script.log has what its connections have put there.
Own(c) == {j \in DOMAIN stored["script"] : stored["script"][j] = c}
ScriptInv ==
  \A c \in Conn : Cardinality(Own(c)) = IF kind[c] = "script" THEN pos[c] ELSE 0

\* Connections that may have been counted in STATS, none of them twice.
Counted == {c \in Conn : \/ handler[c] \in {"recorded", "died", "killed", "lost"}
                         \/ handler[c] = "discarding" /\ kind[c] = "log"}
CountInv == stats.complete + stats.incomplete <= Cardinality(Counted)
SummaryInv == summary \in {<<>>} \cup {<<n>> : n \in 0..Cardinality(Conn)}

Inv == Types /\ ConnInv /\ ListedInv /\ UploadInv /\ ScriptInv /\ CountInv /\ SummaryInv

-----------------------------------------------------------------------------
(* Types. *)

LEMMA WrittenIsFile ==
  ASSUME NEW s \in Seq(Chunk), NEW k \in Nat, NEW n \in Nat, NEW c \in Conn
  PROVE  Written(s, k, n, c) \in Seq(Chunk)
<1> DEFINE end == IF n > 0 /\ k + n > Len(s) THEN k + n ELSE Len(s)
           chunk(j) == IF k < j /\ j <= k + n THEN c ELSE IF j <= Len(s) THEN s[j] ELSE Hole
<1>1. end \in Nat /\ DOMAIN s = 1..Len(s)
  OBVIOUS
<1>2. \A j \in 1..end : chunk(j) \in Chunk
  <2> SUFFICES ASSUME NEW j \in 1..end, j <= Len(s) PROVE s[j] \in Chunk
    BY DEF Chunk
  <2> QED
    BY <1>1, ElementOfSeq
<1>3. Written(s, k, n, c) = [j \in 1..end |-> chunk(j)]
  BY DEF Written
<1> HIDE DEF chunk, end
<1>4. [j \in 1..end |-> chunk(j)] \in [1..end -> Chunk]
  BY <1>2
<1> QED
  BY <1>1, <1>3, <1>4

\* The file t is s with n more chunks of c.
Longer(s, t, n, c) == t = [j \in 1..Len(s) + n |-> IF j <= Len(s) THEN s[j] ELSE c]

\* n more chunks at the end of a file.
LEMMA WrittenAtEnd ==
  ASSUME NEW s \in Seq(Chunk), NEW n \in Nat, NEW c
  PROVE  Longer(s, Written(s, Len(s), n, c), n, c)
<1>1. Len(s) \in Nat
  OBVIOUS
<1>2. (IF n > 0 /\ Len(s) + n > Len(s) THEN Len(s) + n ELSE Len(s)) = Len(s) + n
  BY <1>1
<1>3. \A j \in 1..Len(s) + n :
        (IF Len(s) < j /\ j <= Len(s) + n THEN c ELSE IF j <= Len(s) THEN s[j] ELSE Hole) =
        (IF j <= Len(s) THEN s[j] ELSE c)
  BY <1>1
<1> QED
  BY <1>2, <1>3 DEF Written, Longer

\* What a handler's step may rely on and leaves alone.
LEMMA HandlerFrame ==
  ASSUME Inv, NEW c \in Conn, Handler(c)
  PROVE  /\ UNCHANGED <<peerVars, stopVars>>
         /\ handler[c] \in {"queued", "killed"} \cup Busy
         /\ handler'[c] \in HandlerState \ {"none", "queued"}
         /\ handler[c] = "killed" => handler'[c] = "killed"
         /\ handler' = [handler EXCEPT ![c] = handler'[c]]
         /\ got' = [got EXCEPT ![c] = got'[c]] /\ pos' = [pos EXCEPT ![c] = pos'[c]]
         /\ held' = [held EXCEPT ![c] = held'[c]]
         /\ failed \subseteq failed' /\ failed' \subseteq failed \cup {c}
         /\ unflushed \subseteq unflushed' /\ unflushed' \subseteq unflushed \cup {c}
         /\ capped \subseteq capped' /\ capped' \subseteq capped \cup {c}
<1> USE DEF Inv, Types, HandlerTypes, peerVars, connVars, diskVars, stopVars, Goto, Busy, HandlerState, Record
<1>1. CASE Accept(c)
  BY <1>1 DEF Accept
<1>2. CASE HeaderFails(c)
  BY <1>2 DEF HeaderFails
<1>3. CASE OpenDuplicate(c)
  BY <1>3 DEF OpenDuplicate
<1>4. CASE OpenUpload(c) \/ OpenScript(c)
  BY <1>4 DEF OpenUpload, OpenScript
<1>5. CASE OpenStream(c)
  BY <1>5 DEF OpenStream
<1>6. CASE OpenLog(c)
  BY <1>6 DEF OpenLog
<1>7. CASE Copy(c)
  BY <1>7 DEF Copy, Flush
<1>8. CASE EndCopy(c)
  BY <1>8 DEF EndCopy, FlushAll, Flush
<1>9. CASE EndDiscard(c)
  BY <1>9 DEF EndDiscard
<1>10. CASE CloseKilled(c)
  BY <1>10 DEF CloseKilled, FlushAll, Flush
<1> QED
  BY <1>1, <1>2, <1>3, <1>4, <1>5, <1>6, <1>7, <1>8, <1>9, <1>10 DEF Handler

\* What reaches the disk: part of what the handler holds and has just read, in a
\* step that copies or closes, or else the emptied file of a stream.
LEMMA DiskStep ==
  ASSUME Inv, NEW c \in Conn, Handler(c)
  PROVE  \/ UNCHANGED <<stored, pos, held>>
         \/ UNCHANGED <<pos, held>> /\ stored' = [stored EXCEPT !["stream"] = <<>>]
         \/ /\ handler[c] \in {"copying", "killed"} /\ (handler[c] = "killed" => held[c] > 0)
            /\ kind[c] \in Place /\ held'[c] \in Nat
            /\ \/ Copy(c) /\ pos'[c] + held'[c] <= pos[c] + held[c] + 1
               \/ ~Copy(c) /\ held'[c] = 0 /\ pos'[c] <= pos[c] + held[c]
            /\ \E n \in Nat : Flush(c, n) /\ pos'[c] = pos[c] + n
<1> USE DEF Inv, Types, HandlerTypes
<1>0. held[c] \in Nat /\ pos[c] \in Nat /\ (handler[c] = "copying" => kind[c] \in Place)
      /\ (held[c] > 0 => kind[c] \in Place)
  BY DEF ConnInv, HeaderOf, ContentOf
<1>1. CASE Copy(c)
  <2>1. handler[c] = "copying" /\ kind[c] \in Place
    BY <1>0, <1>1 DEF Copy
  <2>2. \/ UNCHANGED <<stored, pos, held>>
        \/ \E n \in {0, held[c] + 1} : Flush(c, n) /\ held' = [held EXCEPT ![c] = held[c] + 1 - n]
        \/ \E n \in {0, held[c]} : Flush(c, n) /\ held' = [held EXCEPT ![c] = held[c] - n]
        \/ (\E n \in {0, held[c]} : Flush(c, n)) /\ held' = [held EXCEPT ![c] = 0]
    BY <1>1 DEF Copy
  <2>3. \A n \in Nat : Flush(c, n) => pos'[c] = pos[c] + n
    BY DEF Flush
  <2> QED
    BY <1>0, <1>1, <2>1, <2>2, <2>3
<1>2. CASE EndCopy(c) \/ CloseKilled(c)
  <2>1. /\ \E n \in 0..held[c] : Flush(c, n)
        /\ held' = [held EXCEPT ![c] = 0]
        /\ handler[c] \in {"copying", "killed"} /\ (handler[c] = "killed" => held[c] > 0)
    BY <1>2 DEF EndCopy, CloseKilled, FlushAll
  <2>2. ~Copy(c)
    <3>1. got' = got
      BY <1>2 DEF EndCopy, CloseKilled, FlushAll
    <3>2. Copy(c) => got'[c] = got[c] + 1
      BY DEF Copy
    <3> QED
      BY <3>1, <3>2
  <2>3. \A n \in Nat : Flush(c, n) => pos'[c] = pos[c] + n
    BY DEF Flush
  <2> QED
    BY <1>0, <2>1, <2>2, <2>3
<1>3. CASE OpenStream(c)
  BY <1>3 DEF OpenStream, connVars
<1>4. CASE ~Copy(c) /\ ~EndCopy(c) /\ ~CloseKilled(c) /\ ~OpenStream(c)
  BY <1>4 DEF Handler, Accept, HeaderFails, OpenDuplicate, OpenUpload, OpenScript, OpenLog,
              EndDiscard, connVars, diskVars
<1> QED
  BY <1>1, <1>2, <1>3, <1>4

LEMMA HandlerTypesHold ==
  ASSUME Inv, NEW c \in Conn, Handler(c)
  PROVE  Types'
<1> USE DEF Inv, Types
<1>1. UNCHANGED <<peerVars, server, caller, summary>>
  BY HandlerFrame DEF stopVars
<1>2. PeerTypes'
  BY <1>1 DEF PeerTypes, peerVars
<1>3. got'[c] \in 0..Size /\ pos'[c] \in 0..Size /\ held'[c] \in 0..Size
  <2>1. /\ got[c] \in Nat /\ pos[c] \in Nat /\ held[c] \in Nat /\ sent[c] \in 0..Size /\ Size \in Nat
        /\ got[c] <= sent[c] /\ pos[c] + held[c] <= got[c]
    BY DEF ConnInv, ContentOf, HandlerTypes, PeerTypes
  <2>2. \/ Copy(c) /\ got[c] < sent[c] /\ got'[c] = got[c] + 1
        \/ ~Copy(c) /\ got'[c] = got[c]
    BY DEF Handler, Accept, HeaderFails, OpenDuplicate, OpenUpload, OpenScript, OpenStream, OpenLog,
           Copy, EndCopy, EndDiscard, CloseKilled, FlushAll, connVars, HandlerTypes
  <2>3. \/ pos'[c] = pos[c] /\ held'[c] = held[c]
        \/ /\ pos'[c] \in Nat /\ held'[c] \in Nat
           /\ \/ Copy(c) /\ pos'[c] + held'[c] <= pos[c] + held[c] + 1
              \/ held'[c] = 0 /\ pos'[c] <= pos[c] + held[c]
    BY <2>1, DiskStep
  <2> QED
    BY <2>1, <2>2, <2>3
<1>4. HandlerTypes'
  BY <1>3, HandlerFrame DEF HandlerTypes
<1>5. \A complete \in BOOLEAN : Record(c, complete) =>
        listed' \subseteq Line /\ stats' \in [complete : Nat, incomplete : Nat]
  <2> SUFFICES ASSUME NEW complete \in BOOLEAN, Record(c, complete)
               PROVE  listed' \subseteq Line /\ stats' \in [complete : Nat, incomplete : Nat]
    OBVIOUS
  <2>1. [conn |-> c, incomplete |-> ~complete, truncated |-> c \in capped] \in Line
    BY DEF Line
  <2>2. listed' \subseteq Line
    BY <2>1 DEF Record, DiskTypes
  <2>3. stats' \in [complete : Nat, incomplete : Nat]
    BY DEF Record, StopTypes
  <2> QED
    BY <2>2, <2>3
<1>6. listed' \subseteq Line /\ stats' \in [complete : Nat, incomplete : Nat]
  <2>1. CASE \E complete \in BOOLEAN : Record(c, complete)
    BY <1>5, <2>1
  <2>2. CASE ~\E complete \in BOOLEAN : Record(c, complete)
    <3>1. listed' = listed /\ (stats' = stats \/ stats' = [stats EXCEPT !.incomplete = @ + 1])
      BY <2>2 DEF Handler, Accept, HeaderFails, OpenDuplicate, OpenUpload, OpenScript, OpenStream, OpenLog, Copy,
                  EndCopy, EndDiscard, CloseKilled, FlushAll, diskVars
    <3> QED
      BY <3>1 DEF DiskTypes, StopTypes
  <2> QED
    BY <2>1, <2>2
<1>7. stored' \in [Place -> Seq(Chunk)]
  <2>1. <<>> \in Seq(Chunk)
    OBVIOUS
  <2>2. ASSUME NEW n \in Nat, Flush(c, n), kind[c] \in Place
        PROVE  stored' \in [Place -> Seq(Chunk)]
    <3>1. stored[kind[c]] \in Seq(Chunk) /\ pos[c] \in Nat
      BY <2>2 DEF DiskTypes, HandlerTypes
    <3>2. Offset(c) \in Nat
      BY <3>1 DEF Offset
    <3>3. Written(stored[kind[c]], Offset(c), n, c) \in Seq(Chunk)
      BY <3>1, <3>2, WrittenIsFile
    <3> QED
      BY <2>2, <3>3 DEF Flush, DiskTypes
  <2> QED
    BY <2>1, <2>2, DiskStep DEF DiskTypes
<1>8. made' \subseteq Place
  BY DEF Handler, Accept, HeaderFails, OpenDuplicate, OpenUpload, OpenScript, OpenStream, OpenLog, Copy,
         EndCopy, EndDiscard, CloseKilled, FlushAll, diskVars, DiskTypes, Place
<1> QED
  BY <1>1, <1>2, <1>4, <1>6, <1>7, <1>8 DEF DiskTypes, StopTypes

\* The steps of the peers and of the shutdown, for one connection: it is made,
\* or its handler is dropped, and what a peer that has closed has sent is all.
Quiet(c) ==
  /\ \/ handler'[c] = handler[c] /\ (peer'[c] = "new" <=> peer[c] = "new")
     \/ handler[c] = "none" /\ handler'[c] = "queued" /\ peer'[c] # "new"
     \/ handler[c] = "queued" /\ handler'[c] = "lost" /\ (peer'[c] = "new" <=> peer[c] = "new")
     \/ handler[c] \in Busy /\ handler'[c] = "killed" /\ (peer'[c] = "new" <=> peer[c] = "new")
  /\ peer[c] # "new" => kind'[c] = kind[c]
  /\ kind'[c] = "none" <=> peer'[c] = "new"
  /\ sent[c] <= sent'[c]
  /\ peer[c] = "closed" => peer'[c] = "closed" /\ sent'[c] = sent[c]

LEMMA QuietFrame ==
  ASSUME Inv, (\E c \in Conn : Peer(c)) \/ Stop \/ Caller \/ Shutdown
  PROVE  /\ UNCHANGED <<connVars, diskVars, stats>>
         /\ Types' /\ SummaryInv' /\ \A c \in Conn : Quiet(c)
<1> USE DEF Inv, Types, PeerTypes, HandlerTypes, StopTypes, HandlerState
<1>1. ASSUME NEW c \in Conn, Connect(c)
      PROVE  PeerTypes' /\ HandlerTypes' /\ \A d \in Conn : Quiet(d)
  BY <1>1 DEF Connect, SetPeer, Goto, Quiet, ConnInv, HeaderOf, ContentOf, ByPeer, connVars, Kind
<1>2. ASSUME NEW c \in Conn, Send(c)
      PROVE  PeerTypes' /\ HandlerTypes' /\ \A d \in Conn : Quiet(d)
  <2>1. sent[c] < Size /\ sent[c] \in 0..Size /\ Size \in Nat /\ peer[c] = "open"
    BY <1>2 DEF Send, Served
  <2>2. sent' = [sent EXCEPT ![c] = @ + 1] /\ UNCHANGED <<kind, peer, handler, connVars>>
    BY <1>2 DEF Send, ByPeer
  <2> QED
    BY <2>1, <2>2 DEF Quiet, ConnInv, HeaderOf, ContentOf, connVars
<1>3. ASSUME NEW c \in Conn, Hangup(c)
      PROVE  PeerTypes' /\ HandlerTypes' /\ \A d \in Conn : Quiet(d)
  <2>1. peer[c] = "open" /\ \E state \in {"closed", "reset"} : peer' = [peer EXCEPT ![c] = state]
    BY <1>3 DEF Hangup, Served, SetPeer
  <2>2. UNCHANGED <<kind, sent, handler, connVars>>
    BY <1>3 DEF Hangup, ByPeer
  <2> QED
    BY <2>1, <2>2 DEF Quiet, ConnInv, HeaderOf, ContentOf, connVars
<1>4. ASSUME Stop \/ Caller \/ Shutdown
      PROVE  PeerTypes' /\ HandlerTypes' /\ \A d \in Conn : Quiet(d)
  <2>1. UNCHANGED <<kind, peer, sent, got, pos, held, failed, unflushed, capped>>
    BY <1>4 DEF Stop, Close, Drained, DrainTimeout, Caller, JoinTimeout, Tell, Shutdown,
                peerVars, connVars
  <2>2. \/ handler' = handler
        \/ handler' = [c \in Conn |-> IF handler[c] = "queued" THEN "lost" ELSE handler[c]]
        \/ handler' = [c \in Conn |-> IF handler[c] \in Busy THEN "killed" ELSE handler[c]]
    BY <1>4 DEF Stop, Close, CloseListener, Drained, DrainTimeout, Caller, JoinTimeout, Tell, Shutdown
  <2>3. handler' \in [Conn -> HandlerState]
    BY <2>2
  <2>4. \A d \in Conn : handler'[d] = handler[d] \/ (handler[d] = "queued" /\ handler'[d] = "lost")
                        \/ (handler[d] \in Busy /\ handler'[d] = "killed")
    BY <2>2
  <2> QED
    BY <2>1, <2>3, <2>4 DEF Quiet, ConnInv, HeaderOf, ContentOf
<1>5. PeerTypes' /\ HandlerTypes' /\ \A d \in Conn : Quiet(d)
  BY <1>1, <1>2, <1>3, <1>4 DEF Peer
<1>6. UNCHANGED <<connVars, diskVars, stats>>
  BY DEF Peer, Connect, Send, Hangup, ByPeer, Stop, Close, CloseListener, Drained, DrainTimeout,
         Caller, JoinTimeout, Tell, Shutdown
<1>7. DiskTypes'
  BY <1>6 DEF DiskTypes, diskVars
<1>8. server' \in {"up", "draining", "stopped"} /\ caller' \in {"no", "join", "stop", "force", "told"}
  BY DEF Peer, Connect, Send, Hangup, ByPeer, stopVars, Stop, Close, CloseListener, Drained,
         DrainTimeout, Caller, JoinTimeout, Tell, Shutdown
<1>9. SummaryInv'
  <2>1. CASE Tell
    <3>1. IsFiniteSet(Counted) /\ Cardinality(Counted) <= Cardinality(Conn)
      BY FS_Subset DEF Counted
    <3>2. Cardinality(Counted) \in Nat /\ Cardinality(Conn) \in Nat
      BY <3>1, FS_CardinalityType
    <3>3. stats.incomplete \in 0..Cardinality(Conn)
      BY <3>1, <3>2 DEF CountInv
    <3> QED
      BY <2>1, <3>3 DEF Tell, SummaryInv
  <2>2. CASE ~Tell
    <3>1. summary' = summary
      BY <2>2 DEF Peer, Connect, Send, Hangup, ByPeer, stopVars, Stop, Close, CloseListener, Drained,
                  DrainTimeout, Caller, JoinTimeout, Shutdown
    <3> QED
      BY <3>1 DEF SummaryInv
  <2> QED
    BY <2>1, <2>2
<1> QED
  BY <1>5, <1>6, <1>7, <1>8, <1>9

LEMMA QuietKeepsInv ==
  ASSUME Inv, (\E c \in Conn : Peer(c)) \/ Stop \/ Caller \/ Shutdown
  PROVE  Inv'
<1>1. /\ UNCHANGED <<got, pos, held, failed, unflushed, capped, stored, made, listed, stats>>
      /\ Types' /\ SummaryInv' /\ \A c \in Conn : Quiet(c)
  BY QuietFrame DEF connVars, diskVars
<1> USE DEF Inv, Types
<1>2. ConnInv'
  <2> SUFFICES ASSUME NEW c \in Conn PROVE HeaderOf(c)' /\ ContentOf(c)'
    BY <1>1 DEF ConnInv
  <2>1. Quiet(c) /\ HeaderOf(c) /\ ContentOf(c)
    BY <1>1 DEF ConnInv
  <2>2. HeaderOf(c)'
    BY <2>1 DEF Quiet, HeaderOf, Busy
  <2>3. got[c] <= sent'[c]
    BY <1>1, <2>1 DEF Quiet, ContentOf, PeerTypes, HandlerTypes
  <2>4. ContentOf(c)'
    BY <1>1, <2>1, <2>3 DEF Quiet, HeaderOf, ContentOf, Busy
  <2> QED
    BY <2>2, <2>4
<1>3. \A c \in Conn : handler[c] \notin {"none", "queued"} \cup Busy =>
        handler'[c] = handler[c] /\ kind'[c] = kind[c]
  BY <1>1 DEF Quiet, ConnInv, HeaderOf, ContentOf, Busy
<1>4. ListedInv'
  <2> SUFFICES ASSUME NEW e \in listed
               PROVE  /\ handler'[e.conn] = "recorded"
                      /\ kind'[e.conn] \in Whole /\ ~e.incomplete =>
                           /\ peer'[e.conn] = "closed"
                           /\ e.truncated <=> sent'[e.conn] > MaxUpload
                           /\ e.conn \notin unflushed => pos[e.conn] = Cap(sent'[e.conn])
    BY <1>1 DEF ListedInv
  <2>1. e.conn \in Conn
    BY DEF DiskTypes, Line
  <2>2. handler'[e.conn] = "recorded" /\ kind'[e.conn] = kind[e.conn]
    BY <1>3, <2>1 DEF ListedInv, Busy
  <2> QED
    BY <1>1, <2>1, <2>2 DEF ListedInv, Quiet
<1>5. \A c \in Conn : Elsewhere(c) => Elsewhere(c)'
  <2> SUFFICES ASSUME NEW c \in Conn, Elsewhere(c), kind'[c] = "upload"
               PROVE  /\ handler'[c] # "copying" /\ held[c] = 0
                      /\ \A e \in listed : e.conn = c => e.incomplete
    BY <1>1 DEF Elsewhere
  <2>1. CASE handler[c] = "none"
    <3>1. held[c] = 0
      BY <2>1 DEF ConnInv, ContentOf, HandlerTypes
    <3> QED
      BY <1>1, <2>1, <3>1 DEF Quiet, ListedInv
  <2>2. CASE handler[c] # "none"
    BY <1>1, <2>2 DEF Quiet, ConnInv, HeaderOf, ContentOf, Elsewhere
  <2> QED
    BY <2>1, <2>2
<1>6. UploadInv'
  <2>1. CASE "upload" \in made
    <3>1. PICK w \in Conn : UploadOf(w)
      BY <2>1 DEF UploadInv
    <3>2. kind'[w] = "upload" /\ handler'[w] \notin {"none", "queued", "header"}
      BY <1>1, <3>1 DEF Quiet, UploadOf, ConnInv, HeaderOf
    <3> QED
      BY <1>1, <1>5, <2>1, <3>1, <3>2 DEF UploadOf, UploadInv
  <2>2. CASE "upload" \notin made
    BY <1>1, <1>5, <2>2 DEF UploadInv
  <2> QED
    BY <2>1, <2>2
<1>7. CountInv'
  <2>1. Counted \subseteq Counted'
    BY <1>1 DEF Counted, Quiet, ConnInv, HeaderOf, ContentOf, Busy
  <2>2. Counted' \subseteq Conn
    BY DEF Counted
  <2>3. IsFiniteSet(Counted') /\ IsFiniteSet(Counted) /\ Cardinality(Counted) <= Cardinality(Counted')
    BY <2>1, <2>2, FS_Subset
  <2>4. Cardinality(Counted) \in Nat /\ Cardinality(Counted') \in Nat
    BY <2>3, FS_CardinalityType
  <2> QED
    BY <1>1, <2>3, <2>4 DEF CountInv, StopTypes
<1>8. ScriptInv'
  <2>1. \A c \in Conn : Own(c)' = Own(c)
    BY <1>1 DEF Own
  <2>2. \A c \in Conn : \/ (kind'[c] = "script" <=> kind[c] = "script")
                        \/ kind[c] # "script" /\ pos[c] = 0
    BY <1>1 DEF Quiet, ConnInv, HeaderOf, ContentOf
  <2> QED
    BY <1>1, <2>1, <2>2 DEF ScriptInv
<1> QED
  BY <1>1, <1>2, <1>4, <1>6, <1>7, <1>8

-----------------------------------------------------------------------------
(* The handlers. *)

\* Lines of files.json are of connections; a step of a handler adds at most one.
LEMMA HandlerLists ==
  ASSUME Inv, NEW c \in Conn, Handler(c)
  PROVE  /\ listed \subseteq listed' /\ \A e \in listed : e.conn \in Conn /\ e.conn # c
         /\ \A e \in listed' \ listed : e.conn = c /\ handler'[c] = "recorded"
<1>1. \A e \in listed : e.conn \in Conn
  BY DEF Inv, Types, DiskTypes, Line
<1>2. handler[c] # "recorded"
  BY HandlerFrame DEF Busy
<1>3. \A e \in listed : e.conn # c
  BY <1>2 DEF Inv, ListedInv
<1>4. CASE listed' = listed
  BY <1>1, <1>3, <1>4
<1>5. CASE \E complete \in BOOLEAN : Record(c, complete)
  BY <1>1, <1>3, <1>5 DEF Record, Goto, Inv, Types, HandlerTypes
<1>6. listed' = listed \/ \E complete \in BOOLEAN : Record(c, complete)
  BY DEF Handler, Accept, HeaderFails, OpenDuplicate, OpenUpload, OpenScript, OpenStream, OpenLog, Copy,
         EndCopy, EndDiscard, CloseKilled, FlushAll, diskVars
<1> QED
  BY <1>4, <1>5, <1>6

\* What the step does to what is known of the connection.
LEMMA HandlerKeepsConnInv ==
  ASSUME Inv, NEW c \in Conn, Handler(c)
  PROVE  ConnInv'
<1> USE DEF Inv, Types, HandlerTypes, PeerTypes
<1>1. /\ UNCHANGED <<kind, peer, sent>>
      /\ handler'[c] \in HandlerState \ {"none", "queued"}
      /\ \A d \in Conn \ {c} : /\ handler'[d] = handler[d] /\ got'[d] = got[d] /\ pos'[d] = pos[d]
                               /\ held'[d] = held[d]
                               /\ (d \in failed' <=> d \in failed) /\ (d \in capped' <=> d \in capped)
  BY HandlerFrame DEF peerVars
<1>2. \A d \in Conn : HeaderOf(d) /\ ContentOf(d)
  BY DEF ConnInv
<1>3. \A d \in Conn \ {c} : HeaderOf(d)' /\ ContentOf(d)'
  BY <1>1, <1>2 DEF HeaderOf, ContentOf
<1>0. got[c] \in Nat /\ pos[c] \in Nat /\ held[c] \in Nat /\ sent[c] \in Nat
  OBVIOUS
<1>4. ASSUME Copy(c) PROVE HeaderOf(c)' /\ ContentOf(c)'
  <2>1. /\ handler[c] = "copying" /\ kind[c] \in Place
        /\ got[c] < sent[c] /\ got'[c] = got[c] + 1 /\ handler'[c] \in {"copying", "died"}
    BY <1>2, <1>4 DEF Copy, Goto, HeaderOf
  <2>2. HeaderOf(c)'
    BY <1>1, <1>2, <2>1 DEF HeaderOf
  <2>3. /\ pos[c] + held[c] <= got[c]
        /\ kind[c] \in Whole /\ c \notin failed =>
             pos[c] + held[c] = Cap(got[c]) /\ (c \in capped <=> got[c] > MaxUpload)
    BY <1>2, <2>1 DEF ContentOf
  <2>4. \A n \in Nat : Flush(c, n) => pos'[c] = pos[c] + n
    BY DEF Flush
  <2>5. \/ Full(c) /\ capped' = capped \cup {c} /\ UNCHANGED <<handler, pos, held, failed>>
        \/ ~Full(c) /\ UNCHANGED <<handler, capped, failed>>
           /\ pos'[c] + held'[c] = pos[c] + held[c] + 1 /\ pos'[c] \in Nat /\ held'[c] \in Nat
        \/ c \in failed' /\ UNCHANGED handler
           /\ pos'[c] + held'[c] = pos[c] + held[c] /\ pos'[c] \in Nat /\ held'[c] \in Nat
        \/ /\ kind[c] \notin Whole /\ handler'[c] = "died" /\ held'[c] = 0
           /\ pos'[c] \in Nat /\ pos'[c] <= pos[c] + held[c]
    <3>1. CASE Full(c) /\ capped' = capped \cup {c} /\ UNCHANGED <<handler, pos, held, stored, failed>>
      BY <3>1
    <3>2. CASE /\ ~Full(c) /\ UNCHANGED <<handler, failed, capped>>
               /\ \E n \in {0, held[c] + 1} :
                    Flush(c, n) /\ held' = [held EXCEPT ![c] = held[c] + 1 - n]
      BY <1>0, <2>4, <3>2
    <3>3. CASE /\ failed' = failed \cup {c} /\ UNCHANGED <<handler, capped>>
               /\ \E n \in {0, held[c]} :
                    Flush(c, n) /\ held' = [held EXCEPT ![c] = held[c] - n]
      BY <1>0, <2>4, <3>3
    <3>4. CASE /\ kind[c] \notin Whole /\ Goto(c, "died") /\ held' = [held EXCEPT ![c] = 0]
               /\ \E n \in {0, held[c]} : Flush(c, n)
      BY <1>0, <2>4, <3>4 DEF Goto
    <3> QED
      BY <1>4, <3>1, <3>2, <3>3, <3>4 DEF Copy
  <2>6. got'[c] <= sent[c] /\ pos'[c] + held'[c] <= got'[c]
    BY <1>0, <2>1, <2>3, <2>5
  <2>7. kind[c] \in Whole /\ c \notin failed' =>
          pos'[c] + held'[c] = Cap(got'[c]) /\ (c \in capped' <=> got'[c] > MaxUpload)
    <3>1. ASSUME kind[c] \in Whole, c \notin failed'
          PROVE  pos'[c] + held'[c] = Cap(got'[c]) /\ (c \in capped' <=> got'[c] > MaxUpload)
      <4>1. c \notin failed
        BY <3>1, HandlerFrame
      <4>2. Full(c) <=> pos[c] + held[c] >= MaxUpload
        BY <3>1 DEF Full
      <4> QED
        BY <1>0, <2>1, <2>3, <2>5, <3>1, <4>1, <4>2 DEF Cap
    <3> QED
      BY <3>1
  <2>8. ContentOf(c)'
    BY <1>1, <1>0, <2>1, <2>5, <2>6, <2>7 DEF ContentOf
  <2> QED
    BY <2>2, <2>8
<1>5. ASSUME EndCopy(c) \/ CloseKilled(c) PROVE HeaderOf(c)' /\ ContentOf(c)'
  <2>1. /\ handler'[c] \in {"recorded", "killed"} /\ held'[c] = 0 /\ got'[c] = got[c]
        /\ handler[c] \in {"copying", "killed"}
    BY <1>5 DEF EndCopy, CloseKilled, FlushAll, Record, Goto
  <2>2. pos'[c] \in Nat /\ pos'[c] <= pos[c] + held[c]
    <3>1. PICK n \in 0..held[c] : Flush(c, n)
      BY <1>5 DEF EndCopy, CloseKilled, FlushAll
    <3> QED
      BY <1>0, <3>1 DEF Flush
  <2>3. pos'[c] <= got[c] /\ got[c] <= sent[c]
    BY <1>0, <1>2, <2>2 DEF ContentOf
  <2> QED
    BY <1>1, <1>2, <1>0, <2>1, <2>2, <2>3 DEF HeaderOf, ContentOf
<1>6. ASSUME ~Copy(c), ~EndCopy(c), ~CloseKilled(c) PROVE HeaderOf(c)' /\ ContentOf(c)'
  <2>1. UNCHANGED <<got, pos, held, failed, capped>>
    BY <1>6 DEF Handler, Accept, HeaderFails, OpenDuplicate, OpenUpload, OpenScript, OpenStream,
                OpenLog, EndDiscard, connVars
  <2>2. CASE Accept(c) \/ HeaderFails(c)
    <3>1. handler[c] \in {"queued", "header"} /\ handler'[c] \in {"header", "died"}
      BY <2>2 DEF Accept, HeaderFails, Goto
    <3> QED
      BY <1>1, <1>2, <2>1, <3>1 DEF HeaderOf, ContentOf
  <2>3. CASE OpenUpload(c) \/ OpenScript(c) \/ OpenStream(c) \/ OpenLog(c)
    <3>1. /\ handler[c] = "header" /\ handler'[c] \in {"copying", "discarding", "died"}
          /\ kind[c] \in Place /\ (handler'[c] = "discarding" => kind[c] \in Whole \cup {"log"})
      BY <2>3 DEF OpenUpload, OpenScript, OpenStream, OpenLog, Goto, Is, Place, Whole
    <3>2. HeaderOf(c)'
      BY <1>1, <1>2, <3>1 DEF HeaderOf
    <3>3. ContentOf(c)'
      BY <1>1, <1>2, <1>0, <2>1, <3>1 DEF ContentOf, Cap
    <3> QED
      BY <3>2, <3>3
  <2>4. CASE OpenDuplicate(c) \/ EndDiscard(c)
    <3>1. handler'[c] = "recorded" /\ handler[c] \in {"header", "discarding"}
      BY <2>4 DEF OpenDuplicate, EndDiscard, Record, Goto
    <3> QED
      BY <1>1, <1>2, <2>1, <3>1 DEF HeaderOf, ContentOf, Busy
  <2> QED
    BY <1>6, <2>2, <2>3, <2>4 DEF Handler
<1> QED
  BY <1>3, <1>4, <1>5, <1>6 DEF ConnInv

\* The line that STATS.record() goes with.
LEMMA RecordedLine ==
  ASSUME NEW c, NEW complete, Record(c, complete), NEW e \in listed' \ listed
  PROVE  e.conn = c /\ (e.incomplete <=> ~complete) /\ (e.truncated <=> c \in capped)
<1>1. e = [conn |-> c, incomplete |-> ~complete, truncated |-> c \in capped]
  BY DEF Record
<1> QED
  BY <1>1

\* A line that promises a whole upload is written when the peer has closed and
\* all of it has been read.
LEMMA HandlerKeepsListedInv ==
  ASSUME Inv, NEW c \in Conn, Handler(c)
  PROVE  ListedInv'
<1> USE DEF Inv, Types
<1>1. /\ UNCHANGED <<kind, peer, sent>>
      /\ \A d \in Conn \ {c} : handler'[d] = handler[d] /\ pos'[d] = pos[d]
  BY HandlerFrame DEF peerVars, HandlerTypes
<1>0. /\ \A d \in Conn \ {c} : d \notin unflushed' => d \notin unflushed
  BY HandlerFrame
<1> SUFFICES ASSUME NEW e \in listed'
             PROVE  /\ handler'[e.conn] = "recorded"
                    /\ kind'[e.conn] \in Whole /\ ~e.incomplete =>
                         /\ peer'[e.conn] = "closed"
                         /\ e.truncated <=> sent'[e.conn] > MaxUpload
                         /\ e.conn \notin unflushed' => pos'[e.conn] = Cap(sent'[e.conn])
  BY DEF ListedInv
<1>2. CASE e \in listed
  <2>1. e.conn \in Conn \ {c}
    BY <1>2, HandlerLists
  <2> QED
    BY <1>0, <1>1, <1>2, <2>1 DEF ListedInv
<1>3. CASE e \notin listed
  <2>1. e.conn = c /\ handler'[c] = "recorded"
    BY <1>3, HandlerLists
  <2>2. ASSUME kind[c] \in Whole, ~e.incomplete
        PROVE  /\ peer[c] = "closed" /\ (e.truncated <=> sent[c] > MaxUpload)
               /\ c \notin unflushed' => pos'[c] = Cap(sent[c])
    <3>1. EndCopy(c)
      <4>1. OpenDuplicate(c) \/ EndCopy(c) \/ EndDiscard(c)
        BY <1>3 DEF Handler, Accept, HeaderFails, OpenUpload, OpenScript, OpenStream, OpenLog, Copy,
                    CloseKilled, diskVars
      <4>2. ~OpenDuplicate(c)
        BY <2>2 DEF OpenDuplicate, Is, Whole
      <4>3. ~EndDiscard(c)
        <5>1. EndDiscard(c) => Record(c, FALSE)
          BY <2>2 DEF EndDiscard, Is, Whole
        <5> QED
          BY <1>3, <2>2, <5>1, RecordedLine
      <4> QED
        BY <4>1, <4>2, <4>3
    <3>2. /\ peer[c] = "closed" /\ got[c] = sent[c] /\ c \notin failed
          /\ e.truncated <=> c \in capped
      <4>1. ~Record(c, FALSE)
        BY <1>3, <2>2, RecordedLine
      <4>2. peer[c] = "closed" /\ got[c] = sent[c] /\ Record(c, c \notin failed)
        BY <3>1, <4>1 DEF EndCopy
      <4> QED
        BY <1>3, <2>2, <4>2, RecordedLine
    <3>3. handler[c] = "copying" /\ pos[c] \in Nat /\ held[c] \in Nat
      BY <3>1 DEF EndCopy, HandlerTypes
    <3>4. c \notin unflushed' => pos'[c] = pos[c] + held[c]
      <4>1. PICK n \in 0..held[c] : /\ Flush(c, n)
                                   /\ unflushed' = IF n < held[c] THEN unflushed \cup {c} ELSE unflushed
        BY <3>1 DEF EndCopy, FlushAll
      <4>2. c \notin unflushed' => n = held[c]
        BY <3>3, <4>1
      <4>3. pos'[c] = pos[c] + n
        BY <4>1 DEF Flush, HandlerTypes
      <4> QED
        BY <4>2, <4>3
    <3> QED
      BY <2>2, <3>2, <3>3, <3>4 DEF ConnInv, ContentOf
  <2> QED
    BY <1>1, <2>1, <2>2
<1> QED
  BY <1>2, <1>3

\* A connection that has not had the uploaded file does not come by it.
LEMMA ElsewhereStays ==
  ASSUME Inv, NEW c \in Conn, Handler(c), NEW d \in Conn, Elsewhere(d),
         ~(d = c /\ OpenUpload(c) /\ handler'[c] = "copying")
  PROVE  Elsewhere(d)'
<1> USE DEF Inv, Types
<1>1. kind' = kind /\ \A x \in Conn \ {c} : handler'[x] = handler[x] /\ held'[x] = held[x]
  BY HandlerFrame DEF peerVars, HandlerTypes
<1> SUFFICES ASSUME kind[d] = "upload"
             PROVE  /\ handler'[d] # "copying" /\ held'[d] = 0
                    /\ \A e \in listed' : e.conn = d => e.incomplete
  BY <1>1 DEF Elsewhere
<1>2. handler[d] # "copying" /\ held[d] = 0 /\ \A e \in listed : e.conn = d => e.incomplete
  BY DEF Elsewhere
<1>3. CASE d # c
  BY <1>1, <1>2, <1>3, HandlerLists
<1>4. CASE d = c
  <2>1. /\ ~Copy(c) /\ ~EndCopy(c) /\ ~CloseKilled(c) /\ ~OpenDuplicate(c)
        /\ ~OpenScript(c) /\ ~OpenStream(c) /\ ~OpenLog(c)
    <3>1. ~(held[c] > 0)
      BY <1>2, <1>4
    <3> QED
      BY <1>2, <1>4, <3>1 DEF Copy, EndCopy, CloseKilled, OpenDuplicate, OpenScript, OpenStream, OpenLog, Is
  <2>2. handler'[c] # "copying" /\ held' = held
    BY <1>4, <2>1 DEF Handler, Accept, HeaderFails, EndDiscard, OpenUpload, Record, Goto, HandlerTypes,
                      connVars
  <2>3. ASSUME NEW e \in listed' \ listed PROVE e.incomplete
    <3>1. EndDiscard(c)
      BY <2>1, <2>3 DEF Handler, Accept, HeaderFails, OpenUpload, diskVars
    <3>2. Record(c, FALSE)
      BY <1>4, <3>1 DEF EndDiscard, Whole
    <3> QED
      BY <2>3, <3>2, RecordedLine
  <2> QED
    BY <1>2, <1>4, <2>2, <2>3
<1> QED
  BY <1>3, <1>4

\* The file of an upload is written at its end, and only by the connection that has
\* created it, unless it is a *_script.log.
LEMMA WholeStep ==
  ASSUME Inv, NEW c \in Conn, Handler(c), NEW p \in Whole
  PROVE  \/ stored'[p] = stored[p] /\ (kind[c] = p => pos'[c] = pos[c])
         \/ /\ kind[c] = p /\ (p = "upload" => "upload" \in made /\ UploadOf(c))
            /\ \E n \in Nat : pos'[c] = pos[c] + n /\ Longer(stored[p], stored'[p], n, c)
<1> USE DEF Inv, Types
<1>1. p \in Place /\ p # "stream" /\ p # "log" /\ (p # "upload" => p \in Appended)
  BY DEF Whole, Place, Appended
<1>2. CASE UNCHANGED <<stored, pos, held>>
  BY <1>2
<1>3. CASE UNCHANGED <<pos, held>> /\ stored' = [stored EXCEPT !["stream"] = <<>>]
  BY <1>1, <1>3 DEF DiskTypes
<1>4. ASSUME NEW n \in Nat, handler[c] \in {"copying", "killed"}, handler[c] = "killed" => held[c] > 0,
             Flush(c, n), pos'[c] = pos[c] + n
      PROVE  \/ stored'[p] = stored[p] /\ (kind[c] = p => pos'[c] = pos[c])
             \/ /\ kind[c] = p /\ (p = "upload" => "upload" \in made /\ UploadOf(c))
                /\ pos'[c] = pos[c] + n /\ Longer(stored[p], stored'[p], n, c)
  <2>1. CASE kind[c] # p
    BY <1>1, <1>4, <2>1 DEF Flush, DiskTypes
  <2>2. CASE kind[c] = p
    <3>1. p = "upload" => "upload" \in made /\ UploadOf(c)
      <4>1. p = "upload" => ~Elsewhere(c)
        BY <1>4, <2>2 DEF Elsewhere, HandlerTypes
      <4> QED
        BY <4>1 DEF UploadInv, UploadOf
    <3>2. stored[p] \in Seq(Chunk) /\ pos[c] \in Nat
      BY <1>1 DEF DiskTypes, HandlerTypes
    <3>3. p = "upload" => Len(stored[p]) = pos[c]
      <4>1. ASSUME p = "upload" PROVE Len(stored[p]) = pos[c]
        <5>1. DOMAIN stored[p] = 1..pos[c]
          BY <3>1, <4>1 DEF UploadOf
        <5> QED
          BY <3>2, <5>1, LenProperties
      <4> QED
        BY <4>1
    <3>4. Offset(c) = Len(stored[p])
      BY <1>1, <2>2, <3>3 DEF Offset, Appended
    <3>5. stored'[p] = Written(stored[p], Len(stored[p]), n, c)
      BY <1>1, <1>4, <2>2, <3>4 DEF Flush, DiskTypes
    <3>6. Longer(stored[p], stored'[p], n, c)
      BY <3>2, <3>5, WrittenAtEnd
    <3> QED
      BY <1>4, <2>2, <3>1, <3>6
  <2> QED
    BY <2>1, <2>2
<1> QED
  BY <1>2, <1>3, <1>4, DiskStep

LEMMA LongerUpload ==
  ASSUME NEW k \in Nat, NEW n \in Nat, NEW c, NEW t, Longer([j \in 1..k |-> c], t, n, c)
  PROVE  t = [j \in 1..k + n |-> c]
<1> DEFINE s == [j \in 1..k |-> c]
<1>1. s \in Seq({c}) /\ DOMAIN s = 1..k
  OBVIOUS
<1>2. Len(s) = k
  BY <1>1, LenProperties
<1>3. t = [j \in 1..k + n |-> IF j <= k THEN s[j] ELSE c]
  BY <1>2 DEF Longer
<1>4. \A j \in 1..k + n : (IF j <= k THEN s[j] ELSE c) = c
  OBVIOUS
<1> QED
  BY <1>3, <1>4

LEMMA HandlerKeepsUploadInv ==
  ASSUME Inv, NEW c \in Conn, Handler(c)
  PROVE  UploadInv'
<1> USE DEF Inv, Types
<1>1. /\ kind' = kind
      /\ \A d \in Conn \ {c} : handler'[d] = handler[d] /\ pos'[d] = pos[d]
      /\ handler[c] \notin {"none", "queued", "header"} =>
           handler'[c] \notin {"none", "queued", "header"}
  <2>1. handler[c] # "queued" => handler'[c] # "header"
    BY DEF Handler, Accept, HeaderFails, OpenDuplicate, OpenUpload, OpenScript, OpenStream, OpenLog, Copy,
           EndCopy, EndDiscard, CloseKilled, Record, Goto, HandlerTypes
  <2> QED
    BY <2>1, HandlerFrame DEF peerVars, HandlerTypes
<1>2. CASE OpenUpload(c) /\ handler'[c] = "copying"
  <2>1. "upload" \notin made /\ "upload" \in made' /\ UNCHANGED <<stored, pos>>
    BY <1>2 DEF OpenUpload, Goto, HandlerTypes, connVars
  <2>2. stored["upload"] = <<>> /\ \A d \in Conn : Elsewhere(d)
    BY <2>1 DEF UploadInv
  <2>3. kind[c] = "upload" /\ pos[c] = 0
    BY <1>2 DEF OpenUpload, Is, ConnInv, ContentOf
  <2>4. stored'["upload"] = [j \in 1..pos'[c] |-> c]
    <3>1. <<>> = [j \in 1..0 |-> c]
      OBVIOUS
    <3> QED
      BY <2>1, <2>2, <2>3, <3>1
  <2>5. \A d \in Conn \ {c} : Elsewhere(d)'
    BY <2>2, ElsewhereStays
  <2>6. UploadOf(c)'
    BY <1>1, <1>2, <2>3, <2>4, <2>5 DEF UploadOf
  <2> QED
    BY <2>1, <2>6 DEF UploadInv
<1>3. CASE ~(OpenUpload(c) /\ handler'[c] = "copying")
  <2>1. "upload" \in made' <=> "upload" \in made
    <3>1. CASE OpenUpload(c)
      BY <1>3, <3>1 DEF OpenUpload, Goto, HandlerTypes
    <3>2. CASE OpenScript(c) \/ OpenStream(c) \/ OpenLog(c)
      BY <3>2 DEF OpenScript, OpenStream, OpenLog
    <3>3. CASE ~OpenUpload(c) /\ ~OpenScript(c) /\ ~OpenStream(c) /\ ~OpenLog(c)
      BY <3>3 DEF Handler, Accept, HeaderFails, OpenDuplicate, Copy, EndCopy, EndDiscard, CloseKilled,
                  FlushAll, diskVars
    <3> QED
      BY <3>1, <3>2, <3>3
  <2>2. \A d \in Conn : Elsewhere(d) => Elsewhere(d)'
    BY <1>3, ElsewhereStays
  <2>0. "upload" \in Whole
    BY DEF Whole
  <2>3. CASE "upload" \notin made
    <3>1. stored'["upload"] = stored["upload"]
      BY <2>0, <2>3, WholeStep
    <3> QED
      BY <2>1, <2>2, <2>3, <3>1 DEF UploadInv
  <2>4. CASE "upload" \in made
    <3>1. PICK w \in Conn : UploadOf(w)
      BY <2>4 DEF UploadInv
    <3>2. stored'["upload"] = [j \in 1..pos'[w] |-> w]
      <4>1. ASSUME kind[c] = "upload", UploadOf(c), NEW n \in Nat, pos'[c] = pos[c] + n,
                   Longer(stored["upload"], stored'["upload"], n, c)
            PROVE  stored'["upload"] = [j \in 1..pos'[c] |-> c]
        <5>1. pos[c] \in Nat /\ stored["upload"] = [j \in 1..pos[c] |-> c]
          BY <4>1 DEF UploadOf, HandlerTypes
        <5>2. Longer([j \in 1..pos[c] |-> c], stored'["upload"], n, c)
          BY <4>1, <5>1
        <5>3. stored'["upload"] = [j \in 1..pos[c] + n |-> c]
          BY <4>1, <5>1, <5>2, LongerUpload
        <5> QED
          BY <4>1, <5>3
      <4>2. CASE w = c
        <5>1. kind[c] = "upload" /\ stored["upload"] = [j \in 1..pos[c] |-> c]
          BY <3>1, <4>2 DEF UploadOf
        <5>2. CASE stored'["upload"] = stored["upload"] /\ pos'[c] = pos[c]
          BY <4>2, <5>1, <5>2
        <5>3. CASE \E n \in Nat : pos'[c] = pos[c] + n /\ Longer(stored["upload"], stored'["upload"], n, c)
          BY <3>1, <4>1, <4>2, <5>1, <5>3
        <5> QED
          BY <2>0, <5>1, <5>2, <5>3, WholeStep
      <4>3. CASE w # c
        <5>1. ~(kind[c] = "upload" /\ UploadOf(c)) \/ stored'["upload"] = stored["upload"]
          <6>1. ASSUME UploadOf(c) PROVE stored'["upload"] = stored["upload"]
            <7>1. Elsewhere(c)
              BY <3>1, <4>3 DEF UploadOf
            <7>2. handler[c] # "copying" /\ held[c] = 0
              BY <6>1, <7>1 DEF Elsewhere, UploadOf
            <7> QED
              BY <7>2, DiskStep DEF DiskTypes, Place
          <6> QED
            BY <6>1
        <5>2. stored'["upload"] = stored["upload"]
          BY <2>0, <5>1, WholeStep
        <5> QED
          BY <1>1, <3>1, <4>3, <5>2 DEF UploadOf
      <4> QED
        BY <4>2, <4>3
    <3>3. handler'[w] \notin {"none", "queued", "header"}
      BY <1>1, <3>1 DEF UploadOf
    <3>4. UploadOf(w)'
      BY <1>1, <2>2, <3>1, <3>2, <3>3 DEF UploadOf
    <3> QED
      BY <2>1, <2>4, <3>4 DEF UploadInv
  <2> QED
    BY <2>3, <2>4
<1> QED
  BY <1>2, <1>3

\* The file of a *_script.log has n more chunks of c, and as many of the others as
\* before.
LEMMA HandlerKeepsScriptInv ==
  ASSUME Inv, NEW c \in Conn, Handler(c)
  PROVE  ScriptInv'
<1> USE DEF Inv, Types
<1>1. kind' = kind /\ \A d \in Conn \ {c} : pos'[d] = pos[d]
  BY HandlerFrame DEF peerVars, HandlerTypes
<1>2. "script" \in Whole
  BY DEF Whole
<1>3. CASE stored'["script"] = stored["script"] /\ (kind[c] = "script" => pos'[c] = pos[c])
  BY <1>1, <1>3 DEF ScriptInv, Own
<1>4. ASSUME kind[c] = "script", NEW n \in Nat, pos'[c] = pos[c] + n,
             Longer(stored["script"], stored'["script"], n, c)
      PROVE  ScriptInv'
  <2> DEFINE s == stored["script"]
             t == stored'["script"]
  <2>1. Len(s) \in Nat /\ DOMAIN s = 1..Len(s) /\ pos[c] \in Nat
    BY DEF DiskTypes, Place, HandlerTypes
  <2>2. /\ DOMAIN t = 1..Len(s) + n
        /\ \A j \in 1..Len(s) + n : t[j] = IF j <= Len(s) THEN s[j] ELSE c
    BY <1>4 DEF Longer
  <2>3. \A d \in Conn \ {c} : Own(d)' = Own(d)
    BY <2>1, <2>2 DEF Own
  <2>4. Own(c)' = Own(c) \cup (Len(s) + 1..Len(s) + n) /\ Own(c) \cap (Len(s) + 1..Len(s) + n) = {}
    BY <2>1, <2>2 DEF Own
  <2>5. Cardinality(Own(c)') = pos[c] + n
    <3>1. Own(c) \subseteq 1..Len(s) /\ IsFiniteSet(1..Len(s))
      BY <2>1, FS_Interval DEF Own
    <3>2. IsFiniteSet(Own(c)) /\ Cardinality(Own(c)) = pos[c]
      BY <1>4, <3>1, FS_Subset DEF ScriptInv
    <3>3. ASSUME NEW a \in Nat, NEW b \in Nat, a <= b
          PROVE  IsFiniteSet(a + 1..b) /\ Cardinality(a + 1..b) = b - a
      <4>1. a + 1 \in Int /\ b \in Int
        BY <3>3
      <4>2. IsFiniteSet(a + 1..b) /\ Cardinality(a + 1..b) = IF a + 1 > b THEN 0 ELSE b - (a + 1) + 1
        BY <4>1, FS_Interval
      <4> QED
        BY <3>3, <4>2
    <3>4. /\ IsFiniteSet(Len(s) + 1..Len(s) + n)
          /\ Cardinality(Len(s) + 1..Len(s) + n) = n
      <4>1. Len(s) + n \in Nat /\ Len(s) <= Len(s) + n /\ Len(s) + n - Len(s) = n
        BY <2>1
      <4> QED
        BY <2>1, <3>3, <4>1
    <3>5. ASSUME NEW A, NEW B, IsFiniteSet(A), IsFiniteSet(B), A \cap B = {}
          PROVE  Cardinality(A \cup B) = Cardinality(A) + Cardinality(B)
      <4>1. Cardinality(A) \in Nat /\ Cardinality(B) \in Nat /\ Cardinality(A \cap B) = 0
        BY <3>5, FS_CardinalityType, FS_EmptySet
      <4>2. Cardinality(A \cup B) = Cardinality(A) + Cardinality(B) - Cardinality(A \cap B)
        BY <3>5, FS_Union
      <4> QED
        BY <4>1, <4>2
    <3> QED
      BY <2>4, <3>2, <3>4, <3>5
  <2> QED
    BY <1>1, <1>4, <2>3, <2>5 DEF ScriptInv
<1> QED
  BY <1>2, <1>3, <1>4, WholeStep

\* A handler's connection is counted when it has not been before.
LEMMA HandlerKeepsCountInv ==
  ASSUME Inv, NEW c \in Conn, Handler(c)
  PROVE  CountInv'
<1> USE DEF Inv, Types
<1>1. /\ kind' = kind /\ \A d \in Conn \ {c} : handler'[d] = handler[d]
      /\ handler[c] \in {"queued", "killed"} \cup Busy
      /\ handler[c] = "killed" => handler'[c] = "killed"
  BY HandlerFrame DEF peerVars, HandlerTypes
<1>2. IsFiniteSet(Counted) /\ IsFiniteSet(Counted')
  <2>1. Counted \subseteq Conn /\ Counted' \subseteq Conn
    BY DEF Counted
  <2> QED
    BY <2>1, FS_Subset
<1>3. Cardinality(Counted) \in Nat /\ Cardinality(Counted') \in Nat
  BY <1>2, FS_CardinalityType
<1>4. Counted \subseteq Counted'
  <2>1. ASSUME handler[c] = "discarding", kind[c] = "log" PROVE c \in Counted'
    <3>1. EndDiscard(c)
      BY <2>1 DEF Handler, Accept, HeaderFails, OpenDuplicate, OpenUpload, OpenScript, OpenStream, OpenLog, Copy,
                  EndCopy, CloseKilled
    <3> QED
      BY <3>1 DEF EndDiscard, Record, Goto, HandlerTypes, Counted
  <2> QED
    BY <1>1, <2>1 DEF Counted, Busy
<1>5. CASE stats' = stats
  <2>1. Cardinality(Counted) <= Cardinality(Counted')
    BY <1>2, <1>4, FS_Subset
  <2> QED
    BY <1>3, <1>5, <2>1 DEF CountInv, StopTypes
<1>6. CASE stats' # stats
  <2>1. c \notin Counted /\ c \in Counted'
    <3>1. OpenDuplicate(c) \/ OpenLog(c) \/ EndCopy(c) \/ EndDiscard(c)
      BY <1>6 DEF Handler, Accept, HeaderFails, OpenUpload, OpenScript, OpenStream, Copy, CloseKilled
    <3>2. handler[c] \in {"header", "copying"} \/ (handler[c] = "discarding" /\ kind[c] \in Whole)
      BY <1>6, <3>1 DEF OpenDuplicate, OpenLog, EndCopy, EndDiscard, Is
    <3>3. handler'[c] = "recorded" \/ (handler'[c] = "discarding" /\ kind[c] = "log")
      BY <1>6, <3>1 DEF OpenDuplicate, OpenLog, EndCopy, EndDiscard, Is, Record, Goto, HandlerTypes
    <3> QED
      BY <1>1, <3>2, <3>3 DEF Counted, Whole
  <2>2. Cardinality(Counted \cup {c}) = Cardinality(Counted) + 1
    BY <1>2, <2>1, FS_AddElement
  <2>3. Cardinality(Counted \cup {c}) <= Cardinality(Counted')
    BY <1>2, <1>4, <2>1, FS_Subset
  <2>4. \/ stats' = [stats EXCEPT !.complete = @ + 1]
        \/ stats' = [stats EXCEPT !.incomplete = @ + 1]
    BY <1>6 DEF Handler, Accept, HeaderFails, OpenDuplicate, OpenUpload, OpenScript, OpenStream, OpenLog, Copy,
                EndCopy, EndDiscard, CloseKilled, Record
  <2>5. stats'.complete + stats'.incomplete = stats.complete + stats.incomplete + 1
    BY <2>4 DEF StopTypes
  <2> QED
    BY <1>3, <2>2, <2>3, <2>5 DEF CountInv, StopTypes
<1> QED
  BY <1>5, <1>6

-----------------------------------------------------------------------------
(* The theorems. *)

LEMMA InitHasInv == Init => Inv
<1> SUFFICES ASSUME Init PROVE Inv
  OBVIOUS
<1> USE DEF Init
<1>1. Types
  <2>1. 0 \in 0..Size /\ <<>> \in Seq(Chunk)
    OBVIOUS
  <2> QED
    BY <2>1 DEF Types, PeerTypes, HandlerTypes, DiskTypes, StopTypes, HandlerState
<1>2. ConnInv
  BY DEF ConnInv, HeaderOf, ContentOf
<1>3. ListedInv /\ UploadInv /\ SummaryInv
  BY DEF ListedInv, UploadInv, Elsewhere, Place, SummaryInv
<1>5. ScriptInv
  <2>1. <<>> = [j \in 1..0 |-> 0] /\ stored["script"] = <<>>
    BY DEF Place
  <2>2. \A c \in Conn : Own(c) = {}
    BY <2>1 DEF Own
  <2> QED
    BY <2>2, FS_EmptySet DEF ScriptInv
<1>4. CountInv
  <2>1. Counted = {}
    BY DEF Counted
  <2> QED
    BY <2>1, FS_EmptySet DEF CountInv
<1> QED
  BY <1>1, <1>2, <1>3, <1>4, <1>5 DEF Inv

LEMMA StepKeepsInv == Inv /\ [Next]_vars => Inv'
<1> SUFFICES ASSUME Inv, [Next]_vars PROVE Inv'
  OBVIOUS
<1>1. ASSUME NEW c \in Conn, Handler(c) PROVE Inv'
  <2>1. Types' /\ ConnInv' /\ ListedInv' /\ UploadInv' /\ ScriptInv' /\ CountInv'
    BY <1>1, HandlerTypesHold, HandlerKeepsConnInv, HandlerKeepsListedInv, HandlerKeepsUploadInv,
       HandlerKeepsScriptInv, HandlerKeepsCountInv
  <2>2. summary' = summary
    BY <1>1, HandlerFrame DEF stopVars
  <2> QED
    BY <2>1, <2>2 DEF Inv, SummaryInv
<1>2. CASE (\E c \in Conn : Peer(c)) \/ Stop \/ Caller \/ Shutdown
  BY <1>2, QuietKeepsInv
<1>3. CASE UNCHANGED vars
  <2>1. UNCHANGED <<kind, peer, sent, handler, got, pos, held, failed, unflushed, capped, stored, made, listed,
                    stats, server, caller, summary>>
    BY <1>3 DEF vars, peerVars, connVars, diskVars, stopVars
  <2>2. Types'
    BY <2>1 DEF Inv, Types, PeerTypes, HandlerTypes, DiskTypes, StopTypes
  <2>3. ConnInv' /\ ListedInv'
    BY <2>1 DEF Inv, ConnInv, HeaderOf, ContentOf, ListedInv
  <2>4. UploadInv'
    <3>1. \A c \in Conn : Elsewhere(c)' <=> Elsewhere(c)
      BY <2>1 DEF Elsewhere
    <3>2. \A c \in Conn : UploadOf(c)' <=> UploadOf(c)
      BY <2>1, <3>1 DEF UploadOf
    <3> QED
      BY <2>1, <3>1, <3>2 DEF Inv, UploadInv
  <2>5. CountInv' /\ SummaryInv' /\ ScriptInv'
    BY <2>1 DEF Inv, CountInv, Counted, SummaryInv, ScriptInv, Own
  <2> QED
    BY <2>2, <2>3, <2>4, <2>5 DEF Inv
<1> QED
  BY <1>1, <1>2, <1>3 DEF Next

LEMMA InvHolds == Spec => []Inv
BY InitHasInv, StepKeepsInv, PTL DEF Spec

\* Every variable keeps its type: no connection is counted twice in STATS, so
\* the summary never tells of more than there were (resultserver.py:150).
THEOREM TypeCorrect == Spec => []TypeOK
<1>1. Inv => TypeOK
  <2> SUFFICES ASSUME Inv PROVE TypeOK
    OBVIOUS
  <2> USE DEF Inv, Types
  <2>1. IsFiniteSet(Counted) /\ Cardinality(Counted) <= Cardinality(Conn)
    BY FS_Subset DEF Counted
  <2>2. Cardinality(Counted) \in Nat /\ Cardinality(Conn) \in Nat
    BY <2>1, FS_CardinalityType
  <2>3. stats \in [complete : 0..Cardinality(Conn), incomplete : 0..Cardinality(Conn)]
    BY <2>1, <2>2 DEF StopTypes, CountInv
  <2> QED
    BY <2>3 DEF TypeOK, PeerTypes, HandlerTypes, DiskTypes, StopTypes, SummaryInv, HandlerState,
                Chunk, Line
<1> QED
  BY <1>1, InvHolds, PTL

\* A line of files.json stands for all that its peer has sent, from no other peer
\* unless it is a *_script.log, as resultserver.py:429 means it to, in every case
\* but that of a failing last flush.
THEOREM ListedUploadsAreStored == Spec => []ListedIsStored
<1>1. Inv => ListedIsStored
  <2> SUFFICES ASSUME Inv, NEW e \in listed, NEW c, c = e.conn, kind[c] \in Whole, ~e.incomplete,
                      NEW file, file = stored[kind[c]],
                      NEW own, own = {j \in DOMAIN file : file[j] = c}
               PROVE  /\ peer[c] = "closed"
                      /\ e.truncated <=> sent[c] > MaxUpload
                      /\ Is(c, "upload") => own = DOMAIN file
                      /\ c \notin unflushed => Cardinality(own) = Cap(sent[c])
    BY DEF ListedIsStored
  <2>1. /\ peer[c] = "closed" /\ (e.truncated <=> sent[c] > MaxUpload)
        /\ c \notin unflushed => pos[c] = Cap(sent[c])
    BY DEF Inv, ListedInv
  <2>2. c \in Conn /\ pos[c] \in Nat
    BY DEF Inv, Types, DiskTypes, Line, HandlerTypes
  <2>3. CASE Is(c, "upload")
    <3>1. ~Elsewhere(c)
      BY <2>3 DEF Elsewhere, Is
    <3>2. UploadOf(c)
      BY <2>2, <3>1 DEF Inv, UploadInv, UploadOf
    <3>3. file = [j \in 1..pos[c] |-> c] /\ DOMAIN file = 1..pos[c] /\ own = DOMAIN file
      BY <2>3, <3>2 DEF UploadOf, Is
    <3>4. Cardinality(1..pos[c]) = pos[c]
      BY <2>2, FS_Interval
    <3> QED
      BY <2>1, <3>3, <3>4
  <2>4. CASE ~Is(c, "upload")
    <3>1. kind[c] = "script" /\ own = Own(c)
      BY <2>4 DEF Is, Whole, Own
    <3>2. Cardinality(own) = pos[c]
      BY <2>2, <3>1 DEF Inv, ScriptInv
    <3> QED
      BY <2>1, <2>4, <3>2
  <2> QED
    BY <2>3, <2>4
<1> QED
  BY <1>1, InvHolds, PTL

\* The part of UploadKept that says something of one step.
Extends(p, s, t) ==
  /\ Len(t) >= Len(s) /\ SubSeq(t, 1, Len(s)) = s
  /\ p = "upload" /\ t # <<>> => \A j \in DOMAIN t : t[j] = t[1]

LEMMA LongerExtends ==
  ASSUME NEW s \in Seq(Chunk), NEW t \in Seq(Chunk), NEW n \in Nat, NEW c, Longer(s, t, n, c)
  PROVE  Len(t) >= Len(s) /\ SubSeq(t, 1, Len(s)) = s
<1>1. Len(s) \in Nat /\ DOMAIN s = 1..Len(s) /\ s = [j \in 1..Len(s) |-> s[j]]
  OBVIOUS
<1>2. DOMAIN t = 1..Len(s) + n /\ \A j \in 1..Len(s) : t[j] = s[j]
  BY <1>1 DEF Longer
<1>3. Len(t) = Len(s) + n
  BY <1>1, <1>2, LenProperties
<1>4. SubSeq(t, 1, Len(s)) = s
  <2>1. SubSeq(t, 1, Len(s)) = [j \in 1..Len(s) |-> t[1 + j - 1]]
    BY <1>1
  <2>2. \A j \in 1..Len(s) : t[1 + j - 1] = s[j]
    BY <1>1, <1>2
  <2> QED
    BY <1>1, <2>1, <2>2
<1> QED
  BY <1>1, <1>3, <1>4

\* What is uploaded is only added to; the file of an upload is one peer's
\* (resultserver.py:414), and only a *_script.log (resultserver.py:412) of several.
THEOREM UploadsAreKept == Spec => UploadKept
<1>1. Inv /\ [Next]_vars => \A p \in Whole : Extends(p, stored[p], stored'[p])
  <2> SUFFICES ASSUME Inv, Inv', [Next]_vars, NEW p \in Whole
               PROVE  Extends(p, stored[p], stored'[p])
    BY StepKeepsInv
  <2>1. stored[p] \in Seq(Chunk) /\ stored'[p] \in Seq(Chunk)
    BY DEF Inv, Types, DiskTypes, Whole, Place
  <2>2. ASSUME p = "upload" PROVE stored'[p] # <<>> => \A j \in DOMAIN stored'[p] : stored'[p][j] = stored'[p][1]
    <3>1. CASE "upload" \in made'
      <4>1. PICK w \in Conn : UploadOf(w)'
        BY <3>1 DEF Inv, UploadInv
      <4>2. stored'["upload"] = [j \in 1..pos'[w] |-> w] /\ pos'[w] \in Nat
        BY <4>1 DEF UploadOf, Inv, Types, HandlerTypes
      <4> QED
        BY <2>2, <4>2
    <3>2. CASE "upload" \notin made'
      BY <2>2, <3>2 DEF Inv, UploadInv
    <3> QED
      BY <3>1, <3>2
  <2>3. Len(stored'[p]) >= Len(stored[p]) /\ SubSeq(stored'[p], 1, Len(stored[p])) = stored[p]
    <3>1. CASE stored'[p] = stored[p]
      BY <2>1, <3>1
    <3>2. CASE stored'[p] # stored[p]
      <4>1. PICK c \in Conn : Handler(c)
        <5>1. UNCHANGED diskVars \/ \E c \in Conn : Handler(c)
          BY QuietFrame DEF Next, vars
        <5> QED
          BY <3>2, <5>1 DEF diskVars
      <4>2. PICK n \in Nat : Longer(stored[p], stored'[p], n, c)
        BY <3>2, <4>1, WholeStep
      <4> QED
        BY <2>1, <4>2, LongerExtends
    <3> QED
      BY <3>1, <3>2
  <2> QED
    BY <2>2, <2>3 DEF Extends
<1>2. (\A p \in Whole : Extends(p, stored[p], stored'[p])) <=>
        \A p \in Whole :
          LET s == stored[p] t == stored'[p]
          IN  /\ Len(t) >= Len(s) /\ SubSeq(t, 1, Len(s)) = s
              /\ p = "upload" /\ t # <<>> => \A j \in DOMAIN t : t[j] = t[1]
  BY DEF Extends
<1> QED
  BY <1>1, <1>2, InvHolds, PTL DEF Spec, UploadKept

=============================================================================
