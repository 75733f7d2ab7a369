----------------------------- MODULE ResultStore -----------------------------
(***************************************************************************)
(* The result server of an analysis: CAPEsolo/capelib/resultserver.py, and *)
(* NetlogConnection (CAPEsolo/lib/common/results.py) at the other end.     *)
(* Each connection has a handler, a greenlet on the server's thread that   *)
(* gives way only where it reads the socket, so what it does between two   *)
(* reads is one step.  shutdown_server() runs on the caller's thread.      *)
(*                                                                         *)
(* A connection carries chunks.  A stored file is a sequence that says     *)
(* which connection wrote each chunk; what has been written to it but is   *)
(* still in the buffer of its file object is not there yet.  All uploads   *)
(* have one path, all behaviour streams one process: the cases where       *)
(* connections meet.  A connection's kind says what its header asks for:   *)
(* an upload, one of a *_script.log, to which uploads are appended, one    *)
(* marked as a duplicate, a behaviour stream (BSON) or the live log (LOG). *)
(***************************************************************************)
EXTENDS Naturals, Sequences, FiniteSets

CONSTANTS
  Conn,      \* connections
  Hole,      \* a chunk of a file nobody wrote
  Size,      \* bound: chunks of what a peer wants to send
  MaxUpload, \* upload_max_size, in chunks
  PoolSize   \* pool_size, where 0 means no limit

ASSUME StoreConstants ==
  /\ IsFiniteSet(Conn) /\ Hole \notin Conn
  /\ Size \in Nat /\ MaxUpload \in Nat \ {0} /\ PoolSize \in Nat

Kind  == {"upload", "script", "duplicate", "stream", "log"}
Place == {"upload", "script", "stream", "log"}   \* where the kinds with content are stored
Whole == {"upload", "script"}   \* kinds of FILE with content
Appended == {"script", "log"}   \* places opened to append

VARIABLES
  kind,    \* [Conn -> what its header asks for, or "none"]
  peer,    \* [Conn -> the other end]
  sent,    \* [Conn -> chunks it has sent]
  handler, \* [Conn -> what the server does for it]
  got,     \* [Conn -> chunks the handler has read]
  pos,     \* [Conn -> chunks of it that have reached the file]
  held,    \* [Conn -> chunks of it in the buffer of the file object]
  failed,  \* uploads for which a write has failed
  unflushed, \* connections whose last flush has failed, of which nothing is told
  capped,  \* uploads cut at upload_max_size
  stored,  \* [Place -> the file there]
  made,    \* places where there is a file
  listed,  \* files.json: [conn, incomplete, truncated]
  stats,   \* STATS
  server,  \* the server's thread
  caller,  \* progress of shutdown_server()
  summary  \* the STATS that _report_summary() has told, or <<>>

peerVars == <<kind, peer, sent>>
connVars == <<got, pos, held, failed, unflushed, capped>>
diskVars == <<stored, made, listed>>
stopVars == <<server, caller, summary>>
vars == <<peerVars, handler, connVars, diskVars, stats, stopVars>>

Busy == {"header", "copying", "discarding"}

TypeOK ==
  /\ kind \in [Conn -> Kind \cup {"none"}]
  /\ peer \in [Conn -> {"new", "open", "closed", "reset"}]
  /\ sent \in [Conn -> 0..Size] /\ got \in [Conn -> 0..Size] /\ pos \in [Conn -> 0..Size]
  /\ held \in [Conn -> 0..Size]
  /\ handler \in [Conn -> {"none", "queued", "recorded", "died", "killed", "lost"} \cup Busy]
  /\ failed \subseteq Conn /\ unflushed \subseteq Conn /\ capped \subseteq Conn
  /\ DOMAIN stored = Place
  /\ \A p \in Place : stored[p] \in Seq(Conn \cup {Hole})
  /\ made \subseteq Place
  /\ listed \subseteq [conn : Conn, incomplete : BOOLEAN, truncated : BOOLEAN]
  /\ stats \in [complete : 0..Cardinality(Conn), incomplete : 0..Cardinality(Conn)]
  /\ server \in {"up", "draining", "stopped"}
  /\ caller \in {"no", "join", "stop", "force", "told"}
  /\ summary \in {<<>>} \cup {<<n>> : n \in 0..Cardinality(Conn)}

Init ==
  /\ kind = [c \in Conn |-> "none"]
  /\ peer = [c \in Conn |-> "new"] /\ sent = [c \in Conn |-> 0]
  /\ handler = [c \in Conn |-> "none"]
  /\ got = [c \in Conn |-> 0] /\ pos = [c \in Conn |-> 0] /\ held = [c \in Conn |-> 0]
  /\ failed = {} /\ unflushed = {} /\ capped = {}
  /\ stored = [p \in Place |-> <<>>] /\ made = {} /\ listed = {}
  /\ stats = [complete |-> 0, incomplete |-> 0]
  /\ server = "up" /\ caller = "no" /\ summary = <<>>

-----------------------------------------------------------------------------
(* The peers. *)

SetPeer(c, state) == peer' = [peer EXCEPT ![c] = state]
Is(c, k) == kind[c] = k
Goto(c, state) == handler' = [handler EXCEPT ![c] = state]
ByPeer == UNCHANGED <<connVars, diskVars, stats, stopVars>>

\* The header goes with the connection, which the listener queues.
Connect(c) ==
  /\ peer[c] = "new" /\ server = "up"
  /\ \E k \in Kind : kind' = [kind EXCEPT ![c] = k]
  /\ SetPeer(c, "open") /\ Goto(c, "queued")
  /\ ByPeer /\ UNCHANGED sent

\* A handler that ends closes the socket; what the peer does then reaches nobody.
Served(c) == peer[c] = "open" /\ handler[c] \in {"queued"} \cup Busy

Send(c) ==
  /\ Served(c) /\ ~Is(c, "duplicate") /\ sent[c] < Size
  /\ sent' = [sent EXCEPT ![c] = @ + 1]
  /\ ByPeer /\ UNCHANGED <<kind, peer, handler>>

\* The peer closes when it has sent what it wants to, or has failed to read
\* the rest; or the connection breaks.
Hangup(c) ==
  /\ Served(c)
  /\ SetPeer(c, "closed") \/ SetPeer(c, "reset")
  /\ ByPeer /\ UNCHANGED <<kind, sent, handler>>

-----------------------------------------------------------------------------
(* The handlers. *)

Alive == server # "stopped"
Working == {c \in Conn : handler[c] \in Busy}

Accept(c) ==
  /\ server = "up" /\ handler[c] = "queued"
  /\ PoolSize = 0 \/ Cardinality(Working) < PoolSize
  /\ Goto(c, "header")
  /\ UNCHANGED <<peerVars, connVars, diskVars, stats, stopVars>>

\* STATS.record(), and for a FILE its line in files.json.
Record(c, complete) ==
  /\ Goto(c, "recorded")
  /\ stats' = IF complete THEN [stats EXCEPT !.complete = @ + 1]
                          ELSE [stats EXCEPT !.incomplete = @ + 1]
  /\ listed' = IF kind[c] \in Whole \cup {"duplicate"}
               THEN listed \cup {[conn |-> c, incomplete |-> ~complete, truncated |-> c \in capped]}
               ELSE listed

\* The header does not arrive, or that of a FILE not within HEADER_TIMEOUT: the
\* handler ends without a trace.
HeaderFails(c) ==
  /\ Alive /\ handler[c] = "header"
  /\ peer[c] \in {"reset", "closed"} \/ kind[c] \in Whole \cup {"duplicate"}
  /\ Goto(c, "died")
  /\ UNCHANGED <<peerVars, connVars, diskVars, stats, stopVars>>

\* A duplicated FILE has no content.
OpenDuplicate(c) ==
  /\ Alive /\ handler[c] = "header" /\ Is(c, "duplicate")
  /\ Record(c, TRUE)
  /\ UNCHANGED <<peerVars, connVars, stored, made, stopVars>>

\* Mutant: the path is not looked for.
OpenUploadAnyway(c) ==
  /\ Alive /\ handler[c] = "header" /\ Is(c, "upload")
  /\ \/ Goto(c, "copying") /\ made' = made \cup {"upload"}
     \/ Goto(c, "discarding") /\ UNCHANGED made
  /\ UNCHANGED <<peerVars, connVars, stored, listed, stats, stopVars>>

\* open_exclusive(), or nowhere to store it.
OpenUpload(c) ==
  /\ Alive /\ handler[c] = "header" /\ Is(c, "upload")
  /\ IF "upload" \in made THEN Goto(c, "discarding") /\ UNCHANGED made
     ELSE \/ Goto(c, "copying") /\ made' = made \cup {"upload"}
          \/ Goto(c, "discarding") /\ UNCHANGED made
  /\ UNCHANGED <<peerVars, connVars, stored, listed, stats, stopVars>>

\* open_inclusive(), or nowhere to store it.
OpenScript(c) ==
  /\ Alive /\ handler[c] = "header" /\ Is(c, "script")
  /\ \/ Goto(c, "copying") /\ made' = made \cup {"script"}
     \/ Goto(c, "discarding") /\ UNCHANGED made
  /\ UNCHANGED <<peerVars, connVars, stored, listed, stats, stopVars>>

\* open(..., "wb"), which may fail too.
OpenStream(c) ==
  /\ Alive /\ handler[c] = "header" /\ Is(c, "stream")
  /\ \/ /\ Goto(c, "copying")
        /\ stored' = [stored EXCEPT !["stream"] = <<>>] /\ made' = made \cup {"stream"}
     \/ Goto(c, "died") /\ UNCHANGED <<stored, made>>
  /\ UNCHANGED <<peerVars, connVars, listed, stats, stopVars>>

\* open_inclusive(), which may fail.
OpenLog(c) ==
  /\ Alive /\ handler[c] = "header" /\ Is(c, "log")
  /\ \/ /\ Goto(c, "copying") /\ made' = made \cup {"log"} /\ UNCHANGED <<stats, listed>>
     \/ /\ Goto(c, "discarding") /\ UNCHANGED made
        /\ stats' = [stats EXCEPT !.incomplete = @ + 1] /\ UNCHANGED listed
  /\ UNCHANGED <<peerVars, connVars, stored, stopVars>>

\* The file s after a write of n chunks of c behind the first k.
Written(s, k, n, c) ==
  LET end == IF n > 0 /\ k + n > Len(s) THEN k + n ELSE Len(s)
  IN  [j \in 1..end |-> IF k < j /\ j <= k + n THEN c ELSE IF j <= Len(s) THEN s[j] ELSE Hole]

Offset(c) == IF kind[c] \in Appended THEN Len(stored[kind[c]]) ELSE pos[c]

\* n chunks of what c has written leave the buffer for the file.
Flush(c, n) ==
  /\ stored' = [stored EXCEPT ![kind[c]] = Written(@, Offset(c), n, c)]
  /\ pos' = [pos EXCEPT ![c] = @ + n]

Full(c) == kind[c] \in Whole /\ pos[c] + held[c] >= MaxUpload

\* One read of copy_to_fd(), and the write of it, which goes to the buffer and
\* empties it when it is full.  An upload goes through WriteLimiter, which stops at
\* upload_max_size and remembers a failed write; the failed write of another kind
\* ends its handler, which closes the file.
Copy(c) ==
  /\ Alive /\ handler[c] = "copying" /\ got[c] < sent[c] /\ peer[c] # "reset"
  /\ got' = [got EXCEPT ![c] = @ + 1]
  /\ \/ /\ Full(c) /\ capped' = capped \cup {c}
        /\ UNCHANGED <<handler, pos, held, stored, failed>>
     \/ /\ ~Full(c)
        /\ \E n \in {0, held[c] + 1} :
             Flush(c, n) /\ held' = [held EXCEPT ![c] = held[c] + 1 - n]
        /\ UNCHANGED <<handler, failed, capped>>
     \/ /\ ~Full(c) /\ kind[c] \in Whole
        /\ \E n \in {0, held[c]} : Flush(c, n) /\ held' = [held EXCEPT ![c] = held[c] - n]
        /\ failed' = failed \cup {c}
        /\ UNCHANGED <<handler, capped>>
     \/ /\ kind[c] \notin Whole
        /\ \E n \in {0, held[c]} : Flush(c, n)
        /\ held' = [held EXCEPT ![c] = 0]
        /\ Goto(c, "died")
        /\ UNCHANGED <<failed, capped>>
  /\ UNCHANGED <<peerVars, unflushed, made, listed, stats, stopVars>>

\* The flush that ends copy_to_fd() and the close of the file.  The flush keeps its
\* failure to itself, and that of the close comes when all has been recorded.
FlushAll(c) ==
  /\ \E n \in 0..held[c] :
       /\ Flush(c, n)
       /\ unflushed' = IF n < held[c] THEN unflushed \cup {c} ELSE unflushed
  /\ held' = [held EXCEPT ![c] = 0]
  /\ UNCHANGED <<got, failed, capped>>

\* Mutant: a broken connection is the end of the stream.
EndCopyAnyhow(c) ==
  /\ Alive /\ handler[c] = "copying"
  /\ FlushAll(c)
  /\ \/ /\ peer[c] = "closed" /\ got[c] = sent[c]
        /\ Record(c, c \notin failed)
     \/ /\ peer[c] \in {"open", "reset"}
        /\ Record(c, c \notin failed)
  /\ UNCHANGED <<peerVars, made, stopVars>>

\* The end of copy_to_fd(): the end of the stream, or Disconnect when the
\* connection breaks or is idle for idle_timeout.
EndCopy(c) ==
  /\ Alive /\ handler[c] = "copying"
  /\ FlushAll(c)
  /\ \/ /\ peer[c] = "closed" /\ got[c] = sent[c]
        /\ Record(c, c \notin failed)
     \/ /\ peer[c] \in {"open", "reset"}
        /\ Record(c, FALSE)
  /\ UNCHANGED <<peerVars, made, stopVars>>

\* Mutant: the live log is counted again.
EndDiscardTwice(c) ==
  /\ Alive /\ handler[c] = "discarding"
  /\ peer[c] \in {"closed", "reset"} \/ kind[c] \in Whole
  /\ Record(c, FALSE)
  /\ UNCHANGED <<peerVars, connVars, stored, made, stopVars>>

\* The end of discard(), of an upload at the latest after HEADER_TIMEOUT.  A
\* live log has been counted before.
EndDiscard(c) ==
  /\ Alive /\ handler[c] = "discarding"
  /\ peer[c] \in {"closed", "reset"} \/ kind[c] \in Whole
  /\ IF kind[c] \in Whole THEN Record(c, FALSE)
     ELSE Goto(c, "recorded") /\ UNCHANGED <<stats, listed>>
  /\ UNCHANGED <<peerVars, connVars, stored, made, stopVars>>

-----------------------------------------------------------------------------
(* Shutting down. *)

\* shutdown_server() hands close() to the server's thread, and waits for it.
Shutdown ==
  /\ caller = "no" /\ caller' = "join"
  /\ UNCHANGED <<peerVars, handler, connVars, diskVars, stats, server, summary>>

\* close(): what is queued is gone with the listener.
CloseListener ==
  /\ server' = "draining"
  /\ handler' = [c \in Conn |-> IF handler[c] = "queued" THEN "lost" ELSE handler[c]]

Close ==
  /\ server = "up" /\ caller # "no"
  /\ CloseListener
  /\ UNCHANGED <<peerVars, connVars, diskVars, stats, caller, summary>>

\* serve_forever() has drained its pool, or kills what is left after stop_timeout.
Drained ==
  /\ server = "draining" /\ Working = {}
  /\ server' = "stopped"
  /\ UNCHANGED <<peerVars, handler, connVars, diskVars, stats, caller, summary>>

DrainTimeout ==
  /\ server = "draining" /\ Working # {}
  /\ server' = "stopped"
  /\ handler' = [c \in Conn |-> IF handler[c] \in Busy THEN "killed" ELSE handler[c]]
  /\ UNCHANGED <<peerVars, connVars, diskVars, stats, caller, summary>>

\* A killed handler flushes and closes its file.
CloseKilled(c) ==
  /\ handler[c] = "killed" /\ held[c] > 0
  /\ FlushAll(c)
  /\ UNCHANGED <<peerVars, handler, made, listed, stats, stopVars>>

\* A join of the server's thread that does not see it end: the thread is held
\* up, in a write or before it has run the callback.
JoinTimeout ==
  /\ server # "stopped"
  /\ \/ caller = "join" /\ caller' = "stop"
     \/ caller = "stop" /\ caller' = "force"
  /\ IF caller = "stop" /\ server = "up" THEN CloseListener ELSE UNCHANGED <<server, handler>>
  /\ UNCHANGED <<peerVars, connVars, diskVars, stats, summary>>

\* Mutant: nothing is told of a thread that does not end.
TellOfEnd ==
  /\ caller \in {"join", "stop", "force"} /\ server = "stopped"
  /\ caller' = "told" /\ summary' = <<stats.incomplete>>
  /\ UNCHANGED <<peerVars, handler, connVars, diskVars, stats, server>>

\* _report_summary(), when the thread has ended or there is nothing left to try.
Tell ==
  /\ \/ caller \in {"join", "stop"} /\ server = "stopped"
     \/ caller = "force"
  /\ caller' = "told" /\ summary' = <<stats.incomplete>>
  /\ UNCHANGED <<peerVars, handler, connVars, diskVars, stats, server>>

Peer(c) == Connect(c) \/ Send(c) \/ Hangup(c)

Handler(c) ==
  \/ Accept(c) \/ HeaderFails(c) \/ OpenDuplicate(c) \/ OpenUpload(c) \/ OpenScript(c)
  \/ OpenStream(c) \/ OpenLog(c) \/ Copy(c) \/ EndCopy(c) \/ EndDiscard(c) \/ CloseKilled(c)

Stop == Close \/ Drained \/ DrainTimeout
Caller == JoinTimeout \/ Tell

Next == Shutdown \/ Stop \/ Caller \/ \E c \in Conn : Peer(c) \/ Handler(c)

\* The joins of shutdown_server() have deadlines.
Spec == Init /\ [][Next]_vars /\ WF_vars(Caller)

-----------------------------------------------------------------------------
(* Properties. *)

\* What WriteLimiter lets in of n chunks.
Cap(n) == IF n > MaxUpload THEN MaxUpload ELSE n

\* files.json never advertises an artifact that was never stored
\* (resultserver.py:429): a line with content that is not marked incomplete
\* stands for a file that holds all that its peer has sent, or as much of it as
\* upload_max_size lets in and then marked as truncated, and nothing of another
\* peer unless it is a *_script.log.  One exception contradicts that comment: when
\* the flush at the end fails, the line does not tell, and what was in the buffer,
\* which may be all of a small file, is missing.
ListedIsStored ==
  \A e \in listed :
    kind[e.conn] \in Whole /\ ~e.incomplete =>
      LET c == e.conn
          file == stored[kind[c]]
          own == {j \in DOMAIN file : file[j] = c}
      IN  /\ peer[c] = "closed"
          /\ e.truncated <=> sent[c] > MaxUpload
          /\ Is(c, "upload") => own = DOMAIN file
          /\ c \notin unflushed => Cardinality(own) = Cap(sent[c])

\* What is stored of an upload stays as it is.  Its file is one peer's, and a second
\* upload to its path adds nothing to it; only a *_script.log is of several.
UploadKept ==
  [][\A p \in Whole :
       LET s == stored[p] t == stored'[p]
       IN  /\ Len(t) >= Len(s) /\ SubSeq(t, 1, Len(s)) = s
           /\ p = "upload" /\ t # <<>> => \A j \in DOMAIN t : t[j] = t[1]]_vars

\* shutdown_server() returns, however its server's thread is held up.
ShutdownReturns == caller = "join" ~> caller = "told"

=============================================================================
