------------------------------ MODULE LogServer ------------------------------
(***************************************************************************)
(* The behaviour logs on their way from the monitored processes to the     *)
(* result server: LogServer and LogServerThread of CAPEsolo/lib/core/      *)
(* log.py, LOGSERVER_POOL and the part of Process.inject() that uses it    *)
(* (CAPEsolo/lib/api/process.py), and BsonStore of the result server.      *)
(*                                                                         *)
(* A log server has one instance of a named pipe, whose path is made of    *)
(* the identifier of the process, one connection to the result server and  *)
(* one thread.  Injections of one process are not excluded from each       *)
(* other: whoever finds no path in the pool makes a log server.  The pool, *)
(* the pipes and the threads outlive a job; the result server does not.    *)
(*                                                                         *)
(* A monitor, which is not part of this code, opens a pipe, says what is   *)
(* to come and whose it is, and then writes its records.  It opens another *)
(* when that one is broken; so does a later process with the identifier.   *)
(***************************************************************************)
EXTENDS Naturals, Sequences

CONSTANTS
  Pid,       \* process identifiers, none of them 0
  MaxServer, \* bound: log servers
  MaxRecord  \* bound: records that are written to a pipe

ASSUME LogConstants == 0 \notin Pid /\ MaxServer \in Nat /\ MaxRecord \in Nat

Server == 1..MaxServer
None == 0    \* no process, no log server
Header == 0  \* the first message of a pipe; the records are numbered from 1

VARIABLES
  serving, \* the result server listens
  pool,    \* processes whose path LOGSERVER_POOL has
  told,    \* processes whose monitor has its configuration
  crowded, \* processes for which a log server was begun before the last was pooled
  owner,   \* [Server -> the process that it is for, or None]
  place,   \* [Server -> where the call of LogServer(), or the thread, is]
  pipe,    \* [Server -> its instance of the pipe]
  data,    \* [Server -> messages written to the instance and not read]
  sent,    \* [Server -> records written to the instance]
  conn,    \* [Server -> its connection to the result server]
  log      \* [Pid -> logs/<pid>.bson: the log server that opened it, its messages]

injection == <<pool, told, crowded, owner>>
monitor == <<data, sent>>
vars == <<serving, injection, place, pipe, monitor, conn, log>>

\* Of an instance: "free" has not been opened, "held" is open, "broken" was closed by
\* the monitor, "closed" by the log server.
TypeOK ==
  /\ serving \in BOOLEAN
  /\ pool \subseteq Pid /\ told \subseteq Pid /\ crowded \subseteq Pid
  /\ owner \in [Server -> Pid \cup {None}]
  /\ place \in [Server -> {"none", "create", "connect", "absent", "failed",
                           "listen", "serve", "spin", "done"}]
  /\ pipe \in [Server -> {"none", "free", "held", "broken", "closed"}]
  /\ data \in [Server -> Seq(0..MaxRecord)]
  /\ sent \in [Server -> 0..MaxRecord]
  /\ conn \in [Server -> {"none", "up", "cut", "closed"}]
  /\ log \in [Pid -> [by : Server \cup {None}, messages : Seq(0..MaxRecord)]]
  /\ \A i \in Server : /\ place[i] = "none" <=> owner[i] = None
                       /\ place[i] = "serve" => pipe[i] \in {"held", "broken"}
                       /\ place[i] \in {"spin", "done"} <=> pipe[i] = "closed"

Init ==
  /\ serving = TRUE /\ pool = {} /\ told = {} /\ crowded = {}
  /\ owner = [i \in Server |-> None] /\ place = [i \in Server |-> "none"]
  /\ pipe = [i \in Server |-> "none"]
  /\ data = [i \in Server |-> <<>>] /\ sent = [i \in Server |-> 0]
  /\ conn = [i \in Server |-> "none"]
  /\ log = [p \in Pid |-> [by |-> None, messages |-> <<>>]]

Goto(i, there) == place' = [place EXCEPT ![i] = there]
ServersOf(p) == {i \in Server : owner[i] = p}

-----------------------------------------------------------------------------
(* Process.inject(), as far as write_monitor_config(), and LogServer(). *)

Begin(p) ==
  /\ \E i \in Server : /\ owner[i] = None /\ \A j \in Server : j < i => owner[j] # None
                       /\ owner' = [owner EXCEPT ![i] = p] /\ Goto(i, "create")
  /\ crowded' = IF \E i \in ServersOf(p) : place[i] \in {"create", "connect", "failed"}
                THEN crowded \cup {p} ELSE crowded
  /\ UNCHANGED <<serving, pool, told, pipe, monitor, conn, log>>

\* Mutant: the pool is not looked at.
InjectAgain(p) == Begin(p)

\* The path is in the pool, or a log server is made for it.
Inject(p) ==
  \/ /\ p \in pool /\ told' = told \cup {p}
     /\ UNCHANGED <<serving, pool, crowded, owner, place, pipe, monitor, conn, log>>
  \/ p \notin pool /\ Begin(p)

\* LogServer() has returned.
Pool(p) == pool' = pool \cup {p} /\ told' = told \cup {p}

\* CreateNamedPipeW(); without a pipe there is no thread, but the object is pooled.
CreatePipe(i) ==
  /\ place[i] = "create"
  /\ \/ Goto(i, "connect") /\ pipe' = [pipe EXCEPT ![i] = "free"] /\ UNCHANGED <<pool, told>>
     \/ Goto(i, "absent") /\ Pool(owner[i]) /\ UNCHANGED pipe
  /\ UNCHANGED <<serving, crowded, owner, monitor, conn, log>>

\* LogServerThread() connects.  If it cannot, the exception leaves inject(), and leaves
\* the pipe with no one to read it.
StartThread(i) ==
  /\ place[i] = "connect"
  /\ IF serving
     THEN Goto(i, "listen") /\ conn' = [conn EXCEPT ![i] = "up"] /\ Pool(owner[i])
     ELSE Goto(i, "failed") /\ UNCHANGED <<conn, pool, told>>
  /\ UNCHANGED <<serving, crowded, owner, pipe, monitor, log>>

-----------------------------------------------------------------------------
(* The monitors. *)

Open(p) ==
  /\ p \in told /\ \A i \in ServersOf(p) : pipe[i] # "held"
  /\ \E i \in ServersOf(p) : /\ pipe[i] = "free"
                             /\ pipe' = [pipe EXCEPT ![i] = "held"]
                             /\ data' = [data EXCEPT ![i] = <<Header>>]
  /\ UNCHANGED <<serving, injection, place, sent, conn, log>>

Write(i) ==
  /\ pipe[i] = "held" /\ sent[i] < MaxRecord
  /\ sent' = [sent EXCEPT ![i] = @ + 1]
  /\ data' = [data EXCEPT ![i] = Append(@, sent[i] + 1)]
  /\ UNCHANGED <<serving, injection, place, pipe, conn, log>>

\* The process ends, or the sample closes the handle.
Break(i) ==
  /\ pipe[i] = "held" /\ pipe' = [pipe EXCEPT ![i] = "broken"]
  /\ UNCHANGED <<serving, injection, place, monitor, conn, log>>

-----------------------------------------------------------------------------
(* LogServerThread.run() *)

Accept(i) ==
  /\ place[i] = "listen" /\ pipe[i] = "held"
  /\ Goto(i, "serve")
  /\ UNCHANGED <<serving, injection, pipe, monitor, conn, log>>

\* ConnectNamedPipe() fails when the monitor has closed its end by then.  The handle and
\* the socket are closed, and the loop goes on for ever to close them again; what else
\* has the number of the handle by then is left out.
Miss(i) ==
  /\ place[i] = "listen" /\ pipe[i] = "broken"
  /\ Goto(i, "spin") /\ pipe' = [pipe EXCEPT ![i] = "closed"]
  /\ data' = [data EXCEPT ![i] = <<>>] /\ conn' = [conn EXCEPT ![i] = "closed"]
  /\ UNCHANGED <<serving, injection, sent, log>>

\* BsonStore: the header opens the file of the process afresh.  Two connections that
\* have opened it write at offsets of their own: the log is torn, and what else is in it
\* does not matter.
Torn == <<Header, Header>>
Stored(i, message) ==
  LET old == log[owner[i]]
  IN  IF old.by = i
      THEN [old EXCEPT !.messages = IF @ = Torn THEN Torn ELSE Append(@, message)]
      ELSE [by |-> i, messages |-> IF message = Header /\ (old.by = None \/ conn[old.by] # "up")
                                   THEN <<Header>> ELSE Torn]

\* Mutant: one message, and the thread is at its end.
ForwardOnce(i) ==
  /\ place[i] = "serve" /\ data[i] # <<>> /\ conn[i] = "up"
  /\ log' = [log EXCEPT ![owner[i]] = Stored(i, Head(data[i]))]
  /\ Goto(i, "done") /\ pipe' = [pipe EXCEPT ![i] = "closed"]
  /\ data' = [data EXCEPT ![i] = <<>>]
  /\ UNCHANGED <<serving, injection, sent, conn>>

\* A message of the pipe, and sendall(): the result server stores it, unless it ends the
\* connection.
Forward(i) ==
  /\ place[i] = "serve" /\ data[i] # <<>> /\ conn[i] = "up"
  /\ data' = [data EXCEPT ![i] = Tail(@)]
  /\ log' = [log EXCEPT ![owner[i]] = Stored(i, Head(data[i]))]
  /\ UNCHANGED <<serving, injection, place, pipe, sent, conn>>

\* Mutant: a thread that closes its socket but not its pipe.
LoseSocket(i) ==
  /\ place[i] = "serve" /\ data[i] # <<>> /\ conn[i] = "cut"
  /\ Goto(i, "done") /\ data' = [data EXCEPT ![i] = <<>>]
  /\ UNCHANGED <<serving, injection, pipe, sent, conn, log>>

\* Once the other end is gone, what is sent is lost; the first error ends the thread,
\* which closes its pipe.  Without a message there is none: the loop of handle_logs()
\* does not end when its pipe is broken.
Lose(i) ==
  /\ place[i] = "serve" /\ data[i] # <<>> /\ conn[i] = "cut"
  /\ \/ /\ data' = [data EXCEPT ![i] = Tail(@)]
        /\ UNCHANGED <<place, pipe>>
     \/ /\ Goto(i, "done") /\ pipe' = [pipe EXCEPT ![i] = "closed"]
        /\ data' = [data EXCEPT ![i] = <<>>]
  /\ UNCHANGED <<serving, injection, sent, conn, log>>

Run(i) == CreatePipe(i) \/ StartThread(i) \/ Accept(i) \/ Miss(i) \/ Forward(i) \/ Lose(i)

-----------------------------------------------------------------------------
(* The result server, of which the next job has a new one. *)

\* It ends a connection: at the end of the job, or because a write to the file fails or
\* nothing has come for idle_timeout.
Cut(i) ==
  /\ conn[i] = "up" /\ conn' = [conn EXCEPT ![i] = "cut"]
  /\ UNCHANGED <<serving, injection, place, pipe, monitor, log>>

ShutDown == serving /\ serving' = FALSE /\ UNCHANGED <<injection, place, pipe, monitor, conn, log>>
Start == ~serving /\ serving' = TRUE /\ UNCHANGED <<injection, place, pipe, monitor, conn, log>>

Next ==
  \/ \E p \in Pid : Inject(p) \/ Open(p)
  \/ \E i \in Server : Write(i) \/ Break(i) \/ Run(i) \/ Cut(i)
  \/ ShutDown \/ Start

Spec == Init /\ [][Next]_vars

\* The threads run; what a monitor or the result server does is not assumed.
FairSpec == Spec /\ \A i \in Server : WF_vars(Run(i))

-----------------------------------------------------------------------------
(* Properties. *)

Upto(n) == [k \in 1..n + 1 |-> k - 1]

\* What log server i's connection has brought.
StoredBy(i) == IF log[owner[i]].by = i THEN log[owner[i]].messages ELSE <<>>

\* Two injections of the process looked at the pool before its path was in it, or one
\* of them could not connect: the path has two instances, and both have been opened.
\* Whoever opened the second has truncated the log of the first (process.py:713).
Polluted(p) ==
  /\ p \in crowded
  /\ \E i, j \in ServersOf(p) : i # j /\ {pipe[i], pipe[j]} \cap {"none", "free"} = {}

\* The log of a process is its own from the first message on, in order and none twice,
\* and as long as its log server reads and the result server listens to it, nothing that
\* the process has written is neither in the log nor in the pipe.  No other process with
\* the identifier writes to it, in this job or in a later one, and no second injection
\* opens it anew, unless it is polluted.
LogWhole ==
  \A p \in Pid : ~Polluted(p) =>
    /\ \E n \in 0..MaxRecord : log[p].messages \in {<<>>, Upto(n)}
    /\ \A i \in ServersOf(p) :
         place[i] \in {"listen", "serve"} /\ conn[i] = "up" /\ pipe[i] # "free" =>
           StoredBy(i) \o data[i] = Upto(sent[i])

\* What a process writes to a pipe arrives: in its log, unless the result server has
\* ended the connection, the process closed the pipe before the thread listened, or a
\* second injection has made another.
Waits(p, i, n) ==
  owner[i] = p /\ ~Polluted(p) /\ \E k \in DOMAIN data[i] : data[i][k] = n

Arrived(p, i, n) ==
  \/ \E k \in DOMAIN log[p].messages : log[p].messages[k] = n
  \/ conn[i] = "cut" \/ place[i] \in {"failed", "spin"} \/ Polluted(p)

RecordsArrive ==
  \A p \in Pid, i \in Server, n \in 0..MaxRecord : Waits(p, i, n) ~> Arrived(p, i, n)

=============================================================================
