--------------------------- MODULE DebugRendezvous ---------------------------
(***************************************************************************)
(* How the debugger tools of the MCP server meet capemon's debug server:   *)
(* DebuggerSession (CAPEsolo/capelib/debug_session.py), whose methods are  *)
(* called by tool calls, and CommandPipeHandler (CAPEsolo/classes/         *)
(* debug_pipe.py), which the pipe dispatcher's thread calls.  They share   *)
(* one slot for a command, one for a payload, and a condition variable.    *)
(*                                                                         *)
(* Commands are numbered as they are sent.  A payload is named by the      *)
(* command it answers, and is 0 for a break nobody asked for.  The debug   *)
(* server in the target is external: a thread that writes BREAK and gets   *)
(* the next command as the reply.                                          *)
(***************************************************************************)
EXTENDS Integers, FiniteSets

CONSTANTS
  Caller,  \* threads that run tool calls
  None,
  MaxCmd,  \* bound on the commands sent
  MayIdle  \* may a halted target go without a command for 100 minutes?

ASSUME RendezvousConstants ==
  MaxCmd \in Nat /\ None \notin Caller \cup Int /\ MayIdle \in BOOLEAN

VARIABLES
  pending,   \* pendingCommand, 0 for None
  response,  \* debuggerResponse, a payload or None
  connected, \* self.connected
  sendLock,  \* holder of self.sendLock, or None
  call,      \* [Caller -> command it waits for, 0 in WaitForBreak, or None]
  sent,      \* number of commands sent
  resuming,  \* the commands that let the target run
  taken,     \* [command -> times the debug server got it]
  result,    \* [command -> payload SendCommand returned, Timeout, or None]
  handed,    \* [command -> times its payload was handed to a caller]
  at, on,    \* what the debug server does, and for which command
  politeCaller \* one call at a time, and commands only while halted

slots == <<pending, response, connected>>
callers == <<sendLock, call, sent, resuming>>
ghosts == <<taken, result, handed>>
target == <<at, on>>
sessionVars == <<slots, callers, ghosts, target, politeCaller>>

Cmd     == 1..MaxCmd
Payload == 0..MaxCmd
Timeout == -1

SessionTypeOK ==
  /\ pending \in {0, sent}
  /\ response \in Payload \cup {None}
  /\ connected \in BOOLEAN
  /\ sendLock \in Caller \cup {None}
  /\ call \in [Caller -> 0..MaxCmd \cup {None}]
  /\ sent \in 0..MaxCmd
  /\ resuming \in SUBSET Cmd
  /\ taken \in [Cmd -> Nat]
  /\ result \in [Cmd -> Payload \cup {None, Timeout}]
  /\ handed \in [Cmd -> Nat]
  /\ at \in {"running", "busy", "asking", "refused"}
  /\ on \in 0..MaxCmd
  /\ politeCaller \in BOOLEAN

\* The session is launched and the target has not reached a breakpoint.
SessionInit ==
  /\ pending = 0
  /\ response = None
  /\ connected = FALSE
  /\ sendLock = None
  /\ call = [k \in Caller |-> None]
  /\ sent = 0
  /\ resuming = {}
  /\ taken = [n \in Cmd |-> 0]
  /\ result = [n \in Cmd |-> None]
  /\ handed = [n \in Cmd |-> 0]
  /\ at = "running"
  /\ on = 0
  /\ politeCaller \in BOOLEAN

\* No tool call is waiting.
NoCalls == \A k \in Caller : call[k] = None

-----------------------------------------------------------------------------
(* _handle_break, on the thread of the debug server's pipe. *)

\* Mutant: a command that is already there is the reply, and stays there.
HandleBreakServes(p) ==
  /\ response' = IF p = None THEN response ELSE p
  /\ at' = IF pending = 0 THEN "asking" ELSE "busy"
  /\ on' = pending
  /\ taken' = IF pending = 0 THEN taken ELSE [taken EXCEPT ![pending] = @ + 1]
  /\ UNCHANGED <<pending, connected, callers, result, handed, politeCaller>>

\* BREAK with payload p, or None without data: store it, then wait for a
\* command - but if one is there already, answer "OK" and leave it there.
HandleBreak(p) ==
  /\ response' = IF p = None THEN response ELSE p
  /\ at' = IF pending = 0 THEN "asking" ELSE "refused"
  /\ on' = 0
  /\ UNCHANGED <<pending, connected, callers, ghosts, politeCaller>>

\* The wait ends: the command is the reply to BREAK.
TakeCommand ==
  /\ at = "asking" /\ pending # 0
  /\ pending' = 0
  /\ taken' = [taken EXCEPT ![pending] = @ + 1]
  /\ at' = IF pending \in resuming THEN "running" ELSE "busy"
  /\ on' = pending
  /\ UNCHANGED <<response, connected, callers, result, handed, politeCaller>>

\* After TIMEOUT seconds without a command the reply is ":TIMEOUT".  By then
\* a caller for whom a payload is there has long been woken.
AskTimeout ==
  /\ MayIdle
  /\ at = "asking" /\ pending = 0
  /\ response = None \/ NoCalls
  /\ at' = "refused"
  /\ UNCHANGED <<slots, callers, ghosts, on, politeCaller>>

-----------------------------------------------------------------------------
(* The debug server (external). *)

\* The target reaches a breakpoint, by itself or as a resumed one.
Break == at = "running" /\ HandleBreak(on)

\* A command that does not resume the target has been carried out.
CarryOut == at = "busy" /\ HandleBreak(on)

\* A reply that is no command: ask again, or let the target run.
AskAgain == at = "refused" /\ HandleBreak(None)
RunOn ==
  /\ at = "refused"
  /\ at' = "running"
  /\ UNCHANGED <<slots, callers, ghosts, on, politeCaller>>

-----------------------------------------------------------------------------
(* DebuggerSession. *)

\* Mutant: a command queues behind the one that is pending.
SendQueued(k, resume) ==
  /\ connected
  /\ call[k] = None
  /\ sendLock = None
  /\ sent < MaxCmd
  /\ politeCaller => at = "asking" /\ NoCalls
  /\ sendLock' = k
  /\ sent' = sent + 1
  /\ resuming' = IF resume THEN resuming \cup {sent + 1} ELSE resuming
  /\ response' = None
  /\ pending' = IF pending = 0 THEN sent + 1 ELSE pending
  /\ call' = [call EXCEPT ![k] = sent + 1]
  /\ UNCHANGED <<connected, ghosts, target, politeCaller>>

\* Mutant: the payload of an earlier break is not discarded.
SendStaleKept(k, resume) ==
  /\ connected
  /\ call[k] = None
  /\ sendLock = None
  /\ sent < MaxCmd
  /\ politeCaller => at = "asking" /\ NoCalls
  /\ sendLock' = k
  /\ sent' = sent + 1
  /\ resuming' = IF resume THEN resuming \cup {sent + 1} ELSE resuming
  /\ pending' = sent + 1
  /\ call' = [call EXCEPT ![k] = sent + 1]
  /\ UNCHANGED <<response, connected, ghosts, target, politeCaller>>

\* SendCommand(), its first part, for a tool call that _require_debugger let
\* pass: it asks only whether a break has ever been seen.
Send(k, resume) ==
  /\ connected
  /\ call[k] = None
  /\ sendLock = None
  /\ sent < MaxCmd
  /\ politeCaller => at = "asking" /\ NoCalls
  /\ sendLock' = k
  /\ sent' = sent + 1
  /\ resuming' = IF resume THEN resuming \cup {sent + 1} ELSE resuming
  /\ response' = None
  /\ pending' = sent + 1
  /\ call' = [call EXCEPT ![k] = sent + 1]
  /\ UNCHANGED <<connected, ghosts, target, politeCaller>>

WaitForBreak(k) ==
  /\ call[k] = None
  /\ politeCaller => NoCalls
  /\ call' = [call EXCEPT ![k] = 0]
  /\ UNCHANGED <<slots, sendLock, sent, resuming, ghosts, target, politeCaller>>

Unlock(k) == sendLock' = IF sendLock = k THEN None ELSE sendLock

Record(n, r) == result' = IF n = 0 THEN result ELSE [result EXCEPT ![n] = r]

\* Mutant: _TakeResponse leaves the payload in its slot.
ReceiveKept(k) ==
  /\ call[k] # None
  /\ response # None
  /\ Record(call[k], response)
  /\ handed' = IF response = 0 THEN handed ELSE [handed EXCEPT ![response] = @ + 1]
  /\ connected' = TRUE
  /\ call' = [call EXCEPT ![k] = None]
  /\ Unlock(k)
  /\ UNCHANGED <<response, pending, sent, resuming, taken, target, politeCaller>>

\* The wait of SendCommand() or WaitForBreak() ends: _TakeResponse().
Receive(k) ==
  /\ call[k] # None
  /\ response # None
  /\ Record(call[k], response)
  /\ handed' = IF response = 0 THEN handed ELSE [handed EXCEPT ![response] = @ + 1]
  /\ response' = None
  /\ connected' = TRUE
  /\ call' = [call EXCEPT ![k] = None]
  /\ Unlock(k)
  /\ UNCHANGED <<pending, sent, resuming, taken, target, politeCaller>>

\* Mutant: a command that timed out stays pending.
GiveUpKept(k) ==
  /\ call[k] # None
  /\ response = None
  /\ Record(call[k], Timeout)
  /\ call' = [call EXCEPT ![k] = None]
  /\ Unlock(k)
  /\ UNCHANGED <<slots, sent, resuming, taken, handed, target, politeCaller>>

\* The wait times out: SendCommand() withdraws its command.
GiveUp(k) ==
  /\ call[k] # None
  /\ response = None
  /\ Record(call[k], Timeout)
  /\ pending' = IF call[k] = 0 THEN pending ELSE 0
  /\ call' = [call EXCEPT ![k] = None]
  /\ Unlock(k)
  /\ UNCHANGED <<response, connected, sent, resuming, taken, handed, target, politeCaller>>

-----------------------------------------------------------------------------

Tool(k) ==
  \/ \E resume \in BOOLEAN : Send(k, resume)
  \/ WaitForBreak(k) \/ Receive(k) \/ GiveUp(k)

SessionNext ==
  \/ \E k \in Caller : Tool(k)
  \/ TakeCommand \/ AskTimeout
  \/ Break \/ CarryOut \/ AskAgain \/ RunOn

SessionSpec == SessionInit /\ [][SessionNext]_sessionVars

-----------------------------------------------------------------------------
(* Properties. *)

\* The debug server gets a command at most once, however often the target
\* breaks: a step is one step (TakeCommand against GiveUp and Send).
CommandOnce == \A n \in Cmd : taken[n] <= 1

\* A payload is handed to one caller only, whoever else waits.
PayloadOnce == \A n \in Cmd : handed[n] <= 1

\* A command whose caller was told that it timed out, and which the debug
\* server had not got by then, is not carried out behind the caller's back.
WithdrawnIsGone ==
  [][\A n \in Cmd : result[n] = Timeout => taken'[n] = taken[n]]_sessionVars

\* A command that is sent while the target is halted, by a client with one
\* call at a time, is never answered with the payload of another one.
PoliteOwnPayload ==
  politeCaller => \A n \in Cmd : result[n] \in {None, Timeout, n}

=============================================================================
