---------------------------- MODULE DroppedFiles ----------------------------
(***************************************************************************)
(* The dropped files: class Files of CAPEsolo/analyzer.py, the command     *)
(* handlers that call it, and upload_to_host().  Each monitored process    *)
(* has a dispatcher thread, none of whose calls of Files takes a lock; at  *)
(* the end of the analysis one more thread dumps what is pending.          *)
(*                                                                         *)
(* A process writes, moves and deletes files of its own; it waits for the  *)
(* answer to what its monitor reports.  Processes drop equal contents, and *)
(* dump_files() goes over the files of all of them.  A file keeps its      *)
(* content as long as it exists.                                           *)
(***************************************************************************)
EXTENDS Naturals, FiniteSets

CONSTANTS
  Proc,    \* monitored processes
  Path,    \* paths
  Owner,   \* [Path -> the process that uses it]
  Content, \* what a file can hold
  None,
  MaxWrite,  \* bound: files written
  MaxRequest \* bound: requests of the monitors

ASSUME FilesConstants ==
  /\ Owner \in [Path -> Proc]
  /\ None \notin Path \cup Content
  /\ "main" \notin Proc
  /\ MaxWrite \in Nat /\ MaxRequest \in Nat

Main == "main"   \* the thread that ends the analysis
Actor == Proc \cup {Main}
Category == {"files", "CAPE"}   \* procdump and memory are as CAPE

VARIABLES
  phase,   \* the analysis runs, has its files dumped by Analyzer.complete(), is
           \* completed so or has failed to, or is cleaned up by a front end without that
  disk,    \* [Path -> Content or None]
  written, \* files written so far
  asked,   \* requests so far
  files,   \* Files.files, without the process identifiers
  orig,    \* Files.files_orig, whose category is always "files"
  dumped,  \* Files.dumped
  thread,  \* [Actor -> where its handler is, and the dump_file() under way]
  stored,  \* <<category, content>> that the result server has a file of
  entries, \* entries of files.json that say their upload was a duplicate: their content
  missed,  \* contents of which an upload_to_host() has returned without sending it
  told,    \* files that FILE_NEW has announced, wherever they have moved
  gone,    \* contents of announced files that were deleted after FILE_DEL
  excused  \* files announced too late or under a name that was being dumped, or
           \* that could not be read and were dropped all the same

tracker == <<files, orig, dumped>>
host == <<stored, entries, missed>>
ghosts == <<told, gone, excused>>
vars == <<phase, disk, written, asked, tracker, thread, host, ghosts>>

Idle == [at |-> "idle", path |-> None, sha |-> None, category |-> "files",
         duplicated |-> FALSE, caller |-> "none", to |-> None]

TypeOK ==
  /\ phase \in {"run", "dump", "completed", "aborted", "cleaned"}
  /\ disk \in [Path -> Content \cup {None}] /\ written \in 0..MaxWrite /\ asked \in 0..MaxRequest
  /\ files \subseteq Path /\ orig \subseteq Path /\ dumped \subseteq Content
  /\ thread \in [Actor -> [at : {"idle", "hash", "details", "upload", "pop",
                                 "delete", "move", "test", "pick"},
                           path : Path \cup {None}, sha : Content \cup {None},
                           category : Category, duplicated : BOOLEAN,
                           caller : {"none", "delete", "process", "dump", "loop"},
                           to : Path \cup {None}]]
  /\ stored \subseteq Category \X Content
  /\ entries \subseteq Content /\ missed \subseteq Content
  /\ told \subseteq Path /\ gone \subseteq Content /\ excused \subseteq Path

Init ==
  /\ phase = "run"
  /\ disk = [x \in Path |-> None] /\ written = 0 /\ asked = 0
  /\ files = {} /\ orig = {} /\ dumped = {}
  /\ thread = [a \in Actor |-> Idle]
  /\ stored = {} /\ entries = {} /\ missed = {}
  /\ told = {} /\ gone = {} /\ excused = {}

At(a, place) == thread[a].at = place
Become(a, t) == thread' = [thread EXCEPT ![a] = t]
Goto(a, place) == thread' = [thread EXCEPT ![a].at = place]

\* Process a waits for nothing, and its pipe is served.
Over == phase \in {"completed", "cleaned"}
Free(a) == At(a, "idle") /\ ~Over
Ask(a) == Free(a) /\ asked < MaxRequest /\ asked' = asked + 1

\* Someone is in dump_file() or delete_file() with this path.
Dumping(x) == \E a \in Actor : thread[a].path = x /\ ~At(a, "move")

-----------------------------------------------------------------------------
(* The sample, and the handlers that do not dump. *)

Write(a, x) ==
  /\ Free(a) /\ Owner[x] = a /\ disk[x] = None /\ written < MaxWrite
  /\ \E c \in Content : disk' = [disk EXCEPT ![x] = c]
  /\ written' = written + 1
  /\ UNCHANGED <<phase, asked, tracker, thread, host, ghosts>>

\* FILE_NEW, and FILE_DUMP of a path outside \CAPE\ and \memory\: add_file().
FileNew(a, x) ==
  /\ Ask(a) /\ Owner[x] = a /\ disk[x] # None
  /\ files' = files \cup {x}
  /\ orig' = IF x \in files THEN orig ELSE orig \cup {x}
  /\ told' = told \cup {x}
  /\ excused' = IF phase # "run" \/ Dumping(x) THEN excused \cup {x} ELSE excused
  /\ UNCHANGED <<phase, disk, written, dumped, thread, host, gone>>

\* FILE_MOVE, before the file is moved: files follows it and files_orig does not.
FileMove(a, x, y) ==
  /\ Ask(a) /\ Owner[x] = a /\ Owner[y] = a /\ disk[x] # None /\ disk[y] = None
  /\ files' = IF x \in files THEN (files \ {x}) \cup {y} ELSE files
  /\ Become(a, [Idle EXCEPT !.at = "move", !.path = x, !.to = y])
  /\ excused' = IF Dumping(y) THEN excused \cup {y} ELSE excused
  /\ UNCHANGED <<phase, disk, written, orig, dumped, host, told, gone>>

Renamed(set, x, y) == IF x \in set THEN (set \ {x}) \cup {y} ELSE set \ {y}

Move(a) ==
  /\ At(a, "move")
  /\ LET x == thread[a].path
         y == thread[a].to
     IN  /\ disk' = [disk EXCEPT ![x] = None, ![y] = disk[x]]
         /\ told' = Renamed(told, x, y)
         /\ excused' = IF {x, y} \cap excused # {} \/ Dumping(y) THEN (excused \ {x}) \cup {y} ELSE excused
  /\ Become(a, Idle)
  /\ UNCHANGED <<phase, written, asked, tracker, host, gone>>

-----------------------------------------------------------------------------
(* The handlers that dump a file, and dump_files(). *)

Begin(a, x, caller, category) ==
  Become(a, [Idle EXCEPT !.at = "hash", !.path = x, !.caller = caller, !.category = category])

\* FILE_DEL: the process deletes the file when it has the answer.
FileDel(a, x) ==
  /\ Ask(a) /\ Owner[x] = a /\ disk[x] # None
  /\ Begin(a, x, "delete", "files")
  /\ UNCHANGED <<phase, disk, written, tracker, host, ghosts>>

\* PROCESS, for an executable that was announced as a dropped file.
Process(a, x) ==
  /\ Ask(a) /\ Owner[x] = a /\ x \in files
  /\ Begin(a, x, "process", "files")
  /\ UNCHANGED <<phase, disk, written, tracker, host, ghosts>>

\* FILE_CAPE, and FILE_DUMP of a path in \CAPE\ or \memory\: dump_file() only.
FileCape(a, x) ==
  /\ Ask(a) /\ Owner[x] = a /\ disk[x] # None
  /\ Begin(a, x, "dump", "CAPE")
  /\ UNCHANGED <<phase, disk, written, tracker, host, ghosts>>

\* SHUTDOWN, whose part in process_lock is in AnalyzerCore.
Shutdown(a) ==
  /\ Ask(a)
  /\ Become(a, [Idle EXCEPT !.at = "test"])
  /\ UNCHANGED <<phase, disk, written, tracker, host, ghosts>>

\* while self.files
LoopTest(a) ==
  /\ At(a, "test")
  /\ IF files = {} THEN Become(a, Idle) ELSE Goto(a, "pick")
  /\ UNCHANGED <<phase, disk, written, asked, tracker, host, ghosts>>

\* An exception ends the handler: dispatch() answers, and a FILE_DEL goes on to
\* its deletion.  In Analyzer.complete() it ends the procedure.
Fail(a) ==
  /\ Become(a, IF thread[a].caller = "delete"
               THEN [Idle EXCEPT !.at = "delete", !.path = thread[a].path] ELSE Idle)
  /\ phase' = IF a = Main THEN "aborted" ELSE phase

\* list(self.files.keys())[0], which raises if the last one has gone.
Pick(a) ==
  /\ At(a, "pick")
  /\ \/ \E x \in files : Begin(a, x, "loop", "files") /\ UNCHANGED phase
     \/ files = {} /\ Fail(a)
  /\ UNCHANGED <<disk, written, asked, tracker, host, ghosts>>

\* Where dump_file() returns to: delete_file() still has the path.
Return(a) ==
  Become(a, IF thread[a].caller = "dump" THEN Idle
            ELSE [Idle EXCEPT !.at = "pop", !.caller = thread[a].caller,
                              !.path = thread[a].path])

Hashed(a) ==
  [thread[a] EXCEPT !.at = IF thread[a].path \in orig THEN "details" ELSE "upload",
                    !.sha = disk[thread[a].path],
                    !.duplicated = disk[thread[a].path] \in dumped]

\* Mutant: a file is dumped if there are details of it.
HashOriginal(a) ==
  /\ At(a, "hash")
  /\ LET x == thread[a].path
     IN  IF disk[x] = None \/ x \notin orig THEN Return(a) ELSE Become(a, Hashed(a))
  /\ UNCHANGED <<phase, disk, written, asked, tracker, host, ghosts>>

\* Mutant: the hash is noted when it is looked up.
HashClaims(a) ==
  /\ At(a, "hash")
  /\ LET x == thread[a].path
     IN  IF disk[x] = None THEN Return(a) /\ UNCHANGED dumped
         ELSE Become(a, Hashed(a)) /\ dumped' = dumped \cup {disk[x]}
  /\ UNCHANGED <<phase, disk, written, asked, files, orig, host, ghosts>>

\* os.path.isfile(), the hash, the test of `dumped`, and whether there are
\* details of the file.  One that cannot be read is given up; delete_file() drops
\* it all the same.
Hash(a) ==
  /\ At(a, "hash")
  /\ LET x == thread[a].path
     IN  \/ disk[x] = None /\ Return(a) /\ UNCHANGED excused
         \/ disk[x] # None /\ Become(a, Hashed(a)) /\ UNCHANGED excused
         \/ /\ disk[x] # None /\ Return(a)
            /\ excused' = IF thread[a].caller = "dump" THEN excused ELSE excused \cup {x}
  /\ UNCHANGED <<phase, disk, written, asked, tracker, host, told, gone>>

\* The details are asked for again, and a tracked file has the category it was
\* tracked with.  It raises if another thread has dropped them.
Details(a) ==
  /\ At(a, "details")
  /\ \/ /\ thread[a].path \in orig
        /\ Become(a, [thread[a] EXCEPT !.at = "upload", !.category = "files"])
        /\ UNCHANGED phase
     \/ thread[a].path \notin orig /\ Fail(a)
  /\ UNCHANGED <<disk, written, asked, tracker, host, ghosts>>

\* upload_to_host() and what the result server does.  It returns, and raises
\* nothing, when the file has gone, is empty or too big, and when the transfer
\* fails.  A name that exists on the server is not written again.
Send(a) ==
  LET c == thread[a].sha
      here == disk[thread[a].path] # None
  IN  \/ /\ here /\ thread[a].duplicated
         /\ entries' = entries \cup {c}
         /\ UNCHANGED <<stored, missed>>
      \/ /\ here /\ ~thread[a].duplicated
         /\ stored' = stored \cup {<<thread[a].category, c>>}
         /\ UNCHANGED <<entries, missed>>
      \/ missed' = missed \cup {c} /\ UNCHANGED <<stored, entries>>

\* Mutant: the path is noted.
UploadByPath(a) ==
  /\ At(a, "upload") /\ Send(a)
  /\ dumped' = dumped \cup {thread[a].path}
  /\ Return(a)
  /\ UNCHANGED <<phase, disk, written, asked, files, orig, ghosts>>

\* The upload, and self.dumped.append(sha256), whatever became of it.
Upload(a) ==
  /\ At(a, "upload") /\ Send(a)
  /\ dumped' = dumped \cup {thread[a].sha}
  /\ Return(a)
  /\ UNCHANGED <<phase, disk, written, asked, files, orig, ghosts>>

\* A file that is to be moved to x does not exist there yet: dump_files() has
\* skipped it and drops it now.
Moving(x, y) == \E a \in Proc : At(a, "move") /\ thread[a].path = x /\ thread[a].to = y

\* Mutant: dump_files() dumps the first file only.
AfterOne == [delete |-> "delete", process |-> "idle", loop |-> "idle"]

\* Where delete_file() returns to.
After == [delete |-> "delete", process |-> "idle", loop |-> "test"]

\* The end of delete_file().
Pop(a) ==
  /\ At(a, "pop")
  /\ LET x == thread[a].path
         next == After[thread[a].caller]
     IN  /\ files' = files \ {x} /\ orig' = orig \ {x}
         /\ Become(a, [Idle EXCEPT !.at = next, !.path = IF next = "delete" THEN x ELSE None])
         /\ excused' = IF \E w \in Path : Moving(w, x) THEN excused \cup {x} ELSE excused
  /\ UNCHANGED <<phase, disk, written, asked, dumped, host, told, gone>>

\* The process has its answer and deletes the file.
Delete(a) ==
  /\ At(a, "delete")
  /\ LET x == thread[a].path
     IN  /\ disk' = [disk EXCEPT ![x] = None]
         /\ gone' = IF x \in told \ excused THEN gone \cup {disk[x]} ELSE gone
         /\ told' = told \ {x} /\ excused' = excused \ {x}
  /\ Become(a, Idle)
  /\ UNCHANGED <<phase, written, asked, tracker, host>>

-----------------------------------------------------------------------------
(* The end of the analysis, while the handlers still serve their pipes. *)

\* Analyzer.complete() dumps the analyzer's files ...
Complete ==
  /\ phase = "run" /\ phase' = "dump"
  /\ Become(Main, [Idle EXCEPT !.at = "test"])
  /\ UNCHANGED <<disk, written, asked, tracker, host, ghosts>>

\* ... and when dump_files() has returned, the pipe servers stop.
Stop ==
  /\ phase = "dump" /\ At(Main, "idle") /\ phase' = "completed"
  /\ UNCHANGED <<disk, written, asked, tracker, thread, host, ghosts>>

\* _cleanup_analyzer() of the MCP server and OnAnalyzerComplete() of the window
\* dump a new Files(), which is empty.
Cleanup ==
  /\ phase = "run" /\ phase' = "cleaned"
  /\ UNCHANGED <<disk, written, asked, tracker, thread, host, ghosts>>

Dump(a) == Hash(a) \/ Details(a) \/ Upload(a) \/ Pop(a)

Next ==
  \/ \E a \in Proc, x \in Path :
       \/ Write(a, x) \/ FileNew(a, x) \/ FileDel(a, x)
       \/ Process(a, x) \/ FileCape(a, x)
       \/ \E y \in Path \ {x} : FileMove(a, x, y)
  \/ \E a \in Proc : Move(a) \/ Shutdown(a) \/ Delete(a)
  \/ \E a \in Actor : LoopTest(a) \/ Pick(a) \/ Dump(a)
  \/ Complete \/ Stop \/ Cleanup

Spec == Init /\ [][Next]_vars

-----------------------------------------------------------------------------
(* Properties. *)

Sent == {pair[2] : pair \in stored}

\* The content has reached the host, or an upload of it was attempted and
\* nothing but the log says that it failed.
Settled(c) == c \in Sent \cup missed

\* An announced file that the sample deletes is dumped before it goes
\* (analyzer.py:1514), also if another thread is dumping the same file or an equal
\* one just then, drops it first, or makes this one raise.  A file that could not be
\* read is excused: the code gives it up.
DeletedIsSent == \A c \in gone : Settled(c)

\* An upload that files.json lists as a duplicate, and that brings no content, is
\* of a content that has been sent before, by whichever thread and under
\* whichever name (analyzer.py:974).
DuplicateWasSent == \A c \in entries : Settled(c)

\* An announced file is tracked until it has been sent: moving it, dumping it
\* twice at once, and the loop of a SHUTDOWN in the middle of all that do not lose
\* it.  When Analyzer.complete() has ended the analysis, being tracked is not
\* enough; where an exception has ended complete(), what it left is still tracked.
AnnouncedIsKept ==
  LET tracked == IF phase = "completed" THEN {} ELSE files
  IN  \A x \in told \ excused :
        Settled(disk[x]) \/ x \in tracked \/ \E y \in excused \cup tracked : Moving(x, y)

\* When the analysis is over, however it ended, all the notified files have been
\* dumped, or are being dumped (analyzer.py:357, analyzer.py:909).
NotifiedAreDumped ==
  Over =>
    \A x \in told \ excused :
      Settled(disk[x]) \/ Dumping(x) \/ \E y \in excused : Moving(x, y)

=============================================================================
