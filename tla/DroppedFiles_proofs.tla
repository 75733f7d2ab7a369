------------------------- MODULE DroppedFiles_proofs -------------------------
(***************************************************************************)
(* Theorems about DroppedFiles, for any processes, files and contents and  *)
(* any number of requests.  They all follow from one inductive invariant,  *)
(* Inv: what a handler may rely on at each place of delete_file() and      *)
(* dump_file(), and what has become of each announced file.                *)
(***************************************************************************)
EXTENDS DroppedFiles, TLAPS

USE FilesConstants DEF Main, Actor

Place == {"idle", "hash", "details", "upload", "pop", "delete", "move", "test", "pick"}
Caller == {"none", "delete", "process", "dump", "loop"}
Thread == [at : Place, path : Path \cup {None}, sha : Content \cup {None},
           category : Category, duplicated : BOOLEAN, caller : Caller, to : Path \cup {None}]

\* The type invariant by what it speaks of.
SampleTypes ==
  /\ phase \in {"run", "dump", "completed", "aborted", "cleaned"}
  /\ disk \in [Path -> Content \cup {None}] /\ written \in 0..MaxWrite /\ asked \in 0..MaxRequest
TrackerTypes == files \subseteq Path /\ orig \subseteq Path /\ dumped \subseteq Content
ThreadTypes == thread \in [Actor -> Thread]
HostTypes == stored \subseteq Category \X Content /\ entries \subseteq Content /\ missed \subseteq Content
GhostTypes == told \subseteq Path /\ gone \subseteq Content /\ excused \subseteq Path
Types == SampleTypes /\ TrackerTypes /\ ThreadTypes /\ HostTypes /\ GhostTypes

\* What a handler t of actor a relies on.  A process waits for its own handler,
\* so the file of its FILE_DEL or FILE_MOVE stays as it is meanwhile; a handler
\* that has hashed an announced file has the hash of what is there, finds its
\* details or that content settled, and past its upload that content is settled.
Fit(a, t) ==
  /\ t.at \in {"hash", "details", "upload"} => t.path \in Path /\ t.caller # "none"
  /\ t.caller \notin {"none", "loop"} => a \in Proc
  /\ t.at \in {"details", "upload"} => t.sha \in Content /\ (t.duplicated => Settled(t.sha))
  /\ t.at \in {"test", "pick"} => t.caller = "none"
  /\ t.at = "pop" => t.path \in Path /\ t.caller \notin {"none", "dump"}
  /\ t.at = "delete" \/ t.caller = "delete" =>
       a \in Proc /\ t.path \in Path /\ Owner[t.path] = a /\ disk[t.path] # None
  /\ t.at = "move" =>
       /\ a \in Proc /\ t.path \in Path /\ t.to \in Path /\ t.path # t.to
       /\ Owner[t.path] = a /\ Owner[t.to] = a
       /\ disk[t.path] # None /\ disk[t.to] = None /\ t.path \notin files
  /\ t.path \in told \ excused =>
       /\ t.at \in {"details", "upload"} => t.sha = disk[t.path]
       /\ t.at = "details" => t.path \in orig \/ Settled(disk[t.path])
       /\ t.at \in {"pop", "delete"} => Settled(disk[t.path])
AllFit == \A a \in Actor : Fit(a, thread[a])

\* An announced file exists.
ToldExist == \A x \in told : disk[x] # None

\* Whatever has been noted as dumped, listed as a duplicate or deleted.
AllSettled == \A c \in dumped \cup entries \cup gone : Settled(c)

\* An announced file is settled, or tracked, or is being moved to a tracked or an
\* excused one.  Once Analyzer.complete() has seen no files, tracking is not enough.
Seen == phase = "completed" \/ (phase = "dump" /\ At(Main, "idle"))
Counted == IF Seen THEN {} ELSE files
Kept(x) ==
  \/ Settled(disk[x]) \/ x \in Counted
  \/ \E y \in excused \cup Counted : Moving(x, y)
KeptInv == \A x \in told \ excused : Kept(x)

Inv == Types /\ AllFit /\ ToldExist /\ AllSettled /\ KeptInv

-----------------------------------------------------------------------------
(* Steps that move one handler and change nothing that the others see. *)

\* What is settled stays so.
LEMMA SettledGrows ==
  ASSUME stored \subseteq stored', missed \subseteq missed', NEW c, Settled(c)
  PROVE  Settled(c)'
BY DEF Settled, Sent

LEMMA BecomeTypes ==
  ASSUME ThreadTypes, NEW a \in Actor, NEW t \in Thread, Become(a, t)
  PROVE  /\ ThreadTypes' /\ thread'[a] = t
         /\ \A b \in Actor \ {a} : thread'[b] = thread[b]
BY DEF ThreadTypes, Become

\* Moves that neither begin nor end by the step are the same before and after.
LEMMA MovingStays ==
  ASSUME NEW a \in Actor, thread[a].at # "move", thread'[a].at # "move",
         \A b \in Actor \ {a} : thread'[b] = thread[b], NEW x, NEW y
  PROVE  Moving(x, y)' <=> Moving(x, y)
BY DEF Moving, At

\* A handler goes on to t, and may give a file up.
LEMMA GoOn ==
  ASSUME Inv, NEW a \in Actor, NEW t \in Thread, Become(a, t), Fit(a, t)',
         UNCHANGED <<disk, tracker, host, told, gone>>, SampleTypes',
         excused \subseteq excused', excused' \subseteq Path,
         thread[a].at # "move", t.at # "move",
         Seen' => Seen \/ files = {}
  PROVE  Inv'
<1> USE DEF Inv, Types, tracker, host
<1>1. ThreadTypes' /\ thread'[a] = t /\ \A b \in Actor \ {a} : thread'[b] = thread[b]
  BY BecomeTypes
<1>2. UNCHANGED <<disk, files, orig, dumped, stored, entries, missed, told, gone>>
  OBVIOUS
<1>3. Types'
  BY <1>1, <1>2 DEF TrackerTypes, HostTypes, GhostTypes
<1>4. \A c : Settled(c)' <=> Settled(c)
  BY <1>2 DEF Settled, Sent
<1>5. AllFit'
  <2> SUFFICES ASSUME NEW b \in Actor PROVE Fit(b, thread[b])'
    BY DEF AllFit
  <2>1. CASE b = a
    BY <1>1, <2>1 DEF Fit
  <2>2. CASE b # a
    <3>1. Fit(b, thread[b]) /\ thread'[b] = thread[b]
      BY <1>1, <2>2 DEF AllFit
    <3> QED
      BY <1>2, <1>4, <3>1 DEF Fit
  <2> QED
    BY <2>1, <2>2
<1>6. ToldExist' /\ AllSettled'
  BY <1>2, <1>4 DEF ToldExist, AllSettled
<1>7. KeptInv'
  <2> SUFFICES ASSUME NEW x \in told \ excused PROVE Kept(x)'
    BY <1>2 DEF KeptInv
  <2>1. Kept(x)
    BY DEF KeptInv
  <2>2. Counted \subseteq Counted'
    BY <1>2 DEF Counted
  <2>3. \A y : Moving(x, y)' <=> Moving(x, y)
    BY <1>1, MovingStays
  <2> QED
    BY <1>2, <1>4, <2>1, <2>2, <2>3 DEF Kept
<1> QED
  BY <1>3, <1>5, <1>6, <1>7

\* A handler goes on to t.
LEMMA QuietStep ==
  ASSUME Inv, NEW a \in Actor, NEW t \in Thread, Become(a, t), Fit(a, t),
         UNCHANGED <<disk, tracker, host, ghosts>>, SampleTypes',
         thread[a].at # "move", t.at # "move",
         Seen' => Seen \/ files = {}
  PROVE  Inv'
<1>1. UNCHANGED <<disk, files, orig, stored, missed, told, gone, excused>>
  BY DEF tracker, host, ghosts
<1>2. Fit(a, t)'
  BY <1>1 DEF Fit, Settled, Sent
<1>3. excused \subseteq excused' /\ excused' \subseteq Path
  BY <1>1 DEF Inv, Types, GhostTypes
<1> QED
  BY <1>1, <1>2, <1>3, GoOn

\* A handler that begins, ends or looks: it relies on what Fit says of its place.
LEMMA IdleFits == Idle \in Thread /\ \A a \in Actor : None \notin told => Fit(a, Idle)
BY DEF Idle, Thread, Place, Caller, Category, Fit

LEMMA BeginFits ==
  ASSUME NEW a \in Actor, NEW x \in Path, NEW caller \in Caller \ {"none"},
         NEW category \in Category,
         caller # "loop" => a \in Proc,
         caller = "delete" => Owner[x] = a /\ disk[x] # None
  PROVE  LET t == [Idle EXCEPT !.at = "hash", !.path = x, !.caller = caller,
                               !.category = category]
         IN  t \in Thread /\ t.at = "hash" /\ Fit(a, t)
BY DEF Idle, Thread, Place, Category, Caller, Fit

\* The requests that begin a handler, the loop of dump_files() and complete().
LEMMA LookKeepsInv ==
  ASSUME Inv,
         \/ \E a \in Proc, x \in Path : FileDel(a, x) \/ Process(a, x) \/ FileCape(a, x)
         \/ \E a \in Proc : Shutdown(a)
         \/ \E a \in Actor : LoopTest(a)
         \/ Complete
  PROVE  Inv'
<1> USE DEF Inv, Types
<1>0. None \notin told
  BY DEF GhostTypes
<1>1. ASSUME NEW a \in Proc, NEW x \in Path, FileDel(a, x) \/ Process(a, x) \/ FileCape(a, x)
      PROVE  Inv'
  <2>1. PICK caller \in {"delete", "process", "dump"}, category \in Category :
          /\ Begin(a, x, caller, category)
          /\ caller = "delete" => Owner[x] = a /\ disk[x] # None
    BY <1>1 DEF FileDel, Process, FileCape, Category
  <2>2. /\ SampleTypes' /\ phase' = phase /\ thread[a].at = "idle"
        /\ UNCHANGED <<disk, tracker, host, ghosts>>
    BY <1>1 DEF FileDel, Process, FileCape, Ask, Free, At, SampleTypes
  <2>3. Seen' => Seen
    BY <2>1, <2>2 DEF Seen, Begin, Become, At, ThreadTypes
  <2> QED
    <3> DEFINE t == [Idle EXCEPT !.at = "hash", !.path = x, !.caller = caller,
                                 !.category = category]
    <3>1. t \in Thread /\ t.at = "hash" /\ Fit(a, t)
      BY <2>1, BeginFits DEF Caller
    <3>2. Become(a, t)
      BY <2>1 DEF Begin
    <3> QED
      BY <2>2, <2>3, <3>1, <3>2, QuietStep
<1>2. ASSUME NEW a \in Proc, Shutdown(a) PROVE Inv'
  <2> DEFINE t == [Idle EXCEPT !.at = "test"]
  <2>1. /\ SampleTypes' /\ phase' = phase /\ thread[a].at = "idle" /\ Become(a, t)
        /\ UNCHANGED <<disk, tracker, host, ghosts>>
    BY <1>2 DEF Shutdown, Ask, Free, At, SampleTypes
  <2>2. t \in Thread /\ t.at = "test" /\ Fit(a, t)
    BY <1>0 DEF Idle, Thread, Place, Caller, Category, Fit
  <2>3. Seen' => Seen
    BY <2>1 DEF Seen, Become, At, ThreadTypes
  <2> QED
    BY <2>1, <2>2, <2>3, QuietStep
<1>3. ASSUME NEW a \in Actor, LoopTest(a) PROVE Inv'
  <2>1. /\ SampleTypes' /\ phase' = phase /\ thread[a].at = "test"
        /\ UNCHANGED <<disk, tracker, host, ghosts>>
    BY <1>3 DEF LoopTest, At, SampleTypes
  <2>2. CASE files = {}
    BY <1>0, <1>3, <2>1, <2>2, IdleFits, QuietStep DEF LoopTest, Idle
  <2>3. CASE files # {}
    <3> DEFINE t == [thread[a] EXCEPT !.at = "pick"]
    <3>1. Become(a, t)
      BY <1>3, <2>3 DEF LoopTest, Goto, Become, ThreadTypes
    <3>2. t \in Thread /\ t.at = "pick"
      BY DEF ThreadTypes, Thread, Place
    <3>3. Fit(a, t)
      BY <2>1 DEF AllFit, Fit, ThreadTypes, Thread
    <3>4. Seen' => Seen
      BY <2>1, <3>1, <3>2 DEF Seen, Become, At, ThreadTypes
    <3> QED
      BY <2>1, <3>1, <3>2, <3>3, <3>4, QuietStep
  <2> QED
    BY <2>2, <2>3
<1>5. CASE Complete
  <2> DEFINE t == [Idle EXCEPT !.at = "test"]
  <2>1. /\ SampleTypes' /\ phase = "run" /\ phase' = "dump" /\ Become(Main, t)
        /\ UNCHANGED <<disk, tracker, host, ghosts>>
    BY <1>5 DEF Complete, SampleTypes
  <2>2. t \in Thread /\ t.at = "test" /\ Fit(Main, t)
    BY <1>0 DEF Idle, Thread, Place, Caller, Category, Fit
  <2>3. ~Seen'
    BY <2>1, <2>2 DEF Seen, Become, At, ThreadTypes
  <2>4. thread[Main].at # "move"
    BY DEF AllFit, Fit
  <2> QED
    BY <2>1, <2>2, <2>3, <2>4, QuietStep
<1> QED
  BY <1>1, <1>2, <1>3, <1>5

\* delete_file() has its path where dump_file() returns to, and other callers none.
LEMMA ReturnFits ==
  ASSUME Types, None \notin told, NEW a \in Actor, thread[a].at \in {"hash", "upload"},
         Fit(a, thread[a]), Return(a), UNCHANGED <<disk, told>>,
         \A x \in told \ excused' : x = thread[a].path => Settled(disk[x])'
  PROVE  \E t \in Thread : /\ Become(a, t) /\ Fit(a, t)' /\ t.at \in {"idle", "pop"}
                           /\ t.at = "idle" => a \in Proc
<1>1. CASE thread[a].caller = "dump"
  <2>1. Become(a, Idle)
    BY <1>1 DEF Return
  <2>2. Idle \in Thread /\ Fit(a, Idle)'
    BY IdleFits DEF Idle, Fit
  <2> QED
    BY <1>1, <2>1, <2>2 DEF Idle, Fit
<1>2. CASE thread[a].caller # "dump"
  <2> DEFINE t == [Idle EXCEPT !.at = "pop", !.caller = thread[a].caller,
                               !.path = thread[a].path]
  <2>1. Become(a, t)
    BY <1>2 DEF Return
  <2>2. thread[a] \in Thread /\ thread[a].path \in Path /\ thread[a].caller \in Caller
    BY DEF Types, ThreadTypes, Thread, Fit
  <2>3. t \in Thread
    BY <2>2 DEF Idle, Thread, Place, Category
  <2>4. PICK u \in Thread : /\ Become(a, u) /\ u.at = "pop" /\ u.path = thread[a].path
                            /\ u.caller = thread[a].caller
    BY <2>1, <2>3 DEF Idle
  <2>5. u.path \in told' \ excused' => Settled(disk[u.path])'
    BY <2>4 DEF Settled
  <2>6. thread[a].caller = "delete" => Owner[u.path] = a /\ disk'[u.path] # None
    BY <2>4 DEF Fit
  <2>7. Fit(a, u)'
    BY <1>2, <2>2, <2>4, <2>5, <2>6 DEF Fit
  <2> QED
    BY <2>4, <2>7
<1> QED
  BY <1>1, <1>2

LEMMA HashKeepsInv ==
  ASSUME Inv, NEW a \in Actor, Hash(a)
  PROVE  Inv'
<1> USE DEF Inv, Types
<1> DEFINE x == thread[a].path
<1>1. /\ SampleTypes' /\ phase' = phase /\ thread[a].at = "hash" /\ x \in Path
      /\ UNCHANGED <<disk, tracker, host, told, gone>> /\ Fit(a, thread[a])
      /\ excused \subseteq excused' /\ excused' \subseteq Path
  BY DEF Hash, At, SampleTypes, AllFit, Fit, GhostTypes
<1>2. None \notin told
  BY DEF GhostTypes
<1>3. CASE Return(a) /\ (disk[x] = None \/ thread[a].caller = "dump" \/ x \in excused')
  <2>1. thread[a].caller # "dump" => ~(x \in told \ excused')
    BY <1>1, <1>3 DEF ToldExist
  <2>2. PICK t \in Thread : /\ Become(a, t) /\ Fit(a, t)' /\ t.at \in {"idle", "pop"}
                            /\ t.at = "idle" => a \in Proc
    <3>1. CASE thread[a].caller = "dump"
      <4>1. Become(a, Idle) /\ Idle \in Thread /\ Fit(a, Idle)' /\ Idle.at = "idle"
        BY <1>1, <1>2, <1>3, <3>1, IdleFits DEF Return, Fit, Idle
      <4> QED
        BY <1>1, <3>1, <4>1 DEF Fit
    <3>2. CASE thread[a].caller # "dump"
      BY <1>1, <1>2, <1>3, <2>1, <3>2, ReturnFits
    <3> QED
      BY <3>1, <3>2
  <2>3. ThreadTypes' /\ thread'[a] = t /\ \A b \in Actor \ {a} : thread'[b] = thread[b]
    BY <2>2, BecomeTypes
  <2>4. (Seen' => Seen) /\ t.at # "move"
    BY <1>1, <2>2, <2>3 DEF Seen, At
  <2> QED
    BY <1>1, <2>2, <2>4, GoOn
<1>4. CASE disk[x] # None /\ Become(a, Hashed(a)) /\ UNCHANGED excused
  <2> DEFINE t == Hashed(a)
  <2>1. disk[x] \in Content /\ thread[a] \in Thread
    BY <1>1, <1>4 DEF SampleTypes, ThreadTypes
  <2>2. t \in Thread
    <3>1. (disk[x] \in dumped) \in BOOLEAN
      OBVIOUS
    <3>2. (IF x \in orig THEN "details" ELSE "upload") \in Place
      BY DEF Place
    <3> QED
      BY <2>1, <3>1, <3>2 DEF Hashed, Thread
  <2>3. /\ t.at = IF x \in orig THEN "details" ELSE "upload"
        /\ t.sha = disk[x] /\ t.path = x /\ t.caller = thread[a].caller
        /\ t.duplicated <=> disk[x] \in dumped
    BY <2>1 DEF Hashed, Thread
  <2>4. PICK u \in Thread : u = t
    BY <2>2
  <2>5. Fit(a, u)
    BY <1>1, <2>1, <2>3, <2>4 DEF Fit, AllSettled
  <2>6. u.at # "move" /\ (Seen' => Seen)
    BY <1>1, <1>4, <2>2, <2>3, <2>4 DEF Seen, Become, At, ThreadTypes
  <2> QED
    BY <1>1, <1>4, <2>4, <2>5, <2>6, QuietStep DEF ghosts
<1> QED
  BY <1>1, <1>3, <1>4 DEF Hash

\* A handler that raises goes on to the deletion, if its process waits for that,
\* or ends.
LEMMA FailFits ==
  ASSUME Inv, NEW a \in Actor, thread[a].at \in {"details", "pick"}, Fail(a),
         thread[a].at = "details" => thread[a].path \notin orig
  PROVE  \E t \in Thread : Become(a, t) /\ Fit(a, t) /\ t.at \in {"idle", "delete"}
<1> USE DEF Inv, Types
<1>1. Fit(a, thread[a]) /\ None \notin told
  BY DEF AllFit, GhostTypes
<1>2. CASE thread[a].caller = "delete"
  <2>1. PICK t : t = [Idle EXCEPT !.at = "delete", !.path = thread[a].path] /\ Become(a, t)
    BY <1>2 DEF Fail
  <2>2. t \in Thread /\ t.at = "delete" /\ t.path = thread[a].path /\ t.caller = "none"
    BY <1>1, <1>2, <2>1 DEF Idle, Thread, Place, Category, Caller, Fit
  <2>3. thread[a].path \in told \ excused => Settled(disk[thread[a].path])
    BY <1>1, <1>2 DEF Fit
  <2>4. Fit(a, t)
    BY <1>1, <1>2, <2>2, <2>3 DEF Fit
  <2> QED
    BY <2>1, <2>2, <2>4
<1>3. CASE thread[a].caller # "delete"
  BY <1>1, <1>3, IdleFits DEF Fail, Idle
<1> QED
  BY <1>2, <1>3

\* dump_files() goes on with one of the files, or raises.
LEMMA PickKeepsInv ==
  ASSUME Inv, NEW a \in Actor, Pick(a)
  PROVE  Inv'
<1> USE DEF Inv, Types
<1>1. /\ thread[a].at = "pick"
      /\ UNCHANGED <<disk, tracker, host, ghosts, written, asked>>
  BY DEF Pick, At
<1>2. ASSUME NEW x \in files, Begin(a, x, "loop", "files"), UNCHANGED phase PROVE Inv'
  <2>1. x \in Path /\ SampleTypes'
    BY <1>1, <1>2 DEF TrackerTypes, SampleTypes
  <2>2. Seen' => Seen
    BY <1>1, <1>2 DEF Seen, Begin, Become, At, ThreadTypes, Idle
  <2> QED
    BY <1>1, <1>2, <2>1, <2>2, BeginFits, QuietStep DEF Begin, Caller, Category
<1>3. CASE files = {} /\ Fail(a)
  <2>1. PICK t \in Thread : Become(a, t) /\ Fit(a, t) /\ t.at \in {"idle", "delete"}
    BY <1>1, <1>3, FailFits
  <2>2. SampleTypes'
    BY <1>1, <1>3 DEF Fail, SampleTypes
  <2> QED
    BY <1>1, <1>3, <2>1, <2>2, QuietStep
<1> QED
  BY <1>2, <1>3 DEF Pick

\* Details that are gone are those of a file that another thread has settled.
LEMMA DetailsKeepsInv ==
  ASSUME Inv, NEW a \in Actor, Details(a)
  PROVE  Inv'
<1> USE DEF Inv, Types
<1>1. /\ thread[a].at = "details" /\ Fit(a, thread[a]) /\ thread[a] \in Thread
      /\ UNCHANGED <<disk, tracker, host, ghosts, written, asked>>
  BY DEF Details, At, AllFit, ThreadTypes
<1>2. CASE thread[a].path \in orig
  <2>1. PICK t : t = [thread[a] EXCEPT !.at = "upload", !.category = "files"]
                 /\ Become(a, t) /\ phase' = phase
    BY <1>2 DEF Details
  <2>2. /\ t \in Thread /\ t.at = "upload" /\ t.path = thread[a].path /\ t.sha = thread[a].sha
        /\ t.caller = thread[a].caller /\ t.duplicated = thread[a].duplicated
    BY <1>1, <2>1 DEF Thread, Place, Category
  <2>3. Fit(a, t) /\ SampleTypes'
    BY <1>1, <2>1, <2>2 DEF Fit, SampleTypes
  <2>4. Seen' => Seen
    BY <1>1, <2>1, <2>2 DEF Seen, Become, At, ThreadTypes
  <2> QED
    BY <1>1, <2>1, <2>2, <2>3, <2>4, QuietStep
<1>3. CASE thread[a].path \notin orig /\ Fail(a)
  <2>1. PICK t \in Thread : Become(a, t) /\ Fit(a, t) /\ t.at \in {"idle", "delete"}
    BY <1>1, <1>3, FailFits
  <2>2. SampleTypes' /\ (Seen' => Seen)
    BY <1>1, <1>3, <2>1 DEF Fail, SampleTypes, Seen, Become, At, ThreadTypes
  <2> QED
    BY <1>1, <2>1, <2>2, QuietStep
<1> QED
  BY <1>2, <1>3 DEF Details

-----------------------------------------------------------------------------
(* Steps that change what the others see. *)

\* A file that its process writes is no file of a handler of it, nor announced.
LEMMA WriteKeepsInv ==
  ASSUME Inv, NEW a \in Proc, NEW x \in Path, Write(a, x)
  PROVE  Inv'
<1> USE DEF Inv, Types, tracker, host, ghosts
<1>1. /\ thread[a].at = "idle" /\ Owner[x] = a /\ disk[x] = None
      /\ UNCHANGED <<phase, thread, files, orig, dumped, stored, entries, missed,
                     told, gone, excused>>
      /\ \A y \in Path \ {x} : disk'[y] = disk[y]
  BY DEF Write, Free, At, SampleTypes
<1>2. Types'
  BY <1>1 DEF Write, SampleTypes, TrackerTypes, ThreadTypes, HostTypes, GhostTypes
<1>3. \A c : Settled(c)' <=> Settled(c)
  BY <1>1 DEF Settled, Sent
<1>4. x \notin told /\ \A y \in told : y \in Path /\ disk'[y] = disk[y]
  BY <1>1 DEF ToldExist, GhostTypes
<1>5. AllFit'
  <2> SUFFICES ASSUME NEW b \in Actor PROVE Fit(b, thread[b])'
    BY DEF AllFit
  <2>1. Fit(b, thread[b]) /\ thread'[b] = thread[b]
    BY <1>1 DEF AllFit
  <2>2. thread[b].at \in {"delete", "move"} \/ thread[b].caller = "delete" =>
          \/ b # a
          \/ thread[b].at = "idle"
    BY <1>1
  <2> QED
    BY <1>1, <1>3, <1>4, <2>1, <2>2 DEF Fit
<1>6. ToldExist' /\ AllSettled'
  BY <1>1, <1>3, <1>4 DEF ToldExist, AllSettled
<1>7. KeptInv'
  BY <1>1, <1>3, <1>4 DEF KeptInv, Kept, Counted, Seen, Moving, At
<1> QED
  BY <1>2, <1>5, <1>6, <1>7

LEMMA FileNewKeepsInv ==
  ASSUME Inv, NEW a \in Proc, NEW x \in Path, FileNew(a, x)
  PROVE  Inv'
<1> USE DEF Inv, Types, tracker, host, ghosts
<1>1. /\ disk[x] # None /\ files' = files \cup {x} /\ told' = told \cup {x}
      /\ excused' = IF phase # "run" \/ Dumping(x) THEN excused \cup {x} ELSE excused
      /\ orig \subseteq orig'
      /\ UNCHANGED <<phase, thread, disk, dumped, stored, entries, missed, gone>>
  BY DEF FileNew
<1>0. thread[a].at = "idle" /\ Owner[x] = a
  BY DEF FileNew, Ask, Free, At
<1>2. Types'
  BY <1>1 DEF FileNew, Ask, SampleTypes, TrackerTypes, ThreadTypes, HostTypes, GhostTypes
<1>3. \A c : Settled(c)' <=> Settled(c)
  BY <1>1 DEF Settled, Sent
<1>4. AllFit'
  <2> SUFFICES ASSUME NEW b \in Actor PROVE Fit(b, thread[b])'
    BY DEF AllFit
  <2>1. Fit(b, thread[b]) /\ thread'[b] = thread[b]
    BY <1>1 DEF AllFit
  <2>2. thread[b].path \in told' \ excused' =>
          thread[b].path \in told \ excused \/ thread[b].at = "move"
    BY <1>1 DEF Dumping, At
  <2>3. thread[b].at = "move" => thread[b].path # x
    BY <1>0, <2>1 DEF Fit
  <2> QED
    BY <1>1, <1>3, <2>1, <2>2, <2>3 DEF Fit
<1>5. ToldExist' /\ AllSettled'
  BY <1>1, <1>3 DEF ToldExist, AllSettled
<1>6. KeptInv'
  <2> SUFFICES ASSUME NEW y \in told' \ excused' PROVE Kept(y)'
    BY <1>1 DEF KeptInv
  <2>1. Counted \subseteq Counted' /\ excused \subseteq excused'
    BY <1>1 DEF Counted, Seen, At
  <2>2. CASE y \in told \ excused
    BY <1>1, <1>3, <2>1, <2>2 DEF KeptInv, Kept, Moving, At
  <2>3. CASE y = x
    <3>1. phase = "run"
      BY <1>1, <2>3
    <3> QED
      BY <1>1, <2>3, <3>1 DEF Kept, Counted, Seen
  <2> QED
    BY <1>1, <2>2, <2>3
<1> QED
  BY <1>2, <1>4, <1>5, <1>6

\* The tracker follows a move before the file does.
LEMMA FileMoveKeepsInv ==
  ASSUME Inv, NEW a \in Proc, NEW x \in Path, NEW y \in Path \ {x}, FileMove(a, x, y)
  PROVE  Inv'
<1> USE DEF Inv, Types, tracker, host, ghosts
<1> DEFINE t == [Idle EXCEPT !.at = "move", !.path = x, !.to = y]
<1>1. /\ Owner[x] = a /\ Owner[y] = a /\ disk[x] # None /\ disk[y] = None
      /\ thread[a].at = "idle" /\ Become(a, t)
      /\ files' = IF x \in files THEN (files \ {x}) \cup {y} ELSE files
      /\ excused \subseteq excused' /\ excused' \subseteq excused \cup {y}
      /\ UNCHANGED <<phase, disk, orig, dumped, stored, entries, missed, told, gone>>
  BY DEF FileMove, Ask, Free, At
<1>2. t \in Thread /\ t.at = "move" /\ t.path = x /\ t.to = y /\ t.caller = "none"
  BY DEF Idle, Thread, Place, Category, Caller
<1>3. thread'[a] = t /\ (\A b \in Actor \ {a} : thread'[b] = thread[b]) /\ ThreadTypes'
  BY <1>1, <1>2, BecomeTypes
<1>4. Types'
  BY <1>1, <1>3 DEF FileMove, Ask, SampleTypes, TrackerTypes, HostTypes, GhostTypes
<1>5. \A c : Settled(c)' <=> Settled(c)
  BY <1>1 DEF Settled, Sent
<1>6. AllFit'
  <2> SUFFICES ASSUME NEW b \in Actor PROVE Fit(b, thread[b])'
    BY DEF AllFit
  <2>1. CASE b = a
    BY <1>1, <1>2, <1>3, <2>1 DEF Fit
  <2>2. CASE b # a
    <3>1. Fit(b, thread[b]) /\ thread'[b] = thread[b]
      BY <1>3, <2>2 DEF AllFit
    <3> QED
      BY <1>1, <1>5, <3>1 DEF Fit
  <2> QED
    BY <2>1, <2>2
<1>7. ToldExist' /\ AllSettled'
  BY <1>1, <1>5 DEF ToldExist, AllSettled
<1>8. KeptInv'
  <2> SUFFICES ASSUME NEW z \in told \ excused PROVE Kept(z)'
    BY <1>1 DEF KeptInv
  <2>1. Kept(z)
    BY DEF KeptInv
  <2>2. Seen' <=> Seen
    BY <1>1, <1>3 DEF Seen, At
  <2>3. \A w : Moving(z, w) => Moving(z, w)' /\ w # x
    BY <1>1, <1>3 DEF Moving, At, AllFit, Fit
  <2>4. Moving(x, y)'
    BY <1>2, <1>3 DEF Moving, At
  <2>5. CASE Settled(disk[z])
    BY <1>1, <1>5, <2>5 DEF Kept
  <2>6. CASE z \in Counted
    BY <1>1, <2>2, <2>4, <2>6 DEF Kept, Counted
  <2>7. ASSUME NEW w \in excused \cup Counted, Moving(z, w) PROVE Kept(z)'
    BY <1>1, <2>2, <2>3, <2>7 DEF Kept, Counted
  <2> QED
    BY <2>1, <2>5, <2>6, <2>7 DEF Kept
<1> QED
  BY <1>4, <1>6, <1>7, <1>8

\* The file moves, and with it what it holds.
LEMMA MoveKeepsInv ==
  ASSUME Inv, NEW a \in Proc, Move(a)
  PROVE  Inv'
<1> USE DEF Inv, Types, tracker, host, ghosts
<1> DEFINE x == thread[a].path
           y == thread[a].to
<1>1. /\ thread[a].at = "move" /\ x \in Path /\ y \in Path /\ x # y
      /\ Owner[x] = a /\ Owner[y] = a /\ disk[x] # None /\ disk[y] = None
  BY DEF Move, At, AllFit, Fit
<1>2. /\ disk' = [disk EXCEPT ![x] = None, ![y] = disk[x]]
      /\ told' = Renamed(told, x, y)
      /\ excused' = IF {x, y} \cap excused # {} \/ Dumping(y) THEN (excused \ {x}) \cup {y} ELSE excused
      /\ Become(a, Idle)
      /\ UNCHANGED <<phase, files, orig, dumped, stored, entries, missed, gone, written, asked>>
  BY DEF Move
<1>3. disk'[x] = None /\ disk'[y] = disk[x] /\ \A z \in Path \ {x, y} : disk'[z] = disk[z]
  BY <1>1, <1>2 DEF SampleTypes
<1>4. None \notin told /\ y \notin told
  BY <1>1 DEF GhostTypes, ToldExist
<1>5. /\ ThreadTypes' /\ thread'[a] = Idle /\ \A b \in Actor \ {a} : thread'[b] = thread[b]
  BY <1>2, <1>4, IdleFits, BecomeTypes
<1>6. Types'
  <2>1. disk[x] \in Content
    BY <1>1 DEF SampleTypes
  <2> QED
    BY <1>1, <1>2, <1>5, <2>1 DEF SampleTypes, TrackerTypes, HostTypes, GhostTypes, Renamed
<1>7. \A c : Settled(c)' <=> Settled(c)
  BY <1>2 DEF Settled, Sent
<1>8. /\ x \notin told' /\ (y \in told' <=> x \in told)
      /\ \A z \in Path \ {x, y} : (z \in told' <=> z \in told) /\ (z \in excused' <=> z \in excused)
      /\ y \notin excused' => x \notin excused /\ y \notin excused /\ ~Dumping(y)
  BY <1>1, <1>2, <1>4 DEF Renamed
<1>9. AllFit'
  <2> SUFFICES ASSUME NEW b \in Actor PROVE Fit(b, thread[b])'
    BY DEF AllFit
  <2>1. CASE b = a
    <3>1. None \notin told'
      BY <1>6 DEF GhostTypes
    <3> QED
      BY <1>5, <2>1, <3>1 DEF Fit, Idle
  <2>2. CASE b # a
    <3>1. Fit(b, thread[b]) /\ thread'[b] = thread[b]
      BY <1>5, <2>2 DEF AllFit
    <3>2. \A p \in Path : Owner[p] = b => disk'[p] = disk[p]
      BY <1>1, <1>3, <2>2
    <3>3. thread[b].path \in told' \ excused' =>
            \/ thread[b].at = "move"
            \/ thread[b].path \in told \ excused /\ disk'[thread[b].path] = disk[thread[b].path]
      BY <1>1, <1>3, <1>6, <1>8 DEF Dumping, At, GhostTypes
    <3> QED
      BY <1>2, <1>7, <3>1, <3>2, <3>3 DEF Fit
  <2> QED
    BY <2>1, <2>2
<1>10. ToldExist' /\ AllSettled'
  BY <1>1, <1>2, <1>3, <1>6, <1>7, <1>8 DEF ToldExist, AllSettled, GhostTypes
<1>11. KeptInv'
  <2> SUFFICES ASSUME NEW z \in told' \ excused' PROVE Kept(z)'
    BY <1>2 DEF KeptInv
  <2>1. Counted' = Counted
    BY <1>2, <1>5 DEF Counted, Seen, At
  <2>2. CASE z = y
    <3>1. Kept(x) /\ x \notin excused
      BY <1>8, <2>2 DEF KeptInv
    <3>2. x \notin Counted
      BY <1>1 DEF AllFit, Fit, Counted
    <3>3. \A w : Moving(x, w) => w = y
      BY <1>1 DEF Moving, At, AllFit, Fit
    <3> QED
      BY <1>3, <1>7, <1>8, <2>1, <2>2, <3>1, <3>2, <3>3 DEF Kept
  <2>3. CASE z # y
    <3>1. z \in Path /\ z # x /\ z \in told \ excused /\ disk'[z] = disk[z]
      BY <1>3, <1>6, <1>8, <2>3 DEF GhostTypes
    <3>2. ASSUME NEW w, Moving(z, w) PROVE Moving(z, w)' /\ w # x
      BY <1>1, <1>5, <3>1, <3>2 DEF Moving, At, AllFit, Fit
    <3>3. \A w : w \in excused /\ w # x => w \in excused'
      BY <1>2
    <3> QED
      BY <1>7, <2>1, <3>1, <3>2, <3>3 DEF KeptInv, Kept
  <2> QED
    BY <2>2, <2>3
<1> QED
  BY <1>6, <1>9, <1>10, <1>11

\* The upload settles its content, one way or another, and notes it.
LEMMA UploadKeepsInv ==
  ASSUME Inv, NEW a \in Actor, Upload(a)
  PROVE  Inv'
<1> USE DEF Inv, Types, tracker, ghosts
<1> SUFFICES ASSUME NEW x, x = thread[a].path, NEW c, c = thread[a].sha
             PROVE  Inv'
  OBVIOUS
<1>1. /\ thread[a].at = "upload" /\ Fit(a, thread[a]) /\ x \in Path /\ c \in Content
      /\ thread[a] \in Thread
  BY DEF Upload, At, AllFit, Fit, ThreadTypes
<1>2. /\ stored \subseteq stored' /\ missed \subseteq missed' /\ dumped' = dumped \cup {c}
      /\ entries' \subseteq entries \cup {c}
      /\ UNCHANGED <<phase, disk, files, orig, told, gone, excused>>
  BY DEF Upload, Send
<1>3. \A d : Settled(d) => Settled(d)'
  BY <1>2, SettledGrows
<1>4. Settled(c)'
  <2>1. CASE thread[a].duplicated
    BY <1>1, <1>3, <2>1 DEF Fit
  <2>2. CASE c \in missed'
    BY <2>2 DEF Settled
  <2>3. CASE <<thread[a].category, c>> \in stored'
    BY <2>3 DEF Settled, Sent
  <2> QED
    BY <2>1, <2>2, <2>3 DEF Upload, Send
<1>5. None \notin told /\ Return(a)
  BY DEF GhostTypes, Upload
<1>6. PICK t \in Thread : /\ Become(a, t) /\ Fit(a, t)' /\ t.at \in {"idle", "pop"}
                          /\ t.at = "idle" => a \in Proc
  <2>1. CASE thread[a].caller = "dump"
    <3>1. Become(a, Idle)
      BY <1>5, <2>1 DEF Return
    <3>2. Idle \in Thread /\ Fit(a, Idle)' /\ Idle.at = "idle"
      BY <1>2, <1>5, IdleFits DEF Idle, Fit
    <3> QED
      BY <1>1, <2>1, <3>1, <3>2 DEF Fit
  <2>2. CASE thread[a].caller # "dump"
    <3>1. PICK u : /\ u = [Idle EXCEPT !.at = "pop", !.caller = thread[a].caller, !.path = x]
                   /\ Become(a, u)
      BY <1>5, <2>2 DEF Return
    <3>2. u \in Thread /\ u.at = "pop" /\ u.path = x /\ u.caller = thread[a].caller
      BY <1>1, <3>1 DEF Idle, Thread, Place, Category
    <3>3. x \in told \ excused => Settled(disk[x])'
      BY <1>1, <1>2, <1>4, <3>2 DEF Fit
    <3>4. Fit(a, u)'
      BY <1>1, <1>2, <2>2, <3>2, <3>3 DEF Fit
    <3> QED
      BY <3>1, <3>2, <3>4
  <2> QED
    BY <2>1, <2>2
<1>7. ThreadTypes' /\ thread'[a] = t /\ \A b \in Actor \ {a} : thread'[b] = thread[b]
  BY <1>6, BecomeTypes
<1>8. Types'
  <2>1. HostTypes'
    <3>1. <<thread[a].category, c>> \in Category \X Content
      BY <1>1 DEF Thread
    <3> QED
      BY <1>1, <3>1 DEF HostTypes, Upload, Send
  <2> QED
    BY <1>1, <1>2, <1>7, <2>1 DEF Upload, SampleTypes, TrackerTypes, GhostTypes
<1>9. AllFit'
  <2> SUFFICES ASSUME NEW b \in Actor PROVE Fit(b, thread[b])'
    BY DEF AllFit
  <2>1. CASE b = a
    BY <1>6, <1>7, <2>1 DEF Fit
  <2>2. CASE b # a
    <3>1. Fit(b, thread[b]) /\ thread'[b] = thread[b]
      BY <1>7, <2>2 DEF AllFit
    <3> QED
      BY <1>2, <1>3, <3>1 DEF Fit
  <2> QED
    BY <2>1, <2>2
<1>10. ToldExist' /\ AllSettled'
  BY <1>2, <1>3, <1>4 DEF ToldExist, AllSettled
<1>11. KeptInv'
  <2> SUFFICES ASSUME NEW z \in told \ excused PROVE Kept(z)'
    BY <1>2 DEF KeptInv
  <2>1. Kept(z)
    BY DEF KeptInv
  <2>2. Counted' = Counted
    BY <1>1, <1>2, <1>6, <1>7 DEF Counted, Seen, At
  <2>3. \A w : Moving(z, w)' <=> Moving(z, w)
    BY <1>1, <1>6, <1>7, MovingStays
  <2> QED
    BY <1>2, <1>3, <2>1, <2>2, <2>3 DEF Kept
<1> QED
  BY <1>8, <1>9, <1>10, <1>11

\* delete_file() forgets a path only when what is under it is settled.
LEMMA PopKeepsInv ==
  ASSUME Inv, NEW a \in Actor, Pop(a)
  PROVE  Inv'
<1> USE DEF Inv, Types, host, tracker
<1> DEFINE x == thread[a].path
           next == After[thread[a].caller]
           t == [Idle EXCEPT !.at = next, !.path = IF next = "delete" THEN x ELSE None]
<1>1. /\ thread[a].at = "pop" /\ Fit(a, thread[a]) /\ x \in Path /\ thread[a] \in Thread
      /\ thread[a].caller \in {"delete", "process", "loop"}
  BY DEF Pop, At, AllFit, Fit, ThreadTypes, Thread, Caller
<1>2. /\ files' = files \ {x} /\ orig' = orig \ {x} /\ Become(a, t)
      /\ excused' = IF \E w \in Path : Moving(w, x) THEN excused \cup {x} ELSE excused
      /\ UNCHANGED <<phase, disk, written, asked, dumped, stored, entries, missed, told, gone>>
  BY DEF Pop
<1>3. \A d : Settled(d)' <=> Settled(d)
  BY <1>2 DEF Settled, Sent
<1>4. None \notin told
  BY DEF GhostTypes
<1>5. /\ next = IF thread[a].caller = "delete" THEN "delete"
                ELSE IF thread[a].caller = "process" THEN "idle" ELSE "test"
      /\ next \in {"delete", "idle", "test"}
  BY <1>1 DEF After
<1>6. t \in Thread /\ t.at = next /\ t.caller = "none" /\ t.path = IF next = "delete" THEN x ELSE None
  BY <1>1, <1>5 DEF Idle, Thread, Place, Category, Caller
<1>7. ThreadTypes' /\ thread'[a] = t /\ \A b \in Actor \ {a} : thread'[b] = thread[b]
  BY <1>2, <1>6, BecomeTypes
<1>8. Types'
  BY <1>1, <1>2, <1>7 DEF SampleTypes, TrackerTypes, HostTypes, GhostTypes
<1>9. excused \subseteq excused'
  BY <1>2
<1>10. AllFit'
  <2> SUFFICES ASSUME NEW b \in Actor PROVE Fit(b, thread[b])'
    BY DEF AllFit
  <2>1. CASE b = a
    BY <1>1, <1>2, <1>3, <1>4, <1>5, <1>6, <1>7, <2>1 DEF Fit
  <2>2. CASE b # a
    <3>1. Fit(b, thread[b]) /\ thread'[b] = thread[b]
      BY <1>7, <2>2 DEF AllFit
    <3>2. x \in told \ excused => Settled(disk[x])
      BY <1>1 DEF Fit
    <3> QED
      BY <1>2, <1>3, <1>9, <3>1, <3>2 DEF Fit
  <2> QED
    BY <2>1, <2>2
<1>11. ToldExist' /\ AllSettled'
  BY <1>2, <1>3 DEF ToldExist, AllSettled
<1>12. KeptInv'
  <2> SUFFICES ASSUME NEW z \in told \ excused, z \notin excused' PROVE Kept(z)'
    BY <1>2, <1>9 DEF KeptInv
  <2>1. Kept(z)
    BY DEF KeptInv
  <2>2. Seen' <=> Seen
    <3>1. a = "main" => thread[a].caller # "process"
      BY <1>1 DEF Fit
    <3> QED
      BY <1>1, <1>2, <1>5, <1>6, <1>7, <3>1 DEF Seen, At
  <2>3. \A w : Moving(z, w)' <=> Moving(z, w)
    BY <1>1, <1>5, <1>6, <1>7, MovingStays
  <2>4. CASE z = x
    BY <1>1, <1>2, <1>3, <2>4 DEF Kept, Fit
  <2>5. ASSUME z # x, z \in Counted PROVE Kept(z)'
    BY <1>2, <2>2, <2>5 DEF Kept, Counted
  <2>6. ASSUME NEW w \in excused \cup Counted, Moving(z, w) PROVE Kept(z)'
    <3>1. z \in Path
      BY DEF GhostTypes
    <3>2. w \in excused' \cup Counted'
      BY <1>2, <1>9, <2>2, <2>6, <3>1 DEF Counted
    <3> QED
      BY <2>3, <2>6, <3>2 DEF Kept
  <2> QED
    BY <1>2, <1>3, <2>1, <2>4, <2>5, <2>6 DEF Kept
<1> QED
  BY <1>8, <1>10, <1>11, <1>12

\* The process deletes what its FILE_DEL has had dumped.
LEMMA DeleteKeepsInv ==
  ASSUME Inv, NEW a \in Proc, Delete(a)
  PROVE  Inv'
<1> USE DEF Inv, Types, host, tracker
<1> DEFINE x == thread[a].path
<1>1. /\ thread[a].at = "delete" /\ x \in Path /\ Owner[x] = a /\ disk[x] # None
      /\ x \in told \ excused => Settled(disk[x])
  BY DEF Delete, At, AllFit, Fit
<1>2. /\ disk' = [disk EXCEPT ![x] = None] /\ Become(a, Idle)
      /\ gone' = (IF x \in told \ excused THEN gone \cup {disk[x]} ELSE gone)
      /\ told' = told \ {x} /\ excused' = excused \ {x}
      /\ UNCHANGED <<phase, written, asked, files, orig, dumped, stored, entries, missed>>
  BY DEF Delete
<1>3. \A d : Settled(d)' <=> Settled(d)
  BY <1>2 DEF Settled, Sent
<1>4. None \notin told /\ \A z \in Path \ {x} : disk'[z] = disk[z]
  BY <1>1, <1>2 DEF GhostTypes, SampleTypes
<1>5. /\ ThreadTypes' /\ thread'[a] = Idle /\ Idle.at = "idle" /\ Idle.caller = "none"
      /\ \A b \in Actor \ {a} : thread'[b] = thread[b]
  BY <1>2, <1>4, IdleFits, BecomeTypes DEF Idle
<1>6. Types'
  <2>1. disk[x] \in Content
    BY <1>1 DEF SampleTypes
  <2> QED
    BY <1>2, <1>5, <2>1 DEF SampleTypes, TrackerTypes, HostTypes, GhostTypes
<1>7. AllFit'
  <2> SUFFICES ASSUME NEW b \in Actor PROVE Fit(b, thread[b])'
    BY DEF AllFit
  <2>1. CASE b = a
    BY <1>2, <1>4, <1>5, <2>1 DEF Fit, Idle
  <2>2. CASE b # a
    <3>1. Fit(b, thread[b]) /\ thread'[b] = thread[b]
      BY <1>5, <2>2 DEF AllFit
    <3>2. \A p \in Path : Owner[p] = b => disk'[p] = disk[p]
      BY <1>1, <1>4, <2>2
    <3>3. thread[b].path \in told' \ excused' =>
            thread[b].path \in told \ excused /\ disk'[thread[b].path] = disk[thread[b].path]
      BY <1>2, <1>4 DEF GhostTypes
    <3> QED
      BY <1>2, <1>3, <3>1, <3>2, <3>3 DEF Fit
  <2> QED
    BY <2>1, <2>2
<1>8. ToldExist' /\ AllSettled'
  BY <1>1, <1>2, <1>3, <1>4 DEF ToldExist, AllSettled, GhostTypes
<1>9. KeptInv'
  <2> SUFFICES ASSUME NEW z \in told \ excused, z # x PROVE Kept(z)'
    BY <1>2 DEF KeptInv
  <2>1. Kept(z) /\ disk'[z] = disk[z]
    BY <1>4 DEF KeptInv, GhostTypes
  <2>2. Counted' = Counted
    BY <1>2, <1>5 DEF Counted, Seen, At
  <2>3. \A w : Moving(z, w) => w # x /\ Moving(z, w)'
    BY <1>1, <1>5, MovingStays DEF Moving, At, AllFit, Fit
  <2> QED
    BY <1>2, <1>3, <2>1, <2>2, <2>3 DEF Kept
<1> QED
  BY <1>6, <1>7, <1>8, <1>9

\* The analysis ends.
LEMMA EndKeepsInv ==
  ASSUME Inv, Stop \/ Cleanup \/ UNCHANGED vars
  PROVE  Inv'
<1> USE DEF Inv, Types, host, tracker, ghosts, vars
<1>1. UNCHANGED <<disk, written, asked, files, orig, dumped, thread, stored, entries, missed,
                  told, gone, excused>>
  BY DEF Stop, Cleanup
<1>2. /\ phase' \in {"run", "dump", "completed", "aborted", "cleaned"}
      /\ Seen' <=> Seen
  BY <1>1 DEF Stop, Cleanup, SampleTypes, Seen, At
<1>3. Types'
  BY <1>1, <1>2 DEF SampleTypes, TrackerTypes, ThreadTypes, HostTypes, GhostTypes
<1>4. \A c : Settled(c)' <=> Settled(c)
  BY <1>1 DEF Settled, Sent
<1>5. AllFit'
  BY <1>1, <1>4 DEF AllFit, Fit
<1>6. ToldExist' /\ AllSettled'
  BY <1>1, <1>4 DEF ToldExist, AllSettled
<1>7. KeptInv'
  BY <1>1, <1>2, <1>4 DEF KeptInv, Kept, Counted, Moving, At
<1> QED
  BY <1>3, <1>5, <1>6, <1>7

LEMMA InvHolds == Spec => []Inv
<1>1. Init => Inv
  <2> SUFFICES ASSUME Init PROVE Inv
    OBVIOUS
  <2>1. SampleTypes /\ TrackerTypes /\ HostTypes /\ GhostTypes
    BY DEF Init, SampleTypes, TrackerTypes, HostTypes, GhostTypes
  <2>2. ThreadTypes /\ AllFit
    BY IdleFits DEF Init, ThreadTypes, AllFit
  <2>3. ToldExist /\ AllSettled /\ KeptInv
    BY DEF Init, ToldExist, AllSettled, KeptInv
  <2> QED
    BY <2>1, <2>2, <2>3 DEF Inv, Types
<1>2. Inv /\ [Next]_vars => Inv'
  <2> SUFFICES ASSUME Inv, [Next]_vars PROVE Inv'
    OBVIOUS
  <2>1. ASSUME NEW a \in Proc, NEW x \in Path,
               \/ Write(a, x) \/ FileNew(a, x) \/ FileDel(a, x)
               \/ Process(a, x) \/ FileCape(a, x)
               \/ \E y \in Path \ {x} : FileMove(a, x, y)
        PROVE  Inv'
    BY <2>1, WriteKeepsInv, FileNewKeepsInv, FileMoveKeepsInv, LookKeepsInv
  <2>2. ASSUME NEW a \in Proc, Move(a) \/ Shutdown(a) \/ Delete(a) PROVE Inv'
    BY <2>2, MoveKeepsInv, DeleteKeepsInv, LookKeepsInv
  <2>3. ASSUME NEW a \in Actor, LoopTest(a) \/ Pick(a) \/ Dump(a) PROVE Inv'
    BY <2>3, HashKeepsInv, DetailsKeepsInv, UploadKeepsInv, PopKeepsInv, PickKeepsInv,
       LookKeepsInv DEF Dump
  <2>4. CASE Complete
    BY <2>4, LookKeepsInv
  <2>5. CASE Stop \/ Cleanup \/ UNCHANGED vars
    BY <2>5, EndKeepsInv
  <2> QED
    BY <2>1, <2>2, <2>3, <2>4, <2>5 DEF Next
<1> QED
  BY <1>1, <1>2, PTL DEF Spec

-----------------------------------------------------------------------------

\* Every variable keeps its type: no handler goes on with a path, a hash or a
\* caller it does not have.
THEOREM TypeCorrect == Spec => []TypeOK
<1>1. Inv => TypeOK
  BY DEF Inv, Types, TypeOK, SampleTypes, TrackerTypes, ThreadTypes, HostTypes, GhostTypes,
         Thread, Place, Caller
<1> QED
  BY <1>1, InvHolds, PTL

\* What the sample deletes has been dumped, or its upload has been tried, before
\* the answer to FILE_DEL, whatever the other threads dump meanwhile.
THEOREM DeletedFilesAreSent == Spec => []DeletedIsSent
<1>1. Inv => DeletedIsSent
  BY DEF Inv, AllSettled, DeletedIsSent
<1> QED
  BY <1>1, InvHolds, PTL

\* An entry of files.json that says duplicate is of a content that was sent, or
\* tried, before, though `dumped` is tested and appended to without a lock.
THEOREM DuplicatesWereSent == Spec => []DuplicateWasSent
<1>1. Inv => DuplicateWasSent
  BY DEF Inv, AllSettled, DuplicateWasSent
<1> QED
  BY <1>1, InvHolds, PTL

\* No interleaving of the handlers, the moves and the loops loses an announced
\* file, when Analyzer.complete() is done each has been settled, and when an
\* exception has ended it those that are not are still tracked.
THEOREM AnnouncedFilesAreKept == Spec => []AnnouncedIsKept
<1>1. Inv => AnnouncedIsKept
  <2> DEFINE tracked == IF phase = "completed" THEN {} ELSE files
  <2> SUFFICES ASSUME Inv, NEW x \in told \ excused
               PROVE  \/ Settled(disk[x]) \/ x \in tracked
                      \/ \E y \in excused \cup tracked : Moving(x, y)
    BY DEF AnnouncedIsKept
  <2>1. Kept(x) /\ Counted \subseteq tracked
    BY DEF Inv, KeptInv, Counted, Seen
  <2> QED
    BY <2>1 DEF Kept
<1> QED
  BY <1>1, InvHolds, PTL

=============================================================================
