--------------------------- MODULE ServiceTracking ---------------------------
(***************************************************************************)
(* The tracking of services that a sample installs: correlate() and        *)
(* extend_service_descendants() of CAPEsolo/lib/common/service_graph.py,   *)
(* ServiceTrackingMixin of lib/common/service_runtime.py, and the part of  *)
(* FridaMuncher's descendant watcher that writes the same lineage.         *)
(*                                                                         *)
(* The service control manager starts a service, so a service is no child  *)
(* of the process that installed it.  The graph is inferred from events of *)
(* two channels: Sysmon reports every process, Security every service      *)
(* installation and the identifier of the process that asked for it.  The  *)
(* channels are not in step, an event may be lost, and Windows gives the   *)
(* identifier of an ended process to another.                              *)
(*                                                                         *)
(* Left out is the third writer of the lineage, _schedule_injected_target, *)
(* with what an injected process then brings about.                        *)
(***************************************************************************)
EXTENDS Naturals, Sequences, FiniteSets

CONSTANTS
  Pid,     \* process identifiers
  RootPid, \* the identifier of the sample
  Name,    \* names of services
  Image,   \* service executables
  NoImage, \* the executable of any other process
  MaxTime  \* bound: process creations and service installations

ASSUME ServiceConstants ==
  /\ RootPid \in Pid /\ NoImage \notin Image
  /\ MaxTime \in Nat \ {0}

Time == 1..MaxTime
None == 0
SCM == 0   \* services.exe as a parent; the processes are named by their birth

VARIABLES
  past,     \* what has happened: process creations and service installations
  alive,    \* the processes that live
  seen,     \* events that have been delivered
  lineage,  \* [Pid -> the entry of FridaMuncher.lineage, or Unknown]
  graphed,  \* the events that the graph was last built from
  todo,     \* links that _reconcile_service_lineage() has yet to enrol
  link,     \* the link that it is enrolling, and how far it is
  grace,    \* _service_pending_since: none, less than 5 s ago, longer ago
  watched,  \* the process that the watcher has looked up, or None
  stopping, \* stop_event
  blind,    \* a graph was built while a creation before an installation was missing,
            \* or a process was taken for another because of its identifier
  raced     \* an entry was written on the ground of one that had changed

world == <<past, alive>>
graph == <<graphed, todo, link, grace>>
vars == <<world, seen, lineage, graph, watched, stopping, blind, raced>>

Happening ==
  [kind : {"create"}, pid : Pid, parent : 0..MaxTime, image : Image \cup {NoImage}]
    \cup [kind : {"install"}, by : Time, name : Name, image : Image]

Creations == {g \in DOMAIN past : past[g].kind = "create"}
Installations == DOMAIN past \ Creations
PidOf(g) == past[g].pid

Unknown == [born |-> None, role |-> "none", guid |-> None, verified |-> FALSE]
ServiceRole == {"service_process", "service_descendant"}
NoLink == [at |-> "idle", process |-> None, role |-> "none", verified |-> FALSE,
           before |-> None]   \* the process whose entry it has found

TypeOK ==
  /\ past \in Seq(Happening) /\ Len(past) \in Time
  /\ alive \subseteq Creations /\ seen \subseteq DOMAIN past
  /\ lineage \in [Pid -> [born : Time \cup {None}, guid : Time \cup {None},
                          role : {"none", "root", "child"} \cup ServiceRole,
                          verified : BOOLEAN]]
  /\ graphed \subseteq seen
  /\ todo \subseteq [process : Creations, role : ServiceRole]
  /\ link \in [at : {"idle", "probe", "write"}, process : Creations \cup {None},
               role : {"none"} \cup ServiceRole, verified : BOOLEAN,
               before : Time \cup {None}]
  /\ grace \in {"none", "running", "over"}
  /\ watched \in Creations \cup {None}
  /\ stopping \in BOOLEAN /\ blind \in BOOLEAN /\ raced \in BOOLEAN

\* _run() has found the sample.
Init ==
  /\ past = <<[kind |-> "create", pid |-> RootPid, parent |-> SCM, image |-> NoImage]>>
  /\ alive = {1} /\ seen = {}
  /\ lineage = [p \in Pid |->
       IF p = RootPid THEN [Unknown EXCEPT !.born = 1, !.role = "root"] ELSE Unknown]
  /\ graphed = {} /\ todo = {} /\ link = NoLink /\ grace = "none"
  /\ watched = None /\ stopping = FALSE /\ blind = FALSE /\ raced = FALSE

-----------------------------------------------------------------------------
(* The machine under analysis, and the delivery of events. *)

Happens(event) == Len(past) < MaxTime /\ past' = Append(past, event)

\* Service executables are only started as services.
Create(p, parent, image) ==
  /\ \A g \in alive : PidOf(g) # p
  /\ parent \in alive \cup {SCM}
  /\ parent # SCM => image = NoImage
  /\ image # NoImage => \E s \in Installations : past[s].image = image
  /\ Happens([kind |-> "create", pid |-> p, parent |-> parent, image |-> image])
  /\ alive' = alive \cup {Len(past')}
  /\ UNCHANGED <<seen, lineage, graph, watched, stopping, blind, raced>>

Install(g, name, image) ==
  /\ g \in alive
  /\ Happens([kind |-> "install", by |-> g, name |-> name, image |-> image])
  /\ UNCHANGED <<alive, seen, lineage, graph, watched, stopping, blind, raced>>

Exit(g) ==
  /\ g \in alive /\ alive' = alive \ {g}
  /\ UNCHANGED <<past, seen, lineage, graph, watched, stopping, blind, raced>>

\* The entry with g's identifier gets g's ProcessGuid, whose process ever it is of.
NameEntry(g) ==
  /\ lineage' = [lineage EXCEPT ![PidOf(g)].guid = g]
  /\ blind' = (blind \/ lineage[PidOf(g)].born # g)

\* _handle_sysmon_event() with _handle_sysmon_process_create(), and
\* _handle_service_event().  The former two take the lock in turn; as one step, a
\* stranger's name is there as soon as its event is.  An event that is lost is one
\* that is never delivered.
Deliver(e) ==
  /\ e \in DOMAIN past \ seen /\ seen' = seen \cup {e}
  /\ IF e \in Creations /\ ~stopping /\ lineage[PidOf(e)].born # None
     THEN NameEntry(e)
     ELSE UNCHANGED <<lineage, blind>>
  /\ UNCHANGED <<world, graph, watched, stopping, raced>>

\* _sysmon_source_is_tracked(): an event of another kind names a process as well, if
\* its entry has no ProcessGuid yet and the names of the executables agree.
Learn(g) ==
  /\ g \in Creations
  /\ lineage[PidOf(g)].born # None /\ lineage[PidOf(g)].guid = None
  /\ NameEntry(g)
  /\ UNCHANGED <<world, seen, graph, watched, stopping, raced>>

-----------------------------------------------------------------------------
(* correlate() *)

\* The process that the events say had identifier p at a time, or None.
LastKnown(p, at) ==
  LET born == {g \in Creations \cap seen : PidOf(g) = p /\ g <= at}
  IN  IF born = {} THEN None ELSE CHOOSE g \in born : \A h \in born : h <= g

\* A process of the lineage, and the one that had its identifier then.
Tracked(p, at, known) ==
  /\ known[p].guid # None /\ known[p].born <= at
  /\ LastKnown(p, at) = known[p].guid

\* Installations by a tracked process.
Anchors(known) ==
  {s \in Installations \cap seen : Tracked(PidOf(past[s].by), s, known)}

\* Mutant: any service of the installer's.
CandidatesOfAnyImage(g, anchors) == {s \in anchors : s <= g}

\* The installations that process g may be the service of; a later one of the
\* same name takes the place of an earlier.
Candidates(g, anchors) ==
  LET before == {s \in anchors : s <= g}
  IN  {s \in before : /\ past[s].image = past[g].image
                      /\ \A t \in before : past[t].name = past[s].name => t <= s}

Services(known) ==
  {g \in Creations \cap seen :
     past[g].parent = SCM /\ Cardinality(Candidates(g, Anchors(known))) = 1}

\* Mutant: the services alone.
FamilyOfOne(services) == services

\* The services, the processes that they have started, and those that these have.
Family(services) ==
  LET related[g \in DOMAIN past] ==
        /\ g \in seen \cap Creations
        /\ \/ g \in services
           \/ past[g].parent # SCM /\ related[past[g].parent]
  IN  {g \in Creations : related[g]}

\* Mutant: what a service has started is an ordinary child.
LinksAsChildren(known) ==
  LET services == Services(known)
  IN  {[process |-> g, role |-> IF g \in services THEN "service_process" ELSE "child"]
         : g \in Family(services)}

Links(known) ==
  LET services == Services(known)
  IN  {[process |-> g, role |-> IF g \in services THEN "service_process"
                                ELSE "service_descendant"] : g \in Family(services)}

\* Anchors that no started process is linked to.
Unresolved(known) ==
  {s \in Anchors(known) : \A g \in Services(known) : s \notin Candidates(g, Anchors(known))}

-----------------------------------------------------------------------------
(* _reconcile_service_lineage(), of which one call is under way at a time.  *)

\* The identity of a process that was found before its event arrived.
Identified ==
  [p \in Pid |->
     IF lineage[p].guid = None /\ lineage[p].born \in seen
     THEN [lineage[p] EXCEPT !.guid = lineage[p].born] ELSE lineage[p]]

Missing == \E s \in Installations \cap seen, g \in Creations \ seen :
             g < s /\ PidOf(g) = PidOf(past[s].by)

Reconcile ==
  /\ link = NoLink /\ todo = {} /\ seen # graphed
  /\ lineage' = Identified /\ graphed' = seen
  /\ todo' = IF stopping THEN {} ELSE Links(Identified)
  /\ grace' = IF Unresolved(Identified) = {} THEN "none"
              ELSE IF grace = "none" THEN "running" ELSE grace
  /\ blind' = (blind \/ Missing)
  /\ UNCHANGED <<world, seen, link, watched, stopping, raced>>

Age ==
  /\ grace = "running" /\ grace' = "over"
  /\ UNCHANGED <<world, seen, lineage, graphed, todo, link, watched, stopping, blind, raced>>

\* _identity_still_alive() of an entry.
StillAlive(entry) == entry.born \in alive

\* Mutant: the graph's entry replaces any other.
ConsiderAny(l) ==
  /\ link = NoLink /\ l \in todo /\ todo' = todo \ {l}
  /\ LET previous == lineage[PidOf(l.process)]
     IN  link' = IF previous.guid = l.process THEN NoLink
                 ELSE [at |-> "probe", process |-> l.process, role |-> l.role,
                       verified |-> FALSE, before |-> previous.born]
  /\ UNCHANGED <<world, seen, lineage, graphed, grace, watched, stopping, blind, raced>>

\* The first look at the lineage.  A link that is known, or that is of another
\* process than a live one with its identifier, is left alone.
Consider(l) ==
  /\ link = NoLink /\ l \in todo /\ todo' = todo \ {l}
  /\ LET previous == lineage[PidOf(l.process)]
     IN  link' = IF previous.guid = l.process \/ StillAlive(previous) THEN NoLink
                 ELSE [at |-> "probe", process |-> l.process, role |-> l.role,
                       verified |-> FALSE, before |-> previous.born]
  /\ UNCHANGED <<world, seen, lineage, graphed, grace, watched, stopping, blind, raced>>

\* What Windows says of the process, without the lock: it may deny access, or give
\* another path.  It is not asked again.
Probe ==
  /\ link.at = "probe"
  /\ \E verified \in {FALSE, link.process \in alive} :
       link' = [link EXCEPT !.at = "write", !.verified = verified]
  /\ UNCHANGED <<world, seen, lineage, graphed, todo, grace, watched, stopping, blind, raced>>

\* The entry is written, whatever is there by now.
Enroll ==
  /\ link.at = "write"
  /\ LET p == PidOf(link.process)
     IN  /\ lineage' = [lineage EXCEPT ![p] =
              [born |-> link.process, role |-> link.role, guid |-> link.process,
               verified |-> link.verified]]
         /\ raced' = (\/ raced
                      \/ lineage[p].born # link.before /\ StillAlive(lineage[p]))
  /\ link' = NoLink
  /\ UNCHANGED <<world, seen, graphed, todo, grace, watched, stopping, blind>>

\* has_live_related_processes(), after its call of _reconcile_service_lineage().
HasLiveRelated ==
  /\ ~stopping
  /\ \/ \E p \in Pid : /\ lineage[p].role \in ServiceRole
                       /\ lineage[p].verified /\ StillAlive(lineage[p])
     \/ grace = "running"

-----------------------------------------------------------------------------
(* _watch_descendants() *)

ParentEntry(g) == lineage[PidOf(past[g].parent)]

\* A process that is not in the lineage, whose parent is not a service.
Look(g) ==
  /\ watched = None /\ ~stopping
  /\ g \in alive /\ past[g].parent # SCM
  /\ lineage[PidOf(g)].born # g /\ ParentEntry(g).role \notin ServiceRole
  /\ watched' = g
  /\ UNCHANGED <<world, seen, lineage, graph, stopping, blind, raced>>

\* _lineage_contains_parent() takes the lock anew, and finds any process with the
\* parent's identifier that is old enough.
Watch ==
  /\ watched # None /\ watched' = None
  /\ LET parent == ParentEntry(watched)
         p == PidOf(watched)
     IN  IF parent.role # "none" /\ parent.born <= watched
         THEN /\ lineage' = [lineage EXCEPT ![p] =
                   [born |-> watched, role |-> "child", guid |-> None, verified |-> FALSE]]
              /\ raced' = (\/ raced \/ parent.role \in ServiceRole
                           \/ lineage[p].born = watched
                           \/ StillAlive(lineage[p]))
              /\ blind' = (blind \/ parent.born # past[watched].parent)
         ELSE UNCHANGED <<lineage, raced, blind>>
  /\ UNCHANGED <<world, seen, graph, stopping>>

\* stop() sets stop_event; the tail of the events is still reconciled.
Stop ==
  /\ ~stopping /\ stopping' = TRUE
  /\ UNCHANGED <<world, seen, lineage, graph, watched, blind, raced>>

Next ==
  \/ \E p \in Pid, parent \in alive \cup {SCM}, image \in Image \cup {NoImage} :
       Create(p, parent, image)
  \/ \E g \in alive : Exit(g) \/ Look(g) \/ \E n \in Name, i \in Image : Install(g, n, i)
  \/ \E e \in DOMAIN past : Deliver(e) \/ Learn(e)
  \/ \E l \in todo : Consider(l)
  \/ Reconcile \/ Age \/ Probe \/ Enroll \/ Watch \/ Stop

Spec == Init /\ [][Next]_vars

-----------------------------------------------------------------------------
(* Properties. *)

\* The sample and all that it has brought about: its children, the services that
\* such a process has installed, and the children of these.
OfSample[g \in DOMAIN past] ==
  /\ g \in Creations
  /\ \/ g = 1
     \/ past[g].parent # SCM /\ OfSample[past[g].parent]
     \/ \E s \in Installations :
          s < g /\ past[s].image = past[g].image /\ OfSample[past[s].by]

\* Only what the sample has brought about is enrolled as a service or as a service's
\* descendant, although correlation is by process identifier, identifiers are used
\* again, and the events come in any order.  Not if the creation of the process that
\* installs a service is missing when the graph is built, if the watcher has enrolled a
\* child of another process with the identifier of one that it knows, or if an event
\* gave an entry the ProcessGuid of another process with its identifier: that one then
\* inherits its relationship, against service_graph.py:69-70.
ServiceIsOfSample ==
  ~blind => \A p \in Pid : lineage[p].role \in ServiceRole => OfSample[lineage[p].born]

\* What the analysis loop is told, once all events have been delivered and the
\* graph was built from them: while a service that the sample has installed, or a
\* descendant of one, lives, the analysis is not over (service_runtime.py:191).
\* Not if two names of services have one executable, if the sample's own entry is gone
\* because another process has its identifier, or if Windows would not say that this
\* process lives.
Settled ==
  /\ seen = DOMAIN past /\ graphed = seen /\ todo = {} /\ link = NoLink
  /\ ~stopping /\ ~blind /\ ~raced /\ lineage[RootPid].born = 1

ServiceOfRoot[g \in DOMAIN past] ==
  /\ g \in Creations
  /\ IF past[g].parent = SCM
     THEN \E s \in Installations :
            s < g /\ past[s].image = past[g].image /\ past[s].by = 1
     ELSE ServiceOfRoot[past[g].parent]

OneNameEach ==
  \A s, t \in Installations : past[s].image = past[t].image <=> past[s].name = past[t].name

LiveServiceDefers ==
  Settled /\ OneNameEach => \A g \in alive : ServiceOfRoot[g] =>
    \/ HasLiveRelated
    \/ lineage[PidOf(g)].born = g /\ ~lineage[PidOf(g)].verified

\* The entry of a live process is not given to another, and does not change its
\* role: neither by the graph, which knows many processes that have ended, nor by
\* the watcher.  Not if one of them wrote while the other was between its look at
\* the lineage and its own entry.
EntryKept ==
  [][\A p \in Pid :
       LET entry == lineage[p]
       IN  StillAlive(entry) /\ ~raced' =>
             lineage'[p].born = entry.born /\ lineage'[p].role = entry.role]_vars

=============================================================================
