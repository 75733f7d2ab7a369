----------------------- MODULE ServiceTracking_proofs -----------------------
(***************************************************************************)
(* Proofs about ServiceTracking.  What the properties say of a process is  *)
(* recursive along its parents and installers, which are all older: an     *)
(* argument over the history is one about the oldest counterexample.       *)
(***************************************************************************)
EXTENDS ServiceTracking, FiniteSetTheorems, WellFoundedInduction, TLAPS

(* The inductive invariant. *)

\* What brings a process about is older, and lives at the time: so until an
\* installation, no other process has had the identifier of the installer.
ParentsAreOlder ==
  \A g \in Creations : /\ past[g].parent < g
                       /\ past[g].parent # SCM => past[g].parent \in Creations
InstallersAreOlder ==
  \A s \in Installations :
    /\ past[s].by \in Creations /\ past[s].by < s
    /\ \A h \in Creations : PidOf(h) = PidOf(past[s].by) /\ h < s => h <= past[s].by
LatestLives == \A g \in alive, h \in Creations : PidOf(h) = PidOf(g) => h <= g
SampleIsFirst == 1 \in Creations /\ PidOf(1) = RootPid /\ past[1].parent = SCM
HistoryInv == ParentsAreOlder /\ InstallersAreOlder /\ LatestLives /\ SampleIsFirst

\* An entry of the lineage is that of a process with the identifier, and has its
\* ProcessGuid, if any, unless an event has named it after another.
EntryOf(p, entry) ==
  /\ entry.born = None <=> entry.role = "none"
  /\ entry.born # None => entry.born \in Creations /\ PidOf(entry.born) = p
  /\ ~blind => entry.guid \in {None, entry.born}
EntryInv == \A p \in Pid : EntryOf(p, lineage[p])

\* A link is enrolled over nothing but the entry of a process that has ended, and
\* neither it nor what the watcher looks at is the sample.
LinkInv ==
  /\ \A l \in todo : l.process # 1
  /\ link.at = "idle" => link = NoLink
  /\ link.at # "idle" =>
       /\ link.process \in Creations \ {1} /\ link.role \in ServiceRole
       /\ link.before \notin alive /\ link.before \in DOMAIN past \cup {None}
  /\ watched # None => past[watched].parent # SCM

\* All that is enrolled, or is about to be, is the sample's.
SampleInv ==
  ~blind => /\ \A p \in Pid : lineage[p].born # None => OfSample[lineage[p].born]
            /\ \A l \in todo : OfSample[l.process]
            /\ link.at # "idle" => OfSample[link.process]

\* No service of the sample, and nothing it has started, is taken for a child.
RoleInv ==
  ~blind /\ ~raced =>
    \A p \in Pid : lineage[p].role \in {"root", "child"} => ~ServiceOfRoot[lineage[p].born]

\* A live process that a service of the sample has brought about is to be enrolled,
\* or is, once the graph was built from all the events there are.
InHand(g) ==
  \/ \E l \in todo : l.process = g
  \/ link.at # "idle" /\ link.process = g
  \/ lineage[PidOf(g)].born = g
LinkedInv ==
  /\ graphed = DOMAIN past /\ ~stopping /\ ~blind /\ ~raced
  /\ lineage[RootPid].born = 1 /\ OneNameEach
  => \A g \in alive : ServiceOfRoot[g] => InHand(g)

Inv ==
  TypeOK /\ HistoryInv /\ EntryInv /\ LinkInv /\ SampleInv /\ RoleInv /\ LinkedInv

-----------------------------------------------------------------------------
(* The history, and what is recursive along it. *)

LEMMA Least ==
  ASSUME NEW T \in SUBSET Nat, T # {}
  PROVE  \E n \in T : \A m \in T : n <= m
<1>1. PICK n \in T : \A m \in T : ~ (<<m, n>> \in OpToRel(<, Nat))
  BY NatLessThanWellFounded, WFMin
<1>2. ASSUME NEW m \in T PROVE ~ (m < n)
  <2>1. m \in Nat /\ n \in Nat
    OBVIOUS
  <2>2. m < n => <<m, n>> \in OpToRel(<, Nat)
    BY <2>1, Zenon DEF OpToRel
  <2> QED
    BY <1>1, <2>2
<1> QED
  BY <1>2

LEMMA Greatest ==
  ASSUME NEW n \in Nat, NEW T \in SUBSET (0..n), T # {}
  PROVE  \E t \in T : \A u \in T : u <= t
<1> DEFINE U == {n - t : t \in T}
<1>1. U \in SUBSET Nat /\ U # {}
  <2>1. \A t \in T : n - t \in Nat
    OBVIOUS
  <2> QED
    BY <2>1
<1>2. PICK m \in U : \A k \in U : m <= k
  BY <1>1, Least
<1>3. PICK t \in T : m = n - t
  OBVIOUS
<1>4. ASSUME NEW u \in T PROVE u <= t
  <2>1. m <= n - u
    BY <1>2
  <2> QED
    BY <1>3, <2>1
<1> QED
  BY <1>4

\* What holds of g on a ground of its own, or because it holds of one of its
\* causes, is a function when causes come before what they bring about.
LEMMA Recursion ==
  ASSUME NEW n \in Nat, NEW base \in [1..n -> BOOLEAN],
         NEW cause \in [1..n -> SUBSET Nat], \A g \in 1..n : cause[g] \subseteq 1..(g - 1)
  PROVE  \E f \in [1..n -> BOOLEAN] :
           \A g \in 1..n : f[g] = (base[g] \/ \E h \in cause[g] : f[h])
<1> DEFINE Solved(m, f) == \A g \in 1..m : f[g] = (base[g] \/ \E h \in cause[g] : f[h])
           Solvable(m) == \E f \in [1..m -> BOOLEAN] : Solved(m, f)
           T == {m \in 0..n : ~Solvable(m)}
<1> SUFFICES ASSUME T # {} PROVE FALSE
  <2> SUFFICES Solvable(n)
    OBVIOUS
  <2> HIDE DEF Solvable
  <2> QED
    OBVIOUS
<1>1. PICK m \in T : \A k \in T : m <= k
  <2> HIDE DEF Solvable
  <2>1. T \in SUBSET Nat
    OBVIOUS
  <2> HIDE DEF T
  <2> QED
    BY <2>1, Least
<1>2. m # 0
  <2>1. [g \in 1..0 |-> TRUE] \in [1..0 -> BOOLEAN] /\ Solved(0, [g \in 1..0 |-> TRUE])
    OBVIOUS
  <2> QED
    BY <2>1
<1>3. PICK f \in [1..(m - 1) -> BOOLEAN] : Solved(m - 1, f)
  <2> HIDE DEF Solvable
  <2>1. m - 1 \in 0..n /\ ~(m <= m - 1)
    BY <1>2
  <2>2. Solvable(m - 1)
    BY <1>1, <2>1
  <2> QED
    BY <2>2 DEF Solvable
<1> DEFINE e == [g \in 1..m |-> IF g = m THEN base[m] \/ \E h \in cause[m] : f[h] ELSE f[g]]
<1>4. e \in [1..m -> BOOLEAN] /\ \A g \in 1..(m - 1) : e[g] = f[g]
  <2>1. m \in 1..n
    BY <1>2
  <2>2. \A g \in 1..m : g # m => g \in 1..(m - 1)
    OBVIOUS
  <2> QED
    BY <2>1, <2>2
<1>5. ASSUME NEW g \in 1..m PROVE e[g] = (base[g] \/ \E h \in cause[g] : e[h])
  <2>1. \A h \in cause[g] : e[h] = f[h]
    <3>1. cause[g] \subseteq 1..(g - 1)
      OBVIOUS
    <3>2. \A h \in 1..(g - 1) : h \in 1..(m - 1)
      OBVIOUS
    <3> QED
      BY <1>4, <3>1, <3>2
  <2>2. CASE g = m
    BY <2>1, <2>2
  <2>3. CASE g # m
    <3>1. g \in 1..(m - 1)
      BY <2>3
    <3>2. f[g] = (base[g] \/ \E h \in cause[g] : f[h])
      BY <1>3, <3>1
    <3>3. (\E h \in cause[g] : f[h]) <=> \E h \in cause[g] : e[h]
      BY <2>1
    <3>4. (\E h \in cause[g] : e[h]) \in BOOLEAN /\ (\E h \in cause[g] : f[h]) \in BOOLEAN
      OBVIOUS
    <3> QED
      BY <1>4, <3>1, <3>2, <3>3, <3>4
  <2> QED
    BY <2>2, <2>3
<1> QED
  <2>1. Solved(m, e)
    BY <1>5
  <2> QED
    BY <1>1, <1>4, <2>1

\* The history as the recursive definitions need it.
History == past \in Seq(Happening) /\ ParentsAreOlder /\ InstallersAreOlder

LEMMA HistoryTypes ==
  ASSUME past \in Seq(Happening)
  PROVE  /\ Len(past) \in Nat /\ DOMAIN past = 1..Len(past)
         /\ \A g \in Creations : /\ g \in DOMAIN past /\ PidOf(g) \in Pid
                                 /\ past[g].parent \in 0..MaxTime
                                 /\ past[g].image \in Image \cup {NoImage}
         /\ \A s \in Installations : /\ s \in DOMAIN past /\ past[s].kind = "install"
                                     /\ past[s].by \in Time /\ past[s].image \in Image
<1>1. Len(past) \in Nat /\ DOMAIN past = 1..Len(past)
  OBVIOUS
<1>2. \A g \in DOMAIN past : past[g] \in Happening
  OBVIOUS
<1>3. ASSUME NEW g \in Creations
      PROVE  /\ g \in DOMAIN past /\ PidOf(g) \in Pid /\ past[g].parent \in 0..MaxTime
             /\ past[g].image \in Image \cup {NoImage}
  <2>1. g \in DOMAIN past /\ past[g].kind = "create" /\ past[g] \in Happening
    BY <1>2 DEF Creations
  <2> QED
    BY <2>1 DEF Happening, PidOf
<1>4. ASSUME NEW s \in Installations
      PROVE  /\ s \in DOMAIN past /\ past[s].kind = "install" /\ past[s].by \in Time
             /\ past[s].image \in Image
  <2>1. s \in DOMAIN past /\ past[s].kind # "create" /\ past[s] \in Happening
    BY <1>2 DEF Creations, Installations
  <2> QED
    BY <2>1 DEF Happening
<1> QED
  BY <1>1, <1>3, <1>4

\* What the sample brings about, in one step.
SampleCause(f, g) ==
  /\ g \in Creations
  /\ \/ g = 1
     \/ past[g].parent # SCM /\ f[past[g].parent]
     \/ \E s \in Installations :
          s < g /\ past[s].image = past[g].image /\ f[past[s].by]

OfSampleEq ==
  /\ OfSample \in [DOMAIN past -> BOOLEAN]
  /\ \A g \in DOMAIN past : OfSample[g] = SampleCause(OfSample, g)

LEMMA OfSampleIs == History => OfSampleEq
<1> SUFFICES ASSUME History PROVE OfSampleEq
  OBVIOUS
<1> USE DEF History
<1> DEFINE n == Len(past)
           base == [g \in 1..n |-> g \in Creations /\ g = 1]
           cause == [g \in 1..n |->
             {h \in 1..(g - 1) :
                /\ g \in Creations
                /\ \/ past[g].parent # SCM /\ h = past[g].parent
                   \/ \E s \in Installations :
                        s < g /\ past[s].image = past[g].image /\ h = past[s].by}]
           Is(f) == f = [g \in DOMAIN past |-> SampleCause(f, g)]
<1>1. n \in Nat /\ DOMAIN past = 1..n
  BY HistoryTypes
<1>2. base \in [1..n -> BOOLEAN] /\ cause \in [1..n -> SUBSET Nat]
  OBVIOUS
<1>3. \A g \in 1..n : cause[g] \subseteq 1..(g - 1)
  OBVIOUS
<1>4. PICK f \in [1..n -> BOOLEAN] :
        \A g \in 1..n : f[g] = (base[g] \/ \E h \in cause[g] : f[h])
  <2> HIDE DEF n, base, cause
  <2> QED
    BY <1>1, <1>2, <1>3, Recursion
<1>5. ASSUME NEW g \in DOMAIN past PROVE f[g] = SampleCause(f, g)
  <2>1. g \in Creations => /\ past[g].parent # SCM => past[g].parent \in 1..(g - 1)
    BY <1>1, HistoryTypes DEF ParentsAreOlder, SCM
  <2>2. \A s \in Installations : s < g => past[s].by \in 1..(g - 1)
    BY <1>1, HistoryTypes DEF InstallersAreOlder, Creations
  <2>3. (\E h \in cause[g] : f[h])
          <=> /\ g \in Creations
              /\ \/ past[g].parent # SCM /\ f[past[g].parent]
                 \/ \E s \in Installations :
                      s < g /\ past[s].image = past[g].image /\ f[past[s].by]
    BY <1>1, <2>1, <2>2
  <2>4. base[g] <=> g \in Creations /\ g = 1
    BY <1>1
  <2>5. f[g] = (base[g] \/ \E h \in cause[g] : f[h])
    BY <1>1, <1>4
  <2>6. f[g] <=> SampleCause(f, g)
    <3> HIDE DEF base, cause
    <3> QED
      BY <2>3, <2>4, <2>5 DEF SampleCause
  <2>7. f[g] \in BOOLEAN /\ SampleCause(f, g) \in BOOLEAN
    BY <1>1, <1>4 DEF SampleCause
  <2> QED
    BY <2>6, <2>7
<1>6. Is(f)
  BY <1>1, <1>4, <1>5
<1>7. OfSample = CHOOSE e : Is(e)
  BY DEF OfSample, SampleCause
<1>8. Is(OfSample)
  BY <1>6, <1>7
<1> QED
  BY <1>8 DEF SampleCause, OfSampleEq

\* What the sample's own services bring about, in one step.
RootCause(f, g) ==
  /\ g \in Creations
  /\ IF past[g].parent = SCM
     THEN \E s \in Installations :
            s < g /\ past[s].image = past[g].image /\ past[s].by = 1
     ELSE f[past[g].parent]

ServiceOfRootEq ==
  /\ ServiceOfRoot \in [DOMAIN past -> BOOLEAN]
  /\ \A g \in DOMAIN past : ServiceOfRoot[g] = RootCause(ServiceOfRoot, g)

LEMMA ServiceOfRootIs == History => ServiceOfRootEq
<1> SUFFICES ASSUME History PROVE ServiceOfRootEq
  OBVIOUS
<1> USE DEF History
<1> DEFINE n == Len(past)
           Own(g) == \E s \in Installations :
                       s < g /\ past[s].image = past[g].image /\ past[s].by = 1
           base == [g \in 1..n |-> g \in Creations /\ past[g].parent = SCM /\ Own(g)]
           cause == [g \in 1..n |->
             {h \in 1..(g - 1) :
                g \in Creations /\ past[g].parent # SCM /\ h = past[g].parent}]
           Is(f) == f = [g \in DOMAIN past |-> RootCause(f, g)]
<1>1. n \in Nat /\ DOMAIN past = 1..n
  BY HistoryTypes
<1>2. base \in [1..n -> BOOLEAN] /\ cause \in [1..n -> SUBSET Nat]
  OBVIOUS
<1>3. \A g \in 1..n : cause[g] \subseteq 1..(g - 1)
  OBVIOUS
<1>4. PICK f \in [1..n -> BOOLEAN] :
        \A g \in 1..n : f[g] = (base[g] \/ \E h \in cause[g] : f[h])
  <2> HIDE DEF n, base, cause
  <2> QED
    BY <1>1, <1>2, <1>3, Recursion
<1>5. ASSUME NEW g \in DOMAIN past PROVE f[g] = RootCause(f, g)
  <2>1. g \in Creations => (past[g].parent # SCM => past[g].parent \in 1..(g - 1))
    BY <1>1, HistoryTypes DEF ParentsAreOlder, SCM
  <2>2. (\E h \in cause[g] : f[h])
          <=> g \in Creations /\ past[g].parent # SCM /\ f[past[g].parent]
    BY <1>1, <2>1
  <2>3. base[g] <=> g \in Creations /\ past[g].parent = SCM /\ Own(g)
    BY <1>1
  <2>4. f[g] = (base[g] \/ \E h \in cause[g] : f[h])
    BY <1>1, <1>4
  <2>5. g \in Creations /\ past[g].parent # SCM => f[past[g].parent] \in BOOLEAN
    BY <1>1, <1>4, <2>1
  <2>6. f[g] <=> RootCause(f, g)
    <3> HIDE DEF base, cause
    <3> QED
      BY <2>2, <2>3, <2>4 DEF RootCause
  <2>7. f[g] \in BOOLEAN /\ RootCause(f, g) \in BOOLEAN
    BY <1>1, <1>4, <2>5 DEF RootCause
  <2> QED
    BY <2>6, <2>7
<1>6. Is(f)
  BY <1>1, <1>4, <1>5
<1>7. ServiceOfRoot = CHOOSE e : Is(e)
  BY DEF ServiceOfRoot, RootCause
<1>8. Is(ServiceOfRoot)
  BY <1>6, <1>7
<1>9. ASSUME NEW g \in DOMAIN past
      PROVE  /\ ServiceOfRoot[g] = RootCause(ServiceOfRoot, g)
             /\ RootCause(ServiceOfRoot, g) \in BOOLEAN
  BY <1>1, <1>8, HistoryTypes DEF RootCause, ParentsAreOlder
<1> QED
  BY <1>8, <1>9 DEF ServiceOfRootEq

\* Family's function, in one step.
FamilyCause(services, f, g) ==
  /\ g \in seen \cap Creations
  /\ \/ g \in services
     \/ past[g].parent # SCM /\ f[past[g].parent]

LEMMA FamilyIs ==
  ASSUME History, NEW services
  PROVE  \A g : g \in Family(services) <=>
           /\ g \in seen \cap Creations
           /\ g \in services \/ (past[g].parent # SCM /\ past[g].parent \in Family(services))
<1> USE DEF History
<1> DEFINE n == Len(past)
           base == [g \in 1..n |-> g \in seen \cap Creations /\ g \in services]
           cause == [g \in 1..n |->
             {h \in 1..(g - 1) :
                g \in seen \cap Creations /\ past[g].parent # SCM /\ h = past[g].parent}]
           Is(f) == f = [g \in DOMAIN past |-> FamilyCause(services, f, g)]
<1>1. n \in Nat /\ DOMAIN past = 1..n
  BY HistoryTypes
<1>2. base \in [1..n -> BOOLEAN] /\ cause \in [1..n -> SUBSET Nat]
  OBVIOUS
<1>3. \A g \in 1..n : cause[g] \subseteq 1..(g - 1)
  OBVIOUS
<1>4. PICK f \in [1..n -> BOOLEAN] :
        \A g \in 1..n : f[g] = (base[g] \/ \E h \in cause[g] : f[h])
  <2> HIDE DEF n, base, cause
  <2> QED
    BY <1>1, <1>2, <1>3, Recursion
<1>5. ASSUME NEW g \in DOMAIN past PROVE f[g] = FamilyCause(services, f, g)
  <2>1. g \in Creations => (past[g].parent # SCM => past[g].parent \in 1..(g - 1))
    BY <1>1, HistoryTypes DEF ParentsAreOlder, SCM
  <2>2. (\E h \in cause[g] : f[h])
          <=> g \in seen \cap Creations /\ past[g].parent # SCM /\ f[past[g].parent]
    BY <1>1, <2>1
  <2>3. base[g] <=> g \in seen \cap Creations /\ g \in services
    BY <1>1
  <2>4. f[g] = (base[g] \/ \E h \in cause[g] : f[h])
    BY <1>1, <1>4
  <2>5. f[g] <=> FamilyCause(services, f, g)
    <3> HIDE DEF base, cause
    <3> QED
      BY <2>2, <2>3, <2>4 DEF FamilyCause
  <2>6. f[g] \in BOOLEAN /\ FamilyCause(services, f, g) \in BOOLEAN
    BY <1>1, <1>4 DEF FamilyCause
  <2> QED
    BY <2>5, <2>6
<1>6. Is(f)
  BY <1>1, <1>4, <1>5
<1> DEFINE related == CHOOSE e : Is(e)
<1>7. Family(services) = {g \in Creations : related[g]}
  BY DEF Family, FamilyCause
<1>8. Is(related)
  BY <1>6
<1> HIDE DEF related
<1>9. \A g \in DOMAIN past : related[g] = FamilyCause(services, related, g)
  BY <1>8
<1>10. ASSUME NEW g
       PROVE  g \in Family(services) <=>
                /\ g \in seen \cap Creations
                /\ \/ g \in services
                   \/ past[g].parent # SCM /\ past[g].parent \in Family(services)
  <2>1. CASE g \notin Creations
    BY <1>7, <2>1
  <2>2. CASE g \in Creations
    <3>1. g \in DOMAIN past
      BY <2>2, HistoryTypes
    <3>2. past[g].parent # SCM => past[g].parent \in Creations
      BY <2>2 DEF ParentsAreOlder
    <3> QED
      BY <1>7, <1>9, <2>2, <3>1, <3>2 DEF FamilyCause
  <2> QED
    BY <2>1, <2>2
<1> QED
  BY <1>10

-----------------------------------------------------------------------------
(* The past stays. *)

\* All that has happened is still in the past.
Grows == DOMAIN past \subseteq DOMAIN past' /\ \A g \in DOMAIN past : past'[g] = past[g]

LEMMA GrowsByOne ==
  ASSUME past \in Seq(Happening), NEW e \in Happening, past' = Append(past, e)
  PROVE  /\ Grows /\ past' \in Seq(Happening) /\ Len(past') = Len(past) + 1
         /\ DOMAIN past' = DOMAIN past \cup {Len(past')} /\ past'[Len(past')] = e
         /\ Len(past') \notin DOMAIN past
         /\ Creations' = Creations \cup (IF e.kind = "create" THEN {Len(past')} ELSE {})
         /\ Installations' = Installations \cup (IF e.kind = "create" THEN {} ELSE {Len(past')})
         /\ \A g \in DOMAIN past : PidOf(g)' = PidOf(g)
<1>1. /\ Grows /\ past' \in Seq(Happening) /\ Len(past') = Len(past) + 1
      /\ DOMAIN past' = DOMAIN past \cup {Len(past')} /\ past'[Len(past')] = e
      /\ Len(past') \notin DOMAIN past
  BY DEF Grows
<1>2. Creations' = Creations \cup (IF e.kind = "create" THEN {Len(past')} ELSE {})
  BY <1>1 DEF Creations, Grows
<1>3. Installations' = Installations \cup (IF e.kind = "create" THEN {} ELSE {Len(past')})
  BY <1>1, <1>2 DEF Installations, Creations
<1>4. \A g \in DOMAIN past : PidOf(g)' = PidOf(g)
  BY <1>1 DEF PidOf, Grows
<1> QED
  BY <1>1, <1>2, <1>3, <1>4

\* The kinds of happenings stay.
LEMMA GrowsKeepsKinds ==
  ASSUME Grows
  PROVE  /\ Creations \subseteq Creations' /\ Installations \subseteq Installations'
         /\ \A g \in DOMAIN past : /\ g \in Creations' <=> g \in Creations
                                   /\ g \in Installations' <=> g \in Installations
                                   /\ PidOf(g)' = PidOf(g)
  BY DEF Grows, Creations, Installations, PidOf

LEMMA SampleIsKept ==
  ASSUME History, History', Grows
  PROVE  \A g \in DOMAIN past : /\ OfSample'[g] = OfSample[g]
                                /\ ServiceOfRoot'[g] = ServiceOfRoot[g]
<1>1. (History => OfSampleEq)' /\ (History => ServiceOfRootEq)'
  BY OfSampleIs, ServiceOfRootIs, PTL
<1>2. OfSampleEq /\ ServiceOfRootEq /\ OfSampleEq' /\ ServiceOfRootEq'
  BY <1>1, OfSampleIs, ServiceOfRootIs
<1> DEFINE T == {g \in DOMAIN past : ~ /\ OfSample'[g] = OfSample[g]
                                       /\ ServiceOfRoot'[g] = ServiceOfRoot[g]}
<1> SUFFICES ASSUME T # {} PROVE FALSE
  OBVIOUS
<1>3. PICK g \in T : \A h \in T : g <= h
  <2>1. T \in SUBSET Nat
    BY HistoryTypes DEF History
  <2> HIDE DEF T
  <2> QED
    BY <2>1, Least
<1>4. g \in DOMAIN past /\ g \in DOMAIN past' /\ past'[g] = past[g]
  BY DEF Grows
<1>5. \A h \in DOMAIN past : h < g => /\ OfSample'[h] = OfSample[h]
                                      /\ ServiceOfRoot'[h] = ServiceOfRoot[h]
  <2>1. \A h \in DOMAIN past : h \in Nat
    BY HistoryTypes DEF History
  <2> QED
    BY <1>3, <1>4, <2>1
<1>6. g \in Creations => /\ past[g].parent # SCM =>
                              past[g].parent \in DOMAIN past /\ past[g].parent < g
  BY HistoryTypes DEF History, ParentsAreOlder
<1>7. \A s \in Installations : s < g => past[s].by \in DOMAIN past /\ past[s].by < g
  BY HistoryTypes, <1>4 DEF History, InstallersAreOlder, Creations
<1>8. \A s : s \in Installations /\ s < g <=> s \in Installations' /\ s < g
  <2>1. \A s \in DOMAIN past' : s < g => s \in DOMAIN past
    <3>1. /\ DOMAIN past = 1..Len(past) /\ Len(past) \in Nat
          /\ DOMAIN past' = 1..Len(past') /\ Len(past') \in Nat
      BY HistoryTypes DEF History
    <3> QED
      BY <1>4, <3>1
  <2>2. \A s \in Installations' : s \in DOMAIN past'
    BY DEF Installations
  <2>3. \A s \in Installations : s \in DOMAIN past
    BY DEF Installations
  <2> QED
    BY <2>1, <2>2, <2>3, GrowsKeepsKinds
<1>9. g \in Creations' <=> g \in Creations
  BY <1>4, GrowsKeepsKinds
<1>10. \A s \in Installations : past'[s] = past[s]
  BY DEF Grows, Installations
<1>11. SampleCause(OfSample, g)' <=> SampleCause(OfSample, g)
  BY <1>4, <1>5, <1>6, <1>7, <1>8, <1>9, <1>10 DEF SampleCause
<1>12. RootCause(ServiceOfRoot, g)' <=> RootCause(ServiceOfRoot, g)
  BY <1>4, <1>5, <1>6, <1>7, <1>8, <1>9, <1>10 DEF RootCause
<1>13. OfSample'[g] = OfSample[g]
  <2>1. OfSample[g] \in BOOLEAN /\ OfSample'[g] \in BOOLEAN
    BY <1>2, <1>4 DEF OfSampleEq
  <2>2. OfSample[g] = SampleCause(OfSample, g) /\ OfSample'[g] = SampleCause(OfSample, g)'
    BY <1>2, <1>4 DEF OfSampleEq
  <2> QED
    BY <1>11, <2>1, <2>2
<1>14. ServiceOfRoot'[g] = ServiceOfRoot[g]
  <2>1. ServiceOfRoot[g] \in BOOLEAN /\ ServiceOfRoot'[g] \in BOOLEAN
    BY <1>2, <1>4 DEF ServiceOfRootEq
  <2>2. /\ ServiceOfRoot[g] = RootCause(ServiceOfRoot, g)
        /\ ServiceOfRoot'[g] = RootCause(ServiceOfRoot, g)'
    BY <1>2, <1>4 DEF ServiceOfRootEq
  <2> QED
    BY <1>12, <2>1, <2>2
<1> QED
  BY <1>13, <1>14

-----------------------------------------------------------------------------
(* The types, and the history itself. *)

\* What TypeOK says of the world and the channels, and of what is made of them.
WorldTypes ==
  /\ past \in Seq(Happening) /\ Len(past) \in Time
  /\ alive \subseteq Creations /\ seen \subseteq DOMAIN past
  /\ graphed \subseteq seen
Entry == [born : Time \cup {None}, guid : Time \cup {None},
          role : {"none", "root", "child"} \cup ServiceRole, verified : BOOLEAN]
LineageTypes == lineage \in [Pid -> Entry]
LinkTypes ==
  /\ todo \subseteq [process : Creations, role : ServiceRole]
  /\ link \in [at : {"idle", "probe", "write"}, process : Creations \cup {None},
               role : {"none"} \cup ServiceRole, verified : BOOLEAN,
               before : Time \cup {None}]
FlagTypes ==
  /\ grace \in {"none", "running", "over"}
  /\ watched \in Creations \cup {None}
  /\ stopping \in BOOLEAN /\ blind \in BOOLEAN /\ raced \in BOOLEAN
Types == WorldTypes /\ LineageTypes /\ LinkTypes /\ FlagTypes

LEMMA TypesAreTypeOK == TypeOK <=> Types
  BY DEF TypeOK, Types, WorldTypes, LineageTypes, Entry, LinkTypes, FlagTypes

LEMMA TimesAndPlaces ==
  ASSUME WorldTypes
  PROVE  /\ MaxTime \in Nat \ {0} /\ DOMAIN past = 1..Len(past) /\ DOMAIN past \subseteq Time
         /\ Creations \subseteq DOMAIN past /\ alive \subseteq DOMAIN past
         /\ 0 \notin DOMAIN past /\ Time \subseteq Nat
  BY ServiceConstants, HistoryTypes DEF WorldTypes, Time, Creations

\* A step of the world, with the one event that it may add.
LEMMA CreateGrows ==
  ASSUME WorldTypes, NEW p \in Pid, NEW parent \in alive \cup {SCM},
         NEW image \in Image \cup {NoImage}, Create(p, parent, image)
  PROVE  LET g == Len(past')
             e == [kind |-> "create", pid |-> p, parent |-> parent, image |-> image]
         IN  /\ Grows /\ WorldTypes' /\ past' = Append(past, e) /\ past'[g] = e
             /\ g = Len(past) + 1 /\ g \in Nat /\ g \notin DOMAIN past
             /\ DOMAIN past' = DOMAIN past \cup {g}
             /\ Creations' = Creations \cup {g} /\ Installations' = Installations
             /\ \A h \in DOMAIN past : PidOf(h)' = PidOf(h)
             /\ alive' = alive \cup {g}
<1> DEFINE g == Len(past')
           e == [kind |-> "create", pid |-> p, parent |-> parent, image |-> image]
<1>1. past \in Seq(Happening) /\ past' = Append(past, e) /\ Len(past) < MaxTime
  BY DEF WorldTypes, Create, Happens
<1>2. e \in Happening /\ e.kind = "create"
  <2>1. parent \in 0..MaxTime
    BY TimesAndPlaces DEF SCM, Time
  <2> QED
    BY <2>1 DEF Happening
<1> HIDE DEF e
<1>3. /\ Grows /\ past' \in Seq(Happening) /\ g = Len(past) + 1
      /\ DOMAIN past' = DOMAIN past \cup {g} /\ past'[g] = e /\ g \notin DOMAIN past
      /\ Creations' = Creations \cup {g} /\ Installations' = Installations
      /\ \A h \in DOMAIN past : PidOf(h)' = PidOf(h)
  BY <1>1, <1>2, GrowsByOne
<1>4. alive' = alive \cup {g}
  BY DEF Create
<1>5. g \in Time /\ g \in Nat
  BY <1>1, <1>3, ServiceConstants DEF WorldTypes, Time
<1>6. WorldTypes'
  BY <1>3, <1>4, <1>5 DEF WorldTypes, Create, graph
<1> QED
  BY <1>1, <1>3, <1>4, <1>5, <1>6 DEF e

LEMMA InstallGrows ==
  ASSUME WorldTypes, NEW by \in alive, NEW name \in Name, NEW image \in Image,
         Install(by, name, image)
  PROVE  LET s == Len(past')
             e == [kind |-> "install", by |-> by, name |-> name, image |-> image]
         IN  /\ Grows /\ WorldTypes' /\ past' = Append(past, e) /\ past'[s] = e
             /\ s = Len(past) + 1 /\ s \in Nat /\ s \notin DOMAIN past
             /\ DOMAIN past' = DOMAIN past \cup {s}
             /\ Creations' = Creations /\ Installations' = Installations \cup {s}
             /\ \A h \in DOMAIN past : PidOf(h)' = PidOf(h)
             /\ alive' = alive
<1> DEFINE s == Len(past')
           e == [kind |-> "install", by |-> by, name |-> name, image |-> image]
<1>1. past \in Seq(Happening) /\ past' = Append(past, e) /\ Len(past) < MaxTime
  BY DEF WorldTypes, Install, Happens
<1>2. e \in Happening /\ e.kind # "create"
  <2>1. by \in Time
    BY TimesAndPlaces
  <2> QED
    BY <2>1 DEF Happening
<1> HIDE DEF e
<1>3. /\ Grows /\ past' \in Seq(Happening) /\ s = Len(past) + 1
      /\ DOMAIN past' = DOMAIN past \cup {s} /\ past'[s] = e /\ s \notin DOMAIN past
      /\ Creations' = Creations /\ Installations' = Installations \cup {s}
      /\ \A h \in DOMAIN past : PidOf(h)' = PidOf(h)
  BY <1>1, <1>2, GrowsByOne
<1>4. alive' = alive
  BY DEF Install
<1>5. s \in Time /\ s \in Nat
  BY <1>1, <1>3, ServiceConstants DEF WorldTypes, Time
<1>6. WorldTypes'
  BY <1>3, <1>4, <1>5 DEF WorldTypes, Install, graph
<1> QED
  BY <1>1, <1>3, <1>4, <1>5, <1>6 DEF e

\* What the graph makes of the events has its types.
LEMMA GraphTypes ==
  ASSUME Types
  PROVE  /\ Identified \in [Pid -> Entry]
         /\ \A known : Links(known) \subseteq [process : Creations, role : ServiceRole]
<1>1. Identified \in [Pid -> Entry]
  <2>1. seen \subseteq Time
    BY TimesAndPlaces DEF Types, WorldTypes
  <2>2. \A p \in Pid : Identified[p] \in Entry
    BY <2>1 DEF Types, LineageTypes, Entry, Identified
  <2> QED
    BY <2>2 DEF Identified
<1>2. ASSUME NEW known PROVE Links(known) \subseteq [process : Creations, role : ServiceRole]
  BY DEF Links, Family, ServiceRole
<1> QED
  BY <1>1, <1>2

\* What an event writes that names an entry: its ProcessGuid, of its own process or
\* of another.
LEMMA NameWrites ==
  ASSUME LineageTypes, WorldTypes, blind \in BOOLEAN, NEW g \in Creations, NameEntry(g)
  PROVE  /\ lineage' \in [Pid -> Entry] /\ blind' \in BOOLEAN
         /\ ~blind' => ~blind /\ lineage[PidOf(g)].born = g
         /\ \A p \in Pid : /\ lineage'[p].born = lineage[p].born
                           /\ lineage'[p].role = lineage[p].role
                           /\ lineage'[p].verified = lineage[p].verified
                           /\ ~blind' => lineage'[p].guid \in {lineage[p].guid, lineage[p].born}
<1>1. PidOf(g) \in Pid /\ g \in Time
  BY HistoryTypes, TimesAndPlaces DEF WorldTypes
<1>2. lineage[PidOf(g)] \in Entry
  BY <1>1 DEF LineageTypes
<1>3. /\ lineage' = [lineage EXCEPT ![PidOf(g)] = [lineage[PidOf(g)] EXCEPT !.guid = g]]
      /\ blind' = (blind \/ lineage[PidOf(g)].born # g)
  BY DEF NameEntry
<1> DEFINE entry == [lineage[PidOf(g)] EXCEPT !.guid = g]
<1>4. /\ entry \in Entry /\ entry.guid = g /\ entry.born = lineage[PidOf(g)].born
      /\ entry.role = lineage[PidOf(g)].role /\ entry.verified = lineage[PidOf(g)].verified
  BY <1>1, <1>2 DEF Entry
<1> HIDE DEF entry
<1>5. /\ lineage' \in [Pid -> Entry] /\ lineage'[PidOf(g)] = entry
      /\ \A p \in Pid : p # PidOf(g) => lineage'[p] = lineage[p]
  BY <1>1, <1>3, <1>4 DEF LineageTypes, entry
<1> QED
  BY <1>1, <1>3, <1>4, <1>5

LEMMA ProbeTells ==
  ASSUME Probe
  PROVE  \E verified \in BOOLEAN : link' = [link EXCEPT !.at = "write", !.verified = verified]
<1>1. PICK verified \in {FALSE, link.process \in alive} :
        link' = [link EXCEPT !.at = "write", !.verified = verified]
  BY Zenon DEF Probe
<1>2. (link.process \in alive) \in BOOLEAN
  OBVIOUS
<1>3. verified \in BOOLEAN
  BY <1>2, Zenon
<1> QED
  BY <1>1, <1>3, Zenon

LEMMA TypesKept ==
  ASSUME Types, [Next]_vars
  PROVE  Types'
<1> USE DEF Types
<1>1. ASSUME NEW p \in Pid, NEW parent \in alive \cup {SCM},
             NEW image \in Image \cup {NoImage}, Create(p, parent, image)
      PROVE  Types'
  <2>1. WorldTypes' /\ Creations \subseteq Creations'
    BY <1>1, CreateGrows
  <2> QED
    BY <1>1, <2>1 DEF Create, graph, LineageTypes, LinkTypes, FlagTypes, Entry, Time
<1>2. ASSUME NEW g \in alive, NEW name \in Name, NEW image \in Image, Install(g, name, image)
      PROVE  Types'
  <2>1. WorldTypes' /\ Creations \subseteq Creations'
    BY <1>2, InstallGrows
  <2> QED
    BY <1>2, <2>1 DEF Install, graph, LineageTypes, LinkTypes, FlagTypes, Entry, Time
<1> DEFINE Stays == past' = past /\ Creations' = Creations
<1>3. ASSUME past' = past PROVE Stays
  BY <1>3 DEF Creations
<1>4. ASSUME NEW g \in alive, Exit(g) \/ Look(g) PROVE Types'
  <2>1. Stays /\ g \in Creations
    BY <1>3, <1>4 DEF Exit, Look, world, WorldTypes
  <2>2. WorldTypes' /\ LineageTypes' /\ LinkTypes' /\ FlagTypes'
    BY <1>4, <2>1 DEF Exit, Look, world, graph, WorldTypes, LineageTypes, Entry, LinkTypes,
                      FlagTypes, Time
  <2> QED
    BY <2>2
<1>5. ASSUME NEW e \in DOMAIN past, Deliver(e) PROVE Types'
  <2>1. Stays
    BY <1>3, <1>5 DEF Deliver, world
  <2>2. WorldTypes' /\ LinkTypes'
    BY <1>5, <2>1 DEF Deliver, world, graph, WorldTypes, LinkTypes, Time
  <2>3. LineageTypes' /\ FlagTypes'
    <3>1. CASE UNCHANGED <<lineage, blind>>
      BY <1>5, <2>1, <3>1 DEF Deliver, graph, LineageTypes, Entry, FlagTypes, Time
    <3>2. CASE NameEntry(e) /\ e \in Creations
      BY <1>5, <2>1, <3>2, NameWrites DEF Deliver, graph, LineageTypes, Entry, FlagTypes, Time
    <3> QED
      BY <1>5, <3>1, <3>2 DEF Deliver
  <2> QED
    BY <2>2, <2>3
<1>11. ASSUME NEW g \in DOMAIN past, Learn(g) PROVE Types'
  <2>1. Stays /\ g \in Creations /\ NameEntry(g)
    BY <1>3, <1>11 DEF Learn, world
  <2> QED
    BY <1>11, <2>1, NameWrites DEF Learn, world, graph, WorldTypes, LineageTypes, Entry,
                                   LinkTypes, FlagTypes, Time
<1>6. ASSUME Reconcile PROVE Types'
  <2>1. Stays
    BY <1>3, <1>6 DEF Reconcile, world
  <2>2. WorldTypes'
    BY <1>6, <2>1 DEF Reconcile, world, WorldTypes
  <2>3. LineageTypes'
    BY <1>6, GraphTypes DEF Reconcile, LineageTypes, Entry
  <2>4. LinkTypes'
    BY <1>6, <2>1, GraphTypes DEF Reconcile, LinkTypes, Time
  <2>5. FlagTypes'
    BY <1>6, <2>1 DEF Reconcile, FlagTypes, Missing
  <2> QED
    BY <2>2, <2>3, <2>4, <2>5
<1>7. ASSUME Age \/ Stop \/ Probe \/ \E l \in todo : Consider(l) PROVE Types'
  <2>1. Stays
    BY <1>3, <1>7 DEF Age, Stop, Probe, Consider, world
  <2>2. WorldTypes' /\ LineageTypes' /\ FlagTypes'
    BY <1>7, <2>1 DEF Age, Stop, Probe, Consider, world, graph, WorldTypes, LineageTypes,
                      Entry, FlagTypes, Time
  <2>3. LinkTypes'
    <3>1. CASE Age \/ Stop
      BY <2>1, <3>1 DEF Age, Stop, graph, LinkTypes, Time
    <3>2. CASE Probe
      <4>1. PICK verified \in BOOLEAN :
              link' = [link EXCEPT !.at = "write", !.verified = verified]
        BY <3>2, ProbeTells
      <4>2. todo' = todo
        BY <3>2 DEF Probe
      <4> QED
        BY <2>1, <4>1, <4>2 DEF LinkTypes, Time
    <3>3. ASSUME NEW l \in todo, Consider(l) PROVE LinkTypes'
      <4>1. l.process \in Creations /\ l.role \in ServiceRole
        BY DEF LinkTypes
      <4>2. PidOf(l.process) \in Pid
        BY <4>1, HistoryTypes DEF WorldTypes
      <4>3. lineage[PidOf(l.process)].born \in Time \cup {None}
        BY <4>2 DEF LineageTypes, Entry
      <4> QED
        BY <2>1, <3>3, <4>1, <4>3 DEF Consider, LinkTypes, NoLink, Time
    <3> QED
      BY <1>7, <3>1, <3>2, <3>3
  <2> QED
    BY <2>2, <2>3
<1>8. ASSUME Enroll PROVE Types'
  <2>1. Stays
    BY <1>3, <1>8 DEF Enroll, world
  <2>2. WorldTypes' /\ LinkTypes'
    BY <1>8, <2>1 DEF Enroll, world, WorldTypes, LinkTypes, NoLink, Time
  <2>3. FlagTypes'
    BY <1>8, <2>1 DEF Enroll, FlagTypes, StillAlive
  <2>4. LineageTypes'
    <3>1. /\ link.process \in Time \cup {None} /\ link.role \in {"none"} \cup ServiceRole
          /\ link.verified \in BOOLEAN
      BY TimesAndPlaces DEF LinkTypes
    <3> QED
      BY <1>8, <3>1 DEF Enroll, LineageTypes, Entry
  <2> QED
    BY <2>2, <2>3, <2>4
<1>9. ASSUME Watch PROVE Types'
  <2>1. Stays
    BY <1>3, <1>9 DEF Watch, world
  <2>2. WorldTypes' /\ LinkTypes'
    BY <1>9, <2>1 DEF Watch, world, graph, WorldTypes, LinkTypes, Time
  <2>3. FlagTypes'
    BY <1>9, <2>1 DEF Watch, graph, FlagTypes, StillAlive
  <2>4. LineageTypes'
    <3>1. watched \in Time
      BY <1>9, TimesAndPlaces DEF FlagTypes, Watch
    <3> QED
      <4>1. [born |-> watched, role |-> "child", guid |-> None, verified |-> FALSE] \in Entry
        BY <3>1 DEF Entry
      <4>2. \/ lineage' = lineage
            \/ lineage' = [lineage EXCEPT ![PidOf(watched)] =
                   [born |-> watched, role |-> "child", guid |-> None, verified |-> FALSE]]
        BY <1>9 DEF Watch
      <4>3. Entry' = Entry
        BY DEF Entry
      <4> HIDE DEF Entry
      <4> QED
        BY <4>1, <4>2, <4>3 DEF LineageTypes
  <2> QED
    BY <2>2, <2>3, <2>4
<1>10. CASE UNCHANGED vars
  <2>1. Stays
    BY <1>3, <1>10 DEF vars, world
  <2> QED
    BY <1>10, <2>1 DEF vars, world, graph, WorldTypes, LineageTypes, Entry, LinkTypes,
                       FlagTypes, Time
<1> QED
  BY <1>1, <1>2, <1>4, <1>5, <1>6, <1>7, <1>8, <1>9, <1>10, <1>11 DEF Next

\* The steps of the world: no other touches what has happened.
Rests == past' = past /\ alive' \subseteq alive

LEMMA WorldSteps ==
  ASSUME [Next]_vars
  PROVE  \/ \E p \in Pid, parent \in alive \cup {SCM}, image \in Image \cup {NoImage} :
              Create(p, parent, image)
         \/ \E g \in alive, n \in Name, i \in Image : Install(g, n, i)
         \/ Rests
  BY DEF Next, vars, world, Exit, Look, Deliver, Learn, Consider, Reconcile, Age, Probe, Enroll,
         Watch, Stop, Rests

LEMMA RestsKeepsHistory ==
  ASSUME HistoryInv, Rests
  PROVE  HistoryInv'
  BY DEF Rests, HistoryInv, ParentsAreOlder, InstallersAreOlder, LatestLives, SampleIsFirst,
         Creations, Installations, PidOf

LEMMA CreateKeepsHistory ==
  ASSUME WorldTypes, HistoryInv, NEW p \in Pid, NEW parent \in alive \cup {SCM},
         NEW image \in Image \cup {NoImage}, Create(p, parent, image)
  PROVE  HistoryInv'
<1> DEFINE n == Len(past')
<1>1. /\ Grows /\ n = Len(past) + 1 /\ n \in Nat /\ n \notin DOMAIN past
      /\ Creations' = Creations \cup {n} /\ Installations' = Installations
      /\ past'[n].pid = p /\ past'[n].parent = parent /\ alive' = alive \cup {n}
      /\ \A h \in DOMAIN past : past'[h] = past[h]
  <2>1. past'[n] = [kind |-> "create", pid |-> p, parent |-> parent, image |-> image]
    BY CreateGrows
  <2>2. past'[n].pid = p /\ past'[n].parent = parent
    BY <2>1
  <2>3. /\ Grows /\ n = Len(past) + 1 /\ n \in Nat /\ n \notin DOMAIN past
        /\ Creations' = Creations \cup {n} /\ Installations' = Installations
        /\ alive' = alive \cup {n}
    BY CreateGrows
  <2> QED
    BY <2>2, <2>3 DEF Grows
<1>2. /\ DOMAIN past = 1..Len(past) /\ Len(past) \in Nat /\ Creations \subseteq DOMAIN past
      /\ Installations \subseteq DOMAIN past /\ alive \subseteq Creations
  BY TimesAndPlaces, HistoryTypes DEF WorldTypes
<1> HIDE DEF n
<1>3. ParentsAreOlder'
  <2>1. parent < n /\ (parent # SCM => parent \in Creations)
    BY <1>1, <1>2 DEF SCM
  <2> QED
    BY <1>1, <1>2, <2>1 DEF HistoryInv, ParentsAreOlder
<1>4. InstallersAreOlder'
  <2>1. \A s \in Installations : ~(n < s)
    BY <1>1, <1>2
  <2> QED
    BY <1>1, <1>2, <2>1 DEF HistoryInv, InstallersAreOlder, PidOf
<1>5. LatestLives'
  <2>1. \A a \in alive : past[a].pid # p
    BY DEF Create, PidOf
  <2>2. \A h \in Creations : h <= n
    BY <1>1, <1>2
  <2> QED
    BY <1>1, <1>2, <2>1, <2>2 DEF HistoryInv, LatestLives, PidOf
<1>6. SampleIsFirst'
  BY <1>1, <1>2 DEF HistoryInv, SampleIsFirst, PidOf
<1> QED
  BY <1>3, <1>4, <1>5, <1>6 DEF HistoryInv

LEMMA InstallKeepsHistory ==
  ASSUME WorldTypes, HistoryInv, NEW by \in alive, NEW name \in Name, NEW image \in Image,
         Install(by, name, image)
  PROVE  HistoryInv'
<1> DEFINE n == Len(past')
<1>1. /\ Grows /\ n = Len(past) + 1 /\ n \in Nat /\ n \notin DOMAIN past
      /\ Creations' = Creations /\ Installations' = Installations \cup {n}
      /\ past'[n].by = by /\ alive' = alive
      /\ \A h \in DOMAIN past : past'[h] = past[h]
  <2>1. past'[n] = [kind |-> "install", by |-> by, name |-> name, image |-> image]
    BY InstallGrows
  <2>2. past'[n].by = by
    BY <2>1
  <2>3. /\ Grows /\ n = Len(past) + 1 /\ n \in Nat /\ n \notin DOMAIN past
        /\ Creations' = Creations /\ Installations' = Installations \cup {n}
        /\ alive' = alive
    BY InstallGrows
  <2> QED
    BY <2>2, <2>3 DEF Grows
<1>2. /\ DOMAIN past = 1..Len(past) /\ Len(past) \in Nat /\ Creations \subseteq DOMAIN past
      /\ Installations \subseteq DOMAIN past /\ alive \subseteq Creations
  BY TimesAndPlaces, HistoryTypes DEF WorldTypes
<1> HIDE DEF n
<1>3. ParentsAreOlder' /\ LatestLives' /\ SampleIsFirst'
  BY <1>1, <1>2 DEF HistoryInv, ParentsAreOlder, LatestLives, SampleIsFirst, PidOf
<1>4. InstallersAreOlder'
  <2>1. by \in Creations /\ by < n
    BY <1>1, <1>2
  <2>2. \A h \in Creations : PidOf(h) = PidOf(by) => h <= by
    BY DEF HistoryInv, LatestLives
  <2>3. \A s \in Installations : past[s].by \in Creations
    BY DEF HistoryInv, InstallersAreOlder
  <2> QED
    BY <1>1, <1>2, <2>1, <2>2, <2>3 DEF HistoryInv, InstallersAreOlder, PidOf
<1> QED
  BY <1>3, <1>4 DEF HistoryInv

\* A step keeps the history, and what is said of it.
LEMMA PastKept ==
  ASSUME Types, HistoryInv, [Next]_vars
  PROVE  /\ HistoryInv' /\ History /\ History' /\ Grows
         /\ \A g \in DOMAIN past : /\ OfSample'[g] = OfSample[g]
                                   /\ ServiceOfRoot'[g] = ServiceOfRoot[g]
<1>1. HistoryInv' /\ Grows
  <2>1. ASSUME NEW p \in Pid, NEW parent \in alive \cup {SCM},
               NEW image \in Image \cup {NoImage}, Create(p, parent, image)
        PROVE  HistoryInv' /\ Grows
    BY <2>1, CreateKeepsHistory, CreateGrows DEF Types
  <2>2. ASSUME NEW g \in alive, NEW n \in Name, NEW i \in Image, Install(g, n, i)
        PROVE  HistoryInv' /\ Grows
    BY <2>2, InstallKeepsHistory, InstallGrows DEF Types
  <2>3. CASE Rests
    BY <2>3, RestsKeepsHistory DEF Rests, Grows
  <2> QED
    BY <2>1, <2>2, <2>3, WorldSteps
<1>2. Types'
  BY TypesKept
<1>3. History /\ History'
  BY <1>1, <1>2 DEF History, Types, WorldTypes, HistoryInv
<1> QED
  BY <1>1, <1>3, SampleIsKept

-----------------------------------------------------------------------------
(* What correlate() finds. *)

\* Who installed a service is found by its identifier, once its creation is seen.
LEMMA LastKnownIs ==
  ASSUME WorldTypes, HistoryInv, NEW s \in Installations, past[s].by \in seen
  PROVE  LastKnown(PidOf(past[s].by), s) = past[s].by
<1> DEFINE by == past[s].by
           born == {g \in Creations \cap seen : PidOf(g) = PidOf(by) /\ g <= s}
<1>1. by \in Creations /\ by < s /\ s \in Nat /\ s \notin Creations
  BY TimesAndPlaces, HistoryTypes DEF HistoryInv, InstallersAreOlder, Installations
<1>2. by \in born
  BY <1>1, TimesAndPlaces
<1>3. \A h \in born : h \in Nat /\ h <= by
  <2> SUFFICES ASSUME NEW h \in born PROVE h \in Nat /\ h <= by
    OBVIOUS
  <2>1. h \in Creations /\ h \in Nat /\ h <= s /\ h # s
    BY <1>1, TimesAndPlaces
  <2> QED
    BY <1>1, <2>1 DEF HistoryInv, InstallersAreOlder
<1>4. by \in Nat
  BY <1>2, <1>3
<1>5. LastKnown(PidOf(by), s) = CHOOSE g \in born : \A h \in born : h <= g
  BY <1>2 DEF LastKnown
<1>6. \A g \in born : (\A h \in born : h <= g) => g = by
  BY <1>2, <1>3, <1>4
<1> HIDE DEF born
<1> QED
  BY <1>2, <1>3, <1>5, <1>6

\* A service is younger than an installation of its executable by a tracked process.
LEMMA ServicesAreInstalled ==
  ASSUME WorldTypes, NEW known, NEW g \in Services(known)
  PROVE  /\ g \in Creations \cap seen /\ past[g].parent = SCM
         /\ \E s \in Anchors(known) : s < g /\ past[s].image = past[g].image
<1> DEFINE found == Candidates(g, Anchors(known))
<1>1. /\ g \in Creations \cap seen /\ past[g].parent = SCM
      /\ Cardinality(found) = 1
  BY DEF Services
<1>2. PICK s \in found : TRUE
  <2>1. Cardinality({}) = 0
    BY FS_EmptySet
  <2> HIDE DEF found
  <2> QED
    BY <1>1, <2>1
<1>3. s \in Anchors(known) /\ s <= g /\ past[s].image = past[g].image
  BY <1>2 DEF Candidates
<1>4. s # g /\ s \in Nat /\ g \in Nat
  BY <1>1, <1>3, TimesAndPlaces, HistoryTypes DEF Anchors, Installations, WorldTypes
<1> QED
  BY <1>1, <1>3, <1>4

\* The sample is no service, nor a descendant of one.
LEMMA SampleIsNoService ==
  ASSUME Types, HistoryInv, NEW known, NEW l \in Links(known)
  PROVE  l.process # 1
<1>1. l.process \in Family(Services(known))
  BY DEF Links
<1> SUFFICES ASSUME 1 \in Family(Services(known)) PROVE FALSE
  BY <1>1
<1>2. 1 \in Services(known)
  BY FamilyIs DEF HistoryInv, SampleIsFirst, History, Types, WorldTypes
<1>3. PICK s \in Anchors(known) : s < 1
  BY <1>2, ServicesAreInstalled DEF Types
<1>4. s \in Nat \ {0}
  BY <1>3, TimesAndPlaces DEF Anchors, Types, Installations
<1> QED
  BY <1>3, <1>4

\* An anchor was installed by the process of the entry with that identifier, unless
\* the creation of that process is missing or the entry is named after another.
LEMMA AnchorsAreTracked ==
  ASSUME Types, HistoryInv, EntryInv, ~blind, ~Missing, NEW s \in Anchors(Identified)
  PROVE  /\ s \in Installations /\ lineage[PidOf(past[s].by)].born = past[s].by
         /\ past[s].by \in Creations
<1> DEFINE by == past[s].by
           p == PidOf(by)
<1>1. s \in Installations /\ s \in seen /\ Tracked(p, s, Identified)
  BY DEF Anchors
<1>2. by \in Creations /\ by < s /\ p \in Pid
  BY <1>1, HistoryTypes DEF HistoryInv, InstallersAreOlder, Types, WorldTypes
<1>3. by \in seen
  BY <1>1, <1>2 DEF Missing
<1>4. LastKnown(p, s) = by
  BY <1>1, <1>3, LastKnownIs DEF Types
<1>5. Identified[p].guid = by
  BY <1>1, <1>4 DEF Tracked
<1>6. by # None
  BY <1>2, TimesAndPlaces DEF None, Types
<1>7. Identified[p].guid = lineage[p].guid \/ Identified[p].guid = lineage[p].born
  BY <1>2 DEF Identified, Types, LineageTypes, Entry
<1>8. lineage[p].guid \in {None, lineage[p].born}
  BY <1>2 DEF EntryInv, EntryOf
<1> QED
  BY <1>1, <1>2, <1>5, <1>6, <1>7, <1>8

LEMMA ServicesAreSample ==
  ASSUME Types, HistoryInv, EntryInv, SampleInv, ~blind, ~Missing,
         NEW g \in Services(Identified)
  PROVE  OfSample[g]
<1>1. /\ g \in Creations
      /\ \E s \in Anchors(Identified) : s < g /\ past[s].image = past[g].image
  BY ServicesAreInstalled DEF Types
<1>2. PICK s \in Anchors(Identified) : s < g /\ past[s].image = past[g].image
  BY <1>1
<1> DEFINE by == past[s].by
<1>3. s \in Installations /\ lineage[PidOf(by)].born = by /\ by \in Creations
  BY <1>2, AnchorsAreTracked
<1>4. PidOf(by) \in Pid /\ by # None
  BY <1>3, HistoryTypes, TimesAndPlaces DEF Types, WorldTypes, None
<1>5. OfSample[by]
  BY <1>3, <1>4 DEF SampleInv
<1>6. History /\ g \in DOMAIN past
  BY <1>1, TimesAndPlaces DEF History, HistoryInv, Types, WorldTypes
<1>7. SampleCause(OfSample, g)
  BY <1>1, <1>2, <1>3, <1>5 DEF SampleCause
<1> QED
  BY <1>6, <1>7, OfSampleIs DEF OfSampleEq

LEMMA FamilyIsSample ==
  ASSUME History, NEW services, \A g \in services : OfSample[g]
  PROVE  \A g \in Family(services) : OfSample[g]
<1> DEFINE T == {g \in Family(services) : ~OfSample[g]}
<1> SUFFICES ASSUME T # {} PROVE FALSE
  OBVIOUS
<1>1. /\ T \in SUBSET Nat /\ \A g \in Family(services) : g \in Creations /\ g \in DOMAIN past
  BY HistoryTypes DEF Family, History
<1>2. PICK g \in T : \A h \in T : g <= h
  <2> HIDE DEF T
  <2> QED
    BY <1>1, Least
<1> DEFINE m == past[g].parent
<1>3. g \in Creations /\ g \in DOMAIN past /\ m # SCM /\ m \in Family(services)
  BY <1>1, FamilyIs
<1>4. m < g
  BY <1>3 DEF History, ParentsAreOlder
<1>5. OfSample[m]
  BY <1>1, <1>2, <1>3, <1>4
<1>6. SampleCause(OfSample, g)
  BY <1>3, <1>5 DEF SampleCause
<1> QED
  BY <1>3, <1>6, OfSampleIs DEF OfSampleEq

\* With the sample's own entry in place, what it installed is an anchor.
LEMMA RootAnchors ==
  ASSUME Types, HistoryInv, EntryInv, ~blind, lineage[RootPid].born = 1, seen = DOMAIN past,
         NEW s \in Installations, past[s].by = 1
  PROVE  s \in Anchors(Identified)
<1>1. s \in DOMAIN past /\ s \in Nat /\ 1 < s /\ 1 \in seen /\ PidOf(1) = RootPid
  BY HistoryTypes, TimesAndPlaces
  DEF Types, WorldTypes, HistoryInv, InstallersAreOlder, SampleIsFirst
<1>2. LastKnown(RootPid, s) = 1
  BY <1>1, LastKnownIs DEF Types
<1>3. RootPid \in Pid
  BY ServiceConstants
<1>4. lineage[RootPid].guid \in {None, 1} /\ lineage[RootPid] \in Entry
  BY <1>3 DEF EntryInv, EntryOf, Types, LineageTypes
<1>5. Identified[RootPid].guid = 1 /\ Identified[RootPid].born = 1
  BY <1>1, <1>3, <1>4 DEF Identified, Entry
<1>6. Tracked(RootPid, s, Identified)
  BY <1>1, <1>2, <1>5 DEF Tracked, None
<1> QED
  BY <1>1, <1>6 DEF Anchors

\* Of the installations of its executable, the last one before it is what a service
\* is linked to, if each executable has one name.
LEMMA OneCandidate ==
  ASSUME WorldTypes, OneNameEach, NEW anchors \in SUBSET Installations,
         NEW g \in Creations, \E s \in anchors : s < g /\ past[s].image = past[g].image
  PROVE  Cardinality(Candidates(g, anchors)) = 1
<1> DEFINE T == {s \in anchors : s <= g /\ past[s].image = past[g].image}
<1>1. T # {} /\ g \in Nat /\ T \in SUBSET (0..g) /\ Installations \subseteq Nat
  BY TimesAndPlaces, HistoryTypes DEF WorldTypes, Installations
<1>2. PICK t \in T : \A s \in T : s <= t
  <2> HIDE DEF T
  <2> QED
    BY <1>1, Greatest
<1>3. Candidates(g, anchors) = {t}
  <2>1. \A s \in T : past[s].name = past[t].name
    BY DEF OneNameEach
  <2>2. \A s \in anchors : s <= g /\ past[s].name = past[t].name => s \in T
    BY DEF OneNameEach
  <2>3. ASSUME NEW s \in Candidates(g, anchors) PROVE s = t
    <3>1. s \in T /\ t <= s
      BY <2>1, <2>3 DEF Candidates
    <3> QED
      BY <1>1, <1>2, <3>1
  <2>4. t \in Candidates(g, anchors)
    BY <1>2, <2>2 DEF Candidates
  <2> QED
    BY <2>3, <2>4
<1> QED
  BY <1>3, FS_Singleton

\* From all the events, the graph has every service of the sample's own, and all
\* that these have brought about.
LEMMA RootServicesAreFound ==
  ASSUME Types, HistoryInv, EntryInv, ~blind, lineage[RootPid].born = 1, seen = DOMAIN past,
         OneNameEach
  PROVE  \A g \in DOMAIN past : ServiceOfRoot[g] => g \in Family(Services(Identified))
<1> DEFINE services == Services(Identified)
           T == {g \in DOMAIN past : ServiceOfRoot[g] /\ g \notin Family(services)}
<1> SUFFICES ASSUME T # {} PROVE FALSE
  OBVIOUS
<1>1. History
  BY DEF History, HistoryInv, Types, WorldTypes
<1>2. PICK g \in T : \A h \in T : g <= h
  <2>1. T \in SUBSET Nat
    BY TimesAndPlaces DEF Types
  <2> HIDE DEF T
  <2> QED
    BY <2>1, Least
<1>3. RootCause(ServiceOfRoot, g)
  BY <1>1, ServiceOfRootIs DEF ServiceOfRootEq
<1>4. g \in Creations /\ g \in seen
  BY <1>3 DEF RootCause
<1>5. CASE past[g].parent = SCM
  <2>1. PICK s \in Installations : s < g /\ past[s].image = past[g].image /\ past[s].by = 1
    BY <1>3, <1>5 DEF RootCause
  <2>2. s \in Anchors(Identified)
    BY <2>1, RootAnchors
  <2>3. Anchors(Identified) \in SUBSET Installations
    BY DEF Anchors
  <2>4. Cardinality(Candidates(g, Anchors(Identified))) = 1
    BY <1>4, <2>1, <2>2, <2>3, OneCandidate DEF Types
  <2>5. g \in services
    BY <1>4, <1>5, <2>4 DEF Services
  <2> QED
    BY <1>1, <1>4, <2>5, FamilyIs
<1>6. CASE past[g].parent # SCM
  <2> DEFINE m == past[g].parent
  <2>1. ServiceOfRoot[m] /\ m < g /\ m \in DOMAIN past
    BY <1>1, <1>3, <1>4, <1>6, TimesAndPlaces DEF RootCause, History, ParentsAreOlder, Types
  <2>2. m \in Family(services)
    <3>1. m \in Nat /\ g \in Nat
      BY <2>1, TimesAndPlaces DEF Types
    <3> QED
      BY <1>2, <2>1, <3>1
  <2> QED
    BY <1>1, <1>4, <1>6, <2>2, FamilyIs
<1> QED
  BY <1>5, <1>6

-----------------------------------------------------------------------------
(* The steps, by what they change. *)

\* Who has ended does not live again, and who lives is not forgotten.
LEMMA NoneReturns ==
  ASSUME Types, [Next]_vars
  PROVE  \A g \in DOMAIN past : g \in alive' => g \in alive
<1>1. ASSUME NEW p \in Pid, NEW parent \in alive \cup {SCM},
             NEW image \in Image \cup {NoImage}, Create(p, parent, image)
      PROVE  \A g \in DOMAIN past : g \in alive' => g \in alive
  BY <1>1, CreateGrows DEF Types
<1>2. ASSUME NEW g \in alive, NEW n \in Name, NEW i \in Image, Install(g, n, i)
      PROVE  alive' = alive
  BY <1>2 DEF Install
<1> QED
  BY <1>1, <1>2, WorldSteps DEF Rests

\* An event that names an entry does nothing else to the lineage and the links.
Names == raced' = raced /\ \E g \in Creations : NameEntry(g)

\* Only a graph, an enrolment, the watcher and an event that names an entry write the
\* lineage, and only they may be blind or race.
LEMMA LineageSteps ==
  ASSUME [Next]_vars
  PROVE  \/ Reconcile \/ Enroll \/ Watch \/ Names
         \/ UNCHANGED <<lineage, blind, raced>>
<1>1. ASSUME NEW e \in DOMAIN past, Deliver(e) \/ Learn(e)
      PROVE  Names \/ UNCHANGED <<lineage, blind, raced>>
  BY <1>1 DEF Deliver, Learn, Names
<1> QED
  BY <1>1 DEF Next, vars, Create, Install, Exit, Look, Consider, Age, Probe, Stop

\* What goes blind stays so, and with it what has raced; an entry that is named is the
\* same but for its name.
LEMMA NamesKeep ==
  ASSUME Types, Names
  PROVE  \A p \in Pid : /\ lineage'[p].born = lineage[p].born
                        /\ lineage'[p].role = lineage[p].role
                        /\ ~blind' => lineage'[p].guid \in {lineage[p].guid, lineage[p].born}
  BY NameWrites DEF Names, Types, FlagTypes

LEMMA NoneSeesAgain ==
  ASSUME Types, [Next]_vars
  PROVE  (~blind' => ~blind) /\ (~raced' => ~raced)
  BY LineageSteps DEF Reconcile, Enroll, Watch, Names, NameEntry, Types, FlagTypes

\* Only _reconcile_service_lineage() has links.
LEMMA LinkSteps ==
  ASSUME [Next]_vars
  PROVE  \/ Reconcile \/ Enroll \/ Probe \/ \E l \in todo : Consider(l)
         \/ UNCHANGED <<todo, link>>
  BY DEF Next, vars, graph, Create, Install, Exit, Look, Deliver, Learn, Watch, Age, Stop

\* What the watcher writes, and on what ground.
LEMMA WatchWrites ==
  ASSUME Types, LinkInv, Watch, NEW p \in Pid, lineage'[p] # lineage[p]
  PROVE  LET parent == ParentEntry(watched)
         IN  /\ watched \in Creations /\ p = PidOf(watched) /\ past[watched].parent # SCM
             /\ lineage'[p] = [born |-> watched, role |-> "child", guid |-> None,
                               verified |-> FALSE]
             /\ parent.role # "none"
             /\ ~raced' => parent.role \notin ServiceRole /\ ~StillAlive(lineage[p])
             /\ ~blind' => parent.born = past[watched].parent
<1> DEFINE parent == ParentEntry(watched)
           q == PidOf(watched)
<1>1. /\ parent.role # "none"
      /\ lineage' = [lineage EXCEPT ![q] = [born |-> watched, role |-> "child", guid |-> None,
                                            verified |-> FALSE]]
      /\ raced' = (\/ raced \/ parent.role \in ServiceRole
                   \/ lineage[q].born = watched \/ StillAlive(lineage[q]))
      /\ blind' = (blind \/ parent.born # past[watched].parent)
  BY DEF Watch
<1>2. watched \in Creations /\ past[watched].parent # SCM
  BY DEF Watch, Types, FlagTypes, LinkInv
<1>3. p = q /\ lineage'[p] = [born |-> watched, role |-> "child", guid |-> None,
                              verified |-> FALSE]
  <2> HIDE DEF q
  <2> QED
    BY <1>1 DEF Types, LineageTypes
<1> HIDE DEF parent
<1>4. ~raced' => parent.role \notin ServiceRole /\ ~StillAlive(lineage[p])
  BY <1>1, <1>3
<1>5. ~blind' => parent.born = past[watched].parent
  BY <1>1
<1> QED
  BY <1>1, <1>2, <1>3, <1>4, <1>5 DEF parent

LEMMA EntryInvKept ==
  ASSUME Types, HistoryInv, EntryInv, LinkInv, [Next]_vars
  PROVE  EntryInv'
<1>1. /\ Creations \subseteq Creations'
      /\ \A g \in Creations : PidOf(g)' = PidOf(g) /\ g \in DOMAIN past
      /\ \A g \in Creations : g \in alive' => g \in alive
  BY PastKept, GrowsKeepsKinds, NoneReturns, TimesAndPlaces DEF Types
<1>2. /\ \A p \in Pid : lineage[p] \in Entry /\ EntryOf(p, lineage[p])
      /\ ~blind' => ~blind
  BY NoneSeesAgain DEF Types, LineageTypes, EntryInv
<1> SUFFICES ASSUME NEW p \in Pid PROVE EntryOf(p, lineage[p])'
  BY DEF EntryInv
<1>3. CASE /\ lineage'[p].born = lineage[p].born /\ lineage'[p].role = lineage[p].role
           /\ ~blind' => lineage'[p].guid \in {lineage[p].guid, lineage[p].born}
  <2>1. (lineage[p].born = None <=> lineage[p].role = "none")'
    BY <1>2, <1>3 DEF EntryOf
  <2>2. (lineage[p].born # None => lineage[p].born \in Creations /\ PidOf(lineage[p].born) = p)'
    BY <1>1, <1>2, <1>3 DEF EntryOf, PidOf
  <2>3. (~blind => lineage[p].guid \in {None, lineage[p].born})'
    BY <1>2, <1>3 DEF EntryOf
  <2> QED
    BY <2>1, <2>2, <2>3 DEF EntryOf
<1>4. CASE Reconcile
  BY <1>2, <1>3, <1>4 DEF Reconcile, Identified, Entry
<1>5. CASE Enroll /\ p = PidOf(link.process)
  <2>1. lineage'[p] = [born |-> link.process, role |-> link.role, guid |-> link.process,
                       verified |-> link.verified]
    BY <1>5 DEF Enroll, Types, LineageTypes
  <2>2. link.process \in Creations /\ link.role \in ServiceRole
    BY <1>5 DEF Enroll, LinkInv
  <2>3. link.process # None /\ link.role # "none"
    BY <2>2, TimesAndPlaces DEF None, ServiceRole, Types
  <2> QED
    BY <1>1, <1>5, <2>1, <2>2, <2>3 DEF EntryOf
<1>6. CASE Watch /\ p = PidOf(watched) /\ lineage' # lineage
  <2>1. lineage'[p] = [born |-> watched, role |-> "child", guid |-> None, verified |-> FALSE]
    BY <1>6 DEF Watch, Types, LineageTypes
  <2>2. watched \in Creations /\ watched # None
    BY <1>6 DEF Watch, Types, FlagTypes
  <2> QED
    BY <1>1, <1>6, <2>1, <2>2 DEF EntryOf, ServiceRole
<1>7. CASE Enroll /\ p # PidOf(link.process)
  BY <1>3, <1>7 DEF Enroll, Types, LineageTypes
<1>8. CASE Watch /\ (p # PidOf(watched) \/ lineage' = lineage)
  <2>1. lineage'[p] = lineage[p]
    BY <1>8 DEF Watch, Types, LineageTypes
  <2> QED
    BY <1>3, <2>1
<1> QED
  BY <1>3, <1>4, <1>5, <1>6, <1>7, <1>8, LineageSteps, NamesKeep

LEMMA LinkInvKept ==
  ASSUME Types, HistoryInv, EntryInv, LinkInv, [Next]_vars
  PROVE  LinkInv'
<1>1. /\ DOMAIN past \subseteq DOMAIN past' /\ Creations \subseteq Creations'
      /\ Creations \subseteq DOMAIN past
      /\ \A g \in DOMAIN past : past'[g] = past[g] /\ (g \in alive' => g \in alive)
  BY PastKept, GrowsKeepsKinds, NoneReturns, TimesAndPlaces DEF Types, Grows
<1>2. None \notin alive'
  <2>1. Types'
    BY TypesKept
  <2> QED
    BY <2>1 DEF Types, WorldTypes, Creations, None
<1>3. (watched # None => past[watched].parent # SCM)'
  <2>1. CASE watched' = watched
    <3>1. watched \in DOMAIN past \cup {None}
      BY TimesAndPlaces DEF Types, FlagTypes
    <3> QED
      BY <1>1, <2>1, <3>1 DEF LinkInv
  <2>2. ASSUME NEW g \in alive, Look(g)
        PROVE  (watched # None => past[watched].parent # SCM)'
    BY <2>2 DEF Look, world
  <2>3. watched' = watched \/ watched' = None \/ \E g \in alive : Look(g)
    BY DEF Next, vars, Create, Install, Exit, Deliver, Learn, Consider, Reconcile, Age, Probe,
           Enroll, Watch, Stop
  <2> QED
    BY <2>1, <2>2, <2>3
<1> DEFINE LinksInv == /\ \A l \in todo : l.process # 1
                       /\ link.at = "idle" => link = NoLink
                       /\ link.at # "idle" =>
                            /\ link.process \in Creations \ {1} /\ link.role \in ServiceRole
                            /\ link.before \notin alive /\ link.before \in DOMAIN past \cup {None}
<1>4. LinksInv
  BY DEF LinkInv
<1>5. LinksInv'
  <2>1. CASE UNCHANGED <<todo, link>>
    BY <1>1, <1>2, <1>4, <2>1 DEF ServiceRole
  <2>2. CASE Reconcile
    <3>1. UNCHANGED link /\ todo' \in {{}, Links(Identified)}
      BY <2>2 DEF Reconcile
    <3>2. \A l \in todo' : l.process # 1
      BY <3>1, SampleIsNoService
    <3> QED
      BY <1>1, <1>2, <1>4, <3>1, <3>2 DEF ServiceRole
  <2>3. CASE Enroll
    <3>1. link' = NoLink /\ todo' = todo
      BY <2>3 DEF Enroll
    <3> QED
      BY <1>4, <3>1 DEF NoLink
  <2>4. CASE Probe
    <3>1. /\ todo' = todo /\ alive' = alive /\ link.at = "probe"
          /\ \E verified \in BOOLEAN :
               link' = [link EXCEPT !.at = "write", !.verified = verified]
      BY <2>4, ProbeTells DEF Probe, world
    <3>2. /\ link'.at = "write" /\ link'.process = link.process /\ link'.role = link.role
          /\ link'.before = link.before
      BY <3>1 DEF Types, LinkTypes
    <3> QED
      BY <1>1, <1>2, <1>4, <3>1, <3>2 DEF ServiceRole
  <2>5. ASSUME NEW l \in todo, Consider(l) PROVE LinksInv'
    <3> DEFINE previous == lineage[PidOf(l.process)]
    <3>1. /\ todo' = todo \ {l} /\ alive' = alive /\ past' = past
          /\ link' = NoLink \/ /\ ~StillAlive(previous)
                               /\ link' = [at |-> "probe", process |-> l.process,
                                           role |-> l.role, verified |-> FALSE,
                                           before |-> previous.born]
      BY <2>5 DEF Consider, world
    <3>2. l.process \in Creations \ {1} /\ l.role \in ServiceRole
      BY <1>4 DEF Types, LinkTypes
    <3>3. previous.born \in DOMAIN past \cup {None}
      <4>1. PidOf(l.process) \in Pid
        BY <3>2, HistoryTypes DEF Types, WorldTypes
      <4> QED
        BY <4>1, TimesAndPlaces DEF EntryInv, EntryOf, Types
    <3>4. CASE link' = NoLink
      BY <1>4, <3>1, <3>4 DEF NoLink
    <3>5. CASE link' # NoLink
      BY <1>1, <1>4, <3>1, <3>2, <3>3, <3>5 DEF StillAlive, ServiceRole
    <3> QED
      BY <3>4, <3>5
  <2> QED
    BY <2>1, <2>2, <2>3, <2>4, <2>5, LinkSteps
<1> QED
  BY <1>3, <1>5 DEF LinkInv

LEMMA SampleInvKept ==
  ASSUME Types, HistoryInv, EntryInv, LinkInv, SampleInv, [Next]_vars
  PROVE  SampleInv'
<1> SUFFICES ASSUME ~blind'
             PROVE  /\ \A p \in Pid : lineage'[p].born # None => OfSample'[lineage'[p].born]
                    /\ \A l \in todo' : OfSample'[l.process]
                    /\ link'.at # "idle" => OfSample'[link'.process]
  BY DEF SampleInv
<1>1. ~blind
  BY NoneSeesAgain
<1>2. /\ \A g \in DOMAIN past : OfSample'[g] = OfSample[g]
      /\ History /\ Creations \subseteq DOMAIN past
  BY PastKept, TimesAndPlaces DEF Types
<1>3. /\ \A p \in Pid : lineage[p].born # None =>
           OfSample[lineage[p].born] /\ lineage[p].born \in Creations
      /\ \A l \in todo : OfSample[l.process] /\ l.process \in Creations
      /\ link.at # "idle" => OfSample[link.process] /\ link.process \in Creations
  BY <1>1 DEF SampleInv, EntryInv, EntryOf, LinkInv, Types, LinkTypes
<1>4. ASSUME NEW p \in Pid, lineage'[p].born # None PROVE OfSample'[lineage'[p].born]
  <2>1. CASE lineage'[p].born = lineage[p].born
    BY <1>2, <1>3, <1>4, <2>1
  <2>2. CASE Reconcile
    BY <2>1, <2>2 DEF Reconcile, Identified
  <2>3. CASE Enroll
    <3>1. lineage'[p].born \in {lineage[p].born, link.process}
      BY <2>3 DEF Enroll, Types, LineageTypes
    <3>2. link.at # "idle"
      BY <2>3 DEF Enroll
    <3> QED
      BY <1>2, <1>3, <2>1, <3>1, <3>2
  <2>4. CASE Watch /\ lineage'[p].born # lineage[p].born
    <3> DEFINE m == past[watched].parent
    <3>1. /\ watched \in Creations /\ m # SCM /\ lineage'[p].born = watched
          /\ ParentEntry(watched).role # "none" /\ ParentEntry(watched).born = m
      BY <2>4, WatchWrites
    <3>2. m \in Creations /\ PidOf(m) \in Pid
      BY <3>1, HistoryTypes DEF HistoryInv, ParentsAreOlder, Types, WorldTypes
    <3>3. m # None
      BY <3>1 DEF SCM, None
    <3>4. OfSample[m]
      BY <1>3, <3>1, <3>2, <3>3 DEF ParentEntry
    <3>5. SampleCause(OfSample, watched)
      BY <3>1, <3>4 DEF SampleCause
    <3>6. OfSample[watched]
      BY <1>2, <3>1, <3>5, OfSampleIs DEF OfSampleEq
    <3> QED
      BY <1>2, <3>1, <3>6
  <2> QED
    BY <2>1, <2>2, <2>3, <2>4, LineageSteps, NamesKeep
<1>5. /\ \A l \in todo' : OfSample[l.process] /\ l.process \in Creations
      /\ link'.at # "idle" => OfSample[link'.process] /\ link'.process \in Creations
  <2>1. CASE UNCHANGED <<todo, link>>
    BY <1>3, <2>1
  <2>2. CASE Reconcile
    <3>1. ~Missing /\ link' = link /\ (todo' = {} \/ todo' = Links(Identified))
      BY <2>2 DEF Reconcile
    <3>2. \A g \in Family(Services(Identified)) : OfSample[g] /\ g \in Creations
      BY <1>1, <1>2, <3>1, ServicesAreSample, FamilyIsSample DEF Family
    <3>3. \A l \in Links(Identified) : l.process \in Family(Services(Identified))
      BY DEF Links
    <3> QED
      BY <1>3, <3>1, <3>2, <3>3
  <2>3. CASE Enroll
    BY <1>3, <2>3 DEF Enroll, NoLink
  <2>4. CASE Probe
    BY <1>3, <2>4 DEF Probe, Types, LinkTypes
  <2>5. ASSUME NEW l \in todo, Consider(l)
        PROVE  /\ \A k \in todo' : OfSample[k.process] /\ k.process \in Creations
               /\ link'.at # "idle" => OfSample[link'.process] /\ link'.process \in Creations
    BY <1>3, <2>5 DEF Consider, NoLink
  <2> QED
    BY <2>1, <2>2, <2>3, <2>4, <2>5, LinkSteps
<1> QED
  BY <1>2, <1>4, <1>5

LEMMA RoleInvKept ==
  ASSUME Types, HistoryInv, EntryInv, LinkInv, RoleInv, [Next]_vars
  PROVE  RoleInv'
<1> SUFFICES ASSUME ~blind', ~raced', NEW p \in Pid, lineage'[p].role \in {"root", "child"}
             PROVE  ~ServiceOfRoot'[lineage'[p].born]
  BY DEF RoleInv
<1>1. ~blind /\ ~raced
  BY NoneSeesAgain
<1>2. /\ \A g \in DOMAIN past : ServiceOfRoot'[g] = ServiceOfRoot[g]
      /\ History /\ Creations \subseteq DOMAIN past
  BY PastKept, TimesAndPlaces DEF Types
<1>3. \A q \in Pid : lineage[q].role \in {"root", "child"} =>
        ~ServiceOfRoot[lineage[q].born] /\ lineage[q].born \in Creations
  BY <1>1 DEF RoleInv, EntryInv, EntryOf
<1>4. CASE lineage'[p].born = lineage[p].born /\ lineage'[p].role = lineage[p].role
  BY <1>2, <1>3, <1>4
<1>5. CASE Reconcile
  BY <1>4, <1>5 DEF Reconcile, Identified
<1>6. CASE Enroll
  <2>1. p # PidOf(link.process)
    BY <1>6 DEF Enroll, LinkInv, Types, LineageTypes, ServiceRole
  <2> QED
    BY <1>4, <1>6, <2>1 DEF Enroll, Types, LineageTypes
<1>7. CASE Watch /\ ~(lineage'[p].born = lineage[p].born /\ lineage'[p].role = lineage[p].role)
  <2> DEFINE m == past[watched].parent
  <2>1. /\ watched \in Creations /\ m # SCM /\ lineage'[p].born = watched
        /\ ParentEntry(watched).role \notin {"none"} \cup ServiceRole
        /\ ParentEntry(watched).born = m
    BY <1>7, WatchWrites
  <2>2. m \in Creations /\ PidOf(m) \in Pid
    BY <2>1, HistoryTypes DEF HistoryInv, ParentsAreOlder, Types, WorldTypes
  <2>3. ParentEntry(watched) = lineage[PidOf(m)] /\ lineage[PidOf(m)] \in Entry
    BY <2>2 DEF ParentEntry, Types, LineageTypes
  <2>4. lineage[PidOf(m)].role \in {"root", "child"}
    BY <2>1, <2>3 DEF Entry
  <2>5. ~ServiceOfRoot[m]
    BY <1>3, <2>1, <2>2, <2>3, <2>4
  <2>6. ~RootCause(ServiceOfRoot, watched)
    BY <2>1, <2>5 DEF RootCause
  <2>7. ~ServiceOfRoot[watched]
    BY <1>2, <2>1, <2>6, ServiceOfRootIs DEF ServiceOfRootEq
  <2> QED
    BY <1>2, <2>1, <2>7
<1> QED
  BY <1>4, <1>5, <1>6, <1>7, LineageSteps, NamesKeep

\* What an enrolment writes, over the entry that it has found or one that it races.
LEMMA EnrollWrites ==
  ASSUME Types, LinkInv, Enroll
  PROVE  LET p == PidOf(link.process)
         IN  /\ link.process \in Creations \ {1} /\ p \in Pid
             /\ lineage'[p] = [born |-> link.process, role |-> link.role,
                               guid |-> link.process, verified |-> link.verified]
             /\ \A q \in Pid \ {p} : lineage'[q] = lineage[q]
             /\ ~raced' => ~raced /\ ~StillAlive(lineage[p])
<1> DEFINE p == PidOf(link.process)
<1>1. link.process \in Creations \ {1} /\ link.before \notin alive
  BY DEF Enroll, LinkInv
<1>2. p \in Pid
  BY <1>1, HistoryTypes DEF Types, WorldTypes
<1>3. /\ lineage' = [lineage EXCEPT ![p] = [born |-> link.process, role |-> link.role,
                                guid |-> link.process, verified |-> link.verified]]
      /\ raced' = (\/ raced
                   \/ lineage[p].born # link.before /\ StillAlive(lineage[p]))
  BY DEF Enroll
<1>4. StillAlive(lineage[p]) => lineage[p].born # link.before
  BY <1>1 DEF StillAlive
<1> HIDE DEF p
<1>5. /\ lineage'[p] = [born |-> link.process, role |-> link.role,
                        guid |-> link.process, verified |-> link.verified]
      /\ \A q \in Pid \ {p} : lineage'[q] = lineage[q]
  BY <1>2, <1>3 DEF Types, LineageTypes
<1>6. ~raced' => ~raced /\ ~StillAlive(lineage[p])
  BY <1>3, <1>4
<1> QED
  BY <1>1, <1>2, <1>5, <1>6 DEF p

LEMMA LinkedInvKept ==
  ASSUME Types, HistoryInv, EntryInv, LinkInv, LinkedInv, [Next]_vars
  PROVE  LinkedInv'
<1> DEFINE Ground == /\ graphed = DOMAIN past /\ ~stopping /\ ~blind /\ ~raced
                     /\ lineage[RootPid].born = 1 /\ OneNameEach
<1> SUFFICES ASSUME Ground', NEW g \in alive', ServiceOfRoot'[g]
             PROVE  InHand(g)'
  BY DEF LinkedInv
<1>1. past' = past /\ alive' \subseteq alive
  <2>1. CASE graphed' = graphed
    <3>1. DOMAIN past' \subseteq DOMAIN past
      BY <2>1 DEF Types, WorldTypes
    <3>2. ASSUME NEW p \in Pid, NEW parent \in alive \cup {SCM},
                 NEW image \in Image \cup {NoImage}, Create(p, parent, image)
          PROVE  FALSE
      BY <3>1, <3>2, CreateGrows DEF Types
    <3>3. ASSUME NEW h \in alive, NEW n \in Name, NEW i \in Image, Install(h, n, i)
          PROVE  FALSE
      BY <3>1, <3>3, InstallGrows DEF Types
    <3> QED
      BY <3>2, <3>3, WorldSteps DEF Rests
  <2>2. CASE graphed' # graphed
    BY <2>2 DEF Next, vars, graph, world, Create, Install, Exit, Look, Deliver, Learn, Consider,
                Reconcile, Age, Probe, Enroll, Watch, Stop
  <2> QED
    BY <2>1, <2>2
<1>2. g \in alive /\ g \in Creations /\ g \in DOMAIN past /\ PidOf(g) \in Pid /\ RootPid \in Pid
  BY <1>1, TimesAndPlaces, HistoryTypes, ServiceConstants DEF Types, WorldTypes
<1>3. ServiceOfRoot[g] /\ OneNameEach
  BY <1>1, <1>2, PastKept DEF OneNameEach, Installations, Creations
<1>4. ~stopping /\ ~blind /\ ~raced
  <2>1. ~stopping
    BY DEF Next, vars, graph, Create, Install, Exit, Look, Deliver, Learn, Consider, Reconcile, Age,
           Probe, Enroll, Watch, Stop, Types, FlagTypes
  <2>2. ~blind /\ ~raced
    BY NoneSeesAgain
  <2> QED
    BY <2>1, <2>2
<1>5. SUFFICES \/ \E l \in todo' : l.process = g
               \/ link'.at # "idle" /\ link'.process = g
               \/ lineage'[PidOf(g)].born = g
  BY <1>1 DEF InHand, PidOf
<1>6. CASE Reconcile
  <2>1. seen = DOMAIN past /\ todo' = Links(Identified) /\ lineage[RootPid].born = 1
    BY <1>1, <1>2, <1>4, <1>6 DEF Reconcile, Identified
  <2>2. g \in Family(Services(Identified))
    BY <1>2, <1>3, <1>4, <2>1, RootServicesAreFound
  <2> DEFINE l == [process |-> g, role |-> IF g \in Services(Identified)
                                           THEN "service_process" ELSE "service_descendant"]
  <2>3. l \in Links(Identified)
    BY <2>2 DEF Links
  <2>4. l.process = g
    OBVIOUS
  <2> QED
    BY <2>1, <2>3, <2>4
<1>7. CASE ~Reconcile
  <2>1. graphed = DOMAIN past
    <3>1. graphed' = graphed
      BY <1>7 DEF Next, vars, graph, Create, Install, Exit, Look, Deliver, Learn, Consider, Age,
                  Probe, Enroll, Watch, Stop
    <3> QED
      BY <1>1, <3>1
  <2>2. lineage[RootPid].born = 1
    <3>1. CASE lineage'[RootPid].born = lineage[RootPid].born
      BY <3>1
    <3>2. CASE Enroll
      BY <1>2, <3>1, <3>2, EnrollWrites
    <3>3. CASE Watch
      <4>1. past[1].parent = SCM
        BY DEF HistoryInv, SampleIsFirst
      <4> QED
        BY <1>2, <3>1, <3>3, <4>1, WatchWrites
    <3> QED
      BY <1>2, <1>7, <3>1, <3>2, <3>3, LineageSteps, NamesKeep
  <2>3. InHand(g)
    BY <1>2, <1>3, <1>4, <2>1, <2>2 DEF LinkedInv
  <2>4. CASE lineage[PidOf(g)].born = g
    <3>1. StillAlive(lineage[PidOf(g)])
      BY <1>2, <2>4 DEF StillAlive
    <3>2. CASE Enroll
      BY <1>2, <2>4, <3>1, <3>2, EnrollWrites
    <3>3. CASE Watch
      BY <1>2, <2>4, <3>1, <3>3, WatchWrites
    <3> QED
      BY <1>2, <1>7, <2>4, <3>2, <3>3, LineageSteps, NamesKeep
  <2>5. CASE UNCHANGED <<todo, link>>
    <3> QED
      BY <2>3, <2>4, <2>5 DEF InHand
  <2>6. CASE Enroll
    <3>1. link' = NoLink /\ todo' = todo
      BY <2>6 DEF Enroll
    <3>2. link.process = g => lineage'[PidOf(g)].born = g
      BY <2>6, EnrollWrites
    <3> QED
      BY <2>3, <2>4, <3>1, <3>2 DEF InHand
  <2>7. CASE Probe
    <3>1. todo' = todo /\ link'.process = link.process /\ link'.at = "write"
      BY <2>7 DEF Probe, Types, LinkTypes
    <3> QED
      BY <2>3, <2>4, <2>7, <3>1 DEF InHand, Probe
  <2>8. ASSUME NEW l \in todo, Consider(l)
        PROVE  \/ \E k \in todo' : k.process = g
               \/ link'.at # "idle" /\ link'.process = g
               \/ lineage'[PidOf(g)].born = g
    <3>1. /\ link = NoLink /\ todo' = todo \ {l} /\ lineage' = lineage
      BY <2>8 DEF Consider
    <3>2. CASE l.process # g
      <4>1. \A k \in todo : k.process = g => k \in todo'
        BY <3>1, <3>2
      <4> QED
        BY <2>3, <2>4, <3>1, <4>1 DEF InHand, NoLink
    <3>3. CASE l.process = g
      <4> DEFINE previous == lineage[PidOf(g)]
      <4>1. \/ link'.at = "probe" /\ link'.process = g
            \/ previous.guid = g \/ StillAlive(previous)
        BY <2>8, <3>3 DEF Consider
      <4>2. previous.guid = g => previous.born = g
        BY <1>2, <1>4, TimesAndPlaces DEF EntryInv, EntryOf, Types, None
      <4>3. StillAlive(previous) => previous.born = g
        <5> SUFFICES ASSUME previous.born \in alive PROVE previous.born = g
          BY DEF StillAlive
        <5>1. /\ previous.born \in Creations /\ PidOf(previous.born) = PidOf(g)
              /\ previous.born \in Nat /\ g \in Nat
          BY <1>2, TimesAndPlaces DEF EntryInv, EntryOf, Types, WorldTypes, None
        <5> QED
          BY <1>2, <5>1 DEF HistoryInv, LatestLives
      <4> QED
        BY <2>4, <4>1, <4>2, <4>3
    <3> QED
      BY <3>2, <3>3
  <2> QED
    BY <1>7, <2>5, <2>6, <2>7, <2>8, LinkSteps
<1> QED
  BY <1>6, <1>7

-----------------------------------------------------------------------------
(* The theorems. *)

LEMMA InvHolds == Spec => []Inv
<1>1. Init => Inv
  <2> SUFFICES ASSUME Init PROVE Inv
    OBVIOUS
  <2>1. /\ DOMAIN past = {1} /\ past[1].kind = "create" /\ past[1].pid = RootPid
        /\ past[1].parent = SCM /\ past[1].image = NoImage
    BY DEF Init
  <2>2. Creations = {1} /\ Installations = {} /\ PidOf(1) = RootPid
    BY <2>1 DEF Creations, Installations, PidOf
  <2>3. RootPid \in Pid /\ MaxTime \in Nat \ {0} /\ Time = 1..MaxTime
    BY ServiceConstants DEF Time
  <2> DEFINE root == [Unknown EXCEPT !.born = 1, !.role = "root"]
  <2>4. lineage = [p \in Pid |-> IF p = RootPid THEN root ELSE Unknown]
    BY DEF Init
  <2>5. past \in Seq(Happening) /\ Len(past) = 1
    <3>1. past[1] \in Happening /\ past = <<past[1]>>
      BY <2>3 DEF Init, Happening, SCM
    <3> QED
      BY <3>1
  <2>6. Types
    <3>1. WorldTypes
      BY <2>1, <2>2, <2>3, <2>5 DEF Init, WorldTypes
    <3>2. LineageTypes
      <4>1. root \in Entry /\ Unknown \in Entry
        <5>1. Unknown \in Entry
          BY <2>3 DEF Entry, Unknown, None
        <5>2. [Unknown EXCEPT !.born = 1] \in Entry
          BY <2>3, <5>1 DEF Entry
        <5>3. \A e \in Entry : [e EXCEPT !.role = "root"] \in Entry
          BY DEF Entry
        <5>4. root = [[Unknown EXCEPT !.born = 1] EXCEPT !.role = "root"]
          OBVIOUS
        <5> QED
          BY <5>1, <5>2, <5>3, <5>4
      <4> HIDE DEF root
      <4> QED
        BY <2>4, <4>1 DEF LineageTypes
    <3>3. LinkTypes /\ FlagTypes
      BY DEF Init, LinkTypes, FlagTypes, NoLink
    <3> QED
      BY <3>1, <3>2, <3>3 DEF Types
  <2>7. HistoryInv
    BY <2>1, <2>2 DEF Init, HistoryInv, ParentsAreOlder, InstallersAreOlder, LatestLives,
                      SampleIsFirst, SCM
  <2>8. History
    BY <2>6, <2>7 DEF History, HistoryInv, Types, WorldTypes
  <2>9. EntryInv
    <3>1. EntryOf(RootPid, root)
      BY <2>2 DEF EntryOf, None, ServiceRole, Unknown
    <3>2. \A p \in Pid : EntryOf(p, Unknown)
      BY <2>2 DEF EntryOf, Unknown, None, ServiceRole
    <3> HIDE DEF root
    <3> QED
      BY <2>4, <3>1, <3>2 DEF EntryInv
  <2>10. LinkInv
    BY DEF Init, LinkInv, NoLink
  <2>11. SampleInv
    <3>1. SampleCause(OfSample, 1)
      BY <2>2 DEF SampleCause
    <3>2. OfSample[1]
      BY <2>1, <2>8, <3>1, OfSampleIs DEF OfSampleEq
    <3> QED
      BY <2>4, <3>2 DEF Init, SampleInv, Unknown, NoLink, None
  <2>12. ~ServiceOfRoot[1]
    <3>1. ~RootCause(ServiceOfRoot, 1)
      BY <2>1, <2>2 DEF RootCause
    <3> QED
      BY <2>1, <2>8, <3>1, ServiceOfRootIs DEF ServiceOfRootEq
  <2>13. RoleInv
    <3>1. \A p \in Pid : lineage[p].role \in {"root", "child"} => lineage[p].born = 1
      BY <2>4 DEF Unknown
    <3> QED
      BY <2>12, <3>1 DEF RoleInv
  <2>14. LinkedInv
    BY <2>12 DEF Init, LinkedInv
  <2> QED
    BY <2>6, <2>7, <2>9, <2>10, <2>11, <2>13, <2>14, TypesAreTypeOK DEF Inv
<1>2. Inv /\ [Next]_vars => Inv'
  <2> SUFFICES ASSUME Inv, [Next]_vars PROVE Inv'
    OBVIOUS
  <2>1. /\ Types /\ HistoryInv /\ EntryInv /\ LinkInv /\ SampleInv /\ RoleInv /\ LinkedInv
    BY TypesAreTypeOK DEF Inv
  <2>2. Types' /\ HistoryInv'
    BY <2>1, TypesKept, PastKept
  <2>3. EntryInv' /\ LinkInv'
    BY <2>1, EntryInvKept, LinkInvKept
  <2>4. SampleInv' /\ RoleInv' /\ LinkedInv'
    BY <2>1, SampleInvKept, RoleInvKept, LinkedInvKept
  <2>5. (TypeOK <=> Types)'
    BY TypesAreTypeOK, PTL
  <2> QED
    BY <2>2, <2>3, <2>4, <2>5 DEF Inv
<1> QED
  BY <1>1, <1>2, PTL DEF Spec

\* The history, the channels, the lineage and the links keep their types; the graph
\* is only ever built from events that were delivered.
THEOREM TypeCorrect == Spec => []TypeOK
<1>1. Inv => TypeOK
  BY DEF Inv
<1> QED
  BY <1>1, InvHolds, PTL

\* Whatever order the events of the two channels come in, and however Windows gives
\* identifiers again: correlate() and _reconcile_service_lineage() enrol only what
\* the sample has brought about, unless the creation of an installer is missing, the
\* watcher was wrong about a parent, or an event has named an entry of the lineage
\* after another process with its identifier.
THEOREM ServicesAreOfSample == Spec => []ServiceIsOfSample
<1>1. Inv => ServiceIsOfSample
  <2> SUFFICES ASSUME Inv, ~blind, NEW p \in Pid, lineage[p].role \in ServiceRole
               PROVE  OfSample[lineage[p].born]
    BY DEF ServiceIsOfSample
  <2>1. lineage[p].born # None
    BY DEF Inv, EntryInv, EntryOf, ServiceRole
  <2> QED
    BY <2>1 DEF Inv, SampleInv
<1> QED
  BY <1>1, InvHolds, PTL

\* Once all events are in the graph and its links are enrolled, every live process
\* that a service of the sample has brought about is a reason for the analysis loop
\* to go on: has_live_related_processes() knows it, by a role that the watcher has
\* not taken from it, unless Windows would not confirm that it lives.
THEOREM LiveServicesDefer == Spec => []LiveServiceDefers
<1>1. Inv => LiveServiceDefers
  <2> SUFFICES ASSUME Inv, Settled, OneNameEach, NEW g \in alive, ServiceOfRoot[g]
               PROVE  \/ HasLiveRelated
                      \/ lineage[PidOf(g)].born = g /\ ~lineage[PidOf(g)].verified
    BY DEF LiveServiceDefers
  <2>1. Types
    BY TypesAreTypeOK DEF Inv
  <2> DEFINE entry == lineage[PidOf(g)]
  <2>2. InHand(g)
    BY DEF Inv, LinkedInv, Settled
  <2>3. entry.born = g
    BY <2>2 DEF InHand, Settled, NoLink
  <2>4. g \in Creations /\ PidOf(g) \in Pid /\ g # None
    BY <2>1, HistoryTypes, TimesAndPlaces DEF Types, WorldTypes, None
  <2>5. entry \in Entry /\ EntryOf(PidOf(g), entry)
    BY <2>1, <2>4 DEF Types, LineageTypes, Inv, EntryInv
  <2>6. entry.role \notin {"root", "child"}
    BY <2>3, <2>4 DEF Inv, RoleInv, Settled
  <2>7. entry.role \in ServiceRole
    BY <2>3, <2>4, <2>5, <2>6 DEF EntryOf, Entry
  <2>8. StillAlive(entry)
    BY <2>3 DEF StillAlive
  <2> QED
    BY <2>3, <2>4, <2>7, <2>8 DEF HasLiveRelated, Settled
<1> QED
  BY <1>1, InvHolds, PTL

\* The graph and the watcher leave the entry of a live process alone, unless one has
\* written while the other was between its look at the lineage and its own entry:
\* a link is only under way for an identifier whose entry is of an ended process.
THEOREM EntriesAreKept == Spec => EntryKept
<1>1. ASSUME Inv, [Next]_vars
      PROVE  [\A p \in Pid :
                LET entry == lineage[p]
                IN  StillAlive(entry) /\ ~raced' =>
                      lineage'[p].born = entry.born /\ lineage'[p].role = entry.role]_vars
  <2> SUFFICES ASSUME NEW p \in Pid, StillAlive(lineage[p]), ~raced'
               PROVE  lineage'[p].born = lineage[p].born /\ lineage'[p].role = lineage[p].role
    OBVIOUS
  <2>1. Types /\ LinkInv
    BY <1>1, TypesAreTypeOK DEF Inv
  <2>2. CASE Reconcile
    BY <2>2 DEF Reconcile, Identified
  <2>3. CASE Enroll
    BY <2>1, <2>3, EnrollWrites
  <2>4. CASE Watch
    BY <2>1, <2>4, WatchWrites
  <2> QED
    BY <1>1, <2>1, <2>2, <2>3, <2>4, LineageSteps, NamesKeep
<1> QED
  BY <1>1, InvHolds, PTL DEF Spec, EntryKept

=============================================================================
