--------------------------- MODULE Migration_proofs ---------------------------
(***************************************************************************)
(* Theorems about Migration, for any entities, ids and interruptions: the  *)
(* two integrations are never both enabled once one has adopted the        *)
(* entities of the other, no id that was taken away is forgotten, and the  *)
(* adoption and the rollback bring every entity to its id.                 *)
(***************************************************************************)
EXTENDS Migration, FiniteSetTheorems, SequenceTheorems, TLAPS

\* An adoption under way has disabled the legacy entry; an entry that is removed
\* has adopted nothing any more, and the rollback enables the legacy one only then.
HandoverInv ==
  /\ pc \in {"disabling", "backup", "freeing"} => legacy.state # "enabled"
  /\ pc = "removed" => data = NoData
  /\ task = "enable" => pc = "removed"

LegacyType == legacy \in [state: {"gone", "enabled", "disabled"}, up: BOOLEAN]

Inv == LegacyType /\ NeverBothEnabled /\ HandoverInv

handover == <<setup, legacy>>
-----------------------------------------------------------------------------
\* What keeps the set-up, the legacy entry and the rollback out of "enable" keeps the invariant.
LEMMA KeptAlone ==
  ASSUME Inv, UNCHANGED handover, task' = "enable" => task = "enable"
  PROVE  Inv'
  BY DEF Inv, LegacyType, NeverBothEnabled, HandoverInv, handover, setup, NoData

\* The set-up: nothing but the rollback enables the legacy entry, and the adoption is
\* persisted only with the legacy entry disabled.
LEMMA SetupStep ==
  ASSUME Inv,
         \/ AddEntry \/ Reload \/ NothingToAdopt \/ DisableLegacy \/ AbortAdoption \/ Collect
         \/ WriteBackup \/ FreeAndPersist \/ ForwardPlatforms \/ ForwardFails \/ Finalize
  PROVE  Inv'
<1> USE DEF Inv, LegacyType, NeverBothEnabled, HandoverInv, NoData, setup, repair
<1>1. CASE AddEntry \/ Reload
  BY <1>1 DEF AddEntry, Reload
<1>2. CASE NothingToAdopt
  BY <1>2 DEF NothingToAdopt
<1>3. CASE DisableLegacy
  BY <1>3 DEF DisableLegacy
<1>4. CASE AbortAdoption
  BY <1>4 DEF AbortAdoption
<1>5. CASE Collect
  BY <1>5 DEF Collect
<1>6. CASE WriteBackup
  BY <1>6 DEF WriteBackup
<1>7. CASE FreeAndPersist
  BY <1>7 DEF FreeAndPersist
<1>8. CASE ForwardPlatforms \/ ForwardFails \/ Finalize
  BY <1>8 DEF ForwardPlatforms, ForwardFails, Finalize
<1> QED BY <1>1, <1>2, <1>3, <1>4, <1>5, <1>6, <1>7, <1>8

\* The rollback removes the entry first.
LEMMA RollbackStep ==
  ASSUME Inv, RollbackCheck \/ RemoveEntry \/ EnableLegacy \/ RemoveBackups
  PROVE  Inv'
<1>1. CASE RollbackCheck \/ RemoveBackups
  BY <1>1, KeptAlone DEF RollbackCheck, RollbackRefused, RemoveBackups, handover, setup
<1>2. CASE RemoveEntry
  BY <1>2 DEF RemoveEntry, Inv, LegacyType, NeverBothEnabled, HandoverInv, NoData
<1>3. CASE EnableLegacy
  <2>1. task = "enable" /\ task' # "enable" /\ UNCHANGED setup
    BY <1>3 DEF EnableLegacy, RollbackRefused
  <2>2. pc = "removed" /\ data = NoData /\ pc' = pc /\ data' = data
    BY <2>1 DEF Inv, HandoverInv, setup
  <2>3. LegacyType'
    BY <1>3, OutcomesAssumption DEF EnableLegacy, Inv, LegacyType
  <2> QED BY <2>1, <2>2, <2>3 DEF Inv, LegacyType, NeverBothEnabled, HandoverInv, NoData
<1> QED BY <1>1, <1>2, <1>3

\* Everybody else; a crash ends the rollback and begins the set-up again.
LEMMA OtherStep ==
  ASSUME Inv,
         \/ Discover \/ Poll \/ PressRollback \/ IgnoreOffer \/ ConfirmRollback \/ ConfirmOrphaned
         \/ LegacyDiscovers \/ DeleteLegacy \/ Uninstall \/ WriteRegistry \/ Crash \/ UNCHANGED vars
  PROVE  Inv'
<1>1. CASE Discover \/ Poll \/ PressRollback \/ IgnoreOffer \/ Uninstall \/ WriteRegistry \/ UNCHANGED vars
  <2>1. UNCHANGED <<handover, task>>
    BY <1>1 DEF Discover, Poll, PressRollback, IgnoreOffer, Uninstall, WriteRegistry, vars,
                handover, setup, repair
  <2> QED BY <2>1, KeptAlone
<1>2. CASE ConfirmRollback
  <2>1. UNCHANGED handover
    BY <1>2 DEF ConfirmRollback, handover
  <2>2. task' \in {"check", task}
    BY <1>2 DEF ConfirmRollback
  <2>3. task' = "enable" => task = "enable"
    BY <2>2
  <2> QED BY <2>1, <2>3, KeptAlone
<1>3. CASE ConfirmOrphaned \/ DeleteLegacy
  <2>1. legacy' = [state |-> "gone", up |-> FALSE] /\ UNCHANGED <<setup, task>>
    BY <1>3 DEF ConfirmOrphaned, DeleteLegacy, LegacyRemoved, repair
  <2> QED BY <2>1 DEF Inv, LegacyType, NeverBothEnabled, HandoverInv, setup
<1>4. CASE LegacyDiscovers
  BY <1>4 DEF LegacyDiscovers, Inv, LegacyType, NeverBothEnabled, HandoverInv, setup, repair
<1>5. CASE Crash
  BY <1>5 DEF Crash, Inv, LegacyType, NeverBothEnabled, HandoverInv
<1> QED BY <1>1, <1>2, <1>3, <1>4, <1>5

\* The legacy entry is not enabled beside an entry that has adopted its entities
\* (async_adopt_legacy_entities, async_rollback_to_legacy).
THEOREM NeverBoth == Spec => []NeverBothEnabled
<1>1. Init => Inv
  BY DEF Init, Inv, LegacyType, NeverBothEnabled, HandoverInv, NoData
<1>2. Inv /\ [Next]_vars => Inv'
  BY SetupStep, RollbackStep, OtherStep DEF Next
<1>3. Inv => NeverBothEnabled
  BY DEF Inv
<1> QED BY <1>1, <1>2, <1>3, PTL DEF Spec

-----------------------------------------------------------------------------
(* Counting up.                                                            *)

\* A set of numbers has a least one, as the intervals up to its members do not shrink for ever.
LEMMA LeastExists ==
  ASSUME NEW S \in SUBSET Nat, S # {}
  PROVE  \E k \in S : \A m \in S : k <= m
<1> DEFINE UpTo == {0..k : k \in S}
<1>1. \A k \in S : k \in Nat
  OBVIOUS
<1>2. UpTo \subseteq FiniteSubsetsOf(Nat) /\ UpTo # {}
  <2>1. ASSUME NEW k \in S PROVE 0..k \in SUBSET Nat /\ IsFiniteSet(0..k)
    BY <1>1, FS_Interval
  <2> QED BY <2>1 DEF FiniteSubsetsOf
<1>3. PICK U \in UpTo : \A V \in UpTo : <<V, U>> \notin StrictSubsetOrdering(Nat)
  <2> HIDE DEF UpTo
  <2> QED BY <1>2, FS_StrictSubsetOrderingWellFounded, WFMin
<1>4. PICK k \in S : U = 0..k
  OBVIOUS
<1>5. ASSUME NEW m \in S, m < k PROVE FALSE
  <2>1. 0..m \in UpTo /\ 0..m \subseteq 0..k /\ k \in 0..k /\ k \notin 0..m
    BY <1>1, <1>5
  <2>2. 0..m \in SUBSET Nat /\ 0..k \in SUBSET Nat
    BY <1>1
  <2> QED BY <2>1, <2>2, <1>3, <1>4 DEF StrictSubsetOrdering
<1> QED BY <1>1, <1>5

LEMMA CountingTo ==
  ASSUME NEW N \in Nat, NEW S, 0 \in S, \A n \in 1..N : n - 1 \in S => n \in S
  PROVE  \A n \in 0..N : n \in S
<1> SUFFICES ASSUME (0..N) \ S # {} PROVE FALSE
  OBVIOUS
<1>1. PICK k \in (0..N) \ S : \A m \in (0..N) \ S : k <= m
  <2>1. (0..N) \ S \in SUBSET Nat
    OBVIOUS
  <2> QED BY <2>1, LeastExists
<1>2. k # 0 /\ k - 1 \in 0..N
  BY <1>1
<1>3. k - 1 \in S
  BY <1>1, <1>2
<1> QED BY <1>1, <1>2, <1>3

Steps(f, N, V, first, next) ==
  f \in [0..N -> V] /\ f[0] = first /\ \A n \in 1..N : f[n] = next[n][f[n - 1]]

\* A first value and N steps make a function on 0..N.
LEMMA FunctionBySteps ==
  ASSUME NEW N \in Nat, NEW V, NEW first \in V, NEW next \in [1..N -> [V -> V]]
  PROVE  \E f : Steps(f, N, V, first, next)
<1> DEFINE S == {n \in 0..N : \E f : Steps(f, n, V, first, next)}
<1>1. 0 \in S
  <2>1. Steps([k \in 0..0 |-> first], 0, V, first, next)
    BY DEF Steps
  <2> QED BY <2>1
<1>2. ASSUME NEW n \in 1..N, n - 1 \in S PROVE n \in S
  <2>1. PICK g : Steps(g, n - 1, V, first, next)
    BY <1>2
  <2> DEFINE h == [k \in 0..n |-> IF k < n THEN g[k] ELSE next[n][g[n - 1]]]
  <2>2. g \in [0..(n - 1) -> V] /\ g[0] = first /\ \A k \in 1..(n - 1) : g[k] = next[k][g[k - 1]]
    BY <2>1 DEF Steps
  <2>3. h \in [0..n -> V] /\ h[0] = first
    BY <2>2
  <2>4. ASSUME NEW k \in 1..n PROVE h[k] = next[k][h[k - 1]]
    <3>1. CASE k < n
      <4>1. h[k] = g[k] /\ h[k - 1] = g[k - 1] /\ k \in 1..(n - 1)
        BY <3>1
      <4> QED BY <2>2, <4>1
    <3>2. CASE k = n
      <4>1. h[k] = next[n][g[n - 1]] /\ h[k - 1] = g[n - 1]
        BY <3>2
      <4> QED BY <3>2, <4>1
    <3> QED BY <3>1, <3>2
  <2> HIDE DEF h
  <2>5. Steps(h, n, V, first, next)
    BY <2>3, <2>4 DEF Steps
  <2> QED BY <2>5
<1> HIDE DEF S
<1>3. N \in S
  <2>1. \A n \in 0..N : n \in S
    BY <1>1, <1>2, CountingTo
  <2> QED BY <2>1
<1> QED BY <1>3 DEF S

-----------------------------------------------------------------------------
(* Registries                                                              *)

Registries == [Ids -> Entities \cup {Free}]

\* An entity has one id.
OneId(r) ==
  \A i, j \in Ids : r[i] # Free /\ r[i].by = r[j].by /\ r[i].obj = r[j].obj => i = j

Good(r) == r \in Registries /\ OneId(r)

Integrations == {"legacy", "ce"}

\* No entity of r is lost on the way to q.
Keeps(r, q) ==
  \A by \in Integrations, o \in Objects : Registered(r, by, o) => Registered(q, by, o)

LEMMA EntityFields ==
  /\ \A e \in Entities : e.by \in Integrations /\ e.obj \in Objects /\ e.custom \in BOOLEAN /\ e # Free
  /\ Free.by \notin Integrations
  /\ \A by \in Integrations, o \in Objects, c \in BOOLEAN :
        /\ Entity(by, o, c) \in Entities
        /\ Entity(by, o, c).by = by /\ Entity(by, o, c).obj = o /\ Entity(by, o, c).custom = c
<1>1. \A e \in Entities : e.by \in Integrations /\ e.obj \in Objects /\ e.custom \in BOOLEAN
  BY DEF Entities, Integrations
<1>2. Free.by \notin Integrations
  BY DEF Free, Integrations
<1>3. \A by \in Integrations, o \in Objects, c \in BOOLEAN :
        /\ Entity(by, o, c) \in Entities
        /\ Entity(by, o, c).by = by /\ Entity(by, o, c).obj = o /\ Entity(by, o, c).custom = c
  BY DEF Entity, Entities, Integrations
<1> QED BY <1>1, <1>2, <1>3

\* Who is registered has an id, and an id in use is somebody's.
LEMMA RegisteredIs ==
  ASSUME NEW r \in Registries
  PROVE  /\ \A by \in Integrations, o \in Objects :
              Registered(r, by, o) <=> \E i \in Ids : r[i] \in Entities /\ r[i].by = by /\ r[i].obj = o
         /\ \A i \in Ids : r[i] = Free \/ r[i] \in Entities
<1>1. \A i \in Ids : r[i] = Free \/ r[i] \in Entities
  BY DEF Registries
<1>2. \A i \in Ids : r[i].by \in Integrations => r[i] \in Entities
  BY <1>1, EntityFields
<1> QED BY <1>1, <1>2 DEF Registered, IdOf

LEMMA KeepsTrans ==
  ASSUME NEW p, NEW q, NEW r, Keeps(p, q), Keeps(q, r)
  PROVE  Keeps(p, r)
  BY DEF Keeps

\* Each integration holds at most one id of each object, so that they cannot hold all the
\* temporary ones.
LEMMA FreeTemp ==
  ASSUME NEW r, Good(r)
  PROVE  LET temp == Min({t \in Temps : r[t] = Free})
         IN  temp \in Temps /\ r[temp] = Free
<1> DEFINE free == {t \in Temps : r[t] = Free}
<1>1. free # {}
  <2> SUFFICES ASSUME \A t \in Temps : r[t] # Free PROVE FALSE
    OBVIOUS
  <2> DEFINE pairs == Integrations \X Objects
             f == [t \in Temps |-> <<r[t].by, r[t].obj>>]
  <2>1. IsFiniteSet(Integrations) /\ Cardinality(Integrations) = 2
    <3>1. IsFiniteSet({"legacy"}) /\ Cardinality({"legacy"}) = 1
      BY FS_Singleton
    <3>2. Integrations = {"legacy"} \cup {"ce"} /\ "ce" \notin {"legacy"}
      BY DEF Integrations
    <3> QED BY <3>1, <3>2, FS_AddElement
  <2>2. IsFiniteSet(pairs) /\ Cardinality(pairs) = 2 * Cardinality(Objects)
    BY <2>1, NamesAssumption, FS_Product
  <2>3. f \in Injection(Temps, pairs)
    <3>1. \A t \in Temps : t \in Ids /\ r[t] \in Entities
      BY RegisteredIs DEF Good, Ids
    <3>2. f \in [Temps -> pairs]
      BY <3>1, EntityFields
    <3>3. \A t, u \in Temps : f[t] = f[u] => t = u
      <4> SUFFICES ASSUME NEW t \in Temps, NEW u \in Temps, f[t] = f[u] PROVE t = u
        OBVIOUS
      <4>1. r[t].by = r[u].by /\ r[t].obj = r[u].obj
        OBVIOUS
      <4> QED BY <3>1, <4>1 DEF Good, OneId
    <3> HIDE DEF f
    <3> QED BY <3>2, <3>3 DEF Injection, IsInjective
  <2> HIDE DEF pairs, f
  <2>4. IsFiniteSet(Temps) /\ Cardinality(Temps) <= Cardinality(pairs)
    BY <2>2, <2>3, FS_Injection
  <2>5. Cardinality(Temps) \in Nat /\ Cardinality(Objects) \in Nat
    BY <2>4, NamesAssumption, FS_CardinalityType
  <2> QED BY <2>2, <2>4, <2>5, TempsAssumption
<1>2. free \in SUBSET Nat
  BY IdsAssumption DEF Ids
<1>3. \E k \in free : \A m \in free : k <= m
  <2> HIDE DEF free
  <2> QED BY <1>1, <1>2, LeastExists
<1>4. Min(free) \in free
  <2> HIDE DEF free
  <2> QED BY <1>3 DEF Min
<1> QED BY <1>4

\* An entity that is moved to a free id keeps its integration's and everybody else's ids apart.
LEMMA Renamed ==
  ASSUME NEW r, Good(r), NEW from \in Ids, NEW to \in Ids, r[from] # Free, r[to] = Free
  PROVE  /\ Good(Rename(r, from, to)) /\ Keeps(r, Rename(r, from, to))
         /\ Rename(r, from, to)[to] = r[from]
<1> DEFINE q == Rename(r, from, to)
<1>0. r \in Registries /\ r[from] \in Entities /\ from # to
  BY RegisteredIs DEF Good
<1>1. q = [i \in Ids |-> IF i = from THEN Free ELSE IF i = to THEN r[from] ELSE r[i]]
  BY <1>0 DEF Rename, Registries
<1> HIDE DEF q
<1>2. q \in Registries
  BY <1>0, <1>1 DEF Registries
<1>3. OneId(q)
  <2> SUFFICES ASSUME NEW i \in Ids, NEW j \in Ids, q[i] # Free, q[i].by = q[j].by, q[i].obj = q[j].obj
               PROVE  i = j
    BY DEF OneId
  <2>1. q[i] \in Entities /\ q[j] \in Entities
    BY <1>2, RegisteredIs, EntityFields
  <2>2. i # from /\ j # from
    BY <1>1, <2>1, EntityFields
  <2> DEFINE was(k) == IF k = to THEN from ELSE k
  <2>3. q[i] = r[was(i)] /\ q[j] = r[was(j)] /\ was(i) \in Ids /\ was(j) \in Ids
    BY <1>1, <2>2
  <2>4. was(i) = was(j)
    <3> HIDE DEF was
    <3> QED BY <2>1, <2>3, EntityFields DEF Good, OneId
  <2> QED BY <2>2, <2>4
<1>4. Keeps(r, q)
  <2> SUFFICES ASSUME NEW by \in Integrations, NEW o \in Objects, Registered(r, by, o)
               PROVE  Registered(q, by, o)
    BY DEF Keeps
  <2>1. PICK i \in Ids : r[i] \in Entities /\ r[i].by = by /\ r[i].obj = o
    BY <1>0, RegisteredIs
  <2>2. i # to
    BY <2>1, EntityFields
  <2>3. q[IF i = from THEN to ELSE i] = r[i]
    BY <1>0, <1>1, <2>2
  <2> QED BY <1>2, <2>1, <2>3, RegisteredIs
<1>5. q[to] = r[from]
  BY <1>0, <1>1
<1> QED BY <1>2, <1>3, <1>4, <1>5 DEF q, Good

LEMMA Restored ==
  ASSUME NEW r, Good(r), NEW i \in Ids, r[i] # Free, NEW rec \in Records
  PROVE  Good(Restore(r, i, rec)) /\ Keeps(r, Restore(r, i, rec))
<1> DEFINE q == Restore(r, i, rec)
<1>0. r \in Registries /\ r[i] \in Entities /\ rec.custom \in BOOLEAN
  BY RegisteredIs DEF Good, Records
<1> DEFINE e == [r[i] EXCEPT !.custom = @ \/ rec.custom]
<1>1. e \in Entities /\ e.by = r[i].by /\ e.obj = r[i].obj
  <2>1. r[i].custom \/ rec.custom \in BOOLEAN
    BY <1>0, EntityFields
  <2> QED BY <1>0, <2>1 DEF Entities
<1>2. q = [r EXCEPT ![i] = e]
  BY DEF Restore
<1> HIDE DEF q, e
<1>3. q \in Registries /\ q[i] = e /\ \A j \in Ids \ {i} : q[j] = r[j]
  BY <1>0, <1>1, <1>2 DEF Registries
<1>4. \A j \in Ids : /\ q[j] = Free <=> r[j] = Free
                     /\ q[j] \in Entities <=> r[j] \in Entities
                     /\ q[j].by = r[j].by /\ q[j].obj = r[j].obj
  BY <1>0, <1>1, <1>3, EntityFields
<1>5. OneId(q)
  BY <1>4 DEF OneId, Good
<1>6. Keeps(r, q)
  BY <1>0, <1>3, <1>4, RegisteredIs DEF Keeps
<1> QED BY <1>3, <1>5, <1>6 DEF q, Good

\* The id an entity has.
LEMMA CurrentIs ==
  ASSUME NEW r, Good(r), NEW by \in Integrations, NEW o \in Objects, Registered(r, by, o)
  PROVE  LET current == CHOOSE i \in IdOf(r, by, o) : TRUE
         IN  current \in Ids /\ r[current] # Free /\ r[current].by = by /\ r[current].obj = o
<1> DEFINE current == CHOOSE i \in IdOf(r, by, o) : TRUE
<1>1. current \in IdOf(r, by, o)
  BY DEF Registered
<1>2. current \in Ids /\ r[current].by = by /\ r[current].obj = o
  BY <1>1 DEF IdOf
<1> QED BY <1>2, EntityFields

LEMMA ParkKeeps ==
  ASSUME NEW r, Good(r), NEW by \in Integrations, NEW rec \in Records, Registered(r, by, rec.obj)
  PROVE  Good(Park(r, by, rec)) /\ Keeps(r, Park(r, by, rec))
<1> DEFINE current == CHOOSE i \in IdOf(r, by, rec.obj) : TRUE
           temp == Min({t \in Temps : r[t] = Free})
<1>1. current \in Ids /\ r[current] # Free
  <2>1. rec.obj \in Objects
    BY DEF Records
  <2> QED BY <2>1, CurrentIs
<1>2. temp \in Ids /\ r[temp] = Free
  BY FreeTemp DEF Ids
<1>3. Park(r, by, rec) = IF current = rec.id THEN r ELSE Rename(r, current, temp)
  BY DEF Park
<1> HIDE DEF current, temp
<1>4. Keeps(r, r)
  BY DEF Keeps
<1> QED BY <1>1, <1>2, <1>3, <1>4, Renamed

LEMMA PlaceKeeps ==
  ASSUME NEW r, Good(r), NEW by \in Integrations, NEW rec \in Records, Registered(r, by, rec.obj)
  PROVE  Good(Place(r, by, rec)) /\ Keeps(r, Place(r, by, rec))
<1> DEFINE current == CHOOSE i \in IdOf(r, by, rec.obj) : TRUE
           final == IF r[rec.id] = Free THEN rec.id ELSE current
           q == IF final = current THEN r ELSE Rename(r, current, final)
<1>0. rec.id \in Ids /\ rec.obj \in Objects
  BY DEF Records
<1>1. current \in Ids /\ r[current] # Free
  BY <1>0, CurrentIs
<1>2. Place(r, by, rec) = Restore(q, final, rec)
  BY DEF Place
<1> HIDE DEF current
<1>3. final \in Ids /\ (final # current => r[final] = Free)
  BY <1>0, <1>1
<1>4. Good(q) /\ Keeps(r, q) /\ q[final] # Free
  <2>1. CASE final = current
    <3>1. q = r /\ Keeps(r, r)
      BY <2>1 DEF Keeps
    <3> QED BY <1>1, <2>1, <3>1
  <2>2. CASE final # current
    <3>1. q = Rename(r, current, final)
      BY <2>2
    <3> HIDE DEF q, final
    <3> QED BY <1>1, <1>3, <2>2, <3>1, Renamed
  <2> QED BY <2>1, <2>2
<1> HIDE DEF q, final
<1> QED BY <1>2, <1>3, <1>4, Restored, KeepsTrans

\* The registries one may come to from r.
From(r) == {q \in Registries : OneId(q) /\ Keeps(r, q)}

LEMMA ParkingKeeps ==
  ASSUME NEW r, Good(r), NEW by \in Integrations, NEW pairs \in Seq(Records),
         \A n \in 1..Len(pairs) : Registered(r, by, pairs[n].obj)
  PROVE  /\ Parking(r, by, pairs)[0] = r
         /\ \A n \in 1..Len(pairs) :
              Parking(r, by, pairs)[n] = Park(Parking(r, by, pairs)[n - 1], by, pairs[n])
         /\ \A n \in 0..Len(pairs) :
              Good(Parking(r, by, pairs)[n]) /\ Keeps(r, Parking(r, by, pairs)[n])
<1> DEFINE N == Len(pairs)
           V == From(r)
           next == [n \in 1..N |-> [q \in V |-> Park(q, by, pairs[n])]]
           Is(f) == f = [n \in 0..N |-> IF n = 0 THEN r ELSE Park(f[n - 1], by, pairs[n])]
<1>1. N \in Nat /\ r \in V /\ \A n \in 1..N : pairs[n] \in Records /\ pairs[n].obj \in Objects
  <2>1. r \in V
    BY DEF From, Good, Keeps
  <2>2. \A n \in 1..N : pairs[n] \in Records
    OBVIOUS
  <2>3. \A rec \in Records : rec.obj \in Objects
    BY DEF Records
  <2> QED BY <2>1, <2>2, <2>3
<1>2. ASSUME NEW n \in 1..N, NEW q \in V PROVE Park(q, by, pairs[n]) \in V
  <2>1. Good(q) /\ Keeps(r, q) /\ Registered(q, by, pairs[n].obj)
    BY <1>1 DEF From, Good, Keeps
  <2>2. Good(Park(q, by, pairs[n])) /\ Keeps(q, Park(q, by, pairs[n]))
    BY <1>1, <2>1, ParkKeeps
  <2> QED BY <2>1, <2>2, KeepsTrans DEF From, Good
<1>3. next \in [1..N -> [V -> V]]
  BY <1>2
<1> HIDE DEF N, V
<1>4. PICK f : Steps(f, N, V, r, next)
  <2> HIDE DEF next
  <2> QED BY <1>1, <1>3, FunctionBySteps
<1>5. Is(f)
  <2>1. f \in [0..N -> V] /\ f[0] = r /\ \A n \in 1..N : f[n] = next[n][f[n - 1]]
    BY <1>4 DEF Steps
  <2>2. \A n \in 1..N : n - 1 \in 0..N
    BY <1>1
  <2>3. \A n \in 0..N : n = 0 \/ n \in 1..N
    BY <1>1
  <2>4. \A n \in 1..N : f[n] = Park(f[n - 1], by, pairs[n])
    BY <2>1, <2>2
  <2>5. \A n \in 0..N : f[n] = IF n = 0 THEN r ELSE Park(f[n - 1], by, pairs[n])
    BY <2>1, <2>3, <2>4
  <2> QED BY <2>1, <2>5
<1> DEFINE p == Parking(r, by, pairs)
<1>6. p = CHOOSE g : Is(g)
  BY DEF Parking, N
<1>7. Is(p)
  <2> HIDE DEF Is, p
  <2> QED BY <1>5, <1>6
<1>8. p[0] = r /\ \A n \in 1..N : p[n] = Park(p[n - 1], by, pairs[n])
  <2> HIDE DEF p
  <2>1. \A n \in 1..N : n \in 0..N /\ n # 0
    BY <1>1
  <2>2. 0 \in 0..N
    BY <1>1
  <2> QED BY <1>7, <2>1, <2>2
<1> HIDE DEF p
<1> DEFINE S == {n \in 0..N : p[n] \in V}
<1>9. \A n \in 0..N : n \in S
  <2>1. 0 \in S
    BY <1>1, <1>8
  <2>2. ASSUME NEW n \in 1..N, n - 1 \in S PROVE n \in S
    BY <1>1, <1>2, <1>8, <2>2
  <2> HIDE DEF S
  <2> QED BY <1>1, <2>1, <2>2, CountingTo
<1>10. \A n \in 0..N : Good(p[n]) /\ Keeps(r, p[n])
  BY <1>9 DEF V, From, Good
<1> QED BY <1>8, <1>10 DEF p, N

LEMMA PlacingKeeps ==
  ASSUME NEW r, Good(r), NEW by \in Integrations, NEW pairs \in Seq(Records),
         \A n \in 1..Len(pairs) : Registered(r, by, pairs[n].obj)
  PROVE  /\ Placing(r, by, pairs)[0] = r
         /\ \A n \in 1..Len(pairs) :
              Placing(r, by, pairs)[n] = Place(Placing(r, by, pairs)[n - 1], by, pairs[n])
         /\ \A n \in 0..Len(pairs) :
              Good(Placing(r, by, pairs)[n]) /\ Keeps(r, Placing(r, by, pairs)[n])
<1> DEFINE N == Len(pairs)
           V == From(r)
           next == [n \in 1..N |-> [q \in V |-> Place(q, by, pairs[n])]]
           Is(f) == f = [n \in 0..N |-> IF n = 0 THEN r ELSE Place(f[n - 1], by, pairs[n])]
<1>1. N \in Nat /\ r \in V /\ \A n \in 1..N : pairs[n] \in Records /\ pairs[n].obj \in Objects
  <2>1. r \in V
    BY DEF From, Good, Keeps
  <2>2. \A n \in 1..N : pairs[n] \in Records
    OBVIOUS
  <2>3. \A rec \in Records : rec.obj \in Objects
    BY DEF Records
  <2> QED BY <2>1, <2>2, <2>3
<1>2. ASSUME NEW n \in 1..N, NEW q \in V PROVE Place(q, by, pairs[n]) \in V
  <2>1. Good(q) /\ Keeps(r, q) /\ Registered(q, by, pairs[n].obj)
    BY <1>1 DEF From, Good, Keeps
  <2>2. Good(Place(q, by, pairs[n])) /\ Keeps(q, Place(q, by, pairs[n]))
    BY <1>1, <2>1, PlaceKeeps
  <2> QED BY <2>1, <2>2, KeepsTrans DEF From, Good
<1>3. next \in [1..N -> [V -> V]]
  BY <1>2
<1> HIDE DEF N, V
<1>4. PICK f : Steps(f, N, V, r, next)
  <2> HIDE DEF next
  <2> QED BY <1>1, <1>3, FunctionBySteps
<1>5. Is(f)
  <2>1. f \in [0..N -> V] /\ f[0] = r /\ \A n \in 1..N : f[n] = next[n][f[n - 1]]
    BY <1>4 DEF Steps
  <2>2. \A n \in 1..N : n - 1 \in 0..N
    BY <1>1
  <2>3. \A n \in 0..N : n = 0 \/ n \in 1..N
    BY <1>1
  <2>4. \A n \in 1..N : f[n] = Place(f[n - 1], by, pairs[n])
    BY <2>1, <2>2
  <2>5. \A n \in 0..N : f[n] = IF n = 0 THEN r ELSE Place(f[n - 1], by, pairs[n])
    BY <2>1, <2>3, <2>4
  <2> QED BY <2>1, <2>5
<1> DEFINE p == Placing(r, by, pairs)
<1>6. p = CHOOSE g : Is(g)
  BY DEF Placing, N
<1>7. Is(p)
  <2> HIDE DEF Is, p
  <2> QED BY <1>5, <1>6
<1>8. p[0] = r /\ \A n \in 1..N : p[n] = Place(p[n - 1], by, pairs[n])
  <2> HIDE DEF p
  <2>1. \A n \in 1..N : n \in 0..N /\ n # 0
    BY <1>1
  <2>2. 0 \in 0..N
    BY <1>1
  <2> QED BY <1>7, <2>1, <2>2
<1> HIDE DEF p
<1> DEFINE S == {n \in 0..N : p[n] \in V}
<1>9. \A n \in 0..N : n \in S
  <2>1. 0 \in S
    BY <1>1, <1>8
  <2>2. ASSUME NEW n \in 1..N, n - 1 \in S PROVE n \in S
    BY <1>1, <1>2, <1>8, <2>2
  <2> HIDE DEF S
  <2> QED BY <1>1, <2>1, <2>2, CountingTo
<1>10. \A n \in 0..N : Good(p[n]) /\ Keeps(r, p[n])
  BY <1>9 DEF V, From, Good
<1> QED BY <1>8, <1>10 DEF p, N

\* The elements of a finite set in some order, each once.
LEMMA SetToSeqIs ==
  ASSUME NEW S, IsFiniteSet(S)
  PROVE  /\ SetToSeq(S) \in Seq(S)
         /\ \A x \in S : \E n \in 1..Len(SetToSeq(S)) : SetToSeq(S)[n] = x
         /\ \A m, n \in 1..Len(SetToSeq(S)) : SetToSeq(S)[m] = SetToSeq(S)[n] => m = n
<1> DEFINE N == Cardinality(S)
           q == SetToSeq(S)
<1>1. N \in Nat /\ ExistsBijection(1..N, S)
  BY FS_CardinalityType
<1>2. PICK f : f \in Bijection(1..N, S)
  BY <1>1 DEF ExistsBijection
<1>3. f \in [1..N -> S] /\ IsInjective(f)
  BY <1>2 DEF Bijection, Injection, IsInjective
<1>4. q \in [1..N -> S] /\ IsInjective(q)
  BY <1>3 DEF SetToSeq
<1>5. IsFiniteSet(1..N) /\ Cardinality(1..N) = N
  BY <1>1, FS_Interval
<1> HIDE DEF N, q
<1>6. q \in Seq(S) /\ Len(q) = N
  BY <1>1, <1>4, SeqDef
<1>7. q \in Injection(1..N, S)
  BY <1>4 DEF Injection, IsInjective
<1>8. q \in Surjection(1..N, S)
  BY <1>5, <1>7, FS_Injection DEF N
<1> QED BY <1>4, <1>6, <1>8 DEF q, Surjection, IsInjective

\* Renaming entities back and forth loses none of them and gives none a second id.
LEMMA RemapKeeps ==
  ASSUME NEW r, Good(r), NEW by \in Integrations, NEW records \in SUBSET Records, IsFiniteSet(records)
  PROVE  Good(RemapAndRestore(r, by, records)) /\ Keeps(r, RemapAndRestore(r, by, records))
<1> DEFINE pairs == SetToSeq(Paired(r, by, records))
           parked == Parking(r, by, pairs)[Len(pairs)]
<1>1. pairs \in Seq(Paired(r, by, records))
  <2>1. Paired(r, by, records) \in SUBSET records
    BY DEF Paired
  <2> QED BY <2>1, FS_Subset, SetToSeqIs
<1>2. RemapAndRestore(r, by, records) = Placing(parked, by, pairs)[Len(pairs)]
  BY DEF RemapAndRestore
<1> HIDE DEF pairs
<1>3. pairs \in Seq(Records) /\ \A n \in 1..Len(pairs) : pairs[n] \in Records /\ Registered(r, by, pairs[n].obj)
  <2>1. \A rec \in Paired(r, by, records) : rec \in Records /\ Registered(r, by, rec.obj)
    BY DEF Paired
  <2>2. pairs \in Seq(Records)
    BY <1>1, <2>1, SeqMonotonic
  <2>3. \A n \in 1..Len(pairs) : pairs[n] \in Paired(r, by, records)
    BY <1>1
  <2> QED BY <2>1, <2>2, <2>3
<1>4. Good(parked) /\ Keeps(r, parked)
  BY <1>3, ParkingKeeps, LenProperties
<1> HIDE DEF parked
<1>5. \A n \in 1..Len(pairs) : Registered(parked, by, pairs[n].obj)
  BY <1>3, <1>4 DEF Keeps, Records
<1>6. Good(Placing(parked, by, pairs)[Len(pairs)]) /\ Keeps(parked, Placing(parked, by, pairs)[Len(pairs)])
  BY <1>3, <1>4, <1>5, PlacingKeeps
<1> QED BY <1>2, <1>4, <1>6, KeepsTrans

-----------------------------------------------------------------------------
(* What the two passes of renaming come to.                                *)

Mine(e, by, rec) == e.by = by /\ e.obj = rec.obj

Theirs(e, by, P) == e # Free /\ \A rec \in P : ~Mine(e, by, rec)

\* The records are of different entities on different ids, none of them temporary.
Distinct(R) ==
  /\ \A a, b \in R : a.obj = b.obj \/ a.id = b.id => a = b
  /\ \A a \in R : a.id \in Names

\* No entity is customised that is not by its record.
Plain(r, by, R) == \A rec \in R, i \in Ids : Mine(r[i], by, rec) /\ r[i].custom => rec.custom

\* From r to q nobody else's entity was moved, made or removed.
OthersStay(r, q, by, P) ==
  \A i \in Ids : Theirs(r[i], by, P) \/ Theirs(q[i], by, P) => q[i] = r[i]

\* The entities of D are on their ids or on temporary ones.
Docked(q, by, D) == \A rec \in D, i \in Ids : Mine(q[i], by, rec) => i = rec.id \/ i \in Temps

\* The entities of D are back, unless somebody else holds the id.
Back(r, q, by, D, P) ==
  \A rec \in D : Theirs(r[rec.id], by, P) \/ q[rec.id] = Entity(by, rec.obj, rec.custom)

\* Where the passes are when the entities of D have been dealt with.
Parked(r, q, by, P, D) ==
  OthersStay(r, q, by, P) /\ Docked(q, by, D) /\ Plain(q, by, P)

Placed(r, q, by, P, D) ==
  OthersStay(r, q, by, P) /\ Docked(q, by, P) /\ Plain(q, by, P) /\ Back(r, q, by, D, P)

\* One entity goes from an id to another, free one (or stays), and becomes e.
Moved(q, p, from, to, e) ==
  /\ from \in Ids /\ to \in Ids
  /\ to = from \/ q[to] = Free
  /\ p[to] = e
  /\ to # from => p[from] = Free
  /\ \A i \in Ids \ {from, to} : p[i] = q[i]

\* A move of one entity is no matter of the others'.
LEMMA MoveIs ==
  ASSUME NEW by \in Integrations, NEW P \in SUBSET Records, Distinct(P), NEW rec \in P,
         NEW q, NEW p, Good(q), Good(p), NEW from, NEW to, NEW e, Moved(q, p, from, to, e),
         Mine(q[from], by, rec), Mine(e, by, rec)
  PROVE  /\ \A r : OthersStay(r, q, by, P) => OthersStay(r, p, by, P)
         /\ \A other \in P \ {rec}, i \in Ids :
              Mine(q[i], by, other) \/ Mine(p[i], by, other) => p[i] = q[i]
         /\ \A i \in Ids : Mine(p[i], by, rec) => i = to
<1>0. Free.by # by /\ \A other \in P \ {rec} : other.obj # rec.obj
  BY EntityFields DEF Distinct
<1>1. ASSUME NEW r, OthersStay(r, q, by, P), NEW i \in Ids, Theirs(r[i], by, P) \/ Theirs(p[i], by, P)
      PROVE  p[i] = r[i]
  <2>1. i # to
    <3> SUFFICES ASSUME i = to PROVE FALSE
      OBVIOUS
    <3>1. ~Theirs(p[i], by, P)
      BY DEF Moved, Theirs
    <3>2. ~Theirs(q[i], by, P)
      BY DEF Moved, Theirs
    <3> QED BY <1>1, <3>1, <3>2 DEF OthersStay
  <2>2. i # from
    <3> SUFFICES ASSUME i = from PROVE FALSE
      OBVIOUS
    <3>1. ~Theirs(p[i], by, P)
      BY <2>1 DEF Moved, Theirs
    <3>2. ~Theirs(q[i], by, P)
      BY DEF Theirs
    <3> QED BY <1>1, <3>1, <3>2 DEF OthersStay
  <2> QED BY <1>1, <2>1, <2>2 DEF OthersStay, Moved
<1>2. ASSUME NEW other \in P \ {rec}, NEW i \in Ids, Mine(q[i], by, other) \/ Mine(p[i], by, other)
      PROVE  p[i] = q[i]
  BY <1>0, <1>2 DEF Moved, Mine
<1>3. ASSUME NEW i \in Ids, Mine(p[i], by, rec) PROVE i = to
  <2>1. p[to] = e /\ to \in Ids
    BY DEF Moved
  <2>2. p[i] # Free
    BY <1>0, <1>3 DEF Mine
  <2> QED BY <1>3, <2>1, <2>2 DEF Good, OneId, Mine
<1> QED BY <1>1, <1>2, <1>3 DEF OthersStay

\* Renaming is a move.
LEMMA RenameMoves ==
  ASSUME NEW r, Good(r), NEW from \in Ids, NEW to \in Ids, r[from] # Free, r[to] = Free
  PROVE  Moved(r, Rename(r, from, to), from, to, r[from])
<1>1. r \in Registries /\ from # to
  BY DEF Good
<1>2. Rename(r, from, to) = [i \in Ids |-> IF i = from THEN Free ELSE IF i = to THEN r[from] ELSE r[i]]
  BY <1>1 DEF Rename, Registries
<1> QED BY <1>1, <1>2 DEF Moved

\* Parking moves an entity that is not on its id to a temporary one.
LEMMA ParkMoves ==
  ASSUME NEW r, Good(r), NEW by \in Integrations, NEW rec \in Records, Registered(r, by, rec.obj)
  PROVE  \E from, to \in Ids :
           /\ Moved(r, Park(r, by, rec), from, to, r[from]) /\ Mine(r[from], by, rec)
           /\ to = rec.id \/ to \in Temps
<1> DEFINE current == CHOOSE i \in IdOf(r, by, rec.obj) : TRUE
           temp == Min({t \in Temps : r[t] = Free})
<1>1. current \in Ids /\ r[current] # Free /\ Mine(r[current], by, rec)
  <2>1. rec.obj \in Objects
    BY DEF Records
  <2> QED BY <2>1, CurrentIs DEF Mine
<1>2. temp \in Temps /\ temp \in Ids /\ r[temp] = Free
  BY FreeTemp DEF Ids
<1>3. Park(r, by, rec) = IF current = rec.id THEN r ELSE Rename(r, current, temp)
  BY DEF Park
<1> HIDE DEF current, temp
<1>4. CASE current = rec.id
  <2>1. Moved(r, r, current, current, r[current])
    BY <1>1 DEF Moved
  <2> QED BY <1>1, <1>3, <1>4, <2>1
<1>5. CASE current # rec.id
  BY <1>1, <1>2, <1>3, <1>5, RenameMoves
<1> QED BY <1>4, <1>5

\* Placing moves an entity to its id if that is free, and customises it.
LEMMA PlaceMoves ==
  ASSUME NEW r, Good(r), NEW by \in Integrations, NEW rec \in Records, Registered(r, by, rec.obj),
         Plain(r, by, {rec})
  PROVE  \E from, to \in Ids :
           /\ Moved(r, Place(r, by, rec), from, to, Entity(by, rec.obj, rec.custom))
           /\ Mine(r[from], by, rec)
           /\ to = IF r[rec.id] = Free THEN rec.id ELSE from
<1> DEFINE current == CHOOSE i \in IdOf(r, by, rec.obj) : TRUE
           final == IF r[rec.id] = Free THEN rec.id ELSE current
           q == IF final = current THEN r ELSE Rename(r, current, final)
           e == Entity(by, rec.obj, rec.custom)
<1>0. rec.id \in Ids /\ rec.obj \in Objects /\ rec.custom \in BOOLEAN
  BY DEF Records
<1>1. /\ current \in Ids /\ r[current] # Free /\ Mine(r[current], by, rec)
      /\ r[current] \in Entities
  BY <1>0, CurrentIs, RegisteredIs DEF Mine, Good
<1>2. Place(r, by, rec) = Restore(q, final, rec)
  BY DEF Place
<1> HIDE DEF current
<1>3. final \in Ids /\ (final # current => r[final] = Free)
  BY <1>0, <1>1
<1>4. Moved(r, q, current, final, r[current]) /\ Good(q)
  <2>1. CASE final = current
    BY <1>1, <2>1 DEF Moved
  <2>2. CASE final # current
    <3>1. q = Rename(r, current, final)
      BY <2>2
    <3> HIDE DEF q, final
    <3> QED BY <1>1, <1>3, <2>2, <3>1, Renamed, RenameMoves
  <2> QED BY <2>1, <2>2
<1>5. final = IF r[rec.id] = Free THEN rec.id ELSE current
  OBVIOUS
<1> HIDE DEF q, final
<1>6. [r[current] EXCEPT !.custom = @ \/ rec.custom] = e
  <2>1. r[current].custom => rec.custom
    BY <1>1 DEF Plain
  <2>2. r[current] = Entity(by, rec.obj, r[current].custom) /\ r[current].custom \in BOOLEAN
    BY <1>1 DEF Mine, Entity, Entities
  <2>3. (r[current].custom \/ rec.custom) = rec.custom
    BY <1>0, <2>1, <2>2
  <2> QED BY <2>2, <2>3 DEF Entity
<1>7. q[final] = r[current]
  BY <1>4 DEF Moved
<1>8. Restore(q, final, rec) = [q EXCEPT ![final] = e]
  BY <1>6, <1>7 DEF Restore
<1> HIDE DEF e
<1>9. Moved(r, Restore(q, final, rec), current, final, e)
  BY <1>3, <1>4, <1>8 DEF Moved, Good, Registries
<1> QED BY <1>1, <1>2, <1>3, <1>5, <1>9 DEF e

\* An entity more is parked.
LEMMA ParkStep ==
  ASSUME NEW by \in Integrations, NEW P \in SUBSET Records, Distinct(P), NEW rec \in P,
         NEW r, NEW q, Good(q), Registered(q, by, rec.obj), NEW D \in SUBSET P,
         Parked(r, q, by, P, D)
  PROVE  Parked(r, Park(q, by, rec), by, P, D \cup {rec})
<1> DEFINE p == Park(q, by, rec)
<1> USE DEF Parked
<1>1. Good(p)
  BY ParkKeeps
<1>2. PICK from, to \in Ids :
        /\ Moved(q, p, from, to, q[from]) /\ Mine(q[from], by, rec)
        /\ to = rec.id \/ to \in Temps
  BY ParkMoves
<1> HIDE DEF p
<1>3. /\ OthersStay(r, p, by, P)
      /\ \A other \in P \ {rec}, i \in Ids :
           Mine(q[i], by, other) \/ Mine(p[i], by, other) => p[i] = q[i]
      /\ \A i \in Ids : Mine(p[i], by, rec) => i = to
  BY <1>1, <1>2, MoveIs
<1>4. Docked(p, by, D \cup {rec})
  <2> SUFFICES ASSUME NEW d \in D \cup {rec}, NEW i \in Ids, Mine(p[i], by, d)
               PROVE  i = d.id \/ i \in Temps
    BY DEF Docked
  <2>1. CASE d = rec
    BY <1>2, <1>3, <2>1
  <2>2. CASE d # rec
    <3>1. d \in D /\ p[i] = q[i]
      BY <1>3, <2>2
    <3> QED BY <3>1 DEF Docked
  <2> QED BY <2>1, <2>2
<1>5. Plain(p, by, P)
  <2> SUFFICES ASSUME NEW d \in P, NEW i \in Ids, Mine(p[i], by, d), p[i].custom PROVE d.custom
    BY DEF Plain
  <2>1. CASE d = rec
    <3>1. p[i] = q[from]
      BY <1>2, <1>3, <2>1 DEF Moved
    <3> QED BY <1>2, <2>1, <3>1 DEF Plain
  <2>2. CASE d # rec
    <3>1. p[i] = q[i]
      BY <1>3, <2>2
    <3> QED BY <3>1 DEF Plain
  <2> QED BY <2>1, <2>2
<1> QED BY <1>3, <1>4, <1>5 DEF p

\* An entity more is placed: if its id is not free, it is not one of P that holds it, for those
\* are on ids of their own or on temporary ones.
LEMMA PlaceStep ==
  ASSUME NEW by \in Integrations, NEW P \in SUBSET Records, Distinct(P), NEW rec \in P,
         NEW r, NEW q, Good(q), Registered(q, by, rec.obj), NEW D \in SUBSET P,
         Placed(r, q, by, P, D)
  PROVE  Placed(r, Place(q, by, rec), by, P, D \cup {rec})
<1> DEFINE p == Place(q, by, rec)
           e == Entity(by, rec.obj, rec.custom)
<1> USE DEF Placed
<1>0. /\ rec.id \in Names /\ rec.id \in Ids /\ rec.id \notin Temps
      /\ Mine(e, by, rec) /\ e.custom = rec.custom
  <2>1. rec.id \in Names /\ rec.id \in Ids /\ rec.id \notin Temps
    BY IdsAssumption DEF Distinct, Ids
  <2>2. Mine(e, by, rec) /\ e.custom = rec.custom
    BY DEF Mine, Entity
  <2> QED BY <2>1, <2>2
<1>1. Good(p)
  BY PlaceKeeps
<1>2. PICK from, to \in Ids :
        /\ Moved(q, p, from, to, e) /\ Mine(q[from], by, rec)
        /\ to = IF q[rec.id] = Free THEN rec.id ELSE from
  <2>1. Plain(q, by, {rec})
    BY DEF Plain
  <2> QED BY <2>1, PlaceMoves
<1> HIDE DEF p, e
<1>3. /\ OthersStay(r, p, by, P)
      /\ \A other \in P \ {rec}, i \in Ids :
           Mine(q[i], by, other) \/ Mine(p[i], by, other) => p[i] = q[i]
      /\ \A i \in Ids : Mine(p[i], by, rec) => i = to
  BY <1>0, <1>1, <1>2, MoveIs
<1>4. to = rec.id \/ to \in Temps
  BY <1>2 DEF Docked
<1>5. Docked(p, by, P)
  <2> SUFFICES ASSUME NEW d \in P, NEW i \in Ids, Mine(p[i], by, d)
               PROVE  i = d.id \/ i \in Temps
    BY DEF Docked
  <2>1. CASE d = rec
    BY <1>3, <1>4, <2>1
  <2>2. CASE d # rec
    BY <1>3, <2>2 DEF Docked
  <2> QED BY <2>1, <2>2
<1>6. Plain(p, by, P)
  <2> SUFFICES ASSUME NEW d \in P, NEW i \in Ids, Mine(p[i], by, d), p[i].custom PROVE d.custom
    BY DEF Plain
  <2>1. CASE d = rec
    BY <1>0, <1>2, <1>3, <2>1 DEF Moved
  <2>2. CASE d # rec
    <3>1. p[i] = q[i]
      BY <1>3, <2>2
    <3> QED BY <3>1 DEF Plain
  <2> QED BY <2>1, <2>2
<1>7. ASSUME NEW d \in D, d # rec PROVE Theirs(r[d.id], by, P) \/ p[d.id] = Entity(by, d.obj, d.custom)
  <2>1. CASE Theirs(r[d.id], by, P)
    BY <2>1
  <2>2. CASE q[d.id] = Entity(by, d.obj, d.custom)
    <3>1. d.id \in Ids /\ Mine(q[d.id], by, d)
      BY <2>2 DEF Mine, Entity, Records
    <3> QED BY <1>3, <1>7, <2>2, <3>1
  <2> QED BY <2>1, <2>2 DEF Back
<1>8. Theirs(r[rec.id], by, P) \/ p[rec.id] = e
  <2>1. CASE to = rec.id
    BY <1>2, <2>1 DEF Moved
  <2>2. CASE to # rec.id
    <3>1. q[rec.id] # Free /\ to = from
      BY <1>2, <2>2
    <3>2. ~Mine(q[rec.id], by, rec)
      BY <1>0, <1>2, <2>2, <3>1 DEF Good, OneId, Mine
    <3>3. ASSUME NEW other \in P, Mine(q[rec.id], by, other) PROVE FALSE
      <4>1. rec.id = other.id
        BY <1>0, <3>3 DEF Docked
      <4> QED BY <3>2, <3>3, <4>1 DEF Distinct
    <3>4. Theirs(q[rec.id], by, P)
      BY <3>1, <3>3 DEF Theirs
    <3> QED BY <1>0, <3>4 DEF OthersStay
  <2> QED BY <2>1, <2>2
<1>9. Back(r, p, by, D \cup {rec}, P)
  BY <1>7, <1>8 DEF Back, e
<1> QED BY <1>3, <1>5, <1>6, <1>9 DEF p

\* The first n of the pairs.
Firsts(pairs, n) == {pairs[k] : k \in 1..n}

\* However the ids of the records are permuted, and in whatever order they are gone through:
\* every entity that is found comes to its id, unless one that has no record holds it, and no
\* entity without a record is touched (_remap_and_restore).
LEMMA RemapReturns ==
  ASSUME NEW r, Good(r), NEW by \in Integrations, NEW records \in SUBSET Records,
         IsFiniteSet(records), Distinct(records), Plain(r, by, records)
  PROVE  LET P == Paired(r, by, records)
             q == RemapAndRestore(r, by, records)
         IN  OthersStay(r, q, by, P) /\ Back(r, q, by, P, P)
<1> DEFINE P == Paired(r, by, records)
           pairs == SetToSeq(P)
           N == Len(pairs)
           parking == Parking(r, by, pairs)
           parked == parking[N]
           placing == Placing(parked, by, pairs)
<1>0. P \in SUBSET records /\ P \in SUBSET Records /\ \A rec \in P : Registered(r, by, rec.obj) /\ rec.obj \in Objects
  BY DEF Paired, Records
<1>1. Distinct(P) /\ Plain(r, by, P) /\ IsFiniteSet(P)
  BY <1>0, FS_Subset DEF Distinct, Plain
<1>2. RemapAndRestore(r, by, records) = placing[N]
  BY DEF RemapAndRestore
<1> HIDE DEF P
<1>3. /\ pairs \in Seq(P) /\ \A x \in P : \E n \in 1..N : pairs[n] = x
      /\ \A m, n \in 1..N : pairs[m] = pairs[n] => m = n
  BY <1>1, SetToSeqIs
<1> HIDE DEF pairs
<1>4. /\ N \in Nat /\ pairs \in Seq(Records)
      /\ \A n \in 1..N : pairs[n] \in P /\ pairs[n] \in Records
      /\ Firsts(pairs, N) = P /\ Firsts(pairs, 0) = {}
  <2>1. N \in Nat /\ \A n \in 1..N : pairs[n] \in P
    BY <1>3
  <2>2. pairs \in Seq(Records)
    BY <1>0, <1>3, SeqMonotonic
  <2> QED BY <1>0, <1>3, <2>1, <2>2 DEF Firsts
<1>5. ASSUME NEW n \in 1..N
      PROVE  /\ n - 1 \in 0..N /\ n \in 0..N
             /\ Firsts(pairs, n) = Firsts(pairs, n - 1) \cup {pairs[n]}
             /\ Firsts(pairs, n - 1) \in SUBSET P
  <2>1. 1..n = 1..(n - 1) \cup {n} /\ \A k \in 1..(n - 1) : k \in 1..N
    BY <1>4
  <2> QED BY <1>4, <2>1 DEF Firsts
<1>6. \A n \in 1..N : Registered(r, by, pairs[n].obj) /\ pairs[n].obj \in Objects
  BY <1>0, <1>4
<1>7. /\ parking[0] = r /\ \A n \in 1..N : parking[n] = Park(parking[n - 1], by, pairs[n])
      /\ \A n \in 0..N : Good(parking[n]) /\ Keeps(r, parking[n])
  <2> HIDE DEF P
  <2> QED BY <1>4, <1>6, ParkingKeeps
<1>8. Good(parked) /\ Keeps(r, parked)
  BY <1>4, <1>7
<1> HIDE DEF parking
<1> DEFINE S == {n \in 0..N : Parked(r, parking[n], by, P, Firsts(pairs, n))}
<1>9. 0 \in S
  <2>1. Parked(r, r, by, P, {})
    BY <1>1 DEF Parked, OthersStay, Docked
  <2>2. parking[0] = r /\ Firsts(pairs, 0) = {} /\ 0 \in 0..N
    BY <1>4, <1>7
  <2> QED BY <2>1, <2>2
<1>10. ASSUME NEW n \in 1..N, n - 1 \in S PROVE n \in S
  <2> DEFINE q == parking[n - 1]
  <2>1. /\ Good(q) /\ Registered(q, by, pairs[n].obj) /\ parking[n] = Park(q, by, pairs[n])
    BY <1>5, <1>6, <1>7 DEF Keeps
  <2>2. Parked(r, q, by, P, Firsts(pairs, n - 1))
    BY <1>10
  <2> HIDE DEF q
  <2>3. Parked(r, Park(q, by, pairs[n]), by, P, Firsts(pairs, n - 1) \cup {pairs[n]})
    BY <1>0, <1>1, <1>4, <1>5, <2>1, <2>2, ParkStep
  <2>4. Parked(r, parking[n], by, P, Firsts(pairs, n)) /\ n \in 0..N
    BY <1>5, <2>1, <2>3
  <2> QED BY <2>4
<1>11. N \in S
  <2>1. \A n \in 0..N : n \in S
    <3> HIDE DEF S
    <3> QED BY <1>4, <1>9, <1>10, CountingTo
  <2> QED BY <1>4, <2>1
<1>12. OthersStay(r, parked, by, P) /\ Docked(parked, by, P) /\ Plain(parked, by, P)
  BY <1>4, <1>11 DEF Parked
<1> HIDE DEF S, parked
<1>13. \A n \in 1..N : Registered(parked, by, pairs[n].obj)
  BY <1>6, <1>8 DEF Keeps
<1>14. /\ placing[0] = parked /\ \A n \in 1..N : placing[n] = Place(placing[n - 1], by, pairs[n])
       /\ \A n \in 0..N : Good(placing[n]) /\ Keeps(parked, placing[n])
  BY <1>4, <1>8, <1>13, PlacingKeeps
<1> HIDE DEF placing
<1> DEFINE T == {n \in 0..N : Placed(r, placing[n], by, P, Firsts(pairs, n))}
<1>15. 0 \in T
  <2>1. Placed(r, parked, by, P, {})
    BY <1>12 DEF Placed, Back
  <2>2. placing[0] = parked /\ Firsts(pairs, 0) = {} /\ 0 \in 0..N
    BY <1>4, <1>14
  <2> QED BY <2>1, <2>2
<1>16. ASSUME NEW n \in 1..N, n - 1 \in T PROVE n \in T
  <2> DEFINE q == placing[n - 1]
  <2>1. /\ Good(q) /\ Registered(q, by, pairs[n].obj) /\ placing[n] = Place(q, by, pairs[n])
    BY <1>5, <1>6, <1>13, <1>14 DEF Keeps
  <2>2. Placed(r, q, by, P, Firsts(pairs, n - 1))
    BY <1>16
  <2> HIDE DEF q
  <2>3. Placed(r, Place(q, by, pairs[n]), by, P, Firsts(pairs, n - 1) \cup {pairs[n]})
    BY <1>0, <1>1, <1>4, <1>5, <2>1, <2>2, PlaceStep
  <2>4. Placed(r, placing[n], by, P, Firsts(pairs, n)) /\ n \in 0..N
    BY <1>5, <2>1, <2>3
  <2> QED BY <2>4
<1>17. N \in T
  <2>1. \A n \in 0..N : n \in T
    <3> HIDE DEF T
    <3> QED BY <1>4, <1>15, <1>16, CountingTo
  <2> QED BY <1>4, <2>1
<1>18. OthersStay(r, placing[N], by, P) /\ Back(r, placing[N], by, P, P)
  <2>1. Placed(r, placing[N], by, P, P)
    BY <1>4, <1>17
  <2> QED BY <2>1 DEF Placed
<1> QED BY <1>2, <1>18 DEF P, placing, parked, parking, pairs

\* Who registers entities takes free ids, and gives one to each of S.
LEMMA RegistrationsKeep ==
  ASSUME NEW r, Good(r), NEW by \in Integrations, NEW S \in SUBSET Objects,
         NEW q \in Registrations(r, by, S)
  PROVE  /\ Good(q) /\ Keeps(r, q)
         /\ \A i \in Ids : r[i] # Free => q[i] = r[i]
         /\ \A i \in Ids : q[i] = r[i] \/ (i \in Names /\ q[i].by = by /\ ~q[i].custom)
         /\ \A o \in S : Registered(q, by, o)
<1> DEFINE missing == {o \in S : ~Registered(r, by, o)}
           free == {i \in Names : r[i] = Free}
<1>0. \A o \in Objects : /\ Entity(by, o, FALSE) \in Entities
                         /\ Entity(by, o, FALSE).by = by /\ Entity(by, o, FALSE).obj = o
  BY DEF Entity, Entities, Integrations
<1>1. PICK f \in Injection(missing, free) :
        q = [i \in Ids |-> IF \E o \in missing : f[o] = i
                           THEN Entity(by, CHOOSE o \in missing : f[o] = i, FALSE) ELSE r[i]]
  BY DEF Registrations
<1>2. /\ f \in [missing -> free]
      /\ \A o, u \in missing : f[o] = f[u] => o = u
  BY <1>1 DEF Injection, IsInjective
<1>3. \A o \in missing : f[o] \in Ids /\ r[f[o]] = Free /\ o \in Objects
  BY <1>2 DEF Ids
<1>4. \A o \in missing : q[f[o]] = Entity(by, o, FALSE)
  <2> SUFFICES ASSUME NEW o \in missing PROVE q[f[o]] = Entity(by, o, FALSE)
    OBVIOUS
  <2>1. (CHOOSE u \in missing : f[u] = f[o]) = o
    BY <1>2
  <2> HIDE DEF missing, free
  <2> QED BY <1>1, <1>3, <2>1
<1>5. \A i \in Ids : (\A o \in missing : f[o] # i) => q[i] = r[i]
  <2> HIDE DEF missing, free
  <2> QED BY <1>1
<1> HIDE DEF missing, free
<1>6. \A i \in Ids : q[i] = r[i] \/ \E o \in missing : i = f[o] /\ q[i] = Entity(by, o, FALSE)
  BY <1>4, <1>5
<1>7. q \in Registries
  <2>1. \A i \in Ids : q[i] \in Entities \cup {Free}
    <3>1. \A i \in Ids : r[i] \in Entities \cup {Free}
      BY DEF Good, Registries
    <3>2. \A o \in missing : Entity(by, o, FALSE) \in Entities
      BY <1>0, <1>3
    <3> QED BY <1>6, <3>1, <3>2
  <2>2. q = [i \in Ids |-> q[i]]
    BY <1>1
  <2> QED BY <2>1, <2>2 DEF Registries
<1>8. \A i \in Ids : r[i] # Free => q[i] = r[i]
  BY <1>3, <1>6
<1>9. \A o \in missing : \A i \in Ids : ~(r[i] # Free /\ r[i].by = by /\ r[i].obj = o)
  <2>1. \A o \in missing : ~Registered(r, by, o)
    BY DEF missing
  <2> QED BY <2>1 DEF Registered, IdOf
<1>10. OneId(q)
  <2> SUFFICES ASSUME NEW i \in Ids, NEW j \in Ids, q[i] # Free, q[i].by = q[j].by, q[i].obj = q[j].obj
               PROVE  i = j
    BY DEF OneId
  <2>1. q[i] \in Entities /\ q[j] \in Entities
    BY <1>7, RegisteredIs, EntityFields
  <2>2. CASE q[i] = r[i] /\ q[j] = r[j]
    BY <2>2 DEF Good, OneId
  <2>3. ASSUME NEW k \in Ids, NEW o \in missing, q[k] = Entity(by, o, FALSE),
               NEW l \in Ids, q[l] = r[l], q[l] \in Entities
        PROVE  ~(q[l].by = q[k].by /\ q[l].obj = q[k].obj)
    <3>1. q[k].by = by /\ q[k].obj = o
      BY <1>0, <1>3, <2>3
    <3>2. r[l] # Free
      BY <2>3, EntityFields
    <3> QED BY <1>9, <2>3, <3>1, <3>2
  <2>4. CASE (q[i] = r[i]) # (q[j] = r[j])
    BY <1>6, <2>1, <2>3, <2>4
  <2>5. CASE q[i] # r[i] /\ q[j] # r[j]
    <3>1. PICK o \in missing : i = f[o] /\ q[i] = Entity(by, o, FALSE)
      BY <1>6, <2>5
    <3>2. PICK u \in missing : j = f[u] /\ q[j] = Entity(by, u, FALSE)
      BY <1>6, <2>5
    <3>3. q[i].obj = o /\ q[j].obj = u
      BY <1>0, <1>3, <3>1, <3>2
    <3> QED BY <3>1, <3>2, <3>3
  <2> QED BY <2>2, <2>4, <2>5
<1>11. Keeps(r, q)
  <2> SUFFICES ASSUME NEW b \in Integrations, NEW o \in Objects, Registered(r, b, o)
               PROVE  Registered(q, b, o)
    BY DEF Keeps
  <2>1. PICK i \in Ids : r[i] \in Entities /\ r[i].by = b /\ r[i].obj = o
    BY RegisteredIs DEF Good
  <2>2. q[i] = r[i]
    BY <1>8, <2>1, EntityFields
  <2> QED BY <1>7, <2>1, <2>2, RegisteredIs
<1>12. ASSUME NEW o \in S PROVE Registered(q, by, o)
  <2>1. CASE Registered(r, by, o)
    BY <1>11, <2>1 DEF Keeps
  <2>2. CASE o \in missing
    <3>1. f[o] \in Ids /\ q[f[o]] \in Entities /\ q[f[o]].by = by /\ q[f[o]].obj = o
      BY <1>0, <1>3, <1>4, <2>2
    <3> QED BY <1>7, <3>1, RegisteredIs
  <2> QED BY <2>1, <2>2 DEF missing
<1>13. ASSUME NEW i \in Ids, q[i] # r[i] PROVE i \in Names /\ q[i].by = by /\ ~q[i].custom
  <2>1. PICK o \in missing : i = f[o] /\ q[i] = Entity(by, o, FALSE)
    BY <1>6, <1>13
  <2>2. Entity(by, o, FALSE).by = by /\ Entity(by, o, FALSE).custom = FALSE
    BY DEF Entity
  <2>3. f[o] \in Names
    BY <1>2, <2>1 DEF free
  <2> QED BY <2>1, <2>2, <2>3
<1> QED BY <1>7, <1>8, <1>10, <1>11, <1>12, <1>13 DEF Good

\* Entities that are removed take nobody else's id.
LEMMA WithoutKeeps ==
  ASSUME NEW r, Good(r), NEW ids
  PROVE  /\ Good(Without(r, ids))
         /\ \A i \in Ids \ ids : Without(r, ids)[i] = r[i]
         /\ \A i \in Ids \cap ids : Without(r, ids)[i] = Free
<1> DEFINE q == Without(r, ids)
<1>1. q = [i \in Ids |-> IF i \in ids THEN Free ELSE r[i]]
  BY DEF Without
<1> HIDE DEF q
<1>2. q \in Registries
  BY <1>1 DEF Registries, Good
<1>3. \A i \in Ids : q[i] # Free => q[i] = r[i]
  BY <1>1
<1>4. OneId(q)
  <2> SUFFICES ASSUME NEW i \in Ids, NEW j \in Ids, q[i] # Free, q[i].by = q[j].by, q[i].obj = q[j].obj
               PROVE  i = j
    BY DEF OneId
  <2>1. q[i] \in Entities /\ q[j] \in Entities
    BY <1>2, RegisteredIs, EntityFields
  <2> QED BY <1>3, <2>1, EntityFields DEF Good, OneId
<1> QED BY <1>1, <1>2, <1>4 DEF Good, q

LEMMA OtherHolder ==
  ASSUME NEW r, Good(r)
  PROVE  \A o \in Objects : Registered(r, "legacy", o) => Registered(Without(r, HeldBy(r, "ce")), "legacy", o)
<1> SUFFICES ASSUME NEW o \in Objects, Registered(r, "legacy", o)
             PROVE  Registered(Without(r, HeldBy(r, "ce")), "legacy", o)
  OBVIOUS
<1>1. PICK i \in Ids : r[i] \in Entities /\ r[i].by = "legacy" /\ r[i].obj = o
  BY RegisteredIs DEF Good, Integrations
<1>2. i \notin HeldBy(r, "ce")
  BY <1>1 DEF HeldBy
<1> QED BY <1>1, <1>2, WithoutKeeps, RegisteredIs DEF Good, Integrations

\* The legacy integration has an entity of every object.
AllLegacy(r) == \A o \in Objects : Registered(r, "legacy", o)

Covers(S) == \A o \in Objects : \E rec \in S : rec.obj = o

\* A record for each of its entities, and no more.
LEMMA CollectedIs ==
  ASSUME NEW r, Good(r), NEW matched
  PROVE  /\ Collected(r, matched) \in SUBSET Records
         /\ IsFiniteSet(Collected(r, matched))
         /\ AllLegacy(r) => Covers(Collected(r, matched))
<1> DEFINE ids == HeldBy(r, "legacy")
           record(i) == [obj |-> r[i].obj, id |-> i, custom |-> r[i].custom, matched |-> r[i].obj \in matched]
           f == [i \in ids |-> record(i)]
           g == [i \in ids |-> r[i].obj]
<1>1. \A i \in ids : i \in Ids /\ r[i] \in Entities /\ r[i].by = "legacy"
  BY RegisteredIs, EntityFields DEF HeldBy, Good, Integrations
<1>2. Collected(r, matched) = {record(i) : i \in ids}
  BY DEF Collected
<1>3. \A i \in ids : record(i) \in Records /\ record(i).obj = r[i].obj
  BY <1>1, EntityFields DEF Records
<1>4. IsFiniteSet(ids)
  <2>1. g \in [ids -> Objects]
    BY <1>1, EntityFields
  <2>2. \A i, j \in ids : g[i] = g[j] => i = j
    <3> SUFFICES ASSUME NEW i \in ids, NEW j \in ids, r[i].obj = r[j].obj PROVE i = j
      OBVIOUS
    <3> HIDE DEF ids
    <3> QED BY <1>1, EntityFields DEF Good, OneId
  <2> HIDE DEF ids, g
  <2>3. g \in Injection(ids, Objects)
    BY <2>1, <2>2 DEF Injection, IsInjective
  <2> QED BY <2>3, FS_Injection, NamesAssumption
<1>5. IsFiniteSet(Collected(r, matched))
  <2> HIDE DEF ids, record
  <2>1. f \in [ids -> Collected(r, matched)]
    BY <1>2
  <2>2. \A y \in Collected(r, matched) : \E i \in ids : f[i] = y
    BY <1>2
  <2>3. f \in Surjection(ids, Collected(r, matched))
    BY <2>1, <2>2 DEF Surjection
  <2> HIDE DEF f
  <2> QED BY <1>4, <2>3, FS_Surjection
<1>6. ASSUME AllLegacy(r), NEW o \in Objects PROVE \E rec \in Collected(r, matched) : rec.obj = o
  <2>1. PICK i \in Ids : r[i] \in Entities /\ r[i].by = "legacy" /\ r[i].obj = o
    BY <1>6, RegisteredIs DEF AllLegacy, Good, Integrations
  <2>2. i \in ids
    BY <2>1 DEF HeldBy
  <2> QED BY <1>2, <1>3, <2>1, <2>2
<1> QED BY <1>2, <1>3, <1>5, <1>6 DEF Covers

-----------------------------------------------------------------------------
(* Type correctness                                                        *)

\* The registry and what is written of it give an entity one id; records are kept of
\* finitely many entities.
TypeInv ==
  /\ TypeOK
  /\ Good(reg) /\ Good(disk)
  /\ IsFiniteSet(fresh) /\ IsFiniteSet(held) /\ IsFiniteSet(data.records)

\* What TypeOK says of the other variables.
Typed ==
  /\ pc \in {"none", "start", "disabling", "backup", "freeing", "forward", "finalizing", "loaded", "failed", "removed"}
  /\ data \in [done: BOOLEAN, records: SUBSET Records, bridge: BOOLEAN]
  /\ fresh \subseteq Records /\ held \subseteq Records
  /\ legacy \in [state: {"gone", "enabled", "disabled"}, up: BOOLEAN]
  /\ \A s \in snapshots : s \subseteq Records
  /\ unsaved \in BOOLEAN /\ files \in [there: BOOLEAN, resolves: BOOLEAN]
  /\ known \in {"unchecked", "installed", "missing"}
  /\ issues \subseteq {"offer", "failed", "orphaned"}
  /\ task \in {"none", "check", "remove", "enable", "prune"}
  /\ IsFiniteSet(fresh) /\ IsFiniteSet(held) /\ IsFiniteSet(data.records)

LEMMA TypeInvIs == TypeInv <=> Typed /\ Good(reg) /\ Good(disk)
  BY DEF TypeInv, TypeOK, Typed, Good, OneId, Registries

\* The legacy integration's entities before the first set-up.
LEMMA InitGood == Init => Good(reg) /\ AllLegacy(reg) /\ disk = reg
<1> SUFFICES ASSUME Init PROVE Good(reg) /\ AllLegacy(reg)
  BY DEF Init
<1> DEFINE f == CHOOSE f \in Injection(Objects, Names) : TRUE
<1>1. f \in [Objects -> Names] /\ \A o, u \in Objects : f[o] = f[u] => o = u
  <2>1. f \in Injection(Objects, Names)
    BY NamesAssumption
  <2> HIDE DEF f
  <2> QED BY <2>1 DEF Injection, IsInjective
<1>2. reg = [i \in Ids |-> IF i \in Range(f)
                           THEN LET o == CHOOSE o \in Objects : f[o] = i
                                IN  Entity("legacy", o, o \in Customised)
                           ELSE Free]
  BY DEF Init
<1> HIDE DEF f
<1>3. \A o \in Objects : /\ Entity("legacy", o, o \in Customised) \in Entities
                         /\ Entity("legacy", o, o \in Customised).by = "legacy"
                         /\ Entity("legacy", o, o \in Customised).obj = o
  BY DEF Entity, Entities
<1>4. \A o \in Objects : f[o] \in Ids /\ reg[f[o]] = Entity("legacy", o, o \in Customised)
  <2> SUFFICES ASSUME NEW o \in Objects
               PROVE  f[o] \in Ids /\ reg[f[o]] = Entity("legacy", o, o \in Customised)
    OBVIOUS
  <2>1. f[o] \in Ids /\ f[o] \in Range(f) /\ (CHOOSE u \in Objects : f[u] = f[o]) = o
    BY <1>1 DEF Ids, Range
  <2> QED BY <1>2, <2>1
<1>5. \A i \in Ids : reg[i] = Free \/ \E o \in Objects : i = f[o] /\ reg[i] = Entity("legacy", o, o \in Customised)
  <2> SUFFICES ASSUME NEW i \in Ids, reg[i] # Free
               PROVE  \E o \in Objects : i = f[o] /\ reg[i] = Entity("legacy", o, o \in Customised)
    OBVIOUS
  <2>1. i \in Range(f)
    BY <1>2
  <2>2. PICK o \in Objects : i = f[o]
    BY <1>1, <2>1 DEF Range
  <2> QED BY <1>4, <2>2
<1>6. reg \in Registries
  <2>1. \A i \in Ids : reg[i] \in Entities \cup {Free}
    BY <1>3, <1>5
  <2>2. reg = [i \in Ids |-> reg[i]]
    BY <1>2
  <2> QED BY <2>1, <2>2 DEF Registries
<1>7. OneId(reg)
  <2> SUFFICES ASSUME NEW i \in Ids, NEW j \in Ids, reg[i] # Free, reg[i].by = reg[j].by, reg[i].obj = reg[j].obj
               PROVE  i = j
    BY DEF OneId
  <2>1. reg[i] \in Entities /\ reg[j] \in Entities
    BY <1>6, RegisteredIs, EntityFields
  <2>2. PICK o \in Objects : i = f[o] /\ reg[i] = Entity("legacy", o, o \in Customised)
    BY <1>5
  <2>3. PICK u \in Objects : j = f[u] /\ reg[j] = Entity("legacy", u, u \in Customised)
    BY <1>5, <2>1, EntityFields
  <2>4. o = u
    BY <1>3, <2>2, <2>3
  <2> QED BY <2>2, <2>3, <2>4
<1>8. AllLegacy(reg)
  BY <1>3, <1>4, <1>6, RegisteredIs DEF AllLegacy, Integrations
<1> QED BY <1>6, <1>7, <1>8 DEF Good

\* What a step does to the registry: it removes entities, goes back to what is written, or
\* keeps who is registered.
LEMMA RegistryStep ==
  ASSUME TypeInv, [Next]_vars
  PROVE  /\ Good(reg') /\ disk' \in {reg, disk}
         /\ \/ Keeps(reg, reg')
            \/ Crash /\ reg' = disk
            \/ legacy'.state = "gone"
            \/ FreeAndPersist /\ data'.done
            \/ RemoveEntry
<1>0. /\ Good(reg) /\ Good(disk) /\ Keeps(reg, reg)
      /\ fresh \in SUBSET Records /\ IsFiniteSet(fresh) /\ held \in SUBSET Records /\ IsFiniteSet(held)
  BY TypeInvIs DEF Typed, Keeps
<1>1. ASSUME UNCHANGED <<reg, disk>> PROVE Good(reg') /\ disk' \in {reg, disk} /\ Keeps(reg, reg')
  BY <1>0, <1>1
<1>2. CASE \/ AddEntry \/ Reload \/ NothingToAdopt \/ DisableLegacy \/ AbortAdoption \/ Collect
           \/ WriteBackup \/ ForwardFails \/ Poll \/ PressRollback \/ IgnoreOffer
           \/ ConfirmRollback \/ RollbackCheck \/ RemoveBackups \/ Uninstall \/ UNCHANGED vars
  BY <1>1, <1>2 DEF AddEntry, Reload, NothingToAdopt, DisableLegacy, AbortAdoption, Collect,
       WriteBackup, ForwardFails, Poll, PressRollback, IgnoreOffer, ConfirmRollback, RollbackCheck,
       RemoveBackups, Uninstall, vars
<1>3. CASE FreeAndPersist
  <2>1. \/ UNCHANGED <<reg, disk>>
        \/ reg' = Without(reg, {rec.id : rec \in fresh}) /\ data'.done /\ disk' = disk
    BY <1>3 DEF FreeAndPersist
  <2> QED BY <1>0, <1>1, <1>3, <2>1, WithoutKeeps
<1>4. CASE ForwardPlatforms
  <2>1. (\E S \in SUBSET Objects : reg' \in Registrations(reg, "ce", S)) /\ disk' = disk
    BY <1>4 DEF ForwardPlatforms
  <2> QED BY <1>0, <2>1, RegistrationsKeep DEF Integrations
<1>5. CASE Finalize
  <2>1. reg' = RemapAndRestore(reg, "ce", fresh) /\ disk' = disk
    BY <1>5 DEF Finalize
  <2> QED BY <1>0, <2>1, RemapKeeps DEF Integrations
<1>6. CASE Discover
  <2>1. (\E o \in Objects : reg' \in Registrations(reg, "ce", {o})) /\ disk' = disk
    BY <1>6 DEF Discover
  <2>2. \A o \in Objects : {o} \in SUBSET Objects
    OBVIOUS
  <2> QED BY <1>0, <2>1, <2>2, RegistrationsKeep DEF Integrations
<1>7. CASE ConfirmOrphaned \/ DeleteLegacy
  <2>1. reg' = Without(reg, HeldBy(reg, "legacy")) /\ disk' = disk /\ legacy'.state = "gone"
    BY <1>7 DEF ConfirmOrphaned, DeleteLegacy, LegacyRemoved
  <2> QED BY <1>0, <2>1, WithoutKeeps
<1>8. CASE RemoveEntry
  <2>1. reg' = Without(reg, HeldBy(reg, "ce")) /\ disk' = disk
    BY <1>8 DEF RemoveEntry
  <2> QED BY <1>0, <1>8, <2>1, WithoutKeeps
<1>9. CASE EnableLegacy
  <2>1. CASE legacy.state = "gone"
    BY <1>1, <1>9, <2>1 DEF EnableLegacy
  <2>2. CASE legacy.state # "gone"
    <3>1. PICK r : /\ r \in {reg} \cup Registrations(reg, "legacy", Objects)
                   /\ reg' = RemapAndRestore(r, "legacy", held)
      BY <1>9, <2>2 DEF EnableLegacy
    <3>2. Good(r) /\ Keeps(reg, r)
      BY <1>0, <3>1, RegistrationsKeep DEF Integrations
    <3>3. Good(reg') /\ Keeps(r, reg')
      BY <1>0, <3>1, <3>2, RemapKeeps DEF Integrations
    <3>4. disk' = disk
      BY <1>9 DEF EnableLegacy
    <3> QED BY <3>2, <3>3, <3>4, KeepsTrans
  <2> QED BY <2>1, <2>2
<1>10. CASE LegacyDiscovers
  <2>1. reg' \in Registrations(reg, "legacy", Objects) /\ disk' = disk
    BY <1>10 DEF LegacyDiscovers
  <2> QED BY <1>0, <2>1, RegistrationsKeep DEF Integrations
<1>11. CASE WriteRegistry
  BY <1>0, <1>11 DEF WriteRegistry
<1>12. CASE Crash
  BY <1>0, <1>12 DEF Crash
<1> QED BY <1>2, <1>3, <1>4, <1>5, <1>6, <1>7, <1>8, <1>9, <1>10, <1>11, <1>12 DEF Next

LEMMA NoDataType ==
  /\ NoData \in [done: BOOLEAN, records: SUBSET Records, bridge: BOOLEAN]
  /\ NoData.done = FALSE /\ NoData.records = {} /\ NoData.bridge = FALSE
  BY DEF NoData

LEMMA TypedStep ==
  ASSUME TypeInv, [Next]_vars
  PROVE  Typed'
<1> USE DEF Typed, setup, repair
<1>0. /\ Typed /\ Good(reg) /\ IsFiniteSet({}) /\ NoData.records = {}
      /\ NoData \in [done: BOOLEAN, records: SUBSET Records, bridge: BOOLEAN]
  BY TypeInvIs, NoDataType, FS_EmptySet
<1>1. CASE AddEntry \/ Reload
  BY <1>0, <1>1 DEF AddEntry, Reload
<1>2. CASE NothingToAdopt
  <2>1. \/ UNCHANGED data
        \/ data' = [NoData EXCEPT !.done = TRUE]
    BY <1>2 DEF NothingToAdopt
  <2>2. [NoData EXCEPT !.done = TRUE] \in [done: BOOLEAN, records: SUBSET Records, bridge: BOOLEAN]
        /\ [NoData EXCEPT !.done = TRUE].records = {}
    BY DEF NoData
  <2> QED BY <1>0, <1>2, <2>1, <2>2 DEF NothingToAdopt
<1>3. CASE DisableLegacy \/ AbortAdoption
  BY <1>0, <1>3 DEF DisableLegacy, AbortAdoption
<1>4. CASE Collect
  <2>1. PICK matched : fresh' = Collected(reg, matched)
    BY <1>4 DEF Collect
  <2>2. fresh' \subseteq Records /\ IsFiniteSet(fresh')
    BY <1>0, <2>1, CollectedIs
  <2>3. legacy' \in [state: {"gone", "enabled", "disabled"}, up: BOOLEAN]
    BY <1>0, <1>4 DEF Collect
  <2>4. pc' = "backup" /\ UNCHANGED <<data, snapshots, unsaved, files, known, issues, task, held>>
    BY <1>4 DEF Collect
  <2> QED BY <1>0, <2>2, <2>3, <2>4
<1>5. CASE WriteBackup
  <2>1. /\ \A s \in snapshots' : s \subseteq Records
        /\ unsaved' \in BOOLEAN /\ pc' = "freeing"
    BY <1>0, <1>5 DEF WriteBackup
  <2>2. UNCHANGED <<data, fresh, legacy, files, known, issues, task, held>>
    BY <1>5 DEF WriteBackup
  <2> QED BY <1>0, <2>1, <2>2
<1>6. CASE FreeAndPersist
  <2>1. \A s \in snapshots' : s \subseteq Records
    BY <1>0, <1>6 DEF FreeAndPersist, Pruned
  <2>2. data' \in [done: BOOLEAN, records: SUBSET Records, bridge: BOOLEAN] /\ data'.records \in {data.records, fresh}
    <3>1. data' = data \/ data' = [done |-> TRUE, records |-> fresh, bridge |-> TRUE]
      BY <1>6 DEF FreeAndPersist
    <3>2. [done |-> TRUE, records |-> fresh, bridge |-> TRUE]
            \in [done: BOOLEAN, records: SUBSET Records, bridge: BOOLEAN]
      BY <1>0
    <3>3. [done |-> TRUE, records |-> fresh, bridge |-> TRUE].records = fresh
      OBVIOUS
    <3>4. CASE data' = data
      BY <1>0, <3>4
    <3>5. CASE data' = [done |-> TRUE, records |-> fresh, bridge |-> TRUE]
      BY <3>2, <3>3, <3>5
    <3> QED BY <3>1, <3>4, <3>5
  <2>3. /\ pc' \in {"forward", "failed"}
        /\ UNCHANGED <<fresh, legacy, unsaved, files, known, issues, task, held>>
    BY <1>6 DEF FreeAndPersist
  <2> QED BY <1>0, <2>1, <2>2, <2>3
<1>7. CASE ForwardPlatforms \/ ForwardFails \/ Finalize \/ Discover
  <2>1. /\ pc' \in {pc, "finalizing", "failed", "loaded"}
        /\ UNCHANGED <<data, fresh, legacy, snapshots, unsaved, files, known, issues, task, held>>
    BY <1>7 DEF ForwardPlatforms, ForwardFails, Finalize, Discover
  <2> QED BY <1>0, <2>1
<1>8. CASE Poll
  BY <1>0, <1>8 DEF Poll
<1>9. CASE PressRollback \/ IgnoreOffer \/ ConfirmRollback
  BY <1>0, <1>9 DEF PressRollback, IgnoreOffer, ConfirmRollback
<1>10. CASE ConfirmOrphaned \/ DeleteLegacy
  <2>1. /\ legacy' = [state |-> "gone", up |-> FALSE] /\ issues' \subseteq issues
        /\ UNCHANGED <<pc, data, fresh, snapshots, unsaved, files, known, task, held>>
    BY <1>10 DEF ConfirmOrphaned, DeleteLegacy, LegacyRemoved
  <2> QED BY <1>0, <2>1
<1>11. CASE RollbackCheck
  <2>1. /\ task' \in {"remove", "none"} /\ held' \in {held, data.records} /\ issues' \subseteq issues \cup {"failed"}
        /\ UNCHANGED <<pc, data, fresh, legacy, snapshots, unsaved, files, known>>
    BY <1>11 DEF RollbackCheck, RollbackRefused
  <2> QED BY <1>0, <2>1
<1>12. CASE RemoveEntry
  <2>1. /\ pc' = "removed" /\ data' = NoData /\ fresh' = {} /\ task' = "enable"
        /\ UNCHANGED <<legacy, snapshots, unsaved, files, known, issues, held>>
    BY <1>12 DEF RemoveEntry
  <2> QED BY <1>0, <2>1
<1>13. CASE EnableLegacy
  <2>1. \/ UNCHANGED legacy
        \/ \E up \in Outcomes : legacy' = [state |-> "enabled", up |-> up \/ legacy.up]
    BY <1>13 DEF EnableLegacy
  <2>2. legacy' \in [state: {"gone", "enabled", "disabled"}, up: BOOLEAN]
    BY <1>0, <2>1, OutcomesAssumption
  <2>3. /\ task' \in {"none", "prune"} /\ issues' \subseteq issues \cup {"failed"}
        /\ UNCHANGED <<pc, data, fresh, snapshots, unsaved, files, known, held>>
    BY <1>13 DEF EnableLegacy, RollbackRefused
  <2> QED BY <1>0, <2>2, <2>3
<1>14. CASE RemoveBackups
  BY <1>0, <1>14 DEF RemoveBackups
<1>15. CASE LegacyDiscovers
  <2>1. legacy' \in [state: {"gone", "enabled", "disabled"}, up: BOOLEAN]
    BY <1>0, <1>15 DEF LegacyDiscovers
  <2>2. UNCHANGED <<pc, data, fresh, snapshots, unsaved, files, known, issues, task, held>>
    BY <1>15 DEF LegacyDiscovers
  <2> QED BY <1>0, <2>1, <2>2
<1>16. CASE Uninstall \/ WriteRegistry
  BY <1>0, <1>16 DEF Uninstall, WriteRegistry
<1>17. CASE Crash
  <2>1. /\ legacy' \in [state: {"gone", "enabled", "disabled"}, up: BOOLEAN]
        /\ files' \in [there: BOOLEAN, resolves: BOOLEAN]
    BY <1>0, <1>17 DEF Crash
  <2>2. /\ pc' \in {pc, "start"} /\ fresh' = {} /\ known' = "unchecked" /\ issues' = {}
        /\ task' = "none" /\ held' = {} /\ UNCHANGED <<data, snapshots, unsaved>>
    BY <1>17 DEF Crash
  <2> QED BY <1>0, <2>1, <2>2
<1>18. CASE UNCHANGED vars
  BY <1>0, <1>18 DEF vars
<1> QED BY <1>1, <1>2, <1>3, <1>4, <1>5, <1>6, <1>7, <1>8, <1>9, <1>10, <1>11, <1>12, <1>13, <1>14,
           <1>15, <1>16, <1>17, <1>18 DEF Next

LEMMA TypeInit == Init => TypeInv
<1> SUFFICES ASSUME Init PROVE Typed /\ Good(reg) /\ Good(disk)
  BY TypeInvIs
<1>1. Good(reg) /\ Good(disk)
  BY InitGood
<1>2. Typed
  BY NoDataType, FS_EmptySet DEF Init, Typed
<1> QED BY <1>1, <1>2

LEMMA TypeStep == TypeInv /\ [Next]_vars => TypeInv'
<1> SUFFICES ASSUME TypeInv, [Next]_vars PROVE TypeInv'
  OBVIOUS
<1>1. Typed' /\ Good(reg') /\ Good(disk')
  BY TypedStep, RegistryStep, TypeInvIs
<1> QED BY <1>1 DEF TypeInv, TypeOK, Typed, Good, OneId, Registries

\* The registry and what is written of it have one id for an entity.
LEMMA TypeInvHolds == Spec => []TypeInv
  BY TypeInit, TypeStep, PTL DEF Spec

\* Every variable keeps its type, and the registry has one id for an entity, however the
\* entities are parked and renamed (_remap_and_restore).
THEOREM TypesKept == Spec => []TypeOK
<1>1. TypeInv => TypeOK
  BY DEF TypeInv
<1> QED BY <1>1, TypeInvHolds, PTL

-----------------------------------------------------------------------------
(* No id is forgotten.                                                     *)

SnapshotCovers == unsaved \/ \E S \in snapshots : Covers(S)

\* What was adopted is in the entry's data until the entry is removed; the rollback removes
\* the entry that has adopted, and then enables the legacy one, before the backups go.
PhaseInv ==
  /\ data.bridge => data.done
  /\ data.done => data.bridge \/ legacy.state = "gone"
  /\ pc \in {"none", "removed"} => data = NoData
  /\ pc \in {"disabling", "backup", "freeing"} => ~data.done
  /\ task = "remove" => data.bridge
  /\ task \in {"enable", "prune"} => pc = "removed"
  /\ task = "prune" => legacy.state # "disabled"

\* The registry and what is written of it have the ids until the adoption is persisted; from
\* then on the records have them, and a snapshot that outlives the entry.
KnownInv ==
  /\ ~data.done /\ pc # "removed" => AllLegacy(reg) /\ AllLegacy(disk)
  /\ pc \in {"backup", "freeing"} => Covers(fresh)
  /\ pc = "freeing" => unsaved \/ fresh \in snapshots
  /\ data.bridge => Covers(data.records) /\ SnapshotCovers
  /\ pc = "removed" /\ legacy.state = "disabled" => SnapshotCovers

HistInv == legacy.state # "gone" => KnownInv

LEMMA HistoryHolds == TypeInv /\ PhaseInv /\ HistInv => HistoryKept
<1> SUFFICES ASSUME TypeInv, PhaseInv, HistInv, legacy.state = "disabled", ~unsaved, NEW o \in Objects
             PROVE  \/ Registered(reg, "legacy", o)
                    \/ \E S \in snapshots \cup {data.records} : \E rec \in S : rec.obj = o
  BY DEF HistoryKept
<1>1. CASE ~data.done /\ pc # "removed"
  BY <1>1 DEF HistInv, KnownInv, AllLegacy
<1>2. CASE pc = "removed"
  BY <1>2 DEF HistInv, KnownInv, SnapshotCovers, Covers
<1>3. CASE data.done
  BY <1>3 DEF PhaseInv, HistInv, KnownInv, Covers
<1> QED BY <1>1, <1>2, <1>3

LEMMA PhaseInit == Init => PhaseInv
  BY DEF Init, PhaseInv, NoData

LEMMA PhaseStep ==
  ASSUME TypeInv, PhaseInv, [Next]_vars
  PROVE  PhaseInv'
<1> USE DEF PhaseInv, setup, repair
<1>0. /\ PhaseInv /\ NoData.done = FALSE /\ NoData.bridge = FALSE
      /\ data \in [done: BOOLEAN, records: SUBSET Records, bridge: BOOLEAN]
      /\ legacy \in [state: {"gone", "enabled", "disabled"}, up: BOOLEAN]
  BY NoDataType DEF TypeInv, TypeOK
<1>1. CASE AddEntry \/ Reload
  BY <1>0, <1>1 DEF AddEntry, Reload
<1>2. CASE NothingToAdopt
  <2>1. \/ UNCHANGED data
        \/ legacy.state = "gone" /\ ~data.done /\ data'.done /\ ~data'.bridge
    BY <1>2 DEF NothingToAdopt, NoData
  <2>2. pc = "start" /\ pc' = "forward" /\ UNCHANGED <<legacy, task>>
    BY <1>2 DEF NothingToAdopt
  <2> QED BY <1>0, <2>1, <2>2
<1>3. CASE DisableLegacy
  <2>1. legacy'.state = "disabled" /\ pc = "start" /\ pc' = "disabling" /\ ~data.done /\ legacy.state # "gone"
        /\ UNCHANGED <<data, task>>
    BY <1>0, <1>3 DEF DisableLegacy
  <2> QED BY <1>0, <2>1
<1>4. CASE AbortAdoption \/ WriteBackup
  BY <1>0, <1>4 DEF AbortAdoption, WriteBackup
<1>5. CASE Collect
  <2>1. /\ pc \in {"start", "disabling"} /\ pc' = "backup" /\ legacy'.state = legacy.state
        /\ UNCHANGED <<data, task>> /\ (pc = "start" => ~data.done)
    BY <1>0, <1>5 DEF Collect
  <2> QED BY <1>0, <2>1
<1>6. CASE FreeAndPersist
  <2>1. /\ pc = "freeing" /\ pc' \in {"forward", "failed"} /\ UNCHANGED <<legacy, task>>
        /\ (UNCHANGED data \/ (data'.done /\ data'.bridge))
    BY <1>6 DEF FreeAndPersist
  <2> QED BY <1>0, <2>1
<1>7. CASE ForwardPlatforms \/ ForwardFails \/ Finalize \/ Discover
  <2>1. /\ pc \in {"forward", "finalizing", "loaded"} /\ pc' \in {"finalizing", "failed", "loaded"}
        /\ UNCHANGED <<data, legacy, task>>
    BY <1>7 DEF ForwardPlatforms, ForwardFails, Finalize, Discover
  <2> QED BY <1>0, <2>1
<1>8. CASE Poll \/ PressRollback \/ IgnoreOffer \/ Uninstall \/ WriteRegistry \/ UNCHANGED vars
  <2>1. UNCHANGED <<pc, data, legacy, task>>
    BY <1>8 DEF Poll, PressRollback, IgnoreOffer, Uninstall, WriteRegistry, vars
  <2> QED BY <1>0, <2>1
<1>9. CASE ConfirmRollback
  <2>1. task = "none" /\ task' \in {"none", "check"} /\ UNCHANGED <<pc, data, legacy>>
    BY <1>9 DEF ConfirmRollback
  <2> QED BY <1>0, <2>1
<1>10. CASE ConfirmOrphaned \/ DeleteLegacy
  <2>1. legacy'.state = "gone" /\ UNCHANGED <<pc, data, task>>
    BY <1>10 DEF ConfirmOrphaned, DeleteLegacy, LegacyRemoved
  <2> QED BY <1>0, <2>1
<1>11. CASE RollbackCheck
  <2>1. /\ task' = "none" \/ (task' = "remove" /\ data.bridge)
        /\ UNCHANGED <<pc, data, legacy>>
    BY <1>11 DEF RollbackCheck, RollbackRefused, Bridge
  <2> QED BY <1>0, <2>1
<1>12. CASE RemoveEntry
  <2>1. pc' = "removed" /\ data' = NoData /\ task' = "enable" /\ UNCHANGED legacy
    BY <1>12 DEF RemoveEntry
  <2> QED BY <1>0, <2>1
<1>13. CASE EnableLegacy
  <2>1. /\ task = "enable" /\ UNCHANGED <<pc, data>>
        /\ \/ task' = "none" /\ UNCHANGED legacy
           \/ task' = "prune" /\ legacy.state # "gone" /\ legacy'.state = "enabled"
    BY <1>13 DEF EnableLegacy, RollbackRefused
  <2> QED BY <1>0, <2>1
<1>14. CASE RemoveBackups
  BY <1>0, <1>14 DEF RemoveBackups
<1>15. CASE LegacyDiscovers
  <2>1. legacy'.state = legacy.state /\ UNCHANGED <<pc, data, task>>
    BY <1>0, <1>15 DEF LegacyDiscovers
  <2> QED BY <1>0, <2>1
<1>16. CASE Crash
  <2>1. /\ pc' = IF pc \in {"none", "removed"} THEN pc ELSE "start"
        /\ legacy'.state = legacy.state /\ task' = "none" /\ UNCHANGED data
    BY <1>0, <1>16 DEF Crash
  <2> QED BY <1>0, <2>1
<1> QED BY <1>1, <1>2, <1>3, <1>4, <1>5, <1>6, <1>7, <1>8, <1>9, <1>10, <1>11, <1>12, <1>13, <1>14,
           <1>15, <1>16 DEF Next

LEMMA HistInit == Init => HistInv
  BY InitGood DEF Init, HistInv, KnownInv, NoData

\* What leaves the phase, the records and the snapshots keeps what is known, if it loses no
\* entity or goes back to what is written.
LEMMA KnownStays ==
  ASSUME KnownInv, UNCHANGED <<data, snapshots, unsaved>>,
         pc' = pc \/ pc' \notin {"backup", "freeing", "removed"},
         pc = "removed" => pc' = "removed",
         pc' \in {"backup", "freeing"} => UNCHANGED fresh,
         pc' = "removed" /\ legacy'.state = "disabled" => legacy.state = "disabled",
         Keeps(reg, reg') \/ reg' = disk, disk' \in {reg, disk}
  PROVE  KnownInv'
<1>1. ~data.done /\ pc # "removed" => AllLegacy(reg') /\ AllLegacy(disk')
  BY DEF KnownInv, AllLegacy, Keeps, Integrations
<1> QED BY <1>1 DEF KnownInv, SnapshotCovers

\* The set-up: what is collected is all there is, and is in the records before it is freed.
LEMMA SetupKnows ==
  ASSUME TypeInv, PhaseInv, KnownInv, legacy.state # "gone",
         Collect \/ WriteBackup \/ FreeAndPersist
  PROVE  KnownInv'
<1>0. /\ Good(reg) /\ pc \in {"start", "disabling", "backup", "freeing"} /\ ~data.done /\ ~data.bridge
      /\ AllLegacy(reg) /\ AllLegacy(disk)
  BY TypeInvIs DEF PhaseInv, KnownInv, Collect, WriteBackup, FreeAndPersist
<1>1. CASE Collect
  <2>1. PICK matched : fresh' = Collected(reg, matched)
    BY <1>1 DEF Collect
  <2>2. Covers(fresh')
    BY <1>0, <2>1, CollectedIs
  <2>3. pc' = "backup" /\ UNCHANGED <<data, reg, snapshots, unsaved, disk>>
    BY <1>1 DEF Collect
  <2> QED BY <1>0, <2>2, <2>3 DEF KnownInv
<1>2. CASE WriteBackup
  <2>1. Covers(fresh)
    BY <1>2 DEF WriteBackup, KnownInv
  <2>2. pc' = "freeing" /\ UNCHANGED <<data, fresh, reg, disk>> /\ (unsaved' \/ fresh \in snapshots')
    BY <1>2 DEF WriteBackup
  <2> QED BY <1>0, <2>1, <2>2 DEF KnownInv
<1>3. CASE FreeAndPersist
  <2>1. Covers(fresh) /\ (unsaved \/ fresh \in snapshots)
    BY <1>3 DEF FreeAndPersist, KnownInv
  <2>2. /\ pc' \in {"forward", "failed"} /\ UNCHANGED <<fresh, unsaved, legacy, disk>> /\ snapshots' = Pruned
        /\ \/ UNCHANGED <<reg, data>>
           \/ data' = [done |-> TRUE, records |-> fresh, bridge |-> TRUE]
    BY <1>3 DEF FreeAndPersist
  <2>3. unsaved' \/ fresh \in snapshots'
    BY <2>1, <2>2 DEF Pruned
  <2>4. CASE UNCHANGED <<reg, data>>
    BY <1>0, <2>2, <2>4 DEF KnownInv
  <2>5. CASE data' = [done |-> TRUE, records |-> fresh, bridge |-> TRUE]
    <3>1. data'.done /\ data'.bridge /\ data'.records = fresh
      BY <2>5
    <3> QED BY <2>1, <2>2, <2>3, <3>1 DEF KnownInv, SnapshotCovers
  <2> QED BY <2>2, <2>4, <2>5
<1> QED BY <1>1, <1>2, <1>3

\* The rollback: a snapshot outlives the entry.
LEMMA RollbackKnows ==
  ASSUME TypeInv, PhaseInv, KnownInv, RemoveEntry \/ RemoveBackups
  PROVE  KnownInv'
<1>1. CASE RemoveEntry
  <2>1. SnapshotCovers
    BY <1>1 DEF RemoveEntry, PhaseInv, KnownInv
  <2>2. pc' = "removed" /\ data' = NoData /\ UNCHANGED <<snapshots, unsaved>>
    BY <1>1 DEF RemoveEntry
  <2>3. SnapshotCovers'
    BY <2>1, <2>2 DEF SnapshotCovers
  <2> QED BY <2>2, <2>3, NoDataType DEF KnownInv
<1>2. CASE RemoveBackups
  <2>1. /\ pc = "removed" /\ data = NoData /\ legacy.state # "disabled"
        /\ UNCHANGED <<pc, data, legacy>>
    BY <1>2 DEF RemoveBackups, PhaseInv, setup
  <2> QED BY <2>1, NoDataType DEF KnownInv
<1> QED BY <1>1, <1>2

LEMMA HistStep ==
  ASSUME TypeInv, PhaseInv, HistInv, [Next]_vars
  PROVE  HistInv'
<1> SUFFICES ASSUME legacy'.state # "gone" PROVE KnownInv'
  BY DEF HistInv
<1>0. /\ legacy \in [state: {"gone", "enabled", "disabled"}, up: BOOLEAN]
      /\ Good(reg') /\ disk' \in {reg, disk} /\ TypeInv'
  BY RegistryStep, TypeStep DEF TypeInv, TypeOK
<1>1. legacy.state # "gone"
  <2> SUFFICES ASSUME legacy.state = "gone" PROVE legacy'.state = "gone"
    OBVIOUS
  <2>1. CASE \/ AddEntry \/ Reload \/ NothingToAdopt \/ AbortAdoption \/ WriteBackup \/ FreeAndPersist
             \/ ForwardPlatforms \/ ForwardFails \/ Finalize \/ Discover \/ Poll \/ PressRollback
             \/ IgnoreOffer \/ ConfirmRollback \/ RollbackCheck \/ RemoveEntry \/ RemoveBackups
             \/ Uninstall \/ WriteRegistry \/ UNCHANGED vars
    BY <2>1 DEF AddEntry, Reload, NothingToAdopt, AbortAdoption, WriteBackup, FreeAndPersist,
       ForwardPlatforms, ForwardFails, Finalize, Discover, Poll, PressRollback, IgnoreOffer,
       ConfirmRollback, RollbackCheck, RemoveEntry, RemoveBackups, Uninstall, WriteRegistry, vars
  <2>2. CASE DisableLegacy \/ EnableLegacy
    BY <2>2 DEF DisableLegacy, EnableLegacy
  <2>3. CASE Collect \/ LegacyDiscovers \/ Crash
    BY <1>0, <2>3 DEF Collect, LegacyDiscovers, Crash
  <2>4. CASE ConfirmOrphaned \/ DeleteLegacy
    BY <2>4 DEF ConfirmOrphaned, DeleteLegacy, LegacyRemoved
  <2> QED BY <2>1, <2>2, <2>3, <2>4 DEF Next
<1>2. KnownInv
  BY <1>1 DEF HistInv
<1>3. CASE Collect \/ WriteBackup \/ FreeAndPersist
  BY <1>1, <1>2, <1>3, SetupKnows
<1>4. CASE RemoveEntry \/ RemoveBackups
  BY <1>2, <1>4, RollbackKnows
<1>5. ASSUME ~FreeAndPersist, ~RemoveEntry PROVE Keeps(reg, reg') \/ reg' = disk
  BY <1>5, RegistryStep
<1>6. CASE \/ AddEntry \/ Reload \/ DisableLegacy \/ AbortAdoption \/ ForwardPlatforms \/ ForwardFails
           \/ Finalize \/ Discover
  <2>1. /\ UNCHANGED <<snapshots, unsaved>> /\ pc # "removed" /\ pc' \notin {"backup", "freeing", "removed"}
        /\ data' \in {data, NoData} /\ (data' = data \/ pc = "none")
    BY <1>6 DEF AddEntry, Reload, DisableLegacy, AbortAdoption, ForwardPlatforms, ForwardFails, Finalize,
       Discover, setup
  <2>2. data' = data
    BY <2>1 DEF PhaseInv
  <2>3. Keeps(reg, reg') \/ reg' = disk
    <3>1. pc # "freeing"
      BY <1>6 DEF AddEntry, Reload, DisableLegacy, AbortAdoption, ForwardPlatforms, ForwardFails,
         Finalize, Discover
    <3>2. ~FreeAndPersist /\ ~RemoveEntry
      BY <2>1, <3>1 DEF FreeAndPersist, RemoveEntry
    <3> QED BY <1>5, <3>2
  <2>4. UNCHANGED <<data, snapshots, unsaved>> /\ pc # "removed" /\ pc' \notin {"backup", "freeing", "removed"}
    BY <2>1, <2>2
  <2> QED BY <1>0, <1>2, <2>3, <2>4, KnownStays
<1>7. CASE NothingToAdopt
  <2>1. /\ UNCHANGED <<data, snapshots, unsaved, legacy, reg>> /\ pc = "start" /\ pc' = "forward"
    BY <1>1, <1>7 DEF NothingToAdopt
  <2>2. Keeps(reg, reg')
    BY <2>1 DEF Keeps
  <2> QED BY <1>0, <1>2, <2>1, <2>2, KnownStays
<1>8. CASE \/ Poll \/ PressRollback \/ IgnoreOffer \/ ConfirmRollback \/ RollbackCheck
           \/ Uninstall \/ WriteRegistry \/ UNCHANGED vars
  <2>1. UNCHANGED <<pc, data, fresh, legacy, reg, snapshots, unsaved>>
    BY <1>8 DEF Poll, PressRollback, IgnoreOffer, ConfirmRollback, RollbackCheck, Uninstall,
       WriteRegistry, vars, setup
  <2>2. Keeps(reg, reg')
    BY <2>1 DEF Keeps
  <2> QED BY <1>0, <1>2, <2>1, <2>2, KnownStays
<1>9. CASE ConfirmOrphaned \/ DeleteLegacy
  BY <1>9 DEF ConfirmOrphaned, DeleteLegacy, LegacyRemoved
<1>10. CASE EnableLegacy
  <2>1. /\ pc = "removed" /\ data = NoData /\ UNCHANGED <<pc, data>> /\ legacy'.state = "enabled"
    BY <1>1, <1>10 DEF EnableLegacy, PhaseInv, setup
  <2> QED BY <2>1, NoDataType DEF KnownInv
<1>11. CASE LegacyDiscovers
  <2>1. UNCHANGED <<pc, data, fresh, snapshots, unsaved>> /\ legacy'.state = legacy.state
    BY <1>0, <1>11 DEF LegacyDiscovers, setup
  <2>2. Keeps(reg, reg')
    BY <1>0, <1>11, RegistrationsKeep, TypeInvIs DEF LegacyDiscovers, Integrations
  <2> QED BY <1>0, <1>2, <2>1, <2>2, KnownStays
<1>12. CASE Crash
  <2>1. /\ pc' = (IF pc \in {"none", "removed"} THEN pc ELSE "start") /\ reg' = disk
        /\ UNCHANGED <<data, snapshots, unsaved>> /\ legacy'.state = legacy.state
    BY <1>0, <1>12 DEF Crash
  <2> QED BY <1>0, <1>2, <2>1, KnownStays
<1> QED BY <1>3, <1>4, <1>6, <1>7, <1>8, <1>9, <1>10, <1>11, <1>12 DEF Next

\* An id that was taken from the legacy integration is known to the registry, to this
\* entry's records or to a snapshot for as long as that integration is disabled, also after
\* a crash in the middle of the adoption or of the rollback (async_adopt_legacy_entities,
\* async_rollback_to_legacy).
THEOREM HistoryIsKept == Spec => []HistoryKept
<1>1. Spec => [](PhaseInv /\ HistInv)
  BY PhaseInit, PhaseStep, HistInit, HistStep, TypeInvHolds, PTL DEF Spec
<1> QED BY <1>1, HistoryHolds, TypeInvHolds, PTL

-----------------------------------------------------------------------------
(* Every entity comes to its id. The records of an adoption are of the     *)
(* predecessor's entities as they were: each on an id of its own, none     *)
(* temporary, customised as the user did; and nothing of this integration  *)
(* is customised before its adoption ends.                                 *)

Suited(R) == Distinct(R) /\ \A rec \in R : rec.obj \in Customised => rec.custom

LegacyPlain(r) ==
  \A i \in Ids : r[i].by = "legacy" => i \in Names /\ (r[i].custom => r[i].obj \in Customised)

Uncustomised(r) == \A i \in Ids : r[i].by = "ce" => ~r[i].custom

\* The legacy entities have all their customisations, this integration's have none.
Untouched(r) ==
  /\ Uncustomised(r)
  /\ \A i \in Ids : r[i].by = "legacy" /\ r[i].obj \in Customised => r[i].custom

RecordInv ==
  /\ Suited(fresh) /\ Suited(data.records) /\ Suited(held)
  /\ pc \in {"none", "start", "disabling"} => fresh = {}
  /\ pc \in {"forward", "finalizing"} /\ fresh # {} => data.done
  /\ legacy.state = "gone" => ~legacy.up

PlainInv ==
  /\ pc # "removed" \/ task = "enable" => LegacyPlain(reg)
  /\ pc # "removed" => LegacyPlain(disk)
  /\ pc # "removed" /\ ~data.done => Untouched(reg) /\ Untouched(disk)
  /\ pc \in {"forward", "finalizing"} /\ fresh # {} => Uncustomised(reg)

\* The records of a registry that is as the predecessor left it.
LEMMA CollectedSuits ==
  ASSUME NEW r, Good(r), LegacyPlain(r), Untouched(r), NEW matched
  PROVE  Suited(Collected(r, matched))
<1> DEFINE record(i) == [obj |-> r[i].obj, id |-> i, custom |-> r[i].custom, matched |-> r[i].obj \in matched]
<1>1. \A a \in Collected(r, matched) :
        a.id \in Ids /\ r[a.id].by = "legacy" /\ a.obj = r[a.id].obj /\ a.custom = r[a.id].custom
        /\ a = record(a.id)
  BY DEF Collected, HeldBy
<1>2. \A a \in Collected(r, matched) : a.id \in Names /\ (a.obj \in Customised => a.custom)
  BY <1>1 DEF LegacyPlain, Untouched
<1>3. ASSUME NEW a \in Collected(r, matched), NEW b \in Collected(r, matched), a.obj = b.obj \/ a.id = b.id
      PROVE  a = b
  <2>1. r[a.id] # Free
    BY <1>1, EntityFields DEF Integrations
  <2>2. a.id = b.id
    BY <1>1, <1>3, <2>1 DEF Good, OneId
  <2> QED BY <1>1, <2>2
<1> QED BY <1>2, <1>3 DEF Suited, Distinct

LEMMA RecordStep ==
  ASSUME TypeInv, PhaseInv, RecordInv, PlainInv, [Next]_vars
  PROVE  RecordInv'
<1> USE DEF RecordInv, setup, repair
<1>0. /\ Suited({}) /\ NoData.records = {} /\ NoData.done = FALSE
      /\ legacy \in [state: {"gone", "enabled", "disabled"}, up: BOOLEAN]
      /\ data \in [done: BOOLEAN, records: SUBSET Records, bridge: BOOLEAN]
  BY NoDataType DEF Suited, Distinct, TypeInv, TypeOK
<1>1. CASE AddEntry \/ Reload
  BY <1>0, <1>1 DEF AddEntry, Reload
<1>2. CASE NothingToAdopt
  <2>1. data' = data \/ data' = [NoData EXCEPT !.done = TRUE]
    BY <1>2 DEF NothingToAdopt
  <2>2. [NoData EXCEPT !.done = TRUE].records = {}
    BY DEF NoData
  <2>3. Suited(data'.records)
    BY <1>0, <2>1, <2>2
  <2>4. pc = "start" /\ fresh = {} /\ pc' = "forward" /\ UNCHANGED <<fresh, legacy, held>>
    BY <1>2 DEF NothingToAdopt
  <2> QED BY <1>0, <2>3, <2>4
<1>3. CASE DisableLegacy
  <2>1. pc = "start" /\ pc' = "disabling" /\ legacy'.state = "disabled" /\ UNCHANGED <<data, fresh, held>>
    BY <1>0, <1>3 DEF DisableLegacy
  <2> QED BY <1>0, <2>1
<1>4. CASE AbortAdoption \/ WriteBackup
  BY <1>0, <1>4 DEF AbortAdoption, WriteBackup
<1>5. CASE Collect
  <2>1. PICK matched : fresh' = Collected(reg, matched)
    BY <1>5 DEF Collect
  <2>2. pc \in {"start", "disabling"} /\ ~data.done
    BY <1>5 DEF Collect, PhaseInv
  <2>3. Good(reg) /\ LegacyPlain(reg) /\ Untouched(reg)
    BY <2>2, TypeInvIs DEF PlainInv
  <2>4. Suited(fresh')
    BY <2>1, <2>3, CollectedSuits
  <2>5. pc' = "backup" /\ UNCHANGED <<data, held>> /\ (legacy'.state = "gone" => ~legacy'.up)
    BY <1>0, <1>5 DEF Collect
  <2> QED BY <2>4, <2>5
<1>6. CASE FreeAndPersist
  <2>1. data' = data \/ data' = [done |-> TRUE, records |-> fresh, bridge |-> TRUE]
    BY <1>6 DEF FreeAndPersist
  <2>2. Suited(data'.records)
    BY <1>0, <2>1
  <2>3. (pc' = "forward" /\ data'.done) \/ pc' = "failed"
    BY <1>6 DEF FreeAndPersist
  <2>4. UNCHANGED <<fresh, legacy, held>>
    BY <1>6 DEF FreeAndPersist
  <2> QED BY <1>0, <2>2, <2>3, <2>4
<1>7. CASE ForwardPlatforms \/ ForwardFails \/ Finalize \/ Discover
  BY <1>0, <1>7 DEF ForwardPlatforms, ForwardFails, Finalize, Discover
<1>8. CASE Poll \/ PressRollback \/ IgnoreOffer \/ ConfirmRollback \/ Uninstall \/ WriteRegistry \/ UNCHANGED vars
  BY <1>0, <1>8 DEF Poll, PressRollback, IgnoreOffer, ConfirmRollback, Uninstall, WriteRegistry, vars
<1>9. CASE ConfirmOrphaned \/ DeleteLegacy
  BY <1>0, <1>9 DEF ConfirmOrphaned, DeleteLegacy, LegacyRemoved
<1>10. CASE RollbackCheck
  BY <1>0, <1>10 DEF RollbackCheck, RollbackRefused
<1>11. CASE RemoveEntry
  BY <1>0, <1>11 DEF RemoveEntry
<1>12. CASE EnableLegacy
  <2>1. UNCHANGED <<pc, data, fresh, held>> /\ (legacy'.state = "gone" => UNCHANGED legacy)
    BY <1>12 DEF EnableLegacy
  <2> QED BY <1>0, <2>1
<1>13. CASE RemoveBackups
  BY <1>0, <1>13 DEF RemoveBackups
<1>14. CASE LegacyDiscovers
  <2>1. legacy.state # "gone" /\ legacy'.state = legacy.state /\ UNCHANGED <<pc, data, fresh, held>>
    BY <1>0, <1>14 DEF LegacyDiscovers
  <2> QED BY <1>0, <2>1
<1>15. CASE Crash
  <2>1. legacy'.up = FALSE /\ fresh' = {} /\ held' = {} /\ data' = data
    BY <1>0, <1>15 DEF Crash
  <2> QED BY <1>0, <2>1
<1> QED BY <1>1, <1>2, <1>3, <1>4, <1>5, <1>6, <1>7, <1>8, <1>9, <1>10, <1>11, <1>12, <1>13, <1>14,
           <1>15 DEF Next
\* What becomes of the ids where entities are only removed, or registered by one integration.
Fresh(r, q, by) ==
  \A i \in Ids : q[i] = r[i] \/ q[i] = Free \/ (i \in Names /\ q[i].by = by /\ ~q[i].custom)

LEMMA FreshKeeps ==
  ASSUME NEW r, NEW q, NEW by \in Integrations, Fresh(r, q, by)
  PROVE  /\ LegacyPlain(r) => LegacyPlain(q)
         /\ Uncustomised(r) => Uncustomised(q)
         /\ by = "ce" /\ Untouched(r) => Untouched(q)
<1>0. Free.by \notin Integrations /\ "legacy" \in Integrations /\ "ce" \in Integrations
  BY EntityFields DEF Integrations
<1>1. LegacyPlain(r) => LegacyPlain(q)
  BY <1>0 DEF LegacyPlain, Fresh
<1>2. Uncustomised(r) => Uncustomised(q)
  BY <1>0 DEF Uncustomised, Fresh
<1>3. ASSUME by = "ce", Untouched(r) PROVE Untouched(q)
  <2>1. \A i \in Ids : q[i].by = "legacy" => q[i] = r[i]
    BY <1>0, <1>3 DEF Fresh
  <2> QED BY <1>2, <1>3, <2>1 DEF Untouched
<1> QED BY <1>1, <1>2, <1>3

LEMMA FreshIs ==
  ASSUME NEW r, Good(r)
  PROVE  /\ Fresh(r, r, "ce")
         /\ \A ids, by : Fresh(r, Without(r, ids), by)
         /\ \A by \in Integrations, S \in SUBSET Objects :
              \A q \in Registrations(r, by, S) : Fresh(r, q, by)
<1>1. \A ids, by : Fresh(r, Without(r, ids), by)
  BY DEF Fresh, Without
<1>2. ASSUME NEW by \in Integrations, NEW S \in SUBSET Objects, NEW q \in Registrations(r, by, S)
      PROVE  Fresh(r, q, by)
  <2>1. \A i \in Ids : q[i] = r[i] \/ (i \in Names /\ q[i].by = by /\ ~q[i].custom)
    BY <1>2, RegistrationsKeep
  <2> QED BY <2>1 DEF Fresh
<1> QED BY <1>1, <1>2 DEF Fresh

\* What the end of an adoption relies on, and what it comes to.
LEMMA FinalizeReturns ==
  ASSUME TypeInv, RecordInv, PlainInv, Finalize
  PROVE  /\ OthersStay(reg, reg', "ce", Paired(reg, "ce", fresh))
         /\ Back(reg, reg', "ce", Paired(reg, "ce", fresh), Paired(reg, "ce", fresh))
<1>1. /\ Good(reg) /\ fresh \in SUBSET Records /\ IsFiniteSet(fresh)
      /\ pc = "finalizing" /\ reg' = RemapAndRestore(reg, "ce", fresh)
  BY TypeInvIs DEF Typed, Finalize
<1>2. Distinct(fresh)
  BY DEF RecordInv, Suited
<1>3. Plain(reg, "ce", fresh)
  <2> SUFFICES ASSUME NEW rec \in fresh, NEW i \in Ids, Mine(reg[i], "ce", rec) PROVE ~reg[i].custom
    BY DEF Plain
  <2> QED BY <1>1 DEF PlainInv, Uncustomised, Mine
<1> QED BY <1>1, <1>2, <1>3, RemapReturns DEF Integrations

\* Where entities are only removed, or this integration registers some.
LEMMA PlainStays ==
  ASSUME TypeInv, PlainInv, Fresh(reg, reg', "ce"), disk' \in {reg, disk},
         pc' # "removed" => pc # "removed",
         pc' = "removed" /\ task' = "enable" => LegacyPlain(reg),
         pc' # "removed" /\ ~data'.done => ~data.done,
         pc' \in {"forward", "finalizing"} /\ fresh' # {} => Uncustomised(reg)
  PROVE  PlainInv'
<1>1. /\ LegacyPlain(reg) => LegacyPlain(reg')
      /\ Uncustomised(reg) => Uncustomised(reg')
      /\ Untouched(reg) => Untouched(reg')
  BY FreshKeeps DEF Integrations
<1>2. pc' # "removed" \/ task' = "enable" => LegacyPlain(reg')
  BY <1>1 DEF PlainInv
<1>3. pc' # "removed" => LegacyPlain(disk')
  BY DEF PlainInv
<1>4. pc' # "removed" /\ ~data'.done => Untouched(reg') /\ Untouched(disk')
  BY <1>1 DEF PlainInv
<1> QED BY <1>1, <1>2, <1>3, <1>4 DEF PlainInv, LegacyPlain, Untouched, Uncustomised

LEMMA PlainStep ==
  ASSUME TypeInv, PhaseInv, HistInv, RecordInv, PlainInv, [Next]_vars
  PROVE  PlainInv'
<1>0. /\ Good(reg) /\ Good(reg') /\ "ce" \in Integrations /\ "legacy" \in Integrations
      /\ legacy \in [state: {"gone", "enabled", "disabled"}, up: BOOLEAN]
  BY TypeInvIs, RegistryStep DEF Integrations, TypeInv, TypeOK
<1>1. ASSUME reg' = reg PROVE Fresh(reg, reg', "ce")
  BY <1>1 DEF Fresh
<1>2. CASE AddEntry \/ Reload \/ NothingToAdopt \/ DisableLegacy \/ AbortAdoption \/ Collect \/ WriteBackup
  <2>1. /\ reg' = reg /\ disk' = disk /\ pc \in {"none", "loaded", "failed", "start", "disabling", "backup"}
        /\ pc' \in {"start", "disabling", "backup", "freeing"} \/ (pc' = "forward" /\ fresh' = fresh)
    BY <1>2 DEF AddEntry, Reload, NothingToAdopt, DisableLegacy, AbortAdoption, Collect, WriteBackup, setup
  <2>2. pc' = "forward" => fresh = {}
    BY <1>2 DEF AddEntry, Reload, NothingToAdopt, DisableLegacy, AbortAdoption, Collect, WriteBackup, RecordInv
  <2>3. ~data'.done => ~data.done
    BY <1>2, NoDataType DEF AddEntry, Reload, NothingToAdopt, DisableLegacy, AbortAdoption, Collect,
       WriteBackup, PhaseInv
  <2> QED BY <1>1, <2>1, <2>2, <2>3, PlainStays
<1>3. CASE FreeAndPersist
  <2>1. Fresh(reg, reg', "ce")
    BY <1>0, <1>3, FreshIs DEF FreeAndPersist
  <2>2. /\ pc = "freeing" /\ disk' = disk /\ pc' \in {"forward", "failed"}
        /\ data' = data \/ pc' = "forward"
    BY <1>3 DEF FreeAndPersist
  <2>3. ~data.done
    BY <2>2 DEF PhaseInv
  <2> QED BY <2>1, <2>2, <2>3, PlainStays DEF PlainInv, Untouched
<1>4. CASE ForwardPlatforms \/ ForwardFails \/ Discover
  <2>1. Fresh(reg, reg', "ce")
    BY <1>0, <1>4, FreshIs DEF ForwardPlatforms, ForwardFails, Discover
  <2>2. /\ pc \in {"forward", "loaded"} /\ pc' \in {"finalizing", "failed", "loaded"}
        /\ pc' = "finalizing" => pc = "forward"
        /\ UNCHANGED <<data, fresh, disk>>
    BY <1>4 DEF ForwardPlatforms, ForwardFails, Discover, setup
  <2> QED BY <2>1, <2>2, PlainStays DEF PlainInv
<1>5. CASE \/ Poll \/ PressRollback \/ IgnoreOffer \/ ConfirmRollback \/ RollbackCheck \/ RemoveBackups
           \/ Uninstall \/ WriteRegistry \/ UNCHANGED vars
  <2>1. /\ UNCHANGED <<pc, data, fresh, reg>> /\ disk' \in {reg, disk}
        /\ task' = task \/ task' # "enable"
    BY <1>5 DEF Poll, PressRollback, IgnoreOffer, ConfirmRollback, RollbackCheck, RollbackRefused,
       RemoveBackups, Uninstall, WriteRegistry, vars, setup, repair
  <2> QED BY <1>1, <2>1, PlainStays DEF PlainInv
<1>6. CASE ConfirmOrphaned \/ DeleteLegacy
  <2>1. Fresh(reg, reg', "ce")
    BY <1>0, <1>6, FreshIs DEF ConfirmOrphaned, DeleteLegacy, LegacyRemoved
  <2>2. UNCHANGED <<pc, data, fresh, disk, task>>
    BY <1>6 DEF ConfirmOrphaned, DeleteLegacy, setup, repair
  <2> QED BY <2>1, <2>2, PlainStays DEF PlainInv
<1>7. CASE RemoveEntry
  <2>1. Fresh(reg, reg', "ce")
    BY <1>0, <1>7, FreshIs DEF RemoveEntry
  <2>2. pc # "removed" /\ pc' = "removed" /\ disk' = disk
    BY <1>7 DEF RemoveEntry
  <2> QED BY <2>1, <2>2, PlainStays DEF PlainInv
<1>8. CASE Finalize
  <2> DEFINE P == Paired(reg, "ce", fresh)
  <2>1. OthersStay(reg, reg', "ce", P)
    BY <1>8, FinalizeReturns
  <2>2. /\ pc = "finalizing" /\ pc' = "loaded" /\ UNCHANGED <<data, fresh, disk>>
    BY <1>8 DEF Finalize
  <2>3. \A i \in Ids : reg'[i].by = "legacy" => reg'[i] = reg[i]
    <3> SUFFICES ASSUME NEW i \in Ids, reg'[i].by = "legacy" PROVE Theirs(reg'[i], "ce", P)
      BY <2>1 DEF OthersStay
    <3> QED BY EntityFields DEF Theirs, Mine, Integrations
  <2>4. LegacyPlain(reg) /\ LegacyPlain(disk)
    BY <2>2 DEF PlainInv
  <2>5. LegacyPlain(reg')
    BY <2>3, <2>4 DEF LegacyPlain
  <2>6. ASSUME ~data.done PROVE Untouched(reg') /\ Untouched(disk)
    <3>1. fresh = {} /\ P = {}
      BY <2>2, <2>6 DEF RecordInv, Paired
    <3>2. \A i \in Ids : reg'[i] = reg[i]
      <4> SUFFICES ASSUME NEW i \in Ids, reg'[i] # reg[i] PROVE FALSE
        OBVIOUS
      <4>1. ~Theirs(reg[i], "ce", P) /\ ~Theirs(reg'[i], "ce", P)
        BY <2>1 DEF OthersStay
      <4> QED BY <3>1, <4>1 DEF Theirs
    <3>3. Untouched(reg) /\ Untouched(disk)
      BY <2>2, <2>6 DEF PlainInv
    <3> QED BY <3>2, <3>3 DEF Untouched, Uncustomised
  <2> QED BY <2>2, <2>4, <2>5, <2>6 DEF PlainInv, LegacyPlain, Untouched, Uncustomised
<1>9. CASE EnableLegacy
  <2>1. pc' = "removed" /\ task' # "enable"
    BY <1>9 DEF EnableLegacy, RollbackRefused, PhaseInv, setup
  <2> QED BY <2>1 DEF PlainInv
<1>10. CASE LegacyDiscovers
  <2>1. /\ legacy.state # "gone" /\ ~AllLegacy(reg) /\ UNCHANGED <<pc, data, fresh, disk, task>>
    BY <1>0, <1>10 DEF LegacyDiscovers, AllLegacy, RecordInv, setup, repair
  <2>2. pc # "removed" => data.done
    BY <2>1 DEF HistInv, KnownInv
  <2>3. Fresh(reg, reg', "legacy")
    BY <1>0, <1>10, FreshIs DEF LegacyDiscovers
  <2>4. (LegacyPlain(reg) => LegacyPlain(reg')) /\ (Uncustomised(reg) => Uncustomised(reg'))
    BY <1>0, <2>3, FreshKeeps
  <2> QED BY <2>1, <2>2, <2>4 DEF PlainInv, LegacyPlain, Untouched, Uncustomised
<1>11. CASE Crash
  <2>1. /\ reg' = disk /\ fresh' = {} /\ task' = "none" /\ UNCHANGED <<data, disk>>
        /\ pc' # "removed" => pc # "removed"
    BY <1>11 DEF Crash
  <2> QED BY <2>1 DEF PlainInv, LegacyPlain, Untouched, Uncustomised
<1> QED BY <1>2, <1>3, <1>4, <1>5, <1>6, <1>7, <1>8, <1>9, <1>10, <1>11 DEF Next

LEMMA PlainInit == Init => RecordInv /\ PlainInv
<1> SUFFICES ASSUME Init PROVE RecordInv /\ PlainInv
  OBVIOUS
<1> DEFINE f == CHOOSE f \in Injection(Objects, Names) : TRUE
           theObject(i) == CHOOSE o \in Objects : f[o] = i
<1>1. f \in Injection(Objects, Names)
  BY NamesAssumption
<1>2. \A o \in Objects : f[o] \in Names
  BY <1>1 DEF Injection, IsInjective
<1> HIDE DEF f
<1>3. reg = [i \in Ids |-> IF i \in Range(f)
                           THEN Entity("legacy", theObject(i), theObject(i) \in Customised) ELSE Free]
  BY DEF Init, f
<1>4. \A i \in Range(f) : i \in Names /\ theObject(i) \in Objects
  <2>1. DOMAIN f = Objects
    BY <1>1 DEF Injection
  <2> QED BY <1>2, <2>1 DEF Range
<1> HIDE DEF theObject
<1>5. \A i \in Ids : reg[i] = Free \/ (i \in Names /\ reg[i].by = "legacy" /\ reg[i].obj \in Objects
                                       /\ (reg[i].custom <=> reg[i].obj \in Customised))
  <2> SUFFICES ASSUME NEW i \in Ids, i \in Range(f)
               PROVE  LET e == Entity("legacy", theObject(i), theObject(i) \in Customised)
                      IN  e.by = "legacy" /\ e.obj = theObject(i)
                          /\ (e.custom <=> theObject(i) \in Customised)
    BY <1>3, <1>4
  <2> QED BY DEF Entity
<1>6. LegacyPlain(reg) /\ Untouched(reg)
  BY <1>5, EntityFields DEF LegacyPlain, Untouched, Uncustomised, Integrations
<1> QED BY <1>6, NoDataType DEF Init, RecordInv, PlainInv, Suited, Distinct

\* When an adoption ends, every adopted entity that exists is on the id its history is
\* recorded under, and customised, whatever ids it was created with, unless an entity that
\* was not adopted holds the id (async_finalize_legacy_adoption, _remap_and_restore).
THEOREM AllReclaimed == Spec => Reclaimed
<1>1. Spec => [](RecordInv /\ PlainInv)
  <2>1. Init => PhaseInv /\ HistInv /\ RecordInv /\ PlainInv
    BY PhaseInit, HistInit, PlainInit
  <2>2. TypeInv /\ (PhaseInv /\ HistInv /\ RecordInv /\ PlainInv) /\ [Next]_vars
          => (PhaseInv /\ HistInv /\ RecordInv /\ PlainInv)'
    BY PhaseStep, HistStep, RecordStep, PlainStep
  <2> QED BY <2>1, <2>2, TypeInvHolds, PTL DEF Spec
<1>2. TypeInv /\ RecordInv /\ PlainInv /\ [Next]_vars =>
        [pc = "finalizing" /\ pc' = "loaded" =>
           \A rec \in fresh : rec.matched /\ Registered(reg, "ce", rec.obj) =>
             \/ reg'[rec.id] = Entity("ce", rec.obj, rec.custom)
             \/ ~\E q \in Paired(reg, "ce", fresh) :
                   reg'[rec.id] = Free \/ reg'[rec.id] \in [by: {"ce"}, obj: {q.obj}, custom: BOOLEAN]]_vars
  <2> DEFINE P == Paired(reg, "ce", fresh)
  <2> SUFFICES ASSUME TypeInv, RecordInv, PlainInv, [Next]_vars, pc = "finalizing", pc' = "loaded",
                      NEW rec \in fresh, rec.matched, Registered(reg, "ce", rec.obj),
                      reg'[rec.id] # Entity("ce", rec.obj, rec.custom)
               PROVE  \A q \in P : /\ reg'[rec.id] # Free
                                   /\ reg'[rec.id] \notin [by: {"ce"}, obj: {q.obj}, custom: BOOLEAN]
    OBVIOUS
  <2>1. Finalize
    <3>1. ~(\/ AddEntry \/ Reload \/ NothingToAdopt \/ DisableLegacy \/ AbortAdoption \/ Collect
            \/ WriteBackup \/ FreeAndPersist \/ ForwardPlatforms \/ ForwardFails \/ RemoveEntry \/ Crash)
      BY DEF AddEntry, Reload, NothingToAdopt, DisableLegacy, AbortAdoption, Collect, WriteBackup,
         FreeAndPersist, ForwardPlatforms, ForwardFails, RemoveEntry, Crash
    <3>2. ~(\/ Discover \/ Poll \/ PressRollback \/ IgnoreOffer \/ ConfirmRollback \/ ConfirmOrphaned
            \/ RollbackCheck \/ EnableLegacy \/ RemoveBackups \/ LegacyDiscovers \/ DeleteLegacy
            \/ Uninstall \/ WriteRegistry \/ UNCHANGED vars)
      BY DEF Discover, Poll, PressRollback, IgnoreOffer, ConfirmRollback, ConfirmOrphaned, RollbackCheck,
         EnableLegacy, RemoveBackups, LegacyDiscovers, DeleteLegacy, Uninstall, WriteRegistry, vars, setup
    <3> QED BY <3>1, <3>2 DEF Next
  <2>2. OthersStay(reg, reg', "ce", P) /\ Back(reg, reg', "ce", P, P)
    BY <2>1, FinalizeReturns
  <2>3. rec \in P /\ rec.id \in Ids
    BY TypeInvIs DEF Paired, Typed, Records
  <2>4. Theirs(reg[rec.id], "ce", P) /\ reg'[rec.id] = reg[rec.id]
    BY <2>2, <2>3 DEF Back, OthersStay
  <2> QED BY <2>4 DEF Theirs, Mine
<1> QED BY <1>1, <1>2, TypeInvHolds, PTL DEF Spec, Reclaimed

-----------------------------------------------------------------------------
(* The rollback gives the ids back.                                        *)

GivenBack(r, R) ==
  \A rec \in R :
    \/ r[rec.id] = Entity("legacy", rec.obj, rec.custom)
    \/ r[rec.id] # Free /\ r[rec.id].obj \notin {q.obj : q \in R}

\* The legacy entry is enabled with nothing of this integration in its way; then all its
\* entities are there, on the ids that are recorded, until the backups are removed.
RestoreInv ==
  /\ task = "enable" => HeldBy(reg, "ce") = {}
  /\ task = "prune" /\ legacy.state # "gone" => AllLegacy(reg) /\ GivenBack(reg, held)

\* Recorded entities that are all there and have no other integration beside them come to
\* their ids.
LEMMA RemapGivesBack ==
  ASSUME NEW r, Good(r), AllLegacy(r), HeldBy(r, "ce") = {}, LegacyPlain(r),
         NEW R \in SUBSET Records, IsFiniteSet(R), Suited(R)
  PROVE  LET q == RemapAndRestore(r, "legacy", R) IN AllLegacy(q) /\ GivenBack(q, R)
<1> DEFINE q == RemapAndRestore(r, "legacy", R)
<1>0. "legacy" \in Integrations /\ Distinct(R)
  BY DEF Integrations, Suited
<1>1. Plain(r, "legacy", R)
  BY DEF Plain, LegacyPlain, Suited, Mine
<1>2. Paired(r, "legacy", R) = R
  BY DEF Paired, AllLegacy, Records
<1>3. OthersStay(r, q, "legacy", R) /\ Back(r, q, "legacy", R, R)
  BY <1>0, <1>1, <1>2, RemapReturns
<1>4. Keeps(r, q)
  BY <1>0, RemapKeeps
<1>5. AllLegacy(q)
  BY <1>0, <1>4 DEF AllLegacy, Keeps
<1> HIDE DEF q
<1>6. ASSUME NEW rec \in R, q[rec.id] # Entity("legacy", rec.obj, rec.custom)
      PROVE  q[rec.id] # Free /\ \A other \in R : q[rec.id].obj # other.obj
  <2>1. rec.id \in Ids
    BY DEF Records
  <2>2. Theirs(r[rec.id], "legacy", R) /\ q[rec.id] = r[rec.id]
    BY <1>3, <1>6, <2>1 DEF Back, OthersStay
  <2>3. r[rec.id] # Free /\ r[rec.id].by = "legacy"
    <3>1. r[rec.id] # Free
      BY <2>2 DEF Theirs
    <3>2. r[rec.id].by \in Integrations
      BY <2>1, <3>1, EntityFields DEF Good, Registries
    <3>3. r[rec.id].by # "ce"
      BY <2>1 DEF HeldBy
    <3> QED BY <3>1, <3>2, <3>3 DEF Integrations
  <2> QED BY <2>2, <2>3 DEF Theirs, Mine
<1>7. GivenBack(q, R)
  BY <1>6 DEF GivenBack
<1> QED BY <1>5, <1>7 DEF q

LEMMA RestoreStep ==
  ASSUME \A up \in Outcomes : up,
         TypeInv, PhaseInv, RecordInv, PlainInv, RestoreInv, [Next]_vars
  PROVE  RestoreInv'
<1>0. /\ Good(reg) /\ "ce" \in Integrations /\ "legacy" \in Integrations
      /\ legacy \in [state: {"gone", "enabled", "disabled"}, up: BOOLEAN]
  BY TypeInvIs DEF Integrations, TypeInv, TypeOK
<1>1. CASE EnableLegacy
  <2>1. CASE legacy.state = "gone"
    BY <1>1, <2>1 DEF EnableLegacy, RollbackRefused, RestoreInv
  <2>2. CASE legacy.state # "gone"
    <3>1. /\ task = "enable" /\ task' = "prune" /\ held' = held
          /\ \E up \in Outcomes, r \in Registrations(reg, "legacy", Objects) :
               reg' = RemapAndRestore(IF up THEN r ELSE reg, "legacy", held)
      BY <1>1, <2>2 DEF EnableLegacy
    <3>2. PICK r \in Registrations(reg, "legacy", Objects) : reg' = RemapAndRestore(r, "legacy", held)
      BY <3>1
    <3>3. Good(r) /\ AllLegacy(r) /\ Fresh(reg, r, "legacy")
      BY <1>0, RegistrationsKeep, FreshIs DEF AllLegacy
    <3>4. LegacyPlain(r)
      BY <1>0, <3>1, <3>3, FreshKeeps DEF PlainInv
    <3>5. HeldBy(r, "ce") = {}
      BY <1>0, <3>1, <3>3, EntityFields DEF RestoreInv, Fresh, HeldBy
    <3>6. held \in SUBSET Records /\ IsFiniteSet(held) /\ Suited(held)
      BY TypeInvIs DEF Typed, RecordInv
    <3>7. AllLegacy(reg') /\ GivenBack(reg', held)
      BY <3>2, <3>3, <3>4, <3>5, <3>6, RemapGivesBack
    <3> QED BY <3>1, <3>7 DEF RestoreInv, AllLegacy, GivenBack
  <2> QED BY <2>1, <2>2
<1>2. CASE RemoveEntry
  <2>1. task' = "enable" /\ reg' = Without(reg, HeldBy(reg, "ce"))
    BY <1>2 DEF RemoveEntry
  <2>2. \A i \in Ids : reg'[i].by # "ce"
    BY <2>1, EntityFields DEF Without, HeldBy, Integrations
  <2> QED BY <2>1, <2>2 DEF RestoreInv, HeldBy
<1>3. CASE \/ AddEntry \/ Reload \/ NothingToAdopt \/ DisableLegacy \/ AbortAdoption \/ Collect
           \/ WriteBackup \/ FreeAndPersist \/ ForwardPlatforms \/ ForwardFails \/ Finalize \/ Discover
  <2>1. task' = task /\ pc # "removed"
    BY <1>3 DEF AddEntry, Reload, NothingToAdopt, DisableLegacy, AbortAdoption, Collect, WriteBackup,
       FreeAndPersist, ForwardPlatforms, ForwardFails, Finalize, Discover, repair
  <2> QED BY <2>1 DEF RestoreInv, PhaseInv
<1>4. CASE ConfirmRollback \/ RollbackCheck \/ RemoveBackups \/ Crash
  <2>1. task' \notin {"enable", "prune"} \/ UNCHANGED <<task, reg, legacy, held>>
    BY <1>4 DEF ConfirmRollback, RollbackCheck, RollbackRefused, RemoveBackups, Crash
  <2> QED BY <2>1 DEF RestoreInv, AllLegacy, Registered, IdOf, HeldBy, GivenBack
<1>5. CASE Poll \/ PressRollback \/ IgnoreOffer \/ Uninstall \/ WriteRegistry \/ UNCHANGED vars
  <2>1. UNCHANGED <<task, reg, legacy, held>>
    BY <1>5 DEF Poll, PressRollback, IgnoreOffer, Uninstall, WriteRegistry, vars, repair
  <2> QED BY <2>1 DEF RestoreInv, AllLegacy, Registered, IdOf, HeldBy, GivenBack
<1>6. CASE ConfirmOrphaned \/ DeleteLegacy
  <2>1. task' = task /\ legacy'.state = "gone" /\ reg' = Without(reg, HeldBy(reg, "legacy"))
    BY <1>6 DEF ConfirmOrphaned, DeleteLegacy, LegacyRemoved, repair
  <2>2. HeldBy(reg, "ce") = {} => HeldBy(reg', "ce") = {}
    BY <2>1, EntityFields DEF Without, HeldBy, Integrations
  <2> QED BY <2>1, <2>2 DEF RestoreInv, HeldBy
<1>7. CASE LegacyDiscovers
  <2>1. /\ ~AllLegacy(reg) /\ legacy.state # "gone" /\ task' = task
        /\ reg' \in Registrations(reg, "legacy", Objects)
    BY <1>0, <1>7 DEF LegacyDiscovers, AllLegacy, RecordInv, repair
  <2>2. task # "prune"
    BY <2>1 DEF RestoreInv
  <2>3. Fresh(reg, reg', "legacy")
    BY <1>0, <2>1, FreshIs
  <2>4. HeldBy(reg, "ce") = {} => HeldBy(reg', "ce") = {}
    BY <1>0, <2>3, EntityFields DEF Fresh, HeldBy
  <2> QED BY <2>1, <2>2, <2>4 DEF RestoreInv, HeldBy
<1> QED BY <1>1, <1>2, <1>3, <1>4, <1>5, <1>6, <1>7 DEF Next

\* A rollback that reports success has given every id back to the legacy entity it was taken
\* from, with its customisation, unless something else holds the id; if the legacy entry
\* comes up when it is enabled (async_rollback_to_legacy; what async_set_disabled_by returns
\* is not looked at, and the run rollback_unready shows what becomes of it otherwise).
THEOREM RollbackGivesBack ==
  ASSUME \A up \in Outcomes : up
  PROVE  Spec => RollbackRestores
<1>1. Spec => []RestoreInv
  <2> DEFINE AllInv == PhaseInv /\ HistInv /\ RecordInv /\ PlainInv /\ RestoreInv
  <2>1. Init => AllInv
    BY PhaseInit, HistInit, PlainInit DEF Init, RestoreInv
  <2>2. TypeInv /\ AllInv /\ [Next]_vars => AllInv'
    BY PhaseStep, HistStep, RecordStep, PlainStep, RestoreStep
  <2> QED BY <2>1, <2>2, TypeInvHolds, PTL DEF Spec
<1>2. RestoreInv =>
        [task = "prune" /\ task' = "none" /\ ~Crash /\ legacy.state # "gone" =>
           \A rec \in held :
             \/ reg[rec.id] = Entity("legacy", rec.obj, rec.custom)
             \/ reg[rec.id] # Free /\ reg[rec.id].obj \notin {q.obj : q \in held}]_vars
  BY DEF RestoreInv, GivenBack
<1> QED BY <1>1, <1>2, PTL DEF RollbackRestores
=============================================================================
