--------------------------- MODULE UniqueIds_proofs ---------------------------
(***************************************************************************)
(* The migration of unique ids keeps histories apart, for any objects,     *)
(* formats and registry: once formatted, a reference is its own only       *)
(* candidate or one of several, so that no id an object has now is ever    *)
(* renamed (NoChain), and an id that is renamed is renamed to that of the  *)
(* object it was made for (RightName).                                     *)
(***************************************************************************)
EXTENDS UniqueIds, TLAPS

\* What is shown and cannot be taken for anything else that is.
Clear(o) == o \in shown /\ Apart(o, shown)

\* An id that was renamed for an object gone from the NAS, or one that can be
\* taken for another, is already the current one of an object that is there.
TakenOver(u) ==
  pc = "rename" /\ ~Clear(registry[u]) /\ \E o \in shown : Current(o) = u

\* What stands in the registry has been an id of the object it shows.
FormsInv ==
  \A u \in Taken :
    registry[u].kind = u.kind /\ (u.ref \in Forms(registry[u]) \/ TakenOver(u))

\* What a loop has yet to move is there to be moved.
TodoInv ==
  \A u \in todo : CASE pc = "namespace" -> u.ns = "name" /\ registry[u] # None
                   [] pc = "rename" -> Renamed(u) /\ registry[u] # None
                   [] OTHER -> FALSE

Inv == TypeOK /\ FormsInv /\ TodoInv
-----------------------------------------------------------------------------
(* Ids                                                                     *)

\* An id is its namespace, kind and reference.
LEMMA IdsEqual ==
  \A u, v \in Ids : u.ns = v.ns /\ u.kind = v.kind /\ u.ref = v.ref => u = v
BY DEF Ids

LEMMA IdentityType ==
  ASSUME NEW o \in Objects, NEW bad
  PROVE  Identity(o, bad) \in Refs /\ IdOf(o, bad) \in Ids
BY ObjectsAssumption DEF Identity, IdOf, Id, Ids

LEMMA IdOfFields ==
  ASSUME NEW o \in Objects, NEW bad
  PROVE  /\ IdOf(o, bad).ns = "identity"
         /\ IdOf(o, bad).kind = o.kind
         /\ IdOf(o, bad).ref = Identity(o, bad)
BY DEF IdOf, Id

\* Whatever the poisoned commons, an object's identity is one of its forms.
LEMMA IdentityForm ==
  ASSUME NEW o \in Objects, NEW bad
  PROVE  Identity(o, bad) \in Forms(o)
<1>1. CASE o.kind = "cert"
  <2>1. o.name # NoCommon
    BY ObjectsAssumption
  <2> QED BY <1>1, <2>1 DEF Identity, Forms
<1>2. CASE o.kind # "cert"
  <2>1. o.common = NoCommon
    BY <1>2, ObjectsAssumption
  <2> QED BY <1>2, <2>1 DEF Identity, Forms
<1> QED BY <1>1, <1>2

\* Of what a refresh shows, none has the id of an object that stands apart.
LEMMA IdentitiesDiffer ==
  ASSUME NEW S \in SUBSET Objects, NEW bad, DifferentNames(S), Shared(S) \subseteq bad,
         NEW o \in S, Apart(o, S), NEW p \in S, IdOf(o, bad) = IdOf(p, bad)
  PROVE  o = p
<1>1. o.kind = p.kind /\ Identity(o, bad) = Identity(p, bad)
  BY IdOfFields
<1>2. CASE Identity(o, bad) = o.name /\ Identity(p, bad) = p.name
  BY <1>1, <1>2 DEF DifferentNames
<1>3. CASE Identity(o, bad) # o.name /\ Identity(p, bad) # p.name
  <2>1. /\ o.common = p.common /\ o.common # NoCommon
        /\ o.common \notin bad
    BY <1>1, <1>3 DEF Identity
  <2>2. o.common \in Refs
    BY <2>1, ObjectsAssumption
  <2> QED BY <2>1, <2>2 DEF Shared
<1>4. CASE Identity(o, bad) = o.name /\ Identity(p, bad) # p.name
  <2>1. o.name = p.common /\ p.common # NoCommon
    BY <1>1, <1>4 DEF Identity
  <2>2. p.kind = "cert"
    BY <2>1, ObjectsAssumption
  <2> QED BY <1>1, <2>1, <2>2 DEF Apart
<1>5. CASE Identity(o, bad) # o.name /\ Identity(p, bad) = p.name
  <2>1. p.name = o.common /\ o.common # NoCommon
    BY <1>1, <1>5 DEF Identity
  <2>2. o.kind = "cert"
    BY <2>1, ObjectsAssumption
  <2> QED BY <1>1, <2>1, <2>2 DEF Apart
<1> QED BY <1>2, <1>3, <1>4, <1>5
-----------------------------------------------------------------------------
(* Candidates                                                              *)

\* Candidates read off the pairs: an object of the kind with that format, or that name.
LEMMA CandidateIff ==
  ASSUME NEW u, NEW r
  PROVE  r \in Candidates(u) <=>
           \E o \in shown :
             /\ o.kind = u.kind /\ r = Identity(o, poisoned)
             /\ (\E f \in Formats : f[r] = u.ref) \/ (o.kind = "cert" /\ o.name = u.ref)
<1> DEFINE S == {o \in shown : o.kind = u.kind}
           A == {<<f[Identity(o, poisoned)], Identity(o, poisoned)>> : f \in Formats, o \in S}
           B == {<<o.name, Identity(o, poisoned)>> : o \in {p \in S : p.kind = "cert"}}
<1>1. Candidates(u) = {p[2] : p \in {q \in A \cup B : q[1] = u.ref}}
  BY DEF Candidates, Pairs
<1>2. r \in Candidates(u) <=> \E p \in A \cup B : p[1] = u.ref /\ r = p[2]
  BY <1>1
<1>3. (\E p \in A : p[1] = u.ref /\ r = p[2])
        <=> \E f \in Formats, o \in S : f[Identity(o, poisoned)] = u.ref /\ r = Identity(o, poisoned)
  <2>1. \A f \in Formats, o \in S :
          LET t == <<f[Identity(o, poisoned)], Identity(o, poisoned)>>
          IN  t \in A /\ t[1] = f[Identity(o, poisoned)] /\ t[2] = Identity(o, poisoned)
    BY SMT
  <2>2. \A p \in A : \E f \in Formats, o \in S :
          p[1] = f[Identity(o, poisoned)] /\ p[2] = Identity(o, poisoned)
    BY SMT
  <2> HIDE DEF A, S
  <2> QED BY <2>1, <2>2
<1>4. (\E p \in B : p[1] = u.ref /\ r = p[2])
        <=> \E o \in S : o.kind = "cert" /\ o.name = u.ref /\ r = Identity(o, poisoned)
  <2>1. \A o \in S : o.kind = "cert" =>
          LET t == <<o.name, Identity(o, poisoned)>>
          IN  t \in B /\ t[1] = o.name /\ t[2] = Identity(o, poisoned)
    BY SMTT(30)
  <2>2. \A p \in B : \E o \in S :
          o.kind = "cert" /\ p[1] = o.name /\ p[2] = Identity(o, poisoned)
    BY SMTT(30)
  <2> HIDE DEF B, S
  <2> QED BY <2>1, <2>2
<1> HIDE DEF A, B
<1> QED BY <1>2, <1>3, <1>4

\* A formatted reference that is an object's identity is a candidate of its own.
LEMMA OwnCandidate ==
  ASSUME shown \subseteq Objects, NEW u, NEW o \in shown, u.kind = o.kind,
         u.ref = Identity(o, poisoned), NEW f \in Formats, NEW r \in Refs, f[r] = u.ref
  PROVE  u.ref \in Candidates(u)
<1>1. f[u.ref] = u.ref
  BY FormatsAssumption
<1> QED BY <1>1, CandidateIff

\* No id that an object standing apart has now is renamed.
LEMMA NoChain ==
  ASSUME TypeOK, NEW o \in shown, Apart(o, shown)
  PROVE  ~Renamed(Current(o))
<1> DEFINE u == Current(o)
<1> SUFFICES ASSUME NEW r \in Refs, Candidates(u) = {r}, r # u.ref
             PROVE  FALSE
  BY DEF Renamed
<1>0. o \in Objects /\ shown \subseteq Objects /\ DifferentNames(shown)
  BY DEF TypeOK
<1>1. u.kind = o.kind /\ u.ref = Identity(o, poisoned)
  BY <1>0, IdOfFields DEF Current
<1>2. PICK p \in shown :
        /\ p.kind = u.kind /\ r = Identity(p, poisoned)
        /\ (\E f \in Formats : f[r] = u.ref) \/ (p.kind = "cert" /\ p.name = u.ref)
  BY CandidateIff
<1>3. CASE \E f \in Formats : f[r] = u.ref
  <2>1. u.ref \in Candidates(u)
    BY <1>0, <1>1, <1>3, OwnCandidate
  <2> QED BY <2>1
<1>4. CASE p.kind = "cert" /\ p.name = u.ref
  <2>1. p = o
    <3>1. CASE u.ref = o.name
      BY <1>0, <1>1, <1>2, <1>4, <3>1 DEF DifferentNames
    <3>2. CASE u.ref # o.name
      <4>1. u.ref = o.common
        BY <1>1, <3>2 DEF Identity
      <4> QED BY <1>0, <1>1, <1>2, <1>4, <4>1, ObjectsAssumption DEF Apart
    <3> QED BY <3>1, <3>2
  <2> QED BY <1>1, <1>2, <2>1
<1> QED BY <1>2, <1>3, <1>4

\* An id an object may have had is renamed to the one it has now, or not at all.
LEMMA RightName ==
  ASSUME TypeOK, NEW o \in shown, Apart(o, shown), NEW u \in Ids, u.kind = o.kind, u.ref \in Forms(o),
         Renamed(u)
  PROVE  NewId(u) = Current(o)
<1>0. o \in Objects /\ shown \subseteq Objects
  BY DEF TypeOK
<1>1. PICK r \in Refs : Candidates(u) = {r} /\ r # u.ref
  BY DEF Renamed
<1>2. (CHOOSE q \in Refs : Candidates(u) = {q}) = r
  BY <1>1
<1>3. NewId(u) = [u EXCEPT !.ref = r]
  BY <1>2 DEF NewId
<1>4. u.ns = "identity"
  BY DEF Renamed
<1>5. SUFFICES r = Identity(o, poisoned)
  BY <1>0, <1>3, <1>4, <1>5 DEF Current, IdOf, Id, Ids
<1>6. SUFFICES Identity(o, poisoned) \in Candidates(u)
  BY <1>1
<1>7. CASE o.kind # "cert"
  <2>1. Identity(o, poisoned) = o.name /\ o.name \in Refs
    BY <1>0, <1>7, ObjectsAssumption DEF Identity
  <2>2. u.ref = o.name \/ \E f \in Formats : u.ref = f[o.name]
    BY <1>7 DEF Forms
  <2>3. CASE u.ref = o.name
    <3>1. u = Current(o)
      BY <1>0, <1>4, <2>1, <2>3 DEF Current, IdOf, Id, Ids
    <3> QED BY <3>1, NoChain
  <2>4. CASE \E f \in Formats : u.ref = f[o.name]
    BY <2>1, <2>4, CandidateIff
  <2> QED BY <2>2, <2>3, <2>4
<1>8. CASE o.kind = "cert"
  <2>1. u.ref = o.name \/ (u.ref = o.common /\ o.common # NoCommon)
    BY <1>8 DEF Forms
  <2>2. CASE u.ref = o.name
    BY <1>8, <2>2, CandidateIff
  <2>3. CASE u.ref = o.common /\ o.common # NoCommon
    <3>1. PICK p \in shown :
            /\ p.kind = u.kind /\ r = Identity(p, poisoned)
            /\ (\E f \in Formats : f[r] = u.ref) \/ (p.kind = "cert" /\ p.name = u.ref)
      BY <1>1, CandidateIff
    <3>2. CASE p.kind = "cert" /\ p.name = u.ref
      <4>1. p = o
        BY <1>0, <1>8, <2>3, <3>1, <3>2 DEF Apart
      <4> QED BY <1>1, <3>1, <4>1
    <3>3. CASE \E f \in Formats : f[r] = u.ref
      <4>1. PICK f \in Formats : f[r] = u.ref
        BY <3>3
      <4>2. CASE r = p.name
        <5>1. p = o
          BY <1>0, <1>8, <2>3, <3>1, <4>1, <4>2 DEF Apart
        <5> QED BY <1>1, <3>1, <5>1
      <4>3. CASE r # p.name
        <5>1. r = p.common /\ p.common # NoCommon
          BY <3>1, <4>3 DEF Identity
        <5>2. p.common = o.common
          BY <1>0, <1>8, <2>3, <3>1, <4>1, <5>1 DEF Apart
        <5> QED BY <1>1, <2>3, <5>1, <5>2
      <4> QED BY <4>2, <4>3
    <3> QED BY <3>1, <3>2, <3>3
  <2> QED BY <2>1, <2>2, <2>3
<1> QED BY <1>7, <1>8
-----------------------------------------------------------------------------
(* The registry                                                            *)

\* A rename changes the reference only.
LEMMA NewIdType ==
  ASSUME NEW u \in Ids, Renamed(u)
  PROVE  NewId(u) \in Ids /\ NewId(u) # u /\ NewId(u).kind = u.kind
<1>1. PICK r \in Refs : Candidates(u) = {r} /\ r # u.ref
  BY DEF Renamed
<1>2. (CHOOSE q \in Refs : Candidates(u) = {q}) = r
  BY <1>1
<1> QED BY <1>1, <1>2 DEF NewId, Ids

\* What an id is renamed to is the current id of an object.
LEMMA NewIdCurrent ==
  ASSUME TypeOK, NEW u \in Ids, Renamed(u)
  PROVE  \E o \in shown : Current(o) = NewId(u)
<1>1. PICK r \in Refs : Candidates(u) = {r} /\ r # u.ref
  BY DEF Renamed
<1>2. (CHOOSE q \in Refs : Candidates(u) = {q}) = r
  BY <1>1
<1>3. PICK o \in shown : o.kind = u.kind /\ r = Identity(o, poisoned)
  BY <1>1, CandidateIff
<1>4. NewId(u) = [u EXCEPT !.ref = r]
  BY <1>2 DEF NewId
<1>5. u.ns = "identity"
  BY DEF Renamed
<1>6. Current(o) = NewId(u)
  BY <1>3, <1>4, <1>5 DEF Current, IdOf, Id, Ids
<1> QED BY <1>6

LEMMA MovedType ==
  ASSUME registry \in [Ids -> Objects \cup {None}], NEW u \in Ids, NEW new \in Ids, u # new
  PROVE  /\ Moved(u, new) \in [Ids -> Objects \cup {None}]
         /\ Moved(u, new)[u] = None
         /\ Moved(u, new)[new] = IF registry[new] = None THEN registry[u] ELSE registry[new]
         /\ \A v \in Ids \ {u, new} : Moved(u, new)[v] = registry[v]
BY DEF Moved

LEMMA RefreshedType ==
  ASSUME registry \in [Ids -> Objects \cup {None}], NEW S \in SUBSET Objects, NEW bad
  PROVE  /\ Refreshed(S, bad) \in [Ids -> Objects \cup {None}]
         /\ \A u \in Ids :
              \/ \E o \in S : IdOf(o, bad) = u /\ Refreshed(S, bad)[u] = o
              \/ (\A o \in S : IdOf(o, bad) # u) /\ Refreshed(S, bad)[u] \in {None, registry[u]}
<1>1. \A u \in Ids : (\E o \in S : IdOf(o, bad) = u) =>
         LET p == CHOOSE o \in S : IdOf(o, bad) = u IN p \in S /\ IdOf(p, bad) = u
  OBVIOUS
<1> QED BY <1>1 DEF Refreshed
-----------------------------------------------------------------------------
(* Types                                                                   *)

LEMMA TypeInit == Init => TypeOK
BY DEF Init, TypeOK, DifferentNames

LEMMA SharedType == \A S : Shared(S) \subseteq Refs
BY DEF Shared

\* Each step keeps the types.
LEMMA TypeStep == TypeOK /\ TodoInv /\ [Next]_vars => TypeOK'
<1> SUFFICES ASSUME TypeOK, TodoInv, [Next]_vars
             PROVE  TypeOK'
  OBVIOUS
<1> USE DEF TypeOK
<1>1. CASE Start
  BY <1>1, SharedType DEF Start, Taken, DifferentNames
<1>2. CASE NamespaceMoved
  BY <1>2 DEF NamespaceMoved, Taken, DifferentNames
<1>3. CASE SetUpDone
  BY <1>3, RefreshedType DEF SetUpDone, DifferentNames
<1>4. CASE Poll
  <2>1. registry' \in [Ids -> Objects \cup {None}]
    BY <1>4, RefreshedType DEF Poll
  <2> QED BY <1>4, <2>1, SharedType DEF Poll, Poisoned, DifferentNames
<1>5. CASE Stop
  BY <1>5 DEF Stop, DifferentNames
<1>6. CASE Change
  BY <1>6 DEF Change, DifferentNames
<1>7. ASSUME NEW o \in Objects, EarlierVersion(o)
      PROVE  TypeOK'
  BY <1>7 DEF EarlierVersion, DifferentNames
<1>8. ASSUME NEW u \in Ids, MoveNamespace(u)
      PROVE  TypeOK'
  <2>1. [u EXCEPT !.ns = "identity"] \in Ids /\ [u EXCEPT !.ns = "identity"] # u
    BY <1>8 DEF MoveNamespace, TodoInv, Ids
  <2>2. registry' \in [Ids -> Objects \cup {None}]
    BY <1>8, <2>1, MovedType DEF MoveNamespace
  <2> QED BY <1>8, <2>2 DEF MoveNamespace, DifferentNames
<1>9. ASSUME NEW u \in Ids, Rename(u)
      PROVE  TypeOK'
  <2>1. Renamed(u)
    BY <1>9 DEF Rename, TodoInv
  <2>2. NewId(u) \in Ids /\ NewId(u) # u
    BY <2>1, NewIdType
  <2>3. registry' \in [Ids -> Objects \cup {None}]
    BY <1>9, <2>2, MovedType DEF Rename
  <2> QED BY <1>9, <2>3 DEF Rename, DifferentNames
<1>10. CASE UNCHANGED vars
  BY <1>10 DEF vars, DifferentNames
<1> QED BY <1>1, <1>2, <1>3, <1>4, <1>5, <1>6, <1>7, <1>8, <1>9, <1>10 DEF Next
-----------------------------------------------------------------------------
(* What the loops have to do                                               *)

\* A loop's step moves one entry and leaves those it has yet to move.
LEMMA TodoStep == Inv /\ [Next]_vars => TodoInv'
<1> SUFFICES ASSUME Inv, [Next]_vars
             PROVE  TodoInv'
  OBVIOUS
<1> USE DEF Inv, TypeOK
<1>1. CASE Start
  BY <1>1 DEF Start, TodoInv, Taken
<1>2. CASE NamespaceMoved
  BY <1>2, SMTT(30) DEF NamespaceMoved, TodoInv, Taken, Renamed, Candidates, Pairs, Identity
<1>3. CASE SetUpDone
  BY <1>3 DEF SetUpDone, TodoInv
<1>4. CASE Poll
  BY <1>4 DEF Poll, TodoInv
<1>5. CASE Stop
  BY <1>5 DEF Stop, TodoInv
<1>6. CASE Change
  BY <1>6 DEF Change, TodoInv, Renamed, Candidates, Pairs, Identity
<1>7. ASSUME NEW o \in Objects, EarlierVersion(o)
      PROVE  TodoInv'
  BY <1>7 DEF EarlierVersion, TodoInv
<1>8. ASSUME NEW u \in Ids, MoveNamespace(u)
      PROVE  TodoInv'
  <2>1. [u EXCEPT !.ns = "identity"] \in Ids /\ [u EXCEPT !.ns = "identity"] # u
    BY <1>8 DEF MoveNamespace, TodoInv, Ids
  <2>2. \A v \in todo' : registry[v] # None => registry'[v] # None
    BY <1>8, <2>1, MovedType DEF MoveNamespace
  <2> QED BY <1>8, <2>2 DEF MoveNamespace, TodoInv
<1>9. ASSUME NEW u \in Ids, Rename(u)
      PROVE  TodoInv'
  <2>1. Renamed(u)
    BY <1>9 DEF Rename, TodoInv
  <2>2. NewId(u) \in Ids /\ NewId(u) # u
    BY <2>1, NewIdType
  <2>3. \A v \in todo' : registry[v] # None => registry'[v] # None
    BY <1>9, <2>2, MovedType DEF Rename
  <2>4. \A v : Renamed(v) <=> Renamed(v)'
    BY <1>9 DEF Rename, Renamed, Candidates, Pairs, Identity
  <2> QED BY <1>9, <2>3, <2>4 DEF Rename, TodoInv
<1>10. CASE UNCHANGED vars
  <2>1. \A v : Renamed(v) <=> Renamed(v)'
    BY <1>10 DEF vars, Renamed, Candidates, Pairs, Identity
  <2> QED BY <1>10, <2>1 DEF vars, TodoInv
<1> QED BY <1>1, <1>2, <1>3, <1>4, <1>5, <1>6, <1>7, <1>8, <1>9, <1>10 DEF Next
-----------------------------------------------------------------------------
(* Whose ids they are                                                      *)

\* Each step leaves under an id only objects that have had it.
LEMMA FormsStep == Inv /\ [Next]_vars => FormsInv'
<1> SUFFICES ASSUME Inv, [Next]_vars
             PROVE  FormsInv'
  OBVIOUS
<1> USE DEF Inv, TypeOK
<1>0. ASSUME registry' = registry, pc' # "rename", pc # "rename"
      PROVE  FormsInv'
  BY <1>0 DEF FormsInv, Taken, TakenOver, Clear
<1>1. CASE Start
  BY <1>0, <1>1 DEF Start
<1>2. CASE NamespaceMoved
  BY <1>2 DEF NamespaceMoved, FormsInv, Taken, TakenOver, Clear
<1>3. CASE SetUpDone
  <2>1. registry' = Refreshed(shown, poisoned) /\ pc = "rename"
    BY <1>3 DEF SetUpDone
  <2> SUFFICES ASSUME NEW u \in Ids, registry'[u] # None
               PROVE  registry'[u].kind = u.kind /\ u.ref \in Forms(registry'[u])
    BY <1>3 DEF FormsInv, Taken, SetUpDone
  <2>2. CASE \E o \in shown : IdOf(o, poisoned) = u
    <3>1. PICK o \in shown : IdOf(o, poisoned) = u /\ registry'[u] = o
      BY <2>1, <2>2, RefreshedType
    <3> QED BY <3>1, IdOfFields, IdentityForm
  <2>3. CASE \A o \in shown : IdOf(o, poisoned) # u
    <3>1. registry'[u] = registry[u]
      BY <2>1, <2>3, RefreshedType
    <3>2. ~TakenOver(u)
      BY <2>3 DEF TakenOver, Clear, Current
    <3> QED BY <3>1, <3>2 DEF FormsInv, Taken
  <2> QED BY <2>2, <2>3
<1>4. CASE Poll
  <2>1. registry' = Refreshed(shown', poisoned') /\ pc = "loaded" /\ pc' = "loaded" /\ shown' \in SUBSET Objects
    BY <1>4 DEF Poll
  <2> SUFFICES ASSUME NEW u \in Ids, registry'[u] # None
               PROVE  registry'[u].kind = u.kind /\ u.ref \in Forms(registry'[u])
    BY <2>1 DEF FormsInv, Taken
  <2>2. CASE \E o \in shown' : IdOf(o, poisoned') = u
    <3>1. PICK o \in shown' : IdOf(o, poisoned') = u /\ registry'[u] = o
      BY <2>1, <2>2, RefreshedType
    <3> QED BY <2>1, <3>1, IdOfFields, IdentityForm
  <2>3. CASE \A o \in shown' : IdOf(o, poisoned') # u
    <3>1. registry'[u] = registry[u]
      BY <2>1, <2>3, RefreshedType
    <3> QED BY <2>1, <3>1 DEF FormsInv, Taken, TakenOver, Clear
  <2> QED BY <2>2, <2>3
<1>5. CASE Stop
  BY <1>0, <1>5 DEF Stop
<1>6. CASE Change
  BY <1>6 DEF Change, FormsInv, Taken, TakenOver, Clear, Current, IdOf, Identity
<1>7. ASSUME NEW o \in Objects, EarlierVersion(o)
      PROVE  FormsInv'
  <2>1. PICK ns \in {"name", "identity"}, ref \in Forms(o) :
          registry' = [registry EXCEPT ![Id(ns, o.kind, ref)] = o]
    BY <1>7 DEF EarlierVersion
  <2> QED BY <1>7, <2>1 DEF EarlierVersion, FormsInv, Taken, TakenOver, Clear, Id
<1>8. ASSUME NEW u \in Ids, MoveNamespace(u)
      PROVE  FormsInv'
  <2> DEFINE new == [u EXCEPT !.ns = "identity"]
  <2>1. new \in Ids /\ new # u /\ new.kind = u.kind /\ new.ref = u.ref
    BY <1>8 DEF MoveNamespace, TodoInv, Ids
  <2>2. registry[u] # None /\ pc = "namespace" /\ pc' = pc
    BY <1>8 DEF MoveNamespace, TodoInv
  <2>3. registry' = Moved(u, new)
    BY <1>8 DEF MoveNamespace
  <2> HIDE DEF new
  <2>4. /\ registry'[u] = None
        /\ registry'[new] = IF registry[new] = None THEN registry[u] ELSE registry[new]
        /\ \A v \in Ids \ {u, new} : registry'[v] = registry[v]
    BY <2>1, <2>3, MovedType
  <2> QED BY <2>1, <2>2, <2>4 DEF FormsInv, Taken, TakenOver, Clear
<1>9. ASSUME NEW u \in Ids, Rename(u)
      PROVE  FormsInv'
  <2>1. Renamed(u) /\ registry[u] # None /\ pc = "rename" /\ pc' = pc
    BY <1>9 DEF Rename, TodoInv
  <2>2. PICK new \in Ids : new = NewId(u) /\ new # u /\ new.kind = u.kind
    BY <2>1, NewIdType
  <2>3. PICK o \in shown : Current(o) = new
    BY <2>1, <2>2, NewIdCurrent
  <2>4. shown' = shown /\ poisoned' = poisoned
    BY <1>9 DEF Rename
  <2>5. \A p : Current(p)' = Current(p)
    BY <2>4 DEF Current, IdOf, Identity
  <2>6. registry' = Moved(u, new)
    BY <1>9, <2>2 DEF Rename
  <2>7. /\ registry'[u] = None
        /\ registry'[new] = IF registry[new] = None THEN registry[u] ELSE registry[new]
        /\ \A v \in Ids \ {u, new} : registry'[v] = registry[v]
    BY <2>2, <2>6, MovedType
  <2>8. ASSUME NEW v \in Ids, v # new, registry'[v] # None
        PROVE  registry'[v].kind = v.kind /\ (v.ref \in Forms(registry'[v]) \/ TakenOver(v)')
    BY <2>1, <2>4, <2>5, <2>7, <2>8 DEF FormsInv, Taken, TakenOver, Clear
  <2>9. registry'[new].kind = new.kind /\ (new.ref \in Forms(registry'[new]) \/ TakenOver(new)')
    <3>1. CASE registry[new] # None
      BY <2>1, <2>2, <2>4, <2>5, <2>7, <3>1 DEF FormsInv, Taken, TakenOver, Clear
    <3>2. CASE registry[new] = None /\ ~Clear(registry[u])
      <4>1. registry'[new] = registry[u] /\ registry[u].kind = new.kind
        BY <2>1, <2>2, <2>7, <3>2 DEF FormsInv, Taken
      <4> QED BY <2>1, <2>3, <2>4, <2>5, <3>2, <4>1 DEF TakenOver, Clear
    <3>3. CASE registry[new] = None /\ Clear(registry[u])
      <4>0. registry[u] \in shown /\ Apart(registry[u], shown)
        BY <3>3 DEF Clear
      <4>1. registry'[new] = registry[u] /\ registry[u].kind = u.kind /\ u.ref \in Forms(registry[u])
        BY <2>1, <2>7, <3>3 DEF FormsInv, Taken, TakenOver
      <4>2. new = Current(registry[u])
        BY <2>1, <2>2, <4>0, <4>1, RightName
      <4>3. new.ref \in Forms(registry[u])
        BY <4>0, <4>2, IdOfFields, IdentityForm DEF Current
      <4> QED BY <2>2, <4>1, <4>3
    <3> QED BY <3>1, <3>2, <3>3
  <2> QED BY <2>8, <2>9 DEF FormsInv, Taken
<1>10. CASE UNCHANGED vars
  BY <1>10 DEF vars, FormsInv, Taken, TakenOver, Clear, Current, IdOf, Identity
<1> QED BY <1>1, <1>2, <1>3, <1>4, <1>5, <1>6, <1>7, <1>8, <1>9, <1>10 DEF Next
-----------------------------------------------------------------------------
LEMMA InvInit == Init => Inv
<1> SUFFICES ASSUME Init PROVE Inv
  OBVIOUS
<1>1. Taken = {}
  BY DEF Init, Taken
<1> QED BY <1>1, TypeInit DEF Init, Inv, FormsInv, TodoInv

LEMMA InvStep == Inv /\ [Next]_vars => Inv'
BY TypeStep, TodoStep, FormsStep DEF Inv

\* Every variable keeps its type, and names stay unique among what is shown.
THEOREM TypeCorrect == Spec => []TypeOK
<1>1. Inv => TypeOK
  BY DEF Inv
<1> QED BY InvInit, InvStep, <1>1, PTL DEF Spec

\* A step of the renaming loop gives an entity to its own object or removes a duplicate.
LEMMA KeepsStep ==
  Inv /\ [Next]_vars =>
    (pc = "rename" /\ pc' = "rename" =>
       \A u \in Taken :
         /\ registry[u] \in shown /\ Apart(registry[u], shown)
         /\ registry'[u] # registry[u]
         => LET current == Current(registry[u])
            IN  \/ registry[current] = None /\ registry'[current] = registry[u]
                \/ /\ registry[current] # None /\ registry'[current] = registry[current]
                   /\ ~Renamed(current))
<1> SUFFICES ASSUME Inv, [Next]_vars, pc = "rename", pc' = "rename", NEW u \in Taken,
                    Clear(registry[u]), registry'[u] # registry[u]
             PROVE  LET current == Current(registry[u])
                    IN  \/ registry[current] = None /\ registry'[current] = registry[u]
                        \/ /\ registry[current] # None /\ registry'[current] = registry[current]
                           /\ ~Renamed(current)
  BY DEF Clear
<1> USE DEF Inv, TypeOK
<1>1. PICK v \in Ids : Rename(v)
  BY DEF Next, vars, Start, NamespaceMoved, SetUpDone, Poll, Stop, Change, EarlierVersion, MoveNamespace
<1>2. Renamed(v) /\ registry[v] # None /\ registry' = Moved(v, NewId(v))
  BY <1>1 DEF Rename, TodoInv
<1>3. NewId(v) \in Ids /\ NewId(v) # v
  BY <1>2, NewIdType
<1>4. /\ registry'[NewId(v)] = IF registry[NewId(v)] = None THEN registry[v] ELSE registry[NewId(v)]
      /\ \A w \in Ids \ {v, NewId(v)} : registry'[w] = registry[w]
  BY <1>2, <1>3, MovedType
<1>5. u = v
  BY <1>3, <1>4 DEF Taken
<1>6. registry[u].kind = u.kind /\ u.ref \in Forms(registry[u])
  BY DEF FormsInv, TakenOver
<1>7. registry[u] \in shown /\ Apart(registry[u], shown)
  BY DEF Clear
<1>8. NewId(u) = Current(registry[u])
  BY <1>2, <1>5, <1>6, <1>7, RightName
<1>9. ~Renamed(Current(registry[u]))
  BY <1>7, NoChain
<1> QED BY <1>4, <1>5, <1>8, <1>9

\* The renaming gives the entity of an object that is shown only to that object, and
\* removes it only beside an entity that keeps the id the object has now: of datasets
\* always, of a certificate if no other one shown can be taken for it.
THEOREM HistoriesKept == Spec => MigrationKeepsHistory
BY InvInit, InvStep, KeepsStep, PTL DEF Spec, MigrationKeepsHistory

\* A poll moves an object to another id only when its common name comes to be shared.
LEMMA IdentifiedStep ==
  Inv /\ [Next]_vars =>
    (pc = "loaded" /\ pc' = "loaded" =>
       \A o \in shown \cap shown' :
         Apart(o, shown') /\ registry[Current(o)] = o /\ registry'[Current(o)] # o =>
           o.common \in Shared(shown') \ poisoned)
<1> SUFFICES ASSUME Inv, [Next]_vars, pc = "loaded", pc' = "loaded",
                    NEW o \in shown, o \in shown', Apart(o, shown'),
                    registry[Current(o)] = o, registry'[Current(o)] # o
             PROVE  o.common \in Shared(shown') \ poisoned
  OBVIOUS
<1> USE DEF Inv, TypeOK
<1>1. Poll
  BY DEF Next, vars, Start, NamespaceMoved, SetUpDone, Rename, Stop, Change, EarlierVersion, MoveNamespace
<1>2. /\ shown' \in SUBSET Objects /\ DifferentNames(shown')
      /\ poisoned' = poisoned \cup Shared(shown')
      /\ registry' = Refreshed(shown', poisoned')
  BY <1>1 DEF Poll, Poisoned
<1>3. IdOf(o, poisoned') # Current(o)
  <2> SUFFICES ASSUME IdOf(o, poisoned') = Current(o)
               PROVE  FALSE
    OBVIOUS
  <2>1. Current(o) \in Ids
    BY IdentityType DEF Current
  <2>2. PICK p \in shown' : IdOf(p, poisoned') = Current(o) /\ registry'[Current(o)] = p
    BY <1>2, <2>1, RefreshedType
  <2>3. p = o
    BY <1>2, <2>2, IdentitiesDiffer
  <2> QED BY <2>2, <2>3
<1>4. o.common \notin poisoned /\ o.common \in poisoned'
  BY <1>2, <1>3 DEF Current, IdOf, Identity
<1> QED BY <1>2, <1>4

\* While the entry stays loaded an entity keeps the object it shows, until the common
\* name of that object comes to be shared or another certificate can be taken for it.
THEOREM Identified == Spec => StaysIdentified
BY InvInit, InvStep, IdentifiedStep, PTL DEF Spec, StaysIdentified
=============================================================================
