------------------------------ MODULE UniqueIds ------------------------------
(***************************************************************************)
(* The unique ids of entities, by which Home Assistant knows them from one *)
(* start to the next, and their migration from earlier formats at set-up   *)
(* (entity.py, migrate_entry_identity_namespace and                        *)
(* migrate_legacy_unique_ids), over certificates whose identity depends on *)
(* the other certificates (coordinator.py, _assign_certificate_identities) *)
(* and over objects, such as datasets, that are known by their name.       *)
(*                                                                         *)
(* registry says for each unique id which object its entity has shown      *)
(* last: what is recorded under the id is the history of that object.      *)
(***************************************************************************)
EXTENDS FiniteSets, Naturals

CONSTANTS
  Objects,  \* records [kind, name, common]; kind is "cert" or "plain"
  Refs,     \* what names, common names and their formats are taken from
  Slug,     \* slugify, of the lowercased reference: the oldest format
  Lower,    \* the lowercased reference: the format after it
  NoCommon, \* the empty common name
  None,
  MaxOld    \* bound on the registry entries of earlier versions

Formats == {Slug, Lower}

ASSUME ObjectsAssumption ==
  /\ Objects \subseteq [kind: {"cert", "plain"}, name: Refs, common: Refs \cup {NoCommon}]
  /\ \A o \in Objects : o.kind = "plain" => o.common = NoCommon
  /\ NoCommon \notin Refs /\ None \notin Objects

\* Both formats leave alone what they have formatted.
ASSUME FormatsAssumption ==
  \A f \in Formats : f \in [Refs -> Refs] /\ \A r \in Refs : f[f[r]] = f[r]

VARIABLES
  present,  \* the objects on the NAS
  shown,    \* those of the last refresh
  poisoned, \* _poisoned_certificate_commons
  registry, \* unique id -> the object its entity has shown last, or None
  pc,       \* the set-up of the entry
  todo      \* the registry entries a loop of the migration has yet to look at

vars == <<present, shown, poisoned, registry, pc, todo>>

\* The old namespace is the entry's name, the new one its identity; kind
\* stands for the key of an entity description.
Ids == [ns: {"name", "identity"}, kind: {"cert", "plain"}, ref: Refs]
Id(ns, kind, ref) == [ns |-> ns, kind |-> kind, ref |-> ref]

Taken == {u \in Ids : registry[u] # None}

DifferentNames(S) == \A o, p \in S : o.kind = p.kind /\ o.name = p.name => o = p

\* What an earlier version may have known an object by.
Forms(o) ==
  IF o.kind = "cert" THEN {o.name, o.common} \ {NoCommon}
                     ELSE {o.name} \cup {f[o.name] : f \in Formats}

Init ==
  /\ present = {}
  /\ shown = {} /\ poisoned = {}
  /\ registry = [u \in Ids |-> None]
  /\ pc = "stopped" /\ todo = {}
-----------------------------------------------------------------------------
(* Identities                                                              *)

Shared(S) ==
  {c \in Refs : \E o, p \in S : o # p /\ o.common = c /\ p.common = c}

\* Mutant: a common name is good again once it is not shared any more.
PoisonedNow(S) == Shared(S)

Poisoned(S) == poisoned \cup Shared(S)

Identity(o, bad) ==
  IF o.common # NoCommon /\ o.common \notin bad THEN o.common ELSE o.name

IdOf(o, bad) == Id("identity", o.kind, Identity(o, bad))
Current(o) == IdOf(o, poisoned)
-----------------------------------------------------------------------------
(* _collect_unique_id_renames: an old reference and the one it becomes     *)

Pairs(kind) ==
  LET S == {o \in shown : o.kind = kind}
      Now(o) == Identity(o, poisoned)
  IN  {<<f[Now(o)], Now(o)>> : f \in Formats, o \in S}
        \cup {<<o.name, Now(o)>> : o \in {p \in S : p.kind = "cert"}}

\* Mutant: a reference that stays as it is, is no candidate.
CandidatesChanged(u) == {p[2] : p \in {q \in Pairs(u.kind) : q[1] = u.ref /\ q[2] # q[1]}}

Candidates(u) == {p[2] : p \in {q \in Pairs(u.kind) : q[1] = u.ref}}

\* A reference with several candidates is left as it is.
Renamed(u) ==
  /\ u.ns = "identity"
  /\ \E r \in Refs : Candidates(u) = {r} /\ r # u.ref

NewId(u) == [u EXCEPT !.ref = CHOOSE r \in Refs : Candidates(u) = {r}]

\* An entity whose new id is another's is removed as a duplicate.
Moved(u, new) ==
  [registry EXCEPT ![u] = None, ![new] = IF @ = None THEN registry[u] ELSE @]
-----------------------------------------------------------------------------
(* async_setup_entry; the loops go through the registry in any order, and  *)
(* nothing else happens between their steps                                *)

\* An earlier version, before an upgrade or after a downgrade, registers an object.
EarlierVersion(o) ==
  /\ pc = "stopped" /\ o \in present
  /\ Cardinality(Taken) < MaxOld
  /\ \E ns \in {"name", "identity"}, ref \in Forms(o) :
       /\ registry[Id(ns, o.kind, ref)] = None
       /\ registry' = [registry EXCEPT ![Id(ns, o.kind, ref)] = o]
  /\ UNCHANGED <<present, shown, poisoned, pc, todo>>

Stop ==
  /\ pc = "loaded" /\ pc' = "stopped"
  /\ UNCHANGED <<present, shown, poisoned, registry, todo>>

\* The first refresh of a new coordinator.
Start ==
  /\ pc = "stopped" /\ pc' = "namespace"
  /\ shown' = present /\ poisoned' = Shared(present)
  /\ todo' = {u \in Taken : u.ns = "name"}
  /\ UNCHANGED <<present, registry>>

MoveNamespace(u) ==
  /\ pc = "namespace" /\ u \in todo
  /\ registry' = Moved(u, [u EXCEPT !.ns = "identity"])
  /\ todo' = todo \ {u}
  /\ UNCHANGED <<present, shown, poisoned, pc>>

NamespaceMoved ==
  /\ pc = "namespace" /\ todo = {}
  /\ pc' = "rename"
  /\ todo' = {u \in Taken : Renamed(u)}
  /\ UNCHANGED <<present, shown, poisoned, registry>>

Rename(u) ==
  /\ pc = "rename" /\ u \in todo
  /\ registry' = Moved(u, NewId(u))
  /\ todo' = todo \ {u}
  /\ UNCHANGED <<present, shown, poisoned, pc>>

\* The cleanup of orphans, spared if there is no object of the kind, and discovery.
Refreshed(S, bad) ==
  [u \in Ids |->
     IF \E o \in S : IdOf(o, bad) = u THEN CHOOSE o \in S : IdOf(o, bad) = u
     ELSE IF \E o \in S : o.kind = u.kind THEN None ELSE registry[u]]

SetUpDone ==
  /\ pc = "rename" /\ todo = {}
  /\ pc' = "loaded"
  /\ registry' = Refreshed(shown, poisoned)
  /\ UNCHANGED <<present, shown, poisoned, todo>>

Poll ==
  /\ pc = "loaded"
  /\ shown' = present /\ poisoned' = Poisoned(present)
  /\ registry' = Refreshed(shown', poisoned')
  /\ UNCHANGED <<present, pc, todo>>

\* Objects come and go; a certificate that is rotated has another name, and the
\* old one may be there for a while.
Change ==
  /\ \E o \in Objects : present' \in {present \cup {o}, present \ {o}}
  /\ DifferentNames(present')
  /\ UNCHANGED <<shown, poisoned, registry, pc, todo>>

Next ==
  \/ Start \/ NamespaceMoved \/ SetUpDone \/ Poll \/ Stop \/ Change
  \/ \E o \in Objects : EarlierVersion(o)
  \/ \E u \in Ids : MoveNamespace(u) \/ Rename(u)

Spec == Init /\ [][Next]_vars
-----------------------------------------------------------------------------
\* Every variable keeps its type, and names are unique among what a refresh shows.
TypeOK ==
  /\ present \subseteq Objects /\ shown \subseteq Objects
  /\ DifferentNames(present) /\ DifferentNames(shown)
  /\ poisoned \subseteq Refs
  /\ registry \in [Ids -> Objects \cup {None}]
  /\ pc \in {"stopped", "namespace", "rename", "loaded"}
  /\ todo \subseteq Ids

\* No other certificate of S can be taken for o: none is named as o's common name
\* or has o's name as its common name, nor reads like o's common name in an old
\* format.  Nothing in TrueNAS or in the code ensures it.
Apart(o, S) ==
  \A p \in S \ {o} : o.kind = "cert" /\ p.kind = "cert" =>
    /\ o.name # p.common /\ p.name # o.common
    /\ \A f \in Formats :
         /\ f[p.name] # o.common
         /\ p.common # NoCommon /\ f[p.common] = o.common => p.common = o.common

\* However many old formats meet in the registry, and in whatever order it is
\* gone through, the renaming gives the entity of an object only to that object,
\* and removes it as a duplicate only beside an entity that has the object's
\* current id and keeps it (migrate_legacy_unique_ids: an id that may be of two
\* objects is not guessed at).  It is claimed of objects that are shown and, of
\* certificates, of those no other one shown can be taken for: a certificate named
\* as another's common name may cost that one its entity.
MigrationKeepsHistory ==
  [][pc = "rename" /\ pc' = "rename" =>
       \A u \in Taken :
         /\ registry[u] \in shown /\ Apart(registry[u], shown)
         /\ registry'[u] # registry[u]
         => LET current == Current(registry[u])
            IN  \/ registry[current] = None /\ registry'[current] = registry[u]
                \/ /\ registry[current] # None /\ registry'[current] = registry[current]
                   /\ ~Renamed(current)]_vars

\* While the entry stays loaded, an entity that shows an object keeps doing so
\* for as long as the object is there and no other certificate can be taken for
\* it, except when its common name comes to be shared: then it is known by its
\* name, and stays so when the other certificate is gone
\* (_assign_certificate_identities).
StaysIdentified ==
  [][pc = "loaded" /\ pc' = "loaded" =>
       \A o \in shown \cap shown' :
         Apart(o, shown') /\ registry[Current(o)] = o /\ registry'[Current(o)] # o =>
           o.common \in Shared(shown') \ poisoned]_vars
=============================================================================
