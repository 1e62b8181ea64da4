------------------------------ MODULE Migration ------------------------------
(***************************************************************************)
(* The adoption of the predecessor integration's entities, the poll's      *)
(* issues about it and the rollback (migration.py, repairs.py), over an    *)
(* entity registry that maps ids to entities.  Recorded history belongs to *)
(* the id, so what matters is who holds which id, and whether the ids that *)
(* were taken away can still be given back.                                *)
(*                                                                         *)
(* Home Assistant writes its registry to disk with a delay (ten seconds;   *)
(* its config entries, which the model takes as written at once, after     *)
(* one): a crash goes back to the registry that was written.               *)
(***************************************************************************)
EXTENDS Naturals, FiniteSets, SequencesExt

CONSTANTS
  Objects,    \* what both integrations have an entity for
  Names,      \* numbers standing for entity ids
  Temps,      \* numbers standing for the ids truenas_ce_mig_<n>
  Customised, \* the objects whose legacy entity the user customised
  Outcomes    \* how a re-enabled legacy entry comes up: TRUE, FALSE

Ids == Names \cup Temps

ASSUME IdsAssumption == Names \cap Temps = {} /\ Ids \subseteq Nat
\* There is an id for each entity, and always a temporary one that is free: two
\* integrations hold an id each of every object, and _temp_entity_id counts on.
ASSUME NamesAssumption == IsFiniteSet(Objects) /\ Injection(Objects, Names) # {}
ASSUME TempsAssumption == IsFiniteSet(Temps) => Cardinality(Temps) > 2 * Cardinality(Objects)
ASSUME OutcomesAssumption == Outcomes \subseteq BOOLEAN /\ Customised \subseteq Objects

VARIABLES
  pc,        \* the set-up of this integration's entry
  data,      \* its data: MIGRATION_DONE, MIGRATION_RECORDS and whether a legacy entry is named
  fresh,     \* the records this set-up has freed and will attach
  legacy,    \* the legacy entry: gone, enabled or disabled; and whether it runs
  reg,       \* entity registry: id -> entity
  snapshots, \* backups in .storage
  unsaved,   \* a backup could not be written
  files,     \* the legacy integration's files: installed, and known to the loader
  known,     \* coordinator._legacy_code_installed
  issues,    \* open repair issues
  task,      \* the rollback's task
  held,      \* the records the rollback works from
  disk       \* the registry as it is written

setup == <<pc, data, fresh>>
repair == <<issues, task, held>>
vars == <<pc, data, fresh, legacy, reg, snapshots, unsaved, files, known, issues, task, held, disk>>

Free == [by |-> "nobody"]
NoData == [done |-> FALSE, records |-> {}, bridge |-> FALSE]
Entity(by, o, custom) == [by |-> by, obj |-> o, custom |-> custom]
Entities == [by: {"legacy", "ce"}, obj: Objects, custom: BOOLEAN]
Records == [obj: Objects, id: Ids, custom: BOOLEAN, matched: BOOLEAN]

IdOf(r, by, o) == {i \in Ids : r[i].by = by /\ r[i].obj = o}
Registered(r, by, o) == IdOf(r, by, o) # {}
Without(r, ids) == [i \in Ids |-> IF i \in ids THEN Free ELSE r[i]]
HeldBy(r, by) == {i \in Ids : r[i].by = by}

\* Entities of S registered by one integration on free ids; which, Home Assistant chooses.
Registrations(r, by, S) ==
  LET missing == {o \in S : ~Registered(r, by, o)}
      free == {i \in Names : r[i] = Free}
  IN  {[i \in Ids |-> IF \E o \in missing : f[o] = i
                      THEN Entity(by, CHOOSE o \in missing : f[o] = i, FALSE) ELSE r[i]]
        : f \in Injection(missing, free)}

Init ==
  /\ pc = "none" /\ data = NoData /\ fresh = {}
  /\ legacy = [state |-> "enabled", up |-> TRUE]
  /\ LET f == CHOOSE f \in Injection(Objects, Names) : TRUE
     IN  reg = [i \in Ids |-> IF i \in Range(f)
                              THEN LET o == CHOOSE o \in Objects : f[o] = i
                                   IN  Entity("legacy", o, o \in Customised)
                              ELSE Free]
  /\ snapshots = {} /\ unsaved = FALSE
  /\ files = [there |-> TRUE, resolves |-> TRUE]
  /\ known = "unchecked" /\ issues = {} /\ task = "none" /\ held = {}
  /\ disk = reg
-----------------------------------------------------------------------------
(* _remap_and_restore: every entity that is not on its target is parked on *)
(* a temporary id, then each is moved to its target if that is free.       *)

\* Mutant: the old id keeps the entity.
RenameKeeping(r, from, to) == [r EXCEPT ![to] = r[from]]

Rename(r, from, to) == [r EXCEPT ![to] = r[from], ![from] = Free]

\* Mutant: entities are renamed one by one, without temporary ids.
ParkNone(r, by, rec) == r

Park(r, by, rec) ==
  LET current == CHOOSE i \in IdOf(r, by, rec.obj) : TRUE
      temp == Min({t \in Temps : r[t] = Free})
  IN  IF current = rec.id THEN r ELSE Rename(r, current, temp)

Restore(r, i, rec) == [r EXCEPT ![i].custom = @ \/ rec.custom]

Place(r, by, rec) ==
  LET current == CHOOSE i \in IdOf(r, by, rec.obj) : TRUE
      final == IF r[rec.id] = Free THEN rec.id ELSE current
  IN  Restore(IF final = current THEN r ELSE Rename(r, current, final), final, rec)

\* Mutant: the legacy entity is looked up by the translated unique id too.
PairedTranslated(r, by, records) ==
  {rec \in records : Registered(r, by, rec.obj) /\ rec.matched}

\* The records whose entity is found in the registry: the new one by the
\* translated unique id, the legacy one by its own.
Paired(r, by, records) ==
  {rec \in records : Registered(r, by, rec.obj) /\ (by = "ce" => rec.matched)}

\* The registry after the first n of the pairs.
Parking(r, by, pairs) ==
  LET parked[n \in 0..Len(pairs)] == IF n = 0 THEN r ELSE Park(parked[n - 1], by, pairs[n])
  IN  parked

Placing(r, by, pairs) ==
  LET placed[n \in 0..Len(pairs)] == IF n = 0 THEN r ELSE Place(placed[n - 1], by, pairs[n])
  IN  placed

RemapAndRestore(r, by, records) ==
  LET pairs == SetToSeq(Paired(r, by, records))
  IN  Placing(Parking(r, by, pairs)[Len(pairs)], by, pairs)[Len(pairs)]
-----------------------------------------------------------------------------
(* async_setup_entry                                                       *)

\* The model adds one entry: what it leaves behind is keyed by its id, and a
\* later entry has nothing to do with it.
AddEntry ==
  /\ pc = "none"
  /\ pc' = "start" /\ data' = NoData /\ fresh' = {} /\ known' = "unchecked"
  /\ UNCHANGED <<legacy, reg, snapshots, unsaved, files, repair, disk>>

Reload ==
  /\ pc \in {"loaded", "failed"}
  /\ pc' = "start" /\ fresh' = {} /\ known' = "unchecked"
  /\ UNCHANGED <<data, legacy, reg, snapshots, unsaved, files, repair, disk>>

\* Already migrated, or nothing to migrate from (which is remembered too).
NothingToAdopt ==
  /\ pc = "start" /\ (data.done \/ legacy.state = "gone")
  /\ data' = IF data.done THEN data ELSE [NoData EXCEPT !.done = TRUE]
  /\ pc' = "forward"
  /\ UNCHANGED <<fresh, legacy, reg, snapshots, unsaved, files, known, repair, disk>>

\* Mutant: the entry is unloaded only.
UnloadLegacy ==
  /\ pc = "start" /\ ~data.done /\ legacy.state = "enabled"
  /\ pc' = "disabling"
  /\ UNCHANGED <<data, fresh, legacy, reg, snapshots, unsaved, files, known, repair, disk>>

\* async_set_disabled_by marks the entry and awaits its unload.
DisableLegacy ==
  /\ pc = "start" /\ ~data.done /\ legacy.state = "enabled"
  /\ legacy' = [legacy EXCEPT !.state = "disabled"] /\ pc' = "disabling"
  /\ UNCHANGED <<data, fresh, reg, snapshots, unsaved, files, known, repair, disk>>

AbortAdoption ==
  /\ pc = "disabling" /\ legacy.up
  /\ pc' = "forward"
  /\ UNCHANGED <<data, fresh, legacy, reg, snapshots, unsaved, files, known, repair, disk>>

\* A legacy id without the entry's name as prefix cannot be translated.
Collected(r, matched) ==
  {[obj |-> r[i].obj, id |-> i, custom |-> r[i].custom, matched |-> r[i].obj \in matched]
     : i \in HeldBy(r, "legacy")}

Collect ==
  /\ \/ pc = "start" /\ ~data.done /\ legacy.state = "disabled" /\ UNCHANGED legacy
     \/ pc = "disabling" /\ legacy' = [legacy EXCEPT !.up = FALSE]
  /\ \E matched \in SUBSET Objects : fresh' = Collected(reg, matched)
  /\ pc' = "backup"
  /\ UNCHANGED <<data, reg, snapshots, unsaved, files, known, repair, disk>>

WriteBackup ==
  /\ pc = "backup"
  /\ \/ snapshots' = snapshots \cup {fresh} /\ UNCHANGED unsaved
     \/ unsaved' = TRUE /\ UNCHANGED snapshots
  /\ pc' = "freeing"
  /\ UNCHANGED <<data, fresh, legacy, reg, files, known, repair, disk>>

\* Only the newest snapshot is kept.
Pruned == IF fresh \in snapshots THEN {fresh} ELSE snapshots

FreeAndPersist ==
  /\ pc = "freeing"
  /\ snapshots' = Pruned
  /\ IF \A rec \in fresh : reg[rec.id] # Free
     THEN /\ reg' = Without(reg, {rec.id : rec \in fresh})
          /\ data' = [done |-> TRUE, records |-> fresh, bridge |-> TRUE]
          /\ pc' = "forward"
     ELSE pc' = "failed" /\ UNCHANGED <<reg, data>>
  /\ UNCHANGED <<fresh, legacy, unsaved, files, known, repair, disk>>

ForwardPlatforms ==
  /\ pc = "forward"
  /\ \E S \in SUBSET Objects : reg' \in Registrations(reg, "ce", S)
  /\ pc' = "finalizing"
  /\ UNCHANGED <<data, fresh, legacy, snapshots, unsaved, files, known, repair, disk>>

ForwardFails ==
  /\ pc = "forward" /\ pc' = "failed"
  /\ UNCHANGED <<data, fresh, legacy, reg, snapshots, unsaved, files, known, repair, disk>>

Finalize ==
  /\ pc = "finalizing"
  /\ reg' = RemapAndRestore(reg, "ce", fresh)
  /\ pc' = "loaded"
  /\ UNCHANGED <<data, fresh, legacy, snapshots, unsaved, files, known, repair, disk>>

\* An object that was missing at the set-up is found by a later poll.
Discover ==
  /\ pc = "loaded"
  /\ \E o \in Objects :
       ~Registered(reg, "ce", o) /\ reg' \in Registrations(reg, "ce", {o})
  /\ UNCHANGED <<setup, legacy, snapshots, unsaved, files, known, repair, disk>>
-----------------------------------------------------------------------------
(* The poll's issues and the repair flows                                  *)

Installed == files.there /\ files.resolves
Bridge == data.bridge /\ legacy.state # "gone"
Possible(code) == Bridge /\ code # "missing"

Poll ==
  /\ pc = "loaded"
  /\ known' = IF Bridge /\ known # "missing"
              THEN IF Installed THEN "installed" ELSE "missing" ELSE known
  /\ LET orphaned == Bridge /\ known' # "installed" /\ ~files.resolves
         offer == "offer" \in issues /\ Possible(known')
     IN  issues' = (issues \ {"orphaned", "offer"}) \cup (IF orphaned THEN {"orphaned"} ELSE {})
                                                    \cup (IF offer THEN {"offer"} ELSE {})
  /\ UNCHANGED <<setup, legacy, reg, snapshots, unsaved, files, task, held, disk>>

PressRollback ==
  /\ pc = "loaded" /\ Possible(known)
  /\ issues' = issues \cup {"offer"}
  /\ UNCHANGED <<setup, legacy, reg, snapshots, unsaved, files, known, task, held, disk>>

IgnoreOffer ==
  /\ "offer" \in issues /\ issues' = issues \ {"offer"}
  /\ UNCHANGED <<setup, legacy, reg, snapshots, unsaved, files, known, task, held, disk>>

\* The rollback runs in a task of its own (one at a time in the model).
ConfirmRollback ==
  /\ "offer" \in issues /\ task = "none"
  /\ issues' = issues \ {"offer"}
  /\ task' = IF Installed /\ pc # "removed" THEN "check" ELSE task
  /\ UNCHANGED <<setup, legacy, reg, snapshots, unsaved, files, known, held, disk>>

LegacyRemoved == legacy' = [state |-> "gone", up |-> FALSE] /\ reg' = Without(reg, HeldBy(reg, "legacy"))

ConfirmOrphaned ==
  /\ "orphaned" \in issues /\ issues' = issues \ {"orphaned"}
  /\ LegacyRemoved
  /\ UNCHANGED <<setup, snapshots, unsaved, files, known, task, held, disk>>
-----------------------------------------------------------------------------
(* async_rollback_to_legacy                                                *)

RollbackRefused == issues' = issues \cup {"failed"} /\ task' = "none"

RollbackCheck ==
  /\ task = "check"
  /\ IF Bridge /\ Installed
     THEN task' = "remove" /\ held' = data.records /\ UNCHANGED issues
     ELSE RollbackRefused /\ UNCHANGED held
  /\ UNCHANGED <<setup, legacy, reg, snapshots, unsaved, files, known, disk>>

\* Mutant: the backups go with the entry.
RemoveEntryAndBackups ==
  /\ task = "remove" /\ pc \in {"loaded", "failed"}
  /\ pc' = "removed" /\ data' = NoData /\ fresh' = {} /\ snapshots' = {}
  /\ reg' = Without(reg, HeldBy(reg, "ce"))
  /\ task' = "enable"
  /\ UNCHANGED <<legacy, unsaved, files, known, issues, held, disk>>

\* async_remove waits for a set-up under way.
RemoveEntry ==
  /\ task = "remove" /\ pc \in {"loaded", "failed"}
  /\ pc' = "removed" /\ data' = NoData /\ fresh' = {}
  /\ reg' = Without(reg, HeldBy(reg, "ce"))
  /\ task' = "enable"
  /\ UNCHANGED <<legacy, snapshots, unsaved, files, known, issues, held, disk>>

\* What async_set_disabled_by returns is not looked at.
EnableLegacy ==
  /\ task = "enable"
  /\ IF legacy.state = "gone"
     THEN RollbackRefused /\ UNCHANGED <<legacy, reg>>
     ELSE /\ \E up \in Outcomes, r \in Registrations(reg, "legacy", Objects) :
               /\ legacy' = [state |-> "enabled", up |-> up \/ legacy.up]
               /\ reg' = RemapAndRestore(IF up THEN r ELSE reg, "legacy", held)
          /\ task' = "prune" /\ UNCHANGED issues
  /\ UNCHANGED <<setup, snapshots, unsaved, files, known, held, disk>>

RemoveBackups ==
  /\ task = "prune"
  /\ snapshots' = {} /\ task' = "none" /\ held' = {}
  /\ UNCHANGED <<setup, legacy, reg, unsaved, files, known, issues, disk>>
-----------------------------------------------------------------------------
(* Home Assistant, the user and HACS                                       *)

\* The legacy integration finds objects it has no entity for.
LegacyDiscovers ==
  /\ legacy.state = "enabled" \/ legacy.up
  /\ files.there /\ \E o \in Objects : ~Registered(reg, "legacy", o)
  /\ reg' \in Registrations(reg, "legacy", Objects)
  /\ legacy' = [legacy EXCEPT !.up = TRUE]
  /\ UNCHANGED <<setup, snapshots, unsaved, files, known, repair, disk>>

DeleteLegacy ==
  /\ legacy.state # "gone" /\ LegacyRemoved
  /\ UNCHANGED <<setup, snapshots, unsaved, files, known, repair, disk>>

\* Not during the rollback, which has just looked.
Uninstall ==
  /\ files.there /\ task = "none" /\ files' = [files EXCEPT !.there = FALSE]
  /\ UNCHANGED <<setup, legacy, reg, snapshots, unsaved, known, repair, disk>>

WriteRegistry ==
  /\ disk # reg /\ disk' = reg
  /\ UNCHANGED <<setup, legacy, reg, snapshots, unsaved, files, known, repair>>

Crash ==
  /\ pc' = IF pc \in {"none", "removed"} THEN pc ELSE "start"
  /\ fresh' = {} /\ reg' = disk
  /\ legacy' = [legacy EXCEPT !.up = FALSE]
  /\ files' = [files EXCEPT !.resolves = files.there]
  /\ known' = "unchecked" /\ issues' = {} /\ task' = "none" /\ held' = {}
  /\ UNCHANGED <<data, snapshots, unsaved, disk>>

Next ==
  \/ AddEntry \/ Reload \/ NothingToAdopt \/ DisableLegacy \/ AbortAdoption \/ Collect
  \/ WriteBackup \/ FreeAndPersist \/ ForwardPlatforms \/ ForwardFails \/ Finalize \/ Discover
  \/ Poll \/ PressRollback \/ IgnoreOffer \/ ConfirmRollback \/ ConfirmOrphaned
  \/ RollbackCheck \/ RemoveEntry \/ EnableLegacy \/ RemoveBackups
  \/ LegacyDiscovers \/ DeleteLegacy \/ Uninstall \/ WriteRegistry \/ Crash

Spec == Init /\ [][Next]_vars
-----------------------------------------------------------------------------
\* Every variable keeps its type, and the registry has one id for an entity.
TypeOK ==
  /\ pc \in {"none", "start", "disabling", "backup", "freeing", "forward", "finalizing", "loaded", "failed", "removed"}
  /\ data \in [done: BOOLEAN, records: SUBSET Records, bridge: BOOLEAN]
  /\ fresh \subseteq Records /\ held \subseteq Records
  /\ legacy \in [state: {"gone", "enabled", "disabled"}, up: BOOLEAN]
  /\ \A i \in Ids : reg[i] \in Entities \cup {Free}
  /\ \A i, j \in Ids : reg[i] # Free /\ reg[i].by = reg[j].by /\ reg[i].obj = reg[j].obj => i = j
  /\ \A s \in snapshots : s \subseteq Records
  /\ unsaved \in BOOLEAN /\ files \in [there: BOOLEAN, resolves: BOOLEAN]
  /\ known \in {"unchecked", "installed", "missing"}
  /\ issues \subseteq {"offer", "failed", "orphaned"}
  /\ task \in {"none", "check", "remove", "enable", "prune"}

\* When an adoption ends, every adopted entity that exists is on the id its
\* history is recorded under and has its customisation, whatever ids it was
\* created with, unless an entity that was not adopted holds the id.
Reclaimed ==
  [][pc = "finalizing" /\ pc' = "loaded" =>
       \A rec \in fresh : rec.matched /\ Registered(reg, "ce", rec.obj) =>
         \/ reg'[rec.id] = Entity("ce", rec.obj, rec.custom)
         \/ ~\E q \in Paired(reg, "ce", fresh) :
               reg'[rec.id] = Free \/ reg'[rec.id] \in [by: {"ce"}, obj: {q.obj}, custom: BOOLEAN]]_vars

\* An id that was taken from the legacy integration is known to somebody: to
\* the registry, to this entry's records or to a snapshot, for as long as that
\* integration is disabled, also after a crash in the middle of the adoption or
\* of the rollback.
HistoryKept ==
  legacy.state = "disabled" /\ ~unsaved =>
    \A o \in Objects :
      \/ Registered(reg, "legacy", o)
      \/ \E S \in snapshots \cup {data.records} : \E rec \in S : rec.obj = o

\* A rollback that reports success has given every id back to the legacy
\* entity it was taken from, with its customisation, unless something else
\* holds the id.  It holds if the legacy entry comes up when it is re-enabled.
RollbackRestores ==
  [][task = "prune" /\ task' = "none" /\ ~Crash /\ legacy.state # "gone" =>
       \A rec \in held :
         \/ reg[rec.id] = Entity("legacy", rec.obj, rec.custom)
         \/ reg[rec.id] # Free /\ reg[rec.id].obj \notin {q.obj : q \in held}]_vars

\* The legacy entry is not enabled beside an entry that has adopted its entities.
NeverBothEnabled == data.done /\ data.bridge => legacy.state # "enabled"
=============================================================================
