---------------------------- MODULE EntityLifecycle ----------------------------
(***************************************************************************)
(* The entities of one config entry from discovery to removal: discovery   *)
(* at set-up and after each refresh (entity.py), the batches that add app  *)
(* statistics sensors (sensor.py), the cleanup of orphaned registry        *)
(* entries (entity.py, __init__.py), and unloading and setting up the      *)
(* entry while batches are being added.                                    *)
(*                                                                         *)
(* Each set-up makes a coordinator and platforms of its own, numbered by   *)
(* gen.  holder says which generation's entity has the entity id: one left *)
(* behind keeps every later one out until Home Assistant restarts.         *)
(***************************************************************************)
EXTENDS AppStats, Naturals, SequencesExt

CONSTANTS
  Pools,     \* objects discovered under the lock, standing for all but app statistics
  MaxGen,    \* bound on set-ups
  MaxFaults, \* bound on failed or empty answers
  MaxTasks   \* bound on the discovery passes and batches under way at once

ASSUME BoundsAssumption == MaxGen \in Nat \ {0} /\ MaxFaults \in Nat /\ MaxTasks \in Nat

VARIABLES
  entry,     \* the config entry's state
  gen,       \* the last coordinator made
  runtime,   \* the coordinator in runtime_data, or 0
  ok,        \* its last_update_success
  pools,     \* the pools on the NAS
  pool,      \* ds["pool"]
  holder,    \* entity -> the generation it belongs to, or 0
  registry,  \* entity registry entries
  tasks,     \* the discovery passes and batches under way, oldest first
  answered,  \* the last real answers about pools and apps (history)
  witnessed, \* apps whose interfaces this coordinator has seen since the last empty answer (history)
  faults     \* faults so far (bound)

truenas == <<pools, apps>>
entities == <<holder, registry>>
history == <<answered, witnessed>>
vars == <<entry, gen, runtime, ok, pools, apps, pool, statsVars, monitored, entities, tasks,
          history, faults>>

Faults == {"pool_fails", "pool_empty", "app_fails", "app_empty", "stats_fails", "late_sample", "lost"}

Pool(p) == [kind |-> "pool", of |-> p]
App(a) == [kind |-> "app", of |-> a]
Net(a) == [kind |-> "net", of |-> a]
Objects == {Pool(p) : p \in Pools} \cup {App(a) : a \in Apps} \cup {Net(a) : a \in Apps}

Waiting(g) == [gen |-> g, at |-> "waiting", locked |-> TRUE, todo |-> {}, mine |-> {}]
Adding(g, S) == [gen |-> g, at |-> "adding", locked |-> FALSE, todo |-> S, mine |-> {}]

Tasks == [gen: 1..MaxGen, at: {"waiting", "adding"}, locked: BOOLEAN,
          todo: SUBSET Objects, mine: SUBSET Objects]

Init ==
  /\ entry = "not_loaded" /\ gen = 0 /\ runtime = 0 /\ ok = FALSE
  /\ pools = Pools /\ apps \in [Apps -> {"stopped", "running"}]
  /\ pool = {} /\ app = {} /\ sub = FALSE /\ stats = NoStats
  /\ monitored = TRUE
  /\ holder = [o \in Objects |-> 0] /\ registry = {}
  /\ tasks = <<>>
  /\ answered = [pool |-> {}, app |-> {}] /\ witnessed = {}
  /\ faults = 0

Serves(g) == entry \in {"setup", "loaded"} /\ runtime = g
Loaded(g) == {o \in Objects : holder[o] = g}

\* What discovery makes entities for.
WantedPools == {Pool(p) : p \in pool}
WantedStats == {App(a) : a \in KnownAppNames} \cup {Net(a) : a \in WithInterfaces}
-----------------------------------------------------------------------------
(* _cleanup_orphaned_entities                                              *)

Active ==
  WantedPools \cup WantedStats \cup {App(a) : a \in {b \in Apps : stats[b] # "none"}}

LiveKinds ==
  {k \in {"pool", "app", "net"} :
     \/ k = "pool" /\ pool # {}
     \/ k = "app" /\ (KnownAppNames # {} \/ stats # NoStats)
     \/ k = "net" /\ stats # NoStats}

IsOrphan(o) == ok /\ o \notin Active /\ o.kind \in LiveKinds
-----------------------------------------------------------------------------
(* Refreshing                                                              *)

GetPool(fault) ==
  pool' = CASE fault = "pool_fails" -> pool
            [] fault = "pool_empty" -> {}
            [] OTHER -> pools

Remember(fault) ==
  /\ answered' = [pool |-> IF fault \in {"pool_fails", "pool_empty"} THEN answered.pool ELSE pools,
                  app |-> IF fault \in {"app_fails", "app_empty"} THEN answered.app ELSE app']
  /\ faults' = IF fault = "none" THEN faults ELSE faults + 1

Fetch(fault) ==
  /\ GetPool(fault) /\ GetApp(fault) /\ GetAppStats(fault)
  /\ ok' = TRUE
  /\ Remember(fault)
  /\ witnessed' = (witnessed \cap app') \cup {a \in Apps : stats'[a] = "live"}

\* Cleanup, then a pass that waits for the lock and a batch of app statistics sensors.
Discover(g) ==
  LET orphans == {o \in registry : IsOrphan(o)'}
      batch == WantedStats' \ Loaded(g)
      new == <<Waiting(g)>> \o IF batch = {} THEN <<>> ELSE <<Adding(g, batch)>>
  IN /\ Len(tasks \o new) <= MaxTasks
     /\ registry' = registry \ orphans
     /\ holder' = [o \in Objects |-> IF o \in orphans THEN 0 ELSE holder[o]]
     /\ tasks' = tasks \o new

\* The listeners of a failed refresh are only called after one that succeeded.
Poll(fault) ==
  /\ entry \in {"loaded", "unloading"}
  /\ fault = "none" \/ faults < MaxFaults
  /\ IF fault = "lost"
     THEN /\ ok' = FALSE /\ faults' = faults + 1
          /\ StopAppStats
          /\ UNCHANGED <<pool, monitored, history>>
     ELSE monitored' = monitored /\ Fetch(fault)
  /\ IF Serves(runtime) /\ (ok \/ ok') THEN Discover(runtime) ELSE UNCHANGED <<entities, tasks>>
  /\ UNCHANGED <<entry, gen, runtime, truenas>>
-----------------------------------------------------------------------------
(* Adding entities                                                         *)

\* Mutant: passes do not wait for each other.
Unlocked(i) == TRUE

\* asyncio.Lock serves its waiters in order.
LockFree(i) ==
  \A j \in DOMAIN tasks : tasks[j].locked /\ tasks[j].gen = tasks[i].gen =>
    j >= i /\ tasks[j].at = "waiting"

\* A pass gets the lock and collects what is not loaded yet.
Take(i) ==
  LET batch == WantedPools \ Loaded(tasks[i].gen)
  IN /\ tasks[i].at = "waiting"
     /\ LockFree(i)
     /\ tasks' = IF Serves(tasks[i].gen) /\ batch # {}
                 THEN [tasks EXCEPT ![i].at = "adding", ![i].todo = batch]
                 ELSE RemoveAt(tasks, i)
     /\ UNCHANGED entities

\* Home Assistant adds one entity of the batch, or ignores it if its id is held.
Add(i) ==
  \E o \in tasks[i].todo :
    IF holder[o] = 0
    THEN /\ holder' = [holder EXCEPT ![o] = tasks[i].gen]
         /\ registry' = registry \cup {o}
         /\ tasks' = [tasks EXCEPT ![i].todo = @ \ {o}, ![i].mine = @ \cup {o}]
    ELSE tasks' = [tasks EXCEPT ![i].todo = @ \ {o}] /\ UNCHANGED entities

\* Mutant: what was added during the unload stays.
KeepAdded(t) == {}

\* What remove_entities_added_during_unload removes of a batch.
AddedDuringUnload(t) ==
  IF Serves(t.gen) THEN {} ELSE {o \in t.mine : holder[o] = t.gen}

\* An add may be cancelled half-way while its entry is unloaded.
Cancellable(t) == entry = "unloading" /\ t.gen = runtime

\* The add returns or is cancelled; either way the finally clause runs.
Finish(i) ==
  /\ tasks[i].at = "adding"
  /\ tasks[i].todo = {} \/ Cancellable(tasks[i])
  /\ holder' = [o \in Objects |-> IF o \in AddedDuringUnload(tasks[i]) THEN 0 ELSE holder[o]]
  /\ tasks' = RemoveAt(tasks, i)
  /\ UNCHANGED registry

Step(i) ==
  /\ i \in DOMAIN tasks
  /\ Take(i) \/ Add(i) \/ Finish(i)
  /\ UNCHANGED <<entry, gen, runtime, ok, truenas, pool, statsVars, monitored, history, faults>>
-----------------------------------------------------------------------------
(* The config entry                                                        *)

\* async_setup_entry, whose first refresh succeeds, up to the platforms.
SetUp ==
  /\ entry = "not_loaded" /\ gen < MaxGen
  /\ entry' = "setup" /\ gen' = gen + 1 /\ runtime' = gen + 1
  /\ monitored' \in BOOLEAN
  /\ \E fault \in (Faults \ {"lost", "late_sample"}) \cup {"none"} :
       /\ fault = "none" \/ faults < MaxFaults
       /\ pool' = IF fault \in {"pool_fails", "pool_empty"} THEN {} ELSE pools
       /\ app' = IF fault \in {"app_fails", "app_empty"} THEN {}
                 ELSE {a \in Apps : apps[a] # "absent"}
       /\ sub' = (monitored' /\ app' # {} /\ fault # "stats_fails")
       /\ stats' = NoStats /\ ok' = TRUE
       /\ Remember(fault) /\ witnessed' = {}
  /\ Discover(gen + 1)
  /\ UNCHANGED truenas

\* The platforms have added their first batches.
SetUpDone ==
  /\ entry = "setup" /\ \A i \in DOMAIN tasks : tasks[i].gen # runtime
  /\ entry' = "loaded"
  /\ UNCHANGED <<gen, runtime, ok, truenas, pool, statsVars, monitored, entities, tasks,
                 history, faults>>

\* The platforms are reset: the entities they have by now are removed.
Unload ==
  /\ entry = "loaded"
  /\ entry' = "unloading"
  /\ holder' = [o \in Objects |-> IF holder[o] = runtime THEN 0 ELSE holder[o]]
  /\ UNCHANGED <<gen, runtime, ok, truenas, pool, statsVars, monitored, registry, tasks,
                 history, faults>>

\* Mutant: the unload leaves the coordinator in runtime_data.
KeptRuntimeData == runtime

ClearedRuntimeData == 0

\* async_unload_entry returns.  Home Assistant has waited some seconds for the
\* entry's tasks; what is still under way goes on and finds out by itself.
Unloaded ==
  /\ entry = "unloading"
  /\ entry' = "not_loaded" /\ runtime' = ClearedRuntimeData
  /\ StopAppStats
  /\ UNCHANGED <<gen, ok, truenas, pool, monitored, entities, tasks, history, faults>>

\* Pools and apps come, go, start and stop on the NAS.
Change ==
  /\ \/ /\ pools' \in SUBSET Pools /\ UNCHANGED apps
     \/ /\ \E a \in Apps, s \in AppStates : apps' = [apps EXCEPT ![a] = s]
        /\ UNCHANGED pools
  /\ UNCHANGED <<entry, gen, runtime, ok, pool, statsVars, monitored, entities, tasks,
                 history, faults>>

Batch == \E i \in 1..MaxTasks : Step(i)

Next ==
  \/ SetUp \/ SetUpDone \/ Unload \/ Unloaded
  \/ \E fault \in Faults \cup {"none"} : Poll(fault)
  \/ Batch
  \/ Change

Spec == Init /\ [][Next]_vars

\* Home Assistant runs its tasks, finishes what it began and polls; after
\* MaxFaults faults the polls find none.
Fairness ==
  /\ WF_vars(Poll("none"))
  /\ WF_vars(SetUpDone) /\ WF_vars(Unloaded)
  /\ \A i \in 1..MaxTasks : WF_vars(Step(i))

FairSpec == Spec /\ Fairness
-----------------------------------------------------------------------------
(* Properties                                                              *)

\* The variables have their types; there is a coordinator unless the entry is not loaded.
TypeOK ==
  /\ entry \in {"not_loaded", "setup", "loaded", "unloading"}
  /\ gen \in 0..MaxGen /\ runtime \in {0, gen} /\ ok \in BOOLEAN
  /\ entry = "not_loaded" <=> runtime = 0
  /\ pools \subseteq Pools /\ pool \subseteq Pools
  /\ apps \in [Apps -> {"absent", "stopped", "running"}] /\ app \subseteq Apps
  /\ sub \in BOOLEAN /\ monitored \in BOOLEAN
  /\ stats \in [Apps -> {"none", "bare", "live", "stale"}]
  /\ holder \in [Objects -> 0..gen] /\ registry \subseteq Objects
  /\ ToSet(tasks) \subseteq Tasks /\ Len(tasks) <= MaxTasks
  /\ faults \in 0..MaxFaults

\* An entity of an entry that no longer serves belongs to a batch still under
\* way, which will remove it: none is left behind on a discarded platform to
\* keep its id from the next one (remove_entities_added_during_unload).
NoneLeftBehind ==
  \A o \in Objects : holder[o] # 0 =>
    \/ Serves(holder[o])
    \/ \E t \in ToSet(tasks) : t.gen = holder[o] /\ o \in t.mine

\* However refreshes overlap, a discovery pass that holds the lock gives its
\* platform no entity that the platform has, nor one that another pass or a
\* batch of the same coordinator is adding: what Home Assistant would complain
\* of as an id that is not unique (the add lock of async_add_entities).  It says
\* nothing of two batches of app statistics, which take no lock: a refresh
\* during an add makes the same batch again, and the second one's are ignored.
AddedOnce ==
  \A i \in DOMAIN tasks : tasks[i].locked =>
    /\ tasks[i].todo \cap Loaded(tasks[i].gen) = {}
    /\ \A j \in DOMAIN tasks \ {i} : tasks[j].gen = tasks[i].gen =>
         tasks[j].todo \cap tasks[i].todo = {}

\* A registry entry, and with it the user's customisation, is only deleted when
\* the last real answer was that its object is gone: no failed or momentarily
\* empty answer deletes one.  A network
\* sensor is kept as long as its app is there, once this coordinator has seen
\* the app's interfaces (_cleanup_orphaned_entities, _stale_app_networks).
Kept ==
  [][\A o \in registry \ registry' :
       CASE o.kind = "pool" -> o.of \notin answered'.pool
         [] o.kind = "app" -> o.of \notin answered'.app
         [] o.kind = "net" -> o.of \notin witnessed' \/ o.of \notin answered'.app]_vars

Present(o) ==
  CASE o.kind = "pool" -> o.of \in pools
    [] o.kind = "app" -> apps[o.of] # "absent" /\ monitored
    [] o.kind = "net" -> apps[o.of] = "running" /\ monitored

\* What stays on the NAS while the entry stays loaded has, sooner or later and
\* for good, an entity of the current coordinator, whatever was left of the
\* generations before (async_add_entities).
Served ==
  \A o \in Objects :
    <>[](entry = "loaded" /\ Present(o)) => <>[](holder[o] = runtime /\ o \in registry)
=============================================================================
