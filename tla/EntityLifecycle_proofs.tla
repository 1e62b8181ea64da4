------------------------- MODULE EntityLifecycle_proofs -------------------------
(***************************************************************************)
(* Theorems about EntityLifecycle, for any pools, apps, set-ups, faults    *)
(* and number of discovery passes and batches under way.                   *)
(***************************************************************************)
EXTENDS EntityLifecycle, FiniteSetTheorems, SequenceTheorems, TLAPS

\* The tasks under way are a sequence, each of a coordinator that has been made.
TypeInv ==
  /\ TypeOK
  /\ tasks \in Seq(Tasks)
  /\ \A i \in DOMAIN tasks : tasks[i].gen <= gen
-----------------------------------------------------------------------------
(* The tasks that remain when some are taken out.                          *)

\* f says which of the first n tasks of s each task of r is.
Picks(f, r, s, n) ==
  /\ f \in [1..Len(r) -> 1..n]
  /\ \A k \in 1..Len(r) : r[k] = s[f[k]]
  /\ \A k, l \in 1..Len(r) : f[k] = f[l] => k = l

\* r is made of some of the tasks of s, each taken once.
Some(r, s) ==
  /\ r \in Seq(Tasks) /\ Len(r) <= Len(s)
  /\ \E f : Picks(f, r, s, Len(s))

LEMMA RemoveLeaves ==
  ASSUME NEW s \in Seq(Tasks), NEW i \in DOMAIN s
  PROVE  /\ Some(RemoveAt(s, i), s)
         /\ \A j \in DOMAIN s \ {i} : s[j] \in ToSet(RemoveAt(s, i))
<1> DEFINE r == RemoveAt(s, i)
           f == [k \in 1..Len(r) |-> IF k < i THEN k ELSE k + 1]
<1>1. /\ r \in Seq(Tasks) /\ Len(r) = Len(s) - 1
      /\ \A k \in 1..Len(r) : r[k] = IF k < i THEN s[k] ELSE s[k + 1]
  <2> DEFINE a == SubSeq(s, 1, i - 1)
             b == SubSeq(s, i + 1, Len(s))
  <2>1. a \in Seq(Tasks) /\ Len(a) = i - 1 /\ \A k \in 1..(i - 1) : a[k] = s[k]
    OBVIOUS
  <2>2. b \in Seq(Tasks) /\ Len(b) = Len(s) - i /\ \A k \in 1..(Len(s) - i) : b[k] = s[k + i]
    OBVIOUS
  <2>3. r = a \o b
    BY DEF RemoveAt
  <2> HIDE DEF a, b, r
  <2>4. r \in Seq(Tasks) /\ Len(r) = Len(s) - 1
    BY <2>1, <2>2, <2>3
  <2>5. ASSUME NEW k \in 1..Len(r) PROVE r[k] = IF k < i THEN s[k] ELSE s[k + 1]
    <3>1. CASE k < i
      BY <2>1, <2>2, <2>3, <2>4, <3>1
    <3>2. CASE k >= i
      <4>1. r[k] = b[k - (i - 1)]
        <5>1. Len(a) = i - 1 /\ k \in 1..(Len(a) + Len(b))
          BY <2>1, <2>2, <2>4
        <5>2. (a \o b)[k] = IF k <= Len(a) THEN a[k] ELSE b[k - Len(a)]
          BY <2>1, <2>2, <5>1, ConcatProperties
        <5> QED BY <2>1, <2>3, <3>2, <5>1, <5>2
      <4>2. k - (i - 1) \in 1..(Len(s) - i)
        BY <2>4, <3>2
      <4>3. b[k - (i - 1)] = s[k - (i - 1) + i] /\ k - (i - 1) + i = k + 1
        BY <2>2, <4>2
      <4> QED BY <3>2, <4>1, <4>3
    <3> QED BY <3>1, <3>2
  <2> QED BY <2>4, <2>5
<1> HIDE DEF r
<1>2. Some(r, s)
  <2>1. f \in [1..Len(r) -> 1..Len(s)] /\ \A k \in 1..Len(r) : r[k] = s[f[k]]
    BY <1>1
  <2>2. \A k, l \in 1..Len(r) : f[k] = f[l] => k = l
    BY <1>1
  <2> HIDE DEF f
  <2>3. Picks(f, r, s, Len(s))
    BY <2>1, <2>2 DEF Picks
  <2> QED BY <1>1, <2>3 DEF Some
<1>3. ASSUME NEW j \in DOMAIN s \ {i} PROVE s[j] \in ToSet(r)
  <2>1. CASE j < i
    BY <1>1, <2>1 DEF ToSet
  <2>2. CASE j > i
    <3>1. j - 1 \in DOMAIN r /\ r[j - 1] = s[j]
      BY <1>1, <2>2
    <3> QED BY <3>1 DEF ToSet
  <2> QED BY <2>1, <2>2
<1> QED BY <1>2, <1>3 DEF r

-----------------------------------------------------------------------------
(* Type correctness                                                        *)

LEMMA ObjectKinds ==
  /\ \A p \in Pools : Pool(p) \in Objects
  /\ \A a \in Apps : App(a) \in Objects /\ Net(a) \in Objects
  BY DEF Objects

LEMMA TaskFields ==
  ASSUME NEW t \in Tasks
  PROVE  /\ t.gen \in 1..MaxGen /\ t.at \in {"waiting", "adding"} /\ t.locked \in BOOLEAN
         /\ t.todo \subseteq Objects /\ t.mine \subseteq Objects
  BY DEF Tasks

\* What discovery leaves behind: cleaned up entries, and one or two more tasks.
LEMMA DiscoverIs ==
  ASSUME TypeInv, NEW g \in 1..MaxGen, Discover(g), app' \subseteq Apps,
         stats' \in [Apps -> {"none", "bare", "live", "stale"}]
  PROVE  /\ tasks' \in Seq(Tasks) /\ Len(tasks') <= MaxTasks /\ Len(tasks) <= Len(tasks')
         /\ \A k \in DOMAIN tasks : k \in DOMAIN tasks' /\ tasks'[k] = tasks[k]
         /\ \A k \in DOMAIN tasks' \ DOMAIN tasks :
               tasks'[k] \in {Waiting(g), Adding(g, WantedStats' \ Loaded(g))}
         /\ registry' \subseteq registry /\ \A o \in registry \ registry' : IsOrphan(o)'
         /\ holder' \in [Objects -> 0..gen] /\ \A o \in Objects : holder'[o] \in {holder[o], 0}
<1> DEFINE batch == WantedStats' \ Loaded(g)
           new == <<Waiting(g)>> \o IF batch = {} THEN <<>> ELSE <<Adding(g, batch)>>
<1>0. /\ tasks \in Seq(Tasks) /\ holder \in [Objects -> 0..gen] /\ gen \in Nat
      /\ tasks' = tasks \o new /\ Len(tasks \o new) <= MaxTasks
  BY DEF TypeInv, TypeOK, Discover
<1>1. batch \subseteq Objects
  BY ObjectKinds DEF WantedStats, KnownAppNames, WithInterfaces
<1>2. Waiting(g) \in Tasks /\ Adding(g, batch) \in Tasks
  BY <1>1 DEF Waiting, Adding, Tasks
<1> HIDE DEF batch
<1>3. new \in Seq(Tasks) /\ \A k \in DOMAIN new : new[k] \in {Waiting(g), Adding(g, batch)}
  <2>1. CASE batch = {}
    BY <1>2, <2>1
  <2>2. CASE batch # {}
    BY <1>2, <2>2
  <2> QED BY <2>1, <2>2
<1> HIDE DEF new
<1>4. /\ tasks \o new \in Seq(Tasks) /\ Len(tasks \o new) = Len(tasks) + Len(new)
      /\ \A k \in 1..(Len(tasks) + Len(new)) :
            (tasks \o new)[k] = IF k <= Len(tasks) THEN tasks[k] ELSE new[k - Len(tasks)]
  BY <1>0, <1>3, ConcatProperties
<1>5. tasks' \in Seq(Tasks) /\ Len(tasks') <= MaxTasks /\ Len(tasks) <= Len(tasks')
  BY <1>0, <1>3, <1>4
<1>6. \A k \in DOMAIN tasks : k \in DOMAIN tasks' /\ tasks'[k] = tasks[k]
  BY <1>0, <1>3, <1>4
<1>7. ASSUME NEW k \in DOMAIN tasks' \ DOMAIN tasks PROVE tasks'[k] \in {Waiting(g), Adding(g, batch)}
  <2>1. k - Len(tasks) \in DOMAIN new /\ tasks'[k] = new[k - Len(tasks)]
    BY <1>0, <1>3, <1>4
  <2> QED BY <1>3, <2>1
<1>8. registry' \subseteq registry /\ \A o \in registry \ registry' : IsOrphan(o)'
  BY DEF Discover
<1>9. holder' \in [Objects -> 0..gen] /\ \A o \in Objects : holder'[o] \in {holder[o], 0}
  BY <1>0 DEF Discover
<1> QED BY <1>5, <1>6, <1>7, <1>8, <1>9 DEF batch

LEMMA StatsType ==
  ASSUME TypeOK, NEW fault, GetApp(fault), GetAppStats(fault)
  PROVE  /\ app' \subseteq Apps /\ sub' \in BOOLEAN
         /\ stats' \in [Apps -> {"none", "bare", "live", "stale"}]
<1>1. app' \subseteq Apps
  BY DEF TypeOK, GetApp
<1>2. sub' \in BOOLEAN
  BY DEF TypeOK, GetAppStats, SubscriptionEnsured
<1>3. stats' \in [Apps -> {"none", "bare", "live", "stale"}]
  BY DEF TypeOK, GetAppStats, NoStats, Pruned, Processed, Upserted
<1> QED BY <1>1, <1>2, <1>3

LEMMA SomeOf ==
  ASSUME NEW s \in Seq(Tasks), NEW r, Some(r, s)
  PROVE  /\ r \in Seq(Tasks) /\ Len(r) <= Len(s)
         /\ \A k \in DOMAIN r : \E i \in DOMAIN s : r[k] = s[i]
         /\ \A k, l \in DOMAIN r : k # l =>
              \E i, j \in DOMAIN s : i # j /\ r[k] = s[i] /\ r[l] = s[j]
<1>1. PICK f : Picks(f, r, s, Len(s))
  BY DEF Some
<1>2. r \in Seq(Tasks) /\ Len(r) <= Len(s) /\ DOMAIN r = 1..Len(r) /\ DOMAIN s = 1..Len(s)
  BY DEF Some
<1>3. \A k \in DOMAIN r : f[k] \in DOMAIN s /\ r[k] = s[f[k]]
  BY <1>1, <1>2 DEF Picks
<1>4. \A k, l \in DOMAIN r : k # l => f[k] # f[l]
  BY <1>1, <1>2 DEF Picks
<1>5. \A k \in DOMAIN r : \E i \in DOMAIN s : r[k] = s[i]
  BY <1>3
<1>6. \A k, l \in DOMAIN r : k # l => \E i, j \in DOMAIN s : i # j /\ r[k] = s[i] /\ r[l] = s[j]
  BY <1>3, <1>4
<1> QED BY <1>2, <1>5, <1>6

\* What a step of a pass or a batch does to the tasks.
LEMMA StepIs ==
  ASSUME TypeInv, NEW i, Step(i)
  PROVE  /\ i \in DOMAIN tasks /\ tasks[i] \in Tasks
         /\ \/ Some(tasks', tasks) /\ \A o \in Objects : holder'[o] \in {holder[o], 0}
            \/ /\ tasks[i].at = "waiting" /\ LockFree(i) /\ UNCHANGED entities
               /\ tasks' = [tasks EXCEPT ![i].at = "adding",
                                         ![i].todo = WantedPools \ Loaded(tasks[i].gen)]
            \/ \E o \in tasks[i].todo :
                  /\ holder[o] = 0
                  /\ holder' = [holder EXCEPT ![o] = tasks[i].gen] /\ registry' = registry \cup {o}
                  /\ tasks' = [tasks EXCEPT ![i].todo = @ \ {o}, ![i].mine = @ \cup {o}]
            \/ \E o \in tasks[i].todo :
                  /\ holder[o] # 0
                  /\ tasks' = [tasks EXCEPT ![i].todo = @ \ {o}] /\ UNCHANGED entities
<1>0. i \in DOMAIN tasks /\ tasks[i] \in Tasks /\ holder \in [Objects -> 0..gen]
  BY DEF TypeInv, TypeOK, Step
<1>1. RemoveAt(tasks, i) = tasks' => Some(tasks', tasks)
  BY <1>0, RemoveLeaves DEF TypeInv
<1>2. CASE Take(i)
  <2>1. \/ tasks' = RemoveAt(tasks, i)
        \/ tasks' = [tasks EXCEPT ![i].at = "adding", ![i].todo = WantedPools \ Loaded(tasks[i].gen)]
    BY <1>2 DEF Take
  <2>2. tasks[i].at = "waiting" /\ LockFree(i) /\ UNCHANGED entities
    BY <1>2 DEF Take
  <2> QED BY <1>0, <1>1, <2>1, <2>2 DEF entities
<1>3. CASE Add(i)
  BY <1>0, <1>3 DEF Add
<1>4. CASE Finish(i)
  <2>1. \A o \in Objects : holder'[o] \in {holder[o], 0}
    BY <1>0, <1>4 DEF Finish
  <2> QED BY <1>0, <1>1, <1>4, <2>1 DEF Finish
<1> QED BY <1>2, <1>3, <1>4 DEF Step

LEMMA TasksAreTyped ==
  ASSUME NEW s \in Seq(Tasks)
  PROVE  /\ ToSet(s) \subseteq Tasks /\ \A i \in DOMAIN s : s[i] \in Tasks /\ s[i] \in ToSet(s)
         /\ \A t \in ToSet(s) : \E i \in DOMAIN s : t = s[i]
  BY DEF ToSet

LEMMA StepTypes ==
  ASSUME TypeInv, NEW i, Step(i)
  PROVE  TypeInv'
<1>0. /\ TypeOK /\ tasks \in Seq(Tasks) /\ \A j \in DOMAIN tasks : tasks[j].gen <= gen
      /\ holder \in [Objects -> 0..gen] /\ registry \subseteq Objects /\ gen \in Nat
      /\ UNCHANGED <<entry, gen, runtime, ok, pools, apps, pool, sub, app, stats, monitored, answered, witnessed, faults>>
  BY DEF TypeInv, TypeOK, Step, truenas, statsVars, history
<1>1. i \in DOMAIN tasks /\ tasks[i] \in Tasks
  BY StepIs
<1>2. tasks' \in Seq(Tasks) /\ Len(tasks') <= Len(tasks) /\ \A j \in DOMAIN tasks' : tasks'[j].gen <= gen
  <2>1. CASE Some(tasks', tasks)
    BY <1>0, <2>1, SomeOf
  <2>2. CASE tasks' = [tasks EXCEPT ![i].at = "adding", ![i].todo = WantedPools \ Loaded(tasks[i].gen)]
    <3>1. WantedPools \subseteq Objects
      BY <1>0, ObjectKinds DEF WantedPools, TypeOK
    <3>2. [tasks[i] EXCEPT !.at = "adding", !.todo = WantedPools \ Loaded(tasks[i].gen)] \in Tasks
      BY <1>1, <3>1 DEF Tasks
    <3>3. tasks' = [tasks EXCEPT ![i] = [tasks[i] EXCEPT !.at = "adding", !.todo = WantedPools \ Loaded(tasks[i].gen)]]
      BY <2>2
    <3>4. [tasks[i] EXCEPT !.at = "adding", !.todo = WantedPools \ Loaded(tasks[i].gen)].gen = tasks[i].gen
      BY <1>1 DEF Tasks
    <3> QED BY <1>0, <1>1, <3>2, <3>3, <3>4
  <2>3. ASSUME NEW o \in tasks[i].todo,
               tasks' = [tasks EXCEPT ![i].todo = @ \ {o}, ![i].mine = @ \cup {o}]
        PROVE  tasks' \in Seq(Tasks) /\ Len(tasks') <= Len(tasks) /\ \A j \in DOMAIN tasks' : tasks'[j].gen <= gen
    <3> DEFINE t == [tasks[i] EXCEPT !.todo = @ \ {o}, !.mine = @ \cup {o}]
    <3>1. t \in Tasks /\ t.gen = tasks[i].gen /\ tasks' = [tasks EXCEPT ![i] = t]
      BY <1>1, <2>3 DEF Tasks
    <3> HIDE DEF t
    <3> QED BY <1>0, <1>1, <3>1
  <2>4. ASSUME NEW o \in tasks[i].todo, tasks' = [tasks EXCEPT ![i].todo = @ \ {o}]
        PROVE  tasks' \in Seq(Tasks) /\ Len(tasks') <= Len(tasks) /\ \A j \in DOMAIN tasks' : tasks'[j].gen <= gen
    <3> DEFINE t == [tasks[i] EXCEPT !.todo = @ \ {o}]
    <3>1. t \in Tasks /\ t.gen = tasks[i].gen /\ tasks' = [tasks EXCEPT ![i] = t]
      BY <1>1, <2>4 DEF Tasks
    <3> HIDE DEF t
    <3> QED BY <1>0, <1>1, <3>1
  <2> QED BY <2>1, <2>2, <2>3, <2>4, StepIs
<1>3. holder' \in [Objects -> 0..gen] /\ registry' \subseteq Objects
  <2>1. CASE Take(i)
    BY <1>0, <2>1 DEF Take, entities
  <2>2. CASE Add(i)
    <3>1. tasks[i].gen \in 0..gen /\ tasks[i].todo \subseteq Objects
      <4>1. tasks[i].gen \in 1..MaxGen /\ tasks[i].gen <= gen
        BY <1>0, <1>1, TaskFields
      <4> QED BY <1>0, <1>1, <4>1, TaskFields, BoundsAssumption
    <3> QED BY <1>0, <2>2, <3>1 DEF Add, entities
  <2>3. CASE Finish(i)
    BY <1>0, <2>3 DEF Finish
  <2> QED BY <2>1, <2>2, <2>3 DEF Step
<1>4. ToSet(tasks') \subseteq Tasks /\ Len(tasks') <= MaxTasks
  <2>1. Len(tasks') \in Nat /\ Len(tasks) \in Nat /\ Len(tasks) <= MaxTasks /\ MaxTasks \in Nat
    BY <1>0, <1>2, BoundsAssumption DEF TypeOK
  <2> QED BY <1>2, <2>1, TasksAreTyped
<1> QED BY <1>0, <1>2, <1>3, <1>4 DEF TypeInv, TypeOK

LEMMA PollTypes ==
  ASSUME TypeInv, NEW fault, Poll(fault)
  PROVE  TypeInv'
<1>0. /\ TypeOK /\ tasks \in Seq(Tasks) /\ \A j \in DOMAIN tasks : tasks[j].gen <= gen
      /\ holder \in [Objects -> 0..gen] /\ registry \subseteq Objects
      /\ gen \in 0..MaxGen /\ MaxGen \in Nat /\ MaxFaults \in Nat /\ faults \in 0..MaxFaults
      /\ UNCHANGED <<entry, gen, runtime, pools, apps>>
  BY BoundsAssumption DEF TypeInv, TypeOK, Poll, truenas
<1>1. /\ app' \subseteq Apps /\ sub' \in BOOLEAN /\ stats' \in [Apps -> {"none", "bare", "live", "stale"}]
      /\ pool' \subseteq Pools /\ ok' \in BOOLEAN /\ monitored' = monitored
  <2>1. CASE fault = "lost"
    BY <1>0, <2>1 DEF Poll, StopAppStats, TypeOK
  <2>2. CASE fault # "lost"
    <3>1. GetPool(fault) /\ GetApp(fault) /\ GetAppStats(fault) /\ ok' = TRUE /\ monitored' = monitored
      BY <2>2 DEF Poll, Fetch
    <3>2. pool' \subseteq Pools
      BY <1>0, <3>1 DEF GetPool, TypeOK
    <3> QED BY <1>0, <3>1, <3>2, StatsType
  <2> QED BY <2>1, <2>2
<1>2. faults' \in 0..MaxFaults
  <2>1. faults' = faults \/ (faults' = faults + 1 /\ faults < MaxFaults)
    BY DEF Poll, Fetch, Remember
  <2> QED BY <1>0, <2>1
<1>3. /\ tasks' \in Seq(Tasks) /\ Len(tasks') <= MaxTasks /\ \A j \in DOMAIN tasks' : tasks'[j].gen <= gen
      /\ holder' \in [Objects -> 0..gen] /\ registry' \subseteq Objects
  <2>1. CASE UNCHANGED <<entities, tasks>>
    BY <1>0, <2>1 DEF entities, TypeOK
  <2>2. CASE Serves(runtime) /\ Discover(runtime)
    <3>1. runtime \in 1..MaxGen /\ runtime = gen
      BY <1>0, <2>2 DEF Serves, TypeOK
    <3> DEFINE batch == WantedStats' \ Loaded(runtime)
    <3>2. /\ tasks' \in Seq(Tasks) /\ Len(tasks') <= MaxTasks /\ Len(tasks) <= Len(tasks')
          /\ \A k \in DOMAIN tasks : k \in DOMAIN tasks' /\ tasks'[k] = tasks[k]
          /\ \A k \in DOMAIN tasks' \ DOMAIN tasks : tasks'[k] \in {Waiting(runtime), Adding(runtime, batch)}
          /\ registry' \subseteq registry /\ holder' \in [Objects -> 0..gen]
      BY <1>1, <2>2, <3>1, DiscoverIs
    <3> HIDE DEF batch
    <3>3. Waiting(runtime).gen = gen /\ Adding(runtime, batch).gen = gen
      BY <3>1 DEF Waiting, Adding
    <3>4. ASSUME NEW j \in DOMAIN tasks' PROVE tasks'[j].gen <= gen
      <4>1. CASE j \in DOMAIN tasks
        BY <1>0, <3>2, <4>1
      <4>2. CASE j \notin DOMAIN tasks
        <5>1. tasks'[j] \in {Waiting(runtime), Adding(runtime, batch)}
          BY <3>2, <4>2
        <5> QED BY <1>0, <3>3, <5>1
      <4> QED BY <4>1, <4>2
    <3> QED BY <1>0, <3>2, <3>4
  <2> QED BY <2>1, <2>2 DEF Poll
<1>4. ToSet(tasks') \subseteq Tasks
  BY <1>3, TasksAreTyped
<1> QED BY <1>0, <1>1, <1>2, <1>3, <1>4 DEF TypeInv, TypeOK

LEMMA SetUpTypes ==
  ASSUME TypeInv, SetUp
  PROVE  TypeInv'
<1>0. /\ TypeOK /\ tasks \in Seq(Tasks) /\ \A j \in DOMAIN tasks : tasks[j].gen <= gen
      /\ holder \in [Objects -> 0..gen] /\ registry \subseteq Objects
      /\ gen \in 0..MaxGen /\ MaxGen \in Nat /\ MaxFaults \in Nat /\ faults \in 0..MaxFaults
      /\ entry' = "setup" /\ gen' = gen + 1 /\ runtime' = gen + 1 /\ gen < MaxGen /\ Discover(gen + 1)
      /\ UNCHANGED <<pools, apps>> /\ monitored' \in BOOLEAN
  BY BoundsAssumption DEF TypeInv, TypeOK, SetUp, truenas
<1>1. /\ app' \subseteq Apps /\ sub' \in BOOLEAN /\ stats' \in [Apps -> {"none", "bare", "live", "stale"}]
      /\ pool' \subseteq Pools /\ ok' \in BOOLEAN /\ faults' \in 0..MaxFaults
  <2>1. PICK fault : /\ fault = "none" \/ faults < MaxFaults
                     /\ pool' \in {{}, pools} /\ app' \in {{}, {a \in Apps : apps[a] # "absent"}}
                     /\ sub' = (monitored' /\ app' # {} /\ fault # "stats_fails")
                     /\ stats' = NoStats /\ ok' = TRUE /\ Remember(fault)
    BY DEF SetUp
  <2>2. faults' = faults \/ (faults' = faults + 1 /\ faults < MaxFaults)
    BY <2>1 DEF Remember
  <2>3. pool' \subseteq Pools /\ app' \subseteq Apps /\ stats' \in [Apps -> {"none", "bare", "live", "stale"}]
    BY <1>0, <2>1 DEF TypeOK, NoStats
  <2> QED BY <1>0, <2>1, <2>2, <2>3
<1>2. gen + 1 \in 1..MaxGen
  BY <1>0
<1> DEFINE batch == WantedStats' \ Loaded(gen + 1)
<1>3. /\ tasks' \in Seq(Tasks) /\ Len(tasks') <= MaxTasks /\ Len(tasks) <= Len(tasks')
      /\ \A k \in DOMAIN tasks : k \in DOMAIN tasks' /\ tasks'[k] = tasks[k]
      /\ \A k \in DOMAIN tasks' \ DOMAIN tasks : tasks'[k] \in {Waiting(gen + 1), Adding(gen + 1, batch)}
      /\ registry' \subseteq registry /\ holder' \in [Objects -> 0..gen]
  BY <1>0, <1>1, <1>2, DiscoverIs
<1> HIDE DEF batch
<1>4. ASSUME NEW j \in DOMAIN tasks' PROVE tasks'[j].gen <= gen'
  <2>1. Waiting(gen + 1).gen = gen' /\ Adding(gen + 1, batch).gen = gen'
    BY <1>0 DEF Waiting, Adding
  <2>2. CASE j \in DOMAIN tasks
    <3>1. tasks[j] \in Tasks /\ tasks[j].gen <= gen /\ tasks'[j] = tasks[j]
      BY <1>0, <1>3, <2>2
    <3>2. tasks[j].gen \in Nat
      BY <1>0, <3>1, TaskFields
    <3> QED BY <1>0, <3>1, <3>2
  <2>3. CASE j \notin DOMAIN tasks
    <3>1. tasks'[j] \in {Waiting(gen + 1), Adding(gen + 1, batch)}
      BY <1>3, <2>3
    <3> QED BY <1>0, <2>1, <3>1
  <2> QED BY <2>2, <2>3
<1>5. holder' \in [Objects -> 0..gen'] /\ registry' \subseteq Objects /\ ToSet(tasks') \subseteq Tasks
  <2>1. \A x \in 0..gen : x \in 0..gen'
    BY <1>0
  <2> QED BY <1>0, <1>3, <2>1, TasksAreTyped
<1>6. runtime' \in {0, gen'} /\ gen' \in 0..MaxGen /\ (entry' = "not_loaded" <=> runtime' = 0)
  BY <1>0
<1> QED BY <1>0, <1>1, <1>3, <1>4, <1>5, <1>6 DEF TypeInv, TypeOK

LEMMA TypeInit == Init => TypeInv
<1> SUFFICES ASSUME Init PROVE TypeInv
  OBVIOUS
<1>1. TypeOK
  <2>1. ToSet(tasks) = {} /\ Len(tasks) = 0
    BY DEF Init, ToSet
  <2>2. /\ apps \in [Apps -> {"absent", "stopped", "running"}] /\ holder \in [Objects -> 0..gen]
        /\ stats \in [Apps -> {"none", "bare", "live", "stale"}]
    BY DEF Init, NoStats
  <2>3. gen \in 0..MaxGen /\ faults \in 0..MaxFaults /\ ToSet(tasks) \subseteq Tasks /\ Len(tasks) <= MaxTasks
    BY <2>1, BoundsAssumption DEF Init
  <2>4. /\ entry = "not_loaded" /\ runtime = 0 /\ ok = FALSE /\ sub = FALSE /\ monitored = TRUE
        /\ pools = Pools /\ pool = {} /\ app = {} /\ registry = {}
    BY DEF Init
  <2> QED BY <2>2, <2>3, <2>4 DEF TypeOK
<1>2. tasks \in Seq(Tasks) /\ DOMAIN tasks = {}
  BY DEF Init
<1> QED BY <1>1, <1>2 DEF TypeInv

LEMMA TypeStep == TypeInv /\ [Next]_vars => TypeInv'
<1> SUFFICES ASSUME TypeInv, [Next]_vars PROVE TypeInv'
  OBVIOUS
<1>1. CASE SetUpDone
  BY <1>1 DEF SetUpDone, TypeInv, TypeOK, truenas, statsVars, entities, history
<1>2. CASE Unload
  BY <1>2 DEF Unload, TypeInv, TypeOK, truenas, statsVars, history
<1>3. CASE Unloaded
  BY <1>3 DEF Unloaded, ClearedRuntimeData, StopAppStats, TypeInv, TypeOK, truenas,
              entities, history
<1>4. CASE Change
  BY <1>4, AppStatesAssumption DEF Change, TypeInv, TypeOK, statsVars, entities, history
<1>5. CASE UNCHANGED vars
  BY <1>5 DEF vars, TypeInv, TypeOK, truenas, statsVars, entities, history
<1> QED BY <1>1, <1>2, <1>3, <1>4, <1>5, SetUpTypes, PollTypes, StepTypes DEF Next, Batch

\* The variables have their types, and the tasks under way are a sequence of passes and
\* batches of coordinators that have been made.
THEOREM TypeCorrect == Spec => []TypeInv
  BY TypeInit, TypeStep, PTL DEF Spec

\* The variables have their types; there is a coordinator unless the entry is not loaded.
THEOREM TypesKept == Spec => []TypeOK
<1>1. TypeInv => TypeOK
  BY DEF TypeInv
<1> QED BY <1>1, TypeCorrect, PTL

-----------------------------------------------------------------------------
(* No entity is given twice.                                               *)

PoolObjects == {Pool(p) : p \in Pools}
StatsObjects == {App(a) : a \in Apps} \cup {Net(a) : a \in Apps}

\* A waiting pass has added nothing yet; a pass adds what its coordinator has not loaded,
\* and no app statistics sensors, which are what the batches add; h says who holds what.
TaskInv(t, h) ==
  /\ t.at = "waiting" => t.locked /\ t.todo = {} /\ t.mine = {}
  /\ t.locked => t.todo \subseteq PoolObjects /\ \A o \in t.todo : h[o] # t.gen
  /\ ~t.locked => t.todo \subseteq StatsObjects

HasLock(t) == t.locked /\ t.at = "adding"

\* Of the passes of one coordinator, one at a time has the lock.
OneHasLock ==
  \A i, j \in DOMAIN tasks :
    HasLock(tasks[i]) /\ HasLock(tasks[j]) /\ tasks[i].gen = tasks[j].gen => i = j

AddInv == (\A i \in DOMAIN tasks : TaskInv(tasks[i], holder)) /\ OneHasLock

LEMMA KindsDiffer == PoolObjects \cap StatsObjects = {}
  BY DEF PoolObjects, StatsObjects, Pool, App, Net

LEMMA OnceHolds == TypeInv /\ AddInv => AddedOnce
<1> SUFFICES ASSUME TypeInv, AddInv, NEW i \in DOMAIN tasks, tasks[i].locked
             PROVE  /\ tasks[i].todo \cap Loaded(tasks[i].gen) = {}
                    /\ \A j \in DOMAIN tasks \ {i} : tasks[j].gen = tasks[i].gen =>
                          tasks[j].todo \cap tasks[i].todo = {}
  BY DEF AddedOnce
<1>1. tasks[i].todo \subseteq PoolObjects /\ tasks[i].todo \cap Loaded(tasks[i].gen) = {}
  BY DEF AddInv, TaskInv, Loaded
<1>2. ASSUME NEW j \in DOMAIN tasks \ {i}, tasks[j].gen = tasks[i].gen
      PROVE  tasks[j].todo \cap tasks[i].todo = {}
  <2>1. CASE ~tasks[j].locked
    BY <1>1, <2>1, KindsDiffer DEF AddInv, TaskInv
  <2>2. CASE tasks[i].at = "waiting" \/ tasks[j].at = "waiting"
    BY <2>2 DEF AddInv, TaskInv
  <2>3. CASE tasks[j].locked /\ tasks[i].at # "waiting" /\ tasks[j].at # "waiting"
    <3>1. tasks[i].at = "adding" /\ tasks[j].at = "adding"
      BY <2>3, TaskFields DEF TypeInv
    <3> QED BY <1>2, <2>3, <3>1 DEF AddInv, OneHasLock, HasLock
  <2> QED BY <2>1, <2>2, <2>3
<1> QED BY <1>1, <1>2

LEMMA PoolsAreObjects == PoolObjects \subseteq Objects /\ WantedPools = {Pool(p) : p \in pool}
  BY ObjectKinds DEF PoolObjects, WantedPools

\* While entities are only removed, a task stays as it should be.
LEMMA TaskStays ==
  ASSUME NEW t \in Tasks, NEW h, NEW k, TaskInv(t, h), \A o \in Objects : k[o] \in {h[o], 0}
  PROVE  TaskInv(t, k)
<1>1. t.gen # 0 /\ t.gen \in Nat
  BY TaskFields, BoundsAssumption
<1> QED BY <1>1, PoolsAreObjects DEF TaskInv

\* The tasks that remain when some are taken out stay as they should be.
LEMMA SomeStay ==
  ASSUME TypeInv, AddInv, Some(tasks', tasks), \A o \in Objects : holder'[o] \in {holder[o], 0}
  PROVE  AddInv'
<1>0. tasks \in Seq(Tasks)
  BY DEF TypeInv
<1>1. ASSUME NEW i \in DOMAIN tasks' PROVE TaskInv(tasks'[i], holder')
  <2>1. PICK j \in DOMAIN tasks : tasks'[i] = tasks[j]
    BY <1>0, SomeOf
  <2>2. tasks[j] \in Tasks /\ TaskInv(tasks[j], holder)
    BY <1>0 DEF AddInv
  <2>3. TaskInv(tasks[j], holder')
    BY <2>2, TaskStays
  <2> QED BY <2>1, <2>3
<1>2. ASSUME NEW i \in DOMAIN tasks', NEW j \in DOMAIN tasks',
             HasLock(tasks'[i]), HasLock(tasks'[j]), tasks'[i].gen = tasks'[j].gen, i # j
      PROVE  FALSE
  <2>1. PICK k, l \in DOMAIN tasks : k # l /\ tasks'[i] = tasks[k] /\ tasks'[j] = tasks[l]
    BY <1>0, <1>2, SomeOf
  <2> QED BY <1>2, <2>1 DEF AddInv, OneHasLock
<1> QED BY <1>1, <1>2 DEF AddInv, OneHasLock, HasLock

\* A new pass does not have the lock yet.
LEMMA DiscoverKeepsApart ==
  ASSUME TypeInv, AddInv, NEW g \in 1..MaxGen, Discover(g), app' \subseteq Apps,
         stats' \in [Apps -> {"none", "bare", "live", "stale"}]
  PROVE  AddInv'
<1> DEFINE batch == WantedStats' \ Loaded(g)
<1>0. tasks \in Seq(Tasks)
  BY DEF TypeInv
<1>1. /\ \A k \in DOMAIN tasks : k \in DOMAIN tasks' /\ tasks'[k] = tasks[k]
      /\ \A k \in DOMAIN tasks' \ DOMAIN tasks : tasks'[k] \in {Waiting(g), Adding(g, batch)}
      /\ \A o \in Objects : holder'[o] \in {holder[o], 0}
  BY DiscoverIs
<1>2. batch \subseteq StatsObjects
  BY DEF WantedStats, KnownAppNames, WithInterfaces, StatsObjects
<1> HIDE DEF batch
<1>3. /\ TaskInv(Waiting(g), holder') /\ TaskInv(Adding(g, batch), holder')
      /\ ~HasLock(Waiting(g)) /\ ~HasLock(Adding(g, batch))
  BY <1>2 DEF TaskInv, Waiting, Adding, HasLock
<1>4. ASSUME NEW i \in DOMAIN tasks' PROVE TaskInv(tasks'[i], holder')
  <2>1. CASE i \in DOMAIN tasks
    <3>1. tasks[i] \in Tasks /\ TaskInv(tasks[i], holder) /\ tasks'[i] = tasks[i]
      BY <1>0, <1>1, <2>1 DEF AddInv
    <3> QED BY <1>1, <3>1, TaskStays
  <2>2. CASE i \notin DOMAIN tasks
    <3>1. tasks'[i] \in {Waiting(g), Adding(g, batch)}
      BY <1>1, <2>2
    <3> QED BY <1>3, <3>1
  <2> QED BY <2>1, <2>2
<1>5. \A i \in DOMAIN tasks' : HasLock(tasks'[i]) => i \in DOMAIN tasks /\ tasks'[i] = tasks[i]
  <2> SUFFICES ASSUME NEW i \in DOMAIN tasks', HasLock(tasks'[i])
               PROVE  i \in DOMAIN tasks /\ tasks'[i] = tasks[i]
    OBVIOUS
  <2>1. tasks'[i] # Waiting(g) /\ tasks'[i] # Adding(g, batch)
    BY <1>3
  <2> QED BY <1>1, <2>1
<1>6. \A i, j \in DOMAIN tasks' :
         HasLock(tasks'[i]) /\ HasLock(tasks'[j]) /\ tasks'[i].gen = tasks'[j].gen => i = j
  BY <1>5 DEF AddInv, OneHasLock
<1> QED BY <1>4, <1>6 DEF AddInv, OneHasLock, HasLock

LEMMA SetUpDiscovers ==
  ASSUME TypeInv, SetUp
  PROVE  /\ gen + 1 \in 1..MaxGen /\ Discover(gen + 1) /\ app' \subseteq Apps
         /\ stats' \in [Apps -> {"none", "bare", "live", "stale"}]
<1>1. Discover(gen + 1) /\ gen + 1 \in 1..MaxGen
  BY BoundsAssumption DEF SetUp, TypeInv, TypeOK
<1> QED BY <1>1, SetUpTypes DEF TypeInv, TypeOK

LEMMA PollDiscovers ==
  ASSUME TypeInv, NEW fault, Poll(fault)
  PROVE  \/ UNCHANGED <<holder, registry, tasks>>
         \/ /\ Serves(runtime) /\ runtime \in 1..MaxGen /\ Discover(runtime) /\ app' \subseteq Apps
            /\ stats' \in [Apps -> {"none", "bare", "live", "stale"}]
<1>1. app' \subseteq Apps /\ stats' \in [Apps -> {"none", "bare", "live", "stale"}]
  BY PollTypes DEF TypeInv, TypeOK
<1>2. Serves(runtime) => runtime \in 1..MaxGen
  BY BoundsAssumption DEF Serves, TypeInv, TypeOK
<1> QED BY <1>1, <1>2 DEF Poll, entities

-----------------------------------------------------------------------------
(* Steps of passes and batches                                             *)

\* When one task changes, the others need only its entities and its lock.
LEMMA OneChanges ==
  ASSUME TypeInv, AddInv, NEW i \in DOMAIN tasks, NEW t \in Tasks,
         tasks' = [tasks EXCEPT ![i] = t], t.gen = tasks[i].gen, TaskInv(t, holder'),
         \A j \in DOMAIN tasks \ {i} : TaskInv(tasks[j], holder'),
         HasLock(t) => \A j \in DOMAIN tasks \ {i} : ~(HasLock(tasks[j]) /\ tasks[j].gen = t.gen)
  PROVE  AddInv'
<1>0. /\ tasks \in Seq(Tasks) /\ DOMAIN tasks' = DOMAIN tasks /\ tasks'[i] = t
      /\ \A j \in DOMAIN tasks \ {i} : tasks'[j] = tasks[j]
  BY DEF TypeInv
<1>1. \A j \in DOMAIN tasks' : TaskInv(tasks'[j], holder')
  BY <1>0
<1>2. ASSUME NEW j \in DOMAIN tasks', NEW k \in DOMAIN tasks', j # k,
             HasLock(tasks'[j]), HasLock(tasks'[k]), tasks'[j].gen = tasks'[k].gen
      PROVE  FALSE
  <2>1. CASE j = i
    BY <1>0, <1>2, <2>1
  <2>2. CASE k = i
    BY <1>0, <1>2, <2>2
  <2>3. CASE j # i /\ k # i
    BY <1>0, <1>2, <2>3 DEF AddInv, OneHasLock
  <2> QED BY <2>1, <2>2, <2>3
<1> QED BY <1>1, <1>2 DEF AddInv, OneHasLock, HasLock

LEMMA StepKeepsApart ==
  ASSUME TypeInv, AddInv, NEW i, Step(i)
  PROVE  AddInv'
<1>0. /\ i \in DOMAIN tasks /\ tasks[i] \in Tasks /\ tasks \in Seq(Tasks)
      /\ holder \in [Objects -> 0..gen] /\ pool \subseteq Pools
      /\ TaskInv(tasks[i], holder)
      /\ \A j \in DOMAIN tasks : tasks[j] \in Tasks /\ TaskInv(tasks[j], holder)
  <2>1. i \in DOMAIN tasks /\ tasks[i] \in Tasks
    BY StepIs
  <2>2. tasks \in Seq(Tasks) /\ holder \in [Objects -> 0..gen] /\ pool \subseteq Pools
    BY DEF TypeInv, TypeOK
  <2>3. \A j \in DOMAIN tasks : tasks[j] \in Tasks /\ TaskInv(tasks[j], holder)
    BY <2>2 DEF AddInv
  <2> QED BY <2>1, <2>2, <2>3
<1>1. CASE Some(tasks', tasks) /\ \A o \in Objects : holder'[o] \in {holder[o], 0}
  BY <1>1, SomeStay
<1>2. CASE /\ tasks[i].at = "waiting" /\ LockFree(i) /\ UNCHANGED entities
           /\ tasks' = [tasks EXCEPT ![i].at = "adding", ![i].todo = WantedPools \ Loaded(tasks[i].gen)]
  <2> DEFINE todo == WantedPools \ Loaded(tasks[i].gen)
             t == [tasks[i] EXCEPT !.at = "adding", !.todo = todo]
  <2>1. todo \subseteq PoolObjects /\ todo \subseteq Objects /\ \A o \in todo : holder[o] # tasks[i].gen
    BY <1>0, PoolsAreObjects DEF PoolObjects, Loaded
  <2>2. tasks[i].locked /\ holder' = holder
    BY <1>0, <1>2 DEF TaskInv, entities
  <2> HIDE DEF todo
  <2>3. /\ t \in Tasks /\ t.gen = tasks[i].gen /\ t.locked = tasks[i].locked /\ t.at = "adding"
        /\ t.todo = todo
    BY <1>0, <2>1 DEF Tasks
  <2>4. tasks' = [tasks EXCEPT ![i] = t]
    BY <1>2 DEF todo
  <2> HIDE DEF t
  <2>5. TaskInv(t, holder')
    BY <2>1, <2>2, <2>3 DEF TaskInv
  <2>6. ASSUME NEW j \in DOMAIN tasks \ {i}, HasLock(tasks[j]), tasks[j].gen = t.gen PROVE FALSE
    BY <1>2, <2>3, <2>6 DEF LockFree, HasLock
  <2>7. \A j \in DOMAIN tasks \ {i} : TaskInv(tasks[j], holder')
    BY <1>0, <2>2
  <2> QED BY <1>0, <2>3, <2>4, <2>5, <2>6, <2>7, OneChanges
<1>3. ASSUME NEW o \in tasks[i].todo, holder[o] = 0,
             holder' = [holder EXCEPT ![o] = tasks[i].gen],
             tasks' = [tasks EXCEPT ![i].todo = @ \ {o}, ![i].mine = @ \cup {o}]
      PROVE  AddInv'
  <2> DEFINE t == [tasks[i] EXCEPT !.todo = @ \ {o}, !.mine = @ \cup {o}]
  <2>1. /\ t \in Tasks /\ t.gen = tasks[i].gen /\ t.locked = tasks[i].locked /\ t.at = tasks[i].at
        /\ t.todo = tasks[i].todo \ {o} /\ o \in Objects /\ tasks[i].gen \in Nat
    <3>1. o \in Objects /\ tasks[i].gen \in Nat
      BY <1>0, TaskFields, BoundsAssumption
    <3> QED BY <1>0, <3>1 DEF Tasks
  <2>2. tasks' = [tasks EXCEPT ![i] = t]
    BY <1>3
  <2> HIDE DEF t
  <2>3. holder'[o] = tasks[i].gen /\ \A p \in Objects \ {o} : holder'[p] = holder[p]
    BY <1>0, <1>3, <2>1
  <2>4. tasks[i].at # "waiting"
    BY <1>0 DEF TaskInv
  <2>5. TaskInv(t, holder')
    <3>1. t.locked => t.todo \subseteq PoolObjects /\ \A p \in t.todo : p \in Objects \ {o} /\ holder[p] # t.gen
      BY <1>0, <2>1, PoolsAreObjects DEF TaskInv
    <3> QED BY <1>0, <2>1, <2>3, <2>4, <3>1 DEF TaskInv
  <2>6. ASSUME NEW j \in DOMAIN tasks \ {i} PROVE TaskInv(tasks[j], holder')
    <3>1. tasks[j].locked /\ tasks[j].gen = tasks[i].gen => o \notin tasks[j].todo
      <4> SUFFICES ASSUME tasks[j].locked, tasks[j].gen = tasks[i].gen PROVE o \notin tasks[j].todo
        OBVIOUS
      <4>1. AddedOnce /\ j \in DOMAIN tasks /\ i \in DOMAIN tasks \ {j}
        BY <1>0, OnceHolds
      <4>2. tasks[i].todo \cap tasks[j].todo = {}
        BY <4>1 DEF AddedOnce
      <4> QED BY <4>2
    <3>2. tasks[j] \in Tasks /\ TaskInv(tasks[j], holder)
      BY <1>0
    <3>3. tasks[j].locked => \A p \in tasks[j].todo : p \in Objects /\ holder'[p] # tasks[j].gen
      <4> SUFFICES ASSUME tasks[j].locked, NEW p \in tasks[j].todo
                   PROVE  p \in Objects /\ holder'[p] # tasks[j].gen
        OBVIOUS
      <4>1. p \in Objects /\ holder[p] # tasks[j].gen
        BY <3>2, PoolsAreObjects DEF TaskInv
      <4>2. CASE p = o
        BY <2>3, <3>1, <4>1, <4>2
      <4>3. CASE p # o
        BY <2>3, <4>1, <4>3
      <4> QED BY <4>2, <4>3
    <3> QED BY <3>2, <3>3 DEF TaskInv
  <2>7. ASSUME HasLock(t), NEW j \in DOMAIN tasks \ {i}, HasLock(tasks[j]), tasks[j].gen = t.gen PROVE FALSE
    BY <1>0, <2>1, <2>7 DEF AddInv, OneHasLock, HasLock
  <2> QED BY <1>0, <2>1, <2>2, <2>5, <2>6, <2>7, OneChanges
<1>4. ASSUME NEW o \in tasks[i].todo, tasks' = [tasks EXCEPT ![i].todo = @ \ {o}], UNCHANGED entities
      PROVE  AddInv'
  <2> DEFINE t == [tasks[i] EXCEPT !.todo = @ \ {o}]
  <2>1. /\ t \in Tasks /\ t.gen = tasks[i].gen /\ t.locked = tasks[i].locked /\ t.at = tasks[i].at
        /\ t.todo = tasks[i].todo \ {o} /\ t.mine = tasks[i].mine
    BY <1>0 DEF Tasks
  <2>2. tasks' = [tasks EXCEPT ![i] = t] /\ holder' = holder
    BY <1>4 DEF entities
  <2> HIDE DEF t
  <2>3. TaskInv(t, holder')
    BY <1>0, <2>1, <2>2 DEF TaskInv
  <2>4. ASSUME HasLock(t), NEW j \in DOMAIN tasks \ {i}, HasLock(tasks[j]), tasks[j].gen = t.gen PROVE FALSE
    BY <1>0, <2>1, <2>4 DEF AddInv, OneHasLock, HasLock
  <2>5. \A j \in DOMAIN tasks \ {i} : TaskInv(tasks[j], holder')
    BY <1>0, <2>2
  <2> QED BY <1>0, <2>1, <2>2, <2>3, <2>4, <2>5, OneChanges
<1> QED BY <1>1, <1>2, <1>3, <1>4, StepIs

LEMMA AddInit == Init => AddInv
  BY DEF Init, AddInv, OneHasLock

LEMMA AddInvStep == TypeInv /\ AddInv /\ [Next]_vars => AddInv'
<1> SUFFICES ASSUME TypeInv, AddInv, [Next]_vars PROVE AddInv'
  OBVIOUS
<1>0. holder \in [Objects -> 0..gen] /\ tasks \in Seq(Tasks)
  BY DEF TypeInv, TypeOK
<1>1. ASSUME UNCHANGED <<holder, tasks>> PROVE AddInv'
  BY <1>1 DEF AddInv, OneHasLock, HasLock
<1>2. CASE SetUp
  BY <1>2, SetUpDiscovers, DiscoverKeepsApart
<1>3. CASE SetUpDone
  BY <1>1, <1>3 DEF SetUpDone, entities
<1>4. CASE Unload
  <2>1. UNCHANGED tasks /\ \A o \in Objects : holder'[o] \in {holder[o], 0}
    BY <1>0, <1>4 DEF Unload
  <2>2. \A i \in DOMAIN tasks : TaskInv(tasks[i], holder')
    BY <1>0, <2>1, TaskStays DEF AddInv
  <2> QED BY <2>1, <2>2 DEF AddInv, OneHasLock, HasLock
<1>5. CASE Unloaded
  BY <1>1, <1>5 DEF Unloaded, entities
<1>6. ASSUME NEW fault, Poll(fault) PROVE AddInv'
  BY <1>1, <1>6, PollDiscovers, DiscoverKeepsApart
<1>7. ASSUME NEW i, Step(i) PROVE AddInv'
  BY <1>7, StepKeepsApart
<1>8. CASE Change
  BY <1>1, <1>8 DEF Change, entities
<1>9. CASE UNCHANGED vars
  BY <1>1, <1>9 DEF vars, entities
<1> QED BY <1>2, <1>3, <1>4, <1>5, <1>6, <1>7, <1>8, <1>9 DEF Next, Batch

LEMMA AddInvHolds == Spec => []AddInv
<1> QED BY AddInit, AddInvStep, TypeCorrect, PTL DEF Spec

\* However refreshes overlap, a discovery pass that holds the lock gives its platform no
\* entity that the platform has, nor one that another pass or a batch of the same
\* coordinator is adding (the add lock of async_add_entities).  Two batches of app
\* statistics, which take no lock, may be of the same sensors: nothing is said of them.
THEOREM NoneTwice == Spec => []AddedOnce
  BY OnceHolds, TypeCorrect, AddInvHolds, PTL

-----------------------------------------------------------------------------
(* No entity is left behind.                                               *)

\* The tasks under way stay, and entities are only removed.
LEMMA NoneLeftStays ==
  ASSUME TypeInv, NoneLeftBehind, tasks' \in Seq(Tasks),
         \A k \in DOMAIN tasks : k \in DOMAIN tasks' /\ tasks'[k] = tasks[k],
         \A o \in Objects : holder'[o] \in {holder[o], 0},
         \A o \in Objects : holder'[o] # 0 /\ Serves(holder[o]) => Serves(holder[o])'
  PROVE  NoneLeftBehind'
<1> SUFFICES ASSUME NEW o \in Objects, holder'[o] # 0, ~Serves(holder[o])'
             PROVE  \E t \in ToSet(tasks') : t.gen = holder'[o] /\ o \in t.mine
  BY DEF NoneLeftBehind, Serves
<1>1. holder'[o] = holder[o] /\ holder[o] # 0 /\ ~Serves(holder[o])
  OBVIOUS
<1>2. PICK t \in ToSet(tasks) : t.gen = holder[o] /\ o \in t.mine
  BY <1>1 DEF NoneLeftBehind
<1>3. t \in ToSet(tasks')
  BY <1>2, TasksAreTyped DEF TypeInv
<1> QED BY <1>1, <1>2, <1>3

LEMMA StepLeavesNone ==
  ASSUME TypeInv, AddInv, NoneLeftBehind, NEW i, Step(i)
  PROVE  NoneLeftBehind'
<1>0. /\ i \in DOMAIN tasks /\ tasks[i] \in Tasks /\ tasks \in Seq(Tasks) /\ tasks' \in Seq(Tasks)
      /\ holder \in [Objects -> 0..gen] /\ TaskInv(tasks[i], holder) /\ UNCHANGED <<entry, runtime>>
      /\ DOMAIN tasks = 1..Len(tasks)
  <2>1. i \in DOMAIN tasks /\ tasks[i] \in Tasks /\ tasks' \in Seq(Tasks)
    BY StepIs, StepTypes DEF TypeInv
  <2> QED BY <2>1 DEF TypeInv, TypeOK, AddInv, Step
<1> SUFFICES ASSUME NEW o \in Objects, holder'[o] # 0, ~Serves(holder'[o])
             PROVE  \E t \in ToSet(tasks') : t.gen = holder'[o] /\ o \in t.mine
  BY <1>0 DEF NoneLeftBehind, Serves
<1>1. holder[o] = holder'[o] => \E j \in DOMAIN tasks : tasks[j].gen = holder[o] /\ o \in tasks[j].mine
  <2> SUFFICES ASSUME holder[o] = holder'[o]
               PROVE  \E j \in DOMAIN tasks : tasks[j].gen = holder[o] /\ o \in tasks[j].mine
    OBVIOUS
  <2>1. PICK t \in ToSet(tasks) : t.gen = holder[o] /\ o \in t.mine
    BY DEF NoneLeftBehind
  <2> QED BY <1>0, <2>1, TasksAreTyped
<1>2. CASE Take(i)
  <2>1. holder'[o] = holder[o]
    BY <1>2 DEF Take, entities
  <2>2. PICK j \in DOMAIN tasks : tasks[j].gen = holder[o] /\ o \in tasks[j].mine
    BY <1>1, <2>1
  <2>3. j # i
    BY <1>0, <1>2, <2>2 DEF Take, TaskInv
  <2>4. tasks[j] \in ToSet(tasks')
    <3>1. CASE tasks' = RemoveAt(tasks, i)
      BY <1>0, <2>3, <3>1, RemoveLeaves
    <3>2. CASE tasks' = [tasks EXCEPT ![i].at = "adding", ![i].todo = WantedPools \ Loaded(tasks[i].gen)]
      <4>1. j \in DOMAIN tasks' /\ tasks'[j] = tasks[j]
        BY <1>0, <2>3, <3>2
      <4> QED BY <1>0, <4>1, TasksAreTyped
    <3> QED BY <1>2, <3>1, <3>2 DEF Take
  <2> QED BY <2>1, <2>2, <2>4
<1>3. CASE Add(i)
  <2>1. PICK p \in tasks[i].todo :
          \/ /\ holder' = [holder EXCEPT ![p] = tasks[i].gen]
             /\ tasks' = [tasks EXCEPT ![i].todo = @ \ {p}, ![i].mine = @ \cup {p}]
          \/ tasks' = [tasks EXCEPT ![i].todo = @ \ {p}] /\ holder' = holder
    BY <1>3 DEF Add, entities
  <2>2. /\ \A j \in DOMAIN tasks : j \in DOMAIN tasks' /\ tasks'[j] \in ToSet(tasks')
        /\ \A j \in DOMAIN tasks \ {i} : tasks'[j] = tasks[j]
        /\ tasks'[i].gen = tasks[i].gen /\ tasks[i].mine \subseteq tasks'[i].mine
        /\ holder' # holder => p \in tasks'[i].mine
    <3>1. /\ \A j \in DOMAIN tasks : j \in DOMAIN tasks'
          /\ \A j \in DOMAIN tasks \ {i} : tasks'[j] = tasks[j]
          /\ tasks'[i].gen = tasks[i].gen
      BY <1>0, <2>1 DEF Tasks
    <3>2. tasks[i].mine \subseteq tasks'[i].mine /\ (holder' # holder => p \in tasks'[i].mine)
      <4>1. CASE tasks' = [tasks EXCEPT ![i].todo = @ \ {p}, ![i].mine = @ \cup {p}]
        <5>1. tasks'[i].mine = tasks[i].mine \cup {p}
          BY <1>0, <4>1 DEF Tasks
        <5> QED BY <5>1
      <4>2. CASE tasks' = [tasks EXCEPT ![i].todo = @ \ {p}] /\ holder' = holder
        <5>1. tasks'[i].mine = tasks[i].mine
          BY <1>0, <4>2 DEF Tasks
        <5> QED BY <4>2, <5>1
      <4> QED BY <2>1, <4>1, <4>2
    <3> QED BY <1>0, <3>1, <3>2, TasksAreTyped
  <2>3. CASE holder'[o] = holder[o]
    <3>1. PICK j \in DOMAIN tasks : tasks[j].gen = holder[o] /\ o \in tasks[j].mine
      BY <1>1, <2>3
    <3>2. tasks'[j].gen = holder[o] /\ o \in tasks'[j].mine
      BY <2>2, <3>1
    <3> QED BY <2>2, <2>3, <3>1, <3>2
  <2>4. CASE holder'[o] # holder[o]
    <3>1. o = p /\ holder'[o] = tasks[i].gen
      BY <1>0, <2>1, <2>4
    <3> QED BY <1>0, <2>2, <2>4, <3>1
  <2> QED BY <2>3, <2>4
<1>4. CASE Finish(i)
  <2>1. holder'[o] = holder[o] /\ o \notin AddedDuringUnload(tasks[i]) /\ tasks' = RemoveAt(tasks, i)
    BY <1>4 DEF Finish
  <2>2. PICK j \in DOMAIN tasks : tasks[j].gen = holder[o] /\ o \in tasks[j].mine
    BY <1>1, <2>1
  <2>3. j # i
    BY <2>1, <2>2 DEF AddedDuringUnload
  <2>4. tasks[j] \in ToSet(tasks')
    BY <1>0, <2>1, <2>3, RemoveLeaves
  <2> QED BY <2>1, <2>2, <2>4
<1> QED BY <1>2, <1>3, <1>4 DEF Step

LEMMA UnloadedLeavesNone ==
  ASSUME TypeInv, NoneLeftBehind, Unloaded
  PROVE  NoneLeftBehind'
<1>1. \A o \in Objects : ~Serves(holder[o])
  BY DEF Unloaded, Serves
<1> QED BY <1>1 DEF Unloaded, entities, NoneLeftBehind

LEMMA NoneLeftStep == TypeInv /\ AddInv /\ NoneLeftBehind /\ [Next]_vars => NoneLeftBehind'
<1> SUFFICES ASSUME TypeInv, AddInv, NoneLeftBehind, [Next]_vars PROVE NoneLeftBehind'
  OBVIOUS
<1>0. holder \in [Objects -> 0..gen] /\ tasks \in Seq(Tasks)
  BY DEF TypeInv, TypeOK
<1>1. ASSUME UNCHANGED <<entry, runtime, holder, tasks>> PROVE NoneLeftBehind'
  BY <1>1 DEF NoneLeftBehind, Serves
<1>2. CASE SetUp
  <2>1. /\ tasks' \in Seq(Tasks) /\ \A k \in DOMAIN tasks : k \in DOMAIN tasks' /\ tasks'[k] = tasks[k]
        /\ \A o \in Objects : holder'[o] \in {holder[o], 0}
    BY <1>2, SetUpDiscovers, DiscoverIs
  <2>2. \A o \in Objects : ~Serves(holder[o])
    BY <1>2 DEF SetUp, Serves
  <2> QED BY <2>1, <2>2, NoneLeftStays
<1>3. CASE SetUpDone
  BY <1>0, <1>3 DEF SetUpDone, entities, NoneLeftBehind, Serves
<1>4. CASE Unload
  <2>1. UNCHANGED tasks /\ \A o \in Objects : holder'[o] = IF holder[o] = runtime THEN 0 ELSE holder[o]
    BY <1>4 DEF Unload
  <2>2. \A o \in Objects : holder'[o] \in {holder[o], 0}
    BY <2>1
  <2>3. \A o \in Objects : holder'[o] # 0 => ~Serves(holder[o])
    BY <2>1 DEF Serves
  <2> QED BY <1>0, <2>1, <2>2, <2>3, NoneLeftStays
<1>5. ASSUME NEW fault, Poll(fault) PROVE NoneLeftBehind'
  <2>1. UNCHANGED <<entry, runtime>>
    BY <1>5 DEF Poll
  <2>2. CASE UNCHANGED <<holder, registry, tasks>>
    BY <1>1, <2>1, <2>2
  <2>3. CASE ~UNCHANGED <<holder, registry, tasks>>
    <3>1. /\ tasks' \in Seq(Tasks) /\ \A k \in DOMAIN tasks : k \in DOMAIN tasks' /\ tasks'[k] = tasks[k]
          /\ \A o \in Objects : holder'[o] \in {holder[o], 0}
      BY <1>5, <2>3, PollDiscovers, DiscoverIs
    <3>2. \A o \in Objects : holder'[o] # 0 /\ Serves(holder[o]) => Serves(holder[o])'
      BY <2>1, <3>1 DEF Serves
    <3> QED BY <3>1, <3>2, NoneLeftStays
  <2> QED BY <2>2, <2>3
<1>6. CASE Unloaded
  BY <1>6, UnloadedLeavesNone
<1>7. ASSUME NEW i, Step(i) PROVE NoneLeftBehind'
  BY <1>7, StepLeavesNone
<1>8. CASE Change
  BY <1>1, <1>8 DEF Change, entities
<1>9. CASE UNCHANGED vars
  BY <1>1, <1>9 DEF vars, entities
<1> QED BY <1>2, <1>3, <1>4, <1>5, <1>6, <1>7, <1>8, <1>9 DEF Next, Batch

\* An entity of an entry that no longer serves belongs to a batch still under way, which
\* will remove it: however unloads, refreshes and batches interleave, none is left behind
\* on a discarded platform (remove_entities_added_during_unload).
THEOREM NoneStays == Spec => []NoneLeftBehind
<1>1. Init => NoneLeftBehind
  BY DEF Init, NoneLeftBehind
<1> QED BY <1>1, NoneLeftStep, TypeCorrect, AddInvHolds, PTL DEF Spec

-----------------------------------------------------------------------------
(* Registry entries are kept.                                              *)

\* What the coordinator has of pools and apps, unless it is empty, is what the last real
\* answer was; there are no statistics without apps, and the interfaces it has seen are still
\* there, live or stale.
KeepInv ==
  /\ answered.pool \subseteq Pools /\ answered.app \subseteq Apps
  /\ pool # {} => pool = answered.pool
  /\ app # {} => app = answered.app
  /\ witnessed \subseteq WithInterfaces
  /\ ~monitored \/ app = {} => stats = NoStats

\* Whose object is gone, or whose app has lost its interfaces.
Gone(o) ==
  CASE o.kind = "pool" -> o.of \notin answered.pool
    [] o.kind = "app" -> o.of \notin answered.app
    [] o.kind = "net" -> o.of \notin witnessed \/ o.of \notin answered.app

OrphansGone == \A o \in Objects : IsOrphan(o) => Gone(o)

LEMMA OrphansHold == KeepInv => OrphansGone
<1> SUFFICES ASSUME KeepInv, NEW o \in Objects, IsOrphan(o) PROVE Gone(o)
  BY DEF OrphansGone
<1>1. o \notin Active /\ o.kind \in LiveKinds
  BY DEF IsOrphan
<1>2. ASSUME NEW p \in Pools, o = Pool(p) PROVE Gone(o)
  <2>1. o.kind = "pool" /\ o.of = p
    BY <1>2 DEF Pool
  <2>2. pool # {} /\ p \notin pool
    BY <1>1, <1>2, <2>1 DEF LiveKinds, Active, WantedPools
  <2> QED BY <2>1, <2>2 DEF Gone, KeepInv
<1>3. ASSUME NEW a \in Apps, o = App(a) PROVE Gone(o)
  <2>1. o.kind = "app" /\ o.of = a
    BY <1>3 DEF App
  <2>2. a \notin KnownAppNames /\ (KnownAppNames # {} \/ stats # NoStats)
    BY <1>1, <1>3, <2>1 DEF LiveKinds, Active, WantedStats
  <2>3. monitored /\ app # {}
    BY <2>2 DEF KeepInv, KnownAppNames
  <2>4. a \notin answered.app
    BY <2>2, <2>3 DEF KeepInv, KnownAppNames
  <2> QED BY <2>1, <2>4 DEF Gone
<1>4. ASSUME NEW a \in Apps, o = Net(a) PROVE Gone(o)
  <2>1. o.kind = "net" /\ o.of = a
    BY <1>4 DEF Net
  <2>2. a \notin WithInterfaces
    BY <1>1, <1>4 DEF Active, WantedStats
  <2> QED BY <2>1, <2>2 DEF Gone, KeepInv
<1> QED BY <1>2, <1>3, <1>4 DEF Objects

\* A statistics update keeps the interfaces of the apps that are still there.
LEMMA InterfacesKept ==
  ASSUME TypeOK, KeepInv, NEW fault, GetAppStats(fault), monitored' = monitored, app' \subseteq Apps
  PROVE  /\ witnessed \cap app' \subseteq WithInterfaces'
         /\ ~monitored' \/ app' = {} => stats' = NoStats
<1>1. /\ ~monitored' \/ app' = {} => stats' = NoStats
      /\ monitored' /\ app' # {} =>
           stats' \in {stats, Pruned(Processed(stats), app'), Pruned(stats, app')}
  BY DEF GetAppStats
<1>2. ASSUME NEW a \in witnessed \cap app' PROVE a \in WithInterfaces'
  <2>1. a \in Apps /\ stats[a] \in {"live", "stale"}
    BY DEF KeepInv, WithInterfaces
  <2>2. monitored' /\ app' # {}
    <3>1. stats # NoStats
      BY <2>1 DEF NoStats
    <3> QED BY <3>1 DEF KeepInv
  <2>3. CASE stats' = Pruned(Processed(stats), app')
    <3>1. stats'[a] = IF apps[a] = "absent" THEN stats[a] ELSE Upserted(stats[a], apps[a] = "running")
      BY <2>1, <2>3 DEF Pruned, Processed
    <3> QED BY <2>1, <3>1 DEF Upserted, WithInterfaces
  <2>4. CASE stats' = Pruned(stats, app')
    BY <2>1, <2>4 DEF Pruned, WithInterfaces
  <2>5. CASE stats' = stats
    BY <2>1, <2>5 DEF WithInterfaces
  <2> QED BY <1>1, <2>2, <2>3, <2>4, <2>5
<1> QED BY <1>1, <1>2

LEMMA FetchKeeps ==
  ASSUME TypeInv, KeepInv, NEW fault, Fetch(fault), monitored' = monitored
  PROVE  KeepInv'
<1>0. TypeOK /\ pools \subseteq Pools /\ app \subseteq Apps
  BY DEF TypeInv, TypeOK
<1>1. /\ GetPool(fault) /\ GetApp(fault) /\ GetAppStats(fault) /\ Remember(fault)
      /\ witnessed' = (witnessed \cap app') \cup {a \in Apps : stats'[a] = "live"}
  BY DEF Fetch
<1>2. app' \subseteq Apps
  BY <1>0, <1>1, StatsType
<1>3. witnessed \cap app' \subseteq WithInterfaces' /\ (~monitored' \/ app' = {} => stats' = NoStats)
  BY <1>0, <1>1, <1>2, InterfacesKept
<1>4. {a \in Apps : stats'[a] = "live"} \subseteq WithInterfaces'
  BY DEF WithInterfaces
<1>5. /\ answered'.pool = IF fault \in {"pool_fails", "pool_empty"} THEN answered.pool ELSE pools
      /\ answered'.app = IF fault \in {"app_fails", "app_empty"} THEN answered.app ELSE app'
  BY <1>1 DEF Remember
<1>6. answered'.pool \subseteq Pools /\ (pool' # {} => pool' = answered'.pool)
  BY <1>0, <1>1, <1>5 DEF GetPool, KeepInv
<1>7. answered'.app \subseteq Apps /\ (app' # {} => app' = answered'.app)
  BY <1>1, <1>2, <1>5 DEF GetApp, KeepInv
<1> QED BY <1>1, <1>3, <1>4, <1>6, <1>7 DEF KeepInv

LEMMA SetUpKeeps ==
  ASSUME TypeInv, KeepInv, SetUp
  PROVE  KeepInv'
<1>0. pools \subseteq Pools /\ app' \subseteq Apps
  BY SetUpDiscovers DEF TypeInv, TypeOK
<1>1. PICK fault : /\ pool' = IF fault \in {"pool_fails", "pool_empty"} THEN {} ELSE pools
                   /\ app' = IF fault \in {"app_fails", "app_empty"} THEN {}
                             ELSE {a \in Apps : apps[a] # "absent"}
                   /\ stats' = NoStats /\ Remember(fault) /\ witnessed' = {}
  BY DEF SetUp
<1>2. /\ answered'.pool = IF fault \in {"pool_fails", "pool_empty"} THEN answered.pool ELSE pools
      /\ answered'.app = IF fault \in {"app_fails", "app_empty"} THEN answered.app ELSE app'
  BY <1>1 DEF Remember
<1>3. answered'.pool \subseteq Pools /\ (pool' # {} => pool' = answered'.pool)
  BY <1>0, <1>1, <1>2 DEF KeepInv
<1>4. answered'.app \subseteq Apps /\ (app' # {} => app' = answered'.app)
  BY <1>0, <1>1, <1>2 DEF KeepInv
<1> QED BY <1>1, <1>3, <1>4 DEF KeepInv, NoStats

LEMMA KeepInit == Init => KeepInv
  BY DEF Init, KeepInv, NoStats

LEMMA KeepStep == TypeInv /\ KeepInv /\ [Next]_vars => KeepInv'
<1> SUFFICES ASSUME TypeInv, KeepInv, [Next]_vars PROVE KeepInv'
  OBVIOUS
<1>1. ASSUME UNCHANGED <<pool, app, stats, monitored, answered, witnessed>> PROVE KeepInv'
  BY <1>1 DEF KeepInv, WithInterfaces
<1>2. CASE SetUp
  BY <1>2, SetUpKeeps
<1>3. CASE SetUpDone
  BY <1>1, <1>3 DEF SetUpDone, statsVars, history
<1>4. CASE Unload
  BY <1>1, <1>4 DEF Unload, statsVars, history
<1>5. CASE Unloaded
  BY <1>1, <1>5 DEF Unloaded, StopAppStats, history
<1>6. ASSUME NEW fault, Poll(fault) PROVE KeepInv'
  <2>1. CASE fault = "lost"
    BY <1>1, <1>6, <2>1 DEF Poll, StopAppStats, history
  <2>2. CASE fault # "lost"
    BY <1>6, <2>2, FetchKeeps DEF Poll
  <2> QED BY <2>1, <2>2
<1>7. ASSUME NEW i, Step(i) PROVE KeepInv'
  BY <1>1, <1>7 DEF Step, statsVars, history
<1>8. CASE Change
  BY <1>1, <1>8 DEF Change, statsVars, history
<1>9. CASE UNCHANGED vars
  BY <1>1, <1>9 DEF vars, statsVars, history
<1> QED BY <1>2, <1>3, <1>4, <1>5, <1>6, <1>7, <1>8, <1>9 DEF Next, Batch

\* Only discovery deletes registry entries, and only those of orphans.
LEMMA OnlyOrphansGo ==
  ASSUME TypeInv, [Next]_vars
  PROVE  \A o \in registry \ registry' : o \in Objects /\ IsOrphan(o)'
<1>0. registry \subseteq Objects
  BY DEF TypeInv, TypeOK
<1>1. ASSUME registry \subseteq registry' PROVE registry \ registry' = {}
  BY <1>1
<1>2. CASE SetUp
  BY <1>0, <1>2, SetUpDiscovers, DiscoverIs
<1>3. ASSUME NEW fault, Poll(fault) PROVE \A o \in registry \ registry' : o \in Objects /\ IsOrphan(o)'
  BY <1>0, <1>3, PollDiscovers, DiscoverIs
<1>4. ASSUME NEW i, Step(i) PROVE registry \subseteq registry'
  BY <1>4 DEF Step, Take, Add, Finish, entities
<1>5. CASE SetUpDone \/ Unload \/ Unloaded \/ Change \/ UNCHANGED vars
  BY <1>5 DEF SetUpDone, Unload, Unloaded, Change, vars, entities
<1> QED BY <1>1, <1>2, <1>3, <1>4, <1>5 DEF Next, Batch

\* A registry entry, and with it the user's customisation, is only deleted when the last
\* real answer was that its object is gone, whatever answers failed or came back empty;
\* a network sensor whose interfaces this coordinator has seen only goes with its app
\* (_cleanup_orphaned_entities, _stale_app_networks).
THEOREM EntriesKept == Spec => Kept
<1>1. Spec => []OrphansGone
  BY OrphansHold, KeepInit, KeepStep, TypeCorrect, PTL DEF Spec
<1>2. TypeInv /\ OrphansGone' /\ [Next]_vars =>
        [\A o \in registry \ registry' :
           CASE o.kind = "pool" -> o.of \notin answered'.pool
             [] o.kind = "app" -> o.of \notin answered'.app
             [] o.kind = "net" -> o.of \notin witnessed' \/ o.of \notin answered'.app]_vars
  <2> SUFFICES ASSUME TypeInv, OrphansGone', [Next]_vars, NEW o \in registry \ registry'
               PROVE  CASE o.kind = "pool" -> o.of \notin answered'.pool
                        [] o.kind = "app" -> o.of \notin answered'.app
                        [] o.kind = "net" -> o.of \notin witnessed' \/ o.of \notin answered'.app
    OBVIOUS
  <2> QED BY OnlyOrphansGo DEF OrphansGone, Gone
<1> QED BY <1>1, <1>2, TypeCorrect, PTL DEF Spec, Kept
=============================================================================
