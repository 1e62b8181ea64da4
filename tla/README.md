# A TLA+ development of the TrueNAS CE integration

This directory holds TLA+ modules that model `src/custom_components/truenas_ce`,
the Home Assistant integration for TrueNAS, TLC configurations that check them,
and proofs checked by TLAPS. The code is referred to as `file.py:line`, always
relative to that directory. `PROJECT.json` lists the runs, maps every definition
to the lines it models, and lists the hazards of the code (what is hard to test)
with the properties that watch them.

Contents: [the system](#the-system), [modules](#the-modules),
[runs](#the-runs), [bounds](#bounds), [fairness](#fairness),
[proofs](#the-proofs), [what was found](#what-was-found),
[what is not modelled](#what-is-not-modelled), [the plan](#the-plan).

## The system

One config entry is one TrueNAS server. The integration is a set of asyncio
tasks in one event loop: a task runs alone until it awaits something that
suspends it, and everything it read before may have changed after. All state
lives in memory, except the registries of Home Assistant (entities, devices),
the config entries, and the backup of a migration.

### Components

| Component (code) | State it keeps | Operations | Talks to |
|---|---|---|---|
| Pushed sources: pool, service, app, container, vm, alerts (`coordinator.py:636-650, 2079-2279`) | `_PushSourceState`: subscription id, event, consumer, breaker, refresh lock; `ds[source]` | poll, push flush, breaker trip, stop | API client, circuit breaker, consumer, unload |
| Push consumer and circuit breaker (`event_push.py`) | its task, the batch being collected; breach streak, when it opened | collect, flush, trip, stop; record, reset | queue of aiotruenas, callbacks of the coordinator |
| App upgrade tracking (`coordinator.py:2549-2738`) and app update entity (`update.py:186-646`) | per app: tracked job, its state, adopted marker, last ended job; per entity: `_data`, installs in flight, watches | install, track, adopt, look up, late watch, outcome, restart of the app, notification | TrueNAS jobs, polls and pushes of the app source, the listeners |
| System update job (`coordinator.py:1646-1800`, `update.py:75-185`) | job id, state, progress, throttle of the check | update check, install, job query | TrueNAS jobs, poll |
| Connection handling (`coordinator.py:944-1109`, `__init__.py:662-754`) | failing flag, error, reason, expected disconnect; marker in `hass.data` that outlives the coordinator | connect, note recovery, arm an expected disconnect | API client, entry set-up and retry |
| Poll cycle and endpoint health (`coordinator.py:1114-1319`) | failing jobs, denied jobs, stale endpoints | one refresh of everything, availability of a data path | every source, entities |
| App statistics (`coordinator.py:2743-3149`) | subscription id, failing flags, previous counters | subscribe, read, process, prune, stop | API client, app source, unload |
| API client (`api.py`) | client, closed flag, per-task last error | connect, query, subscribe, unsubscribe, events, close | aiotruenas |
| Entry lifecycle and services (`__init__.py`) | entry state, migrated units | set-up, unload, services, unit migration | all |
| Entity discovery (`entity.py:965-1171`) | tracked ids, entities being added | discover, add, remove what was added during an unload, availability | coordinator listeners, platforms |
| Orphans and identities (`entity.py:47-607, 904-962`, `__init__.py:252-443`, `coordinator.py:224-255`) | entity and device registries | rename legacy ids, remove orphans, choose a certificate's identity | poll's data |
| Adoption from the predecessor and rollback (`migration.py`, `repairs.py`) | persisted backup, both entries' entities | adopt, remap, finalise, roll back | registries, entry set-up |
| Buttons and task runs (`button.py`, `coordinator.py:884-939`) | scrub lock, optimistic state | scrub actions, run a task | poll's data, API client |
| Sensors, switches, flows, diagnostics, tables | none of their own | read `ds`, call a service | - |

### What is hard

* *Polls against pushes.* Both refresh the same data by a query; the answers may
  come back in any order, and a message may arrive while the last is flushed.
* *Cancellation.* A consumer is stopped at any await, also while it holds the
  source's lock, and also by its own callback.
* *Check, await, act.* A subscription is looked for, awaited and stored; a job is
  started, awaited and stored. Another task can do the same in between.
* *References that go stale.* A refresh replaces an app's dict; an entity keeps
  the old one until its listeners are called, and writes to it.
* *Silent loss.* A dropped connection ends queues without telling anybody; an
  upgrade of TrueNAS renames an event under a subscription that stays alive.
* *Restarts.* Jobs outlive Home Assistant and are adopted by the next one; a
  migration may be cut in two by a restart.
* *Time.* Breaker cooldowns, install timeouts, late watches, throttles.

### What makes each component correct

* Sources: what is shown never goes back; what a push announced is shown in the end;
  no consumer is left that nobody will stop; a lost or outdated subscription is
  replaced; with the breaker open the source polls, and later subscribes again.
* App upgrades: a job's end is recorded once; it is looked after by one task; its
  outcome is its own; the app is started again only after a failure; the entity
  does not stay in progress; a failure is notified.
* Connection: one error per outage and cause, also over set-up retries; a
  requested outage is no error; a recovery is reported once, after a failure.
* System update: it is not shown in progress for ever, not even when TrueNAS
  forgets its job over the reboot.
* Entities: nothing is left on a platform that is gone, passes add nothing twice,
  live entities are not removed, and what is there gets an entity.
* Identities: an entity, and the history recorded under its id, is never given to
  another object, in whatever order old ids are renamed.
* Adoption: every id taken from the predecessor can be given back, whenever Home
  Assistant stops; the two integrations never run together on adopted entities; a
  rollback restores what the records hold.
* Buttons: a failure is told to whom it belongs; an action is sent in the state it
  was checked against.

## The modules

### `CircuitBreaker`

The rate breaker of `event_push.py:67-116` as a value and functions on it. Time
is reduced to the one question the code asks: is the cooldown over (`cooled`).

### `PushSource` (the core)

One pushed source. The actors are asyncio tasks: `Polls` (any task in a
coordinator refresh), one consumer per subscription in `Subs`, and the unload.
What a task does between two suspensions is one action; `pc` says where it is
suspended.

| Variables | Code |
|---|---|
| `subId event consumer breaker lock` | `_PushSourceState` (`coordinator.py:636`) |
| `held` | `SubscriptionPushConsumer._task is not None` |
| `view` | which version of the server's data `ds[source]` shows |
| `conn closed live` | `api.connected()`, `api._closed`, `is_subscribed` |
| `msgs ended` | a subscription's queue: messages, and the terminator |
| `srv topic used` | the server: version of the data, event name, ids given out |
| `pc arg want ans ending` | locals of the suspended tasks |
| `owed` | ghost: the newest version a consumer was told of |
| `failed` | ghost: the consumers for which a query has failed without raising |

| Actions | Code |
|---|---|
| `PollStart AcquireLock Answer PollRefreshed PollRaised` | `get_<source>`, `_refresh_locked`, `_refresh_<source>` |
| `Ensure Subscribed SubscribeFailed Adopt` | `_ensure_push_subscription` |
| `StopBegin AwaitStopped Forget Unsubscribed` | `_stop_push_subscription`, `consumer.stop`, `unsubscribe_events` |
| `Collect CollectEnd Flushed FlushRaised Cancelled` | `SubscriptionPushConsumer._run` with the source's `flush` and `on_trip` |
| `UnloadStop UnloadClose` | `async_unload_entry` |
| `Change Drop Upgrade Cooldown` | environment |

Parameters select the variant of the source: `Locked = FALSE` is alerts, the one
source refreshed without a lock; `OldEvent # NewEvent` is the containers, whose
topic depends on the TrueNAS version. Two parameters are assumptions about code
that is not here. `InOrder`: replies resume their callers in the order of the
calls; without it a breaker trip whose unsubscribe is answered late clears the
handle of the subscription a poll has made meanwhile. `UnsubEnds`: closing the
client ends the event stream of a subscription; without it a poll in flight
during the unload leaves a consumer waiting for ever.

`is_subscribed` reads a table of the client and does not suspend. The branch of a
group that is not monitored is left out: a change of the options reloads the
entry.

### `ForwardView` (abstract)

What a source promises entities: the data shown is some version the server has
had, and it never goes back. `PushSource` implements it by the identity mapping
of `srv` and `view`, which is proved for every locked source.

### `AppUpgrade`

One app's upgrades: TrueNAS's jobs, `coordinator.ds["app"][uid]` (`cur`), the
dict the entity holds if a refresh has replaced that (`old`, `stale`), the
refreshes, and three kinds of task per job: the install call that started it, the
late watch of a job started here ("own"), and the watch of a job adopted after a
restart ("adopted").

| Actions | Code |
|---|---|
| `RefreshStart Replace AdoptJobs AdoptFailed JobsAsked JobsAnswered JobsUnavailable Notify` | `_refresh_app`, `_adopt_running_app_upgrade_jobs`, `_refresh_app_update_jobs`, `async_refresh_app_update_job`, listeners |
| `OtherPush` | any other source's `async_set_updated_data` |
| `InstallCall UpgradeAccepted UpgradeRefused StoreJob TrackAsked TrackAnswered TrackLost TrackTimeout` | `async_install`, `_async_install_upgrade`, `_async_track_upgrade_job` |
| `WatchFinished WatchTimeout` | `_async_watch_late_upgrade` |
| `Resolve Act AskInstance InstanceStopped NotifyFailed` | `_async_resolve_untracked_job`, `_async_handle_upgrade_outcome`, `_async_restart_after_failed_upgrade` |
| `Restart`, `ForeignUpgrade JobEnds AppChanges JobForgotten` | environment |

A query is two steps, the answer and what is done with it, since jobs end and
dicts are replaced between them. Abstractions: WAITING and RUNNING are one active
state; of the app's states only RUNNING and STOPPED are told apart; an app that
is removed during its upgrade is not modelled; a second watch of the same adopted
job does what the first does. `OneInstall` assumes that a user does not call
install while a call is awaiting TrueNAS (Home Assistant refuses it only once the
job is stored). `Overtaken = FALSE` assumes that the reply to `app.upgrade` and
the adoption's answer are not outdated by the time they are acted on; the run
`app_upgrade_restart` drops this and shows what then happens.

Some things were found not to hold, and are not claimed. The install loop
(`update.py:639-646`) does not compare job ids: if its job is forgotten and
another adopted meanwhile, it takes that job's outcome, so `WatchOutcomeIsOwn`
speaks of watches only. With `Overtaken`, an outdated adoption answer tracks an
ended job again, whose end is then recorded twice. A late watch compares with a
dict that may be stale, so that it may overwrite a newer job's notification.

### `Connection`

How one entry's coordinator connects, and which failures it logs as errors.
Refreshes call `_async_ensure_connected`; the coordinator is thrown away and made
again whenever a set-up is retried, and learns what was logged from the marker in
`hass.data`.

| Variables | Code |
|---|---|
| `marker` | `hass.data[...]`: fingerprint and error of the outage logged last |
| `target host` | `config_entry.data` now, and when the API was made |
| `entry reauth` | state of the config entry; a reauth flow is open |
| `error` | `_connection_failing_error` (`_connection_failing`: it is not None) |
| `expected exp` | a requested disconnect, and the one a refresh has consumed |
| `pc queue` | where a refresh is suspended, and the order of the attempts |
| `line` | what the last step logged |

| Actions | Code |
|---|---|
| `EnsureConnected Connected ConnectFailed ConnectRaised CycleEnds` | `_async_ensure_connected` up to its await, and after it; the rest of the cycle |
| `NoteExpected GraceEnds` | `note_expected_disconnect`, the end of its grace period |
| `Setup Unload Reconfigure` | `async_setup_entry`, `async_unload_entry`, the reconfigure and reauth flows |
| `ReachChanges Drop ConnectElsewhere Restart` | environment |

Left out: the wording, the reason of a requested disconnect, and what `connect`
does inside. A loaded entry is unloaded between refreshes. A refused key lets no
further poll be scheduled. Two parameters are assumptions. `InOrder`: the client
makes one attempt at a time; without it the failure of an overlapping refresh is
logged as an error while another knows that the disconnect was requested.
`ReconfigureWaits`: the entry is not reconfigured while its set-up awaits the
connection; without it `_set_connection_failing` stores the old target's error
under the new fingerprint (`coordinator.py:1047`), and `MarkerAgrees` fails. An
exception out of `connect` consumes a request without a word; no property says
otherwise.

### `OutageLog` (abstract)

What the log promises of outages: each cause of each target is an error once,
what the user asked for is none, a recovery is reported of a failure only.
`Connection` implements it with `told` mapped to the marker.

### `PollCycle`

One loaded entry's refreshes and what Home Assistant shows of them. A data path
is `Sys` (asked for first, its hostname is essential), `Pool` (asked for last), or
one of `Gathered` (asked for at once). `Refreshers` are the scheduled poll and
direct refreshes; the coordinator's base class, which is Home Assistant's, is
modelled by what it does around `_async_update_data`: remember
`last_update_success` (`before`), run, schedule the next poll, and call the
listeners unless a failure follows a failure.

| Variables | Code |
|---|---|
| `ok timer before` | `last_update_success`, the scheduled refresh, the local of `_async_refresh` |
| `failing stale hostname` | `_job_failing`; `stale_endpoints`, `_system_info_stale`, `_interface_stale`; `ds["system_info"]["hostname"]` is known |
| `due orphans` | the 12 h throttle, `orphaned_statistics` |
| `flushes` | pushes whose query is under way |
| `pc todo` | where a refresh is suspended, which jobs have not ended |
| `shown` | what entities have last written as available |
| `checked` | ghost: an update check has succeeded in the last 12 hours |

| Actions | Code |
|---|---|
| `Begin Connect First Job PoolJob Check Detect` | `_async_update_data` between its awaits |
| `FlushAsked FlushEnds` | a push and its `async_set_updated_data` |
| `ClearStatistics OptimisticState` | the clear-statistics button, `set_optimistic_running` |
| `ReachChanges FaultChanges Drop ConnectElsewhere Tick TwelveHours` | environment |

A refresh that a drop meets half-way goes on: later jobs fail, the pools and the
update check are skipped. Left out: a refused key (`Connection` has it), which
privilege a job lacks, the graphs of `get_systemstats`, and the statistics of
the apps, which are subscribed to last and have a path of their own (`AppStats`).
`Overlap = FALSE` assumes that refreshes, and what reports success without one, do
not overlap; what happens otherwise is told [below](#what-was-found).

The clear-statistics button shows the entities as available even in an outage,
until the next poll. `OutageShown` tolerates that, since each press needs
orphans that only a successful poll finds. A fault of the pools may stay unseen
while the connection comes and goes: the poll skips `get_pool` when it has no
connection, and succeeds if another task has connected before its end. So
`FaultShown` asks for TrueNAS to stay reachable.

### `Migration`

The adoption of the predecessor integration (`truenas`), the poll's repair issues
about it and the rollback, over an entity registry that maps ids to entities.
Recorded history belongs to the entity id, so the question is who holds which id.

| Variables | Code |
|---|---|
| `pc data fresh` | where `async_setup_entry` is; `config_entry.data` (`MIGRATION_DONE`, records, whether a legacy entry is named); the records returned by `async_adopt_legacy_entities` |
| `legacy files` | the predecessor's config entry (gone, enabled, disabled; running), its code (installed, known to the loader) |
| `reg disk` | the entity registry in memory and as written to `.storage` |
| `snapshots unsaved` | the backups, and whether writing one has failed |
| `known issues` | `_legacy_code_installed`; open repair issues |
| `task held` | the rollback and the records it has read |

| Actions | Code |
|---|---|
| `AddEntry Reload NothingToAdopt DisableLegacy AbortAdoption Collect WriteBackup FreeAndPersist` | `async_setup_entry` up to the platforms, `async_adopt_legacy_entities` |
| `ForwardPlatforms ForwardFails Finalize Discover` | the platforms, `finalize_legacy_adoption`, later discovery |
| `Poll PressRollback IgnoreOffer ConfirmRollback ConfirmOrphaned` | the poll's issues, the rollback button, the repair flows |
| `RollbackCheck RemoveEntry EnableLegacy RemoveBackups` | `async_rollback_to_legacy` between its awaits |
| `LegacyDiscovers DeleteLegacy Uninstall WriteRegistry Crash` | the predecessor, the user, HACS, Home Assistant |

`RemapAndRestore` is `_remap_and_restore` as a function: park every entity that is not
on its target on a temporary id, then move each to its target if that is free. Home
Assistant writes config entries within a second and registries within ten; the model
writes the first at once and the second at any time later, so a crash may come back to
an older registry than its config entry, never to a newer one. One predecessor's
entry; one rollback at a time; the entry is removed by the rollback only. Overrides of
devices and the result's notification are left out; a customisation stands for all
overrides of an entity. `Outcomes = {TRUE}` assumes that the predecessor comes up when
it is enabled; the run `rollback_unready` drops this.

### `AppStats`, `EntityLifecycle`

`AppStats` is what a poll makes of `app.stats`: subscribe again if need be, read,
keep the interfaces of stopped apps as stale stubs, prune. `EntityLifecycle`
extends it with discovery and removal: each set-up makes a coordinator and
platforms of its own (`gen`), an entity id is held by one of them (`holder`).

| Variables | Code |
|---|---|
| `sub app stats monitored` | `_app_stats_sub_id`, `ds["app"]`, `ds["app_stats"]`, the option for the containers group |
| `entry gen runtime ok` | `ConfigEntryState`, the coordinators made, `runtime_data`, `last_update_success` |
| `pool` | `ds["pool"]`, for all that is discovered under the lock |
| `holder registry` | the live entities of the platforms, the entity registry |
| `tasks` | discovery passes waiting for or holding `add_lock`, and batches of statistics sensors, which take no lock |
| `answered witnessed` | history: the last real answers, and which interfaces were seen |

| Actions | Code |
|---|---|
| `Poll` | `_async_update_data` (`Fetch`), then `_cleanup_orphaned_entities` and the listeners (`Discover`) |
| `Step`: `Take Add Finish` | `async_update_controller`, `_async_add_app_stats_sensors`, `remove_entities_added_during_unload` |
| `SetUp SetUpDone Unload Unloaded` | `async_setup_entry`, `async_unload_entry`; Home Assistant resets the platforms and may cancel an add |
| `Change` | environment |

An unload does not end the tasks under way: Home Assistant waits some seconds for
those of the entry, and what lasts longer goes on beside the next set-up. An add may
also be cancelled half-way (`Cancellable`), for which the code has its `finally`
clauses. Only passes take the lock; a refresh during an add makes the same batch of
statistics sensors again, and Home Assistant ignores the entities of the second one.

Abstractions: a poll is one step; the reset of the platforms is one step; a failed
unload, `data_exclude` and entities the user disabled are not modelled; TrueNAS
sends one sample in each poll interval, or it is late.

### `SystemUpdate`, `UserActions`

`SystemUpdate` holds what `ds["system_info"]` says of the update of TrueNAS and
its job. `UserActions` extends it with the scrub buttons of one pool, the run
buttons of tasks, the installation, and the one API they share.

| Variables | Code |
|---|---|
| `jobid state available` | `update_jobid`, `update_state`, `update_available` |
| `lock` | `scrub_lock` |
| `pc button told` | the press's task and how it ended: done, refused, or whose error it was told |
| `error` | `_CALL_ERRORS` of `api.py`, by task |
| `marked` | the optimistic `RUNNING` |
| `job pending scan` | TrueNAS |
| `answered moved` | history: the press's call has succeeded; TrueNAS has changed the scan since the check |

| Actions | Code |
|---|---|
| `Press Acquire Check Send Reread` | `async_press`, `_send_scrub_action`, `_refresh_pools`, `async_run_task`, `TrueNASUpdate.async_install` |
| `PollStart PollJob PollChecksUpdates PollEnds` | `get_systeminfo` with `_handle_update_job`, the rest of a poll, `get_updatecheck` |
| `ScanChanges UpdateGoesOn` | environment |

A call is taken or not, and answered or not: it may be taken and its answer lost.
Polls do not overlap here (`PollCycle` has that), and `ds["pool"]` needs no
variable since it is looked at right after it has been read.

### `UniqueIds`

The ids by which Home Assistant knows an entity from one start to the next, and
`migrate_entry_identity_namespace` and `migrate_legacy_unique_ids`, which rename
those of earlier versions. `registry` maps each id to the object whose history is
recorded under it. A certificate's identity is its common name, unless that has
ever been shared (`poisoned`), then its name; other objects are known by name. An
earlier version may have registered an object under any of its forms, before the
upgrade or after a downgrade (`EarlierVersion`).

| Actions | Code |
|---|---|
| `Start MoveNamespace NamespaceMoved Rename SetUpDone` | `async_setup_entry` and the loops of the two migrations, one registry entry a step, in any order |
| `Poll` | `get_certificates`, cleanup and discovery |
| `Stop EarlierVersion Change` | environment |

Nothing keeps a certificate from being named as another's common name. The properties
are claimed of objects that no other certificate shown can be taken for (`Apart`); that
is every dataset, and every certificate whose name and common name are not another's
name or common name, in any format. What happens otherwise is told
[below](#what-was-found); the run has such certificates, and without `Apart` it violates
both properties. Answers are real (`EntityLifecycle` has the failed
ones), the formats are any idempotent functions, entities whose reference is made
of two count as plain ones, and certificates registered under a *slug* of their name
are left out.

## The runs

| Run | Question and answer |
|---|---|
| `push_concurrent` | Two polls and two consumers refresh a locked source; replies come in any order. `ImplementsForwardView`: nothing older is written over what is shown, also when the holder of the lock is cancelled. `PushNotLost`: a waiting consumer has shown all it was told of, unless its last query failed without raising. |
| `push_sequential` | One poll at a time, drops, trips, a TrueNAS upgrade, the unload. `NoOrphanConsumer`, and the liveness of the subscription: `UnloadEndsConsumers`, `Resubscribes`, `TopicFollows`. `CatchesUp`: what no push has shown, e.g. since its batch tripped the breaker, a poll shows. |
| `app_upgrade` | Two jobs of one app, started here or in TrueNAS: `WatchOutcomeIsOwn`, `EndRecordedOnce`, `LookedAfterOnce`. |
| `app_upgrade_live` | One job, one restart of Home Assistant: `InProgressEnds`, `FailureNotified`. |
| `app_upgrade_restart` | Violation: if a refresh overtakes the reply to `app.upgrade`, an app is started although its upgrade has not failed. |
| `connection` | Two refreshes, two targets, two causes, retries and requests. `ImplementsOutageLog`: each cause is an error once, over all recreations; `MarkerAgrees`; `RequestedIsNoError`; `OutageEnds`: a recovery is noticed, whoever has reconnected. |
| `poll_cycle` | `ShownIsAvailable`: between refreshes what is shown is what is available. `FaultShown`, `OutageShown`, `RecoveryShown`: what lasts comes through. `UpdateChecked`: a failed update check is repeated. |
| `migration` | Two entities with a crash between any two steps. `HistoryKept`: an id that was taken from the predecessor is known to the registry, the records or a snapshot. `Reclaimed`: an adoption that ends has put every entity on its id, also when ids are exchanged. `RollbackRestores`: so has a rollback. `NeverBothEnabled`: no set-up or rollback leaves both integrations enabled on adopted entities. |
| `rollback_unready` | Violation: if the predecessor does not come up when it is enabled, `RollbackRestores` fails. |
| `entities` | Two set-ups, one failed or empty answer, batches under way. `NoneLeftBehind`: an entity of a platform that is gone belongs to a batch that will remove it. `AddedOnce`: the lock keeps passes apart; it says nothing of batches, which take none. `Kept`: no failed or empty answer deletes an entity, nor does stopping an app. `Served`: what stays gets an entity for good. |
| `actions` | Two presses beside a poll. `OwnOutcome`: what a press is told is of its own call. `ActsOnCheckedState`: a checked action is sent in a state it was checked against, unless TrueNAS itself has changed that. `UpdateEnds`: an update does not stay in progress. |
| `unique_ids` | Four certificates, of which two share their common name, two have the same name at different times and one is named as others' common name; two datasets that differ in case; up to two old entries. `MigrationKeepsHistory`: the migration gives the entity of an object standing apart to that object or leaves it, and removes it as a duplicate only beside one that has its current id and keeps it. `StaysIdentified`: while the entry is loaded such an object keeps its entity, unless its common name comes to be shared. |

Every property of a passing run has a mutant, a plausible slip of the code it is
about (a dropped comparison, a forgotten reset, a missing stop), under which TLC
finds the property violated.

`NoOrphanConsumer` is claimed while the entry is loaded (`Loaded`): after that the API
is closed, which ends consumers by itself; what is claimed then is
`UnloadEndsConsumers`. Deadlock is not checked where the system may stop: in the push
runs (the entry is unloaded and the ids are used up), the migration (rolled back),
`entities` (the bound on set-ups) and `unique_ids` (the entry may be left alone).

## Bounds

* `MaxSrv`: changes of the server's data. Two suffice for an older answer to be
  overtaken by a newer one; the lifecycle run needs one to wake a consumer.
* `MaxMsgs = 1`: messages in a queue. The consumer drains what is there, so more
  messages differ only in the size of the batch, which `Threshold` 0 and 1 make
  a breach or not. Consumers flush in `push_concurrent` and trip in
  `push_sequential`.
* `Subs`: subscription ids. Two give one subscription and its successor, the
  smallest number with an orphan; in `push_concurrent` also two live consumers.
* `Threshold`, `Consecutive`: a breaker that trips at the first batch, or never,
  in the given queue size; the streak is counted in `CircuitBreaker`.
* `MaxJobs`: two jobs are needed to mix up outcomes and records; liveness is about
  one job and its watches.
* `MaxRestarts`: one restart gives adoption; a second repeats the first.
* `Refreshers`: one, the poll. The push of the app runs the same code under the
  same lock, and `OtherPush` calls the listeners at any time.
* `Connection`: two targets and two causes are the least with a change of either,
  two refreshes the least that overlap; nothing in it is counted.
* `Gathered`, `Pushed`: one path each. The jobs share nothing but `_run_job`, the
  three roles differ only in when and whether they are asked.
* `MaxFaults`: one path at a time; two would show the same, path by path.
* `Interval`: ticks between polls, one where only the order matters, two where a
  push must come between.
* `Migration`: two objects are the least that exchange ids; four names leave each
  integration two more to choose from. `NamesAssumption` and `TempsAssumption` are
  what the code takes for granted: there is an id for each entity, and
  `_temp_entity_id` finds a free one. Two integrations hold at most one id each of
  every object, so five temporary ones are enough for two objects. Crashes,
  reloads, rollbacks and re-adoptions are not counted.
* `MaxGen = 2`: an entity left behind by one set-up meets the next.
  `MaxFaults = 1`: an answer fails, is empty or late once; `Kept` looks at single
  steps, so a second fault would be met by the same states. `MaxTasks = 2`: a pass
  and a batch, or two passes, at once; a poll that would start more waits, so that two
  alike batches of statistics are not in the run. The theorems are about any number.
* `Presses`: two presses are the least that compete for the lock and the error;
  one press of three would wait like the second.
* `MaxOld = 2`: an earlier version adds entries up to two in all, which is enough for
  an id to be needed by two. Certificates: the least with a shared common name, a name
  taken over, and a name that is a common name, so that both properties need `Apart`.

The proofs do not depend on any of these.

## Fairness

* Weak fairness of every task's next step: asyncio runs what is ready, and
  requests are answered or fail after aiotruenas's timeout.
* Strong fairness of `AcquireLock`: `asyncio.Lock` wakes waiters first come,
  first served.
* Weak fairness of `Cooldown`: it is a deadline on a clock.
* `HealthyServer` (for `Resubscribes`, `CatchesUp` and what depends on subscribing):
  strong fairness of a query that is answered (`Answer`), of a poll that shows what was
  answered (`PollShows`) and of a subscription that succeeds (`Subscribed`), i.e. the
  server does not fail one of them every single time.
* `AppUpgrade`: upgrade jobs end, and the poll's lookup of a tracked job is not
  unavailable for ever (strong); timeouts run out.
* `Connection`: a set-up is retried and refreshes come back (Home Assistant's
  timers), unless the key was refused; strong fairness of `Connected`, i.e. the
  client does not raise for ever at a server that can be reached.
* `PollCycle`: time passes, tasks run, a dead connection is noticed (keepalive),
  an answer to a push's query comes; strong fairness of a successful update check.
  Nobody is bound to press a button or to refresh directly, and `FaultShown` and
  `RecoveryShown` are about systems whose pushes end, since each postpones the
  poll.

* `EntityLifecycle`: Home Assistant runs its tasks, finishes set-ups and unloads
  (weak); polls go on and find no fault once the faults are used up (weak, `Poll`).
* `UserActions`: polls go on; again and again one keeps its connection and one
  checks for updates (strong: neither fails every single time); an update job on
  TrueNAS ends. Nobody is bound to press anything.

Nothing is assumed of connection drops, changes of the data, upgrades, an unload
or a restart: they may never happen.

## The proofs

Checked by TLAPS 1.4.5 with the backends Z3, Zenon and LS4. Every invariant and
every step property that a passing run checks is also a theorem, for all values of
the constants that satisfy the assumptions of the module. Where the
statement has a hypothesis besides, it is one that the run makes too, by its
constants: `Locked`, `InOrder`, one poll, `ReconfigureWaits`, `~Overlap`,
`~Overtaken`, `OneInstall`, `Outcomes`. [The modules](#the-modules) say what the
code does without it.

`PushSource_proofs`. All theorems hold for any sets of polls and subscriptions and
any bounds, from `PushSourceAssumption` and `BreakerAssumption`.

1. `TypeCorrect`: `Spec => []TypeOK`. One lemma per group of actions; the stop of
   a subscription, which polls, consumers and the unload share, has its own.
   `TypeOK` carries one conjunct that is not a type: a poll about to adopt a
   subscription holds its id.
2. `OneRefresh`, `AnswersAreFresh`, `LockedMovesForward`,
   `LockedImplementsForwardView` (for `Locked`). The inductive invariant is
   `RefreshInv == LockInv /\ AnswerInv`. Neither part is inductive alone for what
   is wanted: that an answer under way is not older than what is shown is kept by
   a write only if nobody else is between query and write, which is `LockInv`.
   `StopStartsNoQuery` and `QuietStep` dispose of the steps that begin no query,
   `OutcomeStep` is the write itself, and `RefreshStep` shows at once that the
   invariant is kept and that the step is one of `ForwardView` or a stutter.
3. `NoPushLost`: `Spec => []PushNotLost` (for `Locked`), with the exception in its
   statement: a consumer for which a query has failed without raising may owe what it
   was told of until a poll shows it. Two more invariants are needed. `DebtInv`: what
   any other consumer was told of is in its queue, in the answer it is about to write,
   or shown. `AdoptInv`: a subscription that a poll is about to
   adopt has a consumer that has never run and that no other poll will start;
   without it, adopting could put a consumer with a debt back to waiting.
4. `NeverOrphaned`: `Spec => []NoOrphanConsumer` (for one poll at a time and
   `InOrder`). While the source is loaded it is `Attached`: handle and consumer are
   set and cleared together, who is held is the consumer, who runs is held, and
   while a stop is in its second await nobody is held. With two polls this fails at
   `Adopt`, where the second overwrites the first's consumer
   ([what was found](#what-was-found)).

`Connection_proofs`, for any targets, causes and refreshes.

1. `TypeCorrect`.
2. `MarkerHolds` (for `ReconfigureWaits`). `MarkerAgrees` alone is not inductive:
   a failure is stored under the entry's target, which must be the one the
   coordinator was made for. `HostInv` says so, and that a set-up has only one
   refresh, whose end is the end of the set-up.
3. `RequestedIsQuiet` (for `InOrder`). `RequestInv`: the refresh that has consumed
   a request is first in the queue, so no other can end before it.
4. `LogImplemented` (for `ReconfigureWaits`), from the invariant of 2: each step is
   one of `OutageLog` or says nothing. That the marker agrees with the flag is what
   makes a failure after a set-up retry "still failing" and not news.

`PollCycle_proofs`, for any paths, intervals and refreshers.

1. `TypeCorrect`.
2. `ShownCorrectly` (for `~Overlap`). The inductive invariant `AloneInv` adds to
   `ShownIsAvailable` that there is one refresh at a time, that what it remembers
   of `last_update_success` is still so, and that nothing is shown after a
   failure; that a failure after a failure calls no listeners is right only then.

`Migration_proofs`, for any entities, ids and customisations.

1. `NeverBoth`. The invariant (`HandoverInv`) says that an adoption under way has
   disabled the predecessor's entry, and that the rollback enables it only after its
   own entry, with what that has adopted, is gone; that is the order of the two in
   `async_rollback_to_legacy`, also when a crash comes between them.
2. `TypesKept`: in particular an entity has one id (`Good`), through both passes of
   `_remap_and_restore`. The passes find a free temporary id since each integration
   has at most one id of each object (`FreeTemp`, by counting).
3. `HistoryIsKept`. `PhaseInv` says which phase of the adoption or the rollback has
   what in the entry's data; `KnownInv` says who knows the ids in each: until the
   adoption is persisted, the registry *and* what is written of it (so that a crash
   may come), then the records, and a snapshot that outlives the entry. Without the
   written registry it would not be inductive.
4. `RemapReturns`, on the algorithm: if the records are of different entities on
   different, not temporary ids, then after `_remap_and_restore` every entity that
   is found is on its id, however the ids are permuted and in whatever order the
   pairs come, or an entity that has no record holds the id; and no entity without a
   record is touched. `Parked` and `Placed` say where the two passes are after each
   pair. What carries it: after the first pass an entity of a record is on its own
   id or on a temporary one (`Docked`), so none is in another's way.
5. `AllReclaimed` and `RollbackGivesBack` rest on 4. `RecordInv` and `PlainInv`
   establish its premises at every step: records are of different ids and carry the
   user's customisation, and nothing of this integration is customised before its
   adoption ends; also after a crash. `RestoreInv` adds, for the rollback, that
   nothing of this integration is in the way when the predecessor is enabled, and
   that its entities then keep their ids until the backups are removed. The second
   theorem assumes `\A up \in Outcomes : up`, that the predecessor comes up.

`AppUpgrade_proofs`, for any number of jobs, restarts and refreshes, and any set of
outcomes.

1. `TypeCorrect`, `TypesKept` (the type invariant, which no run checks).
   `AskInv`: only jobs that have been are asked about.
2. `OutcomesAreOwn`, with no assumption on overtaken replies. `JobInv`: an answer
   that is not "active" is about a job that has ended, so and not otherwise.
   `OutcomeInv`: what either dict, the coordinator's or the replaced one an entity
   holds, records of an ended job is how it ended.
3. `EndsRecordedOnce` (for `~Overtaken`). `EndInv`: only active jobs are adopted or
   stored as the app's job, so that one whose end was recorded does not come back.
4. `OneLooksAfter` (for `OneInstall` and `~Overtaken`). `LookInv`: an active job that
   was installed from here is the tracked one *in both dicts* and not marked as
   adopted. So no watch takes it for an adopted one, and no second install begins.

`EntityLifecycle_proofs`, for any number of set-ups, tasks and faults.

1. `TypeCorrect`, `TypesKept`.
2. `NoneTwice`, about the passes that take the lock. `AddInv`: at most one pass of a
   coordinator has its lock (`OneHasLock`); a pass that waits has added nothing;
   passes add what their coordinator has not loaded, batches only statistics, which
   passes never add.
3. `NoneStays`: `NoneLeftBehind` is inductive with `AddInv`. The unload leaves the
   tasks to find out by themselves, and each of their steps, cancelled or not, keeps
   the others' (`RemoveLeaves`); those are the cases with the work in them.
4. `EntriesKept`. `KeepInv`: what the coordinator has of pools and apps is empty or
   the last real answer, and every interface it has seen is live or a stale stub.
   Hence (`OrphansHold`) only objects that are gone look like orphans.

`UserActions_proofs`, for any number of presses at a time.

1. `TypeCorrect`.
2. `OutcomeIsOwn`. `OwnInv` adds what a call under way has left in the mapping of
   errors: a task reads only what its own last call recorded, since each has a
   copy of its own; that a shared one would do is what the mutant refutes.
3. `ChecksHold`. `ActInv`: who is between check and action holds the lock
   (`LockHeld`), and the scan is still as checked or TrueNAS has changed it
   (`StillChecked`). A press that checks nothing takes the lock too, and that is
   what the second part needs.

`UniqueIds_proofs`, for any objects, formats and registry, from the assumptions of
the module: names are unique among what is there, and formats leave alone what they
have formatted. Of certificates nothing is assumed.

1. `TypeCorrect`.
2. `HistoriesKept`, about objects that stand `Apart`; that is in the statement and not
   an assumption. The inductive invariant says that what stands in the registry under
   an id has had that id, or is of an object that is gone or does not stand apart,
   under an id that another one has now (`FormsInv`), and that what a loop has yet to
   move is there (`TodoInv`). Two lemmas carry it. `NoChain`: no id such an object has
   now is ever renamed, since both formats leave alone what they have formatted, so
   that the reference is a candidate of its own and never the only one of another
   object. `RightName`: an id it may have had is renamed to the one it has now, or not
   at all. Without the first, the order in which the registry is gone through would
   decide who gets an id.
3. `Identified`: a poll changes an object's identity only by poisoning its common
   name, and nothing else has the identity of an object that stands apart.

Recursive functions (`Parking`, `Placing`) are reasoned about by induction on the
steps. The library's induction theorems take an operator as a parameter, which the
backends cannot instantiate, so `Migration_proofs` has its own, about sets and
functions: `LeastExists` (a set of numbers has a least one), `CountingTo` and
`FunctionBySteps`. For that reason these definitions are recursive functions and not
folds.

Only model-checked are the liveness properties: `UnloadEndsConsumers`, `Resubscribes`,
`TopicFollows`, `CatchesUp`, `InProgressEnds`, `FailureNotified`, `OutageEnds`,
`FaultShown`, `OutageShown`, `RecoveryShown`, `UpdateChecked`, `Served` and
`UpdateEnds`. Liveness under fairness, and ENABLED, are out of TLAPS's reach here.
`MCPushSource` and `MCUniqueIds` only add constants to the modules proved about.
`OneRefresh` and `AnswersAreFresh` are proved and have no run of their own:
`ImplementsForwardView` rests on them.

## What was found

Two runs end in a violation of what the repository says of the program.

* `update.py:339`: the job id is written to a dict that a refresh may have
  replaced, and a lookup that then says RUNNING is handled as a failure
  (`update.py:406` promises the contrary). Run `app_upgrade_restart`.
* `migration.py:697`: the rollback does not look at whether the predecessor has
  come up. If not, no entity is found to restore, and the backups are removed all
  the same (`docs/migration.md:119-122` promises the original ids, the
  customisations and the history). Run `rollback_unready`.

Others were met while modelling and are excluded by an assumption or by the wording
of a property. They have no run.

* `coordinator.py:2112`: two overlapping refreshes (the scheduled poll and a
  direct `async_refresh()`) both subscribe; the first one's consumer is orphaned
  although `event_push.py:129` asks for a 1:1 coupling.
* `coordinator.py:2190`: alerts are refreshed without the lock that the other
  sources take for exactly that reason (`coordinator.py:2164`): a slow poll
  overwrites what a push has shown.
* `event_push.py:210`: a flush whose query fails without raising counts as done. The
  push is lost, and what it announced is shown by the next poll or push, not before.
* `coordinator.py:1930` (and the other pushes): `async_set_updated_data`
  reschedules the poll, against "Polling never stops" (`README.md:333` of the
  repository): a source whose events come a little faster than the poll puts it off
  for ever.
* `coordinator.py:1930, 1535`: the same call during a refresh that began after a
  failure, and then fails too, leaves entities available on old data, which
  `entity.py:1197` sets out to prevent.
* `coordinator.py:1646-1681`: a first lookup of the update job that fails, or finds it
  WAITING, ends its tracking: the update is then never shown in progress. A job
  that TrueNAS has forgotten over the reboot stays RUNNING until the next update
  check, up to 12 hours; that check also overwrites the state in the middle of an
  update.
* `coordinator.py:3066`: the stale interfaces of a stopped app are in memory only.
  After a restart, or an answer that is empty for a moment, its network sensors are
  deleted, against the docstring's "the sensors survive".
* `sensor.py:128`: a refresh during an add makes the same batch of statistics sensors
  again; Home Assistant ignores the second one's entities, with an error in the log.
* The statistics sensors of apps stay when the containers group is no longer
  monitored, until other statistics make their kind live; when the last app is
  removed, its sensors are taken for a momentarily empty answer and stay.
* `coordinator.py:242-255`: the first time two certificates share a common name,
  the entity of the first moves from the common name to the name, and its history
  is orphaned; a restart forgets that the name was shared and moves it back.
* A certificate whose name is another's common name may lose its entity as a
  duplicate, depending on the order of the registry. A certificate registered under
  a slug that differs from its name is not found by any format and is lost. A
  dataset entry under the lowercased id, which is the current id of one of the two
  it may be of ("tank/Data", "tank/data"), stays and so becomes that one's, as
  `migrate_legacy_unique_ids` leaves what it cannot tell apart.
* `migration.py:708`: the snapshots are removed as soon as the ids are handed back in
  memory. A crash before the registry is written comes back to a predecessor with
  other ids and nothing to restore them from.

## What is not modelled

* Sensors, binary sensors and switches: reads of `ds` and single calls, no state.
  Their attributes, units and classes are data.
* The config and options flows: forms; each ends in one attempt to connect and one
  update of the entry, of which `Connection` has the effect.
* Device identifiers and their migration, empty devices, orphaned statistics, the
  migration of units and of the entry's version, and the services: single passes
  over a registry with nothing between their steps.
* What `connect` does inside (`api.py`): TLS, login, the classification of errors.
  `Connection` distinguishes its outcomes.
* The parser, diagnostics, translations and the tables of descriptions (data and
  wording), and `core_integrations/build_core_copy.py` (a script that rewrites
  sources).
* External, and modelled by how the code uses them: aiotruenas, the TrueNAS
  middleware, Home Assistant core, the predecessor integration.

## The plan

Everything the first plan named is modelled, except the parser and the forms, of
which nothing can be said that a unit test does not; and every safety property of
the runs is proved. What is left, in the order of its worth:

1. The safety halves of the liveness properties, e.g. that a source which is not
   subscribed has its breaker open, its connection down, or a poll that will try
   (`Resubscribes`), and that a tracked job is one that is looked up
   (`InProgressEnds`).
2. `CircuitBreaker`: that the functions trip after exactly `Consecutive` breaches in
   a row, for any thresholds.
3. Weaker hypotheses: `LookedAfterOnce` without `~Overtaken`, for jobs that are not
   adopted by an outdated answer.
