----------------------------- MODULE AppUpgrade -----------------------------
(* One app's update entity (update.py, TrueNASAppUpdate) and the upgrade-job *)
(* tracking of the coordinator it shares its data with.                      *)
(*                                                                           *)
(* Three kinds of task act on a job: the install call that started it, the   *)
(* late watch that call leaves behind when it times out, and the watch of a  *)
(* job adopted after a restart of Home Assistant.  Meanwhile polls and       *)
(* pushes refresh the app, each replacing the app's dict in coordinator.ds;  *)
(* the entity keeps the dict it had (_data) until its listeners are called.  *)
(*                                                                           *)
(* A query is answered in one step and its reply acted on in another, where  *)
(* another task may outdate what was answered.                               *)
EXTENDS Naturals, FiniteSets

CONSTANTS
    MaxJobs,        \* bound: upgrade jobs TrueNAS ever runs for the app
    MaxRestarts,    \* bound: restarts of Home Assistant
    Refreshers,     \* tasks that run _refresh_app (the poll, the app's push)
    OneInstall,     \* no second install call while one has not returned
    Overtaken       \* replies of app.upgrade and of the adoption's query may be
                    \* overtaken by a refresh, by the end of the job

ASSUME AppUpgradeAssumption ==
    /\ MaxJobs \in Nat /\ MaxRestarts \in Nat
    /\ OneInstall \in BOOLEAN /\ Overtaken \in BOOLEAN

Jobs == 1..MaxJobs
JobIds == 0..MaxJobs     \* 0 for none

\* Tasks acting on a job: <<job, "install">>, <<job, "own">> (the late watch of
\* a job started here) and <<job, "adopted">>.
Tasks == Jobs \X {"install", "own", "adopted"}
Watches == Jobs \X {"own", "adopted"}
Installs == Jobs \X {"install"}

\* Whoever asks core.get_jobs about the job the coordinator tracks.
Askers == Installs \cup Refreshers

ASSUME RefreshersAssumption == Refreshers \cap Installs = {}

VARIABLES
    \* TrueNAS
    job,        \* state of each upgrade job
    listed,     \* jobs core.get_jobs still returns
    app,        \* state of the app
    \* coordinator.ds["app"][uid], and the dict the entity holds instead when
    \* a refresh has replaced it since the listeners were last called
    cur, old, stale,
    loaded,     \* the entity exists
    restarts,
    \* the refreshes
    adoptedAll, \* _app_upgrade_jobs_adopted
    rpc,
    found,      \* answer to the adoption's core.get_jobs, on its way
    \* core.get_jobs about the tracked job: which job, and the answer
    asked, reply,
    \* the entity's tasks
    calling,    \* an install call awaits the reply to app.upgrade
    pc,
    got,        \* outcome a task is about to act on
    skip,       \* the watch must not restart the app
    \* what the user sees
    ended,      \* how often the end of a job was recorded
    note        \* job and verdict of the app's notification

server == <<job, listed, app>>
data == <<cur, old, stale>>
ha == <<loaded, restarts>>
refreshing == <<adoptedAll, rpc, found>>
lookups == <<asked, reply>>
tasks == <<calling, pc, got, skip>>
seen == <<ended, note>>
vars == <<server, data, ha, refreshing, lookups, tasks, seen>>

Active == "RUNNING"         \* APP_UPDATE_JOB_ACTIVE_STATES
Final == {"SUCCESS", "FAILED"}
AppStates == {"RUNNING", "STOPPED"}   \* all others are like either
\* An outcome: a job's state, "unknown" when the job is gone, "none" for none.
Outcomes == {"none", "unknown", Active} \cup Final
RefreshPCs == {"idle", "fetch", "adopt", "jobs", "asked", "rest"}
TaskPCs == {"none", "reply", "track", "asked", "resolve", "act", "instance",
            "start", "wait", "done", "gaveup"}

Dict == [shown: AppStates, jobid: JobIds, state: Outcomes \ {"none"},
         adopted: JobIds, ended: JobIds]

TypeOK ==
    /\ job \in [Jobs -> {"none", Active} \cup Final]
    /\ listed \subseteq Jobs /\ app \in AppStates
    /\ cur \in Dict /\ old \in Dict /\ stale \in BOOLEAN
    /\ loaded \in BOOLEAN /\ restarts \in 0..MaxRestarts
    /\ adoptedAll \in BOOLEAN /\ rpc \in [Refreshers -> RefreshPCs]
    /\ found \subseteq Jobs
    /\ asked \in [Askers -> JobIds] /\ reply \in [Askers -> Outcomes]
    /\ calling \in BOOLEAN /\ pc \in [Tasks -> TaskPCs]
    /\ got \in [Tasks -> Outcomes] /\ skip \in [Tasks -> BOOLEAN]
    /\ ended \in [Jobs -> Nat]
    /\ note \in [job: JobIds, verdict: {"none", "failed", "unknown"}]

\* _APP_UPDATE_JOB_DEFAULTS under a freshly read app.
FreshDict == [shown |-> "RUNNING", jobid |-> 0, state |-> "unknown",
              adopted |-> 0, ended |-> 0]

\* The memory of a Home Assistant that has just started.
Started ==
    [cur |-> FreshDict, rpc |-> [r \in Refreshers |-> "idle"],
     asked |-> [a \in Askers |-> 0], reply |-> [a \in Askers |-> "none"],
     pc |-> [t \in Tasks |-> "none"], got |-> [t \in Tasks |-> "none"],
     skip |-> [t \in Tasks |-> FALSE], note |-> [job |-> 0, verdict |-> "none"]]

Init ==
    /\ job = [j \in Jobs |-> "none"] /\ listed = {} /\ app = "RUNNING"
    /\ cur = Started.cur /\ old = Started.cur /\ stale = FALSE
    /\ loaded = FALSE /\ restarts = 0
    /\ adoptedAll = FALSE /\ rpc = Started.rpc /\ found = {}
    /\ asked = Started.asked /\ reply = Started.reply
    /\ calling = FALSE /\ pc = Started.pc /\ got = Started.got /\ skip = Started.skip
    /\ ended = [j \in Jobs |-> 0] /\ note = Started.note

ActiveJobs == {j \in Jobs : job[j] = Active}
NewJobs == {j \in Jobs : job[j] = "none" /\ \A k \in Jobs : k < j => job[k] # "none"}

-----------------------------------------------------------------------------
(* TrueNAS, and restarts of Home Assistant.                                  *)

\* An upgrade started in the TrueNAS UI.
ForeignUpgrade ==
    /\ \E j \in NewJobs :
          job' = [job EXCEPT ![j] = Active] /\ listed' = listed \cup {j}
    /\ UNCHANGED <<app, data, ha, refreshing, lookups, tasks, seen>>

\* TrueNAS runs the upgrades of an app one after the other, oldest first.
Runs(j) == job[j] = Active /\ \A k \in ActiveJobs : j <= k

JobEnds(j) ==
    /\ Runs(j)
    /\ Overtaken \/ (j \notin found /\ pc[<<j, "install">>] # "reply")
    /\ \/ job' = [job EXCEPT ![j] = "SUCCESS"] /\ app' = "RUNNING"
       \/ job' = [job EXCEPT ![j] = "FAILED"] /\ app' \in {app, "RUNNING", "STOPPED"}
    /\ UNCHANGED <<listed, data, ha, refreshing, lookups, tasks, seen>>

\* An upgrade stops and redeploys its app.
AppChanges ==
    /\ ActiveJobs # {}
    /\ app' \in AppStates \ {app}
    /\ UNCHANGED <<job, listed, data, ha, refreshing, lookups, tasks, seen>>

\* TrueNAS forgets a finished job.
JobForgotten(j) ==
    /\ j \in listed /\ job[j] \in Final
    /\ listed' = listed \ {j}
    /\ UNCHANGED <<job, app, data, ha, refreshing, lookups, tasks, seen>>

Restart ==
    /\ restarts < MaxRestarts
    /\ restarts' = restarts + 1 /\ loaded' = FALSE
    /\ cur' = Started.cur /\ old' = Started.cur /\ stale' = FALSE
    /\ adoptedAll' = FALSE /\ rpc' = Started.rpc /\ found' = {}
    /\ asked' = Started.asked /\ reply' = Started.reply
    /\ calling' = FALSE /\ pc' = Started.pc
    /\ got' = Started.got /\ skip' = Started.skip
    /\ note' = Started.note
    /\ UNCHANGED <<server, ended>>

-----------------------------------------------------------------------------
(* The entity's view of the app's dict, and the watch of an adopted job.     *)

\* The entity's _data.
entity == IF stale THEN old ELSE cur

\* Writing to _data, which is the coordinator's dict unless that was replaced.
WriteEntity(dict) ==
    \/ ~stale /\ cur' = dict /\ UNCHANGED <<old, stale>>
    \/ stale /\ old' = dict /\ UNCHANGED <<cur, stale>>

Busy(t) == pc[t] \notin {"none", "done", "gaveup"}
InFlight == {t \in Installs : Busy(t)}

\* The adopted job j is watched from now on; a second watch of a job does as
\* the first.
Watched(pcs, j) ==
    IF Busy(<<j, "adopted">>) THEN pcs ELSE [pcs EXCEPT ![<<j, "adopted">>] = "wait"]

\* _watch_adopted_upgrade on the dict the entity holds: while install calls
\* run the marker is left alone, else it is consumed and its job watched.
WatchAdopted(inFlight, pcs) ==
    IF entity.adopted # 0 /\ ~inFlight
    THEN /\ WriteEntity([entity EXCEPT !.adopted = 0])
         /\ pc' = Watched(pcs, entity.adopted)
    ELSE UNCHANGED data /\ pc' = pcs

\* Mutant: an adopted job is watched even while an install call runs.
ListenersCalledEagerly ==
    /\ stale' = FALSE /\ old' = Started.cur
    /\ IF cur.adopted # 0
       THEN /\ cur' = [cur EXCEPT !.adopted = 0]
            /\ pc' = Watched(pc, cur.adopted)
       ELSE UNCHANGED <<cur, pc>>

\* _handle_coordinator_update: the entity takes the coordinator's dict first.
ListenersCalled ==
    /\ stale' = FALSE /\ old' = Started.cur
    /\ IF cur.adopted # 0 /\ ~calling /\ InFlight = {}
       THEN /\ cur' = [cur EXCEPT !.adopted = 0]
            /\ pc' = Watched(pc, cur.adopted)
       ELSE UNCHANGED <<cur, pc>>

-----------------------------------------------------------------------------
(* Looking up the tracked job: async_refresh_app_update_job.                 *)

\* a asks about the job tracked now.  A query that fails changes nothing.
Ask(a) ==
    /\ cur.jobid # 0
    /\ asked' = [asked EXCEPT ![a] = cur.jobid]
    /\ LET answer == IF cur.jobid \in listed THEN job[cur.jobid] ELSE "unknown"
       IN reply' = [reply EXCEPT ![a] = answer]

\* _record_app_update_job, _reset_app_update_job.
Recorded(dict, s) ==
    IF s = Active THEN [dict EXCEPT !.state = s]
    ELSE [dict EXCEPT !.state = s, !.jobid = 0, !.ended = dict.jobid]

\* Mutant: the tracked job is not looked up again after the query.
StillTrackedBefore(a) == asked[a] # 0

\* Only the pass that still finds the job tracked records what it was told.
StillTracked(a) == cur.jobid = asked[a]

\* The reply to a is recorded.
Record(a) ==
    /\ IF StillTracked(a)
       THEN /\ cur' = Recorded(cur, reply[a])
            /\ ended' = IF reply[a] = Active THEN ended
                        ELSE [ended EXCEPT ![asked[a]] = @ + 1]
       ELSE UNCHANGED <<cur, ended>>
    /\ asked' = [asked EXCEPT ![a] = 0] /\ reply' = [reply EXCEPT ![a] = "none"]

-----------------------------------------------------------------------------
(* A refresh of the app: _refresh_app under the source's lock, then the      *)
(* listeners.                                                                *)

LockFree == \A r \in Refreshers : rpc[r] \in {"idle", "rest"}

RefreshStart(r) ==
    /\ rpc[r] = "idle" /\ LockFree
    /\ rpc' = [rpc EXCEPT ![r] = "fetch"]
    /\ UNCHANGED <<adoptedAll, found, server, data, ha, lookups, tasks, seen>>

\* Mutant: a refresh does not look up the tracked job.
AfterAdoptionNoSafetyNet(dict) == "rest"

\* Where a refresh goes once the jobs are adopted, or need not be.
AfterAdoption(dict) == IF dict.jobid # 0 THEN "jobs" ELSE "rest"

\* The app's dict is replaced, its job fields carried over; the entity is left
\* with the dict it had.  The adoption, if still due, asks for active jobs.
Replace(r) ==
    /\ rpc[r] = "fetch"
    /\ cur' = [cur EXCEPT !.shown = app]
    /\ IF stale THEN UNCHANGED <<old, stale>> ELSE old' = cur /\ stale' = loaded
    /\ rpc' = [rpc EXCEPT ![r] = IF adoptedAll THEN AfterAdoption(cur) ELSE "adopt"]
    /\ found' = IF adoptedAll THEN found ELSE ActiveJobs
    /\ UNCHANGED <<adoptedAll, server, ha, lookups, tasks, seen>>

\* The jobs adopted when the answer is found: the oldest one, unless the app
\* already tracks one; adoption is complete when none is left behind.
Adopted(dict) ==
    IF dict.jobid # 0 \/ found = {} THEN dict
    ELSE LET j == CHOOSE k \in found : \A m \in found : k <= m
         IN [dict EXCEPT !.jobid = j, !.adopted = j, !.state = Active]

AdoptJobs(r) ==
    /\ rpc[r] = "adopt"
    /\ cur' = Adopted(cur)
    /\ adoptedAll' = (found \subseteq {Adopted(cur).jobid})
    /\ rpc' = [rpc EXCEPT ![r] = AfterAdoption(Adopted(cur))]
    /\ found' = {}
    /\ UNCHANGED <<old, stale, server, ha, lookups, tasks, seen>>

\* core.get_jobs failed: adoption is retried by the next refresh.
AdoptFailed(r) ==
    /\ rpc[r] = "adopt"
    /\ rpc' = [rpc EXCEPT ![r] = AfterAdoption(cur)]
    /\ found' = {}
    /\ UNCHANGED <<adoptedAll, data, server, ha, lookups, tasks, seen>>

JobsAsked(r) ==
    /\ rpc[r] = "jobs" /\ Ask(r)
    /\ rpc' = [rpc EXCEPT ![r] = "asked"]
    /\ UNCHANGED <<adoptedAll, found, data, server, ha, tasks, seen>>

\* The query failed, or there is no longer a job to ask about.
JobsUnavailable(r) ==
    /\ rpc[r] = "jobs"
    /\ rpc' = [rpc EXCEPT ![r] = "rest"]
    /\ UNCHANGED <<adoptedAll, found, data, lookups, server, ha, tasks, seen>>

JobsAnswered(r) ==
    /\ rpc[r] = "asked" /\ Record(r)
    /\ rpc' = [rpc EXCEPT ![r] = "rest"]
    /\ UNCHANGED <<adoptedAll, found, old, stale, server, ha, tasks, note>>

\* The refresh is over and the listeners are called; the first one has created
\* the entity.
Notify(r) ==
    /\ rpc[r] = "rest"
    /\ rpc' = [rpc EXCEPT ![r] = "idle"]
    /\ loaded' = TRUE
    /\ ListenersCalled
    /\ UNCHANGED <<adoptedAll, found, lookups, server, restarts, calling, got, skip, seen>>

\* The push of any other source calls the listeners too.
OtherPush ==
    /\ loaded /\ ListenersCalled
    /\ UNCHANGED <<refreshing, lookups, server, ha, calling, got, skip, seen>>

Refresh(r) ==
    \/ RefreshStart(r) \/ Replace(r) \/ AdoptJobs(r) \/ AdoptFailed(r)
    \/ JobsAsked(r) \/ JobsUnavailable(r) \/ JobsAnswered(r) \/ Notify(r)

-----------------------------------------------------------------------------
(* async_install.                                                            *)

\* Home Assistant refuses an install while in_progress; the entity refuses it
\* while the coordinator's data says the app is not running.
InstallCall ==
    /\ loaded /\ ~calling
    /\ entity.jobid = 0 /\ cur.shown = "RUNNING"
    /\ OneInstall => InFlight = {}
    /\ calling' = TRUE
    /\ UNCHANGED <<pc, got, skip, server, data, ha, refreshing, lookups, seen>>

\* TrueNAS starts the job; its reply is on the way.
UpgradeAccepted ==
    /\ calling
    /\ calling' = FALSE
    /\ \E j \in NewJobs :
          /\ job' = [job EXCEPT ![j] = Active]
          /\ listed' = listed \cup {j}
          /\ pc' = [pc EXCEPT ![<<j, "install">>] = "reply"]
    /\ UNCHANGED <<app, got, skip, data, ha, refreshing, lookups, seen>>

\* app.upgrade failed: the call raises, and looks at the marker on its way out.
UpgradeRefused ==
    /\ calling
    /\ calling' = FALSE
    /\ WatchAdopted(InFlight # {}, pc)
    /\ UNCHANGED <<got, skip, server, ha, refreshing, lookups, seen>>

\* The job id is stored in the entity's _data; a marker for it is dropped.
StoreJob(t) ==
    /\ pc[t] = "reply"
    /\ Overtaken \/ ~stale
    /\ WriteEntity([entity EXCEPT
            !.jobid = t[1], !.state = Active,
            !.adopted = IF @ = t[1] THEN 0 ELSE @])
    /\ pc' = [pc EXCEPT ![t] = "track"]
    /\ UNCHANGED <<calling, got, skip, server, ha, refreshing, lookups, seen>>

\* _async_track_upgrade_job: a round asks about the job the coordinator tracks.
TrackAsked(t) ==
    /\ pc[t] = "track" /\ entity.jobid # 0
    /\ Ask(t)
    /\ pc' = [pc EXCEPT ![t] = "asked"]
    /\ UNCHANGED <<calling, got, skip, server, data, ha, refreshing, seen>>

\* A finished job ends the loop with its outcome.
TrackAnswered(t) ==
    /\ pc[t] = "asked"
    /\ Record(t)
    /\ pc' = [pc EXCEPT ![t] = IF reply[t] \in Final THEN "act" ELSE "track"]
    /\ got' = IF reply[t] \in Final THEN [got EXCEPT ![t] = reply[t]] ELSE got
    /\ UNCHANGED <<calling, skip, old, stale, server, ha, refreshing, note>>

\* The loop ends because _data tracks no job: the outcome is looked up.
TrackLost(t) ==
    /\ pc[t] = "track" /\ entity.jobid = 0
    /\ pc' = [pc EXCEPT ![t] = "resolve"]
    /\ UNCHANGED <<calling, got, skip, server, data, ha, refreshing, lookups, seen>>

\* The end of an install call t, which counts it out of _installs_in_flight.
InstallReturns(t, pcs) ==
    WatchAdopted(calling \/ InFlight # {t}, [pcs EXCEPT ![t] = "done"])

\* Mutant: the call times out without leaving a watch behind.
TrackTimeoutUnwatched(t) ==
    /\ pc[t] = "track" /\ entity.jobid # 0
    /\ InstallReturns(t, pc)
    /\ UNCHANGED <<calling, got, skip, server, ha, refreshing, lookups, seen>>

\* APP_UPDATE_JOB_TIMEOUT: a late watch takes over and the call returns.
TrackTimeout(t) ==
    /\ pc[t] = "track" /\ entity.jobid # 0
    /\ InstallReturns(t, [pc EXCEPT ![<<t[1], "own">>] = "wait"])
    /\ UNCHANGED <<calling, got, skip, server, ha, refreshing, lookups, seen>>

Install(t) ==
    \/ StoreJob(t) \/ TrackAsked(t) \/ TrackAnswered(t)
    \/ TrackLost(t) \/ TrackTimeout(t)

-----------------------------------------------------------------------------
(* _async_watch_late_upgrade.                                                *)

\* The coordinator no longer tracks this job.  Whether a restart is out of the
\* question is decided now, before the outcome is looked up.
WatchFinished(t) ==
    /\ pc[t] = "wait" /\ cur.jobid # t[1]
    /\ pc' = [pc EXCEPT ![t] = "resolve"]
    /\ skip' = [skip EXCEPT ![t] = t[2] = "adopted" \/ entity.jobid \notin {0, t[1]}]
    /\ UNCHANGED <<calling, got, server, data, ha, refreshing, lookups, seen>>

\* APP_UPDATE_LATE_WATCH_TIMEOUT: the watch gives up.
WatchTimeout(t) ==
    /\ pc[t] = "wait" /\ cur.jobid = t[1]
    /\ pc' = [pc EXCEPT ![t] = "gaveup"]
    /\ UNCHANGED <<calling, got, skip, server, data, ha, refreshing, lookups, seen>>

Watch(t) == WatchFinished(t) \/ WatchTimeout(t)

-----------------------------------------------------------------------------
(* The outcome, for an install call and for a watch.                         *)

\* Mutant: the last recorded outcome is taken for this job's.
FromRecordOfAny(j) ==
    IF entity.jobid \in {0, j} /\ entity.state \in Final
    THEN entity.state ELSE "unknown"

\* _async_resolve_untracked_job without an answer: what was recorded, if it was
\* for this very job.
FromRecord(j) ==
    IF entity.jobid \in {0, j} /\ entity.ended = j /\ entity.state \in Final
    THEN entity.state ELSE "unknown"

Resolve(t) ==
    /\ pc[t] = "resolve"
    /\ \/ got' = [got EXCEPT ![t] = FromRecord(t[1])]
       \/ t[1] \in listed /\ got' = [got EXCEPT ![t] = job[t[1]]]
    /\ pc' = [pc EXCEPT ![t] = "act"]
    /\ UNCHANGED <<calling, skip, server, data, ha, refreshing, lookups, seen>>

Finish(t) ==
    /\ \/ t \in Installs /\ InstallReturns(t, pc)
       \/ t \in Watches /\ pc' = [pc EXCEPT ![t] = "done"] /\ UNCHANGED data
    /\ got' = [got EXCEPT ![t] = "none"] /\ skip' = [skip EXCEPT ![t] = FALSE]

\* A watch only logs a job it lost track of, or one a newer ended job hides.
OnlyLogged(t) ==
    t \in Watches /\ (got[t] = Active \/ entity.ended > t[1])

\* _async_handle_upgrade_outcome: anything but a success or an unknown outcome
\* is a failure, after which the app may have to be started.
Failure(t) == got[t] \notin {"SUCCESS", "unknown"}

Act(t) ==
    /\ pc[t] = "act"
    /\ OnlyLogged(t) \/ ~Failure(t) \/ skip[t]
    /\ note' = IF OnlyLogged(t) THEN note
               ELSE [job |-> t[1],
                     verdict |-> IF got[t] = "SUCCESS" THEN "none"
                                 ELSE IF Failure(t) THEN "failed" ELSE "unknown"]
    /\ Finish(t)
    /\ UNCHANGED <<calling, server, ha, refreshing, lookups, ended>>

\* _async_restart_after_failed_upgrade: is the app still running?
AskInstance(t) ==
    /\ pc[t] = "act" /\ ~OnlyLogged(t) /\ Failure(t) /\ ~skip[t]
    /\ pc' = [pc EXCEPT ![t] = "instance"]
    /\ UNCHANGED <<calling, got, skip, server, data, ha, refreshing, lookups, seen>>

\* Only a stopped app is started again.
InstanceStopped(t) ==
    /\ pc[t] = "instance" /\ app = "STOPPED"
    /\ pc' = [pc EXCEPT ![t] = "start"]
    /\ UNCHANGED <<calling, got, skip, server, data, ha, refreshing, lookups, seen>>

\* The app runs, is changing or cannot be looked up; or app.start is done.
NotifyFailed(t) ==
    /\ \/ pc[t] = "instance" /\ app' = app
       \/ pc[t] = "start" /\ app' \in {app, "RUNNING"}
    /\ note' = [job |-> t[1], verdict |-> "failed"]
    /\ Finish(t)
    /\ UNCHANGED <<calling, job, listed, ha, refreshing, lookups, ended>>

Outcome(t) ==
    Resolve(t) \/ Act(t) \/ AskInstance(t) \/ InstanceStopped(t) \/ NotifyFailed(t)

TrueNAS ==
    \/ ForeignUpgrade \/ AppChanges
    \/ \E j \in Jobs : JobEnds(j) \/ JobForgotten(j)

Next ==
    \/ TrueNAS \/ Restart \/ OtherPush
    \/ \E r \in Refreshers : Refresh(r)
    \/ InstallCall \/ UpgradeAccepted \/ UpgradeRefused
    \/ \E t \in Installs : Install(t)
    \/ \E t \in Watches : Watch(t)
    \/ \E t \in Tasks : Outcome(t)

Spec == Init /\ [][Next]_vars

\* Upgrades end; the poll comes back and its lookups of a job do not fail for
\* ever; requests are answered and timeouts run out.
Fairness ==
    /\ \A j \in Jobs : SF_vars(JobEnds(j))
    /\ \A r \in Refreshers : WF_vars(Refresh(r)) /\ SF_vars(JobsAsked(r))
    /\ WF_vars(UpgradeAccepted \/ UpgradeRefused)
    /\ \A t \in Installs : /\ WF_vars(Install(t)) /\ SF_vars(StoreJob(t))
                          /\ SF_vars(TrackTimeout(t))
    /\ \A t \in Watches : WF_vars(Watch(t))
    /\ \A t \in Tasks : WF_vars(Outcome(t))

FairSpec == Spec /\ Fairness

-----------------------------------------------------------------------------
(* Properties.                                                               *)

\* "The app is restarted if needed only for a confirmed failure, never for an
\* unknown outcome" (_async_handle_upgrade_outcome).
RestartOnlyAfterFailure ==
    \A t \in Tasks : pc[t] = "start" => job[t[1]] = "FAILED"

\* What a watch reports as the final outcome of its job is how that job ended,
\* although the app's dict may by then describe another job.
WatchOutcomeIsOwn ==
    \A t \in Watches : pc[t] = "act" /\ got[t] \in Final => job[t[1]] = got[t]

\* The polls, pushes and install loop that ask about a job at the same time
\* record its end once, so that a failure is logged once.
EndRecordedOnce == \A j \in Jobs : ended[j] <= 1 + restarts

\* A job is looked after by one task at a time: an install started from Home
\* Assistant is never taken for an adopted upgrade, nor watched twice.
LookedAfterOnce ==
    \A s, t \in Tasks : s[1] = t[1] /\ Busy(s) /\ Busy(t) => s = t

\* The poll is the safety net: the entity does not stay in progress for ever.
InProgressEnds == loaded /\ entity.jobid # 0 ~> entity.jobid = 0

\* A failed upgrade that Home Assistant tracks or looks after is notified, as
\* failed or as unknown, unless its watch gives up or Home Assistant restarts.
FailureNotified ==
    \A j \in Jobs :
        /\ job[j] = "FAILED"
        /\ cur.jobid = j \/ \E t \in Tasks : t[1] = j /\ Busy(t)
        ~> \/ note.job = j /\ note.verdict # "none"
           \/ \E t \in Watches : t[1] = j /\ pc[t] = "gaveup"
           \/ ~loaded
=============================================================================
