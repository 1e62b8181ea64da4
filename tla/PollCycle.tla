------------------------------ MODULE PollCycle ------------------------------
(* The refreshes of a loaded entry's coordinator and what Home Assistant     *)
(* shows of its data: a refresh asks for every data path, each failure stays *)
(* with its path, and an entity is available while the last refresh was a    *)
(* success and its path is neither failing nor stale.  A push that is shown  *)
(* counts as a successful refresh and puts the next poll off.                *)
EXTENDS Naturals, FiniteSets

CONSTANTS
    Sys, Pool,      \* the paths that are asked for first and last
    Gathered,       \* the others, asked for at once (interface, just before)
    Pushed,         \* paths with a push subscription
    Poll,           \* the scheduled refresh
    Directs,        \* tasks that refresh at a user's or an entity's wish
    Interval,       \* ticks between two polls
    MaxFaults,      \* bound: paths that have a fault at a time
    Overlap,        \* refreshes and pushes overlap
    None

Paths == {Sys, Pool} \cup Gathered
Refreshers == {Poll} \cup Directs

ASSUME PollCycleAssumption ==
    /\ Sys \notin {Pool} \cup Gathered /\ Pool \notin Gathered
    /\ Pushed \subseteq Paths \ {Sys}
    /\ Poll \notin Directs
    /\ Interval \in Nat \ {0} /\ MaxFaults \in Nat /\ Overlap \in BOOLEAN
    /\ None \notin Nat

VARIABLES
    \* TrueNAS
    reach,      \* it can be reached
    fault,      \* how it answers, per path
    \* the coordinator
    conn,       \* api.connected()
    ok,         \* last_update_success
    timer,      \* ticks to the next poll, None while none is scheduled
    failing,    \* _job_failing, by data path
    stale,      \* stale_endpoints, _system_info_stale and _interface_stale
    hostname,   \* ds["system_info"] has one
    due,        \* the last successful update check is 12 hours old
    orphans,    \* orphaned_statistics is not empty
    flushes,    \* pushed paths whose refresh waits for its answer
    \* the refreshes
    pc,
    before,     \* last_update_success when it began
    todo,       \* gathered jobs that have not ended
    \* what it comes to
    shown,      \* paths whose entities are shown as available
    checked     \* an update check has succeeded in the last 12 hours

nas == <<reach, fault>>
health == <<failing, stale, hostname>>
tasks == <<pc, before, todo>>
vars == <<nas, conn, ok, timer, health, due, orphans, flushes, tasks, shown,
          checked>>

\* A query is answered, fails, or is answered with something malformed, which
\* keeps the snapshot; only system.info has a hostname to leave out.
Faults == {"fine", "raises", "malformed", "blank"}
PCs == {"idle", "connect", "first", "jobs", "check", "detect"}

TypeOK ==
    /\ reach \in BOOLEAN /\ conn \in BOOLEAN
    /\ fault \in [Paths -> Faults]
    /\ ok \in BOOLEAN /\ timer \in 0..Interval \cup {None}
    /\ failing \subseteq Paths /\ stale \subseteq Paths
    /\ hostname \in BOOLEAN /\ due \in BOOLEAN /\ orphans \in BOOLEAN
    /\ flushes \subseteq Pushed
    /\ pc \in [Refreshers -> PCs] /\ before \in [Refreshers -> BOOLEAN]
    /\ todo \in [Refreshers -> SUBSET Gathered]
    /\ shown \subseteq Paths /\ checked \in BOOLEAN

Idle == \A r \in Refreshers : pc[r] = "idle"

\* TrueNASEntity.available, of an entity of each path.
Available == IF ok THEN Paths \ (failing \cup stale) ELSE {}

\* async_update_listeners: entities write their state.
Listeners == shown' = Available'

\* The entry has just been set up.
Init ==
    /\ reach = TRUE /\ fault = [p \in Paths |-> "fine"]
    /\ conn = TRUE /\ ok = TRUE /\ timer = Interval
    /\ failing = {} /\ stale = {} /\ hostname = TRUE
    /\ due = FALSE /\ checked = TRUE /\ orphans = FALSE /\ flushes = {}
    /\ pc = [r \in Refreshers |-> "idle"]
    /\ before = [r \in Refreshers |-> TRUE]
    /\ todo = [r \in Refreshers |-> {}]
    /\ shown = Paths

-----------------------------------------------------------------------------
(* TrueNAS, and time.                                                        *)

Others == <<ok, health, orphans, flushes, tasks, shown>>

ReachChanges ==
    /\ reach' = ~reach
    /\ UNCHANGED <<fault, conn, timer, due, checked, Others>>

FaultChanges ==
    /\ \E p \in Paths : \E f \in Faults :
          /\ f = "blank" => p = Sys
          /\ fault' = [fault EXCEPT ![p] = f]
    /\ Cardinality({p \in Paths : fault'[p] # "fine"}) <= MaxFaults
    /\ UNCHANGED <<reach, conn, timer, due, checked, Others>>

Drop ==
    /\ conn /\ ~reach /\ conn' = FALSE
    /\ UNCHANGED <<nas, timer, due, checked, Others>>

\* A call of a service connects on its own.
ConnectElsewhere ==
    /\ ~conn /\ reach /\ conn' = TRUE
    /\ UNCHANGED <<nas, timer, due, checked, Others>>

Tick ==
    /\ timer \in 1..Interval /\ timer' = timer - 1
    /\ UNCHANGED <<nas, conn, due, checked, Others>>

TwelveHours ==
    /\ ~due /\ due' = TRUE /\ checked' = FALSE
    /\ UNCHANGED <<nas, conn, timer, Others>>

-----------------------------------------------------------------------------
(* Answers.                                                                  *)

\* A domain method swallows a malformed answer; a fresh one ends staleness.
Answered(p) ==
    /\ stale' = IF fault[p] = "malformed" THEN stale \cup {p} ELSE stale \ {p}
    /\ hostname' = IF p # Sys \/ fault[p] = "malformed" THEN hostname
                   ELSE fault[p] = "fine"

Answers(p) == conn /\ fault[p] # "raises"

\* Mutant: a job that did not raise has recovered, whatever it returned.
RunJobClean(p) ==
    IF Answers(p)
    THEN /\ failing' = failing \ {p} /\ stale' = stale \ {p}
         /\ hostname' = (hostname \/ p = Sys)
    ELSE failing' = failing \cup {p} /\ UNCHANGED <<stale, hostname>>

\* Mutant: a job that has recovered is still taken to be failing.
RunJobSticky(p) ==
    IF Answers(p)
    THEN UNCHANGED failing /\ Answered(p)
    ELSE failing' = failing \cup {p} /\ UNCHANGED <<stale, hostname>>

\* _run_job of the job that owns p.
RunJob(p) ==
    IF Answers(p)
    THEN failing' = failing \ {p} /\ Answered(p)
    ELSE failing' = failing \cup {p} /\ UNCHANGED <<stale, hostname>>

-----------------------------------------------------------------------------
(* A refresh: DataUpdateCoordinator._async_refresh around _async_update_data. *)

\* The next poll and the entities learn how r ended; a failure after a
\* failure is not worth telling.
Over(r, success) ==
    /\ pc' = [pc EXCEPT ![r] = "idle"]
    /\ todo' = [todo EXCEPT ![r] = {}]
    /\ ok' = success /\ timer' = Interval
    /\ IF success \/ before[r] THEN Listeners ELSE UNCHANGED shown
    /\ before' = [before EXCEPT ![r] = TRUE]
    /\ UNCHANGED <<nas, flushes>>

Goes(r, to) ==
    /\ pc' = [pc EXCEPT ![r] = to]
    /\ UNCHANGED <<nas, ok, timer, flushes, before, shown, orphans>>

\* The scheduled poll comes when its time has come, others when they like; one
\* that finds a connection goes on at once.
Begin(r) ==
    /\ pc[r] = "idle" /\ (r = Poll => timer = 0)
    /\ Overlap \/ Idle
    /\ pc' = [pc EXCEPT ![r] = IF conn THEN "first" ELSE "connect"]
    /\ before' = [before EXCEPT ![r] = ok] /\ timer' = None
    /\ UNCHANGED <<nas, conn, ok, health, due, checked, orphans, flushes>>
    /\ UNCHANGED <<todo, shown>>

\* _async_ensure_connected
Connect(r) ==
    /\ pc[r] = "connect"
    /\ UNCHANGED <<health, due, checked>>
    /\ \/ /\ conn \/ reach
          /\ conn' = TRUE /\ Goes(r, "first")
          /\ UNCHANGED todo
       \/ /\ ~conn /\ ~reach
          /\ Over(r, FALSE) /\ UNCHANGED <<conn, orphans>>

\* Mutant: the pools are gathered with the others.
FirstGathersPool(r) ==
    /\ pc[r] = "first"
    /\ RunJob(Sys)
    /\ IF hostname'
       THEN /\ Goes(r, "jobs")
            /\ todo' = [todo EXCEPT ![r] = Gathered \cup {Pool}]
       ELSE Over(r, FALSE) /\ UNCHANGED orphans
    /\ UNCHANGED <<conn, due, checked>>

\* get_systeminfo; without a hostname there is nothing to go on with.
First(r) ==
    /\ pc[r] = "first"
    /\ RunJob(Sys)
    /\ IF hostname'
       THEN /\ Goes(r, "jobs") /\ todo' = [todo EXCEPT ![r] = Gathered]
       ELSE Over(r, FALSE) /\ UNCHANGED orphans
    /\ UNCHANGED <<conn, due, checked>>

Job(r) ==
    /\ pc[r] = "jobs"
    /\ \E p \in todo[r] : RunJob(p) /\ todo' = [todo EXCEPT ![r] = @ \ {p}]
    /\ Goes(r, "jobs")
    /\ UNCHANGED <<conn, due, checked>>

\* get_pool comes after the others, and only with a connection, which may be
\* lost before the answer.
PoolJob(r) ==
    /\ pc[r] = "jobs" /\ todo[r] = {}
    /\ RunJob(Pool) \/ (~conn /\ UNCHANGED health)
    /\ Goes(r, "check")
    /\ UNCHANGED <<conn, due, checked, todo>>

\* Without a connection the refresh fails in the end; with one, what is left is
\* to look for orphaned statistics.
End(r) ==
    /\ UNCHANGED <<conn, health>>
    /\ IF conn THEN Goes(r, "detect") /\ UNCHANGED todo
       ELSE Over(r, FALSE) /\ UNCHANGED orphans

\* Mutant: the throttle's comparison is turned round.
CheckEarly(r, success) ==
    /\ pc[r] = "check" /\ (success => conn /\ ~due)
    /\ IF success
       THEN due' = FALSE /\ checked' = TRUE ELSE UNCHANGED <<due, checked>>
    /\ End(r)

\* The update check, when due; a failed one is tried again.
Check(r, success) ==
    /\ pc[r] = "check" /\ (success => conn /\ due)
    /\ IF success
       THEN due' = FALSE /\ checked' = TRUE ELSE UNCHANGED <<due, checked>>
    /\ End(r)

Detect(r) ==
    /\ pc[r] = "detect"
    /\ orphans' \in BOOLEAN
    /\ UNCHANGED <<conn, health, due, checked>>
    /\ Over(r, TRUE)

-----------------------------------------------------------------------------
(* Success besides the refreshes.                                            *)

\* async_set_updated_data
SetUpdated ==
    /\ Overlap \/ Idle
    /\ ok' = TRUE /\ timer' = Interval /\ Listeners

\* An event: the source is asked for its data.
FlushAsked(p) ==
    /\ conn /\ p \notin flushes
    /\ flushes' = flushes \cup {p}
    /\ UNCHANGED <<nas, conn, ok, timer, health, due, checked, orphans>>
    /\ UNCHANGED <<tasks, shown>>

\* Mutant: what a push has refreshed is not passed on.
FlushEndsSilently(p) ==
    /\ p \in flushes /\ flushes' = flushes \ {p}
    /\ IF Answers(p) THEN Answered(p) ELSE UNCHANGED <<stale, hostname>>
    /\ UNCHANGED <<nas, conn, ok, timer, failing, due, checked, orphans, tasks>>
    /\ UNCHANGED shown

\* _on_<source>_push; no job is run, and a failure shows nothing.
FlushEnds(p) ==
    /\ p \in flushes /\ flushes' = flushes \ {p}
    /\ UNCHANGED failing
    /\ IF Answers(p)
       THEN Answered(p) /\ SetUpdated
       ELSE UNCHANGED <<ok, timer, stale, hostname, shown>>
    /\ UNCHANGED <<nas, conn, due, checked, orphans, tasks>>

\* Mutant: the list of orphaned statistics stays.
ClearStatisticsOnly ==
    /\ orphans
    /\ UNCHANGED <<nas, conn, health, due, checked, orphans, flushes, tasks>>
    /\ SetUpdated

\* The button that clears orphaned statistics shows its own success.
ClearStatistics ==
    /\ orphans /\ orphans' = FALSE
    /\ UNCHANGED <<nas, conn, health, due, checked, flushes, tasks>>
    /\ SetUpdated

\* A task was started: its state is shown at once (set_optimistic_running).
OptimisticState ==
    /\ conn
    /\ UNCHANGED <<nas, conn, ok, timer, health, due, checked, orphans>>
    /\ UNCHANGED <<flushes, tasks>>
    /\ Listeners

Refresh(r) ==
    \/ Begin(r) \/ Connect(r) \/ First(r) \/ Job(r) \/ PoolJob(r)
    \/ \E success \in BOOLEAN : Check(r, success)
    \/ Detect(r)

Next ==
    \/ ReachChanges \/ FaultChanges \/ Drop
    \/ ConnectElsewhere \/ Tick \/ TwelveHours
    \/ \E r \in Refreshers : Refresh(r)
    \/ \E p \in Pushed : FlushAsked(p) \/ FlushEnds(p)
    \/ ClearStatistics \/ OptimisticState

Spec == Init /\ [][Next]_vars

\* Time passes, tasks run, a dead connection is noticed, and update checks do
\* not fail for ever.  No user is bound to do anything.
Fairness ==
    /\ WF_vars(Tick) /\ WF_vars(Drop)
    /\ \A r \in Refreshers : WF_vars((pc[r] # "idle" \/ r = Poll) /\ Refresh(r))
    /\ \A r \in Refreshers : SF_vars(Check(r, TRUE))
    /\ \A p \in Pushed : WF_vars(FlushEnds(p))

FairSpec == Spec /\ Fairness

-----------------------------------------------------------------------------
(* Properties.                                                               *)

\* Between refreshes Home Assistant shows as available what is.
ShownIsAvailable == Idle => shown = Available

\* A fault of a path that lasts is shown, however it alternates.
FaultShown ==
    \A p \in Paths :
        <>[](fault[p] # "fine" /\ reach /\ flushes = {})
            => <>[](p \notin shown)

\* An outage that lasts is shown.
OutageShown == <>[](~reach) => <>[](shown = {})

Healthy == reach /\ flushes = {} /\ \A p \in Paths : fault[p] = "fine"

\* When all is well again, all is shown.
RecoveryShown == <>[]Healthy => <>[](shown = Paths)

\* A failed update check is not forgotten for another 12 hours.
UpdateChecked == <>[]Healthy => []<>checked
=============================================================================
