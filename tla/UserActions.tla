------------------------------ MODULE UserActions ------------------------------
(***************************************************************************)
(* What the buttons do while the coordinator polls: the scrub buttons of a *)
(* pool (button.py), the run buttons of tasks (coordinator.py,             *)
(* async_run_task) and the installation of a TrueNAS update (update.py).   *)
(* All call the one TrueNASAPI (api.py, query), which keeps a call's error *)
(* for the asyncio task that made it; they and TrueNAS itself may act      *)
(* between a button's check of the pool and its action.                    *)
(***************************************************************************)
EXTENDS SystemUpdate

CONSTANT Presses  \* presses of buttons under way at once, each a task of its own

VARIABLES
  scan,    \* the pool's scan on the NAS
  lock,    \* scrub_lock: the press that holds it, or Free
  pc,      \* where each task is
  button,  \* the button each press is of
  error,   \* _CALL_ERRORS: the task whose call left the error a task would read, or ""
  told,    \* how the last press ended
  marked,  \* set_optimistic_running marked a task RUNNING since the last poll
  answered, \* the press's call has succeeded (history)
  moved    \* TrueNAS changed the scan itself since the press's check, before its action (history)

press == <<lock, pc, button, told>>
history == <<answered, moved>>
vars == <<nas, info, scan, press, error, marked, history>>

Poll == "poll"
Free == "free"
Tasks == Presses \cup {Poll}

ASSUME PressesAssumption ==
  Presses \cap {Poll, Free, "", "nothing", "refused", "done"} = {}

ScrubButtons == {"run", "pause", "resume", "stop"}
Buttons == ScrubButtons \cup {"task", "install"}

Scans == {"none", "scanning", "paused", "resilver"}

TypeOK ==
  /\ UpdateTypeOK
  /\ scan \in Scans
  /\ lock \in Presses \cup {Free}
  /\ pc \in [Tasks -> {"idle", "lock", "check", "send", "reread", "job", "data"}]
  /\ button \in [Presses -> Buttons]
  /\ error \in [Tasks -> Tasks \cup {""}]
  /\ told \in [Presses -> Tasks \cup {"nothing", "refused", "done"}]
  /\ marked \in BOOLEAN
  /\ answered \in [Presses -> BOOLEAN]
  /\ moved \in [Presses -> BOOLEAN]

Init ==
  /\ UpdateInit
  /\ scan \in Scans
  /\ lock = Free
  /\ pc = [t \in Tasks |-> "idle"]
  /\ button = [p \in Presses |-> "run"]
  /\ error = [t \in Tasks |-> ""]
  /\ told = [p \in Presses |-> "nothing"]
  /\ marked = FALSE
  /\ answered = [p \in Presses |-> FALSE]
  /\ moved = [p \in Presses |-> FALSE]
-----------------------------------------------------------------------------
(* TrueNASAPI.query                                                        *)

\* Mutant: one error for all tasks.
SharedError(t, e) == [u \in Tasks |-> e]

\* The mapping is replaced in the context of the task that made the call.
Recorded(t, e) == [error EXCEPT ![t] = e]

\* query() clears the error before the call and records the error of one that failed.
CallBegins(t) == error' = Recorded(t, "")
CallEnds(t, failed) == error' = IF failed THEN Recorded(t, t) ELSE error
-----------------------------------------------------------------------------
(* Scrub buttons                                                           *)

\* A resilver is no scrub.
ScrubState == IF scan = "resilver" THEN "none" ELSE scan

\* The states a button checks for; none for "run".
ScrubStates(b) ==
  CASE b = "pause" -> {"scanning"}
    [] b = "resume" -> {"paused"}
    [] b = "stop" -> {"scanning", "paused"}
    [] OTHER -> {}

\* pool.scrub.scrub: the scan that follows, and whether TrueNAS takes the action.
Scrubbed(b) ==
  CASE b \in {"run", "resume"} -> "scanning" [] b = "pause" -> "paused" [] OTHER -> "none"
CanScrub(b) ==
  CASE b \in {"run", "resume"} -> scan \in {"none", "paused"}
    [] b = "pause" -> scan = "scanning"
    [] OTHER -> scan \in {"scanning", "paused"}

\* Mutant: presses overlap.
LockIgnored == TRUE

LockFree == lock = Free

Ended(p, how) ==
  /\ pc' = [pc EXCEPT ![p] = "idle"]
  /\ told' = [told EXCEPT ![p] = how]
  /\ lock' = IF lock = p THEN Free ELSE lock
  /\ button' = [button EXCEPT ![p] = "run"]

Goes(t, at) == pc' = [pc EXCEPT ![t] = at] /\ UNCHANGED <<lock, button, told>>

\* A press is a task of its own, which starts without an error.  Home Assistant refuses to
\* install without an update to install, or while one is in progress.
Press(p, b) ==
  /\ pc[p] = "idle"
  /\ b = "install" => available /\ ~InProgress
  /\ pc' = [pc EXCEPT ![p] = IF b \in ScrubButtons THEN "lock" ELSE "send"]
  /\ button' = [button EXCEPT ![p] = b]
  /\ told' = [told EXCEPT ![p] = "nothing"]
  /\ answered' = [answered EXCEPT ![p] = FALSE]
  /\ moved' = [moved EXCEPT ![p] = FALSE]
  /\ CallBegins(p)
  /\ UNCHANGED <<nas, info, scan, lock, marked>>

\* A button that checks nothing sends its action as soon as it has the lock.
Acquire(p) ==
  /\ pc[p] = "lock" /\ LockFree
  /\ lock' = p
  /\ \/ /\ ScrubStates(button[p]) = {}
        /\ pc' = [pc EXCEPT ![p] = "send"]
        /\ CallBegins(p)
     \/ /\ ScrubStates(button[p]) # {}
        /\ pc' = [pc EXCEPT ![p] = "check"]
        /\ UNCHANGED error
  /\ UNCHANGED <<nas, info, scan, button, told, marked, history>>

\* The pools are read again; if that fails, or they are in another state, nothing is sent.
\* What was read is looked at before anything else happens: ds["pool"] needs no variable.
Check(p) ==
  /\ pc[p] = "check"
  /\ \/ Ended(p, "refused") /\ UNCHANGED error
     \/ /\ ScrubState \in ScrubStates(button[p])
        /\ Goes(p, "send") /\ CallBegins(p)
  /\ UNCHANGED <<nas, info, scan, marked, history>>

\* Whether the pools can be read again or not, TrueNAS took the action.
Reread(p) ==
  /\ pc[p] = "reread"
  /\ Ended(p, "done")
  /\ UNCHANGED <<nas, info, scan, error, marked, history>>
-----------------------------------------------------------------------------
(* The action itself: TrueNAS takes it or not, then the answer comes, or   *)
(* does not.                                                               *)

Taken(p, takes) ==
  \/ /\ takes /\ button[p] \in ScrubButtons
     /\ CanScrub(button[p]) /\ scan' = Scrubbed(button[p])
     /\ UNCHANGED nas
  \/ /\ takes /\ button[p] = "install"
     /\ CanInstall /\ Installing
     /\ UNCHANGED scan
  \/ /\ takes => button[p] = "task"
     /\ UNCHANGED <<nas, scan>>

\* _send_scrub_action goes by the result; only "run" marks the task.
ScrubAnswered(p, failed) ==
  /\ IF failed THEN Ended(p, error'[p]) ELSE Goes(p, "reread")
  /\ marked' = (marked \/ (~failed /\ button[p] = "run"))
  /\ UNCHANGED info

\* async_run_task goes by the error: many a method returns nothing.
TaskAnswered(p) ==
  /\ Ended(p, IF error'[p] = "" THEN "done" ELSE error'[p])
  /\ marked' = (marked \/ error'[p] = "")
  /\ UNCHANGED info

\* TrueNASUpdate.async_install stores the job's id; the refresh that follows is a poll.
InstallAnswered(p, failed) ==
  /\ Ended(p, IF failed THEN error'[p] ELSE "done")
  /\ jobid' = (jobid \/ ~failed)
  /\ UNCHANGED <<state, available, marked>>

Send(p) ==
  /\ pc[p] = "send"
  /\ \E takes, failed \in BOOLEAN :
       /\ takes \/ failed
       /\ Taken(p, takes)
       /\ answered' = [answered EXCEPT ![p] = ~failed]
       /\ CallEnds(p, failed)
       /\ CASE button[p] \in ScrubButtons -> ScrubAnswered(p, failed)
            [] button[p] = "task" -> TaskAnswered(p)
            [] button[p] = "install" -> InstallAnswered(p, failed)
  /\ moved' = [moved EXCEPT ![p] = FALSE]
-----------------------------------------------------------------------------
(* A poll                                                                  *)

\* get_systeminfo looks up the update job with api.query, if there is one.
PollStart ==
  /\ pc[Poll] = "idle"
  /\ IF jobid THEN Goes(Poll, "job") /\ CallBegins(Poll)
              ELSE Goes(Poll, "data") /\ UNCHANGED error
  /\ UNCHANGED <<nas, info, scan, marked, history>>

\* A lost connection ends the poll.
PollJob ==
  /\ pc[Poll] = "job"
  /\ \E answer \in {"job", "nothing", "failed", "lost"} :
       /\ LookedUp(answer)
       /\ CallEnds(Poll, answer \in {"failed", "lost"})
       /\ Goes(Poll, IF answer = "lost" THEN "idle" ELSE "data")
  /\ UNCHANGED <<scan, marked, history>>

\* The state of every task is TrueNAS's again.
PollChecksUpdates ==
  /\ pc[Poll] = "data"
  /\ marked' = FALSE
  /\ UpdateCheck
  /\ Goes(Poll, "idle")
  /\ UNCHANGED <<scan, error, history>>

\* The check is not due, or it fails; or the query of the tasks fails.
PollEnds ==
  /\ pc[Poll] = "data"
  /\ marked' \in {FALSE, marked}
  /\ Goes(Poll, "idle")
  /\ UNCHANGED <<nas, info, scan, error, history>>
-----------------------------------------------------------------------------
(* TrueNAS                                                                 *)

ScanChanges ==
  /\ scan' \in Scans \ {scan}
  /\ moved' = [p \in Presses |-> moved[p] \/ (pc[p] = "send" /\ ScrubStates(button[p]) # {})]
  /\ UNCHANGED <<nas, info, press, error, marked, answered>>

UpdateGoesOn ==
  /\ JobGoesOn \/ UpdateComesOut
  /\ UNCHANGED <<scan, press, error, marked, history>>
-----------------------------------------------------------------------------
Next ==
  \/ \E p \in Presses :
       (\E b \in Buttons : Press(p, b)) \/ Acquire(p) \/ Check(p) \/ Send(p) \/ Reread(p)
  \/ PollStart \/ PollJob \/ PollChecksUpdates \/ PollEnds
  \/ ScanChanges \/ UpdateGoesOn

Spec == Init /\ [][Next]_vars

\* Polls go on: again and again one keeps its connection, and one checks for updates (one
\* that fails is made again by the next poll).  A job on the NAS ends.
Fairness ==
  /\ WF_vars(PollStart) /\ SF_vars(PollJob /\ pc'[Poll] = "data")
  /\ WF_vars(PollChecksUpdates \/ PollEnds) /\ SF_vars(PollChecksUpdates)
  /\ WF_vars(JobGoesOn /\ UpdateGoesOn)

FairSpec == Spec /\ Fairness
-----------------------------------------------------------------------------
\* A press is told of a failure only if its own call failed, and of success only if it did
\* not: what a poll or another press leaves in the API is not read as its own.
OwnOutcome ==
  \A p \in Presses :
    /\ told[p] \in Tasks => told[p] = p /\ ~answered[p]
    /\ told[p] = "done" => answered[p]

\* A checked action reaches the pool in a state the button is for, unless TrueNAS changed the
\* scan itself after the check: "Resume", a START, begins no scrub on a pool another press
\* has just stopped.
ActsOnCheckedState ==
  [][\A p \in Presses :
       pc[p] = "send" /\ pc'[p] # "send" /\ scan' # scan /\ ScrubStates(button[p]) # {} =>
         scan \in ScrubStates(button[p]) \/ moved[p]]_vars

\* An update that is over is not shown in progress for ever, not even if TrueNAS has forgotten
\* its job over the reboot, so that no lookup tells its end.
UpdateEnds ==
  <>[](job \in {"none", "over"}) => <>[]~InProgress
=============================================================================
