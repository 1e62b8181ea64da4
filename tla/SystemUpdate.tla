----------------------------- MODULE SystemUpdate -----------------------------
(***************************************************************************)
(* The update of TrueNAS itself as ds["system_info"] tells of it           *)
(* (coordinator.py, get_systeminfo, _handle_update_job, get_updatecheck):  *)
(* the job that installs it is looked up by each poll, and the update      *)
(* check, made every 12 hours, writes to the same fields.                  *)
(***************************************************************************)
VARIABLES
  job,        \* the update job on the NAS; one that is over may also be forgotten
  pending,    \* the NAS has an update to install
  jobid,      \* update_jobid is set
  state,      \* update_state
  available   \* update_available

nas == <<job, pending>>
info == <<jobid, state, available>>

UpdateTypeOK ==
  /\ job \in {"none", "waiting", "running", "over"}
  /\ pending \in BOOLEAN /\ jobid \in BOOLEAN /\ available \in BOOLEAN
  /\ state \in {"unknown", "idle", "available", "waiting", "running", "over"}

UpdateInit ==
  /\ job = "none" /\ pending \in BOOLEAN
  /\ jobid = FALSE /\ state = "unknown" /\ available = FALSE

InProgress == state = "running"

\* TrueNAS: a job runs and ends, with the update installed or not; updates come out.
JobGoesOn ==
  /\ job \in {"waiting", "running"}
  /\ job' = IF job = "waiting" THEN "running" ELSE "over"
  /\ pending' \in IF job = "running" THEN {FALSE, pending} ELSE {pending}
  /\ UNCHANGED info

UpdateComesOut == ~pending /\ pending' = TRUE /\ UNCHANGED <<job, info>>

\* update.run answers with a job id, unless an update is under way.
CanInstall == job \in {"none", "over"}
Installing == job' = "waiting" /\ UNCHANGED pending

\* _handle_update_job.  A failed lookup, and one that finds no job, keep what was known;
\* after a lost connection nothing more is done.
LookedUp(answer) ==
  LET known == IF answer = "job" THEN job ELSE state
      ends == answer # "lost" /\ (known # "running" \/ ~available)
  IN /\ answer = "job" => job # "none"
     /\ answer = "nothing" => job = "over"
     /\ state' = IF ends THEN "unknown" ELSE known
     /\ jobid' = (jobid /\ ~ends)
     /\ UNCHANGED <<nas, available>>

\* Mutant: the state of a job that is followed is left alone.
CheckedKept == IF jobid THEN state ELSE IF pending THEN "available" ELSE "idle"

\* Mutant: the status is taken over as TrueNAS names it.
CheckedRaw == IF pending THEN "UPDATE_AVAILABLE" ELSE "idle"

Checked == IF pending THEN "available" ELSE "idle"

\* get_updatecheck
UpdateCheck == available' = pending /\ state' = Checked /\ UNCHANGED <<nas, jobid>>
=============================================================================
