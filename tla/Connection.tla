----------------------------- MODULE Connection -----------------------------
(* The connection of one config entry's coordinator: when an attempt to      *)
(* connect is made, what its failure does to the entry, and which failures   *)
(* are logged as errors.  What was logged last is mirrored in hass.data and  *)
(* outlives the coordinator, which Home Assistant recreates to retry a       *)
(* set-up.                                                                   *)
EXTENDS Naturals, SequencesExt

CONSTANTS
    Targets,            \* connection data of the entry (its fingerprint)
    Causes,             \* ERR_* codes of a failed attempt, except ...
    Auth,               \* ... ERR_INVALID_KEY
    Up,                 \* the target can be reached
    Refreshers,         \* tasks that refresh the coordinator
    InOrder,            \* the client makes one attempt at a time, in order
    ReconfigureWaits,   \* the entry is not reconfigured during its set-up
    None

\* What is kept in hass.data of the outage logged last.
Marker == [target: Targets, error: Causes]

ASSUME ConnectionAssumption ==
    /\ Auth \notin Causes /\ Up \notin Causes /\ Auth # Up
    /\ None \notin Targets \cup Causes \cup Marker
    /\ InOrder \in BOOLEAN /\ ReconfigureWaits \in BOOLEAN

VARIABLES
    reach,      \* what an attempt at each target meets
    target,     \* config_entry.data
    marker,     \* hass.data[...]: target and error of the outage logged last
    entry,      \* state of the config entry
    \* the coordinator, while the entry is being set up or loaded
    host,       \* target its API was made for
    conn,       \* api.connected()
    error,      \* _connection_failing_error (_connection_failing: not None)
    expected,   \* a disconnect was requested, the grace period is not over
    reauth,     \* the key was refused: no further poll is scheduled
    \* its refreshes
    pc,
    exp,        \* expected_reason of a refresh that is connecting
    queue,      \* refreshes that are connecting, in the order they began
    line        \* what the last step logged

coordinator == <<host, conn, error, expected, reauth>>
refreshes == <<pc, exp, queue>>
vars == <<reach, target, marker, entry, coordinator, refreshes, line>>

Entry == {"unloaded", "setup", "loaded", "retry", "error"}
PCs == {"idle", "connecting", "rest"}

\* There is a coordinator.
Live == entry \in {"setup", "loaded"}

Log == INSTANCE OutageLog WITH
    told <- [t \in Targets |->
                IF marker # None /\ marker.target = t
                THEN marker.error ELSE None]

TypeOK ==
    /\ reach \in [Targets -> Causes \cup {Auth, Up}]
    /\ target \in Targets /\ host \in Targets
    /\ marker \in Marker \cup {None}
    /\ entry \in Entry
    /\ conn \in BOOLEAN /\ expected \in BOOLEAN /\ reauth \in BOOLEAN
    /\ error \in Causes \cup {None}
    /\ pc \in [Refreshers -> PCs] /\ exp \in [Refreshers -> BOOLEAN]
    /\ queue \in Seq(Refreshers)
    /\ line \in Log!Line

Idle == pc = [r \in Refreshers |-> "idle"]

Init ==
    /\ reach \in [Targets -> Causes \cup {Auth, Up}]
    /\ target \in Targets /\ host = target
    /\ marker = None /\ entry = "unloaded"
    /\ conn = FALSE /\ error = None /\ expected = FALSE /\ reauth = FALSE
    /\ pc = [r \in Refreshers |-> "idle"]
    /\ exp = [r \in Refreshers |-> FALSE] /\ queue = <<>>
    /\ line = Log!Silent

-----------------------------------------------------------------------------
(* The entry: set-up, unload, reconfiguration, restarts of Home Assistant.   *)

\* Mutant: the marker's fingerprint is not compared.
SeedOfAny == IF marker = None THEN None ELSE marker.error

\* _seed_connection_failing
Seed == IF marker = None \/ marker.target # target THEN None ELSE marker.error

\* A coordinator is made and its first refresh is due.
Setup ==
    /\ entry \in {"unloaded", "retry", "error"}
    /\ entry' = "setup"
    /\ host' = target /\ conn' = FALSE
    /\ error' = Seed /\ expected' = FALSE /\ reauth' = FALSE
    /\ line' = Log!Silent
    /\ UNCHANGED <<reach, target, marker, refreshes>>

\* The API is closed and the coordinator gone.
Gone ==
    /\ conn' = FALSE /\ error' = None /\ expected' = FALSE /\ reauth' = FALSE
    /\ UNCHANGED host

\* async_unload_entry: only a loaded entry's clears the marker.
Unload ==
    /\ entry = "loaded" /\ Idle
    /\ entry' = "unloaded" /\ Gone
    /\ marker' = None
    /\ line' = Log!Silent
    /\ UNCHANGED <<reach, target, refreshes>>

\* The reconfigure and reauth flows change the entry's data and reload it; a
\* set-up under way is waited for.
Reconfigure ==
    /\ target' \in Targets \ {target}
    /\ \/ /\ entry = "loaded" /\ Idle
          /\ entry' = "unloaded" /\ Gone /\ marker' = None
       \/ /\ entry \in {"retry", "error"}
          /\ entry' = "unloaded"
          /\ UNCHANGED <<coordinator, marker>>
       \/ /\ ~ReconfigureWaits /\ entry = "setup"
          /\ UNCHANGED <<entry, coordinator, marker>>
    /\ line' = Log!Silent
    /\ UNCHANGED <<reach, refreshes>>

Restart ==
    /\ entry' = "unloaded" /\ Gone
    /\ marker' = None
    /\ pc' = [r \in Refreshers |-> "idle"]
    /\ exp' = [r \in Refreshers |-> FALSE] /\ queue' = <<>>
    /\ line' = Log!Silent
    /\ UNCHANGED <<reach, target>>

-----------------------------------------------------------------------------
(* The connection behind the coordinator's back.                             *)

ReachChanges ==
    /\ \E t \in Targets : \E e \in Causes \cup {Auth, Up} :
          reach' = [reach EXCEPT ![t] = e]
    /\ line' = Log!Silent
    /\ UNCHANGED <<target, marker, entry, coordinator, refreshes>>

Drop ==
    /\ conn /\ conn' = FALSE
    /\ line' = Log!Silent
    /\ UNCHANGED <<reach, target, marker, entry, refreshes>>
    /\ UNCHANGED <<host, error, expected, reauth>>

\* A service call or a push's query connects, too, without a word.
ConnectElsewhere ==
    /\ entry = "loaded" /\ ~conn /\ reach[host] = Up
    /\ InOrder => queue = <<>>
    /\ conn' = TRUE
    /\ line' = Log!Silent
    /\ UNCHANGED <<reach, target, marker, entry, refreshes>>
    /\ UNCHANGED <<host, error, expected, reauth>>

\* note_expected_disconnect, after an accepted system.reboot or shutdown.
NoteExpected ==
    /\ entry = "loaded" /\ conn
    /\ InOrder => queue = <<>>
    /\ expected' = TRUE
    /\ line' = Log!Silent
    /\ UNCHANGED <<reach, target, marker, entry, refreshes>>
    /\ UNCHANGED <<host, conn, error, reauth>>

GraceEnds ==
    /\ expected /\ expected' = FALSE
    /\ line' = Log!Silent
    /\ UNCHANGED <<reach, target, marker, entry, refreshes>>
    /\ UNCHANGED <<host, conn, error, reauth>>

-----------------------------------------------------------------------------
(* _async_ensure_connected.                                                  *)

\* _set_connection_failing(True, e); the fingerprint is the entry's, now.
SetFailing(e) ==
    error' = e /\ marker' = [target |-> target, error |-> e]

\* Mutant: the flag is cleared, its mirror stays.
NoteRecoveredHere ==
    /\ error' = None /\ UNCHANGED marker
    /\ IF error = None THEN line' = Log!Silent
       ELSE Log!Says("recovered", host, None)

\* _note_connection_recovered
NoteRecovered ==
    IF error = None
    THEN line' = Log!Silent /\ UNCHANGED <<error, marker>>
    ELSE /\ error' = None /\ marker' = None
         /\ Log!Says("recovered", host, None)

\* Mutant: a connection found to be there is not worth a word.
FoundConnectedSilently(r) ==
    /\ conn
    /\ pc' = [pc EXCEPT ![r] = "rest"]
    /\ line' = Log!Silent
    /\ UNCHANGED <<error, marker, expected, exp, queue>>

FoundConnected(r) ==
    /\ conn
    /\ NoteRecovered
    /\ pc' = [pc EXCEPT ![r] = "rest"]
    /\ UNCHANGED <<expected, exp, queue>>

\* The request for a disconnect is consumed before the attempt.
Attempts(r) ==
    /\ ~conn
    /\ exp' = [exp EXCEPT ![r] = expected] /\ expected' = FALSE
    /\ pc' = [pc EXCEPT ![r] = "connecting"]
    /\ queue' = Append(queue, r)
    /\ line' = Log!Silent
    /\ UNCHANGED <<error, marker>>

\* A refresh begins; there is only the first one during a set-up.
EnsureConnected(r) ==
    /\ pc[r] = "idle"
    /\ entry = "loaded" \/ (entry = "setup" /\ Idle)
    /\ FoundConnected(r) \/ Attempts(r)
    /\ UNCHANGED <<reach, target, entry, host, conn, reauth>>

\* The attempt of r ends.
Ends(r) ==
    /\ pc[r] = "connecting"
    /\ \E i \in DOMAIN queue :
          /\ queue[i] = r /\ (InOrder => i = 1)
          /\ queue' = RemoveAt(queue, i)
    /\ exp' = [exp EXCEPT ![r] = FALSE]

Connected(r) ==
    /\ Ends(r)
    /\ conn \/ reach[host] = Up
    /\ conn' = TRUE
    /\ IF exp[r] /\ error = None
       THEN Log!Says("over", host, None) /\ UNCHANGED <<error, marker>>
       ELSE NoteRecovered
    /\ pc' = [pc EXCEPT ![r] = "rest"]
    /\ UNCHANGED <<reach, target, entry, host, expected, reauth>>

\* Mutant: a failure that was asked for is an error like any other.
FailureUnexpected(r, e) ==
    \/ /\ error = e
       /\ Log!Says("still", host, e)
       /\ UNCHANGED <<error, marker>>
    \/ /\ error # e
       /\ Log!Says("error", host, e)
       /\ SetFailing(e)

\* What a failed attempt says: nothing new, a new cause, or, of the first
\* failure, whether it was to be expected.
Failure(r, e) ==
    \/ /\ error = e
       /\ Log!Says("still", host, e)
       /\ UNCHANGED <<error, marker>>
    \/ /\ error # e
       /\ LET kind == IF error = None /\ exp[r] THEN "requested" ELSE "error"
          IN  Log!Says(kind, host, e)
       /\ SetFailing(e)

\* A refresh is over; the next one is scheduled, unless the key was refused.
\* Its failure ends a set-up and closes the API.
RefreshOver(r, entryAfterSetup) ==
    /\ pc' = [pc EXCEPT ![r] = "idle"]
    /\ entry' = IF entry = "setup" THEN entryAfterSetup ELSE entry
    /\ reauth' = (entry' = "loaded" /\ entryAfterSetup = "error")
    /\ conn' = (conn /\ entry' # "retry")

\* Mutant: an invalid key is an outage like the others.
ConnectFailedAnyhow(r) ==
    /\ Ends(r)
    /\ reach[host] # Up
    /\ Failure(r, reach[host])
    /\ RefreshOver(r, "retry")
    /\ UNCHANGED <<reach, target, host, expected>>

ConnectFailed(r) ==
    /\ Ends(r)
    /\ reach[host] \in Causes
    /\ Failure(r, reach[host])
    /\ RefreshOver(r, "retry")
    /\ UNCHANGED <<reach, target, host, expected>>

\* An invalid key, or an exception out of aiotruenas: not an outage.
ConnectRaised(r) ==
    /\ Ends(r)
    /\ \/ reach[host] = Auth /\ RefreshOver(r, "error")
       \/ reach[host] # Auth /\ RefreshOver(r, "retry")
    /\ line' = Log!Silent
    /\ UNCHANGED <<reach, target, marker, host, error, expected>>

\* The rest of the cycle; a first refresh that fails there is retried too.
CycleEnds(r) ==
    /\ pc[r] = "rest"
    /\ RefreshOver(r, "loaded") \/ RefreshOver(r, "retry")
    /\ line' = Log!Silent
    /\ UNCHANGED <<reach, target, marker, host, error, expected, exp, queue>>

Refresh(r) ==
    \/ EnsureConnected(r) \/ Connected(r) \/ ConnectFailed(r)
    \/ ConnectRaised(r) \/ CycleEnds(r)

Next ==
    \/ Setup \/ Unload \/ Reconfigure \/ Restart
    \/ ReachChanges \/ Drop \/ ConnectElsewhere \/ NoteExpected \/ GraceEnds
    \/ \E r \in Refreshers : Refresh(r)

Spec == Init /\ [][Next]_vars

\* Set-ups are retried, refreshes come back, both unless the key was refused;
\* their attempts do not raise for ever.
Fairness ==
    /\ WF_vars(entry # "error" /\ Setup)
    /\ \A r \in Refreshers :
          /\ WF_vars((pc[r] = "idle" => ~reauth) /\ Refresh(r))
          /\ SF_vars(Connected(r))

FairSpec == Spec /\ Fairness

-----------------------------------------------------------------------------
(* Properties.                                                               *)

\* The log keeps its promise over coordinators that are recreated, refreshes
\* that overlap, and targets that change.
ImplementsOutageLog == Log!Spec

\* What a coordinator takes to be logged is what its successor would.
MarkerAgrees == Live => error = Seed

QuietWhileRequested ==
    line'.kind = "error" => error # None \/ \A r \in Refreshers : ~exp[r]

\* While a refresh is trying to connect after a disconnect that was asked for,
\* no failure of another is reported as the beginning of an outage.
RequestedIsNoError == [][QuietWhileRequested]_vars

\* The end of an outage is noticed, whoever has reconnected, unless the user
\* is asked for a new key.
OutageEnds ==
    <>[](reach[target] = Up) => []<>(Seed = None \/ entry = "error" \/ reauth)
=============================================================================
