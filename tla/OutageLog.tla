----------------------------- MODULE OutageLog -----------------------------
(* What the log promises about the outages of a TrueNAS: every cause of an   *)
(* outage is reported once, nothing else is an error, a recovery is reported *)
(* of a failure only, and no failure stays silent that the user was not told *)
(* of (coordinator.py, _async_ensure_connected).                             *)

CONSTANTS Targets, Causes, None

VARIABLES
    told,   \* per target, the cause the user knows of
    line    \* what the last step logged

vars == <<told, line>>

Kinds == {"none", "error", "requested", "still", "recovered", "over"}
Line == [kind: Kinds, host: Targets \cup {None}, cause: Causes \cup {None}]

Silent == [kind |-> "none", host |-> None, cause |-> None]

Says(kind, t, e) == line' = [kind |-> kind, host |-> t, cause |-> e]

Init == told = [t \in Targets |-> None] /\ line = Silent

\* Only one target is remembered: to tell of t may be to forget the others.
TellsOnly(t, e) ==
    told' = [u \in Targets |-> IF u = t THEN e ELSE None]

\* A cause that is news is an error, unless the user asked for the outage and
\* this is its beginning.
Fail(t, e) ==
    /\ told[t] # e
    /\ TellsOnly(t, e)
    /\ \/ Says("error", t, e)
       \/ told[t] = None /\ Says("requested", t, e)

StillFails(t) == told[t] # None /\ Says("still", t, told[t]) /\ told' = told

Recover(t) ==
    /\ told[t] # None
    /\ TellsOnly(t, None) /\ Says("recovered", t, None)

\* A requested outage is over before any attempt has failed.
RequestOver(t) == told[t] = None /\ told' = told /\ Says("over", t, None)

\* A reload or a restart starts afresh.
Forget == told' = [t \in Targets |-> None] /\ line' = Silent

Nothing == told' = told /\ line' = Silent

Next ==
    \/ \E t \in Targets :
          \/ \E e \in Causes : Fail(t, e)
          \/ StillFails(t) \/ Recover(t) \/ RequestOver(t)
    \/ Forget \/ Nothing

Spec == Init /\ [][Next]_vars
=============================================================================
