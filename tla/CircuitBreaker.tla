--------------------------- MODULE CircuitBreaker ---------------------------
(* SubscriptionCircuitBreaker of event_push.py: the rate breaker one pushed  *)
(* source owns.  It is a value, read and replaced by PushSource.             *)
(*                                                                           *)
(* Time is abstracted to the one fact the code asks of the clock: whether    *)
(* the cooldown has elapsed since the breaker opened.                        *)
EXTENDS Naturals

CONSTANTS
    Threshold,      \* CircuitBreakerConfig.message_threshold
    Consecutive     \* CircuitBreakerConfig.consecutive_breaches_to_trip

ASSUME BreakerAssumption ==
    /\ Threshold \in Nat
    /\ Consecutive \in Nat \ {0}

Breaker == [breaches: Nat, tripped: BOOLEAN, cooled: BOOLEAN]

\* __init__, and what reset() restores.
ClosedBreaker == [breaches |-> 0, tripped |-> FALSE, cooled |-> FALSE]

Breaches(b, n) == IF n > Threshold THEN b.breaches + 1 ELSE 0

\* record_batch: an open breaker ignores the batch; the batch that completes
\* the streak opens it and starts the cooldown.
RecordBatch(b, n) ==
    IF b.tripped THEN b
    ELSE [breaches |-> Breaches(b, n),
          tripped  |-> Breaches(b, n) >= Consecutive,
          cooled   |-> FALSE]

\* record_batch's result: did this batch open the breaker?
JustTripped(b, n) == ~b.tripped /\ RecordBatch(b, n).tripped

\* The clock passes _opened_at + cooldown.
Cooled(b) == [b EXCEPT !.cooled = TRUE]

\* An open breaker keeps the source on polling until should_attempt_reset().
Blocks(b) == b.tripped /\ ~b.cooled

\* reset(), called only on an open breaker.
ResetIfOpen(b) == IF b.tripped THEN ClosedBreaker ELSE b
=============================================================================
