---------------------------- MODULE MCPushSource ----------------------------
(* PushSource for TLC: model values for tasks and subscriptions.            *)
EXTENDS PushSource, TLC

CONSTANTS p1, p2, s1, s2, s3, unload, none

OnePoll == {p1}
TwoPolls == {p1, p2}
TwoSubs == {s1, s2}
ThreeSubs == {s1, s2, s3}

\* Subscription ids are interchangeable, and so are polls (safety runs only).
Symmetry == Permutations(Subs) \cup Permutations(Polls)

\* Liveness is judged under fair scheduling, and Resubscribes also needs a
\* server that does not fail for ever.
HealthySpec == FairSpec /\ HealthyServer
=============================================================================
