-------------------------- MODULE PushSource_proofs -------------------------
(* Theorems about PushSource, for any number of polls and subscriptions.     *)
EXTENDS PushSource, TLAPS

-----------------------------------------------------------------------------
(* Type correctness.                                                         *)

StopTypes ==
    /\ subId' \in Subs \cup {None} /\ consumer' \in Subs \cup {None}
    /\ event' \in {OldEvent, NewEvent, None}
    /\ held' \in [Subs -> BOOLEAN]
    /\ pc' \in [Actors -> PCs]
    /\ arg' \in [Actors -> Subs \cup {None}]
    /\ \A p \in Polls : pc'[p] = "adopt" => arg'[p] \in Subs

\* What stopping does to the handle and the tasks is well typed
\* (_stop_push_subscription).
LEMMA ClearSubscriptionType ==
    ASSUME TypeOK, NEW a \in Actors, ClearSubscription(a), held' = held
    PROVE  StopTypes
<1>1. PcAfterStop(a) \in PCs \ {"adopt"}
  BY DEF PcAfterStop, PcAfterGate, PCs
<1> QED
  BY <1>1 DEF TypeOK, ClearSubscription, StopTypes, Actors

\* The same of what follows the stop of the consumer.
LEMMA StopRestType ==
    ASSUME TypeOK, NEW a \in Actors, StopRest(a), held' \in [Subs -> BOOLEAN]
    PROVE  StopTypes
<1>1. PcAfterStop(a) \in PCs \ {"adopt"}
  BY DEF PcAfterStop, PcAfterGate, PCs
<1>2. CASE subId # None /\ conn
  BY <1>2 DEF TypeOK, StopRest, StopTypes, handle, PCs, Actors
<1>3. CASE ~(subId # None /\ conn)
  BY <1>1, <1>3 DEF TypeOK, StopRest, ClearSubscription, StopTypes, Actors
<1> QED
  BY <1>2, <1>3

\* The same of a whole stop.
LEMMA StopBeginType ==
    ASSUME TypeOK, NEW a \in Actors, StopBegin(a)
    PROVE  StopTypes
<1>1. CASE MustAwait(a)
  <2>1. consumer \in Subs /\ consumer \in Actors
    BY <1>1 DEF TypeOK, MustAwait, Actors
  <2>2. /\ held' = [held EXCEPT ![consumer] = FALSE]
        /\ pc' = [pc EXCEPT ![a] = "await", ![consumer] = "cancelled"]
        /\ arg' = [arg EXCEPT ![a] = consumer]
        /\ UNCHANGED handle
    BY <1>1 DEF StopBegin
  <2>3. held' \in [Subs -> BOOLEAN]
    BY <2>1, <2>2 DEF TypeOK
  <2>4. pc' \in [Actors -> PCs] /\ arg' \in [Actors -> Subs \cup {None}]
    BY <2>1, <2>2 DEF TypeOK, PCs
  <2>5. \A p \in Polls : pc'[p] = "adopt" => arg'[p] \in Subs
    BY <2>1, <2>2 DEF TypeOK, Actors
  <2> QED
    BY <2>2, <2>3, <2>4, <2>5 DEF TypeOK, StopTypes, handle
<1>2. CASE ~MustAwait(a)
  <2>1. held' \in [Subs -> BOOLEAN] /\ StopRest(a)
    BY <1>2 DEF TypeOK, StopBegin
  <2> QED
    BY <2>1, StopRestType
<1> QED
  BY <1>1, <1>2

\* The breaker's operations keep it a breaker.
LEMMA BreakerType ==
    ASSUME NEW b \in Breaker, NEW n \in Nat
    PROVE  /\ RecordBatch(b, n) \in Breaker
           /\ Cooled(b) \in Breaker
           /\ ResetIfOpen(b) \in Breaker
<1>1. Breaches(b, n) \in Nat /\ b.breaches \in Nat /\ b.tripped \in BOOLEAN
  BY DEF Breaker, Breaches
<1>2. RecordBatch(b, n) \in Breaker
  BY <1>1, BreakerAssumption DEF Breaker, RecordBatch
<1>3. Cooled(b) \in Breaker
  BY DEF Breaker, Cooled
<1>4. ResetIfOpen(b) \in Breaker
  BY DEF Breaker, ResetIfOpen, ClosedBreaker
<1> QED
  BY <1>2, <1>3, <1>4

\* The gate in front of a subscription leaves a breaker.
LEMMA BreakerOfType ==
    ASSUME TypeOK, NEW a \in Actors, BreakerOf(a)
    PROVE  breaker' \in Breaker
BY BreakerType DEF TypeOK, BreakerOf

\* The server, the connection and the queues keep their types, whatever the
\* environment does (Change, Drop, Upgrade, Cooldown).
LEMMA EnvironmentType == TypeOK /\ Environment => TypeOK'
<1> SUFFICES ASSUME TypeOK, Environment PROVE TypeOK'
  OBVIOUS
<1>1. CASE Change
  <2>1. /\ msgs' \in [Subs -> 0..MaxMsgs] /\ owed' \in [Subs -> Nat]
        /\ srv' \in Nat
    BY <1>1, PushSourceAssumption DEF TypeOK, Change
  <2> QED
    BY <1>1, <2>1 DEF TypeOK, Change, handle
<1>2. CASE Drop
  <2>1. ended' \in [Subs -> BOOLEAN] /\ live' \subseteq Subs
    BY <1>2 DEF TypeOK, Drop, Teardown
  <2> QED
    BY <1>2, <2>1 DEF TypeOK, Drop, Teardown, handle
<1>3. CASE Upgrade
  BY <1>3 DEF TypeOK, Upgrade, handle
<1>4. CASE Cooldown
  BY <1>4, BreakerType DEF TypeOK, Cooldown, handle, server
<1> QED
  BY <1>1, <1>2, <1>3, <1>4 DEF Environment

\* A query's outcome writes a version and remembers a failure.
LEMMA OutcomeType ==
    ASSUME TypeOK, NEW a \in Actors, Release(a), WriteOrKeep(a)
    PROVE  /\ view' \in Nat /\ failed' \subseteq Subs
           /\ lock' \in Actors \cup {None}
           /\ ans' \in [Actors -> Nat \cup {None}]
<1>1. lock' \in Actors \cup {None} /\ ans' \in [Actors -> Nat \cup {None}]
  BY DEF TypeOK, Release
<1>2. CASE ans[a] # None /\ view' = ans[a] /\ failed' = failed \ {a}
  BY <1>1, <1>2 DEF TypeOK
<1>3. CASE view' = view /\ failed' = failed \cup ({a} \cap Subs)
  BY <1>1, <1>3 DEF TypeOK
<1> QED
  BY <1>2, <1>3 DEF WriteOrKeep

\* A poll (get_<source>) keeps the types.
LEMMA PollType ==
    ASSUME TypeOK, NEW p \in Polls, Poll(p)
    PROVE  TypeOK'
<1>0. p \in Actors
  BY DEF Actors
<1>1. CASE PollStart(p)
  BY <1>0, <1>1 DEF TypeOK, PollStart, RefreshEntry, PCs, handle, Actors
<1>2. CASE PollRefreshed(p)
  <2>1. /\ pc' \in [Actors -> PCs]
        /\ \A q \in Polls : pc'[q] = "adopt" => arg'[q] \in Subs
    BY <1>0, <1>2 DEF TypeOK, PollRefreshed, PCs, Actors
  <2> QED
    BY <1>0, <1>2, <2>1, OutcomeType DEF TypeOK, PollRefreshed, server, handle
<1>3. CASE PollRaised(p)
  BY <1>0, <1>3 DEF TypeOK, PollRaised, Release, PCs, server, handle, Actors
<1>4. CASE Ensure(p)
  <2>1. want' \in [Polls -> {OldEvent, NewEvent}]
    BY <1>4 DEF TypeOK, Ensure
  <2>2. breaker' \in Breaker
    BY <1>0, <1>4, BreakerOfType DEF Ensure
  <2>3. StopTypes
    <3>1. CASE StopBegin(p)
      BY <1>0, <3>1, StopBeginType
    <3>2. CASE pc' = [pc EXCEPT ![p] = "idle"] /\ UNCHANGED <<handle, held, arg>>
      BY <1>0, <3>2 DEF TypeOK, StopTypes, PCs, handle, Actors
    <3>3. CASE /\ pc' = [pc EXCEPT ![p] = PcAfterGate]
               /\ UNCHANGED <<handle, held, arg>>
      BY <1>0, <3>3 DEF TypeOK, StopTypes, PCs, PcAfterGate, handle, Actors
    <3> QED
      BY <1>4, <3>1, <3>2, <3>3 DEF Ensure
  <2> QED
    BY <1>4, <2>1, <2>2, <2>3 DEF TypeOK, Ensure, StopTypes, server
<1>5. CASE Subscribed(p)
  BY <1>0, <1>5 DEF TypeOK, Subscribed, PCs, handle, Actors
<1>6. CASE SubscribeFailed(p)
  BY <1>0, <1>6 DEF TypeOK, SubscribeFailed, PCs, server, handle, Actors
<1>7. CASE Adopt(p)
  <2>1. arg[p] \in Subs
    BY <1>7 DEF TypeOK, Adopt
  <2> QED
    BY <1>0, <1>7, <2>1 DEF TypeOK, Adopt, PCs, server, Actors
<1> QED
  BY <1>1, <1>2, <1>3, <1>4, <1>5, <1>6, <1>7 DEF Poll

\* A consumer (SubscriptionPushConsumer._run) keeps the types.
LEMMA ConsumerType ==
    ASSUME TypeOK, NEW s \in Subs, Consumer(s)
    PROVE  TypeOK'
<1>0. s \in Actors
  BY DEF Actors
<1>1. CASE Collect(s)
  <2> PICK n \in 1..msgs[s] :
        /\ msgs' = [msgs EXCEPT ![s] = @ - n]
        /\ \E e \in {FALSE, ended[s] /\ n = msgs[s]} :
              ending' = [ending EXCEPT ![s] = e]
        /\ breaker' = RecordBatch(breaker, n)
        /\ IF JustTripped(breaker, n)
           THEN StopBegin(s)
           ELSE /\ pc' = [pc EXCEPT ![s] = RefreshEntry]
                /\ UNCHANGED <<handle, held, arg>>
    BY <1>1 DEF Collect
  <2>1. msgs' \in [Subs -> 0..MaxMsgs]
    BY PushSourceAssumption DEF TypeOK
  <2>2. ending' \in [Subs -> BOOLEAN]
    BY DEF TypeOK
  <2>3. breaker' \in Breaker
    BY BreakerType, PushSourceAssumption DEF TypeOK
  <2>4. StopTypes
    <3>1. CASE StopBegin(s)
      BY <1>0, <3>1, StopBeginType
    <3>2. CASE /\ pc' = [pc EXCEPT ![s] = RefreshEntry]
               /\ UNCHANGED <<handle, held, arg>>
      BY <1>0, <3>2 DEF TypeOK, StopTypes, RefreshEntry, PCs, handle, Actors
    <3> QED
      BY <3>1, <3>2
  <2> QED
    BY <1>1, <2>1, <2>2, <2>3, <2>4 DEF TypeOK, Collect, StopTypes
<1>2. CASE CollectEnd(s)
  BY <1>0, <1>2, StopBeginType DEF TypeOK, CollectEnd, StopTypes, server
<1>3. CASE Flushed(s)
  <2>1. StopTypes
    <3>1. CASE StopBegin(s)
      BY <1>0, <3>1, StopBeginType
    <3>2. CASE /\ pc' = [pc EXCEPT ![s] = "collect"]
               /\ UNCHANGED <<handle, held, arg>>
      BY <1>0, <3>2 DEF TypeOK, StopTypes, PCs, handle, Actors
    <3> QED
      BY <1>3, <3>1, <3>2 DEF Flushed
  <2> QED
    BY <1>0, <1>3, <2>1, OutcomeType DEF TypeOK, Flushed, StopTypes, server
<1>4. CASE FlushRaised(s)
  <2>1. StopTypes
    BY <1>0, <1>4, StopBeginType DEF FlushRaised
  <2> QED
    BY <1>0, <1>4, <2>1 DEF TypeOK, FlushRaised, Release, StopTypes, server
<1>5. CASE Cancelled(s)
  BY <1>0, <1>5 DEF TypeOK, Cancelled, PCs, server, handle, Actors
<1> QED
  BY <1>1, <1>2, <1>3, <1>4, <1>5 DEF Consumer

\* Acquiring the lock and a server's answer keep the types.
LEMMA RefreshType ==
    ASSUME TypeOK, NEW a \in Polls \cup Subs, Refresh(a)
    PROVE  TypeOK'
<1>0. a \in Actors
  BY DEF Actors
<1>1. CASE AcquireLock(a)
  BY <1>0, <1>1 DEF TypeOK, AcquireLock, PCs, server, handle, Actors
<1>2. CASE Answer(a)
  BY <1>0, <1>2 DEF TypeOK, Answer, server, handle
<1> QED
  BY <1>1, <1>2 DEF Refresh

\* The suspended parts of a stop, and the unload, keep the types.
LEMMA StoppingType ==
    ASSUME TypeOK, NEW a \in Actors, Stopping(a)
    PROVE  TypeOK'
<1>1. CASE AwaitStopped(a)
  <2>1. StopTypes
    BY <1>1, StopRestType DEF TypeOK, AwaitStopped
  <2>2. breaker' \in Breaker
    BY <1>1, BreakerOfType DEF AwaitStopped
  <2> QED
    BY <1>1, <2>1, <2>2 DEF TypeOK, AwaitStopped, StopTypes, server
<1>2. CASE Forget(a)
  BY <1>2, PushSourceAssumption DEF TypeOK, Forget, handle
<1>3. CASE Unsubscribed(a)
  <2>1. StopTypes
    BY <1>3, ClearSubscriptionType DEF Unsubscribed
  <2>2. breaker' \in Breaker
    BY <1>3, BreakerOfType DEF Unsubscribed
  <2> QED
    BY <1>3, <2>1, <2>2 DEF TypeOK, Unsubscribed, StopTypes, server
<1> QED
  BY <1>1, <1>2, <1>3 DEF Stopping

\* The unload keeps the types.
LEMMA UnloadType ==
    ASSUME TypeOK, UnloadStop \/ UnloadClose
    PROVE  TypeOK'
<1>0. Unload \in Actors
  BY DEF Actors
<1>1. CASE UnloadStop
  BY <1>0, <1>1, StopBeginType DEF TypeOK, UnloadStop, StopTypes, server
<1>2. CASE UnloadClose
  BY <1>0, <1>2, PushSourceAssumption
  DEF TypeOK, UnloadClose, Teardown, PCs, handle, Actors
<1> QED
  BY <1>1, <1>2

\* Type correctness: every variable of the source keeps its type, and a poll
\* adopts a subscription only.
THEOREM TypeCorrect == Spec => []TypeOK
<1>1. Init => TypeOK
  <2> SUFFICES ASSUME Init PROVE TypeOK
    OBVIOUS
  <2>1. breaker \in Breaker
    BY DEF Init, Breaker, ClosedBreaker
  <2>2. pc \in [Actors -> PCs] /\ \A p \in Polls : pc[p] # "adopt"
    BY DEF Init, PCs, Actors
  <2>3. msgs \in [Subs -> 0..MaxMsgs]
    BY PushSourceAssumption DEF Init
  <2> QED
    BY <2>1, <2>2, <2>3 DEF Init, TypeOK
<1>2. TypeOK /\ [Next]_vars => TypeOK'
  <2> SUFFICES ASSUME TypeOK, [Next]_vars PROVE TypeOK'
    OBVIOUS
  <2>1. CASE Next
    BY <2>1, EnvironmentType, PollType, ConsumerType, RefreshType,
       StoppingType, UnloadType DEF Next
  <2>2. CASE UNCHANGED vars
    BY <2>2 DEF vars, TypeOK
  <2> QED
    BY <2>1, <2>2
<1> QED
  BY <1>1, <1>2, PTL DEF Spec

-----------------------------------------------------------------------------
(* The data shown only moves forward.  The argument: with the lock, only its *)
(* holder is between its query and its write, so nothing is shown between    *)
(* the moment the server answers the holder and the moment the holder writes;*)
(* the answer is therefore never older than what it replaces.                *)

RefreshInv == LockInv /\ AnswerInv

\* Nobody starts a query, and if a is named, a is not querying either.
NoNewQuery == \A b \in Actors : pc'[b] = "query" => pc[b] = "query"

\* Stopping a subscription starts no query, and ends the caller's.
LEMMA StopStartsNoQuery ==
    ASSUME TypeOK, NEW a \in Actors,
           StopBegin(a) \/ StopRest(a) \/ ClearSubscription(a)
    PROVE  NoNewQuery /\ pc'[a] # "query"
<1>0. PcAfterStop(a) # "query"
  BY DEF PcAfterStop, PcAfterGate
<1>1. CASE ClearSubscription(a)
  BY <1>0, <1>1 DEF TypeOK, ClearSubscription, NoNewQuery
<1>2. CASE StopRest(a)
  BY <1>0, <1>1, <1>2 DEF TypeOK, StopRest, NoNewQuery
<1>3. CASE StopBegin(a)
  <2>1. CASE MustAwait(a)
    BY <1>3, <2>1 DEF TypeOK, StopBegin, MustAwait, NoNewQuery
  <2>2. CASE ~MustAwait(a)
    BY <1>2, <1>3, <2>2 DEF StopBegin
  <2> QED
    BY <2>1, <2>2
<1> QED
  BY <1>1, <1>2, <1>3

\* A step that starts no query, writes nothing and leaves lock and replies
\* alone preserves the invariant, also when the server's data changes.
LEMMA QuietStep ==
    ASSUME TypeOK, RefreshInv, NoNewQuery, UNCHANGED <<lock, ans, view>>,
           srv' \in {srv, srv + 1}
    PROVE  RefreshInv'
<1>1. srv' \in Nat /\ srv <= srv'
  BY DEF TypeOK
<1>2. LockInv'
  BY DEF RefreshInv, LockInv, NoNewQuery
<1>3. ASSUME NEW a \in Actors, pc'[a] = "query", ans'[a] # None
      PROVE  view' <= ans'[a] /\ ans'[a] <= srv'
  <2>1. view <= ans[a] /\ ans[a] <= srv
    BY <1>3 DEF RefreshInv, AnswerInv, NoNewQuery
  <2>2. ans[a] \in Nat
    BY <1>3 DEF TypeOK
  <2> QED
    BY <1>1, <2>1, <2>2 DEF TypeOK
<1>4. view' <= srv'
  BY <1>1 DEF TypeOK, RefreshInv, AnswerInv
<1> QED
  BY <1>2, <1>3, <1>4 DEF RefreshInv, AnswerInv

\* The holder's outcome moves the data forward, never past the server's.
LEMMA OutcomeStep ==
    ASSUME TypeOK, RefreshInv, Locked, NEW a \in Actors, Release(a),
           view' = view \/ (ans[a] # None /\ view' = ans[a]),
           srv' = srv, NoNewQuery, pc'[a] # "query"
    PROVE  RefreshInv' /\ view' \in view..srv
<1>1. lock = a /\ pc[a] = "query"
  BY DEF Release, RefreshInv, LockInv
<1>2. \A b \in Actors : pc'[b] # "query"
  BY <1>1 DEF NoNewQuery, RefreshInv, LockInv
<1>3. view' \in view..srv
  BY <1>1 DEF TypeOK, RefreshInv, AnswerInv
<1> QED
  BY <1>2, <1>3 DEF TypeOK, RefreshInv, LockInv, AnswerInv

\* Every step of a locked source preserves the invariant and is, for the
\* data shown, a step of ForwardView or none.
LEMMA RefreshStep ==
    ASSUME TypeOK, RefreshInv, Locked, Next
    PROVE  RefreshInv' /\ (Forward!Next \/ UNCHANGED Forward!vars)
<1> DEFINE Same == srv' = srv /\ view' = view
<1>1. CASE Environment
  <2>1. /\ NoNewQuery /\ UNCHANGED <<lock, ans, view>>
        /\ srv' \in {srv, srv + 1}
    BY <1>1 DEF Environment, Change, Drop, Teardown, Upgrade, Cooldown, server,
                NoNewQuery
  <2>2. RefreshInv'
    BY <2>1, QuietStep
  <2> QED
    BY <2>1, <2>2 DEF Forward!Next, Forward!Change, Forward!vars
<1>2. ASSUME NEW p \in Polls, Poll(p)
      PROVE  RefreshInv' /\ (Forward!Next \/ UNCHANGED Forward!vars)
  <2>0. p \in Actors
    BY DEF Actors
  <2>1. CASE PollRefreshed(p)
    <3>1. /\ Release(p) /\ srv' = srv /\ NoNewQuery /\ pc'[p] # "query"
          /\ view' = view \/ (ans[p] # None /\ view' = ans[p])
      BY <2>0, <2>1 DEF TypeOK, PollRefreshed, WriteOrKeep, server, NoNewQuery
    <3>2. RefreshInv' /\ view' \in view..srv
      BY <2>0, <3>1, OutcomeStep
    <3> QED
      BY <3>1, <3>2 DEF Forward!Next, Forward!Show
  <2>2. CASE PollRaised(p)
    <3>1. /\ Release(p) /\ Same /\ NoNewQuery /\ pc'[p] # "query"
      BY <2>0, <2>2 DEF TypeOK, PollRaised, server, NoNewQuery
    <3>2. RefreshInv'
      BY <2>0, <3>1, OutcomeStep
    <3> QED
      BY <3>1, <3>2 DEF Forward!vars
  <2>3. CASE /\ PollStart(p) \/ Ensure(p) \/ Subscribed(p)
                \/ SubscribeFailed(p) \/ Adopt(p)
    <3>1. Same /\ UNCHANGED <<lock, ans>>
      BY <2>3 DEF PollStart, Ensure, Subscribed, SubscribeFailed, Adopt, server
    <3>2. NoNewQuery
      <4>1. CASE Ensure(p) /\ StopBegin(p)
        BY <2>0, <4>1, StopStartsNoQuery
      <4>2. CASE Ensure(p) /\ ~StopBegin(p)
        BY <2>0, <4>2 DEF TypeOK, Ensure, PcAfterGate, NoNewQuery
      <4>3. CASE PollStart(p) \/ Subscribed(p) \/ SubscribeFailed(p) \/ Adopt(p)
        BY <2>0, <4>3
        DEF TypeOK, PollStart, RefreshEntry, Subscribed, SubscribeFailed, Adopt,
            NoNewQuery
      <4> QED
        BY <2>3, <4>1, <4>2, <4>3
    <3>3. RefreshInv'
      BY <3>1, <3>2, QuietStep
    <3> QED
      BY <3>1, <3>3 DEF Forward!vars
  <2> QED
    BY <1>2, <2>1, <2>2, <2>3 DEF Poll
<1>3. ASSUME NEW s \in Subs, Consumer(s)
      PROVE  RefreshInv' /\ (Forward!Next \/ UNCHANGED Forward!vars)
  <2>0. s \in Actors
    BY DEF Actors
  <2>1. CASE Flushed(s)
    <3>1. NoNewQuery /\ pc'[s] # "query"
      <4>1. CASE StopBegin(s)
        BY <2>0, <4>1, StopStartsNoQuery
      <4>2. CASE ~StopBegin(s)
        BY <2>0, <2>1, <4>2 DEF TypeOK, Flushed, NoNewQuery
      <4> QED
        BY <4>1, <4>2
    <3>2. /\ Release(s) /\ srv' = srv
          /\ view' = view \/ (ans[s] # None /\ view' = ans[s])
      BY <2>1 DEF Flushed, WriteOrKeep, server
    <3>3. RefreshInv' /\ view' \in view..srv
      BY <2>0, <3>1, <3>2, OutcomeStep
    <3> QED
      BY <3>2, <3>3 DEF Forward!Next, Forward!Show
  <2>2. CASE FlushRaised(s)
    <3>1. Release(s) /\ Same
      BY <2>2 DEF FlushRaised, server
    <3>2. NoNewQuery /\ pc'[s] # "query"
      BY <2>0, <2>2, StopStartsNoQuery DEF FlushRaised
    <3>3. RefreshInv'
      BY <2>0, <3>1, <3>2, OutcomeStep
    <3> QED
      BY <3>1, <3>3 DEF Forward!vars
  <2>3. CASE Collect(s) \/ CollectEnd(s)
    <3>1. Same /\ UNCHANGED <<lock, ans>>
      BY <2>3 DEF Collect, CollectEnd, server
    <3>2. NoNewQuery
      <4>1. CASE StopBegin(s)
        BY <2>0, <4>1, StopStartsNoQuery
      <4>2. CASE ~StopBegin(s)
        BY <2>0, <2>3, <4>2
        DEF TypeOK, Collect, CollectEnd, RefreshEntry, NoNewQuery
      <4> QED
        BY <4>1, <4>2
    <3>3. RefreshInv'
      BY <3>1, <3>2, QuietStep
    <3> QED
      BY <3>1, <3>3 DEF Forward!vars
  <2>4. CASE Cancelled(s)
    <3>1. Same /\ NoNewQuery /\ pc[s] = "cancelled" /\ pc'[s] = "done"
      BY <2>0, <2>4 DEF TypeOK, Cancelled, server, NoNewQuery
    <3>2. ASSUME NEW b \in Actors, pc'[b] = "query"
          PROVE  lock' = b /\ ans'[b] = ans[b] /\ pc[b] = "query"
      BY <2>0, <2>4, <3>1, <3>2
      DEF TypeOK, Cancelled, NoNewQuery, RefreshInv, LockInv
    <3>3. RefreshInv'
      BY <3>1, <3>2 DEF RefreshInv, LockInv, AnswerInv
    <3> QED
      BY <3>1, <3>3 DEF Forward!vars
  <2> QED
    BY <1>3, <2>1, <2>2, <2>3, <2>4 DEF Consumer
<1>4. ASSUME NEW a \in Polls \cup Subs, Refresh(a)
      PROVE  RefreshInv' /\ (Forward!Next \/ UNCHANGED Forward!vars)
  <2>0. a \in Actors
    BY DEF Actors
  <2>1. Same
    BY <1>4 DEF Refresh, AcquireLock, Answer, server
  <2>2. CASE AcquireLock(a)
    <3>1. \A b \in Actors : pc'[b] = "query" => b = a
      BY <2>0, <2>2, PushSourceAssumption
      DEF TypeOK, AcquireLock, RefreshInv, LockInv
    <3>2. lock' = a /\ ans'[a] = None
      BY <2>0, <2>2 DEF TypeOK, AcquireLock
    <3> QED
      BY <2>1, <3>1, <3>2 DEF RefreshInv, LockInv, AnswerInv, Forward!vars
  <2>3. CASE Answer(a)
    <3>1. \A b \in Actors : ans'[b] = IF b = a THEN srv ELSE ans[b]
      BY <2>0, <2>3 DEF TypeOK, Answer
    <3>2. UNCHANGED <<pc, lock>>
      BY <2>3 DEF Answer
    <3> QED
      BY <2>1, <3>1, <3>2
      DEF TypeOK, RefreshInv, LockInv, AnswerInv, Forward!vars
  <2> QED
    BY <1>4, <2>2, <2>3 DEF Refresh
<1>5. ASSUME NEW a \in Actors, Stopping(a)
      PROVE  RefreshInv' /\ (Forward!Next \/ UNCHANGED Forward!vars)
  <2>1. Same /\ UNCHANGED <<lock, ans>>
    BY <1>5 DEF Stopping, AwaitStopped, Forget, Unsubscribed, server
  <2>2. NoNewQuery
    BY <1>5, StopStartsNoQuery
    DEF Stopping, AwaitStopped, Forget, Unsubscribed, NoNewQuery
  <2>3. RefreshInv'
    BY <2>1, <2>2, QuietStep
  <2> QED
    BY <2>1, <2>3 DEF Forward!vars
<1>6. CASE UnloadStop \/ UnloadClose
  <2>0. Unload \in Actors
    BY DEF Actors
  <2>1. Same /\ UNCHANGED <<lock, ans>>
    BY <1>6 DEF UnloadStop, UnloadClose, server
  <2>2. NoNewQuery
    <3>1. CASE UnloadStop
      BY <2>0, <3>1, StopStartsNoQuery DEF UnloadStop
    <3>2. CASE UnloadClose
      BY <2>0, <3>2 DEF TypeOK, UnloadClose, NoNewQuery
    <3> QED
      BY <1>6, <3>1, <3>2
  <2>3. RefreshInv'
    BY <2>1, <2>2, QuietStep
  <2> QED
    BY <2>1, <2>3 DEF Forward!vars
<1> QED
  BY <1>1, <1>2, <1>3, <1>4, <1>5, <1>6 DEF Next

\* The invariant of a source behind the lock.
LEMMA RefreshInvariant == ASSUME Locked PROVE Spec => [](TypeOK /\ RefreshInv)
<1>1. Init => RefreshInv
  BY DEF Init, RefreshInv, LockInv, AnswerInv
<1>2. TypeOK /\ RefreshInv /\ [Next]_vars => RefreshInv'
  <2>1. CASE UNCHANGED vars
    BY <2>1 DEF vars, RefreshInv, LockInv, AnswerInv
  <2> QED
    BY <2>1, RefreshStep
<1> QED
  BY <1>1, <1>2, TypeCorrect, PTL DEF Spec

\* Whatever its polls, consumers and unload do, a source behind the lock is
\* refreshed by one task at a time (_refresh_locked).
THEOREM OneRefresh == ASSUME Locked PROVE Spec => []LockInv
<1>1. RefreshInv => LockInv
  BY DEF RefreshInv
<1> QED
  BY <1>1, RefreshInvariant, PTL

\* A reply about to be written is never older than what is shown, and nothing
\* shown is newer than the server's data.
THEOREM AnswersAreFresh == ASSUME Locked PROVE Spec => []AnswerInv
<1>1. RefreshInv => AnswerInv
  BY DEF RefreshInv
<1> QED
  BY <1>1, RefreshInvariant, PTL

\* A source behind the lock implements ForwardView: polls and pushes, however
\* they overlap, only move the data shown forward.
THEOREM LockedImplementsForwardView ==
    ASSUME Locked PROVE Spec => ImplementsForwardView
<1>1. Init => Forward!Init
  BY DEF Init, Forward!Init
<1>2. TypeOK /\ RefreshInv /\ [Next]_vars => [Forward!Next]_(Forward!vars)
  <2>1. CASE UNCHANGED vars
    BY <2>1 DEF vars, Forward!vars
  <2> QED
    BY <2>1, RefreshStep
<1> QED
  BY <1>1, <1>2, RefreshInvariant, PTL DEF Spec, ImplementsForwardView, Forward!Spec

\* The same as an action property: no step takes the data back.
THEOREM LockedMovesForward == ASSUME Locked PROVE Spec => ViewForward
<1>1. TypeOK /\ RefreshInv /\ [Next]_vars => [view' >= view]_vars
  <2>1. ASSUME TypeOK, RefreshInv, Next PROVE view' >= view
    <3>1. view' \in view..srv \/ view' = view
      BY <2>1, RefreshStep
      DEF Forward!Next, Forward!Show, Forward!Change, Forward!vars
    <3> QED
      BY <2>1, <3>1 DEF TypeOK
  <2> QED
    BY <2>1
<1> QED
  BY <1>1, RefreshInvariant, PTL DEF Spec, ViewForward

-----------------------------------------------------------------------------
(* No push is lost.  Two more invariants: a subscription a poll is about to  *)
(* adopt has a consumer that has not run, and what a consumer owes is in its *)
(* queue, in the reply it is about to write, or shown, unless its last query *)
(* failed.                                                                   *)

AdoptInv ==
    /\ \A s \in Subs : s \notin used => pc[s] = "idle"
    /\ consumer # None => pc[consumer] # "idle"
    /\ \A p \in Polls : pc[p] = "adopt" => arg[p] \in used /\ pc[arg[p]] = "idle"
    /\ \A p, q \in Polls :
          pc[p] = "adopt" /\ pc[q] = "adopt" /\ arg[p] = arg[q] => p = q

DebtInv ==
    \A s \in Subs :
       /\ owed[s] <= srv
       /\ msgs[s] = 0 =>
            /\ pc[s] = "idle" => owed[s] = 0
            /\ pc[s] = "collect" => owed[s] <= view \/ s \in failed
            /\ pc[s] = "query" /\ ans[s] # None => owed[s] <= ans[s]

\* A step of a task that touches no other task, except to cancel the source's
\* consumer, and that adopts nothing.
Local(a) ==
    /\ a \in Subs => pc[a] # "idle" /\ pc'[a] # "idle"
    /\ pc'[a] # "adopt"
    /\ \A b \in Actors \ {a} :
          /\ pc'[b] = pc[b] \/ (b \in Subs /\ b = consumer /\ pc'[b] = "cancelled")
          /\ arg'[b] = arg[b]
    /\ consumer' \in {consumer, None}

\* Stopping a subscription is such a step; it leads to no refresh.
LEMMA StopIsLocal ==
    ASSUME TypeOK, NEW a \in Actors, a \in Subs => pc[a] # "idle",
           StopBegin(a) \/ StopRest(a) \/ ClearSubscription(a)
    PROVE  Local(a) /\ pc'[a] \notin {"collect", "query"}
<1>0. PcAfterStop(a) \notin {"adopt", "collect", "query"}
      /\ (a \in Subs => PcAfterStop(a) # "idle")
  BY PushSourceAssumption DEF PcAfterStop, PcAfterGate
<1>1. CASE ClearSubscription(a)
  BY <1>0, <1>1 DEF TypeOK, ClearSubscription, Local
<1>2. CASE StopRest(a)
  BY <1>0, <1>1, <1>2 DEF TypeOK, StopRest, handle, Local
<1>3. CASE StopBegin(a)
  <2>1. CASE MustAwait(a)
    BY <1>3, <2>1 DEF TypeOK, StopBegin, MustAwait, handle, Local
  <2>2. CASE ~MustAwait(a)
    BY <1>2, <1>3, <2>2 DEF StopBegin
  <2> QED
    BY <2>1, <2>2
<1> QED
  BY <1>1, <1>2, <1>3

\* What a stop does to the consumers: at most one other is cancelled, and the
\* caller, if a consumer, refreshes no more.
LEMMA StopOfConsumers ==
    ASSUME TypeOK, NEW a \in Actors, a \in Subs => pc[a] # "idle",
           StopBegin(a) \/ StopRest(a) \/ ClearSubscription(a),
           NEW s \in Subs
    PROVE  \/ s # a /\ pc'[s] \in {pc[s], "cancelled"}
           \/ s = a /\ pc'[s] \notin {"idle", "collect", "query"}
<1>1. Local(a) /\ pc'[a] \notin {"collect", "query"}
  BY StopIsLocal
<1>2. s \in Actors
  BY DEF Actors
<1> QED
  BY <1>1, <1>2 DEF Local

\* A local step preserves AdoptInv.
LEMMA LocalKeepsAdoptInv ==
    ASSUME TypeOK, AdoptInv, NEW a \in Actors, Local(a), used' = used
    PROVE  AdoptInv'
<1>1. \A b \in Actors : pc'[b] = "adopt" => b # a /\ pc[b] = "adopt" /\ arg'[b] = arg[b]
  BY DEF Local
<1>2. \A s \in Subs : pc[s] = "idle" <=> pc'[s] = "idle"
  BY PushSourceAssumption DEF Local, AdoptInv, Actors
<1>3. \A s \in Subs : s \notin used' => pc'[s] = "idle"
  BY <1>2 DEF AdoptInv
<1>4. consumer' # None => pc'[consumer'] # "idle"
  BY <1>2 DEF TypeOK, Local, AdoptInv
<1>5. \A p \in Polls : pc'[p] = "adopt" => arg'[p] \in used' /\ pc'[arg'[p]] = "idle"
  BY <1>1, <1>2 DEF TypeOK, AdoptInv, Actors
<1>6. \A p, q \in Polls :
        pc'[p] = "adopt" /\ pc'[q] = "adopt" /\ arg'[p] = arg'[q] => p = q
  BY <1>1 DEF AdoptInv, Actors
<1> QED
  BY <1>3, <1>4, <1>5, <1>6 DEF AdoptInv

\* Every step preserves AdoptInv.
LEMMA AdoptStep ==
    ASSUME TypeOK, AdoptInv, Next
    PROVE  AdoptInv'
<1>1. CASE Environment
  <2>1. UNCHANGED <<pc, arg, consumer, used>>
    BY <1>1 DEF Environment, Change, Drop, Upgrade, Cooldown, server, handle
  <2> QED
    BY <2>1 DEF AdoptInv
<1>2. ASSUME NEW p \in Polls, Poll(p) PROVE AdoptInv'
  <2>0. p \in Actors /\ p \notin Subs
    BY PushSourceAssumption DEF Actors
  <2>1. CASE Subscribed(p)
    <3> PICK s \in Subs \ used :
          used' = used \cup {s} /\ arg' = [arg EXCEPT ![p] = s]
      BY <2>1 DEF Subscribed
    <3>1. pc' = [pc EXCEPT ![p] = "adopt"] /\ consumer' = consumer
      BY <2>1 DEF Subscribed, handle
    <3>2. pc[s] = "idle" /\ s # p
      BY <2>0 DEF AdoptInv
    <3>3. \A q \in Polls \ {p} : pc'[q] = pc[q] /\ arg'[q] = arg[q]
      BY <3>1 DEF TypeOK, Actors
    <3>4. \A t \in Subs : pc'[t] = pc[t]
      BY <2>0, <3>1 DEF TypeOK, Actors
    <3>5. pc'[p] = "adopt" /\ arg'[p] = s
      BY <2>0, <3>1 DEF TypeOK
    <3>6. \A q \in Polls : pc'[q] = "adopt" => arg'[q] \in used' /\ pc'[arg'[q]] = "idle"
      BY <3>2, <3>3, <3>4, <3>5 DEF TypeOK, AdoptInv
    <3>7. \A q, r \in Polls :
            pc'[q] = "adopt" /\ pc'[r] = "adopt" /\ arg'[q] = arg'[r] => q = r
      BY <3>3, <3>5 DEF AdoptInv
    <3>8. consumer' # None => pc'[consumer'] # "idle"
      BY <3>1, <3>4 DEF TypeOK, AdoptInv
    <3> QED
      BY <3>4, <3>6, <3>7, <3>8 DEF AdoptInv
  <2>2. CASE Adopt(p)
    <3> DEFINE s == arg[p]
    <3>1. s \in Subs /\ s \in used /\ pc[p] = "adopt" /\ s # p
      BY <2>0, <2>2 DEF TypeOK, Adopt, AdoptInv
    <3>2. /\ pc' = [pc EXCEPT ![p] = "idle", ![s] = "collect"]
          /\ arg' = [arg EXCEPT ![p] = None]
          /\ consumer' = s /\ used' = used
      BY <2>2 DEF Adopt, server
    <3>3. pc'[p] = "idle" /\ pc'[s] = "collect"
      BY <2>0, <3>1, <3>2 DEF TypeOK, Actors
    <3>4. \A b \in Actors \ {p, s} : pc'[b] = pc[b] /\ arg'[b] = arg[b]
      BY <3>2 DEF TypeOK
    <3>5. \A q \in Polls : pc'[q] = "adopt"
             => q # p /\ pc[q] = "adopt" /\ arg'[q] = arg[q] /\ arg[q] # s
      BY <3>1, <3>3, <3>4, PushSourceAssumption DEF AdoptInv, Actors
    <3>6. \A q \in Polls : pc'[q] = "adopt" => arg'[q] \in used' /\ pc'[arg'[q]] = "idle"
      BY <2>0, <3>2, <3>4, <3>5 DEF TypeOK, AdoptInv, Actors
    <3>7. \A q, r \in Polls :
            pc'[q] = "adopt" /\ pc'[r] = "adopt" /\ arg'[q] = arg'[r] => q = r
      BY <3>5 DEF AdoptInv
    <3>8. \A t \in Subs : t \notin used' => pc'[t] = "idle"
      BY <2>0, <3>1, <3>2, <3>4 DEF AdoptInv, Actors
    <3> QED
      BY <3>2, <3>3, <3>6, <3>7, <3>8 DEF AdoptInv
  <2>3. CASE Ensure(p)
    <3>1. Local(p)
      <4>1. CASE StopBegin(p)
        BY <2>0, <4>1, StopIsLocal
      <4>2. CASE ~StopBegin(p)
        BY <2>0, <2>3, <4>2 DEF TypeOK, Ensure, PcAfterGate, handle, Local
      <4> QED
        BY <4>1, <4>2
    <3> QED
      BY <2>0, <2>3, <3>1, LocalKeepsAdoptInv DEF Ensure, server
  <2>4. CASE PollStart(p) \/ PollRefreshed(p) \/ PollRaised(p) \/ SubscribeFailed(p)
    <3>1. Local(p) /\ used' = used
      BY <2>0, <2>4 DEF TypeOK, PollStart, PollRefreshed, PollRaised,
         SubscribeFailed, RefreshEntry, Local, handle, server
    <3> QED
      BY <2>0, <3>1, LocalKeepsAdoptInv
  <2> QED
    BY <1>2, <2>1, <2>2, <2>3, <2>4 DEF Poll
<1>3. ASSUME NEW s \in Subs, Consumer(s) PROVE AdoptInv'
  <2>0. s \in Actors /\ pc[s] # "idle"
    BY <1>3 DEF Actors, Consumer, Collect, CollectEnd, Flushed, FlushRaised,
                Cancelled, Release
  <2>1. Local(s)
    <3>1. CASE StopBegin(s)
      BY <2>0, <3>1, StopIsLocal
    <3>2. CASE ~StopBegin(s)
      BY <1>3, <2>0, <3>2 DEF TypeOK, Consumer, Collect, CollectEnd, Flushed,
         FlushRaised, Cancelled, RefreshEntry, Local, handle
    <3> QED
      BY <3>1, <3>2
  <2>2. used' = used
    BY <1>3 DEF Consumer, Collect, CollectEnd, Flushed, FlushRaised, Cancelled,
                server
  <2> QED
    BY <2>0, <2>1, <2>2, LocalKeepsAdoptInv
<1>4. ASSUME NEW a \in Polls \cup Subs, Refresh(a) PROVE AdoptInv'
  <2>1. a \in Actors /\ Local(a) /\ used' = used
    BY <1>4 DEF TypeOK, Refresh, AcquireLock, Answer, Local, handle, server, Actors
  <2> QED
    BY <2>1, LocalKeepsAdoptInv
<1>5. ASSUME NEW a \in Actors, Stopping(a) PROVE AdoptInv'
  <2>1. CASE Forget(a)
    BY <2>1 DEF Forget, handle, AdoptInv
  <2>2. CASE AwaitStopped(a) \/ Unsubscribed(a)
    <3>1. Local(a) /\ used' = used
      BY <2>2, StopIsLocal DEF AwaitStopped, Unsubscribed, server
    <3> QED
      BY <3>1, LocalKeepsAdoptInv
  <2> QED
    BY <1>5, <2>1, <2>2 DEF Stopping
<1>6. CASE UnloadStop \/ UnloadClose
  <2>0. Unload \in Actors /\ Unload \notin Subs
    BY PushSourceAssumption DEF Actors
  <2>1. Local(Unload) /\ used' = used
    <3>1. CASE UnloadStop
      BY <2>0, <3>1, StopIsLocal DEF UnloadStop, server
    <3>2. CASE UnloadClose
      BY <2>0, <3>2 DEF TypeOK, UnloadClose, Local, handle
    <3> QED
      BY <1>6, <3>1, <3>2
  <2> QED
    BY <2>0, <2>1, LocalKeepsAdoptInv
<1> QED
  BY <1>1, <1>2, <1>3, <1>4, <1>5, <1>6 DEF Next

-----------------------------------------------------------------------------
(* The debt of the consumers.                                                *)

\* A step that sends no message and changes no query's reply leaves every
\* debt where it was: no task starts waiting or answering.
Settled ==
    /\ owed' = owed /\ failed' = failed /\ msgs' = msgs /\ srv' = srv
    /\ view' \in Nat /\ view <= view'
    /\ \A s \in Subs :
          /\ pc'[s] = pc[s] \/ pc'[s] \notin {"idle", "collect", "query"}
          /\ ans'[s] = ans[s] \/ ans'[s] = None

LEMMA SettledKeepsDebtInv ==
    ASSUME TypeOK, DebtInv, Settled
    PROVE  DebtInv'
<1> SUFFICES ASSUME NEW s \in Subs
             PROVE  /\ owed'[s] <= srv'
                    /\ msgs'[s] = 0 =>
                         /\ pc'[s] = "idle" => owed'[s] = 0
                         /\ pc'[s] = "collect" => owed'[s] <= view' \/ s \in failed'
                         /\ pc'[s] = "query" /\ ans'[s] # None
                               => owed'[s] <= ans'[s]
  BY DEF DebtInv
<1> QED
  BY DEF TypeOK, Settled, DebtInv

\* Every step of a locked source preserves DebtInv.
LEMMA DebtStep ==
    ASSUME TypeOK, RefreshInv, AdoptInv, DebtInv, Locked, Next
    PROVE  DebtInv'
<1>0. view' \in Nat /\ view <= view' /\ srv' \in {srv, srv + 1}
  BY RefreshStep DEF TypeOK, Forward!Next, Forward!Show, Forward!Change, Forward!vars
<1>1. CASE Environment
  <2>1. CASE Change
    <3>1. \A s \in Subs : msgs'[s] = 0 => owed'[s] = owed[s] /\ msgs[s] = 0
      BY <2>1, PushSourceAssumption DEF TypeOK, Change
    <3>2. \A s \in Subs : owed'[s] <= srv'
      BY <2>1 DEF TypeOK, Change, DebtInv
    <3>3. UNCHANGED <<pc, ans, view, failed>>
      BY <2>1 DEF Change
    <3> QED
      BY <3>1, <3>2, <3>3 DEF DebtInv
  <2>2. CASE Drop \/ Upgrade \/ Cooldown
    <3>1. Settled
      BY <1>0, <2>2 DEF Drop, Upgrade, Cooldown, server, Settled
    <3> QED
      BY <3>1, SettledKeepsDebtInv
  <2> QED
    BY <1>1, <2>1, <2>2 DEF Environment
<1>2. ASSUME NEW p \in Polls, Poll(p) PROVE DebtInv'
  <2>0. p \in Actors /\ p \notin Subs
    BY PushSourceAssumption DEF Actors
  <2>1. CASE Adopt(p)
    <3> DEFINE s == arg[p]
    <3>1. s \in Subs /\ pc[s] = "idle" /\ s # p
      BY <2>0, <2>1 DEF TypeOK, Adopt, AdoptInv
    <3>2. pc'[s] = "collect" /\ \A t \in Subs \ {s} : pc'[t] = pc[t]
      BY <2>0, <2>1, <3>1 DEF TypeOK, Adopt, Actors
    <3>3. UNCHANGED <<owed, failed, msgs, srv, view, ans>>
      BY <2>1 DEF Adopt, server
    <3>4. msgs[s] = 0 => owed[s] <= view
      BY <3>1 DEF TypeOK, DebtInv
    <3> HIDE DEF s
    <3>5. ASSUME NEW t \in Subs
          PROVE  /\ owed[t] <= srv
                 /\ msgs[t] = 0 =>
                      /\ pc'[t] = "idle" => owed[t] = 0
                      /\ pc'[t] = "collect" => owed[t] <= view \/ t \in failed
                      /\ pc'[t] = "query" /\ ans[t] # None => owed[t] <= ans[t]
      <4>1. CASE t = s
        BY <3>2, <3>4, <4>1 DEF DebtInv
      <4>2. CASE t # s
        BY <3>2, <4>2 DEF DebtInv
      <4> QED
        BY <4>1, <4>2
    <3> QED
      BY <3>3, <3>5 DEF DebtInv
  <2>2. CASE ~Adopt(p)
    <3>0. failed' = failed
      <4>1. CASE PollRefreshed(p)
        <5>1. failed \ {p} = failed /\ failed \cup ({p} \cap Subs) = failed
          BY <2>0 DEF TypeOK
        <5> QED
          BY <4>1, <5>1 DEF PollRefreshed, WriteOrKeep
      <4>2. CASE ~PollRefreshed(p)
        BY <1>2, <2>2, <4>2 DEF Poll, PollStart, PollRaised, Ensure, Subscribed,
           SubscribeFailed
      <4> QED
        BY <4>1, <4>2
    <3>1. owed' = owed /\ failed' = failed /\ msgs' = msgs /\ srv' = srv
      BY <1>2, <2>2, <3>0 DEF Poll, PollStart, PollRefreshed, PollRaised,
         Ensure, Subscribed, SubscribeFailed, server
    <3>2. \A s \in Subs : ans'[s] = ans[s] \/ ans'[s] = None
      BY <1>2, <2>2 DEF TypeOK, Poll, PollStart, PollRefreshed, PollRaised,
         Release, Ensure, Subscribed, SubscribeFailed, Actors
    <3>3. \A s \in Subs : pc'[s] = pc[s] \/ pc'[s] = "cancelled"
      <4>1. CASE Ensure(p) /\ StopBegin(p)
        <5>1. ASSUME NEW s \in Subs PROVE pc'[s] \in {pc[s], "cancelled"}
          BY <2>0, <4>1, StopOfConsumers
        <5> QED
          BY <5>1
      <4>2. CASE ~(Ensure(p) /\ StopBegin(p))
        BY <1>2, <2>0, <2>2, <4>2 DEF TypeOK, Poll, PollStart, PollRefreshed,
           PollRaised, Ensure, Subscribed, SubscribeFailed, Actors
      <4> QED
        BY <4>1, <4>2
    <3>4. Settled
      BY <1>0, <3>1, <3>2, <3>3 DEF Settled
    <3> QED
      BY <3>4, SettledKeepsDebtInv
  <2> QED
    BY <2>1, <2>2
<1>3. ASSUME NEW s \in Subs, Consumer(s) PROVE DebtInv'
  <2>0. s \in Actors /\ pc[s] # "idle"
    BY <1>3 DEF Actors, Consumer, Collect, CollectEnd, Flushed, FlushRaised,
                Cancelled, Release
  <2>1. ASSUME StopBegin(s) \/ Cancelled(s) PROVE
          \A t \in Subs : pc'[t] = pc[t] \/ pc'[t] \notin {"idle", "collect", "query"}
    <3>1. CASE Cancelled(s)
      BY <2>0, <3>1 DEF TypeOK, Cancelled
    <3>2. CASE StopBegin(s)
      BY <2>0, <3>2, StopOfConsumers
    <3> QED
      BY <2>1, <3>1, <3>2
  <2>2. CASE Collect(s)
    <3>1. \A t \in Subs : (pc'[t] = pc[t] /\ t # s)
                       \/ pc'[t] \notin {"idle", "collect", "query"}
      <4>1. CASE StopBegin(s)
        <5>1. ASSUME NEW t \in Subs
              PROVE  \/ t # s /\ pc'[t] \in {pc[t], "cancelled"}
                     \/ t = s /\ pc'[t] \notin {"idle", "collect", "query"}
          BY <2>0, <4>1, StopOfConsumers
        <5>2. \A t \in Subs : pc'[t] \in {pc[t], "cancelled"} =>
                pc'[t] = pc[t] \/ pc'[t] \notin {"idle", "collect", "query"}
          OBVIOUS
        <5> QED
          BY <5>1, <5>2
      <4>2. CASE ~StopBegin(s)
        BY <2>0, <2>2, <4>2 DEF TypeOK, Collect, RefreshEntry, Actors
      <4> QED
        BY <4>1, <4>2
    <3>2. /\ UNCHANGED <<owed, failed, srv, view, ans>>
          /\ \A t \in Subs \ {s} : msgs'[t] = msgs[t]
      BY <2>2 DEF TypeOK, Collect
    <3> QED
      BY <3>1, <3>2 DEF DebtInv
  <2>3. CASE Flushed(s)
    <3>1. ASSUME NEW t \in Subs
          PROVE  \/ pc'[t] = pc[t] /\ t # s
                 \/ pc'[t] \notin {"idle", "collect", "query"}
                 \/ t = s /\ pc'[s] = "collect"
      <4>1. CASE StopBegin(s)
        BY <2>0, <4>1, StopOfConsumers
      <4>2. CASE ~StopBegin(s)
        BY <2>0, <2>3, <4>2 DEF TypeOK, Flushed, Actors
      <4> QED
        BY <4>1, <4>2
    <3>2. /\ msgs' = msgs /\ srv' = srv
          /\ owed' = owed /\ failed' \in {failed \ {s}, failed \cup {s}}
          /\ \A t \in Subs \ {s} : ans'[t] = ans[t]
      BY <2>3 DEF TypeOK, Flushed, Release, WriteOrKeep, server, Actors
    <3>3. /\ owed'[s] <= srv'
          /\ msgs[s] = 0 => owed'[s] <= view' \/ s \in failed'
      <4>1. pc[s] = "query"
        BY <2>3 DEF Flushed, Release
      <4>2. CASE ans[s] # None /\ view' = ans[s]
        BY <3>2, <4>1, <4>2 DEF DebtInv
      <4>3. CASE failed' = failed \cup ({s} \cap Subs)
        BY <3>2, <4>3 DEF DebtInv
      <4> QED
        BY <2>3, <4>2, <4>3 DEF Flushed, WriteOrKeep
    <3>4. ASSUME NEW t \in Subs \ {s}
          PROVE  /\ owed'[t] <= srv'
                 /\ msgs'[t] = 0 =>
                      /\ pc'[t] = "idle" => owed'[t] = 0
                      /\ pc'[t] = "collect" => owed'[t] <= view' \/ t \in failed'
                      /\ pc'[t] = "query" /\ ans'[t] # None
                            => owed'[t] <= ans'[t]
      BY <1>0, <3>1, <3>2, <3>4 DEF TypeOK, DebtInv
    <3>5. msgs'[s] = 0 => /\ pc'[s] = "idle" => owed'[s] = 0
                          /\ pc'[s] = "collect" => owed'[s] <= view' \/ s \in failed'
                          /\ pc'[s] # "query"
      BY <3>1, <3>2, <3>3
    <3> QED
      BY <3>3, <3>4, <3>5 DEF DebtInv
  <2>4. CASE CollectEnd(s) \/ FlushRaised(s) \/ Cancelled(s)
    <3>1. owed' = owed /\ failed' = failed /\ msgs' = msgs /\ srv' = srv
      BY <2>4 DEF CollectEnd, FlushRaised, Cancelled, server
    <3>2. \A t \in Subs : ans'[t] = ans[t] \/ ans'[t] = None
      BY <2>4 DEF TypeOK, CollectEnd, FlushRaised, Release, Cancelled, Actors
    <3>3. \A t \in Subs : pc'[t] = pc[t] \/ pc'[t] \notin {"idle", "collect", "query"}
      BY <2>1, <2>4 DEF CollectEnd, FlushRaised
    <3>4. Settled
      BY <1>0, <3>1, <3>2, <3>3 DEF Settled
    <3> QED
      BY <3>4, SettledKeepsDebtInv
  <2> QED
    BY <1>3, <2>2, <2>3, <2>4 DEF Consumer
<1>4. ASSUME NEW a \in Polls \cup Subs, Refresh(a) PROVE DebtInv'
  <2>0. a \in Actors
    BY DEF Actors
  <2>1. CASE AcquireLock(a)
    <3>1. ASSUME NEW s \in Subs
          PROVE  \/ pc'[s] = pc[s] /\ ans'[s] = ans[s]
                 \/ pc'[s] = "query" /\ ans'[s] = None
      <4>1. s \in Actors
        BY DEF Actors
      <4>2. CASE s = a
        BY <2>0, <2>1, <4>2 DEF TypeOK, AcquireLock
      <4>3. CASE s # a
        BY <2>0, <2>1, <4>1, <4>3 DEF TypeOK, AcquireLock
      <4> QED
        BY <4>2, <4>3
    <3>2. UNCHANGED <<owed, failed, msgs, srv, view>>
      BY <2>1 DEF AcquireLock, server
    <3> QED
      BY <3>1, <3>2 DEF DebtInv
  <2>2. CASE Answer(a)
    <3>1. \A s \in Subs : ans'[s] = ans[s] \/ ans'[s] = srv
      BY <2>0, <2>2 DEF TypeOK, Answer, Actors
    <3>2. UNCHANGED <<owed, failed, msgs, srv, view, pc>>
      BY <2>2 DEF Answer, server
    <3> QED
      BY <3>1, <3>2 DEF TypeOK, DebtInv
  <2> QED
    BY <1>4, <2>1, <2>2 DEF Refresh
<1>5. ASSUME NEW a \in Actors, Stopping(a) PROVE DebtInv'
  <2>1. UNCHANGED <<owed, failed, msgs, srv, ans>>
    BY <1>5 DEF Stopping, AwaitStopped, Forget, Unsubscribed, server
  <2>2. \A s \in Subs : pc'[s] = pc[s] \/ pc'[s] \notin {"idle", "collect", "query"}
    <3>1. CASE Forget(a)
      BY <3>1 DEF Forget
    <3>2. CASE AwaitStopped(a) \/ Unsubscribed(a)
      BY <3>2, StopOfConsumers DEF AwaitStopped, Unsubscribed
    <3> QED
      BY <1>5, <3>1, <3>2 DEF Stopping
  <2>3. Settled
    BY <1>0, <2>1, <2>2 DEF Settled
  <2> QED
    BY <2>3, SettledKeepsDebtInv
<1>6. CASE UnloadStop \/ UnloadClose
  <2>0. Unload \in Actors /\ Unload \notin Subs
    BY PushSourceAssumption DEF Actors
  <2>1. UNCHANGED <<owed, failed, msgs, srv, ans>>
    BY <1>6 DEF UnloadStop, UnloadClose, server
  <2>2. \A s \in Subs : pc'[s] = pc[s] \/ pc'[s] \notin {"idle", "collect", "query"}
    <3>1. CASE UnloadStop
      BY <2>0, <3>1, StopOfConsumers DEF UnloadStop
    <3>2. CASE UnloadClose
      BY <2>0, <3>2 DEF TypeOK, UnloadClose, Actors
    <3> QED
      BY <1>6, <3>1, <3>2
  <2>3. Settled
    BY <1>0, <2>1, <2>2 DEF Settled
  <2> QED
    BY <2>3, SettledKeepsDebtInv
<1> QED
  BY <1>1, <1>2, <1>3, <1>4, <1>5, <1>6 DEF Next

\* No push is lost by a locked source: a consumer waiting for its next message
\* has shown every change it was ever told of, whatever arrived during its
\* flushes and whatever polls wrote meanwhile, unless its last query failed
\* without raising (then what it owes is shown by the next refresh).
THEOREM NoPushLost == ASSUME Locked PROVE Spec => []PushNotLost
<1>1. Init => AdoptInv /\ DebtInv
  <2> SUFFICES ASSUME Init PROVE AdoptInv /\ DebtInv
    OBVIOUS
  <2>1. \A a \in Actors : pc[a] = "idle"
    BY DEF Init
  <2> QED
    BY <2>1 DEF Init, AdoptInv, DebtInv, Actors
<1>2. TypeOK /\ RefreshInv /\ AdoptInv /\ DebtInv /\ [Next]_vars
        => AdoptInv' /\ DebtInv'
  <2>1. CASE UNCHANGED vars
    BY <2>1 DEF vars, AdoptInv, DebtInv
  <2> QED
    BY <2>1, AdoptStep, DebtStep
<1>3. DebtInv => PushNotLost
  BY DEF DebtInv, PushNotLost
<1> QED
  BY <1>1, <1>2, <1>3, RefreshInvariant, PTL DEF Spec
-----------------------------------------------------------------------------
(* No consumer is orphaned.  While the source is loaded, what its one poll   *)
(* stops and starts is all that changes whose consumer runs: a consumer that *)
(* runs is held, only the handle's is held, and whoever waits for a stop, or *)
(* has yet to adopt, does so with no consumer held.                          *)

AtMostOnePoll == \A p, q \in Polls : p = q

Running == {"collect", "lock", "query"}

NoneHeld == \A s \in Subs : ~held[s]

Attached ==
    /\ subId = consumer
    /\ \A s \in Subs : held[s] => consumer = s
    /\ \A s \in Subs : pc[s] \in Running => held[s]
    /\ \A s \in Subs : pc[s] # "await"
    /\ \A a \in Polls \cup Subs : pc[a] \in {"await", "unsub"} => NoneHeld
    /\ \A p \in Polls : pc[p] \in {"subscribe", "adopt"} => consumer = None
    /\ \A p \in Polls : pc[p] = "adopt" => \A s \in Subs : pc[s] # "unsub"

\* A task that goes from one step to the next without stopping or starting a
\* consumer leaves the consumers attached.
LEMMA MoveKeepsAttached ==
    ASSUME TypeOK, Attached, NEW a \in Polls \cup Subs, NEW x \in PCs,
           x \notin {"await", "unsub", "subscribe", "adopt"},
           a \in Subs /\ x \in Running => held[a],
           pc' = [pc EXCEPT ![a] = x], UNCHANGED <<handle, held>>
    PROVE  Attached'
<1>1. subId' = subId /\ consumer' = consumer /\ held' = held
  BY DEF handle
<1>2. pc'[a] = x /\ \A b \in Actors \ {a} : pc'[b] = pc[b]
  BY DEF TypeOK, Actors
<1>3. Polls \subseteq Actors /\ Subs \subseteq Actors /\ a \in Actors
  BY DEF Actors
<1>4. \A s \in Subs : pc'[s] \in Running => held[s]
  BY <1>2, <1>3 DEF Attached
<1>5. \A s \in Subs : pc'[s] # "await"
  BY <1>2, <1>3 DEF Attached
<1>6. \A b \in Polls \cup Subs : pc'[b] \in {"await", "unsub"} => NoneHeld
  BY <1>2, <1>3 DEF Attached
<1>7. \A p \in Polls : pc'[p] \in {"subscribe", "adopt"} => consumer = None
  BY <1>2, <1>3 DEF Attached
<1>8. \A p \in Polls : pc'[p] = "adopt" => \A s \in Subs : pc'[s] # "unsub"
  BY <1>2, <1>3 DEF Attached
<1> QED
  BY <1>1, <1>4, <1>5, <1>6, <1>7, <1>8 DEF Attached, NoneHeld

\* The end of a stop, when no consumer is held and none but the caller runs
\* (_stop_push_subscription after consumer.stop()).
LEMMA StopRestKeepsAttached ==
    ASSUME TypeOK, Attached, NEW a \in Polls \cup Subs,
           NoneHeld', \A s \in Subs : pc[s] \in Running => s = a,
           a \in Subs => \A p \in Polls : pc[p] # "adopt",
           StopRest(a) \/ ClearSubscription(a)
    PROVE  Attached'
<1>0. Polls \subseteq Actors /\ Subs \subseteq Actors /\ a \in Actors /\ a # Unload
  BY PushSourceAssumption DEF Actors
<1>1. /\ \A b \in Actors \ {a} : pc'[b] = pc[b]
      /\ \/ pc'[a] = "unsub" /\ subId' = subId /\ consumer' = consumer
         \/ /\ subId' = None /\ consumer' = None
            /\ pc'[a] = PcAfterStop(a)
  BY <1>0 DEF TypeOK, StopRest, ClearSubscription, handle
<1>2. a \in Subs => PcAfterStop(a) = "done"
  BY PushSourceAssumption DEF PcAfterStop
<1>3. a \in Polls => PcAfterStop(a) \in {"idle", "subscribe"}
  BY PushSourceAssumption DEF PcAfterStop, PcAfterGate
<1>4. subId' = consumer'
  BY <1>1 DEF Attached
<1>5. \A s \in Subs : pc'[s] \notin Running
  BY <1>0, <1>1, <1>2, PushSourceAssumption DEF Running
<1>6. \A s \in Subs : pc'[s] # "await"
  BY <1>0, <1>1, <1>2 DEF Attached
<1>7. \A p \in Polls : pc'[p] \in {"subscribe", "adopt"} => consumer' = None
  BY <1>0, <1>1, <1>3 DEF Attached
<1>8. \A p \in Polls : pc'[p] = "adopt" => \A s \in Subs : pc'[s] # "unsub"
  BY <1>0, <1>1, <1>3, PushSourceAssumption DEF Attached
<1> QED
  BY <1>4, <1>5, <1>6, <1>7, <1>8 DEF Attached, NoneHeld

\* A whole stop, by a poll or by the running consumer itself, ends with no
\* consumer held.
LEMMA StopBeginKeepsAttached ==
    ASSUME TypeOK, Attached, NEW a \in Polls \cup Subs,
           a \in Subs => held[a], StopBegin(a)
    PROVE  Attached'
<1>0. Polls \subseteq Actors /\ Subs \subseteq Actors /\ a \in Actors
      /\ a \notin Polls \cap Subs
  BY PushSourceAssumption DEF Actors
<1>1. a \in Subs => consumer = a
  BY DEF Attached
<1>2. \A s \in Subs : pc[s] \in Running => held[s] /\ consumer = s
  BY DEF Attached
<1>3. a \in Subs => \A p \in Polls : pc[p] # "adopt"
  BY <1>0, <1>1, PushSourceAssumption DEF Attached
<1>4. CASE MustAwait(a)
  <2>1. /\ consumer \in Subs /\ consumer # a /\ a \in Polls
        /\ held' = [held EXCEPT ![consumer] = FALSE]
        /\ pc' = [pc EXCEPT ![a] = "await", ![consumer] = "cancelled"]
        /\ subId' = subId /\ consumer' = consumer
    BY <1>1, <1>4 DEF TypeOK, MustAwait, StopBegin, handle
  <2>2. \A s \in Subs : ~held'[s]
    BY <2>1 DEF TypeOK, Attached
  <2>3. /\ pc'[a] = "await" /\ pc'[consumer] = "cancelled"
        /\ \A b \in Actors \ {a, consumer} : pc'[b] = pc[b]
    BY <1>0, <2>1 DEF TypeOK
  <2>4. \A s \in Subs : pc'[s] \notin Running /\ pc'[s] # "await"
    BY <1>0, <1>2, <2>1, <2>3 DEF Attached, Running
  <2>5. \A p \in Polls : pc'[p] \in {"subscribe", "adopt"} => pc'[p] = pc[p]
    BY <1>0, <2>1, <2>3
  <2>6. \A p \in Polls : pc'[p] \in {"subscribe", "adopt"} => consumer' = None
    BY <2>1, <2>5 DEF Attached
  <2>7. \A p \in Polls : pc'[p] = "adopt" => \A s \in Subs : pc'[s] # "unsub"
    BY <2>1, <2>6, PushSourceAssumption DEF Actors
  <2> QED
    BY <2>1, <2>2, <2>4, <2>6, <2>7 DEF Attached, NoneHeld
<1>5. CASE ~MustAwait(a)
  <2>1. held' = IF consumer = a THEN [held EXCEPT ![a] = FALSE] ELSE held
    BY <1>5 DEF StopBegin
  <2>2. \A s \in Subs : held[s] => s = a
    BY <1>5, PushSourceAssumption DEF Attached, MustAwait, Actors
  <2>3. \A s \in Subs : ~held'[s]
    BY <1>1, <2>1, <2>2 DEF TypeOK
  <2>4. StopRest(a) /\ \A s \in Subs : pc[s] \in Running => s = a
    BY <1>2, <1>5, <2>2 DEF StopBegin
  <2>5. NoneHeld'
    BY <2>3 DEF NoneHeld
  <2> QED
    BY <1>3, <2>4, <2>5, StopRestKeepsAttached
<1> QED
  BY <1>4, <1>5

\* The stop of a task that waited for it, when nothing is held any more.
LEMMA StoppedKeepsAttached ==
    ASSUME TypeOK, Attached, NEW a \in Polls \cup Subs, NoneHeld, held' = held,
           \/ a \in Polls /\ StopRest(a)
           \/ pc[a] = "unsub" /\ ClearSubscription(a)
    PROVE  Attached'
<1>1. NoneHeld' /\ \A s \in Subs : pc[s] \notin Running
  BY DEF Attached, NoneHeld
<1>2. a \in Subs => pc[a] = "unsub"
  BY PushSourceAssumption
<1>3. a \in Subs => \A p \in Polls : pc[p] # "adopt"
  BY <1>2 DEF Attached
<1> QED
  BY <1>1, <1>3, StopRestKeepsAttached

\* A poll's new consumer is the only one held, for there was none.
LEMMA AdoptKeepsAttached ==
    ASSUME TypeOK, Attached, AtMostOnePoll, NEW p \in Polls, Adopt(p)
    PROVE  Attached'
<1> DEFINE s == arg[p]
<1>0. Polls \subseteq Actors /\ Subs \subseteq Actors /\ p \notin Subs
  BY PushSourceAssumption DEF Actors
<1>1. pc[p] = "adopt" /\ s \in Subs
  BY DEF TypeOK, Adopt
<1>2. consumer = None /\ \A t \in Subs : ~held[t] /\ pc[t] # "unsub"
  BY <1>0, <1>1, PushSourceAssumption DEF Attached, Actors
<1>3. \A t \in Subs : pc[t] \notin Running
  BY <1>2 DEF Attached
<1>4. /\ subId' = s /\ consumer' = s
      /\ held' = [held EXCEPT ![s] = TRUE]
      /\ pc' = [pc EXCEPT ![p] = "idle", ![s] = "collect"]
  BY DEF Adopt
<1>5. held'[s] = TRUE /\ \A t \in Subs \ {s} : held'[t] = held[t]
  BY <1>1, <1>4 DEF TypeOK
<1>6. /\ pc'[p] = "idle" /\ pc'[s] = "collect"
      /\ \A b \in Actors \ {p, s} : pc'[b] = pc[b]
  BY <1>0, <1>1, <1>4 DEF TypeOK
<1>7. \A q \in Polls : pc'[q] = "idle"
  BY <1>6 DEF AtMostOnePoll
<1>8. \A t \in Subs : held'[t] => consumer' = t
  BY <1>2, <1>4, <1>5
<1>9. \A t \in Subs : pc'[t] \in Running => held'[t]
  BY <1>0, <1>3, <1>5, <1>6
<1>10. \A t \in Subs : pc'[t] \notin {"await", "unsub"}
  BY <1>0, <1>2, <1>6 DEF Attached
<1> QED
  BY <1>4, <1>7, <1>8, <1>9, <1>10 DEF Attached

\* An unload that has begun stays begun.
LEMMA UnloadGoesOn ==
    ASSUME TypeOK, Next, Loaded'
    PROVE  Loaded
<1>0. Unload \in Actors /\ Unload \notin Polls \cup Subs
  BY PushSourceAssumption DEF Actors
<1>1. CASE Environment
  BY <1>1 DEF Environment, Change, Drop, Upgrade, Cooldown, Loaded
<1>2. CASE UnloadStop \/ UnloadClose
  <2>1. CASE UnloadStop
    BY <2>1 DEF UnloadStop, Loaded
  <2>2. CASE UnloadClose
    BY <1>0, <2>2 DEF TypeOK, UnloadClose, Loaded
  <2> QED
    BY <1>2, <2>1, <2>2
<1>3. ASSUME NEW a \in Actors,
             StopBegin(a) \/ StopRest(a) \/ ClearSubscription(a)
      PROVE  a # Unload => Loaded
  BY <1>0, <1>3 DEF TypeOK, StopBegin, StopRest, ClearSubscription, MustAwait,
                    Loaded
<1>4. ASSUME NEW p \in Polls, Poll(p) PROVE Loaded
  <2>1. p \in Actors /\ p # Unload
    BY <1>0 DEF Actors
  <2>2. CASE StopBegin(p)
    BY <1>3, <2>1, <2>2
  <2>3. CASE Adopt(p)
    BY <1>0, <2>1, <2>3 DEF TypeOK, Adopt, Loaded
  <2>4. CASE ~StopBegin(p) /\ ~Adopt(p)
    BY <1>0, <1>4, <2>1, <2>4 DEF TypeOK, Poll, PollStart, PollRefreshed,
       PollRaised, Ensure, Subscribed, SubscribeFailed, Loaded
  <2> QED
    BY <2>2, <2>3, <2>4
<1>5. ASSUME NEW s \in Subs, Consumer(s) PROVE Loaded
  <2>1. s \in Actors /\ s # Unload
    BY <1>0 DEF Actors
  <2>2. CASE StopBegin(s)
    BY <1>3, <2>1, <2>2
  <2>3. CASE ~StopBegin(s)
    BY <1>0, <1>5, <2>1, <2>3 DEF TypeOK, Consumer, Collect, CollectEnd,
       Flushed, FlushRaised, Cancelled, Loaded
  <2> QED
    BY <2>2, <2>3
<1>6. ASSUME NEW a \in Polls \cup Subs, Refresh(a) PROVE Loaded
  BY <1>0, <1>6 DEF TypeOK, Refresh, AcquireLock, Answer, Loaded
<1>7. ASSUME NEW a \in Actors, Stopping(a) PROVE Loaded
  <2>1. CASE Forget(a)
    BY <2>1 DEF Forget, Loaded
  <2>2. CASE AwaitStopped(a) \/ Unsubscribed(a)
    <3>1. CASE a = Unload
      <4>1. PcAfterStop(a) = "close"
        BY <1>0, <3>1 DEF PcAfterStop
      <4>2. pc'[a] \in {"unsub", "close"}
        BY <2>2, <4>1 DEF TypeOK, AwaitStopped, Unsubscribed, StopRest,
                          ClearSubscription
      <4> QED
        BY <3>1, <4>2 DEF Loaded
    <3>2. CASE a # Unload
      BY <1>3, <2>2, <3>2 DEF AwaitStopped, Unsubscribed
    <3> QED
      BY <3>1, <3>2
  <2> QED
    BY <1>7, <2>1, <2>2 DEF Stopping
<1> QED
  BY <1>1, <1>2, <1>4, <1>5, <1>6, <1>7 DEF Next
\* Every step of a loaded source leaves its consumers attached.
LEMMA AttachedStep ==
    ASSUME TypeOK, Attached, AtMostOnePoll, InOrder, Loaded, Next, Loaded'
    PROVE  Attached'
<1>0. Unload \in Actors /\ Unload \notin Polls \cup Subs
  BY PushSourceAssumption DEF Actors
<1>1. CASE Environment
  <2>1. UNCHANGED <<handle, held, pc>>
    BY <1>1 DEF Environment, Change, Drop, Upgrade, Cooldown, server
  <2> QED
    BY <2>1 DEF Attached, NoneHeld, handle
<1>2. CASE UnloadStop \/ UnloadClose
  <2>1. pc'[Unload] # "idle"
    <3>1. CASE UnloadStop
      <4>1. PcAfterStop(Unload) = "close"
        BY <1>0 DEF PcAfterStop
      <4>2. MustAwait(Unload) => consumer # Unload
        BY DEF MustAwait
      <4> QED
        BY <1>0, <3>1, <4>1, <4>2 DEF TypeOK, UnloadStop, StopBegin, StopRest,
                                      ClearSubscription
    <3>2. CASE UnloadClose
      BY <1>0, <3>2 DEF TypeOK, UnloadClose
    <3> QED
      BY <1>2, <3>1, <3>2
  <2> QED
    BY <2>1 DEF Loaded
<1>3. ASSUME NEW p \in Polls, Poll(p) PROVE Attached'
  <2>0. p \in Actors /\ p \notin Subs /\ p \in Polls \cup Subs
    BY PushSourceAssumption DEF Actors
  <2>1. CASE PollStart(p) \/ PollRefreshed(p) \/ PollRaised(p) \/ SubscribeFailed(p)
    <3>1. PICK x \in {"idle", "ensure", "lock", "query"} :
            pc' = [pc EXCEPT ![p] = x] /\ UNCHANGED <<handle, held>>
      BY <2>1 DEF PollStart, PollRefreshed, PollRaised, SubscribeFailed,
                  RefreshEntry
    <3>2. x \in PCs /\ x \notin {"await", "unsub", "subscribe", "adopt"}
      BY DEF PCs
    <3> QED
      BY <2>0, <3>1, <3>2, MoveKeepsAttached
  <2>2. CASE Ensure(p)
    <3>1. CASE pc' = [pc EXCEPT ![p] = "idle"] /\ UNCHANGED <<handle, held>>
      <4>1. "idle" \in PCs
        BY DEF PCs
      <4> QED
        BY <2>0, <3>1, <4>1, MoveKeepsAttached
    <3>2. CASE StopBegin(p)
      BY <2>0, <3>2, StopBeginKeepsAttached
    <3>3. CASE /\ subId = None /\ pc' = [pc EXCEPT ![p] = PcAfterGate]
               /\ UNCHANGED <<handle, held>>
      <4>1. consumer = None /\ PcAfterGate \in {"idle", "subscribe"}
        BY <3>3 DEF Attached, PcAfterGate
      <4>2. /\ pc'[p] \in {"idle", "subscribe"}
            /\ \A b \in Actors \ {p} : pc'[b] = pc[b]
        BY <2>0, <3>3, <4>1 DEF TypeOK
      <4>3. subId' = subId /\ consumer' = consumer /\ held' = held
        BY <3>3 DEF handle
      <4>4. \A s \in Subs : pc'[s] = pc[s]
        BY <2>0, <4>2 DEF Actors
      <4>5. \A a \in Polls \cup Subs : pc'[a] \in {"await", "unsub", "adopt"} => pc'[a] = pc[a]
        BY <4>2 DEF Actors
      <4>6. \A q \in Polls : pc'[q] \in {"subscribe", "adopt"} => consumer' = None
        BY <4>1, <4>3
      <4>7. \A q \in Polls : pc'[q] = "adopt" => \A s \in Subs : pc'[s] # "unsub"
        BY <4>4, <4>5 DEF Attached
      <4> QED
        BY <4>3, <4>4, <4>5, <4>6, <4>7 DEF Attached, NoneHeld
    <3> QED
      BY <2>2, <3>1, <3>2, <3>3 DEF Ensure
  <2>3. CASE Subscribed(p)
    <3>1. /\ pc[p] = "subscribe" /\ pc' = [pc EXCEPT ![p] = "adopt"]
          /\ UNCHANGED <<handle, held>> /\ Pending("unsub") = {}
      BY <2>3 DEF Subscribed
    <3>2. subId' = subId /\ consumer' = consumer /\ held' = held
      BY <3>1 DEF handle
    <3>3. pc'[p] = "adopt" /\ \A b \in Actors \ {p} : pc'[b] = pc[b]
      BY <2>0, <3>1 DEF TypeOK
    <3>4. \A s \in Subs : pc'[s] = pc[s] /\ pc[s] # "unsub"
      BY <2>0, <3>1, <3>3 DEF Pending, Actors
    <3>5. consumer = None
      BY <3>1 DEF Attached
    <3>6. \A a \in Polls \cup Subs : pc'[a] \in {"await", "unsub"} => pc'[a] = pc[a]
      BY <3>3 DEF Actors
    <3> QED
      BY <3>2, <3>4, <3>5, <3>6 DEF Attached, NoneHeld
  <2>4. CASE Adopt(p)
    BY <2>4, AdoptKeepsAttached
  <2> QED
    BY <1>3, <2>1, <2>2, <2>3, <2>4 DEF Poll
<1>4. ASSUME NEW s \in Subs, Consumer(s) PROVE Attached'
  <2>0. s \in Polls \cup Subs
    OBVIOUS
  <2>1. CASE Cancelled(s)
    <3>1. pc' = [pc EXCEPT ![s] = "done"] /\ UNCHANGED <<handle, held>>
      BY <2>1 DEF Cancelled
    <3>2. "done" \in PCs /\ "done" \notin Running
      BY DEF PCs, Running
    <3> QED
      BY <3>1, <3>2, MoveKeepsAttached
  <2>2. CASE Collect(s) \/ CollectEnd(s) \/ Flushed(s) \/ FlushRaised(s)
    <3>1. pc[s] \in Running
      BY <2>2 DEF Collect, CollectEnd, Flushed, FlushRaised, Release, Running
    <3>2. held[s]
      BY <3>1 DEF Attached
    <3>3. CASE StopBegin(s)
      BY <3>2, <3>3, StopBeginKeepsAttached
    <3>4. CASE ~StopBegin(s)
      <4>1. PICK x \in {"collect", "lock", "query"} :
              pc' = [pc EXCEPT ![s] = x] /\ UNCHANGED <<handle, held>>
        BY <2>2, <3>4 DEF Collect, CollectEnd, Flushed, FlushRaised, RefreshEntry
      <4>2. x \in PCs /\ x \notin {"await", "unsub", "subscribe", "adopt"}
        BY DEF PCs
      <4> QED
        BY <3>2, <4>1, <4>2, MoveKeepsAttached
    <3> QED
      BY <3>3, <3>4
  <2> QED
    BY <1>4, <2>1, <2>2 DEF Consumer
<1>5. ASSUME NEW a \in Polls \cup Subs, Refresh(a) PROVE Attached'
  <2>1. CASE AcquireLock(a)
    <3>1. /\ pc[a] = "lock" /\ pc' = [pc EXCEPT ![a] = "query"]
          /\ UNCHANGED <<handle, held>>
      BY <2>1 DEF AcquireLock
    <3>2. a \in Subs => held[a]
      BY <3>1 DEF Attached, Running
    <3>3. "query" \in PCs
      BY DEF PCs
    <3> QED
      BY <3>1, <3>2, <3>3, MoveKeepsAttached
  <2>2. CASE Answer(a)
    BY <2>2 DEF Answer, handle, Attached, NoneHeld
  <2> QED
    BY <1>5, <2>1, <2>2 DEF Refresh
<1>6. ASSUME NEW a \in Actors, Stopping(a) PROVE Attached'
  <2>1. CASE Forget(a)
    BY <2>1 DEF Forget, handle, Attached, NoneHeld
  <2>2. CASE AwaitStopped(a) \/ Unsubscribed(a)
    <3>1. a \in Polls \cup Subs /\ pc[a] \in {"await", "unsub"}
      BY <2>2 DEF AwaitStopped, Unsubscribed, Loaded, Actors
    <3>2. NoneHeld /\ held' = held
      BY <2>2, <3>1 DEF Attached, AwaitStopped, Unsubscribed
    <3>3. \/ a \in Polls /\ StopRest(a)
          \/ pc[a] = "unsub" /\ ClearSubscription(a)
      BY <2>2, <3>1 DEF AwaitStopped, Unsubscribed, Attached
    <3> QED
      BY <3>1, <3>2, <3>3, StoppedKeepsAttached
  <2> QED
    BY <1>6, <2>1, <2>2 DEF Stopping
<1> QED
  BY <1>1, <1>2, <1>3, <1>4, <1>5, <1>6 DEF Next

\* While a source is loaded, a consumer that was not stopped is the one the
\* source would stop, if no two of its polls run at once and the server's
\* replies resume their callers in order: no consumer is left running by a
\* trip, a lost connection or a new topic (_PushSourceState.consumer).
THEOREM NeverOrphaned ==
    ASSUME AtMostOnePoll, InOrder
    PROVE  Spec => []NoOrphanConsumer
<1> DEFINE OrphanInv == Loaded => Attached
<1>1. Init => OrphanInv
  BY DEF Init, Attached, NoneHeld, Running, Actors
<1>2. TypeOK /\ OrphanInv /\ [Next]_vars => OrphanInv'
  <2> SUFFICES ASSUME TypeOK, OrphanInv, [Next]_vars, Loaded' PROVE Attached'
    OBVIOUS
  <2>1. CASE UNCHANGED vars
    BY <2>1 DEF vars, Loaded, Attached, NoneHeld
  <2>2. CASE Next
    <3>1. Loaded
      BY <2>2, UnloadGoesOn
    <3>2. Attached
      BY <3>1
    <3> QED
      BY <2>2, <3>1, <3>2, AttachedStep
  <2> QED
    BY <2>1, <2>2
<1>3. OrphanInv => NoOrphanConsumer
  BY DEF Attached, NoOrphanConsumer
<1> HIDE DEF OrphanInv
<1> QED
  BY <1>1, <1>2, <1>3, TypeCorrect, PTL DEF Spec
=============================================================================
