----------------------------- MODULE PushSource -----------------------------
(* One pushed data source of TrueNASCoordinator (service, pool, vm,          *)
(* container, app, ..., and alerts): the polls and the background consumers  *)
(* that refresh it, and the lifecycle of its event subscription.             *)
(*                                                                           *)
(* Every actor is an asyncio task; what a task does between two awaits that  *)
(* can suspend it is one action.  is_subscribed() reads a table of the       *)
(* client and is taken to return without suspending the caller.              *)
EXTENDS Naturals, CircuitBreaker

CONSTANTS
    Polls,          \* tasks running a coordinator refresh (see PollStart)
    Subs,           \* subscription ids; each has one queue and one consumer
    Unload,         \* the task of async_unload_entry
    None,
    OldEvent,       \* topic before ...
    NewEvent,       \* ... and after an upgrade of TrueNAS (get_container)
    Locked,         \* FALSE for alerts, whose refresh takes no lock
    InOrder,        \* replies of the server resume callers in calling order
    UnsubEnds,      \* the client ends the queue of what it unsubscribes
    MaxSrv,         \* bound: changes of the data on the server
    MaxMsgs         \* bound: messages a queue holds before it coalesces

Actors == Polls \cup Subs \cup {Unload}

ASSUME PushSourceAssumption ==
    /\ Polls \cap Subs = {}
    /\ Unload \notin Polls \cup Subs
    /\ None \notin Actors \cup {OldEvent, NewEvent}
    /\ Locked \in BOOLEAN /\ InOrder \in BOOLEAN /\ UnsubEnds \in BOOLEAN
    /\ MaxSrv \in Nat /\ MaxMsgs \in Nat \ {0}

VARIABLES
    \* the connection and the server
    conn,           \* api.connected()
    closed,         \* api._closed
    live,           \* subscriptions the client holds (is_subscribed)
    used,           \* subscription ids handed out so far
    msgs,           \* messages waiting in each subscription's queue
    ended,          \* the queue's last item is the terminator
    srv,            \* version of the data on the server
    topic,          \* event name get_container would subscribe to now
    \* _PushSourceState
    subId, event, consumer, breaker, lock,
    held,           \* consumer._task is not None, per consumer
    \* coordinator.ds[<source>]
    view,           \* version last written
    \* tasks
    pc,
    arg,            \* subscription the task is awaiting something for
    want,           \* event name a poll's call was made with
    ans,            \* version in the reply of the task's query
    ending,         \* the consumer's batch was cut by the terminator
    owed,           \* ghost: version a consumer was told of and must show
    failed          \* ghost: consumers whose last query failed, unraised

server == <<conn, closed, live, used, msgs, ended, srv, topic>>
handle == <<subId, event, consumer>>
vars == <<conn, closed, live, used, msgs, ended, srv, topic,
          subId, event, consumer, breaker, lock, held, view,
          pc, arg, want, ans, ending, owed, failed>>

PCs == {"idle", "lock", "query", "ensure", "subscribe", "adopt",   \* polls
        "collect", "cancelled", "done",                            \* consumers
        "await", "unsub", "close"}                                 \* stopping

TypeOK ==
    /\ conn \in BOOLEAN /\ closed \in BOOLEAN
    /\ live \subseteq Subs /\ used \subseteq Subs
    /\ msgs \in [Subs -> 0..MaxMsgs] /\ ended \in [Subs -> BOOLEAN]
    /\ srv \in Nat /\ view \in Nat
    /\ topic \in {OldEvent, NewEvent}
    /\ subId \in Subs \cup {None} /\ consumer \in Subs \cup {None}
    /\ event \in {OldEvent, NewEvent, None}
    /\ breaker \in Breaker
    /\ lock \in Actors \cup {None}
    /\ held \in [Subs -> BOOLEAN]
    /\ pc \in [Actors -> PCs]
    /\ arg \in [Actors -> Subs \cup {None}]
    /\ want \in [Polls -> {OldEvent, NewEvent}]
    /\ ans \in [Actors -> Nat \cup {None}]
    /\ ending \in [Subs -> BOOLEAN]
    /\ owed \in [Subs -> Nat] /\ failed \subseteq Subs
    /\ \A p \in Polls : pc[p] = "adopt" => arg[p] \in Subs

Init ==
    /\ conn = TRUE /\ closed = FALSE
    /\ live = {} /\ used = {}
    /\ msgs = [s \in Subs |-> 0] /\ ended = [s \in Subs |-> FALSE]
    /\ srv = 0 /\ view = 0 /\ topic = OldEvent
    /\ subId = None /\ event = None /\ consumer = None
    /\ breaker = ClosedBreaker /\ lock = None
    /\ held = [s \in Subs |-> FALSE]
    /\ pc = [a \in Actors |-> "idle"]
    /\ arg = [a \in Actors |-> None]
    /\ want = [p \in Polls |-> OldEvent]
    /\ ans = [a \in Actors |-> None]
    /\ ending = [s \in Subs |-> FALSE]
    /\ owed = [s \in Subs |-> 0] /\ failed = {}

-----------------------------------------------------------------------------
(* The server and the connection.                                            *)

\* The data changes: every live subscription of the source is notified.
Change ==
    /\ srv < MaxSrv
    /\ srv' = srv + 1
    /\ msgs' = [s \in Subs |-> IF s \in live /\ msgs[s] < MaxMsgs
                               THEN msgs[s] + 1 ELSE msgs[s]]
    /\ owed' = [s \in Subs |-> IF s \in live THEN srv + 1 ELSE owed[s]]
    /\ UNCHANGED <<conn, closed, live, used, ended, topic, handle, breaker,
                   lock, held, view, pc, arg, want, ans, ending, failed>>

\* The teardown of a connection ends every queue with the terminator.
Teardown ==
    /\ conn' = FALSE
    /\ live' = {}
    /\ ended' = [s \in Subs |-> ended[s] \/ s \in live]

Drop ==
    /\ conn
    /\ Teardown
    /\ UNCHANGED <<closed, used, msgs, srv, topic, handle, breaker, lock,
                   held, view, pc, arg, want, ans, ending, owed, failed>>

Upgrade ==
    /\ topic # NewEvent
    /\ topic' = NewEvent
    /\ UNCHANGED <<conn, closed, live, used, msgs, ended, srv, handle,
                   breaker, lock, held, view, pc, arg, want, ans, ending,
                   owed, failed>>

Cooldown ==
    /\ Blocks(breaker)
    /\ breaker' = Cooled(breaker)
    /\ UNCHANGED <<server, handle, lock, held, view, pc, arg, want, ans,
                   ending, owed, failed>>

-----------------------------------------------------------------------------
(* Refreshing the data: _refresh_locked around one query.                    *)

\* Mutant: a refresh that forgets the lock.
RefreshEntryUnlocked == "query"

\* Where a refresh begins: at the lock, or (alerts) at the query itself.
RefreshEntry == IF Locked THEN "lock" ELSE "query"

AcquireLock(a) ==
    /\ pc[a] = "lock"
    /\ lock = None
    /\ lock' = a
    /\ pc' = [pc EXCEPT ![a] = "query"]
    /\ ans' = [ans EXCEPT ![a] = None]
    /\ UNCHANGED <<server, handle, breaker, held, view, arg, want, ending,
                   owed, failed>>

\* The server evaluates the query and sends its reply.
Answer(a) ==
    /\ pc[a] = "query"
    /\ conn
    /\ ans[a] = None
    /\ ans' = [ans EXCEPT ![a] = srv]
    /\ UNCHANGED <<server, handle, breaker, lock, held, view, pc, arg, want,
                   ending, owed, failed>>

\* What leaving the query does on every path: the lock is released.
Release(a) ==
    /\ pc[a] = "query"
    /\ lock' = IF lock = a THEN None ELSE lock
    /\ ans' = [ans EXCEPT ![a] = None]

\* The query's outcome: the reply is written, or (a failed call that does not
\* raise) the previous data is kept and nothing new is shown.  A consumer's
\* failure is remembered until its next query; what it owes, it still owes.
WriteOrKeep(a) ==
    \/ /\ ans[a] # None
       /\ view' = ans[a]
       /\ failed' = failed \ {a}
    \/ /\ view' = view
       /\ failed' = failed \cup ({a} \cap Subs)

-----------------------------------------------------------------------------
(* _stop_push_subscription / stop_alerts, run by a poll, by a consumer's     *)
(* on_trip callback, or by the unload.                                       *)

\* Mutant: an open breaker is never retried.
PcAfterGateOnce == IF breaker.tripped THEN "idle" ELSE "subscribe"

\* What a poll does next when no subscription is active: the breaker gate.
PcAfterGate == IF Blocks(breaker) THEN "idle" ELSE "subscribe"

PcAfterStop(a) ==
    CASE a \in Polls -> PcAfterGate
      [] a \in Subs  -> "done"
      [] OTHER       -> "close"

ClearSubscription(a) ==
    /\ subId' = None /\ event' = None /\ consumer' = None
    /\ pc' = [pc EXCEPT ![a] = PcAfterStop(a)]
    /\ arg' = [arg EXCEPT ![a] = None]

\* Once the consumer is stopped: unsubscribe if there is a connection, which
\* suspends the caller, or clear at once.
StopRest(a) ==
    \/ /\ subId # None /\ conn
       /\ pc' = [pc EXCEPT ![a] = "unsub"]
       /\ arg' = [arg EXCEPT ![a] = subId]
       /\ UNCHANGED handle
    \/ /\ ~(subId # None /\ conn)
       /\ ClearSubscription(a)

\* consumer.stop() has a task to cancel and await: not when there is none,
\* and not when the caller is that task.
MustAwait(a) == consumer # None /\ consumer # a /\ held[consumer]

\* Mutant: the references are dropped, the consumer is not stopped.
StopReferencesOnly(a) == held' = held /\ StopRest(a)

StopBegin(a) ==
    \/ /\ MustAwait(a)
       /\ held' = [held EXCEPT ![consumer] = FALSE]
       /\ pc' = [pc EXCEPT ![a] = "await", ![consumer] = "cancelled"]
       /\ arg' = [arg EXCEPT ![a] = consumer]
       /\ UNCHANGED handle
    \/ /\ ~MustAwait(a)
       /\ held' = IF consumer = a THEN [held EXCEPT ![a] = FALSE] ELSE held
       /\ StopRest(a)

\* A poll that goes on to subscribe has reset an open breaker.
BreakerOf(a) ==
    breaker' = IF pc'[a] = "subscribe" THEN ResetIfOpen(breaker) ELSE breaker

AwaitStopped(a) ==
    /\ pc[a] = "await"
    /\ pc[arg[a]] = "done"
    /\ StopRest(a)
    /\ BreakerOf(a)
    /\ UNCHANGED <<server, lock, held, view, want, ans, ending, owed, failed>>

\* unsubscribe_events: the client forgets the subscription at some moment of
\* the call, and the call ends (an error is caught and logged).
Forget(a) ==
    /\ pc[a] = "unsub"
    /\ arg[a] \in live
    /\ live' = live \ {arg[a]}
    /\ ended' = [ended EXCEPT ![arg[a]] = @ \/ UnsubEnds]
    /\ UNCHANGED <<conn, closed, used, msgs, srv, topic, handle,
                   breaker, lock, held, view, pc, arg, want, ans, ending,
                   owed, failed>>

Unsubscribed(a) ==
    /\ pc[a] = "unsub"
    /\ ClearSubscription(a)
    /\ BreakerOf(a)
    /\ UNCHANGED <<server, lock, held, view, want, ans, ending, owed, failed>>

-----------------------------------------------------------------------------
(* A poll: get_<source>, i.e. refresh, then _ensure_push_subscription.       *)

\* Mutant: a poll leaves the data to a subscription that is active.
PollStartTrusting(p) ==
    /\ pc[p] = "idle"
    /\ pc[Unload] # "done"
    /\ conn \/ ~closed
    /\ conn' = TRUE
    /\ pc' = [pc EXCEPT ![p] = IF subId \in live THEN "ensure"
                               ELSE RefreshEntry]
    /\ UNCHANGED <<closed, live, used, msgs, ended, srv, topic, handle,
                   breaker, lock, held, view, arg, want, ans, ending, owed,
                   failed>>

\* _async_ensure_connected has succeeded.  Home Assistant shuts the
\* coordinator down when the unload is complete.  The scheduled refresh and
\* the debounced one exclude each other; async_refresh() excludes neither.
PollStart(p) ==
    /\ pc[p] = "idle"
    /\ pc[Unload] # "done"
    /\ conn \/ ~closed
    /\ conn' = TRUE
    /\ pc' = [pc EXCEPT ![p] = RefreshEntry]
    /\ UNCHANGED <<closed, live, used, msgs, ended, srv, topic, handle,
                   breaker, lock, held, view, arg, want, ans, ending, owed,
                   failed>>

PollRefreshed(p) ==
    /\ Release(p)
    /\ WriteOrKeep(p)
    /\ pc' = [pc EXCEPT ![p] = "ensure"]
    /\ UNCHANGED <<server, handle, breaker, held, arg, want, ending, owed>>

\* The refresh raised: _run_job logs it and the job is over.
PollRaised(p) ==
    /\ Release(p)
    /\ pc' = [pc EXCEPT ![p] = "idle"]
    /\ UNCHANGED <<server, handle, breaker, held, view, arg, want, ending,
                   owed, failed>>

\* Mutant: the topic is not compared.
StaleIgnoringTopic == subId # None /\ subId \notin live

\* A subscription the client lost, or one for the wrong topic, is stopped.
Stale == subId # None /\ (subId \notin live \/ event # topic)

\* _ensure_push_subscription up to its first suspension.
Ensure(p) ==
    /\ pc[p] = "ensure"
    /\ want' = [want EXCEPT ![p] = topic]
    /\ \/ /\ ~conn \/ (subId # None /\ ~Stale)
          /\ pc' = [pc EXCEPT ![p] = "idle"]
          /\ UNCHANGED <<handle, held, arg>>
       \/ /\ conn /\ Stale
          /\ StopBegin(p)
       \/ /\ conn /\ subId = None
          /\ pc' = [pc EXCEPT ![p] = PcAfterGate]
          /\ UNCHANGED <<handle, held, arg>>
    /\ BreakerOf(p)
    /\ UNCHANGED <<server, lock, view, ans, ending, owed, failed>>

Pending(step) == {a \in Actors : pc[a] = step}

\* Mutant: a reply without a subscription id is adopted.
SubscribedUnchecked(p) ==
    /\ pc[p] = "subscribe"
    /\ conn
    /\ arg' = [arg EXCEPT ![p] = None]
    /\ pc' = [pc EXCEPT ![p] = "adopt"]
    /\ UNCHANGED <<server, handle, breaker, lock, held, view, want, ans,
                   ending, owed, failed>>

\* The server accepts the subscription; subscribe_events has reconnected if
\* it had to.  The queue exists before the poll's task runs again.
Subscribed(p) ==
    /\ pc[p] = "subscribe"
    /\ conn \/ ~closed
    /\ InOrder => Pending("unsub") = {}
    /\ \E s \in Subs \ used :
          /\ used' = used \cup {s}
          /\ live' = live \cup {s}
          /\ arg' = [arg EXCEPT ![p] = s]
    /\ conn' = TRUE
    /\ pc' = [pc EXCEPT ![p] = "adopt"]
    /\ UNCHANGED <<closed, msgs, ended, srv, topic, handle, breaker, lock,
                   held, view, want, ans, ending, owed, failed>>

SubscribeFailed(p) ==
    /\ pc[p] = "subscribe"
    /\ pc' = [pc EXCEPT ![p] = "idle"]
    /\ UNCHANGED <<server, handle, breaker, lock, held, view, arg, want, ans,
                   ending, owed, failed>>

\* The consumer is started and the three fields are set together.
Adopt(p) ==
    /\ pc[p] = "adopt"
    /\ LET s == arg[p] IN
          /\ subId' = s /\ consumer' = s
          /\ held' = [held EXCEPT ![s] = TRUE]
          /\ pc' = [pc EXCEPT ![p] = "idle", ![s] = "collect"]
    /\ arg' = [arg EXCEPT ![p] = None]
    /\ event' = want[p]
    /\ UNCHANGED <<server, breaker, lock, view, want, ans, ending, owed,
                   failed>>

-----------------------------------------------------------------------------
(* A consumer: SubscriptionPushConsumer._run with the source's callbacks.    *)

\* _collect_batch got messages; _drain_batch records the batch and flushes it
\* or, when it opens the breaker, trips.
Collect(s) ==
    /\ pc[s] = "collect"
    /\ \E n \in 1..msgs[s] :
          /\ msgs' = [msgs EXCEPT ![s] = @ - n]
          /\ \E e \in {FALSE, ended[s] /\ n = msgs[s]} :
                /\ ending' = [ending EXCEPT ![s] = e]
                /\ ended' = [ended EXCEPT ![s] = @ /\ ~e]
          /\ breaker' = RecordBatch(breaker, n)
          /\ IF JustTripped(breaker, n)
             THEN StopBegin(s)
             ELSE /\ pc' = [pc EXCEPT ![s] = RefreshEntry]
                  /\ UNCHANGED <<handle, held, arg>>
    /\ UNCHANGED <<conn, closed, live, used, srv, topic, lock, view, want, ans,
                   owed, failed>>

\* Mutant: an empty batch is taken for a quiet moment.
CollectEndIgnored(s) ==
    /\ pc[s] = "collect"
    /\ msgs[s] = 0 /\ ended[s]
    /\ ended' = [ended EXCEPT ![s] = FALSE]
    /\ UNCHANGED <<conn, closed, live, used, msgs, srv, topic, handle, breaker,
                   lock, held, view, pc, arg, want, ans, ending, owed, failed>>

\* The terminator came first: nothing to flush.
CollectEnd(s) ==
    /\ pc[s] = "collect"
    /\ msgs[s] = 0 /\ ended[s]
    /\ ended' = [ended EXCEPT ![s] = FALSE]
    /\ StopBegin(s)
    /\ UNCHANGED <<conn, closed, live, used, msgs, srv, topic, breaker, lock,
                   view, want, ans, ending, owed, failed>>

\* Mutant: what arrived during the flush is dropped.
FlushedDiscarding(s) ==
    /\ Release(s)
    /\ WriteOrKeep(s)
    /\ msgs' = [msgs EXCEPT ![s] = 0]
    /\ pc' = [pc EXCEPT ![s] = "collect"]
    /\ UNCHANGED <<conn, closed, live, used, ended, srv, topic, handle, held,
                   arg, breaker, want, ending, owed>>

\* The flush callback returned; a batch cut by the terminator is the last.
Flushed(s) ==
    /\ Release(s)
    /\ WriteOrKeep(s)
    /\ \/ /\ ~ending[s]
          /\ pc' = [pc EXCEPT ![s] = "collect"]
          /\ UNCHANGED <<handle, held, arg>>
       \/ /\ ending[s]
          /\ StopBegin(s)
    /\ UNCHANGED <<server, breaker, want, ending, owed>>

\* The flush callback raised: on_trip, and the consumer ends.
FlushRaised(s) ==
    /\ Release(s)
    /\ StopBegin(s)
    /\ UNCHANGED <<server, breaker, view, want, ending, owed, failed>>

\* CancelledError unwinds the consumer: the lock it holds is released.
Cancelled(s) ==
    /\ pc[s] = "cancelled"
    /\ pc' = [pc EXCEPT ![s] = "done"]
    /\ lock' = IF lock = s THEN None ELSE lock
    /\ ans' = [ans EXCEPT ![s] = None]
    /\ UNCHANGED <<server, handle, breaker, held, view, arg, want, ending,
                   owed, failed>>

-----------------------------------------------------------------------------
(* async_unload_entry: stop the source's push, then close the API for good.  *)

UnloadStop ==
    /\ pc[Unload] = "idle"
    /\ StopBegin(Unload)
    /\ UNCHANGED <<server, breaker, lock, view, want, ans, ending, owed,
                   failed>>

UnloadClose ==
    /\ pc[Unload] = "close"
    /\ closed' = TRUE
    /\ Teardown
    /\ pc' = [pc EXCEPT ![Unload] = "done"]
    /\ UNCHANGED <<used, msgs, srv, topic, handle, breaker, lock, held, view,
                   arg, want, ans, ending, owed, failed>>

-----------------------------------------------------------------------------
Refresh(a) == AcquireLock(a) \/ Answer(a)

Stopping(a) == AwaitStopped(a) \/ Forget(a) \/ Unsubscribed(a)

Poll(p) ==
    \/ PollStart(p) \/ PollRefreshed(p) \/ PollRaised(p) \/ Ensure(p)
    \/ Subscribed(p) \/ SubscribeFailed(p) \/ Adopt(p)

Consumer(s) ==
    \/ Collect(s) \/ CollectEnd(s) \/ Flushed(s) \/ FlushRaised(s)
    \/ Cancelled(s)

Environment == Change \/ Drop \/ Upgrade \/ Cooldown

Next ==
    \/ Environment
    \/ \E p \in Polls : Poll(p)
    \/ \E s \in Subs : Consumer(s)
    \/ \E a \in Polls \cup Subs : Refresh(a)
    \/ \E a \in Actors : Stopping(a)
    \/ UnloadStop \/ UnloadClose

Spec == Init /\ [][Next]_vars

\* A task that can run does run; polls are rescheduled for ever and the
\* cooldown elapses.  The unload may never be asked for, the connection never
\* drop, the data never change.  asyncio.Lock is first come, first served.
Step(a) ==
    \/ a \in Polls /\ Poll(a)
    \/ a \in Subs /\ Consumer(a)
    \/ AwaitStopped(a) \/ Unsubscribed(a)
    \/ a = Unload /\ UnloadClose

Fairness ==
    /\ \A a \in Actors : WF_vars(Step(a))
    /\ \A a \in Polls \cup Subs : SF_vars(AcquireLock(a))
    /\ WF_vars(Cooldown)

FairSpec == Spec /\ Fairness

\* A poll's refresh that writes the reply.
PollShows(p) == PollRefreshed(p) /\ view' = ans[p]

\* The server does not fail a source's queries and subscriptions for ever.
HealthyServer ==
    \A p \in Polls :
       /\ SF_vars(Answer(p)) /\ SF_vars(PollShows(p))
       /\ SF_vars(Subscribed(p))

-----------------------------------------------------------------------------
(* Properties.                                                               *)

\* Two refreshes of a locked source are never between their query and their
\* write at the same time (_refresh_locked), cancelled consumers included.
LockInv ==
    \A a \in Actors : pc[a] = "query" => lock = a

\* A reply that is about to be written is not older than what is shown, and
\* nothing shown is newer than the server's data.
AnswerInv ==
    /\ view <= srv
    /\ \A a \in Actors :
          pc[a] = "query" /\ ans[a] # None => view <= ans[a] /\ ans[a] <= srv

\* "A slower poll refresh must not clobber a faster, later-started push
\* refresh": whatever polls, pushes, cancellations and reconnects do, the
\* data shown only moves forward.
ViewForward == [][view' >= view]_vars

\* The locked source implements the abstract specification of its data.
Forward == INSTANCE ForwardView
ImplementsForwardView == Forward!Spec

\* A consumer that waits for its next message, and whose last query did not
\* fail, has shown every change it was ever told of: also what arrived during
\* a flush, and what a failed query before it left unshown.  After a query
\* that fails without raising, nothing is shown until the next refresh.
PushNotLost ==
    \A s \in Subs :
       pc[s] = "collect" /\ msgs[s] = 0 => owed[s] <= view \/ s \in failed

Loaded == pc[Unload] = "idle"

\* While the source is loaded, a consumer's task that was not stopped is the
\* one the source would stop: none keeps running orphaned.
NoOrphanConsumer ==
    Loaded => \A s \in Subs : held[s] => consumer = s

\* After an unload every consumer the source ever started ends, one that a
\* poll in flight started during the unload included.
UnloadEndsConsumers ==
    pc[Unload] = "done" ~> \A s \in Subs : pc[s] \in {"idle", "done"}

\* Falling back to polling is not for ever: the source is subscribed again
\* and again as long as it is loaded, connected and ids remain (used).
Resubscribes ==
    []<>(subId \in live \/ ~conn \/ used = Subs \/ ~Loaded)

\* The poll is the safety net of the push: it queries whether or not there is
\* a subscription, so every change is shown in the end while the source is
\* loaded and the connection comes to hold, one included whose message was
\* thrown away with the batch that tripped the breaker, or that no
\* subscription ever heard of.
CatchesUp ==
    <>[]conn => \A v \in 1..MaxSrv : srv >= v ~> view >= v \/ ~Loaded

\* A subscription to the topic of the old TrueNAS version is replaced.
TopicFollows ==
    subId # None /\ event # topic ~> (subId = None \/ event = topic)
=============================================================================
