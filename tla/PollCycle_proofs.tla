-------------------------- MODULE PollCycle_proofs --------------------------
(* Theorems about PollCycle, for any paths, any direct refreshes, any poll   *)
(* interval and any number of faults at a time.                              *)
EXTENDS PollCycle, TLAPS

-----------------------------------------------------------------------------
(* Type correctness.                                                         *)

LEMMA RunJobType ==
    ASSUME TypeOK, NEW p \in Paths, RunJob(p)
    PROVE  failing' \subseteq Paths /\ stale' \subseteq Paths
           /\ hostname' \in BOOLEAN
  BY DEF TypeOK, RunJob, Answered

LEMMA OverType ==
    ASSUME TypeOK, NEW r \in Refreshers, NEW s \in BOOLEAN, Over(r, s)
    PROVE  /\ pc' \in [Refreshers -> PCs] /\ before' \in [Refreshers -> BOOLEAN]
           /\ todo' \in [Refreshers -> SUBSET Gathered]
           /\ ok' \in BOOLEAN /\ timer' \in 0..Interval \cup {None}
           /\ shown' \subseteq Paths
           /\ UNCHANGED <<nas, flushes>>
  BY PollCycleAssumption
  DEF TypeOK, Over, Listeners, Available, PCs

LEMMA GoesType ==
    ASSUME TypeOK, NEW r \in Refreshers, NEW c \in PCs, Goes(r, c)
    PROVE  /\ pc' \in [Refreshers -> PCs]
           /\ UNCHANGED <<nas, ok, timer, flushes, before, shown, orphans>>
  BY DEF TypeOK, Goes

LEMMA SetUpdatedType ==
    ASSUME TypeOK, SetUpdated
    PROVE  /\ ok' \in BOOLEAN /\ timer' \in 0..Interval \cup {None}
           /\ shown' \subseteq Paths
  BY PollCycleAssumption DEF TypeOK, SetUpdated, Listeners, Available

\* Every variable keeps its type; the pools are never among the gathered jobs.
THEOREM TypeCorrect == Spec => []TypeOK
<1> USE DEF nas, health, tasks, PCs
<1>1. Init => TypeOK
  <2> SUFFICES ASSUME Init PROVE TypeOK
    OBVIOUS
  <2>1. fault \in [Paths -> Faults] /\ shown \subseteq Paths
    BY DEF Init, Faults
  <2>2. timer \in 0..Interval \cup {None}
    BY PollCycleAssumption DEF Init
  <2>3. /\ pc \in [Refreshers -> PCs] /\ before \in [Refreshers -> BOOLEAN]
        /\ todo \in [Refreshers -> SUBSET Gathered]
    BY DEF Init
  <2> QED BY <2>1, <2>2, <2>3 DEF Init, TypeOK
<1>2. TypeOK /\ [Next]_vars => TypeOK'
  <2> SUFFICES ASSUME TypeOK, [Next]_vars PROVE TypeOK'
    OBVIOUS
  <2>0. CASE FaultChanges
    <3>1. fault' \in [Paths -> Faults]
      BY <2>0 DEF FaultChanges, TypeOK
    <3> QED BY <2>0, <3>1 DEF FaultChanges, Others, TypeOK
  <2>1. CASE ReachChanges \/ Drop \/ ConnectElsewhere
    BY <2>1 DEF ReachChanges, Drop, ConnectElsewhere, Others, TypeOK
  <2>2. CASE Tick \/ TwelveHours
    <3>1. timer' \in 0..Interval \cup {None}
      BY <2>2, PollCycleAssumption DEF Tick, TwelveHours, TypeOK
    <3> QED BY <2>2, <3>1 DEF Tick, TwelveHours, Others, TypeOK
  <2>3. ASSUME NEW r \in Refreshers, Refresh(r) PROVE TypeOK'
    <3>1. CASE Begin(r)
      BY <3>1 DEF Begin, TypeOK
    <3>2. CASE Connect(r)
      BY <3>2, OverType, GoesType DEF Connect, TypeOK
    <3>3. CASE First(r)
      <4>1. RunJob(Sys) /\ Sys \in Paths
        BY <3>3 DEF First, Paths
      <4>2. CASE hostname'
        BY <3>3, <4>1, <4>2, RunJobType, GoesType DEF First, TypeOK
      <4>3. CASE ~hostname'
        BY <3>3, <4>1, <4>3, RunJobType, OverType DEF First, TypeOK
      <4> QED BY <4>2, <4>3
    <3>4. CASE Job(r)
      <4>1. PICK p \in todo[r] : RunJob(p) /\ todo' = [todo EXCEPT ![r] = @ \ {p}]
        BY <3>4 DEF Job
      <4>2. p \in Paths
        BY <4>1 DEF TypeOK, Paths
      <4> QED BY <3>4, <4>1, <4>2, RunJobType, GoesType DEF Job, TypeOK
    <3>5. CASE PoolJob(r)
      <4>1. Pool \in Paths
        BY DEF Paths
      <4>2. failing' \subseteq Paths /\ stale' \subseteq Paths
            /\ hostname' \in BOOLEAN
        BY <3>5, <4>1, RunJobType DEF PoolJob, TypeOK, health
      <4> QED BY <3>5, <4>2, GoesType DEF PoolJob, TypeOK
    <3>6. ASSUME NEW success \in BOOLEAN, Check(r, success) PROVE TypeOK'
      <4>1. due' \in BOOLEAN /\ checked' \in BOOLEAN
        BY <3>6 DEF Check, TypeOK
      <4>2. CASE conn
        BY <3>6, <4>1, <4>2, GoesType DEF Check, End, TypeOK, health
      <4>3. CASE ~conn
        BY <3>6, <4>1, <4>3, OverType DEF Check, End, TypeOK, health
      <4> QED BY <4>2, <4>3
    <3>7. CASE Detect(r)
      BY <3>7, OverType DEF Detect, TypeOK
    <3> QED
      BY <2>3, <3>1, <3>2, <3>3, <3>4, <3>5, <3>6, <3>7 DEF Refresh
  <2>4. ASSUME NEW p \in Pushed, FlushAsked(p) PROVE TypeOK'
    BY <2>4 DEF FlushAsked, TypeOK
  <2>5. ASSUME NEW p \in Pushed, FlushEnds(p) PROVE TypeOK'
    <3>1. CASE Answers(p)
      BY <2>5, <3>1, SetUpdatedType, PollCycleAssumption
      DEF FlushEnds, Answered, TypeOK
    <3>2. CASE ~Answers(p)
      BY <2>5, <3>2 DEF FlushEnds, TypeOK
    <3> QED BY <3>1, <3>2
  <2>6. CASE ClearStatistics
    BY <2>6, SetUpdatedType DEF ClearStatistics, TypeOK
  <2>7. CASE OptimisticState
    BY <2>7 DEF OptimisticState, Listeners, Available, TypeOK
  <2>8. CASE UNCHANGED vars
    BY <2>8 DEF vars, TypeOK
  <2> QED
    BY <2>0, <2>1, <2>2, <2>3, <2>4, <2>5, <2>6, <2>7, <2>8 DEF Next
<1> QED BY <1>1, <1>2, PTL DEF Spec

-----------------------------------------------------------------------------
(* What is shown.                                                            *)

\* Nobody else changes last_update_success under a refresh, so what it
\* remembers of it is what it is; and after a failure nothing is shown.
AloneInv ==
    /\ \A r, q \in Refreshers : pc[r] # "idle" /\ pc[q] # "idle" => r = q
    /\ \A r \in Refreshers : pc[r] # "idle" => before[r] = ok
    /\ ~ok => shown = {}
    /\ ShownIsAvailable

LEMMA OverShows ==
    ASSUME TypeOK, AloneInv, NEW r \in Refreshers, pc[r] # "idle",
           NEW s \in BOOLEAN, Over(r, s)
    PROVE  AloneInv'
<1>1. \A q \in Refreshers : pc'[q] = "idle"
  BY DEF AloneInv, Over, TypeOK
<1>2. CASE s \/ before[r]
  BY <1>1, <1>2 DEF AloneInv, Over, Listeners, ShownIsAvailable, Available
<1>3. CASE ~s /\ ~before[r]
  BY <1>1, <1>3 DEF AloneInv, Over, ShownIsAvailable, Available
<1> QED BY <1>2, <1>3

LEMMA GoesOn ==
    ASSUME TypeOK, AloneInv, NEW r \in Refreshers, pc[r] # "idle",
           NEW c \in PCs \ {"idle"}, Goes(r, c)
    PROVE  AloneInv'
<1>1. ~Idle'
  BY DEF Goes, Idle, TypeOK
<1> QED BY <1>1 DEF AloneInv, Goes, ShownIsAvailable, TypeOK

LEMMA SetUpdatedShows ==
    ASSUME TypeOK, AloneInv, ~Overlap, SetUpdated, UNCHANGED tasks
    PROVE  AloneInv'
  BY DEF AloneInv, SetUpdated, Idle, Listeners, ShownIsAvailable, Available, tasks

LEMMA NothingShown ==
    ASSUME AloneInv, UNCHANGED <<ok, failing, stale, tasks, shown>>
    PROVE  AloneInv'
  BY DEF AloneInv, ShownIsAvailable, Available, Idle, tasks

\* Unless a push, a button or another refresh reports success while a refresh
\* is under way, Home Assistant shows an entity as available just when it is.
THEOREM ShownCorrectly == ASSUME ~Overlap PROVE Spec => []ShownIsAvailable
<1>1. Init => AloneInv
  BY DEF Init, AloneInv, ShownIsAvailable, Available
<1>2. ASSUME TypeOK, AloneInv, [Next]_vars PROVE AloneInv'
  <2>1. CASE ReachChanges \/ FaultChanges \/ Drop \/ ConnectElsewhere
             \/ Tick \/ TwelveHours
    BY <1>2, <2>1, NothingShown
    DEF ReachChanges, FaultChanges, Drop, ConnectElsewhere, Tick, TwelveHours,
        Others, health
  <2>2. ASSUME NEW r \in Refreshers, Refresh(r) PROVE AloneInv'
    <3>1. CASE Begin(r)
      <4>1. Idle
        BY <3>1 DEF Begin
      <4> QED
        BY <1>2, <3>1, <4>1
        DEF Begin, AloneInv, ShownIsAvailable, Idle, TypeOK
    <3>2. CASE Connect(r)
      BY <1>2, <3>2, OverShows, GoesOn DEF Connect, PCs
    <3>3. CASE First(r)
      BY <1>2, <3>3, OverShows, GoesOn DEF First, PCs
    <3>4. CASE Job(r) \/ PoolJob(r)
      BY <1>2, <3>4, GoesOn DEF Job, PoolJob, PCs
    <3>5. CASE Detect(r) \/ \E s \in BOOLEAN : Check(r, s)
      BY <1>2, <3>5, OverShows, GoesOn DEF Check, End, Detect, PCs
    <3> QED BY <2>2, <3>1, <3>2, <3>3, <3>4, <3>5 DEF Refresh
  <2>3. ASSUME NEW p \in Pushed, FlushAsked(p) PROVE AloneInv'
    BY <1>2, <2>3, NothingShown DEF FlushAsked, health
  <2>4. ASSUME NEW p \in Pushed, FlushEnds(p) PROVE AloneInv'
    BY <1>2, <2>4, SetUpdatedShows, NothingShown DEF FlushEnds
  <2>5. CASE ClearStatistics
    BY <1>2, <2>5, SetUpdatedShows DEF ClearStatistics
  <2>6. CASE OptimisticState
    BY <1>2, <2>6
    DEF OptimisticState, AloneInv, ShownIsAvailable, Available, Listeners,
        Idle, tasks
  <2>7. CASE UNCHANGED vars
    BY <1>2, <2>7, NothingShown DEF vars, health
  <2> QED
    BY <1>2, <2>1, <2>2, <2>3, <2>4, <2>5, <2>6, <2>7 DEF Next
<1>3. AloneInv => ShownIsAvailable
  BY DEF AloneInv
<1> QED BY <1>1, <1>2, <1>3, TypeCorrect, PTL DEF Spec
=============================================================================
