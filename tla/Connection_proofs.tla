-------------------------- MODULE Connection_proofs -------------------------
(* Theorems about Connection, for any servers, causes and refreshes, if an   *)
(* entry is not reconfigured during its set-up.                              *)
EXTENDS Connection, TLAPS, SequenceTheorems

\* Refreshes run in a coordinator made for the entry's server, and one at a
\* time while it is being set up.
HostInv ==
    /\ Live \/ Idle
    /\ Live => host = target
    /\ entry = "setup" =>
          \A r, q \in Refreshers : pc[r] # "idle" /\ pc[q] # "idle" => r = q

\* The first attempt after a requested disconnect is the one that knows of it.
RequestInv ==
    /\ \A r \in Refreshers : exp[r] => queue # <<>> /\ queue[1] = r
    /\ expected => queue = <<>>

-----------------------------------------------------------------------------
(* Type correctness.                                                         *)

\* An attempt that ends leaves the others in their order.
LEMMA RemoveType ==
    ASSUME NEW S, NEW s \in Seq(S), NEW i \in DOMAIN s
    PROVE  RemoveAt(s, i) \in Seq(S)
<1>1. i \in 1..Len(s) /\ Len(s) \in Nat
  BY LenProperties
<1>2. i - 1 \in 0..Len(s) /\ i + 1 \in 1..Len(s)+1
  BY <1>1
<1>3. SubSeq(s, 1, i - 1) \in Seq(S) /\ SubSeq(s, i + 1, Len(s)) \in Seq(S)
  BY <1>1, <1>2
<1> QED
  BY <1>3, ConcatProperties DEF RemoveAt

LEMMA EndsType ==
    ASSUME TypeOK, NEW r \in Refreshers, Ends(r)
    PROVE  queue' \in Seq(Refreshers) /\ exp' \in [Refreshers -> BOOLEAN]
  BY RemoveType DEF TypeOK, Ends

\* What is logged is a line of the abstract specification.
LEMMA SaysType ==
    ASSUME TypeOK, NEW kind \in Log!Kinds, NEW t \in Targets \cup {None},
           NEW e \in Causes \cup {None}, Log!Says(kind, t, e)
    PROVE  line' \in Log!Line
  BY DEF Log!Says, Log!Line

LEMMA SilentType == Log!Silent \in Log!Line
  BY DEF Log!Silent, Log!Line, Log!Kinds

LEMMA NoteRecoveredType ==
    ASSUME TypeOK, NoteRecovered
    PROVE  /\ marker' \in Marker \cup {None}
           /\ error' \in Causes \cup {None} /\ line' \in Log!Line
  BY SaysType, SilentType DEF TypeOK, NoteRecovered, Log!Kinds

LEMMA FailureType ==
    ASSUME TypeOK, NEW r \in Refreshers, NEW e \in Causes, Failure(r, e)
    PROVE  /\ marker' \in Marker \cup {None}
           /\ error' \in Causes \cup {None} /\ line' \in Log!Line
  BY SaysType DEF TypeOK, Failure, SetFailing, Marker, Log!Kinds

LEMMA RefreshOverType ==
    ASSUME TypeOK, NEW r \in Refreshers,
           NEW e \in {"loaded", "retry", "error"}, RefreshOver(r, e)
    PROVE  /\ pc' \in [Refreshers -> PCs] /\ entry' \in Entry
           /\ reauth' \in BOOLEAN /\ conn' \in BOOLEAN
  BY DEF TypeOK, RefreshOver, PCs, Entry

\* Every variable keeps its type; only causes of an outage are remembered.
THEOREM TypeCorrect == Spec => []TypeOK
<1>1. Init => TypeOK
  BY EmptySeq, SilentType DEF Init, TypeOK, Entry, PCs
<1>2. TypeOK /\ [Next]_vars => TypeOK'
  <2> SUFFICES ASSUME TypeOK, [Next]_vars PROVE TypeOK'
    OBVIOUS
  <2> USE SilentType
  <2>1. CASE Setup
    BY <2>1 DEF Setup, Seed, TypeOK, Marker, Entry, refreshes
  <2>2. CASE Unload
    BY <2>2 DEF Unload, Gone, TypeOK, Entry, refreshes
  <2>3. CASE Reconfigure
    BY <2>3 DEF Reconfigure, Gone, TypeOK, Entry, coordinator, refreshes
  <2>4. CASE Restart
    BY <2>4, EmptySeq DEF Restart, Gone, TypeOK, Entry, PCs
  <2>5. CASE ReachChanges
    BY <2>5 DEF ReachChanges, TypeOK, coordinator, refreshes
  <2>6. CASE Drop \/ ConnectElsewhere
    BY <2>6 DEF Drop, ConnectElsewhere, TypeOK, refreshes
  <2>7. CASE NoteExpected \/ GraceEnds
    BY <2>7 DEF NoteExpected, GraceEnds, TypeOK, refreshes
  <2>8. ASSUME NEW r \in Refreshers, Refresh(r) PROVE TypeOK'
    <3>1. CASE EnsureConnected(r)
      <4>1. CASE FoundConnected(r)
        BY <3>1, <4>1, NoteRecoveredType
        DEF EnsureConnected, FoundConnected, TypeOK, PCs
      <4>2. CASE Attempts(r)
        <5>1. queue' \in Seq(Refreshers)
          BY <4>2, AppendProperties DEF Attempts, TypeOK
        <5>2. pc' \in [Refreshers -> PCs] /\ exp' \in [Refreshers -> BOOLEAN]
          BY <4>2 DEF Attempts, TypeOK, PCs
        <5> QED
          BY <3>1, <4>2, <5>1, <5>2 DEF EnsureConnected, Attempts, TypeOK
      <4> QED BY <3>1, <4>1, <4>2 DEF EnsureConnected
    <3>2. CASE Connected(r)
      <4>1. /\ marker' \in Marker \cup {None}
            /\ error' \in Causes \cup {None} /\ line' \in Log!Line
        BY <3>2, NoteRecoveredType, SaysType
        DEF Connected, TypeOK, Log!Kinds
      <4> QED BY <3>2, <4>1, EndsType DEF Connected, TypeOK, PCs
    <3>3. CASE ConnectFailed(r)
      <4>1. reach[host] \in Causes /\ Failure(r, reach[host])
        BY <3>3 DEF ConnectFailed
      <4>2. RefreshOver(r, "retry")
        BY <3>3 DEF ConnectFailed
      <4> QED
        BY <3>3, <4>1, <4>2, EndsType, FailureType, RefreshOverType
        DEF ConnectFailed, TypeOK
    <3>4. CASE ConnectRaised(r)
      BY <3>4, EndsType, RefreshOverType DEF ConnectRaised, TypeOK
    <3>5. CASE CycleEnds(r)
      BY <3>5, RefreshOverType DEF CycleEnds, TypeOK
    <3> QED BY <2>8, <3>1, <3>2, <3>3, <3>4, <3>5 DEF Refresh
  <2>9. CASE UNCHANGED vars
    BY <2>9 DEF vars, coordinator, refreshes, TypeOK
  <2> QED
    BY <2>1, <2>2, <2>3, <2>4, <2>5, <2>6, <2>7, <2>8, <2>9 DEF Next
<1> QED BY <1>1, <1>2, PTL DEF Spec

-----------------------------------------------------------------------------
(* The coordinator, its refreshes and the marker.                            *)

\* The end of a refresh keeps HostInv: a set-up ends with its only one.
LEMMA RefreshOverHost ==
    ASSUME TypeOK, HostInv, NEW r \in Refreshers, pc[r] # "idle",
           NEW e \in {"loaded", "retry", "error"}, RefreshOver(r, e),
           UNCHANGED <<host, target>>
    PROVE  HostInv'
<1>1. Live /\ pc' = [pc EXCEPT ![r] = "idle"] /\ pc \in [Refreshers -> PCs]
  BY DEF HostInv, RefreshOver, TypeOK, Idle
<1>2. CASE entry = "setup"
  <2>1. \A q \in Refreshers : pc'[q] = "idle"
    BY <1>1, <1>2 DEF HostInv
  <2>2. Idle'
    BY <1>1, <2>1 DEF Idle
  <2> QED BY <1>1, <1>2, <2>1, <2>2 DEF HostInv, RefreshOver, Live
<1>3. CASE entry = "loaded"
  BY <1>1, <1>3 DEF HostInv, RefreshOver, Live
<1> QED BY <1>1, <1>2, <1>3 DEF Live

LEMMA HostStep ==
    ASSUME TypeOK, HostInv, ReconfigureWaits, [Next]_vars
    PROVE  HostInv'
<1>1. CASE Setup
  BY <1>1 DEF Setup, HostInv, Live, refreshes, Idle, TypeOK
<1>2. CASE Unload
  BY <1>2 DEF Unload, HostInv, Live, refreshes, Idle
<1>3. CASE Reconfigure
  BY <1>3 DEF Reconfigure, HostInv, Live, refreshes, Idle
<1>4. CASE Restart
  BY <1>4 DEF Restart, HostInv, Live, Idle
<1>5. CASE ReachChanges \/ Drop \/ ConnectElsewhere \/ NoteExpected \/ GraceEnds
  BY <1>5 DEF ReachChanges, Drop, ConnectElsewhere, NoteExpected, GraceEnds,
              HostInv, Live, Idle, coordinator, refreshes
<1>6. ASSUME NEW r \in Refreshers, Refresh(r) PROVE HostInv'
  <2>1. CASE EnsureConnected(r)
    <3>1. /\ Live /\ UNCHANGED <<entry, host, target>>
          /\ pc' \in [Refreshers -> PCs]
          /\ \A q \in Refreshers : q # r => pc'[q] = pc[q]
      BY <2>1 DEF EnsureConnected, FoundConnected, Attempts, Live, TypeOK, PCs
    <3>2. CASE entry = "setup"
      <4>1. \A q \in Refreshers : pc[q] = "idle"
        BY <2>1, <3>2 DEF EnsureConnected, Idle
      <4> QED BY <3>1, <3>2, <4>1 DEF HostInv, Live
    <3> QED BY <3>1, <3>2 DEF HostInv, Live
  <2>2. CASE Connected(r)
    <3>1. /\ UNCHANGED <<entry, host, target>> /\ pc[r] = "connecting"
          /\ \A q \in Refreshers : pc'[q] # "idle" => pc[q] # "idle"
      BY <2>2 DEF Connected, Ends, TypeOK
    <3>2. Live
      BY <3>1 DEF HostInv, Idle
    <3> QED BY <3>1, <3>2 DEF HostInv, Live
  <2>3. CASE ConnectFailed(r)
    BY <2>3, RefreshOverHost DEF ConnectFailed, Ends
  <2>4. CASE ConnectRaised(r)
    BY <2>4, RefreshOverHost DEF ConnectRaised, Ends
  <2>5. CASE CycleEnds(r)
    BY <2>5, RefreshOverHost DEF CycleEnds
  <2> QED BY <1>6, <2>1, <2>2, <2>3, <2>4, <2>5 DEF Refresh
<1>7. CASE UNCHANGED vars
  BY <1>7 DEF vars, coordinator, refreshes, HostInv, Live, Idle
<1> QED BY <1>1, <1>2, <1>3, <1>4, <1>5, <1>6, <1>7 DEF Next

\* After a failure or a recovery the marker is what the flag says.
LEMMA FailureMarker ==
    ASSUME TypeOK, MarkerAgrees, Live, NEW r \in Refreshers, NEW e \in Causes,
           Failure(r, e), target' = target
    PROVE  error' = Seed'
<1>1. CASE UNCHANGED <<error, marker>>
  BY <1>1 DEF MarkerAgrees, Seed
<1>2. CASE SetFailing(e)
  <2>1. marker' = [target |-> target, error |-> e] /\ marker' # None
    BY <1>2, ConnectionAssumption DEF SetFailing, TypeOK, Marker
  <2> QED BY <1>2, <2>1 DEF SetFailing, Seed
<1> QED BY <1>1, <1>2 DEF Failure

LEMMA RecoveredMarker ==
    ASSUME TypeOK, MarkerAgrees, Live, NoteRecovered, target' = target
    PROVE  error' = Seed'
  BY DEF MarkerAgrees, NoteRecovered, Seed

LEMMA MarkerStep ==
    ASSUME TypeOK, HostInv, ReconfigureWaits, MarkerAgrees, [Next]_vars
    PROVE  MarkerAgrees'
<1>1. CASE Setup
  BY <1>1 DEF Setup, MarkerAgrees, Seed
<1>2. CASE Unload \/ Reconfigure \/ Restart
  BY <1>2 DEF Unload, Reconfigure, Restart, MarkerAgrees, Live, HostInv
<1>3. CASE ReachChanges \/ Drop \/ ConnectElsewhere \/ NoteExpected \/ GraceEnds
  BY <1>3 DEF ReachChanges, Drop, ConnectElsewhere, NoteExpected, GraceEnds,
              MarkerAgrees, Seed, Live, coordinator
<1>4. ASSUME NEW r \in Refreshers, Refresh(r) PROVE MarkerAgrees'
  <2>1. CASE EnsureConnected(r)
    <3>1. Live /\ UNCHANGED <<entry, target>>
      BY <2>1 DEF EnsureConnected, Live
    <3>2. CASE FoundConnected(r)
      BY <3>1, <3>2, RecoveredMarker DEF FoundConnected, MarkerAgrees
    <3>3. CASE Attempts(r)
      BY <3>1, <3>3 DEF Attempts, MarkerAgrees, Seed
    <3> QED BY <2>1, <3>2, <3>3 DEF EnsureConnected
  <2>2. CASE Connected(r)
    <3>1. Live /\ UNCHANGED <<entry, target>>
      BY <2>2 DEF Connected, Ends, HostInv, Idle, Live
    <3>2. CASE NoteRecovered
      BY <3>1, <3>2, RecoveredMarker DEF MarkerAgrees
    <3>3. CASE UNCHANGED <<error, marker>>
      BY <3>1, <3>3 DEF MarkerAgrees, Seed
    <3> QED BY <2>2, <3>2, <3>3 DEF Connected
  <2>3. CASE ConnectFailed(r)
    <3>1. Live /\ target' = target
      BY <2>3 DEF ConnectFailed, Ends, HostInv, Idle
    <3>2. reach[host] \in Causes /\ Failure(r, reach[host])
      BY <2>3 DEF ConnectFailed
    <3> QED BY <3>1, <3>2, FailureMarker DEF MarkerAgrees
  <2>4. CASE ConnectRaised(r) \/ CycleEnds(r)
    <3>1. Live /\ UNCHANGED <<target, error, marker>>
      BY <2>4 DEF ConnectRaised, CycleEnds, Ends, HostInv, Idle
    <3> QED BY <3>1 DEF MarkerAgrees, Seed
  <2> QED BY <1>4, <2>1, <2>2, <2>3, <2>4 DEF Refresh
<1>5. CASE UNCHANGED vars
  BY <1>5 DEF vars, coordinator, MarkerAgrees, Seed, Live
<1> QED BY <1>1, <1>2, <1>3, <1>4, <1>5 DEF Next

MarkerInv == TypeOK /\ HostInv /\ MarkerAgrees

LEMMA MarkerInductive ==
    ASSUME ReconfigureWaits
    PROVE  Spec => []MarkerInv
<1>1. Init => HostInv /\ MarkerAgrees
  BY DEF Init, HostInv, MarkerAgrees, Live, Idle
<1>2. ASSUME TypeOK, TypeOK', HostInv, MarkerAgrees, [Next]_vars
      PROVE  HostInv' /\ MarkerAgrees'
  BY <1>2, HostStep, MarkerStep
<1>3. Spec => [](HostInv /\ MarkerAgrees)
  BY <1>1, <1>2, TypeCorrect, PTL DEF Spec
<1> QED BY <1>3, TypeCorrect, PTL DEF MarkerInv

\* What a coordinator takes to be logged already is what a coordinator made in
\* its place would read from hass.data.
THEOREM MarkerHolds ==
    ASSUME ReconfigureWaits
    PROVE  Spec => []MarkerAgrees
  BY MarkerInductive, PTL DEF MarkerInv

-----------------------------------------------------------------------------
(* Disconnects that were asked for.                                          *)

\* The head of the queue is all an attempt's end concerns.
LEMMA EndsRequest ==
    ASSUME TypeOK, RequestInv, InOrder, NEW r \in Refreshers, Ends(r)
    PROVE  /\ ~expected
           /\ \A q \in Refreshers : exp[q] => q = r
           /\ \A q \in Refreshers : ~exp'[q]
<1>1. queue # <<>> /\ queue[1] = r
  BY EmptySeq DEF Ends, TypeOK
<1> QED BY <1>1 DEF Ends, RequestInv, TypeOK

LEMMA RequestStep ==
    ASSUME TypeOK, RequestInv, InOrder, [Next]_vars
    PROVE  RequestInv'
<1>1. CASE Setup \/ Unload \/ Reconfigure \/ ReachChanges
  BY <1>1 DEF Setup, Unload, Reconfigure, ReachChanges, Gone, RequestInv,
              coordinator, refreshes
<1>2. CASE Restart
  BY <1>2 DEF Restart, Gone, RequestInv
<1>3. CASE Drop \/ ConnectElsewhere \/ NoteExpected \/ GraceEnds
  BY <1>3 DEF Drop, ConnectElsewhere, NoteExpected, GraceEnds, RequestInv,
              refreshes
<1>4. ASSUME NEW r \in Refreshers, Refresh(r) PROVE RequestInv'
  <2>1. CASE EnsureConnected(r)
    <3>1. CASE FoundConnected(r)
      BY <3>1 DEF FoundConnected, RequestInv
    <3>2. CASE Attempts(r)
      <4>1. queue' # <<>> /\ (queue = <<>> => queue'[1] = r)
        BY <3>2, AppendProperties, EmptySeq DEF Attempts, TypeOK
      <4>2. queue # <<>> => queue'[1] = queue[1]
        BY <3>2, AppendProperties, EmptySeq DEF Attempts, TypeOK
      <4>3. ~expected'
        BY <3>2 DEF Attempts
      <4>4. ASSUME NEW q \in Refreshers, exp'[q] PROVE queue'[1] = q
        BY <3>2, <4>1, <4>2, <4>4 DEF Attempts, RequestInv, TypeOK
      <4> QED BY <4>1, <4>3, <4>4 DEF RequestInv
    <3> QED BY <2>1, <3>1, <3>2 DEF EnsureConnected
  <2>2. CASE Connected(r) \/ ConnectFailed(r) \/ ConnectRaised(r)
    <3>1. Ends(r) /\ expected' = expected
      BY <2>2 DEF Connected, ConnectFailed, ConnectRaised
    <3> QED BY <3>1, EndsRequest DEF RequestInv
  <2>3. CASE CycleEnds(r)
    BY <2>3 DEF CycleEnds, RequestInv
  <2> QED BY <1>4, <2>1, <2>2, <2>3 DEF Refresh
<1>5. CASE UNCHANGED vars
  BY <1>5 DEF vars, coordinator, refreshes, RequestInv
<1> QED BY <1>1, <1>2, <1>3, <1>4, <1>5 DEF Next

\* An error is only ever logged by a failed attempt.
LEMMA ErrorIsFailure ==
    ASSUME Next, line'.kind = "error"
    PROVE  \E r \in Refreshers : ConnectFailed(r)
<1> SUFFICES ASSUME \A r \in Refreshers : ~ConnectFailed(r) PROVE FALSE
  OBVIOUS
<1>1. line' # Log!Silent
  BY DEF Log!Silent
<1>2. PICK r \in Refreshers : Refresh(r)
  BY <1>1 DEF Next, Setup, Unload, Reconfigure, Restart, ReachChanges, Drop,
              ConnectElsewhere, NoteExpected, GraceEnds
<1>3. ~NoteRecovered
  BY <1>1 DEF NoteRecovered, Log!Says
<1> QED
  BY <1>1, <1>2, <1>3 DEF Refresh, EnsureConnected, FoundConnected, Attempts,
     Connected, ConnectRaised, CycleEnds, Log!Says

\* If the client makes one attempt at a time, the failure after a requested
\* reboot or shutdown is not reported as an outage, whoever meets it.
THEOREM RequestedIsQuiet == ASSUME InOrder PROVE Spec => RequestedIsNoError
<1>1. Init => RequestInv
  BY DEF Init, RequestInv
<1>2. TypeOK /\ RequestInv /\ [Next]_vars => RequestInv'
  BY RequestStep
<1>3. ASSUME TypeOK, RequestInv, Next, line'.kind = "error"
      PROVE  QuietWhileRequested
  <2>1. PICK r \in Refreshers : ConnectFailed(r)
    BY <1>3, ErrorIsFailure
  <2>2. \A q \in Refreshers : exp[q] => q = r
    BY <1>3, <2>1, EndsRequest DEF ConnectFailed
  <2>3. ~(error = None /\ exp[r])
    BY <1>3, <2>1 DEF ConnectFailed, Failure, Log!Says
  <2> QED BY <2>2, <2>3 DEF QuietWhileRequested
<1>4. TypeOK /\ RequestInv /\ [Next]_vars => [QuietWhileRequested]_vars
  BY <1>3 DEF QuietWhileRequested
<1> QED
  BY <1>1, <1>2, <1>4, TypeCorrect, PTL DEF Spec, RequestedIsNoError

-----------------------------------------------------------------------------
(* The abstract log.                                                         *)

\* The server the refreshes speak of is the one the marker is about.
LEMMA ToldOfHost ==
    ASSUME MarkerInv, Live
    PROVE  /\ host = target /\ host \in Targets /\ error = Seed
           /\ marker # None => marker \in Marker
           /\ (IF marker # None /\ marker.target = host
               THEN marker.error ELSE None) = error
  BY DEF MarkerInv, HostInv, MarkerAgrees, Seed, TypeOK, Marker

\* A failed attempt is, to the log, a cause that is news or a failure that
\* goes on.
LEMMA FailureTold ==
    ASSUME MarkerInv, Live, NEW r \in Refreshers, NEW e \in Causes,
           Failure(r, e), target' = target
    PROVE  Log!Next
<1> PICK t \in Targets : t = host
  BY ToldOfHost
<1>1. CASE error = e /\ Log!Says("still", host, e) /\ UNCHANGED <<error, marker>>
  <2>1. Log!StillFails(t)
    BY <1>1, ToldOfHost, ConnectionAssumption DEF Log!StillFails, Log!Says
  <2> QED BY <2>1 DEF Log!Next
<1>2. CASE error # e /\ SetFailing(e)
  <2>1. marker' = [target |-> target, error |-> e] /\ marker' # None
    BY <1>2, ConnectionAssumption DEF SetFailing, MarkerInv, TypeOK, Marker
  <2>2. Log!TellsOnly(t, e)
    BY <2>1, ToldOfHost DEF Log!TellsOnly
  <2>3. Log!Says("error", t, e) \/ (error = None /\ Log!Says("requested", t, e))
    BY <1>2 DEF Failure, Log!Says
  <2>4. Log!Fail(t, e)
    BY <1>2, <2>2, <2>3, ToldOfHost DEF Log!Fail
  <2> QED BY <2>4 DEF Log!Next
<1> QED BY <1>1, <1>2 DEF Failure

\* A recovery is reported of the server the log knows a failure of.
LEMMA RecoveryTold ==
    ASSUME MarkerInv, Live, NoteRecovered
    PROVE  Log!Next
<1> PICK t \in Targets : t = host
  BY ToldOfHost
<1>1. CASE error = None
  BY <1>1 DEF NoteRecovered, Log!Nothing, Log!Next
<1>2. CASE error # None
  <2>1. Log!TellsOnly(t, None) /\ Log!Says("recovered", t, None)
    BY <1>2 DEF NoteRecovered, Log!TellsOnly, Log!Says
  <2>2. Log!Recover(t)
    BY <1>2, <2>1, ToldOfHost DEF Log!Recover
  <2> QED BY <2>2 DEF Log!Next
<1> QED BY <1>1, <1>2

\* A requested outage that ended before it was seen.
LEMMA OverTold ==
    ASSUME MarkerInv, Live, error = None, UNCHANGED marker,
           Log!Says("over", host, None)
    PROVE  Log!Next
<1> PICK t \in Targets : t = host
  BY ToldOfHost
<1>1. Log!RequestOver(t)
  BY ToldOfHost DEF Log!RequestOver, Log!Says
<1> QED BY <1>1 DEF Log!Next

LEMMA LogStep ==
    ASSUME MarkerInv, [Next]_vars
    PROVE  [Log!Next]_(Log!vars)
<1>1. CASE Setup \/ ReachChanges \/ Drop \/ ConnectElsewhere \/ NoteExpected
           \/ GraceEnds
  BY <1>1 DEF Setup, ReachChanges, Drop, ConnectElsewhere, NoteExpected,
              GraceEnds, Log!Nothing, Log!Next
<1>2. CASE Unload \/ Reconfigure \/ Restart
  BY <1>2 DEF Unload, Reconfigure, Restart, Log!Nothing, Log!Forget, Log!Next
<1>3. ASSUME NEW r \in Refreshers, Refresh(r) PROVE Log!Next
  <2>0. pc[r] # "idle" => Live
    BY <1>3 DEF MarkerInv, HostInv, Idle
  <2>1. CASE EnsureConnected(r)
    <3>1. Live
      BY <2>1 DEF EnsureConnected, Live
    <3>2. CASE FoundConnected(r)
      BY <3>1, <3>2, RecoveryTold DEF FoundConnected
    <3>3. CASE Attempts(r)
      BY <3>3 DEF Attempts, Log!Nothing, Log!Next
    <3> QED BY <2>1, <3>2, <3>3 DEF EnsureConnected
  <2>2. CASE Connected(r)
    <3>1. Live
      BY <2>0, <2>2 DEF Connected, Ends
    <3>2. CASE NoteRecovered
      BY <3>1, <3>2, RecoveryTold
    <3>3. CASE error = None /\ UNCHANGED marker /\ Log!Says("over", host, None)
      BY <3>1, <3>3, OverTold
    <3> QED BY <2>2, <3>2, <3>3 DEF Connected
  <2>3. CASE ConnectFailed(r)
    <3>1. Live /\ target' = target
      BY <2>0, <2>3 DEF ConnectFailed, Ends
    <3>2. reach[host] \in Causes /\ Failure(r, reach[host])
      BY <2>3 DEF ConnectFailed
    <3> QED BY <3>1, <3>2, FailureTold
  <2>4. CASE ConnectRaised(r) \/ CycleEnds(r)
    BY <2>4 DEF ConnectRaised, CycleEnds, Log!Nothing, Log!Next
  <2> QED BY <1>3, <2>1, <2>2, <2>3, <2>4 DEF Refresh
<1>4. CASE UNCHANGED vars
  BY <1>4 DEF vars, Log!vars
<1> QED BY <1>1, <1>2, <1>3, <1>4 DEF Next

\* Over retried set-ups, overlapping refreshes and changes of the server, the
\* log keeps the promise of OutageLog: each cause of an outage is told once.
THEOREM LogImplemented ==
    ASSUME ReconfigureWaits PROVE Spec => ImplementsOutageLog
<1>1. Init => Log!Init
  BY DEF Init, Log!Init
<1>2. MarkerInv /\ [Next]_vars => [Log!Next]_(Log!vars)
  BY LogStep
<1> QED
  BY <1>1, <1>2, MarkerInductive, PTL DEF Spec, ImplementsOutageLog, Log!Spec
=============================================================================
