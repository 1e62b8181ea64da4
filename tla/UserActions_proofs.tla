-------------------------- MODULE UserActions_proofs --------------------------
(* Theorems about UserActions, for any number of presses at a time.          *)
EXTENDS UserActions, TLAPS

PCs == {"idle", "lock", "check", "send", "reread", "job", "data"}
Tolds == Tasks \cup {"nothing", "refused", "done"}
-----------------------------------------------------------------------------
(* What the parts of the actions do to the types.                            *)

LEMMA EndedType ==
  ASSUME TypeOK, NEW p \in Presses, NEW how \in Tolds, Ended(p, how)
  PROVE  /\ lock' \in Presses \cup {Free} /\ pc' \in [Tasks -> PCs]
         /\ button' \in [Presses -> Buttons] /\ told' \in [Presses -> Tolds]
  BY DEF TypeOK, Ended, PCs, Tolds, Tasks, Buttons, ScrubButtons

LEMMA GoesType ==
  ASSUME TypeOK, NEW t \in Tasks, NEW at \in PCs, Goes(t, at)
  PROVE  /\ lock' \in Presses \cup {Free} /\ pc' \in [Tasks -> PCs]
         /\ button' \in [Presses -> Buttons] /\ told' \in [Presses -> Tolds]
  BY DEF TypeOK, Goes, PCs, Tolds

LEMMA CallType ==
  ASSUME TypeOK, NEW t \in Tasks, NEW failed \in BOOLEAN, CallBegins(t) \/ CallEnds(t, failed)
  PROVE  error' \in [Tasks -> Tasks \cup {""}]
  BY DEF TypeOK, CallBegins, CallEnds, Recorded

LEMMA UpdateType ==
  ASSUME UpdateTypeOK, JobGoesOn \/ UpdateComesOut \/ UpdateCheck
                       \/ \E answer \in {"job", "nothing", "failed", "lost"} : LookedUp(answer)
  PROVE  UpdateTypeOK'
<1>1. CASE JobGoesOn
  BY <1>1 DEF JobGoesOn, UpdateTypeOK, info
<1>2. CASE UpdateComesOut \/ UpdateCheck
  BY <1>2 DEF UpdateComesOut, UpdateCheck, Checked, UpdateTypeOK, info, nas
<1>3. ASSUME NEW answer \in {"job", "nothing", "failed", "lost"}, LookedUp(answer)
      PROVE  UpdateTypeOK'
  <2>1. UNCHANGED <<nas, available>> /\ jobid' \in BOOLEAN
    BY <1>3 DEF LookedUp, UpdateTypeOK
  <2>2. state' \in {"unknown", state, job} /\ (answer = "job" => job # "none")
    BY <1>3 DEF LookedUp
  <2>3. state' = job => answer = "job" \/ job = state \/ job = "unknown"
    BY <1>3 DEF LookedUp
  <2> QED BY <2>1, <2>2, <2>3 DEF UpdateTypeOK, nas
<1> QED BY <1>1, <1>2, <1>3
-----------------------------------------------------------------------------
(* Type correctness                                                          *)

LEMMA SendType ==
  ASSUME TypeOK, NEW p \in Presses, Send(p)
  PROVE  TypeOK'
<1>1. PICK takes \in BOOLEAN, failed \in BOOLEAN :
        /\ Taken(p, takes)
        /\ answered' = [answered EXCEPT ![p] = ~failed]
        /\ CallEnds(p, failed)
        /\ \/ ScrubAnswered(p, failed)
           \/ TaskAnswered(p)
           \/ InstallAnswered(p, failed)
  BY DEF Send, TypeOK, Buttons
<1> USE DEF Tolds, PCs
<1>2. error' \in [Tasks -> Tasks \cup {""}] /\ p \in Tasks
  BY <1>1, CallType DEF Tasks
<1>3. error'[p] \in Tolds \/ error'[p] = ""
  BY <1>2
<1>4. failed => error'[p] = p
  BY <1>1, <1>2 DEF CallEnds, Recorded, TypeOK
<1>5. /\ lock' \in Presses \cup {Free} /\ pc' \in [Tasks -> PCs]
      /\ button' \in [Presses -> Buttons] /\ told' \in [Presses -> Tolds]
  <2>1. p \in Tolds /\ "done" \in Tolds /\ "reread" \in PCs
    BY DEF Tasks
  <2>2. (\E how \in Tolds : Ended(p, how)) \/ (\E at \in PCs : Goes(p, at))
    BY <1>1, <1>3, <1>4, <2>1 DEF ScrubAnswered, TaskAnswered, InstallAnswered
  <2> QED BY <1>2, <2>2, EndedType, GoesType
<1>6. marked' \in BOOLEAN /\ answered' \in [Presses -> BOOLEAN] /\ moved' \in [Presses -> BOOLEAN]
  BY <1>1 DEF ScrubAnswered, TaskAnswered, InstallAnswered, Send, TypeOK
<1>7. scan' \in Scans /\ job' \in {"none", "waiting", "running", "over"} /\ pending' \in BOOLEAN
  BY <1>1 DEF Taken, Scrubbed, Installing, TypeOK, UpdateTypeOK, nas, Scans
<1>8. jobid' \in BOOLEAN /\ UNCHANGED <<state, available>>
  BY <1>1 DEF ScrubAnswered, TaskAnswered, InstallAnswered, TypeOK, UpdateTypeOK, info
<1> QED BY <1>2, <1>5, <1>6, <1>7, <1>8 DEF TypeOK, UpdateTypeOK

LEMMA TypeInit == Init => TypeOK
<1> SUFFICES ASSUME Init PROVE TypeOK
  OBVIOUS
<1>1. UpdateTypeOK
  BY DEF Init, UpdateInit, UpdateTypeOK
<1>2. /\ pc \in [Tasks -> PCs] /\ error \in [Tasks -> Tasks \cup {""}]
      /\ told \in [Presses -> Tolds] /\ button \in [Presses -> Buttons]
  BY DEF Init, PCs, Tolds, Buttons, ScrubButtons
<1> QED BY <1>1, <1>2 DEF Init, TypeOK, PCs, Tolds

\* Each step keeps the types.
LEMMA TypeStep == TypeOK /\ [Next]_vars => TypeOK'
<1> SUFFICES ASSUME TypeOK, [Next]_vars PROVE TypeOK'
  OBVIOUS
<1> USE DEF Tolds, PCs
<1>1. ASSUME NEW p \in Presses, NEW b \in Buttons, Press(p, b) PROVE TypeOK'
  <2>1. error' \in [Tasks -> Tasks \cup {""}] /\ p \in Tasks
    BY <1>1, CallType DEF Press, Tasks
  <2> QED BY <1>1, <2>1 DEF Press, TypeOK, UpdateTypeOK, nas, info
<1>2. ASSUME NEW p \in Presses, Acquire(p) PROVE TypeOK'
  <2>1. error' \in [Tasks -> Tasks \cup {""}] /\ p \in Tasks
    BY <1>2, CallType DEF Acquire, Tasks, TypeOK
  <2> QED BY <1>2, <2>1 DEF Acquire, TypeOK, UpdateTypeOK, nas, info, history
<1>3. ASSUME NEW p \in Presses, Check(p) PROVE TypeOK'
  <2>1. error' \in [Tasks -> Tasks \cup {""}] /\ p \in Tasks
    BY <1>3, CallType DEF Check, Tasks, TypeOK
  <2>2. /\ lock' \in Presses \cup {Free} /\ pc' \in [Tasks -> PCs]
        /\ button' \in [Presses -> Buttons] /\ told' \in [Presses -> Tolds]
    BY <1>3, <2>1, EndedType, GoesType DEF Check
  <2> QED BY <1>3, <2>1, <2>2 DEF Check, TypeOK, UpdateTypeOK, nas, info, history
<1>4. ASSUME NEW p \in Presses, Send(p) PROVE TypeOK'
  BY <1>4, SendType
<1>5. ASSUME NEW p \in Presses, Reread(p) PROVE TypeOK'
  BY <1>5, EndedType DEF Reread, TypeOK, UpdateTypeOK, nas, info, history
<1>6. CASE PollStart \/ PollEnds
  <2>1. error' \in [Tasks -> Tasks \cup {""}] /\ Poll \in Tasks
    BY <1>6, CallType DEF PollStart, PollEnds, Tasks, TypeOK
  <2>2. \E at \in PCs : Goes(Poll, at)
    BY <1>6 DEF PollStart, PollEnds
  <2>3. marked' \in BOOLEAN /\ UNCHANGED <<nas, info, scan, history>>
    BY <1>6 DEF PollStart, PollEnds, TypeOK
  <2> QED BY <2>1, <2>2, <2>3, GoesType DEF TypeOK, UpdateTypeOK, nas, info, history
<1>7. CASE PollJob
  <2>0. (CallEnds(Poll, TRUE) \/ CallEnds(Poll, FALSE)) /\ Poll \in Tasks
    BY <1>7 DEF PollJob, CallEnds, Tasks
  <2>1. error' \in [Tasks -> Tasks \cup {""}]
    BY <2>0, CallType
  <2>2. \E at \in PCs : Goes(Poll, at)
    BY <1>7 DEF PollJob
  <2>3. UpdateTypeOK'
    BY <1>7, UpdateType DEF PollJob, TypeOK
  <2>4. /\ lock' \in Presses \cup {Free} /\ pc' \in [Tasks -> PCs]
        /\ button' \in [Presses -> Buttons] /\ told' \in [Presses -> Tolds]
    BY <2>0, <2>2, GoesType
  <2>5. UNCHANGED <<scan, marked, history>>
    BY <1>7 DEF PollJob
  <2> QED BY <2>1, <2>3, <2>4, <2>5 DEF TypeOK, history
<1>8. CASE PollChecksUpdates
  <2>1. UpdateTypeOK'
    BY <1>8, UpdateType DEF PollChecksUpdates, TypeOK
  <2> QED BY <1>8, <2>1, GoesType DEF PollChecksUpdates, TypeOK, history, Tasks
<1>9. CASE ScanChanges
  BY <1>9 DEF ScanChanges, TypeOK, UpdateTypeOK, nas, info, press
<1>10. CASE UpdateGoesOn
  <2>1. UpdateTypeOK'
    BY <1>10, UpdateType DEF UpdateGoesOn, TypeOK
  <2> QED BY <1>10, <2>1 DEF UpdateGoesOn, TypeOK, press, history
<1>11. CASE UNCHANGED vars
  BY <1>11 DEF vars, nas, info, press, history, TypeOK, UpdateTypeOK
<1> QED BY <1>1, <1>2, <1>3, <1>4, <1>5, <1>6, <1>7, <1>8, <1>9, <1>10, <1>11 DEF Next

\* Every variable keeps its type.
THEOREM TypeCorrect == Spec => []TypeOK
  BY TypeInit, TypeStep, PTL DEF Spec
-----------------------------------------------------------------------------
(* A press is told of its own call                                           *)

\* A press under way has been told nothing, one that is about to send has no error, and one
\* that reads the pools again has had its answer.
Underway ==
  \A p \in Presses :
    /\ pc[p] # "idle" => told[p] = "nothing"
    /\ pc[p] = "send" => error[p] = ""
    /\ pc[p] = "reread" => answered[p]

OwnInv == TypeOK /\ OwnOutcome /\ Underway

\* What a step of one task leaves alone.
LEMMA OthersKept ==
  ASSUME TypeOK, OwnOutcome, Underway, NEW p \in Presses,
         \A q \in Presses \ {p} : /\ told'[q] = told[q] /\ answered'[q] = answered[q]
                                  /\ pc'[q] = pc[q] /\ error'[q] = error[q],
         told'[p] \in Tasks => told'[p] = p /\ ~answered'[p],
         told'[p] = "done" => answered'[p],
         pc'[p] # "idle" => told'[p] = "nothing",
         pc'[p] = "send" => error'[p] = "",
         pc'[p] = "reread" => answered'[p]
  PROVE  OwnOutcome' /\ Underway'
  BY DEF OwnOutcome, Underway

\* The poll leaves the presses alone, their errors too.
LEMMA PollKeeps ==
  ASSUME OwnInv,
         PollStart \/ PollJob \/ PollChecksUpdates \/ PollEnds \/ ScanChanges \/ UpdateGoesOn
  PROVE  OwnOutcome' /\ Underway'
<1>1. /\ told' = told /\ answered' = answered
      /\ \E at \in PCs : pc' = [pc EXCEPT ![Poll] = at]
  <2>1. pc' = pc => pc' = [pc EXCEPT ![Poll] = pc[Poll]] /\ pc[Poll] \in PCs
    BY DEF OwnInv, TypeOK, Tasks, PCs
  <2> QED BY <2>1 DEF PollStart, PollJob, PollChecksUpdates, PollEnds, ScanChanges, UpdateGoesOn,
                      Goes, press, history, PCs
<1>2. \E e \in Tasks \cup {""} : error' = [error EXCEPT ![Poll] = e]
  <2>1. error' = error => error' = [error EXCEPT ![Poll] = error[Poll]]
                          /\ error[Poll] \in Tasks \cup {""}
    BY DEF OwnInv, TypeOK, Tasks
  <2>2. Poll \in Tasks
    BY DEF Tasks
  <2> QED BY <2>1, <2>2 DEF PollStart, PollJob, PollChecksUpdates, PollEnds, ScanChanges,
                     UpdateGoesOn, CallBegins, CallEnds, Recorded
<1>3. \A q \in Presses : q \in Tasks /\ q # Poll
  BY PressesAssumption DEF Tasks
<1>4. \A q \in Presses : pc'[q] = pc[q] /\ error'[q] = error[q]
  BY <1>1, <1>2, <1>3 DEF OwnInv, TypeOK
<1> QED BY <1>1, <1>4 DEF OwnInv, OwnOutcome, Underway

\* A call that begins clears the error of its own task only.
LEMMA CallBeginsAlone ==
  ASSUME TypeOK, NEW p \in Tasks, CallBegins(p)
  PROVE  error'[p] = "" /\ \A q \in Tasks \ {p} : error'[q] = error[q]
  BY DEF TypeOK, CallBegins, Recorded

\* No press takes another call's error for its own, and none is told that its action was taken
\* when its own call failed.
THEOREM OutcomeIsOwn == Spec => []OwnOutcome
<1>1. Init => OwnInv
  <2> SUFFICES ASSUME Init PROVE OwnInv
    OBVIOUS
  <2>1. TypeOK
    BY TypeInit
  <2>2. OwnOutcome /\ Underway
    BY PressesAssumption DEF Init, OwnOutcome, Underway, Tasks, Poll
  <2> QED BY <2>1, <2>2 DEF OwnInv
<1>2. OwnInv /\ [Next]_vars => OwnInv'
  <2> SUFFICES ASSUME OwnInv, [Next]_vars PROVE OwnInv'
    OBVIOUS
  <2>0. TypeOK' /\ TypeOK /\ OwnOutcome /\ Underway
    BY TypeStep DEF OwnInv
  <2> SUFFICES OwnOutcome' /\ Underway'
    BY <2>0 DEF OwnInv
  <2>a. \A p \in Presses : p \in Tasks /\ p \notin {"nothing", "refused", "done", "", Poll}
    BY PressesAssumption DEF Tasks
  <2>b. "nothing" \notin Tasks /\ "refused" \notin Tasks /\ "done" \notin Tasks /\ "" \notin Tasks
    BY PressesAssumption DEF Tasks, Poll
  <2>c. DOMAIN pc = Tasks /\ DOMAIN told = Presses /\ DOMAIN answered = Presses
    BY <2>0 DEF TypeOK
  <2>1. ASSUME NEW p \in Presses, NEW b \in Buttons, Press(p, b)
        PROVE  OwnOutcome' /\ Underway'
    <3>0. /\ answered' = [answered EXCEPT ![p] = FALSE] /\ told' = [told EXCEPT ![p] = "nothing"]
          /\ pc' = [pc EXCEPT ![p] = IF b \in ScrubButtons THEN "lock" ELSE "send"]
      BY <2>1 DEF Press
    <3>1. ASSUME NEW q \in Presses \ {p}
          PROVE  /\ told'[q] = told[q] /\ answered'[q] = answered[q]
                 /\ pc'[q] = pc[q] /\ error'[q] = error[q]
      <4>1. answered'[q] = answered[q]
        BY <2>c, <3>0
      <4>2. told'[q] = told[q]
        BY <2>c, <3>0
      <4>3. pc'[q] = pc[q]
        BY <2>a, <2>c, <3>0
      <4>4. error'[q] = error[q]
        BY <2>0, <2>1, <2>a, CallBeginsAlone DEF Press
      <4> QED BY <4>1, <4>2, <4>3, <4>4
    <3>2. told'[p] = "nothing" /\ error'[p] = "" /\ pc'[p] \in {"lock", "send"}
      <4>1. told'[p] = "nothing" /\ pc'[p] \in {"lock", "send"}
        BY <2>a, <2>c, <3>0
      <4> QED BY <2>0, <2>1, <2>a, <4>1, CallBeginsAlone DEF Press
    <3> QED BY <2>0, <2>b, <3>1, <3>2, OthersKept
  <2>2. ASSUME NEW p \in Presses, Acquire(p) PROVE OwnOutcome' /\ Underway'
    <3>1. ASSUME NEW q \in Presses \ {p}
          PROVE  /\ told'[q] = told[q] /\ answered'[q] = answered[q]
                 /\ pc'[q] = pc[q] /\ error'[q] = error[q]
      <4>1. UNCHANGED <<told, answered>> /\ pc'[q] = pc[q]
        BY <2>0, <2>2, <2>a DEF Acquire, history, TypeOK
      <4>2. error'[q] = error[q]
        BY <2>0, <2>2, <2>a, CallBeginsAlone DEF Acquire
      <4> QED BY <4>1, <4>2
    <3>2. told[p] = "nothing" /\ told' = told /\ pc'[p] \in {"send", "check"}
      BY <2>0, <2>2, <2>a DEF Acquire, Underway, TypeOK
    <3>3. pc'[p] = "send" => error'[p] = ""
      BY <2>0, <2>2, <2>a, CallBeginsAlone DEF Acquire, TypeOK
    <3> QED BY <2>0, <2>b, <3>1, <3>2, <3>3, OthersKept
  <2>3. ASSUME NEW p \in Presses, Check(p) PROVE OwnOutcome' /\ Underway'
    <3>1. ASSUME NEW q \in Presses \ {p}
          PROVE  /\ told'[q] = told[q] /\ answered'[q] = answered[q]
                 /\ pc'[q] = pc[q] /\ error'[q] = error[q]
      <4>1. answered' = answered /\ (Ended(p, "refused") \/ Goes(p, "send"))
        BY <2>3 DEF Check, history
      <4>3. told'[q] = told[q] /\ pc'[q] = pc[q]
        BY <2>a, <2>c, <4>1 DEF Ended, Goes
      <4>2. error'[q] = error[q]
        BY <2>0, <2>3, <2>a, CallBeginsAlone DEF Check
      <4> QED BY <4>1, <4>2, <4>3
    <3>2. told[p] = "nothing"
      BY <2>0, <2>3 DEF Check, Underway
    <3>3. \/ told'[p] = "refused" /\ pc'[p] = "idle"
          \/ told' = told /\ pc'[p] = "send" /\ error'[p] = ""
      <4>1. Ended(p, "refused") \/ (Goes(p, "send") /\ CallBegins(p))
        BY <2>3 DEF Check
      <4>2. Ended(p, "refused") => told'[p] = "refused" /\ pc'[p] = "idle"
        BY <2>a, <2>c DEF Ended
      <4>3. Goes(p, "send") => told' = told /\ pc'[p] = "send"
        BY <2>a, <2>c DEF Goes
      <4>4. CallBegins(p) => error'[p] = ""
        BY <2>0, <2>a, CallBeginsAlone
      <4> QED BY <4>1, <4>2, <4>3, <4>4
    <3> QED BY <2>0, <2>b, <3>1, <3>2, <3>3, OthersKept
  <2>4. ASSUME NEW p \in Presses, Send(p) PROVE OwnOutcome' /\ Underway'
    <3>2. PICK takes \in BOOLEAN, failed \in BOOLEAN :
            /\ answered' = [answered EXCEPT ![p] = ~failed]
            /\ CallEnds(p, failed)
            /\ \/ ScrubAnswered(p, failed)
               \/ TaskAnswered(p)
               \/ InstallAnswered(p, failed)
      BY <2>4, <2>0 DEF Send, TypeOK, Buttons
    <3>3. pc[p] = "send" /\ error[p] = "" /\ told[p] = "nothing"
      BY <2>4, <2>0 DEF Send, Underway
    <3>4. error' = [error EXCEPT ![p] = IF failed THEN p ELSE ""]
      BY <3>2, <3>3, <2>0, <2>a DEF CallEnds, Recorded, TypeOK
    <3>5. error'[p] = IF failed THEN p ELSE ""
      BY <3>4, <2>0, <2>a DEF TypeOK
    <3>6. \/ ~failed /\ Ended(p, "done")
          \/ failed /\ Ended(p, p)
          \/ ~failed /\ Goes(p, "reread")
      BY <3>2, <3>5, <2>a DEF ScrubAnswered, TaskAnswered, InstallAnswered
    <3>1. ASSUME NEW q \in Presses \ {p}
          PROVE  /\ told'[q] = told[q] /\ answered'[q] = answered[q]
                 /\ pc'[q] = pc[q] /\ error'[q] = error[q]
      <4>1. answered'[q] = answered[q]
        BY <2>0, <3>2 DEF TypeOK
      <4>2. told'[q] = told[q] /\ pc'[q] = pc[q] /\ error'[q] = error[q]
        <5>1. error'[q] = error[q]
          BY <2>0, <2>a, <3>4 DEF TypeOK
        <5>2. ASSUME NEW how \in {"done", p}, Ended(p, how)
              PROVE  told'[q] = told[q] /\ pc'[q] = pc[q]
          BY <2>0, <2>a, <5>2 DEF Ended, TypeOK
        <5>3. ASSUME Goes(p, "reread") PROVE told'[q] = told[q] /\ pc'[q] = pc[q]
          BY <2>0, <2>a, <5>3 DEF Goes, TypeOK
        <5> QED BY <3>6, <5>1, <5>2, <5>3
      <4> QED BY <4>1, <4>2
    <3>7. \/ ~failed /\ told'[p] = "done" /\ pc'[p] = "idle"
          \/ failed /\ told'[p] = p /\ pc'[p] = "idle"
          \/ ~failed /\ told'[p] = "nothing" /\ pc'[p] = "reread"
      <4>1. ASSUME NEW how, Ended(p, how) PROVE told'[p] = how /\ pc'[p] = "idle"
        BY <2>a, <2>c, <4>1 DEF Ended
      <4>2. ASSUME Goes(p, "reread") PROVE told'[p] = told[p] /\ pc'[p] = "reread"
        BY <2>a, <2>c, <4>2 DEF Goes
      <4> QED BY <3>3, <3>6, <4>1, <4>2
    <3>8. answered'[p] = ~failed
      BY <2>0, <3>2 DEF TypeOK
    <3> QED BY <2>0, <2>a, <2>b, <3>1, <3>7, <3>8, OthersKept
  <2>5. ASSUME NEW p \in Presses, Reread(p) PROVE OwnOutcome' /\ Underway'
    <3>1. ASSUME NEW q \in Presses \ {p}
          PROVE  /\ told'[q] = told[q] /\ answered'[q] = answered[q]
                 /\ pc'[q] = pc[q] /\ error'[q] = error[q]
      BY <2>0, <2>5, <2>a DEF Reread, Ended, history, TypeOK
    <3>2. told'[p] = "done" /\ pc'[p] = "idle"
      BY <2>0, <2>5, <2>a DEF Reread, Ended, TypeOK
    <3>3. answered'[p]
      BY <2>0, <2>5 DEF Reread, Underway, history
    <3> QED BY <2>0, <2>b, <3>1, <3>2, <3>3, OthersKept
  <2>6. CASE UNCHANGED vars
    BY <2>0, <2>6 DEF vars, press, history, OwnOutcome, Underway
  <2> QED BY <2>1, <2>2, <2>3, <2>4, <2>5, <2>6, PollKeeps DEF Next
<1>3. OwnInv => OwnOutcome
  BY DEF OwnInv
<1> QED BY <1>1, <1>2, <1>3, PTL DEF Spec
-----------------------------------------------------------------------------
(* A checked action finds the pool as it was checked                         *)

\* What the lock holder is at; presses of other than the scrub buttons take no lock.
LockHeld ==
  \A p \in Presses :
    /\ pc[p] \in {"lock", "check", "reread"} => button[p] \in ScrubButtons
    /\ pc[p] \in {"check", "reread"} \/ (pc[p] = "send" /\ button[p] \in ScrubButtons) => lock = p

StillChecked ==
  \A p \in Presses :
    pc[p] = "send" /\ ScrubStates(button[p]) # {} =>
      scan \in ScrubStates(button[p]) \/ moved[p] = TRUE

ActInv == TypeOK /\ LockHeld /\ StillChecked

LEMMA CheckedAreScrubs == \A b \in Buttons : ScrubStates(b) # {} => b \in ScrubButtons
  BY DEF ScrubStates, Buttons, ScrubButtons

\* A press that stays where it is keeps what LockHeld and StillChecked say of it.
LEMMA ActKept ==
  ASSUME ActInv, NEW q \in Presses, pc'[q] = pc[q], button'[q] = button[q],
         lock = q => lock' = q,
         pc[q] = "send" /\ ScrubStates(button[q]) # {} =>
           moved'[q] = TRUE \/ (moved'[q] = moved[q] /\ scan' = scan)
  PROVE  /\ pc'[q] \in {"lock", "check", "reread"} => button'[q] \in ScrubButtons
         /\ pc'[q] \in {"check", "reread"} \/ (pc'[q] = "send" /\ button'[q] \in ScrubButtons) =>
              lock' = q
         /\ pc'[q] = "send" /\ ScrubStates(button'[q]) # {} =>
              scan' \in ScrubStates(button'[q]) \/ moved'[q] = TRUE
  BY DEF ActInv, LockHeld, StillChecked

\* It is enough to look at the press that steps.
LEMMA ActStep ==
  ASSUME ActInv, NEW p \in Presses,
         \A q \in Presses \ {p} :
           /\ pc'[q] = pc[q] /\ button'[q] = button[q] /\ (lock = q => lock' = q)
           /\ pc[q] = "send" /\ ScrubStates(button[q]) # {} => moved'[q] = moved[q] /\ scan' = scan,
         pc'[p] \in {"lock", "check", "reread"} => button'[p] \in ScrubButtons,
         pc'[p] \in {"check", "reread"} \/ (pc'[p] = "send" /\ button'[p] \in ScrubButtons) =>
           lock' = p,
         pc'[p] = "send" /\ ScrubStates(button'[p]) # {} =>
           scan' \in ScrubStates(button'[p]) \/ moved'[p] = TRUE
  PROVE  LockHeld' /\ StillChecked'
<1>1. ASSUME NEW q \in Presses
      PROVE  /\ pc'[q] \in {"lock", "check", "reread"} => button'[q] \in ScrubButtons
             /\ pc'[q] \in {"check", "reread"} \/ (pc'[q] = "send" /\ button'[q] \in ScrubButtons) =>
                  lock' = q
             /\ pc'[q] = "send" /\ ScrubStates(button'[q]) # {} =>
                  scan' \in ScrubStates(button'[q]) \/ moved'[q] = TRUE
  <2>1. CASE q = p
    BY <2>1
  <2>2. CASE q # p
    BY <2>2, ActKept
  <2> QED BY <2>1, <2>2
<1>2. LockHeld'
  BY <1>1 DEF LockHeld
<1>3. StillChecked'
  BY <1>1 DEF StillChecked, ScrubStates
<1> QED BY <1>2, <1>3

LEMMA ActInit == Init => ActInv
<1> SUFFICES ASSUME Init PROVE ActInv
  OBVIOUS
<1>1. TypeOK
  BY TypeInit
<1>2. \A p \in Presses : pc[p] = "idle"
  BY DEF Init, Tasks
<1> QED BY <1>1, <1>2 DEF ActInv, LockHeld, StillChecked

\* The action itself: nobody else is between check and action, so no check is outdated by it.
LEMMA ActSend ==
  ASSUME ActInv, NEW p \in Presses, Send(p)
  PROVE  LockHeld' /\ StillChecked'
<1>1. PICK takes \in BOOLEAN, failed \in BOOLEAN :
        /\ Taken(p, takes)
        /\ \/ button[p] \in ScrubButtons /\ ScrubAnswered(p, failed)
           \/ button[p] = "task" /\ TaskAnswered(p)
           \/ button[p] = "install" /\ InstallAnswered(p, failed)
  BY DEF Send, ActInv, TypeOK, Buttons
<1>2. pc[p] = "send" /\ moved' = [moved EXCEPT ![p] = FALSE] /\ p \in Tasks
  BY DEF Send, Tasks
<1>3. TypeOK /\ LockHeld
  BY DEF ActInv
<1>4. \/ \E how : Ended(p, how)
      \/ button[p] \in ScrubButtons /\ Goes(p, "reread")
  BY <1>1 DEF ScrubAnswered, TaskAnswered, InstallAnswered
<1>5. scan' = scan \/ button[p] \in ScrubButtons
  BY <1>1 DEF Taken
<1>6. /\ pc'[p] = "idle" \/ (pc'[p] = "reread" /\ button'[p] \in ScrubButtons)
      /\ pc'[p] = "reread" => lock' = lock
  BY <1>2, <1>3, <1>4 DEF Ended, Goes, TypeOK
<1>7. pc'[p] = "reread" => lock = p
  <2>1. pc'[p] = "reread" => button[p] \in ScrubButtons
    BY <1>2, <1>3, <1>4 DEF Ended, Goes, TypeOK
  <2> QED BY <2>1, <1>2, <1>3 DEF LockHeld
<1>8. ASSUME NEW q \in Presses \ {p}
      PROVE  /\ pc'[q] = pc[q] /\ button'[q] = button[q] /\ (lock = q => lock' = q)
             /\ pc[q] = "send" /\ ScrubStates(button[q]) # {} => moved'[q] = moved[q] /\ scan' = scan
  <2>1. pc'[q] = pc[q] /\ button'[q] = button[q] /\ (lock = q => lock' = q)
    BY <1>3, <1>4 DEF Ended, Goes, TypeOK, Tasks
  <2>2. moved'[q] = moved[q]
    BY <1>2, <1>3 DEF TypeOK
  <2>3. ASSUME pc[q] = "send", ScrubStates(button[q]) # {} PROVE scan' = scan
    <3>1. lock = q
      BY <2>3, <1>3, CheckedAreScrubs DEF LockHeld, TypeOK
    <3>2. button[p] \notin ScrubButtons
      BY <3>1, <1>2, <1>3 DEF LockHeld
    <3> QED BY <3>2, <1>5
  <2> QED BY <2>1, <2>2, <2>3
<1> QED BY <1>6, <1>7, <1>8, ActStep

\* Presses, the lock and the check.
LEMMA ActPress ==
  ASSUME ActInv, NEW p \in Presses,
         (\E b \in Buttons : Press(p, b)) \/ Acquire(p) \/ Check(p) \/ Reread(p)
  PROVE  LockHeld' /\ StillChecked'
<1>1. TypeOK /\ LockHeld /\ p \in Tasks
  BY DEF ActInv, Tasks
<1>2. scan' = scan
  BY DEF Press, Acquire, Check, Reread
<1>3. ASSUME NEW q \in Presses \ {p} PROVE moved'[q] = moved[q]
  BY <1>1 DEF Press, Acquire, Check, Reread, TypeOK, history
<1>4. ASSUME NEW b \in Buttons, Press(p, b) PROVE LockHeld' /\ StillChecked'
  <2>1. /\ button'[p] = b
        /\ pc'[p] = IF b \in ScrubButtons THEN "lock" ELSE "send"
        /\ lock' = lock
    BY <1>1, <1>4 DEF Press, TypeOK
  <2>2. ASSUME NEW q \in Presses \ {p} PROVE pc'[q] = pc[q] /\ button'[q] = button[q]
    BY <1>1, <1>4 DEF Press, TypeOK, Tasks
  <2> QED BY <1>2, <1>3, <2>1, <2>2, ActStep, CheckedAreScrubs
<1>5. CASE Acquire(p)
  <2>1. button' = button /\ lock' = p /\ lock = Free /\ pc[p] = "lock"
        /\ pc'[p] \in {"send", "check"}
        /\ (pc'[p] = "send" => ScrubStates(button[p]) = {})
    BY <1>1, <1>5 DEF Acquire, LockFree, TypeOK
  <2>2. ASSUME NEW q \in Presses \ {p} PROVE pc'[q] = pc[q] /\ lock # q
    BY <1>1, <1>5, <2>1, PressesAssumption DEF Acquire, TypeOK, Tasks
  <2>3. button[p] \in ScrubButtons
    BY <1>1, <2>1 DEF LockHeld
  <2> QED BY <1>2, <1>3, <2>1, <2>2, <2>3, ActStep
<1>6. CASE Check(p)
  <2>1. lock = p /\ button[p] \in ScrubButtons
    BY <1>1, <1>6 DEF Check, LockHeld
  <2>2. \/ Ended(p, "refused")
        \/ ScrubState \in ScrubStates(button[p]) /\ Goes(p, "send")
    BY <1>6 DEF Check
  <2>3. \/ pc'[p] = "idle"
        \/ /\ pc'[p] = "send" /\ lock' = p /\ button'[p] = button[p]
           /\ scan' \in ScrubStates(button'[p])
    <3>1. ScrubState \in ScrubStates(button[p]) => scan \in ScrubStates(button[p])
      BY DEF ScrubState, ScrubStates
    <3> QED BY <3>1, <1>1, <1>2, <2>1, <2>2 DEF Ended, Goes, TypeOK
  <2>4. ASSUME NEW q \in Presses \ {p}
        PROVE  pc'[q] = pc[q] /\ button'[q] = button[q] /\ (lock = q => lock' = q)
    BY <1>1, <2>2 DEF Ended, Goes, TypeOK, Tasks
  <2> QED BY <1>2, <1>3, <2>1, <2>3, <2>4, ActStep
<1>7. CASE Reread(p)
  <2>1. pc'[p] = "idle"
    BY <1>1, <1>7 DEF Reread, Ended, TypeOK
  <2>2. ASSUME NEW q \in Presses \ {p}
        PROVE  pc'[q] = pc[q] /\ button'[q] = button[q] /\ (lock = q => lock' = q)
    BY <1>1, <1>7 DEF Reread, Ended, TypeOK, Tasks
  <2> QED BY <1>2, <1>3, <2>1, <2>2, ActStep
<1> QED BY <1>4, <1>5, <1>6, <1>7

\* Polls, and what TrueNAS does by itself.
LEMMA ActPoll ==
  ASSUME ActInv,
         \/ PollStart \/ PollJob \/ PollChecksUpdates \/ PollEnds
         \/ ScanChanges \/ UpdateGoesOn \/ UNCHANGED vars
  PROVE  LockHeld' /\ StillChecked'
<1>1. TypeOK
  BY DEF ActInv
<1>2. ASSUME NEW q \in Presses
      PROVE  /\ pc'[q] = pc[q] /\ button'[q] = button[q] /\ lock' = lock
             /\ pc[q] = "send" /\ ScrubStates(button[q]) # {} =>
                  moved'[q] = TRUE \/ (moved'[q] = moved[q] /\ scan' = scan)
  <2>0. q \in Tasks /\ q # Poll
    BY PressesAssumption DEF Tasks
  <2>1. CASE ScanChanges
    BY <2>1 DEF ScanChanges, press
  <2>2. CASE PollStart \/ PollJob \/ PollChecksUpdates \/ PollEnds
    <3>1. \E at : Goes(Poll, at)
      BY <2>2 DEF PollStart, PollJob, PollChecksUpdates, PollEnds
    <3>2. UNCHANGED <<scan, moved>>
      BY <2>2 DEF PollStart, PollJob, PollChecksUpdates, PollEnds, history
    <3>3. pc'[q] = pc[q] /\ button' = button /\ lock' = lock
      BY <3>1, <2>0, <1>1 DEF Goes, TypeOK
    <3> QED BY <3>2, <3>3
  <2>3. CASE UpdateGoesOn \/ UNCHANGED vars
    BY <2>3 DEF UpdateGoesOn, vars, press, history
  <2> QED BY <2>1, <2>2, <2>3
<1>3. LockHeld'
  BY <1>2, ActKept DEF LockHeld
<1>4. ASSUME NEW q \in Presses
      PROVE  pc'[q] = "send" /\ ScrubStates(button'[q]) # {} =>
               scan' \in ScrubStates(button'[q]) \/ moved'[q] = TRUE
  BY <1>2, ActKept
<1>5. StillChecked'
  BY <1>4 DEF StillChecked, ScrubStates
<1> QED BY <1>3, <1>5

\* Pause, resume and stop reach the pool as it was checked, if TrueNAS leaves it alone: no press
\* comes between another's check and its action.
THEOREM ChecksHold == Spec => ActsOnCheckedState
<1>1. ActInv /\ [Next]_vars => ActInv'
  <2> SUFFICES ASSUME ActInv, [Next]_vars PROVE ActInv'
    OBVIOUS
  <2>1. TypeOK'
    BY TypeStep DEF ActInv
  <2>2. LockHeld' /\ StillChecked'
    BY ActSend, ActPress, ActPoll DEF Next
  <2> QED BY <2>1, <2>2 DEF ActInv
<1>2. ActInv /\ [Next]_vars =>
        [\A p \in Presses :
           pc[p] = "send" /\ pc'[p] # "send" /\ scan' # scan /\ ScrubStates(button[p]) # {} =>
             scan \in ScrubStates(button[p]) \/ moved[p]]_vars
  BY DEF ActInv, StillChecked
<1> QED BY ActInit, <1>1, <1>2, PTL DEF Spec, ActsOnCheckedState
=============================================================================
