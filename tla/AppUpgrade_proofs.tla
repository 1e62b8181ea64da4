--------------------------- MODULE AppUpgrade_proofs ---------------------------
(***************************************************************************)
(* Theorems about AppUpgrade, for any number of jobs, restarts and         *)
(* refreshes.                                                              *)
(***************************************************************************)
EXTENDS AppUpgrade, FiniteSetTheorems, TLAPS

\* Only what has been asked is answered, about a job TrueNAS has started.
AskInv ==
    /\ \A j \in listed : job[j] # "none"
    /\ \A r \in Refreshers : rpc[r] = "asked" => asked[r] # 0
    /\ \A t \in Installs : pc[t] = "asked" => asked[t] # 0
    /\ \A a \in Askers : asked[a] # 0 => reply[a] # "none"

TypeInv == TypeOK /\ AskInv
-----------------------------------------------------------------------------
(* Jobs and tasks.                                                           *)

LEMMA JobsAreNat == Jobs \subseteq Nat /\ JobIds = Jobs \cup {0} /\ 0 \notin Jobs
  BY AppUpgradeAssumption DEF Jobs, JobIds

\* A task is its job and its role.
LEMMA TaskShape ==
  ASSUME NEW t \in Tasks
  PROVE  /\ t[1] \in Jobs /\ t[2] \in {"install", "own", "adopted"} /\ t = <<t[1], t[2]>>
         /\ t \in Installs <=> t[2] = "install"
         /\ t \in Watches <=> t[2] # "install"
  BY DEF Tasks, Installs, Watches

LEMMA TaskOf ==
  ASSUME NEW j \in Jobs
  PROVE  <<j, "install">> \in Tasks /\ <<j, "own">> \in Tasks /\ <<j, "adopted">> \in Tasks
  BY DEF Tasks

\* Jobs found have an oldest one: as long as there is an older one, the interval of the
\* jobs up to it is a smaller set, and finite sets do not shrink for ever.
LEMMA OldestExists ==
  ASSUME NEW S, S \subseteq Jobs, S # {}
  PROVE  \E k \in S : \A m \in S : k <= m
<1> DEFINE UpTo == {1..k : k \in S}
<1>1. \A k \in S : k \in Nat /\ k >= 1
  BY AppUpgradeAssumption DEF Jobs
<1>2. UpTo \subseteq FiniteSubsetsOf(Nat) /\ UpTo # {}
  <2>1. ASSUME NEW k \in S PROVE 1..k \in SUBSET Nat /\ IsFiniteSet(1..k)
    BY <1>1, FS_Interval
  <2> QED BY <2>1 DEF FiniteSubsetsOf
<1>3. PICK U \in UpTo : \A V \in UpTo : <<V, U>> \notin StrictSubsetOrdering(Nat)
  <2> HIDE DEF UpTo
  <2> QED BY <1>2, FS_StrictSubsetOrderingWellFounded, WFMin
<1>4. PICK k \in S : U = 1..k
  OBVIOUS
<1>5. ASSUME NEW m \in S, m < k PROVE FALSE
  <2>1. 1..m \in UpTo /\ 1..m \subseteq 1..k /\ k \in 1..k /\ k \notin 1..m
    BY <1>1, <1>5
  <2>2. 1..m \in SUBSET Nat /\ 1..k \in SUBSET Nat
    BY <1>1
  <2> QED BY <2>1, <2>2, <1>3, <1>4 DEF StrictSubsetOrdering
<1> QED BY <1>1, <1>5

-----------------------------------------------------------------------------
(* What the parts of the actions do to the types.                            *)

LEMMA EntityType ==
  ASSUME TypeOK
  PROVE  entity \in Dict
  BY DEF TypeOK, entity

LEMMA WriteEntityType ==
  ASSUME TypeOK, NEW dict \in Dict, WriteEntity(dict)
  PROVE  cur' \in Dict /\ old' \in Dict /\ stale' \in BOOLEAN
  BY DEF TypeOK, WriteEntity

LEMMA MarkedType ==
  ASSUME NEW dict \in Dict
  PROVE  [dict EXCEPT !.adopted = 0] \in Dict /\ dict.adopted \in JobIds /\ dict.jobid \in JobIds
  BY JobsAreNat DEF Dict

LEMMA WatchedType ==
  ASSUME NEW pcs \in [Tasks -> TaskPCs], NEW j \in Jobs
  PROVE  /\ Watched(pcs, j) \in [Tasks -> TaskPCs]
         /\ \A t \in Tasks : \/ Watched(pcs, j)[t] = pcs[t]
                             \/ t = <<j, "adopted">> /\ Watched(pcs, j)[t] = "wait"
<1> DEFINE x == <<j, "adopted">>
<1>1. Watched(pcs, j) = pcs \/ Watched(pcs, j) = [pcs EXCEPT ![x] = "wait"]
  BY DEF Watched
<1>2. x \in Tasks /\ "wait" \in TaskPCs
  BY TaskOf DEF TaskPCs
<1> HIDE DEF x
<1>3. /\ Watched(pcs, j) \in [Tasks -> TaskPCs]
      /\ \A t \in Tasks : Watched(pcs, j)[t] = pcs[t] \/ (t = x /\ Watched(pcs, j)[t] = "wait")
  BY <1>1, <1>2
<1> QED BY <1>3 DEF x

LEMMA WatchAdoptedType ==
  ASSUME TypeOK, NEW inFlight \in BOOLEAN, NEW pcs \in [Tasks -> TaskPCs],
         WatchAdopted(inFlight, pcs)
  PROVE  /\ cur' \in Dict /\ old' \in Dict /\ stale' \in BOOLEAN
         /\ pc' \in [Tasks -> TaskPCs]
         /\ \A t \in Tasks : \/ pc'[t] = pcs[t]
                             \/ /\ ~inFlight /\ entity.adopted # 0
                                /\ t = <<entity.adopted, "adopted">> /\ pc'[t] = "wait"
<1>1. CASE entity.adopted # 0 /\ ~inFlight
  <2>1. entity \in Dict /\ entity.adopted \in Jobs
    BY <1>1, EntityType, MarkedType, JobsAreNat
  <2>2. [entity EXCEPT !.adopted = 0] \in Dict
    BY <2>1, MarkedType
  <2>3. pc' = Watched(pcs, entity.adopted) /\ WriteEntity([entity EXCEPT !.adopted = 0])
    BY <1>1 DEF WatchAdopted
  <2>4. /\ pc' \in [Tasks -> TaskPCs]
        /\ \A t \in Tasks : \/ pc'[t] = pcs[t]
                            \/ t = <<entity.adopted, "adopted">> /\ pc'[t] = "wait"
    BY <2>1, <2>3, WatchedType
  <2> QED BY <1>1, <2>2, <2>3, <2>4, WriteEntityType
<1>2. CASE ~(entity.adopted # 0 /\ ~inFlight)
  BY <1>2 DEF WatchAdopted, TypeOK, data
<1> QED BY <1>1, <1>2

LEMMA ListenersType ==
  ASSUME TypeOK, ListenersCalled
  PROVE  /\ cur' \in Dict /\ old' \in Dict /\ stale' \in BOOLEAN
         /\ pc' \in [Tasks -> TaskPCs]
         /\ \A t \in Tasks : \/ pc'[t] = pc[t]
                             \/ /\ ~calling /\ InFlight = {} /\ cur.adopted # 0
                                /\ t = <<cur.adopted, "adopted">> /\ pc'[t] = "wait"
<1>0. FreshDict \in Dict /\ Started.cur = FreshDict
  BY JobsAreNat DEF FreshDict, Dict, Started, AppStates, Outcomes
<1>1. old' \in Dict /\ stale' \in BOOLEAN
  BY <1>0 DEF ListenersCalled
<1>2. CASE cur.adopted # 0 /\ ~calling /\ InFlight = {}
  <2>1. cur \in Dict /\ cur.adopted \in Jobs
    BY <1>2, MarkedType, JobsAreNat DEF TypeOK
  <2>2. pc' = Watched(pc, cur.adopted) /\ cur' = [cur EXCEPT !.adopted = 0]
    BY <1>2 DEF ListenersCalled
  <2>3. pc \in [Tasks -> TaskPCs]
    BY DEF TypeOK
  <2>4. /\ pc' \in [Tasks -> TaskPCs]
        /\ \A t \in Tasks : \/ pc'[t] = pc[t]
                            \/ t = <<cur.adopted, "adopted">> /\ pc'[t] = "wait"
    BY <2>1, <2>2, <2>3, WatchedType
  <2>5. cur' \in Dict
    BY <2>1, <2>2, MarkedType
  <2> QED BY <1>1, <1>2, <2>4, <2>5
<1>3. CASE ~(cur.adopted # 0 /\ ~calling /\ InFlight = {})
  BY <1>1, <1>3 DEF ListenersCalled, TypeOK
<1> QED BY <1>2, <1>3

LEMMA AskType ==
  ASSUME TypeInv, NEW a \in Askers, Ask(a)
  PROVE  /\ asked' \in [Askers -> JobIds] /\ reply' \in [Askers -> Outcomes]
         /\ asked'[a] # 0
         /\ \A b \in Askers : asked'[b] # 0 => reply'[b] # "none"
         /\ \A b \in Askers \ {a} : asked'[b] = asked[b]
<1>1. cur.jobid \in Jobs
  BY MarkedType, JobsAreNat DEF TypeInv, TypeOK, Ask
<1>2. asked' = [asked EXCEPT ![a] = cur.jobid]
  BY DEF Ask
<1>3. PICK answer \in Outcomes \ {"none"} : reply' = [reply EXCEPT ![a] = answer]
  BY <1>1 DEF Ask, TypeInv, TypeOK, AskInv, Outcomes
<1>4. asked \in [Askers -> JobIds] /\ reply \in [Askers -> Outcomes]
  BY DEF TypeInv, TypeOK
<1>5. \A b \in Askers : asked[b] # 0 => reply[b] # "none"
  BY DEF TypeInv, AskInv
<1> QED BY <1>1, <1>2, <1>3, <1>4, <1>5, JobsAreNat

LEMMA RecordedType ==
  ASSUME NEW dict \in Dict, NEW s \in Outcomes \ {"none"}
  PROVE  Recorded(dict, s) \in Dict
  BY JobsAreNat DEF Recorded, Dict

LEMMA RecordType ==
  ASSUME TypeInv, NEW a \in Askers, asked[a] # 0, Record(a)
  PROVE  /\ cur' \in Dict /\ ended' \in [Jobs -> Nat]
         /\ asked' \in [Askers -> JobIds] /\ reply' \in [Askers -> Outcomes]
         /\ \A b \in Askers : asked'[b] # 0 => reply'[b] # "none"
         /\ \A b \in Askers \ {a} : asked'[b] = asked[b]
<1>1. /\ asked \in [Askers -> JobIds] /\ reply \in [Askers -> Outcomes]
      /\ \A b \in Askers : asked[b] # 0 => reply[b] # "none"
      /\ cur \in Dict /\ ended \in [Jobs -> Nat]
  BY DEF TypeInv, TypeOK, AskInv
<1>2. asked' = [asked EXCEPT ![a] = 0] /\ reply' = [reply EXCEPT ![a] = "none"]
  BY DEF Record
<1>3. asked[a] \in Jobs /\ reply[a] \in Outcomes \ {"none"}
  BY <1>1, JobsAreNat
<1>4. cur' \in {cur, Recorded(cur, reply[a])} /\ ended' \in {ended, [ended EXCEPT ![asked[a]] = @ + 1]}
  BY DEF Record
<1>5. cur' \in Dict
  BY <1>1, <1>3, <1>4, RecordedType
<1>6. ended' \in [Jobs -> Nat]
  BY <1>1, <1>3, <1>4
<1>7. "none" \in Outcomes /\ 0 \in JobIds
  BY JobsAreNat DEF Outcomes
<1> QED BY <1>1, <1>2, <1>5, <1>6, <1>7

LEMMA AdoptedType ==
  ASSUME TypeOK
  PROVE  Adopted(cur) \in Dict
<1>1. CASE cur.jobid # 0 \/ found = {}
  BY <1>1 DEF Adopted, TypeOK
<1>2. CASE ~(cur.jobid # 0 \/ found = {})
  <2> DEFINE j == CHOOSE k \in found : \A m \in found : k <= m
  <2>1. j \in found
    BY <1>2, OldestExists DEF TypeOK
  <2>2. Adopted(cur) = [cur EXCEPT !.jobid = j, !.adopted = j, !.state = Active]
    BY <1>2 DEF Adopted
  <2> HIDE DEF j
  <2>3. j \in JobIds
    BY <2>1, JobsAreNat DEF TypeOK
  <2> QED BY <2>2, <2>3 DEF TypeOK, Dict, Outcomes, Active
<1> QED BY <1>1, <1>2

-----------------------------------------------------------------------------
(* Type correctness                                                          *)

\* TrueNAS and restarts.
LEMMA ServerTypeStep ==
  ASSUME TypeInv, TrueNAS \/ Restart
  PROVE  TypeInv'
<1> USE DEF TypeInv, TypeOK, AskInv, data, ha, refreshing, lookups, tasks, seen, server
<1>1. CASE ForeignUpgrade
  BY <1>1 DEF ForeignUpgrade, NewJobs, Active
<1>2. CASE AppChanges
  BY <1>2 DEF AppChanges
<1>3. ASSUME NEW j \in Jobs, JobEnds(j) PROVE TypeInv'
  BY <1>3 DEF JobEnds, Runs, Final, AppStates
<1>4. ASSUME NEW j \in Jobs, JobForgotten(j) PROVE TypeInv'
  BY <1>4 DEF JobForgotten
<1>5. CASE Restart
  <2>1. Started.cur \in Dict
    BY JobsAreNat DEF Started, FreshDict, Dict, AppStates, Outcomes
  <2>2. /\ Started.rpc = [r \in Refreshers |-> "idle"]
        /\ Started.asked = [a \in Askers |-> 0] /\ Started.reply = [a \in Askers |-> "none"]
        /\ Started.pc = [t \in Tasks |-> "none"] /\ Started.got = [t \in Tasks |-> "none"]
        /\ Started.skip = [t \in Tasks |-> FALSE] /\ Started.note = [job |-> 0, verdict |-> "none"]
    BY DEF Started
  <2>3. /\ "idle" \in RefreshPCs /\ "none" \in TaskPCs /\ "none" \in Outcomes
        /\ "none" # "asked" /\ "idle" # "asked" /\ Installs \subseteq Tasks
    BY DEF RefreshPCs, TaskPCs, Outcomes, Installs, Tasks
  <2>4. restarts' \in 0..MaxRestarts
    BY <1>5, AppUpgradeAssumption DEF Restart
  <2>5. TypeOK'
    <3> HIDE DEF Started
    <3>1. /\ rpc' \in [Refreshers -> RefreshPCs] /\ pc' \in [Tasks -> TaskPCs]
          /\ asked' \in [Askers -> JobIds] /\ reply' \in [Askers -> Outcomes]
          /\ got' \in [Tasks -> Outcomes] /\ skip' \in [Tasks -> BOOLEAN]
      BY <1>5, <2>2, <2>3, JobsAreNat DEF Restart
    <3>2. note' \in [job: JobIds, verdict: {"none", "failed", "unknown"}]
      BY <1>5, <2>2, JobsAreNat DEF Restart
    <3> QED BY <1>5, <2>1, <2>4, <3>1, <3>2 DEF Restart
  <2>6. AskInv'
    <3> HIDE DEF Started
    <3> QED BY <1>5, <2>2, <2>3 DEF Restart
  <2> QED BY <2>5, <2>6
<1> QED BY <1>1, <1>2, <1>3, <1>4, <1>5 DEF TrueNAS

\* The refreshes.
LEMMA RefreshTypeStep ==
  ASSUME TypeInv, NEW r \in Refreshers, Refresh(r)
  PROVE  TypeInv'
<1> USE DEF TypeInv, TypeOK, AskInv, data, ha, refreshing, lookups, tasks, seen, server, RefreshPCs
<1>0. r \in Askers /\ r \notin Installs
  BY RefreshersAssumption DEF Askers
<1>1. CASE RefreshStart(r)
  BY <1>1 DEF RefreshStart
<1>2. CASE Replace(r)
  <2>1. [cur EXCEPT !.shown = app] \in Dict
    BY DEF Dict
  <2> QED BY <1>2, <2>1 DEF Replace, AfterAdoption, ActiveJobs
<1>3. CASE AdoptJobs(r)
  BY <1>3, AdoptedType DEF AdoptJobs, AfterAdoption
<1>4. CASE AdoptFailed(r)
  BY <1>4 DEF AdoptFailed, AfterAdoption
<1>5. CASE JobsAsked(r)
  BY <1>0, <1>5, AskType DEF JobsAsked, Askers
<1>6. CASE JobsUnavailable(r)
  BY <1>6 DEF JobsUnavailable
<1>7. CASE JobsAnswered(r)
  BY <1>0, <1>7, RecordType DEF JobsAnswered, Askers
<1>8. CASE Notify(r)
  BY <1>8, ListenersType, TaskShape DEF Notify, Installs, Tasks
<1> QED BY <1>1, <1>2, <1>3, <1>4, <1>5, <1>6, <1>7, <1>8 DEF Refresh

\* What an install call or a watch does when it is over.
LEMMA InstallReturnsType ==
  ASSUME TypeOK, NEW t \in Tasks, NEW pcs \in [Tasks -> TaskPCs], InstallReturns(t, pcs)
  PROVE  /\ cur' \in Dict /\ old' \in Dict /\ stale' \in BOOLEAN
         /\ pc' \in [Tasks -> TaskPCs]
         /\ \A s \in Tasks : \/ s = t /\ pc'[s] = "done"
                             \/ s # t /\ pc'[s] = pcs[s]
                             \/ /\ ~calling /\ InFlight = {t} /\ entity.adopted # 0
                                /\ s = <<entity.adopted, "adopted">> /\ pc'[s] = "wait"
<1> DEFINE left == [pcs EXCEPT ![t] = "done"]
<1>1. left \in [Tasks -> TaskPCs] /\ \A s \in Tasks : left[s] = IF s = t THEN "done" ELSE pcs[s]
  BY DEF TaskPCs
<1>2. WatchAdopted(calling \/ InFlight # {t}, left) /\ (calling \/ InFlight # {t}) \in BOOLEAN
  BY DEF InstallReturns, TypeOK
<1> HIDE DEF left
<1> QED BY <1>1, <1>2, WatchAdoptedType

LEMMA FinishType ==
  ASSUME TypeOK, NEW t \in Tasks, Finish(t)
  PROVE  /\ cur' \in Dict /\ old' \in Dict /\ stale' \in BOOLEAN
         /\ pc' \in [Tasks -> TaskPCs]
         /\ got' = [got EXCEPT ![t] = "none"] /\ skip' = [skip EXCEPT ![t] = FALSE]
         /\ \A s \in Tasks : \/ s = t /\ pc'[s] = "done"
                             \/ s # t /\ pc'[s] = pc[s]
                             \/ /\ t \in Installs /\ ~calling /\ InFlight = {t} /\ entity.adopted # 0
                                /\ s = <<entity.adopted, "adopted">> /\ pc'[s] = "wait"
<1>1. pc \in [Tasks -> TaskPCs] /\ cur \in Dict /\ old \in Dict /\ stale \in BOOLEAN
  BY DEF TypeOK
<1>2. CASE t \in Installs /\ InstallReturns(t, pc)
  BY <1>1, <1>2, InstallReturnsType DEF Finish
<1>3. CASE t \in Watches /\ pc' = [pc EXCEPT ![t] = "done"] /\ UNCHANGED data
  BY <1>1, <1>3 DEF Finish, data, TaskPCs
<1> QED BY <1>2, <1>3 DEF Finish

\* The install call, up to the end of its loop.
LEMMA InstallTypeStep ==
  ASSUME TypeInv, \/ InstallCall \/ UpgradeAccepted \/ UpgradeRefused
                  \/ \E t \in Installs : Install(t)
  PROVE  TypeInv'
<1> USE DEF TypeInv, TypeOK, AskInv, data, ha, refreshing, lookups, tasks, seen, server
<1>0. Installs \subseteq Tasks /\ Installs \subseteq Askers
  BY DEF Installs, Tasks, Askers
<1>1. CASE InstallCall
  BY <1>1 DEF InstallCall
<1>2. CASE UpgradeAccepted
  <2>1. PICK j \in NewJobs :
           /\ job' = [job EXCEPT ![j] = Active] /\ listed' = listed \cup {j}
           /\ pc' = [pc EXCEPT ![<<j, "install">>] = "reply"]
    BY <1>2 DEF UpgradeAccepted
  <2>2. j \in Jobs /\ <<j, "install">> \in Tasks
    BY TaskOf DEF NewJobs
  <2>3. pc' \in [Tasks -> TaskPCs] /\ \A t \in Tasks : pc'[t] = "asked" => pc[t] = "asked"
    <3> DEFINE x == <<j, "install">>
    <3> HIDE DEF x
    <3>1. pc' = [pc EXCEPT ![x] = "reply"] /\ x \in Tasks
      BY <2>1, <2>2 DEF x
    <3> QED BY <3>1 DEF TaskPCs
  <2>4. job' \in [Jobs -> {"none", Active} \cup Final] /\ \A k \in listed' : job'[k] # "none"
    BY <2>1, <2>2 DEF Active
  <2> QED BY <1>0, <1>2, <2>1, <2>2, <2>3, <2>4 DEF UpgradeAccepted
<1>3. CASE UpgradeRefused
  <2>1. WatchAdopted(InFlight # {}, pc) /\ (InFlight # {}) \in BOOLEAN /\ calling' = FALSE
    BY <1>3 DEF UpgradeRefused
  <2>2. \A t \in Tasks : pc'[t] = "asked" => pc[t] = "asked"
    BY <2>1, WatchAdoptedType
  <2>3. cur' \in Dict /\ old' \in Dict /\ stale' \in BOOLEAN /\ pc' \in [Tasks -> TaskPCs]
    BY <2>1, WatchAdoptedType
  <2> QED BY <1>0, <1>3, <2>1, <2>2, <2>3 DEF UpgradeRefused
<1>4. ASSUME NEW t \in Installs, Install(t) PROVE TypeInv'
  <2>0. t \in Tasks /\ t \in Askers /\ t[1] \in Jobs
    BY <1>0, TaskShape
  <2>1. CASE StoreJob(t)
    <3>1. entity \in Dict /\ t[1] \in JobIds /\ 0 \in JobIds
      BY <2>0, EntityType, JobsAreNat
    <3> DEFINE d == [entity EXCEPT !.jobid = t[1], !.state = Active,
                                   !.adopted = IF @ = t[1] THEN 0 ELSE @]
    <3>2. d \in Dict
      BY <3>1 DEF Dict, Outcomes, Active
    <3>3. WriteEntity(d)
      BY <2>1 DEF StoreJob
    <3> HIDE DEF d
    <3>4. cur' \in Dict /\ old' \in Dict /\ stale' \in BOOLEAN
      BY <3>2, <3>3, WriteEntityType
    <3> QED BY <1>0, <2>0, <2>1, <3>4 DEF StoreJob, TaskPCs
  <2>2. CASE TrackAsked(t)
    <3>1. Ask(t) /\ pc' = [pc EXCEPT ![t] = "asked"]
      BY <2>2 DEF TrackAsked
    <3>2. \A s \in Installs : pc'[s] = "asked" => asked'[s] # 0
      BY <1>0, <2>0, <3>1, AskType
    <3>3. \A r \in Refreshers : asked'[r] = asked[r]
      BY <2>0, <3>1, AskType, RefreshersAssumption DEF Askers
    <3> QED BY <1>0, <2>0, <2>2, <3>1, <3>2, <3>3, AskType DEF TrackAsked, TaskPCs
  <2>3. CASE TrackAnswered(t)
    <3>1. Record(t) /\ asked[t] # 0 /\ pc' = [pc EXCEPT ![t] = IF reply[t] \in Final THEN "act" ELSE "track"]
      BY <2>3 DEF TrackAnswered
    <3>2. \A s \in Installs : pc'[s] = "asked" => asked'[s] # 0
      BY <1>0, <2>0, <3>1, RecordType
    <3>3. \A r \in Refreshers : asked'[r] = asked[r]
      BY <2>0, <3>1, RecordType, RefreshersAssumption DEF Askers
    <3>4. got' \in [Tasks -> Outcomes]
      BY <2>0, <2>3 DEF TrackAnswered
    <3> QED BY <1>0, <2>0, <2>3, <3>1, <3>2, <3>3, <3>4, RecordType DEF TrackAnswered, TaskPCs
  <2>4. CASE TrackLost(t)
    BY <1>0, <2>0, <2>4 DEF TrackLost, TaskPCs
  <2>5. CASE TrackTimeout(t)
    <3> DEFINE pcs == [pc EXCEPT ![<<t[1], "own">>] = "wait"]
    <3>1. pcs \in [Tasks -> TaskPCs] /\ \A s \in Tasks : pcs[s] = "asked" => pc[s] = "asked"
      <4> DEFINE x == <<t[1], "own">>
      <4>1. pcs = [pc EXCEPT ![x] = "wait"] /\ x \in Tasks
        BY <2>0, TaskOf
      <4> HIDE DEF x, pcs
      <4> QED BY <4>1 DEF TaskPCs
    <3>2. InstallReturns(t, pcs)
      BY <2>5 DEF TrackTimeout
    <3> HIDE DEF pcs
    <3>3. \A s \in Tasks : pc'[s] = "asked" => pc[s] = "asked"
      BY <2>0, <3>1, <3>2, InstallReturnsType
    <3>4. cur' \in Dict /\ old' \in Dict /\ stale' \in BOOLEAN /\ pc' \in [Tasks -> TaskPCs]
      BY <2>0, <3>1, <3>2, InstallReturnsType
    <3> QED BY <1>0, <2>5, <3>3, <3>4 DEF TrackTimeout
  <2> QED BY <1>4, <2>1, <2>2, <2>3, <2>4, <2>5 DEF Install
<1> QED BY <1>1, <1>2, <1>3, <1>4

\* The watches, and what tasks do about an outcome.
LEMMA OutcomeTypeStep ==
  ASSUME TypeInv, NEW t \in Tasks, (t \in Watches /\ Watch(t)) \/ Outcome(t)
  PROVE  TypeInv'
<1> USE DEF TypeInv, TypeOK, AskInv, data, ha, refreshing, lookups, tasks, seen, server
<1>0. Installs \subseteq Tasks /\ t[1] \in Jobs /\ t[1] \in JobIds
  BY TaskShape, JobsAreNat DEF Installs, Tasks
<1>1. CASE Watch(t)
  BY <1>0, <1>1 DEF Watch, WatchFinished, WatchTimeout, TaskPCs
<1>2. CASE Resolve(t)
  <2>1. FromRecord(t[1]) \in Outcomes
    BY EntityType DEF FromRecord, Dict, Outcomes
  <2> QED BY <1>0, <1>2, <2>1 DEF Resolve, TaskPCs, Outcomes
<1>3. CASE Act(t)
  <2>1. Finish(t)
    BY <1>3 DEF Act
  <2>2. note' \in [job: JobIds, verdict: {"none", "failed", "unknown"}]
    BY <1>0, <1>3 DEF Act
  <2>3. \A s \in Tasks : pc'[s] = "asked" => pc[s] = "asked"
    BY <2>1, FinishType
  <2> QED BY <1>0, <1>3, <2>1, <2>2, <2>3, FinishType DEF Act, Outcomes
<1>4. CASE AskInstance(t) \/ InstanceStopped(t)
  BY <1>0, <1>4 DEF AskInstance, InstanceStopped, TaskPCs
<1>5. CASE NotifyFailed(t)
  <2>1. Finish(t)
    BY <1>5 DEF NotifyFailed
  <2>2. note' \in [job: JobIds, verdict: {"none", "failed", "unknown"}] /\ app' \in AppStates
    BY <1>0, <1>5 DEF NotifyFailed, AppStates
  <2>3. \A s \in Tasks : pc'[s] = "asked" => pc[s] = "asked"
    BY <2>1, FinishType
  <2> QED BY <1>0, <1>5, <2>1, <2>2, <2>3, FinishType DEF NotifyFailed, Outcomes
<1> QED BY <1>1, <1>2, <1>3, <1>4, <1>5 DEF Outcome

LEMMA TypeInit == Init => TypeInv
<1> SUFFICES ASSUME Init PROVE TypeInv
  OBVIOUS
<1>1. Started.cur \in Dict
  BY JobsAreNat DEF Started, FreshDict, Dict, AppStates, Outcomes
<1>2. /\ rpc = [r \in Refreshers |-> "idle"]
      /\ asked = [a \in Askers |-> 0] /\ reply = [a \in Askers |-> "none"]
      /\ pc = [t \in Tasks |-> "none"] /\ got = [t \in Tasks |-> "none"]
      /\ skip = [t \in Tasks |-> FALSE] /\ note = [job |-> 0, verdict |-> "none"]
  BY DEF Init, Started
<1>3. /\ cur \in Dict /\ old \in Dict /\ stale = FALSE /\ calling = FALSE
      /\ job = [j \in Jobs |-> "none"] /\ listed = {} /\ app = "RUNNING" /\ found = {}
      /\ loaded = FALSE /\ restarts = 0 /\ adoptedAll = FALSE /\ ended = [j \in Jobs |-> 0]
  BY <1>1 DEF Init
<1>4. TypeOK
  <2>1. /\ rpc \in [Refreshers -> RefreshPCs] /\ pc \in [Tasks -> TaskPCs]
        /\ asked \in [Askers -> JobIds] /\ reply \in [Askers -> Outcomes]
        /\ got \in [Tasks -> Outcomes] /\ skip \in [Tasks -> BOOLEAN]
    BY <1>2, JobsAreNat DEF RefreshPCs, TaskPCs, Outcomes
  <2>2. note \in [job: JobIds, verdict: {"none", "failed", "unknown"}]
    BY <1>2, JobsAreNat
  <2>3. /\ job \in [Jobs -> {"none", Active} \cup Final] /\ ended \in [Jobs -> Nat]
        /\ app \in AppStates /\ restarts \in 0..MaxRestarts
    BY <1>3, AppUpgradeAssumption DEF AppStates
  <2>4. /\ listed \subseteq Jobs /\ found \subseteq Jobs /\ stale \in BOOLEAN /\ loaded \in BOOLEAN
        /\ adoptedAll \in BOOLEAN /\ calling \in BOOLEAN
    BY <1>3
  <2> QED BY <1>3, <2>1, <2>2, <2>3, <2>4 DEF TypeOK
<1>5. AskInv
  BY <1>2, <1>3 DEF AskInv, Installs, Tasks
<1> QED BY <1>4, <1>5 DEF TypeInv

LEMMA TypeStep == TypeInv /\ [Next]_vars => TypeInv'
<1> SUFFICES ASSUME TypeInv, [Next]_vars PROVE TypeInv'
  OBVIOUS
<1>1. CASE TrueNAS \/ Restart
  BY <1>1, ServerTypeStep
<1>2. CASE OtherPush
  <2>1. \A t \in Tasks : pc'[t] = "asked" => pc[t] = "asked"
    BY <1>2, ListenersType DEF OtherPush, TypeInv
  <2>2. cur' \in Dict /\ old' \in Dict /\ stale' \in BOOLEAN /\ pc' \in [Tasks -> TaskPCs]
    BY <1>2, ListenersType DEF OtherPush, TypeInv
  <2>3. TypeOK'
    BY <1>2, <2>2 DEF OtherPush, TypeInv, TypeOK, refreshing, lookups, server, ha, seen
  <2>4. AskInv'
    BY <1>2, <2>1 DEF OtherPush, TypeInv, AskInv, Installs, Tasks, refreshing, lookups, server
  <2> QED BY <2>3, <2>4 DEF TypeInv
<1>3. CASE \E r \in Refreshers : Refresh(r)
  BY <1>3, RefreshTypeStep
<1>4. CASE InstallCall \/ UpgradeAccepted \/ UpgradeRefused \/ \E t \in Installs : Install(t)
  BY <1>4, InstallTypeStep
<1>5. CASE (\E t \in Watches : Watch(t)) \/ \E t \in Tasks : Outcome(t)
  BY <1>5, OutcomeTypeStep DEF Watches, Tasks
<1>6. CASE UNCHANGED vars
  BY <1>6 DEF vars, server, data, ha, refreshing, lookups, tasks, seen, TypeInv, TypeOK, AskInv
<1> QED BY <1>1, <1>2, <1>3, <1>4, <1>5, <1>6 DEF Next

\* The variables have their types; what is asked is asked about a job that TrueNAS has
\* started, and answered with a state the app's dict may hold.
THEOREM TypeCorrect == Spec => []TypeInv
  BY TypeInit, TypeStep, PTL DEF Spec

\* The variables have their types, the app's dict and the entity's among them.
THEOREM TypesKept == Spec => []TypeOK
<1>1. TypeInv => TypeOK
  BY DEF TypeInv
<1> QED BY <1>1, TypeCorrect, PTL

-----------------------------------------------------------------------------
(* What a step may do to the app's dict.                                     *)

\* e is d, with its marker perhaps consumed.
MayUnmark(d, e) ==
    /\ e.jobid = d.jobid /\ e.state = d.state /\ e.ended = d.ended
    /\ e.adopted \in {d.adopted, 0}

\* e is d after an adoption, a stored reply, a recorded answer or a consumed marker.
From(d, e) ==
    /\ \/ e.jobid \in {d.jobid, 0} \cup found
       \/ \E t \in Installs : pc[t] = "reply" /\ e.jobid = t[1]
    /\ \/ e.adopted \in {d.adopted, 0}
       \/ e.adopted \in found /\ d.jobid = 0
    /\ \/ e.state = d.state /\ e.ended = d.ended
       \/ e.state = Active
       \/ \E a \in Askers : asked[a] # 0 /\ e.state = reply[a] /\ e.ended \in {asked[a], d.ended}
                            /\ (reply[a] \in Final => e.ended = asked[a])

LEMMA FreshFields ==
  /\ Started.cur = FreshDict /\ FreshDict \in Dict
  /\ FreshDict.jobid = 0 /\ FreshDict.adopted = 0 /\ FreshDict.ended = 0
  /\ FreshDict.state = "unknown"
  BY JobsAreNat DEF Started, FreshDict, Dict, AppStates, Outcomes

LEMMA UnmarkIsFrom ==
  ASSUME NEW d, NEW e, MayUnmark(d, e)
  PROVE  From(d, e)
  BY DEF MayUnmark, From

LEMMA WatchAdoptedUnmarks ==
  ASSUME TypeOK, NEW inFlight \in BOOLEAN, NEW pcs, WatchAdopted(inFlight, pcs)
  PROVE  MayUnmark(cur, cur') /\ MayUnmark(old, old') /\ stale' = stale
<1>1. CASE UNCHANGED data
  BY <1>1 DEF MayUnmark, data
<1>2. CASE WriteEntity([entity EXCEPT !.adopted = 0])
  BY <1>2 DEF WriteEntity, entity, MayUnmark, TypeOK, Dict
<1> QED BY <1>1, <1>2 DEF WatchAdopted

LEMMA ListenersUnmark ==
  ASSUME TypeOK, ListenersCalled
  PROVE  MayUnmark(cur, cur') /\ old' = FreshDict /\ stale' = FALSE
  BY FreshFields DEF ListenersCalled, MayUnmark, TypeOK, Dict

LEMMA FinishUnmarks ==
  ASSUME TypeOK, NEW t \in Tasks, Finish(t) \/ \E pcs \in [Tasks -> TaskPCs] : InstallReturns(t, pcs)
  PROVE  MayUnmark(cur, cur') /\ MayUnmark(old, old') /\ stale' = stale
<1>1. CASE UNCHANGED data
  BY <1>1 DEF MayUnmark, data
<1>2. ASSUME NEW pcs, InstallReturns(t, pcs)
      PROVE  MayUnmark(cur, cur') /\ MayUnmark(old, old') /\ stale' = stale
  <2>1. (calling \/ InFlight # {t}) \in BOOLEAN
    BY DEF TypeOK
  <2> QED BY <1>2, <2>1, WatchAdoptedUnmarks DEF InstallReturns
<1> QED BY <1>1, <1>2 DEF Finish

LEMMA TimeoutReturns ==
  ASSUME TypeOK, NEW t \in Installs, TrackTimeout(t)
  PROVE  \E pcs \in [Tasks -> TaskPCs] : InstallReturns(t, pcs)
<1> DEFINE x == <<t[1], "own">>
<1>1. InstallReturns(t, [pc EXCEPT ![x] = "wait"]) /\ x \in Tasks
  BY TaskShape, TaskOf DEF TrackTimeout, Installs, Tasks
<1>2. pc \in [Tasks -> TaskPCs] /\ "wait" \in TaskPCs
  BY DEF TypeOK, TaskPCs
<1> HIDE DEF x
<1>3. [pc EXCEPT ![x] = "wait"] \in [Tasks -> TaskPCs]
  BY <1>1, <1>2
<1> QED BY <1>1, <1>3

\* An adoption takes one of the jobs found, when no job is tracked.
LEMMA AdoptedIs ==
  ASSUME TypeOK
  PROVE  \/ Adopted(cur) = cur
         \/ /\ cur.jobid = 0
            /\ \E j \in found :
                  Adopted(cur) = [cur EXCEPT !.jobid = j, !.adopted = j, !.state = Active]
<1>1. CASE cur.jobid # 0 \/ found = {}
  BY <1>1 DEF Adopted
<1>2. CASE ~(cur.jobid # 0 \/ found = {})
  <2> DEFINE j == CHOOSE k \in found : \A m \in found : k <= m
  <2>1. j \in found
    BY <1>2, OldestExists DEF TypeOK
  <2>2. Adopted(cur) = [cur EXCEPT !.jobid = j, !.adopted = j, !.state = Active]
    BY <1>2 DEF Adopted
  <2> HIDE DEF j
  <2> QED BY <1>2, <2>1, <2>2
<1> QED BY <1>1, <1>2

\* The stored reply is written to the entity's dict.
LEMMA StoredIs ==
  ASSUME TypeOK, NEW t \in Installs, StoreJob(t)
  PROVE  /\ stale' = stale
         /\ \/ /\ ~stale /\ old' = old
               /\ cur' = [cur EXCEPT !.jobid = t[1], !.state = Active,
                                     !.adopted = IF @ = t[1] THEN 0 ELSE @]
            \/ /\ stale /\ cur' = cur
               /\ old' = [old EXCEPT !.jobid = t[1], !.state = Active,
                                     !.adopted = IF @ = t[1] THEN 0 ELSE @]
  BY DEF StoreJob, WriteEntity, entity

LEMMA RecordIs ==
  ASSUME TypeOK, NEW a, Record(a)
  PROVE  \/ cur' = cur /\ ended' = ended
         \/ /\ cur.jobid = asked[a] /\ reply[a] = Active
            /\ cur' = [cur EXCEPT !.state = Active] /\ ended' = ended
         \/ /\ cur.jobid = asked[a] /\ reply[a] # Active
            /\ cur' = [cur EXCEPT !.state = reply[a], !.jobid = 0, !.ended = asked[a]]
            /\ ended' = [ended EXCEPT ![asked[a]] = @ + 1]
  BY DEF Record, Recorded, StillTracked

LEMMA RecordIsFrom ==
  ASSUME TypeOK, NEW a \in Askers, Record(a), asked[a] # 0
  PROVE  From(cur, cur')
<1>0. cur \in Dict
  BY DEF TypeOK
<1>1. CASE cur' = cur
  BY <1>1 DEF From
<1>2. CASE cur' = [cur EXCEPT !.state = Active]
  <2>1. cur'.jobid = cur.jobid /\ cur'.adopted = cur.adopted /\ cur'.state = Active
    BY <1>0, <1>2 DEF Dict
  <2> QED BY <2>1 DEF From
<1>3. CASE cur' = [cur EXCEPT !.state = reply[a], !.jobid = 0, !.ended = asked[a]]
  <2>1. cur'.jobid = 0 /\ cur'.adopted = cur.adopted /\ cur'.state = reply[a] /\ cur'.ended = asked[a]
    BY <1>0, <1>3 DEF Dict
  <2>2. \E b \in Askers :
          asked[b] # 0 /\ cur'.state = reply[b] /\ cur'.ended \in {asked[b], cur.ended}
          /\ (reply[b] \in Final => cur'.ended = asked[b])
    BY <2>1
  <2> QED BY <2>1, <2>2 DEF From
<1> QED BY <1>1, <1>2, <1>3, RecordIs

\* What a step may do to the coordinator's dict, and to the entity's.
LEMMA DictStep ==
  ASSUME TypeInv, [Next]_vars
  PROVE  /\ From(cur, cur') \/ cur' = FreshDict
         /\ From(old, old') \/ From(cur, old') \/ old' = FreshDict
<1>0. From(cur, cur) /\ From(old, old) /\ TypeOK /\ cur \in Dict /\ old \in Dict
  BY DEF From, TypeInv, TypeOK
<1>1. CASE UNCHANGED <<cur, old>>
  BY <1>0, <1>1
<1>2. CASE UNCHANGED vars \/ TrueNAS \/ InstallCall \/ UpgradeAccepted
  BY <1>1, <1>2 DEF vars, data, TrueNAS, ForeignUpgrade, AppChanges, JobEnds, JobForgotten,
                    InstallCall, UpgradeAccepted
<1>3. CASE Restart
  BY <1>3, FreshFields DEF Restart
<1>4. CASE OtherPush
  BY <1>0, <1>4, ListenersUnmark, UnmarkIsFrom DEF OtherPush
<1>5. ASSUME NEW r \in Refreshers, Refresh(r)
      PROVE  /\ From(cur, cur') \/ cur' = FreshDict
             /\ From(old, old') \/ From(cur, old') \/ old' = FreshDict
  <2>1. CASE RefreshStart(r) \/ AdoptFailed(r) \/ JobsAsked(r) \/ JobsUnavailable(r)
    BY <1>1, <2>1 DEF RefreshStart, AdoptFailed, JobsAsked, JobsUnavailable, data
  <2>2. CASE Replace(r)
    <3>1. MayUnmark(cur, cur') /\ old' \in {old, cur}
      BY <1>0, <2>2 DEF Replace, MayUnmark, Dict
    <3> QED BY <1>0, <3>1, UnmarkIsFrom
  <2>3. CASE AdoptJobs(r)
    BY <1>0, <2>3, AdoptedIs DEF AdoptJobs, From, Dict
  <2>4. CASE JobsAnswered(r)
    <3>1. Record(r) /\ asked[r] # 0 /\ r \in Askers /\ old' = old
      BY <2>4 DEF JobsAnswered, TypeInv, AskInv, Askers
    <3> QED BY <1>0, <3>1, RecordIsFrom
  <2>5. CASE Notify(r)
    BY <1>0, <2>5, ListenersUnmark, UnmarkIsFrom DEF Notify
  <2> QED BY <1>5, <2>1, <2>2, <2>3, <2>4, <2>5 DEF Refresh
<1>6. CASE UpgradeRefused
  <2>1. WatchAdopted(InFlight # {}, pc) /\ (InFlight # {}) \in BOOLEAN
    BY <1>6 DEF UpgradeRefused
  <2> QED BY <1>0, <2>1, WatchAdoptedUnmarks, UnmarkIsFrom
<1>7. ASSUME NEW t \in Installs, Install(t)
      PROVE  /\ From(cur, cur') \/ cur' = FreshDict
             /\ From(old, old') \/ From(cur, old') \/ old' = FreshDict
  <2>0. t \in Tasks /\ t \in Askers
    BY DEF Installs, Tasks, Askers
  <2>1. CASE StoreJob(t)
    <3>1. pc[t] = "reply"
      BY <2>1 DEF StoreJob
    <3>2. ASSUME NEW d \in Dict,
                 NEW e, e = [d EXCEPT !.jobid = t[1], !.state = Active,
                                      !.adopted = IF @ = t[1] THEN 0 ELSE @]
          PROVE  From(d, e)
      <4>1. e.jobid = t[1] /\ e.state = Active /\ e.adopted \in {d.adopted, 0}
        BY <3>2 DEF Dict
      <4> QED BY <3>1, <4>1 DEF From
    <3> QED BY <1>0, <2>1, <3>2, StoredIs
  <2>2. CASE TrackAsked(t) \/ TrackLost(t)
    BY <1>1, <2>2 DEF TrackAsked, TrackLost, data
  <2>3. CASE TrackAnswered(t)
    <3>1. Record(t) /\ asked[t] # 0 /\ old' = old
      BY <2>3 DEF TrackAnswered, TypeInv, AskInv
    <3> QED BY <1>0, <2>0, <3>1, RecordIsFrom
  <2>4. CASE TrackTimeout(t)
    BY <1>0, <2>4, TimeoutReturns, <2>0, FinishUnmarks, UnmarkIsFrom
  <2> QED BY <1>7, <2>1, <2>2, <2>3, <2>4 DEF Install
<1>8. ASSUME NEW t \in Tasks, Watch(t) \/ Outcome(t)
      PROVE  /\ From(cur, cur') \/ cur' = FreshDict
             /\ From(old, old') \/ From(cur, old') \/ old' = FreshDict
  <2>1. CASE Watch(t) \/ Resolve(t) \/ AskInstance(t) \/ InstanceStopped(t)
    BY <1>1, <2>1 DEF Watch, WatchFinished, WatchTimeout, Resolve, AskInstance, InstanceStopped, data
  <2>2. CASE Act(t) \/ NotifyFailed(t)
    <3>1. Finish(t)
      BY <2>2 DEF Act, NotifyFailed
    <3> QED BY <1>0, <3>1, FinishUnmarks, UnmarkIsFrom
  <2> QED BY <1>8, <2>1, <2>2 DEF Outcome
<1> QED BY <1>2, <1>3, <1>4, <1>5, <1>6, <1>7, <1>8 DEF Next, Watches, Tasks

-----------------------------------------------------------------------------
(* Jobs, and what is known of them.                                          *)

\* A job begins once and ends once.
MovesOn(j) ==
    /\ job'[j] = "none" => job[j] = "none"
    /\ job[j] = Active => job'[j] \in {Active} \cup Final
    /\ job[j] \in Final => job'[j] = job[j]

Known(j) == j # 0 => job[j] # "none"

\* Nobody knows of a job that has not begun; an answer that is not "active" is about a
\* job that has ended, with that outcome unless TrueNAS has forgotten it.
JobInv ==
    /\ \A j \in Jobs : job[j] = Active => j \in listed
    /\ \A a \in Askers : asked[a] # 0 /\ reply[a] # Active =>
          job[asked[a]] \in Final /\ reply[a] \in {"unknown", job[asked[a]]}
    /\ \A j \in found : job[j] # "none"
    /\ Known(cur.jobid) /\ Known(cur.adopted) /\ Known(old.jobid) /\ Known(old.adopted)
    /\ \A t \in Tasks : pc[t] # "none" => job[t[1]] # "none"

LEMMA JobStates ==
  /\ {Active, "none", "unknown"} \cap Final = {}
  /\ Active # "none" /\ Active # "unknown"
  BY DEF Active, Final

LEMMA JobStep ==
  ASSUME TypeInv, [Next]_vars
  PROVE  /\ \A j \in Jobs : MovesOn(j)
         /\ \A j \in listed \ listed' : job[j] \in Final
         /\ \A j \in Jobs : job'[j] = Active => job[j] = Active \/ j \in listed'
<1>0. job \in [Jobs -> {"none", Active} \cup Final]
  BY DEF TypeInv, TypeOK
<1>1. CASE UNCHANGED <<job, listed>>
  BY <1>0, <1>1 DEF MovesOn
<1>2. CASE ForeignUpgrade \/ UpgradeAccepted
  <2>1. PICK j \in Jobs : job[j] = "none" /\ job' = [job EXCEPT ![j] = Active] /\ listed' = listed \cup {j}
    BY <1>2 DEF ForeignUpgrade, UpgradeAccepted, NewJobs
  <2> QED BY <1>0, <2>1, JobStates DEF MovesOn
<1>3. ASSUME NEW j \in Jobs, JobEnds(j)
      PROVE  (\A k \in Jobs : MovesOn(k) /\ (job'[k] = Active => job[k] = Active)) /\ listed' = listed
  <2>1. job[j] = Active /\ (job' = [job EXCEPT ![j] = "SUCCESS"] \/ job' = [job EXCEPT ![j] = "FAILED"])
    BY <1>3 DEF JobEnds, Runs
  <2>2. "SUCCESS" \in Final /\ "FAILED" \in Final
    BY DEF Final
  <2> QED BY <1>0, <1>3, <2>1, <2>2, JobStates DEF MovesOn, JobEnds
<1>4. ASSUME NEW j \in Jobs, JobForgotten(j)
      PROVE  job' = job /\ listed' = listed \ {j} /\ job[j] \in Final
  BY <1>4 DEF JobForgotten
<1>5. CASE \E j \in Jobs : JobForgotten(j)
  BY <1>0, <1>4, <1>5 DEF MovesOn
<1>6. CASE AppChanges \/ Restart \/ OtherPush \/ InstallCall \/ UpgradeRefused \/ UNCHANGED vars
  BY <1>1, <1>6 DEF AppChanges, Restart, OtherPush, InstallCall, UpgradeRefused, vars, server
<1>7. CASE \E r \in Refreshers : Refresh(r)
  BY <1>1, <1>7 DEF Refresh, RefreshStart, Replace, AdoptJobs, AdoptFailed, JobsAsked, JobsUnavailable,
                    JobsAnswered, Notify, server
<1>8. CASE (\E t \in Installs : Install(t)) \/ (\E t \in Watches : Watch(t))
  BY <1>1, <1>8 DEF Install, StoreJob, TrackAsked, TrackAnswered, TrackLost, TrackTimeout, Watch,
                    WatchFinished, WatchTimeout, server
<1>9. CASE \E t \in Tasks : Outcome(t)
  BY <1>1, <1>9 DEF Outcome, Resolve, Act, AskInstance, InstanceStopped, NotifyFailed, server
<1> QED BY <1>2, <1>3, <1>5, <1>6, <1>7, <1>8, <1>9 DEF Next, TrueNAS

\* The answer to the adoption's query is the jobs active when it was asked.
LEMMA FoundStep ==
  ASSUME [Next]_vars
  PROVE  found' \in {found, {}} \/ (found' = ActiveJobs /\ UNCHANGED job)
<1>0. CASE UNCHANGED found
  BY <1>0
<1>1. CASE Restart
  BY <1>1 DEF Restart
<1>2. ASSUME NEW r \in Refreshers, Refresh(r)
      PROVE  found' \in {found, {}} \/ (found' = ActiveJobs /\ UNCHANGED job)
  <2>1. CASE Replace(r)
    BY <2>1 DEF Replace, server
  <2>2. CASE ~Replace(r)
    BY <1>2, <2>2 DEF Refresh, RefreshStart, AdoptJobs, AdoptFailed, JobsAsked, JobsUnavailable, JobsAnswered,
                      Notify
  <2> QED BY <2>1, <2>2
<1>3. CASE TrueNAS \/ OtherPush \/ InstallCall \/ UpgradeAccepted \/ UpgradeRefused \/ UNCHANGED vars
  BY <1>0, <1>3 DEF TrueNAS, ForeignUpgrade, AppChanges, JobEnds, JobForgotten, OtherPush, InstallCall,
                    UpgradeAccepted, UpgradeRefused, vars, refreshing
<1>4. CASE (\E t \in Installs : Install(t)) \/ (\E t \in Watches : Watch(t))
  BY <1>0, <1>4 DEF Install, StoreJob, TrackAsked, TrackAnswered, TrackLost, TrackTimeout, Watch, WatchFinished,
                    WatchTimeout, refreshing
<1>5. CASE \E t \in Tasks : Outcome(t)
  BY <1>0, <1>5 DEF Outcome, Resolve, Act, AskInstance, InstanceStopped, NotifyFailed, refreshing
<1> QED BY <1>1, <1>2, <1>3, <1>4, <1>5 DEF Next

\* Whoever asks is told the truth, and hears of it once.
LEMMA AnswersStep ==
  ASSUME TypeInv, JobInv, [Next]_vars, NEW a \in Askers, asked'[a] # 0, reply'[a] # Active
  PROVE  job'[asked'[a]] \in Final /\ reply'[a] \in {"unknown", job'[asked'[a]]}
<1>0. /\ asked \in [Askers -> JobIds] /\ reply \in [Askers -> Outcomes] /\ cur \in Dict
      /\ job \in [Jobs -> {"none", Active} \cup Final]
  BY DEF TypeInv, TypeOK
<1>1. CASE UNCHANGED <<asked, reply>>
  BY <1>0, <1>1, JobStep, JobsAreNat DEF JobInv, MovesOn
<1>2. CASE UNCHANGED job /\ \E b \in Askers : Ask(b)
  <2>1. PICK b \in Askers : Ask(b)
    BY <1>2
  <2>2. CASE a = b
    <3>1. asked'[a] = cur.jobid /\ reply'[a] = IF cur.jobid \in listed THEN job[cur.jobid] ELSE "unknown"
      BY <1>0, <2>1, <2>2 DEF Ask
    <3>2. cur.jobid \in Jobs /\ job[cur.jobid] # "none"
      BY <1>0, <2>1, JobsAreNat DEF Ask, Dict, JobInv, Known
    <3> QED BY <1>0, <1>2, <3>1, <3>2 DEF JobInv
  <2>3. CASE a # b
    <3>1. asked'[a] = asked[a] /\ reply'[a] = reply[a]
      BY <1>0, <2>1, <2>3 DEF Ask
    <3> QED BY <1>2, <3>1 DEF JobInv
  <2> QED BY <2>2, <2>3
<1>3. CASE UNCHANGED job /\ \E b \in Askers : Record(b)
  <2>1. PICK b \in Askers : asked' = [asked EXCEPT ![b] = 0] /\ reply' = [reply EXCEPT ![b] = "none"]
    BY <1>3 DEF Record
  <2>2. asked'[a] = asked[a] /\ reply'[a] = reply[a]
    BY <1>0, <2>1
  <2> QED BY <1>3, <2>2 DEF JobInv
<1>4. CASE Restart
  BY <1>4 DEF Restart, Started
<1>5. CASE TrueNAS \/ OtherPush \/ InstallCall \/ UpgradeAccepted \/ UpgradeRefused \/ UNCHANGED vars
  BY <1>1, <1>5 DEF TrueNAS, ForeignUpgrade, AppChanges, JobEnds, JobForgotten, OtherPush, InstallCall,
                    UpgradeAccepted, UpgradeRefused, vars, lookups
<1>6. ASSUME NEW r \in Refreshers, Refresh(r)
      PROVE  \/ UNCHANGED <<asked, reply>>
             \/ UNCHANGED job /\ \E b \in Askers : Ask(b) \/ Record(b)
  <2>1. CASE JobsAsked(r) \/ JobsAnswered(r)
    BY <2>1 DEF JobsAsked, JobsAnswered, server, Askers
  <2>2. CASE RefreshStart(r) \/ Replace(r) \/ AdoptJobs(r) \/ AdoptFailed(r) \/ JobsUnavailable(r) \/ Notify(r)
    BY <2>2 DEF RefreshStart, Replace, AdoptJobs, AdoptFailed, JobsUnavailable, Notify, lookups
  <2> QED BY <1>6, <2>1, <2>2 DEF Refresh
<1>7. ASSUME NEW t \in Installs, Install(t)
      PROVE  \/ UNCHANGED <<asked, reply>>
             \/ UNCHANGED job /\ \E b \in Askers : Ask(b) \/ Record(b)
  <2>1. CASE TrackAsked(t) \/ TrackAnswered(t)
    BY <2>1 DEF TrackAsked, TrackAnswered, server, Askers
  <2>2. CASE StoreJob(t) \/ TrackLost(t) \/ TrackTimeout(t)
    BY <2>2 DEF StoreJob, TrackLost, TrackTimeout, lookups
  <2> QED BY <1>7, <2>1, <2>2 DEF Install
<1>8. CASE (\E t \in Watches : Watch(t)) \/ (\E t \in Tasks : Outcome(t))
  BY <1>1, <1>8 DEF Watch, WatchFinished, WatchTimeout, Outcome, Resolve, Act, AskInstance, InstanceStopped,
                    NotifyFailed, lookups
<1> QED BY <1>1, <1>2, <1>3, <1>4, <1>5, <1>6, <1>7, <1>8 DEF Next

\* A task begins when its job has.
LEMMA TasksStep ==
  ASSUME TypeInv, JobInv, [Next]_vars, NEW t \in Tasks, pc'[t] # "none"
  PROVE  job'[t[1]] # "none"
<1>0. /\ TypeOK /\ pc \in [Tasks -> TaskPCs] /\ t[1] \in Jobs
      /\ \A s \in Tasks : s[1] \in Jobs /\ (pc[s] # "none" => job'[s[1]] # "none")
  BY TaskShape, JobStep DEF TypeInv, TypeOK, JobInv, MovesOn
<1>1. /\ entity \in Dict /\ cur \in Dict
      /\ entity.adopted \in JobIds /\ (entity.adopted # 0 => job'[entity.adopted] # "none")
      /\ cur.adopted \in JobIds /\ (cur.adopted # 0 => job'[cur.adopted] # "none")
  <2>1. entity \in Dict /\ cur \in Dict
    BY EntityType DEF TypeInv, TypeOK
  <2>2. entity.adopted \in JobIds /\ cur.adopted \in JobIds
    BY <2>1 DEF Dict
  <2>3. entity.adopted # 0 => job[entity.adopted] # "none"
    BY DEF JobInv, Known, entity
  <2>4. cur.adopted # 0 => job[cur.adopted] # "none"
    BY DEF JobInv, Known
  <2> QED BY <2>1, <2>2, <2>3, <2>4, JobStep, JobsAreNat DEF MovesOn
<1>2. CASE pc[t] # "none"
  BY <1>0, <1>2
<1>3. CASE UNCHANGED pc
  BY <1>2, <1>3
<1>4. CASE TrueNAS \/ InstallCall \/ UNCHANGED vars
  BY <1>3, <1>4 DEF TrueNAS, ForeignUpgrade, AppChanges, JobEnds, JobForgotten, InstallCall, vars, tasks
<1>5. CASE Restart
  BY <1>5 DEF Restart, Started
<1>6. CASE OtherPush \/ \E r \in Refreshers : Refresh(r)
  <2>1. UNCHANGED pc \/ ListenersCalled
    BY <1>6 DEF OtherPush, Refresh, RefreshStart, Replace, AdoptJobs, AdoptFailed, JobsAsked, JobsUnavailable,
                JobsAnswered, Notify, tasks
  <2> QED BY <1>0, <1>1, <1>2, <1>3, <2>1, ListenersType
<1>7. CASE UpgradeAccepted
  <2>1. PICK j \in NewJobs : /\ job' = [job EXCEPT ![j] = Active]
                             /\ pc' = [pc EXCEPT ![<<j, "install">>] = "reply"]
    BY <1>7 DEF UpgradeAccepted
  <2>2. job'[j] # "none"
    BY <2>1, JobStates DEF NewJobs, TypeInv, TypeOK
  <2>3. t = <<j, "install">> \/ pc'[t] = pc[t]
    BY <1>0, <2>1
  <2> QED BY <1>2, <2>2, <2>3
<1>8. CASE UpgradeRefused
  <2>1. WatchAdopted(InFlight # {}, pc) /\ (InFlight # {}) \in BOOLEAN
    BY <1>8 DEF UpgradeRefused
  <2>2. pc'[t] = pc[t] \/ (entity.adopted # 0 /\ t = <<entity.adopted, "adopted">>)
    BY <1>0, <2>1, WatchAdoptedType
  <2> QED BY <1>1, <1>2, <2>2
<1>9. ASSUME NEW s \in Installs, Install(s)
      PROVE  job'[t[1]] # "none"
  <2>0. s \in Tasks
    BY DEF Installs, Tasks
  <2>1. CASE StoreJob(s) \/ TrackAsked(s) \/ TrackAnswered(s) \/ TrackLost(s)
    <3>1. pc[s] # "none" /\ (t = s \/ pc'[t] = pc[t])
      BY <1>0, <2>0, <2>1 DEF StoreJob, TrackAsked, TrackAnswered, TrackLost
    <3> QED BY <1>0, <1>2, <2>0, <3>1
  <2>2. CASE TrackTimeout(s)
    <3> DEFINE x == <<s[1], "own">>
               pcs == [pc EXCEPT ![x] = "wait"]
    <3>1. InstallReturns(s, pcs) /\ x \in Tasks /\ pc[s] # "none"
      BY <2>0, <2>2, TaskShape, TaskOf DEF TrackTimeout
    <3>2. pcs \in [Tasks -> TaskPCs]
      <4>1. "wait" \in TaskPCs
        BY DEF TaskPCs
      <4> HIDE DEF x
      <4> QED BY <1>0, <3>1, <4>1
    <3>3. t # x => pcs[t] = pc[t]
      BY <1>0
    <3> HIDE DEF pcs
    <3>4. \/ t = s \/ pc'[t] = pcs[t]
          \/ entity.adopted # 0 /\ t = <<entity.adopted, "adopted">>
      BY <1>0, <2>0, <3>1, <3>2, InstallReturnsType
    <3>5. x[1] = s[1]
      OBVIOUS
    <3>6. CASE t = s \/ t = x
      BY <1>0, <2>0, <3>1, <3>5, <3>6
    <3>7. CASE entity.adopted # 0 /\ t = <<entity.adopted, "adopted">>
      BY <1>1, <3>7
    <3> HIDE DEF x
    <3> QED BY <1>2, <3>3, <3>4, <3>6, <3>7
  <2> QED BY <1>9, <2>1, <2>2 DEF Install
<1>10. ASSUME NEW s \in Tasks, Watch(s) \/ Outcome(s)
       PROVE  job'[t[1]] # "none"
  <2>1. CASE Watch(s) \/ Resolve(s) \/ AskInstance(s) \/ InstanceStopped(s)
    <3>1. pc[s] # "none" /\ (t = s \/ pc'[t] = pc[t])
      BY <1>0, <2>1 DEF Watch, WatchFinished, WatchTimeout, Resolve, AskInstance, InstanceStopped
    <3> QED BY <1>0, <1>2, <3>1
  <2>2. CASE Act(s) \/ NotifyFailed(s)
    <3>1. Finish(s) /\ pc[s] # "none"
      BY <2>2 DEF Act, NotifyFailed
    <3> QED BY <1>0, <1>1, <1>2, <3>1, FinishType
  <2> QED BY <1>10, <2>1, <2>2 DEF Outcome
<1> QED BY <1>4, <1>5, <1>6, <1>7, <1>8, <1>9, <1>10 DEF Next, Watches, Tasks

LEMMA JobInvStep ==
  ASSUME TypeInv, JobInv, [Next]_vars
  PROVE  JobInv'
<1>0. /\ found \subseteq Jobs /\ job \in [Jobs -> {"none", Active} \cup Final]
      /\ cur \in Dict /\ old \in Dict /\ FreshDict \in Dict
  BY FreshFields DEF TypeInv, TypeOK
<1>1. \A j \in Jobs : job'[j] = Active => j \in listed'
  BY JobStep, JobStates DEF JobInv
<1>2. \A j \in found' : job'[j] # "none"
  BY <1>0, FoundStep, JobStep, JobStates DEF JobInv, MovesOn, ActiveJobs
<1>3. ASSUME NEW d \in {cur, old}, NEW e \in Dict, From(d, e)
      PROVE  Known(e.jobid)' /\ Known(e.adopted)'
  <2>1. \A j \in Jobs : job[j] # "none" => job'[j] # "none"
    BY JobStep DEF MovesOn
  <2>2. e.jobid \in JobIds /\ e.adopted \in JobIds /\ Known(d.jobid) /\ Known(d.adopted)
    BY DEF Dict, JobInv
  <2>3. Known(e.jobid)
    <3>1. CASE e.jobid \in {d.jobid, 0} \cup found
      BY <2>2, <3>1 DEF Known, JobInv
    <3>2. CASE \E t \in Installs : pc[t] = "reply" /\ e.jobid = t[1]
      BY <3>2 DEF Known, JobInv, Installs, Tasks
    <3> QED BY <1>3, <3>1, <3>2 DEF From
  <2>4. Known(e.adopted)
    BY <1>3, <2>2 DEF Known, JobInv, From
  <2> QED BY <2>1, <2>2, <2>3, <2>4, JobsAreNat DEF Known
<1>4. Known(cur.jobid)' /\ Known(cur.adopted)' /\ Known(old.jobid)' /\ Known(old.adopted)'
  <2>1. cur' \in Dict /\ old' \in Dict
    BY TypeStep DEF TypeInv, TypeOK
  <2>2. Known(FreshDict.jobid)' /\ Known(FreshDict.adopted)'
    BY FreshFields DEF Known
  <2> QED BY <1>3, <2>1, <2>2, DictStep
<1> QED BY <1>1, <1>2, <1>4, AnswersStep, TasksStep DEF JobInv

-----------------------------------------------------------------------------
(* The outcome a watch reports.                                              *)

\* The outcome in an app's dict is that of the job it says has ended.
TrueRecord(dict) == dict.state \in Final => dict.ended \in Jobs /\ job[dict.ended] = dict.state

OutcomeInv == TrueRecord(cur) /\ TrueRecord(old) /\ WatchOutcomeIsOwn

\* A watch acts on what it has just resolved.
LEMMA WatchesResolve ==
  ASSUME TypeInv, [Next]_vars, NEW t \in Watches, pc'[t] = "act", got'[t] \in Final
  PROVE  \/ pc[t] = "act" /\ got'[t] = got[t]
         \/ Resolve(t)
<1>0. /\ TypeOK /\ pc \in [Tasks -> TaskPCs] /\ got \in [Tasks -> Outcomes]
      /\ t \in Tasks /\ t \notin Installs
  BY DEF TypeInv, TypeOK, Watches, Installs, Tasks
<1>1. CASE pc'[t] = pc[t] /\ got'[t] = got[t]
  BY <1>1
<1>2. CASE UNCHANGED <<pc, got>>
  BY <1>1, <1>2
<1>3. CASE TrueNAS \/ InstallCall \/ UNCHANGED vars
  BY <1>2, <1>3 DEF TrueNAS, ForeignUpgrade, AppChanges, JobEnds, JobForgotten, InstallCall, vars, tasks
<1>4. CASE Restart
  BY <1>0, <1>4 DEF Restart, Started
<1>5. CASE OtherPush \/ \E r \in Refreshers : Refresh(r)
  <2>1. (UNCHANGED pc \/ ListenersCalled) /\ UNCHANGED got
    BY <1>5 DEF OtherPush, Refresh, RefreshStart, Replace, AdoptJobs, AdoptFailed, JobsAsked, JobsUnavailable,
                JobsAnswered, Notify, tasks
  <2> QED BY <1>0, <1>1, <2>1, ListenersType
<1>6. CASE UpgradeAccepted
  <2>1. PICK j \in NewJobs : pc' = [pc EXCEPT ![<<j, "install">>] = "reply"]
    BY <1>6 DEF UpgradeAccepted
  <2>2. <<j, "install">> \in Installs
    BY DEF NewJobs, Installs
  <2>3. pc'[t] = pc[t]
    BY <1>0, <2>1, <2>2
  <2> QED BY <1>1, <1>6, <2>3 DEF UpgradeAccepted
<1>7. CASE UpgradeRefused
  <2>1. WatchAdopted(InFlight # {}, pc) /\ (InFlight # {}) \in BOOLEAN /\ UNCHANGED got
    BY <1>7 DEF UpgradeRefused
  <2>2. pc'[t] = pc[t] \/ pc'[t] = "wait"
    BY <1>0, <2>1, WatchAdoptedType
  <2> QED BY <1>1, <2>1, <2>2
<1>8. ASSUME NEW s \in Installs, Install(s)
      PROVE  pc[t] = "act" /\ got'[t] = got[t]
  <2>0. s \in Tasks /\ s # t
    BY <1>0 DEF Installs, Tasks
  <2>1. CASE StoreJob(s) \/ TrackAsked(s) \/ TrackAnswered(s) \/ TrackLost(s)
    <3>1. pc'[t] = pc[t] /\ got'[t] = got[t]
      BY <1>0, <2>0, <2>1 DEF StoreJob, TrackAsked, TrackAnswered, TrackLost
    <3> QED BY <3>1
  <2>2. CASE TrackTimeout(s)
    <3> DEFINE x == <<s[1], "own">>
               pcs == [pc EXCEPT ![x] = "wait"]
    <3>1. InstallReturns(s, pcs) /\ x \in Tasks /\ got' = got
      BY <2>0, <2>2, TaskShape, TaskOf DEF TrackTimeout
    <3>2. pcs \in [Tasks -> TaskPCs] /\ (pcs[t] = pc[t] \/ pcs[t] = "wait")
      <4>1. "wait" \in TaskPCs
        BY DEF TaskPCs
      <4> HIDE DEF x
      <4> QED BY <1>0, <3>1, <4>1
    <3> HIDE DEF pcs
    <3>3. pc'[t] = pcs[t] \/ pc'[t] = "wait"
      BY <1>0, <2>0, <3>1, <3>2, InstallReturnsType
    <3> QED BY <3>1, <3>2, <3>3
  <2> QED BY <1>8, <2>1, <2>2 DEF Install
<1>9. ASSUME NEW s \in Tasks, Watch(s) \/ Outcome(s)
      PROVE  \/ pc[t] = "act" /\ got'[t] = got[t]
             \/ Resolve(t)
  <2>1. CASE Watch(s) \/ AskInstance(s) \/ InstanceStopped(s)
    <3>1. got' = got /\ (pc'[t] = pc[t] \/ pc'[t] # "act")
      BY <1>0, <2>1 DEF Watch, WatchFinished, WatchTimeout, AskInstance, InstanceStopped
    <3> QED BY <3>1
  <2>2. CASE Resolve(s)
    <3>1. CASE s = t
      BY <2>2, <3>1
    <3>2. CASE s # t
      <4>1. pc' = [pc EXCEPT ![s] = "act"] /\ \E v : got' = [got EXCEPT ![s] = v]
        BY <2>2 DEF Resolve
      <4>2. pc'[t] = pc[t] /\ got'[t] = got[t]
        BY <1>0, <3>2, <4>1
      <4> QED BY <4>2
    <3> QED BY <3>1, <3>2
  <2>3. CASE Act(s) \/ NotifyFailed(s)
    <3>1. Finish(s)
      BY <2>3 DEF Act, NotifyFailed
    <3>2. pc'[t] = pc[t] /\ s # t
      BY <1>0, <3>1, FinishType
    <3>3. got'[t] = got[t]
      BY <1>0, <3>1, <3>2, FinishType
    <3> QED BY <3>2, <3>3
  <2> QED BY <1>9, <2>1, <2>2, <2>3 DEF Outcome
<1> QED BY <1>3, <1>4, <1>5, <1>6, <1>7, <1>8, <1>9 DEF Next, Watches, Tasks

LEMMA OutcomeInvStep ==
  ASSUME TypeInv, JobInv, OutcomeInv, [Next]_vars
  PROVE  OutcomeInv'
<1>0. /\ asked \in [Askers -> JobIds] /\ job \in [Jobs -> {"none", Active} \cup Final]
      /\ \A j \in Jobs : job[j] \in Final => job'[j] = job[j]
  BY JobStep DEF TypeInv, TypeOK, MovesOn
<1>1. ASSUME NEW d \in {cur, old}, NEW e \in Dict, From(d, e)
      PROVE  TrueRecord(e)'
  <2>1. CASE e.state = d.state /\ e.ended = d.ended
    BY <1>0, <2>1 DEF OutcomeInv, TrueRecord
  <2>2. CASE e.state = Active
    BY <2>2, JobStates DEF TrueRecord
  <2>3. ASSUME NEW a \in Askers, asked[a] # 0, e.state = reply[a], reply[a] \in Final, e.ended = asked[a]
        PROVE  TrueRecord(e)'
    <3>1. job[asked[a]] = reply[a] /\ asked[a] \in Jobs
      BY <1>0, <2>3, JobStates, JobsAreNat DEF JobInv
    <3> QED BY <1>0, <2>3, <3>1 DEF TrueRecord
  <2> QED BY <1>1, <2>1, <2>2, <2>3 DEF From, TrueRecord
<1>2. TrueRecord(cur)' /\ TrueRecord(old)'
  <2>1. cur' \in Dict /\ old' \in Dict /\ FreshDict \in Dict
    BY TypeStep, FreshFields DEF TypeInv, TypeOK
  <2>2. TrueRecord(FreshDict)'
    BY FreshFields, JobStates DEF TrueRecord
  <2> QED BY <1>1, <2>1, <2>2, DictStep
<1>3. ASSUME NEW t \in Watches, pc'[t] = "act", got'[t] \in Final
      PROVE  job'[t[1]] = got'[t]
  <2>0. t \in Tasks /\ t[1] \in Jobs /\ TypeOK /\ got \in [Tasks -> Outcomes]
    BY TaskShape DEF Watches, Tasks, TypeInv, TypeOK
  <2>1. CASE pc[t] = "act" /\ got'[t] = got[t]
    BY <1>0, <1>3, <2>0, <2>1 DEF OutcomeInv, WatchOutcomeIsOwn
  <2>2. CASE Resolve(t)
    <3>1. job' = job /\ got'[t] \in {FromRecord(t[1]), job[t[1]]}
      BY <2>0, <2>2 DEF Resolve, server
    <3>2. TrueRecord(entity)
      BY DEF OutcomeInv, entity
    <3>3. FromRecord(t[1]) \in Final => job[t[1]] = FromRecord(t[1])
      BY <3>2, JobStates DEF FromRecord, TrueRecord
    <3> QED BY <1>3, <3>1, <3>3
  <2> QED BY <1>3, <2>1, <2>2, WatchesResolve
<1> QED BY <1>2, <1>3 DEF OutcomeInv, WatchOutcomeIsOwn

LEMMA JobInit == Init => JobInv /\ OutcomeInv
<1> SUFFICES ASSUME Init PROVE JobInv /\ OutcomeInv
  OBVIOUS
<1>1. /\ cur = FreshDict /\ old = FreshDict /\ found = {} /\ job = [j \in Jobs |-> "none"]
      /\ asked = [a \in Askers |-> 0] /\ pc = [t \in Tasks |-> "none"]
  BY FreshFields DEF Init, Started
<1>2. JobInv
  BY <1>1, FreshFields, JobStates DEF JobInv, Known
<1>3. OutcomeInv
  BY <1>1, FreshFields, JobStates DEF OutcomeInv, TrueRecord, WatchOutcomeIsOwn, Watches, Tasks
<1> QED BY <1>2, <1>3

LEMMA JobsKnown == Spec => [](TypeInv /\ JobInv /\ OutcomeInv)
<1>1. Init => TypeInv /\ JobInv /\ OutcomeInv
  BY TypeInit, JobInit
<1>2. TypeInv /\ JobInv /\ OutcomeInv /\ [Next]_vars => (TypeInv /\ JobInv /\ OutcomeInv)'
  BY TypeStep, JobInvStep, OutcomeInvStep
<1> QED BY <1>1, <1>2, PTL DEF Spec

\* The final outcome a watch reports is how its own job ended, whatever replies are
\* overtaken and however many installs overlap (_async_watch_late_upgrade,
\* _async_resolve_untracked_job).
THEOREM OutcomesAreOwn == Spec => []WatchOutcomeIsOwn
<1>1. TypeInv /\ JobInv /\ OutcomeInv => WatchOutcomeIsOwn
  BY DEF OutcomeInv
<1> QED BY <1>1, JobsKnown, PTL

-----------------------------------------------------------------------------
(* What a step may do to a task.                                             *)

\* The reply about the job of t is stored, and the call is not over.
Underway(t) == Busy(t) /\ pc[t] # "reply"

\* A task begins, goes on or is lost in a restart.
Changes(t) ==
    \/ Restart
    \/ /\ UpgradeAccepted /\ t[2] = "install" /\ pc'[t] = "reply"
       /\ job[t[1]] = "none" /\ job'[t[1]] = Active
    \/ t \in Installs /\ StoreJob(t) /\ pc'[t] = "track"
    \/ Underway(t) /\ pc'[t] \notin {"none", "reply"}
    \/ t[2] = "own" /\ pc'[t] = "wait" /\ pc'[<<t[1], "install">>] = "done"
    \/ /\ t[2] = "adopted" /\ pc'[t] = "wait" /\ t[1] \in {cur.adopted, entity.adopted}
       /\ \A s \in Installs : pc[s] # "reply"
       /\ UNCHANGED job

LEMMA FinishChanges ==
  ASSUME TypeOK, NEW s \in Tasks, Finish(s), Underway(s), UNCHANGED job,
         NEW t \in Tasks, pc'[t] # pc[t]
  PROVE  Changes(t)
<1>1. CASE t = s
  <2>1. pc'[s] = "done" \/ pc'[s] = "wait"
    BY <1>1, FinishType
  <2> QED BY <1>1, <2>1 DEF Changes
<1>2. CASE t # s
  <2>1. /\ InFlight = {s} /\ entity.adopted # 0
        /\ t = <<entity.adopted, "adopted">> /\ pc'[t] = "wait"
    BY <1>2, FinishType
  <2>2. \A u \in Installs : pc[u] # "reply"
    BY <2>1 DEF InFlight, Busy, Underway
  <2> QED BY <2>1, <2>2 DEF Changes
<1> QED BY <1>1, <1>2

LEMMA TimeoutChanges ==
  ASSUME TypeOK, NEW s \in Installs, TrackTimeout(s), NEW t \in Tasks, pc'[t] # pc[t]
  PROVE  Changes(t)
<1> DEFINE x == <<s[1], "own">>
           pcs == [pc EXCEPT ![x] = "wait"]
<1>1. /\ InstallReturns(s, pcs) /\ x \in Tasks /\ s \in Tasks /\ UNCHANGED job
      /\ pc[s] = "track" /\ s # x /\ s[2] = "install" /\ s = <<s[1], "install">>
  BY TaskShape, TaskOf DEF TrackTimeout, Installs, Tasks, server
<1>2. pcs \in [Tasks -> TaskPCs] /\ \A u \in Tasks : pcs[u] = IF u = x THEN "wait" ELSE pc[u]
  <2>1. "wait" \in TaskPCs
    BY DEF TaskPCs
  <2> HIDE DEF x
  <2> QED BY <1>1, <2>1 DEF TypeOK
<1> HIDE DEF pcs
<1>3. \A u \in Tasks :
         \/ u = s /\ pc'[u] = "done"
         \/ u # s /\ pc'[u] = pcs[u]
         \/ /\ ~calling /\ InFlight = {s} /\ entity.adopted # 0
            /\ u = <<entity.adopted, "adopted">> /\ pc'[u] = "wait"
  BY <1>1, <1>2, InstallReturnsType
<1>4. pc'[s] = "done"
  BY <1>1, <1>3
<1>5. CASE t = s
  BY <1>1, <1>4, <1>5 DEF Changes, Underway, Busy
<1>6. CASE t = x /\ pc'[t] = "wait"
  BY <1>1, <1>4, <1>6 DEF Changes
<1>7. CASE InFlight = {s} /\ t = <<entity.adopted, "adopted">> /\ pc'[t] = "wait"
  <2>1. \A u \in Installs : pc[u] # "reply"
    BY <1>1, <1>7 DEF InFlight, Busy
  <2> QED BY <1>1, <1>7, <2>1 DEF Changes
<1> QED BY <1>2, <1>3, <1>5, <1>6, <1>7

LEMMA TaskStep ==
  ASSUME TypeInv, [Next]_vars, NEW t \in Tasks, pc'[t] # pc[t]
  PROVE  Changes(t)
<1>0. /\ TypeOK /\ pc \in [Tasks -> TaskPCs] /\ Installs \subseteq Tasks
      /\ t[2] \in {"install", "own", "adopted"} /\ (t \in Installs <=> t[2] = "install")
  BY TaskShape DEF TypeInv, TypeOK, Installs, Tasks
<1>1. CASE UNCHANGED pc
  BY <1>1
<1>2. CASE TrueNAS \/ InstallCall \/ UNCHANGED vars
  BY <1>1, <1>2 DEF TrueNAS, ForeignUpgrade, AppChanges, JobEnds, JobForgotten, InstallCall, vars, tasks
<1>3. CASE Restart
  BY <1>3 DEF Changes
<1>4. CASE OtherPush \/ \E r \in Refreshers : Refresh(r)
  <2>1. UNCHANGED pc \/ (ListenersCalled /\ UNCHANGED job)
    BY <1>4 DEF OtherPush, Refresh, RefreshStart, Replace, AdoptJobs, AdoptFailed, JobsAsked, JobsUnavailable,
                JobsAnswered, Notify, tasks, server
  <2>2. /\ UNCHANGED job /\ InFlight = {} /\ t = <<cur.adopted, "adopted">> /\ pc'[t] = "wait"
    BY <1>0, <1>1, <2>1, ListenersType
  <2>3. \A u \in Installs : pc[u] # "reply"
    BY <2>2 DEF InFlight, Busy
  <2> QED BY <2>2, <2>3 DEF Changes
<1>5. CASE UpgradeAccepted
  <2>1. PICK j \in NewJobs : job' = [job EXCEPT ![j] = Active] /\ pc' = [pc EXCEPT ![<<j, "install">>] = "reply"]
    BY <1>5 DEF UpgradeAccepted
  <2>2. t = <<j, "install">> /\ pc'[t] = "reply"
    BY <1>0, <2>1
  <2>3. job[j] = "none" /\ job'[j] = Active
    BY <2>1 DEF NewJobs, TypeInv, TypeOK
  <2> QED BY <1>5, <2>2, <2>3 DEF Changes
<1>6. CASE UpgradeRefused
  <2>1. WatchAdopted(InFlight # {}, pc) /\ (InFlight # {}) \in BOOLEAN /\ UNCHANGED job
    BY <1>6 DEF UpgradeRefused, server
  <2>2. InFlight = {} /\ t = <<entity.adopted, "adopted">> /\ pc'[t] = "wait"
    BY <1>0, <2>1, WatchAdoptedType
  <2>3. \A u \in Installs : pc[u] # "reply"
    BY <2>2 DEF InFlight, Busy
  <2> QED BY <2>1, <2>2, <2>3 DEF Changes
<1>7. ASSUME NEW s \in Installs, Install(s)
      PROVE  Changes(t)
  <2>1. CASE StoreJob(s)
    <3>1. s = t /\ pc'[t] = "track"
      BY <1>0, <2>1 DEF StoreJob
    <3> QED BY <2>1, <3>1 DEF Changes
  <2>2. CASE TrackAsked(s) \/ TrackAnswered(s) \/ TrackLost(s)
    <3>1. s = t /\ pc[t] \in {"track", "asked"} /\ pc'[t] \in {"asked", "act", "track", "resolve"}
      BY <1>0, <2>2 DEF TrackAsked, TrackAnswered, TrackLost
    <3> QED BY <3>1 DEF Changes, Underway, Busy
  <2>3. CASE TrackTimeout(s)
    BY <1>0, <2>3, TimeoutChanges
  <2> QED BY <1>7, <2>1, <2>2, <2>3 DEF Install
<1>8. ASSUME NEW s \in Tasks, Watch(s) \/ Outcome(s)
      PROVE  Changes(t)
  <2>1. CASE Watch(s) \/ Resolve(s) \/ AskInstance(s) \/ InstanceStopped(s)
    <3>1. s = t /\ pc[t] \in {"wait", "resolve", "act", "instance"} /\ pc'[t] \notin {"none", "reply"}
      BY <1>0, <2>1 DEF Watch, WatchFinished, WatchTimeout, Resolve, AskInstance, InstanceStopped
    <3> QED BY <3>1 DEF Changes, Underway, Busy
  <2>2. CASE Act(s) \/ NotifyFailed(s)
    <3>1. Finish(s) /\ pc[s] \in {"act", "instance", "start"} /\ UNCHANGED job
      BY <2>2 DEF Act, NotifyFailed, server
    <3>2. Underway(s)
      BY <3>1 DEF Underway, Busy
    <3> QED BY <1>0, <3>1, <3>2, FinishChanges
  <2> QED BY <1>8, <2>1, <2>2 DEF Outcome
<1> QED BY <1>2, <1>3, <1>4, <1>5, <1>6, <1>7, <1>8 DEF Next, Watches, Tasks

-----------------------------------------------------------------------------
(* The end of a job is recorded once.                                        *)

\* When no reply is overtaken, only an active job is adopted or stored as the app's job:
\* a job whose end was recorded never becomes the app's job again.
EndInv ==
    /\ found \subseteq ActiveJobs
    /\ \A j \in Jobs : pc[<<j, "install">>] = "reply" => job[j] = Active
    /\ \A j \in Jobs : job[j] \notin Final => ended[j] = 0
    /\ cur.jobid # 0 => ended[cur.jobid] <= restarts
    /\ EndRecordedOnce

LEMMA OnlyEndsSo ==
  ASSUME TypeInv, [Next]_vars, NEW j \in Jobs, job[j] = Active, job'[j] # Active
  PROVE  JobEnds(j)
<1>0. job \in [Jobs -> {"none", Active} \cup Final]
  BY DEF TypeInv, TypeOK
<1>1. CASE UNCHANGED job
  BY <1>1
<1>2. CASE ForeignUpgrade \/ UpgradeAccepted
  <2>1. PICK k \in Jobs : job' = [job EXCEPT ![k] = Active]
    BY <1>2 DEF ForeignUpgrade, UpgradeAccepted, NewJobs
  <2> QED BY <1>0, <2>1
<1>3. ASSUME NEW k \in Jobs, JobEnds(k) PROVE k = j
  <2>1. \E v : job' = [job EXCEPT ![k] = v]
    BY <1>3 DEF JobEnds
  <2> QED BY <1>0, <2>1
<1>4. CASE \E k \in Jobs : JobForgotten(k)
  BY <1>1, <1>4 DEF JobForgotten
<1>6. CASE AppChanges \/ Restart \/ OtherPush \/ InstallCall \/ UpgradeRefused \/ UNCHANGED vars
  BY <1>1, <1>6 DEF AppChanges, Restart, OtherPush, InstallCall, UpgradeRefused, vars, server
<1>7. CASE \E r \in Refreshers : Refresh(r)
  BY <1>1, <1>7 DEF Refresh, RefreshStart, Replace, AdoptJobs, AdoptFailed, JobsAsked, JobsUnavailable,
                    JobsAnswered, Notify, server
<1>8. CASE (\E t \in Installs : Install(t)) \/ (\E t \in Watches : Watch(t))
  BY <1>1, <1>8 DEF Install, StoreJob, TrackAsked, TrackAnswered, TrackLost, TrackTimeout, Watch,
                    WatchFinished, WatchTimeout, server
<1>9. CASE \E t \in Tasks : Outcome(t)
  BY <1>1, <1>9 DEF Outcome, Resolve, Act, AskInstance, InstanceStopped, NotifyFailed, server
<1> QED BY <1>2, <1>3, <1>4, <1>6, <1>7, <1>8, <1>9 DEF Next, TrueNAS

\* The end of a job is recorded by the pass that still finds it tracked.
Records(a) ==
    /\ asked[a] # 0 /\ cur.jobid = asked[a] /\ reply[a] # Active /\ cur'.jobid = 0
    /\ ended' = [ended EXCEPT ![asked[a]] = @ + 1]
    /\ UNCHANGED <<job, restarts>>

LEMMA RecordsOnce ==
  ASSUME TypeOK, NEW a \in Askers, asked[a] # 0, Record(a), UNCHANGED <<job, restarts>>
  PROVE  UNCHANGED ended \/ Records(a)
<1>1. cur' = [cur EXCEPT !.state = reply[a], !.jobid = 0, !.ended = asked[a]] => cur'.jobid = 0
  BY DEF TypeOK, Dict
<1> QED BY <1>1, RecordIs DEF Records

LEMMA EndedStep ==
  ASSUME TypeInv, [Next]_vars
  PROVE  \/ UNCHANGED ended /\ (UNCHANGED restarts \/ Restart)
         \/ \E a \in Askers : Records(a)
<1>1. CASE TrueNAS \/ Restart \/ OtherPush \/ InstallCall \/ UpgradeAccepted \/ UpgradeRefused \/ UNCHANGED vars
  BY <1>1 DEF TrueNAS, ForeignUpgrade, AppChanges, JobEnds, JobForgotten, Restart, OtherPush, InstallCall,
              UpgradeAccepted, UpgradeRefused, vars, seen, ha
<1>2. ASSUME NEW r \in Refreshers, Refresh(r)
      PROVE  \/ UNCHANGED <<ended, restarts>>
             \/ \E a \in Askers : Records(a)
  <2>1. CASE JobsAnswered(r)
    <3>1. r \in Askers /\ asked[r] # 0 /\ Record(r) /\ UNCHANGED <<job, restarts>>
      BY <2>1 DEF JobsAnswered, TypeInv, AskInv, Askers, server, ha
    <3> QED BY <3>1, RecordsOnce DEF TypeInv, JobsAnswered
  <2>2. CASE ~JobsAnswered(r)
    BY <1>2, <2>2 DEF Refresh, RefreshStart, Replace, AdoptJobs, AdoptFailed, JobsAsked, JobsUnavailable,
                      Notify, seen, ha
  <2> QED BY <2>1, <2>2
<1>3. ASSUME NEW t \in Installs, Install(t)
      PROVE  \/ UNCHANGED <<ended, restarts>>
             \/ \E a \in Askers : Records(a)
  <2>1. CASE TrackAnswered(t)
    <3>1. t \in Askers /\ asked[t] # 0 /\ Record(t) /\ UNCHANGED <<job, restarts>>
      BY <2>1 DEF TrackAnswered, TypeInv, AskInv, Askers, server, ha
    <3> QED BY <3>1, RecordsOnce DEF TypeInv
  <2>2. CASE ~TrackAnswered(t)
    BY <1>3, <2>2 DEF Install, StoreJob, TrackAsked, TrackLost, TrackTimeout, seen, ha
  <2> QED BY <2>1, <2>2
<1>4. CASE (\E t \in Watches : Watch(t)) \/ (\E t \in Tasks : Outcome(t))
  BY <1>4 DEF Watch, WatchFinished, WatchTimeout, Outcome, Resolve, Act, AskInstance, InstanceStopped,
              NotifyFailed, seen, ha
<1> QED BY <1>1, <1>2, <1>3, <1>4 DEF Next

LEMMA EndInvStep ==
  ASSUME ~Overtaken, TypeInv, JobInv, EndInv, [Next]_vars
  PROVE  EndInv'
<1>0. /\ TypeOK /\ found \subseteq Jobs /\ ended \in [Jobs -> Nat] /\ restarts \in Nat /\ cur \in Dict
      /\ asked \in [Askers -> JobIds] /\ job \in [Jobs -> {"none", Active} \cup Final]
  BY AppUpgradeAssumption DEF TypeInv, TypeOK
<1>1. found' \subseteq ActiveJobs'
  <2>1. ASSUME NEW j \in found PROVE job'[j] = Active
    <3>1. job[j] = Active /\ j \in Jobs
      BY <2>1 DEF EndInv, ActiveJobs
    <3> QED BY <2>1, <3>1, OnlyEndsSo DEF JobEnds
  <2> QED BY <1>0, <2>1, FoundStep DEF ActiveJobs
<1>2. ASSUME NEW j \in Jobs, pc'[<<j, "install">>] = "reply" PROVE job'[j] = Active
  <2> DEFINE t == <<j, "install">>
  <2>1. CASE pc'[t] = pc[t]
    <3>1. job[j] = Active
      BY <1>2, <2>1 DEF EndInv
    <3> QED BY <1>2, <2>1, <3>1, OnlyEndsSo DEF JobEnds
  <2>2. CASE pc'[t] # pc[t]
    <3>1. Changes(t) /\ t[1] = j /\ t \in Tasks
      BY <2>2, TaskStep, TaskOf
    <3>2. ~Restart
      BY <1>2, <3>1 DEF Restart, Started
    <3> QED BY <1>2, <3>1, <3>2 DEF Changes
  <2> QED BY <2>1, <2>2
<1>3. CASE UNCHANGED ended /\ UNCHANGED restarts
  <2>1. \A j \in Jobs : job'[j] \notin Final => ended'[j] = 0
    BY <1>0, <1>3, JobStep DEF EndInv, MovesOn
  <2>2. cur'.jobid # 0 => ended'[cur'.jobid] <= restarts'
    <3>1. \A j \in Jobs : job[j] = Active => ended[j] <= restarts
      BY <1>0, JobStates DEF EndInv
    <3>2. CASE cur'.jobid \in {cur.jobid, 0} \cup found
      BY <1>0, <1>3, <3>1, <3>2 DEF EndInv, ActiveJobs
    <3>3. CASE \E t \in Installs : pc[t] = "reply" /\ cur'.jobid = t[1]
      BY <1>3, <3>1, <3>3 DEF EndInv, Installs
    <3> QED BY <3>2, <3>3, DictStep, FreshFields DEF From
  <2> QED BY <1>1, <1>2, <1>3, <2>1, <2>2 DEF EndInv, EndRecordedOnce
<1>4. CASE UNCHANGED ended /\ Restart
  <2>1. cur'.jobid = 0 /\ restarts' = restarts + 1 /\ job' = job
    BY <1>4, FreshFields DEF Restart, server
  <2> QED BY <1>0, <1>1, <1>2, <1>4, <2>1 DEF EndInv, EndRecordedOnce
<1>5. ASSUME NEW a \in Askers, Records(a) PROVE EndInv'
  <2>1. asked[a] \in Jobs /\ job[asked[a]] \in Final /\ ended[asked[a]] <= restarts
    BY <1>0, <1>5, JobsAreNat DEF Records, JobInv, EndInv
  <2>2. \A j \in Jobs : ended'[j] = IF j = asked[a] THEN ended[j] + 1 ELSE ended[j]
    BY <1>0, <1>5 DEF Records
  <2>3. job' = job /\ restarts' = restarts /\ cur'.jobid = 0
    BY <1>5 DEF Records
  <2>4. \A j \in Jobs : job'[j] \notin Final => ended'[j] = 0
    BY <2>1, <2>2, <2>3 DEF EndInv
  <2>5. \A j \in Jobs : ended'[j] <= 1 + restarts'
    BY <1>0, <2>1, <2>2, <2>3 DEF EndInv, EndRecordedOnce
  <2> QED BY <1>1, <1>2, <2>3, <2>4, <2>5 DEF EndInv, EndRecordedOnce
<1> QED BY <1>3, <1>4, <1>5, EndedStep

LEMMA EndInit == Init => EndInv
<1> SUFFICES ASSUME Init PROVE EndInv
  OBVIOUS
<1>1. /\ cur.jobid = 0 /\ found = {} /\ job = [j \in Jobs |-> "none"] /\ restarts = 0
      /\ ended = [j \in Jobs |-> 0] /\ pc = [t \in Tasks |-> "none"]
  BY FreshFields DEF Init, Started
<1>2. \A j \in Jobs : pc[<<j, "install">>] = "none"
  BY <1>1, TaskOf
<1> QED BY <1>1, <1>2 DEF EndInv, EndRecordedOnce

LEMMA EndsKnown ==
  ASSUME ~Overtaken
  PROVE  Spec => [](TypeInv /\ JobInv /\ EndInv)
<1>1. Init => TypeInv /\ JobInv /\ EndInv
  BY TypeInit, JobInit, EndInit
<1>2. TypeInv /\ JobInv /\ EndInv /\ [Next]_vars => (TypeInv /\ JobInv /\ EndInv)'
  BY TypeStep, JobInvStep, EndInvStep
<1> QED BY <1>1, <1>2, PTL DEF Spec

\* When no refresh comes between a request's start and the handling of its reply, the end
\* of a job is recorded at most once while Home Assistant runs, by whichever pass, push or
\* install loop hears of it first (async_refresh_app_update_job).
THEOREM EndsRecordedOnce ==
  ASSUME ~Overtaken
  PROVE  Spec => []EndRecordedOnce
<1>1. TypeInv /\ JobInv /\ EndInv => EndRecordedOnce
  BY DEF EndInv
<1> QED BY <1>1, EndsKnown, PTL

-----------------------------------------------------------------------------
(* One task looks after a job.                                               *)

\* The reply about j has been stored.
Stored(j) == pc[<<j, "install">>] \notin {"none", "reply"}

\* An active job installed from here is the one the app tracks, in either dict, and not
\* marked as adopted; so none is adopted while its install runs, and no second install
\* begins.  A late watch takes over from an install that has returned.
LookInv ==
    /\ \A j \in Jobs : Stored(j) /\ job[j] = Active => cur.jobid = j /\ entity.jobid = j
    /\ \A j \in Jobs : Stored(j) => cur.adopted # j /\ entity.adopted # j
    /\ (calling \/ \E t \in Installs : pc[t] = "reply") =>
          \A j \in Jobs : Stored(j) => job[j] # Active
    /\ calling => InFlight = {}
    /\ \A s, t \in InFlight : s = t
    /\ \A j \in Jobs : pc[<<j, "install">>] # "none" => pc[<<j, "adopted">>] = "none"
    /\ \A j \in Jobs : pc[<<j, "own">>] # "none" => pc[<<j, "install">>] = "done"

\* What the entity sees was in its dict or is in the coordinator's, or has just been stored.
EntityFrom ==
    /\ entity'.jobid \in {cur'.jobid, entity.jobid}
    /\ entity'.adopted \in {cur'.adopted, entity.adopted, 0}

\* The tracked job stays tracked until its end is recorded.
TrackedFrom ==
    cur'.jobid = cur.jobid \/ cur.jobid = 0 \/ \E a \in Askers : Records(a)

LEMMA SameData ==
  ASSUME UNCHANGED data \/ UNCHANGED <<cur, old, stale>>
  PROVE  EntityFrom /\ TrackedFrom
  BY DEF EntityFrom, TrackedFrom, entity, data

LEMMA UnmarkedData ==
  ASSUME MayUnmark(cur, cur'), (MayUnmark(old, old') /\ stale' = stale) \/ stale' = FALSE
  PROVE  EntityFrom /\ TrackedFrom
<1>1. CASE stale' = FALSE
  BY <1>1 DEF EntityFrom, TrackedFrom, entity, MayUnmark
<1>2. CASE stale' # FALSE
  BY <1>2 DEF EntityFrom, TrackedFrom, entity, MayUnmark
<1> QED BY <1>1, <1>2

LEMMA CurData ==
  ASSUME old' = old, stale' = stale
  PROVE  EntityFrom
  BY DEF EntityFrom, entity

LEMMA RecordTracks ==
  ASSUME TypeOK, NEW a \in Askers, asked[a] # 0, Record(a), UNCHANGED <<job, restarts>>
  PROVE  TrackedFrom
<1>1. cur' = cur \/ cur' = [cur EXCEPT !.state = Active] => cur'.jobid = cur.jobid
  BY DEF TypeOK, Dict
<1>2. cur' = [cur EXCEPT !.state = reply[a], !.jobid = 0, !.ended = asked[a]] => cur'.jobid = 0
  BY DEF TypeOK, Dict
<1> QED BY <1>1, <1>2, RecordIs DEF TrackedFrom, Records

LEMMA DataStep ==
  ASSUME TypeInv, [Next]_vars
  PROVE  \/ Restart
         \/ \E t \in Installs : StoreJob(t)
         \/ EntityFrom /\ TrackedFrom
<1>0. TypeOK /\ cur \in Dict
  BY DEF TypeInv, TypeOK
<1>1. CASE UNCHANGED vars \/ TrueNAS \/ InstallCall \/ UpgradeAccepted
  BY <1>1, SameData DEF vars, TrueNAS, ForeignUpgrade, AppChanges, JobEnds, JobForgotten, InstallCall,
                        UpgradeAccepted
<1>2. CASE OtherPush
  BY <1>0, <1>2, ListenersUnmark, UnmarkedData DEF OtherPush
<1>3. ASSUME NEW r \in Refreshers, Refresh(r)
      PROVE  EntityFrom /\ TrackedFrom
  <2>1. CASE RefreshStart(r) \/ AdoptFailed(r) \/ JobsAsked(r) \/ JobsUnavailable(r)
    BY <2>1, SameData DEF RefreshStart, AdoptFailed, JobsAsked, JobsUnavailable
  <2>2. CASE Replace(r)
    <3>1. MayUnmark(cur, cur') /\ (stale' = FALSE \/ (~stale /\ old' = cur) \/ (stale /\ old' = old))
      <4>1. cur' = [cur EXCEPT !.shown = app]
        BY <2>2 DEF Replace
      <4>2. MayUnmark(cur, cur')
        BY <1>0, <4>1 DEF MayUnmark, Dict
      <4> QED BY <2>2, <4>2 DEF Replace
    <3>2. TrackedFrom
      BY <3>1 DEF MayUnmark, TrackedFrom
    <3>3. EntityFrom
      BY <3>1 DEF MayUnmark, EntityFrom, entity
    <3> QED BY <3>2, <3>3
  <2>3. CASE AdoptJobs(r)
    <3>1. cur' = Adopted(cur) /\ old' = old /\ stale' = stale
      BY <2>3 DEF AdoptJobs
    <3>2. cur' = cur \/ cur.jobid = 0
      BY <1>0, <3>1, AdoptedIs
    <3> QED BY <3>1, <3>2, CurData DEF TrackedFrom
  <2>4. CASE JobsAnswered(r)
    <3>1. /\ Record(r) /\ asked[r] # 0 /\ r \in Askers /\ old' = old /\ stale' = stale
          /\ UNCHANGED <<job, restarts>>
      BY <2>4 DEF JobsAnswered, TypeInv, AskInv, Askers, server, ha
    <3>2. TrackedFrom
      BY <1>0, <3>1, RecordTracks
    <3> QED BY <3>1, <3>2, CurData
  <2>5. CASE Notify(r)
    BY <1>0, <2>5, ListenersUnmark, UnmarkedData DEF Notify
  <2> QED BY <1>3, <2>1, <2>2, <2>3, <2>4, <2>5 DEF Refresh
<1>4. CASE UpgradeRefused
  <2>1. WatchAdopted(InFlight # {}, pc) /\ (InFlight # {}) \in BOOLEAN
    BY <1>4 DEF UpgradeRefused
  <2> QED BY <1>0, <2>1, WatchAdoptedUnmarks, UnmarkedData
<1>5. ASSUME NEW t \in Installs, Install(t)
      PROVE  StoreJob(t) \/ (EntityFrom /\ TrackedFrom)
  <2>0. t \in Tasks /\ t \in Askers
    BY DEF Installs, Tasks, Askers
  <2>1. CASE TrackAsked(t) \/ TrackLost(t)
    BY <2>1, SameData DEF TrackAsked, TrackLost
  <2>2. CASE TrackAnswered(t)
    <3>1. /\ Record(t) /\ asked[t] # 0 /\ old' = old /\ stale' = stale
          /\ UNCHANGED <<job, restarts>>
      BY <2>2 DEF TrackAnswered, TypeInv, AskInv, server, ha
    <3>2. TrackedFrom
      BY <1>0, <2>0, <3>1, RecordTracks
    <3> QED BY <3>1, <3>2, CurData
  <2>3. CASE TrackTimeout(t)
    BY <1>0, <2>0, <2>3, TimeoutReturns, FinishUnmarks, UnmarkedData
  <2> QED BY <1>5, <2>1, <2>2, <2>3 DEF Install
<1>6. ASSUME NEW t \in Tasks, Watch(t) \/ Outcome(t)
      PROVE  EntityFrom /\ TrackedFrom
  <2>1. CASE Watch(t) \/ Resolve(t) \/ AskInstance(t) \/ InstanceStopped(t)
    BY <2>1, SameData DEF Watch, WatchFinished, WatchTimeout, Resolve, AskInstance, InstanceStopped
  <2>2. CASE Act(t) \/ NotifyFailed(t)
    <3>1. Finish(t)
      BY <2>2 DEF Act, NotifyFailed
    <3> QED BY <1>0, <3>1, FinishUnmarks, UnmarkedData
  <2> QED BY <1>6, <2>1, <2>2 DEF Outcome
<1> QED BY <1>1, <1>2, <1>3, <1>4, <1>5, <1>6 DEF Next, Watches, Tasks

LEMMA InstallOf ==
  ASSUME NEW j \in Jobs
  PROVE  /\ <<j, "install">> \in Installs /\ <<j, "install">> \in Tasks
         /\ <<j, "install">>[1] = j /\ <<j, "install">>[2] = "install"
  BY DEF Installs, Tasks

LEMMA StoredStep ==
  ASSUME TypeInv, [Next]_vars, NEW j \in Jobs, Stored(j)'
  PROVE  ~Restart /\ (Stored(j) \/ StoreJob(<<j, "install">>))
<1> DEFINE t == <<j, "install">>
<1>1. t \in Tasks /\ t[2] = "install" /\ pc'[t] \notin {"none", "reply"}
  BY InstallOf DEF Stored
<1>2. ~Restart
  BY <1>1 DEF Restart, Started
<1>3. CASE pc'[t] = pc[t]
  BY <1>1, <1>2, <1>3 DEF Stored
<1>4. CASE pc'[t] # pc[t]
  <2>1. Changes(t)
    BY <1>1, <1>4, TaskStep
  <2>2. Underway(t) => Stored(j)
    BY DEF Underway, Busy, Stored
  <2> HIDE DEF t
  <2>3. StoreJob(t) \/ Underway(t)
    BY <1>1, <1>2, <2>1 DEF Changes
  <2> QED BY <1>2, <2>2, <2>3 DEF t
<1> QED BY <1>3, <1>4

LEMMA InFlightStep ==
  ASSUME TypeInv, [Next]_vars, NEW t \in InFlight', ~UpgradeAccepted
  PROVE  t \in InFlight
<1>1. t \in Installs /\ t \in Tasks /\ t[2] = "install" /\ pc'[t] \notin {"none", "done", "gaveup"}
  BY TaskShape DEF InFlight, Busy, Installs, Tasks
<1>2. CASE pc'[t] = pc[t]
  BY <1>1, <1>2 DEF InFlight, Busy
<1>3. CASE pc'[t] # pc[t]
  <2>1. Changes(t) /\ ~Restart
    BY <1>1, <1>3, TaskStep DEF Restart, Started
  <2>2. StoreJob(t) \/ Underway(t)
    BY <1>1, <2>1 DEF Changes
  <2> QED BY <1>1, <2>2 DEF StoreJob, Underway, Busy, InFlight
<1> QED BY <1>2, <1>3

LEMMA CallingStep ==
  ASSUME [Next]_vars, calling'
  PROVE  InstallCall \/ (calling /\ ~UpgradeAccepted)
<1>1. CASE calling' = calling
  BY <1>1 DEF UpgradeAccepted
<1>2. CASE Restart \/ UpgradeAccepted \/ UpgradeRefused
  BY <1>2 DEF Restart, UpgradeAccepted, UpgradeRefused
<1>3. CASE TrueNAS \/ OtherPush \/ UNCHANGED vars
  BY <1>1, <1>3 DEF TrueNAS, ForeignUpgrade, AppChanges, JobEnds, JobForgotten, OtherPush, vars, tasks
<1>4. CASE \E r \in Refreshers : Refresh(r)
  BY <1>1, <1>4 DEF Refresh, RefreshStart, Replace, AdoptJobs, AdoptFailed, JobsAsked, JobsUnavailable,
                    JobsAnswered, Notify, tasks
<1>5. CASE (\E t \in Installs : Install(t)) \/ (\E t \in Watches : Watch(t))
  BY <1>1, <1>5 DEF Install, StoreJob, TrackAsked, TrackAnswered, TrackLost, TrackTimeout, Watch,
                    WatchFinished, WatchTimeout
<1>6. CASE \E t \in Tasks : Outcome(t)
  BY <1>1, <1>6 DEF Outcome, Resolve, Act, AskInstance, InstanceStopped, NotifyFailed
<1> QED BY <1>2, <1>3, <1>4, <1>5, <1>6 DEF Next

\* While a request is on its way, no other job installed from here is active; and the one
\* that asks is the only install.
LEMMA OneCall ==
  ASSUME OneInstall, TypeInv, JobInv, LookInv, [Next]_vars
  PROVE  /\ calling' => InFlight' = {}
         /\ \A s, t \in InFlight' : s = t
<1>1. ASSUME calling' PROVE InFlight' = {}
  <2>1. CASE InstallCall
    BY <2>1 DEF InstallCall, InFlight, Busy
  <2>2. CASE calling /\ ~UpgradeAccepted
    BY <2>2, InFlightStep DEF LookInv
  <2> QED BY <1>1, <2>1, <2>2, CallingStep
<1>2. ASSUME NEW s \in InFlight', NEW t \in InFlight' PROVE s = t
  <2>1. CASE UpgradeAccepted
    <3>1. PICK j \in NewJobs : pc' = [pc EXCEPT ![<<j, "install">>] = "reply"]
      BY <2>1 DEF UpgradeAccepted
    <3>2. InFlight = {}
      BY <2>1 DEF UpgradeAccepted, LookInv
    <3>3. ASSUME NEW u \in InFlight' PROVE u = <<j, "install">>
      <4>1. u \in Installs /\ u \in Tasks /\ Busy(u)' /\ ~Busy(u)
        BY <3>2 DEF InFlight, Installs, Tasks
      <4> QED BY <3>1, <4>1 DEF Busy, TypeInv, TypeOK
    <3> QED BY <3>3
  <2>2. CASE ~UpgradeAccepted
    BY <2>2, InFlightStep DEF LookInv
  <2> QED BY <2>1, <2>2
<1> QED BY <1>1, <1>2

LEMMA NoRival ==
  ASSUME OneInstall, TypeInv, JobInv, LookInv, [Next]_vars,
         calling' \/ \E t \in Installs : pc'[t] = "reply",
         NEW j \in Jobs, Stored(j)'
  PROVE  job'[j] # Active
<1> DEFINE i == <<j, "install">>
<1>0. /\ job \in [Jobs -> {"none", Active} \cup Final] /\ i \in Installs /\ i \in Tasks
      /\ ~Restart /\ (Stored(j) \/ StoreJob(i))
  BY InstallOf, StoredStep DEF TypeInv, TypeOK
<1>1. CASE InstallCall
  <2>1. UNCHANGED <<pc, job>> /\ entity.jobid = 0
    BY <1>1 DEF InstallCall, server
  <2>2. Stored(j)
    BY <2>1 DEF Stored
  <2> QED BY <2>1, <2>2, JobsAreNat DEF LookInv
<1>2. CASE ~InstallCall
  <2>1. calling \/ \E t \in Installs : pc[t] = "reply" /\ pc'[t] = "reply"
    <3>1. CASE calling'
      BY <1>2, <3>1, CallingStep
    <3>2. ASSUME NEW t \in Installs, pc'[t] = "reply", pc[t] # "reply" PROVE calling
      <4>1. Changes(t) /\ t[2] = "install"
        BY <3>2, TaskStep, TaskShape DEF Installs, Tasks
      <4>2. UpgradeAccepted
        BY <1>0, <3>2, <4>1 DEF Changes
      <4> QED BY <4>2 DEF UpgradeAccepted
    <3> QED BY <3>1, <3>2
  <2>2. Stored(j)
    <3>1. CASE StoreJob(i)
      <4>1. pc[i] = "reply" /\ pc'[i] # "reply"
        BY <1>0, <3>1 DEF StoreJob, TypeInv, TypeOK
      <4>2. i \in InFlight
        BY <1>0, <4>1 DEF InFlight, Busy
      <4>3. \A t \in Installs : pc[t] = "reply" => t \in InFlight
        BY DEF InFlight, Busy
      <4> HIDE DEF i
      <4> QED BY <2>1, <4>1, <4>2, <4>3 DEF LookInv
    <3> QED BY <1>0, <3>1
  <2>3. job[j] # Active
    BY <2>1, <2>2 DEF LookInv
  <2>4. job[j] # "none"
    BY <1>0, <2>2 DEF JobInv, Stored
  <2> QED BY <1>0, <2>3, <2>4, JobStep, JobStates DEF MovesOn
<1> QED BY <1>1, <1>2

LEMMA InstalledTracked ==
  ASSUME ~Overtaken, TypeInv, JobInv, LookInv, [Next]_vars,
         NEW j \in Jobs, Stored(j)', job'[j] = Active
  PROVE  cur'.jobid = j /\ entity'.jobid = j
<1> DEFINE i == <<j, "install">>
<1>0. /\ job \in [Jobs -> {"none", Active} \cup Final] /\ cur \in Dict /\ TypeOK /\ j # 0
      /\ i \in Installs /\ i \in Tasks /\ i[1] = j /\ ~Restart /\ (Stored(j) \/ StoreJob(i))
  BY InstallOf, StoredStep, JobsAreNat DEF TypeInv, TypeOK
<1>1. CASE StoreJob(i)
  <2>1. ~stale /\ ~stale' /\ cur' = [cur EXCEPT !.jobid = j, !.state = Active, !.adopted = IF @ = j THEN 0 ELSE @]
    BY <1>0, <1>1, StoredIs DEF StoreJob
  <2> QED BY <1>0, <2>1 DEF entity, Dict
<1>2. CASE Stored(j)
  <2>1. job[j] = Active
    <3>1. job[j] # "none"
      BY <1>0, <1>2 DEF JobInv, Stored
    <3> QED BY <1>0, <3>1, JobStep, JobStates DEF MovesOn
  <2>2. cur.jobid = j /\ entity.jobid = j /\ \A t \in Installs : pc[t] # "reply"
    BY <1>2, <2>1 DEF LookInv
  <2>3. EntityFrom /\ TrackedFrom
    BY <1>0, <2>2, DataStep DEF StoreJob
  <2>4. ASSUME NEW a \in Askers, Records(a) PROVE FALSE
    <3>1. asked[a] = j /\ reply[a] # Active
      BY <2>2, <2>4 DEF Records
    <3> QED BY <1>0, <2>1, <3>1, JobStates DEF JobInv
  <2> QED BY <1>0, <2>2, <2>3, <2>4 DEF EntityFrom, TrackedFrom
<1> QED BY <1>0, <1>1, <1>2

\* Storing the reply drops the marker an adoption may have left for the job; and a later
\* adoption finds only active jobs, when none of them is tracked.
LEMMA InstalledUnmarked ==
  ASSUME ~Overtaken, TypeInv, EndInv, LookInv, [Next]_vars, NEW j \in Jobs, Stored(j)'
  PROVE  cur'.adopted # j /\ entity'.adopted # j
<1> DEFINE i == <<j, "install">>
<1>0. /\ cur \in Dict /\ TypeOK /\ j # 0 /\ ~Restart /\ (Stored(j) \/ StoreJob(i))
  BY StoredStep, JobsAreNat DEF TypeInv, TypeOK
<1>1. Stored(j) => cur.adopted # j /\ entity.adopted # j
  BY DEF LookInv
<1>2. ASSUME NEW t \in Installs, StoreJob(t) PROVE cur'.adopted # j /\ entity'.adopted # j
  <2>1. /\ ~stale /\ ~stale'
        /\ cur' = [cur EXCEPT !.jobid = t[1], !.state = Active, !.adopted = IF @ = t[1] THEN 0 ELSE @]
    BY <1>0, <1>2, StoredIs DEF StoreJob
  <2>2. entity' = cur' /\ cur'.adopted = IF cur.adopted = t[1] THEN 0 ELSE cur.adopted
    BY <1>0, <2>1 DEF entity, Dict
  <2>3. CASE t[1] = j
    BY <1>0, <2>2, <2>3
  <2>4. CASE t[1] # j
    <3>1. Stored(j)
      <4>1. t # i /\ pc \in [Tasks -> TaskPCs] /\ i \in Tasks
        BY <2>4, InstallOf DEF TypeInv, TypeOK
      <4>2. pc'[i] = pc[i]
        BY <1>2, <4>1 DEF StoreJob
      <4> QED BY <4>2 DEF Stored
    <3> QED BY <1>0, <1>1, <2>2, <3>1
  <2> QED BY <2>3, <2>4
<1>3. CASE \A t \in Installs : ~StoreJob(t)
  <2>1. Stored(j) /\ EntityFrom
    BY <1>0, <1>3, DataStep, InstallOf
  <2>2. cur'.adopted # j
    <3>1. CASE cur'.adopted \in found /\ cur.jobid = 0
      BY <1>0, <2>1, <3>1 DEF EndInv, ActiveJobs, LookInv
    <3>2. CASE cur'.adopted \in {cur.adopted, 0}
      BY <1>0, <1>1, <2>1, <3>2
    <3> QED BY <1>0, <3>1, <3>2, DictStep, FreshFields DEF From
  <2> QED BY <1>0, <1>1, <2>1, <2>2 DEF EntityFrom
<1> QED BY <1>2, <1>3

\* A job is not both installed from here and adopted.
LEMMA NotAdoptedToo ==
  ASSUME TypeInv, JobInv, LookInv, [Next]_vars, NEW j \in Jobs, pc'[<<j, "install">>] # "none"
  PROVE  pc'[<<j, "adopted">>] = "none"
<1> DEFINE i == <<j, "install">>
           d == <<j, "adopted">>
<1>0. /\ i \in Tasks /\ d \in Tasks /\ i[1] = j /\ i[2] = "install" /\ d[1] = j /\ d[2] = "adopted"
      /\ job \in [Jobs -> {"none", Active} \cup Final]
  BY TaskOf DEF TypeInv, TypeOK
<1>1. ~Restart
  BY <1>0 DEF Restart, Started
<1>2. /\ pc[i] # "none" => pc[d] = "none"
      /\ pc[i] \notin {"none", "reply"} => cur.adopted # j /\ entity.adopted # j
  BY DEF LookInv, Stored
<1>3. pc[d] # "none" => job[j] # "none"
  BY <1>0 DEF JobInv
<1>4. pc'[i] # pc[i] => Changes(i)
  BY <1>0, TaskStep
<1>5. pc'[d] # pc[d] => Changes(d)
  BY <1>0, TaskStep
<1>6. i \in Installs
  BY InstallOf
<1> SUFFICES ASSUME pc'[d] # "none" PROVE FALSE
  OBVIOUS
<1> HIDE DEF i, d
<1>7. CASE pc[d] # "none"
  <2>1. pc[i] = "none" /\ Changes(i)
    BY <1>2, <1>4, <1>7 DEF i
  <2> QED BY <1>0, <1>1, <1>3, <1>7, <2>1 DEF Changes, StoreJob, Underway, Busy
<1>8. CASE pc[d] = "none"
  <2>1. j \in {cur.adopted, entity.adopted} /\ pc[i] # "reply" /\ UNCHANGED job
    BY <1>0, <1>1, <1>5, <1>6, <1>8 DEF Changes, Underway, Busy, Installs
  <2>2. pc[i] = "none" /\ Changes(i)
    BY <1>2, <1>4, <2>1 DEF i
  <2> QED BY <1>0, <1>1, <2>1, <2>2, JobStates DEF Changes, StoreJob, Underway, Busy
<1> QED BY <1>7, <1>8

\* A late watch takes over from an install that has timed out.
LEMMA WatchTakesOver ==
  ASSUME TypeInv, JobInv, LookInv, [Next]_vars, NEW j \in Jobs, pc'[<<j, "own">>] # "none"
  PROVE  pc'[<<j, "install">>] = "done"
<1> DEFINE i == <<j, "install">>
           w == <<j, "own">>
<1>0. /\ i \in Tasks /\ w \in Tasks /\ i[1] = j /\ i[2] = "install" /\ w[1] = j /\ w[2] = "own"
  BY TaskOf
<1>1. ~Restart
  BY <1>0 DEF Restart, Started
<1>2. CASE pc[w] # "none"
  <2>1. pc[i] = "done" /\ job[j] # "none"
    BY <1>0, <1>2 DEF LookInv, JobInv
  <2>2. pc'[i] # pc[i] => Changes(i)
    BY <1>0, TaskStep
  <2> HIDE DEF i, w
  <2>3. ~Changes(i)
    BY <1>0, <1>1, <2>1 DEF Changes, StoreJob, Underway, Busy
  <2> QED BY <2>1, <2>2, <2>3 DEF i
<1>3. CASE pc[w] = "none"
  <2>1. Changes(w)
    BY <1>0, <1>3, TaskStep
  <2>2. w \notin Installs
    BY DEF Installs
  <2> HIDE DEF w
  <2>3. pc'[<<w[1], "install">>] = "done"
    BY <1>0, <1>1, <1>3, <2>1, <2>2 DEF Changes, Underway, Busy
  <2> QED BY <1>0, <2>3
<1> QED BY <1>2, <1>3

LEMMA LookInvStep ==
  ASSUME OneInstall, ~Overtaken, TypeInv, JobInv, EndInv, LookInv, [Next]_vars
  PROVE  LookInv'
<1>1. \A j \in Jobs : Stored(j)' /\ job'[j] = Active => cur'.jobid = j /\ entity'.jobid = j
  BY InstalledTracked
<1>2. \A j \in Jobs : Stored(j)' => cur'.adopted # j /\ entity'.adopted # j
  BY InstalledUnmarked
<1>3. (calling' \/ \E t \in Installs : pc'[t] = "reply") => \A j \in Jobs : Stored(j)' => job'[j] # Active
  BY NoRival
<1>4. (calling' => InFlight' = {}) /\ \A s, t \in InFlight' : s = t
  BY OneCall
<1>5. \A j \in Jobs : pc'[<<j, "install">>] # "none" => pc'[<<j, "adopted">>] = "none"
  BY NotAdoptedToo
<1>6. \A j \in Jobs : pc'[<<j, "own">>] # "none" => pc'[<<j, "install">>] = "done"
  BY WatchTakesOver
<1> QED BY <1>1, <1>2, <1>3, <1>4, <1>5, <1>6 DEF LookInv

LEMMA LookInit == Init => LookInv
<1> SUFFICES ASSUME Init PROVE LookInv
  OBVIOUS
<1>1. ~calling /\ pc = [t \in Tasks |-> "none"]
  BY DEF Init, Started
<1>2. \A j \in Jobs : pc[<<j, "install">>] = "none" /\ pc[<<j, "own">>] = "none"
  BY <1>1, TaskOf
<1>3. InFlight = {} /\ \A t \in Installs : pc[t] = "none"
  BY <1>1 DEF InFlight, Busy, Installs, Tasks
<1>4. \A j \in Jobs : ~Stored(j)
  BY <1>2 DEF Stored
<1> QED BY <1>1, <1>2, <1>3, <1>4 DEF LookInv

\* While no second install begins before the first has returned, and no refresh comes
\* between a request and the handling of its reply, a job is looked after by one task at a
\* time: an upgrade installed from Home Assistant is never also watched as an adopted one,
\* and its late watch follows its install (_watch_adopted_upgrade, async_install).
THEOREM OneLooksAfter ==
  ASSUME OneInstall, ~Overtaken
  PROVE  Spec => []LookedAfterOnce
<1>1. Init => TypeInv /\ JobInv /\ EndInv /\ LookInv
  BY TypeInit, JobInit, EndInit, LookInit
<1>2. TypeInv /\ JobInv /\ EndInv /\ LookInv /\ [Next]_vars => (TypeInv /\ JobInv /\ EndInv /\ LookInv)'
  BY TypeStep, JobInvStep, EndInvStep, LookInvStep
<1>3. LookInv => LookedAfterOnce
  <2> SUFFICES ASSUME LookInv, NEW s \in Tasks, NEW t \in Tasks, s[1] = t[1], Busy(s), Busy(t)
               PROVE  s = t
    BY DEF LookedAfterOnce
  <2>1. /\ s = <<s[1], s[2]>> /\ t = <<s[1], t[2]>> /\ s[1] \in Jobs
        /\ {s[2], t[2]} \subseteq {"install", "own", "adopted"}
    BY TaskShape
  <2> DEFINE j == s[1]
  <2>2. /\ pc[<<j, "install">>] # "none" => pc[<<j, "adopted">>] = "none"
        /\ pc[<<j, "own">>] # "none" => pc[<<j, "install">>] = "done"
    BY <2>1 DEF LookInv
  <2>3. pc[s] \notin {"none", "done"} /\ pc[t] \notin {"none", "done"}
    BY DEF Busy
  <2>4. CASE s[2] = t[2]
    BY <2>1, <2>4
  <2>5. CASE s[2] # t[2]
    BY <2>1, <2>2, <2>3, <2>5
  <2> QED BY <2>4, <2>5
<1> QED BY <1>1, <1>2, <1>3, PTL DEF Spec

=============================================================================
