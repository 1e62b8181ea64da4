------------------------------- MODULE AppStats -------------------------------
(***************************************************************************)
(* The apps' statistics: what TrueNAS pushes on app.stats is buffered by   *)
(* the API and read by each poll into ds["app_stats"] (coordinator.py,     *)
(* get_app_stats and what it calls).  An app that stops keeps its network  *)
(* interfaces as stale stubs, from which sensors are made and kept.        *)
(*                                                                         *)
(* The interval in the event's name is an option, and a changed option     *)
(* makes a new coordinator, so one event name is enough here.              *)
(***************************************************************************)
CONSTANTS
  Apps,
  AppStates  \* what may become of an app: absent, stopped, running

ASSUME AppStatesAssumption == AppStates \subseteq {"absent", "stopped", "running"}

VARIABLES
  apps,      \* the apps on the NAS: absent, stopped or running
  sub,       \* _app_stats_sub_id is set and is_subscribed
  app,       \* ds["app"]
  stats,     \* ds["app_stats"]: no entry, one without interfaces, with live, with stale ones
  monitored  \* the containers group is monitored

statsVars == <<sub, app, stats>>

NoStats == [a \in Apps |-> "none"]
WithInterfaces == {a \in Apps : stats[a] \in {"live", "stale"}}

\* Mutant: a stopped app's interfaces are dropped.
UpsertedBare(was, hasTraffic) == IF hasTraffic THEN "live" ELSE "bare"

Upserted(was, hasTraffic) ==
  IF hasTraffic THEN "live" ELSE IF was \in {"live", "stale"} THEN "stale" ELSE "bare"

\* One message tells of every app that is there; a stopped one has no traffic.
Processed(s) ==
  [a \in Apps |-> IF apps[a] = "absent" THEN s[a] ELSE Upserted(s[a], apps[a] = "running")]

Pruned(s, current) == [a \in Apps |-> IF a \in current THEN s[a] ELSE "none"]

KnownAppNames == IF monitored THEN app ELSE {}

\* A job whose query fails leaves ds["app"]; TrueNAS may answer with nothing for a moment.
GetApp(fault) ==
  app' = CASE fault = "app_fails" -> app
           [] fault = "app_empty" -> {}
           [] OTHER -> {a \in Apps : apps[a] # "absent"}

\* Mutant: a lost subscription is not made again.
SubscriptionKept(fault) == UNCHANGED sub

\* start_app_stats subscribes if there is no subscription, or TrueNAS knows it no more.
SubscriptionEnsured(fault) == sub' = (sub \/ fault # "stats_fails")

\* get_app_stats, after get_app.  A subscription made before has a message to read, as
\* TrueNAS sends one in each poll interval, unless that one is late.
GetAppStats(fault) ==
  \/ /\ ~monitored'
     /\ sub' = FALSE /\ stats' = NoStats
  \/ /\ monitored' /\ app' = {}
     /\ stats' = NoStats
     /\ UNCHANGED sub
  \/ /\ monitored' /\ app' # {}
     /\ SubscriptionEnsured(fault)
     /\ stats' = CASE fault = "stats_fails" -> stats
                   [] sub /\ fault # "late_sample" -> Pruned(Processed(stats), app')
                   [] OTHER -> Pruned(stats, app')

StopAppStats == sub' = FALSE /\ UNCHANGED <<app, stats>>
=============================================================================
