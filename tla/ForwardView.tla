---------------------------- MODULE ForwardView -----------------------------
(* What a pushed data source promises its entities: the data shown is some   *)
(* version the server had, and it never goes back to an older one, however   *)
(* many polls and pushes refresh it at once.                                 *)
EXTENDS Naturals

VARIABLES
    srv,    \* version of the data on the server
    view    \* version the entities are shown

vars == <<srv, view>>

Init == srv = 0 /\ view = 0

Change == srv' = srv + 1 /\ view' = view

Show == view' \in view..srv /\ srv' = srv

Next == Change \/ Show

Spec == Init /\ [][Next]_vars
=============================================================================
