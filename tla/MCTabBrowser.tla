---------------------------- MODULE MCTabBrowser ----------------------------
(***************************************************************************)
(* Three calls: one works, one waits for the tab, one launches; and        *)
(* Chromes enough for a launch, a recovery and a spoilt launch.            *)
(***************************************************************************)
EXTENDS TabBrowser

CONSTANTS t1, t2, t3

=============================================================================
