--------------------------- MODULE MCBrowserPool ---------------------------
(***************************************************************************)
(* Three tasks for two permits, so that one waits while two find the same  *)
(* dead browser, and Chromes enough for each of these to relaunch.         *)
(***************************************************************************)
EXTENDS BrowserPool

CONSTANTS t1, t2, t3

=============================================================================
