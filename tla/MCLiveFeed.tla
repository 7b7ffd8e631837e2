----------------------------- MODULE MCLiveFeed -----------------------------
(***************************************************************************)
(* Instances of LiveFeed for TLC.                                          *)
(***************************************************************************)
EXTENDS LiveFeed

CONSTANTS m1, m2, v1, k1, k2, k3, k4

OneViewer == (v1 :> m1)
=============================================================================
