------------------------- MODULE MCTrafficAccounting -------------------------
(***************************************************************************)
(* TrafficAccounting with one sync, or with two that overlap.               *)
(***************************************************************************)
EXTENDS TrafficAccounting

CONSTANTS s1, s2, hb1
=============================================================================
