--------------------------- MODULE MCLocalAuthSync ---------------------------
(***************************************************************************)
(* LocalAuthSync with one panel operation at a time, or with two.           *)
(***************************************************************************)
EXTENDS LocalAuthSync

CONSTANTS w1, w2
=============================================================================
