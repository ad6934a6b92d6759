--------------------------- MODULE MCIdentitySwap ----------------------------
(***************************************************************************)
(* Four keys: the first one and three resets.                              *)
(***************************************************************************)
EXTENDS IdentitySwap
=============================================================================
