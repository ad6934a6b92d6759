----------------------------- MODULE MCClientRoom -----------------------------
(***************************************************************************)
(* A small room at a client: two events, a queue of one entry and          *)
(* pages of one event, so that gaps, overflows and second pages happen.    *)
(***************************************************************************)
EXTENDS ClientRoom
=============================================================================
