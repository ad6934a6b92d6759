---------------------------- MODULE MCReplication ----------------------------
(***************************************************************************)
(* Small instances of the relays: two relays and one sequencer.            *)
(***************************************************************************)
EXTENDS Replication, TLC

CONSTANTS r1, r2, s

MCRelays == {r1, r2}
RelaySymmetry == Permutations(MCRelays)

=============================================================================
