----------------------------- MODULE MCPeerTable -----------------------------
(***************************************************************************)
(* Three remote peers, of which two may become nodes, and every limit at   *)
(* its smallest: one member, one pending leaf, one node, one known id.     *)
(***************************************************************************)
EXTENDS PeerTable, TLC
CONSTANTS a, b, n
MCIds == {a, b, n}
MCNodes == {b, n}
Symmetry == Permutations(MCNodes)
=============================================================================
