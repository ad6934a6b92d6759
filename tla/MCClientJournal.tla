--------------------------- MODULE MCClientJournal ---------------------------
(***************************************************************************)
(* Small instances of the client's journal: a client that submits at most  *)
(* two proposals.                                                          *)
(***************************************************************************)
EXTENDS ClientJournal

CONSTANTS p1, p2

MCProposals == {p1, p2}

=============================================================================
