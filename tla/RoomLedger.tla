------------------------------ MODULE RoomLedger ------------------------------
(***************************************************************************)
(* What a room promises, as a client sees it: one append-only history of   *)
(* distinct proposals, each of them allowed by the state its predecessors  *)
(* lead to under the rules of the client's own Projection.  Handlers,      *)
(* nonces, snapshots, crashes and clocks are absent; module Sequencer is   *)
(* shown to implement this one.                                            *)
(***************************************************************************)
EXTENDS RoomRules, Sequences

CONSTANT
    Proposals       \* Signed proposals; each has an author and a body.

VARIABLES
    log,            \* The proposals of the history, in order.
    projected       \* The room state a Projection derives from log.

ledgerVars == <<log, projected>>

LedgerInit == log = <<>> /\ projected = GenesisRoom

\* Projection.Apply: Prepare validates the next event against the head and the
\* derived state, Commit advances both.
Extend(p) ==
    /\ \A i \in DOMAIN log : log[i] # p
    /\ ProjectionAuthorizes(projected, p.author, p.body)
    /\ ProjectionVerdict(projected, p.body) = "ok"
    /\ log' = Append(log, p)
    /\ projected' = ProjectionEffect(projected, Len(log) + 1, p.body)

LedgerNext == \E p \in Proposals : Extend(p)

LedgerSpec == LedgerInit /\ [][LedgerNext]_ledgerVars
=============================================================================
