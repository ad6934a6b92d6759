----------------------------- MODULE MCSequencer -----------------------------
(***************************************************************************)
(* Small instances of the sequencer.  Race... is a room of one owner and   *)
(* two writers whose submissions collide in time; Rules... is a room whose *)
(* owner delegates roles, at the limits of one admin, one moderator and    *)
(* one pin.                                                                *)
(***************************************************************************)
EXTENDS SequencerProperties, TLC

CONSTANTS o, a, b,              \* Keys: the owner and two others.
          n1, n2, n3, n4, n5,   \* Nonces.
          h1, h2                \* Handlers.

MCKeys == {o, a, b}
MCNames == {"club", "lounge"}
MCNonces == {n1, n2, n3, n4, n5}
TwoHandlers == {h1, h2}
OneHandler == {h1}
NoAdmins == {}
HandlerSymmetry == Permutations(TwoHandlers)

Message == [type |-> "message"]
Policy(flag) == [type |-> "write_policy", anyone |-> flag]
Metadata(name) == [type |-> "metadata", name |-> name]
OnMessage(type, id) == [type |-> type, message |-> id]
OnRole(type, key) == [type |-> type, subject |-> key]

Submission(author, nonce, time, claim, body) ==
    [author |-> author, claim |-> claim, nonce |-> nonce, timestamp |-> time,
     authentic |-> TRUE, body |-> body]

\* A nonce used again when its retention ends (it is also the nonce of a
\* proposal whose author loses the right to write), a domain claim, a change
\* of the write policy, and a forged proposal.
RaceProposals == {
    Submission(a, n1, 0, FALSE, Message),
    Submission(a, n1, 3, TRUE, Message),
    Submission(b, n2, 2, TRUE, Message),
    Submission(o, n3, 1, FALSE, Policy(FALSE)),
    [Submission(o, n1, 1, FALSE, Message) EXCEPT !.authentic = FALSE]}

\* Every body type, each by someone who may send it in some state of the room
\* and not in another.
RulesProposals == {
    Submission(o, n1, 0, FALSE, OnRole("admin_grant", a)),
    Submission(o, n2, 0, FALSE, OnRole("admin_grant", b)),
    Submission(o, n3, 0, FALSE, OnRole("admin_revoke", a)),
    Submission(o, n4, 0, FALSE, Policy(FALSE)),
    Submission(a, n1, 0, FALSE, OnRole("moderator_grant", b)),
    Submission(a, n2, 0, FALSE, OnRole("moderator_revoke", b)),
    Submission(a, n3, 0, FALSE, Metadata("lounge")),
    Submission(b, n1, 0, FALSE, Message),
    Submission(b, n2, 0, FALSE, OnMessage("pin", 1)),
    Submission(b, n3, 0, FALSE, OnMessage("unpin", 1)),
    Submission(b, n4, 0, FALSE, Message),
    Submission(o, n5, 0, FALSE, OnMessage("pin", 2))}

=============================================================================
