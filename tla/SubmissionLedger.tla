---------------------------- MODULE SubmissionLedger ----------------------------
(***************************************************************************)
(* What a client promises its user about the events he submits: one is     *)
(* pending at a time, it can be committed at most once and only while it   *)
(* is pending or after it was discarded, and he is told that it was        *)
(* committed when his own copy of the history has it, that it was rejected *)
(* when it never will be, and otherwise that he can try again.  Queries,   *)
(* attempts, receipts, sessions, identities, lost answers and crashes are  *)
(* absent; module ClientJournal is shown to implement this one.            *)
(***************************************************************************)
EXTENDS Naturals, Sequences

CONSTANT
    Proposals       \* Signed proposals.

VARIABLES
    history,        \* The canonical history,
    held,           \* how much of it the client has,
    pending,        \* the proposal that is not settled,
    told            \* and what the user was last told of each.

ledgerVars == <<history, held, pending, told>>

Committed(p) == \E i \in DOMAIN history : history[i] = p
Held(p) == \E i \in 1 .. held : history[i] = p
\* The user was not told yet what became of it.
Open(p) == told[p] \in {"unknown", "uncertain"}

LedgerInit ==
    /\ history = <<>>
    /\ held = 0
    /\ pending = {}
    /\ told = [p \in Proposals |-> "none"]

Submits(p) ==
    /\ pending = {} /\ told[p] = "none"
    /\ pending' = {p}
    /\ told' = [told EXCEPT ![p] = "unknown"]
    /\ UNCHANGED <<history, held>>

Commits(p) ==
    /\ ~Committed(p)
    /\ p \in pending \/ told[p] = "discarded"
    /\ history' = Append(history, p)
    /\ UNCHANGED <<held, pending, told>>

\* A room that is left is erased, which does not happen to a pending proposal.
Leaves == pending = {} /\ held' = 0 /\ UNCHANGED <<history, pending, told>>

\* The copy grows, ...
Fetches == held' \in held .. Len(history)

\* ... and a call may give up meanwhile.
TellsUncertain(p) ==
    /\ p \in pending /\ Open(p)
    /\ told' = [told EXCEPT ![p] = "uncertain"]

\* A proposal is settled when it is held, or when it was refused.
Settles(p) ==
    /\ pending = {p} /\ pending' = {}
    /\ Held(p) \/ ~Committed(p)
    /\ UNCHANGED <<history, held, told>>

Discards(p) ==
    /\ pending = {p} /\ pending' = {}
    /\ Open(p)
    /\ told' = [told EXCEPT ![p] = "discarded"]
    /\ UNCHANGED <<history, held>>

\* The user hears of what was settled; a client that was killed forgets to tell.
TellsSettled(p) ==
    /\ p \notin pending /\ Open(p)
    /\ \/ Held(p) /\ told' = [told EXCEPT ![p] = "committed"]
       \/ ~Committed(p) /\ told' = [told EXCEPT ![p] = "rejected"]
    /\ UNCHANGED <<history, held, pending>>

LedgerNext ==
    \/ \E p \in Proposals : Submits(p) \/ Commits(p) \/ Settles(p) \/ Discards(p) \/ TellsSettled(p)
    \/ Leaves
    \/ /\ Fetches /\ UNCHANGED <<history, pending>>
       /\ UNCHANGED told \/ \E p \in Proposals : TellsUncertain(p)

LedgerSpec == LedgerInit /\ [][LedgerNext]_ledgerVars
=============================================================================
