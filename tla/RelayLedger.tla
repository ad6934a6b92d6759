------------------------------ MODULE RelayLedger ------------------------------
(***************************************************************************)
(* What the relays of a room promise, as one who reads from them sees it:  *)
(* each holds a growing beginning of the one canonical history, signs it   *)
(* with a state that this very copy has reached and whose content it has   *)
(* now, and tells of commits only that it holds.  Tasks, locks, pages,     *)
(* broadcasts, queries and crashes are absent; module Replication is shown *)
(* to implement this one.                                                  *)
(***************************************************************************)
EXTENDS Naturals, Sequences

CONSTANTS
    Relays,
    Kinds           \* Kinds of events: messages, and the two write policies.

VARIABLES
    log,            \* The canonical history: the kind of each event.
    copy,           \* Each relay's copy of it,
    revision,       \* the event after which its signed state was taken, or 0,
    told            \* and the last event it told a leaf is committed.

ledgerVars == <<log, copy, revision, told>>

\* Whether anyone may write after the first n events of a history: it was not closed,
\* or opened again.
Open(history, n) ==
    \A c \in 1 .. n : history[c] = "close" => \E d \in c + 1 .. n : history[d] = "open"

\* The revisions of a state that a copy may carry.
Signable(history) ==
    {c \in 0 .. Len(history) : /\ c > 0 => history[c] # "message"
                               /\ Open(history, c) <=> Open(history, Len(history))}

LedgerInit ==
    /\ log = <<>>
    /\ copy = [r \in Relays |-> <<>>]
    /\ revision = [r \in Relays |-> 0]
    /\ told = [r \in Relays |-> 0]

Commits(kind) == log' = Append(log, kind) /\ UNCHANGED <<copy, revision, told>>

\* The next event of the history is stored.
Stores(r) ==
    /\ Len(copy[r]) < Len(log)
    /\ copy' = [copy EXCEPT ![r] = Append(@, log[Len(@) + 1])]
    /\ UNCHANGED revision

Signs(r) ==
    /\ \E c \in Signable(copy[r]) : revision' = [revision EXCEPT ![r] = c]
    /\ UNCHANGED copy

\* A leaf hears of the commit of its event.
Tells(r) ==
    \E n \in 1 .. Len(copy'[r]) : n > told[r] /\ told' = [told EXCEPT ![r] = n]

RelaySteps(r) ==
    /\ UNCHANGED log
    /\ Stores(r) \/ Signs(r) \/ UNCHANGED <<copy, revision>>
    /\ Tells(r) \/ UNCHANGED told

LedgerNext ==
    \/ \E kind \in Kinds : Commits(kind)
    \/ \E r \in Relays : RelaySteps(r)

LedgerSpec == LedgerInit /\ [][LedgerNext]_ledgerVars
=============================================================================
