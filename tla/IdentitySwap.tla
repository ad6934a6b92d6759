----------------------------- MODULE IdentitySwap -----------------------------
(***************************************************************************)
(* The identity of a client: the file identity.key, its backup while the   *)
(* key is replaced, and the domain that the database keeps for it.         *)
(*                                                                         *)
(* A reset takes several system calls, each of which may fail, and the     *)
(* client may be killed or lose power between any two.  `disk' holds what  *)
(* the directory may look like after a loss of power: every state it had   *)
(* since it was synced last, the last of which is what the kernel shows.   *)
(*                                                                         *)
(* Abstractions.  No operation is pending when the identity is reset (see  *)
(* ClientJournal), and sessions are not shown (see ClientRoom).  Keys are  *)
(* numbered as they are generated; a domain is the key it resolves to.  A  *)
(* staged file is synced before it is used, and the database commits       *)
(* synchronously.  Changes of the directory reach the disk in order.       *)
(***************************************************************************)
EXTENDS Naturals, Sequences

CONSTANTS
    MaxKeys,        \* Bound: keys that are generated.
    MaxErrors       \* Bound: system calls and writes that fail.

ASSUME IdentitySwapAssumption == MaxKeys \in Nat /\ MaxErrors \in Nat

VARIABLES
    disk,           \* What may be left of identity.key and identity.key.previous.
    storedDomain,   \* client_meta: author_domain.
    client,         \* The running client: its key and its domain.
    swap,           \* commitStagedIdentity or recoverIdentitySwap: the next system call.
    confirming,     \* The key that ConfirmDomain resolves a domain for.
    generated,      \* The number of keys generated.
    errors,
    unsynced,       \* The client was opened although the directory was not synced.
    used            \* The last key that a client has run with.

vars == <<disk, storedDomain, client, swap, confirming, generated, errors, unsynced, used>>

None == 0
Files == [path : 0 .. MaxKeys, previous : 0 .. MaxKeys]
Shown == disk[Len(disk)]
Stopped == [at |-> "stopped", key |-> None, domain |-> None]
NoSwap == [at |-> "none", key |-> None, had |-> FALSE]

\* The key that loadOrCreateIdentity finds.
Recovered(files) == IF files.path # None THEN files.path ELSE files.previous

-----------------------------------------------------------------------------
\* A system call changes the directory, or fails.
Change(files) ==
    /\ disk' = IF files = Shown THEN disk ELSE Append(disk, files)
    /\ UNCHANGED <<errors, unsynced>>
Fails == errors < MaxErrors /\ errors' = errors + 1 /\ UNCHANGED <<disk, unsynced>>
Remove(file) == [Shown EXCEPT ![file] = None]
Rename(from, to) == [Shown EXCEPT ![to] = Shown[from], ![from] = None]
Syncs == disk' = <<Shown>> /\ unsynced' = FALSE /\ UNCHANGED errors

Goto(at) == swap' = [swap EXCEPT !.at = at]

\* Between the system calls only these change.
Quiet == UNCHANGED <<storedDomain, client, confirming, generated, used>>

Init ==
    /\ disk = <<[path |-> None, previous |-> None]>>
    /\ storedDomain = None
    /\ client = Stopped
    /\ swap = NoSwap
    /\ confirming = None
    /\ generated = 0
    /\ errors = 0
    /\ unsynced = FALSE
    /\ used = None

-----------------------------------------------------------------------------
\* Open: recoverIdentitySwap looks for the key, ...
Open ==
    /\ client = Stopped
    /\ client' = [Stopped EXCEPT !.at = "opening"]
    /\ swap' = [NoSwap EXCEPT !.at = CASE Shown.path # None -> "forget"
                                       [] Shown.path = None /\ Shown.previous # None -> "recover"
                                       [] OTHER -> "create"]
    /\ UNCHANGED <<disk, storedDomain, confirming, generated, errors, unsynced, used>>

\* ... drops the backup of a swap that was completed, whether that fails or not, ...
Forget ==
    /\ swap.at = "forget" /\ Goto("forgetSync")
    /\ Change(Remove("previous")) \/ Fails
    /\ Quiet

ForgetSync ==
    /\ swap.at = "forgetSync" /\ Goto("load")
    /\ \/ Syncs
       \/ errors < MaxErrors /\ errors' = errors + 1 /\ unsynced' = TRUE /\ UNCHANGED disk
    /\ Quiet

\* ... or takes back the one that was interrupted.
RecoverInPlace ==
    /\ swap.at = "recover"
    /\ Goto("recoverSync")
    /\ UNCHANGED <<disk, errors, unsynced>>
    /\ Quiet
Recover ==
    /\ swap.at = "recover"
    /\ \/ Change(Rename("previous", "path")) /\ Goto("recoverSync")
       \/ Fails /\ Goto("failed")
    /\ Quiet

RecoverSync ==
    /\ swap.at = "recoverSync"
    /\ \/ Syncs /\ Goto("load")
       \/ Fails /\ Goto("failed")
    /\ Quiet

\* stageIdentity: a client without a key, or a reset, generates one.
Stage(at) ==
    /\ generated < MaxKeys
    /\ generated' = generated + 1
    /\ swap' = [at |-> at, key |-> generated + 1, had |-> FALSE]

Create ==
    /\ swap.at = "create"
    /\ Stage("discard")
    /\ UNCHANGED <<disk, storedDomain, client, confirming, errors, unsynced, used>>

Load ==
    /\ swap.at = "load"
    /\ client' = [at |-> "running", key |-> Shown.path, domain |-> storedDomain]
    /\ used' = Shown.path
    /\ swap' = NoSwap
    /\ UNCHANGED <<disk, storedDomain, confirming, generated, errors, unsynced>>

-----------------------------------------------------------------------------
\* ResetIdentity: the stored domain goes first, then the key is replaced.
ResetIdentity ==
    /\ client.at = "running"
    /\ \/ /\ Stage("discard")
          /\ storedDomain' = None
          /\ client' = [client EXCEPT !.at = "resetting"]
          /\ UNCHANGED <<disk, errors, unsynced>>
       \/ Fails /\ UNCHANGED <<storedDomain, client, swap, generated>>
    /\ UNCHANGED <<confirming, used>>

\* commitStagedIdentityWithSync: an older backup is removed, ...
Discard ==
    /\ swap.at = "discard"
    /\ \/ Change(Remove("previous")) /\ Goto("move")
       \/ Fails /\ Goto("failed")
    /\ Quiet

\* ... the current key becomes the backup, ...
Move ==
    /\ swap.at = "move"
    /\ \/ /\ Shown.path # None
          /\ \/ Change(Rename("path", "previous"))
                /\ swap' = [at |-> "install", key |-> swap.key, had |-> TRUE]
             \/ Fails /\ Goto("failed")
       \/ /\ Shown.path = None
          /\ Goto("install")
          /\ UNCHANGED <<disk, errors, unsynced>>
    /\ Quiet

\* ... and the staged key the current one.
Install ==
    /\ swap.at = "install"
    /\ \/ Change([Shown EXCEPT !.path = swap.key]) /\ Goto("sync")
       \/ Fails /\ Goto(IF swap.had THEN "restore" ELSE "failed")
    /\ Quiet

\* Then the directory is synced.  If that fails, everything is undone.
SyncIgnored ==
    /\ swap.at = "sync"
    /\ Goto("clean")
    /\ UNCHANGED <<disk, errors, unsynced>>
    /\ Quiet
SyncWithoutUndo ==
    /\ swap.at = "sync"
    /\ \/ Syncs /\ Goto("clean")
       \/ Fails /\ Goto("failed")
    /\ Quiet
Sync ==
    /\ swap.at = "sync"
    /\ \/ Syncs /\ Goto("clean")
       \/ Fails /\ Goto("undo")
    /\ Quiet

Undo ==
    /\ swap.at = "undo"
    /\ Change(Remove("path")) \/ Fails
    /\ Goto(IF swap.had THEN "undoMove" ELSE "undoSync")
    /\ Quiet

UndoMove ==
    /\ swap.at = "undoMove" /\ Goto("undoSync")
    /\ Change(Rename("previous", "path")) \/ Fails
    /\ Quiet

UndoSync ==
    /\ swap.at = "undoSync" /\ Goto("failed")
    /\ Syncs \/ Fails
    /\ Quiet

Restore ==
    /\ swap.at = "restore" /\ Goto("failed")
    /\ Change(Rename("previous", "path")) \/ Fails
    /\ Quiet

Clean ==
    /\ swap.at = "clean" /\ Goto("cleanSync")
    /\ Change(Remove("previous")) \/ Fails
    /\ Quiet

CleanSync ==
    /\ swap.at = "cleanSync" /\ Goto("done")
    /\ Syncs \/ Fails
    /\ Quiet

\* The swap is over: a reset goes on with the new key, or with the old one and its
\* domain; a client that was being opened runs or stops.
Succeed ==
    /\ swap.at = "done"
    /\ client' = [at |-> "running", key |-> swap.key,
                  domain |-> IF client.at = "resetting" THEN None ELSE storedDomain]
    /\ used' = swap.key
    /\ swap' = NoSwap
    /\ UNCHANGED <<disk, storedDomain, confirming, generated, errors, unsynced>>

Fail ==
    /\ swap.at = "failed"
    /\ swap' = NoSwap
    /\ IF client.at = "opening"
       THEN client' = Stopped /\ UNCHANGED <<disk, storedDomain, errors, unsynced>>
       ELSE /\ client' = [client EXCEPT !.at = "running"]
            /\ \/ storedDomain' = client.domain /\ UNCHANGED <<disk, errors, unsynced>>
               \/ Fails /\ UNCHANGED storedDomain
    /\ UNCHANGED <<confirming, generated, used>>

-----------------------------------------------------------------------------
\* ConfirmDomain resolves the domain without a lock, and compares the identity
\* again before it is stored.
ConfirmDomain ==
    /\ client.at = "running" /\ confirming = None
    /\ confirming' = client.key
    /\ UNCHANGED <<disk, storedDomain, client, swap, generated, errors, unsynced, used>>

ConfirmableAlways == TRUE
Confirmable == client.key = confirming

DomainResolved ==
    /\ client.at = "running" /\ confirming # None
    /\ confirming' = None
    /\ \/ /\ Confirmable
          /\ storedDomain' = confirming
          /\ client' = [client EXCEPT !.domain = confirming]
       \/ UNCHANGED <<storedDomain, client>>
    /\ UNCHANGED <<disk, swap, generated, errors, unsynced, used>>

ClearDomain ==
    /\ client.at = "running"
    /\ storedDomain' = None
    /\ client' = [client EXCEPT !.domain = None]
    /\ UNCHANGED <<disk, swap, confirming, generated, errors, unsynced, used>>

\* The client is killed, or the power fails.  The second is not considered while a
\* client runs with a directory that could not be synced when it was opened.
Killed ==
    /\ client' = Stopped /\ swap' = NoSwap /\ confirming' = None
    /\ UNCHANGED <<storedDomain, generated, errors, unsynced, used>>

Kill == client # Stopped /\ Killed /\ UNCHANGED disk

PowerLoss ==
    /\ ~unsynced
    /\ Killed
    /\ \E i \in DOMAIN disk : disk' = <<disk[i]>>

Next ==
    \/ Open \/ Forget \/ ForgetSync \/ Recover \/ RecoverSync \/ Create \/ Load
    \/ ResetIdentity \/ Discard \/ Move \/ Install \/ Sync \/ Clean \/ CleanSync
    \/ Undo \/ UndoMove \/ UndoSync \/ Restore \/ Succeed \/ Fail
    \/ ConfirmDomain \/ DomainResolved \/ ClearDomain
    \/ Kill \/ PowerLoss

Spec == Init /\ [][Next]_vars

-----------------------------------------------------------------------------
Steps == {"none", "forget", "forgetSync", "recover", "recoverSync", "create", "load", "discard",
          "move", "install", "sync", "undo", "undoMove", "undoSync", "restore", "clean",
          "cleanSync", "failed", "done"}

TypeOK ==
    /\ disk \in Seq(Files) /\ Len(disk) >= 1
    /\ {storedDomain, confirming, used} \subseteq 0 .. MaxKeys
    /\ client \in [at : {"stopped", "opening", "running", "resetting"}, key : 0 .. MaxKeys,
                   domain : 0 .. MaxKeys]
    /\ client.at \in {"running", "resetting"} => client.key # None
    /\ swap \in [at : Steps, key : 0 .. MaxKeys, had : BOOLEAN]
    /\ generated \in 0 .. MaxKeys /\ errors \in 0 .. MaxErrors /\ unsynced \in BOOLEAN

\* What may be left when the client starts next.
Survivors == IF unsynced THEN {Shown} ELSE {disk[i] : i \in DOMAIN disk}

\* One failure is tolerated by itself, together with any number of kills, and of losses
\* of power while no client runs that could not sync the directory when it was opened
\* (see PowerLoss).  Two are not: an old key whose move back failed is lost to the next
\* reset, and a swap whose undoing is not synced may come back after a loss of power.
OneFailure == errors <= 1

\* A domain is never kept, nor shown, for another key than the one it resolves to,
\* wherever a reset was interrupted, and although it is resolved without a lock.
DomainIsOwn == OneFailure =>
    /\ storedDomain # None => \A files \in Survivors : Recovered(files) = storedDomain
    /\ client.at = "running" => client.domain \in {None, client.key}

\* PROTOCOL.md: a state directory contains one private identity.key.  The key that a
\* client runs with is the one it will find again; while it is being replaced, that
\* or the new one.
IdentityKept == OneFailure =>
    /\ client.at = "running" => \A files \in Survivors : Recovered(files) = client.key
    /\ client.at = "resetting" =>
          \A files \in Survivors : Recovered(files) \in {client.key, swap.key}

\* A reset that was reported is never taken back, and no key is forgotten by a crash.
ResetIsLasting == OneFailure => \A files \in Survivors : Recovered(files) >= used

=============================================================================
