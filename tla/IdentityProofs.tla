---------------------------- MODULE IdentityProofs ----------------------------
(***************************************************************************)
(* Theorems about the replacement of a client's identity key, for any      *)
(* number of keys and of resets: with at most one failing call, whatever   *)
(* system call the client is killed at or loses its power at, the key is   *)
(* not lost, a finished reset lasts and no domain is kept for another key. *)
(***************************************************************************)
EXTENDS IdentitySwap, TLAPS

-----------------------------------------------------------------------------
\* The inductive invariant.

\* The steps of commitStagedIdentity: a staged key replaces the one there is.
Replacing == {"discard", "move", "install", "sync", "undo", "undoMove", "undoSync",
              "restore", "clean", "cleanSync", "done"}

\* No key is on the disk, or was used, that was not generated.
NumberInv ==
    /\ \A i \in DOMAIN disk : disk[i] \in [path : 0 .. generated, previous : 0 .. generated]
    /\ used <= generated
    /\ swap.at \in Replacing => swap.key = generated /\ generated > 0

\* Which swap a client may be in, and what it found when it was opened.
PhaseInv ==
    /\ swap.at = "none" <=> client.at \in {"stopped", "running"}
    /\ client.at \in {"stopped", "opening"} => client.key = None
    /\ client.at = "resetting" => swap.at \in Replacing \cup {"failed"}
    /\ swap.at \in {"forget", "forgetSync", "recoverSync", "load"} => Shown.path # None
    /\ swap.at = "recover" => Shown.path = None /\ Shown.previous # None
    /\ swap.at = "create" => Shown.path = None /\ Shown.previous = None

\* Everything that may be left holds one of the keys.
Hold(keys) == \A files \in Survivors : Recovered(files) \in keys

\* Where the old and the staged key are before each system call.
SwapInv ==
    LET old == client.key
        new == swap.key
    IN  /\ swap.at \in Replacing => used = old /\ storedDomain = None
        /\ swap.at = "discard" => Shown.path = old
        /\ swap.at = "move" => Shown.path = old /\ Shown.previous = None
        /\ swap.at \in {"install", "restore", "undoMove"} =>
              Shown.path = None /\ Shown.previous = old
        /\ swap.at \in {"sync", "undo", "clean"} => Shown.path = new /\ Shown.previous = old
        /\ swap.at \in {"discard", "move"} => ~swap.had
        /\ swap.at \in {"install", "sync", "undo"} => (swap.had <=> old # None)
        /\ swap.at = "undoSync" => Shown.path = old /\ Shown.previous = None
        /\ swap.at \in {"undo", "undoMove", "undoSync", "restore"} => errors = 1
        /\ swap.at \in {"clean", "cleanSync", "done"} => Shown.path = new /\ Hold({new})
        /\ client.at = "resetting" =>
              /\ swap.at \in {"discard", "move", "install", "restore", "failed"} => Hold({old})
              /\ swap.at = "failed" => Shown.path = old

\* A client that is not replacing its key has the one the disk holds.
ClientInv ==
    /\ client.at \in {"running", "resetting"} =>
          used = client.key /\ client.domain \in {None, client.key}
    /\ client.at = "running" => Shown.path = client.key
    /\ swap.at = "load" => \A files \in Survivors : files = Shown

BasicInv == TypeOK /\ NumberInv /\ PhaseInv

\* What a second failure may break.
Core == ClientInv /\ SwapInv /\ DomainIsOwn /\ IdentityKept /\ ResetIsLasting

IdentityInv == BasicInv /\ (OneFailure => Core)

-----------------------------------------------------------------------------
\* What the steps do to the directory.

\* The directory shows `files' now, and nothing else is added to what may be left.
Reaches(files) ==
    /\ disk' \in Seq(Files) /\ Len(disk') >= 1
    /\ Shown' = files
    /\ \A i \in DOMAIN disk' : disk'[i] = files \/ \E j \in DOMAIN disk : disk'[i] = disk[j]
    /\ \A left \in Survivors' : left = files \/ left \in Survivors

\* What is shown may be left, and is a pair of keys.
LEMMA ShownSurvives ==
    ASSUME TypeOK
    PROVE  /\ Shown \in Files /\ Shown \in Survivors
           /\ Shown = [path |-> Shown.path, previous |-> Shown.previous]
           /\ Len(disk) \in DOMAIN disk
<1>1. Len(disk) \in DOMAIN disk
  BY DEF TypeOK
<1>2. Shown \in Files /\ Shown \in Survivors
  BY <1>1 DEF TypeOK, Shown, Survivors
<1> QED BY <1>1, <1>2 DEF Files

\* A call that changes the directory.
LEMMA ChangeReaches ==
    ASSUME TypeOK, NEW files \in Files, Change(files)
    PROVE  Reaches(files)
<1>1. unsynced' = unsynced
  BY DEF Change
<1>2. CASE files = Shown
  <2>1. disk' = disk
    BY <1>2 DEF Change
  <2>2. Shown' = files
    BY <1>2, <2>1 DEF Shown
  <2> QED BY <1>1, <2>1, <2>2 DEF Reaches, TypeOK, Survivors, Shown
<1>3. CASE files # Shown
  <2> DEFINE n == Len(disk)
  <2>1. disk' = Append(disk, files)
    BY <1>3 DEF Change
  <2>2. /\ n \in Nat /\ disk' \in Seq(Files) /\ Len(disk') = n + 1
        /\ DOMAIN disk = 1 .. n /\ DOMAIN disk' = 1 .. n + 1
        /\ \A i \in 1 .. n : disk'[i] = disk[i]
        /\ disk'[n + 1] = files
    BY <2>1 DEF TypeOK
  <2>3. Shown' = files
    BY <2>2 DEF Shown
  <2>4. \A i \in DOMAIN disk' : disk'[i] = files \/ \E j \in DOMAIN disk : disk'[i] = disk[j]
    BY <2>2
  <2>5. Survivors' = IF unsynced THEN {files} ELSE {disk'[i] : i \in DOMAIN disk'}
    BY <1>1, <2>3 DEF Survivors
  <2>6. \A left \in Survivors' : left = files \/ left \in Survivors
    BY <2>4, <2>5 DEF Survivors
  <2> QED BY <2>2, <2>3, <2>4, <2>6 DEF Reaches
<1> QED BY <1>2, <1>3

\* A call that changes nothing, or is not made.
LEMMA SameReaches ==
    ASSUME TypeOK, disk' = disk, unsynced' \in {unsynced, TRUE}
    PROVE  /\ Reaches(Shown)
           /\ unsynced' # unsynced => \A left \in Survivors' : left = Shown
<1>1. Shown' = Shown
  BY DEF Shown
<1>2. Survivors' = IF unsynced' THEN {Shown} ELSE {disk[i] : i \in DOMAIN disk}
  BY <1>1 DEF Survivors
<1>3. unsynced' = unsynced => Survivors' = Survivors
  BY <1>2 DEF Survivors
<1>4. unsynced' # unsynced => Survivors' = {Shown}
  BY <1>2
<1>5. Shown \in Survivors
  BY ShownSurvives
<1> QED BY <1>1, <1>3, <1>4, <1>5 DEF Reaches, TypeOK

\* Only one state is left: the directory was synced, or the power failed.
LEMMA OneReaches ==
    ASSUME TypeOK, NEW files \in Survivors, disk' = <<files>>,
           \E j \in DOMAIN disk : files = disk[j]
    PROVE  Reaches(files) /\ \A left \in Survivors' : left = files
<1>1. files \in Files
  BY DEF TypeOK
<1>2. /\ disk' \in Seq(Files) /\ Len(disk') = 1 /\ DOMAIN disk' = {1}
      /\ disk'[1] = files
  BY <1>1
<1>3. Shown' = files
  BY <1>2 DEF Shown
<1>4. \A left \in Survivors' : left = files
  BY <1>2, <1>3 DEF Survivors
<1> QED BY <1>2, <1>3, <1>4 DEF Reaches

\* The first of these is what a sync does, ...
LEMMA SyncReaches ==
    ASSUME TypeOK, Syncs
    PROVE  Reaches(Shown) /\ \A left \in Survivors' : left = Shown
<1>1. Shown \in Survivors /\ \E j \in DOMAIN disk : Shown = disk[j]
  BY ShownSurvives DEF Shown
<1>2. disk' = <<Shown>>
  BY DEF Syncs
<1> QED BY <1>1, <1>2, OneReaches

\* ... the second a loss of power: it shows what may have been left.
LEMMA PowerLossReaches ==
    ASSUME TypeOK, PowerLoss
    PROVE  \E files \in Survivors : Reaches(files)
<1>1. PICK i \in DOMAIN disk : disk' = <<disk[i]>>
  BY DEF PowerLoss
<1>2. disk[i] \in Survivors
  BY DEF PowerLoss, Survivors
<1> QED BY <1>1, <1>2, OneReaches

-----------------------------------------------------------------------------
\* Types, and what a client finds when it is opened: whatever fails.

KnownFiles == [path : 0 .. generated, previous : 0 .. generated]

\* Renaming and removing introduce no keys.
LEMMA CallsAreKnown ==
    ASSUME TypeOK, NumberInv
    PROVE  /\ KnownFiles \subseteq Files
           /\ Shown \in KnownFiles
           /\ Remove("path") = [path |-> None, previous |-> Shown.previous]
           /\ Remove("previous") = [path |-> Shown.path, previous |-> None]
           /\ Rename("path", "previous") = [path |-> None, previous |-> Shown.path]
           /\ Rename("previous", "path") = [path |-> Shown.previous, previous |-> None]
           /\ {Remove("path"), Remove("previous"), Rename("path", "previous"),
               Rename("previous", "path")} \subseteq KnownFiles
<1>1. generated \in 0 .. MaxKeys /\ MaxKeys \in Nat
  BY IdentitySwapAssumption DEF TypeOK
<1>2. KnownFiles \subseteq Files
  BY <1>1 DEF KnownFiles, Files
<1>3. Shown \in KnownFiles
  BY ShownSurvives DEF NumberInv, KnownFiles, Shown
<1>4. /\ Shown = [path |-> Shown.path, previous |-> Shown.previous]
      /\ Shown.path \in 0 .. generated /\ Shown.previous \in 0 .. generated
      /\ None \in 0 .. generated
  BY <1>1, <1>3, ShownSurvives DEF KnownFiles, None
<1>5. /\ Remove("path") = [path |-> None, previous |-> Shown.previous]
      /\ Remove("previous") = [path |-> Shown.path, previous |-> None]
      /\ Rename("path", "previous") = [path |-> None, previous |-> Shown.path]
      /\ Rename("previous", "path") = [path |-> Shown.previous, previous |-> None]
  <2>1. PICK a, b : Shown = [path |-> a, previous |-> b]
    BY <1>4
  <2>2. [Shown EXCEPT !["path"] = None] = [path |-> None, previous |-> b]
    BY <2>1
  <2>3. [Shown EXCEPT !["previous"] = None] = [path |-> a, previous |-> None]
    BY <2>1
  <2>4. [Shown EXCEPT !["previous"] = Shown["path"], !["path"] = None]
          = [path |-> None, previous |-> a]
    BY <2>1
  <2>5. [Shown EXCEPT !["path"] = Shown["previous"], !["previous"] = None]
          = [path |-> b, previous |-> None]
    BY <2>1
  <2>6. Shown.path = a /\ Shown.previous = b
    BY <2>1
  <2> QED BY <2>2, <2>3, <2>4, <2>5, <2>6 DEF Remove, Rename
<1> QED BY <1>2, <1>3, <1>4, <1>5 DEF KnownFiles

\* The directory part of the invariant, after any of these calls.
LEMMA ReachesKnown ==
    ASSUME TypeOK, NumberInv, NEW files \in KnownFiles, Reaches(files),
           generated' \in 0 .. MaxKeys, generated <= generated'
    PROVE  /\ disk' \in Seq(Files) /\ Len(disk') >= 1
           /\ \A i \in DOMAIN disk' : disk'[i] \in [path : 0 .. generated',
                                                    previous : 0 .. generated']
<1>1. generated \in Nat /\ generated' \in Nat
  BY IdentitySwapAssumption DEF TypeOK
<1>2. KnownFiles \subseteq [path : 0 .. generated', previous : 0 .. generated']
  BY <1>1 DEF KnownFiles
<1>3. \A i \in DOMAIN disk' : disk'[i] \in KnownFiles
  BY DEF Reaches, NumberInv, KnownFiles
<1> QED BY <1>2, <1>3 DEF Reaches

\* A system call of a swap, or of the recovery, that the next one follows.
LEMMA QuietBasic ==
    ASSUME BasicInv, NEW files \in KnownFiles, Reaches(files), Quiet,
           errors' \in 0 .. MaxErrors, unsynced' \in BOOLEAN,
           NEW at \in Steps \ {"none", "recover", "create"},
           NEW had \in BOOLEAN, swap' = [at |-> at, key |-> swap.key, had |-> had],
           swap.at # "none",
           client.at = "resetting" => at \in Replacing \cup {"failed"},
           at \in Replacing => swap.at \in Replacing,
           at \in {"forget", "forgetSync", "recoverSync", "load"} => files.path # None
    PROVE  BasicInv'
<1>1. TypeOK /\ NumberInv /\ PhaseInv /\ MaxKeys \in Nat
  BY IdentitySwapAssumption DEF BasicInv
<1>2. generated' = generated /\ generated \in 0 .. MaxKeys /\ generated <= generated
  BY <1>1 DEF Quiet, TypeOK
<1>3. /\ disk' \in Seq(Files) /\ Len(disk') >= 1
      /\ \A i \in DOMAIN disk' : disk'[i] \in [path : 0 .. generated',
                                               previous : 0 .. generated']
  BY <1>1, <1>2, ReachesKnown
<1>4. swap'.at = at /\ swap'.key = swap.key /\ swap' \in [at : Steps, key : 0 .. MaxKeys, had : BOOLEAN]
  BY <1>1 DEF TypeOK
<1>5. TypeOK'
  BY <1>1, <1>2, <1>3, <1>4 DEF TypeOK, Quiet
<1>6. NumberInv'
  BY <1>1, <1>2, <1>3, <1>4 DEF NumberInv, Quiet
<1>7. Shown' = files
  BY DEF Reaches
<1>8. PhaseInv'
  BY <1>1, <1>4, <1>7 DEF PhaseInv, Quiet
<1> QED BY <1>5, <1>6, <1>8 DEF BasicInv

\* A call that fails leaves the directory as it is.
LEMMA FailReaches ==
    ASSUME TypeOK, Fails
    PROVE  Reaches(Shown) /\ errors' = errors + 1 /\ errors' \in 0 .. MaxErrors
                          /\ unsynced' = unsynced
<1>1. Reaches(Shown)
  BY SameReaches DEF Fails
<1>2. errors \in 0 .. MaxErrors /\ MaxErrors \in Nat
  BY IdentitySwapAssumption DEF TypeOK
<1> QED BY <1>1, <1>2 DEF Fails

\* What a step of a swap may do to the directory and to the count of failures.
Effect(files) ==
    /\ files \in KnownFiles /\ Reaches(files)
    /\ errors' \in 0 .. MaxErrors /\ unsynced' \in BOOLEAN

\* What a call may do: change the directory, fail, sync, or leave everything as it is.
LEMMA Effects ==
    ASSUME TypeOK, NumberInv
    PROVE  /\ \A files \in KnownFiles : Change(files) => Effect(files)
           /\ Fails => Effect(Shown)
           /\ Syncs => Effect(Shown)
           /\ UNCHANGED <<disk, errors, unsynced>> => Effect(Shown)
<1>1. /\ KnownFiles \subseteq Files /\ Shown \in KnownFiles
      /\ errors \in 0 .. MaxErrors /\ unsynced \in BOOLEAN
  BY CallsAreKnown DEF TypeOK
<1>2. ASSUME NEW files \in KnownFiles, Change(files) PROVE Effect(files)
  <2>1. Reaches(files)
    BY <1>1, <1>2, ChangeReaches
  <2> QED BY <1>1, <1>2, <2>1 DEF Effect, Change
<1>3. Fails => Effect(Shown)
  BY <1>1, FailReaches DEF Effect, Fails
<1>4. Syncs => Effect(Shown)
  BY <1>1, SyncReaches DEF Effect, Syncs
<1>5. UNCHANGED <<disk, errors, unsynced>> => Effect(Shown)
  BY <1>1, SameReaches DEF Effect
<1> QED BY <1>2, <1>3, <1>4, <1>5

\* The steps of Next that make a system call of a swap or a recovery.
Calls ==
    \/ Forget \/ ForgetSync \/ Recover \/ RecoverSync
    \/ Discard \/ Move \/ Install \/ Sync \/ Clean \/ CleanSync
    \/ Undo \/ UndoMove \/ UndoSync \/ Restore

\* Every call of a swap keeps the types, the numbers of the keys and the phase.
LEMMA CallBasic == BasicInv /\ Calls => BasicInv'
<1> SUFFICES ASSUME BasicInv, Calls PROVE BasicInv'
  OBVIOUS
<1> DEFINE Leads(at, had, files) ==
             /\ at \in Steps \ {"none", "recover", "create"}
             /\ had \in BOOLEAN /\ swap' = [at |-> at, key |-> swap.key, had |-> had]
             /\ swap.at # "none" /\ Effect(files) /\ Quiet
             /\ client.at = "resetting" => at \in Replacing \cup {"failed"}
             /\ at \in Replacing => swap.at \in Replacing
             /\ at \in {"forget", "forgetSync", "recoverSync", "load"} => files.path # None
<1>1. TypeOK /\ NumberInv /\ PhaseInv
  BY DEF BasicInv
<1>2. ASSUME NEW at, NEW had, NEW files, Leads(at, had, files) PROVE BasicInv'
  <2>1. Leads(at, had, files)
    BY <1>2
  <2> QED BY <2>1, QuietBasic DEF Effect
<1>3. /\ {Remove("path"), Remove("previous"), Rename("path", "previous"),
          Rename("previous", "path")} \subseteq KnownFiles
      /\ Remove("previous").path = Shown.path
      /\ Rename("previous", "path").path = Shown.previous
      /\ Shown \in KnownFiles
  BY <1>1, CallsAreKnown
<1>4. PICK k, had : /\ had \in BOOLEAN /\ k = swap.key
                    /\ \A at : [swap EXCEPT !.at = at] = [at |-> at, key |-> k, had |-> had]
  <2>1. swap = [at |-> swap.at, key |-> swap.key, had |-> swap.had] /\ swap.had \in BOOLEAN
    BY <1>1 DEF TypeOK
  <2>2. PICK at0, key, had : swap = [at |-> at0, key |-> key, had |-> had]
                              /\ had \in BOOLEAN
    BY <2>1
  <2>3. \A at : [swap EXCEPT !.at = at] = [at |-> at, key |-> key, had |-> had]
    BY <2>2
  <2>4. key = swap.key
    BY <2>2
  <2> QED BY <2>2, <2>3, <2>4
<1> USE DEF Steps, Replacing
<1>5. ASSUME Forget PROVE BasicInv'
  <2>1. swap.at = "forget" /\ Shown.path # None /\ Quiet
        /\ swap' = [at |-> "forgetSync", key |-> k, had |-> had]
    BY <1>1, <1>4, <1>5 DEF Forget, Goto, PhaseInv
  <2>2. client.at # "resetting"
    BY <1>1, <2>1 DEF PhaseInv
  <2>3. Effect(Remove("previous")) \/ Effect(Shown)
    BY <1>1, <1>3, <1>5, Effects DEF Forget
  <2>4. Leads("forgetSync", had, Remove("previous")) \/ Leads("forgetSync", had, Shown)
    BY <1>3, <1>4, <2>1, <2>2, <2>3
  <2> QED BY <1>2, <2>4
<1>6. ASSUME ForgetSync PROVE BasicInv'
  <2>1. swap.at = "forgetSync" /\ Shown.path # None /\ Quiet
        /\ swap' = [at |-> "load", key |-> k, had |-> had]
    BY <1>1, <1>4, <1>6 DEF ForgetSync, Goto, PhaseInv
  <2>2. client.at # "resetting"
    BY <1>1, <2>1 DEF PhaseInv
  <2>3. Effect(Shown)
    <3>1. CASE Syncs
      BY <1>1, <3>1, Effects
    <3>2. CASE errors < MaxErrors /\ errors' = errors + 1 /\ unsynced' = TRUE
               /\ UNCHANGED disk
      <4>1. Reaches(Shown)
        BY <1>1, <3>2, SameReaches
      <4>2. errors' \in 0 .. MaxErrors
        BY <1>1, <3>2, IdentitySwapAssumption DEF TypeOK
      <4> QED BY <1>3, <3>2, <4>1, <4>2 DEF Effect
    <3> QED BY <1>6, <3>1, <3>2 DEF ForgetSync
  <2>4. Leads("load", had, Shown)
    BY <1>4, <2>1, <2>2, <2>3
  <2> QED BY <1>2, <2>4
<1>7. ASSUME Recover PROVE BasicInv'
  <2>1. swap.at = "recover" /\ Shown.previous # None /\ Quiet /\ client.at # "resetting"
    BY <1>1, <1>7 DEF Recover, PhaseInv
  <2>2. CASE Change(Rename("previous", "path")) /\ Goto("recoverSync")
    <3>1. Leads("recoverSync", had, Rename("previous", "path"))
      BY <1>1, <1>3, <1>4, <2>1, <2>2, Effects DEF Goto
    <3> QED BY <1>2, <3>1
  <2>3. CASE Fails /\ Goto("failed")
    <3>1. Leads("failed", had, Shown)
      BY <1>1, <1>4, <2>1, <2>3, Effects DEF Goto
    <3> QED BY <1>2, <3>1
  <2> QED BY <1>7, <2>2, <2>3 DEF Recover
<1>8. ASSUME RecoverSync PROVE BasicInv'
  <2>1. swap.at = "recoverSync" /\ Shown.path # None /\ Quiet /\ client.at # "resetting"
    BY <1>1, <1>8 DEF RecoverSync, PhaseInv
  <2>2. Leads("load", had, Shown) \/ Leads("failed", had, Shown)
    BY <1>1, <1>4, <1>8, <2>1, Effects DEF RecoverSync, Goto
  <2> QED BY <1>2, <2>2
<1>9. ASSUME Discard PROVE BasicInv'
  <2>1. Leads("move", had, Remove("previous")) \/ Leads("failed", had, Shown)
    BY <1>1, <1>3, <1>4, <1>9, Effects DEF Discard, Goto
  <2> QED BY <1>2, <2>1
<1>10. ASSUME Move PROVE BasicInv'
  <2>1. \/ Leads("install", TRUE, Rename("path", "previous")) \/ Leads("failed", had, Shown)
        \/ Leads("install", had, Shown)
    BY <1>1, <1>3, <1>4, <1>10, Effects DEF Move, Goto
  <2> QED BY <1>2, <2>1
<1>11. ASSUME Install PROVE BasicInv'
  <2>1. [Shown EXCEPT !.path = swap.key] \in KnownFiles
    <3>1. swap.key \in 0 .. generated
      BY <1>1, <1>11, IdentitySwapAssumption DEF Install, NumberInv, TypeOK
    <3> QED BY <1>3, <3>1 DEF KnownFiles
  <2>2. \/ Leads("sync", had, [Shown EXCEPT !.path = swap.key])
        \/ Leads("restore", had, Shown) \/ Leads("failed", had, Shown)
    BY <1>1, <1>4, <1>11, <2>1, Effects DEF Install, Goto
  <2> QED BY <1>2, <2>2
<1>12. ASSUME Sync PROVE BasicInv'
  <2>1. Leads("clean", had, Shown) \/ Leads("undo", had, Shown)
    BY <1>1, <1>4, <1>12, Effects DEF Sync, Goto
  <2> QED BY <1>2, <2>1
<1>13. ASSUME Clean PROVE BasicInv'
  <2>1. Leads("cleanSync", had, Remove("previous")) \/ Leads("cleanSync", had, Shown)
    BY <1>1, <1>3, <1>4, <1>13, Effects DEF Clean, Goto
  <2> QED BY <1>2, <2>1
<1>14. ASSUME CleanSync PROVE BasicInv'
  <2>1. Leads("done", had, Shown)
    BY <1>1, <1>4, <1>14, Effects DEF CleanSync, Goto
  <2> QED BY <1>2, <2>1
<1>15. ASSUME Undo PROVE BasicInv'
  <2>1. \E at \in {"undoMove", "undoSync"} :
          Leads(at, had, Remove("path")) \/ Leads(at, had, Shown)
    BY <1>1, <1>3, <1>4, <1>15, Effects DEF Undo, Goto
  <2> QED BY <1>2, <2>1
<1>16. ASSUME UndoMove PROVE BasicInv'
  <2>1. Leads("undoSync", had, Rename("previous", "path")) \/ Leads("undoSync", had, Shown)
    BY <1>1, <1>3, <1>4, <1>16, Effects DEF UndoMove, Goto
  <2> QED BY <1>2, <2>1
<1>17. ASSUME UndoSync PROVE BasicInv'
  <2>1. Leads("failed", had, Shown)
    BY <1>1, <1>4, <1>17, Effects DEF UndoSync, Goto
  <2> QED BY <1>2, <2>1
<1>18. ASSUME Restore PROVE BasicInv'
  <2>1. Leads("failed", had, Rename("previous", "path")) \/ Leads("failed", had, Shown)
    BY <1>1, <1>3, <1>4, <1>18, Effects DEF Restore, Goto
  <2> QED BY <1>2, <2>1
<1> QED BY <1>5, <1>6, <1>7, <1>8, <1>9, <1>10, <1>11, <1>12, <1>13, <1>14, <1>15, <1>16,
           <1>17, <1>18 DEF Calls

\* Nothing is on the disk before the first start.
LEMMA InitBasic == Init => BasicInv
<1> SUFFICES ASSUME Init PROVE BasicInv
  OBVIOUS
<1> DEFINE nothing == [path |-> None, previous |-> None]
<1>1. /\ disk \in Seq(Files) /\ Len(disk) = 1 /\ DOMAIN disk = {1} /\ disk[1] = nothing
      /\ nothing \in [path : 0 .. generated, previous : 0 .. generated]
  <2>1. nothing \in Files
    BY IdentitySwapAssumption DEF Files, None
  <2> QED BY <2>1, IdentitySwapAssumption DEF Init, None
<1>2. TypeOK
  <2>1. /\ Stopped \in [at : {"stopped", "opening", "running", "resetting"},
                        key : 0 .. MaxKeys, domain : 0 .. MaxKeys]
        /\ Stopped.at = "stopped"
    BY IdentitySwapAssumption DEF Stopped, None
  <2>2. NoSwap \in [at : Steps, key : 0 .. MaxKeys, had : BOOLEAN]
    BY IdentitySwapAssumption DEF NoSwap, None, Steps
  <2>3. {storedDomain, confirming, used} \subseteq 0 .. MaxKeys
    BY IdentitySwapAssumption DEF Init, None
  <2>4. generated \in 0 .. MaxKeys /\ errors \in 0 .. MaxErrors /\ unsynced \in BOOLEAN
    <3>1. generated = 0 /\ errors = 0
      BY DEF Init
    <3>2. unsynced \in BOOLEAN
      BY Zenon DEF Init
    <3> QED BY <3>1, <3>2, IdentitySwapAssumption
  <2>5. client = Stopped /\ swap = NoSwap /\ Len(disk) >= 1
    BY <1>1 DEF Init
  <2> HIDE DEF nothing
  <2> QED BY <1>1, <2>1, <2>2, <2>3, <2>4, <2>5 DEF TypeOK
<1>3. NumberInv
  BY <1>1 DEF Init, NumberInv, Replacing, NoSwap, None
<1>4. PhaseInv
  BY DEF Init, PhaseInv, Replacing, NoSwap, Stopped
<1> QED BY <1>2, <1>3, <1>4 DEF BasicInv

\* What a client starts and ends with, and what it stores of its domain.
LEMMA NextBasic == BasicInv /\ [Next]_vars => BasicInv'
<1> SUFFICES ASSUME BasicInv, [Next]_vars PROVE BasicInv'
  OBVIOUS
<1>1. TypeOK /\ NumberInv /\ PhaseInv
  BY DEF BasicInv
<1>2. /\ MaxKeys \in Nat /\ MaxErrors \in Nat
      /\ None = 0 /\ generated \in 0 .. MaxKeys /\ used \in 0 .. generated
      /\ errors \in 0 .. MaxErrors
  BY <1>1, IdentitySwapAssumption DEF TypeOK, NumberInv, None
<1>3. ASSUME UNCHANGED disk PROVE Shown' = Shown
  BY <1>3 DEF Shown
<1> USE DEF Steps, Replacing
<1>4. ASSUME Open PROVE BasicInv'
  <2>1. TypeOK'
    BY <1>1, <1>2, <1>4 DEF Open, TypeOK, Stopped, NoSwap
  <2>2. NumberInv'
    BY <1>1, <1>4 DEF Open, NumberInv, NoSwap
  <2>3. PhaseInv'
    BY <1>1, <1>3, <1>4 DEF Open, PhaseInv, NoSwap, Stopped
  <2> QED BY <2>1, <2>2, <2>3 DEF BasicInv
<1>5. ASSUME NEW at \in Steps, Stage(at), UNCHANGED disk, used' = used
      PROVE  /\ swap' \in [at : Steps, key : 0 .. MaxKeys, had : BOOLEAN]
             /\ generated' \in 0 .. MaxKeys
             /\ \A i \in DOMAIN disk' : disk'[i] \in [path : 0 .. generated',
                                                      previous : 0 .. generated']
             /\ used' <= generated' /\ generated' > 0
             /\ swap' = [at |-> at, key |-> generated', had |-> FALSE]
  <2>1. generated' = generated + 1 /\ generated + 1 \in 0 .. MaxKeys
    BY <1>2, <1>5 DEF Stage
  <2>2. 0 .. generated \subseteq 0 .. generated + 1
    BY <1>2
  <2>3. \A i \in DOMAIN disk : disk[i] \in [path : 0 .. generated + 1,
                                            previous : 0 .. generated + 1]
    BY <1>1, <2>2 DEF NumberInv
  <2>4. swap' \in [at : Steps, key : 0 .. MaxKeys, had : BOOLEAN]
    BY <1>5, <2>1 DEF Stage
  <2> QED BY <1>2, <1>5, <2>1, <2>3, <2>4 DEF Stage
<1>6. ASSUME Create PROVE BasicInv'
  <2>1. Stage("discard") /\ UNCHANGED <<disk, used, client, storedDomain, confirming,
                                         errors, unsynced>>
        /\ swap.at = "create"
    BY <1>6 DEF Create
  <2>2. /\ swap' \in [at : Steps, key : 0 .. MaxKeys, had : BOOLEAN]
        /\ generated' \in 0 .. MaxKeys
        /\ NumberInv'
    BY <1>5, <2>1 DEF NumberInv
  <2>3. TypeOK'
    BY <1>1, <2>1, <2>2 DEF TypeOK
  <2>4. PhaseInv'
    BY <1>1, <1>3, <1>5, <2>1 DEF PhaseInv
  <2> QED BY <2>2, <2>3, <2>4 DEF BasicInv
<1>7. ASSUME Load PROVE BasicInv'
  <2>1. Shown.path \in 0 .. generated /\ Shown.path # None
    BY <1>1, <1>7, CallsAreKnown DEF Load, PhaseInv, KnownFiles
  <2>2. TypeOK'
    BY <1>1, <1>2, <1>7, <2>1 DEF Load, TypeOK, NoSwap
  <2>3. NumberInv'
    BY <1>1, <1>2, <1>7, <2>1 DEF Load, NumberInv, NoSwap
  <2>4. PhaseInv'
    BY <1>1, <1>7, <2>1 DEF Load, PhaseInv, NoSwap
  <2> QED BY <2>2, <2>3, <2>4 DEF BasicInv
<1>8. ASSUME ResetIdentity PROVE BasicInv'
  <2>1. CASE Fails /\ UNCHANGED <<storedDomain, client, swap, generated, confirming, used>>
    <3>1. errors' \in 0 .. MaxErrors /\ UNCHANGED <<disk, unsynced>>
      BY <1>2, <2>1 DEF Fails
    <3>2. TypeOK' /\ NumberInv'
      BY <1>1, <2>1, <3>1 DEF TypeOK, NumberInv
    <3>3. PhaseInv'
      BY <1>1, <1>3, <2>1, <3>1 DEF PhaseInv
    <3> QED BY <3>2, <3>3 DEF BasicInv
  <2>2. CASE /\ Stage("discard") /\ storedDomain' = None
             /\ client' = [client EXCEPT !.at = "resetting"]
             /\ UNCHANGED <<disk, errors, unsynced, confirming, used>>
    <3>1. TypeOK'
      <4>1. /\ swap' \in [at : Steps, key : 0 .. MaxKeys, had : BOOLEAN]
            /\ generated' \in 0 .. MaxKeys
        BY <1>5, <2>2
      <4>2. /\ client' \in [at : {"stopped", "opening", "running", "resetting"},
                            key : 0 .. MaxKeys, domain : 0 .. MaxKeys]
            /\ client'.at \in {"running", "resetting"} => client'.key # None
        BY <1>1, <1>8, <2>2 DEF ResetIdentity, TypeOK
      <4> QED BY <1>1, <1>2, <2>2, <4>1, <4>2 DEF TypeOK
    <3>2. NumberInv'
      BY <1>5, <2>2 DEF NumberInv
    <3>3. PhaseInv'
      BY <1>1, <1>3, <1>5, <1>8, <2>2, <3>1 DEF ResetIdentity, PhaseInv, TypeOK
    <3> QED BY <3>1, <3>2, <3>3 DEF BasicInv
  <2> QED BY <1>8, <2>1, <2>2 DEF ResetIdentity
<1>9. ASSUME Succeed PROVE BasicInv'
  <2>1. swap.key = generated /\ generated > 0
    BY <1>1, <1>9 DEF Succeed, NumberInv
  <2>2. TypeOK'
    BY <1>1, <1>2, <1>9, <2>1 DEF Succeed, TypeOK, NoSwap
  <2>3. NumberInv'
    BY <1>1, <1>2, <1>9, <2>1 DEF Succeed, NumberInv, NoSwap
  <2>4. PhaseInv'
    BY <1>1, <1>9, <2>1 DEF Succeed, PhaseInv, NoSwap
  <2> QED BY <2>2, <2>3, <2>4 DEF BasicInv
<1>10. ASSUME Fail PROVE BasicInv'
  <2>1. /\ client' = Stopped \/ client' = [client EXCEPT !.at = "running"]
        /\ client' # Stopped => client.at = "resetting"
        /\ storedDomain' \in {storedDomain, client.domain}
        /\ errors' \in 0 .. MaxErrors /\ unsynced' = unsynced /\ disk' = disk
        /\ swap' = NoSwap /\ UNCHANGED <<confirming, generated, used>>
    BY <1>1, <1>2, <1>10 DEF Fail, Fails, PhaseInv, TypeOK
  <2>2. TypeOK'
    BY <1>1, <1>2, <2>1 DEF TypeOK, NoSwap, Stopped
  <2>3. NumberInv'
    BY <1>1, <2>1 DEF NumberInv, NoSwap
  <2>4. PhaseInv'
    BY <1>1, <2>1, <2>2 DEF PhaseInv, NoSwap, Stopped, TypeOK
  <2> QED BY <2>2, <2>3, <2>4 DEF BasicInv
<1>11. ASSUME ConfirmDomain \/ DomainResolved \/ ClearDomain PROVE BasicInv'
  <2>1. /\ client'.at = client.at /\ client'.key = client.key /\ TypeOK'
        /\ UNCHANGED <<disk, swap, generated, used>>
    BY <1>1, <1>2, <1>11 DEF ConfirmDomain, DomainResolved, ClearDomain, TypeOK
  <2>2. NumberInv'
    BY <1>1, <2>1 DEF NumberInv
  <2>3. PhaseInv'
    BY <1>1, <1>3, <2>1 DEF PhaseInv
  <2> QED BY <2>1, <2>2, <2>3 DEF BasicInv
<1>12. ASSUME Kill \/ PowerLoss PROVE BasicInv'
  <2>1. Killed
    BY <1>12 DEF Kill, PowerLoss
  <2>2. \E files \in KnownFiles : Reaches(files)
    <3>1. CASE Kill
      BY <1>1, <3>1, SameReaches, CallsAreKnown DEF Kill, Killed
    <3>2. CASE PowerLoss
      <4>1. \A files \in Survivors : files \in KnownFiles
        BY <1>1, CallsAreKnown DEF Survivors, NumberInv, KnownFiles
      <4> QED BY <1>1, <3>2, <4>1, PowerLossReaches
    <3> QED BY <1>12, <3>1, <3>2
  <2>3. generated' = generated
    BY <2>1 DEF Killed
  <2>4. /\ disk' \in Seq(Files) /\ Len(disk') >= 1
        /\ \A i \in DOMAIN disk' : disk'[i] \in [path : 0 .. generated',
                                                 previous : 0 .. generated']
    BY <1>1, <1>2, <2>2, <2>3, ReachesKnown
  <2>5. TypeOK'
    BY <1>1, <1>2, <2>1, <2>4 DEF Killed, TypeOK, NoSwap, Stopped
  <2>6. NumberInv'
    BY <1>2, <2>1, <2>3, <2>4 DEF Killed, NumberInv, NoSwap
  <2>7. PhaseInv'
    BY <2>1 DEF Killed, PhaseInv, NoSwap, Stopped
  <2> QED BY <2>5, <2>6, <2>7 DEF BasicInv
<1>13. CASE UNCHANGED vars
  BY <1>13 DEF vars, BasicInv, TypeOK, NumberInv, PhaseInv, Shown
<1> QED BY <1>4, <1>6, <1>7, <1>8, <1>9, <1>10, <1>11, <1>12, <1>13, CallBasic DEF Next, Calls

\* The identity files, the client and the swap are well formed, whatever fails: a
\* running client has a key.
THEOREM IdentityTypeOK == Spec => []TypeOK
<1>1. BasicInv => TypeOK
  BY DEF BasicInv
<1> QED BY <1>1, InitBasic, NextBasic, PTL DEF Spec

-----------------------------------------------------------------------------
\* Where the keys are, while at most one call fails.

\* What all that may be left has in common stays so, if what is shown next has it.
LEMMA HoldReaches ==
    ASSUME NEW keys, NEW files, Reaches(files), Hold(keys), Recovered(files) \in keys
    PROVE  Hold(keys)'
<1>1. \A left \in Survivors' : left = files \/ left \in Survivors
  BY DEF Reaches
<1> QED BY <1>1 DEF Hold

\* All that may be left is a pair of generated keys.
KeysSurvive == \A left \in Survivors : left \in KnownFiles /\ Recovered(left) \in Nat

\* A loss of power leaves one of the keys the swap still knows of.
LEMMA SurvivorsKnown == BasicInv => KeysSurvive /\ Shown \in Survivors
<1> SUFFICES ASSUME BasicInv PROVE KeysSurvive /\ Shown \in Survivors
  OBVIOUS
<1>1. TypeOK /\ NumberInv /\ generated \in Nat
  BY IdentitySwapAssumption DEF BasicInv, TypeOK
<1>2. Shown \in Survivors /\ Len(disk) \in DOMAIN disk
  BY <1>1, ShownSurvives
<1>3. \A left \in Survivors : left \in KnownFiles
  BY <1>1, <1>2 DEF Survivors, NumberInv, KnownFiles, Shown
<1>4. \A left \in KnownFiles : Recovered(left) \in Nat
  BY <1>1 DEF KnownFiles, Recovered
<1> QED BY <1>2, <1>3, <1>4 DEF KeysSurvive

\* The next call of a replacement: it is enough to know where the keys are then.
LEMMA ReplaceCore ==
    ASSUME BasicInv, Core, BasicInv', OneFailure, Quiet, swap'.key = swap.key,
           swap.at \in Replacing, swap'.at \in Replacing \cup {"failed"}, SwapInv',
           NEW old, old = client.key, NEW new, new = swap.key,
           client.at = "resetting" => Hold({old, new})'
    PROVE  Core'
<1>1. /\ client' = client /\ storedDomain' = None /\ used' = used
      /\ client.at \in {"opening", "resetting"} /\ used = old
      /\ client.at = "opening" => old = None
  BY DEF Core, SwapInv, Quiet, BasicInv, PhaseInv, TypeOK, Replacing
<1>2. ClientInv'
  BY <1>1 DEF Core, ClientInv, Replacing
<1>3. DomainIsOwn'
  BY <1>1 DEF DomainIsOwn
<1>4. IdentityKept'
  BY <1>1 DEF IdentityKept, Hold
<1>5. ResetIsLasting'
  <2>1. old \in Nat /\ new \in Nat /\ new >= old
    BY <1>1, IdentitySwapAssumption DEF BasicInv, NumberInv, TypeOK
  <2>2. CASE client.at = "resetting"
    BY <1>1, <2>1, <2>2 DEF ResetIsLasting, Hold
  <2>3. CASE client.at = "opening"
    <3>1. \A left \in Survivors' : Recovered(left) \in Nat
      <4>1. BasicInv'
        OBVIOUS
      <4>2. KeysSurvive'
        BY <4>1, SurvivorsKnown, PTL
      <4> QED BY <4>2 DEF KeysSurvive
    <3> QED BY <1>1, <2>3, <3>1 DEF ResetIsLasting, None
  <2> QED BY <1>1, <2>2, <2>3
<1> QED BY <1>2, <1>3, <1>4, <1>5 DEF Core

\* A call of a recovery: what is shown next holds the key that was to be found.
LEMMA OpeningCore ==
    ASSUME BasicInv, Core, BasicInv', OneFailure, Quiet, client.at = "opening",
           swap.at \notin Replacing,
           swap'.at \in {"forgetSync", "recoverSync", "load", "failed"},
           NEW files, Reaches(files), Recovered(files) = Recovered(Shown),
           swap'.at = "load" => \A left \in Survivors' : left = files
    PROVE  Core'
<1>1. client' = client /\ storedDomain' = storedDomain /\ used' = used /\ Shown' = files
  BY DEF Quiet, Reaches
<1>2. ASSUME NEW left \in Survivors'
      PROVE  \E other \in Survivors : Recovered(left) = Recovered(other)
  <2>1. left = files \/ left \in Survivors
    BY DEF Reaches
  <2> QED BY <2>1, SurvivorsKnown
<1>3. ClientInv'
  BY <1>1 DEF Core, ClientInv
<1>4. SwapInv'
  BY <1>1 DEF SwapInv, Replacing
<1>5. DomainIsOwn'
  BY <1>1, <1>2 DEF Core, DomainIsOwn
<1>6. IdentityKept'
  BY <1>1 DEF IdentityKept
<1>7. ResetIsLasting'
  BY <1>1, <1>2 DEF Core, ResetIsLasting
<1> QED BY <1>3, <1>4, <1>5, <1>6, <1>7 DEF Core

\* A failure is the only one.
LEMMA FailsOnce ==
    ASSUME TypeOK, OneFailure', Fails
    PROVE  errors = 0 /\ errors' = 1 /\ Reaches(Shown)
<1>1. errors \in Nat /\ errors' = errors + 1 /\ Reaches(Shown)
  BY FailReaches, IdentitySwapAssumption DEF TypeOK
<1> QED BY <1>1 DEF OneFailure

\* The calls of a start put back the key that survived.
LEMMA RecoveryCore ==
    ASSUME BasicInv, BasicInv', Core, OneFailure, OneFailure',
           Forget \/ ForgetSync \/ Recover \/ RecoverSync
    PROVE  Core'
<1>1. TypeOK /\ NumberInv /\ PhaseInv
  BY DEF BasicInv
<1>2. /\ client.at = "opening" /\ swap.at \notin Replacing /\ Quiet
      /\ swap.at = "recover" => Shown.path = None
  BY <1>1 DEF Forget, ForgetSync, Recover, RecoverSync, PhaseInv, Replacing, TypeOK
<1>3. swap \in [at : Steps, key : 0 .. MaxKeys, had : BOOLEAN]
  BY <1>1 DEF TypeOK
<1>4. CASE Forget
  <2>1. swap.at = "forget" /\ swap'.at = "forgetSync" /\ Shown.path # None
    BY <1>1, <1>3, <1>4 DEF Forget, Goto, PhaseInv
  <2>2. Recovered(Remove("previous")) = Recovered(Shown)
    BY <1>1, <2>1, CallsAreKnown DEF Recovered
  <2>3. Reaches(Remove("previous")) \/ Reaches(Shown)
    BY <1>1, <1>4, CallsAreKnown, ChangeReaches, FailReaches DEF Forget
  <2> QED BY <1>2, <2>1, <2>2, <2>3, OpeningCore
<1>5. CASE ForgetSync
  <2>1. swap'.at = "load"
    BY <1>3, <1>5 DEF ForgetSync, Goto
  <2>2. Reaches(Shown) /\ \A left \in Survivors' : left = Shown
    <3>1. CASE Syncs
      BY <1>1, <3>1, SyncReaches
    <3>2. CASE errors < MaxErrors /\ errors' = errors + 1 /\ unsynced' = TRUE
               /\ UNCHANGED disk
      <4>1. Reaches(Shown)
        BY <1>1, <3>2, SameReaches
      <4>2. Survivors' = {Shown'} /\ Shown' = Shown
        BY <3>2, <4>1 DEF Survivors, Reaches
      <4> QED BY <4>1, <4>2
    <3> QED BY <1>5, <3>1, <3>2 DEF ForgetSync
  <2> QED BY <1>2, <2>1, <2>2, OpeningCore
<1>6. CASE Recover
  <2>1. Recovered(Rename("previous", "path")) = Recovered(Shown)
    BY <1>1, <1>2, <1>6, CallsAreKnown DEF Recovered, Recover, PhaseInv
  <2>2. \/ Reaches(Rename("previous", "path")) /\ swap'.at = "recoverSync"
        \/ Reaches(Shown) /\ swap'.at = "failed"
    BY <1>1, <1>3, <1>6, CallsAreKnown, ChangeReaches, FailReaches DEF Recover, Goto
  <2> QED BY <1>2, <2>1, <2>2, OpeningCore
<1>7. CASE RecoverSync
  <2>1. \/ swap'.at = "load" /\ Reaches(Shown) /\ \A left \in Survivors' : left = Shown
        \/ swap'.at = "failed" /\ Reaches(Shown)
    BY <1>1, <1>3, <1>7, SyncReaches, FailReaches DEF RecoverSync, Goto
  <2> QED BY <1>2, <2>1, OpeningCore
<1> QED BY <1>4, <1>5, <1>6, <1>7

\* The calls that replace the key, each of which may fail.
LEMMA ReplacementCore ==
    ASSUME BasicInv, BasicInv', Core, OneFailure, OneFailure',
           Discard \/ Move \/ Install \/ Sync \/ Clean \/ CleanSync
           \/ Undo \/ UndoMove \/ UndoSync \/ Restore
    PROVE  Core'
<1>1. TypeOK /\ NumberInv /\ PhaseInv /\ SwapInv
  BY DEF BasicInv, Core
<1>2. Quiet /\ swap.at \in Replacing
  BY DEF Discard, Move, Install, Sync, Clean, CleanSync, Undo, UndoMove, UndoSync, Restore,
         Replacing
<1>3. PICK old, new : old = client.key /\ new = swap.key
  OBVIOUS
<1>4. /\ client' = client /\ storedDomain' = storedDomain /\ used' = used
      /\ used = old /\ storedDomain = None
      /\ client.at = "resetting" => old # None
      /\ client.at = "opening" => old = None
      /\ client.at \in {"opening", "resetting"}
      /\ new # None /\ None = 0
  <2>1. client.at \in {"opening", "resetting"}
    BY <1>1, <1>2 DEF PhaseInv, TypeOK, Replacing
  <2> QED BY <1>1, <1>2, <1>3, <2>1, IdentitySwapAssumption
          DEF Quiet, SwapInv, PhaseInv, NumberInv, TypeOK, None
<1>5. /\ Remove("path") = [path |-> None, previous |-> Shown.previous]
      /\ Remove("previous") = [path |-> Shown.path, previous |-> None]
      /\ Rename("path", "previous") = [path |-> None, previous |-> Shown.path]
      /\ Rename("previous", "path") = [path |-> Shown.previous, previous |-> None]
      /\ \A files : files \in KnownFiles /\ Change(files) => Reaches(files) /\ errors' = errors
      /\ {Remove("path"), Remove("previous"), Rename("path", "previous"),
          Rename("previous", "path")} \subseteq KnownFiles
      /\ Shown \in Survivors
  <2>1. \A files : files \in KnownFiles /\ Change(files) => Reaches(files) /\ errors' = errors
    BY <1>1, CallsAreKnown, ChangeReaches DEF Change
  <2> QED BY <1>1, <2>1, CallsAreKnown, SurvivorsKnown
<1>6. /\ Fails => errors = 0 /\ errors' = 1 /\ Reaches(Shown)
      /\ Syncs => /\ errors' = errors /\ Reaches(Shown)
                  /\ \A left \in Survivors' : left = Shown
      /\ UNCHANGED <<disk, errors, unsynced>> => errors' = errors /\ Reaches(Shown)
  BY <1>1, FailsOnce, SyncReaches, SameReaches DEF Syncs
<1>7. swap \in [at : Steps, key : 0 .. MaxKeys, had : BOOLEAN]
  BY <1>1 DEF TypeOK
<1>8. ASSUME SwapInv', swap'.key = swap.key, swap'.at \in Replacing \cup {"failed"},
             client.at = "resetting" => Hold({old, new})'
      PROVE  Core'
  BY <1>2, <1>3, <1>8, ReplaceCore
\* What is left holds one of `keys' if it did, or was made to.
<1>9. ASSUME NEW keys, NEW files, Reaches(files), Recovered(files) \in keys,
             Hold(keys) \/ \A left \in Survivors' : left = files
      PROVE  Hold(keys)' /\ \A left \in Survivors' : Recovered(left) \in keys
  <2>1. Hold(keys)'
    BY <1>9, HoldReaches DEF Hold
  <2> QED BY <2>1 DEF Hold
<1>10. CASE Discard
  <2>1. /\ Shown.path = old /\ ~swap.had
        /\ client.at = "resetting" => Hold({old})
    BY <1>1, <1>3, <1>10 DEF Discard, SwapInv
  <2>2. swap'.key = swap.key /\ swap'.had = swap.had /\ swap'.at \in {"move", "failed"}
    BY <1>7, <1>10 DEF Discard, Goto
  <2>3. PICK files : /\ Reaches(files) /\ files.path = old
                     /\ swap'.at = "move" => files.previous = None
    BY <1>5, <1>6, <1>7, <1>10, <2>1 DEF Discard, Goto
  <2>4. client.at = "resetting" => Hold({old})'
    BY <1>4, <1>9, <2>1, <2>3 DEF Recovered
  <2>5. SwapInv'
    BY <1>3, <1>4, <2>1, <2>2, <2>3, <2>4 DEF SwapInv, Reaches, Hold, Replacing
  <2> QED BY <1>8, <2>2, <2>4, <2>5 DEF Hold, Replacing
<1>11. CASE Move
  <2>1. /\ swap.at = "move" /\ Shown.path = old /\ Shown.previous = None /\ ~swap.had
        /\ client.at = "resetting" => Hold({old})
    BY <1>1, <1>3, <1>11 DEF Move, SwapInv
  <2>2. /\ swap'.key = swap.key /\ swap'.at \in {"install", "failed"}
        /\ swap'.at = "install" => (swap'.had <=> old # None)
    BY <1>7, <1>11, <2>1 DEF Move, Goto
  <2>3. PICK files : /\ Reaches(files)
                     /\ swap'.at = "install" => files.path = None /\ files.previous = old
                     /\ swap'.at = "failed" => files.path = old
                     /\ Recovered(files) = old
    <3>1. Recovered(Shown) = old /\ Recovered(Rename("path", "previous")) = old
      BY <1>5, <2>1 DEF Recovered
    <3> QED BY <1>5, <1>6, <1>7, <1>11, <2>1, <3>1 DEF Move, Goto
  <2>4. client.at = "resetting" => Hold({old})'
    BY <1>9, <2>1, <2>3
  <2>5. SwapInv'
    BY <1>3, <1>4, <2>2, <2>3, <2>4 DEF SwapInv, Reaches, Hold, Replacing
  <2> QED BY <1>8, <2>2, <2>4, <2>5 DEF Hold, Replacing
<1>12. CASE Install
  <2>1. /\ swap.at = "install" /\ Shown.path = None /\ Shown.previous = old
        /\ swap.had <=> old # None
        /\ client.at = "resetting" => Hold({old})
    BY <1>1, <1>3, <1>12 DEF Install, SwapInv
  <2>2. swap'.key = swap.key /\ swap'.had = swap.had
    BY <1>7, <1>12 DEF Install, Goto
  <2>3. CASE Change([Shown EXCEPT !.path = swap.key]) /\ Goto("sync")
    <3> DEFINE files == [Shown EXCEPT !.path = swap.key]
    <3>1. /\ files \in KnownFiles /\ files.path = new /\ files.previous = old
          /\ Recovered(files) = new
      <4>1. Shown \in KnownFiles /\ swap.key \in 0 .. generated
        BY <1>1, <1>2, CallsAreKnown, IdentitySwapAssumption DEF NumberInv, TypeOK
      <4>2. files \in KnownFiles /\ files.path = new /\ files.previous = old
        BY <1>3, <2>1, <4>1 DEF KnownFiles
      <4> QED BY <1>4, <4>2 DEF Recovered
    <3>2. Reaches(files) /\ swap'.at = "sync"
      BY <1>5, <1>7, <2>3, <3>1 DEF Goto
    <3> HIDE DEF files
    <3>3. client.at = "resetting" => Hold({old, new})'
      <4>1. client.at = "resetting" => Hold({old, new})
        BY <2>1 DEF Hold
      <4> QED BY <1>9, <3>1, <3>2, <4>1
    <3>4. SwapInv'
      BY <1>3, <1>4, <2>1, <2>2, <3>1, <3>2 DEF SwapInv, Reaches, Replacing
    <3> QED BY <1>8, <2>2, <3>2, <3>3, <3>4 DEF Replacing
  <2>4. CASE Fails /\ Goto(IF swap.had THEN "restore" ELSE "failed")
    <3>1. /\ Reaches(Shown) /\ errors' = 1
          /\ swap'.at = IF old # None THEN "restore" ELSE "failed"
      BY <1>6, <1>7, <2>1, <2>4 DEF Goto
    <3>2. client.at = "resetting" => Hold({old})'
      BY <1>9, <2>1, <3>1 DEF Recovered
    <3>3. SwapInv'
      BY <1>3, <1>4, <2>1, <2>2, <3>1, <3>2 DEF SwapInv, Reaches, Hold, Replacing
    <3> QED BY <1>8, <2>2, <3>1, <3>2, <3>3 DEF Hold, Replacing
  <2> QED BY <1>12, <2>3, <2>4 DEF Install
<1>13. CASE Sync
  <2>1. /\ swap.at = "sync" /\ Shown.path = new /\ Shown.previous = old
        /\ swap.had <=> old # None
        /\ client.at = "resetting" => Hold({old, new})
    BY <1>1, <1>3, <1>13 DEF Sync, SwapInv, Core, IdentityKept, Hold
  <2>2. swap'.key = swap.key /\ swap'.had = swap.had /\ swap'.at \in {"clean", "undo"}
    BY <1>7, <1>13 DEF Sync, Goto
  <2>3. /\ Reaches(Shown)
        /\ swap'.at = "clean" => \A left \in Survivors' : left = Shown
        /\ swap'.at = "undo" => errors' = 1
    BY <1>6, <1>7, <1>13 DEF Sync, Goto
  <2>4. Recovered(Shown) = new
    BY <1>4, <2>1 DEF Recovered
  <2>5. /\ swap'.at = "clean" => \A left \in Survivors' : Recovered(left) \in {new}
        /\ client.at = "resetting" => Hold({old, new})'
    BY <1>9, <2>1, <2>3, <2>4
  <2>6. SwapInv'
    BY <1>3, <1>4, <2>1, <2>2, <2>3, <2>5 DEF SwapInv, Reaches, Hold, Replacing
  <2> QED BY <1>8, <2>2, <2>5, <2>6 DEF Replacing
<1>14. CASE Clean
  <2>1. swap.at = "clean" /\ Shown.path = new /\ Hold({new})
    BY <1>1, <1>3, <1>14 DEF Clean, SwapInv, Hold
  <2>2. swap'.key = swap.key /\ swap'.at = "cleanSync"
    BY <1>7, <1>14 DEF Clean, Goto
  <2>3. PICK files : Reaches(files) /\ files.path = new
    BY <1>5, <1>6, <1>14, <2>1 DEF Clean
  <2>4. Hold({new})'
    BY <1>4, <1>9, <2>1, <2>3 DEF Recovered
  <2>5. SwapInv'
    BY <1>3, <1>4, <2>2, <2>3, <2>4 DEF SwapInv, Reaches, Hold, Replacing
  <2> QED BY <1>8, <2>2, <2>4, <2>5 DEF Hold, Replacing
<1>15. CASE CleanSync
  <2>1. swap.at = "cleanSync" /\ Shown.path = new /\ Hold({new})
    BY <1>1, <1>3, <1>15 DEF CleanSync, SwapInv, Hold
  <2>2. swap'.key = swap.key /\ swap'.at = "done" /\ Reaches(Shown)
    BY <1>6, <1>7, <1>15 DEF CleanSync, Goto
  <2>3. Hold({new})'
    BY <1>4, <1>9, <2>1, <2>2 DEF Recovered
  <2>4. SwapInv'
    BY <1>3, <1>4, <2>1, <2>2, <2>3 DEF SwapInv, Reaches, Hold, Replacing
  <2> QED BY <1>8, <2>2, <2>3, <2>4 DEF Hold, Replacing
<1>16. ASSUME swap.at \in {"undo", "undoMove", "undoSync"}
       PROVE  client.at = "resetting" => Hold({old, new})
  BY <1>3 DEF Core, IdentityKept, Hold
<1>17. CASE Undo
  <2>1. /\ swap.at = "undo" /\ Shown.path = new /\ Shown.previous = old /\ errors = 1
        /\ swap.had <=> old # None
    BY <1>1, <1>3, <1>17 DEF Undo, SwapInv
  <2>2. /\ swap'.key = swap.key
        /\ swap'.at = IF old # None THEN "undoMove" ELSE "undoSync"
    BY <1>7, <1>17, <2>1 DEF Undo, Goto
  <2>3. PICK files : /\ Reaches(files) /\ errors' = 1
                     /\ files.path = None /\ files.previous = old
    BY <1>5, <1>6, <1>17, <2>1 DEF Undo
  <2>4. client.at = "resetting" => Hold({old, new})'
    BY <1>9, <1>16, <2>1, <2>3 DEF Recovered
  <2>5. SwapInv'
    BY <1>3, <1>4, <2>2, <2>3 DEF SwapInv, Reaches, Replacing
  <2> QED BY <1>8, <2>2, <2>4, <2>5 DEF Replacing
<1>18. CASE UndoMove
  <2>1. /\ swap.at = "undoMove" /\ Shown.path = None /\ Shown.previous = old /\ errors = 1
    BY <1>1, <1>3, <1>18 DEF UndoMove, SwapInv
  <2>2. swap'.key = swap.key /\ swap'.at = "undoSync"
    BY <1>7, <1>18 DEF UndoMove, Goto
  <2>3. PICK files : /\ Reaches(files) /\ errors' = 1
                     /\ files.path = old /\ files.previous = None
    BY <1>5, <1>6, <1>18, <2>1 DEF UndoMove
  <2>4. client.at = "resetting" => Hold({old, new})'
    BY <1>4, <1>9, <1>16, <2>1, <2>3 DEF Recovered
  <2>5. SwapInv'
    BY <1>3, <1>4, <2>2, <2>3 DEF SwapInv, Reaches, Replacing
  <2> QED BY <1>8, <2>2, <2>4, <2>5 DEF Replacing
<1>19. CASE UndoSync
  <2>1. /\ swap.at = "undoSync" /\ Shown.path = old /\ Shown.previous = None /\ errors = 1
    BY <1>1, <1>3, <1>19 DEF UndoSync, SwapInv
  <2>2. swap'.key = swap.key /\ swap'.at = "failed"
    BY <1>7, <1>19 DEF UndoSync, Goto
  <2>3. Reaches(Shown) /\ \A left \in Survivors' : left = Shown
    BY <1>6, <1>19, <2>1 DEF UndoSync
  <2>4. client.at = "resetting" => Hold({old})'
    BY <1>4, <1>9, <2>1, <2>3 DEF Recovered
  <2>5. SwapInv'
    BY <1>3, <1>4, <2>1, <2>2, <2>3, <2>4 DEF SwapInv, Reaches, Hold, Replacing
  <2> QED BY <1>8, <2>2, <2>4, <2>5 DEF Hold, Replacing
<1>20. CASE Restore
  <2>1. /\ swap.at = "restore" /\ Shown.path = None /\ Shown.previous = old /\ errors = 1
        /\ client.at = "resetting" => Hold({old})
    BY <1>1, <1>3, <1>20 DEF Restore, SwapInv
  <2>2. swap'.key = swap.key /\ swap'.at = "failed"
    BY <1>7, <1>20 DEF Restore, Goto
  <2>3. PICK files : Reaches(files) /\ files.path = old
    BY <1>5, <1>6, <1>20, <2>1 DEF Restore
  <2>4. client.at = "resetting" => Hold({old})'
    BY <1>4, <1>9, <2>1, <2>3 DEF Recovered
  <2>5. SwapInv'
    BY <1>3, <1>4, <2>2, <2>3, <2>4 DEF SwapInv, Reaches, Hold, Replacing
  <2> QED BY <1>8, <2>2, <2>4, <2>5 DEF Hold, Replacing
<1> QED BY <1>10, <1>11, <1>12, <1>13, <1>14, <1>15, <1>17, <1>18, <1>19, <1>20

\* What the directory shows and may survive with depends on the disk alone.
LEMMA SameDisk ==
    ASSUME UNCHANGED <<disk, unsynced>>
    PROVE  Shown' = Shown /\ Survivors' = Survivors
<1>1. Shown' = Shown
  BY DEF Shown
<1> QED BY <1>1 DEF Survivors

\* No failure is taken back.
LEMMA ErrorsGrow == TypeOK /\ [Next]_vars => errors <= errors'
<1> SUFFICES ASSUME TypeOK, [Next]_vars PROVE errors <= errors'
  OBVIOUS
<1>1. errors \in Nat
  BY IdentitySwapAssumption DEF TypeOK
<1>2. errors' = errors \/ errors' = errors + 1
  BY DEF Next, vars, Change, Fails, Syncs, Open, Forget, ForgetSync, Recover, RecoverSync,
         Create, Load, ResetIdentity, Discard, Move, Install, Sync, Clean, CleanSync, Undo,
         UndoMove, UndoSync, Restore, Succeed, Fail, ConfirmDomain, DomainResolved,
         ClearDomain, Kill, PowerLoss, Killed
<1> QED BY <1>1, <1>2

\* The invariant holds at the first start ...
LEMMA InitIdentity == Init => IdentityInv
<1> SUFFICES ASSUME Init PROVE IdentityInv
  OBVIOUS
<1>1. BasicInv
  BY InitBasic
<1>2. client = Stopped /\ swap = NoSwap /\ storedDomain = None /\ used = None
  BY DEF Init
<1>3. ClientInv /\ SwapInv /\ DomainIsOwn /\ IdentityKept
  BY <1>2 DEF ClientInv, SwapInv, DomainIsOwn, IdentityKept, Stopped, NoSwap, Replacing
<1>4. ResetIsLasting
  BY <1>1, <1>2, SurvivorsKnown DEF ResetIsLasting, KeysSurvive, None
<1> QED BY <1>1, <1>3, <1>4 DEF IdentityInv, Core

\* ... and every step keeps it.
LEMMA NextIdentity == IdentityInv /\ [Next]_vars => IdentityInv'
<1> SUFFICES ASSUME IdentityInv, [Next]_vars, OneFailure' PROVE Core'
  BY NextBasic DEF IdentityInv
<1>1. BasicInv /\ BasicInv' /\ TypeOK /\ NumberInv /\ PhaseInv
  BY NextBasic DEF IdentityInv, BasicInv
<1>2. OneFailure /\ Core
  <2>1. errors \in Nat /\ errors' \in Nat
    BY <1>1, IdentitySwapAssumption DEF BasicInv, TypeOK
  <2>2. errors <= errors'
    BY <1>1, ErrorsGrow
  <2>3. OneFailure
    BY <2>1, <2>2 DEF OneFailure
  <2> QED BY <2>3 DEF IdentityInv
<1>3. ClientInv /\ SwapInv /\ DomainIsOwn /\ IdentityKept /\ ResetIsLasting
  BY <1>2 DEF Core
<1>4. KeysSurvive /\ Shown \in Survivors /\ used \in Nat /\ client.key \in Nat /\ None = 0
  BY <1>1, SurvivorsKnown, IdentitySwapAssumption DEF TypeOK, None
<1> USE DEF Replacing
<1>5. CASE Open
  <2>1. /\ client' = [Stopped EXCEPT !.at = "opening"] /\ swap'.at \in {"forget", "recover", "create"}
        /\ storedDomain' = storedDomain /\ used' = used /\ UNCHANGED <<disk, unsynced>>
    BY <1>5 DEF Open, NoSwap
  <2>2. client'.at = "opening"
    BY <2>1 DEF Stopped
  <2> QED BY <1>2, <1>3, <2>1, <2>2, SameDisk
          DEF Core, ClientInv, SwapInv, DomainIsOwn, IdentityKept, ResetIsLasting
<1>6. CASE Create
  <2>1. /\ Shown.path = None /\ Shown.previous = None /\ client.key = None
        /\ client.at = "opening"
    BY <1>1, <1>6 DEF Create, PhaseInv, TypeOK
  <2>2. used = None /\ storedDomain = None
    <3>1. Recovered(Shown) = None
      BY <2>1 DEF Recovered
    <3> QED BY <1>2, <1>3, <1>4, <3>1 DEF ResetIsLasting, DomainIsOwn
  <2>3. /\ swap' = [at |-> "discard", key |-> generated + 1, had |-> FALSE]
        /\ UNCHANGED <<disk, unsynced, client, storedDomain, used>>
    BY <1>6 DEF Create, Stage
  <2>4. Shown' = Shown /\ Survivors' = Survivors
    BY <2>3, SameDisk
  <2>5. SwapInv'
    BY <2>1, <2>2, <2>3, <2>4 DEF SwapInv
  <2>6. ClientInv' /\ DomainIsOwn' /\ IdentityKept'
    BY <2>1, <2>2, <2>3 DEF ClientInv, DomainIsOwn, IdentityKept
  <2>7. ResetIsLasting'
    BY <1>2, <1>3, <2>3, <2>4 DEF ResetIsLasting
  <2> QED BY <2>5, <2>6, <2>7 DEF Core
<1>7. CASE Load
  <2>1. /\ Shown.path # None /\ \A left \in Survivors : left = Shown
        /\ Recovered(Shown) = Shown.path
    BY <1>1, <1>3, <1>7 DEF Load, PhaseInv, ClientInv, Recovered
  <2>2. /\ client' = [at |-> "running", key |-> Shown.path, domain |-> storedDomain]
        /\ used' = Shown.path /\ swap' = NoSwap
        /\ UNCHANGED <<disk, unsynced, storedDomain>>
    BY <1>7 DEF Load
  <2>3. storedDomain \in {None, Shown.path}
    BY <1>2, <1>3, <1>4, <2>1 DEF DomainIsOwn
  <2>4. Shown' = Shown /\ Survivors' = Survivors
    BY <2>2, SameDisk
  <2>5. ClientInv' /\ SwapInv'
    BY <2>2, <2>3, <2>4 DEF ClientInv, SwapInv, NoSwap
  <2>6. DomainIsOwn' /\ IdentityKept'
    BY <2>1, <2>2, <2>3, <2>4 DEF DomainIsOwn, IdentityKept
  <2>7. ResetIsLasting'
    BY <1>4, <2>1, <2>2, <2>4 DEF ResetIsLasting, KeysSurvive
  <2> QED BY <2>5, <2>6, <2>7 DEF Core
<1>8. CASE ResetIdentity
  <2>1. client.at = "running" /\ Shown.path = client.key /\ client.key # None /\ swap.at = "none"
    BY <1>1, <1>3, <1>8 DEF ResetIdentity, ClientInv, TypeOK, PhaseInv
  <2>2. CASE Fails /\ UNCHANGED <<storedDomain, client, swap, generated, confirming, used>>
    <3>1. Shown' = Shown /\ Survivors' = Survivors
      BY <2>2, SameDisk DEF Fails
    <3> QED BY <1>2, <1>3, <2>1, <2>2, <3>1
            DEF Core, ClientInv, SwapInv, DomainIsOwn, IdentityKept, ResetIsLasting
  <2>3. CASE /\ Stage("discard") /\ storedDomain' = None
             /\ client' = [client EXCEPT !.at = "resetting"]
             /\ UNCHANGED <<disk, errors, unsynced, confirming, used>>
    <3>1. /\ Shown' = Shown /\ Survivors' = Survivors
          /\ client'.at = "resetting" /\ client'.key = client.key
          /\ client'.domain = client.domain
      BY <1>1, <2>3, SameDisk DEF TypeOK
    <3>2. swap' = [at |-> "discard", key |-> generated + 1, had |-> FALSE]
      BY <2>3 DEF Stage
    <3>3. Hold({client.key})
      BY <1>2, <1>3, <2>1 DEF IdentityKept, Hold
    <3>4. ClientInv'
      BY <1>3, <2>1, <2>3, <3>1, <3>2 DEF ClientInv
    <3>5. SwapInv'
      BY <1>3, <2>1, <2>3, <3>1, <3>2, <3>3 DEF SwapInv, ClientInv, Hold
    <3>6. DomainIsOwn' /\ IdentityKept'
      BY <2>3, <3>1, <3>2, <3>3 DEF DomainIsOwn, IdentityKept, Hold
    <3>7. ResetIsLasting'
      BY <1>2, <1>3, <2>3, <3>1 DEF ResetIsLasting
    <3> QED BY <3>4, <3>5, <3>6, <3>7 DEF Core
  <2> QED BY <1>8, <2>2, <2>3 DEF ResetIdentity
<1>9. CASE Succeed
  <2>1. /\ Shown.path = swap.key /\ Hold({swap.key}) /\ storedDomain = None
        /\ swap.key \in Nat
    BY <1>1, <1>3, <1>9, IdentitySwapAssumption DEF Succeed, SwapInv, TypeOK
  <2>2. /\ client' = [at |-> "running", key |-> swap.key, domain |-> None]
        /\ used' = swap.key /\ swap' = NoSwap /\ UNCHANGED <<disk, unsynced, storedDomain>>
    BY <1>9, <2>1 DEF Succeed
  <2>3. Shown' = Shown /\ Survivors' = Survivors
    BY <2>2, SameDisk
  <2>4. ClientInv' /\ SwapInv'
    BY <2>1, <2>2, <2>3 DEF ClientInv, SwapInv, NoSwap
  <2>5. DomainIsOwn' /\ IdentityKept' /\ ResetIsLasting'
    BY <2>1, <2>2, <2>3 DEF DomainIsOwn, IdentityKept, ResetIsLasting, Hold
  <2> QED BY <2>4, <2>5 DEF Core
<1>10. CASE Fail
  <2>1. /\ swap' = NoSwap /\ used' = used /\ UNCHANGED <<disk, unsynced>>
        /\ client.at \in {"opening", "resetting"}
    BY <1>1, <1>10 DEF Fail, Fails, PhaseInv, TypeOK
  <2>2. Shown' = Shown /\ Survivors' = Survivors
    BY <2>1, SameDisk
  <2>3. CASE client.at = "opening"
    <3>1. client' = Stopped /\ storedDomain' = storedDomain
      BY <1>10, <2>3 DEF Fail
    <3> QED BY <1>2, <1>3, <2>1, <2>2, <3>1 DEF Core, ClientInv, SwapInv, DomainIsOwn,
            IdentityKept, ResetIsLasting, Stopped, NoSwap
  <2>4. CASE client.at = "resetting"
    <3>1. /\ client'.at = "running" /\ client'.key = client.key
          /\ client'.domain = client.domain
          /\ storedDomain' \in {storedDomain, client.domain}
      BY <1>1, <1>10, <2>4 DEF Fail, TypeOK
    <3>2. /\ Shown.path = client.key /\ Hold({client.key}) /\ used = client.key
          /\ client.domain \in {None, client.key}
      BY <1>3, <1>10, <2>4 DEF Fail, SwapInv, ClientInv, Hold
    <3>3. ClientInv' /\ SwapInv'
      BY <2>1, <2>2, <3>1, <3>2 DEF ClientInv, SwapInv, NoSwap
    <3>4. DomainIsOwn' /\ IdentityKept'
      BY <1>2, <1>3, <2>1, <2>2, <3>1, <3>2 DEF DomainIsOwn, IdentityKept, Hold
    <3>5. ResetIsLasting'
      BY <1>2, <1>3, <2>1, <2>2 DEF ResetIsLasting
    <3> QED BY <3>3, <3>4, <3>5 DEF Core
  <2> QED BY <2>1, <2>3, <2>4
<1>11. CASE ConfirmDomain \/ DomainResolved \/ ClearDomain
  <2>1. /\ client.at = "running" /\ client'.at = "running" /\ client'.key = client.key
        /\ UNCHANGED <<disk, unsynced, swap, used>>
        /\ client'.domain \in {None, client.domain, client.key}
        /\ storedDomain' \in {None, storedDomain, client.key}
    BY <1>1, <1>11 DEF ConfirmDomain, DomainResolved, ClearDomain, Confirmable, TypeOK
  <2>2. Shown' = Shown /\ Survivors' = Survivors /\ swap.at = "none"
    BY <1>1, <2>1, SameDisk DEF PhaseInv
  <2>3. ClientInv' /\ SwapInv'
    BY <1>3, <2>1, <2>2 DEF ClientInv, SwapInv
  <2>4. IdentityKept' /\ ResetIsLasting'
    BY <1>2, <1>3, <2>1, <2>2 DEF IdentityKept, ResetIsLasting
  <2>5. DomainIsOwn'
    BY <1>2, <1>3, <2>1, <2>2 DEF DomainIsOwn, IdentityKept
  <2> QED BY <2>3, <2>4, <2>5 DEF Core
<1>12. CASE Kill \/ PowerLoss
  <2>1. /\ client' = Stopped /\ swap' = NoSwap /\ UNCHANGED <<storedDomain, used>>
    BY <1>12 DEF Kill, PowerLoss, Killed
  <2>2. \A left \in Survivors' : left \in Survivors
    <3>1. CASE Kill
      BY <3>1, SameDisk DEF Kill, Killed
    <3>2. CASE PowerLoss
      BY <1>1, <3>2, PowerLossReaches DEF Reaches
    <3> QED BY <1>12, <3>1, <3>2
  <2>3. ClientInv' /\ SwapInv' /\ IdentityKept'
    BY <2>1 DEF ClientInv, SwapInv, IdentityKept, Stopped, NoSwap
  <2>4. DomainIsOwn' /\ ResetIsLasting'
    BY <1>2, <1>3, <2>1, <2>2 DEF DomainIsOwn, ResetIsLasting, Stopped
  <2> QED BY <2>3, <2>4 DEF Core
<1>13. CASE UNCHANGED vars
  <2>1. Shown' = Shown /\ Survivors' = Survivors
    BY <1>13, SameDisk DEF vars
  <2> QED BY <1>2, <1>3, <1>13, <2>1 DEF vars, Core, ClientInv, SwapInv, DomainIsOwn,
          IdentityKept, ResetIsLasting, Hold
<1> QED BY <1>1, <1>2, <1>5, <1>6, <1>7, <1>8, <1>9, <1>10, <1>11, <1>12, <1>13,
           RecoveryCore, ReplacementCore DEF Next

-----------------------------------------------------------------------------
\* The results.

\* A domain is neither stored nor shown for another key, however often the identity
\* is reset and wherever the client is killed or a call fails.
THEOREM DomainsAreOwn == Spec => []DomainIsOwn
<1>1. IdentityInv => DomainIsOwn
  BY DEF IdentityInv, Core, DomainIsOwn
<1> QED BY <1>1, InitIdentity, NextIdentity, PTL DEF Spec

\* The key a client runs with is what any start after a crash finds, or the new one
\* of the reset that was interrupted.
THEOREM TheIdentityIsKept == Spec => []IdentityKept
<1>1. IdentityInv => IdentityKept
  BY DEF IdentityInv, Core, IdentityKept
<1> QED BY <1>1, InitIdentity, NextIdentity, PTL DEF Spec

\* No start finds a key older than the last one a client ran with.
THEOREM ResetsLast == Spec => []ResetIsLasting
<1>1. IdentityInv => ResetIsLasting
  BY DEF IdentityInv, Core, ResetIsLasting
<1> QED BY <1>1, InitIdentity, NextIdentity, PTL DEF Spec
=============================================================================
