------------------------------ MODULE RoomRules ------------------------------
(***************************************************************************)
(* The rules of a room: who may author which event, and what a canonical   *)
(* event does to the room.  The repository writes them twice.  The         *)
(* sequencer and the replicas apply the rules of internal/store/commit.go  *)
(* to SQL tables (the Store... operators).  Clients, and the audit every   *)
(* authority runs when it starts, apply those of                           *)
(* internal/community/projection.go to a RoomState held in memory (the     *)
(* Projection... operators).  Both are translated here; that they accept   *)
(* the same histories is a theorem (module SequencerProofs).               *)
(*                                                                         *)
(* A room is the part of the state both implementations keep: the name,    *)
(* the write policy, the holders of the two delegated roles, the pinned    *)
(* message ids and the ids of the messages that exist.  The sorted lists   *)
(* of the signed RoomState are sets here.                                  *)
(***************************************************************************)
EXTENDS Naturals, FiniteSets

CONSTANTS
    Keys,           \* Identity public keys.
    Owner,          \* The holder of room_key, the non-delegated owner.
    Names,          \* Room names (the description travels with the name).
    GenesisName,    \* The name, write policy and admins that genesis fixes.
    GenesisAnyone,
    GenesisAdmins,
    MaxPins,        \* community.MaxPins, MaxAdmins and MaxModerators.
    MaxAdmins,
    MaxModerators

ASSUME RoomAssumption ==
    /\ Owner \in Keys
    /\ GenesisName \in Names
    /\ GenesisAnyone \in BOOLEAN
    /\ GenesisAdmins \subseteq Keys \ {Owner}
    /\ {MaxPins, MaxAdmins, MaxModerators} \subseteq Nat

PinTypes == {"pin", "unpin"}
GrantTypes == {"admin_grant", "moderator_grant"}
RevokeTypes == {"admin_revoke", "moderator_revoke"}
RoleTypes == GrantTypes \cup RevokeTypes

\* The bodies of a proposal; one record shape per family of event types.
Body ==
    [type : {"message"}]
    \cup [type : {"metadata"}, name : Names]
    \cup [type : {"write_policy"}, anyone : BOOLEAN]
    \cup [type : PinTypes, message : Nat]
    \cup [type : RoleTypes, subject : Keys]

Room == [name : Names, anyone : BOOLEAN,
         admins : SUBSET Keys, moderators : SUBSET Keys,
         pins : SUBSET Nat, messages : SUBSET Nat]

GenesisRoom == [name |-> GenesisName, anyone |-> GenesisAnyone,
                admins |-> GenesisAdmins, moderators |-> {},
                pins |-> {}, messages |-> {}]

\* Every event except a message changes the room state and is followed by a
\* freshly signed snapshot.
StateChangingWithoutPolicy(body) == body.type \notin {"message", "write_policy"}
StateChanging(body) == body.type # "message"

IsAdminType(type) == type \in {"admin_grant", "admin_revoke"}

RoleHolders(room, type) == IF IsAdminType(type) THEN room.admins ELSE room.moderators
RoleLimit(type) == IF IsAdminType(type) THEN MaxAdmins ELSE MaxModerators

(***************************************************************************)
(* The projection's rules.                                                 *)
(***************************************************************************)
ProjectionAuthorizes(room, author, body) ==
    LET owner == author = Owner
        admin == author \in room.admins
        moderator == author \in room.moderators
    IN  CASE body.type = "message" -> room.anyone \/ owner \/ admin
          [] body.type \in {"metadata", "write_policy"} -> owner \/ admin
          [] body.type \in PinTypes -> owner \/ admin \/ moderator
          [] body.type \in {"admin_grant", "admin_revoke"} -> owner
          [] body.type \in {"moderator_grant", "moderator_revoke"} -> owner \/ admin
          [] OTHER -> FALSE

\* Prepare's checks.  A duplicate is found before the limit is looked at, so
\* an over-limit duplicate is a conflict here and a limit in StoreVerdict.
ProjectionVerdict(room, body) ==
    CASE body.type = "pin" ->
           IF body.message \notin room.messages THEN "message"
           ELSE IF body.message \in room.pins THEN "conflict"
           ELSE IF Cardinality(room.pins) >= MaxPins THEN "limit"
           ELSE "ok"
      [] body.type = "unpin" ->
           IF body.message \in room.pins THEN "ok" ELSE "conflict"
      [] body.type \in GrantTypes ->
           IF body.subject = Owner \/ body.subject \in RoleHolders(room, body.type)
           THEN "conflict"
           ELSE IF Cardinality(RoleHolders(room, body.type)) >= RoleLimit(body.type)
                THEN "limit"
           ELSE "ok"
      [] body.type \in RevokeTypes ->
           IF body.subject = Owner \/ body.subject \notin RoleHolders(room, body.type)
           THEN "conflict" ELSE "ok"
      [] OTHER -> "ok"

\* What Commit does with the prepared transition: a message only joins the
\* known message ids, everything else replaces the state.
ProjectionEffect(room, seqno, body) ==
    LET granted(role) == role \cup {body.subject}
        revoked(role) == role \ {body.subject}
    IN  CASE body.type = "message" -> [room EXCEPT !.messages = @ \cup {seqno}]
          [] body.type = "metadata" -> [room EXCEPT !.name = body.name]
          [] body.type = "write_policy" -> [room EXCEPT !.anyone = body.anyone]
          [] body.type = "pin" -> [room EXCEPT !.pins = @ \cup {body.message}]
          [] body.type = "unpin" -> [room EXCEPT !.pins = @ \ {body.message}]
          [] body.type = "admin_grant" -> [room EXCEPT !.admins = granted(@)]
          [] body.type = "admin_revoke" -> [room EXCEPT !.admins = revoked(@)]
          [] body.type = "moderator_grant" -> [room EXCEPT !.moderators = granted(@)]
          [] body.type = "moderator_revoke" -> [room EXCEPT !.moderators = revoked(@)]
          [] OTHER -> room

(***************************************************************************)
(* The store's rules.  `anyone' is a parameter of its own because Commit   *)
(* reads the write policy from the signed snapshot while it reads the      *)
(* roles from the tables.                                                  *)
(***************************************************************************)
StoreAuthorizesAnyPin(anyone, room, author, body) ==
    LET owner == author = Owner
        admin == author \in room.admins
    IN  \/ body.type = "message" /\ (anyone \/ owner \/ admin)
        \/ body.type \in {"metadata", "write_policy"} /\ (owner \/ admin)
        \/ body.type \in PinTypes
        \/ body.type \in {"admin_grant", "admin_revoke"} /\ owner
        \/ body.type \in {"moderator_grant", "moderator_revoke"} /\ (owner \/ admin)

StoreAuthorizes(anyone, room, author, body) ==
    LET owner == author = Owner
        admin == author \in room.admins
        moderator == author \in room.moderators
    IN  \/ body.type = "message" /\ (anyone \/ owner \/ admin)
        \/ body.type \in {"metadata", "write_policy"} /\ (owner \/ admin)
        \/ body.type \in PinTypes /\ (owner \/ admin \/ moderator)
        \/ body.type \in {"admin_grant", "admin_revoke"} /\ owner
        \/ body.type \in {"moderator_grant", "moderator_revoke"} /\ (owner \/ admin)

\* The checks of pin, unpin, grantRole and revokeRole in their order: the
\* limit is tested before the INSERT that finds a duplicate.
StoreVerdict(room, body) ==
    CASE body.type = "pin" ->
           IF body.message \notin room.messages THEN "unknown_message"
           ELSE IF Cardinality(room.pins) >= MaxPins THEN "limit_exceeded"
           ELSE IF body.message \in room.pins THEN "role_conflict"
           ELSE "ok"
      [] body.type = "unpin" ->
           IF body.message \in room.pins THEN "ok" ELSE "unknown_message"
      [] body.type \in GrantTypes ->
           IF body.subject = Owner THEN "role_conflict"
           ELSE IF Cardinality(RoleHolders(room, body.type)) >= RoleLimit(body.type)
                THEN "limit_exceeded"
           ELSE IF body.subject \in RoleHolders(room, body.type) THEN "role_conflict"
           ELSE "ok"
      [] body.type \in RevokeTypes ->
           IF body.subject # Owner /\ body.subject \in RoleHolders(room, body.type)
           THEN "ok" ELSE "role_conflict"
      [] OTHER -> "ok"

\* A roles table whose key is the subject alone, filled by INSERT OR REPLACE.
StoreEffectReplacingRole(room, seqno, body) ==
    IF body.type = "admin_grant"
    THEN [room EXCEPT !.admins = @ \cup {body.subject}, !.moderators = @ \ {body.subject}]
    ELSE ProjectionEffect(room, seqno, body)

\* The SQL updates of applyProjection; a message row takes the event's seqno
\* as its id.
StoreEffect(room, seqno, body) ==
    CASE body.type = "message" -> [room EXCEPT !.messages = @ \cup {seqno}]
      [] body.type = "metadata" -> [room EXCEPT !.name = body.name]
      [] body.type = "write_policy" -> [room EXCEPT !.anyone = body.anyone]
      [] body.type = "pin" -> [room EXCEPT !.pins = @ \cup {body.message}]
      [] body.type = "unpin" -> [room EXCEPT !.pins = @ \ {body.message}]
      [] body.type = "admin_grant" -> [room EXCEPT !.admins = @ \cup {body.subject}]
      [] body.type = "admin_revoke" -> [room EXCEPT !.admins = @ \ {body.subject}]
      [] body.type = "moderator_grant" ->
           [room EXCEPT !.moderators = @ \cup {body.subject}]
      [] body.type = "moderator_revoke" ->
           [room EXCEPT !.moderators = @ \ {body.subject}]
      [] OTHER -> room
==============================================================================
