------------------------------ MODULE MCStore ------------------------------
(***************************************************************************)
(* What is kept, on small instances: in lantern.db the lines a channel's   *)
(* snapshots are made of, the friends with their devices, and the schema   *)
(* and the identity a node opens the database with; in the plugin the      *)
(* invites that come by Nostr.  Here they share no variable, so their      *)
(* steps commute: a behaviour is one of one part, chosen at the start,     *)
(* with the others at rest.                                                *)
(***************************************************************************)
EXTENDS SnapshotCache, DeviceLists, StoreSchema, NameCardInvites, TLC

CONSTANTS p1, r1, r2

VARIABLE part

(* One line of a member and one of our own.                                *)
Authors == r1 :> p1 @@ r2 :> Self

(* The batches of two versions, one of them of two statements.             *)
TwoBatches == <<2, 1>>

OneInviter == [i \in Invites |-> p1]

(* A part at rest begins in one way only.                                  *)
AtRestOnce ==
    /\ part # "snapshots" => stored = {} /\ blocked = {}
    /\ part # "schema" => userVersion = 0 /\ secret = NoKey

StoreInit ==
    /\ part \in {"snapshots", "devices", "schema", "invites"}
    /\ Init /\ DeviceInit /\ SchemaInit /\ InvitesInit
    /\ AtRestOnce

OthersRest ==
    /\ UNCHANGED part
    /\ part # "snapshots" => UNCHANGED vars
    /\ part # "devices" => UNCHANGED deviceVars
    /\ part # "schema" => UNCHANGED schemaVars
    /\ part # "invites" => UNCHANGED inviteVars

StoreNext ==
    /\ OthersRest
    /\ \/ part = "snapshots" /\ Next
       \/ part = "devices" /\ DeviceNext
       \/ part = "schema" /\ SchemaNext
       \/ part = "invites" /\ InvitesNext

StoreSpec == StoreInit /\ [][StoreNext]_<<part, vars, deviceVars, schemaVars, inviteVars>>

(* The variables of the part that moves keep their types.                  *)
StoreTypeOK ==
    /\ part = "snapshots" => TypeOK
    /\ part = "devices" => DevicesTypeOK
    /\ part = "schema" => SchemaTypeOK
    /\ part = "invites" => InvitesTypeOK

(* Handles are alike; the two devices, the two nodes that open the         *)
(* database and the two invites are the same model values.                 *)
Alike == Permutations(Handles)
=============================================================================
