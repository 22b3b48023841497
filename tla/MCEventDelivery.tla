-------------------------- MODULE MCEventDelivery --------------------------
(***************************************************************************)
(* What reaches a program once, in order or not at all, on small instances:*)
(* the events in the queues of the channels, the rooms they come from, the *)
(* direct connections, whose events go through the bounded channel, and    *)
(* support messages.  Here they share no variable, so their steps commute: *)
(* a behaviour is one of one part, chosen at the start, with the others at *)
(* rest.                                                                   *)
(***************************************************************************)
EXTENDS EventDelivery, Rooms, DirectConnections, SupportMessages, TLC

CONSTANTS alice, bob, x1, x2, x3, l1, l2

VARIABLE part

MCPeers == {alice, bob}
MCRecords == {x1, x2, x3}
MCAuthorOf == [rec \in MCRecords |-> IF rec = x3 THEN bob ELSE alice]

DeliveryInit ==
    /\ part \in {"events", "rooms", "connections", "letters"}
    /\ Init /\ RoomInit /\ ConnInit /\ SupportInit
    /\ part # "letters" => ~contact

OthersRest ==
    /\ UNCHANGED part
    /\ part # "events" => UNCHANGED vars
    /\ part # "rooms" => UNCHANGED roomVars
    /\ part # "connections" => UNCHANGED connVars
    /\ part # "letters" => UNCHANGED letterVars

DeliveryNext ==
    /\ OthersRest
    /\ \/ part = "events" /\ Next
       \/ part = "rooms" /\ RoomNext
       \/ part = "connections" /\ ConnNext
       \/ part = "letters" /\ SupportNext

DeliverySpec == DeliveryInit /\ [][DeliveryNext]_<<part, vars, roomVars, connVars, letterVars>>

(* The variables of the part that moves keep their types.                  *)
DeliveryTypeOK ==
    /\ part = "events" => TypeOK
    /\ part = "rooms" => RoomsTypeOK
    /\ part = "connections" => ConnTypeOK
    /\ part = "letters" => SupportTypeOK

(* The channels are alike, and so are alice's two records; connections and *)
(* handles are the same model values as channels, and keys as records.     *)
Alike == Permutations(Rooms) \cup Permutations({x1, x2})
=============================================================================
