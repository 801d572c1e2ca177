-------------------------- MODULE SpaceWireBridges --------------------------
(***************************************************************************)
(* SpaceWireBridges (src/src/SpaceWireBridges.hpp): the registry that       *)
(* builds the configured bridges, sends each packet to the bridge it names  *)
(* and destroys the bridges.  The registry has no lock: setup and teardown  *)
(* are called by one thread (the owner), send by another one (the sender),  *)
(* and a lookup may meet a half done insertion.                             *)
(***************************************************************************)
EXTENDS SpaceWireBridge

CONSTANTS
  Factory,     (* bridge types register_ctor was called for                 *)
  Configured   (* names under "bridges" in the configuration, in order      *)

ASSUME RegistryAssumption ==
  /\ Factory \subseteq BridgeIds
  /\ Configured \in Seq(BridgeIds)

VARIABLES
  loaded_bridges,  (* "null" between operator[] and the assignment          *)
  to_load,         (* names setup has still to load, the current one first  *)
  load_place,      (* where load_bridge stands for that name                *)
  send_place,      (* where send stands: a call of the sender, or none      *)
  request          (* the packet of that call, a sequence of at most one    *)

registryVars == <<loaded_bridges, to_load, load_place, send_place, request>>

Entries == {"absent", "null", "loaded"}
LoadPlaces == {"check", "insert", "assign"}
SendCallPlaces == {"none", "contains", "send"}

RegistryInit ==
  /\ loaded_bridges = [b \in BridgeIds |-> "absent"]
  /\ to_load = Configured
  /\ load_place = "check"
  /\ send_place = "none"
  /\ request = <<>>

-----------------------------------------------------------------------------
(* setup: load_bridge for each configured name. *)

Loading == to_load # <<>>

LoadCheck ==
  /\ Loading /\ load_place = "check"
  /\ Head(to_load) \in Factory
  /\ loaded_bridges[Head(to_load)] = "absent"
  /\ Construct(Head(to_load))
  /\ load_place' = "insert"
  /\ UNCHANGED <<loaded_bridges, to_load, send_place, request>>

LoadSkip ==
  /\ Loading /\ load_place = "check"
  /\ Head(to_load) \notin Factory \/ loaded_bridges[Head(to_load)] # "absent"
  /\ to_load' = Tail(to_load)
  /\ UNCHANGED <<bridgeVars, loaded_bridges, load_place, send_place, request>>

(* loaded_bridges[bridge_id] inserts a null pointer, then the bridge is     *)
(* moved into it.                                                           *)
LoadInsert ==
  /\ Loading /\ load_place = "insert"
  /\ loaded_bridges' = [loaded_bridges EXCEPT ![Head(to_load)] = "null"]
  /\ load_place' = "assign"
  /\ UNCHANGED <<bridgeVars, to_load, send_place, request>>

LoadAssign ==
  /\ Loading /\ load_place = "assign"
  /\ loaded_bridges' = [loaded_bridges EXCEPT ![Head(to_load)] = "loaded"]
  /\ to_load' = Tail(to_load)
  /\ load_place' = "check"
  /\ UNCHANGED <<bridgeVars, send_place, request>>

Load == LoadCheck \/ LoadSkip \/ LoadInsert \/ LoadAssign

-----------------------------------------------------------------------------
(* send: contains, then operator[] and SpaceWireBridge::send. *)

(* The call itself: the sender starts it when it has a packet. *)
CallSend(packet) ==
  /\ send_place = "none"
  /\ send_place' = "contains"
  /\ request' = <<packet>>

RequestedBridge == BridgeOf[request[1]]

(* Fault: no lookup before operator[], which inserts a null bridge. *)
SendUnchecked ==
  /\ send_place = "contains"
  /\ send_place' = "send"
  /\ loaded_bridges' = [loaded_bridges EXCEPT ![RequestedBridge] = IF @ = "absent" THEN "null" ELSE @]
  /\ UNCHANGED <<bridgeVars, to_load, load_place, request>>

(* A lookup that races with the insertion may or may not see the entry. *)
SendContains ==
  /\ send_place = "contains"
  /\ \/ /\ loaded_bridges[RequestedBridge] # "absent"
        /\ send_place' = "send"
        /\ UNCHANGED request
     \/ /\ loaded_bridges[RequestedBridge] # "loaded"
        /\ send_place' = "none"
        /\ request' = <<>>
  /\ UNCHANGED <<bridgeVars, loaded_bridges, to_load, load_place>>

(* Fault: the packet is dropped when the sending queue is full. *)
SendForwardOrDrop ==
  /\ send_place = "send"
  /\ loaded_bridges[RequestedBridge] = "loaded"
  /\ IF AddReturns(sending_queue[RequestedBridge])
     THEN Send(RequestedBridge, request[1])
     ELSE UNCHANGED bridgeVars
  /\ send_place' = "none"
  /\ request' = <<>>
  /\ UNCHANGED <<loaded_bridges, to_load, load_place>>

SendForward ==
  /\ send_place = "send"
  /\ loaded_bridges[RequestedBridge] = "loaded"
  /\ Send(RequestedBridge, request[1])
  /\ send_place' = "none"
  /\ request' = <<>>
  /\ UNCHANGED <<loaded_bridges, to_load, load_place>>

(* The pointer send is about to follow is null. *)
SendThroughNull == send_place = "send" /\ loaded_bridges[RequestedBridge] = "null"

-----------------------------------------------------------------------------
(* teardown: clear destroys the bridges one after the other. *)

BeingDestroyed(b) == object[b] \in {"join_rec", "join_send"}

TeardownBridge(b) ==
  /\ loaded_bridges[b] = "loaded"
  /\ \/ (\A c \in BridgeIds : ~BeingDestroyed(c)) /\ DestroyClose(b)
     \/ DestroyJoinRec(b)
     \/ DestroyJoinSend(b)
  /\ UNCHANGED registryVars

(* Fault: teardown does not wait for the destructors. *)
NoneAlive == \A b \in BridgeIds : object[b] # "alive"

TornDown == \A b \in BridgeIds : loaded_bridges[b] = "loaded" => object[b] = "destroyed"

TeardownClear ==
  /\ TornDown
  /\ loaded_bridges' = [b \in BridgeIds |-> "absent"]
  /\ UNCHANGED <<bridgeVars, to_load, load_place, send_place, request>>
=============================================================================
