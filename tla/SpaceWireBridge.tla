-------------------------- MODULE SpaceWireBridge --------------------------
(***************************************************************************)
(* SpaceWireBridge (src/src/SpaceWireBridge.hpp): the object that drives    *)
(* one ISpaceWireBridge with two threads.  The receiving thread polls the   *)
(* device and adds what it got to the publish queue, which all the bridges  *)
(* share and the owner consumes; the sending thread takes packets from the  *)
(* bridge's own sending queue and transmits them.  The device is the one of *)
(* the tests, MockBridge, which loops packets back, extended with packets   *)
(* the SpaceWire link brings unasked, as a real device does.                *)
(*                                                                         *)
(* BridgeNext is the most general use of the class its header allows:       *)
(* construction, send on a living object, destruction, and an owner that    *)
(* takes from the publish queue and closes it whenever it likes.            *)
(* ZMQServer restricts it to what the server does.                          *)
(***************************************************************************)
EXTENDS PacketQueue, Histories, FiniteSets

CONSTANTS
  BridgeIds,    (* the names a bridge may have                              *)
  Packets,      (* spw_packet values                                        *)
  BridgeOf,     (* the field spw_packet::bridge_id                          *)
  Loopback,     (* packets the device sends back: data[0] = redirect_value  *)
  Unsolicited,  (* packets the link brings to the device, each one once     *)
  MaxTries      (* empty polls before a polling thread sleeps; 100 in the code *)

ASSUME BridgeAssumption ==
  /\ BridgeOf \in [Packets -> BridgeIds]
  /\ Loopback \subseteq Packets
  /\ Unsolicited \subseteq Packets
  /\ MaxTries \in Nat \ {0}

VARIABLES
  publish_queue,  (* *m_publish_queue, shared                               *)
  sending_queue,  (* m_sending_queue, of each bridge                        *)
  object,         (* life of the SpaceWireBridge object                     *)
  rec_thread,     (* m_rec_thread: where receiving_thread stands            *)
  rec_tries,      (* its local tries                                        *)
  rec_packet,     (* the packet it is adding, a sequence of at most one     *)
  send_thread,    (* m_send_thread: where sending_thread stands             *)
  send_packet,    (* its local maybe_packet                                 *)
  device_rx,      (* packets received by the device and not read yet        *)
  device_tx,      (* packets given to the device: sent_packets of the mock  *)
  link            (* packets the link has not brought yet                   *)

(* History: what each stage was given, in order. *)
VARIABLES
  accepted,   (* packets added to each sending queue                        *)
  arrived,    (* packets that reached each device                           *)
  forwarded,  (* packets each receiving thread has finished adding          *)
  captured,   (* packets stored in the publish queue                        *)
  taken       (* packets taken from the publish queue                       *)

queueVars == <<publish_queue, captured, taken>>
recVars == <<rec_thread, rec_tries, rec_packet, forwarded>>
sendVars == <<sending_queue, send_thread, send_packet, accepted>>
deviceVars == <<device_rx, device_tx, link, arrived>>
bridgeVars == <<queueVars, recVars, sendVars, deviceVars, object>>

RecPlaces == {"unborn", "while", "poll", "add", "done"}
SendPlaces == {"unborn", "while", "take", "transmit", "done"}
Lives == {"unborn", "alive", "join_rec", "join_send", "destroyed"}

BridgeInit ==
  /\ publish_queue = EmptyQueue
  /\ sending_queue = [b \in BridgeIds |-> EmptyQueue]
  /\ object = [b \in BridgeIds |-> "unborn"]
  /\ rec_thread = [b \in BridgeIds |-> "unborn"]
  /\ rec_tries = [b \in BridgeIds |-> 0]
  /\ rec_packet = [b \in BridgeIds |-> <<>>]
  /\ send_thread = [b \in BridgeIds |-> "unborn"]
  /\ send_packet = [b \in BridgeIds |-> <<>>]
  /\ device_rx = [b \in BridgeIds |-> <<>>]
  /\ device_tx = [b \in BridgeIds |-> <<>>]
  /\ link = Unsolicited
  /\ accepted = [b \in BridgeIds |-> <<>>]
  /\ arrived = [b \in BridgeIds |-> <<>>]
  /\ forwarded = [b \in BridgeIds |-> <<>>]
  /\ captured = <<>>
  /\ taken = <<>>

-----------------------------------------------------------------------------
(* The object: constructor, send and destructor. *)

Construct(b) ==
  /\ object[b] = "unborn"
  /\ object' = [object EXCEPT ![b] = "alive"]
  /\ rec_thread' = [rec_thread EXCEPT ![b] = "while"]
  /\ send_thread' = [send_thread EXCEPT ![b] = "while"]
  /\ UNCHANGED <<queueVars, rec_tries, rec_packet, forwarded, sending_queue,
                 send_packet, accepted, deviceVars>>

(* send: the caller waits for space in the sending queue. *)
Send(b, packet) ==
  /\ object[b] = "alive"
  /\ AddReturns(sending_queue[b])
  /\ sending_queue' = [sending_queue EXCEPT ![b] = Add(@, packet)]
  /\ accepted' = [accepted EXCEPT ![b] = Append(@, packet)]
  /\ UNCHANGED <<queueVars, recVars, send_thread, send_packet, deviceVars, object>>

DestroyClose(b) ==
  /\ object[b] = "alive"
  /\ object' = [object EXCEPT ![b] = "join_rec"]
  /\ sending_queue' = [sending_queue EXCEPT ![b] = Close(@)]
  /\ UNCHANGED <<queueVars, recVars, send_thread, send_packet, accepted, deviceVars>>

DestroyJoinRec(b) ==
  /\ object[b] = "join_rec"
  /\ rec_thread[b] = "done"
  /\ object' = [object EXCEPT ![b] = "join_send"]
  /\ UNCHANGED <<queueVars, recVars, sendVars, deviceVars>>

(* Fault: the sending thread is not joined. *)
DestroyNoJoinSend(b) ==
  /\ object[b] = "join_send"
  /\ object' = [object EXCEPT ![b] = "destroyed"]
  /\ UNCHANGED <<queueVars, recVars, sendVars, deviceVars>>

DestroyJoinSend(b) ==
  /\ object[b] = "join_send"
  /\ send_thread[b] = "done"
  /\ object' = [object EXCEPT ![b] = "destroyed"]
  /\ UNCHANGED <<queueVars, recVars, sendVars, deviceVars>>

-----------------------------------------------------------------------------
(* receiving_thread *)

RecWhile(b) ==
  /\ rec_thread[b] = "while"
  /\ rec_thread' = [rec_thread EXCEPT ![b] = IF publish_queue.closed THEN "done" ELSE "poll"]
  /\ rec_tries' = [rec_tries EXCEPT ![b] = 0]
  /\ UNCHANGED <<queueVars, rec_packet, forwarded, sendVars, deviceVars, object>>

(* packet_received, then receive_packet: one step, as no other thread reads *)
(* the device.                                                              *)
RecReceive(b) ==
  /\ rec_thread[b] = "poll"
  /\ device_rx[b] # <<>>
  /\ rec_packet' = [rec_packet EXCEPT ![b] = <<Head(device_rx[b])>>]
  /\ device_rx' = [device_rx EXCEPT ![b] = Tail(@)]
  /\ rec_thread' = [rec_thread EXCEPT ![b] = "add"]
  /\ UNCHANGED <<queueVars, rec_tries, forwarded, sendVars, device_tx, link, arrived, object>>

(* Fault: the receiving thread gives up once the device has been idle. *)
RecMissEnds(b) ==
  /\ rec_thread[b] = "poll"
  /\ device_rx[b] = <<>>
  /\ rec_tries' = [rec_tries EXCEPT ![b] = @ + 1]
  /\ rec_thread' = [rec_thread EXCEPT ![b] = IF rec_tries[b] + 1 < MaxTries THEN "poll" ELSE "done"]
  /\ UNCHANGED <<queueVars, rec_packet, forwarded, sendVars, deviceVars, object>>

RecMiss(b) ==
  /\ rec_thread[b] = "poll"
  /\ device_rx[b] = <<>>
  /\ rec_tries' = [rec_tries EXCEPT ![b] = @ + 1]
  /\ rec_thread' = [rec_thread EXCEPT ![b] = IF rec_tries[b] + 1 < MaxTries THEN "poll" ELSE "while"]
  /\ UNCHANGED <<queueVars, rec_packet, forwarded, sendVars, deviceVars, object>>

RecAdd(b) ==
  /\ rec_thread[b] = "add"
  /\ AddReturns(publish_queue)
  /\ publish_queue' = Add(publish_queue, rec_packet[b][1])
  /\ captured' = IF publish_queue.closed THEN captured ELSE captured \o rec_packet[b]
  /\ forwarded' = [forwarded EXCEPT ![b] = @ \o rec_packet[b]]
  /\ rec_packet' = [rec_packet EXCEPT ![b] = <<>>]
  /\ rec_tries' = [rec_tries EXCEPT ![b] = 0]
  /\ rec_thread' = [rec_thread EXCEPT ![b] = "poll"]
  /\ UNCHANGED <<taken, sendVars, deviceVars, object>>

Receiving(b) == RecWhile(b) \/ RecReceive(b) \/ RecMiss(b) \/ RecAdd(b)

-----------------------------------------------------------------------------
(* sending_thread *)

(* Fault: the sending thread ends when it finds its queue empty. *)
SendWhileNotEmpty(b) ==
  /\ send_thread[b] = "while"
  /\ send_thread' = [send_thread EXCEPT ![b] =
       IF sending_queue[b].closed \/ ~TakesPacket(sending_queue[b]) THEN "done" ELSE "take"]
  /\ UNCHANGED <<queueVars, recVars, sending_queue, send_packet, accepted, deviceVars, object>>

SendWhile(b) ==
  /\ send_thread[b] = "while"
  /\ send_thread' = [send_thread EXCEPT ![b] = IF sending_queue[b].closed THEN "done" ELSE "take"]
  /\ UNCHANGED <<queueVars, recVars, sending_queue, send_packet, accepted, deviceVars, object>>

(* Fault: what is taken after close is thrown away. *)
SendTakeUnlessClosed(b) ==
  /\ send_thread[b] = "take"
  /\ TakesPacket(sending_queue[b])
  /\ send_packet' = [send_packet EXCEPT ![b] =
       IF sending_queue[b].closed THEN <<>> ELSE <<First(sending_queue[b])>>]
  /\ sending_queue' = [sending_queue EXCEPT ![b] = AfterTake(@)]
  /\ send_thread' = [send_thread EXCEPT ![b] = IF sending_queue[b].closed THEN "while" ELSE "transmit"]
  /\ UNCHANGED <<queueVars, recVars, accepted, deviceVars, object>>

SendTake(b) ==
  /\ send_thread[b] = "take"
  /\ TakesPacket(sending_queue[b])
  /\ send_packet' = [send_packet EXCEPT ![b] = <<First(sending_queue[b])>>]
  /\ sending_queue' = [sending_queue EXCEPT ![b] = AfterTake(@)]
  /\ send_thread' = [send_thread EXCEPT ![b] = "transmit"]
  /\ UNCHANGED <<queueVars, recVars, accepted, deviceVars, object>>

SendTakeNothing(b) ==
  /\ send_thread[b] = "take"
  /\ TakesNothing(sending_queue[b])
  /\ send_thread' = [send_thread EXCEPT ![b] = "while"]
  /\ UNCHANGED <<queueVars, recVars, sending_queue, send_packet, accepted, deviceVars, object>>

(* Fault: the packet is transmitted twice. *)
TransmitTwice(b) ==
  /\ send_thread[b] = "transmit"
  /\ device_tx' = [device_tx EXCEPT ![b] = @ \o send_packet[b] \o send_packet[b]]
  /\ send_packet' = [send_packet EXCEPT ![b] = <<>>]
  /\ send_thread' = [send_thread EXCEPT ![b] = "while"]
  /\ UNCHANGED <<queueVars, recVars, sending_queue, accepted, device_rx, arrived, link, object>>

(* ISpaceWireBridge::send_packet, as the mock does it. *)
Transmit(b) ==
  LET echo == IF send_packet[b][1] \in Loopback THEN send_packet[b] ELSE <<>>
  IN  /\ send_thread[b] = "transmit"
      /\ device_tx' = [device_tx EXCEPT ![b] = @ \o send_packet[b]]
      /\ device_rx' = [device_rx EXCEPT ![b] = @ \o echo]
      /\ arrived' = [arrived EXCEPT ![b] = @ \o echo]
      /\ send_packet' = [send_packet EXCEPT ![b] = <<>>]
      /\ send_thread' = [send_thread EXCEPT ![b] = "while"]
      /\ UNCHANGED <<queueVars, recVars, sending_queue, accepted, link, object>>

Sending(b) == SendWhile(b) \/ SendTake(b) \/ SendTakeNothing(b) \/ Transmit(b)

(* The link brings a packet to an open device. *)
Arrive(b, packet) ==
  /\ packet \in link
  /\ BridgeOf[packet] = b
  /\ object[b] \notin {"unborn", "destroyed"}
  /\ link' = link \ {packet}
  /\ device_rx' = [device_rx EXCEPT ![b] = Append(@, packet)]
  /\ arrived' = [arrived EXCEPT ![b] = Append(@, packet)]
  /\ UNCHANGED <<queueVars, recVars, sendVars, device_tx, object>>

-----------------------------------------------------------------------------
(* The consumer of the publish queue. *)

Take ==
  /\ TakesPacket(publish_queue)
  /\ publish_queue' = AfterTake(publish_queue)
  /\ taken' = Append(taken, First(publish_queue))
  /\ UNCHANGED <<captured, recVars, sendVars, deviceVars, object>>

ClosePublish ==
  /\ publish_queue' = Close(publish_queue)
  /\ UNCHANGED <<captured, taken, recVars, sendVars, deviceVars, object>>

-----------------------------------------------------------------------------
(* SpaceWireBridges::send dispatches on the field bridge_id. *)
PacketsOf(b) == {packet \in Packets : BridgeOf[packet] = b}

BridgeOwner(b) ==
  \/ Construct(b)
  \/ \E packet \in PacketsOf(b) : Send(b, packet)
  \/ DestroyClose(b)
  \/ DestroyJoinRec(b)
  \/ DestroyJoinSend(b)

BridgeStep(b) ==
  \/ Receiving(b)
  \/ Sending(b)
  \/ \E packet \in Unsolicited : Arrive(b, packet)

BridgeNext ==
  \/ \E b \in BridgeIds : BridgeOwner(b) \/ BridgeStep(b)
  \/ Take
  \/ ClosePublish

BridgeSpec == BridgeInit /\ [][BridgeNext]_bridgeVars

-----------------------------------------------------------------------------
(* Properties *)

PublishTypeOK ==
  /\ publish_queue \in QueueOf(Packets) /\ WithinCapacity(publish_queue)
  /\ captured \in Seq(Packets)
  /\ taken \in Seq(Packets)

ReceivingTypeOK ==
  /\ rec_thread \in [BridgeIds -> RecPlaces]
  /\ rec_tries \in [BridgeIds -> 0 .. MaxTries]
  /\ rec_packet \in [BridgeIds -> Seq(Packets)]
  /\ \A b \in BridgeIds :
       /\ Len(rec_packet[b]) = IF rec_thread[b] = "add" THEN 1 ELSE 0
       /\ rec_thread[b] = "poll" => rec_tries[b] < MaxTries
  /\ forwarded \in [BridgeIds -> Seq(Packets)]

SendingTypeOK ==
  /\ sending_queue \in [BridgeIds -> QueueOf(Packets)]
  /\ \A b \in BridgeIds : WithinCapacity(sending_queue[b])
  /\ send_thread \in [BridgeIds -> SendPlaces]
  /\ send_packet \in [BridgeIds -> Seq(Packets)]
  /\ \A b \in BridgeIds : Len(send_packet[b]) = IF send_thread[b] = "transmit" THEN 1 ELSE 0
  /\ accepted \in [BridgeIds -> Seq(Packets)]

DeviceTypeOK ==
  /\ device_rx \in [BridgeIds -> Seq(Packets)]
  /\ device_tx \in [BridgeIds -> Seq(Packets)]
  /\ arrived \in [BridgeIds -> Seq(Packets)]
  /\ link \subseteq Unsolicited

(* Every variable has its type, a thread holds a packet exactly where its   *)
(* code has one in hand, and no queue outgrows the capacity of packet_queue.*)
BridgeTypeOK ==
  /\ object \in [BridgeIds -> Lives]
  /\ \A b \in BridgeIds :
       object[b] = "unborn" => rec_thread[b] = "unborn" /\ send_thread[b] = "unborn"
  /\ PublishTypeOK
  /\ ReceivingTypeOK
  /\ SendingTypeOK
  /\ DeviceTypeOK

(* Whatever send() was given is, in order and once, with the device, in the *)
(* hand of sending_thread or in the sending queue; closing the queue loses  *)
(* only what is still in it.                                                *)
SendConservation ==
  \A b \in BridgeIds :
    accepted[b] = Pipeline(device_tx[b], send_packet[b], sending_queue[b].items)

(* Whatever reached the device was added to the publish queue, is being     *)
(* added by receiving_thread or waits in the device, in order and once.     *)
ReceiveConservation ==
  \A b \in BridgeIds :
    arrived[b] = Pipeline(forwarded[b], rec_packet[b], device_rx[b])

(* The publish queue hands its consumer what the receiving threads stored   *)
(* in it, in the order they did, across all the bridges.                    *)
PublishConservation == captured = taken \o publish_queue.items

(* The consumer sees the packets of one bridge in the order that bridge's   *)
(* device received them, however the receiving threads interleave.          *)
PerBridgeOrder ==
  \A b \in BridgeIds :
    LET mine == Filter(taken, PacketsOf(b))
    IN  /\ Len(mine) <= Len(arrived[b])
        /\ mine = SubSeq(arrived[b], 1, Len(mine))

(* The threads end only because their queue was closed, so a destructor     *)
(* that got past the join of the receiving thread did so with the publish   *)
(* queue closed: whoever destroys a bridge first has to close the server,   *)
(* or waits for ever.  When the destructor returns, both threads have ended *)
(* and none touches the freed object.                                       *)
DestructorJoins ==
  \A b \in BridgeIds :
    /\ sending_queue[b].closed <=> object[b] \notin {"unborn", "alive"}
    /\ rec_thread[b] = "done" => publish_queue.closed
    /\ send_thread[b] = "done" => sending_queue[b].closed
    /\ object[b] \in {"join_send", "destroyed"} => rec_thread[b] = "done"
    /\ object[b] = "destroyed" => send_thread[b] = "done"

(* The sending side of every bridge is a relay from send() to the device. *)
SendRelay == INSTANCE Relay WITH
  Channels <- BridgeIds, Payloads <- Packets, input <- accepted, output <- device_tx

SendsInOrder == SendRelay!Spec

(* The publish queue is a relay from the receiving threads to its consumer. *)
PublishRelay == INSTANCE Relay WITH
  Channels <- {"publish"}, Payloads <- Packets,
  input <- [c \in {"publish"} |-> captured], output <- [c \in {"publish"} |-> taken]

PublishesInOrder == PublishRelay!Spec

=============================================================================
