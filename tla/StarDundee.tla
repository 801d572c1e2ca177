------------------------------ MODULE StarDundee ------------------------------
(***************************************************************************)
(* STARDundeeBridge (src/src/bridges/StarDundee.cpp) with its channels      *)
(* (StarAPI.hpp) and the C callbacks they register (callable.hpp).  The     *)
(* driver runs the callback of a channel when its receive operation ends;   *)
(* the callback stores the packet in a list and submits the operation       *)
(* again; the receiving thread of the SpaceWireBridge that owns this one    *)
(* polls packet_received and then calls receive_packet, its sending thread  *)
(* calls send_packet.                                                       *)
(*                                                                         *)
(* The STAR-API is external: a submitted operation ends with the next       *)
(* packet of its channel, or without one; the callbacks of a channel run    *)
(* one at a time; closing a channel waits for its callback; the data of a   *)
(* received packet stays until STAR_destroyPacketData.                      *)
(***************************************************************************)
EXTENDS Naturals, Histories

CONSTANTS
  ChannelCount,   (* size of m_channels, 2 in the code                      *)
  Packets,        (* what the link brings, each packet once                 *)
  ChannelOf,      (* the channel a packet arrives on                        *)
  Ports,          (* values that the port of a default constructed packet   *)
                  (* may have; ChannelCount stands for the larger ones      *)
  DeviceLists,    (* the serial numbers STAR_getDeviceList may lead to      *)
  trim,           (* of a serial number: cpp_utils::strings::trim           *)
  SerialNumber,   (* of the device the bridge wants                         *)
  TxPackets,      (* what send_packet is called with, each packet once      *)
  PortOf,         (* their ports; ChannelCount stands for the larger ones   *)
  Empty           (* those without data                                     *)

ASSUME StarAssumption ==
  /\ ChannelCount \in Nat \ {0}
  /\ ChannelOf \in [Packets -> 0 .. ChannelCount - 1]
  /\ Ports \subseteq 0 .. ChannelCount
  /\ \A serials \in DeviceLists : serials \in Seq(DOMAIN trim)
  /\ PortOf \in [TxPackets -> 0 .. ChannelCount]
  /\ Empty \subseteq TxPackets

Channels == 0 .. ChannelCount - 1

VARIABLES
  m_device,            (* the handle of the device, as a set: if there is   *)
  transmit_clock,      (* of each port of the device: was it set            *)
  channel,             (* of each channel: is it "new", "open" or "gone"    *)
  closure,             (* this of staticClosureCopy, once it is initialized *)
  m_rx_operation,      (* of each channel: is its operation submitted       *)
  callback,            (* where the callback of each channel stands         *)
  in_callback,         (* the packet it has, a sequence of at most one      *)
  m_received_packets,  (* of each channel, oldest first                     *)
  rec_thread,          (* where the constructor, then the receiving thread  *)
                       (* stands                                            *)
  packet_port,         (* the port of the packet in receive_packet          *)
  buffer,              (* the one in its hands, a sequence of at most one   *)
  destroyed,           (* how often the data of each packet was destroyed   *)
  link,                (* packets that are still to arrive                  *)
  device,              (* packets no operation has taken yet                *)
  to_send,             (* packets send_packet is still to be called with    *)
  transmitted          (* what was transmitted on each channel              *)

(* History. *)
VARIABLES
  arrived,    (* what arrived on each channel                               *)
  received,   (* what receive_packet returned of what arrived               *)
  empty_received, (* ports for which it returned an empty packet instead    *)
  dropped,    (* what went with its channel                                 *)
  accepted    (* for what send_packet returned true, of each channel        *)

deviceVars == <<m_device, transmit_clock>>
recVars == <<rec_thread, packet_port, buffer, received, empty_received>>
driverVars == <<m_rx_operation, callback, in_callback>>
listVars == <<m_received_packets, destroyed, dropped>>
linkVars == <<link, device, arrived>>
txVars == <<to_send, transmitted, accepted>>
starVars == <<deviceVars, channel, closure, driverVars, listVars, recVars, linkVars, txVars>>

StarInit ==
  /\ m_device = {}
  /\ transmit_clock = [port \in 1 .. ChannelCount |-> FALSE]
  /\ channel = [c \in Channels |-> "new"]
  /\ closure = <<>>
  /\ m_rx_operation = [c \in Channels |-> FALSE]
  /\ callback = [c \in Channels |-> "none"]
  /\ in_callback = [c \in Channels |-> <<>>]
  /\ m_received_packets = [c \in Channels |-> <<>>]
  /\ rec_thread = "unborn"
  /\ packet_port = 0
  /\ buffer = <<>>
  /\ destroyed = [packet \in Packets |-> 0]
  /\ link = Packets
  /\ device = [c \in Channels |-> <<>>]
  /\ to_send = TxPackets
  /\ transmitted = [c \in Channels |-> <<>>]
  /\ arrived = [c \in Channels |-> <<>>]
  /\ received = <<>>
  /\ empty_received = {}
  /\ dropped = <<>>
  /\ accepted = [c \in Channels |-> <<>>]

-----------------------------------------------------------------------------
(* Buffers: who has the data of a packet destroys it. *)

NoData == <<>>

(* Fault: the buffer that was moved from keeps its data. *)
MovedFromKeeps(data) == data

MovedFrom(data) == NoData

(* The destructor of a ManagedRawPacketBuffer, of each in a list.           *)
Destroyed(data) ==
  [packet \in Packets |->
     IF packet \in Elements(data) THEN destroyed[packet] + 1 ELSE destroyed[packet]]

-----------------------------------------------------------------------------
(* Constructor and destructor. *)

Wanted(serial) == trim[serial] = SerialNumber

(* The last device with the serial number, if there is one.                 *)
find_device(serials) ==
  {n \in DOMAIN serials : Wanted(serials[n]) /\ \A k \in DOMAIN serials : Wanted(serials[k]) => k <= n}

ready == m_device # {}

(* Whether it sets the clock of the port; it is the same for every speed.   *)
set_speed(speed, handle) == 2000000 <= speed /\ speed <= 400000000 /\ handle # {}

(* The device, and the speed of its ports. *)
MakeDevice ==
  /\ rec_thread = "unborn"
  /\ \E serials \in DeviceLists : m_device' = find_device(serials)
  /\ transmit_clock' = [port \in 1 .. ChannelCount |-> set_speed(10000000, m_device')]
  /\ rec_thread' = "open"
  /\ UNCHANGED <<channel, closure, driverVars, listVars, packet_port, buffer, received,
                 empty_received, linkVars, txVars>>

(* The channels are opened in order, when there is a device.  Each          *)
(* registers its own lambda, but generatePointer keeps a static copy of the *)
(* first one of the type.                                                   *)
Open(c) ==
  /\ rec_thread = "open"
  /\ ready
  /\ channel[c] = "new"
  /\ \A d \in Channels : d < c => channel[d] = "open"
  /\ channel' = [channel EXCEPT ![c] = "open"]
  /\ closure' = IF closure = <<>> THEN <<c>> ELSE closure
  /\ m_rx_operation' = [m_rx_operation EXCEPT ![c] = TRUE]
  /\ UNCHANGED <<deviceVars, callback, in_callback, listVars, recVars, linkVars, txVars>>

(* m_setup is set, and the SpaceWireBridge starts its threads.              *)
Constructed ==
  /\ rec_thread = "open"
  /\ ready => \A c \in Channels : channel[c] = "open"
  /\ rec_thread' = "poll"
  /\ UNCHANGED <<deviceVars, channel, closure, driverVars, listVars, packet_port, buffer,
                 received, empty_received, linkVars, txVars>>

(* The bridge goes after its threads, channel by channel: the channel is    *)
(* closed, then its list goes, with the data of the packets.                *)
CloseChannel(c) ==
  /\ rec_thread = "done"
  /\ channel[c] = "open"
  /\ \A d \in Channels : d < c => channel[d] = "gone"
  /\ callback[c] = "none"
  /\ channel' = [channel EXCEPT ![c] = "gone"]
  /\ m_rx_operation' = [m_rx_operation EXCEPT ![c] = FALSE]
  /\ destroyed' = Destroyed(m_received_packets[c])
  /\ dropped' = dropped \o m_received_packets[c]
  /\ m_received_packets' = [m_received_packets EXCEPT ![c] = <<>>]
  /\ UNCHANGED <<deviceVars, closure, callback, in_callback, recVars, linkVars, txVars>>

-----------------------------------------------------------------------------
(* send_packet. *)

(* Fault: a packet is sent on the first channel, whatever its port. *)
FirstOnly(packet) == 0

(* The port of a packet chooses the channel. *)
ChannelFor(packet) == PortOf[packet]

(* The data of an empty vector is a null pointer. *)
RawPacketBuffer(packet) == IF packet \in Empty THEN NoData ELSE <<packet>>

(* Channel::send_packet: without a handle, or data, it sends nothing.       *)
Transmitted(c, buffered) ==
  IF channel[c] = "open" /\ buffered # NoData THEN transmitted[c] \o buffered ELSE transmitted[c]

(* It returns true for every port there is. *)
SendPacket(packet) ==
  LET c == ChannelFor(packet)
  IN  /\ rec_thread \in {"poll", "receive", "copy", "done"}
      /\ \A d \in Channels : channel[d] # "gone"
      /\ packet \in to_send
      /\ to_send' = to_send \ {packet}
      /\ accepted' = [d \in Channels |->
           IF d = PortOf[packet] THEN Append(accepted[d], packet) ELSE accepted[d]]
      /\ transmitted' = [d \in Channels |->
           IF d = c THEN Transmitted(d, RawPacketBuffer(packet)) ELSE transmitted[d]]
      /\ UNCHANGED <<deviceVars, channel, closure, driverVars, listVars, recVars, linkVars>>

-----------------------------------------------------------------------------
(* The driver, and the callback it runs. *)

Arrive(packet) ==
  LET c == ChannelOf[packet]
  IN  /\ packet \in link
      /\ channel[c] = "open"
      /\ link' = link \ {packet}
      /\ device' = [device EXCEPT ![c] = Append(@, packet)]
      /\ arrived' = [arrived EXCEPT ![c] = Append(@, packet)]
      /\ UNCHANGED <<deviceVars, channel, closure, driverVars, listVars, recVars, txVars>>

Complete(c) ==
  /\ m_rx_operation[c]
  /\ callback[c] = "none"
  /\ device[c] # <<>>
  /\ in_callback' = [in_callback EXCEPT ![c] = <<Head(device[c])>>]
  /\ device' = [device EXCEPT ![c] = Tail(@)]
  /\ m_rx_operation' = [m_rx_operation EXCEPT ![c] = FALSE]
  /\ callback' = [callback EXCEPT ![c] = "push"]
  /\ UNCHANGED <<deviceVars, channel, closure, listVars, recVars, link, arrived, txVars>>

(* The operation ends with a status other than COMPLETE. *)
Fail(c) ==
  /\ m_rx_operation[c]
  /\ callback[c] = "none"
  /\ m_rx_operation' = [m_rx_operation EXCEPT ![c] = FALSE]
  /\ callback' = [callback EXCEPT ![c] = "submit"]
  /\ UNCHANGED <<deviceVars, channel, closure, in_callback, listVars, recVars, linkVars, txVars>>

(* The channel the callbacks work on; it may have been destroyed, and the   *)
(* list that a callback then writes to is one nobody reads any more.        *)
This == closure[1]

(* Fault: the packet is stored where the oldest one is taken. *)
PushOldest(c) ==
  /\ callback[c] = "push"
  /\ m_received_packets' = [m_received_packets EXCEPT ![This] = in_callback[c] \o @]
  /\ in_callback' = [in_callback EXCEPT ![c] = <<>>]
  /\ callback' = [callback EXCEPT ![c] = "submit"]
  /\ UNCHANGED <<deviceVars, channel, closure, m_rx_operation, destroyed, dropped, recVars,
                 linkVars, txVars>>

(* Fault: the packet is stored, but stays in hand. *)
PushKeeps(c) ==
  /\ callback[c] = "push"
  /\ m_received_packets' = [m_received_packets EXCEPT ![This] = @ \o in_callback[c]]
  /\ callback' = [callback EXCEPT ![c] = "submit"]
  /\ UNCHANGED <<deviceVars, channel, closure, m_rx_operation, in_callback, destroyed, dropped,
                 recVars, linkVars, txVars>>

(* The packet is moved into the list, and what it was moved from goes.      *)
Push(c) ==
  /\ callback[c] = "push"
  /\ m_received_packets' = [m_received_packets EXCEPT ![This] = @ \o in_callback[c]]
  /\ destroyed' = Destroyed(MovedFrom(in_callback[c]))
  /\ in_callback' = [in_callback EXCEPT ![c] = <<>>]
  /\ callback' = [callback EXCEPT ![c] = "submit"]
  /\ UNCHANGED <<deviceVars, channel, closure, m_rx_operation, dropped, recVars, linkVars, txVars>>

(* Fault: the operation is not submitted again. *)
SubmitNothing(c) ==
  /\ callback[c] = "submit"
  /\ callback' = [callback EXCEPT ![c] = "none"]
  /\ UNCHANGED <<deviceVars, channel, closure, m_rx_operation, in_callback, listVars, recVars,
                 linkVars, txVars>>

(* To submit an operation that is submitted changes nothing, nor does it    *)
(* bring a channel back that was closed.                                    *)
Submit(c) ==
  /\ callback[c] = "submit"
  /\ m_rx_operation' = [m_rx_operation EXCEPT ![This] = (channel[This] = "open")]
  /\ callback' = [callback EXCEPT ![c] = "none"]
  /\ UNCHANGED <<deviceVars, channel, closure, in_callback, listVars, recVars, linkVars, txVars>>

Callback(c) == Push(c) \/ Submit(c)

-----------------------------------------------------------------------------
(* The receiving thread. *)

(* Fault: packet_received is always true. *)
AlwaysReceived == TRUE

available_packets_count(c) == Len(m_received_packets[c])

(* packet_received adds up the packets of all the channels.  It locks them  *)
(* one by one; only this thread removes packets, so what it saw is there.   *)
PacketReceived == \E c \in Channels : available_packets_count(c) # 0

(* receive_packet begins: packet.port is not initialized. *)
Poll(port) ==
  /\ rec_thread = "poll"
  /\ PacketReceived
  /\ rec_thread' = "receive"
  /\ packet_port' = port
  /\ UNCHANGED <<deviceVars, channel, closure, driverVars, listVars, buffer, received,
                 empty_received, linkVars, txVars>>

receiveRest == <<deviceVars, channel, closure, driverVars, packet_port, dropped, linkVars, txVars>>

(* It waits for a packet on the channel of that port, and moves it out of   *)
(* the list; what was moved from is destroyed.                              *)
Receive ==
  LET queue == m_received_packets[packet_port]
      data == <<Head(queue)>>
  IN  /\ rec_thread = "receive"
      /\ packet_port \in Channels
      /\ queue # <<>>
      /\ buffer' = data
      /\ destroyed' = Destroyed(MovedFrom(data))
      /\ m_received_packets' = [m_received_packets EXCEPT ![packet_port] = Tail(queue)]
      /\ rec_thread' = "copy"
      /\ UNCHANGED <<receiveRest, received, empty_received>>

(* The data is copied to the packet, and the buffer goes. *)
Copy ==
  /\ rec_thread = "copy"
  /\ received' = received \o buffer
  /\ destroyed' = Destroyed(buffer)
  /\ buffer' = NoData
  /\ rec_thread' = "poll"
  /\ UNCHANGED <<receiveRest, m_received_packets, empty_received>>

(* There is no such channel: an empty packet is returned, although nothing  *)
(* of the kind arrived.  Like the others it goes to the publish queue of    *)
(* the SpaceWireBridge, and is published.                                   *)
ReceiveNothing ==
  /\ rec_thread = "receive"
  /\ packet_port \notin Channels
  /\ rec_thread' = "poll"
  /\ empty_received' = empty_received \cup {packet_port}
  /\ UNCHANGED <<receiveRest, m_received_packets, destroyed, buffer, received>>

(* The publish queue was closed, and polling found no packet. *)
RecEnds ==
  /\ rec_thread = "poll"
  /\ ~PacketReceived
  /\ rec_thread' = "done"
  /\ UNCHANGED <<receiveRest, m_received_packets, destroyed, buffer, received, empty_received>>

Receiving == (\E port \in Ports : Poll(port)) \/ Receive \/ Copy \/ ReceiveNothing

-----------------------------------------------------------------------------
ChannelStep(c) == Open(c) \/ CloseChannel(c) \/ Complete(c) \/ Fail(c) \/ Callback(c)

StarStep ==
  \/ MakeDevice
  \/ \E c \in Channels : ChannelStep(c)
  \/ Constructed
  \/ \E packet \in TxPackets : SendPacket(packet)
  \/ \E packet \in Packets : Arrive(packet)
  \/ Receiving
  \/ RecEnds

StarSpec == StarInit /\ [][StarStep]_starVars

(* The receiving thread and the callbacks run on, and an operation that is  *)
(* submitted again and again does not fail every time.                      *)
StarFairness ==
  /\ WF_starVars(Receiving)
  /\ \A c \in Channels : WF_starVars(Callback(c)) /\ SF_starVars(Complete(c))

FairStarSpec == StarSpec /\ StarFairness

-----------------------------------------------------------------------------
(* Properties *)

DeviceTypeOK ==
  /\ m_device \subseteq Nat
  /\ \A n, k \in m_device : n = k
  /\ transmit_clock \in [1 .. ChannelCount -> BOOLEAN]
  /\ rec_thread # "unborn" => \A port \in 1 .. ChannelCount : transmit_clock[port] = ready
  /\ \A c \in Channels : channel[c] # "new" => ready

ChannelTypeOK ==
  /\ channel \in [Channels -> {"new", "open", "gone"}]
  /\ closure \in Seq(Channels)
  /\ Len(closure) = IF channel[0] = "new" THEN 0 ELSE 1
  /\ m_rx_operation \in [Channels -> BOOLEAN]
  /\ callback \in [Channels -> {"none", "push", "submit"}]
  /\ in_callback \in [Channels -> Seq(Packets)]
  /\ \A c \in Channels : Len(in_callback[c]) = IF callback[c] = "push" THEN 1 ELSE 0
  /\ \A c \in Channels : channel[c] = "new" => ~m_rx_operation[c] /\ callback[c] = "none"

BufferTypeOK ==
  /\ m_received_packets \in [Channels -> Seq(Packets)]
  /\ rec_thread \in {"unborn", "open", "poll", "receive", "copy", "done"}
  /\ rec_thread \in {"unborn", "open"} => \A c \in Channels : channel[c] # "gone"
  /\ rec_thread = "unborn" => \A c \in Channels : channel[c] = "new"
  /\ packet_port \in 0 .. ChannelCount
  /\ buffer \in Seq(Packets)
  /\ destroyed \in [Packets -> Nat]
  /\ received \in Seq(Packets)
  /\ empty_received \subseteq (0 .. ChannelCount) \ Channels
  /\ dropped \in Seq(Packets)

LinkTypeOK ==
  /\ link \subseteq Packets
  /\ device \in [Channels -> Seq(Packets)]
  /\ arrived \in [Channels -> Seq(Packets)]
  /\ to_send \subseteq TxPackets
  /\ transmitted \in [Channels -> Seq(TxPackets)]
  /\ accepted \in [Channels -> Seq(TxPackets)]

(* Every variable has its type; a callback has a packet exactly while it is  *)
(* about to store it, and runs only once the closure is initialized; the     *)
(* channels are those of a device, whose clocks were set before.             *)
StarTypeOK == DeviceTypeOK /\ ChannelTypeOK /\ BufferTypeOK /\ LinkTypeOK

OnChannel(c) == {packet \in Packets : ChannelOf[packet] = c}

(* What the callbacks stored so far, wherever it is by now. *)
Stored == received \o buffer \o dropped \o m_received_packets[0]

(* What arrived on a channel was received, is in the hands of the receiving *)
(* thread, went with the channel or waits in its list, is in a callback, or *)
(* waits in the device, each packet once and in order; all the lists are    *)
(* the one of the channel the callbacks work on.  It is about what arrived: *)
(* the empty packets of ReceiveNothing come on top of it.                   *)
RxConservation ==
  \A c \in Channels :
    arrived[c] = Filter(Stored, OnChannel(c)) \o (in_callback[c] \o device[c])

(* The data of a packet is destroyed once, after it was copied, or with the *)
(* list it is in: STAR_destroyPacketData is never called twice, and the     *)
(* data that receive_packet copies is still there.                          *)
DestroyedOnce ==
  \A packet \in Packets :
    destroyed[packet] =
      IF packet \in Elements(received) \cup Elements(dropped) THEN 1 ELSE 0

(* send_packet returns true for a packet that is never sent only without a  *)
(* device, or without data; the others are transmitted on the channel of    *)
(* their port, in the order of the calls.  What the device or the link does *)
(* with a packet after that is not modelled.                                *)
AcceptedIsSent ==
  \A c \in Channels :
    transmitted[c] =
      IF ready THEN Filter(accepted[c], TxPackets \ Empty) ELSE <<>>

(* "to avoid this, only call receive packet when packet queue isn't empty"  *)
(* (StarAPI.hpp:224).                                                       *)
ReceiveFindsPacket ==
  rec_thread = "receive" /\ packet_port \in Channels => m_received_packets[packet_port] # <<>>

(* "this function makes a copy of the closure!" (callable.hpp:30): the      *)
(* callback of a channel works on that channel.                             *)
CallbackServesItsChannel == \A c \in Channels : callback[c] # "none" => This = c

(* What arrives on the first channel is received, unless the bridge goes,   *)
(* provided the uninitialized port happens to be 0 from some point on.      *)
FirstChannelServed ==
  <>[](packet_port = 0) =>
  \A packet \in Packets :
    packet \in Elements(arrived[0]) ~>
      (packet \in Elements(received) \/ rec_thread \in {"unborn", "open", "done"})
===============================================================================
