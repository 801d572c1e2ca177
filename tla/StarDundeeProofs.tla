-------------------------- MODULE StarDundeeProofs --------------------------
(***************************************************************************)
(* Proofs about StarDundee, for any packets and any number of channels.     *)
(***************************************************************************)
EXTENDS StarDundee, HistoriesProofs

(* There is a first channel. *)
LEMMA FirstIsChannel == 0 \in Channels /\ ChannelCount \in Nat
BY StarAssumption DEF Channels

-----------------------------------------------------------------------------
(* What each step leaves of the type invariant to be shown. *)
LEMMA DeviceTypeKept ==
  ASSUME DeviceTypeOK, UNCHANGED deviceVars,
         rec_thread = "unborn" => rec_thread' = "unborn",
         \A c \in Channels : channel'[c] # "new" => channel[c] # "new" \/ ready
  PROVE  DeviceTypeOK'
BY DEF DeviceTypeOK, deviceVars, ready

(* The type invariant's three parts are kept where their variables are: *)
LEMMA ChannelTypeKept ==
  ChannelTypeOK /\ UNCHANGED <<channel, closure, driverVars>> => ChannelTypeOK'
BY DEF ChannelTypeOK, driverVars

(* the link and the packets sent on it, *)
LEMMA LinkTypeKept == LinkTypeOK /\ UNCHANGED <<linkVars, txVars>> => LinkTypeOK'
BY DEF LinkTypeOK, linkVars, txVars

(* the lists and the packets in hands. *)
LEMMA BufferTypeKept ==
  BufferTypeOK /\ UNCHANGED <<channel, listVars, recVars>> => BufferTypeOK'
BY DEF BufferTypeOK, listVars, recVars

(* Giving packet data back keeps the type of the counts. *)
LEMMA DestroyedType ==
  ASSUME NEW data, destroyed \in [Packets -> Nat]
  PROVE  Destroyed(data) \in [Packets -> Nat]
BY DEF Destroyed

(* The constructor opens a channel. *)
LEMMA OpenType ==
  ASSUME StarTypeOK, NEW c \in Channels, Open(c)
  PROVE  StarTypeOK'
<1>1. closure' \in Seq(Channels)
  <2>1. <<c>> \in Seq(Channels)
    OBVIOUS
  <2> QED BY <2>1 DEF Open, StarTypeOK, ChannelTypeOK
<1>2. Len(closure') = IF channel'[0] = "new" THEN 0 ELSE 1
  <2>1. CASE c = 0
    <3>1. closure = <<>>
      BY <2>1, EmptySeq DEF Open, StarTypeOK, ChannelTypeOK
    <3>2. closure' = <<c>> /\ Len(<<c>>) = 1
      BY <3>1 DEF Open
    <3>3. channel'[0] = "open"
      BY <2>1, FirstIsChannel DEF Open, StarTypeOK, ChannelTypeOK
    <3> QED BY <3>2, <3>3
  <2>2. CASE c # 0
    <3>1. channel[0] = "open"
      BY <2>2, FirstIsChannel DEF Open, Channels
    <3>2. Len(closure) = 1
      BY <3>1 DEF StarTypeOK, ChannelTypeOK
    <3>3. closure # <<>>
      BY <3>2, EmptySeq
    <3>4. closure' = closure /\ channel'[0] = "open"
      BY <2>2, <3>1, <3>3, FirstIsChannel DEF Open, StarTypeOK, ChannelTypeOK
    <3> QED BY <3>2, <3>4
  <2> QED BY <2>1, <2>2
<1>3. ChannelTypeOK'
  BY <1>1, <1>2 DEF Open, StarTypeOK, ChannelTypeOK
<1>4. DeviceTypeOK'
  BY DEF Open, StarTypeOK, DeviceTypeOK, ChannelTypeOK, BufferTypeOK, deviceVars, ready
<1>5. BufferTypeOK'
  BY DEF Open, StarTypeOK, BufferTypeOK, ChannelTypeOK, listVars, recVars
<1> QED BY <1>3, <1>4, <1>5, LinkTypeKept DEF Open, StarTypeOK

(* The destructor closes one. *)
LEMMA CloseChannelType ==
  ASSUME StarTypeOK, NEW c \in Channels, CloseChannel(c)
  PROVE  StarTypeOK'
<1>1. ChannelTypeOK'
  BY FirstIsChannel DEF CloseChannel, StarTypeOK, ChannelTypeOK
<1>2. BufferTypeOK'
  <2>1. m_received_packets[c] \in Seq(Packets) /\ dropped \in Seq(Packets) /\ <<>> \in Seq(Packets)
    BY EmptySeq DEF StarTypeOK, BufferTypeOK
  <2>2. dropped' \in Seq(Packets)
    BY <2>1, ConcatProperties DEF CloseChannel
  <2>3. destroyed' \in [Packets -> Nat]
    BY DestroyedType DEF CloseChannel, StarTypeOK, BufferTypeOK
  <2>4. m_received_packets' \in [Channels -> Seq(Packets)]
    BY <2>1 DEF CloseChannel, StarTypeOK, BufferTypeOK
  <2> QED BY <2>2, <2>3, <2>4 DEF CloseChannel, StarTypeOK, BufferTypeOK, recVars
<1>3. DeviceTypeOK'
  BY DeviceTypeKept DEF CloseChannel, StarTypeOK, ChannelTypeOK, recVars
<1> QED BY <1>1, <1>2, <1>3, LinkTypeKept DEF CloseChannel, StarTypeOK

(* A packet arrives on the link. *)
LEMMA ArriveType ==
  ASSUME StarTypeOK, NEW packet \in Packets, Arrive(packet)
  PROVE  StarTypeOK'
<1>1. ChannelOf[packet] \in Channels
  BY StarAssumption DEF Channels
<1>2. /\ Append(device[ChannelOf[packet]], packet) \in Seq(Packets)
      /\ Append(arrived[ChannelOf[packet]], packet) \in Seq(Packets)
  BY <1>1, AppendProperties DEF StarTypeOK, LinkTypeOK
<1>3. LinkTypeOK'
  BY <1>1, <1>2 DEF Arrive, StarTypeOK, LinkTypeOK, txVars
<1> QED BY <1>3, DeviceTypeKept, ChannelTypeKept, BufferTypeKept DEF Arrive, StarTypeOK, recVars

(* The driver completes or fails an operation and runs the callback. *)
LEMMA DriverType ==
  ASSUME StarTypeOK, NEW c \in Channels, Complete(c) \/ Fail(c) \/ Callback(c)
  PROVE  StarTypeOK'
<1>1. DeviceTypeOK'
  BY DeviceTypeKept DEF Complete, Fail, Callback, Push, Submit, StarTypeOK, recVars
<1>2. CASE Complete(c)
  <2>1. Head(device[c]) \in Packets /\ Tail(device[c]) \in Seq(Packets)
    BY <1>2, HeadTailProperties DEF Complete, StarTypeOK, LinkTypeOK
  <2>2. <<Head(device[c])>> \in Seq(Packets) /\ Len(<<Head(device[c])>>) = 1
    BY <2>1
  <2>3. ChannelTypeOK'
    BY <1>2, <2>2 DEF Complete, StarTypeOK, ChannelTypeOK
  <2>4. LinkTypeOK'
    BY <1>2, <2>1 DEF Complete, StarTypeOK, LinkTypeOK, txVars
  <2> QED BY <1>1, <1>2, <2>3, <2>4, BufferTypeKept DEF Complete, StarTypeOK
<1>3. CASE Fail(c)
  <2>1. ChannelTypeOK'
    BY <1>3 DEF Fail, StarTypeOK, ChannelTypeOK
  <2> QED BY <1>1, <1>3, <2>1, BufferTypeKept, LinkTypeKept DEF Fail, StarTypeOK
<1>4. CASE Push(c)
  <2>1. \A d \in Channels : m_received_packets[d] \o in_callback[c] \in Seq(Packets)
    BY ConcatProperties DEF StarTypeOK, ChannelTypeOK, BufferTypeOK
  <2>2. BufferTypeOK'
    <3>1. destroyed' \in [Packets -> Nat]
      BY <1>4 DEF Push, Destroyed, StarTypeOK, BufferTypeOK
    <3>2. m_received_packets' \in [Channels -> Seq(Packets)]
      BY <1>4, <2>1 DEF Push, StarTypeOK, BufferTypeOK
    <3>3. QED
      BY <1>4, <3>1, <3>2 DEF Push, StarTypeOK, BufferTypeOK, recVars
  <2>3. /\ \A d \in Channels : Len(in_callback'[d]) = IF callback'[d] = "push" THEN 1 ELSE 0
        /\ in_callback' \in [Channels -> Seq(Packets)]
    BY <1>4, EmptySeq DEF Push, StarTypeOK, ChannelTypeOK
  <2>4. ChannelTypeOK'
    BY <1>4, <2>3 DEF Push, StarTypeOK, ChannelTypeOK
  <2> QED BY <1>1, <1>4, <2>2, <2>4, LinkTypeKept DEF Push, StarTypeOK
<1>5. CASE Submit(c)
  <2>1. ChannelTypeOK'
    BY <1>5 DEF Submit, StarTypeOK, ChannelTypeOK
  <2> QED BY <1>1, <1>5, <2>1, BufferTypeKept, LinkTypeKept DEF Submit, StarTypeOK
<1> QED BY <1>2, <1>3, <1>4, <1>5 DEF Callback

(* A packet is sent. *)
LEMMA SendPacketType ==
  ASSUME StarTypeOK, NEW packet \in TxPackets, SendPacket(packet)
  PROVE  StarTypeOK'
<1>1. \A d \in Channels : Append(accepted[d], packet) \in Seq(TxPackets)
  BY AppendProperties DEF StarTypeOK, LinkTypeOK
<1>2. RawPacketBuffer(packet) \in Seq(TxPackets)
  BY DEF RawPacketBuffer, NoData
<1>3. \A d \in Channels : Transmitted(d, RawPacketBuffer(packet)) \in Seq(TxPackets)
  BY <1>2, ConcatProperties DEF Transmitted, StarTypeOK, LinkTypeOK
<1>4. accepted' \in [Channels -> Seq(TxPackets)] /\ transmitted' \in [Channels -> Seq(TxPackets)]
  BY <1>1, <1>3 DEF SendPacket, StarTypeOK, LinkTypeOK
<1>5. LinkTypeOK'
  BY <1>4 DEF SendPacket, StarTypeOK, LinkTypeOK, linkVars
<1> QED BY <1>5, DeviceTypeKept, ChannelTypeKept, BufferTypeKept DEF SendPacket, StarTypeOK, recVars

(* The receiving thread polls, receives and copies. *)
LEMMA ReceivingType ==
  ASSUME StarTypeOK, Receiving \/ RecEnds
  PROVE  StarTypeOK'
<1>1. DeviceTypeOK' /\ ChannelTypeOK' /\ LinkTypeOK'
  BY DeviceTypeKept, ChannelTypeKept, LinkTypeKept
     DEF Receiving, Poll, Receive, Copy, ReceiveNothing, RecEnds, receiveRest, StarTypeOK
<1>2. ASSUME NEW port \in Ports, Poll(port) PROVE BufferTypeOK'
  BY <1>2, StarAssumption DEF Poll, StarTypeOK, BufferTypeOK, listVars
<1>3. ASSUME Receive PROVE BufferTypeOK'
  <2> DEFINE queue == m_received_packets[packet_port]
  <2>1. queue \in Seq(Packets) /\ queue # <<>>
    BY <1>3 DEF Receive, StarTypeOK, BufferTypeOK
  <2>2. Head(queue) \in Packets /\ Tail(queue) \in Seq(Packets)
    BY <2>1, HeadTailProperties
  <2>3. <<Head(queue)>> \in Seq(Packets)
    BY <2>2
  <2>4. destroyed' \in [Packets -> Nat]
    BY <1>3, DestroyedType DEF Receive, StarTypeOK, BufferTypeOK
  <2> QED BY <1>3, <2>2, <2>3, <2>4 DEF Receive, receiveRest, StarTypeOK, BufferTypeOK
<1>4. ASSUME Copy PROVE BufferTypeOK'
  <2>1. received' \in Seq(Packets)
    BY <1>4, ConcatProperties DEF Copy, StarTypeOK, BufferTypeOK
  <2>2. destroyed' \in [Packets -> Nat]
    BY <1>4, DestroyedType DEF Copy, StarTypeOK, BufferTypeOK
  <2>3. buffer' \in Seq(Packets)
    BY <1>4, EmptySeq DEF Copy, NoData
  <2> QED BY <1>4, <2>1, <2>2, <2>3 DEF Copy, receiveRest, StarTypeOK, BufferTypeOK
<1>5. ASSUME ReceiveNothing \/ RecEnds PROVE BufferTypeOK'
  BY <1>5 DEF ReceiveNothing, RecEnds, receiveRest, StarTypeOK, BufferTypeOK
<1> QED BY <1>1, <1>2, <1>3, <1>4, <1>5 DEF Receiving, StarTypeOK

(* At most one device is found, and it has the serial number. *)
LEMMA FoundIsDevice ==
  ASSUME NEW serials \in DeviceLists
  PROVE  /\ find_device(serials) \subseteq Nat
         /\ \A n, k \in find_device(serials) : n = k
         /\ \A n \in find_device(serials) : trim[serials[n]] = SerialNumber
<1>1. DOMAIN serials \subseteq Nat
  BY StarAssumption
<1> QED BY <1>1 DEF find_device, Wanted

(* The constructor looks for its device, and ends. *)
LEMMA SetupType ==
  ASSUME StarTypeOK, MakeDevice \/ Constructed
  PROVE  StarTypeOK'
<1>1. ChannelTypeOK' /\ LinkTypeOK'
  BY ChannelTypeKept, LinkTypeKept DEF MakeDevice, Constructed, StarTypeOK
<1>2. BufferTypeOK'
  <2>1. /\ UNCHANGED <<channel, listVars, packet_port, buffer, received, empty_received>>
        /\ rec_thread \in {"unborn", "open"} /\ rec_thread' \in {"open", "poll"}
    BY DEF MakeDevice, Constructed
  <2> QED BY <2>1 DEF listVars, StarTypeOK, BufferTypeOK
<1>3. ASSUME MakeDevice PROVE DeviceTypeOK'
  <2>1. PICK serials \in DeviceLists : m_device' = find_device(serials)
    BY <1>3 DEF MakeDevice
  <2>2. m_device' \subseteq Nat /\ \A n, k \in m_device' : n = k
    BY <2>1, FoundIsDevice
  <2>3. \A port \in 1 .. ChannelCount : transmit_clock'[port] = ready'
    BY <1>3, <2>1, <2>2 DEF MakeDevice, set_speed, ready
  <2>4. \A c \in Channels : channel'[c] = "new"
    BY <1>3 DEF MakeDevice, StarTypeOK, BufferTypeOK
  <2>5. transmit_clock' \in [1 .. ChannelCount -> BOOLEAN]
    BY <1>3 DEF MakeDevice, set_speed
  <2> QED BY <2>1, <2>2, <2>3, <2>4, <2>5 DEF DeviceTypeOK
<1>4. ASSUME Constructed PROVE DeviceTypeOK'
  BY <1>4, DeviceTypeKept DEF Constructed, StarTypeOK
<1> QED BY <1>1, <1>2, <1>3, <1>4 DEF StarTypeOK

(* Every step keeps the types. *)
LEMMA StarTypeStep == StarTypeOK /\ [StarStep]_starVars => StarTypeOK'
<1> SUFFICES ASSUME StarTypeOK, [StarStep]_starVars
             PROVE  StarTypeOK'
  OBVIOUS
<1>1. CASE UNCHANGED starVars
  BY <1>1, DeviceTypeKept, ChannelTypeKept, BufferTypeKept, LinkTypeKept
     DEF starVars, StarTypeOK, recVars
<1>2. CASE StarStep
  BY <1>2, OpenType, CloseChannelType, ArriveType, DriverType, SendPacketType, ReceivingType,
     SetupType DEF StarStep, ChannelStep
<1> QED BY <1>1, <1>2

(* Type correctness of the bridge. *)
THEOREM StarTypeCorrect == StarSpec => []StarTypeOK
<1>1. StarInit => StarTypeOK
  BY FirstIsChannel, EmptySeq
     DEF StarInit, StarTypeOK, DeviceTypeOK, ChannelTypeOK, BufferTypeOK, LinkTypeOK
<1>2. QED
  BY <1>1, StarTypeStep, PTL DEF StarSpec

-----------------------------------------------------------------------------
(* Every callback works on the first channel: the static closure is the one  *)
(* of the first channel, so the lists of the others stay empty.              *)
FirstListOnly ==
  /\ \A c \in Channels : channel[c] # "new" => closure = <<0>>
  /\ closure = <<>> \/ closure = <<0>>
  /\ \A c \in Channels : c # 0 => m_received_packets[c] = <<>>

(* Every callback pushes into the list of the first channel. *)
LEMMA PushesFirst ==
  ASSUME StarTypeOK, FirstListOnly, NEW c \in Channels, Push(c)
  PROVE  /\ m_received_packets' = [m_received_packets EXCEPT ![0] = m_received_packets[0] \o in_callback[c]]
         /\ m_received_packets'[0] = m_received_packets[0] \o in_callback[c]
         /\ \A d \in Channels : d # 0 => m_received_packets'[d] = m_received_packets[d]
<1>1. channel[c] # "new"
  BY DEF StarTypeOK, ChannelTypeOK, Push
<1>2. This = 0
  BY <1>1 DEF FirstListOnly, This
<1>3. m_received_packets \in [Channels -> Seq(Packets)] /\ 0 \in Channels
  BY FirstIsChannel DEF StarTypeOK, BufferTypeOK
<1> QED BY <1>2, <1>3 DEF Push

(* So the other lists stay empty. *)
LEMMA FirstListStep == StarTypeOK /\ FirstListOnly /\ [StarStep]_starVars => FirstListOnly'
<1> SUFFICES ASSUME StarTypeOK, FirstListOnly, [StarStep]_starVars PROVE FirstListOnly'
  OBVIOUS
<1> USE DEF FirstListOnly
<1>1. /\ channel \in [Channels -> {"new", "open", "gone"}]
      /\ m_received_packets \in [Channels -> Seq(Packets)]
      /\ 0 \in Channels
  BY FirstIsChannel DEF StarTypeOK, ChannelTypeOK, BufferTypeOK
<1>2. ASSUME NEW c \in Channels, Open(c) PROVE FirstListOnly'
  <2>1. closure' = <<0>>
    <3>1. CASE c = 0
      BY <1>2, <3>1 DEF Open
    <3>2. CASE c # 0
      <4>1. channel[0] = "open"
        BY <1>2, <3>2, FirstIsChannel DEF Open, Channels
      <4>2. closure = <<0>>
        BY <1>1, <4>1
      <4> QED BY <1>2, <3>2, <4>2 DEF Open
    <3> QED BY <3>1, <3>2
  <2> QED BY <1>2, <2>1 DEF Open, listVars
<1>3. ASSUME NEW c \in Channels, Push(c) PROVE FirstListOnly'
  BY <1>3, PushesFirst DEF Push
<1>4. ASSUME NEW c \in Channels, CloseChannel(c) PROVE FirstListOnly'
  BY <1>1, <1>4 DEF CloseChannel
<1>5. ASSUME Receive PROVE FirstListOnly'
  BY <1>1, <1>5 DEF Receive, receiveRest
<1>6. ASSUME \/ MakeDevice \/ Constructed \/ Copy \/ ReceiveNothing \/ RecEnds
             \/ \E port \in Ports : Poll(port)
             \/ \E packet \in Packets : Arrive(packet)
             \/ \E packet \in TxPackets : SendPacket(packet)
             \/ \E c \in Channels : Complete(c) \/ Fail(c) \/ Submit(c)
             \/ UNCHANGED starVars
      PROVE  UNCHANGED <<channel, closure, m_received_packets>>
  BY <1>6 DEF MakeDevice, Constructed, Copy, ReceiveNothing, RecEnds, Poll, Arrive, SendPacket,
              Complete, Fail, Submit, listVars, receiveRest, starVars
<1> QED BY <1>2, <1>3, <1>4, <1>5, <1>6 DEF StarStep, ChannelStep, Callback, Receiving

(* The bridge's callbacks write only to the list of the first channel. *)
LEMMA FirstListInvariant == StarSpec => [](StarTypeOK /\ FirstListOnly)
<1>1. StarInit => FirstListOnly
  BY FirstIsChannel DEF StarInit, FirstListOnly
<1> QED BY <1>1, FirstListStep, StarTypeCorrect, PTL DEF StarSpec

-----------------------------------------------------------------------------
(* Why packet_received and receive_packet agree although one looks at all    *)
(* the channels and the other at one of them: only the first has packets.    *)
PortIsFirst ==
  /\ packet_port \in Channels => packet_port = 0
  /\ ReceiveFindsPacket

(* Every step keeps the port that of the first list, and a packet in it for *)
(* receive_packet.                                                          *)
LEMMA PortIsFirstStep ==
  ASSUME Ports \cap Channels \subseteq {0}
  PROVE  StarTypeOK /\ FirstListOnly /\ PortIsFirst /\ [StarStep]_starVars => PortIsFirst'
<1> SUFFICES ASSUME StarTypeOK, FirstListOnly, PortIsFirst, [StarStep]_starVars
             PROVE  PortIsFirst'
  OBVIOUS
<1> USE DEF PortIsFirst, recVars, listVars, receiveRest, starVars
<1>1. /\ m_received_packets \in [Channels -> Seq(Packets)]
      /\ in_callback \in [Channels -> Seq(Packets)]
      /\ 0 \in Channels
  BY FirstIsChannel DEF StarTypeOK, ChannelTypeOK, BufferTypeOK
<1>2. ASSUME NEW c \in Channels, Push(c) PROVE PortIsFirst'
  <2>1. m_received_packets'[0] = m_received_packets[0] \o in_callback[c]
    BY <1>2, PushesFirst
  <2>2. m_received_packets[0] # <<>> => m_received_packets[0] \o in_callback[c] # <<>>
    <3> DEFINE queue == m_received_packets[0]
               packets == in_callback[c]
    <3>1. queue \in Seq(Packets) /\ packets \in Seq(Packets)
      BY <1>1
    <3> HIDE DEF queue, packets
    <3>2. queue # <<>> => queue \o packets # <<>>
      BY <3>1, ConcatProperties, EmptySeq
    <3> QED BY <3>2 DEF queue, packets
  <2> QED BY <1>2, <2>1, <2>2 DEF Push, ReceiveFindsPacket
<1>3. ASSUME NEW port \in Ports, Poll(port) PROVE PortIsFirst'
  <2>1. port \in Channels => port = 0
    OBVIOUS
  <2>2. PICK c \in Channels : Len(m_received_packets[c]) # 0
    BY <1>3 DEF Poll, PacketReceived, available_packets_count
  <2>3. m_received_packets[0] # <<>>
    BY <1>1, <2>2, EmptySeq DEF FirstListOnly
  <2> QED BY <1>3, <2>1, <2>3 DEF Poll, ReceiveFindsPacket
<1>4. CASE Receive
  BY <1>1, <1>4 DEF Receive, ReceiveFindsPacket
<1>5. ASSUME NEW c \in Channels, CloseChannel(c) PROVE PortIsFirst'
  BY <1>1, <1>5 DEF CloseChannel, ReceiveFindsPacket
<1>6. CASE UNCHANGED <<m_received_packets, packet_port, rec_thread>>
  BY <1>6 DEF ReceiveFindsPacket
<1>7. ASSUME \/ \E packet \in Packets : Arrive(packet)
             \/ \E packet \in TxPackets : SendPacket(packet)
             \/ \E c \in Channels : Open(c) \/ Complete(c) \/ Fail(c) \/ Submit(c)
             \/ UNCHANGED starVars
      PROVE  UNCHANGED <<m_received_packets, packet_port, rec_thread>>
  BY <1>7 DEF Arrive, SendPacket, Open, Complete, Fail, Submit
<1>8. CASE MakeDevice \/ Constructed \/ Copy \/ ReceiveNothing \/ RecEnds
  BY <1>8 DEF MakeDevice, Constructed, Copy, ReceiveNothing, RecEnds, ReceiveFindsPacket
<1> QED BY <1>2, <1>3, <1>4, <1>5, <1>6, <1>7, <1>8 DEF StarStep, ChannelStep, Callback, Receiving

(* As long as the uninitialized port names no channel but the first,         *)
(* receive_packet finds a packet whenever packet_received was true.          *)
THEOREM PollingFindsPacket ==
  ASSUME Ports \cap Channels \subseteq {0}
  PROVE  StarSpec => []ReceiveFindsPacket
<1>1. StarInit => PortIsFirst
  BY FirstIsChannel DEF StarInit, PortIsFirst, ReceiveFindsPacket
<1>2. PortIsFirst => ReceiveFindsPacket
  BY DEF PortIsFirst
<1> QED BY <1>1, <1>2, PortIsFirstStep, FirstListInvariant, PTL DEF StarSpec

-----------------------------------------------------------------------------
(* What a channel is still to store. *)
Coming(c) == in_callback[c] \o device[c]

(* The receiving thread has data in hand only until it copied it, and lists  *)
(* go only after it has ended; a packet stays with its channel.              *)
HandsInv ==
  /\ rec_thread # "copy" => buffer = <<>>
  /\ dropped # <<>> => rec_thread = "done"
  /\ \A c \in Channels : in_callback[c] \in Seq(OnChannel(c)) /\ device[c] \in Seq(OnChannel(c))

(* Every step keeps what the callbacks and the receiving thread have in *)
(* hand.                                                                *)
LEMMA HandsStep == StarTypeOK /\ HandsInv /\ [StarStep]_starVars => HandsInv'
<1> SUFFICES ASSUME StarTypeOK, HandsInv, [StarStep]_starVars PROVE HandsInv'
  OBVIOUS
<1> USE DEF HandsInv, recVars, listVars, receiveRest, linkVars, driverVars
<1>1. /\ device \in [Channels -> Seq(Packets)]
      /\ in_callback \in [Channels -> Seq(Packets)]
      /\ callback \in [Channels -> {"none", "push", "submit"}]
  BY DEF StarTypeOK, ChannelTypeOK, LinkTypeOK
<1>2. \A c \in Channels : <<>> \in Seq(OnChannel(c))
  OBVIOUS
<1>3. ASSUME NEW packet \in Packets, Arrive(packet) PROVE HandsInv'
  <2> DEFINE c == ChannelOf[packet]
  <2>1. packet \in OnChannel(c) /\ c \in Channels
    BY StarAssumption DEF OnChannel, Channels
  <2>2. Append(device[c], packet) \in Seq(OnChannel(c))
    BY <2>1, AppendProperties
  <2>3. device' = [device EXCEPT ![c] = Append(device[c], packet)]
    BY <1>3 DEF Arrive
  <2> QED BY <1>1, <1>3, <2>1, <2>2, <2>3 DEF Arrive
<1>4. ASSUME NEW c \in Channels, Complete(c) PROVE HandsInv'
  <2>1. device[c] # <<>>
    BY <1>4 DEF Complete
  <2>2. Head(device[c]) \in OnChannel(c) /\ Tail(device[c]) \in Seq(OnChannel(c))
    BY <2>1, HeadTailProperties
  <2>3. <<Head(device[c])>> \in Seq(OnChannel(c))
    BY <2>2
  <2> QED BY <1>1, <1>4, <2>2, <2>3 DEF Complete
<1>5. ASSUME NEW c \in Channels, Push(c) PROVE HandsInv'
  BY <1>1, <1>2, <1>5 DEF Push
<1>6. ASSUME NEW c \in Channels, CloseChannel(c) PROVE HandsInv'
  BY <1>1, <1>6 DEF CloseChannel
<1>7. CASE Receive
  BY <1>7 DEF Receive
<1>8. CASE Copy
  BY <1>8 DEF Copy, NoData
<1>9. ASSUME NEW c \in Channels, Open(c) \/ Fail(c) \/ Submit(c) PROVE HandsInv'
  BY <1>9 DEF Open, Fail, Submit
<1>10. CASE MakeDevice \/ Constructed \/ ReceiveNothing \/ RecEnds
  BY <1>10 DEF MakeDevice, Constructed, ReceiveNothing, RecEnds
<1>11. ASSUME NEW port \in Ports, Poll(port) PROVE HandsInv'
  BY <1>11 DEF Poll
<1>12. ASSUME NEW packet \in TxPackets, SendPacket(packet) PROVE HandsInv'
  BY <1>12 DEF SendPacket
<1>13. CASE UNCHANGED starVars
  BY <1>13 DEF starVars
<1> QED BY <1>3, <1>4, <1>5, <1>6, <1>7, <1>8, <1>9, <1>10, <1>11, <1>12, <1>13
           DEF StarStep, ChannelStep, Callback, Receiving

StoringTypes ==
  /\ received \in Seq(Packets) /\ buffer \in Seq(Packets) /\ dropped \in Seq(Packets)
  /\ m_received_packets \in [Channels -> Seq(Packets)]
  /\ m_received_packets[0] \in Seq(Packets)
  /\ in_callback \in [Channels -> Seq(Packets)]
  /\ device \in [Channels -> Seq(Packets)]
  /\ arrived \in [Channels -> Seq(Packets)]
  /\ Stored \in Seq(Packets)

(* The parts of what is stored are sequences of packets. *)
LEMMA StoringTyped == StarTypeOK => StoringTypes
<1> SUFFICES ASSUME StarTypeOK PROVE StoringTypes
  OBVIOUS
<1>1. /\ received \in Seq(Packets) /\ buffer \in Seq(Packets) /\ dropped \in Seq(Packets)
      /\ m_received_packets \in [Channels -> Seq(Packets)]
      /\ m_received_packets[0] \in Seq(Packets)
      /\ in_callback \in [Channels -> Seq(Packets)]
      /\ device \in [Channels -> Seq(Packets)]
      /\ arrived \in [Channels -> Seq(Packets)]
  BY FirstIsChannel DEF StarTypeOK, BufferTypeOK, LinkTypeOK, ChannelTypeOK
<1>2. Stored \in Seq(Packets)
  BY <1>1, ConcatProperties DEF Stored
<1> QED BY <1>1, <1>2 DEF StoringTypes

(* A callback adds its packet at the end of what was stored, *)
LEMMA PushStores ==
  ASSUME StarTypeOK, FirstListOnly, NEW c \in Channels, Push(c)
  PROVE  Stored' = Stored \o in_callback[c] /\ Coming(c)' = device[c]
<1>1. StoringTypes
  BY StoringTyped
<1> DEFINE over == received \o buffer \o dropped
           list == m_received_packets[0]
           hand == in_callback[c]
<1>2. over \in Seq(Packets) /\ list \in Seq(Packets) /\ hand \in Seq(Packets)
  BY <1>1, ConcatProperties DEF StoringTypes
<1>3. Stored' = over \o (list \o hand)
  BY PushesFirst DEF Push, Stored, recVars
<1>4. over \o (list \o hand) = (over \o list) \o hand
  <2> HIDE DEF over, list, hand
  <2> QED BY <1>2, ConcatAssociative
<1>5. Coming(c)' = <<>> \o device[c]
  BY <1>1 DEF Push, Coming, linkVars, StoringTypes
<1>6. <<>> \o device[c] = device[c]
  BY <1>1, ConcatEmptySeq DEF StoringTypes
<1> QED BY <1>3, <1>4, <1>5, <1>6 DEF Stored

(* and every other step leaves it, whoever has the packets now. *)
LEMMA ReceiveKeepsStored ==
  ASSUME StarTypeOK, FirstListOnly, HandsInv, Receive
  PROVE  Stored' = Stored
<1>1. StoringTypes /\ 0 \in Channels
  BY StoringTyped, FirstIsChannel
<1> DEFINE list == m_received_packets[packet_port]
<1>2. list # <<>> /\ packet_port \in Channels
  BY DEF Receive
<1>3. packet_port = 0
  BY <1>2 DEF FirstListOnly
<1>4. buffer = <<>> /\ dropped = <<>> /\ dropped' = dropped
  BY DEF HandsInv, Receive, receiveRest
<1> DEFINE first == <<Head(list)>>
           rest == Tail(list)
           all == received
<1>5. first \in Seq(Packets) /\ rest \in Seq(Packets) /\ list = first \o rest /\ all \in Seq(Packets)
  <2>1. list \in Seq(Packets)
    BY <1>1, <1>2 DEF StoringTypes
  <2>2. Head(list) \in Packets /\ rest \in Seq(Packets)
    BY <1>2, <2>1, HeadTailProperties
  <2> QED BY <1>1, <1>2, <2>1, <2>2 DEF StoringTypes
<1>6. Stored = ((all \o <<>>) \o <<>>) \o list
  BY <1>3, <1>4 DEF Stored
<1>7. Stored' = ((all \o first) \o <<>>) \o rest
  BY <1>1, <1>3, <1>4 DEF Stored, Receive, StoringTypes
<1> HIDE DEF first, rest, all, list
<1>8. (all \o <<>>) \o <<>> = all
  BY <1>5, ConcatEmptySeq
<1>9. (all \o first) \o <<>> = all \o first
  BY <1>5, ConcatProperties, ConcatEmptySeq
<1>10. (all \o first) \o rest = all \o (first \o rest)
  BY <1>5, ConcatAssociative
<1> QED BY <1>5, <1>6, <1>7, <1>8, <1>9, <1>10

(* Copying takes nothing from what is stored, *)
LEMMA CopyKeepsStored ==
  ASSUME StarTypeOK, Copy
  PROVE  Stored' = Stored
<1>1. StoringTypes
  BY StoringTyped
<1> DEFINE over == received \o buffer
<1>2. over \o <<>> = over
  <2>1. over \in Seq(Packets)
    BY <1>1, ConcatProperties DEF StoringTypes
  <2> HIDE DEF over
  <2> QED BY <2>1, ConcatEmptySeq
<1>3. Stored' = ((over \o <<>>) \o dropped) \o m_received_packets[0]
  BY DEF Copy, Stored, receiveRest, NoData
<1> QED BY <1>2, <1>3 DEF Stored

(* a list that goes counts as dropped, *)
LEMMA CloseKeepsStored ==
  ASSUME StarTypeOK, FirstListOnly, NEW c \in Channels, CloseChannel(c)
  PROVE  Stored' = Stored
<1>1. StoringTypes /\ 0 \in Channels
  BY StoringTyped, FirstIsChannel
<1> DEFINE over == received \o buffer
           list == m_received_packets[0]
           gone == m_received_packets[c]
<1>2. over \in Seq(Packets) /\ list \in Seq(Packets) /\ dropped \in Seq(Packets)
  BY <1>1, ConcatProperties DEF StoringTypes
<1>3. /\ Stored' = (over \o (dropped \o gone)) \o m_received_packets'[0]
      /\ m_received_packets'[0] = IF c = 0 THEN <<>> ELSE list
  BY <1>1 DEF CloseChannel, Stored, recVars, StoringTypes
<1>4. Stored = (over \o dropped) \o list
  BY DEF Stored
<1>5. CASE c = 0
  <2> HIDE DEF over, list
  <2>1. (over \o (dropped \o list)) \o <<>> = over \o (dropped \o list)
    BY <1>2, ConcatProperties, ConcatEmptySeq
  <2>2. over \o (dropped \o list) = (over \o dropped) \o list
    BY <1>2, ConcatAssociative
  <2> QED BY <1>3, <1>4, <1>5, <2>1, <2>2 DEF list
<1>6. CASE c # 0
  <2>1. gone = <<>>
    BY <1>6 DEF FirstListOnly
  <2>2. dropped \o <<>> = dropped
    BY <1>2, ConcatEmptySeq
  <2> QED BY <1>3, <1>4, <1>6, <2>1, <2>2
<1> QED BY <1>5, <1>6

(* and the other steps touch no stored packet. *)
LEMMA OthersKeepStored ==
  ASSUME \/ MakeDevice \/ Constructed \/ ReceiveNothing \/ RecEnds
         \/ \E port \in Ports : Poll(port)
         \/ \E packet \in Packets : Arrive(packet)
         \/ \E packet \in TxPackets : SendPacket(packet)
         \/ \E c \in Channels : Open(c) \/ Complete(c) \/ Fail(c) \/ Submit(c)
         \/ UNCHANGED starVars
  PROVE  Stored' = Stored /\ UNCHANGED <<destroyed, dropped, received, m_received_packets>>
<1>1. UNCHANGED <<destroyed, dropped, received, buffer, m_received_packets>>
  BY DEF MakeDevice, Constructed, ReceiveNothing, RecEnds, Poll, Arrive, SendPacket, Open, Complete,
         Fail, Submit, starVars, recVars, listVars, receiveRest
<1> QED BY <1>1 DEF Stored

(* What is still to be stored changes only when a packet arrives, or is      *)
(* stored.                                                                   *)
LEMMA ComingKept ==
  ASSUME \/ MakeDevice \/ Constructed \/ ReceiveNothing \/ RecEnds \/ Receive \/ Copy
         \/ \E port \in Ports : Poll(port)
         \/ \E packet \in TxPackets : SendPacket(packet)
         \/ \E c \in Channels : Open(c) \/ CloseChannel(c) \/ Fail(c) \/ Submit(c)
         \/ UNCHANGED starVars
  PROVE  UNCHANGED <<in_callback, device, arrived, link>>
BY DEF MakeDevice, Constructed, ReceiveNothing, RecEnds, Receive, Copy, Poll, SendPacket, Open,
       CloseChannel, Fail, Submit, starVars, driverVars, linkVars, receiveRest

(* A completed operation keeps the order of what comes on a channel. *)
LEMMA CompleteKeepsComing ==
  ASSUME StarTypeOK, NEW c \in Channels, Complete(c)
  PROVE  \A d \in Channels : Coming(d)' = Coming(d)
<1>1. StoringTypes
  BY StoringTyped
<1>2. callback[c] = "none" /\ device[c] # <<>> /\ device[c] \in Seq(Packets)
  BY <1>1 DEF Complete, StoringTypes
<1>3. in_callback[c] = <<>>
  BY <1>1, <1>2, EmptySeq DEF StarTypeOK, ChannelTypeOK, StoringTypes
<1>4. device[c] = <<Head(device[c])>> \o Tail(device[c])
  BY <1>2
<1>5. <<>> \o device[c] = device[c]
  BY <1>2, ConcatEmptySeq
<1>6. Coming(c)' = Coming(c)
  BY <1>1, <1>3, <1>4, <1>5 DEF Complete, Coming, StoringTypes
<1>7. ASSUME NEW d \in Channels, d # c PROVE Coming(d)' = Coming(d)
  BY <1>1, <1>7 DEF Complete, Coming, StoringTypes
<1> QED BY <1>6, <1>7

(* Every step keeps the packets of each channel, in order. *)
LEMMA RxConservationStep ==
  StarTypeOK /\ FirstListOnly /\ HandsInv /\ RxConservation /\ [StarStep]_starVars
    => RxConservation'
<1> SUFFICES ASSUME StarTypeOK, FirstListOnly, HandsInv, RxConservation, [StarStep]_starVars,
                    NEW d \in Channels
             PROVE  arrived'[d] = Filter(Stored', OnChannel(d)) \o Coming(d)'
  BY DEF RxConservation, Coming
<1>1. StoringTypes
  BY StoringTyped
<1>2. arrived[d] = Filter(Stored, OnChannel(d)) \o Coming(d)
  BY DEF RxConservation, Coming
<1> DEFINE mine == Filter(Stored, OnChannel(d))
<1>3. mine \in Seq(Packets) /\ Coming(d) \in Seq(Packets)
  BY <1>1, FilterType, ConcatProperties DEF StoringTypes, Coming
<1>4. ASSUME NEW packet \in Packets, Arrive(packet)
      PROVE  arrived'[d] = Filter(Stored', OnChannel(d)) \o Coming(d)'
  <2>1. Stored' = Stored
    BY <1>4, OthersKeepStored
  <2>2. CASE d = ChannelOf[packet]
    <3>1. arrived'[d] = Append(arrived[d], packet) /\ device'[d] = Append(device[d], packet)
          /\ in_callback' = in_callback
      BY <1>1, <1>4, <2>2 DEF Arrive, StoringTypes, driverVars
    <3>2. Coming(d)' = Append(Coming(d), packet)
      <4> DEFINE s == in_callback[d]
                 t == device[d]
      <4>1. s \in Seq(Packets) /\ t \in Seq(Packets)
        BY <1>1 DEF StoringTypes
      <4>2. s \o Append(t, packet) = Append(s \o t, packet)
        <5> HIDE DEF s, t
        <5> QED BY <4>1, AppendOfConcat
      <4> QED BY <3>1, <4>2 DEF Coming
    <3>3. mine \o Append(Coming(d), packet) = Append(mine \o Coming(d), packet)
      <4> HIDE DEF mine
      <4> QED BY <1>3, AppendOfConcat
    <3> QED BY <1>2, <2>1, <3>1, <3>2, <3>3
  <2>3. CASE d # ChannelOf[packet]
    <3>1. arrived'[d] = arrived[d] /\ Coming(d)' = Coming(d)
      BY <1>1, <1>4, <2>3 DEF Arrive, StoringTypes, driverVars, Coming
    <3> QED BY <1>2, <2>1, <3>1
  <2> QED BY <2>2, <2>3
<1>5. ASSUME NEW c \in Channels, Push(c)
      PROVE  arrived'[d] = Filter(Stored', OnChannel(d)) \o Coming(d)'
  <2> DEFINE hand == in_callback[c]
  <2>1. Stored' = Stored \o hand /\ Coming(c)' = device[c] /\ arrived' = arrived
    BY <1>5, PushStores DEF Push, linkVars
  <2>2. hand \in Seq(Packets) /\ hand \in Seq(OnChannel(c)) /\ Stored \in Seq(Packets)
    BY <1>1 DEF StoringTypes, HandsInv
  <2>3. Filter(Stored \o hand, OnChannel(d)) = mine \o Filter(hand, OnChannel(d))
    BY <2>2, FilterConcat
  <2>4. CASE d = c
    <3>1. Filter(hand, OnChannel(d)) = hand
      BY <2>2, <2>4, FilterAll
    <3>2. (mine \o hand) \o device[c] = mine \o (hand \o device[c])
      <4> DEFINE rest == device[c]
      <4>1. rest \in Seq(Packets)
        BY <1>1 DEF StoringTypes
      <4> HIDE DEF mine, hand, rest
      <4>2. (mine \o hand) \o rest = mine \o (hand \o rest)
        BY <1>3, <2>2, <4>1, ConcatAssociative
      <4> QED BY <4>2 DEF rest
    <3> QED BY <1>2, <2>1, <2>3, <2>4, <3>1, <3>2 DEF Coming
  <2>5. CASE d # c
    <3>1. Filter(hand, OnChannel(d)) = <<>>
      BY <2>2, <2>5, FilterNone DEF OnChannel
    <3>2. mine \o <<>> = mine
      <4> HIDE DEF mine
      <4> QED BY <1>3, ConcatEmptySeq
    <3>3. Coming(d)' = Coming(d)
      BY <1>1, <1>5, <2>5 DEF Push, linkVars, Coming, StoringTypes
    <3> QED BY <1>2, <2>1, <2>3, <3>1, <3>2, <3>3
  <2> QED BY <2>4, <2>5
<1>6. CASE Stored' = Stored /\ arrived' = arrived /\ Coming(d)' = Coming(d)
  BY <1>2, <1>6
<1>7. ASSUME NEW c \in Channels, Complete(c)
      PROVE  Stored' = Stored /\ arrived' = arrived /\ Coming(d)' = Coming(d)
  BY <1>7, OthersKeepStored, CompleteKeepsComing DEF Complete
<1>8. ASSUME \/ Receive \/ Copy \/ \E c \in Channels : CloseChannel(c)
             \/ MakeDevice \/ Constructed \/ ReceiveNothing \/ RecEnds
             \/ \E port \in Ports : Poll(port)
             \/ \E packet \in TxPackets : SendPacket(packet)
             \/ \E c \in Channels : Open(c) \/ Fail(c) \/ Submit(c)
             \/ UNCHANGED starVars
      PROVE  Stored' = Stored /\ arrived' = arrived /\ Coming(d)' = Coming(d)
  <2>1. UNCHANGED <<in_callback, device, arrived>>
    BY <1>8, ComingKept
  <2>2. Stored' = Stored
    BY <1>8, OthersKeepStored, ReceiveKeepsStored, CopyKeepsStored, CloseKeepsStored
  <2> QED BY <2>1, <2>2 DEF Coming
<1> QED BY <1>4, <1>5, <1>6, <1>7, <1>8 DEF StarStep, ChannelStep, Callback, Receiving

(* What every channel brought is somewhere, once and in order, although the  *)
(* packets of all the channels go through one list.                          *)
THEOREM ChannelsConserve == StarSpec => []RxConservation
<1>1. StarInit => HandsInv /\ RxConservation
  <2> SUFFICES ASSUME StarInit PROVE HandsInv /\ RxConservation
    OBVIOUS
  <2>1. HandsInv
    BY DEF StarInit, HandsInv
  <2>2. Stored = <<>>
    <3>1. Stored = <<>> \o <<>> \o <<>> \o <<>>
      BY FirstIsChannel DEF StarInit, Stored
    <3>2. <<>> \o <<>> = <<>>
      BY EmptySeq, ConcatEmptySeq
    <3> QED BY <3>1, <3>2
  <2>3. \A c \in Channels : Filter(<<>>, OnChannel(c)) \o (<<>> \o <<>>) = <<>>
    BY FilterEmpty, EmptySeq, ConcatEmptySeq
  <2> QED BY <2>1, <2>2, <2>3 DEF StarInit, RxConservation
<1> QED BY <1>1, FirstListInvariant, HandsStep, RxConservationStep, PTL DEF StarSpec

-----------------------------------------------------------------------------
(* Every packet is in one place: it is still to arrive, still to be stored,  *)
(* or was stored, once.                                                      *)
OnePlaceInv ==
  /\ NoRepeats(Stored)
  /\ Elements(Stored) \cap link = {}
  /\ \A c \in Channels :
       /\ NoRepeats(Coming(c))
       /\ Elements(Coming(c)) \cap link = {}
       /\ Elements(Coming(c)) \cap Elements(Stored) = {}

(* Every step keeps each packet's data in one place. *)
LEMMA OnePlaceStep ==
  StarTypeOK /\ FirstListOnly /\ HandsInv /\ OnePlaceInv /\ [StarStep]_starVars => OnePlaceInv'
<1> SUFFICES ASSUME StarTypeOK, FirstListOnly, HandsInv, OnePlaceInv, [StarStep]_starVars
             PROVE  OnePlaceInv'
  OBVIOUS
<1>1. StoringTypes
  BY StoringTyped
<1>2. ASSUME NEW c \in Channels
      PROVE  Coming(c) \in Seq(Packets) /\ Elements(Coming(c)) \subseteq OnChannel(c)
  <2>1. in_callback[c] \in Seq(OnChannel(c)) /\ device[c] \in Seq(OnChannel(c))
    BY DEF HandsInv
  <2>2. Coming(c) \in Seq(OnChannel(c))
    BY <2>1, ConcatProperties DEF Coming
  <2>3. OnChannel(c) \subseteq Packets
    BY DEF OnChannel
  <2> QED BY <2>2, <2>3, ElementsType, SeqMonotonic
<1>3. ASSUME NEW c \in Channels, NEW d \in Channels, c # d
      PROVE  OnChannel(c) \cap OnChannel(d) = {}
  BY <1>3 DEF OnChannel
<1>4. CASE Stored' = Stored /\ link' = link /\ \A c \in Channels : Coming(c)' = Coming(c)
  BY <1>4 DEF OnePlaceInv
<1>5. ASSUME NEW packet \in Packets, Arrive(packet) PROVE OnePlaceInv'
  <2> DEFINE c == ChannelOf[packet]
  <2>1. /\ c \in Channels /\ Stored' = Stored /\ packet \in link /\ link' = link \ {packet}
        /\ in_callback' = in_callback
        /\ device' = [device EXCEPT ![c] = Append(device[c], packet)]
    BY <1>5, StarAssumption, OthersKeepStored DEF Arrive, Channels, driverVars
  <2>2. Coming(c)' = Append(Coming(c), packet)
    <3> DEFINE s == in_callback[c]
               t == device[c]
    <3>1. s \in Seq(Packets) /\ t \in Seq(Packets)
      BY <1>1, <2>1 DEF StoringTypes
    <3>2. s \o Append(t, packet) = Append(s \o t, packet)
      <4> HIDE DEF s, t
      <4> QED BY <3>1, AppendOfConcat
    <3>3. Coming(c)' = s \o Append(t, packet)
      BY <1>1, <2>1 DEF Coming, StoringTypes
    <3> QED BY <3>2, <3>3 DEF Coming
  <2>3. \A d \in Channels : d # c => Coming(d)' = Coming(d)
    BY <1>1, <2>1 DEF Coming, StoringTypes
  <2>4. packet \notin Elements(Coming(c)) /\ packet \notin Elements(Stored)
    BY <2>1 DEF OnePlaceInv
  <2> DEFINE one == <<packet>>
             coming == Coming(c)
  <2>5. /\ one \in Seq(Packets) /\ NoRepeats(one) /\ Elements(one) = {packet}
        /\ coming \in Seq(Packets)
    BY <1>2, <2>1 DEF NoRepeats, Elements
  <2>6. NoRepeats(coming \o one) /\ Elements(coming \o one) = Elements(coming) \cup {packet}
    <3>1. NoRepeats(coming) /\ Elements(coming) \cap {packet} = {}
      BY <2>1, <2>4 DEF OnePlaceInv
    <3> HIDE DEF one, coming
    <3> QED BY <2>5, <3>1, NoRepeatsConcat, ElementsConcat
  <2>7. Append(coming, packet) = coming \o one
    BY <2>5, AppendIsConcat
  <2>8. NoRepeats(Coming(c)') /\ Elements(Coming(c)') = Elements(Coming(c)) \cup {packet}
    BY <2>2, <2>6, <2>7
  <2>9. ASSUME NEW d \in Channels
        PROVE  /\ NoRepeats(Coming(d)')
               /\ Elements(Coming(d)') \cap link' = {}
               /\ Elements(Coming(d)') \cap Elements(Stored') = {}
    <3>1. CASE d = c
      BY <2>1, <2>4, <2>8, <3>1 DEF OnePlaceInv
    <3>2. CASE d # c
      BY <2>1, <2>3, <3>2 DEF OnePlaceInv
    <3> QED BY <3>1, <3>2
  <2>10. NoRepeats(Stored') /\ Elements(Stored') \cap link' = {}
    BY <2>1 DEF OnePlaceInv
  <2> QED BY <2>9, <2>10 DEF OnePlaceInv, NoRepeats, Elements
<1>6. ASSUME NEW c \in Channels, Push(c) PROVE OnePlaceInv'
  <2> DEFINE hand == in_callback[c]
             rest == device[c]
  <2>1. /\ Stored' = Stored \o hand /\ Coming(c)' = rest /\ link' = link
        /\ \A d \in Channels : d # c => Coming(d)' = Coming(d)
    BY <1>1, <1>6, PushStores DEF Push, linkVars, Coming, StoringTypes
  <2>2. hand \in Seq(Packets) /\ rest \in Seq(Packets) /\ Stored \in Seq(Packets)
    BY <1>1 DEF StoringTypes
  <2>3. NoRepeats(hand \o rest) /\ Elements(hand \o rest) \cap Elements(Stored) = {}
        /\ Elements(hand \o rest) \cap link = {}
    BY DEF OnePlaceInv, Coming
  <2>4. /\ NoRepeats(hand) /\ NoRepeats(rest) /\ Elements(hand) \cap Elements(rest) = {}
        /\ Elements(hand \o rest) = Elements(hand) \cup Elements(rest)
    <3> HIDE DEF hand, rest
    <3> QED BY <2>2, <2>3, NoRepeatsConcat, ElementsConcat
  <2>5. NoRepeats(Stored) /\ Elements(Stored) \cap Elements(hand) = {}
    BY <2>3, <2>4 DEF OnePlaceInv
  <2>6. NoRepeats(Stored \o hand) /\ Elements(Stored \o hand) = Elements(Stored) \cup Elements(hand)
    <3> HIDE DEF hand
    <3> QED BY <2>2, <2>4, <2>5, NoRepeatsConcat, ElementsConcat
  <2>7. Elements(hand) \subseteq OnChannel(c)
    BY <1>2, <2>4 DEF Coming
  <2>8. ASSUME NEW d \in Channels
        PROVE  /\ NoRepeats(Coming(d)')
               /\ Elements(Coming(d)') \cap link' = {}
               /\ Elements(Coming(d)') \cap Elements(Stored') = {}
    <3>1. CASE d = c
      BY <2>1, <2>3, <2>4, <2>6, <3>1
    <3>2. CASE d # c
      <4>1. Elements(Coming(d)) \cap Elements(hand) = {}
        BY <1>2, <1>3, <2>7, <3>2
      <4> QED BY <2>1, <2>6, <3>2, <4>1 DEF OnePlaceInv
    <3> QED BY <3>1, <3>2
  <2>9. NoRepeats(Stored') /\ Elements(Stored') \cap link' = {}
    BY <2>1, <2>3, <2>4, <2>6 DEF OnePlaceInv
  <2> QED BY <2>8, <2>9 DEF OnePlaceInv, NoRepeats, Elements
<1>7. ASSUME NEW c \in Channels, Complete(c)
      PROVE  Stored' = Stored /\ link' = link /\ \A d \in Channels : Coming(d)' = Coming(d)
  BY <1>7, OthersKeepStored, CompleteKeepsComing DEF Complete
<1>8. ASSUME \/ Receive \/ Copy \/ \E c \in Channels : CloseChannel(c)
             \/ MakeDevice \/ Constructed \/ ReceiveNothing \/ RecEnds
             \/ \E port \in Ports : Poll(port)
             \/ \E packet \in TxPackets : SendPacket(packet)
             \/ \E c \in Channels : Open(c) \/ Fail(c) \/ Submit(c)
             \/ UNCHANGED starVars
      PROVE  Stored' = Stored /\ link' = link /\ \A d \in Channels : Coming(d)' = Coming(d)
  <2>1. UNCHANGED <<in_callback, device, link>>
    BY <1>8, ComingKept
  <2>2. Stored' = Stored
    BY <1>8, OthersKeepStored, ReceiveKeepsStored, CopyKeepsStored, CloseKeepsStored
  <2> QED BY <2>1, <2>2 DEF Coming
<1> QED BY <1>4, <1>5, <1>6, <1>7, <1>8 DEF StarStep, ChannelStep, Callback, Receiving

(* The parts of what was stored have no packet in common. *)
LEMMA PartsAreApart ==
  ASSUME StarTypeOK, OnePlaceInv
  PROVE  /\ Elements(buffer) \cap (Elements(received) \cup Elements(dropped)) = {}
         /\ Elements(m_received_packets[0]) \cap (Elements(received) \cup Elements(dropped)) = {}
<1>1. StoringTypes
  BY StoringTyped
<1> DEFINE list == m_received_packets[0]
           over == received \o buffer
           gone == over \o dropped
<1>2. /\ received \in Seq(Packets) /\ buffer \in Seq(Packets) /\ dropped \in Seq(Packets)
      /\ list \in Seq(Packets) /\ over \in Seq(Packets) /\ gone \in Seq(Packets)
  BY <1>1, ConcatProperties DEF StoringTypes
<1>3. NoRepeats(gone \o list)
  BY DEF OnePlaceInv, Stored
<1> HIDE DEF list
<1>4. NoRepeats(gone) /\ Elements(gone) \cap Elements(list) = {}
  <2> HIDE DEF gone
  <2> QED BY <1>2, <1>3, NoRepeatsConcat
<1>5. /\ NoRepeats(over) /\ Elements(over) \cap Elements(dropped) = {}
      /\ Elements(gone) = Elements(over) \cup Elements(dropped)
  <2> HIDE DEF over
  <2> QED BY <1>2, <1>4, NoRepeatsConcat, ElementsConcat
<1>6. /\ Elements(received) \cap Elements(buffer) = {}
      /\ Elements(over) = Elements(received) \cup Elements(buffer)
  BY <1>2, <1>5, NoRepeatsConcat, ElementsConcat
<1> QED BY <1>4, <1>5, <1>6 DEF list

(* So no step gives data back that was given back. *)
LEMMA DestroyedOnceStep ==
  StarTypeOK /\ FirstListOnly /\ OnePlaceInv /\ DestroyedOnce /\ [StarStep]_starVars
    => DestroyedOnce'
<1> SUFFICES ASSUME StarTypeOK, FirstListOnly, OnePlaceInv, DestroyedOnce, [StarStep]_starVars
             PROVE  DestroyedOnce'
  OBVIOUS
<1>1. StoringTypes /\ 0 \in Channels
  BY StoringTyped, FirstIsChannel
<1>2. destroyed \in [Packets -> Nat] /\ Elements(<<>>) = {}
  BY DEF StarTypeOK, BufferTypeOK, Elements
<1>3. Destroyed(<<>>) = destroyed
  BY <1>2 DEF Destroyed
<1>4. CASE UNCHANGED <<destroyed, dropped, received>>
  BY <1>4 DEF DestroyedOnce
<1>5. CASE Receive
  BY <1>3, <1>5 DEF Receive, receiveRest, MovedFrom, NoData, DestroyedOnce
<1>6. ASSUME NEW c \in Channels, Push(c) PROVE UNCHANGED <<destroyed, dropped, received>>
  BY <1>3, <1>6 DEF Push, MovedFrom, NoData, recVars
<1>7. CASE Copy
  <2>1. /\ destroyed' = Destroyed(buffer) /\ dropped' = dropped
        /\ received' = received \o buffer
    BY <1>7 DEF Copy, receiveRest
  <2>2. Elements(received \o buffer) = Elements(received) \cup Elements(buffer)
    BY <1>1, ElementsConcat DEF StoringTypes
  <2>3. Elements(buffer) \cap (Elements(received) \cup Elements(dropped)) = {}
    BY PartsAreApart
  <2>4. ASSUME NEW packet \in Packets
        PROVE  destroyed'[packet] =
                 IF packet \in Elements(received') \cup Elements(dropped') THEN 1 ELSE 0
    <3>1. destroyed'[packet] =
            IF packet \in Elements(buffer) THEN destroyed[packet] + 1 ELSE destroyed[packet]
      BY <2>1 DEF Destroyed
    <3>2. destroyed[packet] =
            IF packet \in Elements(received) \cup Elements(dropped) THEN 1 ELSE 0
      BY DEF DestroyedOnce
    <3> QED BY <2>1, <2>2, <2>3, <3>1, <3>2
  <2> QED BY <2>4 DEF DestroyedOnce, Elements
<1>8. ASSUME NEW c \in Channels, CloseChannel(c) PROVE DestroyedOnce'
  <2> DEFINE list == m_received_packets[c]
  <2>1. /\ destroyed' = Destroyed(list) /\ dropped' = dropped \o list
        /\ received' = received
    BY <1>8 DEF CloseChannel, recVars
  <2>2. Elements(dropped \o list) = Elements(dropped) \cup Elements(list)
    <3>1. list \in Seq(Packets) /\ dropped \in Seq(Packets)
      BY <1>1 DEF StoringTypes
    <3> HIDE DEF list
    <3> QED BY <3>1, ElementsConcat
  <2>3. Elements(list) \cap (Elements(received) \cup Elements(dropped)) = {}
    <3>1. CASE c = 0
      BY <3>1, PartsAreApart
    <3>2. CASE c # 0
      BY <1>2, <3>2 DEF FirstListOnly
    <3> QED BY <3>1, <3>2
  <2>4. ASSUME NEW packet \in Packets
        PROVE  destroyed'[packet] =
                 IF packet \in Elements(received') \cup Elements(dropped') THEN 1 ELSE 0
    <3>1. destroyed'[packet] =
            IF packet \in Elements(list) THEN destroyed[packet] + 1 ELSE destroyed[packet]
      BY <2>1 DEF Destroyed
    <3>2. destroyed[packet] =
            IF packet \in Elements(received) \cup Elements(dropped) THEN 1 ELSE 0
      BY DEF DestroyedOnce
    <3> QED BY <2>1, <2>2, <2>3, <3>1, <3>2
  <2> QED BY <2>4 DEF DestroyedOnce, Elements
<1> QED BY <1>4, <1>5, <1>6, <1>7, <1>8, OthersKeepStored
        DEF StarStep, ChannelStep, Callback, Receiving

(* STAR_destroyPacketData is called exactly once for every packet that was   *)
(* copied or went with a list: no double destruction and no leak, whatever   *)
(* the callbacks, the receiving thread and the destructor do.                *)
THEOREM DataDestroyedOnce == StarSpec => []DestroyedOnce
<1>1. StarInit => HandsInv /\ OnePlaceInv /\ DestroyedOnce
  <2> SUFFICES ASSUME StarInit PROVE HandsInv /\ OnePlaceInv /\ DestroyedOnce
    OBVIOUS
  <2>1. HandsInv
    BY DEF StarInit, HandsInv
  <2>2. <<>> \o <<>> = <<>> /\ Elements(<<>>) = {} /\ NoRepeats(<<>>)
    BY EmptySeq, ConcatEmptySeq DEF Elements, NoRepeats
  <2>3. Stored = <<>> /\ \A c \in Channels : Coming(c) = <<>>
    <3>1. Stored = <<>> \o <<>> \o <<>> \o <<>>
      BY FirstIsChannel DEF StarInit, Stored
    <3>2. \A c \in Channels : Coming(c) = <<>> \o <<>>
      BY DEF StarInit, Coming
    <3> QED BY <2>2, <3>1, <3>2
  <2>4. OnePlaceInv
    BY <2>2, <2>3 DEF OnePlaceInv
  <2>5. DestroyedOnce
    BY <2>2 DEF StarInit, DestroyedOnce
  <2> QED BY <2>1, <2>4, <2>5
<1> QED BY <1>1, FirstListInvariant, HandsStep, OnePlaceStep, DestroyedOnceStep, PTL DEF StarSpec

-----------------------------------------------------------------------------
(* Nothing is sent before the constructor has ended; afterwards the channels *)
(* of a device are open, until the destructor closes them.                   *)
SendingInv ==
  /\ rec_thread \in {"unborn", "open"} =>
       \A c \in Channels : accepted[c] = <<>> /\ transmitted[c] = <<>>
  /\ rec_thread \notin {"unborn", "open"} /\ ready => \A c \in Channels : channel[c] # "new"
  /\ AcceptedIsSent

(* Every step keeps what was accepted equal to what was sent. *)
LEMMA SendingStep == StarTypeOK /\ SendingInv /\ [StarStep]_starVars => SendingInv'
<1> SUFFICES ASSUME StarTypeOK, SendingInv, [StarStep]_starVars PROVE SendingInv'
  OBVIOUS
<1> USE DEF SendingInv
<1>1. /\ accepted \in [Channels -> Seq(TxPackets)]
      /\ transmitted \in [Channels -> Seq(TxPackets)]
      /\ channel \in [Channels -> {"new", "open", "gone"}]
      /\ \A c \in Channels : channel[c] # "new" => ready
  BY DEF StarTypeOK, LinkTypeOK, ChannelTypeOK, DeviceTypeOK
<1>2. CASE UNCHANGED <<txVars, channel, m_device>> /\
           (rec_thread' \in {"unborn", "open"} <=> rec_thread \in {"unborn", "open"})
  BY <1>2 DEF txVars, ready, AcceptedIsSent
<1>3. ASSUME NEW packet \in TxPackets, SendPacket(packet) PROVE SendingInv'
  <2> DEFINE c == PortOf[packet]
             full == TxPackets \ Empty
  <2>1. /\ rec_thread' = rec_thread /\ rec_thread \notin {"unborn", "open"}
        /\ ready' = ready /\ channel' = channel
        /\ \A d \in Channels : channel[d] # "gone"
        /\ \A d \in Channels : accepted'[d] = IF d = c THEN Append(accepted[d], packet) ELSE accepted[d]
        /\ \A d \in Channels : transmitted'[d] =
             IF d = c THEN Transmitted(d, RawPacketBuffer(packet)) ELSE transmitted[d]
    BY <1>3 DEF SendPacket, ChannelFor, recVars, deviceVars, ready
  <2>2. ASSUME NEW d \in Channels
        PROVE  transmitted'[d] = IF ready THEN Filter(accepted'[d], full) ELSE <<>>
    <3>0. transmitted[d] = IF ready THEN Filter(accepted[d], full) ELSE <<>>
      BY DEF AcceptedIsSent
    <3>1. CASE d # c
      BY <2>1, <3>0, <3>1
    <3>2. CASE d = c /\ ~ready
      <4>1. channel[d] = "new"
        BY <1>1, <3>2
      <4> QED BY <2>1, <3>0, <3>2, <4>1 DEF Transmitted
    <3>3. CASE d = c /\ ready
      <4>1. channel[d] = "open"
        BY <1>1, <2>1, <3>3
      <4>2. accepted[d] \in Seq(TxPackets) /\ transmitted[d] \in Seq(TxPackets)
        BY <1>1
      <4>3. Filter(Append(accepted[d], packet), full) =
              IF packet \in full THEN Append(Filter(accepted[d], full), packet)
                                 ELSE Filter(accepted[d], full)
        <5> DEFINE s == accepted[d]
        <5>1. s \in Seq(TxPackets)
          BY <4>2
        <5> HIDE DEF s, full
        <5>2. Filter(Append(s, packet), full) =
                IF packet \in full THEN Append(Filter(s, full), packet) ELSE Filter(s, full)
          BY <5>1, FilterAppend
        <5> QED BY <5>2 DEF s
      <4>4. CASE packet \in Empty
        <5>1. Transmitted(d, RawPacketBuffer(packet)) = transmitted[d]
          BY <4>4 DEF Transmitted, RawPacketBuffer, NoData
        <5> QED BY <2>1, <3>0, <3>3, <4>3, <4>4, <5>1
      <4>5. CASE packet \notin Empty
        <5>1. <<packet>> # <<>>
          OBVIOUS
        <5>2. Transmitted(d, RawPacketBuffer(packet)) = transmitted[d] \o <<packet>>
          BY <4>1, <4>5, <5>1 DEF Transmitted, RawPacketBuffer, NoData
        <5>3. transmitted[d] \o <<packet>> = Append(transmitted[d], packet)
          BY <4>2, AppendIsConcat
        <5> QED BY <2>1, <3>0, <3>3, <4>3, <4>5, <5>2, <5>3
      <4> QED BY <4>4, <4>5
    <3> QED BY <3>1, <3>2, <3>3
  <2>3. AcceptedIsSent'
    BY <2>1, <2>2 DEF AcceptedIsSent
  <2> QED BY <2>1, <2>3
<1>4. CASE MakeDevice
  <2>1. /\ rec_thread = "unborn" /\ rec_thread' = "open" /\ accepted' = accepted
        /\ transmitted' = transmitted
    BY <1>4 DEF MakeDevice, txVars
  <2>2. \A A : Filter(<<>>, A) = <<>>
    BY FilterEmpty
  <2> QED BY <2>1, <2>2 DEF AcceptedIsSent
<1>5. CASE Constructed
  <2>1. /\ rec_thread = "open" /\ rec_thread' = "poll" /\ accepted' = accepted
        /\ transmitted' = transmitted /\ ready' = ready /\ channel' = channel
        /\ ready => \A c \in Channels : channel[c] = "open"
    BY <1>5 DEF Constructed, txVars, deviceVars, ready
  <2>2. AcceptedIsSent'
    BY <2>1 DEF AcceptedIsSent
  <2> QED BY <2>1, <2>2
<1>6. ASSUME NEW c \in Channels, Open(c) \/ CloseChannel(c) PROVE SendingInv'
  <2>1. /\ UNCHANGED <<accepted, transmitted, rec_thread>> /\ ready' = ready
        /\ \A d \in Channels : channel'[d] = "new" => channel[d] = "new"
    BY <1>1, <1>6 DEF Open, CloseChannel, txVars, recVars, deviceVars, ready
  <2> QED BY <2>1 DEF AcceptedIsSent
<1>7. ASSUME \/ \E packet \in Packets : Arrive(packet)
             \/ \E c \in Channels : Complete(c) \/ Fail(c) \/ Push(c) \/ Submit(c)
             \/ \E port \in Ports : Poll(port)
             \/ Receive \/ Copy \/ ReceiveNothing \/ RecEnds
             \/ UNCHANGED starVars
      PROVE  UNCHANGED <<txVars, channel, m_device>> /\
             (rec_thread' \in {"unborn", "open"} <=> rec_thread \in {"unborn", "open"})
  BY <1>7 DEF Arrive, Complete, Fail, Push, Submit, Poll, Receive, Copy, ReceiveNothing, RecEnds,
              starVars, deviceVars, recVars, receiveRest
<1> QED BY <1>2, <1>3, <1>4, <1>5, <1>6, <1>7 DEF StarStep, ChannelStep, Callback, Receiving

(* send_packet sends what it returns true for, on the channel of its port    *)
(* and in the order of the calls, except without a device or without data.   *)
THEOREM SendsWhatItAccepts == StarSpec => []AcceptedIsSent
<1>1. StarInit => SendingInv
  BY FilterEmpty DEF StarInit, SendingInv, AcceptedIsSent
<1>2. SendingInv => AcceptedIsSent
  BY DEF SendingInv
<1> QED BY <1>1, <1>2, SendingStep, StarTypeCorrect, PTL DEF StarSpec
=============================================================================
