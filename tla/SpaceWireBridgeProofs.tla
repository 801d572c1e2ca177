----------------------- MODULE SpaceWireBridgeProofs -----------------------
(***************************************************************************)
(* Proofs about SpaceWireBridge, for any set of bridges and packets, any    *)
(* queue capacity and any number of polls.                                  *)
(***************************************************************************)
EXTENDS SpaceWireBridge, PacketQueueProofs, HistoriesProofs

-----------------------------------------------------------------------------
(* BridgeTypeOK is inductive by itself: the bounds on the queues follow from *)
(* add waiting for space.                                                    *)
LEMMA BridgeTypeStep == BridgeTypeOK /\ [BridgeNext]_bridgeVars => BridgeTypeOK'
<1> SUFFICES ASSUME BridgeTypeOK, [BridgeNext]_bridgeVars
             PROVE  BridgeTypeOK'
  OBVIOUS
<1> USE DEF BridgeTypeOK, queueVars, recVars, sendVars, deviceVars, bridgeVars
<1>1. ASSUME NEW b \in BridgeIds, Construct(b) PROVE BridgeTypeOK'
  <2>1. object' \in [BridgeIds -> Lives]
    BY <1>1 DEF Construct, Lives
  <2>2. ReceivingTypeOK'
    <3>1. Len(rec_packet[b]) = 0
      BY <1>1 DEF Construct, ReceivingTypeOK
    <3>2. rec_thread' \in [BridgeIds -> RecPlaces]
      BY <1>1 DEF Construct, ReceivingTypeOK, RecPlaces
    <3>3. QED
      BY <1>1, <3>1, <3>2 DEF Construct, ReceivingTypeOK
  <2>3. SendingTypeOK'
    <3>1. Len(send_packet[b]) = 0
      BY <1>1 DEF Construct, SendingTypeOK
    <3>2. send_thread' \in [BridgeIds -> SendPlaces]
      BY <1>1 DEF Construct, SendingTypeOK, SendPlaces
    <3>3. QED
      BY <1>1, <3>1, <3>2 DEF Construct, SendingTypeOK
  <2>4. QED
    BY <1>1, <2>1, <2>2, <2>3 DEF Construct, PublishTypeOK, DeviceTypeOK
<1>2. ASSUME NEW b \in BridgeIds, NEW packet \in Packets, Send(b, packet) PROVE BridgeTypeOK'
  <2>1. /\ Add(sending_queue[b], packet) \in QueueOf(Packets)
        /\ WithinCapacity(Add(sending_queue[b], packet))
    BY <1>2, AddKeepsQueue DEF Send, SendingTypeOK
  <2>2. Append(accepted[b], packet) \in Seq(Packets)
    BY AppendProperties DEF SendingTypeOK
  <2>3. SendingTypeOK'
    BY <1>2, <2>1, <2>2 DEF Send, SendingTypeOK
  <2>4. QED
    BY <1>2, <2>3 DEF Send, PublishTypeOK, ReceivingTypeOK, DeviceTypeOK
<1>3. ASSUME NEW b \in BridgeIds, DestroyClose(b) PROVE BridgeTypeOK'
  <2>1. /\ Close(sending_queue[b]) \in QueueOf(Packets)
        /\ WithinCapacity(Close(sending_queue[b]))
    <3>1. sending_queue[b] \in QueueOf(Packets) /\ WithinCapacity(sending_queue[b])
      BY DEF SendingTypeOK
    <3>2. QED
      BY <3>1, CloseKeepsQueue DEF WithinCapacity
  <2>2. SendingTypeOK' /\ object' \in [BridgeIds -> Lives]
    BY <1>3, <2>1 DEF DestroyClose, SendingTypeOK, Lives
  <2>3. QED
    BY <1>3, <2>2 DEF DestroyClose, PublishTypeOK, ReceivingTypeOK, DeviceTypeOK
<1>4. ASSUME NEW b \in BridgeIds, DestroyJoinRec(b) \/ DestroyJoinSend(b) PROVE BridgeTypeOK'
  BY <1>4 DEF DestroyJoinRec, DestroyJoinSend, Lives, PublishTypeOK, ReceivingTypeOK,
              SendingTypeOK, DeviceTypeOK
<1>5. ASSUME NEW b \in BridgeIds, RecWhile(b) PROVE BridgeTypeOK'
  <2>1. ReceivingTypeOK'
    BY <1>5, BridgeAssumption DEF RecWhile, ReceivingTypeOK, RecPlaces
  <2>2. QED
    BY <1>5, <2>1 DEF RecWhile, PublishTypeOK, SendingTypeOK, DeviceTypeOK
<1>6. ASSUME NEW b \in BridgeIds, RecReceive(b) PROVE BridgeTypeOK'
  <2>1. Head(device_rx[b]) \in Packets /\ Tail(device_rx[b]) \in Seq(Packets)
    BY <1>6, HeadTailProperties DEF RecReceive, DeviceTypeOK
  <2>2. <<Head(device_rx[b])>> \in Seq(Packets) /\ Len(<<Head(device_rx[b])>>) = 1
    BY <2>1
  <2>3. ReceivingTypeOK'
    BY <1>6, <2>2 DEF RecReceive, ReceivingTypeOK, RecPlaces
  <2>4. DeviceTypeOK'
    BY <1>6, <2>1 DEF RecReceive, DeviceTypeOK
  <2>5. QED
    BY <1>6, <2>3, <2>4 DEF RecReceive, PublishTypeOK, SendingTypeOK
<1>7. ASSUME NEW b \in BridgeIds, RecMiss(b) PROVE BridgeTypeOK'
  <2>1. rec_tries[b] < MaxTries /\ rec_tries[b] + 1 \in 0 .. MaxTries
    BY <1>7, BridgeAssumption DEF RecMiss, ReceivingTypeOK
  <2>2. ReceivingTypeOK'
    BY <1>7, <2>1 DEF RecMiss, ReceivingTypeOK, RecPlaces
  <2>3. QED
    BY <1>7, <2>2 DEF RecMiss, PublishTypeOK, SendingTypeOK, DeviceTypeOK
<1>8. ASSUME NEW b \in BridgeIds, RecAdd(b) PROVE BridgeTypeOK'
  <2>1. rec_packet[b] \in Seq(Packets) /\ Len(rec_packet[b]) = 1
    BY <1>8 DEF RecAdd, ReceivingTypeOK
  <2>2. rec_packet[b][1] \in Packets
    BY <2>1, ElementOfSeq
  <2>3. publish_queue' \in QueueOf(Packets) /\ WithinCapacity(publish_queue')
    BY <1>8, <2>2, AddKeepsQueue DEF RecAdd, PublishTypeOK
  <2>4. captured' \in Seq(Packets)
    BY <1>8, <2>1, ConcatProperties DEF RecAdd, PublishTypeOK
  <2>5. PublishTypeOK'
    BY <1>8, <2>3, <2>4 DEF RecAdd, PublishTypeOK
  <2>6. forwarded[b] \o rec_packet[b] \in Seq(Packets)
    BY <2>1, ConcatProperties DEF ReceivingTypeOK
  <2>7. ReceivingTypeOK'
    <3> DEFINE none == <<>>
    <3>1. /\ rec_thread' = [rec_thread EXCEPT ![b] = "poll"]
          /\ rec_tries' = [rec_tries EXCEPT ![b] = 0]
          /\ rec_packet' = [rec_packet EXCEPT ![b] = none]
          /\ forwarded' = [forwarded EXCEPT ![b] = forwarded[b] \o rec_packet[b]]
      BY <1>8 DEF RecAdd
    <3>2. none \in Seq(Packets) /\ Len(none) = 0 /\ 0 < MaxTries /\ 0 \in 0 .. MaxTries
      BY BridgeAssumption, EmptySeq
    <3> HIDE DEF none
    <3>3. QED
      BY <3>1, <3>2, <2>6 DEF ReceivingTypeOK, RecPlaces
  <2>8. QED
    BY <1>8, <2>5, <2>7 DEF RecAdd, SendingTypeOK, DeviceTypeOK
<1>9. ASSUME NEW b \in BridgeIds, SendWhile(b) PROVE BridgeTypeOK'
  <2>1. SendingTypeOK'
    BY <1>9 DEF SendWhile, SendingTypeOK, SendPlaces
  <2>2. QED
    BY <1>9, <2>1 DEF SendWhile, PublishTypeOK, ReceivingTypeOK, DeviceTypeOK
<1>10. ASSUME NEW b \in BridgeIds, SendTake(b) PROVE BridgeTypeOK'
  <2>1. /\ First(sending_queue[b]) \in Packets
        /\ AfterTake(sending_queue[b]) \in QueueOf(Packets)
        /\ WithinCapacity(AfterTake(sending_queue[b]))
    BY <1>10, TakeKeepsQueue DEF SendTake, SendingTypeOK
  <2>2. <<First(sending_queue[b])>> \in Seq(Packets) /\ Len(<<First(sending_queue[b])>>) = 1
    BY <2>1
  <2>3. SendingTypeOK'
    BY <1>10, <2>1, <2>2 DEF SendTake, SendingTypeOK, SendPlaces
  <2>4. QED
    BY <1>10, <2>3 DEF SendTake, PublishTypeOK, ReceivingTypeOK, DeviceTypeOK
<1>11. ASSUME NEW b \in BridgeIds, SendTakeNothing(b) PROVE BridgeTypeOK'
  <2>1. SendingTypeOK'
    BY <1>11 DEF SendTakeNothing, SendingTypeOK, SendPlaces
  <2>2. QED
    BY <1>11, <2>1 DEF SendTakeNothing, PublishTypeOK, ReceivingTypeOK, DeviceTypeOK
<1>12. ASSUME NEW b \in BridgeIds, Transmit(b) PROVE BridgeTypeOK'
  <2> DEFINE echo == IF send_packet[b][1] \in Loopback THEN send_packet[b] ELSE <<>>
  <2>1. send_packet[b] \in Seq(Packets) /\ echo \in Seq(Packets)
    BY DEF SendingTypeOK
  <2>2. /\ device_tx[b] \o send_packet[b] \in Seq(Packets)
        /\ device_rx[b] \o echo \in Seq(Packets)
        /\ arrived[b] \o echo \in Seq(Packets)
    BY <2>1, ConcatProperties DEF DeviceTypeOK
  <2>3. /\ device_tx' = [device_tx EXCEPT ![b] = device_tx[b] \o send_packet[b]]
        /\ device_rx' = [device_rx EXCEPT ![b] = device_rx[b] \o echo]
        /\ arrived' = [arrived EXCEPT ![b] = arrived[b] \o echo]
        /\ link' = link
    BY <1>12 DEF Transmit
  <2> HIDE DEF echo
  <2>4. DeviceTypeOK'
    BY <2>2, <2>3 DEF DeviceTypeOK
  <2>5. SendingTypeOK'
    <3> DEFINE none == <<>>
    <3>1. /\ send_thread' = [send_thread EXCEPT ![b] = "while"]
          /\ send_packet' = [send_packet EXCEPT ![b] = none]
          /\ UNCHANGED <<sending_queue, accepted>>
      BY <1>12 DEF Transmit
    <3>2. none \in Seq(Packets) /\ Len(none) = 0
      BY EmptySeq
    <3> HIDE DEF none
    <3>3. QED
      BY <3>1, <3>2 DEF SendingTypeOK, SendPlaces
  <2>6. QED
    BY <1>12, <2>4, <2>5 DEF Transmit, PublishTypeOK, ReceivingTypeOK
<1>13. ASSUME NEW b \in BridgeIds, NEW packet \in Unsolicited, Arrive(b, packet) PROVE BridgeTypeOK'
  <2>1. DeviceTypeOK'
    BY <1>13, BridgeAssumption, AppendProperties DEF Arrive, DeviceTypeOK
  <2>2. QED
    BY <1>13, <2>1 DEF Arrive, PublishTypeOK, ReceivingTypeOK, SendingTypeOK
<1>14. ASSUME Take PROVE BridgeTypeOK'
  <2>1. PublishTypeOK'
    BY <1>14, TakeKeepsQueue, AppendProperties DEF Take, PublishTypeOK
  <2>2. QED
    BY <1>14, <2>1 DEF Take, ReceivingTypeOK, SendingTypeOK, DeviceTypeOK
<1>15. ASSUME ClosePublish PROVE BridgeTypeOK'
  <2>1. PublishTypeOK'
    BY <1>15, CloseKeepsQueue DEF ClosePublish, PublishTypeOK, WithinCapacity
  <2>2. QED
    BY <1>15, <2>1 DEF ClosePublish, ReceivingTypeOK, SendingTypeOK, DeviceTypeOK
<1>16. CASE UNCHANGED bridgeVars
  BY <1>16 DEF PublishTypeOK, ReceivingTypeOK, SendingTypeOK, DeviceTypeOK
<1>17. QED
  BY <1>1, <1>2, <1>3, <1>4, <1>5, <1>6, <1>7, <1>8, <1>9, <1>10, <1>11, <1>12, <1>13,
     <1>14, <1>15, <1>16
     DEF BridgeNext, BridgeOwner, BridgeStep, Receiving, Sending, PacketsOf

(* Type correctness of the bridges, with the bound on every queue. *)
THEOREM BridgeTypeCorrect == BridgeSpec => []BridgeTypeOK
<1>1. BridgeInit => BridgeTypeOK
  BY BridgeAssumption, QueueCapacityAssumption, EmptySeq
     DEF BridgeInit, BridgeTypeOK, PublishTypeOK, ReceivingTypeOK, SendingTypeOK, DeviceTypeOK,
         EmptyQueue, QueueOf, WithinCapacity, RecPlaces, SendPlaces, Lives
<1>2. QED
  BY <1>1, BridgeTypeStep, PTL DEF BridgeSpec

-----------------------------------------------------------------------------
(* The threads and the destructor.  DestructorJoins is inductive given the   *)
(* types, as a queue once closed stays closed and a thread that ended does   *)
(* not start again.                                                          *)
LEMMA DestructorJoinsStep ==
  BridgeTypeOK /\ DestructorJoins /\ [BridgeNext]_bridgeVars => DestructorJoins'
<1> SUFFICES ASSUME BridgeTypeOK, DestructorJoins, [BridgeNext]_bridgeVars
             PROVE  DestructorJoins'
  OBVIOUS
<1>1. /\ object \in [BridgeIds -> Lives]
      /\ rec_thread \in [BridgeIds -> RecPlaces]
      /\ send_thread \in [BridgeIds -> SendPlaces]
      /\ sending_queue \in [BridgeIds -> QueueOf(Packets)]
      /\ \A b \in BridgeIds :
           object[b] = "unborn" => rec_thread[b] = "unborn" /\ send_thread[b] = "unborn"
  BY DEF BridgeTypeOK, ReceivingTypeOK, SendingTypeOK
<1> USE DEF queueVars, recVars, sendVars, deviceVars, bridgeVars, DestructorJoins
<1>2. ASSUME NEW b \in BridgeIds, Construct(b) PROVE DestructorJoins'
  BY <1>1, <1>2 DEF Construct
<1>3. ASSUME NEW b \in BridgeIds, NEW packet \in Packets, Send(b, packet) PROVE DestructorJoins'
  BY <1>1, <1>3 DEF Send, Add
<1>4. ASSUME NEW b \in BridgeIds, DestroyClose(b) PROVE DestructorJoins'
  BY <1>1, <1>4 DEF DestroyClose, Close
<1>5. ASSUME NEW b \in BridgeIds, DestroyJoinRec(b) \/ DestroyJoinSend(b) PROVE DestructorJoins'
  BY <1>1, <1>5 DEF DestroyJoinRec, DestroyJoinSend
<1>6. ASSUME NEW b \in BridgeIds, RecWhile(b) \/ RecReceive(b) \/ RecMiss(b) PROVE DestructorJoins'
  BY <1>1, <1>6 DEF RecWhile, RecReceive, RecMiss
<1>7. ASSUME NEW b \in BridgeIds, RecAdd(b) PROVE DestructorJoins'
  BY <1>1, <1>7 DEF RecAdd, Add
<1>8. ASSUME NEW b \in BridgeIds, SendWhile(b) \/ SendTakeNothing(b) PROVE DestructorJoins'
  BY <1>1, <1>8 DEF SendWhile, SendTakeNothing
<1>9. ASSUME NEW b \in BridgeIds, SendTake(b) PROVE DestructorJoins'
  BY <1>1, <1>9 DEF SendTake, AfterTake
<1>10. ASSUME NEW b \in BridgeIds, Transmit(b) PROVE DestructorJoins'
  BY <1>1, <1>10 DEF Transmit
<1>11. ASSUME NEW b \in BridgeIds, NEW packet \in Unsolicited, Arrive(b, packet) PROVE DestructorJoins'
  BY <1>11 DEF Arrive
<1>12. CASE Take \/ ClosePublish
  BY <1>12 DEF Take, ClosePublish, AfterTake, Close
<1>13. CASE UNCHANGED bridgeVars
  BY <1>13
<1>14. QED
  BY <1>2, <1>3, <1>4, <1>5, <1>6, <1>7, <1>8, <1>9, <1>10, <1>11, <1>12, <1>13
     DEF BridgeNext, BridgeOwner, BridgeStep, Receiving, Sending, PacketsOf

(* No thread of a bridge outlives it, and no bridge is destroyed before the  *)
(* publish queue its receiving thread reads is closed.                       *)
THEOREM DestructorSafe == BridgeSpec => []DestructorJoins
<1>1. BridgeInit => DestructorJoins
  BY DEF BridgeInit, DestructorJoins, EmptyQueue
<1>2. QED
  BY <1>1, DestructorJoinsStep, BridgeTypeCorrect, PTL DEF BridgeSpec

-----------------------------------------------------------------------------
(* The three conservation laws.  SendConservation needs DestructorJoins: a   *)
(* packet given to send() would be lost on a queue already closed, and only  *)
(* the destructor closes it, after which send() may not be called.           *)
LEMMA SendConservationStep ==
  BridgeTypeOK /\ DestructorJoins /\ SendConservation /\ [BridgeNext]_bridgeVars
    => SendConservation'
<1> SUFFICES ASSUME BridgeTypeOK, DestructorJoins, SendConservation, [BridgeNext]_bridgeVars,
                    NEW c \in BridgeIds
             PROVE  accepted'[c] = Pipeline(device_tx'[c], send_packet'[c], sending_queue'[c].items)
  BY DEF SendConservation
<1> DEFINE Goal == accepted'[c] = Pipeline(device_tx'[c], send_packet'[c], sending_queue'[c].items)
           tx == device_tx[c]
           hand == send_packet[c]
           rest == sending_queue[c].items
<1>0. accepted[c] = Pipeline(tx, hand, rest)
  BY DEF SendConservation
<1>1. /\ sending_queue \in [BridgeIds -> QueueOf(Packets)]
      /\ send_packet \in [BridgeIds -> Seq(Packets)]
      /\ device_tx \in [BridgeIds -> Seq(Packets)]
      /\ accepted \in [BridgeIds -> Seq(Packets)]
      /\ tx \in Seq(Packets) /\ hand \in Seq(Packets) /\ rest \in Seq(Packets)
  BY DEF BridgeTypeOK, SendingTypeOK, DeviceTypeOK, QueueOf
<1> USE DEF queueVars, recVars, sendVars, deviceVars, bridgeVars
<1>2. ASSUME NEW b \in BridgeIds, NEW packet \in Packets, Send(b, packet) PROVE Goal
  <2>1. CASE b = c
    <3>1. /\ accepted'[c] = Append(accepted[c], packet)
          /\ sending_queue'[c].items = Append(rest, packet)
          /\ device_tx'[c] = tx
          /\ send_packet'[c] = hand
      BY <1>1, <1>2, <2>1 DEF Send, Add, DestructorJoins
    <3> HIDE DEF tx, hand, rest
    <3>2. Append(Pipeline(tx, hand, rest), packet) = Pipeline(tx, hand, Append(rest, packet))
      <4>1. tx \in Seq(Packets) /\ hand \in Seq(Packets) /\ rest \in Seq(Packets)
        BY <1>1
      <4>2. QED
        BY <4>1, AppendPipeline
    <3>3. QED
      BY <1>0, <3>1, <3>2
  <2>2. CASE b # c
    BY <1>0, <1>1, <1>2, <2>2 DEF Send
  <2>3. QED
    BY <2>1, <2>2
<1>3. ASSUME NEW b \in BridgeIds, DestroyClose(b) PROVE Goal
  BY <1>0, <1>1, <1>3 DEF DestroyClose, Close
<1>4. ASSUME NEW b \in BridgeIds, SendTake(b) PROVE Goal
  <2>1. CASE b = c
    <3> DEFINE packet == First(sending_queue[c])
               after == AfterTake(sending_queue[c]).items
    <3>1. /\ hand = <<>>
          /\ TakesPacket(sending_queue[c])
          /\ WithinCapacity(sending_queue[c])
      BY <1>4, <2>1, EmptySeq DEF SendTake, BridgeTypeOK, SendingTypeOK
    <3>2. packet \in Packets /\ after \in Seq(Packets) /\ rest = <<packet>> \o after
      BY <1>1, <3>1, TakeKeepsQueue DEF QueueOf
    <3>3. /\ send_packet'[c] = <<packet>>
          /\ sending_queue'[c].items = after
          /\ device_tx'[c] = tx /\ accepted'[c] = accepted[c]
      BY <1>1, <1>4, <2>1 DEF SendTake
    <3> HIDE DEF tx, hand, rest, packet, after
    <3>4. Pipeline(tx, <<>>, <<packet>> \o after) = Pipeline(tx, <<packet>>, after)
      BY <1>1, <3>2, TakePipeline
    <3>5. QED
      BY <1>0, <3>1, <3>2, <3>3, <3>4
  <2>2. CASE b # c
    BY <1>0, <1>1, <1>4, <2>2 DEF SendTake
  <2>3. QED
    BY <2>1, <2>2
<1>5. ASSUME NEW b \in BridgeIds, Transmit(b) PROVE Goal
  <2>1. CASE b = c
    <3>1. /\ device_tx'[c] = tx \o hand
          /\ send_packet'[c] = <<>>
          /\ accepted'[c] = accepted[c]
          /\ sending_queue'[c].items = rest
      BY <1>1, <1>5, <2>1 DEF Transmit
    <3> HIDE DEF tx, hand, rest
    <3>2. Pipeline(tx, hand, rest) = Pipeline(tx \o hand, <<>>, rest)
      BY <1>1, AdvancePipeline
    <3>3. QED
      BY <1>0, <3>1, <3>2
  <2>2. CASE b # c
    BY <1>0, <1>1, <1>5, <2>2 DEF Transmit
  <2>3. QED
    BY <2>1, <2>2
<1>6. CASE UNCHANGED <<sending_queue, send_packet, device_tx, accepted>>
  BY <1>0, <1>6
<1>7. ASSUME NEW b \in BridgeIds,
             \/ Construct(b) \/ DestroyJoinRec(b) \/ DestroyJoinSend(b) \/ Receiving(b)
             \/ SendWhile(b) \/ SendTakeNothing(b)
             \/ \E packet \in Unsolicited : Arrive(b, packet)
      PROVE  UNCHANGED <<sending_queue, send_packet, device_tx, accepted>>
  BY <1>7 DEF Construct, DestroyJoinRec, DestroyJoinSend, Receiving, RecWhile, RecReceive, RecMiss,
              RecAdd, SendWhile, SendTakeNothing, Arrive
<1>8. CASE Take \/ ClosePublish \/ UNCHANGED bridgeVars
  BY <1>6, <1>8 DEF Take, ClosePublish
<1>9. QED
  BY <1>2, <1>3, <1>4, <1>5, <1>6, <1>7, <1>8
     DEF BridgeNext, BridgeOwner, BridgeStep, Sending, PacketsOf

(* Nothing given to send() is lost, repeated or reordered before the device. *)
THEOREM SendConserves == BridgeSpec => []SendConservation
<1>1. BridgeInit => SendConservation
  BY ConcatEmptySeq, EmptySeq DEF BridgeInit, SendConservation, EmptyQueue, Pipeline
<1>2. QED
  BY <1>1, SendConservationStep, BridgeTypeCorrect, DestructorSafe, PTL DEF BridgeSpec

(* ReceiveConservation does not depend on the queues: whether the publish    *)
(* queue keeps the packet is what PublishConservation counts.                *)
LEMMA ReceiveConservationStep ==
  BridgeTypeOK /\ ReceiveConservation /\ [BridgeNext]_bridgeVars => ReceiveConservation'
<1> SUFFICES ASSUME BridgeTypeOK, ReceiveConservation, [BridgeNext]_bridgeVars,
                    NEW c \in BridgeIds
             PROVE  arrived'[c] = Pipeline(forwarded'[c], rec_packet'[c], device_rx'[c])
  BY DEF ReceiveConservation
<1> DEFINE Goal == arrived'[c] = Pipeline(forwarded'[c], rec_packet'[c], device_rx'[c])
           over == forwarded[c]
           hand == rec_packet[c]
           rest == device_rx[c]
<1>0. arrived[c] = Pipeline(over, hand, rest)
  BY DEF ReceiveConservation
<1>1. /\ forwarded \in [BridgeIds -> Seq(Packets)]
      /\ rec_packet \in [BridgeIds -> Seq(Packets)]
      /\ device_rx \in [BridgeIds -> Seq(Packets)]
      /\ arrived \in [BridgeIds -> Seq(Packets)]
  BY DEF BridgeTypeOK, ReceivingTypeOK, DeviceTypeOK
<1>2. over \in Seq(Packets) /\ hand \in Seq(Packets) /\ rest \in Seq(Packets)
  BY <1>1
<1> USE DEF queueVars, recVars, sendVars, deviceVars, bridgeVars
<1>3. ASSUME NEW b \in BridgeIds, RecReceive(b) PROVE Goal
  <2>1. CASE b = c
    <3> DEFINE packet == Head(device_rx[c])
               after == Tail(device_rx[c])
    <3>1. hand = <<>>
      BY <1>3, <2>1, EmptySeq DEF RecReceive, BridgeTypeOK, ReceivingTypeOK
    <3>2. packet \in Packets /\ after \in Seq(Packets) /\ rest = <<packet>> \o after
      BY <1>2, <1>3, <2>1, HeadTailProperties DEF RecReceive
    <3>3. /\ rec_packet'[c] = <<packet>>
          /\ device_rx'[c] = after
          /\ forwarded'[c] = over /\ arrived'[c] = arrived[c]
      BY <1>1, <1>3, <2>1 DEF RecReceive
    <3> HIDE DEF over, hand, rest, packet, after
    <3>4. Pipeline(over, <<>>, <<packet>> \o after) = Pipeline(over, <<packet>>, after)
      BY <1>2, <3>2, TakePipeline
    <3>5. QED
      BY <1>0, <3>1, <3>2, <3>3, <3>4
  <2>2. CASE b # c
    BY <1>0, <1>1, <1>3, <2>2 DEF RecReceive
  <2>3. QED
    BY <2>1, <2>2
<1>4. ASSUME NEW b \in BridgeIds, RecAdd(b) PROVE Goal
  <2>1. CASE b = c
    <3>1. /\ forwarded'[c] = over \o hand
          /\ rec_packet'[c] = <<>>
          /\ arrived'[c] = arrived[c]
          /\ device_rx'[c] = rest
      BY <1>1, <1>4, <2>1 DEF RecAdd
    <3> HIDE DEF over, hand, rest
    <3>2. Pipeline(over, hand, rest) = Pipeline(over \o hand, <<>>, rest)
      BY <1>2, AdvancePipeline
    <3>3. QED
      BY <1>0, <3>1, <3>2
  <2>2. CASE b # c
    BY <1>0, <1>1, <1>4, <2>2 DEF RecAdd
  <2>3. QED
    BY <2>1, <2>2
<1>5. ASSUME NEW b \in BridgeIds, Transmit(b) PROVE Goal
  <2> DEFINE echo == IF send_packet[b][1] \in Loopback THEN send_packet[b] ELSE <<>>
             packet == send_packet[b][1]
  <2>1. send_packet[b] \in Seq(Packets) /\ Len(send_packet[b]) = 1
    BY <1>5 DEF Transmit, BridgeTypeOK, SendingTypeOK
  <2>2. packet \in Packets /\ (echo = <<>> \/ echo = <<packet>>)
    BY <2>1, ElementOfSeq
  <2>3. /\ device_rx' = [device_rx EXCEPT ![b] = device_rx[b] \o echo]
        /\ arrived' = [arrived EXCEPT ![b] = arrived[b] \o echo]
        /\ forwarded' = forwarded /\ rec_packet' = rec_packet
    BY <1>5 DEF Transmit
  <2> HIDE DEF echo, packet
  <2>4. CASE b = c /\ echo = <<>>
    <3>1. arrived[c] \o <<>> = arrived[c] /\ rest \o <<>> = rest
      BY <1>1, <1>2, ConcatEmptySeq
    <3>2. QED
      BY <1>0, <1>1, <2>3, <2>4, <3>1
  <2>5. CASE b = c /\ echo = <<packet>>
    <3>1. /\ arrived'[c] = arrived[c] \o <<packet>>
          /\ device_rx'[c] = rest \o <<packet>>
          /\ forwarded'[c] = over
          /\ rec_packet'[c] = hand
      BY <1>1, <2>3, <2>5
    <3>2. /\ arrived[c] \o <<packet>> = Append(arrived[c], packet)
          /\ rest \o <<packet>> = Append(rest, packet)
      BY <1>1, <1>2, <2>2, AppendIsConcat
    <3> HIDE DEF over, hand, rest
    <3>3. Append(Pipeline(over, hand, rest), packet) = Pipeline(over, hand, Append(rest, packet))
      BY <1>2, <2>2, AppendPipeline
    <3>4. QED
      BY <1>0, <3>1, <3>2, <3>3
  <2>6. CASE b # c
    BY <1>0, <1>1, <2>3, <2>6
  <2>7. QED
    BY <2>2, <2>4, <2>5, <2>6
<1>6. ASSUME NEW b \in BridgeIds, NEW packet \in Unsolicited, Arrive(b, packet) PROVE Goal
  <2>1. CASE b = c
    <3>1. /\ arrived'[c] = Append(arrived[c], packet)
          /\ device_rx'[c] = Append(rest, packet)
          /\ forwarded'[c] = over
          /\ rec_packet'[c] = hand
      BY <1>1, <1>6, <2>1 DEF Arrive
    <3>2. packet \in Packets
      BY BridgeAssumption
    <3> HIDE DEF over, hand, rest
    <3>3. Append(Pipeline(over, hand, rest), packet) = Pipeline(over, hand, Append(rest, packet))
      BY <1>2, <3>2, AppendPipeline
    <3>4. QED
      BY <1>0, <3>1, <3>3
  <2>2. CASE b # c
    BY <1>0, <1>1, <1>6, <2>2 DEF Arrive
  <2>3. QED
    BY <2>1, <2>2
<1>7. CASE UNCHANGED <<forwarded, rec_packet, device_rx, arrived>>
  BY <1>0, <1>7
<1>8. ASSUME NEW b \in BridgeIds,
             \/ Construct(b) \/ DestroyClose(b) \/ DestroyJoinRec(b) \/ DestroyJoinSend(b)
             \/ \E packet \in PacketsOf(b) : Send(b, packet)
             \/ RecWhile(b) \/ RecMiss(b) \/ SendWhile(b) \/ SendTake(b) \/ SendTakeNothing(b)
      PROVE  UNCHANGED <<forwarded, rec_packet, device_rx, arrived>>
  BY <1>8 DEF Construct, DestroyClose, DestroyJoinRec, DestroyJoinSend, Send, RecWhile, RecMiss,
              SendWhile, SendTake, SendTakeNothing
<1>9. CASE Take \/ ClosePublish \/ UNCHANGED bridgeVars
  BY <1>7, <1>9 DEF Take, ClosePublish
<1>10. QED
  BY <1>3, <1>4, <1>5, <1>6, <1>7, <1>8, <1>9
     DEF BridgeNext, BridgeOwner, BridgeStep, Receiving, Sending

(* Nothing the device received is lost, repeated or reordered on its way to  *)
(* the publish queue.                                                        *)
THEOREM ReceiveConserves == BridgeSpec => []ReceiveConservation
<1>1. BridgeInit => ReceiveConservation
  BY ConcatEmptySeq, EmptySeq DEF BridgeInit, ReceiveConservation, Pipeline
<1>2. QED
  BY <1>1, ReceiveConservationStep, BridgeTypeCorrect, PTL DEF BridgeSpec

-----------------------------------------------------------------------------
(* Every step keeps the conservation of the publish queue. *)
LEMMA PublishConservationStep ==
  BridgeTypeOK /\ PublishConservation /\ [BridgeNext]_bridgeVars => PublishConservation'
<1> SUFFICES ASSUME BridgeTypeOK, PublishConservation, [BridgeNext]_bridgeVars
             PROVE  PublishConservation'
  OBVIOUS
<1> DEFINE rest == publish_queue.items
<1>1. captured = taken \o rest
  BY DEF PublishConservation
<1>2. taken \in Seq(Packets) /\ rest \in Seq(Packets) /\ publish_queue \in QueueOf(Packets)
  BY DEF BridgeTypeOK, PublishTypeOK, QueueOf
<1> USE DEF queueVars, recVars, sendVars, deviceVars, bridgeVars
<1>3. ASSUME NEW b \in BridgeIds, RecAdd(b) PROVE PublishConservation'
  <2> DEFINE packet == rec_packet[b][1]
             one == rec_packet[b]
  <2>1. one \in Seq(Packets) /\ Len(one) = 1
    BY <1>3 DEF RecAdd, BridgeTypeOK, ReceivingTypeOK
  <2>2. packet \in Packets /\ one = <<packet>>
    BY <2>1, ElementOfSeq
  <2>3. CASE publish_queue.closed
    BY <1>1, <1>2, <1>3, <2>3 DEF RecAdd, Add, PublishConservation
  <2>4. CASE ~publish_queue.closed
    <3>1. /\ captured' = captured \o one
          /\ publish_queue'.items = Append(rest, packet)
          /\ taken' = taken
      BY <1>2, <1>3, <2>4 DEF RecAdd, Add
    <3>2. Append(rest, packet) = rest \o <<packet>>
      BY <1>2, <2>2, AppendIsConcat
    <3>3. (taken \o rest) \o one = taken \o (rest \o one)
      <4> HIDE DEF rest, one
      <4>1. QED
        BY <1>2, <2>1, ConcatAssociative
    <3>4. QED
      BY <1>1, <2>2, <3>1, <3>2, <3>3 DEF PublishConservation
  <2>5. QED
    BY <2>3, <2>4
<1>4. CASE Take
  <2> DEFINE packet == First(publish_queue)
             after == AfterTake(publish_queue).items
  <2>1. packet \in Packets /\ after \in Seq(Packets) /\ rest = <<packet>> \o after
    BY <1>2, <1>4, TakeKeepsQueue DEF Take, BridgeTypeOK, PublishTypeOK, QueueOf
  <2>2. taken' = Append(taken, packet) /\ publish_queue'.items = after /\ captured' = captured
    BY <1>4 DEF Take
  <2>3. Append(taken, packet) = taken \o <<packet>>
    BY <1>2, <2>1, AppendIsConcat
  <2>4. (taken \o <<packet>>) \o after = taken \o (<<packet>> \o after)
    <3> DEFINE one == <<packet>>
    <3>1. one \in Seq(Packets)
      BY <2>1
    <3> HIDE DEF one, packet, after
    <3>2. (taken \o one) \o after = taken \o (one \o after)
      BY <1>2, <2>1, <3>1, ConcatAssociative
    <3>3. QED
      BY <3>2 DEF one
  <2>5. QED
    BY <1>1, <2>1, <2>2, <2>3, <2>4 DEF PublishConservation
<1>5. CASE ClosePublish
  BY <1>1, <1>5 DEF ClosePublish, Close, PublishConservation
<1>6. ASSUME NEW b \in BridgeIds,
             \/ BridgeOwner(b) \/ RecWhile(b) \/ RecReceive(b) \/ RecMiss(b) \/ Sending(b)
             \/ \E packet \in Unsolicited : Arrive(b, packet)
      PROVE  UNCHANGED <<captured, taken, publish_queue>>
  BY <1>6 DEF BridgeOwner, Construct, DestroyClose, DestroyJoinRec, DestroyJoinSend, Send, RecWhile,
              RecReceive, RecMiss, Sending, SendWhile, SendTake, SendTakeNothing, Transmit, Arrive
<1>7. CASE UNCHANGED <<captured, taken, publish_queue>>
  BY <1>1, <1>7 DEF PublishConservation
<1>8. QED
  BY <1>3, <1>4, <1>5, <1>6, <1>7 DEF BridgeNext, BridgeStep, Receiving

(* The publish queue hands over what was stored in it, in order.             *)
THEOREM PublishConserves == BridgeSpec => []PublishConservation
<1>1. BridgeInit => PublishConservation
  BY ConcatEmptySeq, EmptySeq DEF BridgeInit, PublishConservation, EmptyQueue
<1>2. QED
  BY <1>1, PublishConservationStep, BridgeTypeCorrect, PTL DEF BridgeSpec

-----------------------------------------------------------------------------
(* The order of the packets of one bridge at the consumer.  Two facts carry  *)
(* it.  A bridge handles packets of its own only: the owner dispatches on    *)
(* the field bridge_id, the link brings a bridge its own, and the loopback   *)
(* returns what was sent.                                                    *)
OwnPackets ==
  \A b \in BridgeIds :
    /\ sending_queue[b].items \in Seq(PacketsOf(b))
    /\ send_packet[b] \in Seq(PacketsOf(b))
    /\ device_rx[b] \in Seq(PacketsOf(b))
    /\ rec_packet[b] \in Seq(PacketsOf(b))
    /\ forwarded[b] \in Seq(PacketsOf(b))

(* And what its receiving thread finished adding is what the publish queue   *)
(* stored of it, followed by what it added once the queue was closed, which  *)
(* is lost.                                                                  *)
LostOf(b) ==
  {lost \in Seq(Packets) :
     /\ forwarded[b] = Filter(captured, PacketsOf(b)) \o lost
     /\ ~publish_queue.closed => lost = <<>>}

LosesLastOnly == \A b \in BridgeIds : LostOf(b) # {}

(* Every step keeps the packets of each bridge apart. *)
LEMMA OwnPacketsStep == BridgeTypeOK /\ OwnPackets /\ [BridgeNext]_bridgeVars => OwnPackets'
<1> SUFFICES ASSUME BridgeTypeOK, OwnPackets, [BridgeNext]_bridgeVars
             PROVE  OwnPackets'
  OBVIOUS
<1> USE DEF queueVars, recVars, sendVars, deviceVars, bridgeVars
<1>1. /\ sending_queue \in [BridgeIds -> QueueOf(Packets)]
      /\ send_packet \in [BridgeIds -> Seq(Packets)]
      /\ device_rx \in [BridgeIds -> Seq(Packets)]
      /\ rec_packet \in [BridgeIds -> Seq(Packets)]
      /\ forwarded \in [BridgeIds -> Seq(Packets)]
  BY DEF BridgeTypeOK, SendingTypeOK, DeviceTypeOK, ReceivingTypeOK
<1>2. ASSUME NEW b \in BridgeIds, NEW packet \in PacketsOf(b), Send(b, packet) PROVE OwnPackets'
  <2>1. Append(sending_queue[b].items, packet) \in Seq(PacketsOf(b))
    BY AppendProperties DEF OwnPackets
  <2>2. sending_queue'[b].items \in Seq(PacketsOf(b))
    BY <1>1, <1>2, <2>1 DEF Send, Add, OwnPackets
  <2>3. QED
    BY <1>1, <1>2, <2>2 DEF Send, OwnPackets
<1>3. ASSUME NEW b \in BridgeIds, DestroyClose(b) PROVE OwnPackets'
  BY <1>1, <1>3 DEF DestroyClose, Close, OwnPackets
<1>4. ASSUME NEW b \in BridgeIds, RecReceive(b) PROVE OwnPackets'
  <2>1. /\ Head(device_rx[b]) \in PacketsOf(b)
        /\ Tail(device_rx[b]) \in Seq(PacketsOf(b))
    BY <1>4, HeadTailProperties DEF RecReceive, OwnPackets
  <2>2. <<Head(device_rx[b])>> \in Seq(PacketsOf(b))
    BY <2>1
  <2>3. QED
    BY <1>1, <1>4, <2>1, <2>2 DEF RecReceive, OwnPackets
<1>5. ASSUME NEW b \in BridgeIds, RecAdd(b) PROVE OwnPackets'
  <2>1. forwarded[b] \o rec_packet[b] \in Seq(PacketsOf(b)) /\ <<>> \in Seq(PacketsOf(b))
    BY ConcatProperties, EmptySeq DEF OwnPackets
  <2>2. QED
    BY <1>1, <1>5, <2>1 DEF RecAdd, OwnPackets
<1>6. ASSUME NEW b \in BridgeIds, SendTake(b) PROVE OwnPackets'
  <2>1. /\ Head(sending_queue[b].items) \in PacketsOf(b)
        /\ Tail(sending_queue[b].items) \in Seq(PacketsOf(b))
    BY <1>6, HeadTailProperties DEF SendTake, TakesPacket, OwnPackets
  <2>2. <<Head(sending_queue[b].items)>> \in Seq(PacketsOf(b))
    BY <2>1
  <2>3. QED
    BY <1>1, <1>6, <2>1, <2>2 DEF SendTake, First, AfterTake, OwnPackets
<1>7. ASSUME NEW b \in BridgeIds, Transmit(b) PROVE OwnPackets'
  <2> DEFINE echo == IF send_packet[b][1] \in Loopback THEN send_packet[b] ELSE <<>>
  <2>1. echo \in Seq(PacketsOf(b)) /\ <<>> \in Seq(PacketsOf(b))
    BY EmptySeq DEF OwnPackets
  <2>2. /\ device_rx' = [device_rx EXCEPT ![b] = device_rx[b] \o echo]
        /\ send_packet' = [send_packet EXCEPT ![b] = <<>>]
        /\ UNCHANGED <<sending_queue, rec_packet, forwarded>>
    BY <1>7 DEF Transmit
  <2> HIDE DEF echo
  <2>3. device_rx[b] \o echo \in Seq(PacketsOf(b))
    BY <2>1, ConcatProperties DEF OwnPackets
  <2>4. QED
    BY <1>1, <2>1, <2>2, <2>3 DEF OwnPackets
<1>8. ASSUME NEW b \in BridgeIds, NEW packet \in Unsolicited, Arrive(b, packet) PROVE OwnPackets'
  <2>1. packet \in PacketsOf(b)
    BY <1>8, BridgeAssumption DEF Arrive, PacketsOf
  <2>2. Append(device_rx[b], packet) \in Seq(PacketsOf(b))
    BY <2>1, AppendProperties DEF OwnPackets
  <2>3. QED
    BY <1>1, <1>8, <2>2 DEF Arrive, OwnPackets
<1>9. ASSUME NEW b \in BridgeIds,
             \/ Construct(b) \/ DestroyJoinRec(b) \/ DestroyJoinSend(b)
             \/ RecWhile(b) \/ RecMiss(b) \/ SendWhile(b) \/ SendTakeNothing(b)
      PROVE  UNCHANGED <<sending_queue, send_packet, device_rx, rec_packet, forwarded>>
  BY <1>9 DEF Construct, DestroyJoinRec, DestroyJoinSend, RecWhile, RecMiss, SendWhile,
              SendTakeNothing
<1>10. CASE Take \/ ClosePublish \/ UNCHANGED bridgeVars
  BY <1>10 DEF Take, ClosePublish, OwnPackets
<1>11. CASE UNCHANGED <<sending_queue, send_packet, device_rx, rec_packet, forwarded>>
  BY <1>11 DEF OwnPackets
<1>12. QED
  BY <1>2, <1>3, <1>4, <1>5, <1>6, <1>7, <1>8, <1>9, <1>10, <1>11
     DEF BridgeNext, BridgeOwner, BridgeStep, Receiving, Sending

(* A packet added while the queue is open is stored among those of its       *)
(* bridge and of no other; one added once it is closed is lost, and so are   *)
(* the ones after it.                                                        *)
LEMMA LosesLastOnlyStep ==
  BridgeTypeOK /\ OwnPackets /\ LosesLastOnly /\ [BridgeNext]_bridgeVars => LosesLastOnly'
<1> SUFFICES ASSUME BridgeTypeOK, OwnPackets, LosesLastOnly, [BridgeNext]_bridgeVars,
                    NEW c \in BridgeIds
             PROVE  LostOf(c)' # {}
  BY DEF LosesLastOnly
<1> USE DEF queueVars, recVars, sendVars, deviceVars, bridgeVars
<1>1. PICK lost \in Seq(Packets) :
        /\ forwarded[c] = Filter(captured, PacketsOf(c)) \o lost
        /\ ~publish_queue.closed => lost = <<>>
  BY DEF LosesLastOnly, LostOf
<1>2. ASSUME NEW b \in BridgeIds, RecAdd(b) PROVE LostOf(c)' # {}
  <2> DEFINE one == rec_packet[b]
             stored == Filter(captured, PacketsOf(c))
  <2>1. /\ one \in Seq(Packets) /\ one \in Seq(PacketsOf(b))
        /\ captured \in Seq(Packets)
        /\ forwarded \in [BridgeIds -> Seq(Packets)]
    BY DEF BridgeTypeOK, ReceivingTypeOK, PublishTypeOK, OwnPackets
  <2>2. /\ forwarded' = [forwarded EXCEPT ![b] = forwarded[b] \o one]
        /\ captured' = IF publish_queue.closed THEN captured ELSE captured \o one
        /\ publish_queue'.closed = publish_queue.closed
    BY <1>2 DEF RecAdd, Add
  <2> HIDE DEF one
  <2>3. stored \in Seq(Packets) /\ <<>> \in Seq(Packets)
    BY <2>1, FilterType, EmptySeq
  <2>4. Filter(captured \o one, PacketsOf(c)) = stored \o Filter(one, PacketsOf(c))
    <3> DEFINE all == captured
               own == PacketsOf(c)
    <3>1. all \in Seq(Packets) /\ one \in Seq(Packets)
      BY <2>1
    <3> HIDE DEF all, own
    <3>2. Filter(all \o one, own) = Filter(all, own) \o Filter(one, own)
      BY <3>1, FilterConcat
    <3>3. QED
      BY <3>2 DEF all, own
  <2>5. Filter(one, PacketsOf(c)) = IF b = c THEN one ELSE <<>>
    <3>1. CASE b = c
      BY <2>1, <3>1, FilterAll
    <3>2. CASE b # c
      <4>1. PacketsOf(b) \cap PacketsOf(c) = {}
        BY <3>2 DEF PacketsOf
      <4>2. QED
        BY <2>1, <3>2, <4>1, FilterNone
    <3>3. QED
      BY <3>1, <3>2
  <2> HIDE DEF stored
  <2>6. stored \o <<>> = stored /\ one \o <<>> = one
    BY <2>1, <2>3, ConcatEmptySeq
  <2>7. forwarded[c] = stored \o lost
    BY <1>1 DEF stored
  <2>8. CASE ~publish_queue.closed
    <3>1. forwarded'[c] = Filter(captured', PacketsOf(c)) \o <<>>
      <4>1. forwarded[c] = stored
        BY <1>1, <2>6, <2>7, <2>8
      <4>2. CASE b = c
        <5>1. Filter(captured', PacketsOf(c)) = stored \o one
          BY <2>2, <2>4, <2>5, <2>8, <4>2
        <5>2. forwarded'[c] = stored \o one
          BY <2>1, <2>2, <4>1, <4>2
        <5>3. stored \o one \in Seq(Packets)
          BY <2>1, <2>3, ConcatProperties
        <5>4. QED
          BY <5>1, <5>2, <5>3, ConcatEmptySeq
      <4>3. CASE b # c
        BY <2>1, <2>2, <2>4, <2>5, <2>6, <2>8, <4>1, <4>3
      <4>4. QED
        BY <4>2, <4>3
    <3>2. QED
      BY <2>3, <3>1 DEF LostOf
  <2>9. CASE publish_queue.closed
    <3>1. CASE b = c
      <4>1. lost \o one \in Seq(Packets)
        BY <1>1, <2>1, ConcatProperties
      <4>2. (stored \o lost) \o one = stored \o (lost \o one)
        <5>1. stored \in Seq(Packets) /\ lost \in Seq(Packets) /\ one \in Seq(Packets)
          BY <1>1, <2>1, <2>3
        <5>2. QED
          BY <5>1, ConcatAssociative
      <4>3. forwarded'[c] = Filter(captured', PacketsOf(c)) \o (lost \o one)
        BY <2>1, <2>2, <2>7, <2>9, <3>1, <4>2 DEF stored
      <4>4. QED
        BY <2>2, <2>9, <4>1, <4>3 DEF LostOf
    <3>2. CASE b # c
      BY <1>1, <2>1, <2>2, <2>9, <3>2 DEF LostOf
    <3>3. QED
      BY <3>1, <3>2
  <2>10. QED
    BY <2>8, <2>9
<1>3. ASSUME NEW b \in BridgeIds,
             \/ BridgeOwner(b) \/ RecWhile(b) \/ RecReceive(b) \/ RecMiss(b) \/ Sending(b)
             \/ \E packet \in Unsolicited : Arrive(b, packet)
      PROVE  UNCHANGED <<captured, forwarded, publish_queue>>
  BY <1>3 DEF BridgeOwner, Construct, DestroyClose, DestroyJoinRec, DestroyJoinSend, Send, RecWhile,
              RecReceive, RecMiss, Sending, SendWhile, SendTake, SendTakeNothing, Transmit, Arrive
<1>4. CASE Take \/ ClosePublish
  <2>1. /\ UNCHANGED <<captured, forwarded>>
        /\ publish_queue.closed => publish_queue'.closed
    BY <1>4 DEF Take, ClosePublish, AfterTake, Close
  <2>2. QED
    BY <1>1, <2>1 DEF LostOf
<1>5. CASE UNCHANGED <<captured, forwarded, publish_queue>>
  BY <1>1, <1>5 DEF LostOf
<1>6. QED
  BY <1>2, <1>3, <1>4, <1>5 DEF BridgeNext, BridgeStep, Receiving

(* Whatever the other bridges do, and wherever closing the queue cuts the    *)
(* stream, the packets of one bridge that the consumer has taken are a       *)
(* prefix of the ones its device received.                                   *)
LEMMA OrderFollows ==
  BridgeTypeOK /\ LosesLastOnly /\ PublishConservation /\ ReceiveConservation => PerBridgeOrder
<1> SUFFICES ASSUME BridgeTypeOK, LosesLastOnly, PublishConservation, ReceiveConservation,
                    NEW b \in BridgeIds
             PROVE  LET mine == Filter(taken, PacketsOf(b))
                    IN  /\ Len(mine) <= Len(arrived[b])
                        /\ mine = SubSeq(arrived[b], 1, Len(mine))
  BY DEF PerBridgeOrder
<1> DEFINE mine == Filter(taken, PacketsOf(b))
           waiting == Filter(publish_queue.items, PacketsOf(b))
           hand == rec_packet[b]
           device == device_rx[b]
<1>1. /\ taken \in Seq(Packets) /\ publish_queue.items \in Seq(Packets)
      /\ hand \in Seq(Packets) /\ device \in Seq(Packets)
  BY DEF BridgeTypeOK, PublishTypeOK, ReceivingTypeOK, DeviceTypeOK, QueueOf
<1>2. mine \in Seq(Packets) /\ waiting \in Seq(Packets)
  BY <1>1, FilterType
<1>3. PICK lost \in Seq(Packets) : forwarded[b] = Filter(captured, PacketsOf(b)) \o lost
  BY DEF LosesLastOnly, LostOf
<1>4. Filter(captured, PacketsOf(b)) = mine \o waiting
  <2> DEFINE over == taken
             rest == publish_queue.items
             own == PacketsOf(b)
  <2>1. over \in Seq(Packets) /\ rest \in Seq(Packets) /\ captured = over \o rest
    BY <1>1 DEF PublishConservation
  <2> HIDE DEF over, rest, own
  <2>2. Filter(over \o rest, own) = Filter(over, own) \o Filter(rest, own)
    BY <2>1, FilterConcat
  <2>3. QED
    BY <2>1, <2>2 DEF over, rest, own
<1>5. arrived[b] = forwarded[b] \o (hand \o device)
  BY DEF ReceiveConservation, Pipeline
<1> HIDE DEF mine, waiting, hand, device
<1> DEFINE last == hand \o device
<1>6. last \in Seq(Packets)
  BY <1>1, ConcatProperties
<1> HIDE DEF last
<1>7. arrived[b] = ((mine \o waiting) \o lost) \o last
  BY <1>3, <1>4, <1>5 DEF last
<1>8. ((mine \o waiting) \o lost) \o last = mine \o (waiting \o (lost \o last))
  <2>1. /\ mine \o waiting \in Seq(Packets)
        /\ lost \o last \in Seq(Packets)
    BY <1>2, <1>3, <1>6, ConcatProperties
  <2> DEFINE first == mine \o waiting
             end == lost \o last
  <2>2. ((mine \o waiting) \o lost) \o last = (mine \o waiting) \o (lost \o last)
    <3>1. first \in Seq(Packets) /\ lost \in Seq(Packets) /\ last \in Seq(Packets)
      BY <1>3, <1>6, <2>1
    <3> HIDE DEF first
    <3>2. (first \o lost) \o last = first \o (lost \o last)
      BY <3>1, ConcatAssociative
    <3>3. QED
      BY <3>2 DEF first
  <2>3. (mine \o waiting) \o (lost \o last) = mine \o (waiting \o (lost \o last))
    <3>1. mine \in Seq(Packets) /\ waiting \in Seq(Packets) /\ end \in Seq(Packets)
      BY <1>2, <2>1
    <3> HIDE DEF end
    <3>2. (mine \o waiting) \o end = mine \o (waiting \o end)
      BY <3>1, ConcatAssociative
    <3>3. QED
      BY <3>2 DEF end
  <2>4. QED
    BY <2>2, <2>3
<1> DEFINE others == waiting \o (lost \o last)
<1>9. others \in Seq(Packets)
  <2>1. lost \o last \in Seq(Packets)
    BY <1>3, <1>6, ConcatProperties
  <2>2. QED
    BY <1>2, <2>1, ConcatProperties
<1> HIDE DEF others
<1>10. arrived[b] = mine \o others
  BY <1>7, <1>8 DEF others
<1>11. Len(mine) <= Len(arrived[b]) /\ SubSeq(arrived[b], 1, Len(mine)) = mine
  BY <1>2, <1>9, <1>10, FirstPart
<1>12. QED
  BY <1>11 DEF mine

(* The consumer sees the packets of one bridge in the order its device       *)
(* received them, however many bridges share the queue.                      *)
THEOREM BridgeOrderKept == BridgeSpec => []PerBridgeOrder
<1>1. BridgeInit => OwnPackets /\ LosesLastOnly
  <2> SUFFICES ASSUME BridgeInit PROVE OwnPackets /\ LosesLastOnly
    OBVIOUS
  <2>1. OwnPackets
    BY EmptySeq DEF BridgeInit, OwnPackets, EmptyQueue
  <2>2. LosesLastOnly
    BY FilterEmpty, EmptySeq, ConcatEmptySeq DEF BridgeInit, LosesLastOnly, LostOf
  <2>3. QED
    BY <2>1, <2>2
<1>2. QED
  BY <1>1, OwnPacketsStep, LosesLastOnlyStep, OrderFollows, BridgeTypeCorrect, PublishConserves,
     ReceiveConserves, PTL DEF BridgeSpec

-----------------------------------------------------------------------------
(* Refinement of Relay.                                                      *)

(* Every step is a step of the relay on the sending side, or a stutter. *)
LEMMA SendRelayStep ==
  BridgeTypeOK /\ SendConservation /\ [BridgeNext]_bridgeVars
    => [SendRelay!Next]_(SendRelay!relayVars)
<1> SUFFICES ASSUME BridgeTypeOK, SendConservation, [BridgeNext]_bridgeVars
             PROVE  SendRelay!Next \/ UNCHANGED <<accepted, device_tx>>
  BY DEF SendRelay!relayVars
<1> USE DEF queueVars, recVars, sendVars, deviceVars, bridgeVars
<1>1. ASSUME NEW b \in BridgeIds, NEW packet \in Packets, Send(b, packet)
      PROVE  SendRelay!Accept(b)
  BY <1>1 DEF Send, SendRelay!Accept
<1>2. ASSUME NEW b \in BridgeIds, Transmit(b) PROVE SendRelay!Deliver(b)
  <2> DEFINE packet == send_packet[b][1]
             tx == device_tx[b]
             hand == send_packet[b]
             rest == sending_queue[b].items
  <2>1. /\ tx \in Seq(Packets) /\ rest \in Seq(Packets)
        /\ device_tx \in [BridgeIds -> Seq(Packets)]
    BY DEF BridgeTypeOK, SendingTypeOK, DeviceTypeOK, QueueOf
  <2>2. hand \in Seq(Packets) /\ Len(hand) = 1
    BY <1>2 DEF Transmit, BridgeTypeOK, SendingTypeOK
  <2>3. packet \in Packets /\ hand = <<packet>>
    BY <2>2, ElementOfSeq
  <2>4. accepted[b] = Pipeline(tx, hand, rest)
    BY DEF SendConservation
  <2>5. device_tx' = [device_tx EXCEPT ![b] = tx \o hand] /\ accepted' = accepted
    BY <1>2 DEF Transmit
  <2>6. tx \o <<packet>> = Append(tx, packet)
    BY <2>1, <2>3, AppendIsConcat
  <2>7. Len(tx) < Len(accepted[b]) /\ accepted[b][Len(tx) + 1] = packet
    <3> HIDE DEF tx, hand, rest, packet
    <3>1. /\ Len(tx) < Len(Pipeline(tx, <<packet>>, rest))
          /\ Pipeline(tx, <<packet>>, rest)[Len(tx) + 1] = packet
      BY <2>1, <2>3, HandIsNext
    <3>2. QED
      BY <2>3, <2>4, <3>1
  <2>8. device_tx' = [device_tx EXCEPT ![b] = Append(tx, accepted[b][Len(tx) + 1])]
    BY <2>3, <2>5, <2>6, <2>7
  <2>9. QED
    BY <2>5, <2>7, <2>8 DEF SendRelay!Deliver
<1>3. ASSUME NEW b \in BridgeIds,
             \/ Construct(b) \/ DestroyClose(b) \/ DestroyJoinRec(b) \/ DestroyJoinSend(b)
             \/ Receiving(b) \/ SendWhile(b) \/ SendTake(b) \/ SendTakeNothing(b)
             \/ \E packet \in Unsolicited : Arrive(b, packet)
      PROVE  UNCHANGED <<accepted, device_tx>>
  BY <1>3 DEF Construct, DestroyClose, DestroyJoinRec, DestroyJoinSend, Receiving, RecWhile,
              RecReceive, RecMiss, RecAdd, SendWhile, SendTake, SendTakeNothing, Arrive
<1>4. CASE Take \/ ClosePublish \/ UNCHANGED bridgeVars
  BY <1>4 DEF Take, ClosePublish
<1>5. QED
  BY <1>1, <1>2, <1>3, <1>4
     DEF BridgeNext, BridgeOwner, BridgeStep, Sending, PacketsOf, SendRelay!Next

(* Every bridge's sending side implements a relay from send() to the device: *)
(* the packets transmitted are always a prefix of the packets accepted.      *)
THEOREM SendRefinesRelay == BridgeSpec => SendsInOrder
<1>1. BridgeInit => SendRelay!Init
  BY DEF BridgeInit, SendRelay!Init
<1>2. QED
  BY <1>1, SendRelayStep, BridgeTypeCorrect, SendConserves, PTL
     DEF BridgeSpec, SendsInOrder, SendRelay!Spec

(* Every step is a step of the publish queue's relay, or a stutter. *)
LEMMA PublishRelayStep ==
  BridgeTypeOK /\ PublishConservation /\ [BridgeNext]_bridgeVars
    => [PublishRelay!Next]_(PublishRelay!relayVars)
<1> SUFFICES ASSUME BridgeTypeOK, PublishConservation, [BridgeNext]_bridgeVars
             PROVE  PublishRelay!Next \/ UNCHANGED <<captured, taken>>
  BY DEF PublishRelay!relayVars
<1> USE DEF queueVars, recVars, sendVars, deviceVars, bridgeVars
<1>1. /\ captured \in Seq(Packets) /\ taken \in Seq(Packets)
      /\ publish_queue \in QueueOf(Packets)
      /\ publish_queue.items \in Seq(Packets)
  BY DEF BridgeTypeOK, PublishTypeOK, QueueOf
<1>2. ASSUME NEW b \in BridgeIds, RecAdd(b)
      PROVE  PublishRelay!Next \/ UNCHANGED <<captured, taken>>
  <2> DEFINE packet == rec_packet[b][1]
             one == rec_packet[b]
  <2>1. one \in Seq(Packets) /\ Len(one) = 1
    BY <1>2 DEF RecAdd, BridgeTypeOK, ReceivingTypeOK
  <2>2. packet \in Packets /\ one = <<packet>>
    BY <2>1, ElementOfSeq
  <2>3. captured \o <<packet>> = Append(captured, packet)
    BY <1>1, <2>2, AppendIsConcat
  <2>4. /\ captured' = IF publish_queue.closed THEN captured ELSE captured \o one
        /\ taken' = taken
    BY <1>2 DEF RecAdd
  <2>5. captured' = captured \/ captured' = Append(captured, packet)
    BY <2>2, <2>3, <2>4
  <2>6. CASE captured' = Append(captured, packet)
    BY <2>2, <2>4, <2>6 DEF PublishRelay!Next, PublishRelay!Accept
  <2>7. QED
    BY <2>4, <2>5, <2>6
<1>3. CASE Take
  <2> DEFINE packet == First(publish_queue)
             after == AfterTake(publish_queue).items
             rest == publish_queue.items
  <2>1. packet \in Packets /\ after \in Seq(Packets) /\ rest = <<packet>> \o after
    BY <1>1, <1>3, TakeKeepsQueue DEF Take, BridgeTypeOK, PublishTypeOK, QueueOf
  <2>2. taken' = Append(taken, packet) /\ captured' = captured
    BY <1>3 DEF Take
  <2>3. captured = Pipeline(taken, <<packet>>, after)
    BY <2>1 DEF PublishConservation, Pipeline
  <2>4. Len(taken) < Len(captured) /\ captured[Len(taken) + 1] = packet
    <3> HIDE DEF packet, after
    <3>1. QED
      BY <1>1, <2>1, <2>3, HandIsNext
  <2>5. PublishRelay!Deliver("publish")
    BY <2>2, <2>4 DEF PublishRelay!Deliver
  <2>6. QED
    BY <2>5 DEF PublishRelay!Next
<1>4. ASSUME NEW b \in BridgeIds,
             \/ BridgeOwner(b) \/ RecWhile(b) \/ RecReceive(b) \/ RecMiss(b) \/ Sending(b)
             \/ \E packet \in Unsolicited : Arrive(b, packet)
      PROVE  UNCHANGED <<captured, taken>>
  BY <1>4 DEF BridgeOwner, Construct, DestroyClose, DestroyJoinRec, DestroyJoinSend, Send, RecWhile,
              RecReceive, RecMiss, Sending, SendWhile, SendTake, SendTakeNothing, Transmit, Arrive
<1>5. CASE ClosePublish \/ UNCHANGED bridgeVars
  BY <1>5 DEF ClosePublish
<1>6. QED
  BY <1>2, <1>3, <1>4, <1>5 DEF BridgeNext, BridgeStep, Receiving

(* The publish queue implements a relay from the receiving threads to its    *)
(* consumer, whatever their number and however they interleave.              *)
THEOREM PublishRefinesRelay == BridgeSpec => PublishesInOrder
<1>1. BridgeInit => PublishRelay!Init
  BY DEF BridgeInit, PublishRelay!Init
<1>2. QED
  BY <1>1, PublishRelayStep, BridgeTypeCorrect, PublishConserves, PTL
     DEF BridgeSpec, PublishesInOrder, PublishRelay!Spec
=============================================================================
