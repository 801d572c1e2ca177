--------------------------- MODULE ZMQClientProofs ---------------------------
(***************************************************************************)
(* Proofs about ZMQClient, for any messages, subscriptions, users, queue    *)
(* capacity, number of polls and for both topic policies.                   *)
(***************************************************************************)
EXTENDS ZMQClient, PacketQueueProofs, HistoriesProofs

(* There is at least one queue, and the topic of a message that was received *)
(* has one.                                                                  *)
LEMMA IndicesOK ==
  ASSUME merge \in BOOLEAN
  PROVE  /\ ArraySize \in Nat \ {0}
         /\ 0 \in Indices
         /\ InUse \subseteq Indices
         /\ \A msg \in Messages : QueueIndex(msg) \in Indices
BY ClientAssumption DEF ArraySize, InUse, Indices, QueueIndex

(* A thread that stores has its message in hand. *)
LEMMA MessageInHand ==
  ASSUME SubTypeOK, sub_thread = "store"
  PROVE  /\ message[1] \in Messages
         /\ message = <<message[1]>>
<1>1. message \in Seq(Messages) /\ Len(message) = 1
  BY DEF SubTypeOK
<1>2. QED
  BY <1>1, ElementOfSeq

-----------------------------------------------------------------------------
(* Every step keeps the types and the capacity of the queues. *)
LEMMA ClientTypeStep == ClientTypeOK /\ [ClientNext]_clientVars => ClientTypeOK'
<1> SUFFICES ASSUME ClientTypeOK, [ClientNext]_clientVars
             PROVE  ClientTypeOK'
  OBVIOUS
<1> USE DEF ClientTypeOK, ArraySize, objectVars, subscribeVars, subVars, queueVars, socketVars, userVars, clientVars
<1>1. CASE Subscribe
  <2>1. Head(to_subscribe) \in 0 .. UNKNOWN /\ Tail(to_subscribe) \in Seq(0 .. UNKNOWN)
    BY <1>1, HeadTailProperties DEF Subscribe, ObjectTypeOK
  <2>2. ObjectTypeOK'
    BY <1>1, <2>1 DEF Subscribe, ObjectTypeOK
  <2>3. QED
    BY <1>1, <2>2 DEF Subscribe, SubTypeOK, QueuesTypeOK, SocketTypeOK, UsersTypeOK
<1>2. CASE Run
  <2>1. SubTypeOK'
    BY <1>2 DEF Run, SubTypeOK, SubPlaces
  <2>2. ObjectTypeOK'
    BY <1>2 DEF Run, ObjectTypeOK, Lives
  <2>3. QED
    BY <1>2, <2>1, <2>2 DEF Run, QueuesTypeOK, SocketTypeOK, UsersTypeOK
<1>3. ASSUME NEW msg \in Messages, Arrive(msg) PROVE ClientTypeOK'
  <2>1. SocketTypeOK'
    BY <1>3, AppendProperties DEF Arrive, SocketTypeOK
  <2>2. QED
    BY <1>3, <2>1 DEF Arrive, ObjectTypeOK, SubTypeOK, QueuesTypeOK, UsersTypeOK
<1>4. CASE SubWhile
  <2>1. SubTypeOK'
    BY <1>4, ClientAssumption DEF SubWhile, SubTypeOK, SubPlaces
  <2>2. QED
    BY <1>4, <2>1 DEF SubWhile, ObjectTypeOK, QueuesTypeOK, SocketTypeOK, UsersTypeOK
<1>5. CASE SubReceive
  <2>1. Head(m_subscription) \in Messages /\ Tail(m_subscription) \in Seq(Messages)
    BY <1>5, HeadTailProperties DEF SubReceive, SocketTypeOK
  <2>2. <<Head(m_subscription)>> \in Seq(Messages) /\ Len(<<Head(m_subscription)>>) = 1
    BY <2>1
  <2>3. SubTypeOK'
    BY <1>5, <2>2 DEF SubReceive, SubTypeOK, SubPlaces
  <2>4. SocketTypeOK'
    BY <1>5, <2>1 DEF SubReceive, SocketTypeOK
  <2>5. QED
    BY <1>5, <2>3, <2>4 DEF SubReceive, ObjectTypeOK, QueuesTypeOK, UsersTypeOK
<1>6. CASE SubMiss
  <2>1. tries < MaxTries /\ tries + 1 \in 0 .. MaxTries
    BY <1>6, ClientAssumption DEF SubMiss, SubTypeOK
  <2>2. SubTypeOK'
    BY <1>6, <2>1 DEF SubMiss, SubTypeOK, SubPlaces
  <2>3. QED
    BY <1>6, <2>2 DEF SubMiss, ObjectTypeOK, QueuesTypeOK, SocketTypeOK, UsersTypeOK
<1>7. CASE StoreAsserts
  BY <1>7 DEF StoreAsserts, ObjectTypeOK, SubTypeOK, QueuesTypeOK, SocketTypeOK, UsersTypeOK
<1>8. CASE Store
  <2> DEFINE i == QueueIndex(message[1])
             queue == m_received_packets[i]
  <2>1. message[1] \in Messages /\ message \in Seq(Messages) /\ i \in Indices
    <3>1. merge \in BOOLEAN /\ SubTypeOK /\ sub_thread = "store"
      BY <1>8 DEF Store, ObjectTypeOK
    <3>2. QED
      BY <3>1, MessageInHand, IndicesOK DEF SubTypeOK
  <2>2. /\ Add(queue, message[1]) \in QueueOf(Messages)
        /\ WithinCapacity(Add(queue, message[1]))
    BY <1>8, <2>1, AddKeepsQueue DEF Store, QueuesTypeOK
  <2>3. captured[i] \o message \in Seq(Messages) /\ stored \o message \in Seq(Messages)
    BY <2>1, ConcatProperties DEF QueuesTypeOK, SubTypeOK
  <2>4. /\ m_received_packets' = [m_received_packets EXCEPT ![i] = Add(queue, message[1])]
        /\ captured' = [captured EXCEPT ![i] = IF queue.closed THEN captured[i] ELSE captured[i] \o message]
        /\ taken' = taken
    BY <1>8 DEF Store
  <2> HIDE DEF queue, i
  <2>5. QueuesTypeOK'
    BY <2>1, <2>2, <2>3, <2>4 DEF QueuesTypeOK
  <2>6. SubTypeOK'
    <3> DEFINE none == <<>>
    <3>1. /\ message' = none /\ stored' = stored \o message
          /\ tries' = 0 /\ sub_thread' = "poll" /\ aborted' = aborted
      BY <1>8 DEF Store
    <3>2. none \in Seq(Messages) /\ Len(none) = 0 /\ 0 < MaxTries /\ 0 \in 0 .. MaxTries
      BY ClientAssumption, EmptySeq
    <3> HIDE DEF none
    <3>3. QED
      BY <3>1, <3>2, <2>3 DEF SubTypeOK, SubPlaces
  <2>7. QED
    BY <1>8, <2>5, <2>6 DEF Store, ObjectTypeOK, SocketTypeOK, UsersTypeOK
<1>9. ASSUME NEW u \in Users, NEW i \in Indices, GetPackets(u, i) PROVE ClientTypeOK'
  BY <1>9 DEF GetPackets, ObjectTypeOK, SubTypeOK, QueuesTypeOK, SocketTypeOK, UsersTypeOK, UserPlaces
<1>10. ASSUME NEW u \in Users, GetSize(u) \/ SendPacket(u) \/ Reply(u) PROVE ClientTypeOK'
  <2>1. UsersTypeOK'
    BY <1>10 DEF GetSize, SendPacket, Reply, UsersTypeOK, UserPlaces
  <2>2. UNCHANGED <<objectVars, subVars, queueVars, socketVars>>
    BY <1>10 DEF GetSize, SendPacket, Reply
  <2>3. QED
    BY <2>1, <2>2 DEF ObjectTypeOK, SubTypeOK, QueuesTypeOK, SocketTypeOK
<1>11. ASSUME NEW u \in Users, GetTake(u) PROVE ClientTypeOK'
  <2> DEFINE i == user_index[u]
             queue == m_received_packets[i]
  <2>1. i \in Indices /\ queue \in QueueOf(Messages) /\ WithinCapacity(queue) /\ TakesPacket(queue)
    BY <1>11 DEF GetTake, QueueOfUser, UsersTypeOK, QueuesTypeOK
  <2>2. /\ First(queue) \in Messages
        /\ AfterTake(queue) \in QueueOf(Messages)
        /\ WithinCapacity(AfterTake(queue))
    BY <2>1, TakeKeepsQueue
  <2>3. Append(taken[i], First(queue)) \in Seq(Messages)
    BY <2>1, <2>2, AppendProperties DEF QueuesTypeOK
  <2>4. /\ m_received_packets' = [m_received_packets EXCEPT ![i] = AfterTake(queue)]
        /\ taken' = [taken EXCEPT ![i] = Append(taken[i], First(queue))]
        /\ captured' = captured
    BY <1>11 DEF GetTake, QueueOfUser
  <2> HIDE DEF queue, i
  <2>5. QueuesTypeOK'
    BY <2>1, <2>2, <2>3, <2>4 DEF QueuesTypeOK
  <2>6. QED
    BY <1>11, <2>5 DEF GetTake, ObjectTypeOK, SubTypeOK, SocketTypeOK, UsersTypeOK, UserPlaces
<1>12. CASE DestroyStop
  <2>1. to_close = 0 /\ 0 < ArraySize
    BY <1>12, IndicesOK DEF DestroyStop, ObjectTypeOK
  <2>2. ObjectTypeOK'
    BY <1>12, <2>1 DEF DestroyStop, ObjectTypeOK, Lives
  <2>3. QED
    BY <1>12, <2>2 DEF DestroyStop, SubTypeOK, QueuesTypeOK, SocketTypeOK, UsersTypeOK
<1>13. CASE DestroyClose
  <2>1. to_close \in Indices
    BY <1>13, IndicesOK DEF DestroyClose, ObjectTypeOK, Indices, InUse
  <2>2. /\ Close(m_received_packets[to_close]) \in QueueOf(Messages)
        /\ WithinCapacity(Close(m_received_packets[to_close]))
    <3>1. /\ m_received_packets[to_close] \in QueueOf(Messages)
          /\ WithinCapacity(m_received_packets[to_close])
      BY <2>1 DEF QueuesTypeOK
    <3>2. QED
      BY <3>1, CloseKeepsQueue DEF WithinCapacity
  <2>3. QueuesTypeOK'
    BY <1>13, <2>1, <2>2 DEF DestroyClose, QueuesTypeOK
  <2>4. ObjectTypeOK'
    <3>1. ArraySize \in Nat \ {0} /\ ArraySize' = ArraySize
      BY <1>13, IndicesOK DEF DestroyClose, ObjectTypeOK
    <3> HIDE DEF ArraySize
    <3>2. QED
      BY <1>13, <3>1 DEF DestroyClose, ObjectTypeOK, Lives
  <2>5. QED
    BY <1>13, <2>3, <2>4 DEF DestroyClose, SubTypeOK, SocketTypeOK, UsersTypeOK
<1>14. CASE DestroyJoin
  BY <1>14 DEF DestroyJoin, ObjectTypeOK, SubTypeOK, QueuesTypeOK, SocketTypeOK, UsersTypeOK, Lives
<1>15. CASE UNCHANGED clientVars
  BY <1>15 DEF ObjectTypeOK, SubTypeOK, QueuesTypeOK, SocketTypeOK, UsersTypeOK
<1>16. QED
  BY <1>1, <1>2, <1>3, <1>4, <1>5, <1>6, <1>7, <1>8, <1>9, <1>10, <1>11, <1>12, <1>13, <1>14, <1>15
     DEF ClientNext, ClientStep, Construction, Subscription, UserStep, UserCall, Destruction

(* Type correctness of the client, with the bound on every queue. *)
THEOREM ClientTypeCorrect == ClientSpec => []ClientTypeOK
<1>1. ClientInit => ClientTypeOK
  <2> SUFFICES ASSUME ClientInit PROVE ClientTypeOK
    OBVIOUS
  <2>1. ObjectTypeOK
    <3>1. merge \in BOOLEAN /\ to_subscribe \in Seq(0 .. UNKNOWN)
      BY ClientAssumption DEF ClientInit
    <3>2. 0 \in 0 .. ArraySize
      BY <3>1, IndicesOK
    <3>3. m_topic_enabled \in [0 .. UNKNOWN -> BOOLEAN]
      BY DEF ClientInit
    <3>4. QED
      BY <3>1, <3>2, <3>3 DEF ClientInit, ObjectTypeOK, Lives
  <2>2. SubTypeOK
    <3>1. MaxTries \in Nat \ {0}
      BY ClientAssumption
    <3> DEFINE none == <<>>
    <3>2. none \in Seq(Messages) /\ Len(none) = 0
      BY EmptySeq
    <3>3. message = none /\ stored = none /\ sub_thread = "unborn" /\ tries = 0 /\ aborted = FALSE
      BY DEF ClientInit
    <3> HIDE DEF none
    <3>4. tries \in 0 .. MaxTries
      BY <3>1, <3>3
    <3>5. sub_thread \in SubPlaces /\ sub_thread \notin {"poll", "store"} /\ aborted \in BOOLEAN
      BY <3>3 DEF SubPlaces
    <3>6. message \in Seq(Messages) /\ stored \in Seq(Messages) /\ Len(message) = 0
      BY <3>2, <3>3
    <3>7. QED
      BY <3>4, <3>5, <3>6 DEF SubTypeOK
  <2>3. QueuesTypeOK
    BY QueueCapacityAssumption, EmptySeq DEF ClientInit, QueuesTypeOK, EmptyQueue, QueueOf, WithinCapacity
  <2>4. SocketTypeOK /\ UsersTypeOK
    BY <2>1, IndicesOK, EmptySeq DEF ClientInit, ObjectTypeOK, SocketTypeOK, UsersTypeOK, UserPlaces
  <2>5. QED
    BY <2>1, <2>2, <2>3, <2>4 DEF ClientInit, ClientTypeOK
<1>2. QED
  BY <1>1, ClientTypeStep, PTL DEF ClientSpec

-----------------------------------------------------------------------------
(* The two conservation laws. *)

(* Every step keeps the messages of the subscription thread. *)
LEMMA MessageConservationStep ==
  ClientTypeOK /\ MessageConservation /\ [ClientNext]_clientVars => MessageConservation'
<1> SUFFICES ASSUME ClientTypeOK, MessageConservation, [ClientNext]_clientVars
             PROVE  MessageConservation'
  OBVIOUS
<1>1. /\ stored \in Seq(Messages) /\ message \in Seq(Messages)
      /\ m_subscription \in Seq(Messages) /\ arrived \in Seq(Messages)
  BY DEF ClientTypeOK, SubTypeOK, SocketTypeOK
<1>2. arrived = Pipeline(stored, message, m_subscription)
  BY DEF MessageConservation
<1> USE DEF objectVars, subVars, queueVars, socketVars, userVars, clientVars
<1>3. ASSUME NEW msg \in Messages, Arrive(msg) PROVE MessageConservation'
  <2>1. /\ arrived' = Append(arrived, msg)
        /\ m_subscription' = Append(m_subscription, msg)
        /\ stored' = stored /\ message' = message
    BY <1>3 DEF Arrive
  <2>2. Append(Pipeline(stored, message, m_subscription), msg)
          = Pipeline(stored, message, Append(m_subscription, msg))
    BY <1>1, AppendPipeline
  <2>3. QED
    BY <1>2, <2>1, <2>2 DEF MessageConservation
<1>4. CASE SubReceive
  <2> DEFINE msg == Head(m_subscription)
             after == Tail(m_subscription)
  <2>1. message = <<>>
    BY <1>4, EmptySeq DEF SubReceive, ClientTypeOK, SubTypeOK
  <2>2. msg \in Messages /\ after \in Seq(Messages) /\ m_subscription = <<msg>> \o after
    BY <1>1, <1>4, HeadTailProperties DEF SubReceive
  <2>3. message' = <<msg>> /\ m_subscription' = after /\ stored' = stored /\ arrived' = arrived
    BY <1>4 DEF SubReceive
  <2> HIDE DEF msg, after
  <2>4. Pipeline(stored, <<>>, <<msg>> \o after) = Pipeline(stored, <<msg>>, after)
    BY <1>1, <2>2, TakePipeline
  <2>5. QED
    BY <1>2, <2>1, <2>2, <2>3, <2>4 DEF MessageConservation
<1>5. CASE Store
  <2>1. /\ stored' = stored \o message
        /\ message' = <<>>
        /\ m_subscription' = m_subscription /\ arrived' = arrived
    BY <1>5 DEF Store
  <2>2. Pipeline(stored, message, m_subscription) = Pipeline(stored \o message, <<>>, m_subscription)
    BY <1>1, AdvancePipeline
  <2>3. QED
    BY <1>2, <2>1, <2>2 DEF MessageConservation
<1>6. CASE UNCHANGED <<stored, message, m_subscription, arrived>>
  BY <1>6 DEF MessageConservation
<1>7. ASSUME \/ Construction \/ SubWhile \/ SubMiss \/ StoreAsserts
             \/ \E u \in Users : UserStep(u) \/ UserCall(u)
             \/ DestroyStop \/ Destruction \/ UNCHANGED clientVars
      PROVE  UNCHANGED <<stored, message, m_subscription, arrived>>
  BY <1>7 DEF Construction, Subscribe, Run, SubWhile, SubMiss, StoreAsserts, UserStep, GetSize, GetTake,
              UserCall, GetPackets, SendPacket, Reply, DestroyStop, Destruction, DestroyClose, DestroyJoin
<1>8. QED
  BY <1>3, <1>4, <1>5, <1>6, <1>7 DEF ClientNext, ClientStep, Subscription

(* No message the socket got is lost, repeated or reordered by the thread.  *)
THEOREM MessagesConserved == ClientSpec => []MessageConservation
<1>1. ClientInit => MessageConservation
  BY ConcatEmptySeq, EmptySeq DEF ClientInit, MessageConservation, Pipeline
<1>2. QED
  BY <1>1, MessageConservationStep, ClientTypeCorrect, PTL DEF ClientSpec

(* Every step keeps what was stored equal to what was taken and is queued. *)
LEMMA QueueConservationStep ==
  ClientTypeOK /\ QueueConservation /\ [ClientNext]_clientVars => QueueConservation'
<1> SUFFICES ASSUME ClientTypeOK, QueueConservation, [ClientNext]_clientVars, NEW c \in Indices
             PROVE  captured'[c] = taken'[c] \o m_received_packets'[c].items
  BY DEF QueueConservation
<1> DEFINE Goal == captured'[c] = taken'[c] \o m_received_packets'[c].items
           rest == m_received_packets[c].items
           out == taken[c]
<1>1. /\ m_received_packets \in [Indices -> QueueOf(Messages)]
      /\ captured \in [Indices -> Seq(Messages)]
      /\ taken \in [Indices -> Seq(Messages)]
      /\ m_received_packets[c] \in QueueOf(Messages)
      /\ out \in Seq(Messages) /\ rest \in Seq(Messages)
  BY DEF ClientTypeOK, QueuesTypeOK, QueueOf
<1>2. captured[c] = out \o rest
  BY DEF QueueConservation
<1> USE DEF objectVars, subVars, queueVars, socketVars, userVars, clientVars
<1>3. CASE Store
  <2> DEFINE msg == message[1]
  <2>1. msg \in Messages /\ message = <<msg>> /\ QueueIndex(msg) \in Indices
    BY <1>3, MessageInHand, IndicesOK DEF Store, ClientTypeOK, ObjectTypeOK
  <2>2. CASE c = QueueIndex(msg) /\ ~m_received_packets[c].closed
    <3>1. /\ captured'[c] = captured[c] \o message
          /\ m_received_packets'[c].items = Append(rest, msg)
          /\ taken'[c] = out
      BY <1>1, <1>3, <2>2 DEF Store, Add
    <3> HIDE DEF msg, out, rest
    <3>2. Append(rest, msg) = rest \o message
      BY <1>1, <2>1, AppendIsConcat
    <3>3. (out \o rest) \o message = out \o (rest \o message)
      <4>1. message \in Seq(Messages)
        BY DEF ClientTypeOK, SubTypeOK
      <4>2. QED
        BY <1>1, <4>1, ConcatAssociative, SMTT(30)
    <3>4. QED
      BY <1>2, <3>1, <3>2, <3>3
  <2>3. CASE c = QueueIndex(msg) /\ m_received_packets[c].closed
    BY <1>1, <1>2, <1>3, <2>3 DEF Store, Add
  <2>4. CASE c # QueueIndex(msg)
    BY <1>1, <1>2, <1>3, <2>4 DEF Store
  <2>5. QED
    BY <2>2, <2>3, <2>4
<1>4. ASSUME NEW u \in Users, GetTake(u) PROVE Goal
  <2>1. CASE c = user_index[u]
    <3> DEFINE msg == First(m_received_packets[c])
               after == AfterTake(m_received_packets[c]).items
    <3>1. TakesPacket(m_received_packets[c]) /\ WithinCapacity(m_received_packets[c])
      BY <1>4, <2>1 DEF GetTake, QueueOfUser, ClientTypeOK, QueuesTypeOK
    <3>2. msg \in Messages /\ after \in Seq(Messages) /\ rest = <<msg>> \o after
      BY <1>1, <3>1, TakeKeepsQueue DEF QueueOf
    <3>3. /\ taken'[c] = Append(out, msg)
          /\ m_received_packets'[c].items = after
          /\ captured'[c] = captured[c]
      BY <1>1, <1>4, <2>1 DEF GetTake, QueueOfUser
    <3> DEFINE one == <<msg>>
    <3>4. one \in Seq(Messages)
      BY <3>2
    <3>5. Append(out, msg) = out \o one
      <4> HIDE DEF out, msg
      <4>1. QED
        BY <1>1, <3>2, AppendIsConcat
    <3>6. (out \o one) \o after = out \o (one \o after)
      <4> HIDE DEF out, one, after
      <4>1. QED
        BY <1>1, <3>2, <3>4, ConcatAssociative, SMTT(30)
    <3>7. rest = one \o after
      BY <3>2
    <3> HIDE DEF out, one, after, msg, rest
    <3>8. QED
      BY <1>2, <3>3, <3>5, <3>6, <3>7
  <2>2. CASE c # user_index[u]
    BY <1>1, <1>2, <1>4, <2>2 DEF GetTake
  <2>3. QED
    BY <2>1, <2>2
<1>5. CASE DestroyClose
  BY <1>1, <1>2, <1>5 DEF DestroyClose, Close
<1>6. CASE UNCHANGED <<m_received_packets, captured, taken>>
  BY <1>2, <1>6
<1>7. ASSUME \/ Construction \/ SubWhile \/ SubReceive \/ SubMiss \/ StoreAsserts
             \/ \E u \in Users : GetSize(u) \/ UserCall(u)
             \/ DestroyStop \/ DestroyJoin \/ UNCHANGED clientVars
             \/ \E msg \in Messages : Arrive(msg)
      PROVE  UNCHANGED <<m_received_packets, captured, taken>>
  BY <1>7 DEF Construction, Subscribe, Run, SubWhile, SubReceive, SubMiss, StoreAsserts, GetSize,
              UserCall, GetPackets, SendPacket, Reply, DestroyStop, DestroyJoin, Arrive
<1>8. QED
  BY <1>3, <1>4, <1>5, <1>6, <1>7 DEF ClientNext, ClientStep, Subscription, UserStep, Destruction

(* Every queue hands its users what was added to it, in order, whatever the  *)
(* number of users.                                                          *)
THEOREM QueuesConserved == ClientSpec => []QueueConservation
<1>1. ClientInit => QueueConservation
  BY ConcatEmptySeq, EmptySeq DEF ClientInit, QueueConservation, EmptyQueue
<1>2. QED
  BY <1>1, QueueConservationStep, ClientTypeCorrect, PTL DEF ClientSpec

-----------------------------------------------------------------------------
(* The assertion of store_packet. *)

(* Every step keeps the topics that are subscribed, queued or in hand enabled. *)
LEMMA AssertInvStep ==
  ClientTypeOK /\ EnabledInv /\ [ClientNext]_clientVars => EnabledInv'
<1> SUFFICES ASSUME ClientTypeOK, EnabledInv, [ClientNext]_clientVars, UNKNOWN \notin subscriptions'
             PROVE  EnabledInv'
  BY DEF EnabledInv
<1> USE DEF objectVars, subscribeVars, subVars, queueVars, socketVars, userVars, clientVars
<1>1. /\ m_topic_enabled \in [0 .. UNKNOWN -> BOOLEAN]
      /\ m_subscription \in Seq(Messages) /\ message \in Seq(Messages)
      /\ to_subscribe \in Seq(0 .. UNKNOWN)
      /\ TableSize \in Nat
  BY ClientAssumption DEF ClientTypeOK, ObjectTypeOK, SubTypeOK, SocketTypeOK
<1>2. \A msg \in Messages : TopicOf[msg] \in 0 .. UNKNOWN
  BY <1>1, ClientAssumption DEF UNKNOWN
<1>3. CASE Subscribe
  <2> DEFINE topic == Head(to_subscribe)
  <2>1. topic \in 0 .. UNKNOWN
    BY <1>1, <1>3, HeadTailProperties DEF Subscribe
  <2>2. /\ subscriptions' = subscriptions \cup {topic}
        /\ m_topic_enabled' = [m_topic_enabled EXCEPT ![topic] = TRUE]
        /\ UNCHANGED <<m_subscription, message, aborted>>
    BY <1>3 DEF Subscribe
  <2> HIDE DEF topic
  <2>3. UNKNOWN \notin subscriptions
    BY <2>2
  <2>4. \A t \in 0 .. UNKNOWN : m_topic_enabled[t] => m_topic_enabled'[t]
    BY <1>1, <2>2
  <2>5. m_topic_enabled'[topic]
    BY <1>1, <2>1, <2>2
  <2>6. \A t \in subscriptions' : m_topic_enabled'[t]
    <3>1. subscriptions \subseteq 0 .. UNKNOWN
      BY DEF ClientTypeOK, ObjectTypeOK
    <3>2. QED
      BY <2>2, <2>3, <2>4, <2>5, <3>1 DEF EnabledInv
  <2>7. /\ \A n \in 1 .. Len(m_subscription') : Enabled(m_subscription[n])'
        /\ message' # <<>> => Enabled(message[1])'
    BY <2>2, <2>3, <2>4, <1>1, <1>2, MessageInHand DEF EnabledInv, Enabled, ClientTypeOK
  <2>8. QED
    BY <2>2, <2>3, <2>6, <2>7 DEF EnabledInv
<1>4. ASSUME NEW msg \in Messages, Arrive(msg) PROVE EnabledInv'
  <2>1. Enabled(msg)
    <3>1. PICK topic \in subscriptions : Matches(topic, msg)
      BY <1>4 DEF Arrive
    <3>2. topic # UNKNOWN
      BY <1>4, <3>1 DEF Arrive
    <3>3. QED
      BY <1>4, <3>1, <3>2 DEF Arrive, Matches, Enabled, EnabledInv
  <2>2. \A n \in 1 .. Len(m_subscription') : Enabled(m_subscription'[n])
    BY <1>1, <1>4, <2>1, AppendProperties DEF Arrive, EnabledInv
  <2>3. QED
    BY <1>4, <2>2 DEF Arrive, EnabledInv, Enabled
<1>5. CASE SubReceive
  <2> DEFINE msg == Head(m_subscription)
             rest == Tail(m_subscription)
  <2> DEFINE size == Len(m_subscription)
  <2>1. /\ msg = m_subscription[1] /\ 1 \in 1 .. size
        /\ \A n \in 1 .. Len(rest) : n + 1 \in 1 .. size /\ rest[n] = m_subscription[n + 1]
    <3>1. m_subscription \in Seq(Messages) /\ m_subscription # <<>>
      BY <1>1, <1>5 DEF SubReceive
    <3>2. size \in Nat \ {0} /\ Len(rest) = size - 1
      BY <3>1, HeadTailProperties, EmptySeq
    <3>3. /\ msg = m_subscription[1]
          /\ \A n \in 1 .. size - 1 : rest[n] = m_subscription[n + 1]
      BY <3>1, HeadTailProperties
    <3> HIDE DEF msg, rest, size
    <3>4. QED
      BY <3>2, <3>3
  <2>2. /\ message' = <<msg>> /\ m_subscription' = rest
        /\ UNCHANGED <<subscriptions, m_topic_enabled, aborted>>
    BY <1>5 DEF SubReceive
  <2> HIDE DEF msg, rest
  <2>3. QED
    BY <2>1, <2>2 DEF EnabledInv, Enabled
<1>6. CASE StoreAsserts
  BY <1>6, MessageInHand DEF StoreAsserts, EnabledInv, Enabled, TopicIndex, ClientTypeOK
<1>7. CASE Store
  BY <1>7 DEF Store, EnabledInv, Enabled
<1>8. CASE UNCHANGED <<subscriptions, m_topic_enabled, m_subscription, message, aborted>>
  BY <1>8 DEF EnabledInv, Enabled
<1>9. ASSUME \/ Run \/ SubWhile \/ SubMiss
             \/ \E u \in Users : UserStep(u) \/ UserCall(u)
             \/ DestroyStop \/ Destruction \/ UNCHANGED clientVars
      PROVE  UNCHANGED <<subscriptions, m_topic_enabled, m_subscription, message, aborted>>
  BY <1>9 DEF Run, SubWhile, SubMiss, UserStep, GetSize, GetTake, UserCall, GetPackets,
              SendPacket, Reply, DestroyStop, Destruction, DestroyClose, DestroyJoin
<1>10. QED
  BY <1>3, <1>4, <1>5, <1>6, <1>7, <1>8, <1>9 DEF ClientNext, ClientStep, Construction, Subscription

(* Unless the client subscribes to UNKNOWN, the assertion of store_packet    *)
(* never fails: only messages of enabled topics reach the socket.            *)
THEOREM AssertSafe == ClientSpec => []AssertHolds
<1>1. ClientInit => EnabledInv
  BY EmptySeq DEF ClientInit, EnabledInv
<1>2. EnabledInv => AssertHolds
  BY DEF EnabledInv, AssertHolds
<1>3. QED
  BY <1>1, <1>2, AssertInvStep, ClientTypeCorrect, PTL DEF ClientSpec

-----------
(* get_packets. *)

(* A user in get_packets reads one of its queues. *)
ReadersInv == \A u \in Users : user_place[u] \in {"size", "take"} => user_index[u] \in Reads[u]

(* Every step keeps where a reader may stand. *)
LEMMA ReadersStep == ClientTypeOK /\ ReadersInv /\ [ClientNext]_clientVars => ReadersInv'
<1> SUFFICES ASSUME ClientTypeOK, ReadersInv, [ClientNext]_clientVars, NEW u \in Users,
                    user_place'[u] \in {"size", "take"}
             PROVE  user_index'[u] \in Reads[u]
  BY DEF ReadersInv
<1> USE DEF objectVars, subVars, queueVars, socketVars, userVars, clientVars
<1>1. user_place \in [Users -> UserPlaces] /\ user_index \in [Users -> Indices]
  BY DEF ClientTypeOK, UsersTypeOK
<1>2. ASSUME NEW v \in Users, UserStep(v) \/ UserCall(v) PROVE user_index'[u] \in Reads[u]
  BY <1>1, <1>2 DEF UserStep, GetSize, GetTake, UserCall, GetPackets, SendPacket, Reply, ReadersInv
<1>3. ASSUME \/ Construction \/ Subscription \/ DestroyStop \/ Destruction
             \/ \E msg \in Messages : Arrive(msg)
             \/ UNCHANGED clientVars
      PROVE  UNCHANGED <<user_place, user_index>>
  BY <1>3 DEF Construction, Subscribe, Run, Subscription, SubWhile, SubReceive, SubMiss, StoreAsserts,
              Store, DestroyStop, Destruction, DestroyClose, DestroyJoin, Arrive
<1>4. QED
  BY <1>2, <1>3 DEF ReadersInv, ClientNext, ClientStep

(* So a single user's take finds the packet its test has seen. *)
LEMMA TakeFindsStep ==
  ClientTypeOK /\ ReadersInv /\ TakeFindsPacket /\ [ClientNext]_clientVars => TakeFindsPacket'
<1> SUFFICES ASSUME ClientTypeOK, ReadersInv, TakeFindsPacket, [ClientNext]_clientVars,
                    NEW u \in Users, user_place'[u] = "take", OnlyReader(u, user_index[u])'
             PROVE  m_received_packets'[user_index'[u]].items # <<>>
  BY DEF TakeFindsPacket, TakesPacket, QueueOfUser
<1> USE DEF objectVars, subVars, queueVars, socketVars, userVars, clientVars
<1>1. /\ m_received_packets \in [Indices -> QueueOf(Messages)]
      /\ user_place \in [Users -> UserPlaces] /\ user_index \in [Users -> Indices]
  BY DEF ClientTypeOK, QueuesTypeOK, UsersTypeOK
<1>2. user_place[u] = "take" /\ user_index'[u] = user_index[u] =>
        m_received_packets[user_index[u]].items # <<>>
  BY DEF TakeFindsPacket, TakesPacket, QueueOfUser, OnlyReader
<1>3. CASE Store
  <2> DEFINE i == QueueIndex(message[1])
             c == user_index[u]
  <2>1. /\ c \in Indices
        /\ m_received_packets' = [m_received_packets EXCEPT ![i] = Add(m_received_packets[i], message[1])]
        /\ user_index' = user_index /\ user_place' = user_place
    BY <1>1, <1>3 DEF Store
  <2>2. m_received_packets[c].items \in Seq(Messages) /\ message[1] \in Messages
    BY <1>1, <1>3, <2>1, MessageInHand DEF Store, QueueOf, ClientTypeOK
  <2>3. Append(m_received_packets[c].items, message[1]) # <<>>
    BY <2>2, AppendProperties
  <2>4. CASE c = i
    BY <1>1, <1>2, <2>1, <2>3, <2>4 DEF Add
  <2>5. CASE c # i
    BY <1>1, <1>2, <2>1, <2>5
  <2>6. QED
    BY <2>4, <2>5
<1>4. ASSUME NEW v \in Users, GetSize(v) PROVE m_received_packets'[user_index'[u]].items # <<>>
  BY <1>1, <1>2, <1>4 DEF GetSize, QueueOfUser
<1>5. ASSUME NEW v \in Users, GetTake(v) PROVE m_received_packets'[user_index'[u]].items # <<>>
  <2>1. v # u /\ user_place[u] = "take" /\ user_index' = user_index
    BY <1>1, <1>5 DEF GetTake
  <2>2. user_index[v] # user_index[u]
    BY <1>5, <2>1 DEF GetTake, ReadersInv, OnlyReader
  <2>3. QED
    BY <1>1, <1>2, <1>5, <2>1, <2>2 DEF GetTake
<1>6. ASSUME NEW v \in Users, UserCall(v) PROVE m_received_packets'[user_index'[u]].items # <<>>
  BY <1>1, <1>2, <1>6 DEF UserCall, GetPackets, SendPacket, Reply
<1>7. CASE DestroyClose
  BY <1>1, <1>2, <1>7 DEF DestroyClose, Close
<1>8. CASE UNCHANGED <<m_received_packets, user_place, user_index>>
  BY <1>2, <1>8
<1>9. ASSUME \/ Construction \/ SubWhile \/ SubReceive \/ SubMiss \/ StoreAsserts
             \/ DestroyStop \/ DestroyJoin \/ UNCHANGED clientVars
             \/ \E msg \in Messages : Arrive(msg)
      PROVE  UNCHANGED <<m_received_packets, user_place, user_index>>
  BY <1>9 DEF Construction, Subscribe, Run, SubWhile, SubReceive, SubMiss, StoreAsserts, DestroyStop,
              DestroyJoin, Arrive
<1>10. QED
  BY <1>3, <1>4, <1>5, <1>6, <1>7, <1>8, <1>9
     DEF ClientNext, ClientStep, Subscription, UserStep, Destruction

(* The only user that reads a queue never waits in get_packets: it takes     *)
(* only what its test of the size found, whatever the thread stores and the  *)
(* other users take from their queues meanwhile.                             *)
THEOREM TakeSafe == ClientSpec => []TakeFindsPacket
<1>1. ClientInit => ReadersInv /\ TakeFindsPacket
  BY DEF ClientInit, ReadersInv, TakeFindsPacket
<1>2. QED
  BY <1>1, ReadersStep, TakeFindsStep, ClientTypeCorrect, PTL DEF ClientSpec

-----------------------------------------------------------------------------
(* From the socket to the users.  What the thread stored of a queue's        *)
(* messages is what the queue captured, followed by what it was given once   *)
(* the destructor had closed it, which is dropped.                           *)
DroppedFrom(i) ==
  {dropped \in Seq(Messages) :
     /\ Filter(stored, MessagesOf(i)) = captured[i] \o dropped
     /\ ~m_received_packets[i].closed => dropped = <<>>}

DropsLastOnly == \A i \in Indices : DroppedFrom(i) # {}

(* store_packet puts a message into the queue it is for: what it stored of   *)
(* the messages of queue i grows with it exactly if that is queue i.         *)
LEMMA StoredOfQueue ==
  ASSUME ClientTypeOK, Store, NEW i \in Indices
  PROVE  /\ MessagesOf(i)' = MessagesOf(i)
         /\ Filter(stored', MessagesOf(i)) =
              IF i = QueueIndex(message[1]) THEN Filter(stored, MessagesOf(i)) \o message
                                            ELSE Filter(stored, MessagesOf(i))
<1> DEFINE msg == message[1]
           own == MessagesOf(i)
           before == stored
<1>1. /\ before \in Seq(Messages) /\ msg \in Messages /\ message = <<msg>>
      /\ stored' = before \o message
  BY MessageInHand DEF ClientTypeOK, SubTypeOK, Store
<1>2. msg \in own <=> i = QueueIndex(msg)
  BY <1>1 DEF MessagesOf, Belongs, QueueIndex
<1>3. MessagesOf(i)' = own
  BY DEF Store, objectVars, MessagesOf, Belongs
<1> HIDE DEF msg, own, before
<1>4. before \o message = Append(before, msg)
  BY <1>1, AppendIsConcat
<1>5. Filter(before \o message, own) =
        IF msg \in own THEN Append(Filter(before, own), msg) ELSE Filter(before, own)
  <2>1. Filter(Append(before, msg), own) =
          IF msg \in own THEN Append(Filter(before, own), msg) ELSE Filter(before, own)
    <3>1. before \in Seq(Messages) /\ msg \in Messages
      BY <1>1
    <3>2. QED
      BY <3>1, FilterAppend
  <2>2. QED
    BY <1>4, <2>1
<1> DEFINE mine == Filter(before, own)
<1>6. mine \in Seq(Messages)
  BY <1>1, FilterType
<1> HIDE DEF mine
<1>7. mine \o message = Append(mine, msg)
  BY <1>1, <1>6, AppendIsConcat
<1>8. QED
  BY <1>1, <1>2, <1>3, <1>5, <1>7 DEF msg, own, before, mine

(* A message stored while its queue is open follows what the queue captured; *)
(* one stored once it is closed is dropped, and so are the ones after it.    *)
LEMMA DropsLastOnlyStep ==
  ClientTypeOK /\ DropsLastOnly /\ [ClientNext]_clientVars => DropsLastOnly'
<1> SUFFICES ASSUME ClientTypeOK, DropsLastOnly, [ClientNext]_clientVars, NEW i \in Indices
             PROVE  DroppedFrom(i)' # {}
  BY DEF DropsLastOnly
<1> USE DEF objectVars, subVars, queueVars, socketVars, userVars, clientVars
<1>1. PICK dropped \in Seq(Messages) :
        /\ Filter(stored, MessagesOf(i)) = captured[i] \o dropped
        /\ ~m_received_packets[i].closed => dropped = <<>>
  BY DEF DropsLastOnly, DroppedFrom
<1>2. /\ m_received_packets \in [Indices -> QueueOf(Messages)]
      /\ captured \in [Indices -> Seq(Messages)]
      /\ message \in Seq(Messages)
  BY DEF ClientTypeOK, SubTypeOK, QueuesTypeOK
<1>3. CASE Store
  <2>1. /\ MessagesOf(i)' = MessagesOf(i)
        /\ Filter(stored', MessagesOf(i)) =
             IF i = QueueIndex(message[1]) THEN Filter(stored, MessagesOf(i)) \o message
                                           ELSE Filter(stored, MessagesOf(i))
    BY <1>3, StoredOfQueue
  <2>2. CASE i # QueueIndex(message[1])
    <3>1. captured'[i] = captured[i] /\ m_received_packets'[i] = m_received_packets[i]
      BY <1>2, <1>3, <2>2 DEF Store
    <3>2. QED
      BY <1>1, <2>1, <2>2, <3>1 DEF DroppedFrom
  <2>3. CASE i = QueueIndex(message[1]) /\ m_received_packets[i].closed
    <3>1. captured'[i] = captured[i] /\ m_received_packets'[i].closed
      BY <1>2, <1>3, <2>3 DEF Store, Add
    <3> DEFINE over == captured[i]
               lost == dropped \o message
    <3>2. over \in Seq(Messages) /\ lost \in Seq(Messages)
      BY <1>2, ConcatProperties
    <3>3. (over \o dropped) \o message = over \o lost
      <4> HIDE DEF over
      <4>1. QED
        BY <1>2, <3>2, ConcatAssociative
    <3> HIDE DEF lost
    <3>4. Filter(stored', MessagesOf(i)') = captured'[i] \o lost
      BY <1>1, <2>1, <2>3, <3>1, <3>3
    <3>5. QED
      BY <3>1, <3>2, <3>4 DEF DroppedFrom
  <2>4. CASE i = QueueIndex(message[1]) /\ ~m_received_packets[i].closed
    <3> DEFINE over == captured[i]
               more == captured[i] \o message
    <3>1. captured'[i] = more
      BY <1>2, <1>3, <2>4 DEF Store
    <3>2. over \in Seq(Messages) /\ more \in Seq(Messages)
      BY <1>2, ConcatProperties
    <3>3. over \o <<>> = over /\ more \o <<>> = more
      <4> HIDE DEF over, more
      <4>1. QED
        BY <3>2, ConcatEmptySeq
    <3>4. Filter(stored', MessagesOf(i)') = more
      BY <1>1, <2>1, <2>4, <3>3
    <3> HIDE DEF more
    <3>5. Filter(stored', MessagesOf(i)') = captured'[i] \o <<>>
      BY <3>1, <3>3, <3>4
    <3>6. <<>> \in Seq(Messages)
      BY EmptySeq
    <3>7. QED
      BY <3>5, <3>6 DEF DroppedFrom
  <2>5. QED
    BY <2>2, <2>3, <2>4
<1>4. ASSUME \/ Construction \/ SubWhile \/ SubReceive \/ SubMiss \/ StoreAsserts
             \/ \E u \in Users : UserStep(u) \/ UserCall(u)
             \/ DestroyStop \/ Destruction \/ UNCHANGED clientVars
             \/ \E msg \in Messages : Arrive(msg)
      PROVE  /\ UNCHANGED <<merge, stored, captured>>
             /\ m_received_packets[i].closed => m_received_packets'[i].closed
  <2>1. ASSUME NEW u \in Users, GetTake(u)
        PROVE  UNCHANGED <<merge, stored, captured>> /\ m_received_packets'[i].closed = m_received_packets[i].closed
    BY <1>2, <2>1 DEF GetTake, AfterTake
  <2>2. CASE DestroyClose
    BY <1>2, <2>2 DEF DestroyClose, Close
  <2>3. ASSUME \/ Construction \/ SubWhile \/ SubReceive \/ SubMiss \/ StoreAsserts
               \/ \E u \in Users : GetSize(u) \/ UserCall(u)
               \/ DestroyStop \/ DestroyJoin \/ UNCHANGED clientVars
               \/ \E msg \in Messages : Arrive(msg)
        PROVE  UNCHANGED <<merge, stored, captured, m_received_packets>>
    BY <2>3 DEF Construction, Subscribe, Run, SubWhile, SubReceive, SubMiss, StoreAsserts, GetSize,
                UserCall, GetPackets, SendPacket, Reply, DestroyStop, DestroyJoin, Arrive
  <2>4. QED
    BY <1>4, <2>1, <2>2, <2>3 DEF UserStep, Destruction
<1>5. CASE /\ UNCHANGED <<merge, stored, captured>>
           /\ m_received_packets[i].closed => m_received_packets'[i].closed
  BY <1>1, <1>5 DEF DroppedFrom, MessagesOf, Belongs
<1>6. QED
  BY <1>3, <1>4, <1>5 DEF ClientNext, ClientStep, Subscription

(* The first message of a queue is the next one, of those the socket got     *)
(* that are for this queue, after the ones the users have taken.             *)
LEMMA FirstIsNext ==
  ASSUME ClientTypeOK, MessageConservation, QueueConservation, DropsLastOnly,
         NEW i \in Indices, TakesPacket(m_received_packets[i])
  PROVE  /\ First(m_received_packets[i]) \in Messages
         /\ Follows(taken[i], First(m_received_packets[i]), Filter(arrived, MessagesOf(i)))
<1> DEFINE queue == m_received_packets[i]
           msg == First(queue)
           after == AfterTake(queue).items
           out == taken[i]
           own == MessagesOf(i)
           kept == captured[i]
<1>1. queue \in QueueOf(Messages) /\ WithinCapacity(queue) /\ kept \in Seq(Messages) /\ out \in Seq(Messages)
  BY DEF ClientTypeOK, QueuesTypeOK
<1>2. msg \in Messages /\ after \in Seq(Messages) /\ queue.items = <<msg>> \o after
  BY <1>1, TakeKeepsQueue DEF QueueOf
<1>3. kept = out \o (<<msg>> \o after)
  BY <1>2 DEF QueueConservation
<1>4. PICK dropped \in Seq(Messages) : Filter(stored, own) = kept \o dropped
  BY DEF DropsLastOnly, DroppedFrom
<1> HIDE DEF queue, msg, after, out, own, kept
<1>5. Follows(out, msg, kept)
  BY <1>1, <1>2, <1>3, FollowsFirst
<1>6. Follows(out, msg, kept \o dropped)
  BY <1>1, <1>2, <1>5, FollowsLonger
<1> DEFINE done == stored
           end == message \o m_subscription
           mine == Filter(done, own)
           last == Filter(end, own)
<1>7. done \in Seq(Messages) /\ end \in Seq(Messages)
  BY ConcatProperties DEF ClientTypeOK, SubTypeOK, SocketTypeOK
<1>8. arrived = done \o end
  BY DEF MessageConservation, Pipeline
<1> HIDE DEF done, end
<1>9. Filter(done \o end, own) = mine \o last
  BY <1>7, FilterConcat
<1>10. mine \in Seq(Messages) /\ last \in Seq(Messages)
  BY <1>7, FilterType
<1>11. Follows(out, msg, mine)
  BY <1>4, <1>6 DEF done
<1> HIDE DEF mine, last
<1>12. Follows(out, msg, mine \o last)
  BY <1>1, <1>2, <1>10, <1>11, FollowsLonger
<1>13. QED
  BY <1>2, <1>8, <1>9, <1>12 DEF msg, queue, out, own

(* Every step is a step of the relay of a topic, or a stutter. *)
LEMMA TopicsRelayStep ==
  ClientTypeOK /\ MessageConservation /\ QueueConservation /\ DropsLastOnly /\ [ClientNext]_clientVars
    => [TopicsRelay!Next]_(TopicsRelay!relayVars)
<1> SUFFICES ASSUME ClientTypeOK, MessageConservation, QueueConservation, DropsLastOnly,
                    [ClientNext]_clientVars
             PROVE  TopicsRelay!Next \/ UNCHANGED TopicsRelay!relayVars
  OBVIOUS
<1> USE DEF objectVars, subVars, queueVars, socketVars, userVars, clientVars
<1>1. ASSUME NEW msg \in Messages, Arrive(msg) PROVE TopicsRelay!Next
  <2> DEFINE c == QueueIndex(msg)
  <2>1. /\ c \in Indices /\ taken' = taken
        /\ arrived \in Seq(Messages) /\ arrived' = Append(arrived, msg)
    BY <1>1, IndicesOK DEF Arrive, ClientTypeOK, ObjectTypeOK, SocketTypeOK
  <2>2. \A i \in Indices : MessagesOf(i)' = MessagesOf(i) /\ (msg \in MessagesOf(i) <=> i = c)
    BY <1>1 DEF Arrive, MessagesOf, Belongs, QueueIndex
  <2> HIDE DEF c
  <2>3. \A A : Filter(Append(arrived, msg), A) =
                 IF msg \in A THEN Append(Filter(arrived, A), msg) ELSE Filter(arrived, A)
    BY <2>1, FilterAppend
  <2>4. \A i \in Indices :
          Filter(arrived', MessagesOf(i)') =
            IF i = c THEN Append(Filter(arrived, MessagesOf(i)), msg) ELSE Filter(arrived, MessagesOf(i))
    BY <2>1, <2>2, <2>3
  <2>5. TopicsRelay!Accept(c)
    BY <1>1, <2>1, <2>4 DEF TopicsRelay!Accept
  <2>6. QED
    BY <2>1, <2>5 DEF TopicsRelay!Next
<1>2. ASSUME NEW u \in Users, GetTake(u) PROVE TopicsRelay!Next
  <2> DEFINE c == user_index[u]
             msg == First(m_received_packets[c])
  <2>1. /\ c \in Indices /\ TakesPacket(m_received_packets[c])
        /\ UNCHANGED <<merge, arrived>>
        /\ taken' = [taken EXCEPT ![c] = Append(taken[c], msg)]
    BY <1>2 DEF GetTake, QueueOfUser, ClientTypeOK, UsersTypeOK
  <2>2. Follows(taken[c], msg, Filter(arrived, MessagesOf(c)))
    BY <2>1, FirstIsNext
  <2>3. \A i \in Indices : Filter(arrived', MessagesOf(i)') = Filter(arrived, MessagesOf(i))
    BY <2>1 DEF MessagesOf, Belongs
  <2> HIDE DEF c, msg
  <2>4. TopicsRelay!Deliver(c)
    BY <2>1, <2>2, <2>3 DEF TopicsRelay!Deliver, Follows
  <2>5. QED
    BY <2>1, <2>4 DEF TopicsRelay!Next
<1>3. ASSUME \/ Construction \/ Subscription \/ DestroyStop \/ Destruction
             \/ \E u \in Users : GetSize(u) \/ UserCall(u)
             \/ UNCHANGED clientVars
      PROVE  UNCHANGED <<merge, arrived, taken>>
  BY <1>3 DEF Construction, Subscribe, Run, Subscription, SubWhile, SubReceive, SubMiss, StoreAsserts,
              Store, GetSize, UserCall, GetPackets, SendPacket, Reply, DestroyStop, Destruction,
              DestroyClose, DestroyJoin
<1>4. CASE UNCHANGED <<merge, arrived, taken>>
  BY <1>4 DEF TopicsRelay!relayVars, MessagesOf, Belongs
<1>5. QED
  BY <1>1, <1>2, <1>3, <1>4 DEF ClientNext, ClientStep, UserStep

(* Each topic, or the single queue of the merged ones, is a relay from the   *)
(* socket to the users: they take, in order, a prefix of the messages of     *)
(* that topic that reached the socket, even while the client is destroyed.   *)
THEOREM ClientRefinesRelay == ClientSpec => TopicsInOrder
<1>1. ClientInit => DropsLastOnly
  <2> SUFFICES ASSUME ClientInit, NEW i \in Indices PROVE DroppedFrom(i) # {}
    BY DEF DropsLastOnly
  <2>1. Filter(stored, MessagesOf(i)) = captured[i] \o <<>>
    BY FilterEmpty, EmptySeq, ConcatEmptySeq DEF ClientInit
  <2>2. QED
    BY <2>1, EmptySeq DEF DroppedFrom
<1>2. ClientInit => TopicsRelay!Init
  BY FilterEmpty DEF ClientInit, TopicsRelay!Init
<1>3. QED
  BY <1>1, <1>2, DropsLastOnlyStep, TopicsRelayStep, ClientTypeCorrect, MessagesConserved,
     QueuesConserved, PTL DEF ClientSpec, TopicsInOrder, TopicsRelay!Spec

-----------------------------------------------------------------------------
(* The thread is a polling loop. *)

(* Every step is a step of the polling loop, or a stutter. *)
LEMMA SubscriptionLoopStep ==
  ClientTypeOK /\ [ClientNext]_clientVars => [SubLoop!Next]_SubLoop!pollVars
<1> SUFFICES ASSUME ClientTypeOK, [ClientNext]_clientVars
             PROVE  SubLoop!Next \/ UNCHANGED SubLoop!pollVars
  OBVIOUS
<1> DEFINE pending == Len(m_subscription)
<1> USE DEF objectVars, subscribeVars, subVars, queueVars, socketVars, userVars, clientVars,
            SubLoop!pollVars
<1>1. /\ m_subscription \in Seq(Messages) /\ pending \in Nat
      /\ sub_thread \in SubPlaces /\ m_running \in BOOLEAN
  BY DEF ClientTypeOK, ObjectTypeOK, SubTypeOK, SocketTypeOK
<1>2. CASE Run
  BY <1>2 DEF Run, ClientTypeOK, SubLoop!Next, SubLoop!Start
<1>3. CASE SubWhile
  BY <1>3 DEF SubWhile, SubLoop!Next, SubLoop!Loop, SubLoop!While
<1>4. CASE SubReceive
  <2>1. pending > 0 /\ Len(m_subscription') = pending - 1
    BY <1>1, <1>4, HeadTailProperties, EmptySeq DEF SubReceive
  <2>2. QED
    BY <1>4, <2>1 DEF SubReceive, SubLoop!Next, SubLoop!Loop, SubLoop!Receive
<1>5. CASE SubMiss
  <2>1. pending = 0
    BY <1>5, EmptySeq DEF SubMiss
  <2>2. QED
    BY <1>5, <2>1 DEF SubMiss, SubLoop!Next, SubLoop!Loop, SubLoop!Miss
<1>6. CASE Store
  BY <1>6 DEF Store, SubLoop!Next, SubLoop!Loop, SubLoop!Handled
<1>7. ASSUME NEW msg \in Messages, Arrive(msg) PROVE SubLoop!Next
  <2>1. Len(m_subscription') = pending + 1
    BY <1>1, <1>7, AppendProperties DEF Arrive
  <2>2. QED
    BY <1>7, <2>1 DEF Arrive, SubLoop!Next, SubLoop!Arrive
<1>8. CASE DestroyStop
  BY <1>8 DEF DestroyStop, SubLoop!Next, SubLoop!Stop
<1>9. ASSUME \/ Subscribe \/ StoreAsserts
             \/ \E u \in Users : UserStep(u) \/ UserCall(u)
             \/ Destruction \/ UNCHANGED clientVars
      PROVE  UNCHANGED <<m_running, sub_thread, tries, m_subscription>>
  BY <1>9 DEF Subscribe, StoreAsserts, UserStep, GetSize, GetTake, UserCall, GetPackets, SendPacket,
              Reply, Destruction, DestroyClose, DestroyJoin
<1>10. QED
  BY <1>2, <1>3, <1>4, <1>5, <1>6, <1>7, <1>8, <1>9
     DEF ClientNext, ClientStep, Construction, Subscription

(* subscription_thread implements the polling loop: it tests m_running only  *)
(* after MaxTries empty polls.                                               *)
THEOREM SubscriptionImplementsPollLoop == ClientSpec => SubscriptionPolls
<1>1. ClientInit => SubLoop!Init
  BY EmptySeq DEF ClientInit, SubLoop!Init
<1>2. QED
  BY <1>1, SubscriptionLoopStep, ClientTypeCorrect, PTL DEF ClientSpec, SubscriptionPolls, SubLoop!Spec
==============================================================================
