--------------------------- MODULE ZMQServerProofs ---------------------------
(***************************************************************************)
(* Proofs about ZMQServer, for any bridges, packets, clients, scripts,      *)
(* configuration and queue capacity.                                        *)
(***************************************************************************)
EXTENDS ZMQServer, SpaceWireBridgeProofs

(* The packet a client waits for a reply to is one of its script. *)
LEMMA ScriptPacket ==
  ASSUME ClientsTypeOK, NEW c \in Clients, Waiting(c)
  PROVE  /\ Script[c][sent[c]] \in Packets
         /\ sent[c] = acked[c] + 1
<1>1. /\ Script[c] \in Seq(Packets)
      /\ sent[c] \in Nat /\ acked[c] \in Nat
      /\ sent[c] <= Len(Script[c]) /\ sent[c] <= acked[c] + 1 /\ acked[c] < sent[c]
  BY ServerAssumption DEF ClientsTypeOK, Waiting
<1>2. sent[c] \in 1 .. Len(Script[c])
  BY <1>1, LenProperties
<1>3. QED
  BY <1>1, <1>2, ElementOfSeq

(* A call of send has a packet for a bridge name. *)
LEMMA RequestType ==
  ASSUME RegistryTypeOK, send_place # "none"
  PROVE  request[1] \in Packets /\ RequestedBridge \in BridgeIds
<1>1. request \in Seq(Packets) /\ Len(request) = 1
  BY DEF RegistryTypeOK
<1>2. request[1] \in Packets
  BY <1>1, ElementOfSeq
<1>3. QED
  BY <1>2, BridgeAssumption DEF RequestedBridge

(* Every step keeps the types of the server. *)
LEMMA ServerTypeStep ==
  ServerTypeOK /\ BridgeTypeOK /\ [ServerNext]_serverVars => ServerTypeOK'
<1> SUFFICES ASSUME ServerTypeOK, BridgeTypeOK, [ServerNext]_serverVars
             PROVE  ServerTypeOK'
  OBVIOUS
<1> USE DEF ServerTypeOK, registryVars, lifeVars, reqVars, pubVars, serverVars, RestOfServer
<1>1. ASSUME Start PROVE ServerTypeOK'
  <2>1. LifeTypeOK'
    BY <1>1 DEF Start, LifeTypeOK, MainPlaces
  <2>2. Len(pub_packet) = 0 /\ send_place = "none"
    BY <1>1 DEF Start, WorkersTypeOK
  <2>3. QED
    BY <1>1, <2>1, <2>2, BridgeAssumption
       DEF Start, RegistryTypeOK, WorkersTypeOK, ClientsTypeOK, ReqPlaces, PubPlaces
<1>2. ASSUME Setup PROVE ServerTypeOK'
  <2>1. RegistryTypeOK'
    <3>1. Load => to_load' = to_load \/ (to_load # <<>> /\ to_load' = Tail(to_load))
      BY DEF Load, LoadCheck, LoadSkip, LoadInsert, LoadAssign, Loading
    <3>2. to_load' \in Seq(BridgeIds)
      BY <1>2, <3>1, HeadTailProperties DEF Setup, RegistryTypeOK
    <3>3. Load => /\ loaded_bridges' \in [BridgeIds -> Entries]
                  /\ load_place' \in LoadPlaces
                  /\ send_place' = send_place /\ request' = request
      BY DEF Load, LoadCheck, LoadSkip, LoadInsert, LoadAssign, RegistryTypeOK, Entries, LoadPlaces
    <3>4. QED
      BY <1>2, <3>2, <3>3 DEF Setup, RegistryTypeOK
  <2>2. LifeTypeOK' /\ WorkersTypeOK' /\ ClientsTypeOK'
    BY <1>2 DEF Setup, LifeTypeOK, WorkersTypeOK, ClientsTypeOK, MainPlaces
  <2>3. /\ send_place' = send_place /\ req_thread' = req_thread
        /\ main_thread' # "start"
    BY <1>2 DEF Setup, Load, LoadCheck, LoadSkip, LoadInsert, LoadAssign
  <2>4. QED
    BY <2>1, <2>2, <2>3
<1>3. ASSUME LoopEnds \/ Sigint \/ SigintOnWorker \/ ReqCrash PROVE ServerTypeOK'
  <2>1. signals' \in 0 .. MaxSignals
    BY <1>3, ServerAssumption DEF LoopEnds, Sigint, SigintOnWorker, ReqCrash, LifeTypeOK
  <2>2. LifeTypeOK'
    BY <1>3, <2>1
       DEF LoopEnds, Sigint, SigintOnWorker, ReqCrash, LifeTypeOK, MainPlaces, ClosePlaces
  <2>3. QED
    BY <1>3, <2>2
       DEF LoopEnds, Sigint, SigintOnWorker, ReqCrash, RegistryTypeOK, WorkersTypeOK, ClientsTypeOK
<1>4. ASSUME Teardown PROVE ServerTypeOK'
  BY <1>4 DEF Teardown, TeardownBridge, TeardownClear, RegistryTypeOK, LifeTypeOK, WorkersTypeOK,
              ClientsTypeOK, Entries, MainPlaces, ClosePlaces
<1>5. ASSUME Closing PROVE ServerTypeOK'
  <2>1. LifeTypeOK'
    BY <1>5 DEF Closing, CloseStop, CloseQueue, CloseJoinReq, CloseJoinPub, CloseSockets, LifeTypeOK,
                MainPlaces, ClosePlaces
  <2>2. QED
    BY <1>5, <2>1
       DEF Closing, CloseStop, CloseQueue, CloseJoinReq, CloseJoinPub, CloseSockets,
           RegistryTypeOK, WorkersTypeOK, ClientsTypeOK
<1>6. ASSUME NEW c \in Clients, ClientSend(c) PROVE ServerTypeOK'
  <2>1. sent[c] \in Nat /\ acked[c] \in Nat /\ acked[c] <= sent[c] /\ Len(Script[c]) \in Nat
    BY ServerAssumption, LenProperties DEF ClientsTypeOK
  <2>2. ClientsTypeOK'
    BY <1>6, <2>1 DEF ClientSend, Waiting, ClientsTypeOK
  <2>3. QED
    BY <1>6, <2>2 DEF ClientSend, RegistryTypeOK, LifeTypeOK, WorkersTypeOK
<1>7. ASSUME ReqWhile PROVE ServerTypeOK'
  BY <1>7, BridgeAssumption
     DEF ReqWhile, RegistryTypeOK, LifeTypeOK, WorkersTypeOK, ClientsTypeOK, ReqPlaces
<1>8. ASSUME NEW c \in Clients, ReqServe(c) PROVE ServerTypeOK'
  <2> DEFINE packet == Script[c][sent[c]]
  <2>1. packet \in Packets /\ sent[c] = acked[c] + 1
    BY <1>8, ScriptPacket DEF ReqServe
  <2>2. ClientsTypeOK'
    BY <1>8, <2>1 DEF ReqServe, ClientsTypeOK
  <2>3. Append(served, packet) \in Seq(Packets)
    BY <2>1, AppendProperties DEF WorkersTypeOK
  <2>4. WorkersTypeOK'
    BY <1>8, <2>3, BridgeAssumption DEF ReqServe, WorkersTypeOK, ReqPlaces
  <2>5. request' = <<packet>> /\ send_place' = "contains" /\ req_thread' = "send"
    BY <1>8 DEF ReqServe, CallSend
  <2>6. request' \in Seq(Packets) /\ Len(request') = 1
    BY <2>1, <2>5
  <2>7. RegistryTypeOK'
    BY <1>8, <2>5, <2>6 DEF ReqServe, RegistryTypeOK, SendCallPlaces
  <2>8. QED
    BY <1>8, <2>2, <2>4, <2>5, <2>7 DEF ReqServe, LifeTypeOK
<1>9. ASSUME ReqMiss PROVE ServerTypeOK'
  <2>1. req_tries < MaxTries /\ req_tries \in 0 .. MaxTries
    BY <1>9 DEF ReqMiss, WorkersTypeOK
  <2>2. WorkersTypeOK'
    BY <1>9, <2>1, BridgeAssumption DEF ReqMiss, WorkersTypeOK, ReqPlaces
  <2>3. QED
    BY <1>9, <2>2 DEF ReqMiss, RegistryTypeOK, LifeTypeOK, ClientsTypeOK
<1>10. ASSUME ReqSend PROVE ServerTypeOK'
  <2>1. \/ send_place' = "send" /\ request' = request
        \/ send_place' = "none" /\ request' = <<>>
    BY <1>10 DEF ReqSend, SendContains, SendForward
  <2>2. UNCHANGED <<loaded_bridges, to_load, load_place>> /\ send_place # "none"
    BY <1>10 DEF ReqSend, SendContains, SendForward
  <2>3. RegistryTypeOK'
    BY <2>1, <2>2, EmptySeq DEF RegistryTypeOK, SendCallPlaces
  <2>4. WorkersTypeOK'
    <3>1. req_thread' \in {"poll", "send"}
      BY <1>10 DEF ReqSend
    <3>2. req_tries < MaxTries /\ req_tries' = req_tries
      BY <1>10 DEF ReqSend, WorkersTypeOK
    <3>3. QED
      BY <1>10, <3>1, <3>2 DEF ReqSend, WorkersTypeOK, ReqPlaces
  <2>5. QED
    BY <1>10, <2>1, <2>3, <2>4 DEF ReqSend, LifeTypeOK, ClientsTypeOK
<1>11. ASSUME PubWhile \/ PubTakeNothing PROVE ServerTypeOK'
  BY <1>11 DEF PubWhile, PubTakeNothing, RegistryTypeOK, LifeTypeOK, WorkersTypeOK, ClientsTypeOK,
               PubPlaces
<1>12. ASSUME PubTake PROVE ServerTypeOK'
  <2>1. First(publish_queue) \in Packets
    BY <1>12, TakeKeepsQueue DEF PubTake, Take, BridgeTypeOK, PublishTypeOK
  <2>2. <<First(publish_queue)>> \in Seq(Packets) /\ Len(<<First(publish_queue)>>) = 1
    BY <2>1
  <2>3. WorkersTypeOK'
    BY <1>12, <2>2 DEF PubTake, WorkersTypeOK, PubPlaces
  <2>4. QED
    BY <1>12, <2>3 DEF PubTake, RegistryTypeOK, LifeTypeOK, ClientsTypeOK
<1>13. ASSUME Publish PROVE ServerTypeOK'
  <2> DEFINE none == <<>>
  <2>1. published \o pub_packet \in Seq(Packets)
    BY ConcatProperties DEF WorkersTypeOK
  <2>2. none \in Seq(Packets) /\ Len(none) = 0
    BY EmptySeq
  <2>3. /\ pub_packet' = none
        /\ pub_thread' = "while"
        /\ published' = published \/ published' = published \o pub_packet
    BY <1>13 DEF Publish
  <2> HIDE DEF none
  <2>4. WorkersTypeOK'
    BY <1>13, <2>1, <2>2, <2>3 DEF Publish, WorkersTypeOK, PubPlaces
  <2>5. QED
    BY <1>13, <2>4 DEF Publish, RegistryTypeOK, LifeTypeOK, ClientsTypeOK
<1>14. ASSUME NEW b \in BridgeIds, BridgeThreads(b) PROVE ServerTypeOK'
  BY <1>14 DEF BridgeThreads, RegistryTypeOK, LifeTypeOK, WorkersTypeOK, ClientsTypeOK
<1>15. CASE UNCHANGED serverVars
  BY <1>15 DEF RegistryTypeOK, LifeTypeOK, WorkersTypeOK, ClientsTypeOK
<1>16. QED
  BY <1>1, <1>2, <1>3, <1>4, <1>5, <1>6, <1>7, <1>8, <1>9, <1>10, <1>11, <1>12, <1>13, <1>14, <1>15
     DEF ServerNext, ServerStep, Main, HandleRequests, PublishPackets

-----------------------------------------------------------------------------
(* Every step of the server is a step of its bridges or leaves them alone.   *)
LEMMA ServerStepUsesBridges ==
  ServerTypeOK /\ [ServerNext]_serverVars => [BridgeNext]_bridgeVars
<1> SUFFICES ASSUME ServerTypeOK, [ServerNext]_serverVars
             PROVE  BridgeNext \/ UNCHANGED bridgeVars
  OBVIOUS
<1>1. ASSUME Setup PROVE BridgeNext \/ UNCHANGED bridgeVars
  <2>1. CASE LoadCheck
    <3>1. Construct(Head(to_load)) /\ Head(to_load) \in BridgeIds
      BY <2>1, RegistryAssumption DEF LoadCheck
    <3>2. QED
      BY <3>1 DEF BridgeNext, BridgeOwner
  <2>2. CASE ~LoadCheck
    BY <1>1, <2>2 DEF Setup, Load, LoadSkip, LoadInsert, LoadAssign
  <2>3. QED
    BY <2>1, <2>2
<1>2. ASSUME Teardown PROVE BridgeNext \/ UNCHANGED bridgeVars
  <2>1. ASSUME NEW b \in BridgeIds, TeardownBridge(b) PROVE BridgeOwner(b)
    BY <2>1 DEF TeardownBridge, BridgeOwner
  <2>2. CASE TeardownClear
    BY <2>2 DEF TeardownClear
  <2>3. QED
    BY <1>2, <2>1, <2>2 DEF Teardown, BridgeNext
<1>3. ASSUME Closing PROVE BridgeNext \/ UNCHANGED bridgeVars
  BY <1>3 DEF Closing, CloseStop, CloseQueue, CloseJoinReq, CloseJoinPub, CloseSockets, BridgeNext
<1>4. ASSUME ReqSend PROVE BridgeNext \/ UNCHANGED bridgeVars
  <2>1. CASE SendContains
    BY <2>1 DEF SendContains
  <2>2. CASE SendForward
    <3>1. /\ Send(RequestedBridge, request[1])
          /\ request[1] \in Packets /\ RequestedBridge \in BridgeIds
      BY <2>2, RequestType DEF SendForward, ServerTypeOK
    <3>2. request[1] \in PacketsOf(RequestedBridge)
      BY <3>1 DEF PacketsOf, RequestedBridge
    <3>3. BridgeOwner(RequestedBridge)
      BY <3>1, <3>2 DEF BridgeOwner
    <3>4. QED
      BY <3>1, <3>3 DEF BridgeNext
  <2>3. QED
    BY <1>4, <2>1, <2>2 DEF ReqSend
<1>5. ASSUME PubTake PROVE BridgeNext
  BY <1>5 DEF PubTake, BridgeNext
<1>6. ASSUME NEW b \in BridgeIds, BridgeThreads(b) PROVE BridgeNext
  BY <1>6 DEF BridgeThreads, BridgeNext
<1>7. ASSUME \/ Start \/ LoopEnds \/ Sigint \/ SigintOnWorker \/ ReqCrash \/ ReqWhile \/ ReqMiss
             \/ (\E c \in Clients : ReqServe(c) \/ ClientSend(c))
             \/ PubWhile \/ PubTakeNothing \/ Publish \/ UNCHANGED serverVars
      PROVE  UNCHANGED bridgeVars
  BY <1>7 DEF Start, LoopEnds, Sigint, SigintOnWorker, ReqCrash, ReqWhile, ReqMiss, ReqServe,
              ClientSend, PubWhile, PubTakeNothing, Publish, serverVars
<1>8. QED
  BY <1>1, <1>2, <1>3, <1>4, <1>5, <1>6, <1>7
     DEF ServerNext, ServerStep, Main, HandleRequests, PublishPackets

(* The types of the server and of its bridges, proved together: the bridges' *)
(* types say what the publisher takes, the server's say what it sends.       *)
LEMMA ServerAndBridgeTypes == ServerSpec => [](ServerTypeOK /\ BridgeTypeOK)
<1>1. ServerInit => ServerTypeOK /\ BridgeTypeOK
  <2>1. ServerInit => BridgeTypeOK
    BY BridgeAssumption, QueueCapacityAssumption, EmptySeq
       DEF ServerInit, BridgeInit, BridgeTypeOK, PublishTypeOK, ReceivingTypeOK, SendingTypeOK,
           DeviceTypeOK, EmptyQueue, QueueOf, WithinCapacity, RecPlaces, SendPlaces, Lives
  <2>2. ServerInit => RegistryTypeOK
    BY RegistryAssumption, EmptySeq
       DEF ServerInit, RegistryInit, RegistryTypeOK, Entries, LoadPlaces, SendCallPlaces
  <2>3. ServerInit => LifeTypeOK
    <3>1. 0 \in 0 .. MaxSignals
      BY ServerAssumption
    <3>2. QED
      BY <3>1 DEF ServerInit, LifeTypeOK, MainPlaces, ClosePlaces
  <2>4. ServerInit => WorkersTypeOK
    BY BridgeAssumption, EmptySeq DEF ServerInit, WorkersTypeOK, ReqPlaces, PubPlaces
  <2>5. ServerInit => ClientsTypeOK
    BY ServerAssumption, LenProperties DEF ServerInit, ClientsTypeOK
  <2>6. QED
    BY <2>1, <2>2, <2>3, <2>4, <2>5 DEF ServerInit, RegistryInit, ServerTypeOK
<1>2. ServerTypeOK /\ BridgeTypeOK /\ [ServerNext]_serverVars => (ServerTypeOK /\ BridgeTypeOK)'
  BY ServerTypeStep, ServerStepUsesBridges, BridgeTypeStep
<1>3. QED
  BY <1>1, <1>2, PTL DEF ServerSpec

(* Type correctness of the server. *)
THEOREM ServerTypeCorrect == ServerSpec => []ServerTypeOK
BY ServerAndBridgeTypes, PTL

(* The server uses its bridges as SpaceWireBridge allows, so what is proved  *)
(* of the bridges holds in the server.                                       *)
LEMMA ServerUsesBridges == ServerSpec => BridgeSpec
<1>1. ServerInit => BridgeInit
  BY DEF ServerInit
<1>2. QED
  BY <1>1, ServerStepUsesBridges, ServerAndBridgeTypes, PTL DEF ServerSpec, BridgeSpec

-----------------------------------------------------------------------------
(* The life of the server.  ServerInv is inductive given the types: close    *)
(* joins the two threads before main leaves the loop, so no request is being *)
(* sent while teardown destroys the bridges.                                 *)

(* Every step keeps the order of close, *)
LEMMA CloseInvStep ==
  ServerTypeOK /\ CloseInv /\ [ServerNext]_serverVars => CloseInv'
<1> SUFFICES ASSUME ServerTypeOK, CloseInv, [ServerNext]_serverVars
             PROVE  CloseInv'
  OBVIOUS
<1>1. LifeTypeOK /\ (main_thread = "start" => req_thread = "unborn" /\ pub_thread = "unborn")
  BY DEF ServerTypeOK
<1> USE DEF CloseInv, registryVars, lifeVars, reqVars, pubVars, serverVars, RestOfServer
<1>2. ASSUME Start \/ Setup PROVE CloseInv'
  BY <1>1, <1>2 DEF Start, Setup, LifeTypeOK, Workers
<1>3. ASSUME LoopEnds \/ Teardown PROVE CloseInv'
  BY <1>1, <1>3 DEF LoopEnds, Teardown, LifeTypeOK
<1>4. ASSUME Sigint \/ SigintOnWorker \/ ReqCrash PROVE CloseInv'
  BY <1>4 DEF Sigint, SigintOnWorker, ReqCrash, HandlerInstalled
<1>5. ASSUME CloseStop PROVE CloseInv'
  BY <1>5 DEF CloseStop
<1>6. ASSUME CloseQueue PROVE CloseInv'
  BY <1>6 DEF CloseQueue
<1>7. ASSUME CloseJoinReq PROVE CloseInv'
  BY <1>7 DEF CloseJoinReq
<1>8. ASSUME CloseJoinPub PROVE CloseInv'
  BY <1>8 DEF CloseJoinPub
<1>9. ASSUME CloseSockets PROVE CloseInv'
  BY <1>1, <1>9 DEF CloseSockets, LifeTypeOK, Workers
<1>10. ASSUME ReqWhile \/ ReqMiss \/ ReqSend \/ (\E c \in Clients : ReqServe(c)) PROVE CloseInv'
  BY <1>1, <1>10 DEF ReqWhile, ReqMiss, ReqSend, ReqServe
<1>11. ASSUME PubWhile \/ PubTake \/ PubTakeNothing \/ Publish PROVE CloseInv'
  BY <1>1, <1>11 DEF PubWhile, PubTake, PubTakeNothing, Publish
<1>12. ASSUME \/ \E c \in Clients : ClientSend(c)
              \/ \E b \in BridgeIds : BridgeThreads(b)
              \/ UNCHANGED serverVars
       PROVE  CloseInv'
  BY <1>12 DEF ClientSend, BridgeThreads
<1>13. QED
  BY <1>2, <1>3, <1>4, <1>5, <1>6, <1>7, <1>8, <1>9, <1>10, <1>11, <1>12
     DEF ServerNext, ServerStep, Main, Closing, HandleRequests, PublishPackets

(* and that of setup, requests and teardown. *)
LEMMA RegistryInvStep ==
  ServerTypeOK /\ BridgeTypeOK /\ CloseInv /\ RegistryInv /\ [ServerNext]_serverVars
    => RegistryInv'
<1> SUFFICES ASSUME ServerTypeOK, BridgeTypeOK, CloseInv, RegistryInv, [ServerNext]_serverVars
             PROVE  RegistryInv'
  OBVIOUS
<1>1. /\ loaded_bridges \in [BridgeIds -> Entries]
      /\ object \in [BridgeIds -> Lives]
      /\ load_place \in LoadPlaces
      /\ main_thread \in MainPlaces
  BY DEF ServerTypeOK, RegistryTypeOK, LifeTypeOK, BridgeTypeOK
<1>2. Loading => Head(to_load) \in BridgeIds
  BY HeadTailProperties DEF ServerTypeOK, RegistryTypeOK, Loading
<1> USE DEF RegistryInv, registryVars, lifeVars, reqVars, pubVars, serverVars, RestOfServer
<1>3. ASSUME Start PROVE RegistryInv'
  BY <1>1, <1>3 DEF Start, Loading, bridgeVars
<1>4. ASSUME Setup PROVE RegistryInv'
  <2>1. main_thread = "setup"
    BY <1>4 DEF Setup
  <2>2. CASE LoadCheck
    BY <1>1, <1>2, <1>4, <2>1, <2>2 DEF Setup, LoadCheck, Construct, Loading
  <2>3. CASE LoadSkip
    BY <1>1, <1>2, <1>4, <2>1, <2>3 DEF Setup, LoadSkip, Loading, bridgeVars
  <2>4. CASE LoadInsert
    BY <1>1, <1>2, <1>4, <2>1, <2>4 DEF Setup, LoadInsert, Loading, bridgeVars, Entries
  <2>5. CASE LoadAssign
    BY <1>1, <1>2, <1>4, <2>1, <2>5 DEF Setup, LoadAssign, Loading, bridgeVars, Entries
  <2>6. CASE ~Loading /\ main_thread' = "loop" /\ UNCHANGED <<bridgeVars, registryVars>>
    BY <1>1, <1>4, <2>1, <2>6 DEF Setup, Loading, bridgeVars
  <2>7. QED
    BY <1>4, <2>2, <2>3, <2>4, <2>5, <2>6 DEF Setup, Load
<1>5. ASSUME LoopEnds PROVE RegistryInv'
  BY <1>1, <1>5 DEF LoopEnds, Loading, bridgeVars
<1>6. ASSUME Teardown PROVE RegistryInv'
  <2>1. main_thread = "teardown" /\ ~Loading
    BY <1>6 DEF Teardown
  <2>2. load_place = "check"
    BY <1>1, <2>1 DEF LoadPlaces
  <2>3. ASSUME NEW b \in BridgeIds, TeardownBridge(b), UNCHANGED main_thread PROVE RegistryInv'
    <3>1. loaded_bridges[b] = "loaded" /\ UNCHANGED registryVars
      BY <2>3 DEF TeardownBridge
    <3>2. \A c \in BridgeIds : c # b => object'[c] = object[c]
      BY <1>1, <2>3 DEF TeardownBridge, DestroyClose, DestroyJoinRec, DestroyJoinSend
    <3>3. QED
      BY <1>1, <2>1, <2>2, <2>3, <3>1, <3>2 DEF Loading
  <2>4. CASE TeardownClear /\ main_thread' = "destroy"
    <3>1. \A b \in BridgeIds : object[b] \in {"unborn", "destroyed"}
      BY <1>1, <2>1, <2>2, <2>4 DEF TeardownClear, TornDown, Entries
    <3>2. QED
      BY <1>1, <2>1, <2>2, <2>4, <3>1 DEF TeardownClear, Loading, bridgeVars
  <2>5. QED
    BY <1>6, <2>3, <2>4 DEF Teardown
<1>7. ASSUME Closing PROVE RegistryInv'
  BY <1>1, <1>7 DEF Closing, CloseStop, CloseQueue, CloseJoinReq, CloseJoinPub, CloseSockets,
                    ClosePublish, CloseInv, Loading, bridgeVars
<1>8. ASSUME ReqSend PROVE RegistryInv'
  <2>1. UNCHANGED <<loaded_bridges, to_load, load_place, main_thread, object>>
    BY <1>8 DEF ReqSend, SendContains, SendForward, Send, bridgeVars
  <2>2. QED
    BY <2>1 DEF Loading
<1>9. ASSUME \/ Sigint \/ SigintOnWorker \/ ReqCrash \/ ReqWhile \/ ReqMiss \/ PubWhile \/ PubTake
             \/ PubTakeNothing \/ Publish
             \/ \E c \in Clients : ReqServe(c) \/ ClientSend(c)
             \/ \E b \in BridgeIds : BridgeThreads(b)
             \/ UNCHANGED serverVars
      PROVE  RegistryInv'
  <2>1. UNCHANGED <<loaded_bridges, to_load, load_place, main_thread>>
    BY <1>9 DEF Sigint, SigintOnWorker, ReqCrash, ReqWhile, ReqMiss, ReqServe, ClientSend, PubWhile,
                PubTake, PubTakeNothing, Publish, BridgeThreads
  <2>2. UNCHANGED object
    BY <1>9 DEF Sigint, SigintOnWorker, ReqCrash, ReqWhile, ReqMiss, ReqServe, ClientSend, PubWhile,
                PubTake, Take, PubTakeNothing, Publish, BridgeThreads, BridgeStep, Receiving, Sending,
                RecWhile, RecReceive, RecMiss, RecAdd, SendWhile, SendTake, SendTakeNothing, Transmit,
                Arrive, bridgeVars
  <2>3. QED
    BY <2>1, <2>2 DEF Loading
<1>10. QED
  BY <1>3, <1>4, <1>5, <1>6, <1>7, <1>8, <1>9
     DEF ServerNext, ServerStep, Main, HandleRequests, PublishPackets

(* While a request is being sent main is in setup or in loop, where every    *)
(* entry of the registry points to a living bridge.                          *)
LEMMA RequestsMeetLiveBridgesStep ==
  ServerTypeOK /\ BridgeTypeOK /\ ServerInv /\ [ServerNext]_serverVars
    => RequestsMeetLiveBridges'
<1> SUFFICES ASSUME ServerTypeOK, BridgeTypeOK, ServerInv, [ServerNext]_serverVars
             PROVE  RequestsMeetLiveBridges'
  OBVIOUS
<1> USE DEF registryVars, lifeVars, reqVars, pubVars, serverVars, RestOfServer, RequestedBridge
<1>1. /\ loaded_bridges \in [BridgeIds -> Entries]
      /\ object \in [BridgeIds -> Lives]
      /\ main_thread \in MainPlaces
      /\ send_place # "none" => req_thread = "send" /\ RequestedBridge \in BridgeIds
  BY RequestType DEF ServerTypeOK, RegistryTypeOK, LifeTypeOK, BridgeTypeOK
<1>2. send_place # "none" => main_thread \in {"setup", "loop"}
  BY <1>1 DEF ServerInv, CloseInv, MainPlaces, ServerTypeOK
<1>3. send_place = "send" => object[RequestedBridge] = "alive"
  BY DEF ServerInv, RequestsMeetLiveBridges
<1>4. ASSUME ReqSend PROVE RequestsMeetLiveBridges'
  <2>1. CASE SendContains /\ send_place' = "send"
    <3>1. /\ loaded_bridges[RequestedBridge] # "absent"
          /\ object' = object /\ request' = request
      BY <2>1 DEF SendContains, bridgeVars
    <3>2. object[RequestedBridge] = "alive"
      BY <1>1, <1>2, <2>1, <3>1 DEF ServerInv, RegistryInv, SendContains
    <3>3. QED
      BY <3>1, <3>2 DEF RequestsMeetLiveBridges
  <2>2. CASE send_place' = "none"
    BY <2>2 DEF RequestsMeetLiveBridges
  <2>3. QED
    BY <1>4, <2>1, <2>2 DEF ReqSend, SendContains, SendForward
<1>5. ASSUME Setup PROVE RequestsMeetLiveBridges'
  <2>1. send_place' = send_place /\ request' = request
    BY <1>5 DEF Setup, Load, LoadCheck, LoadSkip, LoadInsert, LoadAssign
  <2>2. object' = object \/ (LoadCheck /\ object' = [object EXCEPT ![Head(to_load)] = "alive"])
    BY <1>5 DEF Setup, Load, LoadCheck, Construct, LoadSkip, LoadInsert, LoadAssign, bridgeVars
  <2>3. QED
    BY <1>1, <1>3, <2>1, <2>2 DEF RequestsMeetLiveBridges
<1>6. ASSUME Teardown PROVE RequestsMeetLiveBridges'
  <2>1. send_place = "none"
    BY <1>2, <1>6 DEF Teardown
  <2>2. send_place' = send_place
    BY <1>6 DEF Teardown, TeardownBridge, TeardownClear
  <2>3. QED
    BY <2>1, <2>2 DEF RequestsMeetLiveBridges
<1>7. ASSUME NEW c \in Clients, ReqServe(c) PROVE RequestsMeetLiveBridges'
  BY <1>7 DEF ReqServe, CallSend, RequestsMeetLiveBridges
<1>8. ASSUME \/ Start \/ LoopEnds \/ Sigint \/ SigintOnWorker \/ ReqCrash \/ ReqWhile \/ ReqMiss
             \/ Closing \/ PubWhile \/ PubTake \/ PubTakeNothing \/ Publish
             \/ \E c \in Clients : ClientSend(c)
             \/ \E b \in BridgeIds : BridgeThreads(b)
             \/ UNCHANGED serverVars
      PROVE  RequestsMeetLiveBridges'
  <2>1. UNCHANGED <<send_place, request>>
    BY <1>8 DEF Start, LoopEnds, Sigint, SigintOnWorker, ReqCrash, ReqWhile, ReqMiss, Closing,
                CloseStop, CloseQueue, CloseJoinReq, CloseJoinPub, CloseSockets, PubWhile, PubTake,
                PubTakeNothing, Publish, ClientSend, BridgeThreads
  <2>2. UNCHANGED object
    BY <1>8 DEF Start, LoopEnds, Sigint, SigintOnWorker, ReqCrash, ReqWhile, ReqMiss, Closing,
                CloseStop, CloseQueue, ClosePublish, CloseJoinReq, CloseJoinPub, CloseSockets,
                PubWhile, PubTake, Take, PubTakeNothing, Publish, ClientSend, BridgeThreads,
                BridgeStep, Receiving, Sending, RecWhile, RecReceive, RecMiss, RecAdd, SendWhile,
                SendTake, SendTakeNothing, Transmit, Arrive, bridgeVars
  <2>3. QED
    BY <1>3, <2>1, <2>2 DEF RequestsMeetLiveBridges
<1>9. QED
  BY <1>4, <1>5, <1>6, <1>7, <1>8
     DEF ServerNext, ServerStep, Main, HandleRequests, PublishPackets

(* The inductive invariant of the server.                                    *)
THEOREM ServerInvariant == ServerSpec => []ServerInv
<1>1. ServerInit => ServerInv
  <2>1. ServerInit => CloseInv
    BY DEF ServerInit, CloseInv
  <2>2. ServerInit => RegistryInv
    BY DEF ServerInit, BridgeInit, RegistryInit, RegistryInv
  <2>3. ServerInit => RequestsMeetLiveBridges
    BY DEF ServerInit, RegistryInit, RequestsMeetLiveBridges
  <2>4. QED
    BY <2>1, <2>2, <2>3 DEF ServerInv
<1>2. ServerTypeOK /\ BridgeTypeOK /\ ServerInv /\ [ServerNext]_serverVars => ServerInv'
  BY CloseInvStep, RegistryInvStep, RequestsMeetLiveBridgesStep DEF ServerInv
<1>3. QED
  BY <1>1, <1>2, ServerAndBridgeTypes, PTL DEF ServerSpec

(* No request reaches a bridge whose destruction has begun.                  *)
THEOREM RequestsSafe == ServerSpec => []RequestsMeetLiveBridges
<1>1. ServerInv => RequestsMeetLiveBridges
  BY DEF ServerInv
<1>2. QED
  BY <1>1, ServerInvariant, PTL

(* No thread uses a socket after close has closed it.                        *)
THEOREM SocketsSafe == ServerSpec => []SocketsOutliveThreads
<1>1. ServerTypeOK /\ ServerInv => SocketsOutliveThreads
  BY DEF ServerTypeOK, ServerInv, CloseInv, SocketsOutliveThreads
<1>2. QED
  BY <1>1, ServerTypeCorrect, ServerInvariant, PTL

(* When the server object dies, no thread of the server or of a bridge is    *)
(* left to use it.  That the bridges' threads have ended is DestructorJoins, *)
(* which the server inherits from its bridges.                               *)
THEOREM ExitSafe == ServerSpec => []ExitIsClean
<1>1. ServerInv /\ BridgeTypeOK /\ DestructorJoins => ExitIsClean
  BY DEF ServerInv, CloseInv, RegistryInv, BridgeTypeOK, DestructorJoins, ExitIsClean
<1>2. ServerSpec => []DestructorJoins
  BY ServerUsesBridges, DestructorSafe, PTL
<1>3. QED
  BY <1>1, <1>2, ServerInvariant, ServerAndBridgeTypes, PTL

-----------------------------------------------------------------------------
(* How the process can die.  A close that runs in the handler was called by  *)
(* a SIGINT,                                                                 *)
LEMMA HandlerRunsForSigintStep ==
  ServerTypeOK /\ ServerInv /\ HandlerRunsForSigint /\ [ServerNext]_serverVars
    => HandlerRunsForSigint'
<1> SUFFICES ASSUME ServerTypeOK, ServerInv, HandlerRunsForSigint, [ServerNext]_serverVars
             PROVE  HandlerRunsForSigint'
  OBVIOUS
<1> USE DEF registryVars, lifeVars, reqVars, pubVars, serverVars, RestOfServer, HandlerRunsForSigint,
            HandlerInstalled
<1>1. signals \in Nat
  BY ServerAssumption DEF ServerTypeOK, LifeTypeOK
<1>2. ASSUME Sigint \/ SigintOnWorker PROVE HandlerRunsForSigint'
  BY <1>1, <1>2 DEF Sigint, SigintOnWorker
<1>3. ASSUME Start \/ Setup PROVE HandlerRunsForSigint'
  <2>1. close_place = "none"
    BY <1>3 DEF Start, Setup, ServerInv, CloseInv
  <2>2. QED
    BY <1>3, <2>1 DEF Start, Setup
<1>4. ASSUME LoopEnds \/ Teardown PROVE HandlerRunsForSigint'
  BY <1>4 DEF LoopEnds, Teardown
<1>5. ASSUME Closing PROVE HandlerRunsForSigint'
  BY <1>5 DEF Closing, CloseStop, CloseQueue, CloseJoinReq, CloseJoinPub, CloseSockets
<1>6. ASSUME \/ ReqCrash \/ HandleRequests \/ PublishPackets \/ UNCHANGED serverVars
             \/ \E c \in Clients : ClientSend(c)
             \/ \E b \in BridgeIds : BridgeThreads(b)
      PROVE  UNCHANGED <<close_place, main_thread, signals>>
  BY <1>6 DEF ReqCrash, HandleRequests, ReqWhile, ReqServe, ReqMiss, ReqSend, PublishPackets,
              PubWhile, PubTake, PubTakeNothing, Publish, ClientSend, BridgeThreads
<1>7. CASE UNCHANGED <<close_place, main_thread, signals>>
  BY <1>7
<1>8. QED
  BY <1>2, <1>3, <1>4, <1>5, <1>6, <1>7 DEF ServerNext, ServerStep, Main

(* so the one a worker handles meanwhile is the second; and an entry is null *)
(* only while load_bridge is assigning it.  Nothing else ends the process.   *)
LEMMA OnlyKnownCrashesStep ==
  ServerTypeOK /\ ServerInv /\ HandlerRunsForSigint /\ OnlyKnownCrashes /\ [ServerNext]_serverVars
    => OnlyKnownCrashes'
<1> SUFFICES ASSUME ServerTypeOK, ServerInv, HandlerRunsForSigint, OnlyKnownCrashes,
                    [ServerNext]_serverVars
             PROVE  OnlyKnownCrashes'
  OBVIOUS
<1> USE DEF registryVars, lifeVars, reqVars, pubVars, serverVars, RestOfServer
<1>1. signals \in Nat /\ main_thread \in MainPlaces
  BY ServerAssumption DEF ServerTypeOK, LifeTypeOK
<1>2. ASSUME SigintOnWorker PROVE OnlyKnownCrashes'
  <2>1. signals' = signals + 1 /\ signals > 0 /\ close_place # "none" /\ close_place' = close_place
    BY <1>1, <1>2 DEF SigintOnWorker, HandlerRunsForSigint
  <2>2. signals' >= 2
    BY <1>1, <2>1
  <2>3. QED
    BY <2>1, <2>2 DEF OnlyKnownCrashes
<1>3. ASSUME ReqCrash PROVE OnlyKnownCrashes'
  <2>1. /\ send_place = "send" /\ loaded_bridges[RequestedBridge] = "null"
        /\ UNCHANGED <<send_place, request, load_place, to_load, main_thread>>
    BY <1>3 DEF ReqCrash, SendThroughNull
  <2>2. RequestedBridge \in BridgeIds
    BY <2>1, RequestType DEF ServerTypeOK
  <2>3. load_place = "assign" /\ RequestedBridge = Head(to_load)
    BY <2>1, <2>2 DEF ServerInv, RegistryInv
  <2>4. main_thread = "setup"
    BY <2>3 DEF ServerInv, RegistryInv
  <2>5. QED
    BY <2>1, <2>3, <2>4 DEF OnlyKnownCrashes, RequestedBridge
<1>4. ASSUME ~SigintOnWorker, ~ReqCrash, ~crashed PROVE OnlyKnownCrashes'
  <2>1. crashed' = crashed
    BY <1>4 DEF ServerNext, ServerStep, Main, Start, Setup, LoopEnds, Teardown, Closing, CloseStop,
                CloseQueue, CloseJoinReq, CloseJoinPub, CloseSockets, Sigint, HandleRequests, ReqWhile,
                ReqServe, ReqMiss, ReqSend, PublishPackets, PubWhile, PubTake, PubTakeNothing, Publish,
                BridgeThreads, ClientSend
  <2>2. QED
    BY <1>4, <2>1 DEF OnlyKnownCrashes
<1>5. ASSUME crashed PROVE OnlyKnownCrashes'
  <2>1. UNCHANGED <<signals, close_place, main_thread, load_place, send_place, request, to_load>>
    BY <1>5 DEF ServerNext, ServerStep, ClientSend
  <2>2. QED
    BY <1>5, <2>1 DEF OnlyKnownCrashes, RequestedBridge
<1>6. QED
  BY <1>2, <1>3, <1>4, <1>5

(* The process dies of a second SIGINT during close, or of a send that looks *)
(* a bridge up while it is being inserted, and of nothing else.              *)
THEOREM CrashesAreKnown == ServerSpec => []OnlyKnownCrashes
<1>1. ServerInit => HandlerRunsForSigint /\ OnlyKnownCrashes
  BY DEF ServerInit, HandlerRunsForSigint, OnlyKnownCrashes
<1>2. ServerTypeOK /\ ServerInv /\ HandlerRunsForSigint /\ OnlyKnownCrashes /\ [ServerNext]_serverVars
        => HandlerRunsForSigint' /\ OnlyKnownCrashes'
  BY HandlerRunsForSigintStep, OnlyKnownCrashesStep
<1>3. QED
  BY <1>1, <1>2, ServerTypeCorrect, ServerInvariant, PTL DEF ServerSpec

-----------------------------------------------------------------------------
(* What is replied to is what the bridges are given.  It takes two facts     *)
(* about setup: no packet of a patient client is about before it is over,    *)
LEMMA AwaitsSetupStep ==
  ASSUME DistinctScripts
  PROVE  ServerTypeOK /\ AwaitsSetup /\ [ServerNext]_serverVars => AwaitsSetup'
<1> SUFFICES ASSUME ServerTypeOK, AwaitsSetup, [ServerNext]_serverVars
             PROVE  AwaitsSetup'
  OBVIOUS
<1> USE DEF registryVars, lifeVars, reqVars, pubVars, serverVars, RestOfServer
<1>1. ASSUME Start \/ Setup PROVE AwaitsSetup'
  <2>1. UNCHANGED <<request, sent, acked>>
    BY <1>1 DEF Start, Setup, Load, LoadCheck, LoadSkip, LoadInsert, LoadAssign
  <2>2. main_thread \in {"start", "setup"}
    BY <1>1 DEF Start, Setup
  <2>3. QED
    BY <2>1, <2>2 DEF AwaitsSetup
<1>2. ASSUME LoopEnds \/ Teardown PROVE AwaitsSetup'
  BY <1>2 DEF LoopEnds, Teardown, AwaitsSetup
<1>3. ASSUME Closing PROVE AwaitsSetup'
  BY <1>3 DEF Closing, CloseStop, CloseQueue, CloseJoinReq, CloseJoinPub, CloseSockets, AwaitsSetup
<1>4. ASSUME NEW c \in Clients, ClientSend(c) PROVE AwaitsSetup'
  BY <1>4 DEF ClientSend, AwaitsSetup, ServerTypeOK, ClientsTypeOK
<1>5. ASSUME NEW c \in Clients, ReqServe(c) PROVE AwaitsSetup'
  <2> DEFINE packet == Script[c][sent[c]]
  <2>1. /\ request' = <<packet>> /\ sent' = sent /\ main_thread' = main_thread
        /\ acked' = [acked EXCEPT ![c] = @ + 1]
    BY <1>5 DEF ReqServe, CallSend
  <2>2. packet \in Elements(Script[c])
    <3>1. /\ sent[c] \in Nat /\ acked[c] \in Nat /\ acked[c] < sent[c]
          /\ sent[c] <= Len(Script[c]) /\ Script[c] \in Seq(Packets)
      BY <1>5, ServerAssumption DEF ServerTypeOK, ClientsTypeOK, ReqServe, Waiting
    <3>2. sent[c] \in DOMAIN Script[c]
      BY <3>1, LenProperties
    <3>3. QED
      BY <3>2 DEF Elements
  <2> HIDE DEF packet
  <2>3. Elements(request') = {packet}
    BY <2>1 DEF Elements
  <2>4. ASSUME main_thread \in {"start", "setup"}
        PROVE  c \notin Patient /\ packet \notin PatientPackets
    <3>1. c \notin Patient
      BY <1>5, <2>4 DEF AwaitsSetup, ReqServe, Waiting
    <3>2. QED
      BY <2>2, <3>1, ServerAssumption DEF DistinctScripts, PatientPackets
  <2>5. main_thread \in {"start", "setup"} => \A d \in Patient : acked'[d] = acked[d]
    BY <2>1, <2>4, ServerAssumption DEF ServerTypeOK, ClientsTypeOK
  <2>6. QED
    BY <2>1, <2>3, <2>4, <2>5 DEF AwaitsSetup
<1>6. ASSUME ReqSend PROVE AwaitsSetup'
  <2>1. /\ UNCHANGED <<main_thread, sent, acked>>
        /\ request' = request \/ request' = <<>>
    BY <1>6 DEF ReqSend, SendContains, SendForward
  <2>2. Elements(<<>>) = {}
    BY DEF Elements
  <2>3. QED
    BY <2>1, <2>2 DEF AwaitsSetup
<1>7. ASSUME \/ Sigint \/ SigintOnWorker \/ ReqCrash \/ ReqWhile \/ ReqMiss \/ PubWhile \/ PubTake
             \/ PubTakeNothing \/ Publish \/ UNCHANGED serverVars
             \/ \E b \in BridgeIds : BridgeThreads(b)
      PROVE  UNCHANGED <<main_thread, request, sent, acked>>
  BY <1>7 DEF Sigint, SigintOnWorker, ReqCrash, ReqWhile, ReqMiss, PubWhile, PubTake,
              PubTakeNothing, Publish, BridgeThreads
<1>8. CASE UNCHANGED <<main_thread, request, sent, acked>>
  BY <1>8 DEF AwaitsSetup
<1>9. QED
  BY <1>1, <1>2, <1>3, <1>4, <1>5, <1>6, <1>7, <1>8
     DEF ServerNext, ServerStep, Main, HandleRequests, PublishPackets

(* and when it is over the configured bridges that the factory knows, and no *)
(* others, are loaded.                                                       *)
LEMMA HostedLoadedStep ==
  ServerTypeOK /\ ServerInv /\ HostedLoaded /\ [ServerNext]_serverVars => HostedLoaded'
<1> SUFFICES ASSUME ServerTypeOK, ServerInv, HostedLoaded, [ServerNext]_serverVars
             PROVE  HostedLoaded'
  OBVIOUS
<1> USE DEF registryVars, lifeVars, reqVars, pubVars, serverVars, RestOfServer
<1>1. /\ loaded_bridges \in [BridgeIds -> Entries]
      /\ to_load \in Seq(BridgeIds)
      /\ load_place \in LoadPlaces
      /\ main_thread \in MainPlaces
      /\ Hosted \subseteq BridgeIds
  BY RegistryAssumption DEF ServerTypeOK, RegistryTypeOK, LifeTypeOK, Hosted
<1>2. Loading =>
        /\ Head(to_load) \in BridgeIds
        /\ Elements(to_load) = {Head(to_load)} \cup Elements(Tail(to_load))
  BY <1>1, HeadTailProperties, ElementsTail DEF Loading
<1>3. ASSUME Start PROVE HostedLoaded'
  <2>1. UNCHANGED registryVars /\ main_thread = "start" /\ main_thread' = "setup"
    BY <1>3 DEF Start
  <2>2. QED
    BY <2>1 DEF HostedLoaded
<1>4. ASSUME Setup PROVE HostedLoaded'
  <2>1. main_thread = "setup"
    BY <1>4 DEF Setup
  <2>2. CASE LoadCheck
    <3>1. /\ Head(to_load) \in Factory
          /\ UNCHANGED <<loaded_bridges, to_load, main_thread>>
      BY <1>4, <2>2 DEF Setup, LoadCheck, Loading
    <3>2. QED
      BY <3>1 DEF HostedLoaded
  <2>3. CASE LoadSkip
    <3>1. /\ Loading /\ load_place = "check"
          /\ Head(to_load) \notin Factory \/ loaded_bridges[Head(to_load)] # "absent"
          /\ to_load' = Tail(to_load)
          /\ UNCHANGED <<loaded_bridges, load_place, main_thread>>
      BY <1>4, <2>3 DEF Setup, LoadSkip, Loading
    <3>2. Head(to_load) \in Hosted => loaded_bridges[Head(to_load)] = "loaded"
      BY <1>1, <1>2, <3>1 DEF ServerInv, RegistryInv, Hosted, Entries
    <3>3. QED
      BY <1>2, <2>1, <3>1, <3>2 DEF HostedLoaded
  <2>4. CASE LoadInsert \/ LoadAssign
    <3>1. /\ Loading /\ load_place # "check" /\ UNCHANGED main_thread
          /\ \A b \in BridgeIds : b # Head(to_load) => loaded_bridges'[b] = loaded_bridges[b]
      BY <1>1, <1>4, <2>4 DEF Setup, LoadInsert, LoadAssign, Loading
    <3>2. Head(to_load) \in Hosted
      BY <1>2, <3>1 DEF HostedLoaded, Hosted
    <3>3. CASE LoadInsert
      <4>1. to_load' = to_load /\ load_place' = "assign"
        BY <3>3 DEF LoadInsert
      <4>2. loaded_bridges[Head(to_load)] = "absent"
        BY <3>3 DEF LoadInsert, ServerInv, RegistryInv
      <4>3. QED
        BY <1>1, <1>2, <2>1, <3>1, <3>2, <4>1, <4>2 DEF HostedLoaded, Entries
    <3>4. CASE LoadAssign
      <4>1. /\ to_load' = Tail(to_load) /\ load_place' = "check"
            /\ loaded_bridges'[Head(to_load)] = "loaded"
        BY <1>1, <1>2, <3>1, <3>4 DEF LoadAssign
      <4>2. QED
        BY <1>1, <1>2, <2>1, <3>1, <3>2, <4>1 DEF HostedLoaded
    <3>5. QED
      BY <2>4, <3>3, <3>4
  <2>5. CASE ~Loading /\ main_thread' = "loop" /\ UNCHANGED <<bridgeVars, registryVars>>
    <3>1. Elements(to_load) = {}
      BY <1>1, <2>5, ElementsType DEF Loading
    <3>2. QED
      BY <2>1, <2>5, <3>1 DEF HostedLoaded
  <2>6. QED
    BY <1>4, <2>2, <2>3, <2>4, <2>5 DEF Setup, Load
<1>5. ASSUME LoopEnds PROVE HostedLoaded'
  BY <1>5 DEF LoopEnds, HostedLoaded
<1>6. ASSUME Teardown PROVE HostedLoaded'
  <2>1. CASE UNCHANGED <<registryVars, main_thread>>
    BY <2>1 DEF HostedLoaded
  <2>2. CASE TeardownClear /\ main_thread' = "destroy"
    BY <1>1, <2>2 DEF TeardownClear, HostedLoaded
  <2>3. QED
    BY <1>6, <2>1, <2>2 DEF Teardown, TeardownBridge
<1>7. ASSUME Closing PROVE HostedLoaded'
  <2>1. /\ UNCHANGED registryVars
        /\ main_thread' = main_thread \/ main_thread' = "exited"
    BY <1>7 DEF Closing, CloseStop, CloseQueue, CloseJoinReq, CloseJoinPub, CloseSockets
  <2>2. QED
    BY <2>1 DEF HostedLoaded
<1>8. ASSUME \/ Sigint \/ SigintOnWorker \/ ReqCrash \/ HandleRequests \/ PublishPackets
             \/ UNCHANGED serverVars
             \/ \E c \in Clients : ClientSend(c)
             \/ \E b \in BridgeIds : BridgeThreads(b)
      PROVE  UNCHANGED <<loaded_bridges, to_load, load_place, main_thread>>
  BY <1>8 DEF Sigint, SigintOnWorker, ReqCrash, HandleRequests, ReqWhile, ReqServe, ReqMiss, ReqSend,
              SendContains, SendForward, PublishPackets, PubWhile, PubTake, PubTakeNothing, Publish,
              ClientSend, BridgeThreads
<1>9. CASE UNCHANGED <<loaded_bridges, to_load, load_place, main_thread>>
  BY <1>9 DEF HostedLoaded
<1>10. QED
  BY <1>3, <1>4, <1>5, <1>6, <1>7, <1>8, <1>9 DEF ServerNext, ServerStep, Main

(* A packet between its reply and its bridge is in request; it is dropped    *)
(* only if no bridge of its name is hosted.                                  *)
LEMMA AckedIsAcceptedStep ==
  ServerTypeOK /\ BridgeTypeOK /\ ServerInv /\ AwaitsSetup /\ HostedLoaded /\ AckedIsAccepted
    /\ [ServerNext]_serverVars => AckedIsAccepted'
<1> SUFFICES ASSUME ServerTypeOK, BridgeTypeOK, ServerInv, AwaitsSetup, HostedLoaded,
                    AckedIsAccepted, [ServerNext]_serverVars
             PROVE  AckedIsAccepted'
  OBVIOUS
<1> DEFINE mine(b) == PatientPacketsOf(b)
           given(b) == Filter(accepted[b], mine(b))
           Same == UNCHANGED <<served, accepted, request>>
<1> USE DEF registryVars, lifeVars, reqVars, pubVars, serverVars, RestOfServer
<1>1. /\ served \in Seq(Packets) /\ request \in Seq(Packets)
      /\ accepted \in [BridgeIds -> Seq(Packets)]
      /\ Len(request) = IF send_place = "none" THEN 0 ELSE 1
      /\ Hosted \subseteq BridgeIds
      /\ <<>> \in Seq(Packets)
  BY RegistryAssumption, EmptySeq
     DEF ServerTypeOK, RegistryTypeOK, WorkersTypeOK, BridgeTypeOK, SendingTypeOK, Hosted
<1>2. \A b \in Hosted : given(b) \in Seq(Packets) /\ given(b) \o <<>> = given(b)
  <2> SUFFICES ASSUME NEW b \in Hosted PROVE given(b) \in Seq(Packets) /\ given(b) \o <<>> = given(b)
    OBVIOUS
  <2>1. accepted[b] \in Seq(Packets)
    BY <1>1
  <2>2. given(b) \in Seq(Packets)
    BY <2>1, FilterType
  <2> HIDE DEF given
  <2>3. QED
    BY <2>2, ConcatEmptySeq
<1>3. \A b \in Hosted : Filter(served, mine(b)) = given(b) \o Filter(request, mine(b))
  BY <1>1 DEF AckedIsAccepted
<1>4. ASSUME NEW packet \in Packets
      PROVE  \A b \in Hosted :
               given(b) \o Filter(<<packet>>, mine(b)) =
                 IF packet \in mine(b) THEN Append(given(b), packet) ELSE given(b)
  <2> SUFFICES ASSUME NEW b \in Hosted
               PROVE  given(b) \o Filter(<<packet>>, mine(b)) =
                        IF packet \in mine(b) THEN Append(given(b), packet) ELSE given(b)
    OBVIOUS
  <2>1. Filter(<<packet>>, mine(b)) = IF packet \in mine(b) THEN <<packet>> ELSE <<>>
    BY FilterOne
  <2> HIDE DEF given, mine
  <2>2. given(b) \o <<packet>> = Append(given(b), packet)
    BY <1>2, AppendIsConcat
  <2>3. QED
    BY <1>2, <2>1, <2>2
<1>5. ASSUME NEW c \in Clients, ReqServe(c) PROVE AckedIsAccepted'
  <2> DEFINE packet == Script[c][sent[c]]
  <2>1. packet \in Packets
    BY <1>5, ScriptPacket DEF ReqServe, ServerTypeOK
  <2>2. /\ served' = Append(served, packet) /\ request' = <<packet>>
        /\ accepted' = accepted /\ send_place = "none"
    BY <1>5 DEF ReqServe, CallSend, bridgeVars, sendVars
  <2> HIDE DEF packet
  <2>3. request = <<>>
    BY <1>1, <2>2, EmptySeq
  <2>4. \A b \in Hosted : Filter(served, mine(b)) = given(b)
    BY <1>2, <1>3, <2>3, FilterEmpty
  <2>5. \A b \in Hosted : Filter(Append(served, packet), mine(b)) =
                            IF packet \in mine(b) THEN Append(given(b), packet) ELSE given(b)
    <3>1. \A A : Filter(Append(served, packet), A) =
                   IF packet \in A THEN Append(Filter(served, A), packet) ELSE Filter(served, A)
      BY <1>1, <2>1, FilterAppend
    <3> HIDE DEF given, mine
    <3>2. QED
      BY <2>4, <3>1
  <2>6. \A b \in Hosted : Filter(served', mine(b)) = given(b) \o Filter(request', mine(b))
    BY <1>4, <2>1, <2>2, <2>5
  <2>7. QED
    BY <2>2, <2>6 DEF AckedIsAccepted
<1>6. ASSUME ReqSend PROVE AckedIsAccepted'
  <2> DEFINE packet == request[1]
             name == RequestedBridge
  <2>1. packet \in Packets /\ name \in BridgeIds /\ request = <<packet>>
    <3>1. send_place # "none"
      BY <1>6 DEF ReqSend, SendContains, SendForward
    <3>2. Len(request) = 1
      BY <1>1, <3>1
    <3>3. QED
      BY <1>1, <3>1, <3>2, RequestType, ElementOfSeq DEF ServerTypeOK
  <2>2. \A b \in BridgeIds : packet \in mine(b) => b = name /\ packet \in PatientPackets
    BY <2>1 DEF PacketsOf, RequestedBridge, PatientPacketsOf
  <2>3. name \in Hosted /\ packet \in PatientPackets => loaded_bridges[name] = "loaded"
    <3>1. SUFFICES ASSUME name \in Hosted, packet \in PatientPackets
                   PROVE  loaded_bridges[name] = "loaded"
      OBVIOUS
    <3>2. packet \in Elements(request)
      BY <2>1 DEF Elements
    <3>3. main_thread \notin {"start", "setup"}
      BY <3>1, <3>2 DEF AwaitsSetup
    <3>4. req_thread = "send"
      BY <1>6 DEF ReqSend
    <3>5. main_thread = "loop"
      BY <3>3, <3>4 DEF ServerTypeOK, ServerInv, CloseInv, LifeTypeOK, MainPlaces
    <3>6. QED
      BY <3>1, <3>5 DEF HostedLoaded
  <2>4. \A b \in Hosted : Filter(served, mine(b)) =
                            IF packet \in mine(b) THEN Append(given(b), packet) ELSE given(b)
    <3> HIDE DEF packet, given, mine
    <3>1. QED
      BY <1>3, <1>4, <2>1
  <2>5. UNCHANGED served
    BY <1>6 DEF ReqSend
  <2> HIDE DEF packet, name
  <2>6. CASE UNCHANGED <<request, accepted>>
    BY <2>5, <2>6 DEF AckedIsAccepted
  <2>7. CASE /\ SendContains
             /\ request' = <<>> /\ loaded_bridges[name] # "loaded"
    <3>1. accepted' = accepted
      BY <2>7 DEF SendContains, bridgeVars, sendVars
    <3>2. \A b \in Hosted : Filter(served, mine(b)) = given(b)
      BY <1>1, <2>2, <2>3, <2>4, <2>7
    <3>3. \A b \in Hosted : Filter(served', mine(b)) = given(b) \o Filter(request', mine(b))
      BY <1>2, <2>5, <2>7, <3>2, FilterEmpty
    <3>4. QED
      BY <3>1, <3>3 DEF AckedIsAccepted
  <2>8. CASE SendForward
    <3>1. /\ accepted' = [accepted EXCEPT ![name] = Append(accepted[name], packet)]
          /\ request' = <<>>
          /\ loaded_bridges[name] = "loaded"
      BY <2>8 DEF SendForward, Send, name, packet
    <3>2. name \in Hosted
      BY <2>1, <3>1 DEF HostedLoaded
    <3>3. ASSUME NEW b \in Hosted
          PROVE  Filter(accepted'[b], mine(b)) = Filter(served, mine(b))
      <4>1. accepted[b] \in Seq(Packets)
        BY <1>1
      <4>2. Filter(Append(accepted[b], packet), mine(b)) =
              IF packet \in mine(b) THEN Append(given(b), packet) ELSE given(b)
        BY <2>1, <4>1, FilterAppend
      <4>3. CASE b = name
        <5>1. accepted'[b] = Append(accepted[b], packet)
          BY <1>1, <3>1, <4>3
        <5>2. QED
          BY <2>4, <4>2, <5>1
      <4>4. CASE b # name
        <5>1. accepted'[b] = accepted[b] /\ packet \notin mine(b)
          BY <1>1, <2>2, <3>1, <4>4
        <5>2. QED
          BY <2>4, <5>1
      <4>5. QED
        BY <4>3, <4>4
    <3>4. ASSUME NEW b \in Hosted
          PROVE  Filter(served, mine(b)) = Filter(accepted'[b], mine(b)) \o <<>>
      <4> DEFINE out == Filter(served, mine(b))
      <4>1. out \in Seq(Packets)
        BY <1>1, FilterType
      <4> HIDE DEF out
      <4>2. out \o <<>> = out
        BY <4>1, ConcatEmptySeq
      <4>3. QED
        BY <3>3, <4>2 DEF out
    <3>5. ASSUME NEW b \in BridgeIds, b \notin Hosted PROVE accepted'[b] = accepted[b]
      BY <1>1, <3>1, <3>2, <3>5
    <3>6. QED
      BY <2>5, <3>1, <3>4, <3>5, FilterEmpty DEF AckedIsAccepted
  <2>9. QED
    BY <1>6, <2>6, <2>7, <2>8 DEF ReqSend, SendContains, bridgeVars, sendVars, name
<1>7. ASSUME Setup PROVE Same
  BY <1>7 DEF Setup, Load, LoadCheck, Construct, LoadSkip, LoadInsert, LoadAssign, bridgeVars, sendVars
<1>8. ASSUME Teardown PROVE Same
  BY <1>8 DEF Teardown, TeardownBridge, DestroyClose, DestroyJoinRec, DestroyJoinSend, TeardownClear,
              bridgeVars, sendVars
<1>9. ASSUME NEW b \in BridgeIds, BridgeThreads(b) PROVE Same
  BY <1>9 DEF BridgeThreads, BridgeStep, Receiving, Sending, RecWhile, RecReceive, RecMiss, RecAdd,
              SendWhile, SendTake, SendTakeNothing, Transmit, Arrive, sendVars
<1>10. ASSUME \/ Start \/ LoopEnds \/ Closing \/ ReqWhile \/ ReqMiss
      PROVE  Same
  BY <1>10 DEF Start, LoopEnds, ReqWhile, ReqMiss, Closing, CloseStop, CloseQueue, ClosePublish,
               CloseJoinReq, CloseJoinPub, CloseSockets, bridgeVars, sendVars
<1>11. ASSUME \/ Sigint \/ SigintOnWorker \/ ReqCrash \/ PublishPackets \/ UNCHANGED serverVars
              \/ \E c \in Clients : ClientSend(c)
      PROVE  Same
  BY <1>11 DEF Sigint, SigintOnWorker, ReqCrash, PublishPackets, PubWhile, PubTake, Take,
               PubTakeNothing, Publish, ClientSend, bridgeVars, sendVars
<1>12. CASE Same
  BY <1>12 DEF AckedIsAccepted
<1>13. QED
  <2>1. ASSUME Main PROVE AckedIsAccepted' \/ Same
    BY <1>7, <1>8, <1>10, <2>1 DEF Main
  <2>2. ASSUME HandleRequests PROVE AckedIsAccepted' \/ Same
    BY <1>5, <1>6, <1>10, <2>2 DEF HandleRequests
  <2>3. ASSUME ~Main, ~HandleRequests PROVE AckedIsAccepted' \/ Same
    BY <1>9, <1>11, <2>3 DEF ServerNext, ServerStep
  <2>4. QED
    BY <1>12, <2>1, <2>2, <2>3

(* Of the clients that wait for setup, what was acknowledged was accepted. *)
LEMMA AckedInvariant ==
  ASSUME DistinctScripts
  PROVE  ServerSpec => [](AwaitsSetup /\ HostedLoaded /\ AckedIsAccepted)
<1>1. ServerInit => AwaitsSetup /\ HostedLoaded /\ AckedIsAccepted
  <2> SUFFICES ASSUME ServerInit PROVE AwaitsSetup /\ HostedLoaded /\ AckedIsAccepted
    OBVIOUS
  <2>1. AwaitsSetup
    BY ServerAssumption DEF ServerInit, RegistryInit, AwaitsSetup, Elements
  <2>2. HostedLoaded
    BY RegistryAssumption DEF ServerInit, RegistryInit, HostedLoaded, Hosted
  <2>3. AckedIsAccepted
    <3>1. /\ served = <<>> /\ request = <<>>
          /\ \A b \in BridgeIds : accepted[b] = <<>>
          /\ Hosted \subseteq BridgeIds
      BY RegistryAssumption DEF ServerInit, BridgeInit, RegistryInit, Hosted
    <3>2. <<>> \o <<>> = <<>>
      BY EmptySeq, ConcatEmptySeq
    <3>3. QED
      BY <3>1, <3>2, FilterEmpty DEF AckedIsAccepted
  <2>4. QED
    BY <2>1, <2>2, <2>3
<1>2. ServerTypeOK /\ AwaitsSetup /\ [ServerNext]_serverVars => AwaitsSetup'
  BY AwaitsSetupStep
<1>3. QED
  BY <1>1, <1>2, HostedLoadedStep, AckedIsAcceptedStep, ServerAndBridgeTypes, ServerInvariant, PTL
     DEF ServerSpec

(* A packet of a client that waits for setup, once replied to, is given to   *)
(* the bridge it names, in the order of the replies.                         *)
THEOREM AckedReachesBridge ==
  ASSUME DistinctScripts
  PROVE  ServerSpec => []AckedIsAccepted
BY AckedInvariant, PTL

-----------------------------------------------------------------------------
(* From the clients to the devices.                                          *)

(* The next packet of a path is the next one of its bridge, if it is of that *)
(* path: what is handed over, in hand and waiting, filtered, is a pipeline,  *)
LEMMA FilterPipeline ==
  ASSUME NEW S, NEW s \in Seq(S), NEW t \in Seq(S), NEW u \in Seq(S), NEW A
  PROVE  Filter(Pipeline(s, t, u), A) = Pipeline(Filter(s, A), Filter(t, A), Filter(u, A))
<1> DEFINE tu == t \o u
<1>1. tu \in Seq(S)
  BY ConcatProperties
<1>2. Filter(tu, A) = Filter(t, A) \o Filter(u, A)
  BY FilterConcat
<1> HIDE DEF tu
<1>3. Filter(s \o tu, A) = Filter(s, A) \o Filter(tu, A)
  BY <1>1, FilterConcat
<1> QED BY <1>2, <1>3 DEF Pipeline, tu

(* The packet in hand is the next one of its path, when only some are *)
(* looked at.                                                         *)
LEMMA HandIsNextOfPath ==
  ASSUME NEW S, NEW over \in Seq(S), NEW e \in S, NEW rest \in Seq(S), NEW A, e \in A
  PROVE  /\ Filter(Pipeline(over, <<e>>, rest), A) \in Seq(S)
         /\ Follows(Filter(over, A), e, Filter(Pipeline(over, <<e>>, rest), A))
<1> DEFINE one == <<e>>
           out == Filter(over, A)
           waiting == Filter(rest, A)
<1>1. one \in Seq(S) /\ Filter(one, A) = one
  <2>1. Filter(<<e>>, A) = IF e \in A THEN <<e>> ELSE <<>>
    BY FilterOne
  <2>2. QED
    BY <2>1
<1>2. out \in Seq(S)
  BY FilterType
<1>3. waiting \in Seq(S)
  BY FilterType
<1> HIDE DEF one
<1>4. Filter(Pipeline(over, one, rest), A) = Pipeline(out, one, waiting)
  BY <1>1, FilterPipeline
<1> HIDE DEF out, waiting
<1>5. Follows(out, e, Pipeline(out, <<e>>, waiting))
  BY <1>2, <1>3, FollowsFirst DEF Pipeline
<1>6. Pipeline(out, one, waiting) \in Seq(S)
  BY <1>1, <1>2, <1>3, PipelineType
<1> QED BY <1>4, <1>5, <1>6 DEF out, one

(* The packets of a path are those of its client that name its bridge. *)
LEMMA OnPath ==
  ASSUME NEW c \in Patient, NEW b \in BridgeIds
  PROVE  PacketsOn[<<c, b>>] = Elements(Script[c]) \cap PacketsOf(b)
<1>1. <<c, b>> \in Patient \X BridgeIds
  OBVIOUS
<1>2. QED
  BY <1>1 DEF PacketsOn

(* A reply accepts its packet on the path from the client to the bridge the  *)
(* packet names, if it is one of the paths, and on no other one.             *)
LEMMA ReplyAccepts ==
  ASSUME DistinctScripts, ServerTypeOK, NEW c \in Clients, ReqServe(c), UNCHANGED device_tx
  PROVE  ClientsToDevices!Next \/ UNCHANGED ClientsToDevices!relayVars
<1> DEFINE e == Script[c][sent[c]]
           on(d, b) == PacketsOn[<<d, b>>]
<1>1. /\ e \in Packets
      /\ e \in Elements(Script[c])
  <2>1. e \in Packets
    BY ScriptPacket DEF ReqServe, ServerTypeOK
  <2>2. sent[c] \in DOMAIN Script[c]
    <3>1. /\ sent[c] \in Nat /\ acked[c] \in Nat /\ acked[c] < sent[c]
          /\ sent[c] <= Len(Script[c]) /\ Script[c] \in Seq(Packets)
      BY ServerAssumption DEF ServerTypeOK, ClientsTypeOK, ReqServe, Waiting
    <3>2. QED
      BY <3>1, LenProperties
  <2>3. QED
    BY <2>1, <2>2 DEF Elements
<1>2. served \in Seq(Packets) /\ served' = Append(served, e)
  BY DEF ServerTypeOK, WorkersTypeOK, ReqServe
<1>3. Hosted \subseteq BridgeIds /\ Patient \subseteq Clients
  BY RegistryAssumption, ServerAssumption DEF Hosted
<1> HIDE DEF e
<1>4. \A d \in Patient, b \in Hosted : e \in on(d, b) <=> d = c /\ b = BridgeOf[e]
  BY <1>1, <1>3, OnPath DEF DistinctScripts, PacketsOf
<1>5. \A path \in Patient \X Hosted :
        Filter(served', PacketsOn[path]) =
          IF path = <<c, BridgeOf[e]>> THEN Append(Filter(served, PacketsOn[path]), e)
                                       ELSE Filter(served, PacketsOn[path])
  <2>1. \A path \in Patient \X Hosted : e \in PacketsOn[path] <=> path = <<c, BridgeOf[e]>>
    BY <1>4
  <2>2. \A A : Filter(Append(served, e), A) =
                 IF e \in A THEN Append(Filter(served, A), e) ELSE Filter(served, A)
    BY <1>1, <1>2, FilterAppend
  <2>3. QED
    BY <1>2, <2>1, <2>2
<1>6. CASE c \in Patient /\ BridgeOf[e] \in Hosted
  <2>1. <<c, BridgeOf[e]>> \in Patient \X Hosted
    BY <1>6
  <2>2. ClientsToDevices!Accept(<<c, BridgeOf[e]>>)
    BY <1>1, <1>5, <2>1 DEF ClientsToDevices!Accept
  <2>3. QED
    BY <2>1, <2>2 DEF ClientsToDevices!Next
<1>7. CASE ~(c \in Patient /\ BridgeOf[e] \in Hosted)
  BY <1>5, <1>7 DEF ClientsToDevices!relayVars
<1>8. QED
  BY <1>6, <1>7

(* A packet that is transmitted is delivered on the path of the client that  *)
(* sent it, where it is the next one.                                        *)
LEMMA TransmitDelivers ==
  ASSUME DistinctScripts, ServerTypeOK, BridgeTypeOK, SendConservation, AckedIsAccepted,
         NEW b \in BridgeIds, Transmit(b), UNCHANGED served
  PROVE  ClientsToDevices!Next \/ UNCHANGED ClientsToDevices!relayVars
<1> DEFINE e == send_packet[b][1]
           hand == send_packet[b]
           over == device_tx[b]
           rest == sending_queue[b].items
<1>1. /\ hand \in Seq(Packets) /\ Len(hand) = 1
      /\ over \in Seq(Packets) /\ rest \in Seq(Packets)
      /\ device_tx \in [BridgeIds -> Seq(Packets)]
      /\ served \in Seq(Packets) /\ request \in Seq(Packets)
  BY DEF Transmit, ServerTypeOK, RegistryTypeOK, WorkersTypeOK, BridgeTypeOK, SendingTypeOK,
         DeviceTypeOK, QueueOf
<1>2. e \in Packets /\ hand = <<e>>
  BY <1>1, ElementOfSeq
<1>3. device_tx' = [device_tx EXCEPT ![b] = over \o hand] /\ over \o hand = Append(over, e)
  BY <1>1, <1>2, AppendIsConcat DEF Transmit
<1>4. accepted[b] = Pipeline(over, hand, rest)
  BY DEF SendConservation
<1>5. Hosted \subseteq BridgeIds /\ Patient \subseteq Clients
  BY RegistryAssumption, ServerAssumption DEF Hosted
<1> HIDE DEF e, hand, over, rest
<1>6. \A A : Filter(device_tx'[b], A) = IF e \in A THEN Append(Filter(over, A), e) ELSE Filter(over, A)
  <2>1. device_tx'[b] = Append(over, e)
    BY <1>1, <1>3
  <2>2. QED
    BY <1>1, <1>2, <2>1, FilterAppend
<1>7. \A d \in BridgeIds : d # b => device_tx'[d] = device_tx[d]
  BY <1>1, <1>3
<1>8. CASE \E c \in Patient : b \in Hosted /\ e \in PacketsOn[<<c, b>>]
  <2>1. PICK c \in Patient : b \in Hosted /\ e \in PacketsOn[<<c, b>>]
    BY <1>8
  <2> DEFINE path == <<c, b>>
             on == PacketsOn[path]
             mine == PatientPacketsOf(b)
             given == Pipeline(over, <<e>>, rest)
  <2>2. path \in Patient \X Hosted /\ e \in on /\ on \subseteq mine
    <3>1. on = Elements(Script[c]) \cap PacketsOf(b)
      BY <2>1, <1>5, OnPath
    <3>2. Elements(Script[c]) \subseteq PatientPackets
      BY <2>1 DEF PatientPackets
    <3>3. QED
      BY <2>1, <3>1, <3>2 DEF PatientPacketsOf
  <2>3. \A d \in Patient : e \in PacketsOn[<<d, b>>] => d = c
    BY <1>5, <2>1, OnPath DEF DistinctScripts
  <2>4. given = accepted[b] /\ given \in Seq(Packets)
    BY <1>2, <1>4 DEF BridgeTypeOK, SendingTypeOK
  <2> HIDE DEF on, mine, given
  <2>5. Filter(served, on) = Filter(given, on) \o Filter(request, on)
    <3>1. Filter(served, mine) = Filter(given, mine) \o Filter(request, mine)
      BY <2>1, <2>4 DEF AckedIsAccepted, mine
    <3> DEFINE all == served
               first == Filter(given, mine)
               end == Filter(request, mine)
    <3>2. first \in Seq(Packets) /\ end \in Seq(Packets) /\ all \in Seq(Packets)
      BY <1>1, <2>4, FilterType
    <3>3. /\ Filter(all, on) = Filter(Filter(all, mine), on)
          /\ Filter(first, on) = Filter(given, on)
          /\ Filter(end, on) = Filter(request, on)
      BY <1>1, <2>2, <2>4, FilterWithin
    <3>4. Filter(all, mine) = first \o end
      BY <3>1
    <3> HIDE DEF all, first, end
    <3>5. Filter(first \o end, on) = Filter(first, on) \o Filter(end, on)
      BY <3>2, FilterConcat
    <3>6. QED
      BY <3>3, <3>4, <3>5 DEF all
  <2>6. Follows(Filter(over, on), e, Filter(served, on))
    <3> DEFINE out == Filter(over, on)
               first == Filter(given, on)
               end == Filter(request, on)
    <3>1. out \in Seq(Packets) /\ first \in Seq(Packets) /\ end \in Seq(Packets)
      BY <1>1, <2>4, FilterType
    <3>2. Follows(out, e, first)
      <4>1. over \in Seq(Packets) /\ rest \in Seq(Packets) /\ e \in Packets /\ e \in on
        BY <1>1, <1>2, <2>2
      <4>2. QED
        BY <4>1, HandIsNextOfPath DEF given
    <3> HIDE DEF out, first, end
    <3>3. Follows(out, e, first \o end)
      BY <3>1, <3>2, FollowsLonger
    <3>4. QED
      BY <2>5, <3>3 DEF out, first, end
  <2>7. \A p \in Patient \X Hosted :
          Filter(device_tx'[p[2]], PacketsOn[p]) =
            IF p = path THEN Append(Filter(device_tx[p[2]], PacketsOn[p]), e)
                        ELSE Filter(device_tx[p[2]], PacketsOn[p])
    <3> SUFFICES ASSUME NEW d \in Patient, NEW h \in Hosted
                 PROVE  Filter(device_tx'[h], PacketsOn[<<d, h>>]) =
                          IF d = c /\ h = b THEN Append(Filter(device_tx[h], PacketsOn[<<d, h>>]), e)
                                            ELSE Filter(device_tx[h], PacketsOn[<<d, h>>])
      OBVIOUS
    <3>1. CASE h = b
      BY <1>6, <2>2, <2>3, <3>1 DEF over, on
    <3>2. CASE h # b
      BY <1>5, <1>7, <3>2
    <3>3. QED
      BY <3>1, <3>2
  <2>8. ClientsToDevices!Deliver(path)
    <3>1. path[2] = b /\ device_tx[path[2]] = over
      BY DEF over
    <3> HIDE DEF path, on
    <3>2. QED
      BY <2>2, <2>6, <2>7, <3>1 DEF ClientsToDevices!Deliver, on, Follows
  <2>9. QED
    BY <2>2, <2>8 DEF ClientsToDevices!Next
<1>9. CASE \A c \in Patient : b \in Hosted => e \notin PacketsOn[<<c, b>>]
  <2>1. \A p \in Patient \X Hosted :
          Filter(device_tx'[p[2]], PacketsOn[p]) = Filter(device_tx[p[2]], PacketsOn[p])
    <3> SUFFICES ASSUME NEW d \in Patient, NEW h \in Hosted
                 PROVE  Filter(device_tx'[h], PacketsOn[<<d, h>>]) = Filter(device_tx[h], PacketsOn[<<d, h>>])
      OBVIOUS
    <3>1. CASE h = b
      BY <1>6, <1>9, <3>1 DEF over
    <3>2. CASE h # b
      BY <1>5, <1>7, <3>2
    <3>3. QED
      BY <3>1, <3>2
  <2>2. QED
    BY <2>1 DEF ClientsToDevices!relayVars
<1>10. QED
  BY <1>8, <1>9

(* Every step is a step of the relay from clients to devices, or a stutter. *)
LEMMA ClientsRelayStep ==
  ASSUME DistinctScripts
  PROVE  ServerTypeOK /\ BridgeTypeOK /\ SendConservation /\ AckedIsAccepted
           /\ [ServerNext]_serverVars => [ClientsToDevices!Next]_(ClientsToDevices!relayVars)
<1> SUFFICES ASSUME ServerTypeOK, BridgeTypeOK, SendConservation, AckedIsAccepted,
                    [ServerNext]_serverVars
             PROVE  ClientsToDevices!Next \/ UNCHANGED ClientsToDevices!relayVars
  OBVIOUS
<1> USE DEF registryVars, lifeVars, reqVars, pubVars, serverVars, RestOfServer
<1>1. ASSUME NEW c \in Clients, ReqServe(c)
      PROVE  ClientsToDevices!Next \/ UNCHANGED ClientsToDevices!relayVars
  <2>1. UNCHANGED device_tx
    BY <1>1 DEF ReqServe, bridgeVars, deviceVars
  <2>2. QED
    BY <1>1, <2>1, ReplyAccepts
<1>2. ASSUME NEW b \in BridgeIds, BridgeThreads(b), Transmit(b)
      PROVE  ClientsToDevices!Next \/ UNCHANGED ClientsToDevices!relayVars
  <2>1. UNCHANGED served
    BY <1>2 DEF BridgeThreads
  <2>2. QED
    BY <1>2, <2>1, TransmitDelivers
<1>3. ASSUME NEW b \in BridgeIds, BridgeThreads(b), ~Transmit(b) PROVE UNCHANGED <<served, device_tx>>
  BY <1>3 DEF BridgeThreads, BridgeStep, Receiving, Sending, RecWhile, RecReceive, RecMiss, RecAdd,
              SendWhile, SendTake, SendTakeNothing, Arrive, deviceVars
<1>4. ASSUME Setup \/ ReqSend PROVE UNCHANGED <<served, device_tx>>
  BY <1>4 DEF Setup, Load, LoadCheck, Construct, LoadSkip, LoadInsert, LoadAssign, ReqSend,
              SendContains, SendForward, Send, bridgeVars, deviceVars
<1>5. ASSUME Teardown PROVE UNCHANGED <<served, device_tx>>
  BY <1>5 DEF Teardown, TeardownBridge, DestroyClose, DestroyJoinRec, DestroyJoinSend, TeardownClear,
              bridgeVars, deviceVars
<1>6. ASSUME \/ Start \/ LoopEnds \/ Sigint \/ SigintOnWorker \/ ReqCrash \/ ReqWhile \/ ReqMiss
             \/ Closing \/ PublishPackets
             \/ \E c \in Clients : ClientSend(c)
             \/ UNCHANGED serverVars
      PROVE  UNCHANGED <<served, device_tx>>
  BY <1>6 DEF Start, LoopEnds, Sigint, SigintOnWorker, ReqCrash, ReqWhile, ReqMiss, Closing,
              CloseStop, CloseQueue, ClosePublish, CloseJoinReq, CloseJoinPub, CloseSockets,
              PublishPackets, PubWhile, PubTake, Take, PubTakeNothing, Publish, ClientSend,
              bridgeVars, deviceVars
<1>7. CASE UNCHANGED <<served, device_tx>>
  BY <1>7 DEF ClientsToDevices!relayVars
<1>8. QED
  BY <1>1, <1>2, <1>3, <1>4, <1>5, <1>6, <1>7
     DEF ServerNext, ServerStep, Main, HandleRequests

(* The way from each client that waits for setup to each device is a relay:  *)
(* the device is given, in order, a prefix of what the client was told "ok"  *)
(* for.                                                                      *)
THEOREM ServerRefinesRelay ==
  ASSUME DistinctScripts
  PROVE  ServerSpec => TransmitsInOrder
<1>1. ServerInit => ClientsToDevices!Init
  <2> SUFFICES ASSUME ServerInit PROVE ClientsToDevices!Init
    OBVIOUS
  <2>1. served = <<>> /\ \A b \in BridgeIds : device_tx[b] = <<>>
    BY DEF ServerInit, BridgeInit
  <2>2. \A path \in Patient \X Hosted : path[2] \in BridgeIds
    BY RegistryAssumption DEF Hosted
  <2>3. QED
    BY <2>1, <2>2, FilterEmpty DEF ClientsToDevices!Init
<1>2. ServerTypeOK /\ BridgeTypeOK /\ SendConservation /\ AckedIsAccepted /\ [ServerNext]_serverVars
        => [ClientsToDevices!Next]_(ClientsToDevices!relayVars)
  BY ClientsRelayStep
<1>3. ServerSpec => []SendConservation
  BY ServerUsesBridges, SendConserves, PTL
<1>4. ServerSpec => []AckedIsAccepted
  BY AckedReachesBridge
<1>5. QED
  BY <1>1, <1>2, <1>3, <1>4, ServerAndBridgeTypes, PTL
     DEF ServerSpec, TransmitsInOrder, ClientsToDevices!Spec

-----------------------------------------------------------------------------
(* From the devices to the publisher.                                        *)

(* What the publisher took and has a topic was published or is in its hand.  *)
PublisherHasTopics == Filter(taken, Known) = published \o Filter(pub_packet, Known)

LEMMA PublisherHasTopicsStep ==
  ServerTypeOK /\ BridgeTypeOK /\ PublisherHasTopics /\ [ServerNext]_serverVars
    => PublisherHasTopics'
<1> SUFFICES ASSUME ServerTypeOK, BridgeTypeOK, PublisherHasTopics, [ServerNext]_serverVars
             PROVE  PublisherHasTopics'
  OBVIOUS
<1> USE DEF registryVars, lifeVars, reqVars, pubVars, serverVars, RestOfServer
<1>1. /\ taken \in Seq(Packets) /\ published \in Seq(Packets) /\ pub_packet \in Seq(Packets)
      /\ Len(pub_packet) = IF pub_thread = "publish" THEN 1 ELSE 0
      /\ published \o <<>> = published
  BY ConcatEmptySeq DEF ServerTypeOK, WorkersTypeOK, BridgeTypeOK, PublishTypeOK
<1>2. ASSUME PubTake PROVE PublisherHasTopics'
  <2> DEFINE packet == First(publish_queue)
  <2>1. packet \in Packets
    BY <1>2, TakeKeepsQueue DEF PubTake, Take, BridgeTypeOK, PublishTypeOK
  <2>2. /\ taken' = Append(taken, packet) /\ pub_packet' = <<packet>> /\ published' = published
        /\ pub_packet = <<>>
    BY <1>1, <1>2, EmptySeq DEF PubTake, Take
  <2> HIDE DEF packet
  <2>3. Filter(taken, Known) = published
    BY <1>1, <2>2, FilterEmpty DEF PublisherHasTopics
  <2>4. Filter(Append(taken, packet), Known) =
          IF packet \in Known THEN Append(published, packet) ELSE published
    BY <1>1, <2>1, <2>3, FilterAppend
  <2>5. Filter(<<packet>>, Known) = IF packet \in Known THEN <<packet>> ELSE <<>>
    BY <2>1, FilterOne
  <2>6. published \o <<packet>> = Append(published, packet)
    BY <1>1, <2>1, AppendIsConcat
  <2>7. QED
    BY <1>1, <2>2, <2>4, <2>5, <2>6 DEF PublisherHasTopics
<1>3. ASSUME Publish PROVE PublisherHasTopics'
  <2> DEFINE packet == pub_packet[1]
  <2>1. packet \in Packets /\ pub_packet = <<packet>>
    <3> DEFINE hand == pub_packet
    <3>1. hand \in Seq(Packets) /\ Len(hand) = 1
      BY <1>1, <1>3 DEF Publish
    <3> HIDE DEF hand
    <3>2. hand[1] \in Packets /\ hand = <<hand[1]>>
      BY <3>1, ElementOfSeq
    <3>3. QED
      BY <3>2 DEF hand
  <2>2. /\ published' = IF packet \in Known THEN published \o <<packet>> ELSE published
        /\ pub_packet' = <<>> /\ taken' = taken
    BY <1>3, <2>1 DEF Publish, bridgeVars, queueVars
  <2> HIDE DEF packet
  <2>3. Filter(<<packet>>, Known) = IF packet \in Known THEN <<packet>> ELSE <<>>
    BY <2>1, FilterOne
  <2>4. Filter(taken, Known) = published'
    BY <1>1, <2>1, <2>2, <2>3 DEF PublisherHasTopics
  <2>5. published' \o <<>> = published'
    <3>1. <<packet>> \in Seq(Packets)
      BY <2>1
    <3> DEFINE longer == published \o <<packet>>
    <3>2. longer \in Seq(Packets)
      BY <1>1, <3>1, ConcatProperties
    <3> HIDE DEF longer
    <3>3. longer \o <<>> = longer
      BY <3>2, ConcatEmptySeq
    <3>4. QED
      BY <1>1, <2>2, <3>3 DEF longer
  <2>6. QED
    BY <2>2, <2>4, <2>5, FilterEmpty DEF PublisherHasTopics
<1>4. ASSUME Setup \/ ReqSend PROVE UNCHANGED <<taken, published, pub_packet>>
  BY <1>4 DEF Setup, Load, LoadCheck, Construct, LoadSkip, LoadInsert, LoadAssign, ReqSend,
              SendContains, SendForward, Send, bridgeVars, queueVars
<1>5. ASSUME Teardown PROVE UNCHANGED <<taken, published, pub_packet>>
  BY <1>5 DEF Teardown, TeardownBridge, DestroyClose, DestroyJoinRec, DestroyJoinSend, TeardownClear,
              bridgeVars, queueVars
<1>6. ASSUME NEW b \in BridgeIds, BridgeThreads(b) PROVE UNCHANGED <<taken, published, pub_packet>>
  BY <1>6 DEF BridgeThreads, BridgeStep, Receiving, Sending, RecWhile, RecReceive, RecMiss, RecAdd,
              SendWhile, SendTake, SendTakeNothing, Transmit, Arrive, queueVars
<1>7. ASSUME \/ Start \/ LoopEnds \/ Sigint \/ SigintOnWorker \/ ReqCrash \/ ReqWhile \/ ReqMiss
             \/ Closing \/ PubWhile \/ PubTakeNothing
             \/ \E c \in Clients : ReqServe(c) \/ ClientSend(c)
             \/ UNCHANGED serverVars
      PROVE  UNCHANGED <<taken, published, pub_packet>>
  BY <1>7 DEF Start, LoopEnds, Sigint, SigintOnWorker, ReqCrash, ReqWhile, ReqMiss, Closing,
              CloseStop, CloseQueue, ClosePublish, CloseJoinReq, CloseJoinPub, CloseSockets,
              PubWhile, PubTakeNothing, ReqServe, ClientSend, bridgeVars, queueVars
<1>8. CASE UNCHANGED <<taken, published, pub_packet>>
  BY <1>8 DEF PublisherHasTopics
<1>9. QED
  BY <1>2, <1>3, <1>4, <1>5, <1>6, <1>7, <1>8
     DEF ServerNext, ServerStep, Main, HandleRequests, PublishPackets

(* A packet that reaches a device is accepted by the path of its bridge, if  *)
(* it has a topic.                                                           *)
LEMMA ArrivalAccepts ==
  ASSUME BridgeTypeOK, NEW b \in BridgeIds, NEW packet \in Packets,
         arrived' = [arrived EXCEPT ![b] = Append(@, packet)], UNCHANGED published
  PROVE  DevicesToPublisher!Next \/ UNCHANGED DevicesToPublisher!relayVars
<1>1. arrived \in [BridgeIds -> Seq(Packets)]
  BY DEF BridgeTypeOK, DeviceTypeOK
<1>2. \A c \in BridgeIds :
        Filter(arrived'[c], Known) = IF c = b /\ packet \in Known THEN Append(Filter(arrived[c], Known), packet)
                                                                ELSE Filter(arrived[c], Known)
  <2>1. ASSUME NEW c \in BridgeIds, c = b
        PROVE  Filter(arrived'[c], Known) =
                 IF packet \in Known THEN Append(Filter(arrived[c], Known), packet) ELSE Filter(arrived[c], Known)
    <3> DEFINE all == arrived[b]
    <3>1. all \in Seq(Packets) /\ arrived'[b] = Append(all, packet)
      BY <1>1
    <3> HIDE DEF all
    <3>2. Filter(Append(all, packet), Known) = IF packet \in Known THEN Append(Filter(all, Known), packet)
                                                                  ELSE Filter(all, Known)
      BY <3>1, FilterAppend
    <3>3. QED
      BY <2>1, <3>1, <3>2 DEF all
  <2>2. \A c \in BridgeIds : c # b => arrived'[c] = arrived[c]
    BY <1>1
  <2>3. QED
    BY <2>1, <2>2
<1>3. CASE packet \in Known
  <2>1. DevicesToPublisher!Accept(b)
    BY <1>2, <1>3 DEF DevicesToPublisher!Accept
  <2>2. QED
    BY <2>1 DEF DevicesToPublisher!Next
<1>4. CASE packet \notin Known
  BY <1>2, <1>4 DEF DevicesToPublisher!relayVars
<1>5. QED
  BY <1>3, <1>4

(* A packet that is published is the next one of its bridge. *)
LEMMA PublishDelivers ==
  ASSUME ServerTypeOK, BridgeTypeOK, PerBridgeOrder, PublisherHasTopics, Publish, UNCHANGED arrived
  PROVE  DevicesToPublisher!Next \/ UNCHANGED DevicesToPublisher!relayVars
<1> DEFINE e == pub_packet[1]
           b == BridgeOf[e]
           own == PacketsOf(b)
           out == Filter(published, own)
<1>1. /\ taken \in Seq(Packets) /\ published \in Seq(Packets) /\ pub_packet \in Seq(Packets)
      /\ Len(pub_packet) = 1
      /\ arrived \in [BridgeIds -> Seq(Packets)]
  BY DEF Publish, ServerTypeOK, WorkersTypeOK, BridgeTypeOK, PublishTypeOK, DeviceTypeOK
<1>2. e \in Packets /\ pub_packet = <<e>>
  <2> DEFINE hand == pub_packet
  <2>1. hand \in Seq(Packets) /\ Len(hand) = 1
    BY <1>1
  <2> HIDE DEF hand
  <2>2. hand[1] \in Packets /\ hand = <<hand[1]>>
    BY <2>1, ElementOfSeq
  <2>3. QED
    BY <2>2 DEF hand
<1>3. b \in BridgeIds /\ \A c \in BridgeIds : e \in PacketsOf(c) <=> c = b
  BY <1>2, BridgeAssumption DEF PacketsOf
<1>4. published' = IF e \in Known THEN published \o <<e>> ELSE published
  BY <1>2 DEF Publish
<1> HIDE DEF e, b, own, out
<1>5. CASE e \in Known
  <2> DEFINE mine == Filter(taken, own)
             in == Filter(arrived[b], Known)
             rest == SubSeq(arrived[b], Len(mine) + 1, Len(arrived[b]))
             first == Filter(mine, Known)
             last == Filter(rest, Known)
  <2>1. published' = Append(published, e)
    BY <1>1, <1>2, <1>4, <1>5, AppendIsConcat
  <2>2. \A A : Filter(published', A) = IF e \in A THEN Append(Filter(published, A), e) ELSE Filter(published, A)
    BY <1>1, <1>2, <2>1, FilterAppend
  <2>3. first = Append(out, e)
    <3>1. Filter(Filter(taken, own), Known) = Filter(taken, own \cap Known)
      BY <1>1, FilterTwice
    <3>2. Filter(Filter(taken, Known), own) = Filter(taken, Known \cap own)
      BY <1>1, FilterTwice
    <3>3. Filter(taken, Known) = published'
      <4>1. Filter(<<e>>, Known) = <<e>>
        <5>1. Filter(<<e>>, Known) = IF e \in Known THEN <<e>> ELSE <<>>
          BY <1>2, FilterOne
        <5>2. QED
          BY <1>5, <5>1
      <4>2. QED
        BY <1>2, <1>4, <1>5, <4>1 DEF PublisherHasTopics
    <3>4. own \cap Known = Known \cap own
      OBVIOUS
    <3>5. e \in own
      BY <1>3 DEF own
    <3>6. QED
      BY <2>2, <3>1, <3>2, <3>3, <3>4, <3>5 DEF out
  <2>4. /\ mine \in Seq(Packets) /\ rest \in Seq(Packets)
        /\ arrived[b] = mine \o rest
    <3>1. mine \in Seq(Packets) /\ arrived[b] \in Seq(Packets)
      BY <1>1, <1>3, FilterType
    <3>2. Len(mine) <= Len(arrived[b]) /\ mine = SubSeq(arrived[b], 1, Len(mine))
      BY <1>3 DEF PerBridgeOrder, own
    <3> DEFINE n == Len(mine)
               all == arrived[b]
    <3>3. n \in 0 .. Len(all)
      BY <3>1, <3>2, LenProperties
    <3>4. all \in Seq(Packets)
      BY <3>1
    <3> HIDE DEF n, all
    <3>5. SubSeq(all, n + 1, Len(all)) \in Seq(Packets) /\ all = SubSeq(all, 1, n) \o SubSeq(all, n + 1, Len(all))
      BY <3>3, <3>4, SplitSeq
    <3>6. QED
      BY <3>1, <3>2, <3>5 DEF n, all
  <2> HIDE DEF mine, rest
  <2>5. in = first \o last
    BY <2>4, FilterConcat
  <2>6. out \in Seq(Packets) /\ last \in Seq(Packets) /\ first \in Seq(Packets)
    BY <1>1, <2>4, FilterType DEF out
  <2> HIDE DEF in, first, last
  <2>7. Follows(out, e, first)
    <3>1. Follows(out, e, out \o (<<e>> \o <<>>))
      BY <1>2, <2>6, FollowsFirst, EmptySeq
    <3>2. <<e>> \o <<>> = <<e>>
      <4> DEFINE one == <<e>>
      <4>1. one \in Seq(Packets)
        BY <1>2
      <4> HIDE DEF one
      <4>2. one \o <<>> = one
        BY <4>1, ConcatEmptySeq
      <4>3. QED
        BY <4>2 DEF one
    <3>3. out \o <<e>> = Append(out, e)
      BY <1>2, <2>6, AppendIsConcat
    <3>4. QED
      BY <2>3, <3>1, <3>2, <3>3
  <2>8. Follows(out, e, in)
    BY <2>5, <2>6, <2>7, FollowsLonger
  <2>9. \A c \in BridgeIds : Filter(published', PacketsOf(c)) =
          IF c = b THEN Append(Filter(published, PacketsOf(c)), e) ELSE Filter(published, PacketsOf(c))
    BY <1>3, <2>2
  <2>10. DevicesToPublisher!Deliver(b)
    <3>1. Filter(published, PacketsOf(b)) = out /\ Filter(arrived[b], Known) = in
      BY DEF out, own, in
    <3>2. QED
      BY <1>3, <2>8, <2>9, <3>1 DEF DevicesToPublisher!Deliver, Follows
  <2>11. QED
    BY <1>3, <2>10 DEF DevicesToPublisher!Next
<1>6. CASE e \notin Known
  BY <1>4, <1>6 DEF DevicesToPublisher!relayVars
<1>7. QED
  BY <1>5, <1>6

(* Every step is a step of the relay from devices to publisher, or a stutter.*)
LEMMA DevicesRelayStep ==
  ServerTypeOK /\ BridgeTypeOK /\ PerBridgeOrder /\ PublisherHasTopics /\ [ServerNext]_serverVars
    => [DevicesToPublisher!Next]_(DevicesToPublisher!relayVars)
<1> SUFFICES ASSUME ServerTypeOK, BridgeTypeOK, PerBridgeOrder, PublisherHasTopics,
                    [ServerNext]_serverVars
             PROVE  DevicesToPublisher!Next \/ UNCHANGED DevicesToPublisher!relayVars
  OBVIOUS
<1> USE DEF registryVars, lifeVars, reqVars, pubVars, serverVars, RestOfServer
<1>1. ASSUME Publish PROVE DevicesToPublisher!Next \/ UNCHANGED DevicesToPublisher!relayVars
  <2>1. UNCHANGED arrived
    BY <1>1 DEF Publish, bridgeVars, deviceVars
  <2>2. QED
    BY <1>1, <2>1, PublishDelivers
<1>2. ASSUME NEW b \in BridgeIds, BridgeThreads(b), Transmit(b)
      PROVE  DevicesToPublisher!Next \/ UNCHANGED DevicesToPublisher!relayVars
  <2> DEFINE packet == send_packet[b][1]
             hand == send_packet[b]
  <2>1. /\ hand \in Seq(Packets) /\ Len(hand) = 1
        /\ arrived \in [BridgeIds -> Seq(Packets)]
    BY <1>2 DEF Transmit, BridgeTypeOK, SendingTypeOK, DeviceTypeOK
  <2>2. packet \in Packets /\ hand = <<packet>>
    BY <2>1, ElementOfSeq
  <2>3. UNCHANGED published
    BY <1>2 DEF BridgeThreads
  <2>4. arrived' = [arrived EXCEPT ![b] = @ \o (IF packet \in Loopback THEN hand ELSE <<>>)]
    BY <1>2 DEF Transmit
  <2> HIDE DEF packet, hand
  <2>5. arrived[b] \o <<packet>> = Append(arrived[b], packet) /\ arrived[b] \o <<>> = arrived[b]
    BY <2>1, <2>2, AppendIsConcat, ConcatEmptySeq
  <2>6. CASE packet \in Loopback
    <3>1. arrived' = [arrived EXCEPT ![b] = Append(@, packet)]
      BY <2>2, <2>4, <2>5, <2>6
    <3>2. QED
      BY <2>2, <2>3, <3>1, ArrivalAccepts
  <2>7. CASE packet \notin Loopback
    <3>1. arrived' = arrived
      BY <2>1, <2>4, <2>5, <2>7
    <3>2. QED
      BY <2>3, <3>1 DEF DevicesToPublisher!relayVars
  <2>8. QED
    BY <2>6, <2>7
<1>3. ASSUME NEW b \in BridgeIds, BridgeThreads(b), NEW packet \in Unsolicited, Arrive(b, packet)
      PROVE  DevicesToPublisher!Next \/ UNCHANGED DevicesToPublisher!relayVars
  <2>1. packet \in Packets /\ UNCHANGED published
    BY <1>3, BridgeAssumption DEF BridgeThreads
  <2>2. arrived' = [arrived EXCEPT ![b] = Append(@, packet)]
    BY <1>3 DEF Arrive
  <2>3. QED
    BY <2>1, <2>2, ArrivalAccepts
<1>4. ASSUME NEW b \in BridgeIds, BridgeThreads(b), ~Transmit(b),
             ~(\E packet \in Unsolicited : Arrive(b, packet))
      PROVE  UNCHANGED <<arrived, published>>
  BY <1>4 DEF BridgeThreads, BridgeStep, Receiving, Sending, RecWhile, RecReceive, RecMiss, RecAdd,
              SendWhile, SendTake, SendTakeNothing, deviceVars
<1>5. ASSUME Setup \/ ReqSend PROVE UNCHANGED <<arrived, published>>
  BY <1>5 DEF Setup, Load, LoadCheck, Construct, LoadSkip, LoadInsert, LoadAssign, ReqSend,
              SendContains, SendForward, Send, bridgeVars, deviceVars
<1>6. ASSUME Teardown PROVE UNCHANGED <<arrived, published>>
  BY <1>6 DEF Teardown, TeardownBridge, DestroyClose, DestroyJoinRec, DestroyJoinSend, TeardownClear,
              bridgeVars, deviceVars
<1>7. ASSUME \/ Start \/ LoopEnds \/ Sigint \/ SigintOnWorker \/ ReqCrash \/ ReqWhile \/ ReqMiss
             \/ Closing \/ PubWhile \/ PubTake \/ PubTakeNothing
             \/ \E c \in Clients : ReqServe(c) \/ ClientSend(c)
             \/ UNCHANGED serverVars
      PROVE  UNCHANGED <<arrived, published>>
  BY <1>7 DEF Start, LoopEnds, Sigint, SigintOnWorker, ReqCrash, ReqWhile, ReqMiss, Closing,
              CloseStop, CloseQueue, ClosePublish, CloseJoinReq, CloseJoinPub, CloseSockets,
              PubWhile, PubTake, Take, PubTakeNothing, ReqServe, ClientSend, bridgeVars, deviceVars
<1>8. CASE UNCHANGED <<arrived, published>>
  BY <1>8 DEF DevicesToPublisher!relayVars
<1>9. QED
  BY <1>1, <1>2, <1>3, <1>4, <1>5, <1>6, <1>7, <1>8
     DEF ServerNext, ServerStep, Main, HandleRequests, PublishPackets

(* The way from each device to the publisher is a relay of the packets that  *)
(* have a topic: those of a bridge are published in the order its device     *)
(* received them, whatever the other bridges and the closing queue do.       *)
THEOREM ServerPublishesInOrder == ServerSpec => PublishedInOrder
<1>1. ServerInit => DevicesToPublisher!Init /\ PublisherHasTopics
  <2> SUFFICES ASSUME ServerInit PROVE DevicesToPublisher!Init /\ PublisherHasTopics
    OBVIOUS
  <2>1. /\ published = <<>> /\ taken = <<>> /\ pub_packet = <<>>
        /\ \A b \in BridgeIds : arrived[b] = <<>>
    BY DEF ServerInit, BridgeInit
  <2>2. <<>> \o <<>> = <<>>
    BY EmptySeq, ConcatEmptySeq
  <2>3. QED
    BY <2>1, <2>2, FilterEmpty DEF DevicesToPublisher!Init, PublisherHasTopics
<1>2. ServerTypeOK /\ BridgeTypeOK /\ PublisherHasTopics /\ [ServerNext]_serverVars
        => PublisherHasTopics'
  BY PublisherHasTopicsStep
<1>3. ServerTypeOK /\ BridgeTypeOK /\ PerBridgeOrder /\ PublisherHasTopics /\ [ServerNext]_serverVars
        => [DevicesToPublisher!Next]_(DevicesToPublisher!relayVars)
  BY DevicesRelayStep
<1>4. ServerSpec => []PerBridgeOrder
  BY ServerUsesBridges, BridgeOrderKept, PTL
<1>5. QED
  BY <1>1, <1>2, <1>3, <1>4, ServerAndBridgeTypes, PTL
     DEF ServerSpec, PublishedInOrder, DevicesToPublisher!Spec
=============================================================================
