------------------------------ MODULE ZMQServer ------------------------------
(***************************************************************************)
(* ZMQServer (src/src/ZMQServer.cpp) as the program src/src/main.cpp runs   *)
(* it: the constructor binds the sockets and starts the request thread and  *)
(* the publisher thread, the main thread loads the bridges, waits in loop   *)
(* for SIGINT, destroys the bridges and then the server.  The clients are   *)
(* REQ sockets: each sends a packet, waits for its reply, sends the next.   *)
(*                                                                         *)
(* close runs on the main thread, either in the handler of SIGINT (from     *)
(* loop or teardown) or in ~ZMQServer.  While the handler runs the kernel   *)
(* blocks SIGINT for the main thread only, so the next one is handled by a  *)
(* worker thread: its close joins a thread from itself, or one that the     *)
(* main thread is joining, and std::thread::join throws.                    *)
(***************************************************************************)
EXTENDS SpaceWireBridges

CONSTANTS
  Clients,
  Script,             (* the packets each client sends, in order            *)
  Known,              (* packets whose protocol has a topic                 *)
  MaxSignals,         (* how many times SIGINT is sent                      *)
  Patient             (* clients that send only once the bridges are loaded *)

ASSUME ServerAssumption ==
  /\ Script \in [Clients -> Seq(Packets)]
  /\ Known \subseteq Packets
  /\ MaxSignals \in Nat
  /\ Patient \subseteq Clients

VARIABLES
  m_running,
  sockets_open,   (* m_publisher and m_requests                             *)
  joinable,       (* the threads that were started and not joined           *)
  main_thread,    (* where main stands                                      *)
  close_place,    (* where close stands on the main thread, or none         *)
  req_thread,     (* m_req_thread: where handle_requests stands             *)
  req_tries,      (* its local tries                                        *)
  pub_thread,     (* m_publisher_thread: where publish_packets stands       *)
  pub_packet,     (* its local packet, a sequence of at most one            *)
  sent,           (* how many packets of its script each client has sent    *)
  acked,          (* how many of them were replied to                       *)
  signals,        (* how many SIGINT were sent                              *)
  crashed         (* the process was ended by std::terminate or a signal    *)

(* History. *)
VARIABLES
  served,      (* packets replied to, in order                              *)
  published    (* packets given to m_publisher, in order                    *)

lifeVars == <<m_running, sockets_open, joinable, main_thread, close_place, signals, crashed>>
reqVars == <<req_thread, req_tries, served, acked>>
pubVars == <<pub_thread, pub_packet, published>>
serverVars == <<bridgeVars, registryVars, lifeVars, reqVars, pubVars, sent>>

Workers == {"req", "pub"}
MainPlaces == {"start", "setup", "loop", "teardown", "destroy", "exited"}
ClosePlaces == {"none", "stop", "close_queue", "join_req", "join_pub", "close_sockets"}
ReqPlaces == {"unborn", "while", "poll", "send", "done"}
PubPlaces == {"unborn", "while", "take", "publish", "done"}

ServerInit ==
  /\ BridgeInit
  /\ RegistryInit
  /\ m_running = TRUE
  /\ sockets_open = FALSE
  /\ joinable = {}
  /\ main_thread = "start"
  /\ close_place = "none"
  /\ req_thread = "unborn"
  /\ req_tries = 0
  /\ pub_thread = "unborn"
  /\ pub_packet = <<>>
  /\ sent = [c \in Clients |-> 0]
  /\ acked = [c \in Clients |-> 0]
  /\ signals = 0
  /\ crashed = FALSE
  /\ served = <<>>
  /\ published = <<>>

-----------------------------------------------------------------------------
(* main *)

(* ZMQServer::ZMQServer and start. *)
Start ==
  /\ main_thread = "start"
  /\ main_thread' = "setup"
  /\ sockets_open' = TRUE
  /\ joinable' = Workers
  /\ req_thread' = "while"
  /\ pub_thread' = "while"
  /\ UNCHANGED <<bridgeVars, registryVars, m_running, close_place, signals, crashed,
                 req_tries, served, acked, pub_packet, published, sent>>

Setup ==
  /\ main_thread = "setup"
  /\ \/ Load /\ UNCHANGED main_thread
     \/ /\ ~Loading
        /\ main_thread' = "loop"
        /\ UNCHANGED <<bridgeVars, registryVars>>
  /\ UNCHANGED <<m_running, sockets_open, joinable, close_place, signals, crashed,
                 reqVars, pubVars, sent>>

LoopEnds ==
  /\ main_thread = "loop" /\ close_place = "none"
  /\ ~m_running
  /\ main_thread' = "teardown"
  /\ UNCHANGED <<bridgeVars, registryVars, m_running, sockets_open, joinable, close_place,
                 signals, crashed, reqVars, pubVars, sent>>

(* The guard of setup leaves its scope, then ~ZMQServer calls close. *)
Teardown ==
  /\ main_thread = "teardown" /\ close_place = "none"
  /\ \/ (\E b \in BridgeIds : TeardownBridge(b)) /\ UNCHANGED <<main_thread, close_place>>
     \/ TeardownClear /\ main_thread' = "destroy" /\ close_place' = "stop"
  /\ UNCHANGED <<m_running, sockets_open, joinable, signals, crashed, reqVars, pubVars, sent>>

-----------------------------------------------------------------------------
(* SIGINT, and close on the main thread. *)

HandlerInstalled == main_thread \in {"loop", "teardown"}

Sigint ==
  /\ HandlerInstalled /\ close_place = "none"
  /\ signals < MaxSignals
  /\ signals' = signals + 1
  /\ close_place' = "stop"
  /\ UNCHANGED <<bridgeVars, registryVars, m_running, sockets_open, joinable, main_thread,
                 crashed, reqVars, pubVars, sent>>

(* SIGINT while its handler runs: a worker still alive handles it. *)
SigintOnWorker ==
  /\ HandlerInstalled /\ close_place # "none"
  /\ signals < MaxSignals
  /\ req_thread # "done" \/ pub_thread # "done"
  /\ signals' = signals + 1
  /\ crashed' = TRUE
  /\ UNCHANGED <<bridgeVars, registryVars, m_running, sockets_open, joinable, main_thread,
                 close_place, reqVars, pubVars, sent>>

CloseStop ==
  /\ close_place = "stop"
  /\ m_running' = FALSE
  /\ close_place' = "close_queue"
  /\ UNCHANGED <<bridgeVars, registryVars, sockets_open, joinable, main_thread, signals,
                 crashed, reqVars, pubVars, sent>>

(* Fault: close forgets received_packets. *)
CloseNoQueue ==
  /\ close_place = "close_queue"
  /\ close_place' = "join_req"
  /\ UNCHANGED <<bridgeVars, registryVars, m_running, sockets_open, joinable, main_thread,
                 signals, crashed, reqVars, pubVars, sent>>

CloseQueue ==
  /\ close_place = "close_queue"
  /\ ClosePublish
  /\ close_place' = "join_req"
  /\ UNCHANGED <<registryVars, m_running, sockets_open, joinable, main_thread, signals,
                 crashed, reqVars, pubVars, sent>>

(* Fault: the request thread is not joined. *)
CloseNoJoinReq ==
  /\ close_place = "join_req"
  /\ joinable' = joinable \ {"req"}
  /\ close_place' = "join_pub"
  /\ UNCHANGED <<bridgeVars, registryVars, m_running, sockets_open, main_thread, signals,
                 crashed, reqVars, pubVars, sent>>

CloseJoinReq ==
  /\ close_place = "join_req"
  /\ "req" \in joinable => req_thread = "done"
  /\ joinable' = joinable \ {"req"}
  /\ close_place' = "join_pub"
  /\ UNCHANGED <<bridgeVars, registryVars, m_running, sockets_open, main_thread, signals,
                 crashed, reqVars, pubVars, sent>>

(* Fault: the publisher thread is not joined. *)
CloseNoJoinPub ==
  /\ close_place = "join_pub"
  /\ joinable' = joinable \ {"pub"}
  /\ close_place' = "close_sockets"
  /\ UNCHANGED <<bridgeVars, registryVars, m_running, sockets_open, main_thread, signals,
                 crashed, reqVars, pubVars, sent>>

CloseJoinPub ==
  /\ close_place = "join_pub"
  /\ "pub" \in joinable => pub_thread = "done"
  /\ joinable' = joinable \ {"pub"}
  /\ close_place' = "close_sockets"
  /\ UNCHANGED <<bridgeVars, registryVars, m_running, sockets_open, main_thread, signals,
                 crashed, reqVars, pubVars, sent>>

CloseSockets ==
  /\ close_place = "close_sockets"
  /\ sockets_open' = FALSE
  /\ close_place' = "none"
  /\ main_thread' = IF main_thread = "destroy" THEN "exited" ELSE main_thread
  /\ UNCHANGED <<bridgeVars, registryVars, m_running, joinable, signals, crashed,
                 reqVars, pubVars, sent>>

Closing == CloseStop \/ CloseQueue \/ CloseJoinReq \/ CloseJoinPub \/ CloseSockets

Main == Start \/ Setup \/ LoopEnds \/ Teardown \/ Closing

-----------------------------------------------------------------------------
(* The clients: zmq::socket_type::req, a send then a recv.                  *)

Waiting(c) == acked[c] < sent[c]

ClientSend(c) ==
  /\ ~Waiting(c)
  /\ sent[c] < Len(Script[c])
  /\ c \in Patient => main_thread \notin {"start", "setup"}
  /\ sent' = [sent EXCEPT ![c] = @ + 1]
  /\ UNCHANGED <<bridgeVars, registryVars, lifeVars, reqVars, pubVars>>

-----------------------------------------------------------------------------
(* handle_requests *)

ReqWhile ==
  /\ req_thread = "while"
  /\ req_thread' = IF m_running THEN "poll" ELSE "done"
  /\ req_tries' = 0
  /\ UNCHANGED <<bridgeVars, registryVars, lifeVars, served, acked, pubVars, sent>>

(* A request is replied to before the packet goes to its bridge. *)
ReqServe(c) ==
  LET packet == Script[c][sent[c]]
  IN  /\ req_thread = "poll"
      /\ Waiting(c)
      /\ req_tries' = 0
      /\ acked' = [acked EXCEPT ![c] = @ + 1]
      /\ served' = Append(served, packet)
      /\ CallSend(packet)
      /\ req_thread' = "send"
      /\ UNCHANGED <<bridgeVars, loaded_bridges, to_load, load_place, lifeVars, pubVars, sent>>

(* Fault: the tries are not limited. *)
ReqMissForever ==
  /\ req_thread = "poll"
  /\ \A c \in Clients : ~Waiting(c)
  /\ req_tries' = req_tries + 1
  /\ UNCHANGED <<bridgeVars, registryVars, lifeVars, req_thread, served, acked, pubVars, sent>>

ReqMiss ==
  /\ req_thread = "poll"
  /\ \A c \in Clients : ~Waiting(c)
  /\ req_tries' = req_tries + 1
  /\ req_thread' = IF req_tries + 1 < MaxTries THEN "poll" ELSE "while"
  /\ UNCHANGED <<bridgeVars, registryVars, lifeVars, served, acked, pubVars, sent>>

ReqSend ==
  /\ req_thread = "send"
  /\ SendContains \/ SendForward
  /\ req_thread' = IF send_place' = "none" THEN "poll" ELSE "send"
  /\ UNCHANGED <<lifeVars, req_tries, served, acked, pubVars, sent>>

(* operator-> of a null unique_ptr: the process dies. *)
ReqCrash ==
  /\ req_thread = "send"
  /\ SendThroughNull
  /\ crashed' = TRUE
  /\ UNCHANGED <<bridgeVars, registryVars, m_running, sockets_open, joinable, main_thread,
                 close_place, signals, reqVars, pubVars, sent>>

HandleRequests == ReqWhile \/ (\E c \in Clients : ReqServe(c)) \/ ReqMiss \/ ReqSend

-----------------------------------------------------------------------------
(* publish_packets *)

PubWhile ==
  /\ pub_thread = "while"
  /\ pub_thread' = IF m_running /\ ~publish_queue.closed THEN "take" ELSE "done"
  /\ UNCHANGED <<bridgeVars, registryVars, lifeVars, reqVars, pub_packet, published, sent>>

PubTake ==
  /\ pub_thread = "take"
  /\ Take
  /\ pub_packet' = <<First(publish_queue)>>
  /\ pub_thread' = "publish"
  /\ UNCHANGED <<registryVars, lifeVars, reqVars, published, sent>>

PubTakeNothing ==
  /\ pub_thread = "take"
  /\ TakesNothing(publish_queue)
  /\ pub_thread' = "while"
  /\ UNCHANGED <<bridgeVars, registryVars, lifeVars, reqVars, pub_packet, published, sent>>

(* Fault: a case of the switch over the protocols falls through. *)
PublishTwice ==
  /\ pub_thread = "publish"
  /\ published' = IF pub_packet[1] \in Known THEN published \o pub_packet \o pub_packet ELSE published
  /\ pub_packet' = <<>>
  /\ pub_thread' = "while"
  /\ UNCHANGED <<bridgeVars, registryVars, lifeVars, reqVars, sent>>

(* The packets of the other protocols are dropped. *)
Publish ==
  /\ pub_thread = "publish"
  /\ published' = IF pub_packet[1] \in Known THEN published \o pub_packet ELSE published
  /\ pub_packet' = <<>>
  /\ pub_thread' = "while"
  /\ UNCHANGED <<bridgeVars, registryVars, lifeVars, reqVars, sent>>

PublishPackets == PubWhile \/ PubTake \/ PubTakeNothing \/ Publish

-----------------------------------------------------------------------------
RestOfServer == <<registryVars, lifeVars, reqVars, pubVars, sent>>

BridgeThreads(b) == BridgeStep(b) /\ UNCHANGED RestOfServer

(* Once the process has ended only the clients go on. *)
Ended == main_thread = "exited" \/ crashed

ServerStep ==
  /\ ~crashed
  /\ \/ Main
     \/ Sigint
     \/ SigintOnWorker
     \/ HandleRequests
     \/ ReqCrash
     \/ PublishPackets
     \/ \E b \in BridgeIds : BridgeThreads(b)

ServerNext ==
  \/ ServerStep
  \/ \E c \in Clients : ClientSend(c)
  \/ Ended /\ UNCHANGED serverVars

ServerSpec == ServerInit /\ [][ServerNext]_serverVars

(* Every thread of the process runs on; nobody has to send SIGINT, and the  *)
(* clients and the link may stop.                                           *)
ServerFairness ==
  /\ WF_serverVars(~crashed /\ Main)
  /\ WF_serverVars(~crashed /\ HandleRequests)
  /\ WF_serverVars(~crashed /\ PublishPackets)
  /\ \A b \in BridgeIds :
       /\ WF_serverVars(~crashed /\ Receiving(b) /\ UNCHANGED RestOfServer)
       /\ WF_serverVars(~crashed /\ Sending(b) /\ UNCHANGED RestOfServer)

FairServerSpec == ServerSpec /\ ServerFairness

-----------------------------------------------------------------------------
(* Properties *)

RegistryTypeOK ==
  /\ loaded_bridges \in [BridgeIds -> Entries]
  /\ to_load \in Seq(BridgeIds)
  /\ load_place \in LoadPlaces
  /\ send_place \in SendCallPlaces
  /\ request \in Seq(Packets)
  /\ Len(request) = IF send_place = "none" THEN 0 ELSE 1

LifeTypeOK ==
  /\ m_running \in BOOLEAN
  /\ sockets_open \in BOOLEAN
  /\ joinable \subseteq Workers
  /\ main_thread \in MainPlaces
  /\ close_place \in ClosePlaces
  /\ signals \in 0 .. MaxSignals
  /\ crashed \in BOOLEAN

WorkersTypeOK ==
  /\ req_thread \in ReqPlaces
  /\ req_tries \in 0 .. MaxTries
  /\ req_thread \in {"poll", "send"} => req_tries < MaxTries
  /\ served \in Seq(Packets)
  /\ pub_thread \in PubPlaces
  /\ pub_packet \in Seq(Packets)
  /\ Len(pub_packet) = IF pub_thread = "publish" THEN 1 ELSE 0
  /\ published \in Seq(Packets)

ClientsTypeOK ==
  /\ sent \in [Clients -> Nat]
  /\ acked \in [Clients -> Nat]
  /\ \A c \in Clients : sent[c] <= Len(Script[c]) /\ acked[c] <= sent[c] /\ sent[c] <= acked[c] + 1

(* Every variable has its type, and a client never has two requests out.    *)
ServerTypeOK ==
  /\ RegistryTypeOK
  /\ LifeTypeOK
  /\ WorkersTypeOK
  /\ ClientsTypeOK
  /\ send_place # "none" <=> req_thread = "send"
  /\ main_thread = "start" => req_thread = "unborn" /\ pub_thread = "unborn"

(* The request thread never calls send on a bridge that teardown has begun  *)
(* to destroy: close joins it before main leaves the loop.                  *)
RequestsMeetLiveBridges ==
  send_place = "send" => object[RequestedBridge] = "alive"

(* How far close has come: what it has stopped and joined stays so, and a   *)
(* second call finds it done.                                               *)
CloseInv ==
  /\ main_thread # "start" =>
       /\ "req" \notin joinable => req_thread = "done"
       /\ "pub" \notin joinable => pub_thread = "done"
  /\ close_place \in {"join_pub", "close_sockets"} => "req" \notin joinable
  /\ close_place = "close_sockets" => "pub" \notin joinable
  /\ close_place \notin {"none", "stop"} => ~m_running
  /\ ~m_running /\ close_place \in {"none", "stop"} => joinable = {} /\ ~sockets_open
  /\ close_place # "none" => main_thread \in {"loop", "teardown", "destroy"}
  /\ ~sockets_open => main_thread = "start" \/ joinable = {}
  /\ main_thread \in {"start", "setup"} => m_running
  /\ main_thread \in {"teardown", "destroy", "exited"} => ~m_running /\ joinable = {}
  /\ main_thread = "exited" => ~sockets_open

(* An entry of the registry and the object it names: an entry is null only  *)
(* while load_bridge assigns it, and an object without an entry was never   *)
(* built, but for the one load_bridge is about to insert.                   *)
RegistryInv ==
  /\ main_thread \notin {"start", "setup"} => ~Loading
  /\ load_place # "check" => Loading
  /\ main_thread = "start" => load_place = "check"
  /\ load_place = "insert" =>
       loaded_bridges[Head(to_load)] = "absent" /\ object[Head(to_load)] = "alive"
  /\ load_place = "assign" => loaded_bridges[Head(to_load)] = "null"
  /\ \A b \in BridgeIds :
       /\ loaded_bridges[b] = "null" => load_place = "assign" /\ b = Head(to_load)
       /\ main_thread \in {"start", "setup", "loop", "teardown"} /\ loaded_bridges[b] = "absent" =>
            object[b] = "unborn" \/ (load_place = "insert" /\ b = Head(to_load))
       /\ main_thread \in {"start", "setup", "loop"} /\ loaded_bridges[b] # "absent" =>
            object[b] = "alive"
       /\ main_thread \in {"destroy", "exited"} => object[b] \in {"unborn", "destroyed"}

(* The inductive invariant behind RequestsMeetLiveBridges,                  *)
(* SocketsOutliveThreads and ExitIsClean.                                    *)
ServerInv == CloseInv /\ RegistryInv /\ RequestsMeetLiveBridges

(* No thread uses a socket that close has closed: the joins come first.     *)
SocketsOutliveThreads ==
  ~sockets_open => req_thread \in {"unborn", "done"} /\ pub_thread \in {"unborn", "done"}

(* ~ZMQServer ends the life of received_packets and of the std::threads:    *)
(* by then every thread of every bridge, which uses the queue, has ended    *)
(* and the two threads of the server were joined.                           *)
ExitIsClean ==
  main_thread = "exited" =>
    /\ joinable = {}
    /\ ~sockets_open
    /\ \A b \in BridgeIds : rec_thread[b] \in {"unborn", "done"} /\ send_thread[b] \in {"unborn", "done"}

(* A SIGINT is behind a close that runs in the handler.                     *)
HandlerRunsForSigint == close_place # "none" /\ HandlerInstalled => signals > 0

(* The process dies in two ways only: a second SIGINT meets the close of    *)
(* the first one, or send looks a bridge up in the very moment load_bridge  *)
(* inserts it.  Any other packet for a bridge that is not there is dropped, *)
(* and no other interleaving of setup, requests, close and teardown follows *)
(* a null pointer or joins a thread twice.                                  *)
OnlyKnownCrashes ==
  crashed =>
    \/ signals >= 2 /\ close_place # "none"
    \/ /\ main_thread = "setup" /\ load_place = "assign"
       /\ send_place = "send" /\ RequestedBridge = Head(to_load)

(* "Unknown bridge ID {}, dropping packet." (SpaceWireBridges.hpp:79): only  *)
(* a packet for a loaded bridge is forwarded, any other one is dropped.     *)
UnknownIsDropped == send_place = "send" => loaded_bridges[RequestedBridge] = "loaded"

(* "SIGINT received closing..." (ZMQServer.cpp:57): SIGINT makes the server *)
(* close, it does not abort it.                                             *)
SigintOnlyCloses == signals > 0 => ~crashed

Hosted == Factory \cap Elements(Configured)

(* How far setup has come: a bridge that is to be hosted is loaded or still *)
(* to load, and nothing else is ever loaded.                                *)
HostedLoaded ==
  /\ Elements(to_load) \subseteq Elements(Configured)
  /\ load_place # "check" => Head(to_load) \in Factory
  /\ \A b \in BridgeIds : loaded_bridges[b] # "absent" => b \in Hosted
  /\ \A b \in Hosted :
       /\ main_thread \in {"start", "setup"} => loaded_bridges[b] = "loaded" \/ b \in Elements(to_load)
       /\ main_thread \in {"loop", "teardown"} => loaded_bridges[b] = "loaded"

(* The packets of the clients that wait for setup. *)
PatientPackets == UNION {Elements(Script[c]) : c \in Patient}
PatientPacketsOf(b) == PacketsOf(b) \cap PatientPackets

(* Nothing was replied to a client that waits for setup before it is over.  *)
AwaitsSetup ==
  main_thread \in {"start", "setup"} =>
    /\ \A c \in Patient : sent[c] = 0 /\ acked[c] = 0
    /\ Elements(request) \cap PatientPackets = {}

(* The reply "ok" leaves before the packet goes to its bridge, yet every    *)
(* packet replied to that was sent once the bridges were loaded, and no     *)
(* other, is given to the bridge it names, in the order of the replies,     *)
(* whatever the clients that did not wait do; a packet for another name is  *)
(* dropped.                                                                 *)
AckedIsAccepted ==
  \A b \in BridgeIds :
    IF b \in Hosted
    THEN Filter(served, PatientPacketsOf(b)) =
           Filter(accepted[b], PatientPacketsOf(b)) \o Filter(request, PatientPacketsOf(b))
    ELSE accepted[b] = <<>>

(* A path knows its packets by their identity, so no two clients share one.  *)
DistinctScripts ==
  \A c, d \in Clients : c # d => Elements(Script[c]) \cap Elements(Script[d]) = {}

(* What a client sends to a bridge. *)
PacketsOn == [path \in Patient \X BridgeIds |-> Elements(Script[path[1]]) \cap PacketsOf(path[2])]

(* From a client to a device: for each client that waits for setup and each *)
(* bridge, the packets of that client transmitted by that bridge are a      *)
(* prefix of the ones the client was told "ok" for.                         *)
ClientsToDevices == INSTANCE Relay WITH
  Channels <- Patient \X Hosted, Payloads <- Packets,
  input <- [path \in Patient \X Hosted |-> Filter(served, PacketsOn[path])],
  output <- [path \in Patient \X Hosted |-> Filter(device_tx[path[2]], PacketsOn[path])]

TransmitsInOrder == ClientsToDevices!Spec

(* From the devices to the publisher: the packets of a bridge that have a   *)
(* topic are published in the order its device received them, none twice    *)
(* and none skipped, although all the bridges share one queue, the packets  *)
(* without a topic are dropped on the way and close may end it anywhere.    *)
DevicesToPublisher == INSTANCE Relay WITH
  Channels <- BridgeIds, Payloads <- Packets,
  input <- [b \in BridgeIds |-> Filter(arrived[b], Known)],
  output <- [b \in BridgeIds |-> Filter(published, PacketsOf(b))]

PublishedInOrder == DevicesToPublisher!Spec

(* SIGINT ends the program: no thread it joins stays blocked, on a queue,   *)
(* on a socket or on another thread.                                        *)
ShutdownCompletes == close_place # "none" ~> (main_thread = "exited" \/ crashed)

(* The liveness properties below hold until the server stops. *)
Stopping == ~m_running \/ crashed

(* A request is replied to unless the server is closing: the request thread *)
(* is never blocked for ever on a full sending queue.                       *)
RequestIsServed ==
  \A c \in Clients : \A n \in 1 .. Len(Script[c]) : sent[c] >= n ~> (acked[c] >= n \/ Stopping)

(* A packet given to a bridge reaches its device unless the server is       *)
(* closing.                                                                 *)
AcceptedIsTransmitted ==
  \A b \in Hosted : \A packet \in Packets :
    packet \in Elements(accepted[b]) ~> (packet \in Elements(device_tx[b]) \/ Stopping)

(* A packet with a topic that a device received is published unless the     *)
(* server is closing.                                                       *)
ArrivedIsPublished ==
  \A b \in Hosted : \A packet \in Known :
    packet \in Elements(arrived[b]) ~> (packet \in Elements(published) \/ Stopping)
=============================================================================
