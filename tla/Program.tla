-------------------------------- MODULE Program --------------------------------
(***************************************************************************)
(* A whole run: a process with a ZMQServer, and a ZMQClient that exchanges  *)
(* packets with it over libzmq.  The process is the server program          *)
(* (src/src/main.cpp), then the client is another process, or a test        *)
(* (src/manual_tests/star_dundee/main.cpp), then the client lives on the    *)
(* thread that made the server.                                             *)
(*                                                                         *)
(* What the other modules take for granted is here: the configuration, the  *)
(* construction and destruction of the zmq objects, the frames, and the     *)
(* network.  What they detail is coarse: the loops of the threads, the      *)
(* bridges, which answer every packet, and the objects of messages.         *)
(***************************************************************************)
EXTENDS CppZmq, Topics, Config, Histories

CONSTANTS
  Documents,   (* contents of the configuration file                        *)
  YML_Config,  (* the document in a test                                    *)
  Files,       (* [exists, suffix]: what --config names                     *)
  Registered,  (* the calls of register_ctor before main, by bridge type    *)
  Payloads,    (* data of the packets, the protocol first                   *)
  Topic,       (* the client subscribes to                                  *)
  MaxCalls     (* bound on the calls of send_packet                         *)

VARIABLES
  program,       (* "main" or "test"                                        *)
  config_file,   (* what --config names, NoFile without it and once read    *)
  document,      (* what there is to load, until it was                     *)
  m_cfg,         (* of the server                                           *)
  to_setup,      (* names of the bridges in the configuration               *)
  pc,            (* where the server's and the client's thread stand        *)
  script,        (* operations on their zmq objects they have still to do   *)
  attached       (* sockets that are bound or connected                     *)

VARIABLES
  m_running, req_place, pub_place,   (* the server's threads                *)
  request,                           (* in the hands of handle_requests     *)
  bridges, received_packets,
  subscription,                      (* of the client: where it has got to  *)
  stored, fetched,                   (* packets in the queue, by the user   *)
  calls,                             (* of send_packet, so far              *)
  early,                             (* calls made once subscribed          *)
  answered                           (* packets the bridges ever returned   *)

Owners == {"server", "client"}
(* Of the socket types the four that are used here. *)
socket_type == {"pub", "rep", "sub", "req"}

TypeOf == [server |-> <<"pub", "rep">>, client |-> <<"sub", "req">>]

(* The members, the sockets in their order and by their type, and the       *)
(* unnamed objects that are moved into them.  The client of the test,       *)
(* ZMQRMAPClient, has a context of its own beside that of ZMQClient; its    *)
(* own two sockets, which never hold a handle, are left out.                *)
Ctx(o) == <<o, "m_ctx">>
Sock(o, i) == <<o, TypeOf[o][i]>>
UnnamedCtx(o) == <<o, "context_t">>
OwnCtx == <<"client", "own m_ctx">>
UnnamedSock(o) == <<o, "socket_t">>

ReplyBytes == <<"ok">>

(* The packets of the client's calls, and every message that is ever sent.  *)
Packets == {spw_packet(payload, n, "Mock") : payload \in Payloads, n \in 0 .. MaxCalls - 1}
RequestFrames == {to_request(packet) : packet \in Packets}
FrameOf(packet) == to_message(to_string(topic_of(packet)), packet)
PublishedFrames == {FrameOf(packet) : packet \in {p \in Packets : topic_of(p) # UNKNOWN}}
Frames == {ReplyBytes} \cup RequestFrames \cup PublishedFrames

NoFile == [exists |-> FALSE, suffix |-> "none"]

(* path::extension keeps the dot. *)
extension == [yaml |-> ".yaml", yml |-> ".yml", json |-> ".json", none |-> ""]

(* Message objects live no longer than a call here. *)
ASSUME ProgramAssumption ==
  /\ Contexts = {Ctx(o) : o \in Owners} \cup {UnnamedCtx(o) : o \in Owners} \cup {OwnCtx}
  /\ Sockets = {Sock(o, i) : o \in Owners, i \in 1 .. 2} \cup {UnnamedSock(o) : o \in Owners}
  /\ Messages = {}
  /\ Types = socket_type
  /\ Bytes = Frames
  /\ \A payload \in Payloads : payload # <<>> /\ payload \in Seq(Range(payload))
  /\ Topic \in types \ {UNKNOWN}
  /\ \A file \in Files : file.suffix \in DOMAIN extension
  /\ \A doc \in Documents \cup {YML_Config} : DocumentOK(doc)
  /\ MaxCalls \in Nat

(* address, pub_port and req_port of start. *)
Endpoint(cfg) ==
  <<ToOr(cfg, <<"address">>, "string", "127.0.0.1"),
    ToOr(cfg, <<"pub_port">>, "int", 30000), ToOr(cfg, <<"req_port">>, "int", 30001)>>

startVars == <<program, config_file, document, m_cfg, to_setup>>
threadVars == <<m_running, req_place, pub_place, request, bridges, received_packets, answered>>
clientVars == <<subscription, stored, fetched, calls, early>>
vars == <<zmqVars, startVars, pc, script, attached, threadVars, clientVars>>

-----------------------------------------------------------------------------
(* Objects: what the constructors and destructors do with them.             *)

Op(op, i) == [op |-> op, i |-> i]
MakeContext == <<Op("context_t", 0), Op("m_ctx=", 0), Op("~context_t", 0)>>
MakeSocket(i) == <<Op("socket_t", i), Op("=", i), Op("~socket_t", i)>>
Members == <<Op("m_ctx", 0), Op("member", 1), Op("member", 2)>>

Constructor ==
  [server |-> Members \o MakeContext \o MakeSocket(1) \o MakeSocket(2)
                \o <<Op("bind", 1), Op("bind", 2)>>,
   client |-> Members \o MakeContext \o MakeSocket(2) \o <<Op("connect", 2)>>
                \o MakeSocket(1) \o <<Op("connect", 1), Op("subscribe", 1), Op("own", 0)>>]

Close == [server |-> <<Op("close", 1), Op("close", 2)>>,
          client |-> <<Op("close", 2), Op("close", 1)>>]

DestroyMembers == <<Op("~member", 2), Op("~member", 1), Op("~m_ctx", 0)>>

Destructor ==
  [server |-> Close["server"] \o DestroyMembers,
   client |-> <<Op("~own", 0)>> \o Close["client"] \o DestroyMembers]

(* What libzmq has to know of a socket. *)
bind(s) == attached' = attached \cup {s} /\ UNCHANGED subscription
connect(s) == attached' = attached \cup {s} /\ UNCHANGED subscription
set_subscribe == subscription' = "sent" /\ UNCHANGED attached
close_socket(s) == attached' = attached \ {s} /\ UNCHANGED subscription

(* One operation of a script. *)
Perform(o, op, i) ==
  \/ op = "m_ctx" /\ ContextNew(Ctx(o))
  \/ op = "member" /\ SocketDefault(Sock(o, i))
  \/ op = "context_t" /\ ContextNew(UnnamedCtx(o))
  \/ op = "m_ctx=" /\ ContextAssign(Ctx(o), UnnamedCtx(o))
  \/ op = "~context_t" /\ ContextDestroy(UnnamedCtx(o))
  \/ op = "socket_t" /\ SocketNew(UnnamedSock(o), Ctx(o), TypeOf[o][i])
  \/ op = "=" /\ SocketAssign(Sock(o, i), UnnamedSock(o))
  \/ op = "~socket_t" /\ SocketDestroy(UnnamedSock(o))
  \/ op = "close" /\ SocketClose(Sock(o, i))
  \/ op = "~member" /\ SocketDestroy(Sock(o, i))
  \/ op = "~m_ctx" /\ ContextDestroy(Ctx(o))
  \/ op = "own" /\ ContextNew(OwnCtx)
  \/ op = "~own" /\ ContextDestroy(OwnCtx)
  \/ op \in {"bind", "connect", "subscribe"} /\ UNCHANGED zmqVars

Step(o) ==
  /\ script[o] # <<>>
  /\ script' = [script EXCEPT ![o] = Tail(@)]
  /\ LET op == Head(script[o]).op
         i == Head(script[o]).i
     IN  /\ Perform(o, op, i)
         /\ CASE op = "bind" -> bind(Sock(o, i))
              [] op = "connect" -> connect(Sock(o, i))
              [] op = "subscribe" -> set_subscribe
              [] op = "close" -> close_socket(Sock(o, i))
              [] OTHER -> UNCHANGED <<attached, subscription>>
  /\ UNCHANGED <<startVars, pc, threadVars, stored, fetched, calls, early>>

(* The address is in use: bind throws.  In main nobody catches it, and the  *)
(* process dies with what was bound; the test's framework does, once the    *)
(* members are destroyed.                                                   *)
BindFails ==
  /\ script["server"] # <<>>
  /\ Head(script["server"]).op = "bind"
  /\ pc' = [pc EXCEPT !["server"] = "aborted"]
  /\ script' = [script EXCEPT !["server"] = IF program = "test" THEN DestroyMembers ELSE <<>>]
  /\ attached' = attached \ {Sock("server", 1)}
  /\ UNCHANGED <<zmqVars, startVars, threadVars, clientVars>>

(* The thread of o goes on once it is done with its objects. *)
Goes(o, from, to, ops) ==
  /\ pc[o] = from
  /\ script[o] = <<>>
  /\ pc' = [pc EXCEPT ![o] = to]
  /\ script' = [script EXCEPT ![o] = ops]
  /\ UNCHANGED <<zmqVars, attached>>

-----------------------------------------------------------------------------
(* The thread of main, or of the test. *)

load_config(file) ==
  CASE extension[file.suffix] \in {"yaml", "yml"} -> from_yaml(document)
    [] extension[file.suffix] = "json" -> from_json(document)
    [] OTHER -> EmptyDict

(* A wrong command line ends the program before there is any object. *)
UsageError ==
  /\ program = "main"
  /\ Goes("server", "args", "exited", <<>>)
  /\ UNCHANGED <<startVars, threadVars, clientVars>>

Constructs(server_cfg, names) ==
  /\ m_cfg' = server_cfg
  /\ to_setup' = names
  /\ document' = EmptyDocument
  /\ config_file' = NoFile
  /\ Goes("server", "args", "construct", Constructor["server"])
  /\ UNCHANGED <<program, threadVars, clientVars>>

(* Without --config, and when the file does not exist, cfg stays empty; a   *)
(* reader that throws would end the program.                                *)
ReadFile ==
  /\ program = "main"
  /\ LET cfg == IF config_file.exists THEN load_config(config_file) ELSE EmptyDict
     IN  IF cfg = NoDict
         THEN /\ Goes("server", "args", "aborted", <<>>)
              /\ UNCHANGED <<startVars, threadVars, clientVars>>
         ELSE Constructs(Below(cfg, "server"), KeysOf(Below(cfg, "bridges")))

ReadString ==
  /\ program = "test"
  /\ Constructs(EmptyDict, KeysOf(from_yaml(document)))

(* start: once both sockets are bound. *)
Start ==
  /\ Goes("server", "construct", "setup", <<>>)
  /\ req_place' = "check"
  /\ pub_place' = "check"
  /\ UNCHANGED <<startVars, m_running, request, bridges, received_packets, answered, clientVars>>

(* A later call replaces an earlier one of the same type. *)
factory == Range(Registered)

(* load_bridge leaves unknown names out. *)
Setup ==
  /\ Goes("server", "setup", "loop", <<>>)
  /\ bridges' = to_setup \cap factory
  /\ UNCHANGED <<startVars, m_running, req_place, pub_place, request, received_packets, answered,
                 clientVars>>

(* close: in the handler of SIGINT, or as the last call of the test. *)
CloseBegin ==
  /\ program = "test" => pc["client"] = "finished"
  /\ Goes("server", "loop", "join", <<>>)
  /\ m_running' = FALSE
  /\ UNCHANGED <<startVars, req_place, pub_place, request, bridges, received_packets, answered,
                 clientVars>>

CloseJoin ==
  /\ req_place = "ended" /\ pub_place = "ended"
  /\ Goes("server", "join", "closed", Close["server"])
  /\ UNCHANGED <<startVars, threadVars, clientVars>>

(* The guard of setup; in a test the client goes first. *)
Teardown ==
  /\ program = "test" => pc["client"] = "gone"
  /\ Goes("server", "closed", "destroy", Destructor["server"])
  /\ bridges' = {}
  /\ UNCHANGED <<startVars, m_running, req_place, pub_place, request, received_packets, answered,
                 clientVars>>

Exit ==
  /\ Goes("server", "destroy", "exited", <<>>)
  /\ UNCHANGED <<startVars, threadVars, clientVars>>

Main ==
  \/ UsageError \/ ReadFile \/ ReadString \/ Start \/ Setup
  \/ CloseJoin \/ Teardown \/ Exit

-----------------------------------------------------------------------------
(* The server's threads *)

serverRest == <<startVars, pc, script, attached, clientVars>>

ReqCheck ==
  /\ req_place = "check"
  /\ req_place' = IF m_running THEN "recv" ELSE "ended"
  /\ UNCHANGED <<zmqVars, serverRest, m_running, pub_place, request, bridges, received_packets, answered>>

ReqMiss ==
  /\ req_place = "recv"
  /\ ~HasInput(Sock("server", 2))
  /\ req_place' = "check"
  /\ UNCHANGED <<zmqVars, serverRest, m_running, pub_place, request, bridges, received_packets, answered>>

ReqRecv ==
  /\ req_place = "recv"
  /\ RecvBuffer(Sock("server", 2))
  /\ request' = to_packet(Head(zmq_sockets[_handle[Sock("server", 2)]].in))
  /\ req_place' = "reply"
  /\ UNCHANGED <<serverRest, m_running, pub_place, bridges, received_packets, answered>>

(* Fault: a request for a bridge that does not exist gets no reply. *)
ReqReplyIfKnown ==
  /\ req_place = "reply"
  /\ request.bridge_id \in bridges
  /\ SendBuffer(Sock("server", 2), ReplyBytes)
  /\ req_place' = "forward"
  /\ UNCHANGED <<serverRest, m_running, pub_place, request, bridges, received_packets, answered>>

ReqReply ==
  /\ req_place = "reply"
  /\ SendBuffer(Sock("server", 2), ReplyBytes)
  /\ req_place' = "forward"
  /\ UNCHANGED <<serverRest, m_running, pub_place, request, bridges, received_packets, answered>>

(* To the bridge, which answers, or to nobody. *)
ReqForward ==
  /\ req_place = "forward"
  /\ req_place' = "check"
  /\ IF request.bridge_id \in bridges
     THEN /\ received_packets' = Append(received_packets, request)
          /\ answered' = Append(answered, request)
     ELSE UNCHANGED <<received_packets, answered>>
  /\ UNCHANGED <<zmqVars, serverRest, m_running, pub_place, request, bridges>>

PubCheck ==
  /\ pub_place = "check"
  /\ pub_place' = IF m_running THEN "take" ELSE "ended"
  /\ UNCHANGED <<zmqVars, serverRest, m_running, req_place, request, bridges, received_packets, answered>>

(* Fault: the frame has no topic. *)
PublishNoTopic ==
  /\ pub_place = "take"
  /\ received_packets # <<>>
  /\ SendBuffer(Sock("server", 1), to_request(Head(received_packets)))
  /\ received_packets' = Tail(received_packets)
  /\ pub_place' = "check"
  /\ UNCHANGED <<serverRest, m_running, req_place, request, bridges, answered>>

(* take, and the switch on the protocol. *)
Publish ==
  /\ pub_place = "take"
  /\ received_packets # <<>>
  /\ LET packet == Head(received_packets)
     IN  IF topic_of(packet) = UNKNOWN
         THEN UNCHANGED zmqVars
         ELSE SendBuffer(Sock("server", 1), FrameOf(packet))
  /\ received_packets' = Tail(received_packets)
  /\ pub_place' = "check"
  /\ UNCHANGED <<serverRest, m_running, req_place, request, bridges, answered>>

(* Fault: the queue is not closed. *)
PubNoWake == FALSE

(* The closed queue lets its reader go. *)
PubWake ==
  /\ pub_place = "take"
  /\ received_packets = <<>>
  /\ ~m_running
  /\ pub_place' = "check"
  /\ UNCHANGED <<zmqVars, serverRest, m_running, req_place, request, bridges, received_packets, answered>>

Requests == ReqCheck \/ ReqMiss \/ ReqRecv \/ ReqReply \/ ReqForward
Publisher == PubCheck \/ Publish \/ PubWake

-----------------------------------------------------------------------------
(* The client *)

ClientStart ==
  /\ program = "test" => pc["server"] = "loop"
  /\ Goes("client", "start", "construct", Constructor["client"])
  /\ UNCHANGED <<startVars, threadVars, clientVars>>

ClientReady ==
  /\ Goes("client", "construct", "ready", <<>>)
  /\ UNCHANGED <<startVars, threadVars, clientVars>>

(* send_packet, from the request to the reply it waits for. *)
Call(packet) ==
  /\ calls < MaxCalls
  /\ pc["client"] = "ready"
  /\ SendBuffer(Sock("client", 2), to_request(packet))
  /\ pc' = [pc EXCEPT !["client"] = "reply"]
  /\ calls' = calls + 1
  /\ early' = IF subscription = "effective" THEN early \cup {packet.port} ELSE early
  /\ UNCHANGED <<startVars, script, attached, threadVars, subscription, stored, fetched>>

(* The reply goes to an empty buffer. *)
Return ==
  /\ pc["client"] = "reply"
  /\ RecvBuffer(Sock("client", 2))
  /\ pc' = [pc EXCEPT !["client"] = "ready"]
  /\ UNCHANGED <<startVars, script, attached, threadVars, clientVars>>

has_packets == stored # <<>>

(* while (!has_packets()), then get_packets. *)
Wait ==
  /\ calls > 0
  /\ Goes("client", "ready", "waiting", <<>>)
  /\ UNCHANGED <<startVars, threadVars, clientVars>>

Fetch ==
  /\ has_packets
  /\ Goes("client", "waiting", "ready", <<>>)
  /\ fetched' = fetched \o stored
  /\ stored' = <<>>
  /\ UNCHANGED <<startVars, threadVars, subscription, calls, early>>

Finish ==
  /\ Goes("client", "ready", "finished", <<>>)
  /\ UNCHANGED <<startVars, threadVars, clientVars>>

(* ~ZMQClient: the subscription thread has ended. *)
ClientDestroy ==
  /\ program = "test" => pc["server"] = "closed"
  /\ Goes("client", "finished", "destroy", Destructor["client"])
  /\ UNCHANGED <<startVars, threadVars, clientVars>>

ClientGone ==
  /\ Goes("client", "destroy", "gone", <<>>)
  /\ UNCHANGED <<startVars, threadVars, clientVars>>

User == ClientStart \/ ClientReady \/ Return \/ Fetch \/ ClientDestroy \/ ClientGone

(* Fault: the queue keeps the newest packet alone. *)
ReceiveNewest ==
  /\ pc["client"] \in {"ready", "reply", "waiting", "finished"}
  /\ RecvBuffer(Sock("client", 1))
  /\ stored' = <<to_packet_dropped(Head(zmq_sockets[_handle[Sock("client", 1)]].in))>>
  /\ UNCHANGED <<startVars, pc, script, attached, threadVars, subscription, fetched, calls, early>>

(* subscription_thread. *)
Receive ==
  /\ pc["client"] \in {"ready", "reply", "waiting", "finished"}
  /\ RecvBuffer(Sock("client", 1))
  /\ stored' = Append(stored, to_packet_dropped(Head(zmq_sockets[_handle[Sock("client", 1)]].in)))
  /\ UNCHANGED <<startVars, pc, script, attached, threadVars, subscription, fetched, calls, early>>

-----------------------------------------------------------------------------
(* libzmq's threads *)

(* The subscription reaches the publisher some time after it was set.       *)
SubscriptionArrives ==
  /\ subscription = "sent"
  /\ {Sock("client", 1), Sock("server", 1)} \subseteq attached
  /\ subscription' = "effective"
  /\ UNCHANGED <<zmqVars, startVars, pc, script, attached, threadVars, stored, fetched, calls, early>>

(* Who gets the message that socket h has to send: nobody, when there is no *)
(* subscriber for it, or the client has gone.                               *)
Peer(h, bytes) ==
  CASE zmq_sockets[h].type = "req" -> Sock("server", 2)
    [] zmq_sockets[h].type = "rep" -> Sock("client", 2)
    [] OTHER -> Sock("client", 1)

Takes(h, bytes) ==
  /\ Peer(h, bytes) \in attached
  /\ zmq_sockets[h].type = "pub" => subscription = "effective" /\ Selects(Topic, bytes)

(* A request waits for its server. *)
Carry(h) ==
  /\ zmq_sockets[h].out # <<>>
  /\ LET content == Head(zmq_sockets[h].out)
         bytes == zmq_contents[content].bytes
         to == _handle[Peer(h, bytes)]
     IN  /\ zmq_sockets[h].type = "req" => Takes(h, bytes)
         /\ zmq_sockets' = IF Takes(h, bytes)
                           THEN [Flushed(h) EXCEPT ![to].in = Append(@, bytes)]
                           ELSE Flushed(h)
         /\ zmq_contents' = Unref(content, zmq_contents)
  /\ UNCHANGED <<alive, contextVars, _handle, ctxptr, msg, startVars, pc, script, attached,
                 threadVars, clientVars>>

Network == SubscriptionArrives \/ \E h \in Handles : Carry(h)

-----------------------------------------------------------------------------
Init ==
  /\ ZmqInit
  /\ program \in {"main", "test"}
  /\ config_file \in IF program = "test" THEN {NoFile} ELSE Files \cup {NoFile}
  /\ document \in IF program = "test" THEN {YML_Config} ELSE Documents
  /\ m_cfg = EmptyDict
  /\ to_setup = {}
  /\ pc = [server |-> "args", client |-> "start"]
  /\ script = [o \in Owners |-> <<>>]
  /\ attached = {}
  /\ m_running = TRUE
  /\ req_place = "none" /\ pub_place = "none"
  /\ request = <<>>
  /\ bridges = {}
  /\ received_packets = <<>>
  /\ subscription = "none"
  /\ stored = <<>> /\ fetched = <<>>
  /\ calls = 0 /\ early = {}
  /\ answered = <<>>

Calls == \E payload \in Payloads : Call(spw_packet(payload, calls, "Mock"))

Next ==
  \/ \E o \in Owners : Step(o)
  \/ BindFails \/ Main \/ CloseBegin
  \/ Requests \/ Publisher
  \/ User \/ Calls \/ Wait \/ Finish \/ Receive
  \/ Network

(* Threads run when they can; nobody has to press Ctrl-C, to call, to wait  *)
(* or to finish.                                                            *)
Fairness ==
  /\ \A o \in Owners : WF_vars(Step(o))
  /\ WF_vars(Main) /\ WF_vars(Requests) /\ WF_vars(Publisher)
  /\ WF_vars(User) /\ WF_vars(Receive)
  /\ WF_vars(SubscriptionArrives) /\ \A h \in Handles : WF_vars(Carry(h))

Spec == Init /\ [][Next]_vars /\ Fairness

-----------------------------------------------------------------------------
(* Properties *)

ServerGone == ~m_running \/ pc["server"] \in {"exited", "aborted"}

(* The threads and the client are where their code is, no bridge runs that  *)
(* is not registered, and the zmq objects of both owners obey CppZmq.       *)
ProgramTypeOK ==
  /\ program \in {"main", "test"}
  /\ attached \subseteq Sockets
  /\ m_running \in BOOLEAN
  /\ req_place \in {"none", "check", "recv", "reply", "forward", "ended"}
  /\ pub_place \in {"none", "check", "take", "ended"}
  /\ bridges \subseteq factory
  /\ subscription \in {"none", "sent", "effective"}
  /\ calls \in 0 .. MaxCalls
  /\ early \subseteq 0 .. MaxCalls - 1
  /\ ContextsOwned /\ SocketsOwned

(* main.cpp, "Configuration file path" and "Loadding config file {}": the   *)
(* file that --config names is loaded, so the server is constructed with    *)
(* what the reader of the file's format finds below "server".               *)
Contents(file) ==
  IF file.suffix = "json" THEN from_json(document) ELSE from_yaml(document)

ConfigFileIsLoaded ==
  [][ /\ program = "main" /\ pc["server"] = "args" /\ pc'["server"] = "construct"
      /\ config_file.exists /\ config_file.suffix # "none"
      => m_cfg' = Below(Contents(config_file), "server") ]_vars

(* The same settings written in YAML and in JSON configure the same server. *)
FormatsAgree == SameInBoth(document)

(* The packets the client subscribed to. *)
OfTopic == {packet \in Packets : topic_of(packet) = Topic}

(* What the client has got is a part without gaps, in order, of the packets *)
(* of its topic that the bridges returned: the frames keep packets apart    *)
(* and whole, and only the packets before the subscription can be missing.  *)
NoGaps ==
  LET mine == Filter(answered, OfTopic)
      got == fetched \o stored
  IN  \E k \in 0 .. Len(mine) - Len(got) : got = SubSeq(mine, k + 1, k + Len(got))

(* A call of send_packet returns, or its server is gone; there is no other  *)
(* way out of it.                                                           *)
CallReturns == pc["client"] = "reply" ~> pc["client"] # "reply" \/ ServerGone

(* A packet of the topic that was sent once the subscription was effective  *)
(* and that a bridge returned comes to the client while the server runs.    *)
Holds(packets, n) == \E i \in DOMAIN packets : packets[i].port = n

SubscribedIsServed ==
  \A n \in 0 .. MaxCalls - 1 :
    (n \in early /\ \E i \in DOMAIN answered : answered[i].port = n /\ topic_of(answered[i]) = Topic)
      ~> (Holds(stored, n) \/ Holds(fetched, n) \/ ServerGone \/ pc["client"] = "destroy")

(* After close the program ends: what its sockets have not yet delivered    *)
(* holds the context back only for a while.                                 *)
ProgramEnds == ~m_running ~> pc["server"] = "exited"
=============================================================================
