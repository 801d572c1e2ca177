------------------------------ MODULE MCProgram ------------------------------
(* Small instance of Program.  libzmq hands out the handles in order.       *)
EXTENDS Program, TLC

MCContexts == Owners \X {"m_ctx", "context_t"} \cup {OwnCtx}
MCSockets == {"server"} \X {"pub", "rep", "socket_t"} \cup {"client"} \X {"sub", "req", "socket_t"}

MCNumber == [n \in {"30002", "70000", "+5"} |-> CASE n = "30002" -> 30002 [] n = "70000" -> 70000 [] OTHER -> 5]

Node(kind, text) == [kind |-> kind, text |-> text]
Object == Node("object", "")

Server(node) ==
  (<<>> :> Object) @@ (<<"server">> :> Object) @@ (<<"server", "pub_port">> :> node)
    @@ (<<"bridges">> :> Object) @@ (<<"bridges", "Mock">> :> Node("null", ""))

Array(node) == (<<>> :> Node("array", "")) @@ (<<"0">> :> node)

(* Maps with each kind of node, one that has an array below it, and         *)
(* documents that are no maps.                                              *)
MCDocuments ==
  {Server(node) : node \in
     {Node("integer", "30002"), Node("integer", "70000"), Node("float", "1.5"),
      Node("boolean", "true"), Node("boolean", "false"), Node("string", "30002"),
      Node("string", ""), Node("string", "text"), Node("null", "")}}
  \cup {Server(Node("array", "")) @@ (<<"server", "pub_port", "0">> :> Node("integer", "30002")),
        Array(Node("integer", "30002")), <<>> :> Node("string", "text"), EmptyDocument}

MCYML_Config == (<<>> :> Object) @@ (<<"Mock">> :> Node("null", ""))

MCRegistered == <<"Mock">>

MCFiles == [exists : BOOLEAN, suffix : {"yaml", "json", "none"}]

MCPayloads == {<<"SPW_PROTO_ID_RMAP", "/">>, <<"SPW_PROTO_ID_CCSDS">>, <<"OTHER">>}

LeastFirst ==
  /\ \A h \in zmq_contexts' \ zmq_contexts : 1 .. h - 1 \subseteq zmq_contexts
  /\ \A h \in Handles : ~IsSocket(h) /\ IsSocket(h)' => \A g \in 1 .. h - 1 : IsSocket(g)
  /\ \A h \in Handles : ~IsContent(h) /\ IsContent(h)' => \A g \in 1 .. h - 1 : IsContent(g)

(* The constructors, which share nothing, run one after the other, in       *)
(* either order.                                                            *)
Constructing(o) == pc[o] = "construct" /\ script[o] # Constructor[o]

OneConstructor ==
  /\ ~(Constructing("server")' /\ Constructing("client")')
  /\ pc["server"] = "args" => pc'["client"] = "start"

(* Of the MaxCalls calls the second one may be off the topic. *)
OffTopicSecond == \A packet \in Packets \ OfTopic : packet.port # 1 => ~Call(packet)

MCSpec == Init /\ [][Next /\ LeastFirst /\ OneConstructor /\ OffTopicSecond]_vars /\ Fairness
=============================================================================
