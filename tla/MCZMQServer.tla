---------------------------- MODULE MCZMQServer ----------------------------
(* Small instance of ZMQServer: three packets for the one bridge that can   *)
(* be loaded, b1; the configuration names b2 first, whose type is not       *)
(* registered.  c1 has two of the packets, c2 the third one.                *)
EXTENDS ZMQServer, TLC

CONSTANTS b1, b2, c1, c2, p1, p2, q

MCPackets == {p1, p2, q}
MCBridgeOf == [packet \in MCPackets |-> b1]
MCScript == (c1 :> <<p1, p2>>) @@ (c2 :> <<q>>)
MCConfigured == <<b2, b1>>
=============================================================================
