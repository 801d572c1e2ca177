------------------------- MODULE MCSpaceWireBridge -------------------------
(* Small instance of SpaceWireBridge: two bridges.  The first is given three *)
(* packets to send, each one of two that come back, so that its senders may  *)
(* find its queue full and its packets can overtake each other; the link     *)
(* brings a packet to the second one, which shares the publish queue.        *)
(* MaxSent bounds the number of packets each bridge is given.                *)
EXTENDS SpaceWireBridge, TLC

CONSTANTS b1, b2, p1, p2, q1, MaxSent

ThreePackets == {p1, p2, q1}
ThreeBridgeOf == (p1 :> b1) @@ (p2 :> b1) @@ (q1 :> b2)

SentBound == (b1 :> 3) @@ (b2 :> 0)

MCNext == BridgeNext /\ \A b \in BridgeIds : Len(accepted'[b]) <= MaxSent[b]

MCSpec == BridgeInit /\ [][MCNext]_bridgeVars
=============================================================================
