---------------------------- MODULE MCZMQClient ----------------------------
(* Small instance of ZMQClient: two messages of topic 0, one of topic 1, a  *)
(* user that reads both queues and one that reads the second, for either    *)
(* policy.                                                                  *)
EXTENDS ZMQClient, TLC

CONSTANTS m1, m2, n1, u1, u2

MCMessages == {m1, m2, n1}
MCTopicOf == (m1 :> 0) @@ (m2 :> 0) @@ (n1 :> 1)
MCReads == (u1 :> {0, 1}) @@ (u2 :> {1})

BothOrUnknown == {<<0, 1>>, <<0, UNKNOWN>>}
=============================================================================
