------------------------------ MODULE MCCppZmq ------------------------------
(* Small instance of CppZmq: two objects of each kind; at most MaxOut       *)
(* messages wait in a socket, on either side.  No property and no action    *)
(* tells two objects of a kind, or two handles, apart.                      *)
EXTENDS CppZmq, TLC

CONSTANT MaxOut

MCZmqNext ==
  /\ ZmqNext
  /\ \A h \in Handles : Len(zmq_sockets'[h].out) <= MaxOut /\ Len(zmq_sockets'[h].in) <= MaxOut

MCZmqSpec == ZmqInit /\ [][MCZmqNext]_zmqVars

MCSymmetry ==
  UNION {Permutations(Contexts), Permutations(Sockets), Permutations(Messages),
         Permutations(Handles)}
=============================================================================
