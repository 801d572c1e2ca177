---------------------------- MODULE PacketQueue ----------------------------
(***************************************************************************)
(* packet_queue of src/src/PacketQueue.hpp: a channels::channel of          *)
(* spw_packet with a fixed capacity and the full_policy wait_for_space.     *)
(* The channels library is not part of the repository, so its behaviour is  *)
(* the one its users rely on:                                               *)
(*  - a producer (add, operator<<) waits while the queue is full, and close *)
(*    releases it (the destructors close the queues, then join producers);  *)
(*  - a consumer (take) waits while the queue is empty, and close releases  *)
(*    it with an empty optional (every caller of take tests the optional);  *)
(*  - what is added to a closed queue is dropped.                           *)
(* A queue is a value, the variables that hold one belong to its users.     *)
(***************************************************************************)
EXTENDS Naturals, Sequences

CONSTANT QueueCapacity   (* 128 in the code *)

ASSUME QueueCapacityAssumption == QueueCapacity \in Nat \ {0}

QueueOf(S) == [items : Seq(S), closed : BOOLEAN]

EmptyQueue == [items |-> <<>>, closed |-> FALSE]

(* Fault: full_policy that does not wait for space. *)
AddNeverWaits(q) == TRUE

(* A pending add returns: there is space, or the queue was closed. *)
AddReturns(q) == q.closed \/ Len(q.items) < QueueCapacity

(* Fault: the packet is put at the wrong end. *)
AddInFront(q, packet) ==
  [items |-> IF q.closed THEN q.items ELSE <<packet>> \o q.items, closed |-> q.closed]

Add(q, packet) ==
  [items |-> IF q.closed THEN q.items ELSE Append(q.items, packet), closed |-> q.closed]

(* A pending take returns a packet.  On a closed queue it may as well       *)
(* return the empty optional (TakesNothing): the users rely on neither.     *)
TakesPacket(q) == q.items # <<>>
TakesNothing(q) == q.closed

First(q) == Head(q.items)

AfterTake(q) == [items |-> Tail(q.items), closed |-> q.closed]

Close(q) == [items |-> q.items, closed |-> TRUE]

WithinCapacity(q) == Len(q.items) <= QueueCapacity

(* What went through a thread, oldest first: what it has handed over, what  *)
(* it has in hand and what still waits for it.                              *)
Pipeline(over, hand, waiting) == over \o (hand \o waiting)
=============================================================================
