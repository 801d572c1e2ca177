-------------------------- MODULE PacketQueueProofs --------------------------
(***************************************************************************)
(* Lemmas about queues and pipelines, for any capacity and any packets.     *)
(* The proofs of the components that hold queues cite them.                 *)
(***************************************************************************)
EXTENDS PacketQueue, SequenceTheorems, TLAPS

(* add keeps the type and the capacity of a queue whose add may return. *)
LEMMA AddKeepsQueue ==
  ASSUME NEW S, NEW q \in QueueOf(S), NEW packet \in S,
         WithinCapacity(q), AddReturns(q)
  PROVE  Add(q, packet) \in QueueOf(S) /\ WithinCapacity(Add(q, packet))
BY QueueCapacityAssumption, AppendProperties
   DEF QueueOf, WithinCapacity, AddReturns, Add

(* take removes the first packet of a queue and keeps the rest in order. *)
LEMMA TakeKeepsQueue ==
  ASSUME NEW S, NEW q \in QueueOf(S), WithinCapacity(q), TakesPacket(q)
  PROVE  /\ First(q) \in S
         /\ AfterTake(q) \in QueueOf(S)
         /\ AfterTake(q).closed = q.closed
         /\ WithinCapacity(AfterTake(q))
         /\ q.items = <<First(q)>> \o AfterTake(q).items
<1>1. q.items \in Seq(S) /\ q.items # <<>> /\ q.closed \in BOOLEAN
  BY DEF QueueOf, TakesPacket
<1>2. /\ Head(q.items) \in S
      /\ Tail(q.items) \in Seq(S)
      /\ Len(Tail(q.items)) = Len(q.items) - 1
  BY <1>1, HeadTailProperties
<1>3. AfterTake(q) = [items |-> Tail(q.items), closed |-> q.closed]
  BY DEF AfterTake
<1>4. q.items = <<Head(q.items)>> \o Tail(q.items)
  BY <1>1
<1>5. QED
  BY <1>1, <1>2, <1>3, <1>4, QueueCapacityAssumption, LenProperties
     DEF QueueOf, First, WithinCapacity

(* close changes nothing but the flag. *)
LEMMA CloseKeepsQueue ==
  ASSUME NEW S, NEW q \in QueueOf(S)
  PROVE  Close(q) = [items |-> q.items, closed |-> TRUE] /\ Close(q) \in QueueOf(S)
BY DEF QueueOf, Close

(* Pipelines of packets: their type, and the three ways a packet moves.     *)
LEMMA PipelineType ==
  ASSUME NEW S, NEW s \in Seq(S), NEW t \in Seq(S), NEW u \in Seq(S)
  PROVE  Pipeline(s, t, u) \in Seq(S)
BY ConcatProperties DEF Pipeline

(* a packet joins the end of what waits, *)
LEMMA AppendPipeline ==
  ASSUME NEW S, NEW s \in Seq(S), NEW t \in Seq(S), NEW u \in Seq(S), NEW e \in S
  PROVE  Append(Pipeline(s, t, u), e) = Pipeline(s, t, Append(u, e))
<1> DEFINE one == <<e>>
           all == Pipeline(s, t, u)
<1>1. Append(all, e) = all \o one
  <2>1. all \in Seq(S)
    BY PipelineType
  <2> HIDE DEF all
  <2>2. QED
    BY <2>1, AppendIsConcat
<1>2. Append(u, e) = u \o one
  BY AppendIsConcat
<1>3. all \o one = Pipeline(s, t, u \o one)
  <2> DEFINE tu == t \o u
  <2>1. one \in Seq(S)
    OBVIOUS
  <2>2. tu \in Seq(S)
    BY ConcatProperties
  <2> HIDE DEF one, all
  <2>3. tu \o one = t \o (u \o one)
    BY <2>1, ConcatAssociative
  <2> HIDE DEF tu
  <2>4. (s \o tu) \o one = s \o (tu \o one)
    BY <2>1, <2>2, ConcatAssociative, SMTT(30)
  <2>5. QED
    BY <2>3, <2>4 DEF tu, all, Pipeline
<1>4. QED
  BY <1>1, <1>2, <1>3

(* the thread takes the first one, *)
LEMMA TakePipeline ==
  ASSUME NEW S, NEW s \in Seq(S), NEW e \in S, NEW u \in Seq(S)
  PROVE  Pipeline(s, <<>>, <<e>> \o u) = Pipeline(s, <<e>>, u)
<1>1. <<e>> \o u \in Seq(S)
  BY ConcatProperties
<1>2. <<>> \o (<<e>> \o u) = <<e>> \o u
  BY <1>1, ConcatEmptySeq
<1>3. QED
  BY <1>2 DEF Pipeline

(* and hands it over. *)
LEMMA AdvancePipeline ==
  ASSUME NEW S, NEW s \in Seq(S), NEW t \in Seq(S), NEW u \in Seq(S)
  PROVE  Pipeline(s, t, u) = Pipeline(s \o t, <<>>, u)
<1>1. <<>> \o u = u
  BY ConcatEmptySeq
<1>2. (s \o t) \o u = s \o (t \o u)
  BY ConcatAssociative
<1>3. QED
  BY <1>1, <1>2 DEF Pipeline

(* The packet in hand is the first one of the pipeline not handed over yet.  *)
LEMMA HandIsNext ==
  ASSUME NEW S, NEW s \in Seq(S), NEW e \in S, NEW u \in Seq(S)
  PROVE  /\ Len(s) < Len(Pipeline(s, <<e>>, u))
         /\ Pipeline(s, <<e>>, u)[Len(s) + 1] = e
<1> DEFINE tu == <<e>> \o u
<1>1. /\ tu \in Seq(S) /\ Len(tu) = 1 + Len(u)
      /\ tu[1] = e
  BY ConcatProperties, LenProperties
<1>2. Len(s) \in Nat /\ Len(u) \in Nat
  BY LenProperties
<1> HIDE DEF tu
<1>3. Len(s \o tu) = Len(s) + Len(tu)
  BY <1>1
<1>4. (s \o tu)[Len(s) + 1] = tu[1]
  BY <1>1, <1>2
<1>5. QED
  BY <1>1, <1>2, <1>3, <1>4 DEF Pipeline, tu
=============================================================================
