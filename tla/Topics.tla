-------------------------------- MODULE Topics --------------------------------
(***************************************************************************)
(* The topics and the messages of src/src/SpaceWireZMQ.hpp.  A published    *)
(* packet travels as one message: the name of its topic, which the client's *)
(* subscription is a prefix of, and right after it the image of the packet. *)
(*                                                                         *)
(* A message is a sequence of characters and bytes; the image that the yas  *)
(* library makes of a packet is a header, the data, and the two remaining   *)
(* fields.  Positions are counted from 0 in the code and from 1 here.       *)
(***************************************************************************)
EXTENDS Integers, Sequences, SequencesExt

(* namespace topics::strings *)
RMAP == <<"/", "R", "M", "A", "P", "/">>
CCSDS == <<"/", "C", "C", "S", "D", "S", "/">>
EXTEND == <<"/", "E", "X", "T", "E", "N", "D", "/">>
GOES_R == <<"/", "G", "O", "E", "S", "_", "R", "/">>
STUP == <<"/", "S", "T", "U", "P", "/">>

table == <<RMAP, CCSDS, EXTEND, GOES_R, STUP>>

(* enum class types: the index in the table, and one more. *)
UNKNOWN == Len(table)
types == 0 .. UNKNOWN

(* The switch looks at the second character, the cases at the whole name.   *)
to_type(topic) ==
  LET case == {i \in 1 .. Len(table) : table[i][2] = topic[2] /\ topic = table[i]}
  IN  IF case = {} THEN UNKNOWN ELSE (CHOOSE i \in case : TRUE) - 1

to_string(topic) == IF topic >= Len(table) THEN <<>> ELSE table[topic + 1]

(* publish_packets: the topic of the protocols that have one. *)
topic_of(packet) ==
  CASE Head(packet.data) = "SPW_PROTO_ID_RMAP" -> 0
    [] Head(packet.data) = "SPW_PROTO_ID_CCSDS" -> 1
    [] Head(packet.data) = "SPW_PROTO_ID_EXTEND" -> 2
    [] Head(packet.data) = "SPW_PROTO_ID_GOES_R" -> 3
    [] Head(packet.data) = "SPW_PROTO_ID_STUP" -> 4
    [] OTHER -> UNKNOWN

-----------------------------------------------------------------------------
(* Where a topic ends *)

max_size == 16

(* The loop stops at the first slash after the one that begins the topic,   *)
(* or at max_size.                                                          *)
StopsAt(buffer, pos) ==
  /\ pos = max_size \/ buffer[pos + 1] = "/"
  /\ \A q \in 1 .. pos - 1 : buffer[q + 1] # "/"

end_of_topic(buffer) == 1 + (CHOOSE pos \in 1 .. max_size : StopsAt(buffer, pos))

(* The two assertions of end_of_topic. *)
HasTopic(buffer) == buffer[1] = "/" /\ buffer[end_of_topic(buffer)] = "/"

extract_topic(buffer) == SubSeq(buffer, 1, end_of_topic(buffer))

-----------------------------------------------------------------------------
(* Messages *)

spw_packet(data, port, bridge_id) == [data |-> data, port |-> port, bridge_id |-> bridge_id]

(* The yas library. *)
save(packet) == <<"yas">> \o packet.data \o <<packet.port, packet.bridge_id>>

load(buffer) ==
  spw_packet(SubSeq(buffer, 2, Len(buffer) - 2), buffer[Len(buffer) - 1], buffer[Len(buffer)])

Loads(buffer) == Len(buffer) > 2 /\ buffer[1] = "yas"

(* to_message with one and with two parameters. *)
to_request(packet) == save(packet)
to_message(topic, packet) == topic \o save(packet)

drop_topic(message) == SubSeq(message, end_of_topic(message) + 1, Len(message))

(* to_packet with drop_topic_t::no and with drop_topic_t::yes. *)
to_packet(message) == load(message)
to_packet_dropped(message) == load(drop_topic(message))

(* How a subscription selects messages: libzmq compares a prefix. *)
Selects(topic, message) == IsPrefix(to_string(topic), message)
=============================================================================
