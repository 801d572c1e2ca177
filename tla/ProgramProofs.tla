----------------------------- MODULE ProgramProofs -----------------------------
(***************************************************************************)
(* What holds of a whole run, for any configuration files, packets and      *)
(* number of calls: first what its parts promise, the two readers of the    *)
(* configuration and the frames, then the program made of them.             *)
(***************************************************************************)
EXTENDS Program, CppZmqProofs, HistoriesProofs, SequenceTheorems, TLAPS

-----------------------------------------------------------------------------
(* A configuration file says the same in either format.                     *)

(* A number below the modulus is its own remainder. *)
LEMMA SmallRemainder ==
  ASSUME NEW a \in Nat, NEW m \in Nat \ {0}, a < m
  PROVE  a % m = a
OBVIOUS

(* json_io.hpp: a number that fits in an int is not changed.                *)
LEMMA IntsKept ==
  ASSUME NEW n \in Int, IsInt(n)
  PROVE  ToInt(n) = n
<1>1. IntMax \in Nat
  BY ConfigAssumption
<1>2. /\ n + IntMax + 1 \in Nat
      /\ 2 * (IntMax + 1) \in Nat \ {0}
      /\ n + IntMax + 1 < 2 * (IntMax + 1)
  BY <1>1 DEF IsInt
<1>3. (n + IntMax + 1) % (2 * (IntMax + 1)) = n + IntMax + 1
  BY <1>2, SmallRemainder
<1> QED BY <1>1, <1>3 DEF ToInt

(* A plain scalar is typed from its text as JSON marks it, and neither      *)
(* reader throws.                                                           *)
LEMMA ScalarsAgree ==
  ASSUME NEW node, NodeOK(node), node.kind \in Scalars, Plain(node)
  PROVE  _handle_scalar(node.text) = _load_config(node)
<1> DEFINE text == node.text
<1>1. CASE node.kind = "string"
  <2>1. text \notin bool_regex \cup float_regex
    BY <1>1 DEF Plain
  <2>2. str_type(text) = "String"
    BY <2>1 DEF str_type, float_regex
  <2> QED BY <1>1, <2>2 DEF _handle_scalar, _load_config
<1>2. CASE node.kind = "boolean"
  <2>1. text = "true"
    BY <1>2 DEF Plain
  <2>2. text \notin float_regex /\ text \notin int_regex
    BY <2>1, ConfigAssumption DEF float_regex, int_regex
  <2>3. str_type(text) = "Bool"
    BY <2>1, <2>2 DEF str_type, bool_regex
  <2> QED BY <1>2, <2>1, <2>3 DEF _handle_scalar, _load_config
<1>3. CASE node.kind = "integer"
  <2>1. text \in DOMAIN Number /\ Number[text] \in Int /\ text \notin bool_regex
    BY <1>3, ConfigAssumption DEF NodeOK, bool_regex
  <2>2. IsInt(Number[text])
    BY <1>3 DEF Plain
  <2>3. str_type(text) = "Int"
    BY <2>1 DEF str_type, int_regex
  <2>4. ToInt(Number[text]) = Number[text]
    BY <2>1, <2>2, IntsKept
  <2>5. _handle_scalar(text) = Value("int", Number[text])
    BY <2>2, <2>3 DEF _handle_scalar
  <2>6. _load_config(node) = Value("int", Number[text])
    BY <1>3, <2>4 DEF _load_config
  <2> QED BY <2>5, <2>6
<1>4. CASE node.kind = "float"
  <2>1. text \in Decimals /\ text \notin bool_regex /\ text \notin int_regex
    BY <1>4, ConfigAssumption DEF NodeOK, bool_regex, int_regex
  <2>2. str_type(text) = "Float"
    BY <2>1 DEF str_type, float_regex
  <2> QED BY <1>4, <2>2 DEF _handle_scalar, _load_config
<1> QED BY <1>1, <1>2, <1>3, <1>4 DEF Scalars

(* yaml_io.hpp and json_io.hpp: every document that is a map and whose      *)
(* texts are plain gives the same dictionary in either format.              *)
THEOREM PlainDocumentsAgree ==
  ASSUME NEW doc, DocumentOK(doc)
  PROVE  SameInBoth(doc)
<1> SUFFICES ASSUME doc[<<>>].kind = "object", PlainDocument(doc)
             PROVE  from_yaml(doc) = from_json(doc)
  BY DEF SameInBoth
<1> DEFINE yaml(path) == IF doc[path].kind \in Scalars
                         THEN _handle_scalar(doc[path].text) ELSE NoValue
           json(path) == _load_config(doc[path])
<1>1. ASSUME NEW path \in DOMAIN doc
      PROVE  yaml(path) = json(path)
  <2>1. NodeOK(doc[path]) /\ Plain(doc[path])
    BY DEF DocumentOK, PlainDocument
  <2>2. CASE doc[path].kind \in Scalars
    BY <2>1, <2>2, ScalarsAgree
  <2>3. CASE doc[path].kind \notin Scalars
    BY <2>3 DEF _load_config, Scalars
  <2> QED BY <2>2, <2>3
<1>2. MapNodes(doc) = ItemNodes(doc) /\ MapNodes(doc) \subseteq DOMAIN doc
  BY DEF MapNodes, ItemNodes
<1>3. ASSUME NEW path \in MapNodes(doc)
      PROVE  json(path) # Throws
  BY DEF _load_config, Throws, NoValue, Value
<1>4. [path \in MapNodes(doc) |-> yaml(path)] = [path \in ItemNodes(doc) |-> json(path)]
  BY <1>1, <1>2
<1> DEFINE dict == [path \in ItemNodes(doc) |-> json(path)]
<1>5. Loaded(dict) = dict
  BY <1>2, <1>3 DEF Loaded
<1>6. from_json(doc) = dict
  BY DEF from_json, Scalars
<1> QED BY <1>4, <1>5, <1>6 DEF from_yaml

-----------------------------------------------------------------------------
(* A packet can be found again in its frame, for every topic and packet.    *)

(* What end_of_topic relies on: a slash at either end and none between,     *)
(* within max_size.                                                         *)
IsName(topic) ==
  /\ Len(topic) \in 3 .. max_size
  /\ topic[1] = "/" /\ topic[Len(topic)] = "/"
  /\ \A pos \in 2 .. Len(topic) - 1 : topic[pos] # "/"

Characters ==
  {"/", "_", "A", "C", "D", "E", "G", "M", "N", "O", "P", "R", "S", "T", "U", "X"}

(* SpaceWireZMQ.hpp: every string of the table is such a name.              *)
LEMMA TableOfNames ==
  \A i \in 1 .. Len(table) : table[i] \in Seq(Characters) /\ IsName(table[i])
<1>1. RMAP \in Seq(Characters) /\ IsName(RMAP)
  <2>1. RMAP \in Seq(Characters) /\ Len(RMAP) = 6
    BY DEF RMAP, Characters
  <2>2. RMAP[1] = "/" /\ RMAP[6] = "/"
    BY DEF RMAP
  <2>3. RMAP[2] # "/" /\ RMAP[3] # "/" /\ RMAP[4] # "/" /\ RMAP[5] # "/"
    BY DEF RMAP
  <2>4. ASSUME NEW pos \in 2 .. 5
        PROVE  RMAP[pos] # "/"
    <3>1. pos \in {2, 3, 4, 5}
      OBVIOUS
    <3> QED BY <2>3, <3>1
  <2> QED BY <2>1, <2>2, <2>4 DEF IsName, max_size
<1>2. CCSDS \in Seq(Characters) /\ IsName(CCSDS)
  <2>1. CCSDS \in Seq(Characters) /\ Len(CCSDS) = 7
    BY DEF CCSDS, Characters
  <2>2. CCSDS[1] = "/" /\ CCSDS[7] = "/"
    BY DEF CCSDS
  <2>3. CCSDS[2] # "/" /\ CCSDS[3] # "/" /\ CCSDS[4] # "/" /\ CCSDS[5] # "/" /\ CCSDS[6] # "/"
    BY DEF CCSDS
  <2>4. ASSUME NEW pos \in 2 .. 6
        PROVE  CCSDS[pos] # "/"
    <3>1. pos \in {2, 3, 4, 5, 6}
      OBVIOUS
    <3> QED BY <2>3, <3>1
  <2> QED BY <2>1, <2>2, <2>4 DEF IsName, max_size
<1>3. EXTEND \in Seq(Characters) /\ IsName(EXTEND)
  <2>1. EXTEND \in Seq(Characters) /\ Len(EXTEND) = 8
    BY DEF EXTEND, Characters
  <2>2. EXTEND[1] = "/" /\ EXTEND[8] = "/"
    BY DEF EXTEND
  <2>3. /\ EXTEND[2] # "/" /\ EXTEND[3] # "/" /\ EXTEND[4] # "/"
        /\ EXTEND[5] # "/" /\ EXTEND[6] # "/" /\ EXTEND[7] # "/"
    BY DEF EXTEND
  <2>4. ASSUME NEW pos \in 2 .. 7
        PROVE  EXTEND[pos] # "/"
    <3>1. pos \in {2, 3, 4, 5, 6, 7}
      OBVIOUS
    <3> QED BY <2>3, <3>1
  <2> QED BY <2>1, <2>2, <2>4 DEF IsName, max_size
<1>4. GOES_R \in Seq(Characters) /\ IsName(GOES_R)
  <2>1. GOES_R \in Seq(Characters) /\ Len(GOES_R) = 8
    BY DEF GOES_R, Characters
  <2>2. GOES_R[1] = "/" /\ GOES_R[8] = "/"
    BY DEF GOES_R
  <2>3. /\ GOES_R[2] # "/" /\ GOES_R[3] # "/" /\ GOES_R[4] # "/"
        /\ GOES_R[5] # "/" /\ GOES_R[6] # "/" /\ GOES_R[7] # "/"
    BY DEF GOES_R
  <2>4. ASSUME NEW pos \in 2 .. 7
        PROVE  GOES_R[pos] # "/"
    <3>1. pos \in {2, 3, 4, 5, 6, 7}
      OBVIOUS
    <3> QED BY <2>3, <3>1
  <2> QED BY <2>1, <2>2, <2>4 DEF IsName, max_size
<1>5. STUP \in Seq(Characters) /\ IsName(STUP)
  <2>1. STUP \in Seq(Characters) /\ Len(STUP) = 6
    BY DEF STUP, Characters
  <2>2. STUP[1] = "/" /\ STUP[6] = "/"
    BY DEF STUP
  <2>3. STUP[2] # "/" /\ STUP[3] # "/" /\ STUP[4] # "/" /\ STUP[5] # "/"
    BY DEF STUP
  <2>4. ASSUME NEW pos \in 2 .. 5
        PROVE  STUP[pos] # "/"
    <3>1. pos \in {2, 3, 4, 5}
      OBVIOUS
    <3> QED BY <2>3, <3>1
  <2> QED BY <2>1, <2>2, <2>4 DEF IsName, max_size
<1>6. /\ Len(table) = 5
      /\ table[1] = RMAP /\ table[2] = CCSDS /\ table[3] = EXTEND
      /\ table[4] = GOES_R /\ table[5] = STUP
  BY DEF table
<1>7. ASSUME NEW i \in 1 .. Len(table)
      PROVE  table[i] \in Seq(Characters) /\ IsName(table[i])
  <2>1. i \in {1, 2, 3, 4, 5}
    BY <1>6
  <2> QED BY <1>1, <1>2, <1>3, <1>4, <1>5, <1>6, <2>1
<1> QED BY <1>7

(* A name is not empty. *)
LEMMA NameLength ==
  ASSUME NEW name, IsName(name)
  PROVE  Len(name) \in Nat /\ Len(name) >= 3
<1> DEFINE length == Len(name)
<1>1. length \in 3 .. 16
  BY DEF IsName, max_size
<1> HIDE DEF length
<1>2. length \in Nat /\ length >= 3
  BY <1>1
<1> QED BY <1>2 DEF length

(* The switch of to_type tells the strings apart by the second character.   *)
LEMMA TableIsInjective ==
  ASSUME NEW i \in 1 .. 5, NEW j \in 1 .. 5, table[i] = table[j]
  PROVE  i = j
<1>1. /\ table[1][2] = "R" /\ table[2][2] = "C" /\ table[3][2] = "E"
      /\ table[4][2] = "G" /\ table[5][2] = "S"
  BY DEF table, RMAP, CCSDS, EXTEND, GOES_R, STUP
<1>2. i \in {1, 2, 3, 4, 5} /\ j \in {1, 2, 3, 4, 5}
  OBVIOUS
<1> QED BY <1>1, <1>2

(* The loop of end_of_topic stops at the end of the name, whatever follows. *)
LEMMA EndOfName ==
  ASSUME NEW S, NEW name \in Seq(S), IsName(name), NEW rest \in Seq(S)
  PROVE  end_of_topic(name \o rest) = Len(name)
<1> DEFINE buffer == name \o rest
           last == Len(name) - 1
<1>1. \A pos \in 1 .. Len(name) : buffer[pos] = name[pos]
  BY DEF IsName
<1>2. last \in 2 .. max_size - 1
  BY DEF IsName, max_size
<1>3. StopsAt(buffer, last)
  <2>1. buffer[last + 1] = "/"
    BY <1>1, <1>2 DEF IsName, max_size
  <2>2. ASSUME NEW q \in 1 .. last - 1
        PROVE  buffer[q + 1] # "/"
    BY <1>1, <1>2 DEF IsName, max_size
  <2> QED BY <2>1, <2>2 DEF StopsAt
<1> HIDE DEF buffer, last
<1>4. ASSUME NEW pos \in 1 .. max_size, StopsAt(buffer, pos)
      PROVE  pos = last
  <2>1. ~(last < pos)
    <3>1. ASSUME last < pos
          PROVE  FALSE
      <4>1. last \in 1 .. pos - 1
        BY <1>2, <3>1 DEF max_size
      <4>2. buffer[last + 1] # "/"
        BY <1>4, <4>1 DEF StopsAt
      <4> QED BY <1>3, <1>2, <4>2 DEF StopsAt, max_size
    <3> QED BY <3>1
  <2>2. ~(pos < last)
    <3>1. ASSUME pos < last
          PROVE  FALSE
      <4>1. pos \in 1 .. last - 1 /\ pos # max_size
        BY <1>2, <3>1 DEF max_size
      <4>2. buffer[pos + 1] = "/"
        BY <1>4, <4>1 DEF StopsAt
      <4> QED BY <1>3, <4>1, <4>2 DEF StopsAt
    <3> QED BY <3>1
  <2> QED BY <1>2, <2>1, <2>2 DEF max_size
<1>5. (CHOOSE pos \in 1 .. max_size : StopsAt(buffer, pos)) = last
  BY <1>2, <1>3, <1>4 DEF max_size
<1>6. end_of_topic(buffer) = 1 + last
  BY <1>5 DEF end_of_topic
<1> QED BY <1>6 DEF buffer, last, IsName

(* end_of_topic, extract_topic and drop_topic: a frame that begins with a   *)
(* topic of the table passes the assertions, and is cut right behind it,    *)
(* whatever the packet's image is.                                          *)
THEOREM FramesAreCutRight ==
  ASSUME NEW topic \in types \ {UNKNOWN}, NEW S, Characters \subseteq S,
         NEW image \in Seq(S), image # <<>>
  PROVE  LET message == to_string(topic) \o image
         IN  /\ HasTopic(message)
             /\ extract_topic(message) = to_string(topic)
             /\ drop_topic(message) = image
<1> DEFINE name == to_string(topic)
           message == name \o image
<1>1. name \in Seq(S) /\ IsName(name)
  <2>1. topic + 1 \in 1 .. Len(table) /\ name = table[topic + 1]
    BY DEF types, UNKNOWN, to_string, table
  <2>2. table[topic + 1] \in Seq(Characters) /\ IsName(table[topic + 1])
    BY <2>1, TableOfNames
  <2>3. table[topic + 1] \in Seq(S)
    BY <2>2, SeqMonotonic
  <2> QED BY <2>1, <2>2, <2>3
<1> HIDE DEF name
<1>2. end_of_topic(message) = Len(name)
  BY <1>1, EndOfName
<1>3. /\ message \in Seq(S)
      /\ Len(message) = Len(name) + Len(image)
      /\ \A pos \in 1 .. Len(name) : message[pos] = name[pos]
  BY <1>1, ConcatProperties
<1>4. Len(name) \in Nat /\ Len(name) >= 3 /\ Len(image) \in Nat /\ Len(image) > 0
  BY <1>1, NameLength
<1> HIDE DEF message
<1>5. HasTopic(message)
  BY <1>1, <1>2, <1>3, <1>4 DEF HasTopic, IsName
<1>6. extract_topic(message) = name
  <2>1. SubSeq(message, 1, Len(name)) = SubSeq(name, 1, Len(name))
    BY <1>1, <1>4, SubSeqOfConcat1 DEF message
  <2> QED BY <1>1, <1>2, <2>1, SubSeqFull DEF extract_topic
<1>7. drop_topic(message) = image
  <2>1. SubSeq(message, Len(name) + 1, Len(message)) = SubSeq(image, 1, Len(image))
    <3>1. SubSeq(message, Len(name) + 1, Len(name) + Len(image))
            = SubSeq(image, Len(name) + 1 - Len(name), Len(name) + Len(image) - Len(name))
      BY <1>1, <1>4, SubSeqOfConcat2 DEF message
    <3> QED BY <1>3, <1>4, <3>1
  <2> QED BY <1>2, <2>1, SubSeqFull DEF drop_topic
<1> QED BY <1>5, <1>6, <1>7 DEF name, message

(* ZMQClient.hpp: a subscription, which libzmq compares with the beginning  *)
(* of a frame, selects the frames of its own topic and of no other one.     *)
THEOREM SubscriptionsSelectTheirTopic ==
  ASSUME NEW topic \in types \ {UNKNOWN}, NEW other \in types \ {UNKNOWN},
         NEW S, Characters \subseteq S, NEW image \in Seq(S)
  PROVE  Selects(other, to_string(topic) \o image) <=> other = topic
<1> DEFINE name(t) == to_string(t)
           message == name(topic) \o image
<1>1. ASSUME NEW t \in types \ {UNKNOWN}
      PROVE  name(t) \in Seq(S) /\ IsName(name(t)) /\ name(t) = table[t + 1]
  <2>1. t + 1 \in 1 .. Len(table) /\ name(t) = table[t + 1]
    BY DEF types, UNKNOWN, to_string, table
  <2>2. table[t + 1] \in Seq(Characters) /\ IsName(table[t + 1])
    BY <2>1, TableOfNames
  <2>3. table[t + 1] \in Seq(S)
    BY <2>2, SeqMonotonic
  <2> QED BY <2>1, <2>2, <2>3
<1> HIDE DEF name
<1>2. message \in Seq(S) /\ Len(message) = Len(name(topic)) + Len(image)
  BY <1>1, ConcatProperties
<1>3. /\ Len(name(topic)) \in Nat /\ Len(name(topic)) >= 3
      /\ Len(name(other)) \in Nat /\ Len(name(other)) >= 3
  BY <1>1, NameLength
<1>4. SubSeq(message, 1, Len(name(topic))) = name(topic)
  <2>1. SubSeq(message, 1, Len(name(topic))) = SubSeq(name(topic), 1, Len(name(topic)))
    BY <1>1, <1>3, SubSeqOfConcat1
  <2> QED BY <1>1, <2>1, SubSeqFull
<1>5. ASSUME other = topic
      PROVE  IsPrefix(name(other), message)
  BY <1>1, <1>2, <1>3, <1>4, <1>5, SubSeqFull DEF IsPrefix
<1>6. ASSUME IsPrefix(name(other), message)
      PROVE  other = topic
  <2> DEFINE rest == SubSeq(message, Len(name(other)) + 1, Len(message))
  <2>1. name(other) = SubSeq(message, 1, Len(name(other)))
    BY <1>1, <1>6, SubSeqFull DEF IsPrefix
  <2>2. Len(name(other)) <= Len(message)
    BY <1>6 DEF IsPrefix
  <2> HIDE DEF message
  <2>3. rest \in Seq(S)
    BY <1>2, <1>3, <2>2, SubSeqProperties
  <2>4. message = name(other) \o rest
    <3>1. /\ message \in Seq(S)
          /\ 1 \in 1 .. Len(message) + 1
          /\ Len(name(other)) \in 1 - 1 .. Len(message)
          /\ Len(message) \in Len(name(other)) .. Len(message)
      <4>1. Len(name(other)) \in Nat /\ Len(message) \in Nat
        BY <1>2, <1>3
      <4> QED BY <1>2, <2>2, <4>1
    <3>2. SubSeq(message, 1, Len(name(other))) \o rest = SubSeq(message, 1, Len(message))
      BY <3>1, ConcatAdjacentSubSeq
    <3> QED BY <1>2, <2>1, <3>2, SubSeqFull
  <2> HIDE DEF rest
  <2>5. end_of_topic(message) = Len(name(other))
    BY <1>1, <2>3, <2>4, EndOfName
  <2>6. end_of_topic(message) = Len(name(topic))
    BY <1>1, EndOfName DEF message
  <2>7. table[other + 1] = table[topic + 1]
    BY <1>1, <1>4, <2>1, <2>5, <2>6
  <2>8. other + 1 \in 1 .. 5 /\ topic + 1 \in 1 .. 5
    BY DEF types, UNKNOWN, table
  <2>9. other + 1 = topic + 1
    BY <2>7, <2>8, TableIsInjective
  <2> QED BY <2>9 DEF types, UNKNOWN, table
<1> QED BY <1>5, <1>6 DEF Selects, name

(* The image of a packet is read back as the packet. *)
LEMMA ImagesLoad ==
  ASSUME NEW S, "yas" \in S, NEW payload \in Seq(S), NEW port \in S, NEW bridge_id \in S
  PROVE  LET packet == spw_packet(payload, port, bridge_id)
         IN  save(packet) \in Seq(S) /\ save(packet) # <<>> /\ load(save(packet)) = packet
<1> DEFINE packet == spw_packet(payload, port, bridge_id)
           image == save(packet)
<1>1. image = <<"yas">> \o payload \o <<port, bridge_id>>
  BY DEF save, spw_packet
<1>2. <<"yas">> \in Seq(S) /\ <<port, bridge_id>> \in Seq(S)
  OBVIOUS
<1>3. <<"yas">> \o payload \in Seq(S) /\ Len(<<"yas">> \o payload) = 1 + Len(payload)
  BY <1>2, ConcatProperties
<1>4. /\ image \in Seq(S)
      /\ Len(image) = Len(payload) + 3
      /\ image[Len(payload) + 2] = port
      /\ image[Len(payload) + 3] = bridge_id
  BY <1>1, <1>2, <1>3, ConcatProperties
<1>5. SubSeq(image, 2, Len(payload) + 1) = payload
  <2>1. CASE payload = <<>>
    BY <1>4, <2>1, SubSeqEmpty
  <2>2. CASE payload # <<>>
    <3>1. SubSeq(image, 2, Len(payload) + 1) = SubSeq(<<"yas">> \o payload, 2, Len(payload) + 1)
      BY <1>1, <1>2, <1>3, <2>2, SubSeqOfConcat1
    <3>2. SubSeq(<<"yas">> \o payload, 2, Len(payload) + 1) = SubSeq(payload, 1, Len(payload))
      BY <1>2, <2>2, SubSeqOfConcat2
    <3> QED BY <3>1, <3>2, SubSeqFull
  <2> QED BY <2>1, <2>2
<1> HIDE DEF image
<1>6. load(image) = packet
  <2>1. /\ Len(image) - 2 = Len(payload) + 1
        /\ Len(image) - 1 = Len(payload) + 2
    BY <1>4
  <2>2. load(image) = spw_packet(SubSeq(image, 2, Len(payload) + 1),
                                 image[Len(payload) + 2], image[Len(payload) + 3])
    BY <1>4, <2>1 DEF load
  <2> QED BY <1>4, <1>5, <2>2
<1> QED BY <1>4, <1>6 DEF image, packet

(* to_message and to_packet: a published packet is read back as it was      *)
(* sent, for every topic, payload, port and bridge.                         *)
THEOREM PacketsSurvive ==
  ASSUME NEW topic \in types \ {UNKNOWN}, NEW S, Characters \cup {"yas"} \subseteq S,
         NEW payload \in Seq(S), NEW port \in S, NEW bridge_id \in S
  PROVE  to_packet_dropped(to_message(to_string(topic), spw_packet(payload, port, bridge_id)))
           = spw_packet(payload, port, bridge_id)
<1> DEFINE packet == spw_packet(payload, port, bridge_id)
           image == save(packet)
<1>1. image \in Seq(S) /\ image # <<>> /\ load(image) = packet
  BY ImagesLoad
<1> HIDE DEF image
<1>2. drop_topic(to_string(topic) \o image) = image
  BY <1>1, FramesAreCutRight
<1> QED BY <1>1, <1>2 DEF to_packet_dropped, to_message, image

-----------------------------------------------------------------------------
(* The settings of the server *)

(* What a step may do to the configuration and to the bridges. *)
LEMMA SettingsStep ==
  ASSUME [Next]_vars
  PROVE  \/ UNCHANGED <<startVars, bridges>>
         \/ (ReadFile \/ ReadString) /\ UNCHANGED bridges
         \/ UNCHANGED startVars /\ bridges' \in {to_setup \cap factory, {}}
<1>1. CASE UNCHANGED vars
  BY <1>1 DEF vars, threadVars
<1>2. ASSUME NEW o \in Owners, Step(o) PROVE UNCHANGED <<startVars, bridges>>
  BY <1>2 DEF Step, threadVars
<1>3. CASE BindFails \/ CloseBegin \/ UsageError \/ Start \/ CloseJoin \/ Exit
  BY <1>3 DEF BindFails, CloseBegin, UsageError, Start, CloseJoin, Exit, threadVars
<1>4. CASE Setup \/ Teardown
  BY <1>4 DEF Setup, Teardown
<1>5. CASE ReadString
  BY <1>5 DEF ReadString, Constructs, threadVars
<1>6. CASE ReadFile
  BY <1>6 DEF ReadFile, Constructs, threadVars
<1>7. CASE Requests \/ Publisher
  BY <1>7 DEF Requests, ReqCheck, ReqMiss, ReqRecv, ReqReply, ReqForward, Publisher, PubCheck, Publish,
              PubWake, serverRest
<1>8. CASE User \/ Wait \/ Finish \/ Receive
  BY <1>8 DEF User, ClientStart, ClientReady, Return, Fetch, ClientDestroy, ClientGone, Wait, Finish,
              Receive, threadVars
<1>9. CASE Calls
  BY <1>9 DEF Calls, Call, threadVars
<1>10. CASE Network
  BY <1>10 DEF Network, SubscriptionArrives, Carry, threadVars
<1> QED BY <1>1, <1>2, <1>3, <1>4, <1>5, <1>6, <1>7, <1>8, <1>9, <1>10 DEF Next, Main

(* Every document that the program may read, plain or not, is one of those  *)
(* the assumption names, or the empty one it has after it was read.         *)
DocumentInv == DocumentOK(document)

(* yaml_io.hpp, json_io.hpp: at any time what there is to load means the     *)
(* same in either format when it is a map and its texts are plain.           *)
THEOREM ReadersAgree == Spec => []FormatsAgree
<1>1. Init => DocumentInv
  <2> SUFFICES ASSUME Init PROVE DocumentInv
    OBVIOUS
  <2>1. document \in Documents \cup {YML_Config}
    BY DEF Init
  <2> QED BY <2>1, ProgramAssumption DEF DocumentInv
<1>2. DocumentInv /\ [Next]_vars => DocumentInv'
  <2> SUFFICES ASSUME DocumentInv, [Next]_vars PROVE DocumentInv'
    OBVIOUS
  <2>1. DocumentOK(EmptyDocument)
    <3>1. DOMAIN EmptyDocument = {<<>>} /\ EmptyDocument[<<>>].kind = "null" /\ NodeOK(EmptyDocument[<<>>])
      BY DEF EmptyDocument, NodeOK
    <3>2. Above(<<>>) = {}
      BY DEF Above
    <3> QED BY <3>1, <3>2 DEF DocumentOK
  <2>2. document' \in {document, EmptyDocument}
    BY SettingsStep DEF startVars, ReadFile, ReadString, Constructs
  <2> QED BY <2>1, <2>2 DEF DocumentInv
<1>3. DocumentInv => FormatsAgree
  BY PlainDocumentsAgree DEF DocumentInv, FormatsAgree
<1> QED BY <1>1, <1>2, <1>3, PTL DEF Spec

-----------------------------------------------------------------------------
(* The scripts of the constructors and destructors *)

OnContext == {"m_ctx", "context_t", "m_ctx=", "~context_t", "~m_ctx", "own", "~own"}
OnSocket == {"member", "socket_t", "=", "~socket_t", "bind", "connect", "subscribe", "close", "~member"}
Operations == [op : OnContext, i : {0}] \cup [op : OnSocket, i : 1 .. 2]

(* A socket is moved into its member right after it was made. *)
Paired(ops) == \A k \in 2 .. Len(ops) : ops[k].op = "=" => ops[k - 1] = Op("socket_t", ops[k].i)
Whole(ops) == ops \in Seq(Operations) /\ Paired(ops) /\ (ops # <<>> => ops[1].op # "=")

(* Scripts are put together from whole parts. *)
LEMMA WholeConcat ==
  ASSUME NEW a, NEW b, Whole(a), Whole(b)
  PROVE  Whole(a \o b)
<1>1. a \in Seq(Operations) /\ b \in Seq(Operations)
  BY DEF Whole
<1>2. /\ a \o b \in Seq(Operations)
      /\ Len(a \o b) = Len(a) + Len(b)
      /\ \A k \in 1 .. Len(a) : (a \o b)[k] = a[k]
      /\ \A k \in Len(a) + 1 .. Len(a) + Len(b) : (a \o b)[k] = b[k - Len(a)]
  BY <1>1
<1> DEFINE c == a \o b
           m == Len(a)
           n == Len(b)
<1>3. m \in Nat /\ n \in Nat
  BY <1>1
<1>4. (a # <<>> => m > 0) /\ (b # <<>> => n > 0) /\ (a = <<>> => m = 0)
  BY <1>1
<1> HIDE DEF c, m, n
<1>5. ASSUME NEW k \in 2 .. Len(c), c[k].op = "=" PROVE c[k - 1] = Op("socket_t", c[k].i)
  <2>1. Len(c) = m + n
    BY <1>2 DEF c, m, n
  <2>2. CASE k <= m
    <3>1. k \in 2 .. m /\ k \in 1 .. m /\ k - 1 \in 1 .. m
      BY <2>2, <1>3
    <3>2. c[k] = a[k] /\ c[k - 1] = a[k - 1]
      BY <3>1, <1>2 DEF c, m
    <3> QED BY <1>5, <3>1, <3>2 DEF Whole, Paired, m
  <2>3. CASE k = m + 1
    <3>1. c[k] = b[1]
      <4>1. k \in m + 1 .. m + n /\ k - m = 1
        BY <2>1, <2>3, <1>3
      <4> QED BY <4>1, <1>2 DEF c, m, n
    <3>2. b # <<>>
      BY <2>1, <2>3, <1>3, <1>1 DEF n
    <3> QED BY <1>5, <3>1, <3>2 DEF Whole
  <2>4. CASE k > m + 1
    <3>1. /\ k \in m + 1 .. m + n /\ k - 1 \in m + 1 .. m + n
          /\ k - m \in 2 .. n /\ (k - 1) - m = (k - m) - 1
      BY <2>1, <2>4, <1>3
    <3>2. c[k] = b[k - m] /\ c[k - 1] = b[(k - m) - 1]
      BY <3>1, <1>2 DEF c, m, n
    <3> QED BY <1>5, <3>1, <3>2 DEF Whole, Paired, n
  <2> QED BY <1>3, <2>2, <2>3, <2>4
<1>6. ASSUME c # <<>> PROVE c[1].op # "="
  <2>1. CASE a = <<>>
    <3>1. n > 0 /\ b # <<>>
      BY <1>1, <1>2, <1>6, <2>1, <1>3, <1>4 DEF c, n
    <3>2. 1 \in m + 1 .. m + n /\ 1 - m = 1
      BY <1>3, <1>4, <2>1, <3>1
    <3>3. c[1] = b[1]
      BY <1>2, <3>2 DEF c, m, n
    <3> QED BY <3>1, <3>3 DEF Whole
  <2>2. CASE a # <<>>
    <3>1. c[1] = a[1]
      BY <1>2, <1>3, <1>4, <2>2 DEF c, m
    <3> QED BY <3>1, <2>2 DEF Whole
  <2> QED BY <2>1, <2>2
<1> QED BY <1>2, <1>5, <1>6 DEF Whole, Paired, c

(* What is left of a script after its first operation. *)
LEMMA PairedTail ==
  ASSUME NEW ops \in Seq(Operations), ops # <<>>, Paired(ops)
  PROVE  /\ Tail(ops) \in Seq(Operations) /\ Paired(Tail(ops))
         /\ Tail(ops) # <<>> /\ Head(Tail(ops)).op = "="
              => Head(ops) = Op("socket_t", Head(Tail(ops)).i)
<1>1. /\ Tail(ops) \in Seq(Operations) /\ Len(Tail(ops)) = Len(ops) - 1
      /\ Len(ops) \in Nat /\ Len(ops) > 0 /\ Head(ops) = ops[1]
      /\ \A k \in 1 .. Len(ops) - 1 : Tail(ops)[k] = ops[k + 1]
  OBVIOUS
<1>2. ASSUME NEW k \in 2 .. Len(Tail(ops)), Tail(ops)[k].op = "="
      PROVE  Tail(ops)[k - 1] = Op("socket_t", Tail(ops)[k].i)
  <2>1. k + 1 \in 2 .. Len(ops) /\ k \in 1 .. Len(ops) - 1 /\ k - 1 \in 1 .. Len(ops) - 1
        /\ (k - 1) + 1 = k /\ (k + 1) - 1 = k
    BY <1>1
  <2>2. Tail(ops)[k] = ops[k + 1] /\ Tail(ops)[k - 1] = ops[k]
    BY <1>1, <2>1
  <2> QED BY <1>2, <2>1, <2>2 DEF Paired
<1>3. ASSUME Tail(ops) # <<>>, Head(Tail(ops)).op = "="
      PROVE  Head(ops) = Op("socket_t", Head(Tail(ops)).i)
  <2>1. Len(ops) >= 2 /\ Head(Tail(ops)) = Tail(ops)[1]
    BY <1>1, <1>3
  <2>2. Tail(ops)[1] = ops[2]
    BY <1>1, <2>1
  <2> QED BY <1>1, <1>3, <2>1, <2>2 DEF Paired
<1> QED BY <1>1, <1>2, <1>3 DEF Paired

(* ZMQServer.hpp, ZMQClient.hpp: the scripts of both owners are whole.      *)
LEMMA ScriptsAreWhole ==
  ASSUME NEW o \in Owners
  PROVE  /\ Whole(Constructor[o]) /\ Whole(Close[o]) /\ Whole(Destructor[o])
         /\ Whole(DestroyMembers) /\ Whole(<<>>)
<1>1. Whole(Members) /\ Whole(MakeContext)
  <2>1. Whole(Members)
    BY DEF Whole, Paired, Members, Op, Operations, OnContext, OnSocket
  <2>2. Whole(MakeContext)
    BY DEF Whole, Paired, MakeContext, Op, Operations, OnContext, OnSocket
  <2> QED BY <2>1, <2>2
<1>0. Whole(<<>>)
  <2>1. ASSUME NEW ops, ops = <<>> PROVE Whole(ops)
    <3>1. ops \in Seq(Operations) /\ Len(ops) = 0
      BY <2>1
    <3> QED BY <2>1, <3>1 DEF Whole, Paired
  <2> QED BY <2>1
<1>2. ASSUME NEW i \in 1 .. 2 PROVE Whole(MakeSocket(i))
  BY DEF Whole, Paired, MakeSocket, Op, Operations, OnSocket
<1>3. /\ Whole(<<Op("bind", 1), Op("bind", 2)>>)
      /\ Whole(<<Op("connect", 2)>>)
      /\ Whole(<<Op("connect", 1), Op("subscribe", 1), Op("own", 0)>>)
      /\ Whole(<<Op("~own", 0)>>)
      /\ Whole(<<Op("close", 1), Op("close", 2)>>)
      /\ Whole(<<Op("close", 2), Op("close", 1)>>)
      /\ Whole(DestroyMembers)
  BY DEF Whole, Paired, Op, Operations, OnContext, OnSocket, DestroyMembers
<1>4. Whole(Constructor["server"]) /\ Whole(Constructor["client"])
  BY <1>1, <1>2, <1>3, WholeConcat DEF Constructor
<1>5. Whole(Close["server"]) /\ Whole(Close["client"])
  BY <1>3 DEF Close
<1>6. Whole(Destructor[o])
  <2>1. Whole(Close["server"] \o DestroyMembers)
    BY <1>3, <1>5, WholeConcat
  <2> DEFINE begin == <<Op("~own", 0)>> \o Close["client"]
  <2>2. Whole(begin)
    BY <1>3, <1>5, WholeConcat
  <2>3. Destructor["client"] = begin \o DestroyMembers
    BY DEF Destructor
  <2> HIDE DEF begin
  <2>4. Whole(begin \o DestroyMembers)
    BY <1>3, <2>2, WholeConcat
  <2>5. Destructor["server"] = Close["server"] \o DestroyMembers
    BY DEF Destructor
  <2>6. o = "server" \/ o = "client"
    BY DEF Owners
  <2> QED BY <2>1, <2>3, <2>4, <2>5, <2>6
<1> QED BY <1>0, <1>3, <1>4, <1>5, <1>6 DEF Owners

-----------------------------------------------------------------------------
(* The operations on the zmq objects *)

(* The objects of the owners are different ones. *)
LEMMA ObjectNames ==
  /\ \A o \in Owners : {Ctx(o), UnnamedCtx(o)} \subseteq Contexts /\ Ctx(o) # UnnamedCtx(o)
  /\ \A o \in Owners, i \in 1 .. 2 : Sock(o, i) \in Sockets /\ TypeOf[o][i] \in Types
  /\ \A o \in Owners : UnnamedSock(o) \in Sockets
  /\ \A o, p \in Owners, i, j \in 1 .. 2 : Sock(o, i) = Sock(p, j) => o = p /\ i = j
  /\ \A o, p \in Owners, i \in 1 .. 2 : Sock(o, i) # UnnamedSock(p)
  /\ \A o, p \in Owners : UnnamedSock(o) = UnnamedSock(p) => o = p
<1>1. /\ TypeOf["server"][1] = "pub" /\ TypeOf["server"][2] = "rep"
      /\ TypeOf["client"][1] = "sub" /\ TypeOf["client"][2] = "req"
  BY DEF TypeOf
<1>2. 1 .. 2 = {1, 2}
  OBVIOUS
<1>3. /\ \A o \in Owners : {Ctx(o), UnnamedCtx(o)} \subseteq Contexts
      /\ \A o \in Owners, i \in 1 .. 2 : Sock(o, i) \in Sockets
      /\ \A o \in Owners : UnnamedSock(o) \in Sockets
      /\ Types = socket_type
  BY ProgramAssumption
<1>4. \A o \in Owners : Ctx(o) # UnnamedCtx(o)
  BY DEF Ctx, UnnamedCtx
<1>5. \A o \in Owners, i \in 1 .. 2 : TypeOf[o][i] \in Types
  BY <1>1, <1>2, <1>3 DEF Owners, socket_type
<1>6. /\ \A o, p \in Owners, i, j \in 1 .. 2 : Sock(o, i) = Sock(p, j) => o = p /\ i = j
      /\ \A o, p \in Owners, i \in 1 .. 2 : Sock(o, i) # UnnamedSock(p)
      /\ \A o, p \in Owners : UnnamedSock(o) = UnnamedSock(p) => o = p
  BY <1>1, <1>2 DEF Owners, Sock, UnnamedSock
<1> QED BY <1>3, <1>4, <1>5, <1>6

(* Every operation of a script is one of CppZmq. *)
LEMMA PerformIsZmq ==
  ASSUME NEW o \in Owners, NEW op, NEW i, op \in OnSocket => i \in 1 .. 2, Perform(o, op, i)
  PROVE  [ZmqNext]_zmqVars
<1>1. Ctx(o) \in Contexts /\ UnnamedCtx(o) \in Contexts \ {Ctx(o)} /\ UnnamedSock(o) \in Sockets
      /\ OwnCtx \in Contexts
  BY ObjectNames, ProgramAssumption
<1>2. ASSUME i \in 1 .. 2
      PROVE  /\ Sock(o, i) \in Sockets /\ UnnamedSock(o) \in Sockets \ {Sock(o, i)}
             /\ TypeOf[o][i] \in Types
  BY <1>2, ObjectNames
<1>3. CASE ContextNew(Ctx(o)) \/ ContextNew(UnnamedCtx(o)) \/ ContextAssign(Ctx(o), UnnamedCtx(o))
        \/ ContextDestroy(UnnamedCtx(o)) \/ ContextDestroy(Ctx(o))
        \/ ContextNew(OwnCtx) \/ ContextDestroy(OwnCtx)
  BY <1>1, <1>3 DEF ZmqNext, ContextOp
<1>4. CASE op \in OnSocket /\ (SocketDefault(Sock(o, i)) \/ SocketClose(Sock(o, i))
                              \/ SocketDestroy(Sock(o, i)) \/ SocketDestroy(UnnamedSock(o)))
  BY <1>1, <1>2, <1>4 DEF ZmqNext, SocketOp
<1>5. CASE op \in OnSocket /\ SocketNew(UnnamedSock(o), Ctx(o), TypeOf[o][i])
  BY <1>1, <1>2, <1>5 DEF ZmqNext, SocketOp
<1>6. CASE op \in OnSocket /\ SocketAssign(Sock(o, i), UnnamedSock(o))
  BY <1>1, <1>2, <1>6 DEF ZmqNext, SocketOp
<1>7. CASE UNCHANGED zmqVars
  BY <1>7
<1> QED BY <1>3, <1>4, <1>5, <1>6, <1>7 DEF Perform, OnSocket

(* What they do to the sockets. *)
NewSocket(o, i) ==
  [context |-> ptr[Ctx(o)], type |-> TypeOf[o][i], open |-> TRUE, out |-> <<>>, in |-> <<>>]

Makes(o, i) ==
  \E h \in Handles :
    /\ ~IsSocket(h)
    /\ zmq_sockets' = [zmq_sockets EXCEPT ![h] = NewSocket(o, i)]
    /\ _handle' = [_handle EXCEPT ![UnnamedSock(o)] = h]

Moves(o, i) ==
  /\ CloseSocket(_handle[Sock(o, i)])
  /\ _handle' = [s \in Sockets |-> IF s = Sock(o, i) THEN _handle[UnnamedSock(o)]
                                   ELSE IF s = UnnamedSock(o) THEN nullptr ELSE _handle[s]]

Shuts(s) == CloseSocket(_handle[s]) /\ _handle' = [_handle EXCEPT ![s] = nullptr]

(* What an operation of a script does to the sockets. *)
LEMMA PerformSockets ==
  ASSUME ZmqInv, NEW o \in Owners, NEW op, NEW i, op \in OnSocket => i \in 1 .. 2, Perform(o, op, i)
  PROVE  \/ op = "socket_t" /\ Makes(o, i)
         \/ op = "=" /\ Moves(o, i)
         \/ op \in {"close", "~member"} /\ Shuts(Sock(o, i))
         \/ op = "~socket_t" /\ Shuts(UnnamedSock(o))
         \/ op \notin {"socket_t", "=", "close", "~member", "~socket_t"}
              /\ UNCHANGED <<_handle, zmq_sockets>>
<1>1. CASE op \in OnContext
  BY <1>1 DEF Perform, OnContext, ContextNew, ContextAssign, ContextDestroy, socketVars
<1>2. CASE op \in {"member", "bind", "connect", "subscribe"}
  BY <1>2 DEF Perform, SocketDefault, socketVars, zmqVars
<1>3. CASE op = "socket_t"
  BY <1>3 DEF Perform, SocketNew, Makes, NewSocket
<1>4. CASE op = "="
  <2>1. _handle \in [Sockets -> OrNull(Handles)] /\ SocketAssign(Sock(o, i), UnnamedSock(o))
    BY <1>4 DEF Perform, ZmqInv, ZmqTypeOK
  <2>2. Sock(o, i) \in Sockets /\ UnnamedSock(o) \in Sockets /\ Sock(o, i) # UnnamedSock(o)
    BY <1>4, ObjectNames DEF OnSocket
  <2> QED BY <1>4, <2>1, <2>2 DEF SocketAssign, Swapped, Moves
<1>5. CASE op \in {"close", "~member", "~socket_t"}
  BY <1>5 DEF Perform, SocketClose, SocketDestroy, SocketClosed, Shuts
<1> QED BY <1>1, <1>2, <1>3, <1>4, <1>5 DEF Perform, OnContext

(* Whoever holds a handle that is not closed or made keeps its socket.      *)
LEMMA OthersKeepSockets ==
  ASSUME ZmqInv, NEW s \in Sockets, _handle[s] # nullptr
  PROVE  /\ _handle[s] \in Handles /\ IsSocket(_handle[s])
         /\ \A t \in Sockets \ {s} : CloseSocket(_handle[t]) => zmq_sockets'[_handle[s]] = zmq_sockets[_handle[s]]
         /\ \A o \in Owners, i \in 1 .. 2 : Makes(o, i) => zmq_sockets'[_handle[s]] = zmq_sockets[_handle[s]]
BY DEF ZmqInv, ZmqTypeOK, SocketsOwned, OrNull, CloseSocket, Makes

(* A member holds a socket of its type, and so does the unnamed socket that *)
(* is moved into it next.                                                   *)
HoldsType(s, type) == _handle[s] # nullptr /\ zmq_sockets[_handle[s]].type = type

MemberInv(o) ==
  /\ \A i \in 1 .. 2 : _handle[Sock(o, i)] = nullptr \/ HoldsType(Sock(o, i), TypeOf[o][i])
  /\ Paired(script[o])
  /\ script[o] # <<>> /\ Head(script[o]).op = "="
       => HoldsType(UnnamedSock(o), TypeOf[o][Head(script[o]).i])

MembersInv ==
  /\ script \in [Owners -> Seq(Operations)]
  /\ \A o \in Owners : MemberInv(o)

(* One operation of a script. *)
LEMMA MemberStep ==
  ASSUME ZmqInv, MembersInv, NEW o \in Owners, Step(o)
  PROVE  MembersInv'
<1> DEFINE op == Head(script[o]).op
           i == Head(script[o]).i
           left == Tail(script[o])
<1>1. /\ script[o] # <<>> /\ script[o] \in Seq(Operations) /\ Paired(script[o])
      /\ Perform(o, op, i)
  BY DEF Step, MembersInv, MemberInv
<1>2. Head(script[o]) \in Operations
  BY <1>1
<1>3. op \in OnSocket => i \in 1 .. 2
  BY <1>2 DEF Operations, OnContext, OnSocket
<1>4. /\ left \in Seq(Operations) /\ Paired(left)
      /\ left # <<>> /\ Head(left).op = "=" => op = "socket_t" /\ i = Head(left).i
  <2>1. left # <<>> /\ Head(left).op = "=" => Head(script[o]) = Op("socket_t", Head(left).i)
    BY <1>1, PairedTail
  <2>2. left \in Seq(Operations) /\ Paired(left)
    BY <1>1, PairedTail
  <2> QED BY <2>1, <2>2 DEF Op
<1>5. /\ script' \in [Owners -> Seq(Operations)]
      /\ script'[o] = left /\ \A p \in Owners \ {o} : script'[p] = script[p]
  BY <1>4 DEF Step, MembersInv
<1>6. /\ _handle \in [Sockets -> OrNull(Handles)]
      /\ \A j \in 1 .. 2 : Sock(o, j) \in Sockets
      /\ UnnamedSock(o) \in Sockets
      /\ \A j \in 1 .. 2 : Sock(o, j) # UnnamedSock(o)
      /\ \A j, k \in 1 .. 2 : Sock(o, j) = Sock(o, k) => j = k
  BY ObjectNames DEF ZmqInv, ZmqTypeOK
<1>7. \/ op = "socket_t" /\ Makes(o, i)
      \/ op = "=" /\ Moves(o, i)
      \/ op \in {"close", "~member"} /\ Shuts(Sock(o, i))
      \/ op = "~socket_t" /\ Shuts(UnnamedSock(o))
      \/ op \notin {"socket_t", "=", "close", "~member", "~socket_t"}
           /\ UNCHANGED <<_handle, zmq_sockets>>
  BY <1>1, <1>3, PerformSockets
<1>8. op = "=" => HoldsType(UnnamedSock(o), TypeOf[o][i])
  BY <1>1 DEF MembersInv, MemberInv
<1> HIDE DEF op, i, left
<1>9. ASSUME NEW s \in Sockets, s # UnnamedSock(o), \A j \in 1 .. 2 : s # Sock(o, j),
             NEW type, HoldsType(s, type)
      PROVE  HoldsType(s, type)'
  <2>1. _handle'[s] = _handle[s]
    BY <1>3, <1>6, <1>7, <1>9 DEF Makes, Moves, Shuts, OnSocket
  <2>2. zmq_sockets'[_handle[s]] = zmq_sockets[_handle[s]]
    BY <1>3, <1>6, <1>7, <1>9, OthersKeepSockets DEF Moves, Shuts, OnSocket, HoldsType
  <2> QED BY <1>9, <2>1, <2>2 DEF HoldsType
<1>10. ASSUME NEW j \in 1 .. 2
       PROVE  _handle'[Sock(o, j)] = nullptr \/ HoldsType(Sock(o, j), TypeOf[o][j])'
  <2>1. _handle[Sock(o, j)] = nullptr \/ HoldsType(Sock(o, j), TypeOf[o][j])
    BY DEF MembersInv, MemberInv
  <2>2. CASE op = "=" /\ j = i
    <3>1. Moves(o, i) /\ i \in 1 .. 2
      BY <2>2, <1>3, <1>7 DEF OnSocket
    <3>2. _handle'[Sock(o, i)] = _handle[UnnamedSock(o)]
      BY <3>1, <1>6 DEF Moves
    <3>3. zmq_sockets'[_handle[UnnamedSock(o)]] = zmq_sockets[_handle[UnnamedSock(o)]]
      BY <3>1, <1>6, <1>8, <2>2, OthersKeepSockets DEF Moves, HoldsType
    <3> QED BY <2>2, <1>8, <3>2, <3>3 DEF HoldsType
  <2>3. CASE op \in {"close", "~member"} /\ j = i
    BY <2>3, <1>6, <1>7 DEF Shuts
  <2>4. CASE ~(op \in {"=", "close", "~member"} /\ j = i)
    <3>1. _handle'[Sock(o, j)] = _handle[Sock(o, j)]
      BY <1>3, <1>6, <1>7, <2>4 DEF Makes, Moves, Shuts, OnSocket
    <3>2. _handle[Sock(o, j)] # nullptr
            => zmq_sockets'[_handle[Sock(o, j)]] = zmq_sockets[_handle[Sock(o, j)]]
      BY <1>3, <1>6, <1>7, <2>4, OthersKeepSockets DEF Moves, Shuts, OnSocket
    <3> QED BY <2>1, <3>1, <3>2 DEF HoldsType
  <2> QED BY <2>2, <2>3, <2>4
<1>11. ASSUME left # <<>>, Head(left).op = "=", NEW type, type = TypeOf[o][Head(left).i]
       PROVE  HoldsType(UnnamedSock(o), type)'
  <2>1. op = "socket_t" /\ i = Head(left).i
    BY <1>4, <1>11
  <2>2. PICK h \in Handles :
          /\ zmq_sockets' = [zmq_sockets EXCEPT ![h] = NewSocket(o, i)]
          /\ _handle' = [_handle EXCEPT ![UnnamedSock(o)] = h]
    BY <1>7, <2>1 DEF Makes
  <2>3. zmq_sockets'[h] = NewSocket(o, i) /\ _handle'[UnnamedSock(o)] = h
    BY <1>6, <2>2 DEF ZmqInv, ZmqTypeOK
  <2> QED BY <1>11, <2>1, <2>3, ZmqAssumption DEF HoldsType, NewSocket
<1>12. MemberInv(o)'
  BY <1>4, <1>5, <1>10, <1>11 DEF MemberInv
<1>13. ASSUME NEW p \in Owners, p # o PROVE MemberInv(p)'
  <2>1. /\ UnnamedSock(p) \in Sockets /\ UnnamedSock(p) # UnnamedSock(o)
        /\ \A j \in 1 .. 2 : UnnamedSock(p) # Sock(o, j)
        /\ \A k \in 1 .. 2 : /\ Sock(p, k) \in Sockets /\ Sock(p, k) # UnnamedSock(o)
                             /\ \A j \in 1 .. 2 : Sock(p, k) # Sock(o, j)
    BY <1>13, ObjectNames
  <2>2. \A k \in 1 .. 2 : HoldsType(Sock(p, k), TypeOf[p][k]) => HoldsType(Sock(p, k), TypeOf[p][k])'
    BY <1>9, <2>1
  <2>3. \A k \in 1 .. 2 : _handle'[Sock(p, k)] = _handle[Sock(p, k)]
    BY <1>3, <1>6, <1>7, <2>1 DEF Makes, Moves, Shuts, OnSocket
  <2>4. \A t : HoldsType(UnnamedSock(p), t) => HoldsType(UnnamedSock(p), t)'
    BY <1>9, <2>1
  <2>5. MemberInv(p) /\ script'[p] = script[p]
    BY <1>5, <1>13 DEF MembersInv
  <2> QED BY <2>2, <2>3, <2>4, <2>5 DEF MemberInv
<1> QED BY <1>5, <1>12, <1>13 DEF MembersInv

-----------------------------------------------------------------------------
(* What travels between the sockets *)

(* What a socket of each type sends and receives. *)
Sent ==
  [req |-> RequestFrames, rep |-> {ReplyBytes}, pub |-> PublishedFrames, sub |-> {}, none |-> {}]
Received ==
  [req |-> {ReplyBytes}, rep |-> RequestFrames, pub |-> {}, sub |-> PublishedFrames, none |-> {}]

OutOK(socket, contents) ==
  /\ socket.out \in Seq(Handles)
  /\ \A n \in DOMAIN socket.out : contents[socket.out[n]].bytes \in Sent[socket.type]
InOK(socket) == socket.in \in Seq(Received[socket.type])

WireInv == \A h \in Handles : OutOK(zmq_sockets[h], zmq_contents) /\ InOK(zmq_sockets[h])

ProgramZmq == ZmqInv /\ CountInv /\ MembersInv /\ WireInv

(* Types that occur. *)
LEMMA TypesOf ==
  /\ TypeOf["server"][1] = "pub" /\ TypeOf["server"][2] = "rep"
  /\ TypeOf["client"][1] = "sub" /\ TypeOf["client"][2] = "req"
BY DEF TypeOf

(* Every frame is one of the contents that the constant Bytes names. *)
LEMMA SentAreFrames ==
  /\ \A type \in Types \cup {NoType} : Sent[type] \subseteq Bytes /\ Received[type] \subseteq Bytes
  /\ Types = {"pub", "rep", "sub", "req"} /\ NoType = "none"
<1>1. Types = {"pub", "rep", "sub", "req"} /\ NoType = "none" /\ Bytes = Frames
  BY ProgramAssumption DEF socket_type, NoType
<1>2. /\ Sent["pub"] = PublishedFrames /\ Sent["rep"] = {ReplyBytes} /\ Sent["sub"] = {}
      /\ Sent["req"] = RequestFrames /\ Sent["none"] = {}
      /\ Received["pub"] = {} /\ Received["rep"] = RequestFrames
      /\ Received["sub"] = PublishedFrames /\ Received["req"] = {ReplyBytes} /\ Received["none"] = {}
  BY DEF Sent, Received
<1> QED BY <1>1, <1>2 DEF Frames

(* Nothing is on an unused or a new socket. *)
LEMMA EmptyWires ==
  ASSUME NEW socket, socket.out = <<>>, socket.in = <<>>, NEW contents
  PROVE  OutOK(socket, contents) /\ InOK(socket)
<1>1. DOMAIN socket.out = {}
  OBVIOUS
<1> QED BY <1>1 DEF OutOK, InOK

(* A closed socket keeps what it has to send. *)
LEMMA ClosedWires ==
  ASSUME NEW socket \in SocketRecord, NEW contents, OutOK(socket, contents)
  PROVE  OutOK(AfterClose(socket), contents) /\ InOK(AfterClose(socket))
<1>1. CASE socket.out = <<>>
  <2>1. AfterClose(socket).out = <<>> /\ AfterClose(socket).in = <<>>
    BY <1>1 DEF AfterClose, NoSocket
  <2> QED BY <2>1, EmptyWires
<1>2. CASE socket.out # <<>>
  <2>1. /\ AfterClose(socket).out = socket.out /\ AfterClose(socket).in = <<>>
        /\ AfterClose(socket).type = socket.type
    BY <1>2 DEF AfterClose, SocketRecord
  <2> QED BY <2>1 DEF OutOK, InOK
<1> QED BY <1>1, <1>2

(* The scripts leave the wires alone, but for what closed sockets forget.   *)
LEMMA WireStep ==
  ASSUME ProgramZmq, NEW o \in Owners, NEW op, NEW i, op \in OnSocket => i \in 1 .. 2,
         Perform(o, op, i)
  PROVE  WireInv'
<1>1. ASSUME NEW s \in Sockets, CloseSocket(_handle[s]), NEW h \in Handles
      PROVE  zmq_sockets'[h] \in {zmq_sockets[h], AfterClose(zmq_sockets[h])}
  BY <1>1 DEF CloseSocket, ProgramZmq, ZmqInv, ZmqTypeOK
<1>2. ASSUME Makes(o, i), NEW h \in Handles
      PROVE  zmq_sockets'[h] \in {zmq_sockets[h], NewSocket(o, i)}
  BY <1>2 DEF Makes, ProgramZmq, ZmqInv, ZmqTypeOK
<1>3. ASSUME NEW h \in Handles
      PROVE  zmq_sockets'[h] \in {zmq_sockets[h], AfterClose(zmq_sockets[h]), NewSocket(o, i)}
  <2>1. UnnamedSock(o) \in Sockets /\ (op \in OnSocket => Sock(o, i) \in Sockets)
    BY ObjectNames
  <2> QED BY <1>1, <1>2, <2>1, PerformSockets DEF ProgramZmq, Moves, Shuts, OnSocket
<1>4. zmq_contents' = zmq_contents
  BY DEF Perform, ContextNew, ContextAssign, ContextDestroy, SocketDefault, SocketNew, SocketAssign,
         SocketDestroy, SocketClose, SocketClosed, messageVars, zmqVars
<1>5. ASSUME NEW h \in Handles
      PROVE  OutOK(zmq_sockets'[h], zmq_contents) /\ InOK(zmq_sockets'[h])
  <2>1. zmq_sockets[h] \in SocketRecord /\ OutOK(zmq_sockets[h], zmq_contents) /\ InOK(zmq_sockets[h])
    BY DEF ProgramZmq, ZmqInv, ZmqTypeOK, WireInv
  <2>2. OutOK(AfterClose(zmq_sockets[h]), zmq_contents) /\ InOK(AfterClose(zmq_sockets[h]))
    BY <2>1, ClosedWires
  <2>3. OutOK(NewSocket(o, i), zmq_contents) /\ InOK(NewSocket(o, i))
    BY EmptyWires DEF NewSocket
  <2> QED BY <1>3, <2>1, <2>2, <2>3
<1> QED BY <1>4, <1>5 DEF WireInv

(* A message is sent that its socket may send. *)
LEMMA WireSend ==
  ASSUME ProgramZmq, NEW o \in Owners, NEW i \in 1 .. 2, NEW bytes \in Sent[TypeOf[o][i]],
         SendBuffer(Sock(o, i), bytes)
  PROVE  WireInv'
<1> DEFINE g == _handle[Sock(o, i)]
<1>1. PICK h \in Handles :
        /\ ~IsContent(h)
        /\ zmq_contents' = [zmq_contents EXCEPT ![h] = [refs |-> 1, bytes |-> bytes]]
        /\ zmq_sockets' = [zmq_sockets EXCEPT ![g].out = Append(@, h)]
  BY DEF SendBuffer, Put
<1>2. g \in Handles /\ zmq_sockets[g].type = TypeOf[o][i]
  <2>1. g # nullptr
    BY DEF SendBuffer, Connected
  <2>2. g \in OrNull(Handles)
    BY ObjectNames DEF ProgramZmq, ZmqInv, ZmqTypeOK
  <2> QED BY <2>1, <2>2 DEF ProgramZmq, MembersInv, MemberInv, HoldsType, OrNull
<1> HIDE DEF g
<1>3. /\ zmq_contents \in [Handles -> ContentRecord] /\ zmq_sockets \in [Handles -> SocketRecord]
      /\ Counted(msg, zmq_sockets, zmq_contents)
  BY DEF ProgramZmq, CountInv, Counted
<1>4. ASSUME NEW k \in Handles, NEW n \in DOMAIN zmq_sockets[k].out
      PROVE  zmq_contents'[zmq_sockets[k].out[n]] = zmq_contents[zmq_sockets[k].out[n]]
  <2>1. zmq_sockets[k].out[n] \in Handles
    BY DEF ProgramZmq, WireInv, OutOK
  <2>2. zmq_contents[zmq_sockets[k].out[n]].refs > 0
    BY <1>3, <2>1, PlaceIsCounted
  <2> QED BY <1>1, <1>3, <2>1, <2>2 DEF IsContent
<1>5. ASSUME NEW k \in Handles, k # g
      PROVE  OutOK(zmq_sockets'[k], zmq_contents') /\ InOK(zmq_sockets'[k])
  <2>1. zmq_sockets'[k] = zmq_sockets[k]
    BY <1>1, <1>3, <1>5
  <2> QED BY <1>4, <2>1 DEF ProgramZmq, WireInv, OutOK
<1>6. OutOK(zmq_sockets'[g], zmq_contents') /\ InOK(zmq_sockets'[g])
  <2> DEFINE q == zmq_sockets[g].out
  <2>1. zmq_sockets'[g] = [zmq_sockets[g] EXCEPT !.out = Append(q, h)]
    BY <1>1, <1>2, <1>3
  <2>2. /\ zmq_sockets'[g].out = Append(q, h) /\ zmq_sockets'[g].type = zmq_sockets[g].type
        /\ zmq_sockets'[g].in = zmq_sockets[g].in
    BY <1>2, <1>3, <2>1 DEF SocketRecord
  <2>3. q \in Seq(Handles) /\ InOK(zmq_sockets[g])
    BY <1>2 DEF ProgramZmq, WireInv, OutOK
  <2>4. \A n \in DOMAIN q : zmq_contents'[q[n]].bytes \in Sent[zmq_sockets[g].type]
    BY <1>2, <1>4 DEF ProgramZmq, WireInv, OutOK
  <2>5. zmq_contents'[h].bytes = bytes
    BY <1>1, <1>3
  <2> HIDE DEF q
  <2>6. /\ Append(q, h) \in Seq(Handles)
        /\ \A n \in DOMAIN Append(q, h) : (n \in DOMAIN q /\ Append(q, h)[n] = q[n]) \/ Append(q, h)[n] = h
    BY <2>3
  <2>7. OutOK(zmq_sockets'[g], zmq_contents')
    BY <1>2, <2>2, <2>4, <2>5, <2>6 DEF OutOK
  <2> QED BY <2>2, <2>3, <2>7 DEF InOK
<1> QED BY <1>5, <1>6 DEF WireInv

(* A message is received. *)
LEMMA WireRecv ==
  ASSUME ProgramZmq, NEW o \in Owners, NEW i \in 1 .. 2, RecvBuffer(Sock(o, i))
  PROVE  WireInv' /\ Head(zmq_sockets[_handle[Sock(o, i)]].in) \in Received[TypeOf[o][i]]
<1> DEFINE g == _handle[Sock(o, i)]
           q == zmq_sockets[g].in
<1>1. g # nullptr /\ q # <<>> /\ zmq_sockets' = Got(g) /\ zmq_contents' = zmq_contents
  BY DEF RecvBuffer, HasInput, Connected, messageVars
<1>2. g \in Handles /\ zmq_sockets[g].type = TypeOf[o][i]
  <2>1. g \in OrNull(Handles)
    BY ObjectNames DEF ProgramZmq, ZmqInv, ZmqTypeOK
  <2> QED BY <1>1, <2>1 DEF ProgramZmq, MembersInv, MemberInv, HoldsType, OrNull
<1>3. zmq_sockets \in [Handles -> SocketRecord]
  BY DEF ProgramZmq, ZmqInv, ZmqTypeOK
<1> DEFINE S == Received[zmq_sockets[g].type]
<1>4. q \in Seq(S)
  BY <1>2 DEF ProgramZmq, WireInv, InOK
<1> DEFINE r == zmq_sockets'[g]
<1>5. /\ r.out = zmq_sockets[g].out /\ r.type = zmq_sockets[g].type /\ r.in = Tail(q)
      /\ \A k \in Handles \ {g} : zmq_sockets'[k] = zmq_sockets[k]
  BY <1>1, <1>2, <1>3 DEF Got, SocketRecord
<1>6. Head(q) \in S /\ Tail(q) \in Seq(S)
  <2> HIDE DEF q, S
  <2> QED BY <1>1, <1>4
<1>7. WireInv'
  BY <1>1, <1>5, <1>6 DEF ProgramZmq, WireInv, OutOK, InOK
<1> QED BY <1>2, <1>6, <1>7

(* libzmq carries the oldest message of a socket, to the one that the       *)
(* message is for, if it takes it.                                          *)
Oldest(h) == Head(zmq_sockets[h].out)
Carried(h) == zmq_contents[Oldest(h)].bytes
Target(h) == _handle[Peer(h, Carried(h))]
Shorter(h) == [zmq_sockets[h] EXCEPT !.out = Tail(@)]

(* What the network does to the sockets when it carries a message of h. *)
LEMMA CarrySockets ==
  ASSUME ProgramZmq, NEW h \in Handles, Carry(h)
  PROVE  /\ zmq_sockets[h].out # <<>>
         /\ Oldest(h) \in Handles /\ zmq_contents[Oldest(h)].refs > 0
         /\ Carried(h) \in Sent[zmq_sockets[h].type]
         /\ Shorter(h) \in SocketRecord /\ Shorter(h).out = Tail(zmq_sockets[h].out)
         /\ Shorter(h).out \in Seq(Handles)
         /\ Shorter(h).open = zmq_sockets[h].open /\ Shorter(h).type = zmq_sockets[h].type
         /\ Shorter(h).in = zmq_sockets[h].in /\ Shorter(h).context = zmq_sockets[h].context
         /\ Target(h) # h
         /\ Takes(h, Carried(h)) /\ Target(h) # nullptr =>
              /\ Target(h) \in Handles
              /\ Carried(h) \in Received[zmq_sockets[Target(h)].type]
         /\ zmq_sockets' = [g \in Handles |-> zmq_sockets'[g]]
         /\ zmq_sockets'[h] = Remainder(Shorter(h))
         /\ \A g \in Handles \ {h} :
              zmq_sockets'[g] = IF Takes(h, Carried(h)) /\ g = Target(h)
                                THEN [zmq_sockets[g] EXCEPT !.in = Append(@, Carried(h))]
                                ELSE zmq_sockets[g]
         /\ zmq_contents' = Unref(Oldest(h), zmq_contents)
         /\ UNCHANGED <<alive, contextVars, _handle, ctxptr, msg>>
<1> DEFINE q == zmq_sockets[h].out
           type == zmq_sockets[h].type
<1>1. q # <<>>
  BY Zenon DEF Carry
<1>2. zmq_sockets \in [Handles -> SocketRecord] /\ zmq_sockets[h] \in SocketRecord
  BY DEF ProgramZmq, ZmqInv, ZmqTypeOK
<1>3. q \in Seq(Handles) /\ \A n \in DOMAIN q : zmq_contents[q[n]].bytes \in Sent[type]
  BY DEF ProgramZmq, WireInv, OutOK
<1>4. 1 \in DOMAIN q /\ Head(q) = q[1] /\ Head(q) \in Handles /\ Tail(q) \in Seq(Handles)
  <2> HIDE DEF q
  <2> QED BY <1>1, <1>3
<1>5. Oldest(h) \in Handles /\ Carried(h) \in Sent[type]
  BY <1>3, <1>4 DEF Oldest, Carried
<1>6. zmq_contents[Oldest(h)].refs > 0
  BY <1>4, PlaceIsCounted DEF Oldest, ProgramZmq, CountInv
<1>7. /\ Shorter(h) \in SocketRecord /\ Shorter(h).out = Tail(q)
      /\ Shorter(h).open = zmq_sockets[h].open /\ Shorter(h).type = type
      /\ Shorter(h).in = zmq_sockets[h].in /\ Shorter(h).context = zmq_sockets[h].context
  <2>1. Tail(q) \in Seq(OrNull(Handles))
    BY <1>4, SeqMonotonic DEF OrNull
  <2> QED BY <1>2, <2>1 DEF Shorter, SocketRecord
<1>8. type \in {"req", "rep", "pub"}
  <2>1. type \in {"pub", "rep", "sub", "req", "none"}
    BY <1>2, SentAreFrames DEF SocketRecord
  <2>2. Sent["sub"] = {} /\ Sent["none"] = {}
    BY DEF Sent
  <2> QED BY <1>5, <2>1, <2>2
<1> DEFINE to == Target(h)
<1>9. /\ Takes(h, Carried(h)) /\ to # nullptr => to \in Handles /\ Carried(h) \in Received[zmq_sockets[to].type]
      /\ to # h
  <2>1. /\ Sent["req"] = Received["rep"] /\ Sent["rep"] = Received["req"]
        /\ Sent["pub"] = Received["sub"]
    BY DEF Sent, Received
  <2>2. ASSUME NEW o \in Owners, NEW i \in 1 .. 2, _handle[Sock(o, i)] # nullptr
        PROVE  _handle[Sock(o, i)] \in Handles /\ zmq_sockets[_handle[Sock(o, i)]].type = TypeOf[o][i]
    <3>1. _handle[Sock(o, i)] \in OrNull(Handles)
      BY ObjectNames DEF ProgramZmq, ZmqInv, ZmqTypeOK
    <3> QED BY <2>2, <3>1 DEF ProgramZmq, MembersInv, MemberInv, HoldsType, OrNull
  <2>3. nullptr \notin Handles
    BY ZmqAssumption
  <2>4. CASE type = "req"
    <3>1. to = _handle[Sock("server", 2)]
      BY <2>4 DEF Target, Peer
    <3>2. to # nullptr => to \in Handles /\ zmq_sockets[to].type = "rep"
      BY <2>2, <3>1, TypesOf DEF Owners
    <3> QED BY <1>5, <2>1, <2>3, <2>4, <3>2
  <2>5. CASE type = "rep"
    <3>1. to = _handle[Sock("client", 2)]
      BY <2>5 DEF Target, Peer
    <3>2. to # nullptr => to \in Handles /\ zmq_sockets[to].type = "req"
      BY <2>2, <3>1, TypesOf DEF Owners
    <3> QED BY <1>5, <2>1, <2>3, <2>5, <3>2
  <2>6. CASE type = "pub"
    <3>1. to = _handle[Sock("client", 1)]
      BY <2>6 DEF Target, Peer
    <3>2. to # nullptr => to \in Handles /\ zmq_sockets[to].type = "sub"
      BY <2>2, <3>1, TypesOf DEF Owners
    <3> QED BY <1>5, <2>1, <2>3, <2>6, <3>2
  <2> QED BY <1>8, <2>4, <2>5, <2>6
<1>10. Flushed(h) = [zmq_sockets EXCEPT ![h] = Remainder(Shorter(h))]
  BY DEF Flushed, Remainder, Shorter
<1>11. /\ zmq_sockets' = IF Takes(h, Carried(h))
                         THEN [Flushed(h) EXCEPT ![to].in = Append(@, Carried(h))]
                         ELSE Flushed(h)
       /\ zmq_contents' = Unref(Oldest(h), zmq_contents)
       /\ UNCHANGED <<alive, contextVars, _handle, ctxptr, msg>>
  BY Zenon DEF Carry, Oldest, Carried, Target
<1> DEFINE flushed == Flushed(h)
           bytes == Carried(h)
<1>12. flushed = [g \in Handles |-> flushed[g]] /\ flushed[h] = Remainder(Shorter(h))
       /\ \A g \in Handles \ {h} : flushed[g] = zmq_sockets[g]
  BY <1>2, <1>10
<1> HIDE DEF to, flushed, bytes
<1>13. CASE Takes(h, Carried(h))
  <2>1. zmq_sockets' = [flushed EXCEPT ![to].in = Append(@, bytes)]
    BY <1>11, <1>13 DEF flushed, bytes
  <2>2. /\ zmq_sockets' = [g \in Handles |-> zmq_sockets'[g]]
        /\ zmq_sockets'[h] = flushed[h]
        /\ \A g \in Handles \ {h} :
             zmq_sockets'[g] = IF g = to THEN [zmq_sockets[g] EXCEPT !.in = Append(@, bytes)]
                               ELSE zmq_sockets[g]
    BY <1>9, <1>12, <2>1
  <2> QED BY <1>1, <1>4, <1>5, <1>6, <1>7, <1>9, <1>11, <1>12, <1>13, <2>2 DEF to, bytes
<1>14. CASE ~Takes(h, Carried(h))
  BY <1>1, <1>4, <1>5, <1>6, <1>7, <1>9, <1>11, <1>12, <1>14 DEF to, flushed
<1> QED BY <1>13, <1>14, Zenon

(* What is carried keeps the wires in order, and every object as it is. *)
LEMMA CarryKeeps ==
  ASSUME ProgramZmq, NEW h \in Handles, Carry(h)
  PROVE  ProgramZmq'
<1> DEFINE left == Remainder(Shorter(h))
           bytes == Carried(h)
<1>1. /\ zmq_sockets \in [Handles -> SocketRecord] /\ DOMAIN zmq_contents = Handles
      /\ msg \in [Messages -> OrNull(Handles)]
      /\ \A m \in Messages : m \notin alive => msg[m] = nullptr
  BY DEF ProgramZmq, ZmqInv, ZmqTypeOK
<1>2. /\ left \in SocketRecord /\ left.open = zmq_sockets[h].open
      /\ left.context = zmq_sockets[h].context \/ (~zmq_sockets[h].open /\ left.context = nullptr)
  <2>1. Shorter(h) \in SocketRecord /\ Shorter(h).open = zmq_sockets[h].open
        /\ Shorter(h).context = zmq_sockets[h].context
    BY CarrySockets
  <2> QED BY <2>1, ClosedFacts
<1>3. /\ left.out = Tail(zmq_sockets[h].out)
      /\ left.context = zmq_sockets[h].context \/ left.out = <<>>
  <2>1. Shorter(h) \in SocketRecord /\ Shorter(h).out = Tail(zmq_sockets[h].out)
        /\ Shorter(h).context = zmq_sockets[h].context
    BY CarrySockets
  <2> QED BY <2>1, AfterCloseOut DEF Remainder
<1>4. ASSUME NEW g \in Handles \ {h}
      PROVE  \/ zmq_sockets'[g] = zmq_sockets[g]
             \/ /\ zmq_sockets'[g] = [zmq_sockets[g] EXCEPT !.in = Append(@, bytes)]
                /\ bytes \in Received[zmq_sockets[g].type]
  <2>1. zmq_sockets'[g] = IF Takes(h, Carried(h)) /\ g = Target(h)
                          THEN [zmq_sockets[g] EXCEPT !.in = Append(@, Carried(h))]
                          ELSE zmq_sockets[g]
    BY CarrySockets
  <2>2. g # nullptr
    BY ZmqAssumption
  <2>3. Takes(h, Carried(h)) /\ Target(h) # nullptr =>
          Carried(h) \in Received[zmq_sockets[Target(h)].type]
    BY CarrySockets
  <2>4. CASE Takes(h, Carried(h)) /\ g = Target(h)
    BY <2>1, <2>2, <2>3, <2>4
  <2>5. CASE ~(Takes(h, Carried(h)) /\ g = Target(h))
    BY <2>1, <2>5
  <2> QED BY <2>4, <2>5
<1>5. bytes \in Bytes
  <2>1. zmq_sockets[h].type \in Types \cup {NoType}
    BY <1>1 DEF SocketRecord
  <2> QED BY <2>1, CarrySockets, SentAreFrames
<1>6. zmq_sockets'[h] = left /\ zmq_sockets' = [g \in Handles |-> zmq_sockets'[g]]
  BY CarrySockets
<1>7. UNCHANGED <<alive, contextVars, _handle, ctxptr, msg>> /\ zmq_contents' = Unref(Oldest(h), zmq_contents)
  BY CarrySockets
<1>8. Oldest(h) \in Handles /\ zmq_contents[Oldest(h)].refs > 0
  BY CarrySockets
<1> HIDE DEF left, bytes
<1>9. ASSUME NEW g \in Handles \ {h}
      PROVE  /\ zmq_sockets'[g] \in SocketRecord
             /\ zmq_sockets'[g].open = zmq_sockets[g].open
             /\ zmq_sockets'[g].context = zmq_sockets[g].context
             /\ zmq_sockets'[g].type = zmq_sockets[g].type
             /\ zmq_sockets'[g].out = zmq_sockets[g].out
             /\ InOK(zmq_sockets'[g])
  <2>1. zmq_sockets[g] \in SocketRecord /\ InOK(zmq_sockets[g])
    BY <1>1 DEF ProgramZmq, WireInv
  <2>2. CASE zmq_sockets'[g] = zmq_sockets[g]
    BY <2>1, <2>2
  <2>3. CASE /\ zmq_sockets'[g] = [zmq_sockets[g] EXCEPT !.in = Append(@, bytes)]
             /\ bytes \in Received[zmq_sockets[g].type]
    <3> DEFINE q == zmq_sockets[g].in
    <3>1. q \in Seq(Bytes) /\ q \in Seq(Received[zmq_sockets[g].type])
      BY <2>1 DEF SocketRecord, InOK
    <3>2. Append(q, bytes) \in Seq(Bytes) /\ Append(q, bytes) \in Seq(Received[zmq_sockets[g].type])
      <4> HIDE DEF q
      <4> QED BY <3>1, <1>5, <2>3
    <3> QED BY <2>1, <2>3, <3>2 DEF SocketRecord, InOK
  <2> QED BY <1>4, <2>2, <2>3
<1>10. zmq_sockets' \in [Handles -> SocketRecord]
  BY <1>2, <1>6, <1>9
<1>11. DOMAIN zmq_contents' = Handles
  BY <1>1, <1>7, UnrefDomain
<1>12. ZmqInv'
  <2>1. \A g \in Handles :
          /\ zmq_sockets'[g].open = zmq_sockets[g].open
          /\ \/ zmq_sockets'[g].context = zmq_sockets[g].context
             \/ ~zmq_sockets[g].open /\ zmq_sockets'[g].context = nullptr
    BY <1>2, <1>6, <1>9
  <2>2. /\ msg' \in [Messages -> OrNull(Handles)]
        /\ \A m \in Messages : m \notin alive => msg'[m] = nullptr
        /\ UNCHANGED <<alive, contextVars, _handle, ctxptr>>
    BY <1>1, <1>7
  <2> QED BY <1>10, <1>11, <2>1, <2>2, TransferFrame DEF ProgramZmq
<1>13. CountInv'
  <2>1. Counted(msg, zmq_sockets, zmq_contents) /\ QuietInv
    BY DEF ProgramZmq, CountInv
  <2>2. zmq_sockets[h].out # <<>>
    BY CarrySockets
  <2>3. Counted(msg, zmq_sockets', Unref(Head(zmq_sockets[h].out), zmq_contents))
    BY <1>3, <1>6, <1>9, <1>10, <2>1, <2>2, FlushCounted
  <2>4. QuietInv'
    <3>1. IsSocket(h)
      BY <2>1, <2>2 DEF QuietInv
    <3> QED BY <1>3, <1>6, <1>9, <2>1, <3>1 DEF QuietInv, IsSocket
  <2> QED BY <1>7, <2>3, <2>4 DEF CountInv, Oldest
<1>14. WireInv'
  <2>1. ASSUME NEW g \in Handles, NEW n \in DOMAIN zmq_sockets'[g].out,
               zmq_sockets'[g].out[n] \in Handles
        PROVE  zmq_contents'[zmq_sockets'[g].out[n]].bytes = zmq_contents[zmq_sockets'[g].out[n]].bytes
    <3>1. zmq_contents'[zmq_sockets'[g].out[n]].refs > 0
      BY <1>13, <2>1, PlaceIsCounted DEF CountInv
    <3>2. zmq_contents \in [Handles -> ContentRecord] /\ Oldest(h) \in OrNull(Handles)
      BY <1>8 DEF ProgramZmq, CountInv, Counted, OrNull
    <3> QED BY <1>7, <1>8, <2>1, <3>1, <3>2, UnrefCount
  <2>2. ASSUME NEW g \in Handles, g # h
        PROVE  OutOK(zmq_sockets'[g], zmq_contents') /\ InOK(zmq_sockets'[g])
    <3>1. zmq_sockets'[g].out = zmq_sockets[g].out /\ zmq_sockets'[g].type = zmq_sockets[g].type
      BY <1>9, <2>2
    <3>2. OutOK(zmq_sockets[g], zmq_contents)
      BY DEF ProgramZmq, WireInv
    <3> QED BY <1>9, <2>1, <2>2, <3>1, <3>2 DEF OutOK
  <2>3. OutOK(zmq_sockets'[h], zmq_contents') /\ InOK(zmq_sockets'[h])
    <3> DEFINE q == zmq_sockets[h].out
               r == Shorter(h)
    <3>1. /\ r.out = Tail(q) /\ r.out \in Seq(Handles) /\ r.type = zmq_sockets[h].type
          /\ r.in = zmq_sockets[h].in /\ q # <<>> /\ r \in SocketRecord
      BY CarrySockets
    <3>2. /\ \A n \in DOMAIN q : zmq_contents[q[n]].bytes \in Sent[zmq_sockets[h].type]
          /\ q \in Seq(Handles) /\ InOK(zmq_sockets[h])
      BY DEF ProgramZmq, WireInv, OutOK
    <3>3. left = r \/ (left = AfterClose(r))
      BY Zenon DEF left, Remainder
    <3> HIDE DEF q, r
    <3>4. \A n \in DOMAIN r.out : n + 1 \in DOMAIN q /\ r.out[n] = q[n + 1]
      BY <3>1, <3>2
    <3>5. OutOK(r, zmq_contents)
      BY <3>1, <3>2, <3>4 DEF OutOK
    <3>6. InOK(r)
      BY <3>1, <3>2 DEF InOK
    <3>7. OutOK(left, zmq_contents) /\ InOK(left)
      BY <3>1, <3>3, <3>5, <3>6, ClosedWires
    <3> QED BY <1>6, <2>1, <3>7 DEF OutOK
  <2> QED BY <2>2, <2>3 DEF WireInv
<1>15. MembersInv'
  <2>1. ASSUME NEW s \in Sockets, NEW type, HoldsType(s, type)
        PROVE  HoldsType(s, type)'
    <3>1. /\ _handle' = _handle /\ _handle[s] # nullptr /\ _handle[s] \in Handles
          /\ zmq_sockets[_handle[s]].open
      BY <1>7, <2>1 DEF HoldsType, ProgramZmq, ZmqInv, ZmqTypeOK, SocketsOwned, OrNull
    <3>2. zmq_sockets[h].open => zmq_sockets'[h].type = zmq_sockets[h].type
      <4>1. Shorter(h).open = zmq_sockets[h].open /\ Shorter(h).type = zmq_sockets[h].type
        BY CarrySockets
      <4> QED BY <1>6, <4>1, Zenon DEF left, Remainder
    <3>3. zmq_sockets'[_handle[s]].type = zmq_sockets[_handle[s]].type
      BY <1>9, <3>1, <3>2
    <3> QED BY <2>1, <3>1, <3>3 DEF HoldsType
  <2>2. script' = script /\ _handle' = _handle
    BY <1>7, Zenon DEF Carry
  <2> QED BY <2>1, <2>2, ObjectNames DEF ProgramZmq, MembersInv, MemberInv
<1> QED BY <1>12, <1>13, <1>14, <1>15 DEF ProgramZmq

-----------------------------------------------------------------------------
(* Packets and frames *)

(* The topic of a packet is one of the types. *)
LEMMA TopicType == \A packet : topic_of(packet) \in types /\ UNKNOWN = 5 /\ types = 0 .. 5
BY DEF topic_of, types, UNKNOWN, table

(* A request and a published frame give their packet back, and the client's *)
(* subscription selects the frames of its topic.                            *)
LEMMA FramesGiveBack ==
  ASSUME NEW packet \in Packets
  PROVE  /\ to_packet(to_request(packet)) = packet
         /\ topic_of(packet) # UNKNOWN =>
              /\ to_packet_dropped(FrameOf(packet)) = packet
              /\ Selects(Topic, FrameOf(packet)) <=> topic_of(packet) = Topic
<1>1. PICK payload \in Payloads, n \in 0 .. MaxCalls - 1 : packet = spw_packet(payload, n, "Mock")
  BY DEF Packets
<1> DEFINE S == Characters \cup {"yas", "Mock"} \cup Nat \cup Range(payload)
<1>2. payload \in Seq(S)
  <2>1. payload \in Seq(Range(payload)) /\ Range(payload) \subseteq S
    BY <1>1, ProgramAssumption
  <2> HIDE DEF S
  <2> QED BY <2>1, SeqMonotonic
<1>3. n \in S /\ "Mock" \in S /\ "yas" \in S /\ Characters \cup {"yas"} \subseteq S
  BY <1>1, ProgramAssumption
<1> HIDE DEF S
<1>4. save(packet) \in Seq(S) /\ save(packet) # <<>> /\ load(save(packet)) = packet
  BY <1>1, <1>2, <1>3, ImagesLoad
<1>5. ASSUME topic_of(packet) # UNKNOWN
      PROVE  /\ to_packet_dropped(FrameOf(packet)) = packet
             /\ Selects(Topic, FrameOf(packet)) <=> topic_of(packet) = Topic
  <2>1. topic_of(packet) \in types \ {UNKNOWN} /\ Topic \in types \ {UNKNOWN}
    BY <1>5, TopicType, ProgramAssumption
  <2>2. to_packet_dropped(FrameOf(packet)) = packet
    BY <1>1, <1>2, <1>3, <2>1, PacketsSurvive DEF FrameOf
  <2>3. Selects(Topic, to_string(topic_of(packet)) \o save(packet)) <=> Topic = topic_of(packet)
    BY <1>3, <1>4, <2>1, SubscriptionsSelectTheirTopic
  <2> QED BY <2>2, <2>3 DEF FrameOf, to_message
<1> QED BY <1>4, <1>5 DEF to_packet, to_request

-----------------------------------------------------------------------------
(* The steps of the program *)

PacketsInv ==
  /\ req_place \in {"reply", "forward"} => request \in Packets
  /\ received_packets \in Seq(Packets) /\ answered \in Seq(Packets)
  /\ stored \in Seq(Packets) /\ fetched \in Seq(Packets)
  /\ calls \in 0 .. MaxCalls

packetVars == <<request, received_packets, answered, stored, fetched, calls>>

(* A thread may start a new script while the objects are left alone. *)
LEMMA ScriptsChange ==
  ASSUME ProgramZmq, UNCHANGED zmqVars,
         \/ UNCHANGED script
         \/ \E o \in Owners : \E ops : Whole(ops) /\ script' = [script EXCEPT ![o] = ops]
  PROVE  ProgramZmq'
<1>1. /\ UNCHANGED <<_handle, zmq_sockets, zmq_contents>>
      /\ [ZmqNext]_zmqVars
  BY DEF zmqVars, socketVars, messageVars
<1>2. ZmqInv' /\ CountInv'
  BY <1>1, StepInv, CountStep DEF ProgramZmq
<1>3. WireInv'
  BY <1>1 DEF ProgramZmq, WireInv
<1>4. MembersInv'
  <2>1. CASE UNCHANGED script
    BY <1>1, <2>1 DEF ProgramZmq, MembersInv, MemberInv, HoldsType
  <2>2. ASSUME NEW o \in Owners, NEW ops, Whole(ops), script' = [script EXCEPT ![o] = ops]
        PROVE  MembersInv'
    <3>1. /\ script \in [Owners -> Seq(Operations)] /\ ops \in Seq(Operations) /\ Paired(ops)
          /\ ops # <<>> => Head(ops).op # "="
      BY <2>2 DEF ProgramZmq, MembersInv, Whole
    <3>2. script' \in [Owners -> Seq(Operations)] /\ script'[o] = ops
          /\ \A p \in Owners \ {o} : script'[p] = script[p]
      BY <2>2, <3>1
    <3> QED BY <1>1, <3>1, <3>2 DEF ProgramZmq, MembersInv, MemberInv, HoldsType
  <2> QED BY <2>1, <2>2
<1> QED BY <1>2, <1>3, <1>4 DEF ProgramZmq

(* The queues change, and nothing else about the objects. *)
LEMMA QueuesChange ==
  ASSUME ProgramZmq, [ZmqNext]_zmqVars, WireInv', UNCHANGED <<_handle, script>>,
         \A h \in Handles : zmq_sockets'[h].type = zmq_sockets[h].type
  PROVE  ProgramZmq'
<1>1. ZmqInv' /\ CountInv'
  BY StepInv, CountStep DEF ProgramZmq
<1>2. ASSUME NEW s \in Sockets, NEW type, HoldsType(s, type) PROVE HoldsType(s, type)'
  <2>1. _handle[s] \in Handles
    BY <1>2 DEF HoldsType, ProgramZmq, ZmqInv, ZmqTypeOK, OrNull
  <2> QED BY <1>2, <2>1 DEF HoldsType
<1>3. MembersInv'
  BY <1>2, ObjectNames DEF ProgramZmq, MembersInv, MemberInv
<1> QED BY <1>1, <1>3 DEF ProgramZmq

(* A call of send on a member. *)
LEMMA SendKeeps ==
  ASSUME ProgramZmq, NEW o \in Owners, NEW i \in 1 .. 2, NEW bytes \in Sent[TypeOf[o][i]],
         SendBuffer(Sock(o, i), bytes), UNCHANGED script
  PROVE  ProgramZmq'
<1>1. bytes \in Bytes /\ Sock(o, i) \in Sockets
  BY SentAreFrames, ObjectNames
<1>2. [ZmqNext]_zmqVars
  BY <1>1 DEF ZmqNext, TransferOp
<1>3. UNCHANGED _handle /\ \A h \in Handles : zmq_sockets'[h].type = zmq_sockets[h].type
  <2>1. zmq_sockets \in [Handles -> SocketRecord]
    BY DEF ProgramZmq, ZmqInv, ZmqTypeOK
  <2> QED BY <2>1 DEF SendBuffer, Put, SocketRecord
<1> QED BY <1>2, <1>3, WireSend, QueuesChange

(* A call of recv on a member. *)
LEMMA RecvKeeps ==
  ASSUME ProgramZmq, NEW o \in Owners, NEW i \in 1 .. 2, RecvBuffer(Sock(o, i)), UNCHANGED script
  PROVE  ProgramZmq'
<1>1. Sock(o, i) \in Sockets
  BY ObjectNames
<1>2. [ZmqNext]_zmqVars
  BY <1>1 DEF ZmqNext, TransferOp
<1>3. UNCHANGED _handle /\ \A h \in Handles : zmq_sockets'[h].type = zmq_sockets[h].type
  <2>1. zmq_sockets \in [Handles -> SocketRecord]
    BY DEF ProgramZmq, ZmqInv, ZmqTypeOK
  <2> QED BY <2>1 DEF RecvBuffer, Got, SocketRecord
<1> QED BY <1>2, <1>3, WireRecv, QueuesChange

(* An operation of a script. *)
LEMMA StepKeeps ==
  ASSUME ProgramZmq, NEW o \in Owners, Step(o)
  PROVE  ProgramZmq' /\ UNCHANGED packetVars /\ UNCHANGED req_place
<1> DEFINE op == Head(script[o]).op
           i == Head(script[o]).i
<1>1. Perform(o, op, i)
  BY DEF Step
<1>2. Head(script[o]) \in Operations
  BY DEF ProgramZmq, MembersInv, Step
<1>3. op \in OnSocket => i \in 1 .. 2
  BY <1>2 DEF Operations, OnContext, OnSocket
<1> HIDE DEF op, i
<1>4. ZmqInv' /\ CountInv'
  BY <1>1, <1>3, PerformIsZmq, StepInv, CountStep DEF ProgramZmq
<1>5. WireInv'
  BY <1>1, <1>3, WireStep
<1>6. MembersInv'
  BY MemberStep DEF ProgramZmq
<1>7. UNCHANGED packetVars /\ UNCHANGED req_place
  BY DEF Step, packetVars, threadVars
<1> QED BY <1>4, <1>5, <1>6, <1>7 DEF ProgramZmq

(* A thread that goes on. *)
LEMMA GoesKeeps ==
  ASSUME ProgramZmq, NEW o \in Owners, NEW from, NEW to,
         NEW ops \in {<<>>, Constructor[o], Close[o], Destructor[o]}, Goes(o, from, to, ops)
  PROVE  ProgramZmq'
<1>1. Whole(ops)
  BY ScriptsAreWhole
<1>2. UNCHANGED zmqVars /\ script' = [script EXCEPT ![o] = ops]
  BY DEF Goes
<1> QED BY <1>1, <1>2, ScriptsChange

ProgramInv == ProgramZmq /\ PacketsInv

(* Where no packet moves, *)
LEMMA PacketsFrame ==
  ASSUME PacketsInv, UNCHANGED packetVars,
         req_place' \in {"reply", "forward"} => req_place \in {"reply", "forward"}
  PROVE  PacketsInv'
BY DEF PacketsInv, packetVars

(* in the threads of main and of the user, *)
LEMMA MainKeeps ==
  ASSUME ProgramInv, Main \/ CloseBegin \/ BindFails \/ Wait \/ Finish \/ ClientStart \/ ClientReady
                       \/ ClientDestroy \/ ClientGone
  PROVE  ProgramInv'
<1> "server" \in Owners /\ "client" \in Owners
  BY DEF Owners
<1>1. ProgramZmq'
  <2> ProgramZmq
    BY DEF ProgramInv
  <2>1. CASE UsageError \/ ReadFile \/ ReadString \/ Start \/ Setup \/ CloseBegin \/ CloseJoin \/ Teardown \/ Exit
    BY <2>1, GoesKeeps
      DEF UsageError, ReadFile, ReadString, Constructs, Start, Setup, CloseBegin, CloseJoin, Teardown, Exit
  <2>2. CASE Wait \/ Finish \/ ClientStart \/ ClientReady \/ ClientDestroy \/ ClientGone
    BY <2>2, GoesKeeps DEF Wait, Finish, ClientStart, ClientReady, ClientDestroy, ClientGone
  <2>3. CASE BindFails
    <3>1. Whole(<<>>) /\ Whole(DestroyMembers)
      BY ScriptsAreWhole
    <3>2. UNCHANGED zmqVars /\ \E ops \in {<<>>, DestroyMembers} : script' = [script EXCEPT !["server"] = ops]
      BY <2>3 DEF BindFails
    <3> QED BY <3>1, <3>2, ScriptsChange
  <2> QED BY <2>1, <2>2, <2>3 DEF Main
<1>2. UNCHANGED packetVars /\ req_place' \in {req_place, "check"}
  BY DEF Main, UsageError, ReadFile, ReadString, Constructs, Start, Setup, CloseBegin, CloseJoin, Teardown,
         Exit, Wait, Finish, ClientStart, ClientReady, ClientDestroy, ClientGone, BindFails, packetVars,
         threadVars, clientVars
<1> QED BY <1>1, <1>2, PacketsFrame DEF ProgramInv

(* in those of the server, *)
LEMMA ServerKeeps ==
  ASSUME ProgramInv, Requests \/ Publisher
  PROVE  ProgramInv'
<1> USE DEF ProgramInv
<1>s. "server" \in Owners /\ 1 \in 1 .. 2 /\ 2 \in 1 .. 2
  BY DEF Owners
<1>1. CASE ReqCheck \/ ReqMiss \/ PubCheck \/ PubWake
  <2>1. UNCHANGED zmqVars /\ UNCHANGED script /\ UNCHANGED packetVars
        /\ (req_place' \in {"reply", "forward"} => req_place \in {"reply", "forward"})
    BY <1>1 DEF ReqCheck, ReqMiss, PubCheck, PubWake, serverRest, packetVars, clientVars
  <2> QED BY <2>1, ScriptsChange, PacketsFrame
<1>2. CASE ReqRecv
  <2> DEFINE bytes == Head(zmq_sockets[_handle[Sock("server", 2)]].in)
  <2>1. RecvBuffer(Sock("server", 2)) /\ UNCHANGED script /\ request' = to_packet(bytes)
        /\ UNCHANGED <<received_packets, answered, stored, fetched, calls>>
    BY <1>2 DEF ReqRecv, serverRest, clientVars
  <2>2. ProgramZmq'
    BY <1>s, <2>1, RecvKeeps
  <2>3. bytes \in Received["rep"]
    BY <1>s, <2>1, WireRecv, TypesOf
  <2>4. bytes \in RequestFrames
    BY <2>3 DEF Received
  <2>5. to_packet(bytes) \in Packets
    BY <2>4, FramesGiveBack DEF RequestFrames
  <2> QED BY <2>1, <2>2, <2>5 DEF PacketsInv
<1>3. CASE ReqReply
  <2>1. SendBuffer(Sock("server", 2), ReplyBytes) /\ UNCHANGED script /\ UNCHANGED packetVars
        /\ req_place = "reply"
    BY <1>3 DEF ReqReply, serverRest, packetVars, clientVars
  <2>2. ReplyBytes \in Sent[TypeOf["server"][2]]
    BY TypesOf DEF Sent
  <2> QED BY <1>s, <2>1, <2>2, SendKeeps, PacketsFrame
<1>4. CASE ReqForward
  <2>1. UNCHANGED zmqVars /\ UNCHANGED script /\ UNCHANGED <<request, stored, fetched, calls>>
        /\ req_place = "forward" /\ req_place' = "check"
        /\ received_packets' \in {received_packets, Append(received_packets, request)}
        /\ answered' \in {answered, Append(answered, request)}
    BY <1>4 DEF ReqForward, serverRest, clientVars
  <2>2. request \in Packets
    BY <2>1 DEF PacketsInv
  <2>3. received_packets \in Seq(Packets) /\ answered \in Seq(Packets)
    BY DEF PacketsInv
  <2>4. received_packets' \in Seq(Packets) /\ answered' \in Seq(Packets)
    <3> HIDE DEF Packets
    <3>1. \A list \in Seq(Packets) : Append(list, request) \in Seq(Packets)
      BY <2>2
    <3>2. received_packets' \in Seq(Packets)
      BY <2>1, <2>3, <3>1
    <3>3. answered' \in Seq(Packets)
      BY <2>1, <2>3, <3>1
    <3> QED BY <3>2, <3>3
  <2>5. PacketsInv'
    BY <2>1, <2>4 DEF PacketsInv
  <2>6. ProgramZmq'
    BY <2>1, ScriptsChange
  <2> QED BY <2>5, <2>6
<1>5. CASE Publish
  <2> DEFINE packet == Head(received_packets)
  <2>1. received_packets # <<>> /\ UNCHANGED script /\ received_packets' = Tail(received_packets)
        /\ UNCHANGED <<request, answered, stored, fetched, calls, req_place>>
        /\ IF topic_of(packet) = UNKNOWN THEN UNCHANGED zmqVars
                                          ELSE SendBuffer(Sock("server", 1), FrameOf(packet))
    BY <1>5 DEF Publish, serverRest, clientVars
  <2>2. packet \in Packets /\ Tail(received_packets) \in Seq(Packets)
    BY <2>1 DEF PacketsInv
  <2>3. PacketsInv'
    BY <2>1, <2>2 DEF PacketsInv
  <2>4. CASE topic_of(packet) = UNKNOWN
    BY <2>1, <2>3, <2>4, ScriptsChange
  <2>5. CASE topic_of(packet) # UNKNOWN
    <3>1. FrameOf(packet) \in Sent[TypeOf["server"][1]]
      BY <2>2, <2>5, TypesOf DEF Sent, PublishedFrames
    <3> QED BY <1>s, <2>1, <2>3, <2>5, <3>1, SendKeeps
  <2> QED BY <2>4, <2>5
<1> QED BY <1>1, <1>2, <1>3, <1>4, <1>5 DEF Requests, Publisher

(* and in those of the client. *)
LEMMA ClientKeeps ==
  ASSUME ProgramInv, Return \/ Fetch \/ Receive \/ Calls
  PROVE  ProgramInv'
<1> USE DEF ProgramInv
<1>s. "client" \in Owners /\ 1 \in 1 .. 2 /\ 2 \in 1 .. 2
  BY DEF Owners
<1>1. CASE Return
  <2>1. RecvBuffer(Sock("client", 2)) /\ UNCHANGED script /\ UNCHANGED packetVars /\ req_place' = req_place
    BY <1>1 DEF Return, packetVars, threadVars, clientVars
  <2> QED BY <1>s, <2>1, RecvKeeps, PacketsFrame
<1>2. CASE Fetch
  <2>1. Goes("client", "waiting", "ready", <<>>) /\ fetched' = fetched \o stored /\ stored' = <<>>
        /\ UNCHANGED <<request, received_packets, answered, calls, req_place>>
    BY <1>2 DEF Fetch, threadVars
  <2> QED BY <1>s, <2>1, GoesKeeps DEF PacketsInv
<1>3. CASE Receive
  <2> DEFINE bytes == Head(zmq_sockets[_handle[Sock("client", 1)]].in)
  <2>1. RecvBuffer(Sock("client", 1)) /\ UNCHANGED script
        /\ stored' = Append(stored, to_packet_dropped(bytes))
        /\ UNCHANGED <<request, received_packets, answered, fetched, calls, req_place>>
    BY <1>3 DEF Receive, threadVars
  <2>2. ProgramZmq'
    BY <1>s, <2>1, RecvKeeps
  <2>3. bytes \in Received["sub"]
    BY <1>s, <2>1, WireRecv, TypesOf
  <2>4. bytes \in PublishedFrames
    BY <2>3 DEF Received
  <2>5. to_packet_dropped(bytes) \in Packets
    BY <2>4, FramesGiveBack DEF PublishedFrames
  <2> QED BY <2>1, <2>2, <2>5 DEF PacketsInv
<1>4. CASE Calls
  <2>1. PICK payload \in Payloads : Call(spw_packet(payload, calls, "Mock"))
    BY <1>4 DEF Calls
  <2> DEFINE packet == spw_packet(payload, calls, "Mock")
  <2>2. /\ SendBuffer(Sock("client", 2), to_request(packet)) /\ calls < MaxCalls
        /\ UNCHANGED script /\ UNCHANGED <<request, received_packets, answered, stored, fetched, req_place>>
        /\ calls' = calls + 1
    BY <2>1 DEF Call, packetVars, threadVars
  <2>3. packet \in Packets
    <3>1. calls \in 0 .. MaxCalls - 1
      BY <2>2, ProgramAssumption DEF PacketsInv
    <3> QED BY <2>1, <3>1 DEF Packets
  <2>4. to_request(packet) \in Sent[TypeOf["client"][2]]
    BY <2>3, TypesOf DEF Sent, RequestFrames
  <2>5. ProgramZmq'
    BY <1>s, <2>2, <2>4, SendKeeps
  <2>6. PacketsInv'
    BY <2>2, ProgramAssumption DEF PacketsInv
  <2> QED BY <2>5, <2>6
<1> QED BY <1>1, <1>2, <1>3, <1>4

(* The invariant of the objects, their wires and the packets on them is     *)
(* inductive.                                                               *)
LEMMA ProgramStep == ProgramInv /\ [Next]_vars => ProgramInv'
<1> SUFFICES ASSUME ProgramInv, [Next]_vars PROVE ProgramInv'
  OBVIOUS
<1>1. CASE UNCHANGED vars
  <2>1. UNCHANGED zmqVars /\ UNCHANGED script /\ UNCHANGED packetVars /\ UNCHANGED req_place
    BY <1>1 DEF vars, packetVars, threadVars, clientVars
  <2> QED BY <2>1, ScriptsChange, PacketsFrame DEF ProgramInv
<1>2. ASSUME NEW o \in Owners, Step(o) PROVE ProgramInv'
  BY <1>2, StepKeeps, PacketsFrame DEF ProgramInv
<1>3. CASE Network
  <2>1. UNCHANGED script /\ UNCHANGED packetVars /\ UNCHANGED req_place
    BY <1>3 DEF Network, SubscriptionArrives, Carry, packetVars, threadVars, clientVars
  <2>2. CASE SubscriptionArrives
    BY <2>1, <2>2, ScriptsChange, PacketsFrame DEF ProgramInv, SubscriptionArrives
  <2>3. ASSUME NEW h \in Handles, Carry(h) PROVE ProgramInv'
    BY <2>1, <2>3, CarryKeeps, PacketsFrame DEF ProgramInv
  <2> QED BY <1>3, <2>2, <2>3 DEF Network
<1>4. CASE Main \/ CloseBegin \/ BindFails \/ Wait \/ Finish
  BY <1>4, MainKeeps
<1>5. CASE Requests \/ Publisher
  BY <1>5, ServerKeeps
<1>6. CASE User \/ Calls \/ Receive
  BY <1>6, MainKeeps, ClientKeeps DEF User
<1> QED BY <1>1, <1>2, <1>3, <1>4, <1>5, <1>6 DEF Next

(* At first there is no object, and nothing on a wire. *)
LEMMA ProgramInit == Init => ProgramInv
<1> SUFFICES ASSUME Init PROVE ProgramInv
  OBVIOUS
<1>1. ZmqInv /\ CountInv
  BY InitInv, CountInit DEF Init
<1>2. MembersInv
  <2>1. script \in [Owners -> Seq(Operations)] /\ \A o \in Owners : script[o] = <<>>
    BY DEF Init
  <2>2. \A o \in Owners, i \in 1 .. 2 : _handle[Sock(o, i)] = nullptr
    BY ObjectNames DEF Init, ZmqInit
  <2>3. \A o \in Owners : Paired(script[o])
    BY <2>1 DEF Paired
  <2> QED BY <2>1, <2>2, <2>3 DEF MembersInv, MemberInv
<1>3. WireInv
  <2>1. \A h \in Handles : zmq_sockets[h].out = <<>> /\ zmq_sockets[h].in = <<>>
    BY DEF Init, ZmqInit, NoSocket
  <2> QED BY <2>1, EmptyWires DEF WireInv
<1>4. PacketsInv
  BY ProgramAssumption DEF Init, PacketsInv
<1> QED BY <1>1, <1>2, <1>3, <1>4 DEF ProgramInv, ProgramZmq

(* Where the threads stand, and what they have of sockets and of bridges.   *)
ThreadsInv ==
  /\ program \in {"main", "test"}
  /\ attached \subseteq Sockets
  /\ m_running \in BOOLEAN
  /\ req_place \in {"none", "check", "recv", "reply", "forward", "ended"}
  /\ pub_place \in {"none", "check", "take", "ended"}
  /\ bridges \subseteq factory
  /\ subscription \in {"none", "sent", "effective"}
  /\ early \subseteq 0 .. MaxCalls - 1

(* An operation binds or connects a member. *)
LEMMA ThreadsScript ==
  ASSUME ProgramInv, ThreadsInv, NEW o \in Owners, Step(o)
  PROVE  ThreadsInv'
<1>1. Head(script[o]) \in Operations
  BY DEF Step, ProgramInv, ProgramZmq, MembersInv
<1> DEFINE op == Head(script[o]).op
           i == Head(script[o]).i
<1>2. op \in {"bind", "connect"} => Sock(o, i) \in Sockets
  BY <1>1, ObjectNames DEF Operations, OnContext, OnSocket
<1>3. attached' \subseteq Sockets /\ subscription' \in {"none", "sent", "effective"}
  <2>1. \/ op \in {"bind", "connect"} /\ attached' = attached \cup {Sock(o, i)} /\ UNCHANGED subscription
        \/ attached' \subseteq attached /\ subscription' \in {subscription, "sent"}
    BY DEF Step, bind, connect, set_subscribe, close_socket
  <2> QED BY <1>2, <2>1 DEF ThreadsInv
<1>4. UNCHANGED <<program, m_running, req_place, pub_place, bridges, early>>
  BY DEF Step, startVars, threadVars
<1> QED BY <1>3, <1>4 DEF ThreadsInv

(* So the types of the threads are kept. *)
LEMMA ThreadsStep == ProgramInv /\ ThreadsInv /\ [Next]_vars => ThreadsInv'
<1> SUFFICES ASSUME ProgramInv, ThreadsInv, [Next]_vars PROVE ThreadsInv'
  OBVIOUS
<1> USE DEF ThreadsInv
<1>1. CASE UNCHANGED vars
  BY <1>1 DEF vars, startVars, threadVars, clientVars
<1>2. ASSUME NEW o \in Owners, Step(o) PROVE ThreadsInv'
  BY <1>2, ThreadsScript
<1>3. CASE BindFails
  BY <1>3 DEF BindFails, startVars, threadVars, clientVars
<1>4. CASE Main \/ CloseBegin
  BY <1>4 DEF Main, UsageError, ReadFile, ReadString, Constructs, Start, Setup, CloseBegin, CloseJoin,
              Teardown, Exit, Goes, startVars, threadVars, clientVars
<1>5. CASE Requests \/ Publisher
  BY <1>5 DEF Requests, ReqCheck, ReqMiss, ReqRecv, ReqReply, ReqForward, Publisher, PubCheck, Publish,
              PubWake, serverRest, startVars, clientVars
<1>6. CASE User \/ Wait \/ Finish \/ Receive
  BY <1>6 DEF User, ClientStart, ClientReady, Return, Fetch, ClientDestroy, ClientGone, Wait, Finish,
              Receive, Goes, startVars, threadVars, clientVars
<1>7. CASE Calls
  <2>1. PICK payload \in Payloads : Call(spw_packet(payload, calls, "Mock"))
    BY <1>7 DEF Calls
  <2>2. spw_packet(payload, calls, "Mock").port = calls
    BY DEF spw_packet
  <2>3. calls < MaxCalls /\ early' \subseteq early \cup {calls}
        /\ UNCHANGED <<startVars, attached, threadVars, subscription>>
    BY <2>1, <2>2 DEF Call
  <2>4. calls \in 0 .. MaxCalls - 1
    BY <2>3, ProgramAssumption DEF ProgramInv, PacketsInv
  <2> QED BY <2>3, <2>4 DEF startVars, threadVars
<1>8. CASE Network
  BY <1>8 DEF Network, SubscriptionArrives, Carry, startVars, threadVars, clientVars
<1> QED BY <1>1, <1>2, <1>3, <1>4, <1>5, <1>6, <1>7, <1>8 DEF Next

(* Both invariants always hold. *)
LEMMA ProgramInvariant == Spec => [](ProgramInv /\ ThreadsInv)
<1>1. Init => ThreadsInv
  BY DEF Init, ThreadsInv
<1> QED BY <1>1, ProgramInit, ProgramStep, ThreadsStep, PTL DEF Spec

(* The whole program: every variable keeps its type, and through all of its  *)
(* constructors, destructors, messages and frames each context and each      *)
(* socket has exactly one living object, and no context is destroyed before  *)
(* its sockets.                                                              *)
THEOREM ProgramTypeCorrect == Spec => []ProgramTypeOK
<1>1. ProgramInv /\ ThreadsInv => ProgramTypeOK
  BY DEF ProgramInv, ProgramZmq, PacketsInv, ZmqInv, ThreadsInv, ProgramTypeOK
<1> QED BY <1>1, ProgramInvariant, PTL

-----------------------------------------------------------------------------
(* The order of the operations in the scripts *)

NeverAfter(ops, a, B) == \A j, k \in DOMAIN ops : ops[j] = a /\ j < k => ops[k] \notin B

(* Scripts one after the other, *)
LEMMA NeverAfterConcat ==
  ASSUME NEW S, NEW s \in Seq(S), NEW t \in Seq(S), NEW a, NEW B,
         NeverAfter(s, a, B), NeverAfter(t, a, B), a \in Elements(s) => Elements(t) \cap B = {}
  PROVE  NeverAfter(s \o t, a, B)
<1> DEFINE m == Len(s)
           n == Len(t)
           st == s \o t
<1>1. /\ m \in Nat /\ n \in Nat
      /\ DOMAIN s = 1 .. m /\ DOMAIN t = 1 .. n /\ DOMAIN st = 1 .. m + n
      /\ \A i \in 1 .. m + n : st[i] = IF i <= m THEN s[i] ELSE t[i - m]
  <2>1. m \in Nat /\ n \in Nat /\ DOMAIN s = 1 .. m /\ DOMAIN t = 1 .. n
    BY LenProperties
  <2>2. st \in Seq(S) /\ Len(st) = m + n
        /\ \A i \in 1 .. m + n : st[i] = IF i <= m THEN s[i] ELSE t[i - m]
    BY ConcatProperties
  <2> QED BY <2>1, <2>2, LenProperties
<1> HIDE DEF m, n, st
<1>2. SUFFICES ASSUME NEW j \in 1 .. m + n, NEW k \in 1 .. m + n, st[j] = a, j < k, st[k] \in B
               PROVE  FALSE
  BY <1>1 DEF NeverAfter, st
<1>3. CASE k <= m
  BY <1>1, <1>2, <1>3 DEF NeverAfter
<1>4. CASE m < j
  <2>1. /\ j - m \in 1 .. n /\ k - m \in 1 .. n /\ j - m < k - m
        /\ st[j] = t[j - m] /\ st[k] = t[k - m]
    BY <1>1, <1>2, <1>4
  <2> QED BY <1>1, <1>2, <2>1 DEF NeverAfter
<1>5. CASE j <= m /\ m < k
  <2>1. st[j] = s[j] /\ j \in 1 .. m /\ st[k] = t[k - m] /\ k - m \in 1 .. n
    BY <1>1, <1>2, <1>5
  <2>2. a \in Elements(s) /\ st[k] \in Elements(t)
    BY <1>1, <1>2, <2>1 DEF Elements
  <2> QED BY <1>2, <2>2
<1> QED BY <1>1, <1>2, <1>3, <1>4, <1>5

(* and what is left of one.                                                 *)
LEMMA NeverAfterTail ==
  ASSUME NEW S, NEW s \in Seq(S), s # <<>>, NEW a, NEW B, NeverAfter(s, a, B)
  PROVE  NeverAfter(Tail(s), a, B) /\ (Head(s) = a => Elements(Tail(s)) \cap B = {})
<1> DEFINE n == Len(s)
           rest == Tail(s)
<1>1. /\ n \in Nat /\ n > 0 /\ DOMAIN s = 1 .. n /\ DOMAIN rest = 1 .. n - 1 /\ Head(s) = s[1]
      /\ \A i \in 1 .. n - 1 : rest[i] = s[i + 1]
  OBVIOUS
<1> HIDE DEF n, rest
<1>2. \A i \in 1 .. n - 1 : i + 1 \in 1 .. n /\ 1 < i + 1 /\ 1 \in 1 .. n
  BY <1>1
<1>3. NeverAfter(rest, a, B)
  <2> SUFFICES ASSUME NEW j \in 1 .. n - 1, NEW k \in 1 .. n - 1, rest[j] = a, j < k, rest[k] \in B
               PROVE  FALSE
    BY <1>1 DEF NeverAfter
  <2>1. j + 1 < k + 1
    BY <1>1
  <2> QED BY <1>1, <1>2, <2>1 DEF NeverAfter
<1>4. ASSUME Head(s) = a, NEW e \in Elements(rest), e \in B
      PROVE  FALSE
  <2>1. PICK k \in 1 .. n - 1 : rest[k] = e
    BY <1>1, <1>4 DEF Elements
  <2> QED BY <1>1, <1>2, <1>4, <2>1 DEF NeverAfter
<1> QED BY <1>3, <1>4 DEF rest

(* The publisher is made once. *)
ServerOrder(ops) == NeverAfter(ops, Op("socket_t", 1), {Op("socket_t", 1)})

(* The subscriber is made, connected and subscribed, in this order and once, *)
(* and closed before it is destroyed.                                        *)
ClientOrder(ops) ==
  /\ NeverAfter(ops, Op("subscribe", 1), {Op("=", 1), Op("connect", 1), Op("subscribe", 1)})
  /\ NeverAfter(ops, Op("connect", 1), {Op("=", 1)})
  /\ NeverAfter(ops, Op("~member", 1), {Op("close", 1)})
  /\ Op("=", 1) \in Elements(ops) \/ Op("connect", 1) \in Elements(ops)
       => Op("subscribe", 1) \in Elements(ops)
  /\ Op("subscribe", 1) \in Elements(ops)
       => Op("close", 1) \notin Elements(ops) /\ Op("~member", 1) \notin Elements(ops)

(* The parts of the scripts. *)
LEMMA ElementsOfParts ==
  /\ Elements(Members) = {Op("m_ctx", 0), Op("member", 1), Op("member", 2)}
  /\ Elements(MakeContext) = {Op("context_t", 0), Op("m_ctx=", 0), Op("~context_t", 0)}
  /\ \A i : Elements(MakeSocket(i)) = {Op("socket_t", i), Op("=", i), Op("~socket_t", i)}
  /\ \A a, b : Elements(<<a, b>>) = {a, b}
  /\ \A a : Elements(<<a>>) = {a}
  /\ \A a, b, c : Elements(<<a, b, c>>) = {a, b, c}
  /\ Elements(<<>>) = {}
<1>1. \A a, b, c : Elements(<<a, b, c>>) = {a, b, c}
  BY DEF Elements
<1>2. \A a, b : Elements(<<a, b>>) = {a, b}
  BY DEF Elements
<1>3. \A a : Elements(<<a>>) = {a}
  BY DEF Elements
<1>4. Elements(<<>>) = {}
  BY DEF Elements
<1> QED BY <1>1, <1>2, <1>3, <1>4 DEF Members, MakeContext, MakeSocket

(* Nothing comes after an operation that does not occur. *)
LEMMA NeverAfterAbsent ==
  ASSUME NEW s, NEW a, a \notin Elements(s), NEW B
  PROVE  NeverAfter(s, a, B)
BY DEF NeverAfter, Elements

(* ZMQServer.hpp, ZMQServer.cpp: the server's scripts. *)
LEMMA ServerScripts ==
  /\ ServerOrder(Constructor["server"])
  /\ \A ops \in {<<>>, Close["server"], Destructor["server"], DestroyMembers} :
       ServerOrder(ops) /\ Op("socket_t", 1) \notin Elements(ops)
<1> DEFINE a == Op("socket_t", 1)
           front == Members \o MakeContext
           back == <<Op("bind", 1), Op("bind", 2)>>
<1>1. /\ Members \in Seq(Operations) /\ MakeContext \in Seq(Operations)
      /\ MakeSocket(1) \in Seq(Operations) /\ MakeSocket(2) \in Seq(Operations)
      /\ back \in Seq(Operations) /\ DestroyMembers \in Seq(Operations) /\ Close["server"] \in Seq(Operations)
  BY DEF Members, MakeContext, MakeSocket, Close, DestroyMembers, Op, Operations, OnContext, OnSocket
<1>2. /\ Elements(Close["server"]) = {Op("close", 1), Op("close", 2)}
      /\ Elements(DestroyMembers) = {Op("~member", 2), Op("~member", 1), Op("~m_ctx", 0)}
      /\ Elements(back) = {Op("bind", 1), Op("bind", 2)}
  BY ElementsOfParts DEF Close, DestroyMembers
<1>3. /\ Constructor["server"] = ((front \o MakeSocket(1)) \o MakeSocket(2)) \o back
      /\ Destructor["server"] = Close["server"] \o DestroyMembers
  BY DEF Constructor, Destructor
<1> HIDE DEF back
<1>4. front \in Seq(Operations) /\ a \notin Elements(front)
  <2>1. Elements(front) = Elements(Members) \cup Elements(MakeContext)
    BY <1>1, ElementsConcat
  <2> QED BY <1>1, <2>1, ElementsOfParts, ConcatProperties DEF Op
<1> HIDE DEF front
<1>5. ServerOrder(front \o MakeSocket(1)) /\ front \o MakeSocket(1) \in Seq(Operations)
  <2>1. NeverAfter(MakeSocket(1), a, {a})
    BY DEF NeverAfter, MakeSocket, Op
  <2>2. NeverAfter(front, a, {a})
    BY <1>4, NeverAfterAbsent
  <2> QED BY <1>1, <1>4, <2>1, <2>2, NeverAfterConcat, ConcatProperties DEF ServerOrder
<1>6. /\ ServerOrder((front \o MakeSocket(1)) \o MakeSocket(2))
      /\ (front \o MakeSocket(1)) \o MakeSocket(2) \in Seq(Operations)
  <2>1. a \notin Elements(MakeSocket(2))
    BY ElementsOfParts DEF Op
  <2>2. NeverAfter(MakeSocket(2), a, {a}) /\ Elements(MakeSocket(2)) \cap {a} = {}
    BY <2>1, NeverAfterAbsent
  <2> QED BY <1>1, <1>5, <2>2, NeverAfterConcat, ConcatProperties DEF ServerOrder
<1>7. ServerOrder(Constructor["server"])
  <2>1. a \notin Elements(back)
    BY <1>2 DEF Op
  <2>2. NeverAfter(back, a, {a}) /\ Elements(back) \cap {a} = {}
    BY <2>1, NeverAfterAbsent
  <2> QED BY <1>1, <1>3, <1>6, <2>2, NeverAfterConcat DEF ServerOrder
<1>8. a \notin Elements(<<>>) /\ a \notin Elements(Close["server"]) /\ a \notin Elements(Destructor["server"])
      /\ a \notin Elements(DestroyMembers)
  <2>1. Elements(Destructor["server"]) = Elements(Close["server"]) \cup Elements(DestroyMembers)
    BY <1>1, <1>3, ElementsConcat
  <2> QED BY <1>2, <2>1, ElementsOfParts DEF Op
<1> QED BY <1>7, <1>8, NeverAfterAbsent DEF ServerOrder

(* ZMQClient.hpp: the client's scripts. *)
LEMMA ClientScripts ==
  /\ ClientOrder(Constructor["client"]) /\ ClientOrder(Destructor["client"]) /\ ClientOrder(<<>>)
  /\ Op("~member", 1) \notin Elements(Constructor["client"])
  /\ Op("=", 1) \in Elements(Constructor["client"])
  /\ \A ops \in {<<>>, Destructor["client"]} :
       /\ Op("subscribe", 1) \notin Elements(ops) /\ Op("connect", 1) \notin Elements(ops)
       /\ Op("=", 1) \notin Elements(ops)
       /\ Op("~member", 1) \in Elements(ops) => Op("close", 1) \in Elements(ops)
<1> DEFINE front == (((Members \o MakeContext) \o MakeSocket(2)) \o <<Op("connect", 2)>>) \o MakeSocket(1)
           back == <<Op("connect", 1), Op("subscribe", 1), Op("own", 0)>>
           begin == <<Op("~own", 0)>> \o Close["client"]
<1>1. /\ Members \in Seq(Operations) /\ MakeContext \in Seq(Operations)
      /\ MakeSocket(1) \in Seq(Operations) /\ MakeSocket(2) \in Seq(Operations)
      /\ <<Op("connect", 2)>> \in Seq(Operations) /\ <<Op("~own", 0)>> \in Seq(Operations)
      /\ back \in Seq(Operations) /\ DestroyMembers \in Seq(Operations) /\ Close["client"] \in Seq(Operations)
  BY DEF Members, MakeContext, MakeSocket, Close, DestroyMembers, Op, Operations, OnContext, OnSocket
<1>2. /\ Elements(begin) = {Op("~own", 0), Op("close", 2), Op("close", 1)} /\ begin \in Seq(Operations)
      /\ Elements(DestroyMembers) = {Op("~member", 2), Op("~member", 1), Op("~m_ctx", 0)}
      /\ Elements(back) = {Op("connect", 1), Op("subscribe", 1), Op("own", 0)}
  <2>1. Elements(begin) = Elements(<<Op("~own", 0)>>) \cup Elements(Close["client"])
    <3>1. \A u, v \in Seq(Operations) : Elements(u \o v) = Elements(u) \cup Elements(v)
      BY ElementsConcat
    <3> QED BY <1>1, <3>1
  <2>2. /\ Elements(<<Op("~own", 0)>>) = {Op("~own", 0)}
        /\ Elements(Close["client"]) = {Op("close", 2), Op("close", 1)}
        /\ Elements(DestroyMembers) = {Op("~member", 2), Op("~member", 1), Op("~m_ctx", 0)}
        /\ Elements(back) = {Op("connect", 1), Op("subscribe", 1), Op("own", 0)}
    BY ElementsOfParts DEF Close, DestroyMembers
  <2>3. begin \in Seq(Operations)
    BY <1>1, ConcatProperties
  <2> QED BY <2>1, <2>2, <2>3
<1>3. /\ Constructor["client"] = front \o back
      /\ Destructor["client"] = begin \o DestroyMembers
  BY DEF Constructor, Destructor
<1>4. /\ front \in Seq(Operations)
      /\ Elements(front) = Elements(Members) \cup Elements(MakeContext) \cup Elements(MakeSocket(2))
                             \cup Elements(<<Op("connect", 2)>>) \cup Elements(MakeSocket(1))
  <2> DEFINE one == Members \o MakeContext
             two == one \o MakeSocket(2)
             three == two \o <<Op("connect", 2)>>
  <2>0. \A u, v \in Seq(Operations) :
          u \o v \in Seq(Operations) /\ Elements(u \o v) = Elements(u) \cup Elements(v)
    BY ElementsConcat, ConcatProperties
  <2>1. one \in Seq(Operations) /\ Elements(one) = Elements(Members) \cup Elements(MakeContext)
    BY <1>1, <2>0
  <2> HIDE DEF one
  <2>2. two \in Seq(Operations) /\ Elements(two) = Elements(one) \cup Elements(MakeSocket(2))
    BY <1>1, <2>0, <2>1
  <2> HIDE DEF two
  <2>3. three \in Seq(Operations) /\ Elements(three) = Elements(two) \cup Elements(<<Op("connect", 2)>>)
    BY <1>1, <2>0, <2>2
  <2> HIDE DEF three
  <2>4. front = three \o MakeSocket(1)
    BY DEF three, two, one
  <2>5. front \in Seq(Operations) /\ Elements(front) = Elements(three) \cup Elements(MakeSocket(1))
    BY <1>1, <2>0, <2>3, <2>4
  <2> QED BY <2>1, <2>2, <2>3, <2>5
<1>5. /\ Op("=", 1) \in Elements(front)
      /\ \A a \in {Op("subscribe", 1), Op("connect", 1), Op("close", 1), Op("~member", 1)} :
           a \notin Elements(front)
  <2> HIDE DEF front
  <2>1. Elements(<<Op("connect", 2)>>) = {Op("connect", 2)}
    BY ElementsOfParts, Zenon
  <2>2. Elements(front) = {Op("m_ctx", 0), Op("member", 1), Op("member", 2),
                           Op("context_t", 0), Op("m_ctx=", 0), Op("~context_t", 0),
                           Op("socket_t", 2), Op("=", 2), Op("~socket_t", 2), Op("connect", 2),
                           Op("socket_t", 1), Op("=", 1), Op("~socket_t", 1)}
    BY <1>4, <2>1, ElementsOfParts
  <2> QED BY <2>2 DEF Op
<1>6. /\ NeverAfter(back, Op("subscribe", 1), {Op("=", 1), Op("connect", 1), Op("subscribe", 1)})
      /\ NeverAfter(back, Op("connect", 1), {Op("=", 1)})
      /\ NeverAfter(DestroyMembers, Op("~member", 1), {Op("close", 1)})
  BY DEF NeverAfter, Op, DestroyMembers
<1> HIDE DEF front, back, begin
<1>7. /\ Elements(Constructor["client"]) = Elements(front) \cup Elements(back)
      /\ Elements(Destructor["client"]) = Elements(begin) \cup Elements(DestroyMembers)
  <2>1. \A u, v \in Seq(Operations) : Elements(u \o v) = Elements(u) \cup Elements(v)
    BY ElementsConcat
  <2>2. /\ back \in Seq(Operations) /\ front \in Seq(Operations)
        /\ begin \in Seq(Operations) /\ DestroyMembers \in Seq(Operations)
    BY <1>1, <1>2, <1>4
  <2>3. /\ Elements(front \o back) = Elements(front) \cup Elements(back)
        /\ Elements(begin \o DestroyMembers) = Elements(begin) \cup Elements(DestroyMembers)
    BY <2>1, <2>2
  <2> QED BY <1>3, <2>3
<1>8. /\ Op("=", 1) \in Elements(Constructor["client"])
      /\ Op("subscribe", 1) \in Elements(Constructor["client"])
      /\ Op("~member", 1) \notin Elements(Constructor["client"])
      /\ Op("close", 1) \notin Elements(Constructor["client"])
  BY <1>2, <1>5, <1>7 DEF Op
<1>9. ClientOrder(Constructor["client"])
  <2>1. \A B : \A a \in {Op("subscribe", 1), Op("connect", 1)} : NeverAfter(front, a, B)
    BY <1>5, NeverAfterAbsent
  <2>2. NeverAfter(Constructor["client"], Op("subscribe", 1), {Op("=", 1), Op("connect", 1), Op("subscribe", 1)})
    BY <1>1, <1>3, <1>4, <1>5, <1>6, <2>1, NeverAfterConcat
  <2>3. NeverAfter(Constructor["client"], Op("connect", 1), {Op("=", 1)})
    BY <1>1, <1>3, <1>4, <1>5, <1>6, <2>1, NeverAfterConcat
  <2>4. NeverAfter(Constructor["client"], Op("~member", 1), {Op("close", 1)})
    BY <1>8, NeverAfterAbsent
  <2> QED BY <1>8, <2>2, <2>3, <2>4 DEF ClientOrder
<1>10. \A a \in {Op("subscribe", 1), Op("connect", 1), Op("=", 1)} :
         a \notin Elements(<<>>) /\ a \notin Elements(Destructor["client"])
  BY <1>2, <1>7, ElementsOfParts DEF Op
<1>11. Op("close", 1) \in Elements(Destructor["client"]) /\ Op("~member", 1) \notin Elements(<<>>)
  BY <1>2, <1>7, ElementsOfParts
<1>12. NeverAfter(Destructor["client"], Op("~member", 1), {Op("close", 1)})
  <2>1. Op("~member", 1) \notin Elements(begin)
    BY <1>2 DEF Op
  <2>2. NeverAfter(begin, Op("~member", 1), {Op("close", 1)})
    BY <2>1, NeverAfterAbsent
  <2>3. begin \in Seq(Operations) /\ DestroyMembers \in Seq(Operations)
    BY <1>1, <1>2
  <2>4. NeverAfter(begin \o DestroyMembers, Op("~member", 1), {Op("close", 1)})
    BY <1>6, <2>1, <2>2, <2>3, NeverAfterConcat
  <2> QED BY <1>3, <2>4
<1>13. ClientOrder(Destructor["client"]) /\ ClientOrder(<<>>)
  BY <1>10, <1>11, <1>12, NeverAfterAbsent DEF ClientOrder
<1> QED BY <1>8, <1>9, <1>10, <1>11, <1>13

-----------------------------------------------------------------------------
(* What is under way from the publisher to the subscriber *)

Subscriber == Sock("client", 1)
SubIn(handles, sockets) ==
  IF handles[Subscriber] = nullptr THEN <<>> ELSE sockets[handles[Subscriber]].in

Pubs(sockets) == {h \in Handles : sockets[h].type = "pub"}
OnePub(sockets) == \A g, h \in Pubs(sockets) : g = h
QueueIn(socket, contents) == [n \in DOMAIN socket.out |-> contents[socket.out[n]].bytes]
PubOut(sockets, contents) ==
  IF Pubs(sockets) = {} THEN <<>>
  ELSE QueueIn(sockets[CHOOSE h \in Pubs(sockets) : TRUE], contents)

(* The one publisher's queue, *)
LEMMA PubOutIs ==
  ASSUME NEW sockets, NEW contents, OnePub(sockets)
  PROVE  /\ \A h \in Pubs(sockets) : PubOut(sockets, contents) = QueueIn(sockets[h], contents)
         /\ Pubs(sockets) = {} => PubOut(sockets, contents) = <<>>
<1>1. ASSUME NEW h \in Pubs(sockets)
      PROVE  PubOut(sockets, contents) = QueueIn(sockets[h], contents)
  <2>1. (CHOOSE g \in Pubs(sockets) : TRUE) = h
    BY DEF OnePub
  <2> QED BY <2>1 DEF PubOut
<1> QED BY <1>1 DEF PubOut

(* which is kept where it is left alone, or empty and closed. *)
LEMMA PubKept ==
  ASSUME NEW s, NEW c, NEW s2, NEW c2, OnePub(s),
         \A h \in Handles : s2[h].type = "pub" =>
           s[h].type = "pub" /\ QueueIn(s2[h], c2) = QueueIn(s[h], c),
         \A h \in Handles : s[h].type = "pub" /\ s2[h].type # "pub" => QueueIn(s[h], c) = <<>>
  PROVE  OnePub(s2) /\ PubOut(s2, c2) = PubOut(s, c)
<1>1. Pubs(s2) \subseteq Pubs(s)
  BY DEF Pubs
<1>2. OnePub(s2)
  BY <1>1 DEF OnePub
<1>3. CASE Pubs(s2) = {}
  <2>1. PubOut(s2, c2) = <<>>
    BY <1>2, <1>3, PubOutIs
  <2>2. ASSUME Pubs(s) = {} PROVE PubOut(s, c) = <<>>
    BY <2>2, PubOutIs
  <2>3. ASSUME NEW h \in Pubs(s) PROVE PubOut(s, c) = <<>>
    <3>1. h \in Handles /\ s[h].type = "pub" /\ s2[h].type # "pub"
      BY <1>3 DEF Pubs
    <3>2. PubOut(s, c) = QueueIn(s[h], c)
      BY PubOutIs
    <3>3. QueueIn(s[h], c) = <<>>
      BY <3>1
    <3> QED BY <3>2, <3>3
  <2>4. PubOut(s, c) = <<>>
    <3>1. CASE Pubs(s) = {}
      BY <2>2, <3>1
    <3>2. CASE Pubs(s) # {}
      <4>1. PICK h : h \in Pubs(s)
        BY <3>2
      <4> QED BY <2>3, <4>1
    <3> QED BY <3>1, <3>2
  <2> QED BY <1>2, <2>1, <2>4, Zenon
<1>4. ASSUME NEW h \in Pubs(s2) PROVE PubOut(s2, c2) = PubOut(s, c)
  <2>1. h \in Handles /\ s2[h].type = "pub" /\ h \in Pubs(s)
    BY <1>1 DEF Pubs
  <2>2. PubOut(s2, c2) = QueueIn(s2[h], c2) /\ PubOut(s, c) = QueueIn(s[h], c)
    BY <1>2, <2>1, PubOutIs
  <2> QED BY <2>1, <2>2
<1> QED BY <1>2, <1>3, <1>4

(* The places of the queues hold contents. *)
LEMMA PlacesHold ==
  ASSUME ProgramZmq, NEW h \in Handles, NEW n \in DOMAIN zmq_sockets[h].out
  PROVE  zmq_sockets[h].out[n] \in Handles /\ zmq_contents[zmq_sockets[h].out[n]].refs > 0
<1>1. zmq_sockets[h].out[n] \in Handles
  BY DEF ProgramZmq, WireInv, OutOK
<1> QED BY <1>1, PlaceIsCounted DEF ProgramZmq, CountInv

(* A message is sent. *)
LEMMA SendView ==
  ASSUME ProgramZmq, OnePub(zmq_sockets), NEW o \in Owners, NEW i \in 1 .. 2, NEW bytes,
         SendBuffer(Sock(o, i), bytes)
  PROVE  /\ OnePub(zmq_sockets') /\ UNCHANGED _handle
         /\ \A h \in Handles : /\ zmq_sockets'[h].type = zmq_sockets[h].type
                              /\ zmq_sockets'[h].in = zmq_sockets[h].in
         /\ PubOut(zmq_sockets', zmq_contents')
              = IF TypeOf[o][i] = "pub" THEN Append(PubOut(zmq_sockets, zmq_contents), bytes)
                                        ELSE PubOut(zmq_sockets, zmq_contents)
<1> DEFINE g == _handle[Sock(o, i)]
<1>1. PICK k \in Handles :
        /\ ~IsContent(k)
        /\ zmq_contents' = [zmq_contents EXCEPT ![k] = [refs |-> 1, bytes |-> bytes]]
        /\ zmq_sockets' = [zmq_sockets EXCEPT ![g].out = Append(@, k)]
  BY DEF SendBuffer, Put
<1>2. g \in Handles /\ zmq_sockets[g].type = TypeOf[o][i]
  <2>1. g # nullptr
    BY DEF SendBuffer, Connected
  <2>2. g \in OrNull(Handles)
    BY ObjectNames DEF ProgramZmq, ZmqInv, ZmqTypeOK
  <2> QED BY <2>1, <2>2 DEF ProgramZmq, MembersInv, MemberInv, HoldsType, OrNull
<1>3. UNCHANGED _handle
  BY DEF SendBuffer
<1> HIDE DEF g
<1>4. zmq_contents \in [Handles -> ContentRecord] /\ zmq_sockets \in [Handles -> SocketRecord]
  BY DEF ProgramZmq, CountInv, Counted
<1>5. ASSUME NEW h \in Handles, NEW n \in DOMAIN zmq_sockets[h].out
      PROVE  zmq_contents'[zmq_sockets[h].out[n]] = zmq_contents[zmq_sockets[h].out[n]]
  BY <1>1, <1>4, PlacesHold DEF IsContent
<1> DEFINE q == zmq_sockets[g].out
<1>6. /\ zmq_sockets'[g].out = Append(q, k)
      /\ zmq_sockets'[g].type = zmq_sockets[g].type /\ zmq_sockets'[g].in = zmq_sockets[g].in
      /\ \A h \in Handles \ {g} : zmq_sockets'[h] = zmq_sockets[h]
  BY <1>1, <1>2, <1>4 DEF SocketRecord
<1>7. ASSUME NEW h \in Handles, h # g
      PROVE  QueueIn(zmq_sockets'[h], zmq_contents') = QueueIn(zmq_sockets[h], zmq_contents)
  BY <1>5, <1>6, <1>7 DEF QueueIn
<1>8. Pubs(zmq_sockets') = Pubs(zmq_sockets) /\ OnePub(zmq_sockets')
  BY <1>6 DEF Pubs, OnePub
<1>9. CASE TypeOf[o][i] = "pub"
  <2>1. g \in Pubs(zmq_sockets)
    BY <1>2, <1>9 DEF Pubs
  <2>2. /\ PubOut(zmq_sockets, zmq_contents) = QueueIn(zmq_sockets[g], zmq_contents)
        /\ PubOut(zmq_sockets', zmq_contents') = QueueIn(zmq_sockets'[g], zmq_contents')
    BY <1>8, <2>1, PubOutIs
  <2>3. q \in Seq(Handles)
    BY <1>2 DEF ProgramZmq, WireInv, OutOK
  <2>4. zmq_contents'[k].bytes = bytes
    BY <1>1, <1>4
  <2>5. \A n \in DOMAIN q : zmq_contents'[q[n]].bytes = zmq_contents[q[n]].bytes
    BY <1>2, <1>5
  <2> HIDE DEF q
  <2>6. [n \in DOMAIN Append(q, k) |-> zmq_contents'[Append(q, k)[n]].bytes]
          = Append([n \in DOMAIN q |-> zmq_contents[q[n]].bytes], bytes)
    BY <2>3, <2>4, <2>5
  <2> QED BY <1>3, <1>6, <1>8, <1>9, <2>2, <2>6 DEF QueueIn, q
<1>10. CASE TypeOf[o][i] # "pub"
  <2>1. \A h \in Handles : zmq_sockets'[h].type = "pub" => h # g
    BY <1>2, <1>6, <1>10
  <2>2. PubOut(zmq_sockets', zmq_contents') = PubOut(zmq_sockets, zmq_contents)
    BY <1>6, <1>7, <2>1, PubKept
  <2> QED BY <1>3, <1>6, <1>8, <1>10, <2>2
<1> QED BY <1>9, <1>10

(* A message is received. *)
LEMMA RecvView ==
  ASSUME ProgramZmq, OnePub(zmq_sockets), NEW o \in Owners, NEW i \in 1 .. 2, RecvBuffer(Sock(o, i))
  PROVE  /\ OnePub(zmq_sockets') /\ UNCHANGED _handle
         /\ \A h \in Handles : zmq_sockets'[h].type = zmq_sockets[h].type
         /\ PubOut(zmq_sockets', zmq_contents') = PubOut(zmq_sockets, zmq_contents)
         /\ _handle[Sock(o, i)] \in Handles /\ zmq_sockets[_handle[Sock(o, i)]].type = TypeOf[o][i]
         /\ zmq_sockets[_handle[Sock(o, i)]].in # <<>>
         /\ \A h \in Handles :
              zmq_sockets'[h].in = IF h = _handle[Sock(o, i)] THEN Tail(zmq_sockets[h].in)
                                   ELSE zmq_sockets[h].in
<1> DEFINE g == _handle[Sock(o, i)]
<1>1. /\ g # nullptr /\ zmq_sockets[g].in # <<>> /\ zmq_sockets' = [zmq_sockets EXCEPT ![g].in = Tail(@)]
      /\ zmq_contents' = zmq_contents /\ UNCHANGED _handle
  BY DEF RecvBuffer, HasInput, Connected, messageVars, Got
<1>2. g \in Handles /\ zmq_sockets[g].type = TypeOf[o][i]
  <2>1. g \in OrNull(Handles)
    BY ObjectNames DEF ProgramZmq, ZmqInv, ZmqTypeOK
  <2> QED BY <1>1, <2>1 DEF ProgramZmq, MembersInv, MemberInv, HoldsType, OrNull
<1>3. zmq_sockets \in [Handles -> SocketRecord]
  BY DEF ProgramZmq, ZmqInv, ZmqTypeOK
<1> HIDE DEF g
<1>4. \A h \in Handles :
        /\ zmq_sockets'[h].type = zmq_sockets[h].type /\ zmq_sockets'[h].out = zmq_sockets[h].out
        /\ zmq_sockets'[h].in = IF h = g THEN Tail(zmq_sockets[h].in) ELSE zmq_sockets[h].in
  BY <1>1, <1>2, <1>3 DEF SocketRecord
<1>5. \A h \in Handles : QueueIn(zmq_sockets'[h], zmq_contents') = QueueIn(zmq_sockets[h], zmq_contents)
  BY <1>1, <1>4 DEF QueueIn
<1>6. OnePub(zmq_sockets') /\ PubOut(zmq_sockets', zmq_contents') = PubOut(zmq_sockets, zmq_contents)
  BY <1>4, <1>5, PubKept
<1> QED BY <1>1, <1>2, <1>4, <1>6 DEF g

(* What a socket has to send. *)
LEMMA QueueType ==
  ASSUME ProgramZmq, NEW h \in Handles
  PROVE  /\ QueueIn(zmq_sockets[h], zmq_contents) \in Seq(Sent[zmq_sockets[h].type])
         /\ Len(QueueIn(zmq_sockets[h], zmq_contents)) = Len(zmq_sockets[h].out)
         /\ zmq_sockets[h].type = "sub" => zmq_sockets[h].out = <<>>
<1> DEFINE q == zmq_sockets[h].out
           S == Sent[zmq_sockets[h].type]
<1>1. q \in Seq(Handles) /\ \A n \in DOMAIN q : zmq_contents[q[n]].bytes \in S
  BY DEF ProgramZmq, WireInv, OutOK
<1>2. QueueIn(zmq_sockets[h], zmq_contents) = [n \in DOMAIN q |-> zmq_contents[q[n]].bytes]
  BY DEF QueueIn
<1>3. S = {} => q = <<>>
  <2> HIDE DEF q, S
  <2>1. q # <<>> => 1 \in DOMAIN q
    BY <1>1
  <2> QED BY <1>1, <2>1
<1>4. Sent["sub"] = {}
  BY DEF Sent
<1> HIDE DEF q, S
<1>5. Len(q) \in Nat /\ DOMAIN q = 1 .. Len(q)
  BY <1>1
<1>6. [n \in 1 .. Len(q) |-> zmq_contents[q[n]].bytes] \in Seq(S)
  BY <1>1, <1>5
<1>7. Len([n \in 1 .. Len(q) |-> zmq_contents[q[n]].bytes]) = Len(q)
  BY <1>5
<1> QED BY <1>2, <1>3, <1>4, <1>5, <1>6, <1>7 DEF q, S

(* A message is carried: it leaves the publisher's queue, or another one.   *)
LEMMA CarryView ==
  ASSUME ProgramZmq, OnePub(zmq_sockets), NEW h \in Handles, Carry(h)
  PROVE  /\ OnePub(zmq_sockets') /\ UNCHANGED _handle
         /\ \A g \in Handles : zmq_sockets'[g].type \in {zmq_sockets[g].type, NoType}
         /\ zmq_sockets[h].type # "pub" =>
              PubOut(zmq_sockets', zmq_contents') = PubOut(zmq_sockets, zmq_contents)
         /\ zmq_sockets[h].type = "pub" =>
              /\ PubOut(zmq_sockets, zmq_contents) # <<>>
              /\ Carried(h) = Head(PubOut(zmq_sockets, zmq_contents))
              /\ PubOut(zmq_sockets', zmq_contents') = Tail(PubOut(zmq_sockets, zmq_contents))
         /\ \A g \in Handles : zmq_sockets[g].type = "sub" =>
              /\ zmq_sockets'[g].type = "sub"
              /\ zmq_sockets'[g].in =
                   IF zmq_sockets[h].type = "pub" /\ Takes(h, Carried(h)) /\ g = _handle[Subscriber]
                   THEN Append(zmq_sockets[g].in, Carried(h))
                   ELSE zmq_sockets[g].in
<1> DEFINE q == zmq_sockets[h].out
           Q == QueueIn(zmq_sockets[h], zmq_contents)
<1>1. ProgramZmq'
  BY CarryKeeps
<1>2. ASSUME NEW g \in Handles, NEW n \in DOMAIN zmq_sockets'[g].out
      PROVE  zmq_contents'[zmq_sockets'[g].out[n]].bytes = zmq_contents[zmq_sockets'[g].out[n]].bytes
  <2>1. zmq_sockets'[g].out[n] \in Handles
    BY <1>1 DEF ProgramZmq, WireInv, OutOK
  <2>2. zmq_contents'[zmq_sockets'[g].out[n]].refs > 0
    BY <1>1, <2>1, PlaceIsCounted DEF ProgramZmq, CountInv
  <2>3. zmq_contents \in [Handles -> ContentRecord]
    BY DEF ProgramZmq, CountInv, Counted
  <2>4. Oldest(h) \in OrNull(Handles) /\ zmq_contents[Oldest(h)].refs > 0
        /\ zmq_contents' = Unref(Oldest(h), zmq_contents)
    BY CarrySockets DEF OrNull
  <2> QED BY <2>1, <2>2, <2>3, <2>4, UnrefCount
<1>3. ASSUME NEW g \in Handles \ {h}
      PROVE  /\ zmq_sockets'[g].out = zmq_sockets[g].out
             /\ zmq_sockets'[g].type = zmq_sockets[g].type
             /\ zmq_sockets'[g].in = IF Takes(h, Carried(h)) /\ g = Target(h)
                                     THEN Append(zmq_sockets[g].in, Carried(h))
                                     ELSE zmq_sockets[g].in
  <2>1. zmq_sockets[g] \in SocketRecord
    BY DEF ProgramZmq, ZmqInv, ZmqTypeOK
  <2>2. zmq_sockets'[g] = IF Takes(h, Carried(h)) /\ g = Target(h)
                          THEN [zmq_sockets[g] EXCEPT !.in = Append(@, Carried(h))]
                          ELSE zmq_sockets[g]
    BY CarrySockets
  <2> QED BY <2>1, <2>2 DEF SocketRecord
<1>4. /\ zmq_sockets'[h].out = Tail(q) /\ q # <<>>
      /\ zmq_sockets'[h].type = zmq_sockets[h].type
           \/ (zmq_sockets'[h].type = NoType /\ Tail(q) = <<>>)
  <2>1. /\ Shorter(h) \in SocketRecord /\ Shorter(h).out = Tail(q) /\ q # <<>>
        /\ Shorter(h).type = zmq_sockets[h].type /\ zmq_sockets'[h] = Remainder(Shorter(h))
    BY CarrySockets
  <2> HIDE DEF q
  <2>2. AfterClose(Shorter(h)).out = Tail(q)
    BY <2>1, AfterCloseOut
  <2>3. AfterClose(Shorter(h)).type = zmq_sockets[h].type
          \/ (AfterClose(Shorter(h)).type = NoType /\ Tail(q) = <<>>)
    <3>1. ASSUME NEW r \in SocketRecord
          PROVE  AfterClose(r).type = r.type \/ (AfterClose(r).type = NoType /\ r.out = <<>>)
      <4>1. CASE r.out = <<>>
        BY <4>1 DEF AfterClose, NoSocket
      <4>2. CASE r.out # <<>>
        <5>1. AfterClose(r).type = r.type
          BY <4>2 DEF AfterClose, SocketRecord
        <5> QED BY <5>1
      <4> QED BY <4>1, <4>2
    <3>2. AfterClose(Shorter(h)).type = Shorter(h).type
            \/ (AfterClose(Shorter(h)).type = NoType /\ Shorter(h).out = <<>>)
      BY <2>1, <3>1
    <3> QED BY <2>1, <3>2, Zenon
  <2>4. Remainder(Shorter(h)) \in {Shorter(h), AfterClose(Shorter(h))}
    BY Zenon DEF Remainder
  <2> QED BY <2>1, <2>2, <2>3, <2>4
<1>5. UNCHANGED _handle
  BY CarrySockets
<1>6. zmq_sockets[h].type # "sub"
  BY <1>4, QueueType
<1>7. Q \in Seq(Sent[zmq_sockets[h].type]) /\ Len(Q) = Len(q) /\ q \in Seq(Handles)
  BY QueueType DEF ProgramZmq, WireInv, OutOK
<1>8. Q # <<>> /\ Head(Q) = Carried(h)
  <2>1. \A n \in DOMAIN q : Q[n] = zmq_contents[q[n]].bytes
    BY DEF QueueIn
  <2>2. 1 \in DOMAIN q /\ Head(q) = q[1]
    <3> HIDE DEF q
    <3> QED BY <1>4, <1>7
  <2>3. Q # <<>> /\ Head(Q) = Q[1]
    <3>1. Len(q) > 0
      <4> HIDE DEF q
      <4> QED BY <1>4, <1>7
    <3> HIDE DEF q, Q
    <3> QED BY <1>7, <3>1
  <2> QED BY <2>1, <2>2, <2>3 DEF Carried, Oldest
<1>9. QueueIn(zmq_sockets'[h], zmq_contents') = Tail(Q)
  <2> DEFINE r == zmq_sockets'[h].out
  <2>1. r = Tail(q)
    BY <1>4
  <2>2. QueueIn(zmq_sockets'[h], zmq_contents') = [n \in DOMAIN r |-> zmq_contents'[r[n]].bytes]
    BY DEF QueueIn
  <2>3. \A n \in DOMAIN r : zmq_contents'[r[n]].bytes = zmq_contents[r[n]].bytes
    BY <1>2
  <2>4. \A n \in DOMAIN q : Q[n] = zmq_contents[q[n]].bytes
    BY DEF QueueIn
  <2>5. q # <<>>
    BY <1>4
  <2> HIDE DEF r, q, Q
  <2>6. [n \in DOMAIN r |-> zmq_contents[r[n]].bytes] = Tail(Q)
    <3>1. /\ Len(q) \in Nat /\ Len(q) > 0 /\ DOMAIN q = 1 .. Len(q) /\ DOMAIN r = 1 .. Len(q) - 1
          /\ \A n \in 1 .. Len(q) - 1 : r[n] = q[n + 1]
      BY <1>7, <2>1, <2>5
    <3>2. /\ DOMAIN Tail(Q) = 1 .. Len(q) - 1 /\ Tail(Q) = [n \in 1 .. Len(q) - 1 |-> Q[n + 1]]
      <4>1. Q # <<>>
        BY <1>7, <3>1
      <4>2. /\ Tail(Q) \in Seq(Sent[zmq_sockets[h].type]) /\ Len(Tail(Q)) = Len(q) - 1
            /\ \A n \in 1 .. Len(Tail(Q)) : Tail(Q)[n] = Q[n + 1]
        BY <1>7, <4>1, HeadTailProperties
      <4>3. Tail(Q) = [n \in 1 .. Len(Tail(Q)) |-> Tail(Q)[n]]
        BY <4>2, LenProperties
      <4> QED BY <4>2, <4>3
    <3>3. \A n \in 1 .. Len(q) - 1 : n + 1 \in 1 .. Len(q)
      BY <3>1
    <3> QED BY <2>4, <3>1, <3>2, <3>3
  <2> QED BY <2>2, <2>3, <2>6
<1>10. ASSUME NEW g \in Handles, g # h
       PROVE  QueueIn(zmq_sockets'[g], zmq_contents') = QueueIn(zmq_sockets[g], zmq_contents)
  <2>1. zmq_sockets'[g].out = zmq_sockets[g].out
    BY <1>3, <1>10
  <2>2. \A n \in DOMAIN zmq_sockets[g].out :
          zmq_contents'[zmq_sockets[g].out[n]].bytes = zmq_contents[zmq_sockets[g].out[n]].bytes
    BY <1>2, <2>1
  <2> QED BY <2>1, <2>2 DEF QueueIn
<1>11. \A g \in Handles : zmq_sockets'[g].type \in {zmq_sockets[g].type, NoType}
  BY <1>3, <1>4
<1>12. "pub" # NoType
  BY DEF NoType
<1> HIDE DEF q, Q
<1>13. ASSUME zmq_sockets[h].type # "pub"
       PROVE  OnePub(zmq_sockets') /\ PubOut(zmq_sockets', zmq_contents') = PubOut(zmq_sockets, zmq_contents)
  <2>1. \A g \in Handles : zmq_sockets'[g].type = "pub" =>
          zmq_sockets[g].type = "pub"
            /\ QueueIn(zmq_sockets'[g], zmq_contents') = QueueIn(zmq_sockets[g], zmq_contents)
    BY <1>10, <1>11, <1>12, <1>13
  <2>2. \A g \in Handles : ~(zmq_sockets[g].type = "pub" /\ zmq_sockets'[g].type # "pub")
    BY <1>3, <1>13
  <2> QED BY <2>1, <2>2, PubKept
<1>14. ASSUME zmq_sockets[h].type = "pub"
       PROVE  /\ OnePub(zmq_sockets') /\ PubOut(zmq_sockets, zmq_contents) = Q
              /\ PubOut(zmq_sockets', zmq_contents') = Tail(Q)
  <2>1. h \in Pubs(zmq_sockets) /\ Pubs(zmq_sockets) = {h}
    BY <1>14 DEF Pubs, OnePub
  <2>2. PubOut(zmq_sockets, zmq_contents) = Q
    BY <2>1, PubOutIs DEF Q
  <2>3. Pubs(zmq_sockets') \subseteq {h}
    BY <1>11, <1>12, <2>1 DEF Pubs
  <2>4. OnePub(zmq_sockets')
    BY <2>3 DEF OnePub
  <2>5. CASE zmq_sockets'[h].type = "pub"
    <3>1. h \in Pubs(zmq_sockets')
      BY <2>5 DEF Pubs
    <3> QED BY <1>9, <2>2, <2>4, <3>1, PubOutIs
  <2>6. CASE zmq_sockets'[h].type # "pub"
    <3>1. Pubs(zmq_sockets') = {}
      BY <2>3, <2>6 DEF Pubs
    <3>2. PubOut(zmq_sockets', zmq_contents') = <<>>
      BY <2>4, <3>1, PubOutIs
    <3>3. Tail(q) = <<>>
      BY <1>4, <1>14, <2>6
    <3>4. Tail(Q) = <<>>
      <4>1. Len(q) = 1
        <5>1. Len(Tail(q)) = Len(q) - 1 /\ Len(q) \in Nat
          BY <1>4, <1>7, HeadTailProperties, LenProperties
        <5>2. Len(Tail(q)) = 0
          BY <3>3, EmptySeq, Zenon
        <5> QED BY <5>1, <5>2
      <4>2. Len(Tail(Q)) = 0 /\ Tail(Q) \in Seq(Sent[zmq_sockets[h].type])
        BY <1>7, <1>8, <4>1, HeadTailProperties
      <4>3. \A t \in Seq(Sent[zmq_sockets[h].type]) : Len(t) = 0 => t = <<>>
        BY EmptySeq
      <4> QED BY <4>2, <4>3, Zenon
    <3> QED BY <2>2, <2>4, <3>2, <3>4
  <2> QED BY <2>5, <2>6
<1>15. ASSUME NEW g \in Handles, zmq_sockets[g].type = "sub"
       PROVE  /\ zmq_sockets'[g].type = "sub"
              /\ zmq_sockets'[g].in =
                   IF zmq_sockets[h].type = "pub" /\ Takes(h, Carried(h)) /\ g = _handle[Subscriber]
                   THEN Append(zmq_sockets[g].in, Carried(h))
                   ELSE zmq_sockets[g].in
  <2>1. g \in Handles \ {h} /\ g # nullptr
    BY <1>6, <1>15, ZmqAssumption
  <2>2. g = Target(h) <=> (zmq_sockets[h].type = "pub" /\ g = _handle[Subscriber])
    <3>1. \A o \in Owners, i \in 1 .. 2 : g = _handle[Sock(o, i)] => TypeOf[o][i] = "sub"
      BY <1>15, <2>1, ObjectNames DEF ProgramZmq, MembersInv, MemberInv, HoldsType
    <3>2. g # _handle[Sock("server", 2)] /\ g # _handle[Sock("client", 2)]
      BY <3>1, TypesOf DEF Owners
    <3>3. zmq_sockets[h].type \in {"pub", "rep", "req"}
      <4>1. zmq_sockets[h].type \in Types \cup {NoType}
        BY DEF ProgramZmq, ZmqInv, ZmqTypeOK, SocketRecord
      <4>2. Carried(h) \in Sent[zmq_sockets[h].type] /\ Sent["none"] = {}
        BY CarrySockets DEF Sent
      <4> QED BY <1>6, <4>1, <4>2, SentAreFrames
    <3> QED BY <3>2, <3>3 DEF Target, Peer, Subscriber
  <2>3. /\ zmq_sockets'[g].type = zmq_sockets[g].type
        /\ zmq_sockets'[g].in = IF Takes(h, Carried(h)) /\ g = Target(h)
                                THEN Append(zmq_sockets[g].in, Carried(h))
                                ELSE zmq_sockets[g].in
    BY <1>3, <2>1
  <2> QED BY <1>15, <2>2, <2>3
<1>16. CASE zmq_sockets[h].type # "pub"
  BY <1>5, <1>11, <1>13, <1>15, <1>16, Zenon
<1>17. CASE zmq_sockets[h].type = "pub"
  BY <1>5, <1>8, <1>11, <1>14, <1>15, <1>17, Zenon
<1> QED BY <1>16, <1>17, Zenon

(* An operation of a script leaves the wires alone: *)
LEMMA StepSockets ==
  ASSUME ProgramZmq, NEW o \in Owners, Step(o)
  PROVE  /\ zmq_contents' = zmq_contents
         /\ Head(script[o]) \in Operations
         /\ \A h \in Handles :
              \/ zmq_sockets'[h] = zmq_sockets[h]
              \/ zmq_sockets'[h] = AfterClose(zmq_sockets[h])
              \/ /\ Head(script[o]).op = "socket_t"
                 /\ zmq_sockets'[h] = NewSocket(o, Head(script[o]).i)
                 /\ ~IsSocket(h)
         /\ Head(script[o]).op = "socket_t" =>
              \E h \in Handles : /\ zmq_sockets'[h] = NewSocket(o, Head(script[o]).i) /\ ~IsSocket(h)
                                 /\ \A g \in Handles \ {h} : zmq_sockets'[g] = zmq_sockets[g]
<1> DEFINE op == Head(script[o]).op
           i == Head(script[o]).i
<1>1. Perform(o, op, i)
  BY DEF Step
<1>2. Head(script[o]) \in Operations
  BY DEF ProgramZmq, MembersInv, Step
<1>3. op \in OnSocket => i \in 1 .. 2
  BY <1>2 DEF Operations, OnContext, OnSocket
<1> HIDE DEF op, i
<1>4. zmq_contents' = zmq_contents
  BY <1>1 DEF Perform, ContextNew, ContextAssign, ContextDestroy, SocketDefault, SocketNew, SocketAssign,
              SocketDestroy, SocketClose, SocketClosed, messageVars, zmqVars
<1>5. ASSUME NEW s \in Sockets, CloseSocket(_handle[s]), NEW h \in Handles
      PROVE  zmq_sockets'[h] \in {zmq_sockets[h], AfterClose(zmq_sockets[h])}
  BY <1>5 DEF CloseSocket, ProgramZmq, ZmqInv, ZmqTypeOK
<1>6. ASSUME Makes(o, i)
      PROVE  \E h \in Handles : /\ zmq_sockets'[h] = NewSocket(o, i) /\ ~IsSocket(h)
                                /\ \A g \in Handles \ {h} : zmq_sockets'[g] = zmq_sockets[g]
  BY <1>6 DEF Makes, ProgramZmq, ZmqInv, ZmqTypeOK
<1>7. UnnamedSock(o) \in Sockets /\ (op \in OnSocket => Sock(o, i) \in Sockets)
  BY <1>3, ObjectNames
<1>8. \/ op = "socket_t" /\ Makes(o, i)
      \/ op = "=" /\ Moves(o, i)
      \/ op \in {"close", "~member"} /\ Shuts(Sock(o, i))
      \/ op = "~socket_t" /\ Shuts(UnnamedSock(o))
      \/ op \notin {"socket_t", "=", "close", "~member", "~socket_t"} /\ UNCHANGED <<_handle, zmq_sockets>>
  BY <1>1, <1>3, PerformSockets DEF ProgramZmq
<1>9. ASSUME op # "socket_t", NEW h \in Handles
      PROVE  zmq_sockets'[h] \in {zmq_sockets[h], AfterClose(zmq_sockets[h])}
  BY <1>5, <1>7, <1>8, <1>9 DEF Moves, Shuts, OnSocket
<1>10. op = "socket_t" => Makes(o, i)
  BY <1>8
<1>11. CASE op = "socket_t"
  BY <1>2, <1>4, <1>6, <1>10, <1>11 DEF op, i
<1>12. CASE op # "socket_t"
  BY <1>2, <1>4, <1>9, <1>12 DEF op, i
<1> QED BY <1>11, <1>12

(* the publisher keeps its queue, and is made once, *)
LEMMA StepPubs ==
  ASSUME ProgramZmq, OnePub(zmq_sockets), NEW o \in Owners, Step(o),
         o = "server" /\ Head(script[o]) = Op("socket_t", 1) => Pubs(zmq_sockets) = {}
  PROVE  /\ OnePub(zmq_sockets')
         /\ PubOut(zmq_sockets', zmq_contents') = PubOut(zmq_sockets, zmq_contents)
         /\ ~(o = "server" /\ Head(script[o]) = Op("socket_t", 1))
              => Pubs(zmq_sockets') \subseteq Pubs(zmq_sockets)
         /\ \A h \in Handles : zmq_sockets'[h].type = "sub" /\ zmq_sockets'[h].in # <<>>
              => zmq_sockets'[h] = zmq_sockets[h]
<1> DEFINE op == Head(script[o]).op
           i == Head(script[o]).i
<1>1. zmq_contents' = zmq_contents /\ Head(script[o]) \in Operations
  BY StepSockets
<1>2. op = "socket_t" => i \in 1 .. 2 /\ (i = 1 => Head(script[o]) = Op("socket_t", 1))
  BY <1>1 DEF Operations, OnContext, OnSocket, Op
<1>3. /\ NewSocket(o, i).out = <<>> /\ NewSocket(o, i).in = <<>> /\ NewSocket(o, i).type = TypeOf[o][i]
      /\ op = "socket_t" /\ TypeOf[o][i] = "pub" => o = "server" /\ Head(script[o]) = Op("socket_t", 1)
  <2>1. ASSUME op = "socket_t", TypeOf[o][i] = "pub"
        PROVE  o = "server" /\ i = 1
    <3>1. i \in {1, 2} /\ o \in {"server", "client"}
      BY <1>2, <2>1 DEF Owners
    <3> QED BY <2>1, <3>1, TypesOf
  <2> QED BY <1>2, <2>1 DEF NewSocket
<1>4. ASSUME NEW h \in Handles
      PROVE  /\ \/ zmq_sockets'[h] = zmq_sockets[h]
                \/ zmq_sockets'[h] = AfterClose(zmq_sockets[h])
                \/ op = "socket_t" /\ zmq_sockets'[h] = NewSocket(o, i) /\ ~IsSocket(h)
             /\ AfterClose(zmq_sockets[h]).out = zmq_sockets[h].out
             /\ AfterClose(zmq_sockets[h]).in = <<>>
             /\ \/ AfterClose(zmq_sockets[h]).type = zmq_sockets[h].type
                \/ zmq_sockets[h].out = <<>> /\ AfterClose(zmq_sockets[h]).type = NoType
             /\ ~IsSocket(h) => zmq_sockets[h].out = <<>>
  <2>1. zmq_sockets[h] \in SocketRecord
    BY DEF ProgramZmq, ZmqInv, ZmqTypeOK
  <2>2. ASSUME NEW r \in SocketRecord
        PROVE  /\ AfterClose(r).out = r.out /\ AfterClose(r).in = <<>>
               /\ AfterClose(r).type = r.type \/ (r.out = <<>> /\ AfterClose(r).type = NoType)
    <3>1. CASE r.out = <<>>
      BY <3>1 DEF AfterClose, NoSocket
    <3>2. CASE r.out # <<>>
      <4>1. AfterClose(r).out = r.out /\ AfterClose(r).in = <<>> /\ AfterClose(r).type = r.type
        BY <3>2 DEF AfterClose, SocketRecord
      <4> QED BY <4>1
    <3> QED BY <3>1, <3>2
  <2>3. ~IsSocket(h) => zmq_sockets[h].out = <<>>
    BY DEF ProgramZmq, CountInv, QuietInv
  <2> HIDE DEF op, i
  <2>4. \/ zmq_sockets'[h] = zmq_sockets[h]
        \/ zmq_sockets'[h] = AfterClose(zmq_sockets[h])
        \/ op = "socket_t" /\ zmq_sockets'[h] = NewSocket(o, i) /\ ~IsSocket(h)
    BY StepSockets DEF op, i
  <2> QED BY <2>1, <2>2, <2>3, <2>4
<1>5. "pub" # NoType /\ "sub" # NoType
  BY DEF NoType
<1> HIDE DEF op, i
<1>6. \A h \in Handles : zmq_sockets'[h].type = "sub" /\ zmq_sockets'[h].in # <<>>
        => zmq_sockets'[h] = zmq_sockets[h]
  BY <1>3, <1>4
<1>7. ASSUME NEW h \in Handles, zmq_sockets'[h].out = zmq_sockets[h].out
      PROVE  QueueIn(zmq_sockets'[h], zmq_contents') = QueueIn(zmq_sockets[h], zmq_contents)
  BY <1>1, <1>7 DEF QueueIn
<1>8. \A socket, contents : socket.out = <<>> => QueueIn(socket, contents) = <<>>
  BY DEF QueueIn
<1>9. CASE ~(op = "socket_t" /\ TypeOf[o][i] = "pub")
  <2>1. \A h \in Handles : zmq_sockets'[h].type = "pub" =>
          zmq_sockets[h].type = "pub" /\ zmq_sockets'[h].out = zmq_sockets[h].out
    BY <1>3, <1>4, <1>5, <1>9
  <2>2. \A h \in Handles : zmq_sockets[h].type = "pub" /\ zmq_sockets'[h].type # "pub" =>
          zmq_sockets[h].out = <<>>
    BY <1>3, <1>4
  <2>3. /\ OnePub(zmq_sockets')
        /\ PubOut(zmq_sockets', zmq_contents') = PubOut(zmq_sockets, zmq_contents)
    BY <1>7, <1>8, <2>1, <2>2, PubKept
  <2>4. Pubs(zmq_sockets') \subseteq Pubs(zmq_sockets)
    BY <2>1 DEF Pubs
  <2> QED BY <1>6, <2>3, <2>4
<1>10. CASE op = "socket_t" /\ TypeOf[o][i] = "pub"
  <2>1. o = "server" /\ Head(script[o]) = Op("socket_t", 1) /\ Pubs(zmq_sockets) = {}
    BY <1>3, <1>10
  <2>2. PICK h \in Handles : /\ zmq_sockets'[h] = NewSocket(o, i)
                             /\ \A g \in Handles \ {h} : zmq_sockets'[g] = zmq_sockets[g]
    BY <1>10, StepSockets DEF op, i
  <2>3. Pubs(zmq_sockets') = {h}
    BY <1>3, <1>10, <2>1, <2>2 DEF Pubs
  <2>4. OnePub(zmq_sockets')
    BY <2>3 DEF OnePub
  <2>5. PubOut(zmq_sockets', zmq_contents') = QueueIn(zmq_sockets'[h], zmq_contents')
    BY <2>3, <2>4, PubOutIs
  <2>6. PubOut(zmq_sockets, zmq_contents) = <<>>
    BY <2>1, PubOutIs
  <2>7. PubOut(zmq_sockets', zmq_contents') = <<>>
    BY <1>3, <1>8, <2>2, <2>5
  <2> QED BY <1>6, <2>1, <2>4, <2>6, <2>7
<1> QED BY <1>9, <1>10

(* and the subscriber has its socket from when it is moved into it until it *)
(* is closed.                                                               *)
LEMMA StepSubscriber ==
  ASSUME ProgramZmq, NEW o \in Owners, Step(o)
  PROVE  IF o = "client" /\ Head(script[o]) = Op("=", 1)
         THEN _handle'[Subscriber] # nullptr
         ELSE IF o = "client" /\ Head(script[o]) \in {Op("close", 1), Op("~member", 1)}
         THEN _handle'[Subscriber] = nullptr
         ELSE /\ _handle'[Subscriber] = _handle[Subscriber]
              /\ SubIn(_handle', zmq_sockets') = SubIn(_handle, zmq_sockets)
<1> DEFINE op == Head(script[o]).op
           i == Head(script[o]).i
<1>1. Perform(o, op, i) /\ script[o] # <<>>
  BY DEF Step
<1>2. Head(script[o]) \in Operations
  BY DEF ProgramZmq, MembersInv, Step
<1>3. op \in OnSocket => i \in 1 .. 2
  BY <1>2 DEF Operations, OnContext, OnSocket
<1>4. /\ op = "=" /\ i = 1 <=> Head(script[o]) = Op("=", 1)
      /\ op \in {"close", "~member"} /\ i = 1 <=> Head(script[o]) \in {Op("close", 1), Op("~member", 1)}
  BY <1>2 DEF Operations, OnContext, OnSocket, Op
<1>5. op = "=" => HoldsType(UnnamedSock(o), TypeOf[o][i])
  BY <1>1 DEF ProgramZmq, MembersInv, MemberInv
<1> HIDE DEF op, i
<1>6. \/ op = "socket_t" /\ Makes(o, i)
      \/ op = "=" /\ Moves(o, i)
      \/ op \in {"close", "~member"} /\ Shuts(Sock(o, i))
      \/ op = "~socket_t" /\ Shuts(UnnamedSock(o))
      \/ op \notin {"socket_t", "=", "close", "~member", "~socket_t"} /\ UNCHANGED <<_handle, zmq_sockets>>
  BY <1>1, <1>3, PerformSockets DEF ProgramZmq
<1>7. /\ Subscriber \in Sockets /\ UnnamedSock(o) \in Sockets /\ UnnamedSock(o) # Subscriber
      /\ \A j \in 1 .. 2 : Sock(o, j) \in Sockets /\ (Sock(o, j) = Subscriber <=> o = "client" /\ j = 1)
  BY ObjectNames DEF Subscriber, Owners
<1>8. _handle \in [Sockets -> OrNull(Handles)]
  BY DEF ProgramZmq, ZmqInv, ZmqTypeOK
<1>9. CASE o = "client" /\ op = "=" /\ i = 1
  BY <1>4, <1>5, <1>6, <1>7, <1>9 DEF Moves, HoldsType, Subscriber
<1>10. CASE o = "client" /\ op \in {"close", "~member"} /\ i = 1
  BY <1>4, <1>6, <1>7, <1>8, <1>10 DEF Shuts, Subscriber
<1>11. CASE ~(o = "client" /\ op \in {"=", "close", "~member"} /\ i = 1)
  <2>1. _handle'[Subscriber] = _handle[Subscriber]
    BY <1>3, <1>6, <1>7, <1>8, <1>11 DEF Makes, Moves, Shuts, OnSocket
  <2>2. ASSUME _handle[Subscriber] # nullptr
        PROVE  zmq_sockets'[_handle[Subscriber]] = zmq_sockets[_handle[Subscriber]]
    BY <1>3, <1>6, <1>7, <1>11, <2>2, OthersKeepSockets DEF Moves, Shuts, OnSocket, ProgramZmq
  <2>3. SubIn(_handle', zmq_sockets') = SubIn(_handle, zmq_sockets)
    BY <2>1, <2>2 DEF SubIn
  <2>4. ~(o = "client" /\ Head(script[o]) \in {Op("=", 1), Op("close", 1), Op("~member", 1)})
    BY <1>4, <1>11
  <2> QED BY <2>1, <2>3, <2>4
<1> QED BY <1>9, <1>10, <1>11

-----------------------------------------------------------------------------
(* The publisher and the subscriber, from their construction to their end *)

(* Operations that do not occur in the scripts of an owner. *)
Foreign ==
  [server |-> {Op("subscribe", 1), Op("subscribe", 2)},
   client |-> {Op("bind", 1), Op("bind", 2), Op("subscribe", 2)}]

Clear(ops, B) == ops \in Seq(Operations) /\ Elements(ops) \cap B = {}

(* One script after the other. *)
LEMMA ClearConcat ==
  ASSUME NEW B, NEW a, NEW b, Clear(a, B), Clear(b, B)
  PROVE  Clear(a \o b, B)
<1>1. a \in Seq(Operations) /\ b \in Seq(Operations)
  BY DEF Clear
<1>2. a \o b \in Seq(Operations) /\ Elements(a \o b) = Elements(a) \cup Elements(b)
  BY <1>1, ElementsConcat, ConcatProperties
<1> QED BY <1>2 DEF Clear

(* ZMQServer.hpp, ZMQClient.hpp: the server does not subscribe, and the     *)
(* client subscribes only its subscriber and binds nothing.                 *)
LEMMA ScriptsAreClear ==
  ASSUME NEW o \in Owners
  PROVE  \A ops \in {<<>>, Constructor[o], Close[o], Destructor[o], DestroyMembers} : Clear(ops, Foreign[o])
<1>1. Foreign["server"] = {Op("subscribe", 1), Op("subscribe", 2)}
      /\ Foreign["client"] = {Op("bind", 1), Op("bind", 2), Op("subscribe", 2)}
  BY DEF Foreign
<1>2. Members \in Seq(Operations) /\ MakeContext \in Seq(Operations)
      /\ MakeSocket(1) \in Seq(Operations) /\ MakeSocket(2) \in Seq(Operations)
      /\ <<Op("bind", 1), Op("bind", 2)>> \in Seq(Operations)
      /\ <<Op("connect", 2)>> \in Seq(Operations)
      /\ <<Op("connect", 1), Op("subscribe", 1), Op("own", 0)>> \in Seq(Operations)
      /\ <<Op("~own", 0)>> \in Seq(Operations)
      /\ <<Op("close", 1), Op("close", 2)>> \in Seq(Operations)
      /\ <<Op("close", 2), Op("close", 1)>> \in Seq(Operations)
      /\ DestroyMembers \in Seq(Operations)
  BY DEF Members, MakeContext, MakeSocket, DestroyMembers, Op, Operations, OnContext, OnSocket
<1>3. <<>> \in Seq(Operations)
  OBVIOUS
<1>4. ASSUME NEW B, B \in {Foreign["server"], Foreign["client"]}
      PROVE  /\ Clear(Members, B) /\ Clear(MakeContext, B) /\ Clear(MakeSocket(1), B) /\ Clear(MakeSocket(2), B)
             /\ Clear(<<Op("connect", 2)>>, B) /\ Clear(<<Op("close", 1), Op("close", 2)>>, B)
             /\ Clear(<<Op("close", 2), Op("close", 1)>>, B)
             /\ Clear(DestroyMembers, B) /\ Clear(<<>>, B) /\ Clear(<<Op("~own", 0)>>, B)
  <2>1. \A e \in B : e.op \in {"bind", "subscribe"}
    BY <1>1, <1>4 DEF Op
  <2>2. ASSUME NEW ops \in Seq(Operations), \A e \in Elements(ops) : e.op \notin {"bind", "subscribe"}
        PROVE  Clear(ops, B)
    BY <2>1, <2>2 DEF Clear
  <2>3. Clear(Members, B)
    <3>1. \A e \in Elements(Members) : e.op \notin {"bind", "subscribe"}
      BY ElementsOfParts DEF Op
    <3> QED BY <1>2, <2>2, <3>1
  <2>4. Clear(MakeContext, B)
    <3>1. \A e \in Elements(MakeContext) : e.op \notin {"bind", "subscribe"}
      BY ElementsOfParts DEF Op
    <3> QED BY <1>2, <2>2, <3>1
  <2>5. Clear(MakeSocket(1), B) /\ Clear(MakeSocket(2), B)
    <3>1. \A i : \A e \in Elements(MakeSocket(i)) : e.op \notin {"bind", "subscribe"}
      BY ElementsOfParts DEF Op
    <3> QED BY <1>2, <2>2, <3>1
  <2>9. Clear(<<Op("~own", 0)>>, B)
    <3>1. \A e \in Elements(<<Op("~own", 0)>>) : e.op \notin {"bind", "subscribe"}
      BY ElementsOfParts DEF Op
    <3> QED BY <1>2, <2>2, <3>1
  <2>6. Clear(<<>>, B) /\ Clear(<<Op("connect", 2)>>, B)
    <3>1. Elements(<<>>) = {} /\ Elements(<<Op("connect", 2)>>) = {Op("connect", 2)}
      BY ElementsOfParts
    <3>2. \A e \in Elements(<<Op("connect", 2)>>) : e.op \notin {"bind", "subscribe"}
      BY <3>1 DEF Op
    <3> QED BY <1>2, <1>3, <2>2, <3>1, <3>2
  <2>7. Clear(<<Op("close", 1), Op("close", 2)>>, B) /\ Clear(<<Op("close", 2), Op("close", 1)>>, B)
    <3>1. /\ Elements(<<Op("close", 1), Op("close", 2)>>) = {Op("close", 1), Op("close", 2)}
          /\ Elements(<<Op("close", 2), Op("close", 1)>>) = {Op("close", 2), Op("close", 1)}
      BY ElementsOfParts
    <3>2. \A e \in {Op("close", 1), Op("close", 2)} : e.op \notin {"bind", "subscribe"}
      BY DEF Op
    <3> QED BY <1>2, <2>2, <3>1, <3>2
  <2>8. Clear(DestroyMembers, B)
    <3>1. Elements(DestroyMembers)
            = {Op("~member", 2), Op("~member", 1), Op("~m_ctx", 0)}
      BY ElementsOfParts DEF DestroyMembers
    <3>2. \A e \in {Op("~member", 2), Op("~member", 1), Op("~m_ctx", 0)} : e.op \notin {"bind", "subscribe"}
      BY DEF Op
    <3> QED BY <1>2, <2>2, <3>1, <3>2
  <2> QED BY <2>3, <2>4, <2>5, <2>6, <2>7, <2>8, <2>9
<1>5. Clear(<<Op("bind", 1), Op("bind", 2)>>, Foreign["server"])
      /\ Clear(<<Op("connect", 1), Op("subscribe", 1), Op("own", 0)>>, Foreign["client"])
  <2>1. Elements(<<Op("bind", 1), Op("bind", 2)>>) = {Op("bind", 1), Op("bind", 2)}
        /\ Elements(<<Op("connect", 1), Op("subscribe", 1), Op("own", 0)>>)
             = {Op("connect", 1), Op("subscribe", 1), Op("own", 0)}
    BY ElementsOfParts
  <2> QED BY <1>1, <1>2, <2>1 DEF Clear, Op
<1>6. Clear(Constructor["server"], Foreign["server"]) /\ Clear(Constructor["client"], Foreign["client"])
  BY <1>4, <1>5, ClearConcat DEF Constructor
<1>7. Clear(Close["server"], Foreign["server"]) /\ Clear(Close["client"], Foreign["client"])
  BY <1>4 DEF Close
<1>8. Clear(Destructor["server"], Foreign["server"]) /\ Clear(Destructor["client"], Foreign["client"])
  BY <1>4, <1>7, ClearConcat DEF Destructor
<1> QED BY <1>4, <1>6, <1>7, <1>8 DEF Owners

(* An operation on the first socket of o is still to come. *)
Ahead(o, op) == Op(op, 1) \in Elements(script[o])

ScriptsLife ==
  /\ pc = [o \in Owners |-> pc[o]]
  /\ \A o \in Owners : Clear(script[o], Foreign[o])
  /\ pc["server"] = "args" => script["server"] = <<>>
  /\ pc["client"] = "start" => script["client"] = <<>>
  /\ ServerOrder(script["server"]) /\ ClientOrder(script["client"])

(* There is one publisher at most, none before its constructor. *)
PublisherLife ==
  /\ OnePub(zmq_sockets)
  /\ pc["server"] = "args" \/ Ahead("server", "socket_t") => Pubs(zmq_sockets) = {}

(* The subscriber is connected only while it has its socket, and nothing    *)
(* comes to it before its subscription is effective.                        *)
SubscriberLife ==
  /\ pc["client"] = "start" \/ Ahead("client", "subscribe") => subscription = "none"
  /\ pc["client"] = "start" \/ Ahead("client", "=") => Subscriber \notin attached
  /\ Ahead("client", "connect") /\ ~Ahead("client", "=") => _handle[Subscriber] # nullptr
  /\ Ahead("client", "~member") /\ ~Ahead("client", "close") => Subscriber \notin attached
  /\ Subscriber \in attached => _handle[Subscriber] # nullptr
  /\ subscription = "effective" /\ Subscriber \notin attached => _handle[Subscriber] = nullptr
  /\ subscription # "effective" =>
       \A h \in Handles : zmq_sockets[h].type = "sub" => zmq_sockets[h].in = <<>>

LifeInv == ScriptsLife /\ PublisherLife /\ SubscriberLife

(* Sockets and threads at work change nothing about this, *)
LEMMA LifeFrame ==
  ASSUME LifeInv, UNCHANGED <<script, attached, _handle>>,
         pc' = [o \in Owners |-> pc'[o]],
         pc'["server"] = "args" => pc["server"] = "args",
         pc'["client"] = "start" => pc["client"] = "start",
         OnePub(zmq_sockets'), Pubs(zmq_sockets') \subseteq Pubs(zmq_sockets),
         \/ subscription' = subscription
         \/ subscription = "sent" /\ subscription' = "effective" /\ Subscriber \in attached,
         subscription' # "effective" =>
           \A h \in Handles : zmq_sockets'[h].type = "sub" => zmq_sockets'[h].in = <<>>
  PROVE  LifeInv'
<1>1. ScriptsLife'
  BY DEF LifeInv, ScriptsLife
<1>2. PublisherLife'
  BY DEF LifeInv, PublisherLife, Ahead
<1>3. SubscriberLife'
  BY DEF LifeInv, SubscriberLife, Ahead
<1> QED BY <1>1, <1>2, <1>3 DEF LifeInv

(* nor does a thread that goes on, which has a script of its own now.       *)
LEMMA LifeGoes ==
  ASSUME ProgramZmq, LifeInv, NEW o \in Owners, NEW from, NEW to,
         NEW ops \in {<<>>, Constructor[o], Close[o], Destructor[o]}, Goes(o, from, to, ops),
         ops \in {<<>>, Destructor[o]} \/ (ops = Close[o] /\ o = "server")
           \/ (ops = Constructor[o] /\ from \in {"args", "start"}),
         from = "start" => o = "client", from = "args" => o = "server",
         to \notin {"args", "start"}, UNCHANGED subscription
  PROVE  LifeInv'
<1>1. /\ pc = [p \in Owners |-> pc[p]] /\ pc[o] = from /\ script[o] = <<>>
      /\ pc' = [pc EXCEPT ![o] = to] /\ script' = [script EXCEPT ![o] = ops]
      /\ UNCHANGED <<zmq_sockets, _handle, attached>>
  BY DEF Goes, LifeInv, ScriptsLife, zmqVars, socketVars
<1>2. /\ script'[o] = ops /\ pc'[o] = to /\ pc' = [p \in Owners |-> pc'[p]]
      /\ \A p \in Owners \ {o} : script'[p] = script[p] /\ pc'[p] = pc[p]
  <2>1. script \in [Owners -> Seq(Operations)]
    BY DEF ProgramZmq, MembersInv
  <2> QED BY <1>1, <2>1
<1>3. \A p \in Owners : Clear(script'[p], Foreign[p])
  BY <1>2, ScriptsAreClear DEF LifeInv, ScriptsLife
<1>4. CASE o = "server"
  <2>1. script'["client"] = script["client"] /\ pc'["client"] = pc["client"]
    BY <1>2, <1>4 DEF Owners
  <2>2. /\ ServerOrder(ops)
        /\ from # "args" => Op("socket_t", 1) \notin Elements(ops)
    BY <1>4, ServerScripts
  <2>3. ScriptsLife'
    BY <1>2, <1>3, <1>4, <2>1, <2>2 DEF LifeInv, ScriptsLife
  <2>4. PublisherLife'
    BY <1>1, <1>2, <1>4, <2>2 DEF LifeInv, PublisherLife, Ahead
  <2>5. SubscriberLife'
    BY <1>1, <2>1 DEF LifeInv, SubscriberLife, Ahead
  <2> QED BY <2>3, <2>4, <2>5 DEF LifeInv
<1>5. CASE o = "client"
  <2>1. script'["server"] = script["server"] /\ pc'["server"] = pc["server"]
    BY <1>2, <1>5 DEF Owners
  <2>2. /\ ClientOrder(ops)
        /\ from # "start" => /\ Op("subscribe", 1) \notin Elements(ops)
                              /\ Op("=", 1) \notin Elements(ops) /\ Op("connect", 1) \notin Elements(ops)
        /\ Op("connect", 1) \in Elements(ops) => Op("=", 1) \in Elements(ops)
        /\ Op("~member", 1) \in Elements(ops) => Op("close", 1) \in Elements(ops)
    BY <1>5, ClientScripts
  <2>3. ScriptsLife'
    BY <1>2, <1>3, <1>5, <2>1, <2>2 DEF LifeInv, ScriptsLife
  <2>4. PublisherLife'
    BY <1>1, <2>1 DEF LifeInv, PublisherLife, Ahead
  <2>5. SubscriberLife'
    BY <1>1, <1>2, <1>5, <2>2 DEF LifeInv, SubscriberLife, Ahead
  <2> QED BY <2>3, <2>4, <2>5 DEF LifeInv
<1> QED BY <1>4, <1>5 DEF Owners

(* What is left of the scripts is in order. *)
LEMMA OrderTail ==
  ASSUME NEW ops \in Seq(Operations), ops # <<>>
  PROVE  /\ Elements(ops) = {Head(ops)} \cup Elements(Tail(ops))
         /\ ServerOrder(ops) =>
              /\ ServerOrder(Tail(ops))
              /\ Head(ops) = Op("socket_t", 1) => Op("socket_t", 1) \notin Elements(Tail(ops))
         /\ ClientOrder(ops) =>
              /\ ClientOrder(Tail(ops))
              /\ Head(ops) = Op("subscribe", 1) =>
                   Elements(Tail(ops)) \cap {Op("=", 1), Op("connect", 1), Op("subscribe", 1)} = {}
              /\ Head(ops) = Op("connect", 1) => Op("=", 1) \notin Elements(Tail(ops))
              /\ Head(ops) = Op("~member", 1) => Op("close", 1) \notin Elements(Tail(ops))
<1>1. Elements(ops) = {Head(ops)} \cup Elements(Tail(ops))
  BY ElementsTail
<1>2. \A a, B : NeverAfter(ops, a, B) =>
        NeverAfter(Tail(ops), a, B) /\ (Head(ops) = a => Elements(Tail(ops)) \cap B = {})
  BY NeverAfterTail
<1>3. ServerOrder(ops) =>
        /\ ServerOrder(Tail(ops))
        /\ Head(ops) = Op("socket_t", 1) => Op("socket_t", 1) \notin Elements(Tail(ops))
  BY <1>2 DEF ServerOrder
<1>4. ASSUME ClientOrder(ops)
      PROVE  /\ ClientOrder(Tail(ops))
             /\ Head(ops) = Op("subscribe", 1) =>
                  Elements(Tail(ops)) \cap {Op("=", 1), Op("connect", 1), Op("subscribe", 1)} = {}
             /\ Head(ops) = Op("connect", 1) => Op("=", 1) \notin Elements(Tail(ops))
             /\ Head(ops) = Op("~member", 1) => Op("close", 1) \notin Elements(Tail(ops))
  <2> DEFINE B == {Op("=", 1), Op("connect", 1), Op("subscribe", 1)}
  <2>1. /\ NeverAfter(Tail(ops), Op("subscribe", 1), B)
        /\ Head(ops) = Op("subscribe", 1) => Elements(Tail(ops)) \cap B = {}
    BY <1>2, <1>4 DEF ClientOrder
  <2>2. /\ NeverAfter(Tail(ops), Op("connect", 1), {Op("=", 1)})
        /\ Head(ops) = Op("connect", 1) => Op("=", 1) \notin Elements(Tail(ops))
    BY <1>2, <1>4 DEF ClientOrder
  <2>3. /\ NeverAfter(Tail(ops), Op("~member", 1), {Op("close", 1)})
        /\ Head(ops) = Op("~member", 1) => Op("close", 1) \notin Elements(Tail(ops))
    BY <1>2, <1>4 DEF ClientOrder
  <2>4. Op("=", 1) \in Elements(Tail(ops)) \/ Op("connect", 1) \in Elements(Tail(ops))
          => Op("subscribe", 1) \in Elements(Tail(ops))
    <3>1. Op("=", 1) \in Elements(ops) \/ Op("connect", 1) \in Elements(ops)
            => Op("subscribe", 1) \in Elements(ops)
      BY <1>4 DEF ClientOrder
    <3> QED BY <1>1, <2>1, <3>1
  <2>5. Op("subscribe", 1) \in Elements(Tail(ops))
          => Op("close", 1) \notin Elements(Tail(ops)) /\ Op("~member", 1) \notin Elements(Tail(ops))
    <3>1. Op("subscribe", 1) \in Elements(ops)
            => Op("close", 1) \notin Elements(ops) /\ Op("~member", 1) \notin Elements(ops)
      BY <1>4 DEF ClientOrder
    <3> QED BY <1>1, <3>1
  <2>6. ClientOrder(Tail(ops))
    BY <2>1, <2>2, <2>3, <2>4, <2>5 DEF ClientOrder
  <2> QED BY <2>1, <2>2, <2>3, <2>6
<1> QED BY <1>1, <1>3, <1>4

(* What the operations of the scripts do to the subscriber. *)
LEMMA StepAttaches ==
  ASSUME ProgramZmq, LifeInv, NEW o \in Owners, Step(o)
  PROVE  /\ o = "client" /\ Head(script[o]) = Op("connect", 1) => Subscriber \in attached'
         /\ o = "client" /\ Head(script[o]) = Op("close", 1) => Subscriber \notin attached'
         /\ ~(o = "client" /\ Head(script[o]) \in {Op("connect", 1), Op("close", 1)})
              => (Subscriber \in attached' <=> Subscriber \in attached)
         /\ o = "client" /\ Head(script[o]) = Op("subscribe", 1) => subscription' = "sent"
         /\ ~(o = "client" /\ Head(script[o]) = Op("subscribe", 1)) => subscription' = subscription
<1> DEFINE op == Head(script[o]).op
           i == Head(script[o]).i
<1>1. /\ script[o] # <<>>
      /\ CASE op = "bind" -> bind(Sock(o, i))
           [] op = "connect" -> connect(Sock(o, i))
           [] op = "subscribe" -> set_subscribe
           [] op = "close" -> close_socket(Sock(o, i))
           [] OTHER -> UNCHANGED <<attached, subscription>>
  BY DEF Step
<1>2. Head(script[o]) \in Operations /\ Head(script[o]) \notin Foreign[o]
  <2>1. script[o] \in Seq(Operations) /\ Elements(script[o]) \cap Foreign[o] = {}
    BY DEF LifeInv, ScriptsLife, Clear
  <2> QED BY <1>1, <2>1, OrderTail
<1>3. /\ op = "connect" \/ op = "bind" \/ op = "subscribe" \/ op = "close" => i \in 1 .. 2
      /\ \A a : Head(script[o]) = Op(a, 1) <=> op = a /\ i = 1
  BY <1>2 DEF Operations, OnContext, OnSocket, Op
<1>4. /\ o = "client" => op # "bind" /\ (op = "subscribe" => i = 1)
      /\ o = "server" => op # "subscribe"
  <2>1. op = "bind" \/ op = "subscribe" => Head(script[o]) \in {Op(op, 1), Op(op, 2)}
    BY <1>2, <1>3 DEF Operations, OnContext, OnSocket, Op
  <2> QED BY <1>2, <1>3, <2>1 DEF Foreign, Op
<1>5. \A j \in 1 .. 2 : Sock(o, j) = Subscriber <=> o = "client" /\ j = 1
  BY ObjectNames DEF Subscriber, Owners
<1>6. o \in {"server", "client"}
  BY DEF Owners
<1> HIDE DEF op, i
<1>7. CASE op = "bind"
  BY <1>1, <1>3, <1>4, <1>5, <1>6, <1>7 DEF bind
<1>8. CASE op = "connect"
  BY <1>1, <1>3, <1>4, <1>5, <1>6, <1>8 DEF connect
<1>9. CASE op = "subscribe"
  BY <1>1, <1>3, <1>4, <1>5, <1>6, <1>9 DEF set_subscribe
<1>10. CASE op = "close"
  BY <1>1, <1>3, <1>4, <1>5, <1>6, <1>10 DEF close_socket
<1>11. CASE op \notin {"bind", "connect", "subscribe", "close"}
  BY <1>1, <1>3, <1>11
<1> QED BY <1>7, <1>8, <1>9, <1>10, <1>11

(* An operation of a script. *)
LEMMA LifeStep ==
  ASSUME ProgramZmq, LifeInv, NEW o \in Owners, Step(o)
  PROVE  LifeInv'
<1> DEFINE e == Head(script[o])
           rest == Tail(script[o])
<1>1. /\ script[o] # <<>> /\ script[o] \in Seq(Operations) /\ rest \in Seq(Operations)
      /\ Elements(script[o]) \cap Foreign[o] = {}
      /\ script' = [script EXCEPT ![o] = rest] /\ pc' = pc
  BY DEF Step, LifeInv, ScriptsLife, Clear
<1>2. script'[o] = rest /\ \A p \in Owners \ {o} : script'[p] = script[p]
  <2>1. script \in [Owners -> Seq(Operations)]
    BY DEF ProgramZmq, MembersInv
  <2> QED BY <1>1, <2>1
<1>3. Elements(script[o]) = {e} \cup Elements(rest)
  BY <1>1, OrderTail
<1> HIDE DEF e, rest
<1>4. ScriptsLife'
  <2>1. \A p \in Owners : Clear(script'[p], Foreign[p])
    BY <1>1, <1>2, <1>3 DEF LifeInv, ScriptsLife, Clear
  <2>2. pc["server"] = "args" => o # "server"
    BY <1>1 DEF LifeInv, ScriptsLife
  <2>3. pc["client"] = "start" => o # "client"
    BY <1>1 DEF LifeInv, ScriptsLife
  <2>4. ServerOrder(script'["server"])
    BY <1>1, <1>2, OrderTail DEF LifeInv, ScriptsLife, Owners, rest
  <2>5. ClientOrder(script'["client"])
    BY <1>1, <1>2, OrderTail DEF LifeInv, ScriptsLife, Owners, rest
  <2> QED BY <1>1, <1>2, <2>1, <2>2, <2>3, <2>4, <2>5 DEF LifeInv, ScriptsLife, Owners
<1>5. PublisherLife'
  <2>1. o = "server" /\ e = Op("socket_t", 1) => Pubs(zmq_sockets) = {}
    BY <1>3 DEF LifeInv, PublisherLife, Ahead
  <2>2. /\ OnePub(zmq_sockets')
        /\ ~(o = "server" /\ e = Op("socket_t", 1)) => Pubs(zmq_sockets') \subseteq Pubs(zmq_sockets)
    BY <2>1, StepPubs DEF LifeInv, PublisherLife, e
  <2>3. CASE o = "server"
    <3>1. pc["server"] # "args"
      BY <1>1, <2>3 DEF LifeInv, ScriptsLife
    <3>2. e = Op("socket_t", 1) => Op("socket_t", 1) \notin Elements(rest)
      BY <1>1, <2>3, OrderTail DEF LifeInv, ScriptsLife, e, rest
    <3> QED BY <1>1, <1>2, <1>3, <2>2, <2>3, <3>1, <3>2 DEF LifeInv, PublisherLife, Ahead
  <2>4. CASE o # "server"
    <3>1. script'["server"] = script["server"]
      BY <1>2, <2>4 DEF Owners
    <3> QED BY <1>1, <2>2, <2>4, <3>1 DEF LifeInv, PublisherLife, Ahead
  <2> QED BY <2>3, <2>4
<1>6. ASSUME subscription' # "effective", NEW h \in Handles, zmq_sockets'[h].type = "sub"
      PROVE  zmq_sockets'[h].in = <<>>
  <2>1. o = "server" /\ e = Op("socket_t", 1) => Pubs(zmq_sockets) = {}
    BY <1>3 DEF LifeInv, PublisherLife, Ahead
  <2>2. zmq_sockets'[h].in # <<>> => zmq_sockets'[h] = zmq_sockets[h]
    BY <1>6, <2>1, StepPubs DEF LifeInv, PublisherLife, e
  <2>3. subscription # "effective"
    <3>1. o = "client" /\ e = Op("subscribe", 1) => subscription = "none"
      BY <1>3 DEF LifeInv, SubscriberLife, Ahead
    <3>2. ~(o = "client" /\ e = Op("subscribe", 1)) => subscription' = subscription
      BY StepAttaches DEF e
    <3> QED BY <1>6, <3>1, <3>2
  <2> QED BY <1>6, <2>2, <2>3 DEF LifeInv, SubscriberLife
<1>7. CASE o # "client"
  <2>1. script'["client"] = script["client"]
    BY <1>2, <1>7 DEF Owners
  <2>2. (Subscriber \in attached' <=> Subscriber \in attached) /\ subscription' = subscription
    BY <1>7, StepAttaches
  <2>3. _handle'[Subscriber] = _handle[Subscriber]
    BY <1>7, StepSubscriber
  <2>4. SubscriberLife'
    BY <1>1, <1>6, <2>1, <2>2, <2>3 DEF LifeInv, SubscriberLife, Ahead
  <2> QED BY <1>4, <1>5, <2>4 DEF LifeInv
<1>8. CASE o = "client"
  <2>1. script'["client"] = rest /\ script["client"] = script[o]
    BY <1>2, <1>8
  <2>2. ClientOrder(script[o]) /\ pc["client"] # "start"
    BY <1>1, <1>8 DEF LifeInv, ScriptsLife
  <2>3. /\ e = Op("subscribe", 1) =>
             Elements(rest) \cap {Op("=", 1), Op("connect", 1), Op("subscribe", 1)} = {}
        /\ e = Op("connect", 1) => Op("=", 1) \notin Elements(rest)
        /\ e = Op("~member", 1) => Op("close", 1) \notin Elements(rest)
    BY <1>1, <2>2, OrderTail DEF e, rest
  <2>4. /\ Op("=", 1) \in Elements(script[o]) \/ Op("connect", 1) \in Elements(script[o])
             => Op("subscribe", 1) \in Elements(script[o])
        /\ Op("subscribe", 1) \in Elements(script[o])
             => Op("close", 1) \notin Elements(script[o]) /\ Op("~member", 1) \notin Elements(script[o])
    BY <2>2 DEF ClientOrder
  <2>5. /\ e = Op("connect", 1) => Subscriber \in attached'
        /\ e = Op("close", 1) => Subscriber \notin attached'
        /\ e \notin {Op("connect", 1), Op("close", 1)} =>
             (Subscriber \in attached' <=> Subscriber \in attached)
        /\ e = Op("subscribe", 1) => subscription' = "sent"
        /\ e # Op("subscribe", 1) => subscription' = subscription
    BY <1>8, StepAttaches DEF e
  <2>6. /\ e = Op("=", 1) => _handle'[Subscriber] # nullptr
        /\ e \in {Op("close", 1), Op("~member", 1)} => _handle'[Subscriber] = nullptr
        /\ e \notin {Op("=", 1), Op("close", 1), Op("~member", 1)} =>
             _handle'[Subscriber] = _handle[Subscriber]
    <3>1. Op("=", 1) \notin {Op("close", 1), Op("~member", 1)}
      BY DEF Op
    <3> QED BY <1>8, <3>1, StepSubscriber DEF e
  <2>7. /\ Op("=", 1) # Op("connect", 1) /\ Op("=", 1) # Op("close", 1) /\ Op("=", 1) # Op("subscribe", 1)
        /\ Op("=", 1) # Op("~member", 1) /\ Op("connect", 1) # Op("close", 1)
        /\ Op("connect", 1) # Op("~member", 1) /\ Op("connect", 1) # Op("subscribe", 1)
        /\ Op("close", 1) # Op("~member", 1) /\ Op("close", 1) # Op("subscribe", 1)
        /\ Op("~member", 1) # Op("subscribe", 1)
    BY DEF Op
  <2> DEFINE A == Op("=", 1)
             C == Op("connect", 1)
             D == Op("~member", 1)
             U == Op("subscribe", 1)
             Z == Op("close", 1)
             all == Elements(script[o])
             left == Elements(rest)
  <2>8. /\ U \in all => subscription = "none"
        /\ A \in all => Subscriber \notin attached
        /\ C \in all /\ A \notin all => _handle[Subscriber] # nullptr
        /\ D \in all /\ Z \notin all => Subscriber \notin attached
        /\ Subscriber \in attached => _handle[Subscriber] # nullptr
        /\ subscription = "effective" /\ Subscriber \notin attached => _handle[Subscriber] = nullptr
    BY <2>1 DEF LifeInv, SubscriberLife, Ahead
  <2>9. all = {e} \cup left
    BY <1>3
  <2>10. /\ e = U => left \cap {A, C, U} = {}
         /\ e = C => A \notin left
         /\ e = D => Z \notin left
         /\ A \in all \/ C \in all => U \in all
         /\ U \in all => Z \notin all /\ D \notin all
    BY <2>3, <2>4
  <2> HIDE DEF all, left, A, C, D, U, Z
  <2>11. /\ U \in left => subscription' = "none"
         /\ A \in left => Subscriber \notin attached'
    BY <2>5, <2>7, <2>8, <2>9, <2>10 DEF A, C, D, U, Z
  <2>12. C \in left /\ A \notin left => _handle'[Subscriber] # nullptr
    BY <2>6, <2>7, <2>8, <2>9, <2>10 DEF A, C, D, U, Z
  <2>13. D \in left /\ Z \notin left => Subscriber \notin attached'
    BY <2>5, <2>7, <2>8, <2>9, <2>10 DEF A, C, D, U, Z
  <2>14. Subscriber \in attached' => _handle'[Subscriber] # nullptr
    BY <2>5, <2>6, <2>7, <2>8, <2>9, <2>10 DEF A, C, D, U, Z
  <2>15. subscription' = "effective" /\ Subscriber \notin attached' => _handle'[Subscriber] = nullptr
    BY <2>5, <2>6, <2>7, <2>8, <2>9, <2>10 DEF A, C, D, U, Z
  <2>16. SubscriberLife'
    BY <1>1, <1>6, <2>1, <2>2, <2>11, <2>12, <2>13, <2>14, <2>15
      DEF SubscriberLife, Ahead, left, A, C, D, U, Z
  <2> QED BY <1>4, <1>5, <2>16 DEF LifeInv
<1> QED BY <1>7, <1>8

(* A message is sent, received or carried. *)
LEMMA LifeMessage ==
  ASSUME ProgramZmq, LifeInv, UNCHANGED <<script, attached, subscription>>,
         pc' = [o \in Owners |-> pc'[o]],
         pc'["server"] = "args" => pc["server"] = "args",
         pc'["client"] = "start" => pc["client"] = "start",
         \/ \E o \in Owners, i \in 1 .. 2 :
              RecvBuffer(Sock(o, i)) \/ (\E bytes : SendBuffer(Sock(o, i), bytes))
         \/ \E h \in Handles : Carry(h)
  PROVE  LifeInv'
<1>1. /\ OnePub(zmq_sockets)
      /\ subscription # "effective" =>
           \A h \in Handles : zmq_sockets[h].type = "sub" => zmq_sockets[h].in = <<>>
  BY DEF LifeInv, PublisherLife, SubscriberLife
<1>2. ASSUME NEW o \in Owners, NEW i \in 1 .. 2, RecvBuffer(Sock(o, i))
      PROVE  LifeInv'
  <2>1. /\ OnePub(zmq_sockets') /\ UNCHANGED _handle
        /\ \A h \in Handles : zmq_sockets'[h].type = zmq_sockets[h].type
        /\ zmq_sockets[_handle[Sock(o, i)]].in # <<>>
        /\ \A h \in Handles :
             zmq_sockets'[h].in = IF h = _handle[Sock(o, i)] THEN Tail(zmq_sockets[h].in)
                                  ELSE zmq_sockets[h].in
    BY <1>1, <1>2, RecvView
  <2>2. Pubs(zmq_sockets') \subseteq Pubs(zmq_sockets)
    BY <2>1 DEF Pubs
  <2>3. subscription # "effective" =>
          \A h \in Handles : zmq_sockets'[h].type = "sub" => zmq_sockets'[h].in = <<>>
    BY <1>1, <2>1
  <2> QED BY <2>1, <2>2, <2>3, LifeFrame
<1>3. ASSUME NEW o \in Owners, NEW i \in 1 .. 2, NEW bytes, SendBuffer(Sock(o, i), bytes)
      PROVE  LifeInv'
  <2>1. /\ OnePub(zmq_sockets') /\ UNCHANGED _handle
        /\ \A h \in Handles : /\ zmq_sockets'[h].type = zmq_sockets[h].type
                             /\ zmq_sockets'[h].in = zmq_sockets[h].in
    BY <1>1, <1>3, SendView
  <2>2. Pubs(zmq_sockets') \subseteq Pubs(zmq_sockets)
    BY <2>1 DEF Pubs
  <2>3. subscription # "effective" =>
          \A h \in Handles : zmq_sockets'[h].type = "sub" => zmq_sockets'[h].in = <<>>
    BY <1>1, <2>1
  <2> QED BY <2>1, <2>2, <2>3, LifeFrame
<1>4. ASSUME NEW h \in Handles, Carry(h)
      PROVE  LifeInv'
  <2>1. /\ OnePub(zmq_sockets') /\ UNCHANGED _handle
        /\ \A g \in Handles : zmq_sockets'[g].type \in {zmq_sockets[g].type, NoType}
        /\ \A g \in Handles : zmq_sockets[g].type = "sub" =>
              zmq_sockets'[g].in =
                IF zmq_sockets[h].type = "pub" /\ Takes(h, Carried(h)) /\ g = _handle[Subscriber]
                THEN Append(zmq_sockets[g].in, Carried(h))
                ELSE zmq_sockets[g].in
    BY <1>1, <1>4, CarryView
  <2>2. "pub" # NoType /\ "sub" # NoType
    BY DEF NoType
  <2>3. Pubs(zmq_sockets') \subseteq Pubs(zmq_sockets)
    BY <2>1, <2>2 DEF Pubs
  <2>4. zmq_sockets[h].type = "pub" /\ Takes(h, Carried(h)) => subscription = "effective"
    BY DEF Takes
  <2>5. subscription # "effective" =>
          \A g \in Handles : zmq_sockets'[g].type = "sub" => zmq_sockets'[g].in = <<>>
    BY <1>1, <2>1, <2>2, <2>4
  <2> QED BY <2>1, <2>3, <2>5, LifeFrame
<1> QED BY <1>2, <1>3, <1>4

(* The lives of publisher and subscriber go on with every step. *)
LEMMA LifeNext == ProgramInv /\ LifeInv /\ [Next]_vars => LifeInv'
<1> SUFFICES ASSUME ProgramInv, LifeInv, [Next]_vars PROVE LifeInv'
  OBVIOUS
<1>z. ProgramZmq /\ "server" \in Owners /\ "client" \in Owners /\ 1 \in 1 .. 2 /\ 2 \in 1 .. 2
  BY DEF ProgramInv, Owners
<1>p. pc = [o \in Owners |-> pc[o]]
  BY DEF LifeInv, ScriptsLife
<1>l. /\ OnePub(zmq_sockets)
      /\ subscription # "effective" =>
           \A h \in Handles : zmq_sockets[h].type = "sub" => zmq_sockets[h].in = <<>>
  BY DEF LifeInv, PublisherLife, SubscriberLife
<1>1. CASE \/ UNCHANGED vars
           \/ ReqCheck \/ ReqMiss \/ ReqForward \/ PubCheck \/ PubWake \/ SubscriptionArrives
           \/ (Publish /\ UNCHANGED zmqVars)
  <2>1. /\ UNCHANGED <<script, pc, attached, _handle, zmq_sockets>>
        /\ \/ subscription' = subscription
           \/ subscription = "sent" /\ subscription' = "effective" /\ Subscriber \in attached
    BY <1>1 DEF vars, ReqCheck, ReqMiss, ReqForward, PubCheck, PubWake, Publish, SubscriptionArrives, serverRest,
                clientVars, zmqVars, socketVars, Subscriber
  <2>2. subscription' # "effective" => subscription # "effective"
    BY <2>1
  <2> QED BY <1>p, <1>l, <2>1, <2>2, LifeFrame
<1>2. ASSUME NEW o \in Owners, Step(o) PROVE LifeInv'
  BY <1>z, <1>2, LifeStep
<1>3. CASE ReqRecv \/ ReqReply \/ (Publish /\ ~UNCHANGED zmqVars) \/ Receive
  <2>1. UNCHANGED <<script, pc, attached, subscription>>
    BY <1>3 DEF ReqRecv, ReqReply, Publish, Receive, serverRest, clientVars
  <2>2. \E o \in Owners, i \in 1 .. 2 :
          RecvBuffer(Sock(o, i)) \/ (\E bytes : SendBuffer(Sock(o, i), bytes))
    BY <1>z, <1>3 DEF ReqRecv, ReqReply, Publish, Receive
  <2> QED BY <1>z, <1>p, <2>1, <2>2, LifeMessage
<1>4. CASE Calls \/ Return
  <2>1. \E to \in {"reply", "ready"} : pc' = [pc EXCEPT !["client"] = to]
    BY <1>4 DEF Calls, Call, Return
  <2>2. /\ pc' = [o \in Owners |-> pc'[o]] /\ pc'["server"] = pc["server"]
        /\ pc'["client"] # "start"
    BY <1>z, <1>p, <2>1
  <2>3. UNCHANGED <<script, attached, subscription>>
    BY <1>4 DEF Calls, Call, Return, clientVars
  <2>4. \E o \in Owners, i \in 1 .. 2 :
          RecvBuffer(Sock(o, i)) \/ (\E bytes : SendBuffer(Sock(o, i), bytes))
    BY <1>z, <1>4 DEF Calls, Call, Return
  <2> QED BY <1>z, <2>2, <2>3, <2>4, LifeMessage
<1>5. ASSUME NEW h \in Handles, Carry(h) PROVE LifeInv'
  <2>1. UNCHANGED <<script, pc, attached, subscription>>
    BY <1>5, Zenon DEF Carry, clientVars
  <2> QED BY <1>z, <1>p, <1>5, <2>1, LifeMessage
<1>6. CASE BindFails
  <2>0. PICK ops \in {<<>>, DestroyMembers} : script' = [script EXCEPT !["server"] = ops]
    BY <1>6 DEF BindFails
  <2>1. /\ script' = [script EXCEPT !["server"] = ops] /\ pc' = [pc EXCEPT !["server"] = "aborted"]
        /\ attached' = attached \ {Sock("server", 1)}
        /\ UNCHANGED <<zmq_sockets, _handle, subscription>>
    BY <1>6, <2>0 DEF BindFails, zmqVars, socketVars, clientVars
  <2>2. script \in [Owners -> Seq(Operations)]
    BY <1>z DEF ProgramZmq, MembersInv
  <2>3. /\ script'["server"] = ops /\ script'["client"] = script["client"]
        /\ pc'["server"] = "aborted" /\ pc'["client"] = pc["client"] /\ pc' = [o \in Owners |-> pc'[o]]
    BY <1>z, <1>p, <2>1, <2>2
  <2>4. Subscriber # Sock("server", 1)
    BY <1>z, ObjectNames DEF Subscriber
  <2>5. ServerOrder(ops) /\ Op("socket_t", 1) \notin Elements(ops) /\ Clear(ops, Foreign["server"])
    BY <1>z, ServerScripts, ScriptsAreClear
  <2>6. ScriptsLife'
    BY <2>3, <2>5 DEF LifeInv, ScriptsLife, Owners
  <2>7. PublisherLife'
    BY <2>1, <2>3, <2>5 DEF LifeInv, PublisherLife, Ahead
  <2>8. SubscriberLife'
    BY <2>1, <2>3, <2>4 DEF LifeInv, SubscriberLife, Ahead
  <2> QED BY <2>6, <2>7, <2>8 DEF LifeInv
<1>7. CASE \/ UsageError \/ ReadFile \/ ReadString \/ Start \/ Setup \/ CloseBegin \/ CloseJoin
           \/ Teardown \/ Exit
  <2>1. UNCHANGED subscription
    BY <1>7 DEF UsageError, ReadFile, ReadString, Constructs, Start, Setup, CloseBegin, CloseJoin,
                Teardown, Exit, clientVars
  <2>2. \E from \in {"args", "construct", "setup", "loop", "join", "closed", "destroy"},
           to \in {"exited", "aborted", "construct", "setup", "loop", "join", "closed", "destroy"} :
          \/ Goes("server", from, to, <<>>)
          \/ from = "args" /\ Goes("server", from, to, Constructor["server"])
          \/ Goes("server", from, to, Close["server"])
          \/ Goes("server", from, to, Destructor["server"])
    BY <1>7 DEF UsageError, ReadFile, ReadString, Constructs, Start, Setup, CloseBegin, CloseJoin,
                Teardown, Exit
  <2> QED BY <1>z, <2>1, <2>2, LifeGoes
<1>8. CASE \/ ClientStart \/ ClientReady \/ Fetch \/ ClientDestroy \/ ClientGone \/ Wait \/ Finish
  <2>1. UNCHANGED subscription
    BY <1>8 DEF ClientStart, ClientReady, Fetch, ClientDestroy, ClientGone, Wait, Finish, clientVars
  <2>2. \E from \in {"start", "construct", "ready", "waiting", "finished", "destroy"},
           to \in {"construct", "ready", "waiting", "finished", "destroy", "gone"} :
          \/ Goes("client", from, to, <<>>)
          \/ from = "start" /\ Goes("client", from, to, Constructor["client"])
          \/ Goes("client", from, to, Destructor["client"])
    BY <1>8 DEF ClientStart, ClientReady, Fetch, ClientDestroy, ClientGone, Wait, Finish
  <2> QED BY <1>z, <2>1, <2>2, LifeGoes
<1> QED BY <1>1, <1>2, <1>3, <1>4, <1>5, <1>6, <1>7, <1>8
          DEF Next, Main, Requests, Publisher, User, Network

(* At first there is neither. *)
LEMMA LifeInit == Init => LifeInv
<1> SUFFICES ASSUME Init PROVE LifeInv
  OBVIOUS
<1>1. /\ pc = [server |-> "args", client |-> "start"] /\ script = [o \in Owners |-> <<>>]
      /\ attached = {} /\ subscription = "none" /\ zmq_sockets = [h \in Handles |-> NoSocket]
  BY DEF Init, ZmqInit
<1>2. /\ pc = [o \in Owners |-> pc[o]] /\ pc["server"] = "args" /\ pc["client"] = "start"
      /\ script["server"] = <<>> /\ script["client"] = <<>>
  BY <1>1 DEF Owners
<1>3. Pubs(zmq_sockets) = {}
  BY <1>1 DEF Pubs, NoSocket, NoType
<1>4. ScriptsLife
  <2>1. \A o \in Owners : Clear(<<>>, Foreign[o])
    BY ScriptsAreClear
  <2>2. ServerOrder(<<>>) /\ ClientOrder(<<>>)
    BY ServerScripts, ClientScripts
  <2> QED BY <1>1, <1>2, <2>1, <2>2 DEF ScriptsLife
<1>5. PublisherLife
  BY <1>3 DEF PublisherLife, OnePub
<1>6. SubscriberLife
  <2>1. \A op : ~Ahead("client", op)
    BY <1>2, ElementsOfParts DEF Ahead
  <2>2. \A h \in Handles : zmq_sockets[h].in = <<>>
    BY <1>1 DEF NoSocket
  <2> QED BY <1>1, <2>1, <2>2 DEF SubscriberLife
<1> QED BY <1>4, <1>5, <1>6 DEF LifeInv

-----------------------------------------------------------------------------
(* What the client has got, and what is coming *)

(* The packets in published frames. *)
Decoded(frames) == [n \in DOMAIN frames |-> to_packet_dropped(frames[n])]

(* None in none, *)
LEMMA DecodedEmpty == Decoded(<<>>) = <<>>
BY DEF Decoded

(* one in each, *)
LEMMA FrameHoldsPacket ==
  ASSUME NEW frame \in PublishedFrames
  PROVE  /\ to_packet_dropped(frame) \in Packets
         /\ Selects(Topic, frame) <=> to_packet_dropped(frame) \in OfTopic
<1>1. PICK packet \in Packets : topic_of(packet) # UNKNOWN /\ frame = FrameOf(packet)
  BY DEF PublishedFrames
<1>2. to_packet_dropped(frame) = packet /\ (Selects(Topic, frame) <=> topic_of(packet) = Topic)
  BY <1>1, FramesGiveBack
<1> QED BY <1>1, <1>2 DEF OfTopic

(* in the same order, *)
LEMMA DecodedType ==
  ASSUME NEW frames \in Seq(PublishedFrames)
  PROVE  /\ Decoded(frames) \in Seq(Packets) /\ Len(Decoded(frames)) = Len(frames)
         /\ \A n \in 1 .. Len(frames) : Decoded(frames)[n] = to_packet_dropped(frames[n])
<1>1. Len(frames) \in Nat /\ DOMAIN frames = 1 .. Len(frames)
      /\ \A n \in 1 .. Len(frames) : frames[n] \in PublishedFrames
  BY LenProperties, ElementOfSeq
<1>2. \A n \in 1 .. Len(frames) : to_packet_dropped(frames[n]) \in Packets
  BY <1>1, FrameHoldsPacket
<1>3. Decoded(frames) = [n \in 1 .. Len(frames) |-> to_packet_dropped(frames[n])]
  BY <1>1 DEF Decoded
<1> QED BY <1>1, <1>2, <1>3

(* after one more frame, *)
LEMMA DecodedAppend ==
  ASSUME NEW frames \in Seq(PublishedFrames), NEW frame \in PublishedFrames
  PROVE  Decoded(Append(frames, frame)) = Append(Decoded(frames), to_packet_dropped(frame))
<1> DEFINE longer == Append(frames, frame)
           m == Len(frames)
<1>1. /\ m \in Nat /\ longer \in Seq(PublishedFrames) /\ Len(longer) = m + 1
      /\ \A n \in 1 .. m : longer[n] = frames[n]
      /\ longer[m + 1] = frame
  BY AppendProperties, LenProperties
<1> DEFINE D == Append(Decoded(frames), to_packet_dropped(frame))
<1>2. /\ D \in Seq(Packets) /\ Len(D) = m + 1
      /\ \A n \in 1 .. m : D[n] = Decoded(frames)[n]
      /\ D[m + 1] = to_packet_dropped(frame)
  BY FrameHoldsPacket, DecodedType, AppendProperties
<1>3. /\ Decoded(longer) \in Seq(Packets) /\ Len(Decoded(longer)) = m + 1
      /\ \A n \in 1 .. m + 1 : Decoded(longer)[n] = to_packet_dropped(longer[n])
  BY <1>1, DecodedType
<1>4. \A n \in 1 .. m : Decoded(frames)[n] = to_packet_dropped(frames[n])
  BY DecodedType
<1> HIDE DEF longer, m, D
<1>5. \A n \in 1 .. m + 1 : n \in 1 .. m \/ n = m + 1
  BY <1>1
<1>6. \A n \in 1 .. m + 1 : Decoded(longer)[n] = D[n]
  BY <1>1, <1>2, <1>3, <1>4, <1>5
<1>7. Decoded(longer) = D
  BY <1>2, <1>3, <1>6, SeqEqual
<1> QED BY <1>7 DEF longer, D

(* and of the first and the others. *)
LEMMA DecodedTail ==
  ASSUME NEW frames \in Seq(PublishedFrames), frames # <<>>
  PROVE  /\ Head(frames) \in PublishedFrames /\ Tail(frames) \in Seq(PublishedFrames)
         /\ Decoded(frames) = <<to_packet_dropped(Head(frames))>> \o Decoded(Tail(frames))
<1> DEFINE m == Len(frames)
           first == to_packet_dropped(Head(frames))
           rest == Tail(frames)
           D == <<first>> \o Decoded(rest)
<1>1. /\ Head(frames) \in PublishedFrames /\ rest \in Seq(PublishedFrames) /\ Len(rest) = m - 1
      /\ m \in Nat /\ m > 0 /\ Head(frames) = frames[1]
      /\ \A n \in 1 .. m - 1 : rest[n] = frames[n + 1]
  BY HeadTailProperties, LenProperties, EmptySeq
<1>2. first \in Packets /\ Decoded(rest) \in Seq(Packets) /\ Len(Decoded(rest)) = m - 1
      /\ \A n \in 1 .. m - 1 : Decoded(rest)[n] = to_packet_dropped(rest[n])
  BY <1>1, DecodedType, FrameHoldsPacket
<1>3. Decoded(frames) \in Seq(Packets) /\ Len(Decoded(frames)) = m
      /\ \A n \in 1 .. m : Decoded(frames)[n] = to_packet_dropped(frames[n])
  BY DecodedType
<1>4. first = to_packet_dropped(frames[1])
  BY <1>1
<1> HIDE DEF m, first, rest
<1>5. <<first>> \in Seq(Packets) /\ Len(<<first>>) = 1 /\ <<first>>[1] = first
  BY <1>2
<1>6. /\ D \in Seq(Packets) /\ Len(D) = m
      /\ \A n \in 1 .. m : D[n] = IF n <= 1 THEN first ELSE Decoded(rest)[n - 1]
  <2>1. /\ D \in Seq(Packets) /\ Len(D) = 1 + (m - 1)
        /\ \A n \in 1 .. 1 + (m - 1) : D[n] = IF n <= 1 THEN <<first>>[n] ELSE Decoded(rest)[n - 1]
    BY <1>2, <1>5, ConcatProperties
  <2>2. 1 + (m - 1) = m /\ \A n \in 1 .. m : n <= 1 => n = 1
    BY <1>1
  <2> HIDE DEF D
  <2> QED BY <1>5, <2>1, <2>2
<1> HIDE DEF D
<1>7. \A n \in 1 .. m : D[n] = Decoded(frames)[n]
  <2>1. ASSUME NEW n \in 1 .. m, n = 1 PROVE D[n] = Decoded(frames)[n]
    BY <1>3, <1>4, <1>6, <2>1
  <2>2. ASSUME NEW n \in 1 .. m, n # 1 PROVE D[n] = Decoded(frames)[n]
    <3>1. n - 1 \in 1 .. m - 1 /\ ~(n <= 1) /\ (n - 1) + 1 = n
      BY <1>1, <2>2
    <3>2. rest[n - 1] = frames[n] /\ D[n] = Decoded(rest)[n - 1]
      BY <1>1, <1>6, <2>2, <3>1
    <3>3. Decoded(rest)[n - 1] = to_packet_dropped(rest[n - 1])
      BY <1>2, <3>1
    <3> QED BY <1>3, <3>2, <3>3
  <2> QED BY <2>1, <2>2
<1>8. D = Decoded(frames)
  BY <1>3, <1>6, <1>7, SeqEqual
<1> QED BY <1>1, <1>8 DEF D, first, rest

(* A filter takes the first, or not, and goes on with the others. *)
LEMMA FilterTail ==
  ASSUME NEW S, NEW s \in Seq(S), s # <<>>, NEW A
  PROVE  Filter(s, A) = IF Head(s) \in A THEN <<Head(s)>> \o Filter(Tail(s), A) ELSE Filter(Tail(s), A)
<1>1. Head(s) \in S /\ Tail(s) \in Seq(S) /\ <<Head(s)>> \in Seq(S)
  BY HeadTailProperties
<1>2. s = <<Head(s)>> \o Tail(s)
  OBVIOUS
<1>3. Filter(s, A) = Filter(<<Head(s)>>, A) \o Filter(Tail(s), A)
  <2>1. \A u, v \in Seq(S) : Filter(u \o v, A) = Filter(u, A) \o Filter(v, A)
    BY FilterConcat
  <2>2. Filter(<<Head(s)>> \o Tail(s), A) = Filter(<<Head(s)>>, A) \o Filter(Tail(s), A)
    BY <1>1, <2>1, Zenon
  <2> QED BY <1>2, <2>2, Zenon
<1>4. Filter(<<Head(s)>>, A) = IF Head(s) \in A THEN <<Head(s)>> ELSE <<>>
  BY <1>1, FilterOne
<1>5. <<>> \o Filter(Tail(s), A) = Filter(Tail(s), A)
  BY <1>1, FilterType, ConcatEmptySeq
<1> QED BY <1>3, <1>4, <1>5

(* Lists of packets. *)
LEMMA PacketLists ==
  /\ <<>> \in Seq(Packets)
  /\ \A a, b \in Seq(Packets) : a \o b \in Seq(Packets)
  /\ \A a, b, c \in Seq(Packets) : (a \o b) \o c = a \o (b \o c)
  /\ \A a \in Seq(Packets) : a \o <<>> = a /\ <<>> \o a = a
  /\ \A a \in Seq(Packets) : \A p \in Packets :
       /\ <<p>> \in Seq(Packets) /\ Append(a, p) \in Seq(Packets) /\ Append(a, p) = a \o <<p>>
  /\ \A a \in Seq(Packets) : Filter(a, OfTopic) \in Seq(Packets)
<1>1. \A a, b \in Seq(Packets) : a \o b \in Seq(Packets)
  BY ConcatProperties
<1>2. \A a, b, c \in Seq(Packets) : (a \o b) \o c = a \o (b \o c)
  BY ConcatAssociative
<1>3. \A a \in Seq(Packets) : a \o <<>> = a /\ <<>> \o a = a
  BY ConcatEmptySeq
<1>4. ASSUME NEW a \in Seq(Packets), NEW p \in Packets
      PROVE  <<p>> \in Seq(Packets) /\ Append(a, p) \in Seq(Packets) /\ Append(a, p) = a \o <<p>>
  <2>1. Append(a, p) \in Seq(Packets) /\ Append(a, p) = a \o <<p>>
    BY AppendIsConcat, AppendProperties
  <2>2. <<p>> \in Seq(Packets)
    <3> HIDE DEF Packets
    <3> QED OBVIOUS
  <2> QED BY <2>1, <2>2
<1>5. \A a \in Seq(Packets) : Filter(a, OfTopic) \in Seq(Packets)
  BY FilterType
<1> QED BY <1>1, <1>2, <1>3, <1>4, <1>5, EmptySeq

(* Behind what lies at the subscriber come the packets of its topic that    *)
(* the publisher has to send, and to take.                                  *)
Later(out, received) == Filter(Decoded(out), OfTopic) \o Filter(received, OfTopic)
Coming(in, out, received) == Decoded(in) \o Later(out, received)

(* All of these are packets. *)
LEMMA ComingType ==
  ASSUME NEW in \in Seq(PublishedFrames), NEW out \in Seq(PublishedFrames), NEW received \in Seq(Packets)
  PROVE  /\ Decoded(in) \in Seq(Packets) /\ Later(out, received) \in Seq(Packets)
         /\ Coming(in, out, received) \in Seq(Packets)
         /\ Filter(Decoded(out), OfTopic) \in Seq(Packets) /\ Filter(received, OfTopic) \in Seq(Packets)
<1>1. Decoded(in) \in Seq(Packets) /\ Decoded(out) \in Seq(Packets)
  BY DecodedType
<1>2. Filter(Decoded(out), OfTopic) \in Seq(Packets) /\ Filter(received, OfTopic) \in Seq(Packets)
  BY <1>1, PacketLists
<1> QED BY <1>1, <1>2, PacketLists DEF Later, Coming

(* A packet comes from a bridge, *)
LEMMA ComingReceived ==
  ASSUME NEW in \in Seq(PublishedFrames), NEW out \in Seq(PublishedFrames), NEW received \in Seq(Packets),
         NEW packet \in Packets
  PROVE  Coming(in, out, Append(received, packet))
           = IF packet \in OfTopic THEN Append(Coming(in, out, received), packet) ELSE Coming(in, out, received)
<1>1. Filter(Append(received, packet), OfTopic)
        = IF packet \in OfTopic THEN Append(Filter(received, OfTopic), packet) ELSE Filter(received, OfTopic)
  BY FilterAppend
<1> DEFINE a == Decoded(in)
           b == Filter(Decoded(out), OfTopic)
           c == Filter(received, OfTopic)
<1>2. a \in Seq(Packets) /\ b \in Seq(Packets) /\ c \in Seq(Packets)
  BY ComingType
<1>3. Coming(in, out, Append(received, packet)) = a \o (b \o Filter(Append(received, packet), OfTopic))
      /\ Coming(in, out, received) = a \o (b \o c)
  BY DEF Coming, Later
<1> HIDE DEF a, b, c
<1>4. b \o Append(c, packet) = Append(b \o c, packet)
  BY <1>2, AppendOfConcat
<1>5. b \o c \in Seq(Packets)
  BY <1>2, PacketLists
<1>6. a \o Append(b \o c, packet) = Append(a \o (b \o c), packet)
  BY <1>2, <1>5, AppendOfConcat
<1> QED BY <1>1, <1>3, <1>4, <1>6, Zenon DEF c

(* is taken and published, when it has a topic, *)
LEMMA ComingPublished ==
  ASSUME NEW out \in Seq(PublishedFrames), NEW received \in Seq(Packets), received # <<>>
  PROVE  /\ topic_of(Head(received)) = UNKNOWN => Later(out, Tail(received)) = Later(out, received)
         /\ topic_of(Head(received)) # UNKNOWN =>
              Later(Append(out, FrameOf(Head(received))), Tail(received)) = Later(out, received)
<1> DEFINE p == Head(received)
           rest == Tail(received)
           b == Filter(Decoded(out), OfTopic)
           c == Filter(rest, OfTopic)
<1>1. p \in Packets /\ rest \in Seq(Packets)
  BY HeadTailProperties
<1>2. Filter(received, OfTopic) = IF p \in OfTopic THEN <<p>> \o c ELSE c
  BY FilterTail
<1>3. b \in Seq(Packets) /\ c \in Seq(Packets)
  BY <1>1, ComingType
<1> HIDE DEF p, rest
<1>4. ASSUME topic_of(p) = UNKNOWN PROVE Later(out, rest) = Later(out, received)
  <2>1. p \notin OfTopic
    BY <1>4, ProgramAssumption DEF OfTopic
  <2> QED BY <1>2, <2>1 DEF Later
<1>5. ASSUME topic_of(p) # UNKNOWN
      PROVE  Later(Append(out, FrameOf(p)), rest) = Later(out, received)
  <2>1. FrameOf(p) \in PublishedFrames /\ to_packet_dropped(FrameOf(p)) = p
    BY <1>1, <1>5, FramesGiveBack DEF PublishedFrames
  <2>2. Decoded(Append(out, FrameOf(p))) = Append(Decoded(out), p)
    BY <2>1, DecodedAppend
  <2>3. Filter(Append(Decoded(out), p), OfTopic) = IF p \in OfTopic THEN Append(b, p) ELSE b
    <3>1. Decoded(out) \in Seq(Packets)
      BY DecodedType
    <3> QED BY <1>1, <3>1, FilterAppend
  <2>4. Later(Append(out, FrameOf(p)), rest) = (IF p \in OfTopic THEN Append(b, p) ELSE b) \o c
    BY <2>2, <2>3 DEF Later
  <2>5. Later(out, received) = b \o (IF p \in OfTopic THEN <<p>> \o c ELSE c)
    BY <1>2 DEF Later
  <2> HIDE DEF b, c
  <2>6. Append(b, p) \o c = b \o (<<p>> \o c)
    BY <1>1, <1>3, PacketLists
  <2>7. CASE p \in OfTopic
    BY <2>4, <2>5, <2>6, <2>7, Zenon
  <2>8. CASE p \notin OfTopic
    BY <2>4, <2>5, <2>8, Zenon
  <2> QED BY <2>7, <2>8
<1> QED BY <1>4, <1>5 DEF p, rest

(* is carried to the subscriber, when it is of its topic, *)
LEMMA ComingCarried ==
  ASSUME NEW in \in Seq(PublishedFrames), NEW out \in Seq(PublishedFrames), NEW received \in Seq(Packets),
         out # <<>>
  PROVE  /\ ~Selects(Topic, Head(out)) => Coming(in, Tail(out), received) = Coming(in, out, received)
         /\ Selects(Topic, Head(out)) =>
              /\ Coming(Append(in, Head(out)), Tail(out), received) = Coming(in, out, received)
              /\ Later(out, received) = <<to_packet_dropped(Head(out))>> \o Later(Tail(out), received)
<1> DEFINE frame == Head(out)
           p == to_packet_dropped(frame)
           rest == Tail(out)
           a == Decoded(in)
           b == Filter(Decoded(rest), OfTopic)
           c == Filter(received, OfTopic)
<1>1. frame \in PublishedFrames /\ rest \in Seq(PublishedFrames) /\ Decoded(out) = <<p>> \o Decoded(rest)
  BY DecodedTail
<1>2. p \in Packets /\ (Selects(Topic, frame) <=> p \in OfTopic)
  BY <1>1, FrameHoldsPacket
<1>3. a \in Seq(Packets) /\ b \in Seq(Packets) /\ c \in Seq(Packets)
  BY <1>1, ComingType
<1>4. Filter(Decoded(out), OfTopic) = IF p \in OfTopic THEN <<p>> \o b ELSE b
  <2>1. \A u, v \in Seq(Packets) : Filter(u \o v, OfTopic) = Filter(u, OfTopic) \o Filter(v, OfTopic)
    BY FilterConcat
  <2>2. <<p>> \in Seq(Packets) /\ Decoded(rest) \in Seq(Packets)
    BY <1>1, <1>2, DecodedType, PacketLists
  <2>3. Filter(<<p>> \o Decoded(rest), OfTopic) = Filter(<<p>>, OfTopic) \o b
    BY <2>1, <2>2, Zenon
  <2>4. Filter(<<p>>, OfTopic) = IF p \in OfTopic THEN <<p>> ELSE <<>>
    BY <1>2, FilterOne
  <2>5. <<>> \o b = b
    BY <1>3, PacketLists
  <2> HIDE DEF p, b
  <2> QED BY <1>1, <2>3, <2>4, <2>5
<1>5. Decoded(Append(in, frame)) = Append(a, p)
  BY <1>1, DecodedAppend
<1> HIDE DEF frame, p, rest, a, b, c
<1>6. CASE Selects(Topic, frame)
  <2>1. Later(out, received) = (<<p>> \o b) \o c /\ Later(rest, received) = b \o c
    BY <1>2, <1>4, <1>6 DEF Later, b, c
  <2>2. Later(out, received) = <<p>> \o (b \o c)
    BY <1>2, <1>3, <2>1, PacketLists
  <2>3. /\ Coming(Append(in, frame), rest, received) = Append(a, p) \o (b \o c)
        /\ Coming(in, out, received) = a \o (<<p>> \o (b \o c))
    BY <1>5, <2>1, <2>2 DEF Coming, a
  <2>4. b \o c \in Seq(Packets) /\ <<p>> \in Seq(Packets) /\ Append(a, p) = a \o <<p>>
    BY <1>2, <1>3, PacketLists
  <2>5. (a \o <<p>>) \o (b \o c) = a \o (<<p>> \o (b \o c))
    <3>1. \A u, v, w \in Seq(Packets) : (u \o v) \o w = u \o (v \o w)
      BY PacketLists
    <3> QED BY <1>3, <2>4, <3>1, Zenon
  <2> QED BY <1>6, <2>1, <2>2, <2>3, <2>4, <2>5 DEF frame, p, rest
<1>7. CASE ~Selects(Topic, frame)
  BY <1>2, <1>4, <1>7 DEF frame, rest, b, Coming, Later
<1> QED BY <1>6, <1>7 DEF frame

(* and is received. *)
LEMMA ComingStored ==
  ASSUME NEW in \in Seq(PublishedFrames), NEW out \in Seq(PublishedFrames), NEW received \in Seq(Packets),
         in # <<>>
  PROVE  Coming(in, out, received) = <<to_packet_dropped(Head(in))>> \o Coming(Tail(in), out, received)
<1> DEFINE p == to_packet_dropped(Head(in))
           a == Decoded(Tail(in))
           b == Later(out, received)
<1>1. Head(in) \in PublishedFrames /\ Tail(in) \in Seq(PublishedFrames) /\ Decoded(in) = <<p>> \o a
  BY DecodedTail
<1>2. p \in Packets
  BY <1>1, FrameHoldsPacket
<1>3. a \in Seq(Packets) /\ b \in Seq(Packets)
  BY <1>1, ComingType
<1>4. Coming(in, out, received) = (<<p>> \o a) \o b /\ Coming(Tail(in), out, received) = a \o b
  BY <1>1 DEF Coming
<1> HIDE DEF p, a, b
<1>5. <<p>> \in Seq(Packets) /\ (<<p>> \o a) \o b = <<p>> \o (a \o b)
  BY <1>2, <1>3, PacketLists
<1> QED BY <1>4, <1>5 DEF p

(* All that the bridges returned of the topic: what the client missed, what  *)
(* it has got, and the rest, which comes to it while it listens.            *)
Flows(all, got, coming, listening) ==
  \E X, Y \in Seq(Packets) : all = X \o (got \o Y) /\ (listening => Y = coming)

(* One more comes from a bridge, *)
LEMMA FlowsIn ==
  ASSUME NEW all, NEW got \in Seq(Packets), NEW coming \in Seq(Packets), NEW listening,
         NEW packet \in Packets, Flows(all, got, coming, listening)
  PROVE  Flows(Append(all, packet), got, Append(coming, packet), listening)
<1>1. PICK X, Y \in Seq(Packets) : all = X \o (got \o Y) /\ (listening => Y = coming)
  BY DEF Flows
<1>2. got \o Append(Y, packet) = Append(got \o Y, packet)
  BY AppendOfConcat
<1>3. got \o Y \in Seq(Packets) /\ Append(Y, packet) \in Seq(Packets)
  BY PacketLists
<1>4. X \o Append(got \o Y, packet) = Append(X \o (got \o Y), packet)
  BY <1>3, AppendOfConcat
<1>5. Append(all, packet) = X \o (got \o Append(Y, packet))
  BY <1>1, <1>2, <1>4
<1>6. listening => Append(Y, packet) = Append(coming, packet)
  BY <1>1
<1> QED BY <1>3, <1>5, <1>6 DEF Flows

(* one comes to the client, *)
LEMMA FlowsOn ==
  ASSUME NEW all, NEW got \in Seq(Packets), NEW coming \in Seq(Packets), NEW listening,
         NEW packet \in Packets, Flows(all, got, <<packet>> \o coming, TRUE)
  PROVE  Flows(all, Append(got, packet), coming, listening)
<1>1. PICK X, Y \in Seq(Packets) : all = X \o (got \o Y) /\ Y = <<packet>> \o coming
  BY DEF Flows
<1>2. <<packet>> \in Seq(Packets) /\ Append(got, packet) = got \o <<packet>>
  BY PacketLists
<1>3. \A u, v, w \in Seq(Packets) : (u \o v) \o w = u \o (v \o w)
  BY PacketLists
<1>4. (got \o <<packet>>) \o coming = got \o (<<packet>> \o coming)
  BY <1>2, <1>3, Zenon
<1>5. all = X \o (Append(got, packet) \o coming)
  BY <1>1, <1>2, <1>4, Zenon
<1> QED BY <1>5 DEF Flows

(* one is lost while the client has got nothing, *)
LEMMA FlowsPast ==
  ASSUME NEW all, NEW coming \in Seq(Packets), NEW listening, NEW packet \in Packets,
         Flows(all, <<>>, <<packet>> \o coming, listening)
  PROVE  Flows(all, <<>>, coming, listening)
<1>1. PICK X, Y \in Seq(Packets) : all = X \o (<<>> \o Y) /\ (listening => Y = <<packet>> \o coming)
  BY DEF Flows
<1>2. CASE listening
  <2> DEFINE one == <<packet>>
  <2>1. one \in Seq(Packets) /\ X \o one \in Seq(Packets) /\ <<>> \o Y = Y /\ <<>> \o coming = coming
    BY PacketLists
  <2>2. \A u, v, w \in Seq(Packets) : (u \o v) \o w = u \o (v \o w)
    BY PacketLists
  <2>3. all = X \o (one \o coming)
    BY <1>1, <1>2, <2>1
  <2> HIDE DEF one
  <2>4. (X \o one) \o coming = X \o (one \o coming)
    BY <2>1, <2>2, Zenon
  <2>5. all = (X \o one) \o (<<>> \o coming)
    BY <2>1, <2>3, <2>4
  <2> QED BY <2>1, <2>5 DEF Flows
<1>3. CASE ~listening
  BY <1>1, <1>3 DEF Flows
<1> QED BY <1>2, <1>3

(* or the client stops to listen. *)
LEMMA FlowsStill ==
  ASSUME NEW all, NEW got, NEW coming, NEW listening, NEW coming2, NEW listening2,
         Flows(all, got, coming, listening), listening2 => listening /\ coming2 = coming
  PROVE  Flows(all, got, coming2, listening2)
BY DEF Flows

(* The client listens, unless it has left an effective subscription.        *)
Listening == subscription # "effective" \/ Subscriber \in attached

Mine == Filter(answered, OfTopic)
FlowInv ==
  /\ subscription # "effective" => fetched \o stored = <<>>
  /\ Flows(Mine, fetched \o stored,
           Coming(SubIn(_handle, zmq_sockets), PubOut(zmq_sockets, zmq_contents), received_packets),
           Listening)

(* What flows are packets and their frames, and nothing lies at a           *)
(* subscriber without an effective subscription.                            *)
LEMMA FlowTypes ==
  ASSUME ProgramInv, LifeInv
  PROVE  /\ SubIn(_handle, zmq_sockets) \in Seq(PublishedFrames)
         /\ PubOut(zmq_sockets, zmq_contents) \in Seq(PublishedFrames)
         /\ received_packets \in Seq(Packets) /\ answered \in Seq(Packets) /\ Mine \in Seq(Packets)
         /\ fetched \in Seq(Packets) /\ stored \in Seq(Packets) /\ fetched \o stored \in Seq(Packets)
         /\ subscription # "effective" => SubIn(_handle, zmq_sockets) = <<>>
         /\ _handle[Subscriber] # nullptr =>
              _handle[Subscriber] \in Handles /\ zmq_sockets[_handle[Subscriber]].type = "sub"
<1>1. /\ received_packets \in Seq(Packets) /\ answered \in Seq(Packets)
      /\ fetched \in Seq(Packets) /\ stored \in Seq(Packets)
  BY DEF ProgramInv, PacketsInv
<1>2. Mine \in Seq(Packets) /\ fetched \o stored \in Seq(Packets)
  BY <1>1, PacketLists DEF Mine
<1>3. ASSUME _handle[Subscriber] # nullptr
      PROVE  _handle[Subscriber] \in Handles /\ zmq_sockets[_handle[Subscriber]].type = "sub"
  <2>1. "client" \in Owners /\ 1 \in 1 .. 2 /\ Subscriber \in Sockets
    BY ObjectNames DEF Owners, Subscriber
  <2>2. _handle[Subscriber] \in OrNull(Handles)
    BY <2>1 DEF ProgramInv, ProgramZmq, ZmqInv, ZmqTypeOK
  <2>3. HoldsType(Subscriber, "sub")
    BY <1>3, <2>1, TypesOf DEF ProgramInv, ProgramZmq, MembersInv, MemberInv, Subscriber
  <2> QED BY <1>3, <2>2, <2>3 DEF HoldsType, OrNull
<1>4. <<>> \in Seq(PublishedFrames)
  BY EmptySeq
<1>5. SubIn(_handle, zmq_sockets) \in Seq(PublishedFrames)
  <2>1. Received["sub"] = PublishedFrames
    BY DEF Received
  <2>2. \A h \in Handles : zmq_sockets[h].in \in Seq(Received[zmq_sockets[h].type])
    BY DEF ProgramInv, ProgramZmq, WireInv, InOK
  <2> QED BY <1>3, <1>4, <2>1, <2>2 DEF SubIn
<1>6. PubOut(zmq_sockets, zmq_contents) \in Seq(PublishedFrames)
  <2>1. OnePub(zmq_sockets)
    BY DEF LifeInv, PublisherLife
  <2>2. ASSUME NEW h \in Pubs(zmq_sockets)
        PROVE  PubOut(zmq_sockets, zmq_contents) \in Seq(PublishedFrames)
    <3>1. h \in Handles /\ zmq_sockets[h].type = "pub"
      BY DEF Pubs
    <3>2. QueueIn(zmq_sockets[h], zmq_contents) \in Seq(Sent["pub"])
      BY <3>1, QueueType DEF ProgramInv
    <3>3. PubOut(zmq_sockets, zmq_contents) = QueueIn(zmq_sockets[h], zmq_contents)
      BY <2>1, PubOutIs
    <3>4. Sent["pub"] = PublishedFrames
      BY DEF Sent
    <3> QED BY <3>2, <3>3, <3>4
  <2>3. CASE Pubs(zmq_sockets) = {}
    BY <1>4, <2>1, <2>3, PubOutIs
  <2> QED BY <2>2, <2>3
<1>7. subscription # "effective" => SubIn(_handle, zmq_sockets) = <<>>
  BY <1>3 DEF LifeInv, SubscriberLife, SubIn
<1> QED BY <1>1, <1>2, <1>3, <1>5, <1>6, <1>7

(* Nothing is lost, and the client does not begin to listen. *)
LEMMA FlowFrame ==
  ASSUME FlowInv, UNCHANGED answered, fetched' \o stored' = fetched \o stored,
         subscription' # "effective" => subscription # "effective",
         Listening' =>
           /\ Listening
           /\ Coming(SubIn(_handle', zmq_sockets'), PubOut(zmq_sockets', zmq_contents'), received_packets')
                = Coming(SubIn(_handle, zmq_sockets), PubOut(zmq_sockets, zmq_contents), received_packets)
  PROVE  FlowInv'
<1>1. Mine' = Mine
  BY DEF Mine
<1> DEFINE coming == Coming(SubIn(_handle, zmq_sockets), PubOut(zmq_sockets, zmq_contents), received_packets)
           coming2 == Coming(SubIn(_handle', zmq_sockets'), PubOut(zmq_sockets', zmq_contents'),
                             received_packets')
<1>2. Listening' => Listening /\ coming2 = coming
  OBVIOUS
<1>3. Flows(Mine, fetched \o stored, coming, Listening)
  BY DEF FlowInv
<1> HIDE DEF coming, coming2
<1>4. Flows(Mine, fetched \o stored, coming2, Listening')
  BY <1>2, <1>3, FlowsStill
<1> QED BY <1>1, <1>4 DEF FlowInv, coming2

(* Messages of the other two sockets are no part of it. *)
LEMMA FlowOthers ==
  ASSUME ProgramInv, LifeInv, FlowInv,
         UNCHANGED <<answered, received_packets, fetched, stored, subscription, attached>>,
         NEW o \in Owners, RecvBuffer(Sock(o, 2)) \/ \E bytes : SendBuffer(Sock(o, 2), bytes)
  PROVE  FlowInv'
<1>1. ProgramZmq /\ OnePub(zmq_sockets) /\ 2 \in 1 .. 2
  BY DEF ProgramInv, LifeInv, PublisherLife
<1>2. TypeOf[o][2] # "pub" /\ TypeOf[o][2] # "sub"
  BY TypesOf DEF Owners
<1>3. _handle[Subscriber] # nullptr =>
        _handle[Subscriber] \in Handles /\ zmq_sockets[_handle[Subscriber]].type = "sub"
  BY FlowTypes
<1>4. /\ UNCHANGED _handle
      /\ PubOut(zmq_sockets', zmq_contents') = PubOut(zmq_sockets, zmq_contents)
      /\ \A h \in Handles : zmq_sockets[h].type = "sub" => zmq_sockets'[h].in = zmq_sockets[h].in
  <2>1. CASE RecvBuffer(Sock(o, 2))
    <3>1. /\ UNCHANGED _handle /\ PubOut(zmq_sockets', zmq_contents') = PubOut(zmq_sockets, zmq_contents)
          /\ zmq_sockets[_handle[Sock(o, 2)]].type = TypeOf[o][2]
          /\ \A h \in Handles :
               zmq_sockets'[h].in = IF h = _handle[Sock(o, 2)] THEN Tail(zmq_sockets[h].in)
                                    ELSE zmq_sockets[h].in
      BY <1>1, <2>1, RecvView
    <3> QED BY <1>2, <3>1
  <2>2. ASSUME NEW bytes, SendBuffer(Sock(o, 2), bytes)
        PROVE  /\ UNCHANGED _handle
               /\ PubOut(zmq_sockets', zmq_contents') = PubOut(zmq_sockets, zmq_contents)
               /\ \A h \in Handles : zmq_sockets'[h].in = zmq_sockets[h].in
    BY <1>1, <1>2, <2>2, SendView
  <2> QED BY <2>1, <2>2
<1>5. SubIn(_handle', zmq_sockets') = SubIn(_handle, zmq_sockets)
  BY <1>3, <1>4 DEF SubIn
<1> QED BY <1>4, <1>5, FlowFrame DEF Listening

(* The bridges return a packet, or nobody gets it. *)
LEMMA FlowForward ==
  ASSUME ProgramInv, LifeInv, FlowInv, ReqForward
  PROVE  FlowInv'
<1>1. /\ request \in Packets
      /\ UNCHANGED <<_handle, zmq_sockets, zmq_contents, subscription, attached, stored, fetched>>
      /\ \/ UNCHANGED <<received_packets, answered>>
         \/ /\ received_packets' = Append(received_packets, request)
            /\ answered' = Append(answered, request)
  BY DEF ReqForward, ProgramInv, PacketsInv, serverRest, clientVars, zmqVars, socketVars, messageVars
<1> DEFINE in == SubIn(_handle, zmq_sockets)
           out == PubOut(zmq_sockets, zmq_contents)
           got == fetched \o stored
<1>2. /\ in \in Seq(PublishedFrames) /\ out \in Seq(PublishedFrames) /\ got \in Seq(Packets)
      /\ received_packets \in Seq(Packets) /\ answered \in Seq(Packets)
  BY FlowTypes
<1>3. /\ SubIn(_handle', zmq_sockets') = in /\ PubOut(zmq_sockets', zmq_contents') = out
      /\ fetched' \o stored' = got /\ Listening' = Listening
  BY <1>1 DEF Listening
<1>4. CASE UNCHANGED <<received_packets, answered>>
  BY <1>1, <1>3, <1>4, FlowFrame
<1>5. CASE /\ received_packets' = Append(received_packets, request)
           /\ answered' = Append(answered, request)
  <2>1. Mine' = IF request \in OfTopic THEN Append(Mine, request) ELSE Mine
    BY <1>1, <1>2, <1>5, FilterAppend DEF Mine
  <2> DEFINE coming == Coming(in, out, received_packets)
             coming2 == Coming(in, out, Append(received_packets, request))
  <2>2. coming \in Seq(Packets) /\ coming2 = IF request \in OfTopic THEN Append(coming, request) ELSE coming
    BY <1>1, <1>2, ComingReceived, ComingType
  <2>3. Flows(Mine, got, coming, Listening) /\ (subscription # "effective" => got = <<>>)
    BY DEF FlowInv
  <2>4. coming2 = Coming(SubIn(_handle', zmq_sockets'), PubOut(zmq_sockets', zmq_contents'), received_packets')
    BY <1>3, <1>5
  <2> HIDE DEF in, out, got, coming, coming2
  <2>5. Flows(Mine', got, coming2, Listening)
    BY <1>1, <1>2, <2>1, <2>2, <2>3, FlowsIn
  <2> QED BY <1>1, <1>3, <2>3, <2>4, <2>5 DEF FlowInv
<1> QED BY <1>1, <1>4, <1>5

(* The publisher takes a packet, and sends it when it has a topic. *)
LEMMA FlowPublish ==
  ASSUME ProgramInv, LifeInv, FlowInv, Publish
  PROVE  FlowInv'
<1> DEFINE packet == Head(received_packets)
           in == SubIn(_handle, zmq_sockets)
           out == PubOut(zmq_sockets, zmq_contents)
<1>1. /\ received_packets # <<>> /\ received_packets' = Tail(received_packets)
      /\ UNCHANGED <<answered, subscription, attached, stored, fetched>>
      /\ IF topic_of(packet) = UNKNOWN THEN UNCHANGED <<_handle, zmq_sockets, zmq_contents>>
                                        ELSE SendBuffer(Sock("server", 1), FrameOf(packet))
  BY DEF Publish, serverRest, clientVars, zmqVars, socketVars, messageVars
<1>2. in \in Seq(PublishedFrames) /\ out \in Seq(PublishedFrames) /\ received_packets \in Seq(Packets)
  BY FlowTypes
<1>3. /\ SubIn(_handle', zmq_sockets') = in
      /\ Later(PubOut(zmq_sockets', zmq_contents'), Tail(received_packets)) = Later(out, received_packets)
  <2>1. CASE topic_of(packet) = UNKNOWN
    BY <1>1, <1>2, <2>1, ComingPublished
  <2>2. CASE topic_of(packet) # UNKNOWN
    <3>1. ProgramZmq /\ OnePub(zmq_sockets) /\ "server" \in Owners /\ 1 \in 1 .. 2
      BY DEF ProgramInv, LifeInv, PublisherLife, Owners
    <3>2. /\ UNCHANGED _handle
          /\ \A h \in Handles : zmq_sockets'[h].in = zmq_sockets[h].in
          /\ PubOut(zmq_sockets', zmq_contents') = Append(out, FrameOf(packet))
      BY <1>1, <2>2, <3>1, SendView, TypesOf
    <3>3. SubIn(_handle', zmq_sockets') = in
      BY <3>2, FlowTypes DEF SubIn
    <3> QED BY <1>1, <1>2, <2>2, <3>2, <3>3, ComingPublished
  <2> QED BY <2>1, <2>2
<1>4. Coming(SubIn(_handle', zmq_sockets'), PubOut(zmq_sockets', zmq_contents'), received_packets')
        = Coming(in, out, received_packets)
  BY <1>1, <1>3 DEF Coming
<1> QED BY <1>1, <1>4, FlowFrame DEF Listening

(* The subscriber gets the first packet that is coming. *)
LEMMA FlowReceive ==
  ASSUME ProgramInv, LifeInv, FlowInv, Receive
  PROVE  FlowInv'
<1> DEFINE in == SubIn(_handle, zmq_sockets)
           out == PubOut(zmq_sockets, zmq_contents)
           packet == to_packet_dropped(Head(in))
           coming2 == Coming(Tail(in), out, received_packets)
           got == fetched \o stored
<1>1. /\ RecvBuffer(Subscriber)
      /\ stored' = Append(stored, to_packet_dropped(Head(zmq_sockets[_handle[Subscriber]].in)))
      /\ UNCHANGED <<answered, received_packets, subscription, attached, fetched>>
  BY DEF Receive, Subscriber, threadVars
<1>2. ProgramZmq /\ OnePub(zmq_sockets) /\ "client" \in Owners /\ 1 \in 1 .. 2
  BY DEF ProgramInv, LifeInv, PublisherLife, Owners
<1>3. /\ UNCHANGED _handle /\ PubOut(zmq_sockets', zmq_contents') = out
      /\ _handle[Subscriber] \in Handles /\ zmq_sockets[_handle[Subscriber]].in # <<>>
      /\ zmq_sockets'[_handle[Subscriber]].in = Tail(zmq_sockets[_handle[Subscriber]].in)
  BY <1>1, <1>2, RecvView DEF Subscriber
<1>4. _handle[Subscriber] # nullptr
  BY <1>3, ZmqAssumption
<1>5. /\ in = zmq_sockets[_handle[Subscriber]].in /\ in # <<>>
      /\ SubIn(_handle', zmq_sockets') = Tail(in) /\ stored' = Append(stored, packet)
  BY <1>1, <1>3, <1>4 DEF SubIn
<1>6. /\ in \in Seq(PublishedFrames) /\ out \in Seq(PublishedFrames) /\ received_packets \in Seq(Packets)
      /\ fetched \in Seq(Packets) /\ stored \in Seq(Packets) /\ got \in Seq(Packets)
      /\ subscription = "effective"
  BY <1>5, FlowTypes
<1>7. Listening
  BY <1>4 DEF Listening, LifeInv, SubscriberLife
<1>8. /\ packet \in Packets /\ coming2 \in Seq(Packets)
      /\ Coming(in, out, received_packets) = <<packet>> \o coming2
  <2>1. Head(in) \in PublishedFrames /\ Tail(in) \in Seq(PublishedFrames)
    BY <1>5, <1>6, HeadTailProperties
  <2> QED BY <1>5, <1>6, <2>1, FrameHoldsPacket, ComingType, ComingStored
<1>9. Flows(Mine, got, <<packet>> \o coming2, TRUE)
  BY <1>7, <1>8 DEF FlowInv
<1>10. fetched' \o stored' = Append(got, packet)
  <2> HIDE DEF packet, coming2, in
  <2> QED BY <1>1, <1>5, <1>6, <1>8, AppendOfConcat
<1>11. /\ Coming(SubIn(_handle', zmq_sockets'), PubOut(zmq_sockets', zmq_contents'), received_packets')
            = coming2
       /\ Mine' = Mine /\ subscription' = "effective"
  BY <1>1, <1>3, <1>5, <1>6 DEF Mine
<1> HIDE DEF in, out, packet, coming2, got
<1>12. Flows(Mine, Append(got, packet), coming2, Listening')
  BY <1>6, <1>8, <1>9, FlowsOn
<1> QED BY <1>10, <1>11, <1>12 DEF FlowInv

(* libzmq carries a frame to the subscriber, or past it. *)
LEMMA FlowCarry ==
  ASSUME ProgramInv, LifeInv, FlowInv, NEW h \in Handles, Carry(h)
  PROVE  FlowInv'
<1> DEFINE in == SubIn(_handle, zmq_sockets)
           out == PubOut(zmq_sockets, zmq_contents)
           got == fetched \o stored
           in2 == SubIn(_handle', zmq_sockets')
           out2 == PubOut(zmq_sockets', zmq_contents')
<1>1. UNCHANGED <<answered, received_packets, subscription, attached, stored, fetched>>
  BY Zenon DEF Carry, threadVars, clientVars
<1>2. ProgramZmq /\ OnePub(zmq_sockets)
  BY DEF ProgramInv, LifeInv, PublisherLife
<1>3. /\ UNCHANGED _handle
      /\ zmq_sockets[h].type # "pub" => out2 = out
      /\ zmq_sockets[h].type = "pub" => out # <<>> /\ Carried(h) = Head(out) /\ out2 = Tail(out)
      /\ \A g \in Handles : zmq_sockets[g].type = "sub" =>
            zmq_sockets'[g].in =
              IF zmq_sockets[h].type = "pub" /\ Takes(h, Carried(h)) /\ g = _handle[Subscriber]
              THEN Append(zmq_sockets[g].in, Carried(h))
              ELSE zmq_sockets[g].in
  BY <1>2, CarryView
<1>4. /\ in \in Seq(PublishedFrames) /\ out \in Seq(PublishedFrames) /\ received_packets \in Seq(Packets)
      /\ subscription # "effective" => in = <<>>
      /\ _handle[Subscriber] # nullptr =>
           _handle[Subscriber] \in Handles /\ zmq_sockets[_handle[Subscriber]].type = "sub"
  BY FlowTypes
<1>5. in2 = IF _handle[Subscriber] # nullptr /\ zmq_sockets[h].type = "pub" /\ Takes(h, Carried(h))
            THEN Append(in, Carried(h)) ELSE in
  BY <1>3, <1>4 DEF SubIn
<1>6. Flows(Mine, got, Coming(in, out, received_packets), Listening)
      /\ (subscription # "effective" => got = <<>>)
  BY DEF FlowInv
<1>7. /\ fetched' \o stored' = got /\ Listening' = Listening /\ Mine' = Mine
      /\ subscription' = subscription /\ received_packets' = received_packets
  BY <1>1 DEF Listening, Mine
<1>8. zmq_sockets[h].type = "pub" =>
        (Takes(h, Carried(h)) <=>
           Subscriber \in attached /\ subscription = "effective" /\ Selects(Topic, Carried(h)))
  BY DEF Takes, Peer, Subscriber
<1>9. /\ Subscriber \in attached => _handle[Subscriber] # nullptr
      /\ ~Listening <=> subscription = "effective" /\ Subscriber \notin attached
  BY DEF LifeInv, SubscriberLife, Listening
<1>10. (Listening => Coming(in2, out2, received_packets) = Coming(in, out, received_packets)) => FlowInv'
  BY <1>1, <1>7, FlowFrame
<1> HIDE DEF in, out, got, in2, out2
<1>11. CASE zmq_sockets[h].type # "pub"
  BY <1>3, <1>5, <1>10, <1>11
<1>12. CASE zmq_sockets[h].type = "pub" /\ ~Selects(Topic, Carried(h))
  <2>1. in2 = in /\ out2 = Tail(out) /\ out # <<>> /\ ~Selects(Topic, Head(out))
    BY <1>3, <1>5, <1>8, <1>12
  <2> QED BY <1>4, <1>10, <2>1, ComingCarried
<1>13. CASE zmq_sockets[h].type = "pub" /\ Takes(h, Carried(h))
  <2>1. in2 = Append(in, Head(out)) /\ out2 = Tail(out) /\ out # <<>> /\ Selects(Topic, Head(out))
    BY <1>3, <1>5, <1>8, <1>9, <1>13
  <2> QED BY <1>4, <1>10, <2>1, ComingCarried
<1>14. CASE ~Listening
  BY <1>10, <1>14
<1>15. CASE zmq_sockets[h].type = "pub" /\ Selects(Topic, Carried(h)) /\ subscription # "effective"
  <2> DEFINE packet == to_packet_dropped(Head(out))
             rest == Later(Tail(out), received_packets)
  <2>1. in2 = <<>> /\ in = <<>> /\ out2 = Tail(out) /\ out # <<>> /\ Selects(Topic, Head(out)) /\ got = <<>>
    BY <1>3, <1>4, <1>5, <1>6, <1>8, <1>15
  <2>2. Head(out) \in PublishedFrames /\ Tail(out) \in Seq(PublishedFrames)
    BY <1>4, <2>1, HeadTailProperties
  <2>3. packet \in Packets /\ rest \in Seq(Packets) /\ Later(out, received_packets) \in Seq(Packets)
        /\ Later(out, received_packets) = <<packet>> \o rest
    BY <1>4, <2>1, <2>2, FrameHoldsPacket, ComingType, ComingCarried
  <2> HIDE DEF packet, rest
  <2>4. /\ Coming(in, out, received_packets) = <<packet>> \o rest
        /\ Coming(in2, out2, received_packets) = rest
    BY <2>1, <2>3, DecodedEmpty, PacketLists DEF Coming, rest
  <2>5. Flows(Mine, <<>>, <<packet>> \o rest, Listening)
    BY <1>6, <2>1, <2>4
  <2>6. Flows(Mine, <<>>, rest, Listening)
    BY <2>3, <2>5, FlowsPast
  <2>7. Flows(Mine', fetched' \o stored', Coming(in2, out2, received_packets'), Listening')
        /\ fetched' \o stored' = <<>>
    BY <1>7, <2>1, <2>4, <2>6
  <2> QED BY <2>7 DEF FlowInv, in2, out2
<1> QED BY <1>8, <1>9, <1>11, <1>12, <1>13, <1>14, <1>15

(* The scripts make and close the sockets where nothing is coming, or the    *)
(* client has stopped to listen.                                            *)
LEMMA FlowStep ==
  ASSUME ProgramInv, LifeInv, FlowInv, NEW o \in Owners, Step(o)
  PROVE  FlowInv'
<1> DEFINE e == Head(script[o])
           in == SubIn(_handle, zmq_sockets)
           in2 == SubIn(_handle', zmq_sockets')
<1>1. /\ ProgramZmq /\ OnePub(zmq_sockets)
      /\ UNCHANGED <<answered, received_packets, stored, fetched>>
  BY DEF ProgramInv, LifeInv, PublisherLife, Step, threadVars
<1>2. e \in Elements(script[o]) /\ (o = "client" => ClientOrder(script["client"]))
  <2>1. script[o] # <<>> /\ script[o] \in Seq(Operations)
    BY DEF Step, LifeInv, ScriptsLife, Clear
  <2> QED BY <2>1, OrderTail DEF LifeInv, ScriptsLife
<1>3. PubOut(zmq_sockets', zmq_contents') = PubOut(zmq_sockets, zmq_contents)
  <2>1. o = "server" /\ e = Op("socket_t", 1) => Pubs(zmq_sockets) = {}
    BY <1>2 DEF LifeInv, PublisherLife, Ahead
  <2> QED BY <1>1, <2>1, StepPubs
<1>4. o = "client" /\ e \in {Op("=", 1), Op("connect", 1), Op("subscribe", 1)} => subscription = "none"
  BY <1>2 DEF LifeInv, SubscriberLife, Ahead, ClientOrder
<1>5. ProgramInv' /\ LifeInv'
  <2>1. \E p \in Owners : Step(p)
    OBVIOUS
  <2>2. [Next]_vars
    BY <2>1 DEF Next
  <2> QED BY <2>2, ProgramStep, LifeNext
<1>6. subscription' # "effective" => in2 = <<>>
  <2>1. ASSUME _handle'[Subscriber] # nullptr
        PROVE  _handle'[Subscriber] \in Handles /\ zmq_sockets'[_handle'[Subscriber]].type = "sub"
    <3>1. "client" \in Owners /\ 1 \in 1 .. 2 /\ Subscriber \in Sockets
      BY ObjectNames DEF Owners, Subscriber
    <3>2. _handle'[Subscriber] \in OrNull(Handles)
      BY <1>5, <3>1 DEF ProgramInv, ProgramZmq, ZmqInv, ZmqTypeOK
    <3>3. HoldsType(Subscriber, "sub")'
      BY <1>5, <2>1, <3>1, TypesOf DEF ProgramInv, ProgramZmq, MembersInv, MemberInv, Subscriber
    <3> QED BY <2>1, <3>2, <3>3 DEF HoldsType, OrNull
  <2> QED BY <1>5, <2>1 DEF LifeInv, SubscriberLife, SubIn
<1>7. subscription # "effective" => in = <<>>
  BY FlowTypes
<1> HIDE DEF in
<1>8. subscription' # "effective" => subscription # "effective"
  BY <1>1, <1>4, StepAttaches
<1>9. Listening' => Listening
  BY <1>1, <1>4, StepAttaches DEF Listening
<1>10. ASSUME Listening' PROVE in2 = in
  <2>1. CASE o = "client" /\ e = Op("=", 1)
    <3>1. subscription = "none" /\ subscription' = "none"
      BY <1>1, <1>4, <2>1, StepAttaches DEF Op
    <3> QED BY <1>6, <1>7, <3>1
  <2>2. CASE o = "client" /\ e \in {Op("close", 1), Op("~member", 1)}
    <3>1. _handle'[Subscriber] = nullptr
      BY <1>1, <2>2, StepSubscriber DEF Op
    <3>2. Subscriber \notin attached'
      BY <1>5, <3>1 DEF LifeInv, SubscriberLife
    <3>3. subscription' # "effective"
      BY <1>10, <3>2 DEF Listening
    <3> QED BY <1>6, <1>7, <1>8, <3>3
  <2>3. CASE ~(o = "client" /\ e \in {Op("=", 1), Op("close", 1), Op("~member", 1)})
    BY <1>1, <2>3, StepSubscriber DEF in
  <2> QED BY <2>1, <2>2, <2>3
<1> QED BY <1>1, <1>3, <1>8, <1>9, <1>10, FlowFrame DEF in

(* So every step of the program lets the packets flow. *)
LEMMA FlowNext == ProgramInv /\ LifeInv /\ FlowInv /\ [Next]_vars => FlowInv'
<1> SUFFICES ASSUME ProgramInv, LifeInv, FlowInv, [Next]_vars PROVE FlowInv'
  OBVIOUS
<1>o. "server" \in Owners /\ "client" \in Owners
  BY DEF Owners
<1>1. CASE UNCHANGED vars \/ ReqCheck \/ ReqMiss \/ PubCheck \/ PubWake \/ SubscriptionArrives
  <2>1. /\ UNCHANGED <<_handle, zmq_sockets, zmq_contents, attached, answered, received_packets, stored, fetched>>
        /\ \/ subscription' = subscription
           \/ subscription = "sent" /\ subscription' = "effective"
    BY <1>1 DEF vars, ReqCheck, ReqMiss, PubCheck, PubWake, SubscriptionArrives, serverRest, threadVars,
                clientVars, zmqVars, socketVars, messageVars
  <2> QED BY <2>1, FlowFrame DEF Listening
<1>2. ASSUME NEW o \in Owners, Step(o) PROVE FlowInv'
  BY <1>2, FlowStep
<1>3. CASE BindFails
  <2>1. /\ attached' = attached \ {Sock("server", 1)}
        /\ UNCHANGED <<_handle, zmq_sockets, zmq_contents, subscription, answered, received_packets, stored, fetched>>
    BY <1>3 DEF BindFails, zmqVars, socketVars, messageVars, threadVars, clientVars
  <2> QED BY <2>1, FlowFrame DEF Listening
<1>4. CASE \/ UsageError \/ ReadFile \/ ReadString \/ Start \/ Setup \/ CloseBegin \/ CloseJoin
           \/ Teardown \/ Exit
           \/ ClientStart \/ ClientReady \/ ClientDestroy \/ ClientGone \/ Wait \/ Finish
  <2>1. UNCHANGED <<zmqVars, attached>>
    BY <1>4 DEF UsageError, ReadFile, ReadString, Constructs, Start, Setup, CloseBegin, CloseJoin, Teardown,
                Exit, ClientStart, ClientReady, ClientDestroy, ClientGone, Wait, Finish, Goes
  <2>2. UNCHANGED <<subscription, answered, received_packets, stored, fetched>>
    BY <1>4 DEF UsageError, ReadFile, ReadString, Constructs, Start, Setup, CloseBegin, CloseJoin, Teardown,
                Exit, ClientStart, ClientReady, ClientDestroy, ClientGone, Wait, Finish, threadVars, clientVars
  <2>3. UNCHANGED <<_handle, zmq_sockets, zmq_contents>>
    BY <2>1 DEF zmqVars, socketVars, messageVars
  <2> QED BY <2>1, <2>2, <2>3, FlowFrame DEF Listening
<1>5. CASE Fetch
  <2>1. /\ UNCHANGED <<_handle, zmq_sockets, zmq_contents, attached, subscription, answered, received_packets>>
        /\ fetched' = fetched \o stored /\ stored' = <<>>
    BY <1>5 DEF Fetch, Goes, zmqVars, socketVars, messageVars, threadVars
  <2>2. fetched \o stored \in Seq(Packets)
    BY FlowTypes
  <2>3. fetched' \o stored' = fetched \o stored
    BY <2>1, <2>2, PacketLists
  <2> QED BY <2>1, <2>3, FlowFrame DEF Listening
<1>6. CASE ReqRecv \/ ReqReply \/ Calls \/ Return
  <2>1. UNCHANGED <<answered, received_packets, fetched, stored, subscription, attached>>
    BY <1>6 DEF ReqRecv, ReqReply, Calls, Call, Return, serverRest, threadVars, clientVars
  <2>2. \E o \in Owners : RecvBuffer(Sock(o, 2)) \/ \E bytes : SendBuffer(Sock(o, 2), bytes)
    BY <1>o, <1>6 DEF ReqRecv, ReqReply, Calls, Call, Return
  <2> QED BY <2>1, <2>2, FlowOthers
<1>7. CASE ReqForward \/ Publish \/ Receive \/ \E h \in Handles : Carry(h)
  BY <1>7, FlowForward, FlowPublish, FlowReceive, FlowCarry
<1> QED BY <1>1, <1>2, <1>3, <1>4, <1>5, <1>6, <1>7 DEF Next, Main, Requests, Publisher, User, Network

(* At first there is nothing to get, and nothing is coming. *)
LEMMA FlowInit == Init => FlowInv
<1> SUFFICES ASSUME Init PROVE FlowInv
  OBVIOUS
<1>1. /\ answered = <<>> /\ received_packets = <<>> /\ fetched = <<>> /\ stored = <<>>
      /\ subscription = "none"
  BY DEF Init
<1>2. ProgramInv /\ LifeInv
  BY ProgramInit, LifeInit
<1>3. SubIn(_handle, zmq_sockets) = <<>>
  BY <1>1, <1>2, FlowTypes
<1>4. PubOut(zmq_sockets, zmq_contents) = <<>>
  <2>1. Pubs(zmq_sockets) = {}
    BY DEF Init, ZmqInit, Pubs, NoSocket, NoType
  <2> QED BY <1>2, <2>1, PubOutIs DEF LifeInv, PublisherLife
<1>5. Coming(<<>>, <<>>, <<>>) = <<>> /\ Mine = <<>> /\ fetched \o stored = <<>>
  BY <1>1, DecodedEmpty, FilterEmpty, PacketLists DEF Coming, Later, Mine
<1>6. Flows(<<>>, <<>>, <<>>, Listening)
  <2>1. <<>> = <<>> \o (<<>> \o <<>>)
    BY PacketLists
  <2> QED BY <2>1, PacketLists DEF Flows
<1> QED BY <1>1, <1>3, <1>4, <1>5, <1>6 DEF FlowInv

(* A part of a sequence, between two others. *)
LEMMA PartOf ==
  ASSUME NEW X \in Seq(Packets), NEW got \in Seq(Packets), NEW Y \in Seq(Packets)
  PROVE  LET all == X \o (got \o Y)
         IN  /\ Len(X) \in 0 .. Len(all) - Len(got)
             /\ got = SubSeq(all, Len(X) + 1, Len(X) + Len(got))
<1> DEFINE m == Len(X)
           n == Len(got)
           l == Len(Y)
           all == X \o (got \o Y)
           part == SubSeq(all, m + 1, m + n)
<1>1. m \in Nat /\ n \in Nat /\ l \in Nat
  BY LenProperties
<1>0. \A u, v \in Seq(Packets) :
        /\ u \o v \in Seq(Packets) /\ Len(u \o v) = Len(u) + Len(v)
        /\ \A i \in 1 .. Len(u) + Len(v) : (u \o v)[i] = IF i <= Len(u) THEN u[i] ELSE v[i - Len(u)]
  BY ConcatProperties
<1>2. /\ got \o Y \in Seq(Packets) /\ Len(got \o Y) = n + l
      /\ \A i \in 1 .. n + l : (got \o Y)[i] = IF i <= n THEN got[i] ELSE Y[i - n]
  BY <1>0
<1>3. /\ all \in Seq(Packets) /\ Len(all) = m + (n + l)
      /\ \A i \in 1 .. m + (n + l) : all[i] = IF i <= m THEN X[i] ELSE (got \o Y)[i - m]
  <2> DEFINE rest == got \o Y
  <2>1. rest \in Seq(Packets) /\ Len(rest) = n + l
    BY <1>2
  <2> HIDE DEF rest
  <2>2. /\ X \o rest \in Seq(Packets) /\ Len(X \o rest) = Len(X) + Len(rest)
        /\ \A i \in 1 .. Len(X) + Len(rest) :
             (X \o rest)[i] = IF i <= Len(X) THEN X[i] ELSE rest[i - Len(X)]
    BY <1>0, <2>1, Zenon
  <2> HIDE DEF m, n, l
  <2>3. /\ X \o rest \in Seq(Packets) /\ Len(X \o rest) = m + (n + l)
        /\ \A i \in 1 .. m + (n + l) : (X \o rest)[i] = IF i <= m THEN X[i] ELSE rest[i - m]
    BY <2>1, <2>2 DEF m
  <2> QED BY <2>3 DEF rest
<1> HIDE DEF m, n, l, all
<1>4. /\ part \in Seq(Packets) /\ Len(part) = n
      /\ \A i \in 1 .. n : part[i] = all[m + i]
  <2>1. m + 1 \in 1 .. Len(all) + 1 /\ m + n \in m .. Len(all)
    BY <1>1, <1>3
  <2>2. /\ part \in Seq(Packets)
        /\ Len(part) = IF m + 1 <= m + n THEN (m + n) - (m + 1) + 1 ELSE 0
        /\ \A i \in 1 .. (m + n) - (m + 1) + 1 : part[i] = all[(m + 1) + i - 1]
    <3>1. m + 1 \in Int /\ m + n \in Int
      BY <1>1
    <3>2. \A i \in 1 .. Len(all) : all[i] \in Packets
      BY <1>3, ElementOfSeq
    <3>3. \A i \in m + 1 .. m + n : all[i] \in Packets
      BY <1>1, <1>3, <2>1, <3>2
    <3> DEFINE lo == m + 1
               hi == m + n
    <3> HIDE DEF lo, hi
    <3>4. /\ SubSeq(all, lo, hi) \in Seq(Packets)
          /\ Len(SubSeq(all, lo, hi)) = IF lo <= hi THEN hi - lo + 1 ELSE 0
          /\ \A i \in 1 .. hi - lo + 1 : SubSeq(all, lo, hi)[i] = all[lo + i - 1]
      BY <3>1, <3>3, SubSeqProperties DEF lo, hi
    <3> QED BY <3>4 DEF lo, hi
  <2>3. (m + n) - (m + 1) + 1 = n /\ \A i \in 1 .. n : (m + 1) + i - 1 = m + i
    BY <1>1
  <2>4. Len(part) = n
    BY <1>1, <2>2
  <2> HIDE DEF part
  <2> QED BY <2>2, <2>3, <2>4
<1>5. \A i \in 1 .. n : part[i] = got[i]
  <2>1. ASSUME NEW i \in 1 .. n PROVE all[m + i] = got[i]
    <3>1. m + i \in 1 .. m + (n + l) /\ ~(m + i <= m) /\ (m + i) - m = i /\ i \in 1 .. n + l /\ i <= n
      BY <1>1
    <3> QED BY <1>2, <1>3, <3>1
  <2> HIDE DEF part
  <2> QED BY <1>4, <2>1
<1>6. Len(got) = n
  BY DEF n
<1> HIDE DEF part
<1>7. part = got
  BY <1>4, <1>5, <1>6, SeqEqual
<1>8. m \in 0 .. Len(all) - n
  BY <1>1, <1>3
<1> QED BY <1>7, <1>8 DEF part, m, n, all

(* ZMQClient.hpp, subscription_thread and get_packets; ZMQServer.cpp,       *)
(* publish_packets: from the bridges, through the queue, the frames and     *)
(* libzmq, to the hands of the user, no packet of the topic is lost,        *)
(* repeated or reordered once the subscription is effective, whatever the   *)
(* network delays and whenever sockets are made and closed.                 *)
THEOREM PacketsArriveWithoutGaps == Spec => []NoGaps
<1>1. ProgramInv /\ LifeInv /\ FlowInv => NoGaps
  <2> SUFFICES ASSUME ProgramInv, LifeInv, FlowInv PROVE NoGaps
    OBVIOUS
  <2> DEFINE got == fetched \o stored
  <2>1. PICK X, Y \in Seq(Packets) : Mine = X \o (got \o Y)
    BY DEF FlowInv, Flows
  <2>2. got \in Seq(Packets)
    BY FlowTypes
  <2> HIDE DEF got
  <2>3. Len(X) \in 0 .. Len(Mine) - Len(got) /\ got = SubSeq(Mine, Len(X) + 1, Len(X) + Len(got))
    BY <2>1, <2>2, PartOf
  <2> QED BY <2>3 DEF NoGaps, Mine, got
<1>2. Init => LifeInv /\ FlowInv
  BY LifeInit, FlowInit
<1> QED BY <1>1, <1>2, ProgramInvariant, LifeNext, FlowNext, PTL DEF Spec
==============================================================================
