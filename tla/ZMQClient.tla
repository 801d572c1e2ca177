----------------------------- MODULE ZMQClient -----------------------------
(***************************************************************************)
(* ZMQClient (src/src/ZMQClient.hpp): a thread polls the SUB socket and     *)
(* sorts the messages into bounded queues, one per topic or a single one,   *)
(* according to the topic policy; the threads of the user (Users) take them *)
(* with get_packets, send packets through the REQ socket and destroy the    *)
(* client, which they may do only when none of them is in a call.           *)
(*                                                                         *)
(* A topic is its enumerator in topics::types, which is also its index in   *)
(* topics::strings::table; UNKNOWN comes after the table.                   *)
(***************************************************************************)
EXTENDS PacketQueue, Histories, FiniteSets

CONSTANTS
  TableSize,    (* std::size(topics::strings::table), 5 in the code         *)
  Messages,     (* what the server publishes, each one once                 *)
  TopicOf,      (* the topic a message starts with                          *)
  Subscribable, (* the values of the argument subscribed_topics             *)
  Policies,     (* and of the policy: TRUE stands for merge_all_topics,     *)
                (* FALSE for per_topic_queue                                *)
  Users,        (* the threads that use the client                          *)
  Reads,        (* the queues each of them reads                            *)
  MaxTries      (* empty polls before the thread sleeps; 100 in the code    *)

UNKNOWN == TableSize

ASSUME ClientAssumption ==
  /\ TableSize \in Nat \ {0}
  /\ TopicOf \in [Messages -> 0 .. TableSize - 1]
  /\ Subscribable \subseteq Seq(0 .. UNKNOWN)
  /\ Policies \subseteq BOOLEAN
  /\ Reads \in [Users -> SUBSET (0 .. TableSize - 1)]
  /\ MaxTries \in Nat \ {0}

Indices == 0 .. TableSize - 1

VARIABLES
  merge,               (* the topic policy, a parameter of the class        *)
  life,                (* of the ZMQClient object                           *)
  to_subscribe,        (* topics the constructor has still to subscribe to  *)
  subscriptions,       (* topics the SUB socket is subscribed to            *)
  m_topic_enabled,     (* with the bytes after the array                    *)
  m_received_packets,
  to_close,            (* index of the queue the destructor closes next     *)
  m_running,
  sub_thread,          (* where subscription_thread stands                  *)
  tries,               (* its local tries                                   *)
  message,             (* its local message, a sequence of at most one      *)
  aborted,             (* an assertion failed                               *)
  link,                (* messages not published yet                        *)
  m_subscription,      (* messages in the SUB socket                        *)
  user_place,          (* where each user stands                            *)
  user_index           (* the index its get_packets was called with         *)

(* Both arrays, m_topic_enabled and m_received_packets, have this size.     *)
ArraySize == IF merge THEN 1 ELSE TableSize

InUse == 0 .. ArraySize - 1

(* History. *)
VARIABLES
  arrived,     (* messages that reached the SUB socket                      *)
  stored,      (* messages store_packet is done with                        *)
  captured,    (* those added to each queue                                 *)
  taken        (* those taken from each queue                               *)

subscribeVars == <<to_subscribe, subscriptions, m_topic_enabled>>
objectVars == <<merge, life, subscribeVars, to_close, m_running>>
subVars == <<sub_thread, tries, message, aborted, stored>>
queueVars == <<m_received_packets, captured, taken>>
socketVars == <<link, m_subscription, arrived>>
userVars == <<user_place, user_index>>
clientVars == <<objectVars, subVars, queueVars, socketVars, userVars>>

Lives == {"construct", "alive", "close_queues", "join", "destroyed"}
SubPlaces == {"unborn", "while", "poll", "store", "done"}
UserPlaces == {"idle", "size", "take", "reply"}

(* The bytes after m_topic_enabled are not initialized. *)
ClientInit ==
  /\ merge \in Policies
  /\ life = "construct"
  /\ to_subscribe \in Subscribable
  /\ subscriptions = {}
  /\ m_topic_enabled \in {enabled \in [0 .. UNKNOWN -> BOOLEAN] : \A i \in InUse : ~enabled[i]}
  /\ m_received_packets = [i \in Indices |-> EmptyQueue]
  /\ to_close = 0
  /\ m_running = FALSE
  /\ sub_thread = "unborn"
  /\ tries = 0
  /\ message = <<>>
  /\ aborted = FALSE
  /\ link = Messages
  /\ m_subscription = <<>>
  /\ user_place = [u \in Users |-> "idle"]
  /\ user_index = [u \in Users |-> 0]
  /\ arrived = <<>>
  /\ stored = <<>>
  /\ captured = [i \in Indices |-> <<>>]
  /\ taken = [i \in Indices |-> <<>>]

-----------------------------------------------------------------------------
(* The constructor. *)

(* Fault: the topic is subscribed to, but not enabled. *)
SubscribeOnly ==
  /\ life = "construct"
  /\ to_subscribe # <<>>
  /\ subscriptions' = subscriptions \cup {Head(to_subscribe)}
  /\ to_subscribe' = Tail(to_subscribe)
  /\ UNCHANGED <<merge, life, m_topic_enabled, to_close, m_running, subVars, queueVars, socketVars,
                 userVars>>

(* m_topic_enabled is written at the index of the topic, whatever the size  *)
(* of the array: the byte written lies before the queues, in its padding.   *)
Subscribe ==
  /\ life = "construct"
  /\ to_subscribe # <<>>
  /\ subscriptions' = subscriptions \cup {Head(to_subscribe)}
  /\ m_topic_enabled' = [m_topic_enabled EXCEPT ![Head(to_subscribe)] = TRUE]
  /\ to_subscribe' = Tail(to_subscribe)
  /\ UNCHANGED <<merge, life, to_close, m_running, subVars, queueVars, socketVars, userVars>>

Run ==
  /\ life = "construct"
  /\ to_subscribe = <<>>
  /\ life' = "alive"
  /\ m_running' = TRUE
  /\ sub_thread' = "while"
  /\ UNCHANGED <<merge, subscribeVars, to_close, tries, message, aborted, stored,
                 queueVars, socketVars, userVars>>

(* A SUB socket matches prefixes, and to_string(UNKNOWN) is empty.          *)
Matches(topic, msg) == topic = UNKNOWN \/ topic = TopicOf[msg]

(* The publisher publishes msg and the socket gets it.  One that is lost,   *)
(* or published before the subscription, is a message that never arrives.   *)
Arrive(msg) ==
  /\ msg \in link
  /\ life # "destroyed"
  /\ \E topic \in subscriptions : Matches(topic, msg)
  /\ link' = link \ {msg}
  /\ m_subscription' = Append(m_subscription, msg)
  /\ arrived' = Append(arrived, msg)
  /\ UNCHANGED <<objectVars, subVars, queueVars, userVars>>

-----------------------------------------------------------------------------
(* subscription_thread *)

SubWhile ==
  /\ sub_thread = "while"
  /\ sub_thread' = IF m_running THEN "poll" ELSE "done"
  /\ tries' = 0
  /\ UNCHANGED <<objectVars, message, aborted, stored, queueVars, socketVars, userVars>>

SubReceive ==
  /\ sub_thread = "poll"
  /\ m_subscription # <<>>
  /\ message' = <<Head(m_subscription)>>
  /\ m_subscription' = Tail(m_subscription)
  /\ sub_thread' = "store"
  /\ UNCHANGED <<objectVars, tries, aborted, stored, queueVars, link, arrived, userVars>>

(* Fault: the thread ends once the socket has been empty. *)
SubMissEnds ==
  /\ sub_thread = "poll"
  /\ m_subscription = <<>>
  /\ tries' = tries + 1
  /\ sub_thread' = IF tries + 1 < MaxTries THEN "poll" ELSE "done"
  /\ UNCHANGED <<objectVars, message, aborted, stored, queueVars, socketVars, userVars>>

SubMiss ==
  /\ sub_thread = "poll"
  /\ m_subscription = <<>>
  /\ tries' = tries + 1
  /\ sub_thread' = IF tries + 1 < MaxTries THEN "poll" ELSE "while"
  /\ UNCHANGED <<objectVars, message, aborted, stored, queueVars, socketVars, userVars>>

(* store_packet *)

TopicIndex == TopicOf[message[1]]

(* Fault: the message goes to the queue of the next topic. *)
WrongQueueIndex(msg) == IF merge THEN 0 ELSE (TopicOf[msg] + 1) % TableSize

QueueIndex(msg) == IF merge THEN 0 ELSE TopicOf[msg]

StoreAsserts ==
  /\ sub_thread = "store"
  /\ ~m_topic_enabled[TopicIndex]
  /\ aborted' = TRUE
  /\ UNCHANGED <<objectVars, sub_thread, tries, message, stored, queueVars, socketVars, userVars>>

Store ==
  LET i == QueueIndex(message[1])
      queue == m_received_packets[i]
  IN  /\ sub_thread = "store"
      /\ m_topic_enabled[TopicIndex]
      /\ AddReturns(queue)
      /\ m_received_packets' = [m_received_packets EXCEPT ![i] = Add(@, message[1])]
      /\ captured' = [captured EXCEPT ![i] = IF queue.closed THEN @ ELSE @ \o message]
      /\ stored' = stored \o message
      /\ message' = <<>>
      /\ tries' = 0
      /\ sub_thread' = "poll"
      /\ UNCHANGED <<objectVars, aborted, taken, socketVars, userVars>>

Subscription == SubWhile \/ SubReceive \/ SubMiss \/ StoreAsserts \/ Store

-----------------------------------------------------------------------------
(* The users. *)

(* get_packets: while the queue has a size, take. *)
GetPackets(u, i) ==
  /\ life = "alive"
  /\ i \in InUse \cap Reads[u]
  /\ user_place[u] = "idle"
  /\ user_place' = [user_place EXCEPT ![u] = "size"]
  /\ user_index' = [user_index EXCEPT ![u] = i]
  /\ UNCHANGED <<objectVars, subVars, queueVars, socketVars>>

QueueOfUser(u) == m_received_packets[user_index[u]]

(* Fault: get_packets takes before it looks at the size. *)
GetNoSize(u) ==
  /\ user_place[u] = "size"
  /\ user_place' = [user_place EXCEPT ![u] = "take"]
  /\ UNCHANGED <<user_index, objectVars, subVars, queueVars, socketVars>>

GetSize(u) ==
  /\ user_place[u] = "size"
  /\ user_place' = [user_place EXCEPT ![u] =
       IF QueueOfUser(u).items # <<>> THEN "take" ELSE "idle"]
  /\ UNCHANGED <<user_index, objectVars, subVars, queueVars, socketVars>>

(* take waits for a packet: no queue is closed while a call is running.     *)
GetTake(u) ==
  /\ user_place[u] = "take"
  /\ TakesPacket(QueueOfUser(u))
  /\ m_received_packets' = [m_received_packets EXCEPT ![user_index[u]] = AfterTake(@)]
  /\ taken' = [taken EXCEPT ![user_index[u]] = Append(@, First(QueueOfUser(u)))]
  /\ user_place' = [user_place EXCEPT ![u] = "size"]
  /\ UNCHANGED <<user_index, captured, objectVars, subVars, socketVars>>

(* send_packet: a REQ socket belongs to one thread at a time, and waits for *)
(* the reply, which may never come.                                         *)
SendPacket(u) ==
  /\ life = "alive"
  /\ user_place[u] = "idle"
  /\ \A v \in Users : user_place[v] # "reply"
  /\ user_place' = [user_place EXCEPT ![u] = "reply"]
  /\ UNCHANGED <<user_index, objectVars, subVars, queueVars, socketVars>>

Reply(u) ==
  /\ user_place[u] = "reply"
  /\ user_place' = [user_place EXCEPT ![u] = "idle"]
  /\ UNCHANGED <<user_index, objectVars, subVars, queueVars, socketVars>>

-----------------------------------------------------------------------------
(* The destructor. *)

DestroyStop ==
  /\ life = "alive"
  /\ \A u \in Users : user_place[u] = "idle"
  /\ life' = "close_queues"
  /\ m_running' = FALSE
  /\ UNCHANGED <<merge, subscribeVars, to_close, subVars, queueVars, socketVars, userVars>>

(* Fault: the queues are not closed. *)
DestroyNoClose ==
  /\ life = "close_queues"
  /\ to_close' = to_close + 1
  /\ life' = IF to_close + 1 < ArraySize THEN "close_queues" ELSE "join"
  /\ UNCHANGED <<merge, subscribeVars, m_running, queueVars, subVars, socketVars, userVars>>

DestroyClose ==
  /\ life = "close_queues"
  /\ m_received_packets' = [m_received_packets EXCEPT ![to_close] = Close(@)]
  /\ to_close' = to_close + 1
  /\ life' = IF to_close + 1 < ArraySize THEN "close_queues" ELSE "join"
  /\ UNCHANGED <<merge, subscribeVars, m_running, captured, taken, subVars, socketVars,
                 userVars>>

DestroyJoin ==
  /\ life = "join"
  /\ sub_thread = "done"
  /\ life' = "destroyed"
  /\ UNCHANGED <<merge, subscribeVars, to_close, m_running, subVars, queueVars, socketVars,
                 userVars>>

-----------------------------------------------------------------------------
Construction == Subscribe \/ Run

Destruction == DestroyClose \/ DestroyJoin

UserStep(u) == GetSize(u) \/ GetTake(u)

UserCall(u) == (\E i \in Indices : GetPackets(u, i)) \/ SendPacket(u) \/ Reply(u)

ClientStep ==
  \/ Construction
  \/ Subscription
  \/ \E u \in Users : UserStep(u) \/ UserCall(u)
  \/ DestroyStop
  \/ Destruction
  \/ \E msg \in Messages : Arrive(msg)

ClientEnded == life = "destroyed" \/ aborted

ClientNext ==
  \/ ~aborted /\ ClientStep
  \/ ClientEnded /\ UNCHANGED clientVars

ClientSpec == ClientInit /\ [][ClientNext]_clientVars

(* The thread of the client and the calls in progress run on.  Nobody has   *)
(* to call anything, and neither publisher nor server has to answer.        *)
ClientFairness ==
  /\ WF_clientVars(~aborted /\ Subscription)
  /\ WF_clientVars(~aborted /\ Destruction)
  /\ \A u \in Users : WF_clientVars(~aborted /\ UserStep(u))

FairClientSpec == ClientSpec /\ ClientFairness

-----------------------------------------------------------------------------
(* Properties *)

ObjectTypeOK ==
  /\ merge \in BOOLEAN
  /\ life \in Lives
  /\ life \in {"construct", "alive"} => to_close = 0
  /\ subscriptions \subseteq 0 .. UNKNOWN
  /\ to_subscribe \in Seq(0 .. UNKNOWN)
  /\ m_topic_enabled \in [0 .. UNKNOWN -> BOOLEAN]
  /\ to_close \in 0 .. ArraySize
  /\ life = "close_queues" => to_close < ArraySize
  /\ m_running \in BOOLEAN

SubTypeOK ==
  /\ sub_thread \in SubPlaces
  /\ tries \in 0 .. MaxTries
  /\ sub_thread \in {"poll", "store"} => tries < MaxTries
  /\ message \in Seq(Messages)
  /\ Len(message) = IF sub_thread = "store" THEN 1 ELSE 0
  /\ aborted \in BOOLEAN
  /\ stored \in Seq(Messages)

QueuesTypeOK ==
  /\ m_received_packets \in [Indices -> QueueOf(Messages)]
  /\ \A i \in Indices : WithinCapacity(m_received_packets[i])
  /\ captured \in [Indices -> Seq(Messages)]
  /\ taken \in [Indices -> Seq(Messages)]

SocketTypeOK ==
  /\ link \subseteq Messages
  /\ m_subscription \in Seq(Messages)
  /\ arrived \in Seq(Messages)

UsersTypeOK ==
  /\ user_place \in [Users -> UserPlaces]
  /\ user_index \in [Users -> Indices]

(* Every variable has its type and no queue outgrows its capacity.          *)
ClientTypeOK ==
  /\ life = "construct" => sub_thread = "unborn"
  /\ ObjectTypeOK
  /\ SubTypeOK
  /\ QueuesTypeOK
  /\ SocketTypeOK
  /\ UsersTypeOK

(* The messages that reached the socket were stored, are being stored or    *)
(* wait in the socket, each once and in order.                              *)
MessageConservation == arrived = Pipeline(stored, message, m_subscription)

(* Each queue hands its users what store_packet added to it, in order.      *)
QueueConservation ==
  \A i \in Indices : captured[i] = taken[i] \o m_received_packets[i].items

(* The messages a queue is for: those of its topic, or all of them in the   *)
(* first queue when the topics are merged.                                  *)
Belongs(msg, i) == IF merge THEN i = 0 ELSE TopicOf[msg] = i
MessagesOf(i) == {msg \in Messages : Belongs(msg, i)}

(* From the socket to the users, each index is a relay of its own.          *)
TopicsRelay == INSTANCE Relay WITH
  Channels <- Indices, Payloads <- Messages,
  input <- [i \in Indices |-> Filter(arrived, MessagesOf(i))], output <- taken

TopicsInOrder == TopicsRelay!Spec

(* assert(m_topic_enabled[index]) (ZMQClient.hpp:75) holds, unless the       *)
(* client subscribed to UNKNOWN, hence to every topic.                      *)
AssertHolds == UNKNOWN \notin subscriptions => ~aborted

Enabled(msg) == m_topic_enabled[TopicOf[msg]]

(* Why the assertion holds: the constructor enables what it subscribes to,  *)
(* and nothing else arrives.                                                *)
EnabledInv ==
  UNKNOWN \notin subscriptions =>
    /\ \A topic \in subscriptions : m_topic_enabled[topic]
    /\ \A n \in 1 .. Len(m_subscription) : Enabled(m_subscription[n])
    /\ message # <<>> => Enabled(message[1])
    /\ ~aborted

OnlyReader(u, i) == \A v \in Users : i \in Reads[v] => v = u

(* get_packets takes only what is there: the only user that reads a queue   *)
(* is never kept waiting between its test of the size and its take.         *)
TakeFindsPacket ==
  \A u \in Users :
    user_place[u] = "take" /\ OnlyReader(u, user_index[u]) => TakesPacket(QueueOfUser(u))

(* subscription_thread is a polling loop. *)
SubLoop == INSTANCE PollLoop WITH
  running <- m_running,
  place <- IF sub_thread = "store" THEN "handle" ELSE sub_thread,
  tries <- IF sub_thread = "store" THEN 0 ELSE tries,
  pending <- Len(m_subscription)

SubscriptionPolls == SubLoop!Spec

(* The destructor returns even if the thread is blocked on a full queue.    *)
ClientDestructorReturns == life = "close_queues" ~> (life = "destroyed" \/ aborted)

(* If the users keep reading every queue, each message the socket got is    *)
(* given to a user, unless the client is destroyed.                         *)
ReadsGoOn == \A i \in Indices : i \in InUse => []<><<\E u \in Users : GetPackets(u, i)>>_clientVars

DeliveredIfRead ==
  ReadsGoOn =>
    \A msg \in Messages :
      msg \in Elements(arrived) ~>
        (life # "alive" \/ \E i \in Indices : Belongs(msg, i) /\ msg \in Elements(taken[i]))
=============================================================================
