# SpaceWireZMQ in TLA+

TLA+ models, TLC runs and TLAPS proofs of SpaceWireZMQ: a server that connects
SpaceWire devices ("bridges") to ZeroMQ clients. Clients send packets to a
device through a request socket, and receive what the devices receive through a
publisher socket, one topic per SpaceWire protocol. Paths below are relative to
the repository root (`src/ZMQServer.cpp` is the server).

## 1. The system

### Components

| component | source | state | operations |
|---|---|---|---|
| packet queue | `src/PacketQueue.hpp` | a bounded FIFO of `spw_packet` (128), a closed flag | add (waits for space), take (waits for a packet), close, closed, size |
| SpaceWireBridge | `src/SpaceWireBridge.hpp` | one device, a sending queue, a pointer to the shared publish queue, two threads | constructor, `send`, destructor, `receiving_thread`, `sending_thread` |
| SpaceWireBridges (registry) | `src/SpaceWireBridges.hpp` | the constructors registered by type, the loaded bridges by name | `register_ctor`, `setup`/`load_bridge`, `send`, `teardown` |
| ZMQServer | `src/ZMQServer.hpp`, `src/ZMQServer.cpp` | two sockets, `m_running`, `received_packets`, two threads | `start`, `loop` and its SIGINT handler, `close`, `handle_requests`, `publish_packets` |
| server program | `src/main.cpp` | the configuration | `load_config`, then server, setup, loop, teardown, `~ZMQServer` |
| ZMQClient | `src/ZMQClient.hpp` | a REQ and a SUB socket, one queue per topic or one for all, a thread | `send_packet`, `get_packets`, `has_packets`, `subscription_thread` |
| topics and messages | `src/SpaceWireZMQ.hpp` | none | `to_type`, `to_string`, `end_of_topic`, `to_message`, `to_packet` |
| STAR-Dundee bridge | `src/bridges/` , `src/callable.hpp` | a device, two channels, each with a locked list filled by a driver callback | the `ISpaceWireBridge` methods, the receive callback |
| configuration | `src/config/` | a dictionary | JSON and YAML loading |
| zmq objects | `subprojects/cppzmq/zmq.hpp` | the handle in each `context_t`, `socket_t`, `message_t` | construction, moves, swaps, copies, close, destruction, send, receive |

### How they interact

    client --REQ--> handle_requests --send--> registry --add--> sending queue --> sending_thread --> device
    client <--SUB-- publish_packets <--take-- publish queue <--add-- receiving_thread <-- device

Everything runs in one process, on the main thread, the request thread, the
publisher thread and two threads per bridge, with no lock but those of the
queues:

 * the publish queue (`ZMQServer::received_packets`) is shared by the receiving
   threads of all the bridges and by the publisher thread; closing it is the only
   way to end a receiving thread;
 * the registry is written by the main thread (`setup`, `teardown`) and read by
   the request thread (`send`), unlocked;
 * `close` is called on the main thread, from the SIGINT handler or from
   `~ZMQServer`, and joins the request and publisher threads;
 * a bridge's destructor closes its sending queue and joins both of its threads;
   it returns only if the publish queue was closed before.

### What is hard here

Two bounded queues between four kinds of threads (who is blocked on what when
the server closes), a flag tested apart from the queue it stands for, a reply
sent before the work is done, a registry filled while it is read, a shutdown
that runs inside a signal handler and again in a destructor, and polling loops
that only look at the stop flag when the traffic pauses. In the client, one
thread fills bounded queues that nobody may be reading; in the STAR-Dundee
bridge, driver callbacks share one static closure, and packet data of the driver
change hands three times before they are given back. Between the two programs, a
subscription takes effect some time after it was set, a closed socket lingers,
and a context cannot go before its sockets. `PROJECT.json` lists these hazards one by one, each at its line, with the properties that watch it.

### What makes each component correct

 * queue: never over capacity, FIFO, no add or take stays blocked once closed;
 * bridge: what `send` was given reaches the device, what the device received
   reaches the publish queue, each once and in order; the destructor leaves no
   thread behind;
 * registry: a packet goes to the bridge it names or is dropped, and never to a
   bridge under construction or destruction;
 * server: a packet replied to "ok" is given to its bridge; what is published is
   what the devices received, in order, less the protocols without a topic; SIGINT
   ends the program, with every thread joined before what it uses dies;
 * client: each topic reaches the readers of its own queue, complete and in
   order; `get_packets` takes only what is there; the destructor returns;
 * STAR-Dundee bridge: each channel's packets are received once, in order, and the
   device looks to its SpaceWireBridge as the mock one does: a packet it announces
   can be received without waiting; packet data are given back once;
 * configuration: the file that `--config` names is loaded, and a setting means the same in
   YAML and in JSON;
 * zmq objects: every context and every socket has one owner at any time, and a
   content lives as long as a message or a socket holds it;
 * the whole: a client misses nothing that its device sent after its subscription
   took effect, its calls return while there is a server, and the program ends.

## 2. The modules

    Relay          what a path promises: FIFO, exactly once, may stop
    PollLoop       the loop of three threads (MCPollLoop)
    Histories      filters and elements of histories (HistoriesProofs)
    PacketQueue    the queue, as a value with its operations (PacketQueueProofs)
      |-- SpaceWireBridge        the bridges and their threads (MCSpaceWireBridge, SpaceWireBridgeProofs)
      |     `-- SpaceWireBridges    the registry: setup, send and teardown
      |           `-- ZMQServer        the whole server and its clients (MCZMQServer, ZMQServerProofs)
      `-- ZMQClient              the client (MCZMQClient, ZMQClientProofs)
    StarDundee     the STAR-Dundee bridge and its callbacks (MCStarDundee, StarDundeeProofs)
    CppZmq         the zmq objects and who owns what (MCCppZmq, CppZmqProofs)
    Topics         topics, frames and packets      \
    Config         YAML and JSON settings           }-- with CppZmq, Histories: Program (MCProgram, ProgramProofs)

Indentation is EXTENDS; the histories of SpaceWireBridge, ZMQClient, StarDundee and
Program are those of Histories. SpaceWireBridge, ZMQServer, ZMQClient and StarDundee
instantiate Relay, and ZMQClient PollLoop, with a refinement mapping. Program EXTENDS
CppZmq, Topics and Config: it composes a server and a client at the level of
their zmq objects, where ZMQServer and ZMQClient have the detail of the threads.

**PacketQueue.** The `channels` library is not in the repository, so the queue is
what its users rely on. A blocked `add` is an action that is not enabled:
`AddReturns` says when it is. `take` on a closed queue may return a remaining
packet or the empty optional: both are allowed, as callers handle both.

**SpaceWireBridge.** A step of a thread is the code between two accesses to
something another thread may change. `receiving_thread` stands at `while`
(testing `closed()`), `poll` (asking the device) or `add` (a packet in hand, maybe
waiting for space); `sending_thread` at `while`, `take` or `transmit`. The two
joins of the destructor are actions of their own, since the threads go on in
between. The device is the one of the tests (`tests/common/MockBridge.hpp`): it
records what it is sent and sends back the packets whose first byte is its
redirect value (`Loopback`). Its std::queue is unsynchronized in the test code;
the model takes each of its operations as atomic. `Arrive` adds packets the link
brings by itself, as for a real device. The history variables (`accepted`,
`arrived`, `forwarded`, `captured`, `taken`) record what each stage was given and
guard nothing. `BridgeNext` is the most general caller: construct, send, destroy,
take from the publish queue and close it, at any time.

**SpaceWireBridges.** `loaded_bridges[bridge_id] = std::move(bridge)` is two
steps, as `operator[]` inserts a null pointer first. `send` is two steps:
`contains`, then `operator[]` and `send`. A lookup while the entry is being made
may or may not see it. `teardown` runs the destructors one after the other; the
order of an `unordered_map` is arbitrary.

**ZMQServer.** The clients in `Patient` send only once the bridges are loaded, the others
at any time. `main_thread` follows `main`, `close_place` follows `close` on
the main thread, `req_thread` and `pub_thread` the two workers. The second SIGINT
is delivered to a worker, since the kernel blocks the signal for the thread that
runs the handler; that worker's `close` then joins itself, which throws: the
process ends (`crashed`). A client is a REQ socket: send, wait for the reply, send
the next. The reply, and the packet's arrival at `SpaceWireBridges::send`, are one
step (`ReqServe`): nothing another thread reads changes in between.

**PollLoop.** `handle_requests`, `receiving_thread` and `subscription_thread` are
the same loop: handle messages while there are any, and test the stop condition
after 100 empty polls in a row. The module states it once, with a source of
messages that never has to pause. The client's thread is checked and proved to
implement it (`SubscriptionPolls`); the loops of the other two have the same shape
in their modules (`ReqCheck`, `ReqMiss`, `ReqServe`; `RecCheck`, `RecMiss`,
`RecReceive`).

**ZMQClient.** The constructor subscribes topic by topic (`Subscribe`: messages may
arrive from then on) and starts the thread (`Run`). The thread stands at `while`,
`poll` or `store` (a message in hand, maybe waiting for space in its queue). The
users' `get_packets` is a test of the size and a take, with other steps in
between; `send_packet` is a call that waits for a reply, which may never come,
on a socket that one thread uses at a time. A user destroys the client when none
is in a call: `DestroyStop`, one `DestroyClose` per queue, `DestroyJoin`. A topic is
its enumerator, which is also its index in `topics::strings::table`; `UNKNOWN` is
the index after the table. The topic policy is the variable `merge`, any of `Policies`, fixed at the start.
`m_topic_enabled` is written at the index of the topic whatever its size: with
`merge_all_topics`, which has one element, every topic but RMAP lies behind the
array, and so does `UNKNOWN` with one queue per topic. Those bytes are padding
before the queues and are not initialized: the model gives them any value at
the start. A message that is lost, or published before its subscription, is
one that never arrives. Assertions are enabled (`StoreAsserts` ends the process).

**StarDundee.** `MakeDevice` is the search for the device by its serial number (any
list in `DeviceLists`, the last match is taken) and `set_speed` of each port; without
a device there are no channels. `Open` is the opening of a channel with the
registration of its callback; `closure` is `staticClosureCopy`, which only the first
call of `generatePointer` initializes. The driver ends a submitted operation with
a packet (`Complete`) or without (`Fail`) and runs the callback: `Push` moves the
packet into the list of the channel the closure knows, `Submit` submits the
operation of that channel. The receiving thread polls `packet_received` over all
the channels (`Poll`), then `receive_packet` moves a packet out of a list (`Receive`)
and copies its data (`Copy`); the list is chosen by the port of a default
constructed packet, any value in `Ports`, and with a port that is no channel an
empty packet is returned (`ReceiveNothing`, recorded in `empty_received`). `destroyed` counts how often the data of each packet was
given back: by every `ManagedRawPacketBuffer` that is destroyed with data, the ones
that were moved from included. `SendPacket` runs on the sending thread, so at any
time while the bridge is there. The destructor closes channel by channel
(`CloseChannel`), and what is left in a list goes with it. The STAR-API is external;
the module's header says what is assumed of it.

**CppZmq.** The objects of cppzmq are sets, and what libzmq hands out are handles:
`ptr`, `_handle` and `msg` say which object holds which. Every constructor, move,
assignment, swap, `close`, destructor, `rebuild`, `copy`, `send` and `recv` that the
program's calls reach is one action, on any objects, in any order: `ZmqNext` is the
most general caller. libzmq is external: a closed socket lingers while it has
something to deliver (`Flush`), `zmq_ctx_destroy` waits until a context has no
socket left, contents are reference counted.

**Topics.** The table of topics, `to_type`, `to_string`, `end_of_topic` with its limit of
16, and the messages as sequences: the topic's characters, then the image of the
packet. The archive of yas is external: a header, the data, the two other fields.

**Config.** A parsed document is a function from paths to nodes, each with the kind a
JSON author marks and its text. `str_type` with its three expressions as sets of
texts, `_handle_scalar`, which throws where `node.as` does, `_load_config` of JSON,
where a number that is too large keeps its low bits (`ToInt`), and the lookups
`to<int>(default)` and `cfg[key]`. Below a map, null and sequences are left empty by both
readers. At the root they differ: YAML dispatches the root like any other node, JSON iterates
over its items whatever it is, so that an array gives the keys "0", "1" and so on and a scalar
the empty key (`ItemNodes`, `from_json`).

**Program.** A server's process and a client, as `main` makes them (two processes)
or the manual test (`manual_tests/star_dundee/main.cpp`: one thread makes both and
ends both). A constructor or destructor is a script of operations on zmq objects,
unnamed temporaries included, each an action of CppZmq (`Step`), so that the other
side, the network and a failing `bind` come in between. A `bind` that fails throws out of
the constructor: nobody catches it in `main`, and the process dies; in the manual test Catch2
does, after the members that were constructed have been destroyed (`BindFails`).
`ZMQRMAPClient` has a context of its own beside the one of ZMQClient (`OwnCtx`), made after
it and destroyed before it. `Carry` is libzmq's I/O
thread: a request waits for its server, a published frame is dropped when there is
no subscriber for it. `SubscriptionArrives` is when the publisher learns of the
subscription. The worker threads stand where they touch a socket or the queue; the
bridges, which other modules detail, answer each packet with itself.

**Relay.** The abstract promise, one per channel: what comes out is a prefix of
what went in. The runs check it of the path from client to device
(`TransmitsInOrder`), of the path from device to publisher socket (`PublishedInOrder`)
and of each queue of the client (`TopicsInOrder`); it is proved of all three, and of the
sending side of a bridge and of the publish queue (`ServerRefinesRelay`,
`ServerPublishesInOrder`, `ClientRefinesRelay`, `SendRefinesRelay`, `PublishRefinesRelay`).

Operators under a comment `Fault:` are plausible bugs of the definition that
follows them. No specification uses them: each is substituted for its
definition to see that a property notices.

## 3. The runs

Queues have capacity 1 or 2 (instead of 128) so that "full" is reached with the second
or third packet, and a polling loop sleeps after 1 or 2 empty polls (instead of 100):
the code makes no difference between the 2nd and the 100th.

| run | instance | shows |
|---|---|---|
| `bridge_safety` | two bridges, one of which is given three packets, each one of two that come back; its link brings one to the other; capacity 2, `MaxTries` 1 | types and capacity; between `send` and the device nothing is lost, repeated or reordered; order per bridge across interleaved receivers; joins |
| `server` | two names configured of which one has a constructor, a client with two packets that waits for setup, one with a third packet that does not, all for the loaded bridge, whose device sends them back; one of the packets has no topic; capacity 1, up to two SIGINT | the process dies of findings 1 and 2 and of nothing else; acknowledged = accepted by the bridge; client to device and device to publisher socket refine `Relay`; no request to a dying bridge, no socket used after close, a clean exit; SIGINT ends the program, until then requests are answered, although the sending queue fills, what a bridge accepted is transmitted and what arrives published |
| `null_bridge` | as `server`, no client waits for setup, no SIGINT | VIOLATED: a request during setup is forwarded through a null pointer |
| `second_sigint` | as `server`, both clients wait for setup | VIOLATED: a second SIGINT aborts the process |
| `poll_endless` | `MaxTries` 5, up to 6 messages waiting | VIOLATED: with traffic that never pauses, a loop told to stop never ends |
| `client_topics` | both policies, two topics, three messages, two users, subscriptions to both topics or to one and `UNKNOWN`, `MaxTries` 2 | order per queue (`Relay`); the only reader of a queue never waits in `take`; the assertion holds without `UNKNOWN`; `PollLoop`; a blocked thread does not keep the destructor from returning; what arrives is delivered if every queue keeps being read |
| `star_first` | two channels, three packets, four calls of `send_packet`, two of them on one channel, port 0 or no channel, three device lists | per channel no packet lost, repeated or reordered; data given back once; `receive_packet` never waits; what `send_packet` accepted is sent, if there is a device and data; the first channel keeps being served once the port stays 0 |
| `star_second` | the same, port 0 or 1 | VIOLATED: `receive_packet` waits on the empty list of the second channel |
| `star_callback` | the same, port 0 | VIOLATED: the callback of the second channel works on the first one |
| `cppzmq` | two objects of each kind, three handles, one message in a socket and side | one owner per handle, no use of a context that is gone, exact reference counts |
| `config_file` | as `program`, one call | VIOLATED: the server is constructed with an empty configuration although the file exists |
| `program` | both programs, thirteen documents in two formats, three payloads, three calls, five handles | the formats agree on maps of plain texts; a client gets a part without gaps; calls return; after the subscription nothing is lost; the program ends |

Two bridges and two clients are what it takes for one to be held back or
overtaken by another; two packets on one path are what it takes to lose, repeat
or swap, three to leave a gap; two topics and two channels what it takes to mistake one for another;
capacity 1 with three packets makes both queues of the server full with a thread
waiting behind each, the request thread among them. Two objects are what a move, an assignment and a swap need;
three handles let a context, a socket and a content be open at once, or two of a
kind. `MaxOut` bounds what waits in a socket. In `program`, libzmq's handles are
given out least first (`LeastFirst`: nothing depends on their values), and the
constructors of the two processes, which share nothing, do not interleave
(`OneConstructor`), and of the three calls only the second may be for a packet off the
client's topic (`OffTopicSecond`), so that three packets of the topic come back and one
of another topic may come between two of them; `MaxCalls` bounds the calls of `send_packet`, so the PUB socket's
high-water mark is never reached; what is sent is one of the frames of
the packets and the reply (`Bytes <- Frames`, as Program assumes); INT_MAX is 32767 (`IntMax`), which makes 70000 the
number that does not fit. `MaxSent` bounds the calls of `send` on each bridge in the
runs of the bridge alone; in the server the clients' scripts do.

**Fairness.** Weak fairness on each thread of the process: the operating system
schedules a thread that can run, and a queue wakes who waits on it. Nothing is
assumed of the clients, the link, SIGINT, or of the caller of a destructor. The
clients of `server` send finitely many packets: the liveness of the close
depends on that (finding 3). In the client: weak fairness on its thread, on the
destructor once it has begun and on a `get_packets` in progress; nobody has to
call anything. That the users keep reading every queue is a hypothesis of
`DeliveredIfRead`, written in it (`ReadsGoOn`): without it one topic nobody reads
blocks the thread and with it all the others. In the STAR-Dundee bridge: weak
fairness on the receiving thread and the callbacks, and strong fairness on
`Complete`, as an operation that failed each time it was submitted would
receive nothing. `FirstChannelServed` has the hypothesis that the uninitialized
port is 0 from some point on. In Program: weak fairness on every thread, libzmq's
included, as long as its peer is there; nobody has to press Ctrl-C, to call, to wait
for packets or to finish.

**Findings.**

1. `null_bridge`. The request thread runs before `setup` (it is started by the
   constructor of the server), and `load_bridge` inserts a null pointer before it
   assigns the bridge. A request in between finds the entry and calls `send` on
   a null pointer, where the code means to log "Unknown bridge ID {}, dropping
   packet." (`src/SpaceWireBridges.hpp:79`). The model keeps to this window; the
   insertion can also rehash the table under the reader, which is worse and not
   modelled further.
2. `second_sigint`. `close` runs in the handler of SIGINT and joins threads; a
   second SIGINT meanwhile is handled on a worker and aborts the process, where the
   code means "SIGINT received closing..." (`src/ZMQServer.cpp:57`).
3. `poll_endless`. The three polling loops leave their inner loop only after 100
   empty polls in a row. As long as requests keep coming, `close`, called by the
   SIGINT handler, waits in `join` for ever (`src/ZMQServer.cpp:140`).
4. `star_second`. `packet_received` adds up all the channels, `receive_packet` reads
   one, chosen by an uninitialized port (`src/bridges/StarDundee.cpp:51`). With
   port 1 the receiving thread waits for ever; the comment on that wait says "to
   avoid this, only call receive packet when packet queue isn't empty"
   (`src/bridges/StarAPI.hpp:224`).
5. `star_callback`. `generatePointer` "makes a copy of the closure"
   (`src/callable.hpp:30`), but only of the first of its type: the second channel's
   packets go to the first channel's list, its own operation is not submitted
   again, and it receives no more than one packet.
6. `config_file`. `path::extension` keeps the dot, `load_config` compares without it
   (`src/main.cpp:36`): no configuration file is ever read, the program has no bridge, drops
   every packet, and listens on the default ports, although `--config` is the "Configuration
   file path" (`src/main.cpp:52`) and the log says "Loadding config file {}"
   (`src/main.cpp:71`).

More, without a violated run of their own:

 * `merge_all_topics`, as the test "An RMAP+CCSDS client with all topics in one queue"
   uses it (`src/tests/client/main.cpp:113`), writes and reads `m_topic_enabled` past its
   end (`src/ZMQClient.hpp:143`).
 * A subscription to `UNKNOWN` is one to the empty prefix, hence to every topic, but
   enables none of them: the first message fails the assertion at
   `src/ZMQClient.hpp:75`. `AssertHolds` excludes that subscription.
 * With a port that is no channel, `STARDundeeBridge::receive_packet` returns an empty packet
   that never arrived (`src/bridges/StarDundee.cpp:50`). `receiving_thread` adds it to the
   publish queue like any other (`src/SpaceWireBridge.hpp:85`), and `publish_packets` looks for
   the protocol in its data, of which there are none (`src/ZMQServer.cpp:90`). StarDundee
   records the ports for which that happens; ZMQServer, whose device is the mock one, has no
   packets without data.
 * A client's call of `send_packet` right after its constructor may be answered before
   the subscription has taken effect, and its answer is lost: the tests send at once and expect
   all ten packets (`src/tests/client/main.cpp:74`), and the manual test then waits for
   ever in `while (!client.has_packets())`. `SubscribedIsServed` counts from the moment the
   subscription is effective.
 * YAML and JSON differ on texts that are not plain: `false`, which YAML makes a string,
   the empty string and the word `bool`, which throw, a quoted number, which YAML reads as
   a number, and an int that overflows, where YAML throws and JSON keeps the low bits
   (`Plain` in Config excludes them from `FormatsAgree`), and on documents whose root is not a
   map (`SameInBoth` asks for one).
 * `STARDundeeBridge::send_packet` is true for any port there is, also without a device, and
   for a packet without data: neither sends anything (`AcceptedIsSent` excludes those).

## 4. The proofs

The theorems hold for every set of bridges, packets, clients, channels and handles,
every script, every queue capacity and number of tries, under the named assumptions
next to the constants. Every invariant that a passing run checks is proved. Each is
conjoined with what it needs to be inductive; the conjuncts that only the proofs need
are in the proof modules.

Two theorems have a hypothesis of their own: `AckedReachesBridge` and `ServerRefinesRelay`
assume `DistinctScripts`, that two clients send no identical packet, since the packets of a
path are told apart by their identity. Both are about the packets of the clients that wait
for setup (`Patient`), while the others do as they like: a packet acknowledged before its
bridge is loaded may be dropped, as the code means it to be.

*Histories* (`HistoriesProofs`). What a place did is a sequence, and most conservation
laws say what its `Filter` by a bridge, a channel or a topic is. `Filter` is a recursive
function, and the induction theorems of the library cannot be instantiated, as they have
a predicate for parameter. So the module derives induction over the natural numbers and
over sequences for *sets* (`InductionNat`, `InductionSeq`: a set with `<<>>`, closed under
`Append`, holds every sequence), from the well-foundedness of strict inclusion on finite
sets, and that recursive functions exist (`RecursionNat`). `FilterAppend`,
`FilterConcat`, `FilterWithin` and the lemmas on `Elements` and `NoRepeats` follow.
`PacketQueueProofs` has the lemmas on queues and on what is in flight (`Pipeline`).

*Bridges.* `BridgeTypeOK` is inductive by itself (`BridgeTypeCorrect`). It says
more than types: a thread holds a packet exactly where its code has one in hand,
which is what the conservation laws need. `SendConservation`,
`ReceiveConservation` and `PublishConservation` are each inductive over it
(`SendConserves`, `ReceiveConserves`, `PublishConserves`): each says that what
went in is what went out, followed by what is in hand, followed by what waits;
each step moves one boundary of that concatenation. `DestructorJoins` is
inductive too (`DestructorSafe`). From the laws follow the refinements of `Relay`
(`SendRefinesRelay`, `PublishRefinesRelay`): the next packet handed over is the
one at the next index of what was accepted, because the output is a prefix of it.
`BridgeOrderKept` proves `PerBridgeOrder` of the queue that all bridges share: a bridge
handles only its own packets (`OwnPackets`), and what its thread forwarded is the queue's
packets of that bridge, followed by what it added after the queue was closed
(`LosesLastOnly`: only the end of it is lost).

*Server.* `ServerTypeCorrect` needs `RegistryTypeOK`, `LifeTypeOK`,
`WorkersTypeOK` and `ClientsTypeOK` together. The lemma `ServerUsesBridges` says that the
server is one use of the bridges, so that the theorems about them can be cited here.
`ServerInvariant` proves
`ServerInv = CloseInv /\ RegistryInv /\ RequestsMeetLiveBridges`: none is
inductive alone. That no request meets a dying bridge depends on `close` having
joined the request thread before main leaves `loop` (CloseInv), and on an
entry of the registry standing for a living object until teardown (RegistryInv).
`SocketsSafe`, `ExitSafe` and `RequestsSafe` follow from it. `CrashesAreKnown` proves, of any
number of SIGINTs and of clients that send at any time, that findings 1 and 2 are the only ways
for the process to die: each crash needs the entry that `load_bridge` is assigning, or a
`close` that a first SIGINT started. `AckedReachesBridge`: what was answered "ok" for a loaded
bridge is, in order, what the bridge accepted, and a request between the reply and the call is
the next one. `ServerRefinesRelay` adds `SendConservation`, which the server has by
`ServerUsesBridges`: filtered by client, the pipeline of a bridge is a pipeline
(`FilterPipeline`), so that the device gets a prefix of what the client was promised. `ServerPublishesInOrder` is
the way back: `PerBridgeOrder`, which the server has by the same lemma, says what the publish
queue hands over of each bridge, and `PublisherHasTopics` that the publisher drops only what
has no topic.

*Client.* `ClientTypeCorrect`, `MessagesConserved` (socket to queue) and
`QueuesConserved` (queue to users) follow the same argument as the bridge's.
`AssertSafe`: what is in the socket, or in hand, is of an enabled topic, because
the constructor starts the thread only when it has enabled all it subscribed to
(`EnabledInv`), for either policy. `TakeSafe`: the only user that reads a queue finds
what it saw, since the thread only adds and the queues are closed only when nobody
is in a call; with two readers of one queue that is false, and the property does
not claim it. `SubscriptionImplementsPollLoop` is the refinement of `PollLoop`,
action by action. `ClientRefinesRelay` is that of `Relay` by each queue, from the link to
the users: what was stored of a queue's messages is what the queue took in, followed by
what came after the destructor closed it (`DropsLastOnly`).

*STAR-Dundee.* `StarTypeCorrect`, and `PollingFindsPacket`: if the uninitialized port
names no channel but the first, `receive_packet` never waits, for any traffic and
any number of channels. The invariant behind it (`FirstListOnly`) is that the
closure is the first channel's, so that all packets are in its list: the fault
of finding 5 hides the one of finding 4. `ChannelsConserve` is `RxConservation`: each
channel's packets are in that one list, or on their way to it, each once and in order
(with `HandsInv`: data in hand only until they are copied, a list dropped only after the
thread ended). `DataDestroyedOnce` needs in addition that a packet is in one place
(`OnePlaceInv`): then a buffer's data are given back when it goes, and by nobody else.
`SendsWhatItAccepts` is `AcceptedIsSent`, with `SendingInv`: the channels of a device are
open from the end of the constructor to the destructor.

*zmq objects.* `ZmqInvariant` proves `ZmqInv`, the conjunction of `ZmqTypeOK`,
`ContextsOwned` and `SocketsOwned`, for any number of objects and handles, one step per
operation: each is a permutation of who holds what, or opens or closes one handle.
None is inductive alone: that a context outlives its sockets needs `ctxptr` to name an
open context, and a move needs that a dead object holds nothing. `ContextsHaveOwners`
and `SocketsHaveOwners` follow. `ContentsHaveHolders` proves that reference counts are
exact (`CountInv`): the messages and the places in queues that hold a content are a
finite set, which an operation changes by one element or leaves alone.

*Frames and configuration.* `FramesAreCutRight`: `end_of_topic` finds the end of every
topic of the table, whatever image follows it, because a topic has a slash at either
end, none between, and is shorter than `max_size` (`IsName`, `EndOfName`).
`PacketsSurvive` follows for `to_message` and `to_packet`, and
`SubscriptionsSelectTheirTopic` too: if one topic began a frame of another, the frame
would end in two places. `PlainDocumentsAgree` says of every document what
`FormatsAgree` checks of thirteen: if its root is a map and its texts are plain, each scalar is
typed from its text as JSON marks it, and a number that fits in an int keeps its value under
`ToInt`. What else it assumes is what the parsers give (`DocumentOK`). `ReadersAgree` carries
it to every state of a run.

*The whole program* (`ProgramProofs`). Three invariants, each on top of the one before.

 1. `ProgramInv` (with `ThreadsInv`: `ProgramTypeCorrect`). Every operation of a script is
    one of CppZmq (`PerformIsZmq`), so `ZmqInv` and `CountInv` hold here too. To that come:
    a member holds nothing or a socket of its type, an unnamed socket exists exactly before
    it is moved, which a script does at once (`MembersInv`, `Paired`); what is on a socket is
    what its type sends and receives (`WireInv`); and what a frame holds is a packet
    (`PacketsInv`, from `PacketsSurvive`).
 2. `LifeInv`. There is one publisher at most; the subscriber is attached only while it has
    its socket; nothing lies at it before its subscription is effective. It depends on the
    order of the operations that are left in the scripts (`ServerOrder`, `ClientOrder`: no
    second publisher, no move after `connect`, no `connect` after `subscribe`).
 3. `FlowInv`. All that the bridges returned of the topic is `X \o got \o Y`: what the client
    missed, what it has, and, while it listens, exactly what is coming (`Coming`: the frames at
    its socket, then those of its topic in the publisher's socket and in the publish queue). As
    long as the subscription is not effective it has got nothing, and `X` grows; afterwards `X`
    is fixed. `NoGaps` follows (`PacketsArriveWithoutGaps`).

`NoGaps` is the property with most behind it: it needs the frames to be cut right, the
counts to be exact (a content freed early could be replaced in the queue), the handles to
have one owner, and the constructors to do things in their order.

*Model-checked only.* The liveness properties `ShutdownCompletes`, `RequestIsServed`,
`AcceptedIsTransmitted`, `ArrivedIsPublished`, `ClientDestructorReturns`,
`DeliveredIfRead`, `FirstChannelServed`, `CallReturns`, `SubscribedIsServed` and
`ProgramEnds`, as fairness is out of the prover's reach, and the six violations, which are
counterexamples. The restrictions `LeastFirst`, `OneConstructor` and `OffTopicSecond` of
`MCProgram` are for TLC only: the theorems are about `Spec`.

## 5. What is not modelled

 * `m_running` is a plain `bool` read and written by several threads; every read in a
   loop follows calls into libzmq or a lock, and the model reads it afresh.
 * The loss of a REQ client's reply: `send_packet` has no timeout, so a client whose
   server is gone waits for ever (`Reply` is not fair).
 * In the STAR-Dundee bridge, a channel that fails to open although there is a device,
   and the other transfer operations of `StarAPI.hpp` that the bridge does not use. A
   callback of the second channel after the first one was destroyed, which the closure
   of finding 5 makes possible, writes to freed memory in the code and to a list nobody
   reads in the model. `dispose_rx_callback` is never called.
 * Of cppzmq, what the program does not use: socket options other than the subscription,
   `poll` and the pollers, `proxy`, monitors, and the multipart messages of
   `zmq_addon.hpp`; the errors libzmq may return from a call that is modelled as
   succeeding; in Program, the message objects of a call, which do not outlive it.
 * The REQ socket's own protocol (`m_requests` is used by one thread at a time, and the
   model sends only in the place of the code that does); the PUB high-water mark; a lost
   connection.
 * In the manual test, the packets of `ZMQRMAPClient`, which are one client's requests
   and answers like any other, and its two own sockets, which never hold a handle.
 * What becomes of the empty packet of `receive_packet` once it is in the publish queue (see
   "More" above).
 * SIGINT before `loop` installed its handler (it ends the process, nothing to
   say) and SIGINT during `~ZMQServer` (a nested `close` that finds everything
   done). A second SIGINT when only bridge threads are left to handle it is left
   out as well.
 * `set_configuration` and `configuration`, which pass their argument on.
 * An exception other than the ones above (a malformed message).
 * The parsers, cppdict, yas, argparse, spdlog and libzmq are what their users rely on.

## 6. Plan

The server came first, being where the threads meet, then the client, the
STAR-Dundee bridge, the zmq objects and the composition of the two programs; then the
proofs of all the invariants. What is left, in order:

1. From `PacketsArriveWithoutGaps` to a refinement of `Relay` by the packets that come after the
   subscription took effect.
2. The safety half of what the liveness properties rest on: that no thread is left waiting
   when the server or the client has closed its queues.
3. `StarDundee` in place of the mock device: that its `packet_received` and
   `receive_packet` implement the device `SpaceWireBridge` assumes, as long as the
   port is 0.
