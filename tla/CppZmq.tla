-------------------------------- MODULE CppZmq --------------------------------
(***************************************************************************)
(* The objects of cppzmq (src/subprojects/cppzmq/zmq.hpp) that the server   *)
(* and the client are made of: context_t, socket_t and message_t own what   *)
(* libzmq gives out by handle, and pass it on when they are moved, swapped, *)
(* closed, sent or destroyed.                                               *)
(*                                                                         *)
(* libzmq is external.  Its contexts are a set of handles; a socket keeps   *)
(* what was sent on it until its peer has it, even after it was closed (the *)
(* default ZMQ_LINGER), and a context can be destroyed only once it has no  *)
(* socket left, open or lingering.  The content of a message is shared by   *)
(* the copies of the message, counted, and freed with the last of them.     *)
(***************************************************************************)
EXTENDS Integers, Sequences, FiniteSets

CONSTANTS
  Contexts, Sockets, Messages,   (* the C++ objects                         *)
  Handles,                       (* what libzmq gives out                   *)
  Types,                         (* of sockets                              *)
  nullptr,                       (* no handle                               *)
  Bytes                          (* contents of messages                    *)

ASSUME ZmqAssumption ==
  /\ nullptr \notin Handles
  /\ Contexts \cap Sockets = {} /\ Contexts \cap Messages = {} /\ Sockets \cap Messages = {}

VARIABLES
  alive,       (* the objects that were constructed and not destroyed       *)
  ptr,         (* of a context_t                                            *)
  _handle,     (* of a socket_t                                             *)
  ctxptr,      (* of a socket_t                                             *)
  msg          (* the content of a message_t, nullptr when it is empty      *)

(* libzmq. *)
VARIABLES
  zmq_contexts,   (* handles of the contexts                                *)
  zmq_sockets,    (* of each handle: the socket, if it is one               *)
  zmq_contents    (* of each handle: the content, if it is one              *)

contextVars == <<ptr, zmq_contexts>>
socketVars == <<_handle, ctxptr, zmq_sockets>>
messageVars == <<msg, zmq_contents>>
zmqVars == <<alive, contextVars, socketVars, messageVars>>

Objects == Contexts \cup Sockets \cup Messages

NoType == "none"

NoSocket == [context |-> nullptr, type |-> NoType, open |-> FALSE, out |-> <<>>, in |-> <<>>]
NoContent == [refs |-> 0, bytes |-> <<>>]

ZmqInit ==
  /\ alive = {}
  /\ ptr = [c \in Contexts |-> nullptr]
  /\ _handle = [s \in Sockets |-> nullptr]
  /\ ctxptr = [s \in Sockets |-> nullptr]
  /\ msg = [m \in Messages |-> nullptr]
  /\ zmq_contexts = {}
  /\ zmq_sockets = [h \in Handles |-> NoSocket]
  /\ zmq_contents = [h \in Handles |-> NoContent]

Construct(object) == object \notin alive /\ alive' = alive \cup {object}
Destroy(object) == object \in alive /\ alive' = alive \ {object}

Swapped(f, a, b) == [f EXCEPT ![a] = f[b], ![b] = f[a]]

-----------------------------------------------------------------------------
(* context_t *)

zmq_ctx_new(h) == h \in Handles \ zmq_contexts /\ zmq_contexts' = zmq_contexts \cup {h}

CtxDestroyable(h) == \A s \in Handles : zmq_sockets[s].context # h

(* close: of the handle p; it blocks as long as there are sockets.          *)
CloseCtx(p) ==
  IF p = nullptr
  THEN UNCHANGED zmq_contexts
  ELSE CtxDestroyable(p) /\ zmq_contexts' = zmq_contexts \ {p}

ContextNew(c) ==
  /\ Construct(c)
  /\ \E h \in Handles : zmq_ctx_new(h) /\ ptr' = [ptr EXCEPT ![c] = h]
  /\ UNCHANGED <<socketVars, messageVars>>

ContextMove(c, rhs) ==
  /\ rhs \in alive
  /\ Construct(c)
  /\ ptr' = [ptr EXCEPT ![c] = ptr[rhs], ![rhs] = nullptr]
  /\ UNCHANGED <<zmq_contexts, socketVars, messageVars>>

(* Fault: what was there before is not closed. *)
ContextAssignNoClose(c, rhs) ==
  /\ {c, rhs} \subseteq alive
  /\ ptr' = [ptr EXCEPT ![c] = ptr[rhs], ![rhs] = nullptr]
  /\ UNCHANGED <<alive, zmq_contexts, socketVars, messageVars>>

ContextAssign(c, rhs) ==
  /\ {c, rhs} \subseteq alive
  /\ CloseCtx(ptr[c])
  /\ ptr' = Swapped([ptr EXCEPT ![c] = nullptr], c, rhs)
  /\ UNCHANGED <<alive, socketVars, messageVars>>

ContextClose(c) ==
  /\ c \in alive
  /\ CloseCtx(ptr[c])
  /\ ptr' = [ptr EXCEPT ![c] = nullptr]
  /\ UNCHANGED <<alive, socketVars, messageVars>>

ContextDestroy(c) ==
  /\ Destroy(c)
  /\ CloseCtx(ptr[c])
  /\ ptr' = [ptr EXCEPT ![c] = nullptr]
  /\ UNCHANGED <<socketVars, messageVars>>

ContextSwap(c, other) ==
  /\ {c, other} \subseteq alive
  /\ ptr' = Swapped(ptr, c, other)
  /\ UNCHANGED <<alive, zmq_contexts, socketVars, messageVars>>

ContextOp(c) ==
  \/ ContextNew(c) \/ ContextClose(c) \/ ContextDestroy(c)
  \/ \E other \in Contexts \ {c} :
       ContextMove(c, other) \/ ContextAssign(c, other) \/ ContextSwap(c, other)

-----------------------------------------------------------------------------
(* socket_t *)

IsSocket(h) == zmq_sockets[h].context # nullptr

(* A closed socket lingers until what was sent on it is gone. *)
AfterClose(socket) ==
  IF socket.out = <<>> THEN NoSocket ELSE [socket EXCEPT !.open = FALSE, !.in = <<>>]

CloseSocket(h) ==
  zmq_sockets' =
    IF h = nullptr THEN zmq_sockets ELSE [zmq_sockets EXCEPT ![h] = AfterClose(@)]

SocketDefault(s) == Construct(s) /\ UNCHANGED <<contextVars, socketVars, messageVars>>

(* zmq_socket fails, and the constructor throws, without a context. *)
SocketNew(s, c, type) ==
  /\ Construct(s)
  /\ c \in alive
  /\ ptr[c] # nullptr
  /\ \E h \in Handles :
       /\ ~IsSocket(h)
       /\ zmq_sockets' = [zmq_sockets EXCEPT ![h] =
            [context |-> ptr[c], type |-> type, open |-> TRUE, out |-> <<>>, in |-> <<>>]]
       /\ _handle' = [_handle EXCEPT ![s] = h]
       /\ ctxptr' = [ctxptr EXCEPT ![s] = ptr[c]]
  /\ UNCHANGED <<contextVars, messageVars>>

(* Fault: the moved-from socket keeps its handle. *)
SocketMoveKeeps(s, rhs) ==
  /\ rhs \in alive
  /\ Construct(s)
  /\ _handle' = [_handle EXCEPT ![s] = _handle[rhs]]
  /\ ctxptr' = [ctxptr EXCEPT ![s] = ctxptr[rhs]]
  /\ UNCHANGED <<zmq_sockets, contextVars, messageVars>>

SocketMove(s, rhs) ==
  /\ rhs \in alive
  /\ Construct(s)
  /\ _handle' = [_handle EXCEPT ![s] = _handle[rhs], ![rhs] = nullptr]
  /\ ctxptr' = [ctxptr EXCEPT ![s] = ctxptr[rhs], ![rhs] = nullptr]
  /\ UNCHANGED <<zmq_sockets, contextVars, messageVars>>

SocketAssign(s, rhs) ==
  /\ {s, rhs} \subseteq alive
  /\ CloseSocket(_handle[s])
  /\ _handle' = Swapped([_handle EXCEPT ![s] = nullptr], s, rhs)
  /\ ctxptr' = Swapped([ctxptr EXCEPT ![s] = nullptr], s, rhs)
  /\ UNCHANGED <<alive, contextVars, messageVars>>

SocketClosed(s) ==
  /\ CloseSocket(_handle[s])
  /\ _handle' = [_handle EXCEPT ![s] = nullptr]
  /\ ctxptr' = [ctxptr EXCEPT ![s] = nullptr]
  /\ UNCHANGED <<contextVars, messageVars>>

SocketClose(s) == s \in alive /\ SocketClosed(s) /\ UNCHANGED alive

(* Fault: the socket is destroyed without a close. *)
SocketDestroyOpen(s) == Destroy(s) /\ UNCHANGED <<socketVars, contextVars, messageVars>>

SocketDestroy(s) == Destroy(s) /\ SocketClosed(s)

SocketSwap(s, other) ==
  /\ {s, other} \subseteq alive
  /\ _handle' = Swapped(_handle, s, other)
  /\ ctxptr' = Swapped(ctxptr, s, other)
  /\ UNCHANGED <<alive, zmq_sockets, contextVars, messageVars>>

Connected(s) == s \in alive /\ _handle[s] # nullptr

SocketOp(s) ==
  \/ SocketDefault(s) \/ SocketClose(s) \/ SocketDestroy(s)
  \/ \E c \in Contexts, type \in Types : SocketNew(s, c, type)
  \/ \E other \in Sockets \ {s} :
       SocketMove(s, other) \/ SocketAssign(s, other) \/ SocketSwap(s, other)

-----------------------------------------------------------------------------
(* message_t *)

IsContent(h) == zmq_contents[h].refs > 0

(* A content with one reference less: it is freed with the last one.        *)
Less(content) == IF content.refs = 1 THEN NoContent ELSE [content EXCEPT !.refs = @ - 1]

(* The contents once a reference to h was dropped. *)
Unref(h, contents) == IF h = nullptr THEN contents ELSE [contents EXCEPT ![h] = Less(@)]

(* m gets a new content with these bytes, in place of the one it has. *)
Fill(m, bytes, contents) ==
  \E h \in Handles :
    /\ contents[h].refs = 0
    /\ msg' = [msg EXCEPT ![m] = h]
    /\ zmq_contents' = [contents EXCEPT ![h] = [refs |-> 1, bytes |-> bytes]]

(* data and size of a message_t. *)
data(m) == IF msg[m] = nullptr THEN <<>> ELSE zmq_contents[msg[m]].bytes

MessageDefault(m) == Construct(m) /\ UNCHANGED <<contextVars, socketVars, messageVars>>

MessageNew(m, bytes) ==
  /\ Construct(m)
  /\ Fill(m, bytes, zmq_contents)
  /\ UNCHANGED <<contextVars, socketVars>>

(* Fault: the moved-from message keeps its content. *)
MessageMoveKeeps(m, rhs) ==
  /\ rhs \in alive
  /\ Construct(m)
  /\ msg' = [msg EXCEPT ![m] = msg[rhs]]
  /\ UNCHANGED <<zmq_contents, contextVars, socketVars>>

MessageMove(m, rhs) ==
  /\ rhs \in alive
  /\ Construct(m)
  /\ msg' = [msg EXCEPT ![m] = msg[rhs], ![rhs] = nullptr]
  /\ UNCHANGED <<zmq_contents, contextVars, socketVars>>

(* Move assignment, swap and the swap function. *)
MessageSwap(m, other) ==
  /\ {m, other} \subseteq alive
  /\ msg' = Swapped(msg, m, other)
  /\ UNCHANGED <<alive, zmq_contents, contextVars, socketVars>>

MessageDestroy(m) ==
  /\ Destroy(m)
  /\ zmq_contents' = Unref(msg[m], zmq_contents)
  /\ msg' = [msg EXCEPT ![m] = nullptr]
  /\ UNCHANGED <<contextVars, socketVars>>

MessageRebuild(m) ==
  /\ m \in alive
  /\ zmq_contents' = Unref(msg[m], zmq_contents)
  /\ msg' = [msg EXCEPT ![m] = nullptr]
  /\ UNCHANGED <<alive, contextVars, socketVars>>

MessageRebuildAs(m, bytes) ==
  /\ m \in alive
  /\ Fill(m, bytes, Unref(msg[m], zmq_contents))
  /\ UNCHANGED <<alive, contextVars, socketVars>>

MessageTake(m, other) ==
  /\ {m, other} \subseteq alive
  /\ zmq_contents' = Unref(msg[m], zmq_contents)
  /\ msg' = [msg EXCEPT ![m] = msg[other], ![other] = nullptr]
  /\ UNCHANGED <<alive, contextVars, socketVars>>

MessageCopy(m, other) ==
  LET contents == Unref(msg[m], zmq_contents)
  IN  /\ {m, other} \subseteq alive
      /\ msg' = [msg EXCEPT ![m] = msg[other]]
      /\ zmq_contents' = IF msg[other] = nullptr THEN contents
                         ELSE [contents EXCEPT ![msg[other]].refs = @ + 1]
      /\ UNCHANGED <<alive, contextVars, socketVars>>

MessageOp(m) ==
  \/ MessageDefault(m) \/ MessageDestroy(m) \/ MessageRebuild(m)
  \/ \E bytes \in Bytes : MessageNew(m, bytes) \/ MessageRebuildAs(m, bytes)
  \/ \E other \in Messages \ {m} :
       \/ MessageMove(m, other) \/ MessageSwap(m, other)
       \/ MessageTake(m, other) \/ MessageCopy(m, other)

-----------------------------------------------------------------------------
(* socket_base: send and recv.                                              *)

Put(h, content) == [zmq_sockets EXCEPT ![h].out = Append(@, content)]
Got(h) == [zmq_sockets EXCEPT ![h].in = Tail(@)]

(* The socket gets the content, and the message is empty afterwards.        *)
Send(s, m) ==
  /\ Connected(s)
  /\ m \in alive
  /\ zmq_sockets' = Put(_handle[s], msg[m])
  /\ msg' = [msg EXCEPT ![m] = nullptr]
  /\ UNCHANGED <<alive, contextVars, _handle, ctxptr, zmq_contents>>

(* send of a buffer: libzmq makes a message of its bytes. *)
SendBuffer(s, bytes) ==
  /\ Connected(s)
  /\ \E h \in Handles :
       /\ ~IsContent(h)
       /\ zmq_contents' = [zmq_contents EXCEPT ![h] = [refs |-> 1, bytes |-> bytes]]
       /\ zmq_sockets' = Put(_handle[s], h)
  /\ UNCHANGED <<alive, contextVars, _handle, ctxptr, msg>>

HasInput(s) == Connected(s) /\ zmq_sockets[_handle[s]].in # <<>>

(* recv with a message: its old content goes. *)
Recv(s, m) ==
  /\ HasInput(s)
  /\ m \in alive
  /\ Fill(m, Head(zmq_sockets[_handle[s]].in), Unref(msg[m], zmq_contents))
  /\ zmq_sockets' = Got(_handle[s])
  /\ UNCHANGED <<alive, contextVars, _handle, ctxptr>>

(* recv with a buffer: what does not fit is dropped. *)
RecvBuffer(s) ==
  /\ HasInput(s)
  /\ zmq_sockets' = Got(_handle[s])
  /\ UNCHANGED <<alive, contextVars, _handle, ctxptr, messageVars>>

Flushed(h) ==
  LET rest == [zmq_sockets[h] EXCEPT !.out = Tail(@)]
  IN  [zmq_sockets EXCEPT ![h] = IF rest.open THEN rest ELSE AfterClose(rest)]

(* The I/O thread hands the oldest message of a socket over, and drops it.  *)
Flush(h) ==
  /\ zmq_sockets[h].out # <<>>
  /\ zmq_sockets' = Flushed(h)
  /\ zmq_contents' = Unref(Head(zmq_sockets[h].out), zmq_contents)
  /\ UNCHANGED <<alive, contextVars, _handle, ctxptr, msg>>

(* It brings a message to an open socket. *)
Deliver(h, bytes) ==
  /\ zmq_sockets[h].open
  /\ zmq_sockets' = [zmq_sockets EXCEPT ![h].in = Append(@, bytes)]
  /\ UNCHANGED <<alive, contextVars, _handle, ctxptr, messageVars>>

TransferOp(s) ==
  \/ \E m \in Messages : Send(s, m) \/ Recv(s, m)
  \/ \E bytes \in Bytes : SendBuffer(s, bytes)
  \/ RecvBuffer(s)

ZmqNext ==
  \/ \E c \in Contexts : ContextOp(c)
  \/ \E s \in Sockets : SocketOp(s)
  \/ \E m \in Messages : MessageOp(m)
  \/ \E s \in Sockets : TransferOp(s)
  \/ \E h \in Handles : Flush(h)
  \/ \E h \in Handles, bytes \in Bytes : Deliver(h, bytes)

ZmqSpec == ZmqInit /\ [][ZmqNext]_zmqVars

-----------------------------------------------------------------------------
(* Properties *)

OrNull(set) == set \cup {nullptr}

SocketRecord ==
  [context : OrNull(Handles), type : Types \cup {NoType}, open : BOOLEAN,
   out : Seq(OrNull(Handles)), in : Seq(Bytes)]

(* Every variable has its type, and only living objects hold a handle.      *)
ZmqTypeOK ==
  /\ alive \subseteq Objects
  /\ ptr \in [Contexts -> OrNull(Handles)]
  /\ _handle \in [Sockets -> OrNull(Handles)]
  /\ ctxptr \in [Sockets -> OrNull(Handles)]
  /\ msg \in [Messages -> OrNull(Handles)]
  /\ zmq_contexts \subseteq Handles
  /\ zmq_sockets \in [Handles -> SocketRecord]
  /\ DOMAIN zmq_contents = Handles
  /\ \A c \in Contexts \ alive : ptr[c] = nullptr
  /\ \A s \in Sockets \ alive : _handle[s] = nullptr
  /\ \A m \in Messages \ alive : msg[m] = nullptr

(* A context that libzmq holds is owned by exactly one context_t, and no    *)
(* context_t names a context that was destroyed: none leaks, none is        *)
(* destroyed twice.                                                         *)
ContextsOwned ==
  /\ \A c \in Contexts : ptr[c] # nullptr => ptr[c] \in zmq_contexts
  /\ \A c, d \in Contexts : ptr[c] = ptr[d] /\ ptr[c] # nullptr => c = d
  /\ \A h \in zmq_contexts : \E c \in Contexts : ptr[c] = h

(* The same of sockets, and the context of a socket, open or lingering, is  *)
(* there: it is destroyed only afterwards.                                  *)
SocketsOwned ==
  /\ \A s \in Sockets :
       /\ _handle[s] # nullptr => zmq_sockets[_handle[s]].open
       /\ _handle[s] # nullptr => ctxptr[s] = zmq_sockets[_handle[s]].context
       /\ _handle[s] = nullptr => ctxptr[s] = nullptr
  /\ \A s, t \in Sockets : _handle[s] = _handle[t] /\ _handle[s] # nullptr => s = t
  /\ \A h \in Handles : zmq_sockets[h].open => \E s \in Sockets : _handle[s] = h
  /\ \A h \in Handles : zmq_sockets[h].open => IsSocket(h)
  /\ \A h \in Handles : IsSocket(h) => zmq_sockets[h].context \in zmq_contexts

(* How many messages and how many places in the sockets hold a content. *)
Holders(h) ==
  LET places == UNION {{g} \X DOMAIN zmq_sockets[g].out : g \in Handles}
  IN  Cardinality({m \in Messages : msg[m] = h})
        + Cardinality({p \in places : zmq_sockets[p[1]].out[p[2]] = h})

(* A content is freed with its last holder, neither before nor never: the   *)
(* references libzmq counts are the messages and the sockets that hold it,  *)
(* and a message that has a content can be read.                            *)
ContentsCounted ==
  /\ \A h \in Handles : zmq_contents[h].refs = Holders(h)
  /\ \A m \in Messages : msg[m] # nullptr => data(m) \in Bytes
=============================================================================
