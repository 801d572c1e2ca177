----------------------------- MODULE CppZmqProofs -----------------------------
(***************************************************************************)
(* Who owns the handles of libzmq, for any number of objects: contexts and  *)
(* sockets first, then the contents of messages and their counts.           *)
(***************************************************************************)
EXTENDS CppZmq, FunctionTheorems, FiniteSetTheorems, TLAPS

ZmqInv == ZmqTypeOK /\ ContextsOwned /\ SocketsOwned

(* At first no object is alive. *)
LEMMA InitInv == ZmqInit => ZmqInv
BY ZmqAssumption
  DEF ZmqInit, ZmqInv, ZmqTypeOK, ContextsOwned, SocketsOwned, OrNull, SocketRecord, Objects, IsSocket,
      NoSocket, NoContent, NoType

(* What the operations on contexts leave to show of the sockets. *)
LEMMA ContextOpInv ==
  ASSUME ZmqInv, NEW c \in Contexts, ContextOp(c)
  PROVE  ZmqInv'
<1> USE ZmqAssumption
<1>1. CASE ContextNew(c)
  BY <1>1 DEF ContextNew, zmq_ctx_new, Construct, socketVars, messageVars, ZmqInv, ZmqTypeOK,
      ContextsOwned, SocketsOwned, OrNull, Objects, IsSocket
<1>2. CASE ContextClose(c)
  BY <1>2 DEF ContextClose, CloseCtx, CtxDestroyable, socketVars, messageVars, ZmqInv, ZmqTypeOK,
      ContextsOwned, SocketsOwned, OrNull, Objects, IsSocket
<1>3. CASE ContextDestroy(c)
  <2>1. ZmqTypeOK'
    BY <1>3 DEF ContextDestroy, Destroy, CloseCtx, CtxDestroyable, socketVars, messageVars, ZmqInv, ZmqTypeOK, OrNull, Objects
  <2>2. ContextsOwned'
    BY <1>3 DEF ContextDestroy, Destroy, CloseCtx, CtxDestroyable, socketVars, messageVars, ZmqInv, ZmqTypeOK, ContextsOwned, OrNull
  <2>3. SocketsOwned'
    BY <1>3 DEF ContextDestroy, Destroy, CloseCtx, CtxDestroyable, socketVars, messageVars, ZmqInv, ZmqTypeOK, ContextsOwned, SocketsOwned, OrNull, IsSocket
  <2> QED BY <2>1, <2>2, <2>3 DEF ZmqInv
<1>4. ASSUME NEW rhs \in Contexts \ {c}, ContextMove(c, rhs)
      PROVE  ZmqInv'
  <2>1. ZmqTypeOK'
    BY <1>4 DEF ContextMove, Construct, socketVars, messageVars, ZmqInv, ZmqTypeOK, OrNull, Objects
  <2>2. ContextsOwned'
    BY <1>4 DEF ContextMove, Construct, socketVars, messageVars, ZmqInv, ZmqTypeOK, ContextsOwned, OrNull
  <2>3. SocketsOwned'
    BY <1>4 DEF ContextMove, Construct, socketVars, messageVars, ZmqInv, ZmqTypeOK, ContextsOwned, SocketsOwned, OrNull, IsSocket
  <2> QED BY <2>1, <2>2, <2>3 DEF ZmqInv
<1>5. ASSUME NEW rhs \in Contexts \ {c}, ContextAssign(c, rhs)
      PROVE  ZmqInv'
  <2>1. ZmqTypeOK'
    BY <1>5 DEF ContextAssign, CloseCtx, CtxDestroyable, Swapped, socketVars, messageVars, ZmqInv, ZmqTypeOK, OrNull, Objects
  <2> DEFINE p == ptr[c]
  <2>a. ptr' = [x \in Contexts |-> IF x = c THEN ptr[rhs] ELSE IF x = rhs THEN nullptr ELSE ptr[x]]
    BY <1>5 DEF ContextAssign, Swapped, ZmqInv, ZmqTypeOK
  <2>b. zmq_contexts' = zmq_contexts \ {p}
    BY <1>5 DEF ContextAssign, CloseCtx, ZmqInv, ZmqTypeOK
  <2>2. ContextsOwned'
    <3> HIDE DEF p
    <3>1. \A d \in Contexts : ptr'[d] # nullptr => ptr'[d] \in zmq_contexts'
      BY <2>a, <2>b DEF ZmqInv, ContextsOwned, p
    <3>2. \A d, e \in Contexts : ptr'[d] = ptr'[e] /\ ptr'[d] # nullptr => d = e
      BY <2>a DEF ZmqInv, ContextsOwned
    <3>3. \A h \in zmq_contexts' : \E d \in Contexts : ptr'[d] = h
      <4> SUFFICES ASSUME NEW h \in zmq_contexts' PROVE \E d \in Contexts : ptr'[d] = h
        OBVIOUS
      <4>1. PICK d \in Contexts : ptr[d] = h
        BY <2>b DEF ZmqInv, ContextsOwned
      <4>2. d # c
        BY <4>1, <2>b DEF p
      <4> QED BY <4>1, <4>2, <2>a
    <3> QED BY <3>1, <3>2, <3>3 DEF ContextsOwned
  <2>3. SocketsOwned'
    BY <1>5 DEF ContextAssign, CloseCtx, CtxDestroyable, Swapped, socketVars, messageVars, ZmqInv, ZmqTypeOK, ContextsOwned, SocketsOwned, OrNull, IsSocket
  <2> QED BY <2>1, <2>2, <2>3 DEF ZmqInv
<1>6. ASSUME NEW other \in Contexts \ {c}, ContextSwap(c, other)
      PROVE  ZmqInv'
  <2>1. ZmqTypeOK'
    BY <1>6 DEF ContextSwap, Swapped, socketVars, messageVars, ZmqInv, ZmqTypeOK, OrNull, Objects
  <2>2. ContextsOwned'
    BY <1>6 DEF ContextSwap, Swapped, socketVars, messageVars, ZmqInv, ZmqTypeOK, ContextsOwned, OrNull
  <2>3. SocketsOwned'
    BY <1>6 DEF ContextSwap, Swapped, socketVars, messageVars, ZmqInv, ZmqTypeOK, ContextsOwned, SocketsOwned, OrNull, IsSocket
  <2> QED BY <2>1, <2>2, <2>3 DEF ZmqInv
<1> QED BY <1>1, <1>2, <1>3, <1>4, <1>5, <1>6 DEF ContextOp

(* A handle without a socket has the type of one, *)
LEMMA NoSocketType == NoSocket \in SocketRecord
<1>1. <<>> \in Seq(Bytes) /\ <<>> \in Seq(OrNull(Handles))
  OBVIOUS
<1> QED BY <1>1 DEF NoSocket, SocketRecord, OrNull

(* and so has a closed socket, whose context it keeps or forgets. *)
LEMMA AfterCloseFacts ==
  ASSUME NEW r \in SocketRecord
  PROVE  /\ AfterClose(r) \in SocketRecord
         /\ ~AfterClose(r).open
         /\ AfterClose(r).context \in {nullptr, r.context}
<1>1. CASE r.out = <<>>
  <2>1. AfterClose(r) = NoSocket
    BY <1>1 DEF AfterClose
  <2> QED BY <2>1, NoSocketType DEF NoSocket
<1>2. CASE r.out # <<>>
  <2>1. AfterClose(r) = [context |-> r.context, type |-> r.type, open |-> FALSE,
                         out |-> r.out, in |-> <<>>]
    BY <1>2 DEF AfterClose, SocketRecord
  <2>2. <<>> \in Seq(Bytes)
    OBVIOUS
  <2> QED BY <2>1, <2>2 DEF SocketRecord
<1> QED BY <1>1, <1>2

(* What closing a handle does to the sockets. *)
LEMMA CloseSocketFacts ==
  ASSUME zmq_sockets \in [Handles -> SocketRecord], NEW h \in OrNull(Handles), CloseSocket(h)
  PROVE  /\ zmq_sockets' \in [Handles -> SocketRecord]
         /\ \A g \in Handles \ {h} : zmq_sockets'[g] = zmq_sockets[g]
         /\ h # nullptr => /\ ~zmq_sockets'[h].open
                           /\ zmq_sockets'[h].context \in {nullptr, zmq_sockets[h].context}
<1>2. CASE h = nullptr
  BY <1>2, ZmqAssumption DEF CloseSocket
<1>3. CASE h # nullptr
  <2>1. h \in Handles /\ zmq_sockets' = [zmq_sockets EXCEPT ![h] = AfterClose(@)]
    BY <1>3 DEF CloseSocket, OrNull
  <2>2. zmq_sockets[h] \in SocketRecord
    BY <2>1
  <2> QED BY <2>1, <2>2, AfterCloseFacts
<1> QED BY <1>2, <1>3

(* The operations on sockets: a handle has one owner before and after.      *)
LEMMA SocketOpInv ==
  ASSUME ZmqInv, NEW s \in Sockets, SocketOp(s)
  PROVE  ZmqInv'
<1> USE ZmqAssumption
<1>1. CASE SocketDefault(s)
  <2>1. UNCHANGED <<contextVars, socketVars, messageVars>> /\ alive' = alive \cup {s}
    BY <1>1 DEF SocketDefault, Construct
  <2> QED
    BY <2>1 DEF contextVars, socketVars, messageVars, ZmqInv, ZmqTypeOK, ContextsOwned,
        SocketsOwned, Objects, IsSocket
<1>2. CASE SocketClose(s)
  <2>a. /\ _handle' = [x \in Sockets |-> IF x = s THEN nullptr ELSE _handle[x]]
        /\ ctxptr' = [x \in Sockets |-> IF x = s THEN nullptr ELSE ctxptr[x]]
    BY <1>2 DEF SocketClose, SocketClosed, ZmqInv, ZmqTypeOK
  <2>b. /\ zmq_sockets' \in [Handles -> SocketRecord]
        /\ \A g \in Handles \ {_handle[s]} : zmq_sockets'[g] = zmq_sockets[g]
        /\ _handle[s] # nullptr =>
             /\ ~zmq_sockets'[_handle[s]].open
             /\ zmq_sockets'[_handle[s]].context \in {nullptr, zmq_sockets[_handle[s]].context}
    BY <1>2, CloseSocketFacts DEF SocketClose, SocketClosed, ZmqInv, ZmqTypeOK
  <2>1. ZmqTypeOK'
    BY <1>2, <2>a, <2>b DEF SocketClose, SocketClosed, contextVars, messageVars, ZmqInv, ZmqTypeOK, SocketsOwned, OrNull, Objects
  <2>2. ContextsOwned'
    BY <1>2 DEF SocketClose, SocketClosed, contextVars, ZmqInv, ContextsOwned
  <2>c. UNCHANGED zmq_contexts
    BY <1>2 DEF SocketClose, SocketClosed, contextVars
  <2>3. SocketsOwned'
    BY <2>a, <2>b, <2>c DEF ZmqInv, ZmqTypeOK, SocketsOwned, OrNull, IsSocket
  <2> QED BY <2>1, <2>2, <2>3 DEF ZmqInv
<1>3. CASE SocketDestroy(s)
  <2>a. /\ _handle' = [x \in Sockets |-> IF x = s THEN nullptr ELSE _handle[x]]
        /\ ctxptr' = [x \in Sockets |-> IF x = s THEN nullptr ELSE ctxptr[x]]
    BY <1>3 DEF SocketDestroy, Destroy, SocketClosed, ZmqInv, ZmqTypeOK
  <2>b. /\ zmq_sockets' \in [Handles -> SocketRecord]
        /\ \A g \in Handles \ {_handle[s]} : zmq_sockets'[g] = zmq_sockets[g]
        /\ _handle[s] # nullptr =>
             /\ ~zmq_sockets'[_handle[s]].open
             /\ zmq_sockets'[_handle[s]].context \in {nullptr, zmq_sockets[_handle[s]].context}
    BY <1>3, CloseSocketFacts DEF SocketDestroy, Destroy, SocketClosed, ZmqInv, ZmqTypeOK
  <2>1. ZmqTypeOK'
    BY <1>3, <2>a, <2>b DEF SocketDestroy, Destroy, SocketClosed, contextVars, messageVars, ZmqInv, ZmqTypeOK, SocketsOwned, OrNull, Objects
  <2>2. ContextsOwned'
    BY <1>3 DEF SocketDestroy, Destroy, SocketClosed, contextVars, ZmqInv, ContextsOwned
  <2>c. UNCHANGED zmq_contexts
    BY <1>3 DEF SocketDestroy, Destroy, SocketClosed, contextVars
  <2>3. SocketsOwned'
    BY <2>a, <2>b, <2>c DEF ZmqInv, ZmqTypeOK, SocketsOwned, OrNull, IsSocket
  <2> QED BY <2>1, <2>2, <2>3 DEF ZmqInv
<1>4. ASSUME NEW c \in Contexts, NEW type \in Types, SocketNew(s, c, type)
      PROVE  ZmqInv'
  <2> DEFINE new == [context |-> ptr[c], type |-> type, open |-> TRUE, out |-> <<>>, in |-> <<>>]
  <2>a. new \in SocketRecord /\ new.open /\ new.context = ptr[c]
    <3>2. ptr[c] \in OrNull(Handles)
      BY DEF ZmqInv, ZmqTypeOK
    <3>3. <<>> \in Seq(Bytes) /\ <<>> \in Seq(OrNull(Handles))
      OBVIOUS
    <3> QED BY <3>2, <3>3 DEF SocketRecord
  <2> HIDE DEF new
  <2>b. PICK h \in Handles :
          /\ ~IsSocket(h)
          /\ zmq_sockets' = [zmq_sockets EXCEPT ![h] = new]
          /\ _handle' = [_handle EXCEPT ![s] = h]
          /\ ctxptr' = [ctxptr EXCEPT ![s] = ptr[c]]
    BY <1>4 DEF SocketNew, new
  <2>c. /\ UNCHANGED <<contextVars, messageVars>>
        /\ s \notin alive /\ alive' = alive \cup {s}
        /\ ptr[c] # nullptr
    BY <1>4 DEF SocketNew, Construct
  <2>1. ZmqTypeOK'
    BY <2>a, <2>b, <2>c DEF contextVars, messageVars, ZmqInv, ZmqTypeOK, OrNull, Objects
  <2>2. ContextsOwned'
    BY <2>c DEF contextVars, ZmqInv, ContextsOwned
  <2>3. SocketsOwned'
    BY <2>a, <2>b, <2>c DEF contextVars, ZmqInv, ZmqTypeOK, ContextsOwned, SocketsOwned, OrNull,
        IsSocket
  <2> QED BY <2>1, <2>2, <2>3 DEF ZmqInv
<1>5. ASSUME NEW rhs \in Sockets \ {s}, SocketMove(s, rhs)
      PROVE  ZmqInv'
  <2>a. /\ _handle' = [x \in Sockets |->
                       IF x = s THEN _handle[rhs] ELSE IF x = rhs THEN nullptr ELSE _handle[x]]
        /\ ctxptr' = [x \in Sockets |->
                       IF x = s THEN ctxptr[rhs] ELSE IF x = rhs THEN nullptr ELSE ctxptr[x]]
    BY <1>5 DEF SocketMove, Construct, ZmqInv, ZmqTypeOK
  <2>1. ZmqTypeOK'
    BY <1>5, <2>a DEF SocketMove, Construct, contextVars, messageVars, ZmqInv, ZmqTypeOK, SocketsOwned, OrNull, Objects
  <2>2. ContextsOwned'
    BY <1>5 DEF SocketMove, Construct, contextVars, ZmqInv, ContextsOwned
  <2>c. UNCHANGED zmq_contexts
    BY <1>5 DEF SocketMove, Construct, contextVars
  <2>3. SocketsOwned'
    <3>a. UNCHANGED zmq_sockets
      BY <1>5 DEF SocketMove, Construct
    <3>0. _handle[s] = nullptr /\ ctxptr[s] = nullptr
      BY <1>5 DEF SocketMove, Construct, ZmqInv, ZmqTypeOK, SocketsOwned
    <3>1. \A x \in Sockets :
            /\ _handle'[x] # nullptr => zmq_sockets'[_handle'[x]].open
            /\ _handle'[x] # nullptr => ctxptr'[x] = zmq_sockets'[_handle'[x]].context
            /\ _handle'[x] = nullptr => ctxptr'[x] = nullptr
      BY <2>a, <3>a DEF ZmqInv, SocketsOwned
    <3>2. \A x, y \in Sockets : _handle'[x] = _handle'[y] /\ _handle'[x] # nullptr => x = y
      BY <2>a DEF ZmqInv, SocketsOwned
    <3>3. ASSUME NEW h \in Handles, zmq_sockets'[h].open
          PROVE  \E x \in Sockets : _handle'[x] = h
      <4>1. PICK x \in Sockets : _handle[x] = h
        BY <3>3, <3>a DEF ZmqInv, SocketsOwned
      <4>2. CASE x = s
        BY <4>1, <4>2, <3>0, <2>a
      <4>3. CASE x = rhs
        BY <4>1, <4>3, <2>a
      <4>4. CASE x # s /\ x # rhs
        BY <4>1, <4>4, <2>a
      <4> QED BY <4>2, <4>3, <4>4
    <3>4. \A h \in Handles :
            /\ zmq_sockets'[h].open => IsSocket(h)'
            /\ IsSocket(h)' => zmq_sockets'[h].context \in zmq_contexts'
      BY <3>a, <2>c DEF ZmqInv, SocketsOwned, IsSocket
    <3> QED BY <3>1, <3>2, <3>3, <3>4 DEF SocketsOwned
  <2> QED BY <2>1, <2>2, <2>3 DEF ZmqInv
<1>6. ASSUME NEW rhs \in Sockets \ {s}, SocketAssign(s, rhs)
      PROVE  ZmqInv'
  <2>a. /\ _handle' = [x \in Sockets |->
                       IF x = s THEN _handle[rhs] ELSE IF x = rhs THEN nullptr ELSE _handle[x]]
        /\ ctxptr' = [x \in Sockets |->
                       IF x = s THEN ctxptr[rhs] ELSE IF x = rhs THEN nullptr ELSE ctxptr[x]]
    BY <1>6 DEF SocketAssign, Swapped, ZmqInv, ZmqTypeOK
  <2>b. /\ zmq_sockets' \in [Handles -> SocketRecord]
        /\ \A g \in Handles \ {_handle[s]} : zmq_sockets'[g] = zmq_sockets[g]
        /\ _handle[s] # nullptr =>
             /\ ~zmq_sockets'[_handle[s]].open
             /\ zmq_sockets'[_handle[s]].context \in {nullptr, zmq_sockets[_handle[s]].context}
    BY <1>6, CloseSocketFacts DEF SocketAssign, Swapped, ZmqInv, ZmqTypeOK
  <2>1. ZmqTypeOK'
    BY <1>6, <2>a, <2>b DEF SocketAssign, Swapped, contextVars, messageVars, ZmqInv, ZmqTypeOK, SocketsOwned, OrNull, Objects
  <2>2. ContextsOwned'
    BY <1>6 DEF SocketAssign, Swapped, contextVars, ZmqInv, ContextsOwned
  <2>c. UNCHANGED zmq_contexts
    BY <1>6 DEF SocketAssign, Swapped, contextVars
  <2>3. SocketsOwned'
    BY <2>a, <2>b, <2>c DEF ZmqInv, ZmqTypeOK, SocketsOwned, OrNull, IsSocket
  <2> QED BY <2>1, <2>2, <2>3 DEF ZmqInv
<1>7. ASSUME NEW other \in Sockets \ {s}, SocketSwap(s, other)
      PROVE  ZmqInv'
  <2>a. /\ _handle' = [x \in Sockets |->
                       IF x = s THEN _handle[other] ELSE IF x = other THEN _handle[s] ELSE _handle[x]]
        /\ ctxptr' = [x \in Sockets |->
                       IF x = s THEN ctxptr[other] ELSE IF x = other THEN ctxptr[s] ELSE ctxptr[x]]
    BY <1>7 DEF SocketSwap, Swapped, ZmqInv, ZmqTypeOK
  <2>1. ZmqTypeOK'
    BY <1>7, <2>a DEF SocketSwap, Swapped, contextVars, messageVars, ZmqInv, ZmqTypeOK, SocketsOwned, OrNull, Objects
  <2>2. ContextsOwned'
    BY <1>7 DEF SocketSwap, Swapped, contextVars, ZmqInv, ContextsOwned
  <2>c. UNCHANGED zmq_contexts
    BY <1>7 DEF SocketSwap, Swapped, contextVars
  <2>3. SocketsOwned'
    <3>a. UNCHANGED zmq_sockets
      BY <1>7 DEF SocketSwap, Swapped
    <3>1. \A x \in Sockets :
            /\ _handle'[x] # nullptr => zmq_sockets'[_handle'[x]].open
            /\ _handle'[x] # nullptr => ctxptr'[x] = zmq_sockets'[_handle'[x]].context
            /\ _handle'[x] = nullptr => ctxptr'[x] = nullptr
      BY <2>a, <3>a DEF ZmqInv, SocketsOwned
    <3>2. \A x, y \in Sockets : _handle'[x] = _handle'[y] /\ _handle'[x] # nullptr => x = y
      BY <2>a DEF ZmqInv, SocketsOwned
    <3>3. ASSUME NEW h \in Handles, zmq_sockets'[h].open
          PROVE  \E x \in Sockets : _handle'[x] = h
      <4>1. PICK x \in Sockets : _handle[x] = h
        BY <3>3, <3>a DEF ZmqInv, SocketsOwned
      <4>2. CASE x = s
        BY <4>1, <4>2, <2>a
      <4>3. CASE x = other
        BY <4>1, <4>3, <2>a
      <4>4. CASE x # s /\ x # other
        BY <4>1, <4>4, <2>a
      <4> QED BY <4>2, <4>3, <4>4
    <3>4. \A h \in Handles :
            /\ zmq_sockets'[h].open => IsSocket(h)'
            /\ IsSocket(h)' => zmq_sockets'[h].context \in zmq_contexts'
      BY <3>a, <2>c DEF ZmqInv, SocketsOwned, IsSocket
    <3> QED BY <3>1, <3>2, <3>3, <3>4 DEF SocketsOwned
  <2> QED BY <2>1, <2>2, <2>3 DEF ZmqInv
<1> QED BY <1>1, <1>2, <1>3, <1>4, <1>5, <1>6, <1>7 DEF SocketOp

(* Messages have nothing to do with the ownership of contexts and sockets.  *)
LEMMA MessageFrame ==
  ASSUME ZmqInv, UNCHANGED <<contextVars, socketVars>>,
         alive' \subseteq Objects,
         \A x \in Contexts \cup Sockets : x \in alive => x \in alive',
         msg' \in [Messages -> OrNull(Handles)],
         \A m \in Messages : m \notin alive' => msg'[m] = nullptr,
         DOMAIN zmq_contents' = Handles
  PROVE  ZmqInv'
BY DEF contextVars, socketVars, ZmqInv, ZmqTypeOK, ContextsOwned, SocketsOwned, IsSocket

(* A content that loses a holder keeps its place among the others. *)
LEMMA UnrefDomain ==
  ASSUME NEW h, NEW contents PROVE DOMAIN Unref(h, contents) = DOMAIN contents
BY DEF Unref

(* A message that gets a content takes it from no other message. *)
LEMMA FillFacts ==
  ASSUME NEW m \in Messages, NEW bytes, NEW contents, DOMAIN contents = Handles,
         msg \in [Messages -> OrNull(Handles)], Fill(m, bytes, contents)
  PROVE  /\ msg' \in [Messages -> OrNull(Handles)]
         /\ \A n \in Messages \ {m} : msg'[n] = msg[n]
         /\ DOMAIN zmq_contents' = Handles
BY DEF Fill, OrNull

(* Operations on messages leave contexts and sockets alone. *)
LEMMA MessageOpInv ==
  ASSUME ZmqInv, NEW m \in Messages, MessageOp(m)
  PROVE  ZmqInv'
<1> USE ZmqAssumption
<1>a. /\ DOMAIN zmq_contents = Handles
      /\ msg \in [Messages -> OrNull(Handles)] /\ nullptr \in OrNull(Handles)
      /\ \A n \in Messages \ alive : msg[n] = nullptr
      /\ alive \subseteq Objects /\ m \in Objects
  BY DEF ZmqInv, ZmqTypeOK, OrNull, Objects
<1>b. \A h : DOMAIN Unref(h, zmq_contents) = Handles
  BY <1>a, UnrefDomain
<1>1. CASE MessageDefault(m)
  BY <1>1, <1>a, MessageFrame DEF MessageDefault, Construct, messageVars
<1>2. CASE MessageDestroy(m)
  BY <1>2, <1>a, <1>b, MessageFrame DEF MessageDestroy, Destroy
<1>3. CASE MessageRebuild(m)
  BY <1>3, <1>a, <1>b, MessageFrame DEF MessageRebuild
<1>4. ASSUME NEW bytes \in Bytes, MessageNew(m, bytes)
      PROVE  ZmqInv'
  <2>1. Fill(m, bytes, zmq_contents)
    BY <1>4 DEF MessageNew
  <2> QED BY <1>4, <1>a, <2>1, FillFacts, MessageFrame DEF MessageNew, Construct
<1>5. ASSUME NEW bytes \in Bytes, MessageRebuildAs(m, bytes)
      PROVE  ZmqInv'
  <2>1. Fill(m, bytes, Unref(msg[m], zmq_contents)) /\ m \in alive
    BY <1>5 DEF MessageRebuildAs
  <2> QED BY <1>5, <1>a, <1>b, <2>1, FillFacts, MessageFrame DEF MessageRebuildAs
<1>6. ASSUME NEW rhs \in Messages \ {m}, MessageMove(m, rhs)
      PROVE  ZmqInv'
  BY <1>6, <1>a, MessageFrame DEF MessageMove, Construct
<1>7. ASSUME NEW other \in Messages \ {m}, MessageSwap(m, other)
      PROVE  ZmqInv'
  BY <1>7, <1>a, MessageFrame DEF MessageSwap, Swapped
<1>8. ASSUME NEW other \in Messages \ {m}, MessageTake(m, other)
      PROVE  ZmqInv'
  BY <1>8, <1>a, <1>b, MessageFrame DEF MessageTake
<1>9. ASSUME NEW other \in Messages \ {m}, MessageCopy(m, other)
      PROVE  ZmqInv'
  BY <1>9, <1>a, <1>b, MessageFrame DEF MessageCopy
<1> QED BY <1>1, <1>2, <1>3, <1>4, <1>5, <1>6, <1>7, <1>8, <1>9 DEF MessageOp

(* What is sent and received changes no owner; a lingering socket may go.   *)
LEMMA TransferFrame ==
  ASSUME ZmqInv, UNCHANGED <<alive, contextVars, _handle, ctxptr>>,
         zmq_sockets' \in [Handles -> SocketRecord],
         \A h \in Handles :
           /\ zmq_sockets'[h].open = zmq_sockets[h].open
           /\ \/ zmq_sockets'[h].context = zmq_sockets[h].context
              \/ ~zmq_sockets[h].open /\ zmq_sockets'[h].context = nullptr,
         msg' \in [Messages -> OrNull(Handles)],
         \A m \in Messages : m \notin alive => msg'[m] = nullptr,
         DOMAIN zmq_contents' = Handles
  PROVE  ZmqInv'
<1>1. ZmqTypeOK'
  BY DEF contextVars, ZmqInv, ZmqTypeOK
<1>2. ContextsOwned'
  BY DEF contextVars, ZmqInv, ContextsOwned
<1>3. SocketsOwned'
  BY DEF contextVars, ZmqInv, ZmqTypeOK, SocketsOwned, IsSocket, OrNull
<1> QED BY <1>1, <1>2, <1>3 DEF ZmqInv

(* Sending on a socket, or on none, opens and closes nothing, *)
LEMMA PutFacts ==
  ASSUME zmq_sockets \in [Handles -> SocketRecord], NEW g \in Handles,
         NEW content \in OrNull(Handles), zmq_sockets' = Put(g, content)
  PROVE  /\ zmq_sockets' \in [Handles -> SocketRecord]
         /\ \A h \in Handles : /\ zmq_sockets'[h].open = zmq_sockets[h].open
                              /\ zmq_sockets'[h].context = zmq_sockets[h].context
<1>1. Append(zmq_sockets[g].out, content) \in Seq(OrNull(Handles))
  BY DEF SocketRecord
<1> QED BY <1>1 DEF Put, SocketRecord

(* and neither does receiving. *)
LEMMA GotFacts ==
  ASSUME zmq_sockets \in [Handles -> SocketRecord], NEW g \in Handles,
         zmq_sockets[g].in # <<>>, zmq_sockets' = Got(g)
  PROVE  /\ zmq_sockets' \in [Handles -> SocketRecord]
         /\ \A h \in Handles : /\ zmq_sockets'[h].open = zmq_sockets[h].open
                              /\ zmq_sockets'[h].context = zmq_sockets[h].context
<1>1. Tail(zmq_sockets[g].in) \in Seq(Bytes)
  BY DEF SocketRecord
<1> QED BY <1>1 DEF Got, SocketRecord

(* So send and recv keep who owns what, *)
LEMMA TransferOpInv ==
  ASSUME ZmqInv, NEW s \in Sockets, TransferOp(s)
  PROVE  ZmqInv'
<1> USE ZmqAssumption
<1>a. /\ DOMAIN zmq_contents = Handles
      /\ zmq_sockets \in [Handles -> SocketRecord]
      /\ msg \in [Messages -> OrNull(Handles)] /\ nullptr \in OrNull(Handles)
      /\ Handles \subseteq OrNull(Handles)
      /\ \A n \in Messages \ alive : msg[n] = nullptr
  BY DEF ZmqInv, ZmqTypeOK, OrNull
<1>b. \A h : DOMAIN Unref(h, zmq_contents) = Handles
  BY <1>a, UnrefDomain
<1>c. Connected(s) => _handle[s] \in Handles
  BY DEF Connected, ZmqInv, ZmqTypeOK, OrNull
<1>1. ASSUME NEW m \in Messages, Send(s, m)
      PROVE  ZmqInv'
  BY <1>1, <1>a, <1>c, PutFacts, TransferFrame DEF Send
<1>2. ASSUME NEW bytes \in Bytes, SendBuffer(s, bytes)
      PROVE  ZmqInv'
  BY <1>2, <1>a, <1>c, PutFacts, TransferFrame DEF SendBuffer
<1>3. ASSUME NEW m \in Messages, Recv(s, m)
      PROVE  ZmqInv'
  <2>1. /\ Fill(m, Head(zmq_sockets[_handle[s]].in), Unref(msg[m], zmq_contents))
        /\ m \in alive /\ _handle[s] \in Handles /\ zmq_sockets[_handle[s]].in # <<>>
        /\ zmq_sockets' = Got(_handle[s])
    BY <1>3, <1>c DEF Recv, HasInput
  <2>2. /\ msg' \in [Messages -> OrNull(Handles)]
        /\ \A n \in Messages \ {m} : msg'[n] = msg[n]
        /\ DOMAIN zmq_contents' = Handles
    BY <2>1, <1>a, <1>b, FillFacts
  <2> QED BY <1>3, <1>a, <2>1, <2>2, GotFacts, TransferFrame DEF Recv
<1>4. CASE RecvBuffer(s)
  BY <1>4, <1>a, <1>c, GotFacts, TransferFrame DEF RecvBuffer, HasInput, messageVars
<1> QED BY <1>1, <1>2, <1>3, <1>4 DEF TransferOp

Remainder(r) == IF r.open THEN r ELSE AfterClose(r)

(* A socket that is flushed, and closed when it lingers. *)
LEMMA ClosedFacts ==
  ASSUME NEW r \in SocketRecord
  PROVE  /\ Remainder(r) \in SocketRecord
         /\ Remainder(r).open = r.open
         /\ Remainder(r).context = r.context \/ (~r.open /\ Remainder(r).context = nullptr)
<1>1. r.open \in BOOLEAN
  BY DEF SocketRecord
<1>2. CASE r.open
  <2>1. Remainder(r) = r
    BY <1>2, Zenon DEF Remainder
  <2> QED BY <2>1, Zenon
<1>3. CASE ~r.open
  <2>1. Remainder(r) = AfterClose(r)
    BY <1>3, Zenon DEF Remainder
  <2>2. /\ Remainder(r) \in SocketRecord /\ ~Remainder(r).open
        /\ Remainder(r).context = r.context \/ Remainder(r).context = nullptr
    BY <1>3, <2>1, AfterCloseFacts
  <2>3. Remainder(r).open \in BOOLEAN
    BY <2>2 DEF SocketRecord
  <2>4. Remainder(r).open = r.open
    BY <1>1, <1>3, <2>2, <2>3
  <2> QED BY <1>3, <2>2, <2>4, Zenon
<1> QED BY <1>2, <1>3, Zenon

(* The I/O threads. *)
LEMMA NetworkInv ==
  ASSUME ZmqInv, NEW h \in Handles, Flush(h) \/ \E bytes \in Bytes : Deliver(h, bytes)
  PROVE  ZmqInv'
<1> USE ZmqAssumption
<1>a. /\ DOMAIN zmq_contents = Handles
      /\ zmq_sockets \in [Handles -> SocketRecord]
      /\ msg \in [Messages -> OrNull(Handles)]
      /\ \A n \in Messages \ alive : msg[n] = nullptr
  BY DEF ZmqInv, ZmqTypeOK
<1>1. CASE Flush(h)
  <2> DEFINE rest == [zmq_sockets[h] EXCEPT !.out = Tail(@)]
             new == Remainder(rest)
  <2>1. Tail(zmq_sockets[h].out) \in Seq(OrNull(Handles))
    BY <1>1, <1>a DEF Flush, SocketRecord
  <2>2. /\ rest \in SocketRecord
        /\ rest.open = zmq_sockets[h].open /\ rest.context = zmq_sockets[h].context
    BY <1>a, <2>1 DEF SocketRecord
  <2>3. zmq_sockets' = [zmq_sockets EXCEPT ![h] = new]
    BY <1>1 DEF Flush, Flushed, Remainder
  <2> HIDE DEF rest
  <2>4. /\ new \in SocketRecord
        /\ new.open = rest.open
        /\ new.context = rest.context \/ (~rest.open /\ new.context = nullptr)
    BY <2>2, ClosedFacts
  <2> HIDE DEF new
  <2>5. UNCHANGED <<alive, contextVars, _handle, ctxptr, msg>> /\ DOMAIN zmq_contents' = Handles
    BY <1>1, <1>a, UnrefDomain DEF Flush
  <2> QED BY <1>a, <2>2, <2>3, <2>4, <2>5, TransferFrame
<1>2. ASSUME NEW bytes \in Bytes, Deliver(h, bytes)
      PROVE  ZmqInv'
  <2>1. Append(zmq_sockets[h].in, bytes) \in Seq(Bytes)
    BY <1>a DEF SocketRecord
  <2>2. /\ zmq_sockets' \in [Handles -> SocketRecord]
        /\ \A g \in Handles : /\ zmq_sockets'[g].open = zmq_sockets[g].open
                             /\ zmq_sockets'[g].context = zmq_sockets[g].context
    <3> DEFINE new == [zmq_sockets[h] EXCEPT !.in = Append(@, bytes)]
    <3>1. /\ new \in SocketRecord
          /\ new.open = zmq_sockets[h].open /\ new.context = zmq_sockets[h].context
      BY <1>a, <2>1 DEF SocketRecord
    <3>2. zmq_sockets' = [zmq_sockets EXCEPT ![h] = new]
      BY <1>2 DEF Deliver
    <3> HIDE DEF new
    <3> QED BY <1>a, <3>1, <3>2
  <2> QED BY <1>2, <1>a, <2>2, TransferFrame DEF Deliver, messageVars
<1> QED BY <1>1, <1>2

(* and every step of the most general caller and of libzmq does. *)
LEMMA StepInv == ZmqInv /\ [ZmqNext]_zmqVars => ZmqInv'
<1> SUFFICES ASSUME ZmqInv, [ZmqNext]_zmqVars PROVE ZmqInv'
  OBVIOUS
<1>1. CASE UNCHANGED zmqVars
  BY <1>1 DEF zmqVars, contextVars, socketVars, messageVars, ZmqInv, ZmqTypeOK, ContextsOwned,
      SocketsOwned, IsSocket
<1>2. CASE ZmqNext
  BY <1>2, ContextOpInv, SocketOpInv, MessageOpInv, TransferOpInv, NetworkInv DEF ZmqNext
<1> QED BY <1>1, <1>2

(* cppzmq: types, owners of contexts and owners of sockets are inductive *)
(* together.                                                             *)
THEOREM ZmqInvariant == ZmqSpec => []ZmqInv
BY InitInv, StepInv, PTL DEF ZmqSpec

(* Every variable keeps its type, and only living objects hold a handle.    *)
THEOREM ZmqTypeCorrect == ZmqSpec => []ZmqTypeOK
<1>1. ZmqInv => ZmqTypeOK
  BY DEF ZmqInv
<1> QED BY <1>1, ZmqInvariant, PTL

(* context_t: no context is leaked or destroyed twice, however the objects  *)
(* are moved, assigned, swapped, closed and destroyed.                      *)
THEOREM ContextsHaveOwners == ZmqSpec => []ContextsOwned
<1>1. ZmqInv => ContextsOwned
  BY DEF ZmqInv
<1> QED BY <1>1, ZmqInvariant, PTL

(* socket_t: the same of sockets, and a context outlives its sockets.       *)
THEOREM SocketsHaveOwners == ZmqSpec => []SocketsOwned
<1>1. ZmqInv => SocketsOwned
  BY DEF ZmqInv
<1> QED BY <1>1, ZmqInvariant, PTL

-----------------------------------------------------------------------------
(* The count of references.  The messages and the places in the sockets that *)
(* hold a content, for any value of the variables: the operations that drop  *)
(* a content before they get another one go through values between states.   *)
MessageHolders(f, k) == {m \in Messages : f[m] = k}

SocketHolders(sockets, k) ==
  LET places == UNION {{g} \X DOMAIN sockets[g].out : g \in Handles}
  IN  {p \in places : sockets[p[1]].out[p[2]] = k}

(* The holders of a content are the messages and the places in queues with *)
(* it.                                                                     *)
LEMMA HoldersAre ==
  \A k \in Handles :
    Holders(k) = Cardinality(MessageHolders(msg, k)) + Cardinality(SocketHolders(zmq_sockets, k))
BY DEF Holders, MessageHolders, SocketHolders

(* A place is a socket and a position in its queue. *)
LEMMA PlaceOf ==
  ASSUME NEW sockets, NEW k, NEW p
  PROVE  p \in SocketHolders(sockets, k) <=>
           \E g \in Handles : \E n \in DOMAIN sockets[g].out : p = <<g, n>> /\ sockets[g].out[n] = k
<1> DEFINE places == UNION {{g} \X DOMAIN sockets[g].out : g \in Handles}
<1>1. p \in places <=> \E g \in Handles : \E n \in DOMAIN sockets[g].out : p = <<g, n>>
  OBVIOUS
<1>2. \A g, n : p = <<g, n>> => sockets[p[1]].out[p[2]] = sockets[g].out[n]
  OBVIOUS
<1>3. p \in SocketHolders(sockets, k) <=> p \in places /\ sockets[p[1]].out[p[2]] = k
  BY DEF SocketHolders
<1> HIDE DEF places
<1> QED BY <1>1, <1>2, <1>3

Is(x, k) == IF x = k THEN 1 ELSE 0

(* A message that gets another content is a holder of that one instead.     *)
LEMMA MessageCount ==
  ASSUME NEW f \in [Messages -> OrNull(Handles)], NEW m \in Messages, NEW k,
         NEW g \in [Messages -> OrNull(Handles)], \A n \in Messages \ {m} : g[n] = f[n],
         IsFiniteSet(MessageHolders(f, k))
  PROVE  /\ IsFiniteSet(MessageHolders(g, k))
         /\ Cardinality(MessageHolders(f, k)) \in Nat
         /\ Cardinality(MessageHolders(g, k)) =
              Cardinality(MessageHolders(f, k)) - Is(f[m], k) + Is(g[m], k)
<1> DEFINE before == MessageHolders(f, k)
           others == before \ {m}
           after == MessageHolders(g, k)
<1>1. after = IF g[m] = k THEN others \cup {m} ELSE others
  BY DEF MessageHolders
<1>2. m \in before <=> f[m] = k
  BY DEF MessageHolders
<1>3. m \notin others
  OBVIOUS
<1> HIDE DEF before, after
<1>4. Cardinality(before) \in Nat
  BY FS_CardinalityType DEF before
<1>5. /\ IsFiniteSet(others)
      /\ Cardinality(others) = IF m \in before THEN Cardinality(before) - 1 ELSE Cardinality(before)
  BY FS_RemoveElement DEF before
<1> HIDE DEF others
<1>6. /\ IsFiniteSet(others \cup {m})
      /\ Cardinality(others \cup {m}) = Cardinality(others) + 1
  BY <1>3, <1>5, FS_AddElement
<1>7. IsFiniteSet(after)
  BY <1>1, <1>5, <1>6
<1>8. Cardinality(after) = Cardinality(before) - Is(f[m], k) + Is(g[m], k)
  BY <1>1, <1>2, <1>4, <1>5, <1>6 DEF Is
<1> QED BY <1>4, <1>7, <1>8 DEF before, after

(* What is put at the end of a queue has one more holder. *)
LEMMA AppendCount ==
  ASSUME NEW s \in [Handles -> SocketRecord], NEW t, NEW g \in Handles, NEW v \in OrNull(Handles), NEW k,
         t[g].out = Append(s[g].out, v),
         \A h \in Handles \ {g} : t[h].out = s[h].out,
         IsFiniteSet(SocketHolders(s, k))
  PROVE  /\ IsFiniteSet(SocketHolders(t, k))
         /\ Cardinality(SocketHolders(s, k)) \in Nat
         /\ Cardinality(SocketHolders(t, k)) = Cardinality(SocketHolders(s, k)) + Is(v, k)
<1> DEFINE q == s[g].out
           n == Len(q) + 1
           new == <<g, n>>
           before == SocketHolders(s, k)
           after == SocketHolders(t, k)
<1>1. /\ q \in Seq(OrNull(Handles)) /\ DOMAIN q = 1 .. Len(q) /\ Len(q) \in Nat
      /\ t[g].out = Append(q, v)
      /\ \A h \in Handles \ {g} : t[h].out = s[h].out
  BY DEF SocketRecord
<1>2. /\ DOMAIN Append(q, v) = 1 .. n
      /\ \A i \in DOMAIN q : Append(q, v)[i] = q[i]
      /\ Append(q, v)[n] = v
  BY <1>1
<1>3. n \notin DOMAIN q /\ (1 .. n) = DOMAIN q \cup {n}
  BY <1>1
<1> HIDE DEF q, n
<1>4. new \notin before
  BY <1>3, PlaceOf DEF q
<1>5. \A p : p \in after <=> p \in before \/ (v = k /\ p = new)
  <2> TAKE p
  <2>1. ASSUME NEW h \in Handles, NEW i, p = <<h, i>>
        PROVE  i \in DOMAIN t[h].out /\ t[h].out[i] = k <=>
                 (i \in DOMAIN s[h].out /\ s[h].out[i] = k) \/ (v = k /\ p = new)
    BY <1>1, <1>2, <1>3, <2>1 DEF q
  <2> QED BY <2>1, PlaceOf
<1> HIDE DEF new, before, after
<1>6. after = IF v = k THEN before \cup {new} ELSE before
  BY <1>5
<1>7. Cardinality(before) \in Nat
  BY FS_CardinalityType DEF before
<1>8. /\ IsFiniteSet(before \cup {new})
      /\ Cardinality(before \cup {new}) = Cardinality(before) + 1
  BY <1>4, FS_AddElement DEF before
<1>9. IsFiniteSet(after) /\ Cardinality(after) = Cardinality(before) + Is(v, k)
  BY <1>6, <1>7, <1>8 DEF Is, before
<1> QED BY <1>7, <1>9 DEF before, after

(* The first of a queue has one holder less when the queue moves on: every   *)
(* other place moves up by one.                                              *)
LEMMA TailCount ==
  ASSUME NEW s \in [Handles -> SocketRecord], NEW t, NEW g \in Handles, NEW k,
         s[g].out # <<>>, t[g].out = Tail(s[g].out),
         \A h \in Handles \ {g} : t[h].out = s[h].out,
         IsFiniteSet(SocketHolders(s, k))
  PROVE  /\ IsFiniteSet(SocketHolders(t, k))
         /\ Cardinality(SocketHolders(s, k)) \in Nat
         /\ Cardinality(SocketHolders(t, k)) = Cardinality(SocketHolders(s, k)) - Is(Head(s[g].out), k)
<1> DEFINE q == s[g].out
           first == <<g, 1>>
           before == SocketHolders(s, k)
           rest == before \ {first}
           after == SocketHolders(t, k)
           up == [p \in rest |-> IF p[1] = g THEN <<g, p[2] - 1>> ELSE p]
<1>1. /\ q \in Seq(OrNull(Handles)) /\ q # <<>>
      /\ DOMAIN q = 1 .. Len(q) /\ Len(q) \in Nat /\ 1 \in DOMAIN q /\ Head(q) = q[1]
  BY DEF SocketRecord
<1>2. /\ t[g].out = Tail(q)
      /\ DOMAIN Tail(q) = 1 .. Len(q) - 1
      /\ \A i \in 1 .. Len(q) - 1 : Tail(q)[i] = q[i + 1]
  BY <1>1
<1> HIDE DEF q
<1>3. first \in before <=> q[1] = k
  BY <1>1, PlaceOf DEF q
<1>4. ASSUME NEW p \in rest
      PROVE  /\ p[1] = g => /\ p = <<g, p[2]>> /\ p[2] \in Nat /\ p[2] > 1 /\ p[2] - 1 \in DOMAIN t[g].out
                            /\ t[g].out[p[2] - 1] = k
             /\ p[1] # g => p \in after
  <2>1. PICK h \in Handles : \E n \in DOMAIN s[h].out : p = <<h, n>> /\ s[h].out[n] = k
    BY PlaceOf
  <2>2. PICK n \in DOMAIN s[h].out : p = <<h, n>> /\ s[h].out[n] = k
    BY <2>1
  <2>3. CASE h = g
    <3>1. n # 1 /\ n \in 1 .. Len(q) /\ q[n] = k
      BY <1>1, <2>2, <2>3 DEF q
    <3>2. n - 1 \in 1 .. Len(q) - 1 /\ (n - 1) + 1 = n
      BY <1>1, <3>1
    <3>3. t[g].out[n - 1] = k /\ n - 1 \in DOMAIN t[g].out
      BY <1>2, <3>1, <3>2
    <3> QED BY <1>1, <2>2, <2>3, <3>1, <3>2, <3>3
  <2>4. CASE h # g
    <3>1. n \in DOMAIN t[h].out /\ t[h].out[n] = k
      BY <2>2, <2>4
    <3> QED BY <2>2, <2>4, <3>1, PlaceOf
  <2> QED BY <2>3, <2>4
<1>5. up \in [rest -> after]
  <2> SUFFICES ASSUME NEW p \in rest PROVE up[p] \in after
    OBVIOUS
  <2>1. CASE p[1] = g
    <3> DEFINE i == p[2] - 1
    <3>1. i \in DOMAIN t[g].out /\ t[g].out[i] = k
      BY <1>4, <2>1
    <3>2. up[p] = <<g, i>>
      BY <2>1
    <3> HIDE DEF i, up
    <3>3. <<g, i>> \in after
      BY <3>1, PlaceOf
    <3> QED BY <3>2, <3>3
  <2>2. CASE p[1] # g
    BY <1>4, <2>2
  <2> QED BY <2>1, <2>2
<1>6. ASSUME NEW p \in rest, NEW r \in rest, up[p] = up[r] PROVE p = r
  <2>1. up[p] = IF p[1] = g THEN <<g, p[2] - 1>> ELSE p
    OBVIOUS
  <2>2. up[r] = IF r[1] = g THEN <<g, r[2] - 1>> ELSE r
    OBVIOUS
  <2> HIDE DEF up, rest
  <2>3. CASE p[1] = g /\ r[1] = g
    <3>1. <<g, p[2] - 1>> = <<g, r[2] - 1>>
      BY <1>6, <2>1, <2>2, <2>3, Zenon
    <3>2. p[2] - 1 = r[2] - 1
      BY <3>1
    <3>3. p[2] = r[2]
      BY <1>4, <2>3, <3>2
    <3>4. p = <<g, p[2]>> /\ r = <<g, r[2]>>
      BY <1>4, <2>3
    <3> QED BY <3>3, <3>4, Zenon
  <2>4. CASE p[1] # g /\ r[1] # g
    BY <1>6, <2>1, <2>2, <2>4
  <2>5. CASE p[1] = g /\ r[1] # g
    <3>1. r = <<g, p[2] - 1>>
      BY <1>6, <2>1, <2>2, <2>5, Zenon
    <3> QED BY <2>5, <3>1
  <2>6. CASE p[1] # g /\ r[1] = g
    <3>1. p = <<g, r[2] - 1>>
      BY <1>6, <2>1, <2>2, <2>6, Zenon
    <3> QED BY <2>6, <3>1
  <2> QED BY <2>3, <2>4, <2>5, <2>6
<1>7. ASSUME NEW a \in after PROVE \E p \in rest : up[p] = a
  <2>1. PICK h \in Handles : \E n \in DOMAIN t[h].out : a = <<h, n>> /\ t[h].out[n] = k
    BY PlaceOf
  <2>2. PICK n \in DOMAIN t[h].out : a = <<h, n>> /\ t[h].out[n] = k
    BY <2>1
  <2>3. CASE h = g
    <3>1. n \in 1 .. Len(q) - 1 /\ q[n + 1] = k
      BY <1>2, <2>2, <2>3
    <3>2. n + 1 \in DOMAIN s[g].out /\ s[g].out[n + 1] = k /\ n + 1 # 1 /\ (n + 1) - 1 = n
      BY <1>1, <3>1 DEF q
    <3>3. <<g, n + 1>> \in rest
      BY <3>2, PlaceOf
    <3>4. up[<<g, n + 1>>] = a
      BY <2>2, <2>3, <3>2, <3>3
    <3> QED BY <3>3, <3>4
  <2>4. CASE h # g
    <3>1. a \in rest
      BY <2>2, <2>4, PlaceOf
    <3> QED BY <2>2, <2>4, <3>1
  <2> QED BY <2>3, <2>4
<1> HIDE DEF first, before, rest, after, up
<1>8. /\ IsFiniteSet(rest) /\ Cardinality(before) \in Nat
      /\ Cardinality(rest) = IF first \in before THEN Cardinality(before) - 1 ELSE Cardinality(before)
  BY FS_RemoveElement, FS_CardinalityType DEF before, rest
<1>9. ExistsBijection(rest, after)
  BY <1>5, <1>6, <1>7 DEF ExistsBijection, Bijection, Injection, Surjection, IsInjective
<1>10. IsFiniteSet(after) /\ Cardinality(after) = Cardinality(rest)
  BY <1>8, <1>9, FS_Bijection
<1>11. Cardinality(after) = Cardinality(before) - Is(q[1], k)
  BY <1>3, <1>8, <1>10 DEF Is
<1> QED BY <1>1, <1>8, <1>10, <1>11 DEF q, before, after

ContentRecord == [refs : Nat, bytes : Bytes \cup {<<>>}]

CountedAt(f, sockets, contents, k) ==
  /\ IsFiniteSet(MessageHolders(f, k))
  /\ IsFiniteSet(SocketHolders(sockets, k))
  /\ contents[k].refs = Cardinality(MessageHolders(f, k)) + Cardinality(SocketHolders(sockets, k))
  /\ contents[k].refs > 0 => contents[k].bytes \in Bytes

Counted(f, sockets, contents) ==
  /\ f \in [Messages -> OrNull(Handles)]
  /\ sockets \in [Handles -> SocketRecord]
  /\ contents \in [Handles -> ContentRecord]
  /\ \A k \in Handles : CountedAt(f, sockets, contents, k)

(* A content that a message or a place of a socket holds was not freed.     *)
LEMMA HolderIsCounted ==
  ASSUME NEW f, NEW s, NEW c, Counted(f, s, c),
         NEW k \in Handles, MessageHolders(f, k) # {} \/ SocketHolders(s, k) # {}
  PROVE  c[k].refs > 0
<1> DEFINE inMessages == MessageHolders(f, k)
           inSockets == SocketHolders(s, k)
<1>1. /\ IsFiniteSet(inMessages) /\ IsFiniteSet(inSockets)
      /\ c[k].refs = Cardinality(inMessages) + Cardinality(inSockets)
  BY DEF Counted, CountedAt
<1>2. inMessages # {} \/ inSockets # {}
  OBVIOUS
<1> HIDE DEF inMessages, inSockets
<1>3. Cardinality(inMessages) \in Nat /\ Cardinality(inSockets) \in Nat
  BY <1>1, FS_CardinalityType
<1>4. /\ Cardinality(inMessages) = 0 <=> inMessages = {}
      /\ Cardinality(inSockets) = 0 <=> inSockets = {}
  BY <1>1, FS_EmptySet
<1> QED BY <1>1, <1>2, <1>3, <1>4

(* The same of any place in the queue of a socket, *)
LEMMA PlaceIsCounted ==
  ASSUME NEW f, NEW s, NEW c, Counted(f, s, c),
         NEW g \in Handles, NEW n \in DOMAIN s[g].out, s[g].out[n] \in Handles
  PROVE  c[s[g].out[n]].refs > 0
<1>1. <<g, n>> \in SocketHolders(s, s[g].out[n])
  BY PlaceOf
<1> QED BY <1>1, HolderIsCounted

(* of the content of a message, and of the next content in a queue.         *)
LEMMA HeldIsCounted ==
  ASSUME NEW f, NEW s, NEW c, Counted(f, s, c)
  PROVE  /\ \A m \in Messages : f[m] # nullptr => c[f[m]].refs > 0
         /\ \A g \in Handles :
              s[g].out # <<>> =>
                /\ Head(s[g].out) \in OrNull(Handles)
                /\ Head(s[g].out) # nullptr => c[Head(s[g].out)].refs > 0
<1>1. ASSUME NEW k \in Handles, MessageHolders(f, k) # {} \/ SocketHolders(s, k) # {}
      PROVE  c[k].refs > 0
  BY <1>1, HolderIsCounted
<1>2. ASSUME NEW m \in Messages, f[m] # nullptr PROVE c[f[m]].refs > 0
  <2>1. f[m] \in Handles /\ m \in MessageHolders(f, f[m])
    BY <1>2 DEF Counted, OrNull, MessageHolders
  <2> QED BY <1>1, <2>1
<1>3. ASSUME NEW g \in Handles, s[g].out # <<>>
      PROVE  /\ Head(s[g].out) \in OrNull(Handles)
             /\ Head(s[g].out) # nullptr => c[Head(s[g].out)].refs > 0
  <2> DEFINE q == s[g].out
  <2>1. q \in Seq(OrNull(Handles)) /\ q # <<>>
    BY <1>3 DEF Counted, SocketRecord
  <2>2. 1 \in DOMAIN q /\ Head(q) = q[1] /\ Head(q) \in OrNull(Handles)
    <3> HIDE DEF q
    <3> QED BY <2>1
  <2>3. CASE Head(q) # nullptr
    <3> DEFINE k == Head(q)
    <3>1. k \in Handles
      BY <2>2, <2>3 DEF OrNull
    <3>2. <<g, 1>> \in SocketHolders(s, k)
      BY <2>2, PlaceOf
    <3> QED BY <1>1, <2>2, <3>1, <3>2
  <2> QED BY <2>2, <2>3
<1> QED BY <1>2, <1>3

(* A reference that is dropped. *)
LEMMA UnrefCount ==
  ASSUME NEW c \in [Handles -> ContentRecord], NEW h \in OrNull(Handles),
         h # nullptr => c[h].refs > 0
  PROVE  /\ Unref(h, c) \in [Handles -> ContentRecord]
         /\ \A k \in Handles :
              /\ Unref(h, c)[k].refs = c[k].refs - Is(h, k)
              /\ Unref(h, c)[k].refs > 0 => Unref(h, c)[k].bytes = c[k].bytes
<1>1. CASE h = nullptr
  <2>1. Unref(h, c) = c /\ \A k \in Handles : Is(h, k) = 0
    BY <1>1, ZmqAssumption DEF Unref, Is
  <2> QED BY <2>1 DEF ContentRecord
<1>2. CASE h # nullptr
  <2> DEFINE new == Less(c[h])
  <2>1. h \in Handles /\ Unref(h, c) = [c EXCEPT ![h] = new]
    BY <1>2 DEF Unref, OrNull
  <2>2. c[h] \in ContentRecord /\ c[h].refs \in Nat /\ c[h].refs > 0
    BY <1>2, <2>1 DEF ContentRecord
  <2>3. /\ new \in ContentRecord
        /\ new.refs = c[h].refs - 1
        /\ new.refs > 0 => new.bytes = c[h].bytes
    <3>1. CASE c[h].refs = 1
      BY <2>2, <3>1 DEF Less, NoContent, ContentRecord
    <3>2. CASE c[h].refs # 1
      <4>1. new = [c[h] EXCEPT !.refs = @ - 1] /\ c[h].refs - 1 \in Nat
        BY <2>2, <3>2 DEF Less
      <4> QED BY <2>2, <4>1 DEF ContentRecord
    <3> QED BY <3>1, <3>2
  <2> HIDE DEF new
  <2> QED BY <2>1, <2>2, <2>3 DEF Is, ContentRecord
<1> QED BY <1>1, <1>2

(* It is enough that each content is counted up and down with its holders.  *)
LEMMA LedgerMoves ==
  ASSUME NEW f, NEW s, NEW c, Counted(f, s, c),
         NEW f2 \in [Messages -> OrNull(Handles)], NEW s2 \in [Handles -> SocketRecord],
         NEW c2 \in [Handles -> ContentRecord],
         \A k \in Handles :
           /\ IsFiniteSet(MessageHolders(f2, k))
           /\ IsFiniteSet(SocketHolders(s2, k))
           /\ c2[k].refs - c[k].refs =
                (Cardinality(MessageHolders(f2, k)) - Cardinality(MessageHolders(f, k)))
                  + (Cardinality(SocketHolders(s2, k)) - Cardinality(SocketHolders(s, k)))
           /\ c2[k].refs > 0 => (c2[k].bytes = c[k].bytes /\ c[k].refs > 0) \/ c2[k].bytes \in Bytes
  PROVE  Counted(f2, s2, c2)
<1> SUFFICES ASSUME NEW k \in Handles PROVE CountedAt(f2, s2, c2, k)
  BY DEF Counted
<1> DEFINE a == Cardinality(MessageHolders(f, k))
           b == Cardinality(SocketHolders(s, k))
           a2 == Cardinality(MessageHolders(f2, k))
           b2 == Cardinality(SocketHolders(s2, k))
<1>1. /\ c[k].refs = a + b /\ (c[k].refs > 0 => c[k].bytes \in Bytes)
      /\ c2[k].refs - c[k].refs = (a2 - a) + (b2 - b)
      /\ c2[k].refs > 0 => (c2[k].bytes = c[k].bytes /\ c[k].refs > 0) \/ c2[k].bytes \in Bytes
  BY DEF Counted, CountedAt
<1>2. a \in Nat /\ b \in Nat /\ a2 \in Nat /\ b2 \in Nat
  BY FS_CardinalityType DEF Counted, CountedAt
<1>3. c[k].refs \in Nat /\ c2[k].refs \in Nat
  BY DEF Counted, ContentRecord
<1> HIDE DEF a, b, a2, b2
<1>4. c2[k].refs = a2 + b2 /\ (c2[k].refs > 0 => c2[k].bytes \in Bytes)
  BY <1>1, <1>2, <1>3
<1> QED BY <1>4 DEF CountedAt, a2, b2

(* A message that gives up its content: the reference is dropped, *)
LEMMA DropCounted ==
  ASSUME NEW f, NEW s, NEW c, Counted(f, s, c), NEW m \in Messages
  PROVE  Counted([f EXCEPT ![m] = nullptr], s, Unref(f[m], c))
<1> DEFINE f2 == [f EXCEPT ![m] = nullptr]
           c2 == Unref(f[m], c)
<1>1. /\ f \in [Messages -> OrNull(Handles)] /\ f[m] \in OrNull(Handles)
      /\ s \in [Handles -> SocketRecord] /\ c \in [Handles -> ContentRecord]
      /\ f2 \in [Messages -> OrNull(Handles)]
      /\ f2[m] = nullptr /\ \A n \in Messages \ {m} : f2[n] = f[n]
  BY DEF Counted, OrNull
<1>2. c2 \in [Handles -> ContentRecord]
  BY <1>1, HeldIsCounted, UnrefCount
<1>3. ASSUME NEW k \in Handles
      PROVE  /\ IsFiniteSet(MessageHolders(f2, k)) /\ IsFiniteSet(SocketHolders(s, k))
             /\ c2[k].refs - c[k].refs =
                  (Cardinality(MessageHolders(f2, k)) - Cardinality(MessageHolders(f, k)))
                    + (Cardinality(SocketHolders(s, k)) - Cardinality(SocketHolders(s, k)))
             /\ c2[k].refs > 0 => (c2[k].bytes = c[k].bytes /\ c[k].refs > 0) \/ c2[k].bytes \in Bytes
  <2>1. IsFiniteSet(MessageHolders(f, k)) /\ IsFiniteSet(SocketHolders(s, k))
    BY DEF Counted, CountedAt
  <2>2. /\ IsFiniteSet(MessageHolders(f2, k))
        /\ Cardinality(MessageHolders(f, k)) \in Nat
        /\ Cardinality(MessageHolders(f2, k)) = Cardinality(MessageHolders(f, k)) - Is(f[m], k) + Is(nullptr, k)
    <3> HIDE DEF f2
    <3> QED BY <1>1, <2>1, MessageCount
  <2>3. /\ c2[k].refs = c[k].refs - Is(f[m], k)
        /\ c2[k].refs > 0 => c2[k].bytes = c[k].bytes
    BY <1>1, HeldIsCounted, UnrefCount
  <2>4. Is(nullptr, k) = 0 /\ Is(f[m], k) \in {0, 1} /\ c[k].refs \in Nat
    BY <1>1, ZmqAssumption DEF Is, ContentRecord
  <2>5. Cardinality(SocketHolders(s, k)) \in Nat
    BY <2>1, FS_CardinalityType
  <2> HIDE DEF f2, c2
  <2> QED BY <2>1, <2>2, <2>3, <2>4, <2>5
<1> HIDE DEF f2, c2
<1>4. Counted(f2, s, c2)
  BY <1>1, <1>2, <1>3, LedgerMoves
<1> QED BY <1>4 DEF f2, c2

(* another message gets it, *)
LEMMA MoveCounted ==
  ASSUME NEW f, NEW s, NEW c, Counted(f, s, c), NEW m \in Messages, NEW n \in Messages, m # n,
         f[m] = nullptr
  PROVE  Counted([f EXCEPT ![m] = f[n], ![n] = nullptr], s, c)
<1> DEFINE f1 == [f EXCEPT ![m] = f[n]]
           f2 == [f1 EXCEPT ![n] = nullptr]
<1>1. /\ f \in [Messages -> OrNull(Handles)] /\ f1 \in [Messages -> OrNull(Handles)]
      /\ f2 \in [Messages -> OrNull(Handles)] /\ f1[n] = f[n]
      /\ f1[m] = f[n] /\ \A x \in Messages \ {m} : f1[x] = f[x]
      /\ f2[n] = nullptr /\ \A x \in Messages \ {n} : f2[x] = f1[x]
      /\ s \in [Handles -> SocketRecord] /\ c \in [Handles -> ContentRecord]
  BY DEF Counted, OrNull
<1>2. ASSUME NEW k \in Handles
      PROVE  /\ IsFiniteSet(MessageHolders(f2, k)) /\ IsFiniteSet(SocketHolders(s, k))
             /\ c[k].refs - c[k].refs =
                  (Cardinality(MessageHolders(f2, k)) - Cardinality(MessageHolders(f, k)))
                    + (Cardinality(SocketHolders(s, k)) - Cardinality(SocketHolders(s, k)))
             /\ c[k].refs > 0 => (c[k].bytes = c[k].bytes /\ c[k].refs > 0) \/ c[k].bytes \in Bytes
  <2>1. IsFiniteSet(MessageHolders(f, k)) /\ IsFiniteSet(SocketHolders(s, k))
    BY DEF Counted, CountedAt
  <2>2. /\ IsFiniteSet(MessageHolders(f1, k))
        /\ Cardinality(MessageHolders(f, k)) \in Nat
        /\ Cardinality(MessageHolders(f1, k)) = Cardinality(MessageHolders(f, k)) - Is(f[m], k) + Is(f[n], k)
    <3> HIDE DEF f1
    <3> QED BY <1>1, <2>1, MessageCount
  <2> HIDE DEF f1
  <2>3. /\ IsFiniteSet(MessageHolders(f2, k))
        /\ Cardinality(MessageHolders(f2, k)) = Cardinality(MessageHolders(f1, k)) - Is(f1[n], k) + Is(nullptr, k)
    <3> HIDE DEF f2
    <3> QED BY <1>1, <2>2, MessageCount
  <2>4. Is(nullptr, k) = 0 /\ Is(f[n], k) \in {0, 1} /\ Is(f[m], k) = 0 /\ c[k].refs \in Nat
    BY <1>1, ZmqAssumption DEF Is, ContentRecord
  <2>5. Cardinality(SocketHolders(s, k)) \in Nat
    BY <2>1, FS_CardinalityType
  <2> HIDE DEF f2
  <2> QED BY <1>1, <2>1, <2>2, <2>3, <2>4, <2>5
<1> HIDE DEF f1, f2
<1>3. Counted(f2, s, c)
  BY <1>1, <1>2, LedgerMoves
<1> QED BY <1>3 DEF f1, f2

(* two messages swap theirs, *)
LEMMA SwapCounted ==
  ASSUME NEW f, NEW s, NEW c, Counted(f, s, c), NEW m \in Messages, NEW n \in Messages, m # n
  PROVE  Counted(Swapped(f, m, n), s, c)
<1> DEFINE f1 == [f EXCEPT ![m] = f[n]]
           f2 == [f1 EXCEPT ![n] = f[m]]
<1>1. /\ f \in [Messages -> OrNull(Handles)] /\ f1 \in [Messages -> OrNull(Handles)]
      /\ f2 \in [Messages -> OrNull(Handles)] /\ f1[n] = f[n]
      /\ f1[m] = f[n] /\ \A x \in Messages \ {m} : f1[x] = f[x]
      /\ f2[n] = f[m] /\ \A x \in Messages \ {n} : f2[x] = f1[x]
      /\ s \in [Handles -> SocketRecord] /\ c \in [Handles -> ContentRecord]
  BY DEF Counted
<1>2. ASSUME NEW k \in Handles
      PROVE  /\ IsFiniteSet(MessageHolders(f2, k)) /\ IsFiniteSet(SocketHolders(s, k))
             /\ c[k].refs - c[k].refs =
                  (Cardinality(MessageHolders(f2, k)) - Cardinality(MessageHolders(f, k)))
                    + (Cardinality(SocketHolders(s, k)) - Cardinality(SocketHolders(s, k)))
             /\ c[k].refs > 0 => (c[k].bytes = c[k].bytes /\ c[k].refs > 0) \/ c[k].bytes \in Bytes
  <2>1. IsFiniteSet(MessageHolders(f, k)) /\ IsFiniteSet(SocketHolders(s, k))
    BY DEF Counted, CountedAt
  <2>2. /\ IsFiniteSet(MessageHolders(f1, k))
        /\ Cardinality(MessageHolders(f, k)) \in Nat
        /\ Cardinality(MessageHolders(f1, k)) = Cardinality(MessageHolders(f, k)) - Is(f[m], k) + Is(f[n], k)
    <3> HIDE DEF f1
    <3> QED BY <1>1, <2>1, MessageCount
  <2> HIDE DEF f1
  <2>3. /\ IsFiniteSet(MessageHolders(f2, k))
        /\ Cardinality(MessageHolders(f2, k)) = Cardinality(MessageHolders(f1, k)) - Is(f1[n], k) + Is(f[m], k)
    <3> HIDE DEF f2
    <3> QED BY <1>1, <2>2, MessageCount
  <2>4. Is(f[n], k) \in {0, 1} /\ Is(f[m], k) \in {0, 1} /\ c[k].refs \in Nat
    BY <1>1 DEF Is, ContentRecord
  <2>5. Cardinality(SocketHolders(s, k)) \in Nat
    BY <2>1, FS_CardinalityType
  <2> HIDE DEF f2
  <2> QED BY <1>1, <2>1, <2>2, <2>3, <2>4, <2>5
<1> HIDE DEF f1, f2
<1>3. Counted(f2, s, c)
  BY <1>1, <1>2, LedgerMoves
<1> QED BY <1>3 DEF f1, f2, Swapped

(* and a message without one gets a share of one that is held, or a new one. *)
LEMMA GainCounted ==
  ASSUME NEW f, NEW s, NEW c, Counted(f, s, c), NEW m \in Messages, f[m] = nullptr,
         NEW h \in Handles, NEW new \in ContentRecord, new.refs = c[h].refs + 1,
         (c[h].refs > 0 /\ new.bytes = c[h].bytes) \/ new.bytes \in Bytes
  PROVE  Counted([f EXCEPT ![m] = h], s, [c EXCEPT ![h] = new])
<1> DEFINE f2 == [f EXCEPT ![m] = h]
           c2 == [c EXCEPT ![h] = new]
<1>1. /\ f \in [Messages -> OrNull(Handles)]
      /\ s \in [Handles -> SocketRecord] /\ c \in [Handles -> ContentRecord]
      /\ f2 \in [Messages -> OrNull(Handles)] /\ c2 \in [Handles -> ContentRecord]
      /\ f2[m] = h /\ \A n \in Messages \ {m} : f2[n] = f[n]
  BY DEF Counted, OrNull
<1>2. ASSUME NEW k \in Handles
      PROVE  /\ IsFiniteSet(MessageHolders(f2, k)) /\ IsFiniteSet(SocketHolders(s, k))
             /\ c2[k].refs - c[k].refs =
                  (Cardinality(MessageHolders(f2, k)) - Cardinality(MessageHolders(f, k)))
                    + (Cardinality(SocketHolders(s, k)) - Cardinality(SocketHolders(s, k)))
             /\ c2[k].refs > 0 => (c2[k].bytes = c[k].bytes /\ c[k].refs > 0) \/ c2[k].bytes \in Bytes
  <2>1. IsFiniteSet(MessageHolders(f, k)) /\ IsFiniteSet(SocketHolders(s, k))
    BY DEF Counted, CountedAt
  <2>2. /\ IsFiniteSet(MessageHolders(f2, k))
        /\ Cardinality(MessageHolders(f, k)) \in Nat
        /\ Cardinality(MessageHolders(f2, k)) = Cardinality(MessageHolders(f, k)) - Is(f[m], k) + Is(h, k)
    <3> HIDE DEF f2
    <3> QED BY <1>1, <2>1, MessageCount
  <2>3. /\ c[k].refs \in Nat /\ c2[k].refs = c[k].refs + Is(h, k)
        /\ c2[k].refs > 0 => (c2[k].bytes = c[k].bytes /\ c[k].refs > 0) \/ c2[k].bytes \in Bytes
    BY <1>1 DEF Is, ContentRecord
  <2>4. Is(f[m], k) = 0 /\ Is(h, k) \in {0, 1}
    BY ZmqAssumption DEF Is
  <2>5. Cardinality(SocketHolders(s, k)) \in Nat
    BY <2>1, FS_CardinalityType
  <2> HIDE DEF f2, c2
  <2> QED BY <2>1, <2>2, <2>3, <2>4, <2>5
<1> HIDE DEF f2, c2
<1>3. Counted(f2, s, c2)
  BY <1>1, <1>2, LedgerMoves
<1> QED BY <1>3 DEF f2, c2

(* A message that is sent leaves its content to a place in the socket. *)
LEMMA SendCounted ==
  ASSUME NEW f, NEW s, NEW c, Counted(f, s, c), NEW m \in Messages, NEW g \in Handles
  PROVE  Counted([f EXCEPT ![m] = nullptr], [s EXCEPT ![g].out = Append(@, f[m])], c)
<1> DEFINE f2 == [f EXCEPT ![m] = nullptr]
           s2 == [s EXCEPT ![g].out = Append(@, f[m])]
<1>1. /\ f \in [Messages -> OrNull(Handles)] /\ f[m] \in OrNull(Handles)
      /\ s \in [Handles -> SocketRecord] /\ c \in [Handles -> ContentRecord]
      /\ f2 \in [Messages -> OrNull(Handles)]
      /\ f2[m] = nullptr /\ \A n \in Messages \ {m} : f2[n] = f[n]
  BY DEF Counted, OrNull
<1>2. s2 \in [Handles -> SocketRecord]
  <2>1. Append(s[g].out, f[m]) \in Seq(OrNull(Handles))
    BY <1>1 DEF SocketRecord
  <2> QED BY <1>1, <2>1 DEF SocketRecord
<1>a. s2[g].out = Append(s[g].out, f[m]) /\ \A x \in Handles \ {g} : s2[x].out = s[x].out
  BY <1>1 DEF SocketRecord
<1>3. ASSUME NEW k \in Handles
      PROVE  /\ IsFiniteSet(MessageHolders(f2, k)) /\ IsFiniteSet(SocketHolders(s2, k))
             /\ c[k].refs - c[k].refs =
                  (Cardinality(MessageHolders(f2, k)) - Cardinality(MessageHolders(f, k)))
                    + (Cardinality(SocketHolders(s2, k)) - Cardinality(SocketHolders(s, k)))
             /\ c[k].refs > 0 => (c[k].bytes = c[k].bytes /\ c[k].refs > 0) \/ c[k].bytes \in Bytes
  <2>1. IsFiniteSet(MessageHolders(f, k)) /\ IsFiniteSet(SocketHolders(s, k))
    BY DEF Counted, CountedAt
  <2>2. /\ IsFiniteSet(MessageHolders(f2, k))
        /\ Cardinality(MessageHolders(f, k)) \in Nat
        /\ Cardinality(MessageHolders(f2, k)) = Cardinality(MessageHolders(f, k)) - Is(f[m], k) + Is(nullptr, k)
    <3> HIDE DEF f2
    <3> QED BY <1>1, <2>1, MessageCount
  <2>3. /\ IsFiniteSet(SocketHolders(s2, k))
        /\ Cardinality(SocketHolders(s, k)) \in Nat
        /\ Cardinality(SocketHolders(s2, k)) = Cardinality(SocketHolders(s, k)) + Is(f[m], k)
    <3> HIDE DEF s2
    <3> QED BY <1>1, <1>a, <2>1, AppendCount
  <2>4. Is(nullptr, k) = 0 /\ Is(f[m], k) \in {0, 1} /\ c[k].refs \in Nat
    BY <1>1, ZmqAssumption DEF Is, ContentRecord
  <2> HIDE DEF f2, s2
  <2> QED BY <2>2, <2>3, <2>4
<1> HIDE DEF f2, s2
<1>4. Counted(f2, s2, c)
  BY <1>1, <1>2, <1>3, LedgerMoves
<1> QED BY <1>4 DEF f2, s2

(* A buffer that is sent gets a content of its own. *)
LEMMA SendNewCounted ==
  ASSUME NEW f, NEW s, NEW c, Counted(f, s, c), NEW g \in Handles,
         NEW h \in Handles, c[h].refs = 0, NEW new \in ContentRecord, new.refs = 1, new.bytes \in Bytes
  PROVE  Counted(f, [s EXCEPT ![g].out = Append(@, h)], [c EXCEPT ![h] = new])
<1> DEFINE s2 == [s EXCEPT ![g].out = Append(@, h)]
           c2 == [c EXCEPT ![h] = new]
<1>1. /\ f \in [Messages -> OrNull(Handles)] /\ h \in OrNull(Handles)
      /\ s \in [Handles -> SocketRecord] /\ c \in [Handles -> ContentRecord]
      /\ c2 \in [Handles -> ContentRecord]
  BY DEF Counted, OrNull
<1>2. s2 \in [Handles -> SocketRecord]
  <2>1. Append(s[g].out, h) \in Seq(OrNull(Handles))
    BY <1>1 DEF SocketRecord
  <2> QED BY <1>1, <2>1 DEF SocketRecord
<1>a. s2[g].out = Append(s[g].out, h) /\ \A x \in Handles \ {g} : s2[x].out = s[x].out
  BY <1>1 DEF SocketRecord
<1>3. ASSUME NEW k \in Handles
      PROVE  /\ IsFiniteSet(MessageHolders(f, k)) /\ IsFiniteSet(SocketHolders(s2, k))
             /\ c2[k].refs - c[k].refs =
                  (Cardinality(MessageHolders(f, k)) - Cardinality(MessageHolders(f, k)))
                    + (Cardinality(SocketHolders(s2, k)) - Cardinality(SocketHolders(s, k)))
             /\ c2[k].refs > 0 => (c2[k].bytes = c[k].bytes /\ c[k].refs > 0) \/ c2[k].bytes \in Bytes
  <2>1. IsFiniteSet(MessageHolders(f, k)) /\ IsFiniteSet(SocketHolders(s, k))
    BY DEF Counted, CountedAt
  <2>2. /\ IsFiniteSet(SocketHolders(s2, k))
        /\ Cardinality(SocketHolders(s, k)) \in Nat
        /\ Cardinality(SocketHolders(s2, k)) = Cardinality(SocketHolders(s, k)) + Is(h, k)
    <3> HIDE DEF s2
    <3>1. /\ s \in [Handles -> SocketRecord] /\ h \in OrNull(Handles)
          /\ IsFiniteSet(SocketHolders(s, k))
      BY <1>1, <2>1
    <3> QED BY <1>a, <3>1, AppendCount
  <2>3. /\ c[k].refs \in Nat /\ c2[k].refs = c[k].refs + Is(h, k)
        /\ c2[k].refs > 0 => (c2[k].bytes = c[k].bytes /\ c[k].refs > 0) \/ c2[k].bytes \in Bytes
    BY <1>1 DEF Is, ContentRecord
  <2>4. Is(h, k) \in {0, 1}
    BY DEF Is
  <2>5. Cardinality(MessageHolders(f, k)) \in Nat
    BY <2>1, FS_CardinalityType
  <2> HIDE DEF s2, c2
  <2> QED BY <2>1, <2>2, <2>3, <2>4, <2>5
<1> HIDE DEF s2, c2
<1>4. Counted(f, s2, c2)
  BY <1>1, <1>2, <1>3, LedgerMoves
<1> QED BY <1>4 DEF s2, c2

(* The I/O thread drops the reference of the place it empties. *)
LEMMA FlushCounted ==
  ASSUME NEW f, NEW s, NEW c, Counted(f, s, c), NEW g \in Handles, s[g].out # <<>>,
         NEW s2 \in [Handles -> SocketRecord], s2[g].out = Tail(s[g].out),
         \A h \in Handles \ {g} : s2[h].out = s[h].out
  PROVE  Counted(f, s2, Unref(Head(s[g].out), c))
<1> DEFINE v == Head(s[g].out)
           c2 == Unref(v, c)
<1>1. /\ f \in [Messages -> OrNull(Handles)]
      /\ s \in [Handles -> SocketRecord] /\ c \in [Handles -> ContentRecord]
  BY DEF Counted
<1>2. v \in OrNull(Handles) /\ (v # nullptr => c[v].refs > 0)
  BY HeldIsCounted
<1> HIDE DEF v
<1>3. /\ c2 \in [Handles -> ContentRecord]
      /\ \A k \in Handles :
           /\ c2[k].refs = c[k].refs - Is(v, k)
           /\ c2[k].refs > 0 => c2[k].bytes = c[k].bytes
  BY <1>1, <1>2, UnrefCount
<1>4. ASSUME NEW k \in Handles
      PROVE  /\ IsFiniteSet(MessageHolders(f, k)) /\ IsFiniteSet(SocketHolders(s2, k))
             /\ c2[k].refs - c[k].refs =
                  (Cardinality(MessageHolders(f, k)) - Cardinality(MessageHolders(f, k)))
                    + (Cardinality(SocketHolders(s2, k)) - Cardinality(SocketHolders(s, k)))
             /\ c2[k].refs > 0 => (c2[k].bytes = c[k].bytes /\ c[k].refs > 0) \/ c2[k].bytes \in Bytes
  <2>1. IsFiniteSet(MessageHolders(f, k)) /\ IsFiniteSet(SocketHolders(s, k))
    BY DEF Counted, CountedAt
  <2>2. /\ IsFiniteSet(SocketHolders(s2, k))
        /\ Cardinality(SocketHolders(s, k)) \in Nat
        /\ Cardinality(SocketHolders(s2, k)) = Cardinality(SocketHolders(s, k)) - Is(v, k)
    BY <1>1, <2>1, TailCount DEF v
  <2>3. c[k].refs \in Nat /\ Is(v, k) \in {0, 1}
    BY <1>1 DEF Is, ContentRecord
  <2>4. Cardinality(MessageHolders(f, k)) \in Nat
    BY <2>1, FS_CardinalityType
  <2> HIDE DEF c2
  <2> QED BY <1>3, <2>1, <2>2, <2>3, <2>4
<1> HIDE DEF c2
<1>5. Counted(f, s2, c2)
  BY <1>1, <1>3, <1>4, LedgerMoves
<1> QED BY <1>5 DEF c2, v

(* What else happens to the sockets leaves their queues alone. *)
LEMMA SameCounted ==
  ASSUME NEW f, NEW s, NEW c, Counted(f, s, c), NEW s2 \in [Handles -> SocketRecord],
         \A h \in Handles : s2[h].out = s[h].out
  PROVE  Counted(f, s2, c)
<1>1. ASSUME NEW k PROVE SocketHolders(s2, k) = SocketHolders(s, k)
  <2>1. \A p : p \in SocketHolders(s2, k) <=> p \in SocketHolders(s, k)
    BY PlaceOf
  <2> QED BY <2>1
<1> QED BY <1>1 DEF Counted, CountedAt

(* A handle that is no socket holds nothing: a socket lingers, and keeps its *)
(* context, until its queue is empty.                                        *)
QuietInv == \A h \in Handles : IsSocket(h) \/ zmq_sockets[h].out = <<>>

CountInv == Counted(msg, zmq_sockets, zmq_contents) /\ QuietInv

(* Operations on sockets that leave the queues as they are, *)
LEMMA SocketsFrame ==
  ASSUME CountInv, ZmqInv', UNCHANGED messageVars,
         \A h \in Handles :
           /\ zmq_sockets'[h].out = zmq_sockets[h].out
           /\ zmq_sockets'[h].context = zmq_sockets[h].context \/ zmq_sockets'[h].out = <<>>
  PROVE  CountInv'
<1>1. Counted(msg, zmq_sockets, zmq_contents) /\ zmq_sockets' \in [Handles -> SocketRecord]
  BY DEF CountInv, ZmqInv, ZmqTypeOK
<1>2. Counted(msg, zmq_sockets', zmq_contents)
  BY <1>1, SameCounted
<1>3. msg' = msg /\ zmq_contents' = zmq_contents
  BY DEF messageVars
<1> QED BY <1>2, <1>3 DEF CountInv, QuietInv, IsSocket

(* and operations on messages. *)
LEMMA MessagesFrame ==
  ASSUME CountInv, UNCHANGED zmq_sockets, Counted(msg', zmq_sockets, zmq_contents')
  PROVE  CountInv'
BY DEF CountInv, QuietInv, IsSocket

(* A closed socket keeps what it has to send, or had nothing. *)
LEMMA AfterCloseOut ==
  ASSUME NEW r \in SocketRecord
  PROVE  /\ AfterClose(r).out = r.out
         /\ AfterClose(r).context = r.context \/ AfterClose(r).out = <<>>
BY DEF AfterClose, NoSocket, SocketRecord

(* So closing keeps every queue of what is to be sent. *)
LEMMA CloseKeepsQueues ==
  ASSUME zmq_sockets \in [Handles -> SocketRecord], NEW h \in OrNull(Handles), CloseSocket(h)
  PROVE  \A g \in Handles :
           /\ zmq_sockets'[g].out = zmq_sockets[g].out
           /\ zmq_sockets'[g].context = zmq_sockets[g].context \/ zmq_sockets'[g].out = <<>>
<1>1. CASE h = nullptr
  BY <1>1 DEF CloseSocket
<1>2. CASE h # nullptr
  <2>1. h \in Handles /\ zmq_sockets' = [zmq_sockets EXCEPT ![h] = AfterClose(zmq_sockets[h])]
    BY <1>2 DEF CloseSocket, OrNull
  <2> QED BY <2>1, AfterCloseOut
<1> QED BY <1>1, <1>2

(* Operations on sockets move no content, *)
LEMMA SocketOpCounts ==
  ASSUME ZmqInv, CountInv, NEW s \in Sockets, SocketOp(s), ZmqInv'
  PROVE  CountInv'
<1>a. zmq_sockets \in [Handles -> SocketRecord] /\ _handle[s] \in OrNull(Handles)
  BY DEF ZmqInv, ZmqTypeOK
<1>1. CASE SocketClose(s) \/ SocketDestroy(s) \/ \E other \in Sockets : SocketAssign(s, other)
  <2>1. CloseSocket(_handle[s]) /\ UNCHANGED messageVars
    BY <1>1 DEF SocketClose, SocketDestroy, SocketClosed, SocketAssign
  <2> QED BY <1>a, <2>1, CloseKeepsQueues, SocketsFrame
<1>2. CASE \E c \in Contexts, type \in Types : SocketNew(s, c, type)
  <2>1. PICK c \in Contexts, type \in Types : SocketNew(s, c, type)
    BY <1>2
  <2> DEFINE new == [context |-> ptr[c], type |-> type, open |-> TRUE, out |-> <<>>, in |-> <<>>]
  <2>2. PICK h \in Handles : ~IsSocket(h) /\ zmq_sockets' = [zmq_sockets EXCEPT ![h] = new]
    BY <2>1 DEF SocketNew
  <2>3. new.out = <<>>
    OBVIOUS
  <2> HIDE DEF new
  <2>4. zmq_sockets[h].out = <<>> /\ UNCHANGED messageVars
    BY <2>1, <2>2 DEF SocketNew, CountInv, QuietInv
  <2> QED BY <1>a, <2>2, <2>3, <2>4, SocketsFrame
<1>3. CASE SocketDefault(s) \/ \E other \in Sockets : SocketMove(s, other) \/ SocketSwap(s, other)
  <2>1. UNCHANGED <<zmq_sockets, messageVars>>
    BY <1>3 DEF SocketDefault, SocketMove, SocketSwap, socketVars
  <2> QED BY <2>1, SocketsFrame
<1> QED BY <1>1, <1>2, <1>3 DEF SocketOp

(* The message m, which has no content left, is filled. *)
LEMMA FillCounted ==
  ASSUME msg \in [Messages -> OrNull(Handles)], NEW m \in Messages, NEW bytes \in Bytes, NEW c,
         Counted([msg EXCEPT ![m] = nullptr], zmq_sockets, c), Fill(m, bytes, c)
  PROVE  Counted(msg', zmq_sockets, zmq_contents')
<1> DEFINE f == [msg EXCEPT ![m] = nullptr]
           new == [refs |-> 1, bytes |-> bytes]
<1>1. PICK h \in Handles :
        c[h].refs = 0 /\ msg' = [msg EXCEPT ![m] = h] /\ zmq_contents' = [c EXCEPT ![h] = new]
  BY DEF Fill
<1>2. f[m] = nullptr /\ msg' = [f EXCEPT ![m] = h]
  BY <1>1
<1>3. new \in ContentRecord /\ new.refs = c[h].refs + 1 /\ new.bytes \in Bytes
  BY <1>1 DEF ContentRecord
<1> HIDE DEF f, new
<1>4. Counted([f EXCEPT ![m] = h], zmq_sockets, [c EXCEPT ![h] = new])
  BY <1>2, <1>3, GainCounted DEF f
<1> QED BY <1>1, <1>2, <1>4

(* those on messages count every holder that comes or goes, *)
LEMMA MessageOpCounts ==
  ASSUME ZmqInv, CountInv, NEW m \in Messages, MessageOp(m)
  PROVE  CountInv'
<1> DEFINE f == [msg EXCEPT ![m] = nullptr]
           c == Unref(msg[m], zmq_contents)
<1>a. /\ msg \in [Messages -> OrNull(Handles)]
      /\ Counted(msg, zmq_sockets, zmq_contents)
      /\ m \notin alive => msg[m] = nullptr
  BY DEF ZmqInv, ZmqTypeOK, CountInv
<1>b. Counted(f, zmq_sockets, c)
  BY <1>a, DropCounted
<1>c. m \notin alive => f = msg
  BY <1>a
<1>d. f[m] = nullptr /\ \A other \in Messages \ {m} : f[other] = msg[other]
  BY <1>a
<1>e. UNCHANGED zmq_sockets
  BY DEF MessageOp, MessageDefault, MessageDestroy, MessageRebuild, MessageNew, MessageRebuildAs,
         MessageMove, MessageSwap, MessageTake, MessageCopy, socketVars
<1> SUFFICES Counted(msg', zmq_sockets, zmq_contents')
  BY <1>e, MessagesFrame
<1> HIDE DEF c
<1>1. CASE MessageDefault(m)
  BY <1>1, <1>a DEF MessageDefault, messageVars
<1>2. CASE MessageDestroy(m) \/ MessageRebuild(m)
  BY <1>2, <1>b DEF MessageDestroy, MessageRebuild, c
<1>3. ASSUME NEW bytes \in Bytes, MessageNew(m, bytes) PROVE Counted(msg', zmq_sockets, zmq_contents')
  <2>1. Fill(m, bytes, zmq_contents) /\ m \notin alive
    BY <1>3 DEF MessageNew, Construct
  <2> QED BY <1>a, <1>c, <2>1, FillCounted
<1>4. ASSUME NEW bytes \in Bytes, MessageRebuildAs(m, bytes) PROVE Counted(msg', zmq_sockets, zmq_contents')
  <2>1. Fill(m, bytes, c)
    BY <1>4 DEF MessageRebuildAs, c
  <2> QED BY <1>a, <1>b, <2>1, FillCounted
<1>5. ASSUME NEW other \in Messages \ {m}, MessageMove(m, other)
      PROVE  Counted(msg', zmq_sockets, zmq_contents')
  <2>1. /\ m \notin alive /\ zmq_contents' = zmq_contents
        /\ msg' = [msg EXCEPT ![m] = msg[other], ![other] = nullptr]
    BY <1>5 DEF MessageMove, Construct
  <2> QED BY <1>a, <2>1, MoveCounted
<1>6. ASSUME NEW other \in Messages \ {m}, MessageSwap(m, other)
      PROVE  Counted(msg', zmq_sockets, zmq_contents')
  <2>1. msg' = Swapped(msg, m, other) /\ zmq_contents' = zmq_contents
    BY <1>6 DEF MessageSwap
  <2> QED BY <1>a, <2>1, SwapCounted
<1>7. ASSUME NEW other \in Messages \ {m}, MessageTake(m, other)
      PROVE  Counted(msg', zmq_sockets, zmq_contents')
  <2>1. msg' = [msg EXCEPT ![m] = msg[other], ![other] = nullptr] /\ zmq_contents' = c
    BY <1>7 DEF MessageTake, c
  <2>2. msg' = [f EXCEPT ![m] = f[other], ![other] = nullptr]
    BY <1>a, <2>1
  <2> HIDE DEF f
  <2>3. Counted([f EXCEPT ![m] = f[other], ![other] = nullptr], zmq_sockets, c)
    <3>1. m # other /\ other \in Messages /\ f[m] = nullptr
      BY <1>d
    <3> QED BY <1>b, <3>1, MoveCounted
  <2> QED BY <2>1, <2>2, <2>3
<1>8. ASSUME NEW other \in Messages \ {m}, MessageCopy(m, other)
      PROVE  Counted(msg', zmq_sockets, zmq_contents')
  <2> DEFINE h == msg[other]
  <2>1. /\ msg' = [msg EXCEPT ![m] = h]
        /\ zmq_contents' = IF h = nullptr THEN c ELSE [c EXCEPT ![h].refs = @ + 1]
    BY <1>8 DEF MessageCopy, c
  <2>2. CASE h = nullptr
    BY <1>b, <2>1, <2>2
  <2>3. CASE h # nullptr
    <3> DEFINE new == [c[h] EXCEPT !.refs = @ + 1]
    <3>1. h \in Handles /\ f[other] = h
      BY <1>a, <2>3 DEF OrNull
    <3>2. c[h].refs > 0
      BY <1>b, <2>3, <3>1, HeldIsCounted
    <3>3. c \in [Handles -> ContentRecord]
      BY <1>b DEF Counted
    <3>4. new \in ContentRecord /\ new.refs = c[h].refs + 1 /\ new.bytes = c[h].bytes
      BY <3>1, <3>3 DEF ContentRecord
    <3>5. zmq_contents' = [c EXCEPT ![h] = new]
      BY <2>1, <2>3
    <3>6. msg' = [f EXCEPT ![m] = h]
      BY <1>a, <2>1
    <3> HIDE DEF f, h, new
    <3>7. Counted([f EXCEPT ![m] = h], zmq_sockets, [c EXCEPT ![h] = new])
      BY <1>b, <1>d, <3>1, <3>2, <3>4, GainCounted
    <3> QED BY <3>5, <3>6, <3>7
  <2> QED BY <2>2, <2>3
<1> QED BY <1>1, <1>2, <1>3, <1>4, <1>5, <1>6, <1>7, <1>8 DEF MessageOp

(* and so do send and recv, *)
LEMMA TransferOpCounts ==
  ASSUME ZmqInv, CountInv, NEW s \in Sockets, TransferOp(s), ZmqInv'
  PROVE  CountInv'
<1> DEFINE g == _handle[s]
<1>a. /\ msg \in [Messages -> OrNull(Handles)]
      /\ zmq_sockets \in [Handles -> SocketRecord]
      /\ Counted(msg, zmq_sockets, zmq_contents)
      /\ QuietInv
  BY DEF ZmqInv, ZmqTypeOK, CountInv
<1>b. Connected(s) => g \in Handles /\ IsSocket(g)
  BY DEF Connected, ZmqInv, ZmqTypeOK, SocketsOwned, OrNull
<1> HIDE DEF g
<1>1. ASSUME NEW m \in Messages, Send(s, m) PROVE CountInv'
  <2>1. /\ g \in Handles /\ IsSocket(g)
        /\ zmq_sockets' = [zmq_sockets EXCEPT ![g].out = Append(@, msg[m])]
        /\ msg' = [msg EXCEPT ![m] = nullptr]
        /\ zmq_contents' = zmq_contents
    BY <1>1, <1>b DEF Send, Put, g
  <2>2. Counted([msg EXCEPT ![m] = nullptr], [zmq_sockets EXCEPT ![g].out = Append(@, msg[m])], zmq_contents)
    BY <1>a, <2>1, SendCounted
  <2>3. QuietInv'
    BY <1>a, <2>1 DEF QuietInv, IsSocket, SocketRecord
  <2> QED BY <2>1, <2>2, <2>3 DEF CountInv
<1>2. ASSUME NEW bytes \in Bytes, SendBuffer(s, bytes) PROVE CountInv'
  <2> DEFINE new == [refs |-> 1, bytes |-> bytes]
  <2>1. PICK h \in Handles :
          /\ ~IsContent(h)
          /\ zmq_contents' = [zmq_contents EXCEPT ![h] = new]
          /\ zmq_sockets' = [zmq_sockets EXCEPT ![g].out = Append(@, h)]
    BY <1>2 DEF SendBuffer, Put, g
  <2>2. g \in Handles /\ IsSocket(g) /\ msg' = msg
    BY <1>2, <1>b DEF SendBuffer
  <2>3. zmq_contents[h].refs = 0
    BY <1>a, <2>1 DEF IsContent, Counted, ContentRecord
  <2>4. new \in ContentRecord /\ new.refs = 1 /\ new.bytes \in Bytes
    BY DEF ContentRecord
  <2>5. QuietInv'
    BY <1>a, <2>1, <2>2 DEF QuietInv, IsSocket, SocketRecord
  <2> HIDE DEF new
  <2>6. Counted(msg, [zmq_sockets EXCEPT ![g].out = Append(@, h)], [zmq_contents EXCEPT ![h] = new])
    BY <1>a, <2>2, <2>3, <2>4, SendNewCounted
  <2> QED BY <2>1, <2>2, <2>5, <2>6 DEF CountInv
<1>3. ASSUME NEW m \in Messages, Recv(s, m) PROVE CountInv'
  <2> DEFINE bytes == Head(zmq_sockets[g].in)
             c == Unref(msg[m], zmq_contents)
  <2>1. /\ g \in Handles /\ zmq_sockets[g].in # <<>>
        /\ Fill(m, bytes, c)
        /\ zmq_sockets' = Got(g)
    BY <1>3, <1>b DEF Recv, HasInput, g
  <2>2. bytes \in Bytes
    <3>1. zmq_sockets[g].in \in Seq(Bytes)
      BY <1>a, <2>1 DEF SocketRecord
    <3> QED BY <2>1, <3>1
  <2>3. Counted([msg EXCEPT ![m] = nullptr], zmq_sockets, c)
    BY <1>a, DropCounted
  <2> HIDE DEF bytes, c
  <2>4. Counted(msg', zmq_sockets, zmq_contents')
    BY <1>a, <2>1, <2>2, <2>3, FillCounted
  <2>5. \A h \in Handles : /\ zmq_sockets'[h].out = zmq_sockets[h].out
                          /\ zmq_sockets'[h].context = zmq_sockets[h].context
    BY <1>a, <2>1 DEF Got, SocketRecord
  <2>6. Counted(msg', zmq_sockets', zmq_contents')
    BY <2>4, <2>5, SameCounted DEF ZmqInv, ZmqTypeOK
  <2> QED BY <1>a, <2>5, <2>6 DEF CountInv, QuietInv, IsSocket
<1>4. CASE RecvBuffer(s)
  <2>1. g \in Handles /\ zmq_sockets' = Got(g) /\ UNCHANGED messageVars
    BY <1>4, <1>b DEF RecvBuffer, HasInput, g
  <2>2. \A h \in Handles : /\ zmq_sockets'[h].out = zmq_sockets[h].out
                          /\ zmq_sockets'[h].context = zmq_sockets[h].context
    BY <1>a, <2>1 DEF Got, SocketRecord
  <2> QED BY <2>1, <2>2, SocketsFrame
<1> QED BY <1>1, <1>2, <1>3, <1>4 DEF TransferOp

(* and libzmq when it delivers or drops a message. *)
LEMMA NetworkCounts ==
  ASSUME ZmqInv, CountInv, NEW h \in Handles, Flush(h) \/ \E bytes \in Bytes : Deliver(h, bytes),
         ZmqInv'
  PROVE  CountInv'
<1>a. /\ zmq_sockets \in [Handles -> SocketRecord] /\ zmq_sockets' \in [Handles -> SocketRecord]
      /\ Counted(msg, zmq_sockets, zmq_contents)
      /\ QuietInv
  BY DEF ZmqInv, ZmqTypeOK, CountInv
<1>1. CASE Flush(h)
  <2> DEFINE q == zmq_sockets[h].out
             rest == [zmq_sockets[h] EXCEPT !.out = Tail(@)]
             new == Remainder(rest)
  <2>1. /\ q # <<>> /\ msg' = msg
        /\ zmq_sockets' = [zmq_sockets EXCEPT ![h] = new]
        /\ zmq_contents' = Unref(Head(q), zmq_contents)
    BY <1>1 DEF Flush, Flushed, Remainder
  <2>2. rest \in SocketRecord /\ rest.out = Tail(q) /\ rest.context = zmq_sockets[h].context
    <3>1. Tail(q) \in Seq(OrNull(Handles))
      BY <1>a, <2>1 DEF SocketRecord
    <3> QED BY <1>a, <3>1 DEF SocketRecord
  <2> HIDE DEF rest
  <2>3. new.out = Tail(q) /\ (new.context = zmq_sockets[h].context \/ new.out = <<>>)
    BY <2>2, AfterCloseOut DEF Remainder
  <2> HIDE DEF new
  <2>4. /\ zmq_sockets'[h].out = Tail(q)
        /\ \A g \in Handles \ {h} : zmq_sockets'[g].out = zmq_sockets[g].out
    BY <1>a, <2>1, <2>3
  <2>5. IsSocket(h)
    BY <1>a, <2>1 DEF QuietInv
  <2>6. QuietInv'
    BY <1>a, <2>1, <2>3, <2>5 DEF QuietInv, IsSocket
  <2>7. Counted(msg, zmq_sockets', Unref(Head(q), zmq_contents))
    BY <1>a, <2>1, <2>4, FlushCounted
  <2> QED BY <2>1, <2>6, <2>7 DEF CountInv
<1>2. ASSUME NEW bytes \in Bytes, Deliver(h, bytes) PROVE CountInv'
  <2>1. /\ UNCHANGED messageVars
        /\ \A g \in Handles : /\ zmq_sockets'[g].out = zmq_sockets[g].out
                             /\ zmq_sockets'[g].context = zmq_sockets[g].context
    BY <1>2, <1>a DEF Deliver, SocketRecord
  <2> QED BY <2>1, SocketsFrame
<1> QED BY <1>1, <1>2

(* The counts are kept in every step. *)
LEMMA CountStep == ZmqInv /\ CountInv /\ [ZmqNext]_zmqVars => CountInv'
<1> SUFFICES ASSUME ZmqInv, CountInv, [ZmqNext]_zmqVars PROVE CountInv'
  OBVIOUS
<1>1. ZmqInv'
  BY StepInv
<1>2. CASE UNCHANGED zmqVars \/ \E c \in Contexts : ContextOp(c)
  <2>1. UNCHANGED <<messageVars, zmq_sockets>>
    BY <1>2 DEF zmqVars, socketVars, ContextOp, ContextNew, ContextClose, ContextDestroy, ContextMove,
                ContextAssign, ContextSwap
  <2> QED BY <1>1, <2>1, SocketsFrame
<1>3. CASE ZmqNext
  BY <1>1, <1>2, <1>3, SocketOpCounts, MessageOpCounts, TransferOpCounts, NetworkCounts DEF ZmqNext
<1> QED BY <1>2, <1>3

(* Kept counts say that a content lives as long as it has a holder. *)
LEMMA CountsAreRight == CountInv => ContentsCounted
<1> SUFFICES ASSUME CountInv PROVE ContentsCounted
  OBVIOUS
<1>1. \A h \in Handles : zmq_contents[h].refs = Holders(h)
  BY HoldersAre DEF CountInv, Counted, CountedAt
<1>2. ASSUME NEW m \in Messages, msg[m] # nullptr PROVE data(m) \in Bytes
  <2>1. msg[m] \in Handles
    BY <1>2 DEF CountInv, Counted, OrNull
  <2>2. zmq_contents[msg[m]].refs > 0
    BY <1>2, HeldIsCounted DEF CountInv
  <2> QED BY <1>2, <2>1, <2>2 DEF data, CountInv, Counted, CountedAt
<1> QED BY <1>1, <1>2 DEF ContentsCounted

(* Nothing has been sent, and no content is used. *)
LEMMA CountInit == ZmqInit => CountInv
<1> SUFFICES ASSUME ZmqInit PROVE CountInv
  OBVIOUS
<1>1. /\ msg \in [Messages -> OrNull(Handles)]
      /\ zmq_sockets \in [Handles -> SocketRecord]
  BY InitInv DEF ZmqInv, ZmqTypeOK
<1>2. zmq_contents \in [Handles -> ContentRecord]
  BY DEF ZmqInit, ContentRecord, NoContent
<1>3. ASSUME NEW k \in Handles PROVE CountedAt(msg, zmq_sockets, zmq_contents, k)
  <2>1. MessageHolders(msg, k) = {}
    BY ZmqAssumption DEF ZmqInit, MessageHolders
  <2>2. \A g \in Handles : zmq_sockets[g].out = <<>> /\ DOMAIN zmq_sockets[g].out = {}
    BY DEF ZmqInit, NoSocket
  <2>3. SocketHolders(zmq_sockets, k) = {}
    BY <2>2, PlaceOf
  <2>4. zmq_contents[k].refs = 0
    BY DEF ZmqInit, NoContent
  <2> QED BY <2>1, <2>3, <2>4, FS_EmptySet DEF CountedAt
<1>4. QuietInv
  BY DEF ZmqInit, NoSocket, QuietInv
<1> QED BY <1>1, <1>2, <1>3, <1>4 DEF CountInv, Counted

(* message_t: a content is freed with the last message or socket that holds  *)
(* it, neither before nor never, however the messages are copied, moved,     *)
(* rebuilt, sent, received and destroyed.                                    *)
THEOREM ContentsHaveHolders == ZmqSpec => []ContentsCounted
BY CountInit, CountStep, CountsAreRight, ZmqInvariant, PTL DEF ZmqSpec
==============================================================================
