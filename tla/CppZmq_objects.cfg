SPECIFICATION MCZmqSpec
CONSTANTS
  Contexts = {c1, c2}
  Sockets = {s1, s2}
  Messages = {m1, m2}
  Handles = {h1, h2, h3}
  Types = {pub}
  nullptr = nullptr
  Bytes = {x}
  MaxOut = 1
SYMMETRY MCSymmetry
INVARIANTS
  ZmqTypeOK
  ContextsOwned
  SocketsOwned
  ContentsCounted
