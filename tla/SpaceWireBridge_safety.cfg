SPECIFICATION MCSpec
CONSTANTS
  b1 = b1
  b2 = b2
  p1 = p1
  p2 = p2
  q1 = q1
  BridgeIds = {b1, b2}
  Packets <- ThreePackets
  BridgeOf <- ThreeBridgeOf
  Loopback = {p1, p2}
  Unsolicited = {q1}
  QueueCapacity = 2
  MaxTries = 1
  MaxSent <- SentBound
INVARIANTS
  BridgeTypeOK
  SendConservation
  PerBridgeOrder
  DestructorJoins
