SPECIFICATION ServerSpec
CONSTANTS
  b1 = b1
  b2 = b2
  c1 = c1
  c2 = c2
  p1 = p1
  p2 = p2
  q = q
  BridgeIds = {b1, b2}
  Packets <- MCPackets
  BridgeOf <- MCBridgeOf
  Loopback = {p1, p2, q}
  Unsolicited = {}
  Known = {p1, p2}
  Clients = {c1, c2}
  Script <- MCScript
  Patient = {c1, c2}
  Factory = {b1}
  Configured <- MCConfigured
  QueueCapacity = 1
  MaxTries = 1
  MaxSignals = 2
INVARIANT
  SigintOnlyCloses
