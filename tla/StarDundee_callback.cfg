SPECIFICATION StarSpec
CONSTANTS
  p0 = p0
  p1 = p1
  q0 = q0
  t0 = t0
  t1 = t1
  t2 = t2
  t3 = t3
  ChannelCount = 2
  Packets <- MCPackets
  ChannelOf <- MCChannelOf
  DeviceLists <- MCDeviceLists
  trim <- MCtrim
  SerialNumber = "30170316"
  TxPackets <- MCTxPackets
  PortOf <- MCPortOf
  Empty = {t0}
  Ports = {0}
INVARIANT
  CallbackServesItsChannel
CHECK_DEADLOCK FALSE
