SPECIFICATION MCSpec
CONSTANTS
  Contexts <- MCContexts
  Sockets <- MCSockets
  Messages = {}
  Types <- socket_type
  Bytes <- Frames
  Documents <- MCDocuments
  YML_Config <- MCYML_Config
  Files <- MCFiles
  Registered <- MCRegistered
  Payloads <- MCPayloads
  Topic = 0
  MaxCalls = 3
  Handles = {1, 2, 3, 4, 5}
  nullptr = nullptr
  Number <- MCNumber
  Decimals = {"1.5"}
  IntMax = 32767
CHECK_DEADLOCK FALSE
INVARIANTS
  ProgramTypeOK
  FormatsAgree
  NoGaps
PROPERTIES
  CallReturns
  SubscribedIsServed
  ProgramEnds
