SPECIFICATION FairSpec
CONSTANTS
  MaxDeps = 12
  MaxActions = 1
  MaxItems = 2
  Hellos <- MCHellos
  Acks <- MCAcks
  Reports <- MCReports
  Topics <- MCTopics
  Results <- MCResults
  MaxPayload = 70
  MaxFrames <- TwoAndOne
  MaxShort = 1
  MaxLost = 1
CHECK_DEADLOCK FALSE
INVARIANTS
  TypeOK
  FramesArriveIntact
  DecodeInvertsEncode
  StreamStaysInSync
PROPERTIES
  WrittenIsRead
