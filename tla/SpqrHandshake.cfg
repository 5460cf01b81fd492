CONSTANTS
  A = A
  B = B
  Needed <- MCNeeded
  ChunkSpace = 2
  IndexSpace = 4
  MaxEpoch = 2
  MaxInFlight = 2
SPECIFICATION FairSpec
INVARIANTS
  TypeOK
  NeverRefused
  ReceiverHasEpoch
  NoMutualWait
PROPERTIES
  ImplementsCKA
  EpochsAdvance
