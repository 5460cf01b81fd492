CONSTANTS
  A = A
  B = B
  Needed <- MCNeeded
  ChunkSpace = 1
  IndexSpace = 2
  MaxJump = 2
  MaxOOO = 1
  MaxEpoch = 2
  MaxIndex = 5
  MaxInFlight <- LateToB
  MaxLost <- LostToA
SPECIFICATION Spec
CHECK_DEADLOCK FALSE
INVARIANTS
  SendNeverFails
  SaltAgreement
  RefusedOnlyIfStale
  UniqueSalts
  ChainsBounded
PROPERTIES
  ForwardSecrecy
