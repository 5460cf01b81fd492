CONSTANTS
  Alice = Alice
  Bob = Bob
  MaxSkip = 1
  MaxCounter = 3
  MaxKeys = 3
  CorruptNumbers = {1}
SPECIFICATION Spec
INVARIANTS
  TypeOK
  KeyAgreement
  NoReplay
  UniqueMessageKeys
  ForwardSecrecy
  SkippedKeysBounded
  InChainOutOfOrder
  NewChainOpens
PROPERTY ImplementsChannel
