CONSTANTS
  Receivers = {r1}
  MaxStates = 2
  MaxMessageKeys = 1
  MaxIteration = 4
  MaxIds = 3
  MaxDists = 3
  MaxSent = 4
  MaxEchoes = 2
SPECIFICATION Spec
INVARIANTS
  TypeOK
  UniqueMessageKeys
  KeyAgreement
  NoReplaySinceInstalled
  RecordBounded
  OutOfOrderWithinLimit
  ForwardSecrecy
