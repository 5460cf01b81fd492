CONSTANTS
  Receivers = {r1}
  MaxStates = 2
  MaxMessageKeys = 2
  MaxIteration = 3
  MaxIds = 1
  MaxDists = 4
  MaxSent = 3
  MaxEchoes = 0
SPECIFICATION Spec
INVARIANT NoReplay
