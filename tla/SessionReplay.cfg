CONSTANTS
  Alice = Alice
  Bob = Bob
  Stranger = Stranger
  MaxArchived = 1
  MaxSkip = 1
  OneTime = {}
  Kyber = {TRUE}
  WithoutOneTime = TRUE
  Deleters = {Alice}
  Damages = {}
  Interrupts = {}
  OtherEncoders = {Bob}
  Expires = {}
  MaxSessions = 4
  MaxSent = 3
SPECIFICATION Spec
INVARIANT NoReplay
CHECK_DEADLOCK FALSE
