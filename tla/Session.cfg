CONSTANTS
  Alice = Alice
  Bob = Bob
  Stranger = Stranger
  MaxArchived = 1
  MaxSkip = 1
  OneTime = {1, 2}
  Kyber = {TRUE}
  WithoutOneTime = FALSE
  Deleters = {Alice}
  Damages = {Bob}
  Interrupts = {Bob}
  OtherEncoders = {Bob}
  Expires = {Bob}
  MaxSessions = 3
  MaxSent = 5
SPECIFICATION Spec
INVARIANTS
  TypeOK
  SessionsGenuine
  NextMessageOpens
PROPERTIES
  OnlyOldestForgotten
  ImplementsChannel
CHECK_DEADLOCK FALSE
