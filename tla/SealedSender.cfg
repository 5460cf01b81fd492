CONSTANTS
  Sender = Sender
  Recipients = {P, Q}
  Roots = {Good, Other}
  Trusted = {Good}
  IDs = {Current, Bad}
  Revoked = Bad
  Half = 8
  Expiries <- MCExpiries
  MaxClock = 1
  MaxServerKeys = 2
  MaxCerts = 1
  MaxIdentities = 2
  MaxObjects = 3
SYMMETRY Symmetric
SPECIFICATION Spec
CHECK_DEADLOCK FALSE
INVARIANTS
  AcceptedIsGenuine
  LiveIsAccepted
PROPERTIES
  AcceptedOnlyIfLive
