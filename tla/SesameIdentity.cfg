SPECIFICATION Spec
CONSTANTS
  Device = {1, 2, 3}
  LocalDevice = 3
  MaxLatency = 2
  Second = 2
  MaxAttempts = 2
  MaxSessions = 1
  MaxTime = 4
  MaxCalls = 1
  MaxReinstalls = 1
  Senders = {1}
  Marked = {1}
  Reinstalled = {2}
PROPERTY RosterKeepsTrustedSession
