CONSTANTS
  Alice = Alice
  Bob = Bob
  MaxSkip = 3
  MaxCounter = 4
  MaxKeys = 4
  CorruptNumbers = {}
SPECIFICATION Spec
INVARIANT OutOfOrderWithinLimit
