SPECIFICATION Spec
CONSTANTS
  MaxTurns = 3
  CacheSize = 1
  Settings <- Careless
INVARIANTS
  ErrorAloneEndsTheTurn
