SPECIFICATION Spec
CONSTANTS
  MaxTurns = 3
  CacheSize = 1
  Settings <- AllSettings
INVARIANTS
  TypeOK
  ContinuationFound
  ConversationsAreWhole
  SavedResponsesWereSent
  NothingFollowsTheTerminalEvent
  TurnsDoNotMix
PROPERTIES
  AbandonedSessionEnds
  PingAnswered
