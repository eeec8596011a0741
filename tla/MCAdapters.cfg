SPECIFICATION AdaptersSpec
CONSTANTS
  MaxItems = 8
  MaxParts = 8
  MaxTurns = 2
  MaxInput = 4
  MaxKept = 2
  TokenLimits <- Limits
  MaxFrames <- Frames
INVARIANTS
  AdaptersTypeOK
  WritesReachTheOpenItem
  ReplayIsWhatWasHeard
  EndsAsTheProviderSaid
  AnswersFollowTheirCalls
  SignaturesGoHome
  SettingsAreHonoured
