SPECIFICATION AdaptersSpec
CONSTANTS
  MaxItems = 8
  MaxParts = 8
  MaxTurns = 3
  MaxInput = 0
  MaxKept = 0
  TokenLimits <- Limits
  MaxFrames <- PausedFrames
INVARIANT PausedTurnsAreReplayedWhole
