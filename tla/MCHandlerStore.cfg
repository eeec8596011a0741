SPECIFICATION Spec
CONSTANTS
  Requests = {r1, r2, r3}
  NoRequest = NoRequest
  Capacity = 1
  Events = {"response.created", "response.completed"}
  MaxFrames = 1
  EncodeMayFail = FALSE
  AdapterStops = FALSE
  StoreMayFail = TRUE
SYMMETRY RequestSymmetry
INVARIANTS
  TypeOK
  ToldMeansSaved
  ContinuationFound
  StoredHistoriesAreConversations
  OnlyFinishedResponsesAreContinued
