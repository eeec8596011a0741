SPECIFICATION FairSpec
CONSTANTS
  Requests = {r1}
  NoRequest = NoRequest
  Capacity = 1
  Events = {"response.created", "item", "error", "response.completed", "response.incomplete", "response.failed"}
  MaxFrames = 3
  EncodeMayFail = TRUE
  AdapterStops = FALSE
  StoreMayFail = TRUE
INVARIANTS
  NothingAfterTheEnd
  StreamsEndProperly
  SavedThoughTheClientLeft
PROPERTIES
  EveryRequestIsAnswered
