SPECIFICATION FairSpec
CONSTANTS
  Requests = {r1}
  NoRequest = NoRequest
  Capacity = 1
  Events = {"response.created", "item", "error", "response.completed", "response.incomplete", "response.failed"}
  MaxFrames = 3
  EncodeMayFail = TRUE
  AdapterStops = TRUE
  StoreMayFail = FALSE
INVARIANT
  NumbersFromZero
