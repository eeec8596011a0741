SPECIFICATION ProxyFairSpec
CONSTANTS
  Requests = {r1}
  NoRequest = NoRequest
  Capacity = 1
  Events = {"error"}
  MaxFrames = 1
  EncodeMayFail = FALSE
  AdapterStops = FALSE
  StoreMayFail = FALSE
INVARIANT
  ErrorIsFollowedByFailed
