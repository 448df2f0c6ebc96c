SPECIFICATION DeleteFairSpec
CONSTANTS
  Resources = {r1, r2}
  Runs = {x1, x2}
  NoResource = NoResource
  Deadline = 3
  PerCall = 2
  Backoff = 1
  Operations = 3
  MaxFailures = 2
INVARIANTS DeleteTypeOK RemovedIsUnregistered UnaskedIsKept OverrunBounded
PROPERTY DeleteEnds
