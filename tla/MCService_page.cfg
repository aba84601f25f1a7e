\* Two runs of a visitor, one slot, one token that comes back once, and restarts:
\* runs are left behind, refused for the rate or the concurrency, cut off and answered.
CONSTANTS
  Questions = {q1}
  Blank = Blank
  None = None
  HopLists <- OneHopList
  StorageLimit = 1
  MaxRuns = 2
  Clients = {ann}
  Cost = 1
  Burst = 1
  MaxConcurrent = 1
  TTL = 1
  CleanupInterval = 1
  MaxPause = 0
  MaxClock = 1
SPECIFICATION FairSpec
PROPERTY ImplementsPage
PROPERTY EveryRequestAnswered
PROPERTY SubmitRecovers
