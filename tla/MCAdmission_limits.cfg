\* Clean-up and eviction: the smallest TTL the assumption allows, handlers that
\* are held up for a tick, and enough time for every limiter to expire.
CONSTANTS
  Clients = {ann, bob}
  Requests = {r1, r2, r3}
  NoRequest = NoRequest
  Cost = 2
  Burst = 1
  MaxConcurrent = 2
  TTL = 4
  CleanupInterval = 1
  MaxPause = 1
  MaxClock = 6
SPECIFICATION Spec
SYMMETRY Symmetry
INVARIANT TypeOK
INVARIANT RateRespected
INVARIANT OneLimiterPerClient
INVARIANT IdleClientsForgotten
INVARIANT SlotsAccounted
PROPERTY ImplementsTokenBuckets
