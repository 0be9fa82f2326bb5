\* Replies to three probes through a queue of two entries, with every answer of
\* the sender, up to the end of the clock and of the completion ids.
SPECIFICATION FairSpec
CONSTANTS
  Keys = {k1, k2, k3}
  Capacity = 2
  Ttl = 2
  MaxAttempts = 2
  AttemptTimeout = 2
  RetryDelay = 1
  MaxTime = 6
  MaxId = 4
  MaxRepeat = 3
  MaxProbes = 3
INVARIANTS
  ProbesAccounted
  OutcomeTrue
PROPERTIES
  TransactionEnds
\* The daemon leaves its loop when a step fails.
CHECK_DEADLOCK FALSE
