SPECIFICATION FairSpec
CONSTANTS
  Messages = {m1, m2}
  Workers = {w1, w2}
  BatchSize = 1
  PollInterval = 1
  WorkersNotify = TRUE
  MaxRetries = 1
  MaxFaults = 1
INVARIANTS NoLostWakeup
PROPERTIES EverySettled
