SPECIFICATION FairSpec
CONSTANTS
  w1 = w1
  w2 = w2
  Messages = {1, 2}
  Workers = {w1, w2}
  NoWorker = NoWorker
  NoRow = NoRow
  Poison = {1}
  BatchSize = 2
  MaxAttempts = 2
  PublishWidth <- MCPublishWidth
  RetryPolicy <- MCRetryPolicy
  Horizon = 1
  MaxFaults = 1
INVARIANTS IInv ExclusiveBatch ProcessedWasAccepted DuplicatesAreExplained FailedIffExhausted
PROPERTIES RowsOnlyProgress CommitSettlesBatch ImplementsDelivery EveryMessageSettles
