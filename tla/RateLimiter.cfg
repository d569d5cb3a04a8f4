SPECIFICATION HttpSpec
CONSTANTS
  NoState = NoState
  NoPromise = NoPromise
  SecondMs = 2
  FixedWindowPolicies <- SmallWindows
  SlidingWindowPolicies <- SmallWindows
  TokenBucketPolicies <- SmallBuckets
  Costs = {1, 2, 3}
  MaxTime = 10
  MaxBack = 3
  MaxBacks = 1
INVARIANTS WithinLimit RetryIsHonest RetryIsTight ExpiryIsInvisible PatientClientIsServed
PROPERTIES CountersKept
