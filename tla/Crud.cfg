SPECIFICATION Spec
CONSTANTS
    r1 = r1
    r2 = r2
    r3 = r3
    Requests = {r1, r2, r3}
    Processes = {"app"}
    Workloads <- MCWorkloads
    Setups <- MCSetups
    EventCount <- MCEventCount
    MaxFaults = 1
INVARIANTS BrokerHearsOnlyCommitted StoredWithChange DoneIsPublished PublishedOnce SequenceKeepsOrder RolledBackLeavesNothing
PROPERTIES QuietUncachedUpdateAddsItself
