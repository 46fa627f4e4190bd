\* Every shape of allowance, every ledger, and the cache.
SPECIFICATION Spec
CONSTANTS
    Calls <- MCCalls
    Caller <- MCCaller
    Plans <- MCPlans
    Windows = {"month", "cycle"}
    Thresholds = {50, 100}
    Cost = 1
    MaxTurns = 1
    MaxBalance = 2
    MaxTime = 4
    MaxLatency = 1
    PlanTtl = 1
    MaxEntries = 2
    Mixes <- MCMixes
    Scenes <- MCScenes
INVARIANTS
    OverrunBounded
    BooksAgree
    CrossedIsAnnounced
PROPERTIES
    ServedIsRecent
CHECK_DEADLOCK FALSE
