CONSTANTS
    Queries = {q1, q2}
    Workers = 1
    QueryFaults = {"download", "search"}
    MaxTargets = 2
    MaxHits = 1
SPECIFICATION FairSpec
CHECK_DEADLOCK FALSE
PROPERTY EveryQueryAnswered
