CONSTANTS
    Queries = {q1, q2}
    Workers = 2
    QueryFaults = {"sni", "download", "upload"}
    MaxTargets = 3
    MaxHits = 1
SPECIFICATION Spec
CHECK_DEADLOCK FALSE
INVARIANTS TypeOK IInv OneAnswer AnswerIsRight
PROPERTY ImplementsQueryAnswers
