CONSTANTS
    Workers = 2
    Channels = {c1}
    OwnChannel = own
    Replies = {r1}
    Greeting = greeting
    Nil = nil
    LineKinds = {"PING", "QUERY", "RECONNECT"}
    Faults = {}
    EarlyReconnect = FALSE
    Gap = 1
    MaxConn = 2
    MaxInputs = 2
    MaxChunk = 2
SPECIFICATION Spec
CHECK_DEADLOCK FALSE
INVARIANTS OneWrite BufferAlive AuthFirst AuthUnpadded AtMostOnce NoRepeat
PROPERTIES RateLimit ImplementsTransmission
