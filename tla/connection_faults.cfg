CONSTANTS
    Workers = 1
    Channels = {c1}
    OwnChannel = own
    Replies = {r1}
    Greeting = greeting
    Nil = nil
    LineKinds = {"PING", "COMMAND", "QUERY", "JOIN", "PART", "RECONNECT", "SHUTDOWN", "THROW"}
    Faults = {"read", "write", "connect", "query", "shutdown"}
    EarlyReconnect = FALSE
    Gap = 1
    MaxConn = 2
    MaxInputs = 3
    MaxChunk = 2
SPECIFICATION Spec
CHECK_DEADLOCK FALSE
INVARIANTS TypeOK IInv InOrder
