CONSTANTS
    Workers = 2
    Channels = {}
    OwnChannel = own
    Replies = {r1}
    Greeting = greeting
    Nil = nil
    LineKinds = {"PING", "QUERY", "JOIN", "SHUTDOWN", "THROW"}
    Faults = {"read", "write", "query", "shutdown"}
    EarlyReconnect = FALSE
    Gap = 1
    MaxConn = 1
    MaxInputs = 2
    MaxChunk = 2
SPECIFICATION FairSpec
CHECK_DEADLOCK FALSE
PROPERTIES ShutdownTerminates
