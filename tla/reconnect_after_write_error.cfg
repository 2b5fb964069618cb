CONSTANTS
    Workers = 2
    Channels = {}
    OwnChannel = own
    Replies = {r1}
    Greeting = greeting
    Nil = nil
    LineKinds = {"PING", "RECONNECT"}
    Faults = {"write"}
    EarlyReconnect = FALSE
    Gap = 1
    MaxConn = 2
    MaxInputs = 2
    MaxChunk = 2
SPECIFICATION FairSpec
CHECK_DEADLOCK FALSE
PROPERTIES ReconnectServed
