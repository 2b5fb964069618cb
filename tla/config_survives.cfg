CONSTANTS
    u1 = u1
    own = own
    chan = chan
    Users = {u1}
    Channels = {own, chan}
    OwnChannel = own
    Edits <- MCEdits
    SaveFaults = {"open", "write", "kill"}
    MaxLines = 2
    MaxLeft = 1
SPECIFICATION Spec
INVARIANTS TypeOK FileMatchesMemory SettledRightsHold ChannelsFollowServer
PROPERTIES ImplementsConfigStore SettledChannelsJoined
