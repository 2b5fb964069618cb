CONSTANTS
    Words <- MCWords
    Messages <- MCMessages
    BotNick = "bot"
    Whitelisted = {"u1", "u2"}
    Capacity = 2
    Inline = 6
    MaxMessages = 5
    MaxCuts = 1
    MaxUnread = 2
SPECIFICATION Spec
CHECK_DEADLOCK FALSE
INVARIANTS TypeOK MessagesIntact ViewsOwn AnswerToAsker ClipIsRecent
PROPERTY BoundsKept
