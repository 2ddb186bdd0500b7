SPECIFICATION StreamsSpec
CONSTANTS
    Kinds = {"SOCKS", "CONNECT", "GET"}
    Chunks <- MCChunks
    Window = 1
    HighWater = 1
    Users = {u1, u2}
    Threaded = FALSE
    Timed = TRUE
    MaxQueue = 2
    Calls <- MCCalls
    Replies <- MCReplies
    MaxReplies = 2
    MaxCalls = 2
    MaxTime = 2
    Setup <- MCSetups
    MaxCommands = 3
    MaxReboots = 1
    MaxCuts = 2
    MaxFails = 1
    Connections = {1, 2}
    MaxConnections = 1
    Amounts <- MCAmounts
    HelperMark = 1
INVARIANTS InOrder CleanEndIsComplete NothingLeftOpen ReceivedWhole OnlyItsAnswer NoProxyLeft PutsBackFound AnswerComplete
CHECK_DEADLOCK FALSE
