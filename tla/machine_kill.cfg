CONSTANTS
    a = a
    b = b
    Commands = {a, b}
    CommandLists <- TwoList
    MaxTelnetTries = 1
    MaxHardReboots = 0
    MaxAppReboots = 1
    MaxOsReboots = 1
    DisableOsReboot = FALSE
    Kills <- OwnKill
    Kinds = {"#IT"}
    SocketRoom = 1
    Faults = {}
    NoLog = NoLog
SPECIFICATION SafeSpec
INVARIANT ExpiredIsKilled
