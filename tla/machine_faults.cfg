CONSTANTS
    a = a
    b = b
    Commands = {a}
    CommandLists <- OneList
    MaxTelnetTries = 2
    MaxHardReboots = 0
    MaxAppReboots = 1
    MaxOsReboots = 1
    DisableOsReboot = FALSE
    Kills <- OwnKill
    Kinds = {"#IT", "#INF"}
    SocketRoom = 1
    Faults = {"garbled", "silent", "disk", "switch", "trip"}
    NoLog = NoLog
SPECIFICATION Spec
INVARIANT RestartBudget
INVARIANT LateLoginBound
PROPERTY WatchdogNeverGivesUp
PROPERTY StopTerminates
PROPERTY WindowEnforced
