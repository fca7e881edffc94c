CONSTANTS
    a = a
    b = b
    Commands = {a, b}
    CommandLists <- TwoList
    MaxTelnetTries = 2
    MaxHardReboots = 1
    MaxAppReboots = 2
    MaxOsReboots = 1
    DisableOsReboot = FALSE
    Kills <- KillAll
    Kinds = {"#IT"}
    SocketRoom = 1
    Faults = {}
    NoLog = NoLog
SPECIFICATION SafeSpec
INVARIANT MachineTypeOK
INVARIANT EveryLogEnded
INVARIANT OneApp
INVARIANT NeverLeftOff
INVARIANT CrashIsEarly
