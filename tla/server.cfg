SPECIFICATION Spec
CONSTANTS
    N = 2
    Main = Main
    Command = Command
    Power = Power
    Display = Display
    Daemons = {}
    NoThread = NoThread
    MaxEvents = 2
    Loggers = {Main}
    Rows = 3
    MaxLines = 2
INVARIANTS
    SweepMissesOne
    RunsMonitored
    LeavesPortClosed
PROPERTIES
    EndersFinish
    InterruptWhenUpEnds
CHECK_DEADLOCK FALSE
