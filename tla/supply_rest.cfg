CONSTANTS
    Machines = {a}
    Monitor = Monitor
    Main = Main
    Callers = {a, Monitor, Main}
    NoOne = NoOne
    Faults = {"lost", "garbled"}
    Behind = 0
    Excesses = {0, 1, 2}
    MaxFailures = 2
    MaxInterrupts = 0
SPECIFICATION Spec
INVARIANT SupplyTypeOK
INVARIANT OwnAnswer
PROPERTY RestKept
PROPERTY LinkIsFreed
CHECK_DEADLOCK FALSE
