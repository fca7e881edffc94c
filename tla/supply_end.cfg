CONSTANTS
    Machines = {a}
    Monitor = Monitor
    Main = Main
    Callers = {a, Monitor, Main}
    NoOne = NoOne
    Faults = {"lost"}
    Behind = 0
    Excesses = {0, 1}
    MaxFailures = 1
    MaxInterrupts = 1
SPECIFICATION Spec
PROPERTY TripCutsPower
PROPERTY InterruptExits
PROPERTY ErrorStopsMachines
CHECK_DEADLOCK FALSE
