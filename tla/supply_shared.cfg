CONSTANTS
    Machines = {a, b}
    Monitor = Monitor
    Main = Main
    Callers = {a, b, Monitor, Main}
    NoOne = NoOne
    Faults = {}
    Behind = 0
    Excesses = {0, 1, 2}
    MaxFailures = 1
    MaxInterrupts = 0
SPECIFICATION SafeSpec
PROPERTY RestKept
CHECK_DEADLOCK FALSE
