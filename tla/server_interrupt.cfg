SPECIFICATION Spec
CONSTANTS
    N = 2
    Main = Main
    Command = Command
    Power = Power
    Display = Display
    Daemons = {}
    NoThread = NoThread
    MaxEvents = 2
    Loggers = {Main}
    Rows = 3
    MaxLines = 2
PROPERTY InterruptEnds
CHECK_DEADLOCK FALSE
