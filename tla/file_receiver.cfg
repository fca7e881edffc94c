CONSTANTS
    a = a
    b = b
    c = c
    f = f
    Clients = {a, b, c}
    NoClient = NoClient
    Names = {f}
    FileName <- OneName
    Announced <- Sizes
    Length <- Sendable
    Separators <- InThird
    Chunk = 3
    MaxConnections = 1
    Faults = {"split", "short", "reset", "disk"}
SPECIFICATION Spec
INVARIANT ReceiverTypeOK
INVARIANT SavedFilesAreWhole
PROPERTY StopEnds
