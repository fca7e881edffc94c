CONSTANTS
    RealRasp = TRUE
    Timeout = 1
    MaxLag = 1
    Room = 1
    Beats = {"HEARTBEAT", "other"}
    Orders = {"OPEN BEAM", "CLOSE BEAM", "SHUTDOWN BOARD", "other"}
SPECIFICATION Spec
INVARIANT BeamTypeOK
INVARIANT FlagTellsPin
INVARIANT WatchingMeansRecent
PROPERTY SilenceClosesBeam
PROPERTY StopJoins
