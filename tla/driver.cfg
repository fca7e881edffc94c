SPECIFICATION Spec
CONSTANTS
    Nominals <- MCNominals
    Settings <- MCSettings
    InitialSettings <- MCInitial
    Damage <- MCDamage
    MaxFaults = 1
INVARIANTS
    DamageIsSeen
    SettingsReadBack
    OcpErrsLow
    FailedInitReleases
PROPERTY OnOnlyWhenSet
CHECK_DEADLOCK FALSE
