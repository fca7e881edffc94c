CONSTANTS
    Commands = {a, b, c}
    MaxList = 4
    CommandLists <- MCCommandLists
SPECIFICATION FactorySpec
INVARIANT FactoryTypeOK
INVARIANT QueueAccountsForList
PROPERTY ImplementsRotation
PROPERTY EveryCommandServed
