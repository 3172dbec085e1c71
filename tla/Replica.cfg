\* One replica from start to stop, with one failure and another replica at the table.
SPECIFICATION FairSpec
CONSTANTS
    Handlers = {"h1"}
    Closers = 3
    MaxFaults = 1
CHECK_DEADLOCK FALSE
INVARIANTS
    TypeOK
    ResourcesOutliveTheirUsers
    NoOrphanedWork
    ServingIsReady
    EverythingClosed
PROPERTIES
    ShutdownCompletes
    GaugeSettles
