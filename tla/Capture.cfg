SPECIFICATION Spec
CONSTANTS
    MaxDumpFiles = 2
    MaxIndex = 2
    OperatorSignals = {"INT", "TERM"}
    MaxSignals = 2
INVARIANTS
    TypeOK
    DestinationFree
    NothingLost
    QuietAtEnd
    LowDiskSparesDisk
PROPERTIES
    ImplementsStore
    SigtermStays
CHECK_DEADLOCK FALSE
