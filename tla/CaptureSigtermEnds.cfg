SPECIFICATION FairSpec
CONSTANTS
    MaxDumpFiles = 1
    MaxIndex = 1
    OperatorSignals = {"INT", "TERM"}
    MaxSignals = 1
PROPERTIES
    SigtermEndsScript
CHECK_DEADLOCK FALSE
