SPECIFICATION FairSpec
CONSTANTS
    MaxDumpFiles = 1
    MaxIndex = 1
    OperatorSignals = {"INT", "TERM"}
    MaxSignals = 2
PROPERTIES
    SignalsEndCapture
    TcpdumpEndsScript
CHECK_DEADLOCK FALSE
