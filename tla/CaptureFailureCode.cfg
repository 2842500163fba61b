SPECIFICATION Spec
CONSTANTS
    MaxDumpFiles = 1
    MaxIndex = 1
    OperatorSignals = {"INT", "TERM"}
    MaxSignals = 1
INVARIANTS
    FailureCodeMeansFailure
CHECK_DEADLOCK FALSE
