SPECIFICATION Spec
CONSTANTS
    IntLimit = 4
    LongLimit = 16
    MaxDouble = 1000000000
    Lines <- MCLines
    Generated <- MCGenerated
INVARIANTS
    VersionAsWritten
CHECK_DEADLOCK FALSE
