SPECIFICATION Spec
CONSTANTS
    s1 = s1
    s2 = s2
    s3 = s3
    Session = {s1, s2, s3}
    NoSession = NoSession
    NoPacket = NoPacket
    Packet <- OnePacket
    Module <- OneModule
    SocketBuffer = 1
    MaxSent = 2
INVARIANTS
    TypeOK
    RegistryAgreement
    RightRecipient
    LateLineFirst
PROPERTIES
    HolderNeverDisplaced
SYMMETRY SessionSymmetry
CHECK_DEADLOCK FALSE
