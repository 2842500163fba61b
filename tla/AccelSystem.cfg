SPECIFICATION SystemSpec
CONSTANTS
    a1 = a1
    a2 = a2
    b1 = b1
    b2 = b2
    ASession = {a1, a2}
    BSession = {b1, b2}
    Session = {a1, a2, b1, b2}
    NoSession = NoSession
    NoPacket = NoPacket
    Packet <- SignalPackets
    Module <- SignalModules
    Signal <- Distinct
    SocketBuffer = 2
    MaxSent = 4
    MaxClock = 3
    MaxFaults = 1
INVARIANTS
    NobodyWaitsInVain
PROPERTIES
    ImplementsLog
SYMMETRY NodeSymmetry
CHECK_DEADLOCK FALSE
