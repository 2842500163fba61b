SPECIFICATION FairSystemSpec
CONSTANTS
    a1 = a1
    a2 = a2
    b1 = b1
    b2 = b2
    ASession = {a1}
    BSession = {b1}
    Session = {a1, b1}
    NoSession = NoSession
    NoPacket = NoPacket
    Packet <- SignalPackets
    Module <- SignalModules
    Signal <- FourValues
    SocketBuffer = 1
    MaxSent = 5
    MaxClock = 4
    MaxFaults = 0
PROPERTIES
    ModulesComeBack
CHECK_DEADLOCK FALSE
