SPECIFICATION FairSystemSpec
CONSTANTS
    a1 = a1
    a2 = a2
    b1 = b1
    b2 = b2
    ASession = {a1, a2}
    BSession = {b1}
    Session = {a1, a2, b1}
    NoSession = NoSession
    NoPacket = NoPacket
    Packet <- SignalPackets
    Module <- SignalModules
    Signal <- Distinct
    SocketBuffer = 1
    MaxSent = 3
    MaxClock = 2
    MaxFaults = 1
PROPERTIES
    NodesFollowServer
CHECK_DEADLOCK FALSE
