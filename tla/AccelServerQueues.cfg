SPECIFICATION FairSpec
CONSTANTS
    s1 = s1
    s2 = s2
    s3 = s3
    Session = {s1, s2}
    NoSession = NoSession
    NoPacket = NoPacket
    Packet <- OnePacket
    Module <- OneModule
    SocketBuffer = 1
    MaxSent = 3
INVARIANTS
    OneWriteInFlight
    ReadLoopAlive
    HandlersMatchOperations
    SessionLifecycle
    NothingForgotten
PROPERTIES
    SessionsReleased
CHECK_DEADLOCK FALSE
