-------------------------- MODULE AccelSystemProofs --------------------------
(***************************************************************************)
(* The accelerometer system implements the routing server with arbitrary   *)
(* clients: every step of the two nodes is a step that AccelServer allows  *)
(* a client, on the connection of the node.  So whatever AccelServerProofs *)
(* proves of the server holds in the system, for any signal, number of     *)
(* connections and number of faults.                                       *)
(***************************************************************************)
EXTENDS AccelSystem, AccelServerProofs

\* A program that runs has a connection, and Node B computes from a packet
\* that Node A generated.
NodesOK ==
    /\ aConn \in ASession \cup {NoSession}
    /\ bConn \in BSession \cup {NoSession}
    /\ aSender # "down" \/ aReceiver # "none" => aConn \in ASession
    /\ bState # "down" => bConn \in BSession
    /\ aIndex \in Nat
    /\ generated \in Seq([run : ASession, packet : Packet])
    /\ bState = "write" => bPacket \in Packet

SystemInv == IInv /\ NodesOK

\* A module line read by Node A and a packet line read by Node B are lines.
LEMMA FirstLine ==
    ASSUME IInv, NEW s \in Session, toClient[s] # <<>>,
           Head(toClient[s]).type = "accel"
    PROVE  Head(toClient[s]).packet \in Packet
  <1>1. toClient[s] \in Seq(Line)
    BY DEF IInv, TypeOK
  <1>2. Head(toClient[s]) \in Line
    BY <1>1, HeadTailProperties
  <1> QED
    BY <1>2 DEF Line, HelloLine, AccelLine, ModuleLine, InvalidLine

LEMMA SystemInitInv == SystemInit => Init /\ SystemInv
  BY InitInv, EmptySeq DEF SystemInit, SystemInv, NodesOK

\* A step of the server, or of nobody, keeps what the nodes rely on.
LEMMA NodesFrame ==
    ASSUME NodesOK, UNCHANGED nodeVars
    PROVE  NodesOK'
  BY DEF NodesOK, nodeVars, aVars, bVars

\* Node A's steps are steps of the client of its connection.
LEMMA NodeASteps ==
    ASSUME SystemInv, ANext
    PROVE  [Next]_vars /\ NodesOK'
  <1> USE DEF SystemInv
  <1>0. ASession \subseteq Session
    BY SystemAssumption
  <1>1. CASE AStarts
    <2>1. PICK s \in ASession : Connect(s) /\ aConn' = s
      BY <1>1 DEF AStarts
    <2> QED
      BY <1>0, <1>1, <2>1 DEF AStarts, Next, ClientStep, NodesOK, bVars
  <1>2. CASE AWritesHello
    <2>1. aConn \in Session
      BY <1>0, <1>2 DEF AWritesHello, NodesOK
    <2>2. HelloLine("A") \in Line
      BY DEF Line, Role
    <2>3. Next
      BY <1>2, <2>1, <2>2 DEF AWritesHello, WriteJson, Next, ClientStep
    <2> QED
      BY <1>2, <2>3 DEF AWritesHello, AExits, NodesOK, bVars
  <1>3. CASE AWritesPacket
    <2>1. NextPacket \in Packet
      <3>1. Len(generated) \in Nat /\ aIndex \in Nat
        BY LenProperties DEF NodesOK
      <3>2. Len(generated) + 1 \in 1..MaxClock /\ aIndex + 1 \in 1..Len(Signal)
        BY <1>3, <3>1, SystemAssumption DEF AWritesPacket
      <3> QED
        BY <3>2, SystemAssumption DEF NextPacket
    <2>2. aConn \in Session /\ AccelLine(NextPacket) \in Line
      BY <1>0, <1>3, <2>1 DEF AWritesPacket, NodesOK, Line
    <2>3. Next
      BY <1>3, <2>2 DEF AWritesPacket, WriteJson, Next, ClientStep
    <2>4. generated' \in Seq([run : ASession, packet : Packet]) /\ aIndex' \in Nat
      <3>1. [run |-> aConn, packet |-> NextPacket] \in [run : ASession, packet : Packet]
        BY <1>3, <2>1 DEF AWritesPacket, NodesOK
      <3> QED
        BY <1>3, <3>1, AppendProperties DEF AWritesPacket, NodesOK
    <2> QED
      BY <1>3, <2>3, <2>4 DEF AWritesPacket, NodesOK, bVars
  <1>4. CASE AFailsToWrite
    BY <1>4 DEF AFailsToWrite, NodesOK, bVars
  <1>5. CASE ACloses
    BY <1>0, <1>5 DEF ACloses, Next, ClientStep, NodesOK, bVars
  <1>6. CASE AJoins
    BY <1>6 DEF AJoins, AExits, NodesOK, bVars
  <1>7. CASE AOpensLog
    BY <1>7 DEF AOpensLog, NodesOK, bVars
  <1>8. CASE AChecks
    BY <1>8 DEF AChecks, NodesOK, bVars
  <1>9. CASE AReads
    BY <1>0, <1>9 DEF AReads, Next, ClientStep, NodesOK, bVars
  <1>10. CASE AFailsToRead
    BY <1>10 DEF AFailsToRead, NodesOK, bVars
  <1>11. CASE AIsKilled
    BY <1>0, <1>11 DEF AIsKilled, AExits, Next, ClientStep, NodesOK, bVars
  <1> QED
    BY <1>1, <1>2, <1>3, <1>4, <1>5, <1>6, <1>7, <1>8, <1>9, <1>10, <1>11
       DEF ANext

\* Node B's steps are steps of the client of its connection.
LEMMA NodeBSteps ==
    ASSUME SystemInv, BNext
    PROVE  [Next]_vars /\ NodesOK'
  <1> USE DEF SystemInv
  <1>0. BSession \subseteq Session
    BY SystemAssumption
  <1>1. CASE BStarts
    <2>1. PICK s \in BSession : Connect(s) /\ bConn' = s
      BY <1>1 DEF BStarts
    <2> QED
      BY <1>0, <1>1, <2>1 DEF BStarts, Next, ClientStep, NodesOK, aVars
  <1>2. CASE BWritesHello
    <2>1. bConn \in Session /\ HelloLine("B") \in Line
      BY <1>0, <1>2 DEF BWritesHello, NodesOK, Line, Role
    <2>2. Next
      BY <1>2, <2>1 DEF BWritesHello, BExits, WriteJson, Next, ClientStep
    <2> QED
      BY <1>2, <2>2 DEF BWritesHello, BExits, NodesOK, aVars
  <1>3. CASE BReads
    <2>1. bConn \in Session
      BY <1>0, <1>3 DEF BReads, NodesOK
    <2>2. Next
      BY <1>3, <2>1 DEF BReads, BExits, Next, ClientStep
    <2>3. bState' = "write" => bPacket' \in Packet
      BY <1>3, <2>1, FirstLine DEF BReads, BExits, ClientReads, NodesOK
    <2> QED
      BY <1>3, <2>2, <2>3 DEF BReads, BExits, NodesOK, aVars
  <1>4. CASE BWrites
    <2>1. bConn \in Session /\ ModuleLine(ModuleOf(bPacket)) \in Line
      BY <1>0, <1>4, SystemAssumption DEF BWrites, NodesOK, Line
    <2>2. Next
      BY <1>4, <2>1 DEF BWrites, BExits, WriteJson, Next, ClientStep
    <2> QED
      BY <1>4, <2>2 DEF BWrites, BExits, NodesOK, aVars
  <1>5. CASE BIsKilled
    BY <1>0, <1>5 DEF BIsKilled, BExits, Next, ClientStep, NodesOK, aVars
  <1> QED
    BY <1>1, <1>2, <1>3, <1>4, <1>5 DEF BNext

LEMMA SystemStep ==
    SystemInv /\ [SystemNext]_systemVars => [Next]_vars /\ SystemInv'
  <1> SUFFICES ASSUME SystemInv, [SystemNext]_systemVars
               PROVE  [Next]_vars /\ NodesOK'
    BY NextInv DEF SystemInv
  <1>1. CASE ServerActs
    BY <1>1, NodesFrame DEF ServerActs, Next, SystemInv
  <1>2. CASE ServerIsKilled
    BY <1>2 DEF ServerIsKilled, Next, SystemInv, NodesOK, aVars, bVars
  <1>3. CASE UNCHANGED systemVars
    BY <1>3, NodesFrame DEF systemVars, SystemInv
  <1> QED
    BY <1>1, <1>2, <1>3, NodeASteps, NodeBSteps DEF SystemNext

LEMMA SystemInvariantHolds == SystemSpec => []SystemInv
  BY SystemInitInv, SystemStep, PTL DEF SystemSpec

\* The system implements the server with unconstrained clients: the programs
\* node_a and node_b use a connection only as AccelServer lets a client use it
\* (tcp_client.cpp, node_a/main.cpp, node_b/main.cpp).
THEOREM SystemImplementsServer == SystemSpec => Spec
  BY SystemInitInv, SystemStep, SystemInvariantHolds, PTL DEF SystemSpec, Spec

\* The server's invariants hold in the system, whatever process dies.
THEOREM ServerInvariantsInSystem ==
    SystemSpec => [](RegistryAgreement /\ OneWriteInFlight /\ RightRecipient)
  <1>1. IInv => RegistryAgreement /\ OneWriteInFlight /\ RightRecipient
    BY DEF IInv
  <1> QED
    BY <1>1, SystemImplementsServer, InvariantHolds, PTL

------------------------------------------------------------------------------
(* Nobody waits for everybody.                                             *)

\* The connection of a run stays connected, or closed.
NodesConnected ==
    /\ aConn # NoSession => peer[aConn] # "none"
    /\ bConn # NoSession => peer[bConn] # "none"

LEMMA PeerStays ==
    ASSUME TypeOK, [Next]_vars, NEW s \in Session, peer[s] # "none"
    PROVE  peer'[s] # "none"
  <1>1. peer \in [Session -> {"none", "open", "closed"}]
    BY DEF TypeOK
  <1> HIDE DEF Line
  <1>2. ASSUME NEW t \in Session, ServerStep(t) PROVE peer' = peer
    BY <1>2 DEF ServerStep, AcceptCompletes, ReadCompletes, WriteCompletes,
         RunHandler, StartSession, ReadFails, WriteFails, WriteSucceeds, Register,
         AcceptPacket, ReturnModule, DropLine, HandleLine, tcpVars
  <1>3. ASSUME NEW t \in Session, ClientStep(t) PROVE peer'[s] # "none"
    BY <1>1, <1>3 DEF ClientStep, Connect, ClientWrites, ClientReads, ClientCloses
  <1>4. CASE ServerExits \/ ServerStarts \/ UNCHANGED vars
    BY <1>4 DEF ServerExits, ServerStarts, tcpVars, vars
  <1> QED
    BY <1>2, <1>3, <1>4 DEF Next

LEMMA ConnectedStep ==
    SystemInv /\ NodesConnected /\ [SystemNext]_systemVars => NodesConnected'
  <1> SUFFICES ASSUME SystemInv, NodesConnected, [SystemNext]_systemVars
               PROVE  NodesConnected'
    OBVIOUS
  <1>1. /\ TypeOK /\ [Next]_vars
        /\ aConn \in Session \cup {NoSession} /\ bConn \in Session \cup {NoSession}
    BY SystemStep, SystemAssumption DEF SystemInv, IInv, NodesOK
  <1>2. \A s \in Session : peer[s] # "none" => peer'[s] # "none"
    BY <1>1, PeerStays
  <1>3. CASE UNCHANGED <<aConn, bConn>>
    BY <1>1, <1>2, <1>3 DEF NodesConnected
  <1>4. ASSUME NEW s \in Session, Connect(s) PROVE peer'[s] = "open"
    BY <1>1, <1>4 DEF Connect, TypeOK
  <1>5. CASE AStarts
    BY <1>1, <1>2, <1>4, <1>5, SystemAssumption
       DEF AStarts, bVars, NodesConnected
  <1>6. CASE BStarts
    BY <1>1, <1>2, <1>4, <1>6, SystemAssumption
       DEF BStarts, aVars, NodesConnected
  <1>7. ~ AStarts /\ ~ BStarts => UNCHANGED <<aConn, bConn>>
    <2>1. ANext /\ ~ AStarts => UNCHANGED <<aConn, bConn>>
      BY DEF ANext, AWritesHello, AWritesPacket, AFailsToWrite, ACloses, AJoins,
             AOpensLog, AChecks, AReads, AFailsToRead, AIsKilled, AExits, bVars
    <2>2. BNext /\ ~ BStarts => UNCHANGED <<aConn, bConn>>
      BY DEF BNext, BWritesHello, BReads, BWrites, BIsKilled, BExits, aVars
    <2>3. ServerActs \/ ServerIsKilled \/ UNCHANGED systemVars
          => UNCHANGED <<aConn, bConn>>
      BY DEF ServerActs, ServerIsKilled, systemVars, nodeVars, aVars, bVars
    <2> QED
      BY <2>1, <2>2, <2>3 DEF SystemNext
  <1> QED
    BY <1>3, <1>5, <1>6, <1>7

LEMMA NodesStayConnected == SystemSpec => []NodesConnected
  <1>1. SystemInit => NodesConnected
    BY DEF SystemInit, NodesConnected
  <1> QED
    BY <1>1, ConnectedStep, SystemInvariantHolds, PTL DEF SystemSpec

\* When Node A's receiver thread, Node B and the server are all blocked there
\* is nothing any of them could be waiting for, for any size of the buffers and
\* any number of lines (node_a/main.cpp:34-47, node_b/main.cpp:56-111,
\* client_session.cpp:23-93, 375-404).
THEOREM NobodyWaits == SystemSpec => []NobodyWaitsInVain
  <1>1. SystemInv /\ NodesConnected => NobodyWaitsInVain
    <2> SUFFICES ASSUME SystemInv, NodesConnected, NodesWait, ServerWaits
                 PROVE  /\ bState = "read"
                        /\ \A c \in {aConn, bConn} :
                              /\ toServer[c] = <<>> /\ writeQueue[c] = <<>>
                              /\ toClient[c] = <<>>
      BY DEF NobodyWaitsInVain
    <2>1. /\ aConn \in Session /\ peer[aConn] # "none" /\ state[aConn] # "closed"
          /\ bConn \in Session /\ peer[bConn] # "none" /\ state[bConn] # "closed"
      BY SystemAssumption, ServerAssumption
         DEF SystemInv, NodesOK, NodesConnected, NodesWait, ReadError, WriteError
    <2>2. SocketBuffer \in Nat /\ SocketBuffer > 0 /\ Len(<<>>) = 0
      BY ServerAssumption
    <2>3. \A c \in {aConn, bConn} :
             /\ toServer[c] = <<>>
             /\ writeQueue[c] # <<>> => Len(toClient[c]) >= SocketBuffer
      BY <2>1, WaitingSession, OpenWaits DEF SystemInv
    <2>4. bState = "read" /\ toClient[bConn] = <<>> /\ toClient[aConn] = <<>>
      BY <2>2, <2>3 DEF NodesWait
    <2> QED
      BY <2>2, <2>3, <2>4
  <1> QED
    BY <1>1, SystemInvariantHolds, NodesStayConnected, PTL
==============================================================================
