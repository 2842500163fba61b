----------------------------- MODULE AccelSystem -----------------------------
(***************************************************************************)
(* The accelerometer system: the routing server of AccelServer with the    *)
(* two programs that connect to it.  Node A (src/node_a) generates packets *)
(* in its main thread and logs modules in a receiver thread; both use one  *)
(* TcpClient.  Node B (src/node_b) reads a packet, computes and writes the *)
(* module, in one thread.                                                  *)
(*                                                                         *)
(* One process of each program runs at a time.  It may be killed and       *)
(* started again, and so may the server; every run makes one connection.   *)
(***************************************************************************)
EXTENDS AccelServer

CONSTANTS
    ASession,   \* the connections of the runs of Node A
    BSession,   \* the connections of the runs of Node B
    Signal,     \* the axis values of a run of the emulator, in order
    MaxClock,   \* bound: packets generated over all runs
    MaxFaults   \* bound: processes killed and logs that cannot be opened

\* The packet of a clock value: the number of the packet, so that a packet is
\* known by its timestamp.  One axis of the movement stands for the three.
Sample(timestamp, value) ==
    [timestamp |-> timestamp, x |-> value, y |-> 0, z |-> 0]

ASSUME SystemAssumption ==
    /\ ASession \cap BSession = {}
    /\ ASession \cup BSession = Session
    /\ MaxClock \in Nat /\ MaxFaults \in Nat
    /\ \A t \in 1..MaxClock, i \in 1..Len(Signal) : Sample(t, Signal[i]) \in Packet
    /\ \A packet \in Packet : ModuleOf(packet) \in Module

VARIABLES
    aSender,    \* main thread of Node A: "down", "hello", "send", "close", "join"
    aReceiver,  \* its receiver thread: "none", "open", "check", "read", "ended"
    aRunning,   \* is_runnig
    aConn,      \* the connection of the current or last run
    aIndex,     \* sample_index_
    bState,     \* Node B: "down", "hello", "read", "write"
    bConn,
    bPacket,    \* the packet whose module it writes
    generated,  \* the packets generated so far, each with the run of Node A,
                \* that is its connection; their number is the clock
    log,        \* accel/module.log
    faults

aVars     == <<aSender, aReceiver, aRunning, aConn, aIndex>>
bVars     == <<bState, bConn, bPacket>>
nodeVars  == <<aVars, bVars, generated, log, faults>>
systemVars == <<vars, nodeVars>>

SystemInit ==
    /\ Init
    /\ aSender = "down" /\ aReceiver = "none" /\ aRunning = FALSE
    /\ aConn = NoSession /\ aIndex = 0
    /\ bState = "down" /\ bConn = NoSession /\ bPacket = NoPacket
    /\ generated = <<>> /\ log = <<>>
    /\ faults = 0

Fault ==
    /\ faults < MaxFaults
    /\ faults' = faults + 1

------------------------------------------------------------------------------
(* TcpClient as the nodes use it.  A blocking write waits for space.  Once *)
(* the server has closed the connection a write fails or is lost, and a    *)
(* read fails or returns what had arrived before.                          *)

WriteJson(s, l) == ClientWrites(s, l)

WriteError(s) == state[s] = "closed"

ReadError(s) == peer[s] = "closed" \/ state[s] = "closed"

------------------------------------------------------------------------------
(* Node A.                                                                 *)

\* Connect; a refused connection ends the program at once.
AStarts ==
    /\ aSender = "down"
    /\ \E s \in ASession : Connect(s) /\ aConn' = s
    /\ aSender' = "hello"
    /\ aIndex' = 0
    /\ UNCHANGED <<aReceiver, aRunning, bVars, generated, log, faults>>

AExits ==
    /\ aSender' = "down"
    /\ aReceiver' = "none"
    /\ aRunning' = FALSE
    /\ UNCHANGED <<aConn, aIndex>>

AWritesHello ==
    /\ aSender = "hello"
    /\ \/ /\ WriteJson(aConn, HelloLine("A"))
          /\ aSender' = "send"
          /\ aReceiver' = "open"
          /\ aRunning' = TRUE
          /\ UNCHANGED <<aConn, aIndex>>
       \/ /\ WriteError(aConn)
          /\ ClientCloses(aConn)
          /\ AExits
    /\ UNCHANGED <<bVars, generated, log, faults>>

NextPacket == Sample(Len(generated) + 1, Signal[aIndex + 1])

\* The main thread's loop.  It looks at the result of its writes only.
AWritesPacket ==
    /\ aSender = "send"
    /\ Len(generated) < MaxClock
    /\ aIndex < Len(Signal)
    /\ WriteJson(aConn, AccelLine(NextPacket))
    /\ generated' = Append(generated, [run |-> aConn, packet |-> NextPacket])
    /\ aIndex' = aIndex + 1
    /\ UNCHANGED <<aSender, aReceiver, aRunning, aConn, bVars, log, faults>>

\* Variant: a failed write only skips the packet.
AFailsToWriteOn ==
    /\ aSender = "send"
    /\ WriteError(aConn)
    /\ aRunning' = FALSE
    /\ UNCHANGED <<vars, aSender, aReceiver, aConn, aIndex, bVars, generated,
                   log, faults>>

AFailsToWrite ==
    /\ aSender = "send"
    /\ WriteError(aConn)
    /\ aRunning' = FALSE
    /\ aSender' = "close"
    /\ UNCHANGED <<vars, aReceiver, aConn, aIndex, bVars, generated, log, faults>>

ACloses ==
    /\ aSender = "close"
    /\ ClientCloses(aConn)
    /\ aSender' = "join"
    /\ UNCHANGED <<aReceiver, aRunning, aConn, aIndex, bVars, generated, log,
                   faults>>

AJoins ==
    /\ aSender = "join"
    /\ aReceiver = "ended"
    /\ AExits
    /\ UNCHANGED <<vars, bVars, generated, log, faults>>

\* The receiver thread opens the log for appending; it may fail to.
AOpensLog ==
    /\ aReceiver = "open"
    /\ \/ /\ aReceiver' = "check"
          /\ UNCHANGED <<aRunning, faults>>
       \/ /\ Fault
          /\ aReceiver' = "ended"
          /\ aRunning' = FALSE
    /\ UNCHANGED <<vars, aSender, aConn, aIndex, bVars, generated, log>>

AChecks ==
    /\ aReceiver = "check"
    /\ aReceiver' = IF aRunning THEN "read" ELSE "ended"
    /\ UNCHANGED <<vars, aSender, aRunning, aConn, aIndex, bVars, generated,
                   log, faults>>

\* A line is read and, being a module, appended and flushed.
AReads ==
    /\ aReceiver = "read"
    /\ ClientReads(aConn)
    /\ log' = IF Head(toClient[aConn]).type = "module"
              THEN Append(log, Head(toClient[aConn]).module) ELSE log
    /\ aReceiver' = "check"
    /\ UNCHANGED <<aSender, aRunning, aConn, aIndex, bVars, generated, faults>>

AFailsToRead ==
    /\ aReceiver = "read"
    /\ ReadError(aConn)
    /\ aRunning' = FALSE
    /\ aReceiver' = "ended"
    /\ UNCHANGED <<vars, aSender, aConn, aIndex, bVars, generated, log, faults>>

AIsKilled ==
    /\ aSender \notin {"down", "join"}
    /\ Fault
    /\ ClientCloses(aConn)
    /\ AExits
    /\ UNCHANGED <<bVars, generated, log>>

------------------------------------------------------------------------------
(* Node B.                                                                 *)

BStarts ==
    /\ bState = "down"
    /\ \E s \in BSession : Connect(s) /\ bConn' = s
    /\ bState' = "hello"
    /\ UNCHANGED <<bPacket, aVars, generated, log, faults>>

\* Every failure closes the connection and ends the program.
BExits ==
    /\ ClientCloses(bConn)
    /\ bState' = "down"
    /\ bPacket' = NoPacket
    /\ UNCHANGED bConn

BWritesHello ==
    /\ bState = "hello"
    /\ \/ /\ WriteJson(bConn, HelloLine("B"))
          /\ bState' = "read"
          /\ UNCHANGED <<bConn, bPacket>>
       \/ /\ WriteError(bConn)
          /\ BExits
    /\ UNCHANGED <<aVars, generated, log, faults>>

BReads ==
    /\ bState = "read"
    /\ \/ /\ ClientReads(bConn)
          /\ LET l == Head(toClient[bConn]) IN
             IF l.type = "accel"
             THEN bState' = "write" /\ bPacket' = l.packet
             ELSE UNCHANGED <<bState, bPacket>>
          /\ UNCHANGED bConn
       \/ /\ ReadError(bConn)
          /\ BExits
    /\ UNCHANGED <<aVars, generated, log, faults>>

BWrites ==
    /\ bState = "write"
    /\ \/ /\ WriteJson(bConn, ModuleLine(ModuleOf(bPacket)))
          /\ bState' = "read"
          /\ bPacket' = NoPacket
          /\ UNCHANGED bConn
       \/ /\ WriteError(bConn)
          /\ BExits
    /\ UNCHANGED <<aVars, generated, log, faults>>

BIsKilled ==
    /\ bState # "down"
    /\ Fault
    /\ BExits
    /\ UNCHANGED <<aVars, generated, log>>

------------------------------------------------------------------------------
(* The system.                                                             *)

ServerIsKilled ==
    /\ ServerExits
    /\ Fault
    /\ UNCHANGED <<aVars, bVars, generated, log>>

ServerActs ==
    /\ \/ \E s \in Session : ServerStep(s)
       \/ ServerStarts
    /\ UNCHANGED nodeVars

ANext ==
    \/ AStarts
    \/ AWritesHello
    \/ AWritesPacket
    \/ AFailsToWrite
    \/ ACloses
    \/ AJoins
    \/ AOpensLog
    \/ AChecks
    \/ AReads
    \/ AFailsToRead
    \/ AIsKilled

BNext ==
    \/ BStarts
    \/ BWritesHello
    \/ BReads
    \/ BWrites
    \/ BIsKilled

SystemNext == ServerActs \/ ServerIsKilled \/ ANext \/ BNext

SystemSpec == SystemInit /\ [][SystemNext]_systemVars

\* The server is scheduled as in AccelServer.  Each thread of the nodes runs
\* on when it is not blocked; nobody is obliged to start a program, and no
\* fault has to happen.
SystemFairness ==
    /\ WF_systemVars(UNCHANGED nodeVars /\ \E s \in Session : RunHandler(s))
    /\ \A s \in Session :
          /\ WF_systemVars(UNCHANGED nodeVars /\ AcceptCompletes(s))
          /\ WF_systemVars(UNCHANGED nodeVars /\ ReadCompletes(s))
          /\ WF_systemVars(UNCHANGED nodeVars /\ WriteCompletes(s))
    /\ WF_systemVars(AWritesHello)
    /\ WF_systemVars(AWritesPacket \/ AFailsToWrite)
    /\ WF_systemVars(ACloses \/ AJoins)
    /\ WF_systemVars(AOpensLog)
    /\ WF_systemVars(AChecks)
    /\ WF_systemVars(AReads \/ AFailsToRead)
    /\ WF_systemVars(BWritesHello)
    /\ WF_systemVars(BReads)
    /\ WF_systemVars(BWrites)

FairSystemSpec == SystemSpec /\ SystemFairness

------------------------------------------------------------------------------
(* Properties.                                                             *)

Abstract == INSTANCE ModuleLog WITH
              Run <- ASession, Packet <- Packet,
              generated <- generated, log <- log

\* The system keeps the promise of ModuleLog: accel/module.log only grows, by
\* modules of generated packets, each at most once, those of one run of Node A
\* in the order of the packets and not mixed with those of another run, across
\* five queues, three processes, the handling of lines of sessions already
\* closed, and the death and restart of every process (node_a/main.cpp:49-83,
\* node_b/main.cpp:52-126, client_session.cpp).
ImplementsLog == Abstract!Spec

\* Node A's receiver thread and Node B are blocked: each reads and nothing has
\* arrived, or Node B writes and there is no room.
NodesWait ==
    /\ aReceiver = "read" /\ ~ ReadError(aConn) /\ toClient[aConn] = <<>>
    /\ \/ bState = "read" /\ ~ ReadError(bConn) /\ toClient[bConn] = <<>>
       \/ /\ bState = "write" /\ ~ WriteError(bConn)
          /\ Len(toServer[bConn]) >= SocketBuffer

\* Nobody waits for everybody: when the three programs are blocked at once,
\* nothing is on its way between them, and Node B does not hold a packet.  So
\* the blocking writes of the nodes over full connections, the server's queues
\* and its handlers never form a circle (node_a/main.cpp:34-47, 156,
\* node_b/main.cpp:56-111, client_session.cpp:23-93, 375-404).
NobodyWaitsInVain ==
    NodesWait /\ ServerWaits =>
        /\ bState = "read"
        /\ \A c \in {aConn, bConn} :
              toServer[c] = <<>> /\ writeQueue[c] = <<>> /\ toClient[c] = <<>>

\* While no process dies, the module of every packet that the server queues
\* for Node B reaches the log, although both nodes write with calls that block
\* while a connection is full (node_b/main.cpp:56-111, client_session.cpp:23-44,
\* 375-404, node_a/main.cpp:34-83, 156-161).
ModulesComeBack ==
    \A p \in Packet :
        (\E b \in BSession : \E i \in DOMAIN writeQueue[b] :
            writeQueue[b][i] = AccelLine(p))
        ~> (\/ \E i \in DOMAIN log : log[i] = ModuleOf(p)
            \/ faults > 0)

\* A node whose connection the server has lost ends, and Node A ends with both
\* of its threads, in whatever state each of them learns of it
\* (node_a/main.cpp:34-47, 156-180, node_b/main.cpp:56-61, 105-111).
NodesFollowServer ==
    /\ (aSender # "down" /\ state[aConn] = "closed") ~> aSender = "down"
    /\ (bState # "down" /\ state[bConn] = "closed") ~> bState = "down"
==============================================================================
