------------------------------ MODULE JsonRelay ------------------------------
(***************************************************************************)
(* The way of one message through the processes, as far as its content is  *)
(* concerned: a line reaches the server, which parses it and writes it     *)
(* again for Node B; Node B computes the module and writes it; the server  *)
(* parses that and writes it again for Node A, which logs it.  Every hop   *)
(* validates and serialises, so a value passes through four conversions.   *)
(* Which session a line comes from, and whether it is delivered, is the    *)
(* subject of AccelServer.                                                 *)
(***************************************************************************)
EXTENDS JsonProtocol

CONSTANTS
    Lines,       \* the documents that occur as the first line
    Generated    \* the packets Node A generates

ASSUME RelayAssumption ==
    /\ \A l \in Lines : l.object =>
          \A f \in DOMAIN l.fields : Lexed(l.fields[f])
    /\ Generated \subseteq AccelPackets
    /\ \A packet \in Generated :
          /\ packet.timestamp \in 0..(LongLimit - 1)
          /\ {packet.x, packet.y, packet.z} \subseteq {v \in Int : v <= MaxDouble}

VARIABLES
    origin,   \* the first line
    line,     \* the line on its way now
    place,    \* whom it is on its way to
    outcome,  \* "none", "rejected" at place, "registered", "logged"
    accepted  \* the result of the server's ParseAccelPacket

vars == <<origin, line, place, outcome, accepted>>

Roles == {"A", "B"}

FirstLines ==
    Lines \cup {Transmit(PacketToJson(p)) : p \in Generated}
          \cup {Transmit(MakeHelloMessage(r)) : r \in Roles}

Init ==
    /\ origin \in FirstLines
    /\ line = origin
    /\ place = "server"
    /\ outcome = "none"
    /\ accepted = Failure

\* HandleLine on a hello, before RegisterRole.
ServerReadsHello ==
    /\ place = "server"
    /\ GetMessageType(line) = Success("hello")
    /\ GetClientRole(line).ok
    /\ outcome = "none"
    /\ outcome' = "registered"
    /\ UNCHANGED <<origin, line, place, accepted>>

\* HandleLine, HandleAccelPacket and ForwardAccelPacketToNodeB.
ServerForwardsPacket ==
    LET result == ParseAccelPacket(line) IN
    /\ place = "server"
    /\ GetMessageType(line) = Success("accel")
    /\ result.ok
    /\ accepted' = result
    /\ line' = Transmit(PacketToJson(result.value))
    /\ place' = "node_b"
    /\ UNCHANGED <<origin, outcome>>

\* The sum of the squares may exceed the range of a double.
Computed(p) ==
    LET exact == ModuleOf(p) IN
    [exact EXCEPT !.module = IF @ > MaxDouble THEN Infinity ELSE @]

\* Variant: the timestamp of the result keeps its default.
NodeBComputesUnstamped ==
    LET result == ParseAccelPacket(line) IN
    /\ place = "node_b"
    /\ GetMessageType(line) = Success("accel")
    /\ result.ok
    /\ line' = Transmit(ModuleToJson([Computed(result.value) EXCEPT !.timestamp = 0]))
    /\ place' = "server_back"
    /\ UNCHANGED <<origin, outcome, accepted>>

\* The loop of node_b/main.cpp.
NodeBComputes ==
    LET result == ParseAccelPacket(line) IN
    /\ place = "node_b"
    /\ GetMessageType(line) = Success("accel")
    /\ result.ok
    /\ line' = Transmit(ModuleToJson(Computed(result.value)))
    /\ place' = "server_back"
    /\ UNCHANGED <<origin, outcome, accepted>>

\* HandleModulePacket and ForwardAccelModuleToNodeA.
ServerForwardsModule ==
    LET result == ParseAccelModule(line) IN
    /\ place = "server_back"
    /\ GetMessageType(line) = Success("module")
    /\ result.ok
    /\ line' = Transmit(ModuleToJson(result.value))
    /\ place' = "node_a"
    /\ UNCHANGED <<origin, outcome, accepted>>

\* ReceiveModules writes the module to module.log.
NodeALogs ==
    /\ place = "node_a"
    /\ GetMessageType(line) = Success("module")
    /\ ParseAccelModule(line).ok
    /\ outcome = "none"
    /\ outcome' = "logged"
    /\ UNCHANGED <<origin, line, place, accepted>>

\* A receiver that cannot use the line logs an error and waits for the next.
Rejected ==
    \/ place = "server" /\ ~ ParseAccelPacket(line).ok /\ ~ GetClientRole(line).ok
    \/ place = "node_b" /\ ~ ParseAccelPacket(line).ok
    \/ place \in {"server_back", "node_a"} /\ ~ ParseAccelModule(line).ok

Reject ==
    /\ outcome = "none"
    /\ Rejected
    /\ outcome' = "rejected"
    /\ UNCHANGED <<origin, line, place, accepted>>

RejectedBy(who) == outcome = "rejected" /\ place = who

Next ==
    \/ ServerReadsHello
    \/ ServerForwardsPacket
    \/ NodeBComputes
    \/ ServerForwardsModule
    \/ NodeALogs
    \/ Reject

Spec == Init /\ [][Next]_vars

------------------------------------------------------------------------------
(* Properties.                                                             *)

Overflows(p) == ModuleOf(p).module > MaxDouble

\* What the server accepts, Node B accepts too and reads as the same packet,
\* whatever the line was that the server accepted it from: no number that
\* passes the first validation is changed or refused by the second hop
\* (json_protocol.cpp:122-131, 154-205).
ForwardedAsAccepted ==
    /\ place = "node_b" => ParseAccelPacket(line) = accepted
    /\ ~ RejectedBy("node_b")

\* The hello of either node is understood for what it is (json_protocol.cpp:
\* 114-120, 249-278).
HelloIsUnderstood ==
    \A r \in Roles : origin = Transmit(MakeHelloMessage(r)) =>
        /\ GetClientRole(origin) = Success(r)
        /\ outcome # "rejected"

\* A packet Node A generated is accepted unchanged, and its module is logged
\* unless it is not a finite number, which JSON cannot express: the server
\* refuses the null it is written as (json_protocol.cpp:72-90, 133-140).
GeneratedIsLogged ==
    \A p \in Generated : origin = Transmit(PacketToJson(p)) =>
        /\ accepted.ok => accepted.value = p
        /\ ~ RejectedBy("server")
        /\ RejectedBy("server_back") => Overflows(p)

\* Node A logs the module of the packet that the server accepted, with its
\* timestamp, or nothing (node_b/main.cpp:94-102, node_a/main.cpp:71-83).
LogIsOfPacket ==
    /\ outcome = "logged" =>
          /\ ParseAccelModule(line) = Success(ModuleOf(accepted.value))
          /\ ~ Overflows(accepted.value)
    /\ ~ RejectedBy("node_a")

\* An accepted packet has the timestamp that its line has: a number that
\* int64_t cannot hold is refused, as the message of the check says
\* (json_protocol.cpp:52-66).
TimestampAsWritten ==
    accepted.ok =>
        accepted.value.timestamp = origin.fields["timestamp"].number

\* A packet is accepted only from a line of the supported protocol version
\* (json_protocol.cpp:280-314).
VersionAsWritten ==
    accepted.ok => origin.fields["version"].number = ProtocolVersion
==============================================================================
