--------------------------- MODULE JsonRelayProofs ---------------------------
(***************************************************************************)
(* Proofs about the messages, for integers of any width: what survives a   *)
(* hop.  The argument is one round trip: serialising a parsed packet and   *)
(* parsing it again gives the packet back, because a parsed timestamp fits *)
(* into int64_t and a parsed axis value is finite; and so for a module,    *)
(* unless it is infinite, and for a hello.                                 *)
(***************************************************************************)
EXTENDS JsonRelay, TLAPS

\* A packet as ParseAccelPacket may return it.
Parsed(p) ==
    /\ p = [timestamp |-> p.timestamp, x |-> p.x, y |-> p.y, z |-> p.z]
    /\ p.timestamp \in (-LongLimit)..(LongLimit - 1)
    /\ \A v \in {p.x, p.y, p.z} : v \in Int /\ v <= MaxDouble

LEMMA SmallModulo ==
    ASSUME NEW a \in Nat, NEW b \in Nat, a < b
    PROVE  a % b = a
  BY SMT

LEMMA ModuloRange ==
    ASSUME NEW a \in Int, NEW b \in Nat, b > 0
    PROVE  a % b \in 0..(b - 1)
  BY SMT

\* A number in the range of a signed type is cast to itself, and every number
\* is cast into the range.
LEMMA WrapRange ==
    ASSUME NEW n \in Int, NEW limit \in Nat, limit > 0
    PROVE  /\ Wrap(n, limit) \in (-limit)..(limit - 1)
           /\ n \in (-limit)..(limit - 1) => Wrap(n, limit) = n
  <1>1. (n + limit) % (2 * limit) \in 0..(2 * limit - 1)
    BY ModuloRange
  <1>2. n \in (-limit)..(limit - 1) =>
           (n + limit) % (2 * limit) = n + limit
    BY SmallModulo
  <1> QED
    BY <1>1, <1>2 DEF Wrap

LEMMA RelexValues ==
    /\ \A n \in (-LongLimit)..(LongLimit - 1) :
          /\ IsNumberInteger(Relex(IntegerValue(n)))
          /\ Relex(IntegerValue(n)).number = n
    /\ \A v \in Int : v <= MaxDouble => Relex(FloatValue(v)) = FloatValue(v)
    /\ \A t : Relex(StringValue(t)) = StringValue(t)
  <1>1. ASSUME NEW n \in (-LongLimit)..(LongLimit - 1)
        PROVE  /\ IsNumberInteger(Relex(IntegerValue(n)))
               /\ Relex(IntegerValue(n)).number = n
    <2>1. Relex(IntegerValue(n)) = LexInteger(n)
      BY DEF Relex, IntegerValue
    <2>2. n \in Unsigned(LongLimit) \/ n \in Negative(LongLimit)
      BY WidthAssumption DEF Unsigned, Negative
    <2> QED
      BY <2>1, <2>2 DEF LexInteger, IsNumberInteger, UnsignedValue, IntegerValue
  <1>2. ASSUME NEW v \in Int, v <= MaxDouble
        PROVE  Relex(FloatValue(v)) = FloatValue(v)
    BY <1>2, WidthAssumption DEF Relex, FloatValue, Infinity
  <1>3. ASSUME NEW t PROVE Relex(StringValue(t)) = StringValue(t)
    BY DEF Relex, StringValue
  <1> QED
    BY <1>1, <1>2, <1>3

\* The header that every message carries is accepted by the receiver.
LEMMA VersionAccepted ==
    ASSUME NEW json, HasField(json, "version"),
           json.fields["version"] = Relex(IntegerValue(ProtocolVersion))
    PROVE  ValidateProtocolVersion(json)
  <1>1. ProtocolVersion \in (-LongLimit)..(LongLimit - 1)
    BY WidthAssumption DEF ProtocolVersion
  <1>2. Wrap(ProtocolVersion, IntLimit) = ProtocolVersion
    <2>1. ProtocolVersion \in (-IntLimit)..(IntLimit - 1)
      BY WidthAssumption DEF ProtocolVersion
    <2> QED
      BY <2>1, WrapRange, WidthAssumption
  <1> QED
    BY <1>1, <1>2, RelexValues DEF ValidateProtocolVersion

\* A parsed packet survives being written and parsed again.
LEMMA PacketRoundTrip ==
    ASSUME NEW p, Parsed(p)
    PROVE  ParseAccelPacket(Transmit(PacketToJson(p))) = Success(p)
  <1> DEFINE json == Transmit(PacketToJson(p))
  <1>1. /\ json.object
        /\ DOMAIN json.fields = {"version", "type", "timestamp", "x", "y", "z"}
        /\ json.fields["version"]   = Relex(IntegerValue(ProtocolVersion))
        /\ json.fields["type"]      = Relex(StringValue("accel"))
        /\ json.fields["timestamp"] = Relex(IntegerValue(p.timestamp))
        /\ json.fields["x"] = Relex(FloatValue(p.x))
        /\ json.fields["y"] = Relex(FloatValue(p.y))
        /\ json.fields["z"] = Relex(FloatValue(p.z))
    BY DEF Transmit, PacketToJson, Object
  <1> HIDE DEF json
  <1>2. \A f \in {"version", "type", "timestamp", "x", "y", "z"} :
           HasField(json, f)
    BY <1>1 DEF HasField
  <1>3. ValidateProtocolVersion(json)
    BY <1>1, <1>2, VersionAccepted
  <1>4. ValidateMessageType(json, "accel")
    BY <1>1, <1>2, RelexValues
       DEF ValidateMessageType, GetMessageType, getStringField, StringValue
  <1>5. getInt64Field(json, "timestamp") = Success(p.timestamp)
    <2>1. /\ IsNumberInteger(json.fields["timestamp"])
          /\ json.fields["timestamp"].number = p.timestamp
      BY <1>1, RelexValues DEF Parsed
    <2>2. Wrap(p.timestamp, LongLimit) = p.timestamp
      BY WrapRange, WidthAssumption DEF Parsed
    <2> QED
      BY <1>2, <2>1, <2>2 DEF getInt64Field
  <1>6. /\ getDoubleField(json, "x") = Success(p.x)
        /\ getDoubleField(json, "y") = Success(p.y)
        /\ getDoubleField(json, "z") = Success(p.z)
    BY <1>1, <1>2, RelexValues DEF Parsed, getDoubleField, IsNumber, FloatValue
  <1>7. ParseAccelPacket(json) =
           Success([timestamp |-> p.timestamp, x |-> p.x, y |-> p.y, z |-> p.z])
    <2>1. AllOk({getInt64Field(json, "timestamp"), getDoubleField(json, "x"),
                 getDoubleField(json, "y"), getDoubleField(json, "z")})
      BY <1>5, <1>6 DEF AllOk, Success
    <2>2. /\ getInt64Field(json, "timestamp").value = p.timestamp
          /\ getDoubleField(json, "x").value = p.x
          /\ getDoubleField(json, "y").value = p.y
          /\ getDoubleField(json, "z").value = p.z
      BY <1>5, <1>6 DEF Success
    <2> QED
      BY <1>3, <1>4, <2>1, <2>2 DEF ParseAccelPacket
  <1> QED
    BY <1>7 DEF json, Parsed

\* Whatever line a packet is parsed from, the timestamp fits into int64_t and
\* the axis values are finite.
LEMMA AcceptedIsParsed ==
    ASSUME NEW json, ParseAccelPacket(json).ok,
           \A f \in DOMAIN json.fields : Lexed(json.fields[f])
    PROVE  Parsed(ParseAccelPacket(json).value)
  <1> DEFINE t == getInt64Field(json, "timestamp")
             x == getDoubleField(json, "x")
             y == getDoubleField(json, "y")
             z == getDoubleField(json, "z")
  <1>1. /\ t.ok /\ x.ok /\ y.ok /\ z.ok
        /\ ParseAccelPacket(json).value =
              [timestamp |-> t.value, x |-> x.value, y |-> y.value, z |-> z.value]
    BY DEF ParseAccelPacket, AllOk, Success, Failure
  <1>2. t.value \in (-LongLimit)..(LongLimit - 1)
    <2> DEFINE v == json.fields["timestamp"]
    <2>1. HasField(json, "timestamp") /\ IsNumberInteger(v)
      BY <1>1 DEF getInt64Field, Failure, IsNumberInteger, IsNumberUnsigned
    <2>2. v.number \in Int
      BY <2>1, WidthAssumption
         DEF HasField, IsNumberInteger, Lexed, Unsigned, Negative
    <2>3. t.value = Wrap(v.number, LongLimit)
      BY <2>1 DEF getInt64Field, Success
    <2>4. Wrap(v.number, LongLimit) \in (-LongLimit)..(LongLimit - 1)
      <3>1. LongLimit \in Nat /\ LongLimit > 0
        BY WidthAssumption
      <3> HIDE DEF v
      <3> QED
        BY <2>2, <3>1, WrapRange
    <2> HIDE DEF t, v
    <2> QED
      BY <2>3, <2>4
  <1>3. ASSUME NEW field, getDoubleField(json, field).ok
        PROVE  /\ getDoubleField(json, field).value \in Int
               /\ getDoubleField(json, field).value <= MaxDouble
    <2> DEFINE v == json.fields[field]
    <2>1. HasField(json, field) /\ IsNumber(v)
      BY <1>3 DEF getDoubleField, Failure
    <2>2. Lexed(v)
      BY <2>1 DEF HasField
    <2>3. getDoubleField(json, field).value =
             IF v.kind = "float" THEN v.number ELSE IntegralAxis(v.number)
      BY <2>1 DEF getDoubleField, Success
    <2>4. CASE v.kind = "float"
      BY <2>2, <2>3, <2>4 DEF Lexed
    <2>5. CASE v.kind # "float"
      <3>1. v.number \in Int /\ v.number <= 2 * LongLimit
        BY <2>1, <2>2, <2>5, WidthAssumption
           DEF IsNumber, Lexed, Unsigned, Negative
      <3> QED
        BY <2>3, <2>5, <3>1, WidthAssumption DEF IntegralAxis, Step
    <2> QED
      BY <2>4, <2>5
  <1> QED
    BY <1>1, <1>2, <1>3 DEF Parsed

------------------------------------------------------------------------------
(* What the server forwards is a parsed packet, written again.             *)

RelayInv ==
    /\ origin = line \/ place # "server"
    /\ place = "server" => line \in FirstLines
    /\ outcome = "rejected" => Rejected
    /\ place = "node_b" => /\ accepted.ok
                           /\ accepted = Success(accepted.value)
                           /\ Parsed(accepted.value)
                           /\ line = Transmit(PacketToJson(accepted.value))

LEMMA FirstLinesLexed ==
    ASSUME NEW l \in FirstLines, l.object
    PROVE  \A f \in DOMAIN l.fields : Lexed(l.fields[f])
  <1>1. ASSUME NEW n \in (-LongLimit)..(LongLimit - 1)
        PROVE  Lexed(Relex(IntegerValue(n)))
    BY WidthAssumption DEF Relex, LexInteger, IntegerValue, UnsignedValue,
                           Lexed, Unsigned, Negative
  <1>2. ProtocolVersion \in (-LongLimit)..(LongLimit - 1)
    BY WidthAssumption DEF ProtocolVersion
  <1>3. ASSUME NEW v \in Int, v <= MaxDouble
        PROVE  Lexed(Relex(FloatValue(v)))
    BY <1>3, RelexValues DEF Lexed, FloatValue
  <1>4. ASSUME NEW t PROVE Lexed(Relex(StringValue(t)))
    BY RelexValues DEF Lexed, StringValue
  <1>5. CASE l \in Lines
    BY <1>5, RelayAssumption
  <1>6. ASSUME NEW p \in Generated, l = Transmit(PacketToJson(p))
        PROVE  \A f \in DOMAIN l.fields : Lexed(l.fields[f])
    <2>1. p.timestamp \in (-LongLimit)..(LongLimit - 1)
      BY RelayAssumption, WidthAssumption
    <2>2. \A v \in {p.x, p.y, p.z} : v \in Int /\ v <= MaxDouble
      BY RelayAssumption
    <2>3. /\ DOMAIN l.fields = {"version", "type", "timestamp", "x", "y", "z"}
          /\ l.fields["version"]   = Relex(IntegerValue(ProtocolVersion))
          /\ l.fields["type"]      = Relex(StringValue("accel"))
          /\ l.fields["timestamp"] = Relex(IntegerValue(p.timestamp))
          /\ l.fields["x"] = Relex(FloatValue(p.x))
          /\ l.fields["y"] = Relex(FloatValue(p.y))
          /\ l.fields["z"] = Relex(FloatValue(p.z))
      BY <1>6 DEF Transmit, PacketToJson, Object
    <2> QED
      BY <1>1, <1>2, <1>3, <1>4, <2>1, <2>2, <2>3
  <1>7. ASSUME NEW r \in Roles, l = Transmit(MakeHelloMessage(r))
        PROVE  \A f \in DOMAIN l.fields : Lexed(l.fields[f])
    <2>1. /\ DOMAIN l.fields = {"version", "type", "role"}
          /\ l.fields["version"] = Relex(IntegerValue(ProtocolVersion))
          /\ l.fields["type"]    = Relex(StringValue("hello"))
          /\ l.fields["role"]    = Relex(StringValue(r))
      BY <1>7 DEF Transmit, MakeHelloMessage, Object
    <2> QED
      BY <1>1, <1>2, <1>4, <2>1
  <1> QED
    BY <1>5, <1>6, <1>7 DEF FirstLines

LEMMA RelayInvInit == Init => RelayInv
  BY DEF Init, RelayInv

LEMMA RelayInvNext == RelayInv /\ [Next]_vars => RelayInv'
  <1> SUFFICES ASSUME RelayInv, [Next]_vars PROVE RelayInv'
    OBVIOUS
  <1>1. CASE ServerForwardsPacket
    <2>1. /\ place = "server" /\ place' = "node_b" /\ outcome' = outcome
          /\ GetMessageType(line) = Success("accel")
          /\ ParseAccelPacket(line).ok
          /\ accepted' = ParseAccelPacket(line)
          /\ line' = Transmit(PacketToJson(accepted'.value))
      BY <1>1 DEF ServerForwardsPacket
    <2>2. line.object
      BY <2>1 DEF GetMessageType, getStringField, HasField, Success, Failure
    <2>3. Parsed(accepted'.value)
      BY <2>1, <2>2, FirstLinesLexed, AcceptedIsParsed DEF RelayInv
    <2>4. accepted' = Success(accepted'.value)
      BY <2>1 DEF ParseAccelPacket, Success, Failure
    <2>5. outcome # "rejected"
      BY <2>1 DEF RelayInv, Rejected
    <2> QED
      BY <2>1, <2>3, <2>4, <2>5 DEF RelayInv
  <1>2. CASE NodeBComputes
    <2>1. outcome # "rejected"
      BY <1>2 DEF RelayInv, Rejected, NodeBComputes
    <2> QED
      BY <1>2, <2>1 DEF RelayInv, NodeBComputes
  <1>3. CASE ServerForwardsModule
    <2>1. outcome # "rejected"
      BY <1>3 DEF RelayInv, Rejected, ServerForwardsModule
    <2> QED
      BY <1>3, <2>1 DEF RelayInv, ServerForwardsModule
  <1>4. CASE ServerReadsHello \/ NodeALogs
    BY <1>4 DEF RelayInv, ServerReadsHello, NodeALogs
  <1>5. CASE Reject
    BY <1>5 DEF RelayInv, Reject, Rejected
  <1>6. CASE UNCHANGED vars
    BY <1>6 DEF RelayInv, vars, Rejected
  <1> QED
    BY <1>1, <1>2, <1>3, <1>4, <1>5, <1>6 DEF Next

\* Whatever the server accepts, Node B accepts as the same packet, for every
\* width of the integers and every line (json_protocol.cpp:122-131, 154-205).
THEOREM AcceptedSurvivesForwarding == Spec => []ForwardedAsAccepted
  <1>1. RelayInv => ForwardedAsAccepted
    <2> SUFFICES ASSUME RelayInv PROVE ForwardedAsAccepted
      OBVIOUS
    <2>1. place = "node_b" => ParseAccelPacket(line) = accepted
      BY PacketRoundTrip DEF RelayInv
    <2>2. ~ RejectedBy("node_b")
      BY <2>1 DEF RelayInv, RejectedBy, Rejected
    <2> QED
      BY <2>1, <2>2 DEF ForwardedAsAccepted
  <1> QED
    BY <1>1, RelayInvInit, RelayInvNext, PTL DEF Spec

------------------------------------------------------------------------------
(* The way back: the module of the packet that was accepted.               *)

\* A module as Node B computes it from a parsed packet.
Finite(m) ==
    /\ m = [timestamp |-> m.timestamp, module |-> m.module]
    /\ m.timestamp \in (-LongLimit)..(LongLimit - 1)
    /\ m.module \in Int /\ m.module <= MaxDouble

\* The fields of a transmitted module, apart from the module itself.
LEMMA ModuleHeader ==
    ASSUME NEW m, m.timestamp \in (-LongLimit)..(LongLimit - 1)
    PROVE  LET json == Transmit(ModuleToJson(m))
           IN  /\ HasField(json, "module")
               /\ json.fields["module"] = Relex(FloatValue(m.module))
               /\ ValidateProtocolVersion(json)
               /\ ValidateMessageType(json, "module")
               /\ getInt64Field(json, "timestamp") = Success(m.timestamp)
  <1> DEFINE json == Transmit(ModuleToJson(m))
  <1>1. /\ json.object
        /\ DOMAIN json.fields = {"version", "type", "timestamp", "module"}
        /\ json.fields["version"]   = Relex(IntegerValue(ProtocolVersion))
        /\ json.fields["type"]      = Relex(StringValue("module"))
        /\ json.fields["timestamp"] = Relex(IntegerValue(m.timestamp))
        /\ json.fields["module"]    = Relex(FloatValue(m.module))
    BY DEF Transmit, ModuleToJson, Object
  <1> HIDE DEF json
  <1>2. \A f \in {"version", "type", "timestamp", "module"} : HasField(json, f)
    BY <1>1 DEF HasField
  <1>3. ValidateProtocolVersion(json)
    BY <1>1, <1>2, VersionAccepted
  <1>4. ValidateMessageType(json, "module")
    BY <1>1, <1>2, RelexValues
       DEF ValidateMessageType, GetMessageType, getStringField, StringValue
  <1>5. getInt64Field(json, "timestamp") = Success(m.timestamp)
    <2>1. /\ IsNumberInteger(json.fields["timestamp"])
          /\ json.fields["timestamp"].number = m.timestamp
      BY <1>1, RelexValues
    <2>2. Wrap(m.timestamp, LongLimit) = m.timestamp
      <3>1. m.timestamp \in Int /\ LongLimit \in Nat /\ LongLimit > 0
        BY WidthAssumption
      <3> QED
        BY <3>1, WrapRange
    <2> QED
      BY <1>2, <2>1, <2>2 DEF getInt64Field
  <1> QED
    BY <1>1, <1>2, <1>3, <1>4, <1>5 DEF json

\* A finite module survives being written and parsed.
LEMMA ModuleRoundTrip ==
    ASSUME NEW m, Finite(m)
    PROVE  ParseAccelModule(Transmit(ModuleToJson(m))) = Success(m)
  <1> DEFINE json == Transmit(ModuleToJson(m))
  <1>1. /\ HasField(json, "module")
        /\ json.fields["module"] = Relex(FloatValue(m.module))
        /\ ValidateProtocolVersion(json)
        /\ ValidateMessageType(json, "module")
        /\ getInt64Field(json, "timestamp") = Success(m.timestamp)
    BY ModuleHeader DEF Finite
  <1> HIDE DEF json
  <1>2. getDoubleField(json, "module") = Success(m.module)
    BY <1>1, RelexValues DEF Finite, getDoubleField, IsNumber, FloatValue
  <1>3. ParseAccelModule(json) =
           Success([timestamp |-> m.timestamp, module |-> m.module])
    <2>1. AllOk({getInt64Field(json, "timestamp"), getDoubleField(json, "module")})
      BY <1>1, <1>2 DEF AllOk, Success
    <2>2. /\ getInt64Field(json, "timestamp").value = m.timestamp
          /\ getDoubleField(json, "module").value = m.module
      BY <1>1, <1>2 DEF Success
    <2> QED
      BY <1>1, <2>1, <2>2 DEF ParseAccelModule
  <1> QED
    BY <1>3 DEF json, Finite

\* An infinite one is written as null, which the parser refuses.
LEMMA InfinityRefused ==
    ASSUME NEW m, m.timestamp \in (-LongLimit)..(LongLimit - 1),
           m.module = Infinity
    PROVE  ~ ParseAccelModule(Transmit(ModuleToJson(m))).ok
  <1> DEFINE json == Transmit(ModuleToJson(m))
  <1>1. json.fields["module"] = Relex(FloatValue(m.module))
    BY ModuleHeader
  <1>2. json.fields["module"] = OtherValue
    BY <1>1 DEF Relex, FloatValue
  <1> HIDE DEF json
  <1>3. ~ getDoubleField(json, "module").ok
    BY <1>2 DEF getDoubleField, IsNumber, OtherValue, Failure
  <1>4. ParseAccelModule(json) = Failure
    BY <1>3 DEF ParseAccelModule, AllOk
  <1> QED
    BY <1>4 DEF json, Failure

LEMMA ComputedModules ==
    ASSUME NEW p, Parsed(p)
    PROVE  /\ Computed(p).timestamp \in (-LongLimit)..(LongLimit - 1)
           /\ Overflows(p) => Computed(p).module = Infinity
           /\ ~ Overflows(p) => Computed(p) = ModuleOf(p) /\ Finite(ModuleOf(p))
  <1>1. /\ ModuleOf(p) = [timestamp |-> p.timestamp, module |-> ModuleOf(p).module]
        /\ ModuleOf(p).timestamp = p.timestamp
    BY DEF ModuleOf
  <1>2. ModuleOf(p).module \in Int
    BY DEF Parsed, ModuleOf
  <1> QED
    BY <1>1, <1>2, WidthAssumption DEF Computed, Overflows, Finite, Parsed

\* Where the message is, and from which packet it comes.
ResultInv ==
    /\ origin \in FirstLines
    /\ place = "server" => accepted = Failure
    /\ place # "server" =>
          /\ GetMessageType(origin) = Success("accel")
          /\ accepted = ParseAccelPacket(origin)
          /\ accepted = Success(accepted.value)
          /\ Parsed(accepted.value)
    /\ place = "server_back" =>
          line = Transmit(ModuleToJson(Computed(accepted.value)))
    /\ place = "node_a" =>
          /\ ~ Overflows(accepted.value)
          /\ line = Transmit(ModuleToJson(ModuleOf(accepted.value)))
    /\ place \in {"server", "node_b", "server_back", "node_a"}
    /\ outcome = "logged" => place = "node_a"

LEMMA ResultInvInit == Init => ResultInv
  BY DEF Init, ResultInv

LEMMA ResultInvNext == RelayInv /\ ResultInv /\ [Next]_vars => ResultInv'
  <1> SUFFICES ASSUME RelayInv, ResultInv, [Next]_vars PROVE ResultInv'
    OBVIOUS
  <1>1. CASE ServerForwardsPacket
    <2>1. /\ place = "server" /\ place' = "node_b"
          /\ outcome' = outcome /\ origin' = origin
          /\ GetMessageType(line) = Success("accel")
          /\ ParseAccelPacket(line).ok
          /\ accepted' = ParseAccelPacket(line)
      BY <1>1 DEF ServerForwardsPacket
    <2>2. origin = line /\ line \in FirstLines /\ outcome # "logged"
      BY <2>1 DEF RelayInv, ResultInv
    <2>3. line.object
      BY <2>1 DEF GetMessageType, getStringField, HasField, Success, Failure
    <2>4. Parsed(accepted'.value)
      BY <2>1, <2>2, <2>3, FirstLinesLexed, AcceptedIsParsed
    <2>5. accepted' = Success(accepted'.value)
      BY <2>1 DEF ParseAccelPacket, Success, Failure
    <2> QED
      BY <2>1, <2>2, <2>4, <2>5 DEF ResultInv
  <1>2. CASE NodeBComputes
    <2>1. /\ place = "node_b" /\ place' = "server_back"
          /\ UNCHANGED <<origin, outcome, accepted>>
          /\ line' = Transmit(ModuleToJson(Computed(ParseAccelPacket(line).value)))
      BY <1>2 DEF NodeBComputes
    <2>2. ParseAccelPacket(line) = accepted
      BY <2>1, PacketRoundTrip DEF RelayInv
    <2> QED
      BY <2>1, <2>2 DEF ResultInv
  <1>3. CASE ServerForwardsModule
    <2> DEFINE p == accepted.value
    <2>1. /\ place = "server_back" /\ place' = "node_a"
          /\ UNCHANGED <<origin, outcome, accepted>>
          /\ ParseAccelModule(line).ok
          /\ line' = Transmit(ModuleToJson(ParseAccelModule(line).value))
      BY <1>3 DEF ServerForwardsModule
    <2>2. Parsed(p) /\ line = Transmit(ModuleToJson(Computed(p)))
      BY <2>1 DEF ResultInv
    <2>3. ~ Overflows(p)
      BY <2>1, <2>2, ComputedModules, InfinityRefused
    <2>4. ParseAccelModule(line) = Success(ModuleOf(p))
      BY <2>2, <2>3, ComputedModules, ModuleRoundTrip
    <2>5. line' = Transmit(ModuleToJson(ModuleOf(p)))
      BY <2>1, <2>4 DEF Success
    <2> QED
      BY <2>1, <2>3, <2>5 DEF ResultInv
  <1>4. CASE ServerReadsHello \/ NodeALogs \/ Reject
    BY <1>4 DEF ResultInv, ServerReadsHello, NodeALogs, Reject
  <1>5. CASE UNCHANGED vars
    BY <1>5 DEF ResultInv, vars
  <1> QED
    BY <1>1, <1>2, <1>3, <1>4, <1>5 DEF Next

THEOREM RelayHolds == Spec => [](RelayInv /\ ResultInv)
  BY RelayInvInit, RelayInvNext, ResultInvInit, ResultInvNext, PTL DEF Spec

\* A generated packet is one that a parser may return.
LEMMA GeneratedIsParsed ==
    ASSUME NEW p \in Generated
    PROVE  Parsed(p)
  <1>1. p = [timestamp |-> p.timestamp, x |-> p.x, y |-> p.y, z |-> p.z]
    <2>1. p \in AccelPackets
      BY RelayAssumption
    <2> QED
      BY <2>1 DEF AccelPackets
  <1>2. p.timestamp \in (-LongLimit)..(LongLimit - 1)
    BY RelayAssumption, WidthAssumption
  <1>3. \A v \in {p.x, p.y, p.z} : v \in Int /\ v <= MaxDouble
    BY RelayAssumption
  <1> QED
    BY <1>1, <1>2, <1>3 DEF Parsed

\* What the server does with a line of its own, whoever wrote it.
LEMMA RejectedLine ==
    ASSUME RelayInv, ResultInv, outcome = "rejected"
    PROVE  /\ place = "server" => /\ ~ ParseAccelPacket(origin).ok
                                  /\ ~ GetClientRole(origin).ok
           /\ place \in {"server_back", "node_a"} => ~ ParseAccelModule(line).ok
  BY DEF RelayInv, Rejected

\* Node A logs the module of the packet that the server accepted, with its
\* timestamp, or nothing (node_b/main.cpp:94-102, node_a/main.cpp:71-83).
THEOREM LogFollowsPacket == Spec => []LogIsOfPacket
  <1>1. RelayInv /\ ResultInv => LogIsOfPacket
    <2> SUFFICES ASSUME RelayInv, ResultInv PROVE LogIsOfPacket
      OBVIOUS
    <2>1. place = "node_a" =>
            /\ ParseAccelModule(line) = Success(ModuleOf(accepted.value))
            /\ ~ Overflows(accepted.value)
      BY ComputedModules, ModuleRoundTrip DEF ResultInv
    <2>2. ~ RejectedBy("node_a")
      BY <2>1, RejectedLine DEF RejectedBy, Success
    <2> QED
      BY <2>1, <2>2 DEF LogIsOfPacket, ResultInv
  <1> QED
    BY <1>1, RelayHolds, PTL

\* A packet Node A generated is accepted unchanged, and its module comes back
\* unless it is infinite (json_protocol.cpp:72-90, 122-140, 154-242).
THEOREM GeneratedComesBack == Spec => []GeneratedIsLogged
  <1>1. RelayInv /\ ResultInv => GeneratedIsLogged
    <2> SUFFICES ASSUME RelayInv, ResultInv,
                        NEW p \in Generated, origin = Transmit(PacketToJson(p))
                 PROVE  /\ accepted.ok => accepted.value = p
                        /\ ~ RejectedBy("server")
                        /\ RejectedBy("server_back") => Overflows(p)
      BY DEF GeneratedIsLogged
    <2>1. Parsed(p) /\ ParseAccelPacket(origin) = Success(p)
      BY GeneratedIsParsed, PacketRoundTrip
    <2>2. accepted.ok => accepted.value = p
      BY <2>1 DEF ResultInv, Success, Failure
    <2>3. ~ RejectedBy("server")
      BY <2>1, RejectedLine DEF RejectedBy, Success
    <2>4. ASSUME RejectedBy("server_back"), ~ Overflows(p) PROVE FALSE
      <3>1. accepted.value = p
        BY <2>1, <2>4 DEF RejectedBy, ResultInv, Success
      <3>2. line = Transmit(ModuleToJson(ModuleOf(p)))
        BY <2>1, <2>4, <3>1, ComputedModules DEF RejectedBy, ResultInv
      <3>3. ParseAccelModule(line).ok
        BY <2>1, <2>4, <3>2, ComputedModules, ModuleRoundTrip DEF Success
      <3> QED
        BY <2>4, <3>3, RejectedLine DEF RejectedBy
    <2> QED
      BY <2>2, <2>3, <2>4
  <1> QED
    BY <1>1, RelayHolds, PTL

LEMMA HelloRoundTrip ==
    ASSUME NEW r \in Roles
    PROVE  LET json == Transmit(MakeHelloMessage(r))
           IN  /\ GetMessageType(json) = Success("hello")
               /\ GetClientRole(json) = Success(r)
  <1> DEFINE json == Transmit(MakeHelloMessage(r))
  <1>1. /\ json.object
        /\ DOMAIN json.fields = {"version", "type", "role"}
        /\ json.fields["version"] = Relex(IntegerValue(ProtocolVersion))
        /\ json.fields["type"]    = Relex(StringValue("hello"))
        /\ json.fields["role"]    = Relex(StringValue(r))
    BY DEF Transmit, MakeHelloMessage, Object
  <1> HIDE DEF json
  <1>2. \A f \in {"version", "type", "role"} : HasField(json, f)
    BY <1>1 DEF HasField
  <1>3. ValidateProtocolVersion(json)
    BY <1>1, <1>2, VersionAccepted
  <1>4. GetMessageType(json) = Success("hello")
    BY <1>1, <1>2, RelexValues DEF GetMessageType, getStringField, StringValue
  <1>5. getStringField(json, "role") = Success(r)
    BY <1>1, <1>2, RelexValues DEF getStringField, StringValue
  <1>6. GetClientRole(json) = Success(r)
    <2> DEFINE role == getStringField(json, "role")
    <2>1. role.ok /\ role.value = r /\ role = Success(r)
      BY <1>5 DEF Success
    <2>2. role.value \in {"A", "B"}
      BY <2>1 DEF Roles
    <2>3. ValidateMessageType(json, "hello")
      BY <1>4 DEF ValidateMessageType
    <2>4. GetClientRole(json) = role
      BY <1>3, <2>1, <2>2, <2>3 DEF GetClientRole
    <2> QED
      BY <2>1, <2>4
  <1> QED
    BY <1>4, <1>6 DEF json

\* The hello of either node is understood for what it is (json_protocol.cpp:
\* 114-120, 249-278).
THEOREM HelloIsAccepted == Spec => []HelloIsUnderstood
  <1>1. RelayInv /\ ResultInv => HelloIsUnderstood
    <2> SUFFICES ASSUME RelayInv, ResultInv,
                        NEW r \in Roles, origin = Transmit(MakeHelloMessage(r))
                 PROVE  /\ GetClientRole(origin) = Success(r)
                        /\ outcome # "rejected"
      BY DEF HelloIsUnderstood
    <2>1. /\ GetMessageType(origin) = Success("hello")
          /\ GetClientRole(origin) = Success(r)
      BY HelloRoundTrip
    <2>2. place = "server"
      BY <2>1 DEF ResultInv, Success
    <2> QED
      BY <2>1, <2>2, RejectedLine DEF Success
  <1> QED
    BY <1>1, RelayHolds, PTL
==============================================================================
