----------------------------- MODULE JsonProtocol -----------------------------
(***************************************************************************)
(* The messages of the accelerometer system and their validation           *)
(* (src/common/json_protocol.cpp), over the nlohmann::json values that the *)
(* validation looks at.                                                    *)
(*                                                                         *)
(* A line is a JSON document or text that does not parse.  What a document *)
(* holds besides objects and the fields of the protocol is not told apart: *)
(* a value that is neither a number nor a string is "other".  The widths   *)
(* of int and std::int64_t are parameters, so that small instances meet    *)
(* the numbers at which the conversions wrap.                              *)
(***************************************************************************)
EXTENDS Integers, AccelPacket

CONSTANTS
    IntLimit,   \* int holds -IntLimit..IntLimit-1
    LongLimit,  \* std::int64_t holds -LongLimit..LongLimit-1
    MaxDouble   \* the largest finite double, in units of an axis value

ProtocolVersion == 1

\* static_cast of an integer to the signed type with that limit.
Wrap(n, limit) == ((n + limit) % (2 * limit)) - limit

Unsigned(limit) == 0..(2 * limit - 1)
Negative(limit) == (-limit)..(-1)

------------------------------------------------------------------------------
(* JSON values (nlohmann::json).                                           *)

\* A double is finite or infinite; a NaN does not arise from sums of squares.
Infinity == MaxDouble + 1

IntegerValue(n)  == [kind |-> "integer",  number |-> n]
UnsignedValue(n) == [kind |-> "unsigned", number |-> n]
FloatValue(v)    == [kind |-> "float",    number |-> v]
StringValue(s)   == [kind |-> "string",   string |-> s]
OtherValue       == [kind |-> "other"]

IntegralAxis(n) == n * 1000 * Step

\* A double holds every 64-bit integer, if not exactly.
ASSUME WidthAssumption ==
    /\ IntLimit \in Nat /\ LongLimit \in Nat
    /\ 2 <= IntLimit /\ IntLimit <= LongLimit
    /\ MaxDouble \in Nat /\ IntegralAxis(2 * LongLimit) <= MaxDouble

\* The lexer reads an integer literal as unsigned if it has no sign, as
\* signed if it has one, and as a float if it does not fit.
LexInteger(n) ==
    IF n \in Unsigned(LongLimit) THEN UnsignedValue(n)
    ELSE IF n \in Negative(LongLimit) THEN IntegerValue(n)
    ELSE FloatValue(IntegralAxis(n))

\* What dump() writes and parse() reads back: the sign decides the kind of
\* an integer, and an infinite double is written as null.
Relex(value) ==
    CASE value.kind \in {"integer", "unsigned"}                 -> LexInteger(value.number)
      [] value.kind = "float" /\ value.number = Infinity        -> OtherValue
      [] OTHER                                                  -> value

\* The values the lexer delivers.
Lexed(value) ==
    \/ value.kind = "unsigned" /\ value.number \in Unsigned(LongLimit)
    \/ value.kind = "integer"  /\ value.number \in Negative(LongLimit)
    \/ value.kind = "float"    /\ value.number \in Int /\ value.number <= MaxDouble
    \/ value.kind \in {"string", "other"}

Object(fields) == [object |-> TRUE, fields |-> fields]
NotAnObject    == [object |-> FALSE]

\* dump() of an object, followed by ParseJsonLine of the line.
Transmit(json) ==
    Object([f \in DOMAIN json.fields |-> Relex(json.fields[f])])

IsNumberInteger(value)  == value.kind \in {"integer", "unsigned"}
IsNumberUnsigned(value) == value.kind = "unsigned"
IsNumber(value)         == value.kind \in {"integer", "unsigned", "float"}

------------------------------------------------------------------------------
(* Fields.  A result is a success with a value, or a failure.              *)

Success(v) == [ok |-> TRUE, value |-> v]
Failure    == [ok |-> FALSE]

\* requireField, with validateObject.
HasField(json, field) == json.object /\ field \in DOMAIN json.fields

\* Variant: the unsigned values are looked at before the integers, which they
\* also are.
getInt64FieldUnsignedFirst(json, field) ==
    IF ~ HasField(json, field) THEN Failure
    ELSE LET value == json.fields[field] IN
         IF IsNumberUnsigned(value)
         THEN IF value.number >= LongLimit - 1
              THEN Failure
              ELSE Success(value.number)
         ELSE IF IsNumberInteger(value)
         THEN Success(Wrap(value.number, LongLimit))
         ELSE Failure

getInt64Field(json, field) ==
    IF ~ HasField(json, field) THEN Failure
    ELSE LET value == json.fields[field] IN
         IF IsNumberInteger(value)
         THEN Success(Wrap(value.number, LongLimit))
         ELSE IF IsNumberUnsigned(value)
         THEN IF value.number >= LongLimit
              THEN Failure
              ELSE Success(value.number)
         ELSE Failure

getDoubleField(json, field) ==
    IF HasField(json, field) /\ IsNumber(json.fields[field])
    THEN LET value == json.fields[field] IN
         Success(IF value.kind = "float" THEN value.number
                                         ELSE IntegralAxis(value.number))
    ELSE Failure

getStringField(json, field) ==
    IF HasField(json, field) /\ json.fields[field].kind = "string"
    THEN Success(json.fields[field].string)
    ELSE Failure

------------------------------------------------------------------------------
(* Validation.                                                             *)

GetMessageType(json) == getStringField(json, "type")

\* The version is read as an int, whatever the width of the number.
ValidateProtocolVersion(json) ==
    /\ HasField(json, "version")
    /\ IsNumberInteger(json.fields["version"])
    /\ Wrap(json.fields["version"].number, IntLimit) = ProtocolVersion

ValidateMessageType(json, type) == GetMessageType(json) = Success(type)

\* The results a parser combines, all of them successes.
AllOk(results) == \A r \in results : r.ok

ParseAccelPacket(json) ==
    LET timestamp == getInt64Field(json, "timestamp")
        x == getDoubleField(json, "x")
        y == getDoubleField(json, "y")
        z == getDoubleField(json, "z")
    IN IF /\ ValidateProtocolVersion(json)
          /\ ValidateMessageType(json, "accel")
          /\ AllOk({timestamp, x, y, z})
       THEN Success([timestamp |-> timestamp.value,
                     x |-> x.value, y |-> y.value, z |-> z.value])
       ELSE Failure

ParseAccelModule(json) ==
    LET timestamp == getInt64Field(json, "timestamp")
        module    == getDoubleField(json, "module")
    IN IF /\ ValidateProtocolVersion(json)
          /\ ValidateMessageType(json, "module")
          /\ AllOk({timestamp, module})
       THEN Success([timestamp |-> timestamp.value, module |-> module.value])
       ELSE Failure

\* Variant: only one of the roles is known.
GetClientRoleOnlyA(json) ==
    LET role == getStringField(json, "role") IN
    IF /\ ValidateProtocolVersion(json)
       /\ ValidateMessageType(json, "hello")
       /\ role.ok
       /\ role.value \in {"A"}
    THEN role
    ELSE Failure

GetClientRole(json) ==
    LET role == getStringField(json, "role") IN
    IF /\ ValidateProtocolVersion(json)
       /\ ValidateMessageType(json, "hello")
       /\ role.ok
       /\ role.value \in {"A", "B"}
    THEN role
    ELSE Failure

------------------------------------------------------------------------------
(* Making messages.                                                        *)

MakeHelloMessage(role) ==
    Object([version |-> IntegerValue(ProtocolVersion),
            type    |-> StringValue("hello"),
            role    |-> StringValue(role)])

\* Variant: the server forwards the values that it compared.
PacketToJsonRounded(packet) ==
    Object([version   |-> IntegerValue(ProtocolVersion),
            type      |-> StringValue("accel"),
            timestamp |-> IntegerValue(packet.timestamp),
            x |-> FloatValue(RoundAxisValue(packet.x) * Step),
            y |-> FloatValue(RoundAxisValue(packet.y) * Step),
            z |-> FloatValue(RoundAxisValue(packet.z) * Step)])

PacketToJson(packet) ==
    Object([version   |-> IntegerValue(ProtocolVersion),
            type      |-> StringValue("accel"),
            timestamp |-> IntegerValue(packet.timestamp),
            x |-> FloatValue(packet.x),
            y |-> FloatValue(packet.y),
            z |-> FloatValue(packet.z)])

ModuleToJson(module) ==
    Object([version   |-> IntegerValue(ProtocolVersion),
            type      |-> StringValue("module"),
            timestamp |-> IntegerValue(module.timestamp),
            module    |-> FloatValue(module.module)])
==============================================================================
