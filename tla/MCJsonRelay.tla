----------------------------- MODULE MCJsonRelay -----------------------------
(* Instances of JsonRelay for TLC: a 3-bit int, a 5-bit int64_t. *)
EXTENDS JsonRelay

\* Integers around every bound of the two widths.
Boundary == {-17, -16, -1, 0, 1, 2, 9, 15, 16, 31, 32}

Absent == [kind |-> "absent"]

Numbers    == {LexInteger(n) : n \in Boundary} \cup {FloatValue(IntegralAxis(1))}
Versions   == Numbers \cup {Absent, StringValue("1")}
Timestamps == Numbers \cup {Absent, OtherValue}
Types      == {StringValue("accel"), StringValue("module"), OtherValue, Absent}
Axes       == {UnsignedValue(1), IntegerValue(-1), FloatValue(15), FloatValue(-25),
               FloatValue(40000), OtherValue, Absent}

\* The document with those of the fields that are present.
Document(values) ==
    Object([f \in {f \in DOMAIN values : values[f] # Absent} |-> values[f]])

\* One field at a time leaves the accepted values.
MCLines ==
    {NotAnObject} \cup
    {Document([version |-> v, type |-> StringValue("hello"), role |-> r]) :
        v \in Versions, r \in {StringValue("B"), StringValue("C"), OtherValue, Absent}} \cup
    {Document([version |-> v, type |-> StringValue("accel"), timestamp |-> t,
               x |-> x, y |-> FloatValue(20), z |-> FloatValue(0)]) :
        v \in Versions, t \in Timestamps, x \in Axes} \cup
    {Document([version |-> UnsignedValue(1), type |-> type,
               timestamp |-> UnsignedValue(3),
               x |-> FloatValue(10), y |-> y, z |-> z]) :
        type \in Types, y \in Axes \ {FloatValue(40000)},
        z \in {FloatValue(1), OtherValue, Absent}}

MCGenerated ==
    {[timestamp |-> t, x |-> x, y |-> y, z |-> 1] :
        t \in {0, 1, 14, 15}, x \in {-40000, -15, 0, 15}, y \in {0, 25}}
==============================================================================
