----------------------------- MODULE AccelPacket -----------------------------
(***************************************************************************)
(* The sample that Node A produces and the server filters                  *)
(* (include/common/accel_packet.hpp) and the result that Node B computes   *)
(* from it (include/common/accel_module.hpp).                              *)
(*                                                                         *)
(* An axis value is a double in m/s^2.  Here it is an integer number of    *)
(* tenths of 1/1000 m/s^2, one decimal digit finer than the grid on which  *)
(* the duplicate filter compares, so that the rounding is visible.         *)
(***************************************************************************)
EXTENDS Integers

\* Units of an axis value in one step of the filter's grid.
Step == 10

\* static_cast<int64_t>(std::llround(value * 1000.0)): to the nearest step,
\* halfway cases away from zero.
RoundAxisValue(value) ==
    IF value >= 0 THEN (value + Step \div 2) \div Step
                  ELSE -((-value + Step \div 2) \div Step)

AccelPackets == [timestamp : Int, x : Int, y : Int, z : Int]

\* The timestamp takes no part in the comparison.
IsDuplicate(lhs, rhs) ==
    /\ RoundAxisValue(lhs.x) = RoundAxisValue(rhs.x)
    /\ RoundAxisValue(lhs.y) = RoundAxisValue(rhs.y)
    /\ RoundAxisValue(lhs.z) = RoundAxisValue(rhs.z)

\* The result carries std::sqrt(x^2 + y^2 + z^2); sqrt is injective on the
\* squares, so the result is represented by the square itself.
AccelModules == [timestamp : Int, module : Int]

ModuleOf(packet) ==
    [timestamp |-> packet.timestamp,
     module    |-> packet.x * packet.x + packet.y * packet.y
                                       + packet.z * packet.z]
==============================================================================
