---------------------------- MODULE MCAccelSystem ----------------------------
(* Instances of AccelSystem for TLC. *)
EXTENDS AccelSystem, TLC

CONSTANTS a1, a2, b1, b2

Distinct == <<10, 30, 10>>

\* The second value is a duplicate of the first for the filter.
FourValues == <<10, 12, 30, 10>>

SignalPackets ==
    [timestamp : 1..MaxClock, x : {Signal[i] : i \in DOMAIN Signal},
     y : {0}, z : {0}]

SignalModules == {ModuleOf(p) : p \in SignalPackets}

NodeSymmetry == Permutations({a1, a2}) \cup Permutations({b1, b2})
==============================================================================
