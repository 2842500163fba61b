--------------------------- MODULE MCAccelServer ---------------------------
(* Instances of AccelServer for TLC. *)
EXTENDS AccelServer, TLC

CONSTANTS s1, s2, s3

Sample(t, v) == [timestamp |-> t, x |-> v, y |-> 0, z |-> 0]

OnePacket == {Sample(1, 10)}
OneModule == {ModuleOf(p) : p \in OnePacket}

SessionSymmetry == Permutations({s1, s2, s3})
=============================================================================
