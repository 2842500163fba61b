------------------------------ MODULE ModuleLog ------------------------------
(***************************************************************************)
(* What the accelerometer system promises about accel/module.log, whatever *)
(* process or connection fails: the log is a growing record of the modules *)
(* of generated packets, each at most once; those of one run of Node A are *)
(* in the order in which it generated the packets, and not mixed with      *)
(* those of another run.  Packets may be missing, and the runs need not    *)
(* come in the order in which they were started: the server may take up    *)
(* what a dead run has left in its connection when a later one is over.    *)
(***************************************************************************)
EXTENDS Integers, Sequences, AccelPacket

CONSTANTS
    Run,     \* the runs of Node A
    Packet   \* the packets that Node A may generate

VARIABLES
    generated,  \* the packets Node A has generated, each with its run
    log         \* accel/module.log

Init ==
    /\ generated = <<>>
    /\ log = <<>>

\* Node A generates a packet, later than the ones before.
Generate(run, packet) ==
    /\ \A i \in DOMAIN generated :
          generated[i].packet.timestamp < packet.timestamp
    /\ generated' = Append(generated, [run |-> run, packet |-> packet])
    /\ UNCHANGED log

\* Packet j is in the log.
Logged(j) == \E k \in DOMAIN log : log[k] = ModuleOf(generated[j].packet)

\* Entry k of the log is of a packet of the run.
OfRun(k, run) ==
    \E j \in DOMAIN generated :
        generated[j].run = run /\ log[k] = ModuleOf(generated[j].packet)

\* The log has gone on from the run to another one.
Over(run) ==
    \E k, m \in DOMAIN log : k < m /\ OfRun(k, run) /\ ~ OfRun(m, run)

\* The module of a packet joins the log, which has neither that packet nor a
\* later one of its run, and has not gone on to another run.
Log(i) ==
    /\ ~ Over(generated[i].run)
    /\ \A j \in DOMAIN generated :
          Logged(j) /\ generated[j].run = generated[i].run => j < i
    /\ log' = Append(log, ModuleOf(generated[i].packet))
    /\ UNCHANGED generated

Next ==
    \/ \E run \in Run, packet \in Packet : Generate(run, packet)
    \/ \E i \in DOMAIN generated : Log(i)

Spec == Init /\ [][Next]_<<generated, log>>
==============================================================================
