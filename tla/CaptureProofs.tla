---------------------------- MODULE CaptureProofs ----------------------------
(***************************************************************************)
(* Proofs about Capture, for every MAX_DUMP_FILES, every number of raw     *)
(* files and every number of signals.                                      *)
(*                                                                         *)
(* The argument: a recovery handler is started only when tcpdump's group   *)
(* is over, the group does not come back, and the script waits for each    *)
(* recovery handler before it goes on; so no two handlers work on the      *)
(* files of one index at the same time.                                    *)
(***************************************************************************)
EXTENDS Capture, TLAPS

Types ==
    /\ handler \in [Job -> Alive \cup {"none", "done", "failed"}]
    /\ handlerTerm \subseteq Job
    /\ xz \in [Job -> {"none", "running", "done", "failed"}]
    /\ raw \in [Index -> {"none", "open", "closed"}]
    /\ part \in [Index -> Job \cup {NoJob}]
    /\ dumps \in [Index -> {"none", "partial", "whole"}]
    /\ current \in Index \cup {-1}
    /\ next \in 0..MaxDumpFiles
    /\ tcpdump \in {"none", "forked", "grouped"} \cup Capturing \cup TcpdumpOver
    /\ mode \in {"running", "graceful", "immediate"}
    /\ sigterm \in BOOLEAN

\* tcpdump's group is over for good.
GroupOver == tcpdump \in TcpdumpOver /\ \A j \in RotateJobs : ~JobAlive(j)

\* What is over when the script has come to a place.
PlaceInv ==
    /\ pc \in {"prepare", "launch"} => tcpdump = "none"
    /\ pc \in {"set_mode", "set_code", "exit", "wait_postrotate", "stop_group",
               "wait_group"} => tcpdump \in TcpdumpOver
    /\ pc \in {"test_disk", "recover", "start", "store", "wait_gzip",
               "test_gzip", "fail", "after"} => GroupOver
    /\ pc \in {"cleanup", "ended"} => GroupOver \/ tcpdump = "none"
    /\ pc \in {"start", "store", "wait_gzip", "test_gzip", "fail"} =>
         next \in Index /\ next < MaxDumpFiles
    /\ pc = "start" =>
         /\ raw[next] = "closed"
         /\ dumps[next] = "none"

\* tcpdump and its files.
TcpdumpInv ==
    /\ tcpdump \in {"none", "forked", "grouped"} => current = -1
    /\ tcpdump \in Capturing => current # -1
    /\ \A i \in Index : raw[i] = "open" => i = current /\ tcpdump \in Capturing
    /\ \A i \in Index : raw[i] # "none" => i <= current

\* Who may have been started, and when.
StartInv ==
    /\ \A i \in Index : handler[<<"rotate", i>>] # "none" => i < current
    /\ \A i \in Index : handler[Recover(i)] # "none" => GroupOver
    /\ \A i \in Index :
         dumps[i] # "none" =>
           handler[<<"rotate", i>>] # "none" \/ handler[Recover(i)] # "none"

\* The script starts one recovery handler for each index and waits for it.
TurnInv ==
    \A i \in Index :
      /\ HandlerAlive(Recover(i)) =>
           pc \in {"store", "wait_gzip", "test_gzip"} /\ i = next
      /\ handler[Recover(i)] # "none" /\ i >= next =>
           /\ i = next
           /\ pc \in {"store", "wait_gzip", "test_gzip", "fail", "after",
                     "stop_group", "wait_group", "cleanup", "ended"}

\* A handler and the files of its index.
OwnFiles(j) ==
    /\ handler[j] \in {"none", "check", "launch"} => xz[j] = "none"
    /\ handler[j] \in {"check"} \cup Compressing =>
         raw[j[2]] = "closed" /\ dumps[j[2]] = "none"
    /\ handler[j] \in Compressing => j[2] < MaxDumpFiles
    /\ handler[j] \in {"store", "wait", "publish"} => part[j[2]] = j
    /\ handler[j] = "publish" => xz[j] = "done"

FileInv == \A j \in Job : OwnFiles(j)

\* Without SIGTERM every handler waits for its compressor.
QuietInv ==
    /\ mode = "immediate" => sigterm
    /\ pc \in {"stop_group", "wait_group"} => sigterm
    /\ ~sigterm =>
         /\ handlerTerm = {}
         /\ \A j \in Job :
              /\ handler[j] \notin {"reap", "tidy"}
              /\ xz[j] = "running" => handler[j] \in {"store", "wait"}

IInv == Types /\ PlaceInv /\ TcpdumpInv /\ StartInv /\ TurnInv /\ FileInv
        /\ QuietInv

-----------------------------------------------------------------------------
(* Jobs and handlers *)

LEMMA JobFacts ==
    /\ \A i \in Index : i \in Nat /\ <<"rotate", i>> \in Job
                        /\ <<"rotate", i>> \in RotateJobs
                        /\ Recover(i) \in Job /\ Recover(i) \notin RotateJobs
    /\ \A j \in Job : /\ j[2] \in Index
                      /\ \/ j = <<"rotate", j[2]>> /\ j \in RotateJobs
                         \/ j = Recover(j[2])
    /\ MaxDumpFiles \in Nat \ {0}
    /\ MaxIndex \in Nat
  BY MaxIndexAssumption, MaxDumpFilesAssumption
  DEF Job, RotateJobs, Recover, Index

\* No two handlers of one index are at work at the same time.
LEMMA Alone ==
    ASSUME Types, StartInv, NEW j \in Job, NEW k \in Job,
           HandlerAlive(j), HandlerAlive(k), j[2] = k[2]
    PROVE  j = k
  <1>1. HandlerAlive(Recover(j[2])) => handler[Recover(j[2])] # "none"
    BY DEF HandlerAlive, Alive, Running, Compressing
  <1>2. HandlerAlive(Recover(j[2])) => ~HandlerAlive(<<"rotate", j[2]>>)
    BY <1>1, JobFacts DEF StartInv, GroupOver, JobAlive
  <1> QED
    BY <1>2, JobFacts

\* The invariants of the data hold as long as the data stay.
LEMMA DataUnchanged ==
    ASSUME UNCHANGED <<handler, xz, raw, part, dumps, tcpdump, current>>
    PROVE  /\ GroupOver' = GroupOver
           /\ \A j \in Job : HandlerAlive(j)' = HandlerAlive(j)
           /\ TcpdumpInv => TcpdumpInv'
           /\ StartInv => StartInv'
           /\ FileInv => FileInv'
  <1>1. \A j \in Job : HandlerAlive(j)' = HandlerAlive(j)
    BY DEF HandlerAlive
  <1>2. GroupOver' = GroupOver
    BY DEF GroupOver, JobAlive, HandlerAlive
  <1>3. TcpdumpInv => TcpdumpInv'
    BY DEF TcpdumpInv
  <1>4. StartInv => StartInv'
    BY <1>2 DEF StartInv
  <1>5. FileInv => FileInv'
    BY DEF FileInv, OwnFiles
  <1> QED
    BY <1>1, <1>2, <1>3, <1>4, <1>5

\* GroupIsRunning is the group's side of GroupOver.
LEMMA GroupIsOver ==
    ASSUME tcpdump \in TcpdumpOver, ~GroupIsRunning
    PROVE  GroupOver
  BY DEF GroupOver, GroupIsRunning

THEOREM InitHolds == Init => IInv
  <1> SUFFICES ASSUME Init PROVE IInv
    OBVIOUS
  <1> USE JobFacts DEF Init, GzipInit
  <1>1. Types
    <2>1. /\ handler \in [Job -> Alive \cup {"none", "done", "failed"}]
          /\ xz \in [Job -> {"none", "running", "done", "failed"}]
          /\ raw \in [Index -> {"none", "open", "closed"}]
          /\ part \in [Index -> Job \cup {NoJob}]
          /\ dumps \in [Index -> {"none", "partial", "whole"}]
      OBVIOUS
    <2>2. handlerTerm \subseteq Job
      OBVIOUS
    <2>3. current \in Index \cup {-1} /\ next \in 0..MaxDumpFiles
      OBVIOUS
    <2>4. /\ tcpdump \in {"none", "forked", "grouped"} \cup Capturing
                          \cup TcpdumpOver
          /\ mode \in {"running", "graceful", "immediate"}
          /\ sigterm \in BOOLEAN
      OBVIOUS
    <2> QED
      BY <2>1, <2>2, <2>3, <2>4 DEF Types
  <1>2. PlaceInv
    BY DEF PlaceInv
  <1>3. TcpdumpInv
    BY DEF TcpdumpInv, Capturing
  <1>4. StartInv
    BY DEF StartInv
  <1>5. TurnInv
    BY DEF TurnInv, HandlerAlive, Alive, Running, Compressing
  <1>6. FileInv
    BY DEF FileInv, OwnFiles, Compressing
  <1>7. QuietInv
    BY DEF QuietInv
  <1> QED
    BY <1>1, <1>2, <1>3, <1>4, <1>5, <1>6, <1>7 DEF IInv

-----------------------------------------------------------------------------
(* Steps that leave the handlers, their files and tcpdump as they are *)

dataVars == <<handler, xz, raw, part, dumps, tcpdump, current>>

\* It is then enough to look at the place of the script and the signals.
LEMMA ScriptStep ==
    ASSUME IInv, UNCHANGED dataVars, Types', PlaceInv', TurnInv', QuietInv'
    PROVE  IInv'
  BY DataUnchanged DEF IInv, dataVars

\* A step of the script that changes only variables of the script keeps the
\* types and the signals of the handlers.
LEMMA ScriptOnly ==
    ASSUME IInv, UNCHANGED <<dataVars, handlerTerm, sigterm>>,
           next' \in 0..MaxDumpFiles, mode' \in {mode, "graceful"},
           pc' \in {"stop_group", "wait_group"} =>
             pc \in {"stop_group", "wait_group"} \/ mode = "immediate"
    PROVE  Types' /\ QuietInv'
  <1>1. Types'
    BY DEF IInv, Types, dataVars
  <1>2. QuietInv'
    BY DEF IInv, QuietInv, dataVars
  <1> QED
    BY <1>1, <1>2

ScriptActions ==
    \/ PrepareFails
    \/ Prepare
    \/ StorePids
    \/ WaitTcpdump
    \/ SetModeAtExit
    \/ SetCodeAtExit
    \/ ExitHandle
    \/ WaitPostrotate
    \/ TestDisk
    \/ RecoverNext
    \/ RecoverEnds
    \/ StoreGzipPid
    \/ WaitGzip
    \/ GzipOver
    \/ RecoveryFails
    \/ AfterGraceful
    \/ WaitGroup

\* The places the script leaves alone.
LEMMA ScriptPlaces ==
    ASSUME IInv, ScriptActions
    PROVE  /\ UNCHANGED <<dataVars, handlerTerm, sigterm>>
           /\ mode' \in {mode, "graceful"}
           /\ next' \in 0..MaxDumpFiles
           /\ PlaceInv'
           /\ TurnInv'
           /\ pc' \in {"stop_group", "wait_group"} =>
                pc \in {"stop_group", "wait_group"} \/ mode = "immediate"
  <1> USE DEF Step, gzipVars, RequestVars, dumpVars, dataVars
  <1>1. UNCHANGED <<dataVars, handlerTerm, sigterm>>
    BY DEF ScriptActions, PrepareFails, Prepare, StorePids, WaitTcpdump,
           SetModeAtExit, SetCodeAtExit, ExitHandle, WaitPostrotate, TestDisk,
           RecoverNext, RecoverEnds, StoreGzipPid, WaitGzip, GzipOver,
           RecoveryFails, AfterGraceful, WaitGroup
  <1>2. mode' \in {mode, "graceful"}
    BY DEF ScriptActions, PrepareFails, Prepare, StorePids, WaitTcpdump,
           SetModeAtExit, SetCodeAtExit, ExitHandle, WaitPostrotate, TestDisk,
           RecoverNext, RecoverEnds, StoreGzipPid, WaitGzip, GzipOver,
           RecoveryFails, AfterGraceful, WaitGroup
  <1>3. /\ GroupOver' = GroupOver
        /\ \A i \in Index : HandlerAlive(Recover(i))' = HandlerAlive(Recover(i))
    BY <1>1, DataUnchanged, JobFacts
  <1>4. /\ next \in 0..MaxDumpFiles
        /\ MaxDumpFiles \in Nat
        /\ \A i \in Index : i \in Nat
        /\ raw \in [Index -> {"none", "open", "closed"}]
    BY JobFacts DEF IInv, Types
  <1>5. ASSUME GroupOver, NEW i \in Index PROVE raw[i] # "open"
    BY <1>5, JobFacts DEF GroupOver, IInv, TcpdumpInv, TcpdumpOver, Capturing
  <1>0. GroupOver => tcpdump \in TcpdumpOver
    BY DEF GroupOver
  <1>6. /\ next' \in 0..MaxDumpFiles
        /\ PlaceInv'
        /\ TurnInv'
        /\ pc' \in {"stop_group", "wait_group"} =>
             pc \in {"stop_group", "wait_group"} \/ mode = "immediate"
    <2> USE <1>0, <1>1, <1>3, <1>4 DEF IInv, PlaceInv, TurnInv
    <2>1. CASE PrepareFails
      BY <2>1 DEF PrepareFails
    <2>2. CASE Prepare
      BY <2>2 DEF Prepare
    <2>3. CASE StorePids
      BY <2>3 DEF StorePids
    <2>4. CASE WaitTcpdump
      BY <2>4 DEF WaitTcpdump
    <2>5. CASE SetModeAtExit
      BY <2>5 DEF SetModeAtExit
    <2>6. CASE SetCodeAtExit
      BY <2>6 DEF SetCodeAtExit
    <2>7. CASE ExitHandle
      BY <2>7 DEF ExitHandle
    <2>8. CASE WaitPostrotate
      BY <2>8, GroupIsOver DEF WaitPostrotate
    <2>9. CASE TestDisk
      BY <2>9 DEF TestDisk
    <2>10. CASE RecoverNext
      BY <2>10, <1>5 DEF RecoverNext, NeedsRecovery
    <2>11. CASE RecoverEnds
      BY <2>11 DEF RecoverEnds
    <2>12. CASE StoreGzipPid
      BY <2>12 DEF StoreGzipPid
    <2>13. CASE WaitGzip
      BY <2>13 DEF WaitGzip
    <2>14. CASE GzipOver
      BY <2>14 DEF GzipOver
    <2>15. CASE RecoveryFails
      BY <2>15 DEF RecoveryFails
    <2>16. CASE AfterGraceful
      BY <2>16 DEF AfterGraceful
    <2>17. CASE WaitGroup
      BY <2>17, GroupIsOver DEF WaitGroup
    <2> QED
      BY <2>1, <2>2, <2>3, <2>4, <2>5, <2>6, <2>7, <2>8, <2>9, <2>10, <2>11,
         <2>12, <2>13, <2>14, <2>15, <2>16, <2>17 DEF ScriptActions
  <1> QED
    BY <1>1, <1>2, <1>6

LEMMA ScriptKeeps ==
    ASSUME IInv, ScriptActions
    PROVE  IInv'
  BY ScriptPlaces, ScriptOnly, ScriptStep DEF dataVars

-----------------------------------------------------------------------------
(* Signals *)

\* A signal to tcpdump may end it and does not bring it back.
LEMMA Signalled ==
    ASSUME IInv, UNCHANGED <<handler, xz, raw, part, dumps, current>>,
           tcpdump' \in {tcpdump, AfterSignal("INT"), AfterSignal("TERM")}
    PROVE  /\ tcpdump' \in {"none", "forked", "grouped"} \cup Capturing
                             \cup TcpdumpOver
           /\ tcpdump = "none" => tcpdump' = "none"
           /\ tcpdump \in TcpdumpOver => tcpdump' \in TcpdumpOver
           /\ GroupOver => GroupOver'
           /\ \A j \in Job : HandlerAlive(j)' = HandlerAlive(j)
           /\ TcpdumpInv' /\ StartInv' /\ FileInv'
  <1>1. \/ tcpdump' = tcpdump
        \/ tcpdump = "capturing" /\ tcpdump' = "stopping"
        \/ tcpdump \in {"forked", "grouped"} /\ tcpdump' = "over"
    BY DEF AfterSignal
  <1>2. /\ tcpdump' \in {"none", "forked", "grouped"} \cup Capturing
                          \cup TcpdumpOver
        /\ tcpdump = "none" => tcpdump' = "none"
        /\ tcpdump \in TcpdumpOver => tcpdump' \in TcpdumpOver
    BY <1>1 DEF IInv, Types, Capturing, TcpdumpOver
  <1>3. \A j \in Job : /\ HandlerAlive(j)' = HandlerAlive(j)
                       /\ JobAlive(j)' = JobAlive(j)
    BY DEF HandlerAlive, JobAlive
  <1>4. GroupOver => GroupOver'
    BY <1>2, <1>3, JobFacts DEF GroupOver, RotateJobs, Job
  <1>5. TcpdumpInv'
    BY <1>1 DEF IInv, TcpdumpInv, Capturing
  <1>6. StartInv'
    BY <1>4 DEF IInv, StartInv
  <1>7. FileInv'
    BY DEF IInv, FileInv, OwnFiles
  <1> QED
    BY <1>2, <1>3, <1>4, <1>5, <1>6, <1>7

SignalActions ==
    \/ Trap
    \/ LowDisk
    \/ \E s \in OperatorSignals : OperatorSends(s)
    \/ ImmediateFinish
    \/ WaitAgain

\* What the traps and the senders of signals change.
LEMMA SignalChanges ==
    ASSUME IInv, SignalActions
    PROVE  /\ UNCHANGED <<handler, xz, raw, part, dumps, current, next>>
           /\ tcpdump' \in {tcpdump, AfterSignal("INT"), AfterSignal("TERM")}
           /\ handlerTerm' \subseteq Job
           /\ mode' \in {mode, "graceful", "immediate"}
           /\ sigterm' \in BOOLEAN
           /\ \/ pc' = pc
              \/ pc \in {"wait_gzip", "test_gzip"}
                   /\ pc' \in {"wait_gzip", "test_gzip"}
              \/ pc = "stop_group" /\ pc' = "wait_group"
           /\ \/ sigterm'
              \/ /\ ~sigterm
                 /\ mode' \in {mode, "graceful"}
                 /\ handlerTerm' = handlerTerm
  <1> USE DEF Handles, EndWait, InTrap, gzipVars, dumpVars, RequestVars, Step
  <1>1. /\ handlerTerm \subseteq Job
        /\ sigterm \in BOOLEAN
        /\ mode = "immediate" => sigterm
        /\ pc \in {"stop_group", "wait_group"} => sigterm
        /\ pc = "test_gzip" => Recover(next) \in Job
    BY JobFacts DEF IInv, Types, QuietInv, PlaceInv
  <1>2. \A s \in Graceful : Requests[s].signal \in {"INT", "TERM"}
    BY DEF Graceful, Requests
  <1>3. ASSUME NEW s \in Graceful, TrapFirst(s) \/ TrapLater(s)
        PROVE  /\ UNCHANGED <<handler, handlerTerm, xz, raw, part, dumps,
                              current, next, mode, sigterm>>
               /\ tcpdump' \in
                    {tcpdump, AfterSignal("INT"), AfterSignal("TERM")}
               /\ \/ pc' = pc
                  \/ pc = "wait_gzip" /\ pc' = "test_gzip"
    BY <1>2, <1>3 DEF TrapFirst, TrapLater, StopTcpdump
  <1>4. CASE SetMode
    BY <1>1, <1>4 DEF SetMode
  <1>5. CASE SetReason
    <2>1. UNCHANGED <<gzipVars, pc, mode, next, sigterm, current>>
      BY <1>5 DEF SetReason
    <2>2. tcpdump' \in {tcpdump, AfterSignal("INT"), AfterSignal("TERM")}
      <3>1. PICK signal : StopTcpdump(signal)
                          /\ signal = Requests[Last(traps).signal].signal
        BY <1>5 DEF SetReason
      <3> QED
        BY <3>1 DEF StopTcpdump, AfterSignal
    <2> QED
      BY <1>1, <2>1, <2>2
  <1>6. CASE TrapTerm
    BY <1>1, <1>6 DEF TrapTerm, StopProcessGroup
  <1>7. CASE LowDisk
    BY <1>1, <1>7 DEF LowDisk, mainVars
  <1>8. ASSUME NEW s \in OperatorSignals, OperatorSends(s)
        PROVE  UNCHANGED <<handler, handlerTerm, xz, raw, part, dumps,
                           mainVars, dumpVars>>
    BY <1>8 DEF OperatorSends
  <1>9. CASE ImmediateFinish
    BY <1>1, <1>9 DEF ImmediateFinish, StopProcessGroup
  <1>10. CASE WaitAgain
    BY <1>1, <1>10 DEF WaitAgain
  <1> QED
    BY <1>1, <1>3, <1>4, <1>5, <1>6, <1>7, <1>8, <1>9, <1>10
    DEF SignalActions, Trap, mainVars

LEMMA SignalsKeep ==
    ASSUME IInv, SignalActions
    PROVE  IInv'
  <1>1. /\ UNCHANGED <<handler, xz, raw, part, dumps, current, next>>
        /\ tcpdump' \in {tcpdump, AfterSignal("INT"), AfterSignal("TERM")}
        /\ handlerTerm' \subseteq Job
        /\ mode' \in {mode, "graceful", "immediate"}
        /\ sigterm' \in BOOLEAN
        /\ \/ pc' = pc
           \/ pc \in {"wait_gzip", "test_gzip"}
                /\ pc' \in {"wait_gzip", "test_gzip"}
           \/ pc = "stop_group" /\ pc' = "wait_group"
        /\ \/ sigterm'
           \/ /\ ~sigterm
              /\ mode' \in {mode, "graceful"}
              /\ handlerTerm' = handlerTerm
    BY SignalChanges
  <1>2. /\ tcpdump' \in {"none", "forked", "grouped"} \cup Capturing
                          \cup TcpdumpOver
        /\ tcpdump = "none" => tcpdump' = "none"
        /\ tcpdump \in TcpdumpOver => tcpdump' \in TcpdumpOver
        /\ GroupOver => GroupOver'
        /\ \A j \in Job : HandlerAlive(j)' = HandlerAlive(j)
        /\ TcpdumpInv' /\ StartInv' /\ FileInv'
    BY <1>1, Signalled
  <1>3. Types'
    BY <1>1, <1>2 DEF IInv, Types
  <1>4. PlaceInv'
    BY <1>1, <1>2 DEF IInv, PlaceInv
  <1>5. TurnInv'
    BY <1>1, <1>2, JobFacts DEF IInv, TurnInv
  <1>6. QuietInv'
    BY <1>1 DEF IInv, QuietInv
  <1> QED
    BY <1>2, <1>3, <1>4, <1>5, <1>6 DEF IInv

-----------------------------------------------------------------------------
(* The script starts tcpdump and handlers, and removes the directory *)

LEMMA LaunchTcpdumpKeeps ==
    ASSUME IInv, LaunchTcpdump
    PROVE  IInv'
  <1> USE DEF LaunchTcpdump, Step, gzipVars, RequestVars
  <1>1. /\ tcpdump = "none" /\ tcpdump' = "forked"
        /\ UNCHANGED <<handler, handlerTerm, xz, raw, part, dumps, current,
                       next, mode, sigterm>>
        /\ pc = "launch" /\ pc' = "pids"
    BY DEF IInv, PlaceInv
  <1>2. ~GroupOver
    BY <1>1 DEF GroupOver, TcpdumpOver
  <1>3. \A j \in Job : HandlerAlive(j)' = HandlerAlive(j)
    BY <1>1 DEF HandlerAlive
  <1>4. Types'
    BY <1>1 DEF IInv, Types
  <1>5. PlaceInv'
    BY <1>1 DEF PlaceInv
  <1>6. TcpdumpInv'
    BY <1>1 DEF IInv, TcpdumpInv, Capturing
  <1>7. StartInv'
    BY <1>1, <1>2 DEF IInv, StartInv
  <1>8. TurnInv'
    BY <1>1, <1>3, JobFacts DEF IInv, TurnInv
  <1>9. FileInv'
    BY <1>1 DEF IInv, FileInv, OwnFiles
  <1>10. QuietInv'
    BY <1>1 DEF IInv, QuietInv
  <1> QED
    BY <1>4, <1>5, <1>6, <1>7, <1>8, <1>9, <1>10 DEF IInv

LEMMA StartGzipKeeps ==
    ASSUME IInv, StartGzip
    PROVE  IInv'
  <1> USE DEF StartGzip, Step, RequestVars, dumpVars
  <1>1. /\ pc = "start" /\ pc' = "store"
        /\ handler' = [handler EXCEPT ![Recover(next)] = "check"]
        /\ UNCHANGED <<handlerTerm, xz, raw, part, dumps, tcpdump, current,
                       next, mode, sigterm>>
    BY DEF Go
  <1>2. /\ GroupOver
        /\ next \in Index /\ next < MaxDumpFiles
        /\ raw[next] = "closed" /\ dumps[next] = "none"
        /\ handler[Recover(next)] = "none"
        /\ \A i \in Index : ~HandlerAlive(Recover(i))
    <2>1. next \in Nat /\ MaxDumpFiles \in Nat
      BY JobFacts DEF IInv, Types
    <2> QED
      BY <1>1, <2>1 DEF IInv, PlaceInv, TurnInv
  <1>3. Recover(next) \in Job /\ Recover(next)[2] = next
    BY <1>2, JobFacts DEF Recover
  <1>4. /\ handler'[Recover(next)] = "check"
        /\ \A j \in Job : j # Recover(next) => handler'[j] = handler[j]
    BY <1>1, <1>3 DEF IInv, Types
  <1>5. \A j \in Job : j # Recover(next) => HandlerAlive(j)' = HandlerAlive(j)
    BY <1>4 DEF HandlerAlive
  <1>6. \A j \in RotateJobs : j \in Job /\ j # Recover(next)
    BY <1>2, JobFacts DEF RotateJobs, Job
  <1>7. GroupOver'
    BY <1>1, <1>2, <1>5, <1>6 DEF GroupOver, JobAlive
  <1>8. Types'
    BY <1>1, <1>3 DEF IInv, Types, Alive, Running
  <1>9. PlaceInv'
    BY <1>1, <1>2, <1>7 DEF IInv, PlaceInv
  <1>10. TcpdumpInv'
    BY <1>1 DEF IInv, TcpdumpInv
  <1>11. StartInv'
    BY <1>1, <1>4, <1>6, <1>7, JobFacts DEF IInv, StartInv
  <1>12. TurnInv'
    <2> SUFFICES ASSUME NEW i \in Index, i # next
                 PROVE  /\ ~HandlerAlive(Recover(i))'
                        /\ handler'[Recover(i)] # "none" => ~(i >= next)
      BY <1>1 DEF TurnInv
    <2>1. Recover(i) # Recover(next) /\ Recover(i) \in Job
      BY JobFacts DEF Recover
    <2> QED
      BY <2>1, <1>1, <1>2, <1>4, <1>5 DEF IInv, TurnInv
  <1>13. FileInv'
    BY <1>1, <1>2, <1>3, <1>4 DEF IInv, FileInv, OwnFiles, Compressing
  <1>14. QuietInv'
    BY <1>1, <1>3, <1>4, <1>2 DEF IInv, QuietInv, FileInv, OwnFiles
  <1> QED
    BY <1>8, <1>9, <1>10, <1>11, <1>12, <1>13, <1>14 DEF IInv

\* Where the script ends nothing is left that needs the directory.
LEMMA NobodyLeft ==
    ASSUME IInv, pc \in {"cleanup", "ended"}
    PROVE  \A j \in Job : ~HandlerAlive(j)
  <1>1. CASE GroupOver
    BY <1>1, JobFacts DEF IInv, GroupOver, JobAlive, TurnInv
  <1>2. CASE tcpdump = "none"
    <2>1. ~GroupOver /\ current = -1
      BY <1>2 DEF IInv, TcpdumpInv, GroupOver, TcpdumpOver
    <2>2. ASSUME NEW i \in Index
          PROVE  handler[<<"rotate", i>>] = "none" /\ handler[Recover(i)] = "none"
      <3>1. i \in Nat
        BY JobFacts
      <3>2. ~(i < current)
        BY <2>1, <3>1
      <3> QED
        BY <2>1, <3>2 DEF IInv, StartInv
    <2>3. ASSUME NEW j \in Job PROVE handler[j] = "none"
      <3>1. j[2] \in Index /\ (j = <<"rotate", j[2]>> \/ j = Recover(j[2]))
        BY JobFacts
      <3> QED
        BY <2>2, <3>1
    <2> QED
      BY <2>3 DEF HandlerAlive, Alive, Running, Compressing
  <1> QED
    BY <1>1, <1>2 DEF IInv, PlaceInv

LEMMA CleanupKeeps ==
    ASSUME IInv, Cleanup
    PROVE  IInv'
  <1> USE DEF Cleanup, Step, RequestVars, dumpVars
  <1>1. /\ pc = "cleanup" /\ pc' = "ended"
        /\ raw' = [i \in Index |-> "none"]
        /\ part' = [i \in Index |-> NoJob]
        /\ UNCHANGED <<handler, handlerTerm, xz, dumps, tcpdump, current,
                       next, mode, sigterm>>
    OBVIOUS
  <1>2. \A j \in Job : ~HandlerAlive(j)
    BY <1>1, NobodyLeft
  <1>3. /\ GroupOver' = GroupOver
        /\ \A j \in Job : HandlerAlive(j)' = HandlerAlive(j)
    BY <1>1 DEF GroupOver, JobAlive, HandlerAlive
  <1>4. Types'
    BY <1>1 DEF IInv, Types
  <1>5. PlaceInv'
    BY <1>1, <1>3 DEF IInv, PlaceInv
  <1>6. TcpdumpInv'
    BY <1>1 DEF IInv, TcpdumpInv
  <1>7. StartInv'
    BY <1>1, <1>3 DEF IInv, StartInv
  <1>8. TurnInv'
    BY <1>1, <1>2, <1>3, JobFacts DEF IInv, TurnInv
  <1>9. FileInv'
    BY <1>1, <1>2 DEF IInv, FileInv, OwnFiles, HandlerAlive, Alive, Running, Compressing
  <1>10. QuietInv'
    BY <1>1 DEF IInv, QuietInv
  <1> QED
    BY <1>4, <1>5, <1>6, <1>7, <1>8, <1>9, <1>10 DEF IInv

-----------------------------------------------------------------------------
(* tcpdump *)

\* Files that nobody compresses may be opened and closed.
LEMMA TcpdumpKeeps ==
    ASSUME IInv, UNCHANGED <<handler, handlerTerm, xz, part, dumps, mainVars>>,
           TcpdumpStarts \/ TcpdumpStops \/ TcpdumpFails
    PROVE  IInv'
  <1> USE DEF mainVars
  <1>1. /\ raw \in [Index -> {"none", "open", "closed"}]
        /\ current \in Index \cup {-1}
        /\ 0 \in Index
        /\ tcpdump \in {"forked", "grouped"} => current = -1
        /\ tcpdump \in Capturing => current \in Index
        /\ \A i \in Index : i \in Nat
    BY JobFacts DEF IInv, Types, TcpdumpInv, Index
  <1>2. /\ tcpdump \in {"forked", "grouped"} \cup Capturing
        /\ tcpdump' \in {"grouped"} \cup Capturing \cup TcpdumpOver
    BY DEF TcpdumpStarts, TcpdumpStops, TcpdumpFails, Capturing, TcpdumpOver
  <1>3. ~GroupOver /\ tcpdump \notin TcpdumpOver /\ tcpdump # "none"
    BY <1>2 DEF GroupOver, TcpdumpOver, Capturing
  <1>4. /\ raw' \in [Index -> {"none", "open", "closed"}]
        /\ current' \in Index \cup {-1}
        /\ current' >= current
        /\ \A i \in Index : raw[i] = "closed" => raw'[i] = "closed"
        /\ TcpdumpInv'
    <2>1. CASE TcpdumpStarts
      BY <2>1, <1>1 DEF TcpdumpStarts, IInv, TcpdumpInv, Capturing
    <2>2. CASE TcpdumpStops
      BY <2>2, <1>1 DEF TcpdumpStops, CloseFile, IInv, TcpdumpInv, Capturing
    <2>3. CASE TcpdumpFails
      BY <2>3, <1>1 DEF TcpdumpFails, CloseFile, IInv, TcpdumpInv, Capturing
    <2> QED
      BY <2>1, <2>2, <2>3
  <1>5. \A j \in Job : HandlerAlive(j)' = HandlerAlive(j)
    BY DEF HandlerAlive
  <1>6. Types'
    BY <1>2, <1>4 DEF IInv, Types
  <1>7. PlaceInv'
    BY <1>3 DEF IInv, PlaceInv, GroupOver
  <1>8. StartInv'
    BY <1>1, <1>3, <1>4 DEF IInv, StartInv
  <1>9. TurnInv'
    BY <1>5, JobFacts DEF IInv, TurnInv
  <1>10. FileInv'
    BY <1>4, JobFacts DEF IInv, FileInv, OwnFiles
  <1>11. QuietInv'
    BY DEF IInv, QuietInv
  <1> QED
    BY <1>4, <1>6, <1>7, <1>8, <1>9, <1>10, <1>11 DEF IInv

LEMMA RotateKeeps ==
    ASSUME IInv, Rotate, UNCHANGED mainVars
    PROVE  IInv'
  <1> DEFINE r == <<"rotate", current>>
  <1>1. /\ tcpdump \in Capturing /\ current < MaxIndex
        /\ raw' = [raw EXCEPT ![current] = "closed", ![current + 1] = "open"]
        /\ handler' = [handler EXCEPT ![r] = "check"]
        /\ current' = current + 1
        /\ UNCHANGED <<tcpdump, handlerTerm, xz, part, dumps, mainVars>>
    BY DEF Rotate, Go
  <1>2. current \in Index /\ current' \in Index /\ current \in Nat
    BY <1>1, JobFacts DEF IInv, Types, TcpdumpInv, Index
  <1>3. ~GroupOver /\ tcpdump \notin TcpdumpOver /\ tcpdump # "none"
    BY <1>1 DEF GroupOver, TcpdumpOver, Capturing
  <1>4. /\ handler[r] = "none"
        /\ dumps[current] = "none"
        /\ \A i \in Index : handler[Recover(i)] = "none"
    BY <1>2, <1>3 DEF IInv, StartInv
  <1>5. /\ r \in Job /\ r[2] = current
        /\ handler'[r] = "check"
        /\ \A j \in Job : j # r => handler'[j] = handler[j]
        /\ \A i \in Index : Recover(i) \in Job /\ Recover(i) # r
        /\ \A i \in Index : <<"rotate", i>> # r <=> i # current
        /\ \A i \in Index : <<"rotate", i>> \in Job /\ i \in Nat
    BY <1>1, <1>2, JobFacts DEF IInv, Types, Recover
  <1>6. /\ raw'[current] = "closed" /\ raw'[current'] = "open"
        /\ \A i \in Index : i \notin {current, current'} => raw'[i] = raw[i]
        /\ \A i \in Index : raw[i] = "closed" => raw'[i] = "closed"
    BY <1>1, <1>2, <1>5 DEF IInv, Types, TcpdumpInv
  <1>7. Types'
    BY <1>1, <1>2, <1>5 DEF IInv, Types, Alive, Running, mainVars
  <1>8. PlaceInv'
    BY <1>1, <1>3 DEF IInv, PlaceInv, GroupOver, mainVars
  <1>9. TcpdumpInv'
    <2>1. /\ tcpdump' = tcpdump /\ tcpdump \in Capturing
          /\ current' \in Nat /\ current \in Nat /\ current < current'
      BY <1>1, <1>2
    <2>2. tcpdump' \in {"none", "forked", "grouped"} => current' = -1
      BY <2>1 DEF Capturing
    <2>3. ASSUME NEW i \in Index
          PROVE  /\ raw'[i] = "open" => i = current'
                 /\ raw'[i] # "none" => i <= current'
      <3>1. i \in Nat /\ (raw[i] = "open" => i = current)
                     /\ (raw[i] # "none" => i <= current)
        BY <1>5 DEF IInv, TcpdumpInv
      <3> QED
        BY <1>6, <2>1, <3>1
    <2> QED
      BY <2>1, <2>2, <2>3 DEF TcpdumpInv
  <1>10. StartInv'
    BY <1>1, <1>2, <1>4, <1>5 DEF IInv, StartInv
  <1>11. TurnInv'
    BY <1>1, <1>4, <1>5 DEF TurnInv, HandlerAlive, Alive, Running, Compressing
  <1>12. FileInv'
    <2> SUFFICES ASSUME NEW j \in Job PROVE OwnFiles(j)'
      BY DEF FileInv
    <2>1. CASE j = r
      BY <2>1, <1>1, <1>4, <1>5, <1>6 DEF IInv, FileInv, OwnFiles, Compressing
    <2>2. CASE j # r
      <3>1. /\ handler'[j] = handler[j] /\ xz' = xz /\ dumps' = dumps
            /\ part' = part
            /\ raw[j[2]] = "closed" => raw'[j[2]] = "closed"
        BY <2>2, <1>1, <1>5, <1>6, JobFacts
      <3> QED
        BY <3>1 DEF IInv, FileInv, OwnFiles
    <2> QED
      BY <2>1, <2>2
  <1>13. QuietInv'
    BY <1>1, <1>4, <1>5 DEF IInv, QuietInv, FileInv, OwnFiles, mainVars
  <1> QED
    BY <1>7, <1>8, <1>9, <1>10, <1>11, <1>12, <1>13 DEF IInv

-----------------------------------------------------------------------------
(* The handlers *)

HandlerVars == <<mainVars, dumpVars, monitor, operator>>

\* A handler in compress_file publishes the file of its own compressor.
LEMMA PublishesWhole ==
    ASSUME IInv, NEW j \in Job, PublishFile(j)
    PROVE  /\ dumps' = [dumps EXCEPT ![j[2]] = "whole"]
           /\ part' = [part EXCEPT ![j[2]] = NoJob]
           /\ handler' = [handler EXCEPT ![j] = "remove"]
           /\ dumps[j[2]] = "none"
           /\ j[2] \in Index /\ j[2] < MaxDumpFiles
  <1>1. handler[j] = "publish"
    BY DEF PublishFile, At
  <1>2. /\ part[j[2]] = j /\ xz[j] = "done" /\ raw[j[2]] = "closed"
        /\ dumps[j[2]] = "none" /\ j[2] < MaxDumpFiles /\ j[2] \in Index
    BY <1>1, JobFacts DEF IInv, FileInv, OwnFiles, Compressing
  <1>3. j # NoJob
    BY DEF Job, NoJob
  <1>4. Content(j[2]) = "whole"
    BY <1>2 DEF Content
  <1> QED
    BY <1>2, <1>3, <1>4 DEF PublishFile, Go

\* What a step of a handler does to its own state and to the files.
HandlerEffect(j) ==
    /\ HandlerAlive(j)
    /\ \E p \in Alive \cup {"done", "failed"} :
         handler' = [handler EXCEPT ![j] = p]
    /\ \/ raw' = raw
       \/ raw' = [raw EXCEPT ![j[2]] = "none"]
    /\ \/ xz' = xz
       \/ handler[j] = "launch" /\ xz' = [xz EXCEPT ![j] = "running"]
    /\ \E k \in Job \cup {NoJob} :
         part' \in {part, [part EXCEPT ![j[2]] = k]}
    /\ \/ dumps' = dumps
       \/ dumps' = [dumps EXCEPT ![j[2]] = "whole"]
    /\ handlerTerm' \subseteq handlerTerm
    /\ OwnFiles(j)'
    /\ ~sigterm => /\ handler'[j] \notin {"reap", "tidy"}
                   /\ xz'[j] = "running" => handler'[j] \in {"store", "wait"}

LEMMA HandlerEffects ==
    ASSUME IInv, NEW j \in Job, HandlerStep(j)
    PROVE  HandlerEffect(j)
  <1> USE DEF At, Go
  <1>1. /\ handler \in [Job -> Alive \cup {"none", "done", "failed"}]
        /\ xz \in [Job -> {"none", "running", "done", "failed"}]
        /\ raw \in [Index -> {"none", "open", "closed"}]
        /\ part \in [Index -> Job \cup {NoJob}]
        /\ dumps \in [Index -> {"none", "partial", "whole"}]
        /\ j[2] \in Index
        /\ OwnFiles(j)
        /\ ~sigterm =>
             /\ handlerTerm = {}
             /\ handler[j] \notin {"reap", "tidy"}
             /\ xz[j] = "running" => handler[j] \in {"store", "wait"}
    BY JobFacts DEF IInv, Types, FileInv, QuietInv
  <1> USE DEF HandlerEffect, OwnFiles, HandlerAlive, Alive, Running, Compressing
  <1>2. CASE Overflow(j)
    BY <1>1, <1>2 DEF Overflow
  <1>3. CASE Admit(j)
    BY <1>1, <1>3 DEF Admit
  <1>4. CASE Launch(j)
    BY <1>1, <1>4 DEF Launch
  <1>5. CASE StorePid(j)
    BY <1>1, <1>5 DEF StorePid
  <1>6. CASE Compressed(j)
    BY <1>1, <1>6 DEF Compressed
  <1>7. CASE CompressionFails(j)
    BY <1>1, <1>7 DEF CompressionFails
  <1>8. CASE PublishFile(j)
    <2>1. /\ handler[j] = "publish"
          /\ dumps' = [dumps EXCEPT ![j[2]] = "whole"]
          /\ part' = [part EXCEPT ![j[2]] = NoJob]
          /\ handler' = [handler EXCEPT ![j] = "remove"]
          /\ UNCHANGED <<handlerTerm, xz, raw>>
      BY <1>8, PublishesWhole DEF PublishFile
    <2> QED
      BY <1>1, <2>1
  <1>9. CASE RemoveRaw(j)
    BY <1>1, <1>9 DEF RemoveRaw
  <1>10. CASE Terminate(j)
    BY <1>1, <1>10 DEF Terminate
  <1>11. CASE Killed(j)
    BY <1>1, <1>11 DEF Killed
  <1>12. CASE Reap(j)
    BY <1>1, <1>12 DEF Reap
  <1>13. CASE Tidy(j)
    BY <1>1, <1>13 DEF Tidy
  <1> QED
    BY <1>2, <1>3, <1>4, <1>5, <1>6, <1>7, <1>8, <1>9, <1>10, <1>11, <1>12,
       <1>13 DEF HandlerStep

LEMMA HandlersKeep ==
    ASSUME IInv, NEW j \in Job, HandlerStep(j), UNCHANGED HandlerVars
    PROVE  IInv'
  <1> USE DEF HandlerVars, mainVars, dumpVars
  <1>1. HandlerEffect(j)
    BY HandlerEffects
  <1>2. /\ handler \in [Job -> Alive \cup {"none", "done", "failed"}]
        /\ xz \in [Job -> {"none", "running", "done", "failed"}]
        /\ raw \in [Index -> {"none", "open", "closed"}]
        /\ part \in [Index -> Job \cup {NoJob}]
        /\ dumps \in [Index -> {"none", "partial", "whole"}]
        /\ j[2] \in Index
    BY JobFacts DEF IInv, Types
  <1>3. /\ HandlerAlive(j)
        /\ handler[j] # "none" /\ handler'[j] # "none"
        /\ \A k \in Job : k # j => /\ handler'[k] = handler[k]
                                   /\ xz'[k] = xz[k]
        /\ \A i \in Index : i # j[2] => /\ raw'[i] = raw[i]
                                        /\ part'[i] = part[i]
                                        /\ dumps'[i] = dumps[i]
        /\ \A i \in Index : raw'[i] \in {raw[i], "none"}
    BY <1>1, <1>2 DEF HandlerEffect, HandlerAlive, Alive, Running, Compressing
  <1>4. \A k \in Job : k # j => /\ HandlerAlive(k)' = HandlerAlive(k)
                                /\ JobAlive(k)' = JobAlive(k)
    BY <1>3 DEF HandlerAlive, JobAlive
  <1>5. GroupOver => j \notin RotateJobs
    BY <1>3 DEF GroupOver, JobAlive
  <1>6. GroupOver => GroupOver'
    BY <1>4, <1>5, JobFacts DEF GroupOver, RotateJobs, Job
  <1>7. ~GroupOver \/ (pc \in {"store", "wait_gzip", "test_gzip"})
    BY <1>3, <1>5, JobFacts DEF IInv, TurnInv
  <1>8. Types'
    BY <1>1, <1>2 DEF IInv, Types, HandlerEffect
  <1>9. PlaceInv'
    <2>1. pc # "start"
      BY <1>7 DEF IInv, PlaceInv
    <2> QED
      BY <1>6, <2>1 DEF IInv, PlaceInv
  <1>10. TcpdumpInv'
    BY <1>3 DEF IInv, TcpdumpInv
  <1>11. StartInv'
    <2>1. \A k \in Job : handler'[k] # "none" <=> handler[k] # "none"
      BY <1>3
    <2>2. \A i \in Index : dumps'[i] # "none" =>
            dumps[i] # "none" \/ i = j[2]
      BY <1>3
    <2>3. handler[<<"rotate", j[2]>>] # "none" \/ handler[Recover(j[2])] # "none"
      BY <1>3, JobFacts
    <2> QED
      BY <1>6, <2>1, <2>2, <2>3, JobFacts DEF IInv, StartInv
  <1>12. TurnInv'
    <2> SUFFICES ASSUME NEW i \in Index
                 PROVE  /\ HandlerAlive(Recover(i))' => HandlerAlive(Recover(i))
                        /\ handler'[Recover(i)] # "none" =>
                             handler[Recover(i)] # "none"
      BY DEF IInv, TurnInv
    <2> QED
      BY <1>3, <1>4, JobFacts
  <1>13. FileInv'
    <2> SUFFICES ASSUME NEW k \in Job PROVE OwnFiles(k)'
      BY DEF FileInv
    <2>1. CASE k = j
      BY <2>1, <1>1 DEF HandlerEffect
    <2>2. CASE k # j /\ k[2] = j[2]
      <3>1. ~HandlerAlive(k)
        BY <2>2, <1>3, Alone DEF IInv
      <3>2. handler'[k] = handler[k] /\ xz'[k] = xz[k]
        BY <2>2, <1>3
      <3> QED
        BY <3>1, <3>2 DEF IInv, FileInv, OwnFiles, HandlerAlive, Alive, Running,
                          Compressing
    <2>3. CASE k[2] # j[2]
      <3>1. k # j /\ k[2] \in Index
        BY <2>3, JobFacts
      <3>2. /\ handler'[k] = handler[k] /\ xz'[k] = xz[k]
            /\ raw'[k[2]] = raw[k[2]] /\ part'[k[2]] = part[k[2]]
            /\ dumps'[k[2]] = dumps[k[2]]
        BY <2>3, <3>1, <1>3
      <3> QED
        BY <3>2 DEF IInv, FileInv, OwnFiles
    <2> QED
      BY <2>1, <2>2, <2>3
  <1>14. QuietInv'
    <2>1. ~sigterm =>
            /\ handlerTerm' = {}
            /\ \A k \in Job :
                 /\ handler'[k] \notin {"reap", "tidy"}
                 /\ xz'[k] = "running" => handler'[k] \in {"store", "wait"}
      BY <1>1, <1>3 DEF HandlerEffect, IInv, QuietInv
    <2> QED
      BY <2>1 DEF IInv, QuietInv
  <1> QED
    BY <1>8, <1>9, <1>10, <1>11, <1>12, <1>13, <1>14 DEF IInv

LEMMA XzKeeps ==
    ASSUME IInv, NEW j \in Job, XzEnds(j), UNCHANGED HandlerVars
    PROVE  IInv'
  <1> USE DEF HandlerVars, mainVars, dumpVars
  <1>1. /\ xz[j] = "running"
        /\ xz'[j] \in {"done", "failed"}
        /\ \A k \in Job : k # j => xz'[k] = xz[k]
        /\ xz' \in [Job -> {"none", "running", "done", "failed"}]
        /\ UNCHANGED <<handler, handlerTerm, raw, part, dumps>>
    BY DEF XzEnds, IInv, Types
  <1>2. \A k \in Job : /\ HandlerAlive(k)' = HandlerAlive(k)
                       /\ JobAlive(k)' => JobAlive(k)
    BY <1>1 DEF HandlerAlive, JobAlive
  <1>3. GroupOver => GroupOver'
    BY <1>2, JobFacts DEF GroupOver, RotateJobs, Job
  <1>4. Types'
    BY <1>1 DEF IInv, Types
  <1>5. PlaceInv'
    BY <1>1, <1>3 DEF IInv, PlaceInv
  <1>6. TcpdumpInv'
    BY <1>1 DEF IInv, TcpdumpInv
  <1>7. StartInv'
    BY <1>1, <1>3 DEF IInv, StartInv
  <1>8. TurnInv'
    BY <1>1, <1>2, JobFacts DEF IInv, TurnInv
  <1>9. FileInv'
    BY <1>1 DEF IInv, FileInv, OwnFiles
  <1>10. QuietInv'
    BY <1>1 DEF IInv, QuietInv
  <1> QED
    BY <1>4, <1>5, <1>6, <1>7, <1>8, <1>9, <1>10 DEF IInv

-----------------------------------------------------------------------------
(* The theorems *)

LEMMA StepKeeps ==
    ASSUME IInv, [Next]_vars
    PROVE  IInv'
  <1>1. CASE Main
    <2>1. \/ ScriptActions
          \/ SignalActions
          \/ LaunchTcpdump
          \/ StartGzip
          \/ Cleanup
      BY <1>1 DEF Main, ScriptActions, SignalActions
    <2> QED
      BY <2>1, ScriptKeeps, SignalsKeep, LaunchTcpdumpKeeps, StartGzipKeeps,
         CleanupKeeps
  <1>2. CASE Trap \/ LowDisk \/ \E s \in OperatorSignals : OperatorSends(s)
    BY <1>2, SignalsKeep DEF SignalActions
  <1>3. CASE Tcpdump
    BY <1>3, RotateKeeps, TcpdumpKeeps DEF Tcpdump
  <1>4. ASSUME NEW j \in Job, Gzip(j) PROVE IInv'
    BY <1>4, HandlersKeep, XzKeeps DEF Gzip, HandlerVars
  <1>5. CASE UNCHANGED vars
    <2>1. UNCHANGED <<handler, handlerTerm, xz, raw, part, dumps, pc, mode,
                      next, sigterm, tcpdump, current>>
      BY <1>5 DEF vars, gzipVars, mainVars, dumpVars
    <2>2. Types' /\ PlaceInv' /\ TurnInv' /\ QuietInv'
      BY <2>1, DataUnchanged, JobFacts
      DEF IInv, Types, PlaceInv, TurnInv, QuietInv
    <2> QED
      BY <2>1, <2>2, ScriptStep DEF dataVars
  <1> QED
    BY <1>1, <1>2, <1>3, <1>4, <1>5 DEF Next

\* Whatever happens in a capture, the invariant holds.
THEOREM InvariantHolds == Spec => []IInv
  BY InitHolds, StepKeeps, PTL DEF Spec

\* No handler ever finds its destination occupied: the test of
\* bbuadm_gzip.sh:154 never succeeds.
THEOREM DestinationIsFree == Spec => []DestinationFree
  <1>1. IInv => DestinationFree
    BY DEF IInv, FileInv, OwnFiles, DestinationFree
  <1> QED
    BY <1>1, InvariantHolds, PTL

\* When the script has removed dumps/tmp nothing of tcpdump's group and no
\* handler is left, and without SIGTERM no compressor either
\* (exit_handle, bbuadm_tcpdump_capture.sh:486).
THEOREM NothingLeftAtEnd == Spec => []QuietAtEnd
  <1>1. ASSUME IInv, pc = "ended"
        PROVE  /\ ~GroupIsRunning
               /\ \A j \in Job : ~HandlerAlive(j)
               /\ ~sigterm => \A j \in Job : ~JobAlive(j)
    <2>1. \A j \in Job : ~HandlerAlive(j)
      BY <1>1, NobodyLeft
    <2>2. ~sigterm => \A j \in Job : ~JobAlive(j)
      BY <1>1, <2>1
      DEF IInv, QuietInv, JobAlive, HandlerAlive, Alive, Running, Compressing
    <2>3. CASE GroupOver
      BY <2>3, <2>1, <2>2
      DEF GroupOver, GroupIsRunning, TcpdumpOver, Capturing
    <2>4. CASE tcpdump = "none"
      <3>1. current = -1 /\ \A i \in Index : i \in Nat
        BY <2>4, <1>1, JobFacts DEF IInv, TcpdumpInv
      <3>2. \A i \in Index : ~(i < current)
        BY <3>1
      <3>3. \A j \in RotateJobs : handler[j] = "none" /\ xz[j] = "none"
        BY <3>2, <1>1, JobFacts
        DEF IInv, StartInv, FileInv, OwnFiles, RotateJobs, Job
      <3> QED
        BY <2>1, <2>2, <2>4, <3>3
        DEF GroupIsRunning, Capturing, JobAlive, HandlerAlive, Alive, Running,
            Compressing
    <2> QED
      BY <1>1, <2>1, <2>2, <2>3, <2>4 DEF IInv, PlaceInv
  <1>2. IInv => QuietAtEnd
    BY <1>1 DEF QuietAtEnd
  <1> QED
    BY <1>2, InvariantHolds, PTL

-----------------------------------------------------------------------------
(* Capture implements DumpStore *)

LEMMA StoreInit == Init => Store!Init
  BY DEF Init, GzipInit, Store!Init, Published

\* Only PublishFile changes dumps.
LEMMA OnlyPublishFile ==
    ASSUME IInv, [Next]_vars
    PROVE  \/ UNCHANGED dumps
           \/ \E j \in Job : PublishFile(j)
  <1> USE DEF Step, gzipVars, RequestVars, dumpVars, mainVars, dataVars
  <1>1. CASE Main
    <2>1. CASE ScriptActions
      BY <2>1, ScriptPlaces
    <2>2. CASE SignalActions
      BY <2>2, SignalChanges
    <2>3. CASE LaunchTcpdump \/ StartGzip \/ Cleanup
      BY <2>3 DEF LaunchTcpdump, StartGzip, Cleanup
    <2> QED
      BY <1>1, <2>1, <2>2, <2>3 DEF Main, ScriptActions, SignalActions
  <1>2. CASE Trap \/ LowDisk \/ \E s \in OperatorSignals : OperatorSends(s)
    BY <1>2, SignalChanges DEF SignalActions
  <1>3. CASE Tcpdump
    BY <1>3 DEF Tcpdump, Rotate
  <1>4. ASSUME NEW j \in Job, Gzip(j), ~PublishFile(j) PROVE UNCHANGED dumps
    BY <1>4 DEF Gzip, HandlerStep, XzEnds, Overflow, Admit, Launch, StorePid,
                Compressed, CompressionFails, RemoveRaw, Terminate, Killed,
                Reap, Tidy
  <1>5. CASE UNCHANGED vars
    BY <1>5 DEF vars
  <1>6. ASSUME NEW j \in Job, PublishFile(j)
        PROVE  \E k \in Job : PublishFile(k)
    BY <1>6
  <1> QED
    BY <1>1, <1>2, <1>3, <1>4, <1>5, <1>6 DEF Next

LEMMA StoreStep ==
    ASSUME IInv, [Next]_vars
    PROVE  [Store!Next]_Published
  <1>1. CASE UNCHANGED dumps
    BY <1>1 DEF Published
  <1>2. ASSUME NEW j \in Job, PublishFile(j) PROVE Store!Next
    <2> DEFINE i == j[2]
    <2>1. /\ dumps' = [dumps EXCEPT ![i] = "whole"]
          /\ dumps[i] = "none"
          /\ i \in Index /\ i < MaxDumpFiles
          /\ dumps \in [Index -> {"none", "partial", "whole"}]
      BY <1>2, PublishesWhole DEF IInv, Types
    <2>2. i \in 0..(MaxDumpFiles - 1)
      <3>1. i \in Nat /\ MaxDumpFiles \in Nat
        BY <2>1, JobFacts
      <3> QED
        BY <2>1, <3>1
    <2> HIDE DEF i
    <2>3. \A content \in {"whole", "partial"} : <<i, content>> \notin Published
      BY <2>1 DEF Published
    <2>4. Published' = Published \cup {<<i, "whole">>}
      <3>1. /\ dumps'[i] = "whole"
            /\ \A k \in Index : k # i => dumps'[k] = dumps[k]
        BY <2>1
      <3> QED
        BY <2>1, <3>1 DEF Published
    <2> QED
      BY <2>2, <2>3, <2>4 DEF Store!Next, Store!Publish
  <1> QED
    BY <1>1, <1>2, OnlyPublishFile

\* Whatever signal, failure or order of the processes: dumps only grows, by
\* complete files of allowed indexes, each once (the guarantees of the
\* capture scripts, bbuadm_gzip.sh:59 and bbuadm_tcpdump_capture.sh:405).
THEOREM CaptureImplementsStore == Spec => ImplementsStore
  BY StoreInit, StoreStep, InvariantHolds, PTL DEF Spec, ImplementsStore, Store!Spec

-----------------------------------------------------------------------------
(* Low disk space *)

Recovering == {"recover", "start", "store", "wait_gzip", "test_gzip", "fail"}

\* Once anything is recovered no request of a graceful stop is under way, and
\* none can be the first any more.
Requested == [signal : Graceful, at : {"mode", "code"}]

DiskInv ==
    /\ traps \in Seq(Requested)
    /\ code = 15 => reason = "low_disk"
    /\ pc \in {"set_code", "exit", "wait_postrotate", "test_disk"}
                \cup Recovering => mode # "running"
    /\ pc \in Recovering \/ (\E i \in Index : handler[Recover(i)] # "none") =>
         /\ mode # "running"
         /\ traps = <<>>
         /\ code # 15

LEMMA DiskInit == Init => DiskInv
  <1> SUFFICES ASSUME Init PROVE DiskInv
    OBVIOUS
  <1>1. \A i \in Index : handler[Recover(i)] = "none"
    BY JobFacts DEF Init, GzipInit
  <1>2. pc = "prepare" /\ code # 15 /\ traps \in Seq(Requested)
    BY DEF Init, NoCode
  <1> QED
    BY <1>1, <1>2 DEF DiskInv, Recovering

\* A recovery handler is started from the loop of recover_files only.
LEMMA RecoveryStarts ==
    ASSUME IInv, [Next]_vars, NEW i \in Index,
           handler'[Recover(i)] # "none", handler[Recover(i)] = "none"
    PROVE  pc = "start"
  <1> USE DEF Step, gzipVars, RequestVars, dumpVars, mainVars
  <1>1. CASE Main
    <2>1. CASE ScriptActions
      BY <2>1, ScriptPlaces DEF dataVars
    <2>2. CASE SignalActions
      BY <2>2, SignalChanges
    <2>3. CASE LaunchTcpdump \/ StartGzip \/ Cleanup
      BY <2>3 DEF LaunchTcpdump, StartGzip, Cleanup
    <2> QED
      BY <1>1, <2>1, <2>2, <2>3 DEF Main, ScriptActions, SignalActions
  <1>2. CASE Trap \/ LowDisk \/ \E s \in OperatorSignals : OperatorSends(s)
    BY <1>2, SignalChanges DEF SignalActions
  <1>3. CASE Tcpdump
    <2>1. CASE Rotate
      <3>1. Recover(i) # <<"rotate", current>>
        BY DEF Recover
      <3>2. handler' = [handler EXCEPT ![<<"rotate", current>>] = "check"]
        BY <2>1 DEF Rotate, Go
      <3> QED
        BY <3>1, <3>2, JobFacts DEF IInv, Types
    <2> QED
      BY <1>3, <2>1 DEF Tcpdump
  <1>4. ASSUME NEW j \in Job, Gzip(j) PROVE FALSE
    <2>1. CASE XzEnds(j)
      BY <2>1 DEF XzEnds
    <2>2. CASE HandlerStep(j)
      <3>1. HandlerEffect(j)
        BY <2>2, HandlerEffects
      <3>2. handler[j] # "none"
        BY <3>1 DEF HandlerEffect, HandlerAlive, Alive, Running, Compressing
      <3> QED
        BY <3>1, <3>2, JobFacts DEF HandlerEffect, IInv, Types
    <2> QED
      BY <1>4, <2>1, <2>2 DEF Gzip
  <1>5. CASE UNCHANGED vars
    BY <1>5 DEF vars
  <1> QED
    BY <1>1, <1>2, <1>3, <1>4, <1>5 DEF Next

\* How a step changes the variables that the requests set.
LEMMA DiskStep ==
    ASSUME IInv, DiskInv, [Next]_vars
    PROVE  /\ traps' \in Seq(Requested)
           /\ code' = 15 => reason' = "low_disk"
           /\ mode # "running" => mode' # "running"
           /\ pc' \in {"set_code", "exit", "wait_postrotate", "test_disk"}
                        \cup Recovering => mode' # "running"
           /\ pc' \in Recovering => traps' = <<>> /\ code' # 15
           /\ mode # "running" /\ traps = <<>> /\ code # 15 =>
                traps' = <<>> /\ code' # 15
  <1> USE DEF DiskInv, Recovering, Step, gzipVars, RequestVars, dumpVars,
              mainVars
  <1>1. CASE ScriptActions
    <2> USE DEF Failing, NoCode
    <2>1. CASE PrepareFails
      BY <2>1 DEF PrepareFails
    <2>2. CASE Prepare \/ StorePids \/ WaitTcpdump
      BY <2>2 DEF Prepare, StorePids, WaitTcpdump
    <2>3. CASE SetModeAtExit \/ SetCodeAtExit \/ ExitHandle
      BY <2>3 DEF SetModeAtExit, SetCodeAtExit, ExitHandle
    <2>4. CASE WaitPostrotate \/ TestDisk
      BY <2>4 DEF WaitPostrotate, TestDisk
    <2>5. CASE RecoverNext \/ RecoverEnds \/ StoreGzipPid \/ WaitGzip
      BY <2>5 DEF RecoverNext, RecoverEnds, StoreGzipPid, WaitGzip
    <2>6. CASE GzipOver \/ RecoveryFails \/ AfterGraceful \/ WaitGroup
      BY <2>6 DEF GzipOver, RecoveryFails, AfterGraceful, WaitGroup
    <2> QED
      BY <1>1, <2>1, <2>2, <2>3, <2>4, <2>5, <2>6 DEF ScriptActions
  <1>2. CASE LaunchTcpdump \/ StartGzip \/ Cleanup \/ ImmediateFinish \/ WaitAgain
    BY <1>2 DEF LaunchTcpdump, StartGzip, Cleanup, ImmediateFinish, WaitAgain
  <1>3. ASSUME NEW s \in Graceful, TrapFirst(s)
        PROVE  /\ mode = "running" /\ UNCHANGED <<mode, code, reason>>
               /\ pc' \in {pc, "test_gzip"}
               /\ pc' # pc => pc = "wait_gzip"
               /\ traps' \in Seq(Requested)
    <2>1. [signal |-> s, at |-> "mode"] \in Requested
      BY DEF Requested
    <2> QED
      BY <1>3, <2>1 DEF TrapFirst, Handles, EndWait
  <1>4. ASSUME NEW s \in Graceful, TrapLater(s)
        PROVE  /\ UNCHANGED <<mode, code, reason, traps>>
               /\ pc' \in {pc, "test_gzip"}
               /\ pc' # pc => pc = "wait_gzip"
    BY <1>4 DEF TrapLater, Handles, EndWait
  <1>5. CASE SetMode
    <2>1. /\ traps # <<>> /\ mode' = "graceful"
          /\ UNCHANGED <<pc, code, reason>>
          /\ traps' = [traps EXCEPT ![Len(traps)].at = "code"]
      BY <1>5 DEF SetMode, InTrap
    <2>2. traps' \in Seq(Requested)
      <3>1. /\ Len(traps) \in 1..Len(traps)
            /\ traps[Len(traps)] \in Requested
            /\ traps \in [1..Len(traps) -> Requested]
            /\ Len(traps) \in Nat
        BY <2>1
      <3>2. [traps[Len(traps)] EXCEPT !.at = "code"] \in Requested
        BY <3>1 DEF Requested
      <3> DEFINE changed == [traps[Len(traps)] EXCEPT !.at = "code"]
      <3>3. traps' = [traps EXCEPT ![Len(traps)] = changed]
        BY <2>1
      <3> HIDE DEF changed
      <3>4. traps' \in [1..Len(traps) -> Requested]
        BY <3>1, <3>2, <3>3 DEF changed
      <3> QED
        BY <3>1, <3>4
    <2> QED
      BY <2>1, <2>2
  <1>6. CASE SetReason
    <2>1. PICK s : /\ reason' = Requests[s].reason /\ code' = Requests[s].code
                   /\ s = traps[Len(traps)].signal
      BY <1>6 DEF SetReason, Last
    <2>2. /\ traps # <<>> /\ pc' = pc /\ mode' = mode
          /\ traps' = SubSeq(traps, 1, Len(traps) - 1)
      BY <1>6 DEF SetReason, InTrap, Front
    <2>3. s \in Graceful
      <3>1. traps[Len(traps)] \in Requested
        BY <2>2
      <3> QED
        BY <2>1, <3>1 DEF Requested
    <2>4. code' = 15 => reason' = "low_disk"
      BY <2>1, <2>3 DEF Requests, Graceful
    <2>5. traps' \in Seq(Requested)
      BY <2>2
    <2> QED
      BY <2>2, <2>4, <2>5
  <1>7. CASE TrapTerm
    BY <1>7 DEF TrapTerm, Handles, EndWait
  <1>8. CASE Tcpdump \/ LowDisk
    BY <1>8 DEF Tcpdump, LowDisk
  <1>9. ASSUME NEW s \in OperatorSignals, OperatorSends(s) PROVE UNCHANGED mainVars
    BY <1>9 DEF OperatorSends
  <1>10. ASSUME NEW j \in Job, Gzip(j) PROVE UNCHANGED mainVars
    BY <1>10 DEF Gzip
  <1>11. CASE UNCHANGED vars
    BY <1>11 DEF vars
  <1> QED
    BY <1>1, <1>2, <1>3, <1>4, <1>5, <1>6, <1>7, <1>8, <1>9, <1>10, <1>11
    DEF Next, Main, ScriptActions, Trap

\* No recovery with the code of a low disk, as an inductive invariant.
THEOREM DiskHolds == Spec => []DiskInv
  <1>1. IInv /\ DiskInv /\ [Next]_vars => DiskInv'
    <2> SUFFICES ASSUME IInv, DiskInv, [Next]_vars PROVE DiskInv'
      OBVIOUS
    <2>1. ASSUME NEW i \in Index, handler'[Recover(i)] # "none"
          PROVE  pc \in Recovering \/ handler[Recover(i)] # "none"
      BY <2>1, RecoveryStarts DEF Recovering
    <2>2. (\E i \in Index : handler'[Recover(i)] # "none") =>
            mode # "running" /\ traps = <<>> /\ code # 15
      BY <2>1 DEF DiskInv
    <2> QED
      BY <2>2, DiskStep DEF DiskInv
  <1> QED
    BY <1>1, DiskInit, InvariantHolds, PTL DEF Spec

\* A capture that ends because of the disk has recovered nothing, whichever
\* signals came with the disk monitor's (bbuadm_tcpdump_capture.sh:449-452).
THEOREM LowDiskIsRespected == Spec => []LowDiskSparesDisk
  <1>1. DiskInv => LowDiskSparesDisk
    BY DEF DiskInv, LowDiskSparesDisk
  <1> QED
    BY <1>1, DiskHolds, PTL

------------------------------------------------------------------------------
(* SIGTERM.  Settled needs no other invariant: each action that undoes a   *)
(* part of it is enabled only by a mode, a trap or a place that it denies. *)

LEMMA SettledScript ==
    ASSUME Settled, Main
    PROVE  Settled'
  <1>1. CASE PrepareFails \/ Prepare \/ LaunchTcpdump \/ StorePids
    BY <1>1 DEF PrepareFails, Prepare, LaunchTcpdump, StorePids, Step,
                RequestVars, Settled, NoCode
  <1>2. CASE WaitTcpdump \/ SetModeAtExit \/ SetCodeAtExit
    BY <1>2 DEF WaitTcpdump, SetModeAtExit, SetCodeAtExit, Step, RequestVars,
                Settled
  <1>3. CASE ExitHandle \/ WaitPostrotate \/ TestDisk
    BY <1>3 DEF ExitHandle, WaitPostrotate, TestDisk, Step, RequestVars, Settled
  <1>4. CASE RecoverNext \/ RecoverEnds \/ StartGzip \/ StoreGzipPid
    BY <1>4 DEF RecoverNext, RecoverEnds, StartGzip, StoreGzipPid, Step,
                RequestVars, Settled
  <1>5. CASE WaitGzip \/ WaitAgain
    BY <1>5 DEF WaitGzip, WaitAgain, Step, RequestVars, Settled
  <1>6. CASE GzipOver \/ RecoveryFails
    BY <1>6 DEF GzipOver, RecoveryFails, Step, RequestVars, Settled
  <1>7. CASE AfterGraceful \/ ImmediateFinish \/ WaitGroup \/ Cleanup
    BY <1>7 DEF AfterGraceful, ImmediateFinish, WaitGroup, Cleanup, Step,
                RequestVars, Settled
  <1> QED
    BY <1>1, <1>2, <1>3, <1>4, <1>5, <1>6, <1>7 DEF Main

LEMMA SettledTraps ==
    ASSUME Settled, Trap
    PROVE  Settled'
  <1>1. ASSUME NEW s \in Graceful, TrapFirst(s) PROVE FALSE
    BY <1>1 DEF TrapFirst, Settled
  <1>2. ASSUME NEW s \in Graceful, TrapLater(s) PROVE Settled'
    BY <1>2 DEF TrapLater, Handles, EndWait, Settled
  <1>3. CASE SetMode \/ SetReason
    BY <1>3 DEF SetMode, SetReason, InTrap, Settled
  <1>4. CASE TrapTerm
    BY <1>4 DEF TrapTerm, Handles, EndWait, Settled
  <1> QED
    BY <1>1, <1>2, <1>3, <1>4 DEF Trap

\* A SIGTERM that is handled outside the places where a test of the mode is
\* still to be acted on is final (bbuadm_tcpdump_capture.sh:274-300, 405-473).
THEOREM SigtermIsKept == Spec => SigtermStays
  <1>1. Settled /\ Next => Settled'
    <2> SUFFICES ASSUME Settled, Next PROVE Settled'
      OBVIOUS
    <2>1. ASSUME UNCHANGED mainVars PROVE Settled'
      BY <2>1 DEF mainVars, Settled
    <2>2. CASE Main \/ Trap
      BY <2>2, SettledScript, SettledTraps
    <2>3. CASE Tcpdump \/ LowDisk
      BY <2>1, <2>3 DEF Tcpdump, LowDisk, mainVars
    <2>4. ASSUME NEW s \in OperatorSignals, OperatorSends(s) PROVE Settled'
      BY <2>1, <2>4 DEF OperatorSends, mainVars
    <2>5. ASSUME NEW j \in Job, Gzip(j) PROVE Settled'
      BY <2>1, <2>5 DEF Gzip, mainVars
    <2> QED
      BY <2>2, <2>3, <2>4, <2>5 DEF Next
  <1>2. [Next]_vars => [Settled => Settled']_vars
    BY <1>1
  <1> QED
    BY <1>2, PTL DEF Spec, SigtermStays

------------------------------------------------------------------------------
(* The rest of the types, which the other proofs do not need.              *)

ScriptTypes ==
    /\ pc \in {"prepare", "launch", "pids", "wait_tcpdump",
               "set_mode", "set_code", "exit", "wait_postrotate", "test_disk",
               "recover", "start", "store", "wait_gzip", "test_gzip", "fail",
               "after", "stop_group", "wait_group", "cleanup", "ended"}
    /\ reason \in {"none", "tcpdump_exit", "sigterm"}
                    \cup {Requests[s].reason : s \in Graceful}
    /\ code \in {NoCode, 0, 1, 10, 11, 12, 13, 14, 15, 130, 143}
    /\ waited \in {"none", "done", "failed", "signal"}

OtherTypes ==
    /\ pending \subseteq {"INT", "TERM", "USR1", "USR2"}
    /\ monitor \in BOOLEAN
    /\ operator \in 0..MaxSignals

LEMMA TypesAll == Types /\ ScriptTypes /\ OtherTypes /\ DiskInv => TypeOK
  BY DEF Types, ScriptTypes, OtherTypes, DiskInv, Requested, TypeOK, GzipTypeOK

LEMMA ScriptTypesInit == Init => ScriptTypes /\ OtherTypes
  <1> SUFFICES ASSUME Init PROVE ScriptTypes /\ OtherTypes
    OBVIOUS
  <1>1. pc = "prepare" /\ reason = "none" /\ code = NoCode /\ waited = "none"
    BY DEF Init
  <1>2. ScriptTypes
    BY <1>1 DEF ScriptTypes
  <1>3. operator = 0 /\ monitor = FALSE /\ pending = {}
    BY DEF Init, GzipInit
  <1>4. operator \in 0..MaxSignals
    BY <1>3, MaxSignalsAssumption
  <1> QED
    BY <1>2, <1>3, <1>4 DEF OtherTypes

LEMMA OtherTypesStep ==
    ASSUME OtherTypes, [Next]_vars
    PROVE  OtherTypes'
  <1> USE DEF OtherTypes
  <1>1. CASE PrepareFails \/ Prepare \/ LaunchTcpdump \/ StorePids
    BY <1>1 DEF PrepareFails, Prepare, LaunchTcpdump, StorePids, gzipVars
  <1>2. CASE WaitTcpdump \/ SetModeAtExit \/ SetCodeAtExit \/ ExitHandle
    BY <1>2 DEF WaitTcpdump, SetModeAtExit, SetCodeAtExit, ExitHandle, gzipVars
  <1>3. CASE WaitPostrotate \/ TestDisk \/ RecoverNext \/ RecoverEnds
    BY <1>3 DEF WaitPostrotate, TestDisk, RecoverNext, RecoverEnds, gzipVars
  <1>4. CASE StartGzip \/ StoreGzipPid \/ WaitGzip \/ WaitAgain
    BY <1>4 DEF StartGzip, StoreGzipPid, WaitGzip, WaitAgain, gzipVars
  <1>5. CASE GzipOver \/ RecoveryFails \/ AfterGraceful
    BY <1>5 DEF GzipOver, RecoveryFails, AfterGraceful, gzipVars
  <1>6. CASE ImmediateFinish \/ WaitGroup \/ Cleanup
    BY <1>6 DEF ImmediateFinish, WaitGroup, Cleanup, gzipVars
  <1>7. ASSUME NEW s \in Graceful, TrapFirst(s) \/ TrapLater(s)
        PROVE  OtherTypes'
    BY <1>7 DEF TrapFirst, TrapLater, Handles
  <1>8. CASE SetMode \/ SetReason \/ TrapTerm
    BY <1>8 DEF SetMode, SetReason, TrapTerm, Handles, gzipVars
  <1>9. CASE Tcpdump
    BY <1>9 DEF Tcpdump, Rotate
  <1>10. CASE LowDisk
    BY <1>10 DEF LowDisk
  <1>11. ASSUME NEW s \in OperatorSignals, OperatorSends(s) PROVE OtherTypes'
    BY <1>11, OperatorAssumption, MaxSignalsAssumption DEF OperatorSends
  <1>12. ASSUME NEW j \in Job, Gzip(j) PROVE OtherTypes'
    <2>1. monitor' = monitor /\ operator' = operator
      BY <1>12 DEF Gzip
    <2>2. pending' \subseteq pending \cup {"TERM", "USR1"}
      BY <1>12 DEF Gzip, XzEnds, HandlerStep, Overflow, Admit, Launch, StorePid,
                   Compressed, CompressionFails, PublishFile, RemoveRaw,
                   Terminate, Killed, Reap, Tidy
    <2> QED
      BY <2>1, <2>2
  <1>13. CASE UNCHANGED vars
    BY <1>13 DEF vars, gzipVars
  <1> QED
    BY <1>1, <1>2, <1>3, <1>4, <1>5, <1>6, <1>7, <1>8, <1>9, <1>10, <1>11,
       <1>12, <1>13 DEF Next, Main, Trap

LEMMA ScriptTypesStep ==
    ASSUME IInv, DiskInv, ScriptTypes, [Next]_vars
    PROVE  ScriptTypes'
  <1> USE DEF ScriptTypes
  <1>1. CASE PrepareFails
    BY <1>1 DEF PrepareFails, Step, Failing
  <1>2. CASE Prepare \/ LaunchTcpdump \/ StorePids \/ WaitTcpdump
    BY <1>2 DEF Prepare, LaunchTcpdump, StorePids, WaitTcpdump, Step, RequestVars
  <1>3. CASE SetModeAtExit \/ SetCodeAtExit
    BY <1>3 DEF SetModeAtExit, SetCodeAtExit, Step
  <1>4. CASE ExitHandle \/ WaitPostrotate \/ TestDisk
    BY <1>4 DEF ExitHandle, WaitPostrotate, TestDisk, Step, RequestVars
  <1>5. CASE RecoverNext \/ RecoverEnds \/ StartGzip \/ StoreGzipPid
    BY <1>5 DEF RecoverNext, RecoverEnds, StartGzip, StoreGzipPid, Step,
                RequestVars
  <1>6. CASE WaitGzip
    <2>1. Recover(next) \in Job
      BY <1>6 DEF WaitGzip, Step, IInv, PlaceInv, Recover, Job
    <2>2. handler[Recover(next)] \in {"none", "done", "failed"}
      BY <1>6, <2>1 DEF WaitGzip, HandlerAlive, IInv, Types
    <2> QED
      BY <1>6, <2>2 DEF WaitGzip, Step, RequestVars
  <1>7. CASE WaitAgain \/ GzipOver \/ RecoveryFails
    BY <1>7 DEF WaitAgain, GzipOver, RecoveryFails, Step, RequestVars
  <1>8. CASE AfterGraceful \/ ImmediateFinish \/ WaitGroup \/ Cleanup
    BY <1>8 DEF AfterGraceful, ImmediateFinish, WaitGroup, Cleanup, Step,
                RequestVars
  <1>9. ASSUME NEW s \in Graceful, TrapFirst(s) \/ TrapLater(s)
        PROVE  ScriptTypes'
    BY <1>9 DEF TrapFirst, TrapLater, Handles, EndWait
  <1>10. CASE SetMode
    BY <1>10 DEF SetMode
  <1>11. CASE SetReason
    <2>1. Last(traps).signal \in Graceful
      <3>1. traps \in Seq(Requested) /\ traps # <<>>
        BY <1>11 DEF SetReason, InTrap, DiskInv
      <3>2. traps[Len(traps)] \in Requested
        BY <3>1
      <3> QED
        BY <3>2 DEF Last, Requested
    <2>2. /\ reason' = Requests[Last(traps).signal].reason
          /\ code' = Requests[Last(traps).signal].code
          /\ pc' = pc /\ waited' = waited
      BY <1>11 DEF SetReason
    <2>3. code' \in {0, 15, 130}
      BY <2>1, <2>2 DEF Requests, Graceful
    <2> QED
      BY <2>1, <2>2, <2>3
  <1>12. CASE TrapTerm
    BY <1>12 DEF TrapTerm, Handles, EndWait
  <1>13. CASE Tcpdump \/ LowDisk
    BY <1>13 DEF Tcpdump, LowDisk, mainVars
  <1>14. ASSUME NEW s \in OperatorSignals, OperatorSends(s) PROVE ScriptTypes'
    BY <1>14 DEF OperatorSends, mainVars
  <1>15. ASSUME NEW j \in Job, Gzip(j) PROVE ScriptTypes'
    BY <1>15 DEF Gzip, mainVars
  <1>16. CASE UNCHANGED vars
    BY <1>16 DEF vars, mainVars
  <1> QED
    BY <1>1, <1>2, <1>3, <1>4, <1>5, <1>6, <1>7, <1>8, <1>9, <1>10, <1>11,
       <1>12, <1>13, <1>14, <1>15, <1>16 DEF Next, Main, Trap

\* Every variable of the capture keeps its type; in particular the loop of
\* recover_files never leaves the files (bbuadm_tcpdump_capture.sh:410).
THEOREM TypesHold == Spec => []TypeOK
  <1>1. IInv => Types
    BY DEF IInv
  <1>2. IInv /\ DiskInv /\ ScriptTypes /\ OtherTypes /\ [Next]_vars
          => ScriptTypes' /\ OtherTypes'
    BY ScriptTypesStep, OtherTypesStep
  <1> QED
    BY <1>1, <1>2, TypesAll, ScriptTypesInit, InvariantHolds, DiskHolds, PTL
    DEF Spec

-----------------------------------------------------------------------------
(* No raw file is lost *)

Ending == Recovering \cup
            {"after", "stop_group", "wait_group", "cleanup", "ended"}

\* A raw file is there until its compressed one is.
KeepInv ==
    /\ \A i \in Index : dumps[i] # "partial"
    /\ \A j \in Job :
         handler[j] = "remove" \/ (handler[j] = "done" /\ j[2] < MaxDumpFiles)
           => dumps[j[2]] = "whole"
    /\ \A i \in Index :
         i <= current /\ pc # "ended" => dumps[i] = "whole" \/ raw[i] # "none"

Kept(n) ==
    \A i \in Index : i < n /\ i <= current => dumps[i] = "whole" \/ code = 14

\* recover_files leaves no index behind unpublished and unreported.
LossInv ==
    /\ pc \notin Ending => next = 0
    /\ pc \in Ending /\ Started => mode # "running" /\ traps = <<>>
    /\ pc = "test_gzip" /\ waited = "done" => handler[Recover(next)] = "done"
    /\ ~sigterm /\ Started /\ pc \in Recovering => Kept(next)
    /\ (~sigterm /\ Started /\ pc \in {"after", "cleanup", "ended"}
          /\ reason # "low_disk") => Kept(MaxDumpFiles)

LEMMA LossInit == Init => KeepInv /\ LossInv
  <1> SUFFICES ASSUME Init PROVE KeepInv /\ LossInv
    OBVIOUS
  <1>1. /\ \A i \in Index : dumps[i] = "none" /\ ~(i <= current)
        /\ \A j \in Job : handler[j] = "none" /\ j[2] \in Index
    BY JobFacts DEF Init, GzipInit
  <1>2. KeepInv
    BY <1>1 DEF KeepInv
  <1>3. LossInv
    BY DEF Init, LossInv, Ending, Recovering
  <1> QED
    BY <1>2, <1>3

\* The script does not come back from its end.
LEMMA EndedStays ==
    ASSUME [Next]_vars, pc = "ended"
    PROVE  pc' = "ended"
  <1> USE DEF Step
  <1>1. CASE Main
    BY <1>1 DEF Main, PrepareFails, Prepare, LaunchTcpdump, StorePids,
           WaitTcpdump, SetModeAtExit, SetCodeAtExit, ExitHandle,
           WaitPostrotate, TestDisk, RecoverNext, RecoverEnds, StartGzip,
           StoreGzipPid, WaitGzip, WaitAgain, GzipOver, RecoveryFails,
           AfterGraceful, ImmediateFinish, WaitGroup, Cleanup
  <1>2. CASE Trap
    BY <1>2 DEF Trap, TrapFirst, TrapLater, SetMode, SetReason, TrapTerm, Handles
  <1>3. CASE Tcpdump \/ LowDisk
    BY <1>3 DEF Tcpdump, LowDisk, mainVars
  <1>4. ASSUME NEW s \in OperatorSignals, OperatorSends(s) PROVE pc' = pc
    BY <1>4 DEF OperatorSends, mainVars
  <1>5. ASSUME NEW j \in Job, Gzip(j) PROVE pc' = pc
    BY <1>5 DEF Gzip, mainVars
  <1>6. CASE UNCHANGED vars
    BY <1>6 DEF vars, mainVars
  <1> QED
    BY <1>1, <1>2, <1>3, <1>4, <1>5, <1>6 DEF Next

\* A file is removed only after its compressed one has been published.
LEMMA HandlerKeepsFiles ==
    ASSUME IInv, KeepInv, NEW j \in Job, HandlerStep(j),
           current' = current, pc' = pc
    PROVE  KeepInv'
  <1> USE DEF At, Go
  <1>1. /\ handler \in [Job -> Alive \cup {"none", "done", "failed"}]
        /\ raw \in [Index -> {"none", "open", "closed"}]
        /\ dumps \in [Index -> {"none", "partial", "whole"}]
        /\ j[2] \in Index
        /\ \A k \in Job : k[2] \in Index
        /\ \A i \in Index : i \in Nat
        /\ MaxDumpFiles \in Nat
    BY JobFacts DEF IInv, Types
  <1>2. CASE PublishFile(j)
    <2>1. /\ dumps' = [dumps EXCEPT ![j[2]] = "whole"]
          /\ handler' = [handler EXCEPT ![j] = "remove"]
          /\ raw' = raw
      BY <1>2, PublishesWhole DEF PublishFile
    <2> QED
      BY <2>1, <1>1 DEF KeepInv
  <1>3. CASE RemoveRaw(j)
    <2>1. /\ handler[j] = "remove" /\ dumps' = dumps
          /\ handler' = [handler EXCEPT ![j] = "done"]
          /\ raw' = [raw EXCEPT ![j[2]] = "none"]
      BY <1>3 DEF RemoveRaw
    <2>2. dumps[j[2]] = "whole"
      BY <2>1 DEF KeepInv
    <2> QED
      BY <2>1, <2>2, <1>1 DEF KeepInv
  <1>4. CASE Overflow(j)
    <2>1. /\ ~(j[2] < MaxDumpFiles) /\ UNCHANGED <<raw, dumps>>
          /\ handler' = [handler EXCEPT ![j] = "done"]
      BY <1>4, <1>1 DEF Overflow
    <2> QED
      BY <2>1, <1>1 DEF KeepInv
  <1>5. ASSUME UNCHANGED <<raw, dumps>>,
               NEW p \in {"launch", "store", "wait", "publish", "reap", "tidy",
                          "failed"},
               handler' = [handler EXCEPT ![j] = p]
        PROVE  KeepInv'
    BY <1>5, <1>1 DEF KeepInv
  <1>6. CASE Admit(j)
    BY <1>5, <1>6 DEF Admit
  <1>7. CASE Launch(j) \/ StorePid(j) \/ Compressed(j) \/ CompressionFails(j)
    BY <1>5, <1>7 DEF Launch, StorePid, Compressed, CompressionFails
  <1>8. CASE Terminate(j) \/ Killed(j) \/ Reap(j) \/ Tidy(j)
    BY <1>5, <1>8 DEF Terminate, Killed, Reap, Tidy
  <1> QED
    BY <1>2, <1>3, <1>4, <1>6, <1>7, <1>8 DEF HandlerStep

\* tcpdump opens files and removes none.
LEMMA TcpdumpKeepsFiles ==
    ASSUME IInv, KeepInv, Tcpdump
    PROVE  KeepInv'
  <1>1. /\ handler \in [Job -> Alive \cup {"none", "done", "failed"}]
        /\ raw \in [Index -> {"none", "open", "closed"}]
        /\ current \in Index \cup {-1}
        /\ tcpdump \in {"forked", "grouped"} => current = -1
        /\ tcpdump \in Capturing => current \in Index
        /\ 0 \in Index
        /\ \A i \in Index : i \in Nat
        /\ pc' = pc /\ dumps' = dumps
    BY JobFacts DEF IInv, Types, TcpdumpInv, Index, Tcpdump, Rotate, mainVars
  <1>2. CASE Rotate
    <2>1. /\ raw' = [raw EXCEPT ![current] = "closed", ![current + 1] = "open"]
          /\ handler' = [handler EXCEPT ![<<"rotate", current>>] = "check"]
          /\ current' = current + 1 /\ current \in Index
          /\ current + 1 \in Index
      BY <1>1, <1>2, JobFacts DEF Rotate, Go, Index
    <2>2. \A i \in Index : i <= current' => raw'[i] # "none" \/ i < current
      BY <2>1, <1>1
    <2>3. \A i \in Index : i < current => raw'[i] = raw[i]
      BY <2>1, <1>1
    <2>4. \A j \in Job : handler'[j] \in {handler[j], "check"}
      BY <2>1, <1>1
    <2>5. \A i \in Index : i < current => i <= current
      BY <2>1, <1>1
    <2> QED
      BY <1>1, <2>2, <2>3, <2>4, <2>5 DEF KeepInv
  <1>3. CASE TcpdumpStarts /\ handler' = handler
    BY <1>1, <1>3 DEF TcpdumpStarts, KeepInv
  <1>4. CASE (TcpdumpStops \/ TcpdumpFails) /\ handler' = handler
    <2>1. /\ current' = current
          /\ \A i \in Index : raw'[i] \in {raw[i], "closed"}
      BY <1>1, <1>4 DEF TcpdumpStops, TcpdumpFails, CloseFile
    <2> QED
      BY <1>1, <1>4, <2>1 DEF KeepInv
  <1> QED
    BY <1>2, <1>3, <1>4 DEF Tcpdump

LEMMA KeepStep ==
    ASSUME IInv, KeepInv, [Next]_vars
    PROVE  KeepInv'
  <1>1. pc = "ended" => pc' = "ended"
    BY EndedStays
  <1>2. CASE UNCHANGED <<handler, raw, dumps, current>>
    BY <1>1, <1>2 DEF KeepInv
  <1>3. CASE Main
    <2>1. CASE ScriptActions
      BY <1>2, <2>1, ScriptPlaces DEF dataVars
    <2>2. CASE SignalActions
      BY <1>2, <2>2, SignalChanges
    <2>3. CASE LaunchTcpdump
      BY <1>2, <2>3 DEF LaunchTcpdump, gzipVars
    <2>4. CASE StartGzip
      <3>1. /\ UNCHANGED <<raw, dumps, current>>
            /\ \A j \in Job : handler'[j] \in {handler[j], "check"}
        BY <2>4 DEF StartGzip, Go, IInv, Types, dumpVars
      <3> QED
        BY <1>1, <3>1 DEF KeepInv
    <2>5. CASE Cleanup
      BY <2>5 DEF Cleanup, Step, KeepInv, dumpVars
    <2> QED
      BY <1>3, <2>1, <2>2, <2>3, <2>4, <2>5 DEF Main, ScriptActions, SignalActions
  <1>4. CASE Trap \/ LowDisk \/ \E s \in OperatorSignals : OperatorSends(s)
    BY <1>2, <1>4, SignalChanges DEF SignalActions
  <1>5. CASE Tcpdump
    BY <1>5, TcpdumpKeepsFiles
  <1>6. ASSUME NEW j \in Job, Gzip(j) PROVE KeepInv'
    <2>1. CASE HandlerStep(j)
      BY <1>6, <2>1, HandlerKeepsFiles DEF Gzip, mainVars, dumpVars
    <2>2. CASE XzEnds(j)
      BY <1>2, <1>6, <2>2 DEF Gzip, XzEnds, dumpVars
    <2> QED
      BY <1>6, <2>1, <2>2 DEF Gzip
  <1>7. CASE UNCHANGED vars
    BY <1>2, <1>7 DEF vars, gzipVars, dumpVars
  <1> QED
    BY <1>3, <1>4, <1>5, <1>6, <1>7 DEF Next

\* Once a graceful end is under way no request changes the reason or the code:
\* only SIGTERM and a failed recovery do.
LEMMA RequestsOver ==
    ASSUME IInv, [Next]_vars, mode # "running", traps = <<>>,
           pc \notin {"prepare", "set_mode", "set_code"}
    PROVE  /\ mode' # "running" /\ traps' = <<>>
           /\ sigterm => sigterm'
           /\ ~sigterm' => reason' = reason /\ code' \in {code, 14}
  <1> USE DEF Step, gzipVars, RequestVars, dumpVars, mainVars
  <1>1. CASE ScriptActions
    <2>1. CASE PrepareFails \/ Prepare \/ StorePids \/ WaitTcpdump
      BY <2>1 DEF PrepareFails, Prepare, StorePids, WaitTcpdump
    <2>2. CASE SetModeAtExit \/ SetCodeAtExit \/ ExitHandle
      BY <2>2 DEF SetModeAtExit, SetCodeAtExit, ExitHandle
    <2>3. CASE WaitPostrotate \/ TestDisk
      BY <2>3 DEF WaitPostrotate, TestDisk
    <2>4. CASE RecoverNext \/ RecoverEnds \/ StoreGzipPid \/ WaitGzip
      BY <2>4 DEF RecoverNext, RecoverEnds, StoreGzipPid, WaitGzip
    <2>5. CASE GzipOver \/ RecoveryFails \/ AfterGraceful \/ WaitGroup
      BY <2>5 DEF GzipOver, RecoveryFails, AfterGraceful, WaitGroup
    <2> QED
      BY <1>1, <2>1, <2>2, <2>3, <2>4, <2>5 DEF ScriptActions
  <1>2. CASE LaunchTcpdump \/ StartGzip \/ Cleanup \/ ImmediateFinish \/ WaitAgain
    BY <1>2 DEF LaunchTcpdump, StartGzip, Cleanup, ImmediateFinish, WaitAgain
  <1>3. ASSUME NEW s \in Graceful, TrapFirst(s) \/ TrapLater(s)
        PROVE  UNCHANGED RequestVars
    BY <1>3 DEF TrapFirst, TrapLater
  <1>4. CASE SetMode \/ SetReason
    BY <1>4 DEF SetMode, SetReason, InTrap
  <1>5. CASE TrapTerm
    BY <1>5 DEF TrapTerm
  <1>6. CASE Tcpdump \/ LowDisk
    BY <1>6 DEF Tcpdump, LowDisk
  <1>7. ASSUME NEW s \in OperatorSignals, OperatorSends(s) PROVE UNCHANGED mainVars
    BY <1>7 DEF OperatorSends
  <1>8. ASSUME NEW j \in Job, Gzip(j) PROVE UNCHANGED mainVars
    BY <1>8 DEF Gzip
  <1>9. CASE UNCHANGED vars
    BY <1>9 DEF vars
  <1> QED
    BY <1>1, <1>2, <1>3, <1>4, <1>5, <1>6, <1>7, <1>8, <1>9
    DEF Next, Main, ScriptActions, Trap

\* What has been published or reported stays so, and tcpdump opens no more.
LEMMA KeptStays ==
    ASSUME IInv, LossInv, [Next]_vars, Started, pc \in Ending, ~sigterm'
    PROVE  /\ ~sigterm /\ reason' = reason
           /\ \A n \in Nat : Kept(n) => Kept(n)'
           /\ current' = current
  <1>1. /\ ~sigterm /\ reason' = reason /\ code' \in {code, 14}
    BY RequestsOver DEF LossInv, Ending, Recovering
  <1>2. tcpdump \in TcpdumpOver
    BY DEF IInv, PlaceInv, GroupOver, Ending, Recovering, Started
  <1>3. current' = current
    <2>1. CASE Main
      <3>1. CASE ScriptActions
        BY <3>1, ScriptPlaces DEF dataVars
      <3>2. CASE SignalActions
        BY <3>2, SignalChanges
      <3>3. CASE LaunchTcpdump \/ StartGzip \/ Cleanup
        BY <3>3 DEF LaunchTcpdump, StartGzip, Cleanup, dumpVars
      <3> QED
        BY <2>1, <3>1, <3>2, <3>3 DEF Main, ScriptActions, SignalActions
    <2>2. CASE Trap \/ LowDisk \/ \E s \in OperatorSignals : OperatorSends(s)
      BY <2>2, SignalChanges DEF SignalActions
    <2>3. CASE Tcpdump
      BY <1>2, <2>3 DEF Tcpdump, Rotate, TcpdumpStarts, TcpdumpStops,
                        TcpdumpFails, TcpdumpOver, Capturing
    <2>4. ASSUME NEW j \in Job, Gzip(j) PROVE current' = current
      BY <2>4 DEF Gzip, dumpVars
    <2>5. CASE UNCHANGED vars
      BY <2>5 DEF vars, dumpVars
    <2> QED
      BY <2>1, <2>2, <2>3, <2>4, <2>5 DEF Next
  <1>4. \A i \in Index : dumps[i] = "whole" => dumps'[i] = "whole"
    <2>1. ASSUME NEW j \in Job, PublishFile(j)
          PROVE  \A i \in Index : dumps[i] = "whole" => dumps'[i] = "whole"
      BY <2>1, PublishesWhole DEF IInv, Types
    <2> QED
      BY <2>1, OnlyPublishFile
  <1> QED
    BY <1>1, <1>3, <1>4 DEF Kept

\* Steps that are not the script's own leave its place, except that a signal
\* ends its wait for a recovery handler.
LEMMA OtherPlaces ==
    ASSUME IInv, Trap \/ Tcpdump \/ LowDisk \/ UNCHANGED vars
                 \/ (\E s \in OperatorSignals : OperatorSends(s))
                 \/ (\E j \in Job : Gzip(j))
    PROVE  /\ next' = next
           /\ Started' => Started
           /\ \/ pc' = pc /\ (waited' = waited \/ pc = "wait_gzip")
              \/ pc = "wait_gzip" /\ pc' = "test_gzip" /\ waited' = "signal"
  <1>1. CASE Trap
    <2>1. ASSUME NEW s \in Graceful, TrapFirst(s) \/ TrapLater(s)
          PROVE  next' = next /\ EndWait
      BY <2>1 DEF TrapFirst, TrapLater, Handles
    <2>2. ASSUME SetMode \/ SetReason
          PROVE  UNCHANGED <<next, pc, waited>>
      BY <2>2 DEF SetMode, SetReason
    <2>3. ASSUME TrapTerm PROVE next' = next /\ EndWait
      BY <2>3 DEF TrapTerm, Handles
    <2>4. next' = next /\ (EndWait \/ UNCHANGED <<pc, waited>>)
      BY <1>1, <2>1, <2>2, <2>3 DEF Trap
    <2>5. tcpdump = "none" =>
            AfterSignal("INT") = "none" /\ AfterSignal("TERM") = "none"
      BY DEF AfterSignal
    <2>6. Started' => Started
      BY <1>1, <2>5, SignalChanges DEF SignalActions, Started
    <2> QED
      BY <2>4, <2>6 DEF EndWait
  <1>2. CASE Tcpdump
    <2>1. Started
      BY <1>2 DEF Tcpdump, Rotate, TcpdumpStarts, TcpdumpStops, TcpdumpFails,
                  Capturing, Started
    <2> QED
      BY <1>2, <2>1 DEF Tcpdump, mainVars
  <1>3. CASE LowDisk
    BY <1>3 DEF LowDisk, mainVars, dumpVars, Started
  <1>4. ASSUME NEW s \in OperatorSignals, OperatorSends(s)
        PROVE  UNCHANGED <<pc, next, waited, tcpdump>>
    BY <1>4 DEF OperatorSends, mainVars, dumpVars
  <1>5. ASSUME NEW j \in Job, Gzip(j) PROVE UNCHANGED <<pc, next, waited, tcpdump>>
    BY <1>5 DEF Gzip, mainVars, dumpVars
  <1>6. CASE UNCHANGED vars
    BY <1>6 DEF vars, mainVars, dumpVars, Started
  <1> QED
    BY <1>1, <1>2, <1>3, <1>4, <1>5, <1>6 DEF Started

\* How the script comes to its end.
LEMMA EndingBegins ==
    ASSUME IInv, [Next]_vars, pc' \in Ending, Started'
    PROVE  /\ Started
           /\ pc \notin Ending => ExitHandle \/ WaitPostrotate \/ TestDisk
  <1> USE DEF Step, Ending, Recovering, Started
  <1>1. CASE Main
    <2>1. CASE PrepareFails
      BY <2>1 DEF PrepareFails, IInv, PlaceInv, dumpVars
    <2>2. CASE Prepare \/ LaunchTcpdump \/ StorePids \/ WaitTcpdump
      BY <2>2 DEF Prepare, LaunchTcpdump, StorePids, WaitTcpdump
    <2>3. CASE SetModeAtExit \/ SetCodeAtExit
      BY <2>3 DEF SetModeAtExit, SetCodeAtExit
    <2>4. CASE ExitHandle \/ WaitPostrotate \/ TestDisk
      BY <2>4 DEF ExitHandle, WaitPostrotate, TestDisk, dumpVars
    <2>5. CASE RecoverNext \/ RecoverEnds \/ StartGzip \/ StoreGzipPid
      BY <2>5 DEF RecoverNext, RecoverEnds, StartGzip, StoreGzipPid, dumpVars
    <2>6. CASE WaitGzip \/ WaitAgain \/ GzipOver \/ RecoveryFails
      BY <2>6 DEF WaitGzip, WaitAgain, GzipOver, RecoveryFails, dumpVars
    <2>7. CASE AfterGraceful \/ WaitGroup \/ Cleanup
      BY <2>7 DEF AfterGraceful, WaitGroup, Cleanup, dumpVars
    <2>8. CASE ImmediateFinish
      BY <2>8 DEF ImmediateFinish, IInv, PlaceInv, TcpdumpOver
    <2> QED
      BY <1>1, <2>1, <2>2, <2>3, <2>4, <2>5, <2>6, <2>7, <2>8 DEF Main
  <1>2. CASE ~Main
    BY <1>2, OtherPlaces DEF Next
  <1> QED
    BY <1>1, <1>2

LEMMA RequestsStep ==
    ASSUME IInv, DiskInv, LossInv, [Next]_vars, pc' \in Ending, Started'
    PROVE  mode' # "running" /\ traps' = <<>>
  <1>1. CASE pc \in Ending
    BY <1>1, RequestsOver, EndingBegins DEF LossInv, Ending, Recovering
  <1>2. CASE pc \notin Ending
    BY <1>2, EndingBegins
    DEF ExitHandle, WaitPostrotate, TestDisk, Step, RequestVars, DiskInv,
        Ending, Recovering
  <1> QED
    BY <1>1, <1>2

LEMMA ReapedStep ==
    ASSUME IInv, LossInv, [Next]_vars, pc' = "test_gzip", waited' = "done"
    PROVE  handler'[Recover(next')] = "done"
  <1> USE DEF Step
  <1>1. CASE Main
    <2>1. CASE WaitGzip
      BY <2>1 DEF WaitGzip, gzipVars
    <2>2. CASE ~WaitGzip
      BY <1>1, <2>2 DEF Main, PrepareFails, Prepare, LaunchTcpdump, StorePids,
           WaitTcpdump, SetModeAtExit, SetCodeAtExit, ExitHandle,
           WaitPostrotate, TestDisk, RecoverNext, RecoverEnds, StartGzip,
           StoreGzipPid, WaitAgain, GzipOver, RecoveryFails,
           AfterGraceful, ImmediateFinish, WaitGroup, Cleanup
    <2> QED
      BY <2>1, <2>2
  <1>2. CASE ~Main
    <2>1. /\ pc = "test_gzip" /\ waited = "done" /\ next' = next
          /\ handler[Recover(next)] = "done"
      BY <1>2, OtherPlaces DEF Next, LossInv
    <2>2. Recover(next) \in Job /\ Recover(next) \notin RotateJobs
      BY <2>1, JobFacts DEF IInv, PlaceInv
    <2>3. CASE Trap \/ LowDisk \/ \E s \in OperatorSignals : OperatorSends(s)
      BY <2>1, <2>3, SignalChanges DEF SignalActions
    <2>4. CASE Tcpdump
      BY <2>1, <2>4 DEF Tcpdump, Rotate, TcpdumpStarts, TcpdumpStops,
        TcpdumpFails, TcpdumpOver, Capturing, IInv, PlaceInv, GroupOver
    <2>5. ASSUME NEW j \in Job, Gzip(j) PROVE handler'[Recover(next)] = "done"
      <3>1. CASE XzEnds(j)
        BY <2>1, <3>1 DEF XzEnds
      <3>2. CASE HandlerStep(j)
        <4>1. HandlerEffect(j)
          BY <3>2, HandlerEffects
        <4>2. j # Recover(next)
          BY <2>1, <4>1 DEF HandlerEffect, HandlerAlive, Alive, Running, Compressing
        <4> QED
          BY <2>1, <2>2, <4>1, <4>2 DEF HandlerEffect, IInv, Types
      <3> QED
        BY <2>5, <3>1, <3>2 DEF Gzip
    <2>6. CASE UNCHANGED vars
      BY <2>1, <2>6 DEF vars, gzipVars
    <2> QED
      BY <1>2, <2>1, <2>3, <2>4, <2>5, <2>6 DEF Next
  <1> QED
    BY <1>1, <1>2

LEMMA LoopStartsAtZero ==
    ASSUME IInv, LossInv, [Next]_vars, pc' \notin Ending
    PROVE  next' = 0
  <1> USE DEF Step, Ending, Recovering, LossInv
  <1>1. CASE Main
    BY <1>1 DEF Main, PrepareFails, Prepare, LaunchTcpdump, StorePids,
           WaitTcpdump, SetModeAtExit, SetCodeAtExit, ExitHandle,
           WaitPostrotate, TestDisk, RecoverNext, RecoverEnds, StartGzip,
           StoreGzipPid, WaitGzip, WaitAgain, GzipOver, RecoveryFails,
           AfterGraceful, ImmediateFinish, WaitGroup, Cleanup
  <1>2. CASE ~Main
    BY <1>2, OtherPlaces DEF Next
  <1> QED
    BY <1>1, <1>2

\* The loop passes an index only when it is published or reported.
LEMMA KeptStep ==
    ASSUME IInv, DiskInv, KeepInv, LossInv, [Next]_vars, ~sigterm', Started'
    PROVE  /\ pc' \in Recovering => Kept(next)'
           /\ pc' \in {"after", "cleanup", "ended"} /\ reason' # "low_disk" =>
                Kept(MaxDumpFiles)'
  <1> USE DEF Step
  <1>1. /\ next \in Nat /\ next <= MaxDumpFiles /\ MaxDumpFiles \in Nat
        /\ current \in Int
        /\ \A i \in Index : i \in Nat
        /\ raw \in [Index -> {"none", "open", "closed"}]
        /\ dumps \in [Index -> {"none", "partial", "whole"}]
    <2>1. Types /\ MaxDumpFiles \in Nat /\ \A i \in Index : i \in Nat
      BY JobFacts DEF IInv
    <2> QED
      BY <2>1 DEF Types
  <1>2. CASE pc \notin Ending
    <2>1. CASE pc' \in Ending
      <3>1. ExitHandle \/ WaitPostrotate \/ TestDisk
        BY <1>2, <2>1, EndingBegins
      <3>2. next' = 0 /\ (\A i \in Index : ~(i < next'))
        BY <3>1, <1>1, <1>2
        DEF LossInv, ExitHandle, WaitPostrotate, TestDisk
      <3>3. ASSUME TestDisk, pc' = "after" PROVE reason' = "low_disk"
        BY <3>3 DEF TestDisk, RequestVars, IInv, QuietInv
      <3> QED
        BY <3>1, <3>2, <3>3
        DEF ExitHandle, WaitPostrotate, TestDisk, Kept, Recovering
    <2> QED
      BY <2>1 DEF Ending
  <1>3. CASE pc \in Ending
    <2>1. Started /\ pc' \in Ending
      <3>1. pc' \in Ending
        BY <1>1, <1>3, OtherPlaces
        DEF Next, Main, PrepareFails, Prepare, LaunchTcpdump, StorePids,
            WaitTcpdump, SetModeAtExit, SetCodeAtExit, ExitHandle,
            WaitPostrotate, TestDisk, RecoverNext, RecoverEnds, StartGzip,
            StoreGzipPid, WaitGzip, WaitAgain, GzipOver, RecoveryFails,
            AfterGraceful, ImmediateFinish, WaitGroup, Cleanup, Ending,
            Recovering
      <3> QED
        BY <3>1, EndingBegins
    <2>2. /\ ~sigterm /\ reason' = reason /\ current' = current
          /\ \A n \in Nat : Kept(n) => Kept(n)'
      BY <1>3, <2>1, KeptStays
    <2>3. mode # "immediate" /\ pc \notin {"stop_group", "wait_group"}
      BY <2>2 DEF IInv, QuietInv
    <2>4. ASSUME next' = next, pc \in Recovering PROVE Kept(next)'
      BY <1>1, <2>1, <2>2, <2>4 DEF LossInv, Kept
    <2>5. ASSUME next' = next + 1, pc \in Recovering, pc # "ended",
                 next \in Index /\ next <= current => dumps[next] = "whole"
          PROVE  Kept(next)'
      <3>1. Kept(next)
        BY <2>1, <2>2, <2>5 DEF LossInv
      <3>2. Kept(next + 1)
        <4>1. ASSUME NEW i \in Index, i < next + 1, i <= current
              PROVE  dumps[i] = "whole" \/ code = 14
          <5>1. i < next \/ i = next
            BY <1>1, <4>1
          <5> QED
            BY <2>5, <3>1, <4>1, <5>1 DEF Kept
        <4> QED
          BY <4>1 DEF Kept
      <3> QED
        BY <1>1, <2>2, <2>5, <3>2 DEF Kept
    <2>6. CASE Main
      <3>1. CASE RecoverNext
        <4>1. pc = "recover" /\ pc' \in {"start", "recover"}
          BY <3>1 DEF RecoverNext
        <4>2. CASE pc' = "start"
          BY <2>4, <3>1, <4>1, <4>2 DEF RecoverNext, Recovering
        <4>3. CASE pc' = "recover"
          <5>1. next' = next + 1 /\ ~(next \in Index /\ NeedsRecovery(next))
            BY <3>1, <4>3 DEF RecoverNext
          <5>2. next \in Index /\ next <= current => dumps[next] = "whole"
            BY <1>1, <4>1, <5>1 DEF NeedsRecovery, KeepInv
          <5> QED
            BY <2>5, <4>1, <4>3, <5>1, <5>2 DEF Recovering
        <4> QED
          BY <4>1, <4>2, <4>3
      <3>2. CASE RecoverEnds
        <4>1. next = MaxDumpFiles /\ pc = "recover" /\ pc' = "after"
          BY <2>3, <3>2 DEF RecoverEnds
        <4>2. Kept(MaxDumpFiles)
          BY <2>1, <2>2, <4>1 DEF LossInv, Recovering
        <4> QED
          BY <1>1, <2>2, <4>1, <4>2 DEF Recovering
      <3>3. CASE StartGzip \/ StoreGzipPid \/ WaitGzip \/ WaitAgain
        BY <2>4, <3>3 DEF StartGzip, StoreGzipPid, WaitGzip, WaitAgain, Recovering
      <3>4. CASE GzipOver
        <4>1. pc = "test_gzip" /\ pc' \in {"recover", "fail"}
          BY <2>3, <3>4 DEF GzipOver
        <4>2. CASE pc' = "fail"
          BY <2>4, <3>4, <4>1, <4>2 DEF GzipOver, Recovering
        <4>3. CASE pc' = "recover"
          <5>1. next' = next + 1 /\ waited = "done"
            BY <2>3, <3>4, <4>3 DEF GzipOver
          <5>2. /\ handler[Recover(next)] = "done"
                /\ next \in Index /\ next < MaxDumpFiles
                /\ Recover(next) \in Job /\ Recover(next)[2] = next
            BY <4>1, <5>1, JobFacts DEF LossInv, IInv, PlaceInv, Recover
          <5>3. dumps[next] = "whole"
            BY <5>2 DEF KeepInv
          <5> QED
            BY <2>5, <4>1, <4>3, <5>1, <5>3 DEF Recovering
        <4> QED
          BY <4>1, <4>2, <4>3
      <3>5. CASE RecoveryFails
        BY <3>5 DEF RecoveryFails, Kept, Recovering
      <3>6. CASE AfterGraceful \/ Cleanup
        <4>1. pc \in {"after", "cleanup"} /\ pc' \in {"cleanup", "ended"}
          BY <2>3, <3>6 DEF AfterGraceful, Cleanup
        <4> QED
          BY <1>1, <2>1, <2>2, <4>1 DEF LossInv, Recovering
      <3>7. CASE ImmediateFinish \/ WaitGroup
        BY <2>3, <3>7 DEF ImmediateFinish, WaitGroup
      <3>8. CASE PrepareFails \/ Prepare \/ LaunchTcpdump \/ StorePids
                  \/ WaitTcpdump \/ SetModeAtExit \/ SetCodeAtExit
                  \/ ExitHandle \/ WaitPostrotate \/ TestDisk
        BY <1>3, <3>8
        DEF PrepareFails, Prepare, LaunchTcpdump, StorePids, WaitTcpdump,
            SetModeAtExit, SetCodeAtExit, ExitHandle, WaitPostrotate, TestDisk,
            Ending, Recovering
      <3> QED
        BY <2>6, <3>1, <3>2, <3>3, <3>4, <3>5, <3>6, <3>7, <3>8 DEF Main
    <2>7. CASE ~Main
      <3>1. next' = next /\ (pc' = pc \/ (pc = "wait_gzip" /\ pc' = "test_gzip"))
        BY <2>7, OtherPlaces DEF Next
      <3>2. pc \in {"after", "cleanup", "ended"} /\ reason # "low_disk" =>
              Kept(MaxDumpFiles)
        BY <2>1, <2>2 DEF LossInv
      <3>3. pc' \in Recovering => pc \in Recovering
        BY <3>1 DEF Recovering
      <3> QED
        BY <1>1, <2>2, <2>4, <3>1, <3>2, <3>3
    <2> QED
      BY <2>6, <2>7
  <1> QED
    BY <1>2, <1>3

\* A capture that ends without SIGTERM and with enough space has published
\* every allowed raw file that tcpdump has opened, or reports a failed
\* compression (recover_files, bbuadm_tcpdump_capture.sh:405-437).
THEOREM NothingIsLost == Spec => []NothingLost
  <1>1. IInv /\ DiskInv /\ KeepInv /\ LossInv /\ [Next]_vars => LossInv'
    <2> SUFFICES ASSUME IInv, DiskInv, KeepInv, LossInv, [Next]_vars
                 PROVE  LossInv'
      OBVIOUS
    <2>1. pc' \notin Ending => next' = 0
      BY LoopStartsAtZero
    <2>2. pc' \in Ending /\ Started' => mode' # "running" /\ traps' = <<>>
      BY RequestsStep
    <2>3. pc' = "test_gzip" /\ waited' = "done" => handler'[Recover(next')] = "done"
      BY ReapedStep
    <2>4. Started' /\ ~sigterm' =>
            /\ pc' \in Recovering => Kept(next)'
            /\ pc' \in {"after", "cleanup", "ended"} /\ reason' # "low_disk" =>
                 Kept(MaxDumpFiles)'
      BY KeptStep
    <2>5. (pc \in Ending)' = (pc' \in Ending)
          /\ (pc \in Recovering)' = (pc' \in Recovering)
          /\ (handler[Recover(next)])' = handler'[Recover(next')]
      BY DEF Ending, Recovering, Recover
    <2> QED
      BY <2>1, <2>2, <2>3, <2>4, <2>5 DEF LossInv
  <1>2. IInv /\ KeepInv /\ [Next]_vars => KeepInv'
    BY KeepStep
  <1>3. IInv /\ LossInv => NothingLost
    <2> SUFFICES ASSUME IInv, LossInv, pc = "ended", Started, ~sigterm,
                        reason # "low_disk",
                        NEW i \in 0..current, i < MaxDumpFiles
                 PROVE  dumps[i] = "whole" \/ code = 14
      BY DEF NothingLost
    <2>1. i \in Index /\ i <= current
      BY JobFacts DEF IInv, Types, Index
    <2> QED
      BY <2>1 DEF LossInv, Kept
  <1> QED
    BY <1>1, <1>2, <1>3, LossInit, InvariantHolds, DiskHolds, PTL DEF Spec
==============================================================================
