------------------------------ MODULE Capture --------------------------------
(***************************************************************************)
(* One run of bbuadm_tcpdump_capture.sh: the main script with its signal   *)
(* traps, the disk monitor, tcpdump in a process group of its own with the *)
(* compression handlers it starts, and the recovery of raw files at the    *)
(* end.                                                                    *)
(*                                                                         *)
(* bash runs the traps of pending signals before the next command of the   *)
(* script, also inside another trap, and a signal ends the builtin wait    *)
(* with a status of its own.  tcpdump is external: it is modelled from how *)
(* the script starts it and what it expects of it.                         *)
(***************************************************************************)
EXTENDS GzipHandler, Sequences, SequencesExt

CONSTANTS
    OperatorSignals,  \* the signals an operator may send, of INT and TERM
    MaxSignals        \* bound: how many of them

ASSUME OperatorAssumption == OperatorSignals \subseteq {"INT", "TERM"}
ASSUME MaxSignalsAssumption == MaxSignals \in Nat

VARIABLES
    pc,        \* where the main script is, named for the function or step
    mode,      \* SHUTDOWN_MODE
    reason,    \* STOP_REASON
    code,      \* FINAL_EXIT_CODE
    traps,     \* the requests of a graceful stop whose traps are under way
    next,      \* the loop variable i of recover_files
    waited,    \* rc of run_gzip_handler
    tcpdump,   \* the process tcpdump
    current,   \* the index of the raw file it writes, -1 before the first
    monitor,   \* the disk monitor is running
    operator,  \* the number of signals the operator has sent
    sigterm    \* a SIGTERM has been handled

mainVars == <<pc, mode, reason, code, traps, next, waited, sigterm>>
dumpVars == <<tcpdump, current>>
vars == <<gzipVars, mainVars, dumpVars, monitor, operator>>

\* What each request of a graceful stop passes to request_graceful.
Requests == [INT  |-> [reason |-> "sigint",    signal |-> "INT",  code |-> 130],
             USR1 |-> [reason |-> "max_files", signal |-> "TERM", code |-> 0],
             USR2 |-> [reason |-> "low_disk",  signal |-> "TERM", code |-> 15]]
Graceful == DOMAIN Requests

NoCode == -1  \* FINAL_EXIT_CODE is empty

Failing == [config |-> 10, dump_dir |-> 11, prepare |-> 12, disk |-> 13]

Recover(i) == <<"recover", i>>
RotateJobs == {"rotate"} \X Index

Capturing == {"capturing", "stopping"}
TcpdumpOver == {"over", "failed"}

TypeOK ==
    /\ GzipTypeOK
    /\ pc \in {"prepare", "launch", "pids", "wait_tcpdump",
               "set_mode", "set_code", "exit", "wait_postrotate", "test_disk",
               "recover", "start", "store", "wait_gzip", "test_gzip", "fail",
               "after", "stop_group", "wait_group", "cleanup", "ended"}
    /\ mode \in {"running", "graceful", "immediate"}
    /\ reason \in {"none", "tcpdump_exit", "sigterm"}
                    \cup {Requests[s].reason : s \in Graceful}
    /\ code \in {NoCode, 0, 1, 10, 11, 12, 13, 14, 15, 130, 143}
    /\ traps \in Seq([signal : Graceful, at : {"mode", "code"}])
    /\ next \in 0..MaxDumpFiles
    /\ waited \in {"none", "done", "failed", "signal"}
    /\ tcpdump \in {"none", "forked", "grouped"} \cup Capturing \cup TcpdumpOver
    /\ current \in Index \cup {-1}
    /\ monitor \in BOOLEAN
    /\ operator \in 0..MaxSignals
    /\ sigterm \in BOOLEAN

Init ==
    /\ GzipInit
    /\ pc = "prepare"
    /\ mode = "running"
    /\ reason = "none"
    /\ code = NoCode
    /\ traps = <<>>
    /\ next = 0
    /\ waited = "none"
    /\ tcpdump = "none"
    /\ current = -1
    /\ monitor = FALSE
    /\ operator = 0
    /\ sigterm = FALSE

-----------------------------------------------------------------------------
(* Processes and signals *)

PidsKnown == pc \notin {"prepare", "launch", "pids"}

\* FINAL_GZIP_PID is set.
GzipPidKnown == pc \in {"wait_gzip", "test_gzip"}

\* Variant: the group is taken for over when its leader is.
LeaderIsRunning == tcpdump \in {"grouped"} \cup Capturing

\* setsid makes the group, which the rotation handlers inherit.
GroupIsRunning ==
    \/ tcpdump \in {"grouped"} \cup Capturing
    \/ \E j \in RotateJobs : JobAlive(j)

\* Until tcpdump has installed its own handlers SIGTERM ends it, and SIGINT is
\* ignored, as in every child that bash starts in the background.
AfterSignal(signal) ==
    CASE tcpdump = "capturing" -> "stopping"
      [] tcpdump \in {"forked", "grouped"} /\ signal = "TERM" -> "over"
      [] OTHER -> tcpdump

StopTcpdump(signal) ==
    tcpdump' = IF PidsKnown THEN AfterSignal(signal) ELSE tcpdump

\* The compressors of the group get the signal too (see XzEnds).
StopProcessGroup ==
    /\ tcpdump' = IF PidsKnown /\ tcpdump # "forked"
                    THEN AfterSignal("TERM") ELSE tcpdump
    /\ handlerTerm' = handlerTerm \cup
         {j \in Job : /\ HandlerAlive(j)
                      /\ \/ PidsKnown /\ j \in RotateJobs
                         \/ GzipPidKnown /\ j = Recover(next)}

\* A signal whose trap runs while the script waits for a child ends the wait.
EndWait ==
    /\ pc' = IF pc = "wait_gzip" THEN "test_gzip" ELSE pc
    /\ waited' = IF pc = "wait_gzip" THEN "signal" ELSE waited

\* A signal is handled once its own trap is not under way.
Handles(s) ==
    /\ s \in pending
    /\ pc # "ended"
    /\ \A k \in DOMAIN traps : traps[k].signal # s
    /\ pending' = pending \ {s}
    /\ EndWait

(* request_graceful *)

\* The first request: the test is made, the assignments follow.
TrapFirst(s) ==
    /\ Handles(s)
    /\ mode = "running"
    /\ traps' = Append(traps, [signal |-> s, at |-> "mode"])
    /\ UNCHANGED <<mode, reason, code, next, sigterm, dumpVars, monitor,
                   operator, handler, handlerTerm, xz, raw, part, dumps>>

\* A later one only signals tcpdump, and none does in immediate mode.
TrapLater(s) ==
    /\ Handles(s)
    /\ mode # "running"
    /\ IF mode = "graceful" THEN StopTcpdump(Requests[s].signal)
                            ELSE UNCHANGED tcpdump
    /\ UNCHANGED <<mode, reason, code, traps, next, sigterm, current, monitor,
                   operator, handler, handlerTerm, xz, raw, part, dumps>>

\* The innermost trap goes on when no other signal interrupts it.
InTrap(at) ==
    /\ traps # <<>>
    /\ Last(traps).at = at
    /\ \A s \in pending : \E k \in DOMAIN traps : traps[k].signal = s

SetMode ==
    /\ InTrap("mode")
    /\ mode' = "graceful"
    /\ traps' = [traps EXCEPT ![Len(traps)].at = "code"]
    /\ UNCHANGED <<gzipVars, pc, reason, code, next, waited, sigterm, dumpVars,
                   monitor, operator>>

\* Variant: the request is noted and tcpdump is left running.
SetReasonOnly ==
    /\ InTrap("code")
    /\ reason' = Requests[Last(traps).signal].reason
    /\ code' = Requests[Last(traps).signal].code
    /\ traps' = Front(traps)
    /\ UNCHANGED <<gzipVars, pc, mode, next, waited, sigterm, dumpVars, monitor,
                   operator>>

SetReason ==
    /\ InTrap("code")
    /\ LET request == Requests[Last(traps).signal]
       IN  /\ reason' = request.reason
           /\ code' = request.code
           /\ StopTcpdump(request.signal)
    /\ traps' = Front(traps)
    /\ UNCHANGED <<gzipVars, pc, mode, next, waited, sigterm, current, monitor,
                   operator>>

(* request_immediate *)
TrapTerm ==
    /\ Handles("TERM")
    /\ mode' = "immediate"
    /\ reason' = "sigterm"
    /\ code' = 143
    /\ sigterm' = TRUE
    /\ StopProcessGroup
    /\ UNCHANGED <<traps, next, current, monitor, operator,
                   handler, xz, raw, part, dumps>>

Trap ==
    \/ \E s \in Graceful : TrapFirst(s) \/ TrapLater(s)
    \/ SetMode
    \/ SetReason
    \/ TrapTerm

-----------------------------------------------------------------------------
(* The main script *)

\* The script goes on from one place to another when no trap is to run.
Step(from, to) ==
    /\ pc = from
    /\ pending = {}
    /\ traps = <<>>
    /\ pc' = to

RequestVars == <<mode, reason, code, traps, sigterm>>

\* check_config, prepare_dump_dir, prepare and the first disk check.
PrepareFails ==
    \E failure \in DOMAIN Failing :
        /\ Step("prepare", "cleanup")
        /\ code' = IF code = NoCode THEN Failing[failure] ELSE code
        /\ UNCHANGED <<gzipVars, mode, reason, traps, next, waited, sigterm,
                       dumpVars, monitor, operator>>

Prepare ==
    /\ Step("prepare", "launch")
    /\ monitor' = TRUE
    /\ UNCHANGED <<gzipVars, RequestVars, next, waited, dumpVars, operator>>

LaunchTcpdump ==
    /\ Step("launch", "pids")
    /\ tcpdump' = "forked"
    /\ UNCHANGED <<gzipVars, RequestVars, next, waited, current, monitor,
                   operator>>

\* TCPDUMP_PID, PGID and STARTED.
StorePids ==
    /\ Step("pids", "wait_tcpdump")
    /\ UNCHANGED <<gzipVars, RequestVars, next, waited, dumpVars, monitor,
                   operator>>

WaitTcpdump ==
    /\ Step("wait_tcpdump", IF mode = "running" THEN "set_mode" ELSE "exit")
    /\ tcpdump \in TcpdumpOver
    /\ UNCHANGED <<gzipVars, RequestVars, next, waited, dumpVars, monitor,
                   operator>>

\* tcpdump has ended of itself.
SetModeAtExit ==
    /\ Step("set_mode", "set_code")
    /\ mode' = "graceful"
    /\ UNCHANGED <<gzipVars, reason, code, traps, next, waited, sigterm,
                   dumpVars, monitor, operator>>

SetCodeAtExit ==
    /\ Step("set_code", "exit")
    /\ reason' = "tcpdump_exit"
    /\ code' = IF tcpdump = "failed" THEN 1 ELSE 0
    /\ UNCHANGED <<gzipVars, mode, traps, next, waited, sigterm, dumpVars,
                   monitor, operator>>

(* exit_handle and graceful_finish; tcpdump is over and reaped. *)

ExitHandle ==
    /\ Step("exit", IF mode = "immediate" THEN "stop_group"
                                          ELSE "wait_postrotate")
    /\ UNCHANGED <<gzipVars, RequestVars, next, waited, dumpVars, monitor,
                   operator>>

WaitPostrotate ==
    /\ \/ /\ ~GroupIsRunning
          /\ Step("wait_postrotate", "test_disk")
       \/ /\ GroupIsRunning
          /\ mode = "immediate"
          /\ Step("wait_postrotate", "stop_group")
    /\ UNCHANGED <<gzipVars, RequestVars, next, waited, dumpVars, monitor,
                   operator>>

\* Variant: the reason of the end is not looked at.
TestMode ==
    /\ Step("test_disk", IF mode # "immediate" THEN "recover" ELSE "after")
    /\ UNCHANGED <<gzipVars, RequestVars, next, waited, dumpVars, monitor,
                   operator>>

\* With little space left nothing is recovered.
TestDisk ==
    /\ Step("test_disk", IF mode # "immediate" /\ reason # "low_disk"
                           THEN "recover" ELSE "after")
    /\ UNCHANGED <<gzipVars, RequestVars, next, waited, dumpVars, monitor,
                   operator>>

(* recover_files *)

\* Variant: the published file is not looked for.
HasRawFile(i) == raw[i] # "none"

\* A raw file remains and nothing is published for its index.
NeedsRecovery(i) == raw[i] # "none" /\ dumps[i] = "none"

\* Variant: the loop runs to MAX_DUMP_FILES inclusive.
RecoverNextInclusive ==
    /\ mode # "immediate"
    /\ next <= MaxDumpFiles
    /\ IF next \in Index /\ NeedsRecovery(next)
         THEN Step("recover", "start") /\ UNCHANGED next
         ELSE Step("recover", "recover") /\ next' = next + 1
    /\ UNCHANGED <<gzipVars, RequestVars, waited, dumpVars, monitor, operator>>

\* One turn of the loop, up to the call of run_gzip_handler.
RecoverNext ==
    /\ mode # "immediate"
    /\ next < MaxDumpFiles
    /\ IF next \in Index /\ NeedsRecovery(next)
         THEN Step("recover", "start") /\ UNCHANGED next
         ELSE Step("recover", "recover") /\ next' = next + 1
    /\ UNCHANGED <<gzipVars, RequestVars, waited, dumpVars, monitor, operator>>

RecoverEnds ==
    /\ mode = "immediate" \/ next = MaxDumpFiles
    /\ Step("recover", "after")
    /\ UNCHANGED <<gzipVars, RequestVars, next, waited, dumpVars, monitor,
                   operator>>

(* run_gzip_handler *)

StartGzip ==
    /\ Step("start", "store")
    /\ Go(Recover(next), "check")
    /\ UNCHANGED <<handlerTerm, xz, raw, part, dumps, pending, RequestVars,
                   next, waited, dumpVars, monitor, operator>>

\* FINAL_GZIP_PID=$!
StoreGzipPid ==
    /\ Step("store", "wait_gzip")
    /\ UNCHANGED <<gzipVars, RequestVars, next, waited, dumpVars, monitor,
                   operator>>

WaitGzip ==
    /\ Step("wait_gzip", "test_gzip")
    /\ ~HandlerAlive(Recover(next))
    /\ waited' = handler[Recover(next)]
    /\ UNCHANGED <<gzipVars, RequestVars, next, dumpVars, monitor, operator>>

\* After a signal the handler is still there, and is told to end.
WaitAgain ==
    /\ Step("test_gzip", "wait_gzip")
    /\ HandlerAlive(Recover(next))
    /\ handlerTerm' = IF mode = "immediate"
                        THEN handlerTerm \cup {Recover(next)} ELSE handlerTerm
    /\ UNCHANGED <<handler, xz, raw, part, dumps, pending, RequestVars, next,
                   waited, dumpVars, monitor, operator>>

\* Variant: the mode is not tested after a failed recovery.
GzipOverUntested ==
    /\ \/ /\ Step("test_gzip", "recover")
          /\ waited = "done"
          /\ next' = next + 1
       \/ /\ Step("test_gzip", "fail")
          /\ waited # "done"
          /\ UNCHANGED next
    /\ ~HandlerAlive(Recover(next))
    /\ UNCHANGED <<gzipVars, RequestVars, waited, dumpVars, monitor, operator>>

\* The status is that of the last wait, whatever ended it.
GzipOver ==
    /\ \/ /\ Step("test_gzip", "recover")
          /\ waited = "done"
          /\ next' = next + 1
       \/ /\ Step("test_gzip", IF mode = "immediate" THEN "after" ELSE "fail")
          /\ waited # "done"
          /\ UNCHANGED next
    /\ ~HandlerAlive(Recover(next))
    /\ UNCHANGED <<gzipVars, RequestVars, waited, dumpVars, monitor, operator>>

\* Variant: a failed compression is tried again.
RecoveryRetries ==
    /\ Step("fail", "recover")
    /\ code' = 14
    /\ UNCHANGED <<gzipVars, mode, reason, traps, next, waited, sigterm,
                   dumpVars, monitor, operator>>

RecoveryFails ==
    /\ Step("fail", "recover")
    /\ code' = 14
    /\ next' = next + 1
    /\ UNCHANGED <<gzipVars, mode, reason, traps, waited, sigterm, dumpVars,
                   monitor, operator>>

(* The rest of exit_handle, and immediate_finish *)

AfterGraceful ==
    /\ Step("after", IF mode = "immediate" THEN "stop_group" ELSE "cleanup")
    /\ UNCHANGED <<gzipVars, RequestVars, next, waited, dumpVars, monitor,
                   operator>>

ImmediateFinish ==
    /\ Step("stop_group", "wait_group")
    /\ StopProcessGroup
    /\ UNCHANGED <<handler, xz, raw, part, dumps, pending, RequestVars, next,
                   waited, current, monitor, operator>>

WaitGroup ==
    /\ Step("wait_group", "cleanup")
    /\ ~GroupIsRunning
    /\ UNCHANGED <<gzipVars, RequestVars, next, waited, dumpVars, monitor,
                   operator>>

\* stop_disk_monitor and cleanup_dump_dir.
Cleanup ==
    /\ Step("cleanup", "ended")
    /\ monitor' = FALSE
    /\ raw' = [i \in Index |-> "none"]
    /\ part' = [i \in Index |-> NoJob]
    /\ UNCHANGED <<handler, handlerTerm, xz, dumps, pending, RequestVars, next,
                   waited, dumpVars, operator>>

Main ==
    \/ PrepareFails
    \/ Prepare
    \/ LaunchTcpdump
    \/ StorePids
    \/ WaitTcpdump
    \/ SetModeAtExit
    \/ SetCodeAtExit
    \/ ExitHandle
    \/ WaitPostrotate
    \/ TestDisk
    \/ RecoverNext
    \/ RecoverEnds
    \/ StartGzip
    \/ StoreGzipPid
    \/ WaitGzip
    \/ WaitAgain
    \/ GzipOver
    \/ RecoveryFails
    \/ AfterGraceful
    \/ ImmediateFinish
    \/ WaitGroup
    \/ Cleanup

-----------------------------------------------------------------------------
(* The other processes *)

TcpdumpStarts ==
    \/ /\ tcpdump = "forked"
       /\ tcpdump' = "grouped"
       /\ UNCHANGED <<current, raw>>
    \/ /\ tcpdump = "grouped"
       /\ tcpdump' = "capturing"
       /\ current' = 0
       /\ raw' = [raw EXCEPT ![0] = "open"]

\* A full file is closed, its handler is started, the next file is opened.
\* tcpdump looks at a signal only after the packet it is writing.
Rotate ==
    /\ tcpdump \in Capturing
    /\ current < MaxIndex
    /\ raw' = [raw EXCEPT ![current] = "closed", ![current + 1] = "open"]
    /\ Go(<<"rotate", current>>, "check")
    /\ current' = current + 1
    /\ UNCHANGED <<tcpdump, handlerTerm, xz, part, dumps, pending>>

CloseFile ==
    raw' = IF current = -1 THEN raw ELSE [raw EXCEPT ![current] = "closed"]

TcpdumpStops ==
    /\ tcpdump = "stopping"
    /\ tcpdump' = "over"
    /\ CloseFile
    /\ UNCHANGED current

TcpdumpFails ==
    /\ tcpdump \in {"forked", "grouped", "capturing"}
    /\ tcpdump' = "failed"
    /\ CloseFile
    /\ UNCHANGED current

Tcpdump ==
    /\ \/ Rotate
       \/ /\ TcpdumpStarts \/ TcpdumpStops \/ TcpdumpFails
          /\ UNCHANGED <<handler, handlerTerm, xz, part, dumps, pending>>
    /\ UNCHANGED <<mainVars, monitor, operator>>

\* disk_monitor returns once it has reported.
LowDisk ==
    /\ monitor
    /\ pending' = pending \cup {"USR2"}
    /\ monitor' = FALSE
    /\ UNCHANGED <<handler, handlerTerm, xz, raw, part, dumps, mainVars,
                   dumpVars, operator>>

OperatorSends(s) ==
    /\ operator < MaxSignals
    /\ pc # "ended"
    /\ pending' = pending \cup {s}
    /\ operator' = operator + 1
    /\ UNCHANGED <<handler, handlerTerm, xz, raw, part, dumps, mainVars,
                   dumpVars, monitor>>

Gzip(j) ==
    /\ HandlerStep(j) \/ XzEnds(j)
    /\ UNCHANGED <<mainVars, dumpVars, monitor, operator>>

Next ==
    \/ Main
    \/ Trap
    \/ Tcpdump
    \/ LowDisk
    \/ \E s \in OperatorSignals : OperatorSends(s)
    \/ \E j \in Job : Gzip(j)

Spec == Init /\ [][Next]_vars

(***************************************************************************)
(* Every process goes on: the main script and its traps, tcpdump's start   *)
(* and its end once it has been told to stop, the handlers and the         *)
(* compressors.  There need not be another rotation, and nobody need fail, *)
(* fill the disk or send a signal.                                         *)
(***************************************************************************)
TcpdumpGoesOn ==
    /\ TcpdumpStarts \/ TcpdumpStops
    /\ UNCHANGED <<handler, handlerTerm, xz, part, dumps, pending, mainVars,
                   monitor, operator>>

GzipGoesOn(j) ==
    /\ HandlerStep(j)
    /\ UNCHANGED <<mainVars, dumpVars, monitor, operator>>

XzGoesOn(j) ==
    /\ XzEnds(j)
    /\ UNCHANGED <<mainVars, dumpVars, monitor, operator>>

Fairness ==
    /\ WF_vars(Main)
    /\ WF_vars(Trap)
    /\ WF_vars(TcpdumpGoesOn)
    /\ \A j \in Job : WF_vars(GzipGoesOn(j)) /\ WF_vars(XzGoesOn(j))

FairSpec == Spec /\ Fairness

-----------------------------------------------------------------------------
(* Properties *)

Published == {<<i, dumps[i]>> : i \in {k \in Index : dumps[k] # "none"}}

Store == INSTANCE DumpStore WITH
           MaxDumpFiles <- MaxDumpFiles, published <- Published

\* Whatever signal or failure hits whichever process: dumps holds completely
\* compressed files of allowed indexes only, each put there once.
ImplementsStore == Store!Spec

\* A handler that is about to compress finds no published file of its index,
\* although one that was stopped may have left its raw file beside it: the
\* test that asks the main script to stop (bbuadm_gzip.sh:154) never succeeds.
DestinationFree == \A j \in Job : handler[j] = "check" => dumps[j[2]] = "none"

Started == tcpdump # "none"

\* A capture that ends without SIGTERM and with enough space has published
\* every allowed raw file that tcpdump has opened, whoever compressed it, or
\* reports a failure.
NothingLost ==
    (pc = "ended" /\ Started /\ ~sigterm /\ reason # "low_disk") =>
        \A i \in 0..current :
            i < MaxDumpFiles => dumps[i] = "whole" \/ code = 14

\* When the script removes dumps/tmp and ends, no process of tcpdump's group is
\* left and no handler, and without SIGTERM no compressor either: nothing
\* writes there any more.
QuietAtEnd ==
    pc = "ended" =>
        /\ ~GroupIsRunning
        /\ \A j \in Job : ~HandlerAlive(j)
        /\ ~sigterm => \A j \in Job : ~JobAlive(j)

\* A capture that ends because of the disk has recovered nothing, whichever
\* signals came with the disk monitor's and in whichever order.
LowDiskSparesDisk ==
    code = 15 => \A i \in Index : handler[Recover(i)] = "none"

\* A SIGTERM has been handled, and no test of the mode from before it is still
\* to be acted on: not in the trap of another signal (lines 279-287 of
\* bbuadm_tcpdump_capture.sh), nor after tcpdump's end (583-586), nor around the
\* recovery of a file (412-382, 428-431).
Settled ==
    /\ mode = "immediate"
    /\ code = 143
    /\ traps = <<>>
    /\ pc \notin {"set_mode", "set_code", "start", "fail"}

\* Then it is final: whatever comes, the script does not go back to a graceful
\* stop, starts no recovery, and will exit with 143.
SigtermStays == [][Settled => Settled']_vars

\* A signal that the script gets while tcpdump captures and no SIGTERM was
\* wasted before ends the script.
SignalsEndCapture ==
    (/\ tcpdump = "capturing"
     /\ pc = "wait_tcpdump"
     /\ mode # "immediate"
     /\ pending # {}) ~> (pc = "ended")

\* tcpdump's end is followed by that of the script.
TcpdumpEndsScript == (tcpdump \in TcpdumpOver) ~> (pc = "ended")

(* What the specification of the scripts says of SIGTERM and of code 14 *)

\* A SIGTERM ends the script ("Immediate shutdown: 1. Stop tcpdump and
\* compression processes").
SigtermEndsScript == sigterm ~> (pc = "ended")

\* Code 14 means that a compression failed.
FailureCodeMeansFailure ==
    (pc = "ended" /\ code = 14) =>
        \E j \in Job : xz[j] = "failed"
==============================================================================
