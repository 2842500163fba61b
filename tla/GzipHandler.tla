----------------------------- MODULE GzipHandler -----------------------------
(***************************************************************************)
(* The compression handlers (bbuadm_gzip.sh) of a capture, the compressors *)
(* (xz) they start, and the files they work on.  A handler is started for  *)
(* a raw file by tcpdump when it rotates ("rotate") or by the main script  *)
(* after the capture ("recover"); who starts it is in module Capture.      *)
(*                                                                         *)
(* A step of a handler is a command, or several between which a signal     *)
(* makes no difference.  bash runs a trap before the next command, so that *)
(* a handler with a pending SIGTERM takes no other step.                   *)
(***************************************************************************)
EXTENDS Integers

CONSTANTS
    MaxDumpFiles,  \* MAX_DUMP_FILES
    MaxIndex       \* bound: the last raw file that tcpdump opens

ASSUME MaxDumpFilesAssumption == MaxDumpFiles \in Nat \ {0}
ASSUME MaxIndexAssumption == MaxIndex \in Nat

Index == 0..MaxIndex
Job == {"rotate", "recover"} \X Index

VARIABLES
    handler,      \* where each handler is in bbuadm_gzip.sh
    handlerTerm,  \* the handlers with a pending SIGTERM
    xz,           \* the compressor of each handler
    raw,          \* dumps/tmp: the raw file of each index
    part,         \* dumps/tmp: the job whose compressor made each .part file
    dumps,        \* dumps: the published file of each index
    pending       \* signals sent to the main script, before their traps run

gzipVars == <<handler, handlerTerm, xz, raw, part, dumps, pending>>

NoJob == <<"none", 0>>

\* Before exit: "check" stands for postrotate up to the compression, "launch"
\* to "remove" for compress_file, "reap" and "tidy" for sigterm_handle.
Compressing == {"launch", "store", "wait", "publish"}
Running == {"check", "remove"} \cup Compressing
Alive == Running \cup {"reap", "tidy"}

GzipTypeOK ==
    /\ handler \in [Job -> Alive \cup {"none", "done", "failed"}]
    /\ handlerTerm \subseteq Job
    /\ xz \in [Job -> {"none", "running", "done", "failed"}]
    /\ raw \in [Index -> {"none", "open", "closed"}]
    /\ part \in [Index -> Job \cup {NoJob}]
    /\ dumps \in [Index -> {"none", "partial", "whole"}]
    /\ pending \subseteq {"INT", "TERM", "USR1", "USR2"}

GzipInit ==
    /\ handler = [j \in Job |-> "none"]
    /\ handlerTerm = {}
    /\ xz = [j \in Job |-> "none"]
    /\ raw = [i \in Index |-> "none"]
    /\ part = [i \in Index |-> NoJob]
    /\ dumps = [i \in Index |-> "none"]
    /\ pending = {}

At(j, place) == handler[j] = place /\ j \notin handlerTerm
Go(j, place) == handler' = [handler EXCEPT ![j] = place]

-----------------------------------------------------------------------------
(* postrotate *)

\* A file beyond the limit only asks the main script to stop.
Overflow(j) ==
    /\ At(j, "check")
    /\ j[2] >= MaxDumpFiles
    /\ pending' = pending \cup {"USR1"}
    /\ Go(j, "done")
    /\ UNCHANGED <<handlerTerm, xz, raw, part, dumps>>

\* A published file is never replaced; the request to stop for the last
\* allowed file is sent before it is compressed.
Admit(j) ==
    /\ At(j, "check")
    /\ j[2] < MaxDumpFiles
    /\ IF dumps[j[2]] # "none"
         THEN /\ Go(j, "failed")
              /\ pending' = pending \cup {"TERM"}
         ELSE /\ Go(j, "launch")
              /\ pending' = IF j[2] = MaxDumpFiles - 1
                              THEN pending \cup {"USR1"} ELSE pending
    /\ UNCHANGED <<handlerTerm, xz, raw, part, dumps>>

(* compress_file *)

Launch(j) ==
    /\ At(j, "launch")
    /\ xz' = [xz EXCEPT ![j] = "running"]
    /\ part' = [part EXCEPT ![j[2]] = j]
    /\ Go(j, "store")
    /\ UNCHANGED <<handlerTerm, raw, dumps, pending>>

\* GZIP_PID=$!: from here on sigterm_handle knows the compressor.
StorePid(j) ==
    /\ At(j, "store")
    /\ Go(j, "wait")
    /\ UNCHANGED <<handlerTerm, xz, raw, part, dumps, pending>>

\* The compressor ends, of itself, for lack of space or by a signal.
XzEnds(j) ==
    /\ xz[j] = "running"
    /\ \E status \in {"done", "failed"} : xz' = [xz EXCEPT ![j] = status]
    /\ UNCHANGED <<handler, handlerTerm, raw, part, dumps, pending>>

\* Variant: the status of the compressor is not looked at.
CompressedAnyhow(j) ==
    /\ At(j, "wait")
    /\ xz[j] # "running"
    /\ Go(j, "publish")
    /\ UNCHANGED <<handlerTerm, xz, raw, part, dumps, pending>>

Compressed(j) ==
    /\ At(j, "wait")
    /\ xz[j] = "done"
    /\ Go(j, "publish")
    /\ UNCHANGED <<handlerTerm, xz, raw, part, dumps, pending>>

\* Variant: a failed compression removes its raw file too.
CompressionFailsRemovingRaw(j) ==
    /\ At(j, "wait")
    /\ xz[j] = "failed"
    /\ part' = [part EXCEPT ![j[2]] = NoJob]
    /\ raw' = [raw EXCEPT ![j[2]] = "none"]
    /\ Go(j, "failed")
    /\ UNCHANGED <<handlerTerm, xz, dumps, pending>>

CompressionFails(j) ==
    /\ At(j, "wait")
    /\ xz[j] = "failed"
    /\ part' = [part EXCEPT ![j[2]] = NoJob]
    /\ Go(j, "failed")
    /\ UNCHANGED <<handlerTerm, xz, raw, dumps, pending>>

\* What a .part file holds.
Content(i) ==
    IF xz[part[i]] = "done" /\ raw[i] = "closed" THEN "whole" ELSE "partial"

\* mv publishes whatever file has the name of the .part file.
PublishFile(j) ==
    /\ At(j, "publish")
    /\ IF part[j[2]] = NoJob
         THEN /\ Go(j, "failed")
              /\ UNCHANGED <<part, dumps>>
         ELSE /\ dumps' = [dumps EXCEPT ![j[2]] = Content(j[2])]
              /\ part' = [part EXCEPT ![j[2]] = NoJob]
              /\ Go(j, "remove")
    /\ UNCHANGED <<handlerTerm, xz, raw, pending>>

RemoveRaw(j) ==
    /\ At(j, "remove")
    /\ raw' = [raw EXCEPT ![j[2]] = "none"]
    /\ Go(j, "done")
    /\ UNCHANGED <<handlerTerm, xz, part, dumps, pending>>

(* sigterm_handle *)

\* The trap restores the default action first.  It waits for the compressor
\* if it knows its pid; that it also kills it needs no step of its own, as
\* the compressor may end with either status at any time.
Terminate(j) ==
    /\ j \in handlerTerm
    /\ handler[j] \in Running
    /\ Go(j, IF handler[j] = "wait" THEN "reap" ELSE "tidy")
    /\ handlerTerm' = handlerTerm \ {j}
    /\ UNCHANGED <<xz, raw, part, dumps, pending>>

\* A second SIGTERM ends the handler where it is.
Killed(j) ==
    /\ j \in handlerTerm
    /\ handler[j] \in {"reap", "tidy"}
    /\ Go(j, "failed")
    /\ handlerTerm' = handlerTerm \ {j}
    /\ UNCHANGED <<xz, raw, part, dumps, pending>>

Reap(j) ==
    /\ At(j, "reap")
    /\ xz[j] # "running"
    /\ Go(j, "tidy")
    /\ UNCHANGED <<handlerTerm, xz, raw, part, dumps, pending>>

Tidy(j) ==
    /\ At(j, "tidy")
    /\ part' = IF xz[j] = "none" THEN part ELSE [part EXCEPT ![j[2]] = NoJob]
    /\ Go(j, "failed")
    /\ UNCHANGED <<handlerTerm, xz, raw, dumps, pending>>

-----------------------------------------------------------------------------
HandlerStep(j) ==
    \/ Overflow(j)
    \/ Admit(j)
    \/ Launch(j)
    \/ StorePid(j)
    \/ Compressed(j)
    \/ CompressionFails(j)
    \/ PublishFile(j)
    \/ RemoveRaw(j)
    \/ Terminate(j)
    \/ Killed(j)
    \/ Reap(j)
    \/ Tidy(j)

HandlerAlive(j) == handler[j] \in Alive
JobAlive(j) == HandlerAlive(j) \/ xz[j] = "running"
==============================================================================
