------------------------------ MODULE DumpStore ------------------------------
(***************************************************************************)
(* What the capture scripts promise about the directory dumps, however a   *)
(* capture ends: files are only ever added to it, each index below         *)
(* MAX_DUMP_FILES at most once, and every file is a completely compressed  *)
(* one from the moment it appears.                                         *)
(***************************************************************************)
EXTENDS Integers

CONSTANT MaxDumpFiles  \* MAX_DUMP_FILES

VARIABLE published  \* the files in dumps: pairs of an index and a content

Init == published = {}

Publish(i) ==
    /\ \A content \in {"whole", "partial"} : <<i, content>> \notin published
    /\ published' = published \cup {<<i, "whole">>}

Next == \E i \in 0..(MaxDumpFiles - 1) : Publish(i)

Spec == Init /\ [][Next]_published
==============================================================================
