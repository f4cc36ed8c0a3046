---------------------------- MODULE MCElfObject ----------------------------
(* Two threads.  Raw traces with a shared elf, for every file with at most   *)
(* two unreadable parts, the program headers not among them; and all uses    *)
(* with separate elves, for files with at most one.                          *)
EXTENDS ElfObject, FiniteSets

CONSTANTS t1, t2

Files ==
  {f \in [corrupt : {s \in SUBSET (Parts \cup {"magic", "program headers"}) : Cardinality(s) <= 2},
          tables : SUBSET Tables, holds : SUBSET Tables] : f.holds \subseteq f.tables}
Safe ==
  [file : {f \in Files : "program headers" \notin f.corrupt}, shared : {TRUE}, uses : {{"trace"}}]
    \cup [file : {f \in Files : Cardinality(f.corrupt) <= 1 /\ f.tables = Tables},
          shared : {FALSE}, uses : {{"trace", "objects"}}]
=============================================================================
