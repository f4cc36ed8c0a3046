---------------------------- MODULE MCJitObjects ----------------------------
(* Object files of a small JIT compiler: two that are used side by side, one *)
(* that takes the place of both in memory, one whose ranges cannot be read   *)
(* and one that is not an object file.                                       *)
EXTENDS JitObjects

File(start, low, high, functions) ==
  [start |-> start, low |-> low, high |-> high, functions |-> functions,
   opens |-> TRUE, readable |-> TRUE]
f1 == File(1, 4, 6, {[at |-> 0, size |-> 2]})
f2 == File(2, 1, 4, {[at |-> 0, size |-> 1], [at |-> 2, size |-> 1]})
f3 == File(1, 3, 5, {[at |-> 1, size |-> 1]})
f4 == [File(2, 6, 7, {[at |-> 0, size |-> 1]}) EXCEPT !.readable = FALSE]
f5 == [File(3, 6, 7, {[at |-> 0, size |-> 1]}) EXCEPT !.opens = FALSE]
AllFiles == {f1, f2, f3, f4, f5}
OneFile == {f1}
=============================================================================
