-------------------------- MODULE MCExceptionTrace --------------------------
(* Two exceptions of two types, and clauses for one of the types and for     *)
(* both, so that a block may let an exception pass to an outer one.          *)
EXTENDS ExceptionTrace

CONSTANTS e1, e2
Types == [e \in {e1, e2} |-> IF e = e1 THEN "runtime" ELSE "logic"]
CatchClauses == {{"runtime"}, {"runtime", "logic"}}
CatchAll == {{"runtime", "logic"}}
=============================================================================
