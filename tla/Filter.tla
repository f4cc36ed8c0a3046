------------------------------- MODULE Filter -------------------------------
(***************************************************************************)
(* The members of a sequence that are in a set, in their order: what       *)
(* std::remove_if keeps, and what a loop with a condition around a         *)
(* push_back collects.  It is SelectSeq with a set for the test, written   *)
(* as a function so that facts about it can be proved (SequenceLemmas).    *)
(***************************************************************************)
EXTENDS Integers, Sequences

Filter(s, S) ==
  LET kept[n \in 0 .. Len(s)] ==
        IF n = 0 THEN <<>>
        ELSE IF s[n] \in S THEN Append(kept[n - 1], s[n]) ELSE kept[n - 1]
  IN kept[Len(s)]
=============================================================================
