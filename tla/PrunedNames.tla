----------------------------- MODULE PrunedNames -----------------------------
(* What cpptrace::prune_symbol, which the formatter prints symbols with, makes   *)
(* of the symbols it is given: Pruned is prune_symbol of PruneSymbol.            *)
EXTENDS Formatter, PruneSymbol

\* The identifiers of a symbol, those of the symbols it quotes included.
RECURSIVE Identifiers(_)
Identifiers(symbol) ==
  IF symbol = <<>> THEN <<>>
  ELSE LET t == Head(symbol) IN
       (IF t \in DOMAIN Inner THEN Identifiers(Inner[t])
        ELSE IF IsIdentifier(t) THEN <<t>>
        ELSE IF t \in DOMAIN LlvmLambda THEN <<LlvmLambda[t]>> ELSE <<>>)
       \o Identifiers(Tail(symbol))
RECURSIVE IsSubsequence(_, _)
IsSubsequence(s, t) ==
  \/ s = <<>>
  \/ /\ t # <<>>
     /\ IsSubsequence(IF Head(s) = Head(t) THEN Tail(s) ELSE s, Tail(t))

\* prune_symbol gives the qualified name of a function: without return type,
\* template arguments, function arguments and qualifiers, for the spellings of gcc,
\* llvm and msvc, with lambdas and unnamed things in one spelling.
PruneGivesTheName ==
  (last.op = "prune" /\ last.function # <<>>) => last.name = last.function

\* Whatever it is given, prune_symbol returns a name made of identifiers of the
\* symbol in their order, and pruning that name again changes nothing.
PruneInventsNothing ==
  last.op = "prune" =>
    /\ last.name # <<>> \/ last.symbol = <<>>
    /\ IsSubsequence(Identifiers(last.name), Identifiers(last.symbol))
    /\ Open \notin {last.name[i] : i \in DOMAIN last.name} => Pruned(last.name) = last.name

\* Both, for symbols of every kind.
PrunedNameIsRight == PruneGivesTheName /\ PruneInventsNothing
==============================================================================
