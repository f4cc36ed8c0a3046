------------------------------- MODULE Snippet -------------------------------
(* Source lines around the line of a frame.  A file is read once, the first     *)
(* time a snippet of it is asked for, and kept for ever in a map under a lock;  *)
(* a file that is missing or too large is kept as such.  The window around the  *)
(* target line is computed in std::size_t, and trimmed of blank lines.          *)
EXTENDS Integers, Sequences, FiniteSetsExt

CONSTANTS
  Sources,        \* path -> what can be read there: a sequence of lines or Unreadable
  Unreadable,     \* no such file, or one larger than 10 MiB
  Blank,          \* an empty line
  SizeModulus     \* the number of values of a std::size_t

ASSUME SizeAssumption == SizeModulus \in Nat \ {0}

VARIABLE
  managers        \* path -> snippet_manager, for the paths asked for so far

Size(n) == n % SizeModulus

\* What a snippet_manager holds; lines are numbered from 1.
Manager(path) ==
  IF Sources[path] = Unreadable THEN [ok |-> FALSE, lines |-> <<>>]
  ELSE [ok |-> TRUE, lines |-> Sources[path]]

get_manager(path) == IF path \in DOMAIN managers THEN managers[path] ELSE Manager(path)

NoSnippet == [kind |-> "none"]
\* An element of the vector of lines past its end is read.
OutOfRange == [kind |-> "undefined"]

\* One line late.
window_begin_late(target, context) ==
  IF target <= Size(context + 1) THEN 1 ELSE Size(target - context + 1)

window_begin(target, context) ==
  IF target <= Size(context + 1) THEN 1 ELSE Size(target - context)

\* get_lines and get_snippet: the lines from first to last.
get_snippet(manager, target, context) ==
  LET begin == window_begin(target, context)
      end == Min({Size(target + context), Len(manager.lines)})
      empty(line) == manager.lines[line] = Blank
      \* Where the first loop stops: at the target, at a line that is not blank,
      \* or where there is no line to look at.
      start == IF begin >= target THEN begin
               ELSE Min({target} \union {l \in begin..target : l > end \/ ~empty(l)})
      last == IF end <= target THEN end
              ELSE Max({target} \union {l \in target..end : l >= begin /\ ~empty(l)})
  IN  IF ~manager.ok THEN NoSnippet
      ELSE IF start < target /\ start > end THEN OutOfRange
      ELSE [kind |-> "lines", first |-> start, last |-> last,
            text |-> [l \in start..last |-> manager.lines[l]]]
=============================================================================
