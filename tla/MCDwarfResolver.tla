-------------------------- MODULE MCDwarfResolver --------------------------
(* Two CUs whose code interleaves, the first with a gap of one address or of *)
(* two, in which the second lies.  The cache of line tables is an lru_cache, *)
(* which is looked at by itself: with three keys and limits of one and two   *)
(* an insertion evicts, and shrinking the limit evicts several at once.      *)
EXTENDS LruCache, DwarfResolver

Row(a) == [addr |-> a, end |-> FALSE]
End(a) == [addr |-> a, end |-> TRUE]
\* Line tables for two ranges: one row per sequence; two, with two rows for
\* one address; the sequences in reverse.
Tables(r, s) ==
  {<<Row(r[1]), End(r[2]), Row(s[1]), End(s[2])>>,
   <<Row(r[1]), Row(r[1]), Row(r[1] + 2), End(r[2]), Row(s[1]), Row(s[1] + 2), End(s[2])>>,
   <<Row(s[1]), Row(s[1] + 2), End(s[2]), Row(r[1]), Row(r[1] + 2), End(r[2])>>}
Function(ranges, inside) == [ranges |-> ranges, inside |-> inside]
\* Functions: one in two parts; two; one inside the other; one in two parts with
\* another in between; and two, of which the second is in a class.
FunctionsOf(r, s) ==
  {<<Function(<<r, s>>, None)>>,
   <<Function(<<r>>, None), Function(<<s>>, None)>>,
   <<Function(<<r>>, None), Function(<<s>>, 1)>>,
   <<Function(<< <<r[1], r[1] + 1>>, <<r[1] + 2, r[2]>> >>, None),
     Function(<< <<r[1] + 1, r[1] + 2>>, s>>, None)>>,
   <<Function(<<r>>, None), Function(<<>>, None), Function(<<s>>, 2)>>}

Unit(ranges, readable, arange, contents, rows, functions) ==
  [ranges |-> ranges, readable |-> readable, arange |-> arange, contents |-> contents,
   rows |-> rows, functions |-> functions]

r == <<0, 4>>
s(gap) == <<4 + gap, 8 + gap>>
b(gap) == <<4, 4 + gap>>
Second(gap, readable, arange) ==
  Unit(<<b(gap)>>, readable, arange, "here",
       <<Row(4), End(4 + gap)>>, <<Function(<<b(gap)>>, None)>>)
\* Its sequences touch, and the upper one stands first.
Backwards ==
  Unit(<<b(2)>>, TRUE, FALSE, "here", <<Row(5), End(6), Row(4), End(5)>>,
       <<Function(<< <<4, 5>> >>, None), Function(<< <<5, 6>> >>, None)>>)
First(gap, readable, arange, contents, rows, functions) ==
  Unit(<<r, s(gap)>>, readable, arange, contents, rows, functions)
Plain(gap, readable, arange) ==
  First(gap, readable, arange, "here", <<Row(0), End(4), Row(s(gap)[1]), End(s(gap)[2])>>,
        <<Function(<<r, s(gap)>>, None)>>)

OneMode == {{m} : m \in Modes}
Setting(cus, modeset, limit) == [cus |-> cus, modes |-> modeset, limit |-> limit]
\* What lines, functions and contents may be, for each mode and, of contents
\* that are there, for all.
Contents ==
  {c \in {Setting(<<First(2, TRUE, FALSE, contents, rows, functions), Backwards>>, ms, 1) :
             contents \in {"here", "split", "missing", "unlocated"}, ms \in OneMode \cup {Modes},
             rows \in Tables(r, s(2)) \cup {<<>>}, functions \in FunctionsOf(r, s(2))} :
     c.modes = Modes => c.cus[1].contents = "here"}
\* What indexes there are and what fails, in either order of the CUs.
Indexes ==
  {LET one == Plain(gap, read[1], index[1])
       two == Second(gap, read[2], index[2])
   IN Setting(IF swap THEN <<two, one>> ELSE <<one, two>>, ms, 2) :
     gap \in {1, 2}, swap \in BOOLEAN, ms \in OneMode \cup {Modes},
     read \in BOOLEAN \X BOOLEAN, index \in BOOLEAN \X BOOLEAN}
Cases == Contents \cup Indexes

VARIABLE part
part_vars == <<part, vars, dwarf_vars>>

PartInit ==
  /\ part \in {"cache", "resolver"}
  /\ Init /\ (part = "resolver" => max_size = Unbounded)
  /\ DwarfInit /\ (part = "cache" => setting = CHOOSE first \in Cases : TRUE)
PartNext ==
  \/ part = "cache" /\ Next /\ UNCHANGED <<part, dwarf_vars>>
  \/ part = "resolver" /\ DwarfNext /\ UNCHANGED <<part, vars>>
PartSpec == PartInit /\ [][PartNext]_part_vars
=============================================================================
