--------------------------- MODULE DwarfResolver ---------------------------
(***************************************************************************)
(* libdwarf::dwarf_resolver (src/src/symbols/dwarf/dwarf_resolver.cpp):    *)
(* finds the compile unit (CU) of an address, its row in the CU's line     *)
(* table and the function.  Each is looked up in a table that is built on  *)
(* first use, or walked for, as the cache mode has it.  A frame is         *)
(* resolved at a time, under the lock of resolve_frames; the mode is an    *)
(* atomic that is read anew at each decision.                              *)
(*                                                                         *)
(* A CU is a record: the address ranges of its code, whether they are      *)
(* readable, whether .debug_aranges has them, whether its contents are     *)
(* "here", in a "split" file, in one that is "missing" or in one that is   *)
(* "unlocated" as its directory is not told, the rows of its line table    *)
(* and its functions.  Rows have an address, and an end mark behind the    *)
(* last of a sequence.  A function has ranges and the function its DIE is  *)
(* inside, 0 if it is in none.  The DIE of a class is one without ranges.  *)
(*                                                                         *)
(* libdwarf is external: it keeps its place among the CUs between walks,   *)
(* and starts over once it has reported the end.                           *)
(***************************************************************************)
EXTENDS Integers, Sequences, FiniteSets, SequencesExt, Filter

CONSTANTS
  Settings,     \* CUs, cache modes the program sets, limit on line tables
  Addresses,    \* that are resolved
  MaxFrames     \* bound on the frames resolved

Modes == {"speed", "hybrid", "memory"}
None == 0       \* no CU, row or function: they are numbered from 1

\* What is known of the debugging information of a program: ranges are not
\* empty, and none has an address of another's, of CUs or of functions.
AddressRange == {r \in Nat \X Nat : r[1] < r[2]}
CompileUnit ==
  [ranges : Seq(AddressRange), readable : BOOLEAN, arange : BOOLEAN,
   contents : {"here", "split", "missing", "unlocated"}, rows : Seq([addr : Nat, end : BOOLEAN]),
   functions : Seq([ranges : Seq(AddressRange), inside : Nat])]
Holds(ranges, a) == \E i \in DOMAIN ranges : ranges[i][1] <= a /\ a < ranges[i][2]
Apart(items) ==
  \A i, j \in DOMAIN items : \A p \in DOMAIN items[i].ranges, q \in DOMAIN items[j].ranges :
    \/ i = j /\ p = q
    \/ items[i].ranges[p][2] <= items[j].ranges[q][1]
    \/ items[j].ranges[q][2] <= items[i].ranges[p][1]
\* A row holds the addresses from its own to that of the next row, an end none.
RowsOf(rows, a) ==
  {i \in DOMAIN rows : ~rows[i].end /\ rows[i].addr <= a /\ a < rows[i + 1].addr}
\* Sequences of rows do not lie in each other, and hold the addresses of the CU.
RowsApart(rows) ==
  \A i, k \in DOMAIN rows :
    ~rows[i].end =>
      /\ i + 1 \in DOMAIN rows /\ rows[i].addr <= rows[i + 1].addr
      /\ ~(rows[i].addr < rows[k].addr /\ rows[k].addr < rows[i + 1].addr)
      /\ ~rows[k].end /\ i # k /\ rows[i].addr = rows[k].addr =>
           \E j \in {i, k} : rows[j + 1].addr = rows[j].addr
RowsCover(rows, ranges) ==
  rows # <<>> =>
    \A i \in DOMAIN ranges : \A a \in ranges[i][1] .. ranges[i][2] - 1 : RowsOf(rows, a) # {}

ASSUME DwarfAssumption ==
  /\ Addresses \subseteq Nat /\ MaxFrames \in Nat
  /\ \A s \in Settings :
       /\ s.modes \subseteq Modes /\ s.limit \in Nat \ {0}
       /\ s.cus \in Seq(CompileUnit) /\ Apart(s.cus)
       /\ \A c \in DOMAIN s.cus :
            /\ Apart(s.cus[c].functions)
            /\ RowsApart(s.cus[c].rows) /\ RowsCover(s.cus[c].rows, s.cus[c].ranges)

VARIABLES
  setting,
  mode,                 \* an option, atomic
  place,                \* libdwarf: the CUs a walk has passed, 0 at the start
  cu_cache,             \* range_map: entries of a CU and the start of a range
  generated_cu_cache,
  line_tables,          \* lru_cache: CU and whether entries were built, newest first
  subprograms_cache,    \* CUs whose functions are in a range_map
  split_full_cu_resolvers,
  pc, step, cu,         \* the frame in work and its CU
  frame,                \* row and function found
  threw,                \* whether resolving the frame ended in an exception
  frames,
  modes, failures       \* history: modes so far; attempts to build cu_cache that failed

caches == <<cu_cache, generated_cu_cache, line_tables, subprograms_cache, split_full_cu_resolvers>>
work == <<pc, step, cu, frame, threw>>
dwarf_vars == <<setting, mode, modes, place, caches, work, frames, failures>>

CUs == setting.cus
CU == CUs[cu]
MaxOr(S, default) == IF S = {} THEN default ELSE CHOOSE m \in S : \A n \in S : n <= m

-----------------------------------------------------------------------------
\* range_map.  get_rangelist_entries joins a range to the one before it if
\* there is at most one address between them.
Joins(vec, r) == vec # <<>> /\ r[1] - vec[Len(vec)][2] \in {0, 1}
rangelist_entries(ranges) ==
  LET vec[n \in 0 .. Len(ranges)] ==
        IF n = 0 THEN <<>>
        ELSE IF Joins(vec[n - 1], ranges[n])
        THEN [vec[n - 1] EXCEPT ![Len(vec[n - 1])] = <<@[1], ranges[n][2]>>]
        ELSE Append(vec[n - 1], ranges[n])
  IN vec[Len(ranges)]

entries(item, ranges) ==
  LET vec == rangelist_entries(ranges)
  IN [i \in DOMAIN vec |-> [item |-> item, low |-> vec[i][1]]]

\* The entry with the greatest start at or below the address; of entries with
\* the same start the unstable sort may put any last.
lookup(map, a) ==
  {e.item : e \in {e \in ToSet(map) :
     e.low <= a /\ ~\E f \in ToSet(map) : e.low < f.low /\ f.low <= a}}

-----------------------------------------------------------------------------
\* Line tables.  In speed mode the last row of each run of equal addresses
\* becomes an entry, and the entry with the greatest address at or below the
\* pc is taken.
line_entries(rows) ==
  {i \in DOMAIN rows : i = Len(rows) \/ rows[i + 1].addr # rows[i].addr}
lookup_line(rows, a) ==
  {i \in line_entries(rows) :
     /\ rows[i].addr <= a
     /\ ~\E k \in line_entries(rows) : rows[i].addr < rows[k].addr /\ rows[k].addr <= a}

\* In the other modes all rows are walked; the last row found wins.
walk_line(rows, a) ==
  LET walk[n \in 0 .. Len(rows)] ==
        IF n = 0 THEN [last |-> None, found |-> None]
        ELSE IF rows[n].addr = a
        THEN [walk[n - 1] EXCEPT !.found = MaxOr({j \in n .. Len(rows) : rows[j].addr = a}, n)]
        ELSE IF walk[n - 1].last # None /\ rows[walk[n - 1].last].addr < a /\ a < rows[n].addr
        THEN [walk[n - 1] EXCEPT !.found = walk[n - 1].last]
        ELSE [walk[n - 1] EXCEPT !.last = IF rows[n].end THEN None ELSE n]
  IN walk[Len(rows)].found

-----------------------------------------------------------------------------
null_frame == [row |-> None, symbol |-> None]

DwarfInit ==
  /\ setting \in Settings
  /\ mode \in setting.modes /\ modes = {mode}
  /\ place = 0
  /\ cu_cache = <<>> /\ generated_cu_cache = FALSE
  /\ line_tables = <<>>
  /\ subprograms_cache = {} /\ split_full_cu_resolvers = {}
  /\ pc = 0 /\ step = "idle" /\ cu = None
  /\ frame = null_frame
  /\ threw = FALSE
  /\ frames = 0 /\ failures = 0

set_cache_mode ==
  /\ mode' \in setting.modes
  /\ modes' = modes \cup {mode'}
  /\ UNCHANGED <<setting, place, caches, work, frames, failures>>

resolve_frame(a) ==
  /\ step = "idle" /\ frames < MaxFrames
  /\ frames' = frames + 1
  /\ pc' = a /\ step' = "cu"
  /\ UNCHANGED <<setting, mode, modes, place, caches, cu, frame, threw, failures>>

throw == step' = "done" /\ threw' = TRUE

\* The CU is known, or there is none.
found_cu(c) ==
  /\ cu' = c
  /\ step' = IF c = None THEN "done" ELSE IF CUs[c].contents = "here" THEN "table" ELSE "split"
  /\ UNCHANGED threw

\* lookup_cu, first path: .debug_aranges.
InAranges == {c \in DOMAIN CUs : CUs[c].arange /\ Holds(CUs[c].ranges, pc)}
lookup_aranges ==
  /\ step = "cu"
  /\ \E c \in InAranges : found_cu(c)
  /\ UNCHANGED <<setting, mode, modes, place, caches, pc, frame, frames, failures>>

\* walk_compilation_units: the CUs from libdwarf's place on, up to one that
\* makes the callback throw.
Unreadable == {c \in place + 1 .. Len(CUs) : ~CUs[c].readable}
stop == IF Unreadable = {} THEN Len(CUs) + 1
        ELSE CHOOSE c \in Unreadable : \A d \in Unreadable : c <= d
walk_from_start == place' = 0  \* walk_compilation_units with a bug: no place is kept
walk_compilation_units ==
  place' = IF Unreadable = {} THEN 0 ELSE stop

\* Second path, for memory: all are walked, and the last one with the address
\* is taken, as walk_die_list does not report that the callback stopped it.
walk_for_cu ==
  /\ step = "cu" /\ InAranges = {} /\ mode = "memory"
  /\ walk_compilation_units
  /\ IF Unreadable # {} THEN throw /\ UNCHANGED cu
     ELSE found_cu(MaxOr({c \in place + 1 .. Len(CUs) : Holds(CUs[c].ranges, pc)}, None))
  /\ UNCHANGED <<setting, mode, modes, caches, pc, frame, frames, failures>>

\* generated_cu_cache is set at the end of a walk; with a bug: of any attempt.
generated_by_any == TRUE
generated == generated_cu_cache \/ Unreadable = {}

\* Third path: lazy_generate_cu_cache and the lookup; entries of a failed
\* attempt stay, and the next goes on behind the CU that failed.
lookup_cached_cu ==
  /\ step = "cu" /\ InAranges = {} /\ mode # "memory"
  /\ IF generated_cu_cache
     THEN UNCHANGED <<place, cu_cache>>
     ELSE /\ walk_compilation_units
          /\ cu_cache' = cu_cache \o FlattenSeq([i \in 1 .. stop - place - 1 |->
                                       entries(place + i, CUs[place + i].ranges)])
  /\ generated_cu_cache' = generated
  /\ IF generated_cu_cache'
     THEN /\ UNCHANGED failures
          /\ LET hits == lookup(cu_cache', pc)
             IN \/ hits = {} /\ found_cu(None)
                \/ \E c \in hits : found_cu(IF Holds(CUs[c].ranges, pc) THEN c ELSE None)
     ELSE throw /\ UNCHANGED cu /\ failures' = failures + 1
  /\ UNCHANGED <<setting, mode, modes, line_tables, subprograms_cache, split_full_cu_resolvers,
                 pc, frame, frames>>

\* perform_dwarf_fission_resolution: a resolver for the split file, kept but
\* in memory mode.  Making one for a missing file throws, before it is kept; it
\* takes the ranges from the skeleton, so reading these may throw again.  Of a
\* file without a directory, or one that is not named, nothing is asked.
split ==
  /\ step = "split"
  /\ \/ /\ CU.contents = "unlocated"
        /\ step' = "done" /\ UNCHANGED <<threw, split_full_cu_resolvers>>
     \/ CU.contents = "missing" /\ throw /\ UNCHANGED split_full_cu_resolvers
     \/ /\ CU.contents = "split"
        /\ IF CU.readable THEN step' = "table" /\ UNCHANGED threw ELSE throw
        /\ split_full_cu_resolvers' =
             IF mode = "memory" THEN split_full_cu_resolvers
             ELSE split_full_cu_resolvers \cup {cu}
  /\ UNCHANGED <<setting, mode, modes, place, cu_cache, generated_cu_cache, line_tables,
                 subprograms_cache, pc, cu, frame, frames, failures>>

\* get_line_table; for a split CU that of its skeleton.  A table is kept in
\* the state it was made in, and none is made for a CU without rows.
recent(tables) ==
  IF Len(tables) < setting.limit THEN tables ELSE SubSeq(tables, 1, setting.limit - 1)
get_line_table ==
  /\ step = "table"
  /\ LET hits == {t \in ToSet(line_tables) : t.cu = cu}
         others == Filter(line_tables, {t \in ToSet(line_tables) : t.cu # cu})
         t == IF hits # {} THEN CHOOSE t \in hits : TRUE ELSE [cu |-> cu, built |-> mode = "speed"]
     IN IF CU.rows = <<>>
        THEN step' = "symbol" /\ UNCHANGED line_tables
        ELSE step' = "line" /\ line_tables' = <<t>> \o recent(others)
  /\ UNCHANGED <<setting, mode, modes, place, cu_cache, generated_cu_cache, subprograms_cache,
                 split_full_cu_resolvers, pc, cu, frame, threw, frames, failures>>

\* retrieve_line_info, with the table at the front of the cache.
Rows ==
  IF mode # "speed" THEN {walk_line(CU.rows, pc)}
  ELSE IF Head(line_tables).built /\ lookup_line(CU.rows, pc) # {} THEN lookup_line(CU.rows, pc)
  ELSE {None}
retrieve_line_info ==
  /\ step = "line"
  /\ \E row \in Rows : frame' = [frame EXCEPT !.row = row]
  /\ step' = "symbol"
  /\ UNCHANGED <<setting, mode, modes, place, caches, pc, cu, threw, frames, failures>>

\* retrieve_symbol_walk: from the DIE of the CU to those whose ranges hold the
\* pc; that of a split CU has none, its skeleton has them.
Functions == DOMAIN CU.functions
Holding == {f \in Functions : Holds(CU.functions[f].ranges, pc)}
retrieve_symbol_walk ==
  /\ step = "symbol" /\ mode = "memory"
  /\ IF CU.contents = "here" /\ ~CU.readable
     THEN throw /\ UNCHANGED frame
     ELSE /\ step' = "done" /\ UNCHANGED threw
          /\ LET outermost == {f \in Holding : CU.functions[f].inside = None}
             IN frame' = [frame EXCEPT !.symbol =
                            IF CU.contents = "split" \/ outermost = {} THEN None
                            ELSE CHOOSE f \in outermost : \A g \in outermost : f <= g]
  /\ UNCHANGED <<setting, mode, modes, place, caches, pc, cu, frames, failures>>

\* preprocess_subprograms, of all functions.
subprogram_map ==
  FlattenSeq([f \in Functions |-> entries(f, CU.functions[f].ranges)])

\* With a bug: a function found is not checked to hold the pc.
function_unchecked(f) == f
\* The map knows where a range starts; whether it holds the pc is checked.
function_checked(f) == IF f \in Holding THEN f ELSE None
\* retrieve_symbol with a map, kept for the CU as long as its resolver is.
retrieve_symbol ==
  /\ step = "symbol" /\ mode # "memory"
  /\ subprograms_cache' = IF CU.contents = "here" \/ cu \in split_full_cu_resolvers
                          THEN subprograms_cache \cup {cu} ELSE subprograms_cache
  /\ LET hits == lookup(subprogram_map, pc)
     IN \/ hits = {} /\ UNCHANGED frame
        \/ \E f \in hits : frame' = [frame EXCEPT !.symbol = function_checked(f)]
  /\ step' = "done"
  /\ UNCHANGED <<setting, mode, modes, place, cu_cache, generated_cu_cache, line_tables,
                 split_full_cu_resolvers, pc, cu, threw, frames, failures>>

return ==
  /\ step = "done"
  /\ step' = "idle"
  /\ pc' = 0 /\ cu' = None /\ frame' = null_frame /\ threw' = FALSE
  /\ UNCHANGED <<setting, mode, modes, place, caches, frames, failures>>

DwarfNext ==
  \/ set_cache_mode
  \/ \E a \in Addresses : resolve_frame(a)
  \/ lookup_aranges \/ walk_for_cu \/ lookup_cached_cu \/ split
  \/ get_line_table \/ retrieve_line_info
  \/ retrieve_symbol_walk \/ retrieve_symbol
  \/ return

DwarfSpec == DwarfInit /\ [][DwarfNext]_dwarf_vars

-----------------------------------------------------------------------------
\* What the debugging information says of an address: the CU, row and
\* function that hold it.
CUOf(a) == MaxOr({c \in DOMAIN CUs : Holds(CUs[c].ranges, a)}, None)
RowAt(rows, a) == MaxOr(RowsOf(rows, a), None)
FunctionAt(functions, a) == MaxOr({f \in DOMAIN functions : Holds(functions[f].ranges, a)}, None)

\* No range of an item lies in the gap that joining two ranges of another
\* closes.
Unjoined(items) ==
  \A i, j \in DOMAIN items : \A e \in ToSet(entries(j, items[j].ranges)) :
    i # j => \A r \in ToSet(rangelist_entries(items[i].ranges)) : ~(r[1] <= e.low /\ e.low < r[2])
\* Where a sequence of rows ends no other begins but one that follows it at once.
Ordered(rows) ==
  \A i, j \in DOMAIN rows :
    rows[i].end /\ ~rows[j].end /\ rows[i].addr = rows[j].addr =>
      i < j /\ \A l \in i .. j : rows[l].addr = rows[i].addr

Answered == step = "done" /\ ~threw /\ Cardinality(modes) = 1

\* Whatever the caches are filled with and whichever attempts to fill them
\* failed, the CU of an address is found: one whose ranges cannot be read is
\* the only one lost, except in memory mode, where no walk gets past it.
AllReadable == \A c \in DOMAIN CUs : CUs[c].readable
CUIsFound ==
  Answered /\ Unjoined(CUs) /\ (mode = "memory" => AllReadable) =>
    cu = IF CUOf(pc) # None /\ (CUs[CUOf(pc)].readable \/ CUs[CUOf(pc)].arange)
         THEN CUOf(pc) ELSE None

\* The three modes give the row that holds the address, whether the table was
\* cached, evicted or made anew; but a walk is sure to do so only inside a
\* row, as return addresses are.
Located == cu # None /\ CU.contents # "unlocated"
InsideRow(rows, a) == \A i \in DOMAIN rows : rows[i].addr # a
LineIsFound ==
  Answered /\ Located /\ Ordered(CU.rows) /\ (mode # "speed" => InsideRow(CU.rows, pc)) =>
    frame.row = RowAt(CU.rows, pc)

\* The function that holds the address is found, also one inside another
\* function; in memory mode those, and all of a split CU, are not.
SymbolIsFound ==
  LET f == FunctionAt(CU.functions, pc)
  IN Answered /\ Located /\ Unjoined(CU.functions)
       /\ (mode = "memory" => CU.contents = "here" /\ (f # None => CU.functions[f].inside = None))
     => frame.symbol = f

\* In one mode, whatever is cached and whatever failed before, an address that
\* the debugging information has is given its CU, its row and its function,
\* with the exceptions named above.
FrameIsFound == CUIsFound /\ LineIsFound /\ SymbolIsFound

\* Even if the mode is changed between any two decisions, and whatever fails,
\* no frame gets the CU or function of another address: it is given its own or
\* none.  So it is with the row of an address inside one, in a line table whose
\* sequences are in order.
NeverWrong ==
  step = "done" =>
    /\ cu \in {None, CUOf(pc)}
    /\ cu # None =>
         /\ Ordered(CU.rows) /\ InsideRow(CU.rows, pc) => frame.row \in {None, RowAt(CU.rows, pc)}
         /\ frame.symbol \in {None, FunctionAt(CU.functions, pc)}

\* An attempt to build the cache that fails costs one frame: the next goes on
\* behind the CU that failed, so there are no more failures than such CUs, and
\* what the failed attempts left is not added again.  No CU has two line tables,
\* nor are there more than the limit.
CacheBuiltOnce ==
  Cardinality(modes) = 1 =>
    /\ failures <= Cardinality({c \in DOMAIN CUs : ~CUs[c].readable})
    /\ \A i, j \in DOMAIN cu_cache : cu_cache[i] = cu_cache[j] => i = j
    /\ Len(line_tables) <= setting.limit
    /\ \A i, j \in DOMAIN line_tables : line_tables[i].cu = line_tables[j].cu => i = j
=============================================================================
