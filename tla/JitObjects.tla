----------------------------- MODULE JitObjects -----------------------------
(***************************************************************************)
(* In-memory object files of JIT compiled code: jit_object_manager         *)
(* (src/src/jit/jit_objects.cpp), a vector of opened objects and a list of *)
(* address ranges sorted by their low end, and its use by libdwarf's       *)
(* try_resolve_jit_frame.  A JIT compiler registers and unregisters        *)
(* objects, a resolver looks addresses up.  There is no lock anywhere: the *)
(* two may be one thread, or two (Concurrent).                             *)
(*                                                                         *)
(* A file is what the JIT compiler passes: the address it starts at, which *)
(* names it, the range its code has at run time and the functions in it,   *)
(* by their offset in the section, as the symbol table has them.  Its code *)
(* is in one section, so it has one range.  It may fail to open, or its    *)
(* ranges to be read.                                                      *)
(***************************************************************************)
EXTENDS Integers, Sequences, FiniteSets, SequencesExt, Filter

CONSTANTS
  Files,
  Pcs,            \* addresses looked up
  None,
  Concurrent,
  MaxObjects      \* bound on the objects registered

ASSUME JitAssumption ==
  /\ Files \subseteq [start : Nat, low : Nat, high : Nat, functions : SUBSET [at : Nat, size : Nat],
                      opens : BOOLEAN, readable : BOOLEAN]
  /\ Pcs \subseteq Nat /\ None \notin Nat /\ None \notin [start : Nat, at : Nat]
  /\ Concurrent \in BOOLEAN /\ MaxObjects \in Nat

VARIABLES
  opened,       \* history: opened[n] is the file object n was made of
  objects,      \* the vector of objects, each with the start it is known by
  range_list,
  code,         \* history: the files registered, as the JIT compiler sees it
  updating,     \* what the JIT compiler's call is at, "idle" between calls
  arg,          \* the file or start that call works on
  todo,         \* files still to register from the GDB interface
  reading,      \* what the resolver is at: "idle", "found" or "answered"
  pc,           \* the address it looks up
  found,        \* the object and base the lookup returned
  answer        \* the function it was told, None if none

manager == <<opened, objects, range_list>>
updater == <<code, updating, arg, todo>>
reader == <<reading, pc, found, answer>>
vars == <<manager, updater, reader>>

Live == {objects[i].object : i \in DOMAIN objects}

\* std::upper_bound on a sorted list: the first entry above x.
upper_bound(list, x) == 1 + Cardinality({i \in DOMAIN list : list[i].low <= x})

-----------------------------------------------------------------------------
Init ==
  /\ opened = <<>> /\ objects = <<>> /\ range_list = <<>>
  /\ code = {}
  /\ updating = "idle" /\ arg = None /\ todo = <<>>
  /\ reading = "idle" /\ pc = None /\ found = None /\ answer = None

\* The caller's side: one thread does one thing at a time.
UpdaterMayRun == Concurrent \/ reading = "idle"
ReaderMayRun == Concurrent \/ (updating = "idle" /\ todo = <<>>)

\* Code in use at the same time has its own place, and so have object files.
Fits(f, files) ==
  \A g \in files : f.start # g.start /\ (f.high <= g.low \/ g.high <= f.low)

\* add_jit_object up to the ranges: a file that does not open is not added.
add_jit_object(f) ==
  /\ UpdaterMayRun /\ updating = "idle"
  /\ Len(opened) < MaxObjects
  /\ code' = code \cup {f}
  /\ IF f.opens
     THEN /\ opened' = Append(opened, f)
          /\ objects' = Append(objects, [start |-> f.start, object |-> Len(opened')])
          /\ updating' = IF f.readable THEN "add" ELSE "idle"
          /\ arg' = IF f.readable THEN f ELSE None
     ELSE UNCHANGED <<opened, objects, updating, arg>>
  /\ UNCHANGED <<range_list, reader>>

\* add_range with a bug: push_back instead of an ordered insertion.
add_range_last ==
  /\ UpdaterMayRun /\ updating = "add"
  /\ range_list' = Append(range_list,
       [low |-> arg.low, high |-> arg.high, start |-> arg.start, object |-> Len(opened)])
  /\ updating' = "idle" /\ arg' = None
  /\ UNCHANGED <<opened, objects, code, todo, reader>>

\* Its range enters the list behind those that start lower or at the same place.
add_range ==
  /\ UpdaterMayRun /\ updating = "add"
  /\ range_list' = InsertAt(range_list, upper_bound(range_list, arg.low),
       [low |-> arg.low, high |-> arg.high, start |-> arg.start, object |-> Len(opened)])
  /\ updating' = "idle" /\ arg' = None
  /\ UNCHANGED <<opened, objects, code, todo, reader>>

register_jit_object ==
  /\ todo = <<>>
  /\ \E f \in Files : Fits(f, code) /\ add_jit_object(f)
  /\ UNCHANGED todo

\* remove_jit_object: objects first, then ranges, all those of that start.
unregister_jit_object(start) ==
  /\ UpdaterMayRun /\ updating = "idle" /\ todo = <<>>
  /\ objects' = Filter(objects, {o \in ToSet(objects) : o.start # start})
  /\ code' = {f \in code : f.start # start}
  /\ updating' = "remove" /\ arg' = start
  /\ UNCHANGED <<opened, range_list, todo, reader>>

\* remove_ranges with a bug: the ranges stay.
remove_no_ranges ==
  /\ UpdaterMayRun /\ updating = "remove"
  /\ updating' = "idle" /\ arg' = None
  /\ UNCHANGED <<manager, code, todo, reader>>

remove_ranges ==
  /\ UpdaterMayRun /\ updating = "remove"
  /\ range_list' = Filter(range_list, {r \in ToSet(range_list) : r.start # arg})
  /\ updating' = "idle" /\ arg' = None
  /\ UNCHANGED <<opened, objects, code, todo, reader>>

clear_all_jit_objects(list) ==
  /\ UpdaterMayRun /\ updating = "idle" /\ todo = <<>>
  /\ objects' = <<>>
  /\ code' = {}
  /\ updating' = "clear"
  /\ todo' = list
  /\ UNCHANGED <<opened, range_list, arg, reader>>

clear_ranges ==
  /\ UpdaterMayRun /\ updating = "clear"
  /\ range_list' = <<>>
  /\ updating' = "idle"
  /\ UNCHANGED <<opened, objects, code, arg, todo, reader>>

\* register_jit_objects_from_gdb_jit_interface clears everything and registers
\* the JIT compiler's own list, one file after the other.
Lists == {s \in {<<>>} \cup {<<f>> : f \in Files} \cup (Files \X Files) :
            Len(s) = 2 => Fits(s[1], {s[2]})}
register_jit_objects_from_gdb_jit_interface ==
  \E list \in Lists : list # <<>> /\ clear_all_jit_objects(list)
register_next ==
  /\ todo # <<>>
  /\ add_jit_object(Head(todo))
  /\ todo' = Tail(todo)

-----------------------------------------------------------------------------
\* lookup: the last range that starts at p or below, if p is in it.
lookup(p) ==
  /\ ReaderMayRun /\ reading = "idle"
  /\ pc' = p /\ answer' = None
  /\ LET i == upper_bound(range_list, p) - 1
     IN IF i > 0 /\ p < range_list[i].high
        THEN /\ reading' = "found"
             /\ found' = [object |-> range_list[i].object, base |-> range_list[i].low]
        ELSE reading' = "answered" /\ found' = None
  /\ UNCHANGED <<manager, updater>>

\* elf::lookup_symbol: the last function that starts at x or below, if x is in
\* it or right behind it.
lookup_symbol(f, x) ==
  LET below == {function \in f.functions : function.at <= x}
  IN {function \in below :
        /\ \A other \in below : other.at <= function.at
        /\ x <= function.at + function.size}

\* try_resolve_jit_frame goes on with the object found.
resolve_symbol ==
  /\ reading = "found"
  /\ LET f == opened[found.object]
         functions == lookup_symbol(f, pc - found.base)
     IN answer' \in IF functions = {} THEN {None}
                    ELSE {[start |-> f.start, at |-> function.at] : function \in functions}
  /\ reading' = "answered" /\ found' = None
  /\ UNCHANGED <<manager, updater, pc>>

return ==
  /\ reading = "answered"
  /\ reading' = "idle" /\ pc' = None /\ answer' = None
  /\ UNCHANGED <<manager, updater, found>>

Next ==
  \/ register_jit_object \/ add_range \/ remove_ranges
  \/ \E start \in {f.start : f \in Files} : unregister_jit_object(start)
  \/ clear_all_jit_objects(<<>>) \/ clear_ranges
  \/ register_jit_objects_from_gdb_jit_interface \/ register_next
  \/ \E p \in Pcs : lookup(p)
  \/ resolve_symbol \/ return

Spec == Init /\ [][Next]_vars

-----------------------------------------------------------------------------
\* The two vectors tell of the same objects: whenever no call is under way,
\* every range belongs to an object that is there, under the start it is
\* unregistered by, and the binary searches find the list in order.
RangesHaveObjects ==
  /\ \A i, j \in DOMAIN range_list : i < j => range_list[i].low <= range_list[j].low
  /\ updating = "idle" =>
       \A i \in DOMAIN range_list :
         [start |-> range_list[i].start, object |-> range_list[i].object] \in ToSet(objects)

\* The object a lookup returned a reference to is there when it is used, whatever
\* other threads register and unregister in between, as src/README.md has it for
\* all functions: "All functions are thread-safe unless otherwise noted."  The code
\* has no lock.  In one thread nothing comes in between.
FoundObjectIsLive == reading = "found" => found.object \in Live

\* Whatever was registered, removed and registered again at the same place, an
\* address in a function of a registered file that could be read is resolved to
\* that function; another address to none, or to the function it is right behind.
Holds(f, function, p) == f.low + function.at <= p /\ p < f.low + function.at + function.size
SymbolIsRight ==
  (reading = "answered" /\ ReaderMayRun) =>
    LET usable == {f \in code : f.opens /\ f.readable /\ f.low <= pc /\ pc < f.high}
    IN IF answer = None
       THEN \A f \in usable : \A function \in f.functions : ~Holds(f, function, pc)
       ELSE \E f \in usable : \E function \in f.functions :
              /\ answer = [start |-> f.start, at |-> function.at]
              /\ \/ Holds(f, function, pc)
                 \/ /\ pc = f.low + function.at + function.size
                    /\ \A other \in f.functions : ~Holds(f, other, pc)
=============================================================================
