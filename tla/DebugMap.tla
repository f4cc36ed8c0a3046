------------------------------ MODULE DebugMap ------------------------------
(***************************************************************************)
(* Frames of a Mach-O program without dSYM, as the libdwarf back-end       *)
(* resolves them: debug_map_resolver                                       *)
(* (src/src/symbols/dwarf/debug_map_resolver.cpp) finds the function in    *)
(* the program's debug map, the same function in the object file it came   *)
(* from, and has that file's own dwarf_resolver resolve the address there; *)
(* the driver (symbols_with_libdwarf.cpp) falls back to the program's      *)
(* symbol table.  The object files are those of the last build, which may  *)
(* be missing or still be written.                                         *)
(*                                                                         *)
(* The cache mode is an atomic that other threads set, and bases are       *)
(* looked up by other threads too; all else happens under the lock of      *)
(* resolve_frames.  dwarf_resolver is external here: it answers from a     *)
(* whole object file, and for another it cannot be made, or is made and    *)
(* knows nothing.                                                          *)
(***************************************************************************)
EXTENDS MachO

CONSTANTS
  Binary,       \* path of the program
  Functions,    \* the program's functions: where they are in it and in their objects
  Base,         \* the address its text is linked for
  Pcs,          \* addresses that are resolved
  Incomplete    \* the choices of files that are not whole at first, with what is there

Objects == DOMAIN Files \ {Binary}

WholeFile == 1000    \* past the end of every file

ASSUME DebugMapAssumption ==
  /\ Binary \in DOMAIN Files /\ Base \in Nat /\ Pcs \subseteq Nat
  /\ Functions \subseteq [name : STRING, object : Objects, address : Nat, size : Nat, at : Nat]
  /\ \A path \in DOMAIN Files : DOMAIN Files[path] \subseteq 0 .. (WholeFile - 1)
  /\ \A cut \in Incomplete : \A path \in DOMAIN cut : cut[path] \in Nat
  /\ {Nothing, Error} \cap Nat = {} /\ Nothing \notin [object : Objects, address : Nat]

\* The text of the program begins where its first segment of that name does.
ASSUME TextAssumption ==
  LET commands == Images[Binary].commands
      segment(k) == Files[Binary][commands[k].offset]
  IN \E k \in DOMAIN commands :
       /\ commands[k].cmd = "segment" /\ segment(k).name = "__TEXT" /\ segment(k).vmaddr = Base
       /\ \A j \in 1 .. (k - 1) : commands[j].cmd = "segment" => segment(j).name # "__TEXT"

\* The linker lists each object with its functions, a function in two entries.
entry_of(f) == [object |-> f.object, name |-> f.name, address |-> f.address, size |-> f.size]
LinkersMap == {entry_of(f) : f \in Functions}
ASSUME LinkerAssumption ==
  LET entries == Images[Binary].entries
      opens(o) == entries[o].type = "N_OSO"
      starts(i) == entries[i].type = "N_FUN" /\ entries[i].name # ""
      ends(i) == entries[i].type = "N_FUN" /\ entries[i].name = ""
      listed == {p \in (DOMAIN entries) \X (DOMAIN entries) :
                   /\ p[1] < p[2] /\ opens(p[1]) /\ starts(p[2])
                   /\ \A o \in p[1] + 1 .. p[2] : ~opens(o)}
  IN /\ \A i \in DOMAIN entries : starts(i) => i + 1 \in DOMAIN entries /\ ends(i + 1)
     /\ \A j \in DOMAIN entries : ends(j) => j > 1 /\ starts(j - 1) /\ \E o \in 1 .. j : opens(o)
     /\ LinkersMap \notin {Nothing, Error}
     /\ LinkersMap = {[object |-> entries[p[1]].name, name |-> entries[p[2]].name,
                       address |-> entries[p[2]].value, size |-> entries[p[2] + 1].value] : p \in listed}

\* Functions are at the same places of the program or apart, and so are those of
\* an object in it.  The symbol tables have them, an object's under one name each.
ASSUME FunctionsAssumption ==
  /\ \A f, g \in Functions :
       /\ f.address = g.address => f.size = g.size
       /\ f.address < g.address => f.address + f.size <= g.address
       /\ f.object = g.object => /\ f.at = g.at => f.address = g.address
                                 /\ f.at < g.at => f.at + f.size <= g.at
  /\ \A f \in Functions :
       /\ \E s \in TableOf(Binary) : s.address = f.address
       /\ \A s \in TableOf(Binary) :
            f.address <= s.address /\ s.address < f.address + f.size =>
              \E g \in Functions : g.address = f.address /\ g.address = s.address /\ g.name = s.name
       /\ \E s \in TableOf(f.object) : s.name = f.name
       /\ \A s \in TableOf(f.object) : s.name = f.name => s.address = f.at

VARIABLES
  missing,      \* history: the files that were not whole at first
  mode,
  cache,        \* open_mach_o_cached: objects and failures by path
  object,       \* the driver's: the program, owned or in the cache
  bases,        \* get_module_image_base: addresses by path
  base,         \* what it last returned
  resolver,     \* the program's, with the targets it has
  kept,         \* whether it is in resolver_map
  phase, frame_pc,  \* what the frame in work is at
  symbol,       \* the function found for it, in the debug map
  asked,        \* the object and address its dwarf_resolver was asked for
  frame         \* the name found and the address reported

machines == <<cache, object, bases, base>>
work == <<phase, frame_pc, symbol, asked, frame>>
debug_map_vars == <<readable, missing, mode, machines, resolver, kept, work>>

Whole(path) == readable[path] = WholeFile

-----------------------------------------------------------------------------
\* open_mach_o_cached, and the cache after what was done with the object.
opened(path) ==
  IF mode # "memory" /\ path \in DOMAIN cache THEN cache[path] ELSE open(path)
put(map, key, value) == [k \in DOMAIN map \cup {key} |-> IF k = key THEN value ELSE map[k]]
stored(path, m) == IF mode = "memory" THEN cache ELSE put(cache, path, m)

NoResolver == [kind |-> "none"]

DebugMapInit ==
  \E cut \in Incomplete :
    /\ readable = [path \in DOMAIN Files |-> IF path \in DOMAIN cut THEN cut[path] ELSE WholeFile]
    /\ missing = DOMAIN cut
    /\ mode \in {"memory", "speed"}
    /\ cache = <<>> /\ object = Nothing
    /\ bases = <<>> /\ base = Nothing
    /\ resolver = NoResolver /\ kept = FALSE
    /\ phase = "idle" /\ frame_pc = 0 /\ symbol = Nothing /\ asked = Nothing /\ frame = Nothing

\* The build goes on, and another thread sets the mode.
complete ==
  /\ \E path \in missing : readable' = [readable EXCEPT ![path] = WholeFile]
  /\ UNCHANGED <<missing, mode, machines, resolver, kept, work>>
set_cache_mode ==
  /\ mode' \in {"memory", "speed"}
  /\ UNCHANGED <<readable, missing, machines, resolver, kept, work>>

\* Another thread, under a lock of its own, looks the base of the module up at any
\* time.  It is remembered, a failure is not, but for that of the object in the
\* cache.
get_module_image_base ==
  /\ IF Binary \in DOMAIN bases
     THEN base' = bases[Binary] /\ UNCHANGED <<cache, bases>>
     ELSE \E m \in {opened(Binary)} :
            /\ cache' = stored(Binary, m)
            /\ base' = IF m = Error THEN Error ELSE get_text_vmaddr(m)
            /\ bases' = IF base' = Error THEN bases ELSE put(bases, Binary, base')
  /\ UNCHANGED <<readable, missing, mode, object, resolver, kept, work>>

-----------------------------------------------------------------------------
\* resolve_frames opens the program for its symbol table first.
open_object ==
  /\ phase = "idle"
  /\ \E m \in {opened(Binary)} :
       object' = (IF mode = "memory" THEN m ELSE Nothing) /\ cache' = stored(Binary, m)
  /\ phase' = "opened"
  /\ base' = Nothing /\ frame' = Nothing /\ asked' = Nothing /\ symbol' = Nothing
  /\ UNCHANGED <<readable, missing, mode, bases, resolver, kept, frame_pc>>

the_object == IF object = Nothing THEN cache[Binary] ELSE object

NotOpened == [object |-> Error, result |-> Error]
debug_map_of(m) == IF m = Error THEN NotOpened ELSE get_debug_map(m)
symbol_table_of(m) == IF m = Error THEN NotOpened ELSE symbol_table(m)

new_target == [symbols |-> Nothing, resolver |-> "none", made |-> 0]

\* debug_map_resolver's constructor: without a debug map it has no symbols.  In
\* the mode of speed, which is looked at again, it is kept, otherwise it is made
\* for this trace.
get_resolver ==
  /\ phase = "opened"
  /\ IF kept THEN UNCHANGED <<cache, resolver, kept>>
     ELSE \E r \in {debug_map_of(opened(Binary))} :
            /\ cache' = stored(Binary, r.object)
            /\ resolver' = [symbols |-> IF r.result = Error THEN {} ELSE r.result,
                            targets |-> [o \in Objects |-> new_target]]
            /\ kept' \in BOOLEAN
  /\ phase' = "ready"
  /\ UNCHANGED <<readable, missing, mode, object, bases, base, frame_pc, symbol, asked, frame>>

blank(a) == [name |-> "", address |-> a]

\* resolve_frame with a bug: where the closest function ends does not count.
resolve_frame_anywhere(a) ==
  /\ phase = "ready" /\ frame_pc' = a
  /\ LET found == closest(resolver.symbols, a)
     IN IF found = {} THEN phase' = "resolved" /\ frame' = blank(a) /\ UNCHANGED symbol
        ELSE symbol' \in found /\ phase' = "symbols" /\ UNCHANGED frame
  /\ UNCHANGED <<readable, missing, mode, machines, resolver, kept, asked>>

\* The closest symbol, if the address is in it or right behind it.
resolve_frame(a) ==
  /\ phase = "ready" /\ frame_pc' = a
  /\ LET found == closest(resolver.symbols, a)
     IN \/ /\ \E s \in found : a <= s.address + s.size /\ symbol' = s
           /\ phase' = "symbols"
           /\ UNCHANGED frame
        \/ /\ found = {} \/ \E s \in found : a > s.address + s.size
           /\ phase' = "resolved" /\ frame' = blank(a)
           /\ UNCHANGED symbol
  /\ UNCHANGED <<readable, missing, mode, machines, resolver, kept, asked>>

target == resolver.targets[symbol.object]

\* Of symbols with one name the last in the table counts.
by_name(table) ==
  [name \in {s.name : s \in table} |->
     LET addresses == {s.address : s \in {t \in table : t.name = name}}
     IN CHOOSE a \in addresses : \A b \in addresses : b <= a]

\* target_object::get_symbols: empty at first, so that a failure is kept.
get_symbols ==
  /\ phase = "symbols"
  /\ IF target.symbols # Nothing THEN UNCHANGED <<cache, resolver>>
     ELSE \E r \in {symbol_table_of(opened(symbol.object))} :
            /\ cache' = stored(symbol.object, r.object)
            /\ resolver' = [resolver EXCEPT !.targets[symbol.object].symbols =
                              IF r.result = Error THEN <<>> ELSE by_name(r.result)]
  /\ phase' = "translate"
  /\ UNCHANGED <<readable, missing, mode, object, bases, base, kept, frame_pc, symbol, asked,
                 frame>>

\* target_object::resolve_frame up to the resolver.
translate ==
  /\ phase = "translate"
  /\ IF symbol.name \in DOMAIN target.symbols
     THEN /\ asked' = [object |-> symbol.object,
                       address |-> target.symbols[symbol.name] + (frame_pc - symbol.address)]
          /\ phase' = IF target.resolver = "none" THEN "make" ELSE "ask"
          /\ UNCHANGED frame
     ELSE /\ frame' = [name |-> symbol.name, address |-> frame_pc]
          /\ phase' = "resolved"
          /\ UNCHANGED asked
  /\ UNCHANGED <<readable, missing, mode, machines, resolver, kept, frame_pc, symbol>>

made(resolver_made) ==
  [symbols |-> target.symbols, resolver |-> resolver_made, made |-> target.made + 1]

\* target_object::get_resolver with a bug: no null_resolver is put there first.
make_dwarf_resolver_only ==
  /\ phase = "make"
  /\ \/ /\ resolver' = [resolver EXCEPT !.targets[symbol.object] =
                          made(IF Whole(symbol.object) THEN "dwarf" ELSE "not_ok")]
        /\ phase' = "ask"
     \/ /\ ~Whole(symbol.object)
        /\ resolver' = [resolver EXCEPT !.targets[symbol.object] = made("none")]
        /\ phase' = "threw"
  /\ UNCHANGED <<readable, missing, mode, machines, kept, frame_pc, symbol, asked, frame>>

\* target_object::get_resolver: a null_resolver stays if the other throws.
make_dwarf_resolver ==
  /\ phase = "make"
  /\ \/ /\ resolver' = [resolver EXCEPT !.targets[symbol.object] =
                          made(IF Whole(symbol.object) THEN "dwarf" ELSE "not_ok")]
        /\ phase' = "ask"
     \/ /\ ~Whole(symbol.object)
        /\ resolver' = [resolver EXCEPT !.targets[symbol.object] = made("null")]
        /\ phase' = "threw"
  /\ UNCHANGED <<readable, missing, mode, machines, kept, frame_pc, symbol, asked, frame>>

\* External: the debug information of an object has the functions of the
\* program that came from it, at their addresses there.
dwarf(o, a) == {f \in Functions : f.object = o /\ f.at <= a /\ a < f.at + f.size}

ask ==
  /\ phase = "ask"
  /\ LET names == {f.name : f \in dwarf(asked.object, asked.address)}
     IN frame' \in [name : IF target.resolver = "dwarf" /\ names # {} THEN names ELSE {""},
                    address : {frame_pc}]
  /\ phase' = "resolved"
  /\ UNCHANGED <<readable, missing, mode, machines, resolver, kept, frame_pc, symbol, asked>>

\* try_resolve_frame: what is thrown costs the frame its symbol; if it is not
\* absorbed the trace is lost.
catch ==
  /\ phase = "threw"
  /\ \/ frame' = blank(frame_pc) /\ phase' = "resolved"
     \/ frame' = Nothing /\ phase' = "lost"
  /\ UNCHANGED <<readable, missing, mode, machines, resolver, kept, frame_pc, symbol, asked>>

\* The symbol table of the program is the last resort.
fall_back ==
  /\ phase = "resolved"
  /\ IF frame.name # "" \/ the_object = Error THEN UNCHANGED <<cache, object, frame>>
     ELSE \E r \in {lookup_symbol(the_object, frame_pc)} :
            /\ IF object = Nothing
               THEN cache' = put(cache, Binary, r.object) /\ UNCHANGED object
               ELSE object' = r.object /\ UNCHANGED cache
            /\ IF r.result = {} THEN UNCHANGED frame
               ELSE \E s \in r.result : frame' = [frame EXCEPT !.name = s.name]
  /\ phase' = "done"
  /\ UNCHANGED <<readable, missing, mode, bases, base, resolver, kept, frame_pc, symbol, asked>>

\* The trace may have another frame; at its end what is not kept is gone.
next_frame ==
  /\ phase = "done"
  /\ phase' = "ready" /\ frame' = Nothing /\ symbol' = Nothing /\ asked' = Nothing
  /\ UNCHANGED <<readable, missing, mode, machines, resolver, kept, frame_pc>>
end_trace ==
  /\ phase \in {"done", "lost"}
  /\ phase' = "idle" /\ object' = Nothing
  /\ frame' = Nothing /\ symbol' = Nothing /\ asked' = Nothing
  /\ resolver' = IF kept THEN resolver ELSE NoResolver
  /\ UNCHANGED <<readable, missing, mode, cache, bases, base, kept, frame_pc>>

DebugMapNext ==
  \/ complete \/ set_cache_mode \/ get_module_image_base
  \/ open_object \/ get_resolver \/ \E a \in Pcs : resolve_frame(a)
  \/ get_symbols \/ translate \/ make_dwarf_resolver \/ ask \/ catch
  \/ fall_back \/ next_frame \/ end_trace

DebugMapSpec == DebugMapInit /\ [][DebugMapNext]_debug_map_vars

-----------------------------------------------------------------------------
\* The resolver's symbols are the functions the linker put in the program, each
\* with the object it came from, wherever in the file that is read from, unless
\* the program's file was not whole.
DebugMapIsLinkers ==
  resolver # NoResolver =>
    \/ resolver.symbols = LinkersMap
    \/ resolver.symbols = {} /\ Binary \in missing

FunctionsAt(a) == {f \in Functions : f.address <= a /\ a < f.address + f.size}

\* A frame in a function is resolved at the same place of that function in its
\* own object, is given the name of a function at its address and reported at
\* its address in the program, not in the object.  It is without a name only if
\* the program was not whole, and not looked for in its object only if that was
\* not.  A frame in no function is not looked for in an object, but for one
\* right behind a function: the end is inclusive.
FrameIsItsFunction ==
  phase = "done" =>
    LET whole(f) == {Binary, f.object} \cap missing = {}
    IN /\ frame.address = frame_pc
       /\ FunctionsAt(frame_pc) # {} =>
            /\ \/ frame.name \in {f.name : f \in FunctionsAt(frame_pc)}
               \/ frame.name = "" /\ Binary \in missing
            /\ asked = Nothing => \E f \in FunctionsAt(frame_pc) : ~whole(f)
       /\ asked # Nothing =>
            \E f \in Functions :
              /\ frame_pc - f.address \in 0 .. f.size
              /\ frame_pc - f.address = f.size => FunctionsAt(frame_pc) = {}
              /\ asked = [object |-> f.object, address |-> f.at + (frame_pc - f.address)]

\* The base of the program is that of the slice this machine runs, whatever
\* others are in the file, and is there if the file was whole.
ImageBaseIsOwn == base \in {Nothing, Base} \/ (base = Error /\ Binary \in missing)

\* An object whose debug information cannot be opened is not tried for each of
\* its frames, however often it throws.
TriedOnce == resolver # NoResolver => \A o \in Objects : resolver.targets[o].made <= 1
=============================================================================
