----------------------------- MODULE CInterface -----------------------------
(***************************************************************************)
(* Taking a trace, through cpptrace.cpp and through the C interface        *)
(* (src/src/ctrace.cpp), and what becomes of it in C: traces are arrays a  *)
(* client owns, with strings that each are a block of memory of their own, *)
(* and has to free.  Object frames are those of src/src/binary/object.cpp  *)
(* and, for signal handlers, src/src/binary/safe_dl.cpp.                   *)
(*                                                                         *)
(* resolve_frames is external: what it makes of an address is a constant,  *)
(* and it, an allocation or demangling may fail.  An address of the        *)
(* program belongs to a module; one place is taken by modules that are     *)
(* unloaded and loaded in turn.                                            *)
(***************************************************************************)
EXTENDS Unwind, Filter

CONSTANTS
  Builds,       \* the back-end, whether assertions are checked, which one has, and
                \* how the module of an address, its path and its base are looked up
  Calls,        \* traces that are taken: entry, skip and max_depth
  Sizes,        \* sizes of buffers for safe traces
  Resolved,     \* by address: the frames resolve_frames makes of it
  Demangled,    \* by symbol: what demangle makes of it
  Modules,      \* by name: whether it is the program, the addresses it is loaded
                \* at, low to high, and the base it is linked for
  Slots,        \* the client's variables
  MaxBlocks     \* bound on the blocks of memory in use
None == 0       \* no block, line or column
Blank == ""     \* an empty string
CalledBy == "argv[0]"   \* what the program was called by, if that is no path of it
NoModule == Blank

LookUps == {"find_object", "dladdr1", "dladdr", "handle"}
look_ups_with(back_end) ==
  CASE back_end \in {"winapi", "dbghelp"} -> {"handle"}
    [] back_end \in {"libunwind", "execinfo"} -> LookUps \ {"handle"}
    [] OTHER -> LookUps

ASSUME CInterfaceAssumption ==
  /\ Builds \subseteq [back_end : BackEnds, asserts : BOOLEAN, look_up : LookUps]
  /\ \A b \in Builds : /\ b.asserts => b.back_end = "unwind"
                       /\ b.look_up \in look_ups_with(b.back_end)
  /\ \A c \in Calls : c.skip \in Nat /\ c.max_depth \in Nat
  /\ Sizes \subseteq Nat /\ MaxBlocks \in Nat
  /\ Blank \notin DOMAIN Modules /\ CalledBy \notin DOMAIN Modules
  /\ \A pc \in DOMAIN Resolved : Resolved[pc] \in Seq(Range(Resolved[pc]))

VARIABLES
  build,        \* one of Builds
  user,         \* the stack of the program at its calls
  loaded,       \* the module in the shared place
  names,        \* Windows: get_module_name's cache, by the place of the module
  heap,         \* blocks in use
  client,       \* the C structures the client has
  lost,         \* history: blocks of conversions that failed halfway
  last          \* what was last taken, printed or made a string

vars == <<build, user, loaded, names, heap, client, lost, last>>

Nothing == [op |-> "nothing"]

-----------------------------------------------------------------------------
\* Object frames.
Windows == build.look_up = "handle"

Present(module) == Modules[module].program \/ module = loaded
module_of(pc) == {m \in DOMAIN Modules : Present(m) /\ Modules[m].low <= pc /\ pc < Modules[m].high}

\* l_name is empty for the program itself, whose path is read from
\* /proc/self/exe, where that can be.
resolve_l_name(module) ==
  IF Modules[module].program THEN {module, Blank} ELSE {module}
\* For the program that is what it was called by, which need be no file's path.
dli_fname(module) ==
  IF Modules[module].program THEN {module, CalledBy} ELSE {module}

object_frame(pc, path, address) == [raw |-> pc, path |-> path, address |-> address]
no_object_frame(pc) == object_frame(pc, Blank, 0)
relative(pc, module, base) == pc - Modules[module].low + base

\* _dl_find_object tells what the module was moved by.
find_object_frames(pc, m) ==
  {object_frame(pc, path, relative(pc, m, Modules[m].base)) : path \in resolve_l_name(m)}

\* The others have the base looked up in the file of that path, and that may fail:
\* the path is kept and the address is 0, whether exceptions are absorbed or not,
\* for drop_error only logs.
addresses(pc, m, path) ==
  {0} \cup (IF path \in DOMAIN Modules THEN {relative(pc, m, Modules[path].base)} ELSE {})
looked_up(pc, m, paths) ==
  UNION {{object_frame(pc, path, address) : address \in addresses(pc, m, path)} : path \in paths}

\* What GetModuleHandleEx gives for a module: the place it is loaded at.
handle_of(module) == Modules[module].low

\* get_frame_object_info with a bug: the base is that of the module itself.
get_frame_object_info_mixed(pc, known) ==
  IF module_of(pc) = {} THEN {no_object_frame(pc)}
  ELSE UNION {IF Windows
              THEN {object_frame(pc, known[handle_of(m)], relative(pc, m, Modules[m].base))}
              ELSE find_object_frames(pc, m) : m \in module_of(pc)}

\* The object frames an address can have; on Windows with a name known by then.
get_frame_object_info(pc, known) ==
  IF module_of(pc) = {} THEN {no_object_frame(pc)}
  ELSE UNION {CASE build.look_up = "find_object" -> find_object_frames(pc, m)
                [] build.look_up = "dladdr1" -> looked_up(pc, m, resolve_l_name(m))
                [] build.look_up = "dladdr" -> looked_up(pc, m, dli_fname(m))
                [] OTHER -> looked_up(pc, m, {known[handle_of(m)]}) : m \in module_of(pc)}

\* get_module_name: the names known after some look-ups, each that of the module
\* that was first in the place, or empty, if it was not to be had.
names_after(pcs) ==
  LET places == IF Windows THEN {handle_of(m) : m \in UNION {module_of(pc) : pc \in pcs}} ELSE {}
  IN {known \in [DOMAIN names \cup places -> DOMAIN Modules \cup {Blank}] :
        \A h \in DOMAIN known :
          IF h \in DOMAIN names THEN known[h] = names[h]
          ELSE known[h] = Blank \/ (Present(known[h]) /\ handle_of(known[h]) = h)}

\* The frames of a trace, each on its own.
get_frames_object_info(pcs, known) ==
  {f \in [DOMAIN pcs -> UNION {get_frame_object_info(pc, known) : pc \in Range(pcs)}] :
     \A i \in DOMAIN pcs : f[i] \in get_frame_object_info(pcs[i], known)}

\* In a signal handler, where the system allows it, and resolved afterwards.
get_safe_object_frame(pc) ==
  IF build.look_up # "find_object" \/ module_of(pc) = {} THEN {no_object_frame(pc)}
  ELSE UNION {find_object_frames(pc, m) : m \in module_of(pc)}
resolve_safe_object_frame(frame) == IF frame.path = Blank THEN no_object_frame(frame.raw) ELSE frame

\* An address about which nothing is known has a frame with no more than that.
unresolved(pc) ==
  [raw |-> pc, line |-> None, column |-> None, filename |-> Blank, symbol |-> Blank, is_inline |-> FALSE]
resolved(pc) == IF pc \in DOMAIN Resolved THEN Resolved[pc] ELSE <<unresolved(pc)>>
resolve_frames(pcs) == FlattenSeq([i \in DOMAIN pcs |-> resolved(pcs[i])])

-----------------------------------------------------------------------------
\* Memory.
Fresh(n) == SubSeq(Filter([b \in 1 .. MaxBlocks |-> b], 1 .. MaxBlocks \ heap), 1, n)
Room(n) == Cardinality(heap) + n <= MaxBlocks

\* The blocks of a structure: the array, and the strings of its rows.
Strings(c) ==
  CASE c.kind = "object" -> {c.rows[i].path_at : i \in DOMAIN c.rows}
    [] c.kind = "stack" -> {c.rows[i].filename_at : i \in DOMAIN c.rows}
                           \cup {c.rows[i].symbol_at : i \in DOMAIN c.rows}
    [] OTHER -> {}
Blocks(c) == ({c.frames} \cup Strings(c)) \ {None}

Empty(kind) == [kind |-> kind, frames |-> None, rows |-> <<>>]

\* c_convert of object frames: an array, and a string for each path.
convert_object_trace(frames, at) ==
  [kind |-> "object", frames |-> at[1],
   rows |-> [i \in DOMAIN frames |->
               [raw |-> frames[i].raw, path |-> frames[i].path, address |-> frames[i].address,
                path_at |-> at[i + 1]]]]

\* c_convert of frames: two strings for each, the symbol demangled.  null and
\* invalid_pos are the same number.
convert_stacktrace(frames, at) ==
  [kind |-> "stack", frames |-> at[1],
   rows |-> [i \in DOMAIN frames |->
               [raw |-> frames[i].raw, line |-> frames[i].line, column |-> frames[i].column,
                filename |-> frames[i].filename, filename_at |-> at[2 * i],
                symbol |-> Demangled[frames[i].symbol], symbol_at |-> at[2 * i + 1],
                is_inline |-> frames[i].is_inline]]]

cpp_convert(c) ==
  [i \in DOMAIN c.rows |-> [raw |-> c.rows[i].raw, line |-> c.rows[i].line,
     column |-> c.rows[i].column, filename |-> c.rows[i].filename,
     symbol |-> c.rows[i].symbol, is_inline |-> c.rows[i].is_inline]]

put(slot, c) == client' = [s \in DOMAIN client \cup {slot} |-> IF s = slot THEN c ELSE client[s]]

keep(slot, c, n) ==
  /\ put(slot, c)
  /\ heap' = heap \cup Range(Fresh(n))
  /\ UNCHANGED lost

\* Anything the C interface catches gives an empty structure.
failed(slot, kind) ==
  /\ put(slot, Empty(kind))
  /\ UNCHANGED <<heap, lost>>

\* demangle fails at some frame: the array and the strings so far are nobody's.
failed_halfway(slot, frames) ==
  \E i \in DOMAIN frames :
    /\ lost = {} /\ lost' = Range(Fresh(2 * i))
    /\ heap' = heap \cup lost'
    /\ put(slot, Empty("stack"))

keep_object_trace(slot, pcs) ==
  \/ /\ names' \in names_after(Range(pcs))
     /\ \E frames \in get_frames_object_info(pcs, names') :
          /\ Room(Len(pcs) + 1)
          /\ keep(slot, convert_object_trace(frames, Fresh(Len(pcs) + 1)), Len(pcs) + 1)
  \/ /\ \E n \in 0 .. Len(pcs) : names' \in names_after(Range(SubSeq(pcs, 1, n)))
     /\ failed(slot, "object")

keep_stacktrace(slot, pcs) ==
  LET frames == resolve_frames(pcs)
      n == 2 * Len(frames) + 1
  IN /\ Room(n)
     /\ \/ keep(slot, convert_stacktrace(frames, Fresh(n)), n)
        \/ failed(slot, "stack")
        \/ failed_halfway(slot, frames)
     /\ UNCHANGED names

-----------------------------------------------------------------------------
Init ==
  /\ build \in Builds
  /\ user \in UserStacks
  /\ loaded = NoModule /\ names = <<>>
  /\ heap = {} /\ client = <<>> /\ lost = {}
  /\ last = Nothing

taken(call) ==
  generate(build.back_end, build.asserts, call.entry, user, call.skip, call.max_depth)

\* What is taken in C++ is independent of the structures in C and of the modules,
\* so it is taken before any.
AtStart == client = <<>> /\ names = <<>> /\ loaded = NoModule /\ lost = {}

\* Each function on the way logs what is thrown, and throws it on unless it is
\* absorbed, when the trace is empty.  The C functions absorb everything.
take(call) ==
  /\ last = Nothing /\ AtStart
  /\ LET trace == taken(call)
     IN \E absorbed \in BOOLEAN :
          last' = [op |-> "take", call |-> call, frames |-> trace.frames,
                   threw |-> trace.threw /\ ~absorbed /\ call.entry # "ctrace_generate_trace"]
  /\ UNCHANGED <<build, user, loaded, names, heap, client, lost>>

\* A trace taken in a signal handler, and its object frames resolved later.
take_safely(call, size) ==
  /\ last = Nothing /\ AtStart
  /\ LET pcs == safe_capture_frames(build.back_end, stack_below(call.entry, user), size,
                                    skipped(call.entry, call.skip), call.max_depth)
     IN last' = [op |-> "take safely", call |-> call, size |-> size, frames |-> pcs, threw |-> FALSE]
  /\ UNCHANGED <<build, user, loaded, names, heap, client, lost>>

safe_object_frame(pc) ==
  /\ last = Nothing /\ client = <<>>
  /\ \E frame \in get_safe_object_frame(pc) :
       last' = [op |-> "safe object frame", frame |-> resolve_safe_object_frame(frame)]
  /\ UNCHANGED <<build, user, loaded, names, heap, client, lost>>

\* ctrace_generate_raw_trace, and the two that make object frames or resolve.
ctrace_generate_raw_trace(slot, skip, max_depth) ==
  LET call == [entry |-> "ctrace_generate_raw_trace", skip |-> skip, max_depth |-> max_depth]
      trace == taken(call)
  IN /\ IF trace.threw THEN failed(slot, "raw")
        ELSE Room(1) /\ keep(slot, [kind |-> "raw", frames |-> Fresh(1)[1], rows |-> trace.frames], 1)
     /\ UNCHANGED names
ctrace_generate(kind, slot, skip, max_depth) ==
  LET trace == taken([entry |-> "ctrace_generate_trace", skip |-> skip, max_depth |-> max_depth])
  IN IF trace.threw THEN failed(slot, kind) /\ UNCHANGED names
     ELSE IF kind = "object" THEN keep_object_trace(slot, trace.frames)
     ELSE keep_stacktrace(slot, trace.frames)

generate_in(slot) ==
  /\ slot \notin DOMAIN client /\ last = Nothing
  /\ \E call \in {c \in Calls : c.entry = "ctrace_generate_trace"} :
       \/ ctrace_generate_raw_trace(slot, call.skip, call.max_depth)
       \/ \E kind \in {"object", "stack"} : ctrace_generate(kind, slot, call.skip, call.max_depth)
  /\ UNCHANGED <<build, user, loaded, last>>

\* The three ctrace_resolve functions; what is resolved stays as it is.
raw_addresses(c) ==
  IF c.kind = "raw" THEN c.rows ELSE [i \in DOMAIN c.rows |-> c.rows[i].raw]
ctrace_resolve(slot, from) ==
  /\ slot \notin DOMAIN client /\ last = Nothing
  /\ client[from].kind \in {"raw", "object"}
  /\ \E to \in {"object", "stack"} \ {client[from].kind} :
       IF client[from].frames = None THEN failed(slot, to) /\ UNCHANGED names
       ELSE IF to = "object" THEN keep_object_trace(slot, raw_addresses(client[from]))
       ELSE keep_stacktrace(slot, raw_addresses(client[from]))
  /\ UNCHANGED <<build, user, loaded, last>>

\* The ctrace_free functions with a bug: the structure keeps its pointer.
ctrace_free_kept(slot) ==
  /\ client[slot].frames # None
  /\ heap' = heap \ Blocks(client[slot])
  /\ client' = [client EXCEPT ![slot].rows = <<>>]
  /\ UNCHANGED <<build, user, loaded, names, lost, last>>

\* The ctrace_free functions: strings, then the array; afterwards the structure
\* is empty, and freeing it again does nothing.
ctrace_free(slot) ==
  /\ heap' = heap \ Blocks(client[slot])
  /\ client' = [client EXCEPT ![slot] = Empty(@.kind)]
  /\ UNCHANGED <<build, user, loaded, names, lost, last>>

forget(slot) ==
  /\ client[slot].frames = None /\ last = Nothing
  /\ client' = [s \in DOMAIN client \ {slot} |-> client[s]]
  /\ UNCHANGED <<build, user, loaded, names, heap, lost, last>>

-----------------------------------------------------------------------------
\* ctrace_print_stacktrace with a bug: what lacks a line has its column printed.
print_row_column(row) ==
  [inlined |-> row.is_inline, address |-> IF row.is_inline THEN 0 ELSE row.raw, symbol |-> row.symbol,
   location |-> IF row.filename = Blank THEN <<>>
                ELSE <<row.filename>> \o (IF row.line = None THEN <<>> ELSE <<row.line>>)
                     \o (IF row.column = None THEN <<>> ELSE <<row.column>>)]

\* ctrace_print_stacktrace: what it writes for a frame.  Without a line the
\* frame ends there, without a column as well.
print_row(row) ==
  [inlined |-> row.is_inline, address |-> IF row.is_inline THEN 0 ELSE row.raw, symbol |-> row.symbol,
   location |-> IF row.filename = Blank THEN <<>>
                ELSE IF row.line = None THEN <<row.filename>>
                ELSE IF row.column = None THEN <<row.filename, row.line>>
                ELSE <<row.filename, row.line, row.column>>]

\* The default formatter's for the same.
write_frame(frame) ==
  [inlined |-> frame.is_inline, address |-> IF frame.is_inline THEN 0 ELSE frame.raw,
   symbol |-> frame.symbol,
   location |-> (IF frame.filename # Blank THEN <<frame.filename>> ELSE <<>>)
                \o (IF frame.filename # Blank /\ frame.line # None THEN <<frame.line>> ELSE <<>>)
                \o (IF frame.filename # Blank /\ frame.line # None /\ frame.column # None
                    THEN <<frame.column>> ELSE <<>>)]

ctrace_print_stacktrace(slot) ==
  /\ last = Nothing /\ client[slot].kind = "stack"
  /\ last' = [op |-> "print", trace |-> client[slot],
              rows |-> [i \in DOMAIN client[slot].rows |-> print_row(client[slot].rows[i])]]
  /\ UNCHANGED <<build, user, loaded, names, heap, client, lost>>

\* A string of its own, with what the default formatter makes of the frames.
ctrace_stacktrace_to_string(slot, from) ==
  /\ slot \notin DOMAIN client /\ last = Nothing /\ Room(1)
  /\ client[from].kind = "stack"
  /\ LET frames == cpp_convert(client[from])
     IN keep(slot, [kind |-> "string", frames |-> Fresh(1)[1],
                    rows |-> [i \in DOMAIN frames |-> write_frame(frames[i])]], 1)
  /\ UNCHANGED <<build, user, loaded, names, last>>

\* The program goes on: what was taken or printed is forgotten.
go_on ==
  /\ last # Nothing
  /\ last' = Nothing
  /\ UNCHANGED <<build, user, loaded, names, heap, client, lost>>

load ==
  /\ last = Nothing /\ loaded = NoModule
  /\ loaded' \in {m \in DOMAIN Modules : ~Modules[m].program}
  /\ UNCHANGED <<build, user, names, heap, client, lost, last>>
unload ==
  /\ last = Nothing /\ loaded # NoModule
  /\ loaded' = NoModule
  /\ UNCHANGED <<build, user, names, heap, client, lost, last>>

Safe(entry) == entry \in {"safe_generate_raw_trace", "ctrace_safe_generate_raw_trace"}

Next ==
  \/ \E call \in Calls : IF Safe(call.entry) THEN \E size \in Sizes : take_safely(call, size) ELSE take(call)
  \/ \E pc \in DOMAIN Resolved : safe_object_frame(pc)
  \/ \E slot \in Slots : generate_in(slot)
  \/ \E slot \in Slots, from \in DOMAIN client :
       ctrace_resolve(slot, from) \/ ctrace_stacktrace_to_string(slot, from)
  \/ \E slot \in DOMAIN client : ctrace_free(slot) \/ forget(slot) \/ ctrace_print_stacktrace(slot)
  \/ go_on \/ load \/ unload

Spec == Init /\ [][Next]_vars

-----------------------------------------------------------------------------
\* Whatever function a trace is taken with, it is a stretch of the program's own
\* frames from the first that is not skipped, each at the address of its call;
\* no frame of the library is in it and none is lost, up to the limits.  Where
\* the code departs from that:
\*   ctrace_safe_generate_raw_trace does not skip itself;
\*   execinfo throws if more is skipped than there is, _Unwind with a limit of
\*   zero, where assertions are checked, and gives a frame where they are not;
\*   the system's limit on Windows includes what is skipped;
\*   only _Unwind and safe traces know a frame that a signal interrupted.
TraceIsUserStack ==
  last.op \in {"take", "take safely"} =>
    LET call == last.call
        back_end == build.back_end
        safe == last.op = "take safely"
        own == IF call.entry = "ctrace_safe_generate_raw_trace" /\ call.skip = 0 THEN 1 ELSE 0
        first == IF call.entry = "ctrace_safe_generate_raw_trace" /\ call.skip > 0
                 THEN call.skip - 1 ELSE call.skip
        frames == SubSeq(last.frames, own + 1, Len(last.frames))
        knows_signals == safe \/ back_end = "unwind"
        room == MinOf(call.max_depth, last.size)
        limit == IF ~safe THEN call.max_depth ELSE IF room < own THEN 0 ELSE room - own
        beyond == CASE back_end = "winapi" -> call.skip + Len(adds(call.entry))
                    [] back_end = "unwind" /\ limit = 0 -> 1
                    [] OTHER -> 0
    IN /\ last.threw => \/ back_end = "execinfo" /\ call.skip > Len(user)
                        \/ back_end = "unwind" /\ build.asserts /\ limit = 0
       /\ \A i \in DOMAIN frames :
            LET frame == user[first + i]
            IN frames[i] = IF frame.signal /\ knows_signals THEN frame.ip ELSE frame.ip - 1
       /\ Len(frames) <= MinOf(limit, SizeMax - beyond) + beyond
       /\ (back_end # "nothing" /\ (safe => back_end = "libunwind")) =>
            Len(frames) >= MinOf(Len(user) - first, MinOf(limit, HardMax))

\* The memory in use is that of the client's structures and of conversions that
\* failed halfway: no block belongs to two, none that is freed is pointed to,
\* none is forgotten.
HeapIsOwned ==
  LET blocks == [s \in DOMAIN client |-> Blocks(client[s])]
  IN /\ heap = (UNION Range(blocks)) \cup lost
     /\ \A s \in DOMAIN client : blocks[s] \cap lost = {}
     /\ \A s, t \in DOMAIN client : s # t => blocks[s] \cap blocks[t] = {}
     /\ \A s \in DOMAIN client :
          LET rows == Len(client[s].rows)
          IN client[s].frames # None =>
               Cardinality(blocks[s]) = 1 + CASE client[s].kind = "object" -> rows
                                              [] client[s].kind = "stack" -> 2 * rows
                                              [] OTHER -> 0

\* The two ways a C client can show a trace, which share no code, show the same
\* of each frame, whatever parts it lacks.
ShownAlike ==
  last.op = "print" =>
    last.rows = [i \in DOMAIN cpp_convert(last.trace) |-> write_frame(cpp_convert(last.trace)[i])]

\* The path of an object frame and its address belong together: if the frame has
\* both, the address is what the module of that path has at that place, and it is
\* the module that has the code, or on Windows one that was loaded at the same
\* place earlier.  A path has no address only where its base is looked up in a
\* file.
BelongTogether(frame, look_up) ==
  frame.path # Blank /\ (frame.address # 0 \/ look_up = "find_object") =>
    LET m == Modules[frame.path]
    IN /\ frame.path \in DOMAIN Modules
       /\ frame.address = frame.raw - m.low + m.base
       /\ \E now \in DOMAIN Modules :
            /\ Modules[now].low <= frame.raw /\ frame.raw < Modules[now].high
            /\ IF look_up = "handle" THEN Modules[now].low = m.low ELSE now = frame.path

PathAndAddressBelongTogether ==
  /\ \A s \in DOMAIN client :
       client[s].kind = "object" =>
         \A i \in DOMAIN client[s].rows : BelongTogether(client[s].rows[i], build.look_up)
  /\ last.op = "safe object frame" => BelongTogether(last.frame, build.look_up)
=============================================================================
