# cpptrace in TLA+

Models of [cpptrace](../src/README.md), a C++ stack trace library, checked with
TLC, and theorems about them checked with TLAPS. Paths below are relative to the
repository; `PROJECT.json` maps every definition to the lines it models.

cpptrace captures program counters, finds the object each belongs to, resolves
them to functions and lines with one of several back-ends, and formats the
result. It has little concurrency of its own, but it is called from any thread,
keeps caches in statics and thread locals, starts processes, and hooks into the
two phases of C++ exception handling.

## Inventory

| Component | State | Operations | Interacts with | Hard behaviour | What makes it correct |
|---|---|---|---|---|---|
| LRU cache (`utils/lru_cache.hpp`) | list, map of iterators, limit | insert, set, get, touch, resize | DWARF resolver's line tables | eviction during insertion, references returned | list and map agree; limit kept; only the oldest are forgotten |
| Current exceptions (`from_current.cpp`, macros) | two thread-local trace holders, rethrow switch | try and catch blocks, rethrow, getters, clear | C++ runtime, unwinder, options | two-phase raise, nesting, destructors that throw, failed capture | a trace belongs to the exception it is given for; origin and rethrow are told apart |
| Lazy trace holder, exception types (`exceptions.cpp`) | raw or resolved trace | resolve once, copy | symbol back-ends | failure while resolving, sharing between threads | resolved at most once, never both |
| ELF objects (`binary/elf.cpp`) | parts with "tried" and "loaded" flags; cache of objects | load a part, look up a symbol, open cached | module bases, libdwarf back-end, JIT objects | lazy loading without a lock of its own, failures remembered | answers depend on the file alone |
| Module bases, object frames (`binary/module_base.cpp`, `object.cpp`) | cache of bases, mutex | base of an object | ELF objects | a lock held across another | every call ends |
| libdwarf driver (`symbols/symbols_with_libdwarf.cpp`) | resolver map, mutex | resolve a trace | resolvers, ELF, JIT, options | failures per frame and per object, options changing | no frame lost, order and inlining kept |
| Dispatch (`symbols/symbols_core.cpp`) | none | group by object, fill blanks (MinGW) | all back-ends | index agreement of two lists, a second back-end that fails | a blank is filled from its own address |
| DWARF resolver (`symbols/dwarf/`) | CU cache, line tables, subprogram cache, split resolvers | resolve a frame | libdwarf, LRU cache, options | lazily built caches, modes switched, partial failure | the modes agree on the answer |
| addr2line (`symbols/symbols_with_addr2line.cpp`) | statics of detection; descriptors, child | resolve the addresses of one object | kernel, child process | bounded pipes, fork with threads, failures | an answer is whole; nothing leaks; it ends |
| Debug map resolver (`symbols/dwarf/debug_map_resolver.cpp`), Mach-O (`binary/mach-o.cpp`) | symbols of the program; per object a table and a resolver | find function, translate, resolve in its object | DWARF resolvers, module bases, cache of objects | objects missing or being written, fat files | the function's own object and address |
| dbghelp (`platform/dbghelp_utils.cpp`, `symbols_with_dbghelp.cpp`) | session cache, recursive lock | get a session, resolve, load symbols | Windows, unwinding, options | mode read twice, ownership of handles, nested types | each session ended once, used while it lasts; the signature C++ would write |
| libbacktrace | one state | resolve | libbacktrace | creation once per program | state made once |
| JIT objects (`jit/jit_objects.cpp`) | objects, sorted ranges | register, unregister, clear, look up | JIT compiler, ELF, libdwarf driver | memory reuse, broken files, no lock | ranges belong to live objects; the right function |
| Options (`options.cpp`) | three atomics | set, read | everywhere | switched at any time | a failure follows the option |
| Unwinding (`unwind/`, `cpptrace.cpp`) | none | capture, six back-ends | platform | skip and depth arithmetic, own frames | the caller's frames, from the first not skipped |
| Object frames (`binary/object.cpp`, `safe_dl.cpp`) | cache of module names (Windows) | address to object frame | module bases, loader | modules replaced | path and address of one file |
| C interface (`ctrace.cpp`) | memory the client owns | take, resolve, convert, free, print | all of the above | failures halfway, absent values | each block owned once; shown as in C++ |
| Formatter (`formatting.cpp`) | options behind a pointer | configure, copy, move, print | pruning, snippets | moved-from objects, order of filter and numbering | own options; the wanted frames, numbered |
| Snippets (`snippets/snippet.cpp`) | map of files | window around a line | formatter | unsigned arithmetic, trimming | the smallest window |
| Pruning (`prune_symbol.cpp`) | parser | symbol to name | formatter | an approximate grammar of three compilers | the qualified name |
| Memory mapping | cached regions | page protections | vtable surgery | stale map | protections restored |
| Logging | callback | log | everywhere | | |

`PROJECT.json` lists the hazards of this code, line by line, with the properties
that would catch them.

## Modules

| Module | Models | Checked by |
|---|---|---|
| `LruCache` | `detail::lru_cache` | `MCDwarfResolver` |
| `RecencyCache` | what an LRU cache promises, without list or map | refined by `LruCache` |
| `ExceptionTrace` | `from_current.cpp`, the macros, the lazy holder, on one thread | `MCExceptionTrace` |
| `InterceptedExceptions` | what a user of the macros is promised | refined by `ExceptionTrace` |
| `TraceProofs` | theorems about `ExceptionTrace`, `Formatter` and `Snippet` | TLAPS |
| `ElfObject` | one ELF file used by threads, with the locks of its two users | `MCElfObject` |
| `ObjectFileProofs` | theorems about `ElfObject`, `DebugMap` and, below it, `MachO` | TLAPS |
| `Addr2line` | the addr2line back-end, its pipes and children | `MCBackEnds`, `MCAddr2lineDeadlock` |
| `BackEndProofs` | theorems about `Addr2line` and `Dbghelp` | TLAPS |
| `ResolveFrames` | the libdwarf driver and `fill_blanks` | `MCResolveFrames` |
| `ResolveFramesProofs` | theorems about `ResolveFrames` | TLAPS |
| `DwarfResolver` | `libdwarf::dwarf_resolver`: its caches and the three cache modes | `MCDwarfResolver` |
| `DwarfProofs` | theorems about `LruCache` and `DwarfResolver` | TLAPS |
| `JitObjects` | the JIT object manager and its use | `MCJitObjects`, `MCJitObjectsConcurrent` |
| `JitObjectsProofs` | theorems about `JitObjects` | TLAPS |
| `Filter` | `std::remove_if`, and the loops that collect what passes a test | through its users |
| `SequenceLemmas` | lemmas about `Filter`, `FlattenSeq`, `InsertAt`, and induction on numbers | TLAPS |
| `MachO` | the class `mach_o`: fat and thin files, symbol tables, the debug map | through `DebugMap` |
| `DebugMap` | `debug_map_resolver`, with the driver around it and the image base | `MCDebugMap` |
| `Dbghelp` | sessions with dbghelp, their users, signatures | `MCBackEnds` |
| `Unwind` | the unwinding back-ends and the entry points above them | through `CInterface` |
| `CInterface` | traces taken in C++ and C, object frames, C structures and their memory | `MCCInterface` |
| `CInterfaceProofs` | theorems about `CInterface` and, below it, `Unwind` | TLAPS |
| `Snippet` | the map of source files and the window around a line | through `Formatter` |
| `Formatter` | formatters and what they print | `MCFormatter`, `MCFormatterColor` |
| `PruneSymbol` | `prune_symbol`: tokenizer and parser | through `PrunedNames` |
| `PrunedNames` | the names that pruning makes of the symbols formatted | `MCFormatter` |

Two components may share a module of proofs. As its names are then those of
both, one of the two has a prefix in its own (`DwarfInit`, `FormatterNext`,
`DebugMapSpec`, `dbghelp_vars`).

Where a model depends on its surroundings (what fails, which files exist, how
many threads there are, what the program calls), a variable chosen in `Init` and
never changed says so: `setting` in `ElfObject` and `Addr2line`, `program` in
`ResolveFrames`, `setting` in `DwarfResolver`, `build` and `user` in `CInterface`,
`build` in `MCBackEnds`, `missing` in `DebugMap`. One run then covers all the
surroundings its MC module lists.

An operator commented "with a bug" or "Mutant" is not part of a model. It is a
plausible wrong version of the operator that follows it; put in its place it
must break the property `PROJECT.json` names, which shows the property is
sensitive to that code.

### LruCache

A list node's identity stands for its iterator: `splice` keeps it, `push_front`
takes one that is free, `pop_back` gives it back. `map[k]` is the iterator the
hash map holds. The loop of `maybe_trim` is one step, since no other code runs
in it. `result` is the node whose value the last call returned a reference to.
A size of zero throws, so it is a guard (`ValidSize`), also in `Init`.

It is checked in `MCDwarfResolver`, beside its user, with three keys and limits
of 1, 2 and none, so an insertion
evicts, and shrinking the limit evicts two entries at once. `RecencyCache` is a
partial function and a strict order of last use; `ImplementsRecencyCache` says
the list implements that order.

### ExceptionTrace

`stack` holds try blocks, handlers, the guard of `cpptrace::rethrow` and
destructors. A raise is the search (`search`), which finds the innermost block
that catches and, if it is a `CPPTRACE_CATCH`, captures and saves; then one
`unwind` step per frame, in which destructors may run user code
(`enter_destructor`); then `enter_handler`. This is the order the Itanium ABI
prescribes, external to the repository. The step granularity follows what user
code can observe. `resolve` covers a resolution that fails, `CaptureFails` a
capture that fails. Such a failure is absorbed, as by default
(`absorb_trace_exceptions`). Without the option the exception leaves the search
through the C++ runtime in the middle of a raise (`from_current.cpp:67`), which is
not modelled. Traces a failed capture leaves in place are of an earlier
exception; no property forbids that.

The run has two exceptions of two types, clauses that match one or both types,
four nested blocks or handlers, and captures and resolutions that may fail.
Four levels are a block, a handler in it, a block in the handler and a
destructor or guard: the smallest depth at which an exception traced inside a
handler comes before the rethrow of the outer one. `seen` is a history variable,
the last raise a traced block has seen, unless its trace could not be taken or
resolved or was cleared. `TracesAnswerForLastSeen` says that it is answered for
with the trace of its kind; a rethrow of an outer exception does not bring its
origin back once another was traced inside its handler.

### ElfObject

The `get_` functions of `elf` have one shape: return if loaded, fail if tried,
mark as tried, get the part needed first, read, mark as loaded. `calls[t]` is the
chain of them a thread is in, and every test and write of a flag is a step.
A file is the set of parts that cannot be read and what its symbol tables hold.
Uses are a raw trace (base under the lock of `module_base.cpp`, then the
symbols under that of `symbols_with_libdwarf.cpp`) and an object trace (the
second only). A base needs the header, which is read once, and the program
headers (`read_program_headers`, `elf.cpp:93-98`), which are not kept: they are
read whenever the base is not in the cache of `module_base.cpp`, so after a failure
every raw trace reads them again. Whole reads and writes of the optional header are atomic in the
model; where `DataRaceFree` holds that is exact, and where it does not the
violation shows already with whole reads.

Fairness is weak fairness of each thread's steps: threads are scheduled, and no
lock is held for ever by a thread that can run (a step of a blocked thread is
disabled while the lock is taken; with two threads and two calls each, a thread
cannot be overtaken for ever). `MCElfObject` has raw traces on a shared elf for
every file with at most two unreadable parts, and all uses on separate elves
(memory mode) for every file with at most one. Two unreadable parts are enough
for one failure to hide behind another, as each lookup asks for a chain of parts
and reports the first that fails. Left out of the run are the two combinations the
locks do not cover: object traces on a shared elf at the same time as raw ones, and
raw traces on a shared elf whose program headers cannot be read. In the second the
base is looked up again, through the elf's one `FILE`, while another thread reads
sections under the other lock. TLC finds `DataRaceFree` violated with either (see
the divergences below).

### Addr2line

Capacities are counted in lines. The kernel (`HasWriter`, a blocking pipe) and
the addr2line program (one flushed line for each line read, exit at the end of
its input) are external and modelled from how the code uses them. `fork` copies
the descriptors of the whole process, those of other threads' requests included;
none is close-on-exec. `write` and `read` proceed line by line, which allows
every interleaving of partial transfers.

`MCBackEnds` has two kinds of builds, as a build has one back-end. Those with
addr2line (`MCAddr2line` has their settings) have one thread with every failure (`pipe`, `fork`, `exec`), two
threads with and without failures, and one thread at the boundary: `2 * Capacity
+ 1` lines, for capacities 1 to 3, is the largest request that fits into two
pipes and the line addr2line is working on. One line more and the parent blocks
in its single `write` while nobody reads its output. Two requests for each
thread show what a failed one leaves for the next. Fairness is weak, of every
thread and child, as the operating system schedules them. `EndsIfAlone` is about
one thread; with two the same promise fails without any failure
(`MCAddr2lineDeadlock`). A `read` or `write` that returns an error is left out.

### ResolveFrames

Frame `i` has raw address `i`. Grouping, the order in which groups are taken
(that of an `unordered_map`, so any), the resolver cache, both handlers and the
final fill-in are as in the code. What a DWARF resolver returns is any frame with
up to two inlined calls, or an exception. Options change between any two steps.
`segment` and `rotate` transcribe the reversal and the rotation of locations;
`Expected` says what a reader of a trace expects, and `TraceIsComplete` compares.
Traces of up to three frames in two objects or none contain every way two groups
can interleave, and a group with a frame before and after a failing one.
Programs of three calls on one object, with the cache mode changing between any
two steps, contain a resolver that is made, one that is found and one that is
made under another mode.

With MinGW there are neither JIT frames nor symbol tables, and `fill_blanks`
hands the addresses of frames without a symbol or a file to dbghelp, and takes
the answers back by position. An inlined call has the address zero, so it gets
nothing; if its place is not known, the function it was inlined into, to which
the rotation gives that place, gets the place of the address instead. A dbghelp
that cannot be started costs the whole trace.

### DwarfResolver

The debugging information is given (`setting.cus`): per CU the ranges of its
code, the rows of its line table and its functions. Frames are resolved one at a
time, as the lock of the driver has it, in one action per decision: `lookup_cu`
is `lookup_aranges`, `walk_for_cu` or `lookup_cached_cu`, a skeleton goes through
`split`, then `get_line_table`, `retrieve_line_info` and one of the two ways to
find the function. The mode is read anew at each, so it may change between any
two.

`place` is external: libdwarf remembers which CU header comes next, so a walk
that ends in an exception is resumed behind the CU that raised it. The half
filled `cu_cache` is therefore completed and nothing is added twice
(`CacheBuiltOnce`), and only the CU that cannot be read is lost (`CUIsFound`). A
callback that wants to stop a walk at a CU does not: `walk_die_list` returns true
if its first call returns false, and a CU has no siblings. So a walk always ends
at the end of the CUs, and the last that holds the address wins.

`FrameIsFound` (of which `CUIsFound`, `LineIsFound` and `SymbolIsFound` are the
parts) compares an answer with what the debugging information says (`CUOf`,
`RowAt`, `FunctionAt`). What they leave out is what the code does not
do:

- `Unjoined`: `get_rangelist_entries` joins ranges one address apart, as its
  comment says; code of another CU that fills such a gap hides behind the joined
  range. No frame is given a wrong CU for it (`NeverWrong`).
- `Ordered`: rows are sorted by address alone, and ends are rows, so where the
  end of one sequence is the start of another that does not follow it at once,
  either may be found. Only where it does is the last of the equal rows the one
  that is kept.
- `InsideRow`: a walk is right only inside a row; at its first address the row
  before is given. Return addresses lie inside rows as
  a rule; the pc of a signal or one the program passes need not.
- In memory mode functions inside functions and all functions of split units are
  not found. A skeleton whose split file is missing raises an exception, and one
  that does not say where its file is (no `DW_AT_comp_dir` or no name,
  `dwarf_resolver.cpp:928-930`) has neither lines nor functions (`Located`).
- The walk for a function does not look inside an entry without ranges, as that of a
  class is (line 471), so what is declared there and defined nowhere else is not
  found.

The run takes a CU in two parts with another in the gap between them, of one
address or two, and varies either the lines, functions and contents, or what is
indexed and what cannot be read; in one mode and in all. The limits on line
tables are 1, where two CUs evict each other, and 2. Three frames are enough
for a failed attempt, the next, and a frame out of the cache; or for a table
that is made, evicted and made again.

### JitObjects

The vector of objects and the sorted list of ranges, changed in separate steps,
as no lock makes them one. Objects are named by a number that is never reused,
so a reference that outlives its object shows. With `Concurrent` false a caller
does one thing at a time. Files overlap in time but, as the JIT compiler owns
the memory, two files that are registered at once never overlap in place. The
five files of the run are two side by side, one that reuses the memory of both,
one without readable ranges and one that is not an object. A file has one `.text`
section, so one range (the code makes a range of each). `MCJitObjectsConcurrent`
has a caller that registers and unregisters while another looks up: the object
found may be gone when it is used. Functions have the
addresses the code looks for, offsets in the section. README line 1229 asks for
symbols at run-time addresses instead; the lookup subtracts the start of the
range from the address (`symbols_with_libdwarf.cpp:95`), so in such a file no
symbol is found. The model has the code's convention.

### MachO and DebugMap

A program without dSYM has, in its symbol table, a debug map: for each object
file its functions with their addresses in the program. A file is a function from
offsets to items (headers, load commands, entries, strings), each of a width and
byte order, that may be there up to some offset only; a missing file is there up
to none. `MachO` reads them in the order of the code, with the flags that keep a
second attempt from being made. `Images` has, for each file, what was written to
it for this machine: place, width and byte order of the image, its load commands,
its symbol table with names and values. `Written` says how that is laid out in the
file; around it a file may hold anything. The readers look at `Files` only;
`Images` is what assumptions and proofs compare with.

`DebugMap` is one trace after the other: the program is opened for its symbols,
the resolver made or found, and each frame goes through `resolve_frame` (the
closest function), `get_symbols` and `translate` (the same function in its
object), `make_dwarf_resolver` and `ask`, and `fall_back`. `complete` is the
build going on: a file that was cut off becomes whole, while a cache may hold
what was read before. Bases are looked up at any time, by other traces, as they
have a mutex of their own (`module_base.cpp:54`), and the cache mode is looked at
when an object is opened and again when the resolver is kept
(`symbols_with_libdwarf.cpp:43`), and may have changed. The run has a fat program whose first slice is of another
machine and byte order, two functions of one name in different objects, two
folded into one, so at one address, and a function the linker dropped; four
addresses in functions, one before all of them, one right behind a function and
one in none. `asked` is what tells a right name found for the wrong reason from a
right one. Of functions folded into one the code takes either: a frame without a
name from its object shows that the object of one of them was not whole, not of
all, and so `FrameIsItsFunction` says.

### Dbghelp

`ensure_syminit` takes the recursive lock a second time, looks at the cache mode,
starts a session, and looks at the mode again; the mode may change in between, by
any thread. An info owns its session or the cache does. If the cache has been
filled by then, the insertion fails and a `VERIFY` throws, and the session must
still be ended: `SessionsAreSound` has this, with handles that are duplicated or
not. Sessions know the modules that were loaded when they began;
`load_symbols_for_file` adds one, to the session of the cache, or to one that has
ended with the statement it came from. An exception raised while a frame is
resolved is thrown on or, by default, absorbed: then the frame has its address and no
name (`symbols_with_dbghelp.cpp:440-444`), and `last.threw` says so.

Types are written in two parts, in front of and behind a name.
`FrameIsRight` compares with `Declared`, which nests declarators from the outside
in as the C++ grammar does, for pointers, references, arrays, functions,
methods, pointers to members and their nesting in the fourteen types of the MC
module. That a frame has a name is asked of those whose resolution raised nothing, in
modules loaded before the session or by `load_symbols_for_file` in speed mode.
Three threads and two handles contain a thread that waits, one that is
between the two looks at the mode and one that fills the cache.

### Unwind and CInterface

A stack is the frames the library makes on the way from an entry point to
`capture_frames`, then those of the program. `adds(entry)` is what each function
on the way adds to `skip`. `TraceIsUserStack` says that no back-end and no entry
point loses a frame of the program or shows one of the library, for stacks of
three frames, one frame, and one interrupted by a signal, with skips of 0, 1 and
more than there is, and limits of 0, 1 and none; `HardMax` is 2, so it cuts. `build` fixes the back-end, and whether assertions are checked.

The rest is what a C client has. A structure is an array and strings, each a
block of `heap`; a failed conversion leaves `lost` what it had allocated, as the
code does. Once something is lost no further conversion fails halfway. Six
blocks (`MaxBlocks`) are the most in use: enough for a stack trace with an inlined
call next to the raw trace it is resolved from or the string made of it, and for
an object trace next to a stack trace of one frame. Two slots let one be resolved
from the other and freed before or after it.
`load` and `unload` replace the module at one place; on Windows the name found
first stays, so a path may be of a module that was there before, and
`PathAndAddressBelongTogether` holds because the base is looked up by the path.
The two modules need not be of one size: an address may be beyond the end of the
module whose path it gets, as it is in the run, and is still what that module
would have there. `build` also has the way a frame's module is looked up:
`_dl_find_object`, `dladdr1`, `dladdr` or a module handle, as CMake's probes choose.
But for the first, the base is looked up in the file, which may fail: `drop_error`
logs it (`utils/result.hpp:176`) and the frame keeps its path with an address of
0 (`object.cpp:153-156`), so the property is about frames with an address. The model
lets each look-up fail. The code remembers bases it has found, so it has
fewer behaviours. `resolve_frames` is a constant; an address it knows nothing
about gets a frame that is blank but for the address.

### Formatter, Snippet and PruneSymbol

`pimpl` and `impls` are the pointers and what they point to. A formatter moved
from may be assigned to and destroyed, nothing else. Assigning a formatter to
itself uses what was deleted; such formatters are put aside in `reassigned` and
not used again. A call of print is one step, and `last` is what it printed: an
entry per frame with number, frame, snippet and whether a new line follows.
`EntriesArePrinted` says what a reader expects, frame by frame, from the options;
`ColorIsDecided` the same of colors, over strings, files and streams, except where a
call asks for no colors of a formatter that always has them: what README 437 promises
there is `ColorParameterOverrides`, which `MCFormatterColor` finds violated. A formatter
assigned a copy may get the place of the options it had, deleted just before.
Places and formatters are symmetric in the run: neither is compared with anything
but its like.

`get_snippet` follows the arithmetic in `std::size_t` (of 64 values here, which
is more than any sum in the run), with contexts that are negative in the
parameter of `snippet_context`. `SnippetIsSmallestWindow` compares with the
smallest window that has the line and all lines in reach that are not blank.

`Pruned` is a constant operator of `Formatter`, the name it prints for a symbol, so
that what is proved of printing holds for any. In the run it is `prune_symbol`,
which is the whole parser, on tokens. `PrunedNameIsRight` says what it makes of
symbols: `PruneGivesTheName` puts 10 944
symbols together from return types, scopes, names, arguments and qualifiers, as
the demanglers of gcc, llvm and msvc write them, each with the name it should
have; `PruneInventsNothing` adds all sequences of up to three tokens of eleven
and of four of seven, and asks that the result is made of the symbol's own
identifiers in their order and is a fixed point. Calls that change formatters are
bounded by three: a copy, a move onto it, and the destruction of either is the
shortest way to share or lose options.

## What the runs show

| Run | Result |
|---|---|
| `MCExceptionTrace` | origin and rethrow are never confused, and the exception last seen is answered for |
| `MCElfObject` | raw traces by two threads, and all uses in memory mode: no race, right answers, parts read once, calls end |
| `MCBackEnds` | addr2line: whole or no answer, no leak but that of failed set-up; one thread ends, the largest request that fits included; dbghelp: sessions end once and are used while they last, names and signatures are right |
| `MCAddr2lineDeadlock` | violation: inherited pipe ends block two threads for ever |
| `MCResolveFrames` | failures cost no other frame anything, inlining is right, blanks are filled from their own addresses; one resolver per object in speed mode, none kept otherwise |
| `MCDwarfResolver` | in each mode an address gets its own CU, row and function, whatever is cached, evicted or failed; switching modes gives no wrong answer; the cache below it stays consistent and forgets the oldest only |
| `MCJitObjects` | one thread: ranges and objects agree, the right function is found |
| `MCJitObjectsConcurrent` | violation: an object another thread unregisters is gone when it is used |
| `MCFormatter` | no options are shared or lost; a trace is printed as its options say; snippets and pruned names are right |
| `MCFormatterColor` | violation: a color parameter of false loses to the mode "always" |
| `MCDebugMap` | the debug map is the linker's; a frame is looked for in its own object at its own place, whatever is missing; an object is tried once |
| `MCCInterface` | traces are the program's frames, memory of C structures is owned once, both printers agree, paths go with addresses |

Deadlock is not checked where a run bounds the calls, after which nothing is left
to do: the program may stop calling the library at any time. It is checked in
`MCDebugMap`, `MCCInterface` and `MCBackEnds`, whose programs go on for ever (in the
last those with dbghelp; the threads with addr2line come to an end). That
every call returns is stated by the liveness properties of `ElfObject` and
`Addr2line`. The longest runs are `MCCInterface` and `MCDebugMap`, with 1.1 and 1.2
million states, which take two to three minutes.

## Where the code departs from its documentation

Three runs show one each, listed under "findings": README 196, "All functions are
thread-safe unless otherwise noted", does not hold of addr2line
(`MCAddr2lineDeadlock`) nor of the JIT object manager, which has no lock
(`MCJitObjectsConcurrent`), and a color parameter of false does not override a mode of
always, as README 437 says it does (`MCFormatterColor`). The others
were met while modelling; the models have them, and the properties name them as
exceptions or the runs leave them out.

- README 586, "the exception most recently seen": after a nested exception, a
  rethrow of the outer one does not make its trace current again
  (`from_current.cpp:38`).
- README 196 again: raw and object traces use a shared elf under different locks
  (`elf.cpp:232`), so a good file can be refused; and two raw traces do if its program
  headers cannot be read. With these uses added, `AnswersMatchFile` and `DataRaceFree`
  are violated.
- `dwarf_resolver.cpp:752`, "find the last one": in hybrid and memory mode an
  address at which a row starts gets the row before (line 762).
- README 213, "address in memory": a JIT frame whose symbol was found keeps a raw
  address of zero (`symbols_with_libdwarf.cpp:94`).
- README 1229: symbols of JIT objects are looked up relative to their section.
- README 1269: outside speed mode `load_symbols_for_file` loads into a session
  that has ended (`symbols_with_dbghelp.cpp:489`).

Neither documented nor promised otherwise, but worth knowing: a formatter must
not be assigned to itself (`formatting.cpp:393`); a file shorter than the line of
a frame makes a snippet read past its lines (`snippet.cpp:126`); a mode switched
at the wrong moment makes `ensure_syminit` throw; `ctrace_safe_generate_raw_trace`
does not skip itself; execinfo throws when more is skipped than there is; the
limit of winapi includes what is skipped; the name of a replaced module is
remembered on Windows; an object frame whose base cannot be read has a path and an
address of 0; a failed capture leaves the trace of an earlier exception in place; a MinGW build loses a trace if dbghelp cannot be started;
the load commands of a fat file that cannot be read go unnoticed; a signature
ends in a comma or has locals in it where dbghelp does not list every parameter.

## What is proved

For every value of the constants under the named assumption of each module.
`PROJECT.json` lists the theorems with the properties they state.

### LruCache and DwarfResolver (`DwarfProofs`)

`LruCache`: type correctness, `Consistent`, `Bounded`,
`ReturnedEntryIsNewest`, and the refinement of `RecencyCache`. `Consistent` is
needed for the others: that a trim
removes the map entries of exactly the nodes it pops follows only if every
listed node is the one its key is mapped to, and a splice keeps the list free
of repetitions only if the node was in it once. The inductive invariant is `Inv`,
the conjunction of the four. For the refinement, the order of use is that of
the places in the list: a trim keeps the first places, which are the keys most
recently used, and the number of keys is the length of the list by the bijection
between them.

`DwarfResolver`: `CacheBuiltOnce`, `NeverWrong` and `FrameIsFound`, for any
debugging information, frames, limits and switches of the mode. The invariant
`DwarfIInv` says what each cache knows:

- `IndexInv`: as long as the mode is one, `cu_cache` holds the entries of exactly
  the readable CUs up to the place libdwarf has got to, each once. A failed attempt
  leaves `place` behind a CU that cannot be read, so there are at most as many
  failures as such CUs behind it.
- `TablesInv`: line tables are of different CUs, within the limit, and in the
  form of the mode they were built in.
- `WorkInv`, `CUInv`, `RowInv`, `SymbolInv`: what the frame in work has after each
  step, with and without a switch of the mode since.

On it rest lemmas about the searches: a search for the last entry not above an
address and a walk over everything that holds it find the same where ranges are
apart (for a walk over rows, where the address is inside a row). `DwarfAssumption`
says that ranges of CUs are apart, and so are those of functions, functions declared
inside others included, and that the sequences of rows of a CU have ends, do not lie
in each other and cover its ranges, as compilers and linkers write them.

### ExceptionTrace, Formatter and Snippet (`TraceProofs`)

`ExceptionTrace`: type correctness, `SwitchOnlyDuringRethrow`,
`TracesFiledByKind`, `TracesAnswerForLastSeen`, and the refinement of
`InterceptedExceptions`. The
inductive invariant adds `SwitchSetForSearch`: that a rethrow is filed right
follows from the switch being set while it is searched from, which in turn needs
the guard to be the innermost frame, so that no user code runs before the reset.

`Formatter`: `FormattersOwnTheirImpls`, for any number of formatters, places for
options, and calls. The invariant adds that pointers point to places and places
hold options. One lemma (`Replaced`) has what copies, moves and
destructions share: a pointer is given to a formatter, the place of the one it
had is emptied, and no other formatter has either.

`TraceIsPrinted`, for any traces, options, filter, transform and pruning (with the
exception `ColorIsDecided` makes). The
entries printed are collected from the frames behind the exception machinery
that pass the filter; that they are in order and rightly numbered is a counting
argument over `Filter` (the n-th collected is that of the n-th that passes), and
the last one is known from its place.

`SnippetIsSmallestWindow`, for every file and line. The sums and differences in
`std::size_t` are those of the integers, since the assumption has lines and context
together below its maximum; then the two loops that trim blank lines stop at the
least and the greatest line within reach that has to be shown. Neither needs more of
the state than that what was remembered of a file is the file (`ManagersOK`).

### ElfObject and DebugMap (`ObjectFileProofs`)

`ElfObject`: for any number of threads. `ReadOnce` holds whatever the
threads do: a part is marked as tried when its read begins, and only a thread that
found it untried begins one. `DataRaceFree` and
`AnswersMatchFile` need a hypothesis, `SafeUse`: the model also has the uses the
code does not protect (a raw and an object trace on one elf, under different
locks), in which both are false, so the theorems say in which uses they are true,
which are the ones of the run: a shared elf is used for raw traces only, and its
program headers can be read. The
invariant says who holds which lock at which point, how calls that need each
other's parts nest, that a call still to read its part has marked it, and that
the header of a shared elf is settled once anyone has the base of its module.

`DebugMap`: `TriedOnce`, `ImageBaseIsOwn`, `DebugMapIsLinkers` and
`FrameIsItsFunction`, for any files that linker and compiler wrote, fat or thin,
however many load commands, entries and functions they have, wherever they are cut
off and whenever they become whole. The invariant `DebugMapInv` has four parts:

- `MachinesInv`: what is opened, cached or not, has the place, width, byte order
  and load commands of this machine's image, and its symbol table as written or
  none; a failure is possible only for a file that was not whole, and the
  base of the program is that of its own text.
- `ResolverOK`: of each object an attempt is counted only if it left something
  behind, a resolver or the mark that there is none, and the code is about to make a
  resolver only for an object that has neither. This alone gives `TriedOnce`, with no
  assumption on what the files hold.
- `SymbolsInv`: the functions of the resolver are the linker's, the symbols of a
  target those of its object, or there are none and the file was not whole.
- `FrameInv`: at each step, the function the frame is in, the place asked for, the
  name found so far.

Below it are lemmas on each reader of `MachO`. The load commands are read one after
the other, each where the one before ends, so `CommandsLoaded` is an induction over
them: as far as the file goes they are the image's. `DebugMapRead` and
`SectionsRead` show that from a table read as it was written come the linker's map
and the symbols of its sections. Then the closest function is the one an
address is in, as functions are apart (`ClosestFunction`); the place asked for is in
that function of its object and in no other that is not folded with it
(`AddressInObject`, `AskedFunctions`); and the closest symbol of the program, the
last resort, is of a function at the address.

### ResolveFrames (`ResolveFramesProofs`)

`ResolverMadeOnce`, `FailuresFollowOption` and
`TraceIsComplete`, for all traces, objects, back-ends and modes. The
invariant follows the trace through the code: what is grouped, which groups are
done and in what order, which frames of the current one have their answers, and
that a frame that is done has its calls, place and symbol. A failure leaves it
intact, as the frames not reached keep what they had. That inlined calls
laid end to end keep the order of the frames is `FlattenAligned` of
`SequenceLemmas`.

### JitObjects (`JitObjectsProofs`)

`RangesHaveObjects` for any registrations of any files, and `SymbolIsRight` for
one thread (`~Concurrent`: with more it is false, as
`MCJitObjectsConcurrent` shows) and `OrdinaryFiles`, files whose
functions have distinct addresses and do not overlap. The list of ranges is
sorted and its ranges do not overlap, since files that are registered at once do not; so
the last range that starts at or before an address is the only one that can have it.

### Addr2line and Dbghelp (`BackEndProofs`)

`Addr2line`: `AnswerIsWhole` and `NothingLeaks`, for any threads, requests,
lines and capacities of a pipe, with children that inherit each other's
descriptors. The invariant (`ThreadInv`) is about each thread alone: requests
not reached are untouched, finished ones are over, and of the current one it
says which descriptors are open at each step, and that the lines
still to write, in the pipes, in the child and read add up to those asked for.

`Dbghelp`: `SessionsAreSound`, for any threads, handles and libraries. By the
invariant at most one thread is past its start (`Only`); what it holds, as owner or
as one who looks at the session of the cache, and what the cache holds, are all
the sessions and duplicated handles there are (`SessionInv`), and the depth
of the lock is that of the call it is in. A switch of the mode between the two
looks, or a cache filled by then, leaves the session with its info.

`FrameIsRight`, for any functions and types, and any resolution that raises an
exception. Writing a type from the inside out,
in a part before and a part behind the name, gives what the grammar of
declarators gives from the outside in: `TypesAreDeclared`, by course-of-values
induction over the table, in which the parts of a type come before it. That is
`TypesAssumption`: no type is part of itself, which any such table can be ordered
by; arguments are parts of functions only, which count them.

### CInterface (`CInterfaceProofs`)

`TraceIsUserStack`, for stacks of any length, any skip and
limit, every entry point and every back-end. Each window is shown to begin right
below the frames of the library, whose number is what the functions on the way
add to `skip`, and to have the length the property states, so that what the
property excepts (own frames, `execinfo`, a limit of zero, the limit on Windows)
is all there is. `HeapIsOwned`: the invariant adds that a structure is whole, the
rows of a structure without an array being none, and what `Fresh` gives is shown
to be blocks not in use, each once, so that array and strings have one each
(`ObjectIsWhole`, `StackIsWhole`). `PathAndAddressBelongTogether`, for each way to look up a module, needs that the
name remembered for a place is of a module that is loaded at this place.
`ShownAlike` holds row by row: both printers cut the location of a frame at the
first part that is missing.

### Lemmas about sequences (`SequenceLemmas`)

`SequenceLemmas` has induction and recursion over natural numbers as sets
(`Induction`, `Recursion`, from the well-foundedness of `<`), and with them what
the definitions of `Filter`, `FlattenSeq` and `InsertAt` make of every sequence.
The library's `SelectSeq` is out of the prover's reach, so models that are proved
about use `Filter` for it.

### Assumptions

They type the constants, and say what there is at least of what the
code needs: one request, one line in it, a pipe that holds one. A symbol that an
elf holds is in a table it has. In `Unwind` no stack is longer than SIZE_MAX; in `Formatter` no file has that many
lines, not even with the context added. In `ResolveFrames` "none" stands for an
empty string. `FunctionsAssumption` says when dbghelp's list of a function counts
as complete: it begins with the object and the parameters, and the number given is
theirs; `FrameIsRight` is about those. `TypesAssumption` and `DwarfAssumption` are
explained above.

Those of `MachO` and `DebugMap` say what linker and compiler write, and `MCDebugMap`
evaluates them on its files. `MachOAssumption`: each file holds its image as
`Written` says. `ErrorAssumption`: what is read is neither of the two model values.
`TextAssumption`: the first `__TEXT` segment has the base. `LinkerAssumption`: a
function is an entry with its name and one right behind it with its size, after that
of its object. `FunctionsAssumption`: functions are at one place or apart, in the
program and in their objects, and the symbol tables have them.

### Only model-checked, and why

- All liveness: TLAPS 1.4 handles neither fairness nor ENABLED.
- `PrunedNameIsRight`: the tokenizer and the parser are recursive over symbols.

## Plan

Done, in this order: `LruCache`, `ExceptionTrace`, `ElfObject`, `Addr2line`,
`ResolveFrames`, `JitObjects`, `DwarfResolver`, `PruneSymbol`, `Snippet`,
`Formatter`, `MachO`, `DebugMap`, `Unwind`, `CInterface`, `Dbghelp`; then the
proofs of the first six and of `CInterface`, and those of `DwarfResolver`,
`Dbghelp`, `Formatter`, `Snippet`, `DebugMap` and `MachO`.

Open: inlined calls of `DwarfResolver` (`get_inlines_info`) and the file names they take from
`srcfiles_cache`.

## Not modelled

- The vtable surgery of `from_current.cpp` and the memory mapping it uses, SEH on
  Windows: they rewrite the run-time library.
- Copies of lazy holders, `lazy_exception`, `nested_exception`: values. Sharing one
  between threads is the client's race.
- libbacktrace and libdl back-ends, demangling: calls into a library.
- PE and the printers of Mach-O: stateless readers and output.
- Of the formatter: pretty symbols, address and path modes, widths and line breaks.
- Of the C interface: `ctrace_demangle` and the wrappers of options.
- Walks from an `EXCEPTION_POINTERS`, failures of `SymCleanup` and `CloseHandle`.
- Logging and value classes.
