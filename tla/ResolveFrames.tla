--------------------------- MODULE ResolveFrames ---------------------------
(***************************************************************************)
(* stacktrace and object_trace resolution with libdwarf: resolve_frames    *)
(* (src/src/symbols/symbols_with_libdwarf.cpp) groups the frames of a      *)
(* trace by object, gets a resolver for each object, resolves each frame,  *)
(* falls back to symbol tables, fills in what could not be resolved and    *)
(* flattens inlined calls into the trace.  One call runs at a time, under  *)
(* a mutex; the options it reads may be set by other threads at any time.  *)
(* With MinGW dbghelp is asked for what libdwarf left blank (fill_blanks,  *)
(* src/src/symbols/symbols_core.cpp).                                      *)
(*                                                                         *)
(* What a resolver makes of an address is its own affair: a frame with     *)
(* some inlined calls, perhaps without a symbol, or an exception.          *)
(***************************************************************************)
EXTENDS Integers, Sequences, SequencesExt, Filter

CONSTANTS
  Objects, NoObject,   \* object paths; the empty path
  None,
  Programs,            \* what the program does: the traces it resolves, one
                       \* after the other, each a sequence of objects, and
                       \* the values it gives the options; and whether it is
                       \* built with MinGW
  MaxInlines           \* bound on the inlined calls at an address

\* What is told apart of the path of a frame, and of its symbol: by whom it was
\* found, and "none" where the code has an empty string.
Paths == {"none", "object", "source"}
Symbols == {"none", "jit", "symtab", "dwarf", "dbghelp"}

ASSUME ResolveAssumption ==
  /\ NoObject \notin Objects
  /\ None \notin [raw : Nat, path : Paths, symbol : Symbols, inlines : Nat, placed : BOOLEAN]
  /\ MaxInlines \in Nat
  /\ \A p \in Programs : /\ p.traces \in Seq(Seq(Objects \cup {NoObject}))
                         /\ p.modes \subseteq {"speed", "hybrid", "memory"}
                         /\ p.absorb \subseteq BOOLEAN
                         /\ p.mingw \in BOOLEAN

VARIABLES
  program,
  mode, absorb,        \* options, atomics
  resolver_map,        \* objects with a cached resolver
  input,               \* the object of each frame; frame i has raw address i
  trace,               \* the frames so far, with the number of their inlined calls
  groups,              \* objects not yet begun
  object, rest,        \* the object in work and its frames not yet resolved
  phase,
  result,
  calls,
  given,               \* history: the frames resolvers returned, None if they threw
  failed,              \* history: whether something threw in this call
  absorbs, modes,      \* history: values the options had during this call; ever
  made                 \* history: the resolvers made for each object

options == <<program, mode, absorb>>
call == <<input, groups, object, rest, phase, trace, result, calls>>
history == <<given, failed, absorbs, modes, made>>
vars == <<options, resolver_map, call, history>>

\* placed says whether the inlined calls come with the places they are called at.
Frame(raw, path, symbol, inlines, placed) ==
  [raw |-> raw, path |-> path, symbol |-> symbol, inlines |-> inlines, placed |-> placed]
null_frame == Frame(0, "none", "none", 0, TRUE)
basic_frame(i) == Frame(i, IF input[i] = NoObject THEN "none" ELSE "object", "none", 0, TRUE)

\* collate_frames: the frames of an object, in trace order.
Group(o) == Filter([i \in DOMAIN input |-> i], {i \in DOMAIN input : input[i] = o})

-----------------------------------------------------------------------------
\* flatten_inlines.  A function of frame i is <<i, 0>>, its inlined calls are
\* <<i, 1>> (the outermost) and on, innermost last.  A resolver gives a frame
\* the source location of the address, here named <<i, 0>>, and an inlined
\* call <<i, j>> the place it is called at, named <<i, j>>.  by is the address
\* dbghelp was asked for.
Entry(raw, fn, symbol, path) ==
  [raw |-> raw, fn |-> fn, loc |-> fn, symbol |-> symbol, path |-> path, by |-> 0]

\* Inlined calls in reverse, then the frame, whose locations are then rotated
\* by one towards the end; the last goes to the front.
segment(i, f) ==
  [k \in 1 .. f.inlines + 1 |->
     LET j == f.inlines + 1 - k
     IN IF j = 0 THEN Entry(f.raw, <<i, 0>>, f.symbol, f.path)
        ELSE Entry(0, <<i, j>>, "dwarf", IF f.placed THEN "source" ELSE "none")]
rotate(s) ==
  [k \in DOMAIN s |->
     LET from == s[IF k = 1 THEN Len(s) ELSE k - 1]
     IN [s[k] EXCEPT !.loc = from.loc, !.path = from.path]]
\* Mutant: the locations stay where the resolver put them.
flatten_inlines_unrotated(frames) ==
  FlattenSeq([i \in DOMAIN frames |-> segment(i, frames[i])])

flatten_inlines(frames) ==
  FlattenSeq([i \in DOMAIN frames |-> rotate(segment(i, frames[i]))])

-----------------------------------------------------------------------------
Init ==
  /\ program \in Programs
  /\ mode \in program.modes /\ absorb \in program.absorb
  /\ resolver_map = {}
  /\ input = <<>> /\ trace = <<>> /\ result = <<>>
  /\ groups = {} /\ object = NoObject /\ rest = <<>>
  /\ phase = "idle"
  /\ calls = 0
  /\ given = <<>> /\ failed = FALSE
  /\ absorbs = {absorb} /\ modes = {mode}
  /\ made = [o \in Objects |-> 0]

\* set_cache_mode, absorb_trace_exceptions
set_options ==
  /\ mode' \in program.modes /\ absorb' \in program.absorb
  /\ absorbs' = absorbs \cup {absorb'}
  /\ modes' = modes \cup {mode'}
  /\ UNCHANGED <<program, resolver_map, call, given, failed, made>>

resolve_frames(in) ==
  /\ phase = "idle"
  /\ calls' = calls + 1
  /\ input' = in
  /\ trace' = [i \in DOMAIN in |-> null_frame]
  /\ groups' = ToSet(in)
  /\ phase' = "groups"
  /\ result' = <<>>
  /\ given' = [i \in DOMAIN in |-> None]
  /\ failed' = FALSE
  /\ absorbs' = {absorb}
  /\ UNCHANGED <<options, resolver_map, object, rest, modes, made>>

\* Frames without an object may be JIT frames: only the symbol is filled in.
resolve_jit_group ==
  /\ phase = "groups" /\ NoObject \in groups
  /\ groups' = groups \ {NoObject}
  /\ \E found \in IF program.mingw THEN {{}} ELSE SUBSET ToSet(Group(NoObject)) :
       trace' = [i \in DOMAIN trace |->
                   IF i \in found THEN [trace[i] EXCEPT !.symbol = "jit"] ELSE trace[i]]
  /\ UNCHANGED <<options, resolver_map, input, object, rest, phase, result, calls, history>>

\* Mutant: a resolver is kept whatever the mode.
get_resolver_kept_always(o) ==
  \/ o \in resolver_map /\ UNCHANGED <<resolver_map, made>>
  \/ /\ o \notin resolver_map
     /\ made' = [made EXCEPT ![o] = @ + 1]
     /\ resolver_map' = resolver_map \cup {o}

\* get_resolver: from the cache, or made; kept if the mode is speed by now.
get_resolver(o) ==
  \/ o \in resolver_map /\ UNCHANGED <<resolver_map, made>>
  \/ /\ o \notin resolver_map
     /\ made' = [made EXCEPT ![o] = @ + 1]
     /\ resolver_map' = IF mode = "speed" THEN resolver_map \cup {o} ELSE resolver_map

begin_group(o) ==
  /\ phase = "groups" /\ o \in groups
  /\ groups' = groups \ {o}
  /\ get_resolver(o)
  /\ object' = o /\ rest' = Group(o)
  /\ phase' = "frames"
  /\ UNCHANGED <<options, input, trace, result, calls, given, failed, absorbs, modes>>

\* The resolver for the object cannot be made.
begin_group_throws(o) ==
  /\ phase = "groups" /\ o \in groups /\ o \notin resolver_map
  /\ groups' = groups \ {o}
  /\ phase' = "caught"
  /\ failed' = TRUE
  /\ UNCHANGED <<options, resolver_map, input, object, rest, trace, result, calls,
                 given, absorbs, modes, made>>

\* The fallback to the symbol tables of an object.
SymbolTable == IF program.mingw THEN {"none"} ELSE {"none", "symtab"}

\* try_resolve_frame, and the fallback, for the next frame.
resolve_frame ==
  /\ phase = "frames" /\ rest # <<>>
  /\ rest' = Tail(rest)
  /\ \E n \in 0 .. MaxInlines, symbol \in SymbolTable \cup {"dwarf"},
        placed \in {TRUE, ~program.mingw} :
       trace' = [trace EXCEPT ![Head(rest)] = Frame(Head(rest), "source", symbol, n, placed)]
  /\ given' = [given EXCEPT ![Head(rest)] = trace'[Head(rest)]]
  /\ UNCHANGED <<options, resolver_map, input, groups, object, phase, result, calls,
                 failed, absorbs, modes, made>>

\* The resolver throws: logged, and if absorbed the frame gets what is known.
resolve_frame_throws ==
  /\ phase = "frames" /\ rest # <<>>
  /\ failed' = TRUE
  /\ IF absorb
     THEN /\ rest' = Tail(rest)
          /\ \E symbol \in SymbolTable :
               trace' = [trace EXCEPT ![Head(rest)] = [basic_frame(Head(rest)) EXCEPT
                                                         !.symbol = symbol]]
          /\ UNCHANGED phase
     ELSE phase' = "caught" /\ UNCHANGED <<rest, trace>>
  /\ UNCHANGED <<options, resolver_map, input, groups, object, result, calls,
                 given, absorbs, modes, made>>

end_group ==
  /\ phase = "frames" /\ rest = <<>>
  /\ phase' = "groups"
  /\ UNCHANGED <<options, resolver_map, input, groups, object, rest, trace, result,
                 calls, history>>

\* Mutant: the handler around a group absorbs whatever the option.
catch_group_always_absorbs ==
  /\ phase = "caught"
  /\ phase' = "groups"
  /\ rest' = <<>>
  /\ UNCHANGED <<options, resolver_map, input, groups, object, trace, result, calls, history>>

\* The handler around a group: logged, and if absorbed the rest of the group
\* is skipped.
catch_group ==
  /\ phase = "caught"
  /\ phase' = IF absorb THEN "groups" ELSE "thrown"
  /\ rest' = <<>>
  /\ UNCHANGED <<options, resolver_map, input, groups, object, trace, result, calls, history>>

\* Basic information for frames that are still null, and flatten_inlines.
finish ==
  /\ phase = "groups" /\ groups = {}
  /\ LET filled == [i \in DOMAIN trace |->
                      IF trace[i] = null_frame THEN basic_frame(i) ELSE trace[i]]
     IN result' = flatten_inlines(filled)
  /\ phase' = IF program.mingw THEN "fill" ELSE "done"
  /\ UNCHANGED <<options, resolver_map, input, groups, object, rest, trace, calls, history>>

-----------------------------------------------------------------------------
\* fill_blanks.  dbghelp gives a frame for each address: none, without a place or
\* with one.  It knows nothing of address zero, that of an inlined call.
Answers(address) ==
  {[symbol |-> "none", path |-> "none"]}
  \cup (IF address = 0 THEN {} ELSE [symbol : {"dbghelp"}, path : {"none", "source"}])

blank(entry) == entry.symbol = "none" \/ entry.path = "none"
overwrite(entry, address, answer) ==
  [entry EXCEPT !.by = address,
                !.symbol = IF @ = "none" THEN answer.symbol ELSE @,
                !.raw = IF entry.symbol = "none" /\ entry.path = "none" THEN address ELSE @,
                !.path = IF @ = "none" THEN answer.path ELSE @,
                !.loc = IF entry.path = "none" /\ answer.path # "none" THEN <<address, 0>> ELSE @]

\* The n-th answer goes to the n-th frame that is blank.
fill_blanks ==
  /\ phase = "fill"
  /\ LET blanks == Filter([k \in DOMAIN result |-> k], {k \in DOMAIN result : blank(result[k])})
         address(n) == result[blanks[n]].raw
         n_of(k) == CHOOSE n \in DOMAIN blanks : blanks[n] = k
     IN \E answers \in [DOMAIN blanks -> UNION {Answers(address(n)) : n \in DOMAIN blanks}] :
          /\ \A n \in DOMAIN blanks : answers[n] \in Answers(address(n))
          /\ result' = [k \in DOMAIN result |->
                          IF blank(result[k])
                          THEN overwrite(result[k], address(n_of(k)), answers[n_of(k)])
                          ELSE result[k]]
  /\ phase' = "done"
  /\ UNCHANGED <<options, resolver_map, input, groups, object, rest, trace, calls, history>>

\* dbghelp cannot be initialized, whatever the option; or it fails for a frame
\* and that is not absorbed.
fill_blanks_throws ==
  /\ phase = "fill"
  /\ phase' = "thrown"
  /\ failed' = TRUE
  /\ UNCHANGED <<options, resolver_map, input, groups, object, rest, trace, result, calls,
                 given, absorbs, modes, made>>

\* stacktrace::resolve's own handler: an empty trace, or the exception.
catch_call ==
  /\ phase = "thrown"
  /\ phase' = IF absorb THEN "empty" ELSE "propagated"
  /\ UNCHANGED <<options, resolver_map, input, groups, object, rest, trace, result,
                 calls, history>>

return ==
  /\ phase \in {"done", "empty", "propagated"}
  /\ phase' = "idle"
  /\ UNCHANGED <<options, resolver_map, input, groups, object, rest, trace, result,
                 calls, history>>

Next ==
  \/ set_options
  \/ calls < Len(program.traces) /\ resolve_frames(program.traces[calls + 1])
  \/ \E o \in Objects : begin_group(o) \/ begin_group_throws(o)
  \/ resolve_jit_group \/ resolve_frame \/ resolve_frame_throws \/ end_group
  \/ catch_group \/ finish \/ fill_blanks \/ fill_blanks_throws \/ catch_call \/ return

Spec == Init /\ [][Next]_vars

-----------------------------------------------------------------------------
\* What a reader of the trace expects of frame i: the calls that were inlined
\* into it, innermost first, then the function itself, each at the place it
\* had reached; and only the function if nothing could be resolved.
Expected(i) ==
  LET n == IF given[i] = None THEN 0 ELSE given[i].inlines
  IN [k \in 1 .. n + 1 |->
        LET j == n + 1 - k
        IN [fn |-> <<i, j>>, loc |-> IF j = n THEN <<i, 0>> ELSE <<i, j + 1>>]]

\* Whatever groups and frames fail and in whatever order groups are taken,
\* the resolved trace has the frames in the order of the input, each after its
\* own inlined calls and with its own locations: a failure costs no other
\* frame anything, and a frame that was found in an object not even its raw
\* address.  A JIT frame whose symbol was found has none: it is zero.
\* With MinGW a frame is blank only if dbghelp was asked for its own address.  A
\* function into which a call was inlined at an unknown place is then placed at
\* the address, which is inside the call.
TraceIsComplete ==
  phase = "done" =>
    LET expected == FlattenSeq([i \in DOMAIN input |-> Expected(i)])
    IN /\ Len(result) = Len(expected)
       /\ \A k \in DOMAIN result :
            LET i == result[k].fn[1]
            IN /\ result[k].fn = expected[k].fn
               /\ \/ result[k].loc = expected[k].loc
                  \/ given[i] # None /\ ~given[i].placed /\ result[k].loc = <<i, 0>>
               /\ result[k].fn[2] = 0 /\ (input[i] # NoObject \/ program.mingw)
                    => result[k].raw = i
               /\ program.mingw /\ blank(result[k]) => result[k].by = result[k].raw

\* absorb_trace_exceptions decides what a failure does: as long as it is on
\* the caller gets no exception, and a full trace unless dbghelp failed to fill
\* one in; as long as it is off the caller gets the exception and no trace.
FailuresFollowOption ==
  /\ absorbs = {TRUE} => /\ phase # "propagated"
                         /\ phase \in {"thrown", "empty"} => program.mingw
  /\ absorbs = {FALSE} /\ failed => phase \notin {"groups", "fill", "done", "empty"}

\* In speed mode no object is opened by libdwarf twice, and in the other modes
\* no resolver outlives its group.
ResolverMadeOnce ==
  /\ modes = {"speed"} => \A o \in Objects : made[o] <= 1
  /\ "speed" \notin modes => resolver_map = {}
=============================================================================
