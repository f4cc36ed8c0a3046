------------------------------ MODULE Formatter ------------------------------
(* cpptrace::formatter: its options, kept in an object of its own behind a      *)
(* pointer, the copies and moves of formatters, and the printing of frames and  *)
(* traces with it.  Printing prunes symbols (PrunedNames) and adds snippets     *)
(* (Snippet).  Layout is left out: header, addresses, paths, columns, widths    *)
(* and line breaks before file names, as are the codes of the colors.           *)
EXTENDS Snippet, Filter

CONSTANTS
  Formatters,     \* places where a formatter can be
  Impls,          \* addresses a formatter::impl can have
  Traces,         \* traces to print: sequences of frames
  Symbols,        \* symbols for cpptrace::prune_symbol, each with the qualified name
                  \* of the function it is the symbol of, or <<>> if it is of none
  Pruned(_),      \* what cpptrace::prune_symbol makes of a symbol
  Contexts,       \* arguments of snippet_context
  Wanted(_),       \* the client's filter
  Change(_),      \* the client's transform
  Terminals,      \* streams that are terminals
  NullImpl, NoFile, NoLine,
  MaxCalls        \* bound on the calls that change formatters

VARIABLES
  pimpl,          \* the formatters there are -> impl*
  impls,          \* the impls allocated -> options
  reassigned,     \* formatters that were assigned to themselves
  last,           \* what the last call printed or returned
  calls

formatter_vars == <<managers, pimpl, impls, reassigned, last, calls>>

OptionValues == [color |-> {"automatic", "always", "none"}, symbols |-> {"full", "pruned"},
            snippets |-> BOOLEAN, context |-> Contexts, placeholders |-> BOOLEAN,
            hideMachinery |-> BOOLEAN, filter |-> BOOLEAN, transform |-> BOOLEAN]
Defaults == [color |-> "automatic", symbols |-> "full", snippets |-> FALSE, context |-> 2,
             placeholders |-> TRUE, hideMachinery |-> TRUE, filter |-> FALSE,
             transform |-> FALSE]
Streams == {"string", "file", "cout", "stream"}
Overrides == {"unset", "yes", "no"}
FramesOf(traces) == UNION {{t[i] : i \in DOMAIN t} : t \in traces}

\* Files end within 10 MiB and a context is an int, so no line number that is
\* computed overflows a std::size_t.
ASSUME FormatterAssumption ==
  /\ NullImpl \notin Impls /\ Terminals \subseteq {"cout", "stream"}
  /\ Contexts \subseteq Int /\ 2 \in Contexts
  /\ \A trace \in Traces : trace \in Seq(FramesOf(Traces))
  /\ \A path \in DOMAIN Sources :
       Sources[path] = Unreadable \/ LET n == Len(Sources[path])
                                     IN n \in Nat /\ \A c \in Contexts : n + c + 1 < SizeModulus
  /\ \A frame \in FramesOf(Traces) :
       {frame.file, Change(frame).file} \subseteq DOMAIN Sources \cup {NoFile}

Unprinted == [op |-> "nothing"]

FormatterInit ==
  /\ managers = [p \in {} |-> {}]
  /\ pimpl = [f \in {} |-> NullImpl]
  /\ impls = [i \in {} |-> Defaults]
  /\ reassigned = {} /\ last = Unprinted /\ calls = 0

Live(f) == f \in DOMAIN pimpl /\ f \notin reassigned
\* A formatter that was moved from has no options: it may only be assigned to or
\* destroyed.
Usable(f) == Live(f) /\ pimpl[f] # NullImpl
Without(i) == [j \in DOMAIN impls \ {i} |-> impls[j]]
With(heap, i, options) == [j \in DOMAIN heap \union {i} |-> IF j = i THEN options ELSE heap[j]]
Holding(f, i) == [g \in DOMAIN pimpl \union {f} |-> IF g = f THEN i ELSE pimpl[g]]
Changed == /\ calls < MaxCalls /\ calls' = calls + 1
           /\ last' = Unprinted /\ UNCHANGED managers

\* formatter::formatter()
construct(f) ==
  /\ f \notin DOMAIN pimpl
  /\ \E i \in Impls \ DOMAIN impls : pimpl' = Holding(f, i) /\ impls' = With(impls, i, Defaults)
  /\ Changed /\ UNCHANGED reassigned

copy_construct(f, other) ==
  /\ f \notin DOMAIN pimpl /\ Usable(other)
  /\ \E i \in Impls \ DOMAIN impls :
       pimpl' = Holding(f, i) /\ impls' = With(impls, i, impls[pimpl[other]])
  /\ Changed /\ UNCHANGED reassigned

\* The impl is left in the formatter moved from.
move_construct_sharing(f, other) ==
  /\ f \notin DOMAIN pimpl /\ Live(other)
  /\ pimpl' = Holding(f, pimpl[other])
  /\ Changed /\ UNCHANGED <<impls, reassigned>>

move_construct(f, other) ==
  /\ f \notin DOMAIN pimpl /\ Live(other)
  /\ pimpl' = [Holding(f, pimpl[other]) EXCEPT ![other] = NullImpl]
  /\ Changed /\ UNCHANGED <<impls, reassigned>>

\* The impl of f is deleted first, so when other is f it is read after that, and
\* what was its place may be the new one's.
copy_assign(f, other) ==
  /\ Live(f) /\ Usable(other)
  /\ LET left == Without(pimpl[f])
     IN \E i \in Impls \ DOMAIN left :
          /\ \E options \in IF f = other THEN {Defaults, impls[pimpl[f]]} ELSE {impls[pimpl[other]]} :
               impls' = With(left, i, options)
          /\ pimpl' = Holding(f, i)
  /\ reassigned' = IF f = other THEN reassigned \union {f} ELSE reassigned
  /\ Changed

\* When other is f, the pointer to the deleted impl is put back.
move_assign(f, other) ==
  /\ Live(f) /\ Live(other)
  /\ impls' = Without(pimpl[f])
  /\ pimpl' = [pimpl EXCEPT ![other] = NullImpl, ![f] = pimpl[other]]
  /\ reassigned' = IF f = other /\ pimpl[f] # NullImpl THEN reassigned \union {f} ELSE reassigned
  /\ Changed

destroy(f) ==
  /\ Live(f)
  /\ pimpl' = [g \in DOMAIN pimpl \ {f} |-> pimpl[g]]
  /\ impls' = Without(pimpl[f])
  /\ Changed /\ UNCHANGED reassigned

\* The setters.
configure(f) ==
  /\ Usable(f)
  /\ \E option \in DOMAIN OptionValues : \E value \in OptionValues[option] :
       impls' = [impls EXCEPT ![pimpl[f]] = [@ EXCEPT ![option] = value]]
  /\ Changed /\ UNCHANGED <<pimpl, reassigned>>
-----------------------------------------------------------------------------
should_do_color(mode, override, terminal) ==
  \/ mode = "always" \/ override = "yes"
  \/ mode \in {"automatic", "always"} /\ override # "no" /\ terminal

\* Strings and FILE*s are written through a string, which is never a terminal.
Color(options, override, stream) ==
  LET settled == IF override # "unset" THEN override
                 ELSE IF options.color = "always" THEN "yes" ELSE "no"
  IN  IF stream \in {"string", "file"} THEN should_do_color(options.color, settled, FALSE)
      ELSE should_do_color(options.color, override, stream \in Terminals)

Throw == {<<"__cxa_throw">>, <<"CxxThrowException">>, <<"_CxxThrowException">>}
\* The throw itself is shown.
get_trace_start_at_throw(options, trace) ==
  LET throws == {i \in DOMAIN trace : trace[i].symbol \in Throw} IN
  IF options.hideMachinery /\ throws # {} THEN Min(throws) ELSE 1

get_trace_start(options, trace) ==
  LET throws == {i \in DOMAIN trace : trace[i].symbol \in Throw} IN
  IF options.hideMachinery /\ throws # {} THEN Min(throws) + 1 ELSE 1

Transformed(options, frame) == IF options.transform THEN Change(frame) ELSE frame
FilteredOut(options, frame) == options.filter /\ ~Wanted(frame)

write_frame(options, frame) ==
  [symbol |-> IF options.symbols = "pruned" THEN Pruned(frame.symbol) ELSE frame.symbol,
   file |-> frame.file, line |-> IF frame.file = NoFile THEN NoLine ELSE frame.line]

HasSnippet(options, frame) ==
  options.snippets /\ frame.line # NoLine /\ frame.file # NoFile
snippet_of(options, frame) ==
  IF HasSnippet(options, frame)
  THEN get_snippet(get_manager(frame.file), frame.line, options.context) ELSE NoSnippet

\* write_trace: one entry for each frame printed, each ended by a new line or not.
entry(options, trace, i) ==
  LET frame == Transformed(options, trace[i])
      number == i - get_trace_start(options, trace)
  IN IF FilteredOut(options, frame)
     THEN [number |-> number, ended |-> i # Len(trace), filtered |-> TRUE]
     ELSE [number |-> number, ended |-> i # Len(trace), filtered |-> FALSE,
           frame |-> write_frame(options, frame), snippet |-> snippet_of(options, frame)]

printed(options, trace) ==
  {i \in get_trace_start(options, trace) .. Len(trace) :
     options.placeholders \/ ~FilteredOut(options, Transformed(options, trace[i]))}
write_trace(options, trace) ==
  LET indices == Filter([i \in 1 .. Len(trace) |-> i], printed(options, trace))
  IN [k \in DOMAIN indices |-> entry(options, trace, indices[k])]

FilesShown(options, frames) ==
  {Transformed(options, frame).file : frame \in
     {g \in frames : /\ HasSnippet(options, Transformed(options, g))
                     /\ ~FilteredOut(options, Transformed(options, g))}}

\* formatter::print and formatter::format of a trace; one print between two calls
\* that change a formatter is enough, as it changes only what files were read.
print(f, trace, stream, override) ==
  LET options == impls[pimpl[f]]
      start == get_trace_start(options, trace)
      shown == FilesShown(options, {trace[i] : i \in start..Len(trace)})
  IN
  /\ Usable(f) /\ last = Unprinted
  /\ last' = [op |-> "trace", options |-> options, trace |-> trace, stream |-> stream,
              override |-> override, color |-> Color(options, override, stream),
              entries |-> write_trace(options, trace)]
  /\ managers' = [p \in DOMAIN managers \union shown |-> get_manager(p)]
  /\ UNCHANGED <<pimpl, impls, reassigned, calls>>

\* The same for a single frame, which no filter sees and no snippet follows.
print_frame(f, frame, stream, override) ==
  LET options == impls[pimpl[f]] IN
  /\ Usable(f) /\ last = Unprinted
  /\ last' = [op |-> "frame", options |-> options, stream |-> stream,
              override |-> override, color |-> Color(options, override, stream),
              printed |-> write_frame(options, Transformed(options, frame))]
  /\ UNCHANGED <<managers, pimpl, impls, reassigned, calls>>

\* cpptrace::prune_symbol called by the client; the call has no state, so it is
\* made on its own.
prune(s) ==
  /\ calls = 0 /\ last = Unprinted
  /\ last' = [op |-> "prune", symbol |-> s.symbol, function |-> s.function,
              name |-> Pruned(s.symbol)]
  /\ calls' = MaxCalls
  /\ UNCHANGED <<managers, pimpl, impls, reassigned>>
-----------------------------------------------------------------------------
FormatterNext ==
  \/ \E f \in Formatters : \/ construct(f) \/ destroy(f) \/ configure(f)
  \/ \E f, other \in Formatters : \/ copy_construct(f, other) \/ move_construct(f, other)
                                  \/ copy_assign(f, other) \/ move_assign(f, other)
  \/ \E f \in Formatters, stream \in Streams, override \in Overrides :
       \/ \E trace \in Traces : print(f, trace, stream, override)
       \/ \E frame \in FramesOf(Traces) : print_frame(f, frame, stream, override)
  \/ \E s \in Symbols : prune(s)

FormatterSpec == FormatterInit /\ [][FormatterNext]_formatter_vars
-----------------------------------------------------------------------------
\* However formatters are copied, moved, assigned and destroyed, each has an impl
\* of its own that is allocated and none is lost, unless the formatter was
\* assigned to itself: neither assignment operator looks for that.
FormattersOwnTheirImpls ==
  /\ DOMAIN impls \subseteq {pimpl[f] : f \in DOMAIN pimpl}
  /\ \A f \in DOMAIN pimpl \ reassigned :
       /\ pimpl[f] \in DOMAIN impls \union {NullImpl}
       /\ \A g \in DOMAIN pimpl \ (reassigned \union {f}) :
            pimpl[f] = pimpl[g] => pimpl[f] = NullImpl

\* With any filter, transform and exception machinery at the start, a printed trace
\* shows the frames the transform makes of those the client wants, in order, under
\* numbers that count the dropped frames too.  A new line stands between two
\* entries, and at the end only when the last frames were dropped.
ThrowsAt(trace, i) == trace[i].symbol \in Throw
\* Frames under the first throw are shown even if one of them throws again.
Machinery(o, trace) ==
  {i \in 1..Len(trace) : /\ o.hideMachinery /\ \E j \in i..Len(trace) : ThrowsAt(trace, j)
                         /\ \A j \in 1..(i - 1) : ~ThrowsAt(trace, j)}
ToShow(o, trace) ==
  {i \in (1..Len(trace)) \ Machinery(o, trace) :
     o.placeholders \/ ~o.filter \/ Wanted(Transformed(o, trace[i]))}
EntryOf(o, trace, e, k, i) ==
  /\ Cardinality({j \in ToShow(o, trace) : j <= i}) = k
  /\ e[k].number = Cardinality({j \in 1..(i - 1) : j \notin Machinery(o, trace)})
  /\ ~e[k].filtered => e[k].frame.file = Transformed(o, trace[i]).file
  /\ e[k].filtered <=> (o.filter /\ ~Wanted(Transformed(o, trace[i])))
  /\ k < Len(e) => e[k].ended
  /\ k = Len(e) => (e[k].ended <=> Len(trace) \notin ToShow(o, trace))
EntriesOf(o, trace, e) ==
  /\ Len(e) = Cardinality(ToShow(o, trace))
  /\ \A k \in 1..Len(e) : \E i \in ToShow(o, trace) : EntryOf(o, trace, e, k, i)
EntriesArePrinted == last.op = "trace" => EntriesOf(last.options, last.trace, last.entries)

\* Colors are as the call asks; one that does not ask gets those of the configured
\* mode, which is a terminal's question when it is automatic.  Left out is a call that
\* asks for no colors of a formatter whose mode is always: see ColorParameterOverrides.
ColorIsDecided ==
  (last.op \in {"trace", "frame"} /\ ~(last.override = "no" /\ last.options.color = "always")) =>
    (last.color <=> \/ last.override = "yes"
                    \/ /\ last.override = "unset"
                       /\ \/ last.options.color = "always"
                          \/ last.options.color = "automatic" /\ last.stream \in Terminals)

\* README.md:437-438 of the repository: "`formatter::format` and `formatter::print`
\* methods have overloads taking a color parameter. This color parameter will override
\* configured color mode."  should_do_color starts from the mode always and never
\* takes colors back, so FALSE given for the parameter loses to it.
ColorParameterOverrides ==
  (last.op \in {"trace", "frame"} /\ last.override # "unset") =>
    (last.color <=> last.override = "yes")

\* What is printed of a trace is right in its frames and in its colors.
TraceIsPrinted == EntriesArePrinted /\ ColorIsDecided

\* A snippet is the smallest window that has the line of the frame and every line
\* within the context that is not blank.  An element past the end of the lines is
\* read only if the file is shorter than the line of the frame, or if the context
\* is negative, which std::size_t makes a very large one.
SnippetOf(e, context) ==
  (~e.filtered /\ e.snippet.kind # "none") =>
    LET lines == Sources[e.frame.file]
        target == e.frame.line
        shown == {target} \union
                 {l \in 1..Len(lines) : /\ l \in (target - context)..(target + context)
                                        /\ lines[l] # Blank}
    IN  (target \in 1..Len(lines) /\ context >= 0) =>
          /\ e.snippet.kind = "lines"
          /\ e.snippet.first = Min(shown) /\ e.snippet.last = Max(shown)
SnippetIsSmallestWindow ==
  last.op = "trace" =>
    \A k \in 1..Len(last.entries) : SnippetOf(last.entries[k], last.options.context)
==============================================================================
