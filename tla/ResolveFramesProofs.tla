------------------------ MODULE ResolveFramesProofs ------------------------
(***************************************************************************)
(* Proofs about resolve_frames: that the resolvers are cached as the mode  *)
(* says, that a failure does what the option says, and that the trace is   *)
(* complete, for every trace, every set of objects and every number of     *)
(* inlined calls.                                                          *)
(***************************************************************************)
EXTENDS ResolveFrames, SequenceLemmas

Phases == {"idle", "groups", "frames", "caught", "fill", "thrown", "done", "empty", "propagated"}
FrameType == [raw : Nat, path : Paths, symbol : Symbols, inlines : Nat, placed : BOOLEAN]
EntryType == [raw : Nat, fn : Nat \X Nat, loc : Nat \X Nat, symbol : Symbols, path : Paths, by : Nat]
PlaceType == [fn : Nat \X Nat, loc : Nat \X Nat]

TypeOK ==
  /\ program \in Programs
  /\ mode \in program.modes /\ absorb \in program.absorb
  /\ resolver_map \subseteq Objects
  /\ made \in [Objects -> Nat]
  /\ input \in Seq(Objects \cup {NoObject})
  /\ phase \in Phases
  /\ calls \in Nat

\* The modes of the program are on record, and so is each resolver that is kept.
ResolversAreCounted ==
  /\ mode \in modes
  /\ modes = {"speed"} => \A o \in Objects : made[o] = IF o \in resolver_map THEN 1 ELSE 0
  /\ "speed" \notin modes => resolver_map = {}

\* The option was as it is at some time of the call, a call that failed is where
\* the option lets it be.
FailuresAreHandled ==
  /\ absorb \in absorbs
  /\ absorbs = {TRUE} => /\ phase # "propagated"
                         /\ phase \in {"thrown", "empty"} => program.mingw
  /\ absorbs = {FALSE} /\ failed => phase \in {"idle", "caught", "thrown", "propagated"}
  /\ phase = "fill" => program.mingw

\* A frame that no resolver returned: nothing, basic information, or a JIT frame.
Unresolved(f, i) ==
  /\ f.inlines = 0 /\ f.placed /\ f.raw \in {0, i}
  /\ f = null_frame \/ f.raw = i \/ (input[i] = NoObject /\ ~program.mingw)

\* Each frame of the trace is what a resolver returned, or was returned by none.
FramesAreGiven ==
  /\ trace \in [DOMAIN input -> FrameType]
  /\ DOMAIN given = DOMAIN input
  /\ \A i \in DOMAIN input :
       \/ given[i] = None /\ Unresolved(trace[i], i)
       \/ given[i] = trace[i] /\ trace[i].raw = i

\* The frames that are left: each once, each of the object in work, whose group is
\* no longer among those to do; no resolver was asked for them yet.
RestIsUnresolved ==
  /\ phase = "frames" =>
       /\ rest \in Seq(DOMAIN input)
       /\ \A j, k \in DOMAIN rest : j # k => rest[j] # rest[k]
       /\ \A k \in DOMAIN rest : input[rest[k]] = object /\ given[rest[k]] = None
       /\ object \notin groups
  /\ \A i \in DOMAIN input : input[i] \in groups => given[i] = None

ExpectedSeq == FlattenSeq([i \in DOMAIN input |-> Expected(i)])

\* A function into which a call was inlined at an unknown place.
Unplaced(i) == given[i] # None /\ ~given[i].placed

\* An entry of the result is the function expected, where it is expected.
EntryFits(e, x) ==
  LET i == e.fn[1]
  IN /\ i \in DOMAIN input
     /\ e.fn = x.fn
     /\ e.loc = x.loc \/ (Unplaced(i) /\ e.loc = <<i, 0>>)
     /\ e.fn[2] = 0 /\ (input[i] # NoObject \/ program.mingw) => e.raw = i
     /\ e.raw # 0 => e.fn[2] = 0 /\ e.raw = i

\* Where an entry that has an address but no path would be placed by it.
BlankFits(e, x) ==
  e.path = "none" /\ e.fn[2] = 0 => x.loc = <<e.fn[1], 0>> \/ Unplaced(e.fn[1])

ResultIsExpected ==
  phase \in {"fill", "done"} =>
    /\ result \in Seq(EntryType)
    /\ Len(result) = Len(ExpectedSeq)
    /\ \A k \in DOMAIN result :
         /\ EntryFits(result[k], ExpectedSeq[k])
         /\ phase = "fill" => BlankFits(result[k], ExpectedSeq[k])
         /\ phase = "done" /\ program.mingw /\ blank(result[k]) => result[k].by = result[k].raw

Inv ==
  /\ TypeOK /\ ResolversAreCounted /\ FailuresAreHandled
  /\ FramesAreGiven /\ RestIsUnresolved /\ ResultIsExpected

-----------------------------------------------------------------------------
LEMMA InitInv == Init => Inv
<1> SUFFICES ASSUME Init PROVE Inv
  OBVIOUS
<1> USE DEF Init
<1>1. TypeOK
  BY DEF TypeOK, Phases
<1>2. ResolversAreCounted
  BY DEF ResolversAreCounted
<1>3. FailuresAreHandled
  BY DEF FailuresAreHandled
<1>4. DOMAIN <<>> = {} /\ trace = [i \in {} |-> None]
  OBVIOUS
<1>5. FramesAreGiven
  BY <1>4 DEF FramesAreGiven
<1>6. RestIsUnresolved
  BY <1>4 DEF RestIsUnresolved
<1>7. ResultIsExpected
  BY DEF ResultIsExpected
<1> QED BY <1>1, <1>2, <1>3, <1>5, <1>6, <1>7 DEF Inv

LEMMA TypeStep == TypeOK /\ [Next]_vars => TypeOK'
<1> SUFFICES ASSUME TypeOK, [Next]_vars PROVE TypeOK'
  OBVIOUS
<1> USE DEF TypeOK, Phases
<1>1. CASE set_options
  BY <1>1 DEF set_options, call
<1>2. CASE calls < Len(program.traces) /\ resolve_frames(program.traces[calls + 1])
  <2>1. program.traces \in Seq(Seq(Objects \cup {NoObject}))
    BY ResolveAssumption
  <2>2. calls + 1 \in 1 .. Len(program.traces)
    BY <1>2, <2>1
  <2>3. program.traces[calls + 1] \in Seq(Objects \cup {NoObject})
    BY <2>1, <2>2
  <2> QED BY <1>2, <2>3 DEF resolve_frames, options
<1>3. ASSUME NEW o \in Objects, begin_group(o) PROVE TypeOK'
  BY <1>3 DEF begin_group, get_resolver, options
<1>4. ASSUME NEW o \in Objects, begin_group_throws(o) PROVE TypeOK'
  BY <1>4 DEF begin_group_throws, options
<1>5. CASE resolve_jit_group
  BY <1>5 DEF resolve_jit_group, options, history
<1>6. CASE resolve_frame
  BY <1>6 DEF resolve_frame, options
<1>7. CASE resolve_frame_throws
  BY <1>7 DEF resolve_frame_throws, options
<1>8. CASE end_group
  BY <1>8 DEF end_group, options, history
<1>9. CASE catch_group
  BY <1>9 DEF catch_group, options, history
<1>10. CASE finish
  BY <1>10 DEF finish, options, history
<1>11. CASE fill_blanks
  BY <1>11 DEF fill_blanks, options, history
<1>12. CASE fill_blanks_throws
  BY <1>12 DEF fill_blanks_throws, options
<1>13. CASE catch_call
  BY <1>13 DEF catch_call, options, history
<1>14. CASE return
  BY <1>14 DEF return, options, history
<1>15. CASE UNCHANGED vars
  BY <1>15 DEF vars, options, call, history
<1> QED BY <1>1, <1>2, <1>3, <1>4, <1>5, <1>6, <1>7, <1>8, <1>9, <1>10, <1>11, <1>12, <1>13,
           <1>14, <1>15 DEF Next

\* Only making a resolver and setting the mode touch what is counted.
LEMMA ResolversStep == TypeOK /\ ResolversAreCounted /\ [Next]_vars => ResolversAreCounted'
<1> SUFFICES ASSUME TypeOK, ResolversAreCounted, [Next]_vars PROVE ResolversAreCounted'
  OBVIOUS
<1> USE DEF ResolversAreCounted
<1>1. CASE set_options
  BY <1>1 DEF set_options
<1>2. ASSUME NEW o \in Objects, begin_group(o) PROVE ResolversAreCounted'
  <2>1. CASE o \in resolver_map
    BY <1>2, <2>1 DEF begin_group, get_resolver, options
  <2>2. CASE o \notin resolver_map
    <3>1. /\ made' = [made EXCEPT ![o] = @ + 1]
          /\ resolver_map' = IF mode = "speed" THEN resolver_map \cup {o} ELSE resolver_map
          /\ UNCHANGED <<mode, modes>>
      BY <1>2, <2>2 DEF begin_group, get_resolver, options
    <3>2. modes = {"speed"} => mode = "speed" /\ made[o] = 0
      BY <2>2
    <3>3. "speed" \notin modes => resolver_map' = {}
      BY <3>1
    <3>4. modes = {"speed"} => \A p \in Objects : made'[p] = IF p \in resolver_map' THEN 1 ELSE 0
      BY <3>1, <3>2 DEF TypeOK
    <3> QED BY <3>1, <3>3, <3>4
  <2> QED BY <2>1, <2>2
<1>3. CASE UNCHANGED <<mode, modes, made, resolver_map>>
  BY <1>3
<1>4. ASSUME Next, ~set_options, \A o \in Objects : ~begin_group(o)
      PROVE  UNCHANGED <<mode, modes, made, resolver_map>>
  BY <1>4 DEF Next, resolve_frames, begin_group_throws, resolve_jit_group, resolve_frame,
       resolve_frame_throws, end_group, catch_group, finish, fill_blanks, fill_blanks_throws,
       catch_call, return, options, history
<1>5. CASE UNCHANGED vars
  BY <1>5 DEF vars, options, call, history
<1> QED BY <1>1, <1>2, <1>3, <1>4, <1>5

\* The option only ever has values that are on record, and each handler acts on it.
LEMMA FailuresStep == TypeOK /\ FailuresAreHandled /\ [Next]_vars => FailuresAreHandled'
<1> SUFFICES ASSUME TypeOK, FailuresAreHandled, [Next]_vars PROVE FailuresAreHandled'
  OBVIOUS
<1> USE DEF FailuresAreHandled
<1>0. absorb \in BOOLEAN
  BY ResolveAssumption DEF TypeOK
<1>1. CASE set_options
  <2>1. /\ absorbs' = {TRUE} => absorbs = {TRUE}
        /\ absorbs' = {FALSE} => absorbs = {FALSE}
    BY <1>1 DEF set_options
  <2> QED BY <1>1, <2>1 DEF set_options, call
<1>2. CASE calls < Len(program.traces) /\ resolve_frames(program.traces[calls + 1])
  BY <1>2 DEF resolve_frames, options
<1>3. ASSUME NEW o \in Objects, begin_group(o) PROVE FailuresAreHandled'
  BY <1>3 DEF begin_group, options
<1>4. ASSUME NEW o \in Objects, begin_group_throws(o) PROVE FailuresAreHandled'
  BY <1>4 DEF begin_group_throws, options
<1>5. CASE resolve_jit_group
  BY <1>5 DEF resolve_jit_group, options, history
<1>6. CASE resolve_frame
  BY <1>6 DEF resolve_frame, options
<1>7. CASE resolve_frame_throws
  <2>1. absorbs = {FALSE} => ~absorb
    BY <1>0
  <2> QED BY <1>7, <2>1 DEF resolve_frame_throws, options
<1>8. CASE end_group
  BY <1>8 DEF end_group, options, history
<1>9. CASE catch_group
  <2>1. (absorbs = {TRUE} => absorb) /\ (absorbs = {FALSE} => ~absorb)
    BY <1>0
  <2> QED BY <1>9, <2>1 DEF catch_group, options, history
<1>10. CASE finish
  BY <1>10 DEF finish, options, history
<1>11. CASE fill_blanks
  BY <1>11 DEF fill_blanks, options, history
<1>12. CASE fill_blanks_throws
  BY <1>12 DEF fill_blanks_throws, options
<1>13. CASE catch_call
  <2>1. (absorbs = {TRUE} => absorb) /\ (absorbs = {FALSE} => ~absorb)
    BY <1>0
  <2> QED BY <1>13, <2>1 DEF catch_call, options, history
<1>14. CASE return
  BY <1>14 DEF return, options, history
<1>15. CASE UNCHANGED vars
  BY <1>15 DEF vars, options, call, history
<1> QED BY <1>1, <1>2, <1>3, <1>4, <1>5, <1>6, <1>7, <1>8, <1>9, <1>10, <1>11, <1>12, <1>13,
           <1>14, <1>15 DEF Next

-----------------------------------------------------------------------------
\* collate_frames takes each frame of an object, once.
LEMMA GroupIsOfObject ==
  ASSUME TypeOK, NEW o
  PROVE  /\ Group(o) \in Seq(DOMAIN input)
         /\ \A j, k \in DOMAIN Group(o) : j # k => Group(o)[j] # Group(o)[k]
         /\ \A k \in DOMAIN Group(o) : input[Group(o)[k]] = o
<1> DEFINE s == [i \in DOMAIN input |-> i]
           S == {i \in DOMAIN input : input[i] = o}
           g == Filter(s, S)
<1>0. DOMAIN input = 1 .. Len(input) /\ Len(input) \in Nat
  BY DEF TypeOK
<1>1. s \in Seq(DOMAIN input) /\ \A i \in DOMAIN input : s[i] = i
  <2>1. s \in [1 .. Len(input) -> DOMAIN input]
    BY <1>0
  <2> QED BY <1>0, <2>1
<1>2. Len(s) = Len(input)
  BY <1>0
<1>3. g \in Seq(DOMAIN input) /\ \E at : Kept(at, g, s, S, Len(s))
  <2> HIDE DEF s, S
  <2> QED BY <1>1, FilterKeeps
<1>4. PICK at : Kept(at, g, s, S, Len(s))
  BY <1>3
<1> HIDE DEF s, g
<1>5. \A k \in 1 .. Len(g) : at[k] \in 1 .. Len(input) /\ g[k] = at[k] /\ at[k] \in S
  <2>1. \A k \in 1 .. Len(g) : at[k] \in 1 .. Len(input)
    BY <1>2, <1>4 DEF Kept
  <2> HIDE DEF S
  <2> QED BY <1>0, <1>1, <1>4, <2>1 DEF Kept
<1>6. DOMAIN g = 1 .. Len(g) /\ Len(g) \in Nat
  BY <1>3
<1>7. \A j, k \in 1 .. Len(g) : j # k => g[j] # g[k]
  <2> SUFFICES ASSUME NEW j \in 1 .. Len(g), NEW k \in 1 .. Len(g), j # k
               PROVE  g[j] # g[k]
    OBVIOUS
  <2>1. j < k \/ k < j
    BY <1>6
  <2>2. at[j] < at[k] \/ at[k] < at[j]
    BY <1>4, <2>1 DEF Kept
  <2> QED BY <1>0, <1>5, <2>2
<1>8. Group(o) = g
  BY DEF Group, g, s
<1> HIDE DEF S
<1>9. \A k \in 1 .. Len(g) : input[g[k]] = o
  BY <1>5 DEF S
<1> QED BY <1>3, <1>6, <1>7, <1>8, <1>9

\* What both invariants about frames depend on.
frames == <<program, input, trace, given, groups, object, rest, phase>>

LEMMA FramesUnchanged ==
  FramesAreGiven /\ RestIsUnresolved /\ UNCHANGED frames => FramesAreGiven' /\ RestIsUnresolved'
BY DEF frames, FramesAreGiven, RestIsUnresolved, Unresolved, null_frame, Frame

\* A new trace: nothing is resolved.
LEMMA FramesOfCall ==
  ASSUME NEW in \in Seq(Objects \cup {NoObject}), resolve_frames(in)
  PROVE  FramesAreGiven' /\ RestIsUnresolved'
<1>1. /\ input' = in /\ phase' = "groups"
      /\ trace' = [i \in DOMAIN in |-> null_frame]
      /\ given' = [i \in DOMAIN in |-> None]
  BY DEF resolve_frames
<1>2. null_frame \in FrameType /\ null_frame.inlines = 0 /\ null_frame.placed
      /\ null_frame.raw = 0
  BY DEF null_frame, Frame, FrameType, Paths, Symbols
<1>3. null_frame' = null_frame
  BY DEF null_frame, Frame
<1>4. \A i \in DOMAIN in : given'[i] = None /\ trace'[i] = null_frame
  BY <1>1
<1>5. FramesAreGiven'
  BY <1>1, <1>2, <1>3, <1>4 DEF FramesAreGiven, Unresolved
<1>6. RestIsUnresolved'
  BY <1>1, <1>4 DEF RestIsUnresolved
<1> QED BY <1>5, <1>6

LEMMA FramesBegin ==
  ASSUME TypeOK, FramesAreGiven, RestIsUnresolved, NEW o \in Objects, begin_group(o)
  PROVE  FramesAreGiven' /\ RestIsUnresolved'
<1>1. /\ o \in groups /\ groups' = groups \ {o}
      /\ object' = o /\ rest' = Group(o)
      /\ UNCHANGED <<program, input, trace, given>>
  BY DEF begin_group, options
<1>2. FramesAreGiven'
  BY <1>1 DEF FramesAreGiven, Unresolved, null_frame, Frame
<1>3. /\ rest' \in Seq(DOMAIN input)
      /\ \A j, k \in DOMAIN rest' : j # k => rest'[j] # rest'[k]
      /\ \A k \in DOMAIN rest' : input[rest'[k]] = o /\ rest'[k] \in DOMAIN input
  BY <1>1, GroupIsOfObject
<1>4. \A i \in DOMAIN input : input[i] \in groups => given[i] = None
  BY DEF RestIsUnresolved
<1>5. RestIsUnresolved'
  BY <1>1, <1>3, <1>4 DEF RestIsUnresolved
<1> QED BY <1>2, <1>5

LEMMA FramesJit ==
  ASSUME TypeOK, FramesAreGiven, RestIsUnresolved, resolve_jit_group
  PROVE  FramesAreGiven' /\ RestIsUnresolved'
<1>0. NoObject \in groups /\ DOMAIN trace = DOMAIN input
  BY DEF resolve_jit_group, FramesAreGiven
<1>1. PICK found \in IF program.mingw THEN {{}} ELSE SUBSET ToSet(Group(NoObject)) :
        trace' = [i \in DOMAIN trace |->
                    IF i \in found THEN [trace[i] EXCEPT !.symbol = "jit"] ELSE trace[i]]
  BY DEF resolve_jit_group
<1>2. UNCHANGED <<program, input, given, object, rest, phase>> /\ groups' = groups \ {NoObject}
  BY DEF resolve_jit_group, options, history
<1>3. \A i \in found : ~program.mingw /\ i \in DOMAIN input /\ input[i] = NoObject
  <2>1. \A k \in DOMAIN Group(NoObject) :
          Group(NoObject)[k] \in DOMAIN input /\ input[Group(NoObject)[k]] = NoObject
    BY GroupIsOfObject
  <2> QED BY <1>1, <2>1 DEF ToSet
<1>4. \A i \in found : given[i] = None
  BY <1>0, <1>3 DEF RestIsUnresolved
<1>5. ASSUME NEW i \in DOMAIN input
      PROVE  /\ trace'[i] \in FrameType
             /\ \/ given[i] = None /\ Unresolved(trace'[i], i)
                \/ given[i] = trace'[i] /\ trace'[i].raw = i
  <2>1. CASE i \in found
    <3>1. trace'[i] = [trace[i] EXCEPT !.symbol = "jit"]
      BY <1>0, <1>1, <2>1
    <3>2. trace[i] \in FrameType
      BY DEF FramesAreGiven
    <3>3. trace'[i] \in FrameType /\ trace'[i].inlines = trace[i].inlines
          /\ trace'[i].raw = trace[i].raw /\ trace'[i].placed = trace[i].placed
      BY <3>1, <3>2 DEF FrameType, Symbols
    <3>4. given[i] = None /\ input[i] = NoObject /\ ~program.mingw
      BY <1>3, <1>4, <2>1
    <3>5. trace[i] # None
      BY <3>2, ResolveAssumption DEF FrameType
    <3>6. Unresolved(trace[i], i)
      BY <3>4, <3>5 DEF FramesAreGiven
    <3> QED BY <3>3, <3>4, <3>6 DEF Unresolved
  <2>2. CASE i \notin found
    <3>1. trace'[i] = trace[i]
      BY <1>0, <1>1, <2>2
    <3> QED BY <3>1 DEF FramesAreGiven
  <2> QED BY <2>1, <2>2
<1>6. trace' \in [DOMAIN input -> FrameType]
  <2>1. trace' = [i \in DOMAIN input |-> trace'[i]]
    BY <1>0, <1>1
  <2> QED BY <1>5, <2>1
<1>7. FramesAreGiven'
  BY <1>2, <1>5, <1>6 DEF FramesAreGiven, Unresolved, null_frame, Frame
<1>8. RestIsUnresolved'
  BY <1>2 DEF RestIsUnresolved
<1> QED BY <1>7, <1>8

\* The head of the rest and what is left behind it.
LEMMA NextOfRest ==
  ASSUME TypeOK, RestIsUnresolved, phase = "frames", rest # <<>>
  PROVE  /\ Head(rest) \in DOMAIN input /\ Head(rest) \in Nat \ {0}
         /\ given[Head(rest)] = None /\ input[Head(rest)] = object
         /\ Tail(rest) \in Seq(DOMAIN input)
         /\ \A j, k \in DOMAIN Tail(rest) : j # k => Tail(rest)[j] # Tail(rest)[k]
         /\ \A k \in DOMAIN Tail(rest) : /\ input[Tail(rest)[k]] = object
                                         /\ given[Tail(rest)[k]] = None
                                         /\ Tail(rest)[k] # Head(rest)
<1>1. rest \in Seq(DOMAIN input)
  BY DEF RestIsUnresolved
<1>2. Len(rest) \in Nat \ {0} /\ DOMAIN rest = 1 .. Len(rest)
  BY <1>1, EmptySeq
<1>3. Head(rest) = rest[1] /\ 1 \in DOMAIN rest
  BY <1>1, <1>2
<1>4. /\ Tail(rest) \in Seq(DOMAIN input)
      /\ Len(Tail(rest)) = Len(rest) - 1
      /\ \A k \in 1 .. Len(Tail(rest)) : Tail(rest)[k] = rest[k + 1]
  BY <1>1, HeadTailProperties
<1>5. DOMAIN Tail(rest) = 1 .. Len(rest) - 1
  BY <1>4
<1>6. \A k \in DOMAIN Tail(rest) : k + 1 \in DOMAIN rest /\ k + 1 # 1 /\ Tail(rest)[k] = rest[k + 1]
  BY <1>2, <1>4, <1>5
<1>7. \A j, k \in DOMAIN Tail(rest) : j # k => j + 1 # k + 1
  BY <1>2, <1>5
<1>8. DOMAIN input = 1 .. Len(input) /\ Len(input) \in Nat
  BY DEF TypeOK
<1>9. /\ \A j, k \in DOMAIN rest : j # k => rest[j] # rest[k]
      /\ \A k \in DOMAIN rest : input[rest[k]] = object /\ given[rest[k]] = None
  BY DEF RestIsUnresolved
<1>10. Head(rest) \in DOMAIN input /\ Head(rest) \in Nat \ {0}
  BY <1>1, <1>3, <1>8
<1>11. given[Head(rest)] = None /\ input[Head(rest)] = object
  BY <1>3, <1>9
<1>12. \A j, k \in DOMAIN Tail(rest) : j # k => Tail(rest)[j] # Tail(rest)[k]
  BY <1>6, <1>7, <1>9
<1>13. \A k \in DOMAIN Tail(rest) : /\ input[Tail(rest)[k]] = object
                                   /\ given[Tail(rest)[k]] = None
                                   /\ Tail(rest)[k] # Head(rest)
  BY <1>3, <1>6, <1>9
<1> QED BY <1>4, <1>10, <1>11, <1>12, <1>13

LEMMA FramesResolve ==
  ASSUME TypeOK, FramesAreGiven, RestIsUnresolved, resolve_frame
  PROVE  FramesAreGiven' /\ RestIsUnresolved'
<1> DEFINE h == Head(rest)
<1>1. phase = "frames" /\ rest # <<>> /\ rest' = Tail(rest)
  BY DEF resolve_frame
<1>2. PICK n \in 0 .. MaxInlines, symbol \in SymbolTable \cup {"dwarf"},
           placed \in {TRUE, ~program.mingw} :
        trace' = [trace EXCEPT ![h] = Frame(h, "source", symbol, n, placed)]
  BY DEF resolve_frame
<1>3. given' = [given EXCEPT ![h] = trace'[h]] /\ UNCHANGED <<program, input, groups, object, phase>>
  BY DEF resolve_frame, options
<1> DEFINE f == Frame(h, "source", symbol, n, placed)
<1>4. f \in FrameType /\ f.raw = h
  <2>1. symbol \in Symbols /\ n \in Nat /\ h \in Nat /\ "source" \in Paths
    <3>1. symbol \in Symbols
      BY DEF SymbolTable, Symbols
    <3>2. n \in Nat
      BY ResolveAssumption
    <3>3. "source" \in Paths
      BY DEF Paths
    <3> QED BY <1>1, <3>1, <3>2, <3>3, NextOfRest
  <2>2. placed \in BOOLEAN
    OBVIOUS
  <2> HIDE DEF h
  <2> QED BY <2>1, <2>2 DEF Frame, FrameType
<1>5. h \in DOMAIN input /\ DOMAIN trace = DOMAIN input /\ DOMAIN given = DOMAIN input
  BY <1>1, NextOfRest DEF FramesAreGiven
<1> HIDE DEF f, h
<1>6. trace'[h] = f /\ \A i \in DOMAIN input : i # h => trace'[i] = trace[i]
  BY <1>2, <1>5 DEF f
<1>7. given'[h] = f /\ \A i \in DOMAIN input : i # h => given'[i] = given[i]
  BY <1>3, <1>5, <1>6
<1>8. trace' \in [DOMAIN input -> FrameType]
  BY <1>2, <1>4 DEF FramesAreGiven, f
<1>9. FramesAreGiven'
  <2>1. DOMAIN given' = DOMAIN input
    BY <1>3, <1>5
  <2>2. ASSUME NEW i \in DOMAIN input
        PROVE  \/ given'[i] = None /\ Unresolved(trace'[i], i)
               \/ given'[i] = trace'[i] /\ trace'[i].raw = i
    <3>1. CASE i = h
      BY <1>4, <1>6, <1>7, <3>1
    <3>2. CASE i # h
      BY <1>6, <1>7, <3>2 DEF FramesAreGiven
    <3> QED BY <3>1, <3>2
  <2> QED BY <1>3, <1>8, <2>1, <2>2 DEF FramesAreGiven, Unresolved, null_frame, Frame
<1>10. object \notin groups /\ input[h] = object
  BY <1>1, NextOfRest DEF RestIsUnresolved, h
<1>11. /\ rest' \in Seq(DOMAIN input)
       /\ \A j, k \in DOMAIN rest' : j # k => rest'[j] # rest'[k]
       /\ \A k \in DOMAIN rest' : input[rest'[k]] = object /\ given[rest'[k]] = None /\ rest'[k] # h
  BY <1>1, NextOfRest DEF h
<1>12. \A k \in DOMAIN rest' : given'[rest'[k]] = None
  <2>1. \A k \in DOMAIN rest' : rest'[k] \in DOMAIN input
    BY <1>11
  <2> QED BY <1>7, <1>11, <2>1
<1>13. \A i \in DOMAIN input : input[i] \in groups => given'[i] = None
  BY <1>7, <1>10 DEF RestIsUnresolved
<1>14. RestIsUnresolved'
  BY <1>3, <1>10, <1>11, <1>12, <1>13 DEF RestIsUnresolved
<1> QED BY <1>9, <1>14

LEMMA FramesThrow ==
  ASSUME TypeOK, FramesAreGiven, RestIsUnresolved, resolve_frame_throws
  PROVE  FramesAreGiven' /\ RestIsUnresolved'
<1> DEFINE h == Head(rest)
<1>1. phase = "frames" /\ rest # <<>>
  BY DEF resolve_frame_throws
<1>2. UNCHANGED <<program, input, groups, object, given>>
  BY DEF resolve_frame_throws, options
<1>3. CASE absorb
  <2>1. PICK symbol \in SymbolTable :
          trace' = [trace EXCEPT ![h] = [basic_frame(h) EXCEPT !.symbol = symbol]]
    BY <1>3 DEF resolve_frame_throws
  <2>2. rest' = Tail(rest) /\ phase' = phase
    BY <1>3 DEF resolve_frame_throws
  <2> DEFINE f == [basic_frame(h) EXCEPT !.symbol = symbol]
  <2>3. h \in DOMAIN input /\ h \in Nat /\ given[h] = None /\ DOMAIN trace = DOMAIN input
    BY <1>1, NextOfRest DEF FramesAreGiven
  <2>4. f \in FrameType /\ f.raw = h /\ f.inlines = 0 /\ f.placed
    <3>1. symbol \in Symbols
      BY DEF SymbolTable, Symbols
    <3> HIDE DEF h
    <3>2. basic_frame(h) \in FrameType
      BY <2>3 DEF basic_frame, Frame, FrameType, Paths, Symbols
    <3>3. /\ basic_frame(h).raw = h /\ basic_frame(h).inlines = 0
          /\ basic_frame(h).placed
      BY DEF basic_frame, Frame
    <3> HIDE DEF basic_frame
    <3> QED BY <3>1, <3>2, <3>3 DEF FrameType
  <2> HIDE DEF f, h
  <2>5. trace'[h] = f /\ \A i \in DOMAIN input : i # h => trace'[i] = trace[i]
    BY <2>1, <2>3 DEF f
  <2>6. trace' \in [DOMAIN input -> FrameType]
    BY <2>1, <2>4 DEF FramesAreGiven, f
  <2>7. ASSUME NEW i \in DOMAIN input
        PROVE  \/ given[i] = None /\ Unresolved(trace'[i], i)
               \/ given[i] = trace'[i] /\ trace'[i].raw = i
    <3>1. CASE i = h
      BY <2>3, <2>4, <2>5, <3>1 DEF Unresolved
    <3>2. CASE i # h
      BY <2>5, <3>2 DEF FramesAreGiven
    <3> QED BY <3>1, <3>2
  <2>8. FramesAreGiven'
    BY <1>2, <2>6, <2>7 DEF FramesAreGiven, Unresolved, null_frame, Frame
  <2>9. /\ rest' \in Seq(DOMAIN input)
        /\ \A j, k \in DOMAIN rest' : j # k => rest'[j] # rest'[k]
        /\ \A k \in DOMAIN rest' : input[rest'[k]] = object /\ given[rest'[k]] = None
    BY <1>1, <2>2, NextOfRest
  <2>10. RestIsUnresolved'
    BY <1>1, <1>2, <2>2, <2>9 DEF RestIsUnresolved
  <2> QED BY <2>8, <2>10
<1>4. CASE ~absorb
  <2>1. phase' = "caught" /\ UNCHANGED trace
    BY <1>4 DEF resolve_frame_throws
  <2> QED BY <1>2, <2>1 DEF FramesAreGiven, RestIsUnresolved, Unresolved, null_frame, Frame
<1> QED BY <1>3, <1>4

LEMMA FramesStep ==
  TypeOK /\ FramesAreGiven /\ RestIsUnresolved /\ [Next]_vars => FramesAreGiven' /\ RestIsUnresolved'
<1> SUFFICES ASSUME TypeOK, FramesAreGiven, RestIsUnresolved, [Next]_vars
             PROVE  FramesAreGiven' /\ RestIsUnresolved'
  OBVIOUS
<1>1. CASE calls < Len(program.traces) /\ resolve_frames(program.traces[calls + 1])
  <2>1. program.traces \in Seq(Seq(Objects \cup {NoObject}))
    BY ResolveAssumption DEF TypeOK
  <2>2. program.traces[calls + 1] \in Seq(Objects \cup {NoObject})
    BY <1>1, <2>1 DEF TypeOK
  <2> QED BY <1>1, <2>2, FramesOfCall
<1>2. ASSUME NEW o \in Objects, begin_group(o) PROVE FramesAreGiven' /\ RestIsUnresolved'
  BY <1>2, FramesBegin
<1>3. CASE resolve_jit_group
  BY <1>3, FramesJit
<1>4. CASE resolve_frame
  BY <1>4, FramesResolve
<1>5. CASE resolve_frame_throws
  BY <1>5, FramesThrow
<1>6. ASSUME UNCHANGED <<program, input, trace, given>>, groups' \subseteq groups,
             phase' # "frames"
      PROVE  FramesAreGiven' /\ RestIsUnresolved'
  BY <1>6 DEF FramesAreGiven, RestIsUnresolved, Unresolved, null_frame, Frame
<1>7. CASE set_options \/ UNCHANGED vars
  <2>1. UNCHANGED frames
    BY <1>7 DEF set_options, vars, options, call, history, frames
  <2> QED BY <2>1, FramesUnchanged
<1>8. ASSUME NEW o \in Objects, begin_group_throws(o) PROVE FramesAreGiven' /\ RestIsUnresolved'
  BY <1>6, <1>8 DEF begin_group_throws, options
<1>9. CASE end_group \/ catch_group \/ finish \/ fill_blanks \/ fill_blanks_throws \/ catch_call
           \/ return
  BY <1>6, <1>9 DEF end_group, catch_group, finish, fill_blanks, fill_blanks_throws, catch_call,
                    return, options, history
<1> QED BY <1>1, <1>2, <1>3, <1>4, <1>5, <1>7, <1>8, <1>9 DEF Next

-----------------------------------------------------------------------------
\* The frames as finish completes them.
Filled == [i \in DOMAIN trace |-> IF trace[i] = null_frame THEN basic_frame(i) ELSE trace[i]]

LEMMA FilledFrame ==
  ASSUME TypeOK, FramesAreGiven, NEW i \in DOMAIN input
  PROVE  /\ Filled[i] \in FrameType
         /\ Filled[i].inlines = IF given[i] = None THEN 0 ELSE given[i].inlines
         /\ Filled[i].raw = i \/ (input[i] = NoObject /\ ~program.mingw /\ Filled[i].raw \in {0, i})
         /\ given[i] # None => Filled[i].placed = given[i].placed
<1>0. i \in Nat \ {0} /\ i \in DOMAIN trace
  BY DEF TypeOK, FramesAreGiven
<1>1. trace[i] \in FrameType
  BY DEF FramesAreGiven
<1>2. trace[i] # None
  BY <1>1, ResolveAssumption DEF FrameType
<1>3. CASE trace[i] = null_frame
  <2>1. Filled[i] = basic_frame(i)
    BY <1>0, <1>3 DEF Filled
  <2>2. basic_frame(i) \in FrameType
    BY <1>0 DEF basic_frame, Frame, FrameType, Paths, Symbols
  <2>3. basic_frame(i).raw = i /\ basic_frame(i).inlines = 0
    BY DEF basic_frame, Frame
  <2>4. trace[i].raw # i
    <3>1. null_frame.raw = 0
      BY DEF null_frame, Frame
    <3> QED BY <1>0, <1>3, <3>1
  <2>5. given[i] = None
    BY <2>4 DEF FramesAreGiven
  <2> QED BY <2>1, <2>2, <2>3, <2>5
<1>4. CASE trace[i] # null_frame
  <2>1. Filled[i] = trace[i]
    BY <1>0, <1>4 DEF Filled
  <2>2. CASE given[i] = None
    <3>1. Unresolved(trace[i], i)
      BY <1>2, <2>2 DEF FramesAreGiven
    <3> QED BY <1>1, <1>4, <2>1, <2>2, <3>1 DEF Unresolved
  <2>3. CASE given[i] # None
    BY <1>1, <2>1, <2>3 DEF FramesAreGiven
  <2> QED BY <2>2, <2>3
<1> QED BY <1>3, <1>4

\* What segment makes of a frame: its inlined calls in reverse, then the frame.
IsSegment(s, i, f, n) ==
  /\ s \in Seq(EntryType) /\ Len(s) = n + 1
  /\ \A k \in 1 .. n + 1 : s[k].fn = <<i, n + 1 - k>> /\ s[k].loc = <<i, n + 1 - k>>
  /\ \A k \in 1 .. n : s[k].raw = 0 /\ s[k].path = IF f.placed THEN "source" ELSE "none"
  /\ s[n + 1].raw = f.raw /\ s[n + 1].path = f.path

LEMMA SegmentEntries ==
  ASSUME NEW i \in Nat, NEW f \in FrameType
  PROVE  IsSegment(segment(i, f), i, f, f.inlines)
<1>0. PICK s, n : s = segment(i, f) /\ n = f.inlines
  OBVIOUS
<1>1. n \in Nat /\ f.raw \in Nat /\ f.path \in Paths /\ f.symbol \in Symbols
  BY <1>0 DEF FrameType
<1>2. s = [k \in 1 .. n + 1 |-> s[k]] /\ DOMAIN s = 1 .. n + 1
  BY <1>0 DEF segment
<1>3. s[n + 1] = Entry(f.raw, <<i, 0>>, f.symbol, f.path)
  <2>1. n + 1 \in 1 .. n + 1 /\ n + 1 - (n + 1) = 0
    BY <1>1
  <2> QED BY <1>0, <2>1 DEF segment
<1>4. ASSUME NEW k \in 1 .. n
      PROVE  s[k] = Entry(0, <<i, n + 1 - k>>, "dwarf", IF f.placed THEN "source" ELSE "none")
  <2>1. k \in 1 .. n + 1 /\ n + 1 - k # 0
    BY <1>1
  <2> QED BY <1>0, <2>1 DEF segment
<1>5. ASSUME NEW k \in 1 .. n
      PROVE  /\ s[k] \in EntryType
             /\ s[k].fn = <<i, n + 1 - k>> /\ s[k].loc = <<i, n + 1 - k>>
             /\ s[k].raw = 0 /\ s[k].path = IF f.placed THEN "source" ELSE "none"
  <2> DEFINE j == n + 1 - k
             path == IF f.placed THEN "source" ELSE "none"
  <2>1. <<i, j>> \in Nat \X Nat
    BY <1>1
  <2>2. path \in Paths /\ "dwarf" \in Symbols
    BY DEF Paths, Symbols
  <2>3. s[k] = Entry(0, <<i, j>>, "dwarf", path)
    BY <1>4
  <2> HIDE DEF j, path
  <2>4. s[k] \in EntryType
    BY <2>1, <2>2, <2>3 DEF Entry, EntryType
  <2>5. s[k].fn = <<i, j>> /\ s[k].loc = <<i, j>> /\ s[k].raw = 0 /\ s[k].path = path
    BY <2>3 DEF Entry
  <2> QED BY <2>4, <2>5 DEF j, path
<1>6. /\ s[n + 1] \in EntryType
      /\ s[n + 1].fn = <<i, 0>> /\ s[n + 1].loc = <<i, 0>>
      /\ s[n + 1].raw = f.raw /\ s[n + 1].path = f.path
  BY <1>1, <1>3 DEF Entry, EntryType
<1>7. \A k \in 1 .. n + 1 : k \in 1 .. n \/ k = n + 1
  BY <1>1
<1>8. n + 1 - (n + 1) = 0
  BY <1>1
<1>9. \A k \in 1 .. n + 1 : s[k] \in EntryType
  BY <1>5, <1>6, <1>7
<1>10. s \in Seq(EntryType) /\ Len(s) = n + 1
  <2>1. PICK l : l = n + 1
    OBVIOUS
  <2>2. l \in Nat
    BY <1>1, <2>1
  <2>3. s \in [1 .. l -> EntryType]
    BY <1>2, <1>9, <2>1
  <2> QED BY <2>1, <2>2, <2>3
<1>11. \A k \in 1 .. n + 1 : s[k].fn = <<i, n + 1 - k>> /\ s[k].loc = <<i, n + 1 - k>>
  BY <1>5, <1>6, <1>7, <1>8
<1> QED BY <1>0, <1>5, <1>6, <1>10, <1>11 DEF IsSegment

\* The rotation: everything stays but the place, which is that of the entry before,
\* and for the first that of the last.
Before(k, length) == IF k = 1 THEN length ELSE k - 1

IsRotation(r, s, l) ==
  /\ r \in Seq(EntryType) /\ Len(r) = l
  /\ \A k \in 1 .. l : /\ Before(k, l) \in 1 .. l
                       /\ r[k].fn = s[k].fn /\ r[k].raw = s[k].raw
                       /\ r[k].loc = s[Before(k, l)].loc
                       /\ r[k].path = s[Before(k, l)].path

LEMMA RotatedEntries ==
  ASSUME NEW s \in Seq(EntryType), s # <<>>
  PROVE  IsRotation(rotate(s), s, Len(s))
<1>0. PICK r, l : r = rotate(s) /\ l = Len(s)
  OBVIOUS
<1>1. l \in Nat \ {0} /\ DOMAIN s = 1 .. l /\ \A k \in 1 .. l : s[k] \in EntryType
  BY <1>0, EmptySeq
<1>2. ASSUME NEW k \in 1 .. l
      PROVE  /\ Before(k, l) \in 1 .. l
             /\ r[k] = [s[k] EXCEPT !.loc = s[Before(k, l)].loc, !.path = s[Before(k, l)].path]
  <2>1. Before(k, l) \in 1 .. l
    BY <1>1 DEF Before
  <2> QED BY <1>0, <1>1, <2>1 DEF rotate, Before
<1>3. r = [k \in 1 .. l |-> r[k]]
  BY <1>0, <1>1 DEF rotate
<1>4. ASSUME NEW k \in 1 .. l
      PROVE  /\ r[k] \in EntryType
             /\ r[k].fn = s[k].fn /\ r[k].raw = s[k].raw
             /\ r[k].loc = s[Before(k, l)].loc /\ r[k].path = s[Before(k, l)].path
  <2>1. s[k] \in EntryType /\ s[Before(k, l)] \in EntryType
    BY <1>1, <1>2
  <2> QED BY <1>2, <2>1 DEF EntryType
<1>5. r \in Seq(EntryType) /\ Len(r) = l
  <2>1. r \in [1 .. l -> EntryType]
    BY <1>3, <1>4
  <2> QED BY <1>1, <2>1
<1> QED BY <1>0, <1>2, <1>4, <1>5 DEF IsRotation

\* Where the function before the j-th inlined call of n is expected.
Place(i, j, n) == IF j = n THEN <<i, 0>> ELSE <<i, j + 1>>

\* The entries of a frame are the functions expected at the places expected.
LEMMA SegmentFits ==
  ASSUME TypeOK, FramesAreGiven, NEW i \in DOMAIN input, NEW r, r = rotate(segment(i, Filled[i])),
         NEW x, x = Expected(i)
  PROVE  /\ r \in Seq(EntryType) /\ x \in Seq(PlaceType)
         /\ Len(r) = Len(x)
         /\ \A k \in 1 .. Len(r) : EntryFits(r[k], x[k]) /\ BlankFits(r[k], x[k])
<1>0. i \in Nat /\ i # 0
  BY DEF TypeOK
<1>1. PICK f : f = Filled[i]
  OBVIOUS
<1>2. PICK n : n = f.inlines
  OBVIOUS
<1>3. f \in FrameType /\ n \in Nat
  BY <1>1, <1>2, FilledFrame DEF FrameType
<1>4. PICK s : s = segment(i, f)
  OBVIOUS
<1>5. /\ s \in Seq(EntryType) /\ Len(s) = n + 1
      /\ \A k \in 1 .. n + 1 : s[k].fn = <<i, n + 1 - k>> /\ s[k].loc = <<i, n + 1 - k>>
      /\ \A k \in 1 .. n : s[k].raw = 0 /\ s[k].path = IF f.placed THEN "source" ELSE "none"
      /\ s[n + 1].raw = f.raw /\ s[n + 1].path = f.path
  <2>1. IsSegment(s, i, f, n)
    BY <1>0, <1>2, <1>3, <1>4, SegmentEntries
  <2> QED BY <2>1 DEF IsSegment
<1>6. PICK l : l = n + 1
  OBVIOUS
<1>7. l \in Nat \ {0}
  BY <1>3, <1>6
<1>8. /\ r \in Seq(EntryType) /\ Len(r) = l
      /\ \A k \in 1 .. l : /\ Before(k, l) \in 1 .. l
                           /\ r[k].fn = s[k].fn /\ r[k].raw = s[k].raw
                           /\ r[k].loc = s[Before(k, l)].loc
                           /\ r[k].path = s[Before(k, l)].path
  <2>1. s # <<>> /\ Len(s) = l
    BY <1>5, <1>6, <1>7, EmptySeq
  <2>2. IsRotation(r, s, l)
    BY <1>1, <1>4, <1>5, <2>1, RotatedEntries
  <2> QED BY <2>2 DEF IsRotation
<1>9. \A k \in 1 .. l : s[k].fn = <<i, l - k>> /\ s[k].loc = <<i, l - k>>
  BY <1>3, <1>5, <1>6
<1>10. n = IF given[i] = None THEN 0 ELSE given[i].inlines
  BY <1>1, <1>2, FilledFrame
<1>11. x = [k \in 1 .. n + 1 |-> x[k]]
       /\ \A k \in 1 .. n + 1 : x[k] = [fn |-> <<i, n + 1 - k>>, loc |-> Place(i, n + 1 - k, n)]
  <2> DEFINE Places(m) == [k \in 1 .. m + 1 |-> [fn |-> <<i, m + 1 - k>>,
                                                 loc |-> Place(i, m + 1 - k, m)]]
  <2>1. Expected(i) = Places(IF given[i] = None THEN 0 ELSE given[i].inlines)
    BY DEF Expected, Place
  <2>2. x = Places(n)
    <3> HIDE DEF Places
    <3> QED BY <1>10, <2>1
  <2> QED BY <2>2
<1>12. ASSUME NEW k \in 1 .. l
       PROVE  /\ x[k] = [fn |-> <<i, l - k>>, loc |-> Place(i, l - k, n)]
              /\ x[k].fn = <<i, l - k>>
              /\ l - k = n => x[k].loc = <<i, 0>>
              /\ l - k # n => x[k].loc = <<i, l - k + 1>>
  <2>1. k \in 1 .. n + 1 /\ n + 1 - k = l - k
    BY <1>3, <1>6
  <2>2. x[k] = [fn |-> <<i, l - k>>, loc |-> Place(i, l - k, n)]
    <3>1. x[k] = [fn |-> <<i, n + 1 - k>>, loc |-> Place(i, n + 1 - k, n)]
      BY <1>11, <2>1
    <3> QED BY <2>1, <3>1
  <2>3. x[k].fn = <<i, l - k>> /\ x[k].loc = Place(i, l - k, n)
    BY <2>2
  <2> QED BY <2>2, <2>3 DEF Place
<1>13. x \in Seq(PlaceType) /\ Len(x) = l
  <2>1. ASSUME NEW k \in 1 .. l PROVE x[k] \in PlaceType
    <3>1. <<i, l - k>> \in Nat \X Nat /\ <<i, l - k + 1>> \in Nat \X Nat /\ <<i, 0>> \in Nat \X Nat
      BY <1>0, <1>7
    <3>2. Place(i, l - k, n) \in Nat \X Nat
      BY <3>1 DEF Place
    <3>3. PICK a, b : a = <<i, l - k>> /\ b = Place(i, l - k, n)
      OBVIOUS
    <3>4. x[k] = [fn |-> a, loc |-> b] /\ a \in Nat \X Nat /\ b \in Nat \X Nat
      BY <1>12, <3>1, <3>2, <3>3
    <3> QED BY <3>4 DEF PlaceType
  <2>2. x = [k \in 1 .. l |-> x[k]]
    BY <1>6, <1>11
  <2>3. x \in [1 .. l -> PlaceType]
    BY <2>1, <2>2
  <2> QED BY <1>7, <2>3
<1>14. f.raw = i \/ (input[i] = NoObject /\ ~program.mingw /\ f.raw \in {0, i})
  BY <1>1, FilledFrame
<1>15. /\ n # 0 => given[i] # None
       /\ given[i] # None => f.placed = given[i].placed
  BY <1>1, <1>10, FilledFrame
<1>16. ASSUME NEW k \in 1 .. l PROVE EntryFits(r[k], x[k]) /\ BlankFits(r[k], x[k])
  <2>1. r[k].fn = <<i, l - k>> /\ x[k].fn = r[k].fn
    <3>1. r[k].fn = s[k].fn
      BY <1>8
    <3>2. s[k].fn = <<i, l - k>>
      BY <1>9
    <3>3. x[k].fn = <<i, l - k>>
      BY <1>12
    <3> QED BY <3>1, <3>2, <3>3
  <2>2. r[k].fn[1] = i /\ r[k].fn[2] = l - k
    BY <2>1
  <2>3. r[k].loc = x[k].loc
    <3>1. CASE k = 1
      <4>1. l - 1 = n /\ l - l = 0 /\ l \in 1 .. l
        BY <1>3, <1>6
      <4>2. r[k].loc = s[l].loc /\ s[l].loc = <<i, 0>>
        BY <1>8, <1>9, <3>1, <4>1 DEF Before
      <4>3. x[k].loc = <<i, 0>>
        BY <1>12, <3>1, <4>1
      <4> QED BY <4>2, <4>3
    <3>2. CASE k # 1
      <4>1. l - k # n /\ l - (k - 1) = l - k + 1 /\ k - 1 \in 1 .. l
        BY <1>3, <1>6, <3>2
      <4>2. r[k].loc = s[k - 1].loc
        BY <1>8, <3>2 DEF Before
      <4>3. s[k - 1].loc = <<i, l - k + 1>>
        BY <1>9, <4>1
      <4> QED BY <1>12, <4>1, <4>2, <4>3
    <3> QED BY <3>1, <3>2
  <2>4. r[k].raw = IF k = l THEN f.raw ELSE 0
    <3>1. k = l \/ k \in 1 .. n
      BY <1>3, <1>6
    <3>2. r[k].raw = s[k].raw
      BY <1>8
    <3>3. s[l].raw = f.raw
      BY <1>5, <1>6
    <3>4. k \in 1 .. n => k # l /\ s[k].raw = 0
      BY <1>3, <1>5, <1>6
    <3> QED BY <3>1, <3>2, <3>3, <3>4
  <2>5. l - k = 0 <=> k = l
    BY <1>7
  <2>6. EntryFits(r[k], x[k])
    <3>1. r[k].fn[2] = 0 /\ (input[i] # NoObject \/ program.mingw) => r[k].raw = i
      BY <1>14, <2>2, <2>4, <2>5
    <3>2. r[k].raw # 0 => r[k].fn[2] = 0 /\ r[k].raw = i
      BY <1>14, <2>2, <2>4, <2>5
    <3> QED BY <2>1, <2>2, <2>3, <3>1, <3>2 DEF EntryFits
  <2>7. ASSUME r[k].path = "none", k = l PROVE x[k].loc = <<i, 0>> \/ Unplaced(i)
    <3>1. CASE n = 0
      <4>1. l - k = n
        BY <1>7, <2>7, <3>1
      <4> QED BY <1>12, <4>1
    <3>2. CASE n # 0
      <4>1. k # 1 /\ k - 1 = n /\ n \in 1 .. n
        BY <1>3, <1>6, <2>7, <3>2
      <4>2. r[k].path = s[n].path
        BY <1>8, <4>1 DEF Before
      <4>3. ~f.placed
        BY <1>5, <2>7, <4>1, <4>2
      <4> QED BY <1>15, <3>2, <4>3 DEF Unplaced
    <3> QED BY <3>1, <3>2
  <2>8. BlankFits(r[k], x[k])
    BY <2>2, <2>5, <2>7 DEF BlankFits
  <2> QED BY <2>6, <2>8
<1> QED BY <1>8, <1>13, <1>16

-----------------------------------------------------------------------------
\* What is expected is fixed by the input and by what resolvers returned.
LEMMA ExpectedUnchanged ==
  ASSUME UNCHANGED <<program, input, given>>
  PROVE  /\ ExpectedSeq' = ExpectedSeq
         /\ \A e, x : /\ EntryFits(e, x)' <=> EntryFits(e, x)
                      /\ BlankFits(e, x)' <=> BlankFits(e, x)
<1>1. \A i \in DOMAIN input : Expected(i)' = Expected(i)
  BY DEF Expected
<1>2. [i \in DOMAIN input' |-> Expected(i)'] = [i \in DOMAIN input |-> Expected(i)]
  <2> HIDE DEF Expected
  <2> QED BY <1>1
<1>3. ExpectedSeq' = ExpectedSeq
  <2> HIDE DEF Expected
  <2> QED BY <1>2 DEF ExpectedSeq
<1>4. ASSUME NEW e, NEW x
      PROVE  /\ EntryFits(e, x)' <=> EntryFits(e, x)
             /\ BlankFits(e, x)' <=> BlankFits(e, x)
  BY DEF EntryFits, BlankFits, Unplaced
<1> QED BY <1>3, <1>4

\* finish lays the functions of each frame where they are expected.
LEMMA ResultOfFinish ==
  ASSUME TypeOK, FramesAreGiven, finish
  PROVE  ResultIsExpected'
<1> DEFINE N == Len(input)
           s == [i \in DOMAIN Filled |-> rotate(segment(i, Filled[i]))]
           t == [i \in DOMAIN input |-> Expected(i)]
<1>1. N \in Nat /\ DOMAIN input = 1 .. N /\ DOMAIN Filled = 1 .. N
  BY DEF TypeOK, FramesAreGiven, Filled
<1>2. ASSUME NEW i \in 1 .. N
      PROVE  /\ s[i] \in Seq(EntryType) /\ t[i] \in Seq(PlaceType) /\ Len(s[i]) = Len(t[i])
             /\ \A k \in 1 .. Len(s[i]) : EntryFits(s[i][k], t[i][k]) /\ BlankFits(s[i][k], t[i][k])
  <2>1. s[i] = rotate(segment(i, Filled[i])) /\ t[i] = Expected(i)
    BY <1>1
  <2> HIDE DEF s, t
  <2> QED BY <1>1, <2>1, SegmentFits
<1>3. s = [i \in 1 .. N |-> s[i]] /\ t = [i \in 1 .. N |-> t[i]]
  BY <1>1
<1>4. result' = FlattenSeq(s)
  BY DEF finish, Filled, flatten_inlines
<1>5. ExpectedSeq = FlattenSeq(t)
  BY DEF ExpectedSeq
<1> HIDE DEF s, t
<1>6. s \in Seq(Seq(EntryType)) /\ t \in Seq(Seq(PlaceType)) /\ Len(s) = N /\ Len(t) = N
  <2>1. s \in [1 .. N -> Seq(EntryType)] /\ t \in [1 .. N -> Seq(PlaceType)]
    BY <1>2, <1>3
  <2> HIDE DEF N
  <2> QED BY <1>1, <2>1
<1>7. result' \in Seq(EntryType) /\ Aligned(result', ExpectedSeq, s, t, N)
  BY <1>2, <1>4, <1>5, <1>6, FlattenAligned
<1>8. Len(result') = Len(ExpectedSeq) /\ DOMAIN result' = 1 .. Len(result')
  BY <1>7 DEF Aligned
<1>9. ASSUME NEW k \in DOMAIN result'
      PROVE  EntryFits(result'[k], ExpectedSeq[k]) /\ BlankFits(result'[k], ExpectedSeq[k])
  <2>1. PICK i \in 1 .. N, j \in Nat :
          j \in 1 .. Len(s[i]) /\ result'[k] = s[i][j] /\ ExpectedSeq[k] = t[i][j]
    BY <1>7, <1>8 DEF Aligned
  <2> QED BY <1>2, <2>1
<1>10. UNCHANGED <<program, input, given>>
  BY DEF finish, options, history
<1>11. phase' = "done" => ~program.mingw
  BY DEF finish
<1> QED BY <1>7, <1>8, <1>9, <1>10, <1>11, ExpectedUnchanged DEF ResultIsExpected

-----------------------------------------------------------------------------
\* What dbghelp says of its own address fits the entry that is overwritten.
LEMMA OverwriteFits ==
  ASSUME NEW e \in EntryType, NEW x, NEW answer \in Answers(e.raw),
         EntryFits(e, x), BlankFits(e, x)
  PROVE  /\ overwrite(e, e.raw, answer) \in EntryType
         /\ EntryFits(overwrite(e, e.raw, answer), x)
         /\ overwrite(e, e.raw, answer).by = overwrite(e, e.raw, answer).raw
<1>0. PICK o, raw : o = overwrite(e, e.raw, answer) /\ raw = e.raw
  OBVIOUS
<1>1. /\ raw \in Nat /\ <<raw, 0>> \in Nat \X Nat
      /\ answer.symbol \in Symbols /\ answer.path \in Paths
  BY <1>0 DEF Answers, EntryType, Paths, Symbols
<1>2. answer.path # "none" => raw # 0
  BY <1>0 DEF Answers
<1>3. /\ o.fn = e.fn /\ o.by = raw /\ o.raw = raw
      /\ o.symbol = IF e.symbol = "none" THEN answer.symbol ELSE e.symbol
      /\ o.path = IF e.path = "none" THEN answer.path ELSE e.path
      /\ o.loc = IF e.path = "none" /\ answer.path # "none" THEN <<raw, 0>> ELSE e.loc
  BY <1>0 DEF overwrite, EntryType
<1>4. o \in EntryType
  <2>1. o = [raw |-> o.raw, fn |-> o.fn, loc |-> o.loc, symbol |-> o.symbol, path |-> o.path,
             by |-> o.by]
    BY <1>0 DEF overwrite, EntryType
  <2>2. /\ o.raw \in Nat /\ o.by \in Nat /\ o.fn \in Nat \X Nat /\ o.loc \in Nat \X Nat
        /\ o.symbol \in Symbols /\ o.path \in Paths
    BY <1>1, <1>3 DEF EntryType
  <2>3. PICK a, b, c, d, f, g : /\ a = o.raw /\ b = o.fn /\ c = o.loc
                                /\ d = o.symbol /\ f = o.path /\ g = o.by
    OBVIOUS
  <2>4. o = [raw |-> a, fn |-> b, loc |-> c, symbol |-> d, path |-> f, by |-> g]
    BY <2>1, <2>3
  <2> QED BY <2>2, <2>3, <2>4 DEF EntryType
<1>5. EntryFits(o, x)
  <2>1. CASE e.path = "none" /\ answer.path # "none"
    <3>1. e.fn[2] = 0 /\ raw = e.fn[1]
      BY <1>0, <1>2, <2>1 DEF EntryFits
    <3>2. o.loc = <<e.fn[1], 0>>
      BY <1>3, <2>1, <3>1
    <3>3. x.loc = <<e.fn[1], 0>> \/ Unplaced(e.fn[1])
      BY <2>1, <3>1 DEF BlankFits
    <3> QED BY <1>0, <1>3, <3>1, <3>2, <3>3 DEF EntryFits
  <2>2. CASE ~(e.path = "none" /\ answer.path # "none")
    BY <1>0, <1>3, <2>2 DEF EntryFits
  <2> QED BY <2>1, <2>2
<1> QED BY <1>0, <1>3, <1>4, <1>5

\* fill_blanks gives each blank entry the answer for its own address: the n-th
\* answer goes to the n-th entry that is blank, which is the one it was asked for.
LEMMA ResultOfFill ==
  ASSUME TypeOK, FailuresAreHandled, ResultIsExpected, fill_blanks
  PROVE  ResultIsExpected'
<1> DEFINE places == [k \in DOMAIN result |-> k]
           B == {k \in DOMAIN result : blank(result[k])}
           blanks == Filter(places, B)
           address(n) == result[blanks[n]].raw
           n_of(k) == CHOOSE n \in DOMAIN blanks : blanks[n] = k
<1>1. /\ phase = "fill" /\ program.mingw /\ result \in Seq(EntryType)
      /\ Len(result) = Len(ExpectedSeq)
      /\ \A k \in DOMAIN result : /\ EntryFits(result[k], ExpectedSeq[k])
                                  /\ BlankFits(result[k], ExpectedSeq[k])
  BY DEF fill_blanks, FailuresAreHandled, ResultIsExpected
<1>2. places \in Seq(Nat) /\ Len(places) = Len(result) /\ DOMAIN result = 1 .. Len(result)
  BY <1>1
<1>3. PICK at : blanks \in Seq(Nat) /\ Kept(at, blanks, places, B, Len(places))
  <2> HIDE DEF places, B
  <2> QED BY <1>2, FilterKeeps
<1>4. ASSUME NEW k \in B
      PROVE  n_of(k) \in DOMAIN blanks /\ blanks[n_of(k)] = k /\ address(n_of(k)) = result[k].raw
  <2>1. k \in 1 .. Len(places) /\ places[k] = k
    BY <1>2
  <2>2. \E n \in DOMAIN blanks : blanks[n] = k
    <3> HIDE DEF places, B, blanks
    <3>1. PICK n \in 1 .. Len(blanks) : at[n] = k
      BY <1>3, <2>1 DEF Kept
    <3>2. blanks[n] = places[at[n]]
      BY <1>3 DEF Kept
    <3> QED BY <1>3, <2>1, <3>1, <3>2
  <2>3. n_of(k) \in DOMAIN blanks /\ blanks[n_of(k)] = k
    <3> HIDE DEF blanks
    <3> QED BY <2>2
  <2> QED BY <2>3
<1>5. PICK answers \in [DOMAIN blanks -> UNION {Answers(address(n)) : n \in DOMAIN blanks}] :
        /\ \A n \in DOMAIN blanks : answers[n] \in Answers(address(n))
        /\ result' = [k \in DOMAIN result |->
                        IF blank(result[k])
                        THEN overwrite(result[k], address(n_of(k)), answers[n_of(k)])
                        ELSE result[k]]
  BY DEF fill_blanks
<1>6. ASSUME NEW k \in DOMAIN result
      PROVE  /\ result'[k] \in EntryType
             /\ EntryFits(result'[k], ExpectedSeq[k])
             /\ blank(result'[k]) => result'[k].by = result'[k].raw
  <2>1. /\ result[k] \in EntryType /\ EntryFits(result[k], ExpectedSeq[k])
        /\ BlankFits(result[k], ExpectedSeq[k])
    BY <1>1
  <2>2. CASE blank(result[k])
    <3>1. k \in B
      BY <2>2
    <3> DEFINE answer == answers[n_of(k)]
    <3>2. answer \in Answers(result[k].raw)
      BY <1>4, <1>5, <3>1
    <3>3. result'[k] = overwrite(result[k], result[k].raw, answer)
      BY <1>4, <1>5, <2>2, <3>1
    <3> HIDE DEF answer, B, blanks, n_of, address
    <3> QED BY <2>1, <3>2, <3>3, OverwriteFits
  <2>3. CASE ~blank(result[k])
    <3>1. result'[k] = result[k]
      BY <1>5, <2>3
    <3> QED BY <2>1, <2>3, <3>1
  <2> QED BY <2>2, <2>3
<1>7. result' = [k \in DOMAIN result |-> result'[k]]
  BY <1>5
<1>8. result' \in Seq(EntryType) /\ Len(result') = Len(result) /\ DOMAIN result' = DOMAIN result
  <2>1. result' \in [1 .. Len(result) -> EntryType]
    BY <1>2, <1>6, <1>7
  <2> QED BY <1>1, <1>2, <2>1
<1>9. UNCHANGED <<program, input, given>> /\ phase' = "done"
  BY DEF fill_blanks, options, history
<1> HIDE DEF places, B, blanks, address, n_of
<1> QED BY <1>1, <1>6, <1>8, <1>9, ExpectedUnchanged DEF ResultIsExpected

LEMMA ResultStep ==
  /\ TypeOK /\ FailuresAreHandled /\ FramesAreGiven /\ RestIsUnresolved /\ ResultIsExpected
  /\ [Next]_vars
  => ResultIsExpected'
<1> SUFFICES ASSUME TypeOK, FailuresAreHandled, FramesAreGiven, RestIsUnresolved,
                    ResultIsExpected, [Next]_vars
             PROVE  ResultIsExpected'
  OBVIOUS
<1>1. CASE finish
  BY <1>1, ResultOfFinish
<1>2. CASE fill_blanks
  BY <1>2, ResultOfFill
<1>3. CASE set_options \/ UNCHANGED vars
  <2>1. UNCHANGED <<program, input, given, phase, result>>
    BY <1>3 DEF set_options, vars, options, call, history
  <2> QED BY <2>1, ExpectedUnchanged DEF ResultIsExpected
<1>4. ASSUME phase' \notin {"fill", "done"} PROVE ResultIsExpected'
  BY <1>4 DEF ResultIsExpected
<1>5. CASE \/ calls < Len(program.traces) /\ resolve_frames(program.traces[calls + 1])
           \/ \E o \in Objects : begin_group(o) \/ begin_group_throws(o)
           \/ resolve_jit_group \/ resolve_frame \/ resolve_frame_throws \/ end_group
           \/ catch_group \/ fill_blanks_throws \/ catch_call \/ return
  BY <1>4, <1>5 DEF resolve_frames, begin_group, begin_group_throws, resolve_jit_group,
       resolve_frame, resolve_frame_throws, end_group, catch_group, fill_blanks_throws, catch_call,
       return
<1> QED BY <1>1, <1>2, <1>3, <1>5 DEF Next

\* Every step preserves the invariant.
LEMMA NextInv == Inv /\ [Next]_vars => Inv'
<1> SUFFICES ASSUME Inv, [Next]_vars PROVE Inv'
  OBVIOUS
<1> QED BY TypeStep, ResolversStep, FailuresStep, FramesStep, ResultStep DEF Inv

\* The invariant, for all programs, answers and interleavings with the options.
THEOREM Invariance == Spec => []Inv
<1> QED BY InitInv, NextInv, PTL DEF Spec

-----------------------------------------------------------------------------
\* get_resolver and resolve_frames, whatever the number of traces and objects
\* and whatever fails: in speed mode an object is opened by libdwarf once, and in
\* the other modes no resolver is kept.
THEOREM ResolversAreCachedByMode == Spec => []ResolverMadeOnce
<1>1. Inv => ResolverMadeOnce
  BY DEF Inv, TypeOK, ResolversAreCounted, ResolverMadeOnce
<1> QED BY <1>1, Invariance, PTL

\* The handlers of resolve_frames and of stacktrace::resolve: with
\* absorb_trace_exceptions on, no exception gets out and only dbghelp costs the
\* caller the trace; with it off, no call in which something threw returns one.
THEOREM OptionDecidesFailures == Spec => []FailuresFollowOption
<1>1. Inv => FailuresFollowOption
  BY DEF Inv, FailuresAreHandled, FailuresFollowOption
<1> QED BY <1>1, Invariance, PTL

\* resolve_frames, flatten_inlines and fill_blanks: for every trace, every order of
\* the groups, every outcome of the resolvers and any number of inlined calls, the
\* resolved trace has every frame of the input in order, after its own inlined
\* calls, each function where it was, and each answer of dbghelp at its address.
THEOREM NoFrameIsLost == Spec => []TraceIsComplete
<1>1. ASSUME Inv, phase = "done" PROVE TraceIsComplete
  <2>1. /\ Len(result) = Len(ExpectedSeq)
        /\ \A k \in DOMAIN result :
             /\ EntryFits(result[k], ExpectedSeq[k])
             /\ program.mingw /\ blank(result[k]) => result[k].by = result[k].raw
    BY <1>1 DEF Inv, ResultIsExpected
  <2> HIDE DEF Expected
  <2> QED BY <2>1 DEF TraceIsComplete, EntryFits, ExpectedSeq, Unplaced
<1>2. Inv => TraceIsComplete
  BY <1>1 DEF TraceIsComplete
<1> QED BY <1>2, Invariance, PTL
=============================================================================
