---------------------------- MODULE TraceProofs ----------------------------
(***************************************************************************)
(* The traces of the current exceptions and their printing.                *)
(*                                                                         *)
(* The rethrow switch is never set while user code runs, traces are filed  *)
(* by the way the exception was raised, and the two holders with the       *)
(* switch implement InterceptedExceptions.                                 *)
(*                                                                         *)
(* Formatters own their options through any copies and moves, a printed    *)
(* trace is that of its frames that are wanted, and a snippet is the       *)
(* smallest window around its line, for every trace, file and option.      *)
(***************************************************************************)
EXTENDS ExceptionTrace, Formatter, SequenceLemmas, FunctionTheorems

\* What Append and Pop do to a stack of frames.
LEMMA Push ==
  ASSUME NEW s \in Seq(Frames), NEW f \in Frames
  PROVE  /\ Append(s, f) \in Seq(Frames)
         /\ Append(s, f) # <<>>
         /\ Len(Append(s, f)) = Len(s) + 1
         /\ Append(s, f)[Len(s) + 1] = f
         /\ \A i \in DOMAIN s : Append(s, f)[i] = s[i]
         /\ \A i \in DOMAIN Append(s, f) : i \in DOMAIN s \/ i = Len(s) + 1
BY AppendProperties

\* What Pop does: the frames below the innermost stay.
LEMMA PopLemma ==
  ASSUME stack \in Seq(Frames)
  PROVE  /\ Pop \in Seq(Frames)
         /\ \A i \in DOMAIN Pop : i \in DOMAIN stack /\ i # Len(stack) /\ Pop[i] = stack[i]
<1>1. Len(stack) \in Nat
  OBVIOUS
<1>2. CASE stack = <<>>
  <2>1. Pop = <<>>
    BY <1>2, SubSeqEmpty DEF Pop
  <2> QED BY <2>1
<1>3. CASE stack # <<>>
  <2>1. Len(stack) >= 1
    BY <1>3
  <2>2. \A i \in 1 .. Len(stack) - 1 : stack[i] \in Frames
    OBVIOUS
  <2>3. /\ Pop \in Seq(Frames)
        /\ Len(Pop) = IF 1 <= Len(stack) - 1 THEN (Len(stack) - 1) - 1 + 1 ELSE 0
        /\ \A i \in 1 .. (Len(stack) - 1) - 1 + 1 : Pop[i] = stack[1 + i - 1]
    BY <1>1, <2>1, <2>2, SubSeqProperties DEF Pop
  <2>4. DOMAIN Pop = 1 .. Len(stack) - 1
    BY <2>1, <2>3
  <2> QED BY <2>1, <2>3, <2>4
<1> QED BY <1>2, <1>3

\* The kind of a frame tells its fields; only a guard is of kind "guard".
LEMMA FrameKinds ==
  ASSUME NEW f \in Frames
  PROVE  /\ f.kind = "handler" => f.exc \in Exceptions /\ f.traced \in BOOLEAN
         /\ f.kind = "try" => f.traced \in BOOLEAN
         /\ f.kind = "destructor" => f.outer \in Raises
         /\ f.kind = "guard" <=> f = Guard
BY DEF Frames, Guard

\* Frames that are pushed are frames, and only rethrow() pushes a guard.
LEMMA FrameTypes ==
  /\ \A clause \in Clauses, traced \in BOOLEAN :
       Try(traced, clause) \in Frames /\ Try(traced, clause) # Guard
  /\ \A e \in Exceptions, traced \in BOOLEAN :
       Handler(e, traced) \in Frames /\ Handler(e, traced) # Guard
  /\ \A r \in Raises : Destructor(r) \in Frames /\ Destructor(r) # Guard
  /\ Guard \in Frames /\ Guard.kind = "guard"
<1>1. \A clause \in Clauses, traced \in BOOLEAN :
        Try(traced, clause) \in Frames /\ Try(traced, clause) # Guard
  BY DEF Frames, Try, Guard
<1>2. \A e \in Exceptions, traced \in BOOLEAN :
        Handler(e, traced) \in Frames /\ Handler(e, traced) # Guard
  BY DEF Frames, Handler, Guard
<1>3. \A r \in Raises : Destructor(r) \in Frames /\ Destructor(r) # Guard
  BY DEF Frames, Destructor, Guard
<1>4. Guard \in Frames /\ Guard.kind = "guard"
  BY DEF Frames, Guard
<1> QED BY <1>1, <1>2, <1>3, <1>4

\* While the program runs, and whenever the innermost frame is not a guard,
\* the switch is off and no guard is on the stack.
LEMMA SwitchOff ==
  ASSUME Inv, phase = "running" \/ ~TopIs("guard")
  PROVE  ~rethrow_switch /\ \A i \in DOMAIN stack : stack[i] # Guard
BY DEF Inv, TypeOK, SwitchOnlyDuringRethrow

\* A stack without guards and a switch that is off satisfy the invariant.
LEMMA NoGuard ==
  ASSUME ~rethrow_switch', \A i \in DOMAIN stack' : stack'[i] # Guard
  PROVE  SwitchOnlyDuringRethrow'
BY DEF SwitchOnlyDuringRethrow

\* Holders made from a raise, or by resolving one.
LEMMA HolderTypes ==
  /\ \A t \in Raises \cup {None} : Unresolved(t) \in Holders /\ Unresolved(t).trace = t
  /\ \A h \in Holders : \A g \in resolve(h) :
       g \in Holders /\ g.trace \in {h.trace, None} /\ h.trace \in Raises \cup {None}
<1>1. \A t \in Raises \cup {None} : Unresolved(t) \in Holders /\ Unresolved(t).trace = t
  BY DEF Unresolved, Holders
<1>2. ASSUME NEW h \in Holders, NEW g \in resolve(h)
      PROVE  g \in Holders /\ g.trace \in {h.trace, None} /\ h.trace \in Raises \cup {None}
  <2>1. g = h \/ g = Resolved(h.trace) \/ g = Resolved(None)
    BY DEF resolve
  <2>2. h.trace \in Raises \cup {None}
    BY DEF Holders
  <2>3. \A t \in Raises \cup {None} : Resolved(t) \in Holders /\ Resolved(t).trace = t
    BY DEF Resolved, Holders
  <2> QED BY <2>1, <2>2, <2>3
<1> QED BY <1>1, <1>2

-----------------------------------------------------------------------------
\* The invariant holds before the first block is entered.
LEMMA InitInv == Init => Inv
<1> SUFFICES ASSUME Init PROVE Inv
  OBVIOUS
<1>1. TypeOK
  <2>1. Unresolved(None) \in Holders
    BY HolderTypes
  <2>2. stack \in Seq(Frames) /\ thrown \subseteq Exceptions
    BY DEF Init
  <2> QED BY <2>1, <2>2 DEF Init, TypeOK
<1>2. SwitchOnlyDuringRethrow /\ SwitchSetForSearch
  BY DEF Init, SwitchOnlyDuringRethrow, SwitchSetForSearch
<1>3. TracesFiledByKind
  BY HolderTypes DEF Init, TracesFiledByKind
<1> QED BY <1>1, <1>2, <1>3 DEF Inv

\* Raising an exception other than by rethrow() preserves the invariant.
LEMMA RaiseInv ==
  ASSUME Inv, NEW e \in Exceptions, NEW kind \in {"throw", "again"},
         start_raise(e, kind), UNCHANGED <<stack, rethrow_switch>>,
         thrown' \subseteq Exceptions
  PROVE  Inv'
<1>1. raise' \in Raises /\ raise'.kind # "rethrow"
  BY DEF start_raise, Raises
<1>2. raise' # None
  BY <1>1, ExceptionAssumption DEF Raises
<1>3. TypeOK'
  BY <1>1, <1>2 DEF Inv, TypeOK, start_raise, traces
<1>4. SwitchOnlyDuringRethrow'
  BY SwitchOff, NoGuard DEF start_raise
<1>5. SwitchSetForSearch'
  BY <1>1 DEF SwitchSetForSearch
<1>6. TracesFiledByKind'
  BY DEF Inv, TracesFiledByKind, start_raise, traces
<1> QED BY <1>3, <1>4, <1>5, <1>6 DEF Inv

\* A step after which the switch is off, no guard is on the stack and nothing
\* is being searched for preserves the invariant if it preserves types and
\* files no new trace.
LEMMA QuietInv ==
  ASSUME TypeOK', ~rethrow_switch', \A i \in DOMAIN stack' : stack'[i] # Guard,
         phase' # "searching", TracesFiledByKind'
  PROVE  Inv'
BY NoGuard DEF Inv, SwitchSetForSearch

\* Every step preserves the invariant.
LEMMA StepInv == Inv /\ [Next]_vars => Inv'
<1> SUFFICES ASSUME Inv, [Next]_vars PROVE Inv'
  OBVIOUS
<1> USE DEF traces
<1>1. ASSUME NEW clause \in Clauses, NEW traced \in BOOLEAN, enter_try(traced, clause)
      PROVE  Inv'
  <2>1. Try(traced, clause) \in Frames /\ Try(traced, clause) # Guard
    BY FrameTypes
  <2>2. TypeOK'
    BY <1>1, <2>1, Push DEF Inv, TypeOK, enter_try
  <2>3. \A i \in DOMAIN stack' : stack'[i] # Guard
    BY <1>1, <2>1, Push, SwitchOff DEF Inv, TypeOK, enter_try
  <2>4. ~rethrow_switch' /\ phase' # "searching" /\ TracesFiledByKind'
    BY <1>1, SwitchOff DEF Inv, TracesFiledByKind, enter_try
  <2> QED BY <2>2, <2>3, <2>4, QuietInv
<1>2. CASE leave
  <2>1. TypeOK'
    BY <1>2, PopLemma DEF Inv, TypeOK, leave
  <2>2. \A i \in DOMAIN stack' : stack'[i] # Guard
    BY <1>2, PopLemma, SwitchOff DEF Inv, TypeOK, leave
  <2>3. ~rethrow_switch' /\ phase' # "searching" /\ TracesFiledByKind'
    BY <1>2, SwitchOff DEF Inv, TracesFiledByKind, leave
  <2> QED BY <2>1, <2>2, <2>3, QuietInv
<1>3. ASSUME NEW e \in Exceptions, throw(e)
      PROVE  Inv'
  BY <1>3, RaiseInv DEF throw, Inv, TypeOK
<1>4. CASE throw_again
  <2>1. PICK i \in Handling : start_raise(stack[i].exc, "again")
                             /\ UNCHANGED <<stack, rethrow_switch, thrown>>
    BY <1>4 DEF throw_again
  <2>2. stack[i].exc \in Exceptions
    BY FrameKinds DEF Inv, TypeOK, Handling
  <2> QED BY <2>1, <2>2, RaiseInv DEF Inv, TypeOK
<1>5. CASE rethrow
  <2>1. PICK i \in Handling : start_raise(stack[i].exc, "rethrow")
    BY <1>5 DEF rethrow
  <2>2. stack[i].exc \in Exceptions
    BY FrameKinds DEF Inv, TypeOK, Handling
  <2>3. /\ raise' \in Raises /\ raise'.kind = "rethrow" /\ raise' # None
        /\ phase' = "searching" /\ rethrow_switch' = TRUE
        /\ stack' = Append(stack, Guard)
        /\ UNCHANGED <<traces, thrown, seen>>
    BY <1>5, <2>1, <2>2, ExceptionAssumption DEF start_raise, rethrow, Raises
  <2>4. TypeOK'
    BY <2>3, Push, FrameTypes DEF Inv, TypeOK
  <2>5. ~rethrow_switch /\ \A j \in DOMAIN stack : stack[j] # Guard
    BY <2>1, SwitchOff DEF start_raise
  <2>6. SwitchOnlyDuringRethrow'
    <3>1. /\ stack' # <<>> /\ Len(stack') = Len(stack) + 1
          /\ stack'[Len(stack')] = Guard
          /\ \A j \in DOMAIN stack' : j # Len(stack') => stack'[j] # Guard
      BY <2>3, <2>5, Push, FrameTypes DEF Inv, TypeOK
    <3> QED BY <2>3, <3>1, FrameTypes DEF SwitchOnlyDuringRethrow, TopIs, Top
  <2>7. SwitchSetForSearch' /\ TracesFiledByKind'
    BY <2>3 DEF Inv, SwitchSetForSearch, TracesFiledByKind
  <2> QED BY <2>4, <2>6, <2>7 DEF Inv
<1>6. CASE search
  <2>1. raise \in Raises /\ raise # None /\ phase' = "unwinding"
        /\ UNCHANGED <<stack, raise, rethrow_switch, thrown>>
    BY <1>6 DEF Inv, TypeOK, search
  <2>2. rethrow_switch <=> raise.kind = "rethrow"
    BY <1>6 DEF Inv, SwitchOnlyDuringRethrow, SwitchSetForSearch, search
  <2>3. /\ save_current_trace(raise) \/ UNCHANGED traces
        /\ seen' \in {raise, seen, None}
    BY <1>6 DEF search
  <2>4. TypeOK' /\ TracesFiledByKind'
    <3>1. CASE UNCHANGED traces
      BY <2>1, <2>3, <3>1 DEF Inv, TypeOK, TracesFiledByKind
    <3>2. CASE save_current_trace(raise)
      BY <2>1, <2>2, <2>3, <3>2, HolderTypes
      DEF Inv, TypeOK, TracesFiledByKind, save_current_trace, Raises
    <3> QED BY <2>3, <3>1, <3>2
  <2>5. SwitchOnlyDuringRethrow' /\ SwitchSetForSearch'
    BY <2>1 DEF Inv, SwitchOnlyDuringRethrow, SwitchSetForSearch, TopIs, Top
  <2> QED BY <2>4, <2>5 DEF Inv
<1>7. CASE terminate
  BY <1>7 DEF Inv, TypeOK, SwitchOnlyDuringRethrow, SwitchSetForSearch,
              TracesFiledByKind, terminate, TopIs, Top
<1>8. CASE unwind
  <2>1. TypeOK'
    BY <1>8, PopLemma DEF Inv, TypeOK, unwind
  <2>2. rethrow_switch => Top = Guard
    BY FrameKinds DEF Inv, TypeOK, SwitchOnlyDuringRethrow, TopIs, Top
  <2>3. \A i \in DOMAIN stack' : stack'[i] # Guard
    BY <1>8, PopLemma DEF Inv, TypeOK, SwitchOnlyDuringRethrow, unwind
  <2>4. ~rethrow_switch' /\ phase' # "searching" /\ TracesFiledByKind'
    BY <1>8, <2>2 DEF Inv, TracesFiledByKind, unwind
  <2> QED BY <2>1, <2>3, <2>4, QuietInv
<1>9. CASE enter_destructor
  <2>1. raise \in Raises
    BY <1>9 DEF Inv, TypeOK, enter_destructor
  <2>2. TypeOK'
    BY <1>9, <2>1, Push, FrameTypes DEF Inv, TypeOK, enter_destructor
  <2>3. \A i \in DOMAIN stack' : stack'[i] # Guard
    BY <1>9, <2>1, Push, SwitchOff, FrameTypes DEF Inv, TypeOK, enter_destructor
  <2>4. ~rethrow_switch' /\ phase' # "searching" /\ TracesFiledByKind'
    BY <1>9, SwitchOff DEF Inv, TracesFiledByKind, enter_destructor
  <2> QED BY <2>2, <2>3, <2>4, QuietInv
<1>10. CASE leave_destructor
  <2>1. Top.outer \in Raises
    BY <1>10, FrameKinds DEF Inv, TypeOK, leave_destructor, TopIs, Top
  <2>2. TypeOK'
    BY <1>10, <2>1, PopLemma, ExceptionAssumption DEF Inv, TypeOK, leave_destructor, Raises
  <2>3. \A i \in DOMAIN stack' : stack'[i] # Guard
    BY <1>10, PopLemma, SwitchOff DEF Inv, TypeOK, leave_destructor
  <2>4. ~rethrow_switch' /\ phase' # "searching" /\ TracesFiledByKind'
    BY <1>10, SwitchOff DEF Inv, TracesFiledByKind, leave_destructor
  <2> QED BY <2>2, <2>3, <2>4, QuietInv
<1>11. CASE enter_handler
  <2>1. stack # <<>> /\ Top \in Frames /\ Top.kind = "try" /\ raise.exc \in Exceptions
    BY <1>11 DEF Inv, TypeOK, enter_handler, HandlingBlock, Catches, Top, Raises
  <2>2. Handler(raise.exc, Top.traced) \in Frames
        /\ Handler(raise.exc, Top.traced) # Guard
    BY <2>1, FrameKinds, FrameTypes
  <2>3. TypeOK'
    BY <1>11, <2>2, PopLemma, Push DEF Inv, TypeOK, enter_handler
  <2>4. ~rethrow_switch /\ \A i \in DOMAIN stack : stack[i] # Guard
    BY <2>1, SwitchOff DEF TopIs
  <2>5. \A i \in DOMAIN stack' : stack'[i] # Guard
    BY <1>11, <2>2, <2>4, PopLemma, Push DEF Inv, TypeOK, enter_handler
  <2>6. ~rethrow_switch' /\ phase' # "searching" /\ TracesFiledByKind'
    BY <1>11, <2>4 DEF Inv, TracesFiledByKind, enter_handler
  <2> QED BY <2>3, <2>5, <2>6, QuietInv
<1>12. CASE from_current_exception
  BY <1>12, HolderTypes DEF Inv, TypeOK, SwitchOnlyDuringRethrow, SwitchSetForSearch,
                            TracesFiledByKind, from_current_exception, SeenIfKept, TopIs, Top
<1>13. CASE from_current_exception_rethrow
  BY <1>13, HolderTypes DEF Inv, TypeOK, SwitchOnlyDuringRethrow, SwitchSetForSearch,
                            TracesFiledByKind, from_current_exception_rethrow, SeenIfKept,
                            TopIs, Top
<1>14. ASSUME NEW e \in Exceptions,
              raw_trace_from_current_exception(e)
                \/ raw_trace_from_current_exception_rethrow(e)
       PROVE  Inv'
  BY <1>3, <1>14 DEF raw_trace_from_current_exception,
                     raw_trace_from_current_exception_rethrow
<1>15. CASE clear_current_exception_traces
  BY <1>15, HolderTypes DEF Inv, TypeOK, SwitchOnlyDuringRethrow, SwitchSetForSearch,
                            TracesFiledByKind, clear_current_exception_traces, TopIs, Top
<1>16. CASE UNCHANGED vars
  BY <1>16 DEF Inv, TypeOK, SwitchOnlyDuringRethrow, SwitchSetForSearch,
               TracesFiledByKind, vars, TopIs, Top
<1> QED
  BY <1>1, <1>2, <1>3, <1>4, <1>5, <1>6, <1>7, <1>8, <1>9, <1>10, <1>11, <1>12,
     <1>13, <1>14, <1>15, <1>16 DEF Next

-----------------------------------------------------------------------------
\* The inductive invariant holds in every reachable state.
THEOREM SpecInv == Spec => []Inv
<1> QED BY InitInv, StepInv, PTL DEF Spec

\* Every variable keeps its type, and an exception is in flight exactly while
\* no user code runs.
THEOREM TypeCorrect == Spec => []TypeOK
<1>1. Inv => TypeOK  BY DEF Inv
<1> QED BY <1>1, SpecInv, PTL

\* However deep handlers, destructors and rethrows nest, the rethrow switch is
\* on only while rethrow() itself is searched from or unwound.
THEOREM SwitchScoped == Spec => []SwitchOnlyDuringRethrow
<1>1. Inv => SwitchOnlyDuringRethrow  BY DEF Inv
<1> QED BY <1>1, SpecInv, PTL

\* The trace of a throw is never filed as that of a rethrow, nor the reverse.
THEOREM FiledByKind == Spec => []TracesFiledByKind
<1>1. Inv => TracesFiledByKind  BY DEF Inv
<1> QED BY <1>1, SpecInv, PTL

-----------------------------------------------------------------------------
\* A search keeps the last seen exception and the traces together: what is
\* saved, and where, is what was seen.
LEMMA SearchAnswers ==
  ASSUME Inv, TracesAnswerForLastSeen, search
  PROVE  TracesAnswerForLastSeen'
<1>1. /\ raise \in Raises /\ raise # None
      /\ rethrow_switch <=> raise.kind = "rethrow"
  BY DEF Inv, TypeOK, SwitchOnlyDuringRethrow, SwitchSetForSearch, search
<1>2. \/ save_current_trace(raise) /\ seen' = raise
      \/ UNCHANGED traces /\ seen' \in {seen, None}
  BY DEF search, traces
<1>3. Unresolved(raise).trace = raise /\ Unresolved(None).trace = None
  BY DEF Unresolved
<1>4. CASE UNCHANGED traces /\ seen' \in {seen, None}
  BY <1>4 DEF TracesAnswerForLastSeen, current_exception_was_rethrown, traces
<1>5. CASE save_current_trace(raise) /\ seen' = raise
  BY <1>1, <1>3, <1>5
  DEF TracesAnswerForLastSeen, current_exception_was_rethrown, save_current_trace
<1> QED BY <1>2, <1>4, <1>5

\* Every step keeps the last seen exception answered for.
LEMMA StepAnswers ==
  ASSUME Inv, TracesAnswerForLastSeen, [Next]_vars
  PROVE  TracesAnswerForLastSeen'
<1>1. CASE search
  BY <1>1, SearchAnswers
<1>2. CASE from_current_exception \/ from_current_exception_rethrow
  <2>1. seen' # None => /\ seen' = seen
                        /\ current_exception_trace'.trace = current_exception_trace.trace
                        /\ saved_rethrow_trace'.trace = saved_rethrow_trace.trace
    BY <1>2 DEF from_current_exception, from_current_exception_rethrow, SeenIfKept
  <2> QED BY <2>1 DEF TracesAnswerForLastSeen, current_exception_was_rethrown
<1>3. CASE clear_current_exception_traces
  BY <1>3 DEF TracesAnswerForLastSeen, clear_current_exception_traces
<1>4. CASE UNCHANGED <<traces, seen>>
  BY <1>4 DEF TracesAnswerForLastSeen, current_exception_was_rethrown, traces
<1>5. Next => \/ search \/ from_current_exception \/ from_current_exception_rethrow
              \/ clear_current_exception_traces \/ UNCHANGED <<traces, seen>>
  BY DEF Next, traces, enter_try, leave, start_raise, throw, throw_again, rethrow,
         terminate, unwind, enter_handler, enter_destructor, leave_destructor,
         raw_trace_from_current_exception, raw_trace_from_current_exception_rethrow
<1> QED BY <1>1, <1>2, <1>3, <1>4, <1>5 DEF vars, traces

\* However deep blocks nest, the traces and current_exception_was_rethrown are
\* those of the exception a CPPTRACE_CATCH last saw.
THEOREM LastSeenAnswered == Spec => []TracesAnswerForLastSeen
<1>1. Init => TracesAnswerForLastSeen
  BY DEF Init, TracesAnswerForLastSeen
<1>2. Inv /\ TracesAnswerForLastSeen /\ [Next]_vars => TracesAnswerForLastSeen'
  BY StepAnswers
<1> QED BY <1>1, <1>2, SpecInv, PTL DEF Spec

-----------------------------------------------------------------------------
\* A search that ends at a CPPTRACE_CATCH is one interception.
LEMMA SearchIntercepts ==
  ASSUME Inv, search
  PROVE  [Intercepted!Next]_(Intercepted!vars)
<1>1. /\ raise \in Raises
      /\ rethrow_switch <=> raise.kind = "rethrow"
      /\ save_current_trace(raise) \/ UNCHANGED traces
  BY DEF Inv, TypeOK, SwitchOnlyDuringRethrow, SwitchSetForSearch, search
<1>2. raise.exc \in Exceptions /\ raise.kind \in {"throw", "again", "rethrow"}
      /\ raise = [exc |-> raise.exc, kind |-> raise.kind]
  BY <1>1 DEF Raises
<1>3. /\ Unresolved(raise).trace = raise /\ Unresolved(None).trace = None
  BY DEF Unresolved
<1>4. CASE UNCHANGED traces
  BY <1>4 DEF traces, Intercepted!vars
<1>5. CASE save_current_trace(raise) /\ raise.kind = "rethrow"
  <2>1. saved_rethrow_trace'.trace = [exc |-> raise.exc, kind |-> "rethrow"]
        /\ UNCHANGED current_exception_trace
    BY <1>1, <1>2, <1>3, <1>5 DEF save_current_trace
  <2>2. Intercepted!Rethrow(raise.exc)
    BY <2>1 DEF Intercepted!Rethrow
  <2> QED BY <1>2, <2>2 DEF Intercepted!Next
<1>6. CASE save_current_trace(raise) /\ raise.kind # "rethrow"
  <2>1. /\ current_exception_trace'.trace = [exc |-> raise.exc, kind |-> raise.kind]
        /\ saved_rethrow_trace'.trace = None
    BY <1>1, <1>2, <1>3, <1>6 DEF save_current_trace
  <2>2. Intercepted!Throw(raise.exc, raise.kind)
    BY <2>1 DEF Intercepted!Throw
  <2> QED BY <1>2, <1>6, <2>2 DEF Intercepted!Next
<1> QED BY <1>1, <1>4, <1>5, <1>6

\* Every step is an interception, drops a trace, or changes neither trace.
LEMMA StepIntercepts == Inv /\ [Next]_vars => [Intercepted!Next]_(Intercepted!vars)
<1> SUFFICES ASSUME Inv, [Next]_vars PROVE [Intercepted!Next]_(Intercepted!vars)
  OBVIOUS
<1>1. CASE search
  BY <1>1, SearchIntercepts
<1>2. CASE from_current_exception
  <2>1. current_exception_trace'.trace \in {current_exception_trace.trace, None}
        /\ UNCHANGED saved_rethrow_trace
    BY <1>2, HolderTypes DEF Inv, TypeOK, from_current_exception
  <2> QED BY <2>1 DEF Intercepted!Next, Intercepted!Forget
<1>3. CASE from_current_exception_rethrow
  <2>1. saved_rethrow_trace'.trace \in {saved_rethrow_trace.trace, None}
        /\ UNCHANGED current_exception_trace
    BY <1>3, HolderTypes DEF Inv, TypeOK, from_current_exception_rethrow
  <2> QED BY <2>1 DEF Intercepted!Next, Intercepted!Forget
<1>4. CASE clear_current_exception_traces
  <2>1. current_exception_trace'.trace = None /\ saved_rethrow_trace'.trace = None
    BY <1>4 DEF clear_current_exception_traces, Unresolved
  <2> QED BY <2>1 DEF Intercepted!Next, Intercepted!Forget
<1>5. CASE UNCHANGED traces
  BY <1>5 DEF traces, Intercepted!vars
<1>6. Next => \/ search \/ from_current_exception \/ from_current_exception_rethrow
              \/ clear_current_exception_traces \/ UNCHANGED traces
  BY DEF Next, traces, enter_try, leave, start_raise, throw, throw_again, rethrow,
         terminate, unwind, enter_handler, enter_destructor, leave_destructor,
         raw_trace_from_current_exception, raw_trace_from_current_exception_rethrow
<1> QED BY <1>1, <1>2, <1>3, <1>4, <1>5, <1>6 DEF vars, traces

\* The holders and the switch implement the record of the last interception:
\* an origin survives every rethrow(), and a rethrow is forgotten when a new
\* exception is intercepted.
THEOREM Refinement == Spec => ImplementsInterceptedExceptions
<1>1. Init => Intercepted!Init
  BY DEF Init, Intercepted!Init, Unresolved
<1> QED BY <1>1, StepIntercepts, SpecInv, PTL
   DEF Spec, ImplementsInterceptedExceptions, Intercepted!Spec

-----------------------------------------------------------------------------
OptionSet == [color : {"automatic", "always", "none"}, symbols : {"full", "pruned"},
              snippets : BOOLEAN, context : Contexts, placeholders : BOOLEAN,
              hideMachinery : BOOLEAN, filter : BOOLEAN, transform : BOOLEAN]

\* What is held is an impl or nothing, and the impls there are have options.
HeldOK ==
  /\ pimpl \in [DOMAIN pimpl -> Impls \cup {NullImpl}]
  /\ DOMAIN impls \subseteq Impls
  /\ impls \in [DOMAIN impls -> OptionSet]

\* What was read of a file is what is there.
ManagersOK == \A path \in DOMAIN managers : managers[path] = Manager(path)

FormatterInv == HeldOK /\ FormattersOwnTheirImpls /\ ManagersOK

LEMMA DefaultsAreOptions == Defaults \in OptionSet
BY FormatterAssumption DEF Defaults, OptionSet

LEMMA OptionIsSet ==
  ASSUME NEW options \in OptionSet, NEW option \in DOMAIN OptionValues, NEW value \in OptionValues[option]
  PROVE  [options EXCEPT ![option] = value] \in OptionSet
BY DEF OptionSet, OptionValues

\* The impl that goes when f is given a new one.
Goes(f, gone) == \/ f \notin DOMAIN pimpl /\ gone = NullImpl
                 \/ Live(f) /\ gone = pimpl[f]

\* A new impl in the place of a formatter's, which may not have been there.
LEMMA Replaced ==
  ASSUME HeldOK, FormattersOwnTheirImpls, NEW f, NEW gone, NEW i, NEW options \in OptionSet,
         Goes(f, gone),
         i \in Impls \ DOMAIN Without(gone),
         pimpl' = Holding(f, i), impls' = With(Without(gone), i, options),
         reassigned \subseteq reassigned'
  PROVE  HeldOK' /\ FormattersOwnTheirImpls'
<1>1. /\ DOMAIN pimpl' = DOMAIN pimpl \cup {f} /\ pimpl'[f] = i
      /\ \A g \in DOMAIN pimpl \ {f} : pimpl'[g] = pimpl[g]
      /\ pimpl' \in [DOMAIN pimpl' -> Impls \cup {NullImpl}]
  BY DEF Holding, HeldOK
<1>2. /\ DOMAIN impls' = (DOMAIN impls \ {gone}) \cup {i}
      /\ impls' \in [DOMAIN impls' -> OptionSet]
      /\ i \in Impls /\ (i \in DOMAIN impls => i = gone)
  <2>1. DOMAIN Without(gone) = DOMAIN impls \ {gone}
        /\ \A j \in DOMAIN impls \ {gone} : Without(gone)[j] \in OptionSet
    BY DEF Without, HeldOK
  <2> QED BY <2>1 DEF With
<1>3. HeldOK'
  BY <1>1, <1>2 DEF HeldOK
<1>4. \A g \in DOMAIN pimpl \ (reassigned \cup {f}) : pimpl[g] = gone => gone = NullImpl
  BY DEF FormattersOwnTheirImpls, Live, Goes
<1>5. \A g \in DOMAIN pimpl \ (reassigned \cup {f}) :
        pimpl[g] # NullImpl => pimpl[g] \in DOMAIN impls \ {gone} /\ pimpl[g] # i
  BY <1>2, <1>4, FormatterAssumption DEF FormattersOwnTheirImpls
<1>6. DOMAIN impls' \subseteq {pimpl'[g] : g \in DOMAIN pimpl'}
  <2> SUFFICES ASSUME NEW j \in DOMAIN impls' PROVE \E g \in DOMAIN pimpl' : pimpl'[g] = j
    OBVIOUS
  <2>1. CASE j = i
    BY <1>1, <2>1
  <2>2. CASE j # i
    <3>1. j \in DOMAIN impls /\ j # gone
      BY <1>2, <2>2
    <3>2. PICK g \in DOMAIN pimpl : pimpl[g] = j
      BY <3>1 DEF FormattersOwnTheirImpls
    <3>3. g # f
      BY <3>1, <3>2 DEF Goes, Live
    <3> QED BY <1>1, <3>2, <3>3
  <2> QED BY <2>1, <2>2
<1>7. ASSUME NEW g \in DOMAIN pimpl' \ reassigned'
      PROVE  /\ pimpl'[g] \in DOMAIN impls' \cup {NullImpl}
             /\ \A h \in DOMAIN pimpl' \ (reassigned' \cup {g}) :
                  pimpl'[g] = pimpl'[h] => pimpl'[g] = NullImpl
  <2>1. pimpl'[g] \in DOMAIN impls' \cup {NullImpl}
    BY <1>1, <1>2, <1>5
  <2>2. ASSUME NEW h \in DOMAIN pimpl' \ (reassigned' \cup {g}), pimpl'[g] = pimpl'[h]
        PROVE  pimpl'[g] = NullImpl
    <3>1. CASE g # f /\ h # f
      <4>1. g \in DOMAIN pimpl \ reassigned /\ h \in DOMAIN pimpl \ (reassigned \cup {g})
            /\ pimpl[g] = pimpl[h]
        BY <1>1, <2>2, <3>1
      <4> QED BY <1>1, <3>1, <4>1 DEF FormattersOwnTheirImpls
    <3>2. CASE g = f \/ h = f
      BY <1>1, <1>5, <2>2, <3>2
    <3> QED BY <3>1, <3>2
  <2> QED BY <2>1, <2>2
<1> QED BY <1>3, <1>6, <1>7 DEF FormattersOwnTheirImpls

LEMMA NothingGone ==
  ASSUME HeldOK
  PROVE  Without(NullImpl) = impls
BY FormatterAssumption DEF HeldOK, Without

LEMMA ConstructStep ==
  ASSUME HeldOK, FormattersOwnTheirImpls, NEW f, construct(f)
  PROVE  HeldOK' /\ FormattersOwnTheirImpls'
<1>1. PICK i \in Impls \ DOMAIN impls : pimpl' = Holding(f, i) /\ impls' = With(impls, i, Defaults)
  BY DEF construct
<1>2. f \notin DOMAIN pimpl /\ reassigned' = reassigned
  BY DEF construct
<1>3. i \in Impls \ DOMAIN Without(NullImpl) /\ impls' = With(Without(NullImpl), i, Defaults)
  BY <1>1, NothingGone
<1>4. Goes(f, NullImpl) /\ reassigned \subseteq reassigned'
  BY <1>2 DEF Goes
<1> QED BY <1>1, <1>3, <1>4, Replaced, DefaultsAreOptions

LEMMA HasOptions ==
  ASSUME HeldOK, FormattersOwnTheirImpls, NEW f, Usable(f)
  PROVE  pimpl[f] \in DOMAIN impls /\ impls[pimpl[f]] \in OptionSet
BY DEF HeldOK, FormattersOwnTheirImpls, Usable, Live

LEMMA CopyConstructStep ==
  ASSUME HeldOK, FormattersOwnTheirImpls, NEW f, NEW other, copy_construct(f, other)
  PROVE  HeldOK' /\ FormattersOwnTheirImpls'
<1>1. PICK i \in Impls \ DOMAIN impls :
        pimpl' = Holding(f, i) /\ impls' = With(impls, i, impls[pimpl[other]])
  BY DEF copy_construct
<1>2. f \notin DOMAIN pimpl /\ reassigned' = reassigned /\ impls[pimpl[other]] \in OptionSet
  BY HasOptions DEF copy_construct
<1>3. i \in Impls \ DOMAIN Without(NullImpl) /\ impls' = With(Without(NullImpl), i, impls[pimpl[other]])
  BY <1>1, NothingGone
<1>4. Goes(f, NullImpl) /\ reassigned \subseteq reassigned'
  BY <1>2 DEF Goes
<1> QED BY <1>1, <1>2, <1>3, <1>4, Replaced

LEMMA CopyAssignStep ==
  ASSUME HeldOK, FormattersOwnTheirImpls, NEW f, NEW other, copy_assign(f, other)
  PROVE  HeldOK' /\ FormattersOwnTheirImpls'
<1>1. PICK i \in Impls \ DOMAIN Without(pimpl[f]) :
        /\ \E options \in IF f = other THEN {Defaults, impls[pimpl[f]]} ELSE {impls[pimpl[other]]} :
             impls' = With(Without(pimpl[f]), i, options)
        /\ pimpl' = Holding(f, i)
  BY DEF copy_assign
<1>2. PICK options : /\ options \in IF f = other THEN {Defaults, impls[pimpl[f]]} ELSE {impls[pimpl[other]]}
                     /\ impls' = With(Without(pimpl[f]), i, options)
  BY <1>1
<1>3. Live(f) /\ reassigned \subseteq reassigned' /\ Usable(other)
  BY DEF copy_assign
<1>4. options \in OptionSet
  BY <1>2, <1>3, HasOptions, DefaultsAreOptions
<1>5. Goes(f, pimpl[f])
  BY <1>3 DEF Goes
<1> QED BY <1>1, <1>2, <1>3, <1>4, <1>5, Replaced

\* A pointer goes from one formatter to another, and what that had is deleted.
LEMMA MoveConstructStep ==
  ASSUME HeldOK, FormattersOwnTheirImpls, NEW f, NEW other, move_construct(f, other)
  PROVE  HeldOK' /\ FormattersOwnTheirImpls'
<1>1. /\ f \notin DOMAIN pimpl /\ other \in DOMAIN pimpl /\ other # f /\ other \notin reassigned
      /\ impls' = impls /\ reassigned' = reassigned
  BY DEF move_construct, Live
<1>2. pimpl' = [Holding(f, pimpl[other]) EXCEPT ![other] = NullImpl]
  BY DEF move_construct
<1>3. /\ DOMAIN pimpl' = DOMAIN pimpl \cup {f} /\ pimpl'[f] = pimpl[other] /\ pimpl'[other] = NullImpl
      /\ \A g \in DOMAIN pimpl \ {other} : pimpl'[g] = pimpl[g]
      /\ pimpl' \in [DOMAIN pimpl' -> Impls \cup {NullImpl}]
  BY <1>1, <1>2 DEF Holding, HeldOK
<1>4. HeldOK'
  BY <1>1, <1>3 DEF HeldOK
<1>5. DOMAIN impls' \subseteq {pimpl'[g] : g \in DOMAIN pimpl'}
  <2> SUFFICES ASSUME NEW j \in DOMAIN impls PROVE \E g \in DOMAIN pimpl' : pimpl'[g] = j
    BY <1>1
  <2>1. PICK g \in DOMAIN pimpl : pimpl[g] = j
    BY DEF FormattersOwnTheirImpls
  <2> QED BY <1>3, <2>1
<1>6. ASSUME NEW g \in DOMAIN pimpl' \ reassigned',
             NEW h \in DOMAIN pimpl' \ (reassigned' \cup {g}), pimpl'[g] = pimpl'[h]
      PROVE  pimpl'[g] = NullImpl
  <2>1. CASE g = other \/ h = other
    BY <1>3, <1>6, <2>1
  <2>2. CASE g # other /\ h # other
    <3> DEFINE from(x) == IF x = f THEN other ELSE x
    <3>1. /\ from(g) \in DOMAIN pimpl \ reassigned /\ from(h) \in DOMAIN pimpl \ (reassigned \cup {from(g)})
          /\ pimpl[from(g)] = pimpl'[g] /\ pimpl[from(h)] = pimpl'[h]
      BY <1>1, <1>3, <2>2
    <3> HIDE DEF from
    <3> QED BY <1>6, <3>1 DEF FormattersOwnTheirImpls
  <2> QED BY <2>1, <2>2
<1>7. \A g \in DOMAIN pimpl' \ reassigned' : pimpl'[g] \in DOMAIN impls' \cup {NullImpl}
  BY <1>1, <1>3 DEF FormattersOwnTheirImpls
<1> QED BY <1>4, <1>5, <1>6, <1>7 DEF FormattersOwnTheirImpls

LEMMA MoveAssignStep ==
  ASSUME HeldOK, FormattersOwnTheirImpls, NEW f, NEW other, move_assign(f, other)
  PROVE  HeldOK' /\ FormattersOwnTheirImpls'
<1>1. /\ Live(f) /\ Live(other) /\ f \in DOMAIN pimpl /\ other \in DOMAIN pimpl
      /\ f \notin reassigned /\ other \notin reassigned
      /\ reassigned' = IF f = other /\ pimpl[f] # NullImpl THEN reassigned \union {f} ELSE reassigned
      /\ pimpl' = [pimpl EXCEPT ![other] = NullImpl, ![f] = pimpl[other]]
  BY DEF move_assign, Live
<1>2. /\ DOMAIN pimpl' = DOMAIN pimpl /\ pimpl'[f] = pimpl[other] /\ (f # other => pimpl'[other] = NullImpl)
      /\ \A g \in DOMAIN pimpl \ {f, other} : pimpl'[g] = pimpl[g]
      /\ pimpl' \in [DOMAIN pimpl' -> Impls \cup {NullImpl}]
  BY <1>1 DEF HeldOK
<1>3. DOMAIN impls' = DOMAIN impls \ {pimpl[f]} /\ impls' \in [DOMAIN impls' -> OptionSet]
  BY DEF move_assign, Without, HeldOK
<1>4. HeldOK'
  BY <1>2, <1>3 DEF HeldOK
<1>5. \A g \in DOMAIN pimpl \ (reassigned \cup {f}) : pimpl[g] = pimpl[f] => pimpl[f] = NullImpl
  BY <1>1 DEF FormattersOwnTheirImpls
<1>6. DOMAIN impls' \subseteq {pimpl'[g] : g \in DOMAIN pimpl'}
  <2> SUFFICES ASSUME NEW j \in DOMAIN impls' PROVE \E g \in DOMAIN pimpl' : pimpl'[g] = j
    OBVIOUS
  <2>1. j \in DOMAIN impls /\ j # pimpl[f]
    BY <1>3
  <2>2. PICK g \in DOMAIN pimpl : pimpl[g] = j
    BY <2>1 DEF FormattersOwnTheirImpls
  <2>3. CASE g = other
    BY <1>1, <1>2, <2>2, <2>3
  <2>4. CASE g # other
    BY <1>2, <2>1, <2>2, <2>4
  <2> QED BY <2>3, <2>4
<1>7. ASSUME NEW g \in DOMAIN pimpl' \ reassigned' PROVE pimpl'[g] \in DOMAIN impls' \cup {NullImpl}
  <2>1. CASE g \notin {f, other}
    BY <1>2, <1>3, <1>5, <1>7, <1>1, <2>1 DEF FormattersOwnTheirImpls
  <2>2. CASE g = f /\ f # other
    BY <1>1, <1>2, <1>3, <1>5, <2>2 DEF FormattersOwnTheirImpls
  <2>3. CASE g = f /\ f = other
    BY <1>1, <1>2, <1>7, <2>3
  <2>4. CASE g = other /\ f # other
    BY <1>2, <2>4
  <2> QED BY <2>1, <2>2, <2>3, <2>4
<1>8. ASSUME NEW g \in DOMAIN pimpl' \ reassigned',
             NEW h \in DOMAIN pimpl' \ (reassigned' \cup {g}), pimpl'[g] = pimpl'[h]
      PROVE  pimpl'[g] = NullImpl
  <2>1. CASE f = other
    <3>1. \A x \in DOMAIN pimpl : pimpl'[x] = pimpl[x]
      BY <1>1, <1>2, <2>1
    <3>2. g \in DOMAIN pimpl \ reassigned /\ h \in DOMAIN pimpl \ (reassigned \cup {g})
      BY <1>1, <1>2, <1>8
    <3> QED BY <1>8, <3>1, <3>2 DEF FormattersOwnTheirImpls
  <2>2. CASE f # other /\ (g = other \/ h = other)
    BY <1>2, <1>8, <2>2
  <2>3. CASE f # other /\ g # other /\ h # other
    <3> DEFINE from(x) == IF x = f THEN other ELSE x
    <3>1. /\ from(g) \in DOMAIN pimpl \ reassigned /\ from(h) \in DOMAIN pimpl \ (reassigned \cup {from(g)})
          /\ pimpl[from(g)] = pimpl'[g] /\ pimpl[from(h)] = pimpl'[h]
      BY <1>1, <1>2, <2>3
    <3> HIDE DEF from
    <3> QED BY <1>8, <3>1 DEF FormattersOwnTheirImpls
  <2> QED BY <2>1, <2>2, <2>3
<1> QED BY <1>4, <1>6, <1>7, <1>8 DEF FormattersOwnTheirImpls

LEMMA DestroyStep ==
  ASSUME HeldOK, FormattersOwnTheirImpls, NEW f, destroy(f)
  PROVE  HeldOK' /\ FormattersOwnTheirImpls'
<1>1. f \in DOMAIN pimpl /\ f \notin reassigned /\ reassigned' = reassigned
  BY DEF destroy, Live
<1>2. /\ DOMAIN pimpl' = DOMAIN pimpl \ {f} /\ \A g \in DOMAIN pimpl' : pimpl'[g] = pimpl[g]
      /\ pimpl' \in [DOMAIN pimpl' -> Impls \cup {NullImpl}]
  BY DEF destroy, HeldOK
<1>3. DOMAIN impls' = DOMAIN impls \ {pimpl[f]} /\ impls' \in [DOMAIN impls' -> OptionSet]
  BY DEF destroy, Without, HeldOK
<1>4. HeldOK'
  BY <1>2, <1>3 DEF HeldOK
<1>5. DOMAIN impls' \subseteq {pimpl'[g] : g \in DOMAIN pimpl'}
  <2> SUFFICES ASSUME NEW j \in DOMAIN impls' PROVE \E g \in DOMAIN pimpl' : pimpl'[g] = j
    OBVIOUS
  <2>1. PICK g \in DOMAIN pimpl : pimpl[g] = j
    BY <1>3 DEF FormattersOwnTheirImpls
  <2> QED BY <1>2, <1>3, <2>1
<1>6. ASSUME NEW g \in DOMAIN pimpl' \ reassigned'
      PROVE  /\ pimpl'[g] \in DOMAIN impls' \cup {NullImpl}
             /\ \A h \in DOMAIN pimpl' \ (reassigned' \cup {g}) :
                  pimpl'[g] = pimpl'[h] => pimpl'[g] = NullImpl
  <2>1. g \in DOMAIN pimpl \ (reassigned \cup {f}) /\ pimpl'[g] = pimpl[g]
    BY <1>1, <1>2
  <2> QED BY <1>1, <1>2, <1>3, <2>1 DEF FormattersOwnTheirImpls
<1> QED BY <1>4, <1>5, <1>6 DEF FormattersOwnTheirImpls

LEMMA ConfigureStep ==
  ASSUME HeldOK, FormattersOwnTheirImpls, NEW f, configure(f)
  PROVE  HeldOK' /\ FormattersOwnTheirImpls'
<1>0. PICK option \in DOMAIN OptionValues :
        \E value \in OptionValues[option] :
          impls' = [impls EXCEPT ![pimpl[f]] = [@ EXCEPT ![option] = value]]
  BY DEF configure
<1>1. PICK value \in OptionValues[option] :
        impls' = [impls EXCEPT ![pimpl[f]] = [@ EXCEPT ![option] = value]]
  BY <1>0
<1>2. pimpl[f] \in DOMAIN impls /\ impls[pimpl[f]] \in OptionSet
  BY HasOptions DEF configure
<1> DEFINE changed == [impls[pimpl[f]] EXCEPT ![option] = value]
<1>3. changed \in OptionSet
  BY <1>2, OptionIsSet
<1>4. impls' = [impls EXCEPT ![pimpl[f]] = changed]
  BY <1>1
<1> HIDE DEF changed
<1>5. DOMAIN impls' = DOMAIN impls /\ impls' \in [DOMAIN impls' -> OptionSet]
  BY <1>2, <1>3, <1>4 DEF HeldOK
<1>6. pimpl' = pimpl /\ reassigned' = reassigned
  BY DEF configure
<1> QED BY <1>5, <1>6 DEF HeldOK, FormattersOwnTheirImpls

-----------------------------------------------------------------------------
LEMMA ManagersStay ==
  ASSUME ManagersOK, [FormatterNext]_formatter_vars
  PROVE  ManagersOK'
<1>1. ASSUME managers' = managers PROVE ManagersOK'
  BY <1>1 DEF ManagersOK, Manager
<1>2. ASSUME NEW f, NEW trace, NEW stream, NEW override, print(f, trace, stream, override) PROVE ManagersOK'
  <2>1. PICK shown : managers' = [p \in DOMAIN managers \union shown |-> get_manager(p)]
    BY <1>2 DEF print
  <2> QED BY <2>1 DEF ManagersOK, get_manager, Manager
<1>3. ASSUME NEW f, construct(f) \/ destroy(f) \/ configure(f) PROVE ManagersOK'
  BY <1>1, <1>3 DEF construct, destroy, configure, Changed
<1>4. ASSUME NEW f, NEW other, \/ copy_construct(f, other) \/ move_construct(f, other)
                               \/ copy_assign(f, other) \/ move_assign(f, other)
      PROVE ManagersOK'
  BY <1>1, <1>4 DEF copy_construct, move_construct, copy_assign, move_assign, Changed
<1>5. ASSUME NEW f, NEW frame, NEW stream, NEW override, print_frame(f, frame, stream, override)
      PROVE ManagersOK'
  BY <1>1, <1>5 DEF print_frame
<1>6. ASSUME NEW s, prune(s) PROVE ManagersOK'
  BY <1>1, <1>6 DEF prune
<1>7. ASSUME UNCHANGED formatter_vars PROVE ManagersOK'
  BY <1>1, <1>7 DEF formatter_vars
<1> QED BY <1>2, <1>3, <1>4, <1>5, <1>6, <1>7 DEF FormatterNext

LEMMA ImplsStay ==
  ASSUME HeldOK, FormattersOwnTheirImpls, [FormatterNext]_formatter_vars
  PROVE  HeldOK' /\ FormattersOwnTheirImpls'
<1>1. ASSUME UNCHANGED <<pimpl, impls, reassigned>> PROVE HeldOK' /\ FormattersOwnTheirImpls'
  BY <1>1 DEF HeldOK, FormattersOwnTheirImpls
<1>2. ASSUME NEW f, NEW trace, NEW stream, NEW override, print(f, trace, stream, override)
      PROVE  HeldOK' /\ FormattersOwnTheirImpls'
  BY <1>1, <1>2 DEF print
<1>3. ASSUME NEW f, NEW frame, NEW stream, NEW override, print_frame(f, frame, stream, override)
      PROVE  HeldOK' /\ FormattersOwnTheirImpls'
  BY <1>1, <1>3 DEF print_frame
<1>4. ASSUME NEW s, prune(s) PROVE HeldOK' /\ FormattersOwnTheirImpls'
  BY <1>1, <1>4 DEF prune
<1>5. ASSUME UNCHANGED formatter_vars PROVE HeldOK' /\ FormattersOwnTheirImpls'
  BY <1>1, <1>5 DEF formatter_vars
<1> QED BY <1>2, <1>3, <1>4, <1>5, ConstructStep, DestroyStep, ConfigureStep, CopyConstructStep,
           MoveConstructStep, CopyAssignStep, MoveAssignStep DEF FormatterNext

LEMMA FormatterInitInv == FormatterInit => FormatterInv
BY DEF FormatterInit, FormatterInv, HeldOK, FormattersOwnTheirImpls, ManagersOK

\* Formatters own the options they point to, and a file is remembered as it is,
\* in every reachable state.
THEOREM FormatterInvariant == FormatterSpec => []FormatterInv
<1>1. FormatterInv /\ [FormatterNext]_formatter_vars => FormatterInv'
  BY ManagersStay, ImplsStay DEF FormatterInv
<1> QED BY <1>1, FormatterInitInv, PTL DEF FormatterSpec

\* Every formatter has an impl of its own and none is lost, for any number of
\* formatters and any sequence of copies, moves and assignments.
THEOREM ImplsAreOwned == FormatterSpec => []FormattersOwnTheirImpls
BY FormatterInvariant, PTL DEF FormatterInv

-----------------------------------------------------------------------------
\* Colors are given or not as the call asks; a call that does not ask, as the mode
\* and the stream say.  Nothing is said of "no" with the mode always.
ColorOf(options, override, stream, color) ==
  ~(override = "no" /\ options.color = "always") =>
    (color <=> \/ override = "yes"
               \/ /\ override = "unset"
                  /\ \/ options.color = "always"
                     \/ options.color = "automatic" /\ stream \in Terminals)

LEMMA ColorIsRight ==
  ASSUME NEW options, NEW override \in Overrides, NEW stream \in Streams
  PROVE  ColorOf(options, override, stream, Color(options, override, stream))
<1> DEFINE mode == options.color
           settled == IF override # "unset" THEN override
                      ELSE IF mode = "always" THEN "yes" ELSE "no"
<1>1. stream \in {"string", "file"} => stream \notin Terminals
  BY FormatterAssumption
<1>2. CASE stream \in {"string", "file"}
  <2>1. Color(options, override, stream) = should_do_color(mode, settled, FALSE)
    BY <1>2 DEF Color
  <2>2. (settled = "yes") <=> (override = "yes" \/ (override = "unset" /\ mode = "always"))
    BY DEF Overrides
  <2> HIDE DEF settled
  <2>3. should_do_color(mode, settled, FALSE) <=> (mode = "always" \/ settled = "yes")
    BY DEF should_do_color
  <2> QED BY <1>1, <1>2, <2>1, <2>2, <2>3 DEF ColorOf, Overrides
<1>3. CASE stream \notin {"string", "file"}
  <2>1. Color(options, override, stream) = should_do_color(mode, override, stream \in Terminals)
    BY <1>3 DEF Color
  <2> QED BY <2>1 DEF should_do_color, ColorOf, Overrides
<1> QED BY <1>2, <1>3

\* The least and the greatest number of a set.
LEMMA LeastIs ==
  ASSUME NEW S, S \subseteq Nat, S # {}
  PROVE  Min(S) \in S /\ \A n \in S : Min(S) <= n
<1>1. PICK n \in S : \A m \in S : n <= m
  BY LeastNumber
<1> QED BY <1>1 DEF Min

LEMMA GreatestIs ==
  ASSUME NEW N \in Nat, NEW S, S \subseteq 0 .. N, S # {}
  PROVE  Max(S) \in S /\ \A n \in S : n <= Max(S)
<1> DEFINE below == {N - n : n \in S}
<1>1. below \subseteq Nat /\ below # {}
  <2>1. \A n \in S : N - n \in Nat
    OBVIOUS
  <2>2. \E n \in S : N - n \in below
    OBVIOUS
  <2> QED BY <2>1, <2>2
<1>2. PICK b \in below : \A c \in below : b <= c
  <2> HIDE DEF below
  <2> QED BY <1>1, LeastNumber
<1>3. PICK m \in S : b = N - m
  OBVIOUS
<1>4. \A n \in S : n <= m
  <2> SUFFICES ASSUME NEW n \in S PROVE n <= m
    OBVIOUS
  <2>1. N - n \in below /\ n \in 0 .. N /\ m \in 0 .. N
    OBVIOUS
  <2>2. N - m <= N - n
    <3> HIDE DEF below
    <3> QED BY <1>2, <1>3, <2>1
  <2> QED BY <2>1, <2>2
<1> QED BY <1>4 DEF Max

\* Of the k values of an increasing function, so many are at most the last.
LEMMA Counted ==
  ASSUME NEW L \in Nat, NEW f, NEW k \in 0 .. L,
         \A i \in 1 .. L : f[i] \in Nat, \A i, j \in 1 .. L : i < j => f[i] < f[j]
  PROVE  Cardinality({f[i] : i \in 1 .. k}) = k
<1> DEFINE S == {f[i] : i \in 1 .. k}
           g == [i \in 1 .. k |-> f[i]]
<1>1. g \in [1 .. k -> S] /\ \A i, j \in 1 .. k : g[i] = g[j] => i = j
  <2>1. \A i, j \in 1 .. k : i # j => f[i] # f[j]
    <3> SUFFICES ASSUME NEW i \in 1 .. k, NEW j \in 1 .. k, i # j PROVE f[i] # f[j]
      OBVIOUS
    <3>1. i \in 1 .. L /\ j \in 1 .. L /\ f[i] \in Nat /\ f[j] \in Nat /\ (i < j \/ j < i)
      OBVIOUS
    <3> QED BY <3>1
  <2> QED BY <2>1
<1>2. \A x \in S : \E i \in 1 .. k : g[i] = x
  OBVIOUS
<1>3. ExistsBijection(1 .. k, S)
  <2> HIDE DEF g, S
  <2>1. g \in Bijection(1 .. k, S)
    BY <1>1, <1>2 DEF Bijection, Injection, Surjection, IsInjective
  <2> QED BY <2>1 DEF ExistsBijection
<1>4. IsFiniteSet(1 .. k) /\ Cardinality(1 .. k) = k
  BY FS_Interval
<1> HIDE DEF S
<1>5. Cardinality(S) = k
  BY <1>3, <1>4, FS_Bijection
<1> QED BY <1>5 DEF S
-----------------------------------------------------------------------------
\* A trace is printed from the frame after its first throw on.
LEMMA StartIsRight ==
  ASSUME NEW options \in OptionSet, NEW trace \in Traces
  PROVE  /\ Len(trace) \in Nat /\ DOMAIN trace = 1 .. Len(trace)
         /\ get_trace_start(options, trace) \in 1 .. Len(trace) + 1
         /\ Machinery(options, trace) = 1 .. get_trace_start(options, trace) - 1
<1> DEFINE n == Len(trace)
           throws == {i \in DOMAIN trace : ThrowsAt(trace, i)}
           start == get_trace_start(options, trace)
<1>1. n \in Nat /\ DOMAIN trace = 1 .. n
  BY FormatterAssumption
<1>2. start = IF options.hideMachinery /\ throws # {} THEN Min(throws) + 1 ELSE 1
  BY DEF get_trace_start, ThrowsAt
<1>3. CASE options.hideMachinery /\ throws # {}
  <2>1. PICK m \in throws : m = Min(throws) /\ \A i \in throws : m <= i
    <3>1. throws \subseteq Nat /\ throws # {}
      BY <1>1, <1>3
    <3> HIDE DEF throws
    <3> QED BY <3>1, LeastIs
  <2>2. start = m + 1 /\ m \in 1 .. n /\ ThrowsAt(trace, m)
    BY <1>1, <1>2, <1>3, <2>1
  <2>3. ASSUME NEW j \in 1 .. n, j < m PROVE ~ThrowsAt(trace, j)
    <3>1. ThrowsAt(trace, j) => j \in throws
      BY <1>1
    <3>2. ~(m <= j)
      BY <1>1, <2>2, <2>3
    <3> QED BY <2>1, <3>1, <3>2
  <2>4. ASSUME NEW i \in 1 .. n
        PROVE  i \in Machinery(options, trace) <=> i <= m
    <3>1. ASSUME i <= m PROVE i \in Machinery(options, trace)
      <4>1. m \in i .. n
        BY <1>1, <2>2, <3>1
      <4>2. \A j \in 1 .. (i - 1) : j \in 1 .. n /\ j < m
        BY <1>1, <2>2, <3>1
      <4>3. \A j \in 1 .. (i - 1) : ~ThrowsAt(trace, j)
        BY <2>3, <4>2
      <4> QED BY <1>3, <2>2, <4>1, <4>3 DEF Machinery
    <3>2. ASSUME i \in Machinery(options, trace), ~(i <= m) PROVE FALSE
      <4>1. m \in 1 .. (i - 1)
        BY <2>2, <3>2
      <4> QED BY <2>2, <3>2, <4>1 DEF Machinery
    <3> QED BY <3>1, <3>2
  <2>5. Machinery(options, trace) \subseteq 1 .. n
    BY DEF Machinery
  <2> HIDE DEF throws, start
  <2>6. start - 1 = m /\ m \in 1 .. n
    BY <1>1, <2>2
  <2>7. Machinery(options, trace) = 1 .. m
    <3>1. \A i : i \in 1 .. m <=> i \in 1 .. n /\ i <= m
      BY <1>1, <2>6
    <3>2. \A i \in 1 .. n : i \in Machinery(options, trace) <=> i <= m
      BY <2>4
    <3> QED BY <2>5, <3>1, <3>2, Zenon
  <2>8. start \in 1 .. n + 1
    BY <1>1, <2>2
  <2> QED BY <1>1, <2>6, <2>7, <2>8 DEF start
<1>4. CASE ~(options.hideMachinery /\ throws # {})
  <2>1. start = 1
    BY <1>2, <1>4
  <2>2. Machinery(options, trace) = {}
    <3> SUFFICES ASSUME NEW i \in Machinery(options, trace) PROVE FALSE
      OBVIOUS
    <3>1. PICK j \in i .. n : ThrowsAt(trace, j)
      BY DEF Machinery
    <3>2. options.hideMachinery /\ i \in 1 .. n
      BY DEF Machinery
    <3>3. j \in throws
      BY <1>1, <3>1, <3>2
    <3> QED BY <1>4, <3>2, <3>3
  <2> QED BY <1>1, <2>1, <2>2
<1> QED BY <1>3, <1>4

\* What is printed is what is to be shown.
LEMMA PrintedIsRight ==
  ASSUME NEW options \in OptionSet, NEW trace \in Traces
  PROVE  printed(options, trace) = ToShow(options, trace)
<1>1. ASSUME NEW i
      PROVE  i \in get_trace_start(options, trace) .. Len(trace)
             <=> i \in (1 .. Len(trace)) \ Machinery(options, trace)
  BY StartIsRight
<1>2. ASSUME NEW i
      PROVE  (options.placeholders \/ ~FilteredOut(options, Transformed(options, trace[i])))
             <=> (options.placeholders \/ ~options.filter \/ Wanted(Transformed(options, trace[i])))
  BY DEF FilteredOut
<1> QED BY <1>1, <1>2 DEF printed, ToShow

\* What is printed and where: at[k] is the place in the trace of entry k.
Printed(at, L, o, trace) ==
  /\ L \in Nat
  /\ at \in [1 .. L -> 1 .. Len(trace)]
  /\ \A j, k \in 1 .. L : j < k => at[j] < at[k]
  /\ {at[k] : k \in 1 .. L} = ToShow(o, trace)

LEMMA EntriesAreOfFrames ==
  ASSUME NEW options \in OptionSet, NEW trace \in Traces
  PROVE  \E at, L : /\ Printed(at, L, options, trace)
                    /\ Len(write_trace(options, trace)) = L
                    /\ \A k \in 1 .. L : write_trace(options, trace)[k] = entry(options, trace, at[k])
<1> DEFINE n == Len(trace)
           s == [i \in 1 .. n |-> i]
           t == Filter(s, printed(options, trace))
<1>1. n \in Nat /\ s \in Seq(1 .. n) /\ Len(s) = n
  BY StartIsRight
<1>2. PICK at : t \in Seq(1 .. n) /\ Kept(at, t, s, printed(options, trace), n)
  <2> HIDE DEF s, t
  <2> QED BY <1>1, FilterKeeps DEF t
<1>3. Len(t) \in Nat /\ DOMAIN t = 1 .. Len(t)
  <2> HIDE DEF t
  <2> QED BY <1>2
<1>4. \A k \in 1 .. Len(t) : t[k] = at[k] /\ at[k] \in 1 .. n /\ at[k] \in printed(options, trace)
  <2> HIDE DEF t
  <2> QED BY <1>2 DEF Kept
<1>5. ToShow(options, trace) \subseteq 1 .. n
  BY DEF ToShow
<1>6. {at[k] : k \in 1 .. Len(t)} = ToShow(options, trace)
  <2>1. ASSUME NEW i \in ToShow(options, trace) PROVE \E k \in 1 .. Len(t) : at[k] = i
    <3>1. i \in 1 .. n /\ s[i] = i /\ i \in printed(options, trace)
      BY <1>5, PrintedIsRight
    <3> HIDE DEF s, t
    <3> QED BY <1>2, <3>1 DEF Kept
  <2> HIDE DEF s, t
  <2> QED BY <1>4, <2>1, PrintedIsRight
<1>7. Printed(at, Len(t), options, trace)
  <2> HIDE DEF s, t
  <2> QED BY <1>2, <1>3, <1>6 DEF Kept, Printed
<1>8. write_trace(options, trace) = [k \in 1 .. Len(t) |-> entry(options, trace, t[k])]
  BY <1>3 DEF write_trace
<1> HIDE DEF s, t
<1>9. Len(write_trace(options, trace)) = Len(t)
  BY <1>3, <1>8
<1>10. \A k \in 1 .. Len(t) : write_trace(options, trace)[k] = entry(options, trace, at[k])
  BY <1>4, <1>8
<1> QED BY <1>7, <1>9, <1>10

\* An entry e that is right for the frame at i.
EntryFor(o, trace, i, e) ==
  /\ e.number = Cardinality({j \in 1..(i - 1) : j \notin Machinery(o, trace)})
  /\ ~e.filtered => e.frame.file = Transformed(o, trace[i]).file
  /\ e.filtered <=> (o.filter /\ ~Wanted(Transformed(o, trace[i])))
  /\ e.ended <=> i # Len(trace)

LEMMA EntryIsRight ==
  ASSUME NEW options \in OptionSet, NEW trace \in Traces, NEW i \in ToShow(options, trace)
  PROVE  EntryFor(options, trace, i, entry(options, trace, i))
<1> DEFINE start == get_trace_start(options, trace)
           e == entry(options, trace, i)
           frame == Transformed(options, trace[i])
<1>1. i \in start .. Len(trace) /\ start \in Nat \ {0} /\ Machinery(options, trace) = 1 .. start - 1
  BY StartIsRight DEF ToShow
<1>2. {j \in 1..(i - 1) : j \notin Machinery(options, trace)} = start .. i - 1
  <2> HIDE DEF start
  <2> QED BY <1>1, StartIsRight
<1>3. Cardinality(start .. i - 1) = i - start
  <2> HIDE DEF start
  <2>1. start \in Int /\ i - 1 \in Int /\ start <= i
    BY <1>1, StartIsRight
  <2>2. Cardinality(start .. i - 1) = IF start > i - 1 THEN 0 ELSE (i - 1) - start + 1
    BY <2>1, FS_Interval
  <2> QED BY <2>1, <2>2, <1>1, StartIsRight
<1>4. e.number = i - start
  BY DEF entry
<1>5. e.filtered <=> (options.filter /\ ~Wanted(frame))
  BY DEF entry, FilteredOut
<1>6. e.ended <=> i # Len(trace)
  BY DEF entry
<1>7. ASSUME ~e.filtered PROVE e.frame.file = frame.file
  <2>1. ~FilteredOut(options, frame)
    BY <1>7 DEF entry
  <2>2. e.frame = write_frame(options, frame)
    BY <2>1 DEF entry
  <2> QED BY <2>2 DEF write_frame
<1> QED BY <1>2, <1>3, <1>4, <1>5, <1>6, <1>7 DEF EntryFor

LEMMA EntriesAreRight ==
  ASSUME NEW options \in OptionSet, NEW trace \in Traces
  PROVE  EntriesOf(options, trace, write_trace(options, trace))
<1> DEFINE n == Len(trace)
           e == write_trace(options, trace)
           shown == ToShow(options, trace)
<1>1. PICK at, L : /\ Printed(at, L, options, trace)
                   /\ Len(e) = L
                   /\ \A k \in 1 .. L : e[k] = entry(options, trace, at[k])
  BY EntriesAreOfFrames
<1>2. /\ L \in Nat /\ n \in Nat
      /\ \A k \in 1 .. L : at[k] \in 1 .. n /\ at[k] \in Nat /\ at[k] \in shown
      /\ \A j, k \in 1 .. L : j < k => at[j] < at[k]
      /\ shown = {at[k] : k \in 1 .. L}
  BY <1>1, StartIsRight DEF Printed
<1>3. ASSUME NEW k \in 0 .. L PROVE Cardinality({at[j] : j \in 1 .. k}) = k
  <2> HIDE DEF shown, n, e
  <2> QED BY <1>2, Counted
<1>4. Len(e) = Cardinality(shown)
  BY <1>1, <1>2, <1>3
<1>5. ASSUME NEW k \in 1 .. L PROVE EntryOf(options, trace, e, k, at[k])
  <2>1. {j \in shown : j <= at[k]} = {at[j] : j \in 1 .. k}
    <3>1. ASSUME NEW i \in 1 .. L PROVE at[i] <= at[k] <=> i <= k
      <4>1. i < k => at[i] < at[k]
        BY <1>2
      <4>2. k < i => at[k] < at[i]
        BY <1>2
      <4>3. at[i] \in Nat /\ at[k] \in Nat
        BY <1>2
      <4> QED BY <1>2, <4>1, <4>2, <4>3
    <3>2. \A i : i \in 1 .. k <=> i \in 1 .. L /\ i <= k
      BY <1>2
    <3> HIDE DEF shown
    <3> QED BY <1>2, <3>1, <3>2
  <2>2. Cardinality({j \in shown : j <= at[k]}) = k
    <3>1. k \in 0 .. L
      BY <1>2
    <3>2. Cardinality({at[j] : j \in 1 .. k}) = k
      BY <1>3, <3>1
    <3> QED BY <2>1, <3>2, Zenon
  <2>3. e[k] = entry(options, trace, at[k]) /\ at[k] \in shown
    BY <1>1, <1>2
  <2>4. EntryFor(options, trace, at[k], e[k])
    BY <2>3, EntryIsRight
  <2>5. k < L => at[k] # n
    <3> SUFFICES ASSUME k < L PROVE at[k] # n
      OBVIOUS
    <3>1. L \in 1 .. L /\ at[k] < at[L] /\ at[L] \in 1 .. n /\ at[k] \in 1 .. n
      BY <1>2
    <3> QED BY <1>2, <3>1
  <2>6. k = L => (at[k] # n <=> n \notin shown)
    <3> SUFFICES ASSUME k = L PROVE at[L] = n <=> n \in shown
      OBVIOUS
    <3>1. ASSUME n \in shown PROVE at[L] = n
      <4>1. PICK j \in 1 .. L : at[j] = n
        BY <1>2, <3>1
      <4>2. j = L \/ at[j] < at[L]
        BY <1>2
      <4>3. at[L] \in 1 .. n
        BY <1>2
      <4> QED BY <1>2, <4>1, <4>2, <4>3
    <3> QED BY <2>3, <3>1
  <2> HIDE DEF e
  <2> QED BY <1>1, <2>2, <2>4, <2>5, <2>6 DEF EntryOf, EntryFor
<1> QED BY <1>1, <1>2, <1>4, <1>5 DEF EntriesOf

-----------------------------------------------------------------------------
\* The window of a line that the file has, with a context that is not negative.
LEMMA WindowIsRight ==
  ASSUME NEW path \in DOMAIN Sources, Sources[path] # Unreadable,
         NEW context \in Contexts, context >= 0, NEW target \in 1 .. Len(Sources[path])
  PROVE  LET lines == Sources[path]
             begin == window_begin(target, context)
             end == Min({Size(target + context), Len(lines)})
         IN  /\ Len(lines) \in Nat
             /\ begin \in 1 .. target /\ end \in target .. Len(lines)
             /\ \A l \in 1 .. Len(lines) :
                  l \in begin .. end <=> l \in (target - context) .. (target + context)
<1> DEFINE n == Len(Sources[path])
           begin == window_begin(target, context)
           end == Min({Size(target + context), n})
<1>1. /\ n \in Nat /\ context \in Nat /\ target \in Nat /\ SizeModulus \in Nat \ {0}
      /\ n + context + 1 < SizeModulus
  BY FormatterAssumption, SizeAssumption
<1>2. \A x \in 0 .. n + context + 1 : Size(x) = x
  <2> HIDE DEF n
  <2> QED BY <1>1 DEF Size
<1>3. Size(context + 1) = context + 1 /\ Size(target + context) = target + context
  <2> HIDE DEF n
  <2>1. target \in 1 .. n
    BY DEF n
  <2>2. context + 1 \in 0 .. n + context + 1 /\ target + context \in 0 .. n + context + 1
    BY <1>1, <2>1
  <2> QED BY <1>2, <2>2
<1>4. begin = IF target <= context + 1 THEN 1 ELSE target - context
  <2> HIDE DEF n
  <2>1. target \in 1 .. n
    BY DEF n
  <2>2. CASE target <= context + 1
    BY <1>3, <2>2 DEF window_begin
  <2>3. CASE ~(target <= context + 1)
    <3>1. target - context \in 0 .. n + context + 1
      BY <1>1, <2>1, <2>3
    <3>2. Size(target - context) = target - context
      BY <1>2, <3>1
    <3> QED BY <1>3, <2>3, <3>2 DEF window_begin
  <2> QED BY <2>2, <2>3
<1>5. end = IF target + context <= n THEN target + context ELSE n
  <2> DEFINE S == {target + context, n}
  <2>1. end = Min(S)
    BY <1>3
  <2>2. S \subseteq Nat /\ S # {}
    BY <1>1
  <2>3. Min(S) \in S /\ \A x \in S : Min(S) <= x
    <3> HIDE DEF S
    <3> QED BY <2>2, LeastIs
  <2> HIDE DEF n, end
  <2> QED BY <1>1, <2>1, <2>3
<1>6. begin \in 1 .. target /\ end \in target .. n
  <2>1. target \in 1 .. n
    OBVIOUS
  <2> HIDE DEF n, begin, end
  <2> QED BY <1>1, <1>4, <1>5, <2>1
<1>7. ASSUME NEW l \in 1 .. n
      PROVE  l \in begin .. end <=> l \in (target - context) .. (target + context)
  <2>1. target \in 1 .. n
    OBVIOUS
  <2> HIDE DEF n, begin, end
  <2> QED BY <1>1, <1>4, <1>5, <2>1
<1> QED BY <1>1, <1>6, <1>7

\* Two sets of line numbers with the same least or greatest one.
LEMMA LeastOf ==
  ASSUME NEW A, NEW B, NEW t, A \subseteq B, B \subseteq Nat, t \in A,
         \A l \in B : l \in A \/ t <= l
  PROVE  Min(A) = Min(B) /\ Min(B) <= t
<1>1. Min(A) \in A /\ \A l \in A : Min(A) <= l
  BY LeastIs
<1>2. Min(B) \in B /\ \A l \in B : Min(B) <= l
  BY LeastIs
<1>0. Min(A) \in Nat /\ Min(B) \in Nat /\ t \in Nat
  BY <1>1, <1>2
<1>3. Min(B) <= Min(A) /\ Min(A) <= t
  BY <1>1, <1>2
<1>4. Min(A) <= Min(B)
  <2>1. CASE Min(B) \in A
    BY <1>1, <2>1
  <2>2. CASE t <= Min(B)
    BY <1>1, <1>2, <1>3, <1>0, <2>2
  <2> QED BY <1>2, <2>1, <2>2
<1> QED BY <1>0, <1>3, <1>4

LEMMA GreatestOf ==
  ASSUME NEW N \in Nat, NEW A, NEW B, NEW t, A \subseteq B, B \subseteq 0 .. N, t \in A,
         \A l \in B : l \in A \/ l <= t
  PROVE  Max(A) = Max(B) /\ t <= Max(B)
<1>1. Max(A) \in A /\ \A l \in A : l <= Max(A)
  BY GreatestIs
<1>2. Max(B) \in B /\ \A l \in B : l <= Max(B)
  BY GreatestIs
<1>0. Max(A) \in Nat /\ Max(B) \in Nat /\ t \in Nat
  <2>1. B \subseteq Nat
    OBVIOUS
  <2> QED BY <1>1, <1>2, <2>1
<1>3. Max(A) <= Max(B) /\ t <= Max(A)
  BY <1>1, <1>2
<1>4. Max(B) <= Max(A)
  <2>1. CASE Max(B) \in A
    BY <1>1, <2>1
  <2>2. CASE Max(B) <= t
    BY <1>1, <1>2, <1>3, <1>0, <2>2
  <2> QED BY <1>2, <2>1, <2>2
<1> QED BY <1>0, <1>3, <1>4

\* The smallest window with the target and what is not blank around it.
WindowOf(snippet, lines, target, context) ==
  LET shown == {target} \union
               {l \in 1..Len(lines) : /\ l \in (target - context)..(target + context)
                                      /\ lines[l] # Blank}
  IN  /\ snippet.kind = "lines"
      /\ snippet.first = Min(shown) /\ snippet.last = Max(shown)

LEMMA SnippetIsRight ==
  ASSUME NEW path \in DOMAIN Sources, Sources[path] # Unreadable,
         NEW context \in Contexts, context >= 0, NEW target \in 1 .. Len(Sources[path])
  PROVE  WindowOf(get_snippet(Manager(path), target, context), Sources[path], target, context)
<1> DEFINE lines == Sources[path]
           n == Len(lines)
           begin == window_begin(target, context)
           end == Min({Size(target + context), n})
           above == {target} \union {l \in begin..target : l > end \/ lines[l] # Blank}
           below == {target} \union {l \in target..end : l >= begin /\ lines[l] # Blank}
           start == IF begin >= target THEN begin ELSE Min(above)
           last_ == IF end <= target THEN end ELSE Max(below)
           shown == {target} \union
                    {l \in 1..n : /\ l \in (target - context)..(target + context)
                                  /\ lines[l] # Blank}
           snippet == get_snippet(Manager(path), target, context)
<1>1. /\ n \in Nat /\ target \in 1 .. n /\ begin \in 1 .. target /\ end \in target .. n
      /\ \A l \in 1 .. n : l \in begin .. end <=> l \in (target - context) .. (target + context)
  BY WindowIsRight
<1>2. snippet = IF start < target /\ start > end THEN OutOfRange
                ELSE [kind |-> "lines", first |-> start, last |-> last_,
                      text |-> [l \in start..last_ |-> lines[l]]]
  BY DEF get_snippet, Manager
<1>3. shown = {target} \union {l \in begin .. end : lines[l] # Blank}
  <2>1. \A l \in begin .. end : l \in 1 .. n
    <3> HIDE DEF n, begin, end
    <3> QED BY <1>1
  <2> HIDE DEF begin, end, n
  <2> QED BY <1>1, <2>1
<1>4. shown \subseteq 0 .. n /\ shown \subseteq Nat /\ target \in above /\ target \in below
  <2> HIDE DEF begin, end, n, lines
  <2> QED BY <1>1, <1>3
<1>5. above \subseteq shown /\ \A l \in shown : l \in above \/ target <= l
  <2> HIDE DEF begin, end, n, lines, shown
  <2> QED BY <1>1, <1>3
<1>6. below \subseteq shown /\ \A l \in shown : l \in below \/ l <= target
  <2> HIDE DEF begin, end, n, lines, shown
  <2> QED BY <1>1, <1>3
<1> HIDE DEF above, below, shown, n, begin, end, lines
<1>7. Min(above) = Min(shown) /\ Min(shown) <= target
  BY <1>4, <1>5, LeastOf
<1>8. Max(below) = Max(shown) /\ target <= Max(shown)
  BY <1>1, <1>4, <1>6, GreatestOf
<1>9. start = Min(shown)
  <2>1. CASE begin >= target
    <3>1. begin = target /\ \A l \in shown : target <= l
      BY <1>1, <1>3, <2>1
    <3>2. Min(shown) \in shown /\ Min(shown) \in Nat /\ target \in Nat
      BY <1>4, <1>5, LeastIs
    <3>3. Min(shown) = target
      BY <1>7, <3>1, <3>2
    <3> QED BY <2>1, <3>1, <3>3
  <2>2. CASE ~(begin >= target)
    BY <1>7, <2>2
  <2> QED BY <2>1, <2>2
<1>10. last_ = Max(shown)
  <2>1. CASE end <= target
    <3>1. end = target /\ \A l \in shown : l <= target
      BY <1>1, <1>3, <2>1
    <3>2. Max(shown) \in shown /\ Max(shown) \in Nat /\ target \in Nat
      BY <1>1, <1>4, <1>6, GreatestIs
    <3>3. Max(shown) = target
      BY <1>8, <3>1, <3>2
    <3> QED BY <2>1, <3>1, <3>3
  <2>2. CASE ~(end <= target)
    BY <1>8, <2>2
  <2> QED BY <2>1, <2>2
<1>11. ~(start < target /\ start > end)
  <2>1. Min(shown) \in Nat
    BY <1>4, <1>5, LeastIs
  <2>2. target \in Nat /\ end \in Int /\ target <= end
    BY <1>1
  <2> HIDE DEF start
  <2> QED BY <1>7, <1>9, <2>1, <2>2
<1> HIDE DEF start, last_
<1>12. snippet.kind = "lines" /\ snippet.first = start /\ snippet.last = last_
  BY <1>2, <1>11
<1> QED BY <1>9, <1>10, <1>12 DEF shown, n, lines, WindowOf

LEMMA SnippetsAreRight ==
  ASSUME ManagersOK, NEW options \in OptionSet, NEW trace \in Traces
  PROVE  \A k \in 1 .. Len(write_trace(options, trace)) :
           SnippetOf(write_trace(options, trace)[k], options.context)
<1>1. PICK at, L : /\ Printed(at, L, options, trace)
                   /\ Len(write_trace(options, trace)) = L
                   /\ \A k \in 1 .. L : write_trace(options, trace)[k] = entry(options, trace, at[k])
  BY EntriesAreOfFrames
<1>2. ASSUME NEW k \in 1 .. L PROVE SnippetOf(entry(options, trace, at[k]), options.context)
  <2> DEFINE e == entry(options, trace, at[k])
             frame == Transformed(options, trace[at[k]])
             lines == Sources[frame.file]
  <2>1. trace[at[k]] \in FramesOf(Traces)
    BY <1>1, StartIsRight DEF Printed, FramesOf
  <2>2. frame.file \in DOMAIN Sources \cup {NoFile}
    <3>1. {trace[at[k]].file, Change(trace[at[k]]).file} \subseteq DOMAIN Sources \cup {NoFile}
      BY <2>1, FormatterAssumption
    <3> QED BY <3>1 DEF Transformed
  <2>3. SUFFICES ASSUME ~e.filtered, e.snippet.kind # "none",
                        frame.line \in 1..Len(lines), options.context >= 0,
                        e.frame.file = frame.file, e.frame.line = frame.line
                 PROVE  WindowOf(e.snippet, lines, frame.line, options.context)
    <3>1. ASSUME ~e.filtered, e.snippet.kind # "none"
          PROVE  e.frame.file = frame.file /\ e.frame.line = frame.line
      <4>1. ~FilteredOut(options, frame)
        BY <3>1 DEF entry
      <4>2. e.frame = write_frame(options, frame) /\ e.snippet = snippet_of(options, frame)
        BY <4>1 DEF entry
      <4>3. HasSnippet(options, frame)
        BY <3>1, <4>2 DEF snippet_of, NoSnippet
      <4> QED BY <4>2, <4>3 DEF write_frame, HasSnippet
    <3> HIDE DEF e, frame
    <3> QED BY <3>1 DEF SnippetOf, WindowOf, lines, e
  <2>4. ~FilteredOut(options, frame)
    BY <2>3 DEF entry
  <2>5. e.snippet = snippet_of(options, frame)
    BY <2>4 DEF entry
  <2> HIDE DEF e, frame
  <2>6. HasSnippet(options, frame)
    BY <2>3, <2>5 DEF snippet_of, NoSnippet
  <2>7. frame.file \in DOMAIN Sources /\ get_manager(frame.file) = Manager(frame.file)
    BY <2>2, <2>6 DEF HasSnippet, get_manager, ManagersOK
  <2>8. e.snippet = get_snippet(Manager(frame.file), frame.line, options.context)
    BY <2>5, <2>6, <2>7 DEF snippet_of
  <2>9. lines # Unreadable
    <3> SUFFICES ASSUME lines = Unreadable PROVE FALSE
      OBVIOUS
    <3>1. ~Manager(frame.file).ok
      BY DEF Manager
    <3>2. e.snippet = NoSnippet
      BY <2>8, <3>1 DEF get_snippet
    <3> QED BY <2>3, <3>2 DEF NoSnippet
  <2>10. options.context \in Contexts
    BY DEF OptionSet
  <2> HIDE DEF lines
  <2>11. WindowOf(get_snippet(Manager(frame.file), frame.line, options.context), Sources[frame.file],
                  frame.line, options.context)
    BY <2>3, <2>7, <2>9, <2>10, SnippetIsRight DEF lines
  <2> QED BY <2>8, <2>11 DEF lines
<1> QED BY <1>1, <1>2

-----------------------------------------------------------------------------
\* What the last call printed.
PrintedOK == TraceIsPrinted /\ SnippetIsSmallestWindow

LEMMA NothingPrinted == ASSUME last.op \notin {"trace", "frame"} PROVE PrintedOK
BY DEF PrintedOK, TraceIsPrinted, EntriesArePrinted, ColorIsDecided, SnippetIsSmallestWindow

LEMMA PrintStep ==
  ASSUME FormatterInv, NEW f, NEW trace \in Traces, NEW stream \in Streams, NEW override \in Overrides,
         print(f, trace, stream, override)
  PROVE  PrintedOK'
<1> DEFINE options == impls[pimpl[f]]
<1>1. /\ last' = [op |-> "trace", options |-> options, trace |-> trace, stream |-> stream,
                  override |-> override, color |-> Color(options, override, stream),
                  entries |-> write_trace(options, trace)]
      /\ Usable(f)
  BY DEF print
<1>2. options \in OptionSet
  BY <1>1, HasOptions DEF FormatterInv
<1>3. /\ EntriesOf(options, trace, write_trace(options, trace))
      /\ ColorOf(options, override, stream, Color(options, override, stream))
      /\ \A k \in 1 .. Len(write_trace(options, trace)) :
           SnippetOf(write_trace(options, trace)[k], options.context)
  BY <1>2, EntriesAreRight, ColorIsRight, SnippetsAreRight DEF FormatterInv
<1> HIDE DEF options
<1>4. EntriesArePrinted' /\ SnippetIsSmallestWindow'
  BY <1>1, <1>3 DEF EntriesArePrinted, SnippetIsSmallestWindow
<1>5. ColorIsDecided'
  BY <1>1, <1>3 DEF ColorIsDecided, ColorOf
<1> QED BY <1>4, <1>5 DEF PrintedOK, TraceIsPrinted

LEMMA PrintFrameStep ==
  ASSUME NEW f, NEW frame, NEW stream \in Streams, NEW override \in Overrides,
         print_frame(f, frame, stream, override)
  PROVE  PrintedOK'
<1> DEFINE options == impls[pimpl[f]]
<1>1. last' = [op |-> "frame", options |-> options, stream |-> stream,
               override |-> override, color |-> Color(options, override, stream),
               printed |-> write_frame(options, Transformed(options, frame))]
  BY DEF print_frame
<1> HIDE DEF options
<1>2. ColorOf(options, override, stream, Color(options, override, stream))
  BY ColorIsRight
<1>3. EntriesArePrinted' /\ SnippetIsSmallestWindow'
  BY <1>1 DEF EntriesArePrinted, SnippetIsSmallestWindow
<1>4. ColorIsDecided'
  BY <1>1, <1>2 DEF ColorIsDecided, ColorOf
<1> QED BY <1>3, <1>4 DEF PrintedOK, TraceIsPrinted

LEMMA PrintedStays ==
  ASSUME FormatterInv, PrintedOK, [FormatterNext]_formatter_vars
  PROVE  PrintedOK'
<1>1. ASSUME last' = Unprinted PROVE PrintedOK'
  <2>1. last'.op \notin {"trace", "frame"}
    BY <1>1 DEF Unprinted
  <2> QED BY <2>1 DEF PrintedOK, TraceIsPrinted, EntriesArePrinted, ColorIsDecided, SnippetIsSmallestWindow
<1>2. ASSUME NEW f, construct(f) \/ destroy(f) \/ configure(f) PROVE PrintedOK'
  BY <1>1, <1>2 DEF construct, destroy, configure, Changed
<1>3. ASSUME NEW f, NEW other, \/ copy_construct(f, other) \/ move_construct(f, other)
                               \/ copy_assign(f, other) \/ move_assign(f, other)
      PROVE PrintedOK'
  BY <1>1, <1>3 DEF copy_construct, move_construct, copy_assign, move_assign, Changed
<1>4. ASSUME NEW s, prune(s) PROVE PrintedOK'
  <2>1. last'.op \notin {"trace", "frame"}
    BY <1>4 DEF prune
  <2> QED BY <2>1 DEF PrintedOK, TraceIsPrinted, EntriesArePrinted, ColorIsDecided, SnippetIsSmallestWindow
<1>5. ASSUME UNCHANGED formatter_vars PROVE PrintedOK'
  <2>1. last' = last
    BY <1>5 DEF formatter_vars
  <2>2. EntriesArePrinted' /\ SnippetIsSmallestWindow'
    BY <2>1 DEF PrintedOK, TraceIsPrinted, EntriesArePrinted, SnippetIsSmallestWindow, SnippetOf
  <2>3. ColorIsDecided'
    BY <2>1 DEF PrintedOK, TraceIsPrinted, ColorIsDecided
  <2> QED BY <2>2, <2>3 DEF PrintedOK, TraceIsPrinted
<1> QED BY <1>2, <1>3, <1>4, <1>5, PrintStep, PrintFrameStep DEF FormatterNext

LEMMA PrintedInvariant == FormatterSpec => []PrintedOK
<1>1. FormatterInit => PrintedOK
  <2>1. FormatterInit => last.op \notin {"trace", "frame"}
    BY DEF FormatterInit, Unprinted
  <2> QED BY <2>1, NothingPrinted
<1>2. FormatterInv /\ PrintedOK /\ [FormatterNext]_formatter_vars => PrintedOK'
  BY PrintedStays
<1> QED BY <1>1, <1>2, FormatterInvariant, PTL DEF FormatterSpec

\* Whatever the options, the filter and the transform are, what is printed of a
\* trace is its frames after the exception machinery, in order, rightly numbered
\* and ended, and colored only when that was asked for or the stream is a terminal.
THEOREM TracesArePrinted == FormatterSpec => []TraceIsPrinted
BY PrintedInvariant, PTL DEF PrintedOK

\* For every file and line of it, the loops over std::size_t that trim the window
\* leave the smallest one with the line and all that is not blank around it.
THEOREM SnippetsAreWindows == FormatterSpec => []SnippetIsSmallestWindow
BY PrintedInvariant, PTL DEF PrintedOK
=============================================================================
