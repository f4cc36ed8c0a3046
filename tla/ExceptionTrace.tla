--------------------------- MODULE ExceptionTrace ---------------------------
(***************************************************************************)
(* Traces of C++ exceptions (src/src/from_current.cpp, the CPPTRACE_TRY    *)
(* and CPPTRACE_CATCH macros and lazy_trace_holder), on one thread: every  *)
(* variable of from_current.cpp is thread_local.                           *)
(*                                                                         *)
(* A raise has two phases.  The search phase walks the stack outwards to   *)
(* the innermost block that catches the exception; if that is a            *)
(* CPPTRACE_CATCH, its unwind_interceptor matches first and collects a     *)
(* trace.  Only then are the frames unwound, destructors run and the       *)
(* handler entered.  cpptrace::rethrow() raises with a switch set that its *)
(* own scope guard resets, which is the first thing to be unwound.         *)
(***************************************************************************)
EXTENDS Integers, Sequences

CONSTANTS
  Exceptions,     \* exception objects; each is thrown at most once as new
  TypeOf,         \* the type of each
  Clauses,        \* the sets of types that catch clauses match
  None,           \* no trace, no raise
  MaxDepth,       \* bound on the blocks, handlers and destructors on the stack
  CaptureFails,   \* whether unwinding to capture a trace may fail
  ResolveFails,   \* whether resolving a captured trace may fail
  Nested          \* whether handlers and destructors contain try blocks

ASSUME ExceptionAssumption ==
  /\ None \notin [exc : Exceptions, kind : {"throw", "again", "rethrow"}]
  /\ MaxDepth \in Nat
  /\ CaptureFails \in BOOLEAN /\ ResolveFails \in BOOLEAN /\ Nested \in BOOLEAN

VARIABLES
  stack,                    \* blocks, handlers, guards and destructors, innermost last
  phase,                    \* "running", "searching", "unwinding" or "terminated"
  raise,                    \* the exception in flight, None while running
  rethrow_switch,
  current_exception_trace,
  saved_rethrow_trace,
  thrown,                   \* the exceptions thrown so far
  seen                      \* history: the raise last seen by a CPPTRACE_CATCH,
                            \* None if its trace could not be captured or resolved

vars == <<stack, phase, raise, rethrow_switch, current_exception_trace,
          saved_rethrow_trace, thrown, seen>>

Try(traced, clause) == [kind |-> "try", traced |-> traced, clause |-> clause]
Handler(e, traced) == [kind |-> "handler", exc |-> e, traced |-> traced]
Guard == [kind |-> "guard"]
Destructor(r) == [kind |-> "destructor", outer |-> r]

Top == stack[Len(stack)]
TopIs(kind) == stack # <<>> /\ Top.kind = kind
Pop == SubSeq(stack, 1, Len(stack) - 1)

\* lazy_trace_holder: a raw trace, or a trace already resolved.
Unresolved(t) == [resolved |-> FALSE, trace |-> t]
Resolved(t) == [resolved |-> TRUE, trace |-> t]

Handling == {i \in DOMAIN stack : stack[i].kind = "handler"}
InHandlerOrDestructor ==
  \E i \in DOMAIN stack : stack[i].kind \in {"handler", "destructor"}

-----------------------------------------------------------------------------
Init ==
  /\ stack = <<>>
  /\ phase = "running"
  /\ raise = None
  /\ rethrow_switch = FALSE
  /\ current_exception_trace = Unresolved(None)
  /\ saved_rethrow_trace = Unresolved(None)
  /\ thrown = {}
  /\ seen = None

traces == <<current_exception_trace, saved_rethrow_trace>>

\* A CPPTRACE_TRY block, or a plain try, with one catch clause.
enter_try(traced, clause) ==
  /\ phase = "running"
  /\ Len(stack) < MaxDepth
  /\ InHandlerOrDestructor => Nested
  /\ stack' = Append(stack, Try(traced, clause))
  /\ UNCHANGED <<phase, raise, rethrow_switch, traces, thrown, seen>>

\* The end of a block that nothing left by exception, or of a handler.
leave ==
  /\ phase = "running"
  /\ TopIs("try") \/ TopIs("handler")
  /\ stack' = Pop
  /\ UNCHANGED <<phase, raise, rethrow_switch, traces, thrown, seen>>

start_raise(e, kind) ==
  /\ phase = "running"
  /\ phase' = "searching"
  /\ raise' = [exc |-> e, kind |-> kind]
  /\ UNCHANGED <<traces, seen>>

throw(e) ==
  /\ e \notin thrown
  /\ thrown' = thrown \cup {e}
  /\ start_raise(e, "throw")
  /\ UNCHANGED <<stack, rethrow_switch>>

\* "throw;" in a handler.
throw_again ==
  \E i \in Handling :
    /\ \A j \in Handling : j <= i
    /\ start_raise(stack[i].exc, "again")
    /\ UNCHANGED <<stack, rethrow_switch, thrown>>

\* cpptrace::rethrow, from within a CPPTRACE_CATCH as its documentation asks:
\* the switch is set, the guard is on the stack, and std::rethrow_exception
\* raises the exception, which may be that of an outer CPPTRACE_CATCH.
rethrow ==
  \E i \in Handling :
    /\ stack[i].traced
    /\ rethrow_switch' = TRUE
    /\ stack' = Append(stack, Guard)
    /\ start_raise(stack[i].exc, "rethrow")
    /\ UNCHANGED thrown

\* save_current_trace with a plausible bug: the second branch keeps the
\* rethrow trace; there is one branch only.
save_current_trace_keeping_rethrow(t) ==
  IF rethrow_switch
  THEN saved_rethrow_trace' = Unresolved(t) /\ UNCHANGED current_exception_trace
  ELSE current_exception_trace' = Unresolved(t) /\ UNCHANGED saved_rethrow_trace
save_current_trace_as_origin(t) ==
  current_exception_trace' = Unresolved(t) /\ saved_rethrow_trace' = Unresolved(None)

\* save_current_trace
save_current_trace(t) ==
  IF rethrow_switch
  THEN /\ saved_rethrow_trace' = Unresolved(t)
       /\ UNCHANGED current_exception_trace
  ELSE /\ current_exception_trace' = Unresolved(t)
       /\ saved_rethrow_trace' = Unresolved(None)

\* The block that will handle the exception in flight: the innermost that
\* catches it.  No exception leaves a destructor.
Catches(i) == stack[i].kind = "try" /\ TypeOf[raise.exc] \in stack[i].clause
Escapable(i) == \A j \in i .. Len(stack) : stack[j].kind # "destructor"
HandlingBlock == {i \in DOMAIN stack :
  /\ Catches(i) /\ Escapable(i)
  /\ \A j \in i + 1 .. Len(stack) : ~Catches(j)}

\* The search phase.  A CPPTRACE_CATCH is preceded by an interceptor for the
\* same type, so the one block that handles the exception is the one that
\* collects.  A failed capture is logged and nothing is saved; it is absorbed, as
\* absorb_trace_exceptions has it by default.  With the option off it leaves the
\* search through the C++ runtime, which is not modelled.
search ==
  /\ phase = "searching"
  /\ \E i \in HandlingBlock :
       /\ IF stack[i].traced
          THEN \/ save_current_trace(raise) /\ seen' = raise
               \/ CaptureFails /\ seen' = None /\ UNCHANGED traces
          ELSE UNCHANGED <<traces, seen>>
  /\ phase' = "unwinding"
  /\ UNCHANGED <<stack, raise, rethrow_switch, thrown>>

\* No block catches the exception: std::terminate, nothing is unwound.
terminate ==
  /\ phase = "searching"
  /\ HandlingBlock = {}
  /\ phase' = "terminated"
  /\ UNCHANGED <<stack, raise, rethrow_switch, traces, thrown, seen>>

\* The next action, if rethrow() had no guard.
unwind_without_guard ==
  /\ phase = "unwinding"
  /\ Len(stack) \notin HandlingBlock
  /\ stack' = Pop
  /\ UNCHANGED <<phase, raise, rethrow_switch, traces, thrown, seen>>

\* Cleanup of one frame above the handling block; that of rethrow() runs
\* rethrow_scope_cleanup.
unwind ==
  /\ phase = "unwinding"
  /\ Len(stack) \notin HandlingBlock
  /\ stack' = Pop
  /\ rethrow_switch' = IF Top = Guard THEN FALSE ELSE rethrow_switch
  /\ UNCHANGED <<phase, raise, traces, thrown, seen>>

\* A destructor of user code runs during the cleanup.  The frame of
\* rethrow() is the innermost of all and has no other cleanup than its guard.
enter_destructor ==
  /\ phase = "unwinding"
  /\ Nested
  /\ ~TopIs("guard")
  /\ Len(stack) < MaxDepth
  /\ stack' = Append(stack, Destructor(raise))
  /\ phase' = "running"
  /\ raise' = None
  /\ UNCHANGED <<rethrow_switch, traces, thrown, seen>>

leave_destructor ==
  /\ phase = "running"
  /\ TopIs("destructor")
  /\ stack' = Pop
  /\ phase' = "unwinding"
  /\ raise' = Top.outer
  /\ UNCHANGED <<rethrow_switch, traces, thrown, seen>>

enter_handler_still_in_flight ==
  /\ phase = "unwinding"
  /\ Len(stack) \in HandlingBlock
  /\ stack' = Append(Pop, Handler(raise.exc, Top.traced))
  /\ phase' = "running"
  /\ UNCHANGED <<raise, rethrow_switch, traces, thrown, seen>>

enter_handler ==
  /\ phase = "unwinding"
  /\ Len(stack) \in HandlingBlock
  /\ stack' = Append(Pop, Handler(raise.exc, Top.traced))
  /\ phase' = "running"
  /\ raise' = None
  /\ UNCHANGED <<rethrow_switch, traces, thrown, seen>>

\* get_resolved_trace: the raw trace is moved out and the holder becomes
\* resolved; a failure to resolve leaves an empty resolved trace.
resolve(holder) ==
  {IF holder.resolved THEN holder ELSE Resolved(holder.trace)}
    \cup (IF ResolveFails /\ ~holder.resolved THEN {Resolved(None)} ELSE {})

SeenIfKept(kept) == seen' = IF kept THEN seen ELSE None

from_current_exception ==
  /\ phase = "running"
  /\ current_exception_trace' \in resolve(current_exception_trace)
  /\ SeenIfKept(current_exception_trace'.trace = current_exception_trace.trace)
  /\ UNCHANGED <<stack, phase, raise, rethrow_switch, saved_rethrow_trace, thrown>>

from_current_exception_rethrow ==
  /\ phase = "running"
  /\ saved_rethrow_trace' \in resolve(saved_rethrow_trace)
  /\ SeenIfKept(saved_rethrow_trace'.trace = saved_rethrow_trace.trace)
  /\ UNCHANGED <<stack, phase, raise, rethrow_switch, current_exception_trace, thrown>>

\* get_raw_trace on a resolved holder throws a std::logic_error.
raw_trace_from_current_exception(e) ==
  /\ current_exception_trace.resolved
  /\ throw(e)
raw_trace_from_current_exception_rethrow(e) ==
  /\ saved_rethrow_trace.resolved
  /\ throw(e)

current_exception_was_rethrown == saved_rethrow_trace.trace # None

clear_current_exception_traces ==
  /\ phase = "running"
  /\ current_exception_trace' = Unresolved(None)
  /\ saved_rethrow_trace' = Unresolved(None)
  /\ seen' = None
  /\ UNCHANGED <<stack, phase, raise, rethrow_switch, thrown>>

Next ==
  \/ \E clause \in Clauses, traced \in BOOLEAN : enter_try(traced, clause)
  \/ \E e \in Exceptions :
       \/ throw(e)
       \/ raw_trace_from_current_exception(e)
       \/ raw_trace_from_current_exception_rethrow(e)
  \/ leave \/ throw_again \/ rethrow
  \/ search \/ terminate \/ unwind \/ enter_handler
  \/ enter_destructor \/ leave_destructor
  \/ from_current_exception \/ from_current_exception_rethrow
  \/ clear_current_exception_traces

Spec == Init /\ [][Next]_vars

-----------------------------------------------------------------------------
Raises == [exc : Exceptions, kind : {"throw", "again", "rethrow"}]
Frames ==
  [kind : {"try"}, traced : BOOLEAN, clause : Clauses]
    \cup [kind : {"handler"}, exc : Exceptions, traced : BOOLEAN]
    \cup [kind : {"destructor"}, outer : Raises]
    \cup {Guard}
Holders == [resolved : BOOLEAN, trace : Raises \cup {None}]

\* Every variable keeps its type; an exception is in flight exactly while the
\* stack is searched or unwound, or was when the program terminated.
TypeOK ==
  /\ stack \in Seq(Frames)
  /\ phase \in {"running", "searching", "unwinding", "terminated"}
  /\ raise \in Raises \cup {None}
  /\ raise = None <=> phase = "running"
  /\ rethrow_switch \in BOOLEAN
  /\ current_exception_trace \in Holders
  /\ saved_rethrow_trace \in Holders
  /\ thrown \subseteq Exceptions
  /\ seen \in Raises \cup {None}

\* The switch that sends the next trace to saved_rethrow_trace is set only
\* while cpptrace::rethrow itself is being searched from or unwound: no user
\* code, not even a destructor, ever runs with it set, so no other throw can
\* be filed as a rethrow; and the guard that resets it is never left behind.
SwitchOnlyDuringRethrow ==
  /\ rethrow_switch => /\ raise # None /\ raise.kind = "rethrow"
                       /\ TopIs("guard")
  /\ \A i \in DOMAIN stack : stack[i] = Guard => i = Len(stack) /\ rethrow_switch

\* A search on behalf of cpptrace::rethrow has the switch set.
SwitchSetForSearch ==
  phase = "searching" /\ raise.kind = "rethrow" => rethrow_switch

\* A trace taken by cpptrace::rethrow is never mistaken for an exception's
\* origin, nor the trace of an original throw for a rethrow.
TracesFiledByKind ==
  /\ current_exception_trace.trace # None =>
       current_exception_trace.trace.kind \in {"throw", "again"}
  /\ saved_rethrow_trace.trace # None => saved_rethrow_trace.trace.kind = "rethrow"

\* However blocks, handlers and destructors nest, the exception last seen is
\* answered for: current_exception_was_rethrown says whether it came from
\* cpptrace::rethrow, and the trace of that kind is its own.
TracesAnswerForLastSeen ==
  seen # None =>
    /\ current_exception_was_rethrown <=> seen.kind = "rethrow"
    /\ seen.kind = "rethrow" => saved_rethrow_trace.trace = seen
    /\ seen.kind # "rethrow" => current_exception_trace.trace = seen

Inv == TypeOK /\ SwitchOnlyDuringRethrow /\ SwitchSetForSearch /\ TracesFiledByKind

-----------------------------------------------------------------------------
\* What the library promises about the exceptions it intercepts.
Intercepted == INSTANCE InterceptedExceptions WITH
  origin <- current_exception_trace.trace,
  rethrown <- saved_rethrow_trace.trace

\* Two holders and a switch implement a record of the last exception
\* intercepted: its origin, and its last rethrow if there was one.
ImplementsInterceptedExceptions == Intercepted!Spec
=============================================================================
