------------------------------- MODULE Unwind -------------------------------
(***************************************************************************)
(* The unwinding back-ends (src/src/unwind/), of which a build has one, and *)
(* the functions of cpptrace that lead to them (src/src/cpptrace.cpp,      *)
(* src/src/ctrace.cpp), each of which adds the frame it makes itself to    *)
(* the frames to skip.                                                     *)
(*                                                                         *)
(* A stack is a sequence of frames, the innermost first: ip is what the    *)
(* unwinder gives for it, the return address of a call or, in a frame that *)
(* a signal interrupted, the instruction itself.                           *)
(***************************************************************************)
EXTENDS Integers, Sequences, FiniteSets, SequencesExt

CONSTANTS
  BackEnds,     \* of "unwind", "libunwind", "execinfo", "winapi", "dbghelp", "nothing"
  UserStacks,   \* stacks of the program when it calls cpptrace
  HardMax,      \* hard_max_frames
  SizeMax       \* SIZE_MAX, above every number of frames

ASSUME UnwindAssumption ==
  /\ BackEnds \subseteq {"unwind", "libunwind", "execinfo", "winapi", "dbghelp", "nothing"}
  /\ HardMax \in Nat /\ SizeMax \in Nat
  /\ \A stack \in UserStacks :
       stack \in Seq([ip : Nat \ {0}, signal : BOOLEAN]) /\ Len(stack) <= SizeMax

MinOf(a, b) == IF a < b THEN a ELSE b
\* The frames from the n-th on, at most max of them.
Window(stack, n, max) == SubSeq(stack, n + 1, MinOf(n + max, Len(stack)))

before_call(frames) == [i \in DOMAIN frames |-> frames[i].ip - 1]
before_call_only(frames) ==
  [i \in DOMAIN frames |-> IF frames[i].signal THEN frames[i].ip ELSE frames[i].ip - 1]

Captured(frames) == [threw |-> FALSE, frames |-> frames]
Threw == [threw |-> TRUE, frames |-> <<>>]

-----------------------------------------------------------------------------
\* unwind_callback is called for one frame with a limit of zero: the assertion
\* fails where it is checked, otherwise the frame is in the trace.
capture_with_unwind(stack, skip, max_depth, asserts) ==
  IF max_depth = 0 /\ skip + 1 < Len(stack)
  THEN IF asserts THEN Threw ELSE Captured(before_call_only(Window(stack, skip + 1, 1)))
  ELSE Captured(before_call_only(Window(stack, skip + 1, max_depth)))

capture_with_libunwind(stack, skip, max_depth) ==
  Captured(before_call(Window(stack, skip + 1, max_depth)))

\* n_frames - skip is the size of a vector, which cannot be made if it is below 0.
capture_with_execinfo(stack, skip, max_depth) ==
  LET addrs == Window(stack, 0, skip + 1 + MinOf(HardMax, max_depth))
  IN IF Len(addrs) < skip + 1 THEN Threw
     ELSE Captured(before_call(Window(addrs, skip + 1, Len(addrs))))

\* The system skips the frames itself, and the limit has them on top.
capture_with_winapi(stack, skip, max_depth) ==
  Captured(before_call(Window(stack, skip + 1, skip + MinOf(HardMax, max_depth))))

\* The walk takes frames until the trace is full.  (That its session may fail to
\* start is in Dbghelp.)
capture_with_dbghelp(stack, skip, max_depth) ==
  Captured(before_call(Window(stack, skip + 1, max_depth)))

capture_frames(back_end, asserts, stack, skip, max_depth) ==
  CASE back_end = "unwind" -> capture_with_unwind(stack, skip, max_depth, asserts)
    [] back_end = "libunwind" -> capture_with_libunwind(stack, skip, max_depth)
    [] back_end = "execinfo" -> capture_with_execinfo(stack, skip, max_depth)
    [] back_end = "winapi" -> capture_with_winapi(stack, skip, max_depth)
    [] back_end = "dbghelp" -> capture_with_dbghelp(stack, skip, max_depth)
    [] back_end = "nothing" -> Captured(<<>>)

\* Into a buffer, in a signal handler: the loop ends with the buffer.
safe_capture_frames(back_end, stack, size, skip, max_depth) ==
  IF back_end = "libunwind"
  THEN before_call_only(Window(stack, skip + 1, MinOf(size, max_depth)))
  ELSE <<>>

-----------------------------------------------------------------------------
\* By entry: what it and the functions it calls in turn add to the frames to
\* skip, each with a frame of its own.  With a bug: generate_trace(skip) hands
\* skip on as it is.
adds_forgotten(entry) ==
  CASE entry \in {"stacktrace::current(skip)", "generate_trace(skip)"} ->
         IF entry = "generate_trace(skip)" THEN <<0, 1>> ELSE <<1, 0, 1>>
    [] entry \in {"raw_trace::current", "object_trace::current", "stacktrace::current"} -> <<1, 1>>
    [] entry = "ctrace_safe_generate_raw_trace" -> <<0, 1>>
    [] OTHER -> <<1>>

adds(entry) ==
  CASE entry = "stacktrace::current(skip)" -> <<1, 1, 1>>
    [] entry \in {"raw_trace::current", "object_trace::current", "stacktrace::current",
                  "generate_trace(skip)"} -> <<1, 1>>
    [] entry = "ctrace_safe_generate_raw_trace" -> <<0, 1>>
    [] OTHER -> <<1>>

\* The stack capture_frames finds below itself, and the frames it is to skip.
\* No function that has a frame to skip makes its last call in its own place.
LibraryFrame == 90    \* addresses in the library are above this
stack_below(entry, user) ==
  [i \in 1 .. Len(adds(entry)) + 1 |-> [ip |-> LibraryFrame + i, signal |-> FALSE]] \o user
skipped(entry, skip) ==
  LET added[n \in 0 .. Len(adds(entry))] == IF n = 0 THEN skip ELSE added[n - 1] + adds(entry)[n]
  IN added[Len(adds(entry))]

generate(back_end, asserts, entry, user, skip, max_depth) ==
  capture_frames(back_end, asserts, stack_below(entry, user), skipped(entry, skip), max_depth)
=============================================================================
