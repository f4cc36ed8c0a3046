---------------------------- MODULE MCCInterface ----------------------------
(* A program whose stack is three deep, one with a frame that a signal       *)
(* interrupted, one with a single frame, and a plug-in that is unloaded and  *)
(* has its place taken by another.                                           *)
EXTENDS CInterface

Build(back_end, asserts, look_up) == [back_end |-> back_end, asserts |-> asserts, look_up |-> look_up]
MCBuilds ==
  {Build("unwind", TRUE, "find_object"), Build("unwind", FALSE, "dladdr"),
   Build("libunwind", FALSE, "dladdr1"), Build("execinfo", FALSE, "find_object"),
   Build("winapi", FALSE, "handle"), Build("dbghelp", FALSE, "handle"),
   Build("nothing", FALSE, "find_object")}

Frame(pc) == [ip |-> pc + 1, signal |-> FALSE]
Interrupted(pc) == [ip |-> pc, signal |-> TRUE]
MCUserStacks == {<<Frame(22), Frame(2), Frame(4)>>, <<Frame(6), Interrupted(2), Frame(27)>>, <<Frame(4)>>}

Call(entry, skip, max_depth) == [entry |-> entry, skip |-> skip, max_depth |-> max_depth]
Limited == {"raw_trace::current", "object_trace::current", "stacktrace::current", "generate_trace",
            "generate_raw_trace", "safe_generate_raw_trace", "ctrace_safe_generate_raw_trace"}
MCCalls ==
  {Call(entry, skip, max_depth) : entry \in Limited, skip \in {0, 1, 4}, max_depth \in {0, 1, SizeMax}}
  \cup {Call(entry, skip, SizeMax) : entry \in {"stacktrace::current(skip)", "generate_trace(skip)"},
                                     skip \in {0, 1, 4}}
  \cup {Call("ctrace_generate_trace", skip, 1) : skip \in {0, 4}}

R(raw, line, column, filename, symbol, is_inline) ==
  [raw |-> raw, line |-> line, column |-> column, filename |-> filename, symbol |-> symbol,
   is_inline |-> is_inline]
MCResolved ==
  [pc \in {1, 2, 4, 6, 22, 27} |->
     CASE pc \in {1, 2} -> <<R(0, 5, 0, "a.cpp", "_Zinlined", TRUE), R(pc, 7, 3, "a.cpp", "_Zf", FALSE)>>
       [] pc = 4 -> <<R(pc, 0, 0, "", "main", FALSE)>>
       [] pc = 6 -> <<R(pc, 0, 4, "b.cpp", "", FALSE)>>
       [] pc \in {22, 27} -> <<R(pc, 0, 0, "", "", FALSE)>>]
MCDemangled ==
  [s \in {"_Zinlined", "_Zf", "main", ""} |->
     CASE s = "_Zinlined" -> "inlined" [] s = "_Zf" -> "f" [] OTHER -> s]
MCModules ==
  [m \in {"program", "plugin", "other"} |->
     CASE m = "program" -> [program |-> TRUE, low |-> 1, high |-> 10, base |-> 0]
       [] m = "plugin" -> [program |-> FALSE, low |-> 20, high |-> 30, base |-> 0]
       [] m = "other" -> [program |-> FALSE, low |-> 20, high |-> 25, base |-> 100]]
=============================================================================
