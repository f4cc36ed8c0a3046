----------------------------- MODULE Addr2line -----------------------------
(***************************************************************************)
(* The addr2line back-end (src/src/symbols/symbols_with_addr2line.cpp):    *)
(* each request for the addresses of one object makes two pipes, forks a   *)
(* child that executes addr2line, writes all addresses to it, closes its   *)
(* ends and reads the answer until the end of file.  Threads of the        *)
(* process do so at the same time; a child inherits every descriptor that  *)
(* is open when it is forked, those of other threads' requests included.   *)
(*                                                                         *)
(* The kernel and the addr2line program are external: a pipe holds at most *)
(* Capacity lines and is at its end for a reader when it is empty and no   *)
(* process has its write end open; addr2line answers each line it reads    *)
(* with one line, flushed, and exits at the end of its input.              *)
(***************************************************************************)
EXTENDS Integers, Sequences

CONSTANTS
  Threads,
  Requests,     \* bound on the requests a thread makes
  Settings      \* what to consider:
                \*   threads   those that resolve
                \*   lines     addresses in a request
                \*   capacity  of a pipe, in lines
                \*   failing   what may fail: "pipe", "fork", and "exec", when a child exits
                \*             without reading because there is no addr2line or no object

ASSUME Addr2lineAssumption ==
  /\ Requests \in Nat \ {0}
  /\ \A s \in Settings : /\ s.threads \subseteq Threads
                         /\ s.lines \in Nat \ {0} /\ s.capacity \in Nat \ {0}
                         /\ s.failing \subseteq {"pipe", "fork", "exec"}

\* A request is named by its thread and number; its child and its pipes by it.
Request == Threads \X (1 .. Requests)
Pipes == Request \X {"in", "out"}
Fds == Pipes \X {"read", "write"}
InPipe(r) == <<r, "in">>
OutPipe(r) == <<r, "out">>
PipeFds(p) == {<<p, "read">>, <<p, "write">>}
FdsOf(r) == PipeFds(InPipe(r)) \cup PipeFds(OutPipe(r))
ChildFds(r) == {<<InPipe(r), "read">>, <<OutPipe(r), "write">>}

VARIABLES
  setting,
  checked, has_addr2line,   \* the statics of has_addr2line()
  pc, number, todo,         \* of each thread: where it is, its requests, lines to write
  output,                   \* lines each thread has read of the current answer
  answered,                 \* lines each finished request got
  fds,                      \* descriptors open in the process
  child,                    \* of each request: "none", "forked", "running", "exited", "reaped"
  child_fds,
  pending,                  \* lines each child has read and not yet answered
  content                   \* lines in each pipe

has == <<setting, checked, has_addr2line>>
thread == <<pc, number, todo, output, answered>>
children == <<child, child_fds, pending>>
Lines == setting.lines
Capacity == setting.capacity
PipeFails == "pipe" \in setting.failing
ForkFails == "fork" \in setting.failing
ExecFails == "exec" \in setting.failing
vars == <<has, thread, fds, children, content>>

Current(t) == <<t, number[t]>>

\* A process has the write end of p open.
HasWriter(p) ==
  <<p, "write">> \in fds \/ \E r \in Request : <<p, "write">> \in child_fds[r]

-----------------------------------------------------------------------------
Init ==
  /\ setting \in Settings
  /\ checked = FALSE /\ has_addr2line = FALSE
  /\ pc = [t \in Threads |-> "idle"]
  /\ number = [t \in Threads |-> 0]
  /\ todo = [t \in Threads |-> 0]
  /\ output = [t \in Threads |-> 0]
  /\ answered = [r \in Request |-> 0]
  /\ fds = {}
  /\ child = [r \in Request |-> "none"]
  /\ child_fds = [r \in Request |-> {}]
  /\ pending = [r \in Request |-> 0]
  /\ content = [p \in Pipes |-> 0]

\* has_addr2line(), under its mutex: the first call tries to run addr2line and
\* keeps the outcome, that of a failed fork too; and the loop over the objects
\* of a trace starts if there is an addr2line.
resolve_frames(t) ==
  /\ t \in setting.threads /\ pc[t] = "idle"
  /\ checked' = TRUE
  /\ has_addr2line' \in IF checked THEN {has_addr2line}
                        ELSE {TRUE} \cup (IF ForkFails \/ ExecFails THEN {FALSE} ELSE {})
  /\ pc' = [pc EXCEPT ![t] = IF has_addr2line' THEN "pipe" ELSE "end"]
  /\ UNCHANGED <<setting, number, todo, output, answered, fds, children, content>>

goto(t, label) == pc' = [pc EXCEPT ![t] = label]

\* The request for one object: the two pipes of resolve_addresses.
make_pipe(t) ==
  LET r == <<t, number[t] + 1>>
  IN /\ pc[t] = "pipe"
     /\ number' = [number EXCEPT ![t] = @ + 1]
     /\ todo' = [todo EXCEPT ![t] = Lines]
     /\ output' = [output EXCEPT ![t] = 0]
     /\ fds' = fds \cup FdsOf(r)
     /\ goto(t, "fork")
     /\ UNCHANGED <<has, answered, children, content>>

\* One of the pipes cannot be made: an exception.  If it is the second, the
\* first stays open.
make_pipe_fails(t) ==
  LET r == <<t, number[t] + 1>>
  IN /\ pc[t] = "pipe" /\ PipeFails
     /\ number' = [number EXCEPT ![t] = @ + 1]
     /\ \E left \in {{}, PipeFds(OutPipe(r))} : fds' = fds \cup left
     /\ goto(t, "next")
     /\ UNCHANGED <<has, todo, output, answered, children, content>>

fork(t) ==
  /\ pc[t] = "fork"
  /\ child' = [child EXCEPT ![Current(t)] = "forked"]
  /\ child_fds' = [child_fds EXCEPT ![Current(t)] = fds]
  /\ goto(t, "write")
  /\ UNCHANGED <<has, number, todo, output, answered, fds, pending, content>>

\* fork fails: return "", which the VERIFY on the number of lines rejects; the
\* four descriptors stay open.
fork_fails(t) ==
  /\ pc[t] = "fork" /\ ForkFails
  /\ goto(t, "next")
  /\ UNCHANGED <<has, number, todo, output, answered, fds, children, content>>

\* write() blocks while the pipe is full.
write(t) ==
  LET p == InPipe(Current(t))
  IN /\ pc[t] = "write"
     /\ IF todo[t] = 0
        THEN goto(t, "close") /\ UNCHANGED <<todo, content>>
        ELSE /\ content[p] < Capacity
             /\ content' = [content EXCEPT ![p] = @ + 1]
             /\ todo' = [todo EXCEPT ![t] = @ - 1]
             /\ UNCHANGED pc
     /\ UNCHANGED <<has, number, output, answered, fds, children>>

\* close with a bug: the write end of the input stays open.
close_keeping_input(t) ==
  /\ pc[t] = "close"
  /\ fds' = fds \ {<<InPipe(Current(t)), "read">>, <<OutPipe(Current(t)), "write">>}
  /\ goto(t, "read")
  /\ UNCHANGED <<has, number, todo, output, answered, children, content>>

\* The parent keeps the read end of the output only.
close(t) ==
  /\ pc[t] = "close"
  /\ fds' = fds \ (FdsOf(Current(t)) \ {<<OutPipe(Current(t)), "read">>})
  /\ goto(t, "read")
  /\ UNCHANGED <<has, number, todo, output, answered, children, content>>

\* read with a bug: one read instead of a loop.
read_once(t) ==
  LET p == OutPipe(Current(t))
  IN /\ pc[t] = "read"
     /\ content[p] > 0 \/ ~HasWriter(p)
     /\ output' = [output EXCEPT ![t] = @ + content[p]]
     /\ content' = [content EXCEPT ![p] = 0]
     /\ goto(t, "wait")
     /\ UNCHANGED <<has, number, todo, answered, fds, children>>

\* read() takes what there is, blocks while there is nothing and somebody may
\* still write, and returns 0 at the end.
read(t) ==
  LET p == OutPipe(Current(t))
  IN /\ pc[t] = "read"
     /\ IF content[p] > 0
        THEN /\ output' = [output EXCEPT ![t] = @ + content[p]]
             /\ content' = [content EXCEPT ![p] = 0]
             /\ UNCHANGED pc
        ELSE ~HasWriter(p) /\ goto(t, "wait") /\ UNCHANGED <<output, content>>
     /\ UNCHANGED <<has, number, todo, answered, fds, children>>

\* wait with a bug: the last close is missing.
wait_without_close(t) ==
  LET r == Current(t)
  IN /\ pc[t] = "wait" /\ child[r] = "exited"
     /\ child' = [child EXCEPT ![r] = "reaped"]
     /\ answered' = [answered EXCEPT ![r] = output[t]]
     /\ goto(t, "next")
     /\ UNCHANGED <<has, number, todo, output, fds, child_fds, pending, content>>

\* waitpid, and the last close.  The answer is used if it has a line for each
\* address.
wait(t) ==
  LET r == Current(t)
  IN /\ pc[t] = "wait" /\ child[r] = "exited"
     /\ child' = [child EXCEPT ![r] = "reaped"]
     /\ fds' = fds \ {<<OutPipe(r), "read">>}
     /\ answered' = [answered EXCEPT ![r] = output[t]]
     /\ goto(t, "next")
     /\ UNCHANGED <<has, number, todo, output, child_fds, pending, content>>

\* The next object, or the end of the loop.  A request without an answer for
\* each address threw, which ends the loop if such exceptions are not absorbed.
next(t) ==
  /\ pc[t] = "next"
  /\ \/ goto(t, IF number[t] < Requests THEN "pipe" ELSE "end")
     \/ answered[Current(t)] # Lines /\ goto(t, "end")
  /\ UNCHANGED <<has, number, todo, output, answered, fds, children, content>>

-----------------------------------------------------------------------------
exit(r) ==
  /\ child' = [child EXCEPT ![r] = "exited"]
  /\ child_fds' = [child_fds EXCEPT ![r] = {}]

\* The child: dup2 to stdin and stdout, four closes and exec.
exec(r) ==
  /\ child[r] = "forked"
  /\ child' = [child EXCEPT ![r] = "running"]
  /\ child_fds' = [child_fds EXCEPT ![r] = (@ \ FdsOf(r)) \cup ChildFds(r)]
  /\ UNCHANGED <<has, thread, fds, pending, content>>

\* _exit(1), or addr2line exits because it cannot open the object.
exec_fails(r) ==
  /\ child[r] = "forked" /\ ExecFails
  /\ exit(r)
  /\ UNCHANGED <<has, thread, fds, pending, content>>

\* addr2line, external.
addr2line_read(r) ==
  LET p == InPipe(r)
  IN /\ child[r] = "running" /\ pending[r] = 0
     /\ content[p] > 0
     /\ content' = [content EXCEPT ![p] = @ - 1]
     /\ pending' = [pending EXCEPT ![r] = 1]
     /\ UNCHANGED <<has, thread, fds, child, child_fds>>

addr2line_write(r) ==
  LET p == OutPipe(r)
  IN /\ child[r] = "running" /\ pending[r] > 0
     /\ content[p] < Capacity
     /\ content' = [content EXCEPT ![p] = @ + 1]
     /\ pending' = [pending EXCEPT ![r] = 0]
     /\ UNCHANGED <<has, thread, fds, child, child_fds>>

addr2line_eof(r) ==
  /\ child[r] = "running" /\ pending[r] = 0
  /\ content[InPipe(r)] = 0 /\ ~HasWriter(InPipe(r))
  /\ exit(r)
  /\ UNCHANGED <<has, thread, fds, pending, content>>

ThreadStep(t) ==
  \/ make_pipe(t) \/ make_pipe_fails(t) \/ fork(t) \/ fork_fails(t) \/ write(t) \/ close(t)
  \/ read(t) \/ wait(t) \/ next(t)
ChildStep(r) ==
  \/ exec(r) \/ exec_fails(r)
  \/ addr2line_read(r) \/ addr2line_write(r) \/ addr2line_eof(r)

Next == \/ \E t \in Threads : resolve_frames(t) \/ ThreadStep(t)
        \/ \E r \in Request : ChildStep(r)

\* The system schedules every thread and every child.
Fairness == /\ \A t \in Threads : WF_vars(ThreadStep(t))
            /\ \A r \in Request : WF_vars(ChildStep(r))

Spec == Init /\ [][Next]_vars /\ Fairness

-----------------------------------------------------------------------------
\* A request whose child ran addr2line gets a line for each address, and one
\* whose child could not gets none: the end of file is never seen before the
\* last line, whichever processes hold copies of the pipe's ends.
Finished(t) == number[t] > 0 /\ pc[t] = "next" /\ child[Current(t)] = "reaped"
AnswerIsWhole ==
  \A t \in Threads : Finished(t) =>
    answered[Current(t)] \in {Lines} \cup (IF ExecFails THEN {0} ELSE {})

\* Between requests a thread has no descriptor open and no child unreaped,
\* but for the requests that failed before there was a child.
NothingLeaks ==
  \A t \in Threads : pc[t] \in {"pipe", "next", "end"} =>
    \A n \in 1 .. number[t] : LET r == <<t, n>> IN
      \/ child[r] = "reaped" /\ FdsOf(r) \cap fds = {}
      \/ child[r] = "none" /\ (PipeFails \/ ForkFails)

\* resolve_frames returns.
EveryRequestEnds == \A t \in Threads : pc[t] # "idle" ~> pc[t] = "end"

\* resolve_frames returns whatever fails on the way, for a request that fits
\* into the pipes and as long as no other thread is resolving: the end of file
\* arrives although the child and the thread have both had all four ends open.
EndsIfAlone == \A t \in Threads : pc[t] # "idle" /\ setting.threads = {t} ~> pc[t] = "end"
=============================================================================
