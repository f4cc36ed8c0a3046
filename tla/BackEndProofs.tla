---------------------------- MODULE BackEndProofs ----------------------------
(***************************************************************************)
(* The symbol back-ends other than libdwarf's.                             *)
(*                                                                         *)
(* addr2line: the end of file is never seen before the last line of an     *)
(* answer, and no descriptor and no child is left behind, for every number *)
(* of threads, requests and lines, every capacity of the pipes and every   *)
(* way in which forks copy descriptors.                                    *)
(*                                                                         *)
(* dbghelp: every session ends once, when what owns it goes, and one       *)
(* thread at a time is in dbghelp, for every number of threads, handles    *)
(* and libraries; a type is written as C++ declares it, for every table of *)
(* types in which none is made of itself; and a frame has the name of its  *)
(* function, with its parameters.                                          *)
(***************************************************************************)
EXTENDS Addr2line, Dbghelp, SequenceLemmas

Labels == {"idle", "pipe", "fork", "write", "close", "read", "wait", "next", "end"}
States == {"none", "forked", "running", "exited", "reaped"}

TypeOK ==
  /\ setting \in Settings
  /\ pc \in [Threads -> Labels]
  /\ number \in [Threads -> 0 .. Requests]
  /\ todo \in [Threads -> Nat] /\ output \in [Threads -> Nat]
  /\ answered \in [Request -> Nat]
  /\ child \in [Request -> States]
  /\ DOMAIN child_fds = Request
  /\ pending \in [Request -> 0 .. 1]
  /\ content \in [Pipes -> Nat]

\* Nothing has been written to the pipes of r.
Untouched(r) == pending[r] = 0 /\ content[InPipe(r)] = 0 /\ content[OutPipe(r)] = 0

\* r is over, as NothingLeaks has it.
Over(r) ==
  \/ child[r] = "reaped" /\ FdsOf(r) \cap fds = {}
  \/ child[r] = "none" /\ (PipeFails \/ ForkFails)

\* The requests of t that it has not come to, and those that are over.
OthersAtRest(t) ==
  /\ \A n \in 1 .. Requests : n > number[t] => child[<<t, n>>] = "none" /\ Untouched(<<t, n>>)
  /\ \A n \in 1 .. number[t] : n < number[t] \/ pc[t] \in {"pipe", "next", "end"} => Over(<<t, n>>)

\* The request t is at: which descriptors the process and the child have open,
\* and where its lines are.
DescriptorsOpen(t, r) ==
  /\ pc[t] \in {"fork", "write", "close"} => FdsOf(r) \subseteq fds
  /\ pc[t] \in {"read", "wait"} => FdsOf(r) \cap fds \subseteq {<<OutPipe(r), "read">>}
  /\ child[r] = "forked" => FdsOf(r) \subseteq child_fds[r]
  /\ child[r] = "running" => ChildFds(r) \subseteq child_fds[r]

LinesAccountedFor(t, r) ==
  /\ pc[t] = "fork" => child[r] = "none" /\ Untouched(r) /\ todo[t] = Lines /\ output[t] = 0
  /\ pc[t] # "fork" => child[r] \in {"forked", "running", "exited"}
  /\ pc[t] \in {"close", "read", "wait"} => todo[t] = 0
  /\ child[r] = "forked" => pending[r] = 0 /\ content[OutPipe(r)] = 0 /\ output[t] = 0
  /\ child[r] \in {"forked", "running"} =>
       todo[t] + content[InPipe(r)] + pending[r] + content[OutPipe(r)] + output[t] = Lines
  /\ child[r] = "exited" =>
       \/ pc[t] \in {"read", "wait"} /\ content[OutPipe(r)] + output[t] = Lines
       \/ ExecFails /\ content[OutPipe(r)] = 0 /\ output[t] = 0
  /\ pc[t] = "wait" => child[r] = "exited" /\ content[OutPipe(r)] = 0

ThreadInv(t) ==
  /\ pc[t] = "idle" => number[t] = 0
  /\ pc[t] = "pipe" => number[t] < Requests
  /\ OthersAtRest(t)
  /\ pc[t] \in {"fork", "write", "close", "read", "wait"} =>
       /\ number[t] # 0
       /\ DescriptorsOpen(t, Current(t))
       /\ LinesAccountedFor(t, Current(t))
  /\ Finished(t) => answered[Current(t)] \in {Lines} \cup (IF ExecFails THEN {0} ELSE {})

Inv == TypeOK /\ \A t \in Threads : ThreadInv(t)

-----------------------------------------------------------------------------
\* Requests have pipes and descriptors of their own.
LEMMA PipesApart ==
  ASSUME NEW r \in Request, NEW q \in Request
  PROVE  /\ InPipe(r) \in Pipes /\ OutPipe(r) \in Pipes
         /\ InPipe(r) # OutPipe(q)
         /\ r # q => InPipe(r) # InPipe(q) /\ OutPipe(r) # OutPipe(q)
BY DEF InPipe, OutPipe, Pipes

LEMMA EndsOf ==
  ASSUME NEW r
  PROVE  /\ FdsOf(r) = {<<InPipe(r), "read">>, <<InPipe(r), "write">>,
                        <<OutPipe(r), "read">>, <<OutPipe(r), "write">>}
         /\ ChildFds(r) = {<<InPipe(r), "read">>, <<OutPipe(r), "write">>}
BY DEF FdsOf, PipeFds, ChildFds

LEMMA FdsApart ==
  ASSUME NEW r \in Request, NEW q \in Request, r # q
  PROVE  FdsOf(r) \cap FdsOf(q) = {}
<1>1. /\ InPipe(r) # OutPipe(q) /\ InPipe(q) # OutPipe(r)
      /\ InPipe(r) # InPipe(q) /\ OutPipe(r) # OutPipe(q)
  BY PipesApart
<1> QED BY <1>1, EndsOf

LEMMA RequestOf ==
  ASSUME NEW t \in Threads, NEW n \in 1 .. Requests
  PROVE  <<t, n>> \in Request
BY DEF Request

\* What a request and a thread are at stays as it is.
SameRequest(r) ==
  /\ setting' = setting
  /\ child'[r] = child[r] /\ child_fds'[r] = child_fds[r]
  /\ pending'[r] = pending[r] /\ answered'[r] = answered[r]
  /\ content'[InPipe(r)] = content[InPipe(r)] /\ content'[OutPipe(r)] = content[OutPipe(r)]
  /\ FdsOf(r) \cap fds' = FdsOf(r) \cap fds
SameThread(t) ==
  pc'[t] = pc[t] /\ number'[t] = number[t] /\ todo'[t] = todo[t] /\ output'[t] = output[t]

LEMMA SameIsOver ==
  ASSUME NEW r, SameRequest(r), Over(r)
  PROVE  Over(r)'
BY DEF SameRequest, Over, PipeFails, ForkFails

LEMMA Unaffected ==
  ASSUME TypeOK, NEW t \in Threads, ThreadInv(t), SameThread(t),
         \A n \in 1 .. Requests : SameRequest(<<t, n>>)
  PROVE  ThreadInv(t)'
<1>1. number[t] \in 0 .. Requests /\ number[t] \in Nat /\ Requests \in Nat
  BY Addr2lineAssumption DEF TypeOK
<1>2. setting' = setting
  <2>1. 1 \in 1 .. Requests
    BY Addr2lineAssumption
  <2> QED BY <2>1 DEF SameRequest
<1>3. OthersAtRest(t)'
  <2>1. ASSUME NEW n \in 1 .. Requests, n > number[t]
        PROVE  child'[<<t, n>>] = "none" /\ Untouched(<<t, n>>)'
    BY <2>1 DEF ThreadInv, OthersAtRest, SameRequest, Untouched
  <2>2. ASSUME NEW n \in 1 .. number[t], n < number[t] \/ pc[t] \in {"pipe", "next", "end"}
        PROVE  Over(<<t, n>>)'
    <3>1. n \in 1 .. Requests
      BY <1>1
    <3>2. Over(<<t, n>>)
      BY <2>2 DEF ThreadInv, OthersAtRest
    <3> QED BY <3>1, <3>2, SameIsOver
  <2> QED BY <2>1, <2>2 DEF OthersAtRest, SameThread
<1>4. CASE number[t] = 0
  BY <1>1, <1>3, <1>4 DEF ThreadInv, SameThread, Finished
<1>5. CASE number[t] # 0
  <2>1. number[t] \in 1 .. Requests
    BY <1>1, <1>5
  <2>0. PICK r : r = <<t, number[t]>>
    OBVIOUS
  <2>2. SameRequest(r) /\ Current(t) = r /\ Current(t)' = r
    BY <2>0, <2>1 DEF Current, SameThread
  <2>3. DescriptorsOpen(t, r) => DescriptorsOpen(t, r)'
    BY <2>2 DEF DescriptorsOpen, SameRequest, SameThread
  <2>4. LinesAccountedFor(t, r) => LinesAccountedFor(t, r)'
    BY <2>2, <1>2 DEF LinesAccountedFor, SameRequest, SameThread, Untouched, Lines, ExecFails
  <2>5. Finished(t)' => answered'[r] \in {Lines'} \cup (IF ExecFails' THEN {0} ELSE {})
    BY <2>2, <1>2 DEF ThreadInv, Finished, SameRequest, SameThread, Lines, ExecFails
  <2> QED BY <1>3, <2>2, <2>3, <2>4, <2>5 DEF ThreadInv, SameThread
<1> QED BY <1>4, <1>5

\* A step of t in the request it is at.
OnlyRequest(r) == \A q \in Request : q # r => SameRequest(q)
OnlyThread(t) == \A u \in Threads : u # t => SameThread(u)

LEMMA OthersUnaffected ==
  ASSUME TypeOK, NEW t \in Threads, NEW n \in 1 .. Requests,
         OnlyRequest(<<t, n>>), OnlyThread(t), NEW u \in Threads, u # t, ThreadInv(u)
  PROVE  ThreadInv(u)'
<1>1. ASSUME NEW m \in 1 .. Requests PROVE SameRequest(<<u, m>>)
  <2>1. <<u, m>> \in Request /\ <<u, m>> # <<t, n>>
    BY RequestOf
  <2> QED BY <2>1 DEF OnlyRequest
<1> QED BY <1>1, Unaffected DEF OnlyThread

LEMMA RestStays ==
  ASSUME TypeOK, NEW t \in Threads, ThreadInv(t), number'[t] = number[t], number[t] # 0,
         OnlyRequest(<<t, number[t]>>),
         pc'[t] \in {"pipe", "next", "end"} => Over(<<t, number[t]>>)'
  PROVE  OthersAtRest(t)'
<1>1. number[t] \in 0 .. Requests /\ number[t] \in Nat /\ Requests \in Nat
  BY Addr2lineAssumption DEF TypeOK
<1>2. ASSUME NEW m \in 1 .. Requests, m # number[t] PROVE SameRequest(<<t, m>>)
  <2>1. <<t, m>> \in Request /\ <<t, m>> # <<t, number[t]>>
    BY <1>2, RequestOf
  <2> QED BY <2>1 DEF OnlyRequest
<1>3. ASSUME NEW n \in 1 .. Requests, n > number[t]
      PROVE  child'[<<t, n>>] = "none" /\ Untouched(<<t, n>>)'
  BY <1>1, <1>2, <1>3 DEF ThreadInv, OthersAtRest, SameRequest, Untouched
<1>4. ASSUME NEW n \in 1 .. number[t], n < number[t] \/ pc'[t] \in {"pipe", "next", "end"}
      PROVE  Over(<<t, n>>)'
  <2>1. CASE n < number[t]
    <3>1. n \in 1 .. Requests /\ n # number[t]
      BY <1>1, <2>1
    <3>2. Over(<<t, n>>)
      BY <2>1 DEF ThreadInv, OthersAtRest
    <3> QED BY <1>2, <3>1, <3>2, SameIsOver
  <2>2. CASE n = number[t]
    BY <1>4, <2>2, <1>1
  <2> QED BY <1>1, <2>1, <2>2
<1> QED BY <1>3, <1>4 DEF OthersAtRest

LEMMA OnlyThisRequest ==
  ASSUME NEW r \in Request, setting' = setting,
         \A q \in Request : q # r => /\ child'[q] = child[q] /\ child_fds'[q] = child_fds[q]
                                     /\ pending'[q] = pending[q] /\ answered'[q] = answered[q],
         \A p \in Pipes : p # InPipe(r) /\ p # OutPipe(r) => content'[p] = content[p],
         \A x : x \notin FdsOf(r) => (x \in fds' <=> x \in fds)
  PROVE  OnlyRequest(r)
<1>1. ASSUME NEW q \in Request, q # r PROVE SameRequest(q)
  <2>1. /\ InPipe(q) \in Pipes /\ InPipe(q) # InPipe(r) /\ InPipe(q) # OutPipe(r)
        /\ OutPipe(q) \in Pipes /\ OutPipe(q) # InPipe(r) /\ OutPipe(q) # OutPipe(r)
    BY <1>1, PipesApart
  <2>2. FdsOf(q) \cap fds' = FdsOf(q) \cap fds
    BY <1>1, FdsApart
  <2> QED BY <1>1, <2>1, <2>2 DEF SameRequest
<1> QED BY <1>1 DEF OnlyRequest

\* A thread that is at a request.
Busy(t) == pc[t] \in {"fork", "write", "close", "read", "wait"}

LEMMA RequestAt ==
  ASSUME TypeOK, NEW t \in Threads, ThreadInv(t), Busy(t)
  PROVE  /\ number[t] \in 1 .. Requests /\ number[t] # 0
         /\ Current(t) = <<t, number[t]>> /\ Current(t) \in Request
         /\ DescriptorsOpen(t, Current(t)) /\ LinesAccountedFor(t, Current(t))
<1>1. number[t] \in 0 .. Requests /\ number[t] # 0 /\ Requests \in Nat
  BY Addr2lineAssumption DEF TypeOK, ThreadInv, Busy
<1>2. number[t] \in 1 .. Requests
  BY <1>1
<1> QED BY <1>1, <1>2, RequestOf DEF Current, ThreadInv, Busy

\* A step within a request, in pieces.
LEMMA StepWithin ==
  ASSUME Inv, NEW t \in Threads, Busy(t),
         OnlyRequest(Current(t)), OnlyThread(t),
         number'[t] = number[t],
         NEW r, r = Current(t),
         Busy(t)' => DescriptorsOpen(t, r)' /\ LinesAccountedFor(t, r)',
         ~Busy(t)' => /\ pc'[t] = "next" /\ Over(r)'
                      /\ child'[r] = "reaped" =>
                           answered'[r] \in {Lines'} \cup (IF ExecFails' THEN {0} ELSE {})
  PROVE  \A u \in Threads : ThreadInv(u)'
<1>1. TypeOK /\ ThreadInv(t)
  BY DEF Inv
<1>2. /\ number[t] \in 1 .. Requests /\ number[t] # 0 /\ r = <<t, number[t]>>
      /\ Current(t)' = r
  <2>1. number[t] \in 1 .. Requests /\ number[t] # 0 /\ r = <<t, number[t]>>
    BY <1>1, RequestAt
  <2> QED BY <2>1 DEF Current
<1>3. OthersAtRest(t)'
  <2>1. pc'[t] \in {"pipe", "next", "end"} => Over(<<t, number[t]>>)'
    <3>1. pc'[t] \in {"pipe", "next", "end"} => ~Busy(t)'
      BY DEF Busy
    <3>2. Over(r)' => Over(<<t, number[t]>>)'
      BY <1>2 DEF Over, PipeFails, ForkFails, FdsOf, PipeFds, InPipe, OutPipe
    <3> QED BY <3>1, <3>2
  <2> QED BY <1>1, <1>2, <2>1, RestStays
<1>4. ThreadInv(t)'
  <2>1. CASE Busy(t)'
    <3>1. ~Finished(t)'
      BY <2>1 DEF Busy, Finished
    <3>2. pc'[t] # "idle" /\ pc'[t] # "pipe"
      BY <2>1 DEF Busy
    <3> QED BY <1>2, <1>3, <2>1, <3>1, <3>2 DEF ThreadInv
  <2>2. CASE ~Busy(t)'
    <3>1. pc'[t] = "next"
      BY <2>2
    <3>2. Finished(t)' => answered'[r] \in {Lines'} \cup (IF ExecFails' THEN {0} ELSE {})
      BY <1>2, <2>2 DEF Finished
    <3> QED BY <1>2, <1>3, <3>1, <3>2 DEF ThreadInv
  <2> QED BY <2>1, <2>2
<1> QED BY <1>1, <1>2, <1>4, OthersUnaffected DEF Inv

-----------------------------------------------------------------------------
LEMMA InitInv == Init => Inv
<1> SUFFICES ASSUME Init PROVE Inv
  OBVIOUS
<1>1. TypeOK
  BY Addr2lineAssumption DEF Init, TypeOK, Labels, States
<1>2. ASSUME NEW t \in Threads PROVE ThreadInv(t)
  <2>1. pc[t] = "idle" /\ number[t] = 0
    BY DEF Init
  <2>2. \A n \in 1 .. Requests : child[<<t, n>>] = "none" /\ Untouched(<<t, n>>)
    BY RequestOf, PipesApart DEF Init, Untouched
  <2>3. OthersAtRest(t)
    BY <2>1, <2>2 DEF OthersAtRest
  <2> QED BY <2>1, <2>3 DEF ThreadInv, Finished
<1> QED BY <1>1, <1>2 DEF Inv

\* A step of a thread between two requests.
LEMMA StepBetween ==
  ASSUME TypeOK, NEW t \in Threads, ThreadInv(t), OnlyThread(t), number'[t] = number[t],
         \A q \in Request : SameRequest(q),
         \A u \in Threads : ThreadInv(u),
         pc[t] \in {"idle", "next"}, pc'[t] \in {"pipe", "end"},
         pc'[t] = "pipe" => number[t] < Requests
  PROVE  \A u \in Threads : ThreadInv(u)'
<1>1. number[t] \in 0 .. Requests /\ Requests \in Nat
  BY Addr2lineAssumption DEF TypeOK
<1>2. ASSUME NEW n \in 1 .. Requests, n > number[t]
      PROVE  child'[<<t, n>>] = "none" /\ Untouched(<<t, n>>)'
  BY <1>2, RequestOf DEF ThreadInv, OthersAtRest, SameRequest, Untouched
<1>3. ASSUME NEW n \in 1 .. number[t] PROVE Over(<<t, n>>)'
  <2>1. n \in 1 .. Requests
    BY <1>1
  <2>2. Over(<<t, n>>)
    BY <1>1 DEF ThreadInv, OthersAtRest
  <2> QED BY <2>1, <2>2, RequestOf, SameIsOver
<1>4. OthersAtRest(t)'
  BY <1>2, <1>3 DEF OthersAtRest
<1>5. ThreadInv(t)'
  BY <1>4 DEF ThreadInv, Finished
<1>6. ASSUME NEW u \in Threads, u # t PROVE ThreadInv(u)'
  BY <1>6, RequestOf, Unaffected DEF OnlyThread
<1> QED BY <1>5, <1>6

LEMMA NothingElse ==
  ASSUME setting' = setting, UNCHANGED <<children, answered, content, fds>>
  PROVE  \A q \in Request : SameRequest(q)
BY DEF SameRequest, children

LEMMA ResolveFramesStep ==
  ASSUME Inv, NEW t \in Threads, resolve_frames(t)
  PROVE  Inv'
<1>1. TypeOK /\ ThreadInv(t) /\ \A u \in Threads : ThreadInv(u)
  BY DEF Inv
<1>2. pc[t] = "idle" /\ pc'[t] \in {"pipe", "end"} /\ number[t] = 0 /\ number' = number
  BY <1>1 DEF resolve_frames, TypeOK, ThreadInv
<1>3. TypeOK'
  BY <1>1 DEF TypeOK, resolve_frames, children, Labels
<1>4. OnlyThread(t)
  BY <1>1 DEF OnlyThread, SameThread, resolve_frames, TypeOK
<1>5. \A q \in Request : SameRequest(q)
  BY NothingElse DEF resolve_frames
<1>6. number[t] < Requests
  BY <1>2, Addr2lineAssumption
<1> QED BY <1>1, <1>2, <1>3, <1>4, <1>5, <1>6, StepBetween DEF Inv

LEMMA NextStep ==
  ASSUME Inv, NEW t \in Threads, next(t)
  PROVE  Inv'
<1>1. TypeOK /\ ThreadInv(t) /\ \A u \in Threads : ThreadInv(u)
  BY DEF Inv
<1>2. /\ pc[t] = "next" /\ pc'[t] \in {"pipe", "end"} /\ number' = number
      /\ pc'[t] = "pipe" => number[t] < Requests
  BY <1>1 DEF next, goto, TypeOK
<1>3. TypeOK'
  BY <1>1 DEF TypeOK, next, goto, children, has, Labels
<1>4. OnlyThread(t)
  BY <1>1 DEF OnlyThread, SameThread, next, goto, TypeOK
<1>5. \A q \in Request : SameRequest(q)
  BY NothingElse DEF next, has
<1> QED BY <1>1, <1>2, <1>3, <1>4, <1>5, StepBetween DEF Inv

LEMMA ForkStep ==
  ASSUME Inv, NEW t \in Threads, fork(t)
  PROVE  Inv'
<1>1. TypeOK /\ ThreadInv(t) /\ Busy(t) /\ pc[t] = "fork"
  BY DEF Inv, Busy, fork
<1>2. PICK r : r = Current(t)
  OBVIOUS
<1>3. r \in Request /\ DescriptorsOpen(t, r) /\ LinesAccountedFor(t, r)
  BY <1>1, <1>2, RequestAt
<1>4. TypeOK'
  BY <1>1 DEF TypeOK, fork, goto, has, Labels, States
<1>5. /\ child'[r] = "forked" /\ child_fds'[r] = fds /\ fds' = fds /\ pc'[t] = "write"
      /\ pending' = pending /\ content' = content /\ setting' = setting
      /\ number' = number /\ todo' = todo /\ output' = output
  BY <1>1, <1>2, <1>3 DEF fork, goto, has, TypeOK
<1>6. OnlyRequest(r)
  <2>1. \A q \in Request : q # r => child'[q] = child[q] /\ child_fds'[q] = child_fds[q]
    BY <1>1, <1>2, <1>3 DEF fork, TypeOK
  <2> QED BY <1>3, <1>5, <2>1, OnlyThisRequest DEF fork
<1>7. OnlyThread(t)
  BY <1>1 DEF OnlyThread, SameThread, fork, goto, TypeOK
<1>8. DescriptorsOpen(t, r)'
  BY <1>1, <1>3, <1>5 DEF DescriptorsOpen
<1>9. LinesAccountedFor(t, r)'
  <2>1. /\ pending[r] = 0 /\ content[InPipe(r)] = 0 /\ content[OutPipe(r)] = 0
        /\ todo[t] = Lines /\ output[t] = 0
    BY <1>1, <1>3 DEF LinesAccountedFor, Untouched
  <2>2. Lines \in Nat
    BY <1>1, Addr2lineAssumption DEF Lines, TypeOK
  <2> QED BY <1>5, <2>1, <2>2 DEF LinesAccountedFor, Lines
<1>10. Busy(t)'
  BY <1>5 DEF Busy
<1> QED BY <1>1, <1>2, <1>4, <1>5, <1>6, <1>7, <1>8, <1>9, <1>10, StepWithin DEF Inv

LEMMA ForkFailsStep ==
  ASSUME Inv, NEW t \in Threads, fork_fails(t)
  PROVE  Inv'
<1>1. TypeOK /\ ThreadInv(t) /\ Busy(t) /\ pc[t] = "fork"
  BY DEF Inv, Busy, fork_fails
<1>2. PICK r : r = Current(t)
  OBVIOUS
<1>3. r \in Request /\ LinesAccountedFor(t, r)
  BY <1>1, <1>2, RequestAt
<1>4. TypeOK'
  BY <1>1 DEF TypeOK, fork_fails, goto, has, children, Labels
<1>5. /\ child' = child /\ pc'[t] = "next" /\ setting' = setting /\ number' = number
      /\ ForkFails
  BY <1>1 DEF fork_fails, goto, has, children, TypeOK
<1>6. OnlyRequest(r)
  BY <1>5, NothingElse DEF fork_fails, OnlyRequest
<1>7. OnlyThread(t)
  BY <1>1 DEF OnlyThread, SameThread, fork_fails, goto, TypeOK
<1>8. child'[r] = "none" /\ Over(r)'
  BY <1>1, <1>3, <1>5 DEF LinesAccountedFor, Over, ForkFails, PipeFails
<1>9. ~Busy(t)'
  BY <1>5 DEF Busy
<1> QED BY <1>1, <1>2, <1>4, <1>5, <1>6, <1>7, <1>8, <1>9, StepWithin DEF Inv

LEMMA WriteStep ==
  ASSUME Inv, NEW t \in Threads, write(t)
  PROVE  Inv'
<1>1. TypeOK /\ ThreadInv(t) /\ Busy(t) /\ pc[t] = "write"
  BY DEF Inv, Busy, write
<1>2. PICK r : r = Current(t)
  OBVIOUS
<1>3. /\ r \in Request /\ DescriptorsOpen(t, r) /\ LinesAccountedFor(t, r)
      /\ InPipe(r) \in Pipes /\ OutPipe(r) \in Pipes /\ InPipe(r) # OutPipe(r)
  BY <1>1, <1>2, RequestAt, PipesApart
<1>4. /\ todo[t] \in Nat /\ output[t] \in Nat /\ pending[r] \in Nat
      /\ content[InPipe(r)] \in Nat /\ content[OutPipe(r)] \in Nat
      /\ Lines \in Nat
  BY <1>1, <1>3, Addr2lineAssumption DEF TypeOK, Lines
<1>5. /\ children' = children /\ child' = child /\ child_fds' = child_fds
      /\ pending' = pending /\ setting' = setting /\ number' = number /\ output' = output
      /\ fds' = fds /\ answered' = answered
  BY DEF write, has, children
<1>6. \A p \in Pipes : p # InPipe(r) => content'[p] = content[p]
  BY <1>1, <1>2 DEF write, TypeOK
<1>7. \/ /\ todo[t] = 0 /\ pc' = [pc EXCEPT ![t] = "close"] /\ todo' = todo
         /\ content' = content
      \/ /\ todo[t] # 0 /\ pc' = pc /\ todo' = [todo EXCEPT ![t] = todo[t] - 1]
         /\ content' = [content EXCEPT ![InPipe(r)] = content[InPipe(r)] + 1]
  BY <1>2 DEF write, goto
<1>8. \/ todo[t] = 0 /\ pc'[t] = "close" /\ todo'[t] = todo[t] /\ content' = content
      \/ /\ todo[t] # 0 /\ pc'[t] = "write" /\ todo'[t] = todo[t] - 1
         /\ content'[InPipe(r)] = content[InPipe(r)] + 1
         /\ content'[OutPipe(r)] = content[OutPipe(r)]
  BY <1>1, <1>3, <1>7 DEF TypeOK
<1>9. TypeOK'
  <2>1. pc' \in [Threads -> Labels] /\ todo' \in [Threads -> Nat] /\ content' \in [Pipes -> Nat]
    BY <1>1, <1>3, <1>4, <1>7 DEF TypeOK, Labels
  <2> QED BY <1>1, <1>5, <2>1 DEF TypeOK
<1>10. OnlyRequest(r)
  BY <1>3, <1>5, <1>6, OnlyThisRequest
<1>11. OnlyThread(t)
  BY <1>1, <1>5, <1>7 DEF OnlyThread, SameThread, TypeOK
<1>12. DescriptorsOpen(t, r)'
  BY <1>1, <1>3, <1>5, <1>8 DEF DescriptorsOpen
<1>13. LinesAccountedFor(t, r)'
  BY <1>1, <1>3, <1>4, <1>5, <1>8 DEF LinesAccountedFor, Lines, ExecFails
<1>14. Busy(t)'
  BY <1>8 DEF Busy
<1> QED BY <1>1, <1>2, <1>5, <1>9, <1>10, <1>11, <1>12, <1>13, <1>14, StepWithin DEF Inv

LEMMA CloseStep ==
  ASSUME Inv, NEW t \in Threads, close(t)
  PROVE  Inv'
<1>1. TypeOK /\ ThreadInv(t) /\ Busy(t) /\ pc[t] = "close"
  BY DEF Inv, Busy, close
<1>2. PICK r : r = Current(t)
  OBVIOUS
<1>3. r \in Request /\ DescriptorsOpen(t, r) /\ LinesAccountedFor(t, r)
  BY <1>1, <1>2, RequestAt
<1>4. /\ children' = children /\ child' = child /\ child_fds' = child_fds
      /\ pending' = pending /\ setting' = setting /\ number' = number /\ output' = output
      /\ todo' = todo /\ answered' = answered /\ content' = content
      /\ fds' = fds \ (FdsOf(r) \ {<<OutPipe(r), "read">>}) /\ pc'[t] = "read"
  BY <1>1, <1>2 DEF close, has, children, goto, TypeOK
<1>5. TypeOK'
  BY <1>1 DEF TypeOK, close, goto, has, children, Labels
<1>6. OnlyRequest(r)
  BY <1>3, <1>4, OnlyThisRequest
<1>7. OnlyThread(t)
  BY <1>1 DEF OnlyThread, SameThread, close, goto, TypeOK
<1>8. DescriptorsOpen(t, r)'
  BY <1>3, <1>4 DEF DescriptorsOpen
<1>9. LinesAccountedFor(t, r)'
  BY <1>1, <1>3, <1>4 DEF LinesAccountedFor, Lines, ExecFails
<1>10. Busy(t)'
  BY <1>4 DEF Busy
<1> QED BY <1>1, <1>2, <1>4, <1>5, <1>6, <1>7, <1>8, <1>9, <1>10, StepWithin DEF Inv

\* A child that runs has the write end of its output open.
LEMMA ChildIsOver ==
  ASSUME NEW t, NEW r \in Request, DescriptorsOpen(t, r), LinesAccountedFor(t, r),
         pc[t] = "read", ~HasWriter(OutPipe(r))
  PROVE  child[r] = "exited"
<1>1. <<OutPipe(r), "write">> \notin child_fds[r]
  BY DEF HasWriter
<1>2. child[r] # "running" /\ child[r] # "forked"
  BY <1>1, EndsOf DEF DescriptorsOpen
<1> QED BY <1>2 DEF LinesAccountedFor

LEMMA ReadStep ==
  ASSUME Inv, NEW t \in Threads, read(t)
  PROVE  Inv'
<1>1. TypeOK /\ ThreadInv(t) /\ Busy(t) /\ pc[t] = "read"
  BY DEF Inv, Busy, read
<1>2. PICK r : r = Current(t)
  OBVIOUS
<1>3. /\ r \in Request /\ DescriptorsOpen(t, r) /\ LinesAccountedFor(t, r)
      /\ InPipe(r) \in Pipes /\ OutPipe(r) \in Pipes /\ InPipe(r) # OutPipe(r)
  BY <1>1, <1>2, RequestAt, PipesApart
<1>4. /\ todo[t] \in Nat /\ output[t] \in Nat /\ pending[r] \in Nat
      /\ content[InPipe(r)] \in Nat /\ content[OutPipe(r)] \in Nat
      /\ Lines \in Nat
  BY <1>1, <1>3, Addr2lineAssumption DEF TypeOK, Lines
<1>5. /\ children' = children /\ child' = child /\ child_fds' = child_fds
      /\ pending' = pending /\ setting' = setting /\ number' = number /\ todo' = todo
      /\ fds' = fds /\ answered' = answered
  BY DEF read, has, children
<1>6. \A p \in Pipes : p # OutPipe(r) => content'[p] = content[p]
  BY <1>1, <1>2 DEF read, TypeOK
<1>7. \/ /\ content[OutPipe(r)] > 0 /\ pc' = pc
         /\ output' = [output EXCEPT ![t] = output[t] + content[OutPipe(r)]]
         /\ content' = [content EXCEPT ![OutPipe(r)] = 0]
      \/ /\ content[OutPipe(r)] = 0 /\ ~HasWriter(OutPipe(r))
         /\ pc' = [pc EXCEPT ![t] = "wait"] /\ output' = output /\ content' = content
  BY <1>2, <1>4 DEF read, goto
<1>8. \/ /\ pc'[t] = "read" /\ output'[t] = output[t] + content[OutPipe(r)]
         /\ content'[OutPipe(r)] = 0 /\ content'[InPipe(r)] = content[InPipe(r)]
      \/ /\ content[OutPipe(r)] = 0 /\ pc'[t] = "wait" /\ child[r] = "exited"
         /\ output' = output /\ content' = content
  BY <1>1, <1>3, <1>7, ChildIsOver DEF TypeOK
<1>9. TypeOK'
  <2>1. pc' \in [Threads -> Labels] /\ output' \in [Threads -> Nat] /\ content' \in [Pipes -> Nat]
    BY <1>1, <1>3, <1>4, <1>7 DEF TypeOK, Labels
  <2> QED BY <1>1, <1>5, <2>1 DEF TypeOK
<1>10. OnlyRequest(r)
  BY <1>3, <1>5, <1>6, OnlyThisRequest
<1>11. OnlyThread(t)
  BY <1>1, <1>5, <1>7 DEF OnlyThread, SameThread, TypeOK
<1>12. DescriptorsOpen(t, r)'
  BY <1>1, <1>3, <1>5, <1>8 DEF DescriptorsOpen
<1>13. LinesAccountedFor(t, r)'
  BY <1>1, <1>3, <1>4, <1>5, <1>8 DEF LinesAccountedFor, Lines, ExecFails
<1>14. Busy(t)'
  BY <1>8 DEF Busy
<1> QED BY <1>1, <1>2, <1>5, <1>9, <1>10, <1>11, <1>12, <1>13, <1>14, StepWithin DEF Inv

LEMMA WaitStep ==
  ASSUME Inv, NEW t \in Threads, wait(t)
  PROVE  Inv'
<1>1. TypeOK /\ ThreadInv(t) /\ Busy(t) /\ pc[t] = "wait"
  BY DEF Inv, Busy, wait
<1>2. PICK r : r = Current(t)
  OBVIOUS
<1>3. r \in Request /\ DescriptorsOpen(t, r) /\ LinesAccountedFor(t, r)
  BY <1>1, <1>2, RequestAt
<1>4. /\ setting' = setting /\ number' = number /\ todo' = todo /\ output' = output
      /\ child_fds' = child_fds /\ pending' = pending /\ content' = content
      /\ fds' = fds \ {<<OutPipe(r), "read">>} /\ pc'[t] = "next"
      /\ child' = [child EXCEPT ![r] = "reaped"]
      /\ answered' = [answered EXCEPT ![r] = output[t]]
  BY <1>1, <1>2 DEF wait, has, goto, TypeOK
<1>5. TypeOK'
  <2>1. pc' \in [Threads -> Labels]
    BY <1>1 DEF wait, goto, TypeOK, Labels
  <2>2. child' \in [Request -> States] /\ answered' \in [Request -> Nat]
    BY <1>1, <1>3, <1>4 DEF TypeOK, States
  <2> QED BY <1>1, <1>4, <2>1, <2>2 DEF TypeOK
<1>6. OnlyRequest(r)
  <2>1. <<OutPipe(r), "read">> \in FdsOf(r)
    BY EndsOf
  <2>2. \A q \in Request : q # r => child'[q] = child[q] /\ answered'[q] = answered[q]
    BY <1>1, <1>3, <1>4 DEF TypeOK
  <2> QED BY <1>3, <1>4, <2>1, <2>2, OnlyThisRequest
<1>7. OnlyThread(t)
  BY <1>1, <1>4 DEF OnlyThread, SameThread, wait, goto, TypeOK
<1>8. child'[r] = "reaped" /\ answered'[r] = output[t]
  BY <1>1, <1>3, <1>4 DEF TypeOK
<1>9. Over(r)'
  <2>1. FdsOf(r) \cap fds' = {}
    BY <1>1, <1>3, <1>4 DEF DescriptorsOpen
  <2> QED BY <1>8, <2>1 DEF Over
<1>10. answered'[r] \in {Lines'} \cup (IF ExecFails' THEN {0} ELSE {})
  <2>1. output[t] = Lines \/ (ExecFails /\ output[t] = 0)
    <3>1. output[t] \in Nat /\ Lines \in Nat
      BY <1>1, Addr2lineAssumption DEF TypeOK, Lines
    <3> QED BY <1>1, <1>3, <3>1 DEF LinesAccountedFor
  <2> QED BY <1>4, <1>8, <2>1 DEF Lines, ExecFails
<1>11. ~Busy(t)'
  BY <1>4 DEF Busy
<1> QED BY <1>1, <1>2, <1>4, <1>5, <1>6, <1>7, <1>9, <1>10, <1>11, StepWithin DEF Inv

\* A new request: its number was not reached, so it has not been touched.
LEMMA NewRequest ==
  ASSUME TypeOK, NEW t \in Threads, ThreadInv(t), pc[t] = "pipe",
         NEW r, r = <<t, number[t] + 1>>
  PROVE  /\ r \in Request /\ number[t] \in Nat /\ number[t] + 1 \in 1 .. Requests
         /\ child[r] = "none" /\ Untouched(r)
<1>1. number[t] \in 0 .. Requests /\ number[t] < Requests /\ Requests \in Nat
  BY Addr2lineAssumption DEF TypeOK, ThreadInv
<1>2. number[t] \in Nat /\ number[t] + 1 \in 1 .. Requests /\ number[t] + 1 > number[t]
  BY <1>1
<1>3. child[<<t, number[t] + 1>>] = "none" /\ Untouched(<<t, number[t] + 1>>)
  BY <1>2 DEF ThreadInv, OthersAtRest
<1> QED BY <1>2, <1>3, RequestOf

LEMMA NewAtRest ==
  ASSUME TypeOK, NEW t \in Threads, ThreadInv(t), pc[t] = "pipe",
         number'[t] = number[t] + 1, OnlyRequest(<<t, number[t] + 1>>),
         NEW r, r = <<t, number[t] + 1>>, pc'[t] \in {"pipe", "next", "end"} => Over(r)'
  PROVE  OthersAtRest(t)'
<1>1. number[t] \in Nat /\ number[t] + 1 \in 1 .. Requests /\ Requests \in Nat
  BY NewRequest, Addr2lineAssumption
<1>2. ASSUME NEW m \in 1 .. Requests, m # number[t] + 1 PROVE SameRequest(<<t, m>>)
  <2>1. <<t, m>> \in Request /\ <<t, m>> # <<t, number[t] + 1>>
    BY <1>2, RequestOf
  <2> QED BY <2>1 DEF OnlyRequest
<1>3. ASSUME NEW n \in 1 .. Requests, n > number[t] + 1
      PROVE  child'[<<t, n>>] = "none" /\ Untouched(<<t, n>>)'
  <2>1. n > number[t] /\ n # number[t] + 1
    BY <1>1, <1>3
  <2> QED BY <2>1, <1>2 DEF ThreadInv, OthersAtRest, SameRequest, Untouched
<1>4. ASSUME NEW n \in 1 .. number[t] + 1,
             n < number[t] + 1 \/ pc'[t] \in {"pipe", "next", "end"}
      PROVE  Over(<<t, n>>)'
  <2>1. CASE n < number[t] + 1
    <3>1. n \in 1 .. number[t] /\ n \in 1 .. Requests /\ n # number[t] + 1
      BY <1>1, <2>1
    <3>2. Over(<<t, n>>)
      BY <3>1 DEF ThreadInv, OthersAtRest
    <3> QED BY <1>2, <3>1, <3>2, SameIsOver
  <2>2. CASE n = number[t] + 1
    <3>1. Over(r)' /\ r = <<t, n>>
      BY <1>1, <1>4, <2>2
    <3> QED BY <3>1 DEF Over, PipeFails, ForkFails, FdsOf, PipeFds, InPipe, OutPipe
  <2> QED BY <1>1, <2>1, <2>2
<1> QED BY <1>3, <1>4 DEF OthersAtRest

LEMMA MakePipeStep ==
  ASSUME Inv, NEW t \in Threads, make_pipe(t)
  PROVE  Inv'
<1>1. TypeOK /\ ThreadInv(t) /\ pc[t] = "pipe"
  BY DEF Inv, make_pipe
<1>2. PICK r : r = <<t, number[t] + 1>>
  OBVIOUS
<1>3. /\ r \in Request /\ number[t] \in Nat /\ number[t] + 1 \in 1 .. Requests
      /\ child[r] = "none" /\ Untouched(r)
  BY <1>1, <1>2, NewRequest
<1>4. /\ children' = children /\ child' = child /\ child_fds' = child_fds
      /\ pending' = pending /\ setting' = setting /\ answered' = answered
      /\ content' = content /\ fds' = fds \cup FdsOf(r)
      /\ number' = [number EXCEPT ![t] = number[t] + 1]
      /\ todo' = [todo EXCEPT ![t] = Lines] /\ output' = [output EXCEPT ![t] = 0]
      /\ pc' = [pc EXCEPT ![t] = "fork"]
  BY <1>2 DEF make_pipe, has, children, goto
<1>5. Lines \in Nat
  BY <1>1, Addr2lineAssumption DEF Lines, TypeOK
<1>6. /\ pc'[t] = "fork" /\ number'[t] = number[t] + 1 /\ todo'[t] = Lines /\ output'[t] = 0
  BY <1>1, <1>4 DEF TypeOK
<1>7. TypeOK'
  <2>1. /\ pc' \in [Threads -> Labels] /\ number' \in [Threads -> 0 .. Requests]
        /\ todo' \in [Threads -> Nat] /\ output' \in [Threads -> Nat]
    <3>1. number[t] + 1 \in 0 .. Requests
      BY <1>3
    <3> QED BY <1>1, <1>4, <1>5, <3>1 DEF TypeOK, Labels
  <2> QED BY <1>1, <1>4, <2>1 DEF TypeOK
<1>8. OnlyRequest(<<t, number[t] + 1>>)
  <2>1. OnlyRequest(r)
    BY <1>3, <1>4, OnlyThisRequest
  <2> QED BY <2>1, <1>2
<1>9. OnlyThread(t)
  BY <1>1, <1>4 DEF OnlyThread, SameThread, TypeOK
<1>10. OthersAtRest(t)'
  BY <1>1, <1>2, <1>6, <1>8, NewAtRest
<1>11. Current(t)' = r
  BY <1>2, <1>6 DEF Current
<1>12. DescriptorsOpen(t, r)'
  BY <1>3, <1>4, <1>6 DEF DescriptorsOpen
<1>13. LinesAccountedFor(t, r)'
  BY <1>3, <1>4, <1>5, <1>6 DEF LinesAccountedFor, Lines, Untouched
<1>14. ThreadInv(t)'
  BY <1>3, <1>6, <1>10, <1>11, <1>12, <1>13 DEF ThreadInv, Finished
<1>15. ASSUME NEW u \in Threads, u # t PROVE ThreadInv(u)'
  BY <1>1, <1>3, <1>8, <1>9, <1>15, OthersUnaffected DEF Inv
<1> QED BY <1>7, <1>14, <1>15 DEF Inv

LEMMA MakePipeFailsStep ==
  ASSUME Inv, NEW t \in Threads, make_pipe_fails(t)
  PROVE  Inv'
<1>1. TypeOK /\ ThreadInv(t) /\ pc[t] = "pipe" /\ PipeFails
  BY DEF Inv, make_pipe_fails
<1>2. PICK r : r = <<t, number[t] + 1>>
  OBVIOUS
<1>3. /\ r \in Request /\ number[t] \in Nat /\ number[t] + 1 \in 1 .. Requests
      /\ child[r] = "none" /\ Untouched(r)
  BY <1>1, <1>2, NewRequest
<1>4. /\ children' = children /\ child' = child /\ child_fds' = child_fds
      /\ pending' = pending /\ setting' = setting /\ answered' = answered
      /\ content' = content /\ todo' = todo /\ output' = output
      /\ number' = [number EXCEPT ![t] = number[t] + 1]
      /\ pc' = [pc EXCEPT ![t] = "next"]
  BY DEF make_pipe_fails, has, children, goto
<1>5. \A x : x \notin FdsOf(r) => (x \in fds' <=> x \in fds)
  <2>1. PICK left \in {{}, PipeFds(OutPipe(r))} : fds' = fds \cup left
    BY <1>2 DEF make_pipe_fails
  <2> QED BY <2>1 DEF FdsOf
<1>6. pc'[t] = "next" /\ number'[t] = number[t] + 1
  BY <1>1, <1>4 DEF TypeOK
<1>7. TypeOK'
  <2>1. pc' \in [Threads -> Labels] /\ number' \in [Threads -> 0 .. Requests]
    <3>1. number[t] + 1 \in 0 .. Requests
      BY <1>3
    <3> QED BY <1>1, <1>4, <3>1 DEF TypeOK, Labels
  <2> QED BY <1>1, <1>4, <2>1 DEF TypeOK
<1>8. OnlyRequest(<<t, number[t] + 1>>)
  <2>1. OnlyRequest(r)
    BY <1>3, <1>4, <1>5, OnlyThisRequest
  <2> QED BY <2>1, <1>2
<1>9. OnlyThread(t)
  BY <1>1, <1>4 DEF OnlyThread, SameThread, TypeOK
<1>10. Over(r)'
  BY <1>1, <1>3, <1>4 DEF Over, PipeFails, ForkFails
<1>11. OthersAtRest(t)'
  BY <1>1, <1>2, <1>6, <1>8, <1>10, NewAtRest
<1>12. ThreadInv(t)'
  <2>1. ~Finished(t)'
    <3>1. Current(t)' = r
      BY <1>2, <1>6 DEF Current
    <3>2. child'[r] = "none"
      BY <1>3, <1>4
    <3> QED BY <3>1, <3>2 DEF Finished
  <2> QED BY <1>6, <1>11, <2>1 DEF ThreadInv
<1>13. ASSUME NEW u \in Threads, u # t PROVE ThreadInv(u)'
  BY <1>1, <1>3, <1>8, <1>9, <1>13, OthersUnaffected DEF Inv
<1> QED BY <1>7, <1>12, <1>13 DEF Inv

-----------------------------------------------------------------------------
\* A child that is there belongs to the request its thread is at.
LEMMA ChildOfBusy ==
  ASSUME Inv, NEW r \in Request, child[r] \in {"forked", "running"}
  PROVE  \E t \in Threads : Busy(t) /\ Current(t) = r
<1>1. PICK t \in Threads, n \in 1 .. Requests : r = <<t, n>>
  BY DEF Request
<1>2. TypeOK /\ ThreadInv(t)
  BY DEF Inv
<1>3. number[t] \in 0 .. Requests /\ number[t] \in Nat /\ Requests \in Nat
  BY <1>2, Addr2lineAssumption DEF TypeOK
<1>4. ~(n > number[t])
  BY <1>1, <1>2 DEF ThreadInv, OthersAtRest
<1>5. n \in 1 .. number[t]
  BY <1>3, <1>4
<1>6. ~Over(<<t, n>>)
  BY <1>1 DEF Over
<1>7. ~(n < number[t]) /\ pc[t] \notin {"pipe", "next", "end"}
  BY <1>2, <1>5, <1>6 DEF ThreadInv, OthersAtRest
<1>8. n = number[t] /\ number[t] # 0
  BY <1>3, <1>5, <1>7
<1>9. pc[t] # "idle" /\ pc[t] \in Labels
  BY <1>2, <1>8 DEF ThreadInv, TypeOK
<1>10. Busy(t)
  BY <1>7, <1>9 DEF Busy, Labels
<1>11. Current(t) = r
  BY <1>1, <1>8 DEF Current
<1> QED BY <1>10, <1>11

\* A step of a child changes no descriptor of the process and no thread.
LEMMA ChildStepWithin ==
  ASSUME Inv, NEW t \in Threads, Busy(t), NEW r \in Request, r = Current(t),
         UNCHANGED <<has, thread, fds>>,
         \A q \in Request : q # r => /\ child'[q] = child[q] /\ child_fds'[q] = child_fds[q]
                                     /\ pending'[q] = pending[q],
         \A p \in Pipes : p # InPipe(r) /\ p # OutPipe(r) => content'[p] = content[p],
         TypeOK', DescriptorsOpen(t, r)', LinesAccountedFor(t, r)'
  PROVE  Inv'
<1>1. /\ setting' = setting /\ pc' = pc /\ number' = number /\ todo' = todo
      /\ output' = output /\ answered' = answered /\ fds' = fds
  BY DEF has, thread
<1>2. OnlyRequest(r)
  BY <1>1, OnlyThisRequest
<1>3. OnlyThread(t)
  BY <1>1 DEF OnlyThread, SameThread
<1>4. Busy(t)'
  BY <1>1 DEF Busy
<1> QED BY <1>1, <1>2, <1>3, <1>4, StepWithin DEF Inv

\* What holds of a child that is there, and of the thread that waits for it.
LEMMA ChildAt ==
  ASSUME Inv, NEW t \in Threads, Busy(t), NEW r \in Request, r = Current(t)
  PROVE  /\ TypeOK /\ DescriptorsOpen(t, r) /\ LinesAccountedFor(t, r)
         /\ InPipe(r) \in Pipes /\ OutPipe(r) \in Pipes /\ InPipe(r) # OutPipe(r)
         /\ todo[t] \in Nat /\ output[t] \in Nat /\ pending[r] \in 0 .. 1
         /\ content[InPipe(r)] \in Nat /\ content[OutPipe(r)] \in Nat
         /\ Lines \in Nat
<1>1. TypeOK /\ ThreadInv(t)
  BY DEF Inv
<1>2. DescriptorsOpen(t, r) /\ LinesAccountedFor(t, r)
  BY <1>1, RequestAt
<1>3. InPipe(r) \in Pipes /\ OutPipe(r) \in Pipes /\ InPipe(r) # OutPipe(r)
  BY PipesApart
<1>4. Lines \in Nat
  BY <1>1, Addr2lineAssumption DEF TypeOK, Lines
<1> QED BY <1>1, <1>2, <1>3, <1>4 DEF TypeOK

LEMMA ExecStep ==
  ASSUME Inv, NEW r \in Request, exec(r)
  PROVE  Inv'
<1>1. PICK t \in Threads : Busy(t) /\ Current(t) = r
  BY ChildOfBusy DEF exec
<1>2. TypeOK /\ DescriptorsOpen(t, r) /\ LinesAccountedFor(t, r)
  BY <1>1, ChildAt
<1>3. /\ UNCHANGED <<has, thread, fds>> /\ pending' = pending /\ content' = content
      /\ child[r] = "forked" /\ child' = [child EXCEPT ![r] = "running"]
      /\ child_fds' = [child_fds EXCEPT ![r] = (child_fds[r] \ FdsOf(r)) \cup ChildFds(r)]
  BY DEF exec
<1>4. /\ setting' = setting /\ pc' = pc /\ number' = number /\ todo' = todo
      /\ output' = output /\ answered' = answered /\ fds' = fds
  BY <1>3 DEF has, thread
<1>5. /\ child'[r] = "running" /\ ChildFds(r) \subseteq child_fds'[r]
      /\ \A q \in Request : q # r => child'[q] = child[q] /\ child_fds'[q] = child_fds[q]
  BY <1>2, <1>3 DEF TypeOK
<1>6. TypeOK'
  BY <1>2, <1>3, <1>4 DEF TypeOK, States
<1>7. DescriptorsOpen(t, r)'
  BY <1>2, <1>4, <1>5 DEF DescriptorsOpen
<1>8. LinesAccountedFor(t, r)'
  BY <1>2, <1>3, <1>4, <1>5 DEF LinesAccountedFor, Lines
<1> QED BY <1>1, <1>3, <1>5, <1>6, <1>7, <1>8, ChildStepWithin

\* Lines leave the child's program only with the last of them read, or not at all.
LEMMA ExitStep ==
  ASSUME Inv, NEW r \in Request, exit(r), child[r] \in {"forked", "running"},
         UNCHANGED <<has, thread, fds, pending, content>>,
         NEW t \in Threads, Busy(t), Current(t) = r,
         \/ pc[t] \in {"read", "wait"} /\ content[OutPipe(r)] + output[t] = Lines
         \/ ExecFails /\ content[OutPipe(r)] = 0 /\ output[t] = 0
  PROVE  Inv'
<1>1. TypeOK /\ DescriptorsOpen(t, r) /\ LinesAccountedFor(t, r)
  BY ChildAt
<1>2. /\ pending' = pending /\ content' = content
      /\ child' = [child EXCEPT ![r] = "exited"] /\ child_fds' = [child_fds EXCEPT ![r] = {}]
      /\ setting' = setting /\ pc' = pc /\ number' = number /\ todo' = todo
      /\ output' = output /\ answered' = answered /\ fds' = fds
  BY DEF exit, has, thread
<1>3. /\ child'[r] = "exited"
      /\ \A q \in Request : q # r => child'[q] = child[q] /\ child_fds'[q] = child_fds[q]
  BY <1>1, <1>2 DEF TypeOK
<1>4. TypeOK'
  BY <1>1, <1>2 DEF TypeOK, States
<1>5. DescriptorsOpen(t, r)'
  BY <1>1, <1>2, <1>3 DEF DescriptorsOpen
<1>6. LinesAccountedFor(t, r)'
  BY <1>1, <1>2, <1>3 DEF LinesAccountedFor, Lines, ExecFails
<1> QED BY <1>2, <1>3, <1>4, <1>5, <1>6, ChildStepWithin

LEMMA ExecFailsStep ==
  ASSUME Inv, NEW r \in Request, exec_fails(r)
  PROVE  Inv'
<1>1. PICK t \in Threads : Busy(t) /\ Current(t) = r
  BY ChildOfBusy DEF exec_fails
<1>2. ExecFails /\ child[r] = "forked" /\ content[OutPipe(r)] = 0 /\ output[t] = 0
  BY <1>1, ChildAt DEF exec_fails, LinesAccountedFor
<1> QED BY <1>1, <1>2, ExitStep DEF exec_fails

\* The end of addr2line's input: the process has closed its end, so all lines
\* were written, and what was written has been read and answered.
LEMMA EofStep ==
  ASSUME Inv, NEW r \in Request, addr2line_eof(r)
  PROVE  Inv'
<1>1. PICK t \in Threads : Busy(t) /\ Current(t) = r
  BY ChildOfBusy DEF addr2line_eof
<1>2. DescriptorsOpen(t, r) /\ LinesAccountedFor(t, r) /\ child[r] = "running"
  BY <1>1, ChildAt DEF addr2line_eof
<1>3. <<InPipe(r), "write">> \notin fds
  BY DEF addr2line_eof, HasWriter
<1>4. pc[t] \in {"read", "wait"}
  <2>1. <<InPipe(r), "write">> \in FdsOf(r)
    BY EndsOf
  <2> QED BY <1>1, <1>2, <1>3, <2>1 DEF DescriptorsOpen, Busy
<1>5. content[OutPipe(r)] + output[t] = Lines
  <2>1. todo[t] = 0 /\ pending[r] = 0 /\ content[InPipe(r)] = 0
    BY <1>2, <1>4 DEF LinesAccountedFor, addr2line_eof
  <2>2. todo[t] + content[InPipe(r)] + pending[r] + content[OutPipe(r)] + output[t] = Lines
    BY <1>2 DEF LinesAccountedFor
  <2>3. content[OutPipe(r)] \in Nat /\ output[t] \in Nat
    BY <1>1, ChildAt
  <2> QED BY <2>1, <2>2, <2>3
<1> QED BY <1>1, <1>4, <1>5, ExitStep DEF addr2line_eof

LEMMA Addr2lineReadStep ==
  ASSUME Inv, NEW r \in Request, addr2line_read(r)
  PROVE  Inv'
<1>1. PICK t \in Threads : Busy(t) /\ Current(t) = r
  BY ChildOfBusy DEF addr2line_read
<1>2. /\ TypeOK /\ DescriptorsOpen(t, r) /\ LinesAccountedFor(t, r)
      /\ InPipe(r) \in Pipes /\ OutPipe(r) \in Pipes /\ InPipe(r) # OutPipe(r)
      /\ todo[t] \in Nat /\ output[t] \in Nat /\ pending[r] \in 0 .. 1
      /\ content[InPipe(r)] \in Nat /\ content[OutPipe(r)] \in Nat
      /\ Lines \in Nat
  BY <1>1, ChildAt
<1>3. /\ child[r] = "running" /\ pending[r] = 0 /\ content[InPipe(r)] > 0
      /\ content' = [content EXCEPT ![InPipe(r)] = content[InPipe(r)] - 1]
      /\ pending' = [pending EXCEPT ![r] = 1]
      /\ UNCHANGED <<has, thread, fds>> /\ child' = child /\ child_fds' = child_fds
  BY DEF addr2line_read
<1>4. /\ setting' = setting /\ pc' = pc /\ number' = number /\ todo' = todo
      /\ output' = output /\ answered' = answered /\ fds' = fds
  BY <1>3 DEF has, thread
<1>5. /\ content'[InPipe(r)] = content[InPipe(r)] - 1 /\ pending'[r] = 1
      /\ content'[OutPipe(r)] = content[OutPipe(r)]
      /\ \A q \in Request : q # r => pending'[q] = pending[q]
      /\ \A p \in Pipes : p # InPipe(r) => content'[p] = content[p]
  BY <1>2, <1>3 DEF TypeOK
<1>6. TypeOK'
  <2>1. content' \in [Pipes -> Nat] /\ pending' \in [Request -> 0 .. 1]
    BY <1>2, <1>3 DEF TypeOK
  <2> QED BY <1>2, <1>3, <1>4, <2>1 DEF TypeOK
<1>7. DescriptorsOpen(t, r)'
  BY <1>2, <1>3, <1>4 DEF DescriptorsOpen
<1>8. LinesAccountedFor(t, r)'
  BY <1>2, <1>3, <1>4, <1>5 DEF LinesAccountedFor, Lines, Untouched
<1> QED BY <1>1, <1>3, <1>5, <1>6, <1>7, <1>8, ChildStepWithin

LEMMA Addr2lineWriteStep ==
  ASSUME Inv, NEW r \in Request, addr2line_write(r)
  PROVE  Inv'
<1>1. PICK t \in Threads : Busy(t) /\ Current(t) = r
  BY ChildOfBusy DEF addr2line_write
<1>2. /\ TypeOK /\ DescriptorsOpen(t, r) /\ LinesAccountedFor(t, r)
      /\ InPipe(r) \in Pipes /\ OutPipe(r) \in Pipes /\ InPipe(r) # OutPipe(r)
      /\ todo[t] \in Nat /\ output[t] \in Nat /\ pending[r] \in 0 .. 1
      /\ content[InPipe(r)] \in Nat /\ content[OutPipe(r)] \in Nat
      /\ Lines \in Nat
  BY <1>1, ChildAt
<1>3. /\ child[r] = "running" /\ pending[r] = 1
      /\ content' = [content EXCEPT ![OutPipe(r)] = content[OutPipe(r)] + 1]
      /\ pending' = [pending EXCEPT ![r] = 0]
      /\ UNCHANGED <<has, thread, fds>> /\ child' = child /\ child_fds' = child_fds
  BY <1>2 DEF addr2line_write
<1>4. /\ setting' = setting /\ pc' = pc /\ number' = number /\ todo' = todo
      /\ output' = output /\ answered' = answered /\ fds' = fds
  BY <1>3 DEF has, thread
<1>5. /\ content'[OutPipe(r)] = content[OutPipe(r)] + 1 /\ pending'[r] = 0
      /\ content'[InPipe(r)] = content[InPipe(r)]
      /\ \A q \in Request : q # r => pending'[q] = pending[q]
      /\ \A p \in Pipes : p # OutPipe(r) => content'[p] = content[p]
  BY <1>2, <1>3 DEF TypeOK
<1>6. TypeOK'
  <2>1. content' \in [Pipes -> Nat] /\ pending' \in [Request -> 0 .. 1]
    BY <1>2, <1>3 DEF TypeOK
  <2> QED BY <1>2, <1>3, <1>4, <2>1 DEF TypeOK
<1>7. DescriptorsOpen(t, r)'
  BY <1>2, <1>3, <1>4 DEF DescriptorsOpen
<1>8. LinesAccountedFor(t, r)'
  BY <1>2, <1>3, <1>4, <1>5 DEF LinesAccountedFor, Lines, Untouched
<1> QED BY <1>1, <1>3, <1>5, <1>6, <1>7, <1>8, ChildStepWithin

-----------------------------------------------------------------------------
LEMMA NextInv == Inv /\ [Next]_vars => Inv'
<1> SUFFICES ASSUME Inv, [Next]_vars PROVE Inv'
  OBVIOUS
<1>1. ASSUME NEW t \in Threads, resolve_frames(t) \/ ThreadStep(t) PROVE Inv'
  BY <1>1, ResolveFramesStep, MakePipeStep, MakePipeFailsStep, ForkStep, ForkFailsStep,
     WriteStep, CloseStep, ReadStep, WaitStep, NextStep DEF ThreadStep
<1>2. ASSUME NEW r \in Request, ChildStep(r) PROVE Inv'
  BY <1>2, ExecStep, ExecFailsStep, Addr2lineReadStep, Addr2lineWriteStep, EofStep
     DEF ChildStep
<1>3. CASE UNCHANGED vars
  <2>1. /\ setting' = setting /\ UNCHANGED <<children, answered, content, fds>>
        /\ UNCHANGED <<pc, number, todo, output>>
    BY <1>3 DEF vars, has, thread
  <2>2. TypeOK'
    BY <2>1 DEF Inv, TypeOK, children
  <2>3. ASSUME NEW t \in Threads PROVE ThreadInv(t)'
    BY <2>1, NothingElse, RequestOf, Unaffected DEF Inv, SameThread
  <2> QED BY <2>2, <2>3 DEF Inv
<1> QED BY <1>1, <1>2, <1>3 DEF Next

\* The invariant, whatever the threads, their requests, the capacity of the
\* pipes and the interleaving of forks, reads, writes and exits.
THEOREM Invariance == Spec => []Inv
BY InitInv, NextInv, PTL DEF Spec

\* No answer is cut short: what a finished request got is a line for each of
\* its addresses, or nothing if the child could not run addr2line.
THEOREM AnswersAreComplete == Spec => []AnswerIsWhole
<1>1. Inv => AnswerIsWhole
  BY DEF Inv, ThreadInv, AnswerIsWhole
<1> QED BY <1>1, Invariance, PTL

\* Between requests no descriptor is open and no child unreaped, but for the
\* requests that failed before they had a child.
THEOREM DescriptorsAreClosed == Spec => []NothingLeaks
<1>1. Inv => NothingLeaks
  BY DEF Inv, ThreadInv, OthersAtRest, Over, NothingLeaks
<1> QED BY <1>1, Invariance, PTL

-----------------------------------------------------------------------------
\* dbghelp: sessions.
Owned == {make_owned(h, TRUE) : h \in Handles} \cup {make_owned(Proc, FALSE)}
NotOwned == {make_not_owned(h) : h \in Handles \cup {Proc}}
Places == {"idle", "ensure", "initialize", "keep", "use", "load"}
CallerStates == [at : Places, op : {"none", "resolve", "unwind", "load"},
                 info : Owned \cup NotOwned \cup {NoInfo}, module : Modules \cup {Program}]

DbghelpTypeOK ==
  /\ mode \in {"speed", "memory"}
  /\ {Program} \cup announced \subseteq loaded
  /\ loaded \subseteq Modules \cup {Program}
  /\ cache \in Owned \cup {NoInfo}
  /\ caller \in [Callers -> CallerStates]

\* The sessions and handles that end with an info.
Session(info) == IF info.cleanup THEN {info.handle} ELSE {}
Duplicate(info) == IF info.close THEN {info.handle} ELSE {}

\* The info of a thread in load_symbols_for_file has been destroyed.
Held(t) == IF at(t, "load") THEN NoInfo ELSE caller[t].info

\* An info is the owner of a session that is not the cache's, or looks at that.
HasOwn(t) == caller[t].info \in Owned /\ caller[t].info.handle # cache.handle
SharesCached(t) == cache \in Owned /\ caller[t].info = make_not_owned(cache.handle)

InfoInv(t) ==
  /\ at(t, "idle") => caller[t] = Idle
  /\ at(t, "ensure") \/ at(t, "initialize") => caller[t].info = NoInfo
  /\ at(t, "keep") => HasOwn(t)
  /\ at(t, "use") \/ at(t, "load") => HasOwn(t) \/ SharesCached(t)

LockInv(t) ==
  lock = CASE at(t, "idle") -> [owner |-> None, depth |-> 0]
           [] at(t, "initialize") \/ at(t, "keep") -> [owner |-> t, depth |-> 2]
           [] OTHER -> [owner |-> t, depth |-> 1]

SessionInv(t) ==
  /\ DOMAIN sessions = Session(cache) \cup Session(Held(t))
  /\ open = Duplicate(cache) \cup Duplicate(Held(t))

\* t is the only thread that may be in dbghelp.
Only(t) ==
  /\ \A u \in Callers \ {t} : caller[u] = Idle
  /\ InfoInv(t) /\ LockInv(t) /\ SessionInv(t)

\* A session knows what was loaded when it began and what was announced.
KnownInv == \A h \in DOMAIN sessions : {Program} \cup announced \subseteq sessions[h] /\ sessions[h] \subseteq loaded

\* What is to be loaded is there.
ModuleInv == \A t \in Callers : caller[t].module \in loaded

DbghelpInv == DbghelpTypeOK /\ KnownInv /\ ModuleInv /\ \E t \in Callers : Only(t)
-----------------------------------------------------------------------------
LEMMA OwnedApart ==
  /\ \A i \in Owned : /\ i.cleanup /\ i.handle \in Handles \cup {Proc}
                      /\ i.close = (i.handle # Proc) /\ i \notin NotOwned /\ i # NoInfo
                      /\ i = [handle |-> i.handle, cleanup |-> TRUE, close |-> i.handle # Proc]
  /\ \A i \in NotOwned : ~i.cleanup /\ ~i.close /\ i.handle \in Handles \cup {Proc} /\ i # NoInfo
  /\ ~NoInfo.cleanup /\ ~NoInfo.close /\ NoInfo.handle = None
  /\ None \notin Handles /\ None # Proc /\ None \notin Callers /\ Proc \notin Handles
<1>1. None \notin Handles /\ None # Proc /\ None \notin Callers /\ Proc \notin Handles
  BY DbghelpAssumption
<1>2. ASSUME NEW i \in Owned
      PROVE  /\ i.cleanup /\ i.handle \in Handles \cup {Proc}
             /\ i.close = (i.handle # Proc)
             /\ i = [handle |-> i.handle, cleanup |-> TRUE, close |-> i.handle # Proc]
  <2>1. CASE i = make_owned(Proc, FALSE)
    BY <2>1 DEF make_owned
  <2>2. ASSUME NEW h \in Handles, i = make_owned(h, TRUE)
        PROVE  /\ i.cleanup /\ i.handle \in Handles
               /\ i.close = (i.handle # Proc)
               /\ i = [handle |-> i.handle, cleanup |-> TRUE, close |-> i.handle # Proc]
    <3>1. h # Proc /\ i.handle = h
      BY <1>1, <2>2 DEF make_owned
    <3> QED BY <2>2, <3>1 DEF make_owned
  <2> QED BY <2>1, <2>2 DEF Owned
<1>3. ASSUME NEW i \in NotOwned
      PROVE  ~i.cleanup /\ ~i.close /\ i.handle \in Handles \cup {Proc}
  BY DEF NotOwned, make_not_owned
<1>4. ~NoInfo.cleanup /\ ~NoInfo.close /\ NoInfo.handle = None
  BY DEF NoInfo
<1> HIDE DEF None
<1>5. NoInfo \notin Owned /\ NoInfo \notin NotOwned
  <2>1. \A i \in Owned \cup NotOwned : i.handle # None
    BY <1>1, <1>2, <1>3
  <2> QED BY <2>1, <1>4
<1>6. \A i \in Owned : i \notin NotOwned
  BY <1>2, <1>3
<1> QED BY <1>1, <1>2, <1>3, <1>4, <1>5, <1>6

\* Any thread that is in dbghelp is that one, and if none is it may be any.
LEMMA OnlyOne ==
  ASSUME NEW t \in Callers, NEW u \in Callers, DbghelpTypeOK, Only(t),
         ~at(u, "idle") \/ lock.depth = 0 \/ lock.owner = u
  PROVE  Only(u)
<1>1. CASE u = t
  BY <1>1
<1>2. CASE u # t
  <2>1. caller[u] = Idle /\ at(u, "idle")
    BY <1>2 DEF Only, at, Idle
  <2>2. at(t, "idle")
    BY <1>2, <2>1, OwnedApart DEF Only, LockInv, at
  <2>3. caller[t] = Idle
    BY <2>2 DEF Only, InfoInv
  <2>4. Held(t) = NoInfo /\ Held(u) = NoInfo
    BY <2>1, <2>3 DEF Held, Idle, at
  <2>5. ~at(u, "ensure") /\ ~at(u, "initialize") /\ ~at(u, "keep") /\ ~at(u, "use") /\ ~at(u, "load")
    BY <2>1 DEF at, Idle
  <2> QED BY <2>1, <2>2, <2>3, <2>4, <2>5 DEF Only, InfoInv, LockInv, SessionInv
<1> QED BY <1>1, <1>2
LEMMA Moves ==
  ASSUME NEW t \in Callers, NEW c \in CallerStates, DbghelpTypeOK, Only(t),
         caller' = [caller EXCEPT ![t] = c]
  PROVE  /\ caller' \in [Callers -> CallerStates] /\ caller'[t] = c
         /\ InfoInv(t)' /\ LockInv(t)' /\ SessionInv(t)' => Only(t)'
<1>1. caller \in [Callers -> CallerStates]
  BY DEF DbghelpTypeOK
<1>2. caller' \in [Callers -> CallerStates] /\ caller'[t] = c /\ \A u \in Callers \ {t} : caller'[u] = caller[u]
  BY <1>1
<1>3. \A u \in Callers \ {t} : caller'[u] = Idle
  BY <1>2 DEF Only
<1> QED BY <1>2, <1>3 DEF Only

DbghelpStep(t) == DbghelpTypeOK' /\ KnownInv' /\ Only(t)'

LEMMA BeginStep ==
  ASSUME NEW t \in Callers, DbghelpTypeOK, KnownInv, Only(t), begin(t)
  PROVE  DbghelpStep(t)
<1>1. caller[t] = Idle /\ lock = [owner |-> None, depth |-> 0] /\ lock' = [owner |-> t, depth |-> 1]
  BY OwnedApart DEF begin, get_dbghelp_lock, Only, InfoInv, LockInv, at
<1>2. PICK c \in CallerStates : /\ caller' = [caller EXCEPT ![t] = c]
                                /\ c.at = "ensure" /\ c.info = NoInfo
  <2>1. caller \in [Callers -> CallerStates] /\ loaded \subseteq Modules \cup {Program}
    BY DEF DbghelpTypeOK
  <2>2. CASE \E op \in {"resolve", "unwind"} :
               caller' = [caller EXCEPT ![t].at = "ensure", ![t].op = op]
    <3>1. PICK op \in {"resolve", "unwind"} :
            caller' = [caller EXCEPT ![t].at = "ensure", ![t].op = op]
      BY <2>2
    <3> DEFINE c == [Idle EXCEPT !.at = "ensure", !.op = op]
    <3>2. c \in CallerStates /\ c.at = "ensure" /\ c.info = NoInfo
      BY DEF Idle, CallerStates, Places
    <3>3. caller' = [caller EXCEPT ![t] = c]
      BY <1>1, <2>1, <3>1
    <3> QED BY <3>2, <3>3
  <2>3. CASE \E module \in loaded \ {Program} :
               caller' = [caller EXCEPT ![t].at = "ensure", ![t].op = "load", ![t].module = module]
    <3>1. PICK module \in loaded \ {Program} :
            caller' = [caller EXCEPT ![t].at = "ensure", ![t].op = "load", ![t].module = module]
      BY <2>3
    <3> DEFINE c == [Idle EXCEPT !.at = "ensure", !.op = "load", !.module = module]
    <3>2. c \in CallerStates /\ c.at = "ensure" /\ c.info = NoInfo
      BY <2>1 DEF Idle, CallerStates, Places
    <3>3. caller' = [caller EXCEPT ![t] = c]
      BY <1>1, <2>1, <3>1
    <3> QED BY <3>2, <3>3
  <2> QED BY <2>2, <2>3 DEF begin
<1>3. UNCHANGED <<mode, loaded, open, sessions, cache, announced>>
  BY DEF begin
<1>4. /\ caller' \in [Callers -> CallerStates] /\ caller'[t] = c
      /\ InfoInv(t)' /\ LockInv(t)' /\ SessionInv(t)' => Only(t)'
  BY <1>2, Moves
<1>5. InfoInv(t)' /\ LockInv(t)'
  BY <1>1, <1>2, <1>4 DEF InfoInv, LockInv, at
<1>6. Held(t)' = NoInfo /\ Held(t) = NoInfo
  BY <1>1, <1>2, <1>4 DEF Held, at, Idle
<1>7. SessionInv(t)'
  BY <1>3, <1>6 DEF Only, SessionInv
<1> QED BY <1>3, <1>4, <1>5, <1>7 DEF DbghelpStep, DbghelpTypeOK, KnownInv

LEMMA EnsureStep ==
  ASSUME NEW t \in Callers, DbghelpTypeOK, KnownInv, Only(t), ensure_syminit(t)
  PROVE  DbghelpStep(t)
<1>1. /\ at(t, "ensure") /\ caller[t] \in CallerStates /\ caller[t].info = NoInfo
      /\ lock = [owner |-> t, depth |-> 1] /\ ~at(t, "load")
  BY DEF ensure_syminit, Only, InfoInv, LockInv, DbghelpTypeOK, at
<1>2. UNCHANGED <<mode, loaded, open, sessions, cache, announced>>
  BY DEF ensure_syminit
<1>3. Held(t) = NoInfo
  BY <1>1 DEF Held
<1>4. CASE mode = "speed" /\ cache # NoInfo
  <2>1. cache \in Owned /\ make_not_owned(cache.handle) \in NotOwned
    BY <1>4, OwnedApart DEF DbghelpTypeOK, NotOwned
  <2> DEFINE c == [caller[t] EXCEPT !.at = "use", !.info = make_not_owned(cache.handle)]
  <2>2. c \in CallerStates /\ c.at = "use" /\ c.info = make_not_owned(cache.handle)
    BY <1>1, <2>1 DEF CallerStates, Places
  <2>3. caller' = [caller EXCEPT ![t] = c] /\ lock' = lock
    BY <1>4, <2>2 DEF ensure_syminit, use, DbghelpTypeOK
  <2> HIDE DEF c
  <2>4. /\ caller' \in [Callers -> CallerStates] /\ caller'[t] = c
        /\ (InfoInv(t)' /\ LockInv(t)' /\ SessionInv(t)' => Only(t)')
    BY <2>2, <2>3, Moves
  <2>5. InfoInv(t)' /\ LockInv(t)'
    BY <1>1, <1>2, <2>1, <2>2, <2>3, <2>4 DEF InfoInv, LockInv, at, SharesCached
  <2>6. SessionInv(t)'
    <3>1. Held(t)' = make_not_owned(cache.handle)
      BY <2>2, <2>4 DEF Held, at
    <3>2. Session(Held(t)') = {} /\ Session(NoInfo) = {} /\ Duplicate(Held(t)') = {} /\ Duplicate(NoInfo) = {}
      BY <3>1 DEF Session, Duplicate, NoInfo, make_not_owned
    <3> QED BY <1>2, <1>3, <3>2 DEF Only, SessionInv, Session, Duplicate
  <2> QED BY <1>2, <2>4, <2>5, <2>6 DEF DbghelpStep, DbghelpTypeOK, KnownInv
<1>5. CASE ~(mode = "speed" /\ cache # NoInfo)
  <2> DEFINE c == [caller[t] EXCEPT !.at = "initialize"]
  <2>2. c \in CallerStates /\ c.at = "initialize" /\ c.info = NoInfo
    BY <1>1 DEF CallerStates, Places
  <2>3. caller' = [caller EXCEPT ![t] = c] /\ lock' = [owner |-> t, depth |-> 2]
    BY <1>1, <1>5, <2>2 DEF ensure_syminit, go, DbghelpTypeOK, get_dbghelp_lock
  <2> HIDE DEF c
  <2>4. /\ caller' \in [Callers -> CallerStates] /\ caller'[t] = c
        /\ (InfoInv(t)' /\ LockInv(t)' /\ SessionInv(t)' => Only(t)')
    BY <2>2, <2>3, Moves
  <2>5. InfoInv(t)' /\ LockInv(t)'
    BY <1>1, <1>2, <2>2, <2>3, <2>4 DEF InfoInv, LockInv, at
  <2>6. SessionInv(t)'
    <3>1. Held(t)' = NoInfo
      BY <2>2, <2>4 DEF Held, at
    <3> QED BY <1>2, <1>3, <3>1 DEF Only, SessionInv
  <2> QED BY <1>2, <2>4, <2>5, <2>6 DEF DbghelpStep, DbghelpTypeOK, KnownInv
<1> QED BY <1>4, <1>5

\* What an exception, or the end of load_symbols_for_file, leaves behind.
LEMMA FailStep ==
  ASSUME NEW t \in Callers, DbghelpTypeOK, Only(t), fail(t), UNCHANGED cache,
         DOMAIN sessions' = Session(cache), open' = Duplicate(cache)
  PROVE  caller' \in [Callers -> CallerStates] /\ Only(t)'
<1>1. Idle \in CallerStates
  BY DEF Idle, CallerStates, Places
<1>2. /\ caller' \in [Callers -> CallerStates] /\ caller'[t] = Idle
      /\ InfoInv(t)' /\ LockInv(t)' /\ SessionInv(t)' => Only(t)'
  BY <1>1, Moves DEF fail
<1>3. InfoInv(t)' /\ LockInv(t)'
  BY <1>2 DEF InfoInv, LockInv, fail, Idle, at
<1>4. Held(t)' = NoInfo
  BY <1>2 DEF Held, Idle, at
<1>5. SessionInv(t)'
  BY <1>4 DEF SessionInv, Session, Duplicate, NoInfo
<1> QED BY <1>2, <1>3, <1>5

\* An info that goes leaves the session that is the cache's, and only that.
LEMMA Released ==
  ASSUME NEW t \in Callers, DbghelpTypeOK, KnownInv, Only(t), at(t, "keep") \/ at(t, "use"),
         release(caller[t].info)
  PROVE  /\ DOMAIN sessions' = Session(cache) /\ open' = Duplicate(cache)
         /\ DOMAIN sessions' \subseteq DOMAIN sessions
         /\ \A h \in DOMAIN sessions' : sessions'[h] = sessions[h]
<1> DEFINE info == caller[t].info
<1>1. Held(t) = info /\ (HasOwn(t) \/ SharesCached(t))
  BY DEF Held, at, Only, InfoInv
<1>2. /\ DOMAIN sessions = Session(cache) \cup Session(info)
      /\ open = Duplicate(cache) \cup Duplicate(info)
  BY <1>1 DEF Only, SessionInv
<1>3. /\ sessions' = [h \in DOMAIN sessions \ (IF info.cleanup THEN {info.handle} ELSE {}) |-> sessions[h]]
      /\ open' = IF info.close THEN open \ {info.handle} ELSE open
  BY DEF release
<1>4. CASE HasOwn(t)
  <2>1. info.handle # cache.handle
    BY <1>4 DEF HasOwn
  <2> HIDE DEF info
  <2> QED BY <1>2, <1>3, <2>1 DEF Session, Duplicate
<1>5. CASE SharesCached(t)
  <2>1. ~info.cleanup /\ ~info.close
    BY <1>5 DEF SharesCached, make_not_owned
  <2> HIDE DEF info
  <2> QED BY <1>2, <1>3, <2>1 DEF Session, Duplicate
<1> QED BY <1>1, <1>4, <1>5

LEMMA InitializeStep ==
  ASSUME NEW t \in Callers, DbghelpTypeOK, KnownInv, Only(t), sym_initialize(t)
  PROVE  DbghelpStep(t)
<1>1. /\ at(t, "initialize") /\ caller[t] \in CallerStates /\ caller[t].info = NoInfo
      /\ lock = [owner |-> t, depth |-> 2] /\ Held(t) = NoInfo
  BY DEF sym_initialize, Only, InfoInv, LockInv, DbghelpTypeOK, at, Held
<1>2. UNCHANGED <<mode, loaded, cache, announced>>
  BY DEF sym_initialize
<1>3. DOMAIN sessions = Session(cache) /\ open = Duplicate(cache)
  BY <1>1 DEF Only, SessionInv, Session, Duplicate, NoInfo
<1>4. cache.handle = None \/ (cache \in Owned /\ cache.handle \in DOMAIN sessions)
  BY <1>3, OwnedApart DEF DbghelpTypeOK, Session
<1>5. ASSUME NEW i \in Owned, i.handle \notin DOMAIN sessions, UNCHANGED lock,
             caller' = [caller EXCEPT ![t].at = "keep", ![t].info = i],
             begin_session(i.handle),
             open' = open \cup Duplicate(i)
      PROVE  DbghelpStep(t)
  <2> DEFINE c == [caller[t] EXCEPT !.at = "keep", !.info = i]
  <2>2. c \in CallerStates /\ c.at = "keep" /\ c.info = i
    BY <1>1 DEF CallerStates, Places
  <2>3. caller' = [caller EXCEPT ![t] = c]
    BY <1>5 DEF DbghelpTypeOK
  <2> HIDE DEF c
  <2>4. /\ caller' \in [Callers -> CallerStates] /\ caller'[t] = c
        /\ (InfoInv(t)' /\ LockInv(t)' /\ SessionInv(t)' => Only(t)')
    BY <2>2, <2>3, Moves
  <2>5. InfoInv(t)' /\ LockInv(t)'
    <3>1. i.handle # cache.handle
      BY <1>4, <1>5, OwnedApart
    <3> QED BY <1>1, <1>2, <1>5, <2>2, <2>4, <3>1 DEF InfoInv, LockInv, at, HasOwn
  <2>6. DOMAIN sessions' = DOMAIN sessions \cup {i.handle}
    BY <1>5 DEF begin_session
  <2>7. \A h \in DOMAIN sessions' : sessions'[h] = IF h = i.handle THEN loaded ELSE sessions[h]
    BY <1>5 DEF begin_session
  <2>8. SessionInv(t)'
    <3>1. Held(t)' = i
      BY <2>2, <2>4 DEF Held, at
    <3>2. Session(i) = {i.handle}
      BY OwnedApart DEF Session
    <3> QED BY <1>2, <1>3, <1>5, <2>6, <3>1, <3>2 DEF SessionInv, Session, Duplicate
  <2>9. KnownInv'
    BY <1>2, <2>6, <2>7 DEF KnownInv, DbghelpTypeOK
  <2> QED BY <1>2, <2>4, <2>5, <2>8, <2>9 DEF DbghelpStep, DbghelpTypeOK
<1>6. ASSUME NEW h \in Handles \ open, open' = open \cup {h}, begin_session(h),
             caller' = [caller EXCEPT ![t].at = "keep", ![t].info = make_owned(h, TRUE)],
             UNCHANGED <<lock, last>>
      PROVE  DbghelpStep(t)
  <2>1. make_owned(h, TRUE) \in Owned /\ make_owned(h, TRUE).handle = h
    BY DEF Owned, make_owned
  <2>2. Duplicate(make_owned(h, TRUE)) = {h}
    BY DEF Duplicate, make_owned
  <2>3. h \notin DOMAIN sessions
    BY <1>3, OwnedApart DEF DbghelpTypeOK, Session, Duplicate
  <2> QED BY <1>5, <1>6, <2>1, <2>2, <2>3
<1>7. ASSUME Proc \notin DOMAIN sessions, begin_session(Proc),
             caller' = [caller EXCEPT ![t].at = "keep", ![t].info = make_owned(Proc, FALSE)],
             UNCHANGED <<open, lock, last>>
      PROVE  DbghelpStep(t)
  <2>1. make_owned(Proc, FALSE) \in Owned /\ make_owned(Proc, FALSE).handle = Proc
    BY DEF Owned, make_owned
  <2>2. Duplicate(make_owned(Proc, FALSE)) = {}
    BY DEF Duplicate, make_owned
  <2> QED BY <1>5, <1>7, <2>1, <2>2
<1>8. ASSUME fail(t), UNCHANGED <<open, sessions>>
      PROVE  DbghelpStep(t)
  <2>1. caller' \in [Callers -> CallerStates] /\ Only(t)'
    BY <1>2, <1>3, <1>8, FailStep
  <2> QED BY <1>2, <1>8, <2>1 DEF DbghelpStep, DbghelpTypeOK, KnownInv
<1> QED BY <1>6, <1>7, <1>8 DEF sym_initialize

LEMMA KeepStep ==
  ASSUME NEW t \in Callers, DbghelpTypeOK, KnownInv, Only(t), keep_session(t)
  PROVE  DbghelpStep(t)
<1>1. /\ at(t, "keep") /\ caller[t] \in CallerStates /\ HasOwn(t)
      /\ lock = [owner |-> t, depth |-> 2] /\ Held(t) = caller[t].info
  BY DEF keep_session, Only, InfoInv, LockInv, DbghelpTypeOK, at, Held
<1>2. UNCHANGED <<mode, loaded, announced>>
  BY DEF keep_session
<1>3. CASE mode # "speed"
  <2>1. UNCHANGED <<open, sessions, cache>> /\ use(t, caller[t].info) /\ unlock
    BY <1>3 DEF keep_session
  <2> DEFINE c == [caller[t] EXCEPT !.at = "use"]
  <2>2. c \in CallerStates /\ c.at = "use" /\ c.info = caller[t].info
    BY <1>1 DEF CallerStates, Places
  <2>3. caller' = [caller EXCEPT ![t] = c]
    BY <2>1 DEF DbghelpTypeOK, use, CallerStates
  <2> HIDE DEF c
  <2>4. /\ caller' \in [Callers -> CallerStates] /\ caller'[t] = c
        /\ (InfoInv(t)' /\ LockInv(t)' /\ SessionInv(t)' => Only(t)')
    BY <2>2, <2>3, Moves
  <2>5. InfoInv(t)' /\ LockInv(t)'
    BY <1>1, <2>1, <2>2, <2>4 DEF InfoInv, LockInv, at, HasOwn, unlock
  <2>6. Held(t)' = Held(t)
    BY <1>1, <2>2, <2>4 DEF Held, at
  <2>7. SessionInv(t)'
    BY <2>1, <2>6 DEF Only, SessionInv
  <2> QED BY <1>2, <2>1, <2>4, <2>5, <2>7 DEF DbghelpStep, DbghelpTypeOK, KnownInv
<1>4. CASE mode = "speed" /\ cache # NoInfo
  <2>1. release(caller[t].info) /\ fail(t) /\ UNCHANGED cache
    BY <1>4 DEF keep_session
  <2>2. /\ DOMAIN sessions' = Session(cache) /\ open' = Duplicate(cache)
        /\ DOMAIN sessions' \subseteq DOMAIN sessions
        /\ \A h \in DOMAIN sessions' : sessions'[h] = sessions[h]
    BY <1>1, <2>1, Released
  <2>3. caller' \in [Callers -> CallerStates] /\ Only(t)'
    BY <2>1, <2>2, FailStep
  <2> QED BY <1>2, <2>1, <2>2, <2>3 DEF DbghelpStep, DbghelpTypeOK, KnownInv
<1>5. CASE mode = "speed" /\ cache = NoInfo
  <2>1. /\ cache' = caller[t].info /\ use(t, make_not_owned(caller[t].info.handle))
        /\ unlock /\ UNCHANGED <<open, sessions>>
    BY <1>5 DEF keep_session
  <2> DEFINE c == [caller[t] EXCEPT !.at = "use", !.info = make_not_owned(caller[t].info.handle)]
  <2>2. caller[t].info \in Owned
    BY <1>1 DEF HasOwn
  <2>3. c \in CallerStates /\ c.at = "use" /\ c.info = make_not_owned(caller[t].info.handle)
    <3>1. make_not_owned(caller[t].info.handle) \in NotOwned
      BY <2>2, OwnedApart DEF NotOwned
    <3> QED BY <1>1, <3>1 DEF CallerStates, Places
  <2>4. caller' = [caller EXCEPT ![t] = c]
    BY <2>1 DEF DbghelpTypeOK, use, CallerStates
  <2> HIDE DEF c
  <2>5. /\ caller' \in [Callers -> CallerStates] /\ caller'[t] = c
        /\ (InfoInv(t)' /\ LockInv(t)' /\ SessionInv(t)' => Only(t)')
    BY <2>3, <2>4, Moves
  <2>6. InfoInv(t)' /\ LockInv(t)'
    BY <1>1, <2>1, <2>2, <2>3, <2>5 DEF InfoInv, LockInv, at, SharesCached, unlock
  <2>7. SessionInv(t)'
    <3>1. Held(t)' = c.info
      BY <2>3, <2>5 DEF Held, at
    <3>2. ~c.info.cleanup /\ ~c.info.close
      BY <2>3 DEF make_not_owned
    <3>3. ~cache.cleanup /\ ~cache.close
      BY <1>5, OwnedApart
    <3> QED BY <1>1, <2>1, <3>1, <3>2, <3>3 DEF Only, SessionInv, Session, Duplicate
  <2> QED BY <1>2, <2>1, <2>2, <2>5, <2>6, <2>7 DEF DbghelpStep, DbghelpTypeOK, KnownInv
<1> QED BY <1>3, <1>4, <1>5

LEMMA ResolveStep ==
  ASSUME NEW t \in Callers, DbghelpTypeOK, KnownInv, Only(t), resolve_frame(t)
  PROVE  DbghelpStep(t)
<1>1. at(t, "use") /\ UNCHANGED <<mode, loaded, cache, announced>>
  BY DEF resolve_frame
<1>2. CASE UNCHANGED <<open, sessions, lock, caller>>
  BY <1>1, <1>2 DEF DbghelpStep, DbghelpTypeOK, KnownInv, Only, InfoInv, LockInv, SessionInv, at,
                    HasOwn, SharesCached, Held
<1>3. CASE release(caller[t].info) /\ fail(t)
  <2>1. /\ DOMAIN sessions' = Session(cache) /\ open' = Duplicate(cache)
        /\ DOMAIN sessions' \subseteq DOMAIN sessions
        /\ \A h \in DOMAIN sessions' : sessions'[h] = sessions[h]
    BY <1>1, <1>3, Released
  <2>2. caller' \in [Callers -> CallerStates] /\ Only(t)'
    BY <1>1, <1>3, <2>1, FailStep
  <2> QED BY <1>1, <2>1, <2>2 DEF DbghelpStep, DbghelpTypeOK, KnownInv
<1> QED BY <1>2, <1>3 DEF resolve_frame

LEMMA LoadStep ==
  ASSUME NEW t \in Callers, DbghelpTypeOK, KnownInv, Only(t), load_symbols(t)
  PROVE  DbghelpStep(t)
<1>1. /\ at(t, "use") /\ caller[t] \in CallerStates /\ (HasOwn(t) \/ SharesCached(t))
      /\ lock = [owner |-> t, depth |-> 1]
  BY DEF load_symbols, Only, InfoInv, LockInv, DbghelpTypeOK, at
<1>2. UNCHANGED <<mode, loaded, cache, announced, lock>> /\ release(caller[t].info)
  BY DEF load_symbols
<1>3. /\ DOMAIN sessions' = Session(cache) /\ open' = Duplicate(cache)
      /\ DOMAIN sessions' \subseteq DOMAIN sessions
      /\ \A h \in DOMAIN sessions' : sessions'[h] = sessions[h]
  BY <1>1, <1>2, Released
<1> DEFINE c == [caller[t] EXCEPT !.at = "load"]
<1>4. c \in CallerStates /\ c.at = "load" /\ c.info = caller[t].info
  BY <1>1 DEF CallerStates, Places
<1>5. caller' = [caller EXCEPT ![t] = c]
  BY DEF load_symbols, DbghelpTypeOK
<1> HIDE DEF c
<1>6. /\ caller' \in [Callers -> CallerStates] /\ caller'[t] = c
      /\ (InfoInv(t)' /\ LockInv(t)' /\ SessionInv(t)' => Only(t)')
  BY <1>4, <1>5, Moves
<1>7. InfoInv(t)' /\ LockInv(t)'
  BY <1>1, <1>2, <1>4, <1>6 DEF InfoInv, LockInv, at, HasOwn, SharesCached
<1>8. Held(t)' = NoInfo
  BY <1>4, <1>6 DEF Held, at
<1>9. SessionInv(t)'
  BY <1>2, <1>3, <1>8 DEF SessionInv, Session, Duplicate, NoInfo
<1> QED BY <1>2, <1>3, <1>6, <1>7, <1>9 DEF DbghelpStep, DbghelpTypeOK, KnownInv

LEMMA LoadModuleStep ==
  ASSUME NEW t \in Callers, DbghelpTypeOK, KnownInv, Only(t), sym_load_module(t),
         caller[t].module \in loaded
  PROVE  DbghelpStep(t)
<1>1. at(t, "load") /\ UNCHANGED <<mode, loaded, open, cache>> /\ fail(t)
  BY DEF sym_load_module
<1>2. Held(t) = NoInfo
  BY <1>1 DEF Held
<1>3. DOMAIN sessions = Session(cache) /\ open = Duplicate(cache)
  BY <1>2 DEF Only, SessionInv, Session, Duplicate, NoInfo
<1> DEFINE handle == caller[t].info.handle
<1>4. DOMAIN sessions' = DOMAIN sessions
  BY DEF sym_load_module
<1>5. caller' \in [Callers -> CallerStates] /\ Only(t)'
  BY <1>1, <1>3, <1>4, FailStep
<1>6. KnownInv' /\ {Program} \cup announced' \subseteq loaded
  <2>1. CASE handle \in DOMAIN sessions
    <3>1. /\ sessions' = [sessions EXCEPT ![handle] = @ \cup {caller[t].module}]
          /\ announced' = announced \cup {caller[t].module}
      BY <2>1 DEF sym_load_module
    \* There is no other session.
    <3>2. \A h \in DOMAIN sessions : h = handle
      BY <1>3, <2>1 DEF Session
    <3> HIDE DEF handle
    <3>3. \A h \in DOMAIN sessions : sessions'[h] = sessions[h] \cup {caller[t].module}
      BY <3>1, <3>2
    <3> QED BY <1>1, <1>4, <3>1, <3>3 DEF KnownInv, DbghelpTypeOK
  <2>2. CASE handle \notin DOMAIN sessions
    <3>1. UNCHANGED <<sessions, announced>>
      BY <2>2 DEF sym_load_module
    <3> QED BY <1>1, <3>1 DEF KnownInv, DbghelpTypeOK
  <2> QED BY <2>1, <2>2
<1> QED BY <1>1, <1>5, <1>6 DEF DbghelpStep, DbghelpTypeOK

LEMMA FinishStep ==
  ASSUME NEW t \in Callers, DbghelpTypeOK, KnownInv, Only(t), finish(t)
  PROVE  DbghelpStep(t)
<1>1. /\ at(t, "use") /\ lock = [owner |-> t, depth |-> 1]
      /\ UNCHANGED <<mode, loaded, cache, announced>>
      /\ release(caller[t].info) /\ caller' = [caller EXCEPT ![t] = Idle] /\ unlock
  BY DEF finish, Only, LockInv, at
<1>2. /\ DOMAIN sessions' = Session(cache) /\ open' = Duplicate(cache)
      /\ DOMAIN sessions' \subseteq DOMAIN sessions
      /\ \A h \in DOMAIN sessions' : sessions'[h] = sessions[h]
  BY <1>1, Released
<1>3. Idle \in CallerStates
  BY DEF Idle, CallerStates, Places
<1>4. /\ caller' \in [Callers -> CallerStates] /\ caller'[t] = Idle
      /\ (InfoInv(t)' /\ LockInv(t)' /\ SessionInv(t)' => Only(t)')
  BY <1>1, <1>3, Moves
<1>5. InfoInv(t)' /\ LockInv(t)'
  BY <1>1, <1>4 DEF InfoInv, LockInv, Idle, at, unlock
<1>6. Held(t)' = NoInfo
  BY <1>4 DEF Held, Idle, at
<1>7. SessionInv(t)'
  BY <1>1, <1>2, <1>6 DEF SessionInv, Session, Duplicate, NoInfo
<1> QED BY <1>1, <1>2, <1>4, <1>5, <1>7 DEF DbghelpStep, DbghelpTypeOK, KnownInv

\* What other threads do to the mode and the process, and the next frame.
LEMMA OutsideStep ==
  ASSUME NEW t \in Callers, DbghelpTypeOK, KnownInv, Only(t),
         UNCHANGED <<open, sessions, cache, lock, caller, announced>>,
         mode' \in {"speed", "memory"}, loaded \subseteq loaded',
         loaded' \subseteq Modules \cup {Program}
  PROVE  DbghelpStep(t)
BY DEF DbghelpStep, DbghelpTypeOK, KnownInv, Only, InfoInv, LockInv, SessionInv, at, HasOwn,
       SharesCached, Held

LEMMA ModuleStep ==
  ASSUME DbghelpTypeOK, ModuleInv, [DbghelpNext]_dbghelp_vars
  PROVE  ModuleInv'
<1>1. caller \in [Callers -> CallerStates] /\ Program \in loaded
  BY DEF DbghelpTypeOK
<1>2. ASSUME NEW t \in Callers, loaded' = loaded,
             \/ UNCHANGED caller
             \/ \E c : caller' = [caller EXCEPT ![t] = c] /\ c.module \in {caller[t].module} \cup loaded
      PROVE  ModuleInv'
  BY <1>1, <1>2 DEF ModuleInv
<1>3. ASSUME loaded \subseteq loaded', UNCHANGED caller
      PROVE  ModuleInv'
  BY <1>1, <1>3 DEF ModuleInv
<1>4. ASSUME NEW t \in Callers,
             \/ ensure_syminit(t) \/ sym_initialize(t) \/ keep_session(t)
             \/ resolve_frame(t) \/ next_frame(t) \/ load_symbols(t) \/ sym_load_module(t) \/ finish(t)
      PROVE  \/ UNCHANGED caller
             \/ \E c : caller' = [caller EXCEPT ![t] = c] /\ c.module \in {caller[t].module} \cup loaded
  <2>0. Idle.module \in loaded
    BY <1>1 DEF Idle
  <2>1. CASE fail(t) \/ finish(t)
    <3>1. caller' = [caller EXCEPT ![t] = Idle]
      BY <2>1 DEF fail, finish
    <3> QED BY <2>0, <3>1
  <2>2. ASSUME NEW place, caller' = [caller EXCEPT ![t].at = place]
        PROVE  \E c : caller' = [caller EXCEPT ![t] = c] /\ c.module \in {caller[t].module} \cup loaded
    <3> DEFINE c == [caller[t] EXCEPT !.at = place]
    <3>1. caller' = [caller EXCEPT ![t] = c] /\ c.module = caller[t].module
      BY <1>1, <2>2 DEF CallerStates
    <3> QED BY <3>1
  <2>3. ASSUME NEW place, NEW info, caller' = [caller EXCEPT ![t].at = place, ![t].info = info]
        PROVE  \E c : caller' = [caller EXCEPT ![t] = c] /\ c.module \in {caller[t].module} \cup loaded
    <3> DEFINE c == [caller[t] EXCEPT !.at = place, !.info = info]
    <3>1. caller' = [caller EXCEPT ![t] = c] /\ c.module = caller[t].module
      BY <1>1, <2>3 DEF CallerStates
    <3> QED BY <3>1
  <2>4. CASE ensure_syminit(t) \/ keep_session(t)
    BY <2>1, <2>2, <2>3, <2>4 DEF ensure_syminit, keep_session, use, go
  <2>5. CASE sym_initialize(t) \/ resolve_frame(t)
    BY <2>1, <2>3, <2>5 DEF sym_initialize, resolve_frame
  <2>6. CASE next_frame(t) \/ sym_load_module(t) \/ finish(t)
    BY <2>1, <2>6 DEF next_frame, sym_load_module
  <2>7. CASE load_symbols(t)
    BY <2>2, <2>7 DEF load_symbols
  <2> QED BY <1>4, <2>4, <2>5, <2>6, <2>7
<1>5. ASSUME NEW t \in Callers, begin(t) PROVE ModuleInv'
  <2>1. loaded' = loaded
    BY <1>5 DEF begin
  <2>2. ASSUME NEW op, caller' = [caller EXCEPT ![t].at = "ensure", ![t].op = op] PROVE ModuleInv'
    BY <1>1, <2>1, <2>2 DEF ModuleInv, CallerStates
  <2>3. ASSUME NEW module \in loaded,
               caller' = [caller EXCEPT ![t].at = "ensure", ![t].op = "load", ![t].module = module]
        PROVE ModuleInv'
    BY <1>1, <2>1, <2>3 DEF ModuleInv, CallerStates
  <2> QED BY <1>5, <2>2, <2>3 DEF begin
<1>6. ASSUME NEW t \in Callers,
             \/ ensure_syminit(t) \/ sym_initialize(t) \/ keep_session(t)
             \/ resolve_frame(t) \/ next_frame(t) \/ load_symbols(t) \/ sym_load_module(t) \/ finish(t)
      PROVE  loaded' = loaded
  BY <1>6 DEF ensure_syminit, sym_initialize, keep_session, resolve_frame, next_frame, load_symbols,
              sym_load_module, finish
<1>7. CASE set_cache_mode \/ load_library \/ UNCHANGED dbghelp_vars
  <2>1. loaded \subseteq loaded' /\ UNCHANGED caller
    BY <1>7 DEF set_cache_mode, load_library, dbghelp_vars
  <2> QED BY <1>3, <2>1
<1> QED BY <1>2, <1>4, <1>5, <1>6, <1>7 DEF DbghelpNext

LEMMA DbghelpInitInv == DbghelpInit => DbghelpInv
<1> SUFFICES ASSUME DbghelpInit PROVE DbghelpInv
  OBVIOUS
<1>1. PICK t \in Callers : TRUE
  BY DbghelpAssumption
<1>2. Idle \in CallerStates /\ Idle.module = Program /\ Idle.info = NoInfo /\ Idle.at = "idle"
  BY DEF Idle, CallerStates, Places
<1>3. /\ caller = [u \in Callers |-> Idle] /\ cache = NoInfo /\ loaded = {Program}
      /\ lock = [owner |-> None, depth |-> 0] /\ announced = {} /\ open = {} /\ sessions = <<>>
      /\ mode \in {"speed", "memory"}
  BY DEF DbghelpInit
<1>4. DbghelpTypeOK /\ ModuleInv
  BY <1>2, <1>3 DEF DbghelpTypeOK, ModuleInv
<1>5. DOMAIN sessions = {}
  BY <1>3
<1>6. Held(t) = NoInfo /\ Session(NoInfo) = {} /\ Duplicate(NoInfo) = {}
  BY <1>2, <1>3 DEF Held, Session, Duplicate, NoInfo
<1>7. Only(t)
  BY <1>2, <1>3, <1>5, <1>6 DEF Only, InfoInv, LockInv, SessionInv, at
<1>8. KnownInv
  BY <1>5 DEF KnownInv
<1> QED BY <1>4, <1>7, <1>8 DEF DbghelpInv

LEMMA DbghelpNextInv == DbghelpInv /\ [DbghelpNext]_dbghelp_vars => DbghelpInv'
<1> SUFFICES ASSUME DbghelpInv, [DbghelpNext]_dbghelp_vars PROVE DbghelpInv'
  OBVIOUS
<1>1. DbghelpTypeOK /\ KnownInv /\ ModuleInv
  BY DEF DbghelpInv
<1>2. PICK u \in Callers : Only(u)
  BY DEF DbghelpInv
<1>3. ModuleInv'
  BY <1>1, ModuleStep
<1>4. ASSUME NEW t \in Callers, DbghelpStep(t) PROVE DbghelpInv'
  BY <1>3, <1>4 DEF DbghelpStep, DbghelpInv
<1>5. ASSUME NEW t \in Callers, begin(t) PROVE DbghelpInv'
  <2>1. Only(t)
    BY <1>1, <1>2, <1>5, OnlyOne DEF begin, get_dbghelp_lock
  <2> QED BY <1>1, <1>4, <1>5, <2>1, BeginStep
<1>6. ASSUME NEW t \in Callers, ~at(t, "idle") PROVE Only(t)
  BY <1>1, <1>2, <1>6, OnlyOne
<1>7. ASSUME NEW t \in Callers, ensure_syminit(t) PROVE DbghelpInv'
  BY <1>1, <1>4, <1>6, <1>7, EnsureStep DEF ensure_syminit, at
<1>8. ASSUME NEW t \in Callers, sym_initialize(t) PROVE DbghelpInv'
  BY <1>1, <1>4, <1>6, <1>8, InitializeStep DEF sym_initialize, at
<1>9. ASSUME NEW t \in Callers, keep_session(t) PROVE DbghelpInv'
  BY <1>1, <1>4, <1>6, <1>9, KeepStep DEF keep_session, at
<1>10. ASSUME NEW t \in Callers, resolve_frame(t) PROVE DbghelpInv'
  BY <1>1, <1>4, <1>6, <1>10, ResolveStep DEF resolve_frame, at
<1>11. ASSUME NEW t \in Callers, load_symbols(t) PROVE DbghelpInv'
  BY <1>1, <1>4, <1>6, <1>11, LoadStep DEF load_symbols, at
<1>12. ASSUME NEW t \in Callers, sym_load_module(t) PROVE DbghelpInv'
  BY <1>1, <1>4, <1>6, <1>12, LoadModuleStep DEF sym_load_module, at, ModuleInv
<1>13. ASSUME NEW t \in Callers, finish(t) PROVE DbghelpInv'
  BY <1>1, <1>4, <1>6, <1>13, FinishStep DEF finish, at
<1>14. CASE set_cache_mode \/ load_library \/ UNCHANGED dbghelp_vars \/ \E t \in Callers : next_frame(t)
  <2>1. /\ UNCHANGED <<open, sessions, cache, lock, caller, announced>>
        /\ mode' \in {"speed", "memory"} /\ loaded \subseteq loaded'
        /\ loaded' \subseteq Modules \cup {Program}
    BY <1>1, <1>14 DEF set_cache_mode, load_library, dbghelp_vars, next_frame, DbghelpTypeOK
  <2> QED BY <1>1, <1>2, <1>4, <2>1, OutsideStep
<1> QED BY <1>5, <1>7, <1>8, <1>9, <1>10, <1>11, <1>12, <1>13, <1>14 DEF DbghelpNext

\* The session each thread has, and what the cache has, stay as the invariant
\* says, for any threads, handles and failures.
THEOREM DbghelpInvariant == DbghelpSpec => []DbghelpInv
BY DbghelpInitInv, DbghelpNextInv, PTL DEF DbghelpSpec

LEMMA InvIsSound == DbghelpInv => SessionsAreSound
<1> SUFFICES ASSUME DbghelpInv PROVE SessionsAreSound
  OBVIOUS
<1>1. PICK t \in Callers : Only(t)
  BY DEF DbghelpInv
<1> DEFINE in == {u \in Callers : ~at(u, "idle")}
           infos == {cache} \cup {caller[u].info : u \in {u \in in : ~at(u, "load")}}
           owners == {i \in infos : i.cleanup}
<1>2. caller \in [Callers -> CallerStates] /\ cache \in Owned \cup {NoInfo}
  BY DEF DbghelpInv, DbghelpTypeOK
<1>3. in = IF at(t, "idle") THEN {} ELSE {t}
  BY <1>1 DEF Only, at, Idle
<1>4. /\ DOMAIN sessions = Session(cache) \cup Session(Held(t))
      /\ open = Duplicate(cache) \cup Duplicate(Held(t))
  BY <1>1 DEF Only, SessionInv
<1>5. ~NoInfo.cleanup /\ ~NoInfo.close
  BY DEF NoInfo
<1>6. at(t, "idle") => caller[t].info = NoInfo
  BY <1>1 DEF Only, InfoInv, Idle
<1>7. infos = {cache} \cup (IF at(t, "idle") \/ at(t, "load") THEN {} ELSE {caller[t].info})
  BY <1>3
<1>8. Held(t) = IF at(t, "idle") \/ at(t, "load") THEN NoInfo ELSE caller[t].info
  BY <1>6 DEF Held
<1>9. \A i \in infos : i.close => i.cleanup
  <2>1. caller[t].info \in Owned \cup NotOwned \cup {NoInfo}
    BY <1>2 DEF CallerStates
  <2> HIDE DEF infos
  <2> QED BY <1>2, <1>5, <1>7, <2>1, OwnedApart
<1>10. DOMAIN sessions = {i.handle : i \in owners} /\ open = {i.handle : i \in {i \in owners : i.close}}
  <2> HIDE DEF infos
  <2> QED BY <1>4, <1>5, <1>7, <1>8, <1>9 DEF Session, Duplicate
<1>11. in = {lock.owner} \ {None} /\ (in = {}) = (lock.depth = 0)
  BY <1>1, <1>3, OwnedApart DEF Only, LockInv, at
<1>12. ASSUME NEW u \in in
       PROVE  /\ at(u, "use") => caller[u].info.handle \in DOMAIN sessions
              /\ (at(u, "keep") \/ at(u, "use")) /\ caller[u].info.cleanup => caller[u].info # cache
              /\ at(u, "load") /\ ~caller[u].info.cleanup => caller[u].info.handle \in DOMAIN sessions
  <2>1. u = t /\ ~at(t, "idle")
    BY <1>3
  <2>2. HasOwn(t) => caller[t].info.cleanup /\ caller[t].info # cache
    BY OwnedApart DEF HasOwn
  <2>3. SharesCached(t) => /\ ~caller[t].info.cleanup /\ cache.cleanup
                           /\ caller[t].info.handle = cache.handle
    BY OwnedApart DEF SharesCached, make_not_owned
  <2>4. at(t, "use") => Held(t) = caller[t].info
    BY DEF Held, at
  <2> QED BY <1>1, <1>4, <2>1, <2>2, <2>3, <2>4 DEF Only, InfoInv, Session
<1> HIDE DEF in, owners
<1> QED BY <1>10, <1>11, <1>12 DEF SessionsAreSound, in, owners

\* Sessions and handles end exactly once, and one thread at a time is in dbghelp
\* with a session that lasts, for any number of threads, handles and libraries.
THEOREM SessionsEndOnce == DbghelpSpec => []SessionsAreSound
BY InvIsSound, DbghelpInvariant, PTL

-----------------------------------------------------------------------------
\* dbghelp: types.
Word == Seq(Tokens)
Written == [base : Word, extent : Word]

LEMMA OneIsSequence ==
  ASSUME NEW X, NEW x \in X
  PROVE  <<x>> \in Seq(X)
OBVIOUS

LEMMA SequenceOf ==
  ASSUME NEW s, NEW X, NEW n \in Nat, DOMAIN s = 1 .. n, s = [i \in 1 .. n |-> s[i]],
         \A i \in 1 .. n : s[i] \in X
  PROVE  s \in Seq(X)
<1>1. s \in [1 .. n -> X]
  OBVIOUS
<1> QED BY <1>1

\* What the types are, in the terms the proofs need.
LEMMA TypeFacts ==
  ASSUME NEW index \in DOMAIN Types, NEW type, type = Types[index]
  PROVE  /\ index \in 1 .. Len(Types) /\ Len(Types) \in Nat /\ DOMAIN Types = 1 .. Len(Types)
         /\ type.name \in Tokens /\ type.length \in Tokens /\ type.ref \in BOOLEAN
         /\ type.tag \in {"pointer", "array", "function", "argument"} => type.of \in 1 .. index - 1
         /\ type.tag \in {"pointer", "array", "function"} => Types[type.of].tag # "argument"
         /\ type.tag = "pointer" /\ type.class # None => type.class \in 1 .. index - 1
         /\ type.tag = "function" =>
              /\ type.params \in Seq(1 .. index - 1)
              /\ SubSeq(type.params, 1, type.count - object_of(type.class # None)) = type.params
<1> DEFINE Record == [tag : STRING, name : STRING, of : Nat, class : Nat, ref : BOOLEAN,
                      length : STRING, params : Seq(Nat), count : Nat]
<1>1. Types \in Seq(Record) /\ PartsOf(type) \subseteq 1 .. (index - 1)
  BY TypesAssumption
<1>2. type \in Record
  <2> HIDE DEF Record
  <2> QED BY <1>1
<1>3. type.tag \in {"pointer", "array", "function"} => Types[type.of].tag # "argument"
  BY TypesAssumption
<1>4. type.tag = "function" =>
        /\ type.params \in Seq(1 .. index - 1)
        /\ SubSeq(type.params, 1, type.count - object_of(type.class # None)) = type.params
  <2> SUFFICES ASSUME type.tag = "function"
               PROVE  /\ type.params \in Seq(1 .. index - 1)
                      /\ SubSeq(type.params, 1, type.count - object_of(type.class # None)) = type.params
    OBVIOUS
  <2>1. type.count = Len(type.params) + object_of(type.class # None)
    BY TypesAssumption
  <2>2. type.params \in Seq(Nat) /\ Range(type.params) \subseteq 1 .. (index - 1)
    BY <1>1, <1>2 DEF PartsOf
  <2>3. object_of(type.class # None) \in Nat
    BY DEF object_of
  <2>4. type.count - object_of(type.class # None) = Len(type.params)
    BY <2>1, <2>2, <2>3
  <2>5. \A i \in 1 .. Len(type.params) : type.params[i] \in 1 .. (index - 1)
    BY <2>2 DEF Range
  <2>6. type.params \in Seq(1 .. index - 1)
    <3>1. /\ Len(type.params) \in Nat /\ DOMAIN type.params = 1 .. Len(type.params)
          /\ type.params = [i \in 1 .. Len(type.params) |-> type.params[i]]
      BY <2>2
    <3> QED BY <2>5, <3>1, SequenceOf
  <2>7. SubSeq(type.params, 1, Len(type.params)) = type.params
    BY <2>2
  <2> QED BY <2>4, <2>6, <2>7
<1>5. DOMAIN Types = 1 .. Len(Types) /\ Len(Types) \in Nat
  BY <1>1
<1>6. /\ type.tag \in {"pointer", "array", "function", "argument"} => type.of \in 1 .. index - 1
      /\ type.tag = "pointer" /\ type.class # None => type.class \in 1 .. index - 1
  BY <1>1 DEF PartsOf
<1>7. type.name \in Tokens /\ type.length \in Tokens
  <2>1. type \in Range(Types)
    BY DEF Range
  <2>2. {type.name, type.length} \in {{x.name, x.length} : x \in Range(Types)}
    BY <2>1
  <2> QED BY <2>2 DEF Tokens
<1> QED BY <1>2, <1>3, <1>4, <1>5, <1>6, <1>7

LEMMA Words ==
  /\ <<>> \in Word /\ \A s, t \in Word : s \o t \in Word
  /\ \A x \in Tokens : <<x>> \in Word
  /\ \A r \in BOOLEAN : punctuation(r) \in Word
  /\ <<"(">> \in Word /\ <<")">> \in Word /\ <<",">> \in Word /\ <<"::">> \in Word
<1>1. <<>> \in Word /\ \A s, t \in Word : s \o t \in Word
  BY DEF Word
<1>2. \A x \in Tokens : <<x>> \in Word
  BY OneIsSequence DEF Word
<1>3. {"(", ")", ",", "::", "*", "&"} \subseteq Tokens
  BY DEF Tokens
<1>4. /\ <<"&">> \in Word /\ <<"*">> \in Word
      /\ <<"(">> \in Word /\ <<")">> \in Word /\ <<",">> \in Word /\ <<"::">> \in Word
  BY <1>2, <1>3
<1>5. \A r \in BOOLEAN : punctuation(r) \in Word
  BY <1>4 DEF punctuation
<1> QED BY <1>1, <1>2, <1>4, <1>5

LEMMA SeparatedIsWord ==
  ASSUME NEW parts \in Seq(Word)
  PROVE  separated(parts) \in Word
<1> DEFINE listed == [i \in DOMAIN parts |-> parts[i] \o (IF i < Len(parts) THEN <<",">> ELSE <<>>)]
<1>1. \A i \in DOMAIN parts : listed[i] \in Seq(Tokens)
  <2>1. <<>> \in Word /\ <<",">> \in Word /\ \A s, t \in Word : s \o t \in Word
    BY Words
  <2>2. \A i \in DOMAIN parts : parts[i] \in Word
    OBVIOUS
  <2>3. \A i \in DOMAIN parts : listed[i] \in Word
    BY <2>1, <2>2
  <2> QED BY <2>3 DEF Word
<1>2. listed \in Seq(Seq(Tokens))
  <2>1. DOMAIN parts = 1 .. Len(parts) /\ Len(parts) \in Nat
    OBVIOUS
  <2>2. listed = [i \in 1 .. Len(parts) |-> listed[i]]
    BY <2>1
  <2> HIDE DEF listed
  <2> QED BY <1>1, <2>1, <2>2
<1>3. FlattenSeq(listed) \in Seq(Tokens)
  <2> HIDE DEF listed
  <2> QED BY <1>2, SetOfFlatten
<1> QED BY <1>3 DEF separated, Word

LEMMA WrittenIsWord ==
  ASSUME NEW w \in Written
  PROVE  w.base \in Word /\ w.extent \in Word /\ written(w) \in Word
BY DEF Written, written, Word

\* What a function is on the parts of a type decides what becomes of the type.
Fit(found, index, X) == \A part \in 1 .. index - 1 : found[part] \in X

LEMMA TypeIsWritten ==
  ASSUME NEW index \in DOMAIN Types, NEW found, Fit(found, index, Written)
  PROVE  type_of(Types[index], found) \in Written
<1> DEFINE type == Types[index]
           of == found[type.of]
           counted == SubSeq(type.params, 1, type.count - object_of(type.class # None))
<1> HIDE DEF type
<1>1. \A base, extent \in Word : Join(base, extent) \in Written
  BY DEF Join, Written
<1>2. <<>> \in Word /\ \A s, t \in Word : s \o t \in Word
  BY Words
<1>3. <<"::">> \in Word /\ <<"(">> \in Word /\ <<")">> \in Word
  BY Words
<1>4. punctuation(type.ref) \in Word /\ <<type.length>> \in Word /\ <<type.name>> \in Word
  BY TypeFacts, Words DEF type
<1>5. CASE type.tag = "pointer"
  <2>1. of \in Written
    BY <1>5, TypeFacts DEF Fit, type
  <2> DEFINE pp == (IF type.class = None THEN <<>> ELSE written(found[type.class]) \o <<"::">>)
                   \o punctuation(type.ref)
  <2>2. type.class # None => written(found[type.class]) \in Word
    BY <1>5, TypeFacts, WrittenIsWord DEF Fit, type
  <2>3. pp \in Word
    BY <1>2, <1>3, <1>4, <2>2
  <2> HIDE DEF pp
  <2>4. pointer_type(of, pp) \in Written
    BY <1>1, <1>2, <1>3, <2>1, <2>3, WrittenIsWord DEF pointer_type
  <2>5. type_of(type, found) = pointer_type(of, pp)
    BY <1>5 DEF type_of, pp
  <2> QED BY <2>4, <2>5 DEF type
<1>6. CASE type.tag = "array"
  <2>1. of \in Written
    BY <1>6, TypeFacts DEF Fit, type
  <2>2. type_of(type, found) = Join(of.base, <<type.length>> \o of.extent)
    BY <1>6 DEF type_of
  <2>3. of.base \in Word /\ <<type.length>> \o of.extent \in Word
    BY <1>2, <1>4, <2>1, WrittenIsWord
  <2> QED BY <1>1, <2>2, <2>3 DEF type
<1>7. CASE type.tag = "function"
  <2>1. of \in Written /\ counted = type.params /\ counted \in Seq(1 .. index - 1)
    BY <1>7, TypeFacts DEF Fit, type
  <2> DEFINE params == [i \in DOMAIN counted |-> written(found[counted[i]])]
  <2>2. \A i \in DOMAIN counted : written(found[counted[i]]) \in Word
    BY <2>1, WrittenIsWord DEF Fit
  <2>3. params \in Seq(Word)
    <3>1. DOMAIN counted = 1 .. Len(counted) /\ Len(counted) \in Nat
      BY <2>1
    <3> HIDE DEF counted
    <3>2. DOMAIN params = 1 .. Len(counted) /\ params = [i \in 1 .. Len(counted) |-> params[i]]
      BY <3>1
    <3>3. \A i \in 1 .. Len(counted) : params[i] \in Word
      BY <2>2, <3>1
    <3> HIDE DEF params
    <3> QED BY <3>1, <3>2, <3>3, SequenceOf
  <2>4. type_of(type, found) = function_type(of, params)
    BY <1>7 DEF type_of
  <2> HIDE DEF params
  <2>5. separated(params) \in Word
    BY <2>3, SeparatedIsWord
  <2>6. function_type(of, params) \in Written
    BY <1>1, <1>2, <1>3, <2>1, <2>5, WrittenIsWord DEF function_type
  <2> QED BY <2>4, <2>6 DEF type
<1>8. CASE type.tag = "argument"
  <2>1. of \in Written
    BY <1>8, TypeFacts DEF Fit, type
  <2>2. type_of(type, found) = Join(written(of), <<>>)
    BY <1>8 DEF type_of
  <2> QED BY <1>1, <1>2, <2>1, <2>2, WrittenIsWord DEF type
<1>9. CASE type.tag \notin {"pointer", "array", "function", "argument"}
  <2>1. type_of(type, found) = Join(<<type.name>>, <<>>)
    BY <1>9 DEF type_of
  <2> QED BY <1>1, <1>2, <1>4, <2>1 DEF type
<1> QED BY <1>5, <1>6, <1>7, <1>8, <1>9

LEMMA TypeIsDecided ==
  ASSUME NEW index \in DOMAIN Types, NEW found, NEW other,
         \A part \in 1 .. index - 1 : found[part] = other[part]
  PROVE  type_of(Types[index], found) = type_of(Types[index], other)
<1> DEFINE type == Types[index]
           counted == SubSeq(type.params, 1, type.count - object_of(type.class # None))
<1> HIDE DEF type
<1>1. type.tag \in {"pointer", "array", "function", "argument"} => found[type.of] = other[type.of]
  BY TypeFacts DEF type
<1>2. type.tag = "pointer" /\ type.class # None => found[type.class] = other[type.class]
  BY TypeFacts DEF type
<1>3. CASE type.tag = "function"
  <2>1. counted \in Seq(1 .. index - 1)
    BY <1>3, TypeFacts DEF type
  <2>2. \A i \in DOMAIN counted : found[counted[i]] = other[counted[i]]
    BY <2>1
  <2> HIDE DEF counted
  <2>3. [i \in DOMAIN counted |-> written(found[counted[i]])]
        = [i \in DOMAIN counted |-> written(other[counted[i]])]
    BY <2>2
  <2> QED BY <1>1, <1>3, <2>3 DEF type_of, type, counted
<1>4. CASE type.tag # "function"
  BY <1>1, <1>2, <1>4 DEF type_of, type
<1> QED BY <1>3, <1>4

\* lookup_type is what its equation says.
LEMMA LookupUnfolds ==
  /\ \A index \in DOMAIN Types : lookup_type[index] = type_of(Types[index], lookup_type)
  /\ \A index \in DOMAIN Types : lookup_type[index] \in Written
<1> DEFINE N == Len(Types)
           Body(f) == [index \in DOMAIN Types |-> type_of(Types[index], f)]
           blank == Join(<<>>, <<>>)
           step == [h \in Seq(Written) |->
                      IF Len(h) + 1 \in 1 .. N /\ Len(h) + 1 \in DOMAIN Types
                      THEN type_of(Types[Len(h) + 1], h) ELSE blank]
<1>1. N \in Nat /\ DOMAIN Types = 1 .. N
  BY TypesAssumption
<1>2. step \in [Seq(Written) -> Written]
  <2>1. blank \in Written
    BY Words DEF Join, Written
  <2>2. ASSUME NEW h \in Seq(Written), Len(h) + 1 \in 1 .. N
        PROVE  type_of(Types[Len(h) + 1], h) \in Written
    <3>1. Len(h) + 1 \in DOMAIN Types
      BY <1>1, <2>2
    <3>2. Fit(h, Len(h) + 1, Written)
      BY DEF Fit
    <3> QED BY <3>1, <3>2, TypeIsWritten
  <2> QED BY <2>1, <2>2
<1>3. PICK f \in [1 .. N -> Written] : \A n \in 1 .. N : f[n] = step[[m \in 1 .. n - 1 |-> f[m]]]
  <2> HIDE DEF step, N
  <2>1. PICK f : DefinedByStep(f, Written, N, step)
    BY <1>1, <1>2, CourseOfValues
  <2> QED BY <2>1 DEF DefinedByStep
<1>4. ASSUME NEW n \in 1 .. N PROVE f[n] = type_of(Types[n], f)
  <2> DEFINE h == [m \in 1 .. n - 1 |-> f[m]]
  <2>1. h \in Seq(Written) /\ Len(h) = n - 1 /\ \A m \in 1 .. n - 1 : h[m] = f[m]
    <3>1. h \in [1 .. n - 1 -> Written] /\ n - 1 \in Nat
      OBVIOUS
    <3> QED BY <3>1
  <2>2. f[n] = step[h]
    BY <1>3
  <2> HIDE DEF h
  <2>3. Len(h) + 1 = n
    BY <2>1
  <2>4. step[h] = type_of(Types[n], h)
    BY <1>1, <2>1, <2>3
  <2>5. type_of(Types[n], h) = type_of(Types[n], f)
    BY <1>1, <2>1, TypeIsDecided
  <2> QED BY <2>2, <2>4, <2>5
<1>5. f = Body(f)
  BY <1>1, <1>3, <1>4
<1>6. lookup_type = CHOOSE g : g = Body(g)
  BY DEF lookup_type
<1>7. lookup_type = Body(lookup_type)
  <2> HIDE DEF Body
  <2> QED BY <1>5, <1>6
<1>8. \A index \in DOMAIN Types : lookup_type[index] = type_of(Types[index], lookup_type)
  <2>1. \A g : \A index \in DOMAIN Types : Body(g)[index] = type_of(Types[index], g)
    OBVIOUS
  <2> HIDE DEF Body
  <2> QED BY <1>7, <2>1
<1>9. \A index \in DOMAIN Types : lookup_type[index] \in Written
  <2> DEFINE S == {n \in Nat : \A m \in 1 .. n : m \in 1 .. N => lookup_type[m] \in Written}
  <2>1. 0 \in S
    OBVIOUS
  <2>2. ASSUME NEW n \in Nat, n \in S PROVE n + 1 \in S
    <3> SUFFICES ASSUME n + 1 \in 1 .. N PROVE lookup_type[n + 1] \in Written
      BY <2>2
    <3>1. n + 1 \in DOMAIN Types
      BY <1>1
    <3>2. \A part \in 1 .. (n + 1) - 1 : lookup_type[part] \in Written
      BY <1>1, <2>2
    <3> HIDE DEF S
    <3>3. type_of(Types[n + 1], lookup_type) \in Written
      BY <3>1, <3>2, TypeIsWritten DEF Fit
    <3> QED BY <1>8, <3>1, <3>3
  <2>3. N \in S
    <3> HIDE DEF S
    <3> QED BY <1>1, <2>1, <2>2, Induction
  <2> QED BY <1>1, <2>3
<1> QED BY <1>8, <1>9

LEMMA ExtendsUnfolds ==
  \A index \in DOMAIN Types :
    /\ Extends[index] \in BOOLEAN
    /\ Extends[index] <=> \/ Types[index].tag \in {"array", "function"}
                          \/ Types[index].tag = "pointer" /\ Extends[Types[index].of]
<1> DEFINE N == Len(Types)
           Value(index, f) == \/ Types[index].tag \in {"array", "function"}
                              \/ Types[index].tag = "pointer" /\ f[Types[index].of]
           Body(f) == [index \in DOMAIN Types |-> Value(index, f)]
           step == [h \in Seq(BOOLEAN) |-> Value(Len(h) + 1, h)]
<1>1. N \in Nat /\ DOMAIN Types = 1 .. N
  BY TypesAssumption
<1>2. step \in [Seq(BOOLEAN) -> BOOLEAN]
  OBVIOUS
<1>3. PICK f \in [1 .. N -> BOOLEAN] : \A n \in 1 .. N : f[n] = step[[m \in 1 .. n - 1 |-> f[m]]]
  <2> HIDE DEF step, N
  <2>1. PICK f : DefinedByStep(f, BOOLEAN, N, step)
    BY <1>1, <1>2, CourseOfValues
  <2> QED BY <2>1 DEF DefinedByStep
<1>4. ASSUME NEW n \in 1 .. N PROVE f[n] = Value(n, f)
  <2> DEFINE h == [m \in 1 .. n - 1 |-> f[m]]
  <2>1. h \in Seq(BOOLEAN) /\ Len(h) = n - 1 /\ \A m \in 1 .. n - 1 : h[m] = f[m]
    <3>1. h \in [1 .. n - 1 -> BOOLEAN] /\ n - 1 \in Nat
      OBVIOUS
    <3> QED BY <3>1
  <2>2. f[n] = step[h]
    BY <1>3
  <2> HIDE DEF h
  <2>3. Len(h) + 1 = n
    BY <2>1
  <2>4. step[h] = Value(n, h)
    <3>1. step[h] = Value(Len(h) + 1, h)
      BY <2>1
    <3> HIDE DEF step, Value
    <3> QED BY <2>3, <3>1
  <2>5. Types[n].tag = "pointer" => Types[n].of \in 1 .. n - 1
    BY <1>1, TypeFacts
  <2>6. Value(n, h) = Value(n, f)
    <3>1. Types[n].tag = "pointer" => h[Types[n].of] = f[Types[n].of]
      BY <2>1, <2>5
    <3> QED BY <3>1
  <2> HIDE DEF step, Value
  <2> QED BY <2>2, <2>4, <2>6
<1>5. f = Body(f)
  <2> HIDE DEF Value
  <2> QED BY <1>1, <1>3, <1>4
<1>6. Extends = CHOOSE g : g = Body(g)
  BY DEF Extends
<1>7. Extends = Body(Extends)
  <2> HIDE DEF Body
  <2> QED BY <1>5, <1>6
<1>8. \A index \in DOMAIN Types : Extends[index] = Value(index, Extends)
  <2>1. \A g : \A index \in DOMAIN Types : Body(g)[index] = Value(index, g)
    <3> HIDE DEF Value
    <3> QED OBVIOUS
  <2> HIDE DEF Body, Value
  <2> QED BY <1>7, <2>1
<1>9. \A index, g : Value(index, g) \in BOOLEAN
  OBVIOUS
<1> QED BY <1>8, <1>9

-----------------------------------------------------------------------------
\* The same for what C++ writes.
LEMMA PartsFound ==
  ASSUME NEW index \in Nat, NEW parts \in Seq(1 .. index - 1)
  PROVE  /\ DOMAIN parts = 1 .. Len(parts) /\ Len(parts) \in Nat
         /\ \A i \in DOMAIN parts : parts[i] \in 1 .. index - 1
OBVIOUS

LEMMA DeclaredIsWord ==
  ASSUME NEW index \in DOMAIN Types, NEW known, Fit(known, index, [Word -> Word]), NEW declarator \in Word
  PROVE  DeclaredAs(Types[index], declarator, known) \in Word
<1> DEFINE type == Types[index]
           of == known[type.of]
           params == [i \in DOMAIN type.params |-> known[type.params[i]][<<>>]]
           star == (IF type.class = None THEN <<>> ELSE known[type.class][<<>>] \o <<"::">>)
                   \o punctuation(type.ref)
<1> HIDE DEF type
<1>1. <<>> \in Word /\ \A s, t \in Word : s \o t \in Word
  BY Words
<1>2. <<"::">> \in Word /\ <<"(">> \in Word /\ <<")">> \in Word
  BY Words
<1>3. punctuation(type.ref) \in Word /\ <<type.length>> \in Word /\ <<type.name>> \in Word
  BY TypeFacts, Words DEF type
<1>4. type.tag \in {"pointer", "array", "function", "argument"} => \A d \in Word : of[d] \in Word
  BY TypeFacts DEF Fit, type
<1>5. CASE type.tag = "pointer"
  <2>1. type.class # None => known[type.class][<<>>] \in Word
    BY <1>1, <1>5, TypeFacts DEF Fit, type
  <2>2. star \in Word
    BY <1>1, <1>2, <1>3, <2>1
  <2>3. DeclaredAs(type, declarator, known)
        = of[IF Extends[type.of] THEN <<"(">> \o star \o declarator \o <<")">> ELSE star \o declarator]
    BY <1>5 DEF DeclaredAs
  <2> HIDE DEF star, of
  <2> QED BY <1>1, <1>2, <1>4, <1>5, <2>2, <2>3 DEF type
<1>6. CASE type.tag = "array"
  <2>1. DeclaredAs(type, declarator, known) = of[declarator \o <<type.length>>]
    BY <1>6 DEF DeclaredAs
  <2> QED BY <1>1, <1>3, <1>4, <1>6, <2>1 DEF type
<1>7. CASE type.tag = "function"
  <2>1. DeclaredAs(type, declarator, known) = of[declarator \o <<"(">> \o separated(params) \o <<")">>]
    BY <1>7 DEF DeclaredAs
  <2>2. params \in Seq(Word)
    <3>1. index \in Nat /\ type.params \in Seq(1 .. index - 1)
      BY <1>7, TypeFacts DEF type
    <3>2. /\ DOMAIN type.params = 1 .. Len(type.params) /\ Len(type.params) \in Nat
          /\ \A i \in DOMAIN type.params : type.params[i] \in 1 .. index - 1
      BY <3>1, PartsFound
    <3>3. \A i \in 1 .. Len(type.params) : params[i] \in Word
      BY <1>1, <3>2 DEF Fit
    <3>4. DOMAIN params = 1 .. Len(type.params) /\ params = [i \in 1 .. Len(type.params) |-> params[i]]
      BY <3>2
    <3> HIDE DEF params
    <3> QED BY <3>2, <3>3, <3>4, SequenceOf
  <2> HIDE DEF params
  <2>3. separated(params) \in Word
    BY <2>2, SeparatedIsWord
  <2> QED BY <1>1, <1>2, <1>4, <1>7, <2>1, <2>3 DEF type
<1>8. CASE type.tag = "argument"
  <2>1. DeclaredAs(type, declarator, known) = of[declarator]
    BY <1>8 DEF DeclaredAs
  <2> QED BY <1>4, <1>8, <2>1 DEF type
<1>9. CASE type.tag \notin {"pointer", "array", "function", "argument"}
  <2>1. DeclaredAs(type, declarator, known) = <<type.name>> \o declarator
    BY <1>9 DEF DeclaredAs
  <2> QED BY <1>1, <1>3, <2>1 DEF type
<1> QED BY <1>5, <1>6, <1>7, <1>8, <1>9

LEMMA DeclaredIsDecided ==
  ASSUME NEW index \in DOMAIN Types, NEW known, NEW other, NEW declarator,
         \A part \in 1 .. index - 1 : known[part] = other[part]
  PROVE  DeclaredAs(Types[index], declarator, known) = DeclaredAs(Types[index], declarator, other)
<1> DEFINE type == Types[index]
<1> HIDE DEF type
<1>1. type.tag \in {"pointer", "array", "function", "argument"} => known[type.of] = other[type.of]
  BY TypeFacts DEF type
<1>2. type.tag = "pointer" /\ type.class # None => known[type.class] = other[type.class]
  BY TypeFacts DEF type
<1>3. CASE type.tag = "function"
  <2>1. \A i \in DOMAIN type.params : type.params[i] \in 1 .. index - 1
    BY <1>3, TypeFacts, PartsFound DEF type
  <2>2. \A i \in DOMAIN type.params : known[type.params[i]] = other[type.params[i]]
    BY <2>1
  <2>3. [i \in DOMAIN type.params |-> known[type.params[i]][<<>>]]
        = [i \in DOMAIN type.params |-> other[type.params[i]][<<>>]]
    BY <2>2
  <2> QED BY <1>1, <1>3, <2>3 DEF DeclaredAs, type
<1>4. CASE type.tag # "function"
  BY <1>1, <1>2, <1>4 DEF DeclaredAs, type
<1> QED BY <1>3, <1>4

LEMMA DeclaredUnfolds ==
  \A index \in DOMAIN Types : \A declarator \in Word :
    /\ Declared[index][declarator] = DeclaredAs(Types[index], declarator, Declared)
    /\ Declared[index][declarator] \in Word
<1> DEFINE N == Len(Types)
           Value(index, f) == [declarator \in Seq(Tokens) |-> DeclaredAs(Types[index], declarator, f)]
           Body(f) == [index \in DOMAIN Types |-> Value(index, f)]
           blank == [declarator \in Word |-> declarator]
           step == [h \in Seq([Word -> Word]) |->
                      IF Len(h) + 1 \in 1 .. N THEN Value(Len(h) + 1, h) ELSE blank]
<1>1. N \in Nat /\ DOMAIN Types = 1 .. N
  BY TypesAssumption
<1>2. ASSUME NEW index \in DOMAIN Types, NEW f, Fit(f, index, [Word -> Word])
      PROVE  Value(index, f) \in [Word -> Word]
  <2>1. \A declarator \in Word : DeclaredAs(Types[index], declarator, f) \in Word
    BY <1>2, DeclaredIsWord
  <2> QED BY <2>1 DEF Word
<1>3. ASSUME NEW index \in DOMAIN Types, NEW f, NEW g, \A part \in 1 .. index - 1 : f[part] = g[part]
      PROVE  Value(index, f) = Value(index, g)
  <2>1. \A declarator \in Seq(Tokens) :
          DeclaredAs(Types[index], declarator, f) = DeclaredAs(Types[index], declarator, g)
    BY <1>3, DeclaredIsDecided
  <2> QED BY <2>1
<1>4. step \in [Seq([Word -> Word]) -> [Word -> Word]]
  <2>1. blank \in [Word -> Word]
    OBVIOUS
  <2>2. ASSUME NEW h \in Seq([Word -> Word]), Len(h) + 1 \in 1 .. N
        PROVE  Value(Len(h) + 1, h) \in [Word -> Word]
    <3>1. Len(h) + 1 \in DOMAIN Types
      BY <1>1, <2>2
    <3>2. Fit(h, Len(h) + 1, [Word -> Word])
      BY DEF Fit
    <3> HIDE DEF Value
    <3> QED BY <1>2, <3>1, <3>2
  <2> HIDE DEF Value, blank
  <2> QED BY <2>1, <2>2
<1> HIDE DEF Value
<1>5. PICK f \in [1 .. N -> [Word -> Word]] : \A n \in 1 .. N : f[n] = step[[m \in 1 .. n - 1 |-> f[m]]]
  <2> HIDE DEF step, N
  <2>1. PICK f : DefinedByStep(f, [Word -> Word], N, step)
    BY <1>1, <1>4, CourseOfValues
  <2> QED BY <2>1 DEF DefinedByStep
<1>6. ASSUME NEW n \in 1 .. N PROVE f[n] = Value(n, f)
  <2> DEFINE h == [m \in 1 .. n - 1 |-> f[m]]
  <2>1. h \in Seq([Word -> Word]) /\ Len(h) = n - 1 /\ \A m \in 1 .. n - 1 : h[m] = f[m]
    <3>1. h \in [1 .. n - 1 -> [Word -> Word]] /\ n - 1 \in Nat
      OBVIOUS
    <3> QED BY <3>1
  <2>2. f[n] = step[h]
    BY <1>5
  <2> HIDE DEF h
  <2>3. Len(h) + 1 = n
    BY <2>1
  <2>4. step[h] = Value(n, h)
    BY <1>1, <2>1, <2>3
  <2>5. Value(n, h) = Value(n, f)
    BY <1>1, <1>3, <2>1
  <2> QED BY <2>2, <2>4, <2>5
<1>7. f = Body(f)
  BY <1>1, <1>5, <1>6
<1>8. Declared = CHOOSE g : g = Body(g)
  BY DEF Declared, Value
<1>9. Declared = Body(Declared)
  <2> HIDE DEF Body
  <2> QED BY <1>7, <1>8
<1>10. \A index \in DOMAIN Types : Declared[index] = Value(index, Declared)
  <2>1. \A g : \A index \in DOMAIN Types : Body(g)[index] = Value(index, g)
    OBVIOUS
  <2> HIDE DEF Body
  <2> QED BY <1>9, <2>1
<1>11. \A index \in DOMAIN Types : Declared[index] \in [Word -> Word]
  <2> DEFINE S == {n \in Nat : \A m \in 1 .. n : m \in 1 .. N => Declared[m] \in [Word -> Word]}
  <2>1. 0 \in S
    OBVIOUS
  <2>2. ASSUME NEW n \in Nat, n \in S PROVE n + 1 \in S
    <3> SUFFICES ASSUME n + 1 \in 1 .. N PROVE Declared[n + 1] \in [Word -> Word]
      BY <2>2
    <3>1. n + 1 \in DOMAIN Types
      BY <1>1
    <3>2. \A part \in 1 .. (n + 1) - 1 : Declared[part] \in [Word -> Word]
      BY <1>1, <2>2
    <3> HIDE DEF S
    <3> QED BY <1>2, <1>10, <3>1, <3>2 DEF Fit
  <2>3. N \in S
    <3> HIDE DEF S
    <3> QED BY <1>1, <2>1, <2>2, Induction
  <2> QED BY <1>1, <2>3
<1>12. \A index \in DOMAIN Types : \A declarator \in Word :
         Declared[index][declarator] = DeclaredAs(Types[index], declarator, Declared)
  BY <1>10 DEF Value, Word
<1> QED BY <1>11, <1>12

-----------------------------------------------------------------------------
\* Pieces put together in another order are the same.
Associate(r, s, t) == r \o (s \o t) = r \o s \o t
Regroup(a, b, c, d) ==
  /\ a \o (b \o c) \o d = a \o b \o c \o d
  /\ a \o (b \o c) \o d = a \o b \o (c \o d)
RegroupMore(a, b, c, d, e, f) ==
  /\ a \o (b \o c \o d \o e) \o f = a \o b \o c \o d \o (e \o f)
  /\ a \o (b \o c \o d \o e) \o f = a \o b \o (c \o d \o e \o f)

LEMMA Associates == \A r, s, t \in Word : Associate(r, s, t)
BY DEF Word, Associate

LEMMA Neutral == \A s \in Word : s \o <<>> = s /\ <<>> \o s = s
BY DEF Word

LEMMA NotEmpty == \A s \in Word, x \in Tokens : <<x>> \o s # <<>>
<1> SUFFICES ASSUME NEW s \in Word, NEW x \in Tokens PROVE <<x>> \o s # <<>>
  OBVIOUS
<1>1. Len(<<x>> \o s) = 1 + Len(s) /\ Len(s) \in Nat
  BY DEF Word
<1> QED BY <1>1

LEMMA Regrouped == \A a, b, c, d \in Word : Regroup(a, b, c, d)
<1> SUFFICES ASSUME NEW a \in Word, NEW b \in Word, NEW c \in Word, NEW d \in Word
             PROVE  Regroup(a, b, c, d)
  OBVIOUS
<1>1. a \o b \in Word
  BY Words
<1>2. Associate(a, b, c) /\ Associate(a \o b, c, d)
  BY <1>1, Associates
<1> QED BY <1>2 DEF Associate, Regroup

LEMMA RegroupedMore == \A a, b, c, d, e, f \in Word : RegroupMore(a, b, c, d, e, f)
<1> SUFFICES ASSUME NEW a \in Word, NEW b \in Word, NEW c \in Word,
                    NEW d \in Word, NEW e \in Word, NEW f \in Word
             PROVE  RegroupMore(a, b, c, d, e, f)
  OBVIOUS
<1>1. a \o b \in Word /\ b \o c \in Word /\ c \o d \in Word
  BY Words
<1>2. b \o c \o d \in Word /\ a \o b \o c \in Word /\ c \o d \o e \in Word
  BY <1>1, Words
<1>3. a \o b \o c \o d \in Word
  BY <1>2, Words
<1>4. Associate(a, b \o c \o d, e) /\ Associate(a, b \o c, d) /\ Associate(a, b, c)
  BY <1>1, <1>2, Associates
<1>5. a \o (b \o c \o d \o e) = a \o b \o c \o d \o e
  BY <1>4 DEF Associate
<1>6. Associate(a \o b \o c \o d, e, f)
  BY <1>3, Associates
<1>7. Associate(a \o b, c \o d \o e, f) /\ Associate(a \o b, c \o d, e) /\ Associate(a \o b, c, d)
  BY <1>1, <1>2, Associates
<1>8. (a \o b) \o (c \o d \o e \o f) = a \o b \o c \o d \o e \o f
  BY <1>7 DEF Associate
<1> QED BY <1>5, <1>6, <1>8 DEF Associate, RegroupMore

\* A type is written around a declarator as C++ declares it, and there is
\* something behind it if C++ has that.
WrittenAsDeclared(index) ==
  /\ Extends[index] <=> lookup_type[index].extent # <<>>
  /\ \A declarator \in Word :
       Types[index].tag # "argument" \/ declarator = <<>> =>
         Declared[index][declarator] = lookup_type[index].base \o declarator \o lookup_type[index].extent

LEMMA ResolvedIsDeclared ==
  ASSUME NEW index \in DOMAIN Types, WrittenAsDeclared(index)
  PROVE  resolve_type(index) = Declared[index][<<>>]
<1>1. lookup_type[index].base \in Word /\ lookup_type[index].extent \in Word /\ <<>> \in Word
  BY LookupUnfolds, WrittenIsWord, Words
<1>2. Declared[index][<<>>] = lookup_type[index].base \o <<>> \o lookup_type[index].extent
  BY <1>1 DEF WrittenAsDeclared
<1> QED BY <1>1, <1>2, Neutral DEF resolve_type, written

LEMMA TypeStep ==
  ASSUME NEW index \in DOMAIN Types, \A part \in 1 .. index - 1 : WrittenAsDeclared(part)
  PROVE  WrittenAsDeclared(index)
<1> DEFINE type == Types[index]
           L == lookup_type[index]
           O == lookup_type[type.of]
           D(d) == Declared[index][d]
           P == (IF type.class = None THEN <<>> ELSE written(lookup_type[type.class]) \o <<"::">>)
                \o punctuation(type.ref)
<1>1. L = type_of(type, lookup_type)
  BY LookupUnfolds
<1>2. \A d \in Word : D(d) = DeclaredAs(type, d, Declared)
  BY DeclaredUnfolds
<1>3. L.base \in Word /\ L.extent \in Word
  BY LookupUnfolds, WrittenIsWord
<1>4. type.tag \in {"pointer", "array", "function", "argument"} =>
        /\ type.of \in 1 .. index - 1 /\ type.of \in DOMAIN Types
        /\ O \in Written /\ O.base \in Word /\ O.extent \in Word
        /\ WrittenAsDeclared(type.of)
  BY TypeFacts, LookupUnfolds, WrittenIsWord
<1>5. type.tag \in {"pointer", "array", "function"} =>
        \A d \in Word : Declared[type.of][d] = O.base \o d \o O.extent
  BY <1>4, TypeFacts DEF WrittenAsDeclared
<1>6. /\ <<>> \in Word /\ \A s, t \in Word : s \o t \in Word
      /\ <<"::">> \in Word /\ <<"(">> \in Word /\ <<")">> \in Word
      /\ punctuation(type.ref) \in Word /\ <<type.length>> \in Word /\ <<type.name>> \in Word
      /\ type.length \in Tokens /\ "(" \in Tokens /\ ")" \in Tokens
  BY TypeFacts, Words DEF Tokens
<1>7. Extends[index] <=> \/ type.tag \in {"array", "function"}
                         \/ type.tag = "pointer" /\ Extends[type.of]
  BY ExtendsUnfolds
<1> DEFINE Goal == /\ Extends[index] <=> L.extent # <<>>
                   /\ \A d \in Word : type.tag # "argument" \/ d = <<>> => D(d) = L.base \o d \o L.extent
<1>0. Goal => WrittenAsDeclared(index)
  BY DEF WrittenAsDeclared, type, L, D
<1> HIDE DEF type, L, O, D, P
<1>8. ASSUME type.tag = "pointer" PROVE Goal
  <2>1. type.class # None => /\ written(lookup_type[type.class]) = Declared[type.class][<<>>]
                             /\ written(lookup_type[type.class]) \in Word
    <3> SUFFICES ASSUME type.class # None
                 PROVE  /\ written(lookup_type[type.class]) = Declared[type.class][<<>>]
                        /\ written(lookup_type[type.class]) \in Word
      OBVIOUS
    <3>1. type.class \in 1 .. index - 1 /\ type.class \in DOMAIN Types
      BY <1>8, TypeFacts DEF type
    <3> QED BY <3>1, ResolvedIsDeclared, LookupUnfolds, WrittenIsWord DEF resolve_type
  <2>2. P \in Word
    BY <1>6, <2>1 DEF P
  <2>3. P = (IF type.class = None THEN <<>> ELSE Declared[type.class][<<>>] \o <<"::">>)
            \o punctuation(type.ref)
    BY <2>1 DEF P
  <2>4. L = pointer_type(O, P)
    BY <1>1, <1>8 DEF type_of, P, O
  <2>5. \A d \in Word : D(d) = Declared[type.of][IF Extends[type.of] THEN <<"(">> \o P \o d \o <<")">>
                                                 ELSE P \o d]
    BY <1>2, <1>8, <2>3 DEF DeclaredAs
  <2>6. Extends[type.of] <=> O.extent # <<>>
    BY <1>4, <1>8 DEF WrittenAsDeclared, O
  <2>7. CASE O.extent = <<>>
    <3>1. L.base = O.base \o P /\ L.extent = <<>>
      BY <2>4, <2>7 DEF pointer_type, Join
    <3>2. ASSUME NEW d \in Word PROVE D(d) = L.base \o d \o L.extent
      <4>1. D(d) = O.base \o (P \o d) \o O.extent
        BY <1>5, <1>6, <1>8, <2>2, <2>5, <2>6, <2>7
      <4>2. O.base \in Word /\ O.extent \in Word
        BY <1>4, <1>8
      <4>3. Regroup(O.base, P, d, O.extent)
        BY <2>2, <4>2, Regrouped
      <4> QED BY <2>7, <3>1, <4>1, <4>3, Zenon DEF Regroup
    <3> QED BY <1>7, <1>8, <2>6, <2>7, <3>1, <3>2
  <2>8. CASE O.extent # <<>>
    <3>1. L.base = O.base \o <<"(">> \o P /\ L.extent = <<")">> \o O.extent
      BY <2>4, <2>8 DEF pointer_type, Join
    <3>2. ASSUME NEW d \in Word PROVE D(d) = L.base \o d \o L.extent
      <4>1. D(d) = O.base \o (<<"(">> \o P \o d \o <<")">>) \o O.extent
        BY <1>5, <1>6, <1>8, <2>2, <2>5, <2>6, <2>8
      <4>2. O.base \in Word /\ O.extent \in Word
        BY <1>4, <1>8
      <4>3. RegroupMore(O.base, <<"(">>, P, d, <<")">>, O.extent)
        BY <1>6, <2>2, <4>2, RegroupedMore
      <4> QED BY <3>1, <4>1, <4>3, Zenon DEF RegroupMore
    <3>3. L.extent # <<>>
      BY <1>4, <1>6, <1>8, <3>1, NotEmpty
    <3> QED BY <1>7, <1>8, <2>6, <2>8, <3>2, <3>3
  <2> QED BY <2>7, <2>8
<1>9. ASSUME type.tag = "array" PROVE Goal
  <2>1. L.base = O.base /\ L.extent = <<type.length>> \o O.extent
    BY <1>1, <1>9 DEF type_of, Join, O
  <2>2. ASSUME NEW d \in Word PROVE D(d) = L.base \o d \o L.extent
    <3>1. D(d) = Declared[type.of][d \o <<type.length>>]
      BY <1>2, <1>9 DEF DeclaredAs
    <3>2. D(d) = O.base \o (d \o <<type.length>>) \o O.extent
      BY <1>5, <1>6, <1>9, <3>1
    <3>3. O.base \in Word /\ O.extent \in Word
      BY <1>4, <1>9
    <3>4. Regroup(O.base, d, <<type.length>>, O.extent)
      BY <1>6, <3>3, Regrouped
    <3> QED BY <2>1, <3>2, <3>4, Zenon DEF Regroup
  <2>3. L.extent # <<>>
    BY <1>4, <1>6, <1>9, <2>1, NotEmpty
  <2> QED BY <1>7, <1>9, <2>2, <2>3
<1>10. ASSUME type.tag = "function" PROVE Goal
  <2> DEFINE params == [i \in DOMAIN type.params |-> Declared[type.params[i]][<<>>]]
             listed == separated(params)
  <2>1. /\ SubSeq(type.params, 1, type.count - object_of(type.class # None)) = type.params
        /\ DOMAIN type.params = 1 .. Len(type.params) /\ Len(type.params) \in Nat
        /\ \A i \in DOMAIN type.params : type.params[i] \in 1 .. index - 1 /\ type.params[i] \in DOMAIN Types
    BY <1>10, TypeFacts, PartsFound DEF type
  <2>2. \A i \in DOMAIN type.params :
          /\ written(lookup_type[type.params[i]]) = Declared[type.params[i]][<<>>]
          /\ Declared[type.params[i]][<<>>] \in Word
    BY <1>6, <2>1, ResolvedIsDeclared, DeclaredUnfolds DEF resolve_type
  <2>3. [i \in DOMAIN type.params |-> written(lookup_type[type.params[i]])] = params
    BY <2>2
  <2>4. listed \in Word
    <3>1. DOMAIN params = 1 .. Len(type.params) /\ params = [i \in 1 .. Len(type.params) |-> params[i]]
      BY <2>1
    <3>2. \A i \in 1 .. Len(type.params) : params[i] \in Word
      BY <2>1, <2>2
    <3> HIDE DEF params
    <3>3. params \in Seq(Word)
      BY <2>1, <3>1, <3>2, SequenceOf
    <3> QED BY <3>3, SeparatedIsWord
  <2>5. L = function_type(O, params)
    <3> HIDE DEF params
    <3> QED BY <1>1, <1>10, <2>1, <2>3 DEF type_of, O
  <2>6. \A d \in Word : D(d) = Declared[type.of][d \o <<"(">> \o listed \o <<")">>]
    BY <1>2, <1>10 DEF DeclaredAs
  <2> HIDE DEF params
  <2>7. L.base = O.base /\ L.extent = <<"(">> \o listed \o <<")">> \o O.extent
    BY <2>5 DEF function_type, Join
  <2> HIDE DEF listed
  <2>8. ASSUME NEW d \in Word PROVE D(d) = L.base \o d \o L.extent
    <3>1. D(d) = O.base \o (d \o <<"(">> \o listed \o <<")">>) \o O.extent
      BY <1>5, <1>6, <1>10, <2>4, <2>6
    <3>2. O.base \in Word /\ O.extent \in Word
      BY <1>4, <1>10
    <3>3. RegroupMore(O.base, d, <<"(">>, listed, <<")">>, O.extent)
      BY <1>6, <2>4, <3>2, RegroupedMore
    <3> QED BY <2>7, <3>1, <3>3, Zenon DEF RegroupMore
  <2>9. L.extent # <<>>
    <3>1. O.extent \in Word /\ listed \o <<")">> \in Word
      BY <1>4, <1>6, <1>10, <2>4
    <3>2. Associate(<<"(">>, listed, <<")">>) /\ Associate(<<"(">>, listed \o <<")">>, O.extent)
      BY <1>6, <2>4, <3>1, Associates
    <3>3. L.extent = <<"(">> \o (listed \o <<")">> \o O.extent)
      BY <2>7, <3>2, Zenon DEF Associate
    <3>4. listed \o <<")">> \o O.extent \in Word
      BY <1>6, <3>1
    <3> QED BY <1>6, <3>3, <3>4, NotEmpty
  <2> QED BY <1>7, <1>10, <2>8, <2>9
<1>11. ASSUME type.tag = "argument" PROVE Goal
  <2>1. L.base = O.base \o O.extent /\ L.extent = <<>>
    BY <1>1, <1>11 DEF type_of, Join, O, written
  <2>2. D(<<>>) = Declared[type.of][<<>>]
    BY <1>2, <1>6, <1>11 DEF DeclaredAs
  <2>3. Declared[type.of][<<>>] = O.base \o <<>> \o O.extent
    BY <1>4, <1>6, <1>11 DEF WrittenAsDeclared, O
  <2>4. D(<<>>) = L.base \o <<>> \o L.extent
    BY <1>4, <1>6, <1>11, <2>1, <2>2, <2>3, Neutral
  <2> QED BY <1>7, <1>11, <2>1, <2>4
<1>12. ASSUME type.tag \notin {"pointer", "array", "function", "argument"} PROVE Goal
  <2>1. L.base = <<type.name>> /\ L.extent = <<>>
    BY <1>1, <1>12 DEF type_of, Join
  <2>2. \A d \in Word : D(d) = <<type.name>> \o d
    BY <1>2, <1>12 DEF DeclaredAs
  <2> QED BY <1>6, <1>7, <1>12, <2>1, <2>2, Neutral
<1> QED BY <1>0, <1>8, <1>9, <1>10, <1>11, <1>12

LEMMA TypesAreDeclared == \A index \in DOMAIN Types : WrittenAsDeclared(index)
<1> DEFINE N == Len(Types)
           S == {n \in Nat : \A m \in 1 .. n : m \in 1 .. N => WrittenAsDeclared(m)}
<1>1. N \in Nat /\ DOMAIN Types = 1 .. N
  BY TypesAssumption
<1>2. 0 \in S
  OBVIOUS
<1>3. ASSUME NEW n \in Nat, n \in S PROVE n + 1 \in S
  <2> SUFFICES ASSUME n + 1 \in 1 .. N PROVE WrittenAsDeclared(n + 1)
    BY <1>3
  <2>1. n + 1 \in DOMAIN Types /\ \A part \in 1 .. (n + 1) - 1 : WrittenAsDeclared(part)
    BY <1>1, <1>3
  <2> QED BY <2>1, TypeStep
<1>4. N \in S
  <2> HIDE DEF S
  <2> QED BY <1>1, <1>2, <1>3, Induction
<1> QED BY <1>1, <1>4

-----------------------------------------------------------------------------
\* dbghelp: frames.
\* What is shown of a function's parameters is a word, whatever dbghelp lists.
LEMMA EnumeratedIsWord ==
  ASSUME NEW listed \in Seq(DOMAIN Types), NEW skips \in {0, 1}, NEW n \in Int
  PROVE  enumerated(listed, skips, n) \in Word
<1> DEFINE end == IF n <= Len(listed) THEN n ELSE Len(listed)
           shown == SubSeq(listed, skips + 1, end)
           pieces == [i \in DOMAIN shown |->
                        resolve_type(shown[i]) \o (IF skips + i < n THEN <<",">> ELSE <<>>)]
<1>1. end \in Int /\ end <= Len(listed) /\ Len(listed) \in Nat
  OBVIOUS
<1>2. shown \in Seq(DOMAIN Types)
  <2>1. \A i \in skips + 1 .. end : i \in 1 .. Len(listed)
    BY <1>1
  <2> HIDE DEF end
  <2> QED BY <1>1, <2>1
<1> HIDE DEF shown
<1>3. \A i \in DOMAIN shown : resolve_type(shown[i]) \in Word
  BY <1>2, LookupUnfolds, WrittenIsWord DEF resolve_type
<1>4. \A i \in DOMAIN shown : pieces[i] \in Word
  <2>1. <<>> \in Word /\ <<",">> \in Word /\ \A s, t \in Word : s \o t \in Word
    BY Words
  <2> QED BY <1>3, <2>1
<1>5. pieces \in Seq(Seq(Tokens))
  <2>1. DOMAIN shown = 1 .. Len(shown) /\ Len(shown) \in Nat
    BY <1>2
  <2>2. DOMAIN pieces = 1 .. Len(shown) /\ pieces = [i \in 1 .. Len(shown) |-> pieces[i]]
    BY <2>1
  <2> HIDE DEF pieces
  <2> QED BY <1>4, <2>1, <2>2, SequenceOf DEF Word
<1>6. FlattenSeq(pieces) \in Seq(Tokens)
  <2> HIDE DEF pieces
  <2> QED BY <1>5, SetOfFlatten
<1> QED BY <1>6 DEF enumerated, shown, Word

LEMMA ParametersAreDeclared ==
  ASSUME NEW addr \in DOMAIN Functions, NEW f, f = Functions[addr]
  PROVE  /\ parameters(f) \in Word
         /\ f.complete => parameters(f)
                          = separated([i \in DOMAIN f.params |-> Declared[f.params[i]][<<>>]])
<1> DEFINE Record == [module : Modules \cup {Program}, name : STRING, line : BOOLEAN, method : BOOLEAN,
                      count : Int, listed : Seq(DOMAIN Types), params : Seq(DOMAIN Types),
                      complete : BOOLEAN]
           skips == object_of(f.method)
<1>1. f \in Record
  BY FunctionsAssumption
<1>2. /\ f.listed \in Seq(DOMAIN Types) /\ f.params \in Seq(DOMAIN Types)
      /\ f.count \in Int /\ skips \in {0, 1}
  BY <1>1 DEF object_of
<1>3. parameters(f) \in Word
  BY <1>2, EnumeratedIsWord DEF parameters
<1>4. ASSUME f.complete
      PROVE  parameters(f) = separated([i \in DOMAIN f.params |-> Declared[f.params[i]][<<>>]])
  <2> DEFINE parts == [i \in DOMAIN f.params |-> Declared[f.params[i]][<<>>]]
  <2>1. f.count = Len(f.params) + skips /\ f.count <= Len(f.listed)
        /\ SubSeq(f.listed, skips + 1, f.count) = f.params
    BY <1>4, FunctionsAssumption
  <2> HIDE DEF skips
  <2>2. parameters(f) = FlattenSeq([i \in DOMAIN f.params |->
                          resolve_type(f.params[i]) \o (IF skips + i < f.count THEN <<",">> ELSE <<>>)])
    BY <2>1 DEF parameters, enumerated, skips
  <2>3. DOMAIN f.params = 1 .. Len(f.params) /\ Len(f.params) \in Nat
    BY <1>2
  <2>4. DOMAIN parts = DOMAIN f.params /\ Len(parts) = Len(f.params)
    BY <2>3
  <2>5. ASSUME NEW i \in DOMAIN f.params
        PROVE  resolve_type(f.params[i]) \o (IF skips + i < f.count THEN <<",">> ELSE <<>>)
               = parts[i] \o (IF i < Len(parts) THEN <<",">> ELSE <<>>)
    <3>1. f.params[i] \in DOMAIN Types
      BY <1>2
    <3>2. resolve_type(f.params[i]) = parts[i]
      BY <3>1, TypesAreDeclared, ResolvedIsDeclared
    <3>3. skips + i < f.count <=> i < Len(parts)
      <4>1. skips \in Int /\ i \in Int /\ Len(f.params) \in Int
        BY <1>2, <2>3
      <4> HIDE DEF parts
      <4> QED BY <2>1, <2>4, <4>1
    <3> HIDE DEF parts
    <3> QED BY <3>2, <3>3
  <2> HIDE DEF parts
  <2>6. separated(parts) = FlattenSeq([i \in DOMAIN f.params |->
                             parts[i] \o (IF i < Len(parts) THEN <<",">> ELSE <<>>)])
    BY <2>4 DEF separated
  <2>7. parameters(f) = separated(parts)
    BY <2>2, <2>5, <2>6
  <2> QED BY <2>7 DEF parts
<1> QED BY <1>3, <1>4

\* What resolve_frame makes of an address with a session.
FrameOf(frame, addr, session) ==
  LET f == Functions[addr]
  IN /\ frame.raw = addr
     /\ f.module \in session => frame.symbol # <<>>
     /\ frame.symbol # <<>> => f.module \in session /\ frame.symbol[1] = f.name
     /\ Len(frame.symbol) > 1 /\ f.complete =>
          frame.symbol = <<f.name, "(">>
            \o separated([i \in DOMAIN f.params |-> Declared[f.params[i]][<<>>]]) \o <<")">>

LEMMA FramesAreRight ==
  ASSUME NEW addr \in DOMAIN Functions, NEW session, NEW frame \in frames_of(addr, session)
  PROVE  FrameOf(frame, addr, session)
<1> DEFINE f == Functions[addr]
           named == [raw |-> addr, symbol |-> <<f.name>>, line |-> f.line]
           signature == <<f.name, "(">> \o parameters(f) \o <<")">>
           declared == <<f.name, "(">>
                       \o separated([i \in DOMAIN f.params |-> Declared[f.params[i]][<<>>]]) \o <<")">>
<1>1. parameters(f) \in Word /\ (f.complete => signature = declared)
  BY ParametersAreDeclared
<1>2. <<f.name>> # <<>> /\ <<f.name>>[1] = f.name /\ Len(<<f.name>>) = 1
  OBVIOUS
<1>3. signature[1] = f.name /\ signature # <<>>
  <2> DEFINE A == Tokens \cup {f.name}
  <2>1. parameters(f) \in Seq(A)
    BY <1>1 DEF Word
  <2>2. "(" \in A /\ ")" \in A /\ f.name \in A
    BY DEF Tokens
  <2> HIDE DEF A, f
  <2>3. <<f.name, "(">> \o parameters(f) \in Seq(A) /\ (<<f.name, "(">> \o parameters(f))[1] = f.name
        /\ Len(<<f.name, "(">> \o parameters(f)) >= 2
    BY <2>1, <2>2
  <2> DEFINE front == <<f.name, "(">> \o parameters(f)
  <2> HIDE DEF front
  <2>4. front \in Seq(A) /\ front[1] = f.name /\ Len(front) >= 2
    BY <2>3 DEF front
  <2>5. (front \o <<")">>)[1] = f.name /\ front \o <<")">> # <<>>
    BY <2>2, <2>4
  <2> QED BY <2>5 DEF front
<1> HIDE DEF f, signature, declared
<1>4. CASE frame = unknown(addr) /\ f.module \notin session
  <2>1. frame.symbol = <<>> /\ frame.raw = addr
    BY <1>4 DEF unknown
  <2> QED BY <1>4, <2>1 DEF f, FrameOf
<1>5. CASE frame = named /\ f.module \in session
  BY <1>2, <1>5 DEF f, FrameOf
<1>6. CASE frame = [named EXCEPT !.symbol = signature] /\ f.module \in session
  <2>1. frame.symbol = signature /\ frame.raw = addr
    BY <1>6
  <2> QED BY <1>1, <1>3, <1>6, <2>1 DEF f, declared, FrameOf
<1>7. \/ frame = unknown(addr) /\ f.module \notin session
      \/ frame = named /\ f.module \in session
      \/ frame = [named EXCEPT !.symbol = signature] /\ f.module \in session
  BY DEF frames_of, f, signature
<1> QED BY <1>4, <1>5, <1>6, <1>7

LEMMA ResolvedIsRight ==
  ASSUME DbghelpInv, NEW t \in Callers, resolve_frame(t)
  PROVE  FrameIsRight'
<1> DEFINE handle == caller[t].info.handle
<1>1. announced' = announced
  BY DEF resolve_frame
<1>2. CASE last' = Nothing
  BY <1>2 DEF FrameIsRight, Nothing
<1>3. ASSUME NEW addr \in DOMAIN Functions,
             NEW frame \in frames_of(addr, sessions[handle]),
             last' = [frame |-> frame, known |-> loaded, threw |-> FALSE]
      PROVE  FrameIsRight'
  <2>1. handle \in DOMAIN sessions
    <3>1. SessionsAreSound /\ at(t, "use") /\ ~at(t, "idle")
      BY InvIsSound DEF resolve_frame, at
    <3> QED BY <3>1 DEF SessionsAreSound
  <2>2. {Program} \cup announced \subseteq sessions[handle] /\ sessions[handle] \subseteq loaded
    BY <2>1 DEF DbghelpInv, KnownInv
  <2>3. last'.frame = frame /\ last'.known = loaded
    BY <1>3
  <2> DEFINE session == sessions[handle]
  <2> HIDE DEF session
  <2>4. FrameOf(frame, addr, session)
    BY <1>3, FramesAreRight DEF session
  <2>5. {Program} \cup announced' \subseteq session /\ session \subseteq last'.known
    BY <1>1, <2>2, <2>3 DEF session
  <2>6. frame = last'.frame /\ addr = last'.frame.raw
    BY <2>3, <2>4 DEF FrameOf
  <2> QED BY <2>4, <2>5, <2>6 DEF FrameIsRight, FrameOf
<1>4. ASSUME NEW addr \in DOMAIN Functions,
             last' = [frame |-> unknown(addr), known |-> loaded, threw |-> TRUE]
      PROVE  FrameIsRight'
  <2>1. last'.threw /\ last'.frame.symbol = <<>>
    BY <1>4 DEF unknown
  <2>2. ~(Len(last'.frame.symbol) > 1)
    BY <2>1
  <2> QED BY <2>1, <2>2 DEF FrameIsRight
<1> QED BY <1>2, <1>3, <1>4 DEF resolve_frame, fail

LEMMA FrameStays ==
  ASSUME FrameIsRight, DbghelpInv, [DbghelpNext]_dbghelp_vars
  PROVE  FrameIsRight'
<1>1. ASSUME last' = last, announced' = announced PROVE FrameIsRight'
  BY <1>1 DEF FrameIsRight
<1>2. ASSUME last' = Nothing PROVE FrameIsRight'
  BY <1>2 DEF FrameIsRight
<1>3. ASSUME NEW t \in Callers, begin(t) \/ ensure_syminit(t) PROVE FrameIsRight'
  BY <1>1, <1>3 DEF begin, ensure_syminit
<1>4. ASSUME NEW t \in Callers, sym_initialize(t) PROVE FrameIsRight'
  BY <1>1, <1>2, <1>4 DEF sym_initialize, fail
<1>5. ASSUME NEW t \in Callers, keep_session(t) PROVE FrameIsRight'
  BY <1>1, <1>2, <1>5 DEF keep_session, fail
<1>6. ASSUME NEW t \in Callers, next_frame(t) PROVE FrameIsRight'
  BY <1>2, <1>6 DEF next_frame
<1>7. ASSUME NEW t \in Callers, load_symbols(t) PROVE FrameIsRight'
  BY <1>1, <1>7 DEF load_symbols
<1>8. ASSUME NEW t \in Callers, sym_load_module(t) PROVE FrameIsRight'
  BY <1>2, <1>8 DEF sym_load_module, fail
<1>9. ASSUME NEW t \in Callers, finish(t) PROVE FrameIsRight'
  BY <1>1, <1>9 DEF finish
<1>10. ASSUME set_cache_mode \/ load_library PROVE FrameIsRight'
  BY <1>1, <1>10 DEF set_cache_mode, load_library
<1>11. ASSUME UNCHANGED dbghelp_vars PROVE FrameIsRight'
  BY <1>1, <1>11 DEF dbghelp_vars
<1> QED BY <1>3, <1>4, <1>5, <1>6, <1>7, <1>8, <1>9, <1>10, <1>11, ResolvedIsRight DEF DbghelpNext

\* A frame has the name of its function and its parameters' types as C++ writes
\* them, for any functions, types, threads, handles and libraries.
THEOREM FramesAreNamed == DbghelpSpec => []FrameIsRight
<1>1. DbghelpInit => FrameIsRight
  BY DEF DbghelpInit, FrameIsRight
<1> QED BY <1>1, FrameStays, DbghelpInvariant, PTL DEF DbghelpSpec
==============================================================================
