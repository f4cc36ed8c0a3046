-------------------------- MODULE ObjectFileProofs --------------------------
(***************************************************************************)
(* Proofs about the object files that symbols are read from.               *)
(*                                                                         *)
(* ElfObject, for any number of threads, calls and files: a part of the    *)
(* shared elf is read at most once; as long as a shared elf is not used    *)
(* for object frames, no two threads race on it, and what every caller is  *)
(* told depends on the file alone.                                         *)
(*                                                                         *)
(* DebugMap, and below it MachO, for any files that were written by linker *)
(* and compiler, and may be missing or cut: what is read of a file is what *)
(* was written for this machine, the resolver knows the linker's map, each *)
(* frame is resolved where its function is in its object, and an object    *)
(* that cannot be opened is not tried again as long as the resolver of the *)
(* program is there.                                                       *)
(***************************************************************************)
EXTENDS ElfObject, DebugMap, SequenceLemmas

Call == [part : Parts, at : Stages]
Users == Threads \cup {Shared}
StringTables == {"strtab", "dynstr"}
Locating == {"base", "program headers", "has base"}
PCs == {"idle", "unlocated", "located"} \cup Locating \cup Resolving

TypeOK ==
  /\ setting \in Settings
  /\ loaded \in [Users -> SUBSET Parts] /\ tried \in [Users -> SUBSET Parts]
  /\ base_cached \in BOOLEAN
  /\ pc \in [Threads -> PCs]
  /\ calls \in [Threads -> Seq(Call)]
  /\ ret \in [Threads -> {"ok", "error"}]
  /\ base_answer \in [Threads -> {None, "ok", "error"}]
  /\ symbol_answer \in [Threads -> {None, "found", "not found"}]
  /\ reads \in [Parts -> Nat]

\* Each lock is held by the thread that is at the stage it protects.
LocksAreHeld ==
  \A t \in Threads : /\ pc[t] \in Locating <=> base_lock = t
                     /\ pc[t] \in Resolving <=> resolve_lock = t

\* The get_ functions a thread is in: the one its stage calls, then what each
\* needs.  All but the last wait for the next.
Asked(t) == IF pc[t] = "base" THEN "header" ELSE pc[t]
CallsAreNested ==
  \A t \in Threads :
    /\ In(t) => /\ pc[t] \in {"base"} \cup Tables \cup StringTables
                /\ calls[t][1].part = Asked(t)
    /\ \A i \in 1 .. Len(calls[t]) :
         /\ calls[t][i].at = "needs" => calls[t][i].part # "header"
         /\ i > 1 => /\ calls[t][i - 1].at = "needs"
                     /\ calls[t][i].part = Needs(calls[t][i - 1].part)

\* A call that will still read its part, or fail, has marked it as tried.  No
\* two such calls are about the same part of an elf.
Pending(t, i) == i \in 1 .. Len(calls[t]) /\ calls[t][i].at \in {"needs", "read"}
PendingIsTried ==
  \A t \in Threads, i \in Nat :
    Pending(t, i) => /\ calls[t][i].part \in tried[Elf(t)]
                     /\ calls[t][i].part \notin loaded[Elf(t)]
                     /\ SharedElf => reads[calls[t][i].part] = 0
PendingIsUnique ==
  \A t, u \in Threads, i, j \in Nat :
    /\ Pending(t, i) /\ Pending(u, j)
    /\ Elf(t) = Elf(u) /\ calls[t][i].part = calls[u][j].part
    => t = u /\ i = j
LoadedIsTried == \A e \in Users : loaded[e] \subseteq tried[e]
UntriedIsUnread == \A p \in Parts : reads[p] # 0 => SharedElf /\ p \in tried[Shared]

ReadInv ==
  /\ TypeOK /\ LocksAreHeld /\ CallsAreNested /\ PendingIsTried /\ PendingIsUnique
  /\ LoadedIsTried /\ UntriedIsUnread /\ ReadOnce

\* A shared elf is used for raw traces only, and has program headers.
SafeUse ==
  SharedElf => "objects" \notin setting.uses /\ "program headers" \notin file.corrupt

\* Only a file that can be opened is looked into.
OpenedIfAsked ==
  \A t \in Threads :
    In(t) \/ pc[t] \in {"base", "program headers"} \cup Tables \cup StringTables => Opens

\* Once a thread has been through get_module_image_base the header of a shared
\* elf is settled: it was tried and no one reads it.
HeaderSettled ==
  /\ "header" \in tried[Shared]
  /\ \A t \in Threads, i \in Nat : Pending(t, i) => calls[t][i].part # "header"
PastBase(t) ==
  \/ base_cached \/ (pc[t] = "base" /\ ~In(t))
  \/ pc[t] \in {"program headers", "has base", "located"} \cup Resolving
HeaderIsSettled == SharedElf /\ Opens => \A t \in Threads : PastBase(t) => HeaderSettled

RaceInv == OpenedIfAsked /\ (SafeUse => HeaderIsSettled)

\* The file can be read as far as a part.
Closure(part) ==
  {part} \cup (IF part = "header" THEN {} ELSE {"header", "sections"})
ReadableTo(part) == Readable(Closure(part))
ForBase == {"magic", "header", "program headers"}
HasSymbol(table) ==
  table \in file.holds /\ Readable({"magic", "header", "sections", table, Strings(table)})

\* A part that is loaded was readable, one that was tried and is no longer
\* being read is loaded if it was readable.
LoadedIsReadable == \A e \in Users : \A p \in loaded[e] : ReadableTo(p)
TriedIsSettled ==
  \A e \in Users : \A p \in tried[e] :
    \/ p \in loaded[e] \/ ~ReadableTo(p)
    \/ \E t \in Threads, i \in Nat : Pending(t, i) /\ Elf(t) = e /\ calls[t][i].part = p

\* What the last call returned is right for its caller.
ReturnsAreRight ==
  \A t \in Threads :
    /\ At(t, "tried?") => Current(t).part \notin loaded[Elf(t)]
    /\ At(t, "needs") => (ret[t] = "ok" <=> ReadableTo(Needs(Current(t).part)))
    /\ At(t, "read") /\ Current(t).part # "header" => ReadableTo(Needs(Current(t).part))
    /\ ~In(t) /\ pc[t] = "base" => (ret[t] = "ok" <=> Readable({"magic", "header"}))
    /\ pc[t] = "program headers" => Readable({"magic", "header"})
    /\ pc[t] = "has base" => (ret[t] = "ok" <=> Readable(ForBase))
    /\ ~In(t) /\ pc[t] \in Tables \cup StringTables => (ret[t] = "ok" <=> ReadableTo(pc[t]))

\* How far lookup_symbol has come says which tables have no symbol.
LookupIsRight ==
  /\ base_cached => Readable(ForBase)
  /\ \A t \in Threads :
       /\ pc[t] = "strtab" => ReadableTo("symtab")
       /\ pc[t] = "dynstr" => ReadableTo("dynsym")
       /\ pc[t] \in {"dynsym", "dynstr", "not found"} => ~HasSymbol("symtab")
       /\ pc[t] = "not found" => ~HasSymbol("dynsym")
       /\ pc[t] = "found" => \E table \in Tables : HasSymbol(table)

AnswerInv ==
  /\ LoadedIsReadable /\ TriedIsSettled /\ ReturnsAreRight /\ LookupIsRight
  /\ AnswersMatchFile

-----------------------------------------------------------------------------
\* What a step of a get_ function does to the calls of its thread: the last
\* call returns, goes on to a stage, or calls the function of what it needs.
Returns(t) ==
  /\ Len(calls'[t]) = Len(calls[t]) - 1
  /\ \A i \in 1 .. Len(calls[t]) - 1 : calls'[t][i] = calls[t][i]
GoesOn(t, stage) ==
  /\ Len(calls'[t]) = Len(calls[t])
  /\ \A i \in 1 .. Len(calls[t]) - 1 : calls'[t][i] = calls[t][i]
  /\ calls'[t][Len(calls[t])] = [part |-> Current(t).part, at |-> stage]
CallsNeeded(t) ==
  /\ Len(calls'[t]) = Len(calls[t]) + 1
  /\ \A i \in 1 .. Len(calls[t]) - 1 : calls'[t][i] = calls[t][i]
  /\ calls'[t][Len(calls[t])] = [part |-> Current(t).part, at |-> "needs"]
  /\ calls'[t][Len(calls[t]) + 1] = Get(Needs(Current(t).part))
OthersKeepCalls(t) == \A u \in Threads \ {t} : calls'[u] = calls[u]

\* A thread in a call has a last one.
LEMMA CurrentCall ==
  ASSUME TypeOK, NEW t \in Threads, In(t)
  PROVE  /\ Len(calls[t]) \in Nat /\ Len(calls[t]) >= 1
         /\ Current(t) = calls[t][Len(calls[t])] /\ Current(t) \in Call
         /\ Current(t).part \in Parts /\ Current(t).at \in Stages
<1>1. calls[t] \in Seq(Call) /\ calls[t] # <<>>
  BY DEF TypeOK, In
<1>2. Len(calls[t]) \in Nat /\ Len(calls[t]) >= 1
  BY <1>1, EmptySeq
<1>3. calls[t][Len(calls[t])] \in Call
  BY <1>1, <1>2, ElementOfSeq
<1> QED BY <1>2, <1>3 DEF Current, Call

\* A function returns.
LEMMA ReturnStep ==
  ASSUME TypeOK, NEW t \in Threads, In(t), NEW r, return(t, r)
  PROVE  /\ Returns(t) /\ OthersKeepCalls(t)
         /\ calls' \in [Threads -> Seq(Call)]
         /\ ret' = [ret EXCEPT ![t] = r]
<1> DEFINE s == calls[t]
<1>1. s \in Seq(Call) /\ Len(s) \in Nat /\ Len(s) >= 1
  BY CurrentCall DEF TypeOK
<1>2. \A i \in 1 .. Len(s) - 1 : s[i] \in Call
  BY <1>1, ElementOfSeq
<1>3. /\ Callers(t) \in Seq(Call)
      /\ Len(Callers(t)) = Len(s) - 1
      /\ \A i \in 1 .. Len(s) - 1 : Callers(t)[i] = s[i]
  <2>1. /\ SubSeq(s, 1, Len(s) - 1) \in Seq(Call)
        /\ Len(SubSeq(s, 1, Len(s) - 1))
             = IF 1 <= Len(s) - 1 THEN (Len(s) - 1) - 1 + 1 ELSE 0
        /\ \A i \in 1 .. (Len(s) - 1) - 1 + 1 : SubSeq(s, 1, Len(s) - 1)[i] = s[1 + i - 1]
    BY <1>1, <1>2, SubSeqProperties
  <2> QED BY <1>1, <2>1 DEF Callers
<1>4. calls' = [calls EXCEPT ![t] = Callers(t)]
  BY DEF return
<1> QED BY <1>3, <1>4 DEF return, Returns, OthersKeepCalls, TypeOK

\* A function goes on.
LEMMA MoveStep ==
  ASSUME TypeOK, NEW t \in Threads, In(t), NEW stage \in Stages,
         calls' = move_to(t, stage)
  PROVE  /\ GoesOn(t, stage) /\ OthersKeepCalls(t)
         /\ calls' \in [Threads -> Seq(Call)]
<1> DEFINE s == calls[t]  n == Len(s)  c == [part |-> Current(t).part, at |-> stage]
<1>1. s \in Seq(Call) /\ n \in Nat /\ n >= 1
  BY CurrentCall DEF TypeOK
<1>2. c \in Call /\ [s[n] EXCEPT !.at = stage] = c
  BY CurrentCall DEF Call
<1>3. calls' = [calls EXCEPT ![t] = [s EXCEPT ![n] = c]]
  BY <1>2 DEF move_to, TypeOK
<1>4. /\ [s EXCEPT ![n] = c] \in Seq(Call)
      /\ Len([s EXCEPT ![n] = c]) = n
      /\ \A j \in 1 .. n : [s EXCEPT ![n] = c][j] = IF j = n THEN c ELSE s[j]
  BY <1>1, <1>2, ExceptSeq
<1>5. calls'[t] = [s EXCEPT ![n] = c] /\ OthersKeepCalls(t)
  BY <1>3 DEF TypeOK, OthersKeepCalls
<1>6. calls' \in [Threads -> Seq(Call)]
  BY <1>3, <1>4 DEF TypeOK
<1>7. GoesOn(t, stage)
  <2> HIDE DEF c
  <2>1. \A j \in 1 .. n : calls'[t][j] = IF j = n THEN c ELSE s[j]
    BY <1>4, <1>5
  <2>2. calls'[t][n] = c /\ \A j \in 1 .. n - 1 : calls'[t][j] = s[j]
    BY <1>1, <2>1
  <2>3. Len(calls'[t]) = n
    BY <1>4, <1>5
  <2> QED BY <2>2, <2>3 DEF GoesOn, c
<1> QED BY <1>5, <1>6, <1>7

\* A function calls that of the part it needs.
LEMMA CallStep ==
  ASSUME TypeOK, NEW t \in Threads, In(t), Needs(Current(t).part) \in Parts,
         calls' = [move_to(t, "needs") EXCEPT ![t] = Append(@, Get(Needs(Current(t).part)))]
  PROVE  /\ CallsNeeded(t) /\ OthersKeepCalls(t)
         /\ calls' \in [Threads -> Seq(Call)]
<1> DEFINE s == calls[t]  n == Len(s)  c == [part |-> Current(t).part, at |-> "needs"]
           d == Get(Needs(Current(t).part))
           m == [s EXCEPT ![n] = c]
<1>1. s \in Seq(Call) /\ n \in Nat /\ n >= 1
  BY CurrentCall DEF TypeOK
<1>2. c \in Call /\ [s[n] EXCEPT !.at = "needs"] = c /\ d \in Call
  BY CurrentCall DEF Call, Get, Stages
<1>3. move_to(t, "needs") = [calls EXCEPT ![t] = m]
  BY <1>2 DEF move_to, TypeOK
<1>4. /\ m \in Seq(Call)
      /\ Len(m) = n
      /\ \A j \in 1 .. n : m[j] = IF j = n THEN c ELSE s[j]
  BY <1>1, <1>2, ExceptSeq
<1>5. /\ Append(m, d) \in Seq(Call)
      /\ Len(Append(m, d)) = n + 1
      /\ \A j \in 1 .. n : Append(m, d)[j] = m[j]
      /\ Append(m, d)[n + 1] = d
  BY <1>2, <1>4, AppendProperties
<1>6. calls' = [calls EXCEPT ![t] = Append(m, d)]
  BY <1>3, <1>4 DEF TypeOK
<1>7. calls'[t] = Append(m, d) /\ OthersKeepCalls(t)
  BY <1>6 DEF TypeOK, OthersKeepCalls
<1>4a. calls' \in [Threads -> Seq(Call)]
  BY <1>5, <1>6 DEF TypeOK
<1>9. CallsNeeded(t)
  <2> HIDE DEF c, d, m
  <2>1. \A j \in 1 .. n : calls'[t][j] = IF j = n THEN c ELSE s[j]
    BY <1>4, <1>5, <1>7
  <2>2. calls'[t][n] = c /\ \A j \in 1 .. n - 1 : calls'[t][j] = s[j]
    <3>1. n \in 1 .. n /\ \A j \in 1 .. n - 1 : j \in 1 .. n /\ j # n
      BY <1>1
    <3> HIDE DEF n, s
    <3> QED BY <2>1, <3>1
  <2>3. Len(calls'[t]) = n + 1 /\ calls'[t][n + 1] = d
    BY <1>5, <1>7
  <2> QED BY <2>2, <2>3 DEF CallsNeeded, c, d
<1> QED BY <1>7, <1>4a, <1>9

\* A sequence of calls is empty if and only if it has no length.
LEMMA NonEmpty == \A s \in Seq(Call) : Len(s) \in Nat /\ (s # <<>> <=> Len(s) >= 1)
BY EmptySeq

\* No call is pending in a thread that is in none or has just begun one.
LEMMA BegunIsNotPending ==
  ASSUME NEW t \in Threads, NEW p \in Parts,
         calls'[t] = <<>> \/ calls'[t] = <<Get(p)>>
  PROVE  /\ \A i \in Nat : ~Pending(t, i)'
         /\ \A i \in 1 .. Len(calls'[t]) :
              i = 1 /\ calls'[t][i].at = "loaded?" /\ calls'[t][i].part = p
BY DEF Pending, Get

\* The calls that are pending after a step of a get_ function were pending
\* before, or the last one has become so.
LEMMA PendingAfter ==
  ASSUME TypeOK, NEW t \in Threads, In(t), NEW stage \in Stages,
         Returns(t) \/ GoesOn(t, stage) \/ CallsNeeded(t)
  PROVE  \A i \in Nat : Pending(t, i)' =>
           /\ i \in 1 .. Len(calls[t])
           /\ calls'[t][i].part = calls[t][i].part
           /\ i < Len(calls[t]) => Pending(t, i)
           /\ i = Len(calls[t]) => GoesOn(t, "read") \/ GoesOn(t, "needs") \/ CallsNeeded(t)
<1> SUFFICES ASSUME NEW i \in Nat, Pending(t, i)'
             PROVE  /\ i \in 1 .. Len(calls[t])
                    /\ calls'[t][i].part = calls[t][i].part
                    /\ i < Len(calls[t]) => Pending(t, i)
                    /\ i = Len(calls[t]) => \/ GoesOn(t, "read") \/ GoesOn(t, "needs")
                                            \/ CallsNeeded(t)
  OBVIOUS
<1>1. /\ Len(calls[t]) \in Nat /\ Len(calls[t]) >= 1
      /\ Current(t) = calls[t][Len(calls[t])]
  BY CurrentCall
<1>2. i \in 1 .. Len(calls'[t]) /\ calls'[t][i].at \in {"needs", "read"}
  BY DEF Pending
<1>3. CASE Returns(t)
  BY <1>1, <1>2, <1>3 DEF Returns, Pending
<1>4. CASE GoesOn(t, stage)
  <2>1. CASE i = Len(calls[t])
    <3>1. calls'[t][i].part = Current(t).part /\ calls'[t][i].at = stage
      BY <1>4, <2>1 DEF GoesOn
    <3> QED BY <1>1, <1>2, <1>4, <2>1, <3>1
  <2>2. CASE i # Len(calls[t])
    BY <1>1, <1>2, <1>4, <2>2 DEF GoesOn, Pending
  <2> QED BY <2>1, <2>2
<1>5. CASE CallsNeeded(t)
  <2>1. CASE i = Len(calls[t])
    BY <1>1, <1>5, <2>1 DEF CallsNeeded
  <2>2. CASE i = Len(calls[t]) + 1
    <3>1. calls'[t][i].at = "loaded?"
      BY <1>5, <2>2 DEF CallsNeeded, Get
    <3> QED BY <1>2, <3>1
  <2>3. CASE i < Len(calls[t])
    BY <1>1, <1>2, <1>5, <2>3 DEF CallsNeeded, Pending
  <2> QED BY <1>1, <1>2, <1>5, <2>1, <2>2, <2>3 DEF CallsNeeded
<1> QED BY <1>3, <1>4, <1>5

\* A step of a get_ function keeps calls nested.
LEMMA NestedAfter ==
  ASSUME TypeOK, CallsAreNested, NEW t \in Threads, In(t), NEW stage \in Stages,
         Returns(t) \/ GoesOn(t, stage) \/ CallsNeeded(t),
         GoesOn(t, stage) => stage # "needs",
         CallsNeeded(t) => Current(t).part # "header",
         OthersKeepCalls(t), calls' \in [Threads -> Seq(Call)], pc' = pc
  PROVE  CallsAreNested'
<1> SUFFICES ASSUME NEW u \in Threads
             PROVE  /\ In(u)' => /\ pc[u] \in {"base"} \cup Tables \cup StringTables
                                 /\ calls'[u][1].part = Asked(u)
                    /\ \A i \in 1 .. Len(calls'[u]) :
                         /\ calls'[u][i].at = "needs" => calls'[u][i].part # "header"
                         /\ i > 1 => /\ calls'[u][i - 1].at = "needs"
                                     /\ calls'[u][i].part = Needs(calls'[u][i - 1].part)
  BY DEF CallsAreNested, Asked
<1>1. CASE u # t
  BY <1>1, SMTT(30) DEF OthersKeepCalls, CallsAreNested, In
<1>2. CASE u = t
  <2> DEFINE n == Len(calls[t])
  <2>1. n \in Nat /\ n >= 1 /\ Current(t) = calls[t][n]
    BY CurrentCall
  <2>2. /\ pc[t] \in {"base"} \cup Tables \cup StringTables
        /\ calls[t][1].part = Asked(t)
        /\ \A i \in 1 .. n :
             /\ calls[t][i].at = "needs" => calls[t][i].part # "header"
             /\ i > 1 => /\ calls[t][i - 1].at = "needs"
                         /\ calls[t][i].part = Needs(calls[t][i - 1].part)
    BY DEF CallsAreNested
  <2>3. In(t)' <=> Len(calls'[t]) >= 1
    BY NonEmpty DEF In
  <2>4. \A i \in 1 .. n - 1 : calls'[t][i] = calls[t][i]
    BY DEF Returns, GoesOn, CallsNeeded
  <2>5. \A i \in 1 .. Len(calls'[t]) :
          i <= n + 1 /\ (i <= n => calls'[t][i].part = calls[t][i].part)
    <3>1. CASE Returns(t)
      <4>1. Len(calls'[t]) = n - 1
        BY <3>1 DEF Returns
      <4> QED BY <2>1, <2>4, <4>1
    <3>2. CASE GoesOn(t, stage)
      <4>1. Len(calls'[t]) = n /\ calls'[t][n].part = calls[t][n].part
        BY <2>1, <3>2 DEF GoesOn
      <4> QED BY <2>1, <2>4, <4>1, SMTT(30)
    <3>3. CASE CallsNeeded(t)
      <4>1. Len(calls'[t]) = n + 1 /\ calls'[t][n].part = calls[t][n].part
        BY <2>1, <3>3 DEF CallsNeeded
      <4> QED BY <2>1, <2>4, <4>1
    <3> QED BY <3>1, <3>2, <3>3
  <2>6. /\ n \in 1 .. Len(calls'[t]) /\ calls'[t][n].at = "needs" => CallsNeeded(t)
        /\ n + 1 \in 1 .. Len(calls'[t]) => CallsNeeded(t)
    BY <2>1 DEF Returns, GoesOn
  <2>7. CallsNeeded(t) => /\ calls'[t][n].part = calls[t][n].part
                          /\ calls'[t][n].at = "needs"
                          /\ calls'[t][n + 1].at = "loaded?"
                          /\ calls'[t][n + 1].part = Needs(calls[t][n].part)
    BY <2>1 DEF CallsNeeded, Get
  <2>8. In(t)' => /\ pc[t] \in {"base"} \cup Tables \cup StringTables
                  /\ calls'[t][1].part = Asked(t)
    BY <2>1, <2>2, <2>3, <2>5
  <2>9. ASSUME NEW i \in 1 .. Len(calls'[t])
        PROVE  /\ calls'[t][i].at = "needs" => calls'[t][i].part # "header"
               /\ i > 1 => /\ calls'[t][i - 1].at = "needs"
                           /\ calls'[t][i].part = Needs(calls'[t][i - 1].part)
    <3> i \in Nat /\ i >= 1 /\ i <= n + 1
      BY <2>5
    <3>1. CASE i < n
      <4>1. /\ calls'[t][i] = calls[t][i] /\ i \in 1 .. n
            /\ i > 1 => calls'[t][i - 1] = calls[t][i - 1]
        BY <2>1, <2>4, <3>1
      <4> QED BY <2>2, <4>1
    <3>2. CASE i = n
      <4>1. calls'[t][i].part = calls[t][i].part
        BY <2>1, <2>5, <3>2
      <4>2. i > 1 => calls'[t][i - 1] = calls[t][i - 1]
        BY <2>1, <2>4, <3>2
      <4>3. calls'[t][i].at = "needs" => calls'[t][i].part # "header"
        BY <2>1, <2>6, <3>2, <4>1
      <4> QED BY <2>1, <2>2, <3>2, <4>1, <4>2, <4>3
    <3>3. CASE i = n + 1
      <4>1. CallsNeeded(t) /\ i - 1 = n
        BY <2>1, <2>6, <3>3
      <4> QED BY <2>7, <3>3, <4>1
    <3> QED BY <2>1, <3>1, <3>2, <3>3
  <2> QED BY <1>2, <2>8, <2>9
<1> QED BY <1>1, <1>2

\* A thread that is in no call and begins one for its stage, or none, keeps
\* calls nested.
LEMMA NestedBegun ==
  ASSUME TypeOK, CallsAreNested, NEW t \in Threads, NEW p \in Parts,
         calls'[t] = <<>> \/ calls'[t] = <<Get(p)>>,
         calls'[t] # <<>> => /\ pc'[t] \in {"base"} \cup Tables \cup StringTables
                             /\ p = IF pc'[t] = "base" THEN "header" ELSE pc'[t],
         \A u \in Threads \ {t} : calls'[u] = calls[u] /\ pc'[u] = pc[u]
  PROVE  CallsAreNested'
<1> SUFFICES ASSUME NEW u \in Threads
             PROVE  /\ In(u)' => /\ pc'[u] \in {"base"} \cup Tables \cup StringTables
                                 /\ calls'[u][1].part = IF pc'[u] = "base" THEN "header" ELSE pc'[u]
                    /\ \A i \in 1 .. Len(calls'[u]) :
                         /\ calls'[u][i].at = "needs" => calls'[u][i].part # "header"
                         /\ i > 1 => /\ calls'[u][i - 1].at = "needs"
                                     /\ calls'[u][i].part = Needs(calls'[u][i - 1].part)
  BY DEF CallsAreNested, Asked
<1>1. CASE u # t
  BY <1>1 DEF CallsAreNested, In, Asked
<1>2. CASE u = t
  BY <1>2, BegunIsNotPending DEF In, Get
<1> QED BY <1>1, <1>2

-----------------------------------------------------------------------------
\* The names of parts, tables and stages.
LEMMA Names ==
  /\ StringTables \subseteq Parts /\ Tables \subseteq Parts /\ {"header", "sections"} \subseteq Parts
  /\ \A p \in Parts : p # "header" => Needs(p) \in Parts /\ Needs(p) # None
  /\ Needs("header") = None
  /\ \A p \in Parts : Needs(p) = None \/ p # "header"
  /\ \A table \in Tables : Strings(table) \in StringTables /\ Strings(table) # table
  /\ Tables \cup StringTables \subseteq Resolving
  /\ Locating \cap Resolving = {} /\ "located" \notin Resolving \cup Locating
  /\ "base" \in Locating
  /\ Stages = {"loaded?", "tried?", "needs", "read"}
BY ElfAssumption DEF StringTables, Tables, Parts, Needs, Strings, Resolving, Locating, Stages

\* A thread uses an elf.
LEMMA Elves ==
  ASSUME TypeOK, NEW t \in Threads
  PROVE  Elf(t) \in Users /\ (SharedElf => Elf(t) = Shared) /\ (~SharedElf => Elf(t) = t)
BY DEF Elf, Users

\* A step that makes no call pending and leaves the flags alone.
LEMMA PendingKept ==
  ASSUME ReadInv, NEW t \in Threads, UNCHANGED <<setting, flags>>, OthersKeepCalls(t),
         \A i \in Nat : Pending(t, i)' => /\ Pending(t, i)
                                          /\ calls'[t][i].part = calls[t][i].part
  PROVE  /\ PendingIsTried' /\ PendingIsUnique' /\ LoadedIsTried' /\ UntriedIsUnread'
         /\ ReadOnce'
<1>1. \A u \in Threads, i \in Nat :
        Pending(u, i)' => Pending(u, i) /\ calls'[u][i].part = calls[u][i].part
  BY DEF OthersKeepCalls, Pending
<1>2. PendingIsTried'
  BY <1>1 DEF ReadInv, PendingIsTried, flags, Elf, SharedElf
<1>3. PendingIsUnique'
  BY <1>1 DEF ReadInv, PendingIsUnique, Elf, SharedElf
<1>4. LoadedIsTried' /\ UntriedIsUnread' /\ ReadOnce'
  BY DEF ReadInv, LoadedIsTried, UntriedIsUnread, ReadOnce, flags, SharedElf
<1> QED BY <1>2, <1>3, <1>4

LEMMA CheckLoadedRead ==
  ASSUME ReadInv, NEW t \in Threads, check_loaded(t)
  PROVE  /\ ReadInv' /\ OthersKeepCalls(t)
         /\ (Returns(t) /\ ret'[t] = "ok") \/ GoesOn(t, "tried?")
<1>1. TypeOK /\ In(t) /\ "tried?" \in Stages
  BY DEF ReadInv, check_loaded, At, Stages
<1>2. /\ \/ Returns(t) /\ ret' = [ret EXCEPT ![t] = "ok"]
         \/ GoesOn(t, "tried?") /\ ret' = ret
      /\ OthersKeepCalls(t) /\ calls' \in [Threads -> Seq(Call)]
  BY <1>1, ReturnStep, MoveStep DEF check_loaded
<1>3. UNCHANGED <<setting, flags, locks, pc, answers>>
  BY DEF check_loaded, step
<1>4. TypeOK' /\ LocksAreHeld'
  BY <1>2, <1>3 DEF ReadInv, TypeOK, LocksAreHeld, flags, locks, answers
<1>4a. ~CallsNeeded(t)
  BY <1>1, <1>2, CurrentCall DEF Returns, GoesOn, CallsNeeded
<1>5. CallsAreNested'
  <2>1. pc' = pc /\ CallsAreNested
    BY <1>3 DEF ReadInv
  <2>2. CASE Returns(t)
    BY <1>1, <1>2, <1>4a, <2>1, <2>2, NestedAfter
  <2>3. CASE GoesOn(t, "tried?")
    BY <1>1, <1>2, <1>4a, <2>1, <2>3, NestedAfter
  <2> QED BY <1>2, <2>2, <2>3
<1>6. \A i \in Nat : Pending(t, i)' => /\ Pending(t, i)
                                       /\ calls'[t][i].part = calls[t][i].part
  <2>1. ~GoesOn(t, "read") /\ ~GoesOn(t, "needs") /\ ~CallsNeeded(t)
    BY <1>1, <1>2, CurrentCall DEF Returns, GoesOn, CallsNeeded
  <2>2. Len(calls[t]) \in Nat
    BY <1>1, CurrentCall
  <2> QED BY <1>1, <1>2, <2>1, <2>2, PendingAfter
<1>7. (Returns(t) /\ ret'[t] = "ok") \/ GoesOn(t, "tried?")
  BY <1>1, <1>2 DEF TypeOK
<1> QED BY <1>2, <1>3, <1>4, <1>5, <1>6, <1>7, PendingKept DEF ReadInv

LEMMA CheckNeededRead ==
  ASSUME ReadInv, NEW t \in Threads, check_needed(t)
  PROVE  /\ ReadInv' /\ OthersKeepCalls(t)
         /\ Returns(t) \/ GoesOn(t, "read")
<1>1. TypeOK /\ In(t) /\ "read" \in Stages /\ Current(t).at = "needs"
  BY DEF ReadInv, check_needed, At, Stages
<1>2. /\ \/ Returns(t) /\ ret' = [ret EXCEPT ![t] = "error"]
         \/ GoesOn(t, "read") /\ ret' = ret
      /\ OthersKeepCalls(t) /\ calls' \in [Threads -> Seq(Call)]
  BY <1>1, ReturnStep, MoveStep DEF check_needed
<1>3. UNCHANGED <<setting, flags, locks, pc, answers>>
  BY DEF check_needed, step
<1>4. TypeOK' /\ LocksAreHeld'
  BY <1>2, <1>3 DEF ReadInv, TypeOK, LocksAreHeld, flags, locks, answers
<1>4a. ~CallsNeeded(t)
  BY <1>1, <1>2, CurrentCall DEF Returns, GoesOn, CallsNeeded
<1>5. CallsAreNested'
  <2>1. pc' = pc /\ CallsAreNested
    BY <1>3 DEF ReadInv
  <2>2. CASE Returns(t)
    BY <1>1, <1>2, <1>4a, <2>1, <2>2, NestedAfter
  <2>3. CASE GoesOn(t, "read")
    BY <1>1, <1>2, <1>4a, <2>1, <2>3, NestedAfter
  <2> QED BY <1>2, <2>2, <2>3
<1>6. \A i \in Nat : Pending(t, i)' => /\ Pending(t, i)
                                       /\ calls'[t][i].part = calls[t][i].part
  <2>1. Len(calls[t]) \in Nat /\ Pending(t, Len(calls[t]))
    BY <1>1, CurrentCall DEF Pending
  <2> QED BY <1>1, <1>2, <2>1, PendingAfter
<1> QED BY <1>2, <1>3, <1>4, <1>5, <1>6, PendingKept DEF ReadInv

LEMMA CheckTriedRead ==
  ASSUME ReadInv, NEW t \in Threads, check_tried(t)
  PROVE  /\ ReadInv' /\ OthersKeepCalls(t)
         /\ \/ /\ Current(t).part \in tried[Elf(t)] /\ tried' = tried
               /\ Returns(t) /\ ret'[t] = "error"
            \/ /\ Current(t).part \notin tried[Elf(t)]
               /\ tried' = [tried EXCEPT ![Elf(t)] = @ \cup {Current(t).part}]
               /\ IF Current(t).part = "header" THEN GoesOn(t, "read") ELSE CallsNeeded(t)
<1> DEFINE part == Current(t).part  n == Len(calls[t])
<1>1. TypeOK /\ In(t) /\ Stages = {"loaded?", "tried?", "needs", "read"} /\ part \in Parts
  BY CurrentCall, Names DEF ReadInv, check_tried, At
<1>2. n \in Nat /\ n >= 1 /\ Current(t) = calls[t][n] /\ Current(t).at = "tried?"
  BY <1>1, CurrentCall DEF check_tried, At
<1>3. UNCHANGED <<setting, loaded, reads, locks, pc, answers>> /\ Elf(t) \in Users
  BY <1>1, Elves DEF check_tried, step
<1>4. CASE part \in tried[Elf(t)]
  <2>1. return(t, "error") /\ tried' = tried
    BY <1>4 DEF check_tried
  <2>2. /\ Returns(t) /\ OthersKeepCalls(t) /\ calls' \in [Threads -> Seq(Call)]
        /\ ret' = [ret EXCEPT ![t] = "error"]
    BY <1>1, <2>1, ReturnStep
  <2>3. TypeOK' /\ LocksAreHeld' /\ ret'[t] = "error"
    BY <1>3, <2>1, <2>2 DEF ReadInv, TypeOK, LocksAreHeld, locks, answers
  <2>4. ~CallsNeeded(t) /\ ~GoesOn(t, "read") /\ ~GoesOn(t, "needs")
    BY <1>2, <2>2 DEF Returns, GoesOn, CallsNeeded
  <2>5. CallsAreNested'
    <3>1. pc' = pc /\ CallsAreNested
      BY <1>3 DEF ReadInv
    <3> QED BY <1>1, <2>2, <2>4, <3>1, NestedAfter
  <2>6. \A i \in Nat : Pending(t, i)' => /\ Pending(t, i)
                                         /\ calls'[t][i].part = calls[t][i].part
    BY <1>1, <1>2, <2>2, <2>4, PendingAfter
  <2>7. UNCHANGED flags
    BY <1>3, <2>1 DEF flags
  <2> QED BY <1>3, <1>4, <2>1, <2>2, <2>3, <2>5, <2>6, <2>7, PendingKept DEF ReadInv
<1>5. CASE part \notin tried[Elf(t)]
  <2>1. /\ tried' = [tried EXCEPT ![Elf(t)] = @ \cup {part}]
        /\ ret' = [ret EXCEPT ![t] = "ok"]
        /\ IF Needs(part) = None
           THEN calls' = move_to(t, "read")
           ELSE calls' = [move_to(t, "needs") EXCEPT ![t] = Append(@, Get(Needs(part)))]
    BY <1>5 DEF check_tried
  <2>2. /\ OthersKeepCalls(t) /\ calls' \in [Threads -> Seq(Call)]
        /\ IF part = "header" THEN GoesOn(t, "read") ELSE CallsNeeded(t)
    <3>1. CASE part = "header"
      BY <1>1, <2>1, <3>1, MoveStep, Names
    <3>2. CASE part # "header"
      <4>1. Needs(part) \in Parts /\ Needs(part) # None
        BY <1>1, <3>2, Names
      <4> QED BY <1>1, <2>1, <3>2, <4>1, CallStep
    <3> QED BY <3>1, <3>2
  <2>3. tried' \in [Users -> SUBSET Parts]
    BY <1>1, <1>3, <2>1 DEF TypeOK
  <2>4. TypeOK' /\ LocksAreHeld'
    BY <1>3, <2>1, <2>2, <2>3 DEF ReadInv, TypeOK, LocksAreHeld, locks, answers
  <2>5. CallsAreNested'
    <3>1. pc' = pc /\ CallsAreNested
      BY <1>3 DEF ReadInv
    <3>2. CASE part = "header"
      <4>1. ~CallsNeeded(t) /\ GoesOn(t, "read")
        BY <1>2, <2>2, <3>2 DEF GoesOn, CallsNeeded
      <4> QED BY <1>1, <2>2, <3>1, <4>1, NestedAfter
    <3>3. CASE part # "header"
      <4>1. CallsNeeded(t) /\ ~GoesOn(t, "read")
        BY <1>2, <2>2, <3>3, SMTT(30) DEF GoesOn, CallsNeeded
      <4> QED BY <1>1, <2>2, <3>1, <3>3, <4>1, NestedAfter
    <3> QED BY <3>2, <3>3
  <2>6. \A i \in Nat : Pending(t, i)' =>
          calls'[t][i].part = calls[t][i].part /\ (Pending(t, i) \/ i = n)
    BY <1>1, <1>2, <2>2, PendingAfter
  <2>7. \A u \in Threads, i \in Nat : Pending(u, i)' =>
          calls'[u][i].part = calls[u][i].part /\ (Pending(u, i) \/ (u = t /\ i = n))
    BY <2>2, <2>6 DEF OthersKeepCalls, Pending
  <2>8. /\ \A u \in Threads : Elf(u)' = Elf(u) /\ Elf(u) \in Users
        /\ SharedElf' = SharedElf
        /\ \A e \in Users : tried[e] \subseteq tried'[e]
        /\ part \in tried'[Elf(t)]
    BY <1>1, <1>3, <2>1, Elves DEF Elf, SharedElf, TypeOK
  <2>9. part \notin loaded[Elf(t)] /\ (SharedElf => reads[part] = 0)
    BY <1>1, <1>3, <1>5, Elves DEF ReadInv, LoadedIsTried, UntriedIsUnread
  <2>10. PendingIsTried'
    BY <1>2, <1>3, <2>7, <2>8, <2>9 DEF ReadInv, PendingIsTried
  <2>11. PendingIsUnique'
    <3>1. \A u \in Threads, i \in Nat :
            Pending(u, i) => ~(Elf(u) = Elf(t) /\ calls[u][i].part = part)
      BY <1>5 DEF ReadInv, PendingIsTried
    <3> QED BY <1>2, <2>7, <2>8, <3>1 DEF ReadInv, PendingIsUnique
  <2>12. LoadedIsTried' /\ UntriedIsUnread' /\ ReadOnce'
    BY <1>3, <2>8 DEF ReadInv, LoadedIsTried, UntriedIsUnread, ReadOnce, Users
  <2> QED BY <1>5, <2>1, <2>2, <2>4, <2>5, <2>10, <2>11, <2>12 DEF ReadInv
<1> QED BY <1>4, <1>5

LEMMA ReadRead ==
  ASSUME ReadInv, NEW t \in Threads, read(t)
  PROVE  ReadInv' /\ Returns(t) /\ OthersKeepCalls(t)
<1> DEFINE part == Current(t).part  n == Len(calls[t])
<1>1. TypeOK /\ In(t) /\ Stages = {"loaded?", "tried?", "needs", "read"} /\ part \in Parts
  BY CurrentCall, Names DEF ReadInv, read, At
<1>2. n \in Nat /\ n >= 1 /\ Current(t) = calls[t][n] /\ Current(t).at = "read"
  BY <1>1, CurrentCall DEF read, At
<1>3. UNCHANGED <<setting, tried, locks, pc, answers>> /\ Elf(t) \in Users
  BY <1>1, Elves DEF read, step
<1>4. /\ Returns(t) /\ OthersKeepCalls(t) /\ calls' \in [Threads -> Seq(Call)]
      /\ \E r \in {"ok", "error"} : ret' = [ret EXCEPT ![t] = r]
  BY <1>1, ReturnStep DEF read
<1>5. /\ loaded' = loaded \/ loaded' = [loaded EXCEPT ![Elf(t)] = @ \cup {part}]
      /\ reads' = IF SharedElf THEN [reads EXCEPT ![part] = @ + 1] ELSE reads
  BY DEF read
<1>6. loaded' \in [Users -> SUBSET Parts] /\ reads' \in [Parts -> Nat]
  <2>1. loaded \in [Users -> SUBSET Parts] /\ reads \in [Parts -> Nat]
    BY <1>1 DEF TypeOK
  <2>2. loaded' \in [Users -> SUBSET Parts]
    BY <1>1, <1>3, <1>5, <2>1
  <2>3. reads[part] + 1 \in Nat
    BY <1>1, <2>1
  <2>4. reads' \in [Parts -> Nat]
    BY <1>1, <1>5, <2>1, <2>3
  <2> QED BY <2>2, <2>4
<1>7. TypeOK' /\ LocksAreHeld'
  BY <1>3, <1>4, <1>6 DEF ReadInv, TypeOK, LocksAreHeld, locks, answers
<1>8. ~CallsNeeded(t) /\ ~GoesOn(t, "read") /\ ~GoesOn(t, "needs")
  BY <1>2, <1>4 DEF Returns, GoesOn, CallsNeeded
<1>9. CallsAreNested'
  <2>1. pc' = pc /\ CallsAreNested
    BY <1>3 DEF ReadInv
  <2> QED BY <1>1, <1>4, <1>8, <2>1, NestedAfter
<1>10. \A u \in Threads, i \in Nat : Pending(u, i)' =>
         calls'[u][i].part = calls[u][i].part /\ Pending(u, i) /\ ~(u = t /\ i = n)
  BY <1>1, <1>2, <1>4, <1>8, PendingAfter DEF OthersKeepCalls, Pending
<1>11. /\ Pending(t, n) /\ part = calls[t][n].part
       /\ part \in tried[Elf(t)] /\ (SharedElf => reads[part] = 0)
  BY <1>2 DEF ReadInv, PendingIsTried, Pending
<1>12. \A u \in Threads, i \in Nat : Pending(u, i)' =>
         ~(Elf(u) = Elf(t) /\ calls[u][i].part = part)
  BY <1>2, <1>10, <1>11 DEF ReadInv, PendingIsUnique
<1>13. /\ \A u \in Threads : Elf(u)' = Elf(u) /\ Elf(u) \in Users
       /\ SharedElf' = SharedElf
  BY <1>1, <1>3, Elves DEF Elf, SharedElf
<1>14. PendingIsTried'
  <2>1. ASSUME NEW u \in Threads, NEW i \in Nat, Pending(u, i)'
        PROVE  /\ calls'[u][i].part \in tried'[Elf(u)]
               /\ calls'[u][i].part \notin loaded'[Elf(u)]
               /\ SharedElf => reads'[calls'[u][i].part] = 0
    <3>1. /\ calls'[u][i].part = calls[u][i].part /\ Pending(u, i)
          /\ calls[u][i].part \in tried[Elf(u)]
          /\ calls[u][i].part \notin loaded[Elf(u)]
          /\ SharedElf => reads[calls[u][i].part] = 0
      BY <1>10, <2>1 DEF ReadInv, PendingIsTried
    <3>2. calls[u][i].part \notin loaded'[Elf(u)]
      BY <1>1, <1>5, <1>12, <1>13, <2>1, <3>1, ZenonT(60) DEF TypeOK
    <3>3. SharedElf => Elf(u) = Elf(t) /\ calls[u][i].part # part
      BY <1>1, <1>12, <2>1, Elves
    <3> QED BY <1>1, <1>3, <1>5, <3>1, <3>2, <3>3 DEF TypeOK
  <2> QED BY <1>13, <2>1 DEF PendingIsTried
<1>15. PendingIsUnique'
  BY <1>10, <1>13 DEF ReadInv, PendingIsUnique
<1>16. LoadedIsTried'
  <2>1. /\ loaded \in [Users -> SUBSET Parts] /\ tried' = tried
        /\ \A e \in Users : loaded[e] \subseteq tried[e]
    BY <1>1, <1>3 DEF ReadInv, LoadedIsTried, TypeOK
  <2>2. \A e \in Users : loaded'[e] \subseteq tried[e]
    BY <1>3, <1>5, <1>11, <2>1
  <2> QED BY <2>1, <2>2 DEF LoadedIsTried
<1>17. UntriedIsUnread' /\ ReadOnce'
  <2>1. CASE SharedElf
    <3>1. Elf(t) = Shared /\ reads' = [reads EXCEPT ![part] = @ + 1] /\ reads[part] = 0
      BY <1>1, <1>5, <1>11, <2>1, Elves
    <3>2. \A p \in Parts : reads'[p] = IF p = part THEN 1 ELSE reads[p]
      <4>1. reads \in [Parts -> Nat]
        BY <1>1 DEF TypeOK
      <4> QED BY <1>1, <3>1, <4>1
    <3> HIDE DEF part
    <3> QED BY <1>1, <1>3, <1>11, <1>13, <2>1, <3>1, <3>2 DEF ReadInv, UntriedIsUnread, ReadOnce
  <2>2. CASE ~SharedElf
    BY <1>3, <1>5, <2>2 DEF ReadInv, UntriedIsUnread, ReadOnce
  <2> QED BY <2>1, <2>2
<1> QED BY <1>4, <1>7, <1>9, <1>14, <1>15, <1>16, <1>17 DEF ReadInv

-----------------------------------------------------------------------------
\* open_elf_cached gives the caller an elf nothing is loaded from, or the
\* shared one as it is.
LEMMA OpenElf ==
  ASSUME TypeOK, NEW t \in Threads, open_elf_cached(t)
  PROVE  /\ loaded' \in [Users -> SUBSET Parts] /\ tried' \in [Users -> SUBSET Parts]
         /\ reads' = reads
         /\ SharedElf => UNCHANGED flags
         /\ \A e \in Users : \/ loaded'[e] = loaded[e] /\ tried'[e] = tried[e]
                             \/ ~SharedElf /\ e = t /\ loaded'[e] = {} /\ tried'[e] = {}
BY DEF open_elf_cached, TypeOK, flags, Users

\* A step of a thread that is in no get_ function, and may begin one.
LEMMA StageRead ==
  ASSUME ReadInv, NEW t \in Threads, NEW p \in Parts,
         TypeOK', LocksAreHeld', setting' = setting,
         calls[t] = <<>>, calls'[t] = <<>> \/ calls'[t] = <<Get(p)>>,
         calls'[t] # <<>> => /\ pc'[t] \in {"base"} \cup Tables \cup StringTables
                             /\ p = IF pc'[t] = "base" THEN "header" ELSE pc'[t],
         \A u \in Threads \ {t} : calls'[u] = calls[u] /\ pc'[u] = pc[u],
         UNCHANGED flags \/ open_elf_cached(t)
  PROVE  ReadInv'
<1>1. TypeOK /\ CallsAreNested
  BY DEF ReadInv
<1>2. CallsAreNested'
  BY <1>1, NestedBegun
<1>3. \A u \in Threads, i \in Nat :
        Pending(u, i)' => u # t /\ Pending(u, i) /\ calls'[u] = calls[u]
  BY BegunIsNotPending DEF Pending
<1>4. /\ \A u \in Threads : Elf(u)' = Elf(u) /\ Elf(u) \in Users
      /\ SharedElf' = SharedElf
  BY <1>1, Elves DEF Elf, SharedElf
<1>5. /\ reads' = reads /\ (SharedElf => UNCHANGED flags)
      /\ \A e \in Users : \/ loaded'[e] = loaded[e] /\ tried'[e] = tried[e]
                          \/ ~SharedElf /\ e = t /\ loaded'[e] = {} /\ tried'[e] = {}
  BY <1>1, OpenElf DEF flags
<1>6. \A u \in Threads \ {t} : loaded'[Elf(u)] = loaded[Elf(u)] /\ tried'[Elf(u)] = tried[Elf(u)]
  BY <1>1, <1>4, <1>5, Elves DEF flags
<1>7. PendingIsTried'
  BY <1>3, <1>4, <1>5, <1>6 DEF ReadInv, PendingIsTried
<1>8. PendingIsUnique'
  BY <1>3, <1>4 DEF ReadInv, PendingIsUnique
<1>9. LoadedIsTried'
  BY <1>5 DEF ReadInv, LoadedIsTried
<1>10. UntriedIsUnread' /\ ReadOnce'
  <2>1. ReadOnce'
    BY <1>5 DEF ReadInv, ReadOnce
  <2>2. CASE SharedElf
    BY <1>4, <1>5, <2>1, <2>2 DEF ReadInv, UntriedIsUnread, flags
  <2>3. CASE ~SharedElf
    BY <1>5, <2>1, <2>3 DEF ReadInv, UntriedIsUnread
  <2> QED BY <2>1, <2>2, <2>3
<1> QED BY <1>2, <1>7, <1>8, <1>9, <1>10 DEF ReadInv

\* The steps between the get_ functions.
StageStep(t) ==
  \/ \E use \in {"trace", "objects"} : resolve(t, use)
  \/ begin_base(t) \/ header_loaded(t) \/ read_program_headers(t) \/ end_base(t)
  \/ begin_resolve(t) \/ end_resolve(t)
  \/ \E table \in Tables : table_loaded(t, table) \/ strings_loaded(t, table)

LEMMA StepsRead ==
  ASSUME ReadInv, NEW t \in Threads, StageStep(t)
  PROVE  ReadInv'
<1>1. TypeOK /\ LocksAreHeld /\ CallsAreNested
  BY DEF ReadInv
<1>2. \A u \in Threads : u # None
  BY ElfAssumption
<1> USE DEF locks, answers
<1>3. ASSUME NEW use \in {"trace", "objects"}, resolve(t, use)
      PROVE  ReadInv'
  <2>1. calls[t] = <<>>
    BY <1>1, <1>3 DEF resolve, CallsAreNested, In, Tables, StringTables
  <2>2. TypeOK' /\ LocksAreHeld'
    BY <1>1, <1>3 DEF TypeOK, LocksAreHeld, resolve, flags, PCs, Locating, Resolving, Tables
  <2> QED BY <1>1, <1>3, <2>1, <2>2, StageRead, Names DEF resolve, TypeOK
<1>4. CASE begin_base(t)
  <2>1. calls[t] = <<>>
    BY <1>1, <1>4 DEF begin_base, CallsAreNested, In, Tables, StringTables
  <2>2. UNCHANGED flags \/ open_elf_cached(t)
    BY <1>4 DEF begin_base
  <2>3. loaded' \in [Users -> SUBSET Parts] /\ tried' \in [Users -> SUBSET Parts] /\ reads' = reads
    BY <1>1, <2>2, OpenElf DEF flags, TypeOK
  <2>4. /\ calls'[t] = <<>> \/ (calls'[t] = <<Get("header")>> /\ pc'[t] = "base")
        /\ \A u \in Threads \ {t} : calls'[u] = calls[u]
        /\ calls' \in [Threads -> Seq(Call)]
    <3>1. <<>> \in Seq(Call) /\ <<Get("header")>> \in Seq(Call)
      BY Names DEF Get, Call
    <3>2. calls \in [Threads -> Seq(Call)] /\ pc \in [Threads -> PCs]
      BY <1>1 DEF TypeOK
    <3>3. \/ calls' = calls
          \/ calls' = [calls EXCEPT ![t] = <<>>]
          \/ /\ calls' = [calls EXCEPT ![t] = <<Get("header")>>]
             /\ pc' = [pc EXCEPT ![t] = "base"]
      BY <1>4 DEF begin_base
    <3>4. CASE calls' = calls
      BY <2>1, <3>2, <3>4
    <3>5. CASE calls' = [calls EXCEPT ![t] = <<>>]
      BY <3>1, <3>2, <3>5
    <3>6. CASE /\ calls' = [calls EXCEPT ![t] = <<Get("header")>>]
               /\ pc' = [pc EXCEPT ![t] = "base"]
      BY <3>1, <3>2, <3>6
    <3> QED BY <3>3, <3>4, <3>5, <3>6
  <2>5. PICK stage \in {"base", "has base"}, r \in {"ok", "error"} :
          pc' = [pc EXCEPT ![t] = stage] /\ ret' = [ret EXCEPT ![t] = r]
    BY <1>4 DEF begin_base
  <2>5a. TypeOK'
    <3>1. UNCHANGED <<setting, base_cached, base_answer, symbol_answer>>
      BY <1>4 DEF begin_base
    <3>2. stage \in PCs
      BY DEF PCs, Locating
    <3>3. pc' \in [Threads -> PCs] /\ ret' \in [Threads -> {"ok", "error"}]
      BY <1>1, <2>5, <3>2 DEF TypeOK
    <3> QED BY <1>1, <2>3, <2>4, <3>1, <3>3 DEF TypeOK
  <2>6. LocksAreHeld'
    <3>1. base_lock' = t /\ resolve_lock' = resolve_lock /\ base_lock = None /\ pc[t] = "unlocated"
      BY <1>4 DEF begin_base
    <3>2. /\ stage \in Locating /\ stage \notin Resolving
          /\ "unlocated" \notin Resolving \cup Locating
      BY DEF Locating, Resolving, Tables
    <3>3. pc'[t] = stage /\ \A u \in Threads \ {t} : pc'[u] = pc[u]
      BY <1>1, <2>5 DEF TypeOK
    <3> QED BY <1>1, <1>2, <3>1, <3>2, <3>3 DEF LocksAreHeld
  <2>7. setting' = setting /\ \A u \in Threads \ {t} : pc'[u] = pc[u]
    BY <1>1, <1>4 DEF TypeOK, begin_base
  <2> QED BY <2>1, <2>2, <2>4, <2>5a, <2>6, <2>7, StageRead, Names
<1>5. CASE header_loaded(t) \/ read_program_headers(t) \/ end_base(t)
  <2>1. calls[t] = <<>>
    BY <1>1, <1>5 DEF header_loaded, read_program_headers, end_base, In, CallsAreNested, Tables,
       StringTables
  <2>2. TypeOK'
    BY <1>1, <1>5 DEF TypeOK, header_loaded, read_program_headers, end_base, flags, PCs, Locating
  <2>3. LocksAreHeld'
    <3>1. /\ pc[t] \in Locating /\ resolve_lock' = resolve_lock
          /\ \/ pc'[t] \in Locating /\ base_lock' = base_lock
             \/ pc'[t] = "located" /\ base_lock' = None
      BY <1>1, <1>5 DEF header_loaded, read_program_headers, end_base, Locating, TypeOK
    <3>2. \A u \in Threads \ {t} : pc'[u] = pc[u]
      BY <1>1, <1>5 DEF TypeOK, header_loaded, read_program_headers, end_base
    <3> QED BY <1>1, <1>2, <3>1, <3>2, Names, SMTT(30) DEF LocksAreHeld
  <2>4. /\ setting' = setting /\ calls' = calls /\ UNCHANGED flags
        /\ \A u \in Threads \ {t} : pc'[u] = pc[u]
    BY <1>1, <1>5 DEF TypeOK, header_loaded, read_program_headers, end_base
  <2> QED BY <1>1, <2>1, <2>2, <2>3, <2>4, StageRead, Names
<1>6. CASE begin_resolve(t)
  <2>1. calls[t] = <<>>
    BY <1>1, <1>6 DEF begin_resolve, CallsAreNested, In, Tables, StringTables
  <2>2. loaded' \in [Users -> SUBSET Parts] /\ tried' \in [Users -> SUBSET Parts] /\ reads' = reads
    BY <1>1, <1>6, OpenElf DEF begin_resolve
  <2>3. /\ calls'[t] = <<>> \/ (calls'[t] = <<Get("symtab")>> /\ pc'[t] = "symtab")
        /\ \A u \in Threads \ {t} : calls'[u] = calls[u]
        /\ calls' \in [Threads -> Seq(Call)]
    <3>1. <<>> \in Seq(Call) /\ <<Get("symtab")>> \in Seq(Call)
      BY DEF Get, Call, Parts, Tables, Stages
    <3> QED BY <1>1, <1>6, <2>1, <3>1 DEF begin_resolve, TypeOK
  <2>4. TypeOK'
    BY <1>1, <1>6, <2>2, <2>3 DEF TypeOK, begin_resolve, PCs, Locating, Resolving, Tables
  <2>5. LocksAreHeld'
    BY <1>1, <1>2, <1>6 DEF TypeOK, LocksAreHeld, begin_resolve, Resolving, Tables, Locating
  <2>6. setting' = setting /\ \A u \in Threads \ {t} : pc'[u] = pc[u]
    BY <1>1, <1>6 DEF TypeOK, begin_resolve
  <2>7. "symtab" \in Parts /\ "symtab" \in Tables
    BY DEF Parts, Tables
  <2> QED BY <1>6, <2>1, <2>3, <2>4, <2>5, <2>6, <2>7, StageRead DEF begin_resolve
<1>7. CASE end_resolve(t)
  <2>1. calls[t] = <<>>
    BY <1>1, <1>7 DEF end_resolve, CallsAreNested, In, Tables, StringTables
  <2>2. TypeOK'
    BY <1>1, <1>7 DEF TypeOK, end_resolve, flags, PCs, Locating
  <2>3. LocksAreHeld'
    BY <1>1, <1>2, <1>7 DEF TypeOK, LocksAreHeld, end_resolve, Resolving, Tables, Locating
  <2> QED BY <1>1, <1>7, <2>1, <2>2, <2>3, StageRead, Names DEF end_resolve, TypeOK
<1>8. ASSUME NEW table \in Tables, table_loaded(t, table) \/ strings_loaded(t, table)
      PROVE  ReadInv'
  <2>1. calls[t] = <<>> /\ pc[t] \in Resolving
    BY <1>8, Names DEF table_loaded, strings_loaded, In
  <2>2. PICK p \in Parts : /\ \/ calls'[t] = <<>> /\ pc'[t] \in Resolving
                              \/ /\ calls'[t] = <<Get(p)>> /\ pc'[t] = p
                                 /\ p \in Tables \cup StringTables
                           /\ \A u \in Threads \ {t} : calls'[u] = calls[u] /\ pc'[u] = pc[u]
                           /\ calls' \in [Threads -> Seq(Call)] /\ pc' \in [Threads -> PCs]
    <3>1. \A p \in Parts : <<Get(p)>> \in Seq(Call)
      BY DEF Get, Call, Stages
    <3>2. Resolving \subseteq PCs /\ {"found", "not found"} \subseteq Resolving
      BY DEF PCs, Resolving
    <3>3. "dynsym" \in Tables /\ "dynsym" \in Parts /\ "dynsym" \in Resolving
      BY DEF Tables, Parts, Resolving
    <3>4. /\ Strings(table) \in Parts /\ Strings(table) \in StringTables
          /\ Strings(table) \in Resolving
      BY Names
    <3>5. calls \in [Threads -> Seq(Call)] /\ pc \in [Threads -> PCs]
      BY <1>1 DEF TypeOK
    <3>6. CASE next_lookup(t, table)
      BY <2>1, <3>1, <3>2, <3>3, <3>5, <3>6 DEF next_lookup
    <3>7. CASE ~next_lookup(t, table)
      BY <1>8, <2>1, <3>1, <3>2, <3>4, <3>5, <3>7 DEF table_loaded, strings_loaded
    <3> QED BY <3>6, <3>7
  <2>3. UNCHANGED <<setting, flags, locks, ret, answers>>
    BY <1>8 DEF table_loaded, strings_loaded
  <2>4. TypeOK'
    BY <1>1, <2>2, <2>3 DEF TypeOK, flags
  <2>5. pc'[t] \in Resolving /\ pc[t] \notin Locating /\ pc'[t] \notin Locating
    BY <2>1, <2>2, Names
  <2>6. LocksAreHeld'
    BY <1>1, <2>1, <2>2, <2>3, <2>5 DEF LocksAreHeld
  <2>7. pc'[t] # "base"
    BY <2>5, Names
  <2> QED BY <2>1, <2>2, <2>3, <2>4, <2>6, <2>7, StageRead
<1> QED BY <1>3, <1>4, <1>5, <1>6, <1>7, <1>8 DEF StageStep

\* A step of a get_ function.
GetStep(t) == check_loaded(t) \/ check_tried(t) \/ check_needed(t) \/ read(t)

LEMMA StepKinds == Next => \E t \in Threads : GetStep(t) \/ StageStep(t)
BY DEF Next, Step, GetStep, StageStep

\* ReadInv is inductive.
LEMMA InitRead == Init => ReadInv
<1> SUFFICES ASSUME Init PROVE ReadInv
  OBVIOUS
<1>1. TypeOK
  <2>1. <<>> \in Seq(Call)
    OBVIOUS
  <2> QED BY <2>1 DEF Init, TypeOK, Users, PCs
<1>2. LocksAreHeld
  BY ElfAssumption DEF Init, LocksAreHeld, Resolving, Tables, Locating
<1>3. CallsAreNested /\ PendingIsTried /\ PendingIsUnique
  BY DEF Init, CallsAreNested, PendingIsTried, PendingIsUnique, Pending, In
<1>4. LoadedIsTried /\ UntriedIsUnread /\ ReadOnce
  BY DEF Init, LoadedIsTried, UntriedIsUnread, ReadOnce, Users
<1> QED BY <1>1, <1>2, <1>3, <1>4 DEF ReadInv

LEMMA NextRead == ReadInv /\ [Next]_vars => ReadInv'
<1> SUFFICES ASSUME ReadInv, [Next]_vars PROVE ReadInv'
  OBVIOUS
<1>1. CASE UNCHANGED vars
  <2>1. UNCHANGED <<setting, flags, locks, pc, calls, ret, answers>>
    BY <1>1 DEF vars
  <2>2. TypeOK' /\ LocksAreHeld'
    BY <2>1 DEF ReadInv, flags, locks, answers, TypeOK, LocksAreHeld
  <2>3. CallsAreNested'
    BY <2>1 DEF ReadInv, CallsAreNested, Asked, In
  <2>4. PendingIsTried' /\ PendingIsUnique'
    BY <2>1 DEF ReadInv, flags, PendingIsTried, PendingIsUnique, Pending, Elf, SharedElf
  <2>5. LoadedIsTried' /\ UntriedIsUnread' /\ ReadOnce'
    BY <2>1 DEF ReadInv, flags, LoadedIsTried, UntriedIsUnread, ReadOnce, SharedElf
  <2> QED BY <2>2, <2>3, <2>4, <2>5 DEF ReadInv
<1>2. CASE Next
  <2>1. PICK t \in Threads : GetStep(t) \/ StageStep(t)
    BY <1>2, StepKinds
  <2> QED BY <2>1, CheckLoadedRead, CheckTriedRead, CheckNeededRead, ReadRead, StepsRead
          DEF GetStep
<1> QED BY <1>1, <1>2

\* No part of a shared elf is read twice, whether or not it can be read, for
\* any number of threads and whatever uses they make of it: the flag
\* tried_to_load_ is set before the read.
THEOREM PartsReadOnce == Spec => []ReadOnce
<1>1. ReadInv => ReadOnce
  BY DEF ReadInv
<1> QED BY <1>1, InitRead, NextRead, PTL DEF Spec

-----------------------------------------------------------------------------
\* Where a step of a get_ function leaves the thread.
LEMMA GetOutcome ==
  ASSUME ReadInv, NEW t \in Threads, GetStep(t)
  PROVE  /\ In(t) /\ OthersKeepCalls(t) /\ ReadInv' /\ UNCHANGED <<setting, locks, pc, answers>>
         /\ \A e \in Users : tried[e] \subseteq tried'[e]
         /\ \/ Returns(t)
            \/ GoesOn(t, "tried?")
            \/ GoesOn(t, "read") /\ Current(t).at = "needs"
            \/ /\ GoesOn(t, "read") \/ CallsNeeded(t)
               /\ Current(t).part \notin tried[Elf(t)]
<1>1. In(t) /\ UNCHANGED <<setting, locks, pc, answers>>
  BY DEF GetStep, check_loaded, check_tried, check_needed, read, At, step
<1>2. \A e \in Users : tried[e] \subseteq tried'[e]
  BY ZenonT(60) DEF GetStep, check_loaded, check_tried, check_needed, read, flags, ReadInv, TypeOK
<1>3. CASE check_loaded(t)
  BY <1>1, <1>2, <1>3, CheckLoadedRead
<1>4. CASE check_tried(t)
  BY <1>1, <1>2, <1>4, CheckTriedRead
<1>5. CASE check_needed(t)
  BY <1>1, <1>2, <1>5, CheckNeededRead DEF check_needed, At
<1>6. CASE read(t)
  BY <1>1, <1>2, <1>6, ReadRead
<1> QED BY <1>3, <1>4, <1>5, <1>6 DEF GetStep

\* The only call a step of a get_ function makes pending is one about a part
\* that was not tried, and the only one that may be no longer is the last.
LEMMA GetPending ==
  ASSUME ReadInv, NEW t \in Threads, GetStep(t)
  PROVE  \A u \in Threads, i \in Nat :
           /\ Pending(u, i)' =>
                /\ calls'[u][i].part = calls[u][i].part
                /\ \/ Pending(u, i)
                   \/ u = t /\ i = Len(calls[t]) /\ Current(t).part \notin tried[Elf(t)]
           /\ Pending(u, i) /\ ~(u = t /\ i = Len(calls[t])) =>
                Pending(u, i)' /\ calls'[u][i].part = calls[u][i].part
<1> DEFINE n == Len(calls[t])
<1>1. TypeOK /\ In(t) /\ n \in Nat /\ n >= 1 /\ Current(t) = calls[t][n]
  BY GetOutcome, CurrentCall DEF ReadInv
<1>2. \A u \in Threads, i \in Nat : u # t => (Pending(u, i)' <=> Pending(u, i)) /\ calls'[u] = calls[u]
  BY GetOutcome DEF OthersKeepCalls, Pending
<1>3. ASSUME NEW i \in Nat, Pending(t, i)'
      PROVE  /\ calls'[t][i].part = calls[t][i].part
             /\ Pending(t, i) \/ (i = n /\ Current(t).part \notin tried[Elf(t)])
  <2>1. \E stage \in Stages : Returns(t) \/ GoesOn(t, stage) \/ CallsNeeded(t)
    BY GetOutcome DEF Stages
  <2>2. /\ i \in 1 .. n /\ calls'[t][i].part = calls[t][i].part
        /\ i < n => Pending(t, i)
        /\ i = n => GoesOn(t, "read") \/ GoesOn(t, "needs") \/ CallsNeeded(t)
    BY <1>1, <1>3, <2>1, PendingAfter
  <2>3. CASE i = n
    <3>1. ~Returns(t) /\ ~GoesOn(t, "tried?")
      BY <1>1, <2>2, <2>3 DEF Returns, GoesOn, CallsNeeded
    <3>2. Current(t).at = "needs" => Pending(t, n)
      BY <1>1 DEF Pending
    <3> QED BY <2>2, <2>3, <3>1, <3>2, GetOutcome
  <2> QED BY <1>1, <2>2, <2>3
<1>4. ASSUME NEW i \in Nat, Pending(t, i), i # n
      PROVE  Pending(t, i)' /\ calls'[t][i].part = calls[t][i].part
  <2>1. i \in 1 .. n - 1 /\ n - 1 <= Len(calls'[t]) /\ calls'[t][i] = calls[t][i]
    <3>1. i \in 1 .. n - 1
      BY <1>1, <1>4 DEF Pending
    <3>2. /\ Len(calls'[t]) \in {n - 1, n, n + 1}
          /\ \A k \in 1 .. n - 1 : calls'[t][k] = calls[t][k]
      BY GetOutcome DEF Returns, GoesOn, CallsNeeded
    <3> QED BY <1>1, <3>1, <3>2
  <2>2. Len(calls'[t]) \in Nat
    BY GetOutcome, NonEmpty DEF ReadInv, TypeOK
  <2> QED BY <1>1, <1>4, <2>1, <2>2 DEF Pending
<1> QED BY <1>2, <1>3, <1>4

\* Where a step between the get_ functions leaves the thread.
LEMMA StageOutcome ==
  ASSUME ReadInv, NEW t \in Threads, StageStep(t)
  PROVE  /\ ReadInv' /\ setting' = setting /\ calls[t] = <<>>
         /\ calls'[t] = <<>> \/ \E p \in Parts : calls'[t] = <<Get(p)>>
         /\ \A u \in Threads \ {t} : calls'[u] = calls[u] /\ pc'[u] = pc[u]
         /\ UNCHANGED flags \/ open_elf_cached(t)
<1>1. TypeOK /\ CallsAreNested /\ ReadInv'
  BY StepsRead DEF ReadInv
<1>2. calls \in [Threads -> Seq(Call)] /\ pc \in [Threads -> PCs]
  BY <1>1 DEF TypeOK
<1>3. ASSUME NEW use \in {"trace", "objects"}, resolve(t, use)
      PROVE  calls[t] = <<>>
  BY <1>1, <1>3 DEF resolve, CallsAreNested, In, Tables, StringTables
<1>4. calls[t] = <<>>
  BY <1>1, <1>3 DEF StageStep, begin_base, header_loaded, read_program_headers, end_base,
     begin_resolve, end_resolve, table_loaded, strings_loaded, CallsAreNested, In, Tables, StringTables
<1>5. setting' = setting /\ (UNCHANGED flags \/ open_elf_cached(t))
  BY DEF StageStep, resolve, begin_base, header_loaded, read_program_headers, end_base,
     begin_resolve, end_resolve, table_loaded, strings_loaded
<1>6. \A u \in Threads \ {t} : calls'[u] = calls[u] /\ pc'[u] = pc[u]
  BY <1>2 DEF StageStep, resolve, begin_base, header_loaded, read_program_headers, end_base,
     begin_resolve, end_resolve, table_loaded, strings_loaded, next_lookup
<1>7. calls'[t] = <<>> \/ \E p \in Parts : calls'[t] = <<Get(p)>>
  <2>1. ASSUME NEW table \in Tables, table_loaded(t, table) \/ strings_loaded(t, table)
        PROVE  calls'[t] = <<>> \/ \E p \in Parts : calls'[t] = <<Get(p)>>
    <3>1. Strings(table) \in Parts /\ "dynsym" \in Parts
      BY Names DEF Parts, Tables
    <3> QED BY <1>2, <1>4, <2>1, <3>1 DEF table_loaded, strings_loaded, next_lookup
  <2>2. "header" \in Parts /\ "symtab" \in Parts
    BY DEF Parts, Tables
  <2> QED BY <1>2, <1>4, <2>1, <2>2
      DEF StageStep, resolve, begin_base, header_loaded, read_program_headers, end_base, begin_resolve,
             end_resolve
<1> QED BY <1>1, <1>4, <1>5, <1>6, <1>7

\* It makes no call pending, and none is that was not.
LEMMA StagePending ==
  ASSUME ReadInv, NEW t \in Threads, StageStep(t)
  PROVE  \A u \in Threads, i \in Nat :
           /\ Pending(u, i)' <=> Pending(u, i)
           /\ Pending(u, i) => u # t /\ calls'[u][i].part = calls[u][i].part
<1>1. \A u \in Threads \ {t}, i \in Nat :
        (Pending(u, i)' <=> Pending(u, i)) /\ calls'[u] = calls[u]
  BY StageOutcome DEF Pending
<1>2. \A i \in Nat : ~Pending(t, i)
  BY StageOutcome DEF Pending
<1>3. \A i \in Nat : ~Pending(t, i)'
  BY StageOutcome, BegunIsNotPending, Names
<1> QED BY <1>1, <1>2, <1>3

\* Once settled, the header of a shared elf stays so.
LEMMA HeaderStaysSettled ==
  ASSUME ReadInv, [Next]_vars, SharedElf, HeaderSettled
  PROVE  HeaderSettled'
<1>1. Shared \in Users /\ TypeOK
  BY DEF Users, ReadInv
<1>2. ASSUME NEW t \in Threads, GetStep(t)
      PROVE  HeaderSettled'
  BY <1>1, <1>2, GetOutcome, GetPending, CurrentCall, Elves DEF HeaderSettled
<1>3. ASSUME NEW t \in Threads, StageStep(t)
      PROVE  HeaderSettled'
  <2>1. tried'[Shared] = tried[Shared]
    BY <1>1, <1>3, StageOutcome, OpenElf DEF flags
  <2> QED BY <1>3, <2>1, StagePending DEF HeaderSettled
<1>4. CASE UNCHANGED vars
  BY <1>4 DEF vars, flags, HeaderSettled, Pending
<1> QED BY <1>2, <1>3, <1>4, StepKinds

-----------------------------------------------------------------------------
LEMMA InitRace == Init => RaceInv
BY DEF Init, RaceInv, OpenedIfAsked, HeaderIsSettled, PastBase, In, Tables, StringTables, Resolving

LEMMA OpenedAfter ==
  ASSUME ReadInv, OpenedIfAsked, [Next]_vars
  PROVE  OpenedIfAsked'
<1>1. ASSUME NEW t \in Threads, GetStep(t)
      PROVE  OpenedIfAsked'
  <2>1. In(t) /\ OthersKeepCalls(t) /\ setting' = setting /\ pc' = pc
    BY <1>1, GetOutcome DEF locks
  <2> QED BY <2>1 DEF OpenedIfAsked, OthersKeepCalls, In, Opens, file
<1>2. ASSUME NEW t \in Threads, StageStep(t)
      PROVE  OpenedIfAsked'
  <2>1. /\ setting' = setting /\ calls[t] = <<>>
        /\ \A u \in Threads \ {t} : calls'[u] = calls[u] /\ pc'[u] = pc[u]
    BY <1>2, StageOutcome
  <2>2. calls \in [Threads -> Seq(Call)] /\ pc \in [Threads -> PCs]
    BY DEF ReadInv, TypeOK
  <2>3. \A table \in Tables : Strings(table) \in StringTables
    BY Names
  <2>4. calls'[t] # <<>> \/ pc'[t] \in {"base", "program headers"} \cup Tables \cup StringTables
          => Opens
    <3>1. ASSUME NEW table \in Tables, table_loaded(t, table) \/ strings_loaded(t, table)
          PROVE  Opens
      BY <2>3, <3>1 DEF OpenedIfAsked, table_loaded, strings_loaded
    <3>2. CASE header_loaded(t) \/ read_program_headers(t) \/ end_base(t)
      BY <2>1, <2>2, <3>2 DEF OpenedIfAsked, header_loaded, read_program_headers, end_base, Tables,
         StringTables
    <3> QED BY <1>2, <2>1, <2>2, <3>1, <3>2 DEF StageStep, resolve, begin_base, begin_resolve,
               end_resolve, Tables, StringTables
  <2> QED BY <2>1, <2>4 DEF OpenedIfAsked, In, Opens, file
<1>3. CASE UNCHANGED vars
  BY <1>3 DEF vars, OpenedIfAsked, In, Opens, file
<1> QED BY <1>1, <1>2, <1>3, StepKinds

\* In its base stage a thread asks for nothing but the header.
LEMMA BaseAsksForHeader ==
  ASSUME ReadInv, NEW t \in Threads, In(t), pc[t] = "base"
  PROVE  Len(calls[t]) = 1 /\ Current(t).part = "header" /\ Current(t).at # "needs"
<1>1. /\ TypeOK /\ Len(calls[t]) \in Nat /\ Len(calls[t]) >= 1
      /\ Current(t) = calls[t][Len(calls[t])]
  BY CurrentCall DEF ReadInv
<1>2. /\ calls[t][1].part = "header"
      /\ \A i \in 1 .. Len(calls[t]) :
           /\ calls[t][i].at = "needs" => calls[t][i].part # "header"
           /\ i > 1 => calls[t][i - 1].at = "needs"
  BY DEF ReadInv, CallsAreNested, Asked
<1>3. Len(calls[t]) = 1
  <2> DEFINE n == Len(calls[t])
  <2>1. ~(n >= 2)
    <3> SUFFICES ASSUME n >= 2 PROVE FALSE
      OBVIOUS
    <3>1. 1 \in 1 .. n /\ 2 \in 1 .. n /\ 2 - 1 = 1
      BY <1>1
    <3> QED BY <1>2, <3>1
  <2>2. n \in Nat /\ n >= 1
    BY <1>1
  <2> HIDE DEF n
  <2>3. n = 1
    BY <2>1, <2>2
  <2> QED BY <2>3 DEF n
<1> QED BY <1>1, <1>2, <1>3

\* A thread in a get_ function is in one of the two stages.
LEMMA StageOfCall ==
  ASSUME ReadInv, NEW t \in Threads, In(t)
  PROVE  \/ pc[t] = "base" /\ base_lock = t
         \/ pc[t] \in Resolving /\ resolve_lock = t /\ PastBase(t)
BY Names DEF ReadInv, CallsAreNested, LocksAreHeld, PastBase

\* Two threads at the same part of an elf are at the header of the shared one,
\* and it is settled.
LEMMA OnlySettledIsShared ==
  ASSUME ReadInv, OpenedIfAsked, HeaderIsSettled, NEW t \in Threads, NEW u \in Threads,
         t # u, Elf(t) = Elf(u), In(t), In(u), NEW j \in 1 .. Len(calls[u]),
         Current(t).part = calls[u][j].part
  PROVE  SharedElf /\ Current(t).part = "header" /\ HeaderSettled
<1>1. SharedElf
  BY Elves DEF ReadInv
<1>2. Opens
  BY DEF OpenedIfAsked
<1>3. CASE pc[t] = "base"
  <2>1. Current(t).part = "header"
    BY <1>3, BaseAsksForHeader
  <2>2. PastBase(u)
    BY <1>3, StageOfCall, Names
  <2> QED BY <1>1, <1>2, <2>1, <2>2 DEF HeaderIsSettled
<1>4. CASE pc[t] # "base"
  <2>1. PastBase(t) /\ pc[u] = "base"
    BY <1>4, StageOfCall, Names
  <2>2. calls[u][j].part = "header"
    <3>1. Len(calls[u]) = 1 /\ Current(u).part = "header"
      BY <2>1, BaseAsksForHeader
    <3>2. Current(u) = calls[u][Len(calls[u])]
      BY CurrentCall DEF ReadInv
    <3>3. j = 1
      BY <3>1
    <3> QED BY <3>1, <3>2, <3>3
  <2> QED BY <1>1, <1>2, <2>1, <2>2 DEF HeaderIsSettled
<1> QED BY <1>3, <1>4

\* The locks of the two users keep threads apart that are at the same part.
LEMMA PartsApart ==
  ASSUME ReadInv, OpenedIfAsked, HeaderIsSettled, NEW t \in Threads, NEW u \in Threads,
         t # u, Elf(t) = Elf(u), In(t), In(u), Current(t).part = Current(u).part
  PROVE  ~Writes(t)
<1>1. /\ TypeOK /\ Len(calls[u]) \in 1 .. Len(calls[u])
      /\ Current(u) = calls[u][Len(calls[u])]
  BY CurrentCall DEF ReadInv
<1>2. SharedElf /\ Current(t).part = "header" /\ HeaderSettled
  BY <1>1, OnlySettledIsShared
<1>3. Elf(t) = Shared
  BY <1>1, <1>2, Elves
<1>4. Current(t).at # "read"
  <2>1. Len(calls[t]) \in Nat /\ Len(calls[t]) >= 1 /\ Current(t) = calls[t][Len(calls[t])]
    BY <1>1, CurrentCall
  <2> QED BY <1>2, <2>1 DEF HeaderSettled, Pending
<1> QED BY <1>2, <1>3, <1>4 DEF Writes, At, HeaderSettled

\* After a step of a thread that gets past its base stage the header is settled.
LEMMA SettledAfter ==
  ASSUME ReadInv, OpenedIfAsked, HeaderIsSettled, SafeUse, [Next]_vars
  PROVE  HeaderIsSettled'
<1>1. /\ setting' = setting /\ SharedElf' = SharedElf /\ Opens' = Opens
      /\ ReadInv' /\ TypeOK /\ (SharedElf /\ HeaderSettled => HeaderSettled')
  <2>1. setting' = setting
    BY StepKinds, GetOutcome, StageOutcome DEF vars
  <2> QED BY <2>1, NextRead, HeaderStaysSettled DEF SharedElf, Opens, file, ReadInv
<1> SUFFICES ASSUME SharedElf, Opens, ~HeaderSettled, NEW u \in Threads, PastBase(u)'
             PROVE  HeaderSettled'
  BY <1>1 DEF HeaderIsSettled
<1>2. \A t \in Threads : ~PastBase(t)
  BY DEF HeaderIsSettled
<1>2a. \A t \in Threads : /\ calls[t] \in Seq(Call) /\ calls'[t] \in Seq(Call)
                          /\ In(t) <=> Len(calls[t]) # 0
                          /\ In(t)' <=> Len(calls'[t]) # 0
  <2>1. \A t \in Threads : calls[t] \in Seq(Call) /\ calls'[t] \in Seq(Call)
    BY <1>1 DEF ReadInv, TypeOK
  <2> QED BY <2>1, NonEmpty DEF In
<1>3. ASSUME NEW t \in Threads, GetStep(t)
      PROVE  HeaderSettled'
  <2>1. In(t) /\ OthersKeepCalls(t) /\ pc' = pc /\ base_cached' = base_cached
    BY <1>3, GetOutcome DEF locks
  <2>2. u = t /\ pc[t] = "base" /\ ~In(t)'
    BY <1>2, <2>1 DEF PastBase, OthersKeepCalls, In
  <2>3. Len(calls[t]) = 1 /\ Current(t).part = "header" /\ Current(t).at # "needs"
    BY <2>1, <2>2, BaseAsksForHeader
  <2>4. Current(t) = calls[t][1] /\ Elf(t) = Shared /\ Shared \in Users
    BY <1>1, <2>1, <2>3, CurrentCall, Elves
  <2>5. \A v \in Threads : In(v) => v = t
    BY <1>2, <2>1, <2>2, StageOfCall, Names
  <2>6. \A v \in Threads, i \in Nat : ~Pending(v, i)'
    <3>1. Len(calls'[t]) = 0
      BY <1>2a, <2>2
    <3>2. \A v \in Threads : v # t => Len(calls'[v]) = 0
      BY <1>2a, <2>1, <2>5 DEF OthersKeepCalls
    <3> QED BY <3>1, <3>2 DEF Pending
  <2>7. "header" \in tried'[Shared]
    <3>1. tried[Shared] \subseteq tried'[Shared]
      BY <1>3, <2>4, GetOutcome
    <3>2. CASE check_loaded(t)
      <4>1. Returns(t) \/ GoesOn(t, "tried?")
        BY <3>2, CheckLoadedRead
      <4>2. Len(calls'[t]) # 1
        BY <1>2a, <2>2
      <4>3. ~GoesOn(t, "tried?")
        BY <2>3, <4>2 DEF GoesOn
      <4>4. Current(t).part \in loaded[Elf(t)]
        BY <1>1, <2>1, <3>2, <4>3, MoveStep, Names DEF check_loaded
      <4> QED BY <2>3, <2>4, <3>1, <4>4 DEF ReadInv, LoadedIsTried
    <3>3. CASE check_tried(t)
      BY <1>1, <2>3, <2>4, <3>3, CheckTriedRead, ZenonT(60) DEF TypeOK
    <3>4. CASE check_needed(t)
      BY <2>3, <3>4 DEF check_needed, At
    <3>5. CASE read(t)
      <4>1. Pending(t, 1)
        BY <2>3, <2>4, <3>5 DEF read, At, Pending
      <4> QED BY <2>3, <2>4, <3>1, <4>1 DEF ReadInv, PendingIsTried
    <3> QED BY <1>3, <3>2, <3>3, <3>4, <3>5 DEF GetStep
  <2> QED BY <2>6, <2>7 DEF HeaderSettled
<1>4. ASSUME NEW t \in Threads, StageStep(t)
      PROVE  HeaderSettled'
  <2>1. /\ ~base_cached /\ pc[t] \notin {"located"} \cup Resolving /\ calls[t] = <<>>
        /\ pc \in [Threads -> PCs] /\ calls \in [Threads -> Seq(Call)]
        /\ \A v \in Threads \ {t} : calls'[v] = calls[v] /\ pc'[v] = pc[v]
    BY <1>1, <1>2, <1>4, StageOutcome DEF PastBase, TypeOK
  <2>2. pc[t] # "base"
    BY <1>2, <2>1 DEF PastBase, In
  <2>3. ~PastBase(t)' /\ base_cached' = base_cached
    <3>1. \A table \in Tables : table \in Resolving /\ Strings(table) \in Resolving
      BY Names
    <3>2. ASSUME NEW use \in {"trace", "objects"}, resolve(t, use)
          PROVE  ~PastBase(t)' /\ base_cached' = base_cached
      <4>1. use = "trace"
        BY <3>2 DEF SafeUse, resolve
      <4> QED BY <2>1, <3>2, <4>1 DEF resolve, locks, PastBase, Resolving, Tables
    <3>3. CASE begin_base(t)
      <4>1. /\ pc'[t] = "base" /\ calls'[t] = <<Get("header")>>
            /\ base_cached' = base_cached
        BY <2>1, <3>3 DEF begin_base
      <4>2. In(t)'
        BY <4>1 DEF In
      <4> QED BY <2>1, <4>1, <4>2, Names DEF PastBase
    <3>4. ~header_loaded(t) /\ ~read_program_headers(t) /\ ~end_base(t)
      BY <1>2, <2>2 DEF header_loaded, read_program_headers, end_base, PastBase
    <3> QED BY <1>4, <2>1, <2>2, <3>1, <3>2, <3>3, <3>4, Names DEF StageStep, begin_resolve,
               end_resolve, table_loaded, strings_loaded, Resolving
  <2> QED BY <1>2, <2>1, <2>3 DEF PastBase, In
<1>5. CASE UNCHANGED vars
  BY <1>2, <1>5 DEF vars, locks, PastBase, In
<1> QED BY <1>3, <1>4, <1>5, StepKinds

LEMMA NextRace == ReadInv /\ RaceInv /\ [Next]_vars => RaceInv'
<1> SUFFICES ASSUME ReadInv, RaceInv, [Next]_vars PROVE RaceInv'
  OBVIOUS
<1>1. setting' = setting
  BY StepKinds, GetOutcome, StageOutcome DEF vars
<1>2. SafeUse' = SafeUse
  BY <1>1 DEF SafeUse, SharedElf, file
<1> QED BY <1>2, OpenedAfter, SettledAfter DEF RaceInv

-----------------------------------------------------------------------------
\* What it takes to read a part, or to find a symbol.
LEMMA Closures ==
  /\ \A q \in Parts : ReadableTo(q) <=> /\ q \notin file.corrupt
                                        /\ q # "header" => ReadableTo(Needs(q))
  /\ Readable({"magic", "header"}) <=> Opens /\ ReadableTo("header")
  /\ Readable(ForBase) <=> Readable({"magic", "header"}) /\ "program headers" \notin file.corrupt
  /\ \A table \in Tables :
       HasSymbol(table) <=> /\ table \in file.holds /\ Opens
                            /\ ReadableTo(table) /\ ReadableTo(Strings(table))
<1>1. ReadableTo("header") <=> "header" \notin file.corrupt
  BY DEF ReadableTo, Readable, Closure
<1>2. ReadableTo("sections") <=> "sections" \notin file.corrupt /\ "header" \notin file.corrupt
  BY DEF ReadableTo, Readable, Closure
<1>3. \A q \in Parts \ {"header"} :
        ReadableTo(q) <=> /\ q \notin file.corrupt
                          /\ "sections" \notin file.corrupt /\ "header" \notin file.corrupt
  BY DEF ReadableTo, Readable, Closure
<1>4. Needs("sections") = "header" /\ \A q \in Parts \ {"header", "sections"} : Needs(q) = "sections"
  BY DEF Needs
<1>5. \A table \in Tables : /\ table \in Parts \ {"header"}
                            /\ Strings(table) \in Parts \ {"header"}
  BY DEF Tables, Parts, Strings
<1>6. \A table \in Tables :
        HasSymbol(table) <=> /\ table \in file.holds /\ Opens
                             /\ ReadableTo(table) /\ ReadableTo(Strings(table))
  BY <1>3, <1>5 DEF HasSymbol, Readable, Opens
<1>7. Readable({"magic", "header"}) <=> Opens /\ ReadableTo("header")
  BY <1>1 DEF Readable, Opens
<1>8. \A q \in Parts : ReadableTo(q) <=> /\ q \notin file.corrupt
                                         /\ q # "header" => ReadableTo(Needs(q))
  BY <1>1, <1>2, <1>3, <1>4
<1>9. Readable(ForBase) <=> Readable({"magic", "header"}) /\ "program headers" \notin file.corrupt
  BY DEF Readable, ForBase
<1> QED BY <1>6, <1>7, <1>8, <1>9

\* The calls of a thread are about different parts.
LEMMA PartsOfCallsDiffer ==
  ASSUME ReadInv, NEW t \in Threads, In(t), NEW i \in 1 .. Len(calls[t]) - 1
  PROVE  calls[t][i].part # Current(t).part
<1> DEFINE n == Len(calls[t])
<1>1. n \in Nat /\ n >= 1 /\ Current(t) = calls[t][n] /\ calls[t] \in Seq(Call)
  BY CurrentCall DEF ReadInv, TypeOK
<1>2. \A k \in 1 .. n - 1 : /\ k + 1 \in 1 .. n
                            /\ calls[t][k].part # "header"
                            /\ calls[t][k + 1].part = Needs(calls[t][k].part)
  <2> TAKE k \in 1 .. n - 1
  <2>1. k \in 1 .. n /\ k + 1 \in 1 .. n /\ k + 1 > 1 /\ k + 1 - 1 = k
    BY <1>1
  <2> QED BY <2>1 DEF ReadInv, CallsAreNested
<1>3. i \in 1 .. n /\ calls[t][i].part \in Parts \ {"header"}
  <2>1. i \in 1 .. n
    BY <1>1
  <2>2. calls[t][i] \in Call
    BY <1>1, <2>1, ElementOfSeq
  <2> QED BY <1>2, <2>1, <2>2 DEF Call
<1>4. CASE i + 1 = n
  <2>1. calls[t][n].part = Needs(calls[t][i].part)
    BY <1>2, <1>4
  <2> QED BY <1>1, <1>3, <2>1 DEF Needs
<1>5. CASE i + 1 # n
  <2>1. i + 1 \in 1 .. n - 1
    BY <1>1, <1>5
  <2>2. /\ calls[t][i + 1].part = Needs(calls[t][i].part) /\ calls[t][i + 1].part # "header"
        /\ calls[t][i + 1 + 1].part = Needs(calls[t][i + 1].part)
    BY <1>2, <2>1
  <2>3. calls[t][i + 1 + 1].part = "header"
    BY <1>3, <2>2 DEF Needs
  <2>4. i + 1 + 1 \notin 1 .. n - 1
    BY <1>2, <2>3
  <2>5. i + 1 + 1 = n
    BY <1>1, <2>1, <2>4
  <2> QED BY <1>1, <1>2, <2>3, <2>5
<1> QED BY <1>4, <1>5

\* While a thread is about to look at the flag of a part, no call is pending
\* that is about the part.
LEMMA NonePendingAtCheck ==
  ASSUME ReadInv, OpenedIfAsked, HeaderIsSettled, NEW t \in Threads, In(t),
         Current(t).at = "tried?", NEW u \in Threads, NEW i \in Nat,
         Pending(u, i), Elf(u) = Elf(t)
  PROVE  calls[u][i].part # Current(t).part
<1>1. Len(calls[t]) \in Nat /\ Current(t) = calls[t][Len(calls[t])] /\ i \in 1 .. Len(calls[u])
  BY CurrentCall DEF ReadInv, Pending
<1>2. CASE u = t
  <2>1. i # Len(calls[t])
    BY <1>1, <1>2 DEF Pending
  <2>2. i \in 1 .. Len(calls[t]) - 1
    BY <1>1, <1>2, <2>1
  <2> QED BY <1>2, <2>2, PartsOfCallsDiffer
<1>3. CASE u # t
  <2>1. In(u)
    <3>1. calls[u] \in Seq(Call)
      BY DEF ReadInv, TypeOK
    <3> QED BY <1>1, <3>1, NonEmpty DEF In
  <2> SUFFICES ASSUME calls[u][i].part = Current(t).part PROVE FALSE
    OBVIOUS
  <2>2. Current(t).part = "header" /\ HeaderSettled
    BY <1>1, <1>3, <2>1, OnlySettledIsShared
  <2> QED BY <2>2 DEF HeaderSettled
<1> QED BY <1>2, <1>3

\* The file stays as it is.
LEMMA SameFile ==
  ASSUME setting' = setting
  PROVE  /\ file' = file /\ Opens' = Opens /\ SharedElf' = SharedElf
         /\ Readable({"magic", "header"})' = Readable({"magic", "header"})
         /\ Readable(ForBase)' = Readable(ForBase)
         /\ \A q \in Parts : ReadableTo(q)' = ReadableTo(q)
         /\ \A table \in Tables : HasSymbol(table)' = HasSymbol(table)
         /\ \A t \in Threads : Elf(t)' = Elf(t)
BY DEF file, Opens, SharedElf, Readable, ReadableTo, HasSymbol, Elf

AllInv == ReadInv /\ OpenedIfAsked /\ HeaderIsSettled /\ AnswerInv

\* A call about to be read, or waiting, is about a part of which this is known.
LEMMA CallInHand ==
  ASSUME AllInv, NEW t \in Threads, In(t)
  PROVE  /\ Current(t).part \in Parts /\ Elf(t) \in Users
         /\ Current(t).at = "needs" => Current(t).part # "header"
         /\ Current(t).at \in {"needs", "read"} => Pending(t, Len(calls[t]))
         /\ Opens
<1>1. /\ Len(calls[t]) \in Nat /\ Len(calls[t]) \in 1 .. Len(calls[t])
      /\ Current(t) = calls[t][Len(calls[t])] /\ Current(t).part \in Parts /\ Elf(t) \in Users
  BY CurrentCall, Elves DEF AllInv, ReadInv
<1> QED BY <1>1 DEF AllInv, ReadInv, CallsAreNested, OpenedIfAsked, Pending

\* A get_ function returns "ok" if and only if the file can be read up to its
\* part; on its way there it learns what it may rely on.
LEMMA GetReturnsRight ==
  ASSUME AllInv, NEW t \in Threads, GetStep(t)
  PROVE  /\ Returns(t) => (ret'[t] = "ok" <=> ReadableTo(Current(t).part))
         /\ GoesOn(t, "tried?") => Current(t).part \notin loaded'[Elf(t)]
         /\ GoesOn(t, "read") /\ Current(t).part # "header" => ReadableTo(Needs(Current(t).part))
         /\ ~GoesOn(t, "needs")
<1> DEFINE part == Current(t).part  n == Len(calls[t])
<1>1. /\ ReadInv /\ TypeOK /\ In(t) /\ n \in Nat /\ n >= 1 /\ part \in Parts
      /\ Current(t) = calls[t][n] /\ Current(t).at \in Stages /\ Elf(t) \in Users
  BY GetOutcome, CurrentCall, Elves DEF AllInv, ReadInv
<1>2. /\ Current(t).at = "tried?" => part \notin loaded[Elf(t)]
      /\ Current(t).at = "needs" => (ret[t] = "ok" <=> ReadableTo(Needs(part)))
      /\ Current(t).at = "read" /\ part # "header" => ReadableTo(Needs(part))
  BY <1>1 DEF AllInv, AnswerInv, ReturnsAreRight, At
<1>3. ReadableTo(part) <=> part \notin file.corrupt /\ (part # "header" => ReadableTo(Needs(part)))
  BY <1>1, Closures
<1>4. \A stage \in Stages : ret \in [Threads -> {"ok", "error"}] /\ ~(Returns(t) /\ GoesOn(t, stage))
  <2>1. ret \in [Threads -> {"ok", "error"}]
    BY <1>1 DEF TypeOK
  <2>2. n - 1 # n
    BY <1>1
  <2>3. \A stage \in Stages : ~(Returns(t) /\ GoesOn(t, stage))
    BY <2>2 DEF Returns, GoesOn
  <2> QED BY <2>1, <2>3
<1>4a. /\ ~(GoesOn(t, "tried?") /\ GoesOn(t, "read")) /\ ~(GoesOn(t, "needs") /\ GoesOn(t, "read"))
       /\ ~(GoesOn(t, "needs") /\ GoesOn(t, "tried?")) /\ ~(Returns(t) /\ CallsNeeded(t))
       /\ \A stage \in Stages : ~(CallsNeeded(t) /\ GoesOn(t, stage))
  BY <1>1 DEF GoesOn, CallsNeeded, Returns
<1>5. CASE check_loaded(t)
  <2>1. CASE part \in loaded[Elf(t)]
    <3>1. return(t, "ok")
      BY <1>5, <2>1 DEF check_loaded
    <3>2. Returns(t) /\ ret'[t] = "ok"
      BY <1>1, <1>4, <3>1, ReturnStep
    <3>3. ReadableTo(part)
      BY <1>1, <2>1 DEF AllInv, AnswerInv, LoadedIsReadable
    <3> QED BY <1>4, <3>2, <3>3, Names
  <2>2. CASE part \notin loaded[Elf(t)]
    <3>1. GoesOn(t, "tried?")
      BY <1>1, <1>5, <2>2, MoveStep, Names DEF check_loaded
    <3>2. loaded' = loaded
      BY <1>5 DEF check_loaded, flags
    <3> QED BY <1>4, <1>4a, <2>2, <3>1, <3>2, Names
  <2> QED BY <2>1, <2>2
<1>6. CASE check_tried(t)
  <2>1. Current(t).at = "tried?" /\ part \notin loaded[Elf(t)]
    BY <1>2, <1>6 DEF check_tried, At
  <2>2. CASE Returns(t) /\ part \in tried[Elf(t)] /\ ret'[t] = "error"
    <3>1. \A u \in Threads, i \in Nat :
            ~(Pending(u, i) /\ Elf(u) = Elf(t) /\ calls[u][i].part = part)
      BY <1>1, <2>1, NonePendingAtCheck DEF AllInv
    <3>2. ~ReadableTo(part)
      BY <1>1, <2>1, <2>2, <3>1 DEF AllInv, AnswerInv, TriedIsSettled
    <3> QED BY <1>4, <2>2, <3>2, Names
  <2>3. CASE part = "header" /\ GoesOn(t, "read")
    BY <1>4, <1>4a, <2>3, Names
  <2>4. CASE CallsNeeded(t)
    BY <1>4a, <2>4, Names
  <2> QED BY <1>1, <1>6, <2>2, <2>3, <2>4, CheckTriedRead
<1>7. CASE check_needed(t)
  <2>1. Current(t).at = "needs" /\ part # "header"
    BY <1>1, <1>7, CallInHand DEF check_needed, At
  <2>2. CASE ret[t] = "ok"
    <3>1. GoesOn(t, "read")
      BY <1>1, <1>7, <2>2, MoveStep, Names DEF check_needed
    <3> QED BY <1>2, <1>4, <1>4a, <2>1, <2>2, <3>1, Names
  <2>3. CASE ret[t] # "ok"
    <3>1. return(t, "error")
      BY <1>7, <2>3 DEF check_needed
    <3>2. Returns(t) /\ ret'[t] = "error"
      BY <1>1, <1>4, <3>1, ReturnStep
    <3> QED BY <1>2, <1>3, <1>4, <2>1, <2>3, <3>2, Names
  <2> QED BY <2>2, <2>3
<1>8. CASE read(t)
  <2>1. Current(t).at = "read"
    BY <1>8 DEF read, At
  <2>2. PICK r \in {"ok", "error"} : return(t, r) /\ (r = "ok" <=> part \notin file.corrupt)
    BY <1>8 DEF read
  <2>3. Returns(t) /\ ret'[t] = r
    BY <1>1, <1>4, <2>2, ReturnStep, Names
  <2> QED BY <1>2, <1>3, <1>4, <2>1, <2>2, <2>3, Names
<1> QED BY <1>5, <1>6, <1>7, <1>8 DEF GetStep

\* The flags go on telling what is settled.
LEMMA FlagsRight ==
  ASSUME AllInv, [Next]_vars
  PROVE  LoadedIsReadable' /\ TriedIsSettled'
<1>1. ReadInv /\ TypeOK /\ setting' = setting
  BY StepKinds, GetOutcome, StageOutcome DEF vars, AllInv, ReadInv
<1>2. loaded \in [Users -> SUBSET Parts] /\ tried \in [Users -> SUBSET Parts]
  BY <1>1 DEF TypeOK
<1>3. ASSUME NEW t \in Threads, GetStep(t)
      PROVE  LoadedIsReadable' /\ TriedIsSettled'
  <2> DEFINE part == Current(t).part
  <2>0. PICK n \in Nat : n = Len(calls[t])
    BY <1>1, <1>3, GetOutcome, CurrentCall
  <2>1. /\ n = Len(calls[t]) /\ n \in Nat /\ Current(t) = calls[t][n] /\ part \in Parts /\ Elf(t) \in Users
        /\ In(t) /\ n \in 1 .. n
    BY <1>1, <1>3, <2>0, GetOutcome, CurrentCall, Elves
  <2>2. /\ part \in tried'[Elf(t)] /\ part \notin tried[Elf(t)] => Pending(t, n)'
        /\ \A e \in Users : tried'[e] \subseteq tried[e] \cup (IF e = Elf(t) THEN {part} ELSE {})
    <3>1. CASE check_tried(t)
      <4>1. calls'[t] \in Seq(Call)
        BY <1>1, <1>3, GetOutcome DEF ReadInv, TypeOK
      <4>2. Len(calls'[t]) \in Nat
        BY <4>1, NonEmpty
      <4>3. GoesOn(t, "read") \/ CallsNeeded(t) => Pending(t, n)'
        BY <2>1, <4>2 DEF GoesOn, CallsNeeded, Pending
      <4> QED BY <1>1, <1>2, <2>1, <3>1, <4>3, CheckTriedRead
    <3>2. CASE ~check_tried(t)
      BY <1>3, <3>2 DEF GetStep, check_loaded, check_needed, read, flags
    <3> QED BY <3>1, <3>2
  <2>3. /\ \A e \in Users : loaded[e] \subseteq loaded'[e]
        /\ \/ loaded' = loaded
           \/ /\ read(t) /\ part \notin file.corrupt
              /\ loaded' = [loaded EXCEPT ![Elf(t)] = @ \cup {part}]
    BY <1>2, <1>3 DEF GetStep, check_loaded, check_tried, check_needed, read, flags
  <2>4. ReadableTo(part) <=> part \notin file.corrupt /\ (part # "header" => ReadableTo(Needs(part)))
    BY <2>1, Closures
  <2>5. LoadedIsReadable'
    <3>1. read(t) /\ part \notin file.corrupt => ReadableTo(part)
      BY <2>1, <2>4 DEF read, AllInv, AnswerInv, ReturnsAreRight, At
    <3>2. \A e \in Users : \A q \in loaded'[e] : q \in Parts /\ ReadableTo(q)
      BY <1>2, <2>1, <2>3, <3>1 DEF AllInv, AnswerInv, LoadedIsReadable
    <3> QED BY <1>1, <3>2, SameFile DEF LoadedIsReadable
  <2>6. TriedIsSettled'
    <3> SUFFICES ASSUME NEW e \in Users, NEW q \in tried'[e],
                        q \notin loaded'[e], ReadableTo(q)
                 PROVE  \E u \in Threads, i \in Nat :
                          Pending(u, i)' /\ Elf(u) = e /\ calls'[u][i].part = q
      <4>1. \A e \in Users : tried'[e] \subseteq Parts
        BY <1>2, <2>1, <2>2
      <4> QED BY <1>1, <4>1, SameFile DEF TriedIsSettled
    <3>1. CASE q \notin tried[e]
      <4>1. e = Elf(t) /\ q = part /\ Pending(t, n)'
        BY <2>2, <3>1
      <4>2. calls'[t][n].part = part
        BY <1>1, <1>3, <2>1, <4>1, GetPending
      <4> QED BY <2>1, <4>1, <4>2
    <3>2. CASE q \in tried[e]
      <4>1. PICK u \in Threads, i \in Nat : Pending(u, i) /\ Elf(u) = e /\ calls[u][i].part = q
        BY <2>3, <3>2 DEF AllInv, AnswerInv, TriedIsSettled
      <4>2. CASE ~(u = t /\ i = n)
        <5>1. Pending(u, i)' /\ calls'[u][i].part = q
          BY <1>1, <1>3, <2>0, <4>1, <4>2, GetPending
        <5> QED BY <4>1, <5>1
      <4>3. CASE u = t /\ i = n
        <5>1. part = q /\ e = Elf(t) /\ Current(t).at \in {"needs", "read"}
          BY <2>1, <4>1, <4>3 DEF Pending
        <5>2. ~read(t)
          BY <1>2, <2>1, <2>4, <5>1 DEF read
        <5>3. check_needed(t)
          BY <1>3, <5>1, <5>2 DEF GetStep, check_loaded, check_tried, At
        <5>4. ~Returns(t)
          <6>1. Current(t).at = "needs" /\ q # "header"
            BY <5>1, <5>3, CallInHand, <2>1 DEF check_needed, At
          <6>2. ret[t] = "ok"
            BY <2>1, <2>4, <5>1, <6>1 DEF AllInv, AnswerInv, ReturnsAreRight, At
          <6>3. GoesOn(t, "read")
            BY <1>1, <2>1, <5>3, <6>2, MoveStep, Names DEF check_needed
          <6> QED BY <2>1, <6>3 DEF GoesOn, Returns
        <5>5. GoesOn(t, "read")
          BY <1>1, <5>3, <5>4, CheckNeededRead
        <5>6. Pending(t, n)' /\ calls'[t][n].part = q
          BY <2>1, <5>1, <5>5 DEF GoesOn, Pending
        <5> QED BY <2>1, <4>1, <4>3, <5>6
      <4> QED BY <4>2, <4>3
    <3> QED BY <3>1, <3>2
  <2> QED BY <2>5, <2>6
<1>4. ASSUME NEW t \in Threads, StageStep(t)
      PROVE  LoadedIsReadable' /\ TriedIsSettled'
  <2>1. \A e \in Users : \/ loaded'[e] = loaded[e] /\ tried'[e] = tried[e]
                         \/ loaded'[e] = {} /\ tried'[e] = {}
    BY <1>1, <1>4, StageOutcome, OpenElf DEF flags
  <2>2. LoadedIsReadable'
    BY <1>1, <1>2, <2>1, SameFile DEF LoadedIsReadable, AllInv, AnswerInv
  <2>3. TriedIsSettled'
    <3> SUFFICES ASSUME NEW e \in Users, NEW q \in tried'[e],
                        q \notin loaded'[e], ReadableTo(q)
                 PROVE  \E u \in Threads, i \in Nat :
                          Pending(u, i)' /\ Elf(u) = e /\ calls'[u][i].part = q
      BY <1>1, <1>2, <2>1, SameFile DEF TriedIsSettled
    <3>1. PICK u \in Threads, i \in Nat : Pending(u, i) /\ Elf(u) = e /\ calls[u][i].part = q
      BY <2>1 DEF AllInv, AnswerInv, TriedIsSettled
    <3>2. Pending(u, i)' /\ calls'[u][i].part = q
      BY <1>1, <1>4, <3>1, StagePending
    <3> QED BY <3>1, <3>2
  <2> QED BY <2>2, <2>3
<1>5. CASE UNCHANGED vars
  <2>1. LoadedIsReadable'
    BY <1>1, <1>2, <1>5, SameFile DEF vars, flags, LoadedIsReadable, AllInv, AnswerInv
  <2>2. \A u \in Threads, i \in Nat : Pending(u, i)' = Pending(u, i)
    BY <1>5 DEF vars, Pending
  <2>3. \A e \in Users : \A q \in tried'[e] :
          \/ q \in loaded'[e] \/ ~ReadableTo(q)
          \/ \E u \in Threads, i \in Nat :
               Pending(u, i)' /\ Elf(u) = e /\ calls'[u][i].part = q
    BY <1>5, <2>2 DEF vars, flags, TriedIsSettled, AllInv, AnswerInv
  <2>4. \A e \in Users : tried'[e] \subseteq Parts
    BY <1>2, <1>5 DEF vars, flags
  <2>5. TriedIsSettled'
    BY <1>1, <2>3, <2>4, SameFile DEF TriedIsSettled
  <2> QED BY <2>1, <2>5
<1> QED BY <1>3, <1>4, <1>5, StepKinds

\* What a thread was told last is right, one thread at a time.
ReturnIsRight(t) ==
  /\ At(t, "tried?") => Current(t).part \notin loaded[Elf(t)]
  /\ At(t, "needs") => (ret[t] = "ok" <=> ReadableTo(Needs(Current(t).part)))
  /\ At(t, "read") /\ Current(t).part # "header" => ReadableTo(Needs(Current(t).part))
  /\ ~In(t) /\ pc[t] = "base" => (ret[t] = "ok" <=> Readable({"magic", "header"}))
  /\ pc[t] = "program headers" => Readable({"magic", "header"})
  /\ pc[t] = "has base" => (ret[t] = "ok" <=> Readable(ForBase))
  /\ ~In(t) /\ pc[t] \in Tables \cup StringTables => (ret[t] = "ok" <=> ReadableTo(pc[t]))

\* It stays right while other threads take steps: they load no part this thread
\* has found not to be loaded.
LEMMA OthersReturns ==
  ASSUME AllInv, NEW t \in Threads, NEW u \in Threads, t # u, GetStep(t) \/ StageStep(t)
  PROVE  ReturnIsRight(u)'
<1>1. /\ ReadInv /\ TypeOK /\ setting' = setting
      /\ calls'[u] = calls[u] /\ pc'[u] = pc[u]
  BY GetOutcome, StageOutcome DEF AllInv, ReadInv, OthersKeepCalls
<1>2. ret'[u] = ret[u]
  BY <1>1 DEF TypeOK, GetStep, check_loaded, check_tried, check_needed, read, return,
     StageStep, resolve, begin_base, header_loaded, read_program_headers, end_base,
     begin_resolve, end_resolve, table_loaded, strings_loaded
<1>3. /\ At(u, "tried?")' = At(u, "tried?") /\ At(u, "needs")' = At(u, "needs")
      /\ At(u, "read")' = At(u, "read") /\ In(u)' = In(u) /\ Current(u)' = Current(u)
  BY <1>1 DEF At, In, Current
<1>4. ReturnIsRight(u)
  BY DEF ReturnIsRight, AllInv, AnswerInv, ReturnsAreRight
<1>5. At(u, "tried?") => Current(u).part \notin loaded'[Elf(u)]
  <2> SUFFICES ASSUME At(u, "tried?") PROVE Current(u).part \notin loaded'[Elf(u)]
    OBVIOUS
  <2>1. In(u) /\ Current(u).at = "tried?" /\ Current(u).part \notin loaded[Elf(u)] /\ Elf(u) \in Users
    BY <1>1, <1>4, Elves DEF At, ReturnIsRight
  <2>2. CASE loaded'[Elf(u)] \subseteq loaded[Elf(u)]
    BY <2>1, <2>2
  <2>3. CASE ~(loaded'[Elf(u)] \subseteq loaded[Elf(u)])
    <3>1. GetStep(t)
      <4>1. StageStep(t) => loaded'[Elf(u)] \subseteq loaded[Elf(u)]
        BY <1>1, <2>1, StageOutcome, OpenElf DEF flags
      <4> QED BY <2>3, <4>1
    <3>2. read(t) /\ loaded' = [loaded EXCEPT ![Elf(t)] = @ \cup {Current(t).part}]
      BY <2>3, <3>1 DEF GetStep, check_loaded, check_tried, check_needed, read, flags
    <3>3. loaded \in [Users -> SUBSET Parts]
      BY <1>1 DEF TypeOK
    <3>4. Elf(u) = Elf(t) /\ loaded'[Elf(u)] = loaded[Elf(u)] \cup {Current(t).part}
      BY <2>1, <2>3, <3>2, <3>3
    <3>5. /\ In(t) /\ Len(calls[t]) \in Nat /\ Pending(t, Len(calls[t]))
          /\ Current(t) = calls[t][Len(calls[t])]
      BY <1>1, <3>2, CallInHand, CurrentCall DEF read, At
    <3>6. Current(t).part # Current(u).part
      BY <1>1, <2>1, <3>4, <3>5, NonePendingAtCheck DEF AllInv
    <3> QED BY <2>1, <3>4, <3>6
  <2> QED BY <2>2, <2>3
<1>6. /\ Elf(u)' = Elf(u) /\ Readable({"magic", "header"})' = Readable({"magic", "header"})
      /\ Readable(ForBase)' = Readable(ForBase)
      /\ ReadableTo(pc[u])' = ReadableTo(pc[u])
      /\ ReadableTo(Needs(Current(u).part))' = ReadableTo(Needs(Current(u).part))
  BY <1>1, <1>3 DEF ReadableTo, Readable, file, Elf, SharedElf
<1> QED BY <1>1, <1>2, <1>3, <1>4, <1>5, <1>6 DEF ReturnIsRight

\* A thread that steps in a get_ function is told what is right.
LEMMA OwnReturn ==
  ASSUME AllInv, NEW t \in Threads, GetStep(t)
  PROVE  ReturnIsRight(t)'
<1> DEFINE part == Current(t).part
<1>0. PICK n \in Nat : n = Len(calls[t])
  BY GetOutcome, CurrentCall DEF AllInv, ReadInv
<1>1. /\ ReadInv /\ TypeOK /\ setting' = setting /\ pc' = pc /\ In(t)
      /\ n \in Nat /\ n >= 1 /\ Current(t) = calls[t][n] /\ part \in Parts
      /\ calls[t] \in Seq(Call) /\ calls'[t] \in Seq(Call)
  BY <1>0, GetOutcome, CurrentCall DEF AllInv, ReadInv, TypeOK
<1>2. /\ pc[t] \in {"base"} \cup Tables \cup StringTables
      /\ calls[t][1].part = Asked(t)
      /\ \A i \in 1 .. n :
           /\ calls[t][i].at = "needs" => calls[t][i].part # "header"
           /\ i > 1 => /\ calls[t][i - 1].at = "needs"
                       /\ calls[t][i].part = Needs(calls[t][i - 1].part)
  BY <1>0, <1>1 DEF ReadInv, CallsAreNested
<1>3. /\ Len(calls'[t]) \in Nat /\ (In(t)' <=> Len(calls'[t]) # 0)
      /\ Current(t)' = calls'[t][Len(calls'[t])]
  BY <1>1, NonEmpty DEF In, Current
<1>4. /\ Elf(t)' = Elf(t) /\ (Readable({"magic", "header"})' <=> Opens /\ ReadableTo("header"))
      /\ \A q \in Parts : ReadableTo(q)' = ReadableTo(q)
      /\ Opens
  BY <1>1, SameFile, Closures, CallInHand
<1>4a. pc'[t] \notin {"program headers", "has base"}
  BY <1>1, <1>2 DEF Tables, StringTables
<1>5. ASSUME GoesOn(t, "tried?") \/ GoesOn(t, "read") \/ CallsNeeded(t)
      PROVE  ReturnIsRight(t)'
  <2>1. Len(calls'[t]) \in {n, n + 1}
    BY <1>0, <1>5 DEF GoesOn, CallsNeeded
  <2>2. In(t)'
    BY <1>1, <1>3, <2>1
  <2>3. CASE GoesOn(t, "tried?")
    <3>1. Current(t)' = [part |-> part, at |-> "tried?"] /\ part \notin loaded'[Elf(t)]
      BY <1>0, <1>3, <2>3, GetReturnsRight DEF GoesOn
    <3>2. ~At(t, "needs")' /\ ~At(t, "read")'
      BY <3>1 DEF At
    <3>3. Current(t)'.part \notin loaded'[Elf(t)']
      BY <1>4, <3>1
    <3> QED BY <1>4a, <2>2, <3>2, <3>3 DEF ReturnIsRight
  <2>4. CASE GoesOn(t, "read")
    <3>1. /\ Current(t)' = [part |-> part, at |-> "read"]
          /\ part # "header" => ReadableTo(Needs(part)) /\ Needs(part) \in Parts
      BY <1>0, <1>1, <1>3, <2>4, GetReturnsRight, Names DEF GoesOn
    <3>2. Current(t)'.part # "header" => ReadableTo(Needs(Current(t).part))'
      BY <1>4, <3>1
    <3>3. ~At(t, "needs")' /\ ~At(t, "tried?")'
      BY <3>1 DEF At
    <3> QED BY <1>4a, <2>2, <3>2, <3>3 DEF ReturnIsRight
  <2>5. CASE CallsNeeded(t)
    <3>1. Current(t)'.at = "loaded?"
      BY <1>0, <1>3, <2>5 DEF CallsNeeded, Get
    <3> QED BY <1>4a, <2>2, <3>1 DEF ReturnIsRight, At
  <2> QED BY <1>5, <2>3, <2>4, <2>5
<1>6. ASSUME Returns(t)
      PROVE  ReturnIsRight(t)'
  <2>1. /\ Len(calls'[t]) = n - 1
        /\ \A i \in 1 .. n - 1 : calls'[t][i] = calls[t][i]
        /\ ret'[t] = "ok" <=> ReadableTo(part)
    BY <1>0, <1>6, GetReturnsRight DEF Returns
  <2>2. CASE n = 1
    <3>1. ~In(t)' /\ part = Asked(t)
      BY <1>1, <1>2, <1>3, <2>1, <2>2
    <3>2. pc[t] = "base" => part = "header"
      BY <3>1 DEF Asked
    <3>3. pc[t] \in Tables \cup StringTables => part = pc[t] /\ pc[t] \in Parts
      BY <3>1, Names DEF Asked, Tables, StringTables
    <3>4. pc'[t] = pc[t] /\ (pc[t] \in Tables \cup StringTables =>
                               (ReadableTo(pc[t])' <=> ReadableTo(part)))
      BY <1>1, <3>3 DEF ReadableTo, Readable, file
    <3> QED BY <1>4, <1>4a, <2>1, <3>1, <3>2, <3>3, <3>4 DEF ReturnIsRight, At
  <2>3. CASE n # 1
    <3>1. n - 1 \in 1 .. n - 1 /\ n \in 1 .. n /\ n > 1
      BY <1>1, <2>3
    <3>2. /\ Current(t)' = calls[t][n - 1] /\ calls[t][n - 1].at = "needs"
          /\ part = Needs(calls[t][n - 1].part)
      BY <1>1, <1>2, <1>3, <2>1, <3>1
    <3>3. In(t)' /\ (ReadableTo(Needs(Current(t).part))' <=> ReadableTo(part))
      <4>1. In(t)'
        BY <1>1, <1>3, <2>1, <2>3
      <4>2. Needs(Current(t)'.part) = part
        BY <3>2
      <4> QED BY <1>1, <4>1, <4>2 DEF ReadableTo, Readable, file
    <3> QED BY <1>4a, <2>1, <3>2, <3>3 DEF ReturnIsRight, At
  <2> QED BY <2>2, <2>3
<1> QED BY <1>5, <1>6, GetOutcome DEF AllInv

\* A thread that steps between the get_ functions knows what is right.
LEMMA OwnStage ==
  ASSUME AllInv, NEW t \in Threads, StageStep(t)
  PROVE  ReturnIsRight(t)'
<1>1. /\ ReadInv /\ TypeOK /\ setting' = setting /\ calls[t] = <<>> /\ ~In(t)
      /\ calls \in [Threads -> Seq(Call)] /\ pc \in [Threads -> PCs]
      /\ ret \in [Threads -> {"ok", "error"}]
  BY StageOutcome DEF AllInv, ReadInv, TypeOK, In
<1>2. CASE calls'[t] # <<>>
  <2>1. In(t)' /\ Current(t)'.at = "loaded?"
    <3>1. PICK p \in Parts : calls'[t] = <<Get(p)>>
      BY <1>2, StageOutcome DEF AllInv
    <3>2. Len(<<Get(p)>>) = 1 /\ <<Get(p)>>[1] = Get(p)
      OBVIOUS
    <3> QED BY <3>1, <3>2 DEF In, Current, Get
  <2>2. pc'[t] \notin {"program headers", "has base"}
    <3>1. ASSUME NEW table \in Tables, table_loaded(t, table) \/ strings_loaded(t, table)
          PROVE  pc'[t] \notin {"program headers", "has base"}
      BY <1>1, <3>1 DEF table_loaded, strings_loaded, next_lookup, Strings
    <3>2. CASE begin_base(t)
      BY <1>1, <1>2, <3>2 DEF begin_base
    <3>3. ~header_loaded(t) /\ ~read_program_headers(t) /\ ~end_base(t)
      BY <1>1, <1>2 DEF header_loaded, read_program_headers, end_base
    <3> QED BY <1>1, <3>1, <3>2, <3>3 DEF StageStep, resolve, begin_resolve, end_resolve
  <2> QED BY <2>1, <2>2 DEF ReturnIsRight, At
<1>3. CASE calls'[t] = <<>>
  <2>1. pc'[t] \notin Tables \cup StringTables
    <3>1. \A q : <<Get(q)>> # <<>>
      BY DEF Get
    <3>2. ASSUME NEW table \in Tables, table_loaded(t, table) \/ strings_loaded(t, table)
          PROVE  pc'[t] \notin Tables \cup StringTables
      <4>1. next_lookup(t, table) \/ pc'[t] = "found"
        BY <1>1, <1>3, <3>1, <3>2 DEF table_loaded, strings_loaded
      <4>2. next_lookup(t, table) => pc'[t] = "not found"
        BY <1>1, <1>3, <3>1 DEF next_lookup
      <4> QED BY <4>1, <4>2 DEF Tables, StringTables
    <3>3. CASE begin_resolve(t)
      <4>1. calls'[t] = (IF Opens THEN <<Get("symtab")>> ELSE <<>>)
        BY <1>1, <3>3 DEF begin_resolve
      <4>2. ~Opens
        BY <1>3, <3>1, <4>1
      <4> QED BY <1>1, <3>3, <4>2 DEF begin_resolve, Tables, StringTables
    <3>4. CASE \/ \E use \in {"trace", "objects"} : resolve(t, use)
               \/ begin_base(t) \/ header_loaded(t) \/ read_program_headers(t) \/ end_base(t) \/ end_resolve(t)
      BY <1>1, <3>4 DEF resolve, begin_base, header_loaded, read_program_headers, end_base,
                        end_resolve, Tables, StringTables
    <3> QED BY <3>2, <3>3, <3>4 DEF StageStep
  <2>2. /\ pc'[t] # "base"
        /\ pc'[t] = "program headers" => Readable({"magic", "header"})
        /\ pc'[t] = "has base" => (ret'[t] = "ok" <=> Readable(ForBase))
    <3>1. ASSUME NEW table \in Tables, table_loaded(t, table) \/ strings_loaded(t, table)
          PROVE  pc'[t] \notin Locating
      BY <1>1, <3>1 DEF table_loaded, strings_loaded, next_lookup, Strings, Locating
    <3>2. CASE begin_base(t)
      <4>1. \A q : <<Get(q)>> # <<>>
        BY DEF Get
      <4>2. /\ pc'[t] = "has base"
            /\ \/ base_cached /\ ret'[t] = "ok"
               \/ ~Opens /\ ret'[t] = "error"
        <5>1. /\ ret \in [Threads -> {"ok", "error"}] /\ pc \in [Threads -> PCs]
              /\ calls \in [Threads -> Seq(Call)]
          BY DEF AllInv, ReadInv, TypeOK
        <5>2. CASE base_cached
          <6>1. pc' = [pc EXCEPT ![t] = "has base"] /\ ret' = [ret EXCEPT ![t] = "ok"]
            BY <3>2, <5>2 DEF begin_base
          <6> QED BY <5>1, <5>2, <6>1
        <5>3. CASE ~base_cached
          <6>1. /\ pc' = [pc EXCEPT ![t] = IF Opens THEN "base" ELSE "has base"]
                /\ ret' = [ret EXCEPT ![t] = IF Opens THEN "ok" ELSE "error"]
                /\ calls' = [calls EXCEPT ![t] = IF Opens THEN <<Get("header")>> ELSE <<>>]
            BY <3>2, <5>3 DEF begin_base
          <6>2. ~Opens
            BY <1>3, <4>1, <5>1, <6>1
          <6> QED BY <5>1, <6>1, <6>2
        <5> QED BY <5>2, <5>3
      <4>3. base_cached => Readable(ForBase)
        BY DEF AllInv, AnswerInv, LookupIsRight
      <4> QED BY <4>2, <4>3, Closures
    <3>3. CASE header_loaded(t)
      <4>1. ret[t] = "ok" <=> Readable({"magic", "header"})
        BY <1>1, <3>3 DEF header_loaded, AllInv, AnswerInv, ReturnsAreRight
      <4> QED BY <1>1, <3>3, <4>1, Closures DEF header_loaded
    <3>4. CASE read_program_headers(t)
      <4>1. Readable({"magic", "header"})
        BY <3>4 DEF read_program_headers, AllInv, AnswerInv, ReturnsAreRight
      <4> QED BY <1>1, <3>4, <4>1, Closures DEF read_program_headers
    <3> QED BY <1>1, <3>1, <3>2, <3>3, <3>4 DEF StageStep, resolve, end_base, begin_resolve,
               end_resolve, Locating
  <2>3. /\ Readable({"magic", "header"})' = Readable({"magic", "header"})
        /\ Readable(ForBase)' = Readable(ForBase)
    BY <1>1, SameFile
  <2>4. ~In(t)'
    BY <1>3 DEF In
  <2> QED BY <2>1, <2>2, <2>3, <2>4 DEF ReturnIsRight, At
<1> QED BY <1>2, <1>3

LEMMA LookupAfter ==
  ASSUME AllInv, NEW t \in Threads, StageStep(t)
  PROVE  LookupIsRight' /\ AnswersMatchFile'
<1>1. /\ ReadInv /\ TypeOK /\ setting' = setting /\ calls[t] = <<>> /\ ~In(t)
      /\ \A u \in Threads \ {t} : calls'[u] = calls[u] /\ pc'[u] = pc[u]
      /\ calls \in [Threads -> Seq(Call)] /\ pc \in [Threads -> PCs]
      /\ ret \in [Threads -> {"ok", "error"}]
      /\ base_answer \in [Threads -> {None, "ok", "error"}]
      /\ symbol_answer \in [Threads -> {None, "found", "not found"}]
  BY StageOutcome DEF AllInv, ReadInv, TypeOK, In
<1>2. /\ ReturnIsRight(t) /\ LookupIsRight /\ AnswersMatchFile
      /\ pc[t] \in Tables \cup StringTables => Opens
  BY DEF AllInv, AnswerInv, ReturnsAreRight, ReturnIsRight, OpenedIfAsked
<1>3. /\ file' = file /\ Readable(ForBase)' = Readable(ForBase)
      /\ \A q \in Parts : ReadableTo(q)' = ReadableTo(q)
      /\ \A table \in Tables : HasSymbol(table)' = HasSymbol(table)
  BY <1>1, SameFile
<1>4. file.holds \subseteq file.tables /\ file.holds \subseteq Tables
  <2>1. setting \in Settings
    BY <1>1 DEF TypeOK
  <2> QED BY <2>1, ElfAssumption DEF file
<1>5. /\ Tables = {"symtab", "dynsym"} /\ StringTables = {"strtab", "dynstr"}
      /\ Strings("symtab") = "strtab" /\ Strings("dynsym") = "dynstr"
      /\ {"symtab", "dynsym", "strtab", "dynstr"} \subseteq Parts
  BY DEF Tables, StringTables, Strings, Parts
<1>6. \A table \in Tables :
        HasSymbol(table) <=> /\ table \in file.holds /\ Opens
                             /\ ReadableTo(table) /\ ReadableTo(Strings(table))
  BY Closures
<1>7. LookupIsRight'
  <2>1. base_cached' => Readable(ForBase)
    BY <1>1, <1>2 DEF StageStep, resolve, begin_base, header_loaded, read_program_headers,
                      end_base, begin_resolve, end_resolve,
       table_loaded, strings_loaded, locks, LookupIsRight, ReturnIsRight
  <2>2. /\ pc'[t] = "strtab" => ReadableTo("symtab")
        /\ pc'[t] = "dynstr" => ReadableTo("dynsym")
        /\ pc'[t] \in {"dynsym", "dynstr", "not found"} => ~HasSymbol("symtab")
        /\ pc'[t] = "not found" => ~HasSymbol("dynsym")
        /\ pc'[t] = "found" => \E table \in Tables : HasSymbol(table)
    <3>1. CASE \/ \E use \in {"trace", "objects"} : resolve(t, use)
               \/ begin_base(t) \/ header_loaded(t) \/ read_program_headers(t) \/ end_base(t) \/ end_resolve(t)
      BY <1>1, <3>1 DEF resolve, begin_base, header_loaded, read_program_headers, end_base, end_resolve
    <3>2. CASE begin_resolve(t)
      BY <1>1, <1>5, <1>6, <3>2 DEF begin_resolve
    <3>3. CASE table_loaded(t, "symtab") \/ table_loaded(t, "dynsym")
      BY <1>1, <1>2, <1>4, <1>5, <1>6, <3>3, ZenonT(60)
         DEF table_loaded, next_lookup, LookupIsRight, ReturnIsRight
    <3>4. CASE strings_loaded(t, "symtab") \/ strings_loaded(t, "dynsym")
      BY <1>1, <1>2, <1>4, <1>5, <1>6, <3>4, ZenonT(60)
         DEF strings_loaded, next_lookup, LookupIsRight, ReturnIsRight
    <3> QED BY <1>5, <3>1, <3>2, <3>3, <3>4 DEF StageStep
  <2>3. ASSUME NEW u \in Threads
        PROVE  /\ pc'[u] = "strtab" => ReadableTo("symtab")
               /\ pc'[u] = "dynstr" => ReadableTo("dynsym")
               /\ pc'[u] \in {"dynsym", "dynstr", "not found"} => ~HasSymbol("symtab")
               /\ pc'[u] = "not found" => ~HasSymbol("dynsym")
               /\ pc'[u] = "found" => \E table \in Tables : HasSymbol(table)
    BY <1>1, <1>2, <2>2 DEF LookupIsRight
  <2>4. (\E table \in Tables : HasSymbol(table))' <=> \E table \in Tables : HasSymbol(table)
    BY <1>3
  <2> QED BY <1>3, <1>5, <2>1, <2>3, <2>4 DEF LookupIsRight
<1>8. AnswersMatchFile'
  <2>1. \A u \in Threads : base_answer'[u] # None =>
          (base_answer'[u] = "ok" <=> Readable(ForBase))
    <3>1. \A u \in Threads : base_answer[u] # None =>
            (base_answer[u] = "ok" <=> Readable(ForBase))
      BY <1>2 DEF AnswersMatchFile, ForBase
    <3>2. CASE end_base(t)
      BY <1>1, <1>2, <3>1, <3>2 DEF end_base, ReturnIsRight
    <3>3. CASE ~end_base(t)
      BY <3>1, <3>3 DEF StageStep, resolve, begin_base, header_loaded, read_program_headers,
         begin_resolve, end_resolve, table_loaded, strings_loaded, answers
    <3> QED BY <3>2, <3>3
  <2>2. \A u \in Threads : symbol_answer'[u] # None =>
          (symbol_answer'[u] = "found" <=> \E table \in Tables : HasSymbol(table))
    <3>1. \A u \in Threads : symbol_answer[u] # None =>
            (symbol_answer[u] = "found" <=> \E table \in Tables : HasSymbol(table))
      BY <1>2, <1>4 DEF AnswersMatchFile, HasSymbol
    <3>2. CASE end_resolve(t)
      BY <1>1, <1>2, <1>5, <3>1, <3>2 DEF end_resolve, LookupIsRight
    <3>3. CASE ~end_resolve(t)
      BY <3>1, <3>3 DEF StageStep, resolve, begin_base, header_loaded, read_program_headers,
                        end_base, begin_resolve,
         table_loaded, strings_loaded, answers
    <3> QED BY <3>2, <3>3
  <2> QED BY <1>3, <1>4, <2>1, <2>2 DEF AnswersMatchFile, HasSymbol, ForBase
<1> QED BY <1>7, <1>8

LEMMA InitAnswer == Init => AnswerInv
<1> SUFFICES ASSUME Init PROVE AnswerInv
  OBVIOUS
<1>1. LoadedIsReadable /\ TriedIsSettled
  BY DEF Init, LoadedIsReadable, TriedIsSettled, Users
<1>2. ReturnsAreRight
  BY DEF Init, ReturnsAreRight, At, In, Tables, StringTables
<1>3. LookupIsRight /\ AnswersMatchFile
  BY DEF Init, LookupIsRight, AnswersMatchFile
<1> QED BY <1>1, <1>2, <1>3 DEF AnswerInv

LEMMA NextAnswer == AllInv /\ [Next]_vars => AnswerInv'
<1> SUFFICES ASSUME AllInv, [Next]_vars PROVE AnswerInv'
  OBVIOUS
<1>1. LoadedIsReadable' /\ TriedIsSettled'
  BY FlagsRight
<1>2. ASSUME NEW t \in Threads, GetStep(t)
      PROVE  ReturnsAreRight' /\ LookupIsRight' /\ AnswersMatchFile'
  <2>1. \A u \in Threads : ReturnIsRight(u)'
    BY <1>2, OthersReturns, OwnReturn
  <2>2. setting' = setting /\ pc' = pc /\ base_cached' = base_cached /\ UNCHANGED answers
    BY <1>2, GetOutcome DEF locks, AllInv
  <2>3. LookupIsRight' /\ AnswersMatchFile'
    BY <2>2 DEF AllInv, AnswerInv, LookupIsRight, AnswersMatchFile, answers, file, HasSymbol,
       ReadableTo, Readable
  <2> QED BY <2>1, <2>3 DEF ReturnsAreRight, ReturnIsRight
<1>3. ASSUME NEW t \in Threads, StageStep(t)
      PROVE  ReturnsAreRight' /\ LookupIsRight' /\ AnswersMatchFile'
  <2>1. \A u \in Threads : ReturnIsRight(u)'
    BY <1>3, OthersReturns, OwnStage
  <2> QED BY <1>3, <2>1, LookupAfter DEF ReturnsAreRight, ReturnIsRight
<1>4. CASE UNCHANGED vars
  <2>1. UNCHANGED <<setting, flags, locks, pc, calls, ret, answers>>
    BY <1>4 DEF vars
  <2>2. ReturnsAreRight'
    BY <2>1 DEF AllInv, AnswerInv, ReturnsAreRight, flags, At, In, Current, Elf, SharedElf,
       ReadableTo, Readable, file
  <2>3. LookupIsRight' /\ AnswersMatchFile'
    BY <2>1 DEF AllInv, AnswerInv, LookupIsRight, AnswersMatchFile, locks, answers, file,
       HasSymbol, ReadableTo, Readable
  <2> QED BY <1>1, <2>2, <2>3 DEF AnswerInv
<1> QED BY <1>1, <1>2, <1>3, <1>4, StepKinds DEF AnswerInv

\* A thread that looks for the base of a shared elf is the first to: those that
\* have been through it have left the base in the cache, if there is one.
BaseIsFirst ==
  SharedElf =>
    \A t \in Threads :
      /\ pc[t] \in {"base", "program headers"} => ~base_cached
      /\ pc[t] \in {"located"} \cup Resolving /\ Readable(ForBase) => base_cached

LEMMA InitFirst == Init => BaseIsFirst
BY DEF Init, BaseIsFirst, Resolving, Tables

LEMMA NextFirst == AllInv /\ SafeUse /\ BaseIsFirst /\ [Next]_vars => BaseIsFirst'
<1> SUFFICES ASSUME AllInv, SafeUse, BaseIsFirst, [Next]_vars PROVE BaseIsFirst'
  OBVIOUS
<1>1. setting' = setting /\ ReadInv /\ TypeOK /\ LocksAreHeld
  BY StepKinds, GetOutcome, StageOutcome DEF vars, AllInv, ReadInv
<1>2. SharedElf' = SharedElf /\ Readable(ForBase)' = Readable(ForBase)
  BY <1>1, SameFile
<1> SUFFICES ASSUME SharedElf PROVE BaseIsFirst'
  BY <1>2 DEF BaseIsFirst
<1>3. ASSUME NEW t \in Threads, GetStep(t)
      PROVE  BaseIsFirst'
  <2>1. pc' = pc /\ base_cached' = base_cached
    BY <1>1, <1>3, GetOutcome DEF locks
  <2> QED BY <1>2, <2>1 DEF BaseIsFirst
<1>4. ASSUME NEW t \in Threads, StageStep(t)
      PROVE  BaseIsFirst'
  <2>1. \A u \in Threads \ {t} : pc'[u] = pc[u]
    BY <1>1, <1>4, StageOutcome
  <2>2. pc \in [Threads -> PCs]
    BY <1>1 DEF TypeOK
  <2>3. CASE end_base(t)
    <3>1. /\ pc[t] = "has base" /\ pc'[t] = "located"
          /\ base_cached' = (base_cached \/ ret[t] = "ok")
      BY <2>2, <2>3 DEF end_base
    <3>2. ret[t] = "ok" <=> Readable(ForBase)
      BY <3>1 DEF AllInv, AnswerInv, ReturnsAreRight
    <3>3. \A u \in Threads \ {t} : pc[u] \notin {"base", "program headers"}
      BY <1>1, <3>1 DEF LocksAreHeld, Locating
    <3>4. pc'[t] \notin {"base", "program headers"}
      BY <3>1
    <3> QED BY <1>2, <2>1, <3>1, <3>2, <3>3, <3>4 DEF BaseIsFirst
  <2>4. CASE ~end_base(t)
    <3>1. base_cached' = base_cached
      BY <1>4, <2>4 DEF StageStep, resolve, begin_base, header_loaded, read_program_headers,
         begin_resolve, end_resolve, table_loaded, strings_loaded, locks
    <3>2. pc'[t] \in {"base", "program headers"} => ~base_cached
      <4>1. ASSUME NEW table \in Tables, table_loaded(t, table) \/ strings_loaded(t, table)
            PROVE  pc'[t] \notin {"base", "program headers"}
        BY <2>2, <4>1 DEF table_loaded, strings_loaded, next_lookup, Strings
      <4>2. CASE begin_base(t) \/ header_loaded(t)
        BY <2>2, <4>2 DEF begin_base, header_loaded, BaseIsFirst
      <4> QED BY <1>4, <2>2, <2>4, <4>1, <4>2 DEF StageStep, resolve, read_program_headers,
                 begin_resolve, end_resolve
    <3>3. pc'[t] \in {"located"} \cup Resolving => pc[t] \in {"located"} \cup Resolving
      <4>1. \A table \in Tables : table \in Resolving /\ Strings(table) \in Resolving
        BY Names
      <4>2. ASSUME NEW use \in {"trace", "objects"}, resolve(t, use)
            PROVE  pc'[t] = "unlocated"
        BY <2>2, <4>2 DEF resolve, SafeUse
      <4>3. CASE begin_base(t) \/ header_loaded(t) \/ read_program_headers(t)
        BY <2>2, <4>3, Names DEF begin_base, header_loaded, read_program_headers, Locating
      <4>4. "unlocated" \notin {"located"} \cup Resolving
        BY DEF Resolving, Tables
      <4>5. CASE begin_resolve(t) \/ end_resolve(t)
        BY <4>5 DEF begin_resolve, end_resolve, Resolving
      <4> QED BY <1>4, <2>4, <4>1, <4>2, <4>3, <4>4, <4>5 DEF StageStep, table_loaded,
                 strings_loaded
    <3> QED BY <1>2, <2>1, <3>1, <3>2, <3>3 DEF BaseIsFirst
  <2> QED BY <2>3, <2>4
<1>5. CASE UNCHANGED vars
  BY <1>2, <1>5 DEF vars, locks, BaseIsFirst
<1> QED BY <1>3, <1>4, <1>5, StepKinds

\* No two threads read from the FILE of one elf.
LEMMA FileApart ==
  ASSUME AllInv, SafeUse, BaseIsFirst, NEW t \in Threads, NEW u \in Threads,
         t # u, Elf(t) = Elf(u), Reads(t)
  PROVE  ~Reads(u)
<1> SUFFICES ASSUME Reads(u) PROVE FALSE
  OBVIOUS
<1>1. ReadInv /\ TypeOK /\ LocksAreHeld
  BY DEF AllInv, ReadInv
<1>2. SharedElf
  BY <1>1, Elves
<1>3. \A v \in Threads : Reads(v) =>
        \/ pc[v] = "base" /\ base_lock = v /\ In(v) /\ Current(v).at = "read"
        \/ pc[v] = "program headers" /\ base_lock = v
        \/ pc[v] \in Resolving /\ resolve_lock = v /\ In(v)
  <2> TAKE v \in Threads
  <2>1. CASE At(v, "read")
    BY <1>1, <2>1, StageOfCall DEF At
  <2>2. CASE pc[v] = "program headers"
    BY <1>1, <2>2 DEF LocksAreHeld, Locating
  <2> QED BY <2>1, <2>2 DEF Reads
<1>4. ASSUME NEW v \in Threads, NEW w \in Threads, Reads(v), base_lock = v, pc[v] \in Locating,
             In(w), pc[w] \in Resolving
      PROVE  FALSE
  <2>1. Opens /\ HeaderSettled
    BY <1>2, <1>4 DEF AllInv, OpenedIfAsked, HeaderIsSettled, PastBase
  <2>2. CASE pc[v] = "base"
    <3>1. /\ In(v) /\ Current(v).at = "read" /\ Current(v).part = "header"
          /\ Current(v) = calls[v][Len(calls[v])] /\ Len(calls[v]) \in Nat /\ Len(calls[v]) >= 1
      BY <1>1, <1>3, <1>4, <2>2, BaseAsksForHeader, CurrentCall, Names
    <3> QED BY <2>1, <3>1 DEF HeaderSettled, Pending
  <2>3. CASE pc[v] = "program headers"
    <3>1. Readable({"magic", "header"}) /\ "program headers" \notin file.corrupt
      BY <1>2, <2>3 DEF AllInv, AnswerInv, ReturnsAreRight, SafeUse
    <3>2. Readable(ForBase)
      BY <3>1 DEF Readable, ForBase
    <3> QED BY <1>2, <1>4, <2>3, <3>2 DEF BaseIsFirst
  <2> QED BY <1>1, <1>3, <1>4, <2>2, <2>3, Names
<1>5. {"base", "program headers"} \subseteq Locating
  BY DEF Locating
<1> QED BY <1>3, <1>4, <1>5

\* All of it holds of every behaviour.
LEMMA SafeRuns == Spec => [](ReadInv /\ RaceInv /\ (SafeUse => AnswerInv /\ BaseIsFirst))
<1> DEFINE J == SafeUse => AnswerInv /\ BaseIsFirst
<1>1. Init => J
  BY InitAnswer, InitFirst
<1>2. ReadInv /\ RaceInv /\ J /\ [Next]_vars => J'
  <2> SUFFICES ASSUME ReadInv, RaceInv, J, [Next]_vars, SafeUse'
               PROVE  AnswerInv' /\ BaseIsFirst'
    OBVIOUS
  <2>1. setting' = setting
    BY StepKinds, GetOutcome, StageOutcome DEF vars
  <2>2. SafeUse
    BY <2>1 DEF SafeUse, SharedElf, file
  <2> QED BY <2>2, NextAnswer, NextFirst DEF RaceInv, AllInv
<1> HIDE DEF J
<1>3. Spec => [](ReadInv /\ RaceInv /\ J)
  BY <1>1, <1>2, InitRead, NextRead, InitRace, NextRace, PTL DEF Spec
<1> QED BY <1>3 DEF J

\* However many threads resolve raw traces, and object frames too as long as
\* each opens an elf of its own, no thread writes a part of an elf or its flags
\* while another is at that part, and no two move the position of its FILE:
\* although no lock of the elf's is taken, the locks of its two users and the
\* order in which a trace goes through them are enough.
THEOREM NoRaceOnTraces == Spec => [](SafeUse => DataRaceFree)
<1>1. ReadInv /\ RaceInv /\ (SafeUse => AnswerInv /\ BaseIsFirst) => (SafeUse => DataRaceFree)
  BY PartsApart, FileApart DEF RaceInv, AllInv, DataRaceFree
<1> QED BY <1>1, SafeRuns, PTL

\* What a thread is told of the base of an object or the symbol at an address
\* depends on the file alone, whatever the other threads are doing or did: a
\* part that failed is reported as such to every later caller, and one that is
\* being loaded is never taken for one that failed.
THEOREM AnswersDependOnFile == Spec => [](SafeUse => AnswersMatchFile)
<1>1. (SafeUse => AnswerInv /\ BaseIsFirst) => (SafeUse => AnswersMatchFile)
  BY DEF AnswerInv
<1> QED BY <1>1, SafeRuns, PTL

-----------------------------------------------------------------------------
\* The least and the greatest of a set.
LEMMA IsMin ==
  ASSUME NEW S \in SUBSET Nat, NEW n \in S, \A k \in S : n <= k
  PROVE  Min(S) = n
<1>1. Min(S) \in S /\ \A k \in S : Min(S) <= k
  BY DEF Min
<1>2. n \in Nat /\ Min(S) \in Nat
  BY <1>1
<1>3. n <= Min(S) /\ Min(S) <= n
  BY <1>1
<1> QED BY <1>2, <1>3

LEMMA IsMax ==
  ASSUME NEW S \in SUBSET Nat, NEW n \in S, \A k \in S : k <= n
  PROVE  Max(S) = n
<1>1. Max(S) \in S /\ \A k \in S : Max(S) >= k
  BY DEF Max
<1>2. n \in Nat /\ Max(S) \in Nat
  BY <1>1
<1>3. Max(S) >= n /\ Max(S) <= n
  BY <1>1
<1> QED BY <1>2, <1>3

\* A file that was not missing is whole.
FilesOK ==
  /\ readable \in [DOMAIN Files -> Nat]
  /\ \A path \in DOMAIN Files \ missing : readable[path] = WholeFile

\* What is at a place of a file, or nothing as the file does not go so far.
LEMMA StructureRead ==
  ASSUME FilesOK, NEW path \in DOMAIN Files, NEW offset \in DOMAIN Files[path], NEW item,
         item = Files[path][offset]
  PROVE  /\ item # Error
         /\ item_at(path, offset) \in {Error, item}
         /\ path \notin missing => item_at(path, offset) = item
         /\ LET seen == read_structure(path, offset, item.kind, item.width, item.big)
            IN seen \in {Error, item} /\ (path \notin missing => seen = item)
<1>1. item # Error
  BY MachOAssumption
<1>2. path \notin missing => offset < readable[path]
  <2>1. offset \in 0 .. (WholeFile - 1)
    BY DebugMapAssumption
  <2>2. WholeFile \in Nat
    BY DEF WholeFile
  <2> QED BY <2>1, <2>2 DEF FilesOK
<1>3. /\ item_at(path, offset) \in {Error, item}
      /\ path \notin missing => item_at(path, offset) = item
  BY <1>2 DEF item_at, there
<1> QED BY <1>1, <1>3 DEF read_structure, read_as

\* Anything that is read as a command has a length.
LEMMA CommandRead ==
  ASSUME NEW path \in DOMAIN Files, NEW offset, NEW width, NEW big,
         read_structure(path, offset, "command", width, big) # Error
  PROVE  /\ read_structure(path, offset, "command", width, big).size \in Nat
         /\ read_structure(path, offset, "command", width, big).cmd \in STRING
<1> DEFINE item == item_at(path, offset)
<1>1. read_structure(path, offset, "command", width, big) = item /\ item # Error /\ item.kind = "command"
  BY DEF read_structure, read_as
<1>2. offset \in DOMAIN Files[path] /\ item = Files[path][offset]
  BY <1>1 DEF item_at, there
<1> QED BY <1>1, <1>2, MachOAssumption

-----------------------------------------------------------------------------
\* Where the n-th command ends.
EndOf(path, n) ==
  LET commands == Images[path].commands
  IN IF n = 0 THEN Images[path].start + 1
     ELSE commands[n].offset + Files[path][commands[n].offset].size

\* list has the first commands of a file.
FirstOf(list, path) ==
  /\ list \in Seq(MachCommand) /\ Len(list) <= Len(Images[path].commands)
  /\ \A k \in 1 .. Len(list) : list[k] = Images[path].commands[k]

Loading == [ok : BOOLEAN, offset : Nat, list : Seq(MachCommand)]
LoadedUpto(s, path, n) ==
  /\ s \in Loading /\ FirstOf(s.list, path) /\ Len(s.list) <= n
  /\ s.ok => Len(s.list) = n /\ s.offset = EndOf(path, n)
  /\ path \notin missing => s.ok

LEMMA CommandLoaded ==
  ASSUME FilesOK, NEW path \in DOMAIN Files, NEW n \in 1 .. Len(Images[path].commands), NEW s,
         LoadedUpto(s, path, n - 1)
  PROVE  LoadedUpto(add_command(s, read_structure(path, s.offset, "command", Images[path].width,
                                                  Images[path].big)), path, n)
<1> DEFINE image == Images[path]
           command == read_structure(path, s.offset, "command", image.width, image.big)
           t == add_command(s, command)
<1> SUFFICES LoadedUpto(t, path, n)
  OBVIOUS
<1>1. /\ image.commands \in Seq(MachCommand) /\ Len(image.commands) \in Nat /\ image.start \in Nat
      /\ CommandAt(Files[path], image, n)
  BY MachOAssumption DEF Written
<1>2. s \in Loading /\ FirstOf(s.list, path) /\ Len(s.list) <= n - 1
  BY DEF LoadedUpto
<1>3. image.commands[n] \in MachCommand
  BY <1>1
<1> DEFINE place == image.commands[n].offset
           there_ == Files[path][place]
<1>6. /\ place \in DOMAIN Files[path] /\ there_.kind = "command" /\ there_.cmd = image.commands[n].cmd
      /\ there_.width = image.width /\ there_.big = image.big /\ place = EndOf(path, n - 1)
  <2>1. n - 1 = 0 <=> n = 1
    OBVIOUS
  <2> QED BY <1>1, <2>1 DEF CommandAt, EndOf
<1>7. s.offset = place => command \in {Error, there_} /\ (path \notin missing => command = there_) /\ there_ # Error
  BY <1>6, StructureRead
<1> HIDE DEF there_, command
<1>4. CASE ~(s.ok /\ command # Error)
  <2>1. t = [s EXCEPT !.ok = FALSE]
    BY <1>4 DEF add_command
  <2>2. t \in Loading /\ t.list = s.list /\ t.ok = FALSE
    BY <1>2, <2>1 DEF Loading
  <2>3. path \in missing
    <3> SUFFICES ASSUME path \notin missing PROVE FALSE
      OBVIOUS
    <3>1. s.ok /\ s.offset = EndOf(path, n - 1)
      BY DEF LoadedUpto
    <3> QED BY <1>4, <1>6, <1>7, <3>1
  <2>4. Len(s.list) \in Nat /\ Len(s.list) <= n
    BY <1>2 DEF Loading
  <2> HIDE DEF t
  <2> QED BY <1>2, <2>2, <2>3, <2>4 DEF LoadedUpto
<1>5. CASE s.ok /\ command # Error
  <2>1. s.offset = EndOf(path, n - 1) /\ Len(s.list) = n - 1
    BY <1>5 DEF LoadedUpto
  <2>2. s.offset = place
    BY <1>6, <2>1
  <2>3. command = there_
    BY <1>5, <1>7, <2>2
  <2>4. command.size \in Nat /\ command.cmd = image.commands[n].cmd
    BY <1>5, <1>6, <2>3, CommandRead DEF command
  <2>5. [offset |-> s.offset, cmd |-> command.cmd] = image.commands[n]
    BY <1>3, <2>2, <2>4 DEF MachCommand
  <2>6. t = [ok |-> TRUE, offset |-> s.offset + command.size, list |-> Append(s.list, image.commands[n])]
    BY <1>5, <2>5 DEF add_command
  <2>7. s.offset + command.size = EndOf(path, n) /\ s.offset \in Nat
    BY <1>2, <2>2, <2>3 DEF EndOf, Loading, there_
  <2>8. s.list \in Seq(MachCommand)
    BY <1>2 DEF Loading
  <2>9. FirstOf(Append(s.list, image.commands[n]), path) /\ Len(Append(s.list, image.commands[n])) = n
    <3> DEFINE l == Append(s.list, image.commands[n])
    <3>1. /\ l \in Seq(MachCommand) /\ Len(l) = n
          /\ \A k \in 1 .. n - 1 : l[k] = s.list[k]
          /\ l[n] = image.commands[n]
      BY <1>3, <2>1, <2>8
    <3>2. \A k \in 1 .. n : k = n \/ k \in 1 .. n - 1
      OBVIOUS
    <3> HIDE DEF l
    <3>3. \A k \in 1 .. n : l[k] = image.commands[k]
      BY <1>2, <2>1, <3>1, <3>2 DEF FirstOf
    <3> QED BY <1>1, <3>1, <3>3 DEF FirstOf, l
  <2>10. t \in Loading
    <3>1. s.offset + command.size \in Nat
      BY <2>4, <2>7
    <3>2. Append(s.list, image.commands[n]) \in Seq(MachCommand)
      BY <1>3, <2>8
    <3> QED BY <2>6, <3>1, <3>2 DEF Loading
  <2>11. t.ok /\ t.offset = EndOf(path, n) /\ t.list = Append(s.list, image.commands[n])
    BY <2>6, <2>7
  <2> HIDE DEF t
  <2>12. FirstOf(t.list, path) /\ Len(t.list) = n
    BY <2>9, <2>11
  <2> QED BY <2>10, <2>11, <2>12 DEF LoadedUpto
<1> QED BY <1>4, <1>5

\* As many commands are loaded as are there, and all of a file that is whole.
LEMMA CommandsLoaded ==
  ASSUME FilesOK, NEW path \in DOMAIN Files, NEW m, m.path = path,
         m.load_base = Images[path].start, m.width = Images[path].width
  PROVE  LET upto == load_commands(m, Files[path][Images[path].start])
         IN LoadedUpto(upto, path, Len(Images[path].commands))
<1> DEFINE image == Images[path]
           header == Files[path][image.start]
           N == header.ncmds
           command(s) == read_structure(m.path, s.offset, "command", m.width, header.big)
           first == [ok |-> TRUE, offset |-> m.load_base + 1, list |-> <<>>]
           Body(f) == [n \in 0 .. N |->
                         IF n = 0 THEN first ELSE add_command(f[n - 1], command(f[n - 1]))]
           next_command == [p \in Loading \X (1 .. N) |-> add_command(p[1], command(p[1]))]
           upto == CHOOSE f : f = Body(f)
<1>1. /\ image.commands \in Seq(MachCommand) /\ Len(image.commands) \in Nat /\ image.start \in Nat
      /\ N = Len(image.commands) /\ header.big = image.big
  BY MachOAssumption DEF Written
<1>2. \A s \in Loading : add_command(s, command(s)) \in Loading
  <2> SUFFICES ASSUME NEW s \in Loading PROVE add_command(s, command(s)) \in Loading
    OBVIOUS
  <2>1. command(s) # Error => command(s).size \in Nat /\ command(s).cmd \in STRING
    BY CommandRead
  <2> HIDE DEF command
  <2>2. CASE s.ok /\ command(s) # Error
    <3>1. s.offset \in Nat /\ s.list \in Seq(MachCommand)
      BY DEF Loading
    <3>2. [offset |-> s.offset, cmd |-> command(s).cmd] \in MachCommand
      BY <2>1, <2>2, <3>1 DEF MachCommand
    <3> QED BY <2>1, <2>2, <3>1, <3>2 DEF add_command, Loading
  <2>3. CASE ~(s.ok /\ command(s) # Error)
    BY <2>3 DEF add_command, Loading
  <2> QED BY <2>2, <2>3
<1>3. next_command \in [Loading \X (1 .. N) -> Loading]
  BY <1>2
<1>4. first \in Loading
  BY <1>1 DEF Loading
<1>5. PICK f : f \in [0 .. N -> Loading] /\ f[0] = first /\ \A n \in 1 .. N : f[n] = next_command[<<f[n - 1], n>>]
  <2>1. N \in Nat
    BY <1>1
  <2> HIDE DEF next_command, N, first
  <2>2. \E f : Recursive(f, Loading, N, first, next_command)
    BY <1>3, <1>4, <2>1, Recursion
  <2> QED BY <2>2 DEF Recursive
<1> HIDE DEF command, first
<1>6. \A n \in 1 .. N : f[n] = add_command(f[n - 1], command(f[n - 1]))
  <2> SUFFICES ASSUME NEW n \in 1 .. N PROVE f[n] = add_command(f[n - 1], command(f[n - 1]))
    OBVIOUS
  <2>1. n - 1 \in 0 .. N
    BY <1>1
  <2>2. <<f[n - 1], n>> \in Loading \X (1 .. N)
    BY <1>5, <2>1
  <2> QED BY <1>5, <2>2
<1>7. f = Body(f)
  <2>1. ASSUME NEW n \in 0 .. N PROVE f[n] = Body(f)[n]
    <3>1. Body(f)[n] = IF n = 0 THEN first ELSE add_command(f[n - 1], command(f[n - 1]))
      OBVIOUS
    <3>2. n = 0 \/ n \in 1 .. N
      BY <1>1
    <3> QED BY <3>1, <3>2, <1>5, <1>6
  <2>2. f = [n \in 0 .. N |-> f[n]] /\ Body(f) = [n \in 0 .. N |-> Body(f)[n]]
    BY <1>5
  <2> HIDE DEF Body
  <2> QED BY <2>1, <2>2
<1>8. upto = Body(upto)
  <2> HIDE DEF Body
  <2> QED BY <1>7
<1>9. load_commands(m, header) = upto[N]
  BY DEF load_commands, command, first
<1>10. upto[0] = first
  <2>1. Body(upto)[0] = first
    BY <1>1
  <2> HIDE DEF Body, upto
  <2> QED BY <1>8, <2>1
<1>11. \A n \in 1 .. N : upto[n] = add_command(upto[n - 1], command(upto[n - 1]))
  <2> HIDE DEF upto
  <2>1. \A n \in 1 .. N : Body(upto)[n] = add_command(upto[n - 1], command(upto[n - 1]))
    BY <1>1
  <2> HIDE DEF Body
  <2> QED BY <1>8, <2>1
<1> HIDE DEF upto, Body, next_command
<1> DEFINE G == {n \in Nat : n <= N => LoadedUpto(upto[n], path, n)}
<1>12. 0 \in G
  <2>1. LoadedUpto(first, path, 0)
    BY <1>1, <1>4 DEF LoadedUpto, FirstOf, EndOf, first
  <2> QED BY <1>10, <2>1
<1>13. ASSUME NEW n \in Nat, n \in G PROVE n + 1 \in G
  <2> SUFFICES ASSUME n + 1 <= N PROVE LoadedUpto(upto[n + 1], path, n + 1)
    OBVIOUS
  <2>1. n + 1 \in 1 .. N /\ n <= N /\ (n + 1) - 1 = n
    BY <1>1
  <2>2. LoadedUpto(upto[n], path, (n + 1) - 1)
    BY <1>13, <2>1
  <2>3. upto[n + 1] = add_command(upto[n], command(upto[n]))
    BY <1>11, <2>1
  <2>4. command(upto[n]) = read_structure(path, upto[n].offset, "command", image.width, image.big)
    BY <1>1 DEF command
  <2> HIDE DEF G
  <2> QED BY <1>1, <2>1, <2>2, <2>3, <2>4, CommandLoaded
<1>14. N \in G
  <2> HIDE DEF G
  <2> QED BY <1>1, <1>12, <1>13, Induction
<1> QED BY <1>1, <1>9, <1>14
-----------------------------------------------------------------------------
\* A file as it was opened at some time: its first commands, all of them if the
\* file was not missing, and what was read of it since.
MachBase(m, path, lost) ==
  LET image == Images[path]
  IN /\ m \in MachObject /\ m.path = path /\ FirstOf(m.commands, path)
     /\ m.commands # <<>> => m.load_base = image.start /\ m.width = image.width /\ m.big = image.big
     /\ m.symtab_info \in {Nothing, image.info}
     /\ m.symtab_info # Nothing => m.commands # <<>>
     /\ m.symbols \in {Nothing, TableOf(path)}
     /\ path \notin lost => m.commands = image.commands /\ (m.tried_symtab => m.symtab_info = image.info)
MachOK(m, path, lost) ==
  MachBase(m, path, lost) /\ (path \notin lost => (m.tried_symbols => m.symbols = TableOf(path)))
MachResult(m, path, lost) == (m = Error /\ path \in lost) \/ MachOK(m, path, lost)

Fresh(m, path) ==
  /\ m \in MachObject /\ m.path = path /\ m.commands = <<>>
  /\ m.symtab_info = Nothing /\ ~m.tried_symtab /\ m.symbols = Nothing /\ ~m.tried_symbols

LEMMA ImageFacts ==
  ASSUME NEW path \in DOMAIN Files
  PROVE  LET image == Images[path]
             header == Files[path][image.start]
         IN /\ image.start \in Nat /\ image.commands \in Seq(MachCommand) /\ image.entries \in Seq(MachEntry)
            /\ Len(image.commands) \in Nat /\ Len(image.entries) \in Nat /\ image.commands # <<>>
            /\ {0, image.start} \subseteq DOMAIN Files[path]
            /\ header.kind = "header" /\ header.width = image.width /\ header.big = image.big
            /\ image.width \in Nat /\ image.big \in BOOLEAN
<1>1. Written(Files[path], Images[path]) /\ Images[path].commands \in Seq(MachCommand)
  BY MachOAssumption
<1>2. Images[path].commands # <<>>
  BY <1>1 DEF Written
<1> QED BY <1>1, <1>2, MachOAssumption DEF Written

\* An object of which nothing was read yet.
LEMMA FreshObject ==
  ASSUME NEW path \in DOMAIN Files, NEW big \in BOOLEAN, NEW m,
         m = [path |-> path, width |-> 0, big |-> big, load_base |-> 0, fat_index |-> Nothing,
              commands |-> <<>>, symtab_info |-> Nothing, tried_symtab |-> FALSE,
              symbols |-> Nothing, tried_symbols |-> FALSE]
  PROVE  Fresh(m, path) /\ m.load_base = 0
<1>1. <<>> \in Seq(MachCommand)
  OBVIOUS
<1> DEFINE infos == {Images[p].info : p \in DOMAIN Files} \cup {Nothing}
           tables == {TableOf(p) : p \in DOMAIN Files} \cup {Nothing}
<1>2. Nothing \in infos /\ Nothing \in tables /\ Nothing \in Nat \cup {Nothing}
  OBVIOUS
<1>3. MachObject =
        [path : DOMAIN Files, width : Nat, big : BOOLEAN, load_base : Nat, fat_index : Nat \cup {Nothing},
         commands : Seq(MachCommand), symtab_info : infos, tried_symtab : BOOLEAN, symbols : tables,
         tried_symbols : BOOLEAN]
  BY DEF MachObject
<1> HIDE DEF infos, tables
<1>4. m \in MachObject
  BY <1>1, <1>2, <1>3
<1> QED BY <1>4 DEF Fresh

LEMMA MachLoaded ==
  ASSUME FilesOK, NEW path \in DOMAIN Files, NEW m, Fresh(m, path),
         m.load_base = Images[path].start, m.width = Images[path].width
  PROVE  /\ MachOK(load_mach(m).object, path, missing)
         /\ path \notin missing => load_mach(m).ok
<1> DEFINE image == Images[path]
           header == Files[path][image.start]
           item == item_at(path, image.start)
<1>1. /\ item \in {Error, header} /\ header # Error /\ (path \notin missing => item = header)
      /\ header.kind = "header" /\ header.width = image.width /\ header.big = image.big
  BY ImageFacts, StructureRead
<1>2. load_mach(m) = load_mach_from(m, item)
  BY DEF load_mach, Fresh
<1> HIDE DEF item, header
<1>3. CASE item = Error
  <2>1. load_mach(m) = [ok |-> FALSE, object |-> m]
    BY <1>2, <1>3 DEF load_mach_from
  <2>2. MachOK(m, path, missing)
    <3>1. FirstOf(<<>>, path)
      BY ImageFacts DEF FirstOf
    <3> QED BY <1>1, <1>3, <3>1 DEF MachOK, MachBase, Fresh
  <2> QED BY <1>1, <1>3, <2>1, <2>2
<1>4. CASE item = header
  <2> DEFINE upto == load_commands(m, header)
             machine == [m EXCEPT !.big = header.big, !.commands = upto.list]
  <2>1. LoadedUpto(upto, path, Len(image.commands))
    BY CommandsLoaded DEF Fresh, header
  <2>2. load_mach(m) = [ok |-> upto.ok, object |-> machine]
    BY <1>1, <1>2, <1>4 DEF load_mach_from
  <2> HIDE DEF upto
  <2>3. /\ upto.list \in Seq(MachCommand) /\ FirstOf(upto.list, path)
        /\ path \notin missing => upto.ok /\ Len(upto.list) = Len(image.commands)
    BY <2>1 DEF LoadedUpto, Loading
  <2>4. path \notin missing => upto.list = image.commands
    BY <2>3, ImageFacts DEF FirstOf
  <2>5. header.big \in BOOLEAN
    BY <1>1, ImageFacts
  <2>6. /\ machine \in MachObject /\ machine.path = path /\ machine.commands = upto.list
        /\ machine.load_base = image.start /\ machine.width = image.width /\ machine.big = image.big
        /\ machine.symtab_info = Nothing /\ ~machine.tried_symtab
        /\ machine.symbols = Nothing /\ ~machine.tried_symbols
    BY <1>1, <2>3, <2>5 DEF Fresh, MachObject
  <2> HIDE DEF machine
  <2>7. MachOK(machine, path, missing)
    BY <2>3, <2>4, <2>6 DEF MachOK, MachBase
  <2> QED BY <2>2, <2>3, <2>7
<1> QED BY <1>1, <1>3, <1>4

\* A file that is opened is the image for this machine.
LEMMA FileOpens ==
  ASSUME FilesOK, NEW path \in DOMAIN Files
  PROVE  MachResult(open(path), path, missing)
<1> DEFINE image == Images[path]
           items == Files[path]
           magic == item_at(path, 0)
           m == [path |-> path, width |-> 0, big |-> magic.big, load_base |-> 0,
                 fat_index |-> Nothing, commands |-> <<>>,
                 symtab_info |-> Nothing, tried_symtab |-> FALSE,
                 symbols |-> Nothing, tried_symbols |-> FALSE]
<1>1. /\ magic \in {Error, items[0]} /\ items[0] # Error /\ (path \notin missing => magic = items[0])
  BY ImageFacts, StructureRead
<1>2. BeginsAt(items, image.start)
  BY MachOAssumption DEF Written
<1>3. items[0].big \in BOOLEAN /\ items[0].width \in Nat
  BY ImageFacts, MachOAssumption
<1>4. CASE magic = Error
  BY <1>1, <1>4 DEF open, open_with, MachResult
<1>5. CASE magic # Error /\ items[0].kind = "header" /\ image.start = 0
  <2> DEFINE f == [m EXCEPT !.fat_index = 0, !.width = magic.width]
  <2>1. magic = items[0]
    BY <1>1, <1>5
  <2>2. open(path) = IF load_mach(f).ok THEN load_mach(f).object ELSE Error
    BY <1>5, <2>1 DEF open, open_with, load
  <2>3. Fresh(f, path) /\ f.load_base = image.start /\ f.width = image.width
    <3>1. items[0].width = image.width
      BY <1>5, ImageFacts
    <3>2. Fresh(m, path) /\ m.load_base = 0
      <4> HIDE DEF magic, items
      <4> QED BY <1>3, <2>1, FreshObject
    <3>3. image.width \in Nat
      BY ImageFacts
    <3> HIDE DEF m
    <3> QED BY <1>5, <2>1, <3>1, <3>2, <3>3 DEF Fresh, MachObject
  <2> HIDE DEF f
  <2> QED BY <2>2, <2>3, MachLoaded DEF MachResult
<1>6. CASE magic # Error /\ items[0].kind = "fat"
  <2> DEFINE N == items[0].nfat_arch
             arches == fat_arches(m, magic)
             chosen == SelectInSeq(arches, LAMBDA arch : arch # Error /\ arch.arch = HostArch)
  <2>1. magic = items[0]
    BY <1>1, <1>6
  <2>2. open(path) = load_wanted(m, arches, chosen)
    BY <1>6, <2>1 DEF open, open_with, load, load_fat_mach, load_best
  <2>3. /\ N \in Nat
        /\ \A i \in 1 .. N : /\ i \in DOMAIN items /\ items[i].kind = "fat_arch"
                             /\ items[i].width = 32 /\ items[i].big = items[0].big
    BY <1>2, <1>6 DEF BeginsAt
  <2>4. PICK i \in 1 .. N : /\ items[i].arch = HostArch /\ items[i].offset = image.start
                            /\ \A j \in 1 .. (i - 1) : items[j].arch # HostArch
    BY <1>2, <1>6 DEF BeginsAt
  <2>5. arches = [j \in 1 .. N |-> read_structure(path, j, "fat_arch", 32, items[0].big)]
    BY <2>1 DEF fat_arches
  <2>6. \A j \in 1 .. N : /\ arches[j] \in {Error, items[j]} /\ items[j] # Error
                          /\ path \notin missing => arches[j] = items[j]
    BY <2>3, <2>5, StructureRead
  <2> HIDE DEF arches, m
  <2>7. CASE Error \in Range(arches)
    <3>1. path \in missing
      BY <2>5, <2>6, <2>7 DEF Range
    <3>2. open(path) = Error
      BY <2>2, <2>7 DEF load_wanted
    <3> QED BY <3>1, <3>2 DEF MachResult
  <2>8. CASE Error \notin Range(arches)
    <3>1. \A j \in 1 .. N : arches[j] = items[j] /\ arches[j] # Error
      BY <2>5, <2>6, <2>8 DEF Range
    <3>2. chosen = i
      <4> DEFINE I == {j \in 1 .. Len(arches) : arches[j] # Error /\ arches[j].arch = HostArch}
      <4>1. chosen = IF I # {} THEN Min(I) ELSE 0
        BY DEF SelectInSeq
      <4>2. Len(arches) = N
        BY <2>3, <2>5
      <4>3. i \in I /\ \A j \in I : i <= j
        BY <2>3, <2>4, <3>1, <4>2
      <4>4. I \subseteq Nat
        BY <2>3, <4>2
      <4> HIDE DEF I, chosen
      <4>6. Min(I) = i
        BY <4>3, <4>4, IsMin
      <4> QED BY <4>1, <4>3, <4>6
    <3> HIDE DEF chosen
    <3> DEFINE at == item_at(path, image.start)
               f == [m EXCEPT !.load_base = image.start, !.fat_index = i - 1, !.width = at.width]
    <3>3. open(path) = load_slice(m, i - 1, image.start, at)
      <4>1. m.path = path
        BY DEF m
      <4>2. i # 0 /\ arches[i].offset = image.start
        BY <2>4, <3>1
      <4> QED BY <2>2, <2>8, <3>2, <4>1, <4>2 DEF load_wanted
    <3>4. /\ at \in {Error, items[image.start]} /\ (path \notin missing => at = items[image.start])
          /\ items[image.start] # Error /\ items[image.start].width = image.width
      BY ImageFacts, StructureRead
    <3>5. CASE at = Error
      BY <3>3, <3>4, <3>5 DEF load_slice, MachResult
    <3>6. CASE at # Error
      <4>1. open(path) = load_mach(f).object
        BY <3>3, <3>6 DEF load_slice
      <4>2. Fresh(f, path) /\ f.load_base = image.start /\ f.width = image.width
        <5>1. at.width = image.width /\ image.width \in Nat /\ image.start \in Nat /\ i - 1 \in Nat
          BY <2>3, <3>4, <3>6, ImageFacts
        <5>2. Fresh(m, path) /\ m.load_base = 0
          <6> HIDE DEF magic, items
          <6> QED BY <1>3, <2>1, FreshObject DEF m
        <5> HIDE DEF at
        <5> QED BY <5>1, <5>2 DEF Fresh, MachObject
      <4> HIDE DEF f
      <4> QED BY <4>1, <4>2, MachLoaded DEF MachResult
    <3> QED BY <3>5, <3>6
  <2> QED BY <2>7, <2>8
<1> QED BY <1>2, <1>4, <1>5, <1>6 DEF BeginsAt

-----------------------------------------------------------------------------
\* A command that is read again is the one it was, or cannot be read any more.
LEMMA CommandAgain ==
  ASSUME FilesOK, NEW path \in DOMAIN Files, NEW m, MachBase(m, path, missing), NEW k \in 1 .. Len(m.commands)
  PROVE  LET item == Files[path][Images[path].commands[k].offset]
             again == load_command(m, m.commands[k])
         IN /\ again \in {Error, item} /\ (path \notin missing => again = item) /\ item # Error
            /\ m.commands[k] = Images[path].commands[k] /\ k \in 1 .. Len(Images[path].commands)
<1> DEFINE image == Images[path]
<1>1. /\ m.commands[k] = image.commands[k] /\ k \in 1 .. Len(image.commands) /\ m.commands # <<>>
      /\ m.path = path /\ m.width = image.width /\ m.big = image.big
  <2>1. FirstOf(m.commands, path) /\ m.commands # <<>>
    BY DEF MachBase, FirstOf
  <2>2. Len(m.commands) \in Nat /\ Len(m.commands) <= Len(image.commands) /\ Len(image.commands) \in Nat
    BY <2>1, ImageFacts DEF FirstOf
  <2> QED BY <2>1, <2>2 DEF MachBase, FirstOf
<1>2. CommandAt(Files[path], image, k)
  BY <1>1, ImageFacts, MachOAssumption DEF Written
<1> DEFINE place == image.commands[k].offset
           item == Files[path][place]
<1>3. place \in DOMAIN Files[path] /\ item.kind = "command" /\ item.width = image.width /\ item.big = image.big
  BY <1>2 DEF CommandAt
<1>4. load_command(m, m.commands[k]) = read_structure(path, place, item.kind, item.width, item.big)
  BY <1>1, <1>3 DEF load_command
<1> HIDE DEF item, place
<1>5. /\ item # Error
      /\ load_command(m, m.commands[k]) \in {Error, item}
      /\ path \notin missing => load_command(m, m.commands[k]) = item
  BY <1>3, <1>4, StructureRead DEF item
<1> QED BY <1>1, <1>5 DEF item, place

\* The first command that passes a test, as SelectInSeq has it.
FirstIn(k, S) == IF S = {} THEN k = 0 ELSE k \in S /\ \A j \in S : k <= j
LEMMA IsFirstIn ==
  ASSUME NEW S \in SUBSET Nat
  PROVE  FirstIn(IF S # {} THEN Min(S) ELSE 0, S)
<1>1. CASE S = {}
  BY <1>1 DEF FirstIn
<1>2. CASE S # {}
  <2>1. PICK n \in S : \A k \in S : n <= k
    BY <1>2, LeastNumber
  <2>2. Min(S) = n
    BY <2>1, IsMin
  <2> QED BY <1>2, <2>1, <2>2 DEF FirstIn
<1> QED BY <1>1, <1>2

\* The address of the text is the one the program is linked for.
LEMMA TextIsBase ==
  ASSUME FilesOK, NEW m, MachBase(m, Binary, missing)
  PROVE  /\ get_text_vmaddr(m) \in {Base, Error}
         /\ Binary \notin missing => get_text_vmaddr(m) = Base
<1> DEFINE commands == Images[Binary].commands
           item(k) == Files[Binary][commands[k].offset]
           again(k) == load_command(m, m.commands[k])
           S == {k \in 1 .. Len(m.commands) :
                   m.commands[k].cmd = "segment" /\ (again(k) = Error \/ again(k).name = "__TEXT")}
           stop == SelectInSeq(m.commands, LAMBDA c : /\ c.cmd = "segment"
                                                      /\ \/ load_command(m, c) = Error
                                                         \/ load_command(m, c).name = "__TEXT")
<1>1. PICK t \in DOMAIN commands :
        /\ commands[t].cmd = "segment" /\ item(t).name = "__TEXT" /\ item(t).vmaddr = Base
        /\ \A j \in 1 .. (t - 1) : commands[j].cmd = "segment" => item(j).name # "__TEXT"
  BY TextAssumption
<1>2. Binary \in DOMAIN Files
  BY DebugMapAssumption
<1>3. \A k \in 1 .. Len(m.commands) :
        /\ again(k) \in {Error, item(k)} /\ (Binary \notin missing => again(k) = item(k)) /\ item(k) # Error
        /\ m.commands[k] = commands[k]
  BY <1>2, CommandAgain
<1>4. Len(m.commands) \in Nat /\ DOMAIN commands = 1 .. Len(commands) /\ Len(commands) \in Nat
  BY <1>2, ImageFacts DEF MachBase, FirstOf
<1>5. FirstIn(stop, S)
  <2>1. stop = IF S # {} THEN Min(S) ELSE 0
    BY DEF SelectInSeq
  <2>2. S \in SUBSET Nat
    BY <1>4
  <2> HIDE DEF S, stop
  <2> QED BY <2>1, <2>2, IsFirstIn
<1>6. get_text_vmaddr(m) = IF stop = 0 \/ again(stop) = Error THEN Error ELSE again(stop).vmaddr
  BY DEF get_text_vmaddr
<1> HIDE DEF stop, again, item, commands
<1>7. Binary \notin missing => S # {}
  <2> SUFFICES ASSUME Binary \notin missing PROVE t \in S
    OBVIOUS
  <2>1. m.commands = commands
    BY DEF MachBase, commands
  <2> QED BY <1>1, <1>3, <1>4, <2>1
<1>8. stop # 0 => stop \in S
  BY <1>5 DEF FirstIn
<1>9. stop # 0 /\ again(stop) # Error => again(stop).vmaddr = Base
  <2> SUFFICES ASSUME stop # 0, again(stop) # Error PROVE again(stop).vmaddr = Base
    OBVIOUS
  <2>1. stop \in 1 .. Len(m.commands) /\ commands[stop].cmd = "segment" /\ item(stop).name = "__TEXT"
    BY <1>3, <1>8
  <2>2. ~(stop < t)
    <3>1. stop < t => stop \in 1 .. (t - 1)
      BY <1>1, <1>4, <2>1
    <3> QED BY <1>1, <2>1, <3>1
  <2>3. ~(t < stop)
    <3>1. t < stop => t \in 1 .. Len(m.commands)
      BY <1>1, <1>4, <2>1
    <3>2. t < stop => t \in S
      BY <1>1, <1>3, <3>1
    <3> HIDE DEF S
    <3>3. t < stop => stop <= t
      BY <1>5, <3>2 DEF FirstIn
    <3> QED BY <1>1, <1>4, <2>1, <3>3
  <2>4. stop = t
    BY <1>1, <1>4, <2>1, <2>2, <2>3
  <2>5. again(stop) = item(stop)
    BY <1>3, <2>1
  <2>6. again(stop).vmaddr = item(stop).vmaddr
    BY <2>5
  <2> QED BY <1>1, <2>4, <2>6
<1>10. Binary \notin missing => stop # 0 /\ again(stop) # Error
  <2>1. S # {} => stop \in S
    BY <1>5 DEF FirstIn
  <2>2. stop \in S => stop # 0
    BY <1>4
  <2>3. stop \in S /\ Binary \notin missing => again(stop) # Error
    BY <1>3
  <2> HIDE DEF S
  <2> QED BY <1>7, <2>1, <2>2, <2>3
<1> HIDE DEF S
<1> QED BY <1>6, <1>9, <1>10

\* What is known of a file after its symbol table was looked for.
TriedFor(m, info) == [m EXCEPT !.tried_symtab = TRUE, !.symtab_info = info]
LEMMA SymtabTried ==
  ASSUME NEW path \in DOMAIN Files, NEW m, MachBase(m, path, missing), NEW info,
         \/ info = Images[path].info /\ m.commands # <<>>
         \/ info = m.symtab_info /\ path \in missing
  PROVE  LET marked == TriedFor(m, info)
         IN /\ MachBase(marked, path, missing) /\ marked.symtab_info = info
            /\ marked.symbols = m.symbols /\ marked.tried_symbols = m.tried_symbols
<1> DEFINE marked == TriedFor(m, info)
<1>1. m \in MachObject
  BY DEF MachBase
<1>2. info \in {Images[p].info : p \in DOMAIN Files} \cup {Nothing}
  BY <1>1 DEF MachBase
<1>3. /\ marked \in MachObject /\ marked.path = m.path /\ marked.commands = m.commands
      /\ marked.load_base = m.load_base /\ marked.width = m.width /\ marked.big = m.big
      /\ marked.symtab_info = info /\ marked.symbols = m.symbols
      /\ marked.tried_symbols = m.tried_symbols
  BY <1>1, <1>2 DEF MachObject, TriedFor
<1> HIDE DEF marked
<1>4. MachBase(marked, path, missing)
  BY <1>3 DEF MachBase
<1> QED BY <1>3, <1>4 DEF marked

\* The symbol table of a file is where it was written, if it can be found.
LEMMA SymtabIs ==
  ASSUME FilesOK, NEW path \in DOMAIN Files, NEW m, MachBase(m, path, missing)
  PROVE  LET r == get_symtab_info(m)
             info == Images[path].info
         IN /\ MachBase(r.object, path, missing)
            /\ r.object.symbols = m.symbols /\ r.object.tried_symbols = m.tried_symbols
            /\ r.result \in {Error, Nothing, info}
            /\ path \notin missing => r.result = info
            /\ r.result = info => r.object.symtab_info = info
<1> DEFINE image == Images[path]
           info == image.info
           r == get_symtab_info(m)
           found == SelectInSeq(m.commands, LAMBDA c : c.cmd = "symtab")
           S == {k \in 1 .. Len(m.commands) : m.commands[k].cmd = "symtab"}
           marked == [m EXCEPT !.tried_symtab = TRUE]
<1>1. info \notin {Nothing, Error} /\ Nothing # Error
  BY ErrorAssumption
<1>2. CASE m.symtab_info # Nothing \/ m.tried_symtab
  BY <1>1, <1>2 DEF get_symtab_info, MachBase
<1>3. CASE ~(m.symtab_info # Nothing \/ m.tried_symtab)
  <2>1. FirstIn(found, S)
    <3>1. found = IF S # {} THEN Min(S) ELSE 0
      BY DEF SelectInSeq
    <3>2. S \in SUBSET Nat
      BY DEF MachBase, FirstOf
    <3> HIDE DEF S, found
    <3> QED BY <3>1, <3>2, IsFirstIn
  <2>2. r = IF found = 0 THEN [object |-> marked, result |-> Nothing]
            ELSE load_symtab_info(marked, load_command(m, m.commands[found]))
    <3>1. r = IF m.symtab_info # Nothing \/ m.tried_symtab THEN [object |-> m, result |-> m.symtab_info]
              ELSE IF found = 0 THEN [object |-> marked, result |-> Nothing]
              ELSE load_symtab_info(marked, load_command(m, m.commands[found]))
      BY DEF get_symtab_info
    <3> HIDE DEF r, found, marked
    <3> QED BY <1>3, <3>1
  <2>3. /\ m.commands \in Seq(MachCommand) /\ Len(m.commands) \in Nat
        /\ image.commands \in Seq(MachCommand) /\ Len(image.commands) \in Nat
    BY ImageFacts DEF MachBase, FirstOf
  <2>4. PICK t \in DOMAIN image.commands : SymtabAt(Files[path], image, t)
    BY MachOAssumption DEF Written
  <2> HIDE DEF found
  <2>5. path \notin missing => found # 0
    <3> SUFFICES ASSUME path \notin missing PROVE t \in S
      BY <2>1, <2>3 DEF FirstIn
    <3>1. m.commands = image.commands
      BY DEF MachBase
    <3> QED BY <2>3, <2>4, <3>1, SMTT(30) DEF SymtabAt
  <2>6. m \in MachObject /\ m.symtab_info = Nothing
    BY <1>3 DEF MachBase
  <2>7. marked = TriedFor(m, m.symtab_info)
    BY <2>6 DEF MachObject, TriedFor
  <2>8. path \in missing => /\ MachBase(marked, path, missing) /\ marked.symbols = m.symbols
                            /\ marked.tried_symbols = m.tried_symbols
    <3> HIDE DEF marked
    <3> QED BY <2>6, <2>7, SymtabTried
  <2>9. CASE found = 0
    <3>1. r = [object |-> marked, result |-> Nothing] /\ path \in missing
      BY <2>2, <2>5, <2>9
    <3> HIDE DEF r, marked
    <3> QED BY <1>1, <2>8, <3>1 DEF r
  <2>10. CASE found # 0
    <3>1. found \in S /\ \A j \in S : found <= j
      BY <2>1, <2>10 DEF FirstIn
    <3>2. /\ found \in 1 .. Len(m.commands) /\ m.commands[found] = image.commands[found]
          /\ found \in 1 .. Len(image.commands) /\ image.commands[found].cmd = "symtab"
      BY <3>1, CommandAgain
    <3> DEFINE place == image.commands[found].offset
               item == Files[path][place]
               symtab == load_command(m, m.commands[found])
               strings == image.start + item.stroff
               seen == read_structure(path, strings, "strings", 8, FALSE)
    <3>3. t = found
      <4>1. ~(found < t)
        <5>1. found < t => found \in 1 .. (t - 1)
          BY <2>3, <3>2
        <5> QED BY <2>4, <3>2, <5>1 DEF SymtabAt
      <4>2. ~(t < found)
        <5>1. t < found => t \in 1 .. Len(m.commands)
          BY <2>3, <3>2
        <5>2. t < found => m.commands[t] = image.commands[t]
          BY <5>1, CommandAgain
        <5>3. t < found => t \in S
          BY <2>4, <5>1, <5>2 DEF SymtabAt
        <5> QED BY <2>3, <3>1, <3>2, <5>3
      <4> QED BY <2>3, <3>2, <4>1, <4>2
    <3>4. /\ strings \in DOMAIN Files[path] /\ Files[path][strings].kind = "strings"
          /\ Files[path][strings].width = 8 /\ Files[path][strings].big = FALSE
          /\ info = [symoff |-> item.symoff, nsyms |-> item.nsyms, names |-> Files[path][strings].names]
      BY <2>4, <3>3 DEF SymtabAt
    <3>6. symtab \in {Error, item} /\ (path \notin missing => symtab = item) /\ item # Error
      BY <3>2, CommandAgain
    <3>7. /\ seen \in {Error, Files[path][strings]} /\ Files[path][strings] # Error
          /\ path \notin missing => seen = Files[path][strings]
      <4> HIDE DEF strings
      <4>1. seen = read_structure(path, strings, Files[path][strings].kind, Files[path][strings].width,
                                  Files[path][strings].big)
        BY <3>4
      <4> HIDE DEF seen
      <4> QED BY <3>4, <4>1, StructureRead
    <3>8. marked.path = path /\ marked.load_base = image.start /\ m.commands # <<>>
      <4>1. m.commands # <<>>
        BY <3>2
      <4>2. marked.path = m.path /\ marked.load_base = m.load_base
        BY <2>6 DEF MachObject
      <4> HIDE DEF marked
      <4> QED BY <4>1, <4>2 DEF MachBase
    <3>9. r = load_symtab_info(marked, symtab)
      BY <2>2, <2>10
    <3> HIDE DEF r, marked, symtab, seen, strings, item
    <3>10. CASE symtab = Error
      <4>1. r = [object |-> marked, result |-> Error] /\ path \in missing
        BY <3>6, <3>9, <3>10 DEF load_symtab_info
      <4> QED BY <1>1, <2>8, <4>1 DEF r
    <3>11. CASE symtab # Error
      <4>1. symtab = item
        BY <3>6, <3>11
      <4>2. r = new_symtab_info(marked, symtab, seen)
        BY <3>8, <3>9, <3>11, <4>1 DEF load_symtab_info, seen, strings
      <4>3. CASE seen = Error
        <5>1. r = [object |-> marked, result |-> Error] /\ path \in missing
          BY <3>7, <4>2, <4>3 DEF new_symtab_info
        <5> QED BY <1>1, <2>8, <5>1 DEF r
      <4>4. CASE seen # Error
        <5>1. [symoff |-> symtab.symoff, nsyms |-> symtab.nsyms, names |-> seen.names] = info
          BY <3>4, <3>7, <4>1, <4>4
        <5>2. r = [object |-> [marked EXCEPT !.symtab_info = info], result |-> info]
          BY <3>11, <4>2, <4>4, <5>1 DEF new_symtab_info
        <5>3. [marked EXCEPT !.symtab_info = info] = TriedFor(m, info)
          BY <2>6 DEF marked, MachObject, TriedFor
        <5> DEFINE machine == TriedFor(m, info)
        <5>4. /\ MachBase(machine, path, missing) /\ machine.symtab_info = info
              /\ machine.symbols = m.symbols /\ machine.tried_symbols = m.tried_symbols
          BY <3>8, SymtabTried
        <5>5. r.object = machine /\ r.result = info
          BY <5>2, <5>3
        <5> HIDE DEF machine
        <5> QED BY <5>4, <5>5 DEF r
      <4> QED BY <4>3, <4>4
    <3> QED BY <3>10, <3>11
  <2> QED BY <2>9, <2>10
<1> QED BY <1>2, <1>3

-----------------------------------------------------------------------------
\* The entries of a symbol table are read as they were written, those of the
\* wanted types with their names, or are errors.
AsWritten(seen, path, named) ==
  LET entries == Images[path].entries
  IN /\ DOMAIN seen = 1 .. Len(entries) /\ DOMAIN entries = 1 .. Len(entries)
     /\ \A j \in 1 .. Len(entries) :
          seen[j] # Error =>
            /\ seen[j].type = entries[j].type
            /\ entries[j].type \in named =>
                 seen[j].name = entries[j].name /\ seen[j].value = entries[j].value
     /\ path \notin missing => \A j \in 1 .. Len(entries) : seen[j] # Error

LEMMA EntriesRead ==
  ASSUME FilesOK, NEW path \in DOMAIN Files, NEW m, MachBase(m, path, missing),
         m.symtab_info = Images[path].info, NEW named \in SUBSET NamedTypes
  PROVE  AsWritten(named_entries(m, Images[path].info, named), path, named)
<1> DEFINE image == Images[path]
           info == image.info
           entries == image.entries
           seen == named_entries(m, info, named)
<1>1. /\ m.path = path /\ m.load_base = image.start /\ m.width = image.width /\ m.big = image.big
  BY ErrorAssumption DEF MachBase
<1>2. /\ entries \in Seq(MachEntry) /\ info.nsyms = Len(entries) /\ Len(entries) \in Nat
      /\ DOMAIN entries = 1 .. Len(entries)
  BY MachOAssumption DEF Written
<1>3. seen = [j \in 1 .. Len(entries) |-> name_entry(load_symtab_entry(m, info, j - 1), info, named)]
  BY <1>2 DEF named_entries
<1> HIDE DEF seen
<1>4. ASSUME NEW j \in 1 .. Len(entries)
      PROVE  /\ seen[j] # Error =>
                   /\ seen[j].type = entries[j].type
                   /\ entries[j].type \in named =>
                        seen[j].name = entries[j].name /\ seen[j].value = entries[j].value
             /\ path \notin missing => seen[j] # Error
  <2> DEFINE place == image.start + image.info.symoff + (j - 1)
             item == Files[path][place]
             entry == load_symtab_entry(m, info, j - 1)
             names == info.names
  <2>1. /\ place \in DOMAIN Files[path] /\ item.kind = "nlist"
        /\ item.width = image.width /\ item.big = image.big
        /\ item.type = entries[j].type
        /\ item.type \in NamedTypes =>
             /\ item.value = entries[j].value
             /\ item.strx \in DOMAIN names /\ names[item.strx] = entries[j].name
    <3>1. EntryAt(Files[path], image, j)
      BY <1>2, MachOAssumption DEF Written
    <3> QED BY <3>1 DEF EntryAt
  <2>2. entries[j] \in MachEntry
    BY <1>2
  <2>3. entry = read_structure(path, place, item.kind, item.width, item.big)
    BY <1>1, <2>1 DEF load_symtab_entry
  <2>4. seen[j] = name_entry(entry, info, named)
    BY <1>3
  <2> HIDE DEF entry, place, item, names
  <2>5. item # Error /\ entry \in {Error, item} /\ (path \notin missing => entry = item)
    BY <2>1, <2>3, StructureRead DEF item
  <2>6. CASE entry = Error
    BY <2>4, <2>5, <2>6 DEF name_entry
  <2>7. CASE entry = item /\ item.type \notin named
    BY <2>1, <2>4, <2>5, <2>7 DEF name_entry
  <2>8. CASE entry = item /\ item.type \in named
    <3>1. get_string(info, item.strx) = entries[j].name
      BY <2>1, <2>8 DEF get_string, names
    <3>2. entries[j].name # Error
      BY <2>2, ErrorAssumption DEF MachEntry
    <3> DEFINE result == [type |-> item.type, value |-> item.value, name |-> entries[j].name]
    <3>3. seen[j] = result
      BY <2>4, <2>5, <2>8, <3>1, <3>2 DEF name_entry
    <3>4. item.value = entries[j].value /\ item.type = entries[j].type
      BY <2>1, <2>8
    <3>5. result \in MachEntry
      BY <2>2, <3>4 DEF MachEntry
    <3>6. seen[j] # Error
      BY <3>3, <3>5, ErrorAssumption
    <3>7. /\ seen[j].type = item.type /\ seen[j].value = item.value /\ seen[j].name = entries[j].name
      BY <3>3
    <3> QED BY <3>4, <3>6, <3>7
  <2> QED BY <2>5, <2>6, <2>7, <2>8
<1>5. DOMAIN seen = 1 .. Len(entries)
  BY <1>3
<1> HIDE DEF entries
<1>6. \A j \in 1 .. Len(entries) :
        /\ seen[j] # Error =>
              /\ seen[j].type = entries[j].type
              /\ entries[j].type \in named =>
                   seen[j].name = entries[j].name /\ seen[j].value = entries[j].value
        /\ path \notin missing => seen[j] # Error
  BY <1>4
<1> QED BY <1>2, <1>5, <1>6 DEF entries, seen, AsWritten

\* The symbols of a file, if it can be read.
LEMMA SectionsRead ==
  ASSUME FilesOK, NEW path \in DOMAIN Files, NEW m, MachBase(m, path, missing),
         m.symtab_info = Images[path].info
  PROVE  LET table == section_symbols(named_entries(m, Images[path].info, {"N_SECT"}))
         IN table \in {Error, TableOf(path)} /\ (path \notin missing => table = TableOf(path))
<1> DEFINE entries == Images[path].entries
           named == {"N_SECT"}
           seen == named_entries(m, Images[path].info, named)
           table == section_symbols(seen)
<1> SUFFICES table \in {Error, TableOf(path)} /\ (path \notin missing => table = TableOf(path))
  OBVIOUS
<1>1. /\ DOMAIN seen = 1 .. Len(entries) /\ DOMAIN entries = 1 .. Len(entries)
      /\ \A j \in 1 .. Len(entries) :
           seen[j] # Error =>
             /\ seen[j].type = entries[j].type
             /\ entries[j].type = "N_SECT" =>
                  seen[j].name = entries[j].name /\ seen[j].value = entries[j].value
      /\ path \notin missing => \A j \in 1 .. Len(entries) : seen[j] # Error
  <2>1. named \in SUBSET NamedTypes /\ "N_SECT" \in named
    BY DEF NamedTypes
  <2> HIDE DEF named
  <2>2. AsWritten(seen, path, named)
    BY <2>1, EntriesRead
  <2> HIDE DEF seen
  <2> QED BY <2>1, <2>2 DEF AsWritten
<1> HIDE DEF seen, entries
<1>2. CASE Error \in Range(seen)
  BY <1>1, <1>2 DEF Range, section_symbols
<1>3. CASE Error \notin Range(seen)
  <2> DEFINE T == {e \in Range(seen) : e.type = "N_SECT"}
             U == {e \in Range(entries) : e.type = "N_SECT"}
  <2>1. table = {[name |-> e.name, address |-> e.value] : e \in T}
    BY <1>3 DEF section_symbols
  <2>2. TableOf(path) = {[name |-> e.name, address |-> e.value] : e \in U}
    BY DEF TableOf, entries
  <2>3. \A j \in 1 .. Len(entries) :
          /\ seen[j].type = entries[j].type
          /\ entries[j].type = "N_SECT" =>
               seen[j].name = entries[j].name /\ seen[j].value = entries[j].value
    BY <1>1, <1>3 DEF Range
  <2>4. ASSUME NEW e \in T PROVE \E d \in U : d.name = e.name /\ d.value = e.value
    BY <1>1, <2>3 DEF Range
  <2>5. ASSUME NEW d \in U PROVE \E e \in T : d.name = e.name /\ d.value = e.value
    BY <1>1, <2>3 DEF Range
  <2> HIDE DEF T, U
  <2>6. table \subseteq TableOf(path)
    <3> SUFFICES ASSUME NEW e \in T PROVE [name |-> e.name, address |-> e.value] \in TableOf(path)
      BY <2>1
    <3>1. PICK d \in U : d.name = e.name /\ d.value = e.value
      BY <2>4
    <3> QED BY <2>2, <3>1
  <2>7. TableOf(path) \subseteq table
    <3> SUFFICES ASSUME NEW d \in U PROVE [name |-> d.name, address |-> d.value] \in table
      BY <2>2
    <3>1. PICK e \in T : d.name = e.name /\ d.value = e.value
      BY <2>5
    <3> QED BY <2>1, <3>1
  <2> QED BY <2>6, <2>7
<1> QED BY <1>2, <1>3

LEMMA GreatestNumber ==
  ASSUME NEW n \in Nat, NEW S \in SUBSET (1 .. n), S # {}
  PROVE  \E k \in S : \A j \in S : j <= k
<1> DEFINE R == {n - j : j \in S}
<1>1. R \subseteq Nat /\ R # {}
  <2>1. \A j \in S : j \in 1 .. n
    OBVIOUS
  <2>2. \A j \in 1 .. n : n - j \in Nat
    OBVIOUS
  <2> QED BY <2>1, <2>2
<1>2. PICK r \in R : \A i \in R : r <= i
  BY <1>1, LeastNumber
<1>3. PICK k \in S : r = n - k
  BY <1>2
<1>4. \A j \in S : n - j \in R
  OBVIOUS
<1>5. \A j \in S : n - k <= n - j
  BY <1>2, <1>3, <1>4
<1>6. \A j \in S : j <= k
  BY <1>5
<1> QED BY <1>6

LEMMA PlaceBefore ==
  ASSUME NEW n \in Nat, NEW j \in 1 .. n, j > 1
  PROVE  j - 1 \in 1 .. n /\ j - 1 \in 1 .. j /\ 1 .. j \subseteq 1 .. n
OBVIOUS

\* The debug map of the program is what the linker listed, if it can be read.
LEMMA DebugMapRead ==
  ASSUME FilesOK, NEW m, MachBase(m, Binary, missing), m.symtab_info = Images[Binary].info
  PROVE  LET map == debug_map(named_entries(m, Images[Binary].info, {"N_OSO", "N_FUN"}))
         IN map \in {Error, LinkersMap} /\ (Binary \notin missing => map = LinkersMap)
<1> DEFINE entries == Images[Binary].entries
           named == {"N_OSO", "N_FUN"}
           seen == named_entries(m, Images[Binary].info, named)
           map == debug_map(seen)
           N == Len(entries)
<1> SUFFICES map \in {Error, LinkersMap} /\ (Binary \notin missing => map = LinkersMap)
  OBVIOUS
<1>1. /\ DOMAIN seen = 1 .. N /\ DOMAIN entries = 1 .. N
      /\ \A j \in 1 .. N :
           seen[j] # Error =>
             /\ seen[j].type = entries[j].type
             /\ entries[j].type \in {"N_OSO", "N_FUN"} =>
                  seen[j].name = entries[j].name /\ seen[j].value = entries[j].value
      /\ Binary \notin missing => \A j \in 1 .. N : seen[j] # Error
  <2>1. named \in SUBSET NamedTypes
    BY DEF NamedTypes
  <2>2. Binary \in DOMAIN Files
    BY DebugMapAssumption
  <2> HIDE DEF named
  <2>3. AsWritten(seen, Binary, named)
    BY <2>1, <2>2, EntriesRead
  <2> HIDE DEF seen
  <2> QED BY <2>3 DEF AsWritten, named
<1>2. N \in Nat
  BY ImageFacts, DebugMapAssumption
<1> HIDE DEF seen, entries, N
<1>3. CASE Error \in Range(seen)
  BY <1>1, <1>3 DEF Range, debug_map
<1>4. CASE Error \notin Range(seen)
  <2> DEFINE opens(o) == entries[o].type = "N_OSO"
             starts(i) == entries[i].type = "N_FUN" /\ entries[i].name # ""
             ends(i) == entries[i].type = "N_FUN" /\ entries[i].name = ""
             listed == {p \in (1 .. N) \X (1 .. N) :
                          /\ p[1] < p[2] /\ opens(p[1]) /\ starts(p[2])
                          /\ \A o \in p[1] + 1 .. p[2] : ~opens(o)}
             of(p) == [object |-> entries[p[1]].name, name |-> entries[p[2]].name,
                       address |-> entries[p[2]].value, size |-> entries[p[2] + 1].value]
             item(j) == [object |-> current_module(seen, j), name |-> current_function(seen, j).name,
                         address |-> current_function(seen, j).value, size |-> seen[j].value]
  <2>1. /\ \A i \in 1 .. N : starts(i) => i + 1 \in 1 .. N /\ ends(i + 1)
        /\ \A j \in 1 .. N : ends(j) => j > 1 /\ starts(j - 1) /\ \E o \in 1 .. j : opens(o)
    BY <1>1, LinkerAssumption DEF entries
  <2>0. LinkersMap = {of(p) : p \in listed}
    BY <1>1, LinkerAssumption DEF entries
  <2>2. \A j \in 1 .. N :
          /\ seen[j].type = entries[j].type
          /\ entries[j].type \in {"N_OSO", "N_FUN"} =>
               seen[j].name = entries[j].name /\ seen[j].value = entries[j].value
    BY <1>1, <1>4 DEF Range
  <2>3. map = {item(j) : j \in Closings(seen)}
    BY <1>4 DEF debug_map
  <2>4. \A j \in Closings(seen) : j \in 1 .. N /\ ends(j)
    BY <1>1, <2>2 DEF Closings
  <2>5. \A j \in 1 .. N : ends(j) => j \in Closings(seen)
    BY <1>1, <2>2 DEF Closings
  \* An entry that ends a function ends the one before, of the object opened last.
  <2>6. ASSUME NEW j \in 1 .. N, ends(j), NEW o \in 1 .. j, opens(o),
               \A k \in o + 1 .. j : ~opens(k)
        PROVE  <<o, j - 1>> \in listed /\ item(j) = of(<<o, j - 1>>)
    <3>0. j > 1 /\ starts(j - 1)
      BY <2>1, <2>6
    <3>1. j - 1 \in 1 .. N /\ starts(j - 1) /\ o \in 1 .. N /\ 1 .. j \subseteq 1 .. N
      <4>1. j - 1 \in 1 .. N /\ 1 .. j \subseteq 1 .. N
        BY <1>2, <3>0, PlaceBefore
      <4> QED BY <3>0, <4>1
    <3>2. o # j /\ o # j - 1
      BY <2>6, <3>1
    <3>3. o < j - 1 /\ o + 1 .. j - 1 \subseteq o + 1 .. j
      <4> o \in Nat /\ j \in Nat /\ o <= j
        BY <1>2
      <4> QED BY <3>2
    <3>4. <<o, j - 1>> \in listed
      BY <2>6, <3>1, <3>3
    <3>5. Max(ModulesIn(seen, j)) = o
      <4>1. ModulesIn(seen, j) = {i \in 1 .. j : opens(i)}
        BY <2>2, <3>1 DEF ModulesIn
      <4>2. \A i \in 1 .. j : opens(i) => i <= o
        <5>1. \A i \in 1 .. j : i <= o \/ i \in o + 1 .. j
          BY <1>2
        <5> QED BY <2>6, <5>1
      <4> HIDE DEF opens
      <4>3. ModulesIn(seen, j) \in SUBSET Nat
        BY <4>1
      <4>4. o \in ModulesIn(seen, j)
        BY <2>6, <4>1
      <4>5. \A i \in ModulesIn(seen, j) : i <= o
        BY <4>1, <4>2
      <4> QED BY <4>3, <4>4, <4>5, IsMax
    <3>6. Max(FunctionsIn(seen, j)) = j - 1
      <4>1. FunctionsIn(seen, j) = {i \in 1 .. j : starts(i)}
        BY <2>2, <3>1 DEF FunctionsIn
      <4>2. \A i \in 1 .. j : starts(i) => i <= j - 1
        <5>1. \A i \in 1 .. j : i <= j - 1 \/ i = j
          BY <1>2
        <5> QED BY <2>6, <5>1
      <4>3. j - 1 \in 1 .. j
        BY <1>2, <3>0, PlaceBefore
      <4> HIDE DEF starts
      <4>4. FunctionsIn(seen, j) \in SUBSET Nat
        BY <4>1
      <4>5. j - 1 \in FunctionsIn(seen, j)
        BY <3>1, <4>1, <4>3
      <4>6. \A i \in FunctionsIn(seen, j) : i <= j - 1
        BY <4>1, <4>2
      <4> QED BY <4>4, <4>5, <4>6, IsMax
    <3>7. ModulesIn(seen, j) # {}
      <4>1. o \in ModulesIn(seen, j)
        BY <2>2, <2>6, <3>1 DEF ModulesIn
      <4> QED BY <4>1
    <3>8. current_module(seen, j) = entries[o].name
      BY <2>2, <2>6, <3>1, <3>5, <3>7 DEF current_module
    <3>9. current_function(seen, j) = seen[j - 1]
      BY <3>6 DEF current_function
    <3>10. /\ seen[j - 1].name = entries[j - 1].name /\ seen[j - 1].value = entries[j - 1].value
           /\ seen[j].value = entries[j].value
      BY <2>2, <2>6, <3>1
    <3>11. (j - 1) + 1 = j
      BY <1>2
    <3> HIDE DEF listed
    <3> QED BY <3>4, <3>8, <3>9, <3>10, <3>11
  <2>7. ASSUME NEW j \in 1 .. N, ends(j) PROVE item(j) \in LinkersMap
    <3> DEFINE O == {o \in 1 .. j : opens(o)}
    <3>1. O # {} /\ O \in SUBSET (1 .. j) /\ j \in Nat
      <4>1. \E o \in 1 .. j : opens(o)
        BY <2>1, <2>7
      <4>2. j \in Nat
        BY <1>2
      <4> HIDE DEF opens
      <4> QED BY <4>1, <4>2
    <3>2. PICK o \in O : \A k \in O : k <= o
      BY <3>1, GreatestNumber
    <3>3. \A k \in o + 1 .. j : ~opens(k)
      BY <1>2, <3>2
    <3>4. <<o, j - 1>> \in listed /\ item(j) = of(<<o, j - 1>>)
      BY <2>6, <2>7, <3>2, <3>3
    <3> HIDE DEF item, of, listed
    <3> QED BY <2>0, <3>4
  <2>8. ASSUME NEW p \in listed PROVE p[2] + 1 \in 1 .. N /\ ends(p[2] + 1) /\ of(p) = item(p[2] + 1)
    <3>1. PICK o \in 1 .. N, i \in 1 .. N :
            p = <<o, i>> /\ o < i /\ opens(o) /\ starts(i) /\ \A k \in o + 1 .. i : ~opens(k)
      <4> HIDE DEF opens, starts
      <4>1. /\ p \in (1 .. N) \X (1 .. N) /\ p[1] < p[2] /\ opens(p[1]) /\ starts(p[2])
            /\ \A k \in p[1] + 1 .. p[2] : ~opens(k)
        OBVIOUS
      <4> HIDE DEF listed
      <4>2. PICK o \in 1 .. N, i \in 1 .. N : p = <<o, i>>
        BY <4>1
      <4>3. p[1] = o /\ p[2] = i
        BY <4>2
      <4> QED BY <4>1, <4>2, <4>3
    <3> HIDE DEF item, of, listed
    <3>2. i + 1 \in 1 .. N /\ ends(i + 1)
      BY <2>1, <3>1
    <3>3. ~opens(i + 1)
      BY <3>2
    <3> HIDE DEF opens, starts, ends
    <3>4. i \in Nat /\ o \in Nat /\ o >= 1 /\ o < i
      BY <1>2, <3>1
    <3>5. /\ o \in 1 .. i + 1 /\ (i + 1) - 1 = i
          /\ \A k \in o + 1 .. i + 1 : k = i + 1 \/ k \in o + 1 .. i
      BY <3>4
    <3>6. \A k \in o + 1 .. i + 1 : ~opens(k)
      BY <3>1, <3>3, <3>5
    <3>7. item(i + 1) = of(<<o, (i + 1) - 1>>)
      BY <2>6, <3>1, <3>2, <3>5, <3>6
    <3>8. p[2] = i
      BY <3>1
    <3> QED BY <3>1, <3>2, <3>5, <3>7, <3>8
  <2> HIDE DEF item, of, listed
  <2>9. map \subseteq LinkersMap
    BY <2>3, <2>4, <2>7
  <2>10. LinkersMap \subseteq map
    BY <2>0, <2>3, <2>5, <2>8
  <2> QED BY <2>9, <2>10
<1> QED BY <1>3, <1>4

\* The debug map of an object, whatever was read of it before.
LEMMA ProgramMap ==
  ASSUME FilesOK, NEW m, MachResult(m, Binary, missing)
  PROVE  LET r == debug_map_of(m)
         IN /\ MachResult(r.object, Binary, missing) /\ r.result \in {Error, LinkersMap}
            /\ Binary \notin missing => r.result = LinkersMap
<1> DEFINE r == debug_map_of(m)
           s == get_symtab_info(m)
           info == Images[Binary].info
<1> SUFFICES /\ MachResult(r.object, Binary, missing) /\ r.result \in {Error, LinkersMap}
             /\ Binary \notin missing => r.result = LinkersMap
  OBVIOUS
<1>1. CASE m = Error
  <2>1. r = [object |-> Error, result |-> Error] /\ Binary \in missing
    BY <1>1, ErrorAssumption DEF debug_map_of, NotOpened, MachResult, MachOK, MachBase
  <2> QED BY <2>1 DEF MachResult
<1>2. CASE m # Error
  <2> Binary \in DOMAIN Files
    BY DebugMapAssumption
  <2>1. MachOK(m, Binary, missing) /\ MachBase(m, Binary, missing)
    BY <1>2 DEF MachResult, MachOK
  <2>2. /\ MachBase(s.object, Binary, missing)
        /\ s.object.symbols = m.symbols /\ s.object.tried_symbols = m.tried_symbols
        /\ s.result \in {Error, Nothing, info}
        /\ Binary \notin missing => s.result = info
        /\ s.result = info => s.object.symtab_info = info
    BY <2>1, SymtabIs
  <2>3. r = get_debug_map_with(s)
    BY <1>2 DEF debug_map_of, get_debug_map
  <2>4. info \notin {Nothing, Error}
    BY ErrorAssumption
  <2> HIDE DEF s, r, info
  <2>5. r.object = s.object /\ MachResult(s.object, Binary, missing)
    BY <2>1, <2>2, <2>3 DEF get_debug_map_with, MachResult, MachOK
  <2>6. CASE s.result \in {Error, Nothing}
    BY <2>2, <2>3, <2>4, <2>5, <2>6 DEF get_debug_map_with
  <2>7. CASE s.result = info
    <3> DEFINE map == debug_map(named_entries(s.object, info, {"N_OSO", "N_FUN"}))
    <3>1. r.result = map
      BY <2>3, <2>4, <2>7 DEF get_debug_map_with
    <3>2. map \in {Error, LinkersMap} /\ (Binary \notin missing => map = LinkersMap)
      <4>1. s.object.symtab_info = Images[Binary].info
        BY <2>2, <2>7 DEF info
      <4> QED BY <2>2, <4>1, DebugMapRead DEF info
    <3> HIDE DEF map
    <3> QED BY <2>5, <3>1, <3>2
  <2> QED BY <2>2, <2>6, <2>7
<1> QED BY <1>1, <1>2

\* The symbol table of an object, whatever was read of it before.
LEMMA TableRead ==
  ASSUME FilesOK, NEW path \in DOMAIN Files, NEW m, MachOK(m, path, missing)
  PROVE  LET r == symbol_table(m)
         IN /\ MachOK(r.object, path, missing) /\ r.result \in {Error, TableOf(path)}
            /\ path \notin missing => r.result = TableOf(path)
<1> DEFINE r == symbol_table(m)
           marked == [m EXCEPT !.tried_symbols = TRUE]
           s == get_symtab_info(marked)
           info == Images[path].info
           table == TableOf(path)
<1> SUFFICES /\ MachOK(r.object, path, missing) /\ r.result \in {Error, table}
             /\ path \notin missing => r.result = table
  OBVIOUS
<1>1. m \in MachObject /\ MachBase(m, path, missing)
  BY DEF MachOK, MachBase
<1>2. table \notin {Nothing, Error} /\ info \notin {Nothing, Error}
  BY ErrorAssumption
<1>3. CASE m.symbols # Nothing
  BY <1>1, <1>3 DEF symbol_table, MachBase
<1>4. CASE m.symbols = Nothing /\ m.tried_symbols
  BY <1>1, <1>2, <1>4 DEF symbol_table, MachOK
<1>5. CASE m.symbols = Nothing /\ ~m.tried_symbols
  <2>1. r = load_symbols(s)
    BY <1>5 DEF symbol_table
  <2>2. MachBase(marked, path, missing) /\ marked.symbols = Nothing
    <3>1. /\ marked \in MachObject /\ marked.path = m.path /\ marked.commands = m.commands
          /\ marked.load_base = m.load_base /\ marked.width = m.width /\ marked.big = m.big
          /\ marked.symtab_info = m.symtab_info /\ marked.tried_symtab = m.tried_symtab
          /\ marked.symbols = m.symbols
      BY <1>1 DEF MachObject
    <3> HIDE DEF marked
    <3> QED BY <1>1, <1>5, <3>1 DEF MachBase
  <2> HIDE DEF marked
  <2>3. /\ MachBase(s.object, path, missing) /\ s.object.symbols = Nothing
        /\ s.result \in {Error, Nothing, info}
        /\ path \notin missing => s.result = info
        /\ s.result = info => s.object.symtab_info = info
    BY <2>2, SymtabIs
  <2> HIDE DEF s, r
  <2>4. CASE s.result \in {Error, Nothing}
    <3>1. r = [object |-> s.object, result |-> Error] /\ path \in missing
      BY <1>2, <2>1, <2>3, <2>4 DEF load_symbols
    <3> HIDE DEF table
    <3> QED BY <2>3, <3>1 DEF MachOK
  <2>5. CASE s.result = info
    <3> DEFINE seen == section_symbols(named_entries(s.object, info, {"N_SECT"}))
    <3>1. r = with_symbols(s.object, seen)
      BY <1>2, <2>1, <2>5 DEF load_symbols
    <3>2. seen \in {Error, table} /\ (path \notin missing => seen = table)
      <4>1. s.object.symtab_info = Images[path].info
        BY <2>3, <2>5
      <4> QED BY <2>3, <4>1, SectionsRead
    <3> HIDE DEF seen, table
    <3>3. CASE seen = Error
      <4>1. r = [object |-> s.object, result |-> Error] /\ path \in missing
        BY <1>2, <3>1, <3>2, <3>3 DEF with_symbols
      <4> QED BY <2>3, <4>1 DEF MachOK
    <3>4. CASE seen = table
      <4> DEFINE machine == [s.object EXCEPT !.symbols = table]
      <4>1. r = [object |-> machine, result |-> table]
        BY <1>2, <3>1, <3>4 DEF with_symbols
      <4>2. MachOK(machine, path, missing)
        <5> DEFINE o == s.object
        <5>1. o \in MachObject /\ table \in {TableOf(p) : p \in DOMAIN Files} \cup {Nothing}
          BY <2>3 DEF MachBase, table
        <5>2. /\ machine \in MachObject /\ machine.path = o.path /\ machine.commands = o.commands
              /\ machine.load_base = o.load_base /\ machine.width = o.width /\ machine.big = o.big
              /\ machine.symtab_info = o.symtab_info /\ machine.tried_symtab = o.tried_symtab
              /\ machine.symbols = table
          BY <5>1 DEF MachObject
        <5> HIDE DEF machine
        <5> QED BY <2>3, <5>2 DEF MachOK, MachBase, table
      <4> HIDE DEF machine
      <4> QED BY <4>1, <4>2
    <3> QED BY <3>2, <3>3, <3>4
  <2> QED BY <2>3, <2>4, <2>5
<1> QED BY <1>3, <1>4, <1>5

-----------------------------------------------------------------------------
\* What is known of one object: its resolver is made when there is none, and it
\* is not forgotten that it was.
TargetOK(t) ==
  /\ t = [symbols |-> t.symbols, resolver |-> t.resolver, made |-> t.made]
  /\ t.made \in {0, 1}
  /\ t.resolver = "none" => t.made = 0

\* The resolver there is knows its objects, and one is made only for an object
\* that has none.
ResolverOK ==
  /\ resolver # NoResolver =>
       /\ resolver = [symbols |-> resolver.symbols, targets |-> resolver.targets]
       /\ resolver.targets = [o \in Objects |-> resolver.targets[o]]
       /\ \A o \in Objects : TargetOK(resolver.targets[o])
  /\ (kept \/ phase \notin {"idle", "opened"}) => resolver # NoResolver
  /\ (phase = "make" /\ symbol.object \in Objects) => target.resolver = "none"

LEMMA ResolverInit == DebugMapInit => ResolverOK
BY DEF DebugMapInit, ResolverOK

\* The resolver is left alone in a frame.
LEMMA ResolverLeft ==
  ASSUME ResolverOK, resolver' = resolver, kept' = kept,
         \/ phase' = phase /\ symbol' = symbol
         \/ phase' \notin {"idle", "opened", "make"} /\ phase \notin {"idle", "opened"}
  PROVE  ResolverOK'
BY DEF ResolverOK, target

\* Of one object something else is known.
LEMMA TargetChanged ==
  ASSUME ResolverOK, phase \notin {"idle", "opened"}, NEW t, TargetOK(t),
         resolver' = [resolver EXCEPT !.targets[symbol.object] = t],
         kept' = kept, phase' \notin {"idle", "opened", "make"}
  PROVE  ResolverOK'
<1>1. /\ resolver # NoResolver
      /\ resolver = [symbols |-> resolver.symbols, targets |-> resolver.targets]
      /\ resolver.targets = [o \in Objects |-> resolver.targets[o]]
      /\ \A o \in Objects : TargetOK(resolver.targets[o])
  BY DEF ResolverOK
<1> DEFINE targets == [resolver.targets EXCEPT ![symbol.object] = t]
<1>2. resolver' = [symbols |-> resolver.symbols, targets |-> targets]
  BY <1>1
<1>3. targets = [o \in Objects |-> targets[o]] /\ \A o \in Objects : TargetOK(targets[o])
  <2>1. DOMAIN resolver.targets = Objects
    BY <1>1
  <2> QED BY <1>1, <2>1
<1> HIDE DEF targets
<1>4. resolver' # NoResolver /\ resolver'.symbols = resolver.symbols /\ resolver'.targets = targets
  <2>1. resolver'.symbols = resolver.symbols /\ resolver'.targets = targets
    BY <1>2
  <2>2. "kind" \notin DOMAIN resolver' /\ "kind" \in DOMAIN NoResolver
    BY <1>2 DEF NoResolver
  <2> QED BY <2>1, <2>2
<1> QED BY <1>2, <1>3, <1>4 DEF ResolverOK

LEMMA ResolverStays ==
  ASSUME ResolverOK, [DebugMapNext]_debug_map_vars
  PROVE  ResolverOK'
<1>1. ASSUME complete \/ set_cache_mode \/ get_module_image_base \/ UNCHANGED debug_map_vars PROVE ResolverOK'
  BY <1>1, ResolverLeft DEF complete, set_cache_mode, get_module_image_base, work, debug_map_vars
<1>2. ASSUME open_object PROVE ResolverOK'
  BY <1>2 DEF open_object, ResolverOK
<1>3. ASSUME get_resolver PROVE ResolverOK'
  <2>1. phase' = "ready"
    BY <1>3 DEF get_resolver
  <2>2. CASE kept
    BY <1>3, <2>1, <2>2 DEF get_resolver, ResolverOK
  <2>3. CASE ~kept
    <3>1. PICK s : resolver' = [symbols |-> s, targets |-> [o \in Objects |-> new_target]]
      BY <1>3, <2>3 DEF get_resolver
    <3>2. TargetOK(new_target)
      BY DEF TargetOK, new_target
    <3>3. resolver' # NoResolver /\ resolver'.symbols = s /\ resolver'.targets = [o \in Objects |-> new_target]
      BY <3>1 DEF NoResolver
    <3> QED BY <2>1, <3>1, <3>2, <3>3 DEF ResolverOK
  <2> QED BY <2>2, <2>3
<1>4. ASSUME NEW a \in Pcs, resolve_frame(a) PROVE ResolverOK'
  BY <1>4, ResolverLeft DEF resolve_frame
<1>5. ASSUME get_symbols PROVE ResolverOK'
  <2>1. phase = "symbols" /\ phase' = "translate" /\ kept' = kept
    BY <1>5 DEF get_symbols
  <2>2. CASE UNCHANGED resolver
    BY <2>1, <2>2, ResolverLeft
  <2>3. CASE resolver' # resolver
    <3>1. PICK s : resolver' = [resolver EXCEPT !.targets[symbol.object].symbols = s]
      BY <1>5, <2>3 DEF get_symbols
    <3> DEFINE t == [target EXCEPT !.symbols = s]
    <3>2. resolver' = [resolver EXCEPT !.targets[symbol.object] = t]
      BY <3>1 DEF target
    <3>3. CASE symbol.object \in Objects
      <4>1. TargetOK(target)
        BY <2>1, <3>3 DEF ResolverOK, target
      <4>2. TargetOK(t)
        BY <4>1 DEF TargetOK
      <4> HIDE DEF t
      <4> QED BY <2>1, <3>2, <4>2, TargetChanged
    <3>4. CASE symbol.object \notin Objects
      <4>1. /\ resolver = [symbols |-> resolver.symbols, targets |-> resolver.targets]
            /\ resolver.targets = [o \in Objects |-> resolver.targets[o]]
        BY <2>1 DEF ResolverOK
      <4>2. [resolver.targets EXCEPT ![symbol.object] = t] = resolver.targets
        BY <3>4, <4>1
      <4> HIDE DEF t
      <4>3. resolver' = resolver
        BY <3>2, <4>1, <4>2
      <4> QED BY <2>3, <4>3
    <3> QED BY <3>3, <3>4
  <2> QED BY <2>2, <2>3
<1>6. ASSUME translate PROVE ResolverOK'
  <2>1. /\ phase = "translate" /\ resolver' = resolver /\ kept' = kept /\ symbol' = symbol
        /\ phase' \in {"make", "ask", "resolved"}
        /\ phase' = "make" => target.resolver = "none"
    BY <1>6 DEF translate
  <2>2. resolver'.targets[symbol'.object].resolver = target.resolver /\ symbol'.object = symbol.object
    BY <2>1 DEF target
  <2> QED BY <2>1, <2>2 DEF ResolverOK, target
<1>7. ASSUME make_dwarf_resolver PROVE ResolverOK'
  <2>1. phase = "make" /\ kept' = kept /\ phase' \in {"ask", "threw"}
    BY <1>7 DEF make_dwarf_resolver
  <2>2. PICK r \in {"dwarf", "not_ok", "null"} :
          resolver' = [resolver EXCEPT !.targets[symbol.object] = made(r)]
    BY <1>7 DEF make_dwarf_resolver
  <2>3. CASE symbol.object \in Objects
    <3>1. TargetOK(target) /\ target.resolver = "none"
      BY <2>1, <2>3 DEF ResolverOK, target
    <3>2. made(r) = [symbols |-> target.symbols, resolver |-> r, made |-> 1]
      <4>1. target.made = 0
        BY <3>1 DEF TargetOK
      <4> QED BY <4>1 DEF made
    <3>3. TargetOK(made(r))
      BY <3>2 DEF TargetOK
    <3> QED BY <2>1, <2>2, <3>3, TargetChanged
  <2>4. CASE symbol.object \notin Objects
    <3>1. /\ resolver = [symbols |-> resolver.symbols, targets |-> resolver.targets]
          /\ resolver.targets = [o \in Objects |-> resolver.targets[o]]
      BY <2>1 DEF ResolverOK
    <3>2. resolver' = resolver
      BY <2>2, <2>4, <3>1
    <3> QED BY <2>1, <3>2, ResolverLeft
  <2> QED BY <2>3, <2>4
<1>8. ASSUME ask PROVE ResolverOK'
  BY <1>8, ResolverLeft DEF ask
<1>9. ASSUME catch PROVE ResolverOK'
  BY <1>9, ResolverLeft DEF catch
<1>10. ASSUME fall_back PROVE ResolverOK'
  BY <1>10, ResolverLeft DEF fall_back
<1>11. ASSUME next_frame PROVE ResolverOK'
  BY <1>11, ResolverLeft DEF next_frame
<1>12. ASSUME end_trace PROVE ResolverOK'
  BY <1>12 DEF end_trace, ResolverOK
<1> QED BY <1>1, <1>2, <1>3, <1>4, <1>5, <1>6, <1>7, <1>8, <1>9, <1>10, <1>11, <1>12 DEF DebugMapNext

\* However often the debug information of an object cannot be opened, in whatever
\* state the files are, there is no second attempt while the resolver is there.
THEOREM ObjectsAreTriedOnce == DebugMapSpec => []TriedOnce
<1>1. ResolverOK /\ [DebugMapNext]_debug_map_vars => ResolverOK'
  BY ResolverStays
<1>2. ResolverOK => TriedOnce
  <2> SUFFICES ASSUME ResolverOK, resolver # NoResolver, NEW o \in Objects
               PROVE  resolver.targets[o].made <= 1
    BY DEF TriedOnce
  <2>1. resolver.targets[o].made \in {0, 1}
    BY DEF ResolverOK, TargetOK
  <2> QED BY <2>1
<1> QED BY <1>1, <1>2, ResolverInit, PTL DEF DebugMapSpec

-----------------------------------------------------------------------------
\* Whatever was opened of a file, by whom and when, is the image in it for this
\* machine; only a file that was missing may have failed.
CacheOK ==
  /\ \A path \in DOMAIN cache : path \in DOMAIN Files /\ MachResult(cache[path], path, missing)
  /\ object = Nothing \/ MachResult(object, Binary, missing)
  /\ phase # "idle" => object # Nothing \/ Binary \in DOMAIN cache
BasesOK ==
  /\ \A path \in DOMAIN bases : path = Binary /\ bases[path] = Base
  /\ ImageBaseIsOwn
MachinesInv == FilesOK /\ CacheOK /\ BasesOK

\* The symbols a target has are those of its object.
SymbolsKnown(o, symbols, lost) ==
  symbols = by_name(TableOf(o)) \/ (symbols = <<>> /\ o \in lost)
TargetsKnown ==
  resolver # NoResolver =>
    \A o \in Objects : LET symbols == resolver.targets[o].symbols
                       IN symbols = Nothing \/ SymbolsKnown(o, symbols, missing)
SymbolsInv == DebugMapIsLinkers /\ TargetsKnown

\* The function a frame is in, or right behind, and where that is in its object.
Inside(f, addr) ==
  /\ f \in Functions /\ addr - f.address \in 0 .. f.size
  /\ addr - f.address = f.size => FunctionsAt(addr) = {}
PlaceOf(f, addr) == [object |-> f.object, address |-> f.at + (addr - f.address)]

\* What a frame got, without a name perhaps, and what it is at last.
FrameKnown(result, place, addr, lost) ==
  /\ result = [name |-> result.name, address |-> addr]
  /\ FunctionsAt(addr) # {} => result.name \in {f.name : f \in FunctionsAt(addr)} \cup {""}
  /\ FunctionsAt(addr) # {} /\ place = Nothing =>
       \E f \in FunctionsAt(addr) : {Binary, f.object} \cap lost # {}
  /\ place # Nothing => \E f \in Functions : Inside(f, addr) /\ place = PlaceOf(f, addr)
FrameNamed(result, addr, lost) ==
  FunctionsAt(addr) # {} /\ result.name \notin {f.name : f \in FunctionsAt(addr)} => Binary \in lost

FrameInv ==
  /\ frame_pc \in Nat
  /\ phase \in {"opened", "ready", "symbols", "translate"} => asked = Nothing
  /\ phase \in {"symbols", "translate"} => \E f \in Functions : Inside(f, frame_pc) /\ symbol = entry_of(f)
  /\ phase = "translate" => SymbolsKnown(symbol.object, target.symbols, missing)
  /\ phase \in {"make", "ask", "threw"} =>
       \E f \in Functions : Inside(f, frame_pc) /\ asked = PlaceOf(f, frame_pc)
  /\ phase \in {"resolved", "done"} => FrameKnown(frame, asked, frame_pc, missing)
  /\ phase = "done" => FrameNamed(frame, frame_pc, missing)
DebugMapInv == MachinesInv /\ ResolverOK /\ SymbolsInv /\ FrameInv

-----------------------------------------------------------------------------
\* What is opened, and the cache with it.
LEMMA OpenedOK ==
  ASSUME FilesOK, CacheOK, NEW path \in DOMAIN Files
  PROVE  MachResult(opened(path), path, missing)
BY FileOpens DEF opened, CacheOK

LEMMA CacheWith ==
  ASSUME CacheOK, NEW path \in DOMAIN Files, NEW m, MachResult(m, path, missing),
         NEW c, c = cache \/ c = put(cache, path, m)
  PROVE  /\ DOMAIN cache \subseteq DOMAIN c
         /\ \A p \in DOMAIN c : p \in DOMAIN Files /\ MachResult(c[p], p, missing)
         /\ c = put(cache, path, m) => path \in DOMAIN c
<1>1. CASE c = cache
  <2>1. c = put(cache, path, m) => path \in DOMAIN c
    BY DEF put
  <2> QED BY <1>1, <2>1 DEF CacheOK
<1>2. CASE c = put(cache, path, m)
  <2>1. /\ DOMAIN c = DOMAIN cache \cup {path}
        /\ \A k \in DOMAIN c : c[k] = IF k = path THEN m ELSE cache[k]
    BY <1>2 DEF put
  <2> QED BY <2>1 DEF CacheOK
<1> QED BY <1>1, <1>2

LEMMA StoredWith ==
  ASSUME CacheOK, NEW path \in DOMAIN Files, NEW m, MachResult(m, path, missing)
  PROVE  /\ DOMAIN cache \subseteq DOMAIN stored(path, m)
         /\ \A p \in DOMAIN stored(path, m) :
              p \in DOMAIN Files /\ MachResult(stored(path, m)[p], p, missing)
         /\ mode # "memory" => path \in DOMAIN stored(path, m)
<1>1. stored(path, m) = cache \/ stored(path, m) = put(cache, path, m)
  BY DEF stored
<1>2. mode # "memory" => stored(path, m) = put(cache, path, m)
  BY DEF stored
<1> QED BY <1>1, <1>2, CacheWith

LEMMA MachineIsNone == \A m : MachResult(m, Binary, missing) => m # Nothing
BY ErrorAssumption DEF MachResult, MachOK, MachBase

LEMMA DebugMapBegins == DebugMapInit => DebugMapInv
<1> SUFFICES ASSUME DebugMapInit PROVE DebugMapInv
  OBVIOUS
<1>1. PICK cut \in Incomplete :
        /\ readable = [path \in DOMAIN Files |-> IF path \in DOMAIN cut THEN cut[path] ELSE WholeFile]
        /\ missing = DOMAIN cut
  BY DEF DebugMapInit
<1>2. FilesOK
  <2>1. \A path \in DOMAIN cut : cut[path] \in Nat
    BY DebugMapAssumption
  <2> QED BY <1>1, <2>1 DEF FilesOK, WholeFile
<1>3. CacheOK /\ BasesOK
  BY DEF DebugMapInit, CacheOK, BasesOK, ImageBaseIsOwn
<1>4. SymbolsInv
  BY DEF DebugMapInit, SymbolsInv, DebugMapIsLinkers, TargetsKnown
<1>5. FrameInv
  BY DEF DebugMapInit, FrameInv
<1> QED BY <1>2, <1>3, <1>4, <1>5, ResolverInit DEF DebugMapInv, MachinesInv

\* What was opened stays what it is, in every step.
LEMMA MachinesLeft ==
  ASSUME MachinesInv, missing' = missing, FilesOK', machines' = machines,
         phase = "idle" => phase' = "idle"
  PROVE  MachinesInv'
BY DEF MachinesInv, CacheOK, BasesOK, ImageBaseIsOwn, machines

LEMMA FilesStay ==
  ASSUME FilesOK, [DebugMapNext]_debug_map_vars
  PROVE  FilesOK' /\ missing' = missing
<1>1. ASSUME complete PROVE FilesOK' /\ missing' = missing
  <2>1. PICK path \in missing : readable' = [readable EXCEPT ![path] = WholeFile] /\ missing' = missing
    BY <1>1 DEF complete
  <2>2. WholeFile \in Nat
    BY DEF WholeFile
  <2>3. readable \in [DOMAIN Files -> Nat] /\ \A p \in DOMAIN Files \ missing : readable[p] = WholeFile
    BY DEF FilesOK
  <2>4. readable' \in [DOMAIN Files -> Nat] /\ \A p \in DOMAIN Files \ missing : readable'[p] = WholeFile
    BY <2>1, <2>2, <2>3
  <2> QED BY <2>1, <2>4 DEF FilesOK
<1>2. ASSUME readable' = readable, missing' = missing PROVE FilesOK' /\ missing' = missing
  BY <1>2 DEF FilesOK
<1>3. complete \/ (readable' = readable /\ missing' = missing)
  BY DEF DebugMapNext, debug_map_vars, set_cache_mode, get_module_image_base, open_object, get_resolver,
         resolve_frame, get_symbols, translate, make_dwarf_resolver, ask, catch, fall_back, next_frame,
         end_trace
<1> QED BY <1>1, <1>2, <1>3

LEMMA MachinesStay ==
  ASSUME MachinesInv, ResolverOK, SymbolsInv, FrameInv, [DebugMapNext]_debug_map_vars
  PROVE  MachinesInv'
<1>0. FilesOK' /\ missing' = missing /\ FilesOK /\ CacheOK /\ BasesOK /\ Binary \in DOMAIN Files
  BY FilesStay, DebugMapAssumption DEF MachinesInv
<1>1. ASSUME get_module_image_base PROVE MachinesInv'
  <2>1. object' = object /\ phase' = phase
    BY <1>1 DEF get_module_image_base, work
  <2>2. CASE Binary \in DOMAIN bases
    BY <1>0, <1>1, <2>1, <2>2
       DEF get_module_image_base, MachinesInv, CacheOK, BasesOK, ImageBaseIsOwn
  <2>3. CASE Binary \notin DOMAIN bases
    <3> DEFINE m == opened(Binary)
    <3>1. /\ cache' = stored(Binary, m)
          /\ base' = IF m = Error THEN Error ELSE get_text_vmaddr(m)
          /\ bases' = IF base' = Error THEN bases ELSE put(bases, Binary, base')
      BY <1>1, <2>3 DEF get_module_image_base
    <3>2. MachResult(m, Binary, missing)
      BY <1>0, OpenedOK
    <3> HIDE DEF m
    <3>3. CacheOK'
      <4>1. /\ \A p \in DOMAIN cache' : p \in DOMAIN Files /\ MachResult(cache'[p], p, missing)
            /\ DOMAIN cache \subseteq DOMAIN cache'
        BY <1>0, <3>1, <3>2, StoredWith
      <4> QED BY <1>0, <2>1, <4>1 DEF CacheOK
    <3>4. base' = Base \/ (base' = Error /\ Binary \in missing)
      <4>1. CASE m = Error
        BY <3>1, <3>2, <4>1, ErrorAssumption DEF MachResult, MachOK, MachBase
      <4>2. CASE m # Error
        <5>1. MachBase(m, Binary, missing)
          BY <3>2, <4>2 DEF MachResult, MachOK
        <5> QED BY <1>0, <3>1, <4>2, <5>1, TextIsBase
      <4> QED BY <4>1, <4>2
    <3>5. BasesOK'
      <4>1. ImageBaseIsOwn'
        BY <1>0, <3>4 DEF ImageBaseIsOwn
      <4>2. \A p \in DOMAIN bases' : p = Binary /\ bases'[p] = Base
        <5>1. CASE base' = Error
          BY <1>0, <3>1, <5>1 DEF BasesOK
        <5>2. CASE base' # Error
          <6>1. bases' = put(bases, Binary, base') /\ base' = Base
            BY <3>1, <3>4, <5>2
          <6> QED BY <1>0, <6>1 DEF BasesOK, put
        <5> QED BY <5>1, <5>2
      <4> QED BY <4>1, <4>2 DEF BasesOK
    <3> QED BY <1>0, <3>3, <3>5 DEF MachinesInv
  <2> QED BY <2>2, <2>3
<1>2. ASSUME open_object PROVE MachinesInv'
  <2> DEFINE m == opened(Binary)
  <2>1. /\ object' = (IF mode = "memory" THEN m ELSE Nothing)
        /\ cache' = stored(Binary, m) /\ base' = Nothing /\ bases' = bases
    BY <1>2 DEF open_object
  <2>2. MachResult(m, Binary, missing)
    BY <1>0, OpenedOK
  <2>3. m # Nothing
    BY <2>2, MachineIsNone
  <2> HIDE DEF m
  <2>4. CacheOK'
    <3>1. /\ \A p \in DOMAIN cache' : p \in DOMAIN Files /\ MachResult(cache'[p], p, missing)
          /\ mode # "memory" => Binary \in DOMAIN cache'
      BY <1>0, <2>1, <2>2, StoredWith
    <3> QED BY <1>0, <2>1, <2>2, <2>3, <3>1 DEF CacheOK
  <2>5. BasesOK'
    BY <1>0, <2>1 DEF BasesOK, ImageBaseIsOwn
  <2> QED BY <1>0, <2>4, <2>5 DEF MachinesInv
\* What else changes the cache puts into it what belongs there.
<1>3. ASSUME NEW path \in DOMAIN Files, NEW m, MachResult(m, path, missing), cache' = stored(path, m),
             UNCHANGED <<object, bases, base>>, phase # "idle"
      PROVE  MachinesInv'
  <2>1. /\ \A p \in DOMAIN cache' : p \in DOMAIN Files /\ MachResult(cache'[p], p, missing)
        /\ DOMAIN cache \subseteq DOMAIN cache'
    BY <1>0, <1>3, StoredWith
  <2>2. CacheOK'
    BY <1>0, <1>3, <2>1 DEF CacheOK
  <2>3. BasesOK'
    BY <1>0, <1>3 DEF BasesOK, ImageBaseIsOwn
  <2> QED BY <1>0, <2>2, <2>3 DEF MachinesInv
<1>4. ASSUME get_resolver PROVE MachinesInv'
  <2>1. CASE kept
    BY <1>0, <1>4, <2>1, MachinesLeft DEF get_resolver, machines
  <2>2. CASE ~kept
    <3> DEFINE r == debug_map_of(opened(Binary))
    <3>1. MachResult(r.object, Binary, missing)
      BY <1>0, OpenedOK, ProgramMap
    <3>2. cache' = stored(Binary, r.object) /\ UNCHANGED <<object, bases, base>> /\ phase = "opened"
      BY <1>4, <2>2 DEF get_resolver
    <3> HIDE DEF r
    <3> QED BY <1>0, <1>3, <3>1, <3>2
  <2> QED BY <2>1, <2>2
<1>5. ASSUME get_symbols PROVE MachinesInv'
  <2>1. CASE target.symbols # Nothing
    BY <1>0, <1>5, <2>1, MachinesLeft DEF get_symbols, machines
  <2>2. CASE target.symbols = Nothing
    <3> DEFINE o == symbol.object
               r == symbol_table_of(opened(o))
    <3>1. o \in DOMAIN Files
      <4>1. PICK f \in Functions : symbol = entry_of(f)
        BY <1>5 DEF get_symbols, FrameInv
      <4>2. symbol.object = f.object
        BY <4>1 DEF entry_of
      <4> QED BY <4>2, DebugMapAssumption DEF Objects
    <3>2. MachResult(r.object, o, missing)
      <4>1. MachResult(opened(o), o, missing)
        BY <1>0, <3>1, OpenedOK
      <4> DEFINE m == opened(o)
      <4> HIDE DEF o, m
      <4>2. CASE m = Error
        <5>1. r = NotOpened
          BY <4>2 DEF symbol_table_of, m
        <5> QED BY <4>1, <4>2, <5>1 DEF NotOpened, m
      <4>3. CASE m # Error
        <5>1. MachOK(m, o, missing)
          BY <4>1, <4>3 DEF MachResult, m
        <5>2. r = symbol_table(m)
          BY <4>3 DEF symbol_table_of, m
        <5> HIDE DEF r
        <5> QED BY <1>0, <3>1, <5>1, <5>2, TableRead DEF MachResult
      <4> QED BY <4>2, <4>3
    <3>3. cache' = stored(o, r.object) /\ UNCHANGED <<object, bases, base>> /\ phase = "symbols"
      BY <1>5, <2>2 DEF get_symbols
    <3> HIDE DEF r, o
    <3> QED BY <1>3, <3>1, <3>2, <3>3
  <2> QED BY <2>1, <2>2
<1>6. ASSUME fall_back PROVE MachinesInv'
  <2>1. CASE frame.name # "" \/ the_object = Error
    BY <1>0, <1>6, <2>1, MachinesLeft DEF fall_back, machines
  <2>2. CASE frame.name = "" /\ the_object # Error
    <3> DEFINE r == lookup_symbol(the_object, frame_pc)
               t == symbol_table(the_object)
    <3>1. MachOK(the_object, Binary, missing)
      <4>1. phase = "resolved"
        BY <1>6 DEF fall_back
      <4> QED BY <1>0, <2>2, <4>1 DEF the_object, CacheOK, MachResult
    <3>2. MachResult(r.object, Binary, missing)
      <4>1. r.object = t.object
        BY DEF lookup_symbol, lookup_in
      <4>2. MachOK(t.object, Binary, missing)
        BY <1>0, <3>1, TableRead
      <4> QED BY <4>1, <4>2 DEF MachResult
    <3>3. /\ IF object = Nothing
             THEN cache' = put(cache, Binary, r.object) /\ UNCHANGED object
             ELSE object' = r.object /\ UNCHANGED cache
          /\ bases' = bases /\ base' = base /\ phase = "resolved"
      BY <1>6, <2>2 DEF fall_back
    <3> HIDE DEF r
    <3>4. CacheOK'
      <4>1. CASE object = Nothing
        <5>1. /\ \A p \in DOMAIN cache' : p \in DOMAIN Files /\ MachResult(cache'[p], p, missing)
              /\ DOMAIN cache \subseteq DOMAIN cache'
          BY <1>0, <3>2, <3>3, <4>1, CacheWith
        <5> QED BY <1>0, <3>3, <4>1, <5>1 DEF CacheOK
      <4>2. CASE object # Nothing
        <5>1. r.object # Nothing
          BY <3>2, MachineIsNone
        <5> QED BY <1>0, <3>2, <3>3, <4>2, <5>1 DEF CacheOK
      <4> QED BY <4>1, <4>2
    <3>5. BasesOK'
      BY <1>0, <3>3 DEF BasesOK, ImageBaseIsOwn
    <3> QED BY <1>0, <3>4, <3>5 DEF MachinesInv
  <2> QED BY <2>1, <2>2
<1>7. ASSUME end_trace PROVE MachinesInv'
  <2>1. UNCHANGED <<cache, bases, base>> /\ object' = Nothing /\ phase' = "idle"
    BY <1>7 DEF end_trace
  <2> QED BY <1>0, <2>1 DEF MachinesInv, CacheOK, BasesOK, ImageBaseIsOwn
<1>8. ASSUME machines' = machines, phase = "idle" => phase' = "idle" PROVE MachinesInv'
  BY <1>0, <1>8, MachinesLeft
<1>9. \/ get_module_image_base \/ open_object \/ get_resolver \/ get_symbols \/ fall_back \/ end_trace
      \/ machines' = machines /\ (phase = "idle" => phase' = "idle")
  BY DEF DebugMapNext, debug_map_vars, work, complete, set_cache_mode, resolve_frame, translate,
         make_dwarf_resolver, ask, catch, next_frame
<1> QED BY <1>1, <1>2, <1>4, <1>5, <1>6, <1>7, <1>8, <1>9

-----------------------------------------------------------------------------
LEMMA SymbolsLeft ==
  ASSUME SymbolsInv, missing' = missing, resolver' = resolver
  PROVE  SymbolsInv'
BY DEF SymbolsInv, DebugMapIsLinkers, TargetsKnown

\* One target is given symbols, or keeps those it has.
LEMMA SymbolsSet ==
  ASSUME SymbolsInv, ResolverOK, missing' = missing, phase \notin {"idle", "opened"}, NEW t,
         symbol.object \in Objects =>
           t.symbols = Nothing \/ SymbolsKnown(symbol.object, t.symbols, missing),
         resolver' = [resolver EXCEPT !.targets[symbol.object] = t]
  PROVE  SymbolsInv' /\ (symbol.object \in Objects => resolver'.targets[symbol.object] = t)
<1> DEFINE o == symbol.object
           targets == [resolver.targets EXCEPT ![o] = t]
<1>1. /\ resolver # NoResolver
      /\ resolver = [symbols |-> resolver.symbols, targets |-> resolver.targets]
      /\ resolver.targets = [p \in Objects |-> resolver.targets[p]]
  BY DEF ResolverOK
<1>2. resolver' = [symbols |-> resolver.symbols, targets |-> targets]
  BY <1>1
<1>3. \A p \in Objects : targets[p] = IF p = o THEN t ELSE resolver.targets[p]
  BY <1>1
<1>4. resolver'.symbols = resolver.symbols /\ resolver'.targets = targets
  BY <1>2
<1> HIDE DEF targets
<1>5. DebugMapIsLinkers'
  BY <1>1, <1>4 DEF SymbolsInv, DebugMapIsLinkers
<1>6. TargetsKnown'
  <2> SUFFICES ASSUME NEW p \in Objects
               PROVE  \/ resolver'.targets[p].symbols = Nothing
                      \/ SymbolsKnown(p, resolver'.targets[p].symbols, missing')
    BY DEF TargetsKnown
  <2>1. CASE p = o
    BY <1>3, <1>4, <2>1
  <2>2. CASE p # o
    BY <1>1, <1>3, <1>4, <2>2 DEF SymbolsInv, TargetsKnown
  <2> QED BY <2>1, <2>2
<1> QED BY <1>3, <1>4, <1>5, <1>6 DEF SymbolsInv

\* target_object::get_symbols, for a symbol of the program.
LEMMA TargetSymbols ==
  ASSUME MachinesInv, ResolverOK, SymbolsInv, FrameInv, missing' = missing, get_symbols
  PROVE  SymbolsInv' /\ SymbolsKnown(symbol.object, resolver'.targets[symbol.object].symbols, missing)
<1> DEFINE o == symbol.object
<1>1. o \in Objects /\ o \in DOMAIN Files
  <2>1. PICK f \in Functions : symbol = entry_of(f)
    BY DEF get_symbols, FrameInv
  <2>2. symbol.object = f.object
    BY <2>1 DEF entry_of
  <2> QED BY <2>2, DebugMapAssumption DEF Objects
<1>2. phase = "symbols" /\ resolver # NoResolver
  BY DEF get_symbols, ResolverOK
<1>3. target = resolver.targets[o] /\ (target.symbols = Nothing \/ SymbolsKnown(o, target.symbols, missing))
  BY <1>1, <1>2 DEF target, SymbolsInv, TargetsKnown
<1>4. CASE target.symbols # Nothing
  <2>1. resolver' = resolver
    BY <1>4 DEF get_symbols
  <2> QED BY <1>3, <1>4, <2>1, SymbolsLeft
<1>5. CASE target.symbols = Nothing
  <2> DEFINE m == opened(o)
             r == symbol_table_of(m)
             symbols == IF r.result = Error THEN <<>> ELSE by_name(r.result)
             t == [target EXCEPT !.symbols = symbols]
  <2>1. resolver' = [resolver EXCEPT !.targets[o].symbols = symbols]
    BY <1>5 DEF get_symbols
  <2>2. MachResult(m, o, missing)
    BY <1>1, OpenedOK DEF MachinesInv
  <2> HIDE DEF m, o
  <2>3. r.result = TableOf(o) \/ (r.result = Error /\ o \in missing)
    <3>1. CASE m = Error
      <4>1. o \in missing
        BY <1>1, <2>2, <3>1, ErrorAssumption DEF MachResult, MachOK, MachBase
      <4>2. r = NotOpened
        BY <3>1 DEF symbol_table_of
      <4> QED BY <4>1, <4>2 DEF NotOpened
    <3>2. CASE m # Error
      <4>1. MachOK(m, o, missing)
        BY <2>2, <3>2 DEF MachResult
      <4>2. r = symbol_table(m)
        BY <3>2 DEF symbol_table_of
      <4> HIDE DEF r
      <4> QED BY <1>1, <4>1, <4>2, TableRead DEF MachinesInv
    <3> QED BY <3>1, <3>2
  <2>4. TableOf(o) # Error
    BY <1>1, ErrorAssumption
  <2> HIDE DEF r
  <2>5. SymbolsKnown(o, symbols, missing)
    BY <2>3, <2>4 DEF SymbolsKnown
  <2> HIDE DEF symbols
  <2>6. resolver' = [resolver EXCEPT !.targets[o] = t]
    BY <1>3, <2>1
  <2>7. t.symbols = symbols
    <3>1. TargetOK(target)
      BY <1>1, <1>2, <1>3 DEF ResolverOK
    <3> QED BY <3>1 DEF TargetOK
  <2> HIDE DEF t
  <2> QED BY <1>1, <1>2, <2>5, <2>6, <2>7, SymbolsSet DEF o
<1> QED BY <1>4, <1>5

LEMMA SymbolsStay ==
  ASSUME MachinesInv, ResolverOK, SymbolsInv, FrameInv, [DebugMapNext]_debug_map_vars
  PROVE  SymbolsInv'
<1>0. FilesOK /\ CacheOK /\ missing' = missing
  BY FilesStay DEF MachinesInv
<1>1. ASSUME get_resolver PROVE SymbolsInv'
  <2>1. CASE kept
    BY <1>0, <1>1, <2>1, SymbolsLeft DEF get_resolver
  <2>2. CASE ~kept
    <3> DEFINE r == debug_map_of(opened(Binary))
               symbols == IF r.result = Error THEN {} ELSE r.result
    <3>1. r.result \in {Error, LinkersMap} /\ (Binary \notin missing => r.result = LinkersMap)
      BY <1>0, OpenedOK, ProgramMap, DebugMapAssumption
    <3>2. resolver' = [symbols |-> symbols, targets |-> [o \in Objects |-> new_target]]
      BY <1>1, <2>2 DEF get_resolver
    <3> HIDE DEF r
    <3>3. symbols = LinkersMap \/ (symbols = {} /\ Binary \in missing)
      BY <3>1, LinkerAssumption
    <3> HIDE DEF symbols
    <3>4. resolver'.symbols = symbols /\ \A o \in Objects : resolver'.targets[o].symbols = Nothing
      BY <3>2 DEF new_target
    <3> QED BY <1>0, <3>3, <3>4 DEF SymbolsInv, DebugMapIsLinkers, TargetsKnown
  <2> QED BY <2>1, <2>2
<1>2. ASSUME get_symbols PROVE SymbolsInv'
  BY <1>0, <1>2, TargetSymbols
<1>3. ASSUME make_dwarf_resolver PROVE SymbolsInv'
  <2>1. PICK r \in {"dwarf", "not_ok", "null"} :
          resolver' = [resolver EXCEPT !.targets[symbol.object] = made(r)]
    BY <1>3 DEF make_dwarf_resolver
  <2>2. phase = "make" /\ resolver # NoResolver
    BY <1>3 DEF make_dwarf_resolver, ResolverOK
  <2>3. made(r).symbols = target.symbols
    BY DEF made
  <2>4. symbol.object \in Objects =>
          target.symbols = Nothing \/ SymbolsKnown(symbol.object, target.symbols, missing)
    BY <2>2 DEF SymbolsInv, TargetsKnown, target
  <2> QED BY <1>0, <2>1, <2>2, <2>3, <2>4, SymbolsSet
<1>4. ASSUME end_trace PROVE SymbolsInv'
  <2>1. resolver' = resolver \/ resolver' = NoResolver
    BY <1>4 DEF end_trace
  <2>2. CASE resolver' = NoResolver
    BY <2>2 DEF SymbolsInv, DebugMapIsLinkers, TargetsKnown
  <2> QED BY <1>0, <2>1, <2>2, SymbolsLeft
<1>5. \/ get_resolver \/ get_symbols \/ make_dwarf_resolver \/ end_trace
      \/ resolver' = resolver
  BY DEF DebugMapNext, debug_map_vars, complete, set_cache_mode, get_module_image_base, open_object,
         resolve_frame, translate, ask, catch, fall_back, next_frame
<1> QED BY <1>0, <1>1, <1>2, <1>3, <1>4, <1>5, SymbolsLeft

-----------------------------------------------------------------------------
LEMMA FunctionFacts ==
  ASSUME NEW f \in Functions
  PROVE  /\ f.address \in Nat /\ f.size \in Nat /\ f.at \in Nat /\ f.object \in Objects
         /\ entry_of(f).address = f.address /\ entry_of(f).size = f.size
         /\ entry_of(f).name = f.name /\ entry_of(f).object = f.object
<1>1. f \in [name : STRING, object : Objects, address : Nat, size : Nat, at : Nat]
  BY DebugMapAssumption
<1> QED BY <1>1 DEF entry_of

LEMMA FunctionsApart ==
  ASSUME NEW f \in Functions, NEW g \in Functions
  PROVE  /\ f.address = g.address => f.size = g.size
         /\ f.address < g.address => f.address + f.size <= g.address
         /\ f.object = g.object => /\ f.at = g.at => f.address = g.address
                                   /\ f.at < g.at => f.at + f.size <= g.at
BY FunctionsAssumption

\* If an entry is at an address or below, there is one that is closest.
LEMMA SomeClosest ==
  ASSUME NEW symbols, \A s \in symbols : s.address \in Nat, NEW addr \in Nat,
         NEW s \in symbols, s.address <= addr
  PROVE  closest(symbols, addr) # {}
<1> DEFINE S == {k \in 1 .. addr + 1 : \E t \in symbols : t.address + 1 = k}
<1>1. s.address + 1 \in S
  OBVIOUS
<1>2. PICK k \in S : \A j \in S : j <= k
  <2>1. S \in SUBSET (1 .. addr + 1) /\ addr + 1 \in Nat /\ S # {}
    BY <1>1
  <2> HIDE DEF S
  <2> QED BY <2>1, GreatestNumber
<1>3. PICK t \in symbols : t.address + 1 = k
  OBVIOUS
<1>4. t.address <= addr
  BY <1>3
<1>5. ASSUME NEW u \in symbols, t.address < u.address, u.address <= addr PROVE FALSE
  <2>1. u.address + 1 \in S
    BY <1>5
  <2> QED BY <1>2, <1>3, <1>5, <2>1
<1>6. t \in closest(symbols, addr)
  BY <1>4, <1>5 DEF closest
<1> QED BY <1>6

\* The entry of the linker's map that is closest is the function at the address,
\* if there is one.
LEMMA ClosestFunction ==
  ASSUME NEW a \in Nat, NEW g \in Functions, entry_of(g) \in closest(LinkersMap, a),
         NEW f \in FunctionsAt(a)
  PROVE  f.address = g.address /\ f.size = g.size /\ a < g.address + g.size
<1>1. /\ f \in Functions /\ f.address <= a /\ a < f.address + f.size
      /\ f.address \in Nat /\ g.address \in Nat /\ f.size \in Nat /\ g.size \in Nat
  BY FunctionFacts DEF FunctionsAt
<1>2. g.address <= a /\ ~(g.address < f.address)
  <2>1. entry_of(f) \in LinkersMap
    BY <1>1 DEF LinkersMap
  <2> QED BY <1>1, <2>1, FunctionFacts DEF closest
<1>3. ~(f.address < g.address)
  BY <1>1, <1>2, FunctionsApart
<1>4. f.address = g.address
  BY <1>1, <1>2, <1>3
<1>5. f.size = g.size
  BY <1>1, <1>4, FunctionsApart
<1> QED BY <1>1, <1>4, <1>5

LEMMA ResolvedFunction ==
  ASSUME NEW a \in Nat, NEW s \in closest(LinkersMap, a), a <= s.address + s.size
  PROVE  \E f \in Functions : Inside(f, a) /\ s = entry_of(f)
<1>1. PICK f \in Functions : s = entry_of(f)
  BY DEF closest, LinkersMap
<1>2. /\ f.address \in Nat /\ f.size \in Nat /\ s.address = f.address /\ s.size = f.size
      /\ s.address <= a
  BY <1>1, FunctionFacts DEF closest
<1>3. a - f.address \in 0 .. f.size
  BY <1>2
<1>4. a - f.address = f.size => FunctionsAt(a) = {}
  <2> SUFFICES ASSUME a - f.address = f.size, NEW g \in FunctionsAt(a) PROVE FALSE
    OBVIOUS
  <2>1. a < f.address + f.size
    BY <1>1, ClosestFunction
  <2> QED BY <1>2, <2>1
<1> QED BY <1>1, <1>3, <1>4 DEF Inside

LEMMA UnresolvedFunction ==
  ASSUME NEW a \in Nat, NEW found, found = closest(LinkersMap, a),
         found = {} \/ \E s \in found : a > s.address + s.size
  PROVE  FunctionsAt(a) = {}
<1> SUFFICES ASSUME NEW f \in FunctionsAt(a) PROVE FALSE
  OBVIOUS
<1>1. f \in Functions /\ f.address <= a
  BY DEF FunctionsAt
<1>2. \A s \in LinkersMap : s.address \in Nat
  BY FunctionFacts DEF LinkersMap
<1>3. found # {}
  <2>1. entry_of(f) \in LinkersMap /\ entry_of(f).address <= a
    BY <1>1, FunctionFacts DEF LinkersMap
  <2> QED BY <1>2, <2>1, SomeClosest
<1>4. PICK s \in found : a > s.address + s.size
  BY <1>3
<1>5. PICK g \in Functions : s = entry_of(g)
  BY DEF closest, LinkersMap
<1>6. a < g.address + g.size
  BY <1>5, ClosestFunction
<1>7. s.address = g.address /\ s.size = g.size /\ g.address \in Nat /\ g.size \in Nat
  BY <1>5, FunctionFacts
<1> QED BY <1>4, <1>6, <1>7

\* A function has one address in its object.
LEMMA AddressInObject ==
  ASSUME NEW f \in Functions
  PROVE  /\ f.name \in DOMAIN by_name(TableOf(f.object))
         /\ by_name(TableOf(f.object))[f.name] = f.at
<1> DEFINE table == TableOf(f.object)
           addresses == {s.address : s \in {t \in table : t.name = f.name}}
<1>1. /\ \E s \in table : s.name = f.name
      /\ \A s \in table : s.name = f.name => s.address = f.at
  BY FunctionsAssumption
<1> HIDE DEF table
<1>2. addresses = {f.at}
  BY <1>1
<1>3. f.name \in {s.name : s \in table}
  BY <1>1
<1>4. by_name(table)[f.name] = CHOOSE a \in addresses : \A b \in addresses : b <= a
  BY <1>3 DEF by_name
<1> HIDE DEF addresses
<1>5. by_name(table)[f.name] = f.at
  <2>1. f.at \in Nat
    BY FunctionFacts
  <2> QED BY <1>2, <1>4, <2>1
<1>6. f.name \in DOMAIN by_name(table)
  BY <1>3 DEF by_name
<1> QED BY <1>5, <1>6 DEF table

\* In its object there is the same function at the same place, or one folded
\* into it.
LEMMA AskedFunctions ==
  ASSUME NEW addr \in Nat, NEW f \in Functions, Inside(f, addr), FunctionsAt(addr) # {},
         NEW g \in dwarf(f.object, f.at + (addr - f.address))
  PROVE  g \in FunctionsAt(addr)
<1>1. /\ g \in Functions /\ g.object = f.object
      /\ g.at <= f.at + (addr - f.address) /\ f.at + (addr - f.address) < g.at + g.size
  BY DEF dwarf
<1>2. /\ f.address \in Nat /\ f.size \in Nat /\ f.at \in Nat
      /\ g.address \in Nat /\ g.size \in Nat /\ g.at \in Nat
  BY <1>1, FunctionFacts
<1>3. addr - f.address \in 0 .. f.size /\ addr - f.address # f.size
  BY DEF Inside
<1>4. ~(g.at < f.at)
  <2>1. g.at < f.at => g.at + g.size <= f.at
    BY <1>1, FunctionsApart
  <2> QED BY <1>1, <1>2, <1>3, <2>1
<1>5. ~(f.at < g.at)
  <2>1. f.at < g.at => f.at + f.size <= g.at
    BY <1>1, FunctionsApart
  <2> QED BY <1>1, <1>2, <1>3, <2>1
<1>6. g.at = f.at
  BY <1>2, <1>4, <1>5
<1>7. g.address = f.address /\ g.size = f.size
  BY <1>1, <1>6, FunctionsApart
<1> QED BY <1>1, <1>2, <1>3, <1>7 DEF FunctionsAt

\* The symbol table of the program has a name for a frame in a function.
LEMMA TableAddresses ==
  ASSUME NEW path \in DOMAIN Files
  PROVE  \A s \in TableOf(path) : s.address \in Nat
<1>1. Images[path].entries \in Seq(MachEntry)
  BY MachOAssumption
<1>2. \A e \in Range(Images[path].entries) : e \in MachEntry
  BY <1>1 DEF Range
<1> QED BY <1>2 DEF TableOf, MachEntry

LEMMA NameInTable ==
  ASSUME NEW addr \in Nat, FunctionsAt(addr) # {}
  PROVE  /\ closest(TableOf(Binary), addr) # {}
         /\ \A s \in closest(TableOf(Binary), addr) : s.name \in {f.name : f \in FunctionsAt(addr)}
<1> DEFINE table == TableOf(Binary)
<1>1. PICK f \in FunctionsAt(addr) : TRUE
  OBVIOUS
<1>2. /\ f \in Functions /\ f.address <= addr /\ addr < f.address + f.size
      /\ f.address \in Nat /\ f.size \in Nat
  BY FunctionFacts DEF FunctionsAt
<1>3. /\ \E t \in table : t.address = f.address
      /\ \A t \in table :
           f.address <= t.address /\ t.address < f.address + f.size =>
             \E g \in Functions : g.address = f.address /\ g.address = t.address /\ g.name = t.name
  BY <1>2, FunctionsAssumption
<1>4. \A t \in table : t.address \in Nat
  BY TableAddresses, DebugMapAssumption
<1> HIDE DEF table
<1>5. closest(table, addr) # {}
  BY <1>2, <1>3, <1>4, SomeClosest
<1>6. ASSUME NEW s \in closest(table, addr) PROVE s.name \in {g.name : g \in FunctionsAt(addr)}
  <2>1. s \in table /\ s.address \in Nat /\ s.address <= addr /\ ~(s.address < f.address)
    BY <1>2, <1>3, <1>4 DEF closest
  <2>2. f.address <= s.address /\ s.address < f.address + f.size
    BY <1>2, <2>1
  <2>3. PICK g \in Functions : g.address = f.address /\ g.name = s.name
    BY <1>3, <2>1, <2>2
  <2>4. g.size = f.size
    BY <1>2, <2>3, FunctionsApart
  <2>5. g \in FunctionsAt(addr)
    BY <1>2, <2>3, <2>4 DEF FunctionsAt
  <2> QED BY <2>3, <2>5
<1> QED BY <1>5, <1>6 DEF table

-----------------------------------------------------------------------------
LEMMA PlaceIsSomething ==
  ASSUME NEW addr \in Nat, NEW f \in Functions, Inside(f, addr)
  PROVE  PlaceOf(f, addr) # Nothing
<1>1. f.at \in Nat /\ f.object \in Objects /\ f.size \in Nat
  BY FunctionFacts
<1>2. addr - f.address \in 0 .. f.size
  BY DEF Inside
<1>3. f.at + (addr - f.address) \in Nat
  BY <1>1, <1>2
<1>4. PlaceOf(f, addr) \in [object : Objects, address : Nat]
  BY <1>1, <1>3 DEF PlaceOf
<1> QED BY <1>4, DebugMapAssumption

LEMMA InsideIsAt ==
  ASSUME NEW addr \in Nat, NEW f \in Functions, Inside(f, addr), FunctionsAt(addr) # {}
  PROVE  f \in FunctionsAt(addr)
<1>1. addr - f.address \in 0 .. f.size /\ addr - f.address # f.size
  BY DEF Inside
<1>2. f.address \in Nat /\ f.size \in Nat
  BY FunctionFacts
<1> QED BY <1>1, <1>2 DEF FunctionsAt

LEMMA ResolveFrameKnown ==
  ASSUME DebugMapInv, missing' = missing, NEW a \in Pcs, resolve_frame(a)
  PROVE  FrameInv'
<1>1. /\ phase = "ready" /\ frame_pc' = a /\ a \in Nat /\ asked' = asked /\ asked = Nothing
      /\ phase' \in {"symbols", "resolved"}
  BY DebugMapAssumption DEF resolve_frame, DebugMapInv, FrameInv
<1> DEFINE found == closest(resolver.symbols, a)
<1>2. resolver.symbols = LinkersMap \/ (resolver.symbols = {} /\ Binary \in missing)
  BY <1>1 DEF DebugMapInv, ResolverOK, SymbolsInv, DebugMapIsLinkers
<1>3. CASE phase' = "symbols"
  <2>1. symbol' \in found /\ a <= symbol'.address + symbol'.size
    BY <1>3 DEF resolve_frame
  <2>2. resolver.symbols # {}
    BY <2>1 DEF closest
  <2>3. symbol' \in closest(LinkersMap, a)
    BY <1>2, <2>1, <2>2
  <2> HIDE DEF found
  <2>4. \E f \in Functions : Inside(f, a) /\ symbol' = entry_of(f)
    BY <1>1, <2>1, <2>3, ResolvedFunction
  <2> QED BY <1>1, <1>3, <2>4 DEF FrameInv
<1>4. CASE phase' = "resolved"
  <2>1. frame' = blank(a) /\ (found = {} \/ \E s \in found : a > s.address + s.size)
    BY <1>4 DEF resolve_frame
  <2>2. FunctionsAt(a) = {} \/ Binary \in missing
    <3>1. resolver.symbols = LinkersMap => FunctionsAt(a) = {}
      BY <1>1, <2>1, UnresolvedFunction
    <3> QED BY <1>2, <3>1
  <2> HIDE DEF found
  <2>3. FrameKnown(frame', asked', a, missing)
    <3>1. frame' = [name |-> "", address |-> a] /\ asked' = Nothing
      BY <1>1, <2>1 DEF blank
    <3> QED BY <2>2, <3>1 DEF FrameKnown
  <2> QED BY <1>1, <1>4, <2>3 DEF FrameInv
<1> QED BY <1>1, <1>3, <1>4

LEMMA TranslateKnown ==
  ASSUME DebugMapInv, missing' = missing, translate
  PROVE  FrameInv'
<1>1. /\ phase = "translate" /\ frame_pc' = frame_pc /\ frame_pc \in Nat /\ asked = Nothing
      /\ phase' \in {"make", "ask", "resolved"}
      /\ SymbolsKnown(symbol.object, target.symbols, missing)
  BY DEF translate, DebugMapInv, FrameInv
<1>2. PICK f \in Functions : Inside(f, frame_pc) /\ symbol = entry_of(f)
  BY <1>1 DEF DebugMapInv, FrameInv
<1>3. symbol.name = f.name /\ symbol.object = f.object /\ symbol.address = f.address
  BY <1>2, FunctionFacts
<1>4. CASE symbol.name \in DOMAIN target.symbols
  <2>1. target.symbols = by_name(TableOf(f.object))
    BY <1>1, <1>3, <1>4 DEF SymbolsKnown
  <2>2. target.symbols[symbol.name] = f.at
    BY <1>3, <2>1, AddressInObject
  <2>3. /\ asked' = [object |-> symbol.object,
                     address |-> target.symbols[symbol.name] + (frame_pc - symbol.address)]
        /\ phase' \in {"make", "ask"}
    BY <1>4 DEF translate
  <2>4. asked' = PlaceOf(f, frame_pc)
    BY <1>3, <2>2, <2>3 DEF PlaceOf
  <2> QED BY <1>1, <1>2, <2>3, <2>4 DEF FrameInv
<1>5. CASE symbol.name \notin DOMAIN target.symbols
  <2>1. f.object \in missing
    BY <1>1, <1>3, <1>5, AddressInObject DEF SymbolsKnown
  <2>2. frame' = [name |-> f.name, address |-> frame_pc] /\ phase' = "resolved" /\ asked' = Nothing
    BY <1>1, <1>3, <1>5 DEF translate
  <2>3. FrameKnown(frame', asked', frame_pc, missing)
    <3>1. FunctionsAt(frame_pc) # {} => f \in FunctionsAt(frame_pc)
      BY <1>1, <1>2, InsideIsAt
    <3> QED BY <2>1, <2>2, <3>1 DEF FrameKnown
  <2> QED BY <1>1, <2>2, <2>3 DEF FrameInv
<1> QED BY <1>4, <1>5

LEMMA AskKnown ==
  ASSUME DebugMapInv, missing' = missing, ask
  PROVE  FrameInv'
<1>1. /\ phase = "ask" /\ phase' = "resolved" /\ frame_pc' = frame_pc /\ frame_pc \in Nat
      /\ asked' = asked
  BY DEF ask, DebugMapInv, FrameInv
<1>2. PICK f \in Functions : Inside(f, frame_pc) /\ asked = PlaceOf(f, frame_pc)
  BY <1>1 DEF DebugMapInv, FrameInv
<1> DEFINE names == {g.name : g \in dwarf(asked.object, asked.address)}
<1>3. /\ frame' = [name |-> frame'.name, address |-> frame_pc]
      /\ frame'.name \in names \cup {""}
  <2> DEFINE given == IF target.resolver = "dwarf" /\ names # {} THEN names ELSE {""}
  <2>1. frame' \in [name : given, address : {frame_pc}]
    BY DEF ask
  <2>2. given \subseteq names \cup {""}
    OBVIOUS
  <2> HIDE DEF given
  <2>3. frame' = [name |-> frame'.name, address |-> frame'.address] /\ frame'.address = frame_pc
    BY <2>1
  <2> QED BY <2>1, <2>2, <2>3
<1>4. asked.object = f.object /\ asked.address = f.at + (frame_pc - f.address)
  BY <1>2 DEF PlaceOf
<1>5. FunctionsAt(frame_pc) # {} => names \subseteq {g.name : g \in FunctionsAt(frame_pc)}
  <2> SUFFICES ASSUME FunctionsAt(frame_pc) # {}, NEW g \in dwarf(asked.object, asked.address)
               PROVE  g \in FunctionsAt(frame_pc)
    OBVIOUS
  <2> QED BY <1>1, <1>2, <1>4, AskedFunctions
<1> HIDE DEF names
<1>6. asked # Nothing
  BY <1>1, <1>2, PlaceIsSomething
<1>7. FrameKnown(frame', asked', frame_pc, missing)
  BY <1>1, <1>2, <1>3, <1>5, <1>6 DEF FrameKnown
<1> QED BY <1>1, <1>7 DEF FrameInv

LEMMA CatchKnown ==
  ASSUME DebugMapInv, missing' = missing, catch
  PROVE  FrameInv'
<1>1. /\ phase = "threw" /\ frame_pc' = frame_pc /\ frame_pc \in Nat /\ asked' = asked
  BY DEF catch, DebugMapInv, FrameInv
<1>2. PICK f \in Functions : Inside(f, frame_pc) /\ asked = PlaceOf(f, frame_pc)
  BY <1>1 DEF DebugMapInv, FrameInv
<1>3. CASE phase' = "resolved" /\ frame' = blank(frame_pc)
  <2>1. asked # Nothing
    BY <1>1, <1>2, PlaceIsSomething
  <2>2. FrameKnown(frame', asked', frame_pc, missing)
    BY <1>1, <1>2, <1>3, <2>1 DEF FrameKnown, blank
  <2> QED BY <1>1, <1>3, <2>2 DEF FrameInv
<1>4. CASE phase' = "lost"
  BY <1>1, <1>4 DEF FrameInv
<1> QED BY <1>3, <1>4 DEF catch

LEMMA FallBackKnown ==
  ASSUME DebugMapInv, missing' = missing, fall_back
  PROVE  FrameInv'
<1>1. /\ phase = "resolved" /\ phase' = "done" /\ frame_pc' = frame_pc /\ frame_pc \in Nat
      /\ asked' = asked /\ FrameKnown(frame, asked, frame_pc, missing)
  BY DEF fall_back, DebugMapInv, FrameInv
<1> DEFINE NamesThere == {f.name : f \in FunctionsAt(frame_pc)}
<1> SUFFICES FrameKnown(frame', asked, frame_pc, missing) /\ FrameNamed(frame', frame_pc, missing)
  BY <1>1 DEF FrameInv
<1>2. the_object = Error => Binary \in missing
  BY <1>1, ErrorAssumption
     DEF the_object, DebugMapInv, MachinesInv, CacheOK, MachResult, MachOK, MachBase
<1>3. CASE frame.name # "" \/ the_object = Error
  <2>1. frame' = frame
    BY <1>3 DEF fall_back
  <2>2. FrameNamed(frame, frame_pc, missing)
    BY <1>1, <1>2, <1>3 DEF FrameKnown, FrameNamed
  <2> QED BY <1>1, <2>1, <2>2
<1>4. CASE frame.name = "" /\ the_object # Error
  <2> DEFINE r == lookup_symbol(the_object, frame_pc)
             t == symbol_table(the_object)
  <2>1. MachOK(the_object, Binary, missing)
    BY <1>1, <1>4 DEF the_object, DebugMapInv, MachinesInv, CacheOK, MachResult
  <2>2. t.result \in {Error, TableOf(Binary)} /\ (Binary \notin missing => t.result = TableOf(Binary))
    BY <2>1, TableRead, DebugMapAssumption DEF DebugMapInv, MachinesInv
  <2>3. r.result = IF t.result = Error THEN {} ELSE closest(t.result, frame_pc)
    BY DEF lookup_symbol, lookup_in
  <2>4. IF r.result = {} THEN frame' = frame ELSE \E s \in r.result : frame' = [frame EXCEPT !.name = s.name]
    BY <1>4 DEF fall_back
  <2> HIDE DEF r, t
  <2>5. CASE r.result = {}
    <3>1. FunctionsAt(frame_pc) # {} => Binary \in missing
      <4>1. FunctionsAt(frame_pc) # {} => closest(TableOf(Binary), frame_pc) # {}
        BY <1>1, NameInTable
      <4>2. TableOf(Binary) # Error
        BY ErrorAssumption, DebugMapAssumption
      <4> QED BY <2>2, <2>3, <2>5, <4>1, <4>2
    <3>2. frame' = frame
      BY <2>4, <2>5
    <3> QED BY <1>1, <3>1, <3>2 DEF FrameNamed
  <2>6. CASE r.result # {}
    <3>1. r.result = closest(TableOf(Binary), frame_pc)
      BY <2>2, <2>3, <2>6
    <3>2. PICK s \in r.result : frame' = [frame EXCEPT !.name = s.name]
      BY <2>4, <2>6
    <3>3. FunctionsAt(frame_pc) # {} => s.name \in NamesThere
      BY <1>1, <3>1, NameInTable
    <3>4. frame' = [name |-> s.name, address |-> frame_pc]
      <4>1. frame = [name |-> frame.name, address |-> frame_pc]
        BY <1>1 DEF FrameKnown
      <4> QED BY <3>2, <4>1
    <3>5. frame'.name = s.name /\ frame' = [name |-> frame'.name, address |-> frame_pc]
      BY <3>4
    <3>6. FrameKnown(frame', asked, frame_pc, missing)
      BY <1>1, <3>3, <3>5 DEF FrameKnown
    <3>7. FrameNamed(frame', frame_pc, missing)
      BY <3>3, <3>5 DEF FrameNamed
    <3> QED BY <3>6, <3>7
  <2> QED BY <2>5, <2>6
<1> QED BY <1>3, <1>4

LEMMA FrameStays ==
  ASSUME DebugMapInv, [DebugMapNext]_debug_map_vars
  PROVE  FrameInv'
<1>0. missing' = missing /\ FrameInv
  BY FilesStay DEF DebugMapInv, MachinesInv
<1>1. ASSUME \/ complete \/ set_cache_mode \/ get_module_image_base \/ UNCHANGED debug_map_vars
      PROVE  FrameInv'
  <2>1. UNCHANGED <<phase, frame_pc, symbol, asked, frame, resolver>>
    BY <1>1 DEF complete, set_cache_mode, get_module_image_base, debug_map_vars, work
  <2> QED BY <1>0, <2>1 DEF FrameInv, target
<1>2. ASSUME open_object \/ next_frame PROVE FrameInv'
  <2>1. phase' \in {"opened", "ready"} /\ asked' = Nothing /\ frame_pc' = frame_pc
    BY <1>2 DEF open_object, next_frame
  <2> QED BY <1>0, <2>1 DEF FrameInv
<1>3. ASSUME get_resolver PROVE FrameInv'
  <2>1. phase = "opened" /\ phase' = "ready" /\ asked' = asked /\ frame_pc' = frame_pc
    BY <1>3 DEF get_resolver
  <2> QED BY <1>0, <2>1 DEF FrameInv
<1>4. ASSUME get_symbols PROVE FrameInv'
  <2>1. /\ phase = "symbols" /\ phase' = "translate"
        /\ UNCHANGED <<asked, frame_pc, symbol>>
    BY <1>4 DEF get_symbols
  <2>2. SymbolsKnown(symbol.object, resolver'.targets[symbol.object].symbols, missing)
    BY <1>0, <1>4, TargetSymbols DEF DebugMapInv
  <2> QED BY <1>0, <2>1, <2>2 DEF FrameInv, target
<1>5. ASSUME make_dwarf_resolver PROVE FrameInv'
  <2>1. phase = "make" /\ phase' \in {"ask", "threw"} /\ asked' = asked /\ frame_pc' = frame_pc
    BY <1>5 DEF make_dwarf_resolver
  <2> QED BY <1>0, <2>1 DEF FrameInv
<1>6. ASSUME end_trace PROVE FrameInv'
  <2>1. phase' = "idle" /\ frame_pc' = frame_pc
    BY <1>6 DEF end_trace
  <2> QED BY <1>0, <2>1 DEF FrameInv
<1> QED BY <1>0, <1>1, <1>2, <1>3, <1>4, <1>5, <1>6, ResolveFrameKnown, TranslateKnown, AskKnown,
           CatchKnown, FallBackKnown DEF DebugMapNext

\* The files, what was opened of them, the resolver and the frame in work stay
\* as the invariant says, in every step.
THEOREM DebugMapInvariant == DebugMapSpec => []DebugMapInv
<1>1. DebugMapInv /\ [DebugMapNext]_debug_map_vars => DebugMapInv'
  <2> SUFFICES ASSUME DebugMapInv, [DebugMapNext]_debug_map_vars PROVE DebugMapInv'
    OBVIOUS
  <2>1. MachinesInv' /\ ResolverOK' /\ SymbolsInv'
    BY MachinesStay, ResolverStays, SymbolsStay DEF DebugMapInv
  <2> QED BY <2>1, FrameStays DEF DebugMapInv
<1> QED BY <1>1, DebugMapBegins, PTL DEF DebugMapSpec

\* The base of the program is that of its own slice, wherever in a fat file, and
\* there if the file was whole, for any files as they are written, however they
\* come and go from the cache.
THEOREM BaseIsOwn == DebugMapSpec => []ImageBaseIsOwn
<1>1. DebugMapInv => ImageBaseIsOwn
  BY DEF DebugMapInv, MachinesInv, BasesOK
<1> QED BY <1>1, DebugMapInvariant, PTL

\* The functions the resolver knows are those the linker listed, each of its
\* object, or none if the program's file was not whole.
THEOREM ResolverHasLinkersMap == DebugMapSpec => []DebugMapIsLinkers
<1>1. DebugMapInv => DebugMapIsLinkers
  BY DEF DebugMapInv, SymbolsInv
<1> QED BY <1>1, DebugMapInvariant, PTL

\* A frame is resolved where its function is in its own object, and named and
\* reported as what it is in the program, for any functions and any order of
\* builds, cache modes and traces.
THEOREM FramesAreResolved == DebugMapSpec => []FrameIsItsFunction
<1>1. DebugMapInv => FrameIsItsFunction
  <2> SUFFICES ASSUME DebugMapInv, phase = "done" PROVE FrameIsItsFunction
    BY DEF FrameIsItsFunction
  <2>1. FrameKnown(frame, asked, frame_pc, missing) /\ FrameNamed(frame, frame_pc, missing)
    BY DEF DebugMapInv, FrameInv
  <2>2. frame.address = frame_pc
    <3>1. frame = [name |-> frame.name, address |-> frame_pc]
      BY <2>1 DEF FrameKnown
    <3> QED BY <3>1
  <2>3. asked # Nothing =>
          \E f \in Functions : Inside(f, frame_pc) /\ asked = PlaceOf(f, frame_pc)
    BY <2>1 DEF FrameKnown
  <2>4. FunctionsAt(frame_pc) # {} =>
          /\ \/ frame.name \in {f.name : f \in FunctionsAt(frame_pc)}
             \/ frame.name = "" /\ Binary \in missing
          /\ asked = Nothing =>
               \E f \in FunctionsAt(frame_pc) : ~({Binary, f.object} \cap missing = {})
    BY <2>1 DEF FrameKnown, FrameNamed
  <2> QED BY <2>2, <2>3, <2>4 DEF FrameIsItsFunction, Inside, PlaceOf
<1> QED BY <1>1, DebugMapInvariant, PTL
=============================================================================
