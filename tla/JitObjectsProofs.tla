-------------------------- MODULE JitObjectsProofs --------------------------
(***************************************************************************)
(* Proofs about the in-memory object files of JIT compiled code: that the  *)
(* objects and the list of their ranges tell of the same objects, and that *)
(* as long as one thread registers and looks up, an address is resolved to *)
(* its function, for any files, any number of them and any history of      *)
(* registering and unregistering.                                          *)
(***************************************************************************)
EXTENDS JitObjects, SequenceLemmas

\* What an ordinary JIT compiler passes: code that is not empty, with functions
\* that are apart.
OrdinaryFiles ==
  \A f \in Files :
    /\ f.low < f.high
    /\ \A g, h \in f.functions :
         g # h => g.at # h.at /\ (g.at + g.size <= h.at \/ h.at + h.size <= g.at)

ObjectType == [start : Nat, object : Nat]
RangeType == [low : Nat, high : Nat, start : Nat, object : Nat]

TypeOK ==
  /\ opened \in Seq(Files)
  /\ objects \in Seq(ObjectType)
  /\ range_list \in Seq(RangeType)
  /\ code \subseteq Files
  /\ updating \in {"idle", "add", "remove", "clear"}
  /\ todo \in Seq(Files)
  /\ reading \in {"idle", "found", "answered"}
  /\ reading # "idle" => pc \in Nat

Apart(f, g) == f.start # g.start /\ (f.high <= g.low \/ g.high <= f.low)

\* The JIT compiler keeps its files apart, those it registers next included.
CodeIsApart ==
  /\ \A f, g \in code : f # g => Apart(f, g)
  /\ \A i \in DOMAIN todo : \A f \in code : Apart(todo[i], f)
  /\ \A i, j \in DOMAIN todo : i # j => Apart(todo[i], todo[j])

\* Every object was made of a file in use, and is known by its start.
ObjectsAreCode ==
  \A o \in ToSet(objects) :
    /\ o.object \in DOMAIN opened
    /\ opened[o.object] \in code
    /\ opened[o.object].start = o.start

\* What the call of the JIT compiler has done so far.
CallIsUnderWay ==
  /\ updating = "add" => /\ arg \in code /\ arg.opens /\ arg.readable
                         /\ Len(opened) \in DOMAIN opened /\ arg = opened[Len(opened)]
                         /\ [start |-> arg.start, object |-> Len(opened)] \in ToSet(objects)
  /\ updating = "remove" => \A f \in code : f.start # arg
  /\ updating = "clear" => code = {} /\ objects = <<>>

HasObject(r) == [start |-> r.start, object |-> r.object] \in ToSet(objects)

\* A range is that of the file its object was made of.
IsRange(r) ==
  /\ r.object \in DOMAIN opened
  /\ LET f == opened[r.object]
     IN f.opens /\ f.readable /\ r.low = f.low /\ r.high = f.high /\ r.start = f.start

\* The object of a range is there unless the range is about to go.
RangesAreOfObjects ==
  \A r \in ToSet(range_list) :
    /\ IsRange(r)
    /\ updating \in {"idle", "add"} \/ (updating = "remove" /\ r.start # arg) => HasObject(r)

\* A file in use that can be read has its range in the list.
RangesAreComplete ==
  \A f \in code :
    f.opens /\ f.readable /\ ~(updating = "add" /\ f = arg)
      => \E r \in ToSet(range_list) : opened[r.object] = f

Sorted(list) == \A i, j \in DOMAIN list : i < j => list[i].low <= list[j].low

\* One thread: while the resolver is at work nothing is registered, and what the
\* lookup found is a range that the address is in.
ReaderIsAlone ==
  ~Concurrent =>
    /\ reading # "idle" => updating = "idle" /\ todo = <<>>
    /\ reading = "found" =>
         \E r \in ToSet(range_list) :
           /\ found = [object |-> r.object, base |-> r.low]
           /\ r.low <= pc /\ pc < r.high

AnswerIsRight == ~Concurrent /\ OrdinaryFiles => SymbolIsRight

Inv ==
  /\ TypeOK /\ CodeIsApart /\ ObjectsAreCode /\ CallIsUnderWay
  /\ Sorted(range_list) /\ RangesAreOfObjects /\ RangesAreComplete
  /\ ReaderIsAlone /\ AnswerIsRight

-----------------------------------------------------------------------------
LEMMA InitInv == Init => Inv
<1> SUFFICES ASSUME Init PROVE Inv
  OBVIOUS
<1> USE DEF Init
<1>1. ToSet(objects) = {} /\ ToSet(range_list) = {} /\ DOMAIN range_list = {} /\ DOMAIN todo = {}
  BY DEF ToSet
<1>2. TypeOK
  BY DEF TypeOK
<1>3. CodeIsApart /\ ObjectsAreCode /\ CallIsUnderWay
  BY <1>1 DEF CodeIsApart, ObjectsAreCode, CallIsUnderWay
<1>4. Sorted(range_list) /\ RangesAreOfObjects /\ RangesAreComplete
  BY <1>1 DEF Sorted, RangesAreOfObjects, RangesAreComplete
<1>5. ReaderIsAlone
  BY DEF ReaderIsAlone
<1>6. AnswerIsRight
  BY DEF AnswerIsRight, SymbolIsRight
<1> QED BY <1>2, <1>3, <1>4, <1>5, <1>6 DEF Inv

\* A set of files is apart from a file as Fits has it.
LEMMA FitsIsApart ==
  ASSUME NEW f, NEW files
  PROVE  Fits(f, files) <=> \A g \in files : Apart(f, g)
BY DEF Fits, Apart

\* The starts of files are numbers, and so are the ends of their code.
LEMMA FileTypes ==
  ASSUME NEW f \in Files
  PROVE  /\ f.start \in Nat /\ f.low \in Nat /\ f.high \in Nat
         /\ f.functions \subseteq [at : Nat, size : Nat]
BY JitAssumption

LEMMA RangeTypes ==
  ASSUME NEW list \in Seq(RangeType)
  PROVE  /\ Len(list) \in Nat /\ DOMAIN list = 1 .. Len(list)
         /\ \A i \in 1 .. Len(list) : list[i].low \in Nat
<1>1. Len(list) \in Nat /\ DOMAIN list = 1 .. Len(list)
  OBVIOUS
<1>2. ASSUME NEW i \in 1 .. Len(list) PROVE list[i].low \in Nat
  <2>1. list[i] \in RangeType
    OBVIOUS
  <2> QED BY <2>1 DEF RangeType
<1> QED BY <1>1, <1>2

\* What upper_bound finds in a sorted list: how many entries are not above x.
IsBound(list, x, m) ==
  /\ m \in 0 .. Len(list) /\ upper_bound(list, x) = m + 1
  /\ \A i \in 1 .. m : list[i].low <= x
  /\ \A i \in m + 1 .. Len(list) : x < list[i].low

LEMMA UpperBound ==
  ASSUME NEW list \in Seq(RangeType), Sorted(list), NEW x \in Nat
  PROVE  \E m : IsBound(list, x, m)
<1> DEFINE D == {i \in DOMAIN list : list[i].low <= x}
           above == {n \in Nat : n + 1 \notin D}
<1>1. /\ Len(list) \in Nat /\ DOMAIN list = 1 .. Len(list)
      /\ \A i \in 1 .. Len(list) : list[i].low \in Nat
  BY RangeTypes
<1>2. PICK m \in above : \A n \in above : m <= n
  <2>1. Len(list) \in above
    BY <1>1
  <2>2. above \subseteq Nat /\ above # {}
    BY <2>1
  <2> HIDE DEF above
  <2> QED BY <2>2, LeastNumber
<1>3. m \in 0 .. Len(list)
  <2>1. Len(list) \in above
    BY <1>1
  <2> QED BY <1>1, <1>2, <2>1
<1>4. ASSUME NEW i \in 1 .. m PROVE i \in D
  <2>1. i - 1 \in Nat /\ i - 1 + 1 = i /\ ~(m <= i - 1)
    BY <1>2
  <2>2. i - 1 \notin above
    BY <1>2, <2>1
  <2> QED BY <2>1, <2>2
<1>5. ASSUME NEW i \in m + 1 .. Len(list) PROVE i \notin D
  <2>1. m + 1 \in 1 .. Len(list) /\ m + 1 \notin D /\ i \in 1 .. Len(list)
    BY <1>2, <1>3
  <2>2. ~(list[m + 1].low <= x)
    BY <1>1, <2>1
  <2>3. list[m + 1].low <= list[i].low
    <3>1. m + 1 < i \/ m + 1 = i
      BY <1>3
    <3> QED BY <1>1, <2>1, <3>1 DEF Sorted
  <2> QED BY <1>1, <2>1, <2>2, <2>3
<1>6. D = 1 .. m
  <2>1. \A i \in 1 .. Len(list) : i \in 1 .. m \/ i \in m + 1 .. Len(list)
    BY <1>3
  <2>2. D \subseteq 1 .. Len(list)
    BY <1>1
  <2> HIDE DEF D
  <2> QED BY <1>4, <1>5, <2>1, <2>2
<1>7. Cardinality(D) = m
  <2>1. Cardinality(1 .. m) = m
    BY <1>3, FS_Interval
  <2> QED BY <1>6, <2>1
<1>8. upper_bound(list, x) = m + 1
  BY <1>3, <1>7 DEF upper_bound
<1>9. ASSUME NEW i \in m + 1 .. Len(list) PROVE x < list[i].low
  <2>1. i \in 1 .. Len(list)
    BY <1>3
  <2> QED BY <1>1, <1>5, <2>1
<1> QED BY <1>3, <1>4, <1>8, <1>9 DEF IsBound

\* add_range puts a range where the list stays sorted.
LEMMA InsertKeepsOrder ==
  ASSUME NEW list \in Seq(RangeType), Sorted(list), NEW r \in RangeType
  PROVE  LET new == InsertAt(list, upper_bound(list, r.low), r)
         IN new \in Seq(RangeType) /\ Sorted(new) /\ ToSet(new) = ToSet(list) \cup {r}
<1> DEFINE new == InsertAt(list, upper_bound(list, r.low), r)
<1>0. Len(list) \in Nat /\ r.low \in Nat /\ \A i \in 1 .. Len(list) : list[i].low \in Nat
  <2>1. r.low \in Nat
    BY DEF RangeType
  <2> QED BY <2>1, RangeTypes
<1>1. PICK m : IsBound(list, r.low, m)
  BY <1>0, UpperBound
<1>2. /\ m \in Nat /\ m <= Len(list) /\ m + 1 \in 1 .. Len(list) + 1
      /\ \A i \in 1 .. m : list[i].low <= r.low
      /\ \A i \in m + 1 .. Len(list) : r.low < list[i].low
      /\ new = InsertAt(list, m + 1, r)
  BY <1>0, <1>1 DEF IsBound
<1>3. new \in Seq(RangeType) /\ Inserted(new, list, m + 1, r)
  BY <1>2, InsertAtInserts
<1> HIDE DEF new
<1>4. ToSet(new) = ToSet(list) \cup {r}
  BY <1>2, <1>3, SetOfInserted
<1>5. /\ Len(new) = Len(list) + 1 /\ DOMAIN new = 1 .. Len(list) + 1
      /\ \A k \in 1 .. Len(list) + 1 :
           new[k] = IF k < m + 1 THEN list[k] ELSE IF k = m + 1 THEN r ELSE list[k - 1]
  BY <1>3 DEF Inserted
<1>6. ASSUME NEW k \in 1 .. Len(list) + 1
      PROVE  /\ k < m + 1 => k \in 1 .. Len(list) /\ k \in 1 .. m /\ new[k] = list[k]
             /\ k = m + 1 => new[k] = r
             /\ k > m + 1 => /\ k - 1 \in 1 .. Len(list) /\ k - 1 \in m + 1 .. Len(list)
                             /\ new[k] = list[k - 1]
  BY <1>0, <1>2, <1>5
<1>7. \A i, j \in 1 .. Len(list) : i < j => list[i].low <= list[j].low
  <2>1. DOMAIN list = 1 .. Len(list)
    OBVIOUS
  <2> QED BY <2>1 DEF Sorted
<1>8. ASSUME NEW i \in 1 .. Len(list) + 1, NEW j \in 1 .. Len(list) + 1, i < j
      PROVE  new[i].low <= new[j].low
  <2>1. CASE j < m + 1
    <3>1. i < m + 1
      BY <1>2, <1>8, <2>1
    <3> QED BY <1>6, <1>7, <1>8, <2>1, <3>1
  <2>2. CASE j = m + 1
    <3>1. i < m + 1
      BY <1>2, <1>8, <2>2
    <3> QED BY <1>2, <1>6, <2>2, <3>1
  <2>3. CASE j > m + 1
    <3>1. CASE i < m + 1
      <4>1. i < j - 1
        BY <1>2, <2>3, <3>1
      <4> QED BY <1>6, <1>7, <2>3, <3>1, <4>1
    <3>2. CASE i = m + 1
      <4>1. new[i].low = r.low /\ new[j].low = list[j - 1].low /\ j - 1 \in m + 1 .. Len(list)
            /\ j - 1 \in 1 .. Len(list)
        BY <1>6, <2>3, <3>2
      <4> QED BY <1>0, <1>2, <4>1
    <3>3. CASE i > m + 1
      <4>1. i - 1 < j - 1
        BY <1>2, <1>8
      <4> QED BY <1>6, <1>7, <2>3, <3>3, <4>1
    <3> QED BY <1>2, <3>1, <3>2, <3>3
  <2> QED BY <1>2, <2>1, <2>2, <2>3
<1>9. Sorted(new)
  BY <1>5, <1>8 DEF Sorted
<1> QED BY <1>3, <1>4, <1>9 DEF new

\* Removing entries keeps the order of the others.
LEMMA FilterKeepsOrder ==
  ASSUME NEW list \in Seq(RangeType), Sorted(list), NEW S
  PROVE  Sorted(Filter(list, S))
<1> DEFINE t == Filter(list, S)
<1>1. PICK at : t \in Seq(RangeType) /\ Kept(at, t, list, S, Len(list))
  BY FilterKeeps
<1> HIDE DEF t
<1>2. DOMAIN t = 1 .. Len(t) /\ DOMAIN list = 1 .. Len(list)
  BY <1>1
<1>3. ASSUME NEW i \in 1 .. Len(t), NEW j \in 1 .. Len(t), i < j PROVE t[i].low <= t[j].low
  <2>1. at[i] \in 1 .. Len(list) /\ at[j] \in 1 .. Len(list) /\ at[i] < at[j]
    BY <1>1, <1>3 DEF Kept
  <2>2. t[i] = list[at[i]] /\ t[j] = list[at[j]]
    BY <1>1 DEF Kept
  <2> QED BY <1>2, <2>1, <2>2 DEF Sorted
<1> QED BY <1>2, <1>3 DEF Sorted, t

-----------------------------------------------------------------------------
LEMMA ListsOfFiles ==
  ASSUME NEW list \in Lists
  PROVE  list \in Seq(Files) /\ Len(list) \in {0, 1, 2}
<1>1. CASE list = <<>>
  BY <1>1
<1>2. CASE list \in {<<f>> : f \in Files}
  <2>1. PICK f \in Files : list = <<f>>
    BY <1>2
  <2> QED BY <2>1
<1>3. CASE list \in Files \X Files
  <2>1. PICK f \in Files, g \in Files : list = <<f, g>>
    BY <1>3
  <2> QED BY <2>1
<1> QED BY <1>1, <1>2, <1>3 DEF Lists

LEMMA TypeOfAdd ==
  ASSUME TypeOK, NEW f \in Files, add_jit_object(f), todo' \in Seq(Files)
  PROVE  TypeOK'
<1>1. objects' \in Seq(ObjectType) /\ opened' \in Seq(Files)
  <2>1. CASE f.opens
    <3>1. opened' = Append(opened, f)
          /\ objects' = Append(objects, [start |-> f.start, object |-> Len(opened')])
      BY <2>1 DEF add_jit_object
    <3>2. opened' \in Seq(Files) /\ Len(opened') \in Nat
      BY <3>1 DEF TypeOK
    <3>3. [start |-> f.start, object |-> Len(opened')] \in ObjectType
      BY <3>2, FileTypes DEF ObjectType
    <3> QED BY <3>1, <3>2, <3>3 DEF TypeOK
  <2>2. CASE ~f.opens
    BY <2>2 DEF add_jit_object, TypeOK
  <2> QED BY <2>1, <2>2
<1>2. updating' \in {"idle", "add", "remove", "clear"} /\ code' \subseteq Files
  BY DEF add_jit_object, TypeOK
<1>3. range_list' = range_list /\ UNCHANGED <<reading, pc>>
  BY DEF add_jit_object, reader
<1> QED BY <1>1, <1>2, <1>3 DEF TypeOK

LEMMA TypeStep == TypeOK /\ Sorted(range_list) /\ CallIsUnderWay /\ [Next]_vars => TypeOK'
<1> SUFFICES ASSUME TypeOK, Sorted(range_list), CallIsUnderWay, [Next]_vars PROVE TypeOK'
  OBVIOUS
<1>1. ASSUME NEW f \in Files, add_jit_object(f), todo' = todo PROVE TypeOK'
  BY <1>1, TypeOfAdd DEF TypeOK
<1>2. CASE register_next
  <2>1. todo \in Seq(Files) /\ todo # <<>>
    BY <1>2 DEF register_next, TypeOK
  <2>2. Head(todo) \in Files /\ Tail(todo) \in Seq(Files)
    BY <2>1
  <2> QED BY <1>2, <2>2, TypeOfAdd DEF register_next
<1>3. CASE add_range
  <2> DEFINE r == [low |-> arg.low, high |-> arg.high, start |-> arg.start, object |-> Len(opened)]
  <2>1. arg \in Files
    BY <1>3 DEF add_range, CallIsUnderWay, TypeOK
  <2>2. Len(opened) \in Nat
    BY DEF TypeOK
  <2>3. r \in RangeType /\ r.low = arg.low
    BY <2>1, <2>2, FileTypes DEF RangeType
  <2>4. range_list' = InsertAt(range_list, upper_bound(range_list, r.low), r)
    BY <1>3 DEF add_range
  <2>5. range_list' \in Seq(RangeType)
    <3> HIDE DEF r
    <3> QED BY <2>3, <2>4, InsertKeepsOrder DEF TypeOK
  <2> QED BY <1>3, <2>5 DEF add_range, reader, TypeOK
<1>4. ASSUME NEW start, unregister_jit_object(start) PROVE TypeOK'
  <2>1. objects' \in Seq(ObjectType)
    BY <1>4, SetOfFilter DEF unregister_jit_object, TypeOK
  <2> QED BY <1>4, <2>1 DEF unregister_jit_object, reader, TypeOK
<1>5. CASE remove_ranges
  <2>1. range_list' \in Seq(RangeType)
    BY <1>5, SetOfFilter DEF remove_ranges, TypeOK
  <2> QED BY <1>5, <2>1 DEF remove_ranges, reader, TypeOK
<1>6. ASSUME NEW list \in Seq(Files), clear_all_jit_objects(list) PROVE TypeOK'
  BY <1>6 DEF clear_all_jit_objects, reader, TypeOK
<1>7. CASE clear_ranges
  BY <1>7 DEF clear_ranges, reader, TypeOK
<1>8. ASSUME NEW p \in Pcs, lookup(p) PROVE TypeOK'
  <2>1. p \in Nat
    BY JitAssumption
  <2>2. pc' = p /\ reading' \in {"found", "answered"}
    BY <1>8 DEF lookup
  <2>3. UNCHANGED <<manager, updater>>
    BY <1>8 DEF lookup
  <2> QED BY <2>1, <2>2, <2>3 DEF manager, updater, TypeOK
<1>9. CASE resolve_symbol
  BY <1>9 DEF resolve_symbol, manager, updater, TypeOK
<1>10. CASE return
  BY <1>10 DEF return, manager, updater, TypeOK
<1>11. CASE UNCHANGED vars
  BY <1>11 DEF vars, manager, updater, reader, TypeOK
<1>12. \A list \in Lists : list \in Seq(Files)
  BY ListsOfFiles
<1>13. CASE register_jit_object
  BY <1>1, <1>13 DEF register_jit_object
<1>14. CASE register_jit_objects_from_gdb_jit_interface
  BY <1>6, <1>12, <1>14 DEF register_jit_objects_from_gdb_jit_interface
<1>15. CASE clear_all_jit_objects(<<>>)
  <2>1. <<>> \in Seq(Files)
    OBVIOUS
  <2> QED BY <1>6, <1>15, <2>1
<1> QED BY <1>2, <1>3, <1>4, <1>5, <1>7, <1>8, <1>9, <1>10, <1>11, <1>13, <1>14, <1>15 DEF Next

-----------------------------------------------------------------------------
\* The files stay apart: what is registered next fits what is there.
LEMMA CodeStep == TypeOK /\ CodeIsApart /\ [Next]_vars => CodeIsApart'
<1> SUFFICES ASSUME TypeOK, CodeIsApart, [Next]_vars PROVE CodeIsApart'
  OBVIOUS
<1>0. \A f, g : Apart(f, g) /\ f \in Files /\ g \in Files => Apart(g, f)
  BY DEF Apart
<1>1. CASE register_jit_object
  <2>1. PICK f \in Files : Fits(f, code) /\ add_jit_object(f)
    BY <1>1 DEF register_jit_object
  <2>2. todo' = todo /\ todo = <<>> /\ code' = code \cup {f} /\ code \subseteq Files
    BY <1>1, <2>1 DEF register_jit_object, add_jit_object, TypeOK
  <2>3. \A g \in code : Apart(f, g) /\ Apart(g, f)
    BY <1>0, <2>1, <2>2, FitsIsApart
  <2>4. DOMAIN todo = {}
    BY <2>2
  <2> HIDE DEF Apart
  <2> QED BY <2>2, <2>3, <2>4 DEF CodeIsApart
<1>2. CASE register_next
  <2> DEFINE f == Head(todo)
  <2>1. /\ todo \in Seq(Files) /\ todo # <<>> /\ todo' = Tail(todo)
        /\ code' = code \cup {f} /\ code \subseteq Files
    BY <1>2 DEF register_next, add_jit_object, TypeOK
  <2>2. 1 \in DOMAIN todo /\ f = todo[1] /\ f \in Files
    BY <2>1
  <2>3. /\ \A i \in DOMAIN Tail(todo) : i + 1 \in DOMAIN todo /\ Tail(todo)[i] = todo[i + 1]
        /\ \A i \in DOMAIN Tail(todo) : i + 1 # 1 /\ todo[i + 1] \in Files
        /\ \A i, j \in DOMAIN Tail(todo) : i # j => i + 1 # j + 1
    BY <2>1
  <2> HIDE DEF f
  <2>4. \A g \in code : Apart(f, g) /\ Apart(g, f)
    BY <1>0, <2>1, <2>2 DEF CodeIsApart
  <2>5. \A g, h \in code' : g # h => Apart(g, h)
    BY <2>1, <2>4 DEF CodeIsApart
  <2>6. \A i \in DOMAIN todo' : \A g \in code' : Apart(todo'[i], g)
    BY <2>1, <2>2, <2>3 DEF CodeIsApart
  <2>7. \A i, j \in DOMAIN todo' : i # j => Apart(todo'[i], todo'[j])
    BY <2>1, <2>3 DEF CodeIsApart
  <2> QED BY <2>5, <2>6, <2>7 DEF CodeIsApart
<1>3. ASSUME code' \subseteq code, todo' = todo PROVE CodeIsApart'
  BY <1>3 DEF CodeIsApart
<1>4. ASSUME NEW start, unregister_jit_object(start) PROVE CodeIsApart'
  BY <1>3, <1>4 DEF unregister_jit_object
<1>5. CASE clear_all_jit_objects(<<>>)
  <2>1. todo' = <<>> /\ code' = {} /\ DOMAIN <<>> = {}
    BY <1>5 DEF clear_all_jit_objects
  <2> QED BY <2>1 DEF CodeIsApart
<1>6. CASE register_jit_objects_from_gdb_jit_interface
  <2>1. PICK list \in Lists : clear_all_jit_objects(list)
    BY <1>6 DEF register_jit_objects_from_gdb_jit_interface
  <2>2. todo' = list /\ code' = {}
    BY <2>1 DEF clear_all_jit_objects
  <2>3. ASSUME NEW i \in DOMAIN list, NEW j \in DOMAIN list, i # j
        PROVE  Apart(list[i], list[j])
    <3>1. list \in Seq(Files) /\ Len(list) \in {0, 1, 2}
      BY ListsOfFiles
    <3>2. Len(list) = 2 /\ ((i = 1 /\ j = 2) \/ (i = 2 /\ j = 1))
      BY <2>3, <3>1
    <3>3. Fits(list[1], {list[2]})
      BY <3>2 DEF Lists
    <3>4. PICK f, g : f = list[1] /\ g = list[2]
      OBVIOUS
    <3>5. f \in Files /\ g \in Files
      <4>1. 1 \in 1 .. Len(list) /\ 2 \in 1 .. Len(list)
        BY <3>2
      <4>2. \A n \in 1 .. Len(list) : list[n] \in Files
        BY <3>1
      <4> QED BY <3>4, <4>1, <4>2
    <3>6. Fits(f, {g})
      BY <3>3, <3>4
    <3>7. Apart(f, g)
      BY <3>6 DEF Fits, Apart
    <3> QED BY <1>0, <3>2, <3>4, <3>5, <3>7
  <2> QED BY <2>2, <2>3 DEF CodeIsApart
<1>7. CASE add_range \/ remove_ranges \/ clear_ranges
  BY <1>3, <1>7 DEF add_range, remove_ranges, clear_ranges
<1>8. CASE (\E p \in Pcs : lookup(p)) \/ resolve_symbol \/ return \/ UNCHANGED vars
  BY <1>3, <1>8 DEF lookup, resolve_symbol, return, vars, updater
<1> QED BY <1>1, <1>2, <1>4, <1>5, <1>6, <1>7, <1>8 DEF Next

-----------------------------------------------------------------------------
\* What the invariant says of the two vectors.
Managed ==
  /\ ObjectsAreCode /\ CallIsUnderWay
  /\ Sorted(range_list) /\ RangesAreOfObjects /\ RangesAreComplete

managed == <<opened, objects, range_list, code, updating, arg>>

LEMMA ManagedUnchanged ==
  ASSUME Managed, UNCHANGED managed
  PROVE  Managed'
BY DEF Managed, managed, ObjectsAreCode, CallIsUnderWay, Sorted, RangesAreOfObjects,
       RangesAreComplete, IsRange, HasObject

\* What was opened stays the file it was.
OpenedGrows ==
  /\ DOMAIN opened \subseteq DOMAIN opened'
  /\ \A n \in DOMAIN opened : opened'[n] = opened[n]

LEMMA ManagedAdd ==
  ASSUME TypeOK, Managed, NEW f \in Files, add_jit_object(f)
  PROVE  Managed'
<1>1. /\ updating = "idle" /\ code' = code \cup {f} /\ range_list' = range_list
      /\ f.start \in Nat /\ code \subseteq Files
  BY FileTypes DEF add_jit_object, TypeOK
<1>2. CASE ~f.opens
  <2>1. UNCHANGED <<opened, objects, updating, arg>>
    BY <1>2 DEF add_jit_object
  <2>2. ObjectsAreCode' /\ CallIsUnderWay' /\ Sorted(range_list)' /\ RangesAreOfObjects'
    BY <1>1, <2>1 DEF Managed, ObjectsAreCode, CallIsUnderWay, Sorted, RangesAreOfObjects, IsRange,
                      HasObject
  <2>3. RangesAreComplete'
    BY <1>1, <1>2, <2>1 DEF Managed, RangesAreComplete
  <2> QED BY <2>2, <2>3 DEF Managed
<1>3. CASE f.opens
  <2> DEFINE o == [start |-> f.start, object |-> Len(opened')]
  <2>1. /\ opened' = Append(opened, f) /\ objects' = Append(objects, o)
        /\ updating' = (IF f.readable THEN "add" ELSE "idle")
        /\ f.readable => arg' = f
    BY <1>3 DEF add_jit_object
  <2>2. /\ OpenedGrows /\ Len(opened') \in DOMAIN opened' /\ opened'[Len(opened')] = f
        /\ Len(opened') \in Nat
    BY <2>1 DEF TypeOK, OpenedGrows
  <2>3. o \in ObjectType /\ o.object = Len(opened') /\ o.start = f.start
    BY <1>1, <2>2 DEF ObjectType
  <2> HIDE DEF o
  <2>4. ToSet(objects') = ToSet(objects) \cup {o}
    BY <2>1, <2>3, SetOfAppend DEF TypeOK
  <2>5. ObjectsAreCode'
    BY <1>1, <2>2, <2>3, <2>4 DEF Managed, ObjectsAreCode, OpenedGrows
  <2>6. CallIsUnderWay'
    <3>1. CASE f.readable
      BY <1>1, <1>3, <2>1, <2>2, <2>4, <3>1 DEF CallIsUnderWay, o
    <3>2. CASE ~f.readable
      BY <2>1, <3>2 DEF CallIsUnderWay
    <3> QED BY <3>1, <3>2
  <2>7. ASSUME NEW r \in ToSet(range_list) PROVE IsRange(r)' /\ HasObject(r)' /\ r.object \in DOMAIN opened
    BY <1>1, <2>2, <2>4 DEF Managed, RangesAreOfObjects, IsRange, HasObject, OpenedGrows
  <2>8. RangesAreOfObjects'
    BY <1>1, <2>7 DEF RangesAreOfObjects
  <2>9. RangesAreComplete'
    <3>1. ASSUME NEW g \in code', g.opens, g.readable, ~(updating' = "add" /\ g = arg')
          PROVE  g \in code
      BY <1>1, <2>1, <3>1
    <3>2. ASSUME NEW g \in code, g.opens, g.readable
          PROVE  \E r \in ToSet(range_list) : opened'[r.object] = g
      <4>1. PICK r \in ToSet(range_list) : opened[r.object] = g
        BY <1>1, <3>2 DEF Managed, RangesAreComplete
      <4> QED BY <2>2, <2>7, <4>1 DEF OpenedGrows
    <3> QED BY <1>1, <3>1, <3>2 DEF RangesAreComplete
  <2> QED BY <1>1, <2>5, <2>6, <2>8, <2>9 DEF Managed, Sorted
<1> QED BY <1>2, <1>3

LEMMA ManagedAddRange ==
  ASSUME TypeOK, Managed, add_range
  PROVE  Managed'
<1> DEFINE r == [low |-> arg.low, high |-> arg.high, start |-> arg.start, object |-> Len(opened)]
<1>1. /\ updating = "add" /\ updating' = "idle"
      /\ UNCHANGED <<opened, objects, code>>
      /\ range_list' = InsertAt(range_list, upper_bound(range_list, r.low), r)
  BY DEF add_range
<1>2. /\ arg \in code /\ arg \in Files /\ arg.opens /\ arg.readable
      /\ Len(opened) \in DOMAIN opened /\ Len(opened) \in Nat /\ arg = opened[Len(opened)]
      /\ [start |-> arg.start, object |-> Len(opened)] \in ToSet(objects)
  BY <1>1 DEF Managed, CallIsUnderWay, TypeOK
<1>3. r \in RangeType
  BY <1>2, FileTypes DEF RangeType
<1>4. /\ r.low = arg.low /\ r.high = arg.high /\ r.start = arg.start /\ r.object = Len(opened)
  OBVIOUS
<1> HIDE DEF r
<1>5. Sorted(range_list') /\ ToSet(range_list') = ToSet(range_list) \cup {r}
  BY <1>1, <1>3, InsertKeepsOrder DEF Managed, TypeOK
<1>6. ASSUME NEW x \in ToSet(range_list') PROVE IsRange(x) /\ HasObject(x)
  <2>1. CASE x = r
    BY <1>2, <1>4, <2>1 DEF IsRange, HasObject
  <2>2. CASE x \in ToSet(range_list)
    BY <1>1, <2>2 DEF Managed, RangesAreOfObjects
  <2> QED BY <1>5, <2>1, <2>2
<1>7. RangesAreOfObjects'
  BY <1>1, <1>6 DEF RangesAreOfObjects, IsRange, HasObject
<1>8. RangesAreComplete'
  <2>1. ASSUME NEW f \in code, f.opens, f.readable
        PROVE  \E x \in ToSet(range_list') : opened[x.object] = f
    <3>1. CASE f = arg
      BY <1>2, <1>4, <1>5, <3>1
    <3>2. CASE f # arg
      BY <1>5, <2>1, <3>2 DEF Managed, RangesAreComplete
    <3> QED BY <3>1, <3>2
  <2> QED BY <1>1, <2>1 DEF RangesAreComplete
<1>9. ObjectsAreCode' /\ CallIsUnderWay'
  BY <1>1 DEF Managed, ObjectsAreCode, CallIsUnderWay
<1>10. Sorted(range_list)'
  BY <1>5 DEF Sorted
<1> QED BY <1>7, <1>8, <1>9, <1>10 DEF Managed

LEMMA ManagedUnregister ==
  ASSUME TypeOK, Managed, NEW start, unregister_jit_object(start)
  PROVE  Managed'
<1>1. /\ updating = "idle" /\ updating' = "remove" /\ arg' = start
      /\ UNCHANGED <<opened, range_list>>
      /\ code' = {f \in code : f.start # start}
  BY DEF unregister_jit_object
<1>2. ToSet(objects') = {o \in ToSet(objects) : o.start # start}
  <2>1. objects' = Filter(objects, {o \in ToSet(objects) : o.start # start})
    BY DEF unregister_jit_object
  <2>2. ToSet(objects') = ToSet(objects) \cap {o \in ToSet(objects) : o.start # start}
    BY <2>1, SetOfFilter DEF TypeOK
  <2> QED BY <2>2
<1>3. ObjectsAreCode' /\ CallIsUnderWay'
  BY <1>1, <1>2 DEF Managed, ObjectsAreCode, CallIsUnderWay
<1>4. RangesAreOfObjects'
  <2>1. ASSUME NEW r \in ToSet(range_list) PROVE IsRange(r)' /\ (r.start # start => HasObject(r)')
    BY <1>1, <1>2 DEF Managed, RangesAreOfObjects, IsRange, HasObject
  <2> QED BY <1>1, <2>1 DEF RangesAreOfObjects
<1>5. RangesAreComplete'
  BY <1>1 DEF Managed, RangesAreComplete
<1> QED BY <1>1, <1>3, <1>4, <1>5 DEF Managed, Sorted

LEMMA ManagedRemove ==
  ASSUME TypeOK, Managed, remove_ranges
  PROVE  Managed'
<1> DEFINE S == {r \in ToSet(range_list) : r.start # arg}
<1>1. /\ updating = "remove" /\ updating' = "idle"
      /\ UNCHANGED <<opened, objects, code>>
      /\ range_list' = Filter(range_list, S)
  BY DEF remove_ranges
<1>2. ToSet(range_list') = {r \in ToSet(range_list) : r.start # arg}
  <2>1. ToSet(range_list') = ToSet(range_list) \cap S
    BY <1>1, SetOfFilter DEF TypeOK
  <2> QED BY <2>1
<1>3. Sorted(range_list')
  BY <1>1, FilterKeepsOrder DEF Managed, TypeOK
<1> HIDE DEF S
<1>4. ASSUME NEW r \in ToSet(range_list') PROVE IsRange(r) /\ HasObject(r)
  BY <1>1, <1>2 DEF Managed, RangesAreOfObjects
<1>5. RangesAreOfObjects'
  BY <1>1, <1>4 DEF RangesAreOfObjects, IsRange, HasObject
<1>6. RangesAreComplete'
  <2>1. ASSUME NEW f \in code, f.opens, f.readable
        PROVE  \E x \in ToSet(range_list') : opened[x.object] = f
    <3>1. PICK x \in ToSet(range_list) : opened[x.object] = f
      BY <1>1, <2>1 DEF Managed, RangesAreComplete
    <3>2. x.start = f.start
      BY <3>1 DEF Managed, RangesAreOfObjects, IsRange
    <3>3. f.start # arg
      BY <1>1 DEF Managed, CallIsUnderWay
    <3> QED BY <1>2, <3>1, <3>2, <3>3
  <2> QED BY <1>1, <2>1 DEF RangesAreComplete
<1>7. ObjectsAreCode' /\ CallIsUnderWay'
  BY <1>1 DEF Managed, ObjectsAreCode, CallIsUnderWay
<1>8. Sorted(range_list)'
  BY <1>3 DEF Sorted
<1> QED BY <1>5, <1>6, <1>7, <1>8 DEF Managed

LEMMA ManagedClear ==
  ASSUME Managed, (\E list : clear_all_jit_objects(list)) \/ clear_ranges
  PROVE  Managed'
<1>0. ToSet(<<>>) = {} /\ DOMAIN <<>> = {}
  BY DEF ToSet
<1>1. CASE \E list : clear_all_jit_objects(list)
  <2>1. /\ objects' = <<>> /\ code' = {} /\ updating' = "clear"
        /\ UNCHANGED <<opened, range_list>>
    BY <1>1 DEF clear_all_jit_objects
  <2>2. ObjectsAreCode' /\ CallIsUnderWay' /\ RangesAreComplete'
    BY <1>0, <2>1 DEF ObjectsAreCode, CallIsUnderWay, RangesAreComplete
  <2>3. RangesAreOfObjects' /\ Sorted(range_list)'
    BY <2>1 DEF Managed, RangesAreOfObjects, IsRange, Sorted
  <2> QED BY <2>2, <2>3 DEF Managed
<1>2. CASE clear_ranges
  <2>1. /\ updating = "clear" /\ range_list' = <<>> /\ updating' = "idle"
        /\ UNCHANGED <<opened, objects, code>>
    BY <1>2 DEF clear_ranges
  <2>2. ObjectsAreCode' /\ CallIsUnderWay'
    BY <2>1 DEF Managed, ObjectsAreCode, CallIsUnderWay
  <2>3. RangesAreComplete' /\ RangesAreOfObjects' /\ Sorted(range_list)'
    BY <1>0, <2>1 DEF Managed, CallIsUnderWay, RangesAreComplete, RangesAreOfObjects, Sorted
  <2> QED BY <2>2, <2>3 DEF Managed
<1> QED BY <1>1, <1>2

LEMMA ManagedStep == TypeOK /\ Managed /\ [Next]_vars => Managed'
<1> SUFFICES ASSUME TypeOK, Managed, [Next]_vars PROVE Managed'
  OBVIOUS
<1>1. CASE register_jit_object
  BY <1>1, ManagedAdd DEF register_jit_object
<1>2. CASE register_next
  <2>1. Head(todo) \in Files
    BY <1>2 DEF register_next, TypeOK
  <2> QED BY <1>2, <2>1, ManagedAdd DEF register_next
<1>3. CASE (\E p \in Pcs : lookup(p)) \/ resolve_symbol \/ return \/ UNCHANGED vars
  <2>1. UNCHANGED managed
    BY <1>3 DEF lookup, resolve_symbol, return, vars, manager, updater, managed
  <2> QED BY <2>1, ManagedUnchanged
<1>4. CASE \/ clear_all_jit_objects(<<>>) \/ register_jit_objects_from_gdb_jit_interface
           \/ clear_ranges
  BY <1>4, ManagedClear DEF register_jit_objects_from_gdb_jit_interface
<1> QED BY <1>1, <1>2, <1>3, <1>4, ManagedAddRange, ManagedUnregister, ManagedRemove DEF Next

-----------------------------------------------------------------------------
Usable(f, p) == f.opens /\ f.readable /\ f.low <= p /\ p < f.high

\* Between two calls a range is that of a file in use.
LEMMA RangeOfCode ==
  ASSUME TypeOK, Managed, updating = "idle", NEW r \in ToSet(range_list)
  PROVE  /\ opened[r.object] \in code /\ opened[r.object] \in Files
         /\ opened[r.object].opens /\ opened[r.object].readable
         /\ r.low = opened[r.object].low /\ r.high = opened[r.object].high
<1>1. IsRange(r) /\ HasObject(r)
  BY DEF Managed, RangesAreOfObjects
<1>2. opened[r.object] \in code
  <2>1. PICK o : o = [start |-> r.start, object |-> r.object]
    OBVIOUS
  <2>2. o.object = r.object /\ o \in ToSet(objects)
    BY <1>1, <2>1 DEF HasObject
  <2> QED BY <2>2 DEF Managed, ObjectsAreCode
<1> QED BY <1>1, <1>2 DEF IsRange, TypeOK

\* An address is in the code of one file.
LEMMA UsableIsUnique ==
  ASSUME TypeOK, CodeIsApart, NEW p \in Nat, NEW f \in code, NEW g \in code,
         Usable(f, p), Usable(g, p)
  PROVE  f = g
<1>1. f.low \in Nat /\ f.high \in Nat /\ g.low \in Nat /\ g.high \in Nat
  BY FileTypes DEF TypeOK
<1> QED BY <1>1 DEF CodeIsApart, Apart, Usable

\* lookup finds the range that an address is in, if there is one.
LEMMA LookupFinds ==
  ASSUME TypeOK, Managed, updating = "idle", NEW p \in Nat, NEW m, IsBound(range_list, p, m)
  PROVE  /\ m > 0 /\ p < range_list[m].high
              => range_list[m] \in ToSet(range_list) /\ range_list[m].low <= p
         /\ OrdinaryFiles /\ CodeIsApart /\ ~(m > 0 /\ p < range_list[m].high)
              => \A f \in code : ~Usable(f, p)
<1>0. /\ Len(range_list) \in Nat /\ DOMAIN range_list = 1 .. Len(range_list)
      /\ \A i \in 1 .. Len(range_list) : range_list[i].low \in Nat
  BY RangeTypes DEF TypeOK
<1>1. /\ m \in 0 .. Len(range_list)
      /\ \A i \in 1 .. m : range_list[i].low <= p
      /\ \A i \in m + 1 .. Len(range_list) : p < range_list[i].low
  BY DEF IsBound
<1>2. ASSUME m > 0
      PROVE  m \in 1 .. Len(range_list) /\ range_list[m] \in ToSet(range_list) /\ range_list[m].low <= p
  <2>1. m \in 1 .. Len(range_list) /\ m \in 1 .. m
    BY <1>0, <1>1, <1>2
  <2> QED BY <1>0, <1>1, <2>1 DEF ToSet
<1>3. ASSUME OrdinaryFiles, CodeIsApart, ~(m > 0 /\ p < range_list[m].high),
             NEW f \in code, Usable(f, p)
      PROVE  FALSE
  <2>1. PICK r \in ToSet(range_list) : opened[r.object] = f
    BY <1>3 DEF Managed, RangesAreComplete, Usable
  <2>2. r.low = f.low
    BY <2>1, RangeOfCode
  <2>3. PICK j \in 1 .. Len(range_list) : range_list[j] = r
    BY <1>0 DEF ToSet
  <2>4. f \in Files /\ f.low \in Nat /\ f.high \in Nat /\ f.low <= p /\ p < f.high
    BY <1>3, FileTypes DEF TypeOK, Usable
  <2>5. j <= m
    <3>1. CASE j > m
      <4>1. j \in m + 1 .. Len(range_list)
        BY <1>0, <1>1, <3>1
      <4>2. p < f.low
        BY <1>1, <2>2, <2>3, <4>1
      <4> QED BY <2>4, <4>2
    <3> QED BY <1>1, <3>1
  <2>6. m > 0
    BY <1>1, <2>5
  <2>7. f.low <= range_list[m].low
    <3>1. j < m \/ j = m
      BY <1>1, <2>5
    <3>2. range_list[j].low <= range_list[m].low
      BY <1>0, <1>2, <2>6, <3>1 DEF Managed, Sorted
    <3> QED BY <2>2, <2>3, <3>2
  <2>8. PICK g \in Files : /\ g \in code /\ g = opened[range_list[m].object]
                           /\ range_list[m].low = g.low /\ range_list[m].high = g.high
    BY <1>2, <2>6, RangeOfCode
  <2>9. g.low \in Nat /\ g.high \in Nat /\ g.low < g.high
    BY <1>3, FileTypes DEF OrdinaryFiles
  <2>10. g.high <= p /\ g.low <= p /\ f.low <= g.low
    BY <1>2, <1>3, <2>6, <2>7, <2>8, <2>9
  <2>11. f # g
    BY <2>4, <2>9, <2>10
  <2>12. f.high <= g.low \/ g.high <= f.low
    BY <1>3, <2>8, <2>11 DEF CodeIsApart, Apart
  <2> QED BY <2>4, <2>9, <2>10, <2>12
<1> QED BY <1>2, <1>3

\* lookup_symbol finds the function an address is in; or none, or one the address
\* is right behind.
LEMMA SymbolFound ==
  ASSUME OrdinaryFiles, NEW f \in Files, NEW p \in Nat, f.low <= p
  PROVE  /\ lookup_symbol(f, p - f.low) = {} => \A g \in f.functions : ~Holds(f, g, p)
         /\ \A g \in lookup_symbol(f, p - f.low) :
              /\ g \in f.functions
              /\ \/ Holds(f, g, p)
                 \/ p = f.low + g.at + g.size /\ \A h \in f.functions : ~Holds(f, h, p)
<1>1. PICK x : x = p - f.low
  OBVIOUS
<1>2. f.low \in Nat /\ x \in Nat /\ p = f.low + x
  BY <1>1, FileTypes
<1>3. \A g \in f.functions : g.at \in Nat /\ g.size \in Nat
  BY FileTypes
<1>4. \A g \in f.functions : Holds(f, g, p) <=> g.at <= x /\ x < g.at + g.size
  BY <1>2, <1>3 DEF Holds
<1>5. \A g, h \in f.functions :
        g # h => g.at # h.at /\ (g.at + g.size <= h.at \/ h.at + h.size <= g.at)
  BY DEF OrdinaryFiles
<1>6. \A g : g \in lookup_symbol(f, x) <=>
               /\ g \in f.functions /\ g.at <= x /\ x <= g.at + g.size
               /\ \A h \in f.functions : h.at <= x => h.at <= g.at
  BY DEF lookup_symbol
<1>7. ASSUME NEW g \in f.functions, Holds(f, g, p) PROVE g \in lookup_symbol(f, x)
  <2>1. g.at <= x /\ x < g.at + g.size
    BY <1>4, <1>7
  <2>2. ASSUME NEW h \in f.functions, h.at <= x PROVE h.at <= g.at
    <3>1. CASE h = g
      BY <1>3, <3>1
    <3>2. CASE h # g
      <4>1. g.at + g.size <= h.at \/ h.at + h.size <= g.at
        BY <1>5, <3>2
      <4> QED BY <1>2, <1>3, <2>1, <2>2, <4>1
    <3> QED BY <3>1, <3>2
  <2>3. x <= g.at + g.size
    BY <1>2, <1>3, <2>1
  <2> QED BY <1>6, <2>1, <2>2, <2>3
<1>8. ASSUME NEW g \in lookup_symbol(f, x), ~Holds(f, g, p)
      PROVE  p = f.low + g.at + g.size /\ \A h \in f.functions : ~Holds(f, h, p)
  <2>1. g \in f.functions /\ g.at <= x /\ x <= g.at + g.size
    BY <1>6
  <2>2. x = g.at + g.size
    BY <1>2, <1>3, <1>4, <1>8, <2>1
  <2>3. ASSUME NEW h \in f.functions, Holds(f, h, p) PROVE FALSE
    <3>1. h.at <= x /\ x < h.at + h.size /\ h.at <= g.at
      BY <1>4, <1>6, <2>3
    <3>2. h # g
      BY <1>8, <2>3
    <3>3. h.at # g.at /\ (g.at + g.size <= h.at \/ h.at + h.size <= g.at)
      BY <1>5, <2>1, <3>2
    <3> QED BY <1>2, <1>3, <2>1, <2>2, <3>1, <3>3
  <2> QED BY <1>2, <1>3, <2>1, <2>2, <2>3
<1>9. \A g \in lookup_symbol(f, x) : g \in f.functions
  BY <1>6
<1> HIDE DEF lookup_symbol
<1> QED BY <1>1, <1>7, <1>8, <1>9

-----------------------------------------------------------------------------
LEMMA ReaderLookup ==
  ASSUME TypeOK, CodeIsApart, Managed, ~Concurrent, NEW p \in Pcs, lookup(p)
  PROVE  ReaderIsAlone' /\ AnswerIsRight'
<1>1. /\ updating = "idle" /\ todo = <<>> /\ p \in Nat /\ pc' = p
      /\ UNCHANGED <<opened, range_list, code, updating, todo>>
  BY JitAssumption DEF lookup, ReaderMayRun, manager, updater
<1>2. PICK m : IsBound(range_list, p, m)
  BY <1>1, UpperBound DEF TypeOK, Managed
<1>3. upper_bound(range_list, p) - 1 = m
  <2>1. m \in Int /\ upper_bound(range_list, p) = m + 1
    BY <1>2 DEF IsBound
  <2> QED BY <2>1
<1>4. CASE m > 0 /\ p < range_list[m].high
  <2>1. /\ reading' = "found"
        /\ found' = [object |-> range_list[m].object, base |-> range_list[m].low]
    BY <1>3, <1>4 DEF lookup
  <2>2. range_list[m] \in ToSet(range_list) /\ range_list[m].low <= p
    BY <1>1, <1>2, <1>4, LookupFinds
  <2> QED BY <1>1, <1>4, <2>1, <2>2 DEF ReaderIsAlone, AnswerIsRight, SymbolIsRight
<1>5. CASE ~(m > 0 /\ p < range_list[m].high)
  <2>1. reading' = "answered" /\ answer' = None
    BY <1>3, <1>5 DEF lookup
  <2>2. OrdinaryFiles => \A f \in code : ~Usable(f, p)
    BY <1>1, <1>2, <1>5, LookupFinds
  <2>3. AnswerIsRight'
    BY <1>1, <2>1, <2>2 DEF AnswerIsRight, SymbolIsRight, Usable
  <2> QED BY <1>1, <2>1, <2>3 DEF ReaderIsAlone
<1> QED BY <1>4, <1>5

LEMMA ReaderResolve ==
  ASSUME TypeOK, CodeIsApart, Managed, ReaderIsAlone, ~Concurrent, resolve_symbol
  PROVE  ReaderIsAlone' /\ AnswerIsRight'
<1>1. /\ reading = "found" /\ reading' = "answered" /\ updating = "idle" /\ todo = <<>>
      /\ UNCHANGED <<updating, todo, code, pc>> /\ pc \in Nat
  BY DEF resolve_symbol, ReaderIsAlone, updater, TypeOK
<1>2. PICK r \in ToSet(range_list) :
        /\ found = [object |-> r.object, base |-> r.low] /\ r.low <= pc /\ pc < r.high
  BY <1>1 DEF ReaderIsAlone
<1>3. PICK f : f = opened[r.object]
  OBVIOUS
<1>4. f \in code /\ f \in Files /\ f.opens /\ f.readable /\ r.low = f.low /\ r.high = f.high
  BY <1>1, <1>3, RangeOfCode
<1>5. PICK functions : functions = lookup_symbol(f, pc - f.low)
  OBVIOUS
<1>6. answer' \in IF functions = {} THEN {None}
                  ELSE {[start |-> f.start, at |-> function.at] : function \in functions}
  <2>1. found.object = r.object /\ found.base = f.low
    BY <1>2, <1>4
  <2> QED BY <1>3, <1>5, <2>1 DEF resolve_symbol
<1>7. Usable(f, pc) /\ f.low <= pc
  BY <1>2, <1>4 DEF Usable
<1>8. ASSUME OrdinaryFiles PROVE SymbolIsRight'
  <2>1. /\ functions = {} => \A g \in f.functions : ~Holds(f, g, pc)
        /\ \A g \in functions :
             /\ g \in f.functions
             /\ \/ Holds(f, g, pc)
                \/ pc = f.low + g.at + g.size /\ \A h \in f.functions : ~Holds(f, h, pc)
    BY <1>1, <1>4, <1>5, <1>7, <1>8, SymbolFound
  <2>2. \A g \in code : Usable(g, pc) => g = f
    BY <1>1, <1>4, <1>7, UsableIsUnique
  <2>3. PICK usable : usable = {g \in code : g.opens /\ g.readable /\ g.low <= pc /\ pc < g.high}
    OBVIOUS
  <2>4. f \in usable /\ \A g \in usable : g = f
    BY <1>4, <1>7, <2>2, <2>3 DEF Usable
  <2>5. CASE functions = {}
    <3>1. answer' = None
      BY <1>6, <2>5
    <3> HIDE DEF Holds
    <3> QED BY <1>1, <2>1, <2>3, <2>4, <2>5, <3>1 DEF SymbolIsRight
  <2>6. CASE functions # {}
    <3>1. PICK g \in functions : answer' = [start |-> f.start, at |-> g.at]
      BY <1>6, <2>6
    <3>2. answer' # None
      <4>1. answer' \in [start : Nat, at : Nat]
        BY <1>4, <2>1, <3>1, FileTypes
      <4> QED BY <4>1, JitAssumption
    <3> HIDE DEF Holds
    <3>3. \E x \in usable : \E function \in x.functions :
            /\ answer' = [start |-> x.start, at |-> function.at]
            /\ \/ Holds(x, function, pc)
               \/ /\ pc = x.low + function.at + function.size
                  /\ \A other \in x.functions : ~Holds(x, other, pc)
      BY <2>1, <2>4, <3>1
    <3> QED BY <1>1, <2>3, <3>2, <3>3 DEF SymbolIsRight
  <2> QED BY <2>5, <2>6
<1> QED BY <1>1, <1>8 DEF ReaderIsAlone, AnswerIsRight

\* While the resolver is at work the JIT compiler is not, if they are one thread.
LEMMA ReaderStep ==
  TypeOK /\ CodeIsApart /\ Managed /\ ReaderIsAlone /\ AnswerIsRight /\ [Next]_vars
  => ReaderIsAlone' /\ AnswerIsRight'
<1> SUFFICES ASSUME TypeOK, CodeIsApart, Managed, ReaderIsAlone, AnswerIsRight, [Next]_vars
             PROVE  ReaderIsAlone' /\ AnswerIsRight'
  OBVIOUS
<1>1. CASE Concurrent
  BY <1>1 DEF ReaderIsAlone, AnswerIsRight
<1>2. CASE ~Concurrent
  <2>1. ASSUME reading' = "idle" PROVE ReaderIsAlone' /\ AnswerIsRight'
    BY <2>1 DEF ReaderIsAlone, AnswerIsRight, SymbolIsRight
  <2>2. ASSUME NEW f, add_jit_object(f) PROVE reading' = "idle"
    BY <1>2, <2>2 DEF add_jit_object, UpdaterMayRun, reader
  <2>3. ASSUME NEW list, clear_all_jit_objects(list) PROVE reading' = "idle"
    BY <1>2, <2>3 DEF clear_all_jit_objects, UpdaterMayRun, reader
  <2>4. ASSUME NEW start, unregister_jit_object(start) PROVE reading' = "idle"
    BY <1>2, <2>4 DEF unregister_jit_object, UpdaterMayRun, reader
  <2>5. CASE register_jit_object \/ register_next
    BY <2>1, <2>2, <2>5 DEF register_jit_object, register_next
  <2>6. CASE clear_all_jit_objects(<<>>) \/ register_jit_objects_from_gdb_jit_interface
    BY <2>1, <2>3, <2>6 DEF register_jit_objects_from_gdb_jit_interface
  <2>7. CASE add_range \/ remove_ranges \/ clear_ranges
    BY <1>2, <2>1, <2>7 DEF add_range, remove_ranges, clear_ranges, UpdaterMayRun, reader
  <2>8. CASE return
    BY <2>1, <2>8 DEF return
  <2>9. CASE UNCHANGED vars
    BY <2>9 DEF vars, manager, updater, reader, ReaderIsAlone, AnswerIsRight, SymbolIsRight,
                ReaderMayRun
  <2> QED BY <1>2, <2>1, <2>4, <2>5, <2>6, <2>7, <2>8, <2>9, ReaderLookup, ReaderResolve DEF Next
<1> QED BY <1>1, <1>2

LEMMA NextInv == Inv /\ [Next]_vars => Inv'
<1> SUFFICES ASSUME Inv, [Next]_vars PROVE Inv'
  OBVIOUS
<1>1. Managed
  BY DEF Inv, Managed
<1>2. TypeOK' /\ CodeIsApart' /\ Managed' /\ ReaderIsAlone' /\ AnswerIsRight'
  BY <1>1, TypeStep, CodeStep, ManagedStep, ReaderStep DEF Inv
<1> QED BY <1>2 DEF Inv, Managed

\* The invariant, for all files and every order of calls, concurrent ones too.
THEOREM Invariance == Spec => []Inv
<1> QED BY InitInv, NextInv, PTL DEF Spec

-----------------------------------------------------------------------------
\* add_jit_object, remove_jit_object and clear_all_jit_objects, in any order and
\* on any files: the list of ranges is sorted at all times, and between two calls
\* each range belongs to an object of the vector.  A lookup may run at any time.
THEOREM ListTellsOfObjects == Spec => []RangesHaveObjects
<1>1. ASSUME Inv PROVE RangesHaveObjects
  <2>1. \A i, j \in DOMAIN range_list : i < j => range_list[i].low <= range_list[j].low
    BY <1>1 DEF Inv, Sorted
  <2>2. ASSUME updating = "idle", NEW i \in DOMAIN range_list
        PROVE  [start |-> range_list[i].start, object |-> range_list[i].object] \in ToSet(objects)
    <3>1. range_list[i] \in ToSet(range_list)
      BY DEF ToSet
    <3> QED BY <1>1, <2>2, <3>1 DEF Inv, RangesAreOfObjects, HasObject
  <2> QED BY <2>1, <2>2 DEF RangesHaveObjects
<1> QED BY <1>1, Invariance, PTL

\* try_resolve_jit_frame, for ordinary files and one thread: after any history of
\* registering and unregistering, an address in a function of a registered file is
\* resolved to it, and any other to none or to the function it is right behind.
THEOREM SymbolsAreRight == ~Concurrent /\ OrdinaryFiles => (Spec => []SymbolIsRight)
<1> SUFFICES ASSUME ~Concurrent, OrdinaryFiles PROVE Spec => []SymbolIsRight
  OBVIOUS
<1>1. Inv => SymbolIsRight
  BY DEF Inv, AnswerIsRight
<1> QED BY <1>1, Invariance, PTL
=============================================================================
