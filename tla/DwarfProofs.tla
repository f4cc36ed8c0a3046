---------------------------- MODULE DwarfProofs ----------------------------
(***************************************************************************)
(* The DWARF resolver and the cache its line tables are kept in.           *)
(*                                                                         *)
(* The cache keeps its list and its map in step, stays within its limit,   *)
(* never evicts the entry it returns and is a cache of the entries used    *)
(* last, for every set of keys, values, nodes and sizes.                   *)
(*                                                                         *)
(* The resolver gives an address the CU, the row and the function that the *)
(* debugging information has for it, whatever it has cached, for all       *)
(* debugging information in which ranges of different CUs, and of          *)
(* different functions of a CU, have no address in common.                 *)
(***************************************************************************)
EXTENDS LruCache, DwarfResolver, SequenceLemmas, FunctionTheorems


\* Moving a listed node to the front of a list (std::list::splice) keeps the
\* list's length and its nodes, links each once, and puts the node first.
LEMMA TouchLemma ==
  ASSUME NEW l \in Seq(Nodes), Linked(l), NEW n \in Nodes, In(n, l)
  PROVE  /\ touch(n, l) \in Seq(Nodes)
         /\ Len(touch(n, l)) = Len(l)
         /\ Len(l) > 0
         /\ touch(n, l)[1] = n
         /\ Linked(touch(n, l))
         /\ \A x \in Nodes : In(x, touch(n, l)) <=> In(x, l)
<1> DEFINE p == Position(n, l)
           t == touch(n, l)
<1>1. /\ Len(l) \in Nat
      /\ DOMAIN l = 1 .. Len(l)
      /\ \A i \in 1 .. Len(l) : l[i] \in Nodes
  BY LenProperties, ElementOfSeq
<1>2. p \in 1 .. Len(l) /\ l[p] = n
  BY <1>1 DEF Position, In
<1>3. t = [i \in 1 .. Len(l) |-> IF i = 1 THEN n ELSE IF i <= p THEN l[i - 1] ELSE l[i]]
  BY <1>1 DEF touch
<1>4. t \in [1 .. Len(l) -> Nodes]
  BY <1>1, <1>2, <1>3
<1>5. t \in Seq(Nodes) /\ Len(t) = Len(l)
  BY <1>1, <1>4
<1>6. DOMAIN t = 1 .. Len(l)
  BY <1>4
<1>7. Len(l) > 0 /\ t[1] = n
  BY <1>1, <1>2, <1>3
<1>8. Linked(t)
  BY <1>1, <1>2, <1>3, <1>6 DEF Linked
<1>9. ASSUME NEW x \in Nodes PROVE In(x, t) <=> In(x, l)
  <2>1. ASSUME NEW i \in 1 .. Len(l), t[i] = x PROVE In(x, l)
    BY <1>1, <1>2, <1>3, <2>1 DEF In
  <2>2. ASSUME NEW i \in 1 .. Len(l), l[i] = x PROVE In(x, t)
    <3>1. CASE i = p   BY <1>1, <1>2, <1>6, <1>7, <2>2, <3>1 DEF In
    <3>2. CASE i < p
      <4>1. i + 1 \in 1 .. Len(l) /\ t[i + 1] = x
        BY <1>1, <1>2, <1>3, <2>2, <3>2
      <4> QED BY <4>1, <1>6 DEF In
    <3>3. CASE i > p   BY <1>1, <1>2, <1>3, <1>6, <2>2, <3>3 DEF In
    <3> QED BY <1>1, <1>2, <3>1, <3>2, <3>3
  <2> QED BY <2>1, <2>2, <1>1, <1>6 DEF In
<1> QED BY <1>5, <1>7, <1>8, <1>9

\* maybe_trim keeps list, nodes and map describing one set of entries, brings
\* the list within the limit, and leaves the front where it is.
LEMMA TrimLemma ==
  ASSUME NEW l \in Seq(Nodes), NEW c \in [Nodes -> Entries \cup {Absent}],
         NEW m \in [Keys -> Nodes \cup {Absent}], OneSetOfEntries(l, c, m),
         NEW limit \in (Sizes \ {0}) \cup {Unbounded},
         maybe_trim(l, c, m, limit)
  PROVE  /\ lru' \in Seq(Nodes)
         /\ node' \in [Nodes -> Entries \cup {Absent}]
         /\ map' \in [Keys -> Nodes \cup {Absent}]
         /\ OneSetOfEntries(lru', node', map')
         /\ limit # Unbounded => Len(lru') <= limit
         /\ Len(l) > 0 => Len(lru') > 0 /\ lru'[1] = l[1]
<1> DEFINE removed == {l[i] : i \in Overflow(l, limit)}
           keys == {c[n].key : n \in removed}
<1>1. /\ Len(l) \in Nat
      /\ DOMAIN l = 1 .. Len(l)
      /\ \A i \in 1 .. Len(l) : l[i] \in Nodes
  BY LenProperties, ElementOfSeq
<1>2. /\ lru' = IF removed = {} THEN l ELSE SubSeq(l, 1, limit)
      /\ node' = [n \in Nodes |-> IF n \in removed THEN Absent ELSE c[n]]
      /\ map' = [k \in Keys |-> IF k \in keys THEN Absent ELSE m[k]]
  BY DEF maybe_trim
<1>3. limit = Unbounded \/ limit \in Nat \ {0}
  BY CacheAssumption
<1>4. /\ node' \in [Nodes -> Entries \cup {Absent}]
      /\ map' \in [Keys -> Nodes \cup {Absent}]
  BY <1>2
<1>5. CASE limit = Unbounded \/ Len(l) <= limit
  <2>1. Overflow(l, limit) = {}
    BY <1>1, <1>3, <1>5 DEF Overflow
  <2>2. removed = {} /\ keys = {}
    BY <2>1
  <2>3. lru' = l /\ node' = c /\ map' = m
    BY <1>2, <2>2
  <2> QED BY <1>1, <1>4, <1>5, <2>3
<1>6. CASE limit # Unbounded /\ limit < Len(l)
  <2>1. /\ limit \in Nat \ {0}
        /\ Overflow(l, limit) = limit + 1 .. Len(l)
    BY <1>3, <1>6 DEF Overflow
  <2>2. Len(l) \in Overflow(l, limit)
    BY <1>1, <1>6, <2>1
  <2>3. lru' = SubSeq(l, 1, limit)
    BY <1>2, <2>2
  <2>4. /\ lru' \in Seq(Nodes)
        /\ Len(lru') = limit
        /\ \A i \in 1 .. limit : lru'[i] = l[i]
    <3>1. \A i \in 1 .. limit : l[i] \in Nodes
      BY <1>1, <1>6, <2>1
    <3>2. /\ SubSeq(l, 1, limit) \in Seq(Nodes)
          /\ Len(SubSeq(l, 1, limit)) = IF 1 <= limit THEN limit - 1 + 1 ELSE 0
          /\ \A i \in 1 .. limit - 1 + 1 : SubSeq(l, 1, limit)[i] = l[1 + i - 1]
      BY <3>1, <2>1, SubSeqProperties
    <3> QED BY <3>2, <2>1, <2>3
  <2>5. DOMAIN lru' = 1 .. limit
    BY <2>4, LenProperties
  <2>6. \A n \in Nodes : In(n, lru') <=> In(n, l) /\ n \notin removed
    BY <1>1, <1>6, <2>1, <2>4, <2>5, SMTT(30) DEF In, OneSetOfEntries, Linked
  <2>7. \A n \in removed : n \in Nodes /\ In(n, l)
    BY <1>1, <2>1 DEF In
  <2>8. \A n \in Nodes : In(n, l) => (n \in removed <=> c[n].key \in keys)
    <3> SUFFICES ASSUME NEW n \in Nodes, In(n, l), c[n].key \in keys
                 PROVE  n \in removed
      OBVIOUS
    <3>1. PICK o \in removed : c[n].key = c[o].key
      OBVIOUS
    <3>2. m[c[n].key] = n /\ m[c[o].key] = o
      BY <2>7 DEF OneSetOfEntries, ListToMap
    <3> QED BY <3>1, <3>2
  <2>9. Linked(lru')
    BY <1>1, <1>6, <2>1, <2>4, <2>5 DEF OneSetOfEntries, Linked
  <2>10. MapToList(lru', node', map')
    <3> SUFFICES ASSUME NEW k \in Keys, map'[k] # Absent
                 PROVE  In(map'[k], lru') /\ node'[map'[k]] # Absent /\ node'[map'[k]].key = k
      BY DEF MapToList
    <3>1. k \notin keys /\ map'[k] = m[k] /\ m[k] \in Nodes
      BY <1>2, <1>4
    <3>2. In(m[k], l) /\ c[m[k]] # Absent /\ c[m[k]].key = k
      BY <3>1 DEF OneSetOfEntries, MapToList
    <3>3. m[k] \notin removed
      BY <2>8, <3>1, <3>2
    <3> QED BY <1>2, <2>6, <3>1, <3>2, <3>3
  <2>11. ListToMap(lru', node', map')
    <3> SUFFICES ASSUME NEW n \in Nodes
                 PROVE  /\ node'[n] # Absent => In(n, lru') /\ map'[node'[n].key] = n
                        /\ In(n, lru') => node'[n] # Absent
      BY DEF ListToMap
    <3>1. CASE n \in removed
      BY <1>2, <2>6, <3>1
    <3>2. CASE n \notin removed
      <4>1. node'[n] = c[n]
        BY <1>2, <3>2
      <4>2. /\ c[n] # Absent => In(n, l) /\ m[c[n].key] = n
            /\ In(n, l) => c[n] # Absent
        BY DEF OneSetOfEntries, ListToMap
      <4>3. c[n] # Absent => c[n].key \in Keys \ keys
        BY <2>8, <3>2, <4>2 DEF Entries
      <4> QED BY <1>2, <2>6, <3>2, <4>1, <4>2, <4>3
    <3> QED BY <3>1, <3>2
  <2> QED
    BY <1>1, <1>4, <1>6, <2>1, <2>4, <2>9, <2>10, <2>11 DEF OneSetOfEntries
<1> QED BY <1>1, <1>3, <1>5, <1>6

-----------------------------------------------------------------------------
\* The invariant holds of an empty cache.
LEMMA InitInv == Init => Inv
<1> SUFFICES ASSUME Init PROVE Inv
  OBVIOUS
<1>1. lru = <<>> /\ Len(lru) = 0 /\ DOMAIN lru = {} /\ lru \in Seq(Nodes)
  BY EmptySeq DEF Init
<1>2. TypeOK
  BY <1>1, CacheAssumption DEF Init, TypeOK, ValidSize
<1>3. Consistent
  BY <1>1 DEF Init, Consistent, OneSetOfEntries, Linked, MapToList, ListToMap, In
<1>4. Bounded /\ ReturnedEntryIsNewest
  BY <1>1, <1>2, CacheAssumption DEF Init, Bounded, ReturnedEntryIsNewest, TypeOK
<1> QED BY <1>2, <1>3, <1>4 DEF Inv

\* An allocation at the front: the list and the map still describe one set
\* of entries before the trim that follows.
LEMMA PushLemma ==
  ASSUME TypeOK, Consistent, NEW k \in Keys, NEW v \in Values, NEW n \in Nodes,
         map[k] = Absent, node[n] = Absent
  PROVE  LET l == <<n>> \o lru
             c == [node EXCEPT ![n] = [key |-> k, value |-> v]]
             m == [map EXCEPT ![k] = n]
         IN /\ l \in Seq(Nodes) /\ Len(l) > 0 /\ l[1] = n
            /\ c \in [Nodes -> Entries \cup {Absent}]
            /\ m \in [Keys -> Nodes \cup {Absent}]
            /\ OneSetOfEntries(l, c, m)
<1> DEFINE l == <<n>> \o lru
           e == [key |-> k, value |-> v]
           c == [node EXCEPT ![n] = e]
           m == [map EXCEPT ![k] = n]
<1>1. /\ lru \in Seq(Nodes)
      /\ Len(lru) \in Nat
      /\ DOMAIN lru = 1 .. Len(lru)
      /\ \A i \in 1 .. Len(lru) : lru[i] \in Nodes
  BY LenProperties, ElementOfSeq DEF TypeOK
<1>2. <<n>> \in Seq(Nodes) /\ Len(<<n>>) = 1 /\ <<n>>[1] = n
  OBVIOUS
<1>3. /\ l \in Seq(Nodes)
      /\ Len(l) = 1 + Len(lru)
      /\ \A i \in 1 .. 1 + Len(lru) : l[i] = IF i <= 1 THEN <<n>>[i] ELSE lru[i - 1]
  BY <1>1, <1>2, ConcatProperties
<1>4. DOMAIN l = 1 .. 1 + Len(lru)
  BY <1>3, LenProperties
<1>5. l[1] = n /\ \A i \in 1 .. Len(lru) : l[i + 1] = lru[i]
  BY <1>1, <1>2, <1>3
<1>6. e \in Entries /\ e # Absent /\ e.key = k
  BY CacheAssumption DEF Entries
<1>7. /\ c \in [Nodes -> Entries \cup {Absent}]
      /\ m \in [Keys -> Nodes \cup {Absent}]
  BY <1>6 DEF TypeOK
<1>8. ~In(n, lru)
  BY DEF Consistent, OneSetOfEntries, ListToMap
<1>9. \A x \in Nodes : In(x, l) <=> x = n \/ In(x, lru)
  <2> TAKE x \in Nodes
  <2>1. x = n => In(x, l)
    BY <1>1, <1>4, <1>5 DEF In
  <2>2. In(x, lru) => In(x, l)
    <3> SUFFICES ASSUME NEW i \in 1 .. Len(lru), lru[i] = x PROVE In(x, l)
      BY <1>1 DEF In
    <3>1. i + 1 \in 1 .. 1 + Len(lru) /\ l[i + 1] = x
      BY <1>1, <1>5
    <3> QED BY <3>1, <1>4 DEF In
  <2>3. In(x, l) => x = n \/ In(x, lru)
    <3> SUFFICES ASSUME NEW i \in 1 .. 1 + Len(lru), l[i] = x, x # n PROVE In(x, lru)
      BY <1>4 DEF In
    <3>1. i - 1 \in 1 .. Len(lru) /\ lru[i - 1] = x
      BY <1>1, <1>2, <1>3
    <3> QED BY <3>1, <1>1 DEF In
  <2> QED BY <2>1, <2>2, <2>3
<1>10. Linked(l)
  <2> SUFFICES ASSUME NEW i \in 1 .. 1 + Len(lru), NEW j \in 1 .. 1 + Len(lru), l[i] = l[j]
               PROVE  i = j
    BY <1>4 DEF Linked
  <2>1. \A x \in 2 .. 1 + Len(lru) : l[x] = lru[x - 1] /\ l[x] # n
    BY <1>1, <1>3, <1>8 DEF In
  <2>2. CASE i = 1 \/ j = 1
    BY <1>1, <1>5, <2>1, <2>2
  <2>3. CASE i # 1 /\ j # 1
    <3>1. i - 1 \in DOMAIN lru /\ j - 1 \in DOMAIN lru /\ lru[i - 1] = lru[j - 1]
      BY <1>1, <2>1, <2>3
    <3>2. i - 1 = j - 1
      BY <3>1 DEF Consistent, OneSetOfEntries, Linked
    <3> QED BY <3>2
  <2> QED BY <2>2, <2>3
<1>11. MapToList(l, c, m)
  BY <1>6, <1>7, <1>9 DEF Consistent, OneSetOfEntries, MapToList, ListToMap, TypeOK
<1>12. ListToMap(l, c, m)
  <2> SUFFICES ASSUME NEW x \in Nodes
               PROVE  /\ c[x] # Absent => In(x, l) /\ m[c[x].key] = x
                      /\ In(x, l) => c[x] # Absent
    BY DEF ListToMap
  <2>1. CASE x = n
    BY <1>6, <1>9, <2>1 DEF TypeOK
  <2>2. CASE x # n
    <3>1. c[x] = node[x] /\ (In(x, l) <=> In(x, lru))
      BY <1>9, <2>2 DEF TypeOK
    <3>2. /\ node[x] # Absent => In(x, lru) /\ map[node[x].key] = x
          /\ In(x, lru) => node[x] # Absent
      BY DEF Consistent, OneSetOfEntries, ListToMap
    <3>3. node[x] # Absent => node[x].key \in Keys /\ node[x].key # k
      BY <3>2, CacheAssumption DEF TypeOK, Entries
    <3>4. node[x] # Absent => m[node[x].key] = map[node[x].key]
      BY <3>3 DEF TypeOK
    <3> QED BY <3>1, <3>2, <3>4
  <2> QED BY <2>1, <2>2
<1> QED
  BY <1>1, <1>3, <1>5, <1>7, <1>10, <1>11, <1>12 DEF OneSetOfEntries
\* A use of a cached key: its node moves to the front and nothing else changes.
LEMMA UseLemma ==
  ASSUME Inv, NEW k \in Keys, map[k] # Absent, lru' = touch(map[k], lru),
         map' = map, max_size' = max_size,
         NEW v \in Values,
         node' = node \/ node' = [node EXCEPT ![map[k]].value = v],
         result' = Absent \/ result' = map[k]
  PROVE  Inv'
<1>1. map[k] \in Nodes /\ In(map[k], lru) /\ node[map[k]] \in Entries
  BY DEF Inv, TypeOK, Consistent, OneSetOfEntries, MapToList
<1>2. lru \in Seq(Nodes) /\ Linked(lru)
  BY DEF Inv, TypeOK, Consistent, OneSetOfEntries
<1>3. /\ lru' \in Seq(Nodes)
      /\ Len(lru') = Len(lru)
      /\ Len(lru) > 0
      /\ lru'[1] = map[k]
      /\ Linked(lru')
      /\ \A x \in Nodes : In(x, lru') <=> In(x, lru)
  BY <1>1, <1>2, TouchLemma
<1>4. /\ node' \in [Nodes -> Entries \cup {Absent}]
      /\ \A x \in Nodes : /\ node'[x] = Absent <=> node[x] = Absent
                          /\ node[x] # Absent => node'[x].key = node[x].key
  <2>1. CASE node' = node
    BY <2>1 DEF Inv, TypeOK
  <2>2. CASE node' = [node EXCEPT ![map[k]].value = v]
    <3>1. [node[map[k]] EXCEPT !.value = v] \in Entries
      BY <1>1 DEF Entries
    <3>2. [node[map[k]] EXCEPT !.value = v].key = node[map[k]].key
      BY <1>1 DEF Entries
    <3>3. /\ [node[map[k]] EXCEPT !.value = v] # Absent
          /\ node[map[k]] # Absent
      BY <1>1, <3>1, CacheAssumption DEF Entries
    <3>4. \A x \in Nodes : node'[x] = IF x = map[k] THEN [node[map[k]] EXCEPT !.value = v]
                                                    ELSE node[x]
      BY <1>1, <2>2 DEF Inv, TypeOK
    <3>5. node' \in [Nodes -> Entries \cup {Absent}]
      BY <1>1, <2>2, <3>1 DEF Inv, TypeOK
    <3> QED BY <3>2, <3>3, <3>4, <3>5
  <2> QED BY <2>1, <2>2
<1>5. TypeOK'
  BY <1>1, <1>3, <1>4 DEF Inv, TypeOK
<1>6. MapToList(lru', node', map')
  BY <1>3, <1>4 DEF Inv, TypeOK, Consistent, OneSetOfEntries, MapToList
<1>7. ListToMap(lru', node', map')
  BY <1>3, <1>4 DEF Inv, TypeOK, Consistent, OneSetOfEntries, ListToMap
<1>8. Consistent'
  BY <1>3, <1>6, <1>7 DEF Consistent, OneSetOfEntries
<1>9. Bounded'
  BY <1>3 DEF Inv, Bounded
<1>10. ReturnedEntryIsNewest'
  BY <1>3 DEF ReturnedEntryIsNewest
<1> QED BY <1>5, <1>8, <1>9, <1>10 DEF Inv

\* Inserting a new entry preserves the invariant, and returns the front.
LEMMA InsertLemma ==
  ASSUME Inv, NEW k \in Keys, NEW v \in Values, insert_new(k, v),
         result' = Absent \/ result' \in front_of(lru')
  PROVE  Inv'
<1>1. PICK n \in Nodes : /\ map[k] = Absent
                         /\ node[n] = Absent
                         /\ maybe_trim(<<n>> \o lru,
                                       [node EXCEPT ![n] = [key |-> k, value |-> v]],
                                       [map EXCEPT ![k] = n],
                                       max_size)
                         /\ max_size' = max_size
  BY DEF insert_new
<1> DEFINE l == <<n>> \o lru
           c == [node EXCEPT ![n] = [key |-> k, value |-> v]]
           m == [map EXCEPT ![k] = n]
<1>2. /\ l \in Seq(Nodes) /\ Len(l) > 0 /\ l[1] = n
      /\ c \in [Nodes -> Entries \cup {Absent}]
      /\ m \in [Keys -> Nodes \cup {Absent}]
      /\ OneSetOfEntries(l, c, m)
  BY <1>1, PushLemma DEF Inv
<1>3. max_size \in (Sizes \ {0}) \cup {Unbounded} /\ maybe_trim(l, c, m, max_size)
  BY <1>1 DEF Inv, TypeOK
<1> HIDE DEF l, c, m
<1>4. /\ lru' \in Seq(Nodes)
      /\ node' \in [Nodes -> Entries \cup {Absent}]
      /\ map' \in [Keys -> Nodes \cup {Absent}]
      /\ OneSetOfEntries(lru', node', map')
      /\ max_size # Unbounded => Len(lru') <= max_size
      /\ Len(lru') > 0 /\ lru'[1] = l[1]
  BY <1>2, <1>3, TrimLemma
<1>5. result' = Absent \/ (result' = lru'[1] /\ lru'[1] = n)
  <2>1. lru' # <<>>
    BY <1>4, EmptySeq
  <2> QED BY <1>2, <1>4, <2>1 DEF front_of
<1>6. TypeOK'
  BY <1>1, <1>3, <1>4, <1>5 DEF TypeOK
<1>7. Consistent' /\ Bounded'
  BY <1>1, <1>4 DEF Consistent, Bounded
<1>8. ReturnedEntryIsNewest'
  BY <1>4, <1>5 DEF ReturnedEntryIsNewest
<1> QED BY <1>6, <1>7, <1>8 DEF Inv

\* Every call preserves the invariant.
LEMMA StepInv == Inv /\ [Next]_vars => Inv'
<1> SUFFICES ASSUME Inv, [Next]_vars PROVE Inv'
  OBVIOUS
<1>1. ASSUME NEW s \in Sizes \cup {Unbounded}, set_max_size(s) PROVE Inv'
  <2>1. s \in (Sizes \ {0}) \cup {Unbounded}
    BY <1>1, CacheAssumption DEF set_max_size, ValidSize
  <2>2. /\ maybe_trim(lru, node, map, s) /\ max_size' = s /\ result' = Absent
        /\ lru \in Seq(Nodes) /\ node \in [Nodes -> Entries \cup {Absent}]
        /\ map \in [Keys -> Nodes \cup {Absent}] /\ OneSetOfEntries(lru, node, map)
    BY <1>1 DEF set_max_size, Inv, TypeOK, Consistent
  <2>3. /\ lru' \in Seq(Nodes)
        /\ node' \in [Nodes -> Entries \cup {Absent}]
        /\ map' \in [Keys -> Nodes \cup {Absent}]
        /\ OneSetOfEntries(lru', node', map')
        /\ s # Unbounded => Len(lru') <= s
    BY <2>1, <2>2, TrimLemma
  <2> QED
    BY <2>1, <2>2, <2>3 DEF Inv, TypeOK, Consistent, Bounded, ReturnedEntryIsNewest
<1>2. ASSUME NEW k \in Keys, maybe_touch(k) \/ maybe_get(k) PROVE Inv'
  <2>1. /\ lru' = IF map[k] = Absent THEN lru ELSE touch(map[k], lru)
        /\ result' = Absent \/ result' = map[k]
        /\ node' = node /\ map' = map /\ max_size' = max_size
    BY <1>2 DEF maybe_touch, maybe_get
  <2>2. CASE map[k] = Absent
    BY <2>1, <2>2
       DEF Inv, TypeOK, Consistent, Bounded, ReturnedEntryIsNewest
  <2>3. CASE map[k] # Absent
    <3>1. PICK v \in Values : TRUE
      BY <2>3 DEF Inv, TypeOK, Consistent, OneSetOfEntries, MapToList, Entries
    <3> QED BY <2>1, <2>3, <3>1, UseLemma
  <2> QED BY <2>2, <2>3
<1>3. ASSUME NEW k \in Keys, NEW v \in Values, insert(k, v) PROVE Inv'
  <2>1. CASE insert_new(k, v) /\ result' \in front_of(lru')
    BY <2>1, InsertLemma
  <2>2. CASE result' = Absent /\ UNCHANGED <<lru, node, map, max_size>>
    BY <2>2 DEF Inv, TypeOK, Consistent, Bounded, ReturnedEntryIsNewest
  <2> QED BY <1>3, <2>1, <2>2 DEF insert
<1>4. ASSUME NEW k \in Keys, NEW v \in Values, set(k, v) PROVE Inv'
  <2>1. CASE insert_new(k, v) /\ result' = Absent
    BY <2>1, InsertLemma
  <2>2. CASE /\ map[k] # Absent /\ lru' = touch(map[k], lru)
             /\ node' = [node EXCEPT ![map[k]].value = v]
             /\ result' = Absent /\ UNCHANGED <<map, max_size>>
    BY <2>2, UseLemma
  <2> QED BY <1>4, <2>1, <2>2 DEF set
<1>5. CASE UNCHANGED vars
  BY <1>5 DEF vars, Inv, TypeOK, Consistent, Bounded, ReturnedEntryIsNewest
<1> QED BY <1>1, <1>2, <1>3, <1>4, <1>5 DEF Next

\* The inductive invariant holds in every reachable state.
THEOREM SpecInv == Spec => []Inv
<1> QED BY InitInv, StepInv, PTL DEF Spec

-----------------------------------------------------------------------------
\* Every variable keeps its type, and no limit of zero is ever installed.
THEOREM TypeCorrect == Spec => []TypeOK
<1>1. Inv => TypeOK  BY DEF Inv
<1> QED BY <1>1, SpecInv, PTL

\* List and hash map always describe one set of entries: insertions,
\* evictions and touches leave no dangling iterator and no unreachable entry.
THEOREM ListAndMapAgree == Spec => []Consistent
<1>1. Inv => Consistent  BY DEF Inv
<1> QED BY <1>1, SpecInv, PTL

\* The cache never outgrows its limit, whenever the limit was set.
THEOREM NeverOverLimit == Spec => []Bounded
<1>1. Inv => Bounded  BY DEF Inv
<1> QED BY <1>1, SpecInv, PTL

\* A reference insert or maybe_get hands out is to a live entry: the newest.
THEOREM ReferenceIsLive == Spec => []ReturnedEntryIsNewest
<1>1. Inv => ReturnedEntryIsNewest  BY DEF Inv
<1> QED BY <1>1, SpecInv, PTL

-----------------------------------------------------------------------------
(***************************************************************************)
(* The refinement of RecencyCache.  Keys, values and order of use of a     *)
(* list l with node contents c and a map m:                                *)
(***************************************************************************)
KeysOf(m) == {k \in Keys : m[k] # Absent}
ValueOf(c, m) == [k \in KeysOf(m) |-> c[m[k]].value]
At(k, l, m) == Position(m[k], l)
NewerIn(l, m) == {p \in KeysOf(m) \X KeysOf(m) : At(p[1], l, m) < At(p[2], l, m)}

Described(l, c, m) ==
  /\ l \in Seq(Nodes)
  /\ c \in [Nodes -> Entries \cup {Absent}]
  /\ m \in [Keys -> Nodes \cup {Absent}]
  /\ OneSetOfEntries(l, c, m)

LEMMA PairsEqual ==
  ASSUME NEW X, NEW A \in SUBSET (X \X X), NEW B \in SUBSET (X \X X),
         \A a, b \in X : <<a, b>> \in A <=> <<a, b>> \in B
  PROVE  A = B
OBVIOUS

LEMMA SeqFacts ==
  ASSUME NEW l \in Seq(Nodes)
  PROVE  Len(l) \in Nat /\ DOMAIN l = 1 .. Len(l) /\ \A i \in 1 .. Len(l) : l[i] \in Nodes
BY LenProperties, ElementOfSeq

\* Where a node is in a list that has each node once.
LEMMA PositionOf ==
  ASSUME NEW l \in Seq(Nodes), Linked(l), NEW i \in 1 .. Len(l)
  PROVE  Position(l[i], l) = i
BY SeqFacts DEF Position, Linked

\* Each key is at the place of its node, and each place has its key.
LEMMA EntryAt ==
  ASSUME NEW l, NEW c, NEW m, Described(l, c, m), NEW k \in KeysOf(m)
  PROVE  /\ At(k, l, m) \in 1 .. Len(l) /\ l[At(k, l, m)] = m[k]
         /\ c[m[k]].key = k /\ m[k] \in Nodes /\ c[m[k]] \in Entries
<1>1. In(m[k], l) /\ c[m[k]] # Absent /\ c[m[k]].key = k /\ m[k] \in Nodes
  BY DEF Described, OneSetOfEntries, MapToList, KeysOf
<1>2. l \in Seq(Nodes)
  BY DEF Described
<1>3. At(k, l, m) \in 1 .. Len(l) /\ l[At(k, l, m)] = m[k]
  BY <1>1, <1>2, SeqFacts DEF At, Position, In
<1> QED BY <1>1, <1>3 DEF Described

LEMMA KeyAt ==
  ASSUME NEW l, NEW c, NEW m, Described(l, c, m), NEW i \in 1 .. Len(l)
  PROVE  c[l[i]].key \in KeysOf(m) /\ At(c[l[i]].key, l, m) = i
<1>1. l \in Seq(Nodes) /\ Linked(l)
  BY DEF Described, OneSetOfEntries
<1>2. l[i] \in Nodes /\ In(l[i], l)
  BY <1>1, SeqFacts DEF In
<1>3. c[l[i]] # Absent /\ m[c[l[i]].key] = l[i]
  BY <1>2 DEF Described, OneSetOfEntries, ListToMap
<1>4. c[l[i]].key \in Keys /\ l[i] # Absent
  BY <1>2, <1>3, CacheAssumption DEF Described, Entries
<1> QED BY <1>1, <1>3, <1>4, PositionOf DEF KeysOf, At

\* The first n places of the list have n keys.
LEMMA KeysAreCounted ==
  ASSUME NEW l, NEW c, NEW m, Described(l, c, m), NEW n \in 0 .. Len(l)
  PROVE  Cardinality({k \in KeysOf(m) : At(k, l, m) <= n}) = n
<1> DEFINE K == {k \in KeysOf(m) : At(k, l, m) <= n}
           f == [i \in 1 .. n |-> c[l[i]].key]
<1>1. Len(l) \in Nat
  BY SeqFacts DEF Described
<1>2. f \in [1 .. n -> K]
  BY <1>1, KeyAt
<1>3. \A i, j \in 1 .. n : f[i] = f[j] => i = j
  <2> SUFFICES ASSUME NEW i \in 1 .. n, NEW j \in 1 .. n, f[i] = f[j] PROVE i = j
    OBVIOUS
  <2>1. At(c[l[i]].key, l, m) = i /\ At(c[l[j]].key, l, m) = j
    BY <1>1, KeyAt
  <2> QED BY <2>1
<1>4. \A k \in K : \E i \in 1 .. n : f[i] = k
  <2> SUFFICES ASSUME NEW k \in K PROVE \E i \in 1 .. n : f[i] = k
    OBVIOUS
  <2>1. At(k, l, m) \in 1 .. Len(l) /\ c[l[At(k, l, m)]].key = k
    BY EntryAt
  <2>2. At(k, l, m) \in 1 .. n
    BY <1>1, <2>1
  <2> QED BY <2>1, <2>2
<1>5. f \in Bijection(1 .. n, K)
  BY <1>2, <1>3, <1>4, Fun_IsBij
<1>6. ExistsBijection(1 .. n, K)
  BY <1>5, Fun_ExistsBij
<1>7. n \in Nat /\ IsFiniteSet(1 .. n) /\ Cardinality(1 .. n) = n
  BY <1>1, FS_Interval
<1> QED BY <1>6, <1>7, FS_Bijection

\* The instance has a Cardinality of its own.
LEMMA SameCardinality ==
  ASSUME NEW S
  PROVE  Recency!Cardinality(S) = Cardinality(S)
BY DEF Recency!Cardinality, Cardinality

\* A trim keeps the keys at the first places.
LEMMA TrimKeeps ==
  ASSUME NEW l, NEW c, NEW m, Described(l, c, m),
         NEW limit \in (Sizes \ {0}) \cup {Unbounded}, maybe_trim(l, c, m, limit)
  PROVE  LET kept == KeysOf(map')
         IN /\ Recency!KeptOf(ValueOf(c, m), NewerIn(l, m), kept, limit)
            /\ ValueOf(node', map') = [k \in kept |-> ValueOf(c, m)[k]]
            /\ NewerIn(lru', map') = NewerIn(l, m) \cap (kept \X kept)
<1> DEFINE removed == {l[i] : i \in Overflow(l, limit)}
           keys == {c[n].key : n \in removed}
           kept == KeysOf(map')
<1>1. /\ l \in Seq(Nodes) /\ Linked(l) /\ Len(l) \in Nat
      /\ DOMAIN l = 1 .. Len(l)
      /\ \A i \in 1 .. Len(l) : l[i] \in Nodes
  BY SeqFacts DEF Described, OneSetOfEntries
<1>2. /\ lru' = IF removed = {} THEN l ELSE SubSeq(l, 1, limit)
      /\ node' = [n \in Nodes |-> IF n \in removed THEN Absent ELSE c[n]]
      /\ map' = [k \in Keys |-> IF k \in keys THEN Absent ELSE m[k]]
  BY DEF maybe_trim
<1>3. limit = Unbounded \/ limit \in Nat \ {0}
  BY CacheAssumption
<1>4. Cardinality(KeysOf(m)) = Len(l)
  <2>1. KeysOf(m) = {k \in KeysOf(m) : At(k, l, m) <= Len(l)}
    BY <1>1, EntryAt
  <2>2. Len(l) \in 0 .. Len(l)
    BY <1>1
  <2> QED BY <2>1, <2>2, KeysAreCounted
<1>5. DOMAIN ValueOf(c, m) = KeysOf(m)
  BY DEF ValueOf
<1>6. CASE limit = Unbounded \/ Len(l) <= limit
  <2>1. Overflow(l, limit) = {}
    BY <1>1, <1>3, <1>6 DEF Overflow
  <2>2. removed = {} /\ keys = {}
    BY <2>1
  <2>3. lru' = l /\ node' = c /\ map' = m
    BY <1>2, <2>2 DEF Described
  <2>4. kept = KeysOf(m)
    BY <2>3
  <2>5. Recency!KeptOf(ValueOf(c, m), NewerIn(l, m), kept, limit)
    BY <1>4, <1>5, <1>6, <2>4, SameCardinality DEF Recency!KeptOf
  <2>6. ValueOf(node', map') = [k \in kept |-> ValueOf(c, m)[k]]
    BY <2>3, <2>4 DEF ValueOf
  <2>7. NewerIn(lru', map') = NewerIn(l, m) \cap (kept \X kept)
    BY <2>3, <2>4 DEF NewerIn
  <2> QED BY <2>5, <2>6, <2>7
<1>7. CASE limit # Unbounded /\ limit < Len(l)
  <2>1. /\ limit \in Nat \ {0}
        /\ Overflow(l, limit) = limit + 1 .. Len(l)
    BY <1>3, <1>7 DEF Overflow
  <2>2. Len(l) \in Overflow(l, limit)
    BY <1>1, <1>7, <2>1
  <2>3. lru' = SubSeq(l, 1, limit)
    BY <1>2, <2>2
  <2>4. /\ lru' \in Seq(Nodes) /\ Len(lru') = limit
        /\ \A i \in 1 .. limit : lru'[i] = l[i]
    <3>1. \A i \in 1 .. limit : l[i] \in Nodes
      BY <1>1, <1>7, <2>1
    <3>2. /\ SubSeq(l, 1, limit) \in Seq(Nodes)
          /\ Len(SubSeq(l, 1, limit)) = IF 1 <= limit THEN limit - 1 + 1 ELSE 0
          /\ \A i \in 1 .. limit - 1 + 1 : SubSeq(l, 1, limit)[i] = l[1 + i - 1]
      BY <3>1, <2>1, SubSeqProperties
    <3> QED BY <3>2, <2>1, <2>3
  <2>5. Linked(lru')
    BY TrimLemma DEF Described, OneSetOfEntries
  <2>6. \A k \in KeysOf(m) : k \in keys <=> At(k, l, m) > limit
    <3> TAKE k \in KeysOf(m)
    <3>1. /\ At(k, l, m) \in 1 .. Len(l) /\ l[At(k, l, m)] = m[k] /\ c[m[k]].key = k
      BY EntryAt
    <3>2. ASSUME At(k, l, m) > limit PROVE k \in keys
      <4>1. At(k, l, m) \in Overflow(l, limit)
        BY <1>1, <2>1, <3>1, <3>2
      <4> QED BY <3>1, <4>1
    <3>3. ASSUME k \in keys PROVE At(k, l, m) > limit
      <4>1. PICK i \in Overflow(l, limit) : k = c[l[i]].key
        BY <3>3
      <4>2. i \in 1 .. Len(l) /\ i > limit
        BY <1>1, <2>1
      <4> QED BY <4>1, <4>2, KeyAt
    <3> QED BY <3>2, <3>3
  <2>7. kept = {k \in KeysOf(m) : At(k, l, m) <= limit}
    <3>1. \A k \in KeysOf(m) : At(k, l, m) \in Nat
      BY <1>1, EntryAt
    <3>2. \A k \in Keys : map'[k] # Absent <=> k \notin keys /\ m[k] # Absent
      BY <1>2
    <3> QED BY <2>1, <2>6, <3>1, <3>2 DEF KeysOf
  <2>8. \A k \in kept : map'[k] = m[k] /\ node'[map'[k]] = c[m[k]]
    <3> TAKE k \in kept
    <3>1. k \in KeysOf(m) /\ k \in Keys /\ k \notin keys
      BY <2>1, <2>6, <2>7, EntryAt DEF KeysOf
    <3>2. map'[k] = m[k] /\ m[k] \in Nodes /\ c[m[k]].key = k
      BY <1>2, <3>1, EntryAt
    <3>3. m[k] \notin removed
      BY <3>1, <3>2
    <3> QED BY <1>2, <3>2, <3>3
  <2>9. \A k \in kept : At(k, lru', map') = At(k, l, m)
    <3> TAKE k \in kept
    <3>1. /\ At(k, l, m) \in 1 .. Len(l) /\ l[At(k, l, m)] = m[k] /\ At(k, l, m) <= limit
      BY <2>7, EntryAt
    <3>2. At(k, l, m) \in 1 .. limit
      BY <1>1, <2>1, <3>1
    <3>3. lru'[At(k, l, m)] = map'[k]
      BY <2>4, <2>8, <3>1, <3>2
    <3> QED BY <2>4, <2>5, <3>2, <3>3, PositionOf DEF At
  <2>10. Recency!KeptOf(ValueOf(c, m), NewerIn(l, m), kept, limit)
    <3>1. kept \subseteq KeysOf(m)
      BY <2>7
    <3>2. Cardinality(kept) = limit
      <4>1. limit \in 0 .. Len(l)
        BY <1>1, <1>7, <2>1
      <4> QED BY <2>7, <4>1, KeysAreCounted
    <3>3. ASSUME NEW a \in kept, NEW b \in KeysOf(m) \ kept PROVE <<a, b>> \in NewerIn(l, m)
      <4>1. At(a, l, m) \in Nat /\ At(b, l, m) \in Nat
        BY <1>1, <2>7, EntryAt
      <4>2. At(a, l, m) < At(b, l, m)
        BY <2>1, <2>7, <4>1
      <4> QED BY <3>1, <4>2 DEF NewerIn
    <3>4. ~(Cardinality(KeysOf(m)) <= limit)
      BY <1>1, <1>4, <1>7, <2>1
    <3> QED BY <1>5, <1>7, <3>1, <3>2, <3>3, <3>4, SameCardinality DEF Recency!KeptOf
  <2>11. ValueOf(node', map') = [k \in kept |-> ValueOf(c, m)[k]]
    BY <2>7, <2>8 DEF ValueOf
  <2>12. NewerIn(lru', map') = NewerIn(l, m) \cap (kept \X kept)
    <3>1. NewerIn(lru', map') \in SUBSET (kept \X kept)
      BY DEF NewerIn
    <3>2. ASSUME NEW a \in kept, NEW b \in kept
          PROVE  <<a, b>> \in NewerIn(lru', map') <=> <<a, b>> \in NewerIn(l, m)
      BY <2>7, <2>9 DEF NewerIn
    <3> QED BY <3>1, <3>2, PairsEqual
  <2> QED BY <2>10, <2>11, <2>12
<1> QED BY <1>1, <1>3, <1>6, <1>7

\* The order after a use of k, of N with the keys O beside it.
UsedLastIn(N, k, O) == {p \in N : k \notin {p[1], p[2]}} \cup {<<k, o>> : o \in O \ {k}}

LEMMA UsedLastPairs ==
  ASSUME NEW X, NEW N \in SUBSET (X \X X), NEW k, NEW O \in SUBSET X
  PROVE  /\ UsedLastIn(N, k, O) \in SUBSET ((X \cup {k}) \X (X \cup {k}))
         /\ \A a, b \in X \cup {k} : <<a, b>> \in UsedLastIn(N, k, O) <=>
              \/ <<a, b>> \in N /\ a # k /\ b # k
              \/ a = k /\ b \in O \ {k}
BY DEF UsedLastIn

\* Where the nodes are after a splice to the front.
LEMMA TouchedPositions ==
  ASSUME NEW l \in Seq(Nodes), Linked(l), NEW n \in Nodes, In(n, l)
  PROVE  /\ Position(n, touch(n, l)) = 1
         /\ \A j \in 1 .. Len(l) : j # Position(n, l) =>
              Position(l[j], touch(n, l)) = IF j < Position(n, l) THEN j + 1 ELSE j
<1> DEFINE p == Position(n, l)
           t == touch(n, l)
<1>1. Len(l) \in Nat /\ DOMAIN l = 1 .. Len(l) /\ \A i \in 1 .. Len(l) : l[i] \in Nodes
  BY SeqFacts
<1>2. p \in 1 .. Len(l) /\ l[p] = n
  BY <1>1 DEF Position, In
<1>3. t \in Seq(Nodes) /\ Linked(t) /\ Len(t) = Len(l) /\ Len(l) > 0 /\ t[1] = n
  BY TouchLemma
<1>4. t = [i \in 1 .. Len(l) |-> IF i = 1 THEN n ELSE IF i <= p THEN l[i - 1] ELSE l[i]]
  BY <1>1 DEF touch
<1>5. Position(n, t) = 1
  BY <1>1, <1>3, PositionOf
<1>6. ASSUME NEW j \in 1 .. Len(l), j # p
      PROVE  Position(l[j], t) = IF j < p THEN j + 1 ELSE j
  <2>1. CASE j < p
    <3>1. j + 1 \in 1 .. Len(t) /\ t[j + 1] = l[j]
      BY <1>1, <1>2, <1>3, <1>4, <2>1
    <3> QED BY <1>3, <2>1, <3>1, PositionOf
  <2>2. CASE j > p
    <3>1. j \in 1 .. Len(t) /\ t[j] = l[j]
      BY <1>1, <1>2, <1>3, <1>4, <2>2
    <3>2. Position(l[j], t) = j
      BY <1>3, <3>1, PositionOf
    <3> QED BY <1>2, <2>2, <3>2
  <2> QED BY <1>2, <1>6, <2>1, <2>2
<1> QED BY <1>5, <1>6

\* A splice makes its key the last used and leaves the others in their order.
LEMMA TouchUses ==
  ASSUME NEW l, NEW c, NEW m, Described(l, c, m), NEW k \in KeysOf(m)
  PROVE  NewerIn(touch(m[k], l), m) = UsedLastIn(NewerIn(l, m), k, KeysOf(m))
<1> DEFINE X == KeysOf(m)
           t == touch(m[k], l)
<1>1. l \in Seq(Nodes) /\ Linked(l) /\ Len(l) \in Nat
  BY SeqFacts DEF Described, OneSetOfEntries
<1>2. m[k] \in Nodes /\ In(m[k], l)
  BY EntryAt DEF Described, OneSetOfEntries, MapToList, KeysOf
<1>3. At(k, t, m) = 1
  BY <1>1, <1>2, TouchedPositions DEF At
<1>4. \A x \in X : x # k => At(x, t, m) = IF At(x, l, m) < At(k, l, m) THEN At(x, l, m) + 1
                                                                 ELSE At(x, l, m)
  <2> SUFFICES ASSUME NEW x \in X, x # k
               PROVE  At(x, t, m) = IF At(x, l, m) < At(k, l, m) THEN At(x, l, m) + 1
                                                            ELSE At(x, l, m)
    OBVIOUS
  <2>1. /\ At(x, l, m) \in 1 .. Len(l) /\ l[At(x, l, m)] = m[x] /\ c[m[x]].key = x
        /\ l[At(k, l, m)] = m[k] /\ c[m[k]].key = k
    BY EntryAt
  <2>2. At(x, l, m) # At(k, l, m)
    BY <2>1
  <2> QED BY <1>1, <1>2, <2>1, <2>2, TouchedPositions DEF At
<1>5. \A x \in X : At(x, l, m) \in 1 .. Len(l) /\ (x # k => At(x, l, m) # At(k, l, m))
  BY EntryAt
<1>6. NewerIn(t, m) \in SUBSET (X \X X) /\ NewerIn(l, m) \in SUBSET (X \X X)
  BY DEF NewerIn
<1>7. \A a, b \in X : /\ <<a, b>> \in NewerIn(t, m) <=> At(a, t, m) < At(b, t, m)
                      /\ <<a, b>> \in NewerIn(l, m) <=> At(a, l, m) < At(b, l, m)
  BY DEF NewerIn
<1>8. /\ UsedLastIn(NewerIn(l, m), k, X) \in SUBSET (X \X X)
      /\ \A a, b \in X : <<a, b>> \in UsedLastIn(NewerIn(l, m), k, X) <=>
           \/ <<a, b>> \in NewerIn(l, m) /\ a # k /\ b # k
           \/ a = k /\ b \in X \ {k}
  <2>1. X \cup {k} = X
    OBVIOUS
  <2> QED BY <1>6, <2>1, UsedLastPairs
<1> HIDE DEF X, t
<1>9. ASSUME NEW a \in X, NEW b \in X
      PROVE  <<a, b>> \in NewerIn(t, m) <=> <<a, b>> \in UsedLastIn(NewerIn(l, m), k, X)
  <2>1. At(a, l, m) \in 1 .. Len(l) /\ At(b, l, m) \in 1 .. Len(l) /\ At(k, l, m) \in 1 .. Len(l)
    BY <1>5 DEF X
  <2>2. CASE a = k /\ b = k
    BY <1>3, <1>7, <1>8, <2>2
  <2>3. CASE a = k /\ b # k
    <3>1. At(b, t, m) > 1
      BY <1>1, <1>4, <1>5, <2>1, <2>3
    <3> QED BY <1>3, <1>7, <1>8, <2>3, <3>1
  <2>4. CASE a # k /\ b = k
    <3>1. At(a, t, m) >= 1
      BY <1>1, <1>4, <2>1, <2>4
    <3>2. ~(At(a, t, m) < At(b, t, m))
      BY <1>1, <1>3, <1>4, <2>1, <2>4
    <3> QED BY <1>7, <1>8, <2>4, <3>2
  <2>5. CASE a # k /\ b # k
    <3>1. At(a, t, m) < At(b, t, m) <=> At(a, l, m) < At(b, l, m)
      BY <1>1, <1>4, <1>5, <2>1, <2>5
    <3> QED BY <1>7, <1>8, <2>5, <3>1
  <2> QED BY <2>2, <2>3, <2>4, <2>5
<1>10. NewerIn(t, m) = UsedLastIn(NewerIn(l, m), k, X)
  BY <1>6, <1>8, <1>9, PairsEqual
<1> QED BY <1>10 DEF X, t

WithEntry(f, k, v) == [x \in DOMAIN f \cup {k} |-> IF x = k THEN v ELSE f[x]]

\* A new entry at the front is the last used, and the others are as they were.
PushedFront(l, l2, n) ==
  Len(l2) = 1 + Len(l) /\ l2[1] = n /\ \A j \in 1 .. Len(l) : l2[j + 1] = l[j]
Entered(c, c2, m, m2, k, v, n) ==
  /\ m[k] = Absent /\ m2[k] = n /\ \A x \in Keys : x # k => m2[x] = m[x]
  /\ c[n] = Absent /\ c2[n].value = v /\ \A x \in Nodes : x # n => c2[x] = c[x]

LEMMA PushUses ==
  ASSUME NEW l, NEW c, NEW m, Described(l, c, m), NEW k \in Keys, NEW v, NEW n \in Nodes,
         NEW l2, NEW c2, NEW m2, Described(l2, c2, m2),
         PushedFront(l, l2, n), Entered(c, c2, m, m2, k, v, n)
  PROVE  /\ KeysOf(m2) = KeysOf(m) \cup {k}
         /\ ValueOf(c2, m2) = WithEntry(ValueOf(c, m), k, v)
         /\ NewerIn(l2, m2) = UsedLastIn(NewerIn(l, m), k, KeysOf(m))
<1>1. l \in Seq(Nodes) /\ Len(l) \in Nat /\ n # Absent
  BY SeqFacts, CacheAssumption DEF Described
<1>2. KeysOf(m2) = KeysOf(m) \cup {k}
  BY <1>1 DEF KeysOf, Entered
<1>3. \A x \in KeysOf(m) : x # k /\ m2[x] = m[x] /\ m[x] # n /\ c2[m2[x]] = c[m[x]]
  <2> TAKE x \in KeysOf(m)
  <2>1. x # k /\ m2[x] = m[x] /\ c[n] = Absent /\ \A y \in Nodes : y # n => c2[y] = c[y]
    BY <1>1 DEF KeysOf, Entered
  <2>2. m[x] \in Nodes /\ c[m[x]] # Absent
    BY DEF Described, OneSetOfEntries, MapToList, KeysOf
  <2> QED BY <1>1, <2>1, <2>2
<1>4. ValueOf(c2, m2) = WithEntry(ValueOf(c, m), k, v)
  <2>1. \A x \in KeysOf(m) \cup {k} :
          c2[m2[x]].value = IF x = k THEN v ELSE ValueOf(c, m)[x]
    BY <1>3 DEF ValueOf, Entered
  <2>2. DOMAIN ValueOf(c, m) = KeysOf(m)
    BY DEF ValueOf
  <2>3. ValueOf(c2, m2) = [x \in KeysOf(m) \cup {k} |-> c2[m2[x]].value]
    BY <1>2 DEF ValueOf
  <2> QED BY <2>1, <2>2, <2>3 DEF WithEntry
<1>5. /\ l2 \in Seq(Nodes) /\ Linked(l2) /\ m2[k] = n
      /\ Len(l2) = 1 + Len(l) /\ l2[1] = n /\ \A j \in 1 .. Len(l) : l2[j + 1] = l[j]
  BY DEF Described, OneSetOfEntries, PushedFront, Entered
<1>6. At(k, l2, m2) = 1
  <2>1. 1 \in 1 .. Len(l2)
    BY <1>1, <1>5
  <2> QED BY <1>1, <1>5, <2>1, PositionOf DEF At
<1>7. \A x \in KeysOf(m) : At(x, l, m) \in 1 .. Len(l) /\ At(x, l2, m2) = At(x, l, m) + 1
  <2> TAKE x \in KeysOf(m)
  <2>1. At(x, l, m) \in 1 .. Len(l) /\ l[At(x, l, m)] = m[x]
    BY EntryAt
  <2>2. At(x, l, m) + 1 \in 1 .. Len(l2) /\ l2[At(x, l, m) + 1] = m2[x]
    BY <1>1, <1>3, <1>5, <2>1
  <2>3. Position(m2[x], l2) = At(x, l, m) + 1
    BY <1>5, <2>2, PositionOf
  <2> QED BY <2>1, <2>3 DEF At
<1> DEFINE X == KeysOf(m)
           Y == X \cup {k}
<1>8. NewerIn(l2, m2) \in SUBSET (Y \X Y) /\ NewerIn(l, m) \in SUBSET (X \X X) /\ k \notin X
  BY <1>2, <1>3 DEF NewerIn
<1>9. \A a, b \in Y : <<a, b>> \in NewerIn(l2, m2) <=> At(a, l2, m2) < At(b, l2, m2)
  BY <1>2 DEF NewerIn
<1>10. \A a, b \in X : <<a, b>> \in NewerIn(l, m) <=> At(a, l, m) < At(b, l, m)
  BY DEF NewerIn
<1>11. /\ UsedLastIn(NewerIn(l, m), k, X) \in SUBSET (Y \X Y)
       /\ \A a, b \in Y : <<a, b>> \in UsedLastIn(NewerIn(l, m), k, X) <=>
            \/ <<a, b>> \in NewerIn(l, m) /\ a # k /\ b # k
            \/ a = k /\ b \in X \ {k}
  BY <1>8, UsedLastPairs
<1> HIDE DEF X
<1>12. ASSUME NEW a \in Y, NEW b \in Y
       PROVE  <<a, b>> \in NewerIn(l2, m2) <=> <<a, b>> \in UsedLastIn(NewerIn(l, m), k, X)
  <2>1. CASE a = k /\ b = k
    <3>1. <<a, b>> \notin NewerIn(l2, m2)
      BY <1>6, <1>9, <2>1
    <3>2. <<a, b>> \notin UsedLastIn(NewerIn(l, m), k, X)
      BY <1>11, <2>1
    <3> QED BY <3>1, <3>2
  <2>2. CASE a = k /\ b \in X
    <3>1. At(b, l2, m2) > 1
      BY <1>1, <1>7, <2>2 DEF X
    <3> QED BY <1>6, <1>8, <1>9, <1>11, <2>2, <3>1
  <2>3. CASE a \in X /\ b = k
    <3>1. ~(At(a, l2, m2) < 1)
      BY <1>1, <1>7, <2>3 DEF X
    <3> QED BY <1>6, <1>8, <1>9, <1>11, <2>3, <3>1
  <2>4. CASE a \in X /\ b \in X
    <3>1. At(a, l2, m2) < At(b, l2, m2) <=> At(a, l, m) < At(b, l, m)
      BY <1>1, <1>7, <2>4 DEF X
    <3> QED BY <1>8, <1>9, <1>10, <1>11, <2>4, <3>1
  <2> QED BY <2>1, <2>2, <2>3, <2>4
<1>13. NewerIn(l2, m2) = UsedLastIn(NewerIn(l, m), k, X)
  <2> DEFINE A == NewerIn(l2, m2)
             B == UsedLastIn(NewerIn(l, m), k, X)
  <2>1. A \in SUBSET (Y \X Y) /\ B \in SUBSET (Y \X Y)
    BY <1>8, <1>11
  <2>2. \A a, b \in Y : <<a, b>> \in A <=> <<a, b>> \in B
    BY <1>12
  <2> HIDE DEF A, B, Y
  <2>3. A = B
    BY <2>1, <2>2, PairsEqual
  <2> QED BY <2>3 DEF A, B
<1> QED BY <1>2, <1>4, <1>13 DEF X

-----------------------------------------------------------------------------
\* What the refinement mapping gives for the abstract variables.
AbsValue == [k \in Cached |-> node[map[k]].value]
AbsNewer == {p \in Cached \X Cached : Position(map[p[1]], lru) < Position(map[p[2]], lru)}
AbsAnswer == IF result = Absent THEN Absent ELSE node[result].value

LEMMA Mapped ==
  /\ AbsValue = ValueOf(node, map) /\ AbsNewer = NewerIn(lru, map) /\ Cached = KeysOf(map)
  /\ AbsValue' = ValueOf(node', map') /\ AbsNewer' = NewerIn(lru', map') /\ Cached' = KeysOf(map')
BY DEF AbsValue, AbsNewer, Cached, ValueOf, NewerIn, KeysOf, At

\* The abstract steps, in these terms.
LEMMA ResizeIs ==
  ASSUME max_size' \in {s \in Sizes : s > 0} \cup {Unbounded}, AbsAnswer' = Absent,
         NEW kept \in SUBSET DOMAIN AbsValue,
         Recency!KeptOf(AbsValue, AbsNewer, kept, max_size'),
         AbsValue' = [k \in kept |-> AbsValue[k]], AbsNewer' = AbsNewer \cap (kept \X kept)
  PROVE  Recency!Resize
BY DEF Recency!Resize, Recency!Keep, AbsValue, AbsNewer, AbsAnswer

LEMMA UseIs ==
  ASSUME NEW k \in DOMAIN AbsValue, AbsNewer' = UsedLastIn(AbsNewer, k, DOMAIN AbsValue),
         AbsAnswer' \in {Absent, AbsValue[k]}, AbsValue' = AbsValue, max_size' = max_size
  PROVE  Recency!Use(k)
BY DEF Recency!Use, Recency!UsedLast, UsedLastIn, AbsValue, AbsNewer, AbsAnswer

LEMMA MissIs ==
  ASSUME AbsAnswer' = Absent, AbsValue' = AbsValue, AbsNewer' = AbsNewer, max_size' = max_size
  PROVE  Recency!Miss
BY DEF Recency!Miss, AbsValue, AbsNewer, AbsAnswer

LEMMA OverwriteIs ==
  ASSUME NEW k \in DOMAIN AbsValue, NEW v, AbsValue' = [AbsValue EXCEPT ![k] = v],
         AbsNewer' = UsedLastIn(AbsNewer, k, DOMAIN AbsValue),
         AbsAnswer' = Absent, max_size' = max_size
  PROVE  Recency!Overwrite(k, v)
BY DEF Recency!Overwrite, Recency!UsedLast, UsedLastIn, AbsValue, AbsNewer, AbsAnswer

LEMMA AddIs ==
  ASSUME NEW k, k \notin DOMAIN AbsValue, NEW v,
         NEW kept \in SUBSET (DOMAIN AbsValue \cup {k}),
         Recency!KeptOf(WithEntry(AbsValue, k, v), UsedLastIn(AbsNewer, k, DOMAIN AbsValue), kept, max_size),
         AbsValue' = [x \in kept |-> WithEntry(AbsValue, k, v)[x]],
         AbsNewer' = UsedLastIn(AbsNewer, k, DOMAIN AbsValue) \cap (kept \X kept),
         AbsAnswer' \in {Absent, v}, max_size' = max_size
  PROVE  Recency!Add(k, v)
<1>1. DOMAIN WithEntry(AbsValue, k, v) = DOMAIN AbsValue \cup {k}
  BY DEF WithEntry
<1>2. Recency!UsedLast(k, DOMAIN AbsValue) = UsedLastIn(AbsNewer, k, DOMAIN AbsValue)
  BY DEF Recency!UsedLast, UsedLastIn, AbsNewer
<1>3. /\ kept \in SUBSET DOMAIN WithEntry(AbsValue, k, v)
      /\ Recency!KeptOf(WithEntry(AbsValue, k, v), Recency!UsedLast(k, DOMAIN AbsValue), kept, max_size)
      /\ Recency!Keep(WithEntry(AbsValue, k, v), Recency!UsedLast(k, DOMAIN AbsValue), kept)
  BY <1>1, <1>2 DEF Recency!Keep, AbsValue, AbsNewer
<1> QED BY <1>3 DEF Recency!Add, WithEntry, AbsValue, AbsAnswer

-----------------------------------------------------------------------------
\* What Inv says of the list, the nodes and the map.
LEMMA CacheDescribed ==
  ASSUME Inv
  PROVE  Described(lru, node, map) /\ max_size \in (Sizes \ {0}) \cup {Unbounded}
BY DEF Inv, TypeOK, Consistent, Described

LEMMA ResizeRefines ==
  ASSUME Inv, NEW s \in Sizes \cup {Unbounded}, set_max_size(s)
  PROVE  Recency!Next
<1>1. s \in (Sizes \ {0}) \cup {Unbounded} /\ s \in {z \in Sizes : z > 0} \cup {Unbounded}
  BY CacheAssumption DEF set_max_size, ValidSize
<1>2. maybe_trim(lru, node, map, s) /\ max_size' = s /\ result' = Absent
  BY DEF set_max_size
<1> DEFINE kept == KeysOf(map')
<1>3. /\ Recency!KeptOf(ValueOf(node, map), NewerIn(lru, map), kept, s)
      /\ ValueOf(node', map') = [k \in kept |-> ValueOf(node, map)[k]]
      /\ NewerIn(lru', map') = NewerIn(lru, map) \cap (kept \X kept)
  BY <1>1, <1>2, CacheDescribed, TrimKeeps
<1>4. kept \in SUBSET DOMAIN ValueOf(node, map)
  BY <1>3 DEF Recency!KeptOf
<1>5. AbsAnswer' = Absent
  BY <1>2 DEF AbsAnswer
<1> HIDE DEF kept
<1>6. Recency!Resize
  BY <1>1, <1>2, <1>3, <1>4, <1>5, Mapped, ResizeIs
<1> QED BY <1>6 DEF Recency!Next

\* A call that leaves the cache as it is, and returns nothing.
LEMMA MissRefines ==
  ASSUME lru' = lru, node' = node, map' = map, max_size' = max_size, result' = Absent
  PROVE  Recency!Next
<1>1. AbsAnswer' = Absent /\ AbsValue' = AbsValue /\ AbsNewer' = AbsNewer
  BY DEF AbsAnswer, AbsValue, AbsNewer, Cached
<1> QED BY <1>1, MissIs DEF Recency!Next

\* touch and get of a key that is cached.
LEMMA UseRefines ==
  ASSUME Inv, NEW k \in Keys, map[k] # Absent, lru' = touch(map[k], lru),
         node' = node, map' = map, max_size' = max_size, result' \in {Absent, map[k]}
  PROVE  Recency!Next
<1>1. Described(lru, node, map) /\ k \in KeysOf(map)
  BY CacheDescribed DEF KeysOf
<1>2. NewerIn(lru', map') = UsedLastIn(NewerIn(lru, map), k, KeysOf(map))
  BY <1>1, TouchUses
<1>3. DOMAIN AbsValue = KeysOf(map) /\ AbsValue[k] = node[map[k]].value
  BY <1>1, Mapped DEF ValueOf
<1>4. AbsAnswer' \in {Absent, AbsValue[k]}
  BY <1>3 DEF AbsAnswer
<1>5. AbsValue' = AbsValue
  BY Mapped
<1>6. Recency!Use(k)
  BY <1>1, <1>2, <1>3, <1>4, <1>5, Mapped, UseIs
<1> QED BY <1>6 DEF Recency!Next

\* set of a key that is cached.
LEMMA OverwriteRefines ==
  ASSUME Inv, NEW k \in Keys, NEW v \in Values, map[k] # Absent, lru' = touch(map[k], lru),
         node' = [node EXCEPT ![map[k]].value = v], map' = map, max_size' = max_size,
         result' = Absent
  PROVE  Recency!Next
<1>1. Described(lru, node, map) /\ k \in KeysOf(map)
  BY CacheDescribed DEF KeysOf
<1>2. NewerIn(lru', map') = UsedLastIn(NewerIn(lru, map), k, KeysOf(map))
  BY <1>1, TouchUses
<1>3. DOMAIN AbsValue = KeysOf(map)
  BY Mapped DEF ValueOf
<1>4. AbsAnswer' = Absent
  BY DEF AbsAnswer
<1>5. \A x \in KeysOf(map) : node'[map[x]].value = IF x = k THEN v ELSE node[map[x]].value
  <2> TAKE x \in KeysOf(map)
  <2>1. /\ map[x] \in Nodes /\ node[map[x]] \in Entries /\ node[map[x]].key = x
        /\ map[k] \in Nodes /\ node[map[k]] \in Entries /\ node[map[k]].key = k
    BY <1>1, EntryAt
  <2>2. node'[map[k]] = [node[map[k]] EXCEPT !.value = v] /\ node'[map[k]].value = v
    BY <1>1, <2>1 DEF Described, Entries
  <2>3. x # k => map[x] # map[k] /\ node'[map[x]] = node[map[x]]
    BY <1>1, <2>1 DEF Described
  <2> QED BY <2>2, <2>3
<1>6. ValueOf(node', map') = [ValueOf(node, map) EXCEPT ![k] = v]
  BY <1>5 DEF ValueOf
<1>7. Recency!Overwrite(k, v)
  BY <1>1, <1>2, <1>3, <1>4, <1>6, Mapped, OverwriteIs
<1> QED BY <1>7 DEF Recency!Next

\* insert and set of a key that is not cached: the entry is added as the last
\* used, then the oldest make room.
LEMMA AddRefines ==
  ASSUME Inv, NEW k \in Keys, NEW v \in Values, insert_new(k, v),
         result' = Absent \/ result' \in front_of(lru')
  PROVE  Recency!Next
<1>1. PICK n \in Nodes : /\ map[k] = Absent
                         /\ node[n] = Absent
                         /\ maybe_trim(<<n>> \o lru,
                                       [node EXCEPT ![n] = [key |-> k, value |-> v]],
                                       [map EXCEPT ![k] = n],
                                       max_size)
                         /\ max_size' = max_size
  BY DEF insert_new
<1> DEFINE l == <<n>> \o lru
           c == [node EXCEPT ![n] = [key |-> k, value |-> v]]
           m == [map EXCEPT ![k] = n]
<1>2. /\ l \in Seq(Nodes) /\ Len(l) > 0 /\ l[1] = n
      /\ c \in [Nodes -> Entries \cup {Absent}]
      /\ m \in [Keys -> Nodes \cup {Absent}]
      /\ OneSetOfEntries(l, c, m)
  BY <1>1, PushLemma DEF Inv
<1>3. Described(lru, node, map) /\ max_size \in (Sizes \ {0}) \cup {Unbounded}
  BY CacheDescribed
<1>4. PushedFront(lru, l, n)
  <2>1. lru \in Seq(Nodes) /\ Len(lru) \in Nat
    BY <1>3, SeqFacts DEF Described
  <2>2. <<n>> \in Seq(Nodes) /\ Len(<<n>>) = 1 /\ <<n>>[1] = n
    OBVIOUS
  <2>3. /\ Len(<<n>> \o lru) = 1 + Len(lru)
        /\ \A i \in 1 .. 1 + Len(lru) : (<<n>> \o lru)[i] = IF i <= 1 THEN <<n>>[i] ELSE lru[i - 1]
    BY <2>1, <2>2, ConcatProperties
  <2>4. l[1] = n /\ \A j \in 1 .. Len(lru) : l[j + 1] = lru[j]
    BY <2>1, <2>2, <2>3
  <2> QED BY <2>3, <2>4 DEF PushedFront
<1>5. Entered(node, c, map, m, k, v, n)
  BY <1>1, <1>3 DEF Entered, Described
<1>6. c[n].value = v /\ maybe_trim(l, c, m, max_size) /\ Described(l, c, m)
  BY <1>1, <1>2, <1>5 DEF Entered, Described
<1> HIDE DEF l, c, m
<1>7. /\ KeysOf(m) = KeysOf(map) \cup {k}
      /\ ValueOf(c, m) = WithEntry(ValueOf(node, map), k, v)
      /\ NewerIn(l, m) = UsedLastIn(NewerIn(lru, map), k, KeysOf(map))
  BY <1>3, <1>4, <1>5, <1>6, PushUses
<1>8. DOMAIN ValueOf(node, map) = KeysOf(map) /\ DOMAIN ValueOf(c, m) = KeysOf(m)
  BY DEF ValueOf
<1> DEFINE kept == KeysOf(map')
<1>9. /\ Recency!KeptOf(ValueOf(c, m), NewerIn(l, m), kept, max_size)
       /\ ValueOf(node', map') = [x \in kept |-> ValueOf(c, m)[x]]
       /\ NewerIn(lru', map') = NewerIn(l, m) \cap (kept \X kept)
  BY <1>3, <1>6, TrimKeeps
<1>10. kept \in SUBSET (KeysOf(map) \cup {k})
  BY <1>7, <1>8, <1>9 DEF Recency!KeptOf
<1>11. AbsAnswer' \in {Absent, v}
  <2>1. /\ lru' \in Seq(Nodes) /\ OneSetOfEntries(lru', node', map')
        /\ Len(lru') > 0 /\ lru'[1] = n
    BY <1>2, <1>3, <1>6, TrimLemma DEF Described, l
  <2>2. result' = Absent \/ result' = n
    <3>1. lru' # <<>>
      BY <2>1, EmptySeq
    <3> QED BY <2>1, <3>1 DEF front_of
  <2>3. node'[n] # Absent
    <3>1. In(n, lru')
      <4>1. DOMAIN lru' = 1 .. Len(lru') /\ Len(lru') \in Nat
        BY <2>1, SeqFacts
      <4> QED BY <2>1, <4>1 DEF In
    <3> QED BY <2>1, <3>1 DEF OneSetOfEntries, ListToMap
  <2>4. node'[n] = c[n]
    BY <1>6, <2>3 DEF maybe_trim
  <2> QED BY <1>6, <2>2, <2>4 DEF AbsAnswer
<1>12. k \notin DOMAIN AbsValue /\ DOMAIN AbsValue = KeysOf(map)
  BY <1>1, <1>8, Mapped DEF KeysOf
<1> HIDE DEF kept
<1>13. Recency!Add(k, v)
  BY <1>1, <1>7, <1>9, <1>10, <1>11, <1>12, Mapped, AddIs
<1> QED BY <1>13 DEF Recency!Next

LEMMA StepRefines == Inv /\ [Next]_vars => [Recency!Next]_(Recency!vars)
<1> SUFFICES ASSUME Inv, [Next]_vars PROVE [Recency!Next]_(Recency!vars)
  OBVIOUS
<1>1. ASSUME NEW s \in Sizes \cup {Unbounded}, set_max_size(s) PROVE Recency!Next
  BY <1>1, ResizeRefines
<1>2. ASSUME NEW k \in Keys, maybe_touch(k) \/ maybe_get(k) PROVE Recency!Next
  <2>1. /\ lru' = IF map[k] = Absent THEN lru ELSE touch(map[k], lru)
        /\ result' \in {Absent, map[k]}
        /\ node' = node /\ map' = map /\ max_size' = max_size
    BY <1>2 DEF maybe_touch, maybe_get
  <2>2. CASE map[k] = Absent
    BY <2>1, <2>2, MissRefines
  <2>3. CASE map[k] # Absent
    BY <2>1, <2>3, UseRefines
  <2> QED BY <2>2, <2>3
<1>3. ASSUME NEW k \in Keys, NEW v \in Values, insert(k, v) PROVE Recency!Next
  <2>1. CASE insert_new(k, v) /\ result' \in front_of(lru')
    BY <2>1, AddRefines
  <2>2. CASE result' = Absent /\ UNCHANGED <<lru, node, map, max_size>>
    BY <2>2, MissRefines
  <2> QED BY <1>3, <2>1, <2>2 DEF insert
<1>4. ASSUME NEW k \in Keys, NEW v \in Values, set(k, v) PROVE Recency!Next
  <2>1. CASE insert_new(k, v) /\ result' = Absent
    BY <2>1, AddRefines
  <2>2. CASE /\ map[k] # Absent /\ lru' = touch(map[k], lru)
             /\ node' = [node EXCEPT ![map[k]].value = v]
             /\ result' = Absent /\ UNCHANGED <<map, max_size>>
    BY <2>2, OverwriteRefines
  <2> QED BY <1>4, <2>1, <2>2 DEF set
<1>5. CASE UNCHANGED vars
  <2>1. AbsAnswer' = AbsAnswer /\ AbsValue' = AbsValue /\ AbsNewer' = AbsNewer /\ max_size' = max_size
    BY <1>5 DEF vars, AbsAnswer, AbsValue, AbsNewer, Cached
  <2> QED BY <2>1 DEF Recency!vars, AbsAnswer, AbsValue, AbsNewer
<1> QED BY <1>1, <1>2, <1>3, <1>4, <1>5 DEF Next

LEMMA InitRefines == Init => Recency!Init
<1> SUFFICES ASSUME Init PROVE Recency!Init
  OBVIOUS
<1>1. Cached = {}
  BY DEF Init, Cached
<1>2. AbsValue = [k \in {} |-> Absent] /\ AbsNewer = {} /\ AbsAnswer = Absent
  BY <1>1 DEF AbsValue, AbsNewer, AbsAnswer, Init
<1>3. max_size \in {s \in Sizes : s > 0} \cup {Unbounded}
  BY CacheAssumption DEF Init, ValidSize
<1> QED BY <1>2, <1>3 DEF Recency!Init, AbsValue, AbsNewer, AbsAnswer

\* List, map and iterators are a cache that remembers what was last set for
\* each key and forgets the least recently used ones only, for every size.
THEOREM Refinement == Spec => ImplementsRecencyCache
BY InitRefines, StepRefines, SpecInv, PTL DEF Spec, ImplementsRecencyCache, Recency!Spec

-----------------------------------------------------------------------------
\* The resolver.  The recursive functions of DwarfResolver satisfy their own equations.

LEMMA JoinUnfolds ==
  ASSUME NEW ranges \in Seq(AddressRange)
  PROVE  \E vec : /\ rangelist_entries(ranges) = vec[Len(ranges)]
                  /\ vec[0] = <<>>
                  /\ \A n \in 1 .. Len(ranges) :
                       vec[n] = IF Joins(vec[n - 1], ranges[n])
                                THEN [vec[n - 1] EXCEPT ![Len(vec[n - 1])] = <<@[1], ranges[n][2]>>]
                                ELSE Append(vec[n - 1], ranges[n])
<1> DEFINE N == Len(ranges)
           next(v, n) == IF Joins(v, ranges[n])
                         THEN [v EXCEPT ![Len(v)] = <<@[1], ranges[n][2]>>]
                         ELSE Append(v, ranges[n])
           Body(f) == [n \in 0 .. N |-> IF n = 0 THEN <<>> ELSE next(f[n - 1], n)]
           X == Seq(Nat \X Nat)
           step_ == [p \in X \X (1 .. N) |-> next(p[1], p[2])]
           vec == CHOOSE f : f = Body(f)
<1>1. N \in Nat /\ \A n \in 1 .. N : ranges[n] \in Nat \X Nat
  BY DEF AddressRange
<1>2. step_ \in [X \X (1 .. N) -> X]
  <2>1. ASSUME NEW v \in X, NEW n \in 1 .. N PROVE next(v, n) \in X
    <3>0. ranges[n] \in Nat \X Nat
      BY <1>1
    <3>1. CASE Joins(v, ranges[n])
      <4>1. Len(v) \in 1 .. Len(v)
        BY <3>1 DEF Joins
      <4>2. v[Len(v)] \in Nat \X Nat
        BY <4>1
      <4>3. <<v[Len(v)][1], ranges[n][2]>> \in Nat \X Nat
        BY <3>0, <4>2
      <4>4. [v EXCEPT ![Len(v)] = <<v[Len(v)][1], ranges[n][2]>>] \in X
        BY <4>1, <4>3
      <4> QED BY <3>1, <4>4
    <3>2. CASE ~Joins(v, ranges[n])
      <4>1. Append(v, ranges[n]) \in X
        BY <3>0
      <4> QED BY <3>2, <4>1
    <3> QED BY <3>1, <3>2
  <2> HIDE DEF next, X
  <2> QED BY <2>1
<1>3. <<>> \in X
  OBVIOUS
<1>4. PICK f \in [0 .. N -> X] : f[0] = <<>> /\ \A n \in 1 .. N : f[n] = step_[<<f[n - 1], n>>]
  <2>1. N \in Nat
    BY <1>1
  <2> HIDE DEF step_, N, X
  <2>2. \E f : Recursive(f, X, N, <<>>, step_)
    BY <1>2, <1>3, <2>1, Recursion
  <2> QED BY <2>2 DEF Recursive
<1> HIDE DEF next, X
<1>5. \A n \in 1 .. N : f[n] = next(f[n - 1], n)
  <2> SUFFICES ASSUME NEW n \in 1 .. N PROVE f[n] = next(f[n - 1], n)
    OBVIOUS
  <2>1. n - 1 \in 0 .. N
    BY <1>1
  <2>2. <<f[n - 1], n>> \in X \X (1 .. N)
    BY <2>1
  <2> QED BY <1>4, <2>2
<1>6. f = Body(f)
  <2>1. ASSUME NEW n \in 0 .. N PROVE f[n] = Body(f)[n]
    <3>1. Body(f)[n] = IF n = 0 THEN <<>> ELSE next(f[n - 1], n)
      OBVIOUS
    <3>2. n = 0 \/ n \in 1 .. N
      BY <1>1
    <3> QED BY <3>1, <3>2, <1>4, <1>5
  <2>2. f = [n \in 0 .. N |-> f[n]] /\ Body(f) = [n \in 0 .. N |-> Body(f)[n]]
    BY <1>4
  <2> HIDE DEF Body
  <2> QED BY <2>1, <2>2
<1>7. vec = Body(vec)
  <2> HIDE DEF Body
  <2> QED BY <1>6
<1>8. rangelist_entries(ranges) = vec[N]
  BY DEF rangelist_entries, next
<1>9. vec[0] = <<>>
  <2>1. Body(vec)[0] = <<>>
    BY <1>1
  <2> HIDE DEF Body, vec
  <2> QED BY <1>7, <2>1
<1>10. \A n \in 1 .. N : vec[n] = next(vec[n - 1], n)
  <2> HIDE DEF vec
  <2>1. \A n \in 1 .. N : Body(vec)[n] = next(vec[n - 1], n)
    BY <1>1
  <2> HIDE DEF Body
  <2> QED BY <1>7, <2>1
<1> HIDE DEF vec
<1> QED BY <1>8, <1>9, <1>10 DEF next

LEMMA MaxOrTyped ==
  ASSUME NEW N \in Nat, NEW n \in Nat, NEW S, S \subseteq 0 .. N
  PROVE  MaxOr(S, n) \in Nat
<1>1. CASE S = {}
  BY <1>1 DEF MaxOr
<1>2. CASE S # {}
  <2> DEFINE D == {N - m : m \in S}
  <2>1. D \subseteq Nat /\ D # {}
    BY <1>2
  <2>2. PICK d \in D : \A m \in D : d <= m
    <3> HIDE DEF D
    <3> QED BY <2>1, LeastNumber
  <2>3. PICK m \in S : d = N - m
    BY <2>2
  <2>4. \A o \in S : o <= m
    <3> SUFFICES ASSUME NEW o \in S PROVE o <= m
      OBVIOUS
    <3>1. N - o \in D
      OBVIOUS
    <3>2. N - m <= N - o /\ m \in Nat /\ o \in Nat
      BY <2>2, <2>3, <3>1
    <3> QED BY <3>2
  <2>5. MaxOr(S, n) \in S
    BY <1>2, <2>4 DEF MaxOr
  <2>6. S \subseteq Nat
    OBVIOUS
  <2> QED BY <2>5, <2>6
<1> QED BY <1>1, <1>2

\* What a walk does with a row.
WalkNext(rows, a, w, n) ==
  IF rows[n].addr = a
  THEN [w EXCEPT !.found = MaxOr({j \in n .. Len(rows) : rows[j].addr = a}, n)]
  ELSE IF w.last # None /\ rows[w.last].addr < a /\ a < rows[n].addr
  THEN [w EXCEPT !.found = w.last]
  ELSE [w EXCEPT !.last = IF rows[n].end THEN None ELSE n]

LEMMA WalkUnfolds ==
  ASSUME NEW rows \in Seq([addr : Nat, end : BOOLEAN]), NEW a \in Nat
  PROVE  \E walk \in [0 .. Len(rows) -> [last : Nat, found : Nat]] :
           /\ walk_line(rows, a) = walk[Len(rows)].found
           /\ walk[0] = [last |-> None, found |-> None]
           /\ \A n \in 1 .. Len(rows) : walk[n] = WalkNext(rows, a, walk[n - 1], n)
<1> DEFINE N == Len(rows)
           X == [last : Nat, found : Nat]
           first == [last |-> None, found |-> None]
           Max_(n) == MaxOr({j \in n .. Len(rows) : rows[j].addr = a}, n)
           next(w, n) == IF rows[n].addr = a THEN [w EXCEPT !.found = Max_(n)]
                         ELSE IF w.last # None /\ rows[w.last].addr < a /\ a < rows[n].addr
                         THEN [w EXCEPT !.found = w.last]
                         ELSE [w EXCEPT !.last = IF rows[n].end THEN None ELSE n]
           Body(f) == [n \in 0 .. N |-> IF n = 0 THEN first ELSE next(f[n - 1], n)]
           step_ == [p \in X \X (1 .. N) |-> next(p[1], p[2])]
           walk == CHOOSE f : f = Body(f)
<1>1. N \in Nat
  OBVIOUS
<1>2. step_ \in [X \X (1 .. N) -> X]
  <2>1. ASSUME NEW w \in X, NEW n \in 1 .. N PROVE next(w, n) \in X
    <3>1. n \in Nat /\ Max_(n) \in Nat
      <4>1. n \in Nat
        BY <1>1
      <4>2. {j \in n .. Len(rows) : rows[j].addr = a} \subseteq 0 .. Len(rows) /\ Len(rows) \in Nat
        BY <4>1
      <4> QED BY <4>1, <4>2, MaxOrTyped
    <3> HIDE DEF Max_
    <3> QED BY <3>1 DEF None
  <2> HIDE DEF next, X
  <2> QED BY <2>1
<1>3. first \in X
  BY DEF None
<1>4. PICK f \in [0 .. N -> X] : f[0] = first /\ \A n \in 1 .. N : f[n] = step_[<<f[n - 1], n>>]
  <2>1. N \in Nat
    BY <1>1
  <2> HIDE DEF step_, N, X, first
  <2>2. \E f : Recursive(f, X, N, first, step_)
    BY <1>2, <1>3, <2>1, Recursion
  <2> QED BY <2>2 DEF Recursive
<1> HIDE DEF next, X, first
<1>5. \A n \in 1 .. N : f[n] = next(f[n - 1], n)
  <2> SUFFICES ASSUME NEW n \in 1 .. N PROVE f[n] = next(f[n - 1], n)
    OBVIOUS
  <2>1. n - 1 \in 0 .. N
    BY <1>1
  <2>2. <<f[n - 1], n>> \in X \X (1 .. N)
    BY <2>1
  <2> QED BY <1>4, <2>2
<1>6. f = Body(f)
  <2>1. ASSUME NEW n \in 0 .. N PROVE f[n] = Body(f)[n]
    <3>1. Body(f)[n] = IF n = 0 THEN first ELSE next(f[n - 1], n)
      OBVIOUS
    <3>2. n = 0 \/ n \in 1 .. N
      BY <1>1
    <3> QED BY <3>1, <3>2, <1>4, <1>5
  <2>2. f = [n \in 0 .. N |-> f[n]] /\ Body(f) = [n \in 0 .. N |-> Body(f)[n]]
    BY <1>4
  <2> HIDE DEF Body
  <2> QED BY <2>1, <2>2
<1>7. walk = Body(walk)
  <2> HIDE DEF Body
  <2> QED BY <1>6
<1>8. walk_line(rows, a) = walk[N].found
  BY DEF walk_line, next, first
<1>9. walk[0] = first
  <2>1. Body(walk)[0] = first
    BY <1>1
  <2> HIDE DEF Body, walk
  <2> QED BY <1>7, <2>1
<1>10. \A n \in 1 .. N : walk[n] = next(walk[n - 1], n)
  <2> HIDE DEF walk
  <2>1. \A n \in 1 .. N : Body(walk)[n] = next(walk[n - 1], n)
    BY <1>1
  <2> HIDE DEF Body
  <2> QED BY <1>7, <2>1
<1> HIDE DEF walk
<1>11. walk \in [0 .. N -> X]
  <2> DEFINE G == {n \in Nat : n <= N => walk[n] = f[n]}
  <2>1. 0 \in G
    BY <1>4, <1>9
  <2>2. ASSUME NEW n \in Nat, n \in G PROVE n + 1 \in G
    <3>1. CASE n + 1 <= N
      <4>1. n + 1 \in 1 .. N /\ (n + 1) - 1 = n /\ n <= N
        BY <1>1, <3>1
      <4>2. walk[n + 1] = next(walk[(n + 1) - 1], n + 1) /\ f[n + 1] = next(f[(n + 1) - 1], n + 1)
        BY <1>5, <1>10, <4>1
      <4>3. walk[n] = f[n]
        BY <2>2, <4>1
      <4> QED BY <4>1, <4>2, <4>3
    <3> QED BY <3>1
  <2>3. \A n \in Nat : n \in G
    <3> HIDE DEF G
    <3> QED BY <2>1, <2>2, Induction
  <2>4. \A n \in 0 .. N : walk[n] = f[n]
    BY <2>3, <1>1
  <2>5. walk = [n \in 0 .. N |-> walk[n]]
    <3> HIDE DEF N
    <3> QED BY <1>7
  <2>6. f = [n \in 0 .. N |-> f[n]]
    BY <1>4
  <2>7. walk = f
    BY <2>4, <2>5, <2>6
  <2> QED BY <1>4, <2>7
<1>12. \A w, n : next(w, n) = WalkNext(rows, a, w, n)
  BY DEF next, WalkNext
<1>13. \A n \in 1 .. N : walk[n] = WalkNext(rows, a, walk[n - 1], n)
  BY <1>10, <1>12
<1> QED BY <1>8, <1>9, <1>11, <1>13 DEF X, first
-----------------------------------------------------------------------------
\* v is what joining makes of the first n ranges: every one lies in one of v,
\* each of v starts where one of them does, and no two of v start together.
JoinedUpTo(v, ranges, n) ==
  /\ v \in Seq(AddressRange)
  /\ \A p \in 1 .. n : \E k \in 1 .. Len(v) : v[k][1] <= ranges[p][1] /\ ranges[p][2] <= v[k][2]
  /\ \A k \in 1 .. Len(v) : \E p \in 1 .. n : v[k][1] = ranges[p][1]
  /\ \A j, k \in 1 .. Len(v) : v[j][1] = v[k][1] => j = k

LEMMA JoinStep ==
  ASSUME NEW ranges \in Seq(AddressRange), NEW n \in 1 .. Len(ranges), NEW v, NEW w,
         \A p, q \in 1 .. Len(ranges) : ranges[p][1] = ranges[q][1] => p = q,
         JoinedUpTo(v, ranges, n - 1),
         w = IF Joins(v, ranges[n])
             THEN [v EXCEPT ![Len(v)] = <<@[1], ranges[n][2]>>]
             ELSE Append(v, ranges[n])
  PROVE  JoinedUpTo(w, ranges, n)
<1>0. /\ v \in Seq(AddressRange) /\ Len(v) \in Nat /\ Len(ranges) \in Nat /\ n \in Nat /\ n - 1 \in Nat
      /\ \A p \in 1 .. n - 1 : p \in 1 .. Len(ranges) /\ p # n
      /\ \A p \in 1 .. n : p \in 1 .. n - 1 \/ p = n
  BY DEF JoinedUpTo
<1>1. \A p \in 1 .. Len(ranges) : /\ ranges[p] = <<ranges[p][1], ranges[p][2]>>
                                  /\ ranges[p][1] \in Nat /\ ranges[p][2] \in Nat
                                  /\ ranges[p][1] < ranges[p][2]
  <2>1. \A r \in AddressRange : r = <<r[1], r[2]>> /\ r[1] \in Nat /\ r[2] \in Nat /\ r[1] < r[2]
    BY DEF AddressRange
  <2>2. \A p \in 1 .. Len(ranges) : ranges[p] \in AddressRange
    OBVIOUS
  <2> QED BY <2>1, <2>2
<1>2. \A k \in 1 .. Len(v) : v[k][1] \in Nat /\ v[k][2] \in Nat /\ v[k][1] < v[k][2]
  BY <1>0, SMTT(30) DEF AddressRange
<1>3. /\ \A p \in 1 .. n - 1 : \E k \in 1 .. Len(v) : v[k][1] <= ranges[p][1] /\ ranges[p][2] <= v[k][2]
      /\ \A k \in 1 .. Len(v) : \E p \in 1 .. n - 1 : v[k][1] = ranges[p][1]
      /\ \A j, k \in 1 .. Len(v) : v[j][1] = v[k][1] => j = k
  BY DEF JoinedUpTo
<1>4. CASE Joins(v, ranges[n])
  <2> DEFINE l == Len(v)
             e == <<v[l][1], ranges[n][2]>>
  <2>1. l \in 1 .. l /\ ranges[n][1] - v[l][2] \in {0, 1}
    BY <1>0, <1>4 DEF Joins
  <2>2. w = [v EXCEPT ![l] = e]
    BY <1>4
  <2>3. v[l][1] < v[l][2] /\ v[l][2] <= ranges[n][1] /\ ranges[n][1] < ranges[n][2]
    BY <1>1, <1>2, <2>1
  <2>4. e \in AddressRange /\ e[1] = v[l][1] /\ e[2] = ranges[n][2]
    <3>1. v[l][1] \in Nat /\ v[l][2] \in Nat /\ ranges[n][1] \in Nat /\ ranges[n][2] \in Nat
      BY <1>1, <1>2, <2>1
    <3>2. v[l][1] < ranges[n][2]
      BY <2>3, <3>1, SMTT(30)
    <3> QED BY <3>1, <3>2 DEF AddressRange
  <2> HIDE DEF e
  <2>5. w \in Seq(AddressRange) /\ Len(w) = l /\ w[l] = e /\ \A k \in 1 .. l : k # l => w[k] = v[k]
    <3> HIDE DEF l
    <3>1. [v EXCEPT ![l] = e] \in Seq(AddressRange) /\ Len([v EXCEPT ![l] = e]) = Len(v)
      BY <1>0, <2>1, <2>4, ExceptSeq DEF l
    <3>2. \A k \in 1 .. Len(v) : [v EXCEPT ![l] = e][k] = IF k = l THEN e ELSE v[k]
      BY <1>0, <2>1, <2>4, ExceptSeq DEF l
    <3> QED BY <2>1, <2>2, <3>1, <3>2 DEF l
  <2>0. l \in Nat /\ l = Len(v)
    BY <1>0
  <2> HIDE DEF l
  <2>6. \A k \in 1 .. l : w[k][1] = v[k][1] /\ v[k][2] <= w[k][2]
    <3> SUFFICES ASSUME NEW k \in 1 .. l PROVE w[k][1] = v[k][1] /\ v[k][2] <= w[k][2]
      OBVIOUS
    <3>1. CASE k = l
      <4>1. v[l][2] \in Nat /\ ranges[n][1] \in Nat /\ ranges[n][2] \in Nat
        BY <1>1, <1>2, <2>1 DEF l
      <4> QED BY <2>3, <2>4, <2>5, <3>1, <4>1
    <3>2. CASE k # l
      <4>1. v[k][2] \in Nat
        BY <1>2 DEF l
      <4> QED BY <2>5, <3>2, <4>1
    <3> QED BY <3>1, <3>2
  <2>7. ASSUME NEW p \in 1 .. n
        PROVE  \E k \in 1 .. l : w[k][1] <= ranges[p][1] /\ ranges[p][2] <= w[k][2]
    <3>1. CASE p = n
      <4>1. w[l][1] = v[l][1] /\ w[l][2] = ranges[n][2]
        BY <2>4, <2>5
      <4>2. v[l][1] \in Nat /\ v[l][2] \in Nat /\ ranges[n][1] \in Nat /\ ranges[n][2] \in Nat
        BY <1>1, <1>2, <2>1 DEF l
      <4>3. w[l][1] <= ranges[n][1] /\ ranges[n][2] <= w[l][2]
        <5>1. \A x, y, z \in Nat : x < y /\ y <= z => x <= z
          OBVIOUS
        <5>2. v[l][1] <= ranges[n][1]
          BY <2>3, <4>2, <5>1
        <5>3. w[l][1] <= ranges[n][1]
          BY <4>1, <5>2
        <5>4. \A x \in Nat : x <= x
          OBVIOUS
        <5>5. ranges[n][2] <= w[l][2]
          BY <4>1, <4>2, <5>4
        <5> QED BY <5>3, <5>5
      <4> QED BY <2>1, <3>1, <4>3
    <3>2. CASE p \in 1 .. n - 1
      <4>1. PICK k \in 1 .. l : v[k][1] <= ranges[p][1] /\ ranges[p][2] <= v[k][2]
        BY <1>3, <3>2 DEF l
      <4>2. w[k][1] = v[k][1] /\ v[k][2] <= w[k][2]
        BY <2>6
      <4>3. v[k][2] \in Nat /\ w[k][2] \in Nat /\ ranges[p][2] \in Nat
        <5>1. k \in 1 .. Len(v) /\ p \in 1 .. Len(ranges) /\ k \in 1 .. Len(w)
          BY <1>0, <2>0, <2>5, <3>2
        <5>2. w[k] \in AddressRange
          BY <2>5, <5>1
        <5>3. \A r \in AddressRange : r[2] \in Nat
          BY DEF AddressRange
        <5> QED BY <1>1, <1>2, <5>1, <5>2, <5>3
      <4>4. w[k][1] <= ranges[p][1] /\ ranges[p][2] <= w[k][2]
        <5>1. \A x, y, z \in Nat : x <= y /\ y <= z => x <= z
          OBVIOUS
        <5> QED BY <4>1, <4>2, <4>3, <5>1
      <4> QED BY <4>4
    <3> QED BY <1>0, <3>1, <3>2
  <2>8. \A k \in 1 .. l : \E p \in 1 .. n : w[k][1] = ranges[p][1]
    BY <1>0, <1>3, <2>6 DEF l
  <2>9. \A j, k \in 1 .. l : w[j][1] = w[k][1] => j = k
    BY <1>3, <2>6 DEF l
  <2> QED BY <2>5, <2>7, <2>8, <2>9 DEF JoinedUpTo
<1>5. CASE ~Joins(v, ranges[n])
  <2> DEFINE l == Len(v) + 1
             e == ranges[n]
  <2>1. w = Append(v, e) /\ e \in AddressRange
    BY <1>5
  <2> HIDE DEF e
  <2>2. /\ w \in Seq(AddressRange) /\ Len(w) = l /\ w[l] = e /\ l \in 1 .. l
        /\ \A k \in 1 .. Len(v) : w[k] = v[k] /\ k \in 1 .. l
        /\ \A k \in 1 .. l : k \in 1 .. Len(v) \/ k = l
    BY <1>0, <2>1
  <2> HIDE DEF l
  <2>3. ASSUME NEW p \in 1 .. n
        PROVE  \E k \in 1 .. l : w[k][1] <= ranges[p][1] /\ ranges[p][2] <= w[k][2]
    <3>1. CASE p = n
      <4>1. ranges[n][1] \in Nat /\ ranges[n][2] \in Nat
        BY <1>1
      <4>2. w[l][1] <= ranges[n][1] /\ ranges[n][2] <= w[l][2]
        BY <2>2, <4>1 DEF e
      <4> QED BY <2>2, <3>1, <4>2
    <3>2. CASE p \in 1 .. n - 1
      BY <1>3, <2>2, <3>2
    <3> QED BY <1>0, <3>1, <3>2
  <2>4. \A k \in 1 .. l : \E p \in 1 .. n : w[k][1] = ranges[p][1]
    <3> SUFFICES ASSUME NEW k \in 1 .. l PROVE \E p \in 1 .. n : w[k][1] = ranges[p][1]
      OBVIOUS
    <3>1. CASE k = l
      <4>1. n \in 1 .. n
        BY <1>0
      <4> QED BY <2>2, <3>1, <4>1 DEF e
    <3>2. CASE k \in 1 .. Len(v)
      <4>1. \A p \in 1 .. n - 1 : p \in 1 .. n
        BY <1>0
      <4>2. w[k] = v[k]
        BY <2>2, <3>2
      <4>3. PICK p \in 1 .. n - 1 : v[k][1] = ranges[p][1]
        BY <1>3, <3>2
      <4> QED BY <4>1, <4>2, <4>3
    <3> QED BY <2>2, <3>1, <3>2
  <2>5. \A k \in 1 .. Len(v) : v[k][1] # e[1]
    <3> SUFFICES ASSUME NEW k \in 1 .. Len(v), v[k][1] = e[1] PROVE FALSE
      OBVIOUS
    <3>1. PICK p \in 1 .. n - 1 : v[k][1] = ranges[p][1]
      BY <1>3
    <3>2. p = n
      BY <1>0, <3>1 DEF e
    <3> QED BY <1>0, <3>2
  <2>6. \A j, k \in 1 .. l : w[j][1] = w[k][1] => j = k
    <3> SUFFICES ASSUME NEW j \in 1 .. l, NEW k \in 1 .. l, w[j][1] = w[k][1] PROVE j = k
      OBVIOUS
    <3>1. CASE j \in 1 .. Len(v) /\ k \in 1 .. Len(v)
      <4>1. v[j][1] = v[k][1]
        BY <2>2, <3>1
      <4> QED BY <1>3, <3>1, <4>1
    <3>2. CASE j = l /\ k \in 1 .. Len(v)
      <4>1. v[k][1] = e[1]
        BY <2>2, <3>2
      <4> QED BY <2>5, <3>2, <4>1
    <3>3. CASE j \in 1 .. Len(v) /\ k = l
      <4>1. v[j][1] = e[1]
        BY <2>2, <3>3
      <4> QED BY <2>5, <3>3, <4>1
    <3> QED BY <2>2, <3>1, <3>2, <3>3
  <2> QED BY <2>2, <2>3, <2>4, <2>6 DEF JoinedUpTo
<1> QED BY <1>4, <1>5

LEMMA RangesJoined ==
  ASSUME NEW ranges \in Seq(AddressRange),
         \A p, q \in 1 .. Len(ranges) : ranges[p][1] = ranges[q][1] => p = q
  PROVE  JoinedUpTo(rangelist_entries(ranges), ranges, Len(ranges))
<1>1. PICK vec : /\ rangelist_entries(ranges) = vec[Len(ranges)]
                 /\ vec[0] = <<>>
                 /\ \A n \in 1 .. Len(ranges) :
                      vec[n] = IF Joins(vec[n - 1], ranges[n])
                               THEN [vec[n - 1] EXCEPT ![Len(vec[n - 1])] = <<@[1], ranges[n][2]>>]
                               ELSE Append(vec[n - 1], ranges[n])
  BY JoinUnfolds
<1> DEFINE G == {n \in Nat : n <= Len(ranges) => JoinedUpTo(vec[n], ranges, n)}
<1>2. 0 \in G
  <2>1. JoinedUpTo(<<>>, ranges, 0)
    BY DEF JoinedUpTo
  <2> QED BY <1>1, <2>1
<1>3. ASSUME NEW n \in Nat, n \in G PROVE n + 1 \in G
  <2> SUFFICES ASSUME n + 1 <= Len(ranges) PROVE JoinedUpTo(vec[n + 1], ranges, n + 1)
    OBVIOUS
  <2>1. n + 1 \in 1 .. Len(ranges) /\ (n + 1) - 1 = n /\ n <= Len(ranges)
    OBVIOUS
  <2>2. JoinedUpTo(vec[(n + 1) - 1], ranges, (n + 1) - 1)
    BY <1>3, <2>1
  <2>3. vec[n + 1] = IF Joins(vec[(n + 1) - 1], ranges[n + 1])
                     THEN [vec[(n + 1) - 1] EXCEPT ![Len(vec[(n + 1) - 1])] = <<@[1], ranges[n + 1][2]>>]
                     ELSE Append(vec[(n + 1) - 1], ranges[n + 1])
    BY <1>1, <2>1
  <2> HIDE DEF G
  <2> QED BY <2>1, <2>2, <2>3, JoinStep
<1>4. Len(ranges) \in G
  <2>1. Len(ranges) \in Nat
    OBVIOUS
  <2> HIDE DEF G
  <2> QED BY <1>2, <1>3, <2>1, Induction
<1>5. Len(ranges) <= Len(ranges)
  OBVIOUS
<1> QED BY <1>1, <1>4, <1>5

-----------------------------------------------------------------------------
\* What range maps are made of: CUs, and the functions of a CU.
Items(items) ==
  /\ Len(items) \in Nat /\ DOMAIN items = 1 .. Len(items)
  /\ \A i \in DOMAIN items : items[i].ranges \in Seq(AddressRange)
  /\ Apart(items)

\* No address is held by two items.
LEMMA HeldByOne ==
  ASSUME NEW items, Items(items), NEW i \in DOMAIN items, NEW j \in DOMAIN items, NEW a \in Nat,
         Holds(items[i].ranges, a), Holds(items[j].ranges, a)
  PROVE  i = j
<1>1. PICK p \in DOMAIN items[i].ranges : items[i].ranges[p][1] <= a /\ a < items[i].ranges[p][2]
  BY DEF Holds
<1>2. PICK q \in DOMAIN items[j].ranges : items[j].ranges[q][1] <= a /\ a < items[j].ranges[q][2]
  BY DEF Holds
<1>3. items[i].ranges[p] \in AddressRange /\ items[j].ranges[q] \in AddressRange
  BY DEF Items
<1>4. \A r \in AddressRange : r[1] \in Nat /\ r[2] \in Nat
  BY DEF AddressRange
<1>5. \/ i = j /\ p = q
      \/ items[i].ranges[p][2] <= items[j].ranges[q][1]
      \/ items[j].ranges[q][2] <= items[i].ranges[p][1]
  BY DEF Items, Apart
<1>6. \A x, y, b \in Nat : x <= b /\ b < y => ~(y <= x)
  OBVIOUS
<1>7. \A x, y, b \in Nat : x <= y /\ y <= b => x <= b
  OBVIOUS
<1>8. \A x, b \in Nat : x <= b => ~(b < x)
  OBVIOUS
<1> DEFINE x1 == items[i].ranges[p][1]  x2 == items[i].ranges[p][2]
           y1 == items[j].ranges[q][1]  y2 == items[j].ranges[q][2]
<1>9. x1 \in Nat /\ x2 \in Nat /\ y1 \in Nat /\ y2 \in Nat
  BY <1>3, <1>4
<1>10. x1 <= a /\ a < x2 /\ y1 <= a /\ a < y2 /\ (i = j \/ x2 <= y1 \/ y2 <= x1)
  BY <1>1, <1>2, <1>5
<1> HIDE DEF x1, x2, y1, y2
<1> QED BY <1>9, <1>10

\* The item that holds an address, if one does, is the one the debugging
\* information names.
LEMMA MaxOrOfOne ==
  ASSUME NEW n \in Nat, NEW S, S = {n} PROVE MaxOr(S, None) = n
<1>1. {n} # {} /\ \A m \in {n} : (\A o \in {n} : o <= m) /\ m = n
  OBVIOUS
<1> QED BY <1>1 DEF MaxOr

LEMMA TheHolder ==
  ASSUME NEW items, Items(items), NEW a \in Nat
  PROVE  LET h == MaxOr({i \in DOMAIN items : Holds(items[i].ranges, a)}, None)
         IN /\ h = None => \A i \in DOMAIN items : ~Holds(items[i].ranges, a)
            /\ h # None => h \in DOMAIN items /\ Holds(items[h].ranges, a)
            /\ \A i \in DOMAIN items : Holds(items[i].ranges, a) => i = h
<1> DEFINE S == {i \in DOMAIN items : Holds(items[i].ranges, a)}
<1>1. CASE S = {}
  <2>1. MaxOr(S, None) = None
    BY <1>1 DEF MaxOr
  <2> QED BY <1>1, <2>1
<1>2. ASSUME NEW i \in S PROVE S = {i} /\ MaxOr(S, None) = i /\ i # None
  <2>1. S = {i}
    BY HeldByOne
  <2>2. i \in Nat /\ i # None
    BY DEF Items, None
  <2> HIDE DEF S
  <2> QED BY <2>1, <2>2, MaxOrOfOne
<1> QED BY <1>1, <1>2

Joined(items, i) == rangelist_entries(items[i].ranges)
EntryType == [item : Nat, low : Nat]

LEMMA ItemsJoined ==
  ASSUME NEW items, Items(items), NEW i \in DOMAIN items
  PROVE  JoinedUpTo(Joined(items, i), items[i].ranges, Len(items[i].ranges))
<1> DEFINE ranges == items[i].ranges
<1>1. ranges \in Seq(AddressRange) /\ DOMAIN ranges = 1 .. Len(ranges)
  BY DEF Items
<1>2. ASSUME NEW p \in 1 .. Len(ranges), NEW q \in 1 .. Len(ranges), ranges[p][1] = ranges[q][1]
      PROVE  p = q
  <2>1. p = q \/ ranges[p][2] <= ranges[q][1] \/ ranges[q][2] <= ranges[p][1]
    BY <1>1 DEF Items, Apart
  <2>2. ranges[p] \in AddressRange /\ ranges[q] \in AddressRange
    BY <1>1
  <2>3. \A r \in AddressRange : r[1] \in Nat /\ r[2] \in Nat /\ ~(r[2] <= r[1])
    BY DEF AddressRange
  <2> HIDE DEF ranges
  <2> QED BY <1>2, <2>1, <2>2, <2>3
<1> HIDE DEF ranges
<1>3. JoinedUpTo(rangelist_entries(ranges), ranges, Len(ranges))
  BY <1>1, <1>2, RangesJoined
<1> QED BY <1>3 DEF ranges, Joined

\* The entries of an item, one for each of its joined ranges.
LEMMA EntriesOfItem ==
  ASSUME NEW items, Items(items), NEW i \in DOMAIN items
  PROVE  LET es == entries(i, items[i].ranges)
             vec == Joined(items, i)
         IN /\ es \in Seq(EntryType)
            /\ IsInjective(es)
            /\ ToSet(es) = {[item |-> i, low |-> vec[k][1]] : k \in 1 .. Len(vec)}
<1> DEFINE es == entries(i, items[i].ranges)
           vec == Joined(items, i)
<1>1. /\ vec \in Seq(AddressRange)
      /\ \A j, k \in 1 .. Len(vec) : vec[j][1] = vec[k][1] => j = k
  BY ItemsJoined DEF JoinedUpTo
<1>2. es = [k \in DOMAIN vec |-> [item |-> i, low |-> vec[k][1]]]
  BY DEF entries, Joined
<1>3. i \in Nat
  BY DEF Items
<1> HIDE DEF vec, es
<1>4. \A k \in 1 .. Len(vec) : vec[k][1] \in Nat
  <2>1. \A k \in 1 .. Len(vec) : vec[k] \in AddressRange
    BY <1>1
  <2> QED BY <2>1 DEF AddressRange
<1>5. es \in [1 .. Len(vec) -> EntryType] /\ DOMAIN es = 1 .. Len(vec) /\ Len(vec) \in Nat
  BY <1>1, <1>2, <1>3, <1>4 DEF EntryType
<1>6. es \in Seq(EntryType)
  BY <1>5
<1>7. IsInjective(es)
  BY <1>1, <1>2, <1>5 DEF IsInjective
<1>8. ToSet(es) = {[item |-> i, low |-> vec[k][1]] : k \in 1 .. Len(vec)}
  BY <1>2, <1>5 DEF ToSet
<1> QED BY <1>6, <1>7, <1>8 DEF vec, es

\* The entries of the items C.
IndexOf(items, C) == UNION {ToSet(entries(c, items[c].ranges)) : c \in C}

LEMMA EntryOfIndex ==
  ASSUME NEW items, Items(items), NEW C, C \subseteq DOMAIN items, NEW e \in IndexOf(items, C)
  PROVE  /\ e \in EntryType /\ e.item \in C
         /\ e \in ToSet(entries(e.item, items[e.item].ranges))
<1>1. PICK c \in C : e \in ToSet(entries(c, items[c].ranges))
  BY DEF IndexOf
<1>2. e \in {[item |-> c, low |-> Joined(items, c)[k][1]] : k \in 1 .. Len(Joined(items, c))}
  BY <1>1, EntriesOfItem
<1>3. e.item = c
  BY <1>2
<1>4. entries(c, items[c].ranges) \in Seq(EntryType)
  BY EntriesOfItem
<1>5. e \in EntryType
  BY <1>1, <1>4 DEF ToSet
<1> QED BY <1>1, <1>3, <1>5

LEMMA LookupInIndex ==
  ASSUME NEW items, Items(items), NEW C, C \subseteq DOMAIN items, NEW index, NEW a \in Nat,
         ToSet(index) = IndexOf(items, C)
  PROVE  lookup(index, a) \subseteq C
BY EntryOfIndex DEF lookup

\* Of entries that do not lie above the address one is the greatest.
LEMMA LookupFindsOne ==
  ASSUME NEW index, ToSet(index) \subseteq EntryType, NEW a \in Nat, NEW e \in ToSet(index), e.low <= a
  PROVE  lookup(index, a) # {}
<1> DEFINE Below == {f \in ToSet(index) : f.low <= a}
           D == {a - f.low : f \in Below}
<1>1. \A f \in Below : f.low \in Nat /\ a - f.low \in Nat
  BY DEF EntryType
<1>2. D \subseteq Nat /\ D # {}
  BY <1>1
<1>3. PICK d \in D : \A m \in D : d <= m
  <2> HIDE DEF D
  <2> QED BY <1>2, LeastNumber
<1>4. PICK f \in Below : d = a - f.low
  BY <1>3
<1>5. ASSUME NEW g \in ToSet(index), f.low < g.low, g.low <= a PROVE FALSE
  <2>1. g \in Below /\ a - g.low \in D
    BY <1>5
  <2>2. a - f.low <= a - g.low
    BY <1>3, <1>4, <2>1
  <2>3. f.low \in Nat /\ g.low \in Nat
    BY <1>1, <2>1
  <2> QED BY <1>5, <2>2, <2>3
<1>6. f.item \in lookup(index, a)
  BY <1>4, <1>5 DEF lookup
<1> QED BY <1>6

\* With items that are not joined over code of others, the item that holds the
\* address is the only one that is found.
LEMMA LookupFinds ==
  ASSUME NEW items, Items(items), Unjoined(items), NEW C, C \subseteq DOMAIN items, NEW index,
         ToSet(index) = IndexOf(items, C), NEW a \in Nat, NEW c \in C, Holds(items[c].ranges, a)
  PROVE  lookup(index, a) = {c}
<1> DEFINE vec == Joined(items, c)
           ranges == items[c].ranges
<1>0. c \in DOMAIN items /\ ranges \in Seq(AddressRange)
  BY DEF Items
<1>1. PICK p \in DOMAIN ranges : ranges[p][1] <= a /\ a < ranges[p][2]
  BY DEF Holds
<1>2. /\ vec \in Seq(AddressRange)
      /\ \A q \in 1 .. Len(ranges) : \E k \in 1 .. Len(vec) :
           vec[k][1] <= ranges[q][1] /\ ranges[q][2] <= vec[k][2]
  BY <1>0, ItemsJoined DEF JoinedUpTo
<1>3. p \in 1 .. Len(ranges)
  BY <1>0
<1>4. PICK k \in 1 .. Len(vec) : vec[k][1] <= ranges[p][1] /\ ranges[p][2] <= vec[k][2]
  BY <1>2, <1>3
<1> DEFINE e == [item |-> c, low |-> vec[k][1]]
<1>5. e \in ToSet(entries(c, items[c].ranges))
  BY <1>0, EntriesOfItem
<1>6. e \in ToSet(index)
  BY <1>5 DEF IndexOf
<1>7. ranges[p] \in AddressRange /\ vec[k] \in AddressRange
  BY <1>0, <1>2, <1>3
<1>8. \A r \in AddressRange : r[1] \in Nat /\ r[2] \in Nat
  BY DEF AddressRange
<1>9. vec[k] \in ToSet(Joined(items, c))
  <2>1. DOMAIN vec = 1 .. Len(vec)
    BY <1>2
  <2> HIDE DEF vec
  <2>2. vec[k] \in ToSet(vec)
    BY <2>1 DEF ToSet
  <2> QED BY <2>2 DEF vec
<1>10. vec[k][1] <= a /\ a < vec[k][2] /\ vec[k][1] \in Nat /\ vec[k][2] \in Nat
  <2> DEFINE x == vec[k][1]  y == vec[k][2]  u == ranges[p][1]  w == ranges[p][2]
  <2>1. x \in Nat /\ y \in Nat /\ u \in Nat /\ w \in Nat /\ u <= a /\ a < w /\ x <= u /\ w <= y
    BY <1>1, <1>4, <1>7, <1>8
  <2> HIDE DEF x, y, u, w
  <2>2. x <= a /\ a < y
    BY <2>1
  <2> QED BY <2>1, <2>2 DEF x, y
<1>11. ToSet(index) \subseteq EntryType
  BY EntryOfIndex DEF IndexOf
<1>12. ASSUME NEW f \in ToSet(index), f.low <= a,
              \A g \in ToSet(index) : ~(f.low < g.low /\ g.low <= a)
       PROVE  f.item = c
  <2>1. /\ f \in EntryType /\ f.item \in C
        /\ f \in ToSet(entries(f.item, items[f.item].ranges))
    BY EntryOfIndex
  <2>2. e.low = vec[k][1] /\ f.low \in Nat
    BY <2>1 DEF EntryType
  <2>3. vec[k][1] <= f.low
    BY <1>6, <1>10, <1>12, <2>2
  <2>4. f.low < vec[k][2]
    BY <1>10, <1>12, <2>2
  <2> SUFFICES ASSUME f.item # c PROVE FALSE
    OBVIOUS
  <2>5. f.item \in DOMAIN items
    BY <2>1
  <2>6. ~(vec[k][1] <= f.low /\ f.low < vec[k][2])
    BY <1>0, <1>9, <2>1, <2>5 DEF Unjoined, Joined
  <2> QED BY <2>3, <2>4, <2>6
<1>13. lookup(index, a) \subseteq {c}
  BY <1>12 DEF lookup
<1>14. lookup(index, a) # {}
  <2>1. e.low <= a
    BY <1>10
  <2> HIDE DEF e
  <2> QED BY <1>6, <1>11, <2>1, LookupFindsOne
<1> QED BY <1>13, <1>14

-----------------------------------------------------------------------------
\* Rows.  Only one holds an address.
LineTable(rows) == rows \in Seq([addr : Nat, end : BOOLEAN]) /\ RowsApart(rows)

LEMMA RowsTyped ==
  ASSUME NEW rows, LineTable(rows)
  PROVE  /\ DOMAIN rows = 1 .. Len(rows) /\ Len(rows) \in Nat
         /\ \A k \in DOMAIN rows : rows[k].addr \in Nat /\ rows[k].end \in BOOLEAN
<1> DEFINE T == [addr : Nat, end : BOOLEAN]
<1>1. rows \in Seq(T)
  BY DEF LineTable
<1>2. \A r \in T : r.addr \in Nat /\ r.end \in BOOLEAN
  OBVIOUS
<1> HIDE DEF T
<1>3. DOMAIN rows = 1 .. Len(rows) /\ Len(rows) \in Nat /\ \A k \in DOMAIN rows : rows[k] \in T
  BY <1>1
<1> QED BY <1>2, <1>3

LEMMA OneRow ==
  ASSUME NEW rows, LineTable(rows), NEW a \in Nat, NEW i \in RowsOf(rows, a)
  PROVE  RowsOf(rows, a) = {i} /\ RowAt(rows, a) = i /\ i # None
<1>0. DOMAIN rows = 1 .. Len(rows) /\ Len(rows) \in Nat /\ \A k \in DOMAIN rows : rows[k].addr \in Nat
  BY RowsTyped
<1>1. ASSUME NEW k \in RowsOf(rows, a) PROVE k = i
  <2>1. /\ i \in DOMAIN rows /\ ~rows[i].end /\ rows[i].addr <= a /\ a < rows[i + 1].addr
        /\ k \in DOMAIN rows /\ ~rows[k].end /\ rows[k].addr <= a /\ a < rows[k + 1].addr
    BY DEF RowsOf
  <2>2. i + 1 \in DOMAIN rows /\ k + 1 \in DOMAIN rows
    BY <2>1 DEF LineTable, RowsApart
  <2>3. /\ ~(rows[i].addr < rows[k].addr /\ rows[k].addr < rows[i + 1].addr)
        /\ ~(rows[k].addr < rows[i].addr /\ rows[i].addr < rows[k + 1].addr)
    BY <2>1 DEF LineTable, RowsApart
  <2>4. rows[i].addr = rows[k].addr
    <3> DEFINE x == rows[i].addr  y == rows[k].addr  u == rows[i + 1].addr  w == rows[k + 1].addr
    <3>1. x \in Nat /\ y \in Nat /\ u \in Nat /\ w \in Nat
      BY <1>0, <2>1, <2>2
    <3>2. x <= a /\ a < u /\ y <= a /\ a < w /\ ~(x < y /\ y < u) /\ ~(y < x /\ x < w)
      BY <2>1, <2>3
    <3> HIDE DEF x, y, u, w
    <3>3. x = y
      BY <3>1, <3>2
    <3> QED BY <3>3 DEF x, y
  <2> SUFFICES ASSUME k # i PROVE FALSE
    OBVIOUS
  <2>5. PICK j \in {i, k} : rows[j + 1].addr = rows[j].addr
    BY <2>1, <2>4 DEF LineTable, RowsApart
  <2>6. rows[j].addr <= a /\ a < rows[j + 1].addr /\ rows[j].addr \in Nat
    BY <1>0, <2>1
  <2> QED BY <2>5, <2>6
<1>2. RowsOf(rows, a) = {i}
  BY <1>1
<1>3. i \in Nat /\ i # None
  BY <1>0 DEF RowsOf, None
<1> QED BY <1>2, <1>3, MaxOrOfOne DEF RowAt

\* The table of the speed mode gives the row that holds the address, and no
\* other.
LEMMA TableIsRight ==
  ASSUME NEW rows, LineTable(rows), Ordered(rows), NEW a \in Nat, NEW i \in RowsOf(rows, a)
  PROVE  lookup_line(rows, a) = {i}
<1>0. DOMAIN rows = 1 .. Len(rows) /\ Len(rows) \in Nat /\ \A k \in DOMAIN rows : rows[k].addr \in Nat
  BY RowsTyped
<1>1. i \in DOMAIN rows /\ ~rows[i].end /\ rows[i].addr <= a /\ a < rows[i + 1].addr
  BY DEF RowsOf
<1>2. i + 1 \in DOMAIN rows
  BY <1>1 DEF LineTable, RowsApart
<1>3. \A x, y, z \in Nat : x <= y /\ y < z => x # z
  OBVIOUS
<1>4. rows[i + 1].addr # rows[i].addr
  BY <1>0, <1>1, <1>2, <1>3
<1>5. i \in line_entries(rows)
  BY <1>1, <1>4 DEF line_entries
<1>6. ASSUME NEW k \in DOMAIN rows, rows[i].addr < rows[k].addr, rows[k].addr <= a PROVE FALSE
  <2>1. ~(rows[i].addr < rows[k].addr /\ rows[k].addr < rows[i + 1].addr)
    BY <1>1 DEF LineTable, RowsApart
  <2>2. \A x, y, z \in Nat : x <= y /\ y < z => x < z
    OBVIOUS
  <2> QED BY <1>0, <1>1, <1>2, <1>6, <2>1, <2>2
<1>7. i \in lookup_line(rows, a)
  BY <1>1, <1>5, <1>6 DEF lookup_line, line_entries
<1>8. ASSUME NEW k \in lookup_line(rows, a), k # i PROVE FALSE
  <2>1. k \in DOMAIN rows /\ rows[k].addr <= a /\ (k = Len(rows) \/ rows[k + 1].addr # rows[k].addr)
    BY DEF lookup_line, line_entries
  <2>2. ~(rows[k].addr < rows[i].addr /\ rows[i].addr <= a)
    BY <1>5 DEF lookup_line
  <2>3. rows[k].addr = rows[i].addr
    <3>1. rows[k].addr \in Nat /\ rows[i].addr \in Nat
      BY <1>0, <1>1, <2>1
    <3>2. ~(rows[i].addr < rows[k].addr)
      BY <1>6, <2>1
    <3> QED BY <1>1, <2>2, <3>1, <3>2
  <2>4. CASE rows[k].end
    <3>1. k < i /\ \A l \in k .. i : rows[l].addr = rows[k].addr
      BY <1>1, <2>1, <2>3, <2>4 DEF Ordered
    <3>2. k + 1 \in k .. i /\ k # Len(rows)
      BY <1>0, <1>1, <2>1, <3>1
    <3> QED BY <2>1, <3>1, <3>2
  <2>5. CASE ~rows[k].end
    <3>1. k + 1 \in DOMAIN rows
      BY <2>1, <2>5 DEF LineTable, RowsApart
    <3>2. rows[k + 1].addr # rows[k].addr
      BY <1>0, <2>1, <3>1
    <3>3. \E j \in {i, k} : rows[j + 1].addr = rows[j].addr
      BY <1>1, <1>8, <2>1, <2>3, <2>5 DEF LineTable, RowsApart
    <3> QED BY <1>4, <3>2, <3>3
  <2> QED BY <2>4, <2>5
<1> QED BY <1>7, <1>8

\* w is what the walk has seen and found in the first n rows: it has found the
\* row that holds the address if it is past its end, and is about to if it is
\* at it.
Walked(w, rows, a, n) ==
  /\ w \in [last : Nat, found : Nat]
  /\ w.last # None => /\ w.last \in 1 .. n /\ ~rows[w.last].end
                      /\ w.last = n \/ w.last \in RowsOf(rows, a)
  /\ w.found # None => w.found \in RowsOf(rows, a)
  /\ n \in RowsOf(rows, a) => w.last = n
  /\ \A i \in RowsOf(rows, a) : i + 1 <= n => w.found = i

LEMMA WalkStep ==
  ASSUME NEW rows, LineTable(rows), NEW a \in Nat, InsideRow(rows, a),
         NEW n \in 1 .. Len(rows), NEW v, Walked(v, rows, a, n - 1), NEW w,
         w = IF v.last # None /\ rows[v.last].addr < a /\ a < rows[n].addr
             THEN [v EXCEPT !.found = v.last]
             ELSE [v EXCEPT !.last = IF rows[n].end THEN None ELSE n]
  PROVE  Walked(w, rows, a, n)
<1>0. /\ DOMAIN rows = 1 .. Len(rows) /\ Len(rows) \in Nat
      /\ \A k \in DOMAIN rows : rows[k].addr \in Nat /\ rows[k].addr # a
  BY RowsTyped DEF InsideRow
<1>1. n \in Nat /\ n - 1 \in Nat /\ n \in DOMAIN rows
  BY <1>0
<1>2. /\ v \in [last : Nat, found : Nat]
      /\ v.last # None => /\ v.last \in 1 .. n - 1 /\ ~rows[v.last].end
                          /\ v.last = n - 1 \/ v.last \in RowsOf(rows, a)
      /\ v.found # None => v.found \in RowsOf(rows, a)
      /\ n - 1 \in RowsOf(rows, a) => v.last = n - 1
      /\ \A i \in RowsOf(rows, a) : i + 1 <= n - 1 => v.found = i
  BY DEF Walked
<1>3. \A i \in RowsOf(rows, a) : /\ i \in DOMAIN rows /\ ~rows[i].end /\ i \in Nat /\ i # None
                                 /\ rows[i].addr < a /\ a < rows[i + 1].addr
  <2>1. \A x, y \in Nat : x <= y /\ x # y => x < y
    OBVIOUS
  <2>2. ASSUME NEW i \in RowsOf(rows, a) PROVE i \in DOMAIN rows /\ i \in Nat /\ i # None
    BY <1>0 DEF RowsOf, None
  <2> QED BY <1>0, <2>1, <2>2 DEF RowsOf
<1>4. \A i, j \in RowsOf(rows, a) : i = j
  BY OneRow
<1>5. CASE v.last # None /\ rows[v.last].addr < a /\ a < rows[n].addr
  <2>1. w = [v EXCEPT !.found = v.last] /\ w.last = v.last /\ w.found = v.last
    BY <1>2, <1>5
  <2>2. v.last \in RowsOf(rows, a)
    <3> SUFFICES ASSUME v.last = n - 1 PROVE v.last \in RowsOf(rows, a)
      BY <1>2, <1>5
    <3>1. v.last \in DOMAIN rows /\ v.last + 1 = n /\ ~rows[v.last].end
      BY <1>0, <1>1, <1>2, <1>5
    <3>2. rows[v.last].addr <= a
      BY <1>0, <1>5, <3>1
    <3> QED BY <1>5, <3>1, <3>2 DEF RowsOf
  <2>3. n \notin RowsOf(rows, a)
    <3>1. rows[n].addr \in Nat /\ \A x \in Nat : ~(x < a /\ a < x)
      BY <1>0, <1>1
    <3> QED BY <1>3, <1>5, <3>1
  <2>4. w.last \in 1 .. n /\ ~rows[w.last].end
    BY <1>1, <1>2, <1>5, <2>1
  <2>5. w \in [last : Nat, found : Nat]
    BY <1>2, <2>1
  <2>6. \A i \in RowsOf(rows, a) : w.found = i
    BY <1>4, <2>1, <2>2
  <2> QED BY <2>1, <2>2, <2>3, <2>4, <2>5, <2>6 DEF Walked
<1>6. CASE ~(v.last # None /\ rows[v.last].addr < a /\ a < rows[n].addr)
  <2> DEFINE l == IF rows[n].end THEN None ELSE n
  <2>1. w = [v EXCEPT !.last = l] /\ w.last = l /\ w.found = v.found /\ l \in Nat
    BY <1>1, <1>2, <1>6 DEF None
  <2>2. w \in [last : Nat, found : Nat]
    BY <1>2, <2>1
  <2>3. l # None => l \in 1 .. n /\ ~rows[l].end /\ l = n
    BY <1>1
  <2>4. n \in RowsOf(rows, a) => l = n
    BY <1>3
  <2>5. ASSUME NEW i \in RowsOf(rows, a), i + 1 <= n PROVE w.found = i
    <3>1. CASE i + 1 <= n - 1
      BY <1>2, <2>1, <2>5, <3>1
    <3>2. CASE i = n - 1
      <4>1. i + 1 = n /\ v.last = i
        BY <1>1, <1>2, <2>5, <3>2
      <4>2. v.last # None /\ rows[v.last].addr < a /\ a < rows[n].addr
        BY <1>3, <2>5, <4>1
      <4> QED BY <1>6, <4>2
    <3>3. i + 1 <= n - 1 \/ i = n - 1
      <4>1. i \in Nat
        BY <1>3, <2>5
      <4> QED BY <1>1, <2>5, <4>1
    <3> QED BY <3>1, <3>2, <3>3
  <2> HIDE DEF l
  <2> QED BY <1>2, <2>1, <2>2, <2>3, <2>4, <2>5 DEF Walked
<1> QED BY <1>5, <1>6

LEMMA WalkTyped ==
  ASSUME NEW rows, LineTable(rows), NEW a \in Nat
  PROVE  walk_line(rows, a) \in Nat
<1>1. rows \in Seq([addr : Nat, end : BOOLEAN]) /\ Len(rows) \in Nat
  BY RowsTyped DEF LineTable
<1>2. PICK walk \in [0 .. Len(rows) -> [last : Nat, found : Nat]] :
        walk_line(rows, a) = walk[Len(rows)].found
  BY <1>1, WalkUnfolds
<1> QED BY <1>1, <1>2

\* Inside a row the walk gives the row that holds the address, or none if no
\* row does.
LEMMA WalkIsRight ==
  ASSUME NEW rows, LineTable(rows), NEW a \in Nat, InsideRow(rows, a)
  PROVE  walk_line(rows, a) = RowAt(rows, a)
<1>0. rows \in Seq([addr : Nat, end : BOOLEAN])
  BY DEF LineTable
<1>10. PICK walk \in [0 .. Len(rows) -> [last : Nat, found : Nat]] :
         /\ walk_line(rows, a) = walk[Len(rows)].found
         /\ walk[0] = [last |-> None, found |-> None]
         /\ \A n \in 1 .. Len(rows) : walk[n] = WalkNext(rows, a, walk[n - 1], n)
  BY <1>0, WalkUnfolds
<1>1. /\ walk_line(rows, a) = walk[Len(rows)].found
      /\ walk[0] = [last |-> None, found |-> None]
      /\ \A n \in 1 .. Len(rows) :
           walk[n] =
             IF walk[n - 1].last # None /\ rows[walk[n - 1].last].addr < a /\ a < rows[n].addr
             THEN [walk[n - 1] EXCEPT !.found = walk[n - 1].last]
             ELSE [walk[n - 1] EXCEPT !.last = IF rows[n].end THEN None ELSE n]
  <2>1. \A n \in 1 .. Len(rows) : rows[n].addr # a
    BY <1>0 DEF InsideRow
  <2> QED BY <1>10, <2>1 DEF WalkNext
<1>2. DOMAIN rows = 1 .. Len(rows) /\ Len(rows) \in Nat
  BY RowsTyped
<1> DEFINE G == {n \in Nat : n <= Len(rows) => Walked(walk[n], rows, a, n)}
<1>3. 0 \in G
  <2>1. 0 \notin RowsOf(rows, a) /\ \A i \in RowsOf(rows, a) : ~(i + 1 <= 0)
    BY <1>2 DEF RowsOf
  <2>2. Walked([last |-> None, found |-> None], rows, a, 0)
    BY <2>1 DEF Walked, None
  <2> QED BY <1>1, <2>2
<1>4. ASSUME NEW n \in Nat, n \in G PROVE n + 1 \in G
  <2> SUFFICES ASSUME n + 1 <= Len(rows) PROVE Walked(walk[n + 1], rows, a, n + 1)
    OBVIOUS
  <2> DEFINE m == n + 1
  <2>1. m \in 1 .. Len(rows) /\ m - 1 = n /\ n <= Len(rows)
    BY <1>2
  <2>2. Walked(walk[m - 1], rows, a, m - 1)
    BY <1>4, <2>1
  <2> HIDE DEF m, G
  <2>3. walk[m] = IF walk[m - 1].last # None /\ rows[walk[m - 1].last].addr < a /\ a < rows[m].addr
                  THEN [walk[m - 1] EXCEPT !.found = walk[m - 1].last]
                  ELSE [walk[m - 1] EXCEPT !.last = IF rows[m].end THEN None ELSE m]
    BY <1>1, <2>1
  <2>4. Walked(walk[m], rows, a, m)
    BY <2>1, <2>2, <2>3, WalkStep
  <2> QED BY <2>4 DEF m
<1>5. Len(rows) \in G
  <2> HIDE DEF G
  <2> QED BY <1>2, <1>3, <1>4, Induction
<1>6. Walked(walk[Len(rows)], rows, a, Len(rows))
  BY <1>2, <1>5
<1> DEFINE found == walk[Len(rows)].found
<1>7. /\ found # None => found \in RowsOf(rows, a)
      /\ \A i \in RowsOf(rows, a) : i + 1 <= Len(rows) => found = i
  BY <1>6 DEF Walked
<1> HIDE DEF found
<1>8. CASE RowsOf(rows, a) = {}
  <2>1. RowAt(rows, a) = None
    BY <1>8 DEF RowAt, MaxOr
  <2> QED BY <1>1, <1>7, <1>8, <2>1 DEF found
<1>9. ASSUME NEW i \in RowsOf(rows, a) PROVE walk_line(rows, a) = RowAt(rows, a)
  <2>1. RowAt(rows, a) = i
    BY OneRow
  <2>2. i + 1 \in DOMAIN rows
    <3>1. i \in DOMAIN rows /\ ~rows[i].end
      BY DEF RowsOf
    <3> QED BY <3>1 DEF LineTable, RowsApart
  <2>3. i + 1 <= Len(rows)
    BY <1>2, <2>2
  <2> QED BY <1>1, <1>7, <2>1, <2>3 DEF found
<1> QED BY <1>8, <1>9

-----------------------------------------------------------------------------
\* The mode was never set to another.
Single == modes = {mode}

Steps == {"idle", "cu", "split", "table", "line", "symbol", "done"}
DwarfTypeOK ==
  /\ setting \in Settings
  /\ mode \in Modes /\ modes \subseteq Modes /\ mode \in modes
  /\ place \in 0 .. Len(CUs)
  /\ cu_cache \in Seq([item : DOMAIN CUs, low : Nat]) /\ generated_cu_cache \in BOOLEAN
  /\ line_tables \in Seq([cu : DOMAIN CUs, built : BOOLEAN])
  /\ subprograms_cache \subseteq DOMAIN CUs /\ split_full_cu_resolvers \subseteq DOMAIN CUs
  /\ pc \in Nat /\ step \in Steps /\ cu \in 0 .. Len(CUs)
  /\ frame \in [row : Nat, symbol : Nat]
  /\ threw \in BOOLEAN /\ frames \in Nat /\ failures \in Nat

\* cu_cache holds the entries of the readable CUs up to where it has got, and
\* every attempt that failed has got past one that is not.
Upto == IF generated_cu_cache THEN Len(CUs) ELSE place
Readable(n) == {c \in 1 .. n : CUs[c].readable}
NotReadable(n) == {c \in 1 .. n : ~CUs[c].readable}
IndexInv ==
  Single =>
    IF mode = "memory"
    THEN cu_cache = <<>> /\ ~generated_cu_cache /\ failures = 0 /\ (AllReadable => place = 0)
    ELSE /\ ToSet(cu_cache) = IndexOf(CUs, Readable(Upto)) /\ IsInjective(cu_cache)
         /\ failures <= Cardinality(NotReadable(Upto))

TablesInv ==
  /\ Len(line_tables) <= setting.limit
  /\ \A i, j \in DOMAIN line_tables : line_tables[i].cu = line_tables[j].cu => i = j
  /\ Single => \A i \in DOMAIN line_tables : line_tables[i].built = (mode = "speed")

WorkInv ==
  /\ step \in {"idle", "cu"} => cu = None /\ ~threw
  /\ step \in {"split", "table", "line", "symbol"} => cu # None /\ ~threw
  /\ cu # None => Holds(CU.ranges, pc)
  /\ step \in {"idle", "cu", "split", "table", "line"} => frame = null_frame
  /\ step = "symbol" => frame.symbol = None
  /\ step = "line" => CU.rows # <<>> /\ line_tables # <<>> /\ line_tables[1].cu = cu

Expected ==
  IF CUOf(pc) # None /\ (CUs[CUOf(pc)].readable \/ CUs[CUOf(pc)].arange) THEN CUOf(pc) ELSE None
CUInv ==
  Single /\ ~threw /\ step \notin {"idle", "cu"} /\ Unjoined(CUs) /\ (mode = "memory" => AllReadable)
    => cu = Expected

RowInv ==
  cu # None =>
    /\ Ordered(CU.rows) /\ InsideRow(CU.rows, pc) => frame.row \in {None, RowAt(CU.rows, pc)}
    /\ /\ step \in {"symbol", "done"} /\ ~threw /\ Single /\ Located
       /\ Ordered(CU.rows) /\ (mode # "speed" => InsideRow(CU.rows, pc))
       => frame.row = RowAt(CU.rows, pc)

SymbolInv ==
  cu # None =>
    /\ frame.symbol \in {None, FunctionAt(CU.functions, pc)}
    /\ /\ step = "done" /\ ~threw /\ Single /\ Located /\ Unjoined(CU.functions)
       /\ mode = "memory" =>
            /\ CU.contents = "here"
            /\ FunctionAt(CU.functions, pc) # None =>
                 CU.functions[FunctionAt(CU.functions, pc)].inside = None
       => frame.symbol = FunctionAt(CU.functions, pc)
DwarfIInv == DwarfTypeOK /\ IndexInv /\ TablesInv /\ WorkInv /\ CUInv /\ RowInv /\ SymbolInv

-----------------------------------------------------------------------------
\* What the assumption says of the CUs of the setting.
LEMMA SettingFacts ==
  ASSUME setting \in Settings
  PROVE  /\ setting.modes \subseteq Modes /\ setting.limit \in Nat \ {0}
         /\ Items(CUs) /\ Len(CUs) \in Nat /\ DOMAIN CUs = 1 .. Len(CUs)
         /\ \A c \in DOMAIN CUs :
              /\ CUs[c] \in CompileUnit
              /\ CUs[c].readable \in BOOLEAN /\ CUs[c].arange \in BOOLEAN
              /\ CUs[c].contents \in {"here", "split", "missing", "unlocated"}
              /\ Items(CUs[c].functions) /\ LineTable(CUs[c].rows)
              /\ RowsCover(CUs[c].rows, CUs[c].ranges)
<1>1. /\ setting.modes \subseteq Modes /\ setting.limit \in Nat \ {0}
      /\ CUs \in Seq(CompileUnit) /\ Apart(CUs)
      /\ \A c \in DOMAIN CUs :
           /\ Apart(CUs[c].functions)
           /\ RowsApart(CUs[c].rows) /\ RowsCover(CUs[c].rows, CUs[c].ranges)
  BY DwarfAssumption DEF CUs
<1>2. Len(CUs) \in Nat /\ DOMAIN CUs = 1 .. Len(CUs) /\ \A c \in DOMAIN CUs : CUs[c] \in CompileUnit
  BY <1>1
<1> DEFINE F == [ranges : Seq(AddressRange), inside : Nat]
<1>3. \A u \in CompileUnit : /\ u.ranges \in Seq(AddressRange) /\ u.readable \in BOOLEAN
                             /\ u.arange \in BOOLEAN
                             /\ u.contents \in {"here", "split", "missing", "unlocated"}
                             /\ u.rows \in Seq([addr : Nat, end : BOOLEAN])
                             /\ u.functions \in Seq(F)
  BY DEF CompileUnit
<1>4. Items(CUs)
  BY <1>1, <1>2, <1>3 DEF Items
<1>5. ASSUME NEW c \in DOMAIN CUs PROVE Items(CUs[c].functions)
  <2> DEFINE fs == CUs[c].functions
  <2>1. fs \in Seq(F) /\ Apart(fs)
    BY <1>1, <1>2, <1>3
  <2>2. \A f \in F : f.ranges \in Seq(AddressRange)
    OBVIOUS
  <2> HIDE DEF fs, F
  <2>3. Len(fs) \in Nat /\ DOMAIN fs = 1 .. Len(fs) /\ \A f \in DOMAIN fs : fs[f] \in F
    BY <2>1
  <2>4. Items(fs)
    BY <2>1, <2>2, <2>3 DEF Items
  <2> QED BY <2>4 DEF fs
<1>6. \A c \in DOMAIN CUs : LineTable(CUs[c].rows)
  BY <1>1, <1>2, <1>3 DEF LineTable
<1> HIDE DEF F
<1> QED BY <1>1, <1>2, <1>3, <1>4, <1>5, <1>6

\* A walk gets up to the first CU that cannot be read, or past the last.
LEMMA StopFacts ==
  ASSUME DwarfTypeOK
  PROVE  /\ stop \in Nat /\ stop \in place + 1 .. Len(CUs) + 1
         /\ Unreadable = {} => stop = Len(CUs) + 1
         /\ Unreadable # {} => stop \in Unreadable
         /\ \A c \in place + 1 .. stop - 1 : c \in DOMAIN CUs /\ CUs[c].readable
<1>1. place \in Nat /\ place <= Len(CUs) /\ Len(CUs) \in Nat /\ DOMAIN CUs = 1 .. Len(CUs)
  BY SettingFacts DEF DwarfTypeOK
<1>2. CASE Unreadable = {}
  <2>1. stop = Len(CUs) + 1
    BY <1>2 DEF stop
  <2>2. \A c \in place + 1 .. Len(CUs) : c \in DOMAIN CUs /\ CUs[c].readable
    BY <1>1, <1>2 DEF Unreadable
  <2> QED BY <1>1, <1>2, <2>1, <2>2
<1>3. CASE Unreadable # {}
  <2>1. Unreadable \subseteq Nat
    BY <1>1 DEF Unreadable
  <2>2. \E c \in Unreadable : \A d \in Unreadable : c <= d
    BY <1>3, <2>1, LeastNumber
  <2>3. stop \in Unreadable /\ \A d \in Unreadable : stop <= d
    BY <1>3, <2>2 DEF stop
  <2>4. stop \in Nat /\ stop \in place + 1 .. Len(CUs)
    BY <2>1, <2>3 DEF Unreadable
  <2>5. ASSUME NEW c \in place + 1 .. stop - 1 PROVE c \in DOMAIN CUs /\ CUs[c].readable
    <3>1. c \in place + 1 .. Len(CUs) /\ c \in DOMAIN CUs /\ ~(stop <= c)
      BY <1>1, <2>4
    <3> QED BY <2>3, <3>1 DEF Unreadable
  <2> QED BY <1>1, <1>3, <2>3, <2>4, <2>5
<1> QED BY <1>2, <1>3

\* The CU a walk or a lookup gives holds the address, and is the only one.
LEMMA TheCU ==
  ASSUME DwarfTypeOK
  PROVE  /\ CUOf(pc) = None => \A c \in DOMAIN CUs : ~Holds(CUs[c].ranges, pc)
         /\ CUOf(pc) # None => CUOf(pc) \in DOMAIN CUs /\ Holds(CUs[CUOf(pc)].ranges, pc)
         /\ \A c \in DOMAIN CUs : Holds(CUs[c].ranges, pc) => c = CUOf(pc)
<1>1. Items(CUs) /\ pc \in Nat
  BY SettingFacts DEF DwarfTypeOK
<1> QED BY <1>1, TheHolder DEF CUOf

Places == {c \in place + 1 .. Len(CUs) : Holds(CUs[c].ranges, pc)}
LEMMA WalkedFor ==
  ASSUME DwarfTypeOK
  PROVE  /\ MaxOr(Places, None) # None =>
              MaxOr(Places, None) \in DOMAIN CUs /\ Holds(CUs[MaxOr(Places, None)].ranges, pc)
         /\ place = 0 => MaxOr(Places, None) = CUOf(pc)
<1>1. place \in Nat /\ place <= Len(CUs) /\ Len(CUs) \in Nat /\ DOMAIN CUs = 1 .. Len(CUs)
  BY SettingFacts DEF DwarfTypeOK
<1>2. Places \subseteq DOMAIN CUs
  BY <1>1 DEF Places
<1>3. CASE Places = {}
  <2>1. MaxOr(Places, None) = None
    BY <1>3 DEF MaxOr
  <2>2. place = 0 => \A c \in DOMAIN CUs : ~Holds(CUs[c].ranges, pc)
    BY <1>1, <1>3 DEF Places
  <2>3. place = 0 => CUOf(pc) = None
    BY <2>2, TheCU
  <2> QED BY <2>1, <2>3
<1>4. ASSUME NEW c \in Places PROVE MaxOr(Places, None) = c /\ c = CUOf(pc)
  <2>1. \A d \in Places : d = CUOf(pc)
    BY <1>2, TheCU DEF Places
  <2>2. Places = {c} /\ c \in Nat
    BY <1>1, <1>2, <2>1
  <2> QED BY <2>1, <2>2, MaxOrOfOne
<1> QED BY <1>2, <1>3, <1>4 DEF Places

\* The entries of the CUs a walk passes.
NewEntries ==
  FlattenSeq([i \in 1 .. stop - place - 1 |-> entries(place + i, CUs[place + i].ranges)])
Passed == place + 1 .. stop - 1

LEMMA EntriesPassed ==
  ASSUME DwarfTypeOK
  PROVE  /\ NewEntries \in Seq([item : DOMAIN CUs, low : Nat])
         /\ ToSet(NewEntries) = IndexOf(CUs, Passed)
         /\ IsInjective(NewEntries)
         /\ Passed \subseteq DOMAIN CUs
<1>1. /\ place \in Nat /\ stop \in Nat /\ stop >= place + 1
      /\ \A c \in Passed : c \in DOMAIN CUs
  BY SettingFacts, StopFacts DEF DwarfTypeOK, Passed
<1>2. Items(CUs)
  BY SettingFacts DEF DwarfTypeOK
<1> DEFINE N == stop - place - 1
           X == [item : DOMAIN CUs, low : Nat]
           es(c) == entries(c, CUs[c].ranges)
           s == [i \in 1 .. N |-> es(place + i)]
<1>3. \A i \in 1 .. N : place + i \in Passed
  BY <1>1 DEF Passed
<1>4. \A c \in Passed : c - place \in 1 .. N /\ place + (c - place) = c
  BY <1>1 DEF Passed
<1>5. ASSUME NEW c \in Passed
      PROVE  es(c) \in Seq(X) /\ IsInjective(es(c)) /\ \A e \in ToSet(es(c)) : e.item = c
  <2>1. c \in DOMAIN CUs
    BY <1>1
  <2>2. /\ es(c) \in Seq(EntryType) /\ IsInjective(es(c))
        /\ ToSet(es(c)) = {[item |-> c, low |-> Joined(CUs, c)[k][1]] : k \in 1 .. Len(Joined(CUs, c))}
    BY <1>2, <2>1, EntriesOfItem
  <2>3. \A e \in ToSet(es(c)) : e.item = c
    BY <2>2
  <2> DEFINE f == es(c)
  <2>4. f \in Seq(EntryType) /\ \A e \in ToSet(f) : e.item = c
    BY <2>2, <2>3
  <2> HIDE DEF f
  <2>5. DOMAIN f = 1 .. Len(f) /\ Len(f) \in Nat /\ \A k \in 1 .. Len(f) : f[k] \in EntryType /\ f[k] \in ToSet(f)
    BY <2>4 DEF ToSet
  <2>6. \A k \in 1 .. Len(f) : f[k] \in X
    <3> SUFFICES ASSUME NEW k \in 1 .. Len(f) PROVE f[k] \in X
      OBVIOUS
    <3>1. f[k] \in EntryType /\ f[k].item = c
      BY <2>4, <2>5
    <3> QED BY <2>1, <3>1 DEF EntryType
  <2> HIDE DEF X
  <2>7. f \in Seq(X)
    <3>1. f = [k \in 1 .. Len(f) |-> f[k]]
      BY <2>4, <2>5
    <3>2. f \in [1 .. Len(f) -> X]
      BY <2>6, <3>1
    <3> QED BY <2>5, <3>2
  <2> QED BY <2>2, <2>3, <2>7 DEF f
<1> HIDE DEF X, es
<1>6. N \in Nat /\ \A i \in 1 .. N : s[i] \in Seq(X) /\ s[i] = es(place + i)
  BY <1>1, <1>3, <1>5
<1>7. s \in Seq(Seq(X)) /\ DOMAIN s = 1 .. N
  <2> HIDE DEF N
  <2>1. s \in [1 .. N -> Seq(X)]
    BY <1>6
  <2> QED BY <1>6, <2>1
<1>8. NewEntries = FlattenSeq(s)
  BY DEF NewEntries, es
<1> HIDE DEF s
<1>9. \A i \in DOMAIN s : IsInjective(s[i])
  BY <1>3, <1>5, <1>6, <1>7
<1>10. \A i, j \in DOMAIN s : i # j => ToSet(s[i]) \cap ToSet(s[j]) = {}
  <2> SUFFICES ASSUME NEW i \in DOMAIN s, NEW j \in DOMAIN s, i # j,
                      NEW e \in ToSet(s[i]), e \in ToSet(s[j])
               PROVE  FALSE
    OBVIOUS
  <2>1. i \in 1 .. N /\ j \in 1 .. N
    BY <1>7
  <2>2. e.item = place + i /\ e.item = place + j
    BY <1>3, <1>5, <1>6, <2>1
  <2> QED BY <1>1, <2>1, <2>2
<1>11. ToSet(FlattenSeq(s)) = UNION {ToSet(s[i]) : i \in DOMAIN s} /\ FlattenSeq(s) \in Seq(X)
       /\ IsInjective(FlattenSeq(s))
  BY <1>7, <1>9, <1>10, SetOfFlatten
<1>12. UNION {ToSet(s[i]) : i \in DOMAIN s} = IndexOf(CUs, Passed)
  <2>1. \A i \in DOMAIN s : \E c \in Passed : ToSet(s[i]) = ToSet(es(c))
    BY <1>3, <1>6, <1>7
  <2>2. \A c \in Passed : \E i \in DOMAIN s : ToSet(s[i]) = ToSet(es(c))
    <3> SUFFICES ASSUME NEW c \in Passed PROVE \E i \in DOMAIN s : ToSet(s[i]) = ToSet(es(c))
      OBVIOUS
    <3>1. c - place \in DOMAIN s /\ s[c - place] = es(c)
      BY <1>4, <1>6, <1>7
    <3> QED BY <3>1
  <2>3. IndexOf(CUs, Passed) = UNION {ToSet(es(c)) : c \in Passed}
    BY DEF IndexOf, es
  <2> QED BY <2>1, <2>2, <2>3
<1> QED BY <1>1, <1>8, <1>11, <1>12 DEF X

\* The line tables after get_line_table: the one asked for, in front of those
\* of other CUs.
LineTables == [cu : DOMAIN CUs, built : BOOLEAN]
Hits == {t \in ToSet(line_tables) : t.cu = cu}
Others == Filter(line_tables, {t \in ToSet(line_tables) : t.cu # cu})
Table == IF Hits # {} THEN CHOOSE t \in Hits : TRUE ELSE [cu |-> cu, built |-> mode = "speed"]
NewTables == <<Table>> \o recent(Others)

LEMMA TablesKept ==
  ASSUME DwarfTypeOK, TablesInv, cu # None
  PROVE  /\ NewTables \in Seq(LineTables) /\ NewTables # <<>>
         /\ NewTables[1] = Table /\ Table \in LineTables /\ Table.cu = cu
         /\ Table \in ToSet(line_tables) \/ Table.built = (mode = "speed")
         /\ Len(NewTables) <= setting.limit
         /\ \A i, j \in DOMAIN NewTables : NewTables[i].cu = NewTables[j].cu => i = j
         /\ \A i \in DOMAIN NewTables : NewTables[i] = Table \/ NewTables[i] \in ToSet(line_tables)
<1>0. /\ line_tables \in Seq(LineTables) /\ cu \in DOMAIN CUs /\ mode \in Modes
      /\ setting.limit \in Nat /\ setting.limit >= 1
      /\ \A i, j \in DOMAIN line_tables : line_tables[i].cu = line_tables[j].cu => i = j
  BY SettingFacts DEF DwarfTypeOK, TablesInv, LineTables, None
<1>1. \A t \in ToSet(line_tables) : t \in LineTables
  BY <1>0 DEF ToSet
<1>2. /\ Table \in LineTables /\ Table.cu = cu
      /\ Table \in ToSet(line_tables) \/ Table.built = (mode = "speed")
  <2>1. CASE Hits # {}
    <3>1. Table \in Hits
      BY <2>1 DEF Table
    <3> QED BY <1>1, <3>1 DEF Hits
  <2>2. CASE Hits = {}
    <3>1. Table = [cu |-> cu, built |-> mode = "speed"]
      BY <2>2 DEF Table
    <3>2. (mode = "speed") \in BOOLEAN
      OBVIOUS
    <3>3. Table \in LineTables
      BY <1>0, <3>1, <3>2 DEF LineTables
    <3> QED BY <3>1, <3>3
  <2> QED BY <2>1, <2>2
<1> DEFINE S == {t \in ToSet(line_tables) : t.cu # cu}
           o == Others
<1>3. o \in Seq(LineTables) /\ \E at : Kept(at, o, line_tables, S, Len(line_tables))
  BY <1>0, FilterKeeps DEF Others
<1>4. PICK at : Kept(at, o, line_tables, S, Len(line_tables))
  BY <1>3
<1> HIDE DEF o, S
<1>5. /\ at \in [1 .. Len(o) -> 1 .. Len(line_tables)]
      /\ \A k \in 1 .. Len(o) : o[k] = line_tables[at[k]] /\ line_tables[at[k]] \in S
      /\ \A j, k \in 1 .. Len(o) : j < k => at[j] < at[k]
  BY <1>4 DEF Kept
<1>6. Len(o) \in Nat /\ DOMAIN line_tables = 1 .. Len(line_tables) /\ Len(line_tables) \in Nat
  BY <1>0, <1>3
<1>7. \A k \in 1 .. Len(o) : o[k] \in ToSet(line_tables) /\ o[k].cu # cu
  BY <1>5 DEF S
<1>8. ASSUME NEW j \in 1 .. Len(o), NEW k \in 1 .. Len(o), o[j].cu = o[k].cu PROVE j = k
  <2>1. at[j] = at[k]
    <3>1. at[j] \in DOMAIN line_tables /\ at[k] \in DOMAIN line_tables
      BY <1>5, <1>6
    <3>2. line_tables[at[j]].cu = line_tables[at[k]].cu
      BY <1>5, <1>8
    <3> QED BY <1>0, <3>1, <3>2
  <2>2. j \in Nat /\ k \in Nat /\ at[j] \in Nat /\ at[k] \in Nat
    BY <1>5, <1>6
  <2>3. ~(j < k) /\ ~(k < j)
    BY <1>5, <2>1, <2>2
  <2> QED BY <2>2, <2>3
<1> DEFINE r == recent(o)
<1>9. /\ r \in Seq(LineTables) /\ Len(r) \in Nat /\ Len(r) <= setting.limit - 1 /\ Len(r) <= Len(o)
      /\ \A k \in 1 .. Len(r) : r[k] = o[k]
  <2>1. CASE Len(o) < setting.limit
    <3>1. r = o
      BY <2>1 DEF recent
    <3> QED BY <1>0, <1>3, <1>6, <2>1, <3>1
  <2>2. CASE ~(Len(o) < setting.limit)
    <3> DEFINE m == setting.limit - 1
    <3>1. r = SubSeq(o, 1, m) /\ m \in Nat /\ m <= Len(o)
      BY <1>0, <1>6, <2>2 DEF recent
    <3> HIDE DEF m, r
    <3>2. r \in Seq(LineTables) /\ Len(r) = m /\ \A k \in 1 .. m : r[k] = o[k]
      BY <1>3, <1>6, <3>1
    <3> QED BY <3>1, <3>2 DEF m
  <2> QED BY <2>1, <2>2
<1> HIDE DEF r
<1> DEFINE n == NewTables
<1>10. n = <<Table>> \o r
  BY DEF NewTables, r, o
<1> HIDE DEF n
<1>11. /\ n \in Seq(LineTables) /\ Len(n) = Len(r) + 1 /\ DOMAIN n = 1 .. Len(r) + 1
       /\ n[1] = Table /\ \A k \in 1 .. Len(r) : n[k + 1] = r[k]
  <2>1. <<Table>> \in Seq(LineTables) /\ Len(<<Table>>) = 1 /\ <<Table>>[1] = Table
    BY <1>2
  <2> QED BY <1>9, <1>10, <2>1
<1>12. \A k \in 2 .. Len(r) + 1 : k - 1 \in 1 .. Len(r) /\ k - 1 \in 1 .. Len(o) /\ n[k] = o[k - 1]
  <2> SUFFICES ASSUME NEW k \in 2 .. Len(r) + 1
               PROVE  k - 1 \in 1 .. Len(r) /\ k - 1 \in 1 .. Len(o) /\ n[k] = o[k - 1]
    OBVIOUS
  <2>1. k - 1 \in 1 .. Len(r) /\ k - 1 \in 1 .. Len(o) /\ (k - 1) + 1 = k
    BY <1>6, <1>9
  <2> QED BY <1>9, <1>11, <2>1
<1>13. \A k \in 1 .. Len(r) + 1 : k = 1 \/ k \in 2 .. Len(r) + 1
  BY <1>9
<1>14. ASSUME NEW i \in 1 .. Len(r) + 1, NEW j \in 1 .. Len(r) + 1, n[i].cu = n[j].cu PROVE i = j
  <2>1. \A k \in 2 .. Len(r) + 1 : n[k].cu # n[1].cu
    BY <1>2, <1>7, <1>11, <1>12
  <2>2. CASE i \in 2 .. Len(r) + 1 /\ j \in 2 .. Len(r) + 1
    <3>1. i - 1 = j - 1
      BY <1>8, <1>12, <1>14, <2>2
    <3> QED BY <1>9, <2>2, <3>1
  <2> QED BY <1>13, <1>14, <2>1, <2>2
<1>15. \A i \in 1 .. Len(r) + 1 : n[i] = Table \/ n[i] \in ToSet(line_tables)
  BY <1>7, <1>11, <1>12, <1>13
<1>16. n # <<>> /\ Len(n) <= setting.limit
  BY <1>0, <1>9, <1>11
<1> QED BY <1>2, <1>11, <1>14, <1>15, <1>16 DEF n

LEMMA LookupTyped ==
  ASSUME NEW X, NEW index \in Seq([item : X, low : Nat]), NEW a
  PROVE  lookup(index, a) \subseteq X
<1> DEFINE T == [item : X, low : Nat]
<1>0. index \in Seq(T) /\ \A e \in T : e.item \in X
  OBVIOUS
<1> HIDE DEF T
<1>2. \A i \in DOMAIN index : index[i] \in T
  BY <1>0
<1>1. \A e \in ToSet(index) : e.item \in X
  BY <1>0, <1>2 DEF ToSet
<1> QED BY <1>1 DEF lookup

\* What is there or is added to the cache has items of the right kind.
LEMMA CacheTyped ==
  ASSUME DwarfTypeOK, lookup_cached_cu
  PROVE  /\ cu_cache' \in Seq([item : DOMAIN CUs, low : Nat])
         /\ cu_cache' = IF generated_cu_cache THEN cu_cache ELSE cu_cache \o NewEntries
         /\ lookup(cu_cache', pc) \subseteq DOMAIN CUs
<1>1. cu_cache \in Seq([item : DOMAIN CUs, low : Nat])
  BY DEF DwarfTypeOK
<1>2. cu_cache' = IF generated_cu_cache THEN cu_cache ELSE cu_cache \o NewEntries
  BY DEF lookup_cached_cu, NewEntries
<1>3. cu_cache' \in Seq([item : DOMAIN CUs, low : Nat])
  BY <1>1, <1>2, EntriesPassed, SetOfConcat
<1> QED BY <1>2, <1>3, LookupTyped

\* What a CU is found for: none, or one that holds the address.
Candidates == {None} \cup {c \in DOMAIN CUs : Holds(CUs[c].ranges, pc)}
LEMMA CUsFound ==
  ASSUME DwarfTypeOK, cu = None
  PROVE  /\ lookup_aranges => \E c \in Candidates : c # None /\ CUs[c].arange /\ found_cu(c)
         /\ walk_for_cu => (throw /\ UNCHANGED cu) \/ \E c \in Candidates : found_cu(c)
         /\ lookup_cached_cu => (throw /\ UNCHANGED cu) \/ \E c \in Candidates : found_cu(c)
<1>0. \A c \in DOMAIN CUs : c # None
  BY SettingFacts DEF DwarfTypeOK, None
<1>1. ASSUME lookup_aranges
      PROVE  \E c \in Candidates : c # None /\ CUs[c].arange /\ found_cu(c)
  BY <1>0, <1>1 DEF lookup_aranges, InAranges, Candidates
<1>2. ASSUME walk_for_cu PROVE (throw /\ UNCHANGED cu) \/ \E c \in Candidates : found_cu(c)
  <2>1. MaxOr(Places, None) \in Candidates
    BY WalkedFor DEF Candidates
  <2> QED BY <1>2, <2>1 DEF walk_for_cu, Places
<1>3. ASSUME lookup_cached_cu
      PROVE  (throw /\ UNCHANGED cu) \/ \E c \in Candidates : found_cu(c)
  <2>1. \A c \in lookup(cu_cache', pc) :
          (IF Holds(CUs[c].ranges, pc) THEN c ELSE None) \in Candidates
    BY <1>3, CacheTyped DEF Candidates
  <2>2. None \in Candidates
    BY DEF Candidates
  <2> QED BY <1>3, <2>1, <2>2 DEF lookup_cached_cu
<1> QED BY <1>1, <1>2, <1>3

-----------------------------------------------------------------------------
\* Each part of the invariant is kept by every step.

LEMMA TypeStep ==
  ASSUME DwarfTypeOK, WorkInv, TablesInv, [DwarfNext]_dwarf_vars
  PROVE  DwarfTypeOK'
<1> USE DEF DwarfTypeOK, CUs
<1>0. Len(CUs) \in Nat /\ DOMAIN CUs = 1 .. Len(CUs)
  BY SettingFacts
<1>1. CASE set_cache_mode
  <2>1. mode' \in Modes
    BY <1>1, SettingFacts DEF set_cache_mode
  <2> QED BY <1>1, <2>1 DEF set_cache_mode, caches, work
<1>2. ASSUME NEW a \in Addresses, resolve_frame(a) PROVE DwarfTypeOK'
  <2>1. a \in Nat
    BY DwarfAssumption
  <2> QED BY <1>2, <2>1 DEF resolve_frame, caches, Steps
<1>3. ASSUME NEW c \in Candidates, found_cu(c) PROVE cu' \in 0 .. Len(CUs) /\ step' \in Steps /\ threw' = threw
  <2>1. c \in 0 .. Len(CUs)
    BY <1>0 DEF Candidates, None
  <2> QED BY <1>3, <2>1 DEF found_cu, Steps
<1>4. CASE lookup_aranges
  <2>1. cu = None
    BY <1>4 DEF WorkInv, lookup_aranges
  <2>2. PICK c \in Candidates : found_cu(c)
    BY <1>4, <2>1, CUsFound
  <2>3. cu' \in 0 .. Len(CUs) /\ step' \in Steps /\ threw' = threw
    BY <1>3, <2>2
  <2> QED BY <1>4, <2>3 DEF lookup_aranges, caches
<1>5. ASSUME walk_compilation_units PROVE place' \in 0 .. Len(CUs)
  <2>1. CASE Unreadable = {}
    BY <1>0, <1>5, <2>1 DEF walk_compilation_units
  <2>2. CASE Unreadable # {}
    <3>1. place' = stop /\ stop \in Unreadable /\ place \in Nat
      BY <1>0, <1>5, <2>2, StopFacts DEF walk_compilation_units
    <3>2. Unreadable \subseteq 0 .. Len(CUs)
      BY <1>0, <3>1 DEF Unreadable
    <3> QED BY <3>1, <3>2
  <2> QED BY <2>1, <2>2
<1>6. CASE walk_for_cu
  <2>1. cu = None
    BY <1>6 DEF WorkInv, walk_for_cu
  <2>2. cu' \in 0 .. Len(CUs) /\ step' \in Steps /\ threw' \in BOOLEAN
    <3>1. CASE throw /\ UNCHANGED cu
      BY <3>1 DEF throw, Steps
    <3>2. ASSUME NEW c \in Candidates, found_cu(c) PROVE cu' \in 0 .. Len(CUs) /\ step' \in Steps /\ threw' \in BOOLEAN
      BY <1>3, <3>2
    <3> QED BY <1>6, <2>1, <3>1, <3>2, CUsFound
  <2>3. place' \in 0 .. Len(CUs)
    BY <1>5, <1>6 DEF walk_for_cu
  <2> QED BY <1>6, <2>2, <2>3 DEF walk_for_cu, caches
<1>7. CASE lookup_cached_cu
  <2>1. cu = None
    BY <1>7 DEF WorkInv, lookup_cached_cu
  <2>2. cu' \in 0 .. Len(CUs) /\ step' \in Steps /\ threw' \in BOOLEAN
    <3>1. CASE throw /\ UNCHANGED cu
      BY <3>1 DEF throw, Steps
    <3>2. ASSUME NEW c \in Candidates, found_cu(c) PROVE cu' \in 0 .. Len(CUs) /\ step' \in Steps /\ threw' \in BOOLEAN
      BY <1>3, <3>2
    <3> QED BY <1>7, <2>1, <3>1, <3>2, CUsFound
  <2>3. place' \in 0 .. Len(CUs)
    BY <1>5, <1>7 DEF lookup_cached_cu
  <2>4. generated_cu_cache' \in BOOLEAN /\ failures' \in Nat
    BY <1>7 DEF lookup_cached_cu, generated
  <2>5. cu_cache' \in Seq([item : DOMAIN CUs, low : Nat])
    BY <1>7, CacheTyped
  <2> QED BY <1>7, <2>2, <2>3, <2>4, <2>5 DEF lookup_cached_cu
<1>8. CASE split
  <2>1. cu \in DOMAIN CUs
    BY <1>0, <1>8 DEF WorkInv, split, None
  <2>2. split_full_cu_resolvers' \subseteq DOMAIN CUs
    BY <1>8, <2>1 DEF split
  <2>3. step' \in Steps /\ threw' \in BOOLEAN
    BY <1>8 DEF split, throw, Steps
  <2> QED BY <1>8, <2>2, <2>3 DEF split
<1>9. CASE get_line_table
  <2>1. cu # None
    BY <1>9 DEF WorkInv, get_line_table
  <2>2. line_tables' = line_tables \/ line_tables' = NewTables
    BY <1>9 DEF get_line_table, NewTables, Table, Others, Hits
  <2>3. line_tables' \in Seq(LineTables)
    BY <2>1, <2>2, TablesKept DEF LineTables
  <2>4. step' \in Steps
    BY <1>9 DEF get_line_table, Steps
  <2> QED BY <1>9, <2>3, <2>4 DEF get_line_table, LineTables
<1>10. CASE retrieve_line_info
  <2>0. cu \in DOMAIN CUs
    BY <1>0, <1>10 DEF WorkInv, retrieve_line_info, None
  <2>1. LineTable(CU.rows)
    BY <2>0, SettingFacts DEF CU
  <2>2. \A row \in Rows : row \in Nat
    <3>1. DOMAIN CU.rows = 1 .. Len(CU.rows)
      BY <2>1, RowsTyped
    <3>2. lookup_line(CU.rows, pc) \subseteq Nat
      BY <3>1 DEF lookup_line, line_entries
    <3>3. walk_line(CU.rows, pc) \in Nat
      BY <2>1, WalkTyped
    <3> QED BY <3>2, <3>3 DEF Rows, None
  <2>3. frame' \in [row : Nat, symbol : Nat]
    BY <1>10, <2>2 DEF retrieve_line_info
  <2> QED BY <1>10, <2>3 DEF retrieve_line_info, caches, Steps
<1>11. CASE retrieve_symbol_walk
  <2>1. Functions \subseteq Nat /\ Holding \subseteq Functions
    <3>1. cu \in DOMAIN CUs
      BY <1>0, <1>11 DEF WorkInv, retrieve_symbol_walk, None
    <3>2. Items(CU.functions)
      BY <3>1, SettingFacts DEF CU
    <3> QED BY <3>2 DEF Items, Functions, Holding
  <2>2. frame' \in [row : Nat, symbol : Nat]
    <3>1. ASSUME NEW S, S \subseteq Holding, S # {}
          PROVE  (CHOOSE f \in S : \A g \in S : f <= g) \in Nat
      <4>1. S \subseteq Nat
        BY <2>1, <3>1
      <4>2. \E f \in S : \A g \in S : f <= g
        BY <3>1, <4>1, LeastNumber
      <4> QED BY <4>1, <4>2
    <3> DEFINE outermost == {f \in Holding : CU.functions[f].inside = None}
    <3>2. \/ frame' = frame
          \/ frame' = [frame EXCEPT !.symbol = None]
          \/ outermost # {} /\ frame' = [frame EXCEPT !.symbol =
                                         CHOOSE f \in outermost : \A g \in outermost : f <= g]
      BY <1>11 DEF retrieve_symbol_walk
    <3>3. outermost \subseteq Holding
      OBVIOUS
    <3> HIDE DEF outermost
    <3>4. /\ None \in Nat /\ frame \in [row : Nat, symbol : Nat]
          /\ \A n \in Nat : [frame EXCEPT !.symbol = n] \in [row : Nat, symbol : Nat]
      BY DEF None
    <3>5. outermost # {} => (CHOOSE f \in outermost : \A g \in outermost : f <= g) \in Nat
      BY <3>1, <3>3
    <3> QED BY <3>2, <3>4, <3>5
  <2> QED BY <1>11, <2>2 DEF retrieve_symbol_walk, caches, Steps, throw
<1>12. CASE retrieve_symbol
  <2>1. cu \in DOMAIN CUs
    BY <1>0, <1>12 DEF WorkInv, retrieve_symbol, None
  <2>2. Functions \subseteq Nat /\ Holding \subseteq Functions
    <3>1. Items(CU.functions)
      BY <2>1, SettingFacts DEF CU
    <3> QED BY <3>1 DEF Items, Functions, Holding
  <2>3. \A f : function_checked(f) \in Nat
    BY <2>2 DEF function_checked, None
  <2>4. frame' \in [row : Nat, symbol : Nat]
    <3>1. frame' = frame \/ \E f : frame' = [frame EXCEPT !.symbol = function_checked(f)]
      BY <1>12 DEF retrieve_symbol
    <3> QED BY <2>3, <3>1
  <2>5. subprograms_cache' \subseteq DOMAIN CUs
    BY <1>12, <2>1 DEF retrieve_symbol
  <2> QED BY <1>12, <2>4, <2>5 DEF retrieve_symbol, Steps
<1>13. CASE return
  <2>1. /\ step' = "idle" /\ pc' = 0 /\ cu' = None /\ frame' = null_frame /\ threw' = FALSE
        /\ UNCHANGED <<setting, mode, modes, place, caches, frames, failures>>
    BY <1>13 DEF return
  <2>2. cu' \in 0 .. Len(CUs) /\ frame' \in [row : Nat, symbol : Nat] /\ step' \in Steps
    BY <1>0, <2>1 DEF null_frame, None, Steps
  <2> QED BY <2>1, <2>2 DEF caches
<1>14. CASE UNCHANGED dwarf_vars
  BY <1>14 DEF dwarf_vars, caches, work
<1> QED BY <1>1, <1>2, <1>4, <1>6, <1>7, <1>8, <1>9, <1>10, <1>11, <1>12, <1>13, <1>14 DEF DwarfNext

\* A frame is resolved for one setting, and a mode that was not changed yet is
\* the one all before was decided with.
LEMMA SettingKept ==
  ASSUME DwarfTypeOK, [DwarfNext]_dwarf_vars
  PROVE  /\ setting' = setting /\ CUs' = CUs
         /\ Single' => Single /\ mode' = mode
<1>1. setting' = setting
  BY DEF DwarfNext, dwarf_vars, set_cache_mode, resolve_frame, lookup_aranges, walk_for_cu,
         lookup_cached_cu, split, get_line_table, retrieve_line_info, retrieve_symbol_walk,
         retrieve_symbol, return
<1>2. CASE set_cache_mode
  <2>1. modes' = modes \cup {mode'} /\ mode \in modes
    BY <1>2 DEF set_cache_mode, DwarfTypeOK
  <2> QED BY <1>1, <2>1 DEF Single, CUs
<1>3. CASE ~set_cache_mode
  <2>1. mode' = mode /\ modes' = modes
    BY <1>3 DEF DwarfNext, dwarf_vars, resolve_frame, lookup_aranges, walk_for_cu,
         lookup_cached_cu, split, get_line_table, retrieve_line_info, retrieve_symbol_walk,
         retrieve_symbol, return
  <2> QED BY <1>1, <2>1 DEF Single, CUs
<1> QED BY <1>2, <1>3

\* Steps that leave the index and libdwarf's place alone.
LEMMA IndexFrame ==
  ASSUME IndexInv, setting' = setting, Single' => Single /\ mode' = mode,
         UNCHANGED <<place, cu_cache, generated_cu_cache, failures>>
  PROVE  IndexInv'
<1>1. /\ CUs' = CUs /\ AllReadable' = AllReadable /\ Upto' = Upto
      /\ Readable(Upto)' = Readable(Upto) /\ NotReadable(Upto)' = NotReadable(Upto)
  BY DEF CUs, AllReadable, Upto, Readable, NotReadable
<1>2. IndexOf(CUs, Readable(Upto))' = IndexOf(CUs, Readable(Upto))
  BY <1>1 DEF IndexOf, entries, rangelist_entries, Joins, ToSet
<1> QED BY <1>1, <1>2 DEF IndexInv

\* What an attempt to fill the cache gets past: the readable CUs, and the one
\* it stopped at.
LEMMA PassedOver ==
  ASSUME DwarfTypeOK
  PROVE  LET n == IF Unreadable = {} THEN Len(CUs) ELSE stop
         IN /\ Readable(n) = Readable(place) \cup Passed
            /\ Readable(place) \cap Passed = {}
            /\ Readable(n) \subseteq DOMAIN CUs
            /\ Cardinality(NotReadable(n)) =
                 Cardinality(NotReadable(place)) + IF Unreadable = {} THEN 0 ELSE 1
            /\ Cardinality(NotReadable(place)) \in Nat
<1> DEFINE n == IF Unreadable = {} THEN Len(CUs) ELSE stop
<1>1. /\ place \in Nat /\ place <= Len(CUs) /\ Len(CUs) \in Nat /\ DOMAIN CUs = 1 .. Len(CUs)
  BY SettingFacts DEF DwarfTypeOK
<1>2. /\ stop \in Nat /\ stop >= place + 1
      /\ \A c \in place + 1 .. stop - 1 : c \in DOMAIN CUs /\ CUs[c].readable
  BY <1>1, StopFacts
<1>3. n \in Nat /\ n >= place /\ n <= Len(CUs)
  BY <1>1, <1>2, StopFacts DEF Unreadable
<1>4. \A c \in Nat : c \in 1 .. n <=> c \in 1 .. place \/ c \in Passed \/ (Unreadable # {} /\ c = stop)
  <2>1. CASE Unreadable = {}
    <3>1. n = Len(CUs) /\ stop = Len(CUs) + 1
      BY <2>1, StopFacts
    <3> HIDE DEF n
    <3> QED BY <1>1, <2>1, <3>1 DEF Passed
  <2>2. CASE Unreadable # {}
    <3>1. n = stop
      BY <2>2
    <3> HIDE DEF n
    <3> QED BY <1>1, <1>2, <2>2, <3>1 DEF Passed
  <2> QED BY <2>1, <2>2
<1>5. Unreadable # {} => ~CUs[stop].readable
  BY StopFacts DEF Unreadable
<1> HIDE DEF n
<1>6. Readable(n) = Readable(place) \cup Passed
  <2>1. \A c \in Passed : CUs[c].readable /\ c \in Nat
    BY <1>1, <1>2 DEF Passed
  <2>2. \A c \in 1 .. n : c \in Nat
    OBVIOUS
  <2>3. \A c \in 1 .. place : c \in Nat
    OBVIOUS
  <2> QED BY <1>4, <1>5, <2>1, <2>2, <2>3 DEF Readable
<1>7. Readable(place) \cap Passed = {}
  BY <1>1 DEF Readable, Passed
<1>8. Readable(n) \subseteq DOMAIN CUs
  BY <1>1, <1>3 DEF Readable
<1>9. IsFiniteSet(NotReadable(place)) /\ Cardinality(NotReadable(place)) \in Nat
  <2>1. NotReadable(place) \in SUBSET (1 .. place)
    BY DEF NotReadable
  <2>2. IsFiniteSet(1 .. place)
    BY <1>1, FS_Interval
  <2> QED BY <2>1, <2>2, FS_Subset, FS_CardinalityType
<1>10. Cardinality(NotReadable(n)) =
         Cardinality(NotReadable(place)) + IF Unreadable = {} THEN 0 ELSE 1
  <2>0. /\ \A c \in Passed : CUs[c].readable /\ c \in Nat
        /\ \A c \in 1 .. n : c \in Nat
        /\ \A c \in 1 .. place : c \in Nat
    BY <1>1, <1>2 DEF Passed
  <2>1. CASE Unreadable = {}
    <3>1. NotReadable(n) = NotReadable(place)
      BY <1>4, <2>0, <2>1 DEF NotReadable
    <3> QED BY <1>9, <2>1, <3>1
  <2>2. CASE Unreadable # {}
    <3>1. NotReadable(n) = NotReadable(place) \cup {stop}
      BY <1>2, <1>4, <1>5, <2>0, <2>2 DEF NotReadable
    <3>2. stop \notin NotReadable(place)
      BY <1>1, <1>2 DEF NotReadable
    <3> QED BY <1>9, <2>2, <3>1, <3>2, FS_AddElement
  <2> QED BY <2>1, <2>2
<1> QED BY <1>6, <1>7, <1>8, <1>9, <1>10 DEF n

LEMMA IndexStep ==
  ASSUME DwarfTypeOK, IndexInv, [DwarfNext]_dwarf_vars
  PROVE  IndexInv'
<1>0. setting' = setting /\ CUs' = CUs /\ (Single' => Single /\ mode' = mode)
  BY SettingKept
<1>1. /\ place \in Nat /\ place <= Len(CUs) /\ Len(CUs) \in Nat /\ DOMAIN CUs = 1 .. Len(CUs)
      /\ failures \in Nat
  BY SettingFacts DEF DwarfTypeOK
<1>2. CASE walk_for_cu
  <2> SUFFICES ASSUME Single' PROVE IndexInv'
    BY DEF IndexInv
  <2>1. Single /\ mode = "memory" /\ mode' = mode
    BY <1>0, <1>2 DEF walk_for_cu
  <2>2. /\ cu_cache' = cu_cache /\ generated_cu_cache' = generated_cu_cache /\ failures' = failures
        /\ AllReadable' = AllReadable
    BY <1>0, <1>2 DEF walk_for_cu, caches, AllReadable
  <2>3. AllReadable => place' = 0
    <3>1. AllReadable => Unreadable = {}
      BY <1>1 DEF AllReadable, Unreadable
    <3> QED BY <1>2, <3>1 DEF walk_for_cu, walk_compilation_units
  <2> QED BY <2>1, <2>2, <2>3 DEF IndexInv
<1>3. CASE lookup_cached_cu
  <2> SUFFICES ASSUME Single' PROVE IndexInv'
    BY DEF IndexInv
  <2>1. Single /\ mode # "memory" /\ mode' = mode
    BY <1>0, <1>3 DEF lookup_cached_cu
  <2>2. /\ ToSet(cu_cache) = IndexOf(CUs, Readable(Upto)) /\ IsInjective(cu_cache)
        /\ failures <= Cardinality(NotReadable(Upto))
    BY <2>1 DEF IndexInv
  <2>3. cu_cache' = IF generated_cu_cache THEN cu_cache ELSE cu_cache \o NewEntries
    BY <1>3, CacheTyped
  <2> SUFFICES /\ ToSet(cu_cache') = IndexOf(CUs, Readable(Upto'))
               /\ IsInjective(cu_cache')
               /\ failures' <= Cardinality(NotReadable(Upto'))
    <3>0. Readable(Upto)' = Readable(Upto') /\ NotReadable(Upto)' = NotReadable(Upto')
      BY <1>0 DEF Readable, NotReadable
    <3>1. /\ IndexOf(CUs, Readable(Upto))' = IndexOf(CUs, Readable(Upto'))
          /\ NotReadable(Upto)' = NotReadable(Upto')
      BY <1>0, <3>0
    <3>2. Single' /\ mode' # "memory"
      BY <2>1
    <3> QED BY <3>1, <3>2 DEF IndexInv, ToSet, IsInjective
  <2>4. CASE generated_cu_cache
    <3>1. generated_cu_cache' = TRUE /\ cu_cache' = cu_cache
      BY <1>3, <2>3, <2>4 DEF lookup_cached_cu, generated
    <3>2. failures' = failures
      BY <1>3, <3>1 DEF lookup_cached_cu
    <3>3. Upto' = Upto
      BY <1>0, <2>4, <3>1 DEF Upto
    <3> QED BY <2>2, <3>1, <3>2, <3>3
  <2>5. CASE ~generated_cu_cache
    <3> DEFINE n == IF Unreadable = {} THEN Len(CUs) ELSE stop
    <3>1. Upto = place /\ cu_cache' = cu_cache \o NewEntries
      BY <2>3, <2>5 DEF Upto
    <3>2. generated_cu_cache' = (Unreadable = {}) /\ walk_compilation_units
      BY <1>3, <2>5 DEF lookup_cached_cu, generated
    <3>3. Upto' = n
      BY <1>0, <3>2 DEF Upto, walk_compilation_units
    <3>4. failures' = failures + IF Unreadable = {} THEN 0 ELSE 1
      <4>1. CASE generated_cu_cache'
        <5>1. failures' = failures
          BY <1>3, <4>1 DEF lookup_cached_cu
        <5>2. Unreadable = {}
          BY <3>2, <4>1
        <5> QED BY <1>1, <5>1, <5>2
      <4>2. CASE ~generated_cu_cache'
        <5>1. failures' = failures + 1
          BY <1>3, <4>2 DEF lookup_cached_cu
        <5> QED BY <3>2, <4>2, <5>1
      <4> QED BY <4>1, <4>2
    <3>5. /\ Readable(n) = Readable(place) \cup Passed
          /\ Readable(place) \cap Passed = {}
          /\ Readable(n) \subseteq DOMAIN CUs
          /\ Cardinality(NotReadable(n)) =
               Cardinality(NotReadable(place)) + IF Unreadable = {} THEN 0 ELSE 1
          /\ Cardinality(NotReadable(place)) \in Nat
      BY PassedOver
    <3> HIDE DEF n
    <3>6. /\ cu_cache \in Seq([item : DOMAIN CUs, low : Nat])
          /\ NewEntries \in Seq([item : DOMAIN CUs, low : Nat])
          /\ ToSet(NewEntries) = IndexOf(CUs, Passed)
          /\ IsInjective(NewEntries)
      BY EntriesPassed DEF DwarfTypeOK
    <3>7. ToSet(cu_cache) \cap ToSet(NewEntries) = {}
      <4>1. Items(CUs) /\ Readable(place) \subseteq DOMAIN CUs /\ Passed \subseteq DOMAIN CUs
        BY <3>5, EntriesPassed, SettingFacts DEF DwarfTypeOK
      <4>2. \A e \in ToSet(cu_cache) : e.item \in Readable(place)
        BY <2>2, <3>1, <4>1, EntryOfIndex
      <4>3. \A e \in ToSet(NewEntries) : e.item \in Passed
        BY <3>6, <4>1, EntryOfIndex
      <4> QED BY <3>5, <4>2, <4>3
    <3>8. /\ ToSet(cu_cache') = ToSet(cu_cache) \cup ToSet(NewEntries)
          /\ IsInjective(cu_cache')
      BY <2>2, <3>1, <3>6, <3>7, SetOfConcat
    <3>9. ToSet(cu_cache') = IndexOf(CUs, Readable(n))
      <4>1. IndexOf(CUs, Readable(place) \cup Passed) =
              IndexOf(CUs, Readable(place)) \cup IndexOf(CUs, Passed)
        BY DEF IndexOf
      <4> QED BY <2>2, <3>1, <3>5, <3>6, <3>8, <4>1
    <3>10. failures' <= Cardinality(NotReadable(n))
      <4> DEFINE x == Cardinality(NotReadable(place))
                 b == IF Unreadable = {} THEN 0 ELSE 1
      <4>1. b \in Nat /\ x \in Nat /\ failures <= x
        BY <2>2, <3>1, <3>5
      <4> HIDE DEF x, b
      <4>2. failures + b <= x + b
        BY <1>1, <4>1
      <4> QED BY <3>4, <3>5, <4>2 DEF x, b
    <3> QED BY <3>3, <3>8, <3>9, <3>10
  <2> QED BY <2>4, <2>5
<1>4. CASE ~walk_for_cu /\ ~lookup_cached_cu
  <2>1. UNCHANGED <<place, cu_cache, generated_cu_cache, failures>>
    BY <1>4 DEF DwarfNext, dwarf_vars, caches, set_cache_mode, resolve_frame, lookup_aranges, split,
         get_line_table, retrieve_line_info, retrieve_symbol_walk, retrieve_symbol, return
  <2> QED BY <1>0, <2>1, IndexFrame
<1> QED BY <1>2, <1>3, <1>4

LEMMA TablesStep ==
  ASSUME DwarfTypeOK, TablesInv, WorkInv, [DwarfNext]_dwarf_vars
  PROVE  TablesInv'
<1>0. setting' = setting /\ CUs' = CUs /\ (Single' => Single /\ mode' = mode)
  BY SettingKept
<1>1. CASE get_line_table /\ CU.rows # <<>>
  <2>0. step = "table"
    BY <1>1 DEF get_line_table
  <2>1. cu # None
    BY <2>0 DEF WorkInv
  <2>2. line_tables' = NewTables
    BY <1>1 DEF get_line_table, NewTables, Table, Others, Hits
  <2>3. /\ Len(NewTables) <= setting.limit
        /\ \A i, j \in DOMAIN NewTables : NewTables[i].cu = NewTables[j].cu => i = j
        /\ Table \in ToSet(line_tables) \/ Table.built = (mode = "speed")
        /\ \A i \in DOMAIN NewTables : NewTables[i] = Table \/ NewTables[i] \in ToSet(line_tables)
    BY <2>1, TablesKept
  <2>4. ASSUME Single', NEW i \in DOMAIN NewTables PROVE NewTables[i].built = (mode' = "speed")
    <3>1. \A t \in ToSet(line_tables) : t.built = (mode = "speed")
      BY <1>0, <2>4 DEF TablesInv, ToSet
    <3>2. Table.built = (mode = "speed")
      BY <2>3, <3>1
    <3>3. NewTables[i].built = (mode = "speed")
      BY <2>3, <3>1, <3>2
    <3> QED BY <1>0, <2>4, <3>3
  <2> QED BY <1>0, <2>2, <2>3, <2>4 DEF TablesInv
<1>2. CASE ~(get_line_table /\ CU.rows # <<>>)
  <2>1. line_tables' = line_tables
    BY <1>2 DEF DwarfNext, dwarf_vars, caches, set_cache_mode, resolve_frame, lookup_aranges,
         walk_for_cu, lookup_cached_cu, split, get_line_table, retrieve_line_info,
         retrieve_symbol_walk, retrieve_symbol, return
  <2> QED BY <1>0, <2>1 DEF TablesInv
<1> QED BY <1>1, <1>2

\* The CU that was looked for is worked on next, or there is none to work on.
LEMMA WorkOnCU ==
  ASSUME DwarfTypeOK, WorkInv, step = "cu", setting' = setting, UNCHANGED <<pc, frame>>,
         \/ throw /\ UNCHANGED cu
         \/ \E c \in Candidates : found_cu(c)
  PROVE  WorkInv'
<1>1. cu = None /\ ~threw /\ frame = null_frame /\ CUs' = CUs
  BY DEF WorkInv, CUs
<1>2. CASE throw /\ UNCHANGED cu
  BY <1>1, <1>2 DEF throw, WorkInv
<1>3. ASSUME NEW c \in Candidates, found_cu(c) PROVE WorkInv'
  <2>1. /\ cu' = c /\ threw' = threw /\ frame' = null_frame /\ pc' = pc
        /\ step' \in {"done", "split", "table"}
        /\ step' # "done" => c # None
    BY <1>1, <1>3 DEF found_cu
  <2>2. c # None => Holds(CUs'[c].ranges, pc)
    BY <1>1 DEF Candidates
  <2> QED BY <1>1, <2>1, <2>2 DEF WorkInv, CU
<1> QED BY <1>2, <1>3

LEMMA WorkStep ==
  ASSUME DwarfTypeOK, WorkInv, TablesInv, [DwarfNext]_dwarf_vars
  PROVE  WorkInv'
<1>0. setting' = setting /\ CUs' = CUs
  BY SettingKept
<1>1. CASE set_cache_mode
  BY <1>0, <1>1 DEF set_cache_mode, caches, work, WorkInv, CU
<1>2. ASSUME NEW a \in Addresses, resolve_frame(a) PROVE WorkInv'
  BY <1>0, <1>2 DEF resolve_frame, WorkInv
<1>3. CASE lookup_aranges
  <2>1. step = "cu" /\ cu = None /\ UNCHANGED <<pc, frame>>
    BY <1>3 DEF lookup_aranges, WorkInv
  <2>2. \E c \in Candidates : found_cu(c)
    BY <1>3, <2>1, CUsFound
  <2> QED BY <1>0, <2>1, <2>2, WorkOnCU
<1>4. CASE walk_for_cu
  <2>1. step = "cu" /\ cu = None /\ UNCHANGED <<pc, frame>>
    BY <1>4 DEF walk_for_cu, WorkInv
  <2>2. (throw /\ UNCHANGED cu) \/ \E c \in Candidates : found_cu(c)
    BY <1>4, <2>1, CUsFound
  <2> QED BY <1>0, <2>1, <2>2, WorkOnCU
<1>5. CASE lookup_cached_cu
  <2>1. step = "cu" /\ cu = None /\ UNCHANGED <<pc, frame>>
    BY <1>5 DEF lookup_cached_cu, WorkInv
  <2>2. (throw /\ UNCHANGED cu) \/ \E c \in Candidates : found_cu(c)
    BY <1>5, <2>1, CUsFound
  <2> QED BY <1>0, <2>1, <2>2, WorkOnCU
<1>6. CASE split
  <2>1. /\ step' = "done" \/ (step' = "table" /\ threw' = threw)
        /\ step = "split" /\ UNCHANGED <<pc, cu, frame>>
    BY <1>6 DEF split, throw
  <2> QED BY <1>0, <2>1 DEF WorkInv, CU
<1>7. CASE get_line_table
  <2>1. step = "table" /\ UNCHANGED <<pc, cu, frame, threw>> /\ cu # None
    BY <1>7 DEF get_line_table, WorkInv
  <2>2. CASE CU.rows = <<>>
    <3>1. step' = "symbol"
      BY <1>7, <2>2 DEF get_line_table
    <3>2. null_frame.symbol = None
      BY DEF null_frame
    <3> QED BY <1>0, <2>1, <3>1, <3>2 DEF WorkInv, CU
  <2>3. CASE CU.rows # <<>>
    <3>1. step' = "line" /\ line_tables' = NewTables
      BY <1>7, <2>3 DEF get_line_table, NewTables, Table, Others, Hits
    <3>2. NewTables # <<>> /\ NewTables[1].cu = cu
      BY <2>1, TablesKept
    <3> QED BY <1>0, <2>1, <2>3, <3>1, <3>2 DEF WorkInv, CU
  <2> QED BY <2>2, <2>3
<1>8. CASE retrieve_line_info
  <2>1. /\ step = "line" /\ step' = "symbol" /\ UNCHANGED <<pc, cu, threw>>
        /\ \E row \in Rows : frame' = [frame EXCEPT !.row = row]
    BY <1>8 DEF retrieve_line_info
  <2>2. frame'.symbol = None
    <3>1. frame = null_frame
      BY <2>1 DEF WorkInv
    <3> QED BY <2>1, <3>1 DEF null_frame
  <2> QED BY <1>0, <2>1, <2>2 DEF WorkInv, CU
<1>9. CASE retrieve_symbol_walk
  <2>1. step' = "done" /\ UNCHANGED <<pc, cu>>
    BY <1>9 DEF retrieve_symbol_walk, throw
  <2> QED BY <1>0, <2>1 DEF WorkInv, CU
<1>10. CASE retrieve_symbol
  <2>1. step' = "done" /\ UNCHANGED <<pc, cu>>
    BY <1>10 DEF retrieve_symbol
  <2> QED BY <1>0, <2>1 DEF WorkInv, CU
<1>11. CASE return
  BY <1>11 DEF return, WorkInv, null_frame
<1>12. CASE UNCHANGED dwarf_vars
  BY <1>0, <1>12 DEF dwarf_vars, caches, work, WorkInv, CU
<1> QED BY <1>1, <1>2, <1>3, <1>4, <1>5, <1>6, <1>7, <1>8, <1>9, <1>10, <1>11, <1>12 DEF DwarfNext

\* A full cache gives the CU that is expected, or none if none is.
LEMMA CachedCU ==
  ASSUME DwarfTypeOK, IndexInv', [DwarfNext]_dwarf_vars, lookup_cached_cu, cu = None,
         Single', ~threw', Unjoined(CUs)
  PROVE  cu' = Expected
<1>0. setting' = setting /\ CUs' = CUs /\ Single /\ mode' = mode
  BY SettingKept
<1>1. mode # "memory" /\ InAranges = {}
  BY DEF lookup_cached_cu
<1>2. generated_cu_cache'
  BY DEF lookup_cached_cu, throw
<1>3. \/ lookup(cu_cache', pc) = {} /\ cu' = None
      \/ \E c \in lookup(cu_cache', pc) : cu' = IF Holds(CUs[c].ranges, pc) THEN c ELSE None
  BY <1>2 DEF lookup_cached_cu, found_cu
<1>4. Items(CUs) /\ Len(CUs) \in Nat /\ DOMAIN CUs = 1 .. Len(CUs) /\ pc \in Nat
  BY SettingFacts DEF DwarfTypeOK
<1> DEFINE C == Readable(Len(CUs))
<1>5. ToSet(cu_cache') = IndexOf(CUs, C)
  <2>1. Upto' = Len(CUs)
    BY <1>0, <1>2 DEF Upto
  <2>2. Readable(Upto)' = C
    BY <1>0, <2>1 DEF Readable
  <2>3. IndexOf(CUs, Readable(Upto))' = IndexOf(CUs, C)
    BY <1>0, <2>2
  <2>4. mode' # "memory"
    BY <1>0, <1>1
  <2>5. ToSet(cu_cache)' = IndexOf(CUs, Readable(Upto))'
    BY <2>4 DEF IndexInv
  <2> QED BY <2>3, <2>5 DEF ToSet
<1>6. C \subseteq DOMAIN CUs /\ \A c \in DOMAIN CUs : c \in C <=> CUs[c].readable
  BY <1>4 DEF Readable
<1> HIDE DEF C
<1>7. lookup(cu_cache', pc) \subseteq C
  BY <1>4, <1>5, <1>6, LookupInIndex
<1>8. /\ CUOf(pc) # None => CUOf(pc) \in DOMAIN CUs /\ Holds(CUs[CUOf(pc)].ranges, pc)
      /\ \A c \in DOMAIN CUs : Holds(CUs[c].ranges, pc) => c = CUOf(pc)
  BY TheCU
<1>9. CASE CUOf(pc) \in C
  <2>1. CUOf(pc) # None
    BY <1>4, <1>6, <1>9 DEF None
  <2>2. Holds(CUs[CUOf(pc)].ranges, pc)
    BY <1>8, <2>1
  <2>3. lookup(cu_cache', pc) = {CUOf(pc)}
    BY <1>4, <1>5, <1>6, <1>9, <2>2, LookupFinds
  <2>4. cu' = CUOf(pc)
    BY <1>3, <2>2, <2>3
  <2>5. Expected = CUOf(pc)
    BY <1>6, <1>8, <1>9, <2>1 DEF Expected
  <2> QED BY <2>4, <2>5
<1>10. CASE CUOf(pc) \notin C
  <2>1. cu' = None
    <3>1. \A c \in lookup(cu_cache', pc) : ~Holds(CUs[c].ranges, pc)
      BY <1>6, <1>7, <1>8, <1>10
    <3> QED BY <1>3, <3>1
  <2>2. Expected = None
    <3>1. CUOf(pc) # None => ~CUs[CUOf(pc)].readable
      BY <1>6, <1>8, <1>10
    <3>2. CUOf(pc) # None => ~CUs[CUOf(pc)].arange
      <4>1. \A c \in DOMAIN CUs : Holds(CUs[c].ranges, pc) => ~CUs[c].arange
        BY <1>1, <1>4 DEF InAranges
      <4> QED BY <1>8, <4>1
    <3> QED BY <3>1, <3>2 DEF Expected
  <2> QED BY <2>1, <2>2
<1> QED BY <1>9, <1>10

LEMMA CUStep ==
  ASSUME DwarfTypeOK, WorkInv, IndexInv, IndexInv', CUInv, [DwarfNext]_dwarf_vars
  PROVE  CUInv'
<1>0. setting' = setting /\ CUs' = CUs /\ (Single' => Single /\ mode' = mode)
  BY SettingKept
<1> SUFFICES ASSUME Single', ~threw', step' \notin {"idle", "cu"}, Unjoined(CUs),
                    mode = "memory" => AllReadable
             PROVE  cu' = Expected'
  BY <1>0 DEF CUInv, AllReadable
<1>1. Single /\ mode' = mode
  BY <1>0
<1>2. CASE lookup_aranges \/ walk_for_cu \/ lookup_cached_cu
  <2>1. step = "cu" /\ pc' = pc
    BY <1>2 DEF lookup_aranges, walk_for_cu, lookup_cached_cu
  <2>2. cu = None
    BY <2>1 DEF WorkInv
  <2>3. CUOf(pc)' = CUOf(pc)
    BY <1>0, <2>1 DEF CUOf
  <2>4. Expected' = Expected
    BY <1>0, <2>1, <2>3 DEF Expected
  <2>5. CASE lookup_aranges
    <3>1. PICK c \in Candidates : c # None /\ CUs[c].arange /\ found_cu(c)
      BY <2>2, <2>5, CUsFound
    <3>2. c \in DOMAIN CUs /\ Holds(CUs[c].ranges, pc) /\ cu' = c
      BY <3>1 DEF Candidates, found_cu
    <3>3. c = CUOf(pc)
      BY <3>2, TheCU
    <3>4. Expected = c
      BY <3>1, <3>3 DEF Expected
    <3> QED BY <2>4, <3>2, <3>4
  <2>6. CASE walk_for_cu
    <3>1. mode = "memory" /\ AllReadable /\ place = 0
      BY <1>1, <2>6 DEF walk_for_cu, IndexInv
    <3>2. cu' = MaxOr(Places, None)
      BY <2>6 DEF walk_for_cu, throw, found_cu, Places
    <3>3. cu' = CUOf(pc)
      BY <3>1, <3>2, WalkedFor
    <3>4. Expected = CUOf(pc)
      <4>1. CUOf(pc) # None => CUOf(pc) \in DOMAIN CUs
        BY TheCU
      <4> QED BY <3>1, <4>1 DEF Expected, AllReadable
    <3> QED BY <2>4, <3>3, <3>4
  <2>7. CASE lookup_cached_cu
    BY <2>2, <2>4, <2>7, CachedCU
  <2> QED BY <1>2, <2>5, <2>6, <2>7
<1>3. CASE ~(lookup_aranges \/ walk_for_cu \/ lookup_cached_cu)
  <2>1. step \notin {"idle", "cu"} /\ pc' = pc /\ cu' = cu /\ ~threw
    <3>1. CASE split
      BY <3>1 DEF split, throw
    <3>2. CASE retrieve_symbol_walk
      BY <3>2 DEF retrieve_symbol_walk, throw
    <3>3. CASE ~split /\ ~retrieve_symbol_walk
      BY <1>3, <3>3 DEF DwarfNext, dwarf_vars, work, set_cache_mode, resolve_frame,
         get_line_table, retrieve_line_info, retrieve_symbol, return
    <3> QED BY <3>1, <3>2, <3>3
  <2>2. cu = Expected
    BY <1>1, <2>1 DEF CUInv
  <2>3. Expected' = Expected
    <3>1. CUOf(pc)' = CUOf(pc)
      BY <1>0, <2>1 DEF CUOf
    <3> QED BY <1>0, <2>1, <3>1 DEF Expected
  <2> QED BY <2>1, <2>2, <2>3
<1> QED BY <1>2, <1>3

\* A line table has a row for every address of its CU.
LEMMA RowFound ==
  ASSUME DwarfTypeOK, WorkInv, cu # None, CU.rows # <<>>
  PROVE  RowsOf(CU.rows, pc) # {}
<1>1. cu \in DOMAIN CUs /\ pc \in Nat
  BY SettingFacts DEF DwarfTypeOK, None
<1>2. Items(CUs) /\ RowsCover(CU.rows, CU.ranges)
  BY <1>1, SettingFacts DEF DwarfTypeOK, CU
<1>3. CU.ranges \in Seq(AddressRange)
  BY <1>1, <1>2 DEF Items, CU
<1>4. PICK i \in DOMAIN CU.ranges : CU.ranges[i][1] <= pc /\ pc < CU.ranges[i][2]
  BY DEF WorkInv, Holds
<1>5. CU.ranges[i] \in AddressRange
  BY <1>3
<1>6. CU.ranges[i][1] \in Nat /\ CU.ranges[i][2] \in Nat
  BY <1>5 DEF AddressRange
<1>7. pc \in CU.ranges[i][1] .. CU.ranges[i][2] - 1
  BY <1>1, <1>4, <1>6
<1> QED BY <1>2, <1>4, <1>7 DEF RowsCover

\* What retrieve_line_info gives: a row of the address or none, and with no
\* change of mode the row.
LEMMA RowGiven ==
  ASSUME DwarfTypeOK, TablesInv, WorkInv, step = "line", NEW row \in Rows, Ordered(CU.rows)
  PROVE  /\ InsideRow(CU.rows, pc) => row \in {None, RowAt(CU.rows, pc)}
         /\ Single /\ (mode # "speed" => InsideRow(CU.rows, pc)) => row = RowAt(CU.rows, pc)
<1>1. cu # None /\ CU.rows # <<>> /\ line_tables # <<>>
  BY DEF WorkInv
<1>2. cu \in DOMAIN CUs /\ pc \in Nat
  BY <1>1, SettingFacts DEF DwarfTypeOK, None
<1>3. LineTable(CU.rows)
  BY <1>2, SettingFacts DEF DwarfTypeOK, CU
<1>4. CASE mode # "speed"
  <2>1. row = walk_line(CU.rows, pc)
    BY <1>4 DEF Rows
  <2>2. InsideRow(CU.rows, pc) => row = RowAt(CU.rows, pc)
    BY <1>2, <1>3, <2>1, WalkIsRight
  <2> QED BY <1>4, <2>2
<1>5. CASE mode = "speed"
  <2>1. PICK i : i \in RowsOf(CU.rows, pc)
    BY <1>1, RowFound
  <2>2. lookup_line(CU.rows, pc) = {i} /\ RowAt(CU.rows, pc) = i
    BY <1>2, <1>3, <2>1, OneRow, TableIsRight
  <2>3. row \in {None, i}
    BY <1>5, <2>2 DEF Rows
  <2>4. Single => Head(line_tables).built
    <3>1. line_tables \in Seq([cu : DOMAIN CUs, built : BOOLEAN])
      BY DEF DwarfTypeOK
    <3>2. Head(line_tables) = line_tables[1] /\ 1 \in DOMAIN line_tables
      BY <1>1, <3>1
    <3>3. Single => line_tables[1].built = (mode = "speed")
      BY <3>2 DEF TablesInv
    <3> QED BY <1>5, <3>2, <3>3
  <2>5. Single => row = i
    BY <1>5, <2>2, <2>4 DEF Rows
  <2> QED BY <2>2, <2>3, <2>5
<1> QED BY <1>4, <1>5

LEMMA RowStep ==
  ASSUME DwarfTypeOK, WorkInv, WorkInv', TablesInv, RowInv, [DwarfNext]_dwarf_vars
  PROVE  RowInv'
<1>0. setting' = setting /\ CUs' = CUs /\ (Single' => Single /\ mode' = mode)
  BY SettingKept
<1> SUFFICES ASSUME cu' # None PROVE RowInv'
  BY DEF RowInv
\* The frame has no row yet, and is not done.
<1>1. ASSUME frame' = null_frame, step' \notin {"symbol", "done"} \/ threw' PROVE RowInv'
  <2>1. frame'.row = None
    BY <1>1 DEF null_frame
  <2> QED BY <1>1, <2>1 DEF RowInv
\* The row of the frame and the CU stay.
<1>2. ASSUME UNCHANGED <<pc, cu>>, frame'.row = frame.row,
             step' \in {"symbol", "done"} /\ ~threw' => step \in {"symbol", "done"} /\ ~threw
      PROVE  RowInv'
  <2>1. CU' = CU
    BY <1>0, <1>2 DEF CU
  <2> QED BY <1>0, <1>2, <2>1 DEF RowInv, Located
<1>3. CASE lookup_aranges \/ walk_for_cu \/ lookup_cached_cu
  <2>1. step = "cu" /\ frame' = frame
    BY <1>3 DEF lookup_aranges, walk_for_cu, lookup_cached_cu
  <2>2. cu = None /\ frame = null_frame
    BY <2>1 DEF WorkInv
  <2>3. (throw /\ UNCHANGED cu) \/ \E c \in Candidates : found_cu(c)
    BY <1>3, <2>2, CUsFound
  <2>4. step' \notin {"symbol", "done"}
    <3>1. \E c \in Candidates : found_cu(c)
      BY <2>2, <2>3
    <3> QED BY <3>1 DEF found_cu
  <2> QED BY <1>1, <2>1, <2>2, <2>4
<1>4. CASE split
  <2>1. /\ step = "split" /\ UNCHANGED <<pc, cu, frame>>
        /\ step' = "table" \/ threw' \/ CU.contents = "unlocated"
    BY <1>4 DEF split, throw
  <2>2. frame'.row = None /\ CU' = CU
    BY <1>0, <2>1 DEF WorkInv, CU, null_frame
  <2>3. CASE step' = "table"
    BY <2>2, <2>3 DEF RowInv
  <2> QED BY <2>1, <2>2, <2>3 DEF RowInv, Located
<1>5. CASE get_line_table
  <2>1. step = "table" /\ UNCHANGED <<pc, cu, frame, threw>>
    BY <1>5 DEF get_line_table
  <2>2. frame = null_frame /\ CU' = CU
    BY <1>0, <2>1 DEF WorkInv, CU
  <2>3. CASE CU.rows # <<>>
    <3>1. step' = "line"
      BY <1>5, <2>3 DEF get_line_table
    <3> QED BY <1>1, <2>1, <2>2, <3>1
  <2>4. CASE CU.rows = <<>>
    <3>1. RowAt(CU.rows, pc) = None
      BY <2>4 DEF RowAt, RowsOf, MaxOr
    <3>2. RowAt(CU'.rows, pc') = None /\ frame'.row = None
      BY <2>1, <2>2, <3>1 DEF null_frame
    <3> QED BY <3>2 DEF RowInv
  <2> QED BY <2>3, <2>4
<1>6. CASE retrieve_line_info
  <2>1. step = "line" /\ UNCHANGED <<pc, cu, threw, mode, modes>>
    BY <1>6 DEF retrieve_line_info
  <2>2. PICK row \in Rows : frame' = [frame EXCEPT !.row = row]
    BY <1>6 DEF retrieve_line_info
  <2>3. frame'.row = row
    BY <2>2 DEF DwarfTypeOK
  <2>4. CU' = CU
    BY <1>0, <2>1 DEF CU
  <2>5. Ordered(CU.rows) =>
          /\ InsideRow(CU.rows, pc) => row \in {None, RowAt(CU.rows, pc)}
          /\ Single /\ (mode # "speed" => InsideRow(CU.rows, pc)) => row = RowAt(CU.rows, pc)
    BY <2>1, RowGiven
  <2> QED BY <1>0, <2>1, <2>3, <2>4, <2>5 DEF RowInv
<1>7. CASE retrieve_symbol_walk
  <2>1. step = "symbol" /\ UNCHANGED <<pc, cu>> /\ (threw' \/ threw' = threw)
    BY <1>7 DEF retrieve_symbol_walk, throw
  <2>2. frame' = frame \/ \E f : frame' = [frame EXCEPT !.symbol = f]
    BY <1>7 DEF retrieve_symbol_walk
  <2>3. frame'.row = frame.row
    BY <2>2 DEF DwarfTypeOK
  <2> QED BY <1>2, <2>1, <2>3 DEF WorkInv
<1>8. CASE retrieve_symbol
  <2>1. step = "symbol" /\ UNCHANGED <<pc, cu, threw>>
    BY <1>8 DEF retrieve_symbol
  <2>2. frame' = frame \/ \E f : frame' = [frame EXCEPT !.symbol = f]
    BY <1>8 DEF retrieve_symbol
  <2>3. frame'.row = frame.row
    BY <2>2 DEF DwarfTypeOK
  <2> QED BY <1>2, <2>1, <2>3
<1>9. CASE set_cache_mode \/ UNCHANGED dwarf_vars
  <2>1. UNCHANGED <<pc, cu, frame, step, threw>>
    BY <1>9 DEF set_cache_mode, dwarf_vars, work
  <2> QED BY <1>2, <2>1
<1>10. ASSUME NEW a \in Addresses, resolve_frame(a) PROVE RowInv'
  <2>1. step = "idle" /\ cu' = cu
    BY <1>10 DEF resolve_frame
  <2> QED BY <2>1 DEF WorkInv
<1>11. CASE return
  BY <1>11 DEF return
<1> QED BY <1>3, <1>4, <1>5, <1>6, <1>7, <1>8, <1>9, <1>10, <1>11 DEF DwarfNext

\* The map of the functions of the CU has the entries of them all.
LEMMA SubprogramMap ==
  ASSUME DwarfTypeOK, cu # None
  PROVE  /\ Items(CU.functions) /\ pc \in Nat /\ Functions \subseteq Nat
         /\ ToSet(subprogram_map) = IndexOf(CU.functions, Functions)
<1>1. cu \in DOMAIN CUs /\ pc \in Nat
  BY SettingFacts DEF DwarfTypeOK, None
<1>2. Items(CU.functions)
  BY <1>1, SettingFacts DEF DwarfTypeOK, CU
<1> DEFINE s == [f \in Functions |-> entries(f, CU.functions[f].ranges)]
           X == EntryType
<1>3. \A f \in Functions : entries(f, CU.functions[f].ranges) \in Seq(X)
  BY <1>2, EntriesOfItem DEF Functions
<1>4. Functions = 1 .. Len(CU.functions) /\ Len(CU.functions) \in Nat
  BY <1>2 DEF Functions, Items
<1> HIDE DEF X
<1>5. s \in Seq(Seq(X))
  <2>1. s \in [1 .. Len(CU.functions) -> Seq(X)]
    BY <1>3, <1>4
  <2> HIDE DEF s
  <2> QED BY <1>4, <2>1
<1>6. DOMAIN s = Functions /\ \A f \in Functions : s[f] = entries(f, CU.functions[f].ranges)
  OBVIOUS
<1> HIDE DEF s
<1>7. ToSet(FlattenSeq(s)) = UNION {ToSet(s[i]) : i \in DOMAIN s}
  BY <1>5, SetOfFlatten
<1>8. UNION {ToSet(s[i]) : i \in DOMAIN s} = IndexOf(CU.functions, Functions)
  BY <1>6 DEF IndexOf
<1>9. subprogram_map = FlattenSeq(s)
  BY DEF subprogram_map, s
<1>10. Functions \subseteq Nat
  BY <1>4
<1> QED BY <1>1, <1>2, <1>7, <1>8, <1>9, <1>10

\* The function that holds the address is the only one that does.
LEMMA TheFunction ==
  ASSUME DwarfTypeOK, cu # None
  PROVE  LET f == FunctionAt(CU.functions, pc)
         IN /\ f = None => Holding = {}
            /\ f # None => f \in Functions /\ Holding = {f}
<1>1. Items(CU.functions) /\ pc \in Nat
  BY SubprogramMap
<1> DEFINE f == FunctionAt(CU.functions, pc)
<1>2. /\ f = None => \A i \in DOMAIN CU.functions : ~Holds(CU.functions[i].ranges, pc)
      /\ f # None => f \in DOMAIN CU.functions /\ Holds(CU.functions[f].ranges, pc)
      /\ \A i \in DOMAIN CU.functions : Holds(CU.functions[i].ranges, pc) => i = f
  BY <1>1, TheHolder DEF FunctionAt
<1> HIDE DEF f
<1> QED BY <1>2 DEF Holding, Functions, f

\* What the two ways to look for a function give.
LEMMA SymbolWalked ==
  ASSUME DwarfTypeOK, WorkInv, retrieve_symbol_walk
  PROVE  LET f == FunctionAt(CU.functions, pc)
         IN /\ cu # None /\ UNCHANGED <<pc, cu>>
            /\ frame'.symbol \in {None, f}
            /\ ~threw' /\ CU.contents = "here" /\ (f # None => CU.functions[f].inside = None)
                 => frame'.symbol = f
<1> DEFINE f == FunctionAt(CU.functions, pc)
           outermost == {g \in Holding : CU.functions[g].inside = None}
<1>1. step = "symbol" /\ UNCHANGED <<pc, cu>>
  BY DEF retrieve_symbol_walk
<1>2. cu # None /\ frame.symbol = None
  BY <1>1 DEF WorkInv
<1>3. (f = None => Holding = {}) /\ (f # None => f \in Functions /\ Holding = {f})
  BY <1>2, TheFunction
<1>0. f # None => f \in Nat
  BY <1>2, <1>3, SubprogramMap
<1> HIDE DEF f
<1>4. CASE threw'
  <2>1. frame' = frame
    BY <1>1, <1>2, <1>4 DEF retrieve_symbol_walk, WorkInv
  <2> QED BY <1>1, <1>2, <1>4, <2>1
<1>5. CASE ~threw'
  <2>0. \A n : [frame EXCEPT !.symbol = n].symbol = n
    BY DEF DwarfTypeOK
  <2>1. frame'.symbol = IF CU.contents = "split" \/ outermost = {} THEN None
                        ELSE CHOOSE g \in outermost : \A h \in outermost : g <= h
    BY <1>5, <2>0 DEF retrieve_symbol_walk, throw
  <2>2. CASE outermost = {}
    <3>1. f # None => CU.functions[f].inside # None
      BY <1>3, <2>2
    <3> QED BY <1>1, <1>2, <2>1, <2>2, <3>1 DEF f
  <2>3. CASE outermost # {}
    <3>1. f # None /\ outermost = {f} /\ f <= f
      BY <1>0, <1>3, <2>3
    <3> HIDE DEF outermost
    <3>2. (CHOOSE g \in outermost : \A h \in outermost : g <= h) = f
      BY <3>1
    <3> QED BY <1>1, <1>2, <2>1, <2>3, <3>2 DEF f
  <2> QED BY <2>2, <2>3
<1> QED BY <1>4, <1>5 DEF f

LEMMA SymbolLookedUp ==
  ASSUME DwarfTypeOK, WorkInv, retrieve_symbol
  PROVE  LET f == FunctionAt(CU.functions, pc)
         IN /\ cu # None /\ UNCHANGED <<pc, cu>>
            /\ frame'.symbol \in {None, f}
            /\ Unjoined(CU.functions) => frame'.symbol = f
<1> DEFINE f == FunctionAt(CU.functions, pc)
           hits == lookup(subprogram_map, pc)
<1>1. step = "symbol" /\ UNCHANGED <<pc, cu>>
  BY DEF retrieve_symbol
<1>2. cu # None /\ frame.symbol = None
  BY <1>1 DEF WorkInv
<1>3. (f = None => Holding = {}) /\ (f # None => f \in Functions /\ Holding = {f})
  BY <1>2, TheFunction
<1>4. /\ Items(CU.functions) /\ pc \in Nat
      /\ ToSet(subprogram_map) = IndexOf(CU.functions, Functions)
  BY <1>2, SubprogramMap
<1>5. \/ hits = {} /\ frame' = frame
      \/ \E g \in hits : frame'.symbol = function_checked(g)
  <2>1. \A n : [frame EXCEPT !.symbol = n].symbol = n
    BY DEF DwarfTypeOK
  <2> QED BY <2>1 DEF retrieve_symbol
<1>6. f # None /\ Unjoined(CU.functions) => hits = {f}
  <2> SUFFICES ASSUME f # None, Unjoined(CU.functions) PROVE hits = {f}
    OBVIOUS
  <2> HIDE DEF f, hits
  <2>1. f \in Functions /\ Holds(CU.functions[f].ranges, pc)
    BY <1>3 DEF Holding
  <2>2. lookup(subprogram_map, pc) = {f}
    BY <1>4, <2>1, LookupFinds DEF Functions
  <2> QED BY <2>2 DEF hits
<1> HIDE DEF f, hits
<1>7. \A g : function_checked(g) \in {None, f} /\ (f # None => function_checked(f) = f)
  BY <1>3 DEF function_checked
<1>8. frame'.symbol \in {None, f}
  BY <1>2, <1>5, <1>7
<1>9. Unjoined(CU.functions) => frame'.symbol = f
  BY <1>5, <1>6, <1>7, <1>8
<1> QED BY <1>1, <1>2, <1>8, <1>9 DEF f

LEMMA SymbolStep ==
  ASSUME DwarfTypeOK, WorkInv, WorkInv', SymbolInv, [DwarfNext]_dwarf_vars
  PROVE  SymbolInv'
<1>0. setting' = setting /\ CUs' = CUs /\ (Single' => Single /\ mode' = mode)
  BY SettingKept
<1>1. CASE retrieve_symbol_walk
  <2> DEFINE f == FunctionAt(CU.functions, pc)
  <2>1. /\ cu # None /\ UNCHANGED <<pc, cu>>
        /\ frame'.symbol \in {None, f}
        /\ ~threw' /\ CU.contents = "here" /\ (f # None => CU.functions[f].inside = None)
             => frame'.symbol = f
    BY <1>1, SymbolWalked
  <2>2. CU' = CU /\ mode' = "memory"
    BY <1>0, <1>1, <2>1 DEF CU, retrieve_symbol_walk
  <2> QED BY <2>1, <2>2 DEF SymbolInv
<1>2. CASE retrieve_symbol
  <2> DEFINE f == FunctionAt(CU.functions, pc)
  <2>1. /\ cu # None /\ UNCHANGED <<pc, cu>>
        /\ frame'.symbol \in {None, f}
        /\ Unjoined(CU.functions) => frame'.symbol = f
    BY <1>2, SymbolLookedUp
  <2>2. CU' = CU
    BY <1>0, <1>2, <2>1 DEF CU
  <2> QED BY <2>1, <2>2 DEF SymbolInv
<1>3. CASE set_cache_mode \/ UNCHANGED dwarf_vars
  <2>1. UNCHANGED <<pc, cu, frame, step, threw>>
    BY <1>3 DEF set_cache_mode, dwarf_vars, work
  <2>2. CU' = CU
    BY <1>0, <2>1 DEF CU
  <2> QED BY <1>0, <2>1, <2>2 DEF SymbolInv, Located
\* No other step gives the frame a function, nor is it done in another way
\* than by failing, or for want of a CU.
<1>4. ASSUME cu' # None => frame'.symbol = None /\ (step' = "done" => threw') PROVE SymbolInv'
  BY <1>4 DEF SymbolInv
<1>5. CASE lookup_aranges \/ walk_for_cu \/ lookup_cached_cu
  <2>1. step = "cu" /\ frame' = frame
    BY <1>5 DEF lookup_aranges, walk_for_cu, lookup_cached_cu
  <2>2. cu = None /\ frame = null_frame
    BY <2>1 DEF WorkInv
  <2>3. (throw /\ UNCHANGED cu) \/ \E c \in Candidates : found_cu(c)
    BY <1>5, <2>2, CUsFound
  <2>4. cu' # None => step' # "done"
    BY <2>2, <2>3 DEF found_cu
  <2> QED BY <1>4, <2>1, <2>2, <2>4 DEF null_frame
<1>6. CASE split
  <2>1. /\ step = "split" /\ UNCHANGED <<pc, cu, frame>>
        /\ step' = "done" => threw' \/ CU.contents = "unlocated"
    BY <1>6 DEF split, throw
  <2>2. frame'.symbol = None /\ CU' = CU
    BY <1>0, <2>1 DEF WorkInv, CU, null_frame
  <2> QED BY <2>1, <2>2 DEF SymbolInv, Located
<1>7. CASE get_line_table
  <2>1. step = "table" /\ frame' = frame /\ step' # "done"
    BY <1>7 DEF get_line_table
  <2>2. frame = null_frame
    BY <2>1 DEF WorkInv
  <2> QED BY <1>4, <2>1, <2>2 DEF null_frame
<1>8. CASE retrieve_line_info
  <2>1. step' = "symbol"
    BY <1>8 DEF retrieve_line_info
  <2> QED BY <1>4, <2>1 DEF WorkInv
<1>9. ASSUME NEW a \in Addresses, resolve_frame(a) PROVE SymbolInv'
  <2>1. cu' = None
    BY <1>9 DEF resolve_frame, WorkInv
  <2> QED BY <1>4, <2>1
<1>10. CASE return
  BY <1>4, <1>10 DEF return
<1> QED BY <1>1, <1>2, <1>3, <1>5, <1>6, <1>7, <1>8, <1>9, <1>10 DEF DwarfNext

-----------------------------------------------------------------------------
LEMMA DwarfInitEstablishes ==
  ASSUME DwarfInit
  PROVE  DwarfIInv
<1>1. setting \in Settings
  BY DEF DwarfInit
<1>2. /\ setting.modes \subseteq Modes /\ setting.limit \in Nat \ {0}
      /\ Len(CUs) \in Nat /\ DOMAIN CUs = 1 .. Len(CUs)
  BY <1>1, SettingFacts
<1>3. DwarfTypeOK
  <2>1. mode \in Modes /\ modes \subseteq Modes /\ mode \in modes
    BY <1>2 DEF DwarfInit
  <2>2. place \in 0 .. Len(CUs) /\ cu \in 0 .. Len(CUs)
    BY <1>2 DEF DwarfInit, None
  <2>3. /\ cu_cache \in Seq([item : DOMAIN CUs, low : Nat])
        /\ line_tables \in Seq([cu : DOMAIN CUs, built : BOOLEAN])
    BY DEF DwarfInit
  <2>4. frame \in [row : Nat, symbol : Nat]
    BY DEF DwarfInit, None, null_frame
  <2>5. /\ generated_cu_cache \in BOOLEAN /\ subprograms_cache = {} /\ split_full_cu_resolvers = {}
        /\ pc = 0 /\ step = "idle" /\ threw \in BOOLEAN /\ frames = 0 /\ failures = 0
    BY DEF DwarfInit
  <2> QED BY <1>1, <2>1, <2>2, <2>3, <2>4, <2>5 DEF DwarfTypeOK, Steps
<1>4. IndexInv
  <2>1. Readable(Upto) = {} /\ NotReadable(Upto) = {} /\ Upto = 0
    BY DEF DwarfInit, Upto, Readable, NotReadable
  <2>2. ToSet(cu_cache) = {} /\ IsInjective(cu_cache)
    BY DEF DwarfInit, ToSet, IsInjective
  <2>3. IndexOf(CUs, {}) = {}
    BY DEF IndexOf
  <2>4. Cardinality({}) = 0
    BY FS_EmptySet
  <2>5. ToSet(cu_cache) = IndexOf(CUs, Readable(Upto))
    BY <2>1, <2>2, <2>3
  <2>6. failures = 0 /\ failures <= Cardinality(NotReadable(Upto))
    <3>1. failures = 0 /\ 0 <= 0
      BY DEF DwarfInit
    <3> QED BY <2>1, <2>4, <3>1
  <2>7. cu_cache = <<>> /\ ~generated_cu_cache /\ place = 0
    BY DEF DwarfInit
  <2> QED BY <2>2, <2>5, <2>6, <2>7 DEF IndexInv
<1>5. TablesInv
  BY <1>2 DEF DwarfInit, TablesInv
<1>6. WorkInv /\ RowInv /\ SymbolInv
  BY DEF DwarfInit, WorkInv, RowInv, SymbolInv, null_frame
<1>7. CUInv
  BY DEF DwarfInit, CUInv
<1> QED BY <1>3, <1>4, <1>5, <1>6, <1>7 DEF DwarfIInv

\* The parts of the invariant are kept together.
THEOREM DwarfInvariant == DwarfSpec => []DwarfIInv
<1>1. DwarfInit => DwarfIInv
  BY DwarfInitEstablishes
<1>2. DwarfIInv /\ [DwarfNext]_dwarf_vars => DwarfIInv'
  <2> SUFFICES ASSUME DwarfIInv, [DwarfNext]_dwarf_vars PROVE DwarfIInv'
    OBVIOUS
  <2>1. DwarfTypeOK' /\ IndexInv' /\ TablesInv' /\ WorkInv'
    BY TypeStep, IndexStep, TablesStep, WorkStep DEF DwarfIInv
  <2>2. CUInv' /\ RowInv' /\ SymbolInv'
    BY <2>1, CUStep, RowStep, SymbolStep DEF DwarfIInv
  <2> QED BY <2>1, <2>2 DEF DwarfIInv
<1> QED BY <1>1, <1>2, PTL DEF DwarfSpec

\* Set to one mode only, the program is in that mode.
LEMMA SingleIfOne ==
  ASSUME DwarfTypeOK, Cardinality(modes) = 1
  PROVE  Single
<1>1. mode \in modes /\ modes \subseteq Modes
  BY DEF DwarfTypeOK
<1>2. IsFiniteSet(modes)
  <2>1. IsFiniteSet(Modes)
    <3>1. IsFiniteSet({}) /\ Modes = (({} \cup {"speed"}) \cup {"hybrid"}) \cup {"memory"}
      BY FS_EmptySet DEF Modes
    <3> QED BY <3>1, FS_AddElement
  <2> QED BY <1>1, <2>1, FS_Subset
<1>3. PICK m : modes = {m}
  BY <1>2, FS_Singleton
<1> QED BY <1>1, <1>3 DEF Single

\* Every attempt to build the cache that fails gets past a CU that cannot be
\* read, and what it found is kept and not added again; the line tables are of
\* different CUs and not more than the limit.
THEOREM CacheIsBuiltOnce == DwarfSpec => []CacheBuiltOnce
<1>1. DwarfIInv => CacheBuiltOnce
  <2> SUFFICES ASSUME DwarfIInv, Cardinality(modes) = 1
               PROVE  /\ failures <= Cardinality({c \in DOMAIN CUs : ~CUs[c].readable})
                      /\ \A i, j \in DOMAIN cu_cache : cu_cache[i] = cu_cache[j] => i = j
                      /\ Len(line_tables) <= setting.limit
                      /\ \A i, j \in DOMAIN line_tables :
                           line_tables[i].cu = line_tables[j].cu => i = j
    BY DEF CacheBuiltOnce
  <2>0. DwarfTypeOK /\ IndexInv /\ TablesInv /\ Single
    BY SingleIfOne DEF DwarfIInv
  <2>1. /\ Len(CUs) \in Nat /\ DOMAIN CUs = 1 .. Len(CUs) /\ failures \in Nat
        /\ place \in 0 .. Len(CUs)
    BY <2>0, SettingFacts DEF DwarfTypeOK
  <2> DEFINE U == {c \in DOMAIN CUs : ~CUs[c].readable}
  <2>2. IsFiniteSet(U) /\ Cardinality(U) \in Nat
    <3>1. IsFiniteSet(1 .. Len(CUs)) /\ U \in SUBSET (1 .. Len(CUs))
      BY <2>1, FS_Interval
    <3> QED BY <3>1, FS_Subset, FS_CardinalityType
  <2>3. failures <= Cardinality(U)
    <3>1. CASE mode = "memory"
      <4>1. failures = 0
        BY <2>0, <3>1 DEF IndexInv
      <4> HIDE DEF U
      <4> QED BY <2>2, <4>1
    <3>2. CASE mode # "memory"
      <4>1. failures <= Cardinality(NotReadable(Upto))
        BY <2>0, <3>2 DEF IndexInv
      <4>2. NotReadable(Upto) \in SUBSET U
        BY <2>1 DEF NotReadable, Upto
      <4> HIDE DEF U
      <4>3. Cardinality(NotReadable(Upto)) <= Cardinality(U) /\ Cardinality(NotReadable(Upto)) \in Nat
        BY <2>2, <4>2, FS_Subset, FS_CardinalityType
      <4> QED BY <2>1, <2>2, <4>1, <4>3
    <3> QED BY <3>1, <3>2
  <2>4. \A i, j \in DOMAIN cu_cache : cu_cache[i] = cu_cache[j] => i = j
    <3>1. CASE mode = "memory"
      BY <2>0, <3>1 DEF IndexInv
    <3>2. CASE mode # "memory"
      BY <2>0, <3>2 DEF IndexInv, IsInjective
    <3> QED BY <3>1, <3>2
  <2> QED BY <2>0, <2>3, <2>4 DEF TablesInv
<1> QED BY <1>1, DwarfInvariant, PTL

\* Whenever the mode is changed and whatever fails, a frame is given the CU,
\* row and function of its own address, or none.
THEOREM FramesAreNeverWrong == DwarfSpec => []NeverWrong
<1>1. DwarfIInv => NeverWrong
  <2> SUFFICES ASSUME DwarfIInv, step = "done"
               PROVE  /\ cu \in {None, CUOf(pc)}
                      /\ cu # None =>
                           /\ Ordered(CU.rows) /\ InsideRow(CU.rows, pc) =>
                                frame.row \in {None, RowAt(CU.rows, pc)}
                           /\ frame.symbol \in {None, FunctionAt(CU.functions, pc)}
    BY DEF NeverWrong
  <2>0. DwarfTypeOK /\ WorkInv /\ RowInv /\ SymbolInv
    BY DEF DwarfIInv
  <2>1. cu # None => cu = CUOf(pc)
    <3> SUFFICES ASSUME cu # None PROVE cu = CUOf(pc)
      OBVIOUS
    <3>1. cu \in DOMAIN CUs
      BY <2>0, SettingFacts DEF DwarfTypeOK, None
    <3>2. Holds(CUs[cu].ranges, pc)
      BY <2>0 DEF WorkInv, CU
    <3> QED BY <2>0, <3>1, <3>2, TheCU
  <2> QED BY <2>0, <2>1 DEF RowInv, SymbolInv
<1> QED BY <1>1, DwarfInvariant, PTL

\* In one mode a frame that did not fail is given the CU, row and function that
\* the debugging information has for its address, but for the exceptions the
\* property names.
THEOREM FramesAreFound == DwarfSpec => []FrameIsFound
<1>1. DwarfIInv => FrameIsFound
  <2> SUFFICES ASSUME DwarfIInv, Answered PROVE FrameIsFound
    BY DEF FrameIsFound, CUIsFound, LineIsFound, SymbolIsFound
  <2>1. /\ CUInv /\ RowInv /\ SymbolInv /\ Single
        /\ step = "done" /\ ~threw
    BY SingleIfOne DEF DwarfIInv, Answered
  <2>2. CUIsFound
    BY <2>1 DEF CUIsFound, CUInv, Expected
  <2>3. LineIsFound
    BY <2>1 DEF LineIsFound, RowInv, Located
  <2>4. SymbolIsFound
    BY <2>1 DEF SymbolIsFound, SymbolInv, Located
  <2> QED BY <2>2, <2>3, <2>4 DEF FrameIsFound
<1> QED BY <1>1, DwarfInvariant, PTL
=============================================================================
