------------------------------ MODULE LruCache ------------------------------
(***************************************************************************)
(* detail::lru_cache<K, V> (src/src/utils/lru_cache.hpp): a doubly linked  *)
(* list of key/value nodes, most recently used first, and a hash map from  *)
(* keys to list iterators.  The dwarf resolver keeps its line tables in    *)
(* one.  An iterator is the identity of a list node: splice moves a node   *)
(* without changing its identity, push_front allocates one that is not in  *)
(* use and pop_back gives one back.                                        *)
(***************************************************************************)
EXTENDS Integers, Sequences

CONSTANTS
  Keys, Values,
  Nodes,      \* identities list nodes can have
  Sizes,      \* the sizes callers pass to the constructor and set_max_size
  Unbounded,  \* an empty optional<size_t>
  Absent      \* an empty result: map.end(), nullopt

ASSUME CacheAssumption ==
  /\ Sizes \subseteq Nat
  /\ Unbounded \notin Nat
  /\ Absent \notin Nodes \cup [key : Keys, value : Values]

VARIABLES
  lru,        \* the list, front first
  node,       \* node[n] is the kvp stored in node n, Absent if n is not allocated
  map,        \* map[k] is the iterator the hash map has for k
  max_size,
  result      \* the node whose value the last call returned a reference to

vars == <<lru, node, map, max_size, result>>

In(n, l) == \E i \in DOMAIN l : l[i] = n
Position(n, l) == CHOOSE i \in DOMAIN l : l[i] = n

\* touch with a plausible bug: the splice is forgotten.
no_touch(n, l) == l

\* lru.splice(lru.begin(), lru, list_it): node n of list l moves to the front.
touch(n, l) ==
  LET p == Position(n, l) IN
  [i \in DOMAIN l |-> IF i = 1 THEN n ELSE IF i <= p THEN l[i - 1] ELSE l[i]]

\* maybe_trim, run on a list l, node contents c, a map m and a limit: nodes
\* leave the list from the back until it fits, each erasing the map entry of
\* its own key before it is destroyed.
Overflow(l, limit) == IF limit = Unbounded THEN {} ELSE limit + 1 .. Len(l)
maybe_trim_list_only(l, c, m, limit) ==  \* with a bug: the map is not erased from
  LET removed == {l[i] : i \in Overflow(l, limit)}
  IN /\ lru' = IF removed = {} THEN l ELSE SubSeq(l, 1, limit)
     /\ node' = [n \in Nodes |-> IF n \in removed THEN Absent ELSE c[n]]
     /\ map' = [k \in Keys |-> m[k]]
maybe_trim(l, c, m, limit) ==
  LET removed == {l[i] : i \in Overflow(l, limit)}
      keys == {c[n].key : n \in removed}
  IN /\ lru' = IF removed = {} THEN l ELSE SubSeq(l, 1, limit)
     /\ node' = [n \in Nodes |-> IF n \in removed THEN Absent ELSE c[n]]
     /\ map' = [k \in Keys |-> IF k \in keys THEN Absent ELSE m[k]]

AnySize(size) == TRUE  \* ValidSize with a bug: the check is dropped

\* VERIFY(!size || size > 0)
ValidSize(size) == size # Unbounded => size > 0

-----------------------------------------------------------------------------
\* lru_cache(optional<size_t>): a size of zero throws, so no cache has it.
Init ==
  /\ lru = <<>>
  /\ node = [n \in Nodes |-> Absent]
  /\ map = [k \in Keys |-> Absent]
  /\ max_size \in {s \in Sizes \cup {Unbounded} : ValidSize(s)}
  /\ result = Absent

set_max_size_only(size) ==  \* set_max_size with a bug: it does not trim
  /\ ValidSize(size)
  /\ max_size' = size
  /\ result' = Absent
  /\ UNCHANGED <<lru, node, map>>

set_max_size(size) ==
  /\ ValidSize(size)
  /\ max_size' = size
  /\ maybe_trim(lru, node, map, size)
  /\ result' = Absent

maybe_touch(k) ==
  /\ lru' = IF map[k] = Absent THEN lru ELSE touch(map[k], lru)
  /\ result' = Absent
  /\ UNCHANGED <<node, map, max_size>>

maybe_get(k) ==
  /\ lru' = IF map[k] = Absent THEN lru ELSE touch(map[k], lru)
  /\ result' = map[k]
  /\ UNCHANGED <<node, map, max_size>>

\* insert of a key that has no entry: map.insert, push_front and maybe_trim.
\* The caller gets a reference to lru.front().value; the front of an empty
\* list would be undefined behaviour, any node.
front_of(l) == IF l = <<>> THEN Nodes ELSE {l[1]}
insert_new(k, v) ==
  \E n \in Nodes :
    /\ map[k] = Absent
    /\ node[n] = Absent
    /\ maybe_trim(<<n>> \o lru,
                  [node EXCEPT ![n] = [key |-> k, value |-> v]],
                  [map EXCEPT ![k] = n],
                  max_size)
    /\ UNCHANGED max_size

\* An existing entry is left as it is, its place in the list too.
insert(k, v) ==
  \/ insert_new(k, v) /\ result' \in front_of(lru')
  \/ /\ map[k] # Absent
     /\ result' = Absent
     /\ UNCHANGED <<lru, node, map, max_size>>

set(k, v) ==
  \/ insert_new(k, v) /\ result' = Absent
  \/ /\ map[k] # Absent
     /\ lru' = touch(map[k], lru)
     /\ node' = [node EXCEPT ![map[k]].value = v]
     /\ result' = Absent
     /\ UNCHANGED <<map, max_size>>

Next ==
  \/ \E s \in Sizes \cup {Unbounded} : set_max_size(s)
  \/ \E k \in Keys : maybe_touch(k) \/ maybe_get(k)
  \/ \E k \in Keys, v \in Values : insert(k, v) \/ set(k, v)

Spec == Init /\ [][Next]_vars

-----------------------------------------------------------------------------
Entries == [key : Keys, value : Values]

\* Every piece of the cache has its type; a limit of zero, which maybe_trim
\* could only meet by evicting the entry insert is about to return, never
\* gets in.
TypeOK ==
  /\ lru \in Seq(Nodes)
  /\ node \in [Nodes -> Entries \cup {Absent}]
  /\ map \in [Keys -> Nodes \cup {Absent}]
  /\ max_size \in (Sizes \ {0}) \cup {Unbounded}
  /\ result \in Nodes \cup {Absent}

\* A list l, node contents c and a map m describe one set of entries:
\* no node is linked twice, the map points each key at a listed node that
\* holds that key, and every allocated node is listed and is the one its own
\* key is mapped to.
Linked(l) == \A i, j \in DOMAIN l : l[i] = l[j] => i = j
MapToList(l, c, m) ==
  \A k \in Keys : m[k] # Absent =>
    In(m[k], l) /\ c[m[k]] # Absent /\ c[m[k]].key = k
ListToMap(l, c, m) ==
  \A n \in Nodes : /\ c[n] # Absent => In(n, l) /\ m[c[n].key] = n
                   /\ In(n, l) => c[n] # Absent
OneSetOfEntries(l, c, m) == Linked(l) /\ MapToList(l, c, m) /\ ListToMap(l, c, m)

\* The list and the hash map stay in step through splices, evictions by
\* popping the back and erasing that node's key, and overwrites: no iterator
\* in the map dangles and no entry sits in the list out of reach.
Consistent == OneSetOfEntries(lru, node, map)

\* Whatever order of inserts and limit changes led here, the cache holds no
\* more entries than its current limit.
Bounded == max_size # Unbounded => Len(lru) <= max_size

\* A reference handed back by insert or maybe_get is to an entry that is still
\* in the cache, at its front: the trim that follows an insertion never evicts
\* the entry just inserted.  get_line_table returns such a reference.
ReturnedEntryIsNewest == result # Absent => Len(lru) > 0 /\ lru[1] = result

Inv == TypeOK /\ Consistent /\ Bounded /\ ReturnedEntryIsNewest

-----------------------------------------------------------------------------
\* What the cache promises, in terms of keys only.
Cached == {k \in Keys : map[k] # Absent}
Recency == INSTANCE RecencyCache WITH
  value <- [k \in Cached |-> node[map[k]].value],
  newer <- {p \in Cached \X Cached : Position(map[p[1]], lru) < Position(map[p[2]], lru)},
  limit <- max_size,
  answer <- IF result = Absent THEN Absent ELSE node[result].value

\* lru_cache is a cache that forgets its least recently used keys and nothing
\* else: get answers what was last set or inserted, and only eviction of keys
\* older than every survivor loses a value.
ImplementsRecencyCache == Recency!Spec
=============================================================================
