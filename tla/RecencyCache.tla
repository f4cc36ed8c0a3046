---------------------------- MODULE RecencyCache ----------------------------
(***************************************************************************)
(* What a least-recently-used cache promises its users: a partial function *)
(* from keys to values and an order of last use.  No list and no map, only *)
(* the set of pairs <<a, b>> where a was used after b.                     *)
(***************************************************************************)
EXTENDS Integers, FiniteSets

CONSTANTS Keys, Values, Sizes, Unbounded, Absent

VARIABLES
  value,   \* value[k] for each cached k
  newer,   \* <<a, b>> : both are cached and a was used more recently than b
  limit,
  answer   \* what the last call returned
vars == <<value, newer, limit, answer>>

\* The order after a use of k, when the keys of others are cached beside it.
UsedLast(k, others) ==
  {p \in newer : k \notin {p[1], p[2]}} \cup {<<k, o>> : o \in others \ {k}}

\* Of a cache with entries f and order r, the keys kept are as many as fit
\* and each is newer than every key evicted.
KeptOf(f, r, kept, size) ==
  /\ kept \subseteq DOMAIN f
  /\ IF size = Unbounded \/ Cardinality(DOMAIN f) <= size
     THEN kept = DOMAIN f
     ELSE Cardinality(kept) = size
  /\ \A a \in kept, b \in DOMAIN f \ kept : <<a, b>> \in r

Keep(f, r, kept) ==
  /\ value' = [k \in kept |-> f[k]]
  /\ newer' = r \cap (kept \X kept)

Init ==
  /\ value = [k \in {} |-> Absent]
  /\ newer = {}
  /\ limit \in {s \in Sizes : s > 0} \cup {Unbounded}
  /\ answer = Absent

Resize ==
  /\ limit' \in {s \in Sizes : s > 0} \cup {Unbounded}
  /\ \E kept \in SUBSET DOMAIN value :
       KeptOf(value, newer, kept, limit') /\ Keep(value, newer, kept)
  /\ answer' = Absent

Use(k) ==
  /\ k \in DOMAIN value
  /\ newer' = UsedLast(k, DOMAIN value)
  /\ answer' \in {Absent, value[k]}
  /\ UNCHANGED <<value, limit>>

Miss == answer' = Absent /\ UNCHANGED <<value, newer, limit>>

Overwrite(k, v) ==
  /\ k \in DOMAIN value
  /\ value' = [value EXCEPT ![k] = v]
  /\ newer' = UsedLast(k, DOMAIN value)
  /\ answer' = Absent
  /\ UNCHANGED limit

Add(k, v) ==
  LET f == [x \in DOMAIN value \cup {k} |-> IF x = k THEN v ELSE value[x]]
      r == UsedLast(k, DOMAIN value)
  IN /\ k \notin DOMAIN value
     /\ \E kept \in SUBSET DOMAIN f : KeptOf(f, r, kept, limit) /\ Keep(f, r, kept)
     /\ answer' \in {Absent, v}
     /\ UNCHANGED limit

Next ==
  \/ Resize \/ Miss
  \/ \E k \in Keys : Use(k) \/ \E v \in Values : Overwrite(k, v) \/ Add(k, v)

Spec == Init /\ [][Next]_vars
=============================================================================
