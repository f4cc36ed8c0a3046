--------------------------- MODULE SequenceLemmas ---------------------------
(***************************************************************************)
(* Facts about the sequences the specifications compute: the members of a  *)
(* sequence that are in a set (Filter) and sequences of sequences laid end *)
(* to end (FlattenSeq).  Both are recursive functions, so that what they   *)
(* compute is shown by induction.  The induction principle is stated for   *)
(* sets of numbers and follows from the well-founded order of the natural  *)
(* numbers; that a recursive function exists, from induction.              *)
(***************************************************************************)
EXTENDS Filter, SequencesExt, SequenceTheorems, WellFoundedInduction, FiniteSetTheorems, TLAPS

\* A set of numbers that is not empty has a least one.
LEMMA LeastNumber ==
  ASSUME NEW S, S \subseteq Nat, S # {}
  PROVE  \E n \in S : \A m \in S : n <= m
<1> DEFINE R == {ss \in Nat \X Nat : ss[1] < ss[2]}
<1>1. IsWellFoundedOn(R, Nat)
  BY NatLessThanWellFounded DEF OpToRel
<1>2. \E x \in S : \A y \in S : ~(<<y, x>> \in R)
  <2> HIDE DEF R
  <2> QED BY <1>1, WFMin
<1>3. \A x, y \in S : y < x => <<y, x>> \in R
  OBVIOUS
<1>4. \A x, y \in S : x <= y \/ y < x
  OBVIOUS
<1> HIDE DEF R
<1> QED BY <1>2, <1>3, <1>4

\* Induction: a set that has 0, and with each number the next, has them all.
LEMMA Induction ==
  ASSUME NEW S, 0 \in S, \A n \in Nat : n \in S => n + 1 \in S
  PROVE  \A n \in Nat : n \in S
<1> SUFFICES ASSUME Nat \ S # {} PROVE FALSE
  OBVIOUS
<1>1. PICK n \in Nat \ S : \A m \in Nat \ S : n <= m
  BY LeastNumber
<1>2. n - 1 \in Nat /\ n - 1 \notin S
  OBVIOUS
<1> QED BY <1>1, <1>2

\* f is defined from 0 on by a first value and a step.
Recursive(f, X, N, first, step) ==
  /\ f \in [0 .. N -> X]
  /\ f[0] = first
  /\ \A n \in 1 .. N : f[n] = step[<<f[n - 1], n>>]

\* Such a function exists.
LEMMA Recursion ==
  ASSUME NEW X, NEW N \in Nat, NEW first \in X, NEW step \in [X \X (1 .. N) -> X]
  PROVE  \E f : Recursive(f, X, N, first, step)
<1> DEFINE Upto(n, f) == f[0] = first /\ \A m \in 1 .. n : f[m] = step[<<f[m - 1], m>>]
           G == {n \in Nat : n <= N => \E f \in [0 .. n -> X] : Upto(n, f)}
<1>1. 0 \in G
  <2> DEFINE f == [m \in 0 .. 0 |-> first]
  <2>1. f \in [0 .. 0 -> X] /\ Upto(0, f)
    OBVIOUS
  <2> QED BY <2>1
<1>2. ASSUME NEW n \in Nat, n \in G, n + 1 <= N PROVE \E f \in [0 .. n + 1 -> X] : Upto(n + 1, f)
  <2>1. PICK f \in [0 .. n -> X] : Upto(n, f)
    BY <1>2
  <2> DEFINE g == [m \in 0 .. n + 1 |-> IF m <= n THEN f[m] ELSE step[<<f[n], n + 1>>]]
  <2>2. step[<<f[n], n + 1>>] \in X
    BY <1>2
  <2>3. g \in [0 .. n + 1 -> X]
    BY <2>2
  <2>4. g[0] = first
    BY <2>1
  <2>5. ASSUME NEW m \in 1 .. n + 1 PROVE g[m] = step[<<g[m - 1], m>>]
    <3>1. CASE m = n + 1
      <4>1. g[m - 1] = f[n] /\ g[m] = step[<<f[n], n + 1>>]
        BY <3>1
      <4> QED BY <3>1, <4>1
    <3>2. CASE m # n + 1
      <4>1. m \in 1 .. n /\ m - 1 \in 0 .. n
        BY <3>2
      <4>2. g[m] = f[m] /\ g[m - 1] = f[m - 1]
        BY <4>1
      <4> QED BY <2>1, <4>1, <4>2
    <3> QED BY <3>1, <3>2
  <2> QED BY <2>3, <2>4, <2>5
<1>3. \A n \in Nat : n \in G => n + 1 \in G
  BY <1>2
<1>4. N \in G
  <2> HIDE DEF G
  <2> QED BY <1>1, <1>3, Induction
<1> QED BY <1>4 DEF Recursive

\* f is defined from its values at the numbers before.
DefinedByStep(f, X, N, step) ==
  f \in [1 .. N -> X] /\ \A n \in 1 .. N : f[n] = step[[m \in 1 .. n - 1 |-> f[m]]]

\* Such a function exists.
LEMMA CourseOfValues ==
  ASSUME NEW X, NEW N \in Nat, NEW step \in [Seq(X) -> X]
  PROVE  \E f : DefinedByStep(f, X, N, step)
<1> DEFINE next == [p \in Seq(X) \X (1 .. N) |-> Append(p[1], step[p[1]])]
<1>1. next \in [Seq(X) \X (1 .. N) -> Seq(X)]
  OBVIOUS
<1>2. <<>> \in Seq(X)
  OBVIOUS
<1>3. PICK g : Recursive(g, Seq(X), N, <<>>, next)
  <2> HIDE DEF next
  <2> QED BY <1>1, <1>2, Recursion
<1>4. /\ g \in [0 .. N -> Seq(X)] /\ g[0] = <<>>
      /\ \A n \in 1 .. N : g[n] = Append(g[n - 1], step[g[n - 1]])
  <2>1. /\ g \in [0 .. N -> Seq(X)] /\ g[0] = <<>>
        /\ \A n \in 1 .. N : g[n] = next[<<g[n - 1], n>>]
    <3> HIDE DEF next
    <3> QED BY <1>3 DEF Recursive
  <2>2. \A n \in 1 .. N : <<g[n - 1], n>> \in Seq(X) \X (1 .. N)
    BY <2>1
  <2> QED BY <2>1, <2>2
<1> HIDE DEF next
<1> DEFINE Good(n) == Len(g[n]) = n /\ \A m \in 0 .. n : Len(g[m]) = m /\ \A k \in 1 .. m : g[m][k] = g[n][k]
           S == {n \in Nat : n <= N => Good(n)}
<1>5. 0 \in S
  BY <1>4
<1>6. ASSUME NEW n \in Nat, n \in S PROVE n + 1 \in S
  <2> SUFFICES ASSUME n + 1 <= N PROVE Good(n + 1)
    <3> HIDE DEF Good
    <3> QED BY DEF S
  <2>0. n \in 0 .. N /\ n + 1 \in 1 .. N
    OBVIOUS
  <2>1. Good(n) /\ g[n] \in Seq(X) /\ n + 1 \in 1 .. N
    <3>1. Good(n)
      <4> HIDE DEF Good
      <4> QED BY <1>6, <2>0
    <3> QED BY <1>4, <2>0, <3>1
  <2>2. g[n + 1] = Append(g[n], step[g[n]]) /\ step[g[n]] \in X
    <3>1. (n + 1) - 1 = n
      OBVIOUS
    <3> QED BY <1>4, <2>1, <3>1
  <2>3. Len(g[n + 1]) = n + 1 /\ \A k \in 1 .. n : g[n + 1][k] = g[n][k]
    BY <2>1, <2>2
  <2>4. \A m \in 0 .. n + 1 : m = n + 1 \/ m \in 0 .. n
    OBVIOUS
  <2>5. ASSUME NEW m \in 0 .. n, NEW k \in 1 .. m PROVE g[m][k] = g[n + 1][k]
    BY <2>1, <2>3
  <2> QED BY <2>1, <2>3, <2>4, <2>5
<1>7. Good(N)
  <2>1. N \in S
    <3> HIDE DEF S
    <3> QED BY <1>5, <1>6, Induction
  <2> QED BY <2>1
<1> DEFINE f == [n \in 1 .. N |-> g[N][n]]
<1>8. g[N] \in Seq(X) /\ Len(g[N]) = N
  BY <1>4, <1>7
<1>9. f \in [1 .. N -> X]
  BY <1>8
<1>10. ASSUME NEW n \in 1 .. N PROVE f[n] = step[[m \in 1 .. n - 1 |-> f[m]]]
  <2>1. n \in 0 .. N /\ n - 1 \in 0 .. N /\ g[n - 1] \in Seq(X) /\ Len(g[n - 1]) = n - 1
    BY <1>4, <1>7
  <2>2. g[n] = Append(g[n - 1], step[g[n - 1]]) /\ step[g[n - 1]] \in X
    BY <1>4, <2>1
  <2>3. g[n][n] = step[g[n - 1]]
    BY <2>1, <2>2
  <2>4. f[n] = g[n][n]
    BY <1>7, <2>1
  <2>5. \A m \in 1 .. n - 1 : f[m] = g[n - 1][m]
    BY <1>7, <2>1
  <2>6. g[n - 1] = [m \in 1 .. n - 1 |-> g[n - 1][m]]
    BY <2>1
  <2>7. g[n - 1] = [m \in 1 .. n - 1 |-> f[m]]
    <3> HIDE DEF f
    <3> QED BY <2>5, <2>6
  <2> HIDE DEF f
  <2> QED BY <2>3, <2>4, <2>7
<1> HIDE DEF f
<1> QED BY <1>9, <1>10 DEF DefinedByStep


-----------------------------------------------------------------------------
\* The function Filter is defined by satisfies its own equation.
LEMMA FilterUnfolds ==
  ASSUME NEW X, NEW s \in Seq(X), NEW S
  PROVE  \E kept : /\ Filter(s, S) = kept[Len(s)]
                   /\ kept[0] = <<>>
                   /\ \A n \in 1 .. Len(s) :
                        kept[n] = IF s[n] \in S THEN Append(kept[n - 1], s[n]) ELSE kept[n - 1]
<1> DEFINE N == Len(s)
           Body(f) == [n \in 0 .. N |->
                         IF n = 0 THEN <<>>
                         ELSE IF s[n] \in S THEN Append(f[n - 1], s[n]) ELSE f[n - 1]]
           step == [p \in Seq(X) \X (1 .. N) |->
                      IF s[p[2]] \in S THEN Append(p[1], s[p[2]]) ELSE p[1]]
           kept == CHOOSE f : f = Body(f)
<1>1. N \in Nat /\ \A n \in 1 .. N : s[n] \in X
  OBVIOUS
<1>2. step \in [Seq(X) \X (1 .. N) -> Seq(X)]
  BY <1>1
<1>3. <<>> \in Seq(X)
  OBVIOUS
<1>4. PICK f \in [0 .. N -> Seq(X)] : f[0] = <<>> /\ \A n \in 1 .. N : f[n] = step[<<f[n - 1], n>>]
  <2>1. N \in Nat
    BY <1>1
  <2> HIDE DEF step, N
  <2>2. \E f : Recursive(f, Seq(X), N, <<>>, step)
    BY <1>2, <1>3, <2>1, Recursion
  <2> QED BY <2>2 DEF Recursive
<1>5. \A n \in 1 .. N : f[n] = IF s[n] \in S THEN Append(f[n - 1], s[n]) ELSE f[n - 1]
  <2> SUFFICES ASSUME NEW n \in 1 .. N
               PROVE  f[n] = IF s[n] \in S THEN Append(f[n - 1], s[n]) ELSE f[n - 1]
    OBVIOUS
  <2>1. n - 1 \in 0 .. N
    BY <1>1
  <2>2. <<f[n - 1], n>> \in Seq(X) \X (1 .. N)
    BY <2>1
  <2> QED BY <1>4, <2>2
<1>6. f = Body(f)
  <2>1. ASSUME NEW n \in 0 .. N PROVE f[n] = Body(f)[n]
    <3>1. Body(f)[n] = IF n = 0 THEN <<>>
                       ELSE IF s[n] \in S THEN Append(f[n - 1], s[n]) ELSE f[n - 1]
      OBVIOUS
    <3>2. n = 0 \/ n \in 1 .. N
      BY <1>1
    <3> QED BY <3>1, <3>2, <1>4, <1>5
  <2>2. f = [n \in 0 .. N |-> f[n]] /\ Body(f) = [n \in 0 .. N |-> Body(f)[n]]
    BY <1>4
  <2> HIDE DEF Body
  <2> QED BY <2>1, <2>2
<1>7. kept = Body(kept)
  <2> HIDE DEF Body
  <2> QED BY <1>6
<1>8. Filter(s, S) = kept[N]
  BY DEF Filter
<1>9. kept[0] = <<>>
  <2>1. Body(kept)[0] = <<>>
    BY <1>1
  <2> HIDE DEF Body, kept
  <2> QED BY <1>7, <2>1
<1>10. \A n \in 1 .. N : kept[n] = IF s[n] \in S THEN Append(kept[n - 1], s[n]) ELSE kept[n - 1]
  <2> HIDE DEF kept
  <2>1. \A n \in 1 .. N :
          Body(kept)[n] = IF s[n] \in S THEN Append(kept[n - 1], s[n]) ELSE kept[n - 1]
    BY <1>1
  <2> HIDE DEF Body
  <2> QED BY <1>7, <2>1
<1> HIDE DEF kept
<1> QED BY <1>8, <1>9, <1>10

\* t is what Filter keeps of the first n places of s, and at says where from.
Kept(at, t, s, S, n) ==
  /\ at \in [1 .. Len(t) -> 1 .. n]
  /\ \A k \in 1 .. Len(t) : t[k] = s[at[k]] /\ s[at[k]] \in S
  /\ \A j, k \in 1 .. Len(t) : j < k => at[j] < at[k]
  /\ \A i \in 1 .. n : s[i] \in S => \E k \in 1 .. Len(t) : at[k] = i

\* Filter keeps the members of S, all of them, each once and in their order.
LEMMA FilterKeeps ==
  ASSUME NEW X, NEW s \in Seq(X), NEW S
  PROVE  /\ Filter(s, S) \in Seq(X)
         /\ \E at : Kept(at, Filter(s, S), s, S, Len(s))
<1>1. PICK kept : /\ Filter(s, S) = kept[Len(s)]
                  /\ kept[0] = <<>>
                  /\ \A n \in 1 .. Len(s) :
                       kept[n] = IF s[n] \in S THEN Append(kept[n - 1], s[n]) ELSE kept[n - 1]
  BY FilterUnfolds
<1> DEFINE G == {n \in Nat : n <= Len(s) =>
                   kept[n] \in Seq(X) /\ \E at : Kept(at, kept[n], s, S, n)}
<1>2. 0 \in G
  <2> DEFINE at == [k \in 1 .. 0 |-> 0]
  <2>1. Len(<<>>) = 0 /\ <<>> \in Seq(X)
    OBVIOUS
  <2>2. Kept(at, <<>>, s, S, 0)
    BY <2>1 DEF Kept
  <2> QED BY <1>1, <2>1, <2>2
<1>3. ASSUME NEW n \in Nat, n \in G PROVE n + 1 \in G
  <2> SUFFICES ASSUME n + 1 <= Len(s)
               PROVE  kept[n + 1] \in Seq(X) /\ \E at : Kept(at, kept[n + 1], s, S, n + 1)
    OBVIOUS
  <2>0. Len(s) \in Nat /\ n + 1 \in 1 .. Len(s) /\ s[n + 1] \in X
    OBVIOUS
  <2>1. kept[n] \in Seq(X)
    BY <1>3, <2>0
  <2>2. PICK at : Kept(at, kept[n], s, S, n)
    BY <1>3, <2>0
  <2>3. kept[n + 1] = IF s[n + 1] \in S THEN Append(kept[n], s[n + 1]) ELSE kept[n]
    BY <1>1, <2>0
  <2> DEFINE t == kept[n]
             u == kept[n + 1]
             l == Len(t)
  <2>4. l \in Nat
    BY <2>1
  <2>5. CASE s[n + 1] \in S
    <3>1. u = Append(t, s[n + 1])
      BY <2>3, <2>5
    <3>2. /\ u \in Seq(X)
          /\ Len(u) = l + 1
          /\ \A k \in 1 .. l : u[k] = t[k]
          /\ u[l + 1] = s[n + 1]
      BY <2>0, <2>1, <3>1, AppendProperties
    <3> DEFINE new == [k \in 1 .. l + 1 |-> IF k = l + 1 THEN n + 1 ELSE at[k]]
    <3> HIDE DEF t, u, l
    <3>3. \A k \in 1 .. l : new[k] = at[k] /\ at[k] \in 1 .. n
      <4>1. \A k \in 1 .. l : at[k] \in 1 .. n
        BY <2>2 DEF Kept, l, t
      <4>2. \A k \in 1 .. l : k \in 1 .. l + 1 /\ k # l + 1
        BY <2>4
      <4> QED BY <4>1, <4>2
    <3>4. new[l + 1] = n + 1
      BY <2>4
    <3>5. \A k \in 1 .. l + 1 : k \in 1 .. l \/ k = l + 1
      BY <2>4
    <3>6. new \in [1 .. l + 1 -> 1 .. n + 1]
      <4>1. ASSUME NEW k \in 1 .. l + 1 PROVE new[k] \in 1 .. n + 1
        <5>1. new[k] \in 1 .. n \/ new[k] = n + 1
          <6> HIDE DEF new
          <6> QED BY <3>3, <3>4, <3>5
        <5> HIDE DEF new
        <5> QED BY <5>1
      <4>2. new = [k \in 1 .. l + 1 |-> new[k]]
        OBVIOUS
      <4> HIDE DEF new
      <4> QED BY <4>1, <4>2
    <3>7. \A k \in 1 .. l : t[k] = s[at[k]] /\ s[at[k]] \in S
      BY <2>2 DEF Kept, l, t
    <3>8. \A k \in 1 .. l + 1 : u[k] = s[new[k]] /\ s[new[k]] \in S
      BY <2>5, <3>2, <3>3, <3>4, <3>5, <3>7
    <3>9. \A j, k \in 1 .. l + 1 : j < k => new[j] < new[k]
      <4> SUFFICES ASSUME NEW j \in 1 .. l + 1, NEW k \in 1 .. l + 1, j < k
                   PROVE  new[j] < new[k]
        OBVIOUS
      <4>1. j \in 1 .. l
        BY <2>4
      <4>2. CASE k = l + 1
        <5>1. new[j] \in 1 .. n /\ new[k] = n + 1
          BY <3>3, <3>4, <4>1, <4>2
        <5> HIDE DEF new
        <5> QED BY <5>1
      <4>3. CASE k \in 1 .. l
        <5>1. at[j] < at[k]
          BY <2>2, <4>1, <4>3 DEF Kept, l, t
        <5> QED BY <3>3, <4>1, <4>3, <5>1
      <4> QED BY <3>5, <4>2, <4>3
    <3>10. ASSUME NEW i \in 1 .. n + 1, s[i] \in S PROVE \E k \in 1 .. l + 1 : new[k] = i
      <4>1. CASE i = n + 1
        BY <2>4, <3>4, <4>1
      <4>2. CASE i \in 1 .. n
        <5>1. PICK k \in 1 .. l : at[k] = i
          BY <2>2, <3>10, <4>2 DEF Kept, l, t
        <5>2. k \in 1 .. l + 1
          BY <2>4
        <5> QED BY <3>3, <5>1, <5>2
      <4> QED BY <4>1, <4>2
    <3> HIDE DEF new
    <3>11. Kept(new, u, s, S, n + 1)
      BY <3>2, <3>6, <3>8, <3>9, <3>10 DEF Kept
    <3> QED BY <3>2, <3>11 DEF u
  <2>6. CASE s[n + 1] \notin S
    <3>1. u = t
      BY <2>3, <2>6
    <3>2. Kept(at, t, s, S, n + 1)
      <4>1. at \in [1 .. l -> 1 .. n + 1]
        BY <2>2, <2>4 DEF Kept
      <4>2. \A i \in 1 .. n + 1 : s[i] \in S => i \in 1 .. n
        BY <2>6
      <4> QED BY <2>2, <4>1, <4>2 DEF Kept
    <3> QED BY <2>1, <3>1, <3>2
  <2> QED BY <2>5, <2>6
<1>4. Len(s) \in G
  <2> HIDE DEF G
  <2>1. Len(s) \in Nat
    OBVIOUS
  <2> QED BY <1>2, <1>3, <2>1, Induction
<1>5. Len(s) <= Len(s)
  OBVIOUS
<1> QED BY <1>1, <1>4, <1>5

\* What Filter keeps is what is both in the sequence and in S.
LEMMA FilterRange ==
  ASSUME NEW X, NEW s \in Seq(X), NEW S
  PROVE  {Filter(s, S)[k] : k \in DOMAIN Filter(s, S)} = {s[i] : i \in DOMAIN s} \cap S
<1> DEFINE t == Filter(s, S)
<1>1. PICK at : t \in Seq(X) /\ Kept(at, t, s, S, Len(s))
  BY FilterKeeps
<1> HIDE DEF t
<1>2. DOMAIN t = 1 .. Len(t) /\ DOMAIN s = 1 .. Len(s)
  BY <1>1
<1>3. ASSUME NEW k \in 1 .. Len(t) PROVE t[k] \in {s[i] : i \in DOMAIN s} \cap S
  BY <1>1, <1>2 DEF Kept
<1>4. ASSUME NEW i \in 1 .. Len(s), s[i] \in S PROVE \E k \in 1 .. Len(t) : t[k] = s[i]
  BY <1>1, <1>4 DEF Kept
<1> QED BY <1>2, <1>3, <1>4 DEF t

-----------------------------------------------------------------------------
\* The function FlattenSeq is defined by: what the first n sequences make.
LEMMA FlattenUnfolds ==
  ASSUME NEW X, NEW s \in Seq(Seq(X)), s # <<>>
  PROVE  \E flat : /\ FlattenSeq(s) = flat[Len(s)]
                   /\ flat[1] = s[1]
                   /\ \A n \in 2 .. Len(s) : flat[n] = flat[n - 1] \o s[n]
<1> DEFINE N == Len(s)
           Body(f) == [i \in 1 .. N |-> IF i = 1 THEN s[i] ELSE f[i - 1] \o s[i]]
           step == [p \in Seq(X) \X (1 .. N) |-> p[1] \o s[p[2]]]
           flat == CHOOSE f : f = Body(f)
<1>1. N \in Nat /\ N > 0 /\ \A n \in 1 .. N : s[n] \in Seq(X)
  OBVIOUS
<1>2. step \in [Seq(X) \X (1 .. N) -> Seq(X)]
  BY <1>1
<1>3. <<>> \in Seq(X)
  OBVIOUS
<1>4. PICK f \in [0 .. N -> Seq(X)] : f[0] = <<>> /\ \A n \in 1 .. N : f[n] = step[<<f[n - 1], n>>]
  <2>1. N \in Nat
    BY <1>1
  <2> HIDE DEF step, N
  <2>2. \E f : Recursive(f, Seq(X), N, <<>>, step)
    BY <1>2, <1>3, <2>1, Recursion
  <2> QED BY <2>2 DEF Recursive
<1>5. ASSUME NEW n \in 1 .. N PROVE f[n] = f[n - 1] \o s[n]
  <2>1. n - 1 \in 0 .. N
    BY <1>1
  <2>2. <<f[n - 1], n>> \in Seq(X) \X (1 .. N)
    BY <2>1
  <2> QED BY <1>4, <2>2
<1>6. f[1] = s[1]
  <2>1. s[1] \in Seq(X) /\ 1 \in 1 .. N
    BY <1>1
  <2>2. f[1] = f[1 - 1] \o s[1]
    BY <1>5, <2>1
  <2>3. 1 - 1 = 0
    OBVIOUS
  <2>4. <<>> \o s[1] = s[1]
    BY <2>1, ConcatEmptySeq
  <2> QED BY <1>4, <2>2, <2>3, <2>4
<1> DEFINE g == [i \in 1 .. N |-> f[i]]
<1>7. g = Body(g)
  <2>1. ASSUME NEW n \in 1 .. N PROVE g[n] = Body(g)[n]
    <3>1. g[n] = f[n]
      OBVIOUS
    <3>2. CASE n = 1
      BY <1>6, <3>1, <3>2
    <3>3. CASE n # 1
      <4>1. n - 1 \in 1 .. N
        BY <1>1, <3>3
      <4>2. Body(g)[n] = g[n - 1] \o s[n] /\ g[n - 1] = f[n - 1]
        BY <3>3, <4>1
      <4> QED BY <1>5, <3>1, <4>2
    <3> QED BY <3>2, <3>3
  <2>2. g = [n \in 1 .. N |-> g[n]] /\ Body(g) = [n \in 1 .. N |-> Body(g)[n]]
    OBVIOUS
  <2> HIDE DEF Body, g
  <2> QED BY <2>1, <2>2
<1>8. flat = Body(flat)
  <2> HIDE DEF Body, g
  <2> QED BY <1>7
<1>9. FlattenSeq(s) = flat[N]
  <2>1. Len(s) # 0
    BY <1>1
  <2> QED BY <2>1 DEF FlattenSeq
<1>10. flat[1] = s[1]
  <2> HIDE DEF flat
  <2>1. 1 \in 1 .. N
    BY <1>1
  <2>2. Body(flat)[1] = s[1]
    BY <2>1
  <2> HIDE DEF Body
  <2> QED BY <1>8, <2>2
<1>11. \A n \in 2 .. N : flat[n] = flat[n - 1] \o s[n]
  <2> HIDE DEF flat
  <2>1. ASSUME NEW n \in 2 .. N PROVE Body(flat)[n] = flat[n - 1] \o s[n]
    <3>1. n \in 1 .. N /\ n # 1
      BY <1>1
    <3> HIDE DEF N
    <3> QED BY <3>1
  <2> HIDE DEF Body
  <2> QED BY <1>8, <2>1
<1> HIDE DEF flat
<1> QED BY <1>9, <1>10, <1>11

\* u and v are made of corresponding places of the first n sequences of s and t.
Aligned(u, v, s, t, n) ==
  /\ Len(u) = Len(v)
  /\ \A k \in 1 .. Len(u) :
       \E i \in 1 .. n, j \in Nat :
         j \in 1 .. Len(s[i]) /\ u[k] = s[i][j] /\ v[k] = t[i][j]

\* Laid end to end, as many sequences of the same lengths stay aligned.
LEMMA FlattenAligned ==
  ASSUME NEW X, NEW Y, NEW s \in Seq(Seq(X)), NEW t \in Seq(Seq(Y)), Len(s) = Len(t),
         \A i \in 1 .. Len(s) : Len(s[i]) = Len(t[i])
  PROVE  /\ FlattenSeq(s) \in Seq(X)
         /\ FlattenSeq(t) \in Seq(Y)
         /\ Aligned(FlattenSeq(s), FlattenSeq(t), s, t, Len(s))
<1> DEFINE N == Len(s)
<1>0. N \in Nat /\ \A i \in 1 .. N : s[i] \in Seq(X) /\ t[i] \in Seq(Y)
  OBVIOUS
<1>1. CASE s = <<>>
  <2>1. t = <<>> /\ Len(s) = 0 /\ Len(t) = 0
    BY <1>1, EmptySeq
  <2>2. FlattenSeq(s) = <<>> /\ FlattenSeq(t) = <<>>
    BY <1>1, <2>1 DEF FlattenSeq
  <2>3. Len(<<>>) = 0 /\ <<>> \in Seq(X) /\ <<>> \in Seq(Y)
    OBVIOUS
  <2> QED BY <2>2, <2>3 DEF Aligned
<1>2. CASE s # <<>>
  <2>0. t # <<>> /\ N > 0
    BY <1>2, EmptySeq
  <2>1. PICK a : /\ FlattenSeq(s) = a[N]
                 /\ a[1] = s[1]
                 /\ \A n \in 2 .. N : a[n] = a[n - 1] \o s[n]
    BY <1>2, FlattenUnfolds
  <2>2. PICK b : /\ FlattenSeq(t) = b[N]
                 /\ b[1] = t[1]
                 /\ \A n \in 2 .. N : b[n] = b[n - 1] \o t[n]
    <3>1. \E b : /\ FlattenSeq(t) = b[Len(t)]
                 /\ b[1] = t[1]
                 /\ \A n \in 2 .. Len(t) : b[n] = b[n - 1] \o t[n]
      BY <2>0, FlattenUnfolds
    <3> QED BY <3>1
  <2> DEFINE G == {n \in Nat : n \in 1 .. N => /\ a[n] \in Seq(X)
                                               /\ b[n] \in Seq(Y)
                                               /\ Aligned(a[n], b[n], s, t, n)}
  <2>3. 0 \in G
    OBVIOUS
  <2>4. ASSUME NEW n \in Nat, n \in G PROVE n + 1 \in G
    <3> SUFFICES ASSUME n + 1 \in 1 .. N
                 PROVE  /\ a[n + 1] \in Seq(X)
                        /\ b[n + 1] \in Seq(Y)
                        /\ Aligned(a[n + 1], b[n + 1], s, t, n + 1)
      OBVIOUS
    <3>1. CASE n = 0
      <4>1. n + 1 = 1 /\ 1 \in 1 .. N
        BY <3>1, <2>0
      <4>2. \A k \in 1 .. Len(s[1]) : k \in Nat /\ 1 \in 1 .. 1
        BY <1>0, <4>1
      <4>3. Aligned(s[1], t[1], s, t, 1)
        BY <4>1, <4>2 DEF Aligned
      <4> QED BY <1>0, <2>1, <2>2, <4>1, <4>3
    <3>2. CASE n # 0
      <4> DEFINE m == n + 1
                 p == a[n]
                 q == b[n]
      <4>1. m \in 2 .. N /\ m - 1 = n /\ n \in 1 .. N
        BY <1>0, <3>2
      <4>2. a[m] = p \o s[m] /\ b[m] = q \o t[m]
        BY <2>1, <2>2, <4>1
      <4>3. p \in Seq(X) /\ q \in Seq(Y) /\ Aligned(p, q, s, t, n)
        BY <2>4, <4>1
      <4>4. s[m] \in Seq(X) /\ t[m] \in Seq(Y) /\ Len(s[m]) = Len(t[m])
        BY <1>0, <4>1
      <4> DEFINE l == Len(p)
                 r == Len(s[m])
      <4>5. l \in Nat /\ r \in Nat /\ Len(q) = l /\ Len(t[m]) = r
        BY <4>3, <4>4 DEF Aligned
      <4>6. /\ a[m] \in Seq(X) /\ Len(a[m]) = l + r
            /\ \A k \in 1 .. l + r : a[m][k] = IF k <= l THEN p[k] ELSE s[m][k - l]
        <5> HIDE DEF m, p
        <5>1. /\ p \o s[m] \in Seq(X) /\ Len(p \o s[m]) = Len(p) + Len(s[m])
              /\ \A k \in 1 .. Len(p) + Len(s[m]) :
                   (p \o s[m])[k] = IF k <= Len(p) THEN p[k] ELSE s[m][k - Len(p)]
          BY <4>3, <4>4, ConcatProperties
        <5> QED BY <4>2, <5>1
      <4>7. /\ b[m] \in Seq(Y) /\ Len(b[m]) = l + r
            /\ \A k \in 1 .. l + r : b[m][k] = IF k <= l THEN q[k] ELSE t[m][k - l]
        <5> HIDE DEF m, q
        <5>1. /\ q \o t[m] \in Seq(Y) /\ Len(q \o t[m]) = Len(q) + Len(t[m])
              /\ \A k \in 1 .. Len(q) + Len(t[m]) :
                   (q \o t[m])[k] = IF k <= Len(q) THEN q[k] ELSE t[m][k - Len(q)]
          BY <4>3, <4>4, ConcatProperties
        <5> QED BY <4>2, <4>5, <5>1
      <4>8. ASSUME NEW k \in 1 .. l + r
            PROVE  \E i \in 1 .. m, j \in Nat :
                     j \in 1 .. Len(s[i]) /\ a[m][k] = s[i][j] /\ b[m][k] = t[i][j]
        <5>1. CASE k <= l
          <6>1. PICK i \in 1 .. n, j \in Nat :
                  j \in 1 .. Len(s[i]) /\ p[k] = s[i][j] /\ q[k] = t[i][j]
            <7>1. k \in 1 .. l
              BY <4>5, <5>1
            <7> QED BY <4>3, <7>1 DEF Aligned
          <6>2. i \in 1 .. m
            OBVIOUS
          <6>3. a[m][k] = p[k] /\ b[m][k] = q[k]
            BY <4>6, <4>7, <5>1
          <6> QED BY <6>1, <6>2, <6>3
        <5>2. CASE ~(k <= l)
          <6>1. k - l \in 1 .. r /\ k - l \in Nat /\ m \in 1 .. m
            <7>1. l \in Nat /\ r \in Nat /\ m \in Nat \ {0}
              BY <4>5
            <7> HIDE DEF l, r, m
            <7> QED BY <5>2, <7>1
          <6>2. a[m][k] = s[m][k - l] /\ b[m][k] = t[m][k - l]
            BY <4>6, <4>7, <5>2
          <6> QED BY <6>1, <6>2
        <5> QED BY <5>1, <5>2
      <4> HIDE DEF p, q, l, r, m
      <4>9. Aligned(a[m], b[m], s, t, m)
        BY <4>6, <4>7, <4>8 DEF Aligned
      <4> QED BY <4>6, <4>7, <4>9 DEF m
    <3> QED BY <3>1, <3>2
  <2>5. N \in G
    <3> HIDE DEF G
    <3> QED BY <1>0, <2>3, <2>4, Induction
  <2> QED BY <1>0, <2>0, <2>1, <2>2, <2>5
<1> QED BY <1>1, <1>2

-----------------------------------------------------------------------------
\* t is s with e before its i-th entry.
Inserted(t, s, i, e) ==
  /\ Len(t) = Len(s) + 1
  /\ \A k \in 1 .. Len(t) : t[k] = IF k < i THEN s[k] ELSE IF k = i THEN e ELSE s[k - 1]

LEMMA InsertAtInserts ==
  ASSUME NEW X, NEW s \in Seq(X), NEW e \in X, NEW i \in 1 .. Len(s) + 1
  PROVE  InsertAt(s, i, e) \in Seq(X) /\ Inserted(InsertAt(s, i, e), s, i, e)
<1> DEFINE a == SubSeq(s, 1, i - 1)
           b == SubSeq(s, i, Len(s))
           c == a \o <<e>>
<1>0. Len(s) \in Nat /\ i \in Nat /\ i - 1 \in Nat
  OBVIOUS
<1>1. a \in Seq(X) /\ Len(a) = i - 1 /\ \A k \in 1 .. i - 1 : a[k] = s[k]
  OBVIOUS
<1>2. b \in Seq(X) /\ Len(b) = Len(s) - i + 1 /\ \A k \in 1 .. Len(s) - i + 1 : b[k] = s[i + k - 1]
  OBVIOUS
<1> HIDE DEF a, b
<1>3. c \in Seq(X) /\ Len(c) = i /\ c[i] = e /\ \A k \in 1 .. i - 1 : c[k] = s[k]
  BY <1>0, <1>1
<1> HIDE DEF c
<1>4. /\ c \o b \in Seq(X) /\ Len(c \o b) = Len(s) + 1
      /\ \A k \in 1 .. i : (c \o b)[k] = c[k]
      /\ \A k \in i + 1 .. Len(s) + 1 : (c \o b)[k] = b[k - i]
  BY <1>0, <1>2, <1>3
<1>5. InsertAt(s, i, e) = c \o b
  BY DEF InsertAt, a, b, c
<1>6. ASSUME NEW k \in 1 .. Len(s) + 1
      PROVE  (c \o b)[k] = IF k < i THEN s[k] ELSE IF k = i THEN e ELSE s[k - 1]
  <2>0. CASE k < i
    <3>1. k \in 1 .. i /\ k \in 1 .. i - 1
      BY <1>0, <2>0
    <3> QED BY <1>3, <1>4, <2>0, <3>1
  <2>1. CASE k = i
    <3>1. i \in 1 .. i /\ ~(i < i)
      BY <1>0
    <3> QED BY <1>3, <1>4, <2>1, <3>1
  <2>2. CASE k > i
    <3>1. k \in i + 1 .. Len(s) + 1 /\ k - i \in 1 .. Len(s) - i + 1
      BY <1>0, <2>2
    <3>2. b[k - i] = s[i + (k - i) - 1] /\ i + (k - i) - 1 = k - 1
      BY <1>0, <1>2, <3>1
    <3>3. (c \o b)[k] = s[k - 1] /\ ~(k < i) /\ k # i
      BY <1>0, <1>4, <2>2, <3>1, <3>2
    <3> QED BY <3>3
  <2>3. k < i \/ k = i \/ k > i
    BY <1>0
  <2> QED BY <2>0, <2>1, <2>2, <2>3
<1> QED BY <1>4, <1>5, <1>6 DEF Inserted

\* The entries of a sequence as a set, when one is added or some are kept.
LEMMA SetOfAppend ==
  ASSUME NEW X, NEW s \in Seq(X), NEW e \in X
  PROVE  ToSet(Append(s, e)) = ToSet(s) \cup {e}
<1>1. /\ Append(s, e) \in Seq(X) /\ Len(Append(s, e)) = Len(s) + 1 /\ Len(s) \in Nat
      /\ \A k \in 1 .. Len(s) : Append(s, e)[k] = s[k]
      /\ Append(s, e)[Len(s) + 1] = e
  OBVIOUS
<1>2. DOMAIN s = 1 .. Len(s) /\ DOMAIN Append(s, e) = 1 .. Len(s) + 1
  BY <1>1
<1>3. ASSUME NEW k \in 1 .. Len(s) + 1 PROVE Append(s, e)[k] \in ToSet(s) \cup {e}
  <2>1. k \in 1 .. Len(s) \/ k = Len(s) + 1
    BY <1>1
  <2> QED BY <1>1, <1>2, <2>1 DEF ToSet
<1>4. ASSUME NEW k \in 1 .. Len(s) PROVE s[k] \in ToSet(Append(s, e))
  <2>1. k \in 1 .. Len(s) + 1
    BY <1>1
  <2> QED BY <1>1, <1>2, <2>1 DEF ToSet
<1>5. e \in ToSet(Append(s, e))
  <2>1. Len(s) + 1 \in 1 .. Len(s) + 1
    BY <1>1
  <2> QED BY <1>1, <1>2, <2>1 DEF ToSet
<1> QED BY <1>2, <1>3, <1>4, <1>5 DEF ToSet

LEMMA SetOfInserted ==
  ASSUME NEW X, NEW s \in Seq(X), NEW t \in Seq(X), NEW e \in X, NEW i \in 1 .. Len(s) + 1,
         Inserted(t, s, i, e)
  PROVE  ToSet(t) = ToSet(s) \cup {e}
<1>1. /\ Len(s) \in Nat /\ Len(t) = Len(s) + 1 /\ DOMAIN s = 1 .. Len(s) /\ DOMAIN t = 1 .. Len(s) + 1
      /\ \A k \in 1 .. Len(t) : t[k] = IF k < i THEN s[k] ELSE IF k = i THEN e ELSE s[k - 1]
  BY DEF Inserted
<1>2. ASSUME NEW k \in 1 .. Len(s) + 1 PROVE t[k] \in ToSet(s) \cup {e}
  <2>1. CASE k < i
    <3>1. k \in 1 .. Len(s) /\ t[k] = s[k]
      BY <1>1, <2>1
    <3> QED BY <1>1, <3>1 DEF ToSet
  <2>2. CASE k = i
    BY <1>1, <2>2
  <2>3. CASE k > i
    <3>1. k - 1 \in 1 .. Len(s) /\ t[k] = s[k - 1]
      BY <1>1, <2>3
    <3> QED BY <1>1, <3>1 DEF ToSet
  <2> QED BY <2>1, <2>2, <2>3
<1>3. ASSUME NEW k \in 1 .. Len(s) PROVE s[k] \in ToSet(t)
  <2>1. CASE k < i
    <3>1. k \in 1 .. Len(s) + 1 /\ t[k] = s[k]
      BY <1>1, <2>1
    <3> QED BY <1>1, <3>1 DEF ToSet
  <2>2. CASE k >= i
    <3>1. k + 1 \in 1 .. Len(s) + 1 /\ t[k + 1] = s[(k + 1) - 1] /\ (k + 1) - 1 = k
      BY <1>1, <2>2
    <3> QED BY <1>1, <3>1 DEF ToSet
  <2> QED BY <2>1, <2>2
<1>4. e \in ToSet(t)
  <2>1. i \in 1 .. Len(s) + 1 /\ t[i] = e
    BY <1>1
  <2> QED BY <1>1, <2>1 DEF ToSet
<1> QED BY <1>1, <1>2, <1>3, <1>4 DEF ToSet

LEMMA SetOfFilter ==
  ASSUME NEW X, NEW s \in Seq(X), NEW S
  PROVE  Filter(s, S) \in Seq(X) /\ ToSet(Filter(s, S)) = ToSet(s) \cap S
<1>1. Filter(s, S) \in Seq(X)
  BY FilterKeeps
<1>2. ToSet(Filter(s, S)) = ToSet(s) \cap S
  BY FilterRange DEF ToSet
<1> QED BY <1>1, <1>2

\* Two sequences end to end: their entries as a set, and whether none is there twice.
LEMMA SetOfConcat ==
  ASSUME NEW X, NEW s \in Seq(X), NEW t \in Seq(X)
  PROVE  /\ s \o t \in Seq(X)
         /\ ToSet(s \o t) = ToSet(s) \cup ToSet(t)
         /\ IsInjective(s) /\ IsInjective(t) /\ ToSet(s) \cap ToSet(t) = {} => IsInjective(s \o t)
<1> DEFINE u == s \o t
<1>1. /\ u \in Seq(X) /\ Len(s) \in Nat /\ Len(t) \in Nat /\ Len(u) = Len(s) + Len(t)
      /\ DOMAIN s = 1 .. Len(s) /\ DOMAIN t = 1 .. Len(t) /\ DOMAIN u = 1 .. Len(u)
      /\ \A i \in 1 .. Len(s) : u[i] = s[i]
  OBVIOUS
<1>2. \A i \in 1 .. Len(t) : u[Len(s) + i] = t[i] /\ Len(s) + i \in 1 .. Len(u)
  BY <1>1
<1>3. \A k \in 1 .. Len(u) :
        \/ k \in 1 .. Len(s) /\ u[k] = s[k]
        \/ k - Len(s) \in 1 .. Len(t) /\ u[k] = t[k - Len(s)]
  <2> SUFFICES ASSUME NEW k \in 1 .. Len(u), k \notin 1 .. Len(s)
               PROVE  k - Len(s) \in 1 .. Len(t) /\ u[k] = t[k - Len(s)]
    BY <1>1
  <2>1. k - Len(s) \in 1 .. Len(t) /\ Len(s) + (k - Len(s)) = k
    BY <1>1
  <2> QED BY <1>2, <2>1
<1> HIDE DEF u
<1>4. ToSet(u) = ToSet(s) \cup ToSet(t)
  <2>1. ASSUME NEW k \in 1 .. Len(u) PROVE u[k] \in ToSet(s) \cup ToSet(t)
    BY <1>1, <1>3 DEF ToSet
  <2>2. ASSUME NEW i \in 1 .. Len(s) PROVE s[i] \in ToSet(u)
    <3>1. i \in 1 .. Len(u) /\ u[i] = s[i]
      BY <1>1
    <3> QED BY <1>1, <3>1 DEF ToSet
  <2>3. ASSUME NEW i \in 1 .. Len(t) PROVE t[i] \in ToSet(u)
    BY <1>1, <1>2 DEF ToSet
  <2> QED BY <1>1, <2>1, <2>2, <2>3 DEF ToSet
<1>5. ASSUME IsInjective(s), IsInjective(t), ToSet(s) \cap ToSet(t) = {} PROVE IsInjective(u)
  <2>1. ASSUME NEW i \in 1 .. Len(s), NEW j \in 1 .. Len(t) PROVE s[i] # t[j]
    <3>1. s[i] \in ToSet(s) /\ t[j] \in ToSet(t)
      BY <1>1 DEF ToSet
    <3> QED BY <1>5, <3>1
  <2>2. (\A i, j \in 1 .. Len(s) : s[i] = s[j] => i = j) /\ (\A i, j \in 1 .. Len(t) : t[i] = t[j] => i = j)
    BY <1>1, <1>5 DEF IsInjective
  <2>3. ASSUME NEW i \in 1 .. Len(u), NEW j \in 1 .. Len(u), u[i] = u[j] PROVE i = j
    <3>1. CASE i \in 1 .. Len(s) /\ u[i] = s[i]
      <4>1. j \in 1 .. Len(s) /\ u[j] = s[j]
        BY <1>3, <2>1, <2>3, <3>1
      <4> QED BY <2>2, <2>3, <3>1, <4>1
    <3>2. CASE i - Len(s) \in 1 .. Len(t) /\ u[i] = t[i - Len(s)]
      <4>1. j - Len(s) \in 1 .. Len(t) /\ u[j] = t[j - Len(s)]
        BY <1>3, <2>1, <2>3, <3>2
      <4>2. i - Len(s) = j - Len(s)
        BY <2>2, <2>3, <3>2, <4>1
      <4> QED BY <1>1, <4>2
    <3> QED BY <1>3, <3>1, <3>2
  <2> QED BY <1>1, <2>3 DEF IsInjective
<1> QED BY <1>1, <1>4, <1>5 DEF u

\* The same of many sequences.
LEMMA SetOfFlatten ==
  ASSUME NEW X, NEW s \in Seq(Seq(X))
  PROVE  /\ FlattenSeq(s) \in Seq(X)
         /\ ToSet(FlattenSeq(s)) = UNION {ToSet(s[i]) : i \in DOMAIN s}
         /\ /\ \A i \in DOMAIN s : IsInjective(s[i])
            /\ \A i, j \in DOMAIN s : i # j => ToSet(s[i]) \cap ToSet(s[j]) = {}
            => IsInjective(FlattenSeq(s))
<1> DEFINE Apart_ == /\ \A i \in DOMAIN s : IsInjective(s[i])
                     /\ \A i, j \in DOMAIN s : i # j => ToSet(s[i]) \cap ToSet(s[j]) = {}
           Made(v, n) == /\ v \in Seq(X)
                         /\ ToSet(v) = UNION {ToSet(s[i]) : i \in 1 .. n}
                         /\ Apart_ => IsInjective(v)
<1>0. Len(s) \in Nat /\ DOMAIN s = 1 .. Len(s) /\ \A i \in 1 .. Len(s) : s[i] \in Seq(X)
  OBVIOUS
<1>1. CASE s = <<>>
  <2>1. FlattenSeq(s) = s /\ s \in Seq(X) /\ DOMAIN s = {}
    BY <1>1 DEF FlattenSeq
  <2> QED BY <2>1 DEF ToSet, IsInjective
<1>2. CASE s # <<>>
  <2>1. PICK flat : /\ FlattenSeq(s) = flat[Len(s)]
                    /\ flat[1] = s[1]
                    /\ \A n \in 2 .. Len(s) : flat[n] = flat[n - 1] \o s[n]
    BY <1>2, FlattenUnfolds
  <2>2. 1 \in 1 .. Len(s)
    BY <1>0, <1>2
  <2> DEFINE G == {n \in Nat : n + 1 <= Len(s) => Made(flat[n + 1], n + 1)}
  <2>3. 0 \in G
    <3>1. 1 .. 0 + 1 = {1} /\ 0 + 1 = 1
      OBVIOUS
    <3>2. Apart_ => IsInjective(s[1])
      BY <1>0, <2>2
    <3> HIDE DEF Apart_
    <3> QED BY <1>0, <2>1, <2>2, <3>1, <3>2
  <2>4. ASSUME NEW n \in Nat, n \in G PROVE n + 1 \in G
    <3> SUFFICES ASSUME (n + 1) + 1 <= Len(s) PROVE Made(flat[(n + 1) + 1], (n + 1) + 1)
      OBVIOUS
    <3> DEFINE m == n + 1
    <3>1. m \in 1 .. Len(s) /\ m + 1 \in 2 .. Len(s) /\ m + 1 \in 1 .. Len(s) /\ (m + 1) - 1 = m
      BY <1>0
    <3>2. Made(flat[m], m)
      <4>1. n + 1 <= Len(s)
        BY <1>0
      <4> HIDE DEF Made
      <4> QED BY <2>4, <4>1
    <3>3. flat[m + 1] = flat[m] \o s[m + 1]
      BY <2>1, <3>1
    <3>4. 1 .. m + 1 = (1 .. m) \cup {m + 1} /\ \A i \in 1 .. m : i \in 1 .. Len(s) /\ i # m + 1
      BY <1>0, <3>1
    <3> HIDE DEF m
    <3>5. s[m + 1] \in Seq(X) /\ flat[m] \in Seq(X)
      BY <1>0, <3>1, <3>2
    <3>6. /\ flat[m + 1] \in Seq(X)
          /\ ToSet(flat[m + 1]) = ToSet(flat[m]) \cup ToSet(s[m + 1])
          /\ IsInjective(flat[m]) /\ IsInjective(s[m + 1]) /\ ToSet(flat[m]) \cap ToSet(s[m + 1]) = {}
             => IsInjective(flat[m + 1])
      BY <3>3, <3>5, SetOfConcat
    <3>7. ToSet(flat[m + 1]) = UNION {ToSet(s[i]) : i \in 1 .. m + 1}
      BY <3>2, <3>4, <3>6
    <3>8. ASSUME Apart_ PROVE IsInjective(flat[m + 1])
      <4>1. IsInjective(s[m + 1]) /\ \A i \in 1 .. m : ToSet(s[i]) \cap ToSet(s[m + 1]) = {}
        BY <1>0, <3>1, <3>4, <3>8
      <4>2. ToSet(flat[m]) \cap ToSet(s[m + 1]) = {}
        BY <3>2, <4>1
      <4> QED BY <3>2, <3>6, <3>8, <4>1, <4>2
    <3> QED BY <3>6, <3>7, <3>8 DEF m
  <2>5. Len(s) - 1 \in G
    <3>1. Len(s) - 1 \in Nat
      BY <1>0, <2>2
    <3> HIDE DEF G
    <3> QED BY <2>3, <2>4, <3>1, Induction
  <2>6. (Len(s) - 1) + 1 = Len(s) /\ Len(s) <= Len(s)
    BY <1>0
  <2>7. Made(flat[Len(s)], Len(s))
    BY <2>5, <2>6
  <2> HIDE DEF Apart_
  <2> QED BY <1>0, <2>1, <2>7 DEF Apart_
<1> QED BY <1>1, <1>2
=============================================================================
