-------------------------- MODULE CInterfaceProofs --------------------------
(***************************************************************************)
(* Proofs about CInterface and, below it, Unwind: for any stacks, skips,   *)
(* limits and back-ends a trace is the program's own frames; for any       *)
(* modules, traces and sequence of calls the memory of C structures is     *)
(* owned once, both printers agree, and paths go with addresses.           *)
(***************************************************************************)
EXTENDS CInterface, SequenceLemmas, FunctionTheorems

Frames == [ip : Nat \ {0}, signal : BOOLEAN]

-----------------------------------------------------------------------------
\* The function skipped is defined by: what the first n functions add.
LEMMA SkippedUnfolds ==
  ASSUME NEW entry, NEW skip \in Nat, adds(entry) \in Seq(Nat)
  PROVE  \E added : /\ skipped(entry, skip) = added[Len(adds(entry))]
                    /\ added[0] = skip
                    /\ \A n \in 1 .. Len(adds(entry)) : added[n] = added[n - 1] + adds(entry)[n]
<1> DEFINE a == adds(entry)
           N == Len(a)
           Body(f) == [n \in 0 .. N |-> IF n = 0 THEN skip ELSE f[n - 1] + a[n]]
           step == [p \in Nat \X (1 .. N) |-> p[1] + a[p[2]]]
           added == CHOOSE f : f = Body(f)
<1> HIDE DEF a
<1>1. N \in Nat /\ \A n \in 1 .. N : a[n] \in Nat
  BY DEF a
<1>2. step \in [Nat \X (1 .. N) -> Nat]
  BY <1>1
<1>3. PICK f \in [0 .. N -> Nat] : f[0] = skip /\ \A n \in 1 .. N : f[n] = step[<<f[n - 1], n>>]
  <2> HIDE DEF step, N
  <2>1. \E f : Recursive(f, Nat, N, skip, step)
    BY <1>1, <1>2, Recursion
  <2> QED BY <2>1 DEF Recursive
<1>4. ASSUME NEW n \in 1 .. N PROVE f[n] = f[n - 1] + a[n]
  <2>1. n - 1 \in 0 .. N
    BY <1>1
  <2>2. <<f[n - 1], n>> \in Nat \X (1 .. N)
    BY <2>1
  <2> QED BY <1>3, <2>2
<1>5. f = Body(f)
  <2>1. ASSUME NEW n \in 0 .. N PROVE f[n] = Body(f)[n]
    <3>1. Body(f)[n] = IF n = 0 THEN skip ELSE f[n - 1] + a[n]
      OBVIOUS
    <3>2. n = 0 \/ n \in 1 .. N
      BY <1>1
    <3> QED BY <1>3, <1>4, <3>1, <3>2
  <2>2. f = [n \in 0 .. N |-> f[n]] /\ Body(f) = [n \in 0 .. N |-> Body(f)[n]]
    BY <1>3
  <2> HIDE DEF Body
  <2> QED BY <2>1, <2>2
<1>6. added = Body(added)
  <2> HIDE DEF Body
  <2> QED BY <1>5
<1>7. skipped(entry, skip) = added[N]
  BY DEF skipped, a
<1>8. added[0] = skip
  <2>1. Body(added)[0] = skip
    BY <1>1
  <2> HIDE DEF Body, added
  <2> QED BY <1>6, <2>1
<1>9. ASSUME NEW n \in 1 .. N PROVE added[n] = added[n - 1] + a[n]
  <2> HIDE DEF added
  <2>1. Body(added)[n] = added[n - 1] + a[n]
    BY <1>1
  <2> HIDE DEF Body
  <2> QED BY <1>6, <2>1
<1> HIDE DEF added
<1> QED BY <1>7, <1>8, <1>9 DEF a

\* Every function on the way skips its own frame, but for the first of
\* ctrace_safe_generate_raw_trace.
LEMMA OwnFramesSkipped ==
  ASSUME NEW entry, NEW skip \in Nat
  PROVE  /\ Len(adds(entry)) \in 1 .. 3
         /\ IF entry = "ctrace_safe_generate_raw_trace"
            THEN Len(adds(entry)) = 2 /\ skipped(entry, skip) = skip + 1
            ELSE skipped(entry, skip) = skip + Len(adds(entry))
<1> DEFINE a == adds(entry)
           c == entry = "ctrace_safe_generate_raw_trace"
<1>1. \/ c /\ a = <<0, 1>>
      \/ ~c /\ (a = <<1, 1, 1>> \/ a = <<1, 1>> \/ a = <<1>>)
  BY DEF adds
<1>2. a \in Seq(Nat)
  <2>1. <<0, 1>> \in Seq(Nat) /\ <<1, 1, 1>> \in Seq(Nat) /\ <<1, 1>> \in Seq(Nat) /\ <<1>> \in Seq(Nat)
    OBVIOUS
  <2> HIDE DEF a, c
  <2> QED BY <1>1, <2>1
<1>3. PICK added : /\ skipped(entry, skip) = added[Len(a)]
                   /\ added[0] = skip
                   /\ \A n \in 1 .. Len(a) : added[n] = added[n - 1] + a[n]
  BY <1>2, SkippedUnfolds
<1> HIDE DEF a, c
<1>4. CASE a = <<1>>
  <2>1. Len(a) = 1 /\ 1 \in 1 .. Len(a) /\ a[1] = 1
    BY <1>4
  <2>2. added[1] = added[1 - 1] + a[1]
    BY <1>3, <2>1
  <2>3. ~c
    BY <1>1, <1>4
  <2> QED BY <1>3, <2>1, <2>2, <2>3 DEF a, c
<1>5. CASE a = <<1, 1>>
  <2>1. Len(a) = 2 /\ 1 \in 1 .. Len(a) /\ 2 \in 1 .. Len(a) /\ a[1] = 1 /\ a[2] = 1
    BY <1>5
  <2>2. added[1] = added[1 - 1] + a[1] /\ added[2] = added[2 - 1] + a[2]
    BY <1>3, <2>1
  <2>3. ~c
    BY <1>1, <1>5
  <2>4. skipped(entry, skip) = skip + 2
    BY <1>3, <2>1, <2>2
  <2> QED BY <2>1, <2>3, <2>4 DEF a, c
<1>6. CASE a = <<1, 1, 1>>
  <2>1. /\ Len(a) = 3 /\ 1 \in 1 .. Len(a) /\ 2 \in 1 .. Len(a) /\ 3 \in 1 .. Len(a)
        /\ a[1] = 1 /\ a[2] = 1 /\ a[3] = 1
    BY <1>6
  <2>2. added[1] = added[1 - 1] + a[1] /\ added[2] = added[2 - 1] + a[2] /\ added[3] = added[3 - 1] + a[3]
    BY <1>3, <2>1
  <2>3. ~c
    BY <1>1, <1>6
  <2>4. skipped(entry, skip) = skip + 3
    BY <1>3, <2>1, <2>2
  <2> QED BY <2>1, <2>3, <2>4 DEF a, c
<1>7. CASE a = <<0, 1>>
  <2>1. Len(a) = 2 /\ 1 \in 1 .. Len(a) /\ 2 \in 1 .. Len(a) /\ a[1] = 0 /\ a[2] = 1
    BY <1>7
  <2>2. added[1] = added[1 - 1] + a[1] /\ added[2] = added[2 - 1] + a[2]
    BY <1>3, <2>1
  <2>3. c
    BY <1>1, <1>7
  <2>4. skipped(entry, skip) = skip + 1
    BY <1>3, <2>1, <2>2
  <2> QED BY <2>1, <2>3, <2>4 DEF a, c
<1> QED BY <1>1, <1>4, <1>5, <1>6, <1>7

\* A window has the frames from its start on.
IsWindow(w, X, s, n, max) ==
  /\ w \in Seq(X)
  /\ Len(w) = IF n < Len(s) THEN MinOf(max, Len(s) - n) ELSE 0
  /\ \A i \in 1 .. Len(w) : w[i] = s[n + i]

LEMMA WindowIs ==
  ASSUME NEW X, NEW s \in Seq(X), NEW n \in Nat, NEW max \in Nat
  PROVE  IsWindow(Window(s, n, max), X, s, n, max)
<1> DEFINE w == Window(s, n, max)
           e == MinOf(n + max, Len(s))
<1>1. Len(s) \in Nat /\ n + 1 \in Nat /\ e \in 0 .. Len(s)
  BY DEF MinOf
<1>2. w = SubSeq(s, n + 1, e)
  BY DEF Window
<1> SUFFICES IsWindow(w, X, s, n, max)
  OBVIOUS
<1> HIDE DEF e, w
<1>3. CASE n + 1 <= e
  <2>1. /\ SubSeq(s, n + 1, e) \in Seq(X) /\ Len(SubSeq(s, n + 1, e)) = e - n
        /\ \A i \in 1 .. e - n : SubSeq(s, n + 1, e)[i] = s[n + i]
    BY <1>1, <1>3, SubSeqProperties
  <2>2. n < Len(s) /\ e - n = MinOf(max, Len(s) - n)
    BY <1>1, <1>3 DEF e, MinOf
  <2>3. w \in Seq(X) /\ Len(w) = e - n /\ \A i \in 1 .. Len(w) : w[i] = s[n + i]
    BY <1>2, <2>1
  <2> QED BY <2>2, <2>3 DEF IsWindow
<1>4. CASE ~(n + 1 <= e)
  <2>1. w = <<>>
    BY <1>1, <1>2, <1>4, SubSeqEmpty
  <2>2. n < Len(s) => MinOf(max, Len(s) - n) = 0
    BY <1>1, <1>4 DEF e, MinOf
  <2>3. w \in Seq(X) /\ Len(w) = 0
    BY <2>1
  <2>4. Len(w) = IF n < Len(s) THEN MinOf(max, Len(s) - n) ELSE 0
    BY <2>2, <2>3
  <2>5. \A i \in 1 .. Len(w) : w[i] = s[n + i]
    BY <2>3
  <2> QED BY <2>3, <2>4, <2>5 DEF IsWindow
<1> QED BY <1>3, <1>4

\* Below a function of the library there are the frames of the library, then
\* those of the program.
Depth(entry) == Len(adds(entry)) + 1

LEMMA StackBelow ==
  ASSUME NEW entry, NEW u \in Seq(Frames)
  PROVE  /\ stack_below(entry, u) \in Seq(Frames)
         /\ Len(stack_below(entry, u)) = Depth(entry) + Len(u)
         /\ \A i \in 1 .. Len(u) : stack_below(entry, u)[Depth(entry) + i] = u[i]
<1> DEFINE own == [i \in 1 .. Depth(entry) |-> [ip |-> LibraryFrame + i, signal |-> FALSE]]
<1>1. Depth(entry) \in Nat
  BY OwnFramesSkipped DEF Depth
<1>2. own \in Seq(Frames) /\ Len(own) = Depth(entry)
  <2>1. \A i \in 1 .. Depth(entry) : own[i] \in Frames
    BY <1>1 DEF Frames, LibraryFrame
  <2>2. own = [i \in 1 .. Depth(entry) |-> own[i]]
    OBVIOUS
  <2> HIDE DEF own
  <2> QED BY <1>1, <2>1, <2>2
<1>3. stack_below(entry, u) = own \o u
  BY DEF stack_below, Depth
<1> HIDE DEF own
<1>4. /\ own \o u \in Seq(Frames) /\ Len(own \o u) = Len(own) + Len(u)
      /\ \A k \in 1 .. Len(own) + Len(u) :
           (own \o u)[k] = IF k <= Len(own) THEN own[k] ELSE u[k - Len(own)]
  BY <1>2, ConcatProperties
<1>5. ASSUME NEW i \in 1 .. Len(u) PROVE (own \o u)[Depth(entry) + i] = u[i]
  <2>1. Len(u) \in Nat
    OBVIOUS
  <2>2. /\ Depth(entry) + i \in 1 .. Len(own) + Len(u) /\ ~(Depth(entry) + i <= Len(own))
        /\ (Depth(entry) + i) - Len(own) = i
    BY <1>1, <1>2, <2>1
  <2> QED BY <1>4, <2>2
<1> QED BY <1>2, <1>3, <1>4, <1>5

\* w is a stretch of the program's frames.
Stretch(w, u, first, length) ==
  /\ w \in Seq(Frames) /\ Len(w) = length
  /\ \A i \in 1 .. length : w[i] = u[first + i]

\* How many of the program's frames there are from the first on, up to a limit.
LengthFrom(u, first, max) == IF first < Len(u) THEN MinOf(max, Len(u) - first) ELSE 0

\* A window behind the library's frames is a stretch of the program's.
LEMMA WindowBelow ==
  ASSUME NEW entry, NEW u \in Seq(Frames), NEW n \in Nat, NEW max \in Nat
  PROVE  Stretch(Window(stack_below(entry, u), Depth(entry) + n, max), u, n, LengthFrom(u, n, max))
<1> DEFINE s == stack_below(entry, u)
           d == Depth(entry)
           w == Window(s, d + n, max)
<1>1. d \in Nat /\ Len(u) \in Nat /\ d + n \in Nat
  BY OwnFramesSkipped DEF Depth
<1>2. s \in Seq(Frames) /\ Len(s) = d + Len(u) /\ \A i \in 1 .. Len(u) : s[d + i] = u[i]
  BY StackBelow
<1> HIDE DEF s, d
<1>3. /\ w \in Seq(Frames)
      /\ Len(w) = IF d + n < Len(s) THEN MinOf(max, Len(s) - (d + n)) ELSE 0
      /\ \A i \in 1 .. Len(w) : w[i] = s[(d + n) + i]
  <2>1. s \in Seq(Frames)
    BY <1>2
  <2>2. IsWindow(w, Frames, s, d + n, max)
    BY <1>1, <2>1, WindowIs
  <2> HIDE DEF w
  <2> QED BY <2>2 DEF IsWindow
<1> HIDE DEF w
<1>4. Len(w) = LengthFrom(u, n, max)
  BY <1>1, <1>2, <1>3 DEF LengthFrom, MinOf
<1>5. ASSUME NEW i \in 1 .. LengthFrom(u, n, max) PROVE w[i] = u[n + i]
  <2>1. i \in 1 .. Len(w) /\ n + i \in 1 .. Len(u)
    BY <1>1, <1>4 DEF LengthFrom, MinOf
  <2>2. w[i] = s[(d + n) + i]
    BY <1>3, <2>1
  <2>3. s[d + (n + i)] = u[n + i]
    BY <1>2, <2>1
  <2>4. (d + n) + i = d + (n + i)
    BY <1>1, <2>1
  <2> QED BY <2>2, <2>3, <2>4
<1> QED BY <1>3, <1>4, <1>5 DEF Stretch, s, d, w
-----------------------------------------------------------------------------
\* What is in a trace of the program's frames; a back-end may not know that a
\* frame was interrupted by a signal.
AddressOf(frame, knows) == IF frame.signal /\ knows THEN frame.ip ELSE frame.ip - 1
Shown(pcs, u, first, length, knows) ==
  /\ DOMAIN pcs = 1 .. length /\ pcs \in Seq(Nat) /\ Len(pcs) = length
  /\ \A i \in 1 .. length : pcs[i] = AddressOf(u[first + i], knows)

\* A function on the first numbers is a sequence.
LEMMA SequenceOf ==
  ASSUME NEW X, NEW n \in Nat, NEW f, f = [i \in 1 .. n |-> f[i]], \A i \in 1 .. n : f[i] \in X
  PROVE  f \in Seq(X) /\ Len(f) = n /\ DOMAIN f = 1 .. n
<1>1. f \in [1 .. n -> X]
  OBVIOUS
<1> QED BY <1>1, SeqDef, LenProperties

LEMMA BeforeCall ==
  ASSUME NEW u, NEW first \in Nat, NEW length \in Nat, NEW w, Stretch(w, u, first, length)
  PROVE  /\ Shown(before_call(w), u, first, length, FALSE)
         /\ Shown(before_call_only(w), u, first, length, TRUE)
<1>1. w \in Seq(Frames) /\ Len(w) = length /\ DOMAIN w = 1 .. length
  BY DEF Stretch
<1>2. ASSUME NEW i \in 1 .. length
      PROVE  w[i] \in Frames /\ w[i] = u[first + i]
  BY <1>1 DEF Stretch
<1>3. ASSUME NEW i \in 1 .. length, NEW knows \in BOOLEAN
      PROVE  AddressOf(w[i], knows) \in Nat /\ AddressOf(w[i], knows) = AddressOf(u[first + i], knows)
  <2>1. w[i].ip \in Nat \ {0} /\ w[i].signal \in BOOLEAN
    BY <1>2 DEF Frames
  <2>2. w[i].ip - 1 \in Nat
    BY <2>1
  <2> QED BY <1>2, <2>1, <2>2 DEF AddressOf
<1> DEFINE a == [i \in 1 .. length |-> AddressOf(w[i], FALSE)]
           b == [i \in 1 .. length |-> AddressOf(w[i], TRUE)]
<1>4. before_call(w) = a
  BY <1>1 DEF before_call, AddressOf
<1>5. before_call_only(w) = b
  BY <1>1 DEF before_call_only, AddressOf
<1>6. \A i \in 1 .. length : a[i] \in Nat /\ a[i] = AddressOf(u[first + i], FALSE)
  BY <1>3
<1>7. \A i \in 1 .. length : b[i] \in Nat /\ b[i] = AddressOf(u[first + i], TRUE)
  BY <1>3
<1>8. a = [i \in 1 .. length |-> a[i]] /\ b = [i \in 1 .. length |-> b[i]]
  OBVIOUS
<1> HIDE DEF a, b
<1>9. Shown(a, u, first, length, FALSE)
  <2>1. a \in Seq(Nat) /\ Len(a) = length /\ DOMAIN a = 1 .. length
    BY <1>6, <1>8, SequenceOf
  <2> QED BY <1>6, <2>1 DEF Shown
<1>10. Shown(b, u, first, length, TRUE)
  <2>1. b \in Seq(Nat) /\ Len(b) = length /\ DOMAIN b = 1 .. length
    BY <1>7, <1>8, SequenceOf
  <2> QED BY <1>7, <2>1 DEF Shown
<1> QED BY <1>4, <1>5, <1>9, <1>10

\* A trace shows the frames from the first that is not skipped, so many at least
\* and so many at most.
TraceShows(pcs, u, first, knows, least, most) ==
  \E length \in Nat : /\ Shown(pcs, u, first, length, knows)
                      /\ least <= length /\ length <= most
                      /\ length = 0 \/ first + length <= Len(u)

LeastOf(u, skip, max) == MinOf(Len(u) - skip, MinOf(max, HardMax))
MostOf(max, beyond) == MinOf(max, SizeMax - beyond) + beyond

\* The window of each back-end, as the program's frames.
LEMMA WindowShows ==
  ASSUME NEW entry, NEW u \in Seq(Frames), NEW skip \in Nat, NEW max \in Nat
  PROVE  LET w == Window(stack_below(entry, u), Depth(entry) + skip, max)
             length == LengthFrom(u, skip, max)
         IN /\ TraceShows(before_call(w), u, skip, FALSE, length, length)
            /\ TraceShows(before_call_only(w), u, skip, TRUE, length, length)
<1> DEFINE w == Window(stack_below(entry, u), Depth(entry) + skip, max)
           length == LengthFrom(u, skip, max)
<1>1. Stretch(w, u, skip, length)
  BY WindowBelow
<1>2. length \in Nat /\ (length = 0 \/ skip + length <= Len(u))
  BY DEF LengthFrom, MinOf
<1> SUFFICES /\ TraceShows(before_call(w), u, skip, FALSE, length, length)
             /\ TraceShows(before_call_only(w), u, skip, TRUE, length, length)
  OBVIOUS
<1> HIDE DEF w, length
<1>3. /\ Shown(before_call(w), u, skip, length, FALSE)
      /\ Shown(before_call_only(w), u, skip, length, TRUE)
  BY <1>1, <1>2, BeforeCall
<1>4. length <= length
  BY <1>2
<1> QED BY <1>2, <1>3, <1>4 DEF TraceShows

LEMMA BoundsMayWiden ==
  ASSUME NEW pcs, NEW u, NEW first, NEW knows, NEW least \in Int, NEW most \in Int,
         NEW l \in Int, NEW m \in Int,
         TraceShows(pcs, u, first, knows, l, m), least <= l, m <= most
  PROVE  TraceShows(pcs, u, first, knows, least, most)
BY DEF TraceShows
LEMMA NothingShown ==
  ASSUME NEW u \in Seq(Frames), NEW skip \in Nat, NEW knows, NEW least \in Int, NEW most \in Int,
         least <= 0, 0 <= most
  PROVE  TraceShows(<<>>, u, skip, knows, least, most)
<1>1. <<>> \in Seq(Nat) /\ Len(<<>>) = 0 /\ DOMAIN <<>> = 1 .. 0 /\ 0 \in Nat
  OBVIOUS
<1>2. Shown(<<>>, u, skip, 0, knows)
  BY <1>1 DEF Shown
<1> QED BY <1>1, <1>2 DEF TraceShows

\* What each back-end does, asked to skip the library's frames and some of the
\* program's.
LEMMA UnwindShows ==
  ASSUME NEW entry, NEW u \in Seq(Frames), NEW skip \in Nat, NEW max \in Nat,
         NEW asserts \in BOOLEAN, Len(u) <= SizeMax
  PROVE  LET t == capture_with_unwind(stack_below(entry, u), Len(adds(entry)) + skip, max, asserts)
         IN /\ t.threw \in BOOLEAN /\ (t.threw => asserts /\ max = 0 /\ t.frames = <<>>)
            /\ TraceShows(t.frames, u, skip, TRUE, LeastOf(u, skip, max),
                          MostOf(max, IF max = 0 THEN 1 ELSE 0))
<1> DEFINE s == stack_below(entry, u)
           d == Depth(entry)
           t == capture_with_unwind(s, Len(adds(entry)) + skip, max, asserts)
           beyond == IF max = 0 THEN 1 ELSE 0
<1>1. /\ Len(adds(entry)) + skip + 1 = d + skip /\ d \in Nat
      /\ Len(s) = d + Len(u) /\ Len(u) \in Nat /\ HardMax \in Nat /\ SizeMax \in Nat
  BY OwnFramesSkipped, StackBelow, UnwindAssumption DEF Depth
<1>2. CASE max = 0 /\ skip < Len(u)
  <2> DEFINE w == Window(s, d + skip, 1)
  <2>1. t = IF asserts THEN Threw ELSE Captured(before_call_only(w))
    BY <1>1, <1>2 DEF capture_with_unwind
  <2>2. CASE asserts
    <3>1. t.threw = TRUE /\ t.frames = <<>>
      <4> HIDE DEF t
      <4>1. t = Threw
        BY <2>1, <2>2
      <4> QED BY <4>1 DEF Threw
    <3>2. LeastOf(u, skip, max) \in Int /\ LeastOf(u, skip, max) <= 0
      BY <1>1, <1>2 DEF LeastOf, MinOf
    <3>3. MostOf(max, beyond) \in Int /\ 0 <= MostOf(max, beyond)
      BY <1>1, <1>2 DEF MostOf, MinOf
    <3>4. TraceShows(<<>>, u, skip, TRUE, LeastOf(u, skip, max), MostOf(max, beyond))
      BY <3>2, <3>3, NothingShown
    <3> QED BY <1>2, <2>2, <3>1, <3>4
  <2>3. CASE ~asserts
    <3>1. t.threw = FALSE /\ t.frames = before_call_only(w)
      BY <2>1, <2>3 DEF Captured
    <3>2. TraceShows(before_call_only(w), u, skip, TRUE, LengthFrom(u, skip, 1), LengthFrom(u, skip, 1))
      BY WindowShows
    <3>3. /\ LeastOf(u, skip, max) \in Int /\ MostOf(max, beyond) \in Int
          /\ LengthFrom(u, skip, 1) \in Int
          /\ LeastOf(u, skip, max) <= LengthFrom(u, skip, 1)
          /\ LengthFrom(u, skip, 1) <= MostOf(max, beyond)
      BY <1>1, <1>2 DEF LeastOf, MostOf, LengthFrom, MinOf
    <3>4. TraceShows(before_call_only(w), u, skip, TRUE, LeastOf(u, skip, max), MostOf(max, beyond))
      BY <3>2, <3>3, BoundsMayWiden
    <3> QED BY <3>1, <3>4
  <2> QED BY <2>2, <2>3
<1>3. CASE ~(max = 0 /\ skip < Len(u))
  <2> DEFINE w == Window(s, d + skip, max)
  <2>1. t = Captured(before_call_only(w))
    BY <1>1, <1>3 DEF capture_with_unwind
  <2>2. t.threw = FALSE /\ t.frames = before_call_only(w)
    BY <2>1 DEF Captured
  <2>3. TraceShows(before_call_only(w), u, skip, TRUE, LengthFrom(u, skip, max), LengthFrom(u, skip, max))
    BY WindowShows
  <2>4. /\ LeastOf(u, skip, max) \in Int /\ MostOf(max, beyond) \in Int
        /\ LengthFrom(u, skip, max) \in Int
        /\ LeastOf(u, skip, max) <= LengthFrom(u, skip, max)
        /\ LengthFrom(u, skip, max) <= MostOf(max, beyond)
    BY <1>1, <1>3 DEF LeastOf, MostOf, LengthFrom, MinOf
  <2>5. TraceShows(before_call_only(w), u, skip, TRUE, LeastOf(u, skip, max), MostOf(max, beyond))
    BY <2>3, <2>4, BoundsMayWiden
  <2> QED BY <2>2, <2>5
<1> QED BY <1>2, <1>3

\* libunwind and dbghelp, and winapi, whose limit is larger by more.
LEMMA PlainWindowShows ==
  ASSUME NEW entry, NEW u \in Seq(Frames), NEW skip \in Nat, NEW max \in Nat, NEW max_depth \in Nat,
         NEW beyond \in Nat, Len(u) <= SizeMax, MinOf(max_depth, HardMax) <= max, max <= max_depth + beyond
  PROVE  TraceShows(before_call(Window(stack_below(entry, u), Depth(entry) + skip, max)), u, skip, FALSE,
                    LeastOf(u, skip, max_depth), MostOf(max_depth, beyond))
<1>1. Len(u) \in Nat /\ HardMax \in Nat /\ SizeMax \in Nat
  BY UnwindAssumption
<1>2. TraceShows(before_call(Window(stack_below(entry, u), Depth(entry) + skip, max)), u, skip, FALSE,
                 LengthFrom(u, skip, max), LengthFrom(u, skip, max))
  BY WindowShows
<1>3. /\ LeastOf(u, skip, max_depth) \in Int /\ MostOf(max_depth, beyond) \in Int
      /\ LengthFrom(u, skip, max) \in Int
      /\ LeastOf(u, skip, max_depth) <= LengthFrom(u, skip, max)
      /\ LengthFrom(u, skip, max) <= MostOf(max_depth, beyond)
  BY <1>1 DEF LeastOf, MostOf, LengthFrom, MinOf
<1> QED BY <1>2, <1>3, BoundsMayWiden

LEMMA ExecinfoShows ==
  ASSUME NEW entry, NEW u \in Seq(Frames), NEW skip \in Nat, NEW max \in Nat, Len(u) <= SizeMax
  PROVE  LET t == capture_with_execinfo(stack_below(entry, u), Len(adds(entry)) + skip, max)
         IN /\ t.threw \in BOOLEAN /\ (t.threw => skip > Len(u) /\ t.frames = <<>>)
            /\ TraceShows(t.frames, u, skip, FALSE, LeastOf(u, skip, max), MostOf(max, 0))
<1> DEFINE s == stack_below(entry, u)
           d == Depth(entry)
           k == MinOf(HardMax, max)
           addrs == Window(s, 0, d + skip + k)
           w == Window(addrs, d + skip, Len(addrs))
           t == capture_with_execinfo(s, Len(adds(entry)) + skip, max)
<1>0. k \in Nat /\ HardMax \in Nat /\ SizeMax \in Nat
  BY UnwindAssumption DEF MinOf
<1>1. /\ Len(adds(entry)) + skip + 1 = d + skip /\ d \in Nat \ {0} /\ s \in Seq(Frames)
      /\ Len(s) = d + Len(u) /\ Len(u) \in Nat /\ HardMax \in Nat /\ SizeMax \in Nat /\ k \in Nat
      /\ \A i \in 1 .. Len(u) : s[d + i] = u[i]
  <2>0. Len(u) \in Nat
    OBVIOUS
  <2>1. Len(adds(entry)) \in 1 .. 3
    <3> HIDE DEF d, s, k
    <3> QED BY OwnFramesSkipped, Zenon
  <2>2. d = Len(adds(entry)) + 1
    BY DEF Depth
  <2>3. /\ s \in Seq(Frames) /\ Len(s) = d + Len(u)
        /\ \A i \in 1 .. Len(u) : s[d + i] = u[i]
    BY StackBelow
  <2> HIDE DEF d, s, k
  <2> QED BY <1>0, <2>0, <2>1, <2>2, <2>3
<1>2. t = IF Len(addrs) < d + skip THEN Threw ELSE Captured(before_call(w))
  BY <1>1 DEF capture_with_execinfo
<1> HIDE DEF d, s
<1>3. /\ addrs \in Seq(Frames)
      /\ Len(addrs) = MinOf(d + skip + k, d + Len(u))
      /\ \A i \in 1 .. Len(addrs) : addrs[i] = s[i]
  <2>1. d + skip + k \in Nat /\ 0 \in Nat
    BY <1>1
  <2>2. /\ addrs \in Seq(Frames)
        /\ Len(addrs) = IF 0 < Len(s) THEN MinOf(d + skip + k, Len(s) - 0) ELSE 0
        /\ \A i \in 1 .. Len(addrs) : addrs[i] = s[0 + i]
    <3>1. s \in Seq(Frames)
      BY <1>1
    <3>2. IsWindow(addrs, Frames, s, 0, d + skip + k)
      BY <2>1, <3>1, WindowIs
    <3> HIDE DEF addrs, k
    <3> QED BY <3>2 DEF IsWindow
  <2>3. 0 < Len(s) /\ Len(s) - 0 = d + Len(u)
    BY <1>1
  <2> HIDE DEF addrs, k
  <2> QED BY <2>2, <2>3
<1>4. Len(addrs) \in Nat
  BY <1>3
<1> HIDE DEF addrs
<1>5. CASE Len(addrs) < d + skip
  <2>1. t.threw = TRUE /\ t.frames = <<>>
    BY <1>2, <1>5 DEF Threw
  <2>2. skip > Len(u)
    BY <1>1, <1>3, <1>5 DEF MinOf
  <2>3. /\ LeastOf(u, skip, max) \in Int /\ LeastOf(u, skip, max) <= 0
        /\ MostOf(max, 0) \in Int /\ 0 <= MostOf(max, 0)
    BY <1>1, <2>2 DEF LeastOf, MostOf, MinOf
  <2>4. TraceShows(<<>>, u, skip, FALSE, LeastOf(u, skip, max), MostOf(max, 0))
    BY <2>3, NothingShown
  <2> QED BY <2>1, <2>2, <2>4 DEF s
<1>6. CASE ~(Len(addrs) < d + skip)
  <2> DEFINE length == LengthFrom(u, skip, k)
  <2>0. length \in Nat /\ (length = 0 \/ skip + length <= Len(u))
    BY <1>1 DEF LengthFrom, MinOf
  <2>1. t.threw = FALSE /\ t.frames = before_call(w)
    BY <1>2, <1>6 DEF Captured
  <2>2. /\ w \in Seq(Frames)
        /\ Len(w) = IF d + skip < Len(addrs) THEN MinOf(Len(addrs), Len(addrs) - (d + skip)) ELSE 0
        /\ \A i \in 1 .. Len(w) : w[i] = addrs[d + skip + i]
    <3>1. d + skip \in Nat
      BY <1>1
    <3>2. IsWindow(w, Frames, addrs, d + skip, Len(addrs))
      BY <1>3, <1>4, <3>1, WindowIs
    <3> HIDE DEF w
    <3> QED BY <3>2 DEF IsWindow
  <2>3. Len(w) = length
    BY <1>1, <1>3, <1>6, <2>2 DEF LengthFrom, MinOf
  <2>4. ASSUME NEW i \in 1 .. length PROVE w[i] = u[skip + i]
    <3>1. skip + i \in 1 .. Len(u) /\ d + skip + i \in 1 .. Len(addrs)
      BY <1>1, <1>3, <1>6 DEF LengthFrom, MinOf
    <3>2. w[i] = addrs[d + skip + i] /\ addrs[d + skip + i] = s[d + skip + i]
      <4> HIDE DEF w, length
      <4>1. w[i] = addrs[d + skip + i]
        BY <2>2, <2>3
      <4>2. addrs[d + skip + i] = s[d + skip + i]
        BY <1>3, <3>1
      <4> QED BY <4>1, <4>2
    <3>3. s[d + (skip + i)] = u[skip + i]
      BY <1>1, <3>1
    <3>4. d + skip + i = d + (skip + i)
      BY <1>1
    <3> QED BY <3>2, <3>3, <3>4
  <2> HIDE DEF w, length
  <2>5. Stretch(w, u, skip, length)
    BY <2>2, <2>3, <2>4 DEF Stretch
  <2>6. Shown(before_call(w), u, skip, length, FALSE)
    BY <2>0, <2>5, BeforeCall
  <2>7. LeastOf(u, skip, max) <= length /\ length <= MostOf(max, 0)
    BY <1>1 DEF LeastOf, MostOf, LengthFrom, MinOf, length
  <2>8. TraceShows(before_call(w), u, skip, FALSE, LeastOf(u, skip, max), MostOf(max, 0))
    BY <2>0, <2>6, <2>7 DEF TraceShows
  <2> QED BY <2>1, <2>8 DEF s
<1> QED BY <1>5, <1>6
-----------------------------------------------------------------------------
BuildType == build \in Builds /\ user \in UserStacks

UserFacts == user \in Seq(Frames) /\ Len(user) <= SizeMax

LEMMA UserIsStack == ASSUME BuildType PROVE UserFacts
BY UnwindAssumption DEF BuildType, UserFacts, Frames

\* The frames of the library a limit on Windows includes, and what _Unwind gives
\* with a limit of zero.
BeyondOf(call) ==
  CASE build.back_end = "winapi" -> call.skip + Len(adds(call.entry))
    [] build.back_end = "unwind" /\ call.max_depth = 0 -> 1
    [] OTHER -> 0

KnowsSignals == build.back_end = "unwind"

MayThrow(call) ==
  \/ build.back_end = "execinfo" /\ call.skip > Len(user)
  \/ build.back_end = "unwind" /\ build.asserts /\ call.max_depth = 0

\* What is taken shows the program's frames, with whatever back-end.
LEMMA TakenShows ==
  ASSUME BuildType, NEW call, call.skip \in Nat, call.max_depth \in Nat,
         call.entry # "ctrace_safe_generate_raw_trace"
  PROVE  /\ taken(call).threw \in BOOLEAN
         /\ taken(call).threw => MayThrow(call) /\ taken(call).frames = <<>>
         /\ \E least \in Int :
              /\ build.back_end # "nothing" => least = LeastOf(user, call.skip, call.max_depth)
              /\ TraceShows(taken(call).frames, user, call.skip, KnowsSignals, least,
                            MostOf(call.max_depth, BeyondOf(call)))
<1> DEFINE entry == call.entry
           skip == call.skip
           max == call.max_depth
           s == stack_below(entry, user)
           a == Len(adds(entry))
           t == taken(call)
           least == LeastOf(user, skip, max)
           most == MostOf(max, BeyondOf(call))
           knows == KnowsSignals
<1>1. /\ user \in Seq(Frames) /\ Len(user) <= SizeMax /\ Len(user) \in Nat
      /\ skip \in Nat /\ max \in Nat /\ a \in Nat /\ skipped(entry, skip) = a + skip
      /\ HardMax \in Nat /\ SizeMax \in Nat /\ (a + skip) + 1 = Depth(entry) + skip
  BY UserIsStack, OwnFramesSkipped, UnwindAssumption DEF UserFacts, Depth
<1>2. build.asserts \in BOOLEAN
      /\ build.back_end \in {"unwind", "libunwind", "execinfo", "winapi", "dbghelp", "nothing"}
  BY UnwindAssumption, CInterfaceAssumption DEF BuildType
<1>3. least \in Int
  BY <1>1 DEF LeastOf, MinOf
<1>4. t = capture_frames(build.back_end, build.asserts, s, a + skip, max)
  BY <1>1 DEF taken, generate
<1> SUFFICES /\ t.threw \in BOOLEAN
             /\ t.threw => MayThrow(call) /\ t.frames = <<>>
             /\ \E l \in Int : /\ build.back_end # "nothing" => l = least
                               /\ TraceShows(t.frames, user, skip, knows, l, most)
  OBVIOUS
<1> HIDE DEF t, s, a
<1>5. CASE build.back_end = "unwind"
  <2>1. t = capture_with_unwind(s, a + skip, max, build.asserts)
    BY <1>4, <1>5 DEF capture_frames
  <2>2. most = MostOf(max, IF max = 0 THEN 1 ELSE 0)
    BY <1>5 DEF BeyondOf
  <2>3. knows = TRUE
    BY <1>5 DEF KnowsSignals
  <2>4. /\ t.threw \in BOOLEAN /\ (t.threw => build.asserts /\ max = 0 /\ t.frames = <<>>)
        /\ TraceShows(t.frames, user, skip, TRUE, least, MostOf(max, IF max = 0 THEN 1 ELSE 0))
    BY <1>1, <1>2, <2>1, UnwindShows DEF s, a
  <2>5. t.threw => MayThrow(call)
    BY <1>5, <2>4 DEF MayThrow
  <2> HIDE DEF least, most, knows
  <2> QED BY <1>3, <2>2, <2>3, <2>4, <2>5
<1>6. CASE build.back_end = "execinfo"
  <2>1. t = capture_with_execinfo(s, a + skip, max)
    BY <1>4, <1>6 DEF capture_frames
  <2>2. most = MostOf(max, 0)
    BY <1>6 DEF BeyondOf
  <2>3. knows = FALSE
    BY <1>6 DEF KnowsSignals
  <2>4. /\ t.threw \in BOOLEAN /\ (t.threw => skip > Len(user) /\ t.frames = <<>>)
        /\ TraceShows(t.frames, user, skip, FALSE, least, MostOf(max, 0))
    BY <1>1, <2>1, ExecinfoShows DEF s, a
  <2>5. t.threw => MayThrow(call)
    BY <1>6, <2>4 DEF MayThrow
  <2> HIDE DEF least, most, knows
  <2> QED BY <1>3, <2>2, <2>3, <2>4, <2>5
<1>7. CASE build.back_end = "winapi"
  <2> DEFINE m == a + skip + MinOf(HardMax, max)
             b == skip + a
             w == Window(s, Depth(entry) + skip, m)
  <2>1. t = Captured(before_call(w))
    <3>1. t = capture_with_winapi(s, a + skip, max)
      BY <1>4, <1>7 DEF capture_frames
    <3> QED BY <1>1, <3>1 DEF capture_with_winapi
  <2>2. most = MostOf(max, b)
    BY <1>7 DEF BeyondOf, a
  <2>3. knows = FALSE
    BY <1>7 DEF KnowsSignals
  <2>4. m \in Nat /\ b \in Nat /\ MinOf(max, HardMax) <= m /\ m <= max + b
    <3>1. skip \in Nat /\ max \in Nat /\ a \in Nat /\ HardMax \in Nat
      BY <1>1
    <3> HIDE DEF skip, max
    <3> QED BY <3>1 DEF MinOf
  <2>5. TraceShows(before_call(w), user, skip, FALSE, least, MostOf(max, b))
    <3> HIDE DEF m, b
    <3> QED BY <1>1, <2>4, PlainWindowShows DEF s
  <2>6. t.threw = FALSE /\ t.frames = before_call(w)
    BY <2>1 DEF Captured
  <2> HIDE DEF least, most, knows, w, b
  <2> QED BY <1>3, <2>2, <2>3, <2>5, <2>6
<1>8. CASE build.back_end \in {"libunwind", "dbghelp"}
  <2> DEFINE w == Window(s, Depth(entry) + skip, max)
  <2>1. t = Captured(before_call(w))
    <3>1. t = capture_with_libunwind(s, a + skip, max) \/ t = capture_with_dbghelp(s, a + skip, max)
      BY <1>4, <1>8 DEF capture_frames
    <3> QED BY <1>1, <3>1 DEF capture_with_libunwind, capture_with_dbghelp
  <2>2. most = MostOf(max, 0)
    BY <1>8 DEF BeyondOf
  <2>3. knows = FALSE
    BY <1>8 DEF KnowsSignals
  <2>4. MinOf(max, HardMax) <= max /\ max <= max + 0
    BY <1>1 DEF MinOf
  <2>5. TraceShows(before_call(w), user, skip, FALSE, least, MostOf(max, 0))
    <3>1. 0 \in Nat
      OBVIOUS
    <3> QED BY <1>1, <2>4, <3>1, PlainWindowShows DEF s
  <2>6. t.threw = FALSE /\ t.frames = before_call(w)
    BY <2>1 DEF Captured
  <2> HIDE DEF least, most, knows, w
  <2> QED BY <1>3, <2>2, <2>3, <2>5, <2>6
<1>9. CASE build.back_end = "nothing"
  <2>1. t.threw = FALSE /\ t.frames = <<>>
    <3>1. t = Captured(<<>>)
      BY <1>4, <1>9 DEF capture_frames
    <3> QED BY <3>1 DEF Captured
  <2>2. BeyondOf(call) = 0
    BY <1>9 DEF BeyondOf
  <2>3. most \in Int /\ 0 <= most
    BY <1>1, <2>2 DEF MostOf, MinOf
  <2>4. TraceShows(<<>>, user, skip, knows, 0, most)
    <3> HIDE DEF most, knows
    <3>1. 0 \in Int /\ 0 <= 0
      OBVIOUS
    <3> QED BY <1>1, <2>3, <3>1, NothingShown
  <2> HIDE DEF least, most, knows
  <2>5. 0 \in Int
    OBVIOUS
  <2> QED BY <1>9, <2>1, <2>4, <2>5
<1> QED BY <1>2, <1>5, <1>6, <1>7, <1>8, <1>9
\* A window that starts with so many frames of the library, without these.
LEMMA WindowCutShows ==
  ASSUME NEW entry, NEW u \in Seq(Frames), Len(u) <= SizeMax, NEW own \in 0 .. 1, NEW first \in Nat,
         NEW room \in Nat, NEW n \in Nat, n + own = Depth(entry) + first, own = 1 => first = 0,
         NEW limit \in Nat, limit = IF room < own THEN 0 ELSE room - own,
         NEW pcs, pcs = before_call_only(Window(stack_below(entry, u), n, room))
  PROVE  TraceShows(SubSeq(pcs, own + 1, Len(pcs)), u, first, TRUE,
                    LeastOf(u, first, limit), MostOf(limit, 0))
<1> DEFINE s == stack_below(entry, u)
           d == Depth(entry)
           w == Window(s, n, room)
           m == Len(w)
           frames == SubSeq(pcs, own + 1, Len(pcs))
           length == LengthFrom(u, first, limit)
<1>1. Len(u) \in Nat /\ HardMax \in Nat /\ SizeMax \in Nat /\ d \in Nat
  BY UnwindAssumption, OwnFramesSkipped DEF Depth
<1>2. /\ s \in Seq(Frames) /\ Len(s) = d + Len(u)
      /\ \A i \in 1 .. Len(u) : s[d + i] = u[i]
  BY StackBelow
<1> HIDE DEF s
<1>3. /\ w \in Seq(Frames)
      /\ m = IF n < Len(s) THEN MinOf(room, Len(s) - n) ELSE 0
      /\ \A i \in 1 .. m : w[i] = s[n + i]
  <2>1. IsWindow(w, Frames, s, n, room)
    BY <1>2, WindowIs
  <2> HIDE DEF w
  <2> QED BY <2>1 DEF IsWindow
<1>4. length \in Nat /\ (length = 0 \/ first + length <= Len(u))
  BY <1>1 DEF LengthFrom, MinOf
<1>5. m \in Nat /\ length = IF m < own THEN 0 ELSE m - own
  <2>1. m \in Nat
    BY <1>3
  <2>2. n < Len(s) <=> first < Len(u) + own
    BY <1>1, <1>2
  <2>3. Len(s) - n = Len(u) + own - first
    BY <1>1, <1>2
  <2>4. m = IF first < Len(u) + own THEN MinOf(room, Len(u) + own - first) ELSE 0
    BY <1>3, <2>2, <2>3
  <2> HIDE DEF m
  <2>5. CASE first < Len(u)
    BY <1>1, <2>1, <2>4, <2>5 DEF LengthFrom, MinOf
  <2>6. CASE ~(first < Len(u))
    BY <1>1, <2>1, <2>4, <2>6 DEF LengthFrom, MinOf
  <2> QED BY <2>5, <2>6
<1>6. LeastOf(u, first, limit) <= length /\ length <= MostOf(limit, 0)
  BY <1>1 DEF LeastOf, MostOf, LengthFrom, MinOf
<1>7. Shown(pcs, s, n, m, TRUE)
  <2>1. Stretch(w, s, n, m)
    BY <1>3 DEF Stretch
  <2> HIDE DEF w, m
  <2> QED BY <1>5, <2>1, BeforeCall DEF s, w
<1> HIDE DEF w, m, length, d
<1>8. pcs \in Seq(Nat) /\ Len(pcs) = m
  BY <1>7 DEF Shown
<1>9. frames \in Seq(Nat) /\ Len(frames) = length /\ DOMAIN frames = 1 .. length
      /\ \A i \in 1 .. length : frames[i] = pcs[own + i]
  <2>1. CASE m < own
    <3>1. frames = <<>> /\ length = 0
      BY <1>5, <1>8, <2>1, SubSeqEmpty
    <3> HIDE DEF frames
    <3> QED BY <3>1
  <2>2. CASE m >= own
    <3> HIDE DEF frames
    <3>1. \A i \in own + 1 .. m : pcs[i] \in Nat
      BY <1>5, <1>8
    <3>2. /\ frames \in Seq(Nat)
          /\ Len(frames) = IF own + 1 <= m THEN m - (own + 1) + 1 ELSE 0
          /\ \A i \in 1 .. m - (own + 1) + 1 : frames[i] = pcs[own + 1 + i - 1]
      BY <1>5, <1>8, <3>1, SubSeqProperties DEF frames
    <3>3. length = m - own /\ m - (own + 1) + 1 = length
      BY <1>5, <2>2
    <3>4. Len(frames) = length /\ DOMAIN frames = 1 .. length
      <4>1. Len(frames) = length
        BY <1>4, <1>5, <2>2, <3>2, <3>3
      <4>2. DOMAIN frames = 1 .. Len(frames)
        BY <3>2
      <4> QED BY <4>1, <4>2
    <3>5. ASSUME NEW i \in 1 .. length PROVE frames[i] = pcs[own + i]
      <4>1. own + 1 + i - 1 = own + i
        BY <1>4
      <4> QED BY <3>2, <3>3, <4>1
    <3> QED BY <3>2, <3>4, <3>5
  <2> QED BY <1>5, <2>1, <2>2
<1> HIDE DEF frames
<1>10. ASSUME NEW i \in 1 .. length PROVE frames[i] = AddressOf(u[first + i], TRUE)
  <2>1. own + i \in 1 .. m /\ first + i \in 1 .. Len(u)
    BY <1>1, <1>4, <1>5
  <2>2. pcs[own + i] = AddressOf(s[n + (own + i)], TRUE)
    BY <1>7, <2>1 DEF Shown
  <2>3. s[d + (first + i)] = u[first + i]
    BY <1>2, <2>1
  <2>4. n + (own + i) = d + (first + i)
    BY <1>1, <1>4 DEF d
  <2> QED BY <1>9, <2>2, <2>3, <2>4
<1>11. Shown(frames, u, first, length, TRUE)
  BY <1>9, <1>10 DEF Shown
<1>12. TraceShows(frames, u, first, TRUE, LeastOf(u, first, limit), MostOf(limit, 0))
  BY <1>4, <1>6, <1>11 DEF TraceShows
<1> QED BY <1>12 DEF frames

\* Of the first frames of a trace taken in a signal handler, one may be
\* ctrace_safe_generate_raw_trace.
OwnOf(call) == IF call.entry = "ctrace_safe_generate_raw_trace" /\ call.skip = 0 THEN 1 ELSE 0
FirstOf(call) ==
  IF call.entry = "ctrace_safe_generate_raw_trace" /\ call.skip > 0 THEN call.skip - 1 ELSE call.skip
SafeLimit(call, size) ==
  LET room == MinOf(call.max_depth, size)
  IN IF room < OwnOf(call) THEN 0 ELSE room - OwnOf(call)

LEMMA SafelyTakenShows ==
  ASSUME BuildType, NEW call, call.skip \in Nat, call.max_depth \in Nat, NEW size \in Nat, NEW pcs,
         pcs = safe_capture_frames(build.back_end, stack_below(call.entry, user), size,
                                   skipped(call.entry, call.skip), call.max_depth)
  PROVE  \E least \in Int :
           /\ build.back_end = "libunwind" => least = LeastOf(user, FirstOf(call), SafeLimit(call, size))
           /\ TraceShows(SubSeq(pcs, OwnOf(call) + 1, Len(pcs)), user, FirstOf(call), TRUE, least,
                         MostOf(SafeLimit(call, size), 0))
<1> DEFINE d == Depth(call.entry)
           skip == call.skip
           own == OwnOf(call)
           first == FirstOf(call)
           room == MinOf(call.max_depth, size)
           limit == SafeLimit(call, size)
           frames == SubSeq(pcs, own + 1, Len(pcs))
           least == LeastOf(user, first, limit)
           most == MostOf(limit, 0)
<1>1. /\ user \in Seq(Frames) /\ Len(user) <= SizeMax /\ Len(user) \in Nat
      /\ HardMax \in Nat /\ SizeMax \in Nat /\ d \in Nat
  BY UserIsStack, UnwindAssumption, OwnFramesSkipped DEF UserFacts, Depth
<1>2. /\ first \in Nat /\ own \in 0 .. 1 /\ d + first - own \in Nat
      /\ skipped(call.entry, skip) + 1 = d + first - own
      /\ own = 1 => first = 0
  <2>1. CASE call.entry = "ctrace_safe_generate_raw_trace"
    <3>1. d = 3 /\ skipped(call.entry, skip) = skip + 1
      <4>1. Len(adds(call.entry)) = 2 /\ skipped(call.entry, skip) = skip + 1
        BY <2>1, OwnFramesSkipped
      <4> QED BY <4>1 DEF Depth
    <3>2. own = (IF skip = 0 THEN 1 ELSE 0) /\ first = (IF skip > 0 THEN skip - 1 ELSE skip)
      BY <2>1 DEF OwnOf, FirstOf
    <3> HIDE DEF d, own, first
    <3> QED BY <3>1, <3>2
  <2>2. CASE call.entry # "ctrace_safe_generate_raw_trace"
    <3>1. skipped(call.entry, skip) + 1 = d + skip
      BY <2>2, OwnFramesSkipped DEF Depth
    <3>2. own = 0 /\ first = skip
      BY <2>2 DEF OwnOf, FirstOf
    <3> HIDE DEF d, own, first
    <3> QED BY <1>1, <3>1, <3>2
  <2> QED BY <2>1, <2>2
<1>3. room \in Nat /\ limit \in Nat /\ limit = IF room < own THEN 0 ELSE room - own
  <2>1. room \in Nat
    BY DEF MinOf
  <2>2. limit = IF room < own THEN 0 ELSE room - own
    BY DEF SafeLimit
  <2> HIDE DEF room, limit, own
  <2> QED BY <1>2, <2>1, <2>2
<1>4. least \in Int /\ most \in Int /\ 0 <= most
  <2> HIDE DEF limit, first
  <2> QED BY <1>1, <1>2, <1>3 DEF LeastOf, MostOf, MinOf
<1> SUFFICES \E l \in Int : /\ build.back_end = "libunwind" => l = least
                            /\ TraceShows(frames, user, first, TRUE, l, most)
  OBVIOUS
<1>5. CASE build.back_end # "libunwind"
  <2>1. pcs = <<>>
    BY <1>5 DEF safe_capture_frames
  <2>2. frames = <<>>
    <3>1. Len(<<>>) = 0 /\ own + 1 > 0
      BY <1>2
    <3> QED BY <1>2, <2>1, <3>1, SubSeqEmpty
  <2>3. TraceShows(<<>>, user, first, TRUE, 0, most)
    <3>1. 0 \in Int /\ 0 <= 0
      OBVIOUS
    <3> HIDE DEF most, first
    <3> QED BY <1>1, <1>2, <1>4, <3>1, NothingShown
  <2>4. 0 \in Int
    OBVIOUS
  <2> HIDE DEF frames, most, first, least
  <2> QED BY <1>5, <2>2, <2>3, <2>4
<1>6. CASE build.back_end = "libunwind"
  <2> DEFINE n == d + first - own
  <2>1. pcs = before_call_only(Window(stack_below(call.entry, user), n, room))
    <3>1. MinOf(size, call.max_depth) = room
      BY DEF MinOf
    <3> QED BY <1>2, <1>6, <3>1 DEF safe_capture_frames
  <2>2. n + own = d + first /\ n \in Nat
    <3> HIDE DEF d, first, own
    <3> QED BY <1>1, <1>2
  <2>3. TraceShows(frames, user, first, TRUE, least, most)
    <3> HIDE DEF n, first, own, limit, room
    <3> QED BY <1>1, <1>2, <1>3, <2>1, <2>2, WindowCutShows
  <2> HIDE DEF least, most, frames, first
  <2> QED BY <1>4, <2>3
<1> QED BY <1>5, <1>6
\* What TraceShows says, as TraceIsUserStack does.
LEMMA ShownFrames ==
  ASSUME NEW pcs, NEW u, NEW first, NEW knows \in BOOLEAN, NEW least \in Int, NEW most \in Int,
         TraceShows(pcs, u, first, knows, least, most)
  PROVE  /\ pcs \in Seq(Nat) /\ Len(pcs) \in Nat
         /\ \A i \in DOMAIN pcs :
              pcs[i] = IF u[first + i].signal /\ knows THEN u[first + i].ip ELSE u[first + i].ip - 1
         /\ least <= Len(pcs) /\ Len(pcs) <= most
<1>1. PICK length \in Nat : /\ Shown(pcs, u, first, length, knows)
                            /\ least <= length /\ length <= most
  BY DEF TraceShows
<1>2. pcs \in Seq(Nat) /\ Len(pcs) = length /\ DOMAIN pcs = 1 .. length
  BY <1>1 DEF Shown
<1>3. ASSUME NEW i \in 1 .. length
      PROVE  pcs[i] = IF u[first + i].signal /\ knows THEN u[first + i].ip ELSE u[first + i].ip - 1
  BY <1>1 DEF Shown, AddressOf
<1> QED BY <1>1, <1>2, <1>3

LEMMA TakeIsRight ==
  ASSUME BuildType, NEW call \in Calls, ~Safe(call.entry), take(call)
  PROVE  TraceIsUserStack'
<1> DEFINE pcs == taken(call).frames
           first == call.skip
           knows == KnowsSignals
           most == MostOf(call.max_depth, BeyondOf(call))
<1>1. call.skip \in Nat /\ call.max_depth \in Nat
  BY CInterfaceAssumption
<1>2. call.entry # "ctrace_safe_generate_raw_trace"
  BY DEF Safe
<1>3. /\ taken(call).threw => MayThrow(call)
      /\ \E least \in Int :
           /\ build.back_end # "nothing" => least = LeastOf(user, call.skip, call.max_depth)
           /\ TraceShows(pcs, user, call.skip, knows, least, most)
  BY <1>1, <1>2, TakenShows
<1>4. PICK least \in Int :
        /\ build.back_end # "nothing" => least = LeastOf(user, first, call.max_depth)
        /\ TraceShows(pcs, user, first, knows, least, most)
  BY <1>3
<1>5. most \in Int /\ knows \in BOOLEAN
  <2>1. SizeMax \in Nat /\ Len(adds(call.entry)) \in Nat
    BY UnwindAssumption, OwnFramesSkipped
  <2>2. BeyondOf(call) \in Nat
    BY <1>1, <2>1 DEF BeyondOf
  <2> QED BY <1>1, <2>1, <2>2 DEF MostOf, MinOf, KnowsSignals
<1>6. /\ last'.op = "take" /\ last'.call = call /\ last'.frames = pcs
      /\ last'.threw => taken(call).threw
      /\ build' = build /\ user' = user
  <2>1. PICK absorbed \in BOOLEAN :
          last' = [op |-> "take", call |-> call, frames |-> pcs,
                   threw |-> taken(call).threw /\ ~absorbed /\ call.entry # "ctrace_generate_trace"]
    BY DEF take
  <2>2. build' = build /\ user' = user
    BY DEF take
  <2> HIDE DEF pcs
  <2> QED BY <2>1, <2>2
<1> HIDE DEF pcs, knows, most
<1>7. /\ pcs \in Seq(Nat) /\ Len(pcs) \in Nat
      /\ \A i \in DOMAIN pcs :
           pcs[i] = IF user[first + i].signal /\ knows THEN user[first + i].ip ELSE user[first + i].ip - 1
      /\ least <= Len(pcs) /\ Len(pcs) <= most
  BY <1>4, <1>5, ShownFrames
<1>8. SubSeq(pcs, 0 + 1, Len(pcs)) = pcs
  BY <1>7, SubSeqFull
<1>9. last'.threw => \/ build.back_end = "execinfo" /\ call.skip > Len(user)
                     \/ build.back_end = "unwind" /\ build.asserts /\ call.max_depth = 0
  BY <1>3, <1>6 DEF MayThrow
<1>10. build.back_end # "nothing" =>
         Len(pcs) >= MinOf(Len(user) - call.skip, MinOf(call.max_depth, HardMax))
  <2>1. HardMax \in Nat /\ Len(user) \in Nat
    BY UserIsStack, UnwindAssumption DEF UserFacts
  <2> QED BY <1>1, <1>4, <1>7, <2>1 DEF LeastOf, MinOf
<1> QED BY <1>2, <1>6, <1>7, <1>8, <1>9, <1>10
        DEF TraceIsUserStack, knows, KnowsSignals, most, MostOf, BeyondOf
LEMMA TakeSafelyIsRight ==
  ASSUME BuildType, NEW call \in Calls, NEW size \in Sizes, Safe(call.entry), take_safely(call, size)
  PROVE  TraceIsUserStack'
<1> DEFINE pcs == safe_capture_frames(build.back_end, stack_below(call.entry, user), size,
                                      skipped(call.entry, call.skip), call.max_depth)
           own == OwnOf(call)
           first == FirstOf(call)
           limit == SafeLimit(call, size)
           frames == SubSeq(pcs, own + 1, Len(pcs))
           most == MostOf(limit, 0)
<1>1. call.skip \in Nat /\ call.max_depth \in Nat /\ size \in Nat
  BY CInterfaceAssumption
<1>2. PICK least \in Int :
        /\ build.back_end = "libunwind" => least = LeastOf(user, first, limit)
        /\ TraceShows(frames, user, first, TRUE, least, most)
  BY <1>1, SafelyTakenShows
<1>3. /\ last'.op = "take safely" /\ last'.call = call /\ last'.size = size /\ last'.frames = pcs
      /\ last'.threw = FALSE
      /\ build' = build /\ user' = user
  <2>1. last' = [op |-> "take safely", call |-> call, size |-> size, frames |-> pcs, threw |-> FALSE]
    BY DEF take_safely
  <2>2. build' = build /\ user' = user
    BY DEF take_safely
  <2> HIDE DEF pcs
  <2> QED BY <2>1, <2>2
<1> HIDE DEF pcs
<1>4. own \in Nat /\ limit \in Nat /\ first \in Nat /\ most \in Int /\ SizeMax \in Nat
  <2>1. own \in Nat /\ first \in Nat
    BY <1>1 DEF OwnOf, FirstOf
  <2>2. MinOf(call.max_depth, size) \in Nat
    BY <1>1 DEF MinOf
  <2>3. limit \in Nat
    <3> HIDE DEF own
    <3> QED BY <2>1, <2>2 DEF SafeLimit, own
  <2> HIDE DEF limit
  <2> QED BY <2>1, <2>3, UnwindAssumption DEF MostOf, MinOf
<1> HIDE DEF frames, own, first, limit, most
<1>5. /\ frames \in Seq(Nat) /\ Len(frames) \in Nat
      /\ \A i \in DOMAIN frames :
           frames[i] = IF user[first + i].signal /\ TRUE THEN user[first + i].ip ELSE user[first + i].ip - 1
      /\ least <= Len(frames) /\ Len(frames) <= most
  BY <1>2, <1>4, ShownFrames
<1>6. build.back_end = "libunwind" => Len(frames) >= MinOf(Len(user) - first, MinOf(limit, HardMax))
  <2>1. HardMax \in Nat /\ Len(user) \in Nat
    BY UserIsStack, UnwindAssumption DEF UserFacts
  <2> QED BY <1>2, <1>4, <1>5, <2>1 DEF LeastOf, MinOf
<1> DEFINE beyond == CASE build.back_end = "winapi" -> call.skip + Len(adds(call.entry))
                       [] build.back_end = "unwind" /\ limit = 0 -> 1
                       [] OTHER -> 0
<1>7. Len(frames) <= MinOf(limit, SizeMax - beyond) + beyond
  <2>1. beyond \in Nat
    BY <1>1, OwnFramesSkipped
  <2> HIDE DEF beyond
  <2> QED BY <1>4, <1>5, <2>1 DEF most, MostOf, MinOf
<1>8. DOMAIN frames = 1 .. Len(frames) /\ first = FirstOf(call) /\ own = OwnOf(call)
  BY <1>5 DEF first, own
<1>9. frames = SubSeq(last'.frames, own + 1, Len(last'.frames))
  BY <1>3 DEF frames
<1>10. limit = LET room == MinOf(call.max_depth, last'.size)
               IN IF room < own THEN 0 ELSE room - own
  BY <1>3 DEF limit, SafeLimit, own
<1> HIDE DEF frames, own, first, limit, most
<1>11. /\ own = IF call.entry = "ctrace_safe_generate_raw_trace" /\ call.skip = 0 THEN 1 ELSE 0
       /\ first = IF call.entry = "ctrace_safe_generate_raw_trace" /\ call.skip > 0
                  THEN call.skip - 1 ELSE call.skip
  BY DEF own, OwnOf, first, FirstOf
<1> QED BY <1>3, <1>5, <1>6, <1>7, <1>9, <1>10, <1>11 DEF TraceIsUserStack
\* The steps, one by one.
LEMMA Steps ==
  ASSUME Next
  PROVE  \/ \E call \in Calls : ~Safe(call.entry) /\ take(call)
         \/ \E call \in Calls, size \in Sizes : Safe(call.entry) /\ take_safely(call, size)
         \/ \E pc \in DOMAIN Resolved : safe_object_frame(pc)
         \/ \E slot \in Slots : generate_in(slot)
         \/ \E slot \in Slots, from \in DOMAIN client : ctrace_resolve(slot, from)
         \/ \E slot \in Slots, from \in DOMAIN client : ctrace_stacktrace_to_string(slot, from)
         \/ \E slot \in DOMAIN client : ctrace_free(slot)
         \/ \E slot \in DOMAIN client : forget(slot)
         \/ \E slot \in DOMAIN client : ctrace_print_stacktrace(slot)
         \/ go_on \/ load \/ unload
BY DEF Next

\* Most steps leave last as it is.
LastKept == UNCHANGED <<build, user, last>>

LEMMA LastIsKept ==
  ASSUME \/ \E slot \in Slots : generate_in(slot)
         \/ \E slot \in Slots, from \in DOMAIN client : ctrace_resolve(slot, from)
         \/ \E slot \in Slots, from \in DOMAIN client : ctrace_stacktrace_to_string(slot, from)
         \/ \E slot \in DOMAIN client : ctrace_free(slot)
         \/ \E slot \in DOMAIN client : forget(slot)
         \/ load \/ unload
         \/ UNCHANGED vars
  PROVE  LastKept
<1>1. ASSUME NEW slot, generate_in(slot) PROVE LastKept
  BY <1>1 DEF generate_in, LastKept
<1>2. ASSUME NEW slot, NEW from, ctrace_resolve(slot, from) PROVE LastKept
  BY <1>2 DEF ctrace_resolve, LastKept
<1>3. ASSUME NEW slot, NEW from, ctrace_stacktrace_to_string(slot, from) PROVE LastKept
  BY <1>3 DEF ctrace_stacktrace_to_string, LastKept
<1>4. ASSUME NEW slot, ctrace_free(slot) PROVE LastKept
  BY <1>4 DEF ctrace_free, LastKept
<1>5. ASSUME NEW slot, forget(slot) PROVE LastKept
  BY <1>5 DEF forget, LastKept
<1>6. load \/ unload \/ UNCHANGED vars => LastKept
  BY DEF load, unload, vars, LastKept
<1> QED BY <1>1, <1>2, <1>3, <1>4, <1>5, <1>6

LEMMA InitShows == Init => BuildType /\ TraceIsUserStack
<1> SUFFICES ASSUME Init PROVE BuildType /\ TraceIsUserStack
  OBVIOUS
<1>1. BuildType
  BY DEF Init, BuildType
<1>2. last.op = "nothing"
  BY DEF Init, Nothing
<1> QED BY <1>1, <1>2 DEF TraceIsUserStack

LEMMA StepShows ==
  ASSUME BuildType, TraceIsUserStack, [Next]_vars
  PROVE  BuildType' /\ TraceIsUserStack'
<1>1. ASSUME LastKept PROVE BuildType' /\ TraceIsUserStack'
  <2>1. build' = build /\ user' = user /\ last' = last
    BY <1>1 DEF LastKept
  <2>2. BuildType'
    BY <2>1 DEF BuildType
  <2>3. TraceIsUserStack'
    BY <2>1, ZenonT(60) DEF TraceIsUserStack
  <2> QED BY <2>2, <2>3
<1>2. ASSUME build' = build, user' = user, last'.op \notin {"take", "take safely"}
      PROVE  BuildType' /\ TraceIsUserStack'
  BY <1>2 DEF BuildType, TraceIsUserStack
<1>3. ASSUME NEW call \in Calls, ~Safe(call.entry), take(call) PROVE BuildType' /\ TraceIsUserStack'
  <2>1. build' = build /\ user' = user
    BY <1>3 DEF take
  <2> QED BY <1>3, <2>1, TakeIsRight DEF BuildType
<1>4. ASSUME NEW call \in Calls, NEW size \in Sizes, Safe(call.entry), take_safely(call, size)
      PROVE  BuildType' /\ TraceIsUserStack'
  <2>1. build' = build /\ user' = user
    BY <1>4 DEF take_safely
  <2> QED BY <1>4, <2>1, TakeSafelyIsRight DEF BuildType
<1>5. ASSUME NEW pc, safe_object_frame(pc) PROVE BuildType' /\ TraceIsUserStack'
  <2>1. build' = build /\ user' = user /\ last'.op = "safe object frame"
    <3>1. PICK frame : last' = [op |-> "safe object frame", frame |-> frame]
      BY <1>5 DEF safe_object_frame
    <3> QED BY <1>5, <3>1 DEF safe_object_frame
  <2> QED BY <1>2, <2>1
<1>6. ASSUME NEW slot, ctrace_print_stacktrace(slot) PROVE BuildType' /\ TraceIsUserStack'
  <2>1. build' = build /\ user' = user /\ last'.op = "print"
    BY <1>6 DEF ctrace_print_stacktrace
  <2> QED BY <1>2, <2>1
<1>7. ASSUME go_on PROVE BuildType' /\ TraceIsUserStack'
  <2>1. build' = build /\ user' = user /\ last'.op = "nothing"
    BY <1>7 DEF go_on, Nothing
  <2> QED BY <1>2, <2>1
<1> QED BY <1>1, <1>3, <1>4, <1>5, <1>6, <1>7, Steps, LastIsKept

\* Whatever function a trace is taken with, by any back-end, with any skip and
\* limit, it has the program's frames from the first that is not skipped, none
\* of the library's, and loses none within its limits.
THEOREM TracesAreUserStacks == Spec => []TraceIsUserStack
<1>1. Init => BuildType /\ TraceIsUserStack
  BY InitShows
<1>2. BuildType /\ TraceIsUserStack /\ [Next]_vars => (BuildType /\ TraceIsUserStack)'
  BY StepShows
<1> QED BY <1>1, <1>2, PTL DEF Spec

-----------------------------------------------------------------------------
\* Short sequences laid end to end.
LEMMA JoinTwo == ASSUME NEW a, NEW b PROVE <<a>> \o <<b>> = <<a, b>>
<1> DEFINE X == {a, b}
<1>1. <<a>> \in Seq(X) /\ <<b>> \in Seq(X) /\ <<a, b>> \in Seq(X)
  OBVIOUS
<1>2. Len(<<a>>) = 1 /\ Len(<<b>>) = 1 /\ Len(<<a, b>>) = 2
  OBVIOUS
<1>3. /\ <<a>> \o <<b>> \in Seq(X) /\ Len(<<a>> \o <<b>>) = 2
      /\ \A i \in 1 .. 2 : (<<a>> \o <<b>>)[i] = IF i <= 1 THEN <<a>>[i] ELSE <<b>>[i - 1]
  BY <1>1, <1>2, ConcatProperties
<1>4. ASSUME NEW i \in 1 .. 2 PROVE (<<a>> \o <<b>>)[i] = <<a, b>>[i]
  <2>1. i = 1 \/ i = 2
    OBVIOUS
  <2> QED BY <1>3, <2>1
<1> QED BY <1>1, <1>2, <1>3, <1>4, SeqEqual

LEMMA JoinThree == ASSUME NEW a, NEW b, NEW c PROVE <<a, b>> \o <<c>> = <<a, b, c>>
<1> DEFINE X == {a, b, c}
<1>1. <<a, b>> \in Seq(X) /\ <<c>> \in Seq(X) /\ <<a, b, c>> \in Seq(X)
  OBVIOUS
<1>2. Len(<<a, b>>) = 2 /\ Len(<<c>>) = 1 /\ Len(<<a, b, c>>) = 3
  OBVIOUS
<1>3. /\ <<a, b>> \o <<c>> \in Seq(X) /\ Len(<<a, b>> \o <<c>>) = 3
      /\ \A i \in 1 .. 3 : (<<a, b>> \o <<c>>)[i] = IF i <= 2 THEN <<a, b>>[i] ELSE <<c>>[i - 2]
  BY <1>1, <1>2, ConcatProperties
<1>4. ASSUME NEW i \in 1 .. 3 PROVE (<<a, b>> \o <<c>>)[i] = <<a, b, c>>[i]
  <2>1. i = 1 \/ i = 2 \/ i = 3
    OBVIOUS
  <2> QED BY <1>3, <2>1
<1> QED BY <1>1, <1>2, <1>3, <1>4, SeqEqual

\* Frame by frame, what C prints is what C++ writes of the frame converted back.
LEMMA RowShownAlike ==
  ASSUME NEW row, NEW frame, frame.raw = row.raw, frame.line = row.line, frame.column = row.column,
         frame.filename = row.filename, frame.symbol = row.symbol, frame.is_inline = row.is_inline
  PROVE  print_row(row) = write_frame(frame)
<1> DEFINE X == {row.filename, row.line, row.column}
<1>1. ASSUME NEW s \in Seq(X) PROVE s \o <<>> = s /\ <<>> \o s = s
  BY ConcatEmptySeq
<1>2. /\ <<>> \in Seq(X) /\ <<row.filename>> \in Seq(X) /\ <<row.filename, row.line>> \in Seq(X)
  OBVIOUS
<1>3. <<row.filename>> \o <<row.line>> = <<row.filename, row.line>>
  BY JoinTwo
<1>4. <<row.filename, row.line>> \o <<row.column>> = <<row.filename, row.line, row.column>>
  BY JoinThree
<1> DEFINE location == IF row.filename = Blank THEN <<>>
                       ELSE IF row.line = None THEN <<row.filename>>
                       ELSE IF row.column = None THEN <<row.filename, row.line>>
                       ELSE <<row.filename, row.line, row.column>>
           written == (IF row.filename # Blank THEN <<row.filename>> ELSE <<>>)
                      \o (IF row.filename # Blank /\ row.line # None THEN <<row.line>> ELSE <<>>)
                      \o (IF row.filename # Blank /\ row.line # None /\ row.column # None
                          THEN <<row.column>> ELSE <<>>)
<1>5. location = written
  <2>1. CASE row.filename = Blank
    BY <1>1, <1>2, <2>1
  <2>2. CASE row.filename # Blank /\ row.line = None
    BY <1>1, <1>2, <2>2
  <2>3. CASE row.filename # Blank /\ row.line # None /\ row.column = None
    BY <1>1, <1>2, <1>3, <2>3
  <2>4. CASE row.filename # Blank /\ row.line # None /\ row.column # None
    BY <1>3, <1>4, <2>4
  <2> QED BY <2>1, <2>2, <2>3, <2>4
<1>6. write_frame(frame) =
        [inlined |-> row.is_inline, address |-> IF row.is_inline THEN 0 ELSE row.raw,
         symbol |-> row.symbol, location |-> written]
  BY DEF write_frame
<1>7. print_row(row) =
        [inlined |-> row.is_inline, address |-> IF row.is_inline THEN 0 ELSE row.raw,
         symbol |-> row.symbol, location |-> location]
  BY DEF print_row
<1> HIDE DEF location, written
<1> QED BY <1>5, <1>6, <1>7

LEMMA PrintIsAlike ==
  ASSUME NEW slot, ctrace_print_stacktrace(slot)
  PROVE  ShownAlike'
<1> DEFINE c == client[slot]
           frames == cpp_convert(c)
           printed == [i \in DOMAIN c.rows |-> print_row(c.rows[i])]
           written == [i \in DOMAIN frames |-> write_frame(frames[i])]
<1>1. last' = [op |-> "print", trace |-> c, rows |-> printed]
  BY DEF ctrace_print_stacktrace
<1>2. last'.trace = c /\ last'.rows = printed
  <2> HIDE DEF printed, c
  <2> QED BY <1>1
<1>3. DOMAIN frames = DOMAIN c.rows
  BY DEF cpp_convert
<1>4. ASSUME NEW i \in DOMAIN c.rows PROVE print_row(c.rows[i]) = write_frame(frames[i])
  <2>1. frames[i] =
          [raw |-> c.rows[i].raw, line |-> c.rows[i].line, column |-> c.rows[i].column,
           filename |-> c.rows[i].filename, symbol |-> c.rows[i].symbol,
           is_inline |-> c.rows[i].is_inline]
    BY DEF cpp_convert
  <2> HIDE DEF frames, c
  <2> QED BY <2>1, RowShownAlike
<1>5. printed = written
  <2> HIDE DEF frames, c
  <2> QED BY <1>3, <1>4
<1> QED BY <1>2, <1>5 DEF ShownAlike

\* A trace printed through the C interface reads as in C++, whatever the frames
\* lack.
THEOREM PrintersAgree == Spec => []ShownAlike
<1>1. Init => ShownAlike
  BY DEF Init, Nothing, ShownAlike
<1>2. ASSUME ShownAlike, [Next]_vars PROVE ShownAlike'
  <2>1. ASSUME LastKept PROVE ShownAlike'
    <3>1. last' = last
      BY <2>1 DEF LastKept
    <3> QED BY <1>2, <3>1 DEF ShownAlike, cpp_convert
  <2>2. ASSUME last'.op # "print" PROVE ShownAlike'
    BY <2>2 DEF ShownAlike
  <2>3. ASSUME NEW call, take(call) PROVE last'.op # "print"
    <3>1. PICK frames, threw : last' = [op |-> "take", call |-> call, frames |-> frames, threw |-> threw]
      BY <2>3 DEF take
    <3> QED BY <3>1
  <2>4. ASSUME NEW call, NEW size, take_safely(call, size) PROVE last'.op # "print"
    <3>1. PICK frames : last' = [op |-> "take safely", call |-> call, size |-> size, frames |-> frames,
                                threw |-> FALSE]
      BY <2>4 DEF take_safely
    <3> QED BY <3>1
  <2>5. ASSUME NEW pc, safe_object_frame(pc) PROVE last'.op # "print"
    <3>1. PICK frame : last' = [op |-> "safe object frame", frame |-> frame]
      BY <2>5 DEF safe_object_frame
    <3> QED BY <3>1
  <2>6. go_on => last'.op # "print"
    BY DEF go_on, Nothing
  <2> QED BY <1>2, <2>1, <2>2, <2>3, <2>4, <2>5, <2>6, Steps, LastIsKept, PrintIsAlike
<1> QED BY <1>1, <1>2, PTL DEF Spec
-----------------------------------------------------------------------------
\* A name remembered for a place is that of a module that is or was there, if it
\* was to be had.
OfPlaces(known) ==
  \A h \in DOMAIN known : known[h] # Blank => known[h] \in DOMAIN Modules /\ Modules[known[h]].low = h
NamesAreOfPlaces == OfPlaces(names)

\* What PathAndAddressBelongTogether says, part by part.
RowsBelong(c, look_up) ==
  c.kind = "object" => \A i \in DOMAIN c.rows : BelongTogether(c.rows[i], look_up)
ClientBelongs == \A s \in DOMAIN client : RowsBelong(client[s], build.look_up)
LastBelongs == last.op = "safe object frame" => BelongTogether(last.frame, build.look_up)

\* A frame of module m with the path of a module that is, or on Windows was, there.
LEMMA ModuleFrame ==
  ASSUME NEW pc, NEW m \in module_of(pc), NEW path \in DOMAIN Modules, NEW look_up,
         path = m \/ (look_up = "handle" /\ Modules[path].low = Modules[m].low)
  PROVE  BelongTogether(object_frame(pc, path, relative(pc, m, Modules[path].base)), look_up)
<1> DEFINE frame == object_frame(pc, path, relative(pc, m, Modules[path].base))
<1> SUFFICES BelongTogether(frame, look_up)
  OBVIOUS
<1>1. /\ frame.raw = pc /\ frame.path = path
      /\ frame.address = pc - Modules[m].low + Modules[path].base
  BY DEF object_frame, relative
<1>2. m \in DOMAIN Modules /\ Modules[m].low <= pc /\ pc < Modules[m].high
  BY DEF module_of
<1>3. Modules[path].low = Modules[m].low
  OBVIOUS
<1>4. IF look_up = "handle" THEN Modules[m].low = Modules[path].low ELSE m = path
  BY <1>3
<1> HIDE DEF frame
<1>5. frame.address = frame.raw - Modules[frame.path].low + Modules[frame.path].base
  BY <1>1, <1>3
<1>6. \E now \in DOMAIN Modules :
        /\ Modules[now].low <= frame.raw /\ frame.raw < Modules[now].high
        /\ IF look_up = "handle" THEN Modules[now].low = Modules[frame.path].low ELSE now = frame.path
  BY <1>1, <1>2, <1>4
<1> QED BY <1>1, <1>5, <1>6, Zenon DEF BelongTogether

LEMMA FoundFrame ==
  ASSUME NEW pc, NEW m \in module_of(pc), NEW frame \in find_object_frames(pc, m), NEW look_up
  PROVE  BelongTogether(frame, look_up)
<1>1. PICK path \in resolve_l_name(m) :
        frame = object_frame(pc, path, relative(pc, m, Modules[m].base))
  BY DEF find_object_frames
<1>2. CASE path = m
  <2>1. m \in DOMAIN Modules
    BY DEF module_of
  <2> QED BY <1>1, <1>2, <2>1, ModuleFrame
<1>3. CASE path = Blank
  <2>1. frame.path = Blank
    BY <1>1, <1>3 DEF object_frame
  <2> QED BY <2>1 DEF BelongTogether
<1> QED BY <1>1, <1>2, <1>3 DEF resolve_l_name

LEMMA NoFrame ==
  ASSUME NEW pc, NEW look_up PROVE BelongTogether(no_object_frame(pc), look_up)
<1>1. no_object_frame(pc).path = Blank
  BY DEF no_object_frame, object_frame
<1> QED BY <1>1 DEF BelongTogether

\* A frame whose base was looked up, by a path that is no module's unless it is
\* that of one that is or was in the place.
LEMMA LookedUpFrame ==
  ASSUME NEW pc, NEW m \in module_of(pc), NEW paths, NEW look_up, look_up # "find_object",
         \A path \in paths :
           path \in DOMAIN Modules =>
             path = m \/ (look_up = "handle" /\ Modules[path].low = Modules[m].low),
         NEW frame \in looked_up(pc, m, paths)
  PROVE  BelongTogether(frame, look_up)
<1>0. PICK path \in paths : frame \in {object_frame(pc, path, a) : a \in addresses(pc, m, path)}
  BY DEF looked_up
<1>1. PICK address \in addresses(pc, m, path) : frame = object_frame(pc, path, address)
  BY <1>0
<1>2. CASE address = 0
  <2>1. frame.address = 0
    BY <1>1, <1>2 DEF object_frame
  <2> QED BY <2>1 DEF BelongTogether
<1>3. CASE path \in DOMAIN Modules /\ address = relative(pc, m, Modules[path].base)
  BY <1>1, <1>3, ModuleFrame
<1> QED BY <1>1, <1>2, <1>3 DEF addresses

LEMMA ObjectFrame ==
  ASSUME build.look_up \in LookUps, NEW known, OfPlaces(known), NEW pc,
         Windows => \A m \in module_of(pc) : handle_of(m) \in DOMAIN known,
         NEW frame \in get_frame_object_info(pc, known)
  PROVE  BelongTogether(frame, build.look_up)
<1> DEFINE by == build.look_up
<1>1. CASE module_of(pc) = {}
  BY <1>1, NoFrame DEF get_frame_object_info
<1>2. CASE module_of(pc) # {}
  <2>1. PICK m \in module_of(pc) :
          frame \in CASE by = "find_object" -> find_object_frames(pc, m)
                     [] by = "dladdr1" -> looked_up(pc, m, resolve_l_name(m))
                     [] by = "dladdr" -> looked_up(pc, m, dli_fname(m))
                     [] OTHER -> looked_up(pc, m, {known[handle_of(m)]})
    BY <1>2 DEF get_frame_object_info
  <2>2. Blank \notin DOMAIN Modules /\ CalledBy \notin DOMAIN Modules
    BY CInterfaceAssumption
  <2>3. CASE by = "find_object"
    BY <2>1, <2>3, FoundFrame
  <2>4. CASE by = "dladdr1"
    <3>1. \A path \in resolve_l_name(m) : path \in DOMAIN Modules => path = m
      BY <2>2 DEF resolve_l_name
    <3>2. frame \in looked_up(pc, m, resolve_l_name(m))
      BY <2>1, <2>4
    <3> QED BY <2>4, <3>1, <3>2, LookedUpFrame
  <2>5. CASE by = "dladdr"
    <3>1. \A path \in dli_fname(m) : path \in DOMAIN Modules => path = m
      BY <2>2 DEF dli_fname
    <3>2. frame \in looked_up(pc, m, dli_fname(m))
      BY <2>1, <2>5
    <3> QED BY <2>5, <3>1, <3>2, LookedUpFrame
  <2>6. CASE by = "handle"
    <3>1. handle_of(m) \in DOMAIN known
      BY <2>6 DEF Windows
    <3>2. known[handle_of(m)] \in DOMAIN Modules => Modules[known[handle_of(m)]].low = Modules[m].low
      BY <2>2, <3>1 DEF OfPlaces, handle_of
    <3>3. frame \in looked_up(pc, m, {known[handle_of(m)]})
      BY <2>1, <2>6
    <3> QED BY <2>6, <3>2, <3>3, LookedUpFrame
  <2> QED BY <2>3, <2>4, <2>5, <2>6 DEF LookUps
<1> QED BY <1>1, <1>2

LEMMA SafeFrame ==
  ASSUME NEW pc, NEW frame \in get_safe_object_frame(pc)
  PROVE  BelongTogether(resolve_safe_object_frame(frame), build.look_up)
<1>1. BelongTogether(frame, build.look_up)
  <2>1. CASE build.look_up # "find_object" \/ module_of(pc) = {}
    <3>1. frame = no_object_frame(pc)
      BY <2>1 DEF get_safe_object_frame
    <3> QED BY <3>1, NoFrame
  <2>2. CASE ~(build.look_up # "find_object" \/ module_of(pc) = {})
    <3>1. PICK m \in module_of(pc) : frame \in find_object_frames(pc, m)
      BY <2>2 DEF get_safe_object_frame
    <3> QED BY <3>1, FoundFrame
  <2> QED BY <2>1, <2>2
<1> QED BY <1>1, NoFrame DEF resolve_safe_object_frame

\* The names after some frames were looked up: those of the places of their
\* modules are known.
LEMMA NamesAfter ==
  ASSUME NamesAreOfPlaces, NEW pcs, NEW known \in names_after(pcs)
  PROVE  /\ OfPlaces(known)
         /\ Windows => \A pc \in pcs : \A m \in module_of(pc) : handle_of(m) \in DOMAIN known
<1> DEFINE places == IF Windows THEN {handle_of(m) : m \in UNION {module_of(pc) : pc \in pcs}} ELSE {}
<1>1. /\ known \in [DOMAIN names \cup places -> DOMAIN Modules \cup {Blank}]
      /\ \A h \in DOMAIN known :
           IF h \in DOMAIN names THEN known[h] = names[h]
           ELSE known[h] = Blank \/ (Present(known[h]) /\ handle_of(known[h]) = h)
  BY DEF names_after
<1>2. DOMAIN known = DOMAIN names \cup places
      /\ \A h \in DOMAIN known : known[h] \in DOMAIN Modules \cup {Blank}
  <2> HIDE DEF places
  <2> QED BY <1>1
<1>3. ASSUME NEW h \in DOMAIN known, known[h] # Blank
      PROVE  known[h] \in DOMAIN Modules /\ Modules[known[h]].low = h
  <2> HIDE DEF places
  <2>1. CASE h \in DOMAIN names
    BY <1>1, <1>3, <2>1 DEF NamesAreOfPlaces, OfPlaces
  <2>2. CASE h \notin DOMAIN names
    BY <1>1, <1>2, <1>3, <2>2 DEF handle_of
  <2> QED BY <2>1, <2>2
<1>4. Windows => \A pc \in pcs : \A m \in module_of(pc) : handle_of(m) \in DOMAIN known
  BY <1>2
<1> QED BY <1>3, <1>4 DEF OfPlaces

\* A structure that is put in a slot is the only one that changes.
LEMMA PutBelongs ==
  ASSUME ClientBelongs, NEW slot, NEW c, put(slot, c), RowsBelong(c, build.look_up), build' = build
  PROVE  ClientBelongs'
<1>1. ASSUME NEW s \in DOMAIN client' PROVE RowsBelong(client'[s], build.look_up)
  <2>1. s \in DOMAIN client \cup {slot} /\ client'[s] = IF s = slot THEN c ELSE client[s]
    BY DEF put
  <2> QED BY <2>1 DEF ClientBelongs
<1> QED BY <1>1 DEF ClientBelongs

LEMMA EmptyBelongs == ASSUME NEW kind, NEW w PROVE RowsBelong(Empty(kind), w)
BY DEF RowsBelong, Empty

LEMMA FailedBelongs ==
  ASSUME ClientBelongs, NEW slot, NEW kind, failed(slot, kind), build' = build
  PROVE  ClientBelongs'
BY EmptyBelongs, PutBelongs DEF failed

LEMMA ObjectTraceBelongs ==
  ASSUME ClientBelongs, NamesAreOfPlaces, build.look_up \in LookUps,
         NEW slot, NEW pcs, keep_object_trace(slot, pcs), build' = build
  PROVE  ClientBelongs' /\ NamesAreOfPlaces'
<1>1. ASSUME NEW some, names' \in names_after(some) PROVE NamesAreOfPlaces'
  BY <1>1, NamesAfter DEF NamesAreOfPlaces
<1>2. CASE failed(slot, "object")
  <2>1. \E some : names' \in names_after(some)
    BY DEF keep_object_trace
  <2> QED BY <1>1, <1>2, <2>1, FailedBelongs
<1>3. ASSUME names' \in names_after(Range(pcs)),
             NEW frames \in get_frames_object_info(pcs, names'), NEW n, NEW at,
             keep(slot, convert_object_trace(frames, at), n)
      PROVE  ClientBelongs' /\ NamesAreOfPlaces'
  <2> DEFINE c == convert_object_trace(frames, at)
  <2>0. PICK known : known = names'
    OBVIOUS
  <2>1. /\ OfPlaces(known)
        /\ Windows => \A pc \in Range(pcs) : \A m \in module_of(pc) : handle_of(m) \in DOMAIN known
    BY <1>3, <2>0, NamesAfter
  <2>2. ASSUME NEW i \in DOMAIN c.rows PROVE BelongTogether(c.rows[i], build.look_up)
    <3>1. /\ i \in DOMAIN frames
          /\ c.rows[i].raw = frames[i].raw /\ c.rows[i].path = frames[i].path
          /\ c.rows[i].address = frames[i].address
      BY DEF convert_object_trace
    <3>2. i \in DOMAIN pcs /\ frames[i] \in get_frame_object_info(pcs[i], known)
      BY <1>3, <2>0, <3>1 DEF get_frames_object_info
    <3>3. pcs[i] \in Range(pcs)
      BY <3>2 DEF Range
    <3>4. BelongTogether(frames[i], build.look_up)
      BY <2>1, <3>2, <3>3, ObjectFrame
    <3> HIDE DEF c
    <3> QED BY <3>1, <3>4 DEF BelongTogether
  <2>3. RowsBelong(c, build.look_up)
    BY <2>2 DEF RowsBelong
  <2> HIDE DEF c
  <2>4. put(slot, c)
    BY <1>3 DEF keep, c
  <2> QED BY <1>1, <1>3, <2>3, <2>4, PutBelongs
<1> QED BY <1>2, <1>3 DEF keep_object_trace

LEMMA StackTraceBelongs ==
  ASSUME ClientBelongs, NEW slot, NEW pcs, keep_stacktrace(slot, pcs), build' = build
  PROVE  ClientBelongs' /\ names' = names
<1> DEFINE frames == resolve_frames(pcs)
           n == 2 * Len(frames) + 1
           c == convert_stacktrace(frames, Fresh(n))
<1>1. names' = names
  BY DEF keep_stacktrace
<1>2. \/ keep(slot, c, n) \/ failed(slot, "stack") \/ failed_halfway(slot, frames)
  BY DEF keep_stacktrace
<1>3. RowsBelong(c, build.look_up)
  <2>1. c.kind = "stack"
    BY DEF convert_stacktrace
  <2> HIDE DEF c
  <2> QED BY <2>1 DEF RowsBelong
<1> HIDE DEF c, n, frames
<1>4. keep(slot, c, n) => put(slot, c)
  BY DEF keep
<1>5. failed_halfway(slot, frames) => put(slot, Empty("stack"))
  BY DEF failed_halfway
<1> QED BY <1>1, <1>2, <1>3, <1>4, <1>5, FailedBelongs, PutBelongs, EmptyBelongs

LEMMA OtherTraceBelongs ==
  ASSUME ClientBelongs, NEW slot, NEW c, c.kind # "object", NEW n, keep(slot, c, n), build' = build
  PROVE  ClientBelongs'
<1>1. RowsBelong(c, build.look_up)
  BY DEF RowsBelong
<1> QED BY <1>1, PutBelongs DEF keep

BelongInv == ClientBelongs /\ LastBelongs /\ NamesAreOfPlaces /\ build.look_up \in LookUps

LEMMA GenerateBelongs ==
  ASSUME BelongInv, NEW slot, generate_in(slot)
  PROVE  ClientBelongs' /\ NamesAreOfPlaces'
<1>1. build' = build
  BY DEF generate_in
<1>2. ASSUME NEW skip, NEW max_depth, ctrace_generate_raw_trace(slot, skip, max_depth)
      PROVE  ClientBelongs' /\ NamesAreOfPlaces'
  <2>1. names' = names
    BY <1>2 DEF ctrace_generate_raw_trace
  <2>2. \/ failed(slot, "raw")
        \/ \E rows : keep(slot, [kind |-> "raw", frames |-> Fresh(1)[1], rows |-> rows], 1)
    BY <1>2 DEF ctrace_generate_raw_trace
  <2>3. ASSUME NEW rows, keep(slot, [kind |-> "raw", frames |-> Fresh(1)[1], rows |-> rows], 1)
        PROVE  ClientBelongs'
    <3> DEFINE c == [kind |-> "raw", frames |-> Fresh(1)[1], rows |-> rows]
    <3>1. c.kind # "object" /\ keep(slot, c, 1)
      BY <2>3
    <3> HIDE DEF c
    <3> QED BY <1>1, <3>1, OtherTraceBelongs DEF BelongInv
  <2> QED BY <1>1, <2>1, <2>2, <2>3, FailedBelongs DEF BelongInv, NamesAreOfPlaces
<1>3. ASSUME NEW kind, NEW skip, NEW max_depth, ctrace_generate(kind, slot, skip, max_depth)
      PROVE  ClientBelongs' /\ NamesAreOfPlaces'
  <2>1. \/ failed(slot, kind) /\ UNCHANGED names
        \/ \E pcs : keep_object_trace(slot, pcs)
        \/ \E pcs : keep_stacktrace(slot, pcs)
    BY <1>3 DEF ctrace_generate
  <2> QED BY <1>1, <2>1, FailedBelongs, ObjectTraceBelongs, StackTraceBelongs DEF BelongInv, NamesAreOfPlaces
<1> QED BY <1>2, <1>3 DEF generate_in

LEMMA ResolveBelongs ==
  ASSUME BelongInv, NEW slot, NEW from, ctrace_resolve(slot, from)
  PROVE  ClientBelongs' /\ NamesAreOfPlaces'
<1>1. build' = build
  BY DEF ctrace_resolve
<1>2. \/ \E to : failed(slot, to) /\ UNCHANGED names
      \/ \E pcs : keep_object_trace(slot, pcs)
      \/ \E pcs : keep_stacktrace(slot, pcs)
  BY DEF ctrace_resolve
<1> QED BY <1>1, <1>2, FailedBelongs, ObjectTraceBelongs, StackTraceBelongs DEF BelongInv, NamesAreOfPlaces

LEMMA StringBelongs ==
  ASSUME BelongInv, NEW slot, NEW from, ctrace_stacktrace_to_string(slot, from)
  PROVE  ClientBelongs' /\ NamesAreOfPlaces'
<1>1. build' = build /\ names' = names
  BY DEF ctrace_stacktrace_to_string
<1>2. PICK rows : keep(slot, [kind |-> "string", frames |-> Fresh(1)[1], rows |-> rows], 1)
  BY DEF ctrace_stacktrace_to_string
<1> DEFINE c == [kind |-> "string", frames |-> Fresh(1)[1], rows |-> rows]
<1>3. c.kind # "object" /\ keep(slot, c, 1)
  BY <1>2
<1> HIDE DEF c
<1> QED BY <1>1, <1>3, OtherTraceBelongs DEF BelongInv, NamesAreOfPlaces

LEMMA FreeBelongs ==
  ASSUME BelongInv, NEW slot \in DOMAIN client, ctrace_free(slot) \/ forget(slot)
  PROVE  ClientBelongs' /\ NamesAreOfPlaces'
<1>1. build' = build /\ names' = names
  BY DEF ctrace_free, forget
<1>2. ASSUME NEW s \in DOMAIN client' PROVE RowsBelong(client'[s], build.look_up)
  <2>1. CASE ctrace_free(slot)
    <3>1. s \in DOMAIN client /\ (s # slot => client'[s] = client[s])
          /\ (s = slot => client'[s] = Empty(client[slot].kind))
      BY <2>1 DEF ctrace_free
    <3> QED BY <3>1, EmptyBelongs DEF BelongInv, ClientBelongs
  <2>2. CASE forget(slot)
    <3>1. s \in DOMAIN client /\ client'[s] = client[s]
      BY <2>2 DEF forget
    <3> QED BY <3>1 DEF BelongInv, ClientBelongs
  <2> QED BY <2>1, <2>2
<1> QED BY <1>1, <1>2 DEF ClientBelongs, BelongInv, NamesAreOfPlaces

LEMMA StepBelongs ==
  ASSUME BelongInv, [Next]_vars
  PROVE  BelongInv'
<1>0. build' = build
  BY Steps, LastIsKept DEF take, take_safely, safe_object_frame, ctrace_print_stacktrace, go_on, LastKept
<1>1. ASSUME LastKept PROVE LastBelongs'
  BY <1>1 DEF LastKept, BelongInv, LastBelongs
<1>2. ASSUME UNCHANGED <<build, client, names>> PROVE ClientBelongs' /\ NamesAreOfPlaces'
  BY <1>2 DEF BelongInv, ClientBelongs, NamesAreOfPlaces
<1>3. ASSUME NEW call, take(call) PROVE BelongInv'
  <2>1. PICK frames, threw : last' = [op |-> "take", call |-> call, frames |-> frames, threw |-> threw]
    BY <1>3 DEF take
  <2>2. last'.op # "safe object frame" /\ UNCHANGED <<build, client, names>>
    BY <1>3, <2>1 DEF take
  <2> QED BY <1>0, <1>2, <2>2 DEF BelongInv, LastBelongs
<1>4. ASSUME NEW call, NEW size, take_safely(call, size) PROVE BelongInv'
  <2>1. PICK frames : last' = [op |-> "take safely", call |-> call, size |-> size, frames |-> frames,
                              threw |-> FALSE]
    BY <1>4 DEF take_safely
  <2>2. last'.op = "take safely"
    BY <2>1
  <2>3. UNCHANGED <<build, client, names>>
    BY <1>4 DEF take_safely
  <2> QED BY <1>0, <1>2, <2>2, <2>3 DEF BelongInv, LastBelongs
<1>5. ASSUME NEW pc, safe_object_frame(pc) PROVE BelongInv'
  <2>1. PICK frame \in get_safe_object_frame(pc) :
          last' = [op |-> "safe object frame", frame |-> resolve_safe_object_frame(frame)]
    BY <1>5 DEF safe_object_frame
  <2>2. UNCHANGED <<build, client, names>>
    BY <1>5 DEF safe_object_frame
  <2>3. last'.frame = resolve_safe_object_frame(frame) /\ build' = build
    BY <2>1, <2>2
  <2>4. LastBelongs'
    BY <2>3, SafeFrame DEF LastBelongs
  <2> QED BY <1>0, <1>2, <2>2, <2>4 DEF BelongInv
<1>6. ASSUME NEW slot, ctrace_print_stacktrace(slot) PROVE BelongInv'
  <2>1. last'.op # "safe object frame" /\ UNCHANGED <<build, client, names>>
    BY <1>6 DEF ctrace_print_stacktrace
  <2> QED BY <1>0, <1>2, <2>1 DEF BelongInv, LastBelongs
<1>7. ASSUME go_on PROVE BelongInv'
  <2>1. last'.op # "safe object frame" /\ UNCHANGED <<build, client, names>>
    BY <1>7 DEF go_on, Nothing
  <2> QED BY <1>0, <1>2, <2>1 DEF BelongInv, LastBelongs
<1>8. ASSUME load \/ unload \/ UNCHANGED vars PROVE BelongInv'
  <2>1. UNCHANGED <<build, client, names>>
    BY <1>8 DEF load, unload, vars
  <2> QED BY <1>0, <1>1, <1>2, <1>8, <2>1, LastIsKept DEF BelongInv
<1>9. ASSUME NEW slot \in Slots, generate_in(slot) PROVE BelongInv'
  BY <1>0, <1>1, <1>9, LastIsKept, GenerateBelongs DEF BelongInv
<1>10. ASSUME NEW slot \in Slots, NEW from \in DOMAIN client, ctrace_resolve(slot, from) PROVE BelongInv'
  BY <1>0, <1>1, <1>10, LastIsKept, ResolveBelongs DEF BelongInv
<1>11. ASSUME NEW slot \in Slots, NEW from \in DOMAIN client, ctrace_stacktrace_to_string(slot, from)
       PROVE  BelongInv'
  BY <1>0, <1>1, <1>11, LastIsKept, StringBelongs DEF BelongInv
<1>12. ASSUME NEW slot \in DOMAIN client, ctrace_free(slot) \/ forget(slot) PROVE BelongInv'
  BY <1>0, <1>1, <1>12, LastIsKept, FreeBelongs DEF BelongInv
<1> QED BY <1>3, <1>4, <1>5, <1>6, <1>7, <1>8, <1>9, <1>10, <1>11, <1>12, Steps

\* The path of an object frame and its address are of one module, however
\* modules are unloaded and their places taken by others, and whatever names and
\* bases are not to be had; only where bases are looked up in files is there a
\* path without an address.
THEOREM FramesAreOfOneModule == Spec => []PathAndAddressBelongTogether
<1>1. Init => BelongInv
  BY CInterfaceAssumption DEF Init, Nothing, BelongInv, ClientBelongs, LastBelongs, NamesAreOfPlaces, OfPlaces
<1>2. BelongInv /\ [Next]_vars => BelongInv'
  BY StepBelongs
<1>3. BelongInv => PathAndAddressBelongTogether
  BY DEF BelongInv, ClientBelongs, LastBelongs, RowsBelong, PathAndAddressBelongTogether
<1> QED BY <1>1, <1>2, <1>3, PTL DEF Spec
-----------------------------------------------------------------------------
\* What malloc gives: as many blocks as asked for, each once, none of them in use.
IsFresh(at, n) ==
  /\ at \in Seq(1 .. MaxBlocks) /\ Len(at) = n /\ DOMAIN at = 1 .. n
  /\ \A i, j \in 1 .. n : at[i] = at[j] => i = j
  /\ Range(at) \cap heap = {} /\ Range(at) \subseteq 1 .. MaxBlocks

LEMMA BlocksAreFresh ==
  ASSUME heap \subseteq 1 .. MaxBlocks, NEW n \in Nat, Room(n)
  PROVE  IsFresh(Fresh(n), n)
<1> DEFINE s == [b \in 1 .. MaxBlocks |-> b]
           S == 1 .. MaxBlocks \ heap
           t == Filter(s, S)
           at == SubSeq(t, 1, n)
<1>1. MaxBlocks \in Nat
  BY CInterfaceAssumption
<1>2. s \in Seq(1 .. MaxBlocks) /\ Len(s) = MaxBlocks /\ \A b \in 1 .. MaxBlocks : s[b] = b
  <2>1. \A b \in 1 .. MaxBlocks : s[b] = b
    OBVIOUS
  <2>2. s = [b \in 1 .. MaxBlocks |-> s[b]]
    OBVIOUS
  <2> HIDE DEF s
  <2> QED BY <1>1, <2>1, <2>2, SequenceOf
<1> HIDE DEF s
<1>3. PICK from : t \in Seq(1 .. MaxBlocks) /\ Kept(from, t, s, S, Len(s))
  <2> HIDE DEF S
  <2> QED BY <1>2, FilterKeeps
<1> DEFINE l == Len(t)
<1>4. l \in Nat /\ DOMAIN t = 1 .. l
  BY <1>3
<1>5. ASSUME NEW k \in 1 .. l PROVE t[k] = from[k] /\ from[k] \in S
  <2>1. from[k] \in 1 .. MaxBlocks /\ t[k] = s[from[k]] /\ s[from[k]] \in S
    BY <1>2, <1>3 DEF Kept
  <2> QED BY <1>2, <2>1
<1>6. ASSUME NEW j \in 1 .. l, NEW k \in 1 .. l, t[j] = t[k] PROVE j = k
  <2>1. from[j] = t[j] /\ from[k] = t[k] /\ from[j] \in S
    BY <1>5
  <2>5. from[j] = from[k] /\ from[j] \in Nat
    BY <1>1, <1>6, <2>1
  <2>2. (j < k => from[j] < from[k]) /\ (k < j => from[k] < from[j])
    BY <1>3 DEF Kept
  <2>3. j < k \/ k < j \/ j = k
    BY <1>4
  <2> HIDE DEF S, t
  <2> QED BY <2>5, <2>2, <2>3
<1>7. ASSUME NEW b \in S PROVE \E k \in 1 .. l : t[k] = b
  <2>1. b \in 1 .. MaxBlocks /\ s[b] \in S
    BY <1>2
  <2>2. PICK k \in 1 .. l : from[k] = b
    BY <1>2, <1>3, <2>1 DEF Kept
  <2> QED BY <1>5, <2>2
<1>8. Cardinality(S) = l
  <2>1. t \in [1 .. l -> S]
    <3>1. \A k \in 1 .. l : t[k] \in S
      BY <1>5
    <3> HIDE DEF t
    <3>2. t \in [1 .. Len(t) -> 1 .. MaxBlocks]
      BY <1>3, LenProperties
    <3> HIDE DEF S
    <3> QED BY <3>1, <3>2 DEF l
  <2> HIDE DEF S, t, l
  <2>2. t \in Bijection(1 .. l, S)
    BY <1>6, <1>7, <2>1, Fun_IsBij
  <2>3. ExistsBijection(1 .. l, S)
    BY <2>2, Fun_ExistsBij
  <2>4. IsFiniteSet(1 .. l) /\ Cardinality(1 .. l) = l
    BY <1>4, FS_Interval
  <2> QED BY <2>3, <2>4, FS_Bijection
<1>9. Cardinality(S) = MaxBlocks - Cardinality(heap) /\ Cardinality(heap) \in Nat
  <2>1. IsFiniteSet(1 .. MaxBlocks) /\ Cardinality(1 .. MaxBlocks) = MaxBlocks
    BY <1>1, FS_Interval
  <2>2. IsFiniteSet(heap) /\ Cardinality(heap) \in Nat
    BY <2>1, FS_Subset, FS_CardinalityType
  <2>3. (1 .. MaxBlocks) \cap heap = heap
    OBVIOUS
  <2>4. Cardinality(S) = Cardinality(1 .. MaxBlocks) - Cardinality((1 .. MaxBlocks) \cap heap)
    BY <2>1, FS_Difference
  <2> QED BY <2>1, <2>2, <2>3, <2>4
<1>10. n <= l
  BY <1>1, <1>8, <1>9 DEF Room
<1>11. Fresh(n) = at
  BY DEF Fresh, s
<1> HIDE DEF t, l, S
<1>12. /\ at \in Seq(1 .. MaxBlocks) /\ Len(at) = n /\ DOMAIN at = 1 .. n
       /\ \A i \in 1 .. n : at[i] = t[i]
  <2>1. \A i \in 1 .. n : t[i] \in 1 .. MaxBlocks
    <3>1. \A i \in 1 .. n : i \in 1 .. l
      BY <1>4, <1>10
    <3> QED BY <1>5, <3>1 DEF S
  <2>2. /\ at \in Seq(1 .. MaxBlocks)
        /\ Len(at) = IF 1 <= n THEN n - 1 + 1 ELSE 0
        /\ \A i \in 1 .. n - 1 + 1 : at[i] = t[1 + i - 1]
    BY <2>1, SubSeqProperties
  <2> HIDE DEF at
  <2> QED BY <2>2
<1> HIDE DEF at
<1>13. ASSUME NEW i \in 1 .. n PROVE i \in 1 .. l /\ at[i] \in S
  <2>1. i \in 1 .. l
    BY <1>4, <1>10
  <2> QED BY <1>5, <1>12, <2>1
<1>14. ASSUME NEW i \in 1 .. n, NEW j \in 1 .. n, at[i] = at[j] PROVE i = j
  BY <1>6, <1>12, <1>13, <1>14
<1>15. Range(at) \cap heap = {} /\ Range(at) \subseteq 1 .. MaxBlocks
  BY <1>12, <1>13 DEF Range, S
<1> QED BY <1>11, <1>12, <1>14, <1>15 DEF IsFresh

LEMMA FreshCardinality ==
  ASSUME NEW at, NEW n \in Nat, IsFresh(at, n)
  PROVE  Cardinality(Range(at)) = n
<1> DEFINE R == Range(at)
<1>1. at \in [1 .. n -> R]
  BY DEF IsFresh, Range
<1>2. \A b \in R : \E i \in 1 .. n : at[i] = b
  BY DEF IsFresh, Range
<1>3. \A i, j \in 1 .. n : at[i] = at[j] => i = j
  BY DEF IsFresh
<1> HIDE DEF R
<1>4. at \in Bijection(1 .. n, R)
  BY <1>1, <1>2, <1>3, Fun_IsBij
<1>5. ExistsBijection(1 .. n, R)
  BY <1>4, Fun_ExistsBij
<1>6. IsFiniteSet(1 .. n) /\ Cardinality(1 .. n) = n
  BY FS_Interval
<1> QED BY <1>5, <1>6, FS_Bijection DEF R

\* A structure is whole: an array of rows that has its blocks, or nothing.
IsRows(rows) == \E X : rows \in Seq(X)
BlocksOf(c) ==
  1 + CASE c.kind = "object" -> Len(c.rows)
        [] c.kind = "stack" -> 2 * Len(c.rows)
        [] OTHER -> 0
Whole(c) ==
  /\ IsRows(c.rows)
  /\ c.frames = None => c.rows = <<>>
  /\ c.frames # None => Cardinality(Blocks(c)) = BlocksOf(c)

Owner(b) == b \in lost \/ \E s \in DOMAIN client : b \in Blocks(client[s])
HeapInv ==
  /\ BuildType
  /\ heap \subseteq 1 .. MaxBlocks
  /\ \A b : b \in heap <=> Owner(b)
  /\ \A s \in DOMAIN client : Blocks(client[s]) \cap lost = {}
  /\ \A s, t \in DOMAIN client : s # t => Blocks(client[s]) \cap Blocks(client[t]) = {}
  /\ \A s \in DOMAIN client : Whole(client[s])

LEMMA NothingOwned == ASSUME NEW c, c.frames = None, c.rows = <<>> PROVE Blocks(c) = {}
<1>1. DOMAIN c.rows = {}
  OBVIOUS
<1>2. Strings(c) = {}
  BY <1>1 DEF Strings
<1> QED BY <1>2 DEF Blocks

LEMMA EmptyIsWhole == ASSUME NEW kind PROVE Blocks(Empty(kind)) = {} /\ Whole(Empty(kind))
<1>1. Empty(kind).frames = None /\ Empty(kind).rows = <<>>
  BY DEF Empty
<1>2. <<>> \in Seq({})
  OBVIOUS
<1> QED BY <1>1, <1>2, NothingOwned DEF Whole, IsRows

\* A structure is put in a slot that was free, with blocks that were, or with
\* none and the blocks are lost.
LEMMA PutOwns ==
  ASSUME HeapInv, BuildType', NEW slot, slot \notin DOMAIN client, NEW c, put(slot, c), Whole(c), NEW F,
         F \cap heap = {}, F \subseteq 1 .. MaxBlocks, heap' = heap \cup F,
         \/ Blocks(c) = F /\ lost' = lost
         \/ Blocks(c) = {} /\ lost = {} /\ lost' = F
  PROVE  HeapInv'
<1>1. /\ DOMAIN client' = DOMAIN client \cup {slot} /\ client'[slot] = c
      /\ \A s \in DOMAIN client : client'[s] = client[s]
  BY DEF put
<1>2. \A s \in DOMAIN client : Blocks(client[s]) \subseteq heap
  BY DEF HeapInv, Owner
<1>3. lost \subseteq heap
  BY DEF HeapInv, Owner
<1>4. heap' \subseteq 1 .. MaxBlocks
  BY DEF HeapInv
<1>5. ASSUME NEW b PROVE b \in heap' <=> Owner(b)'
  <2>1. b \in heap' <=> Owner(b) \/ b \in F
    BY DEF HeapInv
  <2>2. Owner(b)' <=> b \in lost' \/ b \in Blocks(c) \/ \E s \in DOMAIN client : b \in Blocks(client[s])
    BY <1>1 DEF Owner
  <2> QED BY <2>1, <2>2 DEF Owner
<1>6. ASSUME NEW s \in DOMAIN client' PROVE Blocks(client'[s]) \cap lost' = {}
  <2>1. CASE s = slot
    BY <1>1, <1>3, <2>1
  <2>2. CASE s # slot
    <3>1. s \in DOMAIN client /\ client'[s] = client[s]
      BY <1>1, <2>2
    <3> QED BY <1>2, <3>1 DEF HeapInv
  <2> QED BY <2>1, <2>2
<1>7. ASSUME NEW s \in DOMAIN client' PROVE s # slot => Blocks(client'[s]) \cap Blocks(c) = {}
  BY <1>1, <1>2
<1>8. ASSUME NEW s \in DOMAIN client', NEW t \in DOMAIN client', s # t
      PROVE  Blocks(client'[s]) \cap Blocks(client'[t]) = {}
  <2>1. CASE s = slot
    BY <1>1, <1>7, <1>8, <2>1
  <2>2. CASE t = slot
    BY <1>1, <1>7, <1>8, <2>2
  <2>3. CASE s # slot /\ t # slot
    BY <1>1, <1>8, <2>3 DEF HeapInv
  <2> QED BY <2>1, <2>2, <2>3
<1>9. ASSUME NEW s \in DOMAIN client' PROVE Whole(client'[s])
  BY <1>1 DEF HeapInv
<1> QED BY <1>4, <1>5, <1>6, <1>8, <1>9 DEF HeapInv

LEMMA FailedOwns ==
  ASSUME HeapInv, BuildType', NEW slot, slot \notin DOMAIN client, NEW kind, failed(slot, kind)
  PROVE  HeapInv'
<1>1. put(slot, Empty(kind)) /\ heap' = heap \cup {} /\ lost' = lost
  BY DEF failed
<1>2. {} \cap heap = {} /\ {} \subseteq 1 .. MaxBlocks
  OBVIOUS
<1> QED BY <1>1, <1>2, EmptyIsWhole, PutOwns

LEMMA KeepOwns ==
  ASSUME HeapInv, BuildType', NEW slot, slot \notin DOMAIN client, NEW n \in Nat, Room(n),
         NEW c, keep(slot, c, n), Whole(c), Blocks(c) = Range(Fresh(n))
  PROVE  HeapInv'
<1>1. IsFresh(Fresh(n), n)
  BY BlocksAreFresh DEF HeapInv
<1>2. put(slot, c) /\ heap' = heap \cup Range(Fresh(n)) /\ lost' = lost
  BY DEF keep
<1>3. Range(Fresh(n)) \cap heap = {} /\ Range(Fresh(n)) \subseteq 1 .. MaxBlocks
  BY <1>1 DEF IsFresh
<1> QED BY <1>2, <1>3, PutOwns
-----------------------------------------------------------------------------
LEMMA FreshBlocks ==
  ASSUME NEW at, NEW n \in Nat, IsFresh(at, n)
  PROVE  DOMAIN at = 1 .. n /\ \A k \in 1 .. n : at[k] # None
<1>1. DOMAIN at = 1 .. n /\ Range(at) \subseteq 1 .. MaxBlocks
  BY DEF IsFresh
<1>2. \A k \in 1 .. n : at[k] \in Range(at)
  BY <1>1 DEF Range
<1>3. \A b \in 1 .. MaxBlocks : b # None
  BY CInterfaceAssumption DEF None
<1> QED BY <1>1, <1>2, <1>3

\* What is converted has the blocks it is given, all of them.
LEMMA SingleIsWhole ==
  ASSUME NEW at, IsFresh(at, 1), NEW kind, kind \notin {"object", "stack"}, NEW rows, IsRows(rows), NEW c,
         c = [kind |-> kind, frames |-> at[1], rows |-> rows]
  PROVE  Whole(c) /\ Blocks(c) = Range(at)
<1>1. c.kind = kind /\ c.frames = at[1] /\ c.rows = rows
  OBVIOUS
<1>2. DOMAIN at = 1 .. 1 /\ \A k \in 1 .. 1 : at[k] # None
  BY FreshBlocks
<1>3. 1 .. 1 = {1}
  OBVIOUS
<1>4. at[1] # None /\ DOMAIN at = {1}
  <2> HIDE DEF None
  <2> QED BY <1>2, <1>3
<1>5. Strings(c) = {}
  BY <1>1 DEF Strings
<1>6. Blocks(c) = {at[1]}
  BY <1>1, <1>4, <1>5 DEF Blocks
<1>7. Range(at) = {at[1]}
  BY <1>4 DEF Range
<1>8. Cardinality({at[1]}) = 1
  BY FS_Singleton
<1>9. BlocksOf(c) = 1
  BY <1>1 DEF BlocksOf
<1> HIDE DEF None
<1> QED BY <1>1, <1>4, <1>6, <1>7, <1>8, <1>9 DEF Whole

LEMMA ObjectIsWhole ==
  ASSUME NEW l \in Nat, NEW frames, DOMAIN frames = 1 .. l, NEW at, IsFresh(at, l + 1)
  PROVE  /\ Whole(convert_object_trace(frames, at))
         /\ Blocks(convert_object_trace(frames, at)) = Range(at)
<1> DEFINE c == convert_object_trace(frames, at)
<1>1. /\ c.kind = "object" /\ c.frames = at[1] /\ DOMAIN c.rows = 1 .. l
      /\ c.rows = [i \in 1 .. l |-> c.rows[i]]
      /\ \A i \in 1 .. l : c.rows[i].path_at = at[i + 1]
  BY DEF convert_object_trace
<1> HIDE DEF c
<1>2. l + 1 \in Nat
  OBVIOUS
<1>3. DOMAIN at = 1 .. l + 1 /\ \A k \in 1 .. l + 1 : at[k] # None
  BY <1>2, FreshBlocks
<1>4. ASSUME NEW k \in 1 .. l + 1 PROVE at[k] \in Blocks(c)
  <2>1. CASE k = 1
    BY <1>1, <1>3, <2>1 DEF Blocks
  <2>2. CASE k # 1
    <3>1. k - 1 \in 1 .. l /\ (k - 1) + 1 = k
      BY <2>2
    <3>2. at[k] \in Strings(c)
      BY <1>1, <3>1 DEF Strings
    <3> QED BY <1>3, <3>2 DEF Blocks
  <2> QED BY <2>1, <2>2
<1>5. ASSUME NEW b \in Blocks(c) PROVE \E k \in 1 .. l + 1 : b = at[k]
  <2>1. b = c.frames \/ b \in Strings(c)
    BY <1>5 DEF Blocks
  <2>2. CASE b = c.frames
    BY <1>1, <2>2
  <2>3. CASE b \in Strings(c)
    <3>1. PICK i \in 1 .. l : b = c.rows[i].path_at
      BY <1>1, <2>3 DEF Strings
    <3>2. i + 1 \in 1 .. l + 1
      OBVIOUS
    <3> QED BY <1>1, <3>1, <3>2
  <2> QED BY <2>1, <2>2, <2>3
<1>6. Blocks(c) = Range(at)
  BY <1>3, <1>4, <1>5 DEF Range
<1>7. c.rows \in Seq({c.rows[i] : i \in 1 .. l}) /\ Len(c.rows) = l
  BY <1>1, SequenceOf
<1>8. BlocksOf(c) = l + 1
  BY <1>1, <1>7 DEF BlocksOf
<1>9. Cardinality(Range(at)) = l + 1
  BY FreshCardinality
<1>10. c.frames # None
  BY <1>1, <1>3
<1>11. Whole(c)
  BY <1>6, <1>7, <1>8, <1>9, <1>10 DEF Whole, IsRows
<1> QED BY <1>6, <1>11 DEF c

LEMMA StackIsWhole ==
  ASSUME NEW l \in Nat, NEW frames, DOMAIN frames = 1 .. l, NEW at, IsFresh(at, 2 * l + 1)
  PROVE  /\ Whole(convert_stacktrace(frames, at))
         /\ Blocks(convert_stacktrace(frames, at)) = Range(at)
<1> DEFINE c == convert_stacktrace(frames, at)
           n == 2 * l + 1
<1>1. /\ c.kind = "stack" /\ c.frames = at[1] /\ DOMAIN c.rows = 1 .. l
      /\ c.rows = [i \in 1 .. l |-> c.rows[i]]
      /\ \A i \in 1 .. l : c.rows[i].filename_at = at[2 * i] /\ c.rows[i].symbol_at = at[2 * i + 1]
  BY DEF convert_stacktrace
<1> HIDE DEF c
<1>2. n \in Nat
  OBVIOUS
<1>3. DOMAIN at = 1 .. n /\ \A k \in 1 .. n : at[k] # None
  BY <1>2, FreshBlocks
<1>4. ASSUME NEW k \in 1 .. n PROVE at[k] \in Blocks(c)
  <2>1. CASE k = 1
    BY <1>1, <1>3, <2>1 DEF Blocks
  <2>2. CASE k # 1
    <3>1. PICK i \in 1 .. l : k = 2 * i \/ k = 2 * i + 1
      <4>1. k \div 2 \in 1 .. l /\ (k = 2 * (k \div 2) \/ k = 2 * (k \div 2) + 1)
        BY <2>2
      <4> QED BY <4>1
    <3>2. at[k] \in Strings(c)
      BY <1>1, <3>1 DEF Strings
    <3> QED BY <1>3, <3>2 DEF Blocks
  <2> QED BY <2>1, <2>2
<1>5. ASSUME NEW b \in Blocks(c) PROVE \E k \in 1 .. n : b = at[k]
  <2>1. b = c.frames \/ b \in Strings(c)
    BY <1>5 DEF Blocks
  <2>2. CASE b = c.frames
    <3>1. 1 \in 1 .. n
      OBVIOUS
    <3> QED BY <1>1, <2>2, <3>1
  <2>3. CASE b \in Strings(c)
    <3>1. PICK i \in 1 .. l : b = c.rows[i].filename_at \/ b = c.rows[i].symbol_at
      BY <1>1, <2>3 DEF Strings
    <3>2. 2 * i \in 1 .. n /\ 2 * i + 1 \in 1 .. n
      OBVIOUS
    <3> QED BY <1>1, <3>1, <3>2
  <2> QED BY <2>1, <2>2, <2>3
<1>6. Blocks(c) = Range(at)
  BY <1>3, <1>4, <1>5 DEF Range
<1>7. c.rows \in Seq({c.rows[i] : i \in 1 .. l}) /\ Len(c.rows) = l
  BY <1>1, SequenceOf
<1>8. BlocksOf(c) = n
  BY <1>1, <1>7 DEF BlocksOf
<1>9. Cardinality(Range(at)) = n
  BY <1>2, FreshCardinality
<1>10. c.frames # None
  BY <1>1, <1>3
<1> HIDE DEF n
<1>11. Whole(c)
  BY <1>6, <1>7, <1>8, <1>9, <1>10 DEF Whole, IsRows
<1> QED BY <1>6, <1>11 DEF c
-----------------------------------------------------------------------------
\* What resolve_frames makes of a trace is a sequence.
LEMMA ResolvedFrames ==
  ASSUME NEW Y, NEW pcs \in Seq(Y)
  PROVE  \E l \in Nat : DOMAIN resolve_frames(pcs) = 1 .. l /\ Len(resolve_frames(pcs)) = l
<1> DEFINE n == Len(pcs)
           s == [i \in DOMAIN pcs |-> resolved(pcs[i])]
           X == UNION {Range(s[i]) : i \in 1 .. n}
<1>1. n \in Nat /\ DOMAIN pcs = 1 .. n
  OBVIOUS
<1>2. ASSUME NEW pc PROVE resolved(pc) \in Seq(Range(resolved(pc)))
  <2>1. CASE pc \in DOMAIN Resolved
    BY <2>1, CInterfaceAssumption DEF resolved
  <2>2. CASE pc \notin DOMAIN Resolved
    <3> DEFINE u == unresolved(pc)
    <3>1. resolved(pc) = <<u>>
      BY <2>2 DEF resolved
    <3> HIDE DEF u
    <3>2. <<u>> \in Seq({u}) /\ Range(<<u>>) = {u}
      BY DEF Range
    <3> QED BY <3>1, <3>2
  <2> QED BY <2>1, <2>2
<1>3. ASSUME NEW i \in 1 .. n PROVE s[i] \in Seq(X)
  <2>1. s[i] = resolved(pcs[i])
    BY <1>1
  <2>2. s[i] \in Seq(Range(s[i]))
    BY <1>2, <2>1
  <2> HIDE DEF s
  <2>3. Range(s[i]) \subseteq X
    OBVIOUS
  <2> HIDE DEF X
  <2> QED BY <2>2, <2>3, SeqMonotonic
<1>4. s = [i \in 1 .. n |-> s[i]]
  BY <1>1
<1>5. resolve_frames(pcs) = FlattenSeq(s)
  BY DEF resolve_frames
<1> HIDE DEF s, X
<1>6. s \in Seq(Seq(X)) /\ Len(s) = n
  BY <1>1, <1>3, <1>4, SequenceOf
<1>7. FlattenSeq(s) \in Seq(X)
  BY <1>6, FlattenAligned
<1>8. Len(FlattenSeq(s)) \in Nat /\ DOMAIN FlattenSeq(s) = 1 .. Len(FlattenSeq(s))
  BY <1>7, LenProperties
<1> QED BY <1>5, <1>8

LEMMA RoomForLess ==
  ASSUME heap \subseteq 1 .. MaxBlocks, NEW n \in Nat, NEW m \in Nat, m <= n, Room(n)
  PROVE  Room(m)
<1>1. MaxBlocks \in Nat /\ IsFiniteSet(1 .. MaxBlocks)
  BY CInterfaceAssumption, FS_Interval
<1>2. Cardinality(heap) \in Nat
  BY <1>1, FS_Subset, FS_CardinalityType
<1> QED BY <1>1, <1>2 DEF Room

LEMMA SingleOwns ==
  ASSUME HeapInv, BuildType', NEW slot, slot \notin DOMAIN client, Room(1), NEW kind,
         kind \notin {"object", "stack"}, NEW rows, IsRows(rows),
         keep(slot, [kind |-> kind, frames |-> Fresh(1)[1], rows |-> rows], 1)
  PROVE  HeapInv'
<1> DEFINE c == [kind |-> kind, frames |-> Fresh(1)[1], rows |-> rows]
<1>1. IsFresh(Fresh(1), 1)
  BY BlocksAreFresh DEF HeapInv
<1>2. Whole(c) /\ Blocks(c) = Range(Fresh(1))
  BY <1>1, SingleIsWhole
<1>3. keep(slot, c, 1)
  OBVIOUS
<1> HIDE DEF c
<1> QED BY <1>2, <1>3, KeepOwns

LEMMA ObjectTraceOwns ==
  ASSUME HeapInv, BuildType', NEW slot, slot \notin DOMAIN client, NEW pcs, IsRows(pcs),
         keep_object_trace(slot, pcs)
  PROVE  HeapInv'
<1> DEFINE l == Len(pcs)
<1>1. l \in Nat /\ DOMAIN pcs = 1 .. l /\ l + 1 \in Nat
  BY DEF IsRows
<1>2. CASE failed(slot, "object")
  BY <1>2, FailedOwns
<1>3. ASSUME NEW known, NEW frames \in get_frames_object_info(pcs, known), Room(l + 1),
             keep(slot, convert_object_trace(frames, Fresh(l + 1)), l + 1)
      PROVE  HeapInv'
  <2>1. DOMAIN frames = 1 .. l
    BY <1>1 DEF get_frames_object_info
  <2> HIDE DEF l
  <2>2. IsFresh(Fresh(l + 1), l + 1)
    BY <1>1, <1>3, BlocksAreFresh DEF HeapInv
  <2> DEFINE c == convert_object_trace(frames, Fresh(l + 1))
  <2>3. Whole(c) /\ Blocks(c) = Range(Fresh(l + 1))
    BY <1>1, <2>1, <2>2, ObjectIsWhole
  <2> HIDE DEF c
  <2> QED BY <1>1, <1>3, <2>3, KeepOwns DEF c
<1> QED BY <1>2, <1>3 DEF keep_object_trace

LEMMA StackTraceOwns ==
  ASSUME HeapInv, BuildType', NEW slot, slot \notin DOMAIN client, NEW pcs, IsRows(pcs),
         keep_stacktrace(slot, pcs)
  PROVE  HeapInv'
<1> DEFINE frames == resolve_frames(pcs)
           n == 2 * Len(frames) + 1
           c == convert_stacktrace(frames, Fresh(n))
<1>1. /\ Room(n)
      /\ \/ keep(slot, c, n) \/ failed(slot, "stack") \/ failed_halfway(slot, frames)
  BY DEF keep_stacktrace
<1>2. PICK l \in Nat : DOMAIN frames = 1 .. l /\ Len(frames) = l
  BY ResolvedFrames DEF IsRows
<1> HIDE DEF frames, c
<1>3. n = 2 * l + 1 /\ n \in Nat
  BY <1>2
<1> HIDE DEF n
<1>4. CASE keep(slot, c, n)
  <2>1. IsFresh(Fresh(n), n)
    BY <1>1, <1>3, BlocksAreFresh DEF HeapInv
  <2>2. Whole(c) /\ Blocks(c) = Range(Fresh(n))
    BY <1>2, <1>3, <2>1, StackIsWhole DEF c
  <2> QED BY <1>1, <1>3, <1>4, <2>2, KeepOwns
<1>5. CASE failed_halfway(slot, frames)
  <2>1. PICK i \in DOMAIN frames :
          /\ lost = {} /\ lost' = Range(Fresh(2 * i)) /\ heap' = heap \cup lost'
          /\ put(slot, Empty("stack"))
    BY <1>5 DEF failed_halfway
  <2>2. 2 * i \in Nat /\ 2 * i <= n
    BY <1>2, <1>3
  <2>3. IsFresh(Fresh(2 * i), 2 * i)
    BY <1>1, <1>3, <2>2, RoomForLess, BlocksAreFresh DEF HeapInv
  <2>4. Range(Fresh(2 * i)) \cap heap = {} /\ Range(Fresh(2 * i)) \subseteq 1 .. MaxBlocks
    BY <2>3 DEF IsFresh
  <2> QED BY <2>1, <2>4, EmptyIsWhole, PutOwns
<1>6. CASE failed(slot, "stack")
  BY <1>6, FailedOwns
<1> QED BY <1>1, <1>4, <1>5, <1>6

LEMMA TraceIsRows ==
  ASSUME NEW pcs, NEW u, NEW first, NEW knows, NEW least, NEW most,
         TraceShows(pcs, u, first, knows, least, most)
  PROVE  IsRows(pcs)
<1>1. PICK length \in Nat : Shown(pcs, u, first, length, knows)
  BY DEF TraceShows
<1> QED BY <1>1 DEF Shown, IsRows

\* The rows of a raw trace are the addresses taken.
LEMMA TakenRows ==
  ASSUME BuildType, NEW entry \in {"ctrace_generate_raw_trace", "ctrace_generate_trace"},
         NEW skip \in Nat, NEW max_depth \in Nat
  PROVE  IsRows(taken([entry |-> entry, skip |-> skip, max_depth |-> max_depth]).frames)
<1> DEFINE call == [entry |-> entry, skip |-> skip, max_depth |-> max_depth]
<1>1. call.skip \in Nat /\ call.max_depth \in Nat /\ call.entry # "ctrace_safe_generate_raw_trace"
  OBVIOUS
<1> HIDE DEF call
<1>2. PICK least, most : TraceShows(taken(call).frames, user, call.skip, KnowsSignals, least, most)
  BY <1>1, TakenShows
<1> QED BY <1>2, TraceIsRows DEF call

LEMMA GenerateOwns ==
  ASSUME HeapInv, BuildType', NEW slot, generate_in(slot)
  PROVE  HeapInv'
<1>1. slot \notin DOMAIN client /\ BuildType
  BY DEF generate_in, HeapInv
<1>2. ASSUME NEW skip \in Nat, NEW max_depth \in Nat, ctrace_generate_raw_trace(slot, skip, max_depth)
      PROVE  HeapInv'
  <2> DEFINE trace == taken([entry |-> "ctrace_generate_raw_trace", skip |-> skip, max_depth |-> max_depth])
  <2>1. IsRows(trace.frames)
    BY <1>1, TakenRows
  <2>2. \/ failed(slot, "raw")
        \/ Room(1) /\ keep(slot, [kind |-> "raw", frames |-> Fresh(1)[1], rows |-> trace.frames], 1)
    BY <1>2 DEF ctrace_generate_raw_trace
  <2> HIDE DEF trace
  <2> QED BY <1>1, <2>1, <2>2, FailedOwns, SingleOwns
<1>3. ASSUME NEW kind, NEW skip \in Nat, NEW max_depth \in Nat,
             ctrace_generate(kind, slot, skip, max_depth)
      PROVE  HeapInv'
  <2> DEFINE trace == taken([entry |-> "ctrace_generate_trace", skip |-> skip, max_depth |-> max_depth])
  <2>1. IsRows(trace.frames)
    BY <1>1, TakenRows
  <2>2. \/ failed(slot, kind)
        \/ keep_object_trace(slot, trace.frames)
        \/ keep_stacktrace(slot, trace.frames)
    BY <1>3 DEF ctrace_generate
  <2> HIDE DEF trace
  <2> QED BY <1>1, <2>1, <2>2, FailedOwns, ObjectTraceOwns, StackTraceOwns
<1>4. \A call \in Calls : call.skip \in Nat /\ call.max_depth \in Nat
  BY CInterfaceAssumption
<1> QED BY <1>2, <1>3, <1>4 DEF generate_in

LEMMA ResolveOwns ==
  ASSUME HeapInv, BuildType', NEW slot, NEW from \in DOMAIN client, ctrace_resolve(slot, from)
  PROVE  HeapInv'
<1> DEFINE pcs == raw_addresses(client[from])
<1>1. slot \notin DOMAIN client
  BY DEF ctrace_resolve
<1>2. \/ \E to : failed(slot, to)
      \/ keep_object_trace(slot, pcs)
      \/ keep_stacktrace(slot, pcs)
  BY DEF ctrace_resolve
<1>3. IsRows(pcs)
  <2> DEFINE rows == client[from].rows
             l == Len(rows)
  <2>1. IsRows(rows)
    BY DEF HeapInv, Whole
  <2>2. l \in Nat /\ DOMAIN rows = 1 .. l
    BY <2>1 DEF IsRows
  <2>3. CASE client[from].kind = "raw"
    BY <2>1, <2>3 DEF raw_addresses
  <2>4. CASE client[from].kind # "raw"
    <3>1. pcs = [i \in 1 .. l |-> pcs[i]]
      BY <2>2, <2>4 DEF raw_addresses
    <3> HIDE DEF pcs
    <3>2. pcs \in Seq({pcs[i] : i \in 1 .. l})
      BY <2>2, <3>1, SequenceOf
    <3> QED BY <3>2 DEF IsRows
  <2> QED BY <2>3, <2>4
<1> HIDE DEF pcs
<1> QED BY <1>1, <1>2, <1>3, FailedOwns, ObjectTraceOwns, StackTraceOwns

LEMMA StringOwns ==
  ASSUME HeapInv, BuildType', NEW slot, NEW from \in DOMAIN client, ctrace_stacktrace_to_string(slot, from)
  PROVE  HeapInv'
<1> DEFINE frames == cpp_convert(client[from])
           rows == [i \in DOMAIN frames |-> write_frame(frames[i])]
<1>1. slot \notin DOMAIN client /\ Room(1)
      /\ keep(slot, [kind |-> "string", frames |-> Fresh(1)[1], rows |-> rows], 1)
  BY DEF ctrace_stacktrace_to_string
<1>2. PICK l \in Nat : DOMAIN client[from].rows = 1 .. l
  <2>1. IsRows(client[from].rows)
    BY DEF HeapInv, Whole
  <2> QED BY <2>1 DEF IsRows
<1>3. DOMAIN frames = 1 .. l
  BY <1>2 DEF cpp_convert
<1> HIDE DEF frames
<1>4. rows = [i \in 1 .. l |-> rows[i]]
  BY <1>3
<1> HIDE DEF rows
<1>5. rows \in Seq({rows[i] : i \in 1 .. l})
  BY <1>4, SequenceOf
<1> QED BY <1>1, <1>5, SingleOwns DEF IsRows

LEMMA FreeOwns ==
  ASSUME HeapInv, BuildType', NEW slot \in DOMAIN client, ctrace_free(slot)
  PROVE  HeapInv'
<1> DEFINE F == Blocks(client[slot])
<1>1. /\ DOMAIN client' = DOMAIN client
      /\ client'[slot] = Empty(client[slot].kind)
      /\ \A s \in DOMAIN client : s # slot => client'[s] = client[s]
      /\ heap' = heap \ F /\ lost' = lost
  BY DEF ctrace_free
<1>2. Blocks(client'[slot]) = {} /\ Whole(client'[slot])
  BY <1>1, EmptyIsWhole
<1> HIDE DEF F
<1>3. F \cap lost = {} /\ \A s \in DOMAIN client : s # slot => Blocks(client[s]) \cap F = {}
  BY DEF HeapInv, F
<1>4. ASSUME NEW b PROVE b \in heap' <=> Owner(b)'
  <2>1. b \in heap <=> Owner(b)
    BY DEF HeapInv
  <2>2. Owner(b) <=> b \in lost \/ b \in F \/ \E s \in DOMAIN client : s # slot /\ b \in Blocks(client[s])
    BY DEF Owner, F
  <2>3. Owner(b)' <=> b \in lost \/ \E s \in DOMAIN client : s # slot /\ b \in Blocks(client[s])
    BY <1>1, <1>2 DEF Owner
  <2> QED BY <1>1, <1>3, <2>1, <2>2, <2>3
<1>5. ASSUME NEW s \in DOMAIN client' PROVE Blocks(client'[s]) \cap lost' = {} /\ Whole(client'[s])
  <2>1. CASE s = slot
    BY <1>2, <2>1
  <2>2. CASE s # slot
    BY <1>1, <2>2 DEF HeapInv
  <2> QED BY <2>1, <2>2
<1>6. ASSUME NEW s \in DOMAIN client', NEW t \in DOMAIN client', s # t
      PROVE  Blocks(client'[s]) \cap Blocks(client'[t]) = {}
  <2>1. CASE s = slot \/ t = slot
    BY <1>2, <2>1
  <2>2. CASE s # slot /\ t # slot
    BY <1>1, <1>6, <2>2 DEF HeapInv
  <2> QED BY <2>1, <2>2
<1>7. heap' \subseteq 1 .. MaxBlocks
  BY <1>1 DEF HeapInv
<1> QED BY <1>4, <1>5, <1>6, <1>7 DEF HeapInv

LEMMA ForgetOwns ==
  ASSUME HeapInv, BuildType', NEW slot \in DOMAIN client, forget(slot)
  PROVE  HeapInv'
<1>1. /\ DOMAIN client' = DOMAIN client \ {slot}
      /\ \A s \in DOMAIN client \ {slot} : client'[s] = client[s]
      /\ heap' = heap /\ lost' = lost
  BY DEF forget
<1>2. Blocks(client[slot]) = {}
  <2>1. client[slot].frames = None /\ client[slot].rows = <<>>
    BY DEF forget, HeapInv, Whole
  <2> QED BY <2>1, NothingOwned
<1>3. ASSUME NEW b PROVE Owner(b)' <=> Owner(b)
  BY <1>1, <1>2 DEF Owner
<1> QED BY <1>1, <1>3 DEF HeapInv

LEMMA StepOwns ==
  ASSUME HeapInv, [Next]_vars
  PROVE  HeapInv'
<1>1. BuildType'
  <2>1. UNCHANGED <<build, user>>
    BY Steps, LastIsKept DEF take, take_safely, safe_object_frame, ctrace_print_stacktrace, go_on, LastKept
  <2> QED BY <2>1 DEF HeapInv, BuildType
<1>2. ASSUME UNCHANGED <<heap, client, lost>> PROVE HeapInv'
  BY <1>1, <1>2 DEF HeapInv, Owner
<1>3. ASSUME NEW call, NEW size, take(call) \/ take_safely(call, size) PROVE HeapInv'
  <2>1. UNCHANGED <<heap, client, lost>>
    BY <1>3 DEF take, take_safely
  <2> QED BY <1>2, <2>1
<1>4. ASSUME NEW x, safe_object_frame(x) \/ ctrace_print_stacktrace(x) PROVE HeapInv'
  <2>1. UNCHANGED <<heap, client, lost>>
    BY <1>4 DEF safe_object_frame, ctrace_print_stacktrace
  <2> QED BY <1>2, <2>1
<1>5. ASSUME go_on \/ load \/ unload \/ UNCHANGED vars PROVE HeapInv'
  <2>1. UNCHANGED <<heap, client, lost>>
    BY <1>5 DEF go_on, load, unload, vars
  <2> QED BY <1>2, <2>1
<1> QED BY <1>1, <1>3, <1>4, <1>5, GenerateOwns, ResolveOwns, StringOwns, FreeOwns, ForgetOwns, Steps

\* Whatever structures a client makes, resolves, prints and frees, in whatever
\* order, and whatever fails on the way: every block in use belongs to one
\* structure, or to a conversion that failed halfway, and a structure has all
\* the blocks it points to.
THEOREM MemoryIsOwned == Spec => []HeapIsOwned
<1>1. Init => HeapInv
  <2> SUFFICES ASSUME Init PROVE HeapInv
    OBVIOUS
  <2>1. heap = {} /\ DOMAIN client = {} /\ lost = {}
    BY DEF Init
  <2>2. BuildType
    BY InitShows
  <2> QED BY <2>1, <2>2 DEF HeapInv, Owner
<1>2. HeapInv /\ [Next]_vars => HeapInv'
  BY StepOwns
<1>3. HeapInv => HeapIsOwned
  <2> SUFFICES ASSUME HeapInv PROVE HeapIsOwned
    OBVIOUS
  <2> DEFINE blocks == [s \in DOMAIN client |-> Blocks(client[s])]
  <2>1. heap = (UNION Range(blocks)) \cup lost
    <3>1. \A b : b \in UNION Range(blocks) <=> \E s \in DOMAIN client : b \in Blocks(client[s])
      BY DEF Range
    <3> QED BY <3>1 DEF HeapInv, Owner
  <2>2. \A s \in DOMAIN client : blocks[s] \cap lost = {}
    BY DEF HeapInv
  <2>3. \A s, t \in DOMAIN client : s # t => blocks[s] \cap blocks[t] = {}
    BY DEF HeapInv
  <2>4. ASSUME NEW s \in DOMAIN client, client[s].frames # None
        PROVE  Cardinality(blocks[s]) = BlocksOf(client[s])
    BY <2>4 DEF HeapInv, Whole
  <2> QED BY <2>1, <2>2, <2>3, <2>4 DEF HeapIsOwned, BlocksOf
<1> QED BY <1>1, <1>2, <1>3, PTL DEF Spec
=============================================================================
