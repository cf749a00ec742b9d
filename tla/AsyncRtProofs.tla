---------------------------- MODULE AsyncRtProofs ----------------------------
(***************************************************************************)
(* The async runtime: what the operations of its timer heap do to any      *)
(* heap, and that no future is forgotten and no timer overtaken, for any   *)
(* pool of futures, any tasks and any width of the tick counter.           *)
(***************************************************************************)
EXTENDS AsyncRt, KernelProofs

-----------------------------------------------------------------------------
(* The contents of the heap.                                               *)

Entry == [wake : Tick, slot : Slots]

\* No two entries for one slot.
Apart(h) == \A i, j \in 1 .. Len(h) : h[i].slot = h[j].slot => i = j

\* h holds the entries of g, in some order.
Rearranged(g, h) ==
  /\ h \in Seq(Entry) /\ Len(h) = Len(g) /\ Range(h) = Range(g)
  /\ Apart(g) => Apart(h)

\* The exchange of two elements, the only write of sift_up and sift_down.
LEMMA SwapLemma ==
  ASSUME NEW h \in Seq(Entry), NEW i \in 1 .. Len(h), NEW j \in 1 .. Len(h)
  PROVE  /\ Rearranged(h, Swap(h, i, j))
         /\ Swap(h, i, j) = [k \in 1 .. Len(h) |->
              IF k = j THEN h[i] ELSE IF k = i THEN h[j] ELSE h[k]]
<1> DEFINE g == Swap(h, i, j)
<1>1. /\ h \in [1 .. Len(h) -> Entry] /\ DOMAIN h = 1 .. Len(h) /\ Len(h) \in Nat
      /\ h[i] \in Entry /\ h[j] \in Entry
  BY LenProperties
<1>2. g = [k \in 1 .. Len(h) |-> IF k = j THEN h[i] ELSE IF k = i THEN h[j] ELSE h[k]]
  BY <1>1 DEF Swap
<1>3. g \in [1 .. Len(h) -> Entry]
  BY <1>1, <1>2
<1>4. g \in Seq(Entry) /\ Len(g) = Len(h) /\ DOMAIN g = 1 .. Len(h)
  BY <1>1, <1>3, SeqDef, LenProperties
<1>5. Range(g) = Range(h)
  <2>1. \A k \in 1 .. Len(h) : g[k] \in Range(h)
    BY <1>1, <1>2 DEF Range
  <2>2. \A k \in 1 .. Len(h) : h[k] \in Range(g)
    <3> SUFFICES ASSUME NEW k \in 1 .. Len(h) PROVE \E m \in 1 .. Len(h) : g[m] = h[k]
      BY <1>4 DEF Range
    <3>1. CASE k = i
      BY <1>2, <3>1
    <3>2. CASE k = j
      BY <1>2, <3>2
    <3>3. CASE k # i /\ k # j
      BY <1>2, <3>3
    <3> QED BY <3>1, <3>2, <3>3
  <2> HIDE DEF g
  <2> QED BY <1>1, <1>4, <2>1, <2>2 DEF Range
<1>6. Apart(h) => Apart(g)
  <2> SUFFICES ASSUME Apart(h), NEW k \in 1 .. Len(h), NEW m \in 1 .. Len(h),
                      g[k].slot = g[m].slot
               PROVE  k = m
    BY <1>4 DEF Apart
  <2> DEFINE p(x) == IF x = j THEN i ELSE IF x = i THEN j ELSE x
  <2>1. g[k] = h[p(k)] /\ g[m] = h[p(m)] /\ p(k) \in 1 .. Len(h) /\ p(m) \in 1 .. Len(h)
    BY <1>2
  <2>2. p(k) = p(m)
    <3> HIDE DEF p, g
    <3> QED BY <2>1 DEF Apart
  <2> QED BY <2>2
<1> QED BY <1>2, <1>4, <1>5, <1>6 DEF Rearranged

-----------------------------------------------------------------------------
(* Loops.  A recursive function of TimerQueue runs one round after another *)
(* on some set of states.                                                  *)

\* Induction up to a bound, by a least counterexample.
LEMMA UpTo ==
  ASSUME NEW N \in Nat, NEW T, 0 \in T, \A n \in 1 .. N : n - 1 \in T => n \in T
  PROVE  \A n \in 0 .. N : n \in T
<1> DEFINE bad == {n \in 0 .. N : n \notin T}
<1> SUFFICES ASSUME bad # {} PROVE FALSE
  OBVIOUS
<1>1. Min(bad) \in bad /\ \A y \in bad : Min(bad) <= y
  <2>1. bad \in SUBSET Nat
    OBVIOUS
  <2> HIDE DEF bad
  <2> QED BY <2>1, MinOfNats
<1>2. PICK m \in bad : \A y \in bad : m <= y
  BY <1>1
<1>3. m \in 1 .. N /\ m - 1 \in 0 .. N /\ ~(m <= m - 1)
  BY <1>2
<1> QED
  BY <1>2, <1>3

\* The states a loop goes through.
Rounds(w, x, F, N) ==
  w[0] = x /\ \A n \in 1 .. N : w[n] = F[w[n - 1]]

LEMMA RoundsExist ==
  ASSUME NEW N \in Nat, NEW S, NEW F \in [S -> S], NEW x \in S
  PROVE  \E w \in [0 .. N -> S] : Rounds(w, x, F, N)
<1> DEFINE T == {n \in Nat : \E w \in [0 .. n -> S] : Rounds(w, x, F, n)}
<1>1. 0 \in T
  <2>1. Rounds([i \in 0 .. 0 |-> x], x, F, 0)
    BY DEF Rounds
  <2> QED BY <2>1
<1>2. \A n \in 1 .. N : n - 1 \in T => n \in T
  <2> SUFFICES ASSUME NEW n \in 1 .. N, n - 1 \in T PROVE n \in T
    OBVIOUS
  <2>1. PICK w \in [0 .. n - 1 -> S] : Rounds(w, x, F, n - 1)
    OBVIOUS
  <2> DEFINE v == [i \in 0 .. n |-> IF i = n THEN F[w[n - 1]] ELSE w[i]]
  <2>2. v \in [0 .. n -> S]
    OBVIOUS
  <2>3. v[0] = x
    BY <2>1 DEF Rounds
  <2>4. \A i \in 1 .. n : v[i] = F[v[i - 1]]
    <3> SUFFICES ASSUME NEW i \in 1 .. n PROVE v[i] = F[v[i - 1]]
      OBVIOUS
    <3>1. i - 1 \in 0 .. n - 1 /\ v[i - 1] = w[i - 1]
      OBVIOUS
    <3>2. CASE i = n
      BY <3>1, <3>2
    <3>3. CASE i # n
      <4>1. i \in 1 .. n - 1 /\ v[i] = w[i]
        BY <3>3
      <4>2. w[i] = F[w[i - 1]]
        BY <2>1, <4>1 DEF Rounds
      <4> HIDE DEF v
      <4> QED BY <3>1, <4>1, <4>2
    <3> QED BY <3>2, <3>3
  <2>5. Rounds(v, x, F, n)
    <3> HIDE DEF v
    <3> QED BY <2>3, <2>4 DEF Rounds
  <2> HIDE DEF v
  <2> QED BY <2>2, <2>5
<1> HIDE DEF T
<1>3. N \in T
  BY <1>1, <1>2, UpTo
<1> QED BY <1>3 DEF T

\* What every round takes from one set of states to the next, the loop takes
\* from the first to the last.
LEMMA LoopInduction ==
  ASSUME NEW N \in Nat, NEW w, NEW x, NEW F, Rounds(w, x, F, N), NEW G, x \in G[0],
         \A n \in 1 .. N : \A s \in G[n - 1] : F[s] \in G[n]
  PROVE  w[N] \in G[N]
<1> DEFINE T == {n \in 0 .. N : w[n] \in G[n]}
<1>1. 0 \in T /\ \A n \in 1 .. N : n - 1 \in T => n \in T
  BY DEF Rounds
<1> HIDE DEF T
<1>2. N \in T
  BY <1>1, UpTo
<1> QED BY <1>2 DEF T

-----------------------------------------------------------------------------
(* sift_up and sift_down.                                                  *)

\* A heap in a loop and the place of the entry that moves.
Sifting == {s \in Seq(Entry) \X Nat : s[2] \in 1 .. Len(s[1])}

LEMMA RiseLemma ==
  ASSUME NEW s \in Sifting
  PROVE  /\ Rise(s) \in Sifting
         /\ Rearranged(s[1], Rise(s)[1])
         /\ \/ Rise(s) = s /\ ~(s[2] > 1 /\ Earlier(s[1][s[2]], s[1][s[2] \div 2]))
            \/ /\ s[2] > 1 /\ Earlier(s[1][s[2]], s[1][s[2] \div 2])
               /\ Rise(s)[1] = Swap(s[1], s[2], s[2] \div 2)
               /\ Rise(s)[2] = s[2] \div 2
<1> DEFINE h == s[1]
           i == s[2]
<1>1. h \in Seq(Entry) /\ i \in 1 .. Len(h) /\ Len(h) \in Nat /\ s = << h, i >>
  BY DEF Sifting
<1>2. CASE i > 1 /\ Earlier(h[i], h[i \div 2])
  <2>1. i \div 2 \in 1 .. Len(h)
    BY <1>1, <1>2
  <2>2. Rise(s) = << Swap(h, i, i \div 2), i \div 2 >>
    BY <1>2 DEF Rise
  <2>3. Rearranged(h, Swap(h, i, i \div 2))
    BY <1>1, <2>1, SwapLemma
  <2>4. Rise(s) \in Sifting
    BY <2>1, <2>2, <2>3 DEF Rearranged, Sifting
  <2> QED BY <1>2, <2>2, <2>3, <2>4
<1>3. CASE ~(i > 1 /\ Earlier(h[i], h[i \div 2]))
  <2>1. Rise(s) = s
    BY <1>3 DEF Rise
  <2> QED BY <1>1, <1>3, <2>1 DEF Rearranged
<1> QED BY <1>2, <1>3

\* The loop of sift_up as rounds.
LEMMA SiftUpRounds ==
  ASSUME NEW heap \in Seq(Entry), NEW last \in 1 .. Len(heap)
  PROVE  \E w : /\ Rounds(w, << heap, last >>, [s \in Sifting |-> Rise(s)], Len(heap))
                /\ SiftUp(heap, last) = w[Len(heap)][1]
<1> DEFINE N == Len(heap)
           x == << heap, last >>
           F == [s \in Sifting |-> Rise(s)]
           Loop(v) == v = [n \in 0 .. N |-> IF n = 0 THEN x ELSE Rise(v[n - 1])]
<1>1. N \in Nat /\ x \in Sifting /\ F \in [Sifting -> Sifting]
  BY RiseLemma DEF Sifting
<1>2. PICK w \in [0 .. N -> Sifting] : Rounds(w, x, F, N)
  <2> HIDE DEF x, F, N
  <2> QED BY <1>1, RoundsExist
<1>3. Loop(w)
  <2>1. \A n \in 0 .. N : w[n] = IF n = 0 THEN x ELSE Rise(w[n - 1])
    <3> SUFFICES ASSUME NEW n \in 0 .. N, n # 0 PROVE w[n] = Rise(w[n - 1])
      BY <1>2 DEF Rounds
    <3>1. n \in 1 .. N /\ w[n - 1] \in Sifting
      BY <1>1, <1>2
    <3> QED BY <1>2, <3>1 DEF Rounds
  <2> HIDE DEF x
  <2> QED BY <1>2, <2>1
<1> DEFINE v == CHOOSE f : Loop(f)
<1>4. Loop(v)
  <2> HIDE DEF Loop
  <2> QED BY <1>3
<1>5. SiftUp(heap, last) = v[N][1]
  BY DEF SiftUp
<1> HIDE DEF v
<1>6. v[0] = x /\ \A n \in 1 .. N : v[n] = Rise(v[n - 1])
  <2> HIDE DEF x
  <2> QED BY <1>1, <1>4
<1> DEFINE T == {n \in 0 .. N : v[n] \in Sifting}
<1>7. \A n \in 0 .. N : v[n] \in Sifting
  <2>1. 0 \in T /\ \A n \in 1 .. N : n - 1 \in T => n \in T
    <3> HIDE DEF x, N
    <3> QED BY <1>1, <1>6, RiseLemma
  <2> HIDE DEF T
  <2>2. \A n \in 0 .. N : n \in T
    BY <1>1, <2>1, UpTo
  <2> QED BY <2>2 DEF T
<1>8. Rounds(v, x, F, N)
  <2>1. \A n \in 1 .. N : v[n] = F[v[n - 1]]
    <3> HIDE DEF x, N
    <3> QED BY <1>1, <1>6, <1>7
  <2> HIDE DEF F, x, N
  <2> QED BY <1>6, <2>1 DEF Rounds
<1> QED BY <1>5, <1>8

\* Earlier is the order of some ranks: what holds of deadlines that are less than
\* half a turn of the counter apart (RankLemma).
Ranked(E, rank) ==
  /\ rank \in [E -> Int]
  /\ \A e, f \in E : Earlier(e, f) <=> rank[e] < rank[f]

\* No entry is earlier than its parent.
HeapOrdered(h) == \A k \in 2 .. Len(h) : ~Earlier(h[k], h[k \div 2])

\* The order, but for the entry at place i on its way up,
RisingAt(h, i) ==
  /\ \A k \in 2 .. Len(h) : k # i => ~Earlier(h[k], h[k \div 2])
  /\ \A k \in 2 .. Len(h) : k \div 2 = i /\ i > 1 => ~Earlier(h[k], h[i \div 2])

\* or on its way down.
SinkingAt(h, i) ==
  /\ \A k \in 2 .. Len(h) : k \div 2 # i => ~Earlier(h[k], h[k \div 2])
  /\ \A k \in 2 .. Len(h) : k \div 2 = i /\ i > 1 => ~Earlier(h[k], h[i \div 2])

\* In an ordered heap no deadline is before the first one (wake_expired).
LEMMA TopLemma ==
  ASSUME NEW h \in Seq(Entry), HeapOrdered(h), NEW rank, Ranked(Range(h), rank)
  PROVE  \A k \in 1 .. Len(h) : ~Earlier(h[k], h[1])
<1> DEFINE bad == {k \in 1 .. Len(h) : Earlier(h[k], h[1])}
<1> SUFFICES ASSUME bad # {} PROVE FALSE
  OBVIOUS
<1>1. Min(bad) \in bad /\ \A y \in bad : Min(bad) <= y
  <2>1. bad \in SUBSET Nat
    OBVIOUS
  <2> HIDE DEF bad
  <2> QED BY <2>1, MinOfNats
<1>2. PICK m \in bad : \A y \in bad : m <= y
  BY <1>1
<1>3. \A k \in 1 .. Len(h) : h[k] \in Range(h)
  BY LenProperties DEF Range
<1>4. m \in 1 .. Len(h) /\ Earlier(h[m], h[1]) /\ 1 \in 1 .. Len(h)
  BY <1>2
<1>5. m # 1
  BY <1>3, <1>4 DEF Ranked
<1>6. m \in 2 .. Len(h) /\ m \div 2 \in 1 .. Len(h) /\ ~(m <= m \div 2)
  BY <1>4, <1>5
<1>7. ~Earlier(h[m \div 2], h[1]) /\ ~Earlier(h[m], h[m \div 2])
  BY <1>2, <1>6 DEF HeapOrdered
<1> QED
  BY <1>3, <1>4, <1>6, <1>7 DEF Ranked

\* A round of sift_up moves the place that is out of order up.
LEMMA RiseOrder ==
  ASSUME NEW s \in Sifting, NEW rank, Ranked(Range(s[1]), rank), RisingAt(s[1], s[2])
  PROVE  IF Rise(s) = s THEN HeapOrdered(s[1])
         ELSE Rise(s)[2] < s[2] /\ RisingAt(Rise(s)[1], Rise(s)[2])
<1> DEFINE h == s[1]
           i == s[2]
           p == i \div 2
           g == Rise(s)[1]
<1>1. h \in Seq(Entry) /\ i \in 1 .. Len(h) /\ Len(h) \in Nat
  BY DEF Sifting
<1>2. \A k \in 1 .. Len(h) : h[k] \in Range(h)
  BY <1>1, LenProperties DEF Range
<1>3. CASE Rise(s) = s
  <2>1. ~(i > 1 /\ Earlier(h[i], h[p]))
    <3>1. i > 1 => i \div 2 # i
      BY <1>1
    <3> QED BY <1>3, <3>1, RiseLemma
  <2>2. HeapOrdered(h)
    BY <1>1, <2>1 DEF HeapOrdered, RisingAt
  <2> QED BY <1>3, <2>2
<1>4. CASE Rise(s) # s
  <2>1. /\ i > 1 /\ Earlier(h[i], h[p]) /\ g = Swap(h, i, p) /\ Rise(s)[2] = p
    BY <1>4, RiseLemma
  <2>2. p \in 1 .. Len(h) /\ p < i
    BY <1>1, <2>1
  <2>3. g = [k \in 1 .. Len(h) |-> IF k = p THEN h[i] ELSE IF k = i THEN h[p] ELSE h[k]]
        /\ Len(g) = Len(h)
    <3> HIDE DEF g, h, i, p
    <3>1. Rearranged(h, g)
      BY <1>1, <2>1, <2>2, SwapLemma
    <3>2. Len(g) = Len(h)
      BY <3>1 DEF Rearranged
    <3>3. Swap(h, i, p) = [k \in 1 .. Len(h) |->
                            IF k = p THEN h[i] ELSE IF k = i THEN h[p] ELSE h[k]]
      BY <1>1, <2>2, SwapLemma
    <3> QED BY <2>1, <3>2, <3>3
  <2> HIDE DEF g
  <2>4. ASSUME NEW k \in 2 .. Len(h), k # p PROVE ~Earlier(g[k], g[k \div 2])
    <3>1. k \div 2 \in 1 .. Len(h) /\ k \div 2 < k
      BY <1>1
    <3>2. CASE k = i
      <4>1. g[k] = h[p] /\ g[k \div 2] = h[i]
        BY <1>1, <2>2, <2>3, <3>2
      <4>2. h[i] \in Range(h) /\ h[p] \in Range(h)
        BY <1>1, <1>2, <2>2
      <4>3. Earlier(h[i], h[p])
        BY <2>1
      <4>4. ~Earlier(h[p], h[i])
        <5> HIDE DEF h, i, p
        <5> QED BY <4>2, <4>3 DEF Ranked, h
      <4> QED BY <4>1, <4>4
    <3>3. CASE k # i /\ k \div 2 = i
      <4>1. ~Earlier(h[k], h[p])
        BY <2>1, <3>3 DEF RisingAt
      <4> QED BY <2>1, <2>2, <2>3, <2>4, <3>1, <3>3, <4>1
    <3>4. CASE k # i /\ k \div 2 = p
      <4>1. ~Earlier(h[k], h[p])
        BY <3>4 DEF RisingAt
      <4>2. g[k] = h[k] /\ g[k \div 2] = h[i]
        BY <2>3, <2>4, <3>1, <3>4
      <4> QED BY <1>1, <1>2, <2>1, <2>2, <4>1, <4>2 DEF Ranked
    <3>5. CASE k # i /\ k \div 2 # i /\ k \div 2 # p
      <4>1. ~Earlier(h[k], h[k \div 2])
        BY <3>5 DEF RisingAt
      <4> QED BY <2>3, <2>4, <3>1, <3>5, <4>1
    <3> QED BY <3>2, <3>3, <3>4, <3>5
  <2>5. ASSUME NEW k \in 2 .. Len(h), k \div 2 = p, p > 1 PROVE ~Earlier(g[k], g[p \div 2])
    <3>1. p \div 2 \in 1 .. Len(h) /\ p \div 2 # p /\ p \div 2 # i /\ p \in 2 .. Len(h)
          /\ p # i /\ k # p
      BY <1>1, <2>2, <2>5
    <3>2. ~Earlier(h[p], h[p \div 2]) /\ g[p \div 2] = h[p \div 2]
      BY <2>3, <3>1 DEF RisingAt
    <3>3. CASE k = i
      BY <2>3, <3>1, <3>2, <3>3
    <3>4. CASE k # i
      <4>1. ~Earlier(h[k], h[p]) /\ g[k] = h[k]
        BY <2>3, <2>5, <3>1, <3>4 DEF RisingAt
      <4> QED BY <1>2, <2>2, <3>1, <3>2, <4>1 DEF Ranked
    <3> QED BY <3>3, <3>4
  <2> QED BY <1>4, <2>1, <2>2, <2>3, <2>4, <2>5 DEF RisingAt, g
<1> QED BY <1>3, <1>4

\* sift_up keeps the entries and, if only the new one was out of order, leaves a
\* heap in order.
LEMMA SiftUpLemma ==
  ASSUME NEW heap \in Seq(Entry), NEW last \in 1 .. Len(heap)
  PROVE  /\ Rearranged(heap, SiftUp(heap, last))
         /\ \A rank : Ranked(Range(heap), rank) /\ RisingAt(heap, last)
                        => HeapOrdered(SiftUp(heap, last))
<1> DEFINE N == Len(heap)
           x == << heap, last >>
           F == [s \in Sifting |-> Rise(s)]
           kept == {s \in Sifting : Rearranged(heap, s[1])}
<1>1. PICK w : Rounds(w, x, F, N) /\ SiftUp(heap, last) = w[N][1]
  BY SiftUpRounds
<1>2. N \in Nat /\ x \in kept
  BY DEF Sifting, Rearranged
<1>3. \A s \in kept : F[s] \in kept
  BY RiseLemma DEF Rearranged
<1>4. w[N] \in kept
  <2> DEFINE G == [n \in 0 .. N |-> kept]
  <2>1. x \in G[0] /\ \A n \in 1 .. N : \A s \in G[n - 1] : F[s] \in G[n]
    <3> HIDE DEF kept, x, F
    <3> QED BY <1>2, <1>3
  <2>2. w[N] \in G[N]
    <3> HIDE DEF G, x, F, N
    <3> QED BY <1>1, <1>2, <2>1, LoopInduction
  <2> QED BY <1>2, <2>2
<1>5. ASSUME NEW rank, Ranked(Range(heap), rank), RisingAt(heap, last)
      PROVE  HeapOrdered(SiftUp(heap, last))
  <2> DEFINE G == [n \in 0 .. N |->
               {s \in kept : \/ Rise(s) = s /\ HeapOrdered(s[1])
                             \/ s[2] + n <= N /\ RisingAt(s[1], s[2])}]
  <2>1. x \in G[0]
    BY <1>2, <1>5
  <2>2. ASSUME NEW n \in 1 .. N, NEW s \in G[n - 1] PROVE F[s] \in G[n]
    <3>0. s \in kept /\ F[s] \in kept
      BY <1>3, <2>2
    <3>1. F[s] = Rise(s) /\ Ranked(Range(s[1]), rank) /\ s[2] \in Nat /\ Rise(s)[2] \in Nat
      <4>1. F[s] = Rise(s) /\ Range(s[1]) = Range(heap)
        BY <3>0 DEF Rearranged
      <4> HIDE DEF F
      <4> QED BY <1>5, <3>0, <4>1 DEF Sifting
    <3>2. CASE Rise(s) = s /\ HeapOrdered(s[1])
      <4> HIDE DEF kept, F
      <4> QED BY <3>0, <3>1, <3>2
    <3>3. CASE s[2] + (n - 1) <= N /\ RisingAt(s[1], s[2])
      <4>1. IF Rise(s) = s THEN HeapOrdered(s[1])
            ELSE Rise(s)[2] < s[2] /\ RisingAt(Rise(s)[1], Rise(s)[2])
        BY <3>0, <3>1, <3>3, RiseOrder
      <4> HIDE DEF kept, F
      <4> QED BY <1>2, <3>0, <3>1, <3>3, <4>1
    <3> QED BY <2>2, <3>2, <3>3
  <2>3. w[N] \in G[N]
    <3> HIDE DEF G, x, F, N
    <3> QED BY <1>1, <1>2, <2>1, <2>2, LoopInduction
  <2>4. w[N] \in kept /\ w[N][2] \in 1 .. N
    BY <1>4 DEF Sifting, Rearranged
  <2>5. HeapOrdered(w[N][1])
    <3> HIDE DEF kept
    <3> QED BY <1>2, <2>3, <2>4
  <2> QED BY <1>1, <2>5
<1> QED BY <1>1, <1>4, <1>5

\* The child that sift_down exchanges with, or the place itself.
LEMMA SmallestLemma ==
  ASSUME NEW h \in Seq(Entry), NEW i \in 1 .. Len(h)
  PROVE  /\ Smallest(h, i) \in {i, 2 * i, 2 * i + 1} \cap (1 .. Len(h))
         /\ \A rank : Ranked(Range(h), rank) =>
              /\ Smallest(h, i) # i => rank[h[Smallest(h, i)]] < rank[h[i]]
              /\ \A k \in 2 .. Len(h) : k \div 2 = i => ~Earlier(h[k], h[Smallest(h, i)])
<1> DEFINE better(a, k) == IF k <= Len(h) /\ Earlier(h[k], h[a]) THEN k ELSE a
           b == better(i, 2 * i)
           j == better(b, 2 * i + 1)
<1>1. Len(h) \in Nat /\ i \in Nat /\ Smallest(h, i) = j
  BY DEF Smallest
<1>2. b \in {i, 2 * i} \cap (1 .. Len(h))
  BY <1>1
<1>3. j \in {i, 2 * i, 2 * i + 1} \cap (1 .. Len(h))
  <2> HIDE DEF b
  <2> QED BY <1>1, <1>2
<1>4. ASSUME NEW rank, Ranked(Range(h), rank)
      PROVE  /\ j # i => rank[h[j]] < rank[h[i]]
             /\ \A k \in 2 .. Len(h) : k \div 2 = i => ~Earlier(h[k], h[j])
  <2>1. \A k \in 1 .. Len(h) : h[k] \in Range(h) /\ rank[h[k]] \in Int
    BY <1>4, LenProperties DEF Range, Ranked
  <2>2. \A k, m \in 1 .. Len(h) : Earlier(h[k], h[m]) <=> rank[h[k]] < rank[h[m]]
    BY <1>4, <2>1 DEF Ranked
  <2>3. /\ b # i => rank[h[b]] < rank[h[i]]
        /\ rank[h[b]] <= rank[h[i]]
        /\ 2 * i <= Len(h) => rank[h[b]] <= rank[h[2 * i]]
    <3>1. CASE 2 * i <= Len(h) /\ Earlier(h[2 * i], h[i])
      <4>1. b = 2 * i /\ 2 * i \in 1 .. Len(h)
        BY <1>1, <3>1
      <4> HIDE DEF b
      <4> QED BY <1>1, <2>1, <2>2, <3>1, <4>1
    <3>2. CASE ~(2 * i <= Len(h) /\ Earlier(h[2 * i], h[i]))
      <4>1. b = i /\ (2 * i <= Len(h) => 2 * i \in 1 .. Len(h))
        BY <1>1, <3>2
      <4> HIDE DEF b
      <4> QED BY <1>1, <2>1, <2>2, <3>2, <4>1
    <3> QED BY <3>1, <3>2
  <2>4. /\ j # b => rank[h[j]] < rank[h[b]]
        /\ rank[h[j]] <= rank[h[b]]
        /\ 2 * i + 1 <= Len(h) => rank[h[j]] <= rank[h[2 * i + 1]]
    <3> HIDE DEF b
    <3>1. CASE 2 * i + 1 <= Len(h) /\ Earlier(h[2 * i + 1], h[b])
      <4>1. j = 2 * i + 1 /\ 2 * i + 1 \in 1 .. Len(h)
        BY <1>1, <3>1
      <4> HIDE DEF j
      <4> QED BY <1>1, <1>2, <2>1, <2>2, <3>1, <4>1
    <3>2. CASE ~(2 * i + 1 <= Len(h) /\ Earlier(h[2 * i + 1], h[b]))
      <4>1. j = b /\ (2 * i + 1 <= Len(h) => 2 * i + 1 \in 1 .. Len(h))
        BY <1>1, <3>2
      <4> HIDE DEF j
      <4> QED BY <1>1, <1>2, <2>1, <2>2, <3>2, <4>1
    <3> QED BY <3>1, <3>2
  <2>5. rank[h[j]] \in Int /\ rank[h[b]] \in Int /\ rank[h[i]] \in Int
    BY <1>2, <1>3, <2>1
  <2> HIDE DEF b, j
  <2>6. j # i => rank[h[j]] < rank[h[i]]
    BY <2>3, <2>4, <2>5
  <2>7. ASSUME NEW k \in 2 .. Len(h), k \div 2 = i PROVE ~Earlier(h[k], h[j])
    <3>1. k \in 1 .. Len(h) /\ (k = 2 * i \/ k = 2 * i + 1) /\ rank[h[k]] \in Int
      BY <1>1, <2>1, <2>7
    <3>2. rank[h[j]] <= rank[h[k]]
      BY <2>3, <2>4, <2>5, <3>1
    <3> QED BY <1>3, <2>2, <2>5, <3>1, <3>2
  <2> QED BY <2>6, <2>7
<1> QED BY <1>1, <1>3, <1>4

LEMMA SinkLemma ==
  ASSUME NEW s \in Sifting
  PROVE  /\ Sink(s) \in Sifting
         /\ Rearranged(s[1], Sink(s)[1])
         /\ \/ Sink(s) = s /\ Smallest(s[1], s[2]) = s[2]
            \/ /\ Smallest(s[1], s[2]) # s[2]
               /\ Sink(s)[1] = Swap(s[1], s[2], Smallest(s[1], s[2]))
               /\ Sink(s)[2] = Smallest(s[1], s[2])
<1> DEFINE h == s[1]
           i == s[2]
           j == Smallest(h, i)
<1>1. h \in Seq(Entry) /\ i \in 1 .. Len(h) /\ Len(h) \in Nat /\ s = << h, i >>
  BY DEF Sifting
<1>2. j \in 1 .. Len(h)
  BY <1>1, SmallestLemma
<1>3. CASE j # i
  <2>1. Sink(s) = << Swap(h, i, j), j >>
    BY <1>3 DEF Sink
  <2>2. Rearranged(h, Swap(h, i, j))
    BY <1>1, <1>2, SwapLemma
  <2>3. Sink(s) \in Sifting
    BY <1>2, <2>1, <2>2 DEF Rearranged, Sifting
  <2> QED BY <1>3, <2>1, <2>2, <2>3
<1>4. CASE j = i
  <2>1. Sink(s) = s
    BY <1>4 DEF Sink
  <2> QED BY <1>1, <1>4, <2>1 DEF Rearranged
<1> QED BY <1>3, <1>4

\* A round of sift_down moves the place that is out of order down.
LEMMA SinkOrder ==
  ASSUME NEW s \in Sifting, NEW rank, Ranked(Range(s[1]), rank), SinkingAt(s[1], s[2])
  PROVE  IF Sink(s) = s THEN HeapOrdered(s[1])
         ELSE s[2] < Sink(s)[2] /\ SinkingAt(Sink(s)[1], Sink(s)[2])
<1> DEFINE h == s[1]
           i == s[2]
           j == Smallest(h, i)
           g == Sink(s)[1]
<1>1. h \in Seq(Entry) /\ i \in 1 .. Len(h) /\ Len(h) \in Nat
  BY DEF Sifting
<1>2. /\ j \in {i, 2 * i, 2 * i + 1} \cap (1 .. Len(h))
      /\ j # i => rank[h[j]] < rank[h[i]]
      /\ \A k \in 2 .. Len(h) : k \div 2 = i => ~Earlier(h[k], h[j])
  BY <1>1, SmallestLemma
<1>3. /\ \A k \in 1 .. Len(h) : rank[h[k]] \in Int
      /\ \A k, m \in 1 .. Len(h) : Earlier(h[k], h[m]) <=> rank[h[k]] < rank[h[m]]
  <2>1. \A k \in 1 .. Len(h) : h[k] \in Range(h)
    BY <1>1, LenProperties DEF Range
  <2> QED BY <2>1 DEF Ranked
<1>4. CASE Sink(s) = s
  <2>1. j = i
    <3>1. Sink(s)[2] = i
      BY <1>4
    <3> HIDE DEF j, i
    <3> QED BY <3>1, SinkLemma DEF j, i
  <2>2. \A k \in 2 .. Len(h) : k \div 2 = i => ~Earlier(h[k], h[k \div 2])
    BY <1>2, <2>1
  <2>3. HeapOrdered(h)
    BY <2>2 DEF HeapOrdered, SinkingAt
  <2> QED BY <1>4, <2>3
<1>5. CASE Sink(s) # s
  <2>1. j # i /\ g = Swap(h, i, j) /\ Sink(s)[2] = j
    BY <1>5, SinkLemma
  <2>2. j \in 2 .. Len(h) /\ i < j /\ j \div 2 = i
    <3> HIDE DEF g, j, h, i
    <3>1. j = 2 * i \/ j = 2 * i + 1
      BY <1>2, <2>1
    <3> QED BY <1>1, <1>2, <3>1
  <2>3. g = [k \in 1 .. Len(h) |-> IF k = j THEN h[i] ELSE IF k = i THEN h[j] ELSE h[k]]
        /\ Len(g) = Len(h)
    <3> HIDE DEF g, j, h, i
    <3>1. j \in 1 .. Len(h)
      BY <1>2
    <3>2. Rearranged(h, g)
      BY <1>1, <2>1, <3>1, SwapLemma
    <3>3. Len(g) = Len(h)
      BY <3>2 DEF Rearranged
    <3>4. Swap(h, i, j) = [k \in 1 .. Len(h) |->
                            IF k = j THEN h[i] ELSE IF k = i THEN h[j] ELSE h[k]]
      BY <1>1, <3>1, SwapLemma
    <3> QED BY <2>1, <3>3, <3>4
  <2> HIDE DEF g, j
  <2>4. ASSUME NEW k \in 2 .. Len(h), k \div 2 # j PROVE ~Earlier(g[k], g[k \div 2])
    <3>1. k \div 2 \in 1 .. Len(h) /\ k \div 2 < k
      BY <1>1
    <3>2. CASE k = j
      BY <1>1, <1>2, <1>3, <2>1, <2>2, <2>3, <3>2
    <3>3. CASE k # j /\ k \div 2 = i
      BY <1>1, <1>2, <2>3, <3>1, <3>3
    <3>4. CASE k = i
      <4>1. ~Earlier(h[j], h[i \div 2])
        BY <2>2, <3>4 DEF SinkingAt
      <4> QED BY <1>1, <2>3, <2>4, <3>1, <3>4, <4>1
    <3>5. CASE k # i /\ k # j /\ k \div 2 # i
      <4>1. ~Earlier(h[k], h[k \div 2])
        BY <3>5 DEF SinkingAt
      <4> QED BY <2>3, <2>4, <3>1, <3>5, <4>1
    <3> QED BY <3>2, <3>3, <3>4, <3>5
  <2>5. ASSUME NEW k \in 2 .. Len(h), k \div 2 = j PROVE ~Earlier(g[k], g[j \div 2])
    <3>1. k # i /\ k # j /\ k \div 2 # i
      BY <1>1, <2>2, <2>5
    <3>2. ~Earlier(h[k], h[j])
      BY <2>5, <3>1 DEF SinkingAt
    <3> QED BY <1>1, <2>2, <2>3, <3>1, <3>2
  <2> QED BY <1>5, <2>1, <2>2, <2>3, <2>4, <2>5 DEF SinkingAt, g
<1> QED BY <1>4, <1>5

\* The loop of sift_down as rounds.
LEMMA SiftDownRounds ==
  ASSUME NEW heap \in Seq(Entry), heap # << >>
  PROVE  \E w : /\ Rounds(w, << heap, 1 >>, [s \in Sifting |-> Sink(s)], Len(heap))
                /\ SiftDown(heap) = w[Len(heap)][1]
<1> DEFINE N == Len(heap)
           x == << heap, 1 >>
           F == [s \in Sifting |-> Sink(s)]
           Loop(v) == v = [n \in 0 .. N |-> IF n = 0 THEN x ELSE Sink(v[n - 1])]
<1>1. N \in Nat /\ x \in Sifting /\ F \in [Sifting -> Sifting]
  <2>1. 1 \in 1 .. N /\ N \in Nat
    BY EmptySeq, LenProperties
  <2>2. F \in [Sifting -> Sifting]
    BY SinkLemma
  <2> QED BY <2>1, <2>2 DEF Sifting
<1>2. PICK w \in [0 .. N -> Sifting] : Rounds(w, x, F, N)
  <2> HIDE DEF x, F, N
  <2> QED BY <1>1, RoundsExist
<1>3. Loop(w)
  <2>1. \A n \in 0 .. N : w[n] = IF n = 0 THEN x ELSE Sink(w[n - 1])
    <3> SUFFICES ASSUME NEW n \in 0 .. N, n # 0 PROVE w[n] = Sink(w[n - 1])
      BY <1>2 DEF Rounds
    <3>1. n \in 1 .. N /\ w[n - 1] \in Sifting
      BY <1>1, <1>2
    <3> QED BY <1>2, <3>1 DEF Rounds
  <2> HIDE DEF x
  <2> QED BY <1>2, <2>1
<1> DEFINE v == CHOOSE f : Loop(f)
<1>4. Loop(v)
  <2> HIDE DEF Loop
  <2> QED BY <1>3
<1>5. SiftDown(heap) = v[N][1]
  BY DEF SiftDown
<1> HIDE DEF v
<1>6. v[0] = x /\ \A n \in 1 .. N : v[n] = Sink(v[n - 1])
  <2> HIDE DEF x
  <2> QED BY <1>1, <1>4
<1> DEFINE T == {n \in 0 .. N : v[n] \in Sifting}
<1>7. \A n \in 0 .. N : v[n] \in Sifting
  <2>1. 0 \in T /\ \A n \in 1 .. N : n - 1 \in T => n \in T
    <3> HIDE DEF x, N
    <3> QED BY <1>1, <1>6, SinkLemma
  <2> HIDE DEF T
  <2>2. \A n \in 0 .. N : n \in T
    BY <1>1, <2>1, UpTo
  <2> QED BY <2>2 DEF T
<1>8. Rounds(v, x, F, N)
  <2>1. \A n \in 1 .. N : v[n] = F[v[n - 1]]
    <3> HIDE DEF x, N
    <3> QED BY <1>1, <1>6, <1>7
  <2> HIDE DEF F, x, N
  <2> QED BY <1>6, <2>1 DEF Rounds
<1> QED BY <1>5, <1>8

\* sift_down keeps the entries and, if only the first was out of order, leaves a
\* heap in order.
LEMMA SiftDownLemma ==
  ASSUME NEW heap \in Seq(Entry), heap # << >>
  PROVE  /\ Rearranged(heap, SiftDown(heap))
         /\ \A rank : Ranked(Range(heap), rank) /\ SinkingAt(heap, 1)
                        => HeapOrdered(SiftDown(heap))
<1> DEFINE N == Len(heap)
           x == << heap, 1 >>
           F == [s \in Sifting |-> Sink(s)]
           kept == {s \in Sifting : Rearranged(heap, s[1])}
<1>1. PICK w : Rounds(w, x, F, N) /\ SiftDown(heap) = w[N][1]
  BY SiftDownRounds
<1>2. N \in Nat /\ x \in kept
  <2>1. 1 \in 1 .. N /\ N \in Nat
    BY EmptySeq, LenProperties
  <2> QED BY <2>1 DEF Sifting, Rearranged
<1>3. \A s \in kept : F[s] \in kept
  BY SinkLemma DEF Rearranged
<1>4. w[N] \in kept
  <2> DEFINE G == [n \in 0 .. N |-> kept]
  <2>1. x \in G[0] /\ \A n \in 1 .. N : \A s \in G[n - 1] : F[s] \in G[n]
    <3> HIDE DEF kept, x, F
    <3> QED BY <1>2, <1>3
  <2>2. w[N] \in G[N]
    <3> HIDE DEF G, x, F, N
    <3> QED BY <1>1, <1>2, <2>1, LoopInduction
  <2> QED BY <1>2, <2>2
<1>5. ASSUME NEW rank, Ranked(Range(heap), rank), SinkingAt(heap, 1)
      PROVE  HeapOrdered(SiftDown(heap))
  <2> DEFINE G == [n \in 0 .. N |->
               {s \in kept : \/ Sink(s) = s /\ HeapOrdered(s[1])
                             \/ s[2] > n /\ SinkingAt(s[1], s[2])}]
  <2>1. x \in G[0]
    BY <1>2, <1>5
  <2>2. ASSUME NEW n \in 1 .. N, NEW s \in G[n - 1] PROVE F[s] \in G[n]
    <3>0. s \in kept /\ F[s] \in kept
      BY <1>3, <2>2
    <3>1. F[s] = Sink(s) /\ Ranked(Range(s[1]), rank) /\ s[2] \in Nat /\ Sink(s)[2] \in Nat
      <4>1. F[s] = Sink(s) /\ Range(s[1]) = Range(heap)
        BY <3>0 DEF Rearranged
      <4> HIDE DEF F
      <4> QED BY <1>5, <3>0, <4>1 DEF Sifting
    <3>2. CASE Sink(s) = s /\ HeapOrdered(s[1])
      <4> HIDE DEF kept, F
      <4> QED BY <3>0, <3>1, <3>2
    <3>3. CASE s[2] > n - 1 /\ SinkingAt(s[1], s[2])
      <4>1. IF Sink(s) = s THEN HeapOrdered(s[1])
            ELSE s[2] < Sink(s)[2] /\ SinkingAt(Sink(s)[1], Sink(s)[2])
        BY <3>0, <3>1, <3>3, SinkOrder
      <4> HIDE DEF kept, F
      <4> QED BY <1>2, <3>0, <3>1, <3>3, <4>1
    <3> QED BY <2>2, <3>2, <3>3
  <2>3. w[N] \in G[N]
    <3> HIDE DEF G, x, F, N
    <3> QED BY <1>1, <1>2, <2>1, <2>2, LoopInduction
  <2>4. w[N] \in kept /\ w[N][2] \in 1 .. N
    BY <1>4 DEF Sifting, Rearranged
  <2>5. HeapOrdered(w[N][1])
    <3> HIDE DEF kept
    <3> QED BY <1>2, <2>3, <2>4
  <2> QED BY <1>1, <2>5
<1> QED BY <1>1, <1>4, <1>5

-----------------------------------------------------------------------------
(* push, pop_front and wake_expired.                                       *)

\* With a place left, push adds the entry and keeps the order.
LEMMA PushLemma ==
  ASSUME NEW heap \in Seq(Entry), NEW entry \in Entry, Len(heap) # ASYNC_POOL_MAX
  PROVE  /\ PushTimer(heap, entry) \in Seq(Entry)
         /\ Range(PushTimer(heap, entry)) = Range(heap) \cup {entry}
         /\ Apart(heap) /\ (\A k \in 1 .. Len(heap) : heap[k].slot # entry.slot)
              => Apart(PushTimer(heap, entry))
         /\ \A rank : Ranked(Range(heap) \cup {entry}, rank) /\ HeapOrdered(heap)
                        => HeapOrdered(PushTimer(heap, entry))
<1> DEFINE h == Append(heap, entry)
           last == Len(heap) + 1
<1>1. /\ Len(heap) \in Nat /\ h \in Seq(Entry) /\ Len(h) = last
      /\ last \in 1 .. Len(h) /\ h[last] = entry
      /\ \A k \in 1 .. Len(heap) : h[k] = heap[k]
  BY AppendProperties, LenProperties
<1>2. PushTimer(heap, entry) = SiftUp(h, last)
  BY DEF PushTimer
<1> HIDE DEF h
<1>3. /\ Rearranged(h, SiftUp(h, last))
      /\ \A rank : Ranked(Range(h), rank) /\ RisingAt(h, last)
                     => HeapOrdered(SiftUp(h, last))
  BY <1>1, SiftUpLemma
<1>4. Range(h) = Range(heap) \cup {entry}
  <2>1. DOMAIN h = 1 .. last /\ DOMAIN heap = 1 .. Len(heap)
    BY <1>1, LenProperties
  <2> QED BY <1>1, <2>1 DEF Range
<1>5. Apart(heap) /\ (\A k \in 1 .. Len(heap) : heap[k].slot # entry.slot) => Apart(h)
  BY <1>1 DEF Apart
<1>6. HeapOrdered(heap) => RisingAt(h, last)
  <2> SUFFICES ASSUME HeapOrdered(heap) PROVE RisingAt(h, last)
    OBVIOUS
  <2>1. ASSUME NEW k \in 2 .. Len(h), k # last PROVE ~Earlier(h[k], h[k \div 2])
    <3>1. k \in 2 .. Len(heap) /\ k \div 2 \in 1 .. Len(heap)
      BY <1>1, <2>1
    <3> QED BY <1>1, <3>1 DEF HeapOrdered
  <2>2. \A k \in 2 .. Len(h) : k \div 2 # last
    BY <1>1
  <2> QED BY <2>1, <2>2 DEF RisingAt
<1> QED BY <1>2, <1>3, <1>4, <1>5, <1>6 DEF Rearranged

\* pop_front takes the first entry away and keeps the order.
LEMMA PopLemma ==
  ASSUME NEW heap \in Seq(Entry), heap # << >>
  PROVE  /\ PopTimer(heap) \in Seq(Entry) /\ Len(PopTimer(heap)) = Len(heap) - 1
         /\ Range(heap) = Range(PopTimer(heap)) \cup {heap[1]}
         /\ Apart(heap) => Apart(PopTimer(heap)) /\ heap[1] \notin Range(PopTimer(heap))
         /\ \A rank : Ranked(Range(heap), rank) /\ HeapOrdered(heap)
                        => HeapOrdered(PopTimer(heap))
<1> DEFINE N == Len(heap)
           short == SubSeq(heap, 1, N - 1)
           h == [short EXCEPT ![1] = heap[N]]
<1>1. N \in Nat \ {0} /\ heap \in [1 .. N -> Entry] /\ DOMAIN heap = 1 .. N
  BY EmptySeq, LenProperties
<1>2. CASE N = 1
  <2>1. PopTimer(heap) = << >>
    BY <1>2 DEF PopTimer
  <2>2. << >> \in Seq(Entry) /\ Len(<< >>) = 0 /\ Range(<< >>) = {}
    BY DEF Range
  <2>3. Range(heap) = {heap[1]}
    BY <1>1, <1>2 DEF Range
  <2> QED BY <1>2, <2>1, <2>2, <2>3 DEF Apart, HeapOrdered
<1>3. CASE N # 1
  <2>1. short \in Seq(Entry) /\ Len(short) = N - 1
        /\ \A k \in 1 .. N - 1 : short[k] = heap[k]
    BY <1>1, <1>3, SubSeqProperties
  <2>2. /\ h \in Seq(Entry) /\ Len(h) = N - 1 /\ DOMAIN h = 1 .. N - 1
        /\ \A k \in 1 .. N - 1 : h[k] = IF k = 1 THEN heap[N] ELSE heap[k]
    <3> HIDE DEF short
    <3>1. short \in [1 .. N - 1 -> Entry] /\ N - 1 \in Nat /\ heap[N] \in Entry
      BY <1>1, <1>3, <2>1, LenProperties
    <3>2. h \in [1 .. N - 1 -> Entry]
      BY <3>1
    <3>3. \A k \in 1 .. N - 1 : h[k] = IF k = 1 THEN heap[N] ELSE heap[k]
      BY <2>1, <3>1
    <3> HIDE DEF h
    <3> QED BY <3>1, <3>2, <3>3, SeqDef, LenProperties
  <2>3. PopTimer(heap) = SiftDown(h)
    BY <1>3 DEF PopTimer
  <2> HIDE DEF h, short
  <2>4. h # << >>
    BY <1>1, <1>3, <2>2
  <2>5. /\ Rearranged(h, SiftDown(h))
        /\ \A rank : Ranked(Range(h), rank) /\ SinkingAt(h, 1)
                       => HeapOrdered(SiftDown(h))
    BY <2>2, <2>4, SiftDownLemma
  <2>6. Range(heap) = Range(h) \cup {heap[1]}
    <3>1. \A k \in 1 .. N : heap[k] = heap[1] \/ heap[k] \in Range(h)
      <4> SUFFICES ASSUME NEW k \in 1 .. N, k # 1 PROVE \E m \in 1 .. N - 1 : h[m] = heap[k]
        BY <2>2 DEF Range
      <4>1. CASE k = N
        BY <1>1, <1>3, <2>2, <4>1
      <4>2. CASE k # N
        <5>1. k \in 1 .. N - 1
          <6> HIDE DEF N
          <6> QED BY <1>1, <4>2
        <5>2. h[k] = heap[k]
          BY <2>2, <5>1
        <5> QED BY <5>1, <5>2
      <4> QED BY <4>1, <4>2
    <3>2. \A m \in 1 .. N - 1 : h[m] \in Range(heap)
      BY <1>1, <2>2 DEF Range
    <3> QED BY <1>1, <2>2, <3>1, <3>2 DEF Range
  <2>7. Apart(heap) => Apart(h) /\ heap[1] \notin Range(h)
    <3> SUFFICES ASSUME Apart(heap) PROVE Apart(h) /\ heap[1] \notin Range(h)
      OBVIOUS
    <3>1. \A k \in 1 .. N - 1 : h[k].slot # heap[1].slot
      BY <1>1, <1>3, <2>2 DEF Apart
    <3>2. Apart(h)
      BY <1>1, <1>3, <2>2 DEF Apart
    <3> QED BY <2>2, <3>1, <3>2 DEF Range
  <2>8. HeapOrdered(heap) => SinkingAt(h, 1)
    <3> SUFFICES ASSUME HeapOrdered(heap), NEW k \in 2 .. Len(h), k \div 2 # 1
                 PROVE  ~Earlier(h[k], h[k \div 2])
      BY DEF SinkingAt
    <3>1. k \in 2 .. N /\ k \in 1 .. N - 1 /\ k \div 2 \in 1 .. N - 1 /\ k # 1
      BY <1>1, <2>2
    <3> QED BY <2>2, <3>1 DEF HeapOrdered
  <2>9. \A rank : Ranked(Range(heap), rank) => Ranked(Range(h), [e \in Range(h) |-> rank[e]])
    BY <2>6 DEF Ranked
  <2> QED BY <1>1, <2>2, <2>3, <2>5, <2>6, <2>7, <2>8, <2>9 DEF Rearranged
<1> QED BY <1>2, <1>3

Wakings == [heap : Seq(Entry), slots : SUBSET Slots]

\* The first deadline is to come, or there is none.
NoneOver(h, now) == h = << >> \/ ~NotBefore(now, h[1].wake)

\* What wake_expired has made of heap after some rounds: every entry that is gone
\* was over, and its slot was woken.
Waked(heap, now, w) ==
  /\ Apart(w.heap) /\ Range(w.heap) \subseteq Range(heap)
  /\ \A e \in Range(heap) : e \in Range(w.heap) \/ e.slot \in w.slots
  /\ \A i \in w.slots :
       /\ \A e \in Range(w.heap) : e.slot # i
       /\ \E e \in Range(heap) : e.slot = i /\ NotBefore(now, e.wake)
  /\ \A rank : Ranked(Range(heap), rank) /\ HeapOrdered(heap) => HeapOrdered(w.heap)

LEMMA WakeTopLemma ==
  ASSUME NEW heap \in Seq(Entry), NEW now, NEW w \in Wakings, Waked(heap, now, w)
  PROVE  /\ WakeTop(w, now) \in Wakings
         /\ Waked(heap, now, WakeTop(w, now))
         /\ IF NoneOver(w.heap, now) THEN WakeTop(w, now) = w
            ELSE Len(WakeTop(w, now).heap) = Len(w.heap) - 1
<1> DEFINE g == w.heap
           r == WakeTop(w, now)
<1>1. g \in Seq(Entry) /\ w.slots \in SUBSET Slots /\ Len(g) \in Nat /\ DOMAIN g = 1 .. Len(g)
  BY LenProperties DEF Wakings
<1>2. CASE NoneOver(g, now)
  <2>1. r = w
    BY <1>2 DEF WakeTop, NoneOver
  <2> QED BY <1>2, <2>1
<1>3. CASE ~NoneOver(g, now)
  <2>1. /\ g # << >> /\ NotBefore(now, g[1].wake)
        /\ r = [heap |-> PopTimer(g), slots |-> w.slots \cup {g[1].slot}]
    BY <1>3 DEF WakeTop, NoneOver
  <2> DEFINE p == PopTimer(g)
             x == g[1]
  <2>2. x \in Entry /\ x \in Range(g) /\ x.slot \in Slots
    <3>1. 1 \in 1 .. Len(g)
      BY <1>1, <2>1, EmptySeq
    <3>2. x \in Entry /\ x \in Range(g)
      BY <1>1, <3>1, ElementOfSeq DEF Range
    <3> QED BY <3>2 DEF Entry
  <2>3. /\ p \in Seq(Entry) /\ Len(p) = Len(g) - 1
        /\ Range(g) = Range(p) \cup {x}
        /\ Apart(g) => Apart(p) /\ x \notin Range(p)
        /\ \A rank : Ranked(Range(g), rank) /\ HeapOrdered(g) => HeapOrdered(p)
    BY <1>1, <2>1, PopLemma
  <2>4. r.heap = p /\ r.slots = w.slots \cup {x.slot} /\ r \in Wakings
    BY <1>1, <2>1, <2>2, <2>3 DEF Wakings
  <2> HIDE DEF p, x, r
  <2>5. Apart(g) /\ Apart(p)
    BY <2>3 DEF Waked
  <2>6. \A e \in Range(p) : e.slot # x.slot
    <3> SUFFICES ASSUME NEW e \in Range(p), e.slot = x.slot PROVE FALSE
      OBVIOUS
    <3>1. e \in Range(g) /\ e # x
      BY <2>3, <2>5
    <3>2. PICK i \in 1 .. Len(g) : g[i] = e
      BY <1>1, <3>1 DEF Range
    <3>3. PICK j \in 1 .. Len(g) : g[j] = x
      BY <1>1, <2>2 DEF Range
    <3> QED BY <2>5, <3>1, <3>2, <3>3 DEF Apart
  <2>7. \A rank : Ranked(Range(heap), rank) /\ HeapOrdered(heap) => HeapOrdered(p)
    <3> SUFFICES ASSUME NEW rank, Ranked(Range(heap), rank), HeapOrdered(heap)
                 PROVE  HeapOrdered(p)
      OBVIOUS
    <3>1. HeapOrdered(g) /\ Range(g) \subseteq Range(heap)
      BY DEF Waked
    <3>2. Ranked(Range(g), [e \in Range(g) |-> rank[e]])
      BY <3>1 DEF Ranked
    <3> QED BY <2>3, <3>1, <3>2
  <2>8. /\ Range(p) \subseteq Range(heap)
        /\ \A e \in Range(heap) : e \in Range(p) \/ e.slot \in r.slots
    BY <2>3, <2>4 DEF Waked
  <2>9. ASSUME NEW i \in r.slots
        PROVE  /\ \A e \in Range(p) : e.slot # i
               /\ \E e \in Range(heap) : e.slot = i /\ NotBefore(now, e.wake)
    <3>1. CASE i \in w.slots
      BY <2>3, <3>1 DEF Waked
    <3>2. CASE i = x.slot
      <4>1. x \in Range(heap) /\ NotBefore(now, x.wake)
        BY <2>1, <2>2 DEF Waked, x
      <4> QED BY <2>6, <3>2, <4>1
    <3> QED BY <2>4, <2>9, <3>1, <3>2
  <2>10. Waked(heap, now, r)
    BY <2>4, <2>5, <2>7, <2>8, <2>9 DEF Waked
  <2> QED BY <1>3, <2>3, <2>4, <2>10 DEF r
<1> QED BY <1>2, <1>3

\* The loop of wake_expired as rounds.
LEMMA WakeExpiredRounds ==
  ASSUME NEW heap \in Seq(Entry), Apart(heap), NEW now
  PROVE  \E v : /\ v[0] = [heap |-> heap, slots |-> {}]
                /\ \A n \in 1 .. Len(heap) : v[n] = WakeTop(v[n - 1], now)
                /\ WakeExpired(heap, now) = v[Len(heap)]
<1> DEFINE N == Len(heap)
           x == [heap |-> heap, slots |-> {}]
           S == {w \in Wakings : Waked(heap, now, w)}
           F == [w \in S |-> WakeTop(w, now)]
           Loop(v) == v = [n \in 0 .. N |-> IF n = 0 THEN x ELSE WakeTop(v[n - 1], now)]
<1>1. N \in Nat /\ x \in S /\ F \in [S -> S]
  <2>1. N \in Nat /\ x \in S
    BY LenProperties DEF Wakings, Waked
  <2>2. \A w \in S : WakeTop(w, now) \in S
    BY WakeTopLemma
  <2> HIDE DEF S
  <2> QED BY <2>1, <2>2
<1>2. PICK v \in [0 .. N -> S] : Rounds(v, x, F, N)
  <2> HIDE DEF x, F, N, S
  <2> QED BY <1>1, RoundsExist
<1>3. Loop(v)
  <2>1. \A n \in 0 .. N : v[n] = IF n = 0 THEN x ELSE WakeTop(v[n - 1], now)
    <3> HIDE DEF S, x
    <3> SUFFICES ASSUME NEW n \in 0 .. N, n # 0 PROVE v[n] = WakeTop(v[n - 1], now)
      BY <1>2 DEF Rounds
    <3>1. n \in 1 .. N /\ v[n - 1] \in S
      BY <1>1, <1>2
    <3> QED BY <1>2, <3>1 DEF Rounds
  <2> HIDE DEF x, S
  <2> QED BY <1>2, <2>1
<1> DEFINE u == CHOOSE f : Loop(f)
<1>4. Loop(u)
  <2> HIDE DEF Loop
  <2> QED BY <1>3
<1>5. WakeExpired(heap, now) = u[N]
  BY DEF WakeExpired
<1> HIDE DEF u
<1>6. u[0] = x /\ \A n \in 1 .. N : u[n] = WakeTop(u[n - 1], now)
  <2> HIDE DEF x
  <2> QED BY <1>1, <1>4
<1> QED BY <1>5, <1>6

\* wake_expired takes entries that are over and no others; from a heap in order it
\* takes all of them.
LEMMA WakeExpiredLemma ==
  ASSUME NEW heap \in Seq(Entry), Apart(heap), NEW now
  PROVE  /\ WakeExpired(heap, now) \in Wakings
         /\ Waked(heap, now, WakeExpired(heap, now))
         /\ NoneOver(WakeExpired(heap, now).heap, now)
<1> DEFINE N == Len(heap)
           good == {w \in Wakings : Waked(heap, now, w)}
           G == [n \in 0 .. N |->
                  {w \in good : NoneOver(w.heap, now) \/ Len(w.heap) + n <= N}]
<1>1. PICK v : /\ v[0] = [heap |-> heap, slots |-> {}]
               /\ \A n \in 1 .. N : v[n] = WakeTop(v[n - 1], now)
               /\ WakeExpired(heap, now) = v[N]
  BY WakeExpiredRounds
<1>2. N \in Nat /\ v[0] \in G[0]
  <2>1. N \in Nat /\ v[0] \in good /\ v[0].heap = heap
    BY <1>1, LenProperties DEF Wakings, Waked
  <2> HIDE DEF good
  <2> QED BY <2>1
<1>3. ASSUME NEW n \in 1 .. N, v[n - 1] \in G[n - 1] PROVE v[n] \in G[n]
  <2> DEFINE w == v[n - 1]
  <2>1. w \in good /\ (NoneOver(w.heap, now) \/ Len(w.heap) + (n - 1) <= N)
    BY <1>2, <1>3
  <2>2. v[n] = WakeTop(w, now)
    BY <1>1
  <2> HIDE DEF w
  <2>3. /\ WakeTop(w, now) \in good
        /\ IF NoneOver(w.heap, now) THEN WakeTop(w, now) = w
           ELSE Len(WakeTop(w, now).heap) = Len(w.heap) - 1
    BY <2>1, WakeTopLemma
  <2>4. Len(w.heap) \in Nat
    BY <2>1, LenProperties DEF Wakings
  <2> HIDE DEF good
  <2> QED BY <1>2, <2>1, <2>2, <2>3, <2>4
<1> DEFINE U == {n \in 0 .. N : v[n] \in G[n]}
<1>4. N \in U
  <2>1. 0 \in U /\ \A n \in 1 .. N : n - 1 \in U => n \in U
    <3> HIDE DEF G
    <3> QED BY <1>2, <1>3
  <2> HIDE DEF U, N
  <2>2. \A n \in 0 .. N : n \in U
    BY <1>2, <2>1, UpTo
  <2> QED BY <1>2, <2>2
<1>5. v[N] \in good /\ (NoneOver(v[N].heap, now) \/ Len(v[N].heap) + N <= N)
  BY <1>2, <1>4
<1>6. NoneOver(v[N].heap, now)
  <2>1. v[N].heap \in Seq(Entry)
    BY <1>5 DEF Wakings
  <2>2. CASE Len(v[N].heap) + N <= N
    BY <1>2, <2>1, <2>2, EmptySeq, LenProperties DEF NoneOver
  <2> QED BY <1>5, <2>2
<1> QED BY <1>1, <1>5, <1>6

-----------------------------------------------------------------------------
(* The calls that AsyncRt makes of the scheduler.                          *)

\* The scheduler between two calls: a most urgent ready task has the hart, and no
\* list names a tid that is free.
Scheduled(k) ==
  /\ Fit(k) /\ Ordered(k) /\ k.sched_ready
  /\ Known(k) \subseteq k.tid_bitmap
  /\ k.current \in Tid
  /\ ~k.halted => k.current \in Range(k.ready) /\ Foremost(k)

\* What a call does to all tasks but tid: nobody loses the place, the priority,
\* the tid or the wake_point.
Spares(k, r, tid) ==
  /\ Range(k.ready) \ {tid} \subseteq Range(r.ready)
  /\ Known(k) \ {tid} \subseteq Known(r)
  /\ \A t \in Tid \ {tid} :
       /\ r.priority[t] = k.priority[t]
       /\ t \in r.tid_bitmap <=> t \in k.tid_bitmap
  /\ \A t \in Range(r.sleeping) \ {tid} :
       t \in Range(k.sleeping) /\ r.wake_point[t] = k.wake_point[t]

LEMMA DelaySpares ==
  ASSUME NEW k, Scheduled(k), ~k.halted
  PROVE  /\ Scheduled(DelayCurrent(k, 1))
         /\ Spares(k, DelayCurrent(k, 1), k.current)
         /\ k.current \in Known(DelayCurrent(k, 1))
         /\ DelayCurrent(k, 1).priority = k.priority
         /\ DelayCurrent(k, 1).tid_bitmap = k.tid_bitmap
         /\ DelayCurrent(k, 1).os_ticks = k.os_ticks
         /\ k.current \in Range(DelayCurrent(k, 1).sleeping) =>
              DelayCurrent(k, 1).wake_point[k.current] = (k.os_ticks + 1) % TickMod
<1> DEFINE r == DelayCurrent(k, 1)
<1>1. /\ Yielded(k, r)
      /\ Range(k.ready) \ {k.current} \subseteq Range(r.ready)
      /\ k.current \in Range(r.sleeping) => r.wake_point[k.current] = WakeTime(k, 1)
      /\ \A t \in Range(r.sleeping) \ {k.current} :
           t \in Range(k.sleeping) /\ r.wake_point[t] = k.wake_point[t]
  BY FitDelay DEF Scheduled
<1> HIDE DEF r
<1>2. Scheduled(r)
  BY <1>1 DEF Scheduled, Yielded, SameTasks, Range
<1>3. Spares(k, r, k.current)
  BY <1>1 DEF Spares, Yielded, SameTasks
<1>4. k.current \in Known(r)
  BY <1>1 DEF Scheduled, Yielded, Known
<1> QED
  BY <1>1, <1>2, <1>3, <1>4 DEF Yielded, SameTasks, WakeTime, r

LEMMA ExitSpares ==
  ASSUME NEW k, Scheduled(k), ~k.halted
  PROVE  /\ Scheduled(ExitCurrent(k))
         /\ Spares(k, ExitCurrent(k), k.current)
         /\ ExitCurrent(k).os_ticks = k.os_ticks
         /\ ExitCurrent(k).priority = k.priority
<1> DEFINE me == k.current
           list == Drop(k.ready, me)
           status == [k.status EXCEPT ![me] = "Terminated"]
           taken == k.tid_bitmap \ {me}
           j == [k EXCEPT !.ready = list, !.tid_bitmap = taken, !.status = status]
           r == NextTcb(j)
<1>1. /\ k \in KernelState /\ Fit(k) /\ me \in Tid /\ k.ready \in Seq(Tid)
      /\ k.status \in [Tid -> Status] /\ k.tid_bitmap \in SUBSET Tid
  BY DEF Scheduled, Fit, KernelState
<1>2. ExitCurrent(k) = r
  BY <1>1 DEF ExitCurrent, FreeTid, KernelState
<1>3. list \in Seq(Tid)
  BY <1>1, DropProperties
<1>4. status \in [Tid -> Status] /\ taken \in SUBSET Tid
  BY <1>1 DEF Status
<1> HIDE DEF list, taken
<1>5. j \in KernelState
  BY <1>1, <1>3, <1>4 DEF KernelState
<1>6. /\ j.ready = list /\ j.sleeping = k.sleeping /\ j.tid_bitmap = taken
      /\ j.status = status /\ j.priority = k.priority
      /\ j.wake_point = k.wake_point /\ j.current = me /\ j.halted = k.halted
      /\ j.os_ticks = k.os_ticks /\ j.sched_ready = k.sched_ready
  BY <1>1 DEF KernelState
<1> HIDE DEF j
<1>7. /\ Fit(j) /\ Range(j.ready) = Range(k.ready) \ {me}
      /\ Ordered(k) => Ordered(j)
  <2> DEFINE gone == "Terminated"
  <2>1. /\ Fit(k) /\ me \in Tid /\ gone \in {"Blocked", "Terminated"}
        /\ j \in KernelState /\ j.ready = Drop(k.ready, me) /\ j.sleeping = k.sleeping
        /\ j.status = [k.status EXCEPT ![me] = gone] /\ j.priority = k.priority
    BY <1>1, <1>5, <1>6 DEF list
  <2> HIDE DEF gone, status, me
  <2> QED BY <2>1, FitRemove
<1>8. Switched(j, r)
  BY <1>1, <1>6, <1>7, FitNextTcb
<1> HIDE DEF r
<1>9. Known(j) = Known(k) \ {me}
  BY <1>6, <1>7 DEF Known, Scheduled, Fit
<1>10. Known(r) \subseteq r.tid_bitmap
  BY <1>6, <1>8, <1>9 DEF Switched, SameTasks, Scheduled, taken
<1>11. Scheduled(r)
  BY <1>6, <1>7, <1>8, <1>10 DEF Scheduled, Switched, SameTasks
<1>12. Spares(k, r, me)
  BY <1>6, <1>7, <1>8, <1>9 DEF Spares, Switched, SameTasks, SleepersStay, taken
<1> QED
  BY <1>2, <1>6, <1>8, <1>11, <1>12 DEF Switched, SameTasks

LEMMA CreateSpares ==
  ASSUME NEW k, Scheduled(k), ~k.halted, FreeTids(k) # {}, NEW pri \in Priorities
  PROVE  /\ Scheduled(CreateTask(k, pri))
         /\ Spares(k, CreateTask(k, pri), LowestFree(k))
         /\ LowestFree(k) \in Tid \ k.tid_bitmap
         /\ LowestFree(k) \in Range(CreateTask(k, pri).ready)
         /\ LowestFree(k) \in CreateTask(k, pri).tid_bitmap
         /\ CreateTask(k, pri).priority[LowestFree(k)] = pri
         /\ CreateTask(k, pri).os_ticks = k.os_ticks
<1> DEFINE tid == LowestFree(k)
           m == NewTask(k, pri)
           r == CreateTask(k, pri)
<1>1. /\ k \in KernelState /\ Fit(k) /\ k.current \in Tid /\ k.current \in Range(k.ready)
      /\ k.priority \in [Tid -> Priorities] /\ k.wake_point \in [Tid -> Tick]
  BY DEF Scheduled, Fit, KernelState
<1>2. tid \in Tid \ k.tid_bitmap
  BY <1>1, LowestFreeLemma
<1>3. tid \notin Known(k)
  BY <1>2 DEF Scheduled
<1>4. /\ Fit(m) /\ Range(m.ready) = Range(k.ready) \cup {tid}
      /\ m.sleeping = k.sleeping
      /\ m.priority = [k.priority EXCEPT ![tid] = pri]
      /\ m.wake_point = [k.wake_point EXCEPT ![tid] = 0]
      /\ m.tid_bitmap = k.tid_bitmap \cup {tid} /\ m.os_ticks = k.os_ticks
      /\ m.current = k.current /\ m.sched_ready = k.sched_ready
      /\ m.halted = k.halted
      /\ Ordered(m)
  BY <1>1, <1>3, FitNewTask DEF Scheduled
<1>5. r = IF m.priority[tid] < m.priority[m.current] THEN NextTcb(m) ELSE m
  <2>1. m.current # NoTask
    BY <1>1, <1>4, KernelAssumption
  <2>2. r = YieldIfOutranked(m, tid)
    BY DEF CreateTask, Scheduled
  <2> HIDE DEF m, r
  <2> QED BY <2>1, <2>2 DEF YieldIfOutranked, OutranksCurrent
<1> HIDE DEF m, tid, r
<1>6. tid # k.current /\ \A t \in Tid \ {tid} : m.priority[t] = k.priority[t]
  BY <1>1, <1>3, <1>4 DEF Known
<1>7. \A t \in Range(m.sleeping) : t \in Tid /\ t # tid /\ m.wake_point[t] = k.wake_point[t]
  <2>1. Range(k.sleeping) \subseteq Tid
    BY <1>1 DEF KernelState, Range
  <2> QED BY <1>1, <1>3, <1>4, <2>1 DEF Known
<1>8. Known(m) = Known(k) \cup {tid} /\ Known(m) \subseteq m.tid_bitmap
  BY <1>4 DEF Known, Scheduled
<1>9. CASE r = NextTcb(m)
  <2>1. Switched(m, r)
    BY <1>1, <1>4, <1>9, FitNextTcb
  <2>2. Scheduled(r)
    BY <1>4, <1>8, <2>1 DEF Scheduled, Switched, SameTasks
  <2>3. Spares(k, r, tid)
    BY <1>4, <1>6, <1>7, <1>8, <2>1 DEF Spares, Switched, SameTasks, SleepersStay
  <2> QED
    BY <1>1, <1>2, <1>4, <2>1, <2>2, <2>3 DEF Switched, SameTasks, r, tid
<1>10. CASE r = m /\ ~(m.priority[tid] < m.priority[m.current])
  <2>1. Foremost(m)
    <3>1. \A t \in Range(k.ready) : t # tid /\ t \in Tid /\ m.priority[t] = k.priority[t]
      <4>1. Range(k.ready) \subseteq Tid
        BY <1>1 DEF KernelState, Range
      <4> QED BY <1>3, <1>6, <4>1 DEF Known
    <3>2. m.priority[tid] \in Nat /\ m.priority[m.current] \in Nat
      <4>1. m.priority \in [Tid -> Priorities]
        BY <1>4 DEF Fit, KernelState
      <4> QED BY <1>1, <1>2, <1>4, <4>1 DEF Priorities
    <3> QED
      BY <1>1, <1>4, <1>10, <3>1, <3>2 DEF Foremost, Scheduled
  <2>2. Scheduled(r)
    BY <1>1, <1>4, <1>8, <1>10, <2>1 DEF Scheduled
  <2>3. Spares(k, r, tid)
    BY <1>4, <1>6, <1>7, <1>8, <1>10 DEF Spares
  <2> QED
    BY <1>1, <1>2, <1>4, <1>10, <2>2, <2>3 DEF r, tid
<1> QED
  BY <1>5, <1>9, <1>10

LEMMA TickSpares ==
  ASSUME NEW k, Scheduled(k), ~k.halted
  PROVE  /\ Scheduled(TickTrap(k, 1)) /\ ~TickTrap(k, 1).halted
         /\ Spares(k, TickTrap(k, 1), NoTask)
         /\ TickTrap(k, 1).priority = k.priority
         /\ TickTrap(k, 1).tid_bitmap = k.tid_bitmap
         /\ TickTrap(k, 1).os_ticks = (k.os_ticks + 1) % TickMod
         /\ \A t \in Range(k.sleeping) : k.wake_point[t] = (k.os_ticks + 1) % TickMod
              => t \in Range(TickTrap(k, 1).ready)
<1> DEFINE r == TickTrap(k, 1)
           now == (k.os_ticks + 1) % TickMod
<1>1. /\ Fit(r) /\ r.priority = k.priority /\ r.os_ticks = now
      /\ r.tid_bitmap = k.tid_bitmap /\ r.sched_ready = k.sched_ready
      /\ Known(r) = Known(k) /\ Range(k.ready) \subseteq Range(r.ready)
      /\ r.current \in Tid /\ ~r.halted /\ r.current \in Range(r.ready)
      /\ Ordered(r) /\ Foremost(r)
      /\ Range(r.sleeping) \subseteq Range(k.sleeping)
      /\ \A t \in Range(k.sleeping) :
           /\ t \in Range(r.sleeping) <=> ~(now >= k.wake_point[t])
           /\ t \in Range(r.sleeping) => r.wake_point[t] = k.wake_point[t]
  <2> DEFINE n == 1
  <2>1. /\ Fit(k) /\ k.current \in Tid /\ k.current \in Range(k.ready) /\ n \in Nat
        /\ Ordered(k) /\ Foremost(k)
    BY DEF Scheduled
  <2>2. r = TickTrap(k, n) /\ now = (k.os_ticks + n) % TickMod
    OBVIOUS
  <2> HIDE DEF n, r, now
  <2> QED BY <2>1, <2>2, FitTick
<1>2. now \in Int
  <2>1. k.os_ticks \in Int
    BY DEF Scheduled, Fit, KernelState, Tick
  <2> QED BY <2>1, KernelAssumption
<1> HIDE DEF r, now
<1>3. Scheduled(r)
  BY <1>1 DEF Scheduled
<1>4. Spares(k, r, NoTask)
  BY <1>1 DEF Spares
<1>5. ASSUME NEW t \in Range(k.sleeping), k.wake_point[t] = now PROVE t \in Range(r.ready)
  BY <1>1, <1>2, <1>5 DEF Known
<1> QED
  BY <1>1, <1>3, <1>4, <1>5 DEF r, now

-----------------------------------------------------------------------------
(* The inductive invariant.                                                *)

Spawning == {"run", "init", "flag", "store"}
Polling  == {"expire", "scan", "take", "poll", "register", "cleared"}

\* What the theorems suppose: two tasks that spawn may create two executors, and
\* one that is as urgent as the executor may store a future between the two
\* assignments of clear().
OneSpawner == \E s : Spawners \subseteq {s}
ExecutorFirst == \A s \in Spawners : ExecPriority < TaskPriorities[s + 1]

\* Who is who, with which priority.  The executor sleeps between two passes only.
Roles ==
  /\ \A t \in Tid : pc[t] # "none" => t \in kernel.tid_bitmap
  /\ \A t \in Tid : pc[t] \in Spawning <=> t \in Spawners
  /\ \A s \in Spawners : kernel.priority[s] = TaskPriorities[s + 1]
  /\ \A e \in Executors :
       /\ kernel.priority[e] = ExecPriority /\ e \in Known(kernel)
       /\ pc[e] # "expire" => e \in Range(kernel.ready)

\* One executor, created before INIT_FLAG is set.
OneExecutor ==
  /\ \A e, f \in Executors : e = f
  /\ Executors # {} => init_flag \/ \E s \in Spawners : pc[s] = "flag"
  /\ \A s \in Spawners : pc[s] = "init" => Executors = {}

HasEntry(i) == \E k \in 1 .. Len(timers) : timers[k].slot = i
Over(w) == NotBefore(kernel.os_ticks, w)

\* The executor at some place, with n the slot it is at.

AtSlot(at, n) ==
  /\ at = "take" => n \in ready
  /\ at \in {"poll", "register", "cleared"} => n \in Slots \ ready
  /\ at = "cleared" => fut[n] = NoFuture
  /\ at \in {"poll", "register"} => fut[n] # NoFuture /\ ~HasEntry(n)
  /\ at = "register" => fut[n].awaits = "timer" /\ fut[n].registered

\* A slot marked ready holds a future; a timer's slot is marked when its entry
\* goes, and the pass that marked it has not come to it yet.
Marks(at, n) ==
  \A i \in ready :
    /\ fut[i] # NoFuture /\ ~HasEntry(i)
    /\ fut[i].awaits = "timer" => at # "expire" /\ n <= i

\* A timer is registered by its first poll, and polled again once it is over.
Timely(at, n) ==
  \A i \in Slots : fut[i].awaits = "timer" =>
    /\ ~fut[i].registered => at = "poll" /\ n = i
    /\ fut[i].registered /\ (i \in ready \/ (at = "poll" /\ n = i)) => Over(fut[i].wake)

\* NothingIsLost for this executor.
Remembered(at, n) ==
  \A i \in Slots :
    \/ fut[i] = NoFuture \/ i \in ready \/ (at \in {"poll", "register"} /\ n = i)
    \/ /\ fut[i].awaits = "timer"
       /\ [wake |-> fut[i].wake, slot |-> i] \in Range(timers)

PoolAt(at, n) ==
  AtSlot(at, n) /\ Marks(at, n) /\ Timely(at, n) /\ Remembered(at, n) /\ TimersAreAwaited

\* Nothing in the pool has run before there is an executor.
PoolInv ==
  /\ \A e \in Executors : PoolAt(pc[e], idx[e])
  /\ Executors = {} =>
       /\ PoolAt("expire", 0) /\ timers = << >>
       /\ \A i \in Slots : fut[i] \in {NoFuture, Running}

IInv == TypeOK /\ Scheduled(kernel) /\ Roles /\ OneExecutor /\ PoolInv

-----------------------------------------------------------------------------
(* Roles.                                                                  *)

\* At most one task, tid, changes its role or is touched by the call.
LEMMA RolesLemma ==
  ASSUME TypeOK, Roles, pc' \in [Tid -> Spawning \cup Polling \cup {"other", "none"}],
         NEW tid, Spares(kernel, kernel', tid),
         \A t \in Tid \ {tid} : pc'[t] = pc[t] \/ {pc'[t], pc[t]} \subseteq Spawning,
         tid \in Tid =>
           /\ pc'[tid] \in Spawning <=> pc[tid] \in Spawning
           /\ pc'[tid] # "none" => tid \in kernel'.tid_bitmap
           /\ pc'[tid] \in Spawning => kernel'.priority[tid] = kernel.priority[tid]
           /\ pc'[tid] \in Polling =>
                /\ kernel'.priority[tid] = ExecPriority /\ tid \in Known(kernel')
                /\ pc'[tid] # "expire" => tid \in Range(kernel'.ready)
  PROVE  Roles'
<1>1. \A t \in Tid \ {tid} :
        /\ kernel'.priority[t] = kernel.priority[t]
        /\ t \in kernel'.tid_bitmap <=> t \in kernel.tid_bitmap
        /\ t \in Known(kernel) => t \in Known(kernel')
        /\ t \in Range(kernel.ready) => t \in Range(kernel'.ready)
  BY DEF Spares
<1>2. Spawners \subseteq Tid
  BY AsyncRtAssumption, TaskMaxAssumption, LenProperties DEF Tid
<1>3. \A t \in Tid : pc'[t] # "none" => t \in kernel'.tid_bitmap
  BY <1>1 DEF Roles, Spawning
<1>4. \A t \in Tid : pc'[t] \in Spawning <=> t \in Spawners
  BY DEF Roles
<1>5. \A s \in Spawners : kernel'.priority[s] = TaskPriorities[s + 1]
  BY <1>1, <1>2, <1>4 DEF Roles
<1>6. ASSUME NEW e \in Executors'
      PROVE  /\ kernel'.priority[e] = ExecPriority /\ e \in Known(kernel')
             /\ pc'[e] # "expire" => e \in Range(kernel'.ready)
  <2>1. e \in Tid /\ pc'[e] \in Polling /\ pc'[e] \notin Spawning
    BY <1>6 DEF Executors, Executes, Polling, Spawning
  <2>2. CASE e = tid
    BY <2>1, <2>2
  <2>3. CASE e # tid
    <3>1. pc'[e] = pc[e]
      BY <2>1, <2>3
    <3>2. e \in Executors
      BY <2>1, <3>1 DEF Executors, Executes, Polling
    <3> QED BY <1>1, <2>1, <2>3, <3>1, <3>2 DEF Roles
  <2> QED BY <2>2, <2>3
<1> QED BY <1>3, <1>4, <1>5, <1>6 DEF Roles

LEMMA SparesItself == \A k, tid : Spares(k, k, tid)
BY DEF Spares

\* A step of the executor: it is the only one, and stays it.
LEMMA ExecutorStep ==
  ASSUME IInv, NEW at \in Polling, pc[cr] \in Polling,
         pc' = [pc EXCEPT ![cr] = at], init_flag' = init_flag,
         Spares(kernel, kernel', cr), kernel'.priority = kernel.priority,
         kernel'.tid_bitmap = kernel.tid_bitmap, cr \in Known(kernel'),
         at # "expire" => cr \in Range(kernel'.ready)
  PROVE  /\ Executors = {cr} /\ Executors' = {cr} /\ Roles' /\ OneExecutor'
         /\ pc' \in [Tid -> Spawning \cup Polling \cup {"other", "none"}]
<1>1. cr \in Tid /\ pc \in [Tid -> Spawning \cup Polling \cup {"other", "none"}]
  BY DEF IInv, TypeOK, cr, Spawning, Polling
<1>2. \A t \in Tid : t \in Executors <=> pc[t] \in Polling
  BY DEF Executors, Executes, Polling
<1>3. \A t \in Tid : t \in Executors' <=> pc'[t] \in Polling
  BY DEF Executors, Executes, Polling
<1>4. /\ pc' \in [Tid -> Spawning \cup Polling \cup {"other", "none"}]
      /\ \A t \in Tid : pc'[t] = IF t = cr THEN at ELSE pc[t]
  BY <1>1
<1>5. Executors \subseteq Tid /\ Executors' \subseteq Tid
  BY DEF Executors
<1>6. Executors = {cr} /\ Executors' = {cr}
  BY <1>1, <1>2, <1>3, <1>4, <1>5 DEF IInv, OneExecutor
<1>7. Spawning \cap Polling = {} /\ "none" \notin Polling
  BY DEF Spawning, Polling
<1>8. Roles'
  <2>1. kernel.priority[cr] = ExecPriority /\ cr \in kernel.tid_bitmap
    BY <1>1, <1>6, <1>7 DEF IInv, Roles
  <2> HIDE DEF cr
  <2> QED BY <1>1, <1>4, <1>7, <2>1, RolesLemma DEF IInv
<1>9. \A s \in Spawners : s \in Tid /\ s # cr /\ pc'[s] = pc[s]
  <2>1. Spawners \subseteq Tid
    BY AsyncRtAssumption, TaskMaxAssumption, LenProperties DEF Tid
  <2> QED BY <1>1, <1>4, <1>7, <2>1 DEF IInv, Roles
<1>10. OneExecutor'
  BY <1>6, <1>9 DEF IInv, OneExecutor
<1> QED BY <1>4, <1>6, <1>8, <1>10

-----------------------------------------------------------------------------
(* Steps of the executor.                                                  *)

Futures == [awaits : {"free", "nothing", "yield", "timer"}, wake : Tick, registered : BOOLEAN]

PoolTyped ==
  /\ fut \in [Slots -> Futures] /\ ready \subseteq Slots /\ timers \in Seq(Entry)
  /\ idx \in [Tid -> 0 .. ASYNC_POOL_MAX] /\ did_work \in [Tid -> BOOLEAN]

LEMMA ExecutorAt ==
  ASSUME IInv, NEW at \in Polling, At(at)
  PROVE  /\ cr \in Tid /\ pc[cr] = at /\ pc \in [Tid -> Spawning \cup Polling \cup {"other", "none"}]
         /\ ~kernel.halted /\ kernel \in KernelState
         /\ cr \in Range(kernel.ready) /\ cr \in Known(kernel) /\ cr \in Executors
         /\ PoolTyped /\ PoolAt(at, slot) /\ slot \in 0 .. ASYNC_POOL_MAX
<1>1. /\ cr \in Tid /\ pc \in [Tid -> Spawning \cup Polling \cup {"other", "none"}]
      /\ PoolTyped /\ slot \in 0 .. ASYNC_POOL_MAX /\ kernel \in KernelState
  BY DEF IInv, TypeOK, PoolTyped, Futures, Entry, cr, slot, Spawning, Polling
<1>2. pc[cr] = at /\ ~kernel.halted /\ cr \in Range(kernel.ready) /\ cr \in Known(kernel)
  BY DEF At, IInv, Scheduled, Known, cr
<1>3. cr \in Executors
  BY <1>1, <1>2 DEF Executors, Executes, Polling
<1>4. PoolAt(at, slot)
  BY <1>2, <1>3 DEF IInv, PoolInv, slot
<1> QED BY <1>1, <1>2, <1>3, <1>4

\* What is left to show of a step of the executor: the pool at its next place.
LEMMA ExecutorMoves ==
  ASSUME IInv, NEW at \in Polling, At(at), NEW to \in Polling,
         pc' = [pc EXCEPT ![cr] = to], init_flag' = init_flag,
         Scheduled(kernel'), Spares(kernel, kernel', cr),
         kernel'.priority = kernel.priority, kernel'.tid_bitmap = kernel.tid_bitmap,
         cr \in Known(kernel'), to # "expire" => cr \in Range(kernel'.ready),
         PoolTyped', NEW n, idx'[cr] = n, PoolAt(to, n)'
  PROVE  IInv' /\ Executors = {cr} /\ Executors' = {cr}
<1>1. cr \in Tid /\ pc[cr] = at /\ pc \in [Tid -> Spawning \cup Polling \cup {"other", "none"}]
  BY ExecutorAt
<1>2. /\ Executors = {cr} /\ Executors' = {cr} /\ Roles' /\ OneExecutor'
      /\ pc' \in [Tid -> Spawning \cup Polling \cup {"other", "none"}]
  BY <1>1, ExecutorStep
<1>3. kernel' \in KernelState /\ kernel'.current \in Tid
  BY DEF Scheduled, Fit
<1>4. TypeOK'
  BY <1>2, <1>3 DEF IInv, TypeOK, PoolTyped, Futures, Entry, Spawning, Polling
<1>5. pc'[cr] = to
  BY <1>1
<1>6. PoolInv'
  <2>1. Executors' # {}
    BY <1>2
  <2>2. ASSUME NEW e \in Executors' PROVE PoolAt(pc[e], idx[e])'
    <3>1. pc'[e] = to /\ idx'[e] = n
      BY <1>2, <1>5, <2>2
    <3> QED BY <3>1 DEF PoolAt, AtSlot, Marks, Timely, Remembered
  <2> QED BY <2>1, <2>2 DEF PoolInv
<1> QED BY <1>2, <1>4, <1>6 DEF IInv

LEMMA ExecutorKeeps ==
  ASSUME IInv, NEW at \in Polling, At(at), NEW to \in Polling,
         pc' = [pc EXCEPT ![cr] = to], init_flag' = init_flag, kernel' = kernel,
         PoolTyped', NEW n, idx'[cr] = n, PoolAt(to, n)'
  PROVE  IInv' /\ Executors = {cr} /\ Executors' = {cr}
<1>1. cr \in Known(kernel) /\ cr \in Range(kernel.ready) /\ Scheduled(kernel)
  BY ExecutorAt DEF IInv
<1>2. Spares(kernel, kernel', cr)
  BY SparesItself
<1> HIDE DEF cr
<1> QED BY <1>1, <1>2, ExecutorMoves

\* Entries by slot and by place.
LEMMA EntriesLemma ==
  ASSUME timers \in Seq(Entry)
  PROVE  /\ \A i : HasEntry(i) <=> \E e \in Range(timers) : e.slot = i
         /\ TimersAreAwaited <=>
              /\ Apart(timers)
              /\ \A e \in Range(timers) :
                   /\ fut[e.slot].awaits = "timer" /\ fut[e.slot].registered
                   /\ fut[e.slot].wake = e.wake
<1>1. DOMAIN timers = 1 .. Len(timers)
  BY LenProperties
<1>2. \A e : e \in Range(timers) <=> \E k \in 1 .. Len(timers) : timers[k] = e
  BY <1>1 DEF Range
<1> QED BY <1>2 DEF HasEntry, TimersAreAwaited, Apart

LEMMA ExpireKeepsIInv == IInv /\ Expire => IInv'
<1> SUFFICES ASSUME IInv, Expire PROVE IInv'
  OBVIOUS
<1> DEFINE now == kernel.os_ticks
           w == WakeExpired(timers, now)
<1>1. /\ At("expire") /\ pc' = [pc EXCEPT ![cr] = "scan"]
      /\ timers' = w.heap /\ ready' = ready \cup w.slots
      /\ idx' = [idx EXCEPT ![cr] = 0] /\ did_work' = [did_work EXCEPT ![cr] = FALSE]
      /\ kernel' = kernel /\ init_flag' = init_flag /\ fut' = fut
  BY DEF Expire, Goto, AfterWaking
<1>2. "expire" \in Polling /\ "scan" \in Polling
  BY DEF Polling
<1>3. /\ cr \in Tid /\ PoolTyped /\ PoolAt("expire", slot)
  BY <1>1, <1>2, ExecutorAt
<1>4. Apart(timers) /\ timers \in Seq(Entry)
  BY <1>3, EntriesLemma DEF PoolAt, PoolTyped
<1>5. w \in Wakings /\ Waked(timers, now, w)
  BY <1>4, WakeExpiredLemma
<1> HIDE DEF w
<1>6. PoolTyped'
  BY <1>1, <1>3, <1>5, TimerQueueAssumption DEF PoolTyped, Wakings
<1>7. idx'[cr] = 0
  BY <1>1, <1>3 DEF PoolTyped
<1>8. /\ \A i : HasEntry(i) <=> \E e \in Range(timers) : e.slot = i
      /\ \A i : HasEntry(i)' <=> \E e \in Range(w.heap) : e.slot = i
      /\ \A e \in Range(timers) :
           /\ fut[e.slot].awaits = "timer" /\ fut[e.slot].registered
           /\ fut[e.slot].wake = e.wake
      /\ TimersAreAwaited'
  <2>1. /\ \A i : HasEntry(i) <=> \E e \in Range(timers) : e.slot = i
        /\ \A e \in Range(timers) :
           /\ fut[e.slot].awaits = "timer" /\ fut[e.slot].registered
           /\ fut[e.slot].wake = e.wake
    BY <1>3, <1>4, EntriesLemma DEF PoolAt
  <2>2. /\ \A i : HasEntry(i)' <=> \E e \in Range(w.heap) : e.slot = i
        /\ TimersAreAwaited' <=>
              /\ Apart(w.heap)
              /\ \A e \in Range(w.heap) :
                   /\ fut[e.slot].awaits = "timer" /\ fut[e.slot].registered
                   /\ fut[e.slot].wake = e.wake
    <3>1. w.heap \in Seq(Entry)
      BY <1>5 DEF Wakings
    <3>2. timers' \in Seq(Entry)
      BY <1>1, <3>1
    <3>3. DOMAIN w.heap = 1 .. Len(w.heap)
      BY <3>1, LenProperties
    <3>4. \A e : e \in Range(w.heap) <=> \E k \in 1 .. Len(w.heap) : w.heap[k] = e
      BY <3>3 DEF Range
    <3> QED BY <1>1, <3>4 DEF HasEntry, TimersAreAwaited, Apart
  <2> QED BY <1>5, <2>1, <2>2 DEF Waked
<1>9. \A i \in w.slots : /\ i \in Slots /\ ~HasEntry(i)'
                         /\ fut[i].awaits = "timer" /\ fut[i].registered /\ Over(fut[i].wake)
  <2> SUFFICES ASSUME NEW i \in w.slots
               PROVE  /\ i \in Slots /\ ~HasEntry(i)' 
                      /\ fut[i].awaits = "timer" /\ fut[i].registered /\ Over(fut[i].wake)
    OBVIOUS
  <2>1. PICK e \in Range(timers) : e.slot = i /\ NotBefore(now, e.wake)
    BY <1>5 DEF Waked
  <2> QED BY <1>5, <1>8, <2>1 DEF Waked, Over, Wakings
<1>10. AtSlot("scan", 0)'
  BY DEF AtSlot
<1>11. Marks("scan", 0)'
  <2> SUFFICES ASSUME NEW i \in ready'
               PROVE  fut[i] # NoFuture /\ ~HasEntry(i)' /\ 0 <= i
    BY <1>1 DEF Marks
  <2>1. i \in Slots /\ 0 <= i
    BY <1>6 DEF PoolTyped, Slots
  <2>2. CASE i \in w.slots
    BY <1>9, <2>1, <2>2 DEF NoFuture, Future
  <2>3. CASE i \in ready
    BY <1>3, <1>5, <1>8, <2>1, <2>3 DEF PoolAt, Marks, Waked
  <2> QED BY <1>1, <2>2, <2>3
<1>12. Timely("scan", 0)'
  BY <1>1, <1>3, <1>9 DEF PoolAt, Timely, Over
<1>13. Remembered("scan", 0)'
  <2> SUFFICES ASSUME NEW i \in Slots, fut[i] # NoFuture, i \notin ready'
               PROVE  /\ fut[i].awaits = "timer"
                      /\ [wake |-> fut[i].wake, slot |-> i] \in Range(w.heap)
    BY <1>1 DEF Remembered
  <2>1. /\ fut[i].awaits = "timer"
        /\ [wake |-> fut[i].wake, slot |-> i] \in Range(timers)
    BY <1>1, <1>3 DEF PoolAt, Remembered
  <2> QED BY <1>1, <1>5, <2>1 DEF Waked
<1>14. PoolAt("scan", 0)'
  BY <1>8, <1>10, <1>11, <1>12, <1>13 DEF PoolAt
<1> QED BY <1>1, <1>2, <1>6, <1>7, <1>14, ExecutorKeeps

\* The loop of poll_all goes on behind a slot.
LEMMA NextSlotLemma ==
  ASSUME PoolTyped, cr \in Tid, slot \in Slots, NextSlot
  PROVE  /\ idx' \in [Tid -> 0 .. ASYNC_POOL_MAX] /\ idx'[cr] = slot + 1
         /\ pc' = [pc EXCEPT ![cr] = "scan"]
         /\ slot \in Int /\ \A i \in Slots : i \in Int
<1>1. idx' = [idx EXCEPT ![cr] = slot + 1] /\ slot + 1 \in 0 .. ASYNC_POOL_MAX
  BY TimerQueueAssumption DEF NextSlot, slot, Slots
<1> QED BY <1>1, TimerQueueAssumption DEF PoolTyped, NextSlot, Goto, Slots

LEMMA ScanKeepsIInv == IInv /\ Scan => IInv'
<1> SUFFICES ASSUME IInv, Scan PROVE IInv'
  OBVIOUS
<1>1. /\ At("scan") /\ slot \in Slots
      /\ kernel' = kernel /\ init_flag' = init_flag /\ fut' = fut /\ ready' = ready
      /\ timers' = timers /\ did_work' = did_work
      /\ IF fut[slot] = NoFuture \/ slot \notin ready
         THEN NextSlot ELSE Goto("take") /\ idx' = idx
  BY DEF Scan
<1>2. "scan" \in Polling /\ "take" \in Polling
  BY DEF Polling
<1>3. cr \in Tid /\ PoolTyped /\ slot \in 0 .. ASYNC_POOL_MAX /\ PoolAt("scan", slot)
  BY <1>1, <1>2, ExecutorAt
<1>6. PICK n \in 0 .. ASYNC_POOL_MAX : n = slot /\ PoolAt("scan", n)
  BY <1>3
<1>4. CASE fut[slot] = NoFuture \/ slot \notin ready
  <2>1. /\ idx' \in [Tid -> 0 .. ASYNC_POOL_MAX] /\ idx'[cr] = slot + 1
        /\ pc' = [pc EXCEPT ![cr] = "scan"]
        /\ slot \in Int /\ \A i \in Slots : i \in Int
    BY <1>1, <1>3, <1>4, NextSlotLemma
  <2>2. PoolTyped'
    BY <1>1, <1>3, <2>1 DEF PoolTyped
  <2>3. Marks("scan", n + 1)'
    <3>1. \A i \in ready : i # n /\ i \in Slots
      BY <1>3, <1>4, <1>6 DEF PoolAt, Marks, PoolTyped
    <3>2. \A i \in ready : n <= i => n + 1 <= i
      BY <2>1, <3>1
    <3>3. Marks("scan", n)
      BY <1>6 DEF PoolAt
    <3> QED BY <1>1, <3>2, <3>3 DEF Marks, HasEntry
  <2>4. PoolAt("scan", n + 1)'
    BY <1>1, <1>6, <2>3 DEF PoolAt, AtSlot, Timely, Remembered, TimersAreAwaited, Over
  <2> QED BY <1>1, <1>2, <1>6, <2>1, <2>2, <2>4, ExecutorKeeps
<1>5. CASE ~(fut[slot] = NoFuture \/ slot \notin ready)
  <2>1. pc' = [pc EXCEPT ![cr] = "take"] /\ idx' = idx /\ idx'[cr] = slot
    BY <1>1, <1>5 DEF Goto, slot
  <2>2. PoolTyped'
    BY <1>1, <1>3, <2>1 DEF PoolTyped
  <2>3. PoolAt("take", n)'
    <3>1. n \in ready
      BY <1>5, <1>6
    <3> QED BY <1>1, <1>6, <3>1 DEF PoolAt, AtSlot, Marks, HasEntry, Timely, Remembered,
                                    TimersAreAwaited, Over
  <2> QED BY <1>1, <1>2, <1>6, <2>1, <2>2, <2>3, ExecutorKeeps
<1> QED BY <1>4, <1>5

\* The slot holds a future, so poll_fn.unwrap() does not panic.
LEMMA TakeKeepsIInv == IInv /\ Take => IInv' /\ kernel' = kernel
<1> SUFFICES ASSUME IInv, Take PROVE IInv' /\ kernel' = kernel
  OBVIOUS
<1>1. /\ At("take") /\ pc' = [pc EXCEPT ![cr] = "poll"]
      /\ ready' = ready \ {slot} /\ did_work' = [did_work EXCEPT ![cr] = TRUE]
      /\ kernel' = [kernel EXCEPT !.halted = fut[slot] = NoFuture]
      /\ init_flag' = init_flag /\ fut' = fut /\ timers' = timers /\ idx' = idx
  BY DEF Take, Goto, Unflagged
<1>2. "take" \in Polling /\ "poll" \in Polling
  BY DEF Polling
<1>3. /\ cr \in Tid /\ PoolTyped /\ kernel \in KernelState /\ ~kernel.halted
      /\ slot \in 0 .. ASYNC_POOL_MAX /\ PoolAt("take", slot)
  BY <1>1, <1>2, ExecutorAt
<1>4. PICK n \in 0 .. ASYNC_POOL_MAX : n = slot /\ PoolAt("take", n)
  BY <1>3
<1>5. n \in ready /\ fut[n] # NoFuture /\ ~HasEntry(n) /\ n \in Slots
  BY <1>3, <1>4 DEF PoolAt, AtSlot, Marks, PoolTyped
<1>6. kernel' = kernel
  <2>1. kernel' = [kernel EXCEPT !.halted = FALSE] /\ kernel.halted = FALSE
    BY <1>1, <1>3, <1>4, <1>5 DEF KernelState
  <2> QED BY <1>3, <2>1 DEF KernelState
<1>7. PoolTyped'
  BY <1>1, <1>3 DEF PoolTyped
<1>8. idx'[cr] = n
  BY <1>1, <1>4 DEF slot
<1>9. ready' = ready \ {n}
  BY <1>1, <1>4
<1>10. PoolAt("poll", n)'
  <2>1. AtSlot("poll", n)'
    BY <1>1, <1>5, <1>9 DEF AtSlot, HasEntry
  <2>2. Marks("poll", n)'
    BY <1>1, <1>4, <1>9 DEF PoolAt, Marks, HasEntry
  <2>3. Timely("poll", n)'
    BY <1>1, <1>4, <1>5, <1>6, <1>9 DEF PoolAt, Timely, Over
  <2>4. Remembered("poll", n)'
    BY <1>1, <1>4, <1>9 DEF PoolAt, Remembered
  <2>5. TimersAreAwaited'
    BY <1>1, <1>4 DEF PoolAt, TimersAreAwaited
  <2> QED BY <2>1, <2>2, <2>3, <2>4, <2>5 DEF PoolAt
<1> QED BY <1>1, <1>2, <1>6, <1>7, <1>8, <1>10, ExecutorKeeps

LEMMA FutureKinds ==
  /\ NoFuture \in Futures /\ Running \in Futures /\ InYield \in Futures
  /\ NoFuture.awaits = "free" /\ Running.awaits = "nothing" /\ InYield.awaits = "yield"
  /\ \A wake \in Tick : /\ TimerAt(wake) \in Futures /\ TimerAt(wake).awaits = "timer"
                        /\ TimerAt(wake).wake = wake /\ ~TimerAt(wake).registered
  /\ NoFuture # Running
BY KernelAssumption DEF NoFuture, Running, InYield, TimerAt, Future, Futures, Tick

\* No entry points to the slot being polled, whatever its future becomes.
LEMMA PolledHasNoEntry ==
  ASSUME PoolTyped, TimersAreAwaited, NEW n \in Slots, ~HasEntry(n), timers' = timers,
         \A i \in Slots \ {n} : fut'[i] = fut[i]
  PROVE  TimersAreAwaited' /\ \A i : HasEntry(i)' <=> HasEntry(i)
<1>1. \A k \in 1 .. Len(timers) : timers[k].slot \in Slots \ {n}
  <2> SUFFICES ASSUME NEW k \in 1 .. Len(timers) PROVE timers[k].slot \in Slots \ {n}
    OBVIOUS
  <2>1. timers[k] \in Entry
    BY ElementOfSeq DEF PoolTyped
  <2> QED BY <2>1 DEF Entry, HasEntry
<1> QED BY <1>1 DEF TimersAreAwaited, HasEntry

\* What the steps at "poll" have in common.
LEMMA PollLemma ==
  ASSUME IInv, At("poll")
  PROVE  \E n \in Slots :
           /\ n = slot /\ PoolAt("poll", n) /\ n \notin ready
           /\ fut[n] # NoFuture /\ ~HasEntry(n) /\ cr \in Tid /\ PoolTyped
           /\ idx[cr] = n /\ \A i \in Slots : i \in Nat
<1>1. "poll" \in Polling
  BY DEF Polling
<1>2. cr \in Tid /\ PoolTyped /\ PoolAt("poll", slot)
  BY <1>1, ExecutorAt
<1>3. slot \in Slots \ ready /\ fut[slot] # NoFuture /\ ~HasEntry(slot)
  BY <1>2 DEF PoolAt, AtSlot
<1> QED BY <1>2, <1>3, TimerQueueAssumption DEF slot, Slots

LEMMA FinishKeepsIInv == IInv /\ Finish => IInv'
<1> SUFFICES ASSUME IInv, Finish PROVE IInv'
  OBVIOUS
<1>1. At("poll") /\ "poll" \in Polling /\ "cleared" \in Polling
  BY DEF Finish, Polling
<1>2. PICK n \in Slots :
        /\ n = slot /\ PoolAt("poll", n) /\ n \notin ready
        /\ fut[n] # NoFuture /\ ~HasEntry(n) /\ cr \in Tid /\ PoolTyped /\ idx[cr] = n
  BY <1>1, PollLemma
<1>3. /\ pc' = [pc EXCEPT ![cr] = "cleared"] /\ fut' = [fut EXCEPT ![n] = NoFuture]
      /\ kernel' = kernel /\ init_flag' = init_flag /\ ready' = ready /\ timers' = timers
      /\ idx' = idx /\ did_work' = did_work
  BY <1>2 DEF Finish, Await, Goto, exec
<1>4. PoolTyped' /\ fut'[n] = NoFuture /\ \A i \in Slots \ {n} : fut'[i] = fut[i]
  BY <1>2, <1>3, FutureKinds DEF PoolTyped
<1>5. TimersAreAwaited' /\ \A i : HasEntry(i)' <=> HasEntry(i)
  BY <1>2, <1>3, <1>4, PolledHasNoEntry DEF PoolAt
<1>6. ready \subseteq Slots \ {n}
  BY <1>2 DEF PoolTyped
<1>7. PoolAt("cleared", n)'
  <2>1. AtSlot("cleared", n)'
    BY <1>2, <1>3, <1>4 DEF AtSlot
  <2>2. Marks("cleared", n)'
    BY <1>2, <1>3, <1>4, <1>5, <1>6 DEF PoolAt, Marks
  <2>3. Timely("cleared", n)'
    BY <1>2, <1>3, <1>4, FutureKinds DEF PoolAt, Timely, Over
  <2>4. Remembered("cleared", n)'
    BY <1>2, <1>3, <1>4 DEF PoolAt, Remembered
  <2> QED BY <1>5, <2>1, <2>2, <2>3, <2>4 DEF PoolAt
<1> QED BY <1>1, <1>2, <1>3, <1>4, <1>7, ExecutorKeeps

\* ready was cleared before the poll and nothing has set it since.
LEMMA ClearReadyKeepsIInv == IInv /\ ClearReady => IInv'
<1> SUFFICES ASSUME IInv, ClearReady PROVE IInv'
  OBVIOUS
<1>1. At("cleared") /\ "cleared" \in Polling /\ "scan" \in Polling
  BY DEF ClearReady, Polling
<1>2. cr \in Tid /\ PoolTyped /\ PoolAt("cleared", slot)
  BY <1>1, ExecutorAt
<1>3. PICK n \in Slots : n = slot /\ PoolAt("cleared", n) /\ n \notin ready /\ fut[n] = NoFuture
  BY <1>2 DEF PoolAt, AtSlot
<1>4. /\ idx' \in [Tid -> 0 .. ASYNC_POOL_MAX] /\ idx'[cr] = n + 1
      /\ pc' = [pc EXCEPT ![cr] = "scan"]
      /\ n \in Int /\ \A i \in Slots : i \in Int
  BY <1>2, <1>3, NextSlotLemma DEF ClearReady
<1>5. /\ kernel' = kernel /\ init_flag' = init_flag /\ fut' = fut /\ timers' = timers
      /\ did_work' = did_work /\ ready' = ready
  BY <1>3 DEF ClearReady
<1>6. PoolTyped'
  BY <1>2, <1>4, <1>5 DEF PoolTyped
<1>7. PoolAt("scan", n + 1)'
  <2>1. \A i \in ready : n <= i => n + 1 <= i
    BY <1>2, <1>3, <1>4 DEF PoolTyped
  <2>2. Marks("cleared", n)
    BY <1>3 DEF PoolAt
  <2>3. Marks("scan", n + 1)'
    BY <1>5, <2>1, <2>2 DEF Marks, HasEntry
  <2> QED
    BY <1>3, <1>5, <2>3 DEF PoolAt, AtSlot, Timely, Remembered, TimersAreAwaited, Over
<1> QED BY <1>1, <1>4, <1>5, <1>6, <1>7, ExecutorKeeps

LEMMA YieldNowKeepsIInv == IInv /\ YieldNow => IInv'
<1> SUFFICES ASSUME IInv, YieldNow PROVE IInv'
  OBVIOUS
<1>1. At("poll") /\ "poll" \in Polling /\ "scan" \in Polling
  BY DEF YieldNow, Polling
<1>2. PICK n \in Slots :
        /\ n = slot /\ PoolAt("poll", n) /\ n \notin ready
        /\ fut[n] # NoFuture /\ ~HasEntry(n) /\ cr \in Tid /\ PoolTyped /\ idx[cr] = n
  BY <1>1, PollLemma
<1>3. /\ idx' \in [Tid -> 0 .. ASYNC_POOL_MAX] /\ idx'[cr] = n + 1
      /\ pc' = [pc EXCEPT ![cr] = "scan"]
      /\ n \in Int /\ \A i \in Slots : i \in Int
  BY <1>2, NextSlotLemma DEF YieldNow
<1>4. /\ kernel' = kernel /\ init_flag' = init_flag /\ timers' = timers
      /\ did_work' = did_work /\ ready' = ready \cup {n}
      /\ fut' = [fut EXCEPT ![n] = InYield]
  BY <1>2 DEF YieldNow, Await, AfterWaking
<1>5. PoolTyped' /\ fut'[n] = InYield /\ \A i \in Slots \ {n} : fut'[i] = fut[i]
  BY <1>2, <1>3, <1>4, FutureKinds DEF PoolTyped
<1>6. TimersAreAwaited' /\ \A i : HasEntry(i)' <=> HasEntry(i)
  BY <1>2, <1>4, <1>5, PolledHasNoEntry DEF PoolAt
<1>7. InYield # NoFuture /\ InYield.awaits # "timer"
  BY FutureKinds
<1>8. PoolAt("scan", n + 1)'
  <2>1. \A i \in ready : i \in Slots \ {n} /\ (n <= i => n + 1 <= i)
    BY <1>2, <1>3 DEF PoolTyped
  <2>2. Marks("poll", n)
    BY <1>2 DEF PoolAt
  <2>3. Marks("scan", n + 1)'
    BY <1>2, <1>4, <1>5, <1>6, <1>7, <2>1, <2>2 DEF Marks
  <2>4. Timely("scan", n + 1)'
    BY <1>2, <1>4, <1>5, <1>7 DEF PoolAt, Timely, Over
  <2>5. Remembered("scan", n + 1)'
    BY <1>2, <1>4, <1>5 DEF PoolAt, Remembered
  <2> QED BY <1>6, <2>3, <2>4, <2>5 DEF PoolAt, AtSlot
<1> QED BY <1>1, <1>3, <1>4, <1>5, <1>8, ExecutorKeeps

\* The future goes on and is still being polled: what it awaits next is not in the
\* heap yet.
LEMMA PollGoesOn ==
  ASSUME IInv, At("poll"), NEW f \in Futures, f # NoFuture,
         f.awaits = "timer" => ~f.registered, Await(f),
         UNCHANGED << kernel, init_flag, ready, timers, pc, exec >>
  PROVE  IInv'
<1>1. "poll" \in Polling
  BY DEF Polling
<1>2. PICK n \in Slots :
        /\ n = slot /\ PoolAt("poll", n) /\ n \notin ready
        /\ fut[n] # NoFuture /\ ~HasEntry(n) /\ cr \in Tid /\ PoolTyped /\ idx[cr] = n
  BY PollLemma
<1>3. /\ fut' = [fut EXCEPT ![n] = f]
      /\ kernel' = kernel /\ init_flag' = init_flag /\ ready' = ready /\ timers' = timers
      /\ idx' = idx /\ did_work' = did_work
  BY <1>2 DEF Await, exec
<1>4. pc' = [pc EXCEPT ![cr] = "poll"]
  <2>1. /\ pc[cr] = "poll" /\ pc \in [Tid -> Spawning \cup Polling \cup {"other", "none"}]
        /\ pc' = pc
    BY <1>1, ExecutorAt
  <2> QED BY <2>1
<1>5. PoolTyped' /\ fut'[n] = f /\ \A i \in Slots \ {n} : fut'[i] = fut[i]
  BY <1>2, <1>3 DEF PoolTyped
<1>6. TimersAreAwaited' /\ \A i : HasEntry(i)' <=> HasEntry(i)
  BY <1>2, <1>3, <1>5, PolledHasNoEntry DEF PoolAt
<1>7. ready \subseteq Slots \ {n}
  BY <1>2 DEF PoolTyped
<1>8. PoolAt("poll", n)'
  <2>1. AtSlot("poll", n)'
    BY <1>2, <1>3, <1>5, <1>6 DEF AtSlot
  <2>2. Marks("poll", n)'
    BY <1>2, <1>3, <1>5, <1>6, <1>7 DEF PoolAt, Marks
  <2>3. Timely("poll", n)'
    BY <1>2, <1>3, <1>5 DEF PoolAt, Timely, Over
  <2>4. Remembered("poll", n)'
    BY <1>2, <1>3, <1>5 DEF PoolAt, Remembered
  <2> QED BY <1>6, <2>1, <2>2, <2>3, <2>4 DEF PoolAt
<1> QED BY <1>1, <1>2, <1>3, <1>4, <1>5, <1>8, ExecutorKeeps

LEMMA YieldDoneKeepsIInv == IInv /\ YieldDone => IInv'
BY PollGoesOn, FutureKinds DEF YieldDone

LEMMA DelayMsKeepsIInv == ASSUME IInv, NEW ms \in AsyncDelays, DelayMs(ms) PROVE IInv'
<1> DEFINE wake == (kernel.os_ticks + ms) % TickMod
<1>1. wake \in Tick
  <2>1. kernel.os_ticks \in Int /\ ms \in Int
    BY AsyncRtAssumption DEF IInv, TypeOK, KernelState, Tick
  <2> QED BY <2>1, KernelAssumption DEF Tick
<1>2. /\ At("poll") /\ Await(TimerAt(wake))
      /\ UNCHANGED << kernel, init_flag, ready, timers, pc, exec >>
  BY DEF DelayMs
<1> HIDE DEF wake
<1>3. TimerAt(wake) \in Futures /\ TimerAt(wake) # NoFuture /\ ~TimerAt(wake).registered
  BY <1>1, FutureKinds
<1> QED BY <1>2, <1>3, PollGoesOn

\* A future that awaits a timer is polled first when it calls delay, and then when
\* the deadline is over.
LEMMA PollTimerKeepsIInv == IInv /\ PollTimer => IInv'
<1> SUFFICES ASSUME IInv, PollTimer PROVE IInv'
  OBVIOUS
<1>1. At("poll") /\ "poll" \in Polling /\ "register" \in Polling
  BY DEF PollTimer, Polling
<1>2. PICK n \in Slots :
        /\ n = slot /\ PoolAt("poll", n) /\ n \notin ready
        /\ fut[n] # NoFuture /\ ~HasEntry(n) /\ cr \in Tid /\ PoolTyped /\ idx[cr] = n
  BY <1>1, PollLemma
<1>3. /\ fut[n].awaits = "timer"
      /\ kernel' = kernel /\ init_flag' = init_flag /\ ready' = ready /\ timers' = timers
      /\ did_work' = did_work
  BY <1>2 DEF PollTimer
<1>4. CASE Over(fut[n].wake)
  <2>1. Await(Running) /\ UNCHANGED << pc, idx >>
    BY <1>2, <1>4 DEF PollTimer, Over
  <2>2. Running \in Futures /\ Running # NoFuture /\ Running.awaits # "timer"
    BY FutureKinds
  <2> QED BY <1>1, <1>3, <2>1, <2>2, PollGoesOn DEF exec
<1>5. CASE ~Over(fut[n].wake)
  <2> DEFINE f == [fut[n] EXCEPT !.registered = TRUE]
  <2>1. ~fut[n].registered
    BY <1>2, <1>3, <1>5 DEF PoolAt, Timely
  <2>2. fut' = [fut EXCEPT ![n] = f] /\ pc' = [pc EXCEPT ![cr] = "register"] /\ idx' = idx
    BY <1>2, <1>5, <2>1 DEF PollTimer, Over, Await, Goto
  <2>3. f \in Futures /\ f.awaits = "timer" /\ f.registered
    BY <1>2, <1>3 DEF PoolTyped, Futures
  <2> HIDE DEF f
  <2>4. PoolTyped' /\ fut'[n] = f /\ \A i \in Slots \ {n} : fut'[i] = fut[i]
    BY <1>2, <1>3, <2>2, <2>3 DEF PoolTyped
  <2>5. TimersAreAwaited' /\ \A i : HasEntry(i)' <=> HasEntry(i)
    BY <1>2, <1>3, <2>4, PolledHasNoEntry DEF PoolAt
  <2>6. ready \subseteq Slots \ {n}
    BY <1>2 DEF PoolTyped
  <2>7. PoolAt("register", n)'
    <3>1. AtSlot("register", n)'
      BY <1>2, <1>3, <2>3, <2>4, <2>5, FutureKinds DEF AtSlot
    <3>2. Marks("register", n)'
      BY <1>2, <1>3, <2>4, <2>5, <2>6 DEF PoolAt, Marks
    <3>3. Timely("register", n)'
      BY <1>2, <1>3, <2>3, <2>4 DEF PoolAt, Timely, Over
    <3>4. Remembered("register", n)'
      BY <1>2, <1>3, <2>4 DEF PoolAt, Remembered
    <3> QED BY <2>5, <3>1, <3>2, <3>3, <3>4 DEF PoolAt
  <2> QED BY <1>1, <1>2, <1>3, <2>2, <2>4, <2>7, ExecutorKeeps
<1> QED BY <1>4, <1>5

\* As many places as slots, and an entry for each of some slots only: there is a
\* place left for another slot.
LEMMA RoomForTimer ==
  ASSUME timers \in Seq(Entry), Apart(timers), NEW n \in Slots, ~HasEntry(n)
  PROVE  Len(timers) < ASYNC_POOL_MAX
<1> DEFINE list == [k \in 1 .. Len(timers) |-> timers[k].slot]
<1>1. Len(timers) \in Nat /\ \A k \in 1 .. Len(timers) : timers[k].slot \in Slots
  <2>1. \A k \in 1 .. Len(timers) : timers[k] \in Entry
    BY ElementOfSeq
  <2> QED BY <2>1, LenProperties DEF Entry
<1>2. list \in [1 .. Len(timers) -> Slots]
  BY <1>1
<1>3. list \in Seq(Slots) /\ Len(list) = Len(timers)
  BY <1>1, <1>2, SeqDef, LenProperties
<1>4. IsInjective(list)
  BY DEF IsInjective, Apart
<1>5. n \notin Range(list)
  BY DEF Range, HasEntry
<1> HIDE DEF list
<1>6. Len(list) < ASYNC_POOL_MAX
  BY <1>3, <1>4, <1>5, Pigeonhole, TimerQueueAssumption DEF Slots
<1> QED BY <1>3, <1>6

LEMMA RegisterKeepsIInv == IInv /\ Register => IInv'
<1> SUFFICES ASSUME IInv, Register PROVE IInv'
  OBVIOUS
<1>1. At("register") /\ "register" \in Polling /\ "scan" \in Polling
  BY DEF Register, Polling
<1>2. cr \in Tid /\ PoolTyped /\ PoolAt("register", slot)
  BY <1>1, ExecutorAt
<1>3. PICK n \in Slots :
        /\ n = slot /\ PoolAt("register", n) /\ n \notin ready /\ fut[n] # NoFuture
        /\ ~HasEntry(n) /\ fut[n].awaits = "timer" /\ fut[n].registered
  BY <1>2 DEF PoolAt, AtSlot
<1> DEFINE entry == [wake |-> fut[n].wake, slot |-> n]
<1>4. /\ idx' \in [Tid -> 0 .. ASYNC_POOL_MAX] /\ idx'[cr] = n + 1
      /\ pc' = [pc EXCEPT ![cr] = "scan"]
      /\ n \in Int /\ \A i \in Slots : i \in Int
  BY <1>2, <1>3, NextSlotLemma DEF Register
<1>5. /\ kernel' = kernel /\ init_flag' = init_flag /\ fut' = fut /\ ready' = ready
      /\ did_work' = did_work /\ timers' = PushTimer(timers, entry)
  BY <1>3 DEF Register
<1>6. /\ timers \in Seq(Entry) /\ entry \in Entry /\ entry.slot = n
      /\ entry.wake = fut[n].wake /\ Apart(timers)
      /\ \A e \in Range(timers) :
           /\ fut[e.slot].awaits = "timer" /\ fut[e.slot].registered
           /\ fut[e.slot].wake = e.wake
  <2>1. timers \in Seq(Entry) /\ fut[n] \in Futures
    BY <1>2 DEF PoolTyped
  <2> QED BY <1>3, <2>1, EntriesLemma DEF PoolAt, Entry, Futures
<1>7. Len(timers) # ASYNC_POOL_MAX
  BY <1>3, <1>6, RoomForTimer, LenProperties, TimerQueueAssumption
<1> DEFINE h == PushTimer(timers, entry)
<1> HIDE DEF entry
<1>8. /\ h \in Seq(Entry) /\ Range(h) = Range(timers) \cup {entry} /\ Apart(h)
  <2>1. \A k \in 1 .. Len(timers) : timers[k].slot # entry.slot
    BY <1>3, <1>6 DEF HasEntry
  <2> QED BY <1>6, <1>7, <2>1, PushLemma
<1> HIDE DEF h
<1>9. PoolTyped'
  BY <1>2, <1>4, <1>5, <1>8 DEF PoolTyped, h
<1>10. timers' = h /\ DOMAIN h = 1 .. Len(h)
  BY <1>5, <1>8, LenProperties DEF h
<1>11. \A e : e \in Range(h) <=> \E k \in 1 .. Len(h) : h[k] = e
  BY <1>10 DEF Range
<1>12. /\ \A i : HasEntry(i)' <=> HasEntry(i) \/ i = n
       /\ TimersAreAwaited'
  <2>1. \A i : HasEntry(i)' <=> \E e \in Range(h) : e.slot = i
    BY <1>10, <1>11 DEF HasEntry
  <2>2. \A i : HasEntry(i) <=> \E e \in Range(timers) : e.slot = i
    BY <1>6, EntriesLemma
  <2>3. TimersAreAwaited'
    <3>1. \A e \in Range(h) :
           /\ fut[e.slot].awaits = "timer" /\ fut[e.slot].registered
           /\ fut[e.slot].wake = e.wake
      BY <1>3, <1>6, <1>8
    <3> QED BY <1>5, <1>8, <1>10, <1>11, <3>1 DEF TimersAreAwaited, Apart
  <2> QED BY <1>6, <1>8, <2>1, <2>2, <2>3
<1>13. PoolAt("scan", n + 1)'
  <2>1. \A i \in ready : i # n /\ (n <= i => n + 1 <= i)
    BY <1>2, <1>3, <1>4 DEF PoolTyped
  <2>2. Marks("register", n)
    BY <1>3 DEF PoolAt
  <2>3. Marks("scan", n + 1)'
    BY <1>5, <1>12, <2>1, <2>2 DEF Marks
  <2>4. Timely("scan", n + 1)'
    BY <1>3, <1>5 DEF PoolAt, Timely, Over
  <2>5. Remembered("scan", n + 1)'
    BY <1>3, <1>5, <1>8, <1>10 DEF PoolAt, Remembered, entry
  <2> QED BY <1>12, <2>3, <2>4, <2>5 DEF PoolAt, AtSlot
<1> QED BY <1>1, <1>4, <1>5, <1>9, <1>13, ExecutorKeeps

\* The pass has been over all slots: none that is marked holds a timer.
LEMMA PassEndsKeepsIInv == IInv /\ PassEnds => IInv'
<1> SUFFICES ASSUME IInv, PassEnds PROVE IInv'
  OBVIOUS
<1>1. At("scan") /\ slot \notin Slots /\ "scan" \in Polling /\ "expire" \in Polling
  BY DEF PassEnds, Polling
<1>2. /\ pc' = [pc EXCEPT ![cr] = "expire"] /\ init_flag' = init_flag /\ fut' = fut
      /\ ready' = ready /\ timers' = timers /\ idx' = idx /\ did_work' = did_work
      /\ kernel' = kernel \/ kernel' = DelayCurrent(kernel, 1)
  BY DEF PassEnds, Goto, exec
<1>3. /\ cr \in Tid /\ ~kernel.halted /\ cr \in Known(kernel)
      /\ PoolTyped /\ slot \in 0 .. ASYNC_POOL_MAX
      /\ PoolAt("scan", slot) /\ Scheduled(kernel)
  BY <1>1, ExecutorAt DEF IInv
<1>4. PICK n \in 0 .. ASYNC_POOL_MAX : n = slot /\ n \notin Slots /\ PoolAt("scan", n)
  BY <1>1, <1>3
<1>5. /\ Scheduled(kernel') /\ Spares(kernel, kernel', cr)
      /\ kernel'.priority = kernel.priority /\ kernel'.tid_bitmap = kernel.tid_bitmap
      /\ cr \in Known(kernel') /\ kernel'.os_ticks = kernel.os_ticks
  <2>1. CASE kernel' = kernel
    BY <1>3, <2>1, SparesItself
  <2>2. CASE kernel' = DelayCurrent(kernel, 1)
    BY <1>3, <2>2, DelaySpares DEF cr
  <2> QED BY <1>2, <2>1, <2>2
<1>6. PoolTyped'
  BY <1>2, <1>3 DEF PoolTyped
<1>7. \A i \in ready : ~(n <= i)
  BY <1>3, <1>4, TimerQueueAssumption DEF PoolTyped, Slots
<1>8. PoolAt("expire", n)'
  <2>1. Marks("expire", n)'
    BY <1>2, <1>4, <1>7 DEF PoolAt, Marks, HasEntry
  <2>2. Timely("expire", n)'
    BY <1>2, <1>4, <1>5 DEF PoolAt, Timely, Over
  <2> QED
    BY <1>2, <1>4, <2>1, <2>2 DEF PoolAt, AtSlot, Remembered, TimersAreAwaited
<1>9. idx'[cr] = n
  BY <1>2, <1>4 DEF slot
<1> HIDE DEF cr
<1> QED BY <1>1, <1>2, <1>5, <1>6, <1>8, <1>9, ExecutorMoves

-----------------------------------------------------------------------------
(* Steps of the other tasks.                                               *)

LEMMA PoolUnmoved ==
  ASSUME PoolInv, Executors' = Executors, \A e \in Executors : pc'[e] = pc[e],
         idx' = idx, fut' = fut, ready' = ready, timers' = timers,
         kernel'.os_ticks = kernel.os_ticks
  PROVE  PoolInv'
<1>1. \A at, n : PoolAt(at, n) =>
        /\ AtSlot(at, n)' /\ Marks(at, n)' /\ Timely(at, n)' /\ Remembered(at, n)'
        /\ TimersAreAwaited'
  BY DEF PoolAt, AtSlot, Marks, Timely, Remembered, TimersAreAwaited, HasEntry, Over
<1>2. ASSUME NEW e \in Executors PROVE PoolAt(pc[e], idx[e])'
  <2>1. \E at, n : at = pc[e] /\ n = idx[e]
    OBVIOUS
  <2>2. PICK at, n : at = pc[e] /\ n = idx[e]
    BY <2>1
  <2>3. PoolAt(at, n) /\ pc'[e] = at /\ idx'[e] = n
    BY <1>2, <2>2 DEF PoolInv
  <2>4. PoolAt(at, n)'
    BY <1>1, <2>3 DEF PoolAt
  <2> QED BY <2>3, <2>4 DEF PoolAt, AtSlot, Marks, Timely, Remembered
<1>3. Executors = {} => PoolAt("expire", 0)'
  <2>1. Executors = {} => PoolAt("expire", 0)
    BY DEF PoolInv
  <2> QED BY <1>1, <2>1 DEF PoolAt
<1> QED BY <1>2, <1>3 DEF PoolInv

\* A step of a task that is not the executor: who executes stays.
LEMMA OtherStep ==
  ASSUME IInv, NEW at \in Spawning \cup {"other"}, At(at),
         NEW to \in Spawning \cup {"other", "none"},
         pc' = [pc EXCEPT ![cr] = to], at \in Spawning <=> to \in Spawning,
         Scheduled(kernel'), Spares(kernel, kernel', cr), kernel'.priority = kernel.priority,
         to # "none" => cr \in kernel'.tid_bitmap
  PROVE  /\ cr \in Tid /\ pc[cr] = at /\ (at \in Spawning => cr \in Spawners)
         /\ \A t \in Tid \ {cr} : pc'[t] = pc[t]
         /\ pc'[cr] = to
         /\ Executors' = Executors /\ \A e \in Executors : pc'[e] = pc[e]
         /\ Roles'
         /\ pc' \in [Tid -> Spawning \cup Polling \cup {"other", "none"}]
<1>1. cr \in Tid /\ pc[cr] = at /\ pc \in [Tid -> Spawning \cup Polling \cup {"other", "none"}]
  BY DEF IInv, TypeOK, At, cr, Spawning, Polling, Scheduled
<1>2. /\ \A t \in Tid \ {cr} : pc'[t] = pc[t]
      /\ pc'[cr] = to /\ pc' \in [Tid -> Spawning \cup Polling \cup {"other", "none"}]
  BY <1>1
<1>3. /\ (Spawning \cup {"other", "none"}) \cap Polling = {}
      /\ {"other", "none"} \cap Spawning = {}
  BY DEF Spawning, Polling
<1>4. Executors' = Executors /\ \A e \in Executors : pc'[e] = pc[e]
  <2>1. \A t : t \in Executors <=> t \in Tid /\ pc[t] \in Polling
    BY DEF Executors, Executes, Polling
  <2>2. \A t : t \in Executors' <=> t \in Tid /\ pc'[t] \in Polling
    BY DEF Executors, Executes, Polling
  <2> QED BY <1>1, <1>2, <1>3, <2>1, <2>2
<1>5. at \in Spawning => cr \in Spawners
  BY <1>1 DEF IInv, Roles
<1>6. Roles'
  <2> HIDE DEF cr
  <2> QED BY <1>1, <1>2, <1>3, RolesLemma DEF IInv
<1> QED BY <1>1, <1>2, <1>4, <1>5, <1>6

\* A step of such a task that leaves the pool alone.
LEMMA OtherKeeps ==
  ASSUME IInv, NEW at \in Spawning \cup {"other"}, At(at),
         NEW to \in Spawning \cup {"other", "none"},
         pc' = [pc EXCEPT ![cr] = to], at \in Spawning <=> to \in Spawning,
         Scheduled(kernel'), Spares(kernel, kernel', cr), kernel'.priority = kernel.priority,
         to # "none" => cr \in kernel'.tid_bitmap,
         kernel'.os_ticks = kernel.os_ticks,
         UNCHANGED << fut, ready, timers, exec >>,
         init_flag' \in BOOLEAN, init_flag => init_flag',
         at = "flag" /\ Executors # {} => init_flag' \/ to = "flag",
         to = "init" => Executors = {}
  PROVE  IInv'
<1>1. /\ cr \in Tid /\ pc[cr] = at /\ (at \in Spawning => cr \in Spawners)
      /\ \A t \in Tid \ {cr} : pc'[t] = pc[t]
      /\ pc'[cr] = to
      /\ Executors' = Executors /\ \A e \in Executors : pc'[e] = pc[e]
      /\ Roles'
      /\ pc' \in [Tid -> Spawning \cup Polling \cup {"other", "none"}]
  BY OtherStep
<1>2. TypeOK'
  <2>1. kernel' \in KernelState /\ kernel'.current \in Tid
    BY DEF Scheduled, Fit
  <2> QED BY <1>1, <2>1 DEF IInv, TypeOK, exec, Spawning, Polling
<1>3. OneExecutor'
  <2> HIDE DEF cr
  <2>1. Spawners \subseteq Tid
    BY AsyncRtAssumption, TaskMaxAssumption, LenProperties DEF Tid
  <2>2. ASSUME Executors # {}, ~init_flag' PROVE \E s \in Spawners : pc'[s] = "flag"
    <3>1. PICK s \in Spawners : pc[s] = "flag"
      BY <2>2 DEF IInv, OneExecutor
    <3>2. CASE s = cr
      <4>1. at = "flag"
        BY <1>1, <3>1, <3>2
      <4>2. to = "flag"
        BY <2>2, <4>1
      <4> QED BY <1>1, <3>1, <3>2, <4>2
    <3>3. CASE s # cr
      BY <1>1, <2>1, <3>1, <3>3
    <3> QED BY <3>2, <3>3
  <2>3. ASSUME NEW s \in Spawners, pc'[s] = "init" PROVE Executors = {}
    BY <1>1, <2>1, <2>3 DEF IInv, OneExecutor
  <2> QED BY <1>1, <2>2, <2>3 DEF IInv, OneExecutor
<1>4. PoolInv'
  BY <1>1, PoolUnmoved DEF IInv, exec
<1> QED BY <1>1, <1>2, <1>3, <1>4 DEF IInv

\* The task that spawns is the only one, so at the test of INIT_FLAG an executor
\* implies the flag.
LEMMA SpawnKeepsIInv == OneSpawner /\ IInv /\ Spawn => IInv'
<1> SUFFICES ASSUME OneSpawner, IInv, Spawn PROVE IInv'
  OBVIOUS
<1>1. PICK to \in {"store", "init"} :
        pc' = [pc EXCEPT ![cr] = to] /\ (to = "init" => ~init_flag)
  BY DEF Spawn, Goto
<1>2. /\ At("run") /\ kernel' = kernel /\ init_flag' = init_flag
      /\ UNCHANGED << fut, ready, timers, exec >>
  BY DEF Spawn
<1>3. "run" \in Spawning /\ to \in Spawning
  BY <1>1 DEF Spawning
<1>4. cr \in Tid /\ pc[cr] = "run" /\ cr \in Spawners /\ cr \in kernel.tid_bitmap
  BY <1>2, <1>3 DEF IInv, TypeOK, Roles, At, cr
<1>5. ~init_flag => Executors = {}
  <2>1. \A s \in Spawners : s = cr
    BY <1>4 DEF OneSpawner
  <2> QED BY <1>4, <2>1 DEF IInv, OneExecutor
<1>6. Scheduled(kernel') /\ Spares(kernel, kernel', cr) /\ init_flag \in BOOLEAN
  BY <1>2, SparesItself DEF IInv, TypeOK
<1> HIDE DEF cr
<1>7. IInv'
  BY <1>1, <1>2, <1>3, <1>4, <1>5, <1>6, OtherKeeps
<1> QED BY <1>7

LEMMA NoExecKeepsIInv == IInv /\ NoExec => IInv'
<1> SUFFICES ASSUME IInv, NoExec PROVE IInv'
  OBVIOUS
<1>1. /\ At("init") /\ pc' = [pc EXCEPT ![cr] = "store"]
      /\ kernel' = kernel /\ init_flag' = init_flag
      /\ UNCHANGED << fut, ready, timers, exec >>
  BY DEF NoExec, Goto
<1> DEFINE at == "init"
           to == "store"
<1>2. at \in Spawning /\ to \in Spawning /\ at # "flag" /\ to # "init"
  BY DEF Spawning
<1>3. At(at) /\ pc' = [pc EXCEPT ![cr] = to]
  BY <1>1
<1>4. cr \in kernel.tid_bitmap
  BY <1>1 DEF IInv, TypeOK, Roles, At, cr
<1>5. /\ Scheduled(kernel') /\ Spares(kernel, kernel', cr)
      /\ init_flag' \in BOOLEAN /\ (init_flag => init_flag')
  BY <1>1, SparesItself DEF IInv, TypeOK
<1> HIDE DEF cr, at, to
<1> QED BY <1>1, <1>2, <1>3, <1>4, <1>5, OtherKeeps

LEMMA SetFlagKeepsIInv == IInv /\ SetFlag => IInv'
<1> SUFFICES ASSUME IInv, SetFlag PROVE IInv'
  OBVIOUS
<1>1. /\ At("flag") /\ pc' = [pc EXCEPT ![cr] = "store"]
      /\ kernel' = kernel /\ init_flag' = TRUE
      /\ UNCHANGED << fut, ready, timers, exec >>
  BY DEF SetFlag, Goto
<1>2. "flag" \in Spawning /\ "store" \in Spawning
  BY DEF Spawning
<1>3. cr \in kernel.tid_bitmap
  BY <1>1 DEF IInv, TypeOK, Roles, At, cr
<1>4. Scheduled(kernel') /\ Spares(kernel, kernel', cr)
  BY <1>1, SparesItself DEF IInv
<1> HIDE DEF cr
<1> QED BY <1>1, <1>2, <1>3, <1>4, OtherKeeps

LEMMA SleepKeepsIInv == IInv /\ Sleep => IInv'
<1> SUFFICES ASSUME IInv, Sleep PROVE IInv'
  OBVIOUS
<1>1. PICK at \in {"run", "other"} : At(at)
  BY DEF Sleep
<1>2. /\ kernel' = DelayCurrent(kernel, 1) /\ init_flag' = init_flag /\ pc' = pc
      /\ UNCHANGED << fut, ready, timers, exec >>
  BY DEF Sleep
<1>3. at \in Spawning \cup {"other"} /\ at # "none"
  BY <1>1 DEF Spawning
<1>4. cr \in kernel.tid_bitmap /\ pc' = [pc EXCEPT ![cr] = at]
  BY <1>1, <1>2 DEF IInv, TypeOK, Roles, At, cr
<1>5. /\ Scheduled(kernel') /\ Spares(kernel, kernel', cr) /\ init_flag \in BOOLEAN
      /\ kernel'.priority = kernel.priority /\ kernel'.tid_bitmap = kernel.tid_bitmap
      /\ kernel'.os_ticks = kernel.os_ticks
  BY <1>1, <1>2, DelaySpares DEF IInv, TypeOK, At, cr
<1>6. ASSUME at = "init" PROVE FALSE
  BY <1>1, <1>6
<1>7. ASSUME at = "flag" PROVE FALSE
  BY <1>1, <1>7
<1> HIDE DEF cr
<1> QED BY <1>1, <1>2, <1>3, <1>4, <1>5, <1>6, <1>7, OtherKeeps

LEMMA LeaveKeepsIInv == IInv /\ Leave => IInv'
<1> SUFFICES ASSUME IInv, Leave PROVE IInv'
  OBVIOUS
<1>1. /\ At("other") /\ pc' = [pc EXCEPT ![cr] = "none"]
      /\ kernel' = ExitCurrent(kernel) /\ init_flag' = init_flag
      /\ UNCHANGED << fut, ready, timers, exec >>
  BY DEF Leave, Goto
<1>2. "other" \notin Spawning /\ "none" \notin Spawning
  BY DEF Spawning
<1>3. /\ Scheduled(kernel') /\ Spares(kernel, kernel', cr) /\ init_flag \in BOOLEAN
      /\ kernel'.priority = kernel.priority /\ kernel'.os_ticks = kernel.os_ticks
  BY <1>1, ExitSpares DEF IInv, TypeOK, At, cr
<1> HIDE DEF cr
<1> QED BY <1>1, <1>2, <1>3, OtherKeeps

\* The task that spawns runs, so the more urgent executor sleeps between two passes
\* and does not stand before the other assignment of clear().
LEMMA StoreKeepsIInv == ExecutorFirst /\ IInv /\ Store => IInv'
<1> SUFFICES ASSUME ExecutorFirst, IInv, Store PROVE IInv'
  OBVIOUS
<1> DEFINE at == "store"
           to == "run"
<1>1. /\ At(at) /\ pc' = [pc EXCEPT ![cr] = to] /\ kernel' = kernel
      /\ init_flag' = init_flag /\ timers' = timers /\ idx' = idx /\ did_work' = did_work
  BY DEF Store, Goto, exec
<1>2. at \in Spawning /\ to \in Spawning /\ "init" # to /\ at # "flag"
  BY DEF Spawning
<1>3. PoolTyped
  BY DEF IInv, TypeOK, PoolTyped, Futures, Entry
<1>4. /\ cr \in Tid /\ pc[cr] = at /\ cr \in Spawners
      /\ \A t \in Tid \ {cr} : pc'[t] = pc[t]
      /\ pc'[cr] = to
      /\ Executors' = Executors /\ \A e \in Executors : pc'[e] = pc[e]
      /\ Roles'
      /\ pc' \in [Tid -> Spawning \cup Polling \cup {"other", "none"}]
  <2>1. /\ Scheduled(kernel') /\ Spares(kernel, kernel', cr)
        /\ cr \in Tid /\ pc[cr] = at /\ (to # "none" => cr \in kernel'.tid_bitmap)
    BY <1>1, SparesItself DEF IInv, TypeOK, Roles, At, cr
  <2> HIDE DEF cr, at, to
  <2> QED BY <1>1, <1>2, <2>1, OtherStep
<1>5. \A e \in Executors : pc[e] = "expire"
  <2> SUFFICES ASSUME NEW e \in Executors, pc[e] # "expire" PROVE FALSE
    OBVIOUS
  <2>1. e \in Range(kernel.ready) /\ kernel.priority[e] = ExecPriority
    BY DEF IInv, Roles
  <2>2. kernel.priority[cr] <= kernel.priority[e]
    BY <1>1, <2>1 DEF IInv, Scheduled, Foremost, At, cr
  <2>3. kernel.priority[cr] = TaskPriorities[cr + 1]
    BY <1>4 DEF IInv, Roles
  <2>4. ExecPriority < TaskPriorities[cr + 1]
    BY <1>4 DEF ExecutorFirst
  <2>5. ExecPriority \in Int /\ kernel.priority[cr] \in Int
    BY <1>4, AsyncRtAssumption, KernelAssumption DEF IInv, TypeOK, KernelState, Priorities
  <2> HIDE DEF cr
  <2> QED BY <2>1, <2>2, <2>3, <2>4, <2>5
<1>6. /\ PoolTyped'
      /\ \A n : PoolAt("expire", n) => PoolAt("expire", n)'
      /\ (\A i \in Slots : fut[i] \in {NoFuture, Running})
           => (\A i \in Slots : fut'[i] \in {NoFuture, Running})
  <2>1. CASE FreeSlots = {}
    <3>1. fut' = fut /\ ready' = ready
      BY <2>1 DEF Store
    <3> QED
      BY <1>1, <1>3, <3>1 DEF PoolTyped, PoolAt, AtSlot, Marks, Timely, Remembered, HasEntry,
                              Over, TimersAreAwaited
  <2>2. CASE FreeSlots # {}
    <3> DEFINE m == Min(FreeSlots)
    <3>1. m \in Slots /\ fut[m] = NoFuture
      <4>1. FreeSlots \subseteq Nat
        BY TimerQueueAssumption DEF FreeSlots, Slots
      <4>2. m \in FreeSlots
        BY <2>2, <4>1, MinOfNats
      <4> QED BY <4>2 DEF FreeSlots
    <3>2. fut' = [fut EXCEPT ![m] = Running] /\ ready' = ready \cup {m}
      BY <2>2 DEF Store
    <3> HIDE DEF m
    <3>3. /\ PoolTyped' /\ fut'[m] = Running /\ \A i \in Slots \ {m} : fut'[i] = fut[i]
      BY <1>1, <1>3, <3>1, <3>2, FutureKinds DEF PoolTyped
    <3>4. fut[m].awaits # "timer" /\ Running.awaits # "timer" /\ Running # NoFuture
      BY <3>1, FutureKinds
    <3>5. TimersAreAwaited => TimersAreAwaited' /\ ~HasEntry(m)
      <4>1. TimersAreAwaited => ~HasEntry(m)
        BY <3>4 DEF TimersAreAwaited, HasEntry
      <4> QED BY <1>1, <1>3, <3>1, <3>3, <4>1, PolledHasNoEntry
    <3>6. \A i : HasEntry(i)' <=> HasEntry(i)
      BY <1>1 DEF HasEntry
    <3>7. ASSUME NEW n, PoolAt("expire", n) PROVE PoolAt("expire", n)'
      <4>1. /\ Marks("expire", n) /\ Timely("expire", n) /\ Remembered("expire", n)
            /\ TimersAreAwaited' /\ ~HasEntry(m)
        BY <3>5, <3>7 DEF PoolAt
      <4>2. ready \subseteq Slots
        BY <1>3 DEF PoolTyped
      <4>3. Marks("expire", n)'
        BY <3>2, <3>3, <3>4, <3>6, <4>1, <4>2 DEF Marks
      <4>4. Timely("expire", n)'
        BY <1>1, <3>2, <3>3, <3>4, <4>1 DEF Timely, Over
      <4>5. Remembered("expire", n)'
        BY <1>1, <3>2, <3>3, <4>1 DEF Remembered
      <4> QED BY <4>1, <4>3, <4>4, <4>5 DEF PoolAt, AtSlot
    <3> QED BY <3>3, <3>7
  <2> QED BY <2>1, <2>2
<1>7. PoolInv'
  <2>1. ASSUME NEW e \in Executors PROVE PoolAt(pc[e], idx[e])'
    <3>1. PICK n : n = idx[e]
      OBVIOUS
    <3>2. pc[e] = "expire" /\ pc'[e] = "expire" /\ idx'[e] = n
      BY <1>1, <1>4, <1>5, <3>1
    <3>3. PoolAt("expire", n)
      BY <3>1, <3>2 DEF IInv, PoolInv
    <3>4. PoolAt("expire", n)'
      BY <1>6, <3>3
    <3> QED BY <3>2, <3>4 DEF PoolAt, AtSlot, Marks, Timely, Remembered
  <2>2. ASSUME Executors = {}
        PROVE  /\ PoolAt("expire", 0)' /\ timers' = << >>
               /\ \A i \in Slots : fut'[i] \in {NoFuture, Running}
    <3>1. /\ PoolAt("expire", 0) /\ timers = << >>
          /\ \A i \in Slots : fut[i] \in {NoFuture, Running}
      BY <2>2 DEF IInv, PoolInv
    <3> QED BY <1>1, <1>6, <3>1
  <2> QED BY <1>4, <2>1, <2>2 DEF PoolInv
<1>8. OneExecutor'
  <2> HIDE DEF cr
  <2>1. Spawners \subseteq Tid
    BY AsyncRtAssumption, TaskMaxAssumption, LenProperties DEF Tid
  <2>2. \A s \in Spawners : pc[s] = "flag" => pc'[s] = "flag"
    BY <1>2, <1>4, <2>1
  <2>3. \A s \in Spawners : pc'[s] = "init" => pc[s] = "init"
    BY <1>2, <1>4, <2>1
  <2> QED BY <1>1, <1>4, <2>2, <2>3 DEF IInv, OneExecutor
<1>9. TypeOK' /\ Scheduled(kernel')
  BY <1>1, <1>4, <1>6 DEF IInv, TypeOK, PoolTyped, Futures, Entry, Spawning, Polling
<1> QED BY <1>1, <1>4, <1>7, <1>8, <1>9 DEF IInv

\* The new executor finds a pool in which nothing has run.
LEMMA CreateExecKeepsIInv == OneSpawner /\ IInv /\ CreateExec => IInv'
<1> SUFFICES ASSUME OneSpawner, IInv, CreateExec PROVE IInv'
  OBVIOUS
<1> DEFINE tid == LowestFree(kernel)
<1>1. /\ At("init") /\ FreeTids(kernel) # {} /\ kernel' = CreateTask(kernel, ExecPriority)
      /\ pc' = [pc EXCEPT ![cr] = "flag", ![tid] = "expire"] /\ init_flag' = init_flag
      /\ fut' = fut /\ ready' = ready /\ timers' = timers /\ idx' = idx /\ did_work' = did_work
  BY DEF CreateExec, exec
<1>2. /\ cr \in Tid /\ pc[cr] = "init" /\ pc \in [Tid -> Spawning \cup Polling \cup {"other", "none"}]
      /\ ~kernel.halted /\ Scheduled(kernel)
  BY <1>1 DEF IInv, TypeOK, At, cr, Spawning, Polling
<1>3. /\ Scheduled(kernel') /\ Spares(kernel, kernel', tid)
      /\ tid \in Tid \ kernel.tid_bitmap
      /\ tid \in Range(kernel'.ready) /\ tid \in kernel'.tid_bitmap
      /\ kernel'.priority[tid] = ExecPriority /\ kernel'.os_ticks = kernel.os_ticks
  BY <1>1, <1>2, CreateSpares, AsyncRtAssumption
<1> HIDE DEF tid, cr
<1>4. pc[tid] = "none" /\ tid # cr /\ cr \in Spawners
  BY <1>2, <1>3 DEF IInv, Roles, Spawning
<1>5. /\ pc'[cr] = "flag" /\ pc'[tid] = "expire" /\ \A t \in Tid \ {cr, tid} : pc'[t] = pc[t]
      /\ pc' \in [Tid -> Spawning \cup Polling \cup {"other", "none"}]
  BY <1>1, <1>2, <1>3, <1>4 DEF Spawning, Polling
<1>6. Executors = {}
  BY <1>2, <1>4 DEF IInv, OneExecutor
<1>7. Executors' = {tid}
  BY <1>3, <1>5, <1>6 DEF Executors, Executes
<1>8. Roles'
  <2>1. "flag" \in Spawning /\ pc[cr] \in Spawning /\ pc'[tid] \notin Spawning
        /\ pc[tid] \notin Spawning /\ pc'[tid] = "expire"
    BY <1>2, <1>4, <1>5 DEF Spawning
  <2>2. \A t \in Tid \ {tid} : pc'[t] = pc[t] \/ {pc'[t], pc[t]} \subseteq Spawning
    BY <1>5, <2>1
  <2>3. tid \in Known(kernel')
    BY <1>3 DEF Known
  <2> QED BY <1>3, <1>5, <2>1, <2>2, <2>3, RolesLemma DEF IInv
<1>9. OneExecutor'
  <2>1. \A s \in Spawners : s = cr
    BY <1>4 DEF OneSpawner
  <2> QED BY <1>4, <1>5, <1>7, <2>1 DEF OneExecutor
<1>10. PoolInv'
  <2>1. /\ PoolAt("expire", 0) /\ timers = << >>
        /\ \A i \in Slots : fut[i].awaits # "timer"
    BY <1>6, FutureKinds DEF IInv, PoolInv
  <2>2. PICK n : n = idx[tid]
    OBVIOUS
  <2>3. ready \subseteq Slots
    BY DEF IInv, TypeOK
  <2>4. PoolAt("expire", n)'
    <3>1. Marks("expire", n)'
      BY <1>1, <2>1, <2>3 DEF PoolAt, Marks, HasEntry
    <3>2. Timely("expire", n)'
      BY <1>1, <2>1 DEF Timely
    <3>3. Remembered("expire", n)' /\ TimersAreAwaited'
      BY <1>1, <2>1 DEF PoolAt, Remembered, TimersAreAwaited
    <3> QED BY <3>1, <3>2, <3>3 DEF PoolAt, AtSlot
  <2>5. ASSUME NEW e \in Executors' PROVE PoolAt(pc[e], idx[e])'
    <3>1. pc'[e] = "expire" /\ idx'[e] = n
      BY <1>1, <1>5, <1>7, <2>2, <2>5
    <3> QED BY <2>4, <3>1 DEF PoolAt, AtSlot, Marks, Timely, Remembered
  <2> QED BY <1>7, <2>5 DEF PoolInv
<1>11. TypeOK'
  <2>1. kernel' \in KernelState /\ kernel'.current \in Tid
    BY <1>3 DEF Scheduled, Fit
  <2> QED BY <1>1, <1>5, <2>1 DEF IInv, TypeOK, Spawning, Polling
<1> QED BY <1>3, <1>8, <1>9, <1>10, <1>11 DEF IInv

-----------------------------------------------------------------------------
(* Time.                                                                   *)

LEMMA OneRemainder ==
  ASSUME NEW n \in Nat, n > 0, NEW x \in Int, NEW q \in Int, NEW r \in 0 .. n - 1,
         x = n * q + r
  PROVE  x % n = r
OBVIOUS

\* Within one turn of a counter a remainder is a comparison.
LEMMA OneTurn ==
  ASSUME NEW n \in Nat, n > 0, NEW x \in Int, -n < x, x < 2 * n
  PROVE  x % n = IF x < 0 THEN x + n ELSE IF x < n THEN x ELSE x - n
<1>1. CASE x < 0
  <2>1. x + n \in 0 .. n - 1 /\ x = n * (-1) + (x + n) /\ -1 \in Int
    BY <1>1
  <2> QED BY <1>1, <2>1, OneRemainder
<1>2. CASE 0 <= x /\ x < n
  <2>1. x \in 0 .. n - 1 /\ x = n * 0 + x
    BY <1>2
  <2> QED BY <1>2, <2>1
<1>3. CASE n <= x
  <2>1. x - n \in 0 .. n - 1 /\ x = n * 1 + (x - n)
    BY <1>3
  <2> QED BY <1>3, <2>1, OneRemainder
<1> QED BY <1>1, <1>2, <1>3

Half == (TickMod + 1) \div 2

LEMMA HalfLemma == Half \in Nat /\ 2 * Half <= TickMod + 1 /\ TickMod <= 2 * Half
BY KernelAssumption DEF Half

\* A deadline that is less than LateMax ticks past is past after one more tick.
LEMMA StillOver ==
  ASSUME NEW now \in Tick, NEW w \in Tick, (now - w) % TickMod < LateMax
  PROVE  NotBefore((now + 1) % TickMod, w)
<1> DEFINE next == (now + 1) % TickMod
<1>1. /\ TickMod \in Nat /\ TickMod > 0 /\ now \in 0 .. TickMod - 1 /\ w \in 0 .. TickMod - 1
      /\ LateMax \in Nat /\ LateMax + 1 < Half /\ Half \in Nat /\ 2 * Half <= TickMod + 1
  BY KernelAssumption, AsyncRtAssumption, HalfLemma DEF Tick, Half
<1> HIDE DEF Half
<1>2. next = IF now + 1 < TickMod THEN now + 1 ELSE now + 1 - TickMod
  <2>1. now + 1 \in Int /\ -TickMod < now + 1 /\ now + 1 < 2 * TickMod
    BY <1>1
  <2> HIDE DEF next
  <2> QED BY <1>1, <2>1, OneTurn DEF next
<1> HIDE DEF next
<1>3. (now - w) % TickMod = IF now - w < 0 THEN now - w + TickMod ELSE now - w
  <2>1. now - w \in Int /\ -TickMod < now - w /\ now - w < TickMod
    BY <1>1
  <2> QED BY <1>1, <2>1, OneTurn
<1>4. (next - w) % TickMod = IF next - w < 0 THEN next - w + TickMod ELSE next - w
  <2>1. next - w \in Int /\ -TickMod < next - w /\ next - w < TickMod
    BY <1>1, <1>2
  <2> QED BY <1>1, <2>1, OneTurn
<1>5. (next - w) % TickMod < Half
  <2> DEFINE late == (now - w) % TickMod
             later == (next - w) % TickMod
  <2>1. late < LateMax /\ late = (IF now - w < 0 THEN now - w + TickMod ELSE now - w)
    BY <1>3
  <2>2. later = (IF next - w < 0 THEN next - w + TickMod ELSE next - w)
    BY <1>4
  <2> HIDE DEF late, later
  <2>3. later < Half
    BY <1>1, <1>2, <2>1, <2>2
  <2> QED BY <2>3 DEF later
<1> QED BY <1>5 DEF NotBefore, Half, next

\* Only over deadlines could change, and the bound on the clock keeps them over.
LEMMA TimerKeepsIInv == IInv /\ Timer => IInv'
<1> SUFFICES ASSUME IInv, Timer PROVE IInv'
  OBVIOUS
<1>1. /\ ~kernel.halted /\ InTime /\ kernel' = TickTrap(kernel, 1) /\ init_flag' = init_flag
      /\ fut' = fut /\ ready' = ready /\ timers' = timers /\ pc' = pc /\ idx' = idx
      /\ did_work' = did_work
  BY DEF Timer, exec
<1>2. /\ Scheduled(kernel') /\ Spares(kernel, kernel', NoTask)
      /\ kernel'.os_ticks = (kernel.os_ticks + 1) % TickMod
      /\ pc \in [Tid -> Spawning \cup Polling \cup {"other", "none"}]
      /\ kernel.os_ticks \in Tick
  BY <1>1, TickSpares DEF IInv, TypeOK, KernelState, Spawning, Polling
<1>3. Executors' = Executors /\ OneExecutor'
  BY <1>1 DEF IInv, OneExecutor, Executors, Executes
<1>4. Roles'
  BY <1>1, <1>2, RolesLemma, KernelAssumption DEF IInv
<1>5. TypeOK'
  BY <1>1, <1>2 DEF IInv, TypeOK, Scheduled, Fit
<1>6. ASSUME NEW e \in Executors, NEW i \in Slots, fut[i].awaits = "timer", Over(fut[i].wake),
             e \in Range(kernel.ready)
      PROVE  NotBefore(kernel'.os_ticks, fut[i].wake)
  <2>1. kernel.status[e] # "Blocked"
    BY <1>6 DEF IInv, Scheduled, Fit, Executors
  <2>2. (kernel.os_ticks - fut[i].wake) % TickMod < LateMax
    BY <1>1, <1>6, <2>1 DEF InTime, Over
  <2>3. fut[i].wake \in Tick
    BY DEF IInv, TypeOK
  <2> QED BY <1>2, <2>2, <2>3, StillOver
<1>7. ASSUME NEW e \in Executors PROVE PoolAt(pc[e], idx[e])'
  <2>1. PICK at, n : at = pc[e] /\ n = idx[e]
    <3>1. \E at, n : at = pc[e] /\ n = idx[e]
      OBVIOUS
    <3> QED BY <3>1
  <2>2. PoolAt(at, n) /\ pc'[e] = at /\ idx'[e] = n
    BY <1>1, <1>7, <2>1 DEF IInv, PoolInv
  <2>3. at # "expire" => e \in Range(kernel.ready)
    BY <1>7, <2>1 DEF IInv, Roles
  <2>4. Timely(at, n)'
    <3>1. Timely(at, n) /\ Marks(at, n)
      BY <2>2 DEF PoolAt
    <3>2. ASSUME NEW i \in Slots, fut[i].awaits = "timer", fut[i].registered,
                 i \in ready \/ (at = "poll" /\ n = i)
          PROVE  NotBefore(kernel'.os_ticks, fut[i].wake)
      <4>1. Over(fut[i].wake)
        BY <3>1, <3>2 DEF Timely
      <4>2. at # "expire"
        BY <3>1, <3>2 DEF Marks
      <4> QED BY <1>6, <1>7, <2>3, <3>2, <4>1, <4>2
    <3>3. ASSUME NEW i \in Slots, fut[i].awaits = "timer", ~fut[i].registered
          PROVE  at = "poll" /\ n = i
      BY <3>1, <3>3 DEF Timely
    <3> QED BY <1>1, <3>2, <3>3 DEF Timely, Over
  <2>5. PoolAt(at, n)'
    BY <1>1, <2>2, <2>4 DEF PoolAt, AtSlot, Marks, Remembered, HasEntry, TimersAreAwaited
  <2> QED BY <2>2, <2>5 DEF PoolAt, AtSlot, Marks, Timely, Remembered
<1>8. ASSUME Executors = {}
      PROVE  PoolAt("expire", 0)' /\ timers' = << >>
             /\ \A i \in Slots : fut'[i] \in {NoFuture, Running}
  <2>1. /\ PoolAt("expire", 0) /\ timers = << >>
        /\ \A i \in Slots : fut[i] \in {NoFuture, Running}
    BY <1>8 DEF IInv, PoolInv
  <2>2. Timely("expire", 0)'
    BY <1>1, <2>1, FutureKinds DEF Timely
  <2> QED
    BY <1>1, <2>1, <2>2 DEF PoolAt, AtSlot, Marks, Remembered, HasEntry, TimersAreAwaited
<1>9. PoolInv'
  BY <1>3, <1>7, <1>8 DEF PoolInv
<1> QED BY <1>2, <1>3, <1>4, <1>5, <1>9 DEF IInv

-----------------------------------------------------------------------------
(* Every behaviour.                                                        *)

LEMMA InitIInv == Init => IInv
<1> SUFFICES ASSUME Init PROVE IInv
  OBVIOUS
<1> DEFINE n == Len(TaskPriorities)
<1>1. /\ kernel = LaunchedWith(TaskPriorities) /\ init_flag = FALSE
      /\ fut = [i \in Slots |-> NoFuture] /\ ready = {} /\ timers = << >>
      /\ pc = [t \in Tid |-> IF t \in Spawners THEN "run"
                             ELSE IF t < n THEN "other" ELSE "none"]
      /\ idx = [t \in Tid |-> 0] /\ did_work = [t \in Tid |-> FALSE]
  BY DEF Init
<1>2. TaskPriorities \in Seq(Priorities) /\ n < TASK_MAX /\ Spawners \subseteq 0 .. n - 1 /\ n \in Nat
  BY AsyncRtAssumption, LenProperties
<1>3. /\ Fit(kernel) /\ Ordered(kernel) /\ Foremost(kernel)
      /\ Range(kernel.ready) = 0 .. n /\ kernel.sleeping = << >>
      /\ \A t \in 0 .. n - 1 : kernel.priority[t] = TaskPriorities[t + 1]
      /\ kernel.current \in Tid /\ kernel.current \in Range(kernel.ready)
      /\ kernel.tid_bitmap = 0 .. n /\ kernel.sched_ready
  <2> HIDE DEF n
  <2> QED BY <1>1, <1>2, FitLaunchedWith DEF n
<1> HIDE DEF n
<1>4. Scheduled(kernel)
  <2>1. Range(kernel.sleeping) = {}
    BY <1>3, EmptySeq DEF Range
  <2> QED BY <1>3, <2>1 DEF Scheduled, Known
<1>5. Tid \subseteq Nat /\ Spawners \subseteq Tid
  BY <1>2, TaskMaxAssumption DEF Tid
<1>6. Executors = {}
  BY <1>1 DEF Executors, Executes
<1>7. Roles
  <2>1. ASSUME NEW t \in Tid, pc[t] # "none" PROVE t \in kernel.tid_bitmap
    <3>1. t \in Spawners \/ t < n
      BY <1>1, <2>1
    <3> QED BY <1>2, <1>3, <1>5, <3>1
  <2>2. \A t \in Tid : pc[t] \in Spawning <=> t \in Spawners
    BY <1>1 DEF Spawning
  <2> QED BY <1>2, <1>3, <1>6, <2>1, <2>2 DEF Roles
<1>8. OneExecutor
  BY <1>1, <1>5, <1>6 DEF OneExecutor
<1>9. timers \in Seq([wake : Tick, slot : Slots]) /\ Len(timers) = 0
  BY <1>1, EmptySeq
<1>10. PoolInv
  <2>1. PoolAt("expire", 0)
    <3>1. AtSlot("expire", 0) /\ Marks("expire", 0)
      BY <1>1 DEF AtSlot, Marks
    <3>2. Timely("expire", 0) /\ Remembered("expire", 0)
      BY <1>1, FutureKinds DEF Timely, Remembered
    <3>3. TimersAreAwaited
      BY <1>9 DEF TimersAreAwaited
    <3> QED BY <3>1, <3>2, <3>3 DEF PoolAt
  <2> QED BY <1>1, <1>6, <2>1 DEF PoolInv
<1>11. TypeOK
  <2>1. kernel \in KernelState
    BY <1>3 DEF Fit
  <2>2. fut \in [Slots -> Futures]
    BY <1>1, FutureKinds
  <2>3. idx \in [Tid -> 0 .. ASYNC_POOL_MAX]
    BY <1>1, TimerQueueAssumption
  <2> QED BY <1>1, <1>3, <1>9, <2>1, <2>2, <2>3 DEF TypeOK, Futures
<1> QED BY <1>4, <1>7, <1>8, <1>10, <1>11 DEF IInv

LEMMA NextIInv == OneSpawner /\ ExecutorFirst /\ IInv /\ [Next]_vars => IInv'
<1> SUFFICES ASSUME OneSpawner, ExecutorFirst, IInv, [Next]_vars PROVE IInv'
  OBVIOUS
<1>1. CASE Spawn \/ CreateExec \/ NoExec \/ SetFlag \/ Store
  BY <1>1, SpawnKeepsIInv, CreateExecKeepsIInv, NoExecKeepsIInv, SetFlagKeepsIInv, StoreKeepsIInv
<1>2. CASE Expire \/ Scan \/ PassEnds \/ Take
  BY <1>2, ExpireKeepsIInv, ScanKeepsIInv, PassEndsKeepsIInv, TakeKeepsIInv
<1>3. CASE Finish \/ ClearReady \/ YieldNow \/ YieldDone
  BY <1>3, FinishKeepsIInv, ClearReadyKeepsIInv, YieldNowKeepsIInv, YieldDoneKeepsIInv
<1>4. CASE (\E ms \in AsyncDelays : DelayMs(ms)) \/ PollTimer \/ Register
  BY <1>4, DelayMsKeepsIInv, PollTimerKeepsIInv, RegisterKeepsIInv
<1>5. CASE Sleep \/ Leave \/ Timer
  BY <1>5, SleepKeepsIInv, LeaveKeepsIInv, TimerKeepsIInv
<1>6. CASE UNCHANGED vars
  <2>1. /\ kernel' = kernel /\ init_flag' = init_flag /\ fut' = fut /\ ready' = ready
        /\ timers' = timers /\ pc' = pc /\ idx' = idx /\ did_work' = did_work
    BY <1>6 DEF vars, exec
  <2>2. TypeOK'
    BY <2>1 DEF IInv, TypeOK
  <2>3. Executors' = Executors
    BY <2>1 DEF Executors, Executes
  <2>4. Roles' /\ OneExecutor'
    BY <2>1, <2>3 DEF IInv, Roles, OneExecutor, Known
  <2>5. PoolInv'
    BY <2>1, <2>3, PoolUnmoved DEF IInv
  <2>6. Scheduled(kernel')
    BY <2>1 DEF IInv
  <2> QED BY <2>2, <2>4, <2>5, <2>6 DEF IInv
<1> QED BY <1>1, <1>2, <1>3, <1>4, <1>5, <1>6 DEF Next

LEMMA SpecIInv == OneSpawner /\ ExecutorFirst /\ Spec => []IInv
<1> SUFFICES ASSUME OneSpawner, ExecutorFirst PROVE Spec => []IInv
  OBVIOUS
<1>1. IInv /\ [Next]_vars => IInv'
  BY NextIInv
<1> QED BY <1>1, InitIInv, PTL DEF Spec

\* The pool, the heap and the places keep their types, and some task is always
\* current (async_rt.rs, on top of sched.rs).
THEOREM TypeCorrect == OneSpawner /\ ExecutorFirst /\ Spec => []TypeOK
<1>1. IInv => TypeOK
  BY DEF IInv
<1> QED BY <1>1, SpecIInv, PTL

\* Every future in the pool is going to be polled again: it is marked ready, is
\* being polled, or awaits a deadline that is in the heap.  Between the clearing of
\* ready and the poll, between the first poll of a timer and its entry, or in a heap
\* whose places are all used, no wake-up is forgotten (poll_all, Timer::poll,
\* YieldOnce::poll, TimerQueue::push).
THEOREM NoFutureIsLost == OneSpawner /\ ExecutorFirst /\ Spec => []NothingIsLost
<1>1. IInv => NothingIsLost
  <2> SUFFICES ASSUME IInv PROVE NothingIsLost
    OBVIOUS
  <2>1. CASE Executors = {}
    <3>1. Remembered("expire", 0)
      BY <2>1 DEF IInv, PoolInv, PoolAt
    <3> QED BY <3>1 DEF Remembered, NothingIsLost
  <2>2. ASSUME NEW e \in Executors PROVE NothingIsLost
    <3>1. PICK at, n : at = pc[e] /\ n = idx[e]
      <4>1. \E at, n : at = pc[e] /\ n = idx[e]
        OBVIOUS
      <4> QED BY <4>1
    <3>2. Remembered(at, n)
      BY <2>2, <3>1 DEF IInv, PoolInv, PoolAt
    <3>3. \A i : at \in {"poll", "register"} /\ n = i => InPoll(i)
      BY <2>2, <3>1 DEF InPoll
    <3> QED BY <3>2, <3>3 DEF Remembered, NothingIsLost
  <2> QED BY <2>1, <2>2
<1> QED BY <1>1, SpecIInv, PTL

\* The entries of the heap are the deadlines that futures await, each once, so
\* the heap never needs more places than the pool has (TimerQueue::push, clear).
THEOREM EntriesAreAwaited == OneSpawner /\ ExecutorFirst /\ Spec => []TimersAreAwaited
<1>1. IInv => TimersAreAwaited
  <2> SUFFICES ASSUME IInv PROVE TimersAreAwaited
    OBVIOUS
  <2> QED BY DEF IInv, PoolInv, PoolAt
<1> QED BY <1>1, SpecIInv, PTL

\* The slot that is taken holds a future: poll_fn.unwrap() does not panic (poll_all).
THEOREM NoEmptySlotIsPolled ==
  OneSpawner /\ ExecutorFirst /\ Spec => [][Take => kernel' = kernel]_vars
<1>1. IInv /\ [Next]_vars => [Take => kernel' = kernel]_vars
  BY TakeKeepsIInv
<1> QED BY <1>1, SpecIInv, PTL DEF Spec

-----------------------------------------------------------------------------
(* Deadlines on the circle of the counter.                                 *)

\* What EarliestOnTop supposes besides: no delay reaches half a turn.
ShortDelays == \A ms \in AsyncDelays : ms + LateMax < Half

\* How far a deadline is from the latest that a timer may be.
OffsetAt(now, w) == (w - now + LateMax + 1) % TickMod
Offset(w) == OffsetAt(kernel.os_ticks, w)

LEMMA CircleFacts ==
  /\ TickMod \in Nat /\ TickMod > 0 /\ Tick = 0 .. TickMod - 1
  /\ Half \in Nat /\ 2 * Half <= TickMod + 1 /\ TickMod <= 2 * Half
  /\ LateMax \in Nat /\ LateMax > 0 /\ LateMax + 1 < Half
  /\ \A a, b : NotBefore(a, b) <=> (a - b) % TickMod < Half
BY KernelAssumption, AsyncRtAssumption, HalfLemma DEF Tick, Half, NotBefore

LEMMA DifferenceLemma ==
  ASSUME NEW a \in Tick, NEW b \in Tick
  PROVE  (a - b) % TickMod = IF a - b < 0 THEN a - b + TickMod ELSE a - b
<1>1. /\ TickMod \in Nat /\ TickMod > 0 /\ a - b \in Int
      /\ -TickMod < a - b /\ a - b < TickMod
  BY CircleFacts
<1> QED BY <1>1, OneTurn

LEMMA ForwardLemma ==
  ASSUME NEW now \in Tick, NEW ms \in Nat, ms < TickMod
  PROVE  (now + ms) % TickMod = IF now + ms < TickMod THEN now + ms ELSE now + ms - TickMod
<1> DEFINE x == now + ms
<1>1. TickMod \in Nat /\ TickMod > 0 /\ x \in Int /\ -TickMod < x /\ x < 2 * TickMod /\ ~(x < 0)
  BY CircleFacts
<1>2. x % TickMod = IF x < TickMod THEN x ELSE x - TickMod
  <2> HIDE DEF x
  <2> QED BY <1>1, OneTurn
<1> QED BY <1>1, <1>2, CircleFacts

LEMMA OffsetLemma ==
  ASSUME NEW now \in Tick, NEW w \in Tick
  PROVE  /\ OffsetAt(now, w) \in 0 .. TickMod - 1
         /\ OffsetAt(now, w) = LET x == w - now + LateMax + 1
                               IN  IF x < 0 THEN x + TickMod
                                   ELSE IF x < TickMod THEN x ELSE x - TickMod
<1> DEFINE x == w - now + LateMax + 1
<1>1. TickMod \in Nat /\ TickMod > 0 /\ x \in Int /\ -TickMod < x /\ x < 2 * TickMod
  BY CircleFacts
<1>2. OffsetAt(now, w) = x % TickMod
  BY DEF OffsetAt
<1>3. x % TickMod = IF x < 0 THEN x + TickMod ELSE IF x < TickMod THEN x ELSE x - TickMod
  <2> HIDE DEF x
  <2> QED BY <1>1, OneTurn
<1> QED BY <1>1, <1>2, <1>3, CircleFacts

\* A deadline is over up to the offset LateMax + 1.
LEMMA OverLemma ==
  ASSUME NEW now \in Tick, NEW w \in Tick, OffsetAt(now, w) <= Half
  PROVE  NotBefore(now, w) <=> OffsetAt(now, w) <= LateMax + 1
<1> DEFINE late == (now - w) % TickMod
           o == OffsetAt(now, w)
<1>1. late = IF now - w < 0 THEN now - w + TickMod ELSE now - w
  BY DifferenceLemma
<1>2. o = LET x == w - now + LateMax + 1
          IN  IF x < 0 THEN x + TickMod ELSE IF x < TickMod THEN x ELSE x - TickMod
  BY OffsetLemma
<1>3. NotBefore(now, w) <=> late < Half
  BY CircleFacts
<1> HIDE DEF late, o
<1>4. late < Half <=> o <= LateMax + 1
  <2>1. now \in 0 .. TickMod - 1 /\ w \in 0 .. TickMod - 1 /\ o <= Half
    BY CircleFacts DEF o
  <2> QED BY <1>1, <1>2, <2>1, CircleFacts
<1> QED BY <1>3, <1>4 DEF o

\* A deadline that is less than LateMax past has two ticks left.
LEMMA InTimeLemma ==
  ASSUME NEW now \in Tick, NEW w \in Tick, OffsetAt(now, w) <= Half,
         NotBefore(now, w) => (now - w) % TickMod < LateMax
  PROVE  OffsetAt(now, w) >= 2
<1> DEFINE late == (now - w) % TickMod
           o == OffsetAt(now, w)
<1>1. late = IF now - w < 0 THEN now - w + TickMod ELSE now - w
  BY DifferenceLemma
<1>2. o = LET x == w - now + LateMax + 1
          IN  IF x < 0 THEN x + TickMod ELSE IF x < TickMod THEN x ELSE x - TickMod
  BY OffsetLemma
<1>3. o <= LateMax + 1 => late < LateMax
  BY OverLemma
<1> HIDE DEF late, o
<1>4. o >= 2
  <2>1. now \in 0 .. TickMod - 1 /\ w \in 0 .. TickMod - 1 /\ o <= Half
    BY CircleFacts DEF o
  <2> QED BY <1>1, <1>2, <1>3, <2>1, CircleFacts
<1> QED BY <1>4 DEF o

\* A tick brings every deadline one nearer.
LEMMA NearerLemma ==
  ASSUME NEW now \in Tick, NEW w \in Tick, OffsetAt(now, w) # 0
  PROVE  OffsetAt((now + 1) % TickMod, w) = OffsetAt(now, w) - 1
<1> DEFINE next == (now + 1) % TickMod
           o == OffsetAt(now, w)
           p == OffsetAt(next, w)
<1>1. next = IF now + 1 < TickMod THEN now + 1 ELSE now + 1 - TickMod
  <2>1. 1 \in Nat /\ 1 < TickMod
    BY CircleFacts
  <2> QED BY <2>1, ForwardLemma
<1> HIDE DEF next
<1>2. next \in Tick
  BY <1>1, CircleFacts
<1>3. o = LET x == w - now + LateMax + 1
          IN  IF x < 0 THEN x + TickMod ELSE IF x < TickMod THEN x ELSE x - TickMod
  BY OffsetLemma
<1>4. p = LET x == w - next + LateMax + 1
          IN  IF x < 0 THEN x + TickMod ELSE IF x < TickMod THEN x ELSE x - TickMod
  BY <1>2, OffsetLemma
<1> HIDE DEF o, p
<1>5. p = o - 1
  <2>1. now \in 0 .. TickMod - 1 /\ w \in 0 .. TickMod - 1 /\ o # 0
    BY CircleFacts DEF o
  <2> QED BY <1>1, <1>3, <1>4, <2>1, CircleFacts
<1> QED BY <1>5 DEF o, p, next

\* A deadline ms ticks from now.
LEMMA FreshLemma ==
  ASSUME NEW now \in Tick, NEW ms \in Nat, ms + LateMax < Half
  PROVE  /\ OffsetAt(now, (now + ms) % TickMod) = ms + LateMax + 1
         /\ (now + ms) % TickMod \in Tick
<1> DEFINE w == (now + ms) % TickMod
           o == OffsetAt(now, w)
<1>1. w = IF now + ms < TickMod THEN now + ms ELSE now + ms - TickMod
  <2>1. ms < TickMod
    BY CircleFacts
  <2> QED BY <2>1, ForwardLemma
<1> HIDE DEF w
<1>2. w \in Tick
  BY <1>1, CircleFacts
<1>3. o = LET x == w - now + LateMax + 1
          IN  IF x < 0 THEN x + TickMod ELSE IF x < TickMod THEN x ELSE x - TickMod
  BY <1>2, OffsetLemma
<1> HIDE DEF o
<1>4. o = ms + LateMax + 1
  BY <1>1, <1>3, CircleFacts
<1> QED BY <1>2, <1>4 DEF o, w

\* Deadlines less than half a turn apart are in the order of their offsets.
LEMMA EarlierLemma ==
  ASSUME NEW now \in Tick, NEW a \in Tick, NEW b \in Tick,
         OffsetAt(now, a) <= Half, OffsetAt(now, b) <= Half,
         OffsetAt(now, a) = 0 => OffsetAt(now, b) < Half,
         OffsetAt(now, b) = 0 => OffsetAt(now, a) < Half
  PROVE  ~NotBefore(a, b) <=> OffsetAt(now, a) < OffsetAt(now, b)
<1> DEFINE diff == (a - b) % TickMod
           o == OffsetAt(now, a)
           p == OffsetAt(now, b)
<1>1. diff = IF a - b < 0 THEN a - b + TickMod ELSE a - b
  BY DifferenceLemma
<1>2. o = LET x == a - now + LateMax + 1
          IN  IF x < 0 THEN x + TickMod ELSE IF x < TickMod THEN x ELSE x - TickMod
  BY OffsetLemma
<1>3. p = LET x == b - now + LateMax + 1
          IN  IF x < 0 THEN x + TickMod ELSE IF x < TickMod THEN x ELSE x - TickMod
  BY OffsetLemma
<1>4. NotBefore(a, b) <=> diff < Half
  BY CircleFacts
<1> HIDE DEF diff, o, p
<1>5. ~(diff < Half) <=> o < p
  <2>1. /\ now \in 0 .. TickMod - 1 /\ a \in 0 .. TickMod - 1 /\ b \in 0 .. TickMod - 1
        /\ o <= Half /\ p <= Half /\ (o = 0 => p < Half) /\ (p = 0 => o < Half)
    BY CircleFacts DEF o, p
  <2>2. o \in 0 .. TickMod - 1 /\ p \in 0 .. TickMod - 1
    BY OffsetLemma DEF o, p
  <2>3. -Half < o - p /\ o - p < Half
    BY <2>1, <2>2, CircleFacts
  <2>4. diff = IF o - p < 0 THEN o - p + TickMod ELSE o - p
    BY <1>1, <1>2, <1>3, <2>1, CircleFacts
  <2> QED BY <2>2, <2>3, <2>4, CircleFacts
<1> QED BY <1>4, <1>5 DEF o, p

-----------------------------------------------------------------------------
(* The heap in order.                                                      *)

\* The executor misses one tick at most, in its sleep between two passes.
Naps(e) ==
  e \in Range(kernel.sleeping) => kernel.wake_point[e] = (kernel.os_ticks + 1) % TickMod

\* No deadline is far, and one that is as late as can be is about to be dealt with.
Near(e) ==
  \A i \in Slots : fut[i].awaits = "timer" =>
    /\ Offset(fut[i].wake) <= Half
    /\ Offset(fut[i].wake) = 0 =>
         \/ i \in ready
         \/ pc[e] = "poll" /\ idx[e] = i
         \/ pc[e] = "expire" /\ e \in Range(kernel.ready)

\* The earliest and the latest deadline that there can be are half a turn apart:
\* they are not in the heap together.
Spread ==
  \A e, f \in Range(timers) : Offset(e.wake) = 0 => Offset(f.wake) < Half

Timed == (\A e \in Executors : Naps(e) /\ Near(e)) /\ Spread /\ HeapOrdered(timers)

\* Such deadlines are ranked by their offsets.
LEMMA RankLemma ==
  ASSUME NEW now \in Tick, NEW E \in SUBSET Entry,
         \A e \in E : OffsetAt(now, e.wake) <= Half,
         \A e, f \in E : OffsetAt(now, e.wake) = 0 => OffsetAt(now, f.wake) < Half
  PROVE  Ranked(E, [e \in E |-> OffsetAt(now, e.wake)])
<1>1. \A e \in E : e.wake \in Tick
  BY DEF Entry
<1>2. \A e \in E : OffsetAt(now, e.wake) \in Int
  BY <1>1, OffsetLemma
<1>3. ASSUME NEW e \in E, NEW f \in E
      PROVE  Earlier(e, f) <=> OffsetAt(now, e.wake) < OffsetAt(now, f.wake)
  <2> DEFINE a == e.wake
             b == f.wake
  <2>1. /\ a \in Tick /\ b \in Tick /\ OffsetAt(now, a) <= Half /\ OffsetAt(now, b) <= Half
        /\ OffsetAt(now, a) = 0 => OffsetAt(now, b) < Half
        /\ OffsetAt(now, b) = 0 => OffsetAt(now, a) < Half
    BY <1>1
  <2> HIDE DEF a, b
  <2>2. ~NotBefore(a, b) <=> OffsetAt(now, a) < OffsetAt(now, b)
    BY <2>1, EarlierLemma
  <2> QED BY <2>2 DEF a, b, Earlier
<1> QED BY <1>2, <1>3 DEF Ranked

\* What the invariants say of the heap.
LEMMA HeapLemma ==
  ASSUME IInv, Timed
  PROVE  /\ kernel.os_ticks \in Tick /\ timers \in Seq(Entry)
         /\ Range(timers) \subseteq Entry
         /\ \A e \in Range(timers) :
              /\ e.slot \in Slots /\ e.wake \in Tick
              /\ fut[e.slot].awaits = "timer" /\ fut[e.slot].wake = e.wake
              /\ Offset(e.wake) <= Half
         /\ \E rank : Ranked(Range(timers), rank)
<1>1. kernel.os_ticks \in Tick /\ timers \in Seq(Entry) /\ Range(timers) \subseteq Entry
  <2>1. kernel.os_ticks \in Tick /\ timers \in Seq(Entry)
    BY DEF IInv, TypeOK, Entry, KernelState
  <2> QED BY <2>1, LenProperties DEF Range
<1>2. ASSUME NEW e \in Range(timers)
      PROVE  /\ e.slot \in Slots /\ e.wake \in Tick
             /\ fut[e.slot].awaits = "timer" /\ fut[e.slot].wake = e.wake
             /\ Offset(e.wake) <= Half
  <2>1. e.slot \in Slots /\ e.wake \in Tick
    BY <1>1, <1>2 DEF Entry
  <2>2. Executors # {} /\ TimersAreAwaited
    <3>1. timers # << >>
      BY <1>2, EmptySeq DEF Range
    <3> QED BY <3>1 DEF IInv, PoolInv, PoolAt
  <2>3. fut[e.slot].awaits = "timer" /\ fut[e.slot].wake = e.wake
    BY <1>1, <1>2, <2>2, EntriesLemma
  <2>4. PICK x \in Executors : Near(x)
    BY <2>2 DEF Timed
  <2> QED BY <2>1, <2>3, <2>4 DEF Near
<1>3. \E rank : Ranked(Range(timers), rank)
  BY <1>1, <1>2, RankLemma DEF Timed, Spread, Offset
<1> QED BY <1>1, <1>2, <1>3

\* What is left to show of a step that leaves the heap and the count alone.
LEMMA TimedKeeps ==
  ASSUME Timed, timers' = timers, kernel'.os_ticks = kernel.os_ticks,
         \A e \in Executors' : Naps(e)' /\ Near(e)'
  PROVE  Timed'
<1>1. Spread'
  BY DEF Timed, Spread, Offset
<1>2. HeapOrdered(timers')
  BY DEF Timed
<1> QED BY <1>1, <1>2 DEF Timed

\* A step of the executor e within a pass leaves its kernel record alone.
LEMMA PollingKeepsTimed ==
  ASSUME IInv, Timed, NEW at \in Polling, At(at), NEW to \in Polling, to # "expire",
         pc' = [pc EXCEPT ![cr] = to], init_flag' = init_flag, kernel' = kernel,
         NEW e, e = cr, Near(e)', Spread', HeapOrdered(timers')
  PROVE  Timed'
<1>1. /\ cr \in Tid /\ pc[cr] = at
      /\ pc \in [Tid -> Spawning \cup Polling \cup {"other", "none"}]
      /\ cr \in Known(kernel) /\ cr \in Range(kernel.ready)
  BY ExecutorAt
<1>2. Executors' = {e}
  BY <1>1, SparesItself, ExecutorStep
<1>3. Naps(e)'
  <2>1. e \notin Range(kernel.sleeping)
    BY <1>1 DEF IInv, Scheduled, Fit
  <2> QED BY <2>1 DEF Naps
<1> QED BY <1>2, <1>3 DEF Timed

\* Before such a step, and what is left to show when it leaves the heap alone.
LEMMA NearBefore ==
  ASSUME IInv, Timed, NEW at \in Polling, At(at)
  PROVE  /\ \A i \in Slots : fut[i].awaits = "timer" =>
              /\ Offset(fut[i].wake) <= Half
              /\ Offset(fut[i].wake) = 0 =>
                   i \in ready \/ (at = "poll" /\ i = slot) \/ at = "expire"
         /\ kernel.os_ticks \in Tick
         /\ \A i \in Slots : fut[i].wake \in Tick
<1>1. cr \in Executors /\ pc[cr] = at /\ PoolTyped
  BY ExecutorAt
<1>2. PICK e \in Executors : e = cr /\ pc[e] = at /\ idx[e] = slot
  BY <1>1 DEF slot
<1>3. kernel.os_ticks \in Tick /\ \A i \in Slots : fut[i].wake \in Tick
  BY <1>1 DEF IInv, TypeOK, KernelState, PoolTyped, Futures
<1> QED BY <1>2, <1>3 DEF Timed, Near

LEMMA SameHeapKeepsTimed ==
  ASSUME IInv, Timed, NEW at \in Polling, At(at), NEW to \in Polling, to # "expire",
         pc' = [pc EXCEPT ![cr] = to], init_flag' = init_flag, kernel' = kernel,
         timers' = timers,
         \A i \in Slots : fut'[i].awaits = "timer" =>
           /\ Offset(fut'[i].wake) <= Half
           /\ Offset(fut'[i].wake) = 0 => i \in ready' \/ (to = "poll" /\ idx'[cr] = i)
  PROVE  Timed'
<1>1. PICK e : e = cr
  OBVIOUS
<1>2. pc'[e] = to /\ cr \in Tid
  BY <1>1, ExecutorAt
<1>3. Near(e)'
  BY <1>1, <1>2 DEF Near, Offset
<1>4. Spread' /\ HeapOrdered(timers')
  BY DEF Timed, Spread, Offset
<1> HIDE DEF cr
<1> QED BY <1>1, <1>3, <1>4, PollingKeepsTimed

LEMMA ScanKeepsTimed == IInv /\ Timed /\ Scan => Timed'
<1> SUFFICES ASSUME IInv, Timed, Scan PROVE Timed'
  OBVIOUS
<1>1. /\ At("scan") /\ "scan" \in Polling /\ "take" \in Polling
      /\ kernel' = kernel /\ init_flag' = init_flag /\ fut' = fut /\ ready' = ready
      /\ timers' = timers
  BY DEF Scan, Polling
<1>2. PICK to \in {"scan", "take"} : pc' = [pc EXCEPT ![cr] = to]
  BY DEF Scan, NextSlot, Goto
<1>3. \A i \in Slots : fut'[i].awaits = "timer" =>
        /\ Offset(fut'[i].wake) <= Half
        /\ Offset(fut'[i].wake) = 0 => i \in ready'
  BY <1>1, NearBefore
<1> HIDE DEF cr
<1> QED BY <1>1, <1>2, <1>3, SameHeapKeepsTimed

LEMMA TakeKeepsTimed == IInv /\ Timed /\ Take => Timed'
<1> SUFFICES ASSUME IInv, Timed, Take PROVE Timed'
  OBVIOUS
<1>1. /\ At("take") /\ "take" \in Polling /\ "poll" \in Polling
      /\ kernel' = kernel /\ init_flag' = init_flag /\ fut' = fut /\ ready' = ready \ {slot}
      /\ timers' = timers /\ pc' = [pc EXCEPT ![cr] = "poll"] /\ idx'[cr] = slot
  BY TakeKeepsIInv DEF Take, Polling, Goto, slot, Unflagged
<1>2. \A i \in Slots : fut'[i].awaits = "timer" =>
        /\ Offset(fut'[i].wake) <= Half
        /\ Offset(fut'[i].wake) = 0 => i \in ready' \/ idx'[cr] = i
  BY <1>1, NearBefore
<1> HIDE DEF cr
<1> QED BY <1>1, <1>2, SameHeapKeepsTimed

\* A step that leaves the loop's slot n without a timer, or with a fresh one.
LEMMA PollKeepsTimed ==
  ASSUME IInv, Timed, At("poll"), NEW to \in Polling, to # "expire",
         pc' = [pc EXCEPT ![cr] = to], init_flag' = init_flag, kernel' = kernel,
         timers' = timers, ready \subseteq ready', NEW f, Await(f),
         f.awaits = "timer" => 0 < Offset(f.wake) /\ Offset(f.wake) <= Half
  PROVE  Timed'
<1>1. PICK n \in Slots : n = slot /\ PoolTyped
  BY PollLemma
<1>2. "poll" \in Polling
  BY DEF Polling
<1>3. \A i \in Slots : fut[i].awaits = "timer" =>
        /\ Offset(fut[i].wake) <= Half
        /\ Offset(fut[i].wake) = 0 => i \in ready \/ i = n
  BY <1>1, <1>2, NearBefore
<1>4. fut'[n] = f /\ \A i \in Slots \ {n} : fut'[i] = fut[i]
  BY <1>1 DEF Await, PoolTyped
<1>5. \A i \in Slots : fut'[i].awaits = "timer" =>
        /\ Offset(fut'[i].wake) <= Half
        /\ Offset(fut'[i].wake) = 0 => i \in ready'
  BY <1>3, <1>4
<1> HIDE DEF cr
<1> QED BY <1>2, <1>5, SameHeapKeepsTimed

LEMMA FinishKeepsTimed == IInv /\ Timed /\ Finish => Timed'
<1> SUFFICES ASSUME IInv, Timed, Finish PROVE Timed'
  OBVIOUS
<1>1. /\ At("poll") /\ Await(NoFuture) /\ pc' = [pc EXCEPT ![cr] = "cleared"]
      /\ kernel' = kernel /\ init_flag' = init_flag /\ ready' = ready /\ timers' = timers
      /\ "cleared" \in Polling /\ NoFuture.awaits # "timer"
  BY FutureKinds DEF Finish, Goto, Polling
<1> HIDE DEF cr
<1> QED BY <1>1, PollKeepsTimed

LEMMA YieldNowKeepsTimed == IInv /\ Timed /\ YieldNow => Timed'
<1> SUFFICES ASSUME IInv, Timed, YieldNow PROVE Timed'
  OBVIOUS
<1>1. /\ At("poll") /\ Await(InYield) /\ pc' = [pc EXCEPT ![cr] = "scan"]
      /\ kernel' = kernel /\ init_flag' = init_flag /\ timers' = timers
      /\ ready \subseteq ready' /\ "scan" \in Polling /\ InYield.awaits # "timer"
  BY FutureKinds DEF YieldNow, NextSlot, AfterWaking, Goto, Polling
<1> HIDE DEF cr
<1> QED BY <1>1, PollKeepsTimed

LEMMA StaysAtPoll ==
  ASSUME IInv, At("poll"), pc' = pc
  PROVE  pc' = [pc EXCEPT ![cr] = "poll"] /\ "poll" \in Polling
<1>1. "poll" \in Polling
  BY DEF Polling
<1>2. pc[cr] = "poll" /\ pc \in [Tid -> Spawning \cup Polling \cup {"other", "none"}]
  BY <1>1, ExecutorAt
<1> QED BY <1>1, <1>2

LEMMA YieldDoneKeepsTimed == IInv /\ Timed /\ YieldDone => Timed'
<1> SUFFICES ASSUME IInv, Timed, YieldDone PROVE Timed'
  OBVIOUS
<1>1. /\ At("poll") /\ Await(Running) /\ pc' = [pc EXCEPT ![cr] = "poll"] /\ "poll" \in Polling
      /\ kernel' = kernel /\ init_flag' = init_flag /\ ready' = ready /\ timers' = timers
      /\ Running.awaits # "timer"
  BY FutureKinds, StaysAtPoll DEF YieldDone
<1> HIDE DEF cr
<1> QED BY <1>1, PollKeepsTimed

LEMMA DelayMsKeepsTimed ==
  ASSUME ShortDelays, IInv, Timed, NEW ms \in AsyncDelays, DelayMs(ms) PROVE Timed'
<1> DEFINE now == kernel.os_ticks
           wake == (now + ms) % TickMod
           f == TimerAt(wake)
<1>1. /\ At("poll") /\ Await(f) /\ pc' = [pc EXCEPT ![cr] = "poll"] /\ "poll" \in Polling
      /\ kernel' = kernel /\ init_flag' = init_flag /\ ready' = ready /\ timers' = timers
  BY StaysAtPoll DEF DelayMs
<1>2. now \in Tick /\ ms \in Nat /\ ms + LateMax < Half
  <2>1. ms \in 1 .. TickMod - 1 /\ kernel.os_ticks \in Tick
    BY AsyncRtAssumption DEF IInv, TypeOK, KernelState
  <2> QED BY <2>1, CircleFacts DEF ShortDelays
<1> HIDE DEF now
<1>3. OffsetAt(now, wake) = ms + LateMax + 1 /\ wake \in Tick
  BY <1>2, FreshLemma
<1> HIDE DEF wake
<1>4. f.wake = wake
  BY <1>3, FutureKinds
<1> HIDE DEF f
<1>5. 0 < Offset(f.wake) /\ Offset(f.wake) <= Half
  <2>1. Offset(f.wake) = ms + LateMax + 1
    BY <1>3, <1>4 DEF Offset, now
  <2> QED BY <1>2, <2>1, CircleFacts
<1> HIDE DEF cr
<1> QED BY <1>1, <1>5, PollKeepsTimed

\* A timer is registered only when it is not over.
LEMMA PollTimerKeepsTimed == IInv /\ Timed /\ PollTimer => Timed'
<1> SUFFICES ASSUME IInv, Timed, PollTimer PROVE Timed'
  OBVIOUS
<1>1. At("poll") /\ "poll" \in Polling /\ "register" \in Polling
  BY DEF PollTimer, Polling
<1>2. PICK n \in Slots : n = slot /\ PoolAt("poll", n) /\ PoolTyped
  BY <1>1, PollLemma
<1>3. /\ fut[n].awaits = "timer" /\ kernel' = kernel /\ init_flag' = init_flag
      /\ ready' = ready /\ timers' = timers
  BY <1>2 DEF PollTimer
<1>4. /\ kernel.os_ticks \in Tick /\ fut[n].wake \in Tick
      /\ Offset(fut[n].wake) <= Half
  BY <1>1, <1>3, NearBefore
<1> HIDE DEF cr
<1>5. CASE Over(fut[n].wake)
  <2>1. Await(Running) /\ pc' = pc
    BY <1>2, <1>5 DEF PollTimer, Over
  <2>2. pc' = [pc EXCEPT ![cr] = "poll"]
    BY <1>1, <2>1, StaysAtPoll
  <2>3. Running.awaits # "timer"
    BY FutureKinds
  <2> QED BY <1>1, <1>3, <2>1, <2>2, <2>3, PollKeepsTimed
<1>6. CASE ~Over(fut[n].wake)
  <2> DEFINE f == [fut[n] EXCEPT !.registered = TRUE]
  <2>1. ~fut[n].registered
    BY <1>2, <1>3, <1>6 DEF PoolAt, Timely
  <2>2. Await(f) /\ pc' = [pc EXCEPT ![cr] = "register"]
    BY <1>2, <1>6, <2>1 DEF PollTimer, Over, Await, Goto
  <2>3. f.wake = fut[n].wake
    BY <1>2 DEF PoolTyped, Futures
  <2> HIDE DEF f
  <2>4. 0 < Offset(fut[n].wake)
    <3>1. ~(Offset(fut[n].wake) <= LateMax + 1)
      BY <1>4, <1>6, OverLemma DEF Over, Offset
    <3>2. Offset(fut[n].wake) \in 0 .. TickMod - 1
      BY <1>4, OffsetLemma DEF Offset
    <3> QED BY <3>1, <3>2, CircleFacts
  <2> QED BY <1>1, <1>3, <1>4, <2>2, <2>3, <2>4, PollKeepsTimed
<1> QED BY <1>5, <1>6

LEMMA ClearReadyKeepsTimed == IInv /\ Timed /\ ClearReady => Timed'
<1> SUFFICES ASSUME IInv, Timed, ClearReady PROVE Timed'
  OBVIOUS
<1>1. /\ At("cleared") /\ "cleared" \in Polling /\ "scan" \in Polling
      /\ kernel' = kernel /\ init_flag' = init_flag /\ fut' = fut /\ ready' = ready \ {slot}
      /\ timers' = timers /\ pc' = [pc EXCEPT ![cr] = "scan"]
  BY DEF ClearReady, NextSlot, Goto, Polling
<1>2. slot \notin ready
  <2>1. PoolAt("cleared", slot)
    BY <1>1, ExecutorAt
  <2> QED BY <2>1 DEF PoolAt, AtSlot
<1>3. \A i \in Slots : fut'[i].awaits = "timer" =>
        /\ Offset(fut'[i].wake) <= Half
        /\ Offset(fut'[i].wake) = 0 => i \in ready'
  BY <1>1, <1>2, NearBefore
<1> HIDE DEF cr
<1> QED BY <1>1, <1>3, SameHeapKeepsTimed

\* A deadline as late as can be is not in the heap while a timer is registered, so
\* the new one, however late, is less than half a turn behind all others.
LEMMA RegisterKeepsTimed == IInv /\ Timed /\ Register => Timed'
<1> SUFFICES ASSUME IInv, Timed, Register PROVE Timed'
  OBVIOUS
<1>1. At("register") /\ "register" \in Polling /\ "scan" \in Polling
  BY DEF Register, Polling
<1>2. cr \in Tid /\ PoolTyped /\ PoolAt("register", slot)
  BY <1>1, ExecutorAt
<1>3. PICK n \in Slots :
        /\ n = slot /\ PoolAt("register", n) /\ n \notin ready
        /\ ~HasEntry(n) /\ fut[n].awaits = "timer"
  BY <1>2 DEF PoolAt, AtSlot
<1> DEFINE entry == [wake |-> fut[n].wake, slot |-> n]
           h == PushTimer(timers, entry)
<1>4. /\ kernel' = kernel /\ init_flag' = init_flag /\ fut' = fut /\ ready' = ready
      /\ pc' = [pc EXCEPT ![cr] = "scan"] /\ timers' = h
  BY <1>3 DEF Register, NextSlot, Goto
<1>5. /\ kernel.os_ticks \in Tick /\ \A i \in Slots : fut[i].wake \in Tick
      /\ \A i \in Slots : fut[i].awaits = "timer" =>
           Offset(fut[i].wake) <= Half /\ (Offset(fut[i].wake) = 0 => i \in ready)
  BY <1>1, NearBefore
<1>6. /\ timers \in Seq(Entry) /\ Range(timers) \subseteq Entry
      /\ \A e \in Range(timers) :
           /\ e.slot \in Slots /\ e.wake \in Tick
           /\ fut[e.slot].awaits = "timer" /\ fut[e.slot].wake = e.wake
           /\ Offset(e.wake) <= Half
  BY HeapLemma
<1>7. \A e \in Range(timers) : HasEntry(e.slot) /\ e.slot \notin ready
  <2>1. \A e \in Range(timers) : HasEntry(e.slot)
    BY <1>6, EntriesLemma
  <2> QED BY <1>3, <2>1 DEF PoolAt, Marks
<1>8. entry \in Entry /\ entry.wake = fut[n].wake /\ entry.slot = n
  BY <1>5 DEF Entry
<1>9. Len(timers) # ASYNC_POOL_MAX
  <2>1. Apart(timers)
    BY <1>3, <1>6, EntriesLemma DEF PoolAt
  <2> QED BY <1>3, <1>6, <2>1, RoomForTimer, LenProperties, TimerQueueAssumption
<1> HIDE DEF entry, h
<1>10. h \in Seq(Entry) /\ Range(h) = Range(timers) \cup {entry}
  BY <1>6, <1>8, <1>9, PushLemma DEF h
<1>11. \A e \in Range(h) :
         /\ e \in Entry /\ e.wake \in Tick
         /\ Offset(e.wake) <= Half /\ Offset(e.wake) # 0
  <2>1. \A e \in Range(timers) : Offset(e.wake) # 0
    BY <1>5, <1>6, <1>7
  <2>2. Offset(entry.wake) <= Half /\ Offset(entry.wake) # 0 /\ entry.wake \in Tick
    BY <1>3, <1>5, <1>8
  <2> QED BY <1>6, <1>8, <1>10, <2>1, <2>2
<1>12. Spread'
  BY <1>4, <1>11 DEF Spread, Offset
<1>13. HeapOrdered(timers')
  <2> DEFINE E == Range(h)
             now == kernel.os_ticks
  <2>1. /\ now \in Tick /\ E \in SUBSET Entry /\ E = Range(timers) \cup {entry}
        /\ \A e \in E : OffsetAt(now, e.wake) <= Half
        /\ \A e, f \in E : OffsetAt(now, e.wake) = 0 => OffsetAt(now, f.wake) < Half
    BY <1>5, <1>10, <1>11 DEF Offset
  <2> HIDE DEF E, now
  <2>2. PICK rank : Ranked(E, rank)
    BY <2>1, RankLemma
  <2>3. HeapOrdered(timers)
    BY DEF Timed
  <2>4. HeapOrdered(h)
    BY <1>6, <1>8, <1>9, <2>1, <2>2, <2>3, PushLemma DEF h
  <2> QED BY <1>4, <2>4
<1>14. PICK e : e = cr
  OBVIOUS
<1>15. Near(e)'
  BY <1>4, <1>5, <1>14 DEF Near, Offset
<1> HIDE DEF cr
<1> QED BY <1>1, <1>4, <1>12, <1>13, <1>14, <1>15, PollingKeepsTimed

\* wake_expired leaves no deadline that is over, although it looks at the first one
\* only.
LEMMA ExpireKeepsTimed == IInv /\ Timed /\ Expire => Timed'
<1> SUFFICES ASSUME IInv, Timed, Expire PROVE Timed'
  OBVIOUS
<1> DEFINE now == kernel.os_ticks
           w == WakeExpired(timers, now)
           h == w.heap
<1>1. /\ At("expire") /\ "expire" \in Polling /\ "scan" \in Polling
      /\ pc' = [pc EXCEPT ![cr] = "scan"]
      /\ timers' = h /\ ready' = ready \cup w.slots
      /\ kernel' = kernel /\ init_flag' = init_flag /\ fut' = fut
  BY DEF Expire, Goto, AfterWaking, Polling
<1>2. PoolTyped /\ PoolAt("expire", slot)
  BY <1>1, ExecutorAt
<1>3. /\ now \in Tick /\ timers \in Seq(Entry) /\ Range(timers) \subseteq Entry
      /\ \A e \in Range(timers) :
           /\ e.slot \in Slots /\ e.wake \in Tick
           /\ fut[e.slot].awaits = "timer" /\ fut[e.slot].wake = e.wake
           /\ Offset(e.wake) <= Half
  BY HeapLemma
<1>4. PICK rank : Ranked(Range(timers), rank)
  BY HeapLemma
<1>5. Apart(timers)
  BY <1>2, <1>3, EntriesLemma DEF PoolAt
<1>6. w \in Wakings /\ Waked(timers, now, w) /\ NoneOver(h, now)
  BY <1>3, <1>5, WakeExpiredLemma
<1> HIDE DEF w
<1>7. h \in Seq(Entry) /\ Range(h) \subseteq Range(timers) /\ HeapOrdered(h)
  BY <1>4, <1>6 DEF Wakings, Waked, Timed
<1>8. \A k \in 1 .. Len(h) : h[k] \in Range(h)
  BY <1>7, LenProperties DEF Range
<1> HIDE DEF h
<1>9. ASSUME NEW e \in Range(h) PROVE Offset(e.wake) # 0
  <2>1. PICK k \in 1 .. Len(h) : h[k] = e
    BY <1>7, <1>9, LenProperties DEF Range
  <2> DEFINE E == Range(h)
             r == [x \in E |-> OffsetAt(now, x.wake)]
  <2>2. Ranked(E, r)
    <3>1. /\ E \in SUBSET Entry /\ now \in Tick
          /\ \A x \in E : OffsetAt(now, x.wake) <= Half
          /\ \A x, y \in E : OffsetAt(now, x.wake) = 0 => OffsetAt(now, y.wake) < Half
      BY <1>3, <1>7 DEF Timed, Spread, Offset
    <3> HIDE DEF E, now
    <3> QED BY <3>1, RankLemma
  <2>3. \A j \in 1 .. Len(h) : ~Earlier(h[j], h[1])
    <3> HIDE DEF r
    <3> QED BY <1>7, <2>2, TopLemma
  <2>4. 1 \in 1 .. Len(h) /\ h # << >>
    BY <1>7, <2>1, EmptySeq, LenProperties
  <2>5. h[1] \in E /\ h[1].wake \in Tick /\ OffsetAt(now, h[1].wake) <= Half
    BY <1>3, <1>7, <1>8, <2>4 DEF Offset
  <2>6. ~NotBefore(now, h[1].wake)
    BY <1>6, <2>4 DEF NoneOver
  <2>7. ~(OffsetAt(now, h[1].wake) <= LateMax + 1)
    <3> HIDE DEF now
    <3> QED BY <1>3, <2>5, <2>6, OverLemma
  <2>8. ~(OffsetAt(now, e.wake) < OffsetAt(now, h[1].wake))
    BY <1>9, <2>1, <2>2, <2>3, <2>5 DEF Ranked
  <2>9. OffsetAt(now, e.wake) \in Int /\ OffsetAt(now, h[1].wake) \in Int
    <3>1. e.wake \in Tick
      BY <1>3, <1>7, <1>9
    <3> HIDE DEF now
    <3> QED BY <1>3, <2>5, <3>1, OffsetLemma
  <2> QED BY <2>7, <2>8, <2>9, CircleFacts DEF Offset
<1>10. Spread'
  BY <1>1, <1>9 DEF Spread, Offset
<1>11. PICK e : e = cr
  OBVIOUS
<1>12. pc'[e] = "scan"
  BY <1>1, <1>11, ExecutorAt
<1>13. Near(e)'
  <2>1. ASSUME NEW i \in Slots, fut[i].awaits = "timer"
        PROVE  Offset(fut[i].wake) <= Half /\ (Offset(fut[i].wake) = 0 => i \in ready')
    <3>1. Offset(fut[i].wake) <= Half
      BY <1>1, <2>1, NearBefore
    <3>2. ASSUME Offset(fut[i].wake) = 0, i \notin ready' PROVE FALSE
      <4>1. i \notin ready /\ i \notin w.slots /\ fut[i] # NoFuture
        BY <1>1, <2>1, <3>2, FutureKinds
      <4> DEFINE x == [wake |-> fut[i].wake, slot |-> i]
      <4>2. x \in Range(timers)
        BY <1>2, <4>1 DEF PoolAt, Remembered
      <4>3. x \in Range(h)
        BY <1>6, <4>1, <4>2 DEF Waked, h
      <4> QED BY <1>9, <3>2, <4>3
    <3> QED BY <3>1, <3>2
  <2> QED BY <1>1, <2>1 DEF Near, Offset
<1>14. HeapOrdered(timers')
  BY <1>1, <1>7
<1> HIDE DEF cr
<1> QED BY <1>1, <1>10, <1>11, <1>13, <1>14, PollingKeepsTimed

LEMMA PassEndsKeepsTimed == IInv /\ Timed /\ PassEnds => Timed'
<1> SUFFICES ASSUME IInv, Timed, PassEnds PROVE Timed'
  OBVIOUS
<1>1. At("scan") /\ "scan" \in Polling /\ "expire" \in Polling
  BY DEF PassEnds, Polling
<1>2. /\ pc' = [pc EXCEPT ![cr] = "expire"] /\ init_flag' = init_flag /\ fut' = fut
      /\ ready' = ready /\ timers' = timers
      /\ kernel' = kernel \/ kernel' = DelayCurrent(kernel, 1)
  BY DEF PassEnds, Goto
<1>3. /\ cr \in Tid /\ ~kernel.halted /\ cr \in Known(kernel) /\ cr \in Range(kernel.ready)
      /\ Scheduled(kernel) /\ pc[cr] = "scan"
  BY <1>1, ExecutorAt DEF IInv
<1>4. /\ Spares(kernel, kernel', cr)
      /\ kernel'.priority = kernel.priority /\ kernel'.tid_bitmap = kernel.tid_bitmap
      /\ cr \in Known(kernel') /\ kernel'.os_ticks = kernel.os_ticks
      /\ cr \in Range(kernel'.sleeping) => kernel'.wake_point[cr] = (kernel.os_ticks + 1) % TickMod
  <2>1. CASE kernel' = kernel
    <3>1. cr \notin Range(kernel.sleeping)
      BY <1>3 DEF Scheduled, Fit
    <3> QED BY <1>3, <2>1, <3>1, SparesItself
  <2>2. CASE kernel' = DelayCurrent(kernel, 1)
    BY <1>3, <2>2, DelaySpares DEF cr
  <2> QED BY <1>2, <2>1, <2>2
<1>5. \A i \in Slots : fut[i].awaits = "timer" =>
        Offset(fut[i].wake) <= Half /\ (Offset(fut[i].wake) = 0 => i \in ready)
  BY <1>1, NearBefore
<1>6. PICK e : e = cr
  OBVIOUS
<1>7. Near(e)'
  BY <1>2, <1>4, <1>5 DEF Near, Offset
<1>8. Naps(e)'
  BY <1>4, <1>6 DEF Naps
<1> HIDE DEF cr
<1>9. Executors' = {e}
  BY <1>1, <1>2, <1>3, <1>4, <1>6, ExecutorStep
<1> QED BY <1>2, <1>4, <1>7, <1>8, <1>9, TimedKeeps

\* A step of another task may take the hart, not the executor's place in a list.
LEMMA OtherKeepsTimed ==
  ASSUME Timed, Executors' = Executors, \A e \in Executors : pc'[e] = pc[e],
         idx' = idx, timers' = timers, kernel'.os_ticks = kernel.os_ticks,
         NEW tid, Spares(kernel, kernel', tid), tid \notin Executors, ready \subseteq ready',
         \A i \in Slots : fut'[i].awaits = "timer" =>
           fut[i].awaits = "timer" /\ fut'[i].wake = fut[i].wake
  PROVE  Timed'
<1>1. ASSUME NEW e \in Executors PROVE Naps(e)' /\ Near(e)'
  <2>1. e # tid /\ pc'[e] = pc[e] /\ Naps(e) /\ Near(e)
    BY <1>1 DEF Timed
  <2>2. Naps(e)'
    BY <2>1 DEF Naps, Spares
  <2>3. e \in Range(kernel.ready) => e \in Range(kernel'.ready)
    BY <2>1 DEF Spares
  <2>4. Near(e)'
    BY <2>1, <2>3 DEF Near, Offset
  <2> QED BY <2>2, <2>4
<1> QED BY <1>1, TimedKeeps

\* The task that runs when a task that is not the executor takes a step.
LEMMA OtherRuns ==
  ASSUME IInv, NEW at \in Spawning \cup {"other"}, At(at)
  PROVE  /\ cr \in Tid \ Executors /\ ~kernel.halted /\ Scheduled(kernel)
         /\ pc \in [Tid -> Spawning \cup Polling \cup {"other", "none"}]
<1>1. /\ cr \in Tid /\ pc[cr] = at /\ ~kernel.halted /\ Scheduled(kernel)
      /\ pc \in [Tid -> Spawning \cup Polling \cup {"other", "none"}]
  BY DEF IInv, TypeOK, At, cr, Spawning, Polling
<1> QED BY <1>1 DEF Executors, Executes, Spawning

\* Its steps that only move it on.
LEMMA OtherMovesTimed ==
  ASSUME IInv, Timed, NEW at \in Spawning \cup {"other"}, At(at),
         NEW to \in Spawning \cup {"other", "none"}, pc' = [pc EXCEPT ![cr] = to],
         idx' = idx, timers' = timers, kernel'.os_ticks = kernel.os_ticks,
         Spares(kernel, kernel', cr), ready \subseteq ready',
         \A i \in Slots : fut'[i].awaits = "timer" =>
           fut[i].awaits = "timer" /\ fut'[i].wake = fut[i].wake
  PROVE  Timed'
<1>1. /\ cr \in Tid \ Executors
      /\ pc \in [Tid -> Spawning \cup Polling \cup {"other", "none"}]
  BY OtherRuns
<1>2. (Spawning \cup {"other", "none"}) \cap Polling = {}
  BY DEF Spawning, Polling
<1>3. Executors' = Executors /\ \A e \in Executors : pc'[e] = pc[e]
  <2>1. \A t : t \in Executors <=> t \in Tid /\ pc[t] \in Polling
    BY DEF Executors, Executes, Polling
  <2>2. \A t : t \in Executors' <=> t \in Tid /\ pc'[t] \in Polling
    BY DEF Executors, Executes, Polling
  <2> QED BY <1>1, <1>2, <2>1, <2>2
<1> HIDE DEF cr
<1> QED BY <1>1, <1>3, OtherKeepsTimed

LEMMA SpawningKeepsTimed ==
  IInv /\ Timed /\ (Spawn \/ NoExec \/ SetFlag) => Timed'
<1> SUFFICES ASSUME IInv, Timed, Spawn \/ NoExec \/ SetFlag PROVE Timed'
  OBVIOUS
<1>1. PICK at \in {"run", "init", "flag"}, to \in {"init", "store"} :
        At(at) /\ pc' = [pc EXCEPT ![cr] = to]
  BY DEF Spawn, NoExec, SetFlag, Goto
<1>2. /\ kernel' = kernel /\ fut' = fut /\ ready' = ready /\ timers' = timers /\ idx' = idx
  BY DEF Spawn, NoExec, SetFlag, exec
<1>3. at \in Spawning \cup {"other"} /\ to \in Spawning \cup {"other", "none"}
  BY <1>1 DEF Spawning
<1>4. Spares(kernel, kernel', cr)
  BY <1>2, SparesItself
<1> HIDE DEF cr
<1> QED BY <1>1, <1>2, <1>3, <1>4, OtherMovesTimed

LEMMA StoreKeepsTimed == IInv /\ Timed /\ Store => Timed'
<1> SUFFICES ASSUME IInv, Timed, Store PROVE Timed'
  OBVIOUS
<1> DEFINE at == "store"
           to == "run"
<1>1. /\ At(at) /\ pc' = [pc EXCEPT ![cr] = to] /\ kernel' = kernel
      /\ timers' = timers /\ idx' = idx /\ ready \subseteq ready'
  BY DEF Store, Goto, exec
<1>2. at \in Spawning \cup {"other"} /\ to \in Spawning \cup {"other", "none"}
  BY DEF Spawning
<1>3. \A i \in Slots : fut'[i].awaits = "timer" =>
        fut[i].awaits = "timer" /\ fut'[i].wake = fut[i].wake
  <2>1. fut \in [Slots -> Futures]
    BY DEF IInv, TypeOK, Futures
  <2>2. fut' = fut \/ \E m : fut' = [fut EXCEPT ![m] = Running]
    BY DEF Store
  <2> QED BY <2>1, <2>2, FutureKinds
<1>4. Spares(kernel, kernel', cr)
  BY <1>1, SparesItself
<1> HIDE DEF cr, at, to
<1> QED BY <1>1, <1>2, <1>3, <1>4, OtherMovesTimed

LEMMA LeavingKeepsTimed == IInv /\ Timed /\ (Sleep \/ Leave) => Timed'
<1> SUFFICES ASSUME IInv, Timed, Sleep \/ Leave PROVE Timed'
  OBVIOUS
<1>1. PICK at \in {"run", "other"}, to \in {"run", "other", "none"} :
        At(at) /\ pc' = [pc EXCEPT ![cr] = to]
  <2>1. pc = [pc EXCEPT ![cr] = pc[cr]]
    BY DEF IInv, TypeOK
  <2> QED BY <2>1 DEF Sleep, Leave, Goto, At
<1>2. /\ fut' = fut /\ ready' = ready /\ timers' = timers /\ idx' = idx
      /\ kernel' = DelayCurrent(kernel, 1) \/ kernel' = ExitCurrent(kernel)
  BY DEF Sleep, Leave, exec
<1>3. at \in Spawning \cup {"other"} /\ to \in Spawning \cup {"other", "none"}
  BY <1>1 DEF Spawning
<1>4. Spares(kernel, kernel', cr) /\ kernel'.os_ticks = kernel.os_ticks
  BY <1>1, <1>2, <1>3, OtherRuns, DelaySpares, ExitSpares DEF cr
<1> HIDE DEF cr
<1> QED BY <1>1, <1>2, <1>3, <1>4, OtherMovesTimed

\* Before there is an executor there is no timer.
LEMMA CreateExecKeepsTimed == OneSpawner /\ IInv /\ Timed /\ CreateExec => Timed'
<1> SUFFICES ASSUME OneSpawner, IInv, Timed, CreateExec PROVE Timed'
  OBVIOUS
<1> DEFINE tid == LowestFree(kernel)
<1>1. /\ At("init") /\ FreeTids(kernel) # {} /\ kernel' = CreateTask(kernel, ExecPriority)
      /\ pc' = [pc EXCEPT ![cr] = "flag", ![tid] = "expire"]
      /\ fut' = fut /\ timers' = timers
  BY DEF CreateExec
<1>2. /\ cr \in Tid /\ pc[cr] = "init" /\ ~kernel.halted /\ Scheduled(kernel)
  BY <1>1 DEF IInv, TypeOK, At, cr
<1>3. Executors = {}
  BY <1>2 DEF IInv, Roles, OneExecutor, Spawning
<1>4. /\ Scheduled(kernel') /\ tid \in Range(kernel'.ready)
  BY <1>1, <1>2, CreateSpares, AsyncRtAssumption
<1> HIDE DEF tid, cr
<1>5. Executors' \subseteq {tid}
  <2>1. \A t \in Tid : t # tid => pc'[t] = pc[t] \/ pc'[t] = "flag"
    BY <1>1, <1>2 DEF IInv, TypeOK
  <2> QED BY <1>3, <2>1 DEF Executors, Executes
<1>6. timers = << >> /\ \A i \in Slots : fut[i].awaits # "timer"
  BY <1>3, FutureKinds DEF IInv, PoolInv
<1>7. PICK e : e = tid
  OBVIOUS
<1>8. Near(e)' /\ Naps(e)'
  <2>1. e \notin Range(kernel'.sleeping)
    BY <1>4, <1>7 DEF Scheduled, Fit
  <2> QED BY <1>1, <1>6, <2>1 DEF Near, Naps
<1>9. Spread' /\ HeapOrdered(timers')
  <2>1. Range(timers') = {} /\ Len(timers') = 0
    BY <1>1, <1>6, EmptySeq DEF Range
  <2> QED BY <2>1 DEF Spread, HeapOrdered
<1> QED BY <1>5, <1>7, <1>8, <1>9 DEF Timed

\* The bound on the clock leaves every deadline at least a tick, unless the executor
\* sleeps: then the tick wakes it up.
LEMMA TimerKeepsTimed == IInv /\ Timed /\ Timer => Timed'
<1> SUFFICES ASSUME IInv, Timed, Timer PROVE Timed'
  OBVIOUS
<1> DEFINE now == kernel.os_ticks
<1>1. /\ ~kernel.halted /\ InTime /\ kernel' = TickTrap(kernel, 1)
      /\ fut' = fut /\ ready' = ready /\ timers' = timers /\ pc' = pc /\ idx' = idx
  BY DEF Timer, exec
<1>2. /\ Scheduled(kernel') /\ Spares(kernel, kernel', NoTask)
      /\ kernel'.os_ticks = (now + 1) % TickMod
      /\ now \in Tick
      /\ \A t \in Range(kernel.sleeping) :
           kernel.wake_point[t] = (now + 1) % TickMod => t \in Range(kernel'.ready)
      /\ \A i \in Slots : fut[i].wake \in Tick
  BY <1>1, TickSpares DEF IInv, TypeOK, KernelState
<1> HIDE DEF now
<1>3. Executors' = Executors /\ NoTask \notin Executors
  BY <1>1, KernelAssumption DEF Executors, Executes
<1>4. ASSUME NEW e \in Executors
      PROVE  /\ e \in Range(kernel.ready) => e \in Range(kernel'.ready)
             /\ e \in Range(kernel.sleeping) => e \in Range(kernel'.ready)
             /\ e \notin Range(kernel'.sleeping)
  <2>1. e # NoTask /\ Naps(e) /\ e \in Known(kernel)
    BY <1>3, <1>4 DEF Timed, IInv, Roles
  <2>2. e \in Range(kernel.ready) => e \in Range(kernel'.ready)
    BY <1>2, <2>1 DEF Spares
  <2>3. e \in Range(kernel.sleeping) => e \in Range(kernel'.ready)
    BY <1>2, <2>1 DEF Naps, now
  <2> QED BY <1>2, <2>1, <2>2, <2>3 DEF Known, Scheduled, Fit
<1>5. ASSUME NEW e \in Executors, NEW i \in Slots, fut[i].awaits = "timer"
      PROVE  /\ OffsetAt(now, fut[i].wake) \in 1 .. Half
             /\ OffsetAt(now, fut[i].wake) = 1 =>
                  pc[e] = "expire" /\ e \in Range(kernel.sleeping)
  <2> DEFINE o == OffsetAt(now, fut[i].wake)
  <2>1. o <= Half /\ o \in 0 .. TickMod - 1 /\ fut[i].wake \in Tick
    <3>1. Near(e) /\ fut[i].wake \in Tick
      BY <1>2, <1>5 DEF Timed
    <3> QED BY <1>2, <1>5, <3>1, OffsetLemma DEF Near, Offset, now
  <2>2. pc[e] # "expire" => e \in Range(kernel.ready)
    BY <1>5 DEF IInv, Roles
  <2>3. CASE e \in Range(kernel.ready)
    <3>1. kernel.status[e] # "Blocked"
      BY <1>5, <2>3 DEF IInv, Scheduled, Fit, Executors
    <3>2. NotBefore(now, fut[i].wake) => (now - fut[i].wake) % TickMod < LateMax
      BY <1>1, <1>5, <3>1 DEF InTime, now
    <3>3. o >= 2
      BY <1>2, <2>1, <3>2, InTimeLemma
    <3> QED BY <2>1, <3>3, CircleFacts
  <2>4. CASE e \notin Range(kernel.ready)
    <3>1. pc[e] = "expire" /\ e \in Range(kernel.sleeping)
      BY <1>5, <2>2, <2>4 DEF IInv, Roles, Known
    <3>2. PICK n : n = idx[e] /\ PoolAt("expire", n)
      BY <1>5, <3>1 DEF IInv, PoolInv
    <3>3. i \notin ready
      BY <1>5, <3>2 DEF PoolAt, Marks
    <3>4. o # 0
      BY <1>5, <2>4, <3>1, <3>3 DEF Timed, Near, Offset, now
    <3> QED BY <2>1, <3>1, <3>4, CircleFacts
  <2> QED BY <2>3, <2>4
<1>6. ASSUME NEW e \in Executors, NEW i \in Slots, fut[i].awaits = "timer"
      PROVE  OffsetAt(kernel'.os_ticks, fut[i].wake) = OffsetAt(now, fut[i].wake) - 1
  <2>1. OffsetAt(now, fut[i].wake) # 0 /\ fut[i].wake \in Tick
    BY <1>2, <1>5, <1>6
  <2> QED BY <1>2, <2>1, NearerLemma
<1>7. ASSUME NEW e \in Executors PROVE Naps(e)' /\ Near(e)'
  <2>1. Naps(e)'
    BY <1>4, <1>7 DEF Naps
  <2>2. ASSUME NEW i \in Slots, fut[i].awaits = "timer"
        PROVE  /\ OffsetAt(kernel'.os_ticks, fut[i].wake) <= Half
               /\ OffsetAt(kernel'.os_ticks, fut[i].wake) = 0 =>
                    pc[e] = "expire" /\ e \in Range(kernel'.ready)
    <3> DEFINE o == OffsetAt(now, fut[i].wake)
               p == OffsetAt(kernel'.os_ticks, fut[i].wake)
    <3>1. /\ o \in 1 .. Half /\ p = o - 1
          /\ o = 1 => pc[e] = "expire" /\ e \in Range(kernel.sleeping)
      BY <1>5, <1>6, <1>7, <2>2
    <3> HIDE DEF o, p
    <3>2. p <= Half /\ (p = 0 => o = 1)
      BY <3>1, CircleFacts
    <3> QED BY <1>4, <1>7, <3>1, <3>2 DEF p
  <2>3. Near(e)'
    BY <1>1, <2>2 DEF Near, Offset
  <2> QED BY <2>1, <2>3
<1>8. Spread'
  <2> SUFFICES ASSUME NEW x \in Range(timers) PROVE OffsetAt(kernel'.os_ticks, x.wake) < Half
    BY <1>1 DEF Spread, Offset
  <2>1. x.slot \in Slots /\ fut[x.slot].awaits = "timer" /\ fut[x.slot].wake = x.wake
    BY HeapLemma
  <2>2. PICK e : e \in Executors
    <3>1. timers # << >>
      BY EmptySeq DEF Range
    <3> QED BY <3>1 DEF IInv, PoolInv
  <2>3. OffsetAt(now, x.wake) \in 1 .. Half
    BY <1>5, <2>1, <2>2
  <2>4. OffsetAt(kernel'.os_ticks, x.wake) = OffsetAt(now, x.wake) - 1
    BY <1>6, <2>1, <2>2
  <2> QED BY <2>3, <2>4, CircleFacts
<1>9. HeapOrdered(timers')
  BY <1>1 DEF Timed
<1> QED BY <1>3, <1>7, <1>8, <1>9 DEF Timed

LEMMA InitTimed == Init => Timed
<1> SUFFICES ASSUME Init PROVE Timed
  OBVIOUS
<1>1. timers = << >> /\ Executors = {}
  BY DEF Init, Executors, Executes
<1>2. Range(timers) = {} /\ Len(timers) = 0
  BY <1>1, EmptySeq DEF Range
<1> QED BY <1>1, <1>2 DEF Timed, Spread, HeapOrdered

LEMMA NextTimed ==
  OneSpawner /\ ExecutorFirst /\ ShortDelays /\ IInv /\ Timed /\ [Next]_vars => Timed'
<1> SUFFICES ASSUME OneSpawner, ExecutorFirst, ShortDelays, IInv, Timed, [Next]_vars PROVE Timed'
  OBVIOUS
<1>1. CASE Spawn \/ CreateExec \/ NoExec \/ SetFlag \/ Store
  BY <1>1, SpawningKeepsTimed, CreateExecKeepsTimed, StoreKeepsTimed
<1>2. CASE Expire \/ Scan \/ PassEnds \/ Take
  BY <1>2, ExpireKeepsTimed, ScanKeepsTimed, PassEndsKeepsTimed, TakeKeepsTimed
<1>3. CASE Finish \/ ClearReady \/ YieldNow \/ YieldDone
  BY <1>3, FinishKeepsTimed, ClearReadyKeepsTimed, YieldNowKeepsTimed, YieldDoneKeepsTimed
<1>4. CASE (\E ms \in AsyncDelays : DelayMs(ms)) \/ PollTimer \/ Register
  BY <1>4, DelayMsKeepsTimed, PollTimerKeepsTimed, RegisterKeepsTimed
<1>5. CASE Sleep \/ Leave \/ Timer
  BY <1>5, LeavingKeepsTimed, TimerKeepsTimed
<1>6. CASE UNCHANGED vars
  <2>1. /\ kernel' = kernel /\ fut' = fut /\ ready' = ready
        /\ timers' = timers /\ pc' = pc /\ idx' = idx
    BY <1>6 DEF vars, exec
  <2> QED BY <2>1 DEF Timed, Executors, Executes, Naps, Near, Spread, Offset
<1> QED BY <1>1, <1>2, <1>3, <1>4, <1>5, <1>6 DEF Next

\* The first entry of the heap is an earliest one, also when deadlines on both sides
\* of the wrap of the counter are in it, so wake_expired may stop at the first one
\* that is not over (sift_up, sift_down, wrapping_sub as i32).
THEOREM EarliestStaysOnTop ==
  OneSpawner /\ ExecutorFirst /\ ShortDelays /\ Spec => []EarliestOnTop
<1> SUFFICES ASSUME OneSpawner, ExecutorFirst, ShortDelays PROVE Spec => []EarliestOnTop
  OBVIOUS
<1>1. IInv /\ Timed /\ [Next]_vars => Timed'
  BY NextTimed
<1>2. IInv /\ Timed => EarliestOnTop
  <2> SUFFICES ASSUME IInv, Timed PROVE EarliestOnTop
    OBVIOUS
  <2>1. PICK rank : Ranked(Range(timers), rank) /\ timers \in Seq(Entry)
    BY HeapLemma
  <2> QED BY <2>1, TopLemma DEF Timed, EarliestOnTop
<1>3. Spec => []IInv
  BY SpecIInv
<1> QED BY <1>1, <1>2, <1>3, InitTimed, PTL DEF Spec
==============================================================================
