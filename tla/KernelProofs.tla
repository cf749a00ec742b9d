---------------------------- MODULE KernelProofs ----------------------------
(***************************************************************************)
(* What the operations of TaskList, Kernel and MutexOps preserve, for      *)
(* every list and capacity, every size of the task pool, every priority    *)
(* range and every tick width.  The proofs about the components cite these *)
(* lemmas by name.                                                         *)
(***************************************************************************)
EXTENDS MutexOps, SequenceTheorems, FiniteSetTheorems, TLAPS

-----------------------------------------------------------------------------
(* Lists.                                                                  *)

\* A set of numbers that is not empty has a least member, which is its Min:
\* the loops of list.rs that stop at the first match are stated with Min.
LEMMA MinOfNats ==
  ASSUME NEW T \in SUBSET Nat, T # {}
  PROVE  Min(T) \in T /\ \A y \in T : Min(T) <= y
<1>1. \E x \in T : \A y \in T : <<y, x>> \notin OpToRel(<, Nat)
  BY NatLessThanWellFounded, WFMin
<1>2. PICK x \in T : \A y \in T : <<y, x>> \notin OpToRel(<, Nat)
  BY <1>1
<1>3. \A y \in T : x <= y
  <2>1. SUFFICES ASSUME NEW y \in T PROVE x <= y
    OBVIOUS
  <2>2. <<y, x>> \in Nat \X Nat
    OBVIOUS
  <2>3. ~ (y < x)
    BY <1>2, <2>1, <2>2 DEF OpToRel
  <2> QED
    BY <2>3
<1> QED
  BY <1>3 DEF Min

\* insert_in_order looks at a place of the list or the one behind it; what is
\* before that place does not come after tid.
LEMMA InsertPosRange ==
  ASSUME NEW S, NEW list \in Seq(S), NEW tid \in S, NEW key \in [S -> Nat]
  PROVE  /\ InsertPos(list, tid, key) \in 1..Len(list) + 1
         /\ \A i \in 1..Len(list) :
              i < InsertPos(list, tid, key) => key[list[i]] <= key[tid]
         /\ InsertPos(list, tid, key) <= Len(list)
              => key[tid] < key[list[InsertPos(list, tid, key)]]
<1> DEFINE T == {i \in 1..Len(list) : key[tid] < key[list[i]]} \cup {Len(list) + 1}
<1>1. T \in SUBSET Nat /\ T # {} /\ T \subseteq 1..Len(list) + 1
  OBVIOUS
<1>2. Min(T) \in T /\ \A y \in T : Min(T) <= y
  <2> HIDE DEF T
  <2> QED BY <1>1, MinOfNats
<1>3. InsertPos(list, tid, key) = Min(T)
  BY DEF InsertPos
<1>4. \A i \in 1..Len(list) : i < Min(T) => key[list[i]] <= key[tid]
  <2> SUFFICES ASSUME NEW i \in 1..Len(list), i < Min(T)
               PROVE  key[list[i]] <= key[tid]
    OBVIOUS
  <2>1. Min(T) \in Nat
    <3> HIDE DEF T
    <3> QED BY <1>1, <1>2
  <2>2. i \notin T
    <3> HIDE DEF T
    <3> QED BY <1>2, <2>1
  <2>3. list[i] \in S
    OBVIOUS
  <2> QED
    BY <2>2, <2>3
<1>5. Min(T) <= Len(list) => key[tid] < key[list[Min(T)]]
  BY <1>2
<1>6. Min(T) \in 1..Len(list) + 1
  <2> HIDE DEF T
  <2> QED BY <1>1, <1>2
<1> QED
  BY <1>3, <1>4, <1>5, <1>6

-----------------------------------------------------------------------------
(* Positions after one insertion and one removal.                          *)

\* Vec::insert shifts what is behind the place by one.
LEMMA InsertAtPlaces ==
  ASSUME NEW S, NEW list \in Seq(S), NEW e \in S, NEW p \in 1..Len(list) + 1
  PROVE  /\ InsertAt(list, p, e) \in Seq(S)
         /\ Len(InsertAt(list, p, e)) = Len(list) + 1
         /\ \A i \in 1..Len(list) + 1 :
              InsertAt(list, p, e)[i] =
                IF i < p THEN list[i] ELSE IF i = p THEN e ELSE list[i - 1]
<1> DEFINE front == SubSeq(list, 1, p - 1)
           back == SubSeq(list, p, Len(list))
<1>1. /\ front \in Seq(S) /\ Len(front) = p - 1
      /\ \A i \in 1..p - 1 : front[i] = list[i]
  BY SubSeqProperties
<1>2. /\ back \in Seq(S) /\ Len(back) = Len(list) - p + 1
      /\ \A i \in 1..Len(list) - p + 1 : back[i] = list[p + i - 1]
  BY SubSeqProperties
<1>3. InsertAt(list, p, e) = (front \o <<e>>) \o back
  BY DEF InsertAt
<1> HIDE DEF front, back
<1>4. <<e>> \in Seq(S) /\ Len(<<e>>) = 1 /\ <<e>>[1] = e
  OBVIOUS
<1>5. /\ front \o <<e>> \in Seq(S)
      /\ Len(front \o <<e>>) = p
      /\ \A i \in 1..p : (front \o <<e>>)[i] = IF i < p THEN list[i] ELSE e
  BY <1>1, <1>4, ConcatProperties
<1>6. /\ (front \o <<e>>) \o back \in Seq(S)
      /\ Len((front \o <<e>>) \o back) = Len(list) + 1
  BY <1>2, <1>5, ConcatProperties
<1>7. \A i \in 1..Len(list) + 1 : ((front \o <<e>>) \o back)[i] =
        IF i <= p THEN (front \o <<e>>)[i] ELSE back[i - p]
  BY <1>2, <1>5, ConcatProperties
<1>8. \A i \in 1..Len(list) + 1 : i > p => back[i - p] = list[i - 1]
  BY <1>2
<1> QED
  BY <1>3, <1>5, <1>6, <1>7, <1>8

\* Vec::remove closes the gap.
LEMMA RemoveAtPlaces ==
  ASSUME NEW S, NEW list \in Seq(S), NEW p \in 1..Len(list)
  PROVE  /\ RemoveAt(list, p) \in Seq(S)
         /\ Len(RemoveAt(list, p)) = Len(list) - 1
         /\ \A i \in 1..Len(list) - 1 :
              RemoveAt(list, p)[i] = IF i < p THEN list[i] ELSE list[i + 1]
<1> DEFINE front == SubSeq(list, 1, p - 1)
           back == SubSeq(list, p + 1, Len(list))
<1>1. /\ front \in Seq(S) /\ Len(front) = p - 1
      /\ \A i \in 1..p - 1 : front[i] = list[i]
  BY SubSeqProperties
<1>2. /\ back \in Seq(S) /\ Len(back) = Len(list) - p
      /\ \A i \in 1..Len(list) - p : back[i] = list[p + i]
  BY SubSeqProperties
<1>3. RemoveAt(list, p) = front \o back
  BY DEF RemoveAt
<1> HIDE DEF front, back
<1>4. front \o back \in Seq(S) /\ Len(front \o back) = Len(list) - 1
  <2>1. /\ front \o back \in Seq(S)
        /\ Len(front \o back) = Len(front) + Len(back)
    BY <1>1, <1>2, ConcatProperties
  <2> QED
    BY <1>1, <1>2, <2>1
<1>5. \A i \in 1..Len(list) - 1 : (front \o back)[i] =
        IF i <= p - 1 THEN front[i] ELSE back[i - (p - 1)]
  BY <1>1, <1>2, ConcatProperties
<1> DEFINE whole == front \o back
           n == Len(list)
<1> HIDE DEF whole, n
<1>6. n \in Nat /\ p \in 1..n
  BY DEF n
<1>7. ASSUME NEW i \in 1..n - 1
      PROVE  whole[i] = IF i < p THEN list[i] ELSE list[i + 1]
  <2>1. CASE i < p
    <3>1. i \in 1..p - 1
      BY <1>6, <2>1
    <3> QED
      BY <1>1, <1>5, <1>6, <2>1, <3>1 DEF whole, n
  <2>2. CASE ~(i < p)
    <3>1. /\ ~(i <= p - 1) /\ i - (p - 1) \in 1..n - p
          /\ p + (i - (p - 1)) = i + 1
      BY <1>6, <2>2
    <3>2. whole[i] = back[i - (p - 1)]
      BY <1>5, <3>1 DEF whole, n
    <3>3. back[i - (p - 1)] = list[p + (i - (p - 1))]
      BY <1>2, <3>1 DEF n
    <3> QED
      BY <2>2, <3>1, <3>2, <3>3
  <2> QED
    BY <2>1, <2>2
<1> QED
  BY <1>3, <1>4, <1>7 DEF whole, n

-----------------------------------------------------------------------------
(* The operations.                                                         *)

\* remove on a list that holds tid takes away the place of one tid; on any
\* other list it does nothing.
LEMMA DropPlaces ==
  ASSUME NEW S, NEW list \in Seq(S), NEW tid
  PROVE  /\ ~Holds(list, tid) => Drop(list, tid) = list
         /\ Holds(list, tid) =>
              \E p \in 1..Len(list) :
                list[p] = tid /\ Drop(list, tid) = RemoveAt(list, p)
<1>1. Holds(list, tid) <=> \E i \in 1..Len(list) : list[i] = tid
  BY DEF Holds, Range
<1>2. CASE ~Holds(list, tid)
  BY <1>1, <1>2 DEF Drop, RemoveFirst
<1>3. CASE Holds(list, tid)
  <2> DEFINE T == {i \in 1..Len(list) : list[i] = tid}
  <2>1. T \in SUBSET Nat /\ T # {}
    BY <1>1, <1>3
  <2>2. Min(T) \in T
    <3> HIDE DEF T
    <3> QED BY <2>1, MinOfNats
  <2>3. Drop(list, tid) = RemoveAt(list, Min(T))
    BY <1>1, <1>3, <2>1 DEF Drop, RemoveFirst, SelectInSeq
  <2> QED
    BY <1>3, <2>2, <2>3
<1> QED
  BY <1>2, <1>3

\* remove takes one occurrence away: on a list without repetition nothing of
\* tid is left, everything else stays, and no repetition appears.
LEMMA DropProperties ==
  ASSUME NEW S, NEW list \in Seq(S), NEW tid
  PROVE  /\ Drop(list, tid) \in Seq(S)
         /\ Len(Drop(list, tid)) <= Len(list)
         /\ IsInjective(list) =>
              /\ IsInjective(Drop(list, tid))
              /\ Range(Drop(list, tid)) = Range(list) \ {tid}
<1>1. CASE ~Holds(list, tid)
  BY <1>1, DropPlaces DEF Holds
<1>2. CASE Holds(list, tid)
  <2>1. PICK p \in 1..Len(list) :
          list[p] = tid /\ Drop(list, tid) = RemoveAt(list, p)
    BY <1>2, DropPlaces
  <2> DEFINE short == RemoveAt(list, p)
  <2>2. /\ short \in Seq(S) /\ Len(short) = Len(list) - 1
        /\ \A i \in 1..Len(list) - 1 :
             short[i] = IF i < p THEN list[i] ELSE list[i + 1]
    BY RemoveAtPlaces
  <2> HIDE DEF short
  <2>3. DOMAIN short = 1..Len(list) - 1 /\ DOMAIN list = 1..Len(list)
    BY <2>2
  <2>4. ASSUME IsInjective(list) PROVE IsInjective(short)
    <3> SUFFICES ASSUME NEW i \in 1..Len(list) - 1, NEW j \in 1..Len(list) - 1,
                        short[i] = short[j]
                 PROVE  i = j
      BY <2>3 DEF IsInjective
    <3> DEFINE from(n) == IF n < p THEN n ELSE n + 1
    <3>1. from(i) \in 1..Len(list) /\ short[i] = list[from(i)]
      BY <2>2
    <3>2. from(j) \in 1..Len(list) /\ short[j] = list[from(j)]
      BY <2>2
    <3>3. \A a, b \in 1..Len(list) : list[a] = list[b] => a = b
      BY <2>3, <2>4 DEF IsInjective
    <3>4. from(i) = from(j)
      <4> HIDE DEF from
      <4> QED BY <3>1, <3>2, <3>3
    <3> QED
      BY <3>4
  <2>5. ASSUME IsInjective(list) PROVE Range(short) = Range(list) \ {tid}
    <3>1. \A a, b \in 1..Len(list) : list[a] = list[b] => a = b
      BY <2>3, <2>5 DEF IsInjective
    <3>2. ASSUME NEW x \in Range(short) PROVE x \in Range(list) \ {tid}
      <4>1. PICK i \in 1..Len(list) - 1 : x = short[i]
        BY <2>3, <3>2 DEF Range
      <4>2. x = IF i < p THEN list[i] ELSE list[i + 1]
        BY <2>2, <4>1
      <4> QED
        BY <2>1, <2>3, <3>1, <4>2 DEF Range
    <3>3. ASSUME NEW x \in Range(list) \ {tid} PROVE x \in Range(short)
      <4>1. PICK i \in 1..Len(list) : x = list[i]
        BY <2>3, <3>3 DEF Range
      <4>2. i # p
        BY <2>1, <4>1, <3>3
      <4>3. CASE i < p
        BY <2>2, <2>3, <4>1, <4>3 DEF Range
      <4>4. CASE i > p
        <5>1. i - 1 \in 1..Len(list) - 1 /\ short[i - 1] = x
          BY <2>2, <4>1, <4>4
        <5> QED
          BY <2>3, <5>1 DEF Range
      <4> QED
        BY <4>2, <4>3, <4>4
    <3> QED
      BY <3>2, <3>3
  <2> QED
    BY <2>1, <2>2, <2>4, <2>5 DEF short
<1> QED
  BY <1>1, <1>2

\* insert_in_order adds tid to a list with room, and repeats nothing if tid was
\* not there.
LEMMA InsertProperties ==
  ASSUME NEW S, NEW list \in Seq(S), NEW tid \in S, NEW key \in [S -> Nat],
         Len(list) # TASK_MAX, tid \notin Range(list), IsInjective(list)
  PROVE  /\ InsertInOrder(list, tid, key) \in Seq(S)
         /\ IsInjective(InsertInOrder(list, tid, key))
         /\ Range(InsertInOrder(list, tid, key)) = Range(list) \cup {tid}
<1> DEFINE p == InsertPos(list, tid, key)
           long == InsertAt(list, p, tid)
<1>1. p \in 1..Len(list) + 1
  BY InsertPosRange
<1> HIDE DEF p
<1>2. /\ long \in Seq(S) /\ Len(long) = Len(list) + 1
      /\ \A i \in 1..Len(list) + 1 : long[i] =
           IF i < p THEN list[i] ELSE IF i = p THEN tid ELSE list[i - 1]
  BY <1>1, InsertAtPlaces
<1>3. InsertInOrder(list, tid, key) = long
  BY DEF InsertInOrder, p
<1> HIDE DEF long
<1>4. DOMAIN long = 1..Len(list) + 1 /\ DOMAIN list = 1..Len(list)
  BY <1>2
<1>5. /\ \A a, b \in 1..Len(list) : list[a] = list[b] => a = b
      /\ \A a \in 1..Len(list) : list[a] # tid
  BY <1>4 DEF IsInjective, Range
<1>6. IsInjective(long)
  <2> SUFFICES ASSUME NEW i \in 1..Len(list) + 1, NEW j \in 1..Len(list) + 1,
                      long[i] = long[j]
               PROVE  i = j
    BY <1>4 DEF IsInjective
  <2> DEFINE from(n) == IF n < p THEN n ELSE n - 1
  <2>1. \A n \in 1..Len(list) + 1 :
          n # p => from(n) \in 1..Len(list) /\ long[n] = list[from(n)]
    <3> SUFFICES ASSUME NEW n \in 1..Len(list) + 1, n # p
                 PROVE  from(n) \in 1..Len(list) /\ long[n] = list[from(n)]
      OBVIOUS
    <3>1. Len(list) \in Nat /\ p \in Nat /\ n \in Nat
      BY <1>1, <1>2, LenProperties
    <3>2. from(n) \in 1..Len(list)
      BY <1>1, <3>1
    <3>3. long[n] = IF n < p THEN list[n] ELSE list[n - 1]
      BY <1>2
    <3> QED
      BY <3>2, <3>3
  <2>2. \A m, n \in 1..Len(list) + 1 :
          m # p /\ n # p /\ from(m) = from(n) => m = n
    BY <1>1
  <2>3. long[p] = tid
    BY <1>1, <1>2
  <2> HIDE DEF from
  <2>4. CASE i = p \/ j = p
    BY <1>5, <2>1, <2>3, <2>4
  <2>5. CASE i # p /\ j # p
    BY <1>5, <2>1, <2>2, <2>5
  <2> QED
    BY <2>4, <2>5
<1>7. ASSUME NEW x \in Range(long) PROVE x \in Range(list) \cup {tid}
  <2>1. PICK i \in 1..Len(list) + 1 : x = long[i]
    BY <1>4, <1>7 DEF Range
  <2>2. x = IF i < p THEN list[i] ELSE IF i = p THEN tid ELSE list[i - 1]
    BY <1>2, <2>1
  <2>3. CASE i = p
    BY <2>2, <2>3
  <2>4. CASE i < p
    <3>1. i \in 1..Len(list) /\ x = list[i]
      BY <1>1, <2>2, <2>4
    <3> QED
      BY <1>4, <3>1 DEF Range
  <2>5. CASE i > p
    <3>1. i - 1 \in 1..Len(list) /\ x = list[i - 1]
      BY <1>1, <2>2, <2>5
    <3> QED
      BY <1>4, <3>1 DEF Range
  <2> QED
    BY <1>1, <2>3, <2>4, <2>5
<1>8. ASSUME NEW x \in Range(list) PROVE x \in Range(long)
  <2>1. PICK i \in 1..Len(list) : x = list[i]
    BY <1>4, <1>8 DEF Range
  <2>2. CASE i < p
    <3>1. i \in 1..Len(list) + 1
      OBVIOUS
    <3>2. long[i] = x
      BY <1>2, <2>1, <2>2, <3>1
    <3> QED
      BY <1>4, <3>1, <3>2 DEF Range
  <2>3. CASE i >= p
    <3>1. i + 1 \in 1..Len(list) + 1 /\ ~(i + 1 < p) /\ i + 1 # p
      BY <1>1, <2>3
    <3>2. long[i + 1] = list[(i + 1) - 1]
      BY <1>2, <3>1
    <3>3. (i + 1) - 1 = i
      OBVIOUS
    <3> QED
      BY <1>4, <2>1, <3>1, <3>2, <3>3 DEF Range
  <2> QED
    BY <1>1, <2>2, <2>3
<1>9. tid \in Range(long)
  BY <1>1, <1>2, <1>4 DEF Range
<1> QED
  BY <1>2, <1>3, <1>6, <1>7, <1>8, <1>9

\* push_back on a list with room.
LEMMA PushBackProperties ==
  ASSUME NEW S, NEW list \in Seq(S), NEW tid \in S,
         Len(list) # TASK_MAX, tid \notin Range(list), IsInjective(list)
  PROVE  /\ PushBack(list, tid) \in Seq(S)
         /\ IsInjective(PushBack(list, tid))
         /\ Range(PushBack(list, tid)) = Range(list) \cup {tid}
<1> DEFINE long == Append(list, tid)
<1>1. /\ long \in Seq(S) /\ Len(long) = Len(list) + 1
      /\ long[Len(list) + 1] = tid
      /\ \A i \in 1..Len(list) : long[i] = list[i]
  BY AppendProperties
<1>2. PushBack(list, tid) = long
  BY DEF PushBack
<1> HIDE DEF long
<1>3. /\ DOMAIN long = 1..Len(list) + 1 /\ DOMAIN list = 1..Len(list)
      /\ Len(list) \in Nat
  BY <1>1
<1>4. IsInjective(long)
  BY <1>1, <1>3 DEF IsInjective, Range
<1>5. Range(long) = Range(list) \cup {tid}
  <2>1. \A x \in Range(long) : x \in Range(list) \cup {tid}
    BY <1>1, <1>3 DEF Range
  <2>2. \A x \in Range(list) \cup {tid} : x \in Range(long)
    BY <1>1, <1>3 DEF Range
  <2> QED
    BY <2>1, <2>2
<1> QED
  BY <1>1, <1>2, <1>4, <1>5

-----------------------------------------------------------------------------
(* The order insert_in_order keeps.                                        *)

\* A removal leaves a list in order, whatever the keys are.
LEMMA DropSorted ==
  ASSUME NEW S, NEW list \in Seq(S), NEW tid, NEW key, SortedBy(list, key)
  PROVE  SortedBy(Drop(list, tid), key)
<1>1. CASE ~Holds(list, tid)
  BY <1>1, DropPlaces
<1>2. CASE Holds(list, tid)
  <2>1. PICK p \in 1..Len(list) : Drop(list, tid) = RemoveAt(list, p)
    BY <1>2, DropPlaces
  <2> DEFINE short == RemoveAt(list, p)
  <2>2. /\ Len(short) = Len(list) - 1
        /\ \A i \in 1..Len(list) - 1 :
             short[i] = IF i < p THEN list[i] ELSE list[i + 1]
    BY RemoveAtPlaces
  <2> HIDE DEF short
  <2> SUFFICES ASSUME NEW i \in 1..Len(list) - 1, NEW j \in 1..Len(list) - 1, i < j
               PROVE  key[short[i]] <= key[short[j]]
    BY <2>1, <2>2 DEF SortedBy, short
  <2> DEFINE from(n) == IF n < p THEN n ELSE n + 1
  <2>3. /\ from(i) \in 1..Len(list) /\ short[i] = list[from(i)]
        /\ from(j) \in 1..Len(list) /\ short[j] = list[from(j)]
        /\ from(i) < from(j)
    BY <2>2
  <2> HIDE DEF from
  <2> QED
    BY <2>3 DEF SortedBy
<1> QED
  BY <1>1, <1>2

\* insert_in_order finds a place that keeps an ordered list in order.
LEMMA InsertSorted ==
  ASSUME NEW S, NEW list \in Seq(S), NEW tid \in S, NEW key \in [S -> Nat],
         SortedBy(list, key)
  PROVE  SortedBy(InsertInOrder(list, tid, key), key)
<1>1. CASE Len(list) = TASK_MAX
  BY <1>1 DEF InsertInOrder
<1>2. CASE Len(list) # TASK_MAX
  <2> DEFINE p == InsertPos(list, tid, key)
             long == InsertAt(list, p, tid)
  <2>1. /\ p \in 1..Len(list) + 1
        /\ \A i \in 1..Len(list) : i < p => key[list[i]] <= key[tid]
        /\ p <= Len(list) => key[tid] < key[list[p]]
    BY InsertPosRange
  <2>2. InsertInOrder(list, tid, key) = long
    BY <1>2 DEF InsertInOrder
  <2> HIDE DEF p
  <2>3. /\ Len(long) = Len(list) + 1
        /\ \A i \in 1..Len(list) + 1 : long[i] =
             IF i < p THEN list[i] ELSE IF i = p THEN tid ELSE list[i - 1]
    BY <2>1, InsertAtPlaces
  <2> HIDE DEF long
  <2>4. /\ \A i \in 1..Len(list) : key[list[i]] \in Nat
        /\ key[tid] \in Nat
    OBVIOUS
  <2>5. ASSUME NEW i \in 1..Len(list), i >= p PROVE key[tid] <= key[list[i]]
    <3>1. p \in 1..Len(list) /\ key[tid] < key[list[p]]
      BY <2>1, <2>5
    <3>2. key[list[p]] <= key[list[i]]
      BY <2>4, <2>5, <3>1 DEF SortedBy
    <3> QED
      BY <2>4, <3>1, <3>2
  <2> SUFFICES ASSUME NEW i \in 1..Len(list) + 1, NEW j \in 1..Len(list) + 1, i < j
               PROVE  key[long[i]] <= key[long[j]]
    BY <2>2, <2>3 DEF SortedBy
  <2>6. CASE i # p /\ j # p
    <3> DEFINE from(n) == IF n < p THEN n ELSE n - 1
    <3>1. /\ from(i) \in 1..Len(list) /\ long[i] = list[from(i)]
          /\ from(j) \in 1..Len(list) /\ long[j] = list[from(j)]
          /\ from(i) < from(j)
      BY <2>1, <2>3, <2>6
    <3> HIDE DEF from
    <3> QED
      BY <3>1 DEF SortedBy
  <2>7. CASE i = p
    <3>1. long[i] = tid /\ long[j] = list[j - 1] /\ j - 1 \in 1..Len(list)
          /\ j - 1 >= p
      BY <2>1, <2>3, <2>7
    <3> QED
      BY <2>5, <3>1
  <2>8. CASE j = p
    <3>1. long[j] = tid /\ long[i] = list[i] /\ i \in 1..Len(list) /\ i < p
      BY <2>1, <2>3, <2>8
    <3> QED
      BY <2>1, <3>1
  <2> QED
    BY <2>6, <2>7, <2>8
<1> QED
  BY <1>1, <1>2

\* Only the keys of the tasks in a list matter for its order.
LEMMA SortedByOther ==
  ASSUME NEW S, NEW list \in Seq(S), NEW key, NEW other, SortedBy(list, key),
         \A t \in Range(list) : other[t] = key[t]
  PROVE  SortedBy(list, other)
<1>1. \A i \in 1..Len(list) : other[list[i]] = key[list[i]]
  BY DEF Range
<1> QED
  BY <1>1 DEF SortedBy

\* A list that insert_in_order has changed is still a list, with room or not.
LEMMA InsertIsList ==
  ASSUME NEW S, NEW list \in Seq(S), NEW tid \in S, NEW key \in [S -> Nat]
  PROVE  InsertInOrder(list, tid, key) \in Seq(S)
BY InsertPosRange, InsertAtPlaces DEF InsertInOrder

-----------------------------------------------------------------------------
(* A queue whose front is taken.                                           *)

\* Vec::remove(0): the front leaves, the others stay, in their order.
LEMMA HeadAndTail ==
  ASSUME NEW S, NEW list \in Seq(S), list # << >>, IsInjective(list)
  PROVE  /\ Head(list) \in Range(list)
         /\ Tail(list) \in Seq(S) /\ IsInjective(Tail(list))
         /\ Range(Tail(list)) = Range(list) \ {Head(list)}
<1>1. /\ Len(list) \in Nat /\ Len(list) > 0 /\ Head(list) = list[1]
      /\ Tail(list) \in Seq(S) /\ Len(Tail(list)) = Len(list) - 1
      /\ \A i \in 1 .. Len(list) - 1 : Tail(list)[i] = list[i + 1]
  BY HeadTailProperties, EmptySeq
<1>2. \A i, j \in 1 .. Len(list) : list[i] = list[j] => i = j
  BY DEF IsInjective
<1>3. DOMAIN list = 1 .. Len(list) /\ DOMAIN Tail(list) = 1 .. Len(list) - 1
  BY <1>1
<1>4. IsInjective(Tail(list))
  <2> SUFFICES ASSUME NEW i \in 1 .. Len(list) - 1, NEW j \in 1 .. Len(list) - 1,
                      Tail(list)[i] = Tail(list)[j]
               PROVE  i = j
    BY <1>3 DEF IsInjective
  <2>1. i + 1 \in 1 .. Len(list) /\ j + 1 \in 1 .. Len(list)
    BY <1>1
  <2> QED
    BY <1>1, <1>2, <2>1
<1>5. Range(Tail(list)) \subseteq Range(list) \ {Head(list)}
  <2> SUFFICES ASSUME NEW i \in 1 .. Len(list) - 1
               PROVE  Tail(list)[i] \in Range(list) \ {Head(list)}
    BY <1>3 DEF Range
  <2>1. i + 1 \in 1 .. Len(list) /\ i + 1 # 1 /\ 1 \in 1 .. Len(list)
    BY <1>1
  <2> QED
    BY <1>1, <1>2, <1>3, <2>1 DEF Range
<1>6. Range(list) \ {Head(list)} \subseteq Range(Tail(list))
  <2> SUFFICES ASSUME NEW i \in 1 .. Len(list), list[i] # Head(list)
               PROVE  list[i] \in Range(Tail(list))
    BY <1>3 DEF Range
  <2>1. i - 1 \in 1 .. Len(list) - 1 /\ (i - 1) + 1 = i
    BY <1>1
  <2>2. Tail(list)[i - 1] = list[i]
    BY <1>1, <2>1
  <2> QED
    BY <1>3, <2>1, <2>2 DEF Range
<1> QED
  BY <1>1, <1>3, <1>4, <1>5, <1>6 DEF Range

\* From an ordered queue a least key is taken and an ordered queue is left.
LEMMA SortedFront ==
  ASSUME NEW S, NEW list \in Seq(S), list # << >>, NEW key \in [S -> Nat],
         SortedBy(list, key)
  PROVE  /\ SortedBy(Tail(list), key)
         /\ \A t \in Range(list) : key[Head(list)] <= key[t]
<1>1. /\ Len(list) \in Nat /\ Len(list) > 0 /\ Head(list) = list[1]
      /\ Len(Tail(list)) = Len(list) - 1 /\ list[1] \in S
      /\ \A i \in 1 .. Len(list) - 1 : Tail(list)[i] = list[i + 1]
  BY HeadTailProperties, EmptySeq
<1>2. SortedBy(Tail(list), key)
  <2> SUFFICES ASSUME NEW i \in 1 .. Len(list) - 1, NEW j \in 1 .. Len(list) - 1, i < j
               PROVE  key[Tail(list)[i]] <= key[Tail(list)[j]]
    BY <1>1 DEF SortedBy
  <2>1. i + 1 \in 1 .. Len(list) /\ j + 1 \in 1 .. Len(list) /\ i + 1 < j + 1
    BY <1>1
  <2> QED
    BY <1>1, <2>1 DEF SortedBy
<1>3. \A i \in 1 .. Len(list) : key[list[1]] <= key[list[i]]
  <2> SUFFICES ASSUME NEW i \in 1 .. Len(list) PROVE key[list[1]] <= key[list[i]]
    OBVIOUS
  <2>1. CASE i = 1
    <3>1. key[list[1]] \in Nat
      BY <1>1
    <3> QED
      BY <2>1, <3>1
  <2>2. CASE i # 1
    BY <1>1, <2>2 DEF SortedBy
  <2> QED
    BY <2>1, <2>2
<1> QED
  BY <1>1, <1>2, <1>3 DEF Range

-----------------------------------------------------------------------------
(* Who stands before whom.                                                 *)

Before(list, s, t) ==
  \E i, j \in 1..Len(list) : i < j /\ list[i] = s /\ list[j] = t

\* A removal changes nobody's place relative to the others.
LEMMA DropBefore ==
  ASSUME NEW S, NEW list \in Seq(S), NEW tid, NEW s, NEW t, s # tid, t # tid,
         Before(list, s, t)
  PROVE  Before(Drop(list, tid), s, t)
<1>1. CASE ~Holds(list, tid)
  BY <1>1, DropPlaces
<1>2. CASE Holds(list, tid)
  <2>1. PICK p \in 1..Len(list) :
          list[p] = tid /\ Drop(list, tid) = RemoveAt(list, p)
    BY <1>2, DropPlaces
  <2> DEFINE short == RemoveAt(list, p)
             to(n) == IF n < p THEN n ELSE n - 1
  <2>2. /\ short \in Seq(S) /\ Len(short) = Len(list) - 1
        /\ \A i \in 1..Len(list) - 1 :
             short[i] = IF i < p THEN list[i] ELSE list[i + 1]
    BY RemoveAtPlaces
  <2> HIDE DEF short
  <2>3. PICK i \in 1..Len(list), j \in 1..Len(list) :
          i < j /\ list[i] = s /\ list[j] = t
    BY DEF Before
  <2>4. \A n \in 1..Len(list) :
          n # p => to(n) \in 1..Len(short) /\ short[to(n)] = list[n]
    BY <2>2
  <2>5. i # p /\ j # p
    BY <2>1, <2>3
  <2>6. to(i) < to(j)
    BY <2>3, <2>5
  <2> HIDE DEF to
  <2> QED
    BY <2>1, <2>3, <2>4, <2>5, <2>6 DEF Before, short
<1> QED
  BY <1>1, <1>2

\* Nor does an insertion; in an ordered list tid goes behind its equals.
LEMMA InsertBefore ==
  ASSUME NEW S, NEW list \in Seq(S), NEW tid \in S, NEW key \in [S -> Nat],
         Len(list) # TASK_MAX
  PROVE  /\ \A s, t : Before(list, s, t) => Before(InsertInOrder(list, tid, key), s, t)
         /\ SortedBy(list, key) => \A s \in Range(list) : key[s] = key[tid] =>
              Before(InsertInOrder(list, tid, key), s, tid)
<1> DEFINE p == InsertPos(list, tid, key)
           long == InsertAt(list, p, tid)
           to(n) == IF n < p THEN n ELSE n + 1
<1>1. /\ p \in 1..Len(list) + 1
      /\ p <= Len(list) => key[tid] < key[list[p]]
  BY InsertPosRange
<1> HIDE DEF p
<1>2. /\ long \in Seq(S) /\ Len(long) = Len(list) + 1
      /\ \A i \in 1..Len(list) + 1 : long[i] =
           IF i < p THEN list[i] ELSE IF i = p THEN tid ELSE list[i - 1]
  BY <1>1, InsertAtPlaces
<1>3. InsertInOrder(list, tid, key) = long
  BY DEF InsertInOrder, p
<1> HIDE DEF long
<1>4. \A n \in 1..Len(list) : to(n) \in 1..Len(long) /\ long[to(n)] = list[n]
  <2> SUFFICES ASSUME NEW n \in 1..Len(list)
               PROVE  to(n) \in 1..Len(long) /\ long[to(n)] = list[n]
    OBVIOUS
  <2>1. CASE n < p
    BY <1>1, <1>2, <2>1
  <2>2. CASE ~(n < p)
    <3>1. n + 1 \in 1..Len(list) + 1 /\ ~(n + 1 < p) /\ n + 1 # p /\ (n + 1) - 1 = n
      BY <1>1, <2>2
    <3>2. long[n + 1] = list[n]
      BY <1>2, <3>1
    <3> QED
      BY <1>2, <2>2, <3>1, <3>2
  <2> QED
    BY <2>1, <2>2
<1>5. ASSUME NEW s, NEW t, Before(list, s, t) PROVE Before(long, s, t)
  <2>1. PICK i \in 1..Len(list), j \in 1..Len(list) :
          i < j /\ list[i] = s /\ list[j] = t
    BY <1>5 DEF Before
  <2>2. to(i) < to(j)
    BY <1>1, <2>1
  <2> HIDE DEF to
  <2> QED
    BY <1>4, <2>1, <2>2 DEF Before
<1>6. ASSUME SortedBy(list, key), NEW s \in Range(list), key[s] = key[tid]
      PROVE  Before(long, s, tid)
  <2>1. PICK i \in 1..Len(list) : list[i] = s
    BY <1>6 DEF Range
  <2>2. i < p
    <3> SUFFICES ASSUME ~(i < p) PROVE FALSE
      OBVIOUS
    <3>1. p \in 1..Len(list) /\ (p = i \/ p < i)
      BY <1>1
    <3>2. key[list[p]] <= key[list[i]]
      <4>1. key[list[p]] \in Nat
        BY <3>1
      <4> QED
        BY <1>6, <3>1, <4>1 DEF SortedBy
    <3>3. key[list[p]] \in Nat /\ key[tid] \in Nat
      BY <3>1
    <3> QED
      BY <1>1, <1>6, <2>1, <3>1, <3>2, <3>3
  <2>3. long[i] = s /\ long[p] = tid /\ i \in 1..Len(long) /\ p \in 1..Len(long)
    BY <1>1, <1>2, <2>1, <2>2
  <2> QED
    BY <2>2, <2>3 DEF Before
<1> QED
  BY <1>3, <1>5, <1>6

-----------------------------------------------------------------------------
(* Capacity.                                                               *)

\* A list of distinct elements that misses one of n is shorter than n.
LEMMA Pigeonhole ==
  ASSUME NEW n \in Nat, n > 0, NEW x \in 0..n - 1, NEW list \in Seq(0..n - 1),
         IsInjective(list), x \notin Range(list)
  PROVE  Len(list) < n
<1> DEFINE S == 0..n - 1
<1>1. IsFiniteSet(S) /\ Cardinality(S) = n
  BY FS_Interval
<1>2. /\ IsFiniteSet(1..Len(list))
      /\ Cardinality(1..Len(list)) = Len(list)
  <2>1. Len(list) \in Nat /\ Len(list) \in Int /\ 1 \in Int
    OBVIOUS
  <2>2. /\ IsFiniteSet(1..Len(list))
        /\ Cardinality(1..Len(list)) =
             IF 1 > Len(list) THEN 0 ELSE Len(list) - 1 + 1
    BY <2>1, FS_Interval
  <2> QED
    BY <2>1, <2>2
<1>3. list \in Injection(1..Len(list), S)
  <2>1. list \in [1..Len(list) -> S]
    BY LenProperties
  <2> QED
    BY <2>1 DEF Injection
<1>4. /\ Cardinality(1..Len(list)) <= Cardinality(S)
      /\ Cardinality(1..Len(list)) = Cardinality(S)
           => list \in Surjection(1..Len(list), S)
  BY <1>1, <1>3, FS_Injection
<1>5. list \notin Surjection(1..Len(list), S)
  BY DEF Surjection, Range
<1> QED
  BY <1>1, <1>2, <1>4, <1>5

\* A list of distinct tids that misses one of them has room for it: this is why
\* the code may ignore the Err of insert_in_order.
LEMMA RoomForAbsent ==
  ASSUME NEW tid \in 0..TASK_MAX - 1, NEW list \in Seq(0..TASK_MAX - 1),
         IsInjective(list), tid \notin Range(list)
  PROVE  Len(list) < TASK_MAX
BY Pigeonhole, TaskMaxAssumption

-----------------------------------------------------------------------------
(* Lists in which some tasks may stand more than once.                     *)

\* The tasks in T are not repeated.
Single(list, T) ==
  \A i, j \in 1..Len(list) : list[i] = list[j] /\ list[i] \in T => i = j

\* What a list loses to remove: one place of a task, all of one in T.
LEMMA RemoveSingle ==
  ASSUME NEW S, NEW list \in Seq(S), NEW p \in 1..Len(list), NEW T
  PROVE  /\ RemoveAt(list, p) \in Seq(S)
         /\ Range(RemoveAt(list, p)) \subseteq Range(list)
         /\ Range(list) \ {list[p]} \subseteq Range(RemoveAt(list, p))
         /\ Single(list, T) =>
              /\ Single(RemoveAt(list, p), T)
              /\ list[p] \in T => list[p] \notin Range(RemoveAt(list, p))
<1> DEFINE short == RemoveAt(list, p)
           from(n) == IF n < p THEN n ELSE n + 1
<1>1. /\ short \in Seq(S) /\ Len(short) = Len(list) - 1
      /\ \A i \in 1..Len(list) - 1 :
           short[i] = IF i < p THEN list[i] ELSE list[i + 1]
  BY RemoveAtPlaces
<1> HIDE DEF short
<1>2. DOMAIN short = 1..Len(list) - 1 /\ DOMAIN list = 1..Len(list)
  BY <1>1
<1>3. \A i \in 1..Len(list) - 1 :
        from(i) \in 1..Len(list) /\ from(i) # p /\ short[i] = list[from(i)]
  BY <1>1
<1>4. \A i, j \in 1..Len(list) - 1 : from(i) = from(j) => i = j
  OBVIOUS
<1> HIDE DEF from
<1>5. Range(short) \subseteq Range(list)
  BY <1>2, <1>3 DEF Range
<1>6. Range(list) \ {list[p]} \subseteq Range(short)
  <2> SUFFICES ASSUME NEW i \in 1..Len(list), i # p PROVE list[i] \in Range(short)
    BY <1>2 DEF Range
  <2>1. CASE i < p
    BY <1>1, <1>2, <2>1 DEF Range
  <2>2. CASE i > p
    <3>1. i - 1 \in 1..Len(list) - 1 /\ short[i - 1] = list[i]
      BY <1>1, <2>2
    <3> QED
      BY <1>2, <3>1 DEF Range
  <2> QED
    BY <2>1, <2>2
<1>7. ASSUME Single(list, T)
      PROVE  Single(short, T) /\ (list[p] \in T => list[p] \notin Range(short))
  <2>1. \A i, j \in 1..Len(list) : list[i] = list[j] /\ list[i] \in T => i = j
    BY <1>7 DEF Single
  <2>2. Single(short, T)
    BY <1>1, <1>3, <1>4, <2>1 DEF Single
  <2>3. list[p] \in T => list[p] \notin Range(short)
    BY <1>2, <1>3, <2>1 DEF Range
  <2> QED
    BY <2>2, <2>3
<1> QED
  BY <1>1, <1>5, <1>6, <1>7 DEF short

\* TaskList::remove.
LEMMA DropSingle ==
  ASSUME NEW S, NEW list \in Seq(S), NEW tid, NEW T
  PROVE  /\ Drop(list, tid) \in Seq(S)
         /\ Range(Drop(list, tid)) \subseteq Range(list)
         /\ Range(list) \ {tid} \subseteq Range(Drop(list, tid))
         /\ Single(list, T) =>
              /\ Single(Drop(list, tid), T)
              /\ tid \in T => tid \notin Range(Drop(list, tid))
<1>1. CASE ~Holds(list, tid)
  BY <1>1, DropPlaces DEF Holds
<1>2. CASE Holds(list, tid)
  <2>1. PICK p \in 1..Len(list) :
          list[p] = tid /\ Drop(list, tid) = RemoveAt(list, p)
    BY <1>2, DropPlaces
  <2> QED
    BY <2>1, RemoveSingle
<1> QED
  BY <1>1, <1>2

\* insert_in_order, on a full list as well: what was there stays, and a task in T
\* is not repeated if it was not there.
LEMMA InsertSingle ==
  ASSUME NEW S, NEW list \in Seq(S), NEW tid \in S, NEW key \in [S -> Nat], NEW T
  PROVE  /\ InsertInOrder(list, tid, key) \in Seq(S)
         /\ Range(list) \subseteq Range(InsertInOrder(list, tid, key))
         /\ Range(InsertInOrder(list, tid, key)) \subseteq Range(list) \cup {tid}
         /\ Single(list, T) /\ (tid \notin T \/ tid \notin Range(list)) =>
              Single(InsertInOrder(list, tid, key), T)
<1> DEFINE p == InsertPos(list, tid, key)
           long == InsertAt(list, p, tid)
<1>1. CASE Len(list) = TASK_MAX
  BY <1>1 DEF InsertInOrder
<1>2. SUFFICES ASSUME Len(list) # TASK_MAX
               PROVE  /\ long \in Seq(S) /\ Range(list) \subseteq Range(long)
                      /\ Range(long) \subseteq Range(list) \cup {tid}
                      /\ Single(list, T) /\ (tid \notin T \/ tid \notin Range(list)) =>
                           Single(long, T)
  BY <1>1 DEF InsertInOrder
<1>3. p \in 1..Len(list) + 1
  BY InsertPosRange
<1> HIDE DEF p
<1>4. /\ long \in Seq(S) /\ Len(long) = Len(list) + 1
      /\ \A i \in 1..Len(list) + 1 : long[i] =
           IF i < p THEN list[i] ELSE IF i = p THEN tid ELSE list[i - 1]
  BY <1>3, InsertAtPlaces
<1> HIDE DEF long
<1>5. DOMAIN long = 1..Len(list) + 1 /\ DOMAIN list = 1..Len(list)
  BY <1>4
<1> DEFINE from(n) == IF n < p THEN n ELSE n - 1
<1>6. /\ \A n \in 1..Len(list) + 1 :
           n # p => from(n) \in 1..Len(list) /\ long[n] = list[from(n)]
      /\ long[p] = tid
  BY <1>3, <1>4
<1>7. \A m, n \in 1..Len(list) + 1 :
        m # p /\ n # p /\ from(m) = from(n) => m = n
  BY <1>3
<1>8. Range(list) \subseteq Range(long)
  <2> SUFFICES ASSUME NEW i \in 1..Len(list) PROVE list[i] \in Range(long)
    BY <1>5 DEF Range
  <2>1. CASE i < p
    <3>1. i \in 1..Len(list) + 1 /\ long[i] = list[i]
      BY <1>4, <2>1
    <3> QED
      BY <1>5, <3>1 DEF Range
  <2>2. CASE i >= p
    <3>1. i + 1 \in 1..Len(list) + 1 /\ ~(i + 1 < p) /\ i + 1 # p /\ (i + 1) - 1 = i
      BY <1>3, <2>2
    <3>2. long[i + 1] = list[i]
      BY <1>4, <3>1
    <3> QED
      BY <1>5, <3>1, <3>2 DEF Range
  <2> QED
    BY <1>3, <2>1, <2>2
<1> HIDE DEF from
<1>9. Range(long) \subseteq Range(list) \cup {tid}
  BY <1>5, <1>6 DEF Range
<1>10. ASSUME Single(list, T), tid \notin T \/ tid \notin Range(list)
       PROVE  Single(long, T)
  <2>1. \A i, j \in 1..Len(list) : list[i] = list[j] /\ list[i] \in T => i = j
    BY <1>10 DEF Single
  <2>2. tid \in T => \A i \in 1..Len(list) : list[i] # tid
    BY <1>5, <1>10 DEF Range
  <2> SUFFICES ASSUME NEW i \in 1..Len(list) + 1, NEW j \in 1..Len(list) + 1,
                      long[i] = long[j], long[i] \in T
               PROVE  i = j
    BY <1>4 DEF Single
  <2>3. CASE i = p \/ j = p
    BY <1>6, <2>2, <2>3
  <2>4. CASE i # p /\ j # p
    BY <1>6, <1>7, <2>1, <2>4
  <2> QED
    BY <2>3, <2>4
<1> QED
  BY <1>4, <1>8, <1>9, <1>10

-----------------------------------------------------------------------------
(* What the scheduler finds and leaves.                                    *)

\* What next_tcb finds: the lists match and only the current task is labelled
\* Running.
Switchable(k) ==
  /\ k \in KernelState /\ ListsMatch(k)
  /\ k.current \in Tid /\ ~k.halted
  /\ \A t \in Tid : k.status[t] = "Running" => t = k.current

\* What it leaves: moreover the current task is in READY_LIST, or the list is
\* empty and the kernel has stopped.
Settled(k) ==
  /\ k \in KernelState /\ ListsMatch(k)
  /\ k.current \in Tid
  /\ \A t \in Tid : k.status[t] = "Running" => t = k.current
  /\ IF k.halted THEN k.ready = << >> ELSE Holds(k.ready, k.current)

-----------------------------------------------------------------------------
(* One move between lists.                                                 *)

\* What no move between lists touches; the Running label is not handed out.
Kept(k, r) ==
  /\ r.current = k.current /\ r.sched_ready = k.sched_ready
  /\ r.halted = k.halted /\ r.tid_bitmap = k.tid_bitmap
  /\ \A t \in Tid : r.status[t] = "Running" => k.status[t] = "Running"

\* A task on no list whose tid is taken goes to READY_LIST and is matched there.
LEMMA MakeReadyLemma ==
  ASSUME NEW k \in KernelState, NEW tid \in Tid, tid \in k.tid_bitmap,
         NoRepeats(k), OnNoList(k, tid),
         \A t \in Tid \ {tid} : Matched(k, t)
  PROVE  /\ MakeReady(k, tid) \in KernelState
         /\ ListsMatch(MakeReady(k, tid))
         /\ Range(MakeReady(k, tid).ready) = Range(k.ready) \cup {tid}
         /\ MakeReady(k, tid).status = [k.status EXCEPT ![tid] = "Ready"]
         /\ Kept(k, MakeReady(k, tid))
<1> DEFINE r == MakeReady(k, tid)
           list == InsertInOrder(k.ready, tid, k.priority)
           status == [k.status EXCEPT ![tid] = "Ready"]
<1>1. k.ready \in Seq(Tid) /\ k.priority \in [Tid -> Priorities]
  BY DEF KernelState
<1>2. Len(k.ready) < TASK_MAX
  BY <1>1, RoomForAbsent DEF Tid, NoRepeats, OnNoList, Holds
<1>3. /\ list \in Seq(Tid) /\ IsInjective(list)
      /\ Range(list) = Range(k.ready) \cup {tid}
  <2>1. k.priority \in [Tid -> Nat]
    BY <1>1, KernelAssumption DEF Priorities
  <2>2. tid \notin Range(k.ready) /\ IsInjective(k.ready) /\ Len(k.ready) # TASK_MAX
    BY <1>1, <1>2, TaskMaxAssumption DEF NoRepeats, OnNoList, Holds
  <2> QED
    BY <1>1, <2>1, <2>2, InsertProperties
<1>4. status \in [Tid -> Status]
  BY DEF KernelState, Status
<1>5. r = [k EXCEPT !.status = status, !.ready = list]
  BY DEF MakeReady
<1> HIDE DEF list, status
<1>6. r \in KernelState
  BY <1>3, <1>4, <1>5 DEF KernelState
<1>7. /\ r.status = status /\ r.ready = list
      /\ r.blocked = k.blocked /\ r.sleeping = k.sleeping
      /\ r.tid_bitmap = k.tid_bitmap
  BY <1>5 DEF KernelState
<1>a. Kept(k, r)
  BY <1>5, <1>7 DEF KernelState, Kept, status
<1> HIDE DEF r
<1>8. NoRepeats(r)
  BY <1>3, <1>7 DEF NoRepeats
<1>9. ASSUME NEW t \in Tid PROVE Matched(r, t)
  <2>1. k.status \in [Tid -> Status]
    BY DEF KernelState
  <2>2. CASE t = tid
    BY <1>3, <1>7, <2>1, <2>2 DEF Matched, OnNoList, Holds, status
  <2>3. CASE t # tid
    <3>1. r.status[t] = k.status[t] /\ (t \in Range(r.ready) <=> t \in Range(k.ready))
      BY <1>3, <1>7, <2>1, <2>3 DEF status
    <3> QED
      BY <1>7, <2>3, <3>1 DEF Matched, OnNoList, Holds
  <2> QED
    BY <2>2, <2>3
<1> QED
  BY <1>3, <1>6, <1>7, <1>8, <1>9, <1>a DEF ListsMatch, r, status

-----------------------------------------------------------------------------
(* The scan of SLEEPING_LIST as a sequence of rounds.                      *)

\* The recursive function in WakeUpSleepers exists: round i starts from what
\* round i - 1 left (the while loop of wake_up_sleepers).
LEMMA WakeRounds ==
  ASSUME NEW k, Len(k.sleeping) \in Nat
  PROVE  \E w : /\ w[0] = k
                /\ \A i \in 1..Len(k.sleeping) : w[i] = WakeOne(w[i - 1])
                /\ WakeUpSleepers(k) = w[Len(k.sleeping)]
<1> DEFINE Rounds(w, n) ==
             w = [i \in 0..n |-> IF i = 0 THEN k ELSE WakeOne(w[i - 1])]
           T == {n \in Nat : ~ \E w : Rounds(w, n)}
<1>1. T = {}
  <2> SUFFICES ASSUME T # {} PROVE FALSE
    OBVIOUS
  <2>1. Min(T) \in T /\ \A y \in T : Min(T) <= y
    <3>1. T \in SUBSET Nat
      OBVIOUS
    <3> HIDE DEF T
    <3> QED BY <3>1, MinOfNats
  <2> DEFINE m == Min(T)
  <2>2. m \in Nat /\ (\A w : ~Rounds(w, m)) /\ \A y \in T : m <= y
    BY <2>1
  <2> HIDE DEF m
  <2>3. CASE m = 0
    <3>1. Rounds([i \in 0..0 |-> k], 0)
      OBVIOUS
    <3> QED
      BY <2>2, <2>3, <3>1
  <2>4. CASE m # 0
    <3>1. m - 1 \in Nat /\ m - 1 \notin T
      <4> HIDE DEF T
      <4>1. m - 1 \in Nat /\ ~(m <= m - 1)
        BY <2>2, <2>4
      <4> QED
        BY <2>2, <4>1
    <3>2. PICK w : Rounds(w, m - 1)
      BY <3>1
    <3> DEFINE v == [i \in 0..m |-> IF i = m THEN WakeOne(w[m - 1]) ELSE w[i]]
    <3>3. \A i \in 0..m : v[i] = IF i = 0 THEN k ELSE WakeOne(v[i - 1])
      <4> SUFFICES ASSUME NEW i \in 0..m
                   PROVE  v[i] = IF i = 0 THEN k ELSE WakeOne(v[i - 1])
        OBVIOUS
      <4>1. CASE i = m
        <5>1. v[i] = WakeOne(w[m - 1]) /\ v[m - 1] = w[m - 1]
          BY <2>2, <2>4, <4>1
        <5> QED
          BY <2>4, <4>1, <5>1
      <4>2. CASE i # m
        <5>1. i \in 0..m - 1 /\ v[i] = w[i]
          BY <2>2, <4>2
        <5>2. w[i] = IF i = 0 THEN k ELSE WakeOne(w[i - 1])
          BY <3>2, <5>1
        <5>3. i # 0 => v[i - 1] = w[i - 1]
          BY <2>2, <4>2, <5>1
        <5> QED
          BY <5>1, <5>2, <5>3
      <4> QED
        BY <4>1, <4>2
    <3>4. Rounds(v, m)
      <4> DEFINE u == [i \in 0..m |-> IF i = 0 THEN k ELSE WakeOne(v[i - 1])]
      <4>1. v = u
        BY <3>3
      <4> QED
        BY <4>1
    <3> QED
      BY <2>2, <3>4
  <2> QED
    BY <2>3, <2>4
<1> DEFINE n == Len(k.sleeping)
           w == CHOOSE f : Rounds(f, n)
<1>2. Rounds(w, n)
  <2>1. n \notin T
    BY <1>1
  <2>2. \E f : Rounds(f, n)
    BY <2>1
  <2> QED
    BY <2>2
<1>3. WakeUpSleepers(k) = w[n]
  BY DEF WakeUpSleepers
<1>4. w[0] = k /\ \A i \in 1..n : w[i] = WakeOne(w[i - 1])
  <2> HIDE DEF w
  <2> QED BY <1>2
<1> QED
  <2> HIDE DEF w
  <2> QED BY <1>3, <1>4

\* One round of the scan: the first expired sleeper moves to READY_LIST.
LEMMA WakeOneLemma ==
  ASSUME NEW k \in KernelState, ListsMatch(k)
  PROVE  /\ WakeOne(k) \in KernelState
         /\ ListsMatch(WakeOne(k))
         /\ Kept(k, WakeOne(k))
         /\ Range(k.ready) \subseteq Range(WakeOne(k).ready)
<1> DEFINE T == {j \in 1..Len(k.sleeping) : Due(k, k.sleeping[j])}
<1>1. CASE T = {}
  <2>1. WakeOne(k) = k
    BY <1>1 DEF WakeOne
  <2> QED
    BY <2>1 DEF Kept
<1>2. CASE T # {}
  <2> DEFINE i == Min(T)
             tid == k.sleeping[i]
             rest == RemoveAt(k.sleeping, i)
             wakes == [k.wake_point EXCEPT ![tid] = 0]
             j == [k EXCEPT !.sleeping = rest, !.wake_point = wakes]
  <2>0. k.sleeping \in Seq(Tid) /\ k.wake_point \in [Tid -> Tick]
    BY DEF KernelState
  <2>1. i \in 1..Len(k.sleeping)
    <3>1. T \in SUBSET Nat /\ T \subseteq 1..Len(k.sleeping)
      OBVIOUS
    <3>2. Min(T) \in T
      <4> HIDE DEF T
      <4> QED BY <1>2, <3>1, MinOfNats
    <3> QED
      BY <3>2
  <2>2. WakeOne(k) = MakeReady(j, tid)
    BY <1>2 DEF WakeOne
  <2> HIDE DEF T, i
  <2>3. tid \in Tid /\ tid \in Range(k.sleeping)
    BY <2>0, <2>1 DEF Range
  <2>4. rest = Drop(k.sleeping, tid)
    <3>1. PICK p \in 1..Len(k.sleeping) :
            k.sleeping[p] = tid /\ Drop(k.sleeping, tid) = RemoveAt(k.sleeping, p)
      BY <2>0, <2>3, DropPlaces DEF Holds
    <3>2. p = i
      BY <2>0, <2>1, <3>1 DEF ListsMatch, NoRepeats, IsInjective
    <3> QED
      BY <3>1, <3>2
  <2>5. /\ rest \in Seq(Tid) /\ IsInjective(rest)
        /\ Range(rest) = Range(k.sleeping) \ {tid}
    BY <2>0, <2>4, DropProperties DEF ListsMatch, NoRepeats
  <2>6. wakes \in [Tid -> Tick]
    <3>1. 0 \in Tick
      BY KernelAssumption DEF Tick
    <3> QED
      BY <2>0, <3>1
  <2> HIDE DEF rest, wakes, tid
  <2>7. j \in KernelState
    BY <2>5, <2>6 DEF KernelState
  <2>8. /\ j.sleeping = rest /\ j.ready = k.ready /\ j.blocked = k.blocked
        /\ j.status = k.status /\ j.tid_bitmap = k.tid_bitmap
        /\ Kept(k, j)
    BY DEF KernelState, Kept
  <2> HIDE DEF j
  <2>9. Matched(k, tid)
    BY <2>3 DEF ListsMatch
  <2>10. tid \in k.tid_bitmap /\ ~Holds(k.ready, tid) /\ ~Holds(k.blocked, tid)
    <3>1. k.status[tid] \in Status
      BY <2>3 DEF KernelState
    <3> QED
      BY <2>3, <2>9, <3>1 DEF Matched, OnNoList, Holds, Status
  <2>11. NoRepeats(j) /\ OnNoList(j, tid)
    BY <2>5, <2>8, <2>10 DEF ListsMatch, NoRepeats, OnNoList, Holds
  <2>12. ASSUME NEW t \in Tid \ {tid} PROVE Matched(j, t)
    <3>1. Matched(k, t)
      BY DEF ListsMatch
    <3>2. t \in Range(j.sleeping) <=> t \in Range(k.sleeping)
      BY <2>5, <2>8
    <3> QED
      BY <2>8, <3>1, <3>2 DEF Matched, OnNoList, Holds
  <2>13. /\ MakeReady(j, tid) \in KernelState /\ ListsMatch(MakeReady(j, tid))
         /\ Range(MakeReady(j, tid).ready) = Range(j.ready) \cup {tid}
         /\ Kept(j, MakeReady(j, tid))
    BY <2>3, <2>7, <2>8, <2>10, <2>11, <2>12, MakeReadyLemma
  <2> QED
    BY <2>2, <2>8, <2>13 DEF Kept
<1> QED
  BY <1>1, <1>2

\* The whole scan, by the rounds it is made of.
LEMMA WakeUpSleepersLemma ==
  ASSUME NEW k \in KernelState, ListsMatch(k)
  PROVE  /\ WakeUpSleepers(k) \in KernelState
         /\ ListsMatch(WakeUpSleepers(k))
         /\ Kept(k, WakeUpSleepers(k))
         /\ Range(k.ready) \subseteq Range(WakeUpSleepers(k).ready)
<1> DEFINE n == Len(k.sleeping)
           Good(r) == /\ r \in KernelState /\ ListsMatch(r) /\ Kept(k, r)
                      /\ Range(k.ready) \subseteq Range(r.ready)
<1>1. n \in Nat
  BY DEF KernelState
<1> HIDE DEF n
<1>2. PICK w : /\ w[0] = k /\ \A i \in 1..n : w[i] = WakeOne(w[i - 1])
               /\ WakeUpSleepers(k) = w[n]
  BY <1>1, WakeRounds DEF n
<1> DEFINE T == {i \in 0..n : ~Good(w[i])}
<1>3. T = {}
  <2> SUFFICES ASSUME T # {} PROVE FALSE
    OBVIOUS
  <2> DEFINE m == Min(T)
  <2>1. m \in T /\ \A y \in T : m <= y
    <3>1. T \in SUBSET Nat
      BY <1>1
    <3> HIDE DEF T
    <3> QED BY <3>1, MinOfNats
  <2>2. m \in 0..n /\ ~Good(w[m])
    BY <2>1
  <2>3. Good(w[0])
    BY <1>2 DEF Kept
  <2>4. m # 0
    <3> HIDE DEF Good, m
    <3> QED BY <2>2, <2>3
  <2>5. m \in 1..n /\ m - 1 \in 0..n /\ ~(m <= m - 1)
    <3> HIDE DEF T, m
    <3> QED BY <1>1, <2>2, <2>4
  <2>6. Good(w[m - 1])
    <3>1. m - 1 \notin T
      <4> HIDE DEF T, m
      <4> QED BY <2>1, <2>5
    <3> HIDE DEF Good, m
    <3> QED BY <2>5, <3>1
  <2>7. Good(WakeOne(w[m - 1]))
    <3> DEFINE v == w[m - 1]
    <3> HIDE DEF T, m
    <3>1. v \in KernelState /\ ListsMatch(v) /\ Kept(k, v)
          /\ Range(k.ready) \subseteq Range(v.ready)
      BY <2>6
    <3> HIDE DEF v
    <3>2. Good(WakeOne(v))
      BY <3>1, WakeOneLemma DEF Kept
    <3> QED
      BY <3>2 DEF v
  <2> QED
    <3> HIDE DEF T, m, Good
    <3> QED BY <1>2, <2>2, <2>5, <2>7
<1>4. Good(w[n])
  <2> HIDE DEF Good
  <2> QED BY <1>1, <1>3
<1> QED
  BY <1>2, <1>4

-----------------------------------------------------------------------------
(* next_tcb.                                                               *)

\* The task that was running keeps its place only under another label; a dead
\* or blocked one was on no READY_LIST to begin with.
LEMMA RequeueLemma ==
  ASSUME NEW k, Switchable(k)
  PROVE  /\ RequeueCurrent(k) \in KernelState
         /\ ListsMatch(RequeueCurrent(k))
         /\ Kept(k, RequeueCurrent(k))
         /\ \A t \in Tid : RequeueCurrent(k).status[t] # "Running"
<1> DEFINE cr == k.current
           list == Drop(k.ready, cr)
<1>1. /\ k \in KernelState /\ ListsMatch(k) /\ cr \in Tid
      /\ \A t \in Tid : k.status[t] = "Running" => t = cr
  BY DEF Switchable
<1>2. k.ready \in Seq(Tid) /\ k.status[cr] \in Status /\ Matched(k, cr)
  BY <1>1 DEF KernelState, ListsMatch
<1>3. /\ list \in Seq(Tid) /\ IsInjective(list)
      /\ Range(list) = Range(k.ready) \ {cr}
  BY <1>1, <1>2, DropProperties DEF ListsMatch, NoRepeats
<1>4. CASE k.status[cr] \in {"Terminated", "Blocked"}
  <2>1. list = k.ready
    BY <1>2, <1>4, DropPlaces DEF Matched, OnNoList
  <2>2. RequeueCurrent(k) = [k EXCEPT !.ready = k.ready]
    BY <1>4, <2>1 DEF RequeueCurrent
  <2>3. RequeueCurrent(k) = k
    BY <1>1, <2>2 DEF KernelState
  <2> QED
    BY <1>1, <1>4, <2>3 DEF Kept
<1>5. CASE /\ k.status[cr] \notin {"Terminated", "Blocked"}
           /\ k.time_slice[cr] = 0 \/ k.status[cr] = "Running"
  <2> DEFINE slices == [k.time_slice EXCEPT ![cr] = TIME_SLICE]
             j == [k EXCEPT !.time_slice = slices, !.ready = list]
  <2>1. RequeueCurrent(k) = MakeReady(j, cr)
    BY <1>5 DEF RequeueCurrent
  <2>2. slices \in [Tid -> 0..TIME_SLICE]
    BY <1>1, KernelAssumption DEF KernelState
  <2> HIDE DEF slices, list
  <2>3. j \in KernelState
    BY <1>1, <1>3, <2>2 DEF KernelState
  <2>4. /\ j.ready = list /\ j.sleeping = k.sleeping /\ j.blocked = k.blocked
        /\ j.status = k.status /\ j.tid_bitmap = k.tid_bitmap /\ Kept(k, j)
    BY <1>1 DEF KernelState, Kept
  <2> HIDE DEF j
  <2>5. k.status[cr] \in {"Ready", "Running"}
    BY <1>2, <1>5 DEF Status
  <2>6. cr \in j.tid_bitmap /\ OnNoList(j, cr)
    BY <1>2, <1>3, <2>4, <2>5 DEF Matched, OnNoList, Holds
  <2>7. NoRepeats(j)
    BY <1>1, <1>3, <2>4 DEF ListsMatch, NoRepeats
  <2>8. ASSUME NEW t \in Tid \ {cr} PROVE Matched(j, t)
    <3>1. Matched(k, t)
      BY <1>1 DEF ListsMatch
    <3>2. t \in Range(j.ready) <=> t \in Range(k.ready)
      BY <1>3, <2>4
    <3> QED
      BY <2>4, <3>1, <3>2 DEF Matched, OnNoList, Holds
  <2>9. /\ MakeReady(j, cr) \in KernelState /\ ListsMatch(MakeReady(j, cr))
        /\ MakeReady(j, cr).status = [j.status EXCEPT ![cr] = "Ready"]
        /\ Kept(j, MakeReady(j, cr))
    BY <1>1, <2>3, <2>6, <2>7, <2>8, MakeReadyLemma
  <2>10. ASSUME NEW t \in Tid PROVE MakeReady(j, cr).status[t] # "Running"
    BY <1>1, <2>4, <2>9 DEF KernelState
  <2> QED
    BY <2>1, <2>4, <2>9, <2>10 DEF Kept
<1>6. CASE /\ k.status[cr] \notin {"Terminated", "Blocked"}
           /\ ~(k.time_slice[cr] = 0 \/ k.status[cr] = "Running")
  <2>1. RequeueCurrent(k) = k
    BY <1>6 DEF RequeueCurrent
  <2> QED
    BY <1>1, <1>6, <2>1 DEF Kept
<1> QED
  BY <1>4, <1>5, <1>6

\* The front of READY_LIST becomes the only Running task, or nothing is ready
\* and the kernel stops.
LEMMA DispatchLemma ==
  ASSUME NEW k \in KernelState, ListsMatch(k), k.current \in Tid, ~k.halted,
         \A t \in Tid : k.status[t] # "Running"
  PROVE  /\ Settled(Dispatch(k))
         /\ Dispatch(k).sched_ready = k.sched_ready
         /\ Dispatch(k).tid_bitmap = k.tid_bitmap
<1> DEFINE st == Head(k.ready)
<1>1. CASE k.ready = << >>
  <2> DEFINE r == [k EXCEPT !.halted = TRUE]
  <2>1. Dispatch(k) = r
    BY <1>1 DEF Dispatch
  <2>2. r \in KernelState
    BY DEF KernelState
  <2>3. /\ r.ready = k.ready /\ r.blocked = k.blocked /\ r.sleeping = k.sleeping
        /\ r.status = k.status /\ r.tid_bitmap = k.tid_bitmap
        /\ r.current = k.current /\ r.halted /\ r.sched_ready = k.sched_ready
    BY DEF KernelState
  <2> HIDE DEF r
  <2>4. ListsMatch(r)
    BY <2>3 DEF ListsMatch, NoRepeats, Matched, OnNoList
  <2> QED
    BY <1>1, <2>1, <2>2, <2>3, <2>4 DEF Settled
<1>2. CASE k.ready # << >>
  <2>0. k.ready \in Seq(Tid) /\ k.status \in [Tid -> Status]
    BY DEF KernelState
  <2>1. st \in Tid /\ Holds(k.ready, st)
    <3>1. st = k.ready[1] /\ 1 \in DOMAIN k.ready
      BY <1>2, <2>0, HeadTailProperties
    <3> QED
      BY <2>0, <3>1 DEF Holds, Range
  <2>2. CASE st = k.current
    BY <1>2, <2>1, <2>2 DEF Dispatch, Settled
  <2>3. CASE st # k.current
    <3> DEFINE status == [k.status EXCEPT ![st] = "Running"]
               r == [k EXCEPT !.status = status, !.current = st]
    <3>1. Dispatch(k) = r
      BY <1>2, <2>3 DEF Dispatch
    <3>2. status \in [Tid -> Status]
      BY <2>0 DEF Status
    <3>3. \A t \in Tid : status[t] = IF t = st THEN "Running" ELSE k.status[t]
      BY <2>0
    <3> HIDE DEF status, st
    <3>4. r \in KernelState
      BY <2>1, <3>2 DEF KernelState
    <3>5. /\ r.ready = k.ready /\ r.blocked = k.blocked
          /\ r.sleeping = k.sleeping /\ r.status = status
          /\ r.tid_bitmap = k.tid_bitmap /\ r.current = st
          /\ r.halted = k.halted /\ r.sched_ready = k.sched_ready
      BY DEF KernelState
    <3> HIDE DEF r
    <3>6. k.status[st] \in {"Ready", "Running"}
      BY <2>0, <2>1 DEF ListsMatch, Matched, OnNoList, Status
    <3>7. ASSUME NEW t \in Tid PROVE Matched(r, t)
      <4>1. Matched(k, t)
        BY DEF ListsMatch
      <4>2. CASE t = st
        BY <3>3, <3>5, <3>6, <4>1, <4>2 DEF Matched, OnNoList
      <4>3. CASE t # st
        BY <3>3, <3>5, <4>1, <4>3 DEF Matched, OnNoList
      <4> QED
        BY <4>2, <4>3
    <3>8. ListsMatch(r)
      BY <3>5, <3>7 DEF ListsMatch, NoRepeats
    <3> QED
      BY <2>1, <3>1, <3>3, <3>4, <3>5, <3>8 DEF Settled
  <2> QED
    BY <2>2, <2>3
<1> QED
  BY <1>1, <1>2

\* next_tcb settles whatever a critical section left behind.
LEMMA NextTcbLemma ==
  ASSUME NEW k, Switchable(k)
  PROVE  /\ Settled(NextTcb(k))
         /\ NextTcb(k).sched_ready = k.sched_ready
         /\ NextTcb(k).tid_bitmap = k.tid_bitmap
<1> DEFINE a == WakeUpSleepers(k)
           b == RequeueCurrent(a)
<1>1. a \in KernelState /\ ListsMatch(a) /\ Kept(k, a)
  BY WakeUpSleepersLemma DEF Switchable
<1>2. Switchable(a)
  BY <1>1 DEF Switchable, Kept
<1> HIDE DEF a
<1>3. /\ b \in KernelState /\ ListsMatch(b) /\ Kept(a, b)
      /\ \A t \in Tid : b.status[t] # "Running"
  BY <1>2, RequeueLemma
<1> HIDE DEF b
<1>4. b.current \in Tid /\ ~b.halted
  BY <1>2, <1>3 DEF Switchable, Kept
<1>5. /\ Settled(Dispatch(b))
      /\ Dispatch(b).sched_ready = b.sched_ready
      /\ Dispatch(b).tid_bitmap = b.tid_bitmap
  BY <1>3, <1>4, DispatchLemma
<1>6. NextTcb(k) = Dispatch(b)
  BY DEF NextTcb, a, b
<1> QED
  BY <1>1, <1>3, <1>5, <1>6 DEF Kept

-----------------------------------------------------------------------------
(* The operations of task.rs.                                              *)

\* What a critical section makes of the lists when it takes a task off the hart
\* and parks it: tid is on no list for a moment.
Adrift(k, tid) ==
  /\ k \in KernelState /\ NoRepeats(k) /\ OnNoList(k, tid)
  /\ \A t \in Tid \ {tid} : Matched(k, t)

\* The tids that are free when a task is created.
LEMMA LowestFreeLemma ==
  ASSUME NEW k \in KernelState, FreeTids(k) # {}
  PROVE  LowestFree(k) \in Tid \ k.tid_bitmap
<1>1. FreeTids(k) \in SUBSET Nat
  BY DEF FreeTids, Tid
<1>2. LowestFree(k) \in FreeTids(k)
  BY <1>1, MinOfNats DEF LowestFree
<1> QED
  BY <1>2 DEF FreeTids

\* alloc_tid and the fields create writes give a task that MakeReady can place.
LEMMA NewTaskLemma ==
  ASSUME NEW k \in KernelState, ListsMatch(k), FreeTids(k) # {},
         NEW pri \in Priorities
  PROVE  /\ NewTask(k, pri) \in KernelState
         /\ ListsMatch(NewTask(k, pri))
         /\ Range(NewTask(k, pri).ready) = Range(k.ready) \cup {LowestFree(k)}
         /\ NewTask(k, pri).current = k.current
         /\ NewTask(k, pri).halted = k.halted
         /\ NewTask(k, pri).sched_ready = k.sched_ready
         /\ NewTask(k, pri).tid_bitmap = k.tid_bitmap \cup {LowestFree(k)}
         /\ \A t \in Tid : NewTask(k, pri).status[t] = "Running"
                            => k.status[t] = "Running"
<1> DEFINE tid == LowestFree(k)
           status == [k.status EXCEPT ![tid] = "Terminated"]
           priority == [[k.priority EXCEPT ![tid] = PRI_MIN] EXCEPT ![tid] = pri]
           sub == [k.sub_priority EXCEPT ![tid] = PRI_INV]
           slices == [k.time_slice EXCEPT ![tid] = TIME_SLICE]
           wakes == [k.wake_point EXCEPT ![tid] = 0]
           taken == k.tid_bitmap \cup {tid}
           j == [k EXCEPT !.tid_bitmap = taken, !.status = status,
                          !.priority = priority, !.sub_priority = sub,
                          !.time_slice = slices, !.wake_point = wakes]
<1>1. tid \in Tid /\ tid \notin k.tid_bitmap
  BY LowestFreeLemma
<1>2. NewTask(k, pri) = MakeReady(j, tid)
  <2>1. [AllocTid(k) EXCEPT !.priority[tid] = pri] = j
    BY DEF AllocTid, KernelState
  <2> QED
    BY <2>1 DEF NewTask
<1>3. /\ k.status \in [Tid -> Status] /\ k.priority \in [Tid -> Priorities]
      /\ k.sub_priority \in [Tid -> Priorities \cup {PRI_INV}]
      /\ k.time_slice \in [Tid -> 0..TIME_SLICE]
      /\ k.wake_point \in [Tid -> Tick] /\ k.tid_bitmap \subseteq Tid
  BY DEF KernelState
<1> HIDE DEF tid
<1>4. /\ "Terminated" \in Status /\ PRI_MIN \in Priorities /\ 0 \in Tick
      /\ TIME_SLICE \in 0..TIME_SLICE
  BY KernelAssumption DEF Status, Priorities, Tick
<1>5. /\ status \in [Tid -> Status] /\ priority \in [Tid -> Priorities]
      /\ sub \in [Tid -> Priorities \cup {PRI_INV}]
      /\ slices \in [Tid -> 0..TIME_SLICE] /\ wakes \in [Tid -> Tick]
      /\ taken \in SUBSET Tid
  BY <1>1, <1>3, <1>4
<1>6. \A t \in Tid : status[t] = IF t = tid THEN "Terminated" ELSE k.status[t]
  BY <1>3
<1> HIDE DEF status, priority, sub, slices, wakes
<1>7. j \in KernelState
  BY <1>5 DEF KernelState
<1>8. /\ j.ready = k.ready /\ j.blocked = k.blocked /\ j.sleeping = k.sleeping
      /\ j.status = status /\ j.tid_bitmap = taken /\ j.current = k.current
      /\ j.halted = k.halted /\ j.sched_ready = k.sched_ready
  BY DEF KernelState
<1> HIDE DEF j
<1>9. NoRepeats(j) /\ OnNoList(j, tid)
  BY <1>1, <1>8 DEF ListsMatch, NoRepeats, Matched, OnNoList
<1>10. ASSUME NEW t \in Tid \ {tid} PROVE Matched(j, t)
  <2>1. Matched(k, t)
    BY DEF ListsMatch
  <2> QED
    BY <1>6, <1>8, <2>1 DEF Matched, OnNoList
<1>11. /\ MakeReady(j, tid) \in KernelState /\ ListsMatch(MakeReady(j, tid))
       /\ Range(MakeReady(j, tid).ready) = Range(j.ready) \cup {tid}
       /\ Kept(j, MakeReady(j, tid))
  BY <1>1, <1>7, <1>8, <1>9, <1>10, MakeReadyLemma
<1>12. ASSUME NEW t \in Tid, MakeReady(j, tid).status[t] = "Running"
       PROVE  k.status[t] = "Running"
  BY <1>6, <1>8, <1>11, <1>12 DEF Kept
<1> QED
  BY <1>2, <1>8, <1>11, <1>12 DEF Kept, tid

\* Status Blocked and off READY_LIST, before the caller parks the task.
LEMMA TakeOffLemma ==
  ASSUME NEW k, Switchable(k), NEW tid \in Tid,
         k.status[tid] \in {"Ready", "Running"}
  PROVE  /\ Adrift(TakeOff(k, tid), tid)
         /\ Kept(k, TakeOff(k, tid))
         /\ TakeOff(k, tid).status[tid] = "Blocked"
         /\ tid \in k.tid_bitmap
<1> DEFINE status == [k.status EXCEPT ![tid] = "Blocked"]
           list == Drop(k.ready, tid)
           r == [k EXCEPT !.status = status, !.ready = list]
<1>1. k \in KernelState /\ ListsMatch(k) /\ Matched(k, tid)
  BY DEF Switchable, ListsMatch
<1>2. k.ready \in Seq(Tid) /\ k.status \in [Tid -> Status]
  BY <1>1 DEF KernelState
<1>3. /\ list \in Seq(Tid) /\ IsInjective(list)
      /\ Range(list) = Range(k.ready) \ {tid}
  BY <1>1, <1>2, DropProperties DEF ListsMatch, NoRepeats
<1>4. /\ status \in [Tid -> Status]
      /\ \A t \in Tid : status[t] = IF t = tid THEN "Blocked" ELSE k.status[t]
  BY <1>2 DEF Status
<1>5. TakeOff(k, tid) = r
  BY DEF TakeOff
<1> HIDE DEF status, list
<1>6. r \in KernelState
  BY <1>1, <1>3, <1>4 DEF KernelState
<1>7. /\ r.ready = list /\ r.blocked = k.blocked /\ r.sleeping = k.sleeping
      /\ r.status = status /\ r.tid_bitmap = k.tid_bitmap
      /\ r.current = k.current /\ r.halted = k.halted
      /\ r.sched_ready = k.sched_ready
  BY <1>1 DEF KernelState
<1> HIDE DEF r
<1>8. NoRepeats(r) /\ OnNoList(r, tid) /\ tid \in k.tid_bitmap
  BY <1>1, <1>3, <1>7 DEF ListsMatch, NoRepeats, OnNoList, Matched, Holds
<1>9. ASSUME NEW t \in Tid \ {tid} PROVE Matched(r, t)
  <2>1. Matched(k, t)
    BY <1>1 DEF ListsMatch
  <2>2. t \in Range(list) <=> t \in Range(k.ready)
    BY <1>3
  <2> QED
    BY <1>4, <1>7, <2>1, <2>2 DEF Matched, OnNoList, Holds
<1>10. Kept(k, r)
  BY <1>4, <1>7 DEF Kept
<1> QED
  BY <1>4, <1>5, <1>6, <1>7, <1>8, <1>9, <1>10 DEF Adrift

\* A Settled kernel that has not stopped can go through next_tcb.
LEMMA SettledIsSwitchable ==
  ASSUME NEW k, Settled(k), ~k.halted
  PROVE  Switchable(k) /\ Holds(k.ready, k.current)
BY DEF Settled, Switchable

\* Task::block.
LEMMA BlockLemma ==
  ASSUME NEW k, Settled(k), ~k.halted, NEW tid \in Tid,
         k.status[tid] \in {"Ready", "Running"}
  PROVE  /\ Settled(BlockTask(k, tid))
         /\ BlockTask(k, tid).sched_ready = k.sched_ready
         /\ BlockTask(k, tid).tid_bitmap = k.tid_bitmap
<1> DEFINE j == TakeOff(k, tid)
           list == PushBack(j.blocked, tid)
           r == [j EXCEPT !.blocked = list]
<1>1. Switchable(k)
  BY SettledIsSwitchable
<1>2. /\ Adrift(j, tid) /\ Kept(k, j) /\ j.status[tid] = "Blocked"
      /\ tid \in k.tid_bitmap
  BY <1>1, TakeOffLemma
<1> HIDE DEF j
<1>3. j.blocked \in Seq(Tid) /\ IsInjective(j.blocked) /\ tid \notin Range(j.blocked)
  BY <1>2 DEF Adrift, KernelState, NoRepeats, OnNoList, Holds
<1>4. Len(j.blocked) < TASK_MAX
  BY <1>3, RoomForAbsent DEF Tid
<1>5. /\ list \in Seq(Tid) /\ IsInjective(list)
      /\ Range(list) = Range(j.blocked) \cup {tid}
  BY <1>3, <1>4, PushBackProperties, TaskMaxAssumption
<1> HIDE DEF list
<1>6. r \in KernelState
  BY <1>2, <1>5 DEF Adrift, KernelState
<1>7. /\ r.ready = j.ready /\ r.blocked = list /\ r.sleeping = j.sleeping
      /\ r.status = j.status /\ r.tid_bitmap = j.tid_bitmap /\ Kept(j, r)
  BY <1>2 DEF Adrift, KernelState, Kept
<1>8. BlockTask(k, tid) = NextTcb(r)
  BY DEF BlockTask, j, list
<1> HIDE DEF r
<1>9. NoRepeats(r)
  BY <1>2, <1>5, <1>7 DEF Adrift, NoRepeats
<1>10. Matched(r, tid)
  BY <1>2, <1>5, <1>7 DEF Matched, Adrift, OnNoList, Holds, Kept
<1>11. ASSUME NEW t \in Tid \ {tid} PROVE Matched(r, t)
  <2>1. Matched(j, t) /\ (t \in Range(list) <=> t \in Range(j.blocked))
    BY <1>2, <1>5 DEF Adrift
  <2> QED
    BY <1>7, <2>1 DEF Matched, OnNoList, Holds
<1>12. Switchable(r)
  BY <1>1, <1>2, <1>6, <1>7, <1>9, <1>10, <1>11 DEF Switchable, Kept, ListsMatch
<1> QED
  BY <1>2, <1>7, <1>8, <1>12, NextTcbLemma DEF Kept

\* Task::delay.
LEMMA DelayLemma ==
  ASSUME NEW k, Settled(k), ~k.halted, NEW ticks \in Nat
  PROVE  /\ Settled(DelayCurrent(k, ticks))
         /\ DelayCurrent(k, ticks).sched_ready = k.sched_ready
         /\ DelayCurrent(k, ticks).tid_bitmap = k.tid_bitmap
<1> DEFINE tid == k.current
           j == TakeOff(k, tid)
           wake == WakeTime(k, ticks)
           wakes == [j.wake_point EXCEPT ![tid] = wake]
           list == InsertInOrder(j.sleeping, tid, wakes)
           r == [j EXCEPT !.wake_point = wakes, !.sleeping = list]
<1>1. /\ Switchable(k) /\ Holds(k.ready, tid) /\ tid \in Tid
      /\ k \in KernelState /\ Matched(k, tid)
  BY SettledIsSwitchable DEF Settled, ListsMatch
<1>2. k.status[tid] \in {"Ready", "Running"}
  <2>1. k.status[tid] \in Status
    BY <1>1 DEF KernelState
  <2> QED
    BY <1>1, <2>1 DEF Matched, OnNoList, Status
<1>3. wake \in Tick
  BY <1>1, KernelAssumption DEF WakeTime, KernelState, Tick
<1>4. /\ Adrift(j, tid) /\ Kept(k, j) /\ j.status[tid] = "Blocked"
      /\ tid \in k.tid_bitmap
  BY <1>1, <1>2, TakeOffLemma
<1>5. DelayCurrent(k, ticks) = NextTcb(r)
  BY DEF DelayCurrent, SleepUntil
<1> HIDE DEF j, tid, wake
<1>6. /\ j.sleeping \in Seq(Tid) /\ IsInjective(j.sleeping)
      /\ tid \notin Range(j.sleeping) /\ j.wake_point \in [Tid -> Tick]
  BY <1>4 DEF Adrift, KernelState, NoRepeats, OnNoList, Holds
<1>7. wakes \in [Tid -> Tick]
  BY <1>1, <1>3, <1>6
<1> HIDE DEF wakes
<1>8. Len(j.sleeping) < TASK_MAX
  BY <1>1, <1>6, RoomForAbsent DEF Tid
<1>9. /\ list \in Seq(Tid) /\ IsInjective(list)
      /\ Range(list) = Range(j.sleeping) \cup {tid}
  <2>1. wakes \in [Tid -> Nat]
    BY <1>7, KernelAssumption DEF Tick
  <2> QED
    BY <1>1, <1>6, <1>8, <2>1, InsertProperties, TaskMaxAssumption
<1> HIDE DEF list
<1>10. r \in KernelState
  BY <1>4, <1>7, <1>9 DEF Adrift, KernelState
<1>11. /\ r.ready = j.ready /\ r.blocked = j.blocked /\ r.sleeping = list
       /\ r.status = j.status /\ r.tid_bitmap = j.tid_bitmap /\ Kept(j, r)
  BY <1>4 DEF Adrift, KernelState, Kept
<1> HIDE DEF r
<1>12. NoRepeats(r)
  BY <1>4, <1>9, <1>11 DEF Adrift, NoRepeats
<1>13. Matched(r, tid)
  BY <1>4, <1>9, <1>11 DEF Matched, Adrift, OnNoList, Holds, Kept
<1>14. ASSUME NEW t \in Tid \ {tid} PROVE Matched(r, t)
  <2>1. Matched(j, t) /\ (t \in Range(list) <=> t \in Range(j.sleeping))
    BY <1>4, <1>9 DEF Adrift
  <2> QED
    BY <1>11, <2>1 DEF Matched, OnNoList, Holds
<1>15. Switchable(r)
  BY <1>1, <1>4, <1>10, <1>11, <1>12, <1>13, <1>14 DEF Switchable, Kept, ListsMatch
<1> QED
  BY <1>4, <1>5, <1>11, <1>15, NextTcbLemma DEF Kept

\* A task taken off every list and freed leaves matching lists.
LEMMA FreeLemma ==
  ASSUME NEW k, Switchable(k), NEW tid \in Tid, NEW j,
         Adrift(j, tid), Kept(k, j), j.status = k.status
  PROVE  /\ Switchable(FreeTid(j, tid))
         /\ FreeTid(j, tid).sched_ready = k.sched_ready
         /\ FreeTid(j, tid).tid_bitmap = k.tid_bitmap \ {tid}
<1> DEFINE status == [j.status EXCEPT ![tid] = "Terminated"]
           taken == j.tid_bitmap \ {tid}
           r == [j EXCEPT !.tid_bitmap = taken, !.status = status]
<1>1. j.status \in [Tid -> Status] /\ j.tid_bitmap \subseteq Tid
  BY DEF Adrift, KernelState
<1>2. /\ status \in [Tid -> Status]
      /\ \A t \in Tid : status[t] = IF t = tid THEN "Terminated" ELSE j.status[t]
  BY <1>1 DEF Status
<1>3. FreeTid(j, tid) = r
  BY DEF FreeTid
<1> HIDE DEF status
<1>4. r \in KernelState
  BY <1>1, <1>2 DEF Adrift, KernelState
<1>5. /\ r.ready = j.ready /\ r.blocked = j.blocked /\ r.sleeping = j.sleeping
      /\ r.status = status /\ r.tid_bitmap = taken /\ r.current = j.current
      /\ r.halted = j.halted /\ r.sched_ready = j.sched_ready
  BY DEF Adrift, KernelState
<1> HIDE DEF r
<1>6. ASSUME NEW t \in Tid PROVE Matched(r, t)
  <2>1. CASE t = tid
    BY <1>2, <1>5, <2>1 DEF Matched, Adrift, OnNoList
  <2>2. CASE t # tid
    <3>1. Matched(j, t)
      BY <2>2 DEF Adrift
    <3> QED
      BY <1>2, <1>5, <2>2, <3>1 DEF Matched, OnNoList
  <2> QED
    BY <2>1, <2>2
<1>7. ListsMatch(r)
  BY <1>5, <1>6 DEF Adrift, ListsMatch, NoRepeats
<1> QED
  BY <1>2, <1>3, <1>4, <1>5, <1>7 DEF Switchable, Kept

\* Task::exit_current.
LEMMA ExitLemma ==
  ASSUME NEW k, Settled(k), ~k.halted
  PROVE  /\ Settled(ExitCurrent(k))
         /\ ExitCurrent(k).sched_ready = k.sched_ready
         /\ ExitCurrent(k).tid_bitmap = k.tid_bitmap \ {k.current}
<1> DEFINE tid == k.current
           list == Drop(k.ready, tid)
           j == [k EXCEPT !.ready = list]
<1>1. /\ Switchable(k) /\ Holds(k.ready, tid) /\ tid \in Tid
      /\ k \in KernelState /\ ListsMatch(k) /\ k.ready \in Seq(Tid)
  BY SettledIsSwitchable DEF Settled, KernelState
<1>2. /\ list \in Seq(Tid) /\ IsInjective(list)
      /\ Range(list) = Range(k.ready) \ {tid}
  BY <1>1, DropProperties DEF ListsMatch, NoRepeats
<1>3. ExitCurrent(k) = NextTcb(FreeTid(j, tid))
  BY DEF ExitCurrent
<1> HIDE DEF list
<1>4. j \in KernelState
  BY <1>1, <1>2 DEF KernelState
<1>5. /\ j.ready = list /\ j.blocked = k.blocked /\ j.sleeping = k.sleeping
      /\ j.status = k.status /\ j.tid_bitmap = k.tid_bitmap /\ Kept(k, j)
  BY <1>1 DEF KernelState, Kept
<1> HIDE DEF j
<1>6. NoRepeats(j)
  BY <1>1, <1>2, <1>5 DEF ListsMatch, NoRepeats
<1>7. OnNoList(j, tid)
  <2>1. Matched(k, tid) /\ k.status[tid] \in Status
    BY <1>1 DEF ListsMatch, KernelState
  <2> QED
    BY <1>1, <1>2, <1>5, <2>1 DEF Matched, OnNoList, Holds, Status
<1>8. ASSUME NEW t \in Tid \ {tid} PROVE Matched(j, t)
  <2>1. Matched(k, t) /\ (t \in Range(list) <=> t \in Range(k.ready))
    BY <1>1, <1>2 DEF ListsMatch
  <2> QED
    BY <1>5, <2>1 DEF Matched, OnNoList, Holds
<1>9. /\ Switchable(FreeTid(j, tid))
      /\ FreeTid(j, tid).sched_ready = k.sched_ready
      /\ FreeTid(j, tid).tid_bitmap = k.tid_bitmap \ {tid}
  BY <1>1, <1>4, <1>5, <1>6, <1>7, <1>8, FreeLemma DEF Adrift
<1> QED
  BY <1>3, <1>9, NextTcbLemma

\* Task::terminate, of any live task.
LEMMA TerminateLemma ==
  ASSUME NEW k, Settled(k), ~k.halted, NEW tid \in Tid
  PROVE  /\ Settled(TerminateTask(k, tid))
         /\ TerminateTask(k, tid).sched_ready = k.sched_ready
         /\ TerminateTask(k, tid).tid_bitmap = k.tid_bitmap \ {tid}
<1> DEFINE ready == Drop(k.ready, tid)
           sleeping == Drop(k.sleeping, tid)
           blocked == Drop(k.blocked, tid)
           j == [k EXCEPT !.ready = ready, !.sleeping = sleeping,
                          !.blocked = blocked]
<1>1. /\ Switchable(k) /\ k \in KernelState /\ ListsMatch(k)
      /\ k.ready \in Seq(Tid) /\ k.sleeping \in Seq(Tid) /\ k.blocked \in Seq(Tid)
  BY SettledIsSwitchable DEF Settled, KernelState
<1>2. /\ ready \in Seq(Tid) /\ IsInjective(ready)
      /\ Range(ready) = Range(k.ready) \ {tid}
  BY <1>1, DropProperties DEF ListsMatch, NoRepeats
<1>3. /\ sleeping \in Seq(Tid) /\ IsInjective(sleeping)
      /\ Range(sleeping) = Range(k.sleeping) \ {tid}
  BY <1>1, DropProperties DEF ListsMatch, NoRepeats
<1>4. /\ blocked \in Seq(Tid) /\ IsInjective(blocked)
      /\ Range(blocked) = Range(k.blocked) \ {tid}
  BY <1>1, DropProperties DEF ListsMatch, NoRepeats
<1>5. TerminateTask(k, tid) = NextTcb(FreeTid(j, tid))
  BY DEF TerminateTask
<1> HIDE DEF ready, sleeping, blocked
<1>6. j \in KernelState
  BY <1>1, <1>2, <1>3, <1>4 DEF KernelState
<1>7. /\ j.ready = ready /\ j.blocked = blocked /\ j.sleeping = sleeping
      /\ j.status = k.status /\ j.tid_bitmap = k.tid_bitmap /\ Kept(k, j)
  BY <1>1 DEF KernelState, Kept
<1> HIDE DEF j
<1>8. NoRepeats(j) /\ OnNoList(j, tid)
  BY <1>2, <1>3, <1>4, <1>7 DEF NoRepeats, OnNoList, Holds
<1>9. ASSUME NEW t \in Tid \ {tid} PROVE Matched(j, t)
  <2>1. /\ Matched(k, t)
        /\ t \in Range(ready) <=> t \in Range(k.ready)
        /\ t \in Range(sleeping) <=> t \in Range(k.sleeping)
        /\ t \in Range(blocked) <=> t \in Range(k.blocked)
    BY <1>1, <1>2, <1>3, <1>4 DEF ListsMatch
  <2> QED
    BY <1>7, <2>1 DEF Matched, OnNoList, Holds
<1>10. /\ Switchable(FreeTid(j, tid))
       /\ FreeTid(j, tid).sched_ready = k.sched_ready
       /\ FreeTid(j, tid).tid_bitmap = k.tid_bitmap \ {tid}
  BY <1>1, <1>6, <1>7, <1>8, <1>9, FreeLemma DEF Adrift
<1> QED
  BY <1>5, <1>10, NextTcbLemma

\* The yield that create and resume make only for a more urgent task.
LEMMA YieldIfOutrankedLemma ==
  ASSUME NEW k, Settled(k), ~k.halted, NEW tid
  PROVE  /\ Settled(YieldIfOutranked(k, tid))
         /\ YieldIfOutranked(k, tid).sched_ready = k.sched_ready
         /\ YieldIfOutranked(k, tid).tid_bitmap = k.tid_bitmap
BY SettledIsSwitchable, NextTcbLemma DEF YieldIfOutranked

\* Task::create_raw, and Task::create up to its yield.
LEMMA CreateRawLemma ==
  ASSUME NEW k, Settled(k), ~k.halted, FreeTids(k) # {}, NEW pri \in Priorities
  PROVE  /\ Settled(NewTask(k, pri)) /\ ~NewTask(k, pri).halted
         /\ NewTask(k, pri).sched_ready = k.sched_ready
         /\ k.tid_bitmap \subseteq NewTask(k, pri).tid_bitmap
<1> DEFINE r == NewTask(k, pri)
<1>1. /\ r \in KernelState /\ ListsMatch(r)
      /\ Range(r.ready) = Range(k.ready) \cup {LowestFree(k)}
      /\ r.current = k.current /\ r.halted = k.halted
      /\ r.sched_ready = k.sched_ready
      /\ r.tid_bitmap = k.tid_bitmap \cup {LowestFree(k)}
      /\ \A t \in Tid : r.status[t] = "Running" => k.status[t] = "Running"
  BY NewTaskLemma DEF Settled
<1> HIDE DEF r
<1>2. Settled(r) /\ ~r.halted
  BY <1>1 DEF Settled, Holds
<1> QED
  BY <1>1, <1>2 DEF r

\* Task::create once the scheduler runs.
LEMMA CreateLemma ==
  ASSUME NEW k, Settled(k), ~k.halted, k.sched_ready, FreeTids(k) # {},
         NEW pri \in Priorities
  PROVE  /\ Settled(CreateTask(k, pri))
         /\ CreateTask(k, pri).sched_ready = k.sched_ready
         /\ k.tid_bitmap \subseteq CreateTask(k, pri).tid_bitmap
<1> DEFINE r == NewTask(k, pri)
<1>1. /\ Settled(r) /\ ~r.halted /\ r.sched_ready = k.sched_ready
      /\ k.tid_bitmap \subseteq r.tid_bitmap
  BY CreateRawLemma
<1>2. CreateTask(k, pri) = YieldIfOutranked(r, LowestFree(k))
  BY DEF CreateTask
<1> HIDE DEF r
<1> QED
  BY <1>1, <1>2, YieldIfOutrankedLemma

\* Task::resume of a task that block parked.
LEMMA ResumeLemma ==
  ASSUME NEW k, Settled(k), ~k.halted, NEW tid \in Tid,
         k.status[tid] = "Blocked", Holds(k.blocked, tid)
  PROVE  /\ Settled(ResumeTask(k, tid))
         /\ ResumeTask(k, tid).sched_ready = k.sched_ready
         /\ ResumeTask(k, tid).tid_bitmap = k.tid_bitmap
<1> DEFINE list == Drop(k.blocked, tid)
           j == [k EXCEPT !.blocked = list]
           r == MakeReady(j, tid)
<1>1. /\ k \in KernelState /\ ListsMatch(k) /\ k.blocked \in Seq(Tid)
      /\ Matched(k, tid)
  BY DEF Settled, KernelState, ListsMatch
<1>2. /\ list \in Seq(Tid) /\ IsInjective(list)
      /\ Range(list) = Range(k.blocked) \ {tid}
  BY <1>1, DropProperties DEF ListsMatch, NoRepeats
<1>3. ResumeTask(k, tid) = YieldIfOutranked(r, tid)
  BY DEF ResumeTask
<1> HIDE DEF list
<1>4. j \in KernelState
  BY <1>1, <1>2 DEF KernelState
<1>5. /\ j.ready = k.ready /\ j.blocked = list /\ j.sleeping = k.sleeping
      /\ j.status = k.status /\ j.tid_bitmap = k.tid_bitmap /\ Kept(k, j)
  BY <1>1 DEF KernelState, Kept
<1> HIDE DEF j
<1>6. NoRepeats(j) /\ OnNoList(j, tid) /\ tid \in j.tid_bitmap
  BY <1>1, <1>2, <1>5 DEF ListsMatch, NoRepeats, OnNoList, Matched, Holds
<1>7. ASSUME NEW t \in Tid \ {tid} PROVE Matched(j, t)
  <2>1. Matched(k, t) /\ (t \in Range(list) <=> t \in Range(k.blocked))
    BY <1>1, <1>2 DEF ListsMatch
  <2> QED
    BY <1>5, <2>1 DEF Matched, OnNoList, Holds
<1>8. /\ r \in KernelState /\ ListsMatch(r) /\ Kept(j, r)
      /\ Range(r.ready) = Range(j.ready) \cup {tid}
  BY <1>4, <1>6, <1>7, MakeReadyLemma
<1> HIDE DEF r
<1>9. Settled(r) /\ ~r.halted
  BY <1>5, <1>8 DEF Settled, Kept, Holds
<1> QED
  BY <1>3, <1>5, <1>8, <1>9, YieldIfOutrankedLemma DEF Kept

\* The timer trap, whatever the number of ticks it catches up with.
LEMMA TickLemma ==
  ASSUME NEW k, Settled(k), ~k.halted, NEW n \in Nat
  PROVE  /\ Settled(TickTrap(k, n))
         /\ TickTrap(k, n).sched_ready = k.sched_ready
         /\ TickTrap(k, n).tid_bitmap = k.tid_bitmap
<1> DEFINE cr == k.current
           left == IF k.time_slice[cr] > n THEN k.time_slice[cr] - n ELSE 0
           slices == [k.time_slice EXCEPT ![cr] = left]
           now == (k.os_ticks + n) % TickMod
           r == [k EXCEPT !.os_ticks = now, !.time_slice = slices]
<1>1. /\ k \in KernelState /\ ListsMatch(k) /\ cr \in Tid
      /\ k.time_slice \in [Tid -> 0..TIME_SLICE] /\ k.os_ticks \in Tick
  BY DEF Settled, KernelState
<1>2. left \in 0..TIME_SLICE
  <2>1. k.time_slice[cr] \in 0..TIME_SLICE
    BY <1>1
  <2> QED
    BY <2>1, KernelAssumption
<1>3. now \in Tick
  BY <1>1, KernelAssumption DEF Tick
<1>4. slices \in [Tid -> 0..TIME_SLICE]
  <2> HIDE DEF left, cr
  <2> QED BY <1>1, <1>2
<1>5. AdvanceTicks(k, n) = r
  BY <1>1 DEF AdvanceTicks, KernelState
<1> HIDE DEF slices, now
<1>6. r \in KernelState
  BY <1>1, <1>3, <1>4 DEF KernelState
<1>7. /\ r.ready = k.ready /\ r.blocked = k.blocked /\ r.sleeping = k.sleeping
      /\ r.status = k.status /\ r.tid_bitmap = k.tid_bitmap
      /\ r.current = k.current /\ r.halted = k.halted
      /\ r.sched_ready = k.sched_ready
  BY <1>1 DEF KernelState
<1>8. TickTrap(k, n) = IF TickWantsSwitch(r) THEN NextTcb(r) ELSE r
  BY <1>5 DEF TickTrap
<1> HIDE DEF r
<1>9. ListsMatch(r)
  BY <1>1, <1>7 DEF ListsMatch, NoRepeats, Matched, OnNoList
<1>10. Settled(r) /\ ~r.halted
  BY <1>6, <1>7, <1>9 DEF Settled
<1> QED
  BY <1>7, <1>8, <1>10, SettledIsSwitchable, NextTcbLemma

-----------------------------------------------------------------------------
(* Where a task that waits in a queue of a semaphore or a mutex is, and in *)
(* which order the ready ones stand.                                       *)

\* The tasks the scheduler may come to run by itself: the others wait for a call.
Known(k) == Range(k.ready) \cup Range(k.sleeping)

\* READY_LIST and SLEEPING_LIST are apart and the statuses tell who is ready.  A
\* Blocked task may be on neither, and on no list of the kernel at all.
Fit(k) ==
  /\ k \in KernelState
  /\ IsInjective(k.ready) /\ IsInjective(k.sleeping)
  /\ Range(k.ready) \cap Range(k.sleeping) = {}
  /\ \A t \in Tid : k.status[t] \in {"Ready", "Running"} <=> t \in Range(k.ready)

\* The same while one task is on its way from one list to another.
FitBut(k, tid) ==
  /\ k \in KernelState
  /\ IsInjective(k.ready) /\ IsInjective(k.sleeping)
  /\ Range(k.ready) \cap Range(k.sleeping) = {}
  /\ tid \notin Known(k)
  /\ \A t \in Tid \ {tid} :
       k.status[t] \in {"Ready", "Running"} <=> t \in Range(k.ready)

\* What moving tasks between lists leaves alone.
SameTasks(k, r) ==
  /\ r.priority = k.priority /\ r.sub_priority = k.sub_priority
  /\ r.os_ticks = k.os_ticks /\ r.tid_bitmap = k.tid_bitmap
  /\ r.blocked = k.blocked /\ r.sched_ready = k.sched_ready

Ordered(k) == SortedBy(k.ready, k.priority)
Awake(k) == \A t \in Range(k.sleeping) : ~Due(k, t)

\* No ready task is more urgent than the current one.
Foremost(k) == \A t \in Range(k.ready) : k.priority[k.current] <= k.priority[t]

\* A sleeper that is not due sleeps on, with its wake_point.
SleepersStay(k, r) ==
  /\ \A t \in Range(r.sleeping) :
       t \in Range(k.sleeping) /\ r.wake_point[t] = k.wake_point[t]
  /\ \A t \in Range(k.sleeping) : ~Due(k, t) => t \in Range(r.sleeping)

\* A task waiting in READY_LIST is overtaken by none of its priority, whether it
\* waited behind it or joins; only the task that held the hart loses its place.
PeersWait(k, r) ==
  \A s \in Range(k.ready) \ {k.current} :
  \A t \in Range(r.ready) \ {s, k.current} :
    /\ s \in Range(r.ready) /\ r.priority[s] = r.priority[t]
    /\ t \in Range(k.ready) => Before(k.ready, s, t)
    => Before(r.ready, s, t)

\* r is k after some sleepers have become ready.
Woken(k, r) ==
  /\ Fit(r) /\ SameTasks(k, r)
  /\ r.current = k.current /\ r.halted = k.halted
  /\ Known(r) = Known(k)
  /\ Range(k.ready) \subseteq Range(r.ready)
  /\ Ordered(k) => Ordered(r) /\ PeersWait(k, r)
  /\ SleepersStay(k, r)

\* Steps in a row: a waiting task that is in the last list is in the middle one.
LEMMA PeersWaitOn ==
  ASSUME NEW k, NEW r, NEW q, PeersWait(k, r), PeersWait(r, q),
         r.current = k.current, q.priority = r.priority,
         (Range(k.ready) \cap Range(q.ready)) \ {k.current} \subseteq Range(r.ready)
  PROVE  PeersWait(k, q)
<1> SUFFICES ASSUME NEW s \in Range(k.ready) \ {k.current},
                    NEW t \in Range(q.ready) \ {s, k.current},
                    s \in Range(q.ready), q.priority[s] = q.priority[t],
                    t \in Range(k.ready) => Before(k.ready, s, t)
             PROVE  Before(q.ready, s, t)
  BY DEF PeersWait
<1>1. s \in Range(r.ready)
  OBVIOUS
<1>2. t \in Range(r.ready) => Before(r.ready, s, t)
  BY <1>1 DEF PeersWait
<1> QED
  BY <1>1, <1>2 DEF PeersWait

\* The same tasks in the same places.
LEMMA PeersUnmoved ==
  ASSUME NEW k, NEW r, NEW q, PeersWait(k, r),
         q.ready = r.ready, q.priority = r.priority
  PROVE  PeersWait(k, q)
BY DEF PeersWait

LEMMA PeersAtRest == \A k : PeersWait(k, k)
BY DEF PeersWait

\* A task leaves READY_LIST.
LEMMA PeersAfterDrop ==
  ASSUME NEW k \in KernelState, IsInjective(k.ready), NEW tid, NEW r,
         r.ready = Drop(k.ready, tid)
  PROVE  PeersWait(k, r)
<1>1. k.ready \in Seq(Tid)
  BY DEF KernelState
<1>2. Range(r.ready) = Range(k.ready) \ {tid}
  BY <1>1, DropProperties
<1> QED
  BY <1>1, <1>2, DropBefore DEF PeersWait

\* The scan of SLEEPING_LIST by induction on its rounds: what each round leads
\* from one set of kernels to the next, the whole loop leads from first to last.
LEMMA WakeInduction ==
  ASSUME NEW k, Len(k.sleeping) \in Nat, NEW G, k \in G[0],
         \A i \in 1..Len(k.sleeping) : \A r \in G[i - 1] : WakeOne(r) \in G[i]
  PROVE  WakeUpSleepers(k) \in G[Len(k.sleeping)]
<1> DEFINE n == Len(k.sleeping)
<1>1. PICK w : /\ w[0] = k /\ \A i \in 1..n : w[i] = WakeOne(w[i - 1])
               /\ WakeUpSleepers(k) = w[n]
  BY WakeRounds
<1> DEFINE T == {i \in 0..n : w[i] \notin G[i]}
<1>2. T = {}
  <2> SUFFICES ASSUME T # {} PROVE FALSE
    OBVIOUS
  <2> DEFINE m == Min(T)
  <2>1. m \in T /\ \A y \in T : m <= y
    <3>1. T \in SUBSET Nat
      OBVIOUS
    <3> HIDE DEF T
    <3> QED BY <3>1, MinOfNats
  <2>2. m \in 0..n /\ w[m] \notin G[m]
    BY <2>1
  <2>3. m # 0
    <3> HIDE DEF m
    <3> QED BY <1>1, <2>2
  <2>4. m \in 1..n /\ m - 1 \in 0..n /\ ~(m <= m - 1)
    <3> HIDE DEF T, m
    <3> QED BY <2>2, <2>3
  <2>5. w[m - 1] \in G[m - 1]
    <3>1. m - 1 \notin T
      <4> HIDE DEF T, m
      <4> QED BY <2>1, <2>4
    <3> HIDE DEF m
    <3> QED BY <2>4, <3>1
  <2> HIDE DEF T, m
  <2> QED
    BY <1>1, <2>2, <2>4, <2>5
<1> QED
  BY <1>1, <1>2

\* A task the scheduler did not know becomes ready, in its place.
LEMMA FitMakeReady ==
  ASSUME NEW k, NEW tid \in Tid, FitBut(k, tid)
  PROVE  /\ Fit(MakeReady(k, tid))
         /\ SameTasks(k, MakeReady(k, tid))
         /\ Range(MakeReady(k, tid).ready) = Range(k.ready) \cup {tid}
         /\ MakeReady(k, tid).sleeping = k.sleeping
         /\ MakeReady(k, tid).wake_point = k.wake_point
         /\ MakeReady(k, tid).current = k.current
         /\ MakeReady(k, tid).halted = k.halted
         /\ Ordered(k) => Ordered(MakeReady(k, tid)) /\ PeersWait(k, MakeReady(k, tid))
<1> DEFINE r == MakeReady(k, tid)
           list == InsertInOrder(k.ready, tid, k.priority)
           status == [k.status EXCEPT ![tid] = "Ready"]
<1>1. /\ k \in KernelState /\ k.ready \in Seq(Tid) /\ k.status \in [Tid -> Status]
      /\ IsInjective(k.ready) /\ tid \notin Range(k.ready)
      /\ tid \notin Range(k.sleeping)
  BY DEF FitBut, KernelState, Known
<1>2. k.priority \in [Tid -> Nat]
  BY <1>1, KernelAssumption DEF KernelState, Priorities
<1>3. Len(k.ready) < TASK_MAX
  BY <1>1, RoomForAbsent DEF Tid
<1>4. /\ list \in Seq(Tid) /\ IsInjective(list)
      /\ Range(list) = Range(k.ready) \cup {tid}
  BY <1>1, <1>2, <1>3, InsertProperties, TaskMaxAssumption
<1>5. SortedBy(k.ready, k.priority) =>
        /\ SortedBy(list, k.priority)
        /\ \A s \in Range(k.ready) : k.priority[s] = k.priority[tid] => Before(list, s, tid)
  BY <1>1, <1>2, <1>3, InsertSorted, InsertBefore, TaskMaxAssumption
<1>12. \A s, t : Before(k.ready, s, t) => Before(list, s, t)
  BY <1>1, <1>2, <1>3, InsertBefore, TaskMaxAssumption
<1>6. /\ status \in [Tid -> Status]
      /\ \A t \in Tid : status[t] = IF t = tid THEN "Ready" ELSE k.status[t]
  BY <1>1 DEF Status
<1>7. r = [k EXCEPT !.status = status, !.ready = list]
  BY DEF MakeReady
<1> HIDE DEF list, status
<1>8. r \in KernelState
  BY <1>1, <1>4, <1>6, <1>7 DEF KernelState
<1>9. /\ SameTasks(k, r) /\ r.ready = list /\ r.sleeping = k.sleeping
      /\ r.status = status /\ r.wake_point = k.wake_point
      /\ r.current = k.current /\ r.halted = k.halted
  BY <1>1, <1>7 DEF KernelState, SameTasks
<1> HIDE DEF r
<1>10. Fit(r)
  BY <1>1, <1>4, <1>6, <1>8, <1>9 DEF Fit, FitBut
<1>11. Ordered(k) => Ordered(r)
  BY <1>5, <1>9 DEF Ordered, SameTasks
<1>13. Ordered(k) => PeersWait(k, r)
  BY <1>1, <1>4, <1>5, <1>9, <1>12 DEF Ordered, SameTasks, PeersWait
<1> QED
  BY <1>4, <1>9, <1>10, <1>11, <1>13 DEF r

\* One round of the scan.
LEMMA FitWakeOne ==
  ASSUME NEW k, Fit(k)
  PROVE  /\ Woken(k, WakeOne(k))
         /\ IF Awake(k) THEN WakeOne(k) = k
            ELSE Len(WakeOne(k).sleeping) = Len(k.sleeping) - 1
<1> DEFINE T == {j \in 1..Len(k.sleeping) : Due(k, k.sleeping[j])}
<1>1. /\ k \in KernelState /\ k.sleeping \in Seq(Tid)
      /\ k.wake_point \in [Tid -> Tick] /\ IsInjective(k.sleeping)
  BY DEF Fit, KernelState
<1>2. CASE T = {}
  <2>1. WakeOne(k) = k /\ Awake(k)
    BY <1>1, <1>2 DEF WakeOne, Awake, Range
  <2> QED
    BY <2>1, PeersAtRest DEF Woken, SameTasks, SleepersStay
<1>3. CASE T # {}
  <2> DEFINE i == Min(T)
             tid == k.sleeping[i]
             rest == RemoveAt(k.sleeping, i)
             wakes == [k.wake_point EXCEPT ![tid] = 0]
             j == [k EXCEPT !.sleeping = rest, !.wake_point = wakes]
  <2>1. i \in 1..Len(k.sleeping) /\ Due(k, k.sleeping[i])
    <3>1. T \in SUBSET Nat
      OBVIOUS
    <3>2. Min(T) \in T
      <4> HIDE DEF T
      <4> QED BY <1>3, <3>1, MinOfNats
    <3> QED
      BY <3>2
  <2>2. WakeOne(k) = MakeReady(j, tid)
    BY <1>3 DEF WakeOne
  <2> HIDE DEF T, i
  <2>3. tid \in Tid /\ tid \in Range(k.sleeping) /\ Due(k, tid)
    BY <1>1, <2>1 DEF Range
  <2>4. rest = Drop(k.sleeping, tid)
    <3>1. PICK p \in 1..Len(k.sleeping) :
            k.sleeping[p] = tid /\ Drop(k.sleeping, tid) = RemoveAt(k.sleeping, p)
      BY <1>1, <2>3, DropPlaces DEF Holds
    <3>2. p = i
      BY <1>1, <2>1, <3>1 DEF IsInjective
    <3> QED
      BY <3>1, <3>2
  <2>5. /\ rest \in Seq(Tid) /\ IsInjective(rest)
        /\ Range(rest) = Range(k.sleeping) \ {tid}
    BY <1>1, <2>4, DropProperties
  <2>6. Len(rest) = Len(k.sleeping) - 1
    BY <1>1, <2>1, RemoveAtPlaces
  <2>7. /\ wakes \in [Tid -> Tick]
        /\ \A t \in Tid \ {tid} : wakes[t] = k.wake_point[t]
    <3>1. 0 \in Tick
      BY KernelAssumption DEF Tick
    <3> QED
      BY <1>1, <3>1
  <2> HIDE DEF rest, wakes, tid
  <2>8. j \in KernelState
    BY <1>1, <2>5, <2>7 DEF KernelState
  <2>9. /\ j.sleeping = rest /\ j.ready = k.ready /\ j.status = k.status
        /\ j.wake_point = wakes /\ j.current = k.current /\ j.halted = k.halted
        /\ SameTasks(k, j)
    BY <1>1 DEF KernelState, SameTasks
  <2> HIDE DEF j
  <2>10. FitBut(j, tid)
    BY <2>3, <2>5, <2>8, <2>9 DEF Fit, FitBut, Known
  <2>11. Ordered(k) => Ordered(j)
    BY <2>9 DEF Ordered, SameTasks
  <2> DEFINE r == MakeReady(j, tid)
  <2>12. /\ Fit(r) /\ SameTasks(j, r) /\ r.sleeping = rest
         /\ Range(r.ready) = Range(k.ready) \cup {tid}
         /\ r.wake_point = wakes /\ r.current = k.current
         /\ r.halted = k.halted
         /\ Ordered(k) => Ordered(r) /\ PeersWait(j, r)
    BY <2>3, <2>9, <2>10, <2>11, FitMakeReady
  <2>13. WakeOne(k) = r
    BY <2>2
  <2> HIDE DEF r
  <2>14. Known(r) = Known(k)
    BY <2>3, <2>5, <2>12 DEF Known
  <2>15. SleepersStay(k, r)
    <3>1. Range(rest) \subseteq Tid
      BY <2>5 DEF Range
    <3> QED
      BY <2>3, <2>5, <2>7, <2>12, <3>1 DEF SleepersStay
  <2>18. Ordered(k) => PeersWait(k, r)
    BY <2>9, <2>12 DEF PeersWait
  <2>16. Woken(k, r)
    BY <2>9, <2>12, <2>14, <2>15, <2>18 DEF Woken, SameTasks
  <2>17. ~Awake(k) /\ Len(r.sleeping) = Len(k.sleeping) - 1
    BY <2>3, <2>6, <2>12 DEF Awake
  <2> QED
    BY <2>13, <2>16, <2>17
<1> QED
  BY <1>2, <1>3

\* What several rounds do.
LEMMA WokenAgain ==
  ASSUME NEW k, NEW r, NEW q, Woken(k, r), Woken(r, q)
  PROVE  Woken(k, q)
<1>1. SleepersStay(k, q)
  <2>1. ASSUME NEW t \in Range(k.sleeping), ~Due(k, t) PROVE t \in Range(q.sleeping)
    <3>1. t \in Range(r.sleeping) /\ ~Due(r, t)
      BY <2>1 DEF Woken, SleepersStay, SameTasks, Due
    <3> QED
      BY <3>1 DEF Woken, SleepersStay
  <2> QED
    BY <2>1 DEF Woken, SleepersStay
<1>2. Ordered(k) => PeersWait(k, q)
  BY PeersWaitOn DEF Woken, SameTasks
<1> QED
  BY <1>1, <1>2 DEF Woken, SameTasks

\* The whole scan: it ends with nobody left asleep whose time has come.
LEMMA FitWakeUpSleepers ==
  ASSUME NEW k, Fit(k)
  PROVE  Woken(k, WakeUpSleepers(k)) /\ Awake(WakeUpSleepers(k))
<1> DEFINE n == Len(k.sleeping)
           G == [i \in 0..n |-> {r \in KernelState :
                   Woken(k, r) /\ (Awake(r) \/ Len(r.sleeping) <= n - i)}]
<1>1. n \in Nat /\ k \in KernelState
  BY DEF Fit, KernelState
<1>2. k \in G[0]
  <2>1. Woken(k, k)
    BY PeersAtRest DEF Woken, SameTasks, SleepersStay
  <2> QED
    BY <1>1, <2>1
<1>3. ASSUME NEW i \in 1..n, NEW r \in G[i - 1] PROVE WakeOne(r) \in G[i]
  <2> DEFINE q == WakeOne(r)
  <2>1. i - 1 \in 0..n /\ i \in 0..n /\ n - (i - 1) = (n - i) + 1
    BY <1>1
  <2>2. /\ r \in KernelState /\ Woken(k, r)
        /\ Awake(r) \/ Len(r.sleeping) <= (n - i) + 1
    BY <1>3, <2>1
  <2>3. /\ Woken(r, q)
        /\ IF Awake(r) THEN q = r ELSE Len(q.sleeping) = Len(r.sleeping) - 1
    BY <2>2, FitWakeOne DEF Woken
  <2> HIDE DEF q
  <2>4. Woken(k, q) /\ q \in KernelState
    BY <2>2, <2>3, WokenAgain DEF Woken, Fit
  <2>5. Awake(q) \/ Len(q.sleeping) <= n - i
    <3>1. Len(r.sleeping) \in Nat
      BY <2>2 DEF KernelState
    <3> QED
      BY <1>1, <2>2, <2>3, <3>1
  <2> QED
    BY <2>1, <2>4, <2>5 DEF q
<1>4. WakeUpSleepers(k) \in G[n]
  <2> HIDE DEF G
  <2> QED BY <1>1, <1>2, <1>3, WakeInduction
<1> DEFINE r == WakeUpSleepers(k)
<1>5. Woken(k, r) /\ (Awake(r) \/ Len(r.sleeping) <= 0) /\ r \in KernelState
  <2>1. n \in 0..n /\ n - n = 0
    BY <1>1
  <2> HIDE DEF r, n
  <2> QED BY <1>4, <2>1 DEF r
<1> HIDE DEF r
<1>6. Awake(r)
  <2>1. CASE Len(r.sleeping) <= 0
    <3>1. r.sleeping \in Seq(Tid)
      BY <1>5 DEF KernelState
    <3>2. Range(r.sleeping) = {}
      BY <2>1, <3>1 DEF Range
    <3> QED
      BY <3>2 DEF Awake
  <2> QED
    BY <1>5, <2>1
<1> QED
  BY <1>5, <1>6 DEF r

\* What next_tcb makes of a kernel: the scheduler knows the same tasks, nobody
\* overdue is left asleep, and if READY_LIST was in order a most urgent ready
\* task has the hart.
Switched(k, r) ==
  /\ Fit(r) /\ SameTasks(k, r)
  /\ Known(r) = Known(k)
  /\ Range(k.ready) \subseteq Range(r.ready)
  /\ r.current \in Tid
  /\ IF r.halted THEN r.ready = << >> ELSE r.current \in Range(r.ready)
  /\ Ordered(k) => Ordered(r) /\ Foremost(r) /\ PeersWait(k, r)
  /\ SleepersStay(k, r) /\ Awake(r)

\* The task that was running goes behind its equals, or stays, or was off
\* READY_LIST already.
LEMMA FitRequeue ==
  ASSUME NEW k, Fit(k), k.current \in Tid
  PROVE  /\ Woken(k, RequeueCurrent(k))
         /\ Range(RequeueCurrent(k).ready) = Range(k.ready)
         /\ RequeueCurrent(k).sleeping = k.sleeping
         /\ RequeueCurrent(k).wake_point = k.wake_point
<1> DEFINE cr == k.current
           list == Drop(k.ready, cr)
<1>1. /\ k \in KernelState /\ k.ready \in Seq(Tid) /\ cr \in Tid
      /\ k.status[cr] \in Status /\ IsInjective(k.ready)
  BY DEF Fit, KernelState
<1>2. /\ list \in Seq(Tid) /\ IsInjective(list)
      /\ Range(list) = Range(k.ready) \ {cr}
  BY <1>1, DropProperties
<1>3. Woken(k, k)
  BY PeersAtRest DEF Woken, SameTasks, SleepersStay
<1>4. CASE k.status[cr] \in {"Terminated", "Blocked"}
  <2>1. list = k.ready
    BY <1>1, <1>4, DropPlaces DEF Fit, Holds
  <2>2. RequeueCurrent(k) = [k EXCEPT !.ready = k.ready]
    BY <1>4, <2>1 DEF RequeueCurrent
  <2>3. RequeueCurrent(k) = k
    BY <1>1, <2>2 DEF KernelState
  <2> QED
    BY <1>3, <2>3
<1>5. CASE /\ k.status[cr] \notin {"Terminated", "Blocked"}
           /\ k.time_slice[cr] = 0 \/ k.status[cr] = "Running"
  <2> DEFINE slices == [k.time_slice EXCEPT ![cr] = TIME_SLICE]
             j == [k EXCEPT !.time_slice = slices, !.ready = list]
             r == MakeReady(j, cr)
  <2>1. RequeueCurrent(k) = r
    BY <1>5 DEF RequeueCurrent
  <2>2. slices \in [Tid -> 0..TIME_SLICE]
    BY <1>1, KernelAssumption DEF KernelState
  <2>3. cr \in Range(k.ready)
    BY <1>1, <1>5 DEF Fit, Status
  <2>4. Ordered(k) => SortedBy(list, k.priority)
    BY <1>1, DropSorted DEF Ordered
  <2> HIDE DEF slices, list
  <2>5. j \in KernelState
    BY <1>1, <1>2, <2>2 DEF KernelState
  <2>6. /\ j.ready = list /\ j.sleeping = k.sleeping /\ j.status = k.status
        /\ j.wake_point = k.wake_point /\ j.current = cr /\ j.halted = k.halted
        /\ SameTasks(k, j)
    BY <1>1 DEF KernelState, SameTasks
  <2> HIDE DEF j
  <2>7. FitBut(j, cr) /\ (Ordered(k) => Ordered(j))
    BY <1>2, <2>3, <2>4, <2>5, <2>6 DEF Fit, FitBut, Known, Ordered, SameTasks
  <2>8. /\ Fit(r) /\ SameTasks(j, r) /\ r.sleeping = j.sleeping
        /\ Range(r.ready) = Range(j.ready) \cup {cr}
        /\ r.wake_point = j.wake_point /\ r.current = j.current
        /\ r.halted = j.halted
        /\ Ordered(j) => Ordered(r) /\ PeersWait(j, r)
    BY <1>1, <2>7, FitMakeReady
  <2> HIDE DEF r
  <2>9. Range(r.ready) = Range(k.ready)
    BY <1>2, <2>3, <2>6, <2>8
  <2>11. Ordered(k) => PeersWait(k, r)
    <3>1. PeersWait(k, j)
      BY <1>1, <2>6, PeersAfterDrop DEF list
    <3>2. (Range(k.ready) \cap Range(r.ready)) \ {k.current} \subseteq Range(j.ready)
      BY <1>2, <2>6
    <3> QED
      BY <2>6, <2>7, <2>8, <3>1, <3>2, PeersWaitOn DEF SameTasks
  <2>10. Woken(k, r)
    BY <2>6, <2>7, <2>8, <2>9, <2>11 DEF Woken, SameTasks, Known, SleepersStay
  <2> QED
    BY <2>1, <2>6, <2>8, <2>9, <2>10
<1>6. CASE /\ k.status[cr] \notin {"Terminated", "Blocked"}
           /\ ~(k.time_slice[cr] = 0 \/ k.status[cr] = "Running")
  BY <1>3, <1>6 DEF RequeueCurrent
<1> QED
  BY <1>4, <1>5, <1>6

\* The front of an ordered list is a most urgent task.
LEMMA FrontIsForemost ==
  ASSUME NEW k \in KernelState, Ordered(k), k.ready # << >>
  PROVE  \A t \in Range(k.ready) : k.priority[Head(k.ready)] <= k.priority[t]
<1>1. /\ k.ready \in Seq(Tid) /\ Head(k.ready) = k.ready[1]
      /\ 1 \in 1..Len(k.ready) /\ k.priority \in [Tid -> Nat]
  BY HeadTailProperties, KernelAssumption DEF KernelState, Priorities
<1>2. ASSUME NEW i \in 1..Len(k.ready)
      PROVE  k.priority[k.ready[1]] <= k.priority[k.ready[i]]
  <2>1. CASE i = 1
    <3>1. k.priority[k.ready[1]] \in Nat
      BY <1>1
    <3> QED
      BY <2>1, <3>1
  <2>2. CASE i # 1
    BY <1>1, <2>2 DEF Ordered, SortedBy
  <2> QED
    BY <2>1, <2>2
<1>3. \A t \in Range(k.ready) : \E i \in 1..Len(k.ready) : t = k.ready[i]
  BY <1>1 DEF Range
<1> QED
  BY <1>1, <1>2, <1>3

\* next_tcb, whatever critical section yields to it.
LEMMA FitNextTcb ==
  ASSUME NEW k, Fit(k), k.current \in Tid, ~k.halted
  PROVE  Switched(k, NextTcb(k))
<1> DEFINE a == WakeUpSleepers(k)
           b == RequeueCurrent(a)
           st == Head(b.ready)
           status == [b.status EXCEPT ![st] = "Running"]
           r == [b EXCEPT !.status = status, !.current = st]
           q == [b EXCEPT !.halted = TRUE]
<1>1. Woken(k, a) /\ Awake(a)
  BY FitWakeUpSleepers
<1> HIDE DEF a
<1>2. /\ Woken(a, b) /\ b.sleeping = a.sleeping /\ b.wake_point = a.wake_point
  BY <1>1, FitRequeue DEF Woken
<1>3. NextTcb(k) = Dispatch(b)
  BY DEF NextTcb, a
<1> HIDE DEF b
<1>4. Woken(k, b) /\ Awake(b)
  BY <1>1, <1>2, WokenAgain DEF Awake, Due, Woken, SameTasks
<1>5. /\ b \in KernelState /\ b.ready \in Seq(Tid) /\ b.current \in Tid
      /\ ~b.halted /\ Fit(b) /\ b.status \in [Tid -> Status]
  BY <1>4 DEF Woken, Fit, KernelState
<1>6. CASE b.ready = << >>
  <2>1. NextTcb(k) = q
    BY <1>3, <1>6 DEF Dispatch
  <2>2. q \in KernelState
    BY <1>5 DEF KernelState
  <2>3. /\ q.ready = b.ready /\ q.sleeping = b.sleeping /\ q.status = b.status
        /\ q.wake_point = b.wake_point /\ q.current = b.current /\ q.halted
        /\ SameTasks(b, q)
    BY <1>5 DEF KernelState, SameTasks
  <2> HIDE DEF q
  <2>4. Foremost(q) /\ Range(q.ready) = Range(b.ready)
    BY <1>6, <2>3 DEF Foremost, Range
  <2>5. Ordered(k) => PeersWait(k, q)
    BY <1>4, <2>3, PeersUnmoved DEF Woken, SameTasks
  <2> QED
    BY <1>4, <1>5, <1>6, <2>1, <2>2, <2>3, <2>4, <2>5
    DEF Switched, Woken, Fit, Known, SameTasks, SleepersStay, Awake, Due, Ordered
<1>7. CASE b.ready # << >>
  <2>1. st \in Range(b.ready) /\ st \in Tid
    <3>1. st = b.ready[1] /\ 1 \in DOMAIN b.ready
      BY <1>5, <1>7, HeadTailProperties
    <3> QED
      BY <1>5, <3>1 DEF Range
  <2>2. Ordered(b) => \A t \in Range(b.ready) : b.priority[st] <= b.priority[t]
    BY <1>5, <1>7, FrontIsForemost
  <2>3. CASE st = b.current
    <3>1. NextTcb(k) = b
      BY <1>3, <1>7, <2>3 DEF Dispatch
    <3>2. Ordered(k) => Ordered(b) /\ Foremost(b)
      BY <1>4, <2>2, <2>3 DEF Foremost, Woken
    <3> HIDE DEF st
    <3> QED
      BY <1>4, <1>5, <2>1, <2>3, <3>1, <3>2 DEF Switched, Woken
  <2>4. CASE st # b.current
    <3>1. NextTcb(k) = r
      BY <1>3, <1>7, <2>4 DEF Dispatch
    <3> HIDE DEF st
    <3>2. /\ status \in [Tid -> Status]
          /\ \A t \in Tid : status[t] = IF t = st THEN "Running" ELSE b.status[t]
      BY <1>5 DEF Status
    <3> HIDE DEF status
    <3>3. r \in KernelState
      BY <1>5, <2>1, <3>2 DEF KernelState
    <3>4. /\ r.ready = b.ready /\ r.sleeping = b.sleeping /\ r.status = status
          /\ r.wake_point = b.wake_point /\ r.current = st /\ ~r.halted
          /\ SameTasks(b, r)
      BY <1>5 DEF KernelState, SameTasks
    <3> HIDE DEF r
    <3>5. Fit(r)
      BY <1>5, <2>1, <3>2, <3>3, <3>4 DEF Fit
    <3>6. Ordered(k) => Ordered(r) /\ Foremost(r) /\ PeersWait(k, r)
      BY <1>4, <2>2, <3>4, PeersUnmoved DEF Foremost, Woken, Ordered, SameTasks
    <3> QED
      BY <1>4, <2>1, <3>1, <3>4, <3>5, <3>6
      DEF Switched, Woken, Known, SameTasks, SleepersStay, Awake, Due
  <2> QED
    BY <2>3, <2>4
<1> QED
  BY <1>6, <1>7

\* Lists that match the statuses are fit: the tasks of Tasks wait in no queue
\* but the kernel's.
LEMMA MatchedIsFit ==
  ASSUME NEW k \in KernelState, ListsMatch(k)
  PROVE  Fit(k)
<1>1. \A t \in Tid : k.status[t] \in Status /\ Matched(k, t)
  BY DEF KernelState, ListsMatch
<1>2. Range(k.ready) \cap Range(k.sleeping) = {}
  <2>1. Range(k.ready) \subseteq Tid
    BY DEF KernelState, Range
  <2> QED
    BY <1>1, <2>1 DEF Matched, OnNoList, Holds, Status
<1>3. \A t \in Tid : k.status[t] \in {"Ready", "Running"} <=> t \in Range(k.ready)
  BY <1>1 DEF Matched, OnNoList, Holds, Status
<1> QED
  BY <1>2, <1>3 DEF Fit, ListsMatch, NoRepeats

\* A task leaves READY_LIST under a label that is not for ready tasks.
LEMMA FitRemove ==
  ASSUME NEW k, Fit(k), NEW tid \in Tid, NEW label \in {"Blocked", "Terminated"},
         NEW r \in KernelState,
         r.ready = Drop(k.ready, tid),
         r.sleeping = k.sleeping \/ r.sleeping = Drop(k.sleeping, tid),
         r.status = [k.status EXCEPT ![tid] = label],
         r.priority = k.priority
  PROVE  /\ Fit(r)
         /\ Range(r.ready) = Range(k.ready) \ {tid}
         /\ Range(k.sleeping) \ {tid} \subseteq Range(r.sleeping)
         /\ Range(r.sleeping) \subseteq Range(k.sleeping)
         /\ Ordered(k) => Ordered(r)
         /\ PeersWait(k, r)
<1>1. /\ k.ready \in Seq(Tid) /\ k.sleeping \in Seq(Tid) /\ k.status \in [Tid -> Status]
      /\ IsInjective(k.ready) /\ IsInjective(k.sleeping)
  BY DEF Fit, KernelState
<1>2. IsInjective(r.ready) /\ Range(r.ready) = Range(k.ready) \ {tid}
  BY <1>1, DropProperties
<1>3. /\ IsInjective(r.sleeping)
      /\ Range(k.sleeping) \ {tid} \subseteq Range(r.sleeping)
      /\ Range(r.sleeping) \subseteq Range(k.sleeping)
  <2>1. CASE r.sleeping = k.sleeping
    BY <1>1, <2>1
  <2>2. CASE r.sleeping = Drop(k.sleeping, tid)
    BY <1>1, <2>2, DropProperties
  <2> QED
    BY <2>1, <2>2
<1>4. \A t \in Tid : r.status[t] = IF t = tid THEN label ELSE k.status[t]
  BY <1>1
<1>5. Fit(r)
  BY <1>2, <1>3, <1>4 DEF Fit
<1>6. Ordered(k) => Ordered(r)
  BY <1>1, DropSorted DEF Ordered
<1>7. PeersWait(k, r)
  BY <1>1, PeersAfterDrop DEF Fit
<1> QED
  BY <1>2, <1>3, <1>5, <1>6, <1>7

\* Status Blocked, off READY_LIST: from here on only a call can bring it back.
LEMMA FitTakeOff ==
  ASSUME NEW k, Fit(k), NEW tid \in Tid
  PROVE  /\ Fit(TakeOff(k, tid)) /\ SameTasks(k, TakeOff(k, tid))
         /\ Range(TakeOff(k, tid).ready) = Range(k.ready) \ {tid}
         /\ TakeOff(k, tid).sleeping = k.sleeping
         /\ TakeOff(k, tid).wake_point = k.wake_point
         /\ TakeOff(k, tid).current = k.current
         /\ TakeOff(k, tid).halted = k.halted
         /\ Ordered(k) => Ordered(TakeOff(k, tid))
         /\ PeersWait(k, TakeOff(k, tid))
<1> DEFINE status == [k.status EXCEPT ![tid] = "Blocked"]
           list == Drop(k.ready, tid)
           r == [k EXCEPT !.status = status, !.ready = list]
<1>1. /\ k \in KernelState /\ k.ready \in Seq(Tid) /\ k.status \in [Tid -> Status]
  BY DEF Fit, KernelState
<1>2. TakeOff(k, tid) = r
  BY DEF TakeOff
<1>3. r \in KernelState
  <2>1. list \in Seq(Tid)
    BY <1>1, DropProperties
  <2>2. status \in [Tid -> Status]
    BY <1>1 DEF Status
  <2> QED
    BY <1>1, <2>1, <2>2 DEF KernelState
<1>4. /\ r.ready = list /\ r.sleeping = k.sleeping /\ r.status = status
      /\ r.wake_point = k.wake_point /\ r.current = k.current
      /\ r.halted = k.halted /\ SameTasks(k, r)
  BY <1>1 DEF KernelState, SameTasks
<1> HIDE DEF r
<1>5. r.priority = k.priority
  BY <1>4 DEF SameTasks
<1>6. /\ Fit(r) /\ Range(r.ready) = Range(k.ready) \ {tid}
      /\ Ordered(k) => Ordered(r)
      /\ PeersWait(k, r)
  BY <1>3, <1>4, <1>5, FitRemove
<1> QED
  BY <1>2, <1>4, <1>6

\* A task the scheduler did not know goes to sleep.
LEMMA FitSleepUntil ==
  ASSUME NEW k, Fit(k), NEW tid \in Tid, tid \notin Known(k), NEW wake \in Tick
  PROVE  /\ Fit(SleepUntil(k, tid, wake)) /\ SameTasks(k, SleepUntil(k, tid, wake))
         /\ SleepUntil(k, tid, wake).ready = k.ready
         /\ Range(SleepUntil(k, tid, wake).sleeping) = Range(k.sleeping) \cup {tid}
         /\ SleepUntil(k, tid, wake).wake_point = [k.wake_point EXCEPT ![tid] = wake]
         /\ SleepUntil(k, tid, wake).current = k.current
         /\ SleepUntil(k, tid, wake).halted = k.halted
<1> DEFINE wakes == [k.wake_point EXCEPT ![tid] = wake]
           list == InsertInOrder(k.sleeping, tid, wakes)
           r == [k EXCEPT !.wake_point = wakes, !.sleeping = list]
<1>1. /\ k \in KernelState /\ k.sleeping \in Seq(Tid)
      /\ k.wake_point \in [Tid -> Tick] /\ IsInjective(k.sleeping)
      /\ tid \notin Range(k.sleeping) /\ tid \notin Range(k.ready)
  BY DEF Fit, KernelState, Known
<1>2. SleepUntil(k, tid, wake) = r
  BY DEF SleepUntil
<1>3. wakes \in [Tid -> Tick] /\ wakes \in [Tid -> Nat]
  BY <1>1, KernelAssumption DEF Tick
<1>4. Len(k.sleeping) < TASK_MAX
  BY <1>1, RoomForAbsent DEF Tid
<1>5. /\ list \in Seq(Tid) /\ IsInjective(list)
      /\ Range(list) = Range(k.sleeping) \cup {tid}
  <2> HIDE DEF wakes
  <2> QED BY <1>1, <1>3, <1>4, InsertProperties, TaskMaxAssumption
<1> HIDE DEF list
<1>6. r \in KernelState
  BY <1>1, <1>3, <1>5 DEF KernelState
<1>7. /\ r.sleeping = list /\ r.ready = k.ready /\ r.status = k.status
      /\ r.wake_point = wakes /\ r.current = k.current
      /\ r.halted = k.halted /\ SameTasks(k, r)
  BY <1>1 DEF KernelState, SameTasks
<1> HIDE DEF r
<1>8. Fit(r)
  BY <1>1, <1>5, <1>6, <1>7 DEF Fit
<1> QED
  BY <1>2, <1>5, <1>7, <1>8

\* What every operation that yields leaves behind: nobody overdue is asleep, the
\* current task may run, and from an ordered READY_LIST the front was taken.
Yielded(k, r) ==
  /\ Fit(r) /\ SameTasks(k, r)
  /\ Known(r) = Known(k)
  /\ r.current \in Tid
  /\ IF r.halted THEN r.ready = << >> ELSE r.current \in Range(r.ready)
  /\ Ordered(k) => Ordered(r) /\ Foremost(r)
  /\ Awake(r)

\* Task::delay: the caller is asleep until its wake_point, unless the sum of the
\* counter and the delay has wrapped and it is due at once.
LEMMA FitDelay ==
  ASSUME NEW k, Fit(k), k.current \in Tid, k.current \in Range(k.ready), ~k.halted,
         NEW ticks \in Nat
  PROVE  /\ Yielded(k, DelayCurrent(k, ticks))
         /\ Range(k.ready) \ {k.current} \subseteq Range(DelayCurrent(k, ticks).ready)
         /\ k.os_ticks < WakeTime(k, ticks) =>
              /\ k.current \in Range(DelayCurrent(k, ticks).sleeping)
              /\ DelayCurrent(k, ticks).wake_point[k.current] = WakeTime(k, ticks)
         /\ k.current \in Range(DelayCurrent(k, ticks).sleeping) =>
              DelayCurrent(k, ticks).wake_point[k.current] = WakeTime(k, ticks)
         /\ \A t \in Range(DelayCurrent(k, ticks).sleeping) \ {k.current} :
              /\ t \in Range(k.sleeping)
              /\ DelayCurrent(k, ticks).wake_point[t] = k.wake_point[t]
         /\ Ordered(k) => PeersWait(k, DelayCurrent(k, ticks))
<1> DEFINE cr == k.current
           wake == WakeTime(k, ticks)
           j == TakeOff(k, cr)
           a == SleepUntil(j, cr, wake)
           r == NextTcb(a)
<1>1. /\ k \in KernelState /\ cr \in Tid /\ cr \notin Range(k.sleeping)
      /\ cr \in Range(k.ready) /\ k.wake_point \in [Tid -> Tick]
  BY DEF Fit, KernelState
<1>2. wake \in Tick
  BY <1>1, KernelAssumption DEF WakeTime, KernelState, Tick
<1>3. DelayCurrent(k, ticks) = r
  BY DEF DelayCurrent
<1> HIDE DEF wake, cr
<1>4. /\ Fit(j) /\ SameTasks(k, j) /\ Range(j.ready) = Range(k.ready) \ {cr}
      /\ j.sleeping = k.sleeping /\ j.wake_point = k.wake_point
      /\ j.current = k.current /\ j.halted = k.halted
      /\ Ordered(k) => Ordered(j)
      /\ PeersWait(k, j)
  BY <1>1, FitTakeOff
<1> HIDE DEF j
<1>5. cr \notin Known(j)
  BY <1>1, <1>4 DEF Known
<1>6. /\ Fit(a) /\ SameTasks(j, a) /\ a.ready = j.ready
      /\ Range(a.sleeping) = Range(j.sleeping) \cup {cr}
      /\ a.wake_point = [j.wake_point EXCEPT ![cr] = wake]
      /\ a.current = j.current /\ a.halted = j.halted
  <2>1. Fit(j) /\ cr \in Tid
    BY <1>1, <1>4
  <2> HIDE DEF r
  <2> QED
    BY <1>2, <1>5, <2>1, FitSleepUntil, SMTT(30)
<1> HIDE DEF a
<1>7. Switched(a, r)
  BY <1>4, <1>6, FitNextTcb
<1> HIDE DEF r
<1>8. Known(a) = Known(k) /\ SameTasks(k, a)
  BY <1>1, <1>4, <1>6 DEF Known, SameTasks
<1>9. Ordered(k) => Ordered(a)
  BY <1>4, <1>6 DEF Ordered, SameTasks
<1>10. Yielded(k, r)
  BY <1>7, <1>8, <1>9 DEF Switched, Yielded, SameTasks
<1>11. ASSUME k.os_ticks < wake
       PROVE  cr \in Range(r.sleeping) /\ r.wake_point[cr] = wake
  <2>1. a.wake_point[cr] = wake
    BY <1>1, <1>4, <1>6
  <2>2. k.os_ticks \in Int /\ wake \in Int
    BY <1>1, <1>2, KernelAssumption DEF KernelState, Tick
  <2>3. ~Due(a, cr)
    BY <1>8, <1>11, <2>1, <2>2 DEF Due, SameTasks
  <2> QED
    BY <1>6, <1>7, <2>1, <2>3 DEF Switched, SleepersStay
<1>12. Range(k.ready) \ {cr} \subseteq Range(r.ready)
  BY <1>4, <1>6, <1>7 DEF Switched
<1>13. ASSUME NEW t \in Range(r.sleeping) \ {cr}
       PROVE  t \in Range(k.sleeping) /\ r.wake_point[t] = k.wake_point[t]
  <2>1. t \in Range(a.sleeping) /\ r.wake_point[t] = a.wake_point[t]
    BY <1>7 DEF Switched, SleepersStay
  <2>2. t \in Range(k.sleeping) /\ t \in Tid
    <3>1. Range(k.sleeping) \subseteq Tid
      BY <1>1 DEF KernelState, Range
    <3> QED
      BY <1>4, <1>6, <2>1, <3>1
  <2>3. a.wake_point[t] = k.wake_point[t]
    BY <1>1, <1>4, <1>6, <2>2
  <2> QED
    BY <2>1, <2>2, <2>3
<1>14. ASSUME Ordered(k) PROVE PeersWait(k, r)
  <2>1. PeersWait(k, a)
    BY <1>4, <1>6, PeersUnmoved DEF SameTasks
  <2>2. PeersWait(a, r) /\ r.priority = a.priority /\ a.current = k.current
    BY <1>4, <1>6, <1>7, <1>9, <1>14 DEF Switched, SameTasks
  <2>3. Range(k.ready) \ {k.current} \subseteq Range(a.ready)
    BY <1>4, <1>6 DEF cr
  <2> QED
    BY <2>1, <2>2, <2>3, PeersWaitOn
<1>15. cr \in Range(r.sleeping) => r.wake_point[cr] = wake
  BY <1>1, <1>4, <1>6, <1>7 DEF Switched, SleepersStay
<1> QED
  BY <1>3, <1>10, <1>11, <1>12, <1>13, <1>14, <1>15 DEF cr, wake

\* The timer trap: an empty SLEEPING_LIST is the only one it does not scan, so
\* exactly the sleepers whose wake_point the new count has reached are woken.
LEMMA FitTick ==
  ASSUME NEW k, Fit(k), k.current \in Tid, k.current \in Range(k.ready), ~k.halted,
         NEW n \in Nat
  PROVE  /\ Fit(TickTrap(k, n)) /\ TickTrap(k, n).priority = k.priority
         /\ TickTrap(k, n).sub_priority = k.sub_priority
         /\ TickTrap(k, n).os_ticks = (k.os_ticks + n) % TickMod
         /\ TickTrap(k, n).tid_bitmap = k.tid_bitmap
         /\ TickTrap(k, n).sched_ready = k.sched_ready
         /\ Known(TickTrap(k, n)) = Known(k)
         /\ Range(k.ready) \subseteq Range(TickTrap(k, n).ready)
         /\ TickTrap(k, n).current \in Tid /\ ~TickTrap(k, n).halted
         /\ TickTrap(k, n).current \in Range(TickTrap(k, n).ready)
         /\ Ordered(k) => Ordered(TickTrap(k, n))
         /\ Ordered(k) /\ Foremost(k) => Foremost(TickTrap(k, n))
         /\ Awake(TickTrap(k, n))
         /\ Ordered(k) => PeersWait(k, TickTrap(k, n))
         /\ Range(TickTrap(k, n).sleeping) \subseteq Range(k.sleeping)
         /\ \A t \in Range(k.sleeping) :
              /\ t \in Range(TickTrap(k, n).sleeping)
                   <=> ~((k.os_ticks + n) % TickMod >= k.wake_point[t])
              /\ t \in Range(TickTrap(k, n).sleeping)
                   => TickTrap(k, n).wake_point[t] = k.wake_point[t]
<1> DEFINE cr == k.current
           left == IF k.time_slice[cr] > n THEN k.time_slice[cr] - n ELSE 0
           slices == [k.time_slice EXCEPT ![cr] = left]
           now == (k.os_ticks + n) % TickMod
           j == [k EXCEPT !.os_ticks = now, !.time_slice = slices]
           Good(r) ==
             /\ Fit(r) /\ r.priority = k.priority /\ r.sub_priority = k.sub_priority
             /\ r.os_ticks = now /\ r.tid_bitmap = k.tid_bitmap
             /\ r.sched_ready = k.sched_ready /\ Known(r) = Known(k)
             /\ Range(k.ready) \subseteq Range(r.ready)
             /\ r.current \in Tid /\ ~r.halted /\ r.current \in Range(r.ready)
             /\ Ordered(k) => Ordered(r)
             /\ Ordered(k) /\ Foremost(k) => Foremost(r)
             /\ Awake(r)
             /\ Ordered(k) => PeersWait(k, r)
             /\ Range(r.sleeping) \subseteq Range(k.sleeping)
             /\ \A t \in Range(k.sleeping) :
                  /\ t \in Range(r.sleeping) <=> ~(now >= k.wake_point[t])
                  /\ t \in Range(r.sleeping) => r.wake_point[t] = k.wake_point[t]
<1>1. /\ k \in KernelState /\ cr \in Tid
      /\ k.time_slice \in [Tid -> 0..TIME_SLICE] /\ k.os_ticks \in Tick
  BY DEF Fit, KernelState
<1>2. slices \in [Tid -> 0..TIME_SLICE]
  <2>1. k.time_slice[cr] \in 0..TIME_SLICE
    BY <1>1
  <2>2. left \in 0..TIME_SLICE
    BY <2>1, KernelAssumption
  <2> HIDE DEF left, cr
  <2> QED BY <1>1, <2>2
<1>3. now \in Tick
  BY <1>1, KernelAssumption DEF Tick
<1>4. AdvanceTicks(k, n) = j
  BY <1>1 DEF AdvanceTicks, KernelState
<1> HIDE DEF slices, now
<1>5. j \in KernelState
  BY <1>1, <1>2, <1>3 DEF KernelState
<1>6. /\ j.ready = k.ready /\ j.sleeping = k.sleeping /\ j.status = k.status
      /\ j.wake_point = k.wake_point /\ j.current = cr /\ j.halted = k.halted
      /\ j.priority = k.priority /\ j.sub_priority = k.sub_priority
      /\ j.tid_bitmap = k.tid_bitmap /\ j.sched_ready = k.sched_ready
      /\ j.os_ticks = now
  BY <1>1 DEF KernelState
<1>7. TickTrap(k, n) = IF TickWantsSwitch(j) THEN NextTcb(j) ELSE j
  BY <1>4 DEF TickTrap
<1> HIDE DEF j
<1>8. Fit(j) /\ Known(j) = Known(k) /\ (Ordered(k) <=> Ordered(j))
  BY <1>5, <1>6 DEF Fit, Known, Ordered
<1>9. CASE TickWantsSwitch(j)
  <2> DEFINE r == NextTcb(j)
  <2>1. Switched(j, r)
    BY <1>1, <1>6, <1>8, FitNextTcb
  <2>2. TickTrap(k, n) = r
    BY <1>7, <1>9
  <2> HIDE DEF r
  <2>3. ~r.halted
    <3>1. cr \in Range(r.ready)
      BY <1>6, <2>1 DEF Switched
    <3>2. r.ready # << >>
      BY <3>1 DEF Range
    <3> QED
      BY <2>1, <3>2 DEF Switched
  <2>4. ASSUME NEW t \in Range(k.sleeping)
        PROVE  /\ t \in Range(r.sleeping) <=> ~(now >= k.wake_point[t])
               /\ t \in Range(r.sleeping) => r.wake_point[t] = k.wake_point[t]
    <3>1. t \in Range(r.sleeping) => r.wake_point[t] = k.wake_point[t] /\ ~Due(r, t)
      BY <1>6, <2>1 DEF Switched, SleepersStay, Awake
    <3>2. ~Due(j, t) => t \in Range(r.sleeping)
      BY <1>6, <2>1, <2>4 DEF Switched, SleepersStay
    <3>3. Due(j, t) <=> now >= k.wake_point[t]
      BY <1>6 DEF Due
    <3>4. t \in Range(r.sleeping) => ~Due(j, t)
      BY <1>6, <2>1, <3>1 DEF Due, Switched, SameTasks
    <3> QED
      BY <3>1, <3>2, <3>3, <3>4
  <2>6. Ordered(k) => PeersWait(k, r)
    BY <1>6, <1>8, <2>1 DEF Switched, PeersWait
  <2>7. Range(r.sleeping) \subseteq Range(k.sleeping)
    BY <1>6, <2>1 DEF Switched, SleepersStay
  <2>5. Good(r)
    BY <1>6, <1>8, <2>1, <2>3, <2>4, <2>6, <2>7 DEF Switched, SameTasks
  <2> HIDE DEF Good
  <2> QED
    BY <2>2, <2>5 DEF Good, now
<1>10. CASE ~TickWantsSwitch(j)
  <2>1. TickTrap(k, n) = j
    BY <1>7, <1>10
  <2>2. Range(k.sleeping) = {} /\ Range(j.sleeping) = {}
    BY <1>6, <1>10 DEF TickWantsSwitch, Range
  <2>4. PeersWait(k, j)
    BY <1>6, PeersAtRest, PeersUnmoved
  <2>3. Good(j)
    BY <1>1, <1>6, <1>8, <2>2, <2>4 DEF Awake, Foremost
  <2> HIDE DEF Good
  <2> QED
    BY <2>1, <2>3 DEF Good, now
<1> QED
  BY <1>9, <1>10

-----------------------------------------------------------------------------
(* main: tasks are created one after another, then launch starts them.     *)

\* A new task goes behind its equals in READY_LIST; its tid named no task the
\* scheduler knew.
LEMMA FitNewTask ==
  ASSUME NEW k, Fit(k), FreeTids(k) # {}, LowestFree(k) \notin Known(k),
         NEW pri \in Priorities
  PROVE  /\ Fit(NewTask(k, pri)) /\ LowestFree(k) \in Tid \ k.tid_bitmap
         /\ Range(NewTask(k, pri).ready) = Range(k.ready) \cup {LowestFree(k)}
         /\ NewTask(k, pri).sleeping = k.sleeping
         /\ NewTask(k, pri).blocked = k.blocked
         /\ NewTask(k, pri).priority = [k.priority EXCEPT ![LowestFree(k)] = pri]
         /\ NewTask(k, pri).sub_priority
              = [k.sub_priority EXCEPT ![LowestFree(k)] = PRI_INV]
         /\ NewTask(k, pri).wake_point = [k.wake_point EXCEPT ![LowestFree(k)] = 0]
         /\ NewTask(k, pri).tid_bitmap = k.tid_bitmap \cup {LowestFree(k)}
         /\ NewTask(k, pri).os_ticks = k.os_ticks
         /\ NewTask(k, pri).current = k.current
         /\ NewTask(k, pri).sched_ready = k.sched_ready
         /\ NewTask(k, pri).halted = k.halted
         /\ Ordered(k) => Ordered(NewTask(k, pri)) /\ PeersWait(k, NewTask(k, pri))
<1> DEFINE tid == LowestFree(k)
           status == [k.status EXCEPT ![tid] = "Terminated"]
           priority == [k.priority EXCEPT ![tid] = pri]
           sub == [k.sub_priority EXCEPT ![tid] = PRI_INV]
           slices == [k.time_slice EXCEPT ![tid] = TIME_SLICE]
           wakes == [k.wake_point EXCEPT ![tid] = 0]
           taken == k.tid_bitmap \cup {tid}
           j == [k EXCEPT !.tid_bitmap = taken, !.status = status,
                          !.priority = priority, !.sub_priority = sub,
                          !.time_slice = slices, !.wake_point = wakes]
           r == MakeReady(j, tid)
<1>0. k \in KernelState
  BY DEF Fit
<1>1. tid \in Tid /\ tid \notin k.tid_bitmap
  BY <1>0, LowestFreeLemma
<1>3. /\ k.status \in [Tid -> Status] /\ k.priority \in [Tid -> Priorities]
      /\ k.sub_priority \in [Tid -> Priorities \cup {PRI_INV}]
      /\ k.time_slice \in [Tid -> 0..TIME_SLICE]
      /\ k.wake_point \in [Tid -> Tick] /\ k.tid_bitmap \subseteq Tid
      /\ k.ready \in Seq(Tid) /\ k.sleeping \in Seq(Tid)
  BY <1>0 DEF KernelState
<1>2. NewTask(k, pri) = r
  <2> DEFINE twice == [[k.priority EXCEPT ![tid] = PRI_MIN] EXCEPT ![tid] = pri]
  <2>1. [AllocTid(k) EXCEPT !.priority[tid] = pri]
          = [k EXCEPT !.tid_bitmap = taken, !.status = status,
                      !.priority = twice, !.sub_priority = sub,
                      !.time_slice = slices, !.wake_point = wakes]
    BY <1>0 DEF AllocTid, KernelState
  <2>2. twice = priority
    BY <1>3
  <2> HIDE DEF twice, priority, sub, status, slices, wakes, taken
  <2>3. [AllocTid(k) EXCEPT !.priority[tid] = pri] = j
    BY <2>1, <2>2
  <2> QED
    BY <2>3 DEF NewTask
<1> HIDE DEF tid
<1>5. /\ "Terminated" \in Status /\ PRI_MIN \in Priorities /\ 0 \in Tick
      /\ TIME_SLICE \in 0..TIME_SLICE
  BY KernelAssumption DEF Status, Priorities, Tick
<1>6. /\ status \in [Tid -> Status] /\ priority \in [Tid -> Priorities]
      /\ sub \in [Tid -> Priorities \cup {PRI_INV}]
      /\ slices \in [Tid -> 0..TIME_SLICE] /\ wakes \in [Tid -> Tick]
      /\ taken \in SUBSET Tid
  BY <1>1, <1>3, <1>5
<1>7. \A t \in Tid \ {tid} : status[t] = k.status[t] /\ priority[t] = k.priority[t]
  BY <1>3
<1> HIDE DEF status, priority, sub, slices, wakes, taken
<1>8. j \in KernelState
  BY <1>0, <1>6 DEF KernelState
<1>9. /\ j.ready = k.ready /\ j.sleeping = k.sleeping /\ j.status = status
      /\ j.priority = priority /\ j.wake_point = wakes /\ j.current = k.current
      /\ j.halted = k.halted /\ j.os_ticks = k.os_ticks
      /\ j.sub_priority = sub /\ j.tid_bitmap = taken
      /\ j.blocked = k.blocked /\ j.sched_ready = k.sched_ready
  BY <1>0 DEF KernelState
<1> HIDE DEF j
<1>4. tid \notin Known(k)
  BY DEF tid
<1>10. FitBut(j, tid)
  BY <1>4, <1>7, <1>8, <1>9 DEF Fit, FitBut, Known
<1>11. /\ Fit(r) /\ SameTasks(j, r) /\ Range(r.ready) = Range(j.ready) \cup {tid}
       /\ r.sleeping = j.sleeping /\ r.wake_point = j.wake_point
       /\ r.current = j.current /\ r.halted = j.halted
       /\ Ordered(j) => Ordered(r) /\ PeersWait(j, r)
  BY <1>1, <1>10, FitMakeReady
<1> HIDE DEF r
<1>12. Range(k.ready) \subseteq Tid \ {tid}
  BY <1>3, <1>4 DEF Known, Range
<1>13. Ordered(k) => Ordered(r)
  <2>1. Ordered(k) => SortedBy(k.ready, priority)
    BY <1>3, <1>7, <1>12, SortedByOther DEF Ordered
  <2> QED
    BY <1>9, <1>11, <2>1 DEF Ordered
<1>15. Ordered(k) => PeersWait(k, r)
  <2>1. Ordered(k) => SortedBy(k.ready, priority)
    BY <1>3, <1>7, <1>12, SortedByOther DEF Ordered
  <2> QED
    BY <1>9, <1>11, <2>1 DEF Ordered, PeersWait
<1>14. /\ r.blocked = k.blocked /\ r.priority = priority /\ r.sub_priority = sub
       /\ r.tid_bitmap = taken /\ r.os_ticks = k.os_ticks
       /\ r.sched_ready = k.sched_ready /\ r.sleeping = k.sleeping
       /\ r.wake_point = wakes /\ r.current = k.current /\ r.halted = k.halted
       /\ Range(r.ready) = Range(k.ready) \cup {tid}
  BY <1>9, <1>11 DEF SameTasks
<1> QED
  BY <1>1, <1>2, <1>11, <1>13, <1>14, <1>15 DEF tid, priority, sub, wakes, taken

\* The kernel before launch with the first n tasks of pris created.
Created(k, pris, n) ==
  /\ Fit(k) /\ Ordered(k)
  /\ k.tid_bitmap = 0 .. n - 1 /\ Range(k.ready) = 0 .. n - 1
  /\ k.sleeping = << >> /\ k.blocked = << >> /\ k.os_ticks = 0
  /\ \A t \in 0 .. n - 1 : k.priority[t] = pris[t + 1]
  /\ \A t \in Tid : k.sub_priority[t] = PRI_INV
  /\ k.current = NoTask /\ ~k.sched_ready /\ ~k.halted

\* The statics before main runs.
LEMMA NothingCreated == \A pris : Created(KernelInit, pris, 0)
<1> DEFINE k == KernelInit
<1>1. k \in KernelState
  <2>1. << >> \in Seq(Tid)
    OBVIOUS
  <2>2. /\ "Terminated" \in Status /\ PRI_MIN \in Priorities /\ 0 \in Tick
        /\ TIME_SLICE \in 0..TIME_SLICE
    BY KernelAssumption DEF Status, Priorities, Tick
  <2> QED
    BY <2>1, <2>2 DEF KernelInit, KernelState
<1>2. /\ k.ready = << >> /\ k.sleeping = << >> /\ k.blocked = << >>
      /\ k.os_ticks = 0 /\ k.tid_bitmap = {} /\ k.current = NoTask
      /\ ~k.sched_ready /\ ~k.halted
      /\ \A t \in Tid : k.status[t] = "Terminated" /\ k.sub_priority[t] = PRI_INV
  BY DEF KernelInit
<1> HIDE DEF k
<1>3. Fit(k) /\ Ordered(k)
  BY <1>1, <1>2 DEF Fit, Ordered, SortedBy, IsInjective, Range
<1> QED
  BY <1>2, <1>3 DEF Created, Range, k

\* The next task gets the next tid.
LEMMA OneMoreCreated ==
  ASSUME NEW k, NEW pris, NEW n \in Nat, n < TASK_MAX, Created(k, pris, n),
         NEW pri \in Priorities
  PROVE  /\ LowestFree(k) = n
         /\ Fit(NewTask(k, pri)) /\ Ordered(NewTask(k, pri))
         /\ Range(NewTask(k, pri).ready) = 0 .. n
         /\ pris[n + 1] = pri => Created(NewTask(k, pri), pris, n + 1)
         /\ NewTask(k, pri).priority = [k.priority EXCEPT ![n] = pri]
         /\ \A t \in Tid : NewTask(k, pri).sub_priority[t] = PRI_INV
         /\ NewTask(k, pri).sleeping = << >> /\ NewTask(k, pri).os_ticks = 0
         /\ ~NewTask(k, pri).halted /\ NewTask(k, pri).tid_bitmap = 0 .. n
<1>1. n \in Tid /\ FreeTids(k) \in SUBSET Nat /\ n \in FreeTids(k)
  BY TaskMaxAssumption DEF Created, FreeTids, Tid
<1>2. LowestFree(k) \in FreeTids(k) /\ \A t \in FreeTids(k) : LowestFree(k) <= t
  BY <1>1, MinOfNats DEF LowestFree
<1>3. LowestFree(k) = n
  <2>1. LowestFree(k) \in Nat /\ LowestFree(k) <= n /\ ~(LowestFree(k) \in 0 .. n - 1)
    BY <1>1, <1>2 DEF Created, FreeTids
  <2> QED
    BY <2>1
<1>4. k \in KernelState /\ Fit(k) /\ n \notin Known(k) /\ FreeTids(k) # {}
  BY <1>1 DEF Created, Fit, Known, Range
<1> DEFINE r == NewTask(k, pri)
<1>5. /\ Fit(r) /\ Range(r.ready) = Range(k.ready) \cup {n}
      /\ r.sleeping = k.sleeping /\ r.blocked = k.blocked
      /\ r.priority = [k.priority EXCEPT ![n] = pri]
      /\ r.sub_priority = [k.sub_priority EXCEPT ![n] = PRI_INV]
      /\ r.tid_bitmap = k.tid_bitmap \cup {n} /\ r.os_ticks = k.os_ticks
      /\ r.current = k.current /\ r.sched_ready = k.sched_ready
      /\ r.halted = k.halted /\ (Ordered(k) => Ordered(r))
  BY <1>3, <1>4, FitNewTask
<1> HIDE DEF r
<1>6. k.priority \in [Tid -> Priorities] /\ k.sub_priority \in [Tid -> Priorities \cup {PRI_INV}]
  BY <1>4 DEF KernelState
<1>7. 0 .. n = (0 .. n - 1) \cup {n} /\ (0 .. (n + 1) - 1) = 0 .. n
  OBVIOUS
<1>8. pris[n + 1] = pri => \A t \in 0 .. n : r.priority[t] = pris[t + 1]
  <2>1. \A t \in 0 .. n : t \in Tid
    BY TaskMaxAssumption DEF Tid
  <2> QED
    BY <1>5, <1>6, <1>7, <2>1 DEF Created
<1>9. \A t \in Tid : r.sub_priority[t] = PRI_INV
  BY <1>5, <1>6 DEF Created
<1>10. Range(r.ready) = 0 .. n /\ r.tid_bitmap = 0 .. n
  BY <1>5, <1>7 DEF Created
<1>11. pris[n + 1] = pri => Created(r, pris, n + 1)
  BY <1>5, <1>7, <1>8, <1>9, <1>10 DEF Created
<1> QED
  BY <1>3, <1>5, <1>9, <1>10, <1>11 DEF Created, r

\* The recursive function in LaunchedWith exists: task i is created in what the
\* creation of task i - 1 left.
LEMMA BootRounds ==
  ASSUME NEW pris, Len(pris) \in Nat
  PROVE  \E w : /\ w[0] = KernelInit
                /\ \A i \in 1..Len(pris) : w[i] = CreateTask(w[i - 1], pris[i])
                /\ LaunchedWith(pris) = LaunchKernel(w[Len(pris)])
<1> DEFINE Rounds(w, n) ==
             w = [i \in 0..n |-> IF i = 0 THEN KernelInit
                                 ELSE CreateTask(w[i - 1], pris[i])]
           T == {n \in Nat : ~ \E w : Rounds(w, n)}
<1>1. T = {}
  <2> SUFFICES ASSUME T # {} PROVE FALSE
    OBVIOUS
  <2>1. Min(T) \in T /\ \A y \in T : Min(T) <= y
    <3>1. T \in SUBSET Nat
      OBVIOUS
    <3> HIDE DEF T
    <3> QED BY <3>1, MinOfNats
  <2> DEFINE m == Min(T)
  <2>2. m \in Nat /\ (\A w : ~Rounds(w, m)) /\ \A y \in T : m <= y
    BY <2>1
  <2> HIDE DEF m
  <2>3. CASE m = 0
    <3>1. Rounds([i \in 0..0 |-> KernelInit], 0)
      OBVIOUS
    <3> QED
      BY <2>2, <2>3, <3>1
  <2>4. CASE m # 0
    <3>1. m - 1 \in Nat /\ m - 1 \notin T
      <4> HIDE DEF T
      <4>1. m - 1 \in Nat /\ ~(m <= m - 1)
        BY <2>2, <2>4
      <4> QED
        BY <2>2, <4>1
    <3>2. PICK w : Rounds(w, m - 1)
      BY <3>1
    <3> DEFINE v == [i \in 0..m |-> IF i = m THEN CreateTask(w[m - 1], pris[m])
                                    ELSE w[i]]
    <3>3. \A i \in 0..m : v[i] = IF i = 0 THEN KernelInit
                                 ELSE CreateTask(v[i - 1], pris[i])
      <4> SUFFICES ASSUME NEW i \in 0..m
                   PROVE  v[i] = IF i = 0 THEN KernelInit
                                 ELSE CreateTask(v[i - 1], pris[i])
        OBVIOUS
      <4>1. CASE i = m
        <5>1. v[i] = CreateTask(w[m - 1], pris[m]) /\ v[m - 1] = w[m - 1]
          BY <2>2, <2>4, <4>1
        <5> QED
          BY <2>4, <4>1, <5>1
      <4>2. CASE i # m
        <5>1. i \in 0..m - 1 /\ v[i] = w[i]
          BY <2>2, <4>2
        <5>2. w[i] = IF i = 0 THEN KernelInit ELSE CreateTask(w[i - 1], pris[i])
          BY <3>2, <5>1
        <5>3. i # 0 => v[i - 1] = w[i - 1]
          BY <2>2, <4>2, <5>1
        <5> QED
          BY <5>1, <5>2, <5>3
      <4> QED
        BY <4>1, <4>2
    <3>4. Rounds(v, m)
      <4> DEFINE u == [i \in 0..m |-> IF i = 0 THEN KernelInit
                                      ELSE CreateTask(v[i - 1], pris[i])]
      <4>1. v = u
        BY <3>3
      <4> QED
        BY <4>1
    <3> QED
      BY <2>2, <3>4
  <2> QED
    BY <2>3, <2>4
<1> DEFINE n == Len(pris)
           w == CHOOSE f : Rounds(f, n)
<1>2. Rounds(w, n)
  <2>1. n \notin T
    BY <1>1
  <2>2. \E f : Rounds(f, n)
    BY <2>1
  <2> QED
    BY <2>2
<1>3. LaunchedWith(pris) = LaunchKernel(w[n])
  BY DEF LaunchedWith
<1>4. w[0] = KernelInit /\ \A i \in 1..n : w[i] = CreateTask(w[i - 1], pris[i])
  <2> HIDE DEF w
  <2> QED BY <1>2
<1> QED
  <2> HIDE DEF w
  <2> QED BY <1>3, <1>4

\* All tasks of main are created.
LEMMA AllCreated ==
  ASSUME NEW pris \in Seq(Priorities), Len(pris) < TASK_MAX
  PROVE  \E k : Created(k, pris, Len(pris)) /\ LaunchedWith(pris) = LaunchKernel(k)
<1> DEFINE n == Len(pris)
<1>1. PICK w : /\ w[0] = KernelInit
               /\ \A i \in 1..n : w[i] = CreateTask(w[i - 1], pris[i])
               /\ LaunchedWith(pris) = LaunchKernel(w[n])
  BY BootRounds
<1> DEFINE T == {i \in 0..n : ~Created(w[i], pris, i)}
<1>2. T = {}
  <2> SUFFICES ASSUME T # {} PROVE FALSE
    OBVIOUS
  <2> DEFINE m == Min(T)
  <2>1. m \in T /\ \A y \in T : m <= y
    <3>1. T \in SUBSET Nat
      OBVIOUS
    <3> HIDE DEF T
    <3> QED BY <3>1, MinOfNats
  <2>2. m \in 0..n /\ ~Created(w[m], pris, m)
    BY <2>1
  <2>3. m # 0
    <3> HIDE DEF m
    <3> QED BY <1>1, <2>2, NothingCreated
  <2>4. m \in 1..n /\ m - 1 \in 0..n /\ ~(m <= m - 1)
    <3> HIDE DEF T, m
    <3> QED BY <2>2, <2>3
  <2>5. Created(w[m - 1], pris, m - 1)
    <3>1. m - 1 \notin T
      <4> HIDE DEF T, m
      <4> QED BY <2>1, <2>4
    <3> HIDE DEF m
    <3> QED BY <2>4, <3>1
  <2> HIDE DEF T, m
  <2>6. w[m] = NewTask(w[m - 1], pris[m])
    BY <1>1, <2>4, <2>5 DEF CreateTask, Created
  <2>7. m - 1 \in Nat /\ m - 1 < TASK_MAX /\ (m - 1) + 1 = m /\ pris[m] \in Priorities
    BY <2>4, TaskMaxAssumption
  <2>8. Created(NewTask(w[m - 1], pris[m]), pris, (m - 1) + 1)
    BY <2>5, <2>7, OneMoreCreated
  <2> QED
    BY <2>2, <2>6, <2>7, <2>8
<1> QED
  BY <1>1, <1>2

\* Scheduler::launch with the tasks of main: they and the idle task are ready,
\* with the priorities they were created with, and the front of the list runs.
LEMMA FitLaunchedWith ==
  ASSUME NEW pris \in Seq(Priorities), Len(pris) < TASK_MAX
  PROVE  /\ Fit(LaunchedWith(pris)) /\ Ordered(LaunchedWith(pris))
         /\ Foremost(LaunchedWith(pris))
         /\ Range(LaunchedWith(pris).ready) = 0 .. Len(pris)
         /\ LaunchedWith(pris).sleeping = << >>
         /\ \A t \in 0 .. Len(pris) - 1 : LaunchedWith(pris).priority[t] = pris[t + 1]
         /\ \A t \in Tid : LaunchedWith(pris).sub_priority[t] = PRI_INV
         /\ LaunchedWith(pris).current \in Tid
         /\ LaunchedWith(pris).current \in Range(LaunchedWith(pris).ready)
         /\ LaunchedWith(pris).os_ticks = 0
         /\ LaunchedWith(pris).tid_bitmap = 0 .. Len(pris)
         /\ LaunchedWith(pris).sched_ready
         /\ ~LaunchedWith(pris).halted
<1> DEFINE n == Len(pris)
<1>1. PICK k : Created(k, pris, n) /\ LaunchedWith(pris) = LaunchKernel(k)
  BY AllCreated
<1> DEFINE m == NewTask(k, PRI_MIN)
           st == Head(m.ready)
           status == [m.status EXCEPT ![st] = "Running"]
           r == [m EXCEPT !.status = status, !.current = st, !.sched_ready = TRUE]
<1>2. PRI_MIN \in Priorities /\ n \in Nat
  BY KernelAssumption DEF Priorities
<1>3. /\ Fit(m) /\ Ordered(m) /\ Range(m.ready) = 0 .. n
      /\ m.priority = [k.priority EXCEPT ![n] = PRI_MIN]
      /\ \A t \in Tid : m.sub_priority[t] = PRI_INV
      /\ m.sleeping = << >> /\ m.os_ticks = 0 /\ ~m.halted
      /\ m.tid_bitmap = 0 .. n
  BY <1>1, <1>2, OneMoreCreated
<1>4. LaunchKernel(k) = r
  BY <1>1 DEF LaunchKernel, CreateTask, Created
<1> HIDE DEF m
<1>5. m \in KernelState /\ m.ready \in Seq(Tid) /\ m.status \in [Tid -> Status]
  BY <1>3 DEF Fit, KernelState
<1>6. st \in Tid /\ st \in Range(m.ready) /\ m.ready # << >>
  <2>1. 0 \in Range(m.ready)
    BY <1>2, <1>3
  <2>2. m.ready # << >>
    BY <2>1 DEF Range
  <2>3. st = m.ready[1] /\ 1 \in DOMAIN m.ready
    BY <1>5, <2>2, HeadTailProperties
  <2> QED
    BY <1>5, <2>2, <2>3 DEF Range
<1>7. \A t \in Range(m.ready) : m.priority[st] <= m.priority[t]
  BY <1>3, <1>5, <1>6, FrontIsForemost
<1> HIDE DEF st
<1>8. /\ status \in [Tid -> Status]
      /\ \A t \in Tid : status[t] = IF t = st THEN "Running" ELSE m.status[t]
  BY <1>5 DEF Status
<1> HIDE DEF status
<1>9. r \in KernelState
  BY <1>5, <1>6, <1>8 DEF KernelState
<1>10. /\ r.ready = m.ready /\ r.sleeping = m.sleeping /\ r.status = status
       /\ r.priority = m.priority /\ r.sub_priority = m.sub_priority
       /\ r.current = st /\ r.halted = m.halted /\ r.os_ticks = m.os_ticks
       /\ r.tid_bitmap = m.tid_bitmap /\ r.sched_ready
  BY <1>5 DEF KernelState
<1> HIDE DEF r
<1>11. Fit(r)
  BY <1>3, <1>6, <1>8, <1>9, <1>10 DEF Fit
<1>12. Ordered(r) /\ Foremost(r)
  BY <1>3, <1>7, <1>10 DEF Ordered, Foremost
<1>13. \A t \in 0 .. n - 1 : r.priority[t] = pris[t + 1]
  <2>1. \A t \in 0 .. n - 1 : t \in Tid /\ t # n
    BY <1>2, TaskMaxAssumption DEF Tid
  <2>2. k.priority \in [Tid -> Priorities]
    BY <1>1 DEF Created, Fit, KernelState
  <2> QED
    BY <1>1, <1>3, <1>10, <2>1, <2>2 DEF Created
<1> QED
  BY <1>1, <1>3, <1>4, <1>6, <1>10, <1>11, <1>12, <1>13

-----------------------------------------------------------------------------
(* Kernels in which some tasks stand on a list twice, or on two lists: a   *)
(* waiter of down_timeout that an up makes ready stays in SLEEPING_LIST.   *)
(* A full list then loses whom it cannot take; of the tasks in T all that  *)
(* is known is that each stands in one place at most.                      *)

Loose(k, T) ==
  /\ k \in KernelState /\ k.current \in Tid
  /\ Single(k.ready, T) /\ Single(k.sleeping, T)
  /\ T \cap Range(k.ready) \cap Range(k.sleeping) = {}
  /\ \A t \in T \cap Range(k.sleeping) : k.status[t] = "Blocked"

\* r is k after some sleepers have become ready; those that a full list loses the
\* scheduler has forgotten.
Eased(k, r, T) ==
  /\ Loose(r, T) /\ SameTasks(k, r)
  /\ Known(r) \subseteq Known(k)
  /\ \A t \in Tid \ Known(k) : r.status[t] = k.status[t]
  /\ Range(k.ready) \subseteq Range(r.ready)
  /\ r.current = k.current /\ r.halted = k.halted

\* What launch leaves is as tidy as this asks for.
LEMMA FitIsLoose ==
  ASSUME NEW k, Fit(k), k.current \in Tid, k.sleeping = << >>, NEW T
  PROVE  Loose(k, T)
<1>1. /\ k \in KernelState /\ IsInjective(k.ready) /\ IsInjective(k.sleeping)
      /\ Range(k.ready) \cap Range(k.sleeping) = {} /\ Range(k.sleeping) = {}
  BY DEF Fit, Range
<1>2. Single(k.ready, T) /\ Single(k.sleeping, T)
  BY <1>1 DEF Single, IsInjective, KernelState
<1> QED
  BY <1>1, <1>2 DEF Loose

\* Status Ready and a place in READY_LIST if there is one, for a task that is not
\* in T or stood nowhere.
LEMMA LooseMakeReady ==
  ASSUME NEW k, NEW T, Loose(k, T), NEW tid \in Tid, tid \notin T \/ tid \notin Known(k)
  PROVE  /\ Loose(MakeReady(k, tid), T) /\ SameTasks(k, MakeReady(k, tid))
         /\ Known(MakeReady(k, tid)) \subseteq Known(k) \cup {tid}
         /\ Range(k.ready) \subseteq Range(MakeReady(k, tid).ready)
         /\ MakeReady(k, tid).status = [k.status EXCEPT ![tid] = "Ready"]
         /\ MakeReady(k, tid).current = k.current
         /\ MakeReady(k, tid).halted = k.halted
<1> DEFINE list == InsertInOrder(k.ready, tid, k.priority)
           status == [k.status EXCEPT ![tid] = "Ready"]
           r == [k EXCEPT !.status = status, !.ready = list]
<1>1. /\ k \in KernelState /\ k.ready \in Seq(Tid) /\ k.status \in [Tid -> Status]
      /\ k.priority \in [Tid -> Nat]
  BY KernelAssumption DEF Loose, KernelState, Priorities
<1>2. /\ list \in Seq(Tid) /\ Range(k.ready) \subseteq Range(list)
      /\ Range(list) \subseteq Range(k.ready) \cup {tid}
      /\ Single(list, T)
  BY <1>1, InsertSingle DEF Loose, Known
<1>3. status \in [Tid -> Status]
  BY <1>1 DEF Status
<1>4. MakeReady(k, tid) = r
  BY DEF MakeReady
<1> HIDE DEF list, status
<1>5. r \in KernelState
  BY <1>1, <1>2, <1>3 DEF KernelState
<1>6. /\ SameTasks(k, r) /\ r.ready = list /\ r.sleeping = k.sleeping
      /\ r.status = status /\ r.current = k.current /\ r.halted = k.halted
  BY <1>1 DEF KernelState, SameTasks
<1> HIDE DEF r
<1>7. /\ T \cap Range(list) \cap Range(k.sleeping) = {}
      /\ \A t \in T \cap Range(k.sleeping) : status[t] = "Blocked"
  <2>0. Range(k.sleeping) \subseteq Tid
    BY <1>1 DEF KernelState, Range
  <2>1. \A t \in T \cap Range(k.sleeping) :
          t \notin Range(k.ready) /\ t # tid /\ k.status[t] = "Blocked" /\ t \in Tid
    BY <2>0 DEF Loose, Known
  <2> QED
    BY <1>1, <1>2, <2>1 DEF status
<1> QED
  BY <1>2, <1>4, <1>5, <1>6, <1>7 DEF Loose, Known, status

\* One round of the scan.
LEMMA LooseWakeOne ==
  ASSUME NEW k, NEW T, Loose(k, T)
  PROVE  Eased(k, WakeOne(k), T)
<1> DEFINE D == {j \in 1..Len(k.sleeping) : Due(k, k.sleeping[j])}
<1>1. /\ k \in KernelState /\ k.sleeping \in Seq(Tid) /\ k.wake_point \in [Tid -> Tick]
  BY DEF Loose, KernelState
<1>2. CASE D = {}
  <2>1. WakeOne(k) = k
    BY <1>2 DEF WakeOne
  <2> QED
    BY <2>1 DEF Eased, SameTasks
<1>3. CASE D # {}
  <2> DEFINE i == Min(D)
             tid == k.sleeping[i]
             rest == RemoveAt(k.sleeping, i)
             wakes == [k.wake_point EXCEPT ![tid] = 0]
             j == [k EXCEPT !.sleeping = rest, !.wake_point = wakes]
  <2>1. i \in 1..Len(k.sleeping)
    <3>1. D \in SUBSET Nat
      OBVIOUS
    <3>2. Min(D) \in D
      <4> HIDE DEF D
      <4> QED BY <1>3, <3>1, MinOfNats
    <3> QED
      BY <3>2
  <2>2. WakeOne(k) = MakeReady(j, tid)
    BY <1>3 DEF WakeOne
  <2> HIDE DEF D, i
  <2>3. tid \in Tid /\ tid \in Range(k.sleeping)
    BY <1>1, <2>1 DEF Range
  <2>4. /\ rest \in Seq(Tid) /\ Range(rest) \subseteq Range(k.sleeping)
        /\ Single(rest, T) /\ (tid \in T => tid \notin Range(rest))
    BY <1>1, <2>1, RemoveSingle DEF Loose
  <2>5. wakes \in [Tid -> Tick]
    <3>1. 0 \in Tick
      BY KernelAssumption DEF Tick
    <3> QED
      BY <1>1, <3>1
  <2> HIDE DEF rest, wakes, tid
  <2>6. j \in KernelState
    BY <1>1, <2>4, <2>5 DEF KernelState
  <2>7. /\ j.sleeping = rest /\ j.ready = k.ready /\ j.status = k.status
        /\ j.current = k.current
        /\ j.halted = k.halted /\ SameTasks(k, j)
    BY <1>1 DEF KernelState, SameTasks
  <2> HIDE DEF j
  <2>8. Loose(j, T) /\ (tid \notin T \/ tid \notin Known(j))
    BY <2>3, <2>4, <2>6, <2>7 DEF Loose, Known
  <2> DEFINE r == MakeReady(j, tid)
  <2>9. /\ Loose(r, T) /\ SameTasks(j, r) /\ Known(r) \subseteq Known(j) \cup {tid}
        /\ Range(j.ready) \subseteq Range(r.ready)
        /\ r.status = [j.status EXCEPT ![tid] = "Ready"]
        /\ r.current = j.current /\ r.halted = j.halted
    BY <2>3, <2>8, LooseMakeReady
  <2>10. WakeOne(k) = r
    BY <2>2
  <2> HIDE DEF r
  <2>11. Known(r) \subseteq Known(k)
    BY <2>3, <2>4, <2>7, <2>9 DEF Known
  <2>12. \A t \in Tid \ Known(k) : r.status[t] = k.status[t]
    <3>1. tid \in Known(k) /\ k.status \in [Tid -> Status]
      BY <1>1, <2>3 DEF Known, KernelState
    <3> QED
      BY <2>7, <2>9, <3>1
  <2> QED
    BY <2>7, <2>9, <2>10, <2>11, <2>12 DEF Eased, SameTasks
<1> QED
  BY <1>2, <1>3

\* The whole scan.
LEMMA LooseWakeUpSleepers ==
  ASSUME NEW k, NEW T, Loose(k, T)
  PROVE  Eased(k, WakeUpSleepers(k), T)
<1> DEFINE n == Len(k.sleeping)
           H == {r \in KernelState : Eased(k, r, T)}
           G == [i \in 0..n |-> H]
<1>1. n \in Nat /\ k \in KernelState
  BY DEF Loose, KernelState
<1>2. k \in H
  BY <1>1 DEF Eased, SameTasks
<1>3. ASSUME NEW r \in H PROVE WakeOne(r) \in H
  <2> DEFINE q == WakeOne(r)
  <2>1. Eased(k, r, T)
    BY <1>3
  <2>2. Eased(r, q, T)
    BY <2>1, LooseWakeOne DEF Eased
  <2> HIDE DEF q
  <2>3. Eased(k, q, T) /\ q \in KernelState
    BY <2>1, <2>2 DEF Eased, SameTasks, Loose
  <2> QED
    BY <2>3 DEF q
<1>4. WakeUpSleepers(k) \in G[n]
  <2>1. k \in G[0] /\ \A i \in 1..n : \A r \in G[i - 1] : WakeOne(r) \in G[i]
    <3> HIDE DEF H
    <3>1. \A i \in 0..n : G[i] = H
      OBVIOUS
    <3>2. 0 \in 0..n /\ \A i \in 1..n : i \in 0..n /\ i - 1 \in 0..n
      BY <1>1
    <3> HIDE DEF G
    <3> QED
      BY <1>2, <1>3, <3>1, <3>2
  <2> HIDE DEF G
  <2> QED
    BY <1>1, <2>1, WakeInduction
<1>5. WakeUpSleepers(k) \in H
  <2> HIDE DEF H
  <2> QED BY <1>1, <1>4
<1> QED
  BY <1>5

\* next_tcb, first half: the task that was running goes to the end of its priority,
\* unless the list has filled up.
LEMMA LooseRequeue ==
  ASSUME NEW k, NEW T, Loose(k, T)
  PROVE  /\ Loose(RequeueCurrent(k), T) /\ SameTasks(k, RequeueCurrent(k))
         /\ Known(RequeueCurrent(k)) \subseteq
              IF k.status[k.current] = "Blocked" THEN Known(k)
              ELSE Known(k) \cup {k.current}
         /\ RequeueCurrent(k).current = k.current
         /\ RequeueCurrent(k).halted = k.halted
<1> DEFINE cr == k.current
           list == Drop(k.ready, cr)
           slices == [k.time_slice EXCEPT ![cr] = TIME_SLICE]
           a == [k EXCEPT !.ready = list]
           b == [k EXCEPT !.time_slice = slices, !.ready = list]
<1>1. /\ k \in KernelState /\ k.ready \in Seq(Tid) /\ cr \in Tid
      /\ k.time_slice \in [Tid -> 0..TIME_SLICE]
  BY DEF Loose, KernelState
<1>2. /\ list \in Seq(Tid) /\ Range(list) \subseteq Range(k.ready)
      /\ Single(list, T) /\ (cr \in T => cr \notin Range(list))
  BY <1>1, DropSingle DEF Loose
<1>3. slices \in [Tid -> 0..TIME_SLICE]
  BY <1>1, KernelAssumption
<1> HIDE DEF list, slices
<1>4. CASE k.status[cr] \in {"Terminated", "Blocked"}
  <2>1. RequeueCurrent(k) = a
    BY <1>4 DEF RequeueCurrent, list
  <2>2. a \in KernelState
    BY <1>1, <1>2 DEF KernelState
  <2>3. /\ SameTasks(k, a) /\ a.ready = list /\ a.sleeping = k.sleeping
        /\ a.status = k.status /\ a.current = k.current /\ a.halted = k.halted
    BY <1>1 DEF KernelState, SameTasks
  <2> HIDE DEF a
  <2>4. Loose(a, T)
    BY <1>1, <1>2, <2>2, <2>3 DEF Loose
  <2> QED
    BY <1>2, <2>1, <2>3, <2>4 DEF Known
<1>5. CASE /\ k.status[cr] \notin {"Terminated", "Blocked"}
           /\ k.time_slice[cr] = 0 \/ k.status[cr] = "Running"
  <2> DEFINE r == MakeReady(b, cr)
  <2>1. RequeueCurrent(k) = r
    BY <1>5 DEF RequeueCurrent, list, slices
  <2>2. b \in KernelState
    BY <1>1, <1>2, <1>3 DEF KernelState
  <2>3. /\ SameTasks(k, b) /\ b.ready = list /\ b.sleeping = k.sleeping
        /\ b.status = k.status /\ b.current = cr /\ b.halted = k.halted
    BY <1>1 DEF KernelState, SameTasks
  <2> HIDE DEF b
  <2>4. Loose(b, T)
    BY <1>1, <1>2, <2>2, <2>3 DEF Loose
  <2>5. cr \notin T \/ cr \notin Known(b)
    BY <1>2, <1>5, <2>3 DEF Loose, Known
  <2>6. /\ Loose(r, T) /\ SameTasks(b, r) /\ Known(r) \subseteq Known(b) \cup {cr}
        /\ r.current = b.current /\ r.halted = b.halted
    BY <1>1, <2>4, <2>5, LooseMakeReady
  <2> HIDE DEF r
  <2>7. Known(r) \subseteq Known(k) \cup {cr}
    BY <1>2, <2>3, <2>6 DEF Known
  <2>8. SameTasks(k, r)
    BY <2>3, <2>6 DEF SameTasks
  <2> QED
    BY <1>5, <2>1, <2>3, <2>6, <2>7, <2>8
<1>6. CASE /\ k.status[cr] \notin {"Terminated", "Blocked"}
           /\ ~(k.time_slice[cr] = 0 \/ k.status[cr] = "Running")
  <2>1. RequeueCurrent(k) = k
    BY <1>6 DEF RequeueCurrent
  <2> QED
    BY <2>1 DEF SameTasks
<1> QED
  BY <1>4, <1>5, <1>6

\* What next_tcb makes of such a kernel, whose current task stands somewhere, is
\* Blocked, or is not in T.
Resumed(k, r, T) ==
  /\ Loose(r, T) /\ SameTasks(k, r)
  /\ T \cap Known(r) \subseteq Known(k)
  /\ ~r.halted => r.current \in Range(r.ready)

\* next_tcb.
LEMMA LooseNextTcb ==
  ASSUME NEW k, NEW T, Loose(k, T),
         \/ k.current \notin T
         \/ k.current \in Known(k)
         \/ k.status[k.current] = "Blocked"
  PROVE  Resumed(k, NextTcb(k), T)
<1> DEFINE a == WakeUpSleepers(k)
           b == RequeueCurrent(a)
           st == Head(b.ready)
           status == [b.status EXCEPT ![st] = "Running"]
           r == [b EXCEPT !.status = status, !.current = st]
           q == [b EXCEPT !.halted = TRUE]
<1>1. Eased(k, a, T)
  BY LooseWakeUpSleepers
<1> HIDE DEF a
<1>2. /\ Loose(b, T) /\ SameTasks(a, b)
      /\ Known(b) \subseteq IF a.status[a.current] = "Blocked" THEN Known(a)
                            ELSE Known(a) \cup {a.current}
      /\ b.current = a.current /\ b.halted = a.halted
  BY <1>1, LooseRequeue DEF Eased
<1>3. NextTcb(k) = Dispatch(b)
  BY DEF NextTcb, a
<1> HIDE DEF b
<1>4. SameTasks(k, b) /\ T \cap Known(b) \subseteq Known(k)
  <2>1. a.current = k.current /\ k.current \in Tid
    BY <1>1 DEF Eased, Loose
  <2>2. k.current \notin Known(k) => a.status[a.current] = k.status[k.current]
    BY <1>1, <2>1 DEF Eased
  <2>3. T \cap Known(b) \subseteq Known(k)
    BY <1>1, <1>2, <2>1, <2>2 DEF Eased
  <2> QED
    BY <1>1, <1>2, <2>3 DEF Eased, SameTasks
<1>5. /\ b \in KernelState /\ b.ready \in Seq(Tid) /\ b.current \in Tid
      /\ b.status \in [Tid -> Status]
  BY <1>2 DEF Loose, KernelState
<1>6. CASE b.ready = << >>
  <2>1. NextTcb(k) = q
    BY <1>3, <1>6 DEF Dispatch
  <2>2. q \in KernelState
    BY <1>5 DEF KernelState
  <2>3. /\ q.ready = b.ready /\ q.sleeping = b.sleeping /\ q.status = b.status
        /\ q.current = b.current /\ q.halted /\ SameTasks(b, q)
    BY <1>5 DEF KernelState, SameTasks
  <2> HIDE DEF q
  <2>4. Loose(q, T)
    BY <1>2, <2>2, <2>3 DEF Loose
  <2> QED
    BY <1>4, <2>1, <2>3, <2>4 DEF Resumed, Known, SameTasks
<1>7. CASE b.ready # << >>
  <2>1. st \in Range(b.ready) /\ st \in Tid
    <3>1. st = b.ready[1] /\ 1 \in DOMAIN b.ready
      BY <1>5, <1>7, HeadTailProperties
    <3> QED
      BY <1>5, <3>1 DEF Range
  <2>2. CASE st = b.current
    <3>1. NextTcb(k) = b
      BY <1>3, <1>7, <2>2 DEF Dispatch
    <3> QED
      BY <1>2, <1>4, <2>1, <2>2, <3>1 DEF Resumed
  <2>3. CASE st # b.current
    <3>1. NextTcb(k) = r
      BY <1>3, <1>7, <2>3 DEF Dispatch
    <3> HIDE DEF st
    <3>2. /\ status \in [Tid -> Status]
          /\ \A t \in Tid : status[t] = IF t = st THEN "Running" ELSE b.status[t]
      BY <1>5 DEF Status
    <3> HIDE DEF status
    <3>3. r \in KernelState
      BY <1>5, <2>1, <3>2 DEF KernelState
    <3>4. /\ r.ready = b.ready /\ r.sleeping = b.sleeping /\ r.status = status
          /\ r.current = st /\ r.halted = b.halted /\ SameTasks(b, r)
      BY <1>5 DEF KernelState, SameTasks
    <3> HIDE DEF r
    <3>5. \A t \in T \cap Range(r.sleeping) : r.status[t] = "Blocked"
      <4>0. Range(b.sleeping) \subseteq Tid
        BY <1>5 DEF KernelState, Range
      <4>1. \A t \in T \cap Range(b.sleeping) :
              t \notin Range(b.ready) /\ b.status[t] = "Blocked" /\ t \in Tid
        BY <1>2, <4>0 DEF Loose
      <4> QED
        BY <2>1, <3>2, <3>4, <4>1
    <3>6. Loose(r, T)
      BY <1>2, <2>1, <3>3, <3>4, <3>5 DEF Loose
    <3> QED
      BY <1>4, <2>1, <3>1, <3>4, <3>6 DEF Resumed, Known, SameTasks
  <2> QED
    BY <2>2, <2>3
<1> QED
  BY <1>6, <1>7

\* A task comes off READY_LIST, once: in T that is for good.
LEMMA LooseTakeOff ==
  ASSUME NEW k, NEW T, Loose(k, T), NEW tid \in Tid
  PROVE  /\ Loose(TakeOff(k, tid), T) /\ SameTasks(k, TakeOff(k, tid))
         /\ Known(TakeOff(k, tid)) \subseteq Known(k)
         /\ tid \in T => tid \notin Range(TakeOff(k, tid).ready)
         /\ TakeOff(k, tid).status[tid] = "Blocked"
         /\ TakeOff(k, tid).sleeping = k.sleeping
         /\ TakeOff(k, tid).current = k.current
         /\ TakeOff(k, tid).halted = k.halted
<1> DEFINE list == Drop(k.ready, tid)
           status == [k.status EXCEPT ![tid] = "Blocked"]
           r == [k EXCEPT !.status = status, !.ready = list]
<1>1. k \in KernelState /\ k.ready \in Seq(Tid) /\ k.status \in [Tid -> Status]
  BY DEF Loose, KernelState
<1>2. /\ list \in Seq(Tid) /\ Range(list) \subseteq Range(k.ready)
      /\ Single(list, T) /\ (tid \in T => tid \notin Range(list))
  BY <1>1, DropSingle DEF Loose
<1>3. /\ status \in [Tid -> Status]
      /\ \A t \in Tid : status[t] = IF t = tid THEN "Blocked" ELSE k.status[t]
  BY <1>1 DEF Status
<1>4. TakeOff(k, tid) = r
  BY DEF TakeOff
<1> HIDE DEF list, status
<1>5. r \in KernelState
  BY <1>1, <1>2, <1>3 DEF KernelState
<1>6. /\ SameTasks(k, r) /\ r.ready = list /\ r.sleeping = k.sleeping
      /\ r.status = status /\ r.current = k.current /\ r.halted = k.halted
  BY <1>1 DEF KernelState, SameTasks
<1> HIDE DEF r
<1>7. \A t \in T \cap Range(k.sleeping) : status[t] = "Blocked"
  <2>1. Range(k.sleeping) \subseteq Tid
    BY <1>1 DEF KernelState, Range
  <2> QED
    BY <1>3, <2>1 DEF Loose
<1>8. Loose(r, T)
  BY <1>2, <1>5, <1>6, <1>7 DEF Loose
<1> QED
  BY <1>2, <1>3, <1>4, <1>6, <1>8 DEF Known

\* A blocked task goes to sleep, for the first time if it is in T.
LEMMA LooseSleepUntil ==
  ASSUME NEW k, NEW T, Loose(k, T), NEW tid \in Tid, NEW wake \in Tick,
         k.status[tid] = "Blocked", tid \notin T \/ tid \notin Known(k)
  PROVE  /\ Loose(SleepUntil(k, tid, wake), T) /\ SameTasks(k, SleepUntil(k, tid, wake))
         /\ Known(SleepUntil(k, tid, wake)) \subseteq Known(k) \cup {tid}
         /\ SleepUntil(k, tid, wake).status = k.status
         /\ SleepUntil(k, tid, wake).current = k.current
         /\ SleepUntil(k, tid, wake).halted = k.halted
<1> DEFINE wakes == [k.wake_point EXCEPT ![tid] = wake]
           list == InsertInOrder(k.sleeping, tid, wakes)
           r == [k EXCEPT !.wake_point = wakes, !.sleeping = list]
<1>1. /\ k \in KernelState /\ k.sleeping \in Seq(Tid)
      /\ k.wake_point \in [Tid -> Tick]
  BY DEF Loose, KernelState
<1>2. wakes \in [Tid -> Tick] /\ wakes \in [Tid -> Nat]
  BY <1>1, KernelAssumption DEF Tick
<1>3. SleepUntil(k, tid, wake) = r
  BY DEF SleepUntil
<1> HIDE DEF wakes
<1>4. /\ list \in Seq(Tid) /\ Range(list) \subseteq Range(k.sleeping) \cup {tid}
      /\ Single(list, T)
  BY <1>1, <1>2, InsertSingle DEF Loose, Known
<1> HIDE DEF list
<1>5. r \in KernelState
  BY <1>1, <1>2, <1>4 DEF KernelState
<1>6. /\ SameTasks(k, r) /\ r.ready = k.ready /\ r.sleeping = list
      /\ r.status = k.status /\ r.current = k.current /\ r.halted = k.halted
  BY <1>1 DEF KernelState, SameTasks
<1> HIDE DEF r
<1>7. Loose(r, T)
  BY <1>4, <1>5, <1>6 DEF Loose, Known
<1> QED
  BY <1>3, <1>4, <1>6, <1>7 DEF Known

\* A delay of the running task.
LEMMA LooseDelay ==
  ASSUME NEW k, NEW T, Loose(k, T), k.current \in Range(k.ready), NEW ticks \in Nat
  PROVE  Resumed(k, DelayCurrent(k, ticks), T)
<1> DEFINE cr == k.current
           wake == WakeTime(k, ticks)
           j == TakeOff(k, cr)
           a == SleepUntil(j, cr, wake)
           r == NextTcb(a)
<1>1. cr \in Tid /\ k \in KernelState /\ (cr \in T => cr \notin Range(k.sleeping))
  BY DEF Loose
<1>2. wake \in Tick
  BY <1>1, KernelAssumption DEF WakeTime, KernelState, Tick
<1>3. DelayCurrent(k, ticks) = r
  BY DEF DelayCurrent
<1> HIDE DEF wake
<1>4. /\ Loose(j, T) /\ SameTasks(k, j) /\ Known(j) \subseteq Known(k)
      /\ cr \in T => cr \notin Range(j.ready)
      /\ j.status[cr] = "Blocked" /\ j.sleeping = k.sleeping /\ j.current = cr
  BY <1>1, LooseTakeOff
<1> HIDE DEF j
<1>5. cr \notin T \/ cr \notin Known(j)
  BY <1>1, <1>4 DEF Known
<1>6. /\ Loose(a, T) /\ SameTasks(j, a) /\ Known(a) \subseteq Known(j) \cup {cr}
      /\ a.status = j.status /\ a.current = j.current
  <2> HIDE DEF cr, r
  <2> QED BY <1>1, <1>2, <1>4, <1>5, LooseSleepUntil
<1> HIDE DEF a
<1>7. Resumed(a, r, T)
  BY <1>4, <1>6, LooseNextTcb
<1> HIDE DEF r
<1>8. Known(a) \subseteq Known(k)
  BY <1>4, <1>6 DEF Known
<1> QED
  BY <1>3, <1>4, <1>6, <1>7, <1>8 DEF Resumed, SameTasks

\* The timer trap.
LEMMA LooseTick ==
  ASSUME NEW k, NEW T, Loose(k, T), k.current \in Range(k.ready), NEW n \in Nat
  PROVE  /\ Loose(TickTrap(k, n), T) /\ TickTrap(k, n).priority = k.priority
         /\ T \cap Known(TickTrap(k, n)) \subseteq Known(k)
         /\ ~TickTrap(k, n).halted =>
              TickTrap(k, n).current \in Range(TickTrap(k, n).ready)
<1> DEFINE cr == k.current
           left == IF k.time_slice[cr] > n THEN k.time_slice[cr] - n ELSE 0
           slices == [k.time_slice EXCEPT ![cr] = left]
           now == (k.os_ticks + n) % TickMod
           j == [k EXCEPT !.os_ticks = now, !.time_slice = slices]
           r == NextTcb(j)
<1>1. /\ k \in KernelState /\ cr \in Tid
      /\ k.time_slice \in [Tid -> 0..TIME_SLICE] /\ k.os_ticks \in Tick
  BY DEF Loose, KernelState
<1>2. slices \in [Tid -> 0..TIME_SLICE]
  <2>1. k.time_slice[cr] \in 0..TIME_SLICE
    BY <1>1
  <2>2. left \in 0..TIME_SLICE
    BY <2>1, KernelAssumption
  <2> HIDE DEF left, cr
  <2> QED BY <1>1, <2>2
<1>3. now \in Tick
  BY <1>1, KernelAssumption DEF Tick
<1>4. AdvanceTicks(k, n) = j
  BY <1>1 DEF AdvanceTicks, KernelState
<1>5. TickTrap(k, n) = IF TickWantsSwitch(j) THEN r ELSE j
  BY <1>4 DEF TickTrap
<1> HIDE DEF slices, now
<1>6. j \in KernelState
  BY <1>1, <1>2, <1>3 DEF KernelState
<1>7. /\ j.ready = k.ready /\ j.sleeping = k.sleeping /\ j.status = k.status
      /\ j.current = cr /\ j.halted = k.halted /\ j.priority = k.priority
  BY <1>1 DEF KernelState
<1> HIDE DEF j
<1>8. Loose(j, T) /\ Known(j) = Known(k) /\ j.current \in Range(j.ready)
  BY <1>6, <1>7 DEF Loose, Known
<1>9. Resumed(j, r, T)
  BY <1>8, LooseNextTcb DEF Known
<1> HIDE DEF r
<1> QED
  BY <1>5, <1>7, <1>8, <1>9 DEF Resumed, SameTasks

-----------------------------------------------------------------------------
(* What MutexOps does to the kernel.                                       *)

\* A kernel with a task on the hart, in the code of a call or of the task.
Hart(k) ==
  /\ Fit(k) /\ k.current \in Tid
  /\ ~k.halted => k.current \in Range(k.ready)

\* The priorities of all tasks but one, and what they go back to, stay.
OthersKeepPriority(k, r, tid) ==
  \A t \in Tid \ {tid} :
    r.priority[t] = k.priority[t] /\ r.sub_priority[t] = k.sub_priority[t]

SamePriorities(k, r) ==
  r.priority = k.priority /\ r.sub_priority = k.sub_priority

\* next_tcb at the end of a call.
LEMMA HartNextTcb ==
  ASSUME NEW k, Fit(k), k.current \in Tid, ~k.halted
  PROVE  /\ Hart(NextTcb(k)) /\ Known(NextTcb(k)) = Known(k)
         /\ SamePriorities(k, NextTcb(k))
BY FitNextTcb DEF Switched, SameTasks, Hart, SamePriorities

\* Inheritance reorders READY_LIST and changes two fields of the owner.
LEMMA InheritLemma ==
  ASSUME NEW k, Fit(k), NEW owner \in Tid, NEW pri \in Priorities
  PROVE  /\ Fit(Inherit(k, owner, pri))
         /\ Range(Inherit(k, owner, pri).ready) = Range(k.ready)
         /\ Inherit(k, owner, pri).sleeping = k.sleeping
         /\ Inherit(k, owner, pri).current = k.current
         /\ Inherit(k, owner, pri).halted = k.halted
         /\ OthersKeepPriority(k, Inherit(k, owner, pri), owner)
         /\ IF pri >= k.priority[owner] THEN SamePriorities(k, Inherit(k, owner, pri))
            ELSE /\ Inherit(k, owner, pri).priority[owner] = pri
                 /\ Inherit(k, owner, pri).sub_priority[owner]
                      = IF k.sub_priority[owner] = PRI_INV THEN k.priority[owner]
                        ELSE k.sub_priority[owner]
<1>1. /\ k \in KernelState /\ k.priority \in [Tid -> Priorities]
      /\ k.sub_priority \in [Tid -> Priorities \cup {PRI_INV}]
      /\ k.ready \in Seq(Tid)
  BY DEF Fit, KernelState
<1>2. CASE pri >= k.priority[owner]
  BY <1>2 DEF Inherit, OthersKeepPriority, SamePriorities
<1>3. CASE ~(pri >= k.priority[owner])
  <2> DEFINE priority == [k.priority EXCEPT ![owner] = pri]
             back == IF k.sub_priority[owner] = PRI_INV THEN k.priority[owner]
                     ELSE k.sub_priority[owner]
             sub == [k.sub_priority EXCEPT ![owner] = back]
             ready == IF k.status[owner] = "Ready"
                      THEN InsertInOrder(Drop(k.ready, owner), owner, priority)
                      ELSE k.ready
             r == [k EXCEPT !.priority = priority, !.sub_priority = sub,
                            !.ready = ready]
  <2>1. Inherit(k, owner, pri) = r
    <3> DEFINE boosted == [k EXCEPT !.sub_priority = sub, !.priority = priority]
    <3>1. boosted.priority = priority /\ boosted.ready = k.ready
          /\ boosted.status = k.status
      BY <1>1 DEF KernelState
    <3>2. Inherit(k, owner, pri) =
            IF boosted.status[owner] = "Ready" 
            THEN [boosted EXCEPT !.ready = 
                    InsertInOrder(Drop(boosted.ready, owner), owner, boosted.priority)]
            ELSE boosted
      BY <1>1, <1>3 DEF Inherit, KernelState
    <3>3. [boosted EXCEPT !.ready = InsertInOrder(Drop(k.ready, owner), owner, priority)]
           = [k EXCEPT !.priority = priority, !.sub_priority = sub,
                       !.ready = InsertInOrder(Drop(k.ready, owner), owner, priority)]
      <4> HIDE DEF priority, sub
      <4> QED BY <1>1 DEF KernelState
    <3>4. boosted = [k EXCEPT !.priority = priority, !.sub_priority = sub,
                              !.ready = k.ready]
      <4> HIDE DEF priority, sub
      <4> QED BY <1>1 DEF KernelState
    <3> HIDE DEF boosted, priority, sub
    <3> QED
      BY <3>1, <3>2, <3>3, <3>4
  <2>2. /\ priority \in [Tid -> Priorities]
        /\ sub \in [Tid -> Priorities \cup {PRI_INV}]
        /\ \A t \in Tid \ {owner} :
             priority[t] = k.priority[t] /\ sub[t] = k.sub_priority[t]
        /\ priority[owner] = pri /\ sub[owner] = back
    BY <1>1
  <2> HIDE DEF priority, sub
  <2>3. ready \in Seq(Tid) /\ IsInjective(ready) /\ Range(ready) = Range(k.ready)
    <3>1. CASE k.status[owner] = "Ready"
      <4>1. owner \in Range(k.ready) /\ IsInjective(k.ready)
        BY <3>1 DEF Fit
      <4> DEFINE rest == Drop(k.ready, owner)
      <4>2. /\ rest \in Seq(Tid) /\ IsInjective(rest)
            /\ Range(rest) = Range(k.ready) \ {owner}
        BY <1>1, <4>1, DropProperties
      <4>3. priority \in [Tid -> Nat]
        BY <2>2, KernelAssumption DEF Priorities
      <4> HIDE DEF rest
      <4>4. Len(rest) < TASK_MAX
        BY <4>2, RoomForAbsent DEF Tid
      <4>5. /\ InsertInOrder(rest, owner, priority) \in Seq(Tid)
            /\ IsInjective(InsertInOrder(rest, owner, priority))
            /\ Range(InsertInOrder(rest, owner, priority)) = Range(rest) \cup {owner}
        BY <4>2, <4>3, <4>4, InsertProperties, TaskMaxAssumption
      <4> QED
        BY <3>1, <4>1, <4>2, <4>5 DEF rest
    <3>2. CASE k.status[owner] # "Ready"
      BY <1>1, <3>2 DEF Fit
    <3> QED
      BY <3>1, <3>2
  <2> HIDE DEF ready
  <2>4. r \in KernelState
    BY <1>1, <2>2, <2>3 DEF KernelState
  <2>5. /\ r.priority = priority /\ r.sub_priority = sub /\ r.ready = ready
        /\ r.sleeping = k.sleeping /\ r.status = k.status
        /\ r.current = k.current /\ r.halted = k.halted
    BY <1>1 DEF KernelState
  <2> HIDE DEF r
  <2>6. Fit(r)
    BY <2>3, <2>4, <2>5 DEF Fit
  <2> QED
    BY <1>3, <2>1, <2>2, <2>3, <2>5, <2>6 DEF OthersKeepPriority
<1> QED
  BY <1>2, <1>3

\* internal_lock of somebody else's mutex: the scheduler no longer knows the
\* caller.
LEMMA LockBlocksLemma ==
  ASSUME NEW k, Hart(k), ~k.halted, NEW m, m.owner \in Tid, m.owner # k.current
  PROVE  LET pri == k.priority[k.current]
             r == LockBlocks(k, m)
         IN  /\ Hart(r) /\ Known(r) = Known(k) \ {k.current}
             /\ OthersKeepPriority(k, r, m.owner)
             /\ IF pri >= k.priority[m.owner] THEN SamePriorities(k, r)
                ELSE /\ r.priority[m.owner] = pri
                     /\ r.sub_priority[m.owner]
                          = IF k.sub_priority[m.owner] = PRI_INV
                            THEN k.priority[m.owner] ELSE k.sub_priority[m.owner]
<1> DEFINE pri == k.priority[k.current]
           i == Inherit(k, m.owner, pri)
           o == TakeOff(i, k.current)
           r == NextTcb(o)
<1>1. pri \in Priorities /\ k.current \in Tid /\ Fit(k) /\ k.current \in Range(k.ready)
  BY DEF Hart, Fit, KernelState
<1>2. /\ Fit(i) /\ Range(i.ready) = Range(k.ready) /\ i.sleeping = k.sleeping
      /\ i.current = k.current /\ i.halted = k.halted
      /\ OthersKeepPriority(k, i, m.owner)
      /\ IF pri >= k.priority[m.owner] THEN SamePriorities(k, i)
         ELSE /\ i.priority[m.owner] = pri
              /\ i.sub_priority[m.owner]
                   = IF k.sub_priority[m.owner] = PRI_INV
                     THEN k.priority[m.owner] ELSE k.sub_priority[m.owner]
  <2> HIDE DEF pri
  <2> QED BY <1>1, InheritLemma
<1> HIDE DEF i
<1>3. /\ Fit(o) /\ SamePriorities(i, o) /\ Range(o.ready) = Range(k.ready) \ {k.current}
      /\ o.sleeping = k.sleeping /\ o.current = k.current /\ ~o.halted
  <2>1. /\ Fit(o) /\ SameTasks(i, o) /\ Range(o.ready) = Range(i.ready) \ {k.current}
        /\ o.sleeping = i.sleeping /\ o.current = i.current /\ o.halted = i.halted
    BY <1>1, <1>2, FitTakeOff
  <2> HIDE DEF o, r, pri
  <2> QED
    BY <1>2, <2>1 DEF SameTasks, SamePriorities
<1> HIDE DEF o
<1>4. Hart(r) /\ Known(r) = Known(o) /\ SamePriorities(o, r)
  BY <1>1, <1>3, HartNextTcb
<1>5. Known(o) = Known(k) \ {k.current}
  BY <1>1, <1>3 DEF Known, Fit
<1>6. LockBlocks(k, m) = r
  BY DEF LockBlocks, o, i
<1> HIDE DEF r, pri
<1>7. /\ OthersKeepPriority(k, r, m.owner)
      /\ IF pri >= k.priority[m.owner] THEN SamePriorities(k, r)
         ELSE /\ r.priority[m.owner] = pri
              /\ r.sub_priority[m.owner]
                   = IF k.sub_priority[m.owner] = PRI_INV
                     THEN k.priority[m.owner] ELSE k.sub_priority[m.owner]
  BY <1>2, <1>3, <1>4 DEF OthersKeepPriority, SamePriorities
<1> QED
  BY <1>4, <1>5, <1>6, <1>7 DEF pri

\* The caller has its own priority again.
GivenBack(k, r) ==
  /\ OthersKeepPriority(k, r, k.current)
  /\ r.sub_priority[k.current] = PRI_INV
  /\ r.priority[k.current] =
       IF k.sub_priority[k.current] = PRI_INV THEN k.priority[k.current]
       ELSE k.sub_priority[k.current]

\* The de-boost moves nobody between the lists.
LEMMA DeboostedLemma ==
  ASSUME NEW k, Fit(k), k.current \in Tid
  PROVE  /\ Fit(Deboosted(k)) /\ GivenBack(k, Deboosted(k))
         /\ Deboosted(k).ready = k.ready /\ Deboosted(k).sleeping = k.sleeping
         /\ Deboosted(k).current = k.current /\ Deboosted(k).halted = k.halted
<1>1. /\ k \in KernelState /\ k.priority \in [Tid -> Priorities]
      /\ k.sub_priority \in [Tid -> Priorities \cup {PRI_INV}]
  BY DEF Fit, KernelState
<1>2. CASE k.sub_priority[k.current] = PRI_INV
  BY <1>2 DEF Deboosted, GivenBack, OthersKeepPriority
<1>3. CASE k.sub_priority[k.current] # PRI_INV
  <2> DEFINE priority == [k.priority EXCEPT ![k.current] = k.sub_priority[k.current]]
             sub == [k.sub_priority EXCEPT ![k.current] = PRI_INV]
             r == [k EXCEPT !.priority = priority, !.sub_priority = sub]
  <2>1. Deboosted(k) = r
    BY <1>1, <1>3 DEF Deboosted, KernelState
  <2>2. /\ priority \in [Tid -> Priorities]
        /\ sub \in [Tid -> Priorities \cup {PRI_INV}]
        /\ \A t \in Tid \ {k.current} :
             priority[t] = k.priority[t] /\ sub[t] = k.sub_priority[t]
        /\ priority[k.current] = k.sub_priority[k.current]
        /\ sub[k.current] = PRI_INV
    <3>1. k.sub_priority[k.current] \in Priorities
      BY <1>1, <1>3
    <3> QED
      BY <1>1, <3>1
  <2> HIDE DEF priority, sub
  <2>3. r \in KernelState
    BY <1>1, <2>2 DEF KernelState
  <2>4. /\ r.priority = priority /\ r.sub_priority = sub /\ r.ready = k.ready
        /\ r.sleeping = k.sleeping /\ r.status = k.status
        /\ r.current = k.current /\ r.halted = k.halted
    BY <1>1 DEF KernelState
  <2> HIDE DEF r
  <2>5. Fit(r)
    BY <2>3, <2>4 DEF Fit
  <2> QED
    BY <1>3, <2>1, <2>2, <2>4, <2>5 DEF OthersKeepPriority, GivenBack
<1> QED
  BY <1>2, <1>3

\* internal_unlock of a mutex locked once, by a caller that may be off READY_LIST
\* already: the scheduler knows the first waiter again, and the caller has its own
\* priority.
LEMMA UnlockKernelLemma ==
  ASSUME NEW k, Fit(k), k.current \in Tid, ~k.halted, NEW m, m.recursive_count = 1,
         m.wait_queue # << >> => Head(m.wait_queue) \in Tid \ Known(k)
  PROVE  /\ IF UnlockYields(k, m) \/ k.current \in Range(k.ready)
            THEN Hart(UnlockKernel(k, m))
            ELSE /\ Fit(UnlockKernel(k, m)) /\ ~UnlockKernel(k, m).halted
                 /\ UnlockKernel(k, m).current \in Tid
         /\ GivenBack(k, UnlockKernel(k, m))
         /\ Known(UnlockKernel(k, m)) =
              IF m.wait_queue = << >> THEN Known(k)
              ELSE Known(k) \cup {Head(m.wait_queue)}
<1> DEFINE d == Deboosted(k)
           h == HandedOver(k, m)
           r == UnlockKernel(k, m)
<1>1. /\ Fit(d) /\ GivenBack(k, d) /\ d.ready = k.ready /\ d.sleeping = k.sleeping
      /\ d.current = k.current /\ ~d.halted
  BY DeboostedLemma
<1>2. h = IF m.wait_queue = << >> THEN d ELSE MakeReady(d, Head(m.wait_queue))
  BY DEF HandedOver
<1> HIDE DEF d, h
<1>3. /\ Fit(h) /\ ~h.halted /\ h.current = k.current /\ SamePriorities(d, h)
      /\ Range(k.ready) \subseteq Range(h.ready)
      /\ Known(h) = IF m.wait_queue = << >> THEN Known(k)
                    ELSE Known(k) \cup {Head(m.wait_queue)}
  <2>1. CASE m.wait_queue = << >>
    BY <1>1, <1>2, <2>1 DEF Known, SamePriorities
  <2>2. CASE m.wait_queue # << >>
    <3>1. FitBut(d, Head(m.wait_queue))
      BY <1>1, <2>2 DEF Fit, FitBut, Known
    <3>2. /\ Fit(h) /\ SameTasks(d, h) /\ h.sleeping = d.sleeping
          /\ Range(h.ready) = Range(d.ready) \cup {Head(m.wait_queue)}
          /\ h.current = d.current /\ h.halted = d.halted
      BY <1>2, <2>2, <3>1, FitMakeReady
    <3> QED
      BY <1>1, <2>2, <3>2 DEF Known, SamePriorities, SameTasks
  <2> QED
    BY <2>1, <2>2
<1>4. CASE UnlockYields(k, m)
  <2>1. r = NextTcb(h)
    BY <1>4 DEF UnlockKernel, h
  <2>2. Hart(r) /\ SamePriorities(h, r) /\ Known(r) = Known(h)
    BY <1>3, <2>1, HartNextTcb
  <2> HIDE DEF r
  <2> QED
    BY <1>1, <1>3, <1>4, <2>2 DEF GivenBack, OthersKeepPriority, SamePriorities, r
<1>5. CASE ~UnlockYields(k, m)
  <2>1. r = h
    BY <1>5 DEF UnlockKernel, h
  <2> HIDE DEF r
  <2> QED
    BY <1>1, <1>3, <1>5, <2>1 DEF Hart, GivenBack, OthersKeepPriority, SamePriorities, r
<1> QED
  BY <1>4, <1>5

\* The caller owns the mutex, once more or for the first time.
LEMMA LockedLemma ==
  ASSUME NEW S \in SUBSET Tid, NEW x \in MutexState(S), NEW tid \in S
  PROVE  /\ Locked(x, tid) \in MutexState(S)
         /\ Locked(x, tid).owner = tid /\ Locked(x, tid).wait_queue = x.wait_queue
         /\ Locked(x, tid).recursive_count =
              IF x.owner = tid THEN x.recursive_count + 1 ELSE 1
<1>1. CASE x.owner = tid
  BY <1>1 DEF Locked, MutexState
<1>2. CASE x.owner # tid
  BY <1>2 DEF Locked, MutexState
<1> QED
  BY <1>1, <1>2

\* The caller takes its place in the queue, behind its equals.
LEMMA QueuedForLemma ==
  ASSUME NEW k, Fit(k), NEW S \in SUBSET Tid, NEW x \in MutexState(S),
         IsInjective(x.wait_queue), k.current \in S, k.current \notin Range(x.wait_queue)
  PROVE  /\ QueuedFor(k, x) \in MutexState(S)
         /\ QueuedFor(k, x).owner = x.owner
         /\ QueuedFor(k, x).recursive_count = x.recursive_count
         /\ IsInjective(QueuedFor(k, x).wait_queue)
         /\ Range(QueuedFor(k, x).wait_queue) = Range(x.wait_queue) \cup {k.current}
         /\ SortedBy(x.wait_queue, k.priority)
              => SortedBy(QueuedFor(k, x).wait_queue, k.priority)
<1> DEFINE list == x.wait_queue
           longer == InsertInOrder(list, k.current, k.priority)
<1>1. list \in Seq(S) /\ Range(list) \subseteq S
  BY DEF MutexState, Range
<1>2. list \in Seq(Tid) /\ k.current \in Tid
  BY <1>1
<1>3. k.priority \in [Tid -> Nat]
  BY KernelAssumption DEF Fit, KernelState, Priorities
<1>4. Len(list) < TASK_MAX
  BY <1>2, RoomForAbsent DEF Tid
<1> HIDE DEF list
<1>5. /\ longer \in Seq(Tid) /\ IsInjective(longer)
      /\ Range(longer) = Range(list) \cup {k.current}
  BY <1>2, <1>3, <1>4, InsertProperties, TaskMaxAssumption DEF list
<1>6. SortedBy(list, k.priority) => SortedBy(longer, k.priority)
  BY <1>2, <1>3, InsertSorted
<1>7. QueuedFor(k, x) = [x EXCEPT !.wait_queue = longer]
  BY DEF QueuedFor, MutexState, longer, list
<1> HIDE DEF longer
<1>8. longer \in Seq(S)
  <2>1. \A i \in 1 .. Len(longer) : longer[i] \in Range(longer)
    BY <1>5 DEF Range
  <2>2. Range(longer) \subseteq S
    BY <1>1, <1>5
  <2> QED
    BY <1>5, <2>1, <2>2
<1> QED
  BY <1>5, <1>6, <1>7, <1>8 DEF MutexState, list

\* One lock of the mutex is taken back, or it goes to the first waiter.
LEMMA ReleasedLemma ==
  ASSUME NEW S \in SUBSET Tid, NEW x \in MutexState(S),
         IsInjective(x.wait_queue), x.recursive_count > 0
  PROVE  /\ Released(x) \in MutexState(S) /\ IsInjective(Released(x).wait_queue)
         /\ IF x.recursive_count > 1
            THEN /\ Released(x).owner = x.owner
                 /\ Released(x).wait_queue = x.wait_queue
                 /\ Released(x).recursive_count = x.recursive_count - 1
            ELSE IF x.wait_queue = << >>
            THEN Released(x).owner = NoTask /\ Released(x).wait_queue = << >>
            ELSE /\ Released(x).owner = Head(x.wait_queue)
                 /\ Head(x.wait_queue) \in Range(x.wait_queue)
                 /\ Head(x.wait_queue) \in S
                 /\ Released(x).recursive_count = 1
                 /\ Released(x).wait_queue = Tail(x.wait_queue)
                 /\ Range(Released(x).wait_queue)
                      = Range(x.wait_queue) \ {Head(x.wait_queue)}
<1>1. x.wait_queue \in Seq(S) /\ x.recursive_count \in Nat
  BY DEF MutexState
<1>2. CASE x.recursive_count > 1
  <2>1. Released(x) = [x EXCEPT !.recursive_count = x.recursive_count - 1]
    BY <1>2 DEF Released, MutexState
  <2>2. x.recursive_count - 1 \in Nat
    BY <1>1, <1>2
  <2> QED
    BY <1>2, <2>1, <2>2 DEF MutexState
<1>3. CASE ~(x.recursive_count > 1) /\ x.wait_queue = << >>
  <2>1. Released(x) = FreeMutex
    BY <1>3 DEF Released
  <2>2. << >> \in Seq(S) /\ IsInjective(<< >>)
    BY DEF IsInjective
  <2> QED
    BY <1>3, <2>1, <2>2 DEF FreeMutex, MutexState
<1>4. CASE ~(x.recursive_count > 1) /\ x.wait_queue # << >>
  <2>1. /\ Head(x.wait_queue) \in Range(x.wait_queue)
        /\ Tail(x.wait_queue) \in Seq(S) /\ IsInjective(Tail(x.wait_queue))
        /\ Range(Tail(x.wait_queue)) = Range(x.wait_queue) \ {Head(x.wait_queue)}
    BY <1>1, <1>4, HeadAndTail
  <2>2. Head(x.wait_queue) \in S
    BY <1>1, <2>1 DEF Range
  <2>3. Released(x) = [owner |-> Head(x.wait_queue), recursive_count |-> 1,
                       wait_queue |-> Tail(x.wait_queue)]
    BY <1>4 DEF Released
  <2> QED
    BY <1>4, <2>1, <2>2, <2>3 DEF MutexState
<1> QED
  BY <1>2, <1>3, <1>4
=============================================================================
