--------------------------- MODULE MsgQueueProofs ---------------------------
(***************************************************************************)
(* The properties of MsgQueue for every number of tasks, every capacity    *)
(* and every set of messages: whom a list of waiters holds, whom a push or *)
(* a pop wakes, and that the ring is a bounded first-in first-out queue.   *)
(***************************************************************************)
EXTENDS MsgQueue, KernelProofs

Ops == {"send", "recv"}
Lists == [send : Seq(Apps), recv : Seq(Apps)]

\* A kernel with a task on the hart.  try_wake_up may put a task in READY_LIST that
\* is there already, so not even the current task is known to stand there once.
Runs(k) ==
  /\ Loose(k, {})
  /\ ~k.halted => k.current \in Range(k.ready)

\* Both lists of waiters are in the order of priorities.
ListsSorted == \A o \in Ops : SortedBy(waiting[o], kernel.priority)

\* A place in the ring.
Turn(x) == x % N

\* Elements are written behind the last message that is inside.
Ring == queue.tail = Turn(queue.head + queue.len)

\* The inductive invariant.
IInv == TypeOK /\ Runs(kernel) /\ OnlyWaiters /\ ListsSorted /\ Ring

\* main's tasks have the first tids.
LEMMA AppsAreTids == Apps \subseteq Tid
BY MsgQueueAssumption, TaskMaxAssumption DEF Apps, Tid

-----------------------------------------------------------------------------
(* What a step does to the kernel.                                         *)

\* The yield of try_wake_up, if the task it woke is more urgent.
LEMMA YieldRuns ==
  ASSUME NEW k, Loose(k, {}), NEW tid, k.current \in Range(k.ready)
  PROVE  /\ Runs(YieldIfOutranked(k, tid))
         /\ YieldIfOutranked(k, tid).priority = k.priority
<1>1. CASE OutranksCurrent(k, tid)
  <2>1. Resumed(k, NextTcb(k), {})
    BY LooseNextTcb
  <2> QED
    BY <1>1, <2>1 DEF YieldIfOutranked, Resumed, Runs, SameTasks
<1>2. CASE ~OutranksCurrent(k, tid)
  BY <1>2 DEF YieldIfOutranked, Runs
<1> QED
  BY <1>1, <1>2

\* try_wake_up, wherever the task it wakes stands.
LEMMA WokenUpRuns ==
  ASSUME NEW k, Loose(k, {}), NEW tid \in Tid, k.current \in Range(k.ready)
  PROVE  /\ Runs(YieldIfOutranked(WokenUp(k, tid), tid))
         /\ YieldIfOutranked(WokenUp(k, tid), tid).priority = k.priority
<1> DEFINE wakes == [k.wake_point EXCEPT ![tid] = TickMod - 1]
           short == Drop(k.sleeping, tid)
           j == [k EXCEPT !.wake_point = wakes, !.sleeping = short]
           r == MakeReady(j, tid)
<1>1. WokenUp(k, tid) = r
  BY DEF WokenUp
<1>2. k \in KernelState /\ k.current \in Tid
  BY DEF Loose
<1>3. wakes \in [Tid -> Tick]
  <2>1. TickMod - 1 \in Tick
    BY KernelAssumption DEF Tick
  <2> QED
    BY <1>2, <2>1 DEF KernelState
<1>4. short \in Seq(Tid)
  BY <1>2, DropProperties DEF KernelState
<1> HIDE DEF wakes, short
<1>5. j \in KernelState
  BY <1>2, <1>3, <1>4 DEF KernelState
<1>6. /\ j.ready = k.ready /\ j.current = k.current /\ j.priority = k.priority
  BY <1>2 DEF KernelState
<1> HIDE DEF j
<1>7. Loose(j, {})
  BY <1>2, <1>5, <1>6 DEF Loose, Single
<1>8. /\ Loose(r, {}) /\ r.current = j.current /\ r.priority = j.priority
      /\ Range(j.ready) \subseteq Range(r.ready)
  <2>1. tid \notin {}
    OBVIOUS
  <2>2. /\ Loose(MakeReady(j, tid), {}) /\ SameTasks(j, MakeReady(j, tid))
        /\ Range(j.ready) \subseteq Range(MakeReady(j, tid).ready)
        /\ MakeReady(j, tid).current = j.current
    BY <1>7, <2>1, LooseMakeReady
  <2> QED
    BY <2>2 DEF SameTasks
<1> HIDE DEF r
<1> QED
  BY <1>1, <1>6, <1>8, YieldRuns

\* Task::delay.
LEMMA DelayRuns ==
  ASSUME NEW k, Runs(k), ~k.halted, NEW ticks \in Nat
  PROVE  Runs(DelayCurrent(k, ticks)) /\ DelayCurrent(k, ticks).priority = k.priority
<1>1. Resumed(k, DelayCurrent(k, ticks), {})
  BY LooseDelay DEF Runs
<1> QED
  BY <1>1 DEF Resumed, Runs, SameTasks

\* A tick.
LEMMA TickRuns ==
  ASSUME NEW k, Runs(k), ~k.halted
  PROVE  Runs(TickTrap(k, 1)) /\ TickTrap(k, 1).priority = k.priority
BY LooseTick DEF Runs

-----------------------------------------------------------------------------
(* What a step does to the lists of waiters.                               *)

\* Assignment to one of the two lists.
Assigned(w, o, list) == [w EXCEPT ![o] = list]

LEMMA OneList ==
  ASSUME NEW w \in Lists, NEW o \in Ops, NEW list \in Seq(Apps)
  PROVE  /\ Assigned(w, o, list) \in Lists
         /\ Assigned(w, o, list)[o] = list
         /\ \A p \in Ops \ {o} : Assigned(w, o, list)[p] = w[p]
<1>1. CASE o = "send"
  BY <1>1 DEF Lists, Ops, Assigned
<1>2. CASE o = "recv"
  BY <1>2 DEF Lists, Ops, Assigned
<1> QED
  BY <1>1, <1>2 DEF Ops

LEMMA ListOf ==
  ASSUME NEW w \in Lists, NEW o \in Ops
  PROVE  w[o] \in Seq(Apps) /\ Range(w[o]) \subseteq Apps
<1>1. w[o] \in Seq(Apps)
  BY DEF Lists, Ops
<1> QED
  BY <1>1 DEF Range

\* Every list loses tasks, those in front at most, and stays in order.
Shortened(w, v, key) ==
  /\ v \in Lists
  /\ \A o \in Ops :
       /\ IsInjective(v[o]) /\ SortedBy(v[o], key)
       /\ Range(v[o]) \subseteq Range(w[o])
       /\ \A t \in Range(w[o]) \ Range(v[o]) : \A u \in Range(v[o]) : key[t] <= key[u]

\* try_wake_up.
LEMMA TryWakeUpLemma ==
  ASSUME IInv, ~kernel.halted, NEW o \in Ops, TryWakeUp(o)
  PROVE  /\ Runs(kernel') /\ kernel'.priority = kernel.priority
         /\ Shortened(waiting, waiting', kernel.priority)
<1> DEFINE key == kernel.priority
           list == waiting[o]
           tid == Head(list)
<1>1. waiting \in Lists /\ Runs(kernel) /\ kernel.priority \in [Tid -> Nat]
  BY KernelAssumption DEF IInv, TypeOK, Lists, KernelState, Priorities
<1>2. \A p \in Ops : IsInjective(waiting[p]) /\ SortedBy(waiting[p], key)
  BY DEF IInv, OnlyWaiters, ListsSorted, Ops
<1>3. CASE list = << >>
  <2>1. kernel' = kernel /\ waiting' = waiting
    BY <1>3 DEF TryWakeUp
  <2> QED
    BY <1>1, <1>2, <2>1 DEF Shortened
<1>4. CASE list # << >>
  <2>0. list \in Seq(Apps) /\ Range(list) \subseteq Apps
    BY <1>1, ListOf
  <2>1. list \in Seq(Tid)
    BY <2>0, AppsAreTids
  <2>2. /\ waiting' = [waiting EXCEPT ![o] = Tail(list)]
        /\ kernel' = YieldIfOutranked(WokenUp(kernel, tid), tid)
    BY <1>4 DEF TryWakeUp
  <2>3. /\ tid \in Range(list) /\ Tail(list) \in Seq(Apps)
        /\ IsInjective(Tail(list)) /\ Range(Tail(list)) = Range(list) \ {tid}
    BY <1>2, <1>4, <2>0, HeadAndTail
  <2>4. /\ SortedBy(Tail(list), key)
        /\ \A t \in Range(list) : key[tid] <= key[t]
    BY <1>1, <1>2, <1>4, <2>1, SortedFront
  <2>5. tid \in Tid
    BY <2>0, <2>3, AppsAreTids
  <2>6. Loose(kernel, {}) /\ kernel.current \in Range(kernel.ready)
    BY <1>1 DEF Runs
  <2>7. Runs(kernel') /\ kernel'.priority = kernel.priority
    BY <2>2, <2>5, <2>6, WokenUpRuns
  <2>8. /\ waiting' \in Lists /\ waiting'[o] = Tail(list)
        /\ \A p \in Ops \ {o} : waiting'[p] = waiting[p]
    <3> DEFINE rest == Tail(list)
    <3>1. waiting' = Assigned(waiting, o, rest) /\ rest \in Seq(Apps)
      BY <2>2, <2>3 DEF Assigned
    <3> HIDE DEF rest, list
    <3>2. /\ Assigned(waiting, o, rest) \in Lists
          /\ Assigned(waiting, o, rest)[o] = rest
          /\ \A p \in Ops \ {o} : Assigned(waiting, o, rest)[p] = waiting[p]
      BY <1>1, <3>1, OneList
    <3>3. waiting' \in Lists /\ waiting'[o] = rest
      BY <3>1, <3>2
    <3>4. \A p \in Ops \ {o} : waiting'[p] = waiting[p]
      BY <3>1, <3>2
    <3> QED
      BY <3>3, <3>4 DEF rest
  <2>9. ASSUME NEW p \in Ops
        PROVE  /\ IsInjective(waiting'[p]) /\ SortedBy(waiting'[p], key)
               /\ Range(waiting'[p]) \subseteq Range(waiting[p])
               /\ \A t \in Range(waiting[p]) \ Range(waiting'[p]) :
                    \A u \in Range(waiting'[p]) : key[t] <= key[u]
    <3>1. CASE p = o
      <4>1. \A t \in Range(waiting[p]) \ Range(waiting'[p]) : t = tid
        BY <2>3, <2>8, <3>1
      <4> QED
        BY <2>3, <2>4, <2>8, <3>1, <4>1
    <3>2. CASE p # o
      BY <1>2, <2>8, <3>2
    <3> QED
      BY <3>1, <3>2
  <2> QED
    BY <2>7, <2>8, <2>9 DEF Shortened
<1> QED
  BY <1>3, <1>4

-----------------------------------------------------------------------------
(* The ring.                                                               *)

Rings ==
  [buffer : [0 .. N - 1 -> Messages \cup {Uninit}],
   head : 0 .. N - 1, tail : 0 .. N - 1, len : 0 .. N]

\* Within two turns of the ring a remainder is a comparison.
LEMMA TwoTurns ==
  \A x \in Nat : x < N + N => Turn(x) = IF x < N THEN x ELSE x - N
<1> SUFFICES ASSUME NEW x \in Nat, x < N + N
             PROVE  x % N = IF x < N THEN x ELSE x - N
  BY DEF Turn
<1>1. N \in Nat /\ N > 0
  BY MsgQueueAssumption
<1>2. CASE x < N
  BY <1>1, <1>2
<1>3. CASE x >= N
  <2>1. x - N \in 0 .. N - 1 /\ x = N * 1 + (x - N)
    BY <1>1, <1>3
  <2> QED
    BY <1>1, <1>3, <2>1
<1> QED
  BY <1>1, <1>2, <1>3

\* One place further.
LEMMA TurnNext ==
  ASSUME NEW h \in 0 .. N - 1, NEW n \in 0 .. N - 1
  PROVE  /\ Turn(Turn(h + n) + 1) = Turn(h + (n + 1))
         /\ Turn(h + n) \in 0 .. N - 1
<1>1. N \in Nat /\ N > 0 /\ h + n \in Nat /\ h + n < N + N
  BY MsgQueueAssumption
<1> DEFINE t == Turn(h + n)
<1>2. t = IF h + n < N THEN h + n ELSE h + n - N
  BY <1>1, TwoTurns
<1> HIDE DEF t
<1>3. t \in 0 .. N - 1 /\ t + 1 \in Nat /\ t + 1 < N + N
  BY <1>1, <1>2
<1>4. h + (n + 1) \in Nat /\ h + (n + 1) < N + N
  BY <1>1
<1>5. /\ Turn(t + 1) = IF t + 1 < N THEN t + 1 ELSE t + 1 - N
      /\ Turn(h + (n + 1)) = IF h + (n + 1) < N THEN h + (n + 1) ELSE h + (n + 1) - N
  BY <1>1, <1>3, <1>4, TwoTurns
<1>6. Turn(t + 1) = Turn(h + (n + 1))
  <2> HIDE DEF t
  <2>1. CASE h + n < N
    BY <1>1, <1>2, <1>5, <2>1
  <2>2. CASE ~(h + n < N)
    BY <1>1, <1>2, <1>3, <1>5, <2>2
  <2> QED
    BY <2>1, <2>2
<1> QED
  BY <1>3, <1>6 DEF t

\* The messages inside q, oldest first: i places from its head.
Place(q, i) == Turn(q.head + i - 1)

ContentOf(q) == [i \in 1 .. q.len |-> q.buffer[Place(q, i)]]

\* No two of the places that hold messages, or are next to, are one.
LEMMA PlacesApart ==
  ASSUME NEW q \in Rings
  PROVE  /\ \A i \in 1 .. N : Place(q, i) \in 0 .. N - 1
         /\ \A i, j \in 1 .. N : Place(q, i) = Place(q, j) => i = j
<1>1. N \in Nat /\ N > 0 /\ q.head \in 0 .. N - 1
  BY MsgQueueAssumption DEF Rings
<1>2. ASSUME NEW i \in 1 .. N
      PROVE  Place(q, i) = IF q.head + i - 1 < N THEN q.head + i - 1
                           ELSE q.head + i - 1 - N
  <2>1. q.head + i - 1 \in Nat /\ q.head + i - 1 < N + N
    BY <1>1
  <2> QED
    BY <1>1, <2>1, TwoTurns DEF Place
<1> QED
  BY <1>1, <1>2

LEMMA ContentIsSeq ==
  ASSUME NEW q \in Rings
  PROVE  /\ ContentOf(q) \in Seq(Messages \cup {Uninit})
         /\ Len(ContentOf(q)) = q.len
<1>1. q.len \in 0 .. N /\ N \in Nat /\ q.buffer \in [0 .. N - 1 -> Messages \cup {Uninit}]
  BY MsgQueueAssumption DEF Rings
<1>2. \A i \in 1 .. q.len : q.buffer[Place(q, i)] \in Messages \cup {Uninit}
  BY <1>1, PlacesApart
<1> QED
  BY <1>1, <1>2 DEF ContentOf

\* A push when there is room puts the message behind all others.
LEMMA PushLemma ==
  ASSUME NEW q \in Rings, q.tail = Turn(q.head + q.len), q.len < N, NEW m \in Messages
  PROVE  /\ Push(q, m) \in Rings
         /\ Push(q, m).len = q.len + 1
         /\ Push(q, m).tail = Turn(Push(q, m).head + Push(q, m).len)
         /\ ContentOf(Push(q, m)) = Append(ContentOf(q), m)
<1> DEFINE buffer == [q.buffer EXCEPT ![q.tail] = m]
           r == [buffer |-> buffer, head |-> q.head,
                 tail |-> Turn(q.tail + 1), len |-> q.len + 1]
<1>1. /\ N \in Nat /\ N > 0 /\ q.head \in 0 .. N - 1 /\ q.tail \in 0 .. N - 1
      /\ q.len \in 0 .. N /\ q.buffer \in [0 .. N - 1 -> Messages \cup {Uninit}]
  BY MsgQueueAssumption DEF Rings
<1>2. Push(q, m) = r
  <2>1. Push(q, m) = [q EXCEPT !.buffer = buffer, !.tail = Turn(q.tail + 1),
                               !.len = q.len + 1]
    BY DEF Push, Turn
  <2> DEFINE t == Turn(q.tail + 1)
             n == q.len + 1
             f == [buffer |-> buffer, head |-> q.head, tail |-> q.tail, len |-> q.len]
             g == [buffer |-> buffer, head |-> q.head, tail |-> t, len |-> q.len]
             b == [q EXCEPT !.buffer = buffer]
             d == [b EXCEPT !.tail = t]
  <2>2. Push(q, m) = [d EXCEPT !.len = n]
    BY <2>1
  <2> HIDE DEF buffer, t, n
  <2>3. b = f
    BY DEF Rings
  <2> HIDE DEF b
  <2>4. [f EXCEPT !.tail = t] = g
    OBVIOUS
  <2>5. d = g
    <3> HIDE DEF f, g
    <3> QED BY <2>3, <2>4
  <2> HIDE DEF d, f
  <2>6. [g EXCEPT !.len = n] = r
    BY DEF t, n
  <2> HIDE DEF g, r
  <2> QED
    BY <2>2, <2>5, <2>6
<1>3. buffer \in [0 .. N - 1 -> Messages \cup {Uninit}]
  BY <1>1
<1>4. Turn(q.tail + 1) = Turn(q.head + (q.len + 1)) /\ Turn(q.tail + 1) \in 0 .. N - 1
  <2>1. q.len \in 0 .. N - 1
    BY <1>1
  <2>2. Turn(q.tail + 1) = Turn(q.head + (q.len + 1))
    <3> DEFINE h == q.head
               n == q.len
    <3>1. h \in 0 .. N - 1 /\ n \in 0 .. N - 1 /\ q.tail = Turn(h + n)
      BY <1>1, <2>1
    <3> HIDE DEF h, n
    <3>2. Turn(Turn(h + n) + 1) = Turn(h + (n + 1))
      BY <3>1, TurnNext
    <3> QED
      BY <3>1, <3>2 DEF h, n
  <2>3. Turn(q.tail + 1) \in 0 .. N - 1
    <3>1. Turn(q.tail + 1) = (q.tail + 1) % N /\ q.tail + 1 \in Int
      BY <1>1 DEF Turn
    <3> QED
      BY <1>1, <3>1
  <2> QED
    BY <2>2, <2>3
<1> HIDE DEF buffer
<1>5. /\ r \in Rings /\ r.len = q.len + 1 /\ r.tail = Turn(r.head + r.len)
      /\ r.head = q.head /\ r.buffer = buffer
  BY <1>1, <1>3, <1>4 DEF Rings
<1> HIDE DEF r
<1>6. ContentOf(r) = Append(ContentOf(q), m)
  <2>1. /\ ContentOf(q) \in Seq(Messages \cup {Uninit}) /\ Len(ContentOf(q)) = q.len
        /\ ContentOf(r) \in Seq(Messages \cup {Uninit}) /\ Len(ContentOf(r)) = q.len + 1
    BY <1>5, ContentIsSeq
  <2>2. \A i \in 1 .. q.len + 1 : ContentOf(r)[i] = buffer[Place(q, i)]
    BY <1>1, <1>5 DEF ContentOf, Place
  <2>3. Place(q, q.len + 1) = q.tail
    BY <1>1 DEF Place
  <2>4. ASSUME NEW i \in 1 .. q.len
        PROVE  ContentOf(r)[i] = ContentOf(q)[i]
    <3>1. Place(q, i) # q.tail /\ Place(q, i) \in 0 .. N - 1
      BY <1>1, <2>3, PlacesApart
    <3>2. buffer[Place(q, i)] = q.buffer[Place(q, i)]
      BY <1>1, <3>1 DEF buffer
    <3>3. ContentOf(q)[i] = q.buffer[Place(q, i)]
      BY DEF ContentOf
    <3>4. i \in 1 .. q.len + 1
      BY <1>1
    <3> QED
      BY <2>2, <3>2, <3>3, <3>4
  <2>5. ContentOf(r)[q.len + 1] = m
    BY <1>1, <2>2, <2>3 DEF buffer
  <2> DEFINE c == ContentOf(q)
             d == ContentOf(r)
             S == Messages \cup {Uninit}
  <2>6. m \in S
    OBVIOUS
  <2> HIDE DEF c, d, S
  <2>7. /\ c \in Seq(S) /\ d \in Seq(S) /\ Len(d) = Len(c) + 1 /\ Len(c) = q.len
        /\ \A i \in 1 .. Len(c) : d[i] = c[i]
        /\ d[Len(c) + 1] = m
    BY <2>1, <2>4, <2>5 DEF c, d, S
  <2>8. /\ Append(c, m) \in Seq(S) /\ Len(Append(c, m)) = Len(c) + 1
        /\ \A i \in 1 .. Len(c) : Append(c, m)[i] = c[i]
        /\ Append(c, m)[Len(c) + 1] = m
    BY <2>6, <2>7, AppendProperties
  <2>9. \A i \in 1 .. Len(d) : d[i] = Append(c, m)[i]
    BY <2>7, <2>8
  <2>10. d = Append(c, m)
    BY <2>7, <2>8, <2>9, SeqEqual
  <2> QED
    BY <2>10 DEF c, d
<1> QED
  BY <1>2, <1>5, <1>6

\* A pop when there is a message takes the oldest.
LEMMA PopLemma ==
  ASSUME NEW q \in Rings, q.tail = Turn(q.head + q.len), q.len > 0
  PROVE  /\ Pop(q) \in Rings
         /\ Pop(q).len = q.len - 1
         /\ Pop(q).tail = Turn(Pop(q).head + Pop(q).len)
         /\ ContentOf(q) # << >>
         /\ Head(ContentOf(q)) = q.buffer[q.head]
         /\ ContentOf(Pop(q)) = Tail(ContentOf(q))
<1> DEFINE r == [buffer |-> q.buffer, head |-> Turn(q.head + 1),
                 tail |-> q.tail, len |-> q.len - 1]
<1>1. /\ N \in Nat /\ N > 0 /\ q.head \in 0 .. N - 1 /\ q.tail \in 0 .. N - 1
      /\ q.len \in 1 .. N /\ q.buffer \in [0 .. N - 1 -> Messages \cup {Uninit}]
  BY MsgQueueAssumption DEF Rings
<1>2. Pop(q) = r
  <2> DEFINE h == Turn(q.head + 1)
             n == q.len - 1
             f == [buffer |-> q.buffer, head |-> h, tail |-> q.tail, len |-> q.len]
             b == [q EXCEPT !.head = h]
  <2>1. Pop(q) = [b EXCEPT !.len = n]
    BY DEF Pop, Turn
  <2> HIDE DEF h, n
  <2>2. b = f
    BY DEF Rings
  <2> HIDE DEF b
  <2>3. [f EXCEPT !.len = n] = r
    BY DEF h, n
  <2> HIDE DEF f, r
  <2> QED
    BY <2>1, <2>2, <2>3
<1>3. /\ Turn(q.head + 1) \in 0 .. N - 1
      /\ Turn(q.head + q.len) = Turn(Turn(q.head + 1) + (q.len - 1))
      /\ Turn(q.head) = q.head
      /\ \A i \in 1 .. q.len - 1 :
           Turn(q.head + (i + 1) - 1) = Turn(Turn(q.head + 1) + i - 1)
  <2> DEFINE h == q.head
             g == Turn(h + 1)
  <2>1. h \in 0 .. N - 1
    BY <1>1
  <2> HIDE DEF h
  <2>2. g \in 0 .. N - 1
    BY <1>1, <2>1 DEF Turn
  <2>3. Turn(h) = h
    BY <1>1, <2>1, TwoTurns
  <2>4. ASSUME NEW i \in 1 .. N PROVE Turn(h + i) = Turn(g + (i - 1))
    <3>1. g = IF h + 1 < N THEN h + 1 ELSE h + 1 - N
      <4> DEFINE x == h + 1
      <4>1. x \in Nat /\ x < N + N
        BY <1>1, <2>1
      <4> HIDE DEF x
      <4>2. Turn(x) = IF x < N THEN x ELSE x - N
        BY <4>1, TwoTurns
      <4>3. g = Turn(x)
        BY DEF x
      <4> HIDE DEF g
      <4>4. g = IF x < N THEN x ELSE x - N
        BY <4>2, <4>3
      <4> QED
        BY <1>1, <2>1, <4>4 DEF x
    <3> HIDE DEF g
    <3> DEFINE x == h + i
               y == g + (i - 1)
    <3>2. /\ x \in Nat /\ x < N + N /\ y \in Nat /\ y < N + N
          /\ x = IF h + 1 < N THEN y ELSE y + N
          /\ ~(h + 1 < N) => y < N
      BY <1>1, <2>1, <2>2, <3>1
    <3> HIDE DEF x, y
    <3>3. /\ Turn(x) = IF x < N THEN x ELSE x - N
          /\ Turn(y) = IF y < N THEN y ELSE y - N
      BY <3>2, TwoTurns
    <3>4. Turn(x) = Turn(y)
      BY <1>1, <3>2, <3>3
    <3> QED
      BY <3>4 DEF x, y
  <2> HIDE DEF g
  <2>5. Turn(h + q.len) = Turn(g + (q.len - 1))
    BY <1>1, <2>4
  <2>6. ASSUME NEW i \in 1 .. q.len - 1
        PROVE  Turn(h + (i + 1) - 1) = Turn(g + i - 1)
    <3>1. i \in 1 .. N /\ h + (i + 1) - 1 = h + i /\ g + i - 1 = g + (i - 1)
      BY <1>1, <2>1, <2>2
    <3>2. Turn(h + i) = Turn(g + (i - 1))
      BY <2>4, <3>1
    <3> QED
      BY <3>1, <3>2
  <2> QED
    BY <2>2, <2>3, <2>5, <2>6 DEF g, h
<1>4. /\ r \in Rings /\ r.len = q.len - 1 /\ r.tail = Turn(r.head + r.len)
      /\ r.head = Turn(q.head + 1) /\ r.buffer = q.buffer
  BY <1>1, <1>3 DEF Rings
<1> HIDE DEF r
<1> DEFINE c == ContentOf(q)
           d == ContentOf(r)
           S == Messages \cup {Uninit}
<1>5. /\ c \in Seq(S) /\ Len(c) = q.len /\ d \in Seq(S) /\ Len(d) = q.len - 1
  BY <1>4, ContentIsSeq
<1>6. \A i \in 1 .. q.len - 1 : d[i] = c[i + 1]
  <2> SUFFICES ASSUME NEW i \in 1 .. q.len - 1 PROVE d[i] = c[i + 1]
    OBVIOUS
  <2>1. Place(r, i) = Place(q, i + 1)
    BY <1>3, <1>4 DEF Place
  <2>2. i \in 1 .. r.len /\ i + 1 \in 1 .. q.len
    BY <1>1, <1>4
  <2> QED
    BY <1>4, <2>1, <2>2 DEF ContentOf
<1>7. c[1] = q.buffer[q.head]
  <2>1. Place(q, 1) = q.head
    <3>1. q.head + 1 - 1 = q.head
      BY <1>1
    <3> QED
      BY <1>3, <3>1 DEF Place
  <2> QED
    BY <1>1, <2>1 DEF ContentOf
<1> HIDE DEF c, d, S
<1>8. c # << >> /\ Head(c) = c[1]
  BY <1>1, <1>5
<1>9. /\ Tail(c) \in Seq(S) /\ Len(Tail(c)) = Len(c) - 1
      /\ \A i \in 1 .. Len(Tail(c)) : Tail(c)[i] = c[i + 1]
  BY <1>5, <1>8, HeadTailProperties
<1>10. d = Tail(c)
  <2>1. Len(d) = Len(Tail(c)) /\ \A i \in 1 .. Len(d) : d[i] = Tail(c)[i]
    BY <1>5, <1>6, <1>9
  <2> QED
    BY <1>5, <1>9, <2>1, SeqEqual
<1> QED
  BY <1>2, <1>4, <1>7, <1>8, <1>10 DEF c, d

-----------------------------------------------------------------------------
(* The steps.                                                              *)

Places == {"run", "looked", "queued", "asleep", "woken"}

\* The invariant, by what it says of each variable.
LEMMA Unfolded ==
  IInv <=> /\ Runs(kernel) /\ queue \in Rings /\ Ring
           /\ waiting \in Lists /\ op \in [Apps -> Ops] /\ pc \in [Apps -> Places]
           /\ OnlyWaiters /\ ListsSorted
<1>1. Runs(kernel) => kernel \in KernelState /\ kernel.current \in Tid
  BY DEF Runs, Loose
<1> QED
  BY <1>1 DEF IInv, TypeOK, Rings, Lists, Ops, Places

LEMMA UnfoldedPrimed ==
  IInv' <=> /\ Runs(kernel') /\ queue' \in Rings /\ Ring'
            /\ waiting' \in Lists /\ op' \in [Apps -> Ops] /\ pc' \in [Apps -> Places]
            /\ OnlyWaiters' /\ ListsSorted'
<1>1. Runs(kernel') => kernel' \in KernelState /\ kernel'.current \in Tid
  BY DEF Runs, Loose
<1> QED
  BY <1>1 DEF IInv, TypeOK, Rings, Lists, Ops, Places

\* What MostUrgentFirst says of a step.
WakesMostUrgent ==
  queue'.len # queue.len =>
    \A o \in {"send", "recv"} :
      \A w \in Range(waiting[o]) \ Range(waiting'[o]) :
        \A t \in Range(waiting'[o]) :
          kernel.priority[w] <= kernel.priority[t]

\* What IsFifo says of a step.
MovesInOrder == [Promise!Next]_<< Content, last >>

LEMMA ContentIs == Content = ContentOf(queue) /\ Content' = ContentOf(queue')
BY DEF Content, ContentOf, Place, Turn

\* Steps that neither push nor pop.
LEMMA QueueRests ==
  ASSUME UNCHANGED queue, last' = last \/ last' = << "timeout" >>
  PROVE  /\ MovesInOrder /\ WakesMostUrgent
         /\ queue \in Rings /\ Ring => queue' \in Rings /\ Ring'
<1>1. Content' = Content
  BY DEF Content
<1>2. MovesInOrder
  BY <1>1 DEF MovesInOrder, Promise!Next, Promise!GiveUp
<1> QED
  BY <1>2 DEF WakesMostUrgent, Ring

\* Steps of the current task, which stands in no list, that take no task in.
LEMMA ListsStay ==
  ASSUME IInv, Shortened(waiting, waiting', kernel.priority),
         kernel'.priority = kernel.priority,
         \A o \in Ops : \A t \in Range(waiting'[o]) : pc'[t] = pc[t] /\ op'[t] = op[t]
  PROVE  waiting' \in Lists /\ OnlyWaiters' /\ ListsSorted'
<1>1. /\ \A o \in Ops : IsInjective(waiting[o])
      /\ \A o \in Ops : \A t \in Range(waiting[o]) :
           op[t] = o /\ pc[t] \in {"queued", "asleep"}
  BY DEF IInv, OnlyWaiters, Ops
<1>2. ASSUME NEW o \in Ops
      PROVE  /\ IsInjective(waiting'[o])
             /\ \A t \in Range(waiting'[o]) :
                  op'[t] = o /\ pc'[t] \in {"queued", "asleep"}
             /\ SortedBy(waiting'[o], kernel'.priority)
  BY <1>1 DEF Shortened
<1> QED
  BY <1>2 DEF Shortened, OnlyWaiters, ListsSorted, Ops

\* Lists that do not change are shortened by nobody.
LEMMA SameLists ==
  ASSUME IInv, waiting' = waiting
  PROVE  Shortened(waiting, waiting', kernel.priority)
<1>1. waiting \in Lists
  BY Unfolded
<1>2. \A o \in Ops : IsInjective(waiting[o]) /\ SortedBy(waiting[o], kernel.priority)
  BY DEF IInv, OnlyWaiters, ListsSorted, Ops
<1> QED
  BY <1>1, <1>2 DEF Shortened

\* Nobody is in a list but in the two sections of wait_on.
LEMMA NotListed ==
  ASSUME IInv, NEW t, pc[t] \notin {"queued", "asleep"}
  PROVE  \A o \in Ops : t \notin Range(waiting[o])
BY DEF IInv, OnlyWaiters, Ops

\* A push or a pop, with the wake-up and the return: the end of a call.
LEMMA TransferKeeps ==
  ASSUME IInv, NEW o \in Ops, CanGoOn(o), Transfer(o),
         ~kernel.halted, cr \in Apps, pc[cr] \in {"run", "woken"},
         op' \in [Apps -> Ops], \A t \in Apps \ {cr} : op'[t] = op[t]
  PROVE  IInv' /\ MovesInOrder /\ WakesMostUrgent
<1>1. /\ queue \in Rings /\ Ring /\ waiting \in Lists
      /\ pc \in [Apps -> Places] /\ Runs(kernel)
  BY Unfolded
<1>2. Other(o) \in Ops /\ TryWakeUp(Other(o)) /\ pc' = [pc EXCEPT ![cr] = "run"]
  BY DEF Other, Ops, Transfer, Goto
<1>3. /\ Runs(kernel') /\ kernel'.priority = kernel.priority
      /\ Shortened(waiting, waiting', kernel.priority)
  BY <1>2, TryWakeUpLemma
<1>4. pc' \in [Apps -> Places] /\ \A t \in Apps \ {cr} : pc'[t] = pc[t]
  BY <1>1, <1>2 DEF Places
<1>5. \A p \in Ops : \A t \in Range(waiting'[p]) : t \in Apps \ {cr}
  <2> SUFFICES ASSUME NEW p \in Ops, NEW t \in Range(waiting'[p]) PROVE t \in Apps \ {cr}
    OBVIOUS
  <2>1. t \in Range(waiting[p])
    BY <1>3 DEF Shortened
  <2>2. cr \notin Range(waiting[p])
    BY NotListed
  <2>3. Range(waiting[p]) \subseteq Apps
    BY <1>1, ListOf
  <2> QED
    BY <2>1, <2>2, <2>3
<1>6. waiting' \in Lists /\ OnlyWaiters' /\ ListsSorted'
  BY <1>3, <1>4, <1>5, ListsStay
<1>7. queue' \in Rings /\ Ring' /\ MovesInOrder
  <2>1. queue.tail = Turn(queue.head + queue.len) /\ queue.len \in 0 .. N
    BY <1>1 DEF Ring, Rings
  <2>2. CASE o = "send"
    <3>1. PICK m \in Messages : queue' = Push(queue, m) /\ last' = << "sent", m >>
      BY <2>2 DEF Transfer
    <3>2. queue.len < N
      BY <2>2 DEF CanGoOn
    <3>3. /\ queue' \in Rings /\ queue'.tail = Turn(queue'.head + queue'.len)
          /\ ContentOf(queue') = Append(ContentOf(queue), m)
      BY <1>1, <2>1, <3>1, <3>2, PushLemma
    <3>4. Len(Content) < N /\ Content' = Append(Content, m)
      BY <1>1, <3>2, <3>3, ContentIsSeq, ContentIs
    <3>5. Promise!Put(m)
      BY <3>1, <3>4 DEF Promise!Put
    <3> QED
      BY <3>3, <3>5 DEF Ring, MovesInOrder, Promise!Next
  <2>3. CASE o = "recv"
    <3>1. /\ queue' = Pop(queue)
          /\ last' = << "received", queue.buffer[queue.head] >>
      BY <2>3 DEF Transfer
    <3>2. queue.len > 0
      BY <2>3 DEF CanGoOn
    <3>3. /\ queue' \in Rings /\ queue'.tail = Turn(queue'.head + queue'.len)
          /\ ContentOf(queue) # << >>
          /\ Head(ContentOf(queue)) = queue.buffer[queue.head]
          /\ ContentOf(queue') = Tail(ContentOf(queue))
      BY <1>1, <2>1, <3>1, <3>2, PopLemma
    <3>4. Promise!Take
      BY <3>1, <3>3, ContentIs DEF Promise!Take
    <3> QED
      BY <3>3, <3>4 DEF Ring, MovesInOrder, Promise!Next
  <2> QED
    BY <2>2, <2>3 DEF Ops
<1>8. WakesMostUrgent
  BY <1>3 DEF WakesMostUrgent, Shortened, Ops
<1> QED
  BY <1>3, <1>4, <1>6, <1>7, <1>8, UnfoldedPrimed

\* The caller queues up: it is in no list, so there is room, and it goes behind
\* its equals.
LEMMA RegisterKeeps ==
  ASSUME IInv, Register
  PROVE  waiting' \in Lists /\ OnlyWaiters' /\ ListsSorted'
<1> DEFINE o == op[cr]
           list == waiting[o]
           longer == Registered(list)
<1>1. /\ waiting \in Lists /\ op \in [Apps -> Ops] /\ pc \in [Apps -> Places]
      /\ Runs(kernel)
  BY Unfolded
<1>2. /\ cr \in Apps /\ pc[cr] = "looked" /\ pc' = [pc EXCEPT ![cr] = "queued"]
      /\ waiting' = [waiting EXCEPT ![o] = longer] /\ kernel' = kernel /\ op' = op
  BY DEF Register, At, Goto
<1>3. o \in Ops
  BY <1>1, <1>2
<1>4. /\ list \in Seq(Apps) /\ Range(list) \subseteq Apps
      /\ cr \notin Range(list) /\ IsInjective(list)
      /\ SortedBy(list, kernel.priority)
  <2>1. list \in Seq(Apps) /\ Range(list) \subseteq Apps
    BY <1>1, <1>3, ListOf
  <2>2. cr \notin Range(list)
    BY <1>2, <1>3, NotListed
  <2> QED
    BY <1>3, <2>1, <2>2 DEF IInv, OnlyWaiters, ListsSorted, Ops
<1> HIDE DEF o, list
<1>5. list \in Seq(Tid) /\ cr \in Tid /\ kernel.priority \in [Tid -> Nat]
  <2>1. kernel.priority \in [Tid -> Priorities]
    BY <1>1 DEF Runs, Loose, KernelState
  <2>2. kernel.priority \in [Tid -> Nat]
    BY <2>1, KernelAssumption DEF Priorities
  <2> QED
    BY <1>2, <1>4, <2>2, AppsAreTids
<1>6. Len(list) # TASK_MAX
  BY <1>4, <1>5, RoomForAbsent, TaskMaxAssumption DEF Tid
<1>7. /\ longer \in Seq(Tid) /\ IsInjective(longer)
      /\ Range(longer) = Range(list) \cup {cr}
      /\ SortedBy(longer, kernel.priority)
  BY <1>4, <1>5, <1>6, InsertProperties, InsertSorted DEF Registered
<1> HIDE DEF longer
<1>8. longer \in Seq(Apps)
  <2>1. \A i \in 1 .. Len(longer) : longer[i] \in Range(longer)
    BY <1>7 DEF Range
  <2>2. Range(longer) \subseteq Apps
    BY <1>2, <1>4, <1>7
  <2> QED
    BY <1>7, <2>1, <2>2
<1>9. /\ waiting' \in Lists /\ waiting'[o] = longer
      /\ \A p \in Ops \ {o} : waiting'[p] = waiting[p]
  <2>1. waiting' = Assigned(waiting, o, longer)
    BY <1>2 DEF Assigned
  <2> QED
    BY <1>1, <1>3, <1>8, <2>1, OneList
<1>10. ASSUME NEW p \in Ops
       PROVE  /\ IsInjective(waiting'[p]) /\ SortedBy(waiting'[p], kernel'.priority)
              /\ \A t \in Range(waiting'[p]) :
                   op'[t] = p /\ pc'[t] \in {"queued", "asleep"}
  <2>1. /\ IsInjective(waiting[p]) /\ SortedBy(waiting[p], kernel.priority)
        /\ \A t \in Range(waiting[p]) : op[t] = p /\ pc[t] \in {"queued", "asleep"}
    BY DEF IInv, OnlyWaiters, ListsSorted, Ops
  <2>2. \A t : t # cr /\ pc[t] \in {"queued", "asleep"} => pc'[t] \in {"queued", "asleep"}
    <3>1. ASSUME NEW t, t # cr, pc[t] \in {"queued", "asleep"}
          PROVE  pc'[t] \in {"queued", "asleep"}
      <4>1. CASE t \in Apps
        BY <1>1, <1>2, <3>1, <4>1
      <4>2. CASE t \notin Apps
        BY <1>1, <1>2, <3>1, <4>2
      <4> QED
        BY <4>1, <4>2
    <3> QED
      BY <3>1
  <2>3. pc'[cr] = "queued" /\ op'[cr] = o
    BY <1>1, <1>2 DEF o
  <2>4. CASE p = o
    BY <1>2, <1>7, <1>9, <2>1, <2>2, <2>3, <2>4 DEF list
  <2>5. CASE p # o
    <3>1. waiting'[p] = waiting[p] /\ cr \notin Range(waiting[p])
      BY <1>2, <1>9, <2>5, NotListed
    <3> QED
      BY <1>2, <2>1, <2>2, <3>1
  <2> QED
    BY <2>4, <2>5
<1> QED
  BY <1>9, <1>10 DEF OnlyWaiters, ListsSorted, Ops

\* A waiter whose time is up takes itself out.
LEMMA WithdrawKeeps ==
  ASSUME IInv, At("asleep"), kernel' = kernel, op' = op,
         waiting' = [waiting EXCEPT ![op[cr]] = Withdrawn(@)],
         pc' = [pc EXCEPT ![cr] = "run"]
  PROVE  waiting' \in Lists /\ OnlyWaiters' /\ ListsSorted'
<1> DEFINE o == op[cr]
           list == waiting[o]
           shorter == Drop(list, cr)
<1>1. /\ waiting \in Lists /\ op \in [Apps -> Ops] /\ pc \in [Apps -> Places]
  BY Unfolded
<1>2. cr \in Apps /\ waiting' = [waiting EXCEPT ![o] = shorter]
  BY DEF At, Withdrawn
<1>3. o \in Ops
  BY <1>1, <1>2
<1>4. /\ list \in Seq(Apps) /\ IsInjective(list) /\ SortedBy(list, kernel.priority)
  <2>1. list \in Seq(Apps)
    BY <1>1, <1>3, ListOf
  <2> QED
    BY <1>3, <2>1 DEF IInv, OnlyWaiters, ListsSorted, Ops
<1> HIDE DEF list
<1>5. /\ shorter \in Seq(Apps) /\ IsInjective(shorter)
      /\ Range(shorter) = Range(list) \ {cr}
      /\ SortedBy(shorter, kernel.priority)
  BY <1>4, DropProperties, DropSorted
<1> HIDE DEF shorter, o
<1>6. /\ waiting' \in Lists /\ waiting'[o] = shorter
      /\ \A p \in Ops \ {o} : waiting'[p] = waiting[p]
  <2>1. waiting' = Assigned(waiting, o, shorter)
    BY <1>2 DEF Assigned
  <2>2. /\ Assigned(waiting, o, shorter) \in Lists
        /\ Assigned(waiting, o, shorter)[o] = shorter
        /\ \A p \in Ops \ {o} : Assigned(waiting, o, shorter)[p] = waiting[p]
    BY <1>1, <1>3, <1>5, OneList
  <2>3. waiting' \in Lists /\ waiting'[o] = shorter
    BY <2>1, <2>2
  <2>4. \A p \in Ops \ {o} : waiting'[p] = waiting[p]
    BY <2>1, <2>2
  <2> QED
    BY <2>3, <2>4
<1>7. ASSUME NEW p \in Ops
      PROVE  /\ IsInjective(waiting'[p]) /\ SortedBy(waiting'[p], kernel'.priority)
             /\ \A t \in Range(waiting'[p]) :
                  op'[t] = p /\ pc'[t] \in {"queued", "asleep"}
  <2>1. /\ IsInjective(waiting[p]) /\ SortedBy(waiting[p], kernel.priority)
        /\ \A t \in Range(waiting[p]) : op[t] = p /\ pc[t] \in {"queued", "asleep"}
        /\ Range(waiting[p]) \subseteq Apps
    <3>1. Range(waiting[p]) \subseteq Apps
      BY <1>1, ListOf
    <3> QED
      BY <3>1 DEF IInv, OnlyWaiters, ListsSorted, Ops
  <2>2. \A t \in Apps \ {cr} : pc'[t] = pc[t]
    BY <1>1
  <2>3. CASE p = o
    BY <1>5, <1>6, <2>1, <2>2, <2>3 DEF list
  <2>4. CASE p # o
    <3>1. waiting'[p] = waiting[p]
      BY <1>6, <2>4
    <3>2. cr \notin Range(waiting[p])
      BY <2>1, <2>4 DEF o
    <3> QED
      BY <2>1, <2>2, <3>1, <3>2
  <2> QED
    BY <2>3, <2>4
<1> QED
  BY <1>6, <1>7 DEF OnlyWaiters, ListsSorted, Ops

\* Steps that touch neither queue nor lists.
LEMMA OthersKeep ==
  ASSUME IInv, UNCHANGED << queue, waiting >>, last' = last \/ last' = << "timeout" >>,
         Runs(kernel'), kernel'.priority = kernel.priority,
         op' \in [Apps -> Ops], pc' \in [Apps -> Places],
         \A t \in Apps : pc[t] \in {"queued", "asleep"} =>
           op'[t] = op[t] /\ pc'[t] \in {"queued", "asleep"}
  PROVE  IInv' /\ MovesInOrder /\ WakesMostUrgent
<1>1. MovesInOrder /\ WakesMostUrgent /\ queue' \in Rings /\ Ring'
  BY QueueRests, Unfolded
<1>2. waiting' \in Lists /\ \A o \in Ops : Range(waiting[o]) \subseteq Apps
  BY Unfolded, ListOf
<1>3. OnlyWaiters' /\ ListsSorted'
  BY <1>2 DEF IInv, OnlyWaiters, ListsSorted, Ops
<1> QED
  BY <1>1, <1>2, <1>3, UnfoldedPrimed

\* The invariant is inductive, and no step breaks the order of the messages or of
\* the waiters.
LEMMA NextIInv ==
  ASSUME IInv, [Next]_vars
  PROVE  IInv' /\ MovesInOrder /\ WakesMostUrgent
<1> DEFINE Goal == IInv' /\ MovesInOrder /\ WakesMostUrgent
<1>0. /\ Runs(kernel) /\ op \in [Apps -> Ops] /\ pc \in [Apps -> Places]
      /\ queue \in Rings /\ Ring /\ waiting \in Lists
  BY Unfolded
<1>1. ASSUME NEW o \in {"send", "recv"}, Call(o) PROVE Goal
  <2>1. /\ ~kernel.halted /\ cr \in Apps /\ pc[cr] = "run"
        /\ op' = [op EXCEPT ![cr] = o]
    BY <1>1 DEF Call, At
  <2>2. op' \in [Apps -> Ops] /\ \A t \in Apps \ {cr} : op'[t] = op[t]
    BY <1>0, <2>1 DEF Ops
  <2>3. CASE CanGoOn(o)
    <3>1. Transfer(o) /\ o \in Ops
      BY <1>1, <2>3 DEF Call, Ops
    <3> QED
      BY <2>1, <2>2, <2>3, <3>1, TransferKeeps
  <2>4. CASE ~CanGoOn(o)
    <3>1. /\ pc' = [pc EXCEPT ![cr] = "looked"] /\ kernel' = kernel
          /\ UNCHANGED << queue, waiting >> /\ last' = last
      BY <1>1, <2>4 DEF Call, Goto
    <3>2. /\ pc' \in [Apps -> Places]
          /\ \A t \in Apps \ {cr} : pc'[t] = pc[t]
      BY <1>0, <3>1 DEF Places
    <3>3. \A t \in Apps : pc[t] \in {"queued", "asleep"} => t # cr
      BY <2>1
    <3> QED
      BY <1>0, <2>2, <3>1, <3>2, <3>3, OthersKeep
  <2> QED
    BY <2>3, <2>4
<1>2. CASE NoTime
  <2>1. /\ cr \in Apps /\ pc[cr] = "looked" /\ pc' = [pc EXCEPT ![cr] = "run"]
        /\ UNCHANGED << kernel, queue, waiting, op >> /\ last' = << "timeout" >>
    BY <1>2 DEF NoTime, At, GiveUp, Goto
  <2>2. pc' \in [Apps -> Places] /\ \A t \in Apps \ {cr} : pc'[t] = pc[t]
    BY <1>0, <2>1 DEF Places
  <2>3. \A t \in Apps : pc[t] \in {"queued", "asleep"} => t # cr
    BY <2>1
  <2> QED
    BY <1>0, <2>1, <2>2, <2>3, OthersKeep
<1>3. CASE Register
  <2>1. /\ cr \in Apps /\ pc' = [pc EXCEPT ![cr] = "queued"]
        /\ UNCHANGED << kernel, queue, op, last >>
    BY <1>3 DEF Register, At, Goto
  <2>2. pc' \in [Apps -> Places]
    BY <1>0, <2>1 DEF Places
  <2>3. waiting' \in Lists /\ OnlyWaiters' /\ ListsSorted'
    BY <1>3, RegisterKeeps
  <2>4. MovesInOrder /\ WakesMostUrgent /\ queue' \in Rings /\ Ring'
    BY <1>0, <2>1, QueueRests
  <2> QED
    BY <1>0, <2>1, <2>2, <2>3, <2>4, UnfoldedPrimed
<1>4. ASSUME NEW ticks \in Timeouts, Wait(ticks) PROVE Goal
  <2>1. /\ cr \in Apps /\ pc[cr] = "queued" /\ pc' = [pc EXCEPT ![cr] = "asleep"]
        /\ ~kernel.halted /\ kernel' = DelayCurrent(kernel, ticks)
        /\ UNCHANGED << queue, waiting, op, last >>
    BY <1>4 DEF Wait, At, Goto
  <2>2. pc' \in [Apps -> Places] /\ \A t \in Apps : pc'[t] = pc[t] \/ pc'[t] = "asleep"
    BY <1>0, <2>1 DEF Places
  <2>3. ticks \in Nat
    BY MsgQueueAssumption, KernelAssumption
  <2>4. Runs(kernel') /\ kernel'.priority = kernel.priority
    BY <1>0, <2>1, <2>3, DelayRuns
  <2> QED
    BY <1>0, <2>1, <2>2, <2>4, OthersKeep
<1>5. CASE StillWaiting
  <2>1. /\ At("asleep") /\ cr \in Apps /\ pc[cr] = "asleep"
        /\ UNCHANGED << kernel, queue, op >>
    BY <1>5 DEF StillWaiting, At
  <2>2. CASE Holds(waiting[op[cr]], cr)
    <3>1. /\ pc' = [pc EXCEPT ![cr] = "run"] /\ last' = << "timeout" >>
          /\ waiting' = [waiting EXCEPT ![op[cr]] = Withdrawn(@)]
      BY <1>5, <2>2 DEF StillWaiting, GiveUp, Goto
    <3>2. pc' \in [Apps -> Places]
      BY <1>0, <3>1 DEF Places
    <3>3. waiting' \in Lists /\ OnlyWaiters' /\ ListsSorted'
      BY <2>1, <3>1, WithdrawKeeps
    <3>4. MovesInOrder /\ WakesMostUrgent /\ queue' \in Rings /\ Ring'
      BY <1>0, <2>1, <3>1, QueueRests
    <3> QED
      BY <1>0, <2>1, <3>2, <3>3, <3>4, UnfoldedPrimed
  <2>3. CASE ~Holds(waiting[op[cr]], cr)
    <3>1. pc' = [pc EXCEPT ![cr] = "woken"] /\ UNCHANGED << waiting, last >>
      BY <1>5, <2>3 DEF StillWaiting, Goto
    <3>2. pc' \in [Apps -> Places] /\ \A t \in Apps \ {cr} : pc'[t] = pc[t]
      BY <1>0, <3>1 DEF Places
    <3>3. op[cr] \in Ops /\ cr \notin Range(waiting[op[cr]])
      BY <1>0, <2>1, <2>3 DEF Holds
    <3>4. \A o \in Ops : cr \notin Range(waiting[o])
      BY <3>3 DEF IInv, OnlyWaiters, Ops
    <3>5. Shortened(waiting, waiting', kernel.priority)
      BY <3>1, SameLists
    <3>6. waiting' \in Lists /\ OnlyWaiters' /\ ListsSorted'
      <4>1. \A o \in Ops : Range(waiting'[o]) \subseteq Apps
        BY <1>0, <3>1, ListOf
      <4> QED
        BY <2>1, <3>1, <3>2, <3>4, <3>5, <4>1, ListsStay
    <3>7. MovesInOrder /\ WakesMostUrgent /\ queue' \in Rings /\ Ring'
      BY <1>0, <2>1, <3>1, QueueRests
    <3> QED
      BY <1>0, <2>1, <3>2, <3>6, <3>7, UnfoldedPrimed
  <2> QED
    BY <2>2, <2>3
<1>6. CASE Again
  <2>1. /\ ~kernel.halted /\ cr \in Apps /\ pc[cr] = "woken" /\ op' = op
    BY <1>6 DEF Again, At
  <2>2. CASE CanGoOn(op[cr])
    <3>1. Transfer(op[cr]) /\ op[cr] \in Ops
      BY <1>0, <1>6, <2>1, <2>2 DEF Again
    <3> QED
      BY <1>0, <2>1, <2>2, <3>1, TransferKeeps
  <2>3. CASE ~CanGoOn(op[cr])
    <3>1. /\ pc' = [pc EXCEPT ![cr] = "run"] /\ last' = << "timeout" >>
          /\ UNCHANGED << kernel, queue, waiting >>
      BY <1>6, <2>3 DEF Again, GiveUp, Goto
    <3>2. pc' \in [Apps -> Places] /\ \A t \in Apps \ {cr} : pc'[t] = pc[t]
      BY <1>0, <3>1 DEF Places
    <3>3. \A t \in Apps : pc[t] \in {"queued", "asleep"} => t # cr
      BY <2>1
    <3> QED
      BY <1>0, <2>1, <3>1, <3>2, <3>3, OthersKeep
  <2> QED
    BY <2>2, <2>3
<1>7. CASE Sleep
  <2>1. /\ ~kernel.halted /\ kernel' = DelayCurrent(kernel, 1)
        /\ UNCHANGED << queue, waiting, op, pc, last >>
    BY <1>7 DEF Sleep, At
  <2>2. Runs(kernel') /\ kernel'.priority = kernel.priority
    BY <1>0, <2>1, DelayRuns
  <2> QED
    BY <1>0, <2>1, <2>2, OthersKeep
<1>8. CASE Timer
  <2>1. /\ ~kernel.halted /\ kernel' = TickTrap(kernel, 1)
        /\ UNCHANGED << queue, waiting, op, pc, last >>
    BY <1>8 DEF Timer
  <2>2. Runs(kernel') /\ kernel'.priority = kernel.priority
    BY <1>0, <2>1, TickRuns
  <2> QED
    BY <1>0, <2>1, <2>2, OthersKeep
<1>9. CASE UNCHANGED vars
  <2>1. UNCHANGED << kernel, queue, waiting, op, pc, last >>
    BY <1>9 DEF vars
  <2> QED
    BY <1>0, <2>1, OthersKeep
<1> QED
  BY <1>1, <1>2, <1>3, <1>4, <1>5, <1>6, <1>7, <1>8, <1>9 DEF Next

\* After launch ring and lists are empty.
LEMMA InitIInv == Init => IInv /\ Promise!Init
<1> SUFFICES ASSUME Init PROVE IInv /\ Promise!Init
  OBVIOUS
<1>1. N \in Nat /\ N > 0
  BY MsgQueueAssumption
<1>2. Runs(kernel)
  <2>1. /\ Fit(kernel) /\ kernel.current \in Tid /\ kernel.sleeping = << >>
        /\ kernel.current \in Range(kernel.ready)
    BY FitLaunchedWith, MsgQueueAssumption DEF Init
  <2> QED
    BY <2>1, FitIsLoose DEF Runs
<1>3. /\ queue \in Rings /\ queue.head = 0 /\ queue.tail = 0 /\ queue.len = 0
  BY <1>1 DEF Init, Rings
<1>4. Ring
  BY <1>1, <1>3 DEF Ring, Turn
<1>5. waiting \in Lists /\ OnlyWaiters /\ ListsSorted
  <2>1. << >> \in Seq(Apps) /\ Len(<< >>) = 0 /\ Range(<< >>) = {}
    BY EmptySeq DEF Range
  <2>2. waiting.send = << >> /\ waiting.recv = << >> /\ waiting \in Lists
    BY <2>1 DEF Init, Lists
  <2>3. \A o \in Ops : waiting[o] = << >>
    BY <2>2 DEF Ops
  <2>4. IsInjective(<< >>) /\ \A key : SortedBy(<< >>, key)
    BY DEF IsInjective, SortedBy
  <2> QED
    BY <2>1, <2>2, <2>3, <2>4 DEF OnlyWaiters, ListsSorted, Ops
<1>6. op \in [Apps -> Ops] /\ pc \in [Apps -> Places]
  BY DEF Init, Ops, Places
<1>7. Promise!Init
  <2>1. ContentOf(queue) \in Seq(Messages \cup {Uninit}) /\ Len(ContentOf(queue)) = 0
    BY <1>3, ContentIsSeq
  <2>2. Content = << >>
    BY <2>1, ContentIs
  <2> QED
    BY <2>2 DEF Init, Promise!Init
<1> QED
  BY <1>2, <1>3, <1>4, <1>5, <1>6, <1>7, Unfolded

LEMMA SpecIInv == Spec => []IInv
<1>1. Init => IInv
  BY InitIInv
<1>2. IInv /\ [Next]_vars => IInv'
  BY NextIInv
<1> QED
  BY <1>1, <1>2, PTL DEF Spec

-----------------------------------------------------------------------------

\* A list of waiters holds the tasks that are in that call between the two
\* sections of wait_on and no others, each once, although tasks may come to stand
\* twice in READY_LIST (wait_on, try_wake_up).
THEOREM OnlyWaitersAreListed == Spec => []OnlyWaiters
<1>1. IInv => OnlyWaiters
  BY DEF IInv
<1> QED
  BY <1>1, SpecIInv, PTL

\* A push or a pop wakes a waiter whom nobody outranks that stays in the list
\* (insert_in_order in wait_on, pop_front in try_wake_up).
THEOREM MostUrgentIsWoken == Spec => MostUrgentFirst
<1>1. IInv /\ [Next]_vars => [WakesMostUrgent]_vars
  BY NextIInv
<1>2. MostUrgentFirst <=> [][WakesMostUrgent]_vars
  BY DEF MostUrgentFirst, WakesMostUrgent
<1> QED
  BY <1>1, <1>2, SpecIInv, PTL DEF Spec

\* The ring with its waiters is a bounded first-in first-out queue: every step of
\* send, recv and wait_on is a step of Fifo on the messages inside, or none.
THEOREM QueueIsFifo == Spec => IsFifo
<1>1. Init => Promise!Init
  BY InitIInv
<1>2. IInv /\ [Next]_vars => [Promise!Next]_<< Content, last >>
  BY NextIInv DEF MovesInOrder
<1>3. IsFifo <=> Promise!Init /\ [][Promise!Next]_<< Content, last >>
  BY DEF IsFifo, Promise!Spec, Promise!vars
<1> QED
  BY <1>1, <1>2, <1>3, SpecIInv, PTL DEF Spec
=============================================================================
