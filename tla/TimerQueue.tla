------------------------------ MODULE TimerQueue ------------------------------
(***************************************************************************)
(* TimerQueue of core/src/kernel/async_rt.rs: a binary heap of wake-up     *)
(* times in an array as long as the pool of futures, ordered by the sign   *)
(* of the wrapped difference.  A heap is a sequence whose children of i    *)
(* are 2i and 2i+1; every operation is a function from heap to heap.       *)
(***************************************************************************)
EXTENDS Kernel

CONSTANT ASYNC_POOL_MAX  \* slots for futures, and for timers

ASSUME TimerQueueAssumption == ASYNC_POOL_MAX \in Nat \ {0}

Slots == 0 .. ASYNC_POOL_MAX - 1

\* a.wrapping_sub(b) as i32 >= 0
NotBefore(a, b) == (a - b) % TickMod < (TickMod + 1) \div 2

Earlier(e, f) == ~NotBefore(e.wake, f.wake)

Swap(heap, i, j) == [heap EXCEPT ![i] = heap[j], ![j] = heap[i]]

\* The loops below stay where they are once the code would break out of them,
\* so that they may be run once for every element.

\* One round of the loop of sift_up: a heap and the place of its new entry.
Rise(s) ==
  LET h == s[1]
      i == s[2]
  IN  IF i > 1 /\ Earlier(h[i], h[i \div 2])
      THEN << Swap(h, i, i \div 2), i \div 2 >> ELSE s

SiftUp(heap, last) ==
  LET sifted[n \in 0 .. Len(heap)] ==
        IF n = 0 THEN << heap, last >> ELSE Rise(sifted[n - 1])
  IN  sifted[Len(heap)][1]

\* Variant of Smallest: the right child is not looked at.
SmallestLeft(heap, i) ==
  IF 2 * i <= Len(heap) /\ Earlier(heap[2 * i], heap[i]) THEN 2 * i ELSE i

\* The earliest of i and its children.
Smallest(heap, i) ==
  LET better(j, k) == IF k <= Len(heap) /\ Earlier(heap[k], heap[j]) THEN k ELSE j
  IN  better(better(i, 2 * i), 2 * i + 1)

\* One round of the loop of sift_down.
Sink(s) ==
  LET h == s[1]
      i == s[2]
      j == Smallest(h, i)
  IN  IF j # i THEN << Swap(h, i, j), j >> ELSE s

SiftDown(heap) ==
  LET sifted[n \in 0 .. Len(heap)] ==
        IF n = 0 THEN << heap, 1 >> ELSE Sink(sifted[n - 1])
  IN  sifted[Len(heap)][1]

\* Variant of PushTimer: the last place is not used.
PushTimerShort(heap, entry) ==
  IF Len(heap) >= ASYNC_POOL_MAX - 1 THEN heap
  ELSE SiftUp(Append(heap, entry), Len(heap) + 1)

\* TimerQueue::push: a full heap forgets the timer.
PushTimer(heap, entry) ==
  IF Len(heap) = ASYNC_POOL_MAX THEN heap
  ELSE SiftUp(Append(heap, entry), Len(heap) + 1)

\* TimerQueue::pop_front, of a heap that is not empty.
PopTimer(heap) ==
  IF Len(heap) = 1 THEN << >>
  ELSE SiftDown([SubSeq(heap, 1, Len(heap) - 1) EXCEPT ![1] = heap[Len(heap)]])

\* One round of the loop of wake_expired: the first deadline, if it is over.
WakeTop(w, now) ==
  IF w.heap # << >> /\ NotBefore(now, w.heap[1].wake)
  THEN [heap |-> PopTimer(w.heap), slots |-> w.slots \cup {w.heap[1].slot}]
  ELSE w

\* TimerQueue::wake_expired: the heap that is left and the slots that were woken.
WakeExpired(heap, now) ==
  LET woken[n \in 0 .. Len(heap)] ==
        IF n = 0 THEN [heap |-> heap, slots |-> {}] ELSE WakeTop(woken[n - 1], now)
  IN  woken[Len(heap)]
=============================================================================
