------------------------------ MODULE MutexOps ------------------------------
(***************************************************************************)
(* internal_lock and internal_unlock of core/src/kernel/sync.rs: what they *)
(* do to one mutex and to the kernel.  Mutex and CondVar compose them into *)
(* their operations.  PRI_INV in sub_priority says a task has inherited    *)
(* nothing; otherwise sub_priority keeps the priority to go back to.       *)
(***************************************************************************)
EXTENDS Kernel

\* Mutex::new.
FreeMutex == [owner |-> NoTask, recursive_count |-> 0, wait_queue |-> << >>]

MutexState(tasks) ==
  [owner : tasks \cup {NoTask}, recursive_count : Nat, wait_queue : Seq(tasks)]

\* Variant of Inherit: the priority to go back to is overwritten.
InheritForgets(k, owner, pri) ==
  IF pri >= k.priority[owner] THEN k
  ELSE LET boosted == [k EXCEPT !.sub_priority[owner] = k.priority[owner],
                                !.priority[owner] = pri]
       IN  IF k.status[owner] = "Ready"
           THEN [boosted EXCEPT
                   !.ready = InsertInOrder(Drop(@, owner), owner, boosted.priority)]
           ELSE boosted

\* Variant of Inherit: an owner that sleeps or waits is passed over.
InheritIfReady(k, owner, pri) ==
  IF pri >= k.priority[owner] \/ k.status[owner] = "Blocked" THEN k
  ELSE LET boosted == [k EXCEPT
                         !.sub_priority[owner] =
                           IF @ = PRI_INV THEN k.priority[owner] ELSE @,
                         !.priority[owner] = pri]
       IN  IF k.status[owner] = "Ready"
           THEN [boosted EXCEPT
                   !.ready = InsertInOrder(Drop(@, owner), owner, boosted.priority)]
           ELSE boosted

\* The owner inherits a more urgent priority, and its new place in READY_LIST
\* if it waits there; one that waits in a queue keeps its place.
Inherit(k, owner, pri) ==
  IF pri >= k.priority[owner] THEN k
  ELSE LET boosted == [k EXCEPT
                         !.sub_priority[owner] =
                           IF @ = PRI_INV THEN k.priority[owner] ELSE @,
                         !.priority[owner] = pri]
       IN  IF k.status[owner] = "Ready"
           THEN [boosted EXCEPT
                   !.ready = InsertInOrder(Drop(@, owner), owner, boosted.priority)]
           ELSE boosted

\* Variant of Locked: a lock within a lock is not counted.
LockedOnce(m, tid) == [m EXCEPT !.owner = tid, !.recursive_count = 1]

\* internal_lock of a mutex that is free or the caller's own.
Locked(m, tid) ==
  IF m.owner = tid THEN [m EXCEPT !.recursive_count = @ + 1]
  ELSE [m EXCEPT !.owner = tid, !.recursive_count = 1]

\* Variant of QueuedFor: push_back in place of insert_in_order.
QueuedForLast(k, m) == [m EXCEPT !.wait_queue = PushBack(@, k.current)]

\* internal_lock of somebody else's mutex.
QueuedFor(k, m) ==
  [m EXCEPT !.wait_queue = InsertInOrder(@, k.current, k.priority)]

LockBlocks(k, m) ==
  NextTcb(TakeOff(Inherit(k, m.owner, k.priority[k.current]), k.current))

\* The caller goes back to the priority it had before it inherited one, where it
\* stands in READY_LIST.
Deboosted(k) ==
  LET cr == k.current
  IN  IF k.sub_priority[cr] = PRI_INV THEN k
      ELSE [k EXCEPT !.priority[cr] = k.sub_priority[cr],
                     !.sub_priority[cr] = PRI_INV]

\* Variant of Released: the mutex is freed and the woken waiter not made owner.
ReleasedToNobody(m) ==
  IF m.recursive_count > 1 THEN [m EXCEPT !.recursive_count = @ - 1]
  ELSE IF m.wait_queue = << >> THEN FreeMutex
  ELSE [FreeMutex EXCEPT !.wait_queue = Tail(m.wait_queue)]

\* internal_unlock by the owner: the last unlock hands the mutex to the first
\* waiter, which does not run for it.
Released(m) ==
  IF m.recursive_count > 1 THEN [m EXCEPT !.recursive_count = @ - 1]
  ELSE IF m.wait_queue = << >> THEN FreeMutex
  ELSE [owner |-> Head(m.wait_queue), recursive_count |-> 1,
        wait_queue |-> Tail(m.wait_queue)]

\* internal_unlock up to its tests for a yield: the priority goes back, the first
\* waiter becomes ready.
HandedOver(k, m) ==
  IF m.recursive_count > 1 THEN k
  ELSE IF m.wait_queue # << >> THEN MakeReady(Deboosted(k), Head(m.wait_queue))
  ELSE Deboosted(k)

\* The tests: is the woken waiter, or else the front of READY_LIST, more urgent?
UnlockYields(k, m) ==
  LET back == HandedOver(k, m)
  IN  /\ m.recursive_count <= 1
      /\ IF m.wait_queue # << >> THEN OutranksCurrent(back, Head(m.wait_queue))
         ELSE back.ready # << >> /\ OutranksCurrent(back, Head(back.ready))

\* The kernel's side of internal_unlock.
UnlockKernel(k, m) ==
  IF UnlockYields(k, m) THEN NextTcb(HandedOver(k, m)) ELSE HandedOver(k, m)
=============================================================================
