----------------------------- MODULE MutexProofs -----------------------------
(***************************************************************************)
(* Mutexes with priority inheritance: who owns them, who waits for them    *)
(* and at which priority, for any number of tasks, priorities, mutexes and *)
(* guards.                                                                 *)
(***************************************************************************)
EXTENDS Mutex, KernelProofs

-----------------------------------------------------------------------------
(* Ownership.                                                              *)

\* Who is in the queue of a mutex is blocked in its lock and unknown to the
\* scheduler until the owner hands over; a task is blocked in one lock at most.
Queues ==
  /\ \A m \in Mutexes :
       /\ IsInjective(mutexes[m].wait_queue)
       /\ \A t \in Range(mutexes[m].wait_queue) :
            m \in waits[t] /\ mutexes[m].owner # t /\ t \notin Known(kernel)
  /\ \A t \in Apps : \A m, n \in waits[t] : m = n
  /\ \A t \in Apps : \A m \in waits[t] : guards[t][m] = 0

\* An owner has locked the mutex.
Counted == \A m \in Mutexes : mutexes[m].owner # NoTask => mutexes[m].recursive_count > 0

\* The inductive invariant.  A task that runs in lock after it was blocked takes
\* itself to own the mutex: it does, because only the hand-over makes the
\* scheduler know it again.
Owned == TypeOK /\ Hart(kernel) /\ Queues /\ OwnerHasTheGuards /\ Counted

\* main's tasks have the first tids; no owner is a null pointer.
LEMMA AppsAreTids == Apps \subseteq Tid /\ NoTask \notin Apps
BY MutexAssumption, KernelAssumption, TaskMaxAssumption DEF Apps, Tid

\* After launch every mutex is free and the front of READY_LIST runs.
LEMMA InitOwned == Init => Owned
<1> SUFFICES ASSUME Init PROVE Owned
  OBVIOUS
<1>1. Hart(kernel)
  BY FitLaunchedWith, MutexAssumption DEF Init, Hart
<1>2. TypeOK
  <2>1. FreeMutex \in MutexState(Apps)
    <3>1. << >> \in Seq(Apps)
      OBVIOUS
    <3> QED
      BY <3>1 DEF FreeMutex, MutexState
  <2>2. guards \in [Apps -> [Mutexes -> 0 .. MaxGuards]]
    BY MutexAssumption DEF Init
  <2> QED
    BY <1>1, <2>1, <2>2 DEF Init, TypeOK, Hart, Fit
<1>3. \A m \in Mutexes : /\ mutexes[m].owner = NoTask
                         /\ mutexes[m].wait_queue = << >>
                         /\ Range(mutexes[m].wait_queue) = {}
  BY DEF Init, FreeMutex, Range
<1>4. Queues
  BY <1>3 DEF Init, Queues, IsInjective
<1>5. OwnerHasTheGuards
  BY <1>3, AppsAreTids DEF Init, OwnerHasTheGuards, Holds
<1> QED
  BY <1>1, <1>2, <1>3, <1>4, <1>5 DEF Owned, Counted

\* What a task that is on the hart is not: in a queue.
LEMMA RunnerIsKnown ==
  ASSUME Hart(kernel), ~kernel.halted
  PROVE  cr \in Known(kernel)
BY DEF Hart, Known, cr

\* A step of the kernel that changes neither mutexes nor calls.
LEMMA KernelOnly ==
  ASSUME Owned, Hart(kernel'), Known(kernel') = Known(kernel),
         UNCHANGED << mutexes, waits, guards, nests >>
  PROVE  Owned'
<1>1. TypeOK'
  BY DEF Owned, TypeOK, Hart, Fit
<1>2. Queues'
  BY DEF Owned, Queues
<1>3. OwnerHasTheGuards'
  BY DEF Owned, OwnerHasTheGuards
<1> QED
  BY <1>1, <1>2, <1>3 DEF Owned, Counted

\* Mutex::lock that does not wait.
LEMMA LockKeepsOwned ==
  ASSUME Owned, NEW m \in Mutexes, Lock(m)
  PROVE  Owned'
<1> DEFINE x == mutexes[m]
           y == Locked(x, cr)
<1>1. /\ cr \in Apps /\ waits[cr] = {} /\ guards[cr][m] < MaxGuards
      /\ x.owner \in {NoTask, cr}
      /\ mutexes' = [mutexes EXCEPT ![m] = y]
      /\ guards' = [guards EXCEPT ![cr][m] = @ + 1]
      /\ UNCHANGED << kernel, waits, nests >>
  BY DEF Lock, Runs
<1>2. /\ mutexes \in [Mutexes -> MutexState(Apps)]
      /\ guards \in [Apps -> [Mutexes -> 0 .. MaxGuards]]
      /\ x \in MutexState(Apps) /\ x.recursive_count \in Nat
      /\ MaxGuards \in Nat
  BY MutexAssumption DEF Owned, TypeOK, MutexState
<1>3. /\ y \in MutexState(Apps) /\ y.owner = cr /\ y.wait_queue = x.wait_queue
      /\ y.recursive_count = IF x.owner = cr THEN x.recursive_count + 1 ELSE 1
  BY <1>1, <1>2, LockedLemma, AppsAreTids
<1> HIDE DEF y
<1>4. \A n \in Mutexes : mutexes'[n] = IF n = m THEN y ELSE mutexes[n]
  BY <1>1, <1>2
<1>5. \A t \in Apps, n \in Mutexes :
        guards'[t][n] = IF t = cr /\ n = m THEN guards[cr][m] + 1 ELSE guards[t][n]
  BY <1>1, <1>2
<1>6. TypeOK'
  <2>1. guards' \in [Apps -> [Mutexes -> 0 .. MaxGuards]]
    <3>1. guards[cr][m] + 1 \in 0 .. MaxGuards
      BY <1>1, <1>2
    <3> QED
      BY <1>1, <1>2, <3>1
  <2>2. mutexes' \in [Mutexes -> MutexState(Apps)]
    BY <1>1, <1>2, <1>3
  <2> QED
    BY <1>1, <2>1, <2>2 DEF Owned, TypeOK
<1>7. x.owner = NoTask => x.wait_queue = << >> /\ Range(x.wait_queue) = {}
  BY <1>1 DEF Owned, OwnerHasTheGuards, Range
<1>8. Queues'
  <2>1. ASSUME NEW n \in Mutexes
        PROVE  /\ IsInjective(mutexes'[n].wait_queue)
               /\ \A t \in Range(mutexes'[n].wait_queue) :
                    n \in waits'[t] /\ mutexes'[n].owner # t /\ t \notin Known(kernel')
    <3>1. mutexes'[n].wait_queue = mutexes[n].wait_queue
      BY <1>3, <1>4
    <3>2. \A t \in Range(mutexes[n].wait_queue) :
            mutexes'[n].owner = t => mutexes[n].owner = t
      BY <1>1, <1>3, <1>4, <1>7
    <3> QED
      BY <1>1, <3>1, <3>2 DEF Owned, Queues
  <2>2. \A t \in Apps : \A n \in waits'[t] : guards'[t][n] = 0
    BY <1>1, <1>5 DEF Owned, Queues, TypeOK
  <2> QED
    BY <1>1, <2>1, <2>2 DEF Owned, Queues
<1>9. OwnerHasTheGuards'
  <2> SUFFICES ASSUME NEW n \in Mutexes, NEW t \in Apps
               PROVE
                 /\ mutexes'[n].owner = t =>
                      mutexes'[n].recursive_count =
                        IF n \in waits'[t] THEN 1 + guards'[t][n] ELSE guards'[t][n]
                 /\ mutexes'[n].owner # t =>
                      /\ guards'[t][n] = 0
                      /\ n \in waits'[t] <=> Holds(mutexes'[n].wait_queue, t)
                 /\ mutexes'[n].owner = NoTask => mutexes'[n].wait_queue = << >>
    BY DEF OwnerHasTheGuards
  <2>1. /\ mutexes[n].owner = t =>
             mutexes[n].recursive_count =
               IF n \in waits[t] THEN 1 + guards[t][n] ELSE guards[t][n]
        /\ mutexes[n].owner # t =>
             guards[t][n] = 0 /\ (n \in waits[t] <=> Holds(mutexes[n].wait_queue, t))
        /\ mutexes[n].owner = NoTask => mutexes[n].wait_queue = << >>
    BY DEF Owned, OwnerHasTheGuards
  <2>2. guards[t][n] \in Nat /\ NoTask \notin Apps
    BY <1>2, AppsAreTids
  <2> QED
    BY <1>1, <1>2, <1>3, <1>4, <1>5, <2>1, <2>2
<1>10. Counted'
  BY <1>2, <1>3, <1>4 DEF Owned, Counted
<1> QED
  BY <1>1, <1>6, <1>8, <1>9, <1>10 DEF Owned

\* lock returns to a task that was handed the mutex.
LEMMA LockReturnsKeepsOwned ==
  ASSUME Owned, NEW m \in Mutexes, LockReturns(m)
  PROVE  Owned' /\ mutexes[m].owner = cr
<1>1. /\ cr \in Apps /\ m \in waits[cr] /\ ~kernel.halted
      /\ waits' = [waits EXCEPT ![cr] = {}]
      /\ guards' = [guards EXCEPT ![cr][m] = @ + 1]
      /\ UNCHANGED << kernel, mutexes, nests >>
  BY DEF LockReturns
<1>2. /\ waits \in [Apps -> SUBSET Mutexes]
      /\ guards \in [Apps -> [Mutexes -> 0 .. MaxGuards]]
      /\ MaxGuards \in Nat \ {0}
  BY MutexAssumption DEF Owned, TypeOK
<1>3. cr \in Known(kernel)
  BY <1>1, RunnerIsKnown DEF Owned
<1>4. mutexes[m].owner = cr
  BY <1>1, <1>3 DEF Owned, OwnerHasTheGuards, Queues, Holds
<1>5. \A t \in Apps : waits'[t] = IF t = cr THEN {} ELSE waits[t]
  BY <1>1, <1>2
<1>6. /\ guards[cr][m] = 0
      /\ \A n \in Mutexes : n \in waits[cr] => n = m
  BY <1>1 DEF Owned, Queues
<1>7. \A t \in Apps, n \in Mutexes :
        guards'[t][n] = IF t = cr /\ n = m THEN 1 ELSE guards[t][n]
  BY <1>1, <1>2, <1>6
<1>8. TypeOK'
  <2>1. guards' \in [Apps -> [Mutexes -> 0 .. MaxGuards]]
    <3>1. guards[cr][m] + 1 \in 0 .. MaxGuards
      BY <1>2, <1>6
    <3> QED
      BY <1>1, <1>2, <3>1
  <2>2. waits' \in [Apps -> SUBSET Mutexes]
    BY <1>1, <1>2
  <2> QED
    BY <1>1, <2>1, <2>2 DEF Owned, TypeOK
<1>9. Queues'
  <2>1. ASSUME NEW n \in Mutexes, NEW t \in Range(mutexes[n].wait_queue)
        PROVE  n \in waits'[t]
    <3>1. t # cr /\ n \in waits[t]
      BY <1>3 DEF Owned, Queues
    <3>2. t \in Apps
      <4>1. mutexes[n].wait_queue \in Seq(Apps)
        BY DEF Owned, TypeOK, MutexState
      <4> QED
        BY <4>1 DEF Range
    <3> QED
      BY <1>5, <3>1, <3>2
  <2>2. \A t \in Apps : \A n \in waits'[t] : guards'[t][n] = 0
    BY <1>2, <1>5, <1>7 DEF Owned, Queues
  <2>3. \A t \in Apps : \A n, o \in waits'[t] : n = o
    BY <1>5 DEF Owned, Queues
  <2> QED
    BY <1>1, <2>1, <2>2, <2>3 DEF Owned, Queues
<1>10. OwnerHasTheGuards'
  <2> SUFFICES ASSUME NEW n \in Mutexes, NEW t \in Apps
               PROVE
                 /\ mutexes[n].owner = t =>
                      mutexes[n].recursive_count =
                        IF n \in waits'[t] THEN 1 + guards'[t][n] ELSE guards'[t][n]
                 /\ mutexes[n].owner # t =>
                      /\ guards'[t][n] = 0
                      /\ n \in waits'[t] <=> Holds(mutexes[n].wait_queue, t)
                 /\ mutexes[n].owner = NoTask => mutexes[n].wait_queue = << >>
    BY <1>1 DEF OwnerHasTheGuards
  <2>1. /\ mutexes[n].owner = t =>
             mutexes[n].recursive_count =
               IF n \in waits[t] THEN 1 + guards[t][n] ELSE guards[t][n]
        /\ mutexes[n].owner # t =>
             guards[t][n] = 0 /\ (n \in waits[t] <=> Holds(mutexes[n].wait_queue, t))
        /\ mutexes[n].owner = NoTask => mutexes[n].wait_queue = << >>
    BY DEF Owned, OwnerHasTheGuards
  <2> QED
    BY <1>1, <1>4, <1>5, <1>6, <1>7, <2>1
<1> QED
  BY <1>1, <1>4, <1>8, <1>9, <1>10 DEF Owned, Counted

\* Mutex::lock of somebody else's mutex.
LEMMA LockWaitsKeepsOwned ==
  ASSUME Owned, NEW m \in Mutexes, LockWaits(m)
  PROVE  /\ Owned'
         /\ mutexes[m].owner \in Apps /\ mutexes[m].owner # cr /\ cr \in Apps
         /\ Range(mutexes'[m].wait_queue) = Range(mutexes[m].wait_queue) \cup {cr}
         /\ mutexes'[m].owner = mutexes[m].owner
         /\ \A n \in Mutexes \ {m} : mutexes'[n] = mutexes[n]
         /\ SortedBy(mutexes[m].wait_queue, kernel.priority)
              => SortedBy(mutexes'[m].wait_queue, kernel.priority)
         /\ OthersKeepPriority(kernel, kernel', mutexes[m].owner)
         /\ IF kernel.priority[cr] >= kernel.priority[mutexes[m].owner]
            THEN SamePriorities(kernel, kernel')
            ELSE /\ kernel'.priority[mutexes[m].owner] = kernel.priority[cr]
                 /\ kernel'.sub_priority[mutexes[m].owner]
                      = IF kernel.sub_priority[mutexes[m].owner] = PRI_INV
                        THEN kernel.priority[mutexes[m].owner]
                        ELSE kernel.sub_priority[mutexes[m].owner]
         /\ \A t \in Apps : waits'[t] = IF t = cr THEN {m} ELSE waits[t]
<1> DEFINE x == mutexes[m]
           y == QueuedFor(kernel, x)
<1>1. /\ cr \in Apps /\ ~kernel.halted /\ waits[cr] = {}
      /\ x.owner \notin {NoTask, cr}
      /\ mutexes' = [mutexes EXCEPT ![m] = y]
      /\ kernel' = LockBlocks(kernel, x)
      /\ waits' = [waits EXCEPT ![cr] = {m}]
      /\ UNCHANGED << guards, nests >>
  BY DEF LockWaits, Runs
<1>2. /\ mutexes \in [Mutexes -> MutexState(Apps)]
      /\ waits \in [Apps -> SUBSET Mutexes]
      /\ x \in MutexState(Apps) /\ IsInjective(x.wait_queue)
      /\ Fit(kernel) /\ Hart(kernel) /\ cr \in Tid
  BY DEF Owned, TypeOK, Queues, Hart, cr
<1>3. x.owner \in Apps /\ x.owner \in Tid
  BY <1>1, <1>2, AppsAreTids DEF MutexState
<1>4. cr \in Known(kernel) /\ \A n \in Mutexes : cr \notin Range(mutexes[n].wait_queue)
  BY <1>1, RunnerIsKnown DEF Owned, Queues
<1>5. /\ y \in MutexState(Apps) /\ y.owner = x.owner
      /\ y.recursive_count = x.recursive_count
      /\ IsInjective(y.wait_queue) /\ Range(y.wait_queue) = Range(x.wait_queue) \cup {cr}
      /\ SortedBy(x.wait_queue, kernel.priority)
           => SortedBy(y.wait_queue, kernel.priority)
  <2> HIDE DEF x
  <2> QED BY <1>1, <1>2, <1>4, QueuedForLemma, AppsAreTids DEF cr, x
<1> HIDE DEF y
<1>6. \A n \in Mutexes : mutexes'[n] = IF n = m THEN y ELSE mutexes[n]
  BY <1>1, <1>2
<1>7. \A t \in Apps : waits'[t] = IF t = cr THEN {m} ELSE waits[t]
  BY <1>1, <1>2
<1>8. /\ Hart(kernel') /\ Known(kernel') = Known(kernel) \ {cr}
      /\ OthersKeepPriority(kernel, kernel', x.owner)
      /\ IF kernel.priority[cr] >= kernel.priority[x.owner]
         THEN SamePriorities(kernel, kernel')
         ELSE /\ kernel'.priority[x.owner] = kernel.priority[cr]
              /\ kernel'.sub_priority[x.owner]
                   = IF kernel.sub_priority[x.owner] = PRI_INV
                     THEN kernel.priority[x.owner] ELSE kernel.sub_priority[x.owner]
  <2> HIDE DEF x
  <2> QED BY <1>1, <1>2, <1>3, LockBlocksLemma DEF cr
<1>9. TypeOK'
  <2>1. waits' \in [Apps -> SUBSET Mutexes]
    BY <1>1, <1>2
  <2>2. mutexes' \in [Mutexes -> MutexState(Apps)]
    BY <1>1, <1>2, <1>5
  <2> QED
    BY <1>1, <1>8, <2>1, <2>2 DEF Owned, TypeOK, Hart, Fit
<1>10. \A n \in Mutexes : Range(mutexes[n].wait_queue) \subseteq Apps
  BY <1>2 DEF MutexState, Range
<1>11. guards[cr][m] = 0
  BY <1>1 DEF Owned, OwnerHasTheGuards
<1>12. Queues'
  <2>1. ASSUME NEW n \in Mutexes
        PROVE  /\ IsInjective(mutexes'[n].wait_queue)
               /\ \A t \in Range(mutexes'[n].wait_queue) :
                    n \in waits'[t] /\ mutexes'[n].owner # t /\ t \notin Known(kernel')
    BY <1>1, <1>4, <1>5, <1>6, <1>7, <1>8, <1>10 DEF Owned, Queues
  <2>2. \A t \in Apps : \A n \in waits'[t] : guards'[t][n] = 0
    BY <1>1, <1>7, <1>11 DEF Owned, Queues
  <2>3. \A t \in Apps : \A n, o \in waits'[t] : n = o
    BY <1>7 DEF Owned, Queues
  <2> QED
    BY <2>1, <2>2, <2>3 DEF Queues
<1>13. OwnerHasTheGuards'
  <2> SUFFICES ASSUME NEW n \in Mutexes, NEW t \in Apps
               PROVE
                 /\ mutexes'[n].owner = t =>
                      mutexes'[n].recursive_count =
                        IF n \in waits'[t] THEN 1 + guards'[t][n] ELSE guards'[t][n]
                 /\ mutexes'[n].owner # t =>
                      /\ guards'[t][n] = 0
                      /\ n \in waits'[t] <=> Holds(mutexes'[n].wait_queue, t)
                 /\ mutexes'[n].owner = NoTask => mutexes'[n].wait_queue = << >>
    BY DEF OwnerHasTheGuards
  <2>1. /\ mutexes[n].owner = t =>
             mutexes[n].recursive_count =
               IF n \in waits[t] THEN 1 + guards[t][n] ELSE guards[t][n]
        /\ mutexes[n].owner # t =>
             guards[t][n] = 0 /\ (n \in waits[t] <=> Holds(mutexes[n].wait_queue, t))
        /\ mutexes[n].owner = NoTask => mutexes[n].wait_queue = << >>
    BY DEF Owned, OwnerHasTheGuards
  <2>2. CASE t = cr
    BY <1>1, <1>4, <1>5, <1>6, <1>7, <2>1, <2>2 DEF Holds
  <2>3. CASE t # cr
    BY <1>1, <1>5, <1>6, <1>7, <2>1, <2>3 DEF Holds
  <2> QED
    BY <2>2, <2>3
<1>14. Counted'
  BY <1>5, <1>6 DEF Owned, Counted
<1> QED
  BY <1>1, <1>3, <1>5, <1>6, <1>7, <1>8, <1>9, <1>12, <1>13, <1>14 DEF Owned

\* A guard is dropped: the mutex stays with the caller, or is free, or belongs
\* to the waiter that the scheduler knows again.
LEMMA UnlockKeepsOwned ==
  ASSUME Owned, NEW m \in Mutexes, Unlock(m)
  PROVE  /\ Owned' /\ mutexes[m].owner = cr /\ cr \in Apps
         /\ waits[cr] = {} /\ waits' = waits
         /\ \A n \in Mutexes \ {m} : mutexes'[n] = mutexes[n]
         /\ \/ /\ kernel' = kernel /\ mutexes'[m].owner = cr
               /\ mutexes'[m].wait_queue = mutexes[m].wait_queue
            \/ /\ GivenBack(kernel, kernel')
               /\ mutexes[m].wait_queue = << >>
               /\ mutexes'[m].owner = NoTask /\ mutexes'[m].wait_queue = << >>
            \/ /\ GivenBack(kernel, kernel')
               /\ mutexes[m].wait_queue # << >>
               /\ mutexes'[m].owner = Head(mutexes[m].wait_queue)
               /\ mutexes'[m].owner \in Range(mutexes[m].wait_queue)
               /\ mutexes'[m].wait_queue = Tail(mutexes[m].wait_queue)
               /\ Range(mutexes'[m].wait_queue)
                    = Range(mutexes[m].wait_queue) \ {mutexes'[m].owner}
<1> DEFINE x == mutexes[m]
           y == Released(x)
           first == Head(x.wait_queue)
<1>1. /\ cr \in Apps /\ ~kernel.halted /\ waits[cr] = {} /\ guards[cr][m] > 0
      /\ mutexes' = [mutexes EXCEPT ![m] = y]
      /\ kernel' = UnlockKernel(kernel, x)
      /\ guards' = [guards EXCEPT ![cr][m] = @ - 1]
      /\ UNCHANGED << waits, nests >>
  BY DEF Unlock, Runs
<1>2. /\ mutexes \in [Mutexes -> MutexState(Apps)]
      /\ guards \in [Apps -> [Mutexes -> 0 .. MaxGuards]]
      /\ x \in MutexState(Apps) /\ IsInjective(x.wait_queue)
      /\ Hart(kernel) /\ cr \in Tid /\ MaxGuards \in Nat
      /\ guards[cr][m] \in Nat
  BY <1>1, MutexAssumption DEF Owned, TypeOK, Queues, Hart, cr
<1>3. x.owner = cr /\ x.recursive_count = guards[cr][m]
  <2>1. /\ x.owner = cr => x.recursive_count =
                             IF m \in waits[cr] THEN 1 + guards[cr][m] ELSE guards[cr][m]
        /\ x.owner # cr => guards[cr][m] = 0
    BY <1>1 DEF Owned, OwnerHasTheGuards
  <2> QED
    BY <1>1, <2>1
<1>4. cr \in Known(kernel) /\ \A n \in Mutexes : cr \notin Range(mutexes[n].wait_queue)
  BY <1>1, RunnerIsKnown DEF Owned, Queues
<1>5. /\ y \in MutexState(Apps) /\ IsInjective(y.wait_queue)
      /\ IF x.recursive_count > 1
         THEN /\ y.owner = cr /\ y.wait_queue = x.wait_queue
              /\ y.recursive_count = x.recursive_count - 1
         ELSE IF x.wait_queue = << >>
         THEN y.owner = NoTask /\ y.wait_queue = << >>
         ELSE /\ y.owner = first /\ first \in Range(x.wait_queue) /\ first \in Apps
              /\ y.recursive_count = 1 /\ y.wait_queue = Tail(x.wait_queue)
              /\ Range(y.wait_queue) = Range(x.wait_queue) \ {first}
  <2> HIDE DEF x
  <2> QED BY <1>1, <1>2, <1>3, ReleasedLemma, AppsAreTids
<1> HIDE DEF y
<1>6. \A n \in Mutexes : mutexes'[n] = IF n = m THEN y ELSE mutexes[n]
  BY <1>1, <1>2
<1>7. \A t \in Apps, n \in Mutexes :
        guards'[t][n] = IF t = cr /\ n = m THEN guards[cr][m] - 1 ELSE guards[t][n]
  BY <1>1, <1>2
<1>8. /\ Hart(kernel')
      /\ IF x.recursive_count > 1 THEN kernel' = kernel
         ELSE GivenBack(kernel, kernel')
      /\ IF x.recursive_count > 1 \/ x.wait_queue = << >>
         THEN Known(kernel') = Known(kernel)
         ELSE Known(kernel') = Known(kernel) \cup {first}
  <2>1. CASE x.recursive_count > 1
    <3>1. ~(x.recursive_count <= 1)
      BY <1>2, <1>3, <2>1
    <3>2. kernel' = kernel
      BY <1>1, <2>1, <3>1 DEF UnlockKernel, UnlockYields, HandedOver
    <3> QED
      BY <1>2, <2>1, <3>2
  <2>2. CASE ~(x.recursive_count > 1)
    <3>1. x.recursive_count = 1
      BY <1>1, <1>2, <1>3, <2>2
    <3>2. x.wait_queue # << >> => first \in Tid \ Known(kernel)
      BY <1>5, <2>2, AppsAreTids DEF Owned, Queues
    <3> HIDE DEF x
    <3>3. /\ Hart(kernel') /\ GivenBack(kernel, kernel')
          /\ Known(kernel') = IF x.wait_queue = << >> THEN Known(kernel)
                              ELSE Known(kernel) \cup {first}
      BY <1>1, <1>2, <3>1, <3>2, UnlockKernelLemma DEF Hart
    <3> QED
      BY <2>2, <3>3
  <2> QED
    BY <2>1, <2>2
<1> HIDE DEF first
<1>9. TypeOK'
  <2>1. guards' \in [Apps -> [Mutexes -> 0 .. MaxGuards]]
    <3>1. guards[cr][m] - 1 \in 0 .. MaxGuards
      BY <1>1, <1>2
    <3> QED
      BY <1>1, <1>2, <3>1
  <2>2. mutexes' \in [Mutexes -> MutexState(Apps)]
    BY <1>1, <1>2, <1>5
  <2> QED
    BY <1>1, <1>8, <2>1, <2>2 DEF Owned, TypeOK, Hart, Fit
<1>10. Queues'
  <2>1. ASSUME NEW n \in Mutexes, n # m
        PROVE  /\ IsInjective(mutexes'[n].wait_queue)
               /\ \A t \in Range(mutexes'[n].wait_queue) :
                    n \in waits'[t] /\ mutexes'[n].owner # t /\ t \notin Known(kernel')
    <3>1. mutexes'[n] = mutexes[n] /\ IsInjective(mutexes[n].wait_queue)
      BY <1>6, <2>1 DEF Owned, Queues
    <3>2. \A t \in Range(mutexes[n].wait_queue) :
            n \in waits[t] /\ mutexes[n].owner # t /\ t \notin Known(kernel)
      BY DEF Owned, Queues
    <3>3. ~(x.recursive_count > 1) /\ x.wait_queue # << >>
            => first \notin Range(mutexes[n].wait_queue)
      <4> SUFFICES ASSUME ~(x.recursive_count > 1), x.wait_queue # << >>,
                          first \in Range(mutexes[n].wait_queue)
                   PROVE  FALSE
        OBVIOUS
      <4>1. first \in Apps /\ first \in Range(x.wait_queue)
        BY <1>5
      <4>2. m \in waits[first] /\ n \in waits[first]
        BY <3>2, <4>1 DEF Owned, Queues
      <4> QED
        BY <2>1, <4>1, <4>2 DEF Owned, Queues
    <3> QED
      BY <1>1, <1>8, <3>1, <3>2, <3>3
  <2>2. /\ IsInjective(mutexes'[m].wait_queue)
        /\ \A t \in Range(mutexes'[m].wait_queue) :
             m \in waits'[t] /\ mutexes'[m].owner # t /\ t \notin Known(kernel')
    <3>1. mutexes'[m] = y
      BY <1>6
    <3>2. \A t \in Range(x.wait_queue) : m \in waits[t] /\ x.owner # t /\ t \notin Known(kernel)
      BY DEF Owned, Queues
    <3> HIDE DEF x
    <3>3. CASE x.recursive_count > 1
      BY <1>1, <1>3, <1>5, <1>8, <3>1, <3>2, <3>3
    <3>4. CASE ~(x.recursive_count > 1) /\ x.wait_queue = << >>
      BY <1>5, <3>1, <3>4 DEF Range
    <3>5. CASE ~(x.recursive_count > 1) /\ x.wait_queue # << >>
      BY <1>1, <1>5, <1>8, <3>1, <3>2, <3>5
    <3> QED
      BY <3>3, <3>4, <3>5
  <2>3. \A t \in Apps : \A n \in waits'[t] : guards'[t][n] = 0
    BY <1>1, <1>2, <1>7 DEF Owned, Queues, TypeOK
  <2>4. \A t \in Apps : \A n, o \in waits'[t] : n = o
    BY <1>1 DEF Owned, Queues
  <2> QED
    BY <2>1, <2>2, <2>3, <2>4 DEF Queues
<1>11. OwnerHasTheGuards'
  <2> SUFFICES ASSUME NEW n \in Mutexes, NEW t \in Apps
               PROVE
                 /\ mutexes'[n].owner = t =>
                      mutexes'[n].recursive_count =
                        IF n \in waits'[t] THEN 1 + guards'[t][n] ELSE guards'[t][n]
                 /\ mutexes'[n].owner # t =>
                      /\ guards'[t][n] = 0
                      /\ n \in waits'[t] <=> Holds(mutexes'[n].wait_queue, t)
                 /\ mutexes'[n].owner = NoTask => mutexes'[n].wait_queue = << >>
    BY DEF OwnerHasTheGuards
  <2>1. /\ mutexes[n].owner = t =>
             mutexes[n].recursive_count =
               IF n \in waits[t] THEN 1 + guards[t][n] ELSE guards[t][n]
        /\ mutexes[n].owner # t =>
             guards[t][n] = 0 /\ (n \in waits[t] <=> Holds(mutexes[n].wait_queue, t))
        /\ mutexes[n].owner = NoTask => mutexes[n].wait_queue = << >>
    BY DEF Owned, OwnerHasTheGuards
  <2>2. CASE n # m
    BY <1>1, <1>6, <1>7, <2>1, <2>2
  <2>3. CASE n = m
    <3>1. mutexes'[n] = y /\ mutexes[n] = x /\ NoTask \notin Apps
      BY <1>6, <2>3, AppsAreTids
    <3>2. guards'[t][n] = IF t = cr THEN guards[cr][m] - 1 ELSE guards[t][n]
      BY <1>7, <2>3
    <3>3. t \in Range(x.wait_queue) => guards[t][m] = 0 /\ m \in waits[t]
      BY DEF Owned, Queues
    <3>4. cr \notin Range(x.wait_queue)
      BY <1>4
    <3> HIDE DEF x
    <3>5. CASE x.recursive_count > 1
      BY <1>1, <1>2, <1>3, <1>5, <2>1, <2>3, <3>1, <3>2, <3>5
    <3>6. CASE ~(x.recursive_count > 1) /\ x.wait_queue = << >>
      BY <1>1, <1>2, <1>3, <1>5, <2>1, <2>3, <3>1, <3>2, <3>4, <3>6 DEF Holds
    <3>7. CASE ~(x.recursive_count > 1) /\ x.wait_queue # << >>
      <4>1. guards[cr][m] - 1 = 0
        BY <1>1, <1>2, <1>3, <3>7
      <4>2. CASE t = cr
        BY <1>1, <1>3, <1>5, <2>1, <2>3, <3>1, <3>2, <3>4, <3>7, <4>1, <4>2 DEF Holds
      <4>3. CASE t # cr
        BY <1>1, <1>3, <1>5, <2>1, <2>3, <3>1, <3>2, <3>3, <3>7, <4>3 DEF Holds
      <4> QED
        BY <4>2, <4>3
    <3> QED
      BY <3>5, <3>6, <3>7
  <2> QED
    BY <2>2, <2>3
<1>12. Owned'
  <2>1. Counted'
    <3>1. y.owner # NoTask => y.recursive_count > 0
      BY <1>2, <1>3, <1>5
    <3> QED
      BY <1>6, <3>1 DEF Owned, Counted
  <2> QED
    BY <1>1, <1>8, <1>9, <1>10, <1>11, <2>1 DEF Owned
<1>13. /\ mutexes'[m] = y /\ \A n \in Mutexes \ {m} : mutexes'[n] = mutexes[n]
  BY <1>6
<1>14. CASE x.recursive_count > 1
  BY <1>1, <1>3, <1>5, <1>8, <1>12, <1>13, <1>14
<1>15. CASE ~(x.recursive_count > 1) /\ x.wait_queue = << >>
  BY <1>1, <1>3, <1>5, <1>8, <1>12, <1>13, <1>15
<1>16. CASE ~(x.recursive_count > 1) /\ x.wait_queue # << >>
  BY <1>1, <1>3, <1>5, <1>8, <1>12, <1>13, <1>16 DEF first
<1> QED
  BY <1>14, <1>15, <1>16

\* The caller sleeps, or the timer ticks.
LEMMA SleepKeepsOwned ==
  ASSUME Owned, Sleep
  PROVE  Owned' /\ SamePriorities(kernel, kernel')
<1>1. /\ ~kernel.halted /\ kernel' = DelayCurrent(kernel, 1)
      /\ UNCHANGED << mutexes, waits, guards, nests >>
  BY DEF Sleep, Runs
<1>2. Yielded(kernel, kernel')
  BY <1>1, FitDelay DEF Owned, Hart
<1> QED
  BY <1>1, <1>2, KernelOnly DEF Yielded, Hart, SamePriorities, SameTasks

\* systick_tick knows nothing of mutexes.
LEMMA TimerKeepsOwned ==
  ASSUME Owned, Timer
  PROVE  Owned' /\ SamePriorities(kernel, kernel')
<1>1. /\ ~kernel.halted /\ kernel' = TickTrap(kernel, 1)
      /\ UNCHANGED << mutexes, waits, guards, nests >>
  BY DEF Timer
<1>2. /\ Fit(kernel') /\ Known(kernel') = Known(kernel) /\ kernel'.current \in Tid
      /\ kernel'.current \in Range(kernel'.ready)
      /\ kernel'.priority = kernel.priority
      /\ kernel'.sub_priority = kernel.sub_priority
  BY <1>1, FitTick DEF Owned, Hart
<1> QED
  BY <1>1, <1>2, KernelOnly DEF Hart, SamePriorities

\* Every step keeps ownership.
LEMMA NextOwned == Owned /\ [Next]_vars => Owned'
<1> SUFFICES ASSUME Owned, [Next]_vars PROVE Owned'
  OBVIOUS
<1>1. ASSUME NEW m \in Mutexes, Lock(m) PROVE Owned'
  BY <1>1, LockKeepsOwned
<1>2. ASSUME NEW m \in Mutexes, LockWaits(m) PROVE Owned'
  BY <1>2, LockWaitsKeepsOwned
<1>3. ASSUME NEW m \in Mutexes, LockReturns(m) PROVE Owned'
  BY <1>3, LockReturnsKeepsOwned
<1>4. ASSUME NEW m \in Mutexes, Unlock(m) PROVE Owned'
  BY <1>4, UnlockKeepsOwned
<1>5. CASE Sleep
  BY <1>5, SleepKeepsOwned
<1>6. CASE Timer
  BY <1>6, TimerKeepsOwned
<1>7. CASE UNCHANGED vars
  BY <1>7, KernelOnly DEF vars, Owned
<1> QED
  BY <1>1, <1>2, <1>3, <1>4, <1>5, <1>6, <1>7 DEF Next

\* Ownership is an invariant.
LEMMA SpecOwned == Spec => []Owned
BY InitOwned, NextOwned, PTL DEF Spec

\* Types: the kernel of every reachable state is one of KernelState with a
\* current task, and no guard is counted that the bound forbids (sync.rs, on top
\* of sched.rs).
THEOREM TypeCorrect == Spec => []TypeOK
<1>1. Owned => TypeOK
  BY DEF Owned
<1> QED
  BY <1>1, SpecOwned, PTL

\* The owner a mutex names is the task with its guards, or the waiter it was
\* handed to; this holds although lock, when the task runs again, does not look
\* at the mutex (internal_lock, internal_unlock).
THEOREM OwnerAlwaysHasTheGuards == Spec => []OwnerHasTheGuards
<1>1. Owned => OwnerHasTheGuards
  BY DEF Owned
<1> QED
  BY <1>1, SpecOwned, PTL

\* No two tasks hold guards of one mutex, however they are interleaved, put to
\* sleep, rotated or boosted (MutexGuard).
THEOREM MutexExcludes == Spec => []MutualExclusion
<1>1. Owned => MutualExclusion
  <2> SUFFICES ASSUME Owned, NEW m \in Mutexes, NEW t \in Apps, NEW u \in Apps,
                      guards[t][m] > 0, guards[u][m] > 0
               PROVE  t = u
    BY DEF MutualExclusion
  <2>1. /\ mutexes[m].owner # t => guards[t][m] = 0
        /\ mutexes[m].owner # u => guards[u][m] = 0
    BY DEF Owned, OwnerHasTheGuards
  <2> QED
    BY <2>1
<1> QED
  BY <1>1, SpecOwned, PTL

-----------------------------------------------------------------------------
(* Priorities.                                                             *)

\* A task has its own priority, or it owns a mutex and remembers its own.
Based ==
  \A t \in Apps :
    IF kernel.sub_priority[t] = PRI_INV THEN kernel.priority[t] = Base(t)
    ELSE /\ kernel.sub_priority[t] = Base(t)
         /\ \E m \in Mutexes : mutexes[m].owner = t

\* The mutexes a task has to do with.
Has(t, m) == mutexes[m].owner = t \/ m \in waits[t]

\* Among tasks that hold one mutex at a time, a task that waits owns none: its
\* priority does not change while it is in a queue.
OneEach ==
  \A t \in Apps : \A m, n \in Mutexes : Has(t, m) /\ Has(t, n) => m = n

QueuesSorted ==
  \A m \in Mutexes : SortedBy(mutexes[m].wait_queue, kernel.priority)

Calm == ~nests => OneEach /\ QueuesSorted /\ Inherited

\* The inductive invariant of the priorities, on top of ownership.
IInv == Owned /\ Based /\ Calm

\* No task is created at the value that stands for `nothing inherited'.
LEMMA BasesArePriorities == \A t \in Apps : Base(t) \in Priorities /\ Base(t) # PRI_INV
<1> SUFFICES ASSUME NEW t \in Apps PROVE Base(t) \in Priorities
  BY KernelAssumption DEF Priorities
<1>1. t + 1 \in 1 .. Len(TaskPriorities)
  BY MutexAssumption DEF Apps
<1> QED
  BY <1>1, MutexAssumption DEF Base

\* The keys the queues are ordered by, and who can be in a queue.
LEMMA PriorityTypes ==
  ASSUME Owned
  PROVE  /\ kernel.priority \in [Tid -> Priorities] /\ kernel.priority \in [Tid -> Nat]
         /\ \A m \in Mutexes :
              /\ mutexes[m].wait_queue \in Seq(Tid)
              /\ Range(mutexes[m].wait_queue) \subseteq Apps
              /\ mutexes[m].owner \in Apps \cup {NoTask}
<1>1. kernel.priority \in [Tid -> Priorities]
  BY DEF Owned, TypeOK, KernelState
<1>2. kernel.priority \in [Tid -> Nat]
  BY <1>1, KernelAssumption DEF Priorities
<1>3. ASSUME NEW m \in Mutexes
      PROVE  /\ mutexes[m].wait_queue \in Seq(Tid)
             /\ Range(mutexes[m].wait_queue) \subseteq Apps
             /\ mutexes[m].owner \in Apps \cup {NoTask}
  <2>1. mutexes[m] \in MutexState(Apps)
    BY DEF Owned, TypeOK
  <2>2. mutexes[m].wait_queue \in Seq(Apps)
    BY <2>1 DEF MutexState
  <2> QED
    BY <2>1, <2>2, AppsAreTids DEF MutexState, Range
<1> QED
  BY <1>1, <1>2, <1>3

\* After launch no task has inherited anything.
LEMMA InitIInv == Init => IInv
<1> SUFFICES ASSUME Init PROVE IInv
  OBVIOUS
<1>1. Owned
  BY InitOwned
<1>2. \A m \in Mutexes : mutexes[m].owner = NoTask /\ mutexes[m].wait_queue = << >>
  BY DEF Init, FreeMutex
<1>3. Based
  <2>1. /\ \A t \in 0 .. Len(TaskPriorities) - 1 :
             kernel.priority[t] = TaskPriorities[t + 1]
        /\ \A t \in Tid : kernel.sub_priority[t] = PRI_INV
    BY FitLaunchedWith, MutexAssumption DEF Init
  <2> QED
    BY <2>1, AppsAreTids DEF Based, Base, Apps
<1>4. Calm
  <2>1. OneEach
    BY <1>2, AppsAreTids DEF Init, OneEach, Has
  <2>2. QueuesSorted
    BY <1>2 DEF QueuesSorted, SortedBy
  <2>3. Inherited
    BY <1>2 DEF Inherited, Range
  <2> QED
    BY <2>1, <2>2, <2>3 DEF Calm
<1> QED
  BY <1>1, <1>3, <1>4 DEF IInv

\* A step that changes neither priorities, nor owners, nor who is in which lock.
LEMMA PrioritiesStay ==
  ASSUME IInv, Owned', SamePriorities(kernel, kernel'), UNCHANGED << mutexes, nests >>,
         \A t \in Apps : waits'[t] \subseteq waits[t]
  PROVE  IInv'
<1>1. Based'
  BY DEF IInv, Based, SamePriorities
<1>2. ASSUME ~nests PROVE OneEach' /\ QueuesSorted' /\ Inherited'
  <2>1. OneEach /\ QueuesSorted /\ Inherited
    BY <1>2 DEF IInv, Calm
  <2>2. OneEach'
    BY <2>1 DEF OneEach, Has
  <2>3. QueuesSorted'
    BY <2>1 DEF QueuesSorted, SamePriorities
  <2>4. Inherited'
    BY <2>1 DEF Inherited, SamePriorities
  <2> QED
    BY <2>2, <2>3, <2>4
<1>3. Calm'
  BY <1>2 DEF Calm
<1> QED
  BY <1>1, <1>3 DEF IInv

\* Mutex::lock that does not wait: no queue is behind it unless the caller owns
\* the mutex already.
LEMMA LockKeepsIInv ==
  ASSUME IInv, NEW m \in Mutexes, Lock(m)
  PROVE  /\ IInv'
         /\ \A n \in Mutexes : /\ mutexes'[n].wait_queue = mutexes[n].wait_queue
                               /\ mutexes'[n].owner \notin Range(mutexes[n].wait_queue)
<1>0. Owned /\ Based /\ Calm /\ Owned'
  BY LockKeepsOwned DEF IInv
<1>1. /\ cr \in Apps /\ waits[cr] = {} /\ mutexes[m].owner \in {NoTask, cr}
      /\ mutexes' = [mutexes EXCEPT ![m] = Locked(@, cr)]
      /\ UNCHANGED << kernel, waits, nests >>
      /\ nests \/ \A other \in Mutexes \ {m} : guards[cr][other] = 0
      /\ ~kernel.halted
  BY DEF Lock, Runs
<1>2. mutexes \in [Mutexes -> MutexState(Apps)]
  BY <1>0 DEF Owned, TypeOK
<1>3. \A n \in Mutexes :
        /\ mutexes'[n].wait_queue = mutexes[n].wait_queue
        /\ mutexes'[n].owner = IF n = m THEN cr ELSE mutexes[n].owner
  <2>1. \A n \in Mutexes :
          mutexes'[n] = IF n = m THEN Locked(mutexes[m], cr) ELSE mutexes[n]
    BY <1>1, <1>2
  <2>2. /\ Locked(mutexes[m], cr).wait_queue = mutexes[m].wait_queue
        /\ Locked(mutexes[m], cr).owner = cr
    BY <1>1, <1>2, LockedLemma, AppsAreTids
  <2> QED
    BY <2>1, <2>2
<1>4. Based'
  <2> SUFFICES ASSUME NEW t \in Apps, kernel.sub_priority[t] # PRI_INV,
                      NEW n \in Mutexes, mutexes[n].owner = t
               PROVE  mutexes'[n].owner = t
    BY <1>0, <1>1 DEF Based
  <2> QED
    BY <1>1, <1>3, AppsAreTids
<1>5. \A n \in Mutexes : cr \notin Range(mutexes[n].wait_queue)
  BY <1>0, <1>1, RunnerIsKnown DEF Owned, Queues
<1>6. ASSUME ~nests PROVE OneEach' /\ QueuesSorted' /\ Inherited'
  <2>1. OneEach /\ QueuesSorted /\ Inherited
    BY <1>0, <1>6 DEF Calm
  <2>2. ASSUME NEW n \in Mutexes, n # m PROVE ~Has(cr, n)
    <3>1. guards[cr][n] = 0 /\ n \notin waits[cr]
      BY <1>1, <1>6, <2>2
    <3>2. mutexes[n].owner = cr => mutexes[n].recursive_count = 0
      BY <1>0, <1>1, <3>1 DEF Owned, OwnerHasTheGuards
    <3>3. mutexes[n].owner = cr => mutexes[n].recursive_count > 0
      BY <1>0, <1>1, AppsAreTids DEF Owned, Counted
    <3> QED
      BY <3>1, <3>2, <3>3 DEF Has
  <2>3. OneEach'
    BY <1>1, <1>3, <2>1, <2>2 DEF OneEach, Has
  <2>4. QueuesSorted'
    BY <1>1, <1>3, <2>1 DEF QueuesSorted
  <2>5. Inherited'
    <3>1. mutexes[m].owner = NoTask => Range(mutexes[m].wait_queue) = {}
      BY <1>0, <1>1 DEF Owned, OwnerHasTheGuards, Range
    <3> QED
      BY <1>1, <1>3, <2>1, <3>1 DEF Inherited
  <2> QED
    BY <2>3, <2>4, <2>5
<1>7. Calm'
  BY <1>1, <1>6 DEF Calm
<1> QED
  BY <1>0, <1>3, <1>4, <1>5, <1>7 DEF IInv, Owned, Queues

\* Mutex::lock that waits: the owner is boosted, and being in no queue itself it
\* disturbs the order of none.
LEMMA LockWaitsKeepsIInv ==
  ASSUME IInv, NEW m \in Mutexes, LockWaits(m)
  PROVE  /\ IInv'
         /\ \A n \in Mutexes : mutexes'[n].owner = mutexes[n].owner
<1> DEFINE o == mutexes[m].owner
<1>0. Owned /\ Based /\ Calm /\ Owned'
  BY LockWaitsKeepsOwned DEF IInv
<1>1. /\ o \in Apps /\ o # cr /\ cr \in Apps
      /\ Range(mutexes'[m].wait_queue) = Range(mutexes[m].wait_queue) \cup {cr}
      /\ mutexes'[m].owner = mutexes[m].owner
      /\ \A n \in Mutexes \ {m} : mutexes'[n] = mutexes[n]
      /\ SortedBy(mutexes[m].wait_queue, kernel.priority)
           => SortedBy(mutexes'[m].wait_queue, kernel.priority)
      /\ OthersKeepPriority(kernel, kernel', o)
      /\ IF kernel.priority[cr] >= kernel.priority[o]
         THEN SamePriorities(kernel, kernel')
         ELSE /\ kernel'.priority[o] = kernel.priority[cr]
              /\ kernel'.sub_priority[o]
                   = IF kernel.sub_priority[o] = PRI_INV THEN kernel.priority[o]
                     ELSE kernel.sub_priority[o]
      /\ \A t \in Apps : waits'[t] = IF t = cr THEN {m} ELSE waits[t]
  BY <1>0, LockWaitsKeepsOwned
<1>2. /\ UNCHANGED << guards, nests >> /\ waits[cr] = {}
      /\ nests \/ \A n \in Mutexes : guards[cr][n] = 0
  BY DEF LockWaits, Runs
<1>3. Apps \subseteq Tid /\ NoTask \notin Apps /\ mutexes[m].owner = o
  BY AppsAreTids
<1>4. /\ \A t \in Tid : kernel.priority[t] \in Nat
      /\ \A n \in Mutexes : /\ mutexes'[n].wait_queue \in Seq(Tid)
                            /\ Range(mutexes[n].wait_queue) \subseteq Apps
                            /\ Range(mutexes'[n].wait_queue) \subseteq Apps
                            /\ mutexes[n].owner \in Apps \cup {NoTask}
  <2>1. \A n \in Mutexes : mutexes'[n].wait_queue \in Seq(Apps)
    BY <1>0 DEF Owned, TypeOK, MutexState
  <2>2. \A n \in Mutexes : /\ mutexes'[n].wait_queue \in Seq(Tid)
                           /\ Range(mutexes'[n].wait_queue) \subseteq Apps
    BY <1>3, <2>1 DEF Range
  <2> QED
    BY <1>0, <2>2, PriorityTypes
<1> HIDE DEF o
<1>5. \A n \in Mutexes : mutexes'[n].owner = mutexes[n].owner
  BY <1>1
<1>6. \A t \in Tid \ {o} : /\ kernel'.priority[t] = kernel.priority[t]
                           /\ kernel'.sub_priority[t] = kernel.sub_priority[t]
  BY <1>1 DEF OthersKeepPriority
<1>7. Based'
  <2> SUFFICES ASSUME NEW t \in Apps
               PROVE  IF kernel'.sub_priority[t] = PRI_INV
                      THEN kernel'.priority[t] = Base(t)
                      ELSE /\ kernel'.sub_priority[t] = Base(t)
                           /\ \E n \in Mutexes : mutexes[n].owner = t
    BY <1>5 DEF Based
  <2>1. CASE t # o
    BY <1>0, <1>3, <1>6, <2>1 DEF Based
  <2>2. CASE t = o
    BY <1>0, <1>1, <1>3, <2>2, BasesArePriorities DEF Based, SamePriorities
  <2> QED
    BY <2>1, <2>2
<1>8. ASSUME ~nests PROVE OneEach' /\ QueuesSorted' /\ Inherited'
  <2>1. OneEach /\ QueuesSorted /\ Inherited
    BY <1>0, <1>8 DEF Calm
  <2>2. ASSUME NEW n \in Mutexes PROVE ~Has(cr, n)
    <3>1. guards[cr][n] = 0 /\ n \notin waits[cr]
      BY <1>2, <1>8
    <3>2. mutexes[n].owner = cr => mutexes[n].recursive_count = 0
      BY <1>0, <1>1, <3>1 DEF Owned, OwnerHasTheGuards
    <3>3. mutexes[n].owner = cr => mutexes[n].recursive_count > 0
      BY <1>0, <1>1, AppsAreTids DEF Owned, Counted
    <3> QED
      BY <3>1, <3>2, <3>3 DEF Has
  <2>3. OneEach'
    <3> SUFFICES ASSUME NEW t \in Apps, NEW n \in Mutexes, NEW q \in Mutexes,
                        Has(t, n)', Has(t, q)'
                 PROVE  n = q
      BY DEF OneEach
    <3>1. CASE t = cr
      BY <1>1, <1>5, <2>2, <3>1 DEF Has
    <3>2. CASE t # cr
      BY <1>1, <1>5, <2>1, <3>2 DEF OneEach, Has
    <3> QED
      BY <3>1, <3>2
  <2>4. \A n \in Mutexes : o \notin Range(mutexes[n].wait_queue)
    <3> SUFFICES ASSUME NEW n \in Mutexes, o \in Range(mutexes[n].wait_queue)
                 PROVE  FALSE
      OBVIOUS
    <3>1. n \in waits[o] /\ mutexes[n].owner # o
      BY <1>0 DEF Owned, Queues
    <3>2. n = m
      BY <1>1, <1>3, <2>1, <3>1 DEF OneEach, Has
    <3> QED
      BY <1>3, <3>1, <3>2
  <2>5. \A n \in Mutexes : \A t \in Range(mutexes'[n].wait_queue) :
          kernel'.priority[t] = kernel.priority[t]
    BY <1>1, <1>3, <1>4, <1>6, <2>4
  <2>6. QueuesSorted'
    <3> SUFFICES ASSUME NEW n \in Mutexes
                 PROVE  SortedBy(mutexes'[n].wait_queue, kernel'.priority)
      BY DEF QueuesSorted
    <3>1. SortedBy(mutexes'[n].wait_queue, kernel.priority)
      BY <1>1, <2>1 DEF QueuesSorted
    <3> QED
      BY <1>4, <2>5, <3>1, SortedByOther
  <2>7. /\ kernel'.priority[o] <= kernel.priority[o]
        /\ kernel'.priority[o] <= kernel.priority[cr]
        /\ kernel'.priority[o] \in Nat
    BY <1>1, <1>3, <1>4 DEF SamePriorities
  <2>8. Inherited'
    <3> SUFFICES ASSUME NEW n \in Mutexes, NEW t \in Range(mutexes'[n].wait_queue)
                 PROVE  kernel'.priority[mutexes[n].owner] <= kernel'.priority[t]
      BY <1>5 DEF Inherited
    <3>1. kernel'.priority[t] = kernel.priority[t] /\ t \in Tid
      BY <1>3, <1>4, <2>5
    <3>2. CASE t \in Range(mutexes[n].wait_queue)
      <4>1. kernel.priority[mutexes[n].owner] <= kernel.priority[t]
        BY <2>1, <3>2 DEF Inherited
      <4>2. mutexes[n].owner \in Tid
        <5>1. mutexes[n].owner # NoTask
          BY <1>0, <1>1, <3>2 DEF Owned, OwnerHasTheGuards, Range
        <5> QED
          BY <1>3, <1>4, <5>1
      <4>3. CASE mutexes[n].owner = o
        <5>1. kernel'.priority[o] <= kernel.priority[o]
          BY <2>7
        <5>2. kernel.priority[o] <= kernel.priority[t] /\ o \in Tid
          BY <4>1, <4>2, <4>3
        <5>3. kernel.priority[o] \in Nat /\ kernel.priority[t] \in Nat
          BY <1>4, <3>1, <5>2
        <5> QED
          BY <2>7, <3>1, <4>3, <5>1, <5>2, <5>3
      <4>4. CASE mutexes[n].owner # o
        BY <1>6, <3>1, <4>1, <4>2, <4>4
      <4> QED
        BY <4>3, <4>4
    <3>3. CASE t \notin Range(mutexes[n].wait_queue)
      <4>1. n = m /\ t = cr
        BY <1>1, <3>3
      <4> QED
        BY <1>3, <2>7, <3>1, <4>1
    <3> QED
      BY <3>2, <3>3
  <2> QED
    BY <2>3, <2>6, <2>8
<1>9. Calm'
  BY <1>2, <1>8 DEF Calm
<1> QED
  BY <1>0, <1>5, <1>7, <1>9 DEF IInv

\* A guard is dropped: the caller, in no queue, goes back to its own priority, and
\* the front of an ordered queue outranks the rest of it.
LEMMA UnlockKeepsIInv ==
  ASSUME IInv, NEW m \in Mutexes, Unlock(m)
  PROVE  /\ IInv'
         /\ \A n \in Mutexes \ {m} : mutexes'[n] = mutexes[n]
         /\ ~nests /\ mutexes'[m].owner \in Range(mutexes[m].wait_queue) =>
              \A t \in Range(mutexes'[m].wait_queue) :
                Base(mutexes'[m].owner) <= Base(t)
<1> DEFINE x == mutexes[m]
           y == mutexes'[m]
<1>0. Owned /\ Based /\ Calm /\ Owned'
  BY UnlockKeepsOwned DEF IInv
<1>1. /\ x.owner = cr /\ cr \in Apps /\ waits[cr] = {} /\ waits' = waits
      /\ \A n \in Mutexes \ {m} : mutexes'[n] = mutexes[n]
      /\ \/ kernel' = kernel /\ y.owner = cr /\ y.wait_queue = x.wait_queue
         \/ /\ GivenBack(kernel, kernel')
            /\ x.wait_queue = << >>
            /\ y.owner = NoTask /\ y.wait_queue = << >>
         \/ /\ GivenBack(kernel, kernel')
            /\ x.wait_queue # << >> /\ y.owner = Head(x.wait_queue)
            /\ y.owner \in Range(x.wait_queue)
            /\ y.wait_queue = Tail(x.wait_queue)
            /\ Range(y.wait_queue) = Range(x.wait_queue) \ {y.owner}
  BY <1>0, UnlockKeepsOwned
<1>2. ~kernel.halted /\ UNCHANGED nests
  BY DEF Unlock, Runs
<1>3. Apps \subseteq Tid /\ NoTask \notin Apps
  BY AppsAreTids
<1>4. /\ kernel.priority \in [Tid -> Nat]
      /\ \A n \in Mutexes : /\ mutexes[n].wait_queue \in Seq(Tid)
                            /\ Range(mutexes[n].wait_queue) \subseteq Apps
                            /\ mutexes[n].owner \in Apps \cup {NoTask}
  BY <1>0, PriorityTypes
<1>5. \A n \in Mutexes : cr \notin Range(mutexes[n].wait_queue)
  BY <1>0, <1>2, RunnerIsKnown DEF Owned, Queues
<1>6. \A t \in Tid \ {cr} : /\ kernel'.priority[t] = kernel.priority[t]
                            /\ kernel'.sub_priority[t] = kernel.sub_priority[t]
  BY <1>1 DEF GivenBack, OthersKeepPriority, cr
<1>7. /\ \A t \in Range(x.wait_queue) : m \in waits[t] /\ x.owner # t
      /\ mutexes[m] = x /\ mutexes'[m] = y
  BY <1>0 DEF Owned, Queues
<1> HIDE DEF x, y
<1>8. Based'
  <2> SUFFICES ASSUME NEW t \in Apps
               PROVE  IF kernel'.sub_priority[t] = PRI_INV
                      THEN kernel'.priority[t] = Base(t)
                      ELSE /\ kernel'.sub_priority[t] = Base(t)
                           /\ \E n \in Mutexes : mutexes'[n].owner = t
    BY DEF Based
  <2>1. CASE t # cr
    <3>1. IF kernel.sub_priority[t] = PRI_INV THEN kernel.priority[t] = Base(t)
          ELSE /\ kernel.sub_priority[t] = Base(t)
               /\ \E n \in Mutexes : mutexes[n].owner = t
      BY <1>0 DEF Based
    <3>2. ASSUME NEW n \in Mutexes, mutexes[n].owner = t PROVE mutexes'[n].owner = t
      BY <1>1, <1>7, <2>1, <3>2
    <3> QED
      BY <1>3, <1>6, <2>1, <3>1, <3>2
  <2>2. CASE t = cr
    <3>1. CASE kernel' = kernel /\ y.owner = cr
      BY <1>0, <1>7, <2>2, <3>1 DEF Based
    <3>2. CASE GivenBack(kernel, kernel')
      BY <1>0, <1>1, <2>2, <3>2 DEF Based, GivenBack, cr
    <3> QED
      BY <1>1, <3>1, <3>2
  <2> QED
    BY <2>1, <2>2
<1>9. ASSUME ~nests
      PROVE  /\ OneEach' /\ QueuesSorted' /\ Inherited'
             /\ y.owner \in Range(x.wait_queue) =>
                  \A t \in Range(y.wait_queue) : Base(y.owner) <= Base(t)
  <2>1. OneEach /\ QueuesSorted /\ Inherited
    BY <1>0, <1>9 DEF Calm
  <2>2. OneEach'
    <3>1. ASSUME NEW t \in Apps, NEW n \in Mutexes, mutexes'[n].owner = t
          PROVE  Has(t, n)
      BY <1>1, <1>3, <1>7, <3>1 DEF Has
    <3> QED
      BY <1>1, <2>1, <3>1 DEF OneEach, Has
  <2>3. \A n \in Mutexes : \A t \in Range(mutexes[n].wait_queue) :
          t \in Tid /\ kernel'.priority[t] = kernel.priority[t]
    BY <1>3, <1>4, <1>5, <1>6
  <2>4. \A n \in Mutexes : SortedBy(mutexes[n].wait_queue, kernel'.priority)
    <3> SUFFICES ASSUME NEW n \in Mutexes
                 PROVE  SortedBy(mutexes[n].wait_queue, kernel'.priority)
      OBVIOUS
    <3>1. SortedBy(mutexes[n].wait_queue, kernel.priority)
      BY <2>1 DEF QueuesSorted
    <3> QED
      BY <1>4, <2>3, <3>1, SortedByOther
  <2>5. kernel'.priority \in [Tid -> Nat]
    BY <1>0, KernelAssumption DEF Owned, TypeOK, KernelState, Priorities
  <2>6. x.wait_queue # << >> =>
          /\ SortedBy(Tail(x.wait_queue), kernel'.priority)
          /\ \A t \in Range(x.wait_queue) :
               kernel'.priority[Head(x.wait_queue)] <= kernel'.priority[t]
    BY <1>4, <1>7, <2>4, <2>5, SortedFront
  <2>7. SortedBy(y.wait_queue, kernel'.priority)
    <3>1. SortedBy(<< >>, kernel'.priority)
      BY DEF SortedBy
    <3> QED
      BY <1>1, <1>7, <2>4, <2>6, <3>1
  <2>8. QueuesSorted'
    BY <1>1, <1>7, <2>4, <2>7 DEF QueuesSorted
  <2>9. ASSUME NEW n \in Mutexes, n # m, NEW t \in Range(mutexes[n].wait_queue)
        PROVE  kernel'.priority[mutexes[n].owner] <= kernel'.priority[t]
    <3>1. kernel.priority[mutexes[n].owner] <= kernel.priority[t]
      BY <2>1, <2>9 DEF Inherited
    <3>2. mutexes[n].owner # NoTask
      BY <1>0, <1>1, <2>9 DEF Owned, OwnerHasTheGuards, Range
    <3>3. mutexes[n].owner # cr
      BY <1>1, <1>7, <2>1, <2>9 DEF OneEach, Has
    <3> QED
      BY <1>3, <1>4, <1>6, <2>3, <2>9, <3>1, <3>2, <3>3
  <2>10. ASSUME NEW t \in Range(y.wait_queue)
         PROVE  kernel'.priority[y.owner] <= kernel'.priority[t]
    <3>1. CASE kernel' = kernel /\ y.owner = cr /\ y.wait_queue = x.wait_queue
      BY <1>1, <1>7, <2>1, <3>1 DEF Inherited
    <3>2. CASE y.wait_queue = << >>
      BY <3>2 DEF Range
    <3>3. CASE /\ x.wait_queue # << >> /\ y.owner = Head(x.wait_queue)
               /\ Range(y.wait_queue) = Range(x.wait_queue) \ {y.owner}
      BY <2>6, <3>3
    <3> QED
      BY <1>1, <3>1, <3>2, <3>3
  <2>11. Inherited'
    <3> SUFFICES ASSUME NEW n \in Mutexes, NEW t \in Range(mutexes'[n].wait_queue)
                 PROVE  kernel'.priority[mutexes'[n].owner] <= kernel'.priority[t]
      BY DEF Inherited
    <3> QED
      BY <1>1, <1>7, <2>9, <2>10
  <2>12. \A t \in Range(x.wait_queue) : kernel'.priority[t] = Base(t) /\ t \in Apps
    <3> SUFFICES ASSUME NEW t \in Range(x.wait_queue)
                 PROVE  kernel'.priority[t] = Base(t) /\ t \in Apps
      OBVIOUS
    <3>1. t \in Apps /\ kernel'.priority[t] = kernel.priority[t]
      BY <1>4, <1>7, <2>3
    <3>2. \A n \in Mutexes : mutexes[n].owner # t
      BY <1>7, <2>1, <3>1 DEF OneEach, Has
    <3> QED
      BY <1>0, <3>1, <3>2 DEF Based
  <2>13. y.owner \in Range(x.wait_queue) =>
           \A t \in Range(y.wait_queue) : Base(y.owner) <= Base(t)
    <3> SUFFICES ASSUME y.owner \in Range(x.wait_queue), NEW t \in Range(y.wait_queue)
                 PROVE  Base(y.owner) <= Base(t)
      OBVIOUS
    <3>1. t \in Range(x.wait_queue)
      BY <1>1, <1>5, <1>7
    <3> QED
      BY <2>10, <2>12, <3>1
  <2> QED
    BY <2>2, <2>8, <2>11, <2>13
<1>10. Calm'
  BY <1>2, <1>9 DEF Calm
<1> QED
  BY <1>0, <1>1, <1>7, <1>8, <1>9, <1>10 DEF IInv

\* What HandedToMostUrgent says of a step.
HandsOver ==
  \A m \in Mutexes : \A t \in Range(mutexes'[m].wait_queue) :
    /\ ~nests /\ mutexes'[m].owner # NoTask
    /\ Holds(mutexes[m].wait_queue, mutexes'[m].owner)
    => Base(mutexes'[m].owner) <= Base(t)

\* Every step keeps the invariant, and what it hands over goes to the right task.
LEMMA NextIInv == IInv /\ [Next]_vars => IInv' /\ HandsOver
<1> SUFFICES ASSUME IInv, [Next]_vars PROVE IInv' /\ HandsOver
  OBVIOUS
<1>0. Owned /\ \A m \in Mutexes : mutexes[m].owner \notin Range(mutexes[m].wait_queue)
  BY DEF IInv, Owned, Queues
<1>1. ASSUME NEW m \in Mutexes, Lock(m) PROVE IInv' /\ HandsOver
  BY <1>1, LockKeepsIInv DEF HandsOver, Holds
<1>2. ASSUME NEW m \in Mutexes, LockWaits(m) PROVE IInv' /\ HandsOver
  BY <1>0, <1>2, LockWaitsKeepsIInv DEF HandsOver, Holds
<1>3. ASSUME NEW m \in Mutexes, LockReturns(m) PROVE IInv' /\ HandsOver
  <2>1. /\ Owned' /\ UNCHANGED << kernel, mutexes, nests >>
        /\ \A t \in Apps : waits'[t] \subseteq waits[t]
    <3>1. /\ UNCHANGED << kernel, mutexes, nests >>
          /\ waits' = [waits EXCEPT ![cr] = {}] /\ waits \in [Apps -> SUBSET Mutexes]
      BY <1>0, <1>3 DEF LockReturns, Owned, TypeOK
    <3> QED
      BY <1>0, <1>3, <3>1, LockReturnsKeepsOwned
  <2>2. IInv'
    BY <2>1, PrioritiesStay DEF SamePriorities
  <2> QED
    BY <1>0, <2>1, <2>2 DEF HandsOver, Holds
<1>4. ASSUME NEW m \in Mutexes, Unlock(m) PROVE IInv' /\ HandsOver
  <2>1. /\ IInv' /\ \A n \in Mutexes \ {m} : mutexes'[n] = mutexes[n]
        /\ ~nests /\ mutexes'[m].owner \in Range(mutexes[m].wait_queue) =>
             \A t \in Range(mutexes'[m].wait_queue) :
               Base(mutexes'[m].owner) <= Base(t)
    BY <1>4, UnlockKeepsIInv
  <2> QED
    BY <1>0, <2>1 DEF HandsOver, Holds
<1>5. CASE Sleep
  BY <1>0, <1>5, SleepKeepsOwned, PrioritiesStay DEF Sleep, HandsOver, Holds
<1>6. CASE Timer
  BY <1>0, <1>6, TimerKeepsOwned, PrioritiesStay DEF Timer, HandsOver, Holds
<1>7. CASE UNCHANGED vars
  <2>1. Owned'
    BY <1>0, <1>7, NextOwned
  <2> QED
    BY <1>0, <1>7, <2>1, PrioritiesStay DEF vars, SamePriorities, HandsOver, Holds
<1> QED
  BY <1>1, <1>2, <1>3, <1>4, <1>5, <1>6, <1>7 DEF Next

\* The invariant of the priorities.
LEMMA SpecIInv == Spec => []IInv
BY InitIInv, NextIInv, PTL DEF Spec

\* A task that owns no mutex is at the priority it was created with, however many
\* tasks boosted it and whether or not it nested its locks (sub_priority in
\* internal_lock and internal_unlock).
THEOREM BaseAlwaysRestored == Spec => []BaseRestored
<1>1. IInv => BaseRestored
  BY DEF IInv, Based, BaseRestored
<1> QED
  BY <1>1, SpecIInv, PTL

\* Among tasks that hold one mutex at a time no waiter outranks the owner it waits
\* for: through any number of waiters, hand-overs and recursive locks
\* (internal_lock, internal_unlock).
THEOREM WaitersAreInherited == Spec => []InheritedWithoutNesting
<1>1. IInv => InheritedWithoutNesting
  BY DEF IInv, Calm, InheritedWithoutNesting
<1> QED
  BY <1>1, SpecIInv, PTL

\* Among such tasks the hand-over goes to a waiter that none of the others
\* outranks, ever since it queued up (insert_in_order in internal_lock,
\* remove(0) in internal_unlock).
THEOREM MostUrgentWaiterIsNext == Spec => HandedToMostUrgent
<1>1. IInv /\ [Next]_vars => [HandsOver]_vars
  BY NextIInv
<1>2. HandedToMostUrgent <=> [][HandsOver]_vars
  BY DEF HandedToMostUrgent, HandsOver
<1> QED
  BY <1>1, <1>2, SpecIInv, PTL DEF Spec
=============================================================================
