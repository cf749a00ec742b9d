---------------------------- MODULE BarrierProofs ----------------------------
(***************************************************************************)
(* The barrier: who has its mutex, who waits in which queue and what count *)
(* counts, for any number of tasks, priorities, parties and generations.   *)
(***************************************************************************)
EXTENDS Barrier, KernelProofs

\* main's tasks have the first tids; no owner is a null pointer.
LEMMA AppsAreTids == Apps \in SUBSET Tid /\ NoTask \notin Apps
BY BarrierAssumption, KernelAssumption, TaskMaxAssumption DEF Apps, Tid

-----------------------------------------------------------------------------
(* The loop of notify_all.                                                 *)

\* The recursive function in Notified exists: round i starts from what round
\* i - 1 left (the while loop of notify_all).
LEMMA NotifiedRounds ==
  ASSUME NEW k, NEW queue, Len(queue) \in Nat
  PROVE  \E w : /\ w[0] = k
                /\ \A i \in 1..Len(queue) : w[i] = MakeReady(w[i - 1], queue[i])
                /\ Notified(k, queue)
                     = [kernel |-> w[Len(queue)], queue |-> << >>]
<1> DEFINE Rounds(w, n) ==
             w = [i \in 0..n |-> IF i = 0 THEN k ELSE MakeReady(w[i - 1], queue[i])]
           T == {n \in Nat : ~ \E w : Rounds(w, n)}
<1>1. T = {}
  <2> SUFFICES ASSUME T # {} PROVE FALSE
    OBVIOUS
  <2>1. Min(T) \in T /\ \A y \in T : Min(T) <= y
    <3>1. T \in SUBSET Nat
      OBVIOUS
    <3> HIDE DEF T
    <3> QED BY <3>1, MinOfNats
  <2> DEFINE m == Min(T)
  <2>2. m \in Nat /\ (\A w : ~Rounds(w, m)) /\ \A y \in T : m <= y
    BY <2>1
  <2> HIDE DEF m
  <2>3. CASE m = 0
    <3>1. Rounds([i \in 0..0 |-> k], 0)
      OBVIOUS
    <3> QED
      BY <2>2, <2>3, <3>1
  <2>4. CASE m # 0
    <3>1. m - 1 \in Nat /\ m - 1 \notin T
      <4> HIDE DEF T
      <4>1. m - 1 \in Nat /\ ~(m <= m - 1)
        BY <2>2, <2>4
      <4> QED
        BY <2>2, <4>1
    <3>2. PICK w : Rounds(w, m - 1)
      BY <3>1
    <3> DEFINE v == [i \in 0..m |-> IF i = m THEN MakeReady(w[m - 1], queue[m])
                                    ELSE w[i]]
    <3>3. \A i \in 0..m : v[i] = IF i = 0 THEN k ELSE MakeReady(v[i - 1], queue[i])
      <4> SUFFICES ASSUME NEW i \in 0..m
                   PROVE  v[i] = IF i = 0 THEN k ELSE MakeReady(v[i - 1], queue[i])
        OBVIOUS
      <4>1. CASE i = m
        <5>1. v[i] = MakeReady(w[m - 1], queue[m]) /\ v[m - 1] = w[m - 1]
          BY <2>2, <2>4, <4>1
        <5> QED
          BY <2>4, <4>1, <5>1
      <4>2. CASE i # m
        <5>1. i \in 0..m - 1 /\ v[i] = w[i]
          BY <2>2, <4>2
        <5>2. w[i] = IF i = 0 THEN k ELSE MakeReady(w[i - 1], queue[i])
          BY <3>2, <5>1
        <5>3. i # 0 => v[i - 1] = w[i - 1]
          BY <2>2, <4>2, <5>1
        <5> QED
          BY <5>1, <5>2, <5>3
      <4> QED
        BY <4>1, <4>2
    <3>4. Rounds(v, m)
      <4> DEFINE u == [i \in 0..m |-> IF i = 0 THEN k
                                      ELSE MakeReady(v[i - 1], queue[i])]
      <4>1. v = u
        BY <3>3
      <4> QED
        BY <4>1
    <3> QED
      BY <2>2, <3>4
  <2> QED
    BY <2>3, <2>4
<1> DEFINE n == Len(queue)
           w == CHOOSE f : Rounds(f, n)
<1>2. Rounds(w, n)
  <2>1. n \notin T
    BY <1>1
  <2>2. \E f : Rounds(f, n)
    BY <2>1
  <2> QED
    BY <2>2
<1>3. Notified(k, queue) = [kernel |-> w[n], queue |-> << >>]
  BY DEF Notified
<1>4. w[0] = k /\ \A i \in 1..n : w[i] = MakeReady(w[i - 1], queue[i])
  <2> HIDE DEF w
  <2> QED BY <1>2
<1> QED
  <2> HIDE DEF w
  <2> QED BY <1>3, <1>4

\* Everybody in the queue becomes known to the scheduler, each task once.
LEMMA NotifiedLemma ==
  ASSUME NEW k, Fit(k), NEW queue \in Seq(Tid), IsInjective(queue),
         Range(queue) \cap Known(k) = {}
  PROVE  LET r == Notified(k, queue).kernel
         IN  /\ Fit(r) /\ Known(r) = Known(k) \cup Range(queue)
             /\ r.current = k.current /\ r.halted = k.halted
             /\ Notified(k, queue).queue = << >>
<1> DEFINE n == Len(queue)
           To(i) == {queue[j] : j \in 1..i}
           Good(r, i) == /\ Fit(r) /\ Known(r) = Known(k) \cup To(i)
                         /\ r.current = k.current /\ r.halted = k.halted
<1>1. PICK w : /\ w[0] = k
               /\ \A i \in 1..n : w[i] = MakeReady(w[i - 1], queue[i])
               /\ Notified(k, queue) = [kernel |-> w[n], queue |-> << >>]
  BY NotifiedRounds
<1>2. Good(k, 0)
  OBVIOUS
<1>3. ASSUME NEW i \in 1..n, NEW r, Good(r, i - 1)
      PROVE  Good(MakeReady(r, queue[i]), i)
  <2>1. queue[i] \in Tid /\ queue[i] \notin Known(k) /\ queue[i] \notin To(i - 1)
    BY DEF IsInjective, Range
  <2>2. FitBut(r, queue[i])
    BY <1>3, <2>1 DEF Fit, FitBut
  <2> DEFINE q == MakeReady(r, queue[i])
  <2>3. /\ Fit(q) /\ Range(q.ready) = Range(r.ready) \cup {queue[i]}
        /\ q.sleeping = r.sleeping /\ q.current = r.current /\ q.halted = r.halted
    BY <2>1, <2>2, FitMakeReady
  <2> HIDE DEF q
  <2>4. To(i) = To(i - 1) \cup {queue[i]}
    OBVIOUS
  <2>5. Known(q) = Known(k) \cup To(i)
    BY <1>3, <2>3, <2>4 DEF Known
  <2> QED
    BY <1>3, <2>3, <2>5 DEF q
<1> DEFINE T == {i \in 0..n : ~Good(w[i], i)}
<1>4. T = {}
  <2> SUFFICES ASSUME T # {} PROVE FALSE
    OBVIOUS
  <2> DEFINE m == Min(T)
  <2>1. m \in T /\ \A y \in T : m <= y
    <3>1. T \in SUBSET Nat
      OBVIOUS
    <3> HIDE DEF T
    <3> QED BY <3>1, MinOfNats
  <2>2. m \in 0..n /\ ~Good(w[m], m)
    BY <2>1
  <2>3. m # 0
    <3> HIDE DEF m, Good
    <3> QED BY <1>1, <1>2, <2>2
  <2>4. m \in 1..n /\ m - 1 \in 0..n /\ ~(m <= m - 1)
    <3> HIDE DEF T, m, Good
    <3> QED BY <2>2, <2>3
  <2>5. Good(w[m - 1], m - 1)
    <3>1. m - 1 \notin T
      <4> HIDE DEF T, m
      <4> QED BY <2>1, <2>4
    <3> HIDE DEF m, Good
    <3> QED BY <2>4, <3>1
  <2> HIDE DEF T, m, Good
  <2> QED
    BY <1>1, <1>3, <2>2, <2>4, <2>5
<1>5. Good(w[n], n)
  <2>1. n \in 0..n
    OBVIOUS
  <2> HIDE DEF n, Good
  <2> QED BY <1>4, <2>1
<1>6. To(n) = Range(queue)
  BY DEF Range
<1> QED
  BY <1>1, <1>5, <1>6

-----------------------------------------------------------------------------
(* Who has the mutex and who waits for it, or for the end of a generation. *)

\* t has the guard, or lock will return it without another look at the mutex.
Owns(t) ==
  \/ pc[t] \in {"count", "last", "hold", "back"}
  \/ pc[t] \in {"lock", "relock"} /\ t \notin Range(mutex.wait_queue)

\* The barrier locks its mutex once at a time.
OneOwner ==
  /\ \A t \in Apps : mutex.owner = t <=> Owns(t)
  /\ mutex.owner # NoTask => mutex.recursive_count = 1
  /\ mutex.owner = NoTask => mutex.wait_queue = << >>

\* Who stands in a queue is at a place where it waits, and unknown to the
\* scheduler until it is taken out of the queue.
Queued(queue, places) ==
  /\ IsInjective(queue)
  /\ \A t \in Range(queue) : t \notin Known(kernel) /\ pc[t] \in places

\* The part of the inductive invariant that is about tasks and queues.
Sound ==
  /\ TypeOK /\ total \in Nat \ {0} /\ Hart(kernel)
  /\ OneOwner
  /\ Queued(mutex.wait_queue, {"lock", "relock"})
  /\ Queued(wait_queue, {"parking", "parked"})

\* After launch the mutex is free and both queues are empty.
LEMMA InitSound == Init => Sound
<1> SUFFICES ASSUME Init PROVE Sound
  OBVIOUS
<1>1. Hart(kernel)
  BY FitLaunchedWith, BarrierAssumption DEF Init, Hart
<1>2. total \in Nat \ {0}
  BY BarrierAssumption DEF Init
<1>3. << >> \in Seq(Apps) /\ IsInjective(<< >>) /\ Range(<< >>) = {}
  BY DEF IsInjective, Range
<1>4. /\ mutex \in MutexState(Apps) /\ mutex.owner = NoTask
      /\ mutex.wait_queue = << >>
  BY <1>3 DEF Init, FreeMutex, MutexState
<1>5. TypeOK
  <2>1. /\ my_gen \in [Apps -> 0 .. Generations - 1]
        /\ state \in [count : 0 .. total - 1, generation : 0 .. Generations - 1]
    BY <1>2, BarrierAssumption DEF Init
  <2> QED
    BY <1>1, <1>3, <1>4, <2>1 DEF Init, TypeOK, Hart, Fit
<1>6. OneOwner
  BY <1>4, AppsAreTids DEF Init, OneOwner, Owns
<1> QED
  BY <1>1, <1>2, <1>3, <1>4, <1>5, <1>6 DEF Sound, Queued, Init

\* What a task on the hart is not: in a queue.
LEMMA RunnerIsKnown ==
  ASSUME Sound, ~kernel.halted, cr \in Apps
  PROVE  /\ cr \in Known(kernel) /\ cr \in Tid
         /\ cr \notin Range(mutex.wait_queue) /\ cr \notin Range(wait_queue)
BY AppsAreTids DEF Sound, Hart, Known, Queued, cr

\* The places of the tasks after one of them goes on.
LEMMA GotoPlaces ==
  ASSUME Sound, NEW at, Goto(at)
  PROVE  \A t \in Apps : pc'[t] = IF t = cr THEN at ELSE pc[t]
BY DEF Sound, TypeOK, Goto

\* The queues hold tasks of main.
LEMMA QueuesAreApps ==
  ASSUME Sound
  PROVE  /\ Range(mutex.wait_queue) \subseteq Apps
         /\ Range(wait_queue) \subseteq Apps
BY DEF Sound, TypeOK, MutexState, Range

\* A tick, or nothing.
LEMMA TickKeepsSound ==
  ASSUME Sound, Hart(kernel'), Known(kernel') = Known(kernel),
         UNCHANGED << mutex, wait_queue, total, state, my_gen, pc >>
  PROVE  Sound'
<1>1. TypeOK'
  BY DEF Sound, TypeOK, Hart, Fit
<1>2. OneOwner'
  BY DEF Sound, OneOwner, Owns
<1>3. /\ Queued(mutex.wait_queue, {"lock", "relock"})'
      /\ Queued(wait_queue, {"parking", "parked"})'
  BY DEF Sound, Queued
<1> QED
  BY <1>1, <1>2, <1>3 DEF Sound

\* A step of the task with the guard that keeps it.
LEMMA OwnerKeepsSound ==
  ASSUME Sound, ~kernel.halted, cr \in Apps, Owns(cr),
         NEW at \in {"count", "last", "hold", "back"}, Goto(at),
         state' \in [count : 0 .. total - 1, generation : 0 .. Generations - 1],
         my_gen' \in [Apps -> 0 .. Generations - 1],
         UNCHANGED << kernel, mutex, wait_queue, total >>
  PROVE  Sound'
<1>1. \A t \in Apps : pc'[t] = IF t = cr THEN at ELSE pc[t]
  BY GotoPlaces
<1>2. /\ Range(mutex.wait_queue) \subseteq Apps \ {cr}
      /\ Range(wait_queue) \subseteq Apps \ {cr}
  BY RunnerIsKnown, QueuesAreApps
<1>3. TypeOK'
  BY DEF Sound, TypeOK, Goto
<1>4. OneOwner'
  BY <1>1 DEF Sound, OneOwner, Owns
<1>5. Queued(mutex.wait_queue, {"lock", "relock"})'
  BY <1>1, <1>2 DEF Sound, Queued
<1>6. Queued(wait_queue, {"parking", "parked"})'
  BY <1>1, <1>2 DEF Sound, Queued
<1> QED
  BY <1>3, <1>4, <1>5, <1>6 DEF Sound

\* A step of a task that neither has nor wants the guard; it may take everybody
\* out of the condition variable's queue.
LEMMA StrangerKeepsSound ==
  ASSUME Sound, ~kernel.halted, cr \in Apps,
         pc[cr] \in {"notify", "parking"}, NEW at \in {"out", "parked"}, Goto(at),
         Hart(kernel'),
         \/ Known(kernel') = Known(kernel) /\ wait_queue' = wait_queue
         \/ /\ Known(kernel') = Known(kernel) \cup Range(wait_queue)
            /\ wait_queue' = << >>,
         UNCHANGED << mutex, total, state, my_gen >>
  PROVE  Sound'
<1>1. \A t \in Apps : pc'[t] = IF t = cr THEN at ELSE pc[t]
  BY GotoPlaces
<1>2. /\ Range(mutex.wait_queue) \subseteq Apps \ {cr}
      /\ Range(wait_queue) \subseteq Apps \ {cr}
  BY RunnerIsKnown, QueuesAreApps
<1>3. TypeOK'
  <2>1. wait_queue \in Seq(Apps) /\ << >> \in Seq(Apps)
    BY DEF Sound, TypeOK
  <2> QED
    BY <2>1 DEF Sound, TypeOK, Goto, Hart, Fit
<1>4. OneOwner'
  BY <1>1 DEF Sound, OneOwner, Owns
<1>5. Range(mutex.wait_queue) \cap Range(wait_queue) = {}
  BY DEF Sound, Queued
<1>6. Queued(mutex.wait_queue, {"lock", "relock"})'
  BY <1>1, <1>2, <1>5 DEF Sound, Queued
<1>7. Queued(wait_queue, {"parking", "parked"})'
  <2>1. CASE wait_queue' = << >>
    BY <2>1 DEF Queued, IsInjective, Range
  <2>2. CASE wait_queue' # << >>
    BY <1>1, <1>2, <2>2 DEF Sound, Queued
  <2> QED
    BY <2>1, <2>2
<1> QED
  BY <1>3, <1>4, <1>6, <1>7 DEF Sound

\* mutex.lock() by a task without the guard.
LEMMA LockKeepsSound ==
  ASSUME Sound, ~kernel.halted, cr \in Apps, pc[cr] \in {"out", "parked"},
         NEW got \in {"count", "back"}, NEW blocked \in {"lock", "relock"},
         LockGoto(got, blocked),
         UNCHANGED << wait_queue, total, state, my_gen >>
  PROVE  Sound' /\ \E at \in {got, blocked} : Goto(at)
<1>1. /\ cr \in Known(kernel) /\ cr \in Tid
      /\ Range(mutex.wait_queue) \subseteq Apps \ {cr}
      /\ Range(wait_queue) \subseteq Apps \ {cr}
  BY RunnerIsKnown, QueuesAreApps
<1>2. /\ mutex \in MutexState(Apps) /\ IsInjective(mutex.wait_queue)
      /\ Hart(kernel) /\ mutex.owner # cr
  BY DEF Sound, TypeOK, Queued, OneOwner, Owns
<1>3. CASE mutex.owner = NoTask
  <2>1. mutex' = Locked(mutex, cr) /\ Goto(got) /\ kernel' = kernel
    BY <1>3 DEF LockGoto
  <2>2. /\ mutex' \in MutexState(Apps) /\ mutex'.owner = cr
        /\ mutex'.wait_queue = mutex.wait_queue /\ mutex'.recursive_count = 1
    BY <1>2, <2>1, LockedLemma, AppsAreTids
  <2>3. \A t \in Apps : pc'[t] = IF t = cr THEN got ELSE pc[t]
    BY <2>1, GotoPlaces
  <2>4. TypeOK'
    BY <2>1, <2>2 DEF Sound, TypeOK, Goto
  <2>5. OneOwner'
    BY <1>3, <2>2, <2>3, AppsAreTids DEF Sound, OneOwner, Owns
  <2>6. Queued(mutex.wait_queue, {"lock", "relock"})'
    BY <1>1, <2>1, <2>2, <2>3 DEF Sound, Queued
  <2>7. Queued(wait_queue, {"parking", "parked"})'
    BY <1>1, <2>1, <2>3 DEF Sound, Queued
  <2> QED
    BY <2>1, <2>4, <2>5, <2>6, <2>7 DEF Sound
<1>4. CASE mutex.owner # NoTask
  <2>1. /\ mutex' = QueuedFor(kernel, mutex) /\ Goto(blocked)
        /\ kernel' = LockBlocks(kernel, mutex)
    BY <1>4 DEF LockGoto
  <2>2. mutex.owner \in Tid
    BY <1>2, <1>4, AppsAreTids DEF MutexState
  <2>3. /\ mutex' \in MutexState(Apps) /\ mutex'.owner = mutex.owner
        /\ mutex'.recursive_count = mutex.recursive_count
        /\ IsInjective(mutex'.wait_queue)
        /\ Range(mutex'.wait_queue) = Range(mutex.wait_queue) \cup {cr}
    BY <1>1, <1>2, <2>1, QueuedForLemma, AppsAreTids DEF Hart, cr
  <2>4. Hart(kernel') /\ Known(kernel') = Known(kernel) \ {cr}
    BY <1>2, <2>1, <2>2, LockBlocksLemma DEF cr
  <2>5. \A t \in Apps : pc'[t] = IF t = cr THEN blocked ELSE pc[t]
    BY <2>1, GotoPlaces
  <2>6. TypeOK'
    BY <2>1, <2>3, <2>4 DEF Sound, TypeOK, Goto, Hart, Fit
  <2>7. OneOwner'
    BY <1>2, <1>4, <2>3, <2>5 DEF Sound, OneOwner, Owns
  <2>8. Queued(mutex.wait_queue, {"lock", "relock"})'
    BY <1>1, <2>3, <2>4, <2>5 DEF Sound, Queued
  <2>9. Queued(wait_queue, {"parking", "parked"})'
    BY <1>1, <2>4, <2>5 DEF Sound, Queued
  <2> QED
    BY <2>1, <2>4, <2>6, <2>7, <2>8, <2>9 DEF Sound
<1> QED
  BY <1>3, <1>4

\* Who is handed the mutex when its owner gives it up.
Heir == IF mutex.wait_queue = << >> THEN {} ELSE {Head(mutex.wait_queue)}

\* The first in the mutex's queue.
LEMMA FirstWaiter ==
  ASSUME Sound, mutex.wait_queue # << >>
  PROVE  /\ Head(mutex.wait_queue) \in Range(mutex.wait_queue)
         /\ Head(mutex.wait_queue) \in Tid \ Known(kernel)
<1>1. mutex.wait_queue \in Seq(Apps) /\ IsInjective(mutex.wait_queue)
  BY DEF Sound, TypeOK, MutexState, Queued
<1>2. Head(mutex.wait_queue) \in Range(mutex.wait_queue)
  BY <1>1, HeadAndTail
<1> QED
  BY <1>2, QueuesAreApps, AppsAreTids DEF Sound, Queued

\* The guard is dropped, by a task that goes on or parks: the mutex is free, or
\* belongs to the waiter that the scheduler knows again.
LEMMA ReleaseKeepsSound ==
  ASSUME Sound, ~kernel.halted, cr \in Apps, Owns(cr),
         NEW at \in {"notify", "out", "parking", "parked"}, Goto(at),
         mutex' = Released(mutex), Hart(kernel'),
         \/ wait_queue' = wait_queue /\ Known(kernel') = Known(kernel) \cup Heir
         \/ /\ wait_queue' = Parked(wait_queue, cr)
            /\ Known(kernel') = (Known(kernel) \ {cr}) \cup Heir
            /\ at \in {"parking", "parked"},
         UNCHANGED << total, state, my_gen >>
  PROVE  Sound'
<1> DEFINE first == Head(mutex.wait_queue)
<1>1. \A t \in Apps : pc'[t] = IF t = cr THEN at ELSE pc[t]
  BY GotoPlaces
<1>2. /\ Range(mutex.wait_queue) \subseteq Apps \ {cr}
      /\ Range(wait_queue) \subseteq Apps \ {cr}
      /\ cr \in Tid
  BY RunnerIsKnown, QueuesAreApps
<1>3. /\ mutex \in MutexState(Apps) /\ IsInjective(mutex.wait_queue)
      /\ mutex.owner = cr /\ mutex.recursive_count = 1
      /\ cr # NoTask
  BY AppsAreTids DEF Sound, TypeOK, Queued, OneOwner
<1>4. /\ mutex' \in MutexState(Apps) /\ IsInjective(mutex'.wait_queue)
      /\ IF mutex.wait_queue = << >>
         THEN mutex'.owner = NoTask /\ mutex'.wait_queue = << >>
         ELSE /\ mutex'.owner = first
              /\ first \in Range(mutex.wait_queue) /\ first \in Apps
              /\ mutex'.recursive_count = 1
              /\ Range(mutex'.wait_queue) = Range(mutex.wait_queue) \ {first}
  BY <1>3, ReleasedLemma, AppsAreTids
<1> HIDE DEF first
<1>5. Range(mutex'.wait_queue) \subseteq Range(mutex.wait_queue)
  BY <1>4
<1>6. /\ wait_queue' \in Seq(Apps) /\ IsInjective(wait_queue')
      /\ \/ Range(wait_queue') = Range(wait_queue)
         \/ /\ Range(wait_queue') = Range(wait_queue) \cup {cr}
            /\ cr \notin Known(kernel') \/ cr \in Heir
            /\ at \in {"parking", "parked"}
  <2>1. wait_queue \in Seq(Apps) /\ IsInjective(wait_queue)
    BY DEF Sound, TypeOK, Queued
  <2>2. CASE wait_queue' = wait_queue
    BY <2>1, <2>2
  <2>3. CASE wait_queue' # wait_queue
    <3>1. wait_queue \in Seq(Tid)
      BY <2>1, AppsAreTids
    <3>2. Len(wait_queue) # TASK_MAX
      BY <1>2, <2>1, <3>1, RoomForAbsent DEF Tid
    <3> QED
      BY <1>2, <2>1, <2>3, <3>2, PushBackProperties DEF Parked
  <2> QED
    BY <2>2, <2>3
<1>7. TypeOK'
  BY <1>4, <1>6 DEF Sound, TypeOK, Goto, Hart, Fit
<1>8. OneOwner'
  <2>1. CASE mutex.wait_queue = << >>
    <3>1. Range(mutex'.wait_queue) = {} /\ Range(mutex.wait_queue) = {}
      BY <1>4, <2>1 DEF Range
    <3> QED
      BY <1>1, <1>3, <1>4, <2>1, <3>1, AppsAreTids DEF Sound, OneOwner, Owns
  <2>2. CASE mutex.wait_queue # << >>
    <3>1. /\ pc[first] \in {"lock", "relock"} /\ first # cr /\ first # NoTask
      BY <1>2, <1>4, <2>2, AppsAreTids DEF Sound, Queued
    <3>2. \A t \in Apps \ {first} :
            t \in Range(mutex'.wait_queue) <=> t \in Range(mutex.wait_queue)
      BY <1>4, <2>2
    <3> QED
      BY <1>1, <1>3, <1>4, <2>2, <3>1, <3>2 DEF Sound, OneOwner, Owns
  <2> QED
    BY <2>1, <2>2
<1>9. Queued(mutex.wait_queue, {"lock", "relock"})'
  <2> SUFFICES ASSUME NEW t \in Range(mutex'.wait_queue)
               PROVE  t \notin Known(kernel') /\ pc'[t] \in {"lock", "relock"}
    BY <1>4 DEF Queued
  <2>1. Range(<< >>) = {}
    BY DEF Range
  <2>2. /\ t \in Range(mutex.wait_queue) /\ t \in Apps /\ t # cr
        /\ mutex.wait_queue # << >> /\ t # first
    BY <1>2, <1>4, <1>5, <2>1
  <2>3. t \notin Heir
    BY <2>2 DEF Heir, first
  <2> QED
    BY <1>1, <2>2, <2>3 DEF Sound, Queued
<1>10. Queued(wait_queue, {"parking", "parked"})'
  <2> SUFFICES ASSUME NEW t \in Range(wait_queue')
               PROVE  t \notin Known(kernel') /\ pc'[t] \in {"parking", "parked"}
    BY <1>6 DEF Queued
  <2>1. Heir \subseteq Range(mutex.wait_queue)
    BY <1>4 DEF Heir, first
  <2>2. CASE t = cr
    BY <1>1, <1>2, <1>6, <2>1, <2>2
  <2>3. CASE t # cr
    <3>1. t \in Range(wait_queue)
      BY <1>6, <2>3
    <3>2. t \notin Heir
      BY <2>1, <3>1 DEF Sound, Queued
    <3> QED
      BY <1>1, <1>2, <2>3, <3>1, <3>2 DEF Sound, Queued
  <2> QED
    BY <2>2, <2>3
<1> QED
  BY <1>7, <1>8, <1>9, <1>10 DEF Sound

\* drop(guard).
LEMMA UnlockKeepsSound ==
  ASSUME Sound, ~kernel.halted, cr \in Apps, Owns(cr),
         NEW at \in {"notify", "out"}, UnlockGoto(at),
         UNCHANGED << wait_queue, total, state, my_gen >>
  PROVE  Sound' /\ Goto(at)
<1>1. /\ mutex' = Released(mutex) /\ Goto(at)
      /\ kernel' = UnlockKernel(kernel, mutex)
  BY DEF UnlockGoto
<1>2. /\ Hart(kernel) /\ cr \in Range(kernel.ready) /\ mutex.recursive_count = 1
  BY AppsAreTids DEF Sound, OneOwner, Hart, cr
<1>3. /\ Hart(kernel')
      /\ Known(kernel') = IF mutex.wait_queue = << >> THEN Known(kernel)
                          ELSE Known(kernel) \cup {Head(mutex.wait_queue)}
  BY <1>1, <1>2, FirstWaiter, UnlockKernelLemma DEF Hart, cr
<1>4. Known(kernel') = Known(kernel) \cup Heir
  BY <1>3 DEF Heir
<1> QED
  BY <1>1, <1>3, <1>4, ReleaseKeepsSound

\* CondVar::wait up to its first yield.
LEMMA ParkKeepsSound ==
  ASSUME Sound, Park
  PROVE  Sound' /\ \E at \in {"parking", "parked"} : Goto(at)
<1> DEFINE off == TakeOff(kernel, cr)
           r == UnlockKernel(off, mutex)
<1>1. /\ ~kernel.halted /\ cr \in Apps /\ pc[cr] = "hold"
      /\ wait_queue' = Parked(wait_queue, cr) /\ mutex' = Released(mutex)
      /\ UNCHANGED << total, state, my_gen >>
      /\ IF UnlockYields(off, mutex) THEN kernel' = r /\ Goto("parking")
         ELSE kernel' = NextTcb(r) /\ Goto("parked")
  BY DEF Park, At
<1>2. /\ Hart(kernel) /\ cr \in Range(kernel.ready) /\ cr \in Tid
      /\ Owns(cr) /\ mutex.recursive_count = 1
  BY <1>1, AppsAreTids DEF Sound, OneOwner, Owns, Hart, cr
<1>3. /\ Fit(off) /\ Range(off.ready) = Range(kernel.ready) \ {cr}
      /\ off.sleeping = kernel.sleeping /\ off.current = kernel.current
      /\ ~off.halted
  <2>1. Fit(kernel) /\ ~kernel.halted
    BY <1>1, <1>2 DEF Hart
  <2> QED
    BY <1>2, <2>1, FitTakeOff
<1> HIDE DEF off
<1>4. Known(off) = Known(kernel) \ {cr}
  BY <1>2, <1>3 DEF Known, Fit, Hart
<1>5. mutex.wait_queue # << >> => Head(mutex.wait_queue) \in Tid \ Known(off)
  BY <1>4, FirstWaiter
<1>6. off.current \in Tid
  BY <1>2, <1>3 DEF cr
<1>7. /\ IF UnlockYields(off, mutex) \/ off.current \in Range(off.ready) THEN Hart(r)
         ELSE Fit(r) /\ ~r.halted /\ r.current \in Tid
      /\ Known(r) = IF mutex.wait_queue = << >> THEN Known(off)
                    ELSE Known(off) \cup {Head(mutex.wait_queue)}
  BY <1>2, <1>3, <1>5, <1>6, UnlockKernelLemma
<1>8. off.current \notin Range(off.ready)
  BY <1>3 DEF cr
<1> HIDE DEF r
<1>9. Hart(kernel') /\ Known(kernel') = Known(r)
  BY <1>1, <1>7, <1>8, HartNextTcb
<1>10. Known(kernel') = (Known(kernel) \ {cr}) \cup Heir
  BY <1>4, <1>7, <1>9 DEF Heir
<1>11. PICK at \in {"parking", "parked"} : Goto(at)
  BY <1>1
<1> QED
  BY <1>1, <1>2, <1>9, <1>10, <1>11, ReleaseKeepsSound

-----------------------------------------------------------------------------
(* What count counts, and the meeting.                                     *)

\* The parties that wait for the others, and those that may leave.
Gathered == {t \in Counted : my_gen[t] = state.generation}
Freed == {t \in Counted : my_gen[t] # state.generation}

\* count is the number of those that wait; who holds the guard to park waits, and
\* the last party does not.
Counting ==
  /\ \A t \in Apps :
       /\ pc[t] = "hold" => my_gen[t] = state.generation
       /\ pc[t] \in {"last", "notify"} => my_gen[t] # state.generation
  /\ state.count = Cardinality(Gathered)

\* The inductive invariant.
IInv == Sound /\ Counting /\ NobodySleepsOn

\* Nobody has come yet.
LEMMA InitIInv == Init => IInv /\ Meeting!Init
<1> SUFFICES ASSUME Init PROVE IInv /\ Meeting!Init
  OBVIOUS
<1>1. Sound
  BY InitSound
<1>2. Counted = {} /\ Gathered = {} /\ Freed = {}
  BY DEF Init, Counted, Gathered, Freed
<1>3. Counting
  BY <1>2, FS_EmptySet DEF Init, Counting
<1>4. NobodySleepsOn
  BY DEF Init, NobodySleepsOn, Range
<1>5. Meeting!Init
  BY <1>1, <1>2 DEF Meeting!Init, Gathered, Freed, Sound
<1> QED
  BY <1>1, <1>3, <1>4, <1>5 DEF IInv

\* A step that leaves the data behind the mutex alone: nobody comes, and who goes
\* may leave.
LEMMA PlacesKeepCounting ==
  ASSUME IInv, cr \in Apps,
         NEW at, Goto(at), UNCHANGED << total, state, my_gen >>,
         \/ Range(wait_queue') \subseteq Range(wait_queue)
         \/ /\ Range(wait_queue') \subseteq Range(wait_queue) \cup {cr}
            /\ pc[cr] = "hold",
         at = "hold" => my_gen[cr] = state.generation,
         at \in {"last", "notify"} => pc[cr] = "last",
         pc[cr] = "last" => at = "notify",
         pc[cr] = "notify" => Range(wait_queue') = {},
         \/ cr \in Counted <=> at \notin {"out", "lock", "count"}
         \/ cr \in Counted /\ at = "out" /\ my_gen[cr] # state.generation
  PROVE  Counting' /\ NobodySleepsOn' /\ [Meeting!Next]_(Meeting!vars)
<1>1. \A t \in Apps : pc'[t] = IF t = cr THEN at ELSE pc[t]
  BY GotoPlaces DEF IInv
<1>2. Gathered' = Gathered
  BY <1>1 DEF Gathered, Counted
<1>3. \/ Freed' = Freed
      \/ Freed' = Freed \ {cr} /\ cr \in Freed
  BY <1>1 DEF Freed, Counted
<1>4. Counting'
  BY <1>1, <1>2 DEF IInv, Counting
<1>5. NobodySleepsOn'
  <2> SUFFICES ASSUME NEW t \in Range(wait_queue'), my_gen[t] # state.generation
               PROVE  \E u \in Counted' : pc'[u] \in {"last", "notify"}
    BY DEF NobodySleepsOn
  <2>1. t \in Range(wait_queue)
    BY DEF IInv, Counting
  <2>2. PICK u \in Counted : pc[u] \in {"last", "notify"}
    BY <2>1 DEF IInv, NobodySleepsOn
  <2>3. u \in Counted' /\ pc'[u] \in {"last", "notify"}
    BY <1>1, <2>2 DEF Counted
  <2> QED
    BY <2>3
<1>6. [Meeting!Next]_(Meeting!vars)
  <2>1. CASE Freed' = Freed
    BY <1>2, <2>1 DEF Meeting!vars, Gathered, Freed
  <2>2. CASE Freed' = Freed \ {cr} /\ cr \in Freed
    <3>1. PICK p \in Apps : p = cr
      OBVIOUS
    <3>2. Meeting!Leave(p)
      BY <1>2, <2>2, <3>1 DEF Meeting!Leave, Gathered, Freed
    <3>3. Meeting!Next
      BY <3>2 DEF Meeting!Next
    <3> QED
      BY <3>3
  <2> QED
    BY <1>3, <2>1, <2>2
<1> QED
  BY <1>4, <1>5, <1>6

\* The meeting counts its parties with the same operator.
LEMMA SameCardinality == \A S : Meeting!Cardinality(S) = Cardinality(S)
BY Zenon DEF Meeting!Cardinality, Cardinality

\* The generation counter moves on, also where it wraps.
LEMMA NextGeneration ==
  ASSUME NEW g \in 0 .. Generations - 1
  PROVE  /\ (g + 1) % Generations \in 0 .. Generations - 1
         /\ (g + 1) % Generations # g
<1>1. Generations \in Nat /\ Generations > 1
  BY BarrierAssumption
<1>2. CASE g + 1 < Generations
  <2>1. g + 1 \in 0 .. Generations - 1 /\ g + 1 = Generations * 0 + (g + 1)
    BY <1>1, <1>2
  <2>2. (g + 1) % Generations = g + 1
    BY <1>1, <2>1
  <2> QED
    BY <1>1, <2>1, <2>2
<1>3. CASE g + 1 = Generations
  <2>1. (g + 1) % Generations = 0
    BY <1>1, <1>3
  <2> QED
    BY <1>1, <1>3, <2>1
<1> QED
  BY <1>1, <1>2, <1>3

\* A party comes: it waits with the others, or sets all of them free.
LEMMA CountKeepsIInv ==
  ASSUME IInv, Count
  PROVE  IInv' /\ [Meeting!Next]_(Meeting!vars)
<1> DEFINE gen == state.generation
           full == Complete(state.count + 1)
<1>1. /\ ~kernel.halted /\ cr \in Apps /\ pc[cr] = "count" /\ NobodyLapped
      /\ my_gen' = [my_gen EXCEPT ![cr] = gen]
      /\ IF full
         THEN /\ state' = [count |-> 0, generation |-> (gen + 1) % Generations]
              /\ Goto("last")
         ELSE state' = [state EXCEPT !.count = @ + 1] /\ Goto("hold")
      /\ UNCHANGED << kernel, mutex, wait_queue, total >>
  BY DEF Count, At
<1>2. /\ state \in [count : 0 .. total - 1, generation : 0 .. Generations - 1]
      /\ total \in Nat \ {0} /\ my_gen \in [Apps -> 0 .. Generations - 1]
      /\ Sound /\ Counting /\ NobodySleepsOn
  BY DEF IInv, Sound, TypeOK
<1>3. /\ gen \in 0 .. Generations - 1 /\ state.count \in 0 .. total - 1
      /\ (gen + 1) % Generations \in 0 .. Generations - 1
      /\ (gen + 1) % Generations # gen
  BY <1>2, NextGeneration
<1>4. PICK at \in {"last", "hold"} : Goto(at) /\ (at = "last" <=> full)
  BY <1>1
<1> HIDE DEF full
<1>5. \A t \in Apps : /\ pc'[t] = IF t = cr THEN at ELSE pc[t]
                     /\ my_gen'[t] = IF t = cr THEN gen ELSE my_gen[t]
  BY <1>1, <1>2, <1>4, GotoPlaces
<1>6. Counted' = Counted \cup {cr} /\ cr \notin Counted
  BY <1>1, <1>5 DEF Counted
<1>7. \A t \in Apps : pc[t] # "hold"
  BY <1>1 DEF IInv, Sound, OneOwner, Owns
<1>8. cr \notin Range(wait_queue) /\ Range(wait_queue) \subseteq Apps
  BY <1>1, <1>2, RunnerIsKnown, QueuesAreApps
<1>9. IsFiniteSet(Gathered) /\ cr \notin Gathered
  <2>1. IsFiniteSet(Apps)
    <3>1. 0 \in Int /\ Len(TaskPriorities) - 1 \in Int
      BY BarrierAssumption
    <3> QED
      BY <3>1, FS_Interval DEF Apps
  <2> QED
    BY <1>6, <2>1, FS_Subset DEF Gathered, Counted
<1>10. Owns(cr)
  BY <1>1 DEF Owns
<1>11. CASE full
  <2>1. /\ state'.generation = (gen + 1) % Generations /\ state'.count = 0
        /\ at = "last" /\ state.count + 1 = total
        /\ state' \in [count : 0 .. total - 1, generation : 0 .. Generations - 1]
    BY <1>1, <1>2, <1>3, <1>4, <1>11 DEF full, Complete
  <2>2. \A t \in Counted' : my_gen'[t] # state'.generation
    BY <1>1, <1>3, <1>5, <1>6, <2>1 DEF NobodyLapped, Counted
  <2>3. Gathered' = {} /\ Freed' = Freed \cup Gathered \cup {cr}
    BY <1>6, <2>2 DEF Gathered, Freed
  <2>4. Sound'
    <3>1. my_gen' \in [Apps -> 0 .. Generations - 1]
      BY <1>1, <1>2, <1>3
    <3> QED
      BY <1>1, <1>2, <1>4, <1>10, <2>1, <3>1, OwnerKeepsSound
  <2>5. Counting'
    <3>1. state'.count = Cardinality(Gathered')
      BY <2>1, <2>3, FS_EmptySet
    <3>2. ASSUME NEW t \in Apps
          PROVE  /\ pc'[t] # "hold"
                 /\ pc'[t] \in {"last", "notify"} => my_gen'[t] # state'.generation
      BY <1>5, <1>7, <2>1, <2>2 DEF Counted
    <3> QED
      BY <3>1, <3>2 DEF Counting
  <2>6. NobodySleepsOn'
    <3>1. cr \in Counted' /\ pc'[cr] = "last"
      BY <1>1, <1>5, <1>6, <2>1
    <3> QED
      BY <3>1 DEF NobodySleepsOn
  <2>7. [Meeting!Next]_(Meeting!vars)
    <3>1. PICK p \in Apps : p = cr
      BY <1>1
    <3>2. Cardinality(Gathered) + 1 = total
      BY <1>2, <2>1 DEF Counting
    <3>3. p \notin Gathered \cup Freed
      BY <1>6, <3>1 DEF Gathered, Freed
    <3>4. Meeting!Arrive(p)
      <4>1. /\ p \notin Gathered \cup Freed /\ UNCHANGED total
            /\ IF Cardinality(Gathered) + 1 = total
               THEN Gathered' = {} /\ Freed' = Freed \cup Gathered \cup {p}
               ELSE Gathered' = Gathered \cup {p} /\ UNCHANGED Freed
        BY <1>1, <2>3, <3>1, <3>2, <3>3
      <4> QED
        BY <4>1, SameCardinality, Zenon DEF Meeting!Arrive, Gathered, Freed
    <3>5. Meeting!Next
      BY <3>4 DEF Meeting!Next
    <3> QED
      BY <3>5
  <2> QED
    BY <2>4, <2>5, <2>6, <2>7 DEF IInv
<1>12. CASE ~full
  <2>1. /\ state'.generation = gen /\ state'.count = state.count + 1
        /\ at = "hold" /\ state.count + 1 # total
        /\ state' \in [count : 0 .. total - 1, generation : 0 .. Generations - 1]
    <3>1. state.count + 1 # total
      BY <1>12 DEF full, Complete
    <3>2. state.count + 1 \in 0 .. total - 1
      BY <1>2, <1>3, <3>1
    <3> QED
      BY <1>1, <1>2, <1>4, <1>12, <3>1, <3>2
  <2>2. Gathered' = Gathered \cup {cr} /\ Freed' = Freed
    BY <1>5, <1>6, <2>1 DEF Gathered, Freed, Counted
  <2>3. Cardinality(Gathered') = state'.count
    BY <1>2, <1>9, <2>1, <2>2, FS_AddElement DEF Counting
  <2>4. Sound'
    <3>1. my_gen' \in [Apps -> 0 .. Generations - 1]
      BY <1>1, <1>2, <1>3
    <3> QED
      BY <1>1, <1>2, <1>4, <1>10, <2>1, <3>1, OwnerKeepsSound
  <2>5. Counting'
    <3>1. ASSUME NEW t \in Apps
          PROVE  /\ pc'[t] = "hold" => my_gen'[t] = state'.generation
                 /\ pc'[t] \in {"last", "notify"} => my_gen'[t] # state'.generation
      BY <1>2, <1>5, <1>7, <2>1 DEF Counting
    <3> QED
      BY <2>3, <3>1 DEF Counting
  <2>6. NobodySleepsOn'
    <3> SUFFICES ASSUME NEW t \in Range(wait_queue'), my_gen'[t] # state'.generation
                 PROVE  \E u \in Counted' : pc'[u] \in {"last", "notify"}
      BY DEF NobodySleepsOn
    <3>1. t \in Range(wait_queue) /\ my_gen[t] # gen
      BY <1>1, <1>5, <1>8, <2>1
    <3>2. PICK u \in Counted : pc[u] \in {"last", "notify"}
      BY <1>2, <3>1 DEF NobodySleepsOn
    <3> QED
      BY <1>5, <1>6, <3>2 DEF Counted
  <2>7. [Meeting!Next]_(Meeting!vars)
    <3>1. PICK p \in Apps : p = cr
      BY <1>1
    <3>2. Cardinality(Gathered) + 1 # total
      BY <1>2, <2>1 DEF Counting
    <3>3. p \notin Gathered \cup Freed
      BY <1>6, <3>1 DEF Gathered, Freed
    <3>4. Meeting!Arrive(p)
      <4>1. /\ p \notin Gathered \cup Freed /\ UNCHANGED total
            /\ IF Cardinality(Gathered) + 1 = total
               THEN Gathered' = {} /\ Freed' = Freed \cup Gathered \cup {p}
               ELSE Gathered' = Gathered \cup {p} /\ UNCHANGED Freed
        BY <1>1, <2>2, <3>1, <3>2, <3>3
      <4> QED
        BY <4>1, SameCardinality, Zenon DEF Meeting!Arrive, Gathered, Freed
    <3>5. Meeting!Next
      BY <3>4 DEF Meeting!Next
    <3> QED
      BY <3>5
  <2> QED
    BY <2>4, <2>5, <2>6, <2>7 DEF IInv
<1> QED
  BY <1>11, <1>12

\* One step per action; each is a step of the meeting or none.
LEMMA NextIInv == IInv /\ [Next]_vars => IInv' /\ [Meeting!Next]_(Meeting!vars)
<1> SUFFICES ASSUME IInv, [Next]_vars PROVE IInv' /\ [Meeting!Next]_(Meeting!vars)
  OBVIOUS
<1>1. /\ Sound /\ Counting
      /\ Hart(kernel) /\ kernel.current \in Tid
      /\ wait_queue \in Seq(Apps) /\ wait_queue \in Seq(Tid)
      /\ IsInjective(wait_queue)
      /\ state \in [count : 0 .. total - 1, generation : 0 .. Generations - 1]
      /\ my_gen \in [Apps -> 0 .. Generations - 1]
  BY AppsAreTids DEF IInv, Sound, TypeOK, Hart, Queued
<1>2. Range(<< >>) = {}
  BY DEF Range
<1>3. CASE Enter
  <2>1. /\ ~kernel.halted /\ cr \in Apps /\ pc[cr] = "out"
        /\ LockGoto("count", "lock") /\ UNCHANGED << wait_queue, total, state, my_gen >>
    BY <1>3 DEF Enter, At
  <2>2. Sound' /\ \E at \in {"count", "lock"} : Goto(at)
    BY <1>1, <2>1, LockKeepsSound
  <2>3. cr \notin Counted
    BY <2>1 DEF Counted
  <2>4. PICK at \in {"count", "lock"} : Goto(at)
    BY <2>2
  <2>5. Counting' /\ NobodySleepsOn' /\ [Meeting!Next]_(Meeting!vars)
    BY <2>1, <2>3, <2>4, PlacesKeepCounting
  <2> QED
    BY <2>2, <2>5 DEF IInv
<1>4. CASE LockReturns
  <2>1. /\ ~kernel.halted /\ cr \in Apps
        /\ \/ pc[cr] = "lock" /\ Goto("count")
           \/ pc[cr] = "relock" /\ Goto("back")
        /\ UNCHANGED << kernel, mutex, wait_queue, total, state, my_gen >>
    BY <1>4 DEF LockReturns, At
  <2>2. Owns(cr)
    BY <1>1, <2>1, RunnerIsKnown DEF Owns
  <2>3. CASE pc[cr] = "lock" /\ Goto("count")
    <3>1. Sound'
      BY <1>1, <2>1, <2>2, <2>3, OwnerKeepsSound
    <3>2. cr \notin Counted
      BY <2>3 DEF Counted
    <3>3. Counting' /\ NobodySleepsOn' /\ [Meeting!Next]_(Meeting!vars)
      BY <2>1, <2>3, <3>2, PlacesKeepCounting
    <3> QED
      BY <3>1, <3>3 DEF IInv
  <2>4. CASE pc[cr] = "relock" /\ Goto("back")
    <3>1. Sound'
      BY <1>1, <2>1, <2>2, <2>4, OwnerKeepsSound
    <3>2. cr \in Counted
      BY <2>1, <2>4 DEF Counted
    <3>3. Counting' /\ NobodySleepsOn' /\ [Meeting!Next]_(Meeting!vars)
      BY <2>1, <2>4, <3>2, PlacesKeepCounting
    <3> QED
      BY <3>1, <3>3 DEF IInv
  <2> QED
    BY <2>1, <2>3, <2>4
<1>5. CASE Count
  BY <1>5, CountKeepsIInv
<1>6. CASE Open
  <2>1. /\ ~kernel.halted /\ cr \in Apps /\ pc[cr] = "last"
        /\ UnlockGoto("notify") /\ UNCHANGED << wait_queue, total, state, my_gen >>
    BY <1>6 DEF Open, At
  <2>2. Owns(cr) /\ cr \in Counted
    BY <2>1 DEF Owns, Counted
  <2>3. Sound' /\ Goto("notify")
    BY <1>1, <2>1, <2>2, UnlockKeepsSound
  <2>4. Counting' /\ NobodySleepsOn' /\ [Meeting!Next]_(Meeting!vars)
    BY <2>1, <2>2, <2>3, PlacesKeepCounting
  <2> QED
    BY <2>3, <2>4 DEF IInv
<1>7. CASE NotifyAll
  <2> DEFINE done == Notified(kernel, wait_queue)
  <2>1. /\ ~kernel.halted /\ cr \in Apps /\ pc[cr] = "notify" /\ Goto("out")
        /\ IF wait_queue = << >> THEN UNCHANGED << kernel, wait_queue >>
           ELSE kernel' = NextTcb(done.kernel) /\ wait_queue' = done.queue
        /\ UNCHANGED << mutex, total, state, my_gen >>
    BY <1>7 DEF NotifyAll, At
  <2>2. /\ Hart(kernel') /\ Known(kernel') = Known(kernel) \cup Range(wait_queue)
        /\ wait_queue' = << >>
    <3>1. CASE wait_queue = << >>
      BY <1>1, <1>2, <2>1, <3>1
    <3>2. CASE wait_queue # << >>
      <4>1. Range(wait_queue) \cap Known(kernel) = {}
        BY <1>1 DEF Sound, Queued
      <4>2. /\ Fit(done.kernel)
            /\ Known(done.kernel) = Known(kernel) \cup Range(wait_queue)
            /\ done.kernel.current = kernel.current
            /\ done.kernel.halted = kernel.halted /\ done.queue = << >>
        BY <1>1, <4>1, NotifiedLemma DEF Hart
      <4> HIDE DEF done
      <4> QED
        BY <1>1, <2>1, <3>2, <4>2, HartNextTcb
    <3> QED
      BY <3>1, <3>2
  <2>3. Sound'
    BY <1>1, <2>1, <2>2, StrangerKeepsSound
  <2>4. cr \in Counted /\ my_gen[cr] # state.generation
    BY <1>1, <2>1 DEF Counted, Counting
  <2>5. Counting' /\ NobodySleepsOn' /\ [Meeting!Next]_(Meeting!vars)
    BY <1>2, <2>1, <2>2, <2>4, PlacesKeepCounting
  <2> QED
    BY <2>3, <2>5 DEF IInv
<1>8. CASE Park
  <2>1. /\ ~kernel.halted /\ cr \in Apps /\ pc[cr] = "hold"
        /\ wait_queue' = Parked(wait_queue, cr) /\ UNCHANGED << total, state, my_gen >>
    BY <1>8 DEF Park, At
  <2>2. Sound' /\ \E at \in {"parking", "parked"} : Goto(at)
    BY <1>1, <1>8, ParkKeepsSound
  <2>3. PICK at \in {"parking", "parked"} : Goto(at)
    BY <2>2
  <2>4. Range(wait_queue') \subseteq Range(wait_queue) \cup {cr}
    <3>1. cr \in Tid /\ cr \notin Range(wait_queue)
      BY <1>1, <2>1, RunnerIsKnown
    <3>2. Len(wait_queue) # TASK_MAX
      BY <1>1, <3>1, RoomForAbsent DEF Tid
    <3> QED
      BY <1>1, <2>1, <3>1, <3>2, PushBackProperties DEF Parked
  <2>5. cr \in Counted
    BY <2>1 DEF Counted
  <2>6. Counting' /\ NobodySleepsOn' /\ [Meeting!Next]_(Meeting!vars)
    BY <2>1, <2>3, <2>4, <2>5, PlacesKeepCounting
  <2> QED
    BY <2>2, <2>6 DEF IInv
<1>9. CASE ParkYields
  <2>1. /\ ~kernel.halted /\ cr \in Apps /\ pc[cr] = "parking" /\ Goto("parked")
        /\ kernel' = NextTcb(kernel)
        /\ UNCHANGED << mutex, wait_queue, total, state, my_gen >>
    BY <1>9 DEF ParkYields, At
  <2>2. Hart(kernel') /\ Known(kernel') = Known(kernel)
    BY <1>1, <2>1, HartNextTcb DEF Hart
  <2>3. Sound'
    BY <1>1, <2>1, <2>2, StrangerKeepsSound
  <2>4. cr \in Counted
    BY <2>1 DEF Counted
  <2>5. Counting' /\ NobodySleepsOn' /\ [Meeting!Next]_(Meeting!vars)
    BY <2>1, <2>4, PlacesKeepCounting
  <2> QED
    BY <2>3, <2>5 DEF IInv
<1>10. CASE Relock
  <2>1. /\ ~kernel.halted /\ cr \in Apps /\ pc[cr] = "parked"
        /\ LockGoto("back", "relock") /\ UNCHANGED << wait_queue, total, state, my_gen >>
    BY <1>10 DEF Relock, At
  <2>2. Sound' /\ \E at \in {"back", "relock"} : Goto(at)
    BY <1>1, <2>1, LockKeepsSound
  <2>3. cr \in Counted
    BY <2>1 DEF Counted
  <2>4. PICK at \in {"back", "relock"} : Goto(at)
    BY <2>2
  <2>5. Counting' /\ NobodySleepsOn' /\ [Meeting!Next]_(Meeting!vars)
    BY <2>1, <2>3, <2>4, PlacesKeepCounting
  <2> QED
    BY <2>2, <2>5 DEF IInv
<1>11. CASE Check
  <2>1. /\ ~kernel.halted /\ cr \in Apps /\ pc[cr] = "back"
        /\ IF state.generation = my_gen[cr]
           THEN Goto("hold") /\ UNCHANGED << kernel, mutex >>
           ELSE UnlockGoto("out")
        /\ UNCHANGED << wait_queue, total, state, my_gen >>
    BY <1>11 DEF Check, At
  <2>2. Owns(cr) /\ cr \in Counted
    BY <2>1 DEF Owns, Counted
  <2>3. CASE state.generation = my_gen[cr]
    <3>1. Sound'
      BY <1>1, <2>1, <2>2, <2>3, OwnerKeepsSound
    <3>2. Counting' /\ NobodySleepsOn' /\ [Meeting!Next]_(Meeting!vars)
      BY <2>1, <2>2, <2>3, PlacesKeepCounting
    <3> QED
      BY <3>1, <3>2 DEF IInv
  <2>4. CASE state.generation # my_gen[cr]
    <3>1. Sound' /\ Goto("out")
      BY <1>1, <2>1, <2>2, <2>4, UnlockKeepsSound
    <3>2. Counting' /\ NobodySleepsOn' /\ [Meeting!Next]_(Meeting!vars)
      BY <2>1, <2>2, <2>4, <3>1, PlacesKeepCounting
    <3> QED
      BY <3>1, <3>2 DEF IInv
  <2> QED
    BY <2>3, <2>4
<1>12. CASE Timer \/ UNCHANGED vars
  <2>1. UNCHANGED << mutex, wait_queue, total, state, my_gen, pc >>
    BY <1>12 DEF Timer, vars
  <2>2. Hart(kernel') /\ Known(kernel') = Known(kernel)
    <3>1. CASE Timer
      BY <1>1, <3>1, FitTick DEF Timer, Hart
    <3>2. CASE UNCHANGED vars
      BY <1>1, <3>2 DEF vars
    <3> QED
      BY <1>12, <3>1, <3>2
  <2>3. Sound'
    BY <1>1, <2>1, <2>2, TickKeepsSound
  <2>4. Counted' = Counted /\ Gathered' = Gathered /\ Freed' = Freed
    BY <2>1 DEF Counted, Gathered, Freed
  <2>5. Counting' /\ NobodySleepsOn'
    BY <2>1, <2>4 DEF IInv, Counting, NobodySleepsOn
  <2>6. [Meeting!Next]_(Meeting!vars)
    BY <2>1, <2>4 DEF Meeting!vars, Gathered, Freed
  <2> QED
    BY <2>3, <2>5, <2>6 DEF IInv
<1> QED
  BY <1>3, <1>4, <1>5, <1>6, <1>7, <1>8, <1>9, <1>10, <1>11, <1>12 DEF Next

\* The inductive invariant holds.
LEMMA SpecIInv == Spec => []IInv
BY InitIInv, NextIInv, PTL DEF Spec

\* Types: kernel, mutex, queues and counters of the barrier (sync.rs).
THEOREM TypeCorrect == Spec => []TypeOK
<1>1. IInv => TypeOK
  BY DEF IInv, Sound
<1> QED
  BY <1>1, SpecIInv, PTL

\* No party is parked for a generation that is over, unless somebody has still to
\* notify: no wake-up is lost between the unlock in CondVar::wait and its yield, or
\* between the drop of the guard and notify_all (Barrier::wait).
THEOREM NobodyIsForgotten == Spec => []NobodySleepsOn
<1>1. IInv => NobodySleepsOn
  BY DEF IInv
<1> QED
  BY <1>1, SpecIInv, PTL

\* The safety part of IsRendezvous: nobody leaves Barrier::wait before total parties
\* have come, whatever the counters of the next generation do meanwhile.
THEOREM StepsAreMeetings == Spec => Meeting!Init /\ [][Meeting!Next]_(Meeting!vars)
BY InitIInv, NextIInv, SpecIInv, PTL DEF Spec
=============================================================================
