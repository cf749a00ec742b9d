------------------------------- MODULE Handles ------------------------------
(***************************************************************************)
(* Tasks by reference: the handles rtos_adapter.rs gives the wireless blob *)
(* and the tids the shell gets for a name.  Both outlive the critical      *)
(* section in which they were looked up, and a tid is given out again.     *)
(*                                                                         *)
(* Task 0 is the blob's controller, which alone creates and deletes tasks  *)
(* through the adapter; the tasks it makes and those of the application    *)
(* ask for their own handle.  The scheduler is left open: with interrupts  *)
(* on any live task takes the next step, and so behind the ecall inside a  *)
(* critical section.  Lives of a slot are numbered to tell them apart.     *)
(***************************************************************************)
EXTENDS Naturals, FiniteSetsExt

CONSTANTS
  TASK_MAX,
  Names,         \* names of tasks: "blob" for the controller's, others
  MaxLives,      \* bound on the tasks ever created, the controller one of them
  NoHandle       \* a null pointer in FAT_HANDLES

ASSUME HandlesAssumption ==
  /\ TASK_MAX \in Nat \ {0} /\ MaxLives \in Nat \ {0}
  /\ "blob" \in Names
  /\ NoHandle \notin Nat

VARIABLES
  alive,         \* slots that are not Terminated
  name,          \* TCBS[tid].name, which outlives the task
  life,          \* life[tid]: the number of its life, 0 of the dead (history)
  lives,         \* lives so far
  stopped,       \* slots the shell has blocked
  table,         \* FAT_HANDLES
  heap,          \* handles that are allocated
  mos_tid,       \* FatTaskHandle.mos_tid
  pc,            \* what each task is doing in the adapter
  held,          \* handles task_create returned, each with the life it was made
                 \* for, until the task is deleted or deletes itself (history)
  meddled,       \* the shell has killed a task of the blob (history)
  shell          \* the shell's command between look-up and call

tasks == << alive, name, life, lives >>
handles == << table, heap, mos_tid >>
ghosts == << held, meddled >>
handles_vars == << tasks, stopped, handles, pc, ghosts, shell >>

Tids == 0 .. TASK_MAX - 1
Handle == 1 .. MaxLives * 2
Doing(place, tid, n) == [at |-> place, tid |-> tid, life |-> n, handle |-> NoHandle]
Idle == Doing("user", 0, 0)
Prompt == [busy |-> FALSE, tid |-> 0]

HandlesInit ==
  /\ alive = {0}
  /\ name = [t \in Tids |-> "controller"]
  /\ life = [t \in Tids |-> IF t = 0 THEN 1 ELSE 0] /\ lives = 1
  /\ stopped = {}
  /\ table = [t \in Tids |-> NoHandle]
  /\ heap = {} /\ mos_tid = [h \in Handle |-> 0]
  /\ pc = [t \in Tids |-> Idle]
  /\ held = {} /\ meddled = FALSE
  /\ shell = Prompt

IsAt(t, place) == t \in alive \ stopped /\ pc[t].at = place
Goto(t, place) == pc' = [pc EXCEPT ![t].at = place]

-----------------------------------------------------------------------------
(* Births and deaths (Kernel has them with the lists).                     *)

FreeTids == Tids \ alive

\* Task::create or create_raw by t, which goes on at `next`.
Born(t, who, next) ==
  /\ lives < MaxLives /\ lives' = lives + 1
  /\ FreeTids # {}
  /\ LET tid == Min(FreeTids)                       \* alloc_tid
     IN  /\ alive' = alive \cup {tid}
         /\ name' = [name EXCEPT ![tid] = who]
         /\ life' = [life EXCEPT ![tid] = lives']
  /\ pc' = [pc EXCEPT ![t] = next]

\* terminate, exit_current: free_tid keeps all but the status.  The call `next`
\* takes its caller on, what the dead task was doing is over.
Dies(tid, next) ==
  /\ alive' = alive \ {tid}
  /\ stopped' = stopped \ {tid}
  /\ life' = [life EXCEPT ![tid] = 0]
  /\ pc' = [next EXCEPT ![tid] = Idle]
  /\ UNCHANGED << name, lives >>

\* The application starts a task of its own.
CreateApp(t) ==
  /\ IsAt(t, "user")
  /\ \E who \in Names \ {"blob"} : Born(t, who, Idle)
  /\ UNCHANGED << stopped, handles, ghosts, shell >>

\* A task of the application returns from its entry function.
ExitApp(t) ==
  /\ IsAt(t, "user") /\ name[t] \notin {"blob", "controller"}
  /\ Dies(t, pc)
  /\ UNCHANGED << handles, ghosts, shell >>

-----------------------------------------------------------------------------
(* The adapter.                                                            *)

\* task_create: create_raw, then the handle.
TaskCreate ==
  /\ IsAt(0, "user")
  /\ Born(0, "blob", Doing("test", Min(FreeTids), lives + 1))
  /\ UNCHANGED << stopped, handles, ghosts, shell >>

\* current_task and current_task_thread_semaphore
CurrentTask(t) ==
  /\ IsAt(t, "user")
  /\ pc' = [pc EXCEPT ![t] = Doing("test", t, life[t])]
  /\ UNCHANGED << tasks, stopped, handles, ghosts, shell >>

\* get_or_create_fat_handle, with interrupts on: look,
TestEntry(t) ==
  /\ IsAt(t, "test")
  /\ Goto(t, IF table[pc[t].tid] = NoHandle THEN "make" ELSE "read")
  /\ UNCHANGED << tasks, stopped, handles, ghosts, shell >>

\* make one and store it, whatever the entry is by now (Handle bounds the heap),
MakeHandle(t) ==
  /\ IsAt(t, "make") /\ Handle \ heap # {}
  /\ LET h == Min(Handle \ heap)
     IN  /\ heap' = heap \cup {h}
         /\ mos_tid' = [mos_tid EXCEPT ![h] = pc[t].tid]
         /\ table' = [table EXCEPT ![pc[t].tid] = h]
  /\ Goto(t, "read")
  /\ UNCHANGED << tasks, stopped, ghosts, shell >>

\* and read the entry again.
ReadEntry(t) ==
  /\ IsAt(t, "read")
  /\ held' = IF pc[t].tid = t \/ pc[t].life = 0 THEN held
             ELSE held \cup {<< table[pc[t].tid], pc[t].life >>}
  /\ pc' = [pc EXCEPT ![t] = Idle]
  /\ UNCHANGED << tasks, stopped, handles, meddled, shell >>

\* Variant of Cleared: the entry is left.
ClearedNot(tid) == table

Cleared(tid) == [table EXCEPT ![tid] = NoHandle]

\* schedule_task_deletion.  The blob deletes no task twice and none that deleted
\* itself, but it does not hear of the shell.
Deletes(h, n) ==
  /\ IsAt(0, "user")
  /\ << h, n >> \in held /\ h \in heap
  /\ held' = held \ {<< h, n >>}
  /\ UNCHANGED << heap, mos_tid, meddled, shell >>

DeletingAt(place, h, n) ==
  [pc EXCEPT ![0] = [Doing(place, mos_tid[h], n) EXCEPT !.handle = h]]

\* Up to the yield in terminate,
Delete(h, n) ==
  /\ Deletes(h, n) /\ mos_tid[h] \in alive
  /\ Dies(mos_tid[h], DeletingAt("clear", h, n))
  /\ UNCHANGED table

\* Behind the yield: the entry, still in the critical section,
ClearEntry ==
  /\ IsAt(0, "clear")
  /\ table' = Cleared(pc[0].tid)
  /\ Goto(0, "free")
  /\ UNCHANGED << tasks, stopped, heap, mos_tid, ghosts, shell >>

\* and the box.
FreeHandle ==
  /\ IsAt(0, "free")
  /\ heap' = heap \ {pc[0].handle}
  /\ mos_tid' = [mos_tid EXCEPT ![pc[0].handle] = 0]
  /\ pc' = [pc EXCEPT ![0] = Idle]
  /\ UNCHANGED << tasks, stopped, table, ghosts, shell >>

\* The task is dead already, terminate returns at once.
DeleteDead(h, n) ==
  /\ Deletes(h, n) /\ mos_tid[h] \notin alive
  /\ table' = Cleared(mos_tid[h])
  /\ pc' = DeletingAt("free", h, n)
  /\ UNCHANGED << tasks, stopped >>

\* A blob task deletes itself: terminate does not come back.
DeleteSelf(t) ==
  /\ IsAt(t, "user") /\ name[t] = "blob"
  /\ table[t] # NoHandle
  /\ Dies(t, IF pc[0].at \in {"test", "make", "read"} /\ pc[0].life = life[t]
             THEN [pc EXCEPT ![0].life = 0] ELSE pc)
  /\ held' = {p \in held : p[2] # life[t]}
  /\ UNCHANGED << handles, meddled, shell >>

-----------------------------------------------------------------------------
(* The shell: task_ctrl_cmd with kill, block and resume.                   *)

\* find_tid's scan.
Found(who) == {tid \in alive : name[tid] = who}

\* The look-up is a critical section of its own.  Which of the three commands
\* it is for shows in the next.
LookUp(who) ==
  /\ ~shell.busy
  /\ Found(who) # {}
  /\ shell' = [busy |-> TRUE, tid |-> Min(Found(who))]
  /\ UNCHANGED << tasks, stopped, handles, pc, ghosts >>

Done == shell' = Prompt

OfTheBlob == {tid \in alive : name[tid] \in {"blob", "controller"}}

\* Task::terminate
Kill ==
  /\ shell.busy /\ Done
  /\ Dies(shell.tid, pc)
  /\ meddled' = (meddled \/ shell.tid \in OfTheBlob)
  /\ UNCHANGED << handles, held >>

\* Task::block
Block ==
  /\ shell.busy /\ Done
  /\ stopped' = IF shell.tid \in alive THEN stopped \cup {shell.tid} ELSE stopped
  /\ UNCHANGED << tasks, handles, pc, ghosts >>

\* Task::resume
Resume ==
  /\ shell.busy /\ Done
  /\ stopped' = stopped \ {shell.tid}
  /\ UNCHANGED << tasks, handles, pc, ghosts >>

HandlesNext ==
  \/ \E t \in Tids :
       \/ CreateApp(t) \/ ExitApp(t)
       \/ CurrentTask(t) \/ TestEntry(t) \/ MakeHandle(t) \/ ReadEntry(t)
       \/ DeleteSelf(t)
  \/ TaskCreate
  \/ \E h \in Handle, n \in 1 .. MaxLives : Delete(h, n) \/ DeleteDead(h, n)
  \/ ClearEntry \/ FreeHandle
  \/ \E who \in Names : LookUp(who)
  \/ Kill \/ Block \/ Resume

HandlesSpec == HandlesInit /\ [][HandlesNext]_handles_vars

-----------------------------------------------------------------------------
(* Properties.                                                             *)

\* An entry of FAT_HANDLES is an allocated handle, made for its slot, whatever
\* comes between the test and the store, or between terminate and the clearing.
EntriesAreAllocated ==
  \A tid \in Tids :
    table[tid] # NoHandle =>
      table[tid] \in heap /\ mos_tid[table[tid]] = tid

\* A handle that task_create returned stands for the task it was made for until
\* it is deleted or that task deletes itself, through any reuse of slots and
\* handles, unless the shell kills tasks of the blob.
HeldHandlesName ==
  meddled \/ \A p \in held :
    /\ p[1] \in heap
    /\ mos_tid[p[1]] \in alive /\ life[mos_tid[p[1]]] = p[2]
=============================================================================
