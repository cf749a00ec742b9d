------------------------------ MODULE TaskList ------------------------------
(***************************************************************************)
(* core/src/kernel/list.rs: the kernel's TaskList, a vector of task        *)
(* identifiers with a fixed capacity.  A list is a sequence; every         *)
(* operation is a function from the old list to the new one.  The code     *)
(* never looks at the Err a full list returns, so neither do we.           *)
(***************************************************************************)
EXTENDS Integers, SequencesExt

CONSTANT TASK_MAX    \* capacity of a TaskList and size of the task pool

ASSUME TaskMaxAssumption == TASK_MAX \in Nat \ {0}

Holds(list, tid) == tid \in Range(list)

\* The order insert_in_order keeps.
SortedBy(list, key) ==
  \A i, j \in 1..Len(list) : i < j => key[list[i]] <= key[list[j]]

\* TaskList::push_back
PushBack(list, tid) ==
  IF Len(list) = TASK_MAX THEN list ELSE Append(list, tid)

\* Variant of Drop: Vec::swap_remove in place of Vec::remove.
DropBySwap(list, tid) ==
  IF ~Holds(list, tid) THEN list
  ELSE [i \in 1..Len(list) - 1 |->
          IF list[i] = tid THEN list[Len(list)] ELSE list[i]]

\* TaskList::remove: the first occurrence goes, an absent tid changes nothing
Drop(list, tid) == RemoveFirst(list, tid)

\* The place of the first element that is strictly after tid, or the end.
InsertPos(list, tid, key) ==
  Min({i \in 1..Len(list) : key[tid] < key[list[i]]} \cup {Len(list) + 1})

\* TaskList::insert_in_order with the callers' `key of tid < key of element`:
\* tid goes behind its equals; a full list is left as it was.
InsertInOrder(list, tid, key) ==
  IF Len(list) = TASK_MAX THEN list
  ELSE InsertAt(list, InsertPos(list, tid, key), tid)
=============================================================================
