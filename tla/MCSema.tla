------------------------------- MODULE MCSema -------------------------------
(* Instances of Sema for TLC: a cfg cannot write a sequence.               *)
EXTENDS Sema

\* Three tasks, two of them of equal priority, above the idle task.
MCPriorities == << 0, 1, 1 >>

\* Two tasks of different priority.
MCTwoPriorities == << 0, 1 >>
=============================================================================
