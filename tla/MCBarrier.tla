------------------------------ MODULE MCBarrier ------------------------------
(* Instances of Barrier for TLC: a cfg cannot write a sequence.            *)
EXTENDS Barrier

\* Three tasks, two of them of equal priority.
MCPriorities == << 1, 0, 1 >>
=============================================================================
