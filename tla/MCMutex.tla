------------------------------- MODULE MCMutex -------------------------------
(* Instances of Mutex for TLC: a cfg cannot write a sequence.              *)
EXTENDS Mutex

\* Three tasks of three priorities above the idle task: an owner, a waiter and
\* one between them.
MCPriorities == << 0, 1, 2 >>
=============================================================================
