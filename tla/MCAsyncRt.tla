------------------------------ MODULE MCAsyncRt ------------------------------
(* Instances of AsyncRt for TLC: a cfg cannot write a sequence.            *)
EXTENDS AsyncRt

\* A task that spawns, less urgent than the executor, and one that only leaves.
MCPriorities == << 2, 2 >>

\* A task that spawns and is as urgent as the executor.
MCUrgent == << 1 >>
=============================================================================
