-------------------------------- MODULE Fifo --------------------------------
(***************************************************************************)
(* What a message queue promises: messages come out in the order in which  *)
(* they went in, none lost, none doubled, never more than Capacity inside; *)
(* a call that gives up changes nothing.  MsgQueue implements this.        *)
(***************************************************************************)
EXTENDS Naturals, Sequences

CONSTANTS Messages, Capacity

VARIABLES
  content,   \* the messages inside
  last       \* how the last call ended

vars == << content, last >>

Init == content = << >> /\ last = << "none" >>

Put(m) ==
  /\ Len(content) < Capacity
  /\ content' = Append(content, m) /\ last' = << "sent", m >>

Take ==
  /\ content # << >>
  /\ content' = Tail(content) /\ last' = << "received", Head(content) >>

GiveUp == last' = << "timeout" >> /\ UNCHANGED content

Next == (\E m \in Messages : Put(m)) \/ Take \/ GiveUp

Spec == Init /\ [][Next]_vars
=============================================================================
