----------------------------- MODULE MCMsgQueue -----------------------------
(* Instances of MsgQueue for TLC: a cfg cannot write a sequence.           *)
EXTENDS MsgQueue

MCPriorities == << 0, 1, 1 >>
MCRoles == << {"recv"}, {"send"}, {"recv"} >>
=============================================================================
