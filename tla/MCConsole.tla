----------------------------- MODULE MCConsole ------------------------------
(* Instances of Console for TLC. *)
EXTENDS Console

\* In two parts, the second blank; edited; too long; half a character left; both
\* edited and too long.
MCLines ==
  { << "a", "CR", " " >>, << " ", "a", "b", "BS" >>,
    << "a", "b", "a", "x1", "x2" >>, << "BS", "x1", "x2", "BS" >>,
    << "a", "b", "a", "x1", "x2", "BS" >> }

MCReplies == { << >>, << "r", "LF" >> }
=============================================================================
