----------------------------- MODULE Rendezvous -----------------------------
(***************************************************************************)
(* What a barrier promises: parties arrive and stay until total of them    *)
(* are there; the last arrival sets all of them free, and whoever is free  *)
(* leaves in the end and may come again.  Barrier implements this.         *)
(***************************************************************************)
EXTENDS Naturals, FiniteSets

CONSTANT Parties

VARIABLES
  total,      \* how many make a party, fixed
  gathered,   \* the parties that wait for the others
  freed       \* the parties that may leave

vars == << total, gathered, freed >>

Init == total \in Nat \ {0} /\ gathered = {} /\ freed = {}

Arrive(p) ==
  /\ p \notin gathered \cup freed
  /\ UNCHANGED total
  /\ IF Cardinality(gathered) + 1 = total
     THEN gathered' = {} /\ freed' = freed \cup gathered \cup {p}
     ELSE gathered' = gathered \cup {p} /\ UNCHANGED freed

Leave(p) ==
  /\ p \in freed
  /\ freed' = freed \ {p} /\ UNCHANGED << total, gathered >>

Next == \E p \in Parties : Arrive(p) \/ Leave(p)

Spec == Init /\ [][Next]_vars /\ \A p \in Parties : WF_vars(Leave(p))
=============================================================================
