----------------------------- MODULE MCBruinbase -----------------------------
(***************************************************************************)
(* The index of Bruinbase by itself, and the SQL engine over it, with      *)
(* pages of four entries.  The stack that open reads for a new file holds  *)
(* zeros, and so does a cursor that was not set.                           *)
(***************************************************************************)
EXTENDS SqlEngine

MCGarbage == {[count |-> 0, end |-> 0]}
MCCursors == {[pid |-> 0, eid |-> 0]}

(* A file of three rows, and every comparison of the key with one of them. *)
MCLoadFiles == {[i \in 1 .. 3 |-> [key |-> i, value |-> 1]]}
MCConds == [attr : {1}, comp : {"EQ", "NE", "LT", "GT", "LE", "GE"}, value : {1}]

IndexNext ==
  /\ Next
  /\ UNCHANGED <<table, hasTable, hasIndex, loading, lines, query, faults>>

IndexSpec == SqlInit /\ [][IndexNext]_sqlVars
SqlSpec == SqlInit /\ [][SqlNext]_sqlVars
=============================================================================
