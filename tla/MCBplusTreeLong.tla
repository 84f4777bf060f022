--------------------------- MODULE MCBplusTreeLong ---------------------------
(***************************************************************************)
(* Trees explored after a script of calls, which brings the tree to three  *)
(* levels, or fills the table of terminal nodes with freed ones, without   *)
(* the states of every other way there: k is Set(k, 1), -k is RemoveKey(k) *)
(* and 0 is Commit.                                                        *)
(***************************************************************************)
EXTENDS BplusTreeLong

VARIABLE todo          \* the calls of the script that are left

(* The scripts of one run make the same number of changes: the first ones  *)
(* set key 1 again and again.                                              *)
Padded(len, script) ==
  [i \in 1 .. len - Len(SelectSeq(script, LAMBDA c : c # 0)) |-> 1] \o script

Again(n, script) == FoldLeft(\o, <<>>, [i \in 1 .. n |-> script])

(* A committed tree of three levels with a transaction under way; a table  *)
(* of terminal nodes full of live and freed ones, the oldest alive.  With  *)
(* wider nodes, a root that was split, and one whose leaves then merged.   *)
Scripts(n) ==
  IF n = 2 THEN {Padded(16, <<1, 2, 3, 4, 5, 0, -2, 2>>),
                 Padded(16, <<1, 2, 3, 4>> \o Again(3, <<-4, -3, 3, 4>>))}
  ELSE {Padded(16, <<1, 2, 3, 4, 5, 0>>), Padded(16, <<1, 2, 3, 4, 5, 0, -1>>)}

MCInit == Init /\ todo \in Scripts(NodeSize)

Call(c) == CASE c > 0 -> Set(c, 1) [] c < 0 -> RemoveKey(- c) [] OTHER -> Commit

Scripted == /\ todo # <<>>
            /\ Call(Head(todo)) /\ open' /\ todo' = Tail(todo)

MCNext == Scripted \/ (todo = <<>> /\ Next /\ UNCHANGED todo)

MCSpec == MCInit /\ [][MCNext]_<<vars, todo>>
=============================================================================
