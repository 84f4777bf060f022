------------------------------ MODULE MCBTree -------------------------------
(***************************************************************************)
(* The index with nodes of five keys, either from an empty tree with every *)
(* order of calls, as the configuration has it, or from a tree of three    *)
(* levels with calls on a few keys.                                        *)
(***************************************************************************)
EXTENDS BTree

VARIABLE deep   \* which of the two, for the whole behaviour

MCEmpty == <<>>
Ascending(n) == [i \in 1 .. n |-> 2 * i]

(* Keys 6, 24 and 36 are in the first, a middle and the last leaf; one key *)
(* less than 21 would make two levels.                                     *)
Deep == INSTANCE BTree WITH Key <- {6, 24, 36}, Preload <- Ascending(21), MaxHeld <- 22

MCInit == deep \in BOOLEAN /\ IF deep THEN Deep!BTreeInit ELSE BTreeInit
MCNext ==
  \/ ~deep /\ BTreeNext /\ UNCHANGED deep
  \/ deep /\ Deep!BTreeNext /\ UNCHANGED deep
MCSpec == MCInit /\ [][MCNext]_<<btreeVars, deep>>

-----------------------------------------------------------------------------
\* First: "Locate and return a pointer to the first key group in the tree"
\* (src/btree.c:967-968), when a key was inserted and not deleted.
TreeFirstIsThere == IF deep THEN Deep!FirstIsThere ELSE FirstIsThere
=============================================================================
