--------------------------- MODULE MCWordsAndTree ---------------------------
(***************************************************************************)
(* The collector threads of the application, over a file of a few words    *)
(* saved in batches of two, and the index of btree.1.1 as MCBTree has it,  *)
(* under one configuration.  A behaviour is one of part's; the other's     *)
(* variables stay as they are, so every property may be read for its part  *)
(* alone.                                                                  *)
(***************************************************************************)
EXTENDS RootWords, MCBTree

CONSTANTS w1, w2

VARIABLE part

MCTwoWords == <<w1, w2>>

treeVars == <<btreeVars, deep>>

WordsOrTreeInit ==
  \/ part = "words" /\ Init /\ BTreeInit /\ deep = FALSE
  \/ part = "tree" /\ Init /\ table = FALSE /\ MCInit

WordsOrTreeNext ==
  \/ part = "words" /\ Next   /\ UNCHANGED <<part, treeVars>>
  \/ part = "tree"  /\ MCNext /\ UNCHANGED <<part, vars>>

(* In the tree's part no thread runs, and none has to go on.               *)
WordsOrTreeSpec ==
  /\ WordsOrTreeInit /\ [][WordsOrTreeNext]_<<part, vars, treeVars>>
  /\ \A t \in Thread : WF_vars(Step(t))

-----------------------------------------------------------------------------
\* The properties of the threads are RootWords'; these are the index's.

\* The keys in the tree are those inserted and not deleted, in order, and number_of_keys
\* counts them.
TreeHoldsKeys == part = "tree" => IF deep THEN Deep!HoldsKeys ELSE HoldsKeys

\* Every block in use is one node of a tree of even depth, every other one on the free list:
\* no split, merge or exchange leaks a block or shares one.
TreeWellShaped ==
  part = "tree" =>
    IF deep THEN Deep!BTreeTypeOK /\ Deep!WellShaped ELSE BTreeTypeOK /\ WellShaped

\* Locate finds every key held and no other, InsertKey takes every key not held and
\* DeleteKey every key held, unless they meet a stale copy.
TreeAnswers == part = "tree" => IF deep THEN Deep!Answers ELSE Answers

\* First and then Increment, Last and then Decrement, visit every key.
TreeWalksMeetAll == part = "tree" => IF deep THEN Deep!WalksMeetAll ELSE WalksMeetAll

\* Close flushes the hierarchy: the file alone then has every key.
TreeCloseSaves == part = "tree" => IF deep THEN Deep!CloseSaves ELSE CloseSaves
=============================================================================
