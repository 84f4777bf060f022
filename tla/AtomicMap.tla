------------------------------ MODULE AtomicMap ------------------------------
(***************************************************************************)
(* What an index of BplusDotNet promises (ITreeIndex.cs): a map from keys  *)
(* to values changed by transactions.  Changes are seen at once by the     *)
(* process that makes them, become permanent all together at a commit and  *)
(* go all together at an abort or when the process dies.                   *)
(***************************************************************************)
CONSTANTS Keys, Vals

VARIABLES
  committed,  \* the map that the next process would find
  working     \* the map as this process sees it

amvars == <<committed, working>>

Maps == UNION { [S -> Vals] : S \in SUBSET Keys }

Put(m, k, v) == [x \in DOMAIN m \cup {k} |-> IF x = k THEN v ELSE m[x]]
Remove(m, k) == [x \in DOMAIN m \ {k} |-> m[x]]

(* An index in use: any two maps.                                          *)
Init == committed \in Maps /\ working \in Maps

(* What one call makes of a map.                                           *)
Changes(m) ==
  { Put(m, k, v) : k \in Keys, v \in Vals } \cup { Remove(m, k) : k \in DOMAIN m }

(* A Set or a RemoveKey; a commit; an abort, a shutdown or a death of the  *)
(* process.  The maps are named so that TLC computes them once a step when *)
(* they stand for a tree.                                                  *)
Next ==
  LET disk == committed  diskAfter == committed'
      seen == working    seenAfter == working'
  IN  \/ diskAfter = disk /\ seenAfter \in Changes(seen)
      \/ diskAfter = seen /\ seenAfter = seen
      \/ diskAfter = disk /\ seenAfter = disk

Spec == Init /\ [][Next]_amvars
=============================================================================
