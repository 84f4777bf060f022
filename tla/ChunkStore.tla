----------------------------- MODULE ChunkStore -----------------------------
(***************************************************************************)
(* What a linked file promises its caller (LinkedFile.cs of BplusDotNet):  *)
(* a store of chunks known by number.  A chunk reads as it was stored for  *)
(* as long as its owner knows the number and has not released it; what a   *)
(* Flush has covered also outlives the death of the process, and nothing   *)
(* but its owner ever takes a number away.                                 *)
(***************************************************************************)
CONSTANTS Ids,       \* the numbers of chunks
          Contents   \* what a chunk can hold

VARIABLES
  chunks,   \* the chunks somebody knows: number -> contents
  kept      \* the chunks that a crash leaves

csvars == <<chunks, kept>>

Without(f, id) == [x \in DOMAIN f \ {id} |-> f[x]]
Only(f, S) == [x \in S |-> f[x]]

Init == /\ chunks = [x \in {} |-> {}]
        /\ kept = {}

(* A chunk is stored under a number that nobody knows.                     *)
Store == \E id \in Ids \ DOMAIN chunks, c \in Contents :
           /\ chunks' = [x \in DOMAIN chunks \cup {id} |->
                           IF x = id THEN c ELSE chunks[x]]
           /\ UNCHANGED kept

(* A number is released, or forgotten by its owner.                        *)
Drop == \E id \in DOMAIN chunks :
          /\ chunks' = Without(chunks, id)
          /\ kept' = kept \ {id}

Flush == /\ kept' = DOMAIN chunks
         /\ UNCHANGED chunks

(* The process dies between two calls or inside one: a release it was      *)
(* making may count or not.                                                *)
Crash == \E gone \in {{}} \cup { {id} : id \in kept } :
           /\ kept' = kept \ gone
           /\ chunks' = Only(chunks, kept \ gone)

Next == Store \/ Drop \/ Flush \/ Crash

Spec == Init /\ [][Next]_csvars
=============================================================================
