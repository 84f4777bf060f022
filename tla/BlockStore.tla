----------------------------- MODULE BlockStore -----------------------------
(***************************************************************************)
(* What the block file handler of btree.1.1 (src/bfh.c) promises its       *)
(* clients: a store of numbered blocks, changed in sessions.  A block is   *)
(* in the store from the call that allocates it to the call that frees it, *)
(* and nothing but a write of its owner changes what it holds: not another *)
(* call, not the end of a session, not the next one.  How free space is    *)
(* recycled and the file truncated is not visible here.                    *)
(***************************************************************************)
CONSTANTS BlockId,    \* the names of blocks
          Content     \* what a block can hold

VARIABLES
  session,            \* "open", "closing" or "closed"
  store               \* the blocks in use, each with its content

vars == <<session, store>>

Empty == [{} -> Content]

Init == session = "open" /\ store \in Empty

InSession == session = "open" /\ UNCHANGED session

(***************************************************************************)
(* A block that is not in use is handed out; its first content is whatever *)
(* its bytes were before.                                                  *)
(***************************************************************************)
Allocate(b) ==
  /\ InSession
  /\ b \notin DOMAIN store
  /\ store' \in [DOMAIN store \cup {b} -> Content]
  /\ \A x \in DOMAIN store : store'[x] = store[x]

Write(b) ==
  /\ InSession
  /\ b \in DOMAIN store
  /\ store' \in [DOMAIN store -> Content]
  /\ \A x \in DOMAIN store \ {b} : store'[x] = store[x]

Release(b) ==
  /\ InSession
  /\ b \in DOMAIN store
  /\ store' = [x \in DOMAIN store \ {b} |-> store[x]]

CloseBegin == session = "open" /\ session' = "closing" /\ UNCHANGED store
CloseFinish == session = "closing" /\ session' = "closed" /\ UNCHANGED store
Open == session = "closed" /\ session' = "open" /\ UNCHANGED store

(* The client dies: the file is as it was, or is of no use any more.       *)
Crash ==
  /\ session \in {"open", "closing"}
  /\ session' = "closed"
  /\ UNCHANGED store \/ store' \in Empty

(* The file is thrown away and created anew.                               *)
Create == session = "closed" /\ session' = "open" /\ store' \in Empty

Next ==
  \/ \E b \in BlockId : Allocate(b) \/ Write(b) \/ Release(b)
  \/ CloseBegin \/ CloseFinish \/ Open \/ Crash \/ Create

Spec == Init /\ [][Next]_vars
=============================================================================
