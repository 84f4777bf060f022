---------------------------- MODULE DoublyLinked ----------------------------
(***************************************************************************)
(* src/dll.c (btree.1.1): one doubly linked list with an active node.  The *)
(* nodes are malloc'd DLLCACHE at a time; those not in the list form a     *)
(* second list, of vacant nodes, linked by next.  Node 0 stands for NULL.  *)
(***************************************************************************)
EXTENDS Integers, Sequences, FiniteSets

CONSTANTS Data,
          DLLCACHE,   \* 100 in dll.c
          MaxNodes    \* bound: nodes malloc'd, after which malloc fails

ASSUME DllAssumption == DLLCACHE \in Nat \ {0} /\ MaxNodes \in Nat

VARIABLES
  DLL_head, DLL_tail, DLL_first_vacant, DLL_active_ptr, DLL_count, DLL_avail,
  node,       \* 1 .. nodes malloc'd -> prior, next and data
  state,      \* "running", or the call in which the process dies of a NULL
  refused     \* a malloc has failed

vars == <<DLL_head, DLL_tail, DLL_first_vacant, DLL_active_ptr, DLL_count,
          DLL_avail, node, state, refused>>

NULL == 0
Nodes == DOMAIN node

(* DLL_Create.                                                             *)
Init ==
  /\ DLL_head = NULL /\ DLL_tail = NULL
  /\ DLL_first_vacant = NULL /\ DLL_active_ptr = NULL
  /\ DLL_count = 0 /\ DLL_avail = 0
  /\ node = <<>> /\ state = "running" /\ refused = FALSE

-----------------------------------------------------------------------------
(* DLL_attach: the vacant list is made of DLLCACHE new nodes.  What it was *)
(* is lost, by a malloc that fails as well.  v is the vacant list's head,  *)
(* free the number of its nodes, n the nodes.                              *)
Attached(n) ==
  n \o [i \in 1 .. DLLCACHE |->
         [data |-> NULL,
          prior |-> IF i = 1 THEN NULL ELSE Len(n) + i - 1,
          next |-> IF i = DLLCACHE THEN NULL ELSE Len(n) + i + 1]]

CanMalloc(n) == Len(n) + DLLCACHE <= MaxNodes

(* The vacancy before an insertion: the nodes, the first one vacant, and   *)
(* the number of vacant ones.                                              *)
NeedsNodes == DLL_avail = 0 \/ DLL_first_vacant = NULL
Before ==
  IF NeedsNodes
  THEN [n |-> Attached(node), vacant |-> Len(node) + 1, avail |-> DLL_avail + DLLCACHE]
  ELSE [n |-> node, vacant |-> DLL_first_vacant, avail |-> DLL_avail]

(* The nodes with new node p linked behind the last or before the active.  *)
LinkedAtEnd(n, p, d) ==
  LET m == [n EXCEPT ![p] = [prior |-> DLL_tail, next |-> NULL, data |-> d]]
  IN  IF DLL_tail = NULL THEN m ELSE [m EXCEPT ![DLL_tail].next = p]

Bug_OneWay(n, p, d) ==
  [n EXCEPT ![p] = [prior |-> n[DLL_active_ptr].prior, next |-> DLL_active_ptr, data |-> d],
            ![DLL_active_ptr].prior = p]

LinkedBefore(n, p, d) ==
  LET q == n[DLL_active_ptr].prior
      m == [n EXCEPT ![p] = [prior |-> q, next |-> DLL_active_ptr, data |-> d],
                     ![DLL_active_ptr].prior = p]
  IN  IF q = NULL THEN m ELSE [m EXCEPT ![q].next = p]

(* When the last vacant node was taken, more are attached at once; if that *)
(* fails the call fails, with its node in the list.                        *)
Replenished(b, n) ==
  LET next == b.n[b.vacant].next
  IN  IF b.avail - 1 # 0
      THEN /\ node' = n /\ DLL_first_vacant' = next /\ DLL_avail' = b.avail - 1
           /\ UNCHANGED refused
      ELSE IF CanMalloc(n)
      THEN /\ node' = Attached(n) /\ DLL_first_vacant' = Len(n) + 1
           /\ DLL_avail' = DLLCACHE /\ UNCHANGED refused
      ELSE /\ node' = n /\ DLL_first_vacant' = NULL /\ DLL_avail' = 0
           /\ refused' = TRUE

(* DLL_Insert, with DLLADD or on an empty list, and with DLLINSERT.        *)
InsertAtEnd(d) ==
  LET b == Before  p == b.vacant IN
  /\ state = "running" /\ (NeedsNodes => CanMalloc(node))
  /\ Replenished(b, LinkedAtEnd(b.n, p, d))
  /\ DLL_count' = DLL_count + 1 /\ DLL_tail' = p
  /\ DLL_active_ptr' = IF DLL_active_ptr = NULL THEN p ELSE DLL_active_ptr
  /\ DLL_head' = IF DLL_count = 0 THEN p ELSE DLL_head
  /\ UNCHANGED state

InsertBefore(d) ==
  LET b == Before  p == b.vacant IN
  /\ state = "running" /\ (NeedsNodes => CanMalloc(node))
  /\ DLL_active_ptr # NULL
  /\ Replenished(b, LinkedBefore(b.n, p, d))
  /\ DLL_count' = DLL_count + 1
  /\ DLL_head' = IF node[DLL_active_ptr].prior = NULL THEN p ELSE DLL_head
  /\ UNCHANGED <<DLL_tail, DLL_active_ptr, state>>

InsertFails ==
  /\ state = "running" /\ NeedsNodes /\ ~ CanMalloc(node)
  /\ DLL_first_vacant' = NULL /\ refused' = TRUE
  /\ UNCHANGED <<DLL_head, DLL_tail, DLL_active_ptr, DLL_count, DLL_avail, node, state>>

-----------------------------------------------------------------------------
(* DLL_Delete: the neighbours are joined, the node goes to the front of    *)
(* the vacant list and the next node, or the prior one, becomes active.    *)
Joined(n, p) ==
  LET m == IF n[p].prior = NULL THEN n ELSE [n EXCEPT ![n[p].prior].next = n[p].next]
  IN  IF n[p].next = NULL THEN m ELSE [m EXCEPT ![n[p].next].prior = n[p].prior]

Vacated(n, p) ==
  [n EXCEPT ![p] = [prior |-> NULL, next |-> DLL_first_vacant, data |-> NULL],
            ![DLL_first_vacant].prior = p]

Delete ==
  LET p == DLL_active_ptr IN
  /\ state = "running" /\ p # NULL /\ DLL_count >= 1 /\ DLL_first_vacant # NULL
  /\ DLL_head' = IF node[p].prior = NULL THEN node[p].next ELSE DLL_head
  /\ DLL_tail' = IF node[p].next = NULL THEN node[p].prior ELSE DLL_tail
  /\ node' = Vacated(Joined(node, p), p)
  /\ DLL_first_vacant' = p
  /\ DLL_active_ptr' = IF node[p].next # NULL THEN node[p].next ELSE node[p].prior
  /\ DLL_avail' = DLL_avail + 1 /\ DLL_count' = DLL_count - 1
  /\ UNCHANGED <<state, refused>>

(* No node is vacant: hold_also, which it writes through, is NULL.         *)
DeleteDies ==
  /\ state = "running" /\ DLL_active_ptr # NULL /\ DLL_count >= 1
  /\ DLL_first_vacant = NULL
  /\ state' = "died in DLL_Delete"
  /\ UNCHANGED <<DLL_head, DLL_tail, DLL_first_vacant, DLL_active_ptr, DLL_count,
                 DLL_avail, node, refused>>

-----------------------------------------------------------------------------
MoveTo(p) ==
  /\ state = "running" /\ p # NULL /\ DLL_active_ptr' = p
  /\ UNCHANGED <<DLL_head, DLL_tail, DLL_first_vacant, DLL_count, DLL_avail, node,
                 state, refused>>

First == DLL_count # 0 /\ MoveTo(DLL_head)
NextOne == DLL_count # 0 /\ DLL_active_ptr # NULL /\ MoveTo(node[DLL_active_ptr].next)
Prev == DLL_active_ptr # NULL /\ MoveTo(node[DLL_active_ptr].prior)

(* DLL_Prev does not look whether there is an active node.                 *)
PrevDies ==
  /\ state = "running" /\ DLL_active_ptr = NULL /\ state' = "died in DLL_Prev"
  /\ UNCHANGED <<DLL_head, DLL_tail, DLL_first_vacant, DLL_active_ptr, DLL_count,
                 DLL_avail, node, refused>>

Next ==
  \/ \E d \in Data : InsertAtEnd(d) \/ InsertBefore(d)
  \/ InsertFails \/ Delete \/ DeleteDies \/ First \/ NextOne \/ Prev \/ PrevDies

Spec == Init /\ [][Next]_vars

-----------------------------------------------------------------------------
(* Where a walk by next or prior gets to from p: the place after k steps,  *)
(* k up to the number of nodes, and the nodes met.                         *)
Along(p, follow) ==
  LET at[k \in 0 .. Len(node)] == IF k = 0 THEN p ELSE follow[at[k - 1]] IN at
Met(at) == [i \in 1 .. Cardinality({ k \in DOMAIN at : at[k] # NULL }) |-> at[i - 1]]

Forward(p) ==
  Met(Along(p, [q \in {NULL} \cup Nodes |-> IF q = NULL THEN NULL ELSE node[q].next]))
Backward(p) ==
  Met(Along(p, [q \in {NULL} \cup Nodes |-> IF q = NULL THEN NULL ELSE node[q].prior]))

Listed == Forward(DLL_head)
InSeq(s) == { s[i] : i \in DOMAIN s }

TypeOK ==
  /\ {DLL_head, DLL_tail, DLL_first_vacant, DLL_active_ptr} \subseteq {NULL} \cup Nodes
  /\ DLL_count \in 0 .. MaxNodes /\ DLL_avail \in 0 .. MaxNodes
  /\ Len(node) \in 0 .. MaxNodes
  /\ \A p \in Nodes : /\ {node[p].prior, node[p].next} \subseteq {NULL} \cup Nodes
                      /\ node[p].data \in Data \cup {NULL}
  /\ state \in {"running", "died in DLL_Delete", "died in DLL_Prev"}
  /\ refused \in BOOLEAN

(* Walked from either end the list has the same nodes, as many as          *)
(* DLL_count, and the active one is among them.                            *)
LinksAgree ==
  LET l == Listed  b == Backward(DLL_tail)
  IN  /\ Len(l) = DLL_count /\ Len(b) = DLL_count
      /\ \A i \in 1 .. DLL_count : l[i] = b[DLL_count + 1 - i]
      /\ IF DLL_count = 0 THEN DLL_active_ptr = NULL ELSE DLL_active_ptr \in InSeq(l)

(* Every node malloc'd is in the list or vacant, never both: none leaks    *)
(* and none is handed out while it is in use, whatever fails.              *)
NoNodeLost ==
  LET free == Forward(DLL_first_vacant)
  IN  /\ InSeq(free) \cap InSeq(Listed) = {}
      /\ InSeq(free) \cup InSeq(Listed) = Nodes
      /\ Len(free) = DLL_avail

(* DLL_Delete meets an empty vacant list only after malloc has failed:     *)
(* DLL_Insert never leaves one otherwise.                                  *)
DiesOnlyOutOfMemory == state = "died in DLL_Delete" => refused

(* The list seen as a sequence with a cursor.                              *)
Contents == LET l == Listed IN [i \in DOMAIN l |-> node[l[i]].data]
Position == LET l == Listed IN
            IF DLL_active_ptr = NULL THEN 0
            ELSE CHOOSE i \in DOMAIN l : l[i] = DLL_active_ptr
List == INSTANCE CursorList WITH items <- Contents, cursor <- Position

(* That, and what the list is made of is sound: the two directions agree,  *)
(* no node is lost, and Delete dies only when a malloc has failed before.  *)
IsCursorList == List!Spec /\ [](TypeOK /\ LinksAgree /\ NoNodeLost /\ DiesOnlyOutOfMemory)

(***************************************************************************)
(* "The current active node becomes the prior node unless there is no      *)
(* prior node, then it becomes then next node on the list"                 *)
(* (src/dll.c:382-384, of DLL_Delete).                                     *)
(***************************************************************************)
PriorAfterDelete ==
  [][ DLL_count' < DLL_count =>
        Position' = IF Position > 1 THEN Position - 1 ELSE IF DLL_count' = 0 THEN 0 ELSE 1 ]_vars
=============================================================================
