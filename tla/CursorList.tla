----------------------------- MODULE CursorList -----------------------------
(***************************************************************************)
(* The doubly linked list of btree.1.1, src/dll.c, as its callers see it:  *)
(* a sequence with a current item, changed at its end or at the current    *)
(* item.  The cursor is 0 when the list is empty.  It is what the code     *)
(* does, not all its comments say: after a delete the item that follows is *)
(* current (dll.c:430-437), where the header of DLL_Delete (382-384) has   *)
(* the one before (PriorAfterDelete of DoublyLinked, which fails).         *)
(***************************************************************************)
EXTENDS Naturals, Sequences

CONSTANT Data
VARIABLES items, cursor

Init == items = <<>> /\ cursor = 0

AtEnd(d) ==
  /\ cursor' = IF cursor = 0 THEN 1 ELSE cursor
  /\ items' = Append(items, d)

(* The current item stays the current one.                                 *)
BeforeCursor(d) ==
  /\ cursor # 0 /\ cursor' = cursor + 1
  /\ items' = SubSeq(items, 1, cursor - 1) \o <<d>> \o SubSeq(items, cursor, Len(items))

(* The item that follows becomes current; behind the last, the one before. *)
Deleted ==
  /\ cursor # 0
  /\ items' = SubSeq(items, 1, cursor - 1) \o SubSeq(items, cursor + 1, Len(items))
  /\ cursor' = IF cursor = Len(items) THEN cursor - 1 ELSE cursor

(* First, Next and Prev.                                                   *)
Moved ==
  /\ cursor # 0 /\ UNCHANGED items
  /\ cursor' \in {1, cursor + 1, cursor - 1} \cap DOMAIN items

Next == (\E d \in Data : AtEnd(d) \/ BeforeCursor(d)) \/ Deleted \/ Moved

Spec == Init /\ [][Next]_<<items, cursor>>
=============================================================================
