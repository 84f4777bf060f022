------------------------------- MODULE BTree --------------------------------
(***************************************************************************)
(* The index of btree.1.1, src/btree.c: a B-tree whose nodes are blocks of *)
(* the block file handler (Bfh.tla), with keys in every node and a right   *)
(* child beside each key.  The path from the root to the active node is    *)
(* held in memory in the hierarchy, one slot per level; a changed node     *)
(* stays in its slot, dirty, until another node needs the slot or          *)
(* FlushHierarchy runs, and a slot keeps its copy after the flush, to be   *)
(* reused when the same block is wanted at the same level.                 *)
(*                                                                         *)
(* One call of the library is one action: the index has one client at a    *)
(* time, which the lock of the block file ensures.  A call is an operator  *)
(* from the tree before it to the tree after it.  Only the keys are        *)
(* modelled, not the user data beside them, and keys of a fixed length     *)
(* (LONG_KEY), so that a node's capacity is a number of keys.              *)
(***************************************************************************)
EXTENDS Integers, FiniteSets, SequencesExt

CONSTANTS Key,         \* the keys the client calls with: numbers (long_compare)
          Preload,     \* the keys inserted, in this order, before the run starts
          InsertCap,   \* keys in a block_size of data: 169 in a block of 4096
          CombineCap,  \* keys in KeySpace, where Combine measures: 170
          Levels,      \* bound: slots of the hierarchy
          Duplicates,  \* the tree was created with dups
          MaxHeld      \* bound: keys in the tree at a time

NoNode == -1

ASSUME BTreeAssumption ==
  /\ Key \subseteq Nat /\ IsFiniteSet(Key) /\ Preload \in Seq(Nat)
  /\ InsertCap \in Nat /\ InsertCap >= 5
  /\ CombineCap \in {InsertCap, InsertCap + 1}
  /\ Levels \in Nat \ {0} /\ MaxHeld \in Nat
  /\ Duplicates \in BOOLEAN

VARIABLES
  tree,   \* the descriptor, the hierarchy and the block file behind them
  held    \* history: how many of each key were inserted and not deleted

btreeVars == <<tree, held>>

(* struct Node and struct KeyGroup without their data.                     *)
EmptyNode == [left |-> NoNode, keys |-> <<>>]
NoSlot == [id |-> NoNode, dirty |-> FALSE, node |-> EmptyNode]
NoHierarchy == [level \in 0 .. Levels - 1 |-> NoSlot]

(***************************************************************************)
(* OpenBtree with CREATE.  The file: what its blocks hold (block b is the  *)
(* member b + 1), which of them are in use, the free list.  vec, pos,      *)
(* past, split and ok are what a call leaves for itself: the level and the *)
(* position of the active key, past_exact_key, rootsplit and the returned  *)
(* status.                                                                 *)
(***************************************************************************)
Created ==
  [file |-> <<>>, used |-> {}, free |-> <<>>,
   root |-> 0, levels |-> 0, count |-> 0, exhausted |-> TRUE,
   hier |-> NoHierarchy, flush |-> 0, stale |-> NoNode,
   vec |-> -1, pos |-> 1, past |-> FALSE, split |-> FALSE, ok |-> TRUE]

(* Between calls vec and its companions are dead: every call modelled here *)
(* sets them before it reads them.                                         *)
AtRest(s) == [s EXCEPT !.vec = -1, !.pos = 1, !.past = FALSE, !.split = FALSE, !.ok = TRUE]

Failed(s) == [s EXCEPT !.ok = FALSE]

-----------------------------------------------------------------------------
(* The block file, as Bfh.tla has it: the free list is taken at its head.  *)
NewBlockOf(s) == IF s.free = <<>> THEN Len(s.file) ELSE Head(s.free)

BfhNewBlock(s) ==
  [s EXCEPT !.free = IF @ = <<>> THEN @ ELSE Tail(@),
            !.file = IF s.free = <<>> THEN Append(@, EmptyNode) ELSE @,
            !.used = @ \cup {NewBlockOf(s)}]

BfhReadBlock(s, b) == s.file[b + 1]

BfhWriteBlock(s, b, node) ==
  IF b \in s.used THEN [s EXCEPT !.file[b + 1] = node] ELSE Failed(s)

BfhFreeBlock(s, b) ==
  [s EXCEPT !.free = IF @ # <<>> /\ b <= Head(@) THEN <<b>> \o @ ELSE Append(@, b),
            !.file[b + 1] = EmptyNode,
            !.used = @ \ {b}]

-----------------------------------------------------------------------------
(* The active node, the active key, and the child on the left of it.       *)
Node(s) == s.hier[s.vec].node
Keys(s) == Node(s).keys
LeftOf(node, pos) == IF pos = 1 THEN node.left ELSE node.keys[pos - 1].right
Left(s) == LeftOf(Node(s), s.pos)
At(s, pos) == [s EXCEPT !.pos = pos]

(* The active node is changed in its slot.                                 *)
Change(s, node) == [s EXCEPT !.hier[s.vec].node = node, !.hier[s.vec].dirty = TRUE]

InsertNodeKeyGroup(s, group) ==
  IF Len(Keys(s)) >= InsertCap THEN Failed(s)
  ELSE Change(s, [Node(s) EXCEPT !.keys = InsertAt(@, s.pos, group)])

DeleteNodeKeyGroup(s) == Change(s, [Node(s) EXCEPT !.keys = RemoveAt(@, s.pos)])

(* The first position in 1..Len+1 at which the key passes the test.        *)
FirstPosition(keys, Test(_)) ==
  LET i == SelectInSeq(keys, Test) IN IF i = 0 THEN Len(keys) + 1 ELSE i

NotBelow(keys, k) == FirstPosition(keys, LAMBDA g : k <= g.k)
Above(keys, k) == FirstPosition(keys, LAMBDA g : k < g.k)
PositionOf(keys, child) == FirstPosition(keys, LAMBDA g : g.right = child)

(***************************************************************************)
(* LoadHierarchyNode: the next level's slot becomes the active node.  What *)
(* the slot held is written first if it is dirty and another block; if it  *)
(* holds the wanted block already, that copy is used.  `stale' is history: *)
(* the deepest level at which a clean copy was used that is not what the   *)
(* file holds.                                                             *)
(***************************************************************************)
SlotAt(s) == s.hier[s.vec]

Evict(s, n) ==
  IF SlotAt(s).dirty /\ SlotAt(s).id # n THEN BfhWriteBlock(s, SlotAt(s).id, SlotAt(s).node) ELSE s

Stale(s) == ~SlotAt(s).dirty /\ (SlotAt(s).id \in s.used => BfhReadBlock(s, SlotAt(s).id) # SlotAt(s).node)

Reuse(s) == [s EXCEPT !.stale = IF Stale(s) /\ @ < s.vec THEN s.vec ELSE @]

FetchNode(s, n) ==
  IF n \in s.used
  THEN [s EXCEPT !.hier[s.vec] = [id |-> n, dirty |-> FALSE, node |-> BfhReadBlock(s, n)]]
  ELSE Failed(s)

Reach(s, n) ==
  IF ~s.ok THEN s
  ELSE [(IF SlotAt(s).id = n THEN Reuse(s) ELSE FetchNode(s, n))
        EXCEPT !.flush = IF @ < s.vec + 1 THEN s.vec + 1 ELSE @]

LoadHierarchyNode(s, n) == Reach(Evict([s EXCEPT !.vec = @ + 1, !.pos = 1], n), n)

Parent(s) == [s EXCEPT !.vec = @ - 1, !.pos = 1]

(***************************************************************************)
(* FlushHierarchy, compiled with COMPRESS: the slots are written from the  *)
(* root down, and a child that lies above the head of the free list is     *)
(* first moved down into that free block (a child's id is its offset plus  *)
(* 1, so that `>' of the code is `>=' of the block numbers).               *)
(***************************************************************************)
(* Mutant: the parent does not remember that its child has moved.          *)
Bug_ParentClean(s, p) ==
  LET child == s.hier[p + 1].id
      to == NewBlockOf(s)
  IN IF p + 1 < s.flush /\ s.free # <<>> /\ child >= Head(s.free)
     THEN [BfhFreeBlock(BfhNewBlock(s), child) EXCEPT
             !.hier[p + 1].id = to, !.hier[p + 1].dirty = TRUE]
     ELSE s

Exchange(s, p) ==
  LET child == s.hier[p + 1].id
      node == s.hier[p].node
      i == PositionOf(node.keys, child)
      to == NewBlockOf(s)
      moved == IF node.left = child THEN [node EXCEPT !.left = to]
               ELSE [node EXCEPT !.keys[i].right = to]
  IN IF /\ p + 1 < s.flush
        /\ s.free # <<>> /\ child >= Head(s.free)
        /\ node.left = child \/ i <= Len(node.keys)
     THEN [BfhFreeBlock(BfhNewBlock(s), child) EXCEPT
             !.hier[p].node = moved, !.hier[p].dirty = TRUE,
             !.hier[p + 1].id = to, !.hier[p + 1].dirty = TRUE]
     ELSE s

Save(s, p) ==
  LET t == BfhWriteBlock(s, s.hier[p].id, s.hier[p].node)
  IN IF s.hier[p].dirty THEN [t EXCEPT !.hier[p].dirty = ~t.ok] ELSE s

RECURSIVE FlushFrom(_, _)
FlushFrom(s, p) ==
  IF ~s.ok THEN s
  ELSE IF p >= s.flush THEN [s EXCEPT !.vec = -1, !.flush = 0]
  ELSE FlushFrom(Save(Exchange(s, p), p), p + 1)

FlushHierarchy(s) == FlushFrom(s, 0)

-----------------------------------------------------------------------------
(***************************************************************************)
(* LocateExact: down from the root to the first node that holds the key.   *)
(***************************************************************************)
RECURSIVE DescendExact(_, _, _)
DescendExact(s, n, k) ==
  LET t == LoadHierarchyNode(s, n)
      u == At(t, NotBelow(Keys(t), k))
  IN IF ~t.ok \/ Keys(t) = <<>> THEN Failed(t)
     ELSE IF u.pos <= Len(Keys(u)) /\ Keys(u)[u.pos].k = k THEN u
     ELSE IF Left(u) = NoNode THEN Failed(u)
     ELSE DescendExact(u, Left(u), k)

LocateExact(s, k) ==
  IF s.exhausted THEN Failed(s) ELSE DescendExact([s EXCEPT !.vec = -1], s.root, k)

(***************************************************************************)
(* LocateInsert: down to the given level (-1: to a leaf).  A key equal to  *)
(* the first key of a node goes unnoticed, any other sets past.  An empty  *)
(* root counts as an exact match.                                          *)
(***************************************************************************)
RECURSIVE DescendInsert(_, _, _, _)
DescendInsert(s, n, k, level) ==
  LET t == LoadHierarchyNode(s, n)
      p == Above(Keys(t), k)
      u == [t EXCEPT !.pos = p, !.past = @ \/ \E i \in 2 .. p - 1 : Keys(t)[i].k = k]
  IN IF ~t.ok THEN t
     ELSE IF Keys(t) = <<>>
     THEN IF n = t.root THEN [t EXCEPT !.past = TRUE] ELSE Failed(t)
     ELSE IF u.vec = level \/ Left(u) = NoNode THEN u
     ELSE DescendInsert(u, Left(u), k, level)

LocateInsert(s, k, level) ==
  DescendInsert([s EXCEPT !.vec = -1, !.past = FALSE], s.root, k, level)

PutNew(s, node) == BfhWriteBlock(BfhNewBlock(s), NewBlockOf(s), node)

(* Insert into an exhausted tree: the key alone in a new root.             *)
InsertFirst(s, group) ==
  LoadHierarchyNode([PutNew(s, [left |-> NoNode, keys |-> <<group>>])
                     EXCEPT !.root = NewBlockOf(s), !.levels = 1],
                    NewBlockOf(s))

(* A full node is split at its middle key.                                 *)
Middle(keys) == keys[Len(keys) \div 2 + 1]

(* Mutant: the lower half keeps the middle key.                            *)
Bug_MiddleTwice(keys) == SubSeq(keys, 1, Len(keys) \div 2 + 1)

Lower(keys) == SubSeq(keys, 1, Len(keys) \div 2)
Upper(keys) == SubSeq(keys, Len(keys) \div 2 + 2, Len(keys))

UpperNode(keys) == [left |-> Middle(keys).right, keys |-> Upper(keys)]

(***************************************************************************)
(* Insert, root full: its halves move to two new blocks, and the middle    *)
(* key stays in the root.                                                  *)
(***************************************************************************)
SplitRoot(s) ==
  LET t == PutNew(s, [left |-> Node(s).left, keys |-> Lower(Keys(s))])
      root == [left |-> NewBlockOf(s),
               keys |-> <<[k |-> Middle(Keys(s)).k, right |-> NewBlockOf(t)]>>]
  IN [FlushHierarchy(Change(PutNew(t, UpperNode(Keys(s))), root))
      EXCEPT !.levels = @ + 1, !.split = TRUE]

RECURSIVE Insert(_, _, _)

PlaceAbove(keys, k) == IF k < keys[1].k THEN 1 ELSE 1 + NotBelow(Tail(keys), k)

InsertAbove(s, group) ==
  IF Keys(s) = <<>> THEN Failed(s)
  ELSE IF Len(Keys(s)) < InsertCap
  THEN InsertNodeKeyGroup(At(s, PlaceAbove(Keys(s), group.k)), group)
  ELSE Insert(s, group, s.vec)

(***************************************************************************)
(* Insert, another node full: the keys above the middle move to a new      *)
(* block, and the middle key goes up to the parent, which may split too.   *)
(***************************************************************************)
SplitNode(s) ==
  InsertAbove(Parent(Change(PutNew(s, UpperNode(Keys(s))),
                            [Node(s) EXCEPT !.keys = Lower(@)])),
              [k |-> Middle(Keys(s)).k, right |-> NewBlockOf(s)])

Retry(s, group, level) == IF s.ok THEN Insert(FlushHierarchy(s), group, level) ELSE s

InsertThere(s, group, level) ==
  IF ~s.ok \/ (s.past /\ ~Duplicates) THEN Failed(s)
  ELSE IF Len(Keys(s)) < InsertCap THEN InsertNodeKeyGroup(s, group)
  ELSE IF Len(Keys(s)) < 5 THEN Failed(s)
  ELSE Retry(IF s.vec = 0 THEN SplitRoot(s) ELSE SplitNode(s), group, level)

(* Once the root was split, the level an insert was meant for is one lower.*)
Adjusted(s, level) == IF level # -1 /\ s.split THEN level + 1 ELSE level

Insert(s, group, level) ==
  IF s.exhausted THEN InsertFirst(s, group)
  ELSE InsertThere(LocateInsert(s, group.k, Adjusted(s, level)), group, Adjusted(s, level))

Added(s) == IF s.ok THEN [s EXCEPT !.count = @ + 1, !.exhausted = FALSE] ELSE s

InsertKey(s, k) ==
  Added(Insert([s EXCEPT !.split = FALSE], [k |-> k, right |-> NoNode], -1))

-----------------------------------------------------------------------------
(***************************************************************************)
(* Combine: the active node and its right sibling, or its left one if it   *)
(* is the last child.  Too much for one node: a key moves through the      *)
(* parent from the larger to the smaller if that has room.  Otherwise the  *)
(* two and the parent's key become one node; when that was the root's last *)
(* key, the node becomes the root.                                         *)
(***************************************************************************)
RoomToShift(n) == 5 * n < 4 * CombineCap

(* At the parent: the key between the child and its sibling.               *)
Between(node, child) ==
  IF node.left = child THEN 1
  ELSE IF PositionOf(node.keys, child) < Len(node.keys)
  THEN PositionOf(node.keys, child) + 1 ELSE Len(node.keys)

(* Another key takes the place of the one beside the child r.              *)
Separate(s, r, k) == Change(s, [Node(s) EXCEPT !.keys[PositionOf(Keys(s), r)].k = k])

Receive(s, group) == InsertNodeKeyGroup(At(s, NotBelow(Keys(s), group.k)), group)

(* Here and below s stands at the right sibling; l is the left block, ln   *)
(* and rn are the nodes, g is the parent's key between them.               *)
ShiftLeft(s, l, g, rn) ==
  LET freed == Change(s, [left |-> Head(rn.keys).right, keys |-> Tail(rn.keys)])
  IN Receive(LoadHierarchyNode(Separate(Parent(freed), g.right, Head(rn.keys).k), l),
             [k |-> g.k, right |-> rn.left])

ShiftRight(s, l, g, ln, rn) ==
  LET freed == Change(LoadHierarchyNode(Parent(s), l), [ln EXCEPT !.keys = Front(@)])
      t == LoadHierarchyNode(Separate(Parent(freed), g.right, Last(ln.keys).k), g.right)
  IN InsertNodeKeyGroup(Change(t, [rn EXCEPT !.left = Last(ln.keys).right]),
                        [k |-> g.k, right |-> rn.left])

(* The combined node's block is given up, and the node becomes the root's. *)
BecomeRoot(s) ==
  [BfhFreeBlock(s, SlotAt(s).id) EXCEPT
     !.hier[0] = NoSlot, !.hier[s.vec].id = s.root, !.levels = @ - 1]

DropKey(s, r) == DeleteNodeKeyGroup(At(s, PositionOf(Keys(s), r)))

Detach(s, r) ==
  IF s.vec = 1 /\ Len(Keys(Parent(s))) = 1 THEN BecomeRoot(s) ELSE DropKey(Parent(s), r)

(* Mutant: the block of the right sibling is not freed.                    *)
Bug_Leak(s, l, g, ln, rn) ==
  LET node == [ln EXCEPT !.keys = @ \o <<[k |-> g.k, right |-> rn.left]>> \o rn.keys]
  IN FlushHierarchy(Detach(Change(LoadHierarchyNode(Parent(s), l), node), g.right))

Merge(s, l, g, ln, rn) ==
  LET node == [ln EXCEPT !.keys = @ \o <<[k |-> g.k, right |-> rn.left]>> \o rn.keys]
  IN FlushHierarchy(
       Detach(BfhFreeBlock(Change(LoadHierarchyNode(Parent(s), l), node), g.right), g.right))

Balance(s, l, g, ln, rn) ==
  LET nl == Len(ln.keys)
      nr == Len(rn.keys)
  IN IF nl + 1 + nr <= CombineCap
     THEN IF nl < InsertCap THEN Merge(s, l, g, ln, rn) ELSE Failed(s)
     ELSE IF nr > 2 /\ nr > nl /\ RoomToShift(nl) THEN ShiftLeft(s, l, g, rn)
     ELSE IF nl > 2 /\ nr < nl /\ RoomToShift(nr) THEN ShiftRight(s, l, g, ln, rn)
     ELSE [s EXCEPT !.ok = nl >= 2 /\ nr >= 2]

WithRight(p, s) ==
  LET t == LoadHierarchyNode(Parent(s), Keys(p)[p.pos].right)
  IN IF s.ok /\ t.ok THEN Balance(t, Left(p), Keys(p)[p.pos], Node(s), Node(t)) ELSE Failed(s)

WithLeft(p) == WithRight(p, LoadHierarchyNode(p, Left(p)))

Combine(s) ==
  IF s.vec < 1 THEN Failed(s)
  ELSE WithLeft(At(Parent(s), Between(Node(Parent(s)), SlotAt(s).id)))

(* CombineAll: level by level up to the children of the root.              *)
RECURSIVE CombineAll(_)
CombineAll(s) ==
  LET t == Combine(s)
  IN IF ~t.ok THEN [t EXCEPT !.ok = TRUE]
     ELSE IF s.vec = 1 THEN [t EXCEPT !.vec = 0]
     ELSE CombineAll([t EXCEPT !.vec = s.vec - 1, !.pos = 1])

RECURSIVE DescendLeft(_, _)
DescendLeft(s, n) ==
  LET t == LoadHierarchyNode(s, n)
  IN IF ~t.ok \/ Left(t) = NoNode THEN t ELSE DescendLeft(t, Left(t))

(***************************************************************************)
(* RemoveNodeKeyGroup: a key of an interior node is replaced by the least  *)
(* key below it on its right, after the leaf that loses it was balanced.   *)
(***************************************************************************)
ReplaceKey(s, k) ==
  IF s.ok THEN Change(s, [Node(s) EXCEPT !.keys[s.pos].k = k]) ELSE s

TakeLeast(leaf, k) ==
  IF leaf.ok
  THEN ReplaceKey(LocateExact(FlushHierarchy(CombineAll(DeleteNodeKeyGroup(leaf))), k),
                  Keys(leaf)[1].k)
  ELSE leaf

RemoveNodeKeyGroup(s) ==
  TakeLeast(DescendLeft(s, Keys(s)[s.pos].right), Keys(s)[s.pos].k)

(***************************************************************************)
(* DeleteKey: the key of a leaf is deleted there; with the last key of the *)
(* tree the root's block goes, but its slot of the hierarchy stays.        *)
(***************************************************************************)
Removed(s) == IF s.ok THEN [s EXCEPT !.count = @ - 1] ELSE s

Exhaust(s) ==
  [BfhFreeBlock(s, s.root) EXCEPT !.exhausted = TRUE, !.levels = 0, !.hier[0].dirty = FALSE]


(* Mutant: a leaf may run empty.                                           *)
Bug_NoCombine(s) == IF s.count = 0 THEN Exhaust(s) ELSE s

Shrink(s) == IF s.count = 0 THEN Exhaust(s) ELSE IF s.vec > 0 THEN CombineAll(s) ELSE s

DeleteHere(s) ==
  IF Keys(s)[s.pos].right = NoNode THEN Shrink(Removed(DeleteNodeKeyGroup(s)))
  ELSE Removed(RemoveNodeKeyGroup(s))

DeleteFound(s) == IF s.ok THEN FlushHierarchy(DeleteHere(s)) ELSE s

DeleteKey(s, k) == DeleteFound(LocateExact(s, k))

-----------------------------------------------------------------------------
FirstKey(s) == DescendLeft(FlushHierarchy(s), s.root)

RECURSIVE DescendRight(_, _)
DescendRight(s, n) ==
  LET t == LoadHierarchyNode(s, n)
      u == At(t, Len(Keys(t)))
  IN IF ~t.ok \/ Keys(t) = <<>> THEN Failed(t)
     ELSE IF Keys(u)[u.pos].right = NoNode THEN u ELSE DescendRight(u, Keys(u)[u.pos].right)

LastKey(s) == DescendRight(FlushHierarchy(s), s.root)

(* Up from the last key of a node to the first ancestor with a key on the  *)
(* right of the path.                                                      *)
(* Mutant: the walk ends with the first node whose keys are used up.       *)
Bug_StopAtEnd(s) == Failed(s)

RECURSIVE AscendRight(_)
AscendRight(s) ==
  LET t == Parent(s)
      child == s.hier[s.vec].id
      u == At(t, IF Node(t).left = child THEN 1 ELSE PositionOf(Keys(t), child) + 1)
  IN IF s.vec < 1 THEN Failed(s)
     ELSE IF u.pos <= Len(Keys(u)) THEN u ELSE AscendRight(u)

Increment(s) ==
  LET right == Keys(s)[s.pos].right
  IN IF right # NoNode THEN DescendLeft(s, right)
     ELSE IF s.pos < Len(Keys(s)) THEN At(s, s.pos + 1) ELSE AscendRight(s)

RECURSIVE AscendLeft(_)
AscendLeft(s) ==
  LET t == Parent(s)
      child == s.hier[s.vec].id
  IN IF s.vec < 1 THEN Failed(s)
     ELSE IF Node(t).left = child THEN AscendLeft(t) ELSE At(t, PositionOf(Keys(t), child))

Decrement(s) ==
  IF Left(s) # NoNode THEN DescendRight(s, Left(s))
  ELSE IF s.pos > 1 THEN At(s, s.pos - 1) ELSE AscendLeft(s)

-----------------------------------------------------------------------------
Occurrences(seq, k) == Cardinality({i \in DOMAIN seq : seq[i] = k})

AllKeys == Key \cup ToSet(Preload)
Held == {k \in AllKeys : held[k] > 0}
NHeld == FoldFunctionOnSet(+, 0, held, AllKeys)

(* A new tree that took the keys of Preload one after the other.           *)
BTreeInit ==
  /\ tree = FoldLeft(LAMBDA s, k : AtRest(InsertKey(s, k)), Created, Preload)
  /\ held = [k \in AllKeys |-> Occurrences(Preload, k)]

(* What a session does after it used a stale copy, or after a tree without *)
(* dups took a duplicate, is not explored.                                 *)
Usable == /\ tree.stale = NoNode
          /\ Duplicates \/ \A k \in AllKeys : held[k] <= 1

DoInsertKey(k) ==
  /\ Usable /\ NHeld < MaxHeld
  /\ LET t == InsertKey(tree, k) IN
       /\ tree' = AtRest(t)
       /\ held' = IF t.ok THEN [held EXCEPT ![k] = @ + 1] ELSE held

DoDeleteKey(k) ==
  /\ Usable /\ ~tree.exhausted
  /\ LET t == DeleteKey(tree, k) IN
       /\ tree' = AtRest(t)
       /\ held' = IF t.ok THEN [held EXCEPT ![k] = @ - 1] ELSE held

DoLocate(k) ==
  /\ Usable /\ ~tree.exhausted
  /\ tree' = AtRest(LocateExact(tree, k))
  /\ UNCHANGED held

DoFirst ==
  /\ Usable /\ ~tree.exhausted
  /\ tree' = AtRest(FirstKey(tree))
  /\ UNCHANGED held

DoLast ==
  /\ Usable /\ ~tree.exhausted
  /\ tree' = AtRest(LastKey(tree))
  /\ UNCHANGED held

(***************************************************************************)
(* Close, then OpenBtree of the same file: the hierarchy is flushed and    *)
(* forgotten.  Only when BfhClose has no free block at the end of the file *)
(* to cut off; what it does when it has is Bfh.tla's subject.              *)
(***************************************************************************)
ClosedTree(s) == [FlushHierarchy(s) EXCEPT !.hier = NoHierarchy]

Reopen ==
  /\ Usable
  /\ LET t == ClosedTree(tree) IN
       /\ t.file # <<>> => Len(t.file) - 1 \in t.used
       /\ tree' = AtRest(t)
  /\ UNCHANGED held

BTreeNext ==
  \/ \E k \in Key : DoInsertKey(k) \/ DoDeleteKey(k) \/ DoLocate(k)
  \/ DoFirst \/ DoLast \/ Reopen

BTreeSpec == BTreeInit /\ [][BTreeNext]_btreeVars

-----------------------------------------------------------------------------
IsNode(node) ==
  /\ node.left \in {NoNode} \cup Nat
  /\ \A i \in DOMAIN node.keys : node.keys[i].k \in AllKeys /\ node.keys[i].right \in {NoNode} \cup Nat

(***************************************************************************)
(* The types; every block of the file is in use or on the free list, once; *)
(* no slot beyond the tree's levels waits to be flushed.                   *)
(***************************************************************************)
BTreeTypeOK ==
  /\ \A b \in DOMAIN tree.file : IsNode(tree.file[b])
  /\ IsInjective(tree.free)
  /\ ToSet(tree.free) \cap tree.used = {}
  /\ ToSet(tree.free) \cup tree.used = 0 .. Len(tree.file) - 1
  /\ tree.levels \in 0 .. Levels /\ tree.stale \in -1 .. Levels - 1
  /\ tree.exhausted \in BOOLEAN /\ tree.exhausted <=> tree.count = 0
  /\ tree.flush \in 0 .. tree.levels
  /\ \A v \in 0 .. Levels - 1 :
       /\ tree.hier[v].dirty \in BOOLEAN /\ tree.hier[v].dirty => v < tree.flush
       /\ IsNode(tree.hier[v].node)
  /\ held \in [AllKeys -> Nat]

(* What a reader coming from the root finds at a level: the hierarchy's    *)
(* copy if it has one, otherwise the file's.                               *)
View(s, level, b) ==
  IF s.hier[level].id = b THEN s.hier[level].node ELSE BfhReadBlock(s, b)

Children(node) == <<node.left>> \o [i \in DOMAIN node.keys |-> node.keys[i].right]

(* The keys below a block, in order of position.                           *)
RECURSIVE InOrder(_, _, _)
InOrder(s, level, b) ==
  IF b = NoNode THEN <<>>
  ELSE LET node == View(s, level, b)
           below == [c \in DOMAIN Children(node) |-> InOrder(s, level + 1, Children(node)[c])]
       IN FoldLeftDomain(LAMBDA done, i : done \o <<node.keys[i].k>> \o below[i + 1],
                         below[1], node.keys)

KeysInOrder(s) == IF s.exhausted THEN <<>> ELSE InOrder(s, 0, s.root)

Sorted(seq) == \A i, j \in DOMAIN seq : i < j => seq[i] <= seq[j]

(***************************************************************************)
(* The keys in the tree are those inserted and not deleted, in order, and  *)
(* number_of_keys counts them.                                             *)
(***************************************************************************)
HoldsKeys ==
  Usable => /\ Sorted(KeysInOrder(tree))
            /\ \A k \in AllKeys : Occurrences(KeysInOrder(tree), k) = held[k]
            /\ tree.count = NHeld

(* The blocks of the subtree below b, with repetitions, and their depths.  *)
RECURSIVE Blocks(_, _, _)
Blocks(s, level, b) ==
  IF b = NoNode THEN <<>>
  ELSE LET below == [c \in DOMAIN Children(View(s, level, b)) |->
                       Blocks(s, level + 1, Children(View(s, level, b))[c])]
       IN <<[id |-> b, level |-> level]>> \o FlattenSeq(below)

(***************************************************************************)
(* The blocks in use are the nodes of the tree, each with one parent: no   *)
(* split, merge or exchange leaks a block or shares one.  All leaves are   *)
(* at the depth search_levels says, no node but the root's is empty.       *)
(***************************************************************************)
WellShaped ==
  Usable /\ ~tree.exhausted =>
    LET nodes == Blocks(tree, 0, tree.root) IN
      /\ \A i, j \in DOMAIN nodes : nodes[i].id = nodes[j].id => i = j
      /\ {nodes[i].id : i \in DOMAIN nodes} = tree.used
      /\ \A i \in DOMAIN nodes :
           LET node == View(tree, nodes[i].level, nodes[i].id) IN
             /\ Len(node.keys) \in 1 .. CombineCap
             /\ \A c \in ToSet(Children(node)) :
                  c = NoNode <=> nodes[i].level = tree.levels - 1

(* Close flushes the hierarchy: the file alone then has every key.         *)
CloseSaves ==
  Usable => LET t == ClosedTree(tree)
            IN FlushHierarchy(tree).ok /\ KeysInOrder(t) = KeysInOrder(tree)

(***************************************************************************)
(* Locate finds every key held and no other; InsertKey takes every key not *)
(* held and DeleteKey every key held, unless they meet a stale copy.       *)
(***************************************************************************)
Answered(t) == t.ok \/ t.stale # NoNode

Answers ==
  Usable => \A k \in Key :
    IF k \in Held THEN LocateExact(tree, k).ok /\ Answered(DeleteKey(tree, k))
    ELSE ~LocateExact(tree, k).ok /\ Answered(InsertKey(tree, k))

RECURSIVE WalkUp(_), WalkDown(_)
WalkUp(s) == IF s.ok THEN <<Keys(s)[s.pos].k>> \o WalkUp(Increment(s)) ELSE <<>>
WalkDown(s) == IF s.ok THEN <<Keys(s)[s.pos].k>> \o WalkDown(Decrement(s)) ELSE <<>>

(* First and then Increment, Last and then Decrement, visit every key.     *)
WalksMeetAll ==
  Usable /\ ~tree.exhausted =>
    /\ WalkUp(FirstKey(tree)) = KeysInOrder(tree)
    /\ WalkDown(LastKey(tree)) = Reverse(KeysInOrder(tree))

-----------------------------------------------------------------------------
(***************************************************************************)
(* First: "Locate and return a pointer to the first key group in the tree" *)
(* (src/btree.c:967-968), when a key was inserted and not deleted.         *)
(***************************************************************************)
FirstIsThere ==
  Held # {} => LET t == FirstKey(tree) IN t.ok /\ Keys(t) # <<>>
=============================================================================
