----------------------------- MODULE BTreeIndex -----------------------------
(***************************************************************************)
(* Bruinbase's index (BTreeIndex.cc, BTreeNode.cc): a B+ tree from integer *)
(* keys to record identifiers in the pages of a PageFile.  A page is       *)
(* [count, end, list]; an entry of a leaf is a key with the record's page  *)
(* and slot, an entry of a non-leaf a key with a child page, at the same   *)
(* place of the page, so a page of one kind can be read as the other.      *)
(***************************************************************************)
EXTENDS Integers, SequencesExt

CONSTANTS N,          \* the entries that fit a page; a node takes one less
          Key, MaxKeys,   \* the keys, and bound: how many are inserted
          PerPage,    \* the records of a page of the table
          MaxOpens,   \* bound: how often the index is opened
          Garbage,    \* what open's buffer holds when nothing is read into it
          Cursors     \* what a cursor holds that nobody has set

VARIABLES pages,      \* the pages of the file: page p is pages[p + 1]
          rootPid, treeHeight,
          isOpen, opens,
          inserted,   \* ghost: the keys inserted, oldest first; record n is number n
          crashed     \* a node without entries was searched: NULL is dereferenced
vars == <<pages, rootPid, treeHeight, isOpen, opens, inserted, crashed>>

Entry(k, p, s) == [key |-> k, pid |-> p, sid |-> s]
Node(l, e) == [count |-> Len(l), end |-> e, list |-> l]
EmptyLeaf == Node(<<>>, -1)
EmptyNonLeaf == Node(<<>>, 0)
endPid(f) == Len(f)

\* read: the entries the page counts, zeros where nothing was written; a page that
\* the file does not have leaves the node as it was built.
Read(f, pid, fresh) ==
    IF pid \notin 0 .. Len(f) - 1 THEN fresh
    ELSE LET p == f[pid + 1]
         IN  [p EXCEPT !.list = [i \in 1 .. p.count |->
                                   IF i <= Len(p.list) THEN p.list[i] ELSE Entry(0, 0, 0)]]
\* write: at the end of the file or over a page of it; anywhere else it fails.
Write(f, pid, node) ==
    IF pid = Len(f) THEN Append(f, node)
    ELSE IF pid \in 0 .. Len(f) - 1 THEN [f EXCEPT ![pid + 1] = node] ELSE f
\* A leaf is written up to its count, a non-leaf to the end of its list.
Cut(leaf) == [leaf EXCEPT !.list = SubSeq(@, 1, leaf.count)]

----------------------------------------------------------------------------
(* Nodes *)

Full(node) == node.count > N - 2
\* A new entry goes before the first larger key but never looks at the head's equals.
Place(l, k) ==
    IF l = <<>> \/ l[1].key > k THEN 1
    ELSE CHOOSE i \in 2 .. Len(l) + 1 :
            /\ i <= Len(l) => l[i].key > k
            /\ \A j \in 2 .. i - 1 : l[j].key <= k
Middle(l) == 1 + (Len(l) - 1) \div 2

LeafInsert(node, e) == Node(InsertAt(node.list, Place(node.list, e.key), e), node.end)

\* insertAndSplit of a leaf: the new entry is in the list but not in the count, which
\* loses what goes to the sibling: written, the leaf is short of its last entry.
LeafSplit(node, e) ==
    LET l == InsertAt(node.list, Place(node.list, e.key), e)
        m == Middle(l)
    IN  [left |-> [count |-> node.count - (Len(l) - m), end |-> node.end, list |-> SubSeq(l, 1, m)],
         sibling |-> Node(SubSeq(l, m + 1, Len(l)), -1),
         key |-> l[m].key]

Bug_NoSwap(node, e, inside) ==
    Node(InsertAt(node.list, Place(node.list, e.key), e), node.end)

\* insert of a non-leaf with swap: the new page goes to the right of the new key, the
\* page that was there to its left.  In a split the swap is made at the two ends only.
Swapped(node, e, inside) ==
    LET i == Place(node.list, e.key)
        l == InsertAt(node.list, i, e)
    IN  IF i = Len(l) /\ i > 1
        THEN Node([l EXCEPT ![i].pid = node.end], e.pid)
        ELSE IF i = Len(l) \/ (i > 1 /\ ~inside)
        THEN Node(l, node.end)
        ELSE Node([l EXCEPT ![i].pid = l[i + 1].pid, ![i + 1].pid = e.pid], node.end)

NonLeafSplit(node, e) ==
    LET w == Swapped(node, e, FALSE)
        m == Middle(w.list)
    IN  [left |-> Node(SubSeq(w.list, 1, m - 1), w.list[m].pid),
         sibling |-> Node(SubSeq(w.list, m + 1, Len(w.list)), w.end),
         key |-> w.list[m].key]

\* locateChildPtr: the child before the first key not below k.
Child(node, k) ==
    IF \A i \in 1 .. node.count : node.list[i].key < k THEN node.end
    ELSE node.list[CHOOSE i \in 1 .. node.count :
                     node.list[i].key >= k /\ \A j \in 1 .. i - 1 : node.list[j].key < k].pid

----------------------------------------------------------------------------
(* Insertion *)

RECURSIVE findInsertLeaf(_, _, _)
findInsertLeaf(pid, k, levels) ==
    IF levels = 1 THEN <<pid>>
    ELSE <<pid>> \o findInsertLeaf(Child(Read(pages, pid, EmptyNonLeaf), k), k, levels - 1)

\* The loop over the path: (key, newPid) goes into the parents until one has room.
\* newBorn is one variable for all the levels: a second split finds it filled,
\* splits nothing, and writes it once more.
RECURSIVE Upward(_, _, _, _, _, _)
Upward(f, path, key, newPid, newBorn, last) ==
    IF path = <<>>
    THEN LET g == Write(f, endPid(f), Node(<<Entry(key, last, 0)>>, newPid))
         IN  [f |-> g, root |-> endPid(f), height |-> treeHeight + 1]
    ELSE LET pid == path[Len(path)]
             up == SubSeq(path, 1, Len(path) - 1)
             parent == Read(f, pid, EmptyNonLeaf)
         IN  IF ~Full(parent)
             THEN [f |-> Write(f, pid, Swapped(parent, Entry(key, newPid, 0), TRUE)),
                   root |-> rootPid, height |-> treeHeight]
             ELSE IF newBorn.count > 0
             THEN Upward(Write(f, endPid(f), newBorn), up, key, endPid(f), newBorn, pid)
             ELSE LET s == NonLeafSplit(parent, Entry(key, newPid, 0))
                      g == Write(f, pid, s.left)
                  IN  Upward(Write(g, endPid(g), s.sibling), up, s.key, endPid(g), s.sibling, pid)

\* The root leaf is split in two and written; both halves are linked.
SplitRoot(root, e) ==
    LET s == LeafSplit(root, e)
        sibPid == endPid(pages)
        f == Write(pages, sibPid, s.sibling)
        g == Write(f, rootPid, Cut([s.left EXCEPT !.end = sibPid]))
    IN  [f |-> Write(g, endPid(g), Node(<<Entry(s.key, rootPid, 0)>>, sibPid)),
         root |-> endPid(g), height |-> 2]

\* A leaf below other nodes is split and its sibling written; the leaf is not.
SplitLeaf(leaf, e, path) ==
    LET s == LeafSplit(leaf, e)
    IN  Upward(Write(pages, endPid(pages), s.sibling), SubSeq(path, 1, Len(path) - 1),
               s.key, endPid(pages), EmptyNonLeaf, -1)

\* A search that meets a node without entries reads through NULL.
Falls(path) == \E i \in 1 .. Len(path) - 1 : Read(pages, path[i], EmptyNonLeaf).count <= 0

Grown(e) ==
    LET first == IF rootPid = -1 THEN endPid(pages) ELSE rootPid
        root == Read(pages, rootPid, EmptyLeaf)
        path == findInsertLeaf(rootPid, e.key, treeHeight)
        pid == path[Len(path)]
        leaf == Read(pages, pid, EmptyLeaf)
    IN  IF treeHeight = 0
        THEN [f |-> Write(pages, first, Node(<<e>>, -1)), root |-> first, height |-> 1]
        ELSE IF treeHeight = 1
        THEN IF Full(root) THEN SplitRoot(root, e)
             ELSE [f |-> Write(pages, rootPid, LeafInsert(root, e)), root |-> rootPid, height |-> 1]
        ELSE IF Full(leaf) THEN SplitLeaf(leaf, e, path)
        ELSE [f |-> Write(pages, pid, LeafInsert(leaf, e)), root |-> rootPid, height |-> treeHeight]

\* What insert does to the index.
Put(e) ==
    IF treeHeight > 1 /\ Falls(findInsertLeaf(rootPid, e.key, treeHeight))
    THEN crashed' = TRUE /\ UNCHANGED <<pages, rootPid, treeHeight>>
    ELSE LET r == Grown(e)
         IN  /\ pages' = r.f /\ rootPid' = r.root /\ treeHeight' = r.height
             /\ UNCHANGED crashed

insert(k) ==
    /\ isOpen /\ ~crashed
    /\ Len(inserted) < MaxKeys
    /\ LET n == Len(inserted) IN Put(Entry(k, n \div PerPage, n % PerPage))
    /\ inserted' = IF crashed' THEN inserted ELSE Append(inserted, k)
    /\ UNCHANGED <<isOpen, opens>>

----------------------------------------------------------------------------
(* The file *)

\* open reads the root and the height from the last page, and does not ask whether
\* there was one to read.
Opened == \E g \in Garbage :
            LET h == IF pages = <<>> THEN g ELSE Last(pages)
            IN  rootPid' = h.count /\ treeHeight' = h.end

open == /\ ~isOpen /\ ~crashed /\ opens < MaxOpens
        /\ isOpen' = TRUE /\ opens' = opens + 1
        /\ Opened
        /\ UNCHANGED <<pages, inserted, crashed>>

\* close appends a page with the root and the height.
Header == [count |-> rootPid, end |-> treeHeight, list |-> <<>>]

close == /\ isOpen /\ ~crashed
         /\ isOpen' = FALSE
         /\ pages' = Append(pages, Header)
         /\ UNCHANGED <<rootPid, treeHeight, opens, inserted, crashed>>

Init == /\ pages = <<>> /\ rootPid = -1 /\ treeHeight = 0
        /\ isOpen = FALSE /\ opens = 0 /\ inserted = <<>> /\ crashed = FALSE
Next == open \/ close \/ \E k \in Key : insert(k)
Spec == Init /\ [][Next]_vars

----------------------------------------------------------------------------
(* Search: locate, BTLeafNode::locate, readForward *)

\* locate goes down a non-leaf while currHeight < treeHeight: treeHeight times, so the
\* leaf is read as a non-leaf too, and the page of a record taken for a child.  A page
\* that the file does not have ends it, one without entries is read through NULL.
InFile(pid) == pid \in 0 .. Len(pages) - 1

RECURSIVE Descend(_, _, _)
Descend(pid, k, levels) ==
    IF ~InFile(pid) THEN [end |-> "unread", pid |-> pid]
    ELSE IF pages[pid + 1].count <= 0 THEN [end |-> "NULL", pid |-> pid]
    ELSE IF levels = 0 THEN [end |-> "leaf", pid |-> pid]
    ELSE Descend(Child(Read(pages, pid, EmptyNonLeaf), k), k, levels - 1)

\* The first entry of the leaf that is not below k; the cursor stays what it was when
\* locate returns an error, which it does at once if the cursor looks invalid.
Valid(c) == c.pid >= 0 /\ c.eid >= 0
LocateFalls(k, c) == Valid(c) /\ Descend(rootPid, k, treeHeight).end = "NULL"

locate(k, c) ==
    LET d == Descend(rootPid, k, treeHeight)
        l == Read(pages, d.pid, EmptyLeaf).list
        at == {i \in 1 .. Len(l) : l[i].key >= k /\ \A j \in 1 .. i - 1 : l[j].key < k}
    IN  IF ~Valid(c) \/ d.end # "leaf" \/ at = {} THEN c
        ELSE [pid |-> d.pid, eid |-> (CHOOSE i \in at : TRUE) - 1]

\* The pair of entry eid; an eid that the node does not have leaves what its arguments held.
readEntry(node, eid, e) == IF eid \in 0 .. Len(node.list) - 1 THEN node.list[eid + 1] ELSE e

\* readForward gives the entry at the cursor, with a code that says "end" when it is the
\* last of the tree, and moves on; e is what its arguments held before.
readForward(c, e) ==
    LET node == Read(pages, c.pid, EmptyLeaf)
        next == IF c.eid + 1 < node.count THEN [c EXCEPT !.eid = @ + 1]
                ELSE [pid |-> node.end, eid |-> IF node.end = -1 THEN c.eid ELSE 0]
    IN  IF ~InFile(c.pid) \/ c.eid \notin 0 .. node.count - 1
        THEN [rc |-> "error", cursor |-> c, entry |-> e]
        ELSE [rc |-> IF next.pid = -1 THEN "end" ELSE "ok", cursor |-> next,
              entry |-> readEntry(node, c.eid, e)]

----------------------------------------------------------------------------
(* What holds of the leaves, for all the splits lose. *)

RECURSIVE Leaves(_, _)
Leaves(pid, levels) ==
    IF levels = 1 THEN {pid}
    ELSE LET n == Read(pages, pid, EmptyNonLeaf)
         IN  UNION {Leaves(p, levels - 1) : p \in {n.end} \cup {n.list[i].pid : i \in 1 .. n.count}}

InLeaf(pid) == Read(pages, pid, EmptyLeaf).list
Record(n) == Entry(inserted[n], (n - 1) \div PerPage, (n - 1) % PerPage)

\* A page reached as a leaf is a page of the file and no header that close has appended:
\* its entries are in the order of their keys and each names the record it was inserted
\* for.  A tree of one leaf has every key; below a root that is no leaf, what is right of
\* a key is not below it (BTreeIndex.cc, BTreeNode.cc).
LeavesSound ==
    isOpen /\ ~crashed /\ treeHeight > 0 =>
        /\ \A p \in Leaves(rootPid, treeHeight) :
              /\ p \in 0 .. Len(pages) - 1
              /\ \A i \in 1 .. Len(InLeaf(p)) :
                    \E n \in 1 .. Len(inserted) : InLeaf(p)[i] = Record(n)
              /\ \A i \in 1 .. Len(InLeaf(p)) - 1 : InLeaf(p)[i].key <= InLeaf(p)[i + 1].key
        /\ treeHeight = 1 => Len(InLeaf(rootPid)) = Len(inserted)
        /\ treeHeight = 2 =>
              LET root == Read(pages, rootPid, EmptyNonLeaf)
                  right(i) == IF i < root.count THEN root.list[i + 1].pid ELSE root.end
              IN  \A i \in 1 .. root.count, e \in 1 .. N :
                    e <= Len(InLeaf(right(i))) => InLeaf(right(i))[e].key >= root.list[i].key

\* "Find the leaf-node index entry whose key value is larger than or equal to searchKey
\* and output its location" (BTreeIndex.h:61-64): a key that was inserted is located,
\* at an entry that names its record.
Located ==
    isOpen /\ ~crashed /\ (\A g \in Garbage : g.end = 0) =>
        \A n \in 1 .. Len(inserted), c \in Cursors :
            LET r == readForward(locate(inserted[n], c), EmptyLeaf)
            IN  /\ ~LocateFalls(inserted[n], c)
                /\ r.rc # "error" /\ r.entry.key = inserted[n]
=============================================================================
