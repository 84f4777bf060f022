---------------------------- MODULE BplusTreeLong ----------------------------
(***************************************************************************)
(* BplusTreeLong.cs (BplusDotNet): a B+ tree of long integers in a file of *)
(* buffers.  A buffer of the committed tree is never rewritten: a changed  *)
(* node is dumped to a fresh buffer, its old one waits in                  *)
(* FreeBuffersOnCommit, its new one in FreeBuffersOnAbort, and a commit is *)
(* the one write of the header that names the new root.                    *)
(*                                                                         *)
(* A node in memory is a record that holds its materialized children, the  *)
(* arrays are sequences of what is in use.  Parent and indexInParent are   *)
(* where a node sits; rec is its number in TerminalNodeToId, 0 when it is  *)
(* not recorded.  A call is one step computed over a record s of the       *)
(* object's fields; s.err says that an exception ended the call, s.past is *)
(* s before each write, so that a crash inside a call leaves the file and  *)
(* header of an element of past.                                           *)
(***************************************************************************)
EXTENDS Integers, SequencesExt

CONSTANTS Keys,        \* positive integers
          Vals,        \* positive integers
          NodeSizes,   \* the node sizes with which files are created
          FifoLimit,   \* the footprint limit
          MaxBuffers,  \* bound: the longest file explored
          MaxChanges,  \* bound: the Set and RemoveKey calls explored
          MaxFaults    \* bound: the crashes and shutdowns explored

Null == -1

VARIABLES
  NodeSize,  \* keys in a node, kept in the header of the file
  file,      \* the buffers, buffer b at b + 1
  header,    \* the header of the file: root and free list head
  open,      \* a tree object is open on the file
  root,      \* {the root node} or {}
  free,      \* freeHeadSeek
  foc,       \* FreeBuffersOnCommit
  foa,       \* FreeBuffersOnAbort
  dead,      \* the numbers that freed nodes have in TerminalNodeToId
  ruined,    \* the root node was evicted from memory and destroyed
  raised,    \* an exception other than a missing key was raised
  changes,   \* history: Set and RemoveKey calls so far
  faults,    \* history: crashes and shutdowns so far
  strayed    \* history: one of those since Recover

fileVars == <<NodeSize, file, header>>
memVars == <<root, free, foc, foa, dead>>
histVars == <<changes, faults, strayed>>
vars == <<fileVars, memVars, open, ruined, raised, histVars>>

Node(leaf, keys, kids, mat) ==
  [leaf |-> leaf, dirty |-> TRUE, buf |-> Null, rec |-> 0,
   keys |-> keys, kids |-> kids, mat |-> mat]

-----------------------------------------------------------------------------
(* The record a call works on.                                             *)

Now == [file |-> file, header |-> header, root |-> root, free |-> free,
        foc |-> foc, foa |-> foa, dead |-> dead, stamp |-> 1000,
        ruined |-> FALSE, err |-> FALSE, missing |-> FALSE, got |-> Null,
        past |-> <<>>]

Raise(s) == [s EXCEPT !.err = TRUE]
Has(s, b) == b \in 0 .. Len(s.file) - 1

(* BufferFile.setBuffer                                                    *)
SetBuffer(s, b, buf) ==
  IF s.err THEN s
  ELSE IF b > Len(s.file) THEN Raise(s)
  ELSE [s EXCEPT !.past = Append(@, s),
                 !.file = IF b = Len(s.file) THEN Append(@, buf)
                          ELSE [@ EXCEPT ![b + 1] = buf]]

SetHeader(s, r) ==
  IF s.err THEN s
  ELSE [s EXCEPT !.past = Append(@, s),
                 !.header = [root |-> r, free |-> s.free]]

IsFree(s, b) == Has(s, b) /\ s.file[b + 1].type = "FREE"

AllocateBuffer(s) ==
  IF s.err THEN s
  ELSE IF s.free = Null THEN [s EXCEPT !.got = Len(s.file)]
  ELSE IF ~ IsFree(s, s.free)
  THEN Raise(s)                               \* "free buffer not marked free"
  ELSE [s EXCEPT !.got = s.free, !.free = s.file[@ + 1].kids[1]]

DeallocateBuffer(s, b) ==
  IF s.err THEN s
  ELSE IF ~ Has(s, b) \/ IsFree(s, b)
  THEN Raise(s)                \* "attempt to re-free free buffer not allowed"
  ELSE [SetBuffer(s, b, [type |-> "FREE", keys |-> <<>>, kids |-> <<s.free>>])
          EXCEPT !.free = b]

(* The highest number first.                                               *)
RECURSIVE DeallocateAll(_, _)
DeallocateAll(s, S) ==
  IF S = {} THEN s
  ELSE DeallocateAll(DeallocateBuffer(s, Max(S)), S \ {Max(S)})

Bug_DropsNew(s, b) ==
  IF b = Null THEN s
  ELSE IF b \in s.foa THEN [s EXCEPT !.foa = @ \ {b}]
  ELSE [s EXCEPT !.foc = @ \cup {b}]

(* What becomes of a buffer that the tree does not use any more.           *)
GiveUp(s, b) ==
  IF b = Null THEN s
  ELSE IF b \in s.foa THEN DeallocateBuffer([s EXCEPT !.foa = @ \ {b}], b)
  ELSE [s EXCEPT !.foc = @ \cup {b}]

(* RecordTerminalNode and ForgetTerminalNode; top says that n is the root. *)
Record(s, n, top) ==
  IF top \/ n.rec # 0 THEN [s |-> s, n |-> n]
  ELSE [s |-> [s EXCEPT !.stamp = @ + 1], n |-> [n EXCEPT !.rec = s.stamp]]

Forgotten(n) == [n EXCEPT !.rec = 0]

HasKids(n) == \E i \in DOMAIN n.mat : n.mat[i] # {}

CheckIfTerminal(s, n, top) ==
  IF HasKids(n) THEN [s |-> s, n |-> Forgotten(n)] ELSE Record(s, n, top)

(* Free: the node stays in the table of terminal nodes.                    *)
Free(s, n) ==
  GiveUp([s EXCEPT !.dead = IF n.rec = 0 THEN @ ELSE @ \cup {n.rec}], n.buf)

DumpToFreshBuffer(s, n) ==
  LET a == AllocateBuffer(s)
      w == SetBuffer(a, a.got,
                     [type |-> IF n.leaf THEN "LEAF" ELSE "NONLEAF",
                      keys |-> n.keys, kids |-> n.kids])
      g == GiveUp(w, n.buf)
  IN  [s |-> IF g.err THEN g ELSE [g EXCEPT !.foa = @ \cup {a.got}],
       n |-> [n EXCEPT !.dirty = FALSE, !.buf = a.got]]

-----------------------------------------------------------------------------
(* LoadFromBuffer and MaterializeNodeAtIndex.                              *)

Loaded(f, b) ==
  LET d == f[b + 1]
  IN  [Node(d.type = "LEAF", d.keys, d.kids,
            IF d.type = "LEAF" THEN <<>> ELSE [i \in DOMAIN d.kids |-> {}])
         EXCEPT !.dirty = FALSE, !.buf = b]

Readable(s, b) == Has(s, b) /\ ~ IsFree(s, b)

Materialize(s, n, i) ==
  IF s.err \/ n.mat[i] # {} THEN [s |-> s, n |-> n]
  ELSE IF ~ Readable(s, n.kids[i]) THEN [s |-> Raise(s), n |-> n]
  ELSE LET r == Record(s, Loaded(s.file, n.kids[i]), FALSE)
       IN  [s |-> r.s, n |-> [n EXCEPT !.mat[i] = {r.n}, !.rec = 0]]

Kid(n, i) == CHOOSE c \in n.mat[i] : TRUE

Bug_Below(n, k) == Cardinality({ i \in DOMAIN n.keys : n.keys[i] < k }) + 1

(* The child for key k: after the last key not above it.                   *)
Position(n, k) == Cardinality({ i \in DOMAIN n.keys : n.keys[i] <= k }) + 1

-----------------------------------------------------------------------------
(* Insert.  A result has the record s, the node n, the new node to its     *)
(* right and its least key, and up: Soil went on to the parent.            *)

Soiled(n) == [n EXCEPT !.dirty = TRUE]

Bug_MiddleLost(s, n, k, v) ==
  LET at == Cardinality({ i \in DOMAIN n.keys : n.keys[i] < k }) + 1
      there == at <= Len(n.keys) /\ n.keys[at] = k
      keys == IF there THEN n.keys ELSE InsertAt(n.keys, at, k)
      kids == IF there THEN [n.kids EXCEPT ![at] = v]
              ELSE InsertAt(n.kids, at, v)
      N == Len(keys)
      m == N \div 2
      left == [Soiled(n) EXCEPT !.keys = SubSeq(keys, 1, m),
                                !.kids = SubSeq(kids, 1, m)]
      r == Record(s, Node(TRUE, SubSeq(keys, m + 2, N), SubSeq(kids, m + 2, N),
                          <<>>), FALSE)
      d == DumpToFreshBuffer(r.s, r.n)
  IN  IF N <= NodeSize
      THEN [s |-> s, split |-> {}, sep |-> 0, up |-> ~ n.dirty,
            n |-> [Soiled(n) EXCEPT !.keys = keys, !.kids = kids]]
      ELSE [s |-> d.s, n |-> left, split |-> {Soiled(d.n)},
            sep |-> keys[m + 1], up |-> TRUE]

InsertLeaf(s, n, k, v) ==
  LET at == Cardinality({ i \in DOMAIN n.keys : n.keys[i] < k }) + 1
      there == at <= Len(n.keys) /\ n.keys[at] = k
      keys == IF there THEN n.keys ELSE InsertAt(n.keys, at, k)
      kids == IF there THEN [n.kids EXCEPT ![at] = v]
              ELSE InsertAt(n.kids, at, v)
      N == Len(keys)
      m == N \div 2
      left == [Soiled(n) EXCEPT !.keys = SubSeq(keys, 1, m),
                                !.kids = SubSeq(kids, 1, m)]
      r == Record(s, Node(TRUE, SubSeq(keys, m + 1, N), SubSeq(kids, m + 1, N),
                          <<>>), FALSE)
      d == DumpToFreshBuffer(r.s, r.n)
  IN  IF N <= NodeSize
      THEN [s |-> s, split |-> {}, sep |-> 0, up |-> ~ n.dirty,
            n |-> [Soiled(n) EXCEPT !.keys = keys, !.kids = kids]]
      ELSE [s |-> d.s, n |-> left, split |-> {Soiled(d.n)},
            sep |-> keys[m + 1], up |-> TRUE]

(* A nonleaf of NodeSize + 1 keys splits around the key above its middle;  *)
(* both halves were recorded by Clear and keep that if no child is in      *)
(* memory.                                                                 *)
SplitNonleaf(s, n, top) ==
  LET N == Len(n.keys)
      m == (NodeSize + 2) \div 2 - 1
      a == Record(s, Node(FALSE, SubSeq(n.keys, m + 2, N),
                          SubSeq(n.kids, m + 2, N + 1),
                          SubSeq(n.mat, m + 2, N + 1)), FALSE)
      b == Record(a.s, [n EXCEPT !.keys = SubSeq(@, 1, m),
                                 !.kids = SubSeq(@, 1, m + 1),
                                 !.mat = SubSeq(@, 1, m + 1)], top)
      c == DumpToFreshBuffer(b.s, a.n)
      right == CheckIfTerminal(c.s, c.n, FALSE)
      left == CheckIfTerminal(right.s, b.n, top)
  IN  [s |-> left.s, n |-> left.n, split |-> {Soiled(right.n)},
       sep |-> n.keys[m + 1], up |-> TRUE]

(* A nonleaf after the insertion below its child p, with result r.         *)
InsertedBelow(t, p, r, top) ==
  LET n1 == [t.n EXCEPT !.mat[p] = {r.n}]
      new == CHOOSE x \in r.split : TRUE
      n2 == [n1 EXCEPT !.dirty = TRUE,
                       !.keys = InsertAt(@, p, r.sep),
                       !.kids = InsertAt(@, p + 1, new.buf),
                       !.mat = InsertAt(@, p + 1, r.split)]
  IN  IF t.s.err
      THEN [s |-> t.s, n |-> t.n, split |-> {}, sep |-> 0, up |-> FALSE]
      ELSE IF r.split = {}
      THEN [r EXCEPT !.n = [n1 EXCEPT !.dirty = @ \/ r.up],
                     !.up = r.up /\ ~ n1.dirty]
      ELSE IF Len(n2.keys) > NodeSize THEN SplitNonleaf(r.s, n2, top)
      ELSE [s |-> r.s, n |-> n2, split |-> {}, sep |-> 0, up |-> ~ n1.dirty]

RECURSIVE Insert(_, _, _, _, _)
Insert(s, n, k, v, top) ==
  IF n.leaf THEN InsertLeaf(s, n, k, v)
  ELSE LET p == Position(n, k)
           t == Materialize(s, n, p)
       IN  InsertedBelow(t, p, Insert(t.s, Kid(t.n, p), k, v, FALSE), top)

Rooted(a) == [a.s EXCEPT !.root = {a.n}]

(* The root: a first leaf, recorded before it is the root, or a new root   *)
(* above the halves of the old one, is dumped at once.                     *)
RootInserted(first, r) ==
  LET new == CHOOSE x \in r.split : TRUE
      top == IF r.split = {} THEN r.n
             ELSE Node(FALSE, <<r.sep>>, <<r.n.buf, new.buf>>,
                       <<{r.n}, r.split>>)
  IN  IF first \/ r.split # {} THEN Rooted(DumpToFreshBuffer(r.s, top))
      ELSE Rooted(r)

Inserted(s, k, v) ==
  LET a == IF s.root = {} THEN Record(s, Node(TRUE, <<>>, <<>>, <<>>), FALSE)
           ELSE [s |-> s, n |-> CHOOSE n \in s.root : TRUE]
  IN  RootInserted(s.root = {}, Insert(a.s, a.n, k, v, TRUE))

-----------------------------------------------------------------------------
(* Delete.  A result has s, n, merge (n is less than half full), up, and   *)
(* least: the new least key under n when it changed, the deleted key when  *)
(* a leaf has become empty, 0 otherwise.                                   *)

Missed(s, n) == [s |-> s, n |-> n, merge |-> FALSE, least |-> 0, up |-> FALSE]

DeleteLeaf(s, n, k) ==
  LET at == Cardinality({ i \in DOMAIN n.keys : n.keys[i] < k }) + 1
      keys == RemoveAt(n.keys, at)
  IN  IF k \notin Range(n.keys)
      THEN Missed([s EXCEPT !.err = TRUE, !.missing = TRUE], n)
      ELSE [s |-> s, up |-> ~ n.dirty, merge |-> Len(keys) < NodeSize \div 2,
            n |-> [Soiled(n) EXCEPT !.keys = keys, !.kids = RemoveAt(@, at)],
            least |-> CASE at > 1 -> 0
                        [] keys = <<>> -> k
                        [] OTHER -> keys[1]]

(* The least key under a node, read through the file when need be.         *)
RECURSIVE LeastKey(_, _)
LeastKey(f, n) ==
  IF n.leaf THEN IF n.keys = <<>> THEN 0 ELSE n.keys[1]
  ELSE LeastKey(f, IF n.mat[1] # {} THEN Kid(n, 1) ELSE Loaded(f, n.kids[1]))

(* An empty leaf: its entry goes, and the key on its left (on its right    *)
(* when it is the first) with it.                                          *)
DropEmptyLeaf(s, n, p) ==
  LET t == Free(s, Kid(n, p))
      n1 == [Soiled(n) EXCEPT !.keys = RemoveAt(@, IF p = 1 THEN 1 ELSE p - 1),
                              !.kids = RemoveAt(@, p),
                              !.mat = RemoveAt(@, p)]
  IN  [s |-> t, n |-> n1, merge |-> Len(n1.keys) < NodeSize \div 2,
       least |-> IF p = 1 THEN n.keys[1] ELSE 0, up |-> ~ n.dirty]

(* MergeLeaves: one leaf, or the larger half to the left.                  *)
MergeLeaves(s, left, right) ==
  LET keys == left.keys \o right.keys
      kids == left.kids \o right.kids
      N == Len(keys)
      m == IF N <= NodeSize THEN N ELSE N - N \div 2
      Of(n, i, j) == [Soiled(n) EXCEPT !.keys = SubSeq(keys, i, j),
                                       !.kids = SubSeq(kids, i, j)]
      l == Record(s, Of(left, 1, m), FALSE)
      r == Record(l.s, Of(right, m + 1, N), FALSE)
  IN  IF N <= NodeSize
      THEN [s |-> Free(l.s, right), l |-> l.n, r |-> {}, least |-> 0]
      ELSE [s |-> r.s, l |-> l.n, r |-> {r.n}, least |-> r.n.keys[1]]

(* Merge of nonleaves, the key between them coming down.                   *)
MergeNonleaves(s, left, between, right) ==
  LET keys == left.keys \o <<between>> \o right.keys
      kids == left.kids \o right.kids
      mat == left.mat \o right.mat
      N == Len(keys)
      m == IF N <= NodeSize THEN N ELSE N \div 2
      Of(n, i, j) == [Soiled(n) EXCEPT !.keys = SubSeq(keys, i, j),
                                       !.kids = SubSeq(kids, i, j + 1),
                                       !.mat = SubSeq(mat, i, j + 1)]
      whole == Of(left, 1, N)
      l == Record(s, Of(left, 1, m), FALSE)
      r == Record(l.s, Of(right, m + 2, N), FALSE)
      Kept(n) == IF HasKids(n) THEN Forgotten(n) ELSE n
  IN  IF N <= NodeSize
      THEN [s |-> Free(s, right), l |-> Kept(whole), r |-> {}, least |-> 0]
      ELSE [s |-> r.s, l |-> Kept(l.n), r |-> {Kept(r.n)},
            least |-> keys[m + 1]]

MergeNodes(s, left, between, right) ==
  IF left.leaf THEN MergeLeaves(s, left, right)
  ELSE MergeNonleaves(s, left, between, right)

(* The result m takes the place of the children at i and i + 1 of n.       *)
Replaced(n, i, m) ==
  LET n1 == [n EXCEPT !.mat[i] = {m.l}, !.dirty = TRUE]
  IN  IF m.r = {}
      THEN [s |-> m.s, n |-> [n1 EXCEPT !.keys = RemoveAt(@, i),
                                        !.kids = RemoveAt(@, i + 1),
                                        !.mat = RemoveAt(@, i + 1)]]
      ELSE [s |-> m.s, n |-> [n1 EXCEPT !.keys[i] = m.least,
                                        !.mat[i + 1] = m.r]]

(* The children at i and i + 1 of n are merged or share their contents.    *)
MergeKids(s, n, i) ==
  LET t1 == Materialize(s, n, i)
      t == Materialize(t1.s, t1.n, i + 1)
  IN  IF t.s.err THEN t
      ELSE Replaced(t.n, i, MergeNodes(t.s, Kid(t.n, i), t.n.keys[i], Kid(t.n, i + 1)))

(* m is the node whose children were merged; before, it had N keys.        *)
Merged(m, N, least, up) ==
  [s |-> m.s, n |-> m.n, least |-> least, up |-> up,
   merge |-> Len(m.n.keys) < N /\ Len(m.n.keys) < NodeSize \div 2]

(* A nonleaf after the deletion below its child p, with result r.          *)
DeletedBelow(t, p, k, r) ==
  LET n1 == [t.n EXCEPT !.mat[p] = {r.n}]
      n2 == IF p > 1 /\ r.least # 0
            THEN [Soiled(n1) EXCEPT !.keys[p - 1] = r.least] ELSE Soiled(n1)
      least == IF p = 1 THEN r.least ELSE 0
      up == ~ t.n.dirty
  IN  IF t.s.err THEN Missed(t.s, t.n)
      ELSE IF r.s.err THEN Missed(r.s, n1)
      ELSE IF r.least = k THEN [DropEmptyLeaf(r.s, n1, p) EXCEPT !.up = up]
      ELSE IF ~ r.merge
      THEN [s |-> r.s, n |-> n2, merge |-> FALSE, least |-> least, up |-> up]
      ELSE Merged(MergeKids(r.s, n2, IF p = 1 THEN 1 ELSE p - 1),
                  Len(t.n.keys), least, up)

RECURSIVE Delete(_, _, _)
Delete(s, n, k) ==
  IF n.leaf THEN DeleteLeaf(s, n, k)
  ELSE LET p == Position(n, k)
           t == Materialize(s, n, p)
       IN  DeletedBelow(t, p, k, Delete(t.s, Kid(t.n, p), k))

(* A root with a single child gives way to it.                             *)
RootDeleted(r) ==
  LET t == Materialize(r.s, r.n, 1)
  IN  IF r.merge /\ ~ r.n.leaf /\ r.n.keys = <<>>
      THEN [Free(t.s, t.n) EXCEPT !.root = t.n.mat[1]]
      ELSE Rooted(r)

Deleted(s, k) == RootDeleted(Delete(s, CHOOSE n \in s.root : TRUE, k))

-----------------------------------------------------------------------------
(* Queries descend and materialize what they meet.  got is the value of k  *)
(* or 0.                                                                   *)

RECURSIVE FindMatch(_, _, _)
FindMatch(s, n, k) ==
  IF n.leaf
  THEN [n |-> n,
        s |-> [s EXCEPT !.got = IF k \in Range(n.keys)
                                THEN n.kids[SelectInSeq(n.keys, LAMBDA x : x = k)]
                                ELSE 0]]
  ELSE LET p == Position(n, k)
           t == Materialize(s, n, p)
           r == FindMatch(t.s, Kid(t.n, p), k)
       IN  IF t.s.err THEN t
           ELSE [s |-> r.s, n |-> [t.n EXCEPT !.mat[p] = {r.n}]]

(* FindNextKey and TraverseToFollowingKey: from child p on, the next child *)
(* to the right when there is no greater key below p.  got is the key or 0.*)
RECURSIVE FindNextKey(_, _, _, _)
FindNextKey(s, n, p, k) ==
  IF n.leaf
  THEN LET above == { x \in Range(n.keys) : x > k }
       IN  [n |-> n, s |-> [s EXCEPT !.got = IF above = {} THEN 0 ELSE Min(above)]]
  ELSE IF p > Len(n.kids) THEN [n |-> n, s |-> [s EXCEPT !.got = 0]]
  ELSE LET t == Materialize(s, n, p)
           c == Kid(t.n, p)
           r == FindNextKey(t.s, c, IF c.leaf THEN 1 ELSE Position(c, k), k)
           n1 == [t.n EXCEPT !.mat[p] = {r.n}]
       IN  IF t.s.err THEN t
           ELSE IF r.s.err \/ r.s.got # 0 THEN [s |-> r.s, n |-> n1]
           ELSE FindNextKey(r.s, n1, p + 1, k)

Top(s) == CHOOSE n \in s.root : TRUE

Found(s, k) ==
  IF s.root = {} THEN [s EXCEPT !.got = 0]
  ELSE Rooted(FindMatch(s, Top(s), k))

NextFound(s, k) ==
  Rooted(FindNextKey(s, Top(s), IF Top(s).leaf THEN 1 ELSE Position(Top(s), k), k))

-----------------------------------------------------------------------------
(* Invalidate(destroyRoot) of a whole subtree: children first, then the    *)
(* node itself if it is dirty, which it is once a child has moved.         *)

Written(w) ==
  [IF w.n.dirty THEN DumpToFreshBuffer(w.s, w.n) ELSE w EXCEPT !.n = Forgotten(@)]

(* The child at i of a.n, which r has written, leaves memory.              *)
Unloaded(a, i, r) ==
  [s |-> r.s,
   n |-> [a.n EXCEPT !.dirty = @ \/ r.n.buf # Kid(a.n, i).buf,
                     !.kids[i] = r.n.buf, !.mat[i] = {}]]

RECURSIVE Invalidate(_, _)
Invalidate(s, n) ==
  LET Close(a, i) ==
        IF a.n.mat[i] = {} THEN a ELSE Unloaded(a, i, Invalidate(a.s, Kid(a.n, i)))
  IN  Written(FoldLeft(Close, [s |-> s, n |-> n], [i \in DOMAIN n.mat |-> i]))

(* The same for the terminal node with number v, somewhere below n.        *)
RECURSIVE Recorded(_)
Recorded(n) ==
  ({n.rec} \ {0}) \cup
    UNION { Recorded(Kid(n, i)) : i \in { j \in DOMAIN n.mat : n.mat[j] # {} } }

(* n after its child at p went, or the node below that child, with result  *)
(* r.                                                                      *)
EvictedBelow(n, p, gone, r, top) ==
  LET c == Kid(n, p)
      moved == IF gone THEN r.n.buf # c.buf ELSE r.n.dirty /\ ~ c.dirty
  IN  CheckIfTerminal(r.s, [n EXCEPT !.dirty = @ \/ moved, !.kids[p] = r.n.buf,
                                     !.mat[p] = IF gone THEN {} ELSE {r.n}], top)

RECURSIVE Evict(_, _, _, _)
Evict(s, n, v, top) ==
  LET p == CHOOSE i \in DOMAIN n.mat :
             n.mat[i] # {} /\ v \in Recorded(Kid(n, i))
      gone == Kid(n, p).rec = v
  IN  EvictedBelow(n, p, gone, IF gone THEN Invalidate(s, Kid(n, p))
                               ELSE Evict(s, Kid(n, p), v, FALSE), top)

(* InvalidateTerminalNodes: the oldest recorded node goes; a freed one was *)
(* only counted.  Nothing keeps the root out of the table.                 *)
InTable(s) == s.dead \cup (IF s.root = {} THEN {} ELSE Recorded(Top(s)))

WithoutOldest(s, v) ==
  IF v \in s.dead THEN [s EXCEPT !.dead = @ \ {v}]
  ELSE IF Top(s).rec = v
  THEN [Invalidate(s, Top(s)).s EXCEPT !.root = {}, !.ruined = TRUE]
  ELSE Rooted(Evict(s, Top(s), v, TRUE))

RECURSIVE ShrinkFootprint(_)
ShrinkFootprint(s) ==
  IF s.err \/ Cardinality(InTable(s)) <= FifoLimit THEN s
  ELSE ShrinkFootprint(WithoutOldest(s, Min(InTable(s))))

(* Numbers of recorded nodes matter by their order only.                   *)
RECURSIVE Renumbered(_, _)
Renumbered(n, all) ==
  [n EXCEPT !.rec = IF @ = 0 THEN 0 ELSE Cardinality({ x \in all : x <= n.rec }),
            !.mat = [i \in DOMAIN n.mat |->
                       { Renumbered(c, all) : c \in n.mat[i] }]]

Renumber(s) ==
  LET all == InTable(s)
  IN  [s EXCEPT !.root = { Renumbered(n, all) : n \in s.root },
                !.dead = { Cardinality({ x \in all : x <= v }) : v \in s.dead }]

-----------------------------------------------------------------------------
(* Commit, Abort, Recover.                                                 *)

ResetBookkeeping(s) ==
  IF s.err THEN s
  ELSE [s EXCEPT !.foc = {}, !.foa = {}, !.dead = {},
                 !.root = { Forgotten(n) : n \in @ }]

Committed(s) ==
  LET Flip(a, seek) ==
        LET h == SetHeader(a, seek)
        IN  ResetBookkeeping(SetHeader(DeallocateAll(h, h.foc), seek))
      Finish(a) == Flip(a, IF a.root = {} THEN Null ELSE Top(a).buf)
  IN  Finish(IF s.root = {} THEN s ELSE Rooted(Invalidate(s, Top(s))))

Aborted(s) ==
  LET d == DeallocateAll(s, s.foa)
      b == d.header.root
      r == IF b = Null THEN [d EXCEPT !.root = {}]
           ELSE IF ~ Readable(d, b) THEN Raise(d)
           ELSE [d EXCEPT !.root = {Loaded(d.file, b)}]
  IN  SetHeader(ResetBookkeeping(r), b)

(* The children of a nonleaf, from memory or from the file.                *)
Child(f, n, i) == IF n.mat[i] # {} THEN Kid(n, i) ELSE Loaded(f, n.kids[i])
Children(f, n) == { Child(f, n, i) : i \in DOMAIN n.kids }

(* SanityCheck of the nodes: the keys of a node are those of the least     *)
(* keys of its children, in order, and a node other than the root is half  *)
(* full.                                                                   *)
RECURSIVE WellFormed(_, _, _)
WellFormed(f, n, top) ==
  LET half == IF n.leaf THEN NodeSize \div 2 - 1 ELSE NodeSize \div 2
  IN  /\ top \/ Len(n.keys) >= half
      /\ \A i \in 1 .. Len(n.keys) - 1 : n.keys[i] # n.keys[i + 1]
      /\ n.leaf \/ \A i \in DOMAIN n.kids : \A c \in {Child(f, n, i)} :
            /\ WellFormed(f, c, FALSE)
            /\ i = 1 \/ n.keys[i - 1] = LeastKey(f, c)

RECURSIVE Buffers(_, _)
Buffers(f, n) ==
  {n.buf} \cup
    IF n.leaf THEN {} ELSE UNION { Buffers(f, c) : c \in Children(f, n) }

(* The free list from b; a buffer of it that is not marked free ends it.   *)
RECURSIVE FreeFrom(_, _, _)
FreeFrom(f, b, n) ==
  IF b \notin 0 .. Len(f) - 1 \/ n = 0 THEN <<>>
  ELSE IF f[b + 1].type # "FREE" THEN <<b>>
  ELSE <<b>> \o FreeFrom(f, f[b + 1].kids[1], n - 1)

FreeList(f, b) == FreeFrom(f, b, Len(f) + 1)
GoodFreeList(f, b) ==
  /\ \A x \in Range(FreeList(f, b)) : f[x + 1].type = "FREE"
  /\ Len(FreeList(f, b)) <= Len(f)

(* Every node is read in and stays in memory.                              *)
RECURSIVE MaterializeAll(_, _)
MaterializeAll(s, n) ==
  LET Visit(a, i) ==
        LET t == Materialize(a.s, a.n, i)
            r == MaterializeAll(t.s, Kid(t.n, i))
        IN  [s |-> r.s, n |-> [t.n EXCEPT !.mat[i] = {r.n}]]
  IN  FoldLeft(Visit, [s |-> s, n |-> n], [i \in DOMAIN n.mat |-> i])

Used(s) == UNION { Buffers(s.file, n) : n \in s.root }
Missing(s) ==
  (0 .. Len(s.file) - 1)
    \ (Used(s) \cup Range(FreeList(s.file, s.free)) \cup s.foc)

(* Recover(true)                                                           *)
Recovered(s) ==
  LET r == MaterializeAll(s, Top(s))
      t == IF s.root = {} THEN s ELSE [r.s EXCEPT !.root = {r.n}]
  IN  IF \/ \E n \in s.root : ~ WellFormed(s.file, n, TRUE)
         \/ ~ GoodFreeList(s.file, s.free)
         \/ Used(s) \cap Range(FreeList(s.file, s.free)) # {}
      THEN Raise(t)
      ELSE DeallocateAll(t, Missing(t))

-----------------------------------------------------------------------------
(* A new file: a header and no buffer.                                     *)
Init ==
  /\ NodeSize \in NodeSizes
  /\ file = <<>> /\ header = [root |-> Null, free |-> Null]
  /\ open = TRUE
  /\ root = {} /\ free = Null /\ foc = {} /\ foa = {} /\ dead = {}
  /\ ruined = FALSE /\ raised = FALSE
  /\ changes = 0 /\ faults = 0 /\ strayed = FALSE

Usable == open /\ ~ ruined /\ ~ raised

(* The call returns or raises; after an exception the object is given up.  *)
Takes(r) ==
  LET s == Renumber(r)
  IN  /\ Len(s.file) <= MaxBuffers
      /\ file' = s.file /\ header' = s.header
      /\ root' = s.root /\ free' = s.free
      /\ foc' = s.foc /\ foa' = s.foa /\ dead' = s.dead
      /\ ruined' = s.ruined /\ raised' = (s.err /\ ~ s.missing)
      /\ UNCHANGED <<NodeSize, open, faults>>

Gone ==
  /\ open' = FALSE
  /\ root' = {} /\ free' = Null /\ foc' = {} /\ foa' = {} /\ dead' = {}
  /\ ruined' = FALSE /\ raised' = FALSE
  /\ faults' = faults + 1 /\ strayed' = TRUE
  /\ UNCHANGED <<NodeSize, changes>>

(* The process dies inside the call, before one of its writes.             *)
Dies(s) ==
  /\ faults < MaxFaults
  /\ \E i \in DOMAIN s.past :
       /\ Len(s.past[i].file) <= MaxBuffers
       /\ file' = s.past[i].file /\ header' = s.past[i].header
  /\ Gone

Changes(s) ==
  /\ changes < MaxChanges
  /\ \/ Takes(s) /\ changes' = changes + 1 /\ UNCHANGED strayed
     \/ Dies(s)

Completes(s) == Takes(s) /\ UNCHANGED <<changes, strayed>>
Asks(s) == Completes(s) \/ Dies(s)

Set(k, v) == Usable /\ Changes(ShrinkFootprint(Inserted(Now, k, v)))

RemoveKey(k) == Usable /\ root # {} /\ Changes(Deleted(Now, k))

ContainsKey(k) == Usable /\ Asks(ShrinkFootprint(Found(Now, k)))

(* FirstKey looks for the empty string, which is no key here, shrinks, and *)
(* then asks for the key after it; only NextKey shrinks again.             *)
FirstKey ==
  /\ Usable /\ root # {}
  /\ LET Following(s) == IF s.root = {} THEN s ELSE NextFound(s, 0)
     IN  Completes(Following(ShrinkFootprint(Found(Now, 0))))

NextKey(k) == Usable /\ root # {} /\ Asks(ShrinkFootprint(NextFound(Now, k)))

Commit == Usable /\ Asks(Committed(Now))

Abort == Usable /\ Asks(Aborted(Now))

Recover ==
  LET Ends(s) == \/ Takes(s) /\ strayed' = s.err /\ UNCHANGED changes
                 \/ Dies(s)
  IN  Usable /\ Ends(Recovered(Now))

(* Shutdown closes the stream and writes nothing.                          *)
Shutdown ==
  /\ open /\ faults < MaxFaults
  /\ Gone
  /\ UNCHANGED <<file, header>>

(* SetupFromExistingStream: the root is recorded by its constructor.       *)
ReOpen ==
  /\ ~ open
  /\ open' = TRUE /\ free' = header.free
  /\ root' = IF header.root = Null THEN {}
             ELSE {[Loaded(file, header.root) EXCEPT !.rec = 1]}
  /\ UNCHANGED <<fileVars, foc, foa, dead, ruined, raised, histVars>>

Next ==
  \/ \E k \in Keys, v \in Vals : Set(k, v)
  \/ \E k \in Keys : RemoveKey(k) \/ ContainsKey(k) \/ NextKey(k)
  \/ FirstKey \/ Commit \/ Abort \/ Recover \/ Shutdown \/ ReOpen

Spec == Init /\ [][Next]_vars

-----------------------------------------------------------------------------
(* The maps that the file and the memory stand for.                        *)

RECURSIVE Pairs(_, _)
Pairs(f, n) ==
  IF n.leaf THEN { <<n.keys[i], n.kids[i]>> : i \in DOMAIN n.keys }
  ELSE UNION { Pairs(f, c) : c \in Children(f, n) }

AsMap(P) == [k \in { p[1] : p \in P } |-> (CHOOSE p \in P : p[1] = k)[2]]

DiskRoot == IF header.root = Null THEN {} ELSE {Loaded(file, header.root)}
OnDisk == AsMap(UNION { Pairs(file, n) : n \in DiskRoot })
InMemory == IF open /\ ~ ruined /\ ~ raised
            THEN AsMap(UNION { Pairs(file, n) : n \in root }) ELSE OnDisk
DiskBuffers == UNION { Buffers(file, n) : n \in DiskRoot }

(* Types of the fields; what is in a table of buffers is in the file.      *)
TypeOK ==
  /\ \A i \in DOMAIN file : file[i].type \in {"FREE", "LEAF", "NONLEAF"}
  /\ header.root \in -1 .. Len(file) - 1
  /\ {header.free, free} \subseteq -1 .. Len(file) - 1
  /\ Cardinality(root) <= 1
  /\ foc \cup foa \subseteq 0 .. Len(file) - 1
  /\ {open, ruined, raised, strayed} \subseteq BOOLEAN

(* The tree is the map of ITreeIndex: what a transaction sets and removes  *)
(* is what its reads see, through splits, merges and evictions of nodes,   *)
(* and what the next process finds is what the last commit left, wherever  *)
(* a crash cuts a call, Commit and Abort included.                         *)
Map == INSTANCE AtomicMap WITH committed <- OnDisk, working <- InMemory
IsAtomicMap == Map!Spec

(* Lookups and scans agree with the map in every state of the node cache:  *)
(* FindMatch finds a key's value, TraverseToFollowingKey the least key     *)
(* above, RemoveKey misses exactly the keys that are not there.            *)
Answers ==
  Usable /\ root # {} => \A k \in Keys \cup {0} :
    /\ Found(Now, k).got = IF k \in DOMAIN InMemory THEN InMemory[k] ELSE 0
    /\ LET above == { x \in DOMAIN InMemory : x > k }
       IN  NextFound(Now, k).got = IF above = {} THEN 0 ELSE Min(above)
    /\ Deleted(Now, k).missing <=> k \notin DOMAIN InMemory

(* SanityCheck passes between any two calls, in memory and for the tree    *)
(* that a crash would leave, and all leaves of a tree are equally deep.    *)
RECURSIVE Depths(_, _)
Depths(f, n) ==
  IF n.leaf THEN {0}
  ELSE { d + 1 : d \in UNION { Depths(f, c) : c \in Children(f, n) } }
Sane ==
  \A n \in DiskRoot \cup (IF Usable THEN root ELSE {}) :
    WellFormed(file, n, TRUE) /\ Cardinality(Depths(file, n)) = 1

(* While no process died since the file was made or recovered, every       *)
(* buffer is a node's, free, or waits in FreeBuffersOnCommit, and is that  *)
(* once: the transaction leaks no space and lends no buffer twice.         *)
EachOnce ==
  Usable =>
    /\ Used(Now) \cap foc = {}
    /\ ~ strayed =>
         /\ GoodFreeList(file, free)
         /\ Missing(Now) = {}
         /\ Range(FreeList(file, free)) \cap (Used(Now) \cup foc) = {}
         /\ foa \subseteq Used(Now) /\ foa \cap DiskBuffers = {}

(* No call raises on a tree that no process died on since it was made or   *)
(* recovered.                                                              *)
NoSurprise == ~ strayed => ~ raised

(* "No disk buffer is ever modified in place" (index.html): a step that    *)
(* leaves the root record alone writes to no buffer of the committed tree, *)
(* whatever the free list and the two tables of buffers say.               *)
NotInPlace ==
  [][header'.root = header.root =>
       \A b \in DiskBuffers : file'[b + 1] = file[b + 1]]_vars
=============================================================================
