------------------------------ MODULE Collector ------------------------------
(***************************************************************************)
(* GC and GCPtr: objects that count their references.  An AllocCollector   *)
(* keeps freed blocks on a list and hands them out again; unref of a       *)
(* pooled object (AllocGC) frees it with its last reference.  A            *)
(* SimpleCollector keeps its objects until Clean removes those whose last  *)
(* reference has gone.                                                     *)
(***************************************************************************)
EXTENDS Integers, SequencesExt

CONSTANTS Pointers,      \* GCPtr variables
          PoolBlocks,    \* blocks of a pool (num_blocks)
          MaxBlocks      \* blocks there may ever be

ASSUME CollectorAssumption == IsFiniteSet(Pointers) /\ PoolBlocks \in Nat \ {0}

VARIABLES pooled,     \* whether the objects are AllocGC or belong to a SimpleCollector
          count,      \* ref_count of each block there is
          head,       \* AllocCollector: the free list
          allocated,  \* SimpleCollector: its objects, a SimpleSet
          ptr,        \* what a GCPtr points to: a block, Null, or Absent when out of scope
          fate        \* "up", or how the program ended: it called through NULL, an assertion
                      \* failed, or an object that had lost its last reference got one again
collectorVars == <<pooled, count, head, allocated, ptr, fate>>

Null == 0
Absent == -1
Blocks == 1 .. Len(count)
\* Freed: the destructor has run (-2); Dropped: it is to run (-1); New: no reference yet (0).
Freed == -2
Dropped == -1
Living(b) == count[b] # Freed

Prepend(h, list) == <<h>> \o list
\* AddPool: every block is put in front of the list.
AddPool(c, list) ==
    [count |-> c \o [i \in 1 .. PoolBlocks |-> Freed],
     head |-> Reverse([i \in 1 .. PoolBlocks |-> Len(c) + i]) \o list]

\* What ref and unref make of s = [count, head, fate].
Now == [count |-> count, head |-> head, fate |-> fate]
Ref(s, b) ==
    IF b = Null THEN [s EXCEPT !.fate = "null"]
    ELSE [s EXCEPT !.count[b] = @ + 1, !.fate = IF s.count[b] < 0 THEN "revived" ELSE @]
Counted(n) == IF n = 0 THEN 0 ELSE IF n = 1 THEN Dropped ELSE n - 1
\* AllocCollector::Delete prepends, then asserts that the count is below zero.
Deleted(s, b) ==
    LET listed == [s EXCEPT !.head = Prepend(b, @)]
    IN  IF s.count[b] < 0 THEN [listed EXCEPT !.count[b] = Freed] ELSE [listed EXCEPT !.fate = "assertion"]
Unref(s, b) ==
    LET less == [s EXCEPT !.count[b] = Counted(@)]
    IN  IF pooled /\ less.count[b] <= 0 THEN Deleted(less, b) ELSE less
\* operator= without the unref that GCPtr.h doubts ("I think this belongs here").
Bug_Keeps(s, old, b) == Ref(s, b)
Reassigned(s, old, b) == Ref(IF old # Null THEN Unref(s, old) ELSE s, b)

Leaves(s) ==
    /\ count' = s.count
    /\ head' = s.head
    /\ fate' = s.fate
Up == fate = "up"
InScope(g) == ptr[g] # Absent

CollectorInit ==
    /\ pooled \in BOOLEAN
    /\ count = <<>>
    /\ head = <<>>
    /\ allocated = {}
    /\ ptr = [g \in Pointers |-> Absent]
    /\ fate = "up"

----------------------------------------------------------------------------
\* new T: the first block of the free list (a new pool when it is empty), or a block of
\* its own, which the constructor adds to the collector; GC's constructor sets the count.
New ==
    /\ Up
    /\ IF pooled
       THEN LET s == IF head = <<>> THEN AddPool(count, head) ELSE [count |-> count, head |-> head]
            IN  /\ Len(s.count) <= MaxBlocks
                /\ count' = [s.count EXCEPT ![s.head[1]] = 0]
                /\ head' = Tail(s.head)
                /\ UNCHANGED allocated
       ELSE /\ Len(count) < MaxBlocks
            /\ count' = Append(count, 0)
            /\ allocated' = allocated \cup {Len(count) + 1}
            /\ UNCHANGED head
    /\ UNCHANGED <<pooled, ptr, fate>>
\* GCPtr<T> g;
Construct(g) ==
    /\ Up
    /\ ~InScope(g)
    /\ ptr' = [ptr EXCEPT ![g] = Null]
    /\ UNCHANGED <<pooled, count, head, allocated, fate>>
\* GCPtr<T> g(b); and GCPtr<T> g(h), which does not look for NULL.
ConstructFrom(g, b) ==
    /\ Up
    /\ ~InScope(g)
    /\ ptr' = [ptr EXCEPT ![g] = b]
    /\ Leaves(Ref(Now, b))
    /\ UNCHANGED <<pooled, allocated>>
\* g = b; g = h;
Assign(g, b) ==
    /\ Up
    /\ InScope(g)
    /\ ptr' = [ptr EXCEPT ![g] = b]
    /\ Leaves(Reassigned(Now, ptr[g], b))
    /\ UNCHANGED <<pooled, allocated>>
\* ~GCPtr, which does not look for NULL either.
Destroy(g) ==
    /\ Up
    /\ InScope(g)
    /\ ptr' = [ptr EXCEPT ![g] = Absent]
    /\ Leaves(IF ptr[g] = Null THEN [Now EXCEPT !.fate = "null"] ELSE Unref(Now, ptr[g]))
    /\ UNCHANGED <<pooled, allocated>>
\* b->unref() of an object without a reference, as SparseMatrix::Sort calls it on entries
\* that nobody has referenced.
UnrefNew(b) ==
    /\ Up
    /\ count[b] = 0
    /\ Leaves(Unref(Now, b))
    /\ UNCHANGED <<pooled, allocated, ptr>>
\* SimpleCollector::Clean.
Clean ==
    /\ Up
    /\ ~pooled
    /\ allocated' = {b \in allocated : count[b] # Dropped}
    /\ count' = [b \in Blocks |-> IF count[b] = Dropped THEN Freed ELSE count[b]]
    /\ UNCHANGED <<pooled, head, ptr, fate>>

\* What the program can name: an object not freed, or what a GCPtr holds.
Sources == {b \in Blocks : Living(b)} \cup {ptr[h] : h \in {i \in Pointers : InScope(i)}}
CollectorNext ==
    \/ New
    \/ Clean
    \/ \E g \in Pointers : Construct(g) \/ Destroy(g) \/ \E b \in Sources : ConstructFrom(g, b) \/ Assign(g, b)
    \/ \E b \in Blocks : UnrefNew(b)

CollectorSpec == CollectorInit /\ [][CollectorNext]_collectorVars

----------------------------------------------------------------------------
Holders(b) == {g \in Pointers : ptr[g] = b}

\* As long as nothing gives a reference to an object that has lost its last one (g = g of
\* the only holder does), no GCPtr points to a freed block, each object counts its holders,
\* the free list holds every freed block once and no other, and a SimpleCollector's set
\* every object that Clean has not removed.
HeldObjectsLive ==
    Up =>
        /\ \A b \in Blocks :
              /\ Holders(b) # {} => count[b] = Cardinality(Holders(b))
              /\ Holders(b) = {} => count[b] <= 0
        /\ IsInjective(head)
        /\ pooled => Range(head) = {b \in Blocks : count[b] < 0}
        /\ ~pooled => allocated = {b \in Blocks : Living(b)}

=============================================================================
