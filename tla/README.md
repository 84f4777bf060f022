# EythmologyLearning: TLA+ models, model checking and proofs

The repository is a small Python application that collects the etymology of
words into SQLite, and, under `src/数据库搭建/` ("building the database"), the
storage and numerical libraries its author gathered for a database of his own.
This project models the application's threads, the four storage systems (the C
index library `btree.1.1`, the C# library BplusDotNet, the C++ database Bruinbase,
the C++ indexer `indexador`) and the in-memory C++ library Classaddons.

Files are named relative to `src/`; those of `btree.1.1` relative to
`src/数据库搭建/btree.1.1/`, those of Classaddons to `src/数据库搭建/Classaddons/`.

## 1. Inventory

| Part | State it keeps | Operations | Modelled |
|---|---|---|---|
| block file handler (`src/bfh.c`) | a file of equal blocks; a descriptor with the ends of the free list and the end of the file; the list's links inside the free blocks | BfhOpen/BfhCreate, BfhNewBlock, BfhWriteBlock, BfhReadBlock, BfhFreeBlock, BfhClose | `Bfh` |
| B-tree index (`src/btree.c`) | nodes in blocks; root, levels, number of keys, exhausted; the hierarchy: one slot a level, clean or dirty | OpenBtree, InsertKey, DeleteKey, Locate, First, Last, Increment, Decrement, Update, Close | `BTree` (partly) |
| semaphore calls (`src/semaphore.c`) | a System V semaphore, its value and undo counts (in the kernel) | P, V, rmsem over semid, semcall | `Semaphore` |
| list library (`src/dll.c`) | a doubly linked list with an active node, a list of vacant nodes | insert, delete, first, next, prev, current | `DoublyLinked` |
| root word collector (`htmlParser.py`, `RootWordGenerated.py`, `RootWordHtmlParser.py`, `GlobalVariable.py`) | one list of cells for all threads; a SQLite table; per thread a position and a row number | a click starts a thread: DROP, CREATE, per word fetch, parse, INSERT, COMMIT every ten | `RootWords` (partly) |
| file parser (`FileParser.py`, `htmlDataAcquired.py`) | a queue of 10000, a table, an output file | menu "open" starts two threads | no |
| BplusDotNet, linked file | a file of buffers, chains of them, a free list with its head in memory | StoreNewChunk, ReleaseBuffers, Flush, Recover, Shutdown | `LinkedFile` |
| BplusDotNet, trees | shadowed nodes in buffers, a header, nodes in memory and a table of terminal ones, the buffers to free on commit and on abort | set, RemoveKey, look-ups, scans, Commit, Abort, Recover, over keys of bounded or any length | `BplusTreeLong`, `BplusTreeBytes`, `PrefixTree` |
| Bruinbase pages and records | files of pages, one read cache for all of them, the end record id | open, close, read, write, append | `PageFile`, `RecordFile` |
| Bruinbase index and engine | pages of B+ tree nodes, root and height; a query that runs | open, close, insert, locate, readForward; select, load | `BTreeIndex`, `SqlEngine` (partly) |
| indexador | pages of a B+ tree in a file, a header, a dBase table | build the index, list, remove records | `ArvoreB` (partly) |
| Classaddons matrices and solvers | the storages of a matrix, a factor, the vectors of an iteration | products, reduction, sorting, elimination, sweeps | `Matrices`, `Sparse`, `Banded`, `Iterative` |
| Classaddons finite elements | lists of contributions, equation numbers, a tangent kept, nodes, design | assembly, Newton's iteration, element matrices and their derivatives, coupling | `LocalAlgebra`, `Assembly`, `Elements`, `Coupling` |
| Classaddons collectors | reference counts, free lists, blocks | ref, unref, assignment, Clean; Malloc, Realloc, Free | `Collector`, `MemChunk` |
| Classaddons optimisation (`Opt/`) | a cost along a line, a bracket, the position of a descent | Bracket::Find, Section, Parabolic, Cubic, Steep | `Optimizers` (partly) |
| Python B-trees | see `PROJECT.json` | | no |
| generated UI, parsers, packaging, tracing, tools and tests | none of interest | | no |

How the parts interact. `btree.c` calls `bfh.c` for every node it allocates,
reads, writes and frees; `bfh.c` holds an exclusive `lockf` lock from open to
close, so one process at a time is inside the index. `semaphore.c` is offered
to clients for a coarser exclusion, between processes. In the application the
GUI thread only starts threads; the threads share `GlobalVariable.rootWord`
and the database file, and nothing orders them. In BplusDotNet a
`BplusTreeBytes` keeps its values in a `LinkedFile` and their numbers in a
`BplusTreeLong`, each in a file of its own, and the prefix trees keep buckets as
its values. Bruinbase's engine calls record file and index, which both go through
`PageFile` and its one cache. Classaddons' assembler adds up what elements
give it, reduces by the boundary conditions and calls a solver of the matrix
library. The application calls none of the libraries.

What is hard, and hardly reached by a test:

* long sequences of legal calls over several sessions of a block file, whose
  free list is edited at both ends and in the middle (close);
* trees whose height changes, where nodes are moved between blocks and copies
  of them linger in slots, caches and tables;
* a transaction over two files with no write that spans both, and a crash
  between or inside their writes;
* a read or write that fails after the memory has changed;
* system calls of several processes in any order, and deaths between them;
* threads over one list without a lock, and a database that raises when its
  lock is taken;
* sums, tangents and indices that are wrong in one position or one term only.

`PROJECT.json`, `hazards`, lists them at their lines.

## 2. Modules

    BlockStore        abstract: a set of allocated blocks and their contents
      Bfh             block file handler; implements BlockStore
        BfhProofs     its inductive invariant, refinement (TLAPS)
    BTree             index over a block file
      MCBTree         from an empty tree, and from one of three levels
    Semaphore         P, V, rmsem
      SemaphoreProofs its inductive invariants (TLAPS)
    MCFileAndLock     Bfh and Semaphore
    RootWords         collector threads
      RootWordsProofs its inductive invariant (TLAPS)
    MCWordsAndTree    RootWords and MCBTree
    ChunkStore        abstract: chunks known by number
      LinkedFile      buffers and chains; implements ChunkStore
        LinkedFileProofs  its inductive invariant, refinement (TLAPS)
    AtomicMap         abstract: a map with transactions
      BplusTreeLong   shadowed nodes; implements AtomicMap
        MCBplusTreeLong   after scripts that build trees worth exploring
      BplusTreeBytes  over an AtomicMap and a ChunkStore; implements AtomicMap
        BplusTreeBytesProofs  its invariants, refinement (TLAPS)
      PrefixTree      over an AtomicMap; implements AtomicMap
        PrefixTreeProofs  its inductive invariant, refinement, scans (TLAPS)
      MCBplusDotNet   all four layers
    PageFile          pages and the shared cache
      RecordFile      records over them
        RecordFileProofs  their inductive invariant (TLAPS)
    BTreeIndex        Bruinbase's index
      SqlEngine       select and load over it
        MCBruinbase   the two, for the runs that are violated
    ArvoreB           indexador
    MCDatabases       RecordFile, BTreeIndex, SqlEngine, ArvoreB
    CursorList        abstract: a sequence with a cursor
      DoublyLinked    dll.c; implements CursorList
    Field             numbers
      LocalAlgebra, Matrices, Sparse (uses Banded), Banded, Iterative,
      Assembly, Elements, Coupling, Optimizers
    Collector, MemChunk
      LibrariesProofs  the list's invariant and refinement, the invariant of
                       reference counts (TLAPS)
      MCLibraries     DoublyLinked, Collector and the modules over Field

`MCFileAndLock`, `MCWordsAndTree`, `MCBplusDotNet`, `MCDatabases` and `MCLibraries` put several parts under one
configuration. A behaviour is one part's, named by a variable (`layer`, `part`)
that never changes; the others stay at their initial state, so each property may be
read for its part alone. The parts share no state in the code either, so no
interleaving is lost. `MCBplusDotNet` extends `BplusTreeBytes` and `LinkedFile` with their own
variables, whence the names that start with `Linked` in the latter; in the same way `MCFileAndLock`
extends `Bfh` and `Semaphore` (`SemInit`, `SemNext`), `MCWordsAndTree` extends `RootWords` and `MCBTree`
(`BTreeInit`, `BTreeNext`), and `MCLibraries` extends
`DoublyLinked` and `Collector`, and its other parts take turns at seven variables.

### BlockStore and Bfh

`store` is a function from allocated blocks to contents. In a session a client
may allocate a block outside its domain, change the content of one block, or
release one. Closing and opening change `session` only; a crash keeps the store
or loses all of it; a new file starts empty. `Bfh` maps a file marked `lost` to the
empty store.

`Bfh` numbers blocks 0, 1, ... from the first after the two header blocks
(address `2*BFHBLOCK`); `Nil` is -1L. `hdr` is the descriptor in memory, `disk`
the one in the file. A free block's `area` holds `previous_block` and
`next_block`, in the bytes where a block in use holds the client's data, as in
the code: a wrong link would damage data, and the model shows it.
The client's addresses are one more than the block's offset (the in-use
switch); the calls convert them at once, and the model has offsets only.
BfhNewBlock's and BfhFreeBlock's three cases each are actions of their own
(`NewAtEnd`, `NewFromSole`, `NewFromList`; `FreeAtEnd`, `FreeAtFront`,
`FreeAsSole`); BfhClose is `CloseBegin`, one `CloseStep` for each iteration of
its loop, and `CloseFinish`, with a crash possible between them. `magic` records
that the file's descriptor is intact: `NewFromList` overwrites it when the
list's first block has no successor. `lost` marks a file whose descriptor a
crash left behind; the code does not notice (BfhOpen trusts what it reads), and
the model explores such files no further.

### BTree

One call of the library is one action, because the file's lock keeps other
processes out. A call is written as a pipeline of operators from the tree
before to the tree after it, in the order of the code: LoadHierarchyNode
(`Evict`, `Reuse`, `FetchNode`), FlushHierarchy (with its exchange of a node's block
for a lower free one), LocateExact and LocateInsert (which do not treat equal keys
alike), Insert with both kinds of split and its retry, DeleteKey with
RemoveNodeKeyGroup, Combine with its three outcomes at each level. `tree.ok` is
the returned status: a call that fails leaves what it changed before. The block
file inside is the list-of-free-blocks view of `Bfh` for a file that `BfhClose`
has nothing to cut from (`Reopen` has that guard). `tree.stale` is history: the deepest
level at which a slot's clean copy was taken although the file holds another.
Once that has happened, or a second copy of a key went in, the model explores
no further (`Usable`): the run says what holds before.
`MCBTree` starts either from the empty tree or, in the behaviours where `deep`
holds, from a tree of three levels over which two calls in a row can split and
merge interior nodes and evict dirty slots.

### Semaphore

Every system call is a step: semget, semget with IPC_CREAT, semctl SETALL,
semop, semctl IPC_RMID. The kernel is external and modelled from what the code
relies on. `Exit` is the death of a process at any point, with SEM_UNDO. `resets`
counts SETALLs, `orphan` remembers a creator that died between semget and
SETALL. A failed `P` without pause returns -1 and not 0, because the flag test at
`src/semaphore.c:141` compares with IPC_NOWAIT while SEM_UNDO is set as well.

### RootWords

A thread's steps are its database statements, the assignment of the word, the
fetch, the two groups of assignments of the parser, the reading of the cells for
the INSERT, and the clearing. A cell's value is the word whose page it was
taken from. The pages are nondeterministic: each may give up the word, raise, or
set any of the cells it can. Left out: cell 2 (set or cleared in every case like
the phonetic), the lines that are not ASCII (skipped before anything), and
interleavings inside one group of assignments. SQLite is external: one write
lock, taken by the first INSERT of a transaction.

### LinkedFile, BplusTreeLong, BplusTreeBytes, PrefixTree

The C# classes raise exceptions and write buffers one after the other. A call of
`LinkedFile` or `BplusTreeLong` is one step computed over a record `s` of the object's
fields; `s.err` says that an exception ended it (the operators after it then leave
`s` alone), and `s.past` keeps what the file was before each write. A crash inside
the call leaves the file of some element of `past` and nothing of the object;
a failed write leaves the object as it was at that write. So every order of
writes matters and every cut is explored.

`LinkedFile` follows AllocateBuffer, StoreNewChunk, ReleaseBuffers, Flush and
Recover with checkStructure's scan. The header in the file has the head of the free list
of the last Flush. `kept` in the abstract `ChunkStore` is what a Flush has
covered; after a crash the owner may know any set of chunks with those.
`strayed` says that a stale header or a lost buffer is possible since the last
Recover: `NothingLost` is about files where it is not. Loops of the code are recursive functions
of the turn (`StoredChunk`, `Released`, `ReleaseAll`, `Path`), so that the prover can reason about them.

`BplusTreeLong` has nodes of the arrays, of the materialized children, and
of what a node in memory remembers (its buffer, dirty, its place in the table of
terminal nodes). Leaves split, nodes merge, the table of terminal nodes overflows and
invalidates its oldest, Commit writes fresh buffers, the header, and frees the
old ones. `Recover` marks unused buffers free. `AtomicMap` sees two maps: the
keys reached from the header in the file and those of the tree in memory.

`BplusTreeBytes` takes the two files as what the other modules show them to
be: each step is one call on one of them, so a process may die between them.
`littered` says that something died or a long key was refused since the last
Recover; a chunk may then be nobody's.

`PrefixTree` has a function from keys to prefixes, one in order (prefixes of
`xBplusTreeBytes`), one out of order and colliding (hashes of
`hBplusTreeBytes`); a set that would make a bucket too large is refused and changes nothing. A
scan is FirstKey and NextKey until null (`Walk`): the keys come in the order of prefixes,
then of keys (`ScansInOrder`), and each comes once (`WalkMeetsAll`).

### PageFile, RecordFile, BTreeIndex, SqlEngine

`PageFile` has the cache's slots with descriptor, page and age; a read that
fails leaves the slot labelled with the old page's content, and one more
variable of `RecordFile` (`tainted`) marks files written from such a page. As
the engine uses them, no file is open twice.

`BTreeIndex` models the pages as the nodes' linked lists are written: `count`
as it is stored, the list cut to what the page holds, splits that lose what they
lose. The root and the height are in the last page, which `close` appends. What
the splits keep is little: a leaf that splits below other nodes is not written, a
second inner split writes the first one's new page again. `LeavesSound` states what
does hold, and `Located` (run `index_locate`) what the header promises. `locate`
goes down one level too far: it takes the page of a record in the table for a page of the index,
and so finds a key only by accident, as in a tree of one leaf over a table of one page. A page that is not
in the file leaves the cursor as it was; a page without entries is read through NULL (`crashed`).

`SqlEngine` extends `BTreeIndex`: its variables are the index's file and the index object of the call
that runs. select has its three phases, the conditions folded into
bounds in the order of the where clause, then the look-up, the walk of the index
or the scan; load appends a record and inserts its id, line by line. select ignores what `locate` and,
but for the end of the tree, `readForward` return, and the cursor is not set before:
its bytes are a choice (`Cursors`). `SelectsOnlyWanted` says of a scan in any case that it prints
rows that meet the whole where clause, in order, and all of them when it ends without an error. Of the index it says less,
since the code does less. Where the index mirrors the table (`Mirrors`, the accidental case above)
and the search has what it looks for (`Found`: some key reaches the bound; of an equality, the key itself is there and the
conditions come in an order the planner has right), rows that are printed are wanted ones, in the order of the keys, once each, and
no wanted row is missing but perhaps the one of the greatest key (`MayBeMissed`). The header promises that row too:
the walk stops at RC_END_OF_TREE before it looks at the entry that came with it (757). That is
`RangeIsPrinted`, violated by the run `select_range`. A refused query asks for no row when its conditions
come in an order the planner has right (`Regular`). Nothing is
said of the orders and look-ups it gets wrong; section 6 lists them.

### ArvoreB

Pages and names are those of `arvoreb.cpp`. The model indexes a table, then
removes records, with the sharing and joining of leaves and inner pages, the
header with the first leaf, the exits of the program. strcmp is assumed to return
-1, 0 or 1, as the macros of `arvoreb.h` need.

### Classaddons

A double is a member of the field of integers modulo a prime (`Field`): the
library's formulas are rational, so an identity that holds of the doubles but for
rounding holds in every field where nothing is divided by zero, and a wrong index, sign or term shows in a
field too. What is left out by this are rounding, tolerances and orders of
magnitude. Derivatives of polynomials are taken from values at all points of
the field, so "is the derivative" is exact.

`LocalAlgebra`: an element's vectors and matrices as lists that mean sums, with
sort, squeeze, products, derivatives and the sums into a system. `Matrices`: each class's own
storage, which grows where it is written, with Pre, Post, elimination and rotation;
the reference is the padded dense matrix. `Sparse`: the entry list, grouping, reduction, the
solver that keeps what it read. `Banded`: elimination in place in the compressed band.
`Iterative`: one pass of each solver's loop a step.
`Assembly`: equations numbered as elements are added, the kept tangent, LocalReduce and
NewtonRaphson. `Elements`: basis functions, transformation, properties and the
element matrices with their derivatives by temperature and by design, with the transformation
that the elements of a class share and that their forces use as it was left. `Coupling`:
several systems under one numbering. `Optimizers`: Bracket::Find and the golden section over
integer points, which only compare; and, over the field, the cost along a line, the
parabolas and cubics fitted to it, and steepest descent with the parabolic search. In the
section the points that the code takes at a golden ratio are any that lie between the same two, and a
valley may have one hump. `SectionKeepsTheLeast` is about brackets with a < c: for one with a > c the
ends are exchanged but x1 and x2 are not (`StdOpt.c:194-214`), and the section may lose the least
point. A descent that is asked to go on at a zero gradient divides by its length (`lost`).
`Collector`: reference counts in both collectors.
`MemChunk`: BlockAllocator under chunks.

### DoublyLinked

The list with DLLCACHE nodes allocated at a time, and a malloc that fails after
`MaxNodes`. Two calls may write through NULL; the process then dies (`state`).
`CursorList` is the list as the code keeps it, and no document's promise: after a delete the item that follows becomes
current (`dll.c:430-437`), the one before only behind the last. The header of DLL_Delete (382-384) and the
comment at 431 say the prior one; that is `PriorAfterDelete`, violated by the run `dll_delete`.

## 3. Runs

| Run | Result | Shows |
|---|---|---|
| `file_and_lock` | pass, 368 555 states | `Bfh`: `FreeListSound`: links and ends of the free list stay among the free blocks; `HandsOutFresh`: no block in use is handed out; `ImplementsStore`: refinement of `BlockStore`. `Semaphore`: `NoExtraUnit`, `NotStranded` (no death but that of a creator before SETALL leaves everybody out), `WaiterServed` (liveness, but for the semaphore such a creator leaves) |
| `words_and_tree` | pass, 517 972 states | `RootWords`: `QuietRunsSaveTheirWords`: threads one after the other save each parsed word's own row; any interleaving: a death loses less than a batch (`LossBounded`), every thread ends (`EveryThreadEnds`, liveness). `BTree`: `TreeHoldsKeys`: the tree's keys are those inserted and not deleted; `TreeWellShaped`: sorted, all leaves at one depth, every block in use reached once; `TreeAnswers`: Locate finds the keys held and no others, InsertKey takes every key not held, DeleteKey every key held; `TreeWalksMeetAll`: a walk up from First and one down from Last meet every key; `TreeCloseSaves`: what Close leaves in the file is the tree |
| `bplus_dotnet` | pass, 297 799 states | refinements `IsChunkStore` (linked file), `TreeIsAtomicMap`, `IsAtomicMap` (two files), `IsPrefixMap`; no buffer has two owners (`LinkedOneOwner`) or none (`NothingLost`, `TreeSound`), no chunk of a committed key is touched (`Intact`) or forgotten (`ChunksAccounted`); scans meet every key, each followed by the next (`ScansAgree`) |
| `databases` | pass, 624 373 states | `RecordsKept`: a file has the records whose append succeeded, in order; `CacheSound`: a slot holds its page; `LeavesSound`; `SelectsOnlyWanted`: select prints rows that meet the where clause, once each, all of them by a scan, all but perhaps the greatest by the index (under the premises of section 2); `ArvoreCompleta`: balanced, in order, the chain of leaves complete, until a removal saves pages at stale positions; `EntradaCerta`: an entry points at a record of its name |
| `libraries` | pass, 313 867 states | `ListsMeanSums`, `StorageNeverShows`, `SolversSolve` (with the searches of `Optimizers`), `HeldObjectsLive`, `NewtonKeepsConditions`, `TangentIsDerivative`, `ElementsDifferentiate`, `SystemsActAsOne`; `IsCursorList`: refinement of `CursorList`, the cursor by the code's rule |
| `bfh_first` | violated | a first free block without a last one, after two closes |
| `btree_first` | violated | First does not see the key of a refilled tree |
| `semaphore_race` | violated | two creators: both get in |
| `index_locate` | violated | an inserted key is not located |
| `select_range` | violated | a range read through the index lacks the row of the greatest key |
| `dll_delete` | violated | after a delete the next node is current, where the header has the prior one |
| `blocks_two_owners` | violated | a freed block is handed out twice |

A violated run checks one statement of a comment or document of the repository;
`PROJECT.json`, `findings`, quotes it.

What some of the properties do not catch, though the model reaches it: `NotStranded` and `WaiterServed`
exempt the semaphore of a creator that died before SETALL, on which everybody waits for ever; `QuietRunsSaveTheirWords` is
about threads one after the other, since those that interleave do mix their rows; `EveryThreadEnds` would
hold if a thread never let SQLite's lock go, as the others time out; `HeldObjectsLive` ends where an
object is revived by its own assignment; `SystemsActAsOne` is about products of systems that share no equation
and about MultiCoupler's Tangent under the identity map; `ElementsDifferentiate` has the element's own transformation
attached; the properties of `ArvoreB` end with a removal that saves pages at stale positions; `StorageNeverShows`
is, of tridiagonal matrices, about Post of symmetric ones only.

Bounds, and why they are enough.

* `Bfh`: four blocks and one written value beside the zeros. A list of four has a
  head, a tail and inner blocks, is entered at both ends, and a close can cut
  several blocks in one go and meet one in use. Sessions and crashes are
  unbounded. `bfh_first` needs five: with fewer the file cannot get there. The
  proofs cover every number of blocks.
* `BTree`: `InsertCap = 5`, the least number of keys the code's test
  `total_node_keys < 5` lets split; `CombineCap = 6` keeps the code's off-by-one
  (170 keys against 169). Seven keys over the empty tree split the root, merge it
  back and empty it; the deep behaviours start from 21 keys, the least number that
  makes three levels by ascending insertion, and use keys beside the
  places where interior nodes split and merge. `Levels = 3` bounds the slots,
  `MaxHeld` the keys in the tree. Duplicates are off.
* `Semaphore`: three processes (one inside, one waiting, one creating,
  removing or dying) and one creation; sequences of creations and removals are
  bounded by `MaxSets` (two processes with two sets and three with two were also
  tried, with the same result). The proof covers any finite number of both.
* `RootWords`: two threads, two words, batches of two: a last batch that is
  complete and one that is not, and a row of each thread beside the other's.
* `LinkedFile`: chunks of one and of two buffers, two alive in a file of three
  buffers, two losses: a chain is cut, a buffer freed and taken again, and a Recover
  is itself interrupted. `BplusTreeLong`: five keys in nodes of two and of four, after
  scripts that build three levels, a transaction under way and a full table of
  terminal nodes (every way there would be millions of states); one crash.
  `BplusTreeBytes`: two keys and one too long, three chunk numbers, deaths
  unbounded. `PrefixTree`: four keys in one, two and three buckets, of two keys or of any number.
* `RecordFile`: two files, two objects, two pages of two records, six records in all, a
  cache of two slots, one fault: pages evict each other, and descriptors are reused. `BTreeIndex`: pages
  of four entries and seven inserts: a leaf splits, a second level grows and is
  closed and opened again. `SqlEngine`: two loads of one and three lines with or without index, so that the first page of
  the table and the leaf fill, a second page and a root above the leaf come, and keys repeat; two conditions, on keys around the
  one that every comparison names; one fault (`select_range`: one load of three rows, one condition, no fault); `MaxOut` rows, as a walk whose cursor is invalid prints for ever. `ArvoreB`: pages of four keys, every order of five
  names but for the first two, which share a leaf, and two orders of 14 and 17 that build
  three levels; four removals, after which the index may be made again.
* Classaddons: two or three rows, a prime with which the divisions of the
  formulas can all occur, enough changes to use a kept tangent, factor or list after the
  next change. The quadrilateral, the line and the tetrahedron are all tried at
  four, two and eight Gauss points. The section looks into valleys of every
  slope and place on a few points around its start. Four nodes of the list: two allocations of two.

Deadlock is checked for `Bfh` and `Semaphore` (`file_and_lock`). `BTree` may have nothing left to do
once a copy was stale, the threads of `RootWords` end, and in the other modules the
bounds, a death of the process or the end of a solver's loop stop a behaviour.

Fairness. `Semaphore`: a process inside a call goes on (`WF` of `Step`), and the
kernel serves the waiters of a semaphore in turn, so who can be served again and
again is served (`SF` of `Take`). That those inside leave is not assumed of
every run; it is the premise of `WaiterServed`. `RootWords`: a thread that runs
goes on (`WF` of its `Step`): requests have timeouts and a statement on a locked
database raises after a while, which is how the model has them. The other modules have
no liveness properties: a library does nothing by itself, and its calls return.

Every property of a passing run has a mutant, a plausible slip in the code
(`Bug_...`, beside the definition it changes) with which TLC finds the property
violated.

## 4. Proofs

`BfhProofs`, for every number of blocks and every set of values:

* `IInv == TypeOK /\ FreeListSound /\ ClosedSound /\ ClosingSound` is inductive
  (`Invariance`). `FreeListSound` alone is not: an open takes the file's descriptor,
  so `ClosedSound` says that between sessions this is the descriptor the blocks agree
  with; and a close must be known to have passed free blocks only, without
  neighbours as long as nothing is to be cut (`ClosingSound`), else the
  end of the file could fall below a block in use, or a block that stays in the
  file could keep a link to one that does not. One lemma for each
  action, and under it one step for each part it can disturb.
* `TypeCorrect`, `FreeListIsSound`, `NewBlockIsFresh` follow.
* `StoreImplemented`: each step maps to a step of `BlockStore` or to a stutter.
  The close needs the invariant: what it unlinks and cuts off is not in use.

The assumption is `BfhAssumption` of `Bfh.tla` only (`MaxBlocks` a natural
number, the values are not links).

`SemaphoreProofs`, for every finite set of processes and any number of creations:
`UnitsAreCounted` (`NoExtraUnit`: processes inside plus free units never exceed
the SETALLs, so a semaphore made once excludes), `TypeCorrect` and
`NobodyIsStranded` (`NotStranded`). The
invariant adds that a process inside V is inside the area and one inside P is
not (`CallsPaired`), and what its undo count is in each case (`UndoOfInside`):
without that, a death could add a unit twice. `NotStranded` says that a value of
zero has an owner, which no step preserves by itself; what every step keeps is that
units are conserved: a semop moves one between the value and the caller's undo
count, an exit moves it back, and so from SETALL on the value plus the processes owed
one exceeds those owing one (`UnitThere`).

`RootWordsProofs`, for every file of words, any number of clicks and any size of a
batch: `LessThanABatch` (`LossBounded`) and `QuietRunsSave`
(`QuietRunsSaveTheirWords`). The rows of the open transaction carry numbers of the
writer's current batch, and a full batch is committed before anything else
(`BatchInv`); the step is arithmetic on quotients (`BatchStarts`, `BatchGoesOn`). The quiet
half needs what the property does not mention: one thread runs, which cells are
filled at each of its steps (`CellsOf`, `CellsEmpty`), and that the words parsed so far are those of
the table, the transaction and the row about to be inserted (`Saved`).

`RecordFileProofs`, for any number of files, objects, records of a page and slots
of the cache: `AppendsAreKept` (`RecordsKept`), `CacheIsSound` (`CacheSound`)
and `TypeCorrect`. The cache survives the reuse of descriptors for one reason, which is in the
invariant: a slot in use, after a failed read too, is labelled with the descriptor of an
open object and a page its file has (`CacheInv`), and open objects share neither
descriptor nor file (`Apart`). `RecordsKept` needs that all pages but the last
are full (`AllButLastFull`), so that the count of appends says where the
next record goes (`EndInv`), whoever opened the file last. It is stated by
pages and places, as `rid`s address them (`KeepsAppended`).

`BplusTreeBytesProofs`, for every set of keys, contents and chunk numbers, and any
number of deaths: `Intact` (`CommittedIntact`), `OneKeyEach` (`NoChunkShared`), `ChunksAccounted`
(`NoChunkForgotten`) and `TypeCorrect`. `Intact` alone is not inductive; the invariant `IInv` adds
what each release relies on: the transaction's own chunks are on no disk
(`OwnNotCommitted`), those that wait for the commit are held by no key
(`PendingNotHeld`) and still stored (`PendingStored`), a committed chunk is held or waits,
so Recover leaves it (`CommittedInUse`), a chunk just stored is nobody's
(`NewIsNew`), and where in a commit the files agree (`Phases`). A second
invariant over the first, `LInv`, accounts for the chunks in the other direction: while
nothing died, every stored one is held or waits (`HeldOrPending`) and is the transaction's or
committed (`StoredOwnOrCommitted`), the half that an abort leaves behind; for what is
held or waits the latter is true after a death as well (`UsedOwnOrCommitted`), which is what a
Recover starts over from.

`BytesAreAtomicMap`, in the same module: that is `Spec => IsAtomicMap`. Each step
leaves the committed bytes and the bytes as read, or is one step of `AtomicMap`: a set or a removal takes
effect when the chunk is stored or retired, a commit at the tree's commit, an
abort at its start, a death whenever it comes. Lemmas say when the bytes of a map stay though
chunks change; the invariant says that these are the chunks that change. The
assumption is `BytesAssumption` (long keys are keys; `None` is no chunk
and no content). What the two files promise by themselves enters as the
definition of the module's steps; the linked file's is proved (`LinkedFileIsChunkStore`), that of
`BplusTreeLong` checked by `bplus_dotnet`.

`LinkedFileProofs`, for any values, sizes of values, lengths of the file and numbers of crashes:
`TypeCorrect`; `OneOwnerAlways`, that is `LinkedSpec => []LinkedOneOwner`;
`NothingLostEver`, that is `LinkedSpec => []NothingLost`; and
`LinkedFileIsChunkStore`, that is `LinkedSpec => IsChunkStore`. `OneOwner` speaks of lists that are well
formed and follows pointers from them; it is not inductive, since a stale header may start a list that
runs into buffers written since. The invariant `IInv` therefore names what each chunk
owns: there is an assignment of buffers to the live chunks under which every chunk reads as it was
stored, no buffer is given twice (`Owned`), the list in memory avoids all of these buffers,
and the list of the header avoids those of the chunks a Flush has covered. That a list avoids a set
(`ListAvoids`) asks for a set of buffers that has the list's start, is closed under the next pointers of
buffers marked free, along which a rank falls (so that there are no cycles), and has none of the buffers to avoid.
The list may end at a buffer that is not marked free, as a stale one does; AllocateBuffer raises there.
Since a crash or a failed write may end a call at any of its writes, each loop carries the same facts for
every element of `past` besides those of the state it is in (`Held`, `PastHeld`). Recover releases the
chunks nobody knows, which is safe because `Sound`, which it tests, gives every buffer one
predecessor. What a recursive function does is proved by the least turn at
which it would do something else (`RunExists`), as for scans.

`NothingLost` needs more than `IInv`, which says where the free list may not go and not that it
holds every free buffer. The second invariant `LInv` says that as long as nothing strayed
the lists are exact (`Exact`): a list from the head in memory meets the free buffers, each once, and
ends, and the buffers in use are those met from the chunks somebody knows. It is kept through each
call by what the loop has done so far: of a store, that the free list has every free buffer but the one
handed out and that the buffers written lead from the first to that one (`Lined`); of a release, that the buffers
freed stand before the old free list and the rest of the chunk is still a list (`Rest`). `RecoveredOK` proves that a
Recover which does not raise makes exact lists of any file: `Sound` gives each buffer one place in
one list (`SoundIsExact`), and releasing the chunks nobody knows leaves those of the others (`FreedExact`).
That no call raises needs besides that the end of the file is not left handed out
(`recent # Len(file)`): a failed write breaks that, until the file is opened again or a pop
clears `recent`, and a store with an empty free list then raises before it has written anything (`Stuck`).

`PrefixTreeProofs`, for every set of keys, every limit and every function that makes prefixes or
hashes of keys: `BucketsInOrder`, that is `Spec => [](TypeOK /\ BucketsOK)`, which is inductive with the
keys' types; `PrefixTreeIsAtomicMap`, that is `Spec => IsAtomicMap`: a tree is determined by the set of its
entries (`Flat`), and adding to a bucket, removing from it and dropping an emptied one
change one entry; `ScansAreInOrder` and `NextKeyIsLeastAbove`: NextKey answers with the
key that follows, also for a key that is not there when prefixes are in order; and
`ScansMeetAll`, that is `Spec => []WalkMeetsAll` for finite sets of keys: the scan ends and has every key of the
tree once. The scan is a recursive function (`Scan`), and what it gives from every key is proved by the
least number of steps at which it would give something else (the well-foundedness of the
naturals), since an induction cannot be cited.

`LibrariesProofs`, of the list, for any data, any number of nodes allocated at a time and
every malloc that fails: `LinksAreTheList`, that is `Spec => IsCursorList`, the list with its cursor as the code
moves it. The
invariant says that there are two sequences of nodes, the listed and the vacant ones, which part
the nodes allocated, and that links, heads and counters stand for them (`Standing`);
each call is proved to put one node in or leave one out of a sequence
(`PartedTaken`, `PartedGiven`), and a failed malloc is remembered by a list
with no vacant node, which is where a delete may die. `Contents` and `Shown`
walk the links; that a walk meets exactly the nodes of the sequence is proved by the least
place at which it would not (`Least`, `WalkIs`, from the well-foundedness of finite sets), since an
induction cannot be cited.

`LibrariesProofs`, of the collectors, for any finite set of pointers, any number of blocks and any size of a
pool but zero: `HeldObjectsStay`, that is `CollectorSpec => []HeldObjectsLive`. The invariant
(`Sound`) is stated of a state's parts, so that it can be asked of the state halfway through an
assignment: `UnrefKeeps` shows that unref leaves it as it is with the pointer out of scope,
`RefKeeps` that ref leaves it as it is with the pointer on the object, and `Assign` is the two
in turn. That the second half may meet an object which the first has dropped is in the
hypothesis that the program goes on (`fate`): then `ref` finds a count below zero. A free list
that is empty means that no count is below zero (`AddPoolKeeps`), and whoever takes its first block takes one
without holders (`TakeKeeps`). The assumption is `CollectorAssumption`: finitely many
pointers, and pools of at least one block.

The assumptions are the named ones of each module (`SemaphoreAssumption`,
`RootWordsAssumption`, `PageAssumption` and `RecordAssumption`, `BytesAssumption`,
`LinkedAssumption`, `DllAssumption`, `CollectorAssumption`); TLC evaluates them in the runs.

Checked by TLC only: everything about `BTree`, `BplusTreeLong`,
`BTreeIndex`, `ArvoreB`, `SqlEngine` and the modules over `Field` (their operators are recursive or fold over
data, which no theorem may reach; written as recursive functions they would need an argument
by least counterexamples like that of `ScansMeetAll`, for each of them), `MemChunk`, and the
liveness properties, which are out of the prover's reach.

## 5. Not modelled, and why

* I/O errors inside a call of `btree.1.1`, a full disk and failed allocation there: the code's reaction
  (early return with changed memory) is listed as a hazard.
* A crash of the `btree.1.1` index: nothing in the code recovers; the header is only
  written at Close.
* In `BTree`: user data and Update, variable-length keys, client comparison
  functions, a cursor kept across an update (the code then dereferences
  NULL), trees with duplicates.
* In `RootWords`: the widgets, the wording of pages, the file dialog's threading.
* `FileParser`: its INSERT has 14 placeholders for 15 values and raises at the
  first finished word; nothing behind it is ever reached.
* In BplusDotNet: key encodings and culture comparison, the string wrapper, and
  the Java and Python ports, which repeat the code.
* In Bruinbase: the generated lexer and parser (`lex.sql.c`, `SqlParser.tab.c`), the
  command loop, failing reads of index pages; two of the three copies of
  `SqlEngine.cc` that stand between merge markers (they differ in a `rc = 0`).
* In Classaddons: rounding, tolerances and the speed of convergence, transient domains, input files
  and printing. Of the optimisers: Cubic beyond its fit and its turns, BFGS, Poly5 (which asks an
  external program), DOTOpt (an external library).
* The Python B-trees: exercise code without deletion, crash or sharing.
* The components marked "no" in section 1.

## 6. Known disagreements that no run shows

Met while modelling, and left out of the states explored or of the premises
of a property, at the definition that says so:

* `bfh.c:351`: a sole free block at the end of the file is not cut by the close and is
  lost to the list. `btree.c:539`: a tree without duplicates accepts a second copy of a node's
  first key; with duplicates, `HoldsKeys` fails after eight steps. `btree.c:1367`: a slot of a
  level the tree no longer has serves an old copy later.
* A second click in the application mixes the cells of two words in a row.
* `BplusTreeLong`: Recover(true) raises on some files a crash leaves, and RemoveKey never
  shrinks the footprint.
* `SqlEngine`: with an index, `>=` with no upper bound before it is refused (665-680), an equality with an absent key prints
  another key's row (698-753), an equality after an inequality is compared the wrong way round, a walk
  from a bound no key reaches prints one row for ever; a load without
  index leaves the old index in place, an append that fails leaves an entry for the record that comes next (953-957).
* `BTreeIndex`: a leaf that is split below other nodes is not written (165-170).
* `ArvoreB`: removal below inner pages saves pages at stale positions (974-982).
* Classaddons: products with a tridiagonal matrix are transposed by Pre and Post alike, a symmetric sparse
  matrix is read by its upper half only, NonSymConj solves with the unmultiplied right-hand side,
  MultiCoupler's Tangent maps columns twice and its products assign where two
  systems share an equation, an assignment of a sole GCPtr to itself revives its object.
* Classaddons' elements: the convection force is formed with the transformation that was attached last
  (`Elem2.c:20`, `Finite.c:448`). `SteadyAssembler::Residual` forms all matrices and then all forces, so on elements
  of different lengths every force has the last one's Jacobian, and for a radiation law the
  tangent is not the "DR/Du" of `ResSystem.c:206`. `TangentIsExact` has the element's own attached.
* Classaddons' optimisers: besides the section's bracket above, LineFunc::GradMag is the signed slope, so that
  Cubic's loop (`StdOpt.c:302`) goes on while it is below eps; BFGS starts from a B of zeros, whose direction is
  0/0 (470-474); Steep::Iterate never sets the count that Optimize adds up (`Opt.c:86`).
* `dll.c`: after a failed insert a delete writes through NULL (441), and so does
  DLL_Prev on an empty list (323).

## 7. Plan

1. Done: the block file handler, the index, the semaphore and the collector threads; then BplusDotNet
   with its refinements and their proof, Bruinbase, indexador, the list, and Classaddons.
2. Next to model: cursor operations of `BTree` and trees with duplicates;
   transient domains of Classaddons.
3. Proved: the block file handler, the semaphore, the collector threads, record files and
   their cache, the list, the tree of byte arrays over its two files, the prefix trees with their scans, the
   linked file as a store of chunks that loses no buffer, and reference counts.
4. Next to prove: lemmas about the parts of `BTreeIndex` that are not recursive.
