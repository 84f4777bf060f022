-------------------------- MODULE RecordFileProofs ---------------------------
(* Proofs about record files over their shared page cache, for any number  *)
(* of files, objects, slots of the cache and records of a page.            *)
EXTENDS RecordFile, FiniteSetTheorems, SequenceTheorems, WellFoundedInduction, TLAPS

(***************************************************************************)
(* What the invariants need to be inductive.  Open objects share neither a *)
(* descriptor nor a file.  A slot in use, filled by a read that failed or  *)
(* not, carries the descriptor of an open object and the number of a page  *)
(* of its file: so the descriptor the kernel gives next labels none.  All  *)
(* pages of a file but the last are full.                                  *)
(***************************************************************************)
Used(c, i) == c[i].lastAccessed # 0

Apart(obj) ==
  \A o, p \in Objects : o # p /\ obj[o].fd # -1 /\ obj[p].fd # -1 =>
    obj[o].fd # obj[p].fd /\ obj[o].file # obj[p].file

Holds(c, i, obj, d, o) ==
  /\ obj[o].fd # -1 /\ obj[o].fd = c[i].fd
  /\ c[i].pid < Len(d[obj[o].file])
  /\ ~ c[i].failed => c[i].buffer = d[obj[o].file][c[i].pid + 1]

OnceEach(c) ==
  \A i, j \in Slots :
    Used(c, i) /\ Used(c, j) /\ c[i].fd = c[j].fd /\ c[i].pid = c[j].pid => i = j

CacheInv(c, obj, d) ==
  /\ c \in [Slots -> Slot] /\ OnceEach(c)
  /\ \A i \in Slots : Used(c, i) => \E o \in Objects : Holds(c, i, obj, d, o)

(* The pages of a file, how many records n full pages and all pages have,  *)
(* and that they are the ones of a list, in its order.                     *)
AllButLastFull(pages) ==
  \A p \in 1 .. Len(pages) :
    Len(pages[p]) > 0 /\ (p < Len(pages) => Len(pages[p]) = RECORDS_PER_PAGE)

OnPages(n) == n * RECORDS_PER_PAGE

Count(pages) ==
  IF pages = <<>> THEN 0 ELSE OnPages(Len(pages) - 1) + Len(pages[Len(pages)])

SameRecords(pages, recs) ==
  \A p \in 1 .. Len(pages) : \A s \in 1 .. Len(pages[p]) :
    pages[p][s] = recs[OnPages(p - 1) + s]

FileInv(f) ==
  /\ Len(disk[f]) <= MaxPages /\ AllButLastFull(disk[f])
  /\ Len(written[f]) = Count(disk[f])
  /\ f \notin tainted => SameRecords(disk[f], written[f])

(* The id behind the last record of a file of these pages.                 *)
EndOfPages(pages) ==
  IF pages = <<>> THEN Rid(0, 0)
  ELSE IF Len(pages[Len(pages)]) >= RECORDS_PER_PAGE THEN Rid(Len(pages), 0)
  ELSE Rid(Len(pages) - 1, Len(pages[Len(pages)]))

EndRid(f) == EndOfPages(disk[f])

EndInv(o) ==
  IsOpen(o) => Epid(o) = Len(disk[object[o].file]) /\ erid[o] = EndRid(object[o].file)

IInv ==
  /\ TypeOK /\ Apart(object) /\ CacheInv(readCache, object, disk)
  /\ \A f \in Files : FileInv(f)
  /\ \A o \in Objects : EndInv(o)

-----------------------------------------------------------------------------
(* What a page may hold: at most RECORDS_PER_PAGE records.                 *)
LEMMA PagesAreSequences ==
  /\ Contents = { s \in Seq(Records \cup {Blank}) : Len(s) <= RECORDS_PER_PAGE }
  /\ <<>> \in Contents
<1>1. RECORDS_PER_PAGE \in Nat
  BY RecordAssumption DEF RecordAssumption
<1>2. ASSUME NEW c \in Contents
      PROVE  c \in Seq(Records \cup {Blank}) /\ Len(c) <= RECORDS_PER_PAGE
  <2>1. PICK n \in 0 .. RECORDS_PER_PAGE : c \in [1 .. n -> Records \cup {Blank}]
    BY RecordAssumption DEF RecordAssumption
  <2> QED
    BY <2>1, <1>1
<1>3. ASSUME NEW s \in Seq(Records \cup {Blank}), Len(s) <= RECORDS_PER_PAGE
      PROVE  s \in Contents
  <2>1. s \in [1 .. Len(s) -> Records \cup {Blank}] /\ Len(s) \in 0 .. RECORDS_PER_PAGE
    BY <1>1, <1>3
  <2> QED
    BY <2>1, RecordAssumption DEF RecordAssumption
<1> QED
  BY <1>2, <1>3, PageAssumption, RecordAssumption DEF PageAssumption, RecordAssumption

(* A descriptor is never the one of a closed object, nor that of an empty  *)
(* slot.                                                                   *)
LEMMA DescriptorsAreLarge == Fds \subseteq Nat /\ \A d \in Fds : d >= 3
BY PageAssumption, FS_CardinalityType DEF PageAssumption, Fds

(* Counting accesses from the oldest changes nothing else of a slot, and   *)
(* a slot is in use after as before, or is the one just touched.           *)
LEMMA TouchedSlots ==
  ASSUME NEW c \in [Slots -> Slot], NEW i \in Slots
  PROVE  /\ Touched(c, i) \in [Slots -> Slot]
         /\ \A j \in Slots :
              /\ Touched(c, i)[j].fd = c[j].fd /\ Touched(c, i)[j].pid = c[j].pid
              /\ Touched(c, i)[j].failed = c[j].failed
              /\ Touched(c, i)[j].buffer = c[j].buffer
              /\ Used(Touched(c, i), j) <=> j = i \/ Used(c, j)
<1> DEFINE b == [c EXCEPT ![i].lastAccessed = CACHE_COUNT + 1]
           older(j) == { k \in Slots : 0 < b[k].lastAccessed
                                         /\ b[k].lastAccessed <= b[j].lastAccessed }
<1>1. CACHE_COUNT \in Nat \ {0}
  BY PageAssumption DEF PageAssumption
<1>2. \A j \in Slots : /\ b[j].lastAccessed \in Nat
                       /\ b[j].lastAccessed # 0 <=> j = i \/ Used(c, j)
  BY <1>1 DEF Slot, Used
<1>3. ASSUME NEW j \in Slots
      PROVE  /\ Cardinality(older(j)) \in 0 .. CACHE_COUNT
             /\ Cardinality(older(j)) # 0 <=> b[j].lastAccessed # 0
  <2>1. IsFiniteSet(Slots) /\ Cardinality(Slots) = CACHE_COUNT
    BY <1>1, FS_Interval DEF Slots
  <2>2. older(j) \subseteq Slots
    OBVIOUS
  <2>3. IsFiniteSet(older(j)) /\ Cardinality(older(j)) <= CACHE_COUNT
    BY <2>1, <2>2, FS_Subset
  <2>4. Cardinality(older(j)) \in Nat
    BY <2>3, FS_CardinalityType
  <2>5. Cardinality(older(j)) = 0 <=> older(j) = {}
    BY <2>3, FS_EmptySet
  <2>6. older(j) = {} <=> b[j].lastAccessed = 0
    BY <1>2
  <2> QED
    BY <1>1, <2>3, <2>4, <2>5, <2>6
<1>4. \A j \in Slots :
        Touched(c, i)[j] = [b[j] EXCEPT !.lastAccessed = Cardinality(older(j))]
  BY DEF Touched, Aged
<1>5. \A j \in Slots : /\ b[j].fd = c[j].fd /\ b[j].pid = c[j].pid
                       /\ b[j].failed = c[j].failed /\ b[j].buffer = c[j].buffer
  OBVIOUS
<1>8. \A j \in Slots : b[j] \in [fd : {0} \cup Fds, pid : 0 .. MaxPages, failed : BOOLEAN,
                              lastAccessed : Nat, buffer : Contents]
  BY <1>1 DEF Slot
<1> HIDE DEF b, older
<1>6. ASSUME NEW j \in Slots
      PROVE  /\ Touched(c, i)[j] \in Slot
             /\ Touched(c, i)[j].fd = c[j].fd /\ Touched(c, i)[j].pid = c[j].pid
             /\ Touched(c, i)[j].failed = c[j].failed
             /\ Touched(c, i)[j].buffer = c[j].buffer
             /\ Used(Touched(c, i), j) <=> j = i \/ Used(c, j)
  BY <1>2, <1>3, <1>4, <1>5, <1>8 DEF Slot, Used
<1>7. Touched(c, i) = [j \in Slots |-> Touched(c, i)[j]]
  BY DEF Touched, Aged
<1> QED
  BY <1>6, <1>7

(* The slot to evict is one of the cache.                                  *)
LEMMA EvictsASlot ==
  ASSUME NEW c \in [Slots -> Slot]
  PROVE  ToEvict(c) \in Slots
<1> DEFINE Clock(T) == { c[i].lastAccessed : i \in T }
           Less == OpToRel(<, Nat)
<1>1. IsWellFoundedOn(Less, Nat)
  BY NatLessThanWellFounded
<1>2. \A x, y \in Nat : <<x, y>> \in Less <=> x < y
  BY DEF OpToRel
<1>3. CACHE_COUNT \in Nat \ {0} /\ Slots = 1 .. CACHE_COUNT /\ 1 \in Slots
  BY PageAssumption DEF PageAssumption, Slots
<1>4. \A i \in Slots : c[i].lastAccessed \in Nat
  BY <1>3 DEF Slot
<1> HIDE DEF Less
<1>5. \A T \in SUBSET Nat : T # {} => \E x \in T : \A y \in T : ~ (<<y, x>> \in Less)
  BY <1>1, WFMin
<1>6. \A T \in SUBSET Nat : T # {} => \E x \in T : \A y \in T : x <= y
  <2> SUFFICES ASSUME NEW T \in SUBSET Nat, T # {} PROVE \E x \in T : \A y \in T : x <= y
    OBVIOUS
  <2>1. PICK x \in T : \A y \in T : ~ (<<y, x>> \in Less)
    BY <1>5
  <2>2. ASSUME NEW y \in T PROVE x <= y
    <3>1. x \in Nat /\ y \in Nat /\ ~ (y < x)
      BY <1>2, <2>1, Zenon
    <3> QED
      BY <3>1
  <2> QED
    BY <2>2
<1>7. PICK x \in Clock(Slots) : \A y \in Clock(Slots) : x <= y
  <2>1. Clock(Slots) # {} /\ Clock(Slots) \subseteq Nat
    BY <1>3, <1>4
  <2> QED
    BY <1>6, <2>1
<1>8. PICK i \in { k \in Slots : c[k].lastAccessed = x } :
        \A j \in { k \in Slots : c[k].lastAccessed = x } : i <= j
  <2>1. { k \in Slots : c[k].lastAccessed = x } # {}
    BY <1>7
  <2>2. { k \in Slots : c[k].lastAccessed = x } \subseteq Nat
    BY <1>3
  <2> QED
    BY <1>6, <2>1, <2>2
<1>9. \A j \in Slots : \/ c[i].lastAccessed < c[j].lastAccessed
                       \/ c[i].lastAccessed = c[j].lastAccessed /\ i <= j
  <2> TAKE j \in Slots
  <2>1. c[j].lastAccessed \in Clock(Slots) /\ c[j].lastAccessed \in Nat /\ x \in Nat
    BY <1>4, <1>7
  <2> QED
    BY <1>7, <1>8, <2>1
<1> QED
  BY <1>8, <1>9 DEF ToEvict

(* Dropping slots leaves the others as they are.                           *)
LEMMA DroppedSlots ==
  ASSUME NEW c \in [Slots -> Slot], NEW S \in SUBSET Slots
  PROVE  /\ Dropped(c, S) \in [Slots -> Slot]
         /\ \A i \in Slots :
              /\ Used(Dropped(c, S), i) <=> Used(c, i) /\ i \notin S
              /\ i \notin S => Dropped(c, S)[i] = c[i]
<1>1. MaxPages \in Nat /\ CACHE_COUNT \in Nat
  BY PageAssumption DEF PageAssumption
<1>2. ASSUME NEW i \in Slots
      PROVE  /\ [c[i] EXCEPT !.fd = 0, !.pid = 0, !.lastAccessed = 0] \in Slot
             /\ [c[i] EXCEPT !.fd = 0, !.pid = 0, !.lastAccessed = 0].lastAccessed = 0
  <2>1. c[i] \in Slot
    OBVIOUS
  <2>2. 0 \in 0 .. MaxPages /\ 0 \in 0 .. CACHE_COUNT
    BY <1>1
  <2> QED
    BY <2>1, <2>2 DEF Slot
<1>3. \A i \in Slots :
        Dropped(c, S)[i] = IF i \in S
                           THEN [c[i] EXCEPT !.fd = 0, !.pid = 0, !.lastAccessed = 0] ELSE c[i]
  BY DEF Dropped
<1>4. ASSUME NEW i \in Slots
      PROVE  /\ Dropped(c, S)[i] \in Slot
             /\ Used(Dropped(c, S), i) <=> Used(c, i) /\ i \notin S
             /\ i \notin S => Dropped(c, S)[i] = c[i]
  BY <1>2, <1>3 DEF Used
<1>5. Dropped(c, S) = [i \in Slots |-> Dropped(c, S)[i]]
  BY DEF Dropped
<1>6. Dropped(c, S) \in [Slots -> Slot]
  BY <1>4, <1>5
<1> QED
  BY <1>4, <1>6

-----------------------------------------------------------------------------
(* A read, of a page of an open object.                                    *)
LEMMA ReadKeepsCache ==
  ASSUME NEW obj \in [Objects -> Object], NEW o \in Objects, obj[o].fd # -1,
         NEW pid \in 0 .. MaxPages, pid < Len(disk[obj[o].file]),
         disk \in [Files -> Seq(Contents)],
         Apart(obj), CacheInv(readCache, obj, disk)
  PROVE  CacheInv(ReadFrom(obj[o].file, obj[o].fd, pid), obj, disk)
<1> DEFINE fd == obj[o].fd
           f == obj[o].file
           H == Hits(readCache, fd, pid)
           c == ReadFrom(f, fd, pid)
<1> SUFFICES CacheInv(c, obj, disk)
  OBVIOUS
<1>1. readCache \in [Slots -> Slot]
  BY DEF CacheInv
<1>2. fd \in Fds /\ f \in Files /\ disk[f][pid + 1] \in Contents
  <2>1. fd \in Fds /\ f \in Files
    BY DEF Object, NoFile
  <2> QED
    BY <2>1
<1>3. CASE H # {}
  <2> DEFINE i == CHOOSE i \in H : TRUE
  <2>1. i \in H /\ H \subseteq Slots
    BY <1>3 DEF Hits
  <2>2. c = Touched(readCache, i) /\ Used(readCache, i)
    BY <1>3, <2>1 DEF ReadFrom, Hits, Used
  <2> HIDE DEF i, c
  <2>3. /\ c \in [Slots -> Slot]
        /\ \A j \in Slots :
             /\ c[j].fd = readCache[j].fd /\ c[j].pid = readCache[j].pid
             /\ c[j].failed = readCache[j].failed /\ c[j].buffer = readCache[j].buffer
             /\ Used(c, j) <=> Used(readCache, j)
    BY <1>1, <2>1, <2>2, TouchedSlots
  <2> QED
    BY <2>3 DEF CacheInv, OnceEach, Holds
<1>4. CASE H = {}
  <2> DEFINE i == ToEvict(readCache)
             b == [readCache EXCEPT ![i] = [@ EXCEPT !.fd = fd, !.pid = pid,
                     !.buffer = disk[f][pid + 1], !.failed = FALSE]]
  <2>1. i \in Slots
    BY <1>1, EvictsASlot
  <2>2. c = Touched(b, i)
    BY <1>4 DEF ReadFrom, Filled
  <2>3. /\ b \in [Slots -> Slot]
        /\ b[i].fd = fd /\ b[i].pid = pid /\ b[i].buffer = disk[f][pid + 1] /\ ~ b[i].failed
        /\ \A j \in Slots : j # i => b[j] = readCache[j]
    BY <1>1, <1>2, <2>1 DEF Slot
  <2> HIDE DEF i, b, c
  <2>4. /\ c \in [Slots -> Slot]
        /\ \A j \in Slots :
             /\ c[j].fd = b[j].fd /\ c[j].pid = b[j].pid
             /\ c[j].failed = b[j].failed /\ c[j].buffer = b[j].buffer
             /\ Used(c, j) <=> j = i \/ Used(b, j)
    BY <2>1, <2>2, <2>3, TouchedSlots
  <2>5. \A j \in Slots : ~ (Used(readCache, j) /\ readCache[j].fd = fd /\ readCache[j].pid = pid)
    BY <1>4 DEF Hits, Used
  <2>6. \A j \in Slots : j # i => (Used(b, j) <=> Used(readCache, j))
    BY <2>3 DEF Used
  <2>7. OnceEach(c)
    BY <2>3, <2>4, <2>5, <2>6 DEF OnceEach, CacheInv
  <2>8. ASSUME NEW j \in Slots, Used(c, j) PROVE \E p \in Objects : Holds(c, j, obj, disk, p)
    <3>1. CASE j = i
      BY <2>3, <2>4, <3>1 DEF Holds
    <3>2. CASE j # i
      BY <2>3, <2>4, <2>6, <2>8, <3>2 DEF Holds, CacheInv
    <3> QED
      BY <3>1, <3>2
  <2> QED
    BY <2>4, <2>7, <2>8 DEF CacheInv
<1> QED
  BY <1>3, <1>4

(* A read that fails labels a slot with a page that is in no other.        *)
LEMMA FailedReadKeepsCache ==
  ASSUME NEW obj \in [Objects -> Object], NEW o \in Objects, obj[o].fd # -1,
         NEW pid \in 0 .. MaxPages, pid < Len(disk[obj[o].file]),
         Hits(readCache, obj[o].fd, pid) = {},
         Apart(obj), CacheInv(readCache, obj, disk)
  PROVE  CacheInv(FailedRead(obj[o].fd, pid), obj, disk)
<1> DEFINE fd == obj[o].fd
           i == ToEvict(readCache)
           b == [readCache EXCEPT ![i] = [@ EXCEPT !.fd = fd, !.pid = pid, !.failed = TRUE]]
           c == FailedRead(fd, pid)
<1> SUFFICES CacheInv(c, obj, disk)
  OBVIOUS
<1>1. readCache \in [Slots -> Slot] /\ fd \in Fds
  BY DEF CacheInv, Object, NoFile
<1>2. i \in Slots
  BY <1>1, EvictsASlot
<1>3. c = Touched(b, i)
  BY DEF FailedRead, Mislabelled
<1>4. /\ b \in [Slots -> Slot]
      /\ b[i].fd = fd /\ b[i].pid = pid /\ b[i].failed
      /\ \A j \in Slots : j # i => b[j] = readCache[j]
  BY <1>1, <1>2 DEF Slot
<1> HIDE DEF i, b, c
<1>5. /\ c \in [Slots -> Slot]
      /\ \A j \in Slots :
           /\ c[j].fd = b[j].fd /\ c[j].pid = b[j].pid
           /\ c[j].failed = b[j].failed /\ c[j].buffer = b[j].buffer
           /\ Used(c, j) <=> j = i \/ Used(b, j)
  BY <1>2, <1>3, <1>4, TouchedSlots
<1>6. \A j \in Slots : ~ (Used(readCache, j) /\ readCache[j].fd = fd /\ readCache[j].pid = pid)
  BY DEF Hits, Used
<1>7. \A j \in Slots : j # i => (Used(b, j) <=> Used(readCache, j))
  BY <1>4 DEF Used
<1>8. OnceEach(c)
  BY <1>4, <1>5, <1>6, <1>7 DEF OnceEach, CacheInv
<1>9. ASSUME NEW j \in Slots, Used(c, j) PROVE \E p \in Objects : Holds(c, j, obj, disk, p)
  <2>1. CASE j = i
    BY <1>4, <1>5, <2>1 DEF Holds
  <2>2. CASE j # i
    BY <1>4, <1>5, <1>7, <1>9, <2>2 DEF Holds, CacheInv
  <2> QED
    BY <2>1, <2>2
<1> QED
  BY <1>5, <1>8, <1>9 DEF CacheInv

(* An object takes a descriptor that none has: no slot is labelled with it.*)
WithOpen(o, f, d) == [object EXCEPT ![o] = Opened(f, d)]

LEMMA OpenKeepsCache ==
  ASSUME NEW o \in Objects, NEW f \in Files, NEW d \in Fds,
         object \in [Objects -> Object], disk \in [Files -> Seq(Contents)],
         Len(disk[f]) <= MaxPages, Openable(o, f, d),
         Apart(object), CacheInv(readCache, object, disk)
  PROVE  /\ WithOpen(o, f, d) \in [Objects -> Object] /\ d # -1
         /\ WithOpen(o, f, d)[o].fd = d /\ WithOpen(o, f, d)[o].file = f
         /\ WithOpen(o, f, d)[o].epid = Len(disk[f])
         /\ \A p \in Objects \ {o} : WithOpen(o, f, d)[p] = object[p]
         /\ [WithOpen(o, f, d) EXCEPT ![o] = NoFile] = object
         /\ Apart(WithOpen(o, f, d)) /\ CacheInv(readCache, WithOpen(o, f, d), disk)
         /\ \A pid \in Nat : Hits(readCache, d, pid) = {}
<1> DEFINE obj == WithOpen(o, f, d)
<1>1. Len(disk[f]) \in 0 .. MaxPages /\ d # -1
  BY DescriptorsAreLarge, PageAssumption DEF PageAssumption
<1>2. Opened(f, d) \in Object /\ Opened(f, d).fd = d /\ Opened(f, d).file = f
      /\ Opened(f, d).epid = Len(disk[f])
  BY <1>1 DEF Object, Opened
<1>3. /\ obj \in [Objects -> Object] /\ obj[o] = Opened(f, d)
      /\ \A p \in Objects \ {o} : obj[p] = object[p]
  BY <1>2 DEF WithOpen
<1>4. object[o] = NoFile /\ [obj EXCEPT ![o] = NoFile] = object
  <2>1. object[o] = NoFile
    BY DescriptorsAreLarge DEF Openable, IsOpen, Object
  <2> QED
    BY <2>1 DEF WithOpen
<1> HIDE DEF obj
<1>5. \A p \in Objects : object[p].fd # d /\ object[p].file # f
  BY DEF Openable, FreeFd
<1>6. Apart(obj)
  BY <1>2, <1>3, <1>5 DEF Apart
<1>7. CacheInv(readCache, obj, disk)
  <2>1. ASSUME NEW i \in Slots, Used(readCache, i)
        PROVE  \E p \in Objects : Holds(readCache, i, obj, disk, p)
    <3>1. PICK p \in Objects : Holds(readCache, i, object, disk, p)
      BY <2>1 DEF CacheInv
    <3>2. p # o
      BY <3>1, <1>4 DEF Holds, NoFile
    <3> QED
      BY <3>1, <3>2, <1>3 DEF Holds
  <2> QED
    BY <2>1 DEF CacheInv
<1>8. \A pid \in Nat : Hits(readCache, d, pid) = {}
  BY <1>5 DEF CacheInv, Holds, Hits, Used
<1> QED
  BY <1>1, <1>2, <1>3, <1>4, <1>6, <1>7, <1>8 DEF obj

(* An object is closed: the slots of its descriptor are emptied.           *)
LEMMA CloseKeepsCache ==
  ASSUME NEW c, NEW obj \in [Objects -> Object], NEW o \in Objects, obj[o].fd # -1,
         Apart(obj), CacheInv(c, obj, disk)
  PROVE  LET closed == [obj EXCEPT ![o] = NoFile]
         IN  Apart(closed) /\ CacheInv(Closed(c, obj[o].fd), closed, disk)
<1> DEFINE closed == [obj EXCEPT ![o] = NoFile]
           S == { i \in Slots : c[i].fd = obj[o].fd /\ c[i].lastAccessed # 0 }
           e == Closed(c, obj[o].fd)
<1>1. e = Dropped(c, S) /\ c \in [Slots -> Slot] /\ S \in SUBSET Slots
  BY DEF Closed, CacheInv
<1>2. closed[o].fd = -1 /\ \A p \in Objects \ {o} : closed[p] = obj[p]
  BY DEF NoFile
<1>3. \A i \in Slots : i \in S <=> c[i].fd = obj[o].fd /\ Used(c, i)
  BY DEF Used
<1> HIDE DEF closed, S, e
<1>4. /\ e \in [Slots -> Slot]
      /\ \A i \in Slots : /\ Used(e, i) <=> Used(c, i) /\ i \notin S
                          /\ i \notin S => e[i] = c[i]
  BY <1>1, DroppedSlots
<1>5. Apart(closed)
  BY <1>2 DEF Apart
<1>6. OnceEach(e)
  BY <1>4 DEF CacheInv, OnceEach
<1>7. ASSUME NEW i \in Slots, Used(e, i) PROVE \E p \in Objects : Holds(e, i, closed, disk, p)
  <2>1. Used(c, i) /\ e[i] = c[i] /\ c[i].fd # obj[o].fd
    BY <1>3, <1>4, <1>7
  <2>2. PICK p \in Objects : Holds(c, i, obj, disk, p)
    BY <2>1 DEF CacheInv
  <2> QED
    BY <1>2, <2>1, <2>2 DEF Holds
<1> QED
  BY <1>4, <1>5, <1>6, <1>7 DEF CacheInv, closed, e

(* A write: the page leaves the cache, and no other slot is of that page.  *)
LEMMA WriteKeepsCache ==
  ASSUME NEW c, NEW o \in Objects, NEW pid \in 0 .. MaxPages, NEW page \in Contents,
         object \in [Objects -> Object], disk \in [Files -> Seq(Contents)],
         IsOpen(o), pid <= Len(disk[object[o].file]), pid < MaxPages,
         WritePage(o, pid, page, c), Apart(object), CacheInv(c, object, disk)
  PROVE  /\ object' \in [Objects -> Object]
         /\ \A p \in Objects :
              object'[p].fd = object[p].fd /\ object'[p].file = object[p].file
         /\ \A p \in Objects \ {o} : object'[p] = object[p]
         /\ Apart(object') /\ CacheInv(readCache', object', disk')
<1> DEFINE f == object[o].file
           fd == object[o].fd
           S == Hits(c, fd, pid)
<1>1. c \in [Slots -> Slot] /\ S \in SUBSET Slots
  BY DEF CacheInv, Hits
<1>2. fd # -1 /\ fd \in Fds /\ f \in Files /\ disk[f] \in Seq(Contents)
  BY DEF IsOpen, Object, NoFile
<1>3. /\ object' \in [Objects -> Object]
      /\ \A p \in Objects : object'[p].fd = object[p].fd /\ object'[p].file = object[p].file
      /\ \A p \in Objects \ {o} : object'[p] = object[p]
  <2> DEFINE n == IF pid >= object[o].epid THEN pid + 1 ELSE object[o].epid
  <2>1. object[o] \in [fd : Fds, file : Files, epid : 0 .. MaxPages]
    BY <1>2 DEF Object, NoFile
  <2>2. n \in 0 .. MaxPages
    BY <2>1, PageAssumption DEF PageAssumption
  <2>3. object' = [object EXCEPT ![o] = [object[o] EXCEPT !.epid = n]]
    BY DEF WritePage
  <2> HIDE DEF n
  <2>4. /\ object'[o] \in [fd : Fds, file : Files, epid : 0 .. MaxPages]
        /\ object'[o].fd = object[o].fd /\ object'[o].file = object[o].file
    BY <2>1, <2>2, <2>3
  <2> QED
    BY <2>3, <2>4 DEF Object
<1>4. Apart(object')
  BY <1>3 DEF Apart
<1>5. /\ \A g \in Files \ {f} : disk'[g] = disk[g]
      /\ Len(disk'[f]) >= Len(disk[f])
      /\ \A q \in Nat : q < Len(disk[f]) /\ q # pid => disk'[f][q + 1] = disk[f][q + 1]
  <2>1. disk'[f] = Written(disk[f], pid, page) /\ \A g \in Files \ {f} : disk'[g] = disk[g]
    BY <1>2 DEF WritePage
  <2>2. CASE pid = Len(disk[f])
    BY <1>2, <2>1, <2>2 DEF Written
  <2>3. CASE pid # Len(disk[f])
    BY <1>2, <2>1, <2>3 DEF Written
  <2> QED
    BY <2>1, <2>2, <2>3
<1>6. readCache' = Dropped(c, S)
  BY DEF WritePage
<1>7. \A i \in Slots : i \in S <=> c[i].fd = fd /\ c[i].pid = pid /\ Used(c, i)
  BY DEF Used, Hits
<1> HIDE DEF f, fd, S
<1>8. /\ readCache' \in [Slots -> Slot]
      /\ \A i \in Slots : /\ Used(readCache', i) <=> Used(c, i) /\ i \notin S
                          /\ i \notin S => readCache'[i] = c[i]
  BY <1>1, <1>6, DroppedSlots
<1>9. OnceEach(readCache')
  BY <1>8 DEF CacheInv, OnceEach
<1>10. ASSUME NEW i \in Slots, Used(readCache', i)
       PROVE  \E p \in Objects : Holds(readCache', i, object', disk', p)
  <2>1. Used(c, i) /\ readCache'[i] = c[i] /\ ~ (c[i].fd = fd /\ c[i].pid = pid)
    BY <1>7, <1>8, <1>10
  <2>2. PICK p \in Objects : Holds(c, i, object, disk, p)
    BY <2>1 DEF CacheInv
  <2>3. c[i].pid \in Nat /\ object[p].file \in Files
    BY <1>1, <2>2 DEF Slot, Holds, Object, NoFile
  <2>4. CASE p = o
    BY <1>2, <1>3, <1>5, <2>1, <2>2, <2>3, <2>4 DEF Holds, f, fd
  <2>5. CASE p # o
    <3>1. object[p].file # f
      BY <1>2, <2>2, <2>5 DEF Apart, Holds, f, fd
    <3> QED
      BY <1>3, <1>5, <2>1, <2>2, <2>3, <3>1 DEF Holds
  <2> QED
    BY <2>4, <2>5
<1> QED
  BY <1>3, <1>4, <1>8, <1>9, <1>10 DEF CacheInv

(* What a read of an open object's page sees, from the cache or the disk.  *)
LEMMA SeenPage ==
  ASSUME IInv, NEW o \in Objects, IsOpen(o),
         NEW pid \in Nat, pid < Len(disk[object[o].file])
  PROVE  /\ Seen(o, pid) \in Contents
         /\ ~ Suspect(o, pid) => Seen(o, pid) = disk[object[o].file][pid + 1]
<1> DEFINE H == Hits(readCache, object[o].fd, pid)
<1>1. object[o].file \in Files /\ disk[object[o].file] \in Seq(Contents)
  BY DEF IInv, TypeOK, IsOpen, Object, NoFile
<1>2. CASE H = {}
  BY <1>1, <1>2 DEF Seen
<1>3. CASE H # {}
  <2> DEFINE i == CHOOSE i \in H : TRUE
  <2>1. i \in H /\ i \in Slots /\ Used(readCache, i)
    BY <1>3 DEF Hits, Used
  <2>2. Seen(o, pid) = readCache[i].buffer
    BY <1>3 DEF Seen
  <2>3. readCache[i].fd = object[o].fd /\ readCache[i].pid = pid
    BY <2>1 DEF Hits
  <2>4. ~ Suspect(o, pid) => ~ readCache[i].failed
    BY <2>1 DEF Suspect
  <2> HIDE DEF i
  <2>5. PICK p \in Objects : Holds(readCache, i, object, disk, p)
    BY <2>1 DEF IInv, CacheInv
  <2>6. p = o
    BY <2>3, <2>5 DEF IInv, Apart, Holds, IsOpen
  <2>7. readCache[i].buffer \in Contents
    BY <2>1 DEF IInv, CacheInv, Slot
  <2> QED
    BY <2>2, <2>3, <2>4, <2>5, <2>6, <2>7 DEF Holds
<1> QED
  BY <1>2, <1>3

-----------------------------------------------------------------------------
(* The records of n full pages, and those of one page more or less.        *)
LEMMA FullPages ==
  ASSUME NEW a \in Int
  PROVE  /\ OnPages(a) \in Int /\ OnPages(0) = 0
         /\ a >= 0 => OnPages(a) >= 0
         /\ OnPages(a + 1) = OnPages(a) + RECORDS_PER_PAGE
         /\ OnPages(a - 1) = OnPages(a) - RECORDS_PER_PAGE
BY RecordAssumption DEF RecordAssumption, OnPages

LEMMA MorePages ==
  ASSUME NEW a \in Int, NEW b \in Int, a <= b
  PROVE  OnPages(a) <= OnPages(b)
BY RecordAssumption DEF RecordAssumption, OnPages

(* The pages of a file, and how many records are on them.                  *)
LEMMA PageLengths ==
  ASSUME NEW pages \in Seq(Contents), AllButLastFull(pages)
  PROVE  /\ Count(pages) \in Nat
         /\ \A p \in 1 .. Len(pages) :
              /\ pages[p] \in Seq(Records \cup {Blank})
              /\ Len(pages[p]) \in 1 .. RECORDS_PER_PAGE
         /\ pages # <<>> =>
              /\ Len(pages) \in Nat \ {0}
              /\ Count(pages) = OnPages(Len(pages) - 1) + Len(pages[Len(pages)])
<1>1. RECORDS_PER_PAGE \in Nat \ {0}
  BY RecordAssumption DEF RecordAssumption
<1>2. ASSUME NEW p \in 1 .. Len(pages)
      PROVE  pages[p] \in Seq(Records \cup {Blank}) /\ Len(pages[p]) \in 1 .. RECORDS_PER_PAGE
  <2>1. pages[p] \in Contents
    OBVIOUS
  <2> QED
    BY <1>1, <2>1, PagesAreSequences DEF AllButLastFull
<1>3. CASE pages = <<>>
  BY <1>2, <1>3 DEF Count
<1>4. CASE pages # <<>>
  <2>1. Len(pages) \in Nat \ {0} /\ Len(pages) \in 1 .. Len(pages)
    BY <1>4
  <2>2. OnPages(Len(pages) - 1) \in Nat
    BY <1>1, <2>1, FullPages
  <2>3. Len(pages[Len(pages)]) \in 1 .. RECORDS_PER_PAGE
    BY <1>2, <2>1
  <2> QED
    BY <1>1, <1>2, <1>4, <2>1, <2>2, <2>3 DEF Count
<1> QED
  BY <1>3, <1>4

(* The ids of the records on the pages are the first Count(pages) ids.     *)
LEMMA IdsAreNumbered ==
  ASSUME NEW pages \in Seq(Contents), AllButLastFull(pages),
         NEW p \in Nat, NEW s \in 0 .. RECORDS_PER_PAGE - 1
  PROVE  (p < Len(pages) /\ s < Len(pages[p + 1])) <=> OnPages(p) + s < Count(pages)
<1> DEFINE R == RECORDS_PER_PAGE
           L == Len(pages)
<1>1. R \in Nat \ {0} /\ L \in Nat
  BY RecordAssumption DEF RecordAssumption
<1>2. CASE pages = <<>>
  <2>1. OnPages(p) \in Int /\ OnPages(p) >= 0 /\ L = 0
    BY <1>1, <1>2, FullPages
  <2> QED
    BY <1>1, <1>2, <2>1 DEF Count
<1>3. CASE pages # <<>>
  <2>1. /\ L \in Nat \ {0} /\ Len(pages[L]) \in 1 .. R
        /\ Count(pages) = OnPages(L - 1) + Len(pages[L])
    <3>1. L \in Nat \ {0} /\ L \in 1 .. L
      BY <1>1, <1>3
    <3> QED
      BY <1>3, <3>1, PageLengths
  <2>2. OnPages(p) \in Int /\ OnPages(L - 1) \in Int
    BY <1>1, FullPages
  <2>3. CASE p + 1 < L
    <3>1. Len(pages[p + 1]) = R
      BY <1>1, <2>3 DEF AllButLastFull
    <3>2. OnPages(p + 1) <= OnPages(L - 1) /\ OnPages(p + 1) = OnPages(p) + R
      BY <1>1, <2>3, FullPages, MorePages
    <3> QED
      BY <1>1, <2>1, <2>2, <2>3, <3>1, <3>2
  <2>4. CASE p + 1 = L
    <3>1. p = L - 1
      BY <1>1, <2>4
    <3> QED
      BY <1>1, <2>1, <2>2, <2>4, <3>1
  <2>5. CASE p + 1 > L
    <3>1. OnPages(L) <= OnPages(p) /\ OnPages(L - 1) = OnPages(L) - R /\ OnPages(L) \in Int
      BY <1>1, <2>5, FullPages, MorePages
    <3> QED
      BY <1>1, <2>1, <2>2, <2>5, <3>1
  <2> QED
    BY <1>1, <2>3, <2>4, <2>5
<1> QED
  BY <1>2, <1>3

(* A record on a new page behind full ones.                                *)
LEMMA NewPage ==
  ASSUME NEW pages \in Seq(Contents), AllButLastFull(pages),
         pages = <<>> \/ Len(pages[Len(pages)]) = RECORDS_PER_PAGE,
         NEW page \in Contents, Len(page) = 1
  PROVE  /\ AllButLastFull(Append(pages, page))
         /\ Count(pages) = OnPages(Len(pages))
         /\ Count(Append(pages, page)) = Count(pages) + 1
<1> DEFINE R == RECORDS_PER_PAGE
           L == Len(pages)
           more == Append(pages, page)
<1>1. R \in Nat \ {0} /\ L \in Nat
  BY RecordAssumption DEF RecordAssumption
<1>2. /\ more \in Seq(Contents) /\ Len(more) = L + 1 /\ more[L + 1] = page
      /\ \A p \in 1 .. L : more[p] = pages[p]
  BY <1>1
<1>3. L # 0 => pages # <<>> /\ Len(pages[L]) = R
  BY <1>1
<1> HIDE DEF more
<1>4. more # <<>>
  BY <1>1, <1>2
<1>5. AllButLastFull(more)
  <2> SUFFICES ASSUME NEW p \in 1 .. Len(more)
               PROVE  Len(more[p]) > 0 /\ (p < Len(more) => Len(more[p]) = R)
    BY DEF AllButLastFull
  <2>1. CASE p = L + 1
    <3>1. more[p] = page /\ p = Len(more)
      BY <1>2, <2>1
    <3>2. ~ (p < Len(more))
      BY <1>1, <1>2, <3>1
    <3>3. Len(more[p]) = 1
      BY <3>1, Zenon
    <3> QED
      BY <3>2, <3>3
  <2>2. CASE p # L + 1
    BY <1>1, <1>2, <1>3, <2>2 DEF AllButLastFull
  <2> QED
    BY <2>1, <2>2
<1>6. Count(pages) = OnPages(L)
  <2>1. CASE L = 0
    BY <1>1, <2>1, FullPages DEF Count
  <2>2. CASE L # 0
    <3>1. Count(pages) = OnPages(L - 1) + R
      BY <1>3, <2>2, Zenon DEF Count
    <3> QED
      BY <1>1, <3>1, FullPages
  <2> QED
    BY <2>1, <2>2
<1>7. Count(more) = OnPages(L) + 1
  <2>1. Count(more) = OnPages(Len(more) - 1) + Len(more[Len(more)])
    BY <1>4, Zenon DEF Count
  <2>2. Len(more) - 1 = L
    BY <1>1, <1>2
  <2> QED
    BY <1>2, <2>1, <2>2
<1> QED
  BY <1>5, <1>6, <1>7 DEF more

(* A record more on the last page.                                         *)
LEMMA GrownPage ==
  ASSUME NEW pages \in Seq(Contents), AllButLastFull(pages), pages # <<>>,
         NEW page \in Contents, Len(page) = Len(pages[Len(pages)]) + 1
  PROVE  /\ AllButLastFull([pages EXCEPT ![Len(pages)] = page])
         /\ Count([pages EXCEPT ![Len(pages)] = page]) = Count(pages) + 1
<1> DEFINE R == RECORDS_PER_PAGE
           L == Len(pages)
           more == [pages EXCEPT ![L] = page]
<1>1. R \in Nat \ {0} /\ L \in Nat \ {0} /\ OnPages(L - 1) \in Int
  <2>1. L \in Nat \ {0} /\ R \in Nat \ {0}
    BY RecordAssumption DEF RecordAssumption
  <2> QED
    BY <2>1, FullPages
<1>2. /\ Len(more) = L /\ more[L] = page /\ more # <<>>
      /\ \A p \in 1 .. L - 1 : more[p] = pages[p]
  BY <1>1
<1>3. Len(pages[L]) \in Nat /\ Len(page) = Len(pages[L]) + 1
  BY <1>1, PageLengths
<1> HIDE DEF more
<1>4. AllButLastFull(more)
  BY <1>1, <1>2, <1>3 DEF AllButLastFull
<1>5. Count(more) = OnPages(L - 1) + Len(page) /\ Count(pages) = OnPages(L - 1) + Len(pages[L])
  BY <1>2, Zenon DEF Count
<1>6. Count(more) = Count(pages) + 1
  BY <1>1, <1>3, <1>5
<1> QED
  BY <1>4, <1>6 DEF more

(* A file grew by the record r, in slot n + 1 of its page q, now the last. *)
GrewBy(pages, more, q, n, r) ==
  /\ Len(more) = q /\ \A p \in 1 .. q - 1 : p <= Len(pages) /\ more[p] = pages[p]
  /\ Len(more[q]) = n + 1 /\ more[q][n + 1] = r
  /\ n > 0 => q = Len(pages) /\ Len(pages[q]) = n /\ \A s \in 1 .. n : more[q][s] = pages[q][s]

LEMMA SameAfterAppend ==
  ASSUME NEW pages \in Seq(Contents), AllButLastFull(pages),
         NEW recs \in Seq(Records), NEW r \in Records,
         Len(recs) = Count(pages), SameRecords(pages, recs),
         NEW more \in Seq(Contents), AllButLastFull(more), NEW L \in Nat \ {0}, NEW n \in Nat,
         GrewBy(pages, more, L, n, r), OnPages(L - 1) + n = Len(recs)
  PROVE  SameRecords(more, Append(recs, r))
<1> USE DEF GrewBy
<1> SUFFICES ASSUME NEW p \in 1 .. Len(more), NEW s \in 1 .. Len(more[p])
             PROVE  more[p][s] = Append(recs, r)[OnPages(p - 1) + s]
  BY DEF SameRecords
<1>1. Append(recs, r)[Len(recs) + 1] = r /\ Len(recs) \in Nat
  OBVIOUS
<1>2. \A k \in 1 .. Len(recs) : Append(recs, r)[k] = recs[k]
  OBVIOUS
<1>3. OnPages(p - 1) \in Int /\ OnPages(p - 1) >= 0 /\ s \in Nat \ {0} /\ p \in Nat \ {0}
  <2>1. Len(more[p]) \in Nat /\ p \in Nat \ {0}
    BY PageLengths, RecordAssumption DEF RecordAssumption
  <2> QED
    BY <2>1, FullPages
<1>4. CASE p = L /\ s = n + 1
  <2>1. OnPages(p - 1) + s = Len(recs) + 1
    BY <1>1, <1>3, <1>4
  <2> QED
    BY <1>1, <1>4, <2>1
<1>5. CASE p = L /\ s # n + 1
  <2>1. s \in 1 .. n /\ L = Len(pages) /\ Len(pages[L]) = n /\ more[p][s] = pages[p][s]
    BY <1>3, <1>5
  <2>2. pages[p][s] = recs[OnPages(p - 1) + s]
    BY <1>5, <2>1 DEF SameRecords
  <2>3. OnPages(p - 1) + s \in 1 .. Len(recs)
    BY <1>1, <1>3, <1>5, <2>1
  <2> QED
    BY <1>2, <2>1, <2>2, <2>3
<1>6. CASE p # L
  <2>1. p \in 1 .. L - 1 /\ p \in 1 .. Len(pages) /\ more[p] = pages[p]
    BY <1>3, <1>6
  <2>2. pages[p][s] = recs[OnPages(p - 1) + s]
    BY <2>1 DEF SameRecords
  <2>3. OnPages(p - 1) + s \in 1 .. Len(recs)
    <3>1. Len(more[p]) = RECORDS_PER_PAGE
      BY <1>3, <1>6, <2>1 DEF AllButLastFull
    <3>2. OnPages(p) = OnPages(p - 1) + RECORDS_PER_PAGE /\ OnPages(p) <= OnPages(L - 1)
          /\ OnPages(p) \in Int /\ OnPages(L - 1) \in Int
      <4>1. p \in Int /\ L - 1 \in Int /\ p <= L - 1 /\ RECORDS_PER_PAGE \in Int
        BY <1>3, <2>1, RecordAssumption DEF RecordAssumption
      <4>2. OnPages(p) \in Int /\ OnPages(p) <= OnPages(L - 1) /\ OnPages(L - 1) \in Int
        BY <4>1, FullPages, MorePages
      <4>3. OnPages(p - 1) = OnPages(p) - RECORDS_PER_PAGE
        BY <4>1, FullPages
      <4> QED
        BY <4>1, <4>2, <4>3
    <3> QED
      BY <1>1, <1>3, <3>1, <3>2
  <2> QED
    BY <1>2, <2>1, <2>2, <2>3
<1> QED
  BY <1>4, <1>5, <1>6

-----------------------------------------------------------------------------
(* The end of a file is a record id, and its number is the count.          *)
LEMMA EndIsCount ==
  ASSUME NEW pages \in Seq(Contents), AllButLastFull(pages), Len(pages) <= MaxPages
  PROVE  /\ EndOfPages(pages) \in Rids
         /\ EndOfPages(pages).sid = 0 =>
              /\ EndOfPages(pages).pid = Len(pages)
              /\ pages = <<>> \/ Len(pages[Len(pages)]) = RECORDS_PER_PAGE
         /\ EndOfPages(pages).sid > 0 =>
              /\ pages # <<>> /\ EndOfPages(pages).pid = Len(pages) - 1
              /\ EndOfPages(pages).sid = Len(pages[Len(pages)])
         /\ Number(EndOfPages(pages)) = Count(pages)
<1> DEFINE L == Len(pages)
           n == Len(pages[L])
<1>1. RECORDS_PER_PAGE \in Nat \ {0} /\ MaxPages \in Nat /\ L \in Nat
  BY PageAssumption, RecordAssumption DEF PageAssumption, RecordAssumption
<1>2. CASE pages = <<>>
  <2>1. EndOfPages(pages) = Rid(0, 0) /\ L = 0 /\ Count(pages) = 0
    BY <1>2 DEF EndOfPages, Count
  <2>2. Number(EndOfPages(pages)) = OnPages(0) + 0
    BY <2>1 DEF Number, OnPages, Rid
  <2>3. OnPages(0) = 0
    BY <1>1, FullPages
  <2> QED
    BY <1>1, <1>2, <2>1, <2>2, <2>3 DEF Rids, Rid
<1>3. CASE pages # <<>>
  <2>1. /\ L \in Nat \ {0} /\ n \in 1 .. RECORDS_PER_PAGE
        /\ Count(pages) = OnPages(L - 1) + n /\ OnPages(L - 1) \in Int
    <3>1. L \in Nat \ {0} /\ L \in 1 .. L
      BY <1>1, <1>3
    <3>2. n \in 1 .. RECORDS_PER_PAGE /\ Count(pages) = OnPages(L - 1) + n
      BY <1>3, <3>1, PageLengths
    <3> QED
      BY <3>1, <3>2, FullPages
  <2>2. EndOfPages(pages) = IF n >= RECORDS_PER_PAGE THEN Rid(L, 0) ELSE Rid(L - 1, n)
    BY <1>3 DEF EndOfPages
  <2>3. CASE n >= RECORDS_PER_PAGE
    <3>1. EndOfPages(pages) = Rid(L, 0) /\ n = RECORDS_PER_PAGE
      BY <1>1, <2>1, <2>2, <2>3
    <3>2. Number(EndOfPages(pages)) = OnPages(L) + 0 /\ OnPages(L) = OnPages(L - 1) + n
      BY <1>1, <3>1, FullPages DEF Number, OnPages, Rid
    <3> QED
      BY <1>1, <1>3, <2>1, <3>1, <3>2 DEF Rids, Rid
  <2>4. CASE n < RECORDS_PER_PAGE
    <3>1. EndOfPages(pages) = Rid(L - 1, n)
      BY <1>1, <2>1, <2>2, <2>4
    <3>2. Number(EndOfPages(pages)) = OnPages(L - 1) + n
      BY <3>1 DEF Number, OnPages, Rid
    <3> QED
      BY <1>1, <1>3, <2>1, <2>4, <3>1, <3>2 DEF Rids, Rid
  <2> QED
    BY <1>1, <2>1, <2>3, <2>4
<1> QED
  BY <1>2, <1>3

-----------------------------------------------------------------------------
LEMMA InitKept == Init => IInv
<1> SUFFICES ASSUME Init PROVE IInv
  OBVIOUS
<1>1. /\ CACHE_COUNT \in Nat \ {0} /\ MaxPages \in Nat /\ MaxFaults \in Nat
      /\ RECORDS_PER_PAGE \in Nat \ {0} /\ Zeros \in Contents
  BY PageAssumption, RecordAssumption DEF PageAssumption, RecordAssumption
<1>2. EmptySlot \in Slot /\ EmptySlot.lastAccessed = 0
  BY <1>1 DEF EmptySlot, Slot
<1>3. TypeOK
  <2>1. disk \in [Files -> Seq(Contents)] /\ written \in [Files -> Seq(Records)]
    BY DEF Init
  <2>2. object \in [Objects -> Object] /\ erid \in [Objects -> Rids]
    BY <1>1 DEF Init, Object, Rids, Rid
  <2> QED
    BY <1>1, <1>2, <2>1, <2>2 DEF TypeOK, Init
<1>4. Apart(object) /\ \A o \in Objects : EndInv(o)
  BY DEF Init, Apart, EndInv, IsOpen, NoFile
<1>5. CacheInv(readCache, object, disk)
  BY <1>2 DEF Init, CacheInv, OnceEach, Used
<1>6. \A f \in Files : FileInv(f)
  BY <1>1 DEF Init, FileInv, AllButLastFull, Count, SameRecords
<1> QED
  BY <1>3, <1>4, <1>5, <1>6 DEF IInv

(* The steps that write nothing keep what is said of the files.            *)
LEMMA FilesUntouched ==
  ASSUME IInv, UNCHANGED <<disk, written, tainted>>
  PROVE  \A f \in Files : FileInv(f)'
BY DEF IInv, FileInv

(* Nor does a step that opens and closes nothing move an end.              *)
LEMMA EndsUntouched ==
  ASSUME IInv, UNCHANGED <<disk, object, erid>>
  PROVE  \A o \in Objects : EndInv(o)'
BY DEF IInv, EndInv, IsOpen, Epid, EndRid

(* The pages an open object reads: those before its end.                   *)
LEMMA PagesToRead ==
  ASSUME IInv, NEW o \in Objects, IsOpen(o)
  PROVE  /\ object[o].file \in Files /\ object[o].fd # -1
         /\ disk[object[o].file] \in Seq(Contents) /\ erid[o] = EndRid(object[o].file)
         /\ erid[o].sid > 0 => /\ erid[o].pid \in 0 .. MaxPages
                               /\ erid[o].pid < Len(disk[object[o].file])
         /\ \A r \in Rids : Before(r, erid[o]) => /\ r.pid \in 0 .. MaxPages
                                                  /\ r.pid < Len(disk[object[o].file])
<1> DEFINE f == object[o].file
<1>1. f \in Files /\ object[o].fd # -1
  BY DEF IInv, TypeOK, IsOpen, Object, NoFile
<1>2. disk[f] \in Seq(Contents) /\ erid[o] = EndRid(f) /\ erid[o] \in Rids
      /\ AllButLastFull(disk[f]) /\ Len(disk[f]) <= MaxPages
  BY <1>1 DEF IInv, TypeOK, EndInv, FileInv
<1> HIDE DEF f
<1>3. /\ erid[o].sid = 0 => erid[o].pid = Len(disk[f])
      /\ erid[o].sid > 0 => erid[o].pid = Len(disk[f]) - 1
  BY <1>1, <1>2, EndIsCount DEF EndRid
<1>4. MaxPages \in Nat /\ Len(disk[f]) \in Nat
  BY <1>2, PageAssumption DEF PageAssumption
<1>5. erid[o].sid \in Nat /\ erid[o].pid \in Nat
  BY <1>2, RecordAssumption, PageAssumption DEF Rids, RecordAssumption, PageAssumption
<1>6. erid[o].sid > 0 => erid[o].pid \in 0 .. MaxPages /\ erid[o].pid < Len(disk[f])
  BY <1>2, <1>3, <1>4, <1>5
<1>7. ASSUME NEW r \in Rids, Before(r, erid[o])
      PROVE  r.pid \in 0 .. MaxPages /\ r.pid < Len(disk[f])
  <2>1. r.pid \in 0 .. MaxPages /\ r.sid \in Nat
    BY RecordAssumption DEF Rids, RecordAssumption
  <2> QED
    BY <1>3, <1>4, <1>5, <1>7, <2>1 DEF Before
<1> QED
  BY <1>1, <1>2, <1>6, <1>7 DEF f

(* Reads, and writes that fail.                                            *)
LEMMA FaultKept == ASSUME IInv, Fault PROVE faults' \in 0 .. MaxFaults
BY RecordAssumption DEF IInv, TypeOK, Fault, RecordAssumption

LEMMA QuietStepsKept ==
  ASSUME IInv, CacheInv(readCache', object, disk), faults' \in 0 .. MaxFaults,
         UNCHANGED <<disk, object, erid, written, tainted>>
  PROVE  IInv'
<1>1. TypeOK'
  BY DEF IInv, TypeOK, CacheInv
<1>2. Apart(object') /\ CacheInv(readCache', object', disk')
  BY DEF IInv
<1> QED
  BY <1>1, <1>2, FilesUntouched, EndsUntouched DEF IInv

LEMMA ReadKept ==
  ASSUME IInv, NEW o \in Objects, NEW r \in Rids, Read(o, r) \/ ReadFails(o, r)
  PROVE  IInv'
<1>1. IsOpen(o) /\ Before(r, erid[o]) /\ UNCHANGED <<disk, object, erid, written, tainted>>
  BY DEF Read, ReadFails
<1>2. /\ object[o].fd # -1 /\ r.pid \in 0 .. MaxPages /\ r.pid < Len(disk[object[o].file])
  BY <1>1, PagesToRead
<1>3. faults' \in 0 .. MaxFaults
  BY FaultKept DEF Read, ReadFails, IInv, TypeOK
<1>4. CacheInv(readCache', object, disk)
  <2>1. CASE Read(o, r)
    BY <1>2, <2>1, ReadKeepsCache DEF Read, IInv, TypeOK
  <2>2. CASE ReadFails(o, r)
    BY <1>2, <2>2, FailedReadKeepsCache DEF ReadFails, CanMiss, IInv, TypeOK
  <2> QED
    BY <2>1, <2>2
<1> QED
  BY <1>1, <1>3, <1>4, QuietStepsKept

(* The cache an append leaves when it has read its page, or needed none.   *)
LEMMA CacheForKept ==
  ASSUME IInv, NEW o \in Objects, IsOpen(o)
  PROVE  CacheInv(CacheFor(o), object, disk)
<1>1. CASE erid[o].sid > 0
  BY <1>1, PagesToRead, ReadKeepsCache DEF CacheFor, IInv, TypeOK
<1>2. CASE ~ (erid[o].sid > 0)
  BY <1>2 DEF CacheFor, IInv
<1> QED
  BY <1>1, <1>2

LEMMA FailedAppendKept ==
  ASSUME IInv, NEW o \in Objects, AppendNotWritten(o) \/ AppendNotRead(o)
  PROVE  IInv'
<1>1. IsOpen(o) /\ Fault /\ UNCHANGED <<disk, object, erid, written, tainted>>
  BY DEF AppendNotWritten, AppendNotRead
<1>2. CacheInv(readCache', object, disk)
  <2>1. CASE AppendNotWritten(o)
    BY <1>1, <2>1, CacheForKept DEF AppendNotWritten
  <2>2. CASE AppendNotRead(o)
    <3>1. /\ object[o].fd # -1 /\ erid[o].pid \in 0 .. MaxPages
          /\ erid[o].pid < Len(disk[object[o].file])
      BY <1>1, <2>2, PagesToRead DEF AppendNotRead
    <3> QED
      BY <2>2, <3>1, FailedReadKeepsCache DEF AppendNotRead, CanMiss, IInv, TypeOK
  <2> QED
    BY <2>1, <2>2
<1> QED
  BY <1>1, <1>2, FaultKept, QuietStepsKept

(* An open finds the end again, from the last page of the file.            *)
LEMMA OpenKept ==
  ASSUME IInv, NEW o \in Objects, NEW f \in Files, OpenEmpty(o, f) \/ Open(o, f)
  PROVE  IInv'
<1>1. PICK d \in Fds :
        /\ Openable(o, f, d) /\ object' = [object EXCEPT ![o] = Opened(f, d)]
        /\ erid' = [erid EXCEPT ![o] = EndRid(f)]
        /\ \/ disk[f] = <<>> /\ readCache' = readCache
           \/ disk[f] # <<>> /\ readCache' = ReadFrom(f, d, Len(disk[f]) - 1)
        /\ UNCHANGED <<disk, written, tainted, faults>>
  <2>1. \A g \in Files : disk[g] # <<>> => EndOf(g) = EndRid(g)
    <3> SUFFICES ASSUME NEW g \in Files, disk[g] # <<>> PROVE EndOf(g) = EndRid(g)
      OBVIOUS
    <3>1. Len(disk[g]) \in Nat /\ Len(disk[g]) - 1 + 1 = Len(disk[g])
      BY DEF IInv, TypeOK
    <3> QED
      BY <3>1 DEF EndOf, EndRid, EndOfPages
  <2>2. disk[f] = <<>> => EndRid(f) = Rid(0, 0)
    BY DEF EndRid, EndOfPages
  <2> QED
    BY <2>1, <2>2 DEF OpenEmpty, Open
<1>2. /\ disk \in [Files -> Seq(Contents)] /\ object \in [Objects -> Object]
      /\ AllButLastFull(disk[f]) /\ Len(disk[f]) <= MaxPages /\ Len(disk[f]) \in Nat
  BY DEF IInv, TypeOK, FileInv
<1>3. /\ object' \in [Objects -> Object] /\ object'[o].fd = d /\ object'[o].file = f
      /\ object'[o].epid = Len(disk[f]) /\ d # -1
      /\ \A p \in Objects \ {o} : object'[p] = object[p]
      /\ Apart(object') /\ CacheInv(readCache, object', disk)
  <2>1. Apart(object) /\ CacheInv(readCache, object, disk)
    BY DEF IInv
  <2>2. Openable(o, f, d) /\ object' = WithOpen(o, f, d)
    BY <1>1 DEF WithOpen
  <2> QED
    BY <1>2, <2>1, <2>2, OpenKeepsCache
<1>4. CacheInv(readCache', object', disk')
  <2>1. CASE disk[f] = <<>>
    BY <1>1, <1>3, <2>1
  <2>2. CASE disk[f] # <<>>
    <3>1. Len(disk[f]) - 1 \in 0 .. MaxPages /\ Len(disk[f]) - 1 < Len(disk[f])
      BY <1>2, <2>2, PageAssumption DEF PageAssumption
    <3>2. CacheInv(ReadFrom(object'[o].file, object'[o].fd, Len(disk[f]) - 1), object', disk)
      BY <1>2, <1>3, <3>1, ReadKeepsCache
    <3> QED
      BY <1>1, <1>3, <2>2, <3>2
  <2> QED
    BY <2>1, <2>2
<1>5. erid' \in [Objects -> Rids]
  BY <1>1, <1>2, EndIsCount DEF EndRid, IInv, TypeOK
<1>6. TypeOK'
  BY <1>1, <1>3, <1>4, <1>5 DEF IInv, TypeOK, CacheInv
<1>7. \A g \in Files : FileInv(g)'
  BY <1>1, FilesUntouched
<1>8. ASSUME NEW p \in Objects PROVE EndInv(p)'
  <2>1. CASE p = o
    BY <1>1, <1>3, <2>1 DEF EndInv, Epid, EndRid, IInv, TypeOK
  <2>2. CASE p # o
    <3>1. object'[p] = object[p] /\ erid'[p] = erid[p] /\ disk' = disk
      BY <1>1, <1>3, <2>2
    <3> QED
      BY <3>1 DEF EndInv, IsOpen, Epid, EndRid, IInv
  <2> QED
    BY <2>1, <2>2
<1> QED
  BY <1>3, <1>4, <1>6, <1>7, <1>8 DEF IInv

(* An open that cannot read the last page closes the file again.           *)
LEMMA OpenFailsKept ==
  ASSUME IInv, NEW o \in Objects, NEW f \in Files, OpenFails(o, f)
  PROVE  IInv'
<1>1. PICK d \in Fds :
        /\ Openable(o, f, d) /\ disk[f] # <<>> /\ Fault
        /\ readCache' = Closed(FailedRead(d, Len(disk[f]) - 1), d)
        /\ UNCHANGED <<disk, object, erid, written, tainted>>
  BY DEF OpenFails
<1> DEFINE obj == WithOpen(o, f, d)
           last == Len(disk[f]) - 1
<1>2. /\ disk \in [Files -> Seq(Contents)] /\ object \in [Objects -> Object]
      /\ Len(disk[f]) <= MaxPages /\ Len(disk[f]) \in Nat
  BY DEF IInv, TypeOK, FileInv
<1>3. last \in 0 .. MaxPages /\ last < Len(disk[f])
  BY <1>1, <1>2, PageAssumption DEF PageAssumption
<1>4. /\ obj \in [Objects -> Object] /\ obj[o].fd = d /\ obj[o].file = f /\ d # -1
      /\ [obj EXCEPT ![o] = NoFile] = object
      /\ Apart(obj) /\ CacheInv(readCache, obj, disk)
      /\ \A pid \in Nat : Hits(readCache, d, pid) = {}
  <2>1. Apart(object) /\ CacheInv(readCache, object, disk)
    BY DEF IInv
  <2> QED
    BY <1>1, <1>2, <2>1, OpenKeepsCache
<1> HIDE DEF obj, last
<1>5. CacheInv(FailedRead(d, last), obj, disk)
  BY <1>3, <1>4, FailedReadKeepsCache
<1>6. CacheInv(Closed(FailedRead(d, last), d), object, disk)
  BY <1>4, <1>5, CloseKeepsCache
<1> QED
  BY <1>1, <1>6, FaultKept, QuietStepsKept DEF last

LEMMA CloseKept == ASSUME IInv, NEW o \in Objects, Close(o) PROVE IInv'
<1>1. /\ IsOpen(o) /\ readCache' = Closed(readCache, object[o].fd)
      /\ object' = [object EXCEPT ![o] = NoFile] /\ erid' = [erid EXCEPT ![o] = Rid(0, 0)]
      /\ UNCHANGED <<disk, written, tainted, faults>>
  BY DEF Close
<1>2. Apart(object') /\ CacheInv(readCache', object', disk')
  BY <1>1, CloseKeepsCache DEF IInv, TypeOK, IsOpen
<1>3. object' \in [Objects -> Object] /\ erid' \in [Objects -> Rids]
  <2>1. NoFile \in Object /\ Rid(0, 0) \in Rids
    BY PageAssumption, RecordAssumption
       DEF PageAssumption, RecordAssumption, Object, Rids, Rid
  <2> QED
    BY <1>1, <2>1 DEF IInv, TypeOK
<1>4. TypeOK'
  BY <1>1, <1>2, <1>3 DEF IInv, TypeOK, CacheInv
<1>5. ASSUME NEW p \in Objects PROVE EndInv(p)'
  <2>1. CASE p = o
    BY <1>1, <2>1 DEF EndInv, IsOpen, NoFile, IInv, TypeOK
  <2>2. CASE p # o
    <3>1. object'[p] = object[p] /\ erid'[p] = erid[p] /\ disk' = disk
      BY <1>1, <2>2 DEF IInv, TypeOK
    <3> QED
      BY <3>1 DEF EndInv, IsOpen, Epid, EndRid, IInv
  <2> QED
    BY <2>1, <2>2
<1> QED
  BY <1>1, <1>2, <1>4, <1>5, FilesUntouched DEF IInv

LEMMA DieKept == ASSUME IInv, Die PROVE IInv'
<1> USE DEF Die
<1>1. /\ CACHE_COUNT \in Nat \ {0} /\ MaxPages \in Nat /\ RECORDS_PER_PAGE \in Nat \ {0}
      /\ Zeros \in Contents
  BY PageAssumption, RecordAssumption DEF PageAssumption, RecordAssumption
<1>2. EmptySlot \in Slot /\ EmptySlot.lastAccessed = 0
  BY <1>1 DEF EmptySlot, Slot
<1>3. object' \in [Objects -> Object] /\ erid' \in [Objects -> Rids]
  BY <1>1 DEF Object, Rids, Rid
<1>4. TypeOK'
  BY <1>2, <1>3 DEF IInv, TypeOK
<1>5. Apart(object') /\ \A o \in Objects : EndInv(o)'
  BY DEF Apart, EndInv, IsOpen, NoFile
<1>6. CacheInv(readCache', object', disk')
  BY <1>2 DEF CacheInv, OnceEach, Used
<1> QED
  BY <1>4, <1>5, <1>6, FilesUntouched DEF IInv

(* The page that append writes: the page it saw, and the record behind it. *)
LEMMA PageWritten ==
  ASSUME NEW old \in Contents, NEW sid \in 0 .. RECORDS_PER_PAGE - 1, NEW r \in Records
  PROVE  /\ Page(old, sid, r) \in Contents /\ Len(Page(old, sid, r)) = sid + 1
         /\ Page(old, sid, r)[sid + 1] = r
         /\ sid = Len(old) => \A i \in 1 .. sid : Page(old, sid, r)[i] = old[i]
<1>1. RECORDS_PER_PAGE \in Nat \ {0} /\ sid \in Nat /\ sid + 1 <= RECORDS_PER_PAGE
  BY RecordAssumption DEF RecordAssumption
<1>2. old \in Seq(Records \cup {Blank}) /\ Len(old) \in Nat
  BY PagesAreSequences
<1>3. \A i \in 1 .. sid + 1 :
        (IF i = sid + 1 THEN r ELSE IF i <= Len(old) THEN old[i] ELSE Blank)
          \in Records \cup {Blank}
  BY <1>1, <1>2
<1>4. /\ Page(old, sid, r) \in Seq(Records \cup {Blank})
      /\ Len(Page(old, sid, r)) = sid + 1
  BY <1>1, <1>3 DEF Page
<1>5. Page(old, sid, r) \in Contents
  BY <1>1, <1>4, PagesAreSequences
<1> QED
  BY <1>1, <1>2, <1>4, <1>5 DEF Page

(* The file after an append, as the record's place is in a new page or in  *)
(* the last.                                                               *)
LEMMA FileAfterAppend ==
  ASSUME IInv, NEW o \in Objects, NEW r \in Records, AppendRecord(o, r),
         NEW f, f = object[o].file
  PROVE  /\ FileInv(f)' /\ disk'[f] \in Seq(Contents)
         /\ erid'[o] = EndRid(f)' /\ Len(disk'[f]) = erid[o].pid + 1
         /\ Page(OldPage(o), erid[o].sid, r) \in Contents
         /\ erid[o].pid \in 0 .. MaxPages /\ erid[o].pid <= Len(disk[f])
<1> DEFINE pages == disk[f]
           e == erid[o]
           page == Page(OldPage(o), e.sid, r)
           more == disk'[f]
           recs == written[f]
           L == Len(pages)
<1>1. /\ IsOpen(o) /\ e.pid < MaxPages
      /\ disk' = [disk EXCEPT ![f] = Written(@, e.pid, page)]
      /\ erid' = [erid EXCEPT ![o] = Following(@)]
      /\ written' = [written EXCEPT ![f] = Append(@, r)]
      /\ tainted' = IF e.sid > 0 /\ Suspect(o, e.pid) THEN tainted \cup {f} ELSE tainted
  BY DEF AppendRecord, WritePage
<1>2. /\ f \in Files /\ pages \in Seq(Contents) /\ recs \in Seq(Records) /\ L \in Nat
      /\ AllButLastFull(pages) /\ L <= MaxPages /\ Len(recs) = Count(pages)
      /\ f \notin tainted => SameRecords(pages, recs)
      /\ e = EndRid(f) /\ e \in Rids
  BY <1>1, PagesToRead DEF IInv, TypeOK, FileInv
<1>3. /\ RECORDS_PER_PAGE \in Nat \ {0} /\ MaxPages \in Nat
      /\ e.pid \in 0 .. MaxPages /\ e.pid \in Nat /\ e.sid \in 0 .. RECORDS_PER_PAGE - 1
  BY <1>2, PageAssumption, RecordAssumption DEF PageAssumption, RecordAssumption, Rids
<1>4. /\ e.sid = 0 => /\ e.pid = L
                      /\ pages = <<>> \/ Len(pages[L]) = RECORDS_PER_PAGE
      /\ e.sid > 0 => pages # <<>> /\ e.pid = L - 1 /\ e.sid = Len(pages[L])
  BY <1>2, EndIsCount DEF EndRid
<1>5. OldPage(o) \in Contents
  BY <1>1, <1>2, <1>3, <1>4, SeenPage, PageAssumption DEF OldPage, PageAssumption
<1>6. /\ page \in Contents /\ Len(page) = e.sid + 1 /\ page[e.sid + 1] = r
      /\ e.sid = Len(OldPage(o)) => \A i \in 1 .. e.sid : page[i] = OldPage(o)[i]
  BY <1>3, <1>5, PageWritten
<1>7. more = Written(pages, e.pid, page) /\ written'[f] = Append(recs, r)
  BY <1>1, <1>2 DEF IInv, TypeOK
<1>8. written'[f] \in Seq(Records) /\ Len(written'[f]) = Len(recs) + 1 /\ Len(recs) \in Nat
  BY <1>2, <1>7
<1> HIDE DEF page, e
<1>9. /\ more \in Seq(Contents) /\ Len(more) = e.pid + 1 /\ more[e.pid + 1] = page
      /\ \A p \in 1 .. e.pid : p <= L /\ more[p] = pages[p]
      /\ AllButLastFull(more) /\ Count(more) = Count(pages) + 1
      /\ OnPages(e.pid) + e.sid = Len(recs)
  <2>1. CASE e.sid = 0
    <3>1. more = Append(pages, page) /\ e.pid = L
      BY <1>4, <1>7, <2>1 DEF Written
    <3>2. Len(page) = 1
      BY <1>6, <2>1
    <3>3. /\ AllButLastFull(more) /\ Count(more) = Count(pages) + 1
          /\ Count(pages) = OnPages(L)
      BY <1>2, <1>4, <1>6, <2>1, <3>1, <3>2, NewPage
    <3>4. /\ more \in Seq(Contents) /\ Len(more) = L + 1 /\ more[L + 1] = page
          /\ \A p \in 1 .. L : more[p] = pages[p]
      BY <1>2, <1>6, <3>1
    <3>5. OnPages(L) \in Int
      <4>1. L \in Int
        BY <1>2
      <4> HIDE DEF L
      <4> QED
        BY <4>1, FullPages
    <3> QED
      BY <1>2, <2>1, <3>1, <3>3, <3>4, <3>5
  <2>2. CASE e.sid > 0
    <3>1. pages # <<>> /\ e.pid = L - 1 /\ e.sid = Len(pages[L]) /\ L \in Nat \ {0}
      BY <1>2, <1>4, <2>2
    <3>2. more = [pages EXCEPT ![L] = page]
      BY <1>2, <1>7, <3>1 DEF Written
    <3>3. AllButLastFull(more) /\ Count(more) = Count(pages) + 1
      BY <1>2, <1>6, <3>1, <3>2, GrownPage
    <3>4. /\ more \in Seq(Contents) /\ Len(more) = L /\ more[L] = page
          /\ \A p \in 1 .. L - 1 : more[p] = pages[p]
      BY <1>2, <1>6, <3>1, <3>2
    <3>5. Count(pages) = OnPages(L - 1) + Len(pages[L])
      BY <1>2, <3>1, PageLengths
    <3> QED
      BY <1>2, <3>1, <3>3, <3>4, <3>5
  <2> QED
    BY <1>3, <2>1, <2>2
<1> HIDE DEF more, pages, recs
<1>10. f \notin tainted' => SameRecords(more, Append(recs, r))
  <2> SUFFICES ASSUME f \notin tainted' PROVE SameRecords(more, Append(recs, r))
    OBVIOUS
  <2>1. f \notin tainted /\ SameRecords(pages, recs) /\ (e.sid > 0 => ~ Suspect(o, e.pid))
    BY <1>1, <1>2
  <2>2. e.sid > 0 => /\ e.pid + 1 = L /\ Len(pages[L]) = e.sid
                     /\ \A s \in 1 .. e.sid : more[e.pid + 1][s] = pages[e.pid + 1][s]
    <3> SUFFICES ASSUME e.sid > 0
                 PROVE  /\ e.pid + 1 = L /\ Len(pages[L]) = e.sid
                        /\ \A s \in 1 .. e.sid : page[s] = pages[e.pid + 1][s]
      BY <1>9
    <3>1. e.pid + 1 = L /\ Len(pages[L]) = e.sid /\ e.pid < L
      BY <1>2, <1>3, <1>4
    <3>2. OldPage(o) = pages[e.pid + 1]
      BY <1>1, <1>3, <2>1, <3>1, SeenPage DEF OldPage, pages, e
    <3> QED
      BY <1>6, <3>1, <3>2
  <2>3. /\ e.pid + 1 \in Nat \ {0} /\ e.sid \in Nat /\ e.pid + 1 - 1 = e.pid
        /\ Len(more[e.pid + 1]) = e.sid + 1 /\ more[e.pid + 1][e.sid + 1] = r
    BY <1>3, <1>6, <1>9
  <2> DEFINE q == e.pid + 1
  <2>4. q \in Nat \ {0} /\ e.sid \in Nat /\ Len(more) = q /\ q - 1 = e.pid
    BY <1>3, <1>9, <2>3
  <2>5. GrewBy(pages, more, q, e.sid, r) /\ OnPages(q - 1) + e.sid = Len(recs)
    <3>1. \A p \in 1 .. q - 1 : p <= Len(pages) /\ more[p] = pages[p]
      BY <1>9, <2>4
    <3>2. OnPages(q - 1) + e.sid = Len(recs)
      BY <1>9, <2>4
    <3> HIDE DEF q
    <3> QED
      BY <2>2, <2>3, <2>4, <3>1, <3>2 DEF GrewBy, q
  <2>6. /\ pages \in Seq(Contents) /\ AllButLastFull(pages) /\ recs \in Seq(Records)
        /\ Len(recs) = Count(pages) /\ more \in Seq(Contents) /\ AllButLastFull(more)
    BY <1>2, <1>9
  <2> HIDE DEF q
  <2> QED
    BY <2>1, <2>4, <2>5, <2>6, SameAfterAppend
<1>11. FileInv(f)'
  <2>1. Len(more) <= MaxPages
    BY <1>1, <1>3, <1>9 DEF e
  <2>2. Len(written'[f]) = Count(more)
    BY <1>2, <1>8, <1>9
  <2> QED
    BY <1>7, <1>9, <1>10, <2>1, <2>2 DEF FileInv, more
<1>12. erid'[o] = EndRid(f)'
  <2>1. erid'[o] = Following(e)
    BY <1>1, <1>2 DEF IInv, TypeOK, e
  <2>2. more # <<>> /\ Len(more) - 1 = e.pid /\ Len(more[Len(more)]) = e.sid + 1
    <3>1. Len(more) = e.pid + 1 /\ e.pid \in Nat
      BY <1>3, <1>9
    <3>2. Len(more) - 1 = e.pid /\ Len(more) # 0
      BY <3>1
    <3>3. Len(more[e.pid + 1]) = e.sid + 1
      BY <1>6, <1>9, Zenon
    <3> QED
      BY <3>2, <3>3
  <2>3. EndOfPages(more) = IF e.sid + 1 >= RECORDS_PER_PAGE THEN Rid(e.pid + 1, 0)
                           ELSE Rid(e.pid, e.sid + 1)
    BY <2>2 DEF EndOfPages
  <2> QED
    BY <2>1, <2>3 DEF Following, EndRid, more
<1> QED
  BY <1>2, <1>3, <1>4, <1>6, <1>9, <1>11, <1>12 DEF more, page, pages, e

LEMMA AppendKept ==
  ASSUME IInv, NEW o \in Objects, NEW r \in Records, AppendRecord(o, r)
  PROVE  IInv'
<1> PICK f : f = object[o].file
  OBVIOUS
<1> DEFINE page == Page(OldPage(o), erid[o].sid, r)
<1>1. /\ IsOpen(o) /\ erid[o].pid < MaxPages
      /\ WritePage(o, erid[o].pid, page, CacheFor(o))
      /\ erid' = [erid EXCEPT ![o] = Following(@)]
      /\ written' = [written EXCEPT ![f] = Append(@, r)]
      /\ tainted' \subseteq tainted \cup {f} /\ tainted \subseteq tainted'
      /\ faults' = faults
  BY DEF AppendRecord, WritePage
<1>2. f \in Files
  BY <1>1, PagesToRead
<1>3. /\ FileInv(f)' /\ disk'[f] \in Seq(Contents)
      /\ erid'[o] = EndRid(f)' /\ Len(disk'[f]) = erid[o].pid + 1
      /\ page \in Contents
      /\ erid[o].pid \in 0 .. MaxPages /\ erid[o].pid <= Len(disk[f])
  BY FileAfterAppend
<1>4. CacheInv(CacheFor(o), object, disk)
  BY <1>1, CacheForKept
<1>5. /\ object' \in [Objects -> Object]
      /\ \A p \in Objects : object'[p].fd = object[p].fd /\ object'[p].file = object[p].file
      /\ \A p \in Objects \ {o} : object'[p] = object[p]
      /\ Apart(object') /\ CacheInv(readCache', object', disk')
  BY <1>1, <1>2, <1>3, <1>4, WriteKeepsCache DEF IInv, TypeOK
<1>6. /\ disk' \in [Files -> Seq(Contents)] /\ written' \in [Files -> Seq(Records)]
      /\ \A g \in Files \ {f} : disk'[g] = disk[g] /\ written'[g] = written[g]
  BY <1>1, <1>2, <1>3 DEF WritePage, IInv, TypeOK
<1>7. EndRid(f)' \in Rids
  <2>1. AllButLastFull(disk'[f]) /\ Len(disk'[f]) <= MaxPages
    BY <1>3 DEF FileInv
  <2> QED
    BY <1>2, <1>6, <2>1, <1>3, EndIsCount DEF EndRid
<1>8. erid' \in [Objects -> Rids] /\ \A p \in Objects \ {o} : erid'[p] = erid[p]
  BY <1>1, <1>3, <1>7 DEF IInv, TypeOK
<1>9. TypeOK'
  BY <1>1, <1>2, <1>5, <1>6, <1>8 DEF IInv, TypeOK, CacheInv
<1>10. \A g \in Files : FileInv(g)'
  BY <1>1, <1>3, <1>6 DEF FileInv, IInv
<1>11. ASSUME NEW p \in Objects PROVE EndInv(p)'
  <2>1. CASE p = o
    <3>1. object'[o].epid = Len(disk'[f])
      <4>1. object[o].epid = Len(disk[f])
        BY <1>1 DEF IInv, EndInv, Epid
      <4>2. object'[o].epid = IF erid[o].pid >= object[o].epid THEN erid[o].pid + 1
                              ELSE object[o].epid
        BY <1>1 DEF WritePage, IInv, TypeOK, Object, NoFile, IsOpen
      <4>3. Len(disk'[f]) >= Len(disk[f]) /\ Len(disk[f]) \in Nat
        BY <1>1, <1>2, <1>3 DEF WritePage, Written, IInv, TypeOK
      <4> QED
        BY <1>3, <4>1, <4>2, <4>3
    <3> QED
      BY <1>3, <1>5, <2>1, <3>1 DEF EndInv, Epid
  <2>2. CASE p # o
    <3>1. IsOpen(p) => object[p].file \in Files \ {f}
      BY <1>1, <2>2, PagesToRead DEF IInv, Apart, IsOpen
    <3>2. object'[p] = object[p] /\ erid'[p] = erid[p]
      BY <1>5, <1>8, <2>2
    <3> QED
      BY <1>6, <3>1, <3>2 DEF EndInv, IsOpen, Epid, EndRid, IInv
  <2> QED
    BY <2>1, <2>2
<1> QED
  BY <1>5, <1>9, <1>10, <1>11 DEF IInv

-----------------------------------------------------------------------------
(* The inductive invariant holds in every reachable state.                 *)
THEOREM Invariance == Spec => []IInv
<1>1. IInv /\ [Next]_vars => IInv'
  <2> SUFFICES ASSUME IInv, [Next]_vars PROVE IInv'
    OBVIOUS
  <2>1. CASE UNCHANGED vars
    <3>1. CacheInv(readCache', object, disk) /\ faults' \in 0 .. MaxFaults
      BY <2>1 DEF vars, IInv, TypeOK
    <3> QED
      BY <2>1, <3>1, QuietStepsKept DEF vars
  <2>2. ASSUME NEW o \in Objects, NEW f \in Files,
               OpenEmpty(o, f) \/ Open(o, f) \/ OpenFails(o, f)
        PROVE  IInv'
    BY <2>2, OpenKept, OpenFailsKept
  <2>3. ASSUME NEW o \in Objects, NEW r \in Records, AppendRecord(o, r) PROVE IInv'
    BY <2>3, AppendKept
  <2>4. ASSUME NEW o \in Objects, NEW p \in 0 .. MaxPages, NEW s \in 0 .. RECORDS_PER_PAGE - 1,
               Read(o, Rid(p, s)) \/ ReadFails(o, Rid(p, s))
        PROVE  IInv'
    <3>1. Rid(p, s) \in Rids
      BY DEF Rid, Rids
    <3> QED
      BY <2>4, <3>1, ReadKept
  <2>5. ASSUME NEW o \in Objects, Close(o) \/ AppendNotWritten(o) \/ AppendNotRead(o)
        PROVE  IInv'
    BY <2>5, CloseKept, FailedAppendKept
  <2>6. CASE Die
    BY <2>6, DieKept
  <2> QED
    BY <2>1, <2>2, <2>3, <2>4, <2>5, <2>6 DEF Next
<1> QED
  BY InitKept, <1>1, PTL DEF Spec

(* Objects, cache, files and ids have their types, whatever fails.         *)
THEOREM TypeCorrect == Spec => []TypeOK
BY Invariance, PTL DEF IInv

-----------------------------------------------------------------------------
LEMMA InvariantKeepsAppended == IInv => KeepsAppended
<1> SUFFICES ASSUME IInv, NEW f \in Files, NEW r \in Rids
             PROVE  /\ InFile(f, r) <=> Number(r) < Len(written[f])
                    /\ InFile(f, r) /\ f \notin tainted =>
                         disk[f][r.pid + 1][r.sid + 1] = written[f][Number(r) + 1]
  BY DEF KeepsAppended
<1>1. /\ disk[f] \in Seq(Contents) /\ AllButLastFull(disk[f])
      /\ Len(written[f]) = Count(disk[f])
      /\ f \notin tainted => SameRecords(disk[f], written[f])
  BY DEF IInv, TypeOK, FileInv
<1>2. r.pid \in Nat /\ r.sid \in 0 .. RECORDS_PER_PAGE - 1
  BY PageAssumption DEF Rids, PageAssumption
<1>3. Number(r) = OnPages(r.pid) + r.sid
  BY DEF Number, OnPages
<1>4. InFile(f, r) <=> Number(r) < Len(written[f])
  BY <1>1, <1>2, <1>3, IdsAreNumbered DEF InFile
<1>5. ASSUME InFile(f, r), f \notin tainted
      PROVE  disk[f][r.pid + 1][r.sid + 1] = written[f][Number(r) + 1]
  <2>1. PICK q \in 1 .. Len(disk[f]) : q = r.pid + 1
    BY <1>1, <1>2, <1>5 DEF InFile
  <2>2. PICK t \in 1 .. Len(disk[f][q]) : t = r.sid + 1
    <3>1. Len(disk[f][q]) \in 1 .. RECORDS_PER_PAGE
      BY <1>1, PageLengths
    <3> QED
      BY <1>2, <1>5, <2>1, <3>1, RecordAssumption DEF InFile, RecordAssumption
  <2>3. disk[f][q][t] = written[f][OnPages(q - 1) + t]
    BY <1>1, <1>5 DEF SameRecords
  <2>4. OnPages(q - 1) + t = Number(r) + 1
    <3>1. q - 1 = r.pid /\ r.pid \in Int /\ r.sid \in Int
      BY <1>2, <2>1, RecordAssumption DEF RecordAssumption
    <3>2. OnPages(q - 1) \in Int
      BY <3>1, FullPages
    <3> QED
      BY <1>3, <2>2, <3>1, <3>2
  <2> QED
    BY <2>1, <2>2, <2>3, <2>4
<1> QED
  BY <1>4, <1>5

LEMMA InvariantPutsEridAtEnd == IInv => EridAtEnd
<1> SUFFICES ASSUME IInv, NEW o \in Objects, IsOpen(o)
             PROVE  /\ Epid(o) = Len(disk[object[o].file])
                    /\ Number(erid[o]) = Len(written[object[o].file])
  BY DEF EridAtEnd
<1>1. object[o].file \in Files /\ disk[object[o].file] \in Seq(Contents)
  BY PagesToRead
<1>2. /\ Epid(o) = Len(disk[object[o].file]) /\ erid[o] = EndOfPages(disk[object[o].file])
      /\ FileInv(object[o].file)
  BY <1>1 DEF IInv, EndInv, EndRid
<1> QED
  BY <1>1, <1>2, EndIsCount DEF FileInv

(* However sessions, failed reads, failed writes and ends of the process   *)
(* follow each other, a file holds one record for each append that         *)
(* returned 0 and erid is the next free id; and the records are the ones   *)
(* appended, in order, unless a page that could not be read was written    *)
(* back.  For any number of objects, files and slots, any size of a page.  *)
THEOREM AppendsAreKept == Spec => []RecordsKept
<1>1. IInv => RecordsKept
  BY InvariantKeepsAppended, InvariantPutsEridAtEnd DEF RecordsKept
<1> QED
  BY Invariance, <1>1, PTL

LEMMA InvariantReadsAppended == IInv => ReadsWhatWasAppended
<1> SUFFICES ASSUME IInv, NEW o \in Objects, IsOpen(o), object[o].file \notin tainted,
                    NEW r \in Rids, Before(r, erid[o]), ~ Suspect(o, r.pid)
             PROVE  /\ r.sid < Len(Seen(o, r.pid))
                    /\ Seen(o, r.pid)[r.sid + 1] = written[object[o].file][Number(r) + 1]
  BY DEF ReadsWhatWasAppended
<1> DEFINE f == object[o].file
           pages == disk[f]
           e == erid[o]
<1>1. f \in Files /\ pages \in Seq(Contents) /\ r.pid < Len(pages)
      /\ AllButLastFull(pages) /\ Len(pages) <= MaxPages /\ e = EndOfPages(pages)
  BY PagesToRead DEF IInv, FileInv, EndRid
<1>2. r.pid \in Nat /\ r.sid \in 0 .. RECORDS_PER_PAGE - 1 /\ RECORDS_PER_PAGE \in Nat
  BY PageAssumption, RecordAssumption DEF Rids, PageAssumption, RecordAssumption
<1>3. Seen(o, r.pid) = pages[r.pid + 1]
  BY <1>1, <1>2, SeenPage
<1>4. r.sid < Len(pages[r.pid + 1])
  <2>1. CASE r.pid + 1 < Len(pages)
    BY <1>1, <1>2, <2>1 DEF AllButLastFull
  <2>2. CASE r.pid + 1 = Len(pages)
    <3>1. CASE e.sid = 0
      BY <1>1, <1>2, <2>2, <3>1, EndIsCount
    <3>2. CASE e.sid > 0
      BY <1>1, <1>2, <2>2, <3>2, EndIsCount DEF Before
    <3>3. e.sid \in Nat
      BY <1>2 DEF IInv, TypeOK, Rids
    <3> QED
      BY <3>1, <3>2, <3>3
  <2> QED
    BY <1>1, <1>2, <2>1, <2>2
<1>5. InFile(f, r)
  BY <1>1, <1>4 DEF InFile
<1> QED
  BY <1>1, <1>3, <1>4, <1>5, InvariantKeepsAppended DEF KeepsAppended

(* A slot of the cache holds its page as the disk has it, in one place,    *)
(* whatever is opened under its descriptor again, unless its own read      *)
(* failed; and read answers the record that append put under the id.       *)
THEOREM CacheIsSound == Spec => []CacheSound
<1>1. IInv => CacheCoherent
  BY DEF IInv, Apart, CacheInv, Holds, Used, CacheCoherent, IsOpen
<1>2. IInv => OncePerPage
  BY DEF IInv, CacheInv, OnceEach, Used, OncePerPage
<1>3. IInv => CacheSound
  BY <1>1, <1>2, InvariantReadsAppended DEF CacheSound, IInv
<1> QED
  BY Invariance, <1>3, PTL
=============================================================================
