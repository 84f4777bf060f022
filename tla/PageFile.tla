------------------------------ MODULE PageFile ------------------------------
(***************************************************************************)
(* PageFile.cc (Bruinbase): files of pages behind one read cache that all  *)
(* the PageFile objects of the process share.  A slot of the cache is      *)
(* known by a file descriptor and a page number; the operating system      *)
(* gives a descriptor that was closed to the next file opened.  A page     *)
(* is read through the cache, and a write puts its page out of it.         *)
(***************************************************************************)
EXTENDS Integers, Sequences, FiniteSets

CONSTANTS Files,
          Objects,     \* the objects of class PageFile
          CACHE_COUNT, \* 10 in PageFile.h
          Contents,    \* what a page may hold
          Zeros,       \* the content of a page of zeros
          MaxPages     \* bound: pages of a file

ASSUME PageAssumption ==
  /\ IsFiniteSet(Objects) /\ CACHE_COUNT \in Nat \ {0}
  /\ Zeros \in Contents /\ MaxPages \in Nat

VARIABLES
  disk,      \* file -> its pages; page pid is disk[f][pid + 1]
  readCache, \* slot -> what the cache has there
  object     \* object -> descriptor, file and epid

Slots == 1 .. CACHE_COUNT

(* The descriptors above those of the standard streams; enough for all.    *)
Fds == 3 .. 2 + Cardinality(Objects)

NoFile == [fd |-> -1, file |-> -1, epid |-> 0]

(* A slot is empty when lastAccessed is 0; its buffer keeps what it held.  *)
(* "failed" is not in the code: the read that filled the slot failed.      *)
EmptySlot == [fd |-> 0, pid |-> 0, lastAccessed |-> 0, buffer |-> Zeros, failed |-> FALSE]

IsOpen(o) == object[o].fd # -1

Epid(o) == object[o].epid

(* cacheClock only orders the accesses: they are counted from the oldest.  *)
Aged(c) ==
  [i \in Slots |->
    [c[i] EXCEPT !.lastAccessed =
      Cardinality({ j \in Slots : 0 < c[j].lastAccessed
                                    /\ c[j].lastAccessed <= c[i].lastAccessed })]]

Touched(c, i) == Aged([c EXCEPT ![i].lastAccessed = CACHE_COUNT + 1])

Hits(c, fd, pid) ==
  { i \in Slots : c[i].fd = fd /\ c[i].pid = pid /\ c[i].lastAccessed # 0 }

(* The slot to evict: the first that is empty, or the one accessed least   *)
(* recently.                                                               *)
ToEvict(c) ==
  CHOOSE i \in Slots : \A j \in Slots :
    \/ c[i].lastAccessed < c[j].lastAccessed
    \/ c[i].lastAccessed = c[j].lastAccessed /\ i <= j

(* The cache after slot i was given to a page; its buffer is what the read *)
(* of the page returned, or what it was when that read fails.              *)
Filled(c, i, fd, pid, page) ==
  Touched([c EXCEPT ![i] = [@ EXCEPT !.fd = fd, !.pid = pid, !.buffer = page,
                                     !.failed = FALSE]], i)
Mislabelled(c, i, fd, pid) ==
  Touched([c EXCEPT ![i] = [@ EXCEPT !.fd = fd, !.pid = pid, !.failed = TRUE]], i)

Dropped(c, S) ==
  [i \in Slots |-> IF i \in S
                   THEN [c[i] EXCEPT !.fd = 0, !.pid = 0, !.lastAccessed = 0]
                   ELSE c[i]]

(* The page of an open object that read delivers, and whether it is one    *)
(* whose own read failed.                                                  *)
Seen(o, pid) ==
  LET H == Hits(readCache, object[o].fd, pid)
  IN  IF H = {} THEN disk[object[o].file][pid + 1]
      ELSE readCache[CHOOSE i \in H : TRUE].buffer
Suspect(o, pid) ==
  \E i \in Hits(readCache, object[o].fd, pid) : readCache[i].failed

(* read, as it leaves the cache: the page was there, is now, or should be. *)
ReadFrom(f, fd, pid) ==
  LET H == Hits(readCache, fd, pid)
  IN  IF H # {} THEN Touched(readCache, CHOOSE i \in H : TRUE)
      ELSE Filled(readCache, ToEvict(readCache), fd, pid, disk[f][pid + 1])

FailedRead(fd, pid) == Mislabelled(readCache, ToEvict(readCache), fd, pid)

(* write, of a page that exists or of the one after the last.  c is the    *)
(* cache before it: the caller may just have read.                         *)
Written(pages, pid, page) ==
  IF pid = Len(pages) THEN Append(pages, page) ELSE [pages EXCEPT ![pid + 1] = page]

Bug_NotInvalidated(o, pid, page, c) ==
  /\ disk' = [disk EXCEPT ![object[o].file] = Written(@, pid, page)]
  /\ readCache' = c
  /\ object' = [object EXCEPT ![o].epid = IF pid >= @ THEN pid + 1 ELSE @]

WritePage(o, pid, page, c) ==
  /\ disk' = [disk EXCEPT ![object[o].file] = Written(@, pid, page)]
  /\ readCache' = Dropped(c, Hits(c, object[o].fd, pid))
  /\ object' = [object EXCEPT ![o].epid = IF pid >= @ THEN pid + 1 ELSE @]

(* open: the lowest descriptor that is free.                               *)
FreeFd(d) ==
  /\ d \in Fds /\ \A o \in Objects : object[o].fd # d
  /\ \A e \in 3 .. d - 1 : \E o \in Objects : object[o].fd = e

Opened(f, d) == [fd |-> d, file |-> f, epid |-> Len(disk[f])]

(* close, of the descriptor d: its pages leave the cache.                  *)
Closed(c, d) == Dropped(c, { i \in Slots : c[i].fd = d /\ c[i].lastAccessed # 0 })
=============================================================================
