----------------------------- MODULE RecordFile -----------------------------
(***************************************************************************)
(* RecordFile.cc (Bruinbase): a table is a file of pages of records, read  *)
(* and appended to through PageFile and the cache that all open files      *)
(* share.  A record id is a page and a slot; erid, kept in memory only, is *)
(* the id the next record gets and is found again by open.  As SqlEngine   *)
(* has it, no file is open twice at a time and none that is open for       *)
(* reading is appended to.  A read or a write of the operating system may  *)
(* fail, and the process may end at any call.                              *)
(***************************************************************************)
EXTENDS PageFile, Folds, Functions

CONSTANTS Records,
          Blank,            \* the record read from zeros
          RECORDS_PER_PAGE,
          MaxAppends,       \* bound: records appended, to all files
          MaxFaults         \* bound: failed reads and writes

VARIABLES
  erid,    \* object -> end record id
  written, \* file -> the records whose append returned 0, in order
  tainted, \* files written to from a page whose read had failed
  faults

vars == <<disk, readCache, object, erid, written, tainted, faults>>

ASSUME RecordAssumption ==
  /\ RECORDS_PER_PAGE \in Nat \ {0} /\ {MaxAppends, MaxFaults} \subseteq Nat
  /\ Zeros = <<>>
  /\ Contents = UNION { [1 .. n -> Records \cup {Blank}] : n \in 0 .. RECORDS_PER_PAGE }

(* A record id, compared by page and then by slot, and what ++ makes of it.*)
Rid(p, s) == [pid |-> p, sid |-> s]
Before(r, q) == r.pid < q.pid \/ (r.pid = q.pid /\ r.sid < q.sid)
Following(r) == IF r.sid + 1 >= RECORDS_PER_PAGE THEN Rid(r.pid + 1, 0)
                ELSE Rid(r.pid, r.sid + 1)

(* writeSlot and setRecordCount: the page ends with the slot written; the  *)
(* slots before it are what they were, zeros if they never were.           *)
Page(old, sid, r) ==
  [i \in 1 .. sid + 1 |->
    IF i = sid + 1 THEN r ELSE IF i <= Len(old) THEN old[i] ELSE Blank]

(* A call of the operating system fails.                                   *)
Fault == faults < MaxFaults /\ faults' = faults + 1

-----------------------------------------------------------------------------
Init ==
  /\ disk = [f \in Files |-> <<>>]
  /\ readCache = [i \in Slots |-> EmptySlot]
  /\ object = [o \in Objects |-> NoFile]
  /\ erid = [o \in Objects |-> Rid(0, 0)]
  /\ written = [f \in Files |-> <<>>] /\ tainted = {} /\ faults = 0

Openable(o, f, d) ==
  ~ IsOpen(o) /\ FreeFd(d) /\ \A p \in Objects : object[p].file # f

(* open: the end of an empty file is (0, 0), of any other behind the       *)
(* records of its last page.                                               *)
OpenEmpty(o, f) ==
  \E d \in Fds :
    /\ Openable(o, f, d) /\ disk[f] = <<>>
    /\ object' = [object EXCEPT ![o] = Opened(f, d)]
    /\ erid' = [erid EXCEPT ![o] = Rid(0, 0)]
    /\ UNCHANGED <<disk, readCache, written, tainted, faults>>

EndOf(f) ==
  LET last == Len(disk[f]) - 1
      n == Len(disk[f][last + 1])
  IN  IF n >= RECORDS_PER_PAGE THEN Rid(last + 1, 0) ELSE Rid(last, n)

Open(o, f) ==
  \E d \in Fds :
    /\ Openable(o, f, d) /\ disk[f] # <<>>
    /\ object' = [object EXCEPT ![o] = Opened(f, d)]
    /\ readCache' = ReadFrom(f, d, Len(disk[f]) - 1)
    /\ erid' = [erid EXCEPT ![o] = EndOf(f)]
    /\ UNCHANGED <<disk, written, tainted, faults>>

(* The read of the last page fails: pf is closed again.                    *)
OpenFails(o, f) ==
  \E d \in Fds :
    /\ Openable(o, f, d) /\ disk[f] # <<>> /\ Fault
    /\ readCache' = Closed(FailedRead(d, Len(disk[f]) - 1), d)
    /\ UNCHANGED <<disk, object, erid, written, tainted>>

Close(o) ==
  /\ IsOpen(o)
  /\ readCache' = Closed(readCache, object[o].fd)
  /\ object' = [object EXCEPT ![o] = NoFile]
  /\ erid' = [erid EXCEPT ![o] = Rid(0, 0)]
  /\ UNCHANGED <<disk, written, tainted, faults>>

-----------------------------------------------------------------------------
(* append: the page has records and is read first, or is a new one.        *)
CacheFor(o) ==
  IF erid[o].sid > 0 THEN ReadFrom(object[o].file, object[o].fd, erid[o].pid)
  ELSE readCache

Bug_NotRead(o) == Zeros

OldPage(o) == IF erid[o].sid > 0 THEN Seen(o, erid[o].pid) ELSE Zeros

AppendRecord(o, r) ==
  /\ IsOpen(o) /\ erid[o].pid < MaxPages
  /\ FoldFunction(LAMBDA w, n : Len(w) + n, 0, written) < MaxAppends
  /\ WritePage(o, erid[o].pid, Page(OldPage(o), erid[o].sid, r), CacheFor(o))
  /\ erid' = [erid EXCEPT ![o] = Following(@)]
  /\ written' = [written EXCEPT ![object[o].file] = Append(@, r)]
  /\ tainted' = IF erid[o].sid > 0 /\ Suspect(o, erid[o].pid)
                THEN tainted \cup {object[o].file} ELSE tainted
  /\ UNCHANGED faults

(* The write fails.                                                        *)
AppendNotWritten(o) ==
  /\ IsOpen(o) /\ Fault
  /\ readCache' = CacheFor(o)
  /\ UNCHANGED <<disk, object, erid, written, tainted>>

CanMiss(o, pid) == Hits(readCache, object[o].fd, pid) = {}

AppendNotRead(o) ==
  /\ IsOpen(o) /\ erid[o].sid > 0 /\ CanMiss(o, erid[o].pid) /\ Fault
  /\ readCache' = FailedRead(object[o].fd, erid[o].pid)
  /\ UNCHANGED <<disk, object, erid, written, tainted>>

(* read, of an id before the end.                                          *)
Read(o, r) ==
  /\ IsOpen(o) /\ Before(r, erid[o])
  /\ readCache' = ReadFrom(object[o].file, object[o].fd, r.pid)
  /\ UNCHANGED <<disk, object, erid, written, tainted, faults>>

ReadFails(o, r) ==
  /\ IsOpen(o) /\ Before(r, erid[o]) /\ CanMiss(o, r.pid) /\ Fault
  /\ readCache' = FailedRead(object[o].fd, r.pid)
  /\ UNCHANGED <<disk, object, erid, written, tainted>>

(* The process ends, with whatever it has open.                            *)
Die ==
  /\ readCache' = [i \in Slots |-> EmptySlot]
  /\ object' = [o \in Objects |-> NoFile]
  /\ erid' = [o \in Objects |-> Rid(0, 0)]
  /\ UNCHANGED <<disk, written, tainted, faults>>

Next ==
  \/ \E o \in Objects, f \in Files : OpenEmpty(o, f) \/ Open(o, f) \/ OpenFails(o, f)
  \/ \E o \in Objects, r \in Records : AppendRecord(o, r)
  \/ \E o \in Objects : \E p \in 0 .. MaxPages, s \in 0 .. RECORDS_PER_PAGE - 1 :
       Read(o, Rid(p, s)) \/ ReadFails(o, Rid(p, s))
  \/ \E o \in Objects : Close(o) \/ AppendNotWritten(o) \/ AppendNotRead(o)
  \/ Die

Spec == Init /\ [][Next]_vars

-----------------------------------------------------------------------------
Rids == [pid : 0 .. MaxPages, sid : 0 .. RECORDS_PER_PAGE - 1]

Slot == [fd : {0} \cup Fds, pid : 0 .. MaxPages, failed : BOOLEAN,
         lastAccessed : 0 .. CACHE_COUNT, buffer : Contents]

Object == {NoFile} \cup [fd : Fds, file : Files, epid : 0 .. MaxPages]

(* Types of the objects, of the cache and of the pages.                    *)
TypeOK ==
  /\ disk \in [Files -> Seq(Contents)] /\ readCache \in [Slots -> Slot]
  /\ object \in [Objects -> Object] /\ erid \in [Objects -> Rids]
  /\ written \in [Files -> Seq(Records)] /\ tainted \subseteq Files
  /\ faults \in 0 .. MaxFaults

(* No descriptor is shared, and a slot that carries one holds the page of  *)
(* its file as it is on the disk, whatever was written, closed and opened  *)
(* since under the same number, unless its own read failed.                *)
CacheCoherent ==
  /\ \A o, p \in Objects : IsOpen(o) /\ o # p => object[o].fd # object[p].fd
  /\ \A i \in Slots :
       readCache[i].lastAccessed # 0 /\ ~ readCache[i].failed =>
         \E o \in Objects :
           /\ object[o].fd = readCache[i].fd
           /\ readCache[i].pid < Len(disk[object[o].file])
           /\ readCache[i].buffer = disk[object[o].file][readCache[i].pid + 1]

(* No page is in the cache twice.                                          *)
OncePerPage ==
  \A i, j \in Slots :
    /\ readCache[i].lastAccessed # 0 /\ readCache[j].lastAccessed # 0
    /\ readCache[i].fd = readCache[j].fd /\ readCache[i].pid = readCache[j].pid
    => i = j

(* The number of a record id in the order of the ids, and the ids of the   *)
(* slots a file has.                                                       *)
Number(r) == r.pid * RECORDS_PER_PAGE + r.sid
InFile(f, r) == r.pid < Len(disk[f]) /\ r.sid < Len(disk[f][r.pid + 1])

(* The file has a record for every append that returned 0, and no other,   *)
(* at every moment and so after any end of the process; and they are the   *)
(* records appended, in that order, unless the file was written to from a  *)
(* page that could not be read.                                            *)
KeepsAppended ==
  \A f \in Files : \A r \in Rids :
    /\ InFile(f, r) <=> Number(r) < Len(written[f])
    /\ InFile(f, r) /\ f \notin tainted =>
         disk[f][r.pid + 1][r.sid + 1] = written[f][Number(r) + 1]

(* erid is the id behind the last record, in every session and whatever    *)
(* failed before: ids are handed out in order, each once, and epid is the  *)
(* page behind the last.                                                   *)
EridAtEnd ==
  \A o \in Objects : IsOpen(o) =>
    /\ Epid(o) = Len(disk[object[o].file])
    /\ Number(erid[o]) = Len(written[object[o].file])

(* What read answers for an id before the end, "read a disk page into      *)
(* memory buffer" (PageFile.h:45): the record that append put there,       *)
(* unless a failed read has left its slot behind.                          *)
ReadsWhatWasAppended ==
  \A o \in Objects : IsOpen(o) /\ object[o].file \notin tainted =>
    \A r \in Rids : Before(r, erid[o]) /\ ~ Suspect(o, r.pid) =>
      /\ r.sid < Len(Seen(o, r.pid))
      /\ Seen(o, r.pid)[r.sid + 1] = written[object[o].file][Number(r) + 1]

(* A file has the records that append was thanked for, in order, and erid  *)
(* is the id behind the last, unless a page was written over one that      *)
(* could not be read (RecordFile.cc).                                      *)
RecordsKept == KeepsAppended /\ EridAtEnd

(* read answers what append put there: a slot of the cache holds its page  *)
(* as the disk has it, no page is in two slots, whatever is opened under a *)
(* descriptor again (PageFile.cc).                                         *)
CacheSound == TypeOK /\ CacheCoherent /\ OncePerPage /\ ReadsWhatWasAppended
=============================================================================
