------------------------------ MODULE SqlEngine ------------------------------
(***************************************************************************)
(* SqlEngine.cc (Bruinbase), select and load, over one table: a file of    *)
(* records and, once it was loaded "with index", the index of BTreeIndex,  *)
(* whose variables are here the index's file and the index object of the   *)
(* call that runs.  The record file is the sequence of its records; a      *)
(* record id is the place in it.  SqlEngine.cc holds three copies of this  *)
(* code between merge markers, alike but for a "rc = 0"; this is the       *)
(* second.                                                                 *)
(***************************************************************************)
EXTENDS BTreeIndex

CONSTANTS LoadFiles,      \* the files to load: sequences of rows
          Conds,          \* the conditions of the queries
          MaxConds, MaxRecords, MaxOut, MaxFaults   \* bounds

VARIABLES table,    \* the records of <table>.tbl
          hasTable, hasIndex,   \* <table>.tbl, <table>.idx are there
          loading,  \* a load is running: "no", "with index" or "without"
          lines,    \* what it has still to read
          query,    \* the select that runs, or the last one
          faults
indexVars == <<pages, rootPid, treeHeight, isOpen, crashed>>
sqlVars == <<indexVars, opens, inserted, table, hasTable, hasIndex, loading, lines, query, faults>>

Row(k, v) == [key |-> k, value |-> v]
RidOf(i) == Entry(0, (i - 1) \div PerPage, (i - 1) % PerPage)
PlaceOf(rid) == rid.pid * PerPage + rid.sid + 1
None == -2          \* "no such condition" in keyEQCond, keyLECond and keyGECond

Met(comp, x, y) ==
  CASE comp = "EQ" -> x = y [] comp = "NE" -> x # y [] comp = "LT" -> x < y
    [] comp = "GT" -> x > y [] comp = "LE" -> x <= y [] comp = "GE" -> x >= y
Meets(r, c) == Met(c.comp, IF c.attr = 1 THEN r.key ELSE r.value, c.value)
MeetsAll(r, cs) == \A i \in DOMAIN cs : Meets(r, cs[i])

-----------------------------------------------------------------------------
(* What the loop over the conditions gathers for the index.                *)
NoPlan == [useTree |-> FALSE, valid |-> TRUE, eq |-> None, le |-> None, ge |-> None,
           ne |-> {}, rest |-> <<>>]

WithEQ(p, v) ==
  LET eq == IF p.eq = None THEN v ELSE p.eq
  IN  [p EXCEPT !.eq = eq,
        !.valid = /\ eq = v /\ eq \notin p.ne
                  /\ p.le # None => p.le <= eq
                  /\ p.ge # None => p.ge >= eq]

WithNE(p, v) == [p EXCEPT !.ne = @ \cup {v}, !.valid = p.eq # v]

Bug_Inclusive(p, v) ==
  LET le == IF p.le = None \/ v < p.le THEN v ELSE p.le
  IN  [p EXCEPT !.le = le,
        !.valid = (p.eq # None => le >= p.eq) /\ (p.ge # None => le >= p.ge)]

WithLT(p, v) ==
  LET le == IF p.le = None \/ v <= p.le THEN v - 1 ELSE p.le
  IN  [p EXCEPT !.le = le,
        !.valid = (p.eq # None => le >= p.eq) /\ (p.ge # None => le >= p.ge)]

WithLE(p, v) ==
  LET le == IF p.le = None \/ v < p.le THEN v ELSE p.le
  IN  [p EXCEPT !.le = le,
        !.valid = (p.eq # None => le >= p.eq) /\ (p.ge # None => le >= p.ge)]

WithGT(p, v) ==
  LET ge == IF p.ge = None \/ v >= p.ge THEN v + 1 ELSE p.ge
  IN  [p EXCEPT !.ge = ge,
        !.valid = (p.eq # None => ge <= p.eq) /\ (p.le # None => p.le >= ge)]

(* The last test looks at keyLECond whether it is set or not.              *)
WithGE(p, v) ==
  LET ge == IF p.ge = None \/ v > p.ge THEN v ELSE p.ge
  IN  [p EXCEPT !.ge = ge,
        !.valid = (p.eq # None => ge <= p.eq) /\ (ge # None => p.le >= ge)]

WithKey(p, c) ==
  CASE c.comp = "EQ" -> WithEQ(p, c.value) [] c.comp = "NE" -> WithNE(p, c.value)
    [] c.comp = "LT" -> WithLT(p, c.value) [] c.comp = "GT" -> WithGT(p, c.value)
    [] c.comp = "LE" -> WithLE(p, c.value) [] c.comp = "GE" -> WithGE(p, c.value)

With(p, c) ==
  IF ~ p.valid THEN p
  ELSE IF c.attr = 1 THEN [WithKey(p, c) EXCEPT !.useTree = @ \/ c.comp # "NE"]
  ELSE [p EXCEPT !.rest = Append(@, c)]

(* The conditions are looked at only when the index opens.                 *)
Plan(cs) == IF hasIndex THEN FoldLeft(With, NoPlan, cs) ELSE NoPlan

-----------------------------------------------------------------------------
(* select *)

(* rid, at first, is that of the first record; cursor is not set at all.   *)
Nowhere == [pid |-> -1, eid |-> -1]
Idle == [conds |-> <<>>, plan |-> NoPlan, garbage |-> Nowhere, cursor |-> Nowhere,
         rid |-> RidOf(1), out |-> <<>>, state |-> "idle"]
Over == query.state \in {"done", "failed", "refused"}
Resting == query = Idle /\ loading = "no" /\ ~ crashed
Fault == faults < MaxFaults /\ faults' = faults + 1
NoObject == isOpen' = FALSE /\ rootPid' = -1 /\ treeHeight' = 0
FilesKept == UNCHANGED <<table, hasTable, hasIndex, loading, lines, inserted, opens, pages>>
Kept == FilesKept /\ UNCHANGED <<faults, indexVars>>

Queries == SeqOf(Conds, MaxConds)

(* With no table select returns at once.                                   *)
Select(cs) ==
  /\ Resting /\ hasTable
  /\ \E c \in Cursors :
       query' = [Idle EXCEPT !.conds = cs, !.plan = Plan(cs), !.garbage = c, !.cursor = c,
                   !.state = "opened"]
  /\ IF hasIndex THEN Opened /\ isOpen' = TRUE ELSE UNCHANGED <<rootPid, treeHeight, isOpen>>
  /\ FilesKept /\ UNCHANGED <<faults, crashed>>

ByTree == query.plan.useTree /\ query.plan.valid
Scanning == query.state = "opened" /\ query.plan.valid /\ ~ query.plan.useTree
Walking == query.state = "walking"

(* The call is over.  close, of an index opened to read, writes nothing.   *)
Exit(state, out) ==
  /\ query' = [Idle EXCEPT !.conds = query.conds, !.plan = query.plan, !.out = out,
                 !.garbage = query.garbage, !.state = state]
  /\ NoObject /\ FilesKept /\ UNCHANGED <<faults, crashed>>

(* Contradicting conditions: nothing is printed, 1 is returned.            *)
Refuse == query.state = "opened" /\ ~ query.plan.valid /\ Exit("refused", <<>>)

Readable(rid) == rid.pid >= 0 /\ rid.sid \in 0 .. PerPage - 1 /\ PlaceOf(rid) <= Len(table)
RowOf(rid) == table[PlaceOf(rid)]
Added(r, ok) == IF ok THEN Append(query.out, r) ELSE query.out

(* The scan reads up to the end of the file and tests every condition.     *)
ScanRow ==
  /\ Scanning /\ Readable(query.rid)
  /\ query' = [query EXCEPT !.rid = RidOf(PlaceOf(@) + 1),
                 !.out = Added(RowOf(query.rid), MeetsAll(RowOf(query.rid), query.conds))]
  /\ Kept

ScanEnd == Scanning /\ ~ Readable(query.rid) /\ Exit("done", query.out)

(* The search through the index; its code is not looked at.                *)
Searched == IF query.plan.eq # None THEN query.plan.eq ELSE query.plan.ge

SearchDies ==
  /\ query.state = "opened" /\ ByTree /\ LocateFalls(Searched, query.cursor)
  /\ crashed' = TRUE
  /\ FilesKept /\ UNCHANGED <<rootPid, treeHeight, isOpen, query, faults>>

(* With a key asked for, the entry at the cursor is read, or none and rid  *)
(* is the first record's, and its record is tested by the values only.     *)
LookUp ==
  /\ query.state = "opened" /\ ByTree /\ query.plan.eq # None
  /\ ~ LocateFalls(Searched, query.cursor)
  /\ LET rid == readForward(locate(Searched, query.cursor), query.rid).entry
     IN  IF ~ Readable(rid) THEN Exit("failed", <<>>)
         ELSE Exit("done", Added(RowOf(rid), MeetsAll(RowOf(rid), query.plan.rest)))

BeginWalk ==
  /\ query.state = "opened" /\ ByTree /\ query.plan.eq = None
  /\ ~ LocateFalls(Searched, query.cursor)
  /\ query' = [query EXCEPT !.cursor = locate(Searched, @), !.state = "walking"]
  /\ Kept

(* The walk ends when readForward says so, whatever entry came with that,  *)
(* at a record that cannot be read, or at one beyond the upper bound.  A   *)
(* call of readForward that fails leaves rid: the same record once more.   *)
Forward == readForward(query.cursor, query.rid)
Beyond(r) == query.plan.le # None /\ r.key > query.plan.le

WalkEnd ==
  /\ Walking
  /\ \/ Forward.rc = "end"
     \/ Readable(Forward.entry) /\ Beyond(RowOf(Forward.entry))
  /\ Exit("done", query.out)

WalkAstray ==
  /\ Walking /\ Forward.rc # "end" /\ ~ Readable(Forward.entry)
  /\ Exit("failed", query.out)

WalkRow ==
  /\ Walking /\ Forward.rc # "end" /\ Readable(Forward.entry) /\ Len(query.out) < MaxOut
  /\ LET r == RowOf(Forward.entry)
     IN  /\ ~ Beyond(r)
         /\ query' = [query EXCEPT !.cursor = Forward.cursor, !.rid = Forward.entry,
              !.out = Added(r, r.key \notin query.plan.ne /\ MeetsAll(r, query.plan.rest))]
  /\ Kept

(* A page of the table cannot be read: the rows printed stay printed.      *)
ReadFails ==
  /\ \/ Scanning /\ Readable(query.rid)
     \/ Walking /\ Forward.rc # "end" /\ Readable(Forward.entry)
     \/ /\ query.state = "opened" /\ ByTree /\ query.plan.eq # None
        /\ ~ LocateFalls(Searched, query.cursor)
  /\ Fault
  /\ query' = [Idle EXCEPT !.conds = query.conds, !.plan = query.plan, !.out = query.out,
                 !.garbage = query.garbage, !.state = "failed"]
  /\ NoObject /\ FilesKept /\ UNCHANGED crashed

(* What the select printed is on the screen; the next statement is read.   *)
Prompt == Over /\ query' = Idle /\ Kept

-----------------------------------------------------------------------------
(* load: the record is appended, then its id inserted into the index.  The *)
(* id is taken before the append, whose error is ignored.                  *)
BeginLoad(f, withIndex) ==
  /\ Resting /\ opens < MaxOpens /\ Len(table) + Len(f) <= MaxRecords
  /\ opens' = opens + 1
  /\ lines' = f /\ loading' = IF withIndex THEN "with index" ELSE "without"
  /\ hasTable' = TRUE /\ hasIndex' = (hasIndex \/ withIndex)
  /\ IF withIndex THEN Opened /\ isOpen' = TRUE ELSE UNCHANGED <<rootPid, treeHeight, isOpen>>
  /\ UNCHANGED <<pages, inserted, crashed, table, query, faults>>

NextLine == loading # "no" /\ lines # <<>> /\ ~ crashed /\ lines' = Tail(lines)
NewEntry == [RidOf(Len(table) + 1) EXCEPT !.key = Head(lines).key]
IndexPut ==
  /\ IF loading = "with index" THEN Put(NewEntry)
     ELSE UNCHANGED <<pages, rootPid, treeHeight, crashed>>
  /\ UNCHANGED <<loading, isOpen>>
LoadKept == UNCHANGED <<hasTable, hasIndex, query, inserted, opens>>

LoadLine ==
  /\ NextLine /\ table' = Append(table, Head(lines)) /\ IndexPut
  /\ LoadKept /\ UNCHANGED faults

AppendFails == NextLine /\ Fault /\ IndexPut /\ LoadKept /\ UNCHANGED table

(* The first write of an empty tree fails and load returns as it is.       *)
FirstInsertFails ==
  /\ loading = "with index" /\ lines # <<>> /\ ~ crashed /\ treeHeight = 0 /\ Fault
  /\ table' = Append(table, Head(lines))
  /\ loading' = "no" /\ lines' = <<>> /\ NoObject
  /\ LoadKept /\ UNCHANGED <<pages, crashed>>

(* insert does not look at what the write of a leaf returns.               *)
InsertLost ==
  /\ loading = "with index" /\ NextLine /\ treeHeight = 1 /\ Fault
  /\ ~ Full(Read(pages, rootPid, EmptyLeaf))
  /\ table' = Append(table, Head(lines))
  /\ LoadKept /\ UNCHANGED <<indexVars, loading>>

EndLoad ==
  /\ loading # "no" /\ lines = <<>> /\ ~ crashed
  /\ pages' = IF loading = "with index" THEN Append(pages, Header) ELSE pages
  /\ loading' = "no" /\ NoObject
  /\ LoadKept /\ UNCHANGED <<table, lines, crashed, faults>>

SqlInit ==
  /\ Init
  /\ table = <<>> /\ hasTable = FALSE /\ hasIndex = FALSE
  /\ loading = "no" /\ lines = <<>> /\ query = Idle /\ faults = 0

SqlNext ==
  \/ \E cs \in Queries : Select(cs)
  \/ Refuse \/ ScanRow \/ ScanEnd \/ SearchDies \/ LookUp
  \/ BeginWalk \/ WalkRow \/ WalkEnd \/ WalkAstray \/ ReadFails \/ Prompt
  \/ \E f \in LoadFiles, withIndex \in BOOLEAN : BeginLoad(f, withIndex)
  \/ LoadLine \/ AppendFails \/ FirstInsertFails \/ InsertLost \/ EndLoad

-----------------------------------------------------------------------------
Wanted == SelectSeq(table, LAMBDA r : MeetsAll(r, query.conds))

(* The records are on the first page of the table, no two with one key,    *)
(* and the tree of the index is one leaf, the first page of its file, with *)
(* an entry for each: what locate, which goes down too far, still finds.   *)
Mirrors ==
  /\ Len(table) \in 1 .. PerPage
  /\ IsInjective([i \in DOMAIN table |-> table[i].key])
  /\ pages # <<>> /\ Last(pages).count = 0 /\ Last(pages).end = 1
  /\ LET l == Read(pages, 0, EmptyLeaf).list
     IN  /\ Len(l) = Len(table)
         /\ ToSet(l) = {Entry(table[i].key, 0, i - 1) : i \in DOMAIN table}

(* The orders of conditions the planner has right: an equality before any  *)
(* bound, and a lower bound ">=" behind an upper one.                      *)
Regular ==
  \A i \in DOMAIN query.conds :
    LET c == query.conds[i]
        before == {query.conds[j].comp : j \in {m \in 1 .. i - 1 : query.conds[m].attr = 1}}
    IN  c.attr = 1 => /\ c.comp = "GE" => before \cap {"LT", "LE"} # {}
                      /\ c.comp = "EQ" => before \cap {"LT", "LE", "GE", "GT"} = {}

(* A search that fails leaves the cursor: some key is not below the one    *)
(* looked for, and the cursor's bytes are not negative by accident.  A key *)
(* asked for is itself there: the look-up takes the entry for it.          *)
Found ==
  /\ Valid(query.garbage) /\ \E i \in DOMAIN table : table[i].key >= Searched
  /\ query.plan.eq # None => Regular /\ \E i \in DOMAIN table : table[i].key = query.plan.eq

(* A walk may end at the last row it reads, that of the greatest key.      *)
MayBeMissed(r) == query.plan.eq = None /\ \A i \in DOMAIN table : table[i].key <= r.key

(***************************************************************************)
(* What select prints are rows that meet the whole where clause, each once *)
(* (SqlEngine.h:43-45).  A scan prints them in the order of the file, all  *)
(* of them when it ends without an error.  The index, where it mirrors the *)
(* table and has what is looked for, prints them in the order of the keys, *)
(* and all but perhaps that of the greatest key (RangeIsPrinted).  A query *)
(* that is refused, its conditions in an order the planner has right, asks *)
(* for no row.                                                             *)
(***************************************************************************)
SelectsOnlyWanted ==
  IF ~ query.plan.valid THEN Regular => Wanted = <<>>
  ELSE IF ByTree
  THEN Mirrors /\ Found =>
         /\ ~ crashed /\ ToSet(query.out) \subseteq ToSet(Wanted)
         /\ \A i, j \in DOMAIN query.out : i < j => query.out[i].key < query.out[j].key
         /\ query.state = "done" =>
              \A r \in ToSet(Wanted) : r \in ToSet(query.out) \/ MayBeMissed(r)
  ELSE query.state # "idle" =>
         /\ IsPrefix(query.out, Wanted)
         /\ query.state = "done" => query.out = Wanted

(***************************************************************************)
(* "executes a SELECT statement.  all conditions in conds must be ANDed    *)
(* together.  the result of the SELECT is printed on screen."              *)
(* (SqlEngine.h:43-45): of a range that begins in the index every row,     *)
(* that of the greatest key with the others, as output.txt:49-78 has it.   *)
(***************************************************************************)
RangeIsPrinted ==
  query.state = "done" /\ ByTree /\ query.plan.eq = None /\ Mirrors /\ Found =>
    ToSet(Wanted) \subseteq ToSet(query.out)
=============================================================================
