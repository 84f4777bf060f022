----------------------------- MODULE MCDatabases -----------------------------
(***************************************************************************)
(* The parts of the two small databases under one configuration: record    *)
(* files over the shared page cache (which this module extends), the B+    *)
(* tree index and the SQL engine of Bruinbase over it, and the indexer of  *)
(* dBase tables.  A behaviour is one of part's; the others' files and      *)
(* variables stay as they are, so every property may be read for its part  *)
(* alone.                                                                  *)
(***************************************************************************)
EXTENDS RecordFile, TLC

VARIABLES part,
  pages, rootPid, treeHeight, isOpen, opens, inserted, crashed,   \* BTreeIndex, SqlEngine
  table, hasTable, hasIndex, loading, lines, query, sqlFaults,    \* SqlEngine
  linhas, num, pag, cab, lidas, indexadas, estado                 \* ArvoreB

indexVars == <<pages, rootPid, treeHeight, isOpen, opens, inserted, crashed>>
sqlVars == <<table, hasTable, hasIndex, loading, lines, query, sqlFaults>>
arvoreVars == <<linhas, num, pag, cab, lidas, indexadas, estado>>

(* Two files, two objects and a cache of two slots.  Files, objects and    *)
(* records are only compared for equality, so they may be permuted.        *)
MCZeros == <<>>
MCContents == UNION { [1 .. n -> Records \cup {Blank}] : n \in 0 .. RECORDS_PER_PAGE }
MCSymmetry == Permutations(Files) \cup Permutations(Objects) \cup Permutations(Records)

(* Pages of four entries; the stack open reads for a new file holds zeros, *)
(* and a cursor that nobody set holds them or a negative number.           *)
MCGarbage == {[count |-> 0, end |-> 0]}
MCCursors == {[pid |-> 0, eid |-> 0], [pid |-> -1, eid |-> 0]}
Index == INSTANCE BTreeIndex WITH
  N <- 4, Key <- 1 .. 4, MaxKeys <- 7, PerPage <- 2, MaxOpens <- 2,
  Garbage <- MCGarbage, Cursors <- MCCursors

(* Keys around the one that every comparison names; bounds and equalities  *)
(* that agree with it or not; and a condition on the value.                *)
Comparisons == {"EQ", "NE", "LT", "GT", "LE", "GE"}
MCConds == [attr : {1}, comp : Comparisons, value : {1}]
             \cup [attr : {1}, comp : {"EQ", "LE", "GE"}, value : {0}]
             \cup {[attr |-> 2, comp |-> "EQ", value |-> 1]}

(* Two loads: the first page of records and the leaf fill, and overflow.   *)
MCRows(s) == [i \in 1 .. Len(s) |-> [key |-> s[i], value |-> IF s[i] = 0 THEN 2 ELSE 1]]
MCLoadFiles == {MCRows(<<1, 0, 2>>), MCRows(<<2>>)}
Sql == INSTANCE SqlEngine WITH
  N <- 4, Key <- {}, MaxKeys <- 0, PerPage <- 3, MaxOpens <- 2,
  Garbage <- MCGarbage, Cursors <- MCCursors, LoadFiles <- MCLoadFiles, Conds <- MCConds,
  MaxConds <- 2, MaxRecords <- 4, MaxOut <- 4, MaxFaults <- 1, faults <- sqlFaults

(* Every order of five names, the first two ascending, which share a leaf  *)
(* in either order; the orders that build three levels; some with repeated *)
(* names or a record marked excluded.                                      *)
Linhas(s, x) == [i \in 1 .. Len(s) |-> [nome |-> s[i], excluido |-> i \in x]]
Ordens(n) == {s \in Permutations(1 .. n) : s[1] < s[2]}
MCTabelas ==
  {Linhas(s, {}) : s \in Ordens(5)}
    \cup {Linhas([i \in 1 .. 17 |-> i], {}),
          Linhas(<<1, 3, 5, 7, 9, 11, 13, 2, 4, 6, 8, 10, 12, 14>>, {}),
          Linhas(<<1, 2, 3, 3, 4, 3, 3, 2, 3>>, {}), Linhas(<<2, 1, 3, 4, 5, 6, 7>>, {3, 5})}
Arvore == INSTANCE ArvoreB WITH
  DIM <- 4, MINIMO <- 2, Tabelas <- MCTabelas, MaxRemocoes <- 4

NoArvore ==
  /\ linhas = <<>> /\ num = 0 /\ pag = <<>> /\ cab = <<>> /\ lidas = 0
  /\ indexadas = {} /\ estado = "fora"

AllInit ==
  /\ part \in {"records", "index", "sql", "arvoreb"}
  /\ Init /\ Sql!SqlInit
  /\ IF part = "arvoreb" THEN Arvore!Init ELSE NoArvore

AllNext ==
  \/ part = "records" /\ Next        /\ UNCHANGED <<part, indexVars, sqlVars, arvoreVars>>
  \/ part = "index"   /\ Index!Next  /\ UNCHANGED <<part, vars, sqlVars, arvoreVars>>
  \/ part = "sql"     /\ Sql!SqlNext /\ UNCHANGED <<part, vars, arvoreVars>>
  \/ part = "arvoreb" /\ Arvore!Next /\ UNCHANGED <<part, vars, indexVars, sqlVars>>

AllSpec == AllInit /\ [][AllNext]_<<part, vars, indexVars, sqlVars, arvoreVars>>

-----------------------------------------------------------------------------
\* RecordsKept and CacheSound are RecordFile's.

\* The leaves of the index hold inserted records in order, through splits, new roots and
\* reopens (BTreeIndex.cc, BTreeNode.cc).
LeavesSound == part = "index" => Index!LeavesSound

\* select prints rows that meet the where clause, once each: all of them by a scan, by the
\* index all but perhaps the greatest (SqlEngine.cc).
SelectsOnlyWanted == Sql!SelectsOnlyWanted

\* The dBase index is a balanced search tree and its chain of leaves lists every record
\* once and in order, through splits, borrowing and joins, until a removal saves pages at
\* stale positions ("deslocado", arvoreb.cpp:974-982).
ArvoreCompleta ==
  part = "arvoreb" => Arvore!TypeOK /\ Arvore!ArvoreDeBusca /\ Arvore!CadeiaCompleta

\* An entry of the dBase index points at a record of its name (arvoreb.cpp).
EntradaCerta == part = "arvoreb" => Arvore!EntradaCerta
==============================================================================
