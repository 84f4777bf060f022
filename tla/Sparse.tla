------------------------------- MODULE Sparse -------------------------------
(***************************************************************************)
(* SparseMatrix: a list of entries, in any order and with repetitions,     *)
(* that Sort groups, and the direct solver it keeps: YSMP (compressed      *)
(* rows, an external factorisation) or Banded (module Banded).  A solver   *)
(* reads the entries when it first solves and keeps what it read.          *)
(***************************************************************************)
EXTENDS Field, SequencesExt

CONSTANTS N,           \* rows and columns
          Values,      \* the values entered
          MaxEntries   \* bound: the length of the list

VARIABLES entries,   \* matrix: the Entry objects of the list
          status,    \* "EmptyList", "Normal" or "Sorted"
          sym,       \* symmetric: only the upper half is stored
          solver     \* its type, and whether it has read the entries: "not yet", "current",
                     \* or "old" when they were changed since
sparseVars == <<entries, status, sym, solver>>

Entry(i, j, v) == [i |-> i, j |-> j, v |-> v]
EntryLess(a, b) == a.i < b.i \/ (a.i = b.i /\ a.j < b.j)
SamePlace(a, b) == a.i = b.i /\ a.j = b.j
Largest(S) == IF S = {} THEN 0 ELSE CHOOSE a \in S : \A b \in S : a >= b

----------------------------------------------------------------------------
(* Sort *)

EqualAt(es, i) == i < Len(es) /\ SamePlace(es[i], es[i + 1])
IsZero(es, i) == i <= Len(es) /\ es[i].v = 0
MergeAt(es, i) == RemoveAt([es EXCEPT ![i].v = @ ++ es[i + 1].v], i + 1)
\* The inner while: merge with the next entry, drop a zero, at the same place.
RECURSIVE GroupAt(_, _)
GroupAt(es, i) ==
    IF EqualAt(es, i) \/ IsZero(es, i)
    THEN LET merged == IF EqualAt(es, i) THEN MergeAt(es, i) ELSE es
         IN  GroupAt(IF IsZero(merged, i) THEN RemoveAt(merged, i) ELSE merged, i)
    ELSE es
RECURSIVE GroupFrom(_, _)
GroupFrom(es, i) == IF i < Len(es) THEN GroupFrom(GroupAt(es, i), i + 1) ELSE es
Grouped(es) == GroupFrom(SortSeq(es, EntryLess), 1)
Sorted == IF status = "Sorted" THEN entries ELSE Grouped(entries)

NumberOfRows(es) == Largest({es[k].i : k \in DOMAIN es})

\* The matrix meant: the sums of the entries, mirrored when only a half is stored.
Stored(es) ==
    [i \in 1 .. N |-> [j \in 1 .. N |->
        FoldLeft(LAMBDA s, e : IF e.i = i /\ e.j = j THEN s ++ e.v ELSE s, 0, es)]]
Full(es) ==
    LET A == Stored(es)
    IN  [i \in 1 .. N |-> [j \in 1 .. N |-> IF sym /\ i > j THEN A[j][i] ELSE A[i][j]]]

\* Pre and Post add up the entries as they are stored, also of a symmetric matrix.
Pre(es, b) ==
    FoldLeft(LAMBDA ret, e : [ret EXCEPT ![e.i] = @ ++ (e.v ** b[e.j])], [i \in 1 .. N |-> 0], es)
Post(es, b) ==
    FoldLeft(LAMBDA ret, e : [ret EXCEPT ![e.j] = @ ++ (e.v ** b[e.i])], [i \in 1 .. N |-> 0], es)

\* Reduce: unknown pos has the value val.  The second Sort finds the list Sorted.
ReducedEntry(e, pos) ==
    IF e.i = pos /\ e.j = pos THEN [e EXCEPT !.v = 1]
    ELSE IF e.i = pos \/ e.j = pos THEN [e EXCEPT !.v = 0] ELSE e
Reduced(es, pos) == [k \in DOMAIN es |-> ReducedEntry(es[k], pos)]
\* b[pos] is assigned at the diagonal entry, after and before other entries touch b.
ReducedRight(es, pos, val, b) ==
    FoldLeft(LAMBDA r, e :
               IF e.i = pos /\ e.j = pos THEN [r EXCEPT ![pos] = val]
               ELSE IF e.i # pos /\ e.j = pos THEN [r EXCEPT ![e.i] = @ -- (e.v ** val)] ELSE r,
             b, es)

----------------------------------------------------------------------------
(* YSMP *)

MadeSolver(type) == [type |-> type, read |-> "not yet"]
\* Analyze: of a symmetric matrix it first means to add the lower half, but SetEntry
\* returns at once for i > j.  A row without entries gets no place in ia: rows move up.
RowEntries(es, i) == SelectSeq(es, LAMBDA e : e.i = i)
Analyzed(es) ==
    LET rows == SelectSeq([i \in 1 .. NumberOfRows(es) |-> RowEntries(es, i)],
                          LAMBDA row : row # <<>>)
    IN  [neq |-> NumberOfRows(es), rows |-> rows]
\* What sdrv_ (external) is given: row r of the compressed matrix.
Compressed(s) ==
    [r \in 1 .. Len(s.rows) |-> [j \in 1 .. N |->
        FoldLeft(LAMBDA t, e : IF e.j = j THEN t ++ e.v ELSE t, 0, s.rows[r])]]
Solutions(A, n, b) == {y \in [1 .. n -> Number] : \A i \in 1 .. n :
                         Total([j \in 1 .. n |-> A[i][j] ** y[j]], n) = b[i]}
YsmpSolve(s, b) == CHOOSE y \in Solutions(Compressed(s), s.neq, b) : TRUE

----------------------------------------------------------------------------
(* The calls *)

SparseInit ==
    /\ entries = <<>> /\ status = "EmptyList"
    /\ sym \in BOOLEAN
    /\ solver = MadeSolver("SparseDirect")

\* Nothing tells the solver of a change.
Change == solver' = [solver EXCEPT !.read = IF @ = "current" THEN "old" ELSE @]
\* operator() and operator+=.
Enter(i, j, v) ==
    /\ Len(entries) < MaxEntries
    /\ IF sym /\ i > j THEN UNCHANGED <<entries, status, solver>>
       ELSE entries' = Append(entries, Entry(i, j, v)) /\ status' = "Normal" /\ Change
    /\ UNCHANGED sym
Sort ==
    /\ entries' = Sorted /\ status' = "Sorted"
    /\ UNCHANGED <<sym, solver>>
Reduce(pos) ==
    /\ entries' = Reduced(Sorted, pos) /\ status' = "Sorted" /\ Change
    /\ UNCHANGED sym
Zero ==
    /\ entries' = <<>> /\ status' = "EmptyList" /\ Change
    /\ UNCHANGED sym
SetSolver(type) ==
    /\ solver' = MadeSolver(type)
    /\ UNCHANGED <<entries, status, sym>>
\* The solver reads the list the first time it solves; Banded sorts it every time.
Solve ==
    /\ entries # <<>>
    /\ solver' = [solver EXCEPT !.read = IF @ = "not yet" THEN "current" ELSE @]
    /\ IF solver.type = "Banded" \/ solver.read = "not yet"
       THEN entries' = Sorted /\ status' = "Sorted" ELSE UNCHANGED <<entries, status>>
    /\ UNCHANGED sym

SparseNext ==
    \/ \E i, j \in 1 .. N, v \in Values : Enter(i, j, v)
    \/ Sort \/ Zero \/ Solve
    \/ \E pos \in 1 .. N : Reduce(pos)
    \/ \E type \in {"SparseDirect", "Banded"} : SetSolver(type)

----------------------------------------------------------------------------
(* What the list means *)

Sides == [1 .. N -> Number]
EveryRow(es) == {es[k].i : k \in DOMAIN es} = 1 .. N
Diagonal(es, pos) == \E k \in DOMAIN es : es[k].i = pos /\ es[k].j = pos

SortKeepsTheMatrix ==
    LET es == Grouped(entries)
    IN  /\ Stored(es) = Stored(entries)
        /\ \A k \in 1 .. Len(es) - 1 : EntryLess(es[k], es[k + 1]) /\ es[k].v # 0
        /\ status = "Sorted" => \A k \in 1 .. Len(entries) - 1 : EntryLess(entries[k], entries[k + 1])
        /\ \A b \in Sides :
              /\ Pre(entries, b) = Times(Stored(entries), b, N)
              /\ Post(entries, b) = Times(Flip(Stored(entries), N), b, N)

ReduceKeepsTheSolutions ==
    ~sym => \A pos \in 1 .. N : Diagonal(Sorted, pos) => \A y, b \in Sides :
        LET whole == Times(Stored(entries), y, N)
            reduced == Times(Stored(Reduced(Sorted, pos)), y, N)
            right == ReducedRight(Sorted, pos, y[pos], b)
        IN  \A i \in 1 .. N : reduced[i] -- right[i] = IF i = pos THEN 0 ELSE whole[i] -- b[i]

\* No pivot of the elimination in order is zero (N = 2).
NoZeroPivot(A) == A[1][1] # 0 /\ (A[1][1] ** A[2][2]) # (A[1][2] ** A[2][1])

\* A solver that reads the list now, or read it after its last change, answers the system
\* the list means, when both halves are stored and every row has an entry (YSMP).
SolvesWhatItReads ==
    LET A == Full(entries)
        Solvable == EveryRow(Sorted) /\ NoZeroPivot(A)
    IN  solver.type = "SparseDirect" /\ solver.read # "old" /\ ~sym /\ Solvable =>
            \A b \in Sides : Times(A, YsmpSolve(Analyzed(Sorted), b), N) = b

\* The list means its sums before and after it is sorted, in whatever order and however
\* often a place was entered, and a boundary value taken out of it leaves the other rows'
\* solutions as they were (SparseMatrix::Sort, Pre, Post and Reduce); and a solver that
\* has read the list since its last change solves that system.
ListMeansItsSums == SortKeepsTheMatrix /\ ReduceKeepsTheSolutions /\ SolvesWhatItReads

=============================================================================
