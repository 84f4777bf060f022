------------------------------- MODULE Banded -------------------------------
(***************************************************************************)
(* Banded: a banded matrix in compressed rows, its elimination in place    *)
(* and the two substitutions, for whole and for symmetric storage.         *)
(***************************************************************************)
EXTENDS Field, SequencesExt

CONSTANTS N,        \* rows
          Bands     \* the half bandwidths tried, each with whole or symmetric storage

VARIABLES A,      \* the matrix assigned
          band,   \* the object: m and what Init set
          row     \* rows eliminated so far
bandedVars == <<A, band, row>>

MaxOf(S) == CHOOSE a \in S : \A b \in S : a >= b

\* The compressed band: row i (from 0) holds the columns i - diag .. i + HBW; rows lie one
\* behind the other, so that the column behind a row is the first of the next.
Cols(s) == s.diag + s.hbw + 1
At(s, i, j) == s.m[i * Cols(s) + j]
SetAt(s, i, j, v) == [s EXCEPT !.m[i * Cols(s) + j] = v]
LHBW(s, i) == IF i >= s.hbw THEN s.hbw ELSE i
RHBW(s, i) == IF i + s.hbw < s.nrows THEN s.hbw ELSE s.nrows - i - 1

InitBand(nr, hbw, isSym) ==
    LET diag == IF isSym THEN 0 ELSE hbw + 1
    IN  [sym |-> isSym, nrows |-> nr, hbw |-> hbw,
         diag |-> diag, m |-> [k \in 0 .. nr * (diag + hbw + 1) - 1 |-> 0]]
Assign(s, i, j, v) ==
    LET offd == j - i
    IN  IF offd >= -LHBW(s, i - 1) /\ offd <= RHBW(s, i - 1)
        THEN SetAt(s, i - 1, s.diag + offd, v) ELSE s
\* operator(): the element, or a dummy zero outside of the band.
Element(s, i, j) ==
    LET offd == j - i
    IN  IF offd >= -LHBW(s, i - 1) /\ offd <= RHBW(s, i - 1) THEN At(s, i - 1, s.diag + offd) ELSE 0

\* Reduce, row i: the factors t of the next rows, the rows less t times row i, t kept.
Factor(s, i, j) ==
    IF s.sym THEN At(s, i, j) // At(s, i, s.diag) ELSE At(s, i + j, s.diag - j) // At(s, i, s.diag)
KeepFactor(s, i, j, t) ==
    IF s.sym THEN SetAt(s, i, s.diag + j, t) ELSE SetAt(s, i + j, s.diag - j, t)
Steps(s, i) ==
    LET k1 == RHBW(s, i)
        j1 == RHBW(s, i + 1)
    IN  FlattenSeq([k \in 1 .. k1 |->
            LET from == IF s.sym THEN k - 1 ELSE 0
            IN  [n \in 1 .. MaxOf({0, j1 - from + 1}) |-> <<k, from + n - 1>>]])
ReduceRow(s, i) ==
    LET t == [j \in 1 .. RHBW(s, i) |-> Factor(s, i, j)]
        Less(s0, step) ==
            LET r == i + step[1]
                col == s.diag - (step[1] - 1) + step[2]
            IN  SetAt(s0, r, col,
                      At(s0, r, col) -- (t[step[1]] ** At(s0, i, s.diag + 1 + step[2])))
        Keep(s0, j) == KeepFactor(s0, i, j, t[j])
    IN  FoldLeft(Keep, FoldLeft(Less, s, Steps(s, i)), [j \in 1 .. RHBW(s, i) |-> j])
\* Forward and back substitution, unknown by unknown.
ForwardSubstitute(s, b) ==
    LET L(i, j) == IF s.sym THEN At(s, i + j, -j) ELSE At(s, i, s.diag + j)
        a[i \in 0 .. s.nrows - 1] ==
            b[i + 1] -- Total([n \in 1 .. LHBW(s, i) |-> L(i, -n) ** a[i - n]], LHBW(s, i))
    IN  a
\* The symmetric case multiplies by the pivot what it divides by it.
Bug_NoPivot(s, b) ==
    LET a[i \in 0 .. s.nrows - 1] ==
            (b[i] -- Total([n \in 1 .. RHBW(s, i) |-> At(s, i, s.diag + n) ** a[i + n]], RHBW(s, i)))
            // At(s, i, s.diag)
    IN  [i \in 1 .. s.nrows |-> a[i - 1]]
BackSubstitute(s, b) ==
    LET U(i, n) == At(s, i, s.diag + n) ** (IF s.sym THEN At(s, i, s.diag) ELSE 1)
        a[i \in 0 .. s.nrows - 1] ==
            (b[i] -- Total([n \in 1 .. RHBW(s, i) |-> U(i, n) ** a[i + n]], RHBW(s, i)))
            // At(s, i, s.diag)
    IN  [i \in 1 .. s.nrows |-> a[i - 1]]
BandedSolve(s, b) == BackSubstitute(s, ForwardSubstitute(s, b))

----------------------------------------------------------------------------
(* Solve: the matrix is assigned, eliminated row by row, and solved. *)

InBand(hbw) == {<<i, j>> \in (1 .. N) \X (1 .. N) : i - j <= hbw /\ j - i <= hbw}
Matrices(hbw, isSym) ==
    LET places == {p \in InBand(hbw) : ~isSym \/ p[1] <= p[2]}
        value(f, i, j) ==
            IF <<i, j>> \in places THEN f[<<i, j>>]
            ELSE IF <<j, i>> \in places /\ isSym THEN f[<<j, i>>] ELSE 0
    IN  {[i \in 1 .. N |-> [j \in 1 .. N |-> value(f, i, j)]] : f \in [places -> Number]}
Assigned(B, hbw, isSym) ==
    LET places == [k \in 1 .. N * N |-> <<((k - 1) \div N) + 1, ((k - 1) % N) + 1>>]
        Put(s, p) == IF isSym /\ p[1] > p[2] THEN s ELSE Assign(s, p[1], p[2], B[p[1]][p[2]])
    IN  FoldLeft(Put, InitBand(N, hbw, isSym), places)

BandedInit ==
    \E b \in Bands :
        /\ A \in Matrices(b[1], b[2])
        /\ band = Assigned(A, b[1], b[2])
        /\ row = 0
\* Nothing is said of a zero pivot, by which the code divides.
Eliminate ==
    /\ row < N
    /\ At(band, row, band.diag) # 0
    /\ band' = ReduceRow(band, row)
    /\ row' = row + 1
    /\ UNCHANGED A
BandedNext == Eliminate

----------------------------------------------------------------------------
\* Reduce reads one element behind a row (rhbw1 is the next row's); that is the first of
\* the next row: the unused column of whole storage, the next pivot of a symmetric band
\* which does not reach every column.
ReadsBehind == band.sym /\ band.hbw > 0 /\ band.hbw < N - 1

Units == {[j \in 1 .. N |-> IF j = p THEN 1 ELSE 0] : p \in 1 .. N}

\* The elements assigned are the elements read back; and once every row is eliminated the
\* substitutions give the solution of the matrix assigned, whole or symmetric: also by
\* the line of BackSubstitute that Banded.c:272 doubts ("This is an Error I think").
BandSolves ==
    /\ row = 0 => \A i, j \in 1 .. N : ~band.sym \/ i <= j => Element(band, i, j) = A[i][j]
    /\ row = N /\ ~ReadsBehind => \A b \in Units : Times(A, BandedSolve(band, b), N) = b

=============================================================================
