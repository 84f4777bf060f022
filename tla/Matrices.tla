------------------------------ MODULE Matrices ------------------------------
(***************************************************************************)
(* Vector and the matrix classes of Matrix/Lib: dense rows, sparse rows    *)
(* (BIMatrix), tridiagonal, identity and the symmetric product of a matrix *)
(* with its transpose.  A class has its own storage, may hold fewer rows   *)
(* or columns than its neighbours and grows where it is written; what is   *)
(* beyond the storage counts as zero.                                      *)
(***************************************************************************)
EXTENDS Field, TLC

CONSTANT Size   \* bound: rows, columns and the length of a vector

VARIABLES M,   \* a matrix: a record of its class and storage
          x    \* a Vector: its v[0 .. size - 1]
matrixVars == <<M, x>>

Larger(a, b) == IF a > b THEN a ELSE b
LargestOf(S) == IF S = {} THEN 0 ELSE CHOOSE a \in S : \A b \in S : a >= b

----------------------------------------------------------------------------
(* Vector *)

\* operator[] const: zero beyond the end.  operator[] of a variable grows it instead.
Ref(v, i) == IF i > Len(v) THEN 0 ELSE v[i]
SetSize(v, s) == [i \in 1 .. s |-> Ref(v, i)]
SetTo(v, i, val) == [SetSize(v, Larger(i, Len(v))) EXCEPT ![i] = val]
AddTo(v, i, val) == SetTo(v, i, Ref(v, i) ++ val)
VectorDot(v, b) ==
    LET max == Larger(Len(v), Len(b))
    IN  Total([i \in 1 .. max |-> Ref(b, i) ** Ref(v, i)], max)
VectorPlus(v, b) == [i \in 1 .. Larger(Len(v), Len(b)) |-> Ref(v, i) ++ Ref(b, i)]
VectorMinus(v, b) == [i \in 1 .. Larger(Len(v), Len(b)) |-> Ref(v, i) -- Ref(b, i)]
AddedTo(v, b) ==
    LET grown == IF Len(v) < Len(b) THEN SetSize(v, Len(b)) ELSE v
    IN  [i \in DOMAIN grown |-> grown[i] ++ Ref(b, i)]
TakenFrom(v, b) ==
    LET grown == IF Len(v) < Len(b) THEN SetSize(v, Len(b)) ELSE v
    IN  [i \in DOMAIN grown |-> grown[i] -- Ref(b, i)]
Negative(v) == [i \in DOMAIN v |-> 0 -- v[i]]

----------------------------------------------------------------------------
(* The storage of each class *)

Dense(rows) == [class |-> "dense", rows |-> rows]
\* Sparse rows: the columns of a row that were ever written, and their values.
SparseRows(mat) == [class |-> "sparse", mat |-> mat]
Tridiagonal(diag, sup, sub, isSym) ==
    [class |-> "tridiagonal", diag |-> diag, sup |-> sup, sub |-> sub, isSym |-> isSym]
Identity(size) == [class |-> "identity", size |-> size]
SymEquiv(A) == [class |-> "symequiv", A |-> A]

NoRow == [c \in {} |-> 0]   \* an SVector nothing was written to
Get(row, c) == IF c \in DOMAIN row THEN row[c] ELSE 0
Put(row, c, val) == [k \in DOMAIN row \cup {c} |-> IF k = c THEN val ELSE row[k]]
\* Array and SimpleSet make the elements up to an index that is written.
Reaching(rows, i, new) ==
    [k \in 1 .. Larger(i, Len(rows)) |-> IF k <= Len(rows) THEN rows[k] ELSE new]

NumberOfRows(A) ==
    CASE A.class = "dense" -> Len(A.rows)
      [] A.class = "sparse" -> Len(A.mat)
      [] A.class = "tridiagonal" -> Len(A.diag)
      [] A.class = "identity" -> A.size
      [] A.class = "symequiv" ->
           IF A.A.class = "dense" THEN Len(A.A.rows) ELSE Len(A.A.mat)
DenseCols(A) == LargestOf({Len(A.rows[i]) : i \in DOMAIN A.rows})

\* What operator[] and the values behind it say of a matrix, in Size rows and columns.
SumIf(S, val) == IF S THEN val ELSE 0
Entries(A) ==
    [i \in 1 .. Size |-> [j \in 1 .. Size |->
      CASE A.class = "dense" -> IF i <= Len(A.rows) THEN Ref(A.rows[i], j) ELSE 0
        [] A.class = "sparse" -> IF i <= Len(A.mat) THEN Get(A.mat[i], j) ELSE 0
        [] A.class = "identity" -> IF i = j THEN 1 ELSE 0
        [] A.class = "tridiagonal" ->
             SumIf(j = i, Ref(A.diag, i)) ++ SumIf(j = i + 1, Ref(A.sup, i))
             ++ SumIf(i = j + 1, Ref(IF A.isSym THEN A.sup ELSE A.sub, j))]]

----------------------------------------------------------------------------
(* Dense *)

DensePre(A, v) == [i \in 1 .. Len(A.rows) |-> VectorDot(A.rows[i], v)]
\* ret[j] += v[i] * rows[i][j]: ret ends where the longest row does.
DensePost(A, v) ==
    [j \in 1 .. DenseCols(A) |->
        Total([i \in DOMAIN A.rows |-> Ref(v, i) ** Ref(A.rows[i], j)], Len(A.rows))]
\* The first row is written before the second is computed from it.
Bug_InPlace(A, c, s, r1, r2) ==
    LET row1 == A.rows[r1]
        row2 == A.rows[r2]
        nc == DenseCols(A)
        one == [i \in 1 .. nc |-> (Ref(row1, i) ** c) -- (Ref(row2, i) ** s)]
        two == [i \in 1 .. nc |-> (one[i] ** s) ++ (Ref(row2, i) ** c)]
    IN  Dense([A.rows EXCEPT ![r1] = one, ![r2] = two])
PreRot(A, c, s, r1, r2) ==
    LET row1 == A.rows[r1]
        row2 == A.rows[r2]
        nc == DenseCols(A)
        one == [i \in 1 .. nc |-> (Ref(row1, i) ** c) -- (Ref(row2, i) ** s)]
        two == [i \in 1 .. nc |-> (Ref(row1, i) ** s) ++ (Ref(row2, i) ** c)]
    IN  Dense([A.rows EXCEPT ![r1] = one, ![r2] = two])
PostRot(A, c, s, c1, c2) ==
    LET Turned(row) ==
          SetTo(SetTo(row, c1, (Ref(row, c1) ** c) ++ (Ref(row, c2) ** s)),
                c2, (Ref(row, c2) ** c) -- (Ref(row, c1) ** s))
    IN  Dense([i \in DOMAIN A.rows |-> Turned(A.rows[i])])
\* The loop swaps rows[i][j] and rows[j][i], which grows the short rows, then cuts the
\* rows (a wide matrix) or their number (a tall one).
Transpose(A) ==
    LET nr == Len(A.rows)
        nc == DenseCols(A)
        n == Larger(nr, nc)
        whole == [i \in 1 .. n |-> SetSize(IF i <= nr THEN A.rows[i] ELSE <<>>, n)]
        flipped == [i \in 1 .. n |-> [j \in 1 .. n |-> whole[j][i]]]
    IN  IF nc > nr
        THEN Dense([i \in 1 .. n |-> SetSize(flipped[i], nr)])
        ELSE Dense([i \in 1 .. nc |-> flipped[i]])

(* Sparse rows *)

SparsePre(A, v) ==
    [i \in 1 .. LargestOf({k \in DOMAIN A.mat : DOMAIN A.mat[k] # {}}) |->
        Total([j \in 1 .. Size |-> Ref(v, j) ** Get(A.mat[i], j)], Size)]
SparsePost(A, v) ==
    [j \in 1 .. LargestOf(UNION {DOMAIN A.mat[i] : i \in DOMAIN A.mat}) |->
        Total([i \in DOMAIN A.mat |-> Ref(v, i) ** Get(A.mat[i], j)], Len(A.mat))]
ScalarMult(A, s) == SparseRows([i \in DOMAIN A.mat |-> Scaled(s, A.mat[i])])
\* Row p becomes the unit row and its column is moved to the other side.
Eliminate(A, p) ==
    LET mat == [Reaching(A.mat, p, NoRow) EXCEPT ![p] = (p :> 1)]
    IN  SparseRows([i \in DOMAIN mat |->
          IF i # p /\ p \in DOMAIN mat[i] THEN [mat[i] EXCEPT ![p] = 0] ELSE mat[i]])
EliminateRet(A, p, obj) ==
    [i \in 1 .. LargestOf({k \in DOMAIN A.mat \ {p} : p \in DOMAIN A.mat[k]}) |->
        IF i # p THEN 0 -- (obj ** Get(A.mat[i], p)) ELSE 0]
SparseAdd(A, B, Op(_, _)) ==
    SparseRows([i \in 1 .. Larger(Len(A.mat), LargestOf({k \in DOMAIN B.mat : DOMAIN B.mat[k] # {}})) |->
        LET a == IF i <= Len(A.mat) THEN A.mat[i] ELSE NoRow
            b == IF i <= Len(B.mat) THEN B.mat[i] ELSE NoRow
        IN  [c \in DOMAIN a \cup DOMAIN b |-> IF c \in DOMAIN b THEN Op(Get(a, c), b[c]) ELSE a[c]]])
\* SVector += Vector writes every column of the vector, Vector += SVector the columns held.
RowPlus(row, v) == [c \in DOMAIN row \cup DOMAIN v |-> Get(row, c) ++ Ref(v, c)]
PlusRow(v, row) ==
    LET grown == SetSize(v, Larger(Len(v), LargestOf(DOMAIN row)))
    IN  [i \in DOMAIN grown |-> grown[i] ++ Get(row, i)]

(* Tridiagonal *)

Sub(A) == IF A.isSym THEN A.sup ELSE A.sub
TridiagonalPost(A, b) ==
    LET s == Len(A.diag)
    IN  IF Len(b) > s THEN <<>>
        ELSE [i \in 1 .. s |-> (A.diag[i] ** Ref(b, i))
                ++ SumIf(i < s, Ref(A.sup, i) ** Ref(b, i + 1))
                ++ SumIf(i > 1, Ref(Sub(A), i - 1) ** Ref(b, i - 1))]
\* The neighbours' coefficients multiply b[i] itself.
TridiagonalPre(A, b) ==
    LET s == Len(A.diag)
    IN  IF Len(b) > s THEN <<>>
        ELSE [i \in 1 .. s |-> (A.diag[i] ** Ref(b, i))
                ++ SumIf(i < s, Ref(A.sup, i) ** Ref(b, i))
                ++ SumIf(i > 1, Ref(Sub(A), i - 1) ** Ref(b, i))]

(* Identity *)

\* A vector longer than the identity ends the program; with size -1 none is too long.
IdentityExits(A, v) == A.size # -1 /\ Len(v) > A.size
IdentityMult(A, v) == v

PreOf(A, v) ==
    CASE A.class = "dense" -> DensePre(A, v)
      [] A.class = "sparse" -> SparsePre(A, v)
      [] A.class = "tridiagonal" -> TridiagonalPre(A, v)
      [] A.class = "identity" -> IdentityMult(A, v)
PostOf(A, v) ==
    CASE A.class = "dense" -> DensePost(A, v)
      [] A.class = "sparse" -> SparsePost(A, v)
      [] A.class = "tridiagonal" -> TridiagonalPost(A, v)
      [] A.class = "identity" -> IdentityMult(A, v)
\* The virtual calls: a SymEquiv forwards to its matrix, twice.
Pre(A, v) == IF A.class = "symequiv" THEN PostOf(A.A, PreOf(A.A, v)) ELSE PreOf(A, v)
Post(A, v) == IF A.class = "symequiv" THEN PreOf(A.A, PostOf(A.A, v)) ELSE PostOf(A, v)

----------------------------------------------------------------------------
(* A matrix and a vector are filled and used. *)

MatrixInit ==
    /\ M \in {Dense(<<>>), SparseRows(<<>>), Tridiagonal(<<>>, <<>>, <<>>, TRUE),
              Tridiagonal(<<>>, <<>>, <<>>, FALSE)} \cup {Identity(n) : n \in {-1, 1}}
    /\ x = <<>>

\* A[i][j] = val (dense), A[i][j] += val (sparse), Diag, Sup and Sub (tridiagonal).
Written(A, i, j, val) ==
    CASE A.class = "dense" ->
           Dense([Reaching(A.rows, i, <<>>) EXCEPT ![i] = SetTo(@, j, val)])
      [] A.class = "sparse" ->
           SparseRows([Reaching(A.mat, i, NoRow) EXCEPT ![i] = Put(@, j, Get(@, j) ++ val)])
      [] A.class = "tridiagonal" /\ i = j -> [A EXCEPT !.diag = SetTo(@, i, val)]
      [] A.class = "tridiagonal" /\ (j = i + 1 \/ (A.isSym /\ i = j + 1)) ->
           [A EXCEPT !.sup = SetTo(@, Larger(i, j) - 1, val)]
      [] A.class = "tridiagonal" /\ ~A.isSym /\ i = j + 1 -> [A EXCEPT !.sub = SetTo(@, j, val)]
      [] OTHER -> A
\* Tridiagonal::Zero leaves its vectors deleted: it is not called.
Zeroed(A) ==
    CASE A.class = "dense" -> Dense(<<>>)
      [] A.class = "sparse" -> SparseRows(<<>>)
      [] OTHER -> A

\* A copied row has to hold something: the copy of an empty Vector fails Free's assertion.
CanTurn(A) ==
    A.class = "dense" /\ Len(A.rows) = Size /\ \A i \in DOMAIN A.rows : A.rows[i] # <<>>

MatrixStep ==
    /\ \/ \E i, j \in 1 .. Size, val \in Number : M' = Written(M, i, j, val)
       \/ M' = Zeroed(M)
       \/ /\ CanTurn(M)
          /\ \E c, s \in Number : M' = PreRot(M, c, s, 1, 2) \/ M' = PostRot(M, c, s, 1, 2)
       \/ M.class = "dense" /\ M' = Transpose(M)
       \/ /\ M.class = "sparse"
          /\ \/ \E s \in Number : M' = ScalarMult(M, s)
             \/ \E p \in 1 .. Size : M' = Eliminate(M, p)
             \/ M' = SparseAdd(M, M, ++) \/ M' = SparseAdd(M, M, --)
    /\ UNCHANGED x
VectorStep ==
    /\ \/ \E i \in 1 .. Size, val \in Number : x' = SetTo(x, i, val) \/ x' = AddTo(x, i, val)
       \/ \E s \in 1 .. Size : x' = SetSize(x, s)
       \/ x' = AddedTo(x, x) \/ x' = TakenFrom(x, x) \/ x' = Negative(x)
       \/ M.class \in {"dense", "sparse"} /\ x' \in {Pre(M, x), Post(M, x)}
    /\ Len(x') <= Size
    /\ UNCHANGED M
MatrixNext == MatrixStep \/ VectorStep

----------------------------------------------------------------------------
(* What the classes mean *)

Padded(v) == SetSize(v, Size)
Rotation(c, s) == <<<<c, 0 -- s>>, <<s, c>>>>
Vectors == UNION {[1 .. n -> Number] : n \in 0 .. Size}

\* A * b and b * A of every class are the products of what the matrix shows; of a
\* tridiagonal one only b * A, and only when it is symmetric.
ProductsAgree ==
    LET A == Entries(M)
        At == Flip(A, Size)
        y == Padded(x)
        Whole == M.class # "identity" \/ ~IdentityExits(M, x)
    IN  /\ M.class \in {"dense", "sparse", "identity"} /\ Whole =>
             Padded(Pre(M, x)) = Times(A, y, Size) /\ Padded(Post(M, x)) = Times(At, y, Size)
        /\ M.class \in {"dense", "sparse"} =>
             /\ Padded(Pre(SymEquiv(M), x)) = Times(Product(At, A, Size), y, Size)
             /\ Padded(Post(SymEquiv(M), x)) = Times(Product(A, At, Size), y, Size)
        /\ M.class = "tridiagonal" /\ M.isSym /\ Len(x) <= Len(M.diag) =>
             \A i \in DOMAIN M.diag :
                TridiagonalPost(M, x)[i] =
                  Total([j \in 1 .. Size |-> SumIf(j <= Len(M.diag), A[i][j]) ** y[j]], Size)

ChangesAgree ==
    LET A == Entries(M)
    IN  /\ M.class = "dense" => Entries(Transpose(M)) = Flip(A, Size)
        /\ CanTurn(M) => \A c, s \in Number :
             /\ Entries(PreRot(M, c, s, 1, 2)) = Product(Rotation(c, s), A, Size)
             /\ Entries(PostRot(M, c, s, 1, 2)) = Product(A, Rotation(c, s), Size)
        /\ M.class = "sparse" =>
             /\ \A s \in Number :
                   Entries(ScalarMult(M, s)) = [i \in 1 .. Size |-> Scaled(s, A[i])]
             /\ Entries(SparseAdd(M, M, --)) = [i \in 1 .. Size |-> [j \in 1 .. Size |-> 0]]
             /\ \A i \in DOMAIN M.mat :
                   /\ Padded(PlusRow(x, M.mat[i])) = Plus(Padded(x), A[i])
                   /\ \A j \in 1 .. Size : Get(RowPlus(M.mat[i], x), j) = A[i][j] ++ Ref(x, j)

\* A prescribed unknown leaves the system: for every y that has the value, the reduced
\* rows and the returned right-hand side say what the whole rows said.
EliminationAgrees ==
    M.class = "sparse" => \A p \in 1 .. Size, y \in [1 .. Size -> Number] :
        LET whole == Times(Entries(M), y, Size)
            reduced == Times(Entries(Eliminate(M, p)), y, Size)
            off == Padded(EliminateRet(M, p, y[p]))
        IN  \A i \in 1 .. Size : reduced[i] = IF i = p THEN y[p] ELSE whole[i] ++ off[i]

VectorsAgree ==
    \A b \in Vectors :
        /\ Padded(VectorPlus(x, b)) = Plus(Padded(x), Padded(b))
        /\ Padded(VectorMinus(x, b)) = Minus(Padded(x), Padded(b))
        /\ AddedTo(x, b) = VectorPlus(x, b) /\ TakenFrom(x, b) = VectorMinus(x, b)
        /\ VectorDot(x, b) = Dot(Padded(x), Padded(b), Size)

\* Storage never shows: whatever rows, columns and vector entries were written, and
\* however short the storage is, products, rotations, transposition, elimination and
\* vector arithmetic give what they give on full matrices and vectors (Matrix/Lib).  Of a
\* tridiagonal matrix this is Post alone, and of a symmetric one: Pre is transposed.
StorageNeverShows == ProductsAgree /\ ChangesAgree /\ EliminationAgrees /\ VectorsAgree

=============================================================================
