---------------------------- MODULE LocalAlgebra ----------------------------
(***************************************************************************)
(* LocVec and LocMat of FE/Local.c: an element's vector and matrix as lists *)
(* of contributions (equation, value), (equation, equation, value), where   *)
(* one equation may occur many times and the value meant is the sum.  A     *)
(* value is a symbolic expression (class Scalar, external): here its value  *)
(* and its derivative at one point.                                         *)
(***************************************************************************)
EXTENDS Field, SequencesExt

CONSTANTS Eqs,      \* the equations are 1 .. Eqs
          Values,   \* the expressions added
          MaxSize   \* bound: the entries of the two lists together

VARIABLES v,   \* a LocVec: what its set holds, in its order
          m    \* a LocMat
localVars == <<v, m>>

(* Scalar *)
Expr(a, d) == [at |-> a, by |-> d]
Const0 == Expr(0, 0)
Add2(x, y) == Expr(x.at ++ y.at, x.by ++ y.by)
Mul2(x, y) == Expr(x.at ** y.at, (x.at ** y.by) ++ (x.by ** y.at))
D(x) == Expr(x.by, 0)

Entry(e, x) == [eq |-> e, val |-> x]
Cell(e1, e2, x) == [eq1 |-> e1, eq2 |-> e2, val |-> x]

----------------------------------------------------------------------------
(* LocVec *)

VecLess(a, b) == a.eq < b.eq
\* operator[]: the sum of the entries of the equation.
At(lv, eq) ==
    FoldLeft(LAMBDA s, d : IF d.eq = eq THEN Add2(s, d.val) ELSE s, Const0, lv)
VecAdd(lv, eq, x) == Append(lv, Entry(eq, x))
VecRemap(lv, map) == [i \in DOMAIN lv |-> [lv[i] EXCEPT !.eq = map[@]]]
VecDeriv(lv) ==
    LET ds == [i \in DOMAIN lv |-> Entry(lv[i].eq, D(lv[i].val))]
    IN  SelectSeq(ds, LAMBDA d : d.val # Const0)
VecSort(lv) == SortSeq(lv, VecLess)

\* The loop of Squeeze: the next entry is added to the last one kept or kept itself.
Squeezed(lv, Same(_, _)) ==
    FoldLeft(LAMBDA kept, d :
               IF kept # <<>> /\ Same(Last(kept), d)
               THEN [kept EXCEPT ![Len(kept)].val = Add2(@, d.val)] ELSE Append(kept, d),
             <<>>, lv)
VecSqueeze(lv) == Squeezed(VecSort(lv), LAMBDA a, b : a.eq = b.eq)
VecAppend(lv, w) == lv \o w
VecScale(lv, s) == [i \in DOMAIN lv |-> [lv[i] EXCEPT !.val = Mul2(@, s)]]

----------------------------------------------------------------------------
(* LocMat *)

MatLess(a, b) == a.eq1 < b.eq1 \/ (a.eq1 = b.eq1 /\ a.eq2 < b.eq2)
\* The copy constructor and operator= walk the list they fill, which is empty.
MatCopy(lm) == <<>>
MatAdd(lm, e1, e2, x) == Append(lm, Cell(e1, e2, x))
AddRow(lm, eq, w) == lm \o [i \in DOMAIN w |-> Cell(eq, w[i].eq, w[i].val)]
AddCol(lm, eq, w) == lm \o [i \in DOMAIN w |-> Cell(w[i].eq, eq, w[i].val)]
MatDeriv(lm) ==
    LET ds == [i \in DOMAIN lm |-> [lm[i] EXCEPT !.val = D(@)]]
    IN  SelectSeq(ds, LAMBDA d : d.val # Const0)
MatRemap(lm, map) == [i \in DOMAIN lm |-> [lm[i] EXCEPT !.eq1 = map[@], !.eq2 = map[@]]]
MatSort(lm) == SortSeq(lm, MatLess)
MatSqueeze(lm) == Squeezed(MatSort(lm), LAMBDA a, b : a.eq1 = b.eq1 /\ a.eq2 = b.eq2)
Transpose(lm) == [i \in DOMAIN lm |-> Cell(lm[i].eq2, lm[i].eq1, lm[i].val)]
MatAppend(lm, lm2) == lm \o lm2
MatScale(lm, s) == [i \in DOMAIN lm |-> [lm[i] EXCEPT !.val = Mul2(@, s)]]

\* The double loops over two lists: what the matching pairs give, in their order.
Pairs(a, b, Match(_, _), Give(_, _)) ==
    FlattenSeq([i \in 1 .. Len(a) |->
        LET with == SelectSeq(b, LAMBDA y : Match(a[i], y))
        IN  [j \in 1 .. Len(with) |-> Give(a[i], with[j])]])
MatTimesScVec(lm, x) ==
    [i \in DOMAIN lm |-> Entry(lm[i].eq1, Mul2(x[lm[i].eq2], lm[i].val))]
ScVecTimesMat(x, lm) ==
    [i \in DOMAIN lm |-> Entry(lm[i].eq2, Mul2(x[lm[i].eq1], lm[i].val))]
\* The indices of the test swapped, as in the other product.
Bug_Rows(lm, w) ==
    Pairs(lm, w, LAMBDA a, b : b.eq = a.eq1, LAMBDA a, b : Entry(a.eq1, Mul2(b.val, a.val)))
MatTimesVec(lm, w) ==
    Pairs(lm, w, LAMBDA a, b : b.eq = a.eq2, LAMBDA a, b : Entry(a.eq1, Mul2(b.val, a.val)))
VecTimesMat(w, lm) ==
    Pairs(lm, w, LAMBDA a, b : b.eq = a.eq1, LAMBDA a, b : Entry(a.eq2, Mul2(b.val, a.val)))
MatTimesMat(a, b) ==
    Pairs(a, b, LAMBDA x, y : x.eq2 = y.eq1,
          LAMBDA x, y : Cell(x.eq1, y.eq2, Mul2(x.val, y.val)))
VecDot(a, b) ==
    FoldLeft(Add2, Const0,
             Pairs(a, b, LAMBDA x, y : x.eq = y.eq, LAMBDA x, y : Mul2(x.val, y.val)))
LocOuterProd(a, b) ==
    Pairs(a, b, LAMBDA x, y : TRUE, LAMBDA x, y : Cell(x.eq, y.eq, Mul2(x.val, y.val)))

\* operator+=, operator-= of a BIMatrix and operator+= of a Vector: the values land in
\* the matrix and vector of the system, as plain numbers.
IntoMatrix(B, lm, Op(_, _)) ==
    FoldLeft(LAMBDA A, d : [A EXCEPT ![d.eq1][d.eq2] = Op(@, d.val.at)], B, lm)
IntoVector(x, lv) == FoldLeft(LAMBDA y, d : [y EXCEPT ![d.eq] = @ ++ d.val.at], x, lv)

(* ScElement: an element that gives symbolic lists; last is the solution, the derivatives *)
(* are by its element number Unknown (the values of Expr depend on no other here).       *)

Unknown == 1
DStiff(lm, last) == AddCol(<<>>, Unknown, MatTimesScVec(MatDeriv(lm), last))
DStiffByDesign(lm) == MatDeriv(lm)
\* The derivative of the force goes to a row: the transposed of what DStiff does.
DForce(lv) == AddRow(<<>>, Unknown, VecDeriv(lv))
DForceByDesign(lv) == VecDeriv(lv)
ScStiff(B, lm) == IntoMatrix(B, lm, ++)
ScForce(x, lv) == IntoVector(x, lv)
TanStiff(B, lm, last) == IntoMatrix(B, DStiff(lm, last), ++)
TanForce(B, lv) == IntoMatrix(B, DForce(lv), ++)

----------------------------------------------------------------------------
(* An element fills the two lists. *)

Fits(lv, lm) == Len(lv) + Len(lm) <= MaxSize
Maps == [1 .. Eqs -> 1 .. Eqs]

LocalInit == v = <<>> /\ m = <<>>

\* The copy constructor of LocVec ends its loop at once (foreach(...);) and adds the
\* entry behind the last one: whatever lies there.
VecCopy == \E eq \in 1 .. Eqs, x \in Values : v' = <<Entry(eq, x)>>
VecStep ==
    /\ \/ \E eq \in 1 .. Eqs, x \in Values : v' = VecAdd(v, eq, x)
       \/ v' = VecSqueeze(v)
       \/ v' = VecDeriv(v)
       \/ \E s \in Values : v' = VecScale(v, s)
       \/ \E map \in Maps : v' = VecRemap(v, map)
       \/ v' = VecAppend(v, MatTimesVec(m, v))
       \/ VecCopy
    /\ UNCHANGED m
MatStep ==
    /\ \/ \E e1, e2 \in 1 .. Eqs, x \in Values : m' = MatAdd(m, e1, e2, x)
       \/ \E eq \in 1 .. Eqs : m' = AddRow(m, eq, v) \/ m' = AddCol(m, eq, v)
       \/ m' = MatSqueeze(m)
       \/ m' = MatDeriv(m)
       \/ \E s \in Values : m' = MatScale(m, s)
       \/ \E map \in Maps : m' = MatRemap(m, map)
       \/ m' = MatAppend(m, Transpose(m))
       \/ m' = MatCopy(m)
    /\ UNCHANGED v
LocalNext == (VecStep \/ MatStep) /\ Fits(v', m')

----------------------------------------------------------------------------
(* What the lists mean *)

\* The dense vector and matrix of the values.
DenseVec(lv) == [i \in 1 .. Eqs |-> At(lv, i).at]
DenseMat(lm) ==
    [i \in 1 .. Eqs |-> [j \in 1 .. Eqs |->
        FoldLeft(LAMBDA s, d : IF d.eq1 = i /\ d.eq2 = j THEN s ++ d.val.at ELSE s, 0, lm)]]
ZeroVec == [i \in 1 .. Eqs |-> 0]
ZeroMat == [i \in 1 .. Eqs |-> ZeroVec]
Strictly(seq, Less(_, _)) == \A i \in 1 .. Len(seq) - 1 : Less(seq[i], seq[i + 1])

SqueezeSound ==
    /\ Strictly(VecSqueeze(v), VecLess) /\ Strictly(MatSqueeze(m), MatLess)
    /\ DenseVec(VecSqueeze(v)) = DenseVec(v)
    /\ DenseVec(VecDeriv(VecSqueeze(v))) = DenseVec(VecDeriv(v))
    /\ DenseMat(MatSqueeze(m)) = DenseMat(m)
    /\ DenseMat(MatDeriv(MatSqueeze(m))) = DenseMat(MatDeriv(m))

ProductsSound ==
    LET A == DenseMat(m)
        x == DenseVec(v)
    IN  /\ DenseVec(MatTimesVec(m, v)) = Times(A, x, Eqs)
        /\ DenseVec(VecTimesMat(v, m)) = Times(Flip(A, Eqs), x, Eqs)
        /\ DenseMat(MatTimesMat(m, m)) = Product(A, A, Eqs)
        /\ DenseMat(Transpose(m)) = Flip(A, Eqs)
        /\ VecDot(v, v).at = Dot(x, x, Eqs)
        /\ \A i, j \in 1 .. Eqs : DenseMat(LocOuterProd(v, v))[i][j] = x[i] ** x[j]
        /\ \A w \in [1 .. Eqs -> Values] :
              LET y == [i \in 1 .. Eqs |-> w[i].at]
              IN  /\ DenseVec(MatTimesScVec(m, w)) = Times(A, y, Eqs)
                  /\ DenseVec(ScVecTimesMat(w, m)) = Times(Flip(A, Eqs), y, Eqs)
                  /\ TanStiff(ScStiff(ZeroMat, m), m, w) =
                       [i \in 1 .. Eqs |-> [A[i] EXCEPT ![Unknown] =
                          @ ++ Times(DenseMat(DStiffByDesign(m)), y, Eqs)[i]]]

\* The derivative of a product, taken entry by entry, is the product rule's.
ProductRule ==
    DenseVec(VecDeriv(MatTimesVec(m, v))) =
      Plus(Times(DenseMat(MatDeriv(m)), DenseVec(v), Eqs),
           Times(DenseMat(m), DenseVec(VecDeriv(v)), Eqs))

AssemblySound ==
    /\ ScForce(ZeroVec, v) = DenseVec(v)
    /\ Flip(TanForce(ZeroMat, v), Eqs) = [j \in 1 .. Eqs |->
         [i \in 1 .. Eqs |-> IF i = Unknown THEN DenseVec(DForceByDesign(v))[j] ELSE 0]]
    /\ IntoMatrix(ZeroMat, m, ++) = DenseMat(m)
    /\ IntoMatrix(DenseMat(m), m, --) = ZeroMat
    /\ \A eq \in 1 .. Eqs :
          /\ DenseMat(AddRow(m, eq, v)) =
               [DenseMat(m) EXCEPT ![eq] = Plus(@, DenseVec(v))]
          /\ Flip(DenseMat(AddCol(m, eq, v)), Eqs) =
               [Flip(DenseMat(m), Eqs) EXCEPT ![eq] = Plus(@, DenseVec(v))]
    /\ \A map \in Maps : IntoVector(ZeroVec, VecRemap(v, map)) =
         [i \in 1 .. Eqs |-> Total([j \in 1 .. Eqs |-> IF map[j] = i THEN DenseVec(v)[j] ELSE 0], Eqs)]

\* The lists of an element mean the sums of their entries: sorting and squeezing them
\* (also with three entries for one equation), multiplying, transposing, renumbering and
\* differentiating them give what the same operation gives on the dense vector and matrix,
\* in every order in which the element filled them (FE/Local.c).
ListsMeanSums == SqueezeSound /\ ProductsSound /\ ProductRule /\ AssemblySound
=============================================================================
