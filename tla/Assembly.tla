------------------------------- MODULE Assembly -------------------------------
(***************************************************************************)
(* The finite element domain: equations are numbered as elements are       *)
(* added, a SteadyAssembler adds up the elements' matrices and forces and  *)
(* keeps the tangent until Update, and NewtonRaphson::Solve iterates on    *)
(* the residual reduced by the essential boundary conditions.              *)
(***************************************************************************)
EXTENDS Field, SequencesExt

CONSTANTS Nodes,      \* nodes of the domain
          Dofs,       \* kinds of unknown a node may have
          Laws,       \* physics of an element, records [k, q, f, g]
          MaxElems, MaxAdded,   \* bounds on the elements, and on elements and conditions
          MaxIter     \* NewtonRaphson's maxiter

VARIABLES map,      \* StdLocalDomain: the equation of a node's unknown, once it is numbered
          elems, bcs,   \* elements [nodes, dof, law] and conditions [eq, val], in order
          last,     \* the solution vector
          reform, tan,   \* SteadyAssembler: tan is out of date; the tangent kept
          nr        \* NewtonRaphson: its locals while it runs
assemblyVars == <<map, elems, bcs, last, reform, tan, nr>>

Idle == [running |-> FALSE]
NumEqs == Len(last)
Eqs == 1 .. NumEqs
ZeroVector == [i \in Eqs |-> 0]
ZeroMatrix == [i \in Eqs |-> ZeroVector]
MatrixPlus(A, B) == [i \in Eqs |-> Plus(A[i], B[i])]
MatrixMinus(A, B) == [i \in Eqs |-> Minus(A[i], B[i])]

----------------------------------------------------------------------------
(* Elements *)

\* AddDOF: an unknown gets the next equation unless it has one.
AddDOF(m, node, dof) ==
    IF <<node, dof>> \in DOMAIN m THEN m
    ELSE [u \in DOMAIN m \cup {<<node, dof>>} |-> IF u \in DOMAIN m THEN m[u] ELSE Cardinality(DOMAIN m) + 1]
Register(m, e) == FoldLeft(LAMBDA s, node : AddDOF(s, node, e.dof), m, e.nodes)
EqNum(e, n) == map[<<e.nodes[n], e.dof>>]

\* An element of two nodes: conductance k, a part q that grows with the unknown, a load f
\* and a load g that grows with it.  Each answers with a 2 x 2 matrix or a vector.
Unknown(e, u, n) == u[EqNum(e, n)]
ElemStiff(e, u) ==
    [a \in 1 .. 2 |-> [b \in 1 .. 2 |->
        IF a = b THEN e.law.k ++ (e.law.q ** Unknown(e, u, a)) ELSE 0 -- e.law.k]]
ElemTanStiff(e, u) == [a \in 1 .. 2 |-> [b \in 1 .. 2 |-> IF a = b THEN e.law.q ** Unknown(e, u, a) ELSE 0]]
ElemForce(e, u) == [a \in 1 .. 2 |-> e.law.f ++ (e.law.g ** Unknown(e, u, a))]
ElemTanForce(e, u) == [a \in 1 .. 2 |-> [b \in 1 .. 2 |-> IF a = b THEN e.law.g ELSE 0]]

\* ~MatCache and ~VecCache: the element's numbers go to the rows and columns of its map.
FlushMat(A, e, cache) ==
    LET Add(s, p) == [s EXCEPT ![EqNum(e, p[1])][EqNum(e, p[2])] = @ ++ cache[p[1]][p[2]]]
    IN  FoldLeft(Add, A, <<<<1, 1>>, <<1, 2>>, <<2, 1>>, <<2, 2>>>>)
FlushVec(v, e, cache) == FoldLeft(LAMBDA s, n : [s EXCEPT ![EqNum(e, n)] = @ ++ cache[n]], v, <<1, 2>>)

----------------------------------------------------------------------------
(* SteadyAssembler *)

Stiff(u) == FoldLeft(LAMBDA K, e : FlushMat(K, e, ElemStiff(e, u)), ZeroMatrix, elems)
Force(u) == FoldLeft(LAMBDA f, e : FlushVec(f, e, ElemForce(e, u)), ZeroVector, elems)
Residual(u) == Minus(Times(Stiff(u), u, NumEqs), Force(u))
TangentStiff(u) ==
    LET Add(K, e) ==
          LET Of(cache) == FlushMat(ZeroMatrix, e, cache)
          IN  MatrixPlus(MatrixMinus(MatrixPlus(K, Of(ElemTanStiff(e, u))), Of(ElemTanForce(e, u))),
                         Of(ElemStiff(e, u)))
    IN  FoldLeft(Add, ZeroMatrix, elems)
\* The tangent kept, formed anew when reform says so.
Tangent(s) == IF s.reform THEN [s EXCEPT !.reform = FALSE, !.tan = TangentStiff(s.last)] ELSE s

\* BIMatrix::Eliminate with what it returns, and LocalReduce by the type of reduction.
Eliminated(K, p) == [i \in Eqs |-> [j \in Eqs |-> IF i = p \/ j = p THEN IF i = j THEN 1 ELSE 0 ELSE K[i][j]]]
MovedOver(K, p, val) == [i \in Eqs |-> IF i = p THEN 0 ELSE 0 -- (val ** K[i][p])]
ReducType == {"zero", "res", "mat", "rhsonly", "rhszero"}
ValueFor(bc, rt) == IF rt \in {"zero", "rhszero"} THEN 0 ELSE bc.val
\* The conditions overwrite the right hand side before the eliminated columns are added.
Bug_OffLast(s, rt) ==
    LET vals == FoldLeft(LAMBDA f, bc : [f EXCEPT ![bc.eq] = ValueFor(bc, rt)], s.f, bcs)
        Elim(r, bc) == [K |-> Eliminated(r.K, bc.eq), off |-> Plus(r.off, MovedOver(r.K, bc.eq, bc.val))]
        all == FoldLeft(Elim, [K |-> s.K, off |-> ZeroVector], bcs)
    IN  IF rt \in {"rhsonly", "rhszero"} THEN [s EXCEPT !.f = vals]
        ELSE [K |-> all.K, f |-> Plus(vals, all.off)]
LocalReduce(s, rt) ==
    LET Elim(r, bc) ==
          [K |-> Eliminated(r.K, bc.eq), off |-> Plus(r.off, MovedOver(r.K, bc.eq, ValueFor(bc, rt)))]
        all == FoldLeft(Elim, [K |-> s.K, off |-> ZeroVector], bcs)
        moved == IF rt \in {"rhsonly", "rhszero"} THEN s ELSE [K |-> all.K, f |-> Plus(s.f, all.off)]
    IN  [moved EXCEPT !.f = FoldLeft(LAMBDA f, bc : [f EXCEPT ![bc.eq] = ValueFor(bc, rt)], @, bcs)]

Now == [last |-> last, reform |-> reform, tan |-> tan]
\* Update as the base class has it: it does nothing.
Bug_NoReform(s) == s
Update(s) == [s EXCEPT !.reform = TRUE]
Leaves(s) ==
    /\ last' = s.last
    /\ reform' = s.reform
    /\ tan' = s.tan
IsIdle == ~nr.running

AssemblyInit ==
    /\ map = [u \in {} |-> 0]
    /\ elems = <<>>
    /\ bcs = <<>>
    /\ last = <<>>
    /\ reform = TRUE
    /\ tan = <<>>
    /\ nr = Idle

\* AddElem registers the element; what the vector and the matrix kept do not yet hold
\* counts as zero.
AddElem(e) ==
    /\ IsIdle
    /\ Len(elems) < MaxElems
    /\ Len(elems) + Len(bcs) < MaxAdded
    /\ elems' = Append(elems, e)
    /\ map' = Register(map, e)
    /\ LET n == Cardinality(DOMAIN map')
       IN  /\ last' = [i \in 1 .. n |-> IF i <= NumEqs THEN last[i] ELSE 0]
           /\ tan' = [i \in 1 .. n |-> [j \in 1 .. n |-> IF i <= NumEqs /\ j <= NumEqs THEN tan[i][j] ELSE 0]]
    /\ UNCHANGED <<bcs, reform, nr>>
AddBC(eq, val) ==
    /\ IsIdle
    /\ Len(elems) + Len(bcs) < MaxAdded
    /\ bcs' = Append(bcs, [eq |-> eq, val |-> val])
    /\ UNCHANGED <<map, elems, last, reform, tan, nr>>
\* SetSol: the solution is changed from outside, and the tangent kept with the old one.
SetSol(eq, val) ==
    /\ IsIdle
    /\ last' = [last EXCEPT ![eq] = val]
    /\ UNCHANGED <<map, elems, bcs, reform, tan, nr>>
\* DistReduce reduces the tangent it keeps.
DistReduce(rt) ==
    /\ IsIdle
    /\ elems # <<>>
    /\ tan' = LocalReduce([K |-> Tangent(Now).tan, f |-> ZeroVector], rt).K
    /\ reform' = FALSE
    /\ UNCHANGED <<map, elems, bcs, last, nr>>

----------------------------------------------------------------------------
(* NewtonRaphson::Solve *)

\* The residual and the tangent at a solution, reduced: what an iteration starts from.
Prepared(s, U, iters) ==
    LET formed == Tangent(s)
        reduced == LocalReduce([K |-> formed.tan, f |-> Minus(ZeroVector, Residual(s.last))], "zero")
    IN  [sys |-> formed,
         nr |-> [running |-> TRUE, U |-> U, mat |-> reduced.K, load |-> reduced.f, iters |-> iters]]
Begin ==
    /\ IsIdle
    /\ elems # <<>>
    /\ LET U == LocalReduce([K |-> ZeroMatrix, f |-> last], "rhsonly").f
           p == Prepared([Update(Now) EXCEPT !.last = U], U, 0)
       IN  Leaves(p.sys) /\ nr' = p.nr
    /\ UNCHANGED <<map, elems, bcs>>
\* BiConj's answer for a regular matrix; nothing is said of a singular one.
Answers == {du \in [Eqs -> Number] : Times(nr.mat, du, NumEqs) = nr.load}
Iterate ==
    /\ nr.running
    /\ nr.iters < MaxIter
    /\ nr.load # ZeroVector
    /\ Cardinality(Answers) = 1
    /\ \E du \in Answers :
         LET U == Plus(nr.U, du)
             p == Prepared(Update([Now EXCEPT !.last = U]), U, nr.iters + 1)
         IN  Leaves(p.sys) /\ nr' = p.nr
    /\ UNCHANGED <<map, elems, bcs>>
End ==
    /\ nr.running
    /\ nr.load = ZeroVector \/ nr.iters = MaxIter
    /\ nr' = Idle
    /\ UNCHANGED <<map, elems, bcs, last, reform, tan>>

AssemblyNext ==
    \/ \E a, b \in Nodes, dof \in Dofs, law \in Laws :
          a < b /\ AddElem([nodes |-> <<a, b>>, dof |-> dof, law |-> law])
    \/ \E eq \in Eqs, val \in Number : AddBC(eq, val) \/ SetSol(eq, val)
    \/ \E rt \in ReducType : DistReduce(rt)
    \/ Begin
    \/ Iterate
    \/ End

----------------------------------------------------------------------------
Fixed == {bcs[i].eq : i \in DOMAIN bcs}
ValueOf(eq) == bcs[Max({i \in DOMAIN bcs : bcs[i].eq = eq})].val

\* While NewtonRaphson runs, its U is the domain's solution and has the value of the last
\* condition given for an equation; the load is the residual's there, and zero where a
\* condition holds; an unknown of the domain has one equation, and a problem without a
\* nonlinear part is solved by the first iteration.
NewtonKeepsConditions ==
    /\ IsInjective([i \in Eqs |-> CHOOSE u \in DOMAIN map : map[u] = i])
    /\ nr.running =>
        /\ nr.U = last
        /\ \A i \in Fixed : last[i] = ValueOf(i) /\ nr.load[i] = 0
        /\ \A i \in Eqs \ Fixed : nr.load[i] = 0 -- Residual(last)[i]
        /\ nr.iters > 0 /\ (\A i \in DOMAIN elems : elems[i].law.q = 0) => nr.load = ZeroVector

\* The matrix an iteration solves with is the derivative of the residual at the solution
\* of now (the central difference, which is exact for these elements) whatever was solved,
\* set or reduced before: the tangent that is kept is never one of an earlier solution.
TangentIsDerivative ==
    nr.running =>
        \A i, j \in Eqs \ Fixed :
            LET At(h) == Residual([last EXCEPT ![j] = @ ++ h])[i]
            IN  nr.mat[i][j] = (At(1) -- At(P - 1)) // 2

=============================================================================
