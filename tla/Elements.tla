------------------------------ MODULE Elements ------------------------------
(***************************************************************************)
(* Finite elements of heat conduction and convection: basis functions at   *)
(* the Gauss points, the transformation from the reference element with    *)
(* its derivative by a design variable, material properties, and the       *)
(* stiffness and force with the derivatives that Newton's method (by the   *)
(* solution) and the sensitivity analysis (by the design) ask for.         *)
(* The elements of a class share one transformation (a static ParamTran),  *)
(* which their matrices attach to their nodes and their forces use as it   *)
(* was left: the module is an element and another one of its class.        *)
(***************************************************************************)
EXTENDS Field

CONSTANTS Kinds,       \* the basis functions used, of "line", "quad", "tetra"
          Abscissas,   \* where the Gauss points of a direction lie
          Values,      \* what a change may set
          MaxChanges   \* bound on the changes

VARIABLES kind,     \* the element's basis
          pos,      \* where its nodes are
          par,      \* how the nodes move with the design variable (Node::Par)
          u,        \* the nodes' temperatures
          law,      \* the material property
          changes,  \* how many changes there were
          attached  \* whose nodes the class's ParamTran has: "none", "own" or "other"
elementVars == <<kind, pos, par, u, law, changes, attached>>

Half == Recip(2)
NumDim(b) == CASE b = "line" -> 1 [] b = "quad" -> 2 [] b = "tetra" -> 3
NumNodes(b) == CASE b = "line" -> 2 [] b = "quad" -> 4 [] b = "tetra" -> 4
Dims == 1 .. NumDim(kind)
NodeSet == 1 .. NumNodes(kind)
Over(Op(_)) == Total([k \in NodeSet |-> Op(k)], NumNodes(kind))
OverDims(Op(_)) == Total([k \in Dims |-> Op(k)], NumDim(kind))
\* A vector or a matrix as a tuple, which TLC computes once and not at every use.
Row(f) == f \o <<>>
Table(n, m, Op(_, _)) == Row([i \in 1 .. n |-> Row([j \in 1 .. m |-> Op(i, j)])])

----------------------------------------------------------------------------
(* Basis functions *)

BF21(c) ==
    [N |-> <<(c[1] ++ 1) ** Half, (1 -- c[1]) ** Half>>, B |-> <<<<Half, 0 -- Half>>>>]
BF42(c) ==
    LET q == Half ** Half
        lo(a) == 1 -- c[a]
        hi(a) == 1 ++ c[a]
    IN  [N |-> <<q ** (lo(1) ** lo(2)), q ** (hi(1) ** lo(2)), q ** (hi(1) ** hi(2)), q ** (lo(1) ** hi(2))>>,
         B |-> <<<<0 -- (q ** lo(2)), q ** lo(2), q ** hi(2), 0 -- (q ** hi(2))>>,
                 <<0 -- (q ** lo(1)), 0 -- (q ** hi(1)), q ** hi(1), q ** lo(1)>>>>]
\* Three dimensions are for basis functions of the user: here the linear ones.
Tetra(c) ==
    [N |-> <<1 -- (c[1] ++ (c[2] ++ c[3])), c[1], c[2], c[3]>>,
     B |-> Table(3, 4, LAMBDA j, k : IF k = 1 THEN P - 1 ELSE IF k = j + 1 THEN 1 ELSE 0)]
Eval(c) == CASE kind = "line" -> BF21(c) [] kind = "quad" -> BF42(c) [] kind = "tetra" -> Tetra(c)
GaussPoints == [Dims -> Abscissas]

----------------------------------------------------------------------------
(* Transformation *)

\* ParamTran::At and ParAt: the Jacobian of the nodes' places, or of their derivatives.
Jacobian(B, places) ==
    Table(NumDim(kind), NumDim(kind), LAMBDA i, j : Over(LAMBDA k : B[j][k] ** places[k][i]))
\* The cofactor of (i, j), in the cyclic form, which has the sign in it.
After(i) == (i % 3) + 1
Cofactor(J, i, j) ==
    CASE kind = "line" -> 1
      [] kind = "quad" -> IF i = j THEN J[3 - i][3 - j] ELSE 0 -- J[3 - i][3 - j]
      [] kind = "tetra" ->
           (J[After(i)][After(j)] ** J[After(After(i))][After(After(j))])
           -- (J[After(i)][After(After(j))] ** J[After(After(i))][After(j)])
\* Calc: determinant and inverse.
Det(J) == OverDims(LAMBDA j : J[1][j] ** Cofactor(J, 1, j))
Inverse(J) ==
    LET r == Recip(Det(J)) IN Table(NumDim(kind), NumDim(kind), LAMBDA i, j : Cofactor(J, j, i) ** r)
\* ParCalc: their derivatives when J changes by pj.
ParDet(J, pj) == OverDims(LAMBDA i : OverDims(LAMBDA j : pj[i][j] ** Cofactor(J, i, j)))
ParInverse(J, pj) ==
    LET I == Inverse(J)
    IN  Table(NumDim(kind), NumDim(kind), LAMBDA i, j :
            0 -- OverDims(LAMBDA m : OverDims(LAMBDA n : I[i][m] ** (pj[m][n] ** I[n][j]))))

\* GaussContext at a point: N, the B of the reference element turned by t, and detJ.
Turned(B, t) ==
    Table(NumDim(kind), NumNodes(kind), LAMBDA j, i : OverDims(LAMBDA k : B[k][i] ** t[k][j]))
Transformed(c, places) ==
    LET bf == Eval(c)
        J == Jacobian(bf.B, places)
    IN  [N |-> bf.N, B |-> Turned(bf.B, Inverse(J)), detJ |-> Det(J)]
ParTransformed(c, places, moves) ==
    LET bf == Eval(c)
        J == Jacobian(bf.B, places)
        pj == Jacobian(bf.B, moves)
    IN  [N |-> [i \in NodeSet |-> 0], B |-> Turned(bf.B, ParInverse(J, pj)), detJ |-> ParDet(J, pj)]

----------------------------------------------------------------------------
(* Material properties: the value at a Gauss point, and its derivatives by the solution *)
(* and by the design variable.                                                         *)

\* Recover1: the solution at the point.
Recover(N, sol) == Over(LAMBDA j : N[j] ** sol[j])
\* [type, p, air]: a ConstMatProp, a DesignMatProp of the design variable asked for (of
\* another one it answers as a ConstMatProp), NonLinCond1 or RadConv1 (these two up to their
\* constants); air: that variable is the temperature around, which is constant and the same
\* for the element and for RadConv1.
Ambient == 2
One(b) == IF b THEN 1 ELSE 0
IsConst(l) == l.type = "const"
NonLinEval(p, v) == p ** (1 ++ (3 ** (v ** (v ** v))))
NonLinTan(p, v) == 3 ** (p ** (3 ** (v ** v)))
RadEval(p, v, T) == p ** (((v ** v) ++ (T ** T)) ** (v ++ T))
RadTan(p, v, T) == p ** ((3 ** (v ** v)) ++ ((2 ** (v ** T)) ++ (T ** T)))
RadPar(p, v, T, dT) == p ** (((3 ** (T ** T)) ++ ((2 ** (v ** T)) ++ (v ** v))) ** dT)
PropEval(l, v) ==
    CASE l.type \in {"const", "design"} -> l.p
      [] l.type = "nonlin" -> NonLinEval(l.p, v)
      [] l.type = "rad" -> RadEval(l.p, v, Ambient)
PropTanEval(l, v) ==
    CASE l.type \in {"const", "design"} -> 0
      [] l.type = "nonlin" -> NonLinTan(l.p, v)
      [] l.type = "rad" -> RadTan(l.p, v, Ambient)
PropParEval(l, v) ==
    CASE l.type \in {"const", "design"} -> One(l.type = "design")
      [] l.type = "nonlin" -> 0
      [] l.type = "rad" -> RadPar(l.p, v, Ambient, One(l.air))

----------------------------------------------------------------------------
(* What a Gauss point adds to the element's matrices and to its force *)

\* The nodes the transformation is attached to; the other element is twice as far out and
\* the design moves it alike.
Places == IF attached = "own" THEN pos ELSE [n \in NodeSet |-> Scaled(2, pos[n])]
At(c) == Transformed(c, Places)
ParAt(c) == ParTransformed(c, Places, par)
Square(Op(_, _)) == Table(NumNodes(kind), NumNodes(kind), Op)
BB(a, b, i, j) == OverDims(LAMBDA k : a.B[k][i] ** b.B[k][j])
Temp(g) == Recover(g.N, u)

CondStiff(g, K) == Square(LAMBDA i, j : K ** (BB(g, g, i, j) ** g.detJ))
CondTanStiff(g, dk) ==
    Square(LAMBDA i, k : dk ** (Over(LAMBDA j : BB(g, g, i, j) ** u[j]) ** (g.N[k] ** g.detJ)))
CondParStiff(g, pg, K) ==
    Square(LAMBDA i, j :
        K ** (((BB(pg, g, i, j) ** g.detJ) ++ (BB(g, pg, i, j) ** g.detJ)) ++ (BB(g, g, i, j) ** pg.detJ)))
ConvStiff(g, H) == Square(LAMBDA i, j : H ** (g.N[i] ** (g.N[j] ** g.detJ)))
\* The force's dependence on the temperature through the property is left out.
Bug_NoAmbient(g, dh, T) == Square(LAMBDA i, j : (dh ** Temp(g)) ** (g.N[i] ** (g.N[j] ** g.detJ)))
ConvTanStiff(g, dh, T) == Square(LAMBDA i, j : (dh ** (Temp(g) -- T)) ** (g.N[i] ** (g.N[j] ** g.detJ)))
ConvParStiff(g, pg, H) == Square(LAMBDA i, j : H ** (g.N[i] ** (g.N[j] ** pg.detJ)))
ConvForce(g, h, T) == [i \in NodeSet |-> (h ** T) ** (g.N[i] ** g.detJ)]
ConvParForce(g, pg, h, dh, T, dT) ==
    [i \in NodeSet |->
        g.N[i] ** ((((h ** dT) ++ (dh ** T)) ** g.detJ) ++ ((h ** T) ** pg.detJ))]

\* The elements' virtual functions at a point: conduction has no force, and a constant
\* property no tangent.
Stiff(cond, g) == IF cond THEN CondStiff(g, PropEval(law, Temp(g))) ELSE ConvStiff(g, PropEval(law, Temp(g)))
TanStiff(cond, g) ==
    LET d == PropTanEval(law, Temp(g))
    IN  IF IsConst(law) THEN Square(LAMBDA i, j : 0)
        ELSE IF cond THEN CondTanStiff(g, d) ELSE ConvTanStiff(g, d, Ambient)
ParStiff(cond, g, pg) ==
    LET k == PropEval(law, Temp(g))
        dk == PropParEval(law, Temp(g))
        Both(a, b) == Square(LAMBDA i, j : a[i][j] ++ b[i][j])
    IN  IF cond THEN Both(CondStiff(g, dk), CondParStiff(g, pg, k))
        ELSE Both(ConvStiff(g, dk), ConvParStiff(g, pg, k))
Force(g) == ConvForce(g, PropEval(law, Temp(g)), Ambient)
ParForce(g, pg) ==
    ConvParForce(g, pg, PropEval(law, Temp(g)), PropParEval(law, Temp(g)), Ambient, One(law.air))

----------------------------------------------------------------------------
(* The program changes the mesh, the design or the solution, and asks the elements.     *)

Laws == [type : {"const", "design", "nonlin", "rad"}, p : {1}, air : BOOLEAN]
Corners(b) ==
    CASE b = "line" -> <<<<1>>, <<P - 1>>>>
      [] b = "quad" -> <<<<P - 1, P - 1>>, <<1, P - 1>>, <<1, 1>>, <<P - 1, 1>>>>
      [] b = "tetra" -> <<<<0, 0, 0>>, <<1, 0, 0>>, <<0, 1, 0>>, <<0, 0, 1>>>>
\* An element in its reference place or skewed, which the design moves and where the
\* temperatures differ.
ElementInit ==
    /\ kind \in Kinds
    /\ \E skew \in {0, 2} :
         pos = [n \in NodeSet |-> [d \in Dims |-> Corners(kind)[n][d] ++ (skew ** (n ** d))]]
    /\ par = [n \in NodeSet |-> [d \in Dims |-> n ** (n ++ d)]]
    /\ u = [n \in NodeSet |-> n ** (n ++ 1)]
    /\ law \in Laws
    /\ changes = 0
    /\ attached = "none"
Changing == changes < MaxChanges /\ changes' = changes + 1 /\ UNCHANGED attached
Move(n, d, v) ==
    /\ Changing
    /\ pos' = [pos EXCEPT ![n][d] = v]
    /\ UNCHANGED <<kind, par, u, law>>
Shape(n, d, v) ==
    /\ Changing
    /\ par' = [par EXCEPT ![n][d] = v]
    /\ UNCHANGED <<kind, pos, u, law>>
SetSol(n, v) ==
    /\ Changing
    /\ u' = [u EXCEPT ![n] = v]
    /\ UNCHANGED <<kind, pos, par, law>>
\* Stiff, TanStiff and ParStiff of an element of the class attach the transformation to
\* its nodes; Force and ParForce do not.
Attach(e) ==
    /\ attached' = e
    /\ UNCHANGED <<kind, pos, par, u, law, changes>>
ElementNext ==
    \/ \E e \in {"own", "other"} : Attach(e)
    \/ \E n \in NodeSet, v \in Values :
         SetSol(n, v) \/ \E d \in Dims : Move(n, d, v) \/ Shape(n, d, v)

----------------------------------------------------------------------------
\* The derivative at zero of a polynomial of degree below P, from its values in the field.
Derivative(Op(_)) == 0 -- Total([h \in 1 .. P - 1 |-> Op(h) // h], P - 1)
Regular(c) == Det(Jacobian(Eval(c).B, Places)) # 0

\* The tangent of an element, Stiff and TanStiff together, is the derivative of its
\* residual by each temperature, with the temperature's effect on the property and, for
\* convection, on the force, which must come after the element's own matrices: after
\* another's it is that element's force.
TangentIsExact ==
    attached = "own" =>
    \A c \in GaussPoints, cond \in BOOLEAN :
        LET g == At(c)
            S == Stiff(cond, g)
            T == TanStiff(cond, g)
            k(sol) == PropEval(law, Recover(g.N, sol))
            Res(i, sol) ==
              IF cond THEN k(sol) ** Over(LAMBDA j : BB(g, g, i, j) ** (sol[j] ** g.detJ))
              ELSE k(sol) ** ((Recover(g.N, sol) -- Ambient) ** (g.N[i] ** g.detJ))
        IN  Regular(c) => \A i, n \in NodeSet :
              S[i][n] ++ T[i][n] = Derivative(LAMBDA h : Res(i, [u EXCEPT ![n] = @ ++ h]))

\* ParStiff and ParForce are the derivatives by the design variable, which moves the nodes
\* and may be the property or the temperature around: of the inverse Jacobian, of the
\* determinant, and of the property.  (The conduction matrix has the determinant below it:
\* q is what is above.)  The force is the attached element's in both.
SensitivityIsExact ==
    attached # "none" =>
    \A c \in GaussPoints :
        LET g == At(c)
            pg == ParAt(c)
            bf == Eval(c)
            Moved(h) == Row([n \in NodeSet |-> Row(Plus(Places[n], Scaled(h, par[n])))])
            J == Row([h \in 1 .. P - 1 |-> Jacobian(bf.B, Moved(h))])
            det == Row([h \in 1 .. P - 1 |-> Det(J[h])])
            T(h) == Ambient ++ (h ** One(law.air))
            v == Temp(g)
            k == Row([h \in 1 .. P - 1 |->
                  CASE law.type \in {"const", "design"} -> law.p ++ (h ** One(law.type = "design"))
                    [] law.type = "nonlin" -> PropEval(law, v)
                    [] law.type = "rad" -> law.p ** (((v ** v) ++ (T(h) ** T(h))) ** (v ++ T(h)))])
            up == Row([h \in 1 .. P - 1 |->
                  Table(NumDim(kind), NumNodes(kind), LAMBDA d, n : OverDims(LAMBDA m : bf.B[m][n] ** Cofactor(J[h], d, m)))])
            q(h, i, j) == k[h] ** OverDims(LAMBDA d : up[h][d][i] ** up[h][d][j])
            dDet == Derivative(LAMBDA h : det[h])
            condS == Stiff(TRUE, g)
            condP == ParStiff(TRUE, g, pg)
            convP == ParStiff(FALSE, g, pg)
            forceP == ParForce(g, pg)
        IN  Regular(c) =>
              /\ attached = "own" => \A i, j \in NodeSet :
                  /\ condP[i][j] = (Derivative(LAMBDA h : q(h, i, j)) -- (dDet ** condS[i][j])) // g.detJ
                  /\ convP[i][j] = Derivative(LAMBDA h : k[h] ** (g.N[i] ** (g.N[j] ** det[h])))
              /\ \A i \in NodeSet :
                  forceP[i] = Derivative(LAMBDA h : k[h] ** (T(h) ** (g.N[i] ** det[h])))

=============================================================================
