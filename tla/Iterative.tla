----------------------------- MODULE Iterative -----------------------------
(***************************************************************************)
(* The iterative solvers: Jacobi, Gauss (Gauss-Seidel), SOR, Conj,         *)
(* NonSymConj, BiConj (PreBiConj is the same code) and ConjJacob, one pass *)
(* of the loop of Solve a step.  Numbers are exact (module Field): how     *)
(* fast a method converges is not modelled, what it converges to is.       *)
(***************************************************************************)
EXTENDS Field

CONSTANTS N,        \* equations
          Omega,    \* SOR::omega
          Sides,    \* the right-hand sides tried
          MaxK      \* bound: passes

VARIABLES method,   \* the class of the solver
          A, b,     \* the system
          x,        \* guess, or x
          k,        \* passes made
          g         \* the other vectors and numbers of Solve
iterativeVars == <<method, A, b, x, k, g>>

Vec == [1 .. N -> Number]
Zeros == [i \in 1 .. N |-> 0]
Mult(M, v) == Times(M, v, N)
DotN(v, w) == Dot(v, w, N)
At == Flip(A, N)
Along(v, s, w) == Plus(v, Scaled(s, w))   \* v + s * w

----------------------------------------------------------------------------
(* Jacobi, Gauss, SOR *)

\* Row cr of a sweep: what unknown cr is, the others being as in v.
RowValue(v, cr) ==
    (b[cr] -- Total([j \in 1 .. N |-> IF j = cr THEN 0 ELSE A[cr][j] ** v[j]], N)) // A[cr][cr]
JacobiSweep(v) == [cr \in 1 .. N |-> RowValue(v, cr)]
\* Every row uses the unknowns already renewed.
GaussSweep(v) ==
    LET upTo[cr \in 0 .. N] ==
          IF cr = 0 THEN v
          ELSE LET u == upTo[cr - 1] IN [u EXCEPT ![cr] = RowValue(u, cr)]
    IN  upTo[N]
SorSweep(v) ==
    LET upTo[cr \in 0 .. N] ==
          IF cr = 0 THEN v
          ELSE LET u == upTo[cr - 1] IN [u EXCEPT ![cr] = @ ++ (Omega ** (RowValue(u, cr) -- @))]
    IN  upTo[N]
Guess == IF method = "Jacobi" THEN b ELSE [i \in 1 .. N |-> b[i] // A[i][i]]
Sweep(v) ==
    CASE method = "Jacobi" -> JacobiSweep(v)
      [] method = "Gauss" -> GaussSweep(v)
      [] method = "SOR" -> SorSweep(v)

\* err: Jacobi and Gauss go on until no unknown moves; SOR's err only grows, but for every
\* fifth pass, which puts the residual in its place.
Sweeping ==
    /\ method \in {"Jacobi", "Gauss", "SOR"} /\ g.err /\ k < MaxK
    /\ x' = Sweep(x)
    /\ k' = k + 1
    /\ g' = [err |-> IF method # "SOR" THEN x' # x
                     ELSE IF k' % 5 = 0 THEN Mult(A, x') # b ELSE TRUE]
    /\ UNCHANGED <<method, A, b>>

----------------------------------------------------------------------------
(* Conj *)

\* NonSymConj runs Conj on the SymEquiv of its matrix, with the same right-hand side.
Apply(v) == IF method = "NonSymConj" THEN Mult(At, Mult(A, v)) ELSE Mult(A, v)
ConjStart == [r |-> b, p |-> Zeros, oldp |-> Zeros, oldr |-> Zeros, rho |-> DotN(b, b), oldrho |-> 1]
Direction == IF k = 0 THEN g.r ELSE Along(g.r, g.rho // g.oldrho, g.p)
ConjStep ==
    LET p == Direction
        Ap == Apply(p)
        l == g.rho // DotN(p, Ap)
        r == Along(g.r, 0 -- l, Ap)
    IN  /\ method \in {"Conj", "NonSymConj"} /\ g.rho # 0 /\ DotN(p, Ap) # 0 /\ k < MaxK
        /\ x' = Along(x, l, p)
        /\ g' = [r |-> r, p |-> p, oldp |-> g.p, oldr |-> g.r, rho |-> DotN(r, r), oldrho |-> g.rho]
        /\ k' = k + 1
        /\ UNCHANGED <<method, A, b>>

----------------------------------------------------------------------------
(* BiConj *)

BiStart == [r |-> b, rbar |-> b, p |-> b, pbar |-> b, oldr |-> Zeros, oldrbar |-> Zeros]
BiStep ==
    LET pAp == DotN(g.pbar, Mult(A, g.p))
        alpha == DotN(g.rbar, g.r) // pAp
        r == Along(g.r, 0 -- alpha, Mult(A, g.p))
        rbar == Along(g.rbar, 0 -- alpha, Mult(At, g.pbar))
        beta == DotN(rbar, r) // DotN(g.rbar, g.r)
    IN  /\ method = "BiConj" /\ ((g.r # Zeros /\ k < 2 * N) \/ k = 0) /\ k < MaxK
        /\ pAp # 0 /\ DotN(g.rbar, g.r) # 0
        /\ x' = Along(x, alpha, g.p)
        /\ g' = [r |-> r, rbar |-> rbar, p |-> Along(r, beta, g.p),
                 pbar |-> Along(rbar, beta, g.pbar), oldr |-> g.r, oldrbar |-> g.rbar]
        /\ k' = k + 1
        /\ UNCHANGED <<method, A, b>>

----------------------------------------------------------------------------
(* ConjJacob *)

D == [i \in 1 .. N |-> A[i][i]]
OverD(r) == [i \in 1 .. N |-> r[i] // D[i]]
Weight(rbar) == Total([i \in 1 .. N |-> (rbar[i] ** D[i]) ** rbar[i]], N)
JacobStart == [r |-> b, rbar |-> OverD(b), p |-> OverD(b), beta |-> Weight(OverD(b)), oldr |-> Zeros]
JacobStep ==
    LET I == Mult(A, g.p)
        l == g.beta // DotN(g.p, I)
        r == Along(g.r, 0 -- l, I)
        newbeta == Weight(OverD(r))
    IN  /\ method = "ConjJacob" /\ g.beta # 0 /\ DotN(g.p, I) # 0 /\ k < MaxK
        /\ x' = Along(x, l, g.p)
        /\ g' = [r |-> r, rbar |-> OverD(r), p |-> Along(OverD(r), newbeta // g.beta, g.p),
                 beta |-> newbeta, oldr |-> g.r]
        /\ k' = k + 1
        /\ UNCHANGED <<method, A, b>>

----------------------------------------------------------------------------

Sym == A = At
\* Matrices with a diagonal; the gradient methods but NonSymConj and BiConj want symmetry.
IterativeInit ==
    /\ method \in {"Jacobi", "Gauss", "SOR", "Conj", "NonSymConj", "BiConj", "ConjJacob"}
    /\ A \in [1 .. N -> Vec]
    /\ \A i \in 1 .. N : A[i][i] # 0
    /\ method \in {"Conj", "ConjJacob"} => Sym
    /\ b \in Sides
    /\ k = 0
    /\ x = IF method \in {"Jacobi", "Gauss", "SOR"} THEN Guess ELSE Zeros
    /\ g = CASE method \in {"Jacobi", "Gauss", "SOR"} -> [err |-> TRUE]
             [] method \in {"Conj", "NonSymConj"} -> ConjStart
             [] method = "BiConj" -> BiStart
             [] method = "ConjJacob" -> JacobStart
IterativeNext == Sweeping \/ ConjStep \/ BiStep \/ JacobStep

----------------------------------------------------------------------------
(* What the methods keep *)

\* r is the residual of x in every pass, whatever was divided.
ResidualKept ==
    method \in {"Conj", "NonSymConj", "BiConj", "ConjJacob"} => g.r = Minus(b, Apply(x))

\* Each pass makes the residual orthogonal to the last one (in the method's own sense) and
\* takes a direction conjugate to the last one.
DirectionsConjugate ==
    /\ method \in {"Conj", "NonSymConj"} /\ k > 0 =>
         /\ DotN(g.r, g.oldr) = 0
         /\ k > 1 => DotN(g.p, Apply(g.oldp)) = 0
    /\ method = "BiConj" /\ k > 0 => DotN(g.rbar, g.oldr) = 0 /\ DotN(g.oldrbar, g.r) = 0
    /\ method = "ConjJacob" /\ k > 0 => DotN(OverD(g.oldr), g.r) = 0

\* Without a breakdown the N-th pass ends with the solution.
EndsInN ==
    method \in {"Conj", "NonSymConj", "BiConj", "ConjJacob"} /\ k = N => g.r = Zeros

\* A sweep that moves nothing has found a solution, and a solution is not moved; SOR gives
\* back a guess only after a fifth pass, and then it is a solution.
SweepsEndInSolutions ==
    method \in {"Jacobi", "Gauss", "SOR"} =>
        /\ Sweep(x) = x <=> Mult(A, x) = b
        /\ ~g.err => Mult(A, x) = b

\* A solver returns what solves its system: the residual it carries is the true one, its
\* directions stay conjugate, so that N passes suffice, and a method that stops because
\* nothing moves any more has the solution (Matrix/Lib).
SolversSolve ==
    ResidualKept /\ DirectionsConjugate /\ EndsInN /\ SweepsEndInSolutions

=============================================================================
