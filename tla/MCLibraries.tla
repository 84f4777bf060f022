----------------------------- MODULE MCLibraries -----------------------------
(***************************************************************************)
(* The in-memory libraries, one at a time: the doubly linked list of       *)
(* btree.1.1 and the collectors of Classaddons, which this module extends, *)
(* and the classes of Classaddons that compute.  A behaviour is one of     *)
(* part's; the parts share no state in the code, and here those that       *)
(* compute take turns at the same seven variables, of which a part with    *)
(* fewer leaves the last ones alone.  The numbers beside P, the prime the  *)
(* field has, are the bounds.                                              *)
(***************************************************************************)
EXTENDS DoublyLinked, Collector

VARIABLES part, a, b, c, d, e, f, g
Idle == "idle"

Local == INSTANCE LocalAlgebra WITH
  P <- 2, Eqs <- 2, MaxSize <- 3, Values <- {[at |-> 1, by |-> 1], [at |-> 0, by |-> 1]},
  v <- a, m <- b
Mat == INSTANCE Matrices WITH P <- 3, Size <- 2, M <- a, x <- b
Lists == INSTANCE Sparse WITH
  P <- 3, N <- 2, Values <- {1, 2}, MaxEntries <- 3,
  entries <- a, status <- b, sym <- c, solver <- d
Band == INSTANCE Banded WITH
  P <- 3, N <- 3, Bands <- {<<0, FALSE>>, <<1, FALSE>>, <<1, TRUE>>, <<2, TRUE>>},
  A <- a, band <- b, row <- c
Iter == INSTANCE Iterative WITH
  P <- 7, N <- 2, Omega <- 2, Sides <- {<<1, 2>>}, MaxK <- 6,
  method <- a, A <- b, b <- c, x <- d, k <- e, g <- f
(* Two laws of an element: a linear one that holds a store, and one whose  *)
(* tangent moves with the solution.                                        *)
Fe == INSTANCE Assembly WITH
  P <- 3, Nodes <- 1 .. 3, Dofs <- {1}, MaxElems <- 2, MaxAdded <- 3, MaxIter <- 2,
  Laws <- {[k |-> 1, q |-> 0, f |-> 1, g |-> 0], [k |-> 1, q |-> 1, f |-> 0, g |-> 1]},
  map <- a, elems <- b, bcs <- c, last <- d, reform <- e, tan <- f, nr <- g
Elem == INSTANCE Elements WITH
  P <- 11, Kinds <- {"line", "quad", "tetra"}, Abscissas <- {2, 9}, Values <- {3},
  MaxChanges <- 1,
  kind <- a, pos <- b, par <- c, u <- d, law <- e, changes <- f, attached <- g
Multi == INSTANCE Coupling WITH
  P <- 3, NumSystems <- 2, LocalEqs <- 2, GlobalEqs <- 4,
  Matrices <- {<<<<1, 2>>, <<0, 1>>>>, <<<<2, 1>>, <<1, 0>>>>},
  map <- a, tangent <- b, sol <- c, whole <- d
(* Two quadratic costs and a cubic one; the hump at 9 is out of reach.      *)
Search == INSTANCE Optimizers WITH
  P <- 7, Reach <- 6, Unit <- 2, Glimit <- 2, Slopes <- {1, 2}, Humps <- {-3, 3, 9},
  Costs <- {[H |-> <<<<1, 0>>, <<0, 2>>>>, l |-> <<1, 3>>, t |-> 0],
            [H |-> <<<<2, 1>>, <<1, 3>>>>, l |-> <<0, 1>>, t |-> 0],
            [H |-> <<<<2, 1>>, <<1, 3>>>>, l |-> <<0, 1>>, t |-> 2]},
  Vectors <- {<<0, 1>>, <<1, 2>>, <<3, 5>>},
  method <- a, cost <- b, s <- c

(* The variables that a part of two, three, ... variables does not use.     *)
NoG == g = Idle
NoE == e = Idle /\ f = Idle /\ NoG
NoD == d = Idle /\ NoE
NoC == c = Idle /\ NoD
NoA == a = Idle /\ b = Idle /\ NoC

LibInit ==
  /\ Init /\ CollectorInit
  /\ \/ part = "local"     /\ Local!LocalInit     /\ NoC
     \/ part = "matrix"    /\ Mat!MatrixInit      /\ NoC
     \/ part = "sparse"    /\ Lists!SparseInit    /\ NoE
     \/ part = "band"      /\ Band!BandedInit     /\ NoD
     \/ part = "iterative" /\ Iter!IterativeInit  /\ NoG
     \/ part = "gc"        /\ NoA
     \/ part = "assembly"  /\ Fe!AssemblyInit
     \/ part = "element"   /\ Elem!ElementInit
     \/ part = "coupler"   /\ Multi!CouplingInit  /\ NoE
     \/ part = "search"    /\ Search!OptInit      /\ NoD
     \/ part = "dll"       /\ NoA
  /\ part # "gc" => pooled

LibNext ==
  \/ part = "local"     /\ Local!LocalNext     /\ UNCHANGED <<part, c, d, e, f, g, vars, collectorVars>>
  \/ part = "matrix"    /\ Mat!MatrixNext      /\ UNCHANGED <<part, c, d, e, f, g, vars, collectorVars>>
  \/ part = "sparse"    /\ Lists!SparseNext    /\ UNCHANGED <<part, e, f, g, vars, collectorVars>>
  \/ part = "band"      /\ Band!BandedNext     /\ UNCHANGED <<part, d, e, f, g, vars, collectorVars>>
  \/ part = "iterative" /\ Iter!IterativeNext  /\ UNCHANGED <<part, g, vars, collectorVars>>
  \/ part = "gc"        /\ CollectorNext        /\ UNCHANGED <<part, a, b, c, d, e, f, g, vars>>
  \/ part = "assembly"  /\ Fe!AssemblyNext     /\ UNCHANGED <<part, vars, collectorVars>>
  \/ part = "element"   /\ Elem!ElementNext    /\ UNCHANGED <<part, vars, collectorVars>>
  \/ part = "coupler"   /\ Multi!CouplingNext  /\ UNCHANGED <<part, e, f, g, vars, collectorVars>>
  \/ part = "search"    /\ Search!OptNext      /\ UNCHANGED <<part, d, e, f, g, vars, collectorVars>>
  \/ part = "dll"       /\ Next                 /\ UNCHANGED <<part, a, b, c, d, e, f, g, collectorVars>>

LibSpec == LibInit /\ [][LibNext]_<<part, a, b, c, d, e, f, g, vars, collectorVars>>

-----------------------------------------------------------------------------
(* What each part promises; the modules say it in full.                    *)

\* The lists of an element mean the sums of their entries (FE/Local.c).
ListsMeanSums == part = "local" => Local!ListsMeanSums

\* How a matrix is stored shows in no result (Matrix/Lib; of a tridiagonal matrix, in none
\* of Post when it is symmetric), sorting and reducing a sparse matrix keep its sums and its
\* solutions (SparseMatrix.c).
StorageNeverShows ==
  /\ part = "matrix" => Mat!StorageNeverShows
  /\ part = "sparse" => Lists!ListMeansItsSums

\* What a direct or an iterative solver ends with solves the system (Banded.c,
\* Jacobi.c, Gauss.c, SOR.c, Conj.c, ConjJacob.c), and the searches for a least point
\* bracket it and fit it exactly (Opt/StdOpt.c).
SolversSolve ==
  /\ part = "band" => Band!BandSolves
  /\ part = "iterative" => Iter!SolversSolve
  /\ part = "search" => Search!SearchesFind

\* NewtonRaphson, the assembler and the domain agree on the solution, the conditions and
\* the load (FE/Assembler.c, FE/ResSystem.c).
NewtonKeepsConditions == part = "assembly" => Fe!NewtonKeepsConditions

\* The tangent an iteration uses is the derivative at the solution of now.
TangentIsDerivative == part = "assembly" => Fe!TangentIsDerivative

\* An element's tangents by temperature and by design variable are the derivatives of its
\* residual, of its Jacobian and of its property (FE/Finite.c, FE/MatProp.c).
ElementsDifferentiate ==
  part = "element" => Elem!TangentIsExact /\ Elem!SensitivityIsExact

\* Systems coupled by a map act as the one system they make up: products where no equation
\* is shared, MultiCoupler's Tangent under the identity map (FE/Coupler.c).
SystemsActAsOne == part = "coupler" => Multi!SystemsActAsOne
==============================================================================
