------------------------------- MODULE Field -------------------------------
(***************************************************************************)
(* The numbers of the Classaddons library.  Its double is taken to be      *)
(* exact: a member of the field of the integers modulo a prime P, where    *)
(* every rational identity between the numbers of the code still holds and *)
(* a wrong index, sign or factor still shows.  Rounding is left out.       *)
(***************************************************************************)
EXTENDS Integers, Sequences

CONSTANT P

Number == 0 .. P - 1
a ++ b == (a + b) % P
a -- b == (a - b) % P
a ** b == (a * b) % P
\* Nothing is said of what the code computes from a division by zero.
Recip(a) == IF a = 0 THEN 0 ELSE CHOOSE b \in Number : a ** b = 1
a // b == a ** Recip(b)

\* The sum of f[1], ..., f[n].
Total(f, n) ==
    LET upTo[i \in 0 .. n] == IF i = 0 THEN 0 ELSE upTo[i - 1] ++ f[i]
    IN  upTo[n]

\* Vectors of n numbers and n x n matrices as functions: what the classes represent.
Times(A, x, n) == [i \in 1 .. n |-> Total([j \in 1 .. n |-> A[i][j] ** x[j]], n)]
Flip(A, n) == [i \in 1 .. n |-> [j \in 1 .. n |-> A[j][i]]]
Product(A, B, n) ==
    [i \in 1 .. n |-> [j \in 1 .. n |-> Total([k \in 1 .. n |-> A[i][k] ** B[k][j]], n)]]
Dot(x, y, n) == Total([i \in 1 .. n |-> x[i] ** y[i]], n)
Scaled(s, x) == [i \in DOMAIN x |-> s ** x[i]]
Plus(x, y) == [i \in DOMAIN x |-> x[i] ++ y[i]]
Minus(x, y) == [i \in DOMAIN x |-> x[i] -- y[i]]
=============================================================================
