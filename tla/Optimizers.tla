----------------------------- MODULE Optimizers ------------------------------
(***************************************************************************)
(* Opt.c and StdOpt.c of Classaddons: a cost along a line (LineFunc), the  *)
(* polynomials fitted to it (Poly2, Poly3, and those of Parabolic and      *)
(* Cubic), its minimum by a bracket and the golden section (Bracket,       *)
(* Section), and steepest descent (Steep) from line to line.               *)
(*                                                                         *)
(* Section only compares: its points are integers, and one that the code   *)
(* computes with a ratio is any that lies where this one does.  The others *)
(* calculate: their numbers are exact (module Field), so that "below eps"  *)
(* is zero, and a cost is a polynomial of two variables.                   *)
(***************************************************************************)
EXTENDS Field

CONSTANTS Reach, Unit,    \* Section: points to each side of 0, and the point 1.0
          Glimit,         \* Bracket::GLIMIT, 100
          Slopes, Humps,  \* of the valleys Section looks into
          Costs, Vectors  \* of the others: the costs, positions and directions tried

VARIABLES method,   \* "section", "line" or "steep"
          cost,     \* the Optimizable
          s         \* the search
optVars == <<method, cost, s>>

Points == - Reach .. Reach
Abs(x) == IF x < 0 THEN - x ELSE x

-----------------------------------------------------------------------------
(* Section: a cost that falls as far as its least point and then rises,    *)
(* but for one hump, which may be out of reach.                            *)
Valleys == [least : Points, left : Slopes, right : Slopes, hump : Humps]
F(x) ==
  (IF x <= cost.least THEN cost.left * (cost.least - x) ELSE cost.right * (x - cost.least))
    + (IF x = cost.hump THEN 2 * Unit ELSE 0)

Within(x, y) == {z \in Points : (z - x) * (y - z) > 0}
\* y + GOLD * (y - x), where GOLD is between 1 and 2.
Golden(x, y) ==
  {z \in Points : (z - y) * (y - x) > 0 /\ Abs(z - y) \in Abs(y - x) .. 2 * Abs(y - x)}

Triple(a, b, c) == [a |-> a, b |-> b, c |-> c, fa |-> F(a), fb |-> F(b), fc |-> F(c)]

(* Bracket::Find(o, 0.0, 1.0), up to its loop: downhill from a to b.       *)
SectionInit ==
  /\ method = "section" /\ cost \in Valleys
  /\ LET a == IF F(Unit) > F(0) THEN Unit ELSE 0
         b == Unit - a
     IN  \E c \in Golden(a, b) : s = [at |-> "find", br |-> Triple(a, b, c)]

\* SHIFT4(a, b, c, u) and SHIFT4(fa, fb, fc, fu).
Shift(u) ==
  s' = [s EXCEPT !.br = [a |-> @.b, b |-> @.c, c |-> u,
                         fa |-> @.fb, fb |-> @.fc, fc |-> F(u)]]
Bracketed(br) == s' = [at |-> "bracketed", br |-> br]

(* A pass of Find's loop.  u is where the parabola through the three       *)
(* points has its vertex: anywhere, as these may lie.                      *)
FindPass ==
  LET br == s.br
      ulim == br.b + Glimit * (br.c - br.b)
      Inside(u) == (br.b - u) * (u - br.c) > 0
      Before(u) == (br.c - u) * (u - ulim) > 0
      Past(u) == (u - ulim) * (ulim - br.c) >= 0
  IN  /\ method = "section" /\ s.at = "find" /\ br.fb > br.fc
      /\ \E u \in Points :
           \/ Inside(u) /\ F(u) < br.fc
              /\ Bracketed([br EXCEPT !.a = br.b, !.b = u, !.fa = br.fb, !.fb = F(u)])
           \/ Inside(u) /\ F(u) > br.fb /\ Bracketed([br EXCEPT !.c = u, !.fc = F(u)])
           \/ Inside(u) /\ F(u) \in br.fc .. br.fb /\ \E v \in Golden(br.b, br.c) : Shift(v)
           \/ Before(u) /\ F(u) < br.fc
              /\ \E v \in Golden(br.c, u) : s' = [s EXCEPT !.br = Triple(br.c, u, v)]
           \/ Before(u) /\ F(u) >= br.fc /\ Shift(u)
           \/ Past(u) /\ ulim \in Points /\ Shift(ulim)
           \/ ~ (Inside(u) \/ Before(u) \/ Past(u)) /\ \E v \in Golden(br.b, br.c) : Shift(v)
      /\ UNCHANGED <<method, cost>>

Interior(x0, x1, x2, x3) ==
  [at |-> "section", br |-> s.br, x0 |-> x0, x1 |-> x1, x2 |-> x2, x3 |-> x3,
   f1 |-> F(x1), f2 |-> F(x2)]

(* Section::FindMin behind Find.  x1 and x2 come in the order of a and c:  *)
(* the ends of a bracket with a > c are exchanged, they are not.           *)
SectionStart ==
  LET br == s.br
      low == IF br.a > br.c THEN br.c ELSE br.a
      high == IF br.a > br.c THEN br.a ELSE br.c
  IN  /\ method = "section"
      /\ s.at = "bracketed" \/ (s.at = "find" /\ br.fb <= br.fc)
      /\ IF Abs(br.c - br.b) > Abs(br.b - br.a)
         THEN \E x2 \in Within(br.b, br.c) : s' = Interior(low, br.b, x2, high)
         ELSE \E x1 \in Within(br.a, br.b) : s' = Interior(low, x1, br.b, high)
      /\ UNCHANGED <<method, cost>>

SectionPass ==
  /\ method = "section" /\ s.at = "section"
  /\ \/ /\ s.f2 < s.f1
        /\ \E x \in Within(s.x2, s.x3) :
             s' = [s EXCEPT !.x0 = s.x1, !.x1 = s.x2, !.x2 = x, !.f1 = s.f2, !.f2 = F(x)]
     \/ /\ ~ (s.f2 < s.f1)
        /\ \E x \in Within(s.x0, s.x1) :
             s' = [s EXCEPT !.x3 = s.x2, !.x2 = s.x1, !.x1 = x, !.f2 = s.f1, !.f1 = F(x)]
  /\ UNCHANGED <<method, cost>>

(* How small eps is against the points is not modelled: any pass may be    *)
(* the last.                                                               *)
SectionEnd ==
  /\ method = "section" /\ s.at = "section"
  /\ s' = [at |-> "end", br |-> s.br, x0 |-> s.x0, x3 |-> s.x3,
           alpha |-> IF s.f1 < s.f2 THEN s.x1 ELSE s.x2]
  /\ UNCHANGED <<method, cost>>

-----------------------------------------------------------------------------
(* The cost of the other methods: x.Hx + l.x + t * x1^3.                   *)
Power(x, n) == LET p[i \in 0 .. n] == IF i = 0 THEN 1 ELSE p[i - 1] ** x IN p[n]
Times2(A, x) == Times(A, x, 2)
Dot2(x, y) == Dot(x, y, 2)
Function(x) == Dot2(x, Times2(cost.H, x)) ++ Dot2(cost.l, x) ++ (cost.t ** Power(x[1], 3))
Gradient(x) ==
  [i \in 1 .. 2 |-> ((2 ** Times2(cost.H, x)[i]) ++ cost.l[i])
                      ++ (IF i = 1 THEN (3 * cost.t) ** (x[1] ** x[1]) ELSE 0)]
D2(x, i) ==
  [j \in 1 .. 2 |-> (2 ** cost.H[i][j]) ++ (IF i = 1 /\ j = 1 THEN (6 * cost.t) ** x[1] ELSE 0)]

(* LineFunc: the cost at x0 + alpha * dir, for a line l of these two.      *)
Pos(l, alpha) == Plus(l.x0, Scaled(alpha, l.dir))
LineFunction(l, alpha) == Function(Pos(l, alpha))
LineGradient(l, alpha) == Dot2(Gradient(Pos(l, alpha)), l.dir)
LineD2(l, alpha) == Total([i \in 1 .. 2 |-> l.dir[i] ** Dot2(D2(Pos(l, alpha), i), l.dir)], 2)

\* The value and the slope at x of a[1] + a[2] * x + a[3] * x^2 + ...
Poly(a, x) == Total([i \in 1 .. Len(a) |-> a[i] ** Power(x, i - 1)], Len(a))
PolySlope(a, x) ==
  Total([i \in 1 .. Len(a) - 1 |-> (i * a[i + 1]) ** Power(x, i - 1)], Len(a) - 1)

(* Poly2 (where x1 is 0) and Parabolic: two values and a slope.            *)
Fit2(l, x1, x2) ==
  LET f1 == LineFunction(l, x1)
      f2 == LineFunction(l, x2)
      df1 == LineGradient(l, x1)
      Over(n) == (n % P) // ((x2 -- x1) ** (x2 -- x1))
  IN  <<Over(f2*x1*x1 - 2*f1*x1*x2 + df1*x1*x1*x2 + f1*x2*x2 - df1*x1*x2*x2),
        Over(2*f1*x1 - 2*f2*x1 - df1*x1*x1 + df1*x2*x2),
        Over(-f1 + f2 + df1*x1 - df1*x2)>>

(* Poly3 (where x1 is 0) and Cubic: two values and two slopes.             *)
Fit3(l, x1, x2) ==
  LET f1 == LineFunction(l, x1)
      f2 == LineFunction(l, x2)
      df1 == LineGradient(l, x1)
      df2 == LineGradient(l, x2)
      Over(n) == (n % P) // (0 -- ((x2 -- x1) ** ((x2 -- x1) ** (x2 -- x1))))
  IN  <<Over(f2*x1*x1*x1 - 3*f2*x1*x1*x2 - df2*x1*x1*x1*x2 + 3*f1*x1*x2*x2 - df1*x1*x1*x2*x2
               + df2*x1*x1*x2*x2 - f1*x2*x2*x2 + df1*x1*x2*x2*x2),
        Over(df2*x1*x1*x1 - 6*f1*x1*x2 + 6*f2*x1*x2 + 2*df1*x1*x1*x2 + df2*x1*x1*x2
               - df1*x1*x2*x2 - 2*df2*x1*x2*x2 - df1*x2*x2*x2),
        Over(3*f1*x1 - 3*f2*x1 - df1*x1*x1 - 2*df2*x1*x1 + 3*f1*x2 - 3*f2*x2 - df1*x1*x2
               + df2*x1*x2 + 2*df1*x2*x2 + df2*x2*x2),
        Over(-(2*f1 - 2*f2 - df1*x1 - df2*x1 + df1*x2 + df2*x2))>>

Roots(n) == {r \in Number : r ** r = n}
\* r1 and r2 of Cubic, of which it takes the one with the smaller value.
Turns(a) ==
  {(r -- a[3]) // ((3 * a[4]) % P) :
     r \in Roots((a[3] ** a[3]) -- ((3 * a[2]) ** a[4]))}

(* A line through a cost, and where the program moves and turns it.        *)
LineInit ==
  /\ method = "line" /\ cost \in Costs
  /\ s \in [x0 : Vectors, dir : Vectors]
ReOrient(ns) == s' = [s EXCEPT !.dir = ns]
RePosition(nx) == s' = [s EXCEPT !.x0 = nx]
LineMoved ==
  /\ method = "line"
  /\ \E v \in Vectors : ReOrient(v) \/ RePosition(v)
  /\ UNCHANGED <<method, cost>>

-----------------------------------------------------------------------------
(* Steep, which looks along a line with Parabolic.  x2, Parabolic's second *)
(* point, stays from one line to the next.  The cost is a quadratic one.   *)
Origin == [i \in 1 .. 2 |-> 0]
SteepInit ==
  /\ method = "steep" /\ cost \in {c \in Costs : c.t = 0}
  /\ \E pos, dir \in Vectors, x2 \in {1, 3} :
       s = [state |-> "running", pos |-> pos, x0 |-> pos, dir |-> dir, x2 |-> x2, alpha |-> 0]

\* Where the gradient is zero it is divided by its length, and all numbers are lost.
IterateAtMinimum ==
  /\ method = "steep" /\ s.state = "running" /\ Gradient(s.pos) = Origin
  /\ s' = [state |-> "lost"]
  /\ UNCHANGED <<method, cost>>

(* Parabolic::FindMin from 0: its first parabola is the quadratic itself,  *)
(* and the loop ends.  A division by zero there is left out.               *)
FindMin(l) ==
  LET a == Fit2(l, 0, l.x2)
  IN  IF a[3] = 0 THEN {} ELSE {(0 -- a[2]) // (2 ** a[3])}

Iterate ==
  LET g == Gradient(s.pos)
  IN  /\ method = "steep" /\ s.state = "running" /\ g # Origin
      /\ \E mag \in Roots(Dot2(g, g)) :
           LET line == [s EXCEPT !.dir = Scaled(Recip(0 -- mag), g)]
           IN  \E alpha \in FindMin(line) :
                 LET pos == Pos(line, alpha)
                 IN  s' = [line EXCEPT !.pos = pos, !.x0 = pos, !.alpha = alpha, !.x2 = alpha,
                             !.state = IF Gradient(pos) = Origin THEN "done" ELSE "running"]
      /\ UNCHANGED <<method, cost>>

OptimizeAgain ==
  /\ method = "steep" /\ s.state = "done"
  /\ s' = [s EXCEPT !.state = "running"]
  /\ UNCHANGED <<method, cost>>

OptInit == SectionInit \/ LineInit \/ SteepInit
OptNext ==
  \/ FindPass \/ SectionStart \/ SectionPass \/ SectionEnd
  \/ LineMoved
  \/ Iterate \/ IterateAtMinimum \/ OptimizeAgain

-----------------------------------------------------------------------------
(* Find ends with a bracket, whose values are those of its points, and the *)
(* golden section keeps its points in order and, in a valley without a     *)
(* hump, the least point between its ends: when the bracket is not one     *)
(* with a > c.                                                             *)
SectionKeepsTheLeast ==
  method = "section" =>
    LET br == s.br
        Ordered == s.at \in {"section", "end"} /\ br.a < br.c
    IN  /\ br = Triple(br.a, br.b, br.c)
        /\ br.b \in Within(br.a, br.c) /\ br.fb <= br.fa
        /\ s.at # "find" => br.fb <= br.fc
        /\ Ordered /\ cost.hump \notin Points => cost.least \in s.x0 .. s.x3
        /\ Ordered /\ s.at = "section" =>
             /\ s.x0 < s.x1 /\ s.x1 < s.x2 /\ s.x2 < s.x3
             /\ s.f1 = F(s.x1) /\ s.f2 = F(s.x2)
        /\ Ordered /\ s.at = "end" => s.alpha \in Within(s.x0, s.x3)

(* A parabola or a cubic has the values and slopes it was fitted to, those *)
(* of a cubic cost everywhere, and its turns are level.                    *)
PolynomialsFit ==
  method = "line" =>
    \A x1, x2 \in Number : x1 # x2 =>
      LET p == Fit2(s, x1, x2)
          q == Fit3(s, x1, x2)
      IN  /\ Poly(p, x1) = LineFunction(s, x1) /\ Poly(p, x2) = LineFunction(s, x2)
          /\ PolySlope(p, x1) = LineGradient(s, x1)
          /\ \A x \in Number : /\ Poly(q, x) = LineFunction(s, x)
                               /\ PolySlope(q, x) = LineGradient(s, x)
                               /\ (2 ** q[3]) ++ ((6 * q[4]) ** x) = LineD2(s, x)
          /\ q[4] # 0 => \A r \in Turns(q) : PolySlope(q, r) = 0

(* The line is searched from where the optimizer is, every search ends     *)
(* where the cost is level along its line, and "done" means everywhere.    *)
SteepDescends ==
  method = "steep" /\ s.state # "lost" =>
    /\ s.x0 = s.pos
    /\ s.alpha # 0 => Dot2(Gradient(s.pos), s.dir) = 0
    /\ s.state = "done" => Gradient(s.pos) = Origin

(* The searches find what they look for (Opt/StdOpt.c).                    *)
SearchesFind == SectionKeepsTheLeast /\ PolynomialsFit /\ SteepDescends
==============================================================================
