------------------------------ MODULE Coupling ------------------------------
(***************************************************************************)
(* MultiCoupler: several systems seen as one.  A StdDomainMap gives the    *)
(* equation of the whole for each equation of a system; values, residuals  *)
(* and products are taken from the systems and put there.                  *)
(***************************************************************************)
EXTENDS Field, SequencesExt

CONSTANTS NumSystems, LocalEqs, GlobalEqs,   \* sizes
          Matrices                           \* tangents a system may have

VARIABLES map,      \* StdDomainMap: map[system][local equation]
          tangent,  \* each system's tangent
          sol,      \* each system's solution
          whole     \* what was set last, by equation of the whole
couplingVars == <<map, tangent, sol, whole>>

Systems == 1 .. NumSystems
Locals == 1 .. LocalEqs
Globals == 1 .. GlobalEqs
Eq(i, e) == map[i][e]
\* Inverse: the systems' equations behind one of the whole, in order.
Bug_FirstOnly(n) ==
    LET refs == [k \in 1 .. NumSystems * LocalEqs |-> <<((k - 1) \div LocalEqs) + 1, ((k - 1) % LocalEqs) + 1>>]
        found == SelectSeq(refs, LAMBDA r : Eq(r[1], r[2]) = n)
    IN  IF found = <<>> THEN <<>> ELSE <<found[1]>>
InverseOf(n) ==
    LET refs == [k \in 1 .. NumSystems * LocalEqs |-> <<((k - 1) \div LocalEqs) + 1, ((k - 1) % LocalEqs) + 1>>]
    IN  SelectSeq(refs, LAMBDA r : Eq(r[1], r[2]) = n)
Get(n) == LET r == InverseOf(n)[1] IN sol[r[1]][r[2]]

\* Each system's answer for its part of v is assigned, not added, to the whole.
Spread(Answer(_)) ==
    LET Put(r, p) == [r EXCEPT ![Eq(p[1], p[2])] = Answer(p[1])[p[2]]]
        places == [k \in 1 .. NumSystems * LocalEqs |-> <<((k - 1) \div LocalEqs) + 1, ((k - 1) % LocalEqs) + 1>>]
    IN  FoldLeft(Put, [n \in Globals |-> 0], places)
PartOf(i, v) == [e \in Locals |-> v[Eq(i, e)]]
TanPostMult(v) == Spread(LAMBDA i : Times(tangent[i], PartOf(i, v), LocalEqs))
TanPreMult(v) == Spread(LAMBDA i : Times(Flip(tangent[i], LocalEqs), PartOf(i, v), LocalEqs))
Residual == Spread(LAMBDA i : Times(tangent[i], sol[i], LocalEqs))
\* The columns' numbers are replaced by those of the whole, and then mapped once more; an
\* equation that the map does not know gets no place (the code makes one, unset).
Tangent ==
    [r \in Globals |-> [c \in Globals |->
        Total([k \in 1 .. NumSystems * LocalEqs * LocalEqs |->
            LET i == ((k - 1) \div (LocalEqs * LocalEqs)) + 1
                j == (((k - 1) \div LocalEqs) % LocalEqs) + 1
                col == ((k - 1) % LocalEqs) + 1
            IN  IF Eq(i, j) = r /\ Eq(i, col) \in Locals /\ Eq(i, Eq(i, col)) = c
                THEN tangent[i][j][col] ELSE 0], NumSystems * LocalEqs * LocalEqs)]]
\* UniCoupler has one system; its TanPostMult calls TanPreMult.
UniTanPreMult(v) == Times(Flip(tangent[1], LocalEqs), v, LocalEqs)
UniTanPostMult(v) == UniTanPreMult(v)

CouplingInit ==
    /\ map \in [Systems -> {m \in [Locals -> Globals] : IsInjective(m)}]
    /\ tangent \in [Systems -> Matrices]
    /\ sol = [i \in Systems |-> [e \in Locals |-> 0]]
    /\ whole = [n \in Globals |-> 0]
\* Set: every equation behind n gets the value; that there is one is asserted.
Set(n, v) ==
    /\ InverseOf(n) # <<>>
    /\ sol' = [i \in Systems |-> [e \in Locals |-> IF Contains(InverseOf(n), <<i, e>>) THEN v ELSE sol[i][e]]]
    /\ whole' = [whole EXCEPT ![n] = v]
    /\ UNCHANGED <<map, tangent>>
CouplingNext == \E n \in Globals, v \in Number : Set(n, v)

----------------------------------------------------------------------------
Shared == \E i, j \in Systems, e, f \in Locals : <<i, e>> # <<j, f>> /\ Eq(i, e) = Eq(j, f)
\* The systems together, as the sum of their tangents at the equations of the whole.
Block(Of(_)) ==
    [r \in Globals |-> [c \in Globals |->
        Total([i \in Systems |->
            IF \E j, k \in Locals : Eq(i, j) = r /\ Eq(i, k) = c
            THEN Of(i)[CHOOSE j \in Locals : Eq(i, j) = r][CHOOSE k \in Locals : Eq(i, k) = c] ELSE 0], NumSystems)]]

\* A value set through the coupler is the one every system that shares the equation has,
\* and the one read back.  As long as no equation is shared, residual and products are
\* those of the systems put together; and a system whose map is the identity finds its
\* tangent in its place.  A single system's product is right from both sides only when its
\* tangent is symmetric.
SystemsActAsOne ==
    /\ \A n \in Globals : InverseOf(n) # <<>> => Get(n) = whole[n]
    /\ \A i \in Systems, e \in Locals : sol[i][e] = whole[Eq(i, e)]
    /\ ~Shared =>
        /\ Residual = Times(Block(LAMBDA i : tangent[i]), whole, GlobalEqs)
        /\ TanPostMult(whole) = Times(Block(LAMBDA i : tangent[i]), whole, GlobalEqs)
        /\ TanPreMult(whole) = Times(Block(LAMBDA i : Flip(tangent[i], LocalEqs)), whole, GlobalEqs)
        /\ (\A e \in Locals : Eq(1, e) = e) =>
              \A r, c \in Locals : Tangent[r][c] = tangent[1][r][c]
    /\ tangent[1] = Flip(tangent[1], LocalEqs) =>
        UniTanPostMult(sol[1]) = Times(tangent[1], sol[1], LocalEqs)

=============================================================================
