-------------------------- MODULE SemaphoreProofs ---------------------------
(* Proofs about the semaphore calls, for any finite number of processes.   *)
EXTENDS Semaphore, FiniteSetTheorems, TLAPS

(***************************************************************************)
(* What NoExtraUnit needs to be inductive: a process calls V only inside   *)
(* and P only outside, and the kernel gives back at exit at most the unit  *)
(* a process inside took, and none for a process outside.                  *)
(***************************************************************************)
CallsPaired ==
  \A p \in Proc :
    pc[p] # "idle" => /\ call[p] = "V" => p \in inside
                      /\ call[p] \in {"P", "try"} => p \notin inside

UndoOfInside ==
  \A p \in Proc : IF p \in inside THEN undo[p] \in 0 .. 1 ELSE undo[p] \in -1 .. 0

IInv == SemTypeOK /\ CallsPaired /\ UndoOfInside /\ NoExtraUnit

-----------------------------------------------------------------------------
(* How many are inside, when one process enters or leaves.                 *)
LEMMA InsideCount ==
  ASSUME inside \subseteq Proc, NEW p \in Proc
  PROVE  /\ Cardinality(inside) \in Nat
         /\ p \notin inside => Cardinality(inside \cup {p}) = Cardinality(inside) + 1
         /\ p \in inside => Cardinality(inside \ {p}) = Cardinality(inside) - 1
         /\ p \notin inside => inside \ {p} = inside
<1>1. IsFiniteSet(inside)
  BY SemaphoreAssumption, FS_Subset DEF SemaphoreAssumption
<1> QED
  BY <1>1, FS_CardinalityType, FS_AddElement, FS_RemoveElement

LEMMA InitCounted == SemInit => IInv
<1> SUFFICES ASSUME SemInit PROVE IInv
  OBVIOUS
<1> USE SemaphoreAssumption DEF SemaphoreAssumption, SemInit
<1>1. SemTypeOK
  <2>1. set \in 0 .. MaxSets /\ made \in 0 .. MaxSets /\ val \in Nat /\ resets \in Nat
    OBVIOUS
  <2>2. undo \in [Proc -> -1 .. 1] /\ sid \in [Proc -> 0 .. MaxSets]
    OBVIOUS
  <2>3. /\ pc \in [Proc -> {"idle", "lookup", "create", "setall", "semop"}]
        /\ call \in [Proc -> {"P", "try", "V", "rm"}]
    OBVIOUS
  <2>4. inside \subseteq Proc /\ orphan \in BOOLEAN
    OBVIOUS
  <2> QED
    BY <2>1, <2>2, <2>3, <2>4, Zenon DEF SemTypeOK
<1>2. CallsPaired /\ UndoOfInside
  BY DEF CallsPaired, UndoOfInside
<1>3. NoExtraUnit
  <2>1. Cardinality(inside) = 0
    BY FS_EmptySet
  <2> QED
    BY <2>1 DEF NoExtraUnit
<1> QED
  BY <1>1, <1>2, <1>3 DEF IInv

(* Calls, look-ups and failing calls: nobody enters, no unit is made.      *)
LEMMA QuietStepsCounted ==
  ASSUME NEW p \in Proc, IInv,
         \/ \E c \in {"P", "try", "V", "rm"} : Call(p, c)
         \/ Lookup(p) \/ Gone(p) \/ TryFails(p)
  PROVE  IInv'
<1> USE SemaphoreAssumption DEF SemaphoreAssumption, IInv, kernel
<1>1. inside' = inside /\ val' = val /\ undo' = undo /\ resets' = resets
  BY DEF Call, Lookup, Gone, TryFails
<1>2. SemTypeOK'
  BY DEF SemTypeOK, Call, Lookup, Gone, TryFails, Return
<1>3. CallsPaired'
  BY DEF SemTypeOK, CallsPaired, Call, Lookup, Gone, TryFails, Return
<1>4. UndoOfInside' /\ NoExtraUnit'
  BY <1>1 DEF UndoOfInside, NoExtraUnit
<1> QED
  BY <1>2, <1>3, <1>4

LEMMA CreateSetCounted == ASSUME NEW p \in Proc, IInv, CreateSet(p) PROVE IInv'
<1> USE SemaphoreAssumption DEF SemaphoreAssumption, IInv, CreateSet, kernel
<1>1. SemTypeOK'
  <2>1. set' \in 0 .. MaxSets /\ made' \in 0 .. MaxSets /\ val' \in Nat
    BY DEF SemTypeOK
  <2>3. orphan' \in BOOLEAN
    BY Zenon DEF SemTypeOK
  <2>2. undo' \in [Proc -> -1 .. 1]
    BY DEF SemTypeOK
  <2> QED
    BY <2>1, <2>2, <2>3 DEF SemTypeOK
<1>2. CallsPaired'
  BY DEF SemTypeOK, CallsPaired
<1>3. UndoOfInside'
  BY DEF SemTypeOK, UndoOfInside
<1>4. NoExtraUnit'
  <2>1. inside' = inside /\ Cardinality(inside) \in Nat
    BY InsideCount DEF SemTypeOK
  <2> QED
    BY <2>1 DEF SemTypeOK, NoExtraUnit
<1> QED
  BY <1>1, <1>2, <1>3, <1>4

LEMMA SetAllCounted == ASSUME NEW p \in Proc, IInv, SetAll(p) PROVE IInv'
<1> USE SemaphoreAssumption DEF SemaphoreAssumption, IInv, SetAll
<1>1. SemTypeOK'
  BY DEF SemTypeOK
<1>2. CallsPaired' /\ UndoOfInside'
  BY DEF SemTypeOK, CallsPaired, UndoOfInside
<1>3. NoExtraUnit'
  <2>1. inside' = inside /\ Cardinality(inside) \in Nat
    BY InsideCount DEF SemTypeOK
  <2> QED
    BY <2>1 DEF SemTypeOK, NoExtraUnit
<1> QED
  BY <1>1, <1>2, <1>3

LEMMA TakeCounted == ASSUME NEW p \in Proc, IInv, Take(p) PROVE IInv'
<1> USE SemaphoreAssumption DEF SemaphoreAssumption, IInv, Take, Obtains, AtSemop, Return
<1>1. p \notin inside /\ undo[p] \in -1 .. 0
  BY DEF CallsPaired, UndoOfInside
<1>2. SemTypeOK'
  BY <1>1 DEF SemTypeOK
<1>3. CallsPaired' /\ UndoOfInside'
  BY <1>1 DEF SemTypeOK, CallsPaired, UndoOfInside
<1>4. NoExtraUnit'
  BY <1>1, InsideCount DEF SemTypeOK, NoExtraUnit
<1> QED
  BY <1>2, <1>3, <1>4

LEMMA GiveCounted == ASSUME NEW p \in Proc, IInv, Give(p) PROVE IInv'
<1> USE SemaphoreAssumption DEF SemaphoreAssumption, IInv, Give, AtSemop, Return, UndoOfV
<1>1. p \in inside /\ undo[p] \in 0 .. 1
  BY DEF CallsPaired, UndoOfInside
<1>2. SemTypeOK'
  BY <1>1 DEF SemTypeOK
<1>3. CallsPaired' /\ UndoOfInside'
  BY <1>1 DEF SemTypeOK, CallsPaired, UndoOfInside
<1>4. NoExtraUnit'
  BY <1>1, InsideCount DEF SemTypeOK, NoExtraUnit
<1> QED
  BY <1>2, <1>3, <1>4

LEMMA RemoveCounted == ASSUME NEW p \in Proc, IInv, Remove(p) PROVE IInv'
<1> USE SemaphoreAssumption DEF SemaphoreAssumption, IInv, Remove, AtSemop, Return
<1>1. SemTypeOK'
  <2>1. set' = 0 /\ val' = 0 /\ 0 \in 0 .. MaxSets
    BY DEF SemTypeOK
  <2>3. orphan' \in BOOLEAN
    BY Zenon
  <2>2. undo' \in [Proc -> -1 .. 1]
    OBVIOUS
  <2> QED
    BY <2>1, <2>2, <2>3 DEF SemTypeOK
<1>2. CallsPaired' /\ UndoOfInside'
  BY DEF SemTypeOK, CallsPaired, UndoOfInside
<1>3. NoExtraUnit'
  <2>1. inside' = inside /\ Cardinality(inside) \in Nat
    BY InsideCount DEF SemTypeOK
  <2> QED
    BY <2>1 DEF SemTypeOK, NoExtraUnit
<1> QED
  BY <1>1, <1>2, <1>3

LEMMA ExitCounted == ASSUME NEW p \in Proc, IInv, Exit(p) PROVE IInv'
<1> USE SemaphoreAssumption DEF SemaphoreAssumption, IInv, Exit, AfterUndo
<1>1. IF p \in inside THEN undo[p] \in 0 .. 1 ELSE undo[p] \in -1 .. 0
  BY DEF UndoOfInside
<1>2. val' \in Nat /\ (p \in inside => val' <= val + 1) /\ (p \notin inside => val' <= val)
  BY <1>1 DEF SemTypeOK
<1>3. SemTypeOK'
  BY <1>2 DEF SemTypeOK
<1>4. CallsPaired' /\ UndoOfInside'
  BY DEF SemTypeOK, CallsPaired, UndoOfInside
<1>5. NoExtraUnit'
  <2>1. /\ Cardinality(inside) \in Nat
        /\ p \in inside => Cardinality(inside') = Cardinality(inside) - 1
        /\ p \notin inside => Cardinality(inside') = Cardinality(inside)
    BY InsideCount DEF SemTypeOK
  <2> QED
    BY <1>2, <2>1 DEF SemTypeOK, NoExtraUnit
<1> QED
  BY <1>3, <1>4, <1>5

-----------------------------------------------------------------------------
(* The inductive invariant holds in every reachable state.                 *)
THEOREM Invariance == SemSpec => []IInv
<1>1. IInv /\ [SemNext]_semVars => IInv'
  <2> SUFFICES ASSUME IInv, [SemNext]_semVars PROVE IInv'
    OBVIOUS
  <2>1. CASE UNCHANGED semVars
    BY <2>1 DEF semVars, IInv, SemTypeOK, CallsPaired, UndoOfInside, NoExtraUnit
  <2>2. ASSUME NEW p \in Proc, \E c \in {"P", "try", "V", "rm"} : Call(p, c) PROVE IInv'
    BY <2>2, QuietStepsCounted
  <2>3. ASSUME NEW p \in Proc, Step(p) PROVE IInv'
    BY <2>3, QuietStepsCounted, CreateSetCounted, SetAllCounted, TakeCounted, GiveCounted,
       RemoveCounted DEF Step
  <2>4. ASSUME NEW p \in Proc, Exit(p) PROVE IInv'
    BY <2>4, ExitCounted
  <2> QED
    BY <2>1, <2>2, <2>3, <2>4 DEF SemNext
<1> QED
  BY InitCounted, <1>1, PTL DEF SemSpec

(* Every variable has its type, whatever the processes do.                 *)
THEOREM TypeCorrect == SemSpec => []SemTypeOK
BY Invariance, PTL DEF IInv

(* No more processes are inside than the semaphore was set to 1 times, for *)
(* any number of processes and of semaphores created.                      *)
THEOREM UnitsAreCounted == SemSpec => []NoExtraUnit
BY Invariance, PTL DEF IInv

-----------------------------------------------------------------------------
(***************************************************************************)
(* What NotStranded needs to be inductive.  Take and Give move a unit      *)
(* between the value and the undo count of the caller, exit moves it back: *)
(* from SETALL on, the value and the counts add up to one unit at least.   *)
(* Nobody but a process inside has a unit to give back.                    *)
(***************************************************************************)
Owed == { p \in Proc : undo[p] = 1 }
Owing == { p \in Proc : undo[p] = -1 }

UnitThere == val + Cardinality(Owed) >= 1 + Cardinality(Owing)

UnsetOrThere ==
  set # 0 => orphan \/ (\E p \in Proc : pc[p] = "setall" /\ sid[p] = set) \/ UnitThere

(* How many processes owe, or are owed, when one count changes.            *)
LEMMA CountsMove ==
  ASSUME NEW p \in Proc, NEW S \in SUBSET Proc
  PROVE  /\ Cardinality(S) \in Nat
         /\ p \notin S => Cardinality(S \cup {p}) = Cardinality(S) + 1
         /\ p \in S => Cardinality(S \ {p}) = Cardinality(S) - 1
<1>1. IsFiniteSet(S)
  BY SemaphoreAssumption, FS_Subset DEF SemaphoreAssumption
<1> QED
  BY <1>1, FS_CardinalityType, FS_AddElement, FS_RemoveElement

LEMMA UnitMoves ==
  ASSUME SemTypeOK, SemTypeOK', UnitThere, NEW p \in Proc, NEW k \in -1 .. 1,
         undo' = [undo EXCEPT ![p] = k],
         val' >= val + undo[p] - k
  PROVE  UnitThere'
<1> DEFINE A == Owed
           B == Owing
<1>1. A \in SUBSET Proc /\ B \in SUBSET Proc /\ undo[p] \in -1 .. 1 /\ val \in Nat /\ val' \in Nat
  BY DEF Owed, Owing, SemTypeOK
<1>2. /\ Owed' = IF k = 1 THEN A \cup {p} ELSE A \ {p}
      /\ Owing' = IF k = -1 THEN B \cup {p} ELSE B \ {p}
      /\ p \in A <=> undo[p] = 1
      /\ p \in B <=> undo[p] = -1
  BY DEF Owed, Owing, SemTypeOK
<1>3. Cardinality(A) \in Nat /\ Cardinality(B) \in Nat
  BY <1>1, CountsMove
<1> HIDE DEF A, B
<1>4. Cardinality(Owed') = Cardinality(A) + (IF k = 1 THEN 1 ELSE 0)
                             - (IF undo[p] = 1 THEN 1 ELSE 0)
  <2>1. CASE k = 1 /\ undo[p] = 1
    <3>1. A \cup {p} = A /\ Owed' = A \cup {p}
      BY <1>2, <2>1
    <3>2. Owed' = A
      BY <3>1
    <3> QED
      BY <1>3, <2>1, <3>2
  <2>2. CASE k = 1 /\ undo[p] # 1
    BY <1>1, <1>2, <1>3, <2>2, CountsMove
  <2>3. CASE k # 1 /\ undo[p] = 1
    BY <1>1, <1>2, <1>3, <2>3, CountsMove
  <2>4. CASE k # 1 /\ undo[p] # 1
    <3>1. A \ {p} = A /\ Owed' = A \ {p}
      BY <1>2, <2>4
    <3>2. Owed' = A
      BY <3>1
    <3> QED
      BY <1>3, <2>4, <3>2
  <2> QED
    BY <2>1, <2>2, <2>3, <2>4
<1>5. Cardinality(Owing') = Cardinality(B) + (IF k = -1 THEN 1 ELSE 0)
                              - (IF undo[p] = -1 THEN 1 ELSE 0)
  <2>1. CASE k = -1 /\ undo[p] = -1
    <3>1. B \cup {p} = B /\ Owing' = B \cup {p}
      BY <1>2, <2>1
    <3>2. Owing' = B
      BY <3>1
    <3> QED
      BY <1>3, <2>1, <3>2
  <2>2. CASE k = -1 /\ undo[p] # -1
    BY <1>1, <1>2, <1>3, <2>2, CountsMove
  <2>3. CASE k # -1 /\ undo[p] = -1
    BY <1>1, <1>2, <1>3, <2>3, CountsMove
  <2>4. CASE k # -1 /\ undo[p] # -1
    <3>1. B \ {p} = B /\ Owing' = B \ {p}
      BY <1>2, <2>4
    <3>2. Owing' = B
      BY <3>1
    <3> QED
      BY <1>3, <2>4, <3>2
  <2> QED
    BY <2>1, <2>2, <2>3, <2>4
<1>6. val + Cardinality(A) >= 1 + Cardinality(B)
  BY DEF UnitThere, A, B
<1> QED
  BY <1>1, <1>3, <1>4, <1>5, <1>6 DEF UnitThere

(* The one unit SETALL makes, of which nobody owes any.                    *)
LEMMA SetAllMakesUnit ==
  ASSUME val' = 1, undo' = [q \in Proc |-> 0]
  PROVE  UnitThere'
<1>1. Owed' = {} /\ Owing' = {}
  BY DEF Owed, Owing
<1>2. Cardinality({}) = 0
  BY FS_EmptySet
<1> QED
  BY <1>1, <1>2 DEF UnitThere

(* A step that leaves the set and its unit alone, and takes no process     *)
(* from its SETALL.                                                        *)
LEMMA UnsetStaysSo ==
  ASSUME UnsetOrThere, set' = set, orphan => orphan',
         \A p \in Proc : pc[p] = "setall" /\ sid[p] = set =>
           orphan' \/ (pc'[p] = "setall" /\ sid'[p] = set),
         UnitThere => UnitThere'
  PROVE  UnsetOrThere'
BY DEF UnsetOrThere

LEMMA StepKeepsUnit ==
  ASSUME IInv, IInv', UnsetOrThere, NEW p \in Proc,
         Step(p) \/ Exit(p) \/ \E c \in {"P", "try", "V", "rm"} : Call(p, c)
  PROVE  UnsetOrThere'
<1>1. SemTypeOK /\ SemTypeOK' /\ undo[p] \in -1 .. 1 /\ val \in Nat
  BY DEF IInv, SemTypeOK
<1>2. CASE (\E c \in {"P", "try", "V", "rm"} : Call(p, c)) \/ Lookup(p) \/ Gone(p) \/ TryFails(p)
  <2>1. UNCHANGED <<set, val, undo, orphan>>
    BY <1>2 DEF Call, Lookup, Gone, TryFails, kernel
  <2>2. \A q \in Proc : pc[q] = "setall" /\ sid[q] = set => pc'[q] = "setall" /\ sid'[q] = set
    BY <1>1, <1>2 DEF Call, Lookup, Gone, TryFails, Return, AtSemop, SemTypeOK
  <2>3. UnitThere => UnitThere'
    BY <2>1 DEF UnitThere, Owed, Owing
  <2> QED
    BY <2>1, <2>2, <2>3, UnsetStaysSo
<1>3. CASE CreateSet(p)
  <2>1. pc'[p] = "setall" /\ sid'[p] = set'
    BY <1>1, <1>3 DEF CreateSet, SemTypeOK
  <2> QED
    BY <2>1 DEF UnsetOrThere
<1>4. CASE SetAll(p)
  BY <1>4, SetAllMakesUnit DEF SetAll, UnsetOrThere
<1>5. CASE Remove(p)
  BY <1>5 DEF Remove, UnsetOrThere
<1>6. CASE Take(p)
  <2>1. undo[p] + 1 \in -1 .. 1
    BY <1>1, <1>6 DEF Take, SemTypeOK
  <2>2. PICK k \in -1 .. 1 : k = undo[p] + 1
    BY <2>1
  <2>3. undo' = [undo EXCEPT ![p] = k] /\ val' >= val + undo[p] - k
    BY <1>1, <1>6, <2>2 DEF Take
  <2>4. UnitThere => UnitThere'
    BY <1>1, <2>3, UnitMoves
  <2> QED
    BY <1>1, <1>6, <2>4, UnsetStaysSo DEF Take, Obtains, AtSemop, Return, SemTypeOK
<1>7. CASE Give(p)
  <2>1. undo[p] - 1 \in -1 .. 1
    BY <1>1, <1>7 DEF Give, UndoOfV, SemTypeOK
  <2>2. PICK k \in -1 .. 1 : k = undo[p] - 1
    BY <2>1
  <2>3. undo' = [undo EXCEPT ![p] = k] /\ val' >= val + undo[p] - k
    BY <1>1, <1>7, <2>2 DEF Give, UndoOfV
  <2>4. UnitThere => UnitThere'
    BY <1>1, <2>3, UnitMoves
  <2> QED
    BY <1>1, <1>7, <2>4, UnsetStaysSo DEF Give, AtSemop, Return, SemTypeOK
<1>8. CASE Exit(p)
  <2>1. PICK k \in -1 .. 1 : undo' = [undo EXCEPT ![p] = k] /\ val' >= val + undo[p] - k
    BY <1>1, <1>8 DEF Exit, AfterUndo
  <2>2. UnitThere => UnitThere'
    BY <1>1, <2>1, UnitMoves
  <2>3. \A q \in Proc : pc[q] = "setall" /\ sid[q] = set =>
          orphan' \/ (pc'[q] = "setall" /\ sid'[q] = set)
    BY <1>1, <1>8 DEF Exit, SemTypeOK
  <2> QED
    BY <1>8, <2>2, <2>3, UnsetStaysSo DEF Exit
<1> QED
  BY <1>2, <1>3, <1>4, <1>5, <1>6, <1>7, <1>8 DEF Step

(* A semaphore without a unit and nobody inside is one that was created    *)
(* and not yet set, for any number of processes, whoever exits when.       *)
THEOREM NobodyIsStranded == SemSpec => []NotStranded
<1>1. SemInit => UnsetOrThere
  BY DEF SemInit, UnsetOrThere
<1>2. IInv /\ IInv' /\ UnsetOrThere /\ [SemNext]_semVars => UnsetOrThere'
  <2> SUFFICES ASSUME IInv, IInv', UnsetOrThere, [SemNext]_semVars PROVE UnsetOrThere'
    OBVIOUS
  <2>1. CASE UNCHANGED semVars
    BY <2>1 DEF semVars, UnsetOrThere, UnitThere, Owed, Owing
  <2>2. CASE SemNext
    BY <2>2, StepKeepsUnit DEF SemNext
  <2> QED
    BY <2>1, <2>2
<1>3. IInv /\ UnsetOrThere => NotStranded
  <2> SUFFICES ASSUME IInv, UnsetOrThere, set # 0, val = 0, inside = {}, UnitThere PROVE FALSE
    BY DEF UnsetOrThere, NotStranded
  <2>1. Owed = {}
    BY DEF Owed, IInv, UndoOfInside
  <2>2. Cardinality(Owed) = 0
    BY <2>1, FS_EmptySet
  <2>3. IsFiniteSet(Owing)
    BY SemaphoreAssumption, FS_Subset, Owing \subseteq Proc DEF SemaphoreAssumption, Owing
  <2> QED
    BY <2>2, <2>3, FS_CardinalityType DEF UnitThere
<1> QED
  BY Invariance, <1>1, <1>2, <1>3, PTL DEF SemSpec
=============================================================================
