--------------------------- MODULE LibrariesProofs ---------------------------
(***************************************************************************)
(* Two of the libraries, for every value of their constants.               *)
(*                                                                         *)
(* dll.c: that its nodes, links and counters are the sequence of           *)
(* CursorList, with the cursor as the code moves it, for every number of   *)
(* nodes malloc'd at a time and every malloc that fails.  The inductive    *)
(* invariant names the two sequences of nodes, the list's and the vacant   *)
(* ones, that the links stand for.                                         *)
(*                                                                         *)
(* GC.c and GCPtr.h: that reference counts are right in both collectors,   *)
(* for any number of GCPtrs, any size of pool and any number of blocks.    *)
(* The argument follows the two halves of GCPtr's operator=: unref leaves  *)
(* the state as it is with the pointer out of scope, ref as it is with the *)
(* pointer on the object, and every action is one of the halves or both.   *)
(***************************************************************************)
EXTENDS DoublyLinked, Collector, WellFoundedInduction, FiniteSetTheorems, TLAPS

-----------------------------------------------------------------------------
(* Sequences as the walks have them.                                       *)

FirstOf(s) == IF s = <<>> THEN NULL ELSE s[1]
LastOf(s) == IF s = <<>> THEN NULL ELSE s[Len(s)]

(* s without repetitions, of the nodes 1 .. N.                             *)
Path(N, s) ==
  /\ s \in Seq(Nat)
  /\ \A i \in 1 .. Len(s) : s[i] \in 1 .. N
  /\ \A i, j \in 1 .. Len(s) : s[i] = s[j] => i = j

Has(s, p) == \E i \in 1 .. Len(s) : s[i] = p

(* Each of N nodes is once in l or in v.                                   *)
Parted(N, l, v) ==
  /\ Path(N, l) /\ Path(N, v)
  /\ \A i \in 1 .. Len(l), j \in 1 .. Len(v) : l[i] # v[j]
  /\ \A p \in 1 .. N : Has(l, p) \/ Has(v, p)
  /\ Len(l) + Len(v) = N

(* x put in at place i; the item at i left out.                            *)
PutIn(s, i, x) ==
  [k \in 1 .. Len(s) + 1 |-> IF k < i THEN s[k] ELSE IF k = i THEN x ELSE s[k - 1]]
LeftOut(s, i) == [k \in 1 .. Len(s) - 1 |-> IF k < i THEN s[k] ELSE s[k + 1]]

ByNext(n, s) ==
  \A i \in 1 .. Len(s) : n[s[i]].next = IF i = Len(s) THEN NULL ELSE s[i + 1]
ByPrior(n, s) ==
  \A i \in 1 .. Len(s) : n[s[i]].prior = IF i = 1 THEN NULL ELSE s[i - 1]

Record == [prior : Nat, next : Nat, data : Data \cup {NULL}]

NodesOK(n) ==
  /\ n \in Seq(Record)
  /\ \A p \in 1 .. Len(n) : n[p].prior <= Len(n) /\ n[p].next <= Len(n)

(* The nodes n hold the list l and the vacant nodes v.                     *)
Holding(n, l, v) ==
  /\ NodesOK(n) /\ Parted(Len(n), l, v)
  /\ ByNext(n, l) /\ ByPrior(n, l) /\ ByNext(n, v)

(* And so do the heads and the counters; the active node is the c-th.      *)
Standing(l, v, c) ==
  /\ Holding(node, l, v)
  /\ DLL_head = FirstOf(l) /\ DLL_tail = LastOf(l) /\ DLL_count = Len(l)
  /\ DLL_first_vacant = FirstOf(v) /\ DLL_avail = Len(v)
  /\ IF l = <<>> THEN c = 0 /\ DLL_active_ptr = NULL
                 ELSE c \in 1 .. Len(l) /\ DLL_active_ptr = l[c]
  /\ v = <<>> /\ l # <<>> => refused

Bounded == Len(node) <= MaxNodes /\ refused \in BOOLEAN

IInv ==
  /\ \E l, v \in Seq(Nat), c \in Nat : Standing(l, v, c)
  /\ Bounded
  /\ state \in {"running", "died in DLL_Delete", "died in DLL_Prev"}
  /\ DiesOnlyOutOfMemory

-----------------------------------------------------------------------------
(* Sequences.                                                              *)

LEMMA PutInIs ==
  ASSUME NEW s \in Seq(Nat), NEW i \in 1 .. Len(s) + 1, NEW x \in Nat
  PROVE  /\ PutIn(s, i, x) \in Seq(Nat) /\ Len(PutIn(s, i, x)) = Len(s) + 1
         /\ PutIn(s, i, x)[i] = x
         /\ \A k \in 1 .. Len(s) : k < i => PutIn(s, i, x)[k] = s[k]
         /\ \A k \in 1 .. Len(s) : k >= i => PutIn(s, i, x)[k + 1] = s[k]
BY DEF PutIn

LEMMA LeftOutIs ==
  ASSUME NEW s \in Seq(Nat), NEW i \in 1 .. Len(s)
  PROVE  /\ LeftOut(s, i) \in Seq(Nat) /\ Len(LeftOut(s, i)) = Len(s) - 1
         /\ \A k \in 1 .. Len(s) - 1 : LeftOut(s, i)[k] = IF k < i THEN s[k] ELSE s[k + 1]
BY DEF LeftOut

LEMMA ByItems ==
  ASSUME NEW S, NEW s \in Seq(S), NEW t \in Seq(S), Len(s) = Len(t),
         \A k \in 1 .. Len(s) : s[k] = t[k]
  PROVE  s = t
OBVIOUS

(* As CursorList says it.                                                  *)
LEMMA PutInSpliced ==
  ASSUME NEW S, NEW s \in Seq(S), NEW i \in 1 .. Len(s), NEW x \in S
  PROVE  SubSeq(s, 1, i - 1) \o <<x>> \o SubSeq(s, i, Len(s)) = PutIn(s, i, x)
BY DEF PutIn

LEMMA LeftOutSpliced ==
  ASSUME NEW S, NEW s \in Seq(S), NEW i \in 1 .. Len(s)
  PROVE  SubSeq(s, 1, i - 1) \o SubSeq(s, i + 1, Len(s)) = LeftOut(s, i)
<1> DEFINE a == SubSeq(s, 1, i - 1)
           b == SubSeq(s, i + 1, Len(s))
<1>1. a \in Seq(S) /\ Len(a) = i - 1 /\ \A k \in 1 .. i - 1 : a[k] = s[k]
  OBVIOUS
<1>2. b \in Seq(S) /\ Len(b) = Len(s) - i /\ \A k \in 1 .. Len(s) - i : b[k] = s[i + k]
  OBVIOUS
<1> HIDE DEF a, b
<1>9. a \in Seq(S) /\ b \in Seq(S)
  BY <1>1, <1>2
<1>3. /\ a \o b \in Seq(S) /\ Len(a \o b) = Len(a) + Len(b)
      /\ \A k \in 1 .. Len(a) : (a \o b)[k] = a[k]
      /\ \A k \in 1 .. Len(b) : (a \o b)[Len(a) + k] = b[k]
  BY <1>9
<1>4. LeftOut(s, i) \in Seq(S) /\ Len(LeftOut(s, i)) = Len(s) - 1
  BY DEF LeftOut
<1>5. Len(s) \in Nat /\ i \in Int
  OBVIOUS
<1>6. Len(a \o b) = Len(s) - 1
  BY <1>1, <1>2, <1>3, <1>5
<1>7. ASSUME NEW k \in 1 .. Len(s) - 1
      PROVE  (a \o b)[k] = LeftOut(s, i)[k]
  <2>1. CASE k < i
    <3>1. k \in 1 .. i - 1 /\ k \in 1 .. Len(a)
      BY <1>1, <1>5, <2>1
    <3> QED BY <1>1, <1>3, <2>1, <3>1 DEF LeftOut
  <2>2. CASE ~ (k < i)
    <3> DEFINE j == k - i + 1
    <3>1. /\ j \in 1 .. Len(s) - i /\ j \in 1 .. Len(b)
          /\ Len(a) + j = k /\ i + j = k + 1
      BY <1>1, <1>2, <1>5, <2>2
    <3> HIDE DEF j
    <3>2. (a \o b)[Len(a) + j] = b[j] /\ b[j] = s[i + j]
      BY <1>2, <1>3, <3>1
    <3> QED BY <2>2, <3>1, <3>2 DEF LeftOut
  <2> QED BY <2>1, <2>2
<1>8. a \o b = LeftOut(s, i)
  BY <1>3, <1>4, <1>6, <1>7, ByItems
<1> QED BY <1>8 DEF a, b

-----------------------------------------------------------------------------
(* What the four changes of the nodes do to the two sequences.             *)

Fresh(n) == [i \in 1 .. DLLCACHE |-> Len(n) + i]

LEMMA FreshIs ==
  ASSUME NEW n, Len(n) \in Nat
  PROVE  /\ Fresh(n) \in Seq(Nat) /\ Len(Fresh(n)) = DLLCACHE /\ Fresh(n) # <<>>
         /\ \A i \in 1 .. DLLCACHE : Fresh(n)[i] = Len(n) + i
BY DllAssumption DEF Fresh

LEMMA AttachedIs ==
  ASSUME NEW n \in Seq(Record)
  PROVE  /\ Attached(n) \in Seq(Record) /\ Len(Attached(n)) = Len(n) + DLLCACHE
         /\ \A p \in 1 .. Len(n) : Attached(n)[p] = n[p]
         /\ \A i \in 1 .. DLLCACHE :
              /\ Attached(n)[Len(n) + i].prior = IF i = 1 THEN NULL ELSE Len(n) + i - 1
              /\ Attached(n)[Len(n) + i].next = IF i = DLLCACHE THEN NULL ELSE Len(n) + i + 1
<1> DEFINE rec(i) == [data |-> NULL,
                      prior |-> IF i = 1 THEN NULL ELSE Len(n) + i - 1,
                      next |-> IF i = DLLCACHE THEN NULL ELSE Len(n) + i + 1]
           new == [i \in 1 .. DLLCACHE |-> rec(i)]
<1>1. \A i \in 1 .. DLLCACHE :
        /\ rec(i) \in Record
        /\ rec(i).prior = IF i = 1 THEN NULL ELSE Len(n) + i - 1
        /\ rec(i).next = IF i = DLLCACHE THEN NULL ELSE Len(n) + i + 1
  BY DllAssumption DEF Record, NULL
<1> HIDE DEF rec
<1>2. new \in Seq(Record) /\ Len(new) = DLLCACHE /\ \A i \in 1 .. DLLCACHE : new[i] = rec(i)
  BY <1>1, DllAssumption
<1>3. Attached(n) = n \o new
  BY DEF Attached, rec
<1> HIDE DEF new
<1>4. /\ n \o new \in Seq(Record) /\ Len(n \o new) = Len(n) + Len(new)
      /\ \A k \in 1 .. Len(n) : (n \o new)[k] = n[k]
      /\ \A k \in 1 .. Len(new) : (n \o new)[Len(n) + k] = new[k]
  BY <1>2
<1>5. \A i \in 1 .. DLLCACHE : (n \o new)[Len(n) + i] = rec(i)
  BY <1>2, <1>4
<1> QED BY <1>1, <1>2, <1>3, <1>4, <1>5

(* Sequences of nodes that a change of other nodes leaves alone.           *)
LEMMA PathKept ==
  ASSUME NEW M \in Nat, NEW N \in Nat, NEW s, Path(M, s), M <= N
  PROVE  Path(N, s)
BY DEF Path

LEMMA NextKept ==
  ASSUME NEW n, NEW m, NEW s, ByNext(n, s), \A i \in 1 .. Len(s) : m[s[i]].next = n[s[i]].next
  PROVE  ByNext(m, s)
BY DEF ByNext

LEMMA PriorKept ==
  ASSUME NEW n, NEW m, NEW s, ByPrior(n, s), \A i \in 1 .. Len(s) : m[s[i]].prior = n[s[i]].prior
  PROVE  ByPrior(m, s)
BY DEF ByPrior

LEMMA AttachedHolding ==
  ASSUME NEW n, NEW l, Holding(n, l, <<>>)
  PROVE  /\ Holding(Attached(n), l, Fresh(n))
         /\ Len(Attached(n)) = Len(n) + DLLCACHE
         /\ \A i \in 1 .. Len(l) : Attached(n)[l[i]].data = n[l[i]].data
<1> DEFINE m == Attached(n)
           f == Fresh(n)
<1> USE DllAssumption DEF NULL
<1>1. /\ n \in Seq(Record) /\ Len(n) \in Nat /\ l \in Seq(Nat)
      /\ \A p \in 1 .. Len(n) : n[p].prior <= Len(n) /\ n[p].next <= Len(n)
      /\ \A i \in 1 .. Len(l) : l[i] \in 1 .. Len(n)
      /\ Len(l) = Len(n)
      /\ \A p \in 1 .. Len(n) : Has(l, p)
  BY DEF Holding, Parted, NodesOK, Path, Has
<1>2. /\ m \in Seq(Record) /\ Len(m) = Len(n) + DLLCACHE
      /\ \A p \in 1 .. Len(n) : m[p] = n[p]
      /\ \A i \in 1 .. DLLCACHE :
           /\ m[Len(n) + i].prior = IF i = 1 THEN NULL ELSE Len(n) + i - 1
           /\ m[Len(n) + i].next = IF i = DLLCACHE THEN NULL ELSE Len(n) + i + 1
  BY <1>1, AttachedIs
<1>3. f \in Seq(Nat) /\ Len(f) = DLLCACHE /\ \A i \in 1 .. DLLCACHE : f[i] = Len(n) + i
  BY <1>1, FreshIs
<1> HIDE DEF m, f
<1>4. Len(m) \in Nat /\ Len(m) > Len(n)
  BY <1>1, <1>2
<1>13. ASSUME NEW p \in 1 .. Len(m), p \notin 1 .. Len(n)
       PROVE  /\ p - Len(n) \in 1 .. DLLCACHE /\ p = Len(n) + (p - Len(n))
              /\ \E i \in 1 .. DLLCACHE : p = Len(n) + i
  <2>1. p - Len(n) \in 1 .. DLLCACHE /\ p = Len(n) + (p - Len(n))
    BY <1>1, <1>2, <1>4, <1>13
  <2> QED BY <2>1
<1>5. NodesOK(m)
  <2>1. ASSUME NEW p \in 1 .. Len(n)
        PROVE  m[p].prior <= Len(m) /\ m[p].next <= Len(m)
    <3>1. n[p] \in Record /\ m[p] = n[p]
      BY <1>1, <1>2
    <3>2. n[p].prior \in Nat /\ n[p].next \in Nat
      BY <3>1 DEF Record
    <3> QED BY <1>1, <1>4, <3>1, <3>2
  <2>2. ASSUME NEW i \in 1 .. DLLCACHE
        PROVE  m[Len(n) + i].prior <= Len(m) /\ m[Len(n) + i].next <= Len(m)
    <3>1. /\ m[Len(n) + i].prior = IF i = 1 THEN NULL ELSE Len(n) + i - 1
          /\ m[Len(n) + i].next = IF i = DLLCACHE THEN NULL ELSE Len(n) + i + 1
      BY <1>2
    <3>2. i \in Nat /\ i <= DLLCACHE
      OBVIOUS
    <3>3. m[Len(n) + i].prior <= Len(m)
      BY <1>1, <1>2, <3>1, <3>2
    <3>4. m[Len(n) + i].next <= Len(m)
      <4>1. CASE i = DLLCACHE
        BY <1>4, <3>1, <4>1
      <4>2. CASE i # DLLCACHE
        <5>1. i + 1 <= DLLCACHE /\ m[Len(n) + i].next = Len(n) + i + 1
          BY <3>1, <3>2, <4>2
        <5> QED BY <1>1, <1>2, <3>2, <5>1
      <4> QED BY <4>1, <4>2
    <3> QED BY <3>3, <3>4
  <2>3. ASSUME NEW p \in 1 .. Len(m)
        PROVE  m[p].prior <= Len(m) /\ m[p].next <= Len(m)
    BY <1>13, <2>1, <2>2
  <2> QED BY <1>2, <2>3 DEF NodesOK
<1>6. Path(Len(m), l) /\ ByNext(m, l) /\ ByPrior(m, l)
  <2>1. Path(Len(n), l) /\ ByNext(n, l) /\ ByPrior(n, l)
    BY DEF Holding, Parted
  <2>2. \A i \in 1 .. Len(l) : m[l[i]] = n[l[i]]
    BY <1>1, <1>2
  <2>3. Len(n) \in Nat /\ Len(m) \in Nat /\ Len(n) <= Len(m)
    BY <1>1, <1>4
  <2>4. Path(Len(m), l)
    BY <2>1, <2>3, PathKept
  <2>5. ByNext(m, l)
    BY <2>1, <2>2, NextKept
  <2>6. ByPrior(m, l)
    BY <2>1, <2>2, PriorKept
  <2> QED BY <2>4, <2>5, <2>6
<1>7. Path(Len(m), f)
  BY <1>1, <1>2, <1>3 DEF Path
<1>8. ByNext(m, f)
  BY <1>1, <1>2, <1>3 DEF ByNext
<1>9. \A i \in 1 .. Len(l), j \in 1 .. Len(f) : l[i] # f[j]
  BY <1>1, <1>3
<1>10. \A p \in 1 .. Len(m) : Has(l, p) \/ Has(f, p)
  <2>1. ASSUME NEW p \in 1 .. Len(n)
        PROVE  Has(l, p)
    BY <1>1
  <2>2. ASSUME NEW p \in 1 .. Len(m), p \notin 1 .. Len(n)
        PROVE  Has(f, p)
    <3>1. PICK i \in 1 .. DLLCACHE : p = Len(n) + i
      BY <1>13, <2>2
    <3>2. f[i] = p /\ i \in 1 .. Len(f)
      BY <1>3, <3>1
    <3> QED BY <3>2 DEF Has
  <2> QED BY <2>1, <2>2
<1>11. Holding(m, l, f)
  BY <1>1, <1>2, <1>3, <1>5, <1>6, <1>7, <1>8, <1>9, <1>10 DEF Holding, Parted
<1>12. \A i \in 1 .. Len(l) : m[l[i]].data = n[l[i]].data
  BY <1>1, <1>2
<1> QED BY <1>2, <1>11, <1>12 DEF m, f

LEMMA PartedTaken ==
  ASSUME NEW N \in Nat, NEW l, NEW v, Parted(N, l, v), v # <<>>, NEW i \in 1 .. Len(l) + 1
  PROVE  Parted(N, PutIn(l, i, v[1]), LeftOut(v, 1))
<1> DEFINE p == v[1]
           m == PutIn(l, i, p)
           u == LeftOut(v, 1)
<1>1. l \in Seq(Nat) /\ v \in Seq(Nat)
  BY DEF Parted, Path
<1>2. /\ Len(l) \in Nat /\ Len(v) \in Nat /\ Len(v) > 0 /\ Len(l) + Len(v) = N
      /\ i \in Int /\ 1 <= i /\ i <= Len(l) + 1
  BY <1>1 DEF Parted
<1>3. /\ \A k \in 1 .. Len(l) : l[k] \in 1 .. N
      /\ \A k \in 1 .. Len(v) : v[k] \in 1 .. N
      /\ \A j, k \in 1 .. Len(l) : l[j] = l[k] => j = k
      /\ \A j, k \in 1 .. Len(v) : v[j] = v[k] => j = k
      /\ \A j \in 1 .. Len(l), k \in 1 .. Len(v) : l[j] # v[k]
  BY DEF Parted, Path
<1>4. 1 \in 1 .. Len(v) /\ p \in 1 .. N /\ p \in Nat /\ \A k \in 1 .. Len(l) : l[k] # p
  BY <1>2, <1>3
<1>5. /\ m \in Seq(Nat) /\ Len(m) = Len(l) + 1
      /\ \A k \in 1 .. Len(l) + 1 : m[k] = IF k < i THEN l[k] ELSE IF k = i THEN p ELSE l[k - 1]
  BY <1>1, <1>2, <1>4 DEF PutIn
<1>6. /\ u \in Seq(Nat) /\ Len(u) = Len(v) - 1
      /\ \A k \in 1 .. Len(v) - 1 : u[k] = v[k + 1]
  BY <1>1, <1>2 DEF LeftOut
<1>7. \A k \in 1 .. Len(v) : v[k] = p => k = 1
  BY <1>2, <1>3, <1>4
<1> HIDE DEF p, m, u
(* Where the items of m and of u come from.                                *)
<1>8. ASSUME NEW k \in 1 .. Len(m)
      PROVE  \/ k = i /\ m[k] = p
             \/ k < i /\ k \in 1 .. Len(l) /\ m[k] = l[k]
             \/ k > i /\ k - 1 \in 1 .. Len(l) /\ m[k] = l[k - 1]
  <2>1. k \in 1 .. Len(l) + 1 /\ k \in Int
    BY <1>5
  <2>2. CASE k < i
    BY <1>2, <1>5, <2>1, <2>2
  <2>3. CASE k > i
    BY <1>2, <1>5, <2>1, <2>3
  <2>4. CASE k = i
    BY <1>2, <1>5, <2>1, <2>4
  <2> QED BY <1>2, <2>1, <2>2, <2>3, <2>4
<1>9. ASSUME NEW k \in 1 .. Len(u)
      PROVE  k + 1 \in 1 .. Len(v) /\ k + 1 # 1 /\ u[k] = v[k + 1]
  BY <1>2, <1>6
<1>10. Path(N, m)
  <2>1. \A k \in 1 .. Len(m) : m[k] \in 1 .. N
    BY <1>3, <1>4, <1>8
  <2>2. ASSUME NEW j \in 1 .. Len(m), NEW k \in 1 .. Len(m), m[j] = m[k]
        PROVE  j = k
    <3>1. j \in Int /\ k \in Int
      OBVIOUS
    <3>2. \/ j = i /\ m[j] = p
          \/ j < i /\ j \in 1 .. Len(l) /\ m[j] = l[j]
          \/ j > i /\ j - 1 \in 1 .. Len(l) /\ m[j] = l[j - 1]
      BY <1>8
    <3>3. \/ k = i /\ m[k] = p
          \/ k < i /\ k \in 1 .. Len(l) /\ m[k] = l[k]
          \/ k > i /\ k - 1 \in 1 .. Len(l) /\ m[k] = l[k - 1]
      BY <1>8
    <3>4. \A g, h \in 1 .. Len(l) : l[g] = l[h] => g = h
      BY <1>3
    <3>5. i \in Int
      BY <1>2
    <3>6. CASE j = i
      BY <1>4, <2>2, <3>2, <3>3, <3>6
    <3>7. CASE j < i
      BY <1>4, <2>2, <3>1, <3>2, <3>3, <3>4, <3>5, <3>7
    <3>8. CASE j > i
      BY <1>4, <2>2, <3>1, <3>2, <3>3, <3>4, <3>5, <3>8
    <3> QED BY <3>2, <3>6, <3>7, <3>8
  <2> QED BY <1>5, <2>1, <2>2 DEF Path
<1>11. Path(N, u)
  <2>1. \A k \in 1 .. Len(u) : u[k] \in 1 .. N
    BY <1>3, <1>9
  <2>2. ASSUME NEW j \in 1 .. Len(u), NEW k \in 1 .. Len(u), u[j] = u[k]
        PROVE  j = k
    <3>1. j \in Int /\ k \in Int /\ j + 1 = k + 1
      BY <1>3, <1>9, <2>2
    <3> QED BY <3>1
  <2> QED BY <1>6, <2>1, <2>2 DEF Path
<1>12. \A j \in 1 .. Len(m), k \in 1 .. Len(u) : m[j] # u[k]
  <2> SUFFICES ASSUME NEW j \in 1 .. Len(m), NEW k \in 1 .. Len(u)
               PROVE  m[j] # u[k]
    OBVIOUS
  <2>1. u[k] # p /\ \A h \in 1 .. Len(l) : l[h] # u[k]
    BY <1>3, <1>7, <1>9
  <2> QED BY <1>8, <2>1
<1>13. \A q \in 1 .. N : Has(m, q) \/ Has(u, q)
  <2> SUFFICES ASSUME NEW q \in 1 .. N
               PROVE  Has(m, q) \/ Has(u, q)
    OBVIOUS
  <2>1. CASE Has(l, q)
    <3>1. PICK k \in 1 .. Len(l) : l[k] = q
      BY <2>1 DEF Has
    <3>2. CASE k < i
      <4>1. k \in 1 .. Len(m) /\ m[k] = q
        BY <1>2, <1>5, <3>1, <3>2
      <4> QED BY <4>1 DEF Has
    <3>3. CASE ~ (k < i)
      <4>1. /\ k + 1 \in 1 .. Len(m) /\ k + 1 \in 1 .. Len(l) + 1
            /\ ~ (k + 1 < i) /\ k + 1 # i /\ (k + 1) - 1 = k
        BY <1>2, <1>5, <3>3
      <4>2. m[k + 1] = q
        BY <1>5, <3>1, <4>1
      <4> QED BY <4>1, <4>2 DEF Has
    <3> QED BY <3>2, <3>3
  <2>2. CASE Has(v, q)
    <3>1. PICK k \in 1 .. Len(v) : v[k] = q
      BY <2>2 DEF Has
    <3>2. CASE k = 1
      <4>1. i \in 1 .. Len(m) /\ i \in 1 .. Len(l) + 1 /\ ~ (i < i)
        BY <1>2, <1>5
      <4>2. m[i] = q
        BY <1>5, <3>1, <3>2, <4>1 DEF p
      <4> QED BY <4>1, <4>2 DEF Has
    <3>3. CASE k # 1
      <4>1. k - 1 \in 1 .. Len(u) /\ k - 1 \in 1 .. Len(v) - 1 /\ (k - 1) + 1 = k
        BY <1>2, <1>6, <3>3
      <4>2. u[k - 1] = q
        BY <1>6, <3>1, <4>1
      <4> QED BY <4>1, <4>2 DEF Has
    <3> QED BY <3>2, <3>3
  <2> QED BY <2>1, <2>2 DEF Parted
<1>14. Len(m) + Len(u) = N
  <2>1. Len(m) = Len(l) + 1 /\ Len(u) = Len(v) - 1
    BY <1>5, <1>6
  <2> QED BY <1>2, <2>1
<1>15. Parted(N, m, u)
  BY <1>10, <1>11, <1>12, <1>13, <1>14 DEF Parted
<1> QED BY <1>15 DEF m, u, p

LEMMA PartedGiven ==
  ASSUME NEW N \in Nat, NEW l, NEW v, Parted(N, l, v), NEW i \in 1 .. Len(l)
  PROVE  Parted(N, LeftOut(l, i), PutIn(v, 1, l[i]))
<1> DEFINE p == l[i]
           m == LeftOut(l, i)
           u == PutIn(v, 1, p)
<1>1. l \in Seq(Nat) /\ v \in Seq(Nat)
  BY DEF Parted, Path
<1>2. /\ Len(l) \in Nat /\ Len(v) \in Nat /\ Len(l) + Len(v) = N
      /\ i \in Int /\ 1 <= i /\ i <= Len(l)
  BY <1>1 DEF Parted
<1>3. /\ \A k \in 1 .. Len(l) : l[k] \in 1 .. N
      /\ \A k \in 1 .. Len(v) : v[k] \in 1 .. N
      /\ \A j, k \in 1 .. Len(l) : l[j] = l[k] => j = k
      /\ \A j, k \in 1 .. Len(v) : v[j] = v[k] => j = k
      /\ \A j \in 1 .. Len(l), k \in 1 .. Len(v) : l[j] # v[k]
  BY DEF Parted, Path
<1>4. p \in 1 .. N /\ p \in Nat /\ \A k \in 1 .. Len(v) : v[k] # p
  BY <1>2, <1>3
<1>5. /\ u \in Seq(Nat) /\ Len(u) = Len(v) + 1
      /\ \A k \in 1 .. Len(v) + 1 : u[k] = IF k < 1 THEN v[k] ELSE IF k = 1 THEN p ELSE v[k - 1]
  BY <1>1, <1>2, <1>4 DEF PutIn
<1>6. /\ m \in Seq(Nat) /\ Len(m) = Len(l) - 1
      /\ \A k \in 1 .. Len(l) - 1 : m[k] = IF k < i THEN l[k] ELSE l[k + 1]
  BY <1>1, <1>2 DEF LeftOut
<1>7. \A k \in 1 .. Len(l) : l[k] = p => k = i
  BY <1>2, <1>3, <1>4
<1> HIDE DEF p, m, u
<1>8. ASSUME NEW k \in 1 .. Len(m)
      PROVE  \/ k < i /\ k \in 1 .. Len(l) /\ m[k] = l[k]
             \/ k + 1 > i /\ k + 1 \in 1 .. Len(l) /\ m[k] = l[k + 1]
  <2>1. k \in 1 .. Len(l) - 1 /\ k \in Int
    BY <1>2, <1>6
  <2>2. CASE k < i
    BY <1>2, <1>6, <2>1, <2>2
  <2>3. CASE ~ (k < i)
    BY <1>2, <1>6, <2>1, <2>3
  <2> QED BY <2>2, <2>3
<1>9. ASSUME NEW k \in 1 .. Len(u)
      PROVE  \/ k = 1 /\ u[k] = p
             \/ k # 1 /\ k - 1 \in 1 .. Len(v) /\ u[k] = v[k - 1]
  <2>1. k \in 1 .. Len(v) + 1 /\ k \in Int /\ ~ (k < 1)
    BY <1>2, <1>5
  <2>2. CASE k = 1
    BY <1>5, <2>1, <2>2
  <2>3. CASE k # 1
    BY <1>2, <1>5, <2>1, <2>3
  <2> QED BY <2>2, <2>3
<1>10. Path(N, m)
  <2>1. \A k \in 1 .. Len(m) : m[k] \in 1 .. N
    BY <1>3, <1>8
  <2>2. ASSUME NEW j \in 1 .. Len(m), NEW k \in 1 .. Len(m), m[j] = m[k]
        PROVE  j = k
    <3>1. j \in Int /\ k \in Int
      OBVIOUS
    <3>2. \/ j < i /\ j \in 1 .. Len(l) /\ m[j] = l[j]
          \/ j + 1 > i /\ j + 1 \in 1 .. Len(l) /\ m[j] = l[j + 1]
      BY <1>8
    <3>3. \/ k < i /\ k \in 1 .. Len(l) /\ m[k] = l[k]
          \/ k + 1 > i /\ k + 1 \in 1 .. Len(l) /\ m[k] = l[k + 1]
      BY <1>8
    <3>4. \A g, h \in 1 .. Len(l) : l[g] = l[h] => g = h
      BY <1>3
    <3>5. i \in Int
      BY <1>2
    <3>6. CASE j < i
      BY <2>2, <3>1, <3>2, <3>3, <3>4, <3>5, <3>6
    <3>7. CASE ~ (j < i)
      <4>1. j + 1 > i /\ j + 1 \in 1 .. Len(l) /\ m[j] = l[j + 1]
        BY <3>2, <3>7
      <4>2. CASE k < i /\ k \in 1 .. Len(l) /\ m[k] = l[k]
        <5>1. l[j + 1] = l[k]
          BY <2>2, <4>1, <4>2
        <5>2. j + 1 = k
          BY <3>4, <4>1, <4>2, <5>1
        <5> QED BY <3>1, <3>5, <4>1, <4>2, <5>2
      <4>3. CASE k + 1 > i /\ k + 1 \in 1 .. Len(l) /\ m[k] = l[k + 1]
        <5>1. l[j + 1] = l[k + 1]
          BY <2>2, <4>1, <4>3
        <5>2. j + 1 = k + 1
          BY <3>4, <4>1, <4>3, <5>1
        <5> QED BY <3>1, <5>2
      <4> QED BY <3>3, <4>2, <4>3
    <3> QED BY <3>6, <3>7
  <2> QED BY <1>6, <2>1, <2>2 DEF Path
<1>11. Path(N, u)
  <2>1. \A k \in 1 .. Len(u) : u[k] \in 1 .. N
    BY <1>3, <1>4, <1>9
  <2>2. ASSUME NEW j \in 1 .. Len(u), NEW k \in 1 .. Len(u), u[j] = u[k]
        PROVE  j = k
    <3>1. j \in Int /\ k \in Int
      OBVIOUS
    <3>2. \/ j = 1 /\ u[j] = p
          \/ j # 1 /\ j - 1 \in 1 .. Len(v) /\ u[j] = v[j - 1]
      BY <1>9
    <3>3. \/ k = 1 /\ u[k] = p
          \/ k # 1 /\ k - 1 \in 1 .. Len(v) /\ u[k] = v[k - 1]
      BY <1>9
    <3>4. CASE j = 1
      BY <1>4, <2>2, <3>2, <3>3, <3>4
    <3>5. CASE k = 1
      BY <1>4, <2>2, <3>2, <3>3, <3>5
    <3>6. CASE j # 1 /\ k # 1
      <4>1. j - 1 = k - 1
        BY <1>3, <2>2, <3>2, <3>3, <3>6
      <4> QED BY <3>1, <4>1
    <3> QED BY <3>4, <3>5, <3>6
  <2> QED BY <1>5, <2>1, <2>2 DEF Path
<1>12. \A j \in 1 .. Len(m), k \in 1 .. Len(u) : m[j] # u[k]
  <2> SUFFICES ASSUME NEW j \in 1 .. Len(m), NEW k \in 1 .. Len(u)
               PROVE  m[j] # u[k]
    OBVIOUS
  <2>1. PICK h \in 1 .. Len(l) : h # i /\ m[j] = l[h]
    <3>1. j \in Int /\ i \in Int
      BY <1>2
    <3>2. CASE j < i /\ j \in 1 .. Len(l) /\ m[j] = l[j]
      BY <3>1, <3>2
    <3>3. CASE j + 1 > i /\ j + 1 \in 1 .. Len(l) /\ m[j] = l[j + 1]
      <4>1. j + 1 # i
        BY <3>1, <3>3
      <4> QED BY <3>3, <4>1
    <3> QED BY <1>8, <3>2, <3>3
  <2>2. m[j] # p
    BY <1>7, <2>1
  <2> QED BY <1>3, <1>9, <2>1, <2>2
<1>13. \A q \in 1 .. N : Has(m, q) \/ Has(u, q)
  <2> SUFFICES ASSUME NEW q \in 1 .. N
               PROVE  Has(m, q) \/ Has(u, q)
    OBVIOUS
  <2>1. CASE Has(l, q)
    <3>1. PICK k \in 1 .. Len(l) : l[k] = q
      BY <2>1 DEF Has
    <3>2. CASE k < i
      <4>1. k \in 1 .. Len(m) /\ k \in 1 .. Len(l) - 1
        BY <1>2, <1>6, <3>2
      <4>2. m[k] = q
        BY <1>6, <3>1, <3>2, <4>1
      <4> QED BY <4>1, <4>2 DEF Has
    <3>3. CASE k > i
      <4>1. k - 1 \in 1 .. Len(m) /\ k - 1 \in 1 .. Len(l) - 1 /\ ~ (k - 1 < i) /\ (k - 1) + 1 = k
        BY <1>2, <1>6, <3>3
      <4>2. m[k - 1] = q
        BY <1>6, <3>1, <4>1
      <4> QED BY <4>1, <4>2 DEF Has
    <3>4. CASE k = i
      <4>1. 1 \in 1 .. Len(u) /\ 1 \in 1 .. Len(v) + 1
        BY <1>2, <1>5
      <4>2. u[1] = q
        BY <1>5, <3>1, <3>4, <4>1 DEF p
      <4> QED BY <4>1, <4>2 DEF Has
    <3> QED BY <1>2, <3>2, <3>3, <3>4
  <2>2. CASE Has(v, q)
    <3>1. PICK k \in 1 .. Len(v) : v[k] = q
      BY <2>2 DEF Has
    <3>2. /\ k + 1 \in 1 .. Len(u) /\ k + 1 \in 1 .. Len(v) + 1
          /\ ~ (k + 1 < 1) /\ k + 1 # 1 /\ (k + 1) - 1 = k
      BY <1>2, <1>5
    <3>3. u[k + 1] = q
      BY <1>5, <3>1, <3>2
    <3> QED BY <3>2, <3>3 DEF Has
  <2> QED BY <2>1, <2>2 DEF Parted
<1>14. Len(m) + Len(u) = N
  <2>1. Len(m) = Len(l) - 1 /\ Len(u) = Len(v) + 1
    BY <1>5, <1>6
  <2> QED BY <1>2, <2>1
<1>15. Parted(N, m, u)
  BY <1>10, <1>11, <1>12, <1>13, <1>14 DEF Parted
<1> QED BY <1>15 DEF m, u, p

-----------------------------------------------------------------------------
(* One node changed.                                                       *)

WithNode(n, p, r) == [n EXCEPT ![p] = r]
WithNext(n, p, x) == [n EXCEPT ![p].next = x]
WithPrior(n, p, x) == [n EXCEPT ![p].prior = x]

LEMMA WithNodeIs ==
  ASSUME NEW n, NodesOK(n), NEW p \in 1 .. Len(n),
         NEW r \in Record, r.prior \in 0 .. Len(n), r.next \in 0 .. Len(n)
  PROVE  /\ NodesOK(WithNode(n, p, r)) /\ Len(WithNode(n, p, r)) = Len(n)
         /\ WithNode(n, p, r)[p] = r
         /\ \A k \in 1 .. Len(n) : k # p => WithNode(n, p, r)[k] = n[k]
BY DEF NodesOK, WithNode

LEMMA WithNextIs ==
  ASSUME NEW n, NodesOK(n), NEW p \in 1 .. Len(n), NEW x \in 0 .. Len(n)
  PROVE  /\ NodesOK(WithNext(n, p, x)) /\ Len(WithNext(n, p, x)) = Len(n)
         /\ WithNext(n, p, x)[p].next = x
         /\ \A k \in 1 .. Len(n) : /\ WithNext(n, p, x)[k].prior = n[k].prior
                                   /\ WithNext(n, p, x)[k].data = n[k].data
                                   /\ k # p => WithNext(n, p, x)[k].next = n[k].next
<1> DEFINE m == WithNext(n, p, x)
<1>1. n \in Seq(Record) /\ Len(n) \in Nat
  BY DEF NodesOK
<1>7. n[p] \in Record /\ x \in Nat
  BY <1>1
<1>8. n[p] = [prior |-> n[p].prior, next |-> n[p].next, data |-> n[p].data]
  BY <1>7 DEF Record
<1>9. n[p].prior \in Nat /\ n[p].next \in Nat /\ n[p].data \in Data \cup {NULL}
  BY <1>7 DEF Record
<1> DEFINE r == [n[p] EXCEPT !.next = x]
<1>10. r = [prior |-> n[p].prior, next |-> x, data |-> n[p].data]
  BY <1>8
<1>2. r \in Record /\ r.next = x /\ r.prior = n[p].prior /\ r.data = n[p].data
  BY <1>7, <1>9, <1>10 DEF Record
<1>3. m = WithNode(n, p, r)
  BY DEF WithNext, WithNode
<1>4. n[p].prior \in 0 .. Len(n)
  BY <1>1, <1>2 DEF NodesOK, Record
<1> HIDE DEF m, r
<1>11. r.prior \in 0 .. Len(n) /\ r.next \in 0 .. Len(n)
  BY <1>2, <1>4
<1>5. /\ NodesOK(m) /\ Len(m) = Len(n) /\ m[p] = r
      /\ \A k \in 1 .. Len(n) : k # p => m[k] = n[k]
  BY <1>2, <1>3, <1>11, WithNodeIs
<1>6. ASSUME NEW k \in 1 .. Len(n)
      PROVE  m[k].prior = n[k].prior /\ m[k].data = n[k].data /\ (k # p => m[k].next = n[k].next)
  BY <1>2, <1>5
<1> QED BY <1>2, <1>5, <1>6 DEF m

LEMMA WithPriorIs ==
  ASSUME NEW n, NodesOK(n), NEW p \in 1 .. Len(n), NEW x \in 0 .. Len(n)
  PROVE  /\ NodesOK(WithPrior(n, p, x)) /\ Len(WithPrior(n, p, x)) = Len(n)
         /\ WithPrior(n, p, x)[p].prior = x
         /\ \A k \in 1 .. Len(n) : /\ WithPrior(n, p, x)[k].next = n[k].next
                                   /\ WithPrior(n, p, x)[k].data = n[k].data
                                   /\ k # p => WithPrior(n, p, x)[k].prior = n[k].prior
<1> DEFINE m == WithPrior(n, p, x)
<1>1. n \in Seq(Record) /\ Len(n) \in Nat
  BY DEF NodesOK
<1>7. n[p] \in Record /\ x \in Nat
  BY <1>1
<1>8. n[p] = [prior |-> n[p].prior, next |-> n[p].next, data |-> n[p].data]
  BY <1>7 DEF Record
<1>9. n[p].prior \in Nat /\ n[p].next \in Nat /\ n[p].data \in Data \cup {NULL}
  BY <1>7 DEF Record
<1> DEFINE r == [n[p] EXCEPT !.prior = x]
<1>10. r = [prior |-> x, next |-> n[p].next, data |-> n[p].data]
  BY <1>8
<1>2. r \in Record /\ r.prior = x /\ r.next = n[p].next /\ r.data = n[p].data
  BY <1>7, <1>9, <1>10 DEF Record
<1>3. m = WithNode(n, p, r)
  BY DEF WithPrior, WithNode
<1>4. n[p].next \in 0 .. Len(n)
  BY <1>1, <1>2 DEF NodesOK, Record
<1> HIDE DEF m, r
<1>11. r.prior \in 0 .. Len(n) /\ r.next \in 0 .. Len(n)
  BY <1>2, <1>4
<1>5. /\ NodesOK(m) /\ Len(m) = Len(n) /\ m[p] = r
      /\ \A k \in 1 .. Len(n) : k # p => m[k] = n[k]
  BY <1>2, <1>3, <1>11, WithNodeIs
<1>6. ASSUME NEW k \in 1 .. Len(n)
      PROVE  m[k].next = n[k].next /\ m[k].data = n[k].data /\ (k # p => m[k].prior = n[k].prior)
  BY <1>2, <1>5
<1> QED BY <1>2, <1>5, <1>6 DEF m

-----------------------------------------------------------------------------
(* A vacant node put into the list at place i.                             *)

Taken(n, m, l, v, i) ==
  /\ NodesOK(m) /\ Len(m) = Len(n)
  /\ m[v[1]].prior = IF i = 1 THEN NULL ELSE l[i - 1]
  /\ m[v[1]].next = IF i = Len(l) + 1 THEN NULL ELSE l[i]
  /\ \A k \in 1 .. Len(l) : m[l[k]].prior = IF k = i THEN v[1] ELSE n[l[k]].prior
  /\ \A k \in 1 .. Len(l) : m[l[k]].next = IF k + 1 = i THEN v[1] ELSE n[l[k]].next
  /\ \A k \in 1 .. Len(v) : k # 1 => m[v[k]].next = n[v[k]].next

LEMMA TakenHolding ==
  ASSUME NEW n, NEW m, NEW l, NEW v, Holding(n, l, v), v # <<>>,
         NEW i \in 1 .. Len(l) + 1, Taken(n, m, l, v, i)
  PROVE  Holding(m, PutIn(l, i, v[1]), LeftOut(v, 1))
<1> DEFINE p == v[1]
           s == PutIn(l, i, p)
           u == LeftOut(v, 1)
<1>1. Len(n) \in Nat /\ Parted(Len(n), l, v)
  BY DEF Holding, NodesOK
<1>2. /\ l \in Seq(Nat) /\ v \in Seq(Nat) /\ Len(l) \in Nat /\ Len(v) \in Nat /\ Len(v) > 0
      /\ i \in Int /\ 1 <= i /\ i <= Len(l) + 1
  BY <1>1 DEF Parted, Path
<1>3. /\ Len(s) = Len(l) + 1
      /\ \A k \in 1 .. Len(l) + 1 : s[k] = IF k < i THEN l[k] ELSE IF k = i THEN p ELSE l[k - 1]
  BY <1>2 DEF PutIn
<1>4. /\ Len(u) = Len(v) - 1
      /\ \A k \in 1 .. Len(v) - 1 : u[k] = v[k + 1]
  BY <1>2 DEF LeftOut
<1>5. Parted(Len(m), s, u)
  BY <1>1, PartedTaken DEF Taken
<1>6. /\ \A k \in 1 .. Len(l) : n[l[k]].next = IF k = Len(l) THEN NULL ELSE l[k + 1]
      /\ \A k \in 1 .. Len(l) : n[l[k]].prior = IF k = 1 THEN NULL ELSE l[k - 1]
      /\ \A k \in 1 .. Len(v) : n[v[k]].next = IF k = Len(v) THEN NULL ELSE v[k + 1]
  BY DEF Holding, ByNext, ByPrior
<1>7. /\ m[p].prior = IF i = 1 THEN NULL ELSE l[i - 1]
      /\ m[p].next = IF i = Len(l) + 1 THEN NULL ELSE l[i]
      /\ \A k \in 1 .. Len(l) : m[l[k]].prior = IF k = i THEN p ELSE n[l[k]].prior
      /\ \A k \in 1 .. Len(l) : m[l[k]].next = IF k + 1 = i THEN p ELSE n[l[k]].next
      /\ \A k \in 1 .. Len(v) : k # 1 => m[v[k]].next = n[v[k]].next
  BY DEF Taken
<1> HIDE DEF p, s, u
<1>8. ByNext(m, s)
  <2> SUFFICES ASSUME NEW k \in 1 .. Len(l) + 1
               PROVE  m[s[k]].next = IF k = Len(l) + 1 THEN NULL ELSE s[k + 1]
    BY <1>3 DEF ByNext
  <2>1. k \in Int /\ (k # Len(l) + 1 => k + 1 \in 1 .. Len(l) + 1)
    BY <1>2
  <2>2. CASE k + 1 < i
    <3>1. /\ k \in 1 .. Len(l) /\ k + 1 \in 1 .. Len(l) /\ k # Len(l) + 1 /\ k # Len(l)
          /\ s[k] = l[k] /\ s[k + 1] = l[k + 1]
      BY <1>2, <1>3, <2>1, <2>2
    <3> QED BY <1>6, <1>7, <2>1, <2>2, <3>1
  <2>3. CASE k + 1 = i
    <3>1. k \in 1 .. Len(l) /\ k # Len(l) + 1 /\ s[k] = l[k] /\ s[k + 1] = p
      BY <1>2, <1>3, <2>1, <2>3
    <3> QED BY <1>7, <2>3, <3>1
  <2>4. CASE k = i
    <3>1. s[k] = p
      BY <1>2, <1>3, <2>4
    <3>2. CASE i = Len(l) + 1
      BY <1>7, <2>4, <3>1, <3>2
    <3>3. CASE i # Len(l) + 1
      <4>1. s[i + 1] = l[i]
        BY <1>2, <1>3, <2>1, <2>4, <3>3
      <4> QED BY <1>7, <2>4, <3>1, <3>3, <4>1
    <3> QED BY <3>2, <3>3
  <2>5. CASE k > i
    <3>1. k - 1 \in 1 .. Len(l) /\ s[k] = l[k - 1] /\ (k - 1) + 1 = k /\ k # i
      BY <1>2, <1>3, <2>1, <2>5
    <3>2. m[s[k]].next = n[l[k - 1]].next
      BY <1>7, <3>1
    <3>3. CASE k = Len(l) + 1
      <4>1. k - 1 = Len(l)
        BY <1>2, <3>3
      <4> QED BY <1>6, <3>1, <3>2, <3>3, <4>1
    <3>4. CASE k # Len(l) + 1
      <4>1. k - 1 # Len(l) /\ s[k + 1] = l[k]
        BY <1>2, <1>3, <2>1, <2>5, <3>4
      <4> QED BY <1>6, <3>1, <3>2, <3>4, <4>1
    <3> QED BY <3>3, <3>4
  <2> QED BY <1>2, <2>1, <2>2, <2>3, <2>4, <2>5
<1>9. ByPrior(m, s)
  <2> SUFFICES ASSUME NEW k \in 1 .. Len(l) + 1
               PROVE  m[s[k]].prior = IF k = 1 THEN NULL ELSE s[k - 1]
    BY <1>3 DEF ByPrior
  <2>1. k \in Int /\ (k # 1 => k - 1 \in 1 .. Len(l) + 1)
    BY <1>2
  <2>2. CASE k < i
    <3>1. k \in 1 .. Len(l) /\ s[k] = l[k] /\ k # i /\ (k # 1 => s[k - 1] = l[k - 1])
      BY <1>2, <1>3, <2>1, <2>2
    <3> QED BY <1>6, <1>7, <3>1
  <2>3. CASE k = i
    <3>1. s[k] = p
      BY <1>2, <1>3, <2>3
    <3>2. k # 1 => s[k - 1] = l[k - 1]
      BY <1>2, <1>3, <2>1, <2>3
    <3> QED BY <1>7, <2>3, <3>1, <3>2
  <2>4. CASE k = i + 1
    <3>1. i \in 1 .. Len(l) /\ s[k] = l[i] /\ k - 1 = i /\ s[i] = p /\ k # 1
      BY <1>2, <1>3, <2>1, <2>4
    <3> QED BY <1>7, <3>1
  <2>5. CASE k > i + 1
    <3>1. /\ k - 1 \in 1 .. Len(l) /\ k - 1 \in 1 .. Len(l) + 1
          /\ k # 1 /\ k - 1 # 1 /\ k - 1 # i /\ ~ (k < i) /\ k # i /\ ~ (k - 1 < i)
      BY <1>2, <2>1, <2>5
    <3>2. s[k] = l[k - 1] /\ s[k - 1] = l[(k - 1) - 1]
      BY <1>3, <3>1
    <3> QED BY <1>6, <1>7, <3>1, <3>2
  <2> QED BY <1>2, <2>1, <2>2, <2>3, <2>4, <2>5
<1>10. ByNext(m, u)
  <2> SUFFICES ASSUME NEW k \in 1 .. Len(v) - 1
               PROVE  m[u[k]].next = IF k = Len(v) - 1 THEN NULL ELSE u[k + 1]
    BY <1>4 DEF ByNext
  <2>1. /\ k + 1 \in 1 .. Len(v) /\ k + 1 # 1 /\ u[k] = v[k + 1]
        /\ k + 1 = Len(v) <=> k = Len(v) - 1
    BY <1>2, <1>4
  <2>2. m[u[k]].next = IF k + 1 = Len(v) THEN NULL ELSE v[(k + 1) + 1]
    BY <1>6, <1>7, <2>1
  <2>3. k # Len(v) - 1 => u[k + 1] = v[(k + 1) + 1]
    <3>1. k # Len(v) - 1 => k + 1 \in 1 .. Len(v) - 1
      BY <1>2
    <3> QED BY <1>4, <3>1
  <2> QED BY <2>1, <2>2, <2>3
<1>11. Holding(m, s, u)
  BY <1>5, <1>8, <1>9, <1>10 DEF Holding, Taken
<1> QED BY <1>11 DEF p, s, u

LEMMA HoldingNodes ==
  ASSUME NEW n, NEW l, NEW v, Holding(n, l, v)
  PROVE  /\ NodesOK(n) /\ Len(n) \in Nat
         /\ l \in Seq(Nat) /\ v \in Seq(Nat) /\ Len(l) \in Nat /\ Len(v) \in Nat
         /\ \A k \in 1 .. Len(l) : l[k] \in 1 .. Len(n)
         /\ \A k \in 1 .. Len(v) : v[k] \in 1 .. Len(n)
         /\ \A j, k \in 1 .. Len(l) : l[j] = l[k] => j = k
         /\ \A j, k \in 1 .. Len(v) : v[j] = v[k] => j = k
         /\ \A j \in 1 .. Len(l), k \in 1 .. Len(v) : l[j] # v[k]
         /\ v # <<>> => Len(v) > 0
         /\ l # <<>> => Len(l) > 0
BY DEF Holding, NodesOK, Parted, Path

LEMMA AtEndTaken ==
  ASSUME NEW n, NEW l, NEW v, Holding(n, l, v), v # <<>>,
         NEW d \in Data, DLL_tail = LastOf(l)
  PROVE  LET m == LinkedAtEnd(n, v[1], d)
         IN  /\ Taken(n, m, l, v, Len(l) + 1)
             /\ m[v[1]].data = d
             /\ \A k \in 1 .. Len(l) : m[l[k]].data = n[l[k]].data
<1> DEFINE p == v[1]
           r == [prior |-> DLL_tail, next |-> NULL, data |-> d]
           m0 == WithNode(n, p, r)
           m == LinkedAtEnd(n, p, d)
<1>1. /\ NodesOK(n) /\ Len(n) \in Nat
      /\ l \in Seq(Nat) /\ v \in Seq(Nat) /\ Len(l) \in Nat /\ Len(v) \in Nat /\ Len(v) > 0
  BY HoldingNodes
<1>2. /\ \A k \in 1 .. Len(l) : l[k] \in 1 .. Len(n)
      /\ \A k \in 1 .. Len(v) : v[k] \in 1 .. Len(n)
      /\ \A j, k \in 1 .. Len(l) : l[j] = l[k] => j = k
      /\ \A j, k \in 1 .. Len(v) : v[j] = v[k] => j = k
      /\ \A j \in 1 .. Len(l), k \in 1 .. Len(v) : l[j] # v[k]
      /\ l # <<>> => Len(l) > 0
  BY HoldingNodes
<1>3. /\ 1 \in 1 .. Len(v) /\ p \in 1 .. Len(n)
      /\ \A k \in 1 .. Len(l) : l[k] # p
      /\ \A k \in 1 .. Len(v) : k # 1 => v[k] # p
  BY <1>1, <1>2
<1>4. DLL_tail \in 0 .. Len(n) /\ DLL_tail \in Nat
  <2>1. CASE l = <<>>
    BY <1>1, <2>1 DEF LastOf, NULL
  <2>2. CASE l # <<>>
    <3>1. Len(l) \in 1 .. Len(l) /\ DLL_tail = l[Len(l)]
      BY <1>1, <1>2, <2>2 DEF LastOf
    <3> QED BY <1>1, <1>2, <3>1
  <2> QED BY <2>1, <2>2
<1>5. /\ r \in Record /\ r.prior = DLL_tail /\ r.next = NULL /\ r.data = d
      /\ r.prior \in 0 .. Len(n) /\ r.next \in 0 .. Len(n)
  BY <1>1, <1>4 DEF Record, NULL
<1> HIDE DEF p, r
<1>6. /\ NodesOK(m0) /\ Len(m0) = Len(n) /\ m0[p] = r
      /\ \A k \in 1 .. Len(n) : k # p => m0[k] = n[k]
  BY <1>1, <1>3, <1>5, WithNodeIs
<1>7. CASE l = <<>>
  <2>1. m = m0
    BY <1>7 DEF LinkedAtEnd, WithNode, LastOf, r
  <2>2. Len(l) = 0 /\ DLL_tail = NULL
    BY <1>7 DEF LastOf
  <2> HIDE DEF m, m0
  <2>3. m[p].prior = NULL /\ m[p].next = NULL /\ m[p].data = d
    BY <1>5, <1>6, <2>1, <2>2
  <2>4. \A k \in 1 .. Len(l) : FALSE
    BY <2>2
  <2>5. \A k \in 1 .. Len(v) : k # 1 => m[v[k]] = n[v[k]]
    BY <1>2, <1>3, <1>6, <2>1
  <2>6. Taken(n, m, l, v, Len(l) + 1)
    BY <1>6, <2>1, <2>2, <2>3, <2>4, <2>5 DEF Taken, p
  <2> QED BY <2>3, <2>4, <2>6 DEF p, m
<1>8. CASE l # <<>>
  <2> DEFINE t == l[Len(l)]
  <2>1. /\ Len(l) \in 1 .. Len(l) /\ DLL_tail = t /\ t \in 1 .. Len(n) /\ t # NULL /\ t # p
    BY <1>1, <1>2, <1>3, <1>8 DEF LastOf, NULL
  <2>2. m = WithNext(m0, t, p)
    BY <2>1 DEF LinkedAtEnd, WithNode, WithNext, r
  <2> HIDE DEF m, m0, t
  <2>3. p \in 0 .. Len(n)
    BY <1>3
  <2>4. /\ NodesOK(m) /\ Len(m) = Len(m0)
        /\ m[t].next = p
        /\ \A k \in 1 .. Len(n) : m[k].prior = m0[k].prior /\ m[k].data = m0[k].data
        /\ \A k \in 1 .. Len(n) : k # t => m[k].next = m0[k].next
    BY <1>6, <2>1, <2>2, <2>3, WithNextIs
  <2>5. m[p].prior = t /\ m[p].next = NULL /\ m[p].data = d
    BY <1>3, <1>5, <1>6, <2>1, <2>4
  <2>6. ASSUME NEW k \in 1 .. Len(l)
        PROVE  /\ m[l[k]].prior = n[l[k]].prior /\ m[l[k]].data = n[l[k]].data
               /\ m[l[k]].next = IF k = Len(l) THEN p ELSE n[l[k]].next
    <3>1. l[k] \in 1 .. Len(n) /\ m0[l[k]] = n[l[k]]
      BY <1>2, <1>3, <1>6
    <3>2. k # Len(l) => l[k] # t
      BY <1>2, <2>1 DEF t
    <3>3. k = Len(l) => l[k] = t
      BY DEF t
    <3> QED BY <2>4, <3>1, <3>2, <3>3
  <2>7. ASSUME NEW k \in 1 .. Len(v), k # 1
        PROVE  m[v[k]].next = n[v[k]].next
    <3>1. v[k] \in 1 .. Len(n) /\ m0[v[k]] = n[v[k]] /\ v[k] # t
      BY <1>2, <1>3, <1>6, <2>1, <2>7 DEF t
    <3> QED BY <2>4, <3>1
  <2>8. ASSUME NEW k \in 1 .. Len(l)
        PROVE  k # Len(l) + 1 /\ (k + 1 = Len(l) + 1 <=> k = Len(l))
    BY <1>1
  <2>9. Len(l) + 1 # 1 /\ (Len(l) + 1) - 1 = Len(l)
    BY <1>1, <2>1
  <2>10. Taken(n, m, l, v, Len(l) + 1)
    <3>1. m[p].prior = IF Len(l) + 1 = 1 THEN NULL ELSE l[(Len(l) + 1) - 1]
      BY <2>5, <2>9 DEF t
    <3>2. m[p].next = IF Len(l) + 1 = Len(l) + 1 THEN NULL ELSE l[Len(l) + 1]
      BY <2>5
    <3>3. \A k \in 1 .. Len(l) : m[l[k]].prior = IF k = Len(l) + 1 THEN p ELSE n[l[k]].prior
      BY <2>6, <2>8
    <3>4. \A k \in 1 .. Len(l) : m[l[k]].next = IF k + 1 = Len(l) + 1 THEN p ELSE n[l[k]].next
      BY <2>6, <2>8
    <3> QED BY <1>6, <2>4, <2>7, <3>1, <3>2, <3>3, <3>4 DEF Taken, p
  <2> QED BY <2>5, <2>6, <2>10 DEF m, p
<1> QED BY <1>7, <1>8

LEMMA BeforeTaken ==
  ASSUME NEW n, NEW l, NEW v, Holding(n, l, v), v # <<>>,
         NEW d \in Data, NEW i \in 1 .. Len(l), DLL_active_ptr = l[i]
  PROVE  LET m == LinkedBefore(n, v[1], d)
         IN  /\ Taken(n, m, l, v, i)
             /\ m[v[1]].data = d
             /\ \A k \in 1 .. Len(l) : m[l[k]].data = n[l[k]].data
<1> DEFINE p == v[1]
           a == l[i]
           q == n[a].prior
           r == [prior |-> q, next |-> a, data |-> d]
           m0 == WithNode(n, p, r)
           m1 == WithPrior(m0, a, p)
           m == LinkedBefore(n, p, d)
<1>1. /\ NodesOK(n) /\ Len(n) \in Nat
      /\ l \in Seq(Nat) /\ v \in Seq(Nat) /\ Len(l) \in Nat /\ Len(v) \in Nat /\ Len(v) > 0
  BY HoldingNodes
<1>2. /\ \A k \in 1 .. Len(l) : l[k] \in 1 .. Len(n)
      /\ \A k \in 1 .. Len(v) : v[k] \in 1 .. Len(n)
      /\ \A j, k \in 1 .. Len(l) : l[j] = l[k] => j = k
      /\ \A j, k \in 1 .. Len(v) : v[j] = v[k] => j = k
      /\ \A j \in 1 .. Len(l), k \in 1 .. Len(v) : l[j] # v[k]
  BY HoldingNodes
<1>3. /\ 1 \in 1 .. Len(v) /\ p \in 1 .. Len(n) /\ a \in 1 .. Len(n) /\ a # p
      /\ \A k \in 1 .. Len(l) : l[k] # p
      /\ \A k \in 1 .. Len(v) : k # 1 => v[k] # p
      /\ \A k \in 1 .. Len(l) : k # i => l[k] # a
      /\ \A k \in 1 .. Len(v) : v[k] # a
  BY <1>1, <1>2
<1>4. q = IF i = 1 THEN NULL ELSE l[i - 1]
  BY DEF Holding, ByPrior
<1>5. q \in 0 .. Len(n) /\ q \in Nat /\ i \in Int
  <2>1. i \in Int /\ (i # 1 => i - 1 \in 1 .. Len(l))
    BY <1>1
  <2> QED BY <1>1, <1>2, <1>4, <2>1 DEF NULL
<1> HIDE DEF q
<1>6. /\ r \in Record /\ r.prior = q /\ r.next = a /\ r.data = d
      /\ r.prior \in 0 .. Len(n) /\ r.next \in 0 .. Len(n)
  BY <1>1, <1>3, <1>5 DEF Record
<1>7. m = IF q = NULL THEN m1 ELSE WithNext(m1, q, p)
  BY DEF LinkedBefore, WithNode, WithNext, WithPrior, q
<1> HIDE DEF p, a, r, m
<1>8. /\ NodesOK(m0) /\ Len(m0) = Len(n) /\ m0[p] = r
      /\ \A k \in 1 .. Len(n) : k # p => m0[k] = n[k]
  <2>1. /\ NodesOK(n) /\ p \in 1 .. Len(n) /\ r \in Record
        /\ r.prior \in 0 .. Len(n) /\ r.next \in 0 .. Len(n)
    BY <1>1, <1>3, <1>6
  <2> QED BY <2>1, WithNodeIs
<1> HIDE DEF m0
<1>9. p \in 0 .. Len(n)
  BY <1>3
<1>10. /\ NodesOK(m1) /\ Len(m1) = Len(n) /\ m1[a].prior = p
       /\ \A k \in 1 .. Len(n) : m1[k].next = m0[k].next /\ m1[k].data = m0[k].data
       /\ \A k \in 1 .. Len(n) : k # a => m1[k].prior = m0[k].prior
  BY <1>3, <1>8, <1>9, WithPriorIs
<1> HIDE DEF m1
<1>11. /\ NodesOK(m) /\ Len(m) = Len(n)
       /\ \A k \in 1 .. Len(n) : m[k].prior = m1[k].prior /\ m[k].data = m1[k].data
       /\ \A k \in 1 .. Len(n) : k # q => m[k].next = m1[k].next
       /\ q # NULL => m[q].next = p
  <2>1. CASE q = NULL
    BY <1>7, <1>10, <2>1
  <2>2. CASE q # NULL
    <3>1. q \in 1 .. Len(m1) /\ p \in 0 .. Len(m1) /\ m = WithNext(m1, q, p)
      BY <1>5, <1>7, <1>9, <1>10, <2>2 DEF NULL
    <3> QED BY <1>10, <3>1, WithNextIs
  <2> QED BY <2>1, <2>2
<1>12. q # p
  BY <1>1, <1>3, <1>4, <1>5 DEF NULL
<1>13. m[p].prior = q /\ m[p].next = a /\ m[p].data = d
  BY <1>3, <1>6, <1>8, <1>10, <1>11, <1>12
<1>14. ASSUME NEW k \in 1 .. Len(l)
       PROVE  /\ m[l[k]].prior = IF k = i THEN p ELSE n[l[k]].prior
              /\ m[l[k]].next = IF k + 1 = i THEN p ELSE n[l[k]].next
              /\ m[l[k]].data = n[l[k]].data
  <2>1. l[k] \in 1 .. Len(n) /\ m0[l[k]] = n[l[k]] /\ l[k] # NULL /\ k \in Int /\ k >= 1
    BY <1>2, <1>3, <1>8 DEF NULL
  <2>2. m[l[k]].data = n[l[k]].data
    BY <1>10, <1>11, <2>1
  <2>3. m[l[k]].prior = IF k = i THEN p ELSE n[l[k]].prior
    BY <1>3, <1>10, <1>11, <2>1 DEF a
  <2>4. CASE k + 1 = i
    <3>1. i # 1 /\ i - 1 = k /\ q = l[k]
      BY <1>4, <2>1, <2>4
    <3> QED BY <1>11, <2>1, <2>2, <2>3, <2>4, <3>1
  <2>5. CASE k + 1 # i
    <3>1. l[k] # q
      <4>1. i = 1 \/ i - 1 \in 1 .. Len(l)
        BY <1>1, <1>5
      <4>2. i - 1 # k
        BY <1>5, <2>1, <2>5
      <4> QED BY <1>2, <1>4, <2>1, <4>1, <4>2
    <3> QED BY <1>10, <1>11, <2>1, <2>2, <2>3, <2>5, <3>1
  <2> QED BY <2>4, <2>5
<1>15. ASSUME NEW k \in 1 .. Len(v), k # 1
       PROVE  m[v[k]].next = n[v[k]].next
  <2>1. v[k] \in 1 .. Len(n) /\ m0[v[k]] = n[v[k]]
    BY <1>2, <1>3, <1>8, <1>15
  <2>2. v[k] # q
    <3>1. i = 1 \/ i - 1 \in 1 .. Len(l)
      BY <1>1, <1>5
    <3>2. CASE i = 1
      BY <1>4, <2>1, <3>2 DEF NULL
    <3>3. CASE i # 1 /\ i - 1 \in 1 .. Len(l)
      BY <1>2, <1>4, <3>3
    <3> QED BY <3>1, <3>2, <3>3
  <2> QED BY <1>10, <1>11, <2>1, <2>2
<1>16. Taken(n, m, l, v, i)
  <2>1. m[p].next = IF i = Len(l) + 1 THEN NULL ELSE l[i]
    BY <1>1, <1>13 DEF a
  <2> QED BY <1>4, <1>11, <1>13, <1>14, <1>15, <2>1 DEF Taken, p
<1> QED BY <1>13, <1>14, <1>16 DEF m, p

-----------------------------------------------------------------------------
(* The node at place i of the list put before the vacant ones.             *)

Given(n, m, l, v, i) ==
  /\ NodesOK(m) /\ Len(m) = Len(n)
  /\ m[l[i]].next = v[1]
  /\ \A k \in 1 .. Len(l) : k # i =>
       m[l[k]].next = IF k + 1 = i THEN n[l[i]].next ELSE n[l[k]].next
  /\ \A k \in 1 .. Len(l) : k # i =>
       m[l[k]].prior = IF k = i + 1 THEN n[l[i]].prior ELSE n[l[k]].prior
  /\ \A k \in 1 .. Len(v) : m[v[k]].next = n[v[k]].next

LEMMA GivenHolding ==
  ASSUME NEW n, NEW m, NEW l, NEW v, Holding(n, l, v), v # <<>>,
         NEW i \in 1 .. Len(l), Given(n, m, l, v, i)
  PROVE  Holding(m, LeftOut(l, i), PutIn(v, 1, l[i]))
<1> DEFINE p == l[i]
           s == LeftOut(l, i)
           u == PutIn(v, 1, p)
<1>1. Len(n) \in Nat /\ Parted(Len(n), l, v)
  BY DEF Holding, NodesOK
<1>2. /\ l \in Seq(Nat) /\ v \in Seq(Nat) /\ Len(l) \in Nat /\ Len(v) \in Nat /\ Len(v) > 0
      /\ i \in Int /\ 1 <= i /\ i <= Len(l)
  BY <1>1 DEF Parted, Path
<1>3. /\ Len(s) = Len(l) - 1
      /\ \A k \in 1 .. Len(l) - 1 : s[k] = IF k < i THEN l[k] ELSE l[k + 1]
  BY <1>2 DEF LeftOut
<1>4. /\ Len(u) = Len(v) + 1 /\ u[1] = p
      /\ \A k \in 1 .. Len(v) : u[k + 1] = v[k]
  <2>1. 1 \in 1 .. Len(v) + 1
    BY <1>2
  <2>2. p \in Nat
    BY <1>2
  <2>3. PutIn(v, 1, p)[1] = p /\ Len(PutIn(v, 1, p)) = Len(v) + 1
        /\ \A k \in 1 .. Len(v) : k >= 1 => PutIn(v, 1, p)[k + 1] = v[k]
    BY <1>2, <2>1, <2>2 DEF PutIn
  <2> QED BY <1>2, <2>3
<1>5. Parted(Len(m), s, u)
  BY <1>1, PartedGiven DEF Given
<1>6. /\ \A k \in 1 .. Len(l) : n[l[k]].next = IF k = Len(l) THEN NULL ELSE l[k + 1]
      /\ \A k \in 1 .. Len(l) : n[l[k]].prior = IF k = 1 THEN NULL ELSE l[k - 1]
      /\ \A k \in 1 .. Len(v) : n[v[k]].next = IF k = Len(v) THEN NULL ELSE v[k + 1]
  BY DEF Holding, ByNext, ByPrior
<1>7. /\ m[p].next = v[1]
      /\ \A k \in 1 .. Len(l) : k # i =>
           m[l[k]].next = IF k + 1 = i THEN n[p].next ELSE n[l[k]].next
      /\ \A k \in 1 .. Len(l) : k # i =>
           m[l[k]].prior = IF k = i + 1 THEN n[p].prior ELSE n[l[k]].prior
      /\ \A k \in 1 .. Len(v) : m[v[k]].next = n[v[k]].next
  BY DEF Given
<1>8. /\ n[p].next = IF i = Len(l) THEN NULL ELSE l[i + 1]
      /\ n[p].prior = IF i = 1 THEN NULL ELSE l[i - 1]
  BY <1>6
<1> HIDE DEF p, s, u
<1>9. ByNext(m, s)
  <2> SUFFICES ASSUME NEW k \in 1 .. Len(l) - 1
               PROVE  m[s[k]].next = IF k = Len(l) - 1 THEN NULL ELSE s[k + 1]
    BY <1>3 DEF ByNext
  <2>1. k \in Int /\ k \in 1 .. Len(l) /\ k + 1 \in 1 .. Len(l)
        /\ (k # Len(l) - 1 => k + 1 \in 1 .. Len(l) - 1)
    BY <1>2
  <2>2. CASE k + 1 < i
    <3>1. k # i /\ k + 1 # i /\ k < i /\ k # Len(l) - 1 /\ k # Len(l)
      BY <1>2, <2>1, <2>2
    <3>2. s[k] = l[k] /\ s[k + 1] = l[k + 1]
      BY <1>3, <2>1, <2>2, <3>1
    <3> QED BY <1>6, <1>7, <2>1, <3>1, <3>2
  <2>3. CASE k + 1 = i
    <3>1. k # i /\ k < i /\ ~ (k + 1 < i) /\ (k = Len(l) - 1 <=> i = Len(l))
      BY <1>2, <2>1, <2>3
    <3>2. s[k] = l[k] /\ (k # Len(l) - 1 => s[k + 1] = l[i + 1])
      BY <1>3, <2>1, <2>3, <3>1
    <3>3. m[s[k]].next = n[p].next
      BY <1>7, <2>1, <2>3, <3>1, <3>2
    <3> QED BY <1>8, <3>1, <3>2, <3>3
  <2>4. CASE k + 1 > i
    <3>1. ~ (k < i) /\ ~ (k + 1 < i) /\ k + 1 # i /\ (k + 1) + 1 # i
          /\ (k = Len(l) - 1 <=> k + 1 = Len(l))
      BY <1>2, <2>1, <2>4
    <3>2. s[k] = l[k + 1] /\ (k # Len(l) - 1 => s[k + 1] = l[(k + 1) + 1])
      BY <1>3, <2>1, <3>1
    <3> QED BY <1>6, <1>7, <2>1, <3>1, <3>2
  <2> QED BY <1>2, <2>1, <2>2, <2>3, <2>4
<1>10. ByPrior(m, s)
  <2> SUFFICES ASSUME NEW k \in 1 .. Len(l) - 1
               PROVE  m[s[k]].prior = IF k = 1 THEN NULL ELSE s[k - 1]
    BY <1>3 DEF ByPrior
  <2>1. k \in Int /\ k \in 1 .. Len(l) /\ k + 1 \in 1 .. Len(l) /\ (k + 1) - 1 = k /\ k + 1 # 1
        /\ (k # 1 => k - 1 \in 1 .. Len(l) - 1)
    BY <1>2
  <2>2. CASE k < i
    <3>1. k # i /\ k # i + 1 /\ k - 1 < i
      BY <1>2, <2>1, <2>2
    <3>2. s[k] = l[k] /\ (k # 1 => s[k - 1] = l[k - 1])
      BY <1>3, <2>1, <2>2, <3>1
    <3> QED BY <1>6, <1>7, <2>1, <3>1, <3>2
  <2>3. CASE k = i
    <3>1. ~ (k < i) /\ k + 1 # i /\ k + 1 = i + 1 /\ k - 1 < i
      BY <1>2, <2>1, <2>3
    <3>2. s[k] = l[k + 1] /\ (k # 1 => s[k - 1] = l[k - 1])
      BY <1>3, <2>1, <3>1
    <3>3. m[s[k]].prior = n[p].prior
      BY <1>7, <2>1, <3>1, <3>2
    <3> QED BY <1>8, <2>3, <3>2, <3>3
  <2>4. CASE k > i
    <3>1. ~ (k < i) /\ k + 1 # i /\ k + 1 # i + 1 /\ ~ (k - 1 < i) /\ k # 1 /\ (k - 1) + 1 = k
      BY <1>2, <2>1, <2>4
    <3>2. s[k] = l[k + 1] /\ s[k - 1] = l[k]
      BY <1>3, <2>1, <3>1
    <3> QED BY <1>6, <1>7, <2>1, <3>1, <3>2
  <2> QED BY <1>2, <2>1, <2>2, <2>3, <2>4
<1>11. ByNext(m, u)
  <2> SUFFICES ASSUME NEW k \in 1 .. Len(v) + 1
               PROVE  m[u[k]].next = IF k = Len(v) + 1 THEN NULL ELSE u[k + 1]
    BY <1>4 DEF ByNext
  <2>1. k \in Int /\ 1 \in 1 .. Len(v)
    BY <1>2
  <2>2. CASE k = 1
    <3>1. k # Len(v) + 1 /\ u[k] = p /\ u[k + 1] = v[1]
      BY <1>2, <1>4, <2>1, <2>2
    <3> QED BY <1>7, <3>1
  <2>3. CASE k # 1
    <3>1. k - 1 \in 1 .. Len(v) /\ (k - 1) + 1 = k /\ (k = Len(v) + 1 <=> k - 1 = Len(v))
          /\ (k # Len(v) + 1 => k \in 1 .. Len(v))
      BY <1>2, <2>1, <2>3
    <3>2. u[k] = v[k - 1] /\ (k # Len(v) + 1 => u[k + 1] = v[k])
      BY <1>4, <3>1
    <3> QED BY <1>6, <1>7, <3>1, <3>2
  <2> QED BY <2>2, <2>3
<1>12. Holding(m, s, u)
  BY <1>5, <1>9, <1>10, <1>11 DEF Holding, Given
<1> QED BY <1>12 DEF p, s, u

LEMMA DeleteGiven ==
  ASSUME NEW n, NEW l, NEW v, Holding(n, l, v), v # <<>>,
         NEW i \in 1 .. Len(l), DLL_first_vacant = v[1]
  PROVE  LET m == Vacated(Joined(n, l[i]), l[i])
         IN  /\ Given(n, m, l, v, i)
             /\ \A k \in 1 .. Len(l) : k # i => m[l[k]].data = n[l[k]].data
<1> DEFINE p == l[i]
           a == n[p].prior
           b == n[p].next
           c == v[1]
           m1 == IF a = NULL THEN n ELSE WithNext(n, a, b)
           m2 == IF b = NULL THEN m1 ELSE WithPrior(m1, b, a)
           r == [prior |-> NULL, next |-> c, data |-> NULL]
           m3 == WithNode(m2, p, r)
           m == Vacated(Joined(n, p), p)
<1>1. /\ NodesOK(n) /\ Len(n) \in Nat
      /\ l \in Seq(Nat) /\ v \in Seq(Nat) /\ Len(l) \in Nat /\ Len(v) \in Nat /\ Len(v) > 0
  BY HoldingNodes
<1>2. /\ \A k \in 1 .. Len(l) : l[k] \in 1 .. Len(n)
      /\ \A k \in 1 .. Len(v) : v[k] \in 1 .. Len(n)
      /\ \A j, k \in 1 .. Len(l) : l[j] = l[k] => j = k
      /\ \A j \in 1 .. Len(l), k \in 1 .. Len(v) : l[j] # v[k]
  BY HoldingNodes
<1>3. /\ p \in 1 .. Len(n) /\ c \in 1 .. Len(n) /\ c # p
      /\ \A k \in 1 .. Len(l) : k # i => l[k] # p
      /\ \A k \in 1 .. Len(l) : l[k] # c
      /\ \A k \in 1 .. Len(v) : v[k] # p
  BY <1>1, <1>2
<1>4. i \in Int /\ (i = 1 \/ i - 1 \in 1 .. Len(l)) /\ (i = Len(l) \/ i + 1 \in 1 .. Len(l))
  BY <1>1
<1>5. /\ a = IF i = 1 THEN NULL ELSE l[i - 1]
      /\ b = IF i = Len(l) THEN NULL ELSE l[i + 1]
  BY DEF Holding, ByPrior, ByNext
<1> HIDE DEF a, b, c, p
<1>6. /\ a \in 0 .. Len(n) /\ a # p /\ a # c
      /\ a # NULL => a \in 1 .. Len(n)
      /\ \A k \in 1 .. Len(v) : v[k] # a
  <2>1. CASE i = 1
    BY <1>1, <1>2, <1>3, <1>5, <2>1 DEF NULL
  <2>2. CASE i # 1
    <3>1. i - 1 \in 1 .. Len(l) /\ i - 1 # i /\ a = l[i - 1]
      BY <1>4, <1>5, <2>2
    <3> QED BY <1>1, <1>2, <1>3, <3>1
  <2> QED BY <2>1, <2>2
<1>7. /\ b \in 0 .. Len(n) /\ b # p
      /\ b # NULL => b \in 1 .. Len(n)
  <2>1. CASE i = Len(l)
    BY <1>1, <1>3, <1>5, <2>1 DEF NULL
  <2>2. CASE i # Len(l)
    <3>1. i + 1 \in 1 .. Len(l) /\ i + 1 # i /\ b = l[i + 1]
      BY <1>4, <1>5, <2>2
    <3> QED BY <1>1, <1>2, <1>3, <3>1
  <2> QED BY <2>1, <2>2
<1>8. m = WithPrior(m3, c, p)
  BY DEF Vacated, Joined, WithNext, WithPrior, WithNode, a, b, c
<1> HIDE DEF m
<1>9. /\ NodesOK(m1) /\ Len(m1) = Len(n)
      /\ \A k \in 1 .. Len(n) : m1[k].prior = n[k].prior /\ m1[k].data = n[k].data
      /\ \A k \in 1 .. Len(n) : k # a => m1[k].next = n[k].next
      /\ a # NULL => m1[a].next = b
  <2>1. CASE a = NULL
    BY <1>1, <2>1
  <2>2. CASE a # NULL
    <3>1. a \in 1 .. Len(n) /\ b \in 0 .. Len(n) /\ m1 = WithNext(n, a, b)
      BY <1>6, <1>7, <2>2
    <3> HIDE DEF m1
    <3> QED BY <1>1, <3>1, WithNextIs
  <2> QED BY <2>1, <2>2
<1> HIDE DEF m1
<1>10. /\ NodesOK(m2) /\ Len(m2) = Len(n)
       /\ \A k \in 1 .. Len(n) : m2[k].next = m1[k].next /\ m2[k].data = m1[k].data
       /\ \A k \in 1 .. Len(n) : k # b => m2[k].prior = m1[k].prior
       /\ b # NULL => m2[b].prior = a
  <2>1. CASE b = NULL
    BY <1>9, <2>1
  <2>2. CASE b # NULL
    <3>1. b \in 1 .. Len(m1) /\ a \in 0 .. Len(m1) /\ m2 = WithPrior(m1, b, a)
      BY <1>6, <1>7, <1>9, <2>2
    <3>2. NodesOK(m1) /\ Len(m1) = Len(n)
      BY <1>9
    <3> HIDE DEF m2
    <3> QED BY <3>1, <3>2, WithPriorIs
  <2> QED BY <2>1, <2>2
<1> HIDE DEF m2
<1>11. /\ NodesOK(m3) /\ Len(m3) = Len(n) /\ m3[p] = r
       /\ \A k \in 1 .. Len(n) : k # p => m3[k] = m2[k]
  <2>1. r \in Record /\ r.prior = 0 /\ r.next = c
    BY <1>3 DEF Record, NULL
  <2> HIDE DEF r
  <2>2. /\ NodesOK(m2) /\ p \in 1 .. Len(m2) /\ Len(m2) = Len(n)
        /\ r.prior \in 0 .. Len(m2) /\ r.next \in 0 .. Len(m2)
    BY <1>1, <1>3, <1>10, <2>1
  <2> QED BY <2>1, <2>2, WithNodeIs
<1>12. r.next = c
  OBVIOUS
<1> HIDE DEF m3, r
<1>13. /\ NodesOK(m) /\ Len(m) = Len(n)
       /\ \A k \in 1 .. Len(n) : m[k].next = m3[k].next /\ m[k].data = m3[k].data
       /\ \A k \in 1 .. Len(n) : k # c => m[k].prior = m3[k].prior
  <2>1. NodesOK(m3) /\ c \in 1 .. Len(m3) /\ p \in 0 .. Len(m3) /\ Len(m3) = Len(n)
    BY <1>3, <1>11
  <2> QED BY <1>8, <2>1, WithPriorIs
<1>14. m[p].next = c
  BY <1>3, <1>11, <1>12, <1>13
<1>15. ASSUME NEW k \in 1 .. Len(l), k # i
       PROVE  /\ m[l[k]].next = IF k + 1 = i THEN b ELSE n[l[k]].next
              /\ m[l[k]].prior = IF k = i + 1 THEN a ELSE n[l[k]].prior
              /\ m[l[k]].data = n[l[k]].data
  <2>1. l[k] \in 1 .. Len(n) /\ l[k] # p /\ l[k] # c /\ l[k] # NULL /\ k \in Int
    BY <1>2, <1>3, <1>15 DEF NULL
  <2>2. m[l[k]].data = n[l[k]].data
    BY <1>9, <1>10, <1>11, <1>13, <2>1
  <2>3. m[l[k]].next = m1[l[k]].next /\ m[l[k]].prior = m2[l[k]].prior
    BY <1>10, <1>11, <1>13, <2>1
  <2>4. k + 1 = i => l[k] = a
    BY <1>1, <1>4, <1>5, <2>1
  <2>5. k + 1 # i => l[k] # a
    <3>1. CASE i = 1
      BY <1>5, <2>1, <3>1
    <3>2. CASE i # 1 /\ k + 1 # i
      <4>1. i - 1 \in 1 .. Len(l) /\ i - 1 # k /\ a = l[i - 1]
        BY <1>4, <1>5, <2>1, <3>2
      <4> QED BY <1>2, <4>1
    <3> QED BY <3>1, <3>2
  <2>6. k = i + 1 => l[k] = b
    BY <1>1, <1>4, <1>5, <2>1
  <2>7. k # i + 1 => l[k] # b
    <3>1. CASE i = Len(l)
      BY <1>5, <2>1, <3>1
    <3>2. CASE i # Len(l) /\ k # i + 1
      <4>1. i + 1 \in 1 .. Len(l) /\ b = l[i + 1]
        BY <1>4, <1>5, <3>2
      <4> QED BY <1>2, <3>2, <4>1
    <3> QED BY <3>1, <3>2
  <2>8. m[l[k]].next = IF k + 1 = i THEN b ELSE n[l[k]].next
    BY <1>9, <2>1, <2>3, <2>4, <2>5
  <2>9. m[l[k]].prior = IF k = i + 1 THEN a ELSE n[l[k]].prior
    BY <1>9, <1>10, <2>1, <2>3, <2>6, <2>7
  <2> QED BY <2>2, <2>8, <2>9
<1>16. ASSUME NEW k \in 1 .. Len(v)
       PROVE  m[v[k]].next = n[v[k]].next
  <2>1. v[k] \in 1 .. Len(n) /\ v[k] # p /\ v[k] # a
    BY <1>2, <1>3, <1>6
  <2> QED BY <1>9, <1>10, <1>11, <1>13, <2>1
<1>17. Given(n, m, l, v, i)
  BY <1>13, <1>14, <1>15, <1>16 DEF Given, a, b, c, p
<1> QED BY <1>15, <1>17 DEF m, p

-----------------------------------------------------------------------------
(* What the walks meet.  A set of numbers has a least one, by the order of *)
(* the intervals up to its members: that stands for the induction along a  *)
(* walk.                                                                   *)

LEMMA Least ==
  ASSUME NEW N \in Nat, NEW K \in SUBSET (0 .. N), K # {}
  PROVE  \E k \in K : \A j \in K : k <= j
<1> DEFINE S == 0 .. N
           T == { 0 .. k : k \in K }
<1>1. IsWellFoundedOn(StrictSubsetOrdering(S), FiniteSubsetsOf(S))
  BY FS_StrictSubsetOrderingWellFounded
<1>2. T \subseteq FiniteSubsetsOf(S)
  <2> SUFFICES ASSUME NEW k \in K
               PROVE  0 .. k \in FiniteSubsetsOf(S)
    OBVIOUS
  <2>1. k \in Nat /\ k <= N
    OBVIOUS
  <2>2. IsFiniteSet(0 .. k)
    BY <2>1, FS_Interval
  <2>3. 0 .. k \subseteq 0 .. N
    BY <2>1
  <2> QED BY <2>2, <2>3 DEF FiniteSubsetsOf
<1>3. T # {}
  OBVIOUS
<1>4. \E x \in T : \A y \in T : ~ (<<y, x>> \in StrictSubsetOrdering(S))
  <2> HIDE DEF T, S
  <2> QED BY <1>1, <1>2, <1>3, WFMin
<1>5. PICK k \in K : \A y \in T : ~ (<<y, 0 .. k>> \in StrictSubsetOrdering(S))
  BY <1>4
<1>6. ASSUME NEW j \in K, j < k
      PROVE  FALSE
  <2>1. j \in Nat /\ k \in Nat /\ k <= N /\ j <= N
    OBVIOUS
  <2>2. /\ 0 .. j \in SUBSET S /\ 0 .. k \in SUBSET S
        /\ 0 .. j \subseteq 0 .. k /\ k \in 0 .. k /\ k \notin 0 .. j
    BY <1>6, <2>1
  <2>3. 0 .. j # 0 .. k
    BY <2>2
  <2>4. <<0 .. j, 0 .. k>> \in StrictSubsetOrdering(S)
    BY <2>2, <2>3 DEF StrictSubsetOrdering
  <2>5. 0 .. j \in T
    OBVIOUS
  <2> QED BY <1>5, <2>4, <2>5
<1> QED BY <1>6

(* A walk along s, from its first node on, is in s until s ends.           *)
Walked(N, s) == [k \in 0 .. N |-> IF k < Len(s) THEN s[k + 1] ELSE NULL]

Follows(follow, s) ==
  /\ follow[NULL] = NULL
  /\ \A i \in 1 .. Len(s) : follow[s[i]] = IF i = Len(s) THEN NULL ELSE s[i + 1]

IsWalk(N, s, follow, at) ==
  at = [k \in 0 .. N |-> IF k = 0 THEN FirstOf(s) ELSE follow[at[k - 1]]]

LEMMA WalkedStep ==
  ASSUME NEW N \in Nat, NEW s \in Seq(Nat), NEW follow, Follows(follow, s), NEW k \in 1 .. N
  PROVE  Walked(N, s)[k] = follow[Walked(N, s)[k - 1]]
<1>1. Len(s) \in Nat /\ k \in Int /\ k - 1 \in 0 .. N /\ k \in 0 .. N /\ (k - 1) + 1 = k
  OBVIOUS
<1>2. /\ Walked(N, s)[k] = IF k < Len(s) THEN s[k + 1] ELSE NULL
      /\ Walked(N, s)[k - 1] = IF k - 1 < Len(s) THEN s[k] ELSE NULL
  BY <1>1 DEF Walked
<1>3. CASE k < Len(s)
  <2>1. k \in 1 .. Len(s) /\ k # Len(s) /\ k - 1 < Len(s)
    BY <1>1, <1>3
  <2> QED BY <1>2, <1>3, <2>1 DEF Follows
<1>4. CASE k = Len(s)
  <2>1. k \in 1 .. Len(s) /\ k - 1 < Len(s) /\ ~ (k < Len(s))
    BY <1>1, <1>4
  <2> QED BY <1>2, <1>4, <2>1 DEF Follows
<1>5. CASE k > Len(s)
  <2>1. ~ (k - 1 < Len(s)) /\ ~ (k < Len(s))
    BY <1>1, <1>5
  <2> QED BY <1>2, <2>1 DEF Follows
<1> QED BY <1>1, <1>3, <1>4, <1>5

LEMMA WalkedStart ==
  ASSUME NEW N \in Nat, NEW s \in Seq(Nat)
  PROVE  Walked(N, s)[0] = FirstOf(s)
BY DEF Walked, FirstOf

LEMMA WalkIs ==
  ASSUME NEW N \in Nat, NEW s \in Seq(Nat), NEW follow, Follows(follow, s),
         NEW at, IsWalk(N, s, follow, at)
  PROVE  at = Walked(N, s)
<1> DEFINE w == Walked(N, s)
           K == { k \in 0 .. N : at[k] # w[k] }
<1>1. at = [k \in 0 .. N |-> at[k]] /\ w = [k \in 0 .. N |-> w[k]]
  <2>1. at = [k \in 0 .. N |-> IF k = 0 THEN FirstOf(s) ELSE follow[at[k - 1]]]
    BY DEF IsWalk
  <2>2. at = [k \in 0 .. N |-> at[k]]
    BY <2>1
  <2>3. w = [k \in 0 .. N |-> w[k]]
    BY DEF Walked
  <2> QED BY <2>2, <2>3
<1>2. at[0] = FirstOf(s) /\ \A k \in 0 .. N : k # 0 => at[k] = follow[at[k - 1]]
  BY DEF IsWalk
<1>3. w[0] = FirstOf(s)
  BY WalkedStart
<1>4. \A k \in 1 .. N : w[k] = follow[w[k - 1]]
  BY WalkedStep
<1> HIDE DEF w
<1>5. ASSUME K # {}
      PROVE  FALSE
  <2>1. K \in SUBSET (0 .. N)
    OBVIOUS
  <2>2. PICK k \in K : \A j \in K : k <= j
    <3> HIDE DEF K
    <3> QED BY <1>5, <2>1, Least
  <2>3. k # 0 /\ k \in 0 .. N /\ k \in 1 .. N /\ k - 1 \in 0 .. N /\ ~ (k <= k - 1)
    BY <1>2, <1>3
  <2>4. at[k - 1] = w[k - 1]
    BY <2>2, <2>3
  <2>5. at[k] = w[k]
    BY <1>2, <1>4, <2>3, <2>4
  <2> QED BY <2>5
<1>6. \A k \in 0 .. N : at[k] = w[k]
  BY <1>5
<1>7. at = w
  BY <1>1, <1>6
<1> QED BY <1>7 DEF w

LEMMA WalkedMet ==
  ASSUME NEW N \in Nat, NEW s, Path(N, s), Len(s) <= N
  PROVE  Met(Walked(N, s)) = s
<1> DEFINE w == Walked(N, s)
<1>1. s \in Seq(Nat) /\ Len(s) \in Nat /\ \A i \in 1 .. Len(s) : s[i] # NULL
  BY DEF Path, NULL
<1>2. DOMAIN w = 0 .. N
  BY DEF Walked
<1>3. \A k \in 0 .. N : w[k] = IF k < Len(s) THEN s[k + 1] ELSE NULL
  BY DEF Walked
<1> HIDE DEF w
<1>4. { k \in DOMAIN w : w[k] # NULL } = 0 .. Len(s) - 1
  <2>1. ASSUME NEW k \in 0 .. N, w[k] # NULL
        PROVE  k \in 0 .. Len(s) - 1
    BY <1>1, <1>3, <2>1
  <2>2. ASSUME NEW k \in 0 .. Len(s) - 1
        PROVE  k \in 0 .. N /\ w[k] # NULL
    <3>1. k \in 0 .. N /\ k + 1 \in 1 .. Len(s) /\ k < Len(s)
      BY <1>1
    <3> QED BY <1>1, <1>3, <3>1
  <2> QED BY <1>2, <2>1, <2>2
<1>5. Cardinality(0 .. Len(s) - 1) = Len(s)
  <2> DEFINE b == Len(s) - 1
  <2>1. b \in Int /\ Len(s) = b + 1 /\ b >= 0 - 1
    BY <1>1
  <2> HIDE DEF b
  <2>2. Cardinality(0 .. b) = IF 0 > b THEN 0 ELSE b - 0 + 1
    BY <2>1, FS_Interval
  <2>3. Cardinality(0 .. b) = b + 1
    BY <2>1, <2>2
  <2> QED BY <2>1, <2>3 DEF b
<1>6. Met(w) = [i \in 1 .. Len(s) |-> w[i - 1]]
  BY <1>4, <1>5 DEF Met
<1>7. \A i \in 1 .. Len(s) : w[i - 1] = s[i]
  <2> SUFFICES ASSUME NEW i \in 1 .. Len(s)
               PROVE  w[i - 1] = s[i]
    OBVIOUS
  <2>1. i - 1 \in 0 .. N /\ i - 1 < Len(s) /\ (i - 1) + 1 = i
    BY <1>1
  <2> QED BY <1>3, <2>1
<1>8. s = [i \in 1 .. Len(s) |-> s[i]]
  BY <1>1
<1> QED BY <1>6, <1>7, <1>8 DEF w

LEMMA AlongIs ==
  ASSUME NEW follow, NEW s, Path(Len(node), s), Len(node) \in Nat, Len(s) <= Len(node),
         Follows(follow, s)
  PROVE  Met(Along(FirstOf(s), follow)) = s
<1> DEFINE N == Len(node)
           Is(at) == IsWalk(N, s, follow, at)
           w == Walked(N, s)
<1>1. s \in Seq(Nat)
  BY DEF Path
<1>2. Is(w)
  <2>1. w = [k \in 0 .. N |-> w[k]]
    BY DEF Walked
  <2>2. w[0] = FirstOf(s)
    BY <1>1, WalkedStart
  <2>3. \A k \in 1 .. N : w[k] = follow[w[k - 1]]
    BY <1>1, WalkedStep
  <2> HIDE DEF w
  <2>4. \A k \in 0 .. N : w[k] = IF k = 0 THEN FirstOf(s) ELSE follow[w[k - 1]]
    BY <2>2, <2>3
  <2> QED BY <2>1, <2>4 DEF IsWalk
<1>3. Along(FirstOf(s), follow) = CHOOSE at : Is(at)
  BY DEF Along, IsWalk
<1>4. Is(Along(FirstOf(s), follow))
  <2> HIDE DEF Is, w
  <2> QED BY <1>2, <1>3
<1>5. Along(FirstOf(s), follow) = w
  BY <1>1, <1>4, WalkIs
<1> QED BY <1>5, WalkedMet

Reversed(s) == [k \in 1 .. Len(s) |-> s[Len(s) + 1 - k]]

LEMMA ReversedIs ==
  ASSUME NEW N, NEW s, Path(N, s)
  PROVE  /\ Path(N, Reversed(s)) /\ Len(Reversed(s)) = Len(s)
         /\ FirstOf(Reversed(s)) = LastOf(s)
<1>1. s \in Seq(Nat) /\ Len(s) \in Nat
  BY DEF Path
<1>2. /\ Reversed(s) \in Seq(Nat) /\ Len(Reversed(s)) = Len(s)
      /\ \A k \in 1 .. Len(s) : Reversed(s)[k] = s[Len(s) + 1 - k]
  BY <1>1 DEF Reversed
<1>3. \A k \in 1 .. Len(s) : Len(s) + 1 - k \in 1 .. Len(s)
  BY <1>1
<1>4. /\ \A k \in 1 .. Len(s) : s[k] \in 1 .. N
      /\ \A j, k \in 1 .. Len(s) : s[j] = s[k] => j = k
  BY DEF Path
<1>5. ASSUME NEW j \in 1 .. Len(s), NEW k \in 1 .. Len(s), Reversed(s)[j] = Reversed(s)[k]
      PROVE  j = k
  <2>1. Len(s) + 1 - j = Len(s) + 1 - k
    BY <1>2, <1>3, <1>4, <1>5
  <2> QED BY <1>1, <2>1
<1>6. Path(N, Reversed(s))
  BY <1>2, <1>3, <1>4, <1>5 DEF Path
<1>7. CASE s = <<>>
  <2>1. Reversed(s) = <<>>
    BY <1>1, <1>2, <1>7
  <2> QED BY <1>2, <1>6, <1>7, <2>1 DEF FirstOf, LastOf
<1>8. CASE s # <<>>
  <2>1. 1 \in 1 .. Len(s) /\ Len(s) + 1 - 1 = Len(s) /\ Reversed(s) # <<>>
    BY <1>1, <1>2, <1>8
  <2>2. Reversed(s)[1] = s[Len(s)]
    BY <1>2, <2>1
  <2> QED BY <1>2, <1>6, <1>8, <2>1, <2>2 DEF FirstOf, LastOf
<1> QED BY <1>7, <1>8

ToNext == [q \in {NULL} \cup Nodes |-> IF q = NULL THEN NULL ELSE node[q].next]
ToPrior == [q \in {NULL} \cup Nodes |-> IF q = NULL THEN NULL ELSE node[q].prior]

LEMMA ToNextFollows ==
  ASSUME NEW s, Path(Len(node), s), NodesOK(node), ByNext(node, s)
  PROVE  Follows(ToNext, s)
<1>1. Nodes = 1 .. Len(node)
  BY DEF Nodes, NodesOK
<1>2. \A i \in 1 .. Len(s) : s[i] \in Nodes /\ s[i] # NULL
  BY <1>1 DEF Path, NULL
<1> QED BY <1>1, <1>2 DEF Follows, ToNext, ByNext

LEMMA ToPriorFollows ==
  ASSUME NEW s, Path(Len(node), s), NodesOK(node), ByPrior(node, s)
  PROVE  Follows(ToPrior, Reversed(s))
<1>1. Nodes = 1 .. Len(node)
  BY DEF Nodes, NodesOK
<1>2. \A i \in 1 .. Len(s) : s[i] \in Nodes /\ s[i] # NULL
  BY <1>1 DEF Path, NULL
<1>3. Len(s) \in Nat /\ Len(Reversed(s)) = Len(s)
  BY DEF Path, Reversed
<1>4. \A k \in 1 .. Len(s) : Reversed(s)[k] = s[Len(s) + 1 - k]
  BY DEF Reversed
<1>5. ToPrior[NULL] = NULL /\ \A q \in Nodes : q # NULL => ToPrior[q] = node[q].prior
  BY DEF ToPrior
<1>6. ASSUME NEW k \in 1 .. Len(s)
      PROVE  ToPrior[Reversed(s)[k]] = IF k = Len(s) THEN NULL ELSE Reversed(s)[k + 1]
  <2> DEFINE j == Len(s) + 1 - k
  <2>1. /\ j \in 1 .. Len(s) /\ (j = 1 <=> k = Len(s))
        /\ (k # Len(s) => k + 1 \in 1 .. Len(s) /\ Len(s) + 1 - (k + 1) = j - 1)
    BY <1>3
  <2>2. Reversed(s)[k] = s[j] /\ (k # Len(s) => Reversed(s)[k + 1] = s[j - 1])
    BY <1>4, <2>1
  <2> HIDE DEF j
  <2>3. ToPrior[s[j]] = node[s[j]].prior
    BY <1>2, <1>5, <2>1
  <2>4. node[s[j]].prior = IF j = 1 THEN NULL ELSE s[j - 1]
    BY <2>1 DEF ByPrior
  <2> QED BY <2>1, <2>2, <2>3, <2>4
<1> QED BY <1>3, <1>5, <1>6 DEF Follows

(* The walks of the module, in the terms of the invariant.                 *)
Items(n, l) == [k \in 1 .. Len(l) |-> n[l[k]].data]

Shown(l, v, c) ==
  /\ Listed = l /\ Backward(DLL_tail) = Reversed(l) /\ Forward(DLL_first_vacant) = v
  /\ Contents = Items(node, l) /\ Position = c

LEMMA StandingShown == \A l, v, c : Standing(l, v, c) => Shown(l, v, c)
<1> SUFFICES ASSUME NEW l, NEW v, NEW c, Standing(l, v, c)
             PROVE  Shown(l, v, c)
  OBVIOUS
<1>1. Holding(node, l, v)
  BY DEF Standing
<1>2. /\ NodesOK(node) /\ Len(node) \in Nat /\ Len(l) \in Nat /\ Len(v) \in Nat
      /\ l \in Seq(Nat) /\ v \in Seq(Nat)
      /\ \A j, k \in 1 .. Len(l) : l[j] = l[k] => j = k
      /\ \A k \in 1 .. Len(l) : l[k] \in 1 .. Len(node)
  BY <1>1, HoldingNodes
<1>3. /\ Path(Len(node), l) /\ Path(Len(node), v)
      /\ ByNext(node, l) /\ ByPrior(node, l) /\ ByNext(node, v)
      /\ Len(l) + Len(v) = Len(node)
  BY <1>1 DEF Holding, Parted
<1>4. Len(l) <= Len(node) /\ Len(v) <= Len(node)
  BY <1>2, <1>3
<1>5. \A p : Forward(p) = Met(Along(p, ToNext)) /\ Backward(p) = Met(Along(p, ToPrior))
  BY DEF Forward, Backward, ToNext, ToPrior
<1>6. Listed = l
  <2>1. Follows(ToNext, l)
    BY <1>2, <1>3, ToNextFollows
  <2>2. Met(Along(FirstOf(l), ToNext)) = l
    BY <1>2, <1>3, <1>4, <2>1, AlongIs
  <2> QED BY <1>5, <2>2 DEF Listed, Standing
<1>7. Forward(DLL_first_vacant) = v
  <2>1. Follows(ToNext, v)
    BY <1>2, <1>3, ToNextFollows
  <2>2. Met(Along(FirstOf(v), ToNext)) = v
    BY <1>2, <1>3, <1>4, <2>1, AlongIs
  <2> QED BY <1>5, <2>2 DEF Standing
<1>8. Backward(DLL_tail) = Reversed(l)
  <2>1. Follows(ToPrior, Reversed(l))
    BY <1>2, <1>3, ToPriorFollows
  <2>2. /\ Path(Len(node), Reversed(l)) /\ Len(Reversed(l)) = Len(l)
        /\ FirstOf(Reversed(l)) = LastOf(l)
    BY <1>3, ReversedIs
  <2>3. Met(Along(FirstOf(Reversed(l)), ToPrior)) = Reversed(l)
    BY <1>2, <1>4, <2>1, <2>2, AlongIs
  <2> QED BY <1>5, <2>2, <2>3 DEF Standing
<1>9. DOMAIN l = 1 .. Len(l)
  BY <1>2
<1>10. Contents = Items(node, l)
  BY <1>6, <1>9 DEF Contents, Items
<1>11. Position = c
  <2>1. Position = IF DLL_active_ptr = NULL THEN 0 ELSE CHOOSE i \in 1 .. Len(l) : l[i] = DLL_active_ptr
    BY <1>6, <1>9 DEF Position
  <2>2. CASE l = <<>>
    BY <2>1, <2>2 DEF Standing
  <2>3. CASE l # <<>>
    <3>1. c \in 1 .. Len(l) /\ DLL_active_ptr = l[c] /\ DLL_active_ptr # NULL
      BY <1>2, <2>3 DEF Standing, NULL
    <3>2. \A i \in 1 .. Len(l) : l[i] = DLL_active_ptr <=> i = c
      BY <1>2, <3>1
    <3>3. (CHOOSE i \in 1 .. Len(l) : l[i] = DLL_active_ptr) = c
      BY <3>1, <3>2
    <3> QED BY <2>1, <3>1, <3>3
  <2> QED BY <2>2, <2>3
<1> QED BY <1>6, <1>7, <1>8, <1>10, <1>11 DEF Shown

LEMMA StandingShownNext ==
  (\A l, v, c : Standing(l, v, c) => Shown(l, v, c))'
BY StandingShown, PTL

-----------------------------------------------------------------------------
(* The vacancies before an insertion and after it.                         *)

Ready(b, l, w) ==
  /\ Holding(b.n, l, w) /\ w # <<>>
  /\ b.vacant = w[1] /\ b.avail = Len(w)
  /\ Len(b.n) <= MaxNodes /\ Items(b.n, l) = Items(node, l)

LEMMA BeforeReady ==
  ASSUME NEW l, NEW v, NEW c, Standing(l, v, c), Bounded, NeedsNodes => CanMalloc(node)
  PROVE  \E w \in Seq(Nat) : Ready(Before, l, w)
<1> DEFINE b == Before
<1>1. /\ Holding(node, l, v) /\ DLL_first_vacant = FirstOf(v) /\ DLL_avail = Len(v)
      /\ Len(node) <= MaxNodes
  BY DEF Standing, Bounded
<1>2. /\ v \in Seq(Nat) /\ Len(node) \in Nat /\ Len(v) \in Nat /\ Len(l) \in Nat
      /\ \A k \in 1 .. Len(v) : v[k] \in 1 .. Len(node)
      /\ v # <<>> => Len(v) > 0
  BY <1>1, HoldingNodes
<1>3. CASE v = <<>>
  <2>1. NeedsNodes
    BY <1>1, <1>3 DEF NeedsNodes, FirstOf
  <2>2. b.n = Attached(node) /\ b.vacant = Len(node) + 1 /\ b.avail = DLL_avail + DLLCACHE
    BY <2>1 DEF Before
  <2>3. /\ Holding(Attached(node), l, Fresh(node))
        /\ Len(Attached(node)) = Len(node) + DLLCACHE
        /\ \A i \in 1 .. Len(l) : Attached(node)[l[i]].data = node[l[i]].data
    BY <1>1, <1>3, AttachedHolding
  <2>4. /\ Fresh(node) \in Seq(Nat) /\ Len(Fresh(node)) = DLLCACHE /\ Fresh(node) # <<>>
        /\ Fresh(node)[1] = Len(node) + 1
    <3>1. 1 \in 1 .. DLLCACHE
      BY DllAssumption
    <3> QED BY <1>2, <3>1, FreshIs
  <2>5. DLL_avail + DLLCACHE = DLLCACHE
    <3>1. DLL_avail = 0
      BY <1>1, <1>3
    <3> QED BY <3>1, DllAssumption
  <2>6. Len(Attached(node)) <= MaxNodes
    BY <2>1, <2>3 DEF CanMalloc
  <2>7. Items(Attached(node), l) = Items(node, l)
    BY <2>3 DEF Items
  <2> HIDE DEF b
  <2>8. Ready(b, l, Fresh(node))
    BY <2>2, <2>3, <2>4, <2>5, <2>6, <2>7 DEF Ready
  <2> QED BY <2>4, <2>8 DEF b
<1>4. CASE v # <<>>
  <2>1. 1 \in 1 .. Len(v) /\ v[1] # NULL /\ DLL_first_vacant = v[1] /\ DLL_avail # 0
    BY <1>1, <1>2, <1>4 DEF FirstOf, NULL
  <2>2. ~ NeedsNodes
    BY <2>1 DEF NeedsNodes
  <2>3. b.n = node /\ b.vacant = DLL_first_vacant /\ b.avail = DLL_avail
    BY <2>2 DEF Before
  <2> HIDE DEF b
  <2>4. Ready(b, l, v)
    BY <1>1, <1>4, <2>1, <2>3 DEF Ready
  <2> QED BY <1>2, <2>4 DEF b
<1> QED BY <1>3, <1>4

Refilled(l, v, items) ==
  /\ Holding(node', l, v)
  /\ DLL_first_vacant' = FirstOf(v) /\ DLL_avail' = Len(v)
  /\ v = <<>> => refused'
  /\ Items(node', l) = items
  /\ Bounded' /\ (refused => refused')

LEMMA ReplenishedRefills ==
  ASSUME NEW b, NEW l, NEW w \in Seq(Nat), Ready(b, l, w), Bounded,
         NEW m, NEW l2, Holding(m, l2, LeftOut(w, 1)), Len(m) = Len(b.n), Replenished(b, m)
  PROVE  \E v \in Seq(Nat) : Refilled(l2, v, Items(m, l2))
<1> DEFINE u == LeftOut(w, 1)
<1>1. /\ Holding(b.n, l, w) /\ w # <<>> /\ b.vacant = w[1] /\ b.avail = Len(w)
      /\ Len(b.n) <= MaxNodes
  BY DEF Ready
<1>2. Len(w) \in Nat /\ Len(w) > 0 /\ Len(m) \in Nat
  BY <1>1, HoldingNodes
<1>3. /\ u \in Seq(Nat) /\ Len(u) = Len(w) - 1
      /\ \A k \in 1 .. Len(w) - 1 : u[k] = w[k + 1]
  BY <1>2 DEF LeftOut
<1>4. b.n[b.vacant].next = FirstOf(u)
  <2>1. 1 \in 1 .. Len(w)
    BY <1>2
  <2>2. b.n[w[1]].next = IF 1 = Len(w) THEN NULL ELSE w[1 + 1]
    BY <1>1, <2>1 DEF Holding, ByNext
  <2>3. CASE Len(w) = 1
    <3>1. u = <<>>
      BY <1>3, <2>3
    <3> QED BY <1>1, <2>2, <2>3, <3>1 DEF FirstOf
  <2>4. CASE Len(w) # 1
    <3>1. 1 \in 1 .. Len(w) - 1 /\ u # <<>>
      BY <1>2, <1>3, <2>4
    <3>2. u[1] = w[1 + 1]
      BY <1>3, <3>1
    <3> QED BY <1>1, <2>2, <2>4, <3>1, <3>2 DEF FirstOf
  <2> QED BY <2>3, <2>4
<1>5. b.avail - 1 = Len(u)
  BY <1>1, <1>3
<1>6. Holding(m, l2, u)
  OBVIOUS
<1> HIDE DEF u
<1>7. CASE b.avail - 1 # 0
  <2>1. /\ node' = m /\ DLL_first_vacant' = b.n[b.vacant].next /\ DLL_avail' = b.avail - 1
        /\ refused' = refused
    BY <1>7 DEF Replenished
  <2>2. u # <<>>
    BY <1>5, <1>7
  <2>3. Refilled(l2, u, Items(m, l2))
    BY <1>1, <1>4, <1>5, <1>6, <2>1, <2>2 DEF Refilled, Bounded
  <2> QED BY <1>3, <2>3
<1>8. CASE b.avail - 1 = 0 /\ CanMalloc(m)
  <2>1. /\ node' = Attached(m) /\ DLL_first_vacant' = Len(m) + 1 /\ DLL_avail' = DLLCACHE
        /\ refused' = refused
    BY <1>8 DEF Replenished
  <2>2. u = <<>>
    BY <1>3, <1>5, <1>8
  <2>3. /\ Holding(Attached(m), l2, Fresh(m))
        /\ Len(Attached(m)) = Len(m) + DLLCACHE
        /\ \A i \in 1 .. Len(l2) : Attached(m)[l2[i]].data = m[l2[i]].data
    BY <1>6, <2>2, AttachedHolding
  <2>4. /\ Fresh(m) \in Seq(Nat) /\ Len(Fresh(m)) = DLLCACHE /\ Fresh(m) # <<>>
        /\ Fresh(m)[1] = Len(m) + 1
    <3>1. 1 \in 1 .. DLLCACHE
      BY DllAssumption
    <3> QED BY <1>2, <3>1, FreshIs
  <2>5. Len(Attached(m)) <= MaxNodes
    BY <1>8, <2>3 DEF CanMalloc
  <2>6. Items(Attached(m), l2) = Items(m, l2)
    BY <2>3 DEF Items
  <2>7. Refilled(l2, Fresh(m), Items(m, l2))
    BY <2>1, <2>3, <2>4, <2>5, <2>6 DEF Refilled, Bounded, FirstOf
  <2> QED BY <2>4, <2>7
<1>9. CASE b.avail - 1 = 0 /\ ~ CanMalloc(m)
  <2>1. /\ node' = m /\ DLL_first_vacant' = NULL /\ DLL_avail' = 0 /\ refused' = TRUE
    BY <1>9 DEF Replenished
  <2>2. u = <<>> /\ Len(u) = 0
    BY <1>3, <1>5, <1>9
  <2>3. Refilled(l2, u, Items(m, l2))
    BY <1>1, <1>6, <2>1, <2>2 DEF Refilled, Bounded, FirstOf
  <2> QED BY <1>3, <2>3
<1> QED BY <1>7, <1>8, <1>9

-----------------------------------------------------------------------------
(* The calls.                                                              *)

Steps(l, c, items) ==
  /\ \E v \in Seq(Nat) : Standing(l, v, c)'
  /\ Items(node', l) = items
  /\ Bounded' /\ (refused => refused')

NewData(n, m, l, p, d) ==
  m[p].data = d /\ \A k \in 1 .. Len(l) : m[l[k]].data = n[l[k]].data

LEMMA PutInItems ==
  ASSUME NEW n, NEW m, NEW l \in Seq(Nat), NEW i \in 1 .. Len(l) + 1, NEW p, NEW d,
         NewData(n, m, l, p, d)
  PROVE  Items(m, PutIn(l, i, p)) = PutIn(Items(n, l), i, d)
<1>1. Len(l) \in Nat /\ Len(Items(n, l)) = Len(l) /\ Len(PutIn(l, i, p)) = Len(l) + 1
  BY DEF Items, PutIn
<1>2. ASSUME NEW k \in 1 .. Len(l) + 1
      PROVE  m[PutIn(l, i, p)[k]].data = PutIn(Items(n, l), i, d)[k]
  <2>1. PutIn(l, i, p)[k] = IF k < i THEN l[k] ELSE IF k = i THEN p ELSE l[k - 1]
    BY DEF PutIn
  <2>2. PutIn(Items(n, l), i, d)[k]
          = IF k < i THEN Items(n, l)[k] ELSE IF k = i THEN d ELSE Items(n, l)[k - 1]
    BY <1>1 DEF PutIn
  <2>3. \A j \in 1 .. Len(l) : Items(n, l)[j] = n[l[j]].data
    BY DEF Items
  <2>4. (k < i => k \in 1 .. Len(l)) /\ (~ (k < i) /\ k # i => k - 1 \in 1 .. Len(l))
    BY <1>1
  <2> QED BY <2>1, <2>2, <2>3, <2>4 DEF NewData
<1>3. Items(m, PutIn(l, i, p)) = [k \in 1 .. Len(l) + 1 |-> m[PutIn(l, i, p)[k]].data]
  BY <1>1 DEF Items
<1>4. PutIn(Items(n, l), i, d) = [k \in 1 .. Len(l) + 1 |-> PutIn(Items(n, l), i, d)[k]]
  BY <1>1 DEF PutIn
<1> QED BY <1>2, <1>3, <1>4

LEMMA InsertAtEndSteps ==
  ASSUME NEW l, NEW v, NEW c, Standing(l, v, c), Bounded, NEW d \in Data, InsertAtEnd(d)
  PROVE  \E p \in Nat : Steps(PutIn(l, Len(l) + 1, p), IF c = 0 THEN 1 ELSE c,
                              PutIn(Items(node, l), Len(l) + 1, d))
<1>18. PICK b : b = Before
  OBVIOUS
<1> DEFINE p == b.vacant
           m == LinkedAtEnd(b.n, p, d)
           i == Len(l) + 1
           s == PutIn(l, i, p)
           c2 == IF c = 0 THEN 1 ELSE c
<1>1. PICK w \in Seq(Nat) : Ready(b, l, w)
  BY <1>18, BeforeReady DEF InsertAtEnd
<1>2. /\ Replenished(b, m) /\ DLL_count' = DLL_count + 1 /\ DLL_tail' = p
      /\ DLL_active_ptr' = (IF DLL_active_ptr = NULL THEN p ELSE DLL_active_ptr)
      /\ DLL_head' = (IF DLL_count = 0 THEN p ELSE DLL_head)
  BY <1>18 DEF InsertAtEnd
<1> HIDE DEF p
<1>3. /\ Holding(b.n, l, w) /\ w # <<>> /\ p = w[1] /\ Items(b.n, l) = Items(node, l)
  BY <1>1 DEF Ready, p
<1>4. /\ l \in Seq(Nat) /\ Len(l) \in Nat /\ Len(w) > 0 /\ Len(w) \in Nat
      /\ l # <<>> => Len(l) > 0
      /\ \A k \in 1 .. Len(l) : l[k] \in 1 .. Len(b.n)
  BY <1>3, HoldingNodes
<1>5. p \in Nat /\ i \in 1 .. Len(l) + 1
  <2>1. 1 \in 1 .. Len(w)
    BY <1>4
  <2> QED BY <1>3, <1>4, <2>1
<1>6. DLL_tail = LastOf(l) /\ DLL_head = FirstOf(l) /\ DLL_count = Len(l)
  BY DEF Standing
<1>7. /\ Taken(b.n, m, l, w, i)
      /\ m[p].data = d
      /\ \A k \in 1 .. Len(l) : m[l[k]].data = b.n[l[k]].data
  BY <1>3, <1>6, AtEndTaken
<1>17. i = Len(l) + 1
  OBVIOUS
<1> HIDE DEF m, i
<1>8. Holding(m, s, LeftOut(w, 1)) /\ Len(m) = Len(b.n)
  BY <1>3, <1>5, <1>7, TakenHolding DEF Taken
<1>9. Items(m, s) = PutIn(Items(node, l), i, d)
  <2>1. NewData(b.n, m, l, p, d) /\ l \in Seq(Nat) /\ i \in 1 .. Len(l) + 1
    BY <1>4, <1>5, <1>7 DEF NewData
  <2>2. Items(m, s) = PutIn(Items(b.n, l), i, d)
    BY <2>1, PutInItems
  <2> QED BY <1>3, <2>2
<1>10. PICK u \in Seq(Nat) : Refilled(s, u, PutIn(Items(node, l), i, d))
  BY <1>1, <1>2, <1>8, <1>9, ReplenishedRefills
<1>11. /\ s \in Seq(Nat) /\ Len(s) = Len(l) + 1 /\ s[i] = p
       /\ \A k \in 1 .. Len(l) : s[k] = l[k]
  <2>1. \A k \in 1 .. Len(l) : k < i
    BY <1>4, <1>17
  <2>2. /\ s \in Seq(Nat) /\ Len(s) = Len(l) + 1 /\ s[i] = p
        /\ \A k \in 1 .. Len(l) : k < i => s[k] = l[k]
    BY <1>4, <1>5, PutInIs
  <2> QED BY <2>1, <2>2
<1> HIDE DEF s
<1>12. s # <<>> /\ LastOf(s) = p
  BY <1>4, <1>11, <1>17 DEF LastOf
<1>13. FirstOf(s) = IF Len(l) = 0 THEN p ELSE FirstOf(l)
  <2>1. CASE Len(l) = 0
    BY <1>11, <1>12, <1>17, <2>1 DEF FirstOf
  <2>2. CASE Len(l) # 0
    <3>1. 1 \in 1 .. Len(l) /\ l # <<>>
      BY <1>4, <2>2
    <3> QED BY <1>11, <1>12, <2>2, <3>1 DEF FirstOf
  <2> QED BY <2>1, <2>2
<1>14. c2 \in 1 .. Len(s) /\ DLL_active_ptr' = s[c2]
  <2>1. CASE l = <<>>
    <3>1. c = 0 /\ DLL_active_ptr = NULL /\ Len(l) = 0
      BY <2>1 DEF Standing
    <3> QED BY <1>2, <1>11, <1>17, <3>1
  <2>2. CASE l # <<>>
    <3>1. c \in 1 .. Len(l) /\ DLL_active_ptr = l[c]
      BY <2>2 DEF Standing
    <3>2. l[c] # NULL /\ c2 = c /\ c \in 1 .. Len(s) /\ s[c] = l[c]
      BY <1>4, <1>11, <3>1 DEF NULL
    <3> QED BY <1>2, <3>1, <3>2
  <2> QED BY <2>1, <2>2
<1> HIDE DEF c2
<1>15. Standing(s, u, c2)'
  <2>1. /\ Holding(node', s, u) /\ DLL_first_vacant' = FirstOf(u) /\ DLL_avail' = Len(u)
        /\ u = <<>> => refused'
    BY <1>10 DEF Refilled
  <2>2. DLL_head' = FirstOf(s) /\ DLL_tail' = LastOf(s) /\ DLL_count' = Len(s)
    BY <1>2, <1>6, <1>11, <1>12, <1>13
  <2> QED BY <1>12, <1>14, <2>1, <2>2 DEF Standing
<1>16. Steps(s, c2, PutIn(Items(node, l), i, d))
  BY <1>10, <1>15 DEF Steps, Refilled
<1> QED BY <1>5, <1>16 DEF s, i, c2

LEMMA InsertBeforeSteps ==
  ASSUME NEW l, NEW v, NEW c, Standing(l, v, c), Bounded, NEW d \in Data, InsertBefore(d)
  PROVE  /\ c \in 1 .. Len(l)
         /\ \E p \in Nat : Steps(PutIn(l, c, p), c + 1, PutIn(Items(node, l), c, d))
<1>1. PICK b : b = Before
  OBVIOUS
<1> DEFINE p == b.vacant
           m == LinkedBefore(b.n, p, d)
           s == PutIn(l, c, p)
<1>2. PICK w \in Seq(Nat) : Ready(b, l, w)
  BY <1>1, BeforeReady DEF InsertBefore
<1>3. /\ Replenished(b, m) /\ DLL_count' = DLL_count + 1 /\ DLL_tail' = DLL_tail
      /\ DLL_active_ptr' = DLL_active_ptr /\ DLL_active_ptr # NULL
      /\ DLL_head' = (IF node[DLL_active_ptr].prior = NULL THEN p ELSE DLL_head)
  BY <1>1 DEF InsertBefore
<1> HIDE DEF p
<1>4. /\ Holding(b.n, l, w) /\ w # <<>> /\ p = w[1] /\ Items(b.n, l) = Items(node, l)
  BY <1>2 DEF Ready, p
<1>5. /\ l # <<>> /\ c \in 1 .. Len(l) /\ DLL_active_ptr = l[c]
      /\ DLL_tail = LastOf(l) /\ DLL_head = FirstOf(l) /\ DLL_count = Len(l)
      /\ Holding(node, l, v)
  BY <1>3 DEF Standing
<1>6. /\ l \in Seq(Nat) /\ Len(l) \in Nat /\ Len(w) > 0 /\ Len(w) \in Nat
  BY <1>4, HoldingNodes
<1>7. p \in Nat /\ c \in 1 .. Len(l) + 1 /\ c \in Int /\ 1 <= c /\ c <= Len(l)
  <2>1. 1 \in 1 .. Len(w)
    BY <1>6
  <2> QED BY <1>4, <1>5, <1>6, <2>1
<1>8. /\ Taken(b.n, m, l, w, c)
      /\ m[p].data = d
      /\ \A k \in 1 .. Len(l) : m[l[k]].data = b.n[l[k]].data
  BY <1>4, <1>5, BeforeTaken
<1> HIDE DEF m
<1>9. Holding(m, s, LeftOut(w, 1)) /\ Len(m) = Len(b.n)
  BY <1>4, <1>7, <1>8, TakenHolding DEF Taken
<1>10. Items(m, s) = PutIn(Items(node, l), c, d)
  <2>1. NewData(b.n, m, l, p, d) /\ l \in Seq(Nat) /\ c \in 1 .. Len(l) + 1
    BY <1>6, <1>7, <1>8 DEF NewData
  <2>2. Items(m, s) = PutIn(Items(b.n, l), c, d)
    BY <2>1, PutInItems
  <2> QED BY <1>4, <2>2
<1>11. PICK u \in Seq(Nat) : Refilled(s, u, PutIn(Items(node, l), c, d))
  BY <1>2, <1>3, <1>9, <1>10, ReplenishedRefills
<1>12. /\ s \in Seq(Nat) /\ Len(s) = Len(l) + 1 /\ s[c] = p
       /\ \A k \in 1 .. Len(l) : k < c => s[k] = l[k]
       /\ \A k \in 1 .. Len(l) : k >= c => s[k + 1] = l[k]
  <2>1. l \in Seq(Nat) /\ c \in 1 .. Len(l) + 1 /\ p \in Nat
    BY <1>6, <1>7
  <2> QED BY ONLY <2>1, PutInIs DEF s
<1> HIDE DEF s
<1>13. s # <<>> /\ LastOf(s) = LastOf(l)
  <2>1. Len(l) \in 1 .. Len(l) /\ Len(l) >= c /\ s # <<>>
    BY <1>6, <1>7, <1>12
  <2>2. s[Len(l) + 1] = l[Len(l)]
    BY <1>12, <2>1
  <2> QED BY <1>5, <1>12, <2>1, <2>2 DEF LastOf
<1>14. FirstOf(s) = IF node[DLL_active_ptr].prior = NULL THEN p ELSE FirstOf(l)
  <2>1. node[DLL_active_ptr].prior = IF c = 1 THEN NULL ELSE l[c - 1]
    BY <1>5 DEF Holding, ByPrior
  <2>2. CASE c = 1
    BY <1>12, <1>13, <2>1, <2>2 DEF FirstOf
  <2>3. CASE c # 1
    <3>1. c - 1 \in 1 .. Len(l) /\ 1 \in 1 .. Len(l) /\ 1 < c
      BY <1>6, <1>7, <2>3
    <3>2. l[c - 1] # NULL
      <4>1. \A k \in 1 .. Len(l) : l[k] \in 1 .. Len(node)
        BY <1>5, HoldingNodes
      <4> QED BY <3>1, <4>1 DEF NULL
    <3>3. s[1] = l[1]
      BY <1>12, <3>1
    <3> QED BY <1>5, <1>13, <2>1, <2>3, <3>2, <3>3 DEF FirstOf
  <2> QED BY <2>2, <2>3
<1>15. c + 1 \in 1 .. Len(s) /\ DLL_active_ptr' = s[c + 1]
  <2>1. c >= c /\ c + 1 \in 1 .. Len(l) + 1
    BY <1>6, <1>7
  <2> QED BY <1>3, <1>5, <1>12, <2>1
<1>16. Standing(s, u, c + 1)'
  <2>1. /\ Holding(node', s, u) /\ DLL_first_vacant' = FirstOf(u) /\ DLL_avail' = Len(u)
        /\ u = <<>> => refused'
    BY <1>11 DEF Refilled
  <2>2. DLL_head' = FirstOf(s) /\ DLL_tail' = LastOf(s) /\ DLL_count' = Len(s)
    BY <1>3, <1>5, <1>12, <1>13, <1>14
  <2> QED BY <1>13, <1>15, <2>1, <2>2 DEF Standing
<1>17. Steps(s, c + 1, PutIn(Items(node, l), c, d))
  BY <1>11, <1>16 DEF Steps, Refilled
<1> QED BY <1>5, <1>7, <1>17 DEF s

KeptData(n, m, l, i) == \A k \in 1 .. Len(l) : k # i => m[l[k]].data = n[l[k]].data

LEMMA LeftOutItems ==
  ASSUME NEW n, NEW m, NEW l \in Seq(Nat), NEW i \in 1 .. Len(l), KeptData(n, m, l, i)
  PROVE  Items(m, LeftOut(l, i)) = LeftOut(Items(n, l), i)
<1>1. Len(l) \in Nat /\ Len(Items(n, l)) = Len(l) /\ Len(LeftOut(l, i)) = Len(l) - 1
  BY DEF Items, LeftOut
<1>2. ASSUME NEW k \in 1 .. Len(l) - 1
      PROVE  m[LeftOut(l, i)[k]].data = LeftOut(Items(n, l), i)[k]
  <2>1. LeftOut(l, i)[k] = IF k < i THEN l[k] ELSE l[k + 1]
    BY DEF LeftOut
  <2>2. LeftOut(Items(n, l), i)[k]
          = IF k < i THEN Items(n, l)[k] ELSE Items(n, l)[k + 1]
    BY <1>1 DEF LeftOut
  <2>3. \A j \in 1 .. Len(l) : Items(n, l)[j] = n[l[j]].data
    BY DEF Items
  <2>4. /\ k \in 1 .. Len(l) /\ k + 1 \in 1 .. Len(l)
        /\ (k < i => k # i) /\ (~ (k < i) => k + 1 # i)
    BY <1>1
  <2> QED BY <2>1, <2>2, <2>3, <2>4 DEF KeptData
<1>3. Items(m, LeftOut(l, i)) = [k \in 1 .. Len(l) - 1 |-> m[LeftOut(l, i)[k]].data]
  BY <1>1 DEF Items
<1>4. LeftOut(Items(n, l), i) = [k \in 1 .. Len(l) - 1 |-> LeftOut(Items(n, l), i)[k]]
  BY <1>1 DEF LeftOut
<1> QED BY <1>2, <1>3, <1>4

LEMMA DeleteSteps ==
  ASSUME NEW l, NEW v, NEW c, Standing(l, v, c), Bounded, Delete
  PROVE  /\ c \in 1 .. Len(l)
         /\ Steps(LeftOut(l, c), IF c = Len(l) THEN c - 1 ELSE c, LeftOut(Items(node, l), c))
<1> DEFINE p == l[c]
           s == LeftOut(l, c)
           u == PutIn(v, 1, p)
           c2 == IF c = Len(l) THEN c - 1 ELSE c
           m == Vacated(Joined(node, p), p)
<1>1. /\ l # <<>> /\ c \in 1 .. Len(l) /\ DLL_active_ptr = p
      /\ DLL_tail = LastOf(l) /\ DLL_head = FirstOf(l) /\ DLL_count = Len(l)
      /\ DLL_first_vacant = FirstOf(v) /\ DLL_avail = Len(v)
      /\ Holding(node, l, v)
  BY DEF Standing, Delete
<1>2. v # <<>> /\ DLL_first_vacant = v[1]
  BY <1>1 DEF Delete, FirstOf
<1>3. /\ DLL_head' = IF node[p].prior = NULL THEN node[p].next ELSE DLL_head
      /\ DLL_tail' = IF node[p].next = NULL THEN node[p].prior ELSE DLL_tail
      /\ node' = m
      /\ DLL_first_vacant' = p
      /\ DLL_active_ptr' = IF node[p].next # NULL THEN node[p].next ELSE node[p].prior
      /\ DLL_avail' = DLL_avail + 1 /\ DLL_count' = DLL_count - 1
      /\ refused' = refused
  BY <1>1 DEF Delete
<1>4. /\ Given(node, m, l, v, c)
      /\ \A k \in 1 .. Len(l) : k # c => m[l[k]].data = node[l[k]].data
  BY <1>1, <1>2, DeleteGiven
<1> HIDE DEF m
<1>5. Holding(m, s, u) /\ Len(m) = Len(node)
  BY <1>1, <1>2, <1>4, GivenHolding DEF Given
<1>6. /\ l \in Seq(Nat) /\ Len(l) \in Nat /\ v \in Seq(Nat) /\ Len(v) \in Nat
      /\ \A k \in 1 .. Len(l) : l[k] \in 1 .. Len(node)
  BY <1>1, HoldingNodes
<1>7. c \in Int /\ 1 <= c /\ c <= Len(l) /\ p \in Nat
  BY <1>1, <1>6
<1>8. /\ node[p].next = IF c = Len(l) THEN NULL ELSE l[c + 1]
      /\ node[p].prior = IF c = 1 THEN NULL ELSE l[c - 1]
  BY <1>1 DEF Holding, ByNext, ByPrior
<1>9. /\ c # Len(l) => c + 1 \in 1 .. Len(l) /\ l[c + 1] # NULL
      /\ c # 1 => c - 1 \in 1 .. Len(l) /\ l[c - 1] # NULL
  <2>1. /\ c # Len(l) => c + 1 \in 1 .. Len(l)
        /\ c # 1 => c - 1 \in 1 .. Len(l)
    BY <1>6, <1>7
  <2> QED BY <1>6, <2>1 DEF NULL
<1>10. /\ s \in Seq(Nat) /\ Len(s) = Len(l) - 1
       /\ \A k \in 1 .. Len(l) - 1 : s[k] = IF k < c THEN l[k] ELSE l[k + 1]
  BY <1>1, <1>6, LeftOutIs
<1>11. u \in Seq(Nat) /\ Len(u) = Len(v) + 1 /\ u[1] = p
  <2>1. 1 \in 1 .. Len(v) + 1
    BY <1>6
  <2>2. p \in Nat /\ v \in Seq(Nat)
    BY <1>6, <1>7
  <2> HIDE DEF p
  <2> QED BY <2>1, <2>2, PutInIs
<1> HIDE DEF p, s, u, c2
<1>12. u # <<>> /\ FirstOf(u) = p
  BY <1>6, <1>11 DEF FirstOf
<1>13. DLL_head' = FirstOf(s)
  <2>1. CASE c = 1 /\ Len(l) = 1
    <3>1. s = <<>>
      BY <1>10, <2>1
    <3> QED BY <1>3, <1>8, <2>1, <3>1 DEF FirstOf
  <2>2. CASE c = 1 /\ Len(l) # 1
    <3>1. 1 \in 1 .. Len(l) - 1 /\ ~ (1 < c) /\ s # <<>>
      BY <1>6, <1>7, <1>10, <2>2
    <3>2. s[1] = l[c + 1]
      BY <1>10, <2>2, <3>1
    <3> QED BY <1>3, <1>8, <2>2, <3>1, <3>2 DEF FirstOf
  <2>3. CASE c # 1
    <3>1. 1 \in 1 .. Len(l) - 1 /\ 1 < c /\ s # <<>>
      BY <1>6, <1>7, <1>10, <2>3
    <3>2. s[1] = l[1]
      BY <1>10, <3>1
    <3> QED BY <1>1, <1>3, <1>8, <1>9, <2>3, <3>1, <3>2 DEF FirstOf
  <2> QED BY <2>1, <2>2, <2>3
<1>14. DLL_tail' = LastOf(s)
  <2>1. CASE Len(l) = 1
    <3>1. s = <<>> /\ c = 1
      BY <1>7, <1>10, <2>1
    <3> QED BY <1>3, <1>8, <2>1, <3>1 DEF LastOf
  <2>2. CASE Len(l) # 1 /\ c = Len(l)
    <3>1. Len(l) - 1 \in 1 .. Len(l) - 1 /\ Len(l) - 1 < c /\ s # <<>> /\ c # 1 /\ c - 1 = Len(l) - 1
      BY <1>6, <1>7, <1>10, <2>2
    <3>2. s[Len(s)] = l[c - 1]
      BY <1>10, <3>1
    <3> QED BY <1>3, <1>8, <2>2, <3>1, <3>2 DEF LastOf
  <2>3. CASE Len(l) # 1 /\ c # Len(l)
    <3>1. /\ Len(l) - 1 \in 1 .. Len(l) - 1 /\ ~ (Len(l) - 1 < c) /\ s # <<>>
          /\ (Len(l) - 1) + 1 = Len(l)
      BY <1>6, <1>7, <1>10, <2>3
    <3>2. s[Len(s)] = l[Len(l)]
      BY <1>10, <3>1
    <3> QED BY <1>1, <1>3, <1>8, <1>9, <2>3, <3>1, <3>2 DEF LastOf
  <2> QED BY <2>1, <2>2, <2>3
<1>15. IF s = <<>> THEN c2 = 0 /\ DLL_active_ptr' = NULL
                   ELSE c2 \in 1 .. Len(s) /\ DLL_active_ptr' = s[c2]
  <2>1. CASE Len(l) = 1
    <3>1. s = <<>> /\ c = 1
      BY <1>7, <1>10, <2>1
    <3> QED BY <1>3, <1>8, <2>1, <3>1 DEF c2
  <2>2. CASE Len(l) # 1 /\ c = Len(l)
    <3>1. /\ c2 = c - 1 /\ c - 1 \in 1 .. Len(l) - 1 /\ c - 1 < c /\ s # <<>> /\ c # 1
      BY <1>6, <1>7, <1>10, <2>2 DEF c2
    <3>2. s[c - 1] = l[c - 1]
      BY <1>10, <3>1
    <3> QED BY <1>3, <1>8, <1>10, <2>2, <3>1, <3>2
  <2>3. CASE Len(l) # 1 /\ c # Len(l)
    <3>1. c2 = c /\ c \in 1 .. Len(l) - 1 /\ ~ (c < c) /\ s # <<>>
      BY <1>6, <1>7, <1>10, <2>3 DEF c2
    <3>2. s[c] = l[c + 1]
      BY <1>10, <3>1
    <3> QED BY <1>3, <1>8, <1>9, <1>10, <2>3, <3>1, <3>2
  <2> QED BY <2>1, <2>2, <2>3
<1>16. Standing(s, u, c2)'
  <2>1. Holding(node', s, u) /\ DLL_first_vacant' = FirstOf(u) /\ DLL_avail' = Len(u)
    BY <1>1, <1>3, <1>5, <1>11, <1>12
  <2>2. DLL_count' = Len(s)
    BY <1>1, <1>3, <1>10
  <2> QED BY <1>12, <1>13, <1>14, <1>15, <2>1, <2>2 DEF Standing
<1>17. Items(node', s) = LeftOut(Items(node, l), c)
  <2>1. KeptData(node, m, l, c)
    BY <1>4 DEF KeptData
  <2> QED BY <1>1, <1>3, <1>6, <2>1, LeftOutItems DEF s
<1>18. Steps(s, c2, LeftOut(Items(node, l), c))
  BY <1>3, <1>5, <1>11, <1>16, <1>17 DEF Steps, Bounded
<1> QED BY <1>1, <1>18 DEF s, c2

(* First, Next and Prev move the cursor; the calls that fail or die leave  *)
(* the list alone.                                                         *)
LEMMA MoveSteps ==
  ASSUME NEW l, NEW v, NEW c, Standing(l, v, c), Bounded, First \/ NextOne \/ Prev
  PROVE  /\ c \in 1 .. Len(l)
         /\ \E c2 \in {1, c + 1, c - 1} \cap 1 .. Len(l) : Steps(l, c2, Items(node, l))
<1>1. /\ Holding(node, l, v) /\ DLL_head = FirstOf(l) /\ DLL_tail = LastOf(l)
      /\ DLL_count = Len(l) /\ DLL_first_vacant = FirstOf(v) /\ DLL_avail = Len(v)
      /\ v = <<>> /\ l # <<>> => refused
  BY DEF Standing
<1>2. /\ l \in Seq(Nat) /\ v \in Seq(Nat) /\ Len(l) \in Nat
      /\ \A k \in 1 .. Len(l) : l[k] \in 1 .. Len(node)
  BY <1>1, HoldingNodes
<1>3. /\ DLL_head' = DLL_head /\ DLL_tail' = DLL_tail /\ DLL_first_vacant' = DLL_first_vacant
      /\ DLL_count' = DLL_count /\ DLL_avail' = DLL_avail /\ node' = node /\ refused' = refused
  BY DEF First, NextOne, Prev, MoveTo
<1>4. l # <<>>
  BY <1>1, <1>2 DEF First, NextOne, Prev, Standing
<1>5. c \in 1 .. Len(l) /\ DLL_active_ptr = l[c] /\ c \in Int /\ 1 \in 1 .. Len(l)
  BY <1>2, <1>4 DEF Standing
<1>6. ASSUME NEW c2 \in 1 .. Len(l), DLL_active_ptr' = l[c2]
      PROVE  Steps(l, c2, Items(node, l))
  <2>1. Standing(l, v, c2)'
    BY <1>1, <1>3, <1>4, <1>6 DEF Standing
  <2> QED BY <1>2, <1>3, <2>1 DEF Steps, Bounded
<1>7. CASE First
  <2>1. DLL_active_ptr' = l[1]
    BY <1>1, <1>4, <1>7 DEF First, MoveTo, FirstOf
  <2> QED BY <1>5, <1>6, <2>1
<1>8. CASE NextOne
  <2>1. DLL_active_ptr' = node[l[c]].next /\ node[l[c]].next # NULL
    BY <1>5, <1>8 DEF NextOne, MoveTo
  <2>2. node[l[c]].next = IF c = Len(l) THEN NULL ELSE l[c + 1]
    BY <1>1, <1>5 DEF Holding, ByNext
  <2>3. c + 1 \in 1 .. Len(l)
    BY <1>2, <1>5, <2>1, <2>2
  <2> QED BY <1>5, <1>6, <2>1, <2>2, <2>3
<1>9. CASE Prev
  <2>1. DLL_active_ptr' = node[l[c]].prior /\ node[l[c]].prior # NULL
    BY <1>5, <1>9 DEF Prev, MoveTo
  <2>2. node[l[c]].prior = IF c = 1 THEN NULL ELSE l[c - 1]
    BY <1>1, <1>5 DEF Holding, ByPrior
  <2>3. c - 1 \in 1 .. Len(l)
    BY <1>2, <1>5, <2>1, <2>2
  <2> QED BY <1>5, <1>6, <2>1, <2>2, <2>3
<1> QED BY <1>7, <1>8, <1>9

LEMMA QuietSteps ==
  ASSUME NEW l, NEW v, NEW c, Standing(l, v, c), Bounded,
         InsertFails \/ DeleteDies \/ PrevDies \/ UNCHANGED vars
  PROVE  Steps(l, c, Items(node, l))
<1>1. /\ Holding(node, l, v) /\ DLL_head = FirstOf(l) /\ DLL_tail = LastOf(l)
      /\ DLL_count = Len(l) /\ DLL_first_vacant = FirstOf(v) /\ DLL_avail = Len(v)
      /\ v = <<>> /\ l # <<>> => refused
      /\ IF l = <<>> THEN c = 0 /\ DLL_active_ptr = NULL
                     ELSE c \in 1 .. Len(l) /\ DLL_active_ptr = l[c]
  BY DEF Standing
<1>2. /\ v \in Seq(Nat) /\ Len(v) \in Nat
      /\ \A k \in 1 .. Len(v) : v[k] \in 1 .. Len(node)
      /\ v # <<>> => Len(v) > 0
  BY <1>1, HoldingNodes
<1>3. /\ DLL_head' = DLL_head /\ DLL_tail' = DLL_tail /\ DLL_active_ptr' = DLL_active_ptr
      /\ DLL_count' = DLL_count /\ DLL_avail' = DLL_avail /\ node' = node
  BY DEF InsertFails, DeleteDies, PrevDies, vars
<1>4. DLL_first_vacant' = FirstOf(v) /\ refused' \in BOOLEAN /\ (refused => refused')
  <2>1. CASE InsertFails
    <3>1. DLL_avail = 0 \/ DLL_first_vacant = NULL
      BY <2>1 DEF InsertFails, NeedsNodes
    <3>2. v = <<>>
      <4> SUFFICES ASSUME v # <<>> PROVE FALSE
        OBVIOUS
      <4>1. 1 \in 1 .. Len(v) /\ v[1] # NULL /\ DLL_first_vacant = v[1]
        BY <1>1, <1>2 DEF NULL, FirstOf
      <4> QED BY <1>1, <1>2, <3>1, <4>1
    <3> QED BY <2>1, <3>2 DEF InsertFails, FirstOf
  <2>2. CASE DeleteDies \/ PrevDies \/ UNCHANGED vars
    BY <1>1, <2>2 DEF DeleteDies, PrevDies, vars, Bounded
  <2> QED BY <2>1, <2>2
<1>5. Standing(l, v, c)'
  BY <1>1, <1>3, <1>4 DEF Standing
<1> QED BY <1>2, <1>3, <1>4, <1>5 DEF Steps, Bounded

-----------------------------------------------------------------------------
(* The inductive invariant.                                                *)

LEMMA StandingIs ==
  \A l, v, c : Standing(l, v, c) => l \in Seq(Nat) /\ v \in Seq(Nat) /\ c \in Nat
<1> SUFFICES ASSUME NEW l, NEW v, NEW c, Standing(l, v, c)
             PROVE  l \in Seq(Nat) /\ v \in Seq(Nat) /\ c \in Nat
  OBVIOUS
<1>1. l \in Seq(Nat) /\ v \in Seq(Nat)
  BY HoldingNodes DEF Standing
<1> QED BY <1>1 DEF Standing

LEMMA StandingIsNext ==
  (\A l, v, c : Standing(l, v, c) => l \in Seq(Nat) /\ v \in Seq(Nat) /\ c \in Nat)'
BY StandingIs, PTL

LEMMA StepsStand ==
  ASSUME NEW l, NEW c, NEW items, Steps(l, c, items)
  PROVE  /\ (\E m, v \in Seq(Nat), k \in Nat : Standing(m, v, k))'
         /\ Bounded' /\ (refused => refused')
         /\ Contents' = items /\ Position' = c
<1>1. PICK v \in Seq(Nat) : Standing(l, v, c)'
  BY DEF Steps
<1>2. l \in Seq(Nat) /\ c \in Nat
  BY <1>1, StandingIsNext
<1>3. Shown(l, v, c)'
  BY <1>1, StandingShownNext
<1>4. Contents' = items /\ Position' = c
  BY <1>3 DEF Shown, Steps
<1> QED BY <1>1, <1>2, <1>4 DEF Steps

OfLength(t, n) == t = [k \in 1 .. n |-> t[k]]

(* PutIn and LeftOut as CursorList says them.                              *)
LEMMA ItemsSpliced ==
  ASSUME NEW t, NEW n \in Nat, NEW d, OfLength(t, n)
  PROVE  /\ Len(t) = n /\ DOMAIN t = 1 .. n
         /\ PutIn(t, n + 1, d) = Append(t, d)
         /\ \A i \in 1 .. n :
              /\ PutIn(t, i, d) = SubSeq(t, 1, i - 1) \o <<d>> \o SubSeq(t, i, Len(t))
              /\ LeftOut(t, i) = SubSeq(t, 1, i - 1) \o SubSeq(t, i + 1, Len(t))
<1>4. t = [k \in 1 .. n |-> t[k]]
  BY DEF OfLength
<1> DEFINE S == { t[k] : k \in 1 .. n } \cup {d}
<1>1. t \in Seq(S) /\ Len(t) = n /\ d \in S /\ DOMAIN t = 1 .. n
  <2>1. \A k \in 1 .. n : t[k] \in S
    OBVIOUS
  <2>2. d \in S
    OBVIOUS
  <2> HIDE DEF S
  <2>3. t \in [1 .. n -> S]
    BY <1>4, <2>1
  <2> QED BY <2>2, <2>3
<1> HIDE DEF S
<1>2. PutIn(t, n + 1, d) = Append(t, d)
  <2>1. /\ Append(t, d) \in Seq(S) /\ Len(Append(t, d)) = n + 1
        /\ \A k \in 1 .. n : Append(t, d)[k] = t[k]
        /\ Append(t, d)[n + 1] = d
    BY <1>1
  <2>2. /\ PutIn(t, n + 1, d) = [k \in 1 .. n + 1 |-> IF k < n + 1 THEN t[k] ELSE d]
    <3>1. \A k \in 1 .. n + 1 : ~ (k < n + 1) => k = n + 1
      OBVIOUS
    <3> QED BY <1>1, <3>1 DEF PutIn
  <2>3. PutIn(t, n + 1, d) \in Seq(S) /\ Len(PutIn(t, n + 1, d)) = n + 1
    <3>1. \A k \in 1 .. n + 1 : k < n + 1 => k \in 1 .. n
      OBVIOUS
    <3>2. \A k \in 1 .. n : t[k] \in S
      BY <1>1
    <3>3. \A k \in 1 .. n + 1 : (IF k < n + 1 THEN t[k] ELSE d) \in S
      BY <1>1, <3>1, <3>2
    <3> DEFINE u == [k \in 1 .. n + 1 |-> IF k < n + 1 THEN t[k] ELSE d]
    <3>4. u \in [1 .. n + 1 -> S]
      BY <3>3
    <3>5. PutIn(t, n + 1, d) = u /\ n + 1 \in Nat
      BY <2>2
    <3> HIDE DEF u
    <3>6. u \in Seq(S) /\ Len(u) = n + 1
      BY <3>4, <3>5
    <3> QED BY <3>5, <3>6
  <2>4. ASSUME NEW k \in 1 .. n + 1
        PROVE  PutIn(t, n + 1, d)[k] = Append(t, d)[k]
    <3>1. (k < n + 1 => k \in 1 .. n) /\ (~ (k < n + 1) => k = n + 1)
      OBVIOUS
    <3> QED BY <2>1, <2>2, <3>1
  <2> QED BY <2>1, <2>3, <2>4, ByItems
<1>3. \A i \in 1 .. n :
        /\ PutIn(t, i, d) = SubSeq(t, 1, i - 1) \o <<d>> \o SubSeq(t, i, Len(t))
        /\ LeftOut(t, i) = SubSeq(t, 1, i - 1) \o SubSeq(t, i + 1, Len(t))
  BY <1>1, PutInSpliced, LeftOutSpliced
<1> QED BY <1>1, <1>2, <1>3

LEMMA InitStands == Init => Standing(<<>>, <<>>, 0)
<1> SUFFICES ASSUME Init
             PROVE  Standing(<<>>, <<>>, 0)
  OBVIOUS
<1>1. node = <<>> /\ Len(node) = 0 /\ node \in Seq(Record)
  BY DEF Init
<1>2. Parted(0, <<>>, <<>>)
  BY DEF Parted, Path
<1>3. NodesOK(node) /\ ByNext(node, <<>>) /\ ByPrior(node, <<>>)
  BY <1>1 DEF NodesOK, ByNext, ByPrior
<1> QED BY <1>1, <1>2, <1>3 DEF Standing, Holding, Init, FirstOf, LastOf

(* What every step does to the list, in the words of CursorList.           *)
Calls == [List!Next]_<<Contents, Position>>

LEMMA StepKeeps ==
  ASSUME IInv, [Next]_vars
  PROVE  /\ (\E l, v \in Seq(Nat), c \in Nat : Standing(l, v, c))'
         /\ Bounded' /\ (refused => refused')
         /\ Calls
<1>1. PICK l \in Seq(Nat), v \in Seq(Nat), c \in Nat : Standing(l, v, c)
  BY DEF IInv
<1>2. Bounded
  BY DEF IInv
<1>3. Contents = Items(node, l) /\ Position = c
  BY <1>1, StandingShown DEF Shown
<1>4. PICK t : t = Items(node, l)
  OBVIOUS
<1>10. Len(l) \in Nat /\ OfLength(t, Len(l))
  BY <1>4 DEF Items, OfLength
<1>11. \A k \in 1 .. Len(l) : k \in Int /\ k # 0
  BY <1>10
<1>12. Contents = t /\ Position = c
  BY <1>3, <1>4
<1>5. ASSUME NEW d \in Data, InsertAtEnd(d)
      PROVE  /\ (\E m, u \in Seq(Nat), k \in Nat : Standing(m, u, k))'
             /\ Bounded' /\ (refused => refused')
             /\ List!AtEnd(d)
  <2>1. PICK p \in Nat : Steps(PutIn(l, Len(l) + 1, p), IF c = 0 THEN 1 ELSE c,
                               PutIn(t, Len(l) + 1, d))
    BY <1>1, <1>2, <1>4, <1>5, InsertAtEndSteps
  <2>2. PutIn(t, Len(l) + 1, d) = Append(t, d)
    BY <1>10, ItemsSpliced
  <2>3. /\ (\E m, u \in Seq(Nat), k \in Nat : Standing(m, u, k))'
        /\ Bounded' /\ (refused => refused')
        /\ Contents' = Append(t, d) /\ Position' = IF c = 0 THEN 1 ELSE c
    BY <2>1, <2>2, StepsStand
  <2> QED BY <1>12, <2>3 DEF List!AtEnd
<1>6. ASSUME NEW d \in Data, InsertBefore(d)
      PROVE  /\ (\E m, u \in Seq(Nat), k \in Nat : Standing(m, u, k))'
             /\ Bounded' /\ (refused => refused')
             /\ List!BeforeCursor(d)
  <2>1. c \in 1 .. Len(l)
    BY <1>1, <1>2, <1>6, InsertBeforeSteps
  <2>2. PICK p \in Nat : Steps(PutIn(l, c, p), c + 1, PutIn(t, c, d))
    BY <1>1, <1>2, <1>4, <1>6, InsertBeforeSteps
  <2>3. PutIn(t, c, d) = SubSeq(t, 1, c - 1) \o <<d>> \o SubSeq(t, c, Len(t))
    <3>1. \A i \in 1 .. Len(l) :
            PutIn(t, i, d) = SubSeq(t, 1, i - 1) \o <<d>> \o SubSeq(t, i, Len(t))
      BY <1>10, ItemsSpliced
    <3> QED BY <2>1, <3>1
  <2>4. /\ (\E m, u \in Seq(Nat), k \in Nat : Standing(m, u, k))'
        /\ Bounded' /\ (refused => refused')
        /\ Contents' = PutIn(t, c, d) /\ Position' = c + 1
    BY <2>2, StepsStand
  <2>5. c # 0
    BY <1>11, <2>1
  <2> QED BY <1>12, <2>3, <2>4, <2>5 DEF List!BeforeCursor
<1>7. ASSUME Delete
      PROVE  /\ (\E m, u \in Seq(Nat), k \in Nat : Standing(m, u, k))'
             /\ Bounded' /\ (refused => refused')
             /\ List!Deleted
  <2>1. /\ c \in 1 .. Len(l)
        /\ Steps(LeftOut(l, c), IF c = Len(l) THEN c - 1 ELSE c, LeftOut(t, c))
    BY <1>1, <1>2, <1>4, <1>7, DeleteSteps
  <2>2. /\ LeftOut(t, c) = SubSeq(t, 1, c - 1) \o SubSeq(t, c + 1, Len(t))
        /\ Len(t) = Len(l)
    BY <1>10, <2>1, ItemsSpliced
  <2>3. /\ (\E m, u \in Seq(Nat), k \in Nat : Standing(m, u, k))'
        /\ Bounded' /\ (refused => refused')
        /\ Contents' = LeftOut(t, c)
        /\ Position' = IF c = Len(l) THEN c - 1 ELSE c
    BY <2>1, StepsStand
  <2>4. c # 0
    BY <1>11, <2>1
  <2>5. Len(Contents) = Len(l)
    BY <1>12, <2>2
  <2> QED BY <1>12, <2>2, <2>3, <2>4, <2>5 DEF List!Deleted
<1>8. ASSUME First \/ NextOne \/ Prev
      PROVE  /\ (\E m, u \in Seq(Nat), k \in Nat : Standing(m, u, k))'
             /\ Bounded' /\ (refused => refused')
             /\ List!Moved
  <2>1. c \in 1 .. Len(l)
    BY <1>1, <1>2, <1>8, MoveSteps
  <2>2. PICK c2 \in {1, c + 1, c - 1} \cap 1 .. Len(l) : Steps(l, c2, t)
    BY <1>1, <1>2, <1>4, <1>8, MoveSteps
  <2>3. DOMAIN Contents = 1 .. Len(l)
    BY <1>12, <1>10, ItemsSpliced
  <2>4. /\ (\E m, u \in Seq(Nat), k \in Nat : Standing(m, u, k))'
        /\ Bounded' /\ (refused => refused')
        /\ Contents' = t /\ Position' = c2
    BY <2>2, StepsStand
  <2>5. c # 0
    BY <1>11, <2>1
  <2> QED BY <1>12, <2>3, <2>4, <2>5 DEF List!Moved
<1>9. ASSUME InsertFails \/ DeleteDies \/ PrevDies \/ UNCHANGED vars
      PROVE  /\ (\E m, u \in Seq(Nat), k \in Nat : Standing(m, u, k))'
             /\ Bounded' /\ (refused => refused')
             /\ UNCHANGED <<Contents, Position>>
  <2>1. Steps(l, c, t)
    BY <1>1, <1>2, <1>4, <1>9, QuietSteps
  <2> QED BY <1>12, <2>1, StepsStand
<1> QED BY <1>5, <1>6, <1>7, <1>8, <1>9 DEF Calls, Next, List!Next

LEMMA Initially == Init => IInv
<1> SUFFICES ASSUME Init
             PROVE  IInv
  OBVIOUS
<1>1. <<>> \in Seq(Nat) /\ 0 \in Nat /\ Standing(<<>>, <<>>, 0)
  BY InitStands
<1>2. \E l, v \in Seq(Nat), c \in Nat : Standing(l, v, c)
  BY <1>1
<1>3. Len(node) = 0 /\ MaxNodes \in Nat
  BY DllAssumption DEF Init
<1>5. refused = FALSE
  BY DEF Init
<1>6. Len(node) <= MaxNodes
  BY <1>3
<1>4. Bounded
  BY <1>5, <1>6 DEF Bounded
<1> QED BY <1>2, <1>4 DEF IInv, Init, DiesOnlyOutOfMemory

LEMMA Inductive == IInv /\ [Next]_vars => IInv'
<1> SUFFICES ASSUME IInv, [Next]_vars
             PROVE  IInv'
  OBVIOUS
<1>1. /\ (\E l, v \in Seq(Nat), c \in Nat : Standing(l, v, c))'
      /\ Bounded' /\ (refused => refused')
  BY StepKeeps
<1>2. state' \in {"running", "died in DLL_Delete", "died in DLL_Prev"}
  BY DEF IInv, Next, InsertAtEnd, InsertBefore, InsertFails, Delete, DeleteDies,
         First, NextOne, Prev, PrevDies, MoveTo, vars
<1>3. state' = "died in DLL_Delete" => refused'
  <2>1. CASE DeleteDies
    <3>1. PICK l \in Seq(Nat), v \in Seq(Nat), c \in Nat : Standing(l, v, c)
      BY DEF IInv
    <3>2. /\ Holding(node, l, v) /\ DLL_first_vacant = FirstOf(v) /\ l # <<>>
          /\ v = <<>> /\ l # <<>> => refused
      BY <2>1, <3>1 DEF Standing, DeleteDies
    <3>3. v = <<>>
      <4> SUFFICES ASSUME v # <<>> PROVE FALSE
        OBVIOUS
      <4>1. Len(v) \in Nat /\ Len(v) > 0 /\ \A k \in 1 .. Len(v) : v[k] \in 1 .. Len(node)
        BY <3>2, HoldingNodes
      <4>2. 1 \in 1 .. Len(v) /\ DLL_first_vacant = v[1]
        BY <3>2, <4>1 DEF FirstOf
      <4>3. v[1] # 0
        BY <4>1, <4>2
      <4> QED BY <2>1, <4>2, <4>3 DEF DeleteDies, NULL
    <3> QED BY <1>1, <3>2, <3>3
  <2>2. CASE ~ DeleteDies
    <3>1. state' = state \/ state' = "died in DLL_Prev"
      BY <2>2 DEF Next, InsertAtEnd, InsertBefore, InsertFails, Delete,
         First, NextOne, Prev, PrevDies, MoveTo, vars
    <3> QED BY <1>1, <3>1 DEF IInv, DiesOnlyOutOfMemory
  <2> QED BY <2>1, <2>2
<1> QED BY <1>1, <1>2, <1>3 DEF IInv, DiesOnlyOutOfMemory

(* Whatever is inserted, deleted and moved to, and whichever malloc fails: *)
(* the next links of the nodes make up one list and one list of vacancies. *)
THEOREM DllInvariance == Spec => []IInv
  BY Initially, Inductive, PTL DEF Spec

LEMMA IInvSound == IInv => TypeOK /\ LinksAgree /\ NoNodeLost /\ DiesOnlyOutOfMemory
<1> SUFFICES ASSUME IInv
             PROVE  TypeOK /\ LinksAgree /\ NoNodeLost /\ DiesOnlyOutOfMemory
  OBVIOUS
<1>1. PICK l \in Seq(Nat), v \in Seq(Nat), c \in Nat : Standing(l, v, c)
  BY DEF IInv
<1>2. /\ Holding(node, l, v) /\ DLL_head = FirstOf(l) /\ DLL_tail = LastOf(l)
      /\ DLL_count = Len(l) /\ DLL_first_vacant = FirstOf(v) /\ DLL_avail = Len(v)
      /\ IF l = <<>> THEN c = 0 /\ DLL_active_ptr = NULL
                     ELSE c \in 1 .. Len(l) /\ DLL_active_ptr = l[c]
  BY <1>1 DEF Standing
<1>13. Holding(node, l, v)
  BY <1>2
<1>3. /\ NodesOK(node) /\ Len(node) \in Nat
      /\ Len(l) \in Nat /\ Len(v) \in Nat
      /\ \A k \in 1 .. Len(l) : l[k] \in 1 .. Len(node)
      /\ \A k \in 1 .. Len(v) : v[k] \in 1 .. Len(node)
      /\ \A j \in 1 .. Len(l), k \in 1 .. Len(v) : l[j] # v[k]
      /\ v # <<>> => Len(v) > 0
      /\ l # <<>> => Len(l) > 0
  BY ONLY <1>13, HoldingNodes
<1>4. /\ Len(l) + Len(v) = Len(node)
      /\ \A p \in 1 .. Len(node) : Has(l, p) \/ Has(v, p)
  BY <1>2 DEF Holding, Parted
<1>5. Nodes = 1 .. Len(node)
  BY <1>3 DEF Nodes, NodesOK
<1>6. /\ Listed = l /\ Backward(DLL_tail) = Reversed(l) /\ Forward(DLL_first_vacant) = v
  BY <1>1, StandingShown DEF Shown
<1>7. InSeq(l) = { l[k] : k \in 1 .. Len(l) } /\ InSeq(v) = { v[k] : k \in 1 .. Len(v) }
  BY DEF InSeq
<1>8. TypeOK
  <2>1. Len(node) <= MaxNodes /\ refused \in BOOLEAN
    BY DEF IInv, Bounded
  <2>2. Len(node) \in 0 .. MaxNodes /\ DLL_count \in 0 .. MaxNodes /\ DLL_avail \in 0 .. MaxNodes
    BY <1>2, <1>3, <1>4, <2>1, DllAssumption
  <2>3. DLL_head \in {NULL} \cup Nodes
    BY <1>2, <1>3, <1>5 DEF FirstOf
  <2>4. DLL_tail \in {NULL} \cup Nodes
    BY <1>2, <1>3, <1>5 DEF LastOf
  <2>5. DLL_first_vacant \in {NULL} \cup Nodes
    BY <1>2, <1>3, <1>5 DEF FirstOf
  <2>6. DLL_active_ptr \in {NULL} \cup Nodes
    BY <1>2, <1>3, <1>5
  <2>7. ASSUME NEW p \in Nodes
        PROVE  /\ {node[p].prior, node[p].next} \subseteq {NULL} \cup Nodes
               /\ node[p].data \in Data \cup {NULL}
    <3>1. node[p] \in Record /\ node[p].prior <= Len(node) /\ node[p].next <= Len(node)
      BY <1>3, <1>5 DEF NodesOK
    <3>2. node[p].prior \in Nat /\ node[p].next \in Nat /\ node[p].data \in Data \cup {NULL}
      BY <3>1 DEF Record
    <3> QED BY <1>3, <1>5, <3>1, <3>2 DEF NULL
  <2> QED BY <2>1, <2>2, <2>3, <2>4, <2>5, <2>6, <2>7 DEF TypeOK, IInv
<1>9. LinksAgree
  <2>1. Len(Reversed(l)) = Len(l) /\ \A k \in 1 .. Len(l) : Reversed(l)[k] = l[Len(l) + 1 - k]
    BY <1>3 DEF Reversed
  <2>2. ASSUME NEW i \in 1 .. Len(l)
        PROVE  l[i] = Reversed(l)[Len(l) + 1 - i]
    <3>1. Len(l) + 1 - i \in 1 .. Len(l) /\ Len(l) + 1 - (Len(l) + 1 - i) = i
      BY <1>3
    <3> QED BY <2>1, <3>1
  <2>3. IF Len(l) = 0 THEN DLL_active_ptr = NULL ELSE DLL_active_ptr \in InSeq(l)
    <3>1. CASE l = <<>>
      BY <1>2, <3>1
    <3>2. CASE l # <<>>
      BY <1>2, <1>3, <1>7, <3>2
    <3> QED BY <3>1, <3>2
  <2> QED BY <1>2, <1>6, <2>1, <2>2, <2>3 DEF LinksAgree
<1>10. NoNodeLost
  <2>1. InSeq(v) \cap InSeq(l) = {}
    BY <1>3, <1>7
  <2>2. InSeq(v) \cup InSeq(l) = Nodes
    BY <1>3, <1>4, <1>5, <1>7 DEF Has
  <2> QED BY <1>2, <1>6, <2>1, <2>2 DEF NoNodeLost
<1> QED BY <1>8, <1>9, <1>10 DEF IInv

LEMMA InitIsEmpty == Init => List!Init
<1> SUFFICES ASSUME Init
             PROVE  List!Init
  OBVIOUS
<1>1. Contents = Items(node, <<>>) /\ Position = 0
  BY InitStands, StandingShown DEF Shown
<1>2. Items(node, <<>>) = <<>>
  BY DEF Items
<1> QED BY <1>1, <1>2 DEF List!Init

LEMMA StepIsCall == IInv /\ [Next]_vars => [List!Next]_<<Contents, Position>>
  BY StepKeeps DEF Calls

(* The links of dll.c make a sequence with a cursor: each call changes the *)
(* two as CursorList says, or nothing; the cursor moves by the code's own  *)
(* rule, to the following item after a delete (dll.c:430-437), not by that *)
(* of DLL_Delete's header.  The two directions agree, every node is listed *)
(* or vacant, and Delete meets an empty vacant list only after a malloc    *)
(* has failed.                                                             *)
THEOREM LinksAreTheList == Spec => IsCursorList
  BY InitIsEmpty, StepIsCall, Initially, Inductive, IInvSound, PTL
     DEF Spec, IsCursorList, List!Spec

-----------------------------------------------------------------------------
(* The collectors.                                                         *)
(* What a state of the collectors is made of, as parameters: p tells       *)
(* whether the objects are pooled, c are the counts, h the free list, al   *)
(* the set of a SimpleCollector, pt the pointers.                          *)
Held(pt, b) == {g \in Pointers : pt[g] = b}

Typed(c, h, pt) ==
  /\ c \in Seq(Int)
  /\ h \in Seq(Nat)
  /\ pt \in [Pointers -> Int]
  /\ \A g \in Pointers : pt[g] \in {Absent, Null} \cup (1 .. Len(c))

(* A count is the number of holders, or below zero and there are none.     *)
Counting(c, pt) ==
  \A b \in 1 .. Len(c) :
    \/ c[b] = Cardinality(Held(pt, b))
    \/ c[b] < 0 /\ Held(pt, b) = {}

(* The free list has no block twice; it has the blocks counted below zero. *)
FreeListed(c, h) ==
  /\ \A i, j \in 1 .. Len(h) : h[i] = h[j] => i = j
  /\ \A i \in 1 .. Len(h) : h[i] \in 1 .. Len(c) /\ c[h[i]] < 0
  /\ \A b \in 1 .. Len(c) : c[b] < 0 => \E i \in 1 .. Len(h) : h[i] = b

Kept(c, al) == al = {b \in 1 .. Len(c) : c[b] # Freed}

Sound(p, c, h, al, pt) ==
  /\ Typed(c, h, pt)
  /\ Counting(c, pt)
  /\ p => FreeListed(c, h)
  /\ ~p => h = <<>> /\ Kept(c, al)

CountsInv == Up => Sound(pooled, count, head, allocated, ptr)

-----------------------------------------------------------------------------
(* Holders come and go one at a time.                                      *)

LEMMA HeldFinite ==
  ASSUME IsFiniteSet(Pointers), NEW pt, NEW b
  PROVE  IsFiniteSet(Held(pt, b)) /\ Cardinality(Held(pt, b)) \in Nat
BY FS_Subset, FS_CardinalityType DEF Held

LEMMA HeldLess ==
  ASSUME IsFiniteSet(Pointers), NEW pt \in [Pointers -> Int], NEW g \in Pointers, NEW b, b # Absent,
         pt[g] = b
  PROVE  Cardinality(Held([pt EXCEPT ![g] = Absent], b)) = Cardinality(Held(pt, b)) - 1
<1>1. Held([pt EXCEPT ![g] = Absent], b) = Held(pt, b) \ {g}
  BY DEF Held
<1>2. g \in Held(pt, b)
  BY DEF Held
<1> QED BY <1>1, <1>2, HeldFinite, FS_RemoveElement

LEMMA HeldMore ==
  ASSUME IsFiniteSet(Pointers), NEW pt \in [Pointers -> Int], NEW g \in Pointers, NEW b \in Int,
         pt[g] # b
  PROVE  Cardinality(Held([pt EXCEPT ![g] = b], b)) = Cardinality(Held(pt, b)) + 1
<1>1. Held([pt EXCEPT ![g] = b], b) = Held(pt, b) \cup {g}
  BY DEF Held
<1>2. g \notin Held(pt, b)
  BY DEF Held
<1> QED BY <1>1, <1>2, HeldFinite, FS_AddElement

LEMMA HeldSame ==
  ASSUME NEW pt \in [Pointers -> Int], NEW g \in Pointers, NEW v \in Int, NEW b,
         pt[g] # b, v # b
  PROVE  Held([pt EXCEPT ![g] = v], b) = Held(pt, b)
BY DEF Held

-----------------------------------------------------------------------------
(* The free list grows by one block at its head.                           *)

LEMMA PrependShape ==
  ASSUME NEW h \in Seq(Nat), NEW b \in Nat
  PROVE  /\ Prepend(b, h) \in Seq(Nat)
         /\ Len(Prepend(b, h)) = Len(h) + 1
         /\ Prepend(b, h)[1] = b
         /\ \A i \in 1 .. Len(h) : Prepend(b, h)[i + 1] = h[i]
         /\ \A i \in 2 .. Len(h) + 1 : Prepend(b, h)[i] = h[i - 1]
BY DEF Prepend

(* A block that was not listed is listed once it is freed.                 *)
LEMMA ListedMore ==
  ASSUME NEW c \in Seq(Int), NEW h \in Seq(Nat), FreeListed(c, h),
         NEW b \in 1 .. Len(c), c[b] >= 0
  PROVE  FreeListed([c EXCEPT ![b] = Freed], Prepend(b, h))
<1> DEFINE d == [c EXCEPT ![b] = Freed]
           k == Prepend(b, h)
<1>1. /\ Len(d) = Len(c)
      /\ d[b] = Freed
      /\ \A x \in 1 .. Len(c) : x # b => d[x] = c[x]
  OBVIOUS
<1>2. /\ Len(k) = Len(h) + 1
      /\ k[1] = b
      /\ \A i \in 1 .. Len(h) : k[i + 1] = h[i]
      /\ \A i \in 2 .. Len(h) + 1 : k[i] = h[i - 1]
  <2>1. b \in Nat
    OBVIOUS
  <2> QED BY <2>1, PrependShape
<1>3. Len(h) \in Nat /\ Freed < 0
  BY DEF Freed
<1> HIDE DEF d, k
<1>4. \A i \in 1 .. Len(h) : h[i] # b
  BY DEF FreeListed
<1>5. ASSUME NEW i \in 1 .. Len(k), NEW j \in 1 .. Len(k), k[i] = k[j]
      PROVE  i = j
  <2>1. \A n \in 1 .. Len(k) : n = 1 \/ (n - 1 \in 1 .. Len(h) /\ k[n] = h[n - 1])
    BY <1>2, <1>3
  <2>2. i \in Int /\ j \in Int
    BY <1>2, <1>3
  <2>3. CASE i = 1 \/ j = 1
    BY <1>2, <1>4, <1>5, <2>1, <2>3
  <2>4. CASE i # 1 /\ j # 1
    <3>1. i - 1 \in 1 .. Len(h) /\ j - 1 \in 1 .. Len(h) /\ h[i - 1] = h[j - 1]
      BY <1>5, <2>1, <2>4
    <3>2. i - 1 = j - 1
      BY <3>1 DEF FreeListed
    <3> QED BY <2>2, <3>2
  <2> QED BY <2>3, <2>4
<1>6. ASSUME NEW i \in 1 .. Len(k)
      PROVE  k[i] \in 1 .. Len(d) /\ d[k[i]] < 0
  <2>1. CASE i = 1
    BY <1>1, <1>2, <1>3, <2>1
  <2>2. CASE i # 1
    <3>1. i - 1 \in 1 .. Len(h) /\ k[i] = h[i - 1]
      BY <1>2, <1>3, <2>2
    <3> QED BY <1>1, <1>4, <3>1 DEF FreeListed
  <2> QED BY <2>1, <2>2
<1>7. ASSUME NEW x \in 1 .. Len(d), d[x] < 0
      PROVE  \E i \in 1 .. Len(k) : k[i] = x
  <2>1. CASE x = b
    BY <1>2, <1>3, <2>1
  <2>2. CASE x # b
    <3>1. PICK i \in 1 .. Len(h) : h[i] = x
      BY <1>1, <1>7, <2>2 DEF FreeListed
    <3>2. i + 1 \in 1 .. Len(k) /\ k[i + 1] = x
      BY <1>2, <1>3, <3>1
    <3> QED BY <3>2
  <2> QED BY <2>1, <2>2
<1> QED BY <1>5, <1>6, <1>7 DEF FreeListed, d, k

-----------------------------------------------------------------------------
(* The two halves of operator=.                                            *)

Fates == {"up", "null", "assertion", "revived"}
State == [count : Seq(Int), head : Seq(Nat), fate : Fates]

(* GC::unref of an object that somebody holds.                             *)
Less(s, b) == [s EXCEPT !.count[b] = Counted(@)]

LEMMA LessIs ==
  ASSUME NEW s \in State, NEW b \in 1 .. Len(s.count), s.count[b] > 0
  PROVE  /\ Less(s, b).count = [s.count EXCEPT ![b] = Counted(s.count[b])]
         /\ Less(s, b).head = s.head /\ Less(s, b).fate = s.fate
         /\ Less(s, b).count[b] = Counted(s.count[b])
         /\ Less(s, b) \in State
<1>1. s.count \in Seq(Int) /\ s.count[b] \in Nat /\ s.count[b] # 0
  BY DEF State
<1>2. /\ Less(s, b).count = [s.count EXCEPT ![b] = Counted(s.count[b])]
      /\ Less(s, b).head = s.head /\ Less(s, b).fate = s.fate
  BY DEF State, Less
<1>3. Less(s, b) \in State
  <2>1. Counted(s.count[b]) \in Int
    BY <1>1 DEF Counted, Dropped
  <2>2. [s.count EXCEPT ![b] = Counted(s.count[b])] \in Seq(Int)
    BY <1>1, <2>1
  <2> QED BY <2>2 DEF State, Less
<1>4. Less(s, b).count[b] = Counted(s.count[b])
  BY <1>1, <1>2
<1> QED BY <1>2, <1>3, <1>4

LEMMA UnrefByLess ==
  ASSUME NEW s \in State, NEW b
  PROVE  Unref(s, b) = IF pooled /\ Less(s, b).count[b] <= 0 THEN Deleted(Less(s, b), b) ELSE Less(s, b)
BY DEF Unref, Less

(* unref, when there are other holders: the count falls by one.            *)
LEMMA UnrefOfMany ==
  ASSUME NEW s \in State, NEW b \in 1 .. Len(s.count), s.count[b] > 1
  PROVE  /\ Unref(s, b).count = [s.count EXCEPT ![b] = s.count[b] - 1]
         /\ Unref(s, b).head = s.head /\ Unref(s, b).fate = s.fate
         /\ Unref(s, b) \in State
<1>1. s.count[b] \in Int
  BY DEF State
<1>2. Counted(s.count[b]) = s.count[b] - 1 /\ ~(s.count[b] - 1 <= 0) /\ s.count[b] > 0
  BY <1>1 DEF Counted
<1>3. ~(Less(s, b).count[b] <= 0)
  BY <1>2, LessIs
<1>4. Unref(s, b) = Less(s, b)
  BY <1>3, UnrefByLess
<1> QED BY <1>2, <1>4, LessIs

(* unref by the only holder, in a SimpleCollector: the object is dropped.  *)
LEMMA UnrefOfOne ==
  ASSUME NEW s \in State, NEW b \in 1 .. Len(s.count), s.count[b] = 1, ~pooled
  PROVE  /\ Unref(s, b).count = [s.count EXCEPT ![b] = Dropped]
         /\ Unref(s, b).head = s.head /\ Unref(s, b).fate = s.fate
         /\ Unref(s, b) \in State
<1>1. Counted(s.count[b]) = Dropped /\ s.count[b] > 0
  BY DEF Counted
<1>2. Unref(s, b) = Less(s, b)
  BY UnrefByLess
<1> QED BY <1>1, <1>2, LessIs

(* And of an AllocGC: the object is freed, and its block listed.           *)
LEMMA UnrefOfPooled ==
  ASSUME NEW s \in State, NEW b \in 1 .. Len(s.count), s.count[b] = 1, pooled
  PROVE  /\ Unref(s, b).count = [s.count EXCEPT ![b] = Freed]
         /\ Unref(s, b).head = Prepend(b, s.head) /\ Unref(s, b).fate = s.fate
         /\ Unref(s, b) \in State
<1> DEFINE less == Less(s, b)
<1>1. Counted(s.count[b]) = Dropped /\ s.count[b] > 0
  BY DEF Counted
<1>2. /\ less.count = [s.count EXCEPT ![b] = Dropped]
      /\ less.head = s.head /\ less.fate = s.fate
      /\ less.count[b] = Dropped /\ less \in State
  BY <1>1, LessIs
<1>3. Dropped < 0 /\ Dropped <= 0 /\ Freed \in Int
  BY DEF Dropped, Freed
<1>4. Unref(s, b) = Deleted(less, b)
  BY <1>2, <1>3, UnrefByLess
<1> HIDE DEF less
<1>5. Deleted(less, b) = [[less EXCEPT !.head = Prepend(b, @)] EXCEPT !.count[b] = Freed]
  BY <1>2, <1>3 DEF Deleted, State
<1>6. /\ Deleted(less, b).count = [less.count EXCEPT ![b] = Freed]
      /\ Deleted(less, b).head = Prepend(b, less.head)
      /\ Deleted(less, b).fate = less.fate
  BY <1>2, <1>5 DEF State
<1>7. [less.count EXCEPT ![b] = Freed] = [s.count EXCEPT ![b] = Freed]
  BY <1>2
<1>8. Deleted(less, b) \in State
  <2>1. s.count \in Seq(Int) /\ b \in Nat /\ less.head \in Seq(Nat)
    BY <1>2 DEF State
  <2>2. [s.count EXCEPT ![b] = Freed] \in Seq(Int)
    BY <1>3, <2>1
  <2>3. Prepend(b, less.head) \in Seq(Nat)
    BY <2>1, PrependShape
  <2> QED BY <1>2, <1>5, <1>7, <2>2, <2>3 DEF State
<1> QED BY <1>2, <1>4, <1>6, <1>7, <1>8

(* ref, when the program goes on: the object is there, nobody had dropped  *)
(* its last reference, and it has one more.                                *)
LEMMA RefIs ==
  ASSUME NEW s \in State, NEW b \in {Null} \cup (1 .. Len(s.count)), Ref(s, b).fate = "up"
  PROVE  /\ Ref(s, b) \in State
         /\ b \in 1 .. Len(s.count) /\ s.count[b] >= 0 /\ s.fate = "up"
         /\ Ref(s, b).count = [s.count EXCEPT ![b] = s.count[b] + 1]
         /\ Ref(s, b).head = s.head
<1>1. b # Null
  BY DEF Ref, Null, State
<1>2. b \in 1 .. Len(s.count)
  BY <1>1
<1>3. Ref(s, b) = [s EXCEPT !.count[b] = @ + 1, !.fate = IF s.count[b] < 0 THEN "revived" ELSE @]
  BY <1>1 DEF Ref
<1>4. /\ Ref(s, b).count = [s.count EXCEPT ![b] = s.count[b] + 1]
      /\ Ref(s, b).head = s.head
      /\ Ref(s, b).fate = IF s.count[b] < 0 THEN "revived" ELSE s.fate
  BY <1>3 DEF State
<1>5. s.count \in Seq(Int) /\ s.count[b] \in Int /\ ~(s.count[b] < 0)
  BY <1>2, <1>4 DEF State
<1>6. s.fate = "up"
  BY <1>4, <1>5
<1>7. Ref(s, b) \in State
  <2>1. [s.count EXCEPT ![b] = s.count[b] + 1] \in Seq(Int)
    BY <1>2, <1>5
  <2>2. s.fate \in Fates
    BY DEF State
  <2> QED BY <1>3, <2>1, <2>2 DEF State
<1> QED BY <1>2, <1>4, <1>5, <1>6, <1>7

(* A count changes and its sign does not: the lists stay.                  *)
LEMMA ListedSame ==
  ASSUME NEW c \in Seq(Int), NEW h, NEW b \in 1 .. Len(c), NEW n \in Int, c[b] >= 0, n >= 0,
         FreeListed(c, h)
  PROVE  FreeListed([c EXCEPT ![b] = n], h)
<1> DEFINE d == [c EXCEPT ![b] = n]
<1>1. /\ Len(d) = Len(c)
      /\ \A x \in 1 .. Len(c) : d[x] < 0 <=> c[x] < 0
  OBVIOUS
<1> HIDE DEF d
<1> QED BY <1>1 DEF FreeListed, d

LEMMA KeptSame ==
  ASSUME NEW c \in Seq(Int), NEW al, NEW b \in 1 .. Len(c), NEW n \in Int, c[b] # Freed, n # Freed,
         Kept(c, al)
  PROVE  Kept([c EXCEPT ![b] = n], al)
<1> DEFINE d == [c EXCEPT ![b] = n]
<1>1. /\ Len(d) = Len(c)
      /\ \A x \in 1 .. Len(c) : d[x] = Freed <=> c[x] = Freed
  OBVIOUS
<1> HIDE DEF d
<1>2. {x \in 1 .. Len(c) : c[x] # Freed} = {x \in 1 .. Len(d) : d[x] # Freed}
  BY <1>1
<1> QED BY <1>2 DEF Kept, d

(* One pointer and the count of one block change together.                 *)
LEMMA CountingStep ==
  ASSUME NEW c \in Seq(Int), NEW pt \in [Pointers -> Int], Counting(c, pt),
         NEW g \in Pointers, NEW v \in Int, NEW b \in 1 .. Len(c), NEW n \in Int,
         pt[g] \in 1 .. Len(c) => pt[g] = b,
         v \in 1 .. Len(c) => v = b,
         \/ n = Cardinality(Held([pt EXCEPT ![g] = v], b))
         \/ n < 0 /\ Held([pt EXCEPT ![g] = v], b) = {}
  PROVE  Counting([c EXCEPT ![b] = n], [pt EXCEPT ![g] = v])
<1> DEFINE d == [c EXCEPT ![b] = n]
           q == [pt EXCEPT ![g] = v]
<1>1. Len(d) = Len(c) /\ d[b] = n /\ \A x \in 1 .. Len(c) : x # b => d[x] = c[x]
  OBVIOUS
<1>2. ASSUME NEW x \in 1 .. Len(c), x # b
      PROVE  Held(q, x) = Held(pt, x)
  <2>1. pt[g] # x /\ v # x
    BY <1>2
  <2> QED BY <2>1, HeldSame
<1>3. n = Cardinality(Held(q, b)) \/ (n < 0 /\ Held(q, b) = {})
  OBVIOUS
<1> HIDE DEF d, q
<1>4. ASSUME NEW x \in 1 .. Len(d)
      PROVE  d[x] = Cardinality(Held(q, x)) \/ (d[x] < 0 /\ Held(q, x) = {})
  <2>1. CASE x = b
    BY <1>1, <1>3, <2>1
  <2>2. CASE x # b
    BY <1>1, <1>2, <2>2 DEF Counting
  <2> QED BY <2>1, <2>2
<1> QED BY <1>4 DEF Counting, d, q

LEMMA TypedStep ==
  ASSUME NEW c, NEW h, NEW pt, Typed(c, h, pt),
         NEW d \in Seq(Int), NEW k \in Seq(Nat), Len(d) = Len(c),
         NEW g \in Pointers, NEW v \in {Absent, Null} \cup (1 .. Len(c))
  PROVE  Typed(d, k, [pt EXCEPT ![g] = v])
<1>1. v \in Int
  BY DEF Typed, Absent, Null
<1>2. [pt EXCEPT ![g] = v] \in [Pointers -> Int]
  BY <1>1 DEF Typed
<1>3. \A x \in Pointers : [pt EXCEPT ![g] = v][x] \in {Absent, Null} \cup (1 .. Len(d))
  BY DEF Typed
<1> QED BY <1>2, <1>3 DEF Typed

(* The first half: as if the pointer had gone out of scope.                *)
LEMMA UnrefKeeps ==
  ASSUME IsFiniteSet(Pointers), NEW s \in State, NEW al, NEW pt,
         Sound(pooled, s.count, s.head, al, pt),
         NEW g \in Pointers, pt[g] \in 1 .. Len(s.count)
  PROVE  /\ Unref(s, pt[g]) \in State
         /\ Unref(s, pt[g]).fate = s.fate
         /\ Len(Unref(s, pt[g]).count) = Len(s.count)
         /\ Sound(pooled, Unref(s, pt[g]).count, Unref(s, pt[g]).head, al, [pt EXCEPT ![g] = Absent])
<1> DEFINE c == s.count
           h == s.head
           b == pt[g]
           u == Unref(s, b)
           q == [pt EXCEPT ![g] = Absent]
<1>1. c \in Seq(Int) /\ h \in Seq(Nat)
  BY DEF State
<1>2. pt \in [Pointers -> Int] /\ Typed(c, h, pt) /\ Counting(c, pt)
  BY DEF Sound, Typed
<1>3. b \in Nat /\ b \in 1 .. Len(c) /\ b # Absent
  BY <1>1 DEF Absent
<1>4. Held(pt, b) # {}
  BY DEF Held
<1>5. Cardinality(Held(q, b)) = Cardinality(Held(pt, b)) - 1
  BY <1>2, <1>3, HeldLess
<1>6. Cardinality(Held(q, b)) \in Nat /\ IsFiniteSet(Held(q, b))
  BY HeldFinite
<1>7. c[b] = Cardinality(Held(pt, b))
  BY <1>2, <1>3, <1>4 DEF Counting
<1>8. c[b] \in Int /\ Cardinality(Held(q, b)) = c[b] - 1 /\ c[b] > 0
  BY <1>1, <1>3, <1>5, <1>6, <1>7
<1>9. Absent \in {Absent, Null} \cup (1 .. Len(c)) /\ Absent \in Int /\ Absent \notin 1 .. Len(c)
  BY <1>1 DEF Absent
<1>10. Held(q, b) = {} \/ c[b] # 1
  BY <1>6, <1>8, FS_EmptySet
<1>11. ASSUME NEW n \in Int, NEW k \in Seq(Nat), u.count = [c EXCEPT ![b] = n], u.head = k,
              n = Cardinality(Held(q, b)) \/ (n < 0 /\ Held(q, b) = {})
       PROVE  Typed(u.count, u.head, q) /\ Counting(u.count, q) /\ Len(u.count) = Len(c)
  <2>1. [c EXCEPT ![b] = n] \in Seq(Int) /\ Len([c EXCEPT ![b] = n]) = Len(c)
    BY <1>1, <1>3
  <2>2. Typed([c EXCEPT ![b] = n], k, q)
    BY <1>2, <1>9, <2>1, TypedStep
  <2>3. Counting([c EXCEPT ![b] = n], q)
    BY <1>1, <1>2, <1>3, <1>9, <1>11, CountingStep
  <2> QED BY <1>11, <2>1, <2>2, <2>3
<1> HIDE DEF c, h, b, u, q
<1>12. CASE c[b] > 1
  <2>1. u.count = [c EXCEPT ![b] = c[b] - 1] /\ u.head = h /\ u \in State /\ u.fate = s.fate
    BY <1>3, <1>12, UnrefOfMany DEF c, h, u
  <2>2. Typed(u.count, u.head, q) /\ Counting(u.count, q) /\ Len(u.count) = Len(c)
    <3>1. c[b] - 1 \in Int /\ c[b] - 1 = Cardinality(Held(q, b))
      BY <1>8
    <3> QED BY <1>1, <1>11, <2>1, <3>1
  <2>3. pooled => FreeListed(u.count, u.head)
    <3>1. c[b] - 1 >= 0 /\ c[b] >= 0 /\ c[b] - 1 \in Int
      BY <1>8, <1>12
    <3>2. pooled => FreeListed(c, h)
      BY DEF Sound, c, h
    <3> QED BY <1>1, <1>3, <2>1, <3>1, <3>2, ListedSame
  <2>4. ~pooled => u.head = <<>> /\ Kept(u.count, al)
    <3>1. c[b] # Freed /\ c[b] - 1 # Freed /\ c[b] - 1 \in Int
      BY <1>8 DEF Freed
    <3>2. ~pooled => Kept(c, al) /\ h = <<>>
      BY DEF Sound, c, h
    <3> QED BY <1>1, <1>3, <2>1, <3>1, <3>2, KeptSame
  <2> QED BY <2>1, <2>2, <2>3, <2>4 DEF Sound, c, b, u, q
<1>13. CASE c[b] = 1 /\ ~pooled
  <2>1. u.count = [c EXCEPT ![b] = Dropped] /\ u.head = h /\ u \in State /\ u.fate = s.fate
    BY <1>3, <1>13, UnrefOfOne DEF c, h, u
  <2>2. Dropped \in Int /\ Dropped < 0 /\ Dropped # Freed /\ 1 # Freed
    BY DEF Dropped, Freed
  <2>3. Held(q, b) = {}
    BY <1>10, <1>13
  <2>4. Typed(u.count, u.head, q) /\ Counting(u.count, q) /\ Len(u.count) = Len(c)
    BY <1>1, <1>11, <2>1, <2>2, <2>3
  <2>5. h = <<>> /\ Kept(c, al)
    BY <1>13 DEF Sound, c, h
  <2>6. u.head = <<>> /\ Kept(u.count, al)
    BY <1>1, <1>3, <1>13, <2>1, <2>2, <2>5, KeptSame
  <2> QED BY <1>13, <2>1, <2>4, <2>6 DEF Sound, c, b, u, q
<1>14. CASE c[b] = 1 /\ pooled
  <2>1. /\ u.count = [c EXCEPT ![b] = Freed] /\ u.head = Prepend(b, h)
        /\ u \in State /\ u.fate = s.fate
    BY <1>3, <1>14, UnrefOfPooled DEF c, h, u
  <2>2. Freed \in Int /\ Freed < 0 /\ 1 >= 0
    BY DEF Freed
  <2>3. Held(q, b) = {}
    BY <1>10, <1>14
  <2>4. Prepend(b, h) \in Seq(Nat)
    BY <1>1, <1>3, PrependShape
  <2>5. Typed(u.count, u.head, q) /\ Counting(u.count, q) /\ Len(u.count) = Len(c)
    BY <1>11, <2>1, <2>2, <2>3, <2>4
  <2>6. FreeListed(c, h)
    BY <1>14 DEF Sound, c, h
  <2>7. FreeListed(u.count, u.head)
    BY <1>1, <1>3, <1>14, <2>1, <2>2, <2>6, ListedMore
  <2> QED BY <1>14, <2>1, <2>5, <2>7 DEF Sound, c, b, u, q
<1>15. c[b] > 1 \/ c[b] = 1
  BY <1>8
<1> QED BY <1>12, <1>13, <1>14, <1>15

(* The second half: the pointer, which was on no object, is on b.          *)
LEMMA RefKeeps ==
  ASSUME IsFiniteSet(Pointers), NEW s \in State, NEW al, NEW pt,
         Sound(pooled, s.count, s.head, al, pt),
         NEW g \in Pointers, pt[g] \in {Absent, Null},
         NEW b \in {Null} \cup (1 .. Len(s.count)), Ref(s, b).fate = "up"
  PROVE  /\ Ref(s, b).fate = s.fate
         /\ Sound(pooled, Ref(s, b).count, Ref(s, b).head, al, [pt EXCEPT ![g] = b])
<1> DEFINE c == s.count
           h == s.head
           r == Ref(s, b)
           q == [pt EXCEPT ![g] = b]
<1>1. c \in Seq(Int) /\ h \in Seq(Nat)
  BY DEF State
<1>2. pt \in [Pointers -> Int] /\ Typed(c, h, pt) /\ Counting(c, pt)
  BY DEF Sound, Typed
<1>3. /\ r.fate = s.fate /\ b \in 1 .. Len(c) /\ c[b] >= 0
      /\ r.count = [c EXCEPT ![b] = c[b] + 1] /\ r.head = h
  BY RefIs
<1>4. c[b] \in Int /\ b \in Int /\ b # pt[g] /\ pt[g] \notin 1 .. Len(c)
  BY <1>1, <1>3 DEF Absent, Null
<1>5. Cardinality(Held(q, b)) = Cardinality(Held(pt, b)) + 1
  BY <1>2, <1>4, HeldMore
<1>6. c[b] = Cardinality(Held(pt, b))
  BY <1>2, <1>3, <1>4 DEF Counting
<1>7. c[b] + 1 = Cardinality(Held(q, b)) /\ c[b] + 1 \in Int
  BY <1>4, <1>5, <1>6
<1>8. r.count \in Seq(Int) /\ Len(r.count) = Len(c)
  BY <1>1, <1>3, <1>7
<1>9. Typed(r.count, r.head, q)
  BY <1>1, <1>2, <1>3, <1>8, TypedStep
<1>10. Counting(r.count, q)
  <2>1. Counting([c EXCEPT ![b] = c[b] + 1], q)
    BY <1>1, <1>2, <1>3, <1>4, <1>7, CountingStep
  <2> QED BY <1>3, <2>1
<1>11. pooled => FreeListed(r.count, r.head)
  <2>1. c[b] + 1 >= 0
    BY <1>3, <1>4
  <2> QED BY <1>1, <1>3, <1>7, <2>1, ListedSame DEF Sound
<1>12. ~pooled => r.head = <<>> /\ Kept(r.count, al)
  <2>1. c[b] # Freed /\ c[b] + 1 # Freed
    BY <1>3, <1>4 DEF Freed
  <2>2. ~pooled => Kept(c, al) /\ h = <<>>
    BY DEF Sound
  <2> QED BY <1>1, <1>3, <1>7, <2>1, <2>2, KeptSame
<1> QED BY <1>3, <1>9, <1>10, <1>11, <1>12 DEF Sound

-----------------------------------------------------------------------------
(* new and Clean, which move no pointer.                                   *)

(* Blocks that there were not have no holders.                             *)
LEMMA GrowKeeps ==
  ASSUME NEW c, NEW h, NEW pt, Typed(c, h, pt), Counting(c, pt),
         NEW d \in Seq(Int), NEW k \in Seq(Nat), Len(d) >= Len(c),
         \A x \in 1 .. Len(c) : d[x] = c[x],
         \A x \in 1 .. Len(d) : x > Len(c) => d[x] = 0 \/ d[x] < 0
  PROVE  Typed(d, k, pt) /\ Counting(d, pt)
<1>1. c \in Seq(Int) /\ Len(c) \in Nat /\ Len(d) \in Nat
  BY DEF Typed
<1>2. \A x \in 1 .. Len(c) : x \in 1 .. Len(d)
  BY <1>1
<1>3. Typed(d, k, pt)
  BY <1>2 DEF Typed
<1>4. ASSUME NEW x \in 1 .. Len(d)
      PROVE  d[x] = Cardinality(Held(pt, x)) \/ (d[x] < 0 /\ Held(pt, x) = {})
  <2>1. CASE x \in 1 .. Len(c)
    BY <2>1 DEF Counting
  <2>2. CASE x \notin 1 .. Len(c)
    <3>1. x > Len(c) /\ x # Absent /\ x # Null
      BY <1>1, <2>2 DEF Absent, Null
    <3>2. Held(pt, x) = {}
      BY <2>2, <3>1 DEF Held, Typed
    <3> QED BY <3>1, <3>2, FS_EmptySet
  <2> QED BY <2>1, <2>2
<1> QED BY <1>3, <1>4 DEF Counting

LEMMA PoolShape ==
  ASSUME PoolBlocks \in Nat \ {0}, NEW c \in Seq(Int)
  PROVE  LET s == AddPool(c, <<>>)
         IN  /\ s.count \in Seq(Int) /\ s.head \in Seq(Nat)
             /\ Len(s.count) = Len(c) + PoolBlocks /\ Len(s.head) = PoolBlocks
             /\ \A x \in 1 .. Len(c) : s.count[x] = c[x]
             /\ \A x \in 1 .. PoolBlocks : s.count[Len(c) + x] = Freed
             /\ \A i \in 1 .. PoolBlocks : s.head[i] = Len(c) + ((PoolBlocks - i) + 1)
<1> DEFINE f == [i \in 1 .. PoolBlocks |-> Freed]
           e == [i \in 1 .. PoolBlocks |-> Len(c) + i]
<1>1. Freed \in Int /\ Len(c) \in Nat
  BY DEF Freed
<1>2. f \in Seq(Int) /\ Len(f) = PoolBlocks
  BY <1>1
<1>3. e \in Seq(Nat) /\ Len(e) = PoolBlocks /\ \A i \in 1 .. PoolBlocks : e[i] = Len(c) + i
  BY <1>1
<1>4. \A i \in 1 .. PoolBlocks : f[i] = Freed
  OBVIOUS
<1>5. AddPool(c, <<>>).count = c \o f /\ AddPool(c, <<>>).head = Reverse(e) \o <<>>
  BY DEF AddPool
<1> HIDE DEF f, e
<1>6. /\ c \o f \in Seq(Int) /\ Len(c \o f) = Len(c) + PoolBlocks
      /\ \A x \in 1 .. Len(c) : (c \o f)[x] = c[x]
  <2>1. c \o f \in Seq(Int)
    BY <1>2
  <2>2. Len(c \o f) = Len(c) + PoolBlocks
    BY <1>2
  <2>3. ASSUME NEW x \in 1 .. Len(c)
        PROVE  (c \o f)[x] = c[x]
    <3>1. x \in 1 .. Len(c) + Len(f) /\ x <= Len(c)
      BY <1>1, <1>2
    <3> QED BY <1>2, <3>1
  <2> QED BY <2>1, <2>2, <2>3
<1>7. ASSUME NEW x \in 1 .. PoolBlocks
      PROVE  (c \o f)[Len(c) + x] = Freed
  <2>1. Len(c) + x \in 1 .. Len(c) + PoolBlocks /\ Len(c) + x > Len(c) /\ (Len(c) + x) - Len(c) = x
    BY <1>1
  <2>2. (c \o f)[Len(c) + x] = f[(Len(c) + x) - Len(c)]
    BY <1>1, <1>2, <2>1
  <2> QED BY <1>4, <2>1, <2>2
<1>8. Reverse(e) = [i \in 1 .. PoolBlocks |-> e[(PoolBlocks - i) + 1]]
  BY <1>3 DEF Reverse
<1>9. \A i \in 1 .. PoolBlocks : (PoolBlocks - i) + 1 \in 1 .. PoolBlocks
  OBVIOUS
<1>10. /\ Reverse(e) \in Seq(Nat) /\ Len(Reverse(e)) = PoolBlocks
       /\ \A i \in 1 .. PoolBlocks : Reverse(e)[i] = Len(c) + ((PoolBlocks - i) + 1)
  BY <1>1, <1>3, <1>8, <1>9
<1>11. Reverse(e) \o <<>> = Reverse(e)
  BY <1>10
<1> QED BY <1>5, <1>6, <1>7, <1>10, <1>11

(* A pool is added when the free list is empty.                            *)
LEMMA AddPoolKeeps ==
  ASSUME PoolBlocks \in Nat \ {0}, NEW c, NEW al, NEW pt, Sound(TRUE, c, <<>>, al, pt)
  PROVE  LET s == AddPool(c, <<>>)
         IN  Sound(TRUE, s.count, s.head, al, pt) /\ s.head # <<>>
<1> DEFINE s == AddPool(c, <<>>)
           d == s.count
           k == s.head
           n == Len(c)
<1>1. c \in Seq(Int) /\ n \in Nat /\ Typed(c, <<>>, pt) /\ Counting(c, pt) /\ FreeListed(c, <<>>)
  BY DEF Sound, Typed
<1>2. /\ d \in Seq(Int) /\ k \in Seq(Nat)
      /\ Len(d) = n + PoolBlocks /\ Len(k) = PoolBlocks
      /\ \A x \in 1 .. n : d[x] = c[x]
      /\ \A x \in 1 .. PoolBlocks : d[n + x] = Freed
      /\ \A i \in 1 .. PoolBlocks : k[i] = n + ((PoolBlocks - i) + 1)
  BY <1>1, PoolShape
<1> HIDE DEF s, d, k, n
<1>3. \A x \in 1 .. n : ~(c[x] < 0)
  BY <1>1 DEF FreeListed, n
<1>4. ASSUME NEW x \in 1 .. Len(d)
      PROVE  /\ x > n => d[x] < 0 /\ k[PoolBlocks - (x - n) + 1] = x
                          /\ PoolBlocks - (x - n) + 1 \in 1 .. Len(k)
             /\ d[x] < 0 => x > n
  <2>1. CASE x \in 1 .. n
    <3>1. ~(x > n)
      BY <1>1, <2>1
    <3>2. ~(d[x] < 0)
      BY <1>2, <1>3, <2>1
    <3> QED BY <3>1, <3>2
  <2>2. CASE x \notin 1 .. n
    <3>1. x - n \in 1 .. PoolBlocks /\ n + (x - n) = x /\ x > n
      BY <1>1, <1>2, <2>2
    <3>2. d[x] = Freed
      BY <1>2, <3>1
    <3>3. PoolBlocks - (x - n) + 1 \in 1 .. PoolBlocks
      BY <3>1
    <3>4. k[PoolBlocks - (x - n) + 1] = n + ((PoolBlocks - (PoolBlocks - (x - n) + 1)) + 1)
      BY <1>2, <3>3
    <3>5. n + ((PoolBlocks - (PoolBlocks - (x - n) + 1)) + 1) = x
      BY <1>1, <3>1
    <3> QED BY <1>2, <3>1, <3>2, <3>3, <3>4, <3>5 DEF Freed
  <2> QED BY <2>1, <2>2
<1>5. Typed(d, k, pt) /\ Counting(d, pt)
  <2>1. Len(d) >= Len(c)
    BY <1>1, <1>2 DEF n
  <2> QED BY <1>1, <1>2, <1>4, <2>1, GrowKeeps DEF n
<1>6. FreeListed(d, k)
  <2>1. \A i, j \in 1 .. Len(k) : k[i] = k[j] => i = j
    BY <1>1, <1>2
  <2>2. ASSUME NEW i \in 1 .. Len(k)
        PROVE  k[i] \in 1 .. Len(d) /\ d[k[i]] < 0
    <3>1. k[i] \in 1 .. Len(d) /\ k[i] > n
      BY <1>1, <1>2
    <3> QED BY <1>4, <3>1
  <2>3. ASSUME NEW x \in 1 .. Len(d), d[x] < 0
        PROVE  \E i \in 1 .. Len(k) : k[i] = x
    BY <1>4, <2>3
  <2> QED BY <2>1, <2>2, <2>3 DEF FreeListed
<1>7. k # <<>>
  BY <1>2
<1> QED BY <1>5, <1>6, <1>7 DEF Sound, s, d, k

(* The first block of the free list is taken off it.                       *)
LEMMA TakeKeeps ==
  ASSUME IsFiniteSet(Pointers), NEW c, NEW h, NEW al, NEW pt, Sound(TRUE, c, h, al, pt), h # <<>>
  PROVE  Sound(TRUE, [c EXCEPT ![h[1]] = 0], Tail(h), al, pt)
<1> DEFINE b == h[1]
           d == [c EXCEPT ![b] = 0]
           k == Tail(h)
<1>1. c \in Seq(Int) /\ h \in Seq(Nat) /\ Typed(c, h, pt) /\ Counting(c, pt) /\ FreeListed(c, h)
  BY DEF Sound, Typed
<1>2. Len(h) \in Nat /\ Len(h) >= 1 /\ 1 \in 1 .. Len(h)
  BY <1>1
<1>3. b \in 1 .. Len(c) /\ c[b] < 0
  BY <1>1, <1>2 DEF FreeListed
<1>4. /\ d \in Seq(Int) /\ Len(d) = Len(c) /\ d[b] = 0
      /\ \A x \in 1 .. Len(c) : x # b => d[x] = c[x]
  BY <1>1, <1>3
<1>5. k \in Seq(Nat) /\ Len(k) = Len(h) - 1 /\ \A i \in 1 .. Len(k) : k[i] = h[i + 1] /\ i + 1 \in 1 .. Len(h)
  BY <1>1, <1>2
<1> HIDE DEF b, d, k
<1>6. Typed(d, k, pt)
  BY <1>1, <1>4, <1>5 DEF Typed
<1>7. Counting(d, pt)
  <2>1. Held(pt, b) = {}
    <3>1. ~(c[b] = Cardinality(Held(pt, b)))
      BY <1>3, HeldFinite
    <3> QED BY <1>1, <1>3, <3>1 DEF Counting
  <2>2. d[b] = Cardinality(Held(pt, b))
    BY <1>4, <2>1, FS_EmptySet
  <2> QED BY <1>1, <1>4, <2>2 DEF Counting
<1>8. FreeListed(d, k)
  <2>1. ASSUME NEW i \in 1 .. Len(k), NEW j \in 1 .. Len(k), k[i] = k[j]
        PROVE  i = j
    <3>0. i + 1 \in 1 .. Len(h) /\ j + 1 \in 1 .. Len(h) /\ h[i + 1] = h[j + 1]
      BY <1>5, <2>1
    <3>1. i + 1 = j + 1
      BY <1>1, <3>0 DEF FreeListed
    <3>2. i \in Int /\ j \in Int
      BY <1>2, <1>5
    <3> QED BY <3>1, <3>2
  <2>2. ASSUME NEW i \in 1 .. Len(k)
        PROVE  k[i] \in 1 .. Len(d) /\ d[k[i]] < 0
    <3>1. i + 1 # 1 /\ i + 1 \in 1 .. Len(h) /\ k[i] = h[i + 1]
      BY <1>2, <1>5
    <3>2. k[i] # b
      BY <1>1, <1>2, <3>1 DEF FreeListed, b
    <3>3. k[i] \in 1 .. Len(c) /\ c[k[i]] < 0
      <4>1. i + 1 \in 1 .. Len(h) /\ k[i] = h[i + 1]
        BY <1>5
      <4> QED BY <1>1, <4>1 DEF FreeListed
    <3> QED BY <1>4, <3>2, <3>3
  <2>3. ASSUME NEW x \in 1 .. Len(d), d[x] < 0
        PROVE  \E i \in 1 .. Len(k) : k[i] = x
    <3>1. x # b /\ c[x] < 0 /\ x \in 1 .. Len(c)
      BY <1>4, <2>3
    <3>2. PICK i \in 1 .. Len(h) : h[i] = x
      BY <1>1, <3>1 DEF FreeListed
    <3>3. i # 1
      BY <3>1, <3>2 DEF b
    <3>4. i - 1 \in 1 .. Len(k) /\ (i - 1) + 1 = i
      BY <1>2, <1>5, <3>3
    <3> QED BY <1>5, <3>2, <3>4
  <2> QED BY <2>1, <2>2, <2>3 DEF FreeListed
<1> QED BY <1>6, <1>7, <1>8 DEF Sound, b, d, k

-----------------------------------------------------------------------------
(* One lemma per action: the state after it is sound.                      *)

LEMMA NowIs ==
  ASSUME CountsInv, Up
  PROVE  /\ Sound(pooled, count, head, allocated, ptr)
         /\ count \in Seq(Int) /\ head \in Seq(Nat) /\ Len(count) \in Nat
         /\ ptr \in [Pointers -> Int]
         /\ Now.count = count /\ Now.head = head /\ Now.fate = fate /\ Now \in State
<1>1. Sound(pooled, count, head, allocated, ptr)
  BY DEF CountsInv
<1>2. count \in Seq(Int) /\ head \in Seq(Nat) /\ ptr \in [Pointers -> Int]
  BY <1>1 DEF Sound, Typed
<1>3. fate \in Fates
  BY DEF Up, Fates
<1> QED BY <1>1, <1>2, <1>3 DEF Now, State

LEMMA InitSound == CollectorInit => CountsInv
<1> SUFFICES ASSUME CollectorInit
             PROVE  Sound(pooled, count, head, allocated, ptr)
  BY DEF CountsInv
<1>1. count = <<>> /\ head = <<>> /\ allocated = {} /\ ptr = [g \in Pointers |-> Absent]
  BY DEF CollectorInit
<1>2. Len(count) = 0 /\ 1 .. Len(count) = {} /\ Len(head) = 0 /\ 1 .. Len(head) = {}
  BY <1>1
<1>3. Typed(count, head, ptr)
  BY <1>1 DEF Typed, Absent
<1>4. Counting(count, ptr)
  BY <1>2 DEF Counting
<1>5. FreeListed(count, head)
  BY <1>2 DEF FreeListed
<1>6. Kept(count, allocated)
  BY <1>1, <1>2 DEF Kept
<1> QED BY <1>1, <1>3, <1>4, <1>5, <1>6 DEF Sound

LEMMA NewPooled ==
  ASSUME IsFiniteSet(Pointers), PoolBlocks \in Nat \ {0}, CountsInv, New, pooled
  PROVE  Sound(pooled', count', head', allocated', ptr')
<1>1. Up /\ UNCHANGED <<pooled, allocated, ptr>>
  BY DEF New
<1>2. Sound(TRUE, count, head, allocated, ptr)
  BY <1>1, NowIs DEF Sound
<1>3. CASE head = <<>>
  <2> DEFINE s == AddPool(count, head)
  <2>1. count' = [s.count EXCEPT ![s.head[1]] = 0] /\ head' = Tail(s.head)
    BY <1>3 DEF New
  <2>2. Sound(TRUE, s.count, s.head, allocated, ptr) /\ s.head # <<>>
    BY <1>2, <1>3, AddPoolKeeps
  <2> HIDE DEF s
  <2>3. Sound(TRUE, count', head', allocated, ptr)
    BY <2>1, <2>2, TakeKeeps
  <2> QED BY <1>1, <2>3 DEF Sound
<1>4. CASE head # <<>>
  <2>1. count' = [count EXCEPT ![head[1]] = 0] /\ head' = Tail(head)
    BY <1>4 DEF New
  <2>2. Sound(TRUE, count', head', allocated, ptr)
    BY <1>2, <1>4, <2>1, TakeKeeps
  <2> QED BY <1>1, <2>2 DEF Sound
<1> QED BY <1>3, <1>4

LEMMA NewKept ==
  ASSUME CountsInv, New, ~pooled
  PROVE  Sound(pooled', count', head', allocated', ptr')
<1> DEFINE n == Len(count)
<1>1. /\ Up /\ UNCHANGED <<pooled, ptr, head>>
      /\ count' = Append(count, 0) /\ allocated' = allocated \cup {n + 1}
  BY DEF New
<1>2. /\ Sound(pooled, count, head, allocated, ptr)
      /\ count \in Seq(Int) /\ head \in Seq(Nat) /\ n \in Nat
  BY <1>1, NowIs
<1>3. Typed(count, head, ptr) /\ Counting(count, ptr) /\ head = <<>> /\ Kept(count, allocated)
  BY <1>2 DEF Sound
<1>4. /\ count' \in Seq(Int) /\ Len(count') = n + 1 /\ count'[n + 1] = 0
      /\ \A x \in 1 .. n : count'[x] = count[x]
  BY <1>1, <1>2
<1>5. Typed(count', head, ptr) /\ Counting(count', ptr)
  <2>1. Len(count') >= Len(count)
    BY <1>2, <1>4
  <2>2. \A x \in 1 .. Len(count') : x > Len(count) => count'[x] = 0 \/ count'[x] < 0
    BY <1>2, <1>4
  <2> HIDE DEF n
  <2> QED BY <1>2, <1>3, <1>4, <2>1, <2>2, GrowKeeps DEF n
<1>6. Kept(count', allocated')
  <2> HIDE DEF n
  <2>1. allocated = {b \in 1 .. n : count[b] # Freed}
    BY <1>3 DEF Kept, n
  <2>2. 0 # Freed
    BY DEF Freed
  <2>3. \A b : b \in 1 .. n + 1 <=> b \in 1 .. n \/ b = n + 1
    BY <1>2
  <2>4. \A b : b \in allocated' <=> b \in 1 .. n + 1 /\ count'[b] # Freed
    BY <1>1, <1>4, <2>1, <2>2, <2>3
  <2>5. allocated' = {b \in 1 .. n + 1 : count'[b] # Freed}
    BY <2>4
  <2> QED BY <1>4, <2>5 DEF Kept
<1> QED BY <1>1, <1>3, <1>5, <1>6 DEF Sound

LEMMA CleanSound ==
  ASSUME IsFiniteSet(Pointers), CountsInv, Clean
  PROVE  Sound(pooled', count', head', allocated', ptr')
<1>1. /\ Up /\ ~pooled /\ UNCHANGED <<pooled, head, ptr>>
      /\ allocated' = {b \in allocated : count[b] # Dropped}
      /\ count' = [b \in Blocks |-> IF count[b] = Dropped THEN Freed ELSE count[b]]
  BY DEF Clean
<1>2. /\ Sound(pooled, count, head, allocated, ptr)
      /\ count \in Seq(Int) /\ head \in Seq(Nat) /\ Len(count) \in Nat
  BY <1>1, NowIs
<1>3. Typed(count, head, ptr) /\ Counting(count, ptr) /\ head = <<>> /\ Kept(count, allocated)
  BY <1>1, <1>2 DEF Sound
<1>4. Freed \in Int /\ Dropped \in Int /\ Freed < 0 /\ Dropped < 0 /\ Freed # Dropped
  BY DEF Freed, Dropped
<1>5. /\ count' \in Seq(Int) /\ Len(count') = Len(count)
      /\ \A b \in 1 .. Len(count) : count'[b] = IF count[b] = Dropped THEN Freed ELSE count[b]
  BY <1>1, <1>2, <1>4 DEF Blocks
<1>6. Typed(count', head, ptr)
  BY <1>2, <1>3, <1>5 DEF Typed
<1>7. Counting(count', ptr)
  <2>1. ASSUME NEW b \in 1 .. Len(count')
        PROVE  count'[b] = Cardinality(Held(ptr, b)) \/ (count'[b] < 0 /\ Held(ptr, b) = {})
    <3>1. b \in 1 .. Len(count) /\ Cardinality(Held(ptr, b)) \in Nat
      BY <1>5, HeldFinite
    <3>2. CASE count[b] = Dropped
      <4>1. Held(ptr, b) = {}
        BY <1>3, <1>4, <3>1, <3>2 DEF Counting
      <4> QED BY <1>4, <1>5, <3>1, <3>2, <4>1
    <3>3. CASE count[b] # Dropped
      BY <1>3, <1>5, <3>1, <3>3 DEF Counting
    <3> QED BY <3>2, <3>3
  <2> QED BY <2>1 DEF Counting
<1>8. Kept(count', allocated')
  <2>1. allocated = {b \in 1 .. Len(count) : count[b] # Freed}
    BY <1>3 DEF Kept
  <2>2. \A b : b \in allocated' <=> b \in 1 .. Len(count') /\ count'[b] # Freed
    BY <1>1, <1>4, <1>5, <2>1
  <2> QED BY <2>2 DEF Kept
<1> QED BY <1>1, <1>3, <1>6, <1>7, <1>8 DEF Sound

LEMMA ConstructSound ==
  ASSUME CountsInv, NEW g \in Pointers, Construct(g)
  PROVE  Sound(pooled', count', head', allocated', ptr')
<1>1. /\ Up /\ ptr[g] = Absent /\ ptr' = [ptr EXCEPT ![g] = Null]
      /\ UNCHANGED <<pooled, count, head, allocated>>
  BY DEF Construct, InScope
<1>2. /\ Sound(pooled, count, head, allocated, ptr)
      /\ count \in Seq(Int) /\ head \in Seq(Nat) /\ ptr \in [Pointers -> Int]
  BY <1>1, NowIs
<1>3. Typed(count, head, ptr) /\ Counting(count, ptr)
  BY <1>2 DEF Sound
<1>4. Typed(count, head, ptr')
  BY <1>1, <1>2, <1>3, TypedStep
<1>5. \A b \in 1 .. Len(count) : Held(ptr', b) = Held(ptr, b)
  <2>1. Null \in Int /\ \A b \in 1 .. Len(count) : Absent # b /\ Null # b
    BY <1>2 DEF Absent, Null
  <2> QED BY <1>1, <1>2, <2>1, HeldSame
<1>6. Counting(count, ptr')
  BY <1>3, <1>5 DEF Counting
<1> QED BY <1>1, <1>2, <1>4, <1>6 DEF Sound

(* What the program can name is a block, or NULL.                          *)
LEMMA SourcesAre ==
  ASSUME CountsInv, Up, NEW b \in Sources
  PROVE  b \in {Null} \cup (1 .. Len(count))
<1>1. \A g \in Pointers : ptr[g] \in {Absent, Null} \cup (1 .. Len(count))
  BY NowIs DEF Sound, Typed
<1> QED BY <1>1 DEF Sources, Blocks, InScope

LEMMA ConstructFromSound ==
  ASSUME IsFiniteSet(Pointers), CountsInv, NEW g \in Pointers, NEW b \in Sources, ConstructFrom(g, b), Up'
  PROVE  Sound(pooled', count', head', allocated', ptr')
<1>1. /\ Up /\ ptr[g] = Absent /\ ptr' = [ptr EXCEPT ![g] = b]
      /\ count' = Ref(Now, b).count /\ head' = Ref(Now, b).head /\ fate' = Ref(Now, b).fate
      /\ UNCHANGED <<pooled, allocated>>
  BY DEF ConstructFrom, InScope, Leaves
<1>2. Ref(Now, b).fate = "up"
  BY <1>1 DEF Up
<1>3. b \in {Null} \cup (1 .. Len(Now.count))
  BY <1>1, SourcesAre, NowIs
<1>4. Sound(pooled, Now.count, Now.head, allocated, ptr) /\ Now \in State
  BY <1>1, NowIs
<1>5. Sound(pooled, count', head', allocated, ptr')
  BY <1>1, <1>2, <1>3, <1>4, RefKeeps
<1> QED BY <1>1, <1>5 DEF Sound

(* A pointer in scope is on NULL or a block.                               *)
LEMMA PointsTo ==
  ASSUME CountsInv, Up, NEW g \in Pointers, InScope(g)
  PROVE  ptr[g] = Null \/ ptr[g] \in 1 .. Len(count)
BY NowIs DEF Sound, Typed, InScope

LEMMA AssignSound ==
  ASSUME IsFiniteSet(Pointers), CountsInv, NEW g \in Pointers, NEW b \in Sources, Assign(g, b), Up'
  PROVE  Sound(pooled', count', head', allocated', ptr')
<1> DEFINE s == IF ptr[g] # Null THEN Unref(Now, ptr[g]) ELSE Now
           q == [ptr EXCEPT ![g] = IF ptr[g] # Null THEN Absent ELSE Null]
<1>1. /\ Up /\ InScope(g) /\ ptr' = [ptr EXCEPT ![g] = b]
      /\ count' = Ref(s, b).count /\ head' = Ref(s, b).head /\ fate' = Ref(s, b).fate
      /\ UNCHANGED <<pooled, allocated>>
  BY DEF Assign, Leaves, Reassigned
<1>2. Ref(s, b).fate = "up"
  BY <1>1 DEF Up
<1>3. b \in {Null} \cup (1 .. Len(Now.count))
  BY <1>1, SourcesAre, NowIs
<1>4. Sound(pooled, Now.count, Now.head, allocated, ptr) /\ Now \in State /\ ptr \in [Pointers -> Int]
  BY <1>1, NowIs
<1>5. s \in State /\ Len(s.count) = Len(Now.count) /\ Sound(pooled, s.count, s.head, allocated, q)
  <2>1. CASE ptr[g] = Null
    <3>1. s = Now /\ q = ptr
      BY <1>4, <2>1
    <3> QED BY <1>4, <3>1
  <2>2. CASE ptr[g] # Null
    <3>1. s = Unref(Now, ptr[g]) /\ q = [ptr EXCEPT ![g] = Absent]
      BY <2>2
    <3> HIDE DEF s, q
    <3>2. ptr[g] \in 1 .. Len(Now.count)
      BY <1>1, <2>2, PointsTo, NowIs
    <3>3. /\ Unref(Now, ptr[g]) \in State
          /\ Len(Unref(Now, ptr[g]).count) = Len(Now.count)
          /\ Sound(pooled, Unref(Now, ptr[g]).count, Unref(Now, ptr[g]).head, allocated,
                   [ptr EXCEPT ![g] = Absent])
      <4> DEFINE c == Now
                 v == ptr
      <4>1. c \in State /\ Sound(pooled, c.count, c.head, allocated, v) /\ v[g] \in 1 .. Len(c.count)
        BY <1>4, <3>2
      <4> HIDE DEF c, v
      <4>2. /\ Unref(c, v[g]) \in State
            /\ Len(Unref(c, v[g]).count) = Len(c.count)
            /\ Sound(pooled, Unref(c, v[g]).count, Unref(c, v[g]).head, allocated, [v EXCEPT ![g] = Absent])
        BY <4>1, UnrefKeeps
      <4> QED BY <4>2 DEF c, v
    <3> QED BY <3>1, <3>3
  <2> QED BY <2>1, <2>2
<1>6. q[g] \in {Absent, Null} /\ ptr' = [q EXCEPT ![g] = b]
  BY <1>1, <1>4
<1> HIDE DEF s, q
<1>7. Sound(pooled, count', head', allocated, ptr')
  <2>1. b \in {Null} \cup (1 .. Len(s.count))
    BY <1>3, <1>5
  <2>2. Sound(pooled, Ref(s, b).count, Ref(s, b).head, allocated, [q EXCEPT ![g] = b])
    BY <1>2, <1>5, <1>6, <2>1, RefKeeps
  <2> QED BY <1>1, <1>6, <2>2
<1> QED BY <1>1, <1>7 DEF Sound

LEMMA DestroySound ==
  ASSUME IsFiniteSet(Pointers), CountsInv, NEW g \in Pointers, Destroy(g), Up'
  PROVE  Sound(pooled', count', head', allocated', ptr')
<1>1. /\ Up /\ InScope(g) /\ ptr' = [ptr EXCEPT ![g] = Absent]
      /\ Leaves(IF ptr[g] = Null THEN [Now EXCEPT !.fate = "null"] ELSE Unref(Now, ptr[g]))
      /\ UNCHANGED <<pooled, allocated>>
  BY DEF Destroy
<1>2. Sound(pooled, Now.count, Now.head, allocated, ptr) /\ Now \in State
  BY <1>1, NowIs
<1>3. ptr[g] # Null
  <2>1. [Now EXCEPT !.fate = "null"].fate = "null"
    BY DEF Now
  <2>2. ptr[g] = Null => fate' = "null"
    BY <1>1, <2>1 DEF Leaves
  <2> QED BY <2>2 DEF Up
<1>4. ptr[g] \in 1 .. Len(Now.count)
  BY <1>1, <1>3, PointsTo, NowIs
<1>5. count' = Unref(Now, ptr[g]).count /\ head' = Unref(Now, ptr[g]).head
  BY <1>1, <1>3 DEF Leaves
<1>6. Sound(pooled, count', head', allocated, ptr')
  BY <1>1, <1>2, <1>4, <1>5, UnrefKeeps
<1> QED BY <1>1, <1>6 DEF Sound

(* unref of an object without a reference leaves its count at zero, which  *)
(* AllocCollector::Delete does not accept.                                 *)
LEMMA UnrefNewSound ==
  ASSUME CountsInv, NEW b \in Blocks, UnrefNew(b), Up'
  PROVE  Sound(pooled', count', head', allocated', ptr')
<1>1. Up /\ count[b] = 0 /\ Leaves(Unref(Now, b)) /\ UNCHANGED <<pooled, allocated, ptr>>
  BY DEF UnrefNew
<1>2. /\ Sound(pooled, count, head, allocated, ptr) /\ count \in Seq(Int)
      /\ Now.count = count /\ Now.head = head /\ Now.fate = fate /\ Now \in State
  BY <1>1, NowIs
<1>3. b \in 1 .. Len(count)
  BY DEF Blocks
<1>4. Counted(0) = 0
  BY DEF Counted
<1>5. /\ Less(Now, b).count = count /\ Less(Now, b).head = head /\ Less(Now, b).count[b] = 0
      /\ DOMAIN Less(Now, b) = {"count", "head", "fate"}
  <2>1. Less(Now, b).count = [count EXCEPT ![b] = Counted(count[b])] /\ Less(Now, b).head = head
    BY <1>2 DEF Less, State
  <2>2. [count EXCEPT ![b] = Counted(count[b])] = count
    BY <1>1, <1>2, <1>3, <1>4
  <2>3. DOMAIN Less(Now, b) = {"count", "head", "fate"}
    BY DEF Less, Now
  <2> QED BY <1>1, <2>1, <2>2, <2>3
<1>6. ~pooled
  <2>1. SUFFICES ASSUME pooled PROVE FALSE
    OBVIOUS
  <2>2. Unref(Now, b) = Deleted(Less(Now, b), b)
    BY <1>2, <1>5, <2>1, UnrefByLess
  <2>3. Deleted(Less(Now, b), b) = [[Less(Now, b) EXCEPT !.head = Prepend(b, @)] EXCEPT !.fate = "assertion"]
    BY <1>5 DEF Deleted
  <2>4. Deleted(Less(Now, b), b).fate = "assertion"
    BY <1>5, <2>3
  <2> QED BY <1>1, <2>2, <2>4 DEF Leaves, Up
<1>7. Unref(Now, b) = Less(Now, b)
  BY <1>2, <1>6, UnrefByLess
<1>8. count' = count /\ head' = head
  BY <1>1, <1>5, <1>7 DEF Leaves
<1> QED BY <1>1, <1>2, <1>8 DEF Sound

LEMMA StepSound ==
  ASSUME IsFiniteSet(Pointers), PoolBlocks \in Nat \ {0}, CountsInv, [CollectorNext]_collectorVars
  PROVE  CountsInv'
<1> SUFFICES ASSUME Up' PROVE Sound(pooled', count', head', allocated', ptr')
  BY DEF CountsInv
<1>1. CASE New
  BY <1>1, NewPooled, NewKept
<1>2. CASE Clean
  BY <1>2, CleanSound
<1>3. ASSUME NEW g \in Pointers, Construct(g)
      PROVE  Sound(pooled', count', head', allocated', ptr')
  BY <1>3, ConstructSound
<1>4. ASSUME NEW g \in Pointers, Destroy(g)
      PROVE  Sound(pooled', count', head', allocated', ptr')
  BY <1>4, DestroySound
<1>5. ASSUME NEW g \in Pointers, NEW b \in Sources, ConstructFrom(g, b)
      PROVE  Sound(pooled', count', head', allocated', ptr')
  BY <1>5, ConstructFromSound
<1>6. ASSUME NEW g \in Pointers, NEW b \in Sources, Assign(g, b)
      PROVE  Sound(pooled', count', head', allocated', ptr')
  BY <1>6, AssignSound
<1>7. ASSUME NEW b \in Blocks, UnrefNew(b)
      PROVE  Sound(pooled', count', head', allocated', ptr')
  BY <1>7, UnrefNewSound
<1>8. CASE UNCHANGED collectorVars
  <2>1. Up /\ UNCHANGED <<pooled, count, head, allocated, ptr>>
    BY <1>8 DEF collectorVars, Up
  <2> QED BY <2>1 DEF CountsInv, Sound
<1> QED BY <1>1, <1>2, <1>3, <1>4, <1>5, <1>6, <1>7, <1>8 DEF CollectorNext

-----------------------------------------------------------------------------
(* What the invariant says of the program.                                 *)

LEMMA SoundMeansLive ==
  ASSUME IsFiniteSet(Pointers), CountsInv
  PROVE  HeldObjectsLive
<1> SUFFICES ASSUME Up
             PROVE  /\ \A b \in Blocks :
                          /\ Holders(b) # {} => count[b] = Cardinality(Holders(b))
                          /\ Holders(b) = {} => count[b] <= 0
                    /\ IsInjective(head)
                    /\ pooled => Range(head) = {b \in Blocks : count[b] < 0}
                    /\ ~pooled => allocated = {b \in Blocks : Living(b)}
  BY DEF HeldObjectsLive
<1>1. /\ Sound(pooled, count, head, allocated, ptr)
      /\ count \in Seq(Int) /\ head \in Seq(Nat) /\ Len(count) \in Nat
  BY NowIs
<1>2. \A b : Holders(b) = Held(ptr, b)
  BY DEF Holders, Held
<1>3. ASSUME NEW b \in Blocks
      PROVE  /\ Holders(b) # {} => count[b] = Cardinality(Holders(b))
             /\ Holders(b) = {} => count[b] <= 0
  <2>1. count[b] = Cardinality(Held(ptr, b)) \/ (count[b] < 0 /\ Held(ptr, b) = {})
    BY <1>1 DEF Sound, Counting, Blocks
  <2>2. Held(ptr, b) = {} => Cardinality(Held(ptr, b)) = 0
    BY FS_EmptySet
  <2>3. count[b] \in Int
    BY <1>1 DEF Blocks
  <2> QED BY <1>2, <2>1, <2>2, <2>3
<1>4. pooled => FreeListed(count, head)
  BY <1>1 DEF Sound
<1>5. ~pooled => head = <<>> /\ Kept(count, allocated)
  BY <1>1 DEF Sound
<1>6. DOMAIN head = 1 .. Len(head)
  BY <1>1
<1>7. IsInjective(head)
  <2>1. CASE pooled
    BY <1>4, <1>6, <2>1 DEF FreeListed, IsInjective
  <2>2. CASE ~pooled
    <3>1. DOMAIN head = {}
      BY <1>5, <2>2
    <3> QED BY <3>1 DEF IsInjective
  <2> QED BY <2>1, <2>2
<1>8. pooled => Range(head) = {b \in Blocks : count[b] < 0}
  <2>1. SUFFICES ASSUME pooled PROVE Range(head) = {b \in Blocks : count[b] < 0}
    OBVIOUS
  <2>2. \A b : b \in Range(head) <=> \E i \in 1 .. Len(head) : head[i] = b
    BY <1>6 DEF Range
  <2>3. \A b : b \in Range(head) <=> b \in Blocks /\ count[b] < 0
    BY <1>4, <2>1, <2>2 DEF FreeListed, Blocks
  <2> QED BY <2>3
<1>9. ~pooled => allocated = {b \in Blocks : Living(b)}
  BY <1>5 DEF Kept, Blocks, Living
<1> QED BY <1>3, <1>7, <1>8, <1>9

(* The counts, the free list and the pointers agree in every reachable     *)
(* state of a program that goes on.                                        *)
THEOREM CollectorInvariance == CollectorSpec => []CountsInv
<1>1. CollectorInit => CountsInv
  BY InitSound, CollectorAssumption
<1>2. CountsInv /\ [CollectorNext]_collectorVars => CountsInv'
  BY StepSound, CollectorAssumption
<1> QED BY <1>1, <1>2, PTL DEF CollectorSpec

(* A GCPtr never points to a freed block, an object counts its holders,    *)
(* and no block is lost or handed out twice: as long as no object that has *)
(* lost its last reference is given one, for any number of pointers and    *)
(* any size of the pools.                                                  *)
THEOREM HeldObjectsStay == CollectorSpec => []HeldObjectsLive
<1>1. CountsInv => HeldObjectsLive
  BY SoundMeansLive, CollectorAssumption
<1> QED BY <1>1, CollectorInvariance, PTL
==============================================================================
