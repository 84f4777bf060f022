-------------------------- MODULE PrefixTreeProofs --------------------------
(***************************************************************************)
(* That the trees of buckets keep their buckets in order, that they are    *)
(* the AtomicMap of ITreeIndex.cs whatever keys share a prefix, and that   *)
(* NextKey meets every key: for any keys, prefixes, values and limits.     *)
(***************************************************************************)
EXTENDS PrefixTree, FiniteSetTheorems, WellFoundedInduction, TLAPS

(* Numbers, and the index of the first element that passes a test.         *)
LEMMA MinOfNats ==
  ASSUME NEW S \in SUBSET Nat, S # {}
  PROVE  Min(S) \in S /\ \A y \in S : Min(S) <= y
<1> DEFINE Less == OpToRel(<, Nat)
<1>1. IsWellFoundedOn(Less, Nat)
  BY NatLessThanWellFounded
<1>2. \A x, y \in Nat : <<x, y>> \in Less <=> x < y
  BY DEF OpToRel
<1> HIDE DEF Less
<1>3. PICK x \in S : \A y \in S : ~ (<<y, x>> \in Less)
  BY <1>1, WFMin
<1>4. ASSUME NEW y \in S PROVE x <= y
  <2>1. x \in Nat /\ y \in Nat /\ ~ (y < x)
    BY <1>2, <1>3, Zenon
  <2>2. QED
    BY <2>1
<1>5. QED
  BY <1>4 DEF Min

(* Add stops at the first key that is not less; NextKey takes the first    *)
(* that is greater.                                                        *)
LEMMA IndexIs ==
  ASSUME NEW T, NEW b \in Seq(T), NEW k
  PROVE  \/ IndexOf(b, k) = 0 /\ \A j \in 1 .. Len(b) : b[j][1] # k
         \/ IndexOf(b, k) \in 1 .. Len(b) /\ b[IndexOf(b, k)][1] = k
<1> DEFINE I == { i \in 1 .. Len(b) : b[i][1] = k }
<1>1. I \in SUBSET Nat
  OBVIOUS
<1>2. I # {} => Min(I) \in I
  BY <1>1, MinOfNats
<1>3. IndexOf(b, k) = IF I # {} THEN Min(I) ELSE 0
  BY DEF IndexOf, SelectInSeq
<1>4. CASE I # {}
  BY <1>2, <1>3, <1>4
<1>5. CASE I = {}
  BY <1>3, <1>5
<1>6. QED
  BY <1>4, <1>5

LEMMA StopIs ==
  ASSUME NEW T, NEW b \in Seq(T), NEW k
  PROVE  /\ Stop(b, k) \in 1 .. Len(b) + 1
         /\ \A j \in 1 .. Stop(b, k) - 1 : ~ (b[j][1] >= k)
         /\ Stop(b, k) <= Len(b) => b[Stop(b, k)][1] >= k
<1> DEFINE I == { i \in 1 .. Len(b) : b[i][1] >= k }
<1>1. I \in SUBSET Nat
  OBVIOUS
<1>2. I # {} => Min(I) \in I /\ \A y \in I : Min(I) <= y
  BY <1>1, MinOfNats
<1>3. Stop(b, k) = LET i == IF I # {} THEN Min(I) ELSE 0
                   IN  IF i = 0 THEN Len(b) + 1 ELSE i
  BY DEF Stop, SelectInSeq
<1>4. CASE I # {}
  <2>1. Min(I) \in 1 .. Len(b) /\ b[Min(I)][1] >= k
    BY <1>2, <1>4
  <2>2. Stop(b, k) = Min(I)
    BY <1>3, <1>4, <2>1
  <2>3. \A j \in 1 .. Min(I) - 1 : ~ (b[j][1] >= k)
    <3> SUFFICES ASSUME NEW j \in 1 .. Min(I) - 1, b[j][1] >= k PROVE FALSE
      OBVIOUS
    <3>1. j \in I
      BY <2>1
    <3>2. QED
      BY <3>1, <2>1, <1>2, <1>4
  <2>4. QED
    BY <2>1, <2>2, <2>3
<1>5. CASE I = {}
  <2>1. Stop(b, k) = Len(b) + 1
    BY <1>3, <1>5
  <2>2. \A j \in 1 .. Len(b) : ~ (b[j][1] >= k)
    BY <1>5
  <2>3. QED
    BY <2>1, <2>2
<1>6. QED
  BY <1>4, <1>5

LEMMA AfterIs ==
  ASSUME NEW T, NEW b \in Seq(T), NEW k
  PROVE  \/ After(b, k) = 0 /\ \A j \in 1 .. Len(b) : ~ (b[j][1] > k)
         \/ \E i \in 1 .. Len(b) :
              /\ After(b, k) = b[i][1] /\ b[i][1] > k
              /\ \A j \in 1 .. i - 1 : ~ (b[j][1] > k)
<1> DEFINE I == { i \in 1 .. Len(b) : b[i][1] > k }
<1>1. I \in SUBSET Nat
  OBVIOUS
<1>2. I # {} => Min(I) \in I /\ \A y \in I : Min(I) <= y
  BY <1>1, MinOfNats
<1>3. After(b, k) = LET i == IF I # {} THEN Min(I) ELSE 0
                    IN  IF i = 0 THEN 0 ELSE b[i][1]
  BY DEF After, SelectInSeq, KeyAt
<1>4. CASE I # {}
  <2>1. Min(I) \in 1 .. Len(b) /\ b[Min(I)][1] > k
    BY <1>2, <1>4
  <2>2. After(b, k) = b[Min(I)][1]
    BY <1>3, <1>4, <2>1
  <2>3. \A j \in 1 .. Min(I) - 1 : ~ (b[j][1] > k)
    <3> SUFFICES ASSUME NEW j \in 1 .. Min(I) - 1, b[j][1] > k PROVE FALSE
      OBVIOUS
    <3>1. j \in I
      BY <2>1
    <3>2. QED
      BY <3>1, <2>1, <1>2, <1>4
  <2>4. QED
    BY <2>1, <2>2, <2>3
<1>5. CASE I = {}
  <2>1. After(b, k) = 0
    BY <1>3, <1>5
  <2>2. \A j \in 1 .. Len(b) : ~ (b[j][1] > k)
    BY <1>5
  <2>3. QED
    BY <2>1, <2>2
<1>6. QED
  BY <1>4, <1>5

-----------------------------------------------------------------------------
(* Inserting and removing, element by element.                             *)
Inserted(s, i, e, n) ==
  /\ Len(n) = Len(s) + 1
  /\ \A j \in 1 .. Len(s) + 1 :
       n[j] = IF j < i THEN s[j] ELSE IF j = i THEN e ELSE s[j - 1]

LEMMA InsertAtIs ==
  ASSUME NEW T, NEW s \in Seq(T), NEW i \in 1 .. Len(s) + 1, NEW e \in T
  PROVE  InsertAt(s, i, e) \in Seq(T) /\ Inserted(s, i, e, InsertAt(s, i, e))
<1> DEFINE before == SubSeq(s, 1, i - 1)
           after == SubSeq(s, i, Len(s))
<1>1. /\ before \in Seq(T) /\ Len(before) = i - 1
      /\ \A j \in 1 .. i - 1 : before[j] = s[j]
  OBVIOUS
<1>2. /\ after \in Seq(T) /\ Len(after) = Len(s) + 1 - i
      /\ \A j \in 1 .. Len(s) + 1 - i : after[j] = s[i + j - 1]
  OBVIOUS
<1>3. InsertAt(s, i, e) = before \o <<e>> \o after
  BY DEF InsertAt
<1> HIDE DEF before, after
<1>4. /\ before \o <<e>> \in Seq(T) /\ Len(before \o <<e>>) = i
      /\ \A j \in 1 .. i - 1 : (before \o <<e>>)[j] = s[j]
      /\ (before \o <<e>>)[i] = e
  BY <1>1
<1>5. QED
  BY <1>2, <1>3, <1>4 DEF Inserted

Taken(s, i, n) ==
  /\ Len(n) = Len(s) - 1
  /\ \A j \in 1 .. Len(s) - 1 : n[j] = IF j < i THEN s[j] ELSE s[j + 1]

LEMMA RemoveAtIs ==
  ASSUME NEW T, NEW s \in Seq(T), NEW i \in 1 .. Len(s)
  PROVE  RemoveAt(s, i) \in Seq(T) /\ Taken(s, i, RemoveAt(s, i))
<1> DEFINE before == SubSeq(s, 1, i - 1)
           after == SubSeq(s, i + 1, Len(s))
<1>1. /\ before \in Seq(T) /\ Len(before) = i - 1
      /\ \A j \in 1 .. i - 1 : before[j] = s[j]
  OBVIOUS
<1>2. /\ after \in Seq(T) /\ Len(after) = Len(s) - i
      /\ \A j \in 1 .. Len(s) - i : after[j] = s[i + j]
  OBVIOUS
<1>3. RemoveAt(s, i) = before \o after
  BY DEF RemoveAt
<1> HIDE DEF before, after
<1>4. before \o after \in Seq(T) /\ Len(before \o after) = Len(s) - 1
  BY <1>1, <1>2
<1>5. ASSUME NEW j \in 1 .. Len(s) - 1
      PROVE  (before \o after)[j] = IF j < i THEN s[j] ELSE s[j + 1]
  <2>1. CASE j < i
    BY <1>1, <1>2, <2>1
  <2>2. CASE ~ (j < i)
    <3>1. (before \o after)[j] = after[j - (i - 1)]
      BY <1>1, <1>2, <2>2
    <3>2. j - (i - 1) \in 1 .. Len(s) - i /\ i + (j - (i - 1)) = j + 1
      BY <2>2
    <3>3. after[j - (i - 1)] = s[j + 1]
      BY <1>2, <3>2
    <3>4. QED
      BY <3>1, <3>3, <2>2
  <2>3. QED
    BY <2>1, <2>2
<1>6. QED
  BY <1>3, <1>4, <1>5 DEF Taken

-----------------------------------------------------------------------------
(* A bucket is a set of pairs, written in the order of their keys.         *)
Pairs(b) == { b[i] : i \in 1 .. Len(b) }

Ordered(b) == \A i, j \in 1 .. Len(b) : i < j => b[i][1] < b[j][1]

BucketOK(b, p) ==
  /\ b \in Seq(Keys \X Vals) /\ b # <<>> /\ Ordered(b)
  /\ \A e \in Pairs(b) : Prefix(e[1]) = p

LEMMA PairsKeys ==
  ASSUME NEW b \in Seq(Keys \X Vals)
  PROVE  /\ Pairs(b) \subseteq Keys \X Vals
         /\ KeysIn(b) = { e[1] : e \in Pairs(b) }
  BY DEF Pairs, KeysIn, KeyAt

(* The pairs of n are those of b without the key k, and e.                 *)
ButOne(b, n, k, e) ==
  /\ \E i \in 1 .. Len(n) : n[i] = e
  /\ \A j \in 1 .. Len(b) : b[j][1] # k => \E i \in 1 .. Len(n) : n[i] = b[j]
  /\ \A i \in 1 .. Len(n) :
       n[i] = e \/ \E j \in 1 .. Len(b) : n[i] = b[j] /\ b[j][1] # k

LEMMA PairsButOne ==
  ASSUME NEW b, NEW n, NEW k, NEW e, ButOne(b, n, k, e)
  PROVE  Pairs(n) = { x \in Pairs(b) : x[1] # k } \cup { e }
<1> USE DEF ButOne
<1>1. ASSUME NEW x \in Pairs(n) PROVE x \in { y \in Pairs(b) : y[1] # k } \cup { e }
  <2>1. PICK i \in 1 .. Len(n) : x = n[i]
    BY DEF Pairs
  <2>2. CASE x # e
    <3>1. PICK j \in 1 .. Len(b) : x = b[j] /\ b[j][1] # k
      BY <2>1, <2>2
    <3>2. x \in Pairs(b) /\ x[1] # k
      BY <3>1 DEF Pairs
    <3>3. QED
      BY <3>2
  <2>3. QED
    BY <2>2
<1>2. ASSUME NEW x \in Pairs(b), x[1] # k PROVE x \in Pairs(n)
  <2>1. PICK j \in 1 .. Len(b) : x = b[j]
    BY DEF Pairs
  <2>2. PICK i \in 1 .. Len(n) : n[i] = b[j]
    BY <1>2, <2>1
  <2>3. QED
    BY <2>1, <2>2 DEF Pairs
<1>3. e \in Pairs(n)
  BY DEF Pairs
<1>4. QED
  BY <1>1, <1>2, <1>3

(* Add replaces the pair of the key, or adds one, and keeps the order.     *)
LEMMA AddedIs ==
  ASSUME Keys \subseteq Nat, NEW b \in Seq(Keys \X Vals), Ordered(b),
         NEW k \in Keys, NEW v \in Vals
  PROVE  /\ Added(b, k, v) \in Seq(Keys \X Vals) /\ Added(b, k, v) # <<>>
         /\ Ordered(Added(b, k, v))
         /\ Pairs(Added(b, k, v)) = { e \in Pairs(b) : e[1] # k } \cup { <<k, v>> }
<1> DEFINE at == Stop(b, k)
           n == Added(b, k, v)
           T == Keys \X Vals
<1>1. /\ at \in 1 .. Len(b) + 1
      /\ \A j \in 1 .. at - 1 : ~ (b[j][1] >= k)
      /\ at <= Len(b) => b[at][1] >= k
  BY StopIs
<1>2. \A j \in 1 .. Len(b) : b[j] \in T /\ b[j][1] \in Nat
  <2>1. \A j \in 1 .. Len(b) : b[j] \in Keys \X Vals
    OBVIOUS
  <2>2. \A e \in Keys \X Vals : e[1] \in Keys
    OBVIOUS
  <2>3. QED
    BY <2>1, <2>2
<1>3. <<k, v>> \in T /\ k \in Nat
  OBVIOUS
<1>4. ASSUME NEW j \in 1 .. Len(b)
      PROVE  (j < at => b[j][1] < k) /\ (j > at => b[j][1] > k)
  <2>1. CASE j < at
    <3>1. ~ (b[j][1] >= k) /\ b[j][1] \in Nat
      BY <1>1, <1>2, <2>1
    <3>2. QED
      BY <3>1, <1>1, <1>3, <2>1
  <2>2. CASE j > at
    <3>1. at \in 1 .. Len(b) /\ b[at][1] >= k
      BY <1>1, <2>2
    <3>2. b[at][1] < b[j][1]
      BY <3>1, <2>2 DEF Ordered
    <3>3. b[at][1] \in Nat /\ b[j][1] \in Nat
      BY <1>2, <3>1
    <3>4. QED
      BY <3>1, <3>2, <3>3, <1>1, <1>3, <2>2
  <2>3. QED
    BY <1>1, <2>1, <2>2
<1>5. n = IF at \in 1 .. Len(b) /\ b[at][1] = k THEN [b EXCEPT ![at] = <<k, v>>]
          ELSE InsertAt(b, at, <<k, v>>)
  BY DEF Added, KeyAt
<1> HIDE DEF at, n, T
<1>6. CASE at \in 1 .. Len(b) /\ b[at][1] = k
  <2>1. /\ n \in Seq(T) /\ Len(n) = Len(b)
        /\ \A j \in 1 .. Len(b) : n[j] = IF j = at THEN <<k, v>> ELSE b[j]
    BY <1>3, <1>5, <1>6 DEF T
  <2>2. \A j \in 1 .. Len(b) : n[j][1] = b[j][1]
    BY <2>1, <1>6
  <2>3. Ordered(n)
    BY <2>1, <2>2 DEF Ordered
  <2>4. Pairs(n) = { e \in Pairs(b) : e[1] # k } \cup { <<k, v>> }
    <3>1. \A j \in 1 .. Len(b) : b[j][1] = k <=> j = at
      BY <1>1, <1>2, <1>3, <1>4, <1>6
    <3>2. QED
      <4> DEFINE e == <<k, v>>
      <4>1. at \in 1 .. Len(n) /\ n[at] = e
        BY <2>1, <1>6
      <4>2. \A j \in 1 .. Len(b) : b[j][1] # k => \E i \in 1 .. Len(n) : n[i] = b[j]
        BY <2>1, <3>1
      <4>3. \A i \in 1 .. Len(n) :
              n[i] = e \/ \E j \in 1 .. Len(b) : n[i] = b[j] /\ b[j][1] # k
        BY <2>1, <3>1
      <4>4. ButOne(b, n, k, e)
        BY <4>1, <4>2, <4>3 DEF ButOne
      <4>5. QED
        BY <4>4, PairsButOne
  <2>5. n # <<>>
    BY <2>1, <1>6
  <2>6. QED
    BY <2>1, <2>3, <2>4, <2>5 DEF n, T
<1>7. CASE ~ (at \in 1 .. Len(b) /\ b[at][1] = k)
  <2>1. /\ n \in Seq(T) /\ Len(n) = Len(b) + 1
        /\ \A j \in 1 .. Len(b) + 1 :
             n[j] = IF j < at THEN b[j] ELSE IF j = at THEN <<k, v>> ELSE b[j - 1]
    <3>1. n = InsertAt(b, at, <<k, v>>)
      BY <1>5, <1>7
    <3>2. b \in Seq(T)
      BY DEF T
    <3>3. QED
      <4>1. at \in 1 .. Len(b) + 1 /\ <<k, v>> \in T
        BY <1>1, <1>3
      <4>2. n \in Seq(T) /\ Inserted(b, at, <<k, v>>, n)
        BY <3>1, <3>2, <4>1, InsertAtIs
      <4>3. QED
        BY <4>2 DEF Inserted
  <2>2. \A j \in 1 .. Len(b) : /\ j < at => b[j][1] < k
                               /\ j >= at => b[j][1] > k
    BY <1>1, <1>2, <1>3, <1>4, <1>7
  <2>3. Ordered(n)
    <3> SUFFICES ASSUME NEW i \in 1 .. Len(b) + 1, NEW j \in 1 .. Len(b) + 1, i < j
                 PROVE  n[i][1] < n[j][1]
      BY <2>1 DEF Ordered
    <3>1. CASE j < at
      <4>1. n[i] = b[i] /\ n[j] = b[j] /\ i \in 1 .. Len(b) /\ j \in 1 .. Len(b)
        BY <2>1, <3>1, <1>1
      <4>2. QED
        BY <4>1 DEF Ordered
    <3>2. CASE j = at
      <4>1. n[i] = b[i] /\ n[j] = <<k, v>> /\ i \in 1 .. Len(b) /\ i < at
        BY <2>1, <3>2, <1>1
      <4>2. QED
        BY <4>1, <2>2
    <3>3. CASE j > at
      <4>1. n[j] = b[j - 1] /\ j - 1 \in 1 .. Len(b) /\ j - 1 >= at
        BY <2>1, <3>3, <1>1
      <4>2. CASE i < at
        <5>1. n[i] = b[i] /\ i \in 1 .. Len(b) /\ i < j - 1
          BY <2>1, <4>1, <4>2, <1>1
        <5>2. QED
          BY <4>1, <5>1 DEF Ordered
      <4>3. CASE i = at
        <5>1. n[i] = <<k, v>>
          BY <2>1, <4>3
        <5>2. b[j - 1][1] > k /\ b[j - 1][1] \in Nat
          BY <2>2, <4>1, <1>2
        <5>3. QED
          BY <4>1, <5>1, <5>2, <1>3
      <4>4. CASE i > at
        <5>1. n[i] = b[i - 1] /\ i - 1 \in 1 .. Len(b) /\ i - 1 < j - 1
          BY <2>1, <4>1, <4>4, <1>1
        <5>2. QED
          BY <4>1, <5>1 DEF Ordered
      <4>5. QED
        BY <4>2, <4>3, <4>4, <1>1
    <3>4. QED
      BY <3>1, <3>2, <3>3, <1>1
  <2>4. Pairs(n) = { e \in Pairs(b) : e[1] # k } \cup { <<k, v>> }
    <3>1. \A j \in 1 .. Len(b) : b[j][1] # k
      BY <2>2, <1>1, <1>2, <1>3
    <3>2. \A j \in 1 .. Len(b) : \E i \in 1 .. Len(b) + 1 : n[i] = b[j]
      <4> SUFFICES ASSUME NEW j \in 1 .. Len(b)
                   PROVE  \E i \in 1 .. Len(b) + 1 : n[i] = b[j]
        OBVIOUS
      <4>1. CASE j < at
        <5>1. j \in 1 .. Len(b) + 1 /\ n[j] = b[j]
          BY <2>1, <4>1, <1>1
        <5>2. QED
          BY <5>1
      <4>2. CASE j >= at
        <5>1. j + 1 \in 1 .. Len(b) + 1 /\ n[j + 1] = b[j]
          BY <2>1, <4>2, <1>1
        <5>2. QED
          BY <5>1
      <4>3. QED
        BY <4>1, <4>2, <1>1
    <3>3. n[at] = <<k, v>>
      BY <2>1, <1>1
    <3>4. \A i \in 1 .. Len(b) + 1 : n[i] = <<k, v>> \/ \E j \in 1 .. Len(b) : n[i] = b[j]
      <4> SUFFICES ASSUME NEW i \in 1 .. Len(b) + 1, n[i] # <<k, v>>
                   PROVE  \E j \in 1 .. Len(b) : n[i] = b[j]
        OBVIOUS
      <4>1. CASE i < at
        BY <2>1, <4>1, <1>1
      <4>2. CASE i > at
        <5>1. i - 1 \in 1 .. Len(b) /\ n[i] = b[i - 1]
          BY <2>1, <4>2, <1>1
        <5>2. QED
          BY <5>1
      <4>3. QED
        BY <4>1, <4>2, <3>3, <1>1
    <3>5. Len(n) = Len(b) + 1
      BY <2>1
    <3>6. QED
      <4> DEFINE e == <<k, v>>
      <4>1. at \in 1 .. Len(n) /\ n[at] = e
        BY <3>3, <3>5, <1>1
      <4>2. \A j \in 1 .. Len(b) : b[j][1] # k => \E i \in 1 .. Len(n) : n[i] = b[j]
        BY <3>2, <3>5
      <4>3. \A i \in 1 .. Len(n) :
              n[i] = e \/ \E j \in 1 .. Len(b) : n[i] = b[j] /\ b[j][1] # k
        BY <3>1, <3>4, <3>5
      <4>4. ButOne(b, n, k, e)
        BY <4>1, <4>2, <4>3 DEF ButOne
      <4>5. QED
        BY <4>4, PairsButOne
  <2>5. n # <<>>
    BY <2>1
  <2>6. QED
    BY <2>1, <2>3, <2>4, <2>5 DEF n, T
<1>8. QED
  BY <1>6, <1>7

(* Remove takes the pair of the key, and no other.                         *)
LEMMA RemovedIs ==
  ASSUME Keys \subseteq Nat, NEW b \in Seq(Keys \X Vals), Ordered(b), NEW k \in KeysIn(b)
  PROVE  /\ Removed(b, k) \in Seq(Keys \X Vals)
         /\ Ordered(Removed(b, k))
         /\ Pairs(Removed(b, k)) = { e \in Pairs(b) : e[1] # k }
<1> DEFINE at == IndexOf(b, k)
           n == Removed(b, k)
           T == Keys \X Vals
<1>1. \E j \in 1 .. Len(b) : b[j][1] = k
  BY DEF KeysIn, KeyAt
<1>2. at \in 1 .. Len(b) /\ b[at][1] = k
  BY <1>1, IndexIs
<1>3. \A j \in 1 .. Len(b) : b[j][1] \in Nat
  <2>1. \A j \in 1 .. Len(b) : b[j] \in Keys \X Vals
    OBVIOUS
  <2>2. \A e \in Keys \X Vals : e[1] \in Keys
    OBVIOUS
  <2>3. QED
    BY <2>1, <2>2
<1>4. \A j \in 1 .. Len(b) : j # at => b[j][1] # k
  <2> SUFFICES ASSUME NEW j \in 1 .. Len(b), j # at, b[j][1] = k PROVE FALSE
    OBVIOUS
  <2>1. j < at \/ at < j
    BY <1>2
  <2>2. b[j][1] < b[at][1] \/ b[at][1] < b[j][1]
    BY <1>2, <2>1 DEF Ordered
  <2>3. QED
    BY <1>2, <1>3, <2>2
<1>5. n \in Seq(T) /\ Taken(b, at, n)
  BY <1>2, RemoveAtIs DEF Removed
<1> HIDE DEF at, n, T
<1>6. Len(n) = Len(b) - 1
  BY <1>5 DEF Taken
<1>7. \A j \in 1 .. Len(b) - 1 : n[j] = IF j < at THEN b[j] ELSE b[j + 1]
  BY <1>5 DEF Taken
<1>8. Ordered(n)
  <2> SUFFICES ASSUME NEW i \in 1 .. Len(b) - 1, NEW j \in 1 .. Len(b) - 1, i < j
               PROVE  n[i][1] < n[j][1]
    BY <1>6 DEF Ordered
  <2>1. CASE j < at
    <3>1. n[i] = b[i] /\ n[j] = b[j] /\ i \in 1 .. Len(b) /\ j \in 1 .. Len(b)
      BY <1>2, <1>7, <2>1
    <3>2. QED
      BY <3>1 DEF Ordered
  <2>2. CASE ~ (j < at) /\ i < at
    <3>1. n[i] = b[i] /\ n[j] = b[j + 1] /\ i \in 1 .. Len(b) /\ j + 1 \in 1 .. Len(b)
      BY <1>2, <1>7, <2>2
    <3>2. i < j + 1
      OBVIOUS
    <3>3. QED
      BY <3>1, <3>2 DEF Ordered
  <2>3. CASE ~ (i < at)
    <3>1. /\ n[i] = b[i + 1] /\ n[j] = b[j + 1]
          /\ i + 1 \in 1 .. Len(b) /\ j + 1 \in 1 .. Len(b)
      BY <1>2, <1>7, <2>3
    <3>2. i + 1 < j + 1
      OBVIOUS
    <3>3. QED
      BY <3>1, <3>2 DEF Ordered
  <2>4. QED
    BY <2>1, <2>2, <2>3
<1>9. ASSUME NEW x \in Pairs(n) PROVE x \in { e \in Pairs(b) : e[1] # k }
  <2>1. PICK i \in 1 .. Len(b) - 1 : x = n[i]
    BY <1>6 DEF Pairs
  <2>2. PICK j \in 1 .. Len(b) : x = b[j] /\ j # at
    <3>1. CASE i < at
      <4>1. i \in 1 .. Len(b) /\ i # at /\ x = b[i]
        BY <1>2, <1>7, <2>1, <3>1
      <4>2. QED
        BY <4>1
    <3>2. CASE ~ (i < at)
      <4>1. i + 1 \in 1 .. Len(b) /\ i + 1 # at /\ x = b[i + 1]
        BY <1>2, <1>7, <2>1, <3>2
      <4>2. QED
        BY <4>1
    <3>3. QED
      BY <3>1, <3>2
  <2>3. QED
    BY <2>2, <1>4 DEF Pairs
<1>10. ASSUME NEW x \in Pairs(b), x[1] # k PROVE x \in Pairs(n)
  <2>1. PICK j \in 1 .. Len(b) : x = b[j]
    BY DEF Pairs
  <2>2. j # at
    BY <1>2, <1>10, <2>1
  <2>3. CASE j < at
    <3>1. j \in 1 .. Len(b) - 1 /\ n[j] = x
      BY <1>2, <1>7, <2>1, <2>3
    <3>2. QED
      BY <3>1, <1>6 DEF Pairs
  <2>4. CASE j > at
    <3>1. j - 1 \in 1 .. Len(b) - 1 /\ ~ (j - 1 < at) /\ j - 1 + 1 = j
      BY <1>2, <2>4
    <3>2. n[j - 1] = x
      BY <1>7, <2>1, <3>1
    <3>3. QED
      BY <3>1, <3>2, <1>6 DEF Pairs
  <2>5. QED
    BY <1>2, <2>2, <2>3, <2>4
<1>11. QED
  BY <1>5, <1>8, <1>9, <1>10 DEF n, T

(* Find returns the value of the key's pair.                               *)
LEMMA FindIs ==
  ASSUME Keys \subseteq Nat, NEW b \in Seq(Keys \X Vals), Ordered(b), NEW e \in Pairs(b)
  PROVE  Find(b, e[1]) = e[2]
<1>1. PICK j \in 1 .. Len(b) : e = b[j]
  BY DEF Pairs
<1> DEFINE i == IndexOf(b, e[1])
<1>2. i \in 1 .. Len(b) /\ b[i][1] = b[j][1]
  BY <1>1, IndexIs
<1>3. b[i] \in Keys \X Vals /\ b[j] \in Keys \X Vals
  BY <1>2
<1>4. b[i][1] \in Nat /\ b[j][1] \in Nat
  BY <1>3
<1> HIDE DEF i
<1>5. i = j
  <2>1. i < j => b[i][1] < b[j][1]
    BY <1>2 DEF Ordered
  <2>2. j < i => b[j][1] < b[i][1]
    BY <1>2 DEF Ordered
  <2>3. QED
    BY <1>2, <1>4, <2>1, <2>2
<1>6. Find(b, e[1]) = IF i = 0 THEN 0 ELSE b[i][2]
  BY DEF Find, i
<1>7. QED
  BY <1>1, <1>2, <1>5, <1>6

-----------------------------------------------------------------------------
(* A tree is a set of pairs: those of its buckets.                         *)
TreeOK(t) == \A p \in DOMAIN t : BucketOK(t[p], p)

Entries(t) == UNION { Pairs(t[p]) : p \in DOMAIN t }

LEMMA EntriesAre ==
  ASSUME Keys \subseteq Nat, NEW t, TreeOK(t)
  PROVE  /\ Entries(t) \subseteq Keys \X Vals
         /\ AllKeys(t) = { e[1] : e \in Entries(t) }
         /\ \A e \in Entries(t) : Get(t, e[1]) = e[2]
<1>1. \A p \in DOMAIN t : /\ t[p] \in Seq(Keys \X Vals) /\ Ordered(t[p])
                          /\ \A e \in Pairs(t[p]) : Prefix(e[1]) = p
  BY DEF TreeOK, BucketOK
<1>2. \A p \in DOMAIN t : /\ Pairs(t[p]) \subseteq Keys \X Vals
                          /\ KeysIn(t[p]) = { e[1] : e \in Pairs(t[p]) }
  BY <1>1, PairsKeys
<1>3. Entries(t) \subseteq Keys \X Vals
  BY <1>2 DEF Entries
<1>4. AllKeys(t) = { e[1] : e \in Entries(t) }
  BY <1>2 DEF AllKeys, Entries
<1>5. ASSUME NEW e \in Entries(t) PROVE Get(t, e[1]) = e[2]
  <2>1. PICK p \in DOMAIN t : e \in Pairs(t[p])
    BY DEF Entries
  <2>2. Bucket(t, Prefix(e[1])) = t[p]
    BY <1>1, <2>1 DEF Bucket
  <2>3. Find(t[p], e[1]) = e[2]
    BY <1>1, <2>1, FindIs
  <2>4. QED
    BY <2>2, <2>3 DEF Get
<1>6. QED
  BY <1>3, <1>4, <1>5

(* The pairs of a key are in the bucket of its prefix, so that changing    *)
(* that bucket changes the tree's pairs of that key and no others.         *)
LEMMA OnePrefix ==
  ASSUME NEW t, TreeOK(t), NEW k \in Keys, NEW e \in Entries(t), e[1] = k
  PROVE  Prefix(k) \in DOMAIN t /\ e \in Pairs(t[Prefix(k)])
<1>1. PICK p \in DOMAIN t : e \in Pairs(t[p])
  BY DEF Entries
<1>2. Prefix(k) = p
  BY <1>1 DEF TreeOK, BucketOK
<1>3. QED
  BY <1>1, <1>2

LEMMA BucketIs ==
  ASSUME NEW t, TreeOK(t), NEW p
  PROVE  /\ Bucket(t, p) \in Seq(Keys \X Vals) /\ Ordered(Bucket(t, p))
         /\ \A e \in Pairs(Bucket(t, p)) : Prefix(e[1]) = p
         /\ p \in DOMAIN t => Bucket(t, p) = t[p]
         /\ p \notin DOMAIN t => Pairs(Bucket(t, p)) = {}
<1>1. CASE p \in DOMAIN t
  BY <1>1 DEF Bucket, TreeOK, BucketOK
<1>2. CASE p \notin DOMAIN t
  <2>1. Bucket(t, p) = <<>>
    BY <1>2 DEF Bucket
  <2>2. <<>> \in Seq(Keys \X Vals) /\ Len(<<>>) = 0
    OBVIOUS
  <2>3. Ordered(<<>>) /\ Pairs(<<>>) = {}
    BY <2>2 DEF Ordered, Pairs
  <2>4. QED
    BY <1>2, <2>1, <2>2, <2>3
<1>3. QED
  BY <1>1, <1>2

LEMMA SetEntries ==
  ASSUME Keys \subseteq Nat, NEW t, TreeOK(t), NEW k \in Keys, NEW v \in Vals
  PROVE  LET u == Put(t, Prefix(k), Added(Bucket(t, Prefix(k)), k, v))
         IN  /\ TreeOK(u)
             /\ Entries(u) = { e \in Entries(t) : e[1] # k } \cup { <<k, v>> }
<1> DEFINE p == Prefix(k)
           b == Bucket(t, p)
           n == Added(b, k, v)
           u == Put(t, p, n)
<1>1. /\ b \in Seq(Keys \X Vals) /\ Ordered(b)
      /\ \A e \in Pairs(b) : Prefix(e[1]) = p
      /\ p \in DOMAIN t => b = t[p]
      /\ p \notin DOMAIN t => Pairs(b) = {}
  BY BucketIs
<1>2. /\ n \in Seq(Keys \X Vals) /\ n # <<>> /\ Ordered(n)
      /\ Pairs(n) = { e \in Pairs(b) : e[1] # k } \cup { <<k, v>> }
  BY <1>1, AddedIs
<1>3. /\ DOMAIN u = DOMAIN t \cup {p} /\ u[p] = n
      /\ \A q \in DOMAIN t : q # p => u[q] = t[q]
  <2> HIDE DEF p, n
  <2>1. QED
    BY DEF Put
<1>4. Prefix(<<k, v>>[1]) = p
  OBVIOUS
<1>5. BucketOK(n, p)
  BY <1>1, <1>2, <1>4 DEF BucketOK
<1> HIDE DEF n, u, b
<1>6. TreeOK(u)
  BY <1>3, <1>5 DEF TreeOK
<1>7. ASSUME NEW e \in Entries(u)
      PROVE  e \in { x \in Entries(t) : x[1] # k } \cup { <<k, v>> }
  <2>1. PICK q \in DOMAIN u : e \in Pairs(u[q])
    BY DEF Entries
  <2>2. CASE q = p
    <3>1. e = <<k, v>> \/ (e \in Pairs(b) /\ e[1] # k)
      BY <1>2, <1>3, <2>1, <2>2
    <3>2. Pairs(b) \subseteq Entries(t)
      BY <1>1 DEF Entries
    <3>3. QED
      BY <3>1, <3>2
  <2>3. CASE q # p
    <3>1. q \in DOMAIN t /\ e \in Pairs(t[q])
      BY <1>3, <2>1, <2>3
    <3>2. Prefix(e[1]) = q
      BY <3>1 DEF TreeOK, BucketOK
    <3>3. QED
      BY <3>1, <3>2, <2>3 DEF Entries
  <2>4. QED
    BY <2>2, <2>3
<1>8. ASSUME NEW e \in Entries(t), e[1] # k PROVE e \in Entries(u)
  <2>1. PICK q \in DOMAIN t : e \in Pairs(t[q])
    BY DEF Entries
  <2>2. q \in DOMAIN u
    BY <1>3
  <2>3. e \in Pairs(u[q])
    <3>1. CASE q = p
      BY <1>1, <1>2, <1>3, <1>8, <2>1, <3>1
    <3>2. CASE q # p
      BY <1>3, <2>1, <3>2
    <3>3. QED
      BY <3>1, <3>2
  <2>4. QED
    BY <2>2, <2>3 DEF Entries
<1>9. <<k, v>> \in Entries(u)
  <2>1. p \in DOMAIN u /\ <<k, v>> \in Pairs(u[p])
    BY <1>2, <1>3
  <2>2. QED
    BY <2>1 DEF Entries
<1>10. Entries(u) = { e \in Entries(t) : e[1] # k } \cup { <<k, v>> }
  BY <1>7, <1>8, <1>9
<1>11. QED
  BY <1>6, <1>10 DEF n, u, b

(* A bucket that becomes empty goes, and takes no pair with it.            *)
LEMMA RemoveEntries ==
  ASSUME Keys \subseteq Nat, NEW t, TreeOK(t), NEW k \in Keys,
         k \in KeysIn(Bucket(t, Prefix(k)))
  PROVE  LET b == Removed(Bucket(t, Prefix(k)), k)
             u == IF b = <<>> THEN Drop(t, Prefix(k)) ELSE Put(t, Prefix(k), b)
         IN  TreeOK(u) /\ Entries(u) = { e \in Entries(t) : e[1] # k }
<1> DEFINE p == Prefix(k)
           b == Bucket(t, p)
           n == Removed(b, k)
           u == IF n = <<>> THEN Drop(t, p) ELSE Put(t, p, n)
<1>1. /\ b \in Seq(Keys \X Vals) /\ Ordered(b)
      /\ \A e \in Pairs(b) : Prefix(e[1]) = p
      /\ p \in DOMAIN t => b = t[p]
      /\ p \notin DOMAIN t => Pairs(b) = {}
  BY BucketIs
<1>2. /\ n \in Seq(Keys \X Vals) /\ Ordered(n)
      /\ Pairs(n) = { e \in Pairs(b) : e[1] # k }
  BY <1>1, RemovedIs
<1>3. p \in DOMAIN t
  BY <1>1, PairsKeys
<1> HIDE DEF p, n, b
<1>4. n = <<>> => Pairs(n) = {}
  BY DEF Pairs
<1>5. CASE n = <<>>
  <2>1. /\ DOMAIN u = DOMAIN t \ {p}
        /\ \A q \in DOMAIN u : u[q] = t[q]
    BY <1>5 DEF Drop
  <2> HIDE DEF u
  <2>2. TreeOK(u)
    BY <2>1 DEF TreeOK
  <2>3. ASSUME NEW e \in Entries(u) PROVE e \in Entries(t) /\ e[1] # k
    <3>1. PICK q \in DOMAIN u : e \in Pairs(u[q])
      BY DEF Entries
    <3>2. q \in DOMAIN t /\ q # p /\ e \in Pairs(t[q])
      BY <2>1, <3>1
    <3>3. Prefix(e[1]) = q
      BY <3>2 DEF TreeOK, BucketOK
    <3>4. QED
      BY <3>2, <3>3 DEF Entries, p
  <2>4. ASSUME NEW e \in Entries(t), e[1] # k PROVE e \in Entries(u)
    <3>1. PICK q \in DOMAIN t : e \in Pairs(t[q])
      BY DEF Entries
    <3>2. q # p
      BY <1>1, <1>2, <1>4, <1>5, <2>4, <3>1
    <3>3. q \in DOMAIN u /\ e \in Pairs(u[q])
      BY <2>1, <3>1, <3>2
    <3>4. QED
      BY <3>3 DEF Entries
  <2>5. Entries(u) = { e \in Entries(t) : e[1] # k }
    BY <2>3, <2>4
  <2>6. QED
    BY <2>2, <2>5 DEF u, p, n, b
<1>6. CASE n # <<>>
  <2>1. /\ DOMAIN u = DOMAIN t /\ u[p] = n
        /\ \A q \in DOMAIN t : q # p => u[q] = t[q]
    BY <1>3, <1>6 DEF Put
  <2> HIDE DEF u
  <2>2. BucketOK(n, p)
    BY <1>1, <1>2, <1>6 DEF BucketOK
  <2>3. TreeOK(u)
    BY <2>1, <2>2 DEF TreeOK
  <2>4. ASSUME NEW e \in Entries(u) PROVE e \in Entries(t) /\ e[1] # k
    <3>1. PICK q \in DOMAIN t : e \in Pairs(u[q])
      BY <2>1 DEF Entries
    <3>2. CASE q = p
      BY <1>1, <1>2, <1>3, <2>1, <3>1, <3>2 DEF Entries
    <3>3. CASE q # p
      <4>1. e \in Pairs(t[q])
        BY <2>1, <3>1, <3>3
      <4>2. Prefix(e[1]) = q
        BY <4>1 DEF TreeOK, BucketOK
      <4>3. QED
        BY <4>1, <4>2, <3>3 DEF Entries, p
    <3>4. QED
      BY <3>2, <3>3
  <2>5. ASSUME NEW e \in Entries(t), e[1] # k PROVE e \in Entries(u)
    <3>1. PICK q \in DOMAIN t : e \in Pairs(t[q])
      BY DEF Entries
    <3>2. e \in Pairs(u[q])
      BY <1>1, <1>2, <2>1, <2>5, <3>1
    <3>3. QED
      BY <2>1, <3>2 DEF Entries
  <2>6. Entries(u) = { e \in Entries(t) : e[1] # k }
    BY <2>4, <2>5
  <2>7. QED
    BY <2>3, <2>6 DEF u, p, n, b
<1>7. QED
  BY <1>5, <1>6

-----------------------------------------------------------------------------
(* The map that a set of pairs is, one pair for a key.                     *)
LEMMA SetIsPut ==
  ASSUME Keys \subseteq Nat, NEW t, TreeOK(t), NEW u, TreeOK(u), NEW k \in Keys, NEW v \in Vals,
         Entries(u) = { e \in Entries(t) : e[1] # k } \cup { <<k, v>> }
  PROVE  Flat(u) = Map!Put(Flat(t), k, v)
<1> DEFINE K == AllKeys(t) \cup {k}
<1>1. AllKeys(u) = K
  <2>1. AllKeys(u) = { e[1] : e \in Entries(u) } /\ AllKeys(t) = { e[1] : e \in Entries(t) }
    BY EntriesAre
  <2>2. <<k, v>>[1] = k
    OBVIOUS
  <2>3. AllKeys(u) \subseteq K /\ K \subseteq AllKeys(u)
    BY <2>1, <2>2
  <2>4. QED
    BY <2>3
<1>2. ASSUME NEW x \in K PROVE Get(u, x) = IF x = k THEN v ELSE Get(t, x)
  <2>1. CASE x = k
    <3>1. <<k, v>> \in Entries(u) /\ <<k, v>>[1] = k /\ <<k, v>>[2] = v
      OBVIOUS
    <3>2. QED
      BY <2>1, <3>1, EntriesAre
  <2>2. CASE x # k
    <3>1. PICK e \in Entries(t) : e[1] = x
      BY <2>2, EntriesAre
    <3>2. e \in Entries(u)
      BY <2>2, <3>1
    <3>3. Get(t, e[1]) = e[2] /\ Get(u, e[1]) = e[2]
      BY <3>2, EntriesAre
    <3>4. QED
      BY <2>2, <3>1, <3>3
  <2>3. QED
    BY <2>1, <2>2
<1>3. Flat(u) = [x \in K |-> Get(u, x)]
  BY <1>1 DEF Flat
<1>4. Map!Put(Flat(t), k, v) = [x \in K |-> IF x = k THEN v ELSE Get(t, x)]
  BY DEF Map!Put, Flat
<1> HIDE DEF K
<1>5. QED
  BY <1>2, <1>3, <1>4

LEMMA RemoveIsRemove ==
  ASSUME Keys \subseteq Nat, NEW t, TreeOK(t), NEW u, TreeOK(u), NEW k \in Keys,
         Entries(u) = { e \in Entries(t) : e[1] # k }
  PROVE  Flat(u) = Map!Remove(Flat(t), k)
<1> DEFINE K == AllKeys(t) \ {k}
<1>1. AllKeys(u) = K
  BY EntriesAre
<1>2. ASSUME NEW x \in K PROVE Get(u, x) = Get(t, x)
  <2>1. PICK e \in Entries(t) : e[1] = x
    BY EntriesAre
  <2>2. e \in Entries(u)
    BY <2>1
  <2>3. Get(t, e[1]) = e[2] /\ Get(u, e[1]) = e[2]
    BY <2>2, EntriesAre
  <2>4. QED
    BY <2>1, <2>3
<1>3. Flat(u) = [x \in K |-> Get(u, x)]
  BY <1>1 DEF Flat
<1>4. Map!Remove(Flat(t), k) = [x \in K |-> Get(t, x)]
  BY DEF Map!Remove, Flat
<1> HIDE DEF K
<1>5. QED
  BY <1>2, <1>3, <1>4

-----------------------------------------------------------------------------
(* The inductive invariant: every bucket of both trees is in order, and    *)
(* has the keys of its prefix only.  Add needs the order to stop at the    *)
(* right place, Find and Remove need it to meet a key once.                *)
IInv ==
  /\ PrefixForByteCount \in PrefixFunctions /\ BucketSizeLimit \in Limits
  /\ TreeOK(committed) /\ TreeOK(tree)

LEMMA InitIInv == Init => IInv
  BY DEF Init, IInv, TreeOK

(* The keys, and what a tree is for other prefixes, stay.                  *)
LEMMA Steady ==
  ASSUME PrefixForByteCount' = PrefixForByteCount
  PROVE  /\ TreeOK(tree)' = TreeOK(tree')
         /\ TreeOK(committed)' = TreeOK(committed')
         /\ Flat(tree)' = Flat(tree')
         /\ Flat(committed)' = Flat(committed')
<1>1. /\ TreeOK(tree)' = TreeOK(tree')
      /\ TreeOK(committed)' = TreeOK(committed')
  BY DEF TreeOK, BucketOK, Ordered, Pairs, Prefix
<1>2. /\ Flat(tree)' = Flat(tree')
      /\ Flat(committed)' = Flat(committed')
  BY DEF Flat, AllKeys, Get, Bucket, Prefix
<1>3. QED
  BY <1>1, <1>2

(* What a call makes of the tree, and of the map that it stands for.       *)
MapStep ==
  \/ Flat(committed)' = Flat(committed) /\ Flat(tree)' \in Map!Changes(Flat(tree))
  \/ Flat(committed)' = Flat(tree) /\ Flat(tree)' = Flat(tree)
  \/ Flat(committed)' = Flat(committed) /\ Flat(tree)' = Flat(committed)
  \/ Flat(committed)' = Flat(committed) /\ Flat(tree)' = Flat(tree)

LEMMA SetStep ==
  ASSUME Keys \subseteq Nat, IInv, NEW k \in Keys, NEW v \in Vals, Set(k, v)
  PROVE  IInv' /\ MapStep
<1>1. /\ tree' = Put(tree, Prefix(k), Added(Bucket(tree, Prefix(k)), k, v))
      /\ UNCHANGED <<PrefixForByteCount, BucketSizeLimit, committed>>
  BY DEF Set
<1>2. /\ TreeOK(tree')
      /\ Entries(tree') = { e \in Entries(tree) : e[1] # k } \cup { <<k, v>> }
  BY <1>1, SetEntries DEF IInv
<1>3. Flat(tree') = Map!Put(Flat(tree), k, v)
  BY <1>2, SetIsPut DEF IInv
<1>4. Map!Put(Flat(tree), k, v) \in Map!Changes(Flat(tree))
  BY DEF Map!Changes
<1>5. Flat(committed') = Flat(committed) /\ TreeOK(committed')
  BY <1>1 DEF IInv
<1>6. IInv'
  BY <1>1, <1>2, <1>5, Steady DEF IInv
<1>7. MapStep
  BY <1>1, <1>3, <1>4, <1>5, Steady DEF MapStep
<1>8. QED
  BY <1>6, <1>7

LEMMA RemoveKeyStep ==
  ASSUME Keys \subseteq Nat, IInv, NEW k \in Keys, RemoveKey(k)
  PROVE  IInv' /\ MapStep
<1> DEFINE b == Removed(Bucket(tree, Prefix(k)), k)
<1>1. /\ tree' = IF b = <<>> THEN Drop(tree, Prefix(k)) ELSE Put(tree, Prefix(k), b)
      /\ k \in KeysIn(Bucket(tree, Prefix(k)))
      /\ UNCHANGED <<PrefixForByteCount, BucketSizeLimit, committed>>
  BY DEF RemoveKey
<1>2. TreeOK(tree') /\ Entries(tree') = { e \in Entries(tree) : e[1] # k }
  BY <1>1, RemoveEntries DEF IInv
<1>3. Flat(tree') = Map!Remove(Flat(tree), k)
  BY <1>2, RemoveIsRemove DEF IInv
<1>4. k \in DOMAIN Flat(tree)
  <2>1. Prefix(k) \in DOMAIN tree /\ k \in KeysIn(tree[Prefix(k)])
    BY <1>1 DEF Bucket, KeysIn
  <2>2. QED
    BY <2>1 DEF Flat, AllKeys
<1>5. Map!Remove(Flat(tree), k) \in Map!Changes(Flat(tree))
  BY <1>4 DEF Map!Changes
<1>6. Flat(committed') = Flat(committed) /\ TreeOK(committed')
  BY <1>1 DEF IInv
<1>7. IInv'
  BY <1>1, <1>2, <1>6, Steady DEF IInv
<1>8. MapStep
  BY <1>1, <1>3, <1>5, <1>6, Steady DEF MapStep
<1>9. QED
  BY <1>7, <1>8

LEMMA OtherStep ==
  ASSUME IInv, (\E n \in Limits : LimitBucketSize(n)) \/ Commit \/ Abort \/ UNCHANGED vars
  PROVE  IInv' /\ MapStep
<1>1. PrefixForByteCount' = PrefixForByteCount
  BY DEF LimitBucketSize, Commit, Abort, vars
<1>2. CASE (\E n \in Limits : LimitBucketSize(n)) \/ UNCHANGED vars
  <2>1. tree' = tree /\ committed' = committed /\ BucketSizeLimit' \in Limits
    BY <1>2 DEF LimitBucketSize, vars, IInv
  <2>2. QED
    BY <1>1, <2>1, Steady DEF IInv, MapStep
<1>3. CASE Commit
  <2>1. tree' = tree /\ committed' = tree /\ BucketSizeLimit' \in Limits
    BY <1>3 DEF Commit, IInv
  <2>2. QED
    BY <1>1, <2>1, Steady DEF IInv, MapStep
<1>4. CASE Abort
  <2>1. tree' = committed /\ committed' = committed /\ BucketSizeLimit' \in Limits
    BY <1>4 DEF Abort, IInv
  <2>2. QED
    BY <1>1, <2>1, Steady DEF IInv, MapStep
<1>5. QED
  BY <1>2, <1>3, <1>4

LEMMA NextStep ==
  ASSUME Keys \subseteq Nat, IInv, [Next]_vars PROVE IInv' /\ MapStep
  BY SetStep, RemoveKeyStep, OtherStep DEF Next

LEMMA Inductive == ASSUME Keys \subseteq Nat PROVE Spec => []IInv
<1>1. IInv /\ [Next]_vars => IInv'
  BY NextStep
<1>2. QED
  BY <1>1, InitIInv, PTL DEF Spec

(* Whatever is set, removed, committed and forgotten, no bucket is empty,  *)
(* each has the keys of its own prefix only (FindBucketForPrefix), and a   *)
(* key once, in order (xBucket.Add).                                       *)
THEOREM BucketsInOrder == ASSUME Keys \subseteq Nat PROVE Spec => [](TypeOK /\ BucketsOK)
<1>1. IInv => TypeOK /\ BucketsOK
  <2> SUFFICES ASSUME IInv PROVE TypeOK /\ BucketsOK
    OBVIOUS
  <2>1. TypeOK
    BY DEF TypeOK, IInv, TreeOK, BucketOK
  <2>2. ASSUME NEW t \in {committed, tree}, NEW p \in DOMAIN t
        PROVE  /\ t[p] # <<>>
               /\ \A i \in DOMAIN t[p] : Prefix(KeyAt(t[p], i)) = p
               /\ \A i \in 1 .. Len(t[p]) - 1 : KeyAt(t[p], i) < KeyAt(t[p], i + 1)
    <3>1. BucketOK(t[p], p)
      BY <2>2 DEF IInv, TreeOK
    <3>2. t[p] # <<>> /\ DOMAIN t[p] = 1 .. Len(t[p])
      BY <3>1 DEF BucketOK
    <3>3. \A i \in 1 .. Len(t[p]) : Prefix(t[p][i][1]) = p
      BY <3>1 DEF BucketOK, Pairs
    <3>4. Len(t[p]) \in Nat
      BY <3>1 DEF BucketOK
    <3>5. ASSUME NEW i \in 1 .. Len(t[p]) - 1 PROVE t[p][i][1] < t[p][i + 1][1]
      <4>1. i \in 1 .. Len(t[p]) /\ i + 1 \in 1 .. Len(t[p]) /\ i < i + 1
        BY <3>4
      <4>2. QED
        BY <3>1, <4>1 DEF BucketOK, Ordered
    <3>6. QED
      BY <3>2, <3>3, <3>5 DEF KeyAt
  <2>3. QED
    BY <2>1, <2>2 DEF BucketsOK
<1>2. QED
  BY <1>1, Inductive, PTL

(* The buckets are the map of ITreeIndex.cs: a Set or a RemoveKey changes  *)
(* one key, whatever other keys its bucket holds, and a commit or an abort *)
(* takes or forgets all changes together.                                  *)
THEOREM PrefixTreeIsAtomicMap == ASSUME Keys \subseteq Nat PROVE Spec => IsAtomicMap
<1>1. Init => Map!Init
  <2> SUFFICES ASSUME Init PROVE Map!Init
    OBVIOUS
  <2>1. AllKeys(committed) = {} /\ AllKeys(tree) = {}
    BY DEF Init, AllKeys
  <2>2. Flat(committed) \in [{} -> Vals] /\ Flat(tree) \in [{} -> Vals]
    BY <2>1 DEF Flat
  <2>3. QED
    BY <2>2 DEF Map!Init, Map!Maps
<1>2. MapStep => [Map!Next]_(Map!amvars)
  BY DEF MapStep, Map!Next, Map!amvars
<1>3. IInv /\ [Next]_vars => [Map!Next]_(Map!amvars)
  BY <1>2, NextStep
<1>4. QED
  BY <1>1, <1>3, Inductive, PTL DEF Spec, Map!Spec, IsAtomicMap

-----------------------------------------------------------------------------
(* Scanning.  A bucket in order has its least key first.                   *)
LEMMA TreeKeys ==
  ASSUME Keys \subseteq Nat, PrefixForByteCount \in [Keys -> Nat], NEW t, TreeOK(t)
  PROVE  /\ AllKeys(t) \subseteq Keys /\ DOMAIN t \subseteq Nat
         /\ \A p \in DOMAIN t :
              /\ KeyAt(t[p], 1) \in AllKeys(t) /\ Prefix(KeyAt(t[p], 1)) = p
              /\ \A k \in KeysIn(t[p]) : k = KeyAt(t[p], 1) \/ KeyAt(t[p], 1) < k
         /\ \A k \in AllKeys(t) : Prefix(k) \in DOMAIN t /\ k \in KeysIn(t[Prefix(k)])
<1>1. AllKeys(t) = { e[1] : e \in Entries(t) } /\ Entries(t) \subseteq Keys \X Vals
  BY EntriesAre
<1>2. AllKeys(t) \subseteq Keys
  BY <1>1
<1>3. ASSUME NEW p \in DOMAIN t
      PROVE  /\ KeyAt(t[p], 1) \in AllKeys(t) /\ Prefix(KeyAt(t[p], 1)) = p
             /\ \A k \in KeysIn(t[p]) : k = KeyAt(t[p], 1) \/ KeyAt(t[p], 1) < k
  <2> DEFINE b == t[p]
  <2>1. BucketOK(b, p)
    BY DEF TreeOK
  <2> HIDE DEF b
  <2>2. b \in Seq(Keys \X Vals) /\ b # <<>> /\ 1 \in 1 .. Len(b) /\ DOMAIN b = 1 .. Len(b)
    BY <2>1 DEF BucketOK
  <2>3. b[1] \in Pairs(b) /\ KeyAt(b, 1) \in KeysIn(b)
    BY <2>2 DEF Pairs, KeysIn
  <2>4. Prefix(KeyAt(b, 1)) = p
    BY <2>1, <2>3 DEF BucketOK, KeyAt
  <2>5. ASSUME NEW k \in KeysIn(b) PROVE k = KeyAt(b, 1) \/ KeyAt(b, 1) < k
    <3>1. PICK i \in 1 .. Len(b) : k = b[i][1]
      BY <2>2 DEF KeysIn, KeyAt
    <3>2. i = 1 \/ 1 < i
      OBVIOUS
    <3>3. QED
      BY <2>1, <2>2, <3>1, <3>2 DEF BucketOK, Ordered, KeyAt
  <2>6. KeysIn(b) \subseteq AllKeys(t)
    BY DEF AllKeys, b
  <2>7. QED
    BY <2>3, <2>4, <2>5, <2>6 DEF b
<1>4. DOMAIN t \subseteq Nat
  BY <1>2, <1>3 DEF Prefix
<1>5. ASSUME NEW k \in AllKeys(t)
      PROVE  Prefix(k) \in DOMAIN t /\ k \in KeysIn(t[Prefix(k)])
  <2>1. PICK p \in DOMAIN t : k \in KeysIn(t[p])
    BY DEF AllKeys
  <2>2. t[p] \in Seq(Keys \X Vals) /\ \A e \in Pairs(t[p]) : Prefix(e[1]) = p
    BY DEF TreeOK, BucketOK
  <2>3. Prefix(k) = p
    BY <2>1, <2>2, PairsKeys
  <2>4. QED
    BY <2>1, <2>3
<1>6. QED
  BY <1>2, <1>3, <1>4, <1>5

(* The first key of the least prefix is the first of the keys whose        *)
(* prefixes are the least or a greater one.                                *)
LEMMA FirstOfPrefixes ==
  ASSUME Keys \subseteq Nat, PrefixForByteCount \in [Keys -> Nat], NEW t, TreeOK(t),
         NEW P \in SUBSET DOMAIN t, P # {},
         NEW S, S = { l \in AllKeys(t) : Prefix(l) \in P }
  PROVE  IsFirstOf(KeyAt(t[Min(P)], 1), S)
<1> DEFINE m == Min(P)
           k == KeyAt(t[m], 1)
<1>1. P \in SUBSET Nat
  BY TreeKeys
<1>2. m \in P /\ \A q \in P : m <= q
  BY <1>1, MinOfNats
<1>3. /\ k \in AllKeys(t) /\ Prefix(k) = m
      /\ \A l \in KeysIn(t[m]) : l = k \/ k < l
  BY <1>2, TreeKeys
<1> HIDE DEF m, k
<1>4. k \in S
  BY <1>2, <1>3
<1>5. ASSUME NEW l \in S \ {k} PROVE Before(k, l)
  <2>1. Prefix(l) \in P /\ l \in KeysIn(t[Prefix(l)])
    BY TreeKeys
  <2>2. m <= Prefix(l) /\ Prefix(l) \in Nat /\ m \in Nat
    BY <1>1, <1>2, <2>1
  <2>3. CASE Prefix(l) = m
    BY <1>3, <2>1, <2>3 DEF Before
  <2>4. CASE Prefix(l) # m
    BY <1>3, <2>2, <2>4 DEF Before
  <2>5. QED
    BY <2>3, <2>4
<1>6. QED
  BY <1>4, <1>5 DEF IsFirstOf, k, m

LEMMA FirstIsFirst ==
  ASSUME Keys \subseteq Nat, PrefixForByteCount \in [Keys -> Nat], NEW t, TreeOK(t)
  PROVE  IsFirstOf(First(t), AllKeys(t))
<1>1. CASE DOMAIN t = {}
  <2>1. AllKeys(t) = {} /\ First(t) = 0
    BY <1>1 DEF AllKeys, First
  <2>2. QED
    BY <2>1 DEF IsFirstOf
<1>2. CASE DOMAIN t # {}
  <2>1. First(t) = KeyAt(t[Min(DOMAIN t)], 1)
    BY <1>2 DEF First
  <2>2. AllKeys(t) = { l \in AllKeys(t) : Prefix(l) \in DOMAIN t }
    BY TreeKeys
  <2>3. QED
    BY <1>2, <2>1, <2>2, FirstOfPrefixes
<1>3. QED
  BY <1>1, <1>2

LEMMA NextKeyIsNext ==
  ASSUME Keys \subseteq Nat, PrefixForByteCount \in [Keys -> Nat], NEW t, TreeOK(t),
         NEW k \in Keys
  PROVE  IsFirstOf(NextKey(t, k), { l \in AllKeys(t) : Before(k, l) })
<1> DEFINE p == Prefix(k)
           b == Bucket(t, p)
           here == After(b, k)
           right == { q \in DOMAIN t : q > p }
           S == { l \in AllKeys(t) : Before(k, l) }
<1>1. /\ b \in Seq(Keys \X Vals) /\ Ordered(b)
      /\ \A e \in Pairs(b) : Prefix(e[1]) = p
      /\ p \in DOMAIN t => b = t[p]
      /\ p \notin DOMAIN t => Pairs(b) = {}
  BY BucketIs
<1>2. p \in Nat /\ k \in Nat
  BY DEF Prefix
<1>3. NextKey(t, k) = IF here # 0 THEN here
                      ELSE IF right = {} THEN 0 ELSE KeyAt(t[Min(right)], 1)
  BY DEF NextKey
<1>4. \/ here = 0 /\ \A j \in 1 .. Len(b) : ~ (b[j][1] > k)
      \/ \E i \in 1 .. Len(b) :
           /\ here = b[i][1] /\ b[i][1] > k
           /\ \A j \in 1 .. i - 1 : ~ (b[j][1] > k)
  BY <1>1, AfterIs
<1>5. \A j \in 1 .. Len(b) : b[j][1] \in Nat
  <2>1. \A j \in 1 .. Len(b) : b[j] \in Keys \X Vals
    BY <1>1
  <2>2. QED
    BY <2>1
<1>6. ASSUME NEW l \in AllKeys(t), Prefix(l) = p PROVE \E j \in 1 .. Len(b) : l = b[j][1]
  <2>1. p \in DOMAIN t /\ l \in KeysIn(t[p])
    BY <1>6, TreeKeys
  <2>2. QED
    BY <1>1, <2>1 DEF KeysIn, KeyAt
<1> HIDE DEF here, b
<1>7. CASE here # 0
  <2>1. PICK i \in 1 .. Len(b) : /\ here = b[i][1] /\ b[i][1] > k
                                /\ \A j \in 1 .. i - 1 : ~ (b[j][1] > k)
    BY <1>4, <1>7
  <2>2. here \in AllKeys(t) /\ Prefix(here) = p
    <3>1. b[i] \in Pairs(b)
      BY DEF Pairs
    <3>2. p \in DOMAIN t
      BY <1>1, <3>1
    <3>3. here \in KeysIn(t[p])
      BY <1>1, <2>1, <3>2 DEF KeysIn, KeyAt
    <3>4. QED
      BY <1>1, <2>1, <3>1, <3>2, <3>3 DEF AllKeys
  <2>3. here \in S
    BY <1>2, <2>1, <2>2 DEF Before
  <2>4. ASSUME NEW l \in S \ {here} PROVE Before(here, l)
    <3>1. CASE p < Prefix(l)
      BY <2>2, <3>1 DEF Before
    <3>2. CASE Prefix(l) = p /\ k < l
      <4>1. PICK j \in 1 .. Len(b) : l = b[j][1]
        BY <1>6, <3>2
      <4>2. ~ (j < i)
        BY <1>2, <1>5, <2>1, <3>2, <4>1
      <4>3. i < j
        BY <2>1, <2>4, <4>1, <4>2
      <4>4. b[i][1] < b[j][1]
        BY <1>1, <4>3 DEF Ordered
      <4>5. QED
        BY <2>1, <2>2, <3>2, <4>1, <4>4 DEF Before
    <3>3. QED
      BY <2>4, <3>1, <3>2 DEF Before
  <2>5. QED
    BY <1>3, <1>7, <2>3, <2>4 DEF IsFirstOf
<1>8. CASE here = 0
  <2>1. \A j \in 1 .. Len(b) : ~ (b[j][1] > k)
    BY <1>2, <1>4, <1>5, <1>8
  <2>2. S = { l \in AllKeys(t) : Prefix(l) \in right }
    <3>1. ASSUME NEW l \in AllKeys(t) PROVE Before(k, l) <=> Prefix(l) \in right
      <4>1. Prefix(l) \in DOMAIN t /\ Prefix(l) \in Nat /\ l \in Nat
        BY TreeKeys
      <4>2. ~ (Prefix(l) = p /\ k < l)
        BY <1>2, <1>5, <1>6, <2>1, <4>1
      <4>3. QED
        BY <1>2, <4>1, <4>2 DEF Before
    <3>2. QED
      BY <3>1
  <2>3. CASE right = {}
    BY <1>3, <1>8, <2>2, <2>3 DEF IsFirstOf
  <2>4. CASE right # {}
    <3>1. right \in SUBSET DOMAIN t
      OBVIOUS
    <3>2. NextKey(t, k) = KeyAt(t[Min(right)], 1)
      BY <1>3, <1>8, <2>4
    <3> HIDE DEF right, S
    <3>3. IsFirstOf(KeyAt(t[Min(right)], 1), S)
      BY <2>2, <2>4, <3>1, FirstOfPrefixes
    <3>4. QED
      BY <3>2, <3>3 DEF S
  <2>5. QED
    BY <2>3, <2>4
<1>9. QED
  BY <1>7, <1>8

(* The scans of xBplusTreeBytes and hBplusTreeBytes start with the first   *)
(* key and go from each key of the tree to the one that follows it.        *)
THEOREM ScansAreInOrder ==
  ASSUME Keys \subseteq Nat, PrefixFunctions \subseteq [Keys -> Nat]
  PROVE  Spec => []ScansInOrder
<1>1. IInv => ScansInOrder
  BY FirstIsFirst, NextKeyIsNext DEF IInv, ScansInOrder
<1>2. QED
  BY <1>1, Inductive, PTL

(* With prefixes in the order of their keys, as xBplusTreeBytes cuts them, *)
(* NextKey is the least key above its argument, in the tree or not.        *)
THEOREM NextKeyIsLeastAbove ==
  ASSUME Keys \subseteq Nat, PrefixFunctions \subseteq [Keys -> Nat]
  PROVE  Spec => []NextOfAbsent
<1>1. ASSUME IInv, InOrder, NEW k \in Keys
      PROVE  LET above == { x \in AllKeys(tree) : x > k }
             IN  NextKey(tree, k) = IF above = {} THEN 0 ELSE Min(above)
  <2> DEFINE above == { x \in AllKeys(tree) : x > k }
             S == { l \in AllKeys(tree) : Before(k, l) }
             n == NextKey(tree, k)
  <2>1. PrefixForByteCount \in [Keys -> Nat] /\ TreeOK(tree)
    BY <1>1 DEF IInv
  <2>2. AllKeys(tree) \subseteq Keys
    BY <2>1, TreeKeys
  <2>3. ASSUME NEW x \in Keys, NEW y \in Keys PROVE Before(x, y) <=> x < y
    <3>1. Prefix(x) \in Nat /\ Prefix(y) \in Nat /\ x \in Nat /\ y \in Nat
      BY <2>1 DEF Prefix
    <3>2. x < y => Prefix(x) <= Prefix(y)
      BY <1>1 DEF InOrder
    <3>3. y < x => Prefix(y) <= Prefix(x)
      BY <1>1 DEF InOrder
    <3>4. QED
      BY <3>1, <3>2, <3>3 DEF Before
  <2>4. S = above
    <3>1. \A x \in AllKeys(tree) : Before(k, x) <=> k < x
      BY <2>2, <2>3
    <3>2. \A x \in AllKeys(tree) : k < x <=> x > k
      BY <2>2
    <3>3. QED
      BY <3>1, <3>2
  <2>5. IsFirstOf(n, S)
    BY <2>1, NextKeyIsNext
  <2> HIDE DEF n
  <2>6. CASE above = {}
    BY <2>4, <2>5, <2>6 DEF IsFirstOf, n
  <2>7. CASE above # {}
    <3>1. n \in above /\ \A l \in above \ {n} : Before(n, l)
      BY <2>4, <2>5, <2>7 DEF IsFirstOf
    <3>2. above \in SUBSET Nat /\ above \subseteq Keys
      BY <2>2
    <3>3. ASSUME NEW l \in above PROVE n <= l
      <4>1. n \in Nat /\ l \in Nat /\ n \in Keys /\ l \in Keys
        BY <3>1, <3>2
      <4>2. l # n => n < l
        BY <2>3, <3>1, <4>1
      <4>3. QED
        BY <4>1, <4>2
    <3> HIDE DEF above
    <3>4. Min(above) \in above /\ \A y \in above : Min(above) <= y
      BY <2>7, <3>2, MinOfNats
    <3>5. Min(above) <= n /\ n <= Min(above) /\ n \in Nat /\ Min(above) \in Nat
      BY ONLY <3>1, <3>2, <3>3, <3>4
    <3>6. n = Min(above)
      BY <3>5
    <3>7. QED
      BY <2>7, <3>6 DEF n, above
  <2>8. QED
    BY <2>6, <2>7
<1>2. IInv => NextOfAbsent
  BY <1>1 DEF NextOfAbsent
<1>3. QED
  BY <1>2, Inductive, PTL

-----------------------------------------------------------------------------
(* A scan as a whole.  That Scan is the function its recursion describes,  *)
(* and what it computes, are shown of the least number of steps for which  *)
(* they could fail.                                                        *)
Row(t, f, m) ==
  [k \in Keys \cup {0} |->
     IF k = 0 \/ m = 0 THEN <<>> ELSE <<k>> \o f[m - 1][NextKey(t, k)]]

IsScan(t, f, n) == f = [m \in 0 .. n |-> Row(t, f, m)]

LEMMA ScanExists == ASSUME NEW t, NEW N \in Nat PROVE \E f : IsScan(t, f, N)
<1> DEFINE Bad == { n \in Nat : ~ \E f : IsScan(t, f, n) }
<1>1. SUFFICES Bad = {}
  OBVIOUS
<1>2. SUFFICES ASSUME Bad # {} PROVE FALSE
  OBVIOUS
<1> DEFINE n == Min(Bad)
<1>3. Bad \in SUBSET Nat
  OBVIOUS
<1>4. n \in Bad /\ \A m \in Bad : n <= m
  <2> HIDE DEF Bad
  <2>1. QED
    BY <1>2, <1>3, MinOfNats
<1> HIDE DEF n
<1>5. CASE n = 0
  <2> DEFINE g == [m \in 0 .. 0 |-> Row(t, <<>>, 0)]
  <2>1. \A h, m : m = 0 => Row(t, h, m) = Row(t, <<>>, 0)
    BY DEF Row
  <2>2. IsScan(t, g, 0)
    BY <2>1 DEF IsScan
  <2>3. QED
    BY <1>4, <1>5, <2>2
<1>6. CASE n # 0
  <2>1. n - 1 \in Nat /\ n \in Nat
    BY <1>4, <1>6
  <2>2. n - 1 \notin Bad
    BY <1>4, <2>1
  <2>3. PICK f : IsScan(t, f, n - 1)
    BY <2>1, <2>2
  <2> DEFINE g == [m \in 0 .. n |-> Row(t, f, m)]
  <2>4. ASSUME NEW m \in 0 .. n PROVE Row(t, f, m) = Row(t, g, m)
    <3>1. CASE m = 0
      BY <3>1 DEF Row
    <3>2. CASE m # 0
      <4>1. m - 1 \in 0 .. n - 1 /\ m - 1 \in 0 .. n
        BY <2>1, <3>2
      <4>2. f[m - 1] = Row(t, f, m - 1)
        BY <2>3, <4>1 DEF IsScan
      <4>3. g[m - 1] = f[m - 1]
        BY <4>1, <4>2
      <4> HIDE DEF g
      <4>4. QED
        BY <4>3 DEF Row
    <3>3. QED
      BY <3>1, <3>2
  <2>5. IsScan(t, g, n)
    <3>1. g = [m \in 0 .. n |-> Row(t, g, m)]
      <4> DEFINE G(m) == Row(t, g, m)
      <4>1. \A m \in 0 .. n : Row(t, f, m) = G(m)
        BY <2>4
      <4> HIDE DEF G
      <4>2. [m \in 0 .. n |-> Row(t, f, m)] = [m \in 0 .. n |-> G(m)]
        BY <4>1
      <4>3. QED
        BY <4>2 DEF G
    <3>2. QED
      BY <3>1 DEF IsScan
  <2>6. QED
    BY <1>4, <2>5
<1>7. QED
  BY <1>5, <1>6

LEMMA ScanIs ==
  ASSUME NEW t, NEW N \in Nat
  PROVE  \A m \in 0 .. N : Scan(t, N)[m] = Row(t, Scan(t, N), m)
<1>1. Scan(t, N) = CHOOSE f : IsScan(t, f, N)
  BY DEF Scan, IsScan, Row
<1>2. IsScan(t, Scan(t, N), N)
  BY <1>1, ScanExists
<1> DEFINE s == Scan(t, N)
<1> HIDE DEF s
<1>3. s = [m \in 0 .. N |-> Row(t, s, m)]
  BY <1>2 DEF IsScan, s
<1>4. \A m \in 0 .. N : s[m] = Row(t, s, m)
  BY <1>3
<1>5. QED
  BY <1>4 DEF s

(* The keys from k on, and the sequence of them in the order of a scan.    *)
From(t, k) == { l \in AllKeys(t) : l = k \/ Before(k, l) }

Lists(w, S) ==
  /\ w \in Seq(Keys) /\ { w[i] : i \in 1 .. Len(w) } = S
  /\ \A i, j \in 1 .. Len(w) : i < j => Before(w[i], w[j])

LEMMA BeforeIsStrict ==
  ASSUME Keys \subseteq Nat, PrefixForByteCount \in [Keys -> Nat],
         NEW k \in Keys, NEW l \in Keys, NEW m \in Keys
  PROVE  /\ ~ Before(k, k)
         /\ Before(k, l) /\ Before(l, m) => Before(k, m)
<1>1. k \in Nat /\ l \in Nat /\ m \in Nat
  OBVIOUS
<1>2. Prefix(k) \in Nat /\ Prefix(l) \in Nat /\ Prefix(m) \in Nat
  BY DEF Prefix
<1>3. QED
  BY <1>1, <1>2 DEF Before

LEMMA Prepended ==
  ASSUME NEW k \in Keys, NEW w, NEW S, Lists(w, S), \A l \in S : Before(k, l)
  PROVE  Lists(<<k>> \o w, {k} \cup S)
<1> DEFINE v == <<k>> \o w
<1>1. w \in Seq(Keys) /\ Len(w) \in Nat
  BY DEF Lists
<1>2. v \in Seq(Keys) /\ Len(v) = Len(w) + 1 /\ v[1] = k
  BY <1>1
<1>3. \A i \in 1 .. Len(w) : v[i + 1] = w[i]
  BY <1>1
<1>4. \A j \in 2 .. Len(w) + 1 : v[j] = w[j - 1]
  <2> SUFFICES ASSUME NEW j \in 2 .. Len(w) + 1 PROVE v[j] = w[j - 1]
    OBVIOUS
  <2>1. j - 1 \in 1 .. Len(w) /\ (j - 1) + 1 = j
    BY <1>1
  <2>2. QED
    BY <1>3, <2>1
<1> HIDE DEF v
<1>5. { v[i] : i \in 1 .. Len(v) } = {k} \cup S
  <2>1. \A i \in 1 .. Len(v) : v[i] \in {k} \cup S
    <3> SUFFICES ASSUME NEW i \in 1 .. Len(v), i # 1 PROVE v[i] \in S
      BY <1>2
    <3>1. i - 1 \in 1 .. Len(w) /\ v[i] = w[i - 1]
      BY <1>1, <1>2, <1>4
    <3>2. QED
      BY <3>1 DEF Lists
  <2>2. ASSUME NEW l \in S PROVE \E i \in 1 .. Len(v) : v[i] = l
    <3>1. PICK i \in 1 .. Len(w) : w[i] = l
      BY DEF Lists
    <3>2. i + 1 \in 1 .. Len(v)
      BY <1>1, <1>2
    <3>3. QED
      BY <1>3, <3>1, <3>2
  <2>3. 1 \in 1 .. Len(v)
    BY <1>1, <1>2
  <2>4. QED
    BY <1>2, <2>1, <2>2, <2>3
<1>6. ASSUME NEW i \in 1 .. Len(v), NEW j \in 1 .. Len(v), i < j PROVE Before(v[i], v[j])
  <2>1. j - 1 \in 1 .. Len(w) /\ v[j] = w[j - 1]
    BY <1>1, <1>2, <1>4, <1>6
  <2>2. CASE i = 1
    BY <1>2, <2>1, <2>2 DEF Lists
  <2>3. CASE i # 1
    <3>1. i - 1 \in 1 .. Len(w) /\ v[i] = w[i - 1] /\ i - 1 < j - 1
      BY <1>1, <1>2, <1>4, <1>6, <2>3
    <3>2. QED
      BY <2>1, <3>1 DEF Lists
  <2>4. QED
    BY <2>2, <2>3
<1>7. QED
  BY <1>2, <1>5, <1>6 DEF Lists, v

(* What NextKey leaves to scan.                                            *)
LEMMA RestOfScan ==
  ASSUME Keys \subseteq Nat \ {0}, PrefixForByteCount \in [Keys -> Nat], NEW t, TreeOK(t),
         NEW k \in AllKeys(t)
  PROVE  LET n == NextKey(t, k)
         IN  \/ n = 0 /\ From(t, k) = {k}
             \/ /\ n \in AllKeys(t) /\ From(t, k) = {k} \cup From(t, n)
                /\ \A l \in From(t, n) : Before(k, l)
<1> DEFINE n == NextKey(t, k)
           S == { l \in AllKeys(t) : Before(k, l) }
<1>1. AllKeys(t) \subseteq Keys /\ k \in Keys
  BY TreeKeys
<1>2. IsFirstOf(n, S)
  BY <1>1, NextKeyIsNext
<1>3. From(t, k) = {k} \cup S
  BY DEF From
<1> HIDE DEF n
<1>4. CASE S = {}
  BY <1>2, <1>3, <1>4 DEF IsFirstOf, n
<1>5. CASE S # {}
  <2>1. n \in S /\ \A l \in S \ {n} : Before(n, l)
    BY <1>2, <1>5 DEF IsFirstOf
  <2>2. From(t, n) = S
    <3>1. S \subseteq From(t, n)
      BY <2>1 DEF From
    <3>2. From(t, n) \subseteq S
      <4> SUFFICES ASSUME NEW l \in AllKeys(t), Before(n, l) PROVE Before(k, l)
        BY <2>1 DEF From
      <4>1. QED
        BY <1>1, <2>1, BeforeIsStrict
    <3>3. QED
      BY <3>1, <3>2
  <2>3. QED
    BY <1>3, <2>1, <2>2 DEF n
<1>6. QED
  BY <1>4, <1>5

LEMMA ScanListsFrom ==
  ASSUME Keys \subseteq Nat \ {0}, IsFiniteSet(Keys), PrefixForByteCount \in [Keys -> Nat],
         NEW t, TreeOK(t), NEW N \in Nat
  PROVE  \A m \in 0 .. N : \A k \in AllKeys(t) :
           Cardinality(From(t, k)) <= m => Lists(Scan(t, N)[m][k], From(t, k))
<1> DEFINE s == Scan(t, N)
           Good(m) == \A k \in AllKeys(t) :
                        Cardinality(From(t, k)) <= m => Lists(s[m][k], From(t, k))
           Bad == { m \in 0 .. N : ~ Good(m) }
<1>1. AllKeys(t) \subseteq Keys
  BY TreeKeys
<1>2. ASSUME NEW k \in AllKeys(t)
      PROVE  /\ IsFiniteSet(From(t, k)) /\ k \in From(t, k)
             /\ Cardinality(From(t, k)) \in Nat \ {0}
  <2>1. From(t, k) \subseteq Keys /\ k \in From(t, k)
    BY <1>1 DEF From
  <2>2. IsFiniteSet(From(t, k))
    BY <2>1, FS_Subset
  <2>3. QED
    BY <2>1, <2>2, FS_CardinalityType, FS_EmptySet
<1>3. \A m \in 0 .. N : s[m] = Row(t, s, m)
  BY ScanIs
<1> HIDE DEF s
<1>4. SUFFICES ASSUME Bad # {} PROVE FALSE
  BY DEF s
<1> DEFINE m == Min(Bad)
<1>5. m \in Bad /\ \A i \in Bad : m <= i
  <2>1. Bad \in SUBSET Nat
    OBVIOUS
  <2> HIDE DEF Bad
  <2>2. QED
    BY <1>4, <2>1, MinOfNats
<1> HIDE DEF m
<1>6. m \in 0 .. N /\ ~ Good(m)
  BY <1>5
<1>7. m # 0
  BY <1>2, <1>6
<1>8. m - 1 \in 0 .. N /\ Good(m - 1)
  BY <1>5, <1>6, <1>7
<1>9. PICK k \in AllKeys(t) : Cardinality(From(t, k)) <= m /\ ~ Lists(s[m][k], From(t, k))
  BY <1>6
<1> DEFINE n == NextKey(t, k)
<1>10. k \in Keys /\ k # 0
  BY <1>1
<1>11. s[m][k] = <<k>> \o s[m - 1][n]
  BY <1>3, <1>6, <1>7, <1>10 DEF Row
<1>12. \/ n = 0 /\ From(t, k) = {k}
       \/ /\ n \in AllKeys(t) /\ From(t, k) = {k} \cup From(t, n)
          /\ \A l \in From(t, n) : Before(k, l)
  BY RestOfScan
<1> HIDE DEF n, Good, Bad
<1>13. CASE n = 0 /\ From(t, k) = {k}
  <2>1. s[m - 1][0] = <<>>
    BY <1>3, <1>8 DEF Row
  <2>2. Lists(<<>>, {})
    BY DEF Lists
  <2>3. Lists(<<k>> \o <<>>, {k} \cup {})
    BY <1>10, <2>2, Prepended
  <2>4. {k} \cup {} = From(t, k)
    BY <1>13
  <2>5. s[m][k] = <<k>> \o <<>>
    BY <1>11, <1>13, <2>1
  <2>6. QED
    BY <1>9, <2>3, <2>4, <2>5
<1>14. CASE /\ n \in AllKeys(t) /\ From(t, k) = {k} \cup From(t, n)
            /\ \A l \in From(t, n) : Before(k, l)
  <2>1. k \notin From(t, n)
    BY <1>10, <1>14, BeforeIsStrict
  <2>2. IsFiniteSet(From(t, n)) /\ Cardinality(From(t, n)) \in Nat
    BY <1>2, <1>14
  <2>3. Cardinality(From(t, k)) = Cardinality(From(t, n)) + 1
    <3>1. From(t, k) = From(t, n) \cup {k}
      BY <1>14
    <3>2. Cardinality(From(t, n) \cup {k}) = Cardinality(From(t, n)) + 1
      BY ONLY <2>1, <2>2, FS_AddElement
    <3>3. QED
      BY <3>1, <3>2
  <2>4. Cardinality(From(t, n)) <= m - 1
    BY <1>6, <1>9, <2>2, <2>3
  <2>5. Lists(s[m - 1][n], From(t, n))
    BY <1>8, <1>14, <2>4 DEF Good
  <2>6. Lists(<<k>> \o s[m - 1][n], {k} \cup From(t, n))
    BY <1>10, <1>14, <2>5, Prepended
  <2>7. QED
    BY <1>9, <1>11, <1>14, <2>6
<1>15. QED
  BY <1>12, <1>13, <1>14

(* FirstKey, then NextKey until null: every key of the tree once, whatever *)
(* prefixes or hashes put together, and ascending where prefixes are in    *)
(* the order of their keys.                                                *)
THEOREM ScansMeetAll ==
  ASSUME Keys \subseteq Nat \ {0}, IsFiniteSet(Keys), PrefixFunctions \subseteq [Keys -> Nat]
  PROVE  Spec => []WalkMeetsAll
<1>1. ASSUME IInv PROVE WalkMeetsAll
  <2> DEFINE N == Cardinality(Keys) + 1
             w == Walk(tree)
  <2>1. PrefixForByteCount \in [Keys -> Nat] /\ TreeOK(tree)
    BY <1>1 DEF IInv
  <2>2. AllKeys(tree) \subseteq Keys
    BY <2>1, TreeKeys
  <2>3. N \in Nat /\ Cardinality(Keys) \in Nat
    BY FS_CardinalityType
  <2>4. w = Scan(tree, N)[N][First(tree)]
    BY DEF Walk
  <2>5. IsFirstOf(First(tree), AllKeys(tree))
    BY <2>1, FirstIsFirst
  <2> HIDE DEF N, w
  <2>6. Lists(w, AllKeys(tree))
    <3>1. CASE AllKeys(tree) = {}
      <4>1. First(tree) = 0
        BY <2>5, <3>1 DEF IsFirstOf
      <4>2. Scan(tree, N)[N] = Row(tree, Scan(tree, N), N)
        BY <2>3, ScanIs
      <4>3. w = <<>>
        BY <2>4, <4>1, <4>2 DEF Row
      <4>4. QED
        BY <3>1, <4>3 DEF Lists
    <3>2. CASE AllKeys(tree) # {}
      <4>1. /\ First(tree) \in AllKeys(tree)
            /\ \A l \in AllKeys(tree) \ {First(tree)} : Before(First(tree), l)
        BY <2>5, <3>2 DEF IsFirstOf
      <4>2. From(tree, First(tree)) = AllKeys(tree)
        BY <4>1 DEF From
      <4>3. Cardinality(AllKeys(tree)) \in Nat /\ Cardinality(AllKeys(tree)) <= Cardinality(Keys)
        BY <2>2, FS_Subset, FS_CardinalityType
      <4>4. N \in 0 .. N /\ Cardinality(From(tree, First(tree))) <= N
        BY <2>3, <4>2, <4>3 DEF N
      <4>5. Lists(Scan(tree, N)[N][First(tree)], From(tree, First(tree)))
        BY <2>1, <2>3, <4>1, <4>4, ScanListsFrom
      <4>6. QED
        BY <2>4, <4>2, <4>5
    <3>3. QED
      BY <3>1, <3>2
  <2>7. /\ w \in Seq(Keys) /\ DOMAIN w = 1 .. Len(w) /\ Len(w) \in Nat
        /\ \A i \in 1 .. Len(w) : w[i] \in Keys
    BY <2>6 DEF Lists
  <2>8. \A i, j \in 1 .. Len(w) : i < j => Before(w[i], w[j])
    BY <2>6 DEF Lists
  <2>9. IsInjective(w)
    <3> SUFFICES ASSUME NEW i \in 1 .. Len(w), NEW j \in 1 .. Len(w), w[i] = w[j], i < j
                 PROVE  FALSE
      BY <2>7 DEF IsInjective
    <3>1. Before(w[i], w[j]) /\ w[i] \in Keys
      BY <2>7, <2>8
    <3>2. QED
      BY <2>1, <3>1, BeforeIsStrict
  <2>10. ToSet(w) = AllKeys(tree)
    BY <2>6, <2>7 DEF Lists, ToSet
  <2>11. ASSUME InOrder, NEW i \in 1 .. Len(w) - 1 PROVE w[i] < w[i + 1]
    <3>1. i \in 1 .. Len(w) /\ i + 1 \in 1 .. Len(w) /\ i < i + 1
      BY <2>7
    <3>2. Before(w[i], w[i + 1]) /\ w[i] \in Keys /\ w[i + 1] \in Keys
      BY <2>7, <2>8, <3>1
    <3>3. w[i] \in Nat /\ w[i + 1] \in Nat
      BY <3>2
    <3>4. Prefix(w[i]) \in Nat /\ Prefix(w[i + 1]) \in Nat
      BY <2>1, <3>2 DEF Prefix
    <3>5. w[i + 1] < w[i] => Prefix(w[i + 1]) <= Prefix(w[i])
      BY <2>11, <3>2 DEF InOrder
    <3>6. QED
      BY <3>2, <3>3, <3>4, <3>5 DEF Before
  <2>12. QED
    BY <2>9, <2>10, <2>11 DEF WalkMeetsAll, w
<1>2. IInv => WalkMeetsAll
  BY <1>1
<1>3. Spec => []IInv
  BY Inductive
<1>4. QED
  BY <1>2, <1>3, PTL
=============================================================================
