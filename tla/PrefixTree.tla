----------------------------- MODULE PrefixTree -----------------------------
(***************************************************************************)
(* xBplusTreeBytes.cs and hBplusTreeBytes.cs (BplusDotNet): keys of any    *)
(* length over a BplusTreeBytes, whose keys have a bounded one.  Keys with *)
(* the same prefix (in hBplusTreeBytes: the same hash) share a bucket, a   *)
(* list in the order of Compare that is read from the tree, changed and    *)
(* written back as a whole.  Keys and prefixes are numbers in the order of *)
(* Compare; the tree below is the AtomicMap it is shown to be.             *)
(***************************************************************************)
EXTENDS Integers, SequencesExt

CONSTANTS Keys,            \* numbers from 1 on
          Vals,
          PrefixFunctions, \* the functions from Keys explored, each numbers
          Limits           \* BucketSizeLimit, -1 for none

VARIABLES
  PrefixForByteCount, \* key -> prefix, never changed
  BucketSizeLimit,
  committed,          \* prefix -> bucket, as the files have it
  tree                \* the same as the process sees it

vars == <<PrefixForByteCount, BucketSizeLimit, committed, tree>>

Prefix(k) == PrefixForByteCount[k]

(* A bucket is a sequence of pairs.                                        *)
KeyAt(b, i) == b[i][1]
KeysIn(b) == { KeyAt(b, i) : i \in DOMAIN b }

(* FindBucketForPrefix, for a prefix: the bucket or an empty one.          *)
Bucket(t, p) == IF p \in DOMAIN t THEN t[p] ELSE <<>>

(* Where the loop of xBucket.Add stops: at the first key that is not less, *)
(* or past the last one.                                                   *)
Stop(b, k) ==
  LET i == SelectInSeq(b, LAMBDA e : e[1] >= k) IN  IF i = 0 THEN Len(b) + 1 ELSE i

Bug_Overwrites(b, k, v) ==
  LET at == Stop(b, k)
  IN  IF at \in DOMAIN b THEN [b EXCEPT ![at] = <<k, v>>] ELSE Append(b, <<k, v>>)

(* xBucket.Add: over an equal key, before the first greater one, or last.  *)
Added(b, k, v) ==
  LET at == Stop(b, k)
  IN  IF at \in DOMAIN b /\ KeyAt(b, at) = k
      THEN [b EXCEPT ![at] = <<k, v>>]
      ELSE InsertAt(b, at, <<k, v>>)

TooMany(b, k) == /\ k \notin KeysIn(b) /\ BucketSizeLimit > 0
                 /\ Len(b) + 1 > BucketSizeLimit

(* xBucket.Remove: the first pair with the key goes.                       *)
IndexOf(b, k) == SelectInSeq(b, LAMBDA e : e[1] = k)
Removed(b, k) == RemoveAt(b, IndexOf(b, k))

(* xBucket.Find and xBucket.NextKey; 0 stands for null.                    *)
Find(b, k) == IF IndexOf(b, k) = 0 THEN 0 ELSE b[IndexOf(b, k)][2]

After(b, k) ==
  LET i == SelectInSeq(b, LAMBDA e : e[1] > k) IN  IF i = 0 THEN 0 ELSE KeyAt(b, i)

Put(t, p, b) == [q \in DOMAIN t \cup {p} |-> IF q = p THEN b ELSE t[q]]
Drop(t, p) == [q \in DOMAIN t \ {p} |-> t[q]]

-----------------------------------------------------------------------------
Init ==
  /\ PrefixForByteCount \in PrefixFunctions /\ BucketSizeLimit \in Limits
  /\ committed = [p \in {} |-> <<>>] /\ tree = committed

(* A refused key leaves the tree as it was: the bucket was a copy.         *)
Set(k, v) ==
  LET b == Bucket(tree, Prefix(k))
  IN  /\ ~ TooMany(b, k)
      /\ tree' = Put(tree, Prefix(k), Added(b, k, v))
      /\ UNCHANGED <<PrefixForByteCount, BucketSizeLimit, committed>>

(* A bucket that has become empty is removed with its prefix.              *)
RemoveKey(k) ==
  LET b == Bucket(tree, Prefix(k))
  IN  /\ k \in KeysIn(b)
      /\ tree' = IF Removed(b, k) = <<>> THEN Drop(tree, Prefix(k))
                 ELSE Put(tree, Prefix(k), Removed(b, k))
      /\ UNCHANGED <<PrefixForByteCount, BucketSizeLimit, committed>>

LimitBucketSize(n) ==
  /\ BucketSizeLimit' = n
  /\ UNCHANGED <<PrefixForByteCount, committed, tree>>

Commit == committed' = tree
            /\ UNCHANGED <<PrefixForByteCount, BucketSizeLimit, tree>>

(* Abort, or the process ends.                                             *)
Abort == tree' = committed
           /\ UNCHANGED <<PrefixForByteCount, BucketSizeLimit, committed>>

Next ==
  \/ \E k \in Keys, v \in Vals : Set(k, v)
  \/ \E k \in Keys : RemoveKey(k)
  \/ \E n \in Limits : LimitBucketSize(n)
  \/ Commit \/ Abort

Spec == Init /\ [][Next]_vars

-----------------------------------------------------------------------------
(* Queries.                                                                *)
Get(t, k) == Find(Bucket(t, Prefix(k)), k)

First(t) == IF DOMAIN t = {} THEN 0 ELSE KeyAt(t[Min(DOMAIN t)], 1)

(* The next key of the bucket, or the first of the bucket whose prefix     *)
(* follows.                                                                *)
NextKey(t, k) ==
  LET here == After(Bucket(t, Prefix(k)), k)
      right == { p \in DOMAIN t : p > Prefix(k) }
  IN  IF here # 0 THEN here
      ELSE IF right = {} THEN 0 ELSE KeyAt(t[Min(right)], 1)

(* FirstKey, then NextKey until null, as every caller scans a tree: from a *)
(* key, and for so many steps at most.                                     *)
Scan(t, N) ==
  LET scan[n \in 0 .. N] ==
        [k \in Keys \cup {0} |->
           IF k = 0 \/ n = 0 THEN <<>> ELSE <<k>> \o scan[n - 1][NextKey(t, k)]]
  IN  scan

Walk(t) == LET N == Cardinality(Keys) + 1 IN Scan(t, N)[N][First(t)]

AllKeys(t) == UNION { KeysIn(t[p]) : p \in DOMAIN t }

-----------------------------------------------------------------------------
TypeOK ==
  /\ PrefixForByteCount \in PrefixFunctions /\ BucketSizeLimit \in Limits
  /\ \A t \in {committed, tree} : \A p \in DOMAIN t : t[p] \in Seq(Keys \X Vals)

(* "empty bucket loaded" (FindBucketForPrefix) is never said, and a bucket *)
(* has keys of its prefix only, each once and in order.                    *)
BucketsOK ==
  \A t \in {committed, tree} : \A p \in DOMAIN t :
    /\ t[p] # <<>>
    /\ \A i \in DOMAIN t[p] : Prefix(KeyAt(t[p], i)) = p
    /\ \A i \in 1 .. Len(t[p]) - 1 : KeyAt(t[p], i) < KeyAt(t[p], i + 1)

(* The order of a scan: by prefix, then by key.  FirstKey is the first of  *)
(* all keys in that order, NextKey the first of those after its argument,  *)
(* whether the argument is in the tree or not, and null if there is none.  *)
Before(k, l) == Prefix(k) < Prefix(l) \/ (Prefix(k) = Prefix(l) /\ k < l)

IsFirstOf(k, S) ==
  IF S = {} THEN k = 0 ELSE k \in S /\ \A l \in S \ {k} : Before(k, l)

ScansInOrder ==
  \A t \in {committed, tree} :
    /\ IsFirstOf(First(t), AllKeys(t))
    /\ \A k \in Keys : IsFirstOf(NextKey(t, k), { l \in AllKeys(t) : Before(k, l) })

(* A scan meets every key once, whatever the prefixes: in hBplusTreeBytes  *)
(* in no order; in the order of Compare when prefixes are in the order of  *)
(* their keys, as those of xBplusTreeBytes are.                            *)
InOrder == \A k, l \in Keys : k < l => Prefix(k) <= Prefix(l)
WalkMeetsAll ==
  LET w == Walk(tree)
  IN  /\ IsInjective(w) /\ ToSet(w) = AllKeys(tree)
      /\ InOrder => \A i \in 1 .. Len(w) - 1 : w[i] < w[i + 1]

(* NextKey also answers for a key that is not there: with prefixes in      *)
(* order, the least key above it.                                          *)
NextOfAbsent ==
  InOrder => \A k \in Keys :
    LET above == { x \in AllKeys(tree) : x > k }
    IN  NextKey(tree, k) = IF above = {} THEN 0 ELSE Min(above)

(* The buckets are one map from keys to values, changed by one key a call  *)
(* and committed or forgotten as a whole.                                  *)
Flat(t) == [k \in AllKeys(t) |-> Get(t, k)]
Map == INSTANCE AtomicMap WITH committed <- Flat(committed), working <- Flat(tree)
IsAtomicMap == Map!Spec
=============================================================================
