-------------------------- MODULE LinkedFileProofs --------------------------
(***************************************************************************)
(* Proofs about LinkedFile: that no chunk somebody knows is ever touched,  *)
(* whatever a crash, a failed write, a stale header or a Recover leaves,   *)
(* and that no buffer is lost as long as none of those has happened.       *)
(***************************************************************************)
EXTENDS LinkedFile, FiniteSetTheorems, WellFoundedInduction, TLAPS

LEMMA LeastNat ==
  ASSUME NEW S \in SUBSET Nat, S # {}
  PROVE  \E m \in S : \A k \in S : m <= k
<1> DEFINE Less == OpToRel(<, Nat)
<1>1. IsWellFoundedOn(Less, Nat)
  BY NatLessThanWellFounded
<1>2. \A x, y \in Nat : <<x, y>> \in Less <=> x < y
  BY DEF OpToRel
<1> HIDE DEF Less
<1>3. PICK m \in S : \A k \in S : ~ (<<k, m>> \in Less)
  BY <1>1, WFMin
<1>4. ASSUME NEW k \in S
      PROVE  m <= k
  <2>1. m \in Nat /\ k \in Nat /\ ~ (k < m)
    BY <1>2, <1>3, Zenon
  <2> QED BY <2>1
<1> QED BY <1>4

-----------------------------------------------------------------------------
(* The buffers of a file.                                                  *)
Buffers(f) == 0 .. Len(f) - 1
Free(f, b) == b \in Buffers(f) /\ f[b + 1].type = "FREE"
Used(f, b) == b \in Buffers(f) /\ f[b + 1].type # "FREE"
After(f, b) == f[b + 1].next
InUse(f) == { b \in Buffers(f) : Used(f, b) }

AnyBuffer == [type : {"FREE", "HEAD", "BODY"}, next : Int, data : Piece]

IsFile(f) ==
  /\ f \in Seq(AnyBuffer)
  /\ \A b \in Buffers(f) : After(f, b) \in -1 .. Len(f) + 1

(* The file with a buffer written in place or as the next one.             *)
Put(f, b, buf) ==
  IF b = Len(f) THEN Append(f, buf) ELSE [f EXCEPT ![b + 1] = buf]

LEMMA PutIs ==
  ASSUME NEW f \in Seq(AnyBuffer), NEW b \in 0 .. Len(f), NEW buf \in AnyBuffer
  PROVE  /\ Put(f, b, buf) \in Seq(AnyBuffer)
         /\ Len(Put(f, b, buf)) \in Nat
         /\ Len(Put(f, b, buf)) = IF b = Len(f) THEN Len(f) + 1 ELSE Len(f)
         /\ b \in Buffers(Put(f, b, buf))
         /\ Put(f, b, buf)[b + 1] = buf
         /\ \A c \in Buffers(f) : /\ c \in Buffers(Put(f, b, buf))
                                  /\ c # b => Put(f, b, buf)[c + 1] = f[c + 1]
         /\ \A c \in Buffers(Put(f, b, buf)) : c # b => c \in Buffers(f)
<1>1. Len(f) \in Nat
  OBVIOUS
<1>2. CASE b = Len(f)
  <2>1. Put(f, b, buf) = Append(f, buf)
    BY <1>2 DEF Put
  <2>2. Len(Append(f, buf)) = Len(f) + 1 /\ Append(f, buf) \in Seq(AnyBuffer)
    OBVIOUS
  <2>3. /\ Append(f, buf)[Len(f) + 1] = buf
        /\ \A i \in 1 .. Len(f) : Append(f, buf)[i] = f[i]
    OBVIOUS
  <2>4. \A c \in Buffers(f) : c + 1 \in 1 .. Len(f) /\ c \in 0 .. Len(f)
    BY <1>1 DEF Buffers
  <2> QED BY <1>1, <1>2, <2>1, <2>2, <2>3, <2>4 DEF Buffers
<1>3. CASE b # Len(f)
  <2> DEFINE g == [f EXCEPT ![b + 1] = buf]
  <2>1. Put(f, b, buf) = g
    BY <1>3 DEF Put
  <2>2. b + 1 \in 1 .. Len(f) /\ b \in Buffers(f)
    BY <1>1, <1>3 DEF Buffers
  <2>3. g \in Seq(AnyBuffer) /\ Len(g) = Len(f)
    BY <2>2
  <2>4. g[b + 1] = buf /\ \A i \in 1 .. Len(f) : i # b + 1 => g[i] = f[i]
    BY <2>2
  <2>5. \A c \in Buffers(f) : c + 1 \in 1 .. Len(f) /\ (c # b => c + 1 # b + 1)
    BY <1>1 DEF Buffers
  <2> HIDE DEF g
  <2>6. Buffers(g) = Buffers(f)
    BY <2>3 DEF Buffers
  <2>7. \A c \in Buffers(f) : c # b => g[c + 1] = f[c + 1]
    BY <2>4, <2>5
  <2> QED BY <1>1, <1>3, <2>1, <2>2, <2>3, <2>4, <2>6, <2>7
<1> QED BY <1>2, <1>3

LEMMA PutKeeps ==
  ASSUME NEW f \in Seq(AnyBuffer), NEW b \in 0 .. Len(f), NEW buf \in AnyBuffer
  PROVE  \A c : c # b => /\ Free(Put(f, b, buf), c) <=> Free(f, c)
                         /\ Used(Put(f, b, buf), c) <=> Used(f, c)
                         /\ c \in Buffers(f) => After(Put(f, b, buf), c) = After(f, c)
<1> DEFINE g == Put(f, b, buf)
<1>1. \A c : c \in Buffers(f) => c \in Buffers(g) /\ (c # b => g[c + 1] = f[c + 1])
  BY PutIs
<1>2. \A c : c \in Buffers(g) /\ c # b => c \in Buffers(f)
  BY PutIs
<1> HIDE DEF g
<1> SUFFICES ASSUME NEW c, c # b
             PROVE  /\ Free(g, c) <=> Free(f, c)
                    /\ Used(g, c) <=> Used(f, c)
                    /\ c \in Buffers(f) => After(g, c) = After(f, c)
  BY DEF g
<1>3. CASE c \in Buffers(f)
  <2>1. c \in Buffers(g) /\ g[c + 1] = f[c + 1]
    BY <1>1, <1>3
  <2> QED BY <1>3, <2>1 DEF Free, Used, After
<1>4. CASE c \notin Buffers(f)
  <2>1. c \notin Buffers(g)
    BY <1>2, <1>4
  <2> QED BY <1>4, <2>1 DEF Free, Used
<1> QED BY <1>3, <1>4

-----------------------------------------------------------------------------
(* A list of free buffers: from h, S holds all that next pointers lead to  *)
(* through free buffers, and rk falls along them.  A free list may end at  *)
(* a buffer that is not free; it may not at one of U.                      *)
Ranked(f, h, S, rk, m) ==
  /\ m \in Nat /\ rk \in [S -> 0 .. m] /\ h \in S
  /\ \A b \in S : Free(f, b) => After(f, b) \in S /\ rk[After(f, b)] < rk[b]

ListAvoids(f, h, U) == \E S, rk, m : Ranked(f, h, S, rk, m) /\ S \cap U = {}

LEMMA AvoidsLess ==
  ASSUME NEW f, NEW h, NEW U, NEW T, ListAvoids(f, h, U), T \subseteq U
  PROVE  ListAvoids(f, h, T)
<1>1. PICK S, rk, m : Ranked(f, h, S, rk, m) /\ S \cap U = {}
  BY DEF ListAvoids
<1>2. S \cap T = {}
  BY <1>1
<1> QED BY <1>1, <1>2 DEF ListAvoids

LEMMA AvoidsHead ==
  ASSUME NEW f, NEW h, NEW U, ListAvoids(f, h, U)
  PROVE  h \notin U
BY DEF ListAvoids, Ranked

(* A list that starts at no free buffer is that start alone.               *)
LEMMA ListStops ==
  ASSUME NEW f, NEW h, NEW U, ~ Free(f, h), h \notin U
  PROVE  ListAvoids(f, h, U)
<1> DEFINE rk == [b \in {h} |-> 0]
<1>1. Ranked(f, h, {h}, rk, 0)
  BY DEF Ranked
<1>2. {h} \cap U = {}
  OBVIOUS
<1> QED BY <1>1, <1>2 DEF ListAvoids

(* The first of a list is taken off it: what is left does not lead there.  *)
LEMMA ListPopped ==
  ASSUME NEW f, NEW h, NEW U, ListAvoids(f, h, U), Free(f, h)
  PROVE  ListAvoids(f, After(f, h), U \cup {h})
<1>1. PICK S, rk, m : Ranked(f, h, S, rk, m) /\ S \cap U = {}
  BY DEF ListAvoids
<1> DEFINE a == After(f, h)
           T == { b \in S : rk[b] <= rk[a] }
           tk == [b \in T |-> rk[b]]
<1>2. a \in S /\ rk[a] < rk[h] /\ rk[a] \in Nat /\ rk[h] \in Nat
  BY <1>1 DEF Ranked
<1>3. m \in Nat /\ \A b \in S : rk[b] \in 0 .. m
  BY <1>1 DEF Ranked
<1>4. a \in T /\ h \notin T
  BY <1>2
<1>5. ASSUME NEW b \in T, Free(f, b)
      PROVE  After(f, b) \in T /\ rk[After(f, b)] < rk[b]
  <2>1. After(f, b) \in S /\ rk[After(f, b)] < rk[b]
    BY <1>1, <1>5 DEF Ranked
  <2>2. rk[After(f, b)] \in Nat /\ rk[b] \in Nat /\ rk[b] <= rk[a]
    BY <1>3, <1>5, <2>1
  <2> QED BY <1>2, <2>1, <2>2
<1>6. tk \in [T -> 0 .. m] /\ \A b \in T : tk[b] = rk[b]
  BY <1>3
<1>7. T \cap (U \cup {h}) = {}
  BY <1>1, <1>4
<1> HIDE DEF T, tk
<1>9. Ranked(f, a, T, tk, m)
  BY <1>3, <1>4, <1>5, <1>6 DEF Ranked
<1> QED BY <1>7, <1>9 DEF ListAvoids

(* Writing a buffer that is not free leaves every list what it was or ends *)
(* it there.                                                               *)
LEMMA ListWritten ==
  ASSUME NEW f \in Seq(AnyBuffer), NEW b \in 0 .. Len(f), NEW buf \in AnyBuffer,
         buf.type # "FREE", NEW h, NEW U, ListAvoids(f, h, U)
  PROVE  ListAvoids(Put(f, b, buf), h, U)
<1>1. PICK S, rk, m : Ranked(f, h, S, rk, m) /\ S \cap U = {}
  BY DEF ListAvoids
<1> DEFINE g == Put(f, b, buf)
<1>2. ~ Free(g, b)
  BY PutIs DEF Free
<1>3. \A c : c # b => (Free(g, c) => Free(f, c) /\ After(g, c) = After(f, c))
  BY PutKeeps DEF Free
<1> HIDE DEF g
<1>4. \A c : Free(g, c) => Free(f, c) /\ After(g, c) = After(f, c)
  BY <1>2, <1>3
<1>5. Ranked(g, h, S, rk, m)
  BY <1>1, <1>4 DEF Ranked
<1> QED BY <1>1, <1>5 DEF ListAvoids, g

(* A buffer is freed and put before a list that did not lead to it.        *)
LEMMA ListPushed ==
  ASSUME NEW f \in Seq(AnyBuffer), NEW b \in Buffers(f), NEW buf \in AnyBuffer,
         NEW h, buf.next = h, NEW U, ListAvoids(f, h, U), b \in U
  PROVE  ListAvoids(Put(f, b, buf), b, U \ {b})
<1>1. PICK S, rk, m : Ranked(f, h, S, rk, m) /\ S \cap U = {}
  BY DEF ListAvoids
<1> DEFINE g == Put(f, b, buf)
           T == S \cup {b}
           tk == [y \in T |-> IF y = b THEN m + 1 ELSE rk[y]]
<1>0. b \in 0 .. Len(f)
  BY DEF Buffers
<1>2. After(g, b) = h
  BY <1>0, PutIs DEF After
<1>3. \A c : c # b /\ Free(g, c) => Free(f, c) /\ After(g, c) = After(f, c)
  BY <1>0, PutKeeps DEF Free
<1> HIDE DEF g
<1>4. m \in Nat /\ (\A y \in S : rk[y] \in 0 .. m) /\ h \in S /\ b \notin S
  BY <1>1 DEF Ranked
<1>5. tk \in [T -> 0 .. m + 1]
  BY <1>4
<1>6. tk[b] = m + 1 /\ \A y \in S : y \in T /\ tk[y] = rk[y]
  BY <1>4
<1> HIDE DEF tk
<1>7. ASSUME NEW y \in T, Free(g, y)
      PROVE  After(g, y) \in T /\ tk[After(g, y)] < tk[y]
  <2>1. CASE y = b
    <3>1. tk[h] = rk[h] /\ rk[h] \in 0 .. m
      BY <1>4, <1>6
    <3> QED BY <1>2, <1>4, <1>6, <2>1, <3>1
  <2>2. CASE y # b
    <3>1. After(f, y) \in S /\ rk[After(f, y)] < rk[y] /\ y \in S /\ After(g, y) = After(f, y)
      BY <1>1, <1>3, <1>7, <2>2 DEF Ranked
    <3> QED BY <1>6, <3>1
  <2> QED BY <2>1, <2>2
<1>8. Ranked(g, b, T, tk, m + 1)
  BY <1>4, <1>5, <1>7 DEF Ranked
<1>9. T \cap (U \ {b}) = {}
  BY <1>1
<1> QED BY <1>8, <1>9 DEF ListAvoids, g

(* The same for any other list that may lead to the freed buffer: it goes  *)
(* on into the list the buffer was put before.                             *)
LEMMA ListJoined ==
  ASSUME NEW f \in Seq(AnyBuffer), NEW b \in Buffers(f), NEW buf \in AnyBuffer,
         NEW h, buf.next = h, NEW U, ListAvoids(f, h, U), b \in U,
         NEW k, NEW V, ListAvoids(f, k, V), V \subseteq U \ {b}
  PROVE  ListAvoids(Put(f, b, buf), k, V)
<1>1. PICK S, rk, m : Ranked(f, h, S, rk, m) /\ S \cap U = {}
  BY DEF ListAvoids
<1>a. PICK R, qk, n : Ranked(f, k, R, qk, n) /\ R \cap V = {}
  BY DEF ListAvoids
<1> DEFINE g == Put(f, b, buf)
           T == S \cup {b} \cup R
           tk == [y \in T |-> IF y = b THEN m + 1 ELSE IF y \in S THEN rk[y] ELSE qk[y] + m + 2]
<1>0. b \in 0 .. Len(f)
  BY DEF Buffers
<1>2. After(g, b) = h
  BY <1>0, PutIs DEF After
<1>3. \A c : c # b /\ Free(g, c) => Free(f, c) /\ After(g, c) = After(f, c)
  BY <1>0, PutKeeps DEF Free
<1> HIDE DEF g
<1>4. m \in Nat /\ (\A y \in S : rk[y] \in 0 .. m) /\ h \in S /\ b \notin S
  BY <1>1 DEF Ranked
<1>b. n \in Nat /\ (\A y \in R : qk[y] \in 0 .. n) /\ k \in R
  BY <1>a DEF Ranked
<1>5. tk \in [T -> 0 .. n + m + 2]
  <2>1. ASSUME NEW y \in T
        PROVE  (IF y = b THEN m + 1 ELSE IF y \in S THEN rk[y] ELSE qk[y] + m + 2) \in 0 .. n + m + 2
    BY <1>4, <1>b
  <2> QED BY <2>1
<1>6. /\ tk[b] = m + 1 /\ b \in T
      /\ \A y \in S : y \in T /\ tk[y] = rk[y]
      /\ \A y \in R : y \in T /\ (y # b /\ y \notin S => tk[y] = qk[y] + m + 2)
  BY <1>4
<1> HIDE DEF tk
<1>7. ASSUME NEW y \in T, Free(g, y)
      PROVE  After(g, y) \in T /\ tk[After(g, y)] < tk[y]
  <2>1. CASE y = b
    <3>1. tk[h] = rk[h] /\ rk[h] \in 0 .. m
      BY <1>4, <1>6
    <3> QED BY <1>2, <1>4, <1>6, <2>1, <3>1
  <2>2. CASE y # b /\ y \in S
    <3>1. After(f, y) \in S /\ rk[After(f, y)] < rk[y] /\ After(g, y) = After(f, y)
      BY <1>1, <1>3, <1>7, <2>2 DEF Ranked
    <3> QED BY <1>6, <2>2, <3>1
  <2>3. CASE y # b /\ y \notin S
    <3> DEFINE z == After(f, y)
    <3>1. z \in R /\ qk[z] < qk[y] /\ y \in R /\ After(g, y) = z
      BY <1>a, <1>3, <1>7, <2>3 DEF Ranked
    <3>2. tk[y] = qk[y] + m + 2 /\ qk[y] \in 0 .. n /\ qk[z] \in 0 .. n /\ z \in T
      BY <1>b, <1>6, <2>3, <3>1
    <3> HIDE DEF z
    <3>3. CASE z = b
      BY <1>4, <1>6, <3>1, <3>2, <3>3
    <3>4. CASE z # b /\ z \in S
      <4>1. tk[z] \in 0 .. m
        BY <1>4, <1>6, <3>4
      <4> QED BY <1>4, <3>1, <3>2, <4>1
    <3>5. CASE z # b /\ z \notin S
      <4>1. tk[z] = qk[z] + m + 2
        BY <1>6, <3>1, <3>5
      <4> QED BY <1>4, <1>b, <3>1, <3>2, <4>1
    <3> QED BY <3>3, <3>4, <3>5
  <2> QED BY <2>1, <2>2, <2>3
<1>8. k \in T /\ n + m + 2 \in Nat
  BY <1>4, <1>b
<1> HIDE DEF T
<1>9. Ranked(g, k, T, tk, n + m + 2)
  BY <1>5, <1>7, <1>8 DEF Ranked
<1>10. T \cap V = {}
  BY <1>1, <1>a DEF T
<1> QED BY <1>9, <1>10 DEF ListAvoids, g

-----------------------------------------------------------------------------
(* The record of a call: what it holds, of which types.                    *)
Fields(P) ==
  [file : Seq(AnyBuffer), head : Int, recent : Int, dirty : BOOLEAN, got : Int,
   err : BOOLEAN, past : Seq(P)]

Rec(s) ==
  /\ \E P : s \in Fields(P)
  /\ IsFile(s.file)
  /\ s.head \in -1 .. Len(s.file) + 1
  /\ s.recent \in -1 .. Len(s.file) + 1
  /\ s.got \in -1 .. Len(s.file) + 1

(* In mid-call: since the call found f, the buffers U have not changed and *)
(* the free list does not lead to them; the list of the header hdr leads   *)
(* to none of those that a crash must leave, W; and memory that has not    *)
(* changed agrees with the header.                                         *)
Held(s, f, hdr, U, W) ==
  /\ Rec(s)
  /\ Len(f) <= Len(s.file)
  /\ \A b \in U : s.file[b + 1] = f[b + 1]
  /\ ListAvoids(s.file, s.head, U)
  /\ ListAvoids(s.file, hdr, W)
  /\ ~ s.dirty => s.head = hdr

PastHeld(s, f, hdr, U, W) == \A i \in DOMAIN s.past : Held(s.past[i], f, hdr, U, W)

(* As long as the call found it, at every write so far.                    *)
Short(s, f) ==
  Len(s.file) = Len(f) /\ \A i \in DOMAIN s.past : Len(s.past[i].file) = Len(f)

LEMMA RaiseIs ==
  ASSUME NEW s, Rec(s)
  PROVE  /\ Rec(Raise(s)) /\ Raise(s).err
         /\ Raise(s).file = s.file /\ Raise(s).head = s.head /\ Raise(s).recent = s.recent
         /\ Raise(s).dirty = s.dirty /\ Raise(s).got = s.got /\ Raise(s).past = s.past
<1>1. PICK P : s \in Fields(P)
  BY DEF Rec
<1> DEFINE t == Raise(s)
<1>2. /\ t \in Fields(P)
      /\ t.file = s.file /\ t.head = s.head /\ t.recent = s.recent
      /\ t.dirty = s.dirty /\ t.got = s.got /\ t.past = s.past /\ t.err
  BY <1>1 DEF Raise, Fields
<1> HIDE DEF t
<1>3. Rec(t)
  BY <1>2 DEF Rec
<1> QED BY <1>2, <1>3 DEF t

LEMMA RaiseHeld ==
  ASSUME NEW s, NEW f, NEW hdr, NEW U, NEW W, Held(s, f, hdr, U, W),
         PastHeld(s, f, hdr, U, W)
  PROVE  Held(Raise(s), f, hdr, U, W) /\ PastHeld(Raise(s), f, hdr, U, W)
<1> DEFINE t == Raise(s)
<1>1. Rec(s)
  BY DEF Held
<1>2. /\ Rec(t) /\ t.file = s.file /\ t.head = s.head /\ t.dirty = s.dirty /\ t.past = s.past
  BY <1>1, RaiseIs
<1> HIDE DEF t
<1>3. Held(t, f, hdr, U, W) /\ PastHeld(t, f, hdr, U, W)
  BY <1>2 DEF Held, PastHeld
<1> QED BY <1>3 DEF t

(* A buffer is written.                                                    *)
LEMMA SetBufferIs ==
  ASSUME NEW s, Rec(s), ~ s.err, NEW b \in 0 .. Len(s.file), NEW buf \in AnyBuffer,
         buf.next \in -1 .. Len(s.file) + 1
  PROVE  LET t == SetBuffer(s, b, buf)
         IN  /\ Rec(t) /\ ~ t.err /\ t.file = Put(s.file, b, buf) /\ t.past = Append(s.past, s)
             /\ t.head = s.head /\ t.recent = s.recent /\ t.dirty = s.dirty /\ t.got = s.got
<1>0. s.file \in Seq(AnyBuffer) /\ Len(s.file) \in Nat
  BY DEF Rec, IsFile
<1>1. PICK P : s \in Fields(P)
  BY DEF Rec
<1> DEFINE g == Put(s.file, b, buf)
           p == Append(s.past, s)
           t == SetBuffer(s, b, buf)
<1>a. s.past \in Seq(P) /\ s.past \in Seq(P \cup {s})
  BY <1>1 DEF Fields
<1>b. p \in Seq(P \cup {s})
  BY <1>a
<1>c. g \in Seq(AnyBuffer)
  BY <1>0, PutIs
<1>2. t = [s EXCEPT !.past = p, !.file = g]
  BY <1>0 DEF SetBuffer, Put
<1>4. IsFile(g) /\ Len(g) \in Nat /\ Len(s.file) <= Len(g)
  <2>1. g \in Seq(AnyBuffer) /\ Len(g) \in Nat /\ Len(s.file) <= Len(g) /\ g[b + 1] = buf
    BY <1>0, PutIs
  <2>2. \A c \in Buffers(g) : c # b => c \in Buffers(s.file)
    BY <1>0, PutIs
  <2>2a. \A c : c # b /\ c \in Buffers(s.file) => After(g, c) = After(s.file, c)
    BY <1>0, PutKeeps
  <2> HIDE DEF g
  <2>3. ASSUME NEW c \in Buffers(g)
        PROVE  After(g, c) \in -1 .. Len(g) + 1
    <3>1. CASE c = b
      BY <1>0, <2>1, <3>1 DEF After
    <3>2. CASE c # b
      <4>1. After(g, c) \in -1 .. Len(s.file) + 1
        BY <2>2, <2>2a, <3>2 DEF Rec, IsFile
      <4> QED BY <1>0, <2>1, <4>1
    <3> QED BY <3>1, <3>2
  <2> QED BY <2>1, <2>3 DEF IsFile
<1> HIDE DEF g, p, t
<1>5. /\ t \in Fields(P \cup {s})
      /\ t.file = g /\ t.head = s.head /\ t.recent = s.recent
      /\ t.dirty = s.dirty /\ t.got = s.got /\ t.past = p /\ t.err = s.err
  BY <1>1, <1>2, <1>b, <1>c DEF Fields
<1>6. /\ s.head \in -1 .. Len(g) + 1 /\ s.recent \in -1 .. Len(g) + 1
      /\ s.got \in -1 .. Len(g) + 1
  BY <1>0, <1>4 DEF Rec
<1>7. Rec(t)
  BY <1>4, <1>5, <1>6 DEF Rec
<1> QED BY <1>5, <1>7 DEF g, p, t

LEMMA AppendIs ==
  ASSUME NEW R, NEW p \in Seq(R), NEW x
  PROVE  \A i \in DOMAIN Append(p, x) :
           Append(p, x)[i] = x \/ (i \in DOMAIN p /\ Append(p, x)[i] = p[i])
<1>1. p \in Seq(R \cup {x}) /\ DOMAIN p = 1 .. Len(p) /\ Len(p) \in Nat
  OBVIOUS
<1> DEFINE q == Append(p, x)
<1>2. DOMAIN q = 1 .. Len(p) + 1 /\ q[Len(p) + 1] = x
  BY <1>1
<1>3. \A i \in 1 .. Len(p) : q[i] = p[i]
  OBVIOUS
<1> HIDE DEF q
<1>4. \A i \in DOMAIN q : q[i] = x \/ (i \in DOMAIN p /\ q[i] = p[i])
  BY <1>1, <1>2, <1>3
<1> QED BY <1>4 DEF q

(* What was held before a write was held at every write before it.         *)
LEMMA PastGrows ==
  ASSUME NEW s, NEW t, NEW f, NEW hdr, NEW U, NEW W, t.past = Append(s.past, s),
         Held(s, f, hdr, U, W), PastHeld(s, f, hdr, U, W)
  PROVE  PastHeld(t, f, hdr, U, W) /\ (Short(s, f) /\ Len(t.file) = Len(f) => Short(t, f))
<1>1. PICK R : s.past \in Seq(R)
  BY DEF Held, Rec, Fields
<1> DEFINE p == Append(s.past, s)
<1>2. \A i \in DOMAIN p : p[i] = s \/ (i \in DOMAIN s.past /\ p[i] = s.past[i])
  BY <1>1, AppendIs
<1> HIDE DEF p
<1>3. t.past = p
  BY DEF p
<1> QED BY <1>2, <1>3 DEF PastHeld, Short

-----------------------------------------------------------------------------
(* AllocateBuffer.  What it hands out is free, or past the end of the file *)
(* and not what was handed out before; it is not on the list any more.     *)
Handed(f, got, new) ==
  /\ got \in Len(f) .. Len(f) + 1
  /\ new = got

LEMMA AllocateIs ==
  ASSUME NEW s, Rec(s), ~ s.err
  PROVE  LET u == AllocateBuffer(s)
         IN  \/ u = Raise(s) /\ s.head # NullBuffer /\ ~ Free(s.file, s.head)
             \/ /\ Rec(u) /\ ~ u.err /\ u.file = s.file /\ u.past = s.past
                /\ \/ /\ Free(s.file, s.head) /\ u.got = s.head /\ u.dirty
                      /\ u.head = After(s.file, s.head) /\ u.recent = NullBuffer
                   \/ /\ s.head = NullBuffer /\ u.head = s.head /\ u.dirty = s.dirty
                      /\ Handed(s.file, u.got, u.recent)
                      /\ u.got = IF s.recent = Len(s.file) THEN Len(s.file) + 1 ELSE Len(s.file)
<1>0. s.file \in Seq(AnyBuffer) /\ Len(s.file) \in Nat
  BY DEF Rec, IsFile
<1>1. PICK P : s \in Fields(P)
  BY DEF Rec
<1> DEFINE u == AllocateBuffer(s)
<1>2. CASE s.head # NullBuffer
  <2>1. u = FromFreeList(s)
    BY <1>2 DEF AllocateBuffer
  <2>2. CASE ~ Free(s.file, s.head)
    <3>1. u = Raise(s)
      BY <2>1, <2>2 DEF FromFreeList, Has, At, Free, Buffers
    <3> QED BY <1>2, <2>2, <3>1
  <2>3. CASE Free(s.file, s.head)
    <3>1. u = [s EXCEPT !.got = s.head, !.head = After(s.file, s.head), !.dirty = TRUE,
                        !.recent = NullBuffer]
      BY <2>1, <2>3 DEF FromFreeList, Has, At, Free, Buffers, After
    <3>2. After(s.file, s.head) \in -1 .. Len(s.file) + 1 /\ s.head \in Buffers(s.file)
      BY <2>3 DEF Rec, IsFile, Free
    <3>3. After(s.file, s.head) \in Int /\ NullBuffer \in Int
      BY <1>0, <3>2 DEF NullBuffer
    <3> HIDE DEF u
    <3>4. /\ u \in Fields(P) /\ u.file = s.file /\ u.past = s.past /\ u.err = s.err
          /\ u.got = s.head /\ u.dirty /\ u.head = After(s.file, s.head)
          /\ u.recent = NullBuffer
      BY <1>1, <3>1, <3>3 DEF Fields
    <3>5. /\ -1 \in -1 .. Len(s.file) + 1 /\ s.head \in -1 .. Len(s.file) + 1
      BY <1>0 DEF Rec
    <3>6. Rec(u)
      BY <3>2, <3>4, <3>5 DEF Rec, NullBuffer
    <3> QED BY <2>3, <3>4, <3>6 DEF u
  <2> QED BY <2>2, <2>3
<1>3. CASE s.head = NullBuffer
  <2> DEFINE b == IF s.recent = Len(s.file) THEN Len(s.file) + 1 ELSE Len(s.file)
  <2>1. u = [s EXCEPT !.got = b, !.recent = b]
    BY <1>3 DEF AllocateBuffer, FromEnd
  <2>2. b \in Int /\ b \in Len(s.file) .. Len(s.file) + 1 /\ b \in -1 .. Len(s.file) + 1
    BY <1>0
  <2>3. b = IF s.recent = Len(s.file) THEN Len(s.file) + 1 ELSE Len(s.file)
    OBVIOUS
  <2> HIDE DEF u, b
  <2>4. /\ u \in Fields(P) /\ u.file = s.file /\ u.past = s.past /\ u.err = s.err
        /\ u.got = b /\ u.dirty = s.dirty /\ u.head = s.head /\ u.recent = b
    BY <1>1, <2>1, <2>2 DEF Fields
  <2>5. Rec(u)
    BY <2>2, <2>4 DEF Rec
  <2> QED BY <1>3, <2>2, <2>3, <2>4, <2>5 DEF u, Handed
<1> QED BY <1>2, <1>3

LEMMA AllocateHeld ==
  ASSUME NEW s, NEW f, NEW hdr, NEW U, NEW W, Held(s, f, hdr, U, W),
         PastHeld(s, f, hdr, U, W), ~ s.err,
         NEW X, U \subseteq X, ListAvoids(s.file, s.head, X)
  PROVE  LET u == AllocateBuffer(s)
         IN  /\ Held(u, f, hdr, U, W) /\ PastHeld(u, f, hdr, U, W) /\ u.file = s.file
             /\ ~ u.err =>
                  /\ ListAvoids(s.file, u.head, X \cup {u.got})
                  /\ \/ Free(s.file, u.got) /\ u.got \notin X
                     \/ /\ Handed(s.file, u.got, u.recent)
                        /\ s.recent = Len(s.file) => u.got = Len(s.file) + 1
<1>1. Rec(s)
  BY DEF Held
<1> DEFINE u == AllocateBuffer(s)
<1>2. CASE u = Raise(s)
  <2>1. u.err /\ u.file = s.file
    BY <1>1, <1>2, RaiseIs
  <2>2. Held(u, f, hdr, U, W) /\ PastHeld(u, f, hdr, U, W)
    BY <1>2, RaiseHeld
  <2> QED BY <2>1, <2>2
<1>3. CASE u # Raise(s)
  <2>1. /\ Rec(u) /\ ~ u.err /\ u.file = s.file /\ u.past = s.past
        /\ \/ /\ Free(s.file, s.head) /\ u.got = s.head /\ u.dirty
              /\ u.head = After(s.file, s.head)
           \/ /\ s.head = NullBuffer /\ u.head = s.head /\ u.dirty = s.dirty
              /\ Handed(s.file, u.got, u.recent)
              /\ s.recent = Len(s.file) => u.got = Len(s.file) + 1
    BY <1>1, <1>3, AllocateIs
  <2> HIDE DEF u
  <2>2. s.head \notin X
    BY AvoidsHead
  <2>3. ListAvoids(s.file, u.head, X \cup {u.got})
    <3>1. CASE Free(s.file, s.head) /\ u.got = s.head /\ u.head = After(s.file, s.head)
      BY <3>1, ListPopped
    <3>2. CASE s.head = NullBuffer /\ u.head = s.head /\ Handed(s.file, u.got, u.recent)
      <4>1. Len(s.file) \in Nat
        BY <1>1 DEF Rec, IsFile
      <4>2. u.got # -1 /\ -1 \notin Buffers(s.file)
        BY <3>2, <4>1 DEF Handed, Buffers
      <4>3. ~ Free(s.file, u.head) /\ u.head \notin X \cup {u.got}
        BY <2>2, <3>2, <4>2 DEF Free, NullBuffer
      <4> QED BY <4>3, ListStops
    <3> QED BY <2>1, <3>1, <3>2
  <2>4. ListAvoids(s.file, u.head, U)
    BY <2>3, AvoidsLess
  <2>5. Held(u, f, hdr, U, W) /\ PastHeld(u, f, hdr, U, W)
    BY <2>1, <2>4 DEF Held, PastHeld
  <2> QED BY <2>1, <2>2, <2>3, <2>5 DEF u
<1> QED BY <1>2, <1>3

-----------------------------------------------------------------------------
(* StoreNewChunk.                                                          *)

(* A buffer that a call may write: free, or the next of the file, or the   *)
(* one after it, where the write raises.                                   *)
Writable(s, b) == Free(s.file, b) \/ b \in Len(s.file) .. Len(s.file) + 1

LEMMA StillUsed ==
  ASSUME NEW s, NEW f, NEW hdr, NEW U, NEW W, Held(s, f, hdr, U, W),
         IsFile(f), U \subseteq InUse(f)
  PROVE  /\ Len(f) \in Nat /\ Len(s.file) \in Nat
         /\ \A b \in U : Used(s.file, b)
         /\ \A b : Writable(s, b) => b \notin U
<1>1. Len(s.file) \in Nat /\ Len(f) <= Len(s.file)
  BY DEF Held, Rec, IsFile
<1>2. Len(f) \in Nat
  BY DEF IsFile
<1>3. \A b \in U : Used(s.file, b)
  BY <1>1, <1>2 DEF Held, InUse, Used, Buffers
<1>4. \A b : Writable(s, b) => ~ Used(s.file, b)
  BY <1>1 DEF Writable, Free, Used, Buffers
<1> QED BY <1>1, <1>2, <1>3, <1>4

LEMMA WriteHeld ==
  ASSUME NEW s, NEW f, NEW hdr, NEW U, NEW W, Held(s, f, hdr, U, W),
         PastHeld(s, f, hdr, U, W), ~ s.err, IsFile(f), U \subseteq InUse(f),
         NEW b, Writable(s, b), NEW buf \in AnyBuffer, buf.type # "FREE",
         buf.next \in -1 .. Len(s.file) + 1
  PROVE  LET t == SetBuffer(s, b, buf)
         IN  /\ Held(t, f, hdr, U, W) /\ PastHeld(t, f, hdr, U, W)
             /\ ~ t.err => /\ b \in 0 .. Len(s.file) /\ t.file = Put(s.file, b, buf)
                           /\ t.head = s.head /\ t.recent = s.recent /\ t.got = s.got
<1> DEFINE t == SetBuffer(s, b, buf)
<1>0. Rec(s) /\ s.file \in Seq(AnyBuffer) /\ Len(s.file) \in Nat
  BY DEF Held, Rec, IsFile
<1>1. CASE b > Len(s.file)
  <2>1. t = Raise(s)
    BY <1>1 DEF SetBuffer
  <2>2. t.err
    BY <1>0, <2>1, RaiseIs
  <2>3. Held(t, f, hdr, U, W) /\ PastHeld(t, f, hdr, U, W)
    BY <2>1, RaiseHeld
  <2> QED BY <2>2, <2>3
<1>2. CASE ~ (b > Len(s.file))
  <2>1. b \in 0 .. Len(s.file)
    BY <1>0, <1>2 DEF Writable, Free, Buffers
  <2> DEFINE g == Put(s.file, b, buf)
  <2>2. /\ Rec(t) /\ ~ t.err /\ t.file = g /\ t.past = Append(s.past, s)
        /\ t.head = s.head /\ t.recent = s.recent /\ t.dirty = s.dirty /\ t.got = s.got
    BY <1>0, <2>1, SetBufferIs
  <2>3. b \notin U
    BY StillUsed
  <2>4. Len(s.file) <= Len(g) /\ Len(g) \in Nat
    BY <1>0, <2>1, PutIs
  <2>5. \A c \in U : c \in Buffers(s.file)
    BY StillUsed DEF Used
  <2>a. \A c \in Buffers(s.file) : c # b => g[c + 1] = s.file[c + 1]
    BY <1>0, <2>1, PutIs
  <2>6. \A c \in U : g[c + 1] = s.file[c + 1]
    BY ONLY <2>3, <2>5, <2>a
  <2>7. ListAvoids(g, s.head, U) /\ ListAvoids(g, hdr, W)
    BY <1>0, <2>1, ListWritten DEF Held
  <2>8. PastHeld(t, f, hdr, U, W)
    BY <2>2, PastGrows
  <2>9. Len(f) <= Len(g)
    BY <1>0, <2>4, StillUsed DEF Held
  <2> HIDE DEF t, g
  <2>10. Held(t, f, hdr, U, W)
    BY <2>2, <2>6, <2>7, <2>9 DEF Held
  <2> QED BY <2>1, <2>2, <2>8, <2>10 DEF t, g
<1> QED BY <1>1, <1>2

Kind(k) == IF k = 1 THEN "HEAD" ELSE "BODY"
Filled(v, k, next) == [type |-> Kind(k), next |-> next, data |-> <<v, k>>]

(* Before the i-th piece of v is written: c are the buffers of the pieces, *)
(* the last of them handed out and the others written.                     *)
Storing(s, i, v, c, U) ==
  /\ c \in [1 .. i -> 0 .. Len(s.file) + 1] /\ c[i] = s.got
  /\ \A k \in 1 .. i - 1 : /\ c[k] \in Buffers(s.file) \ U
                           /\ s.file[c[k] + 1] = Filled(v, k, c[k + 1])
  /\ Free(s.file, s.got) \/ Handed(s.file, s.got, s.recent)
  /\ ListAvoids(s.file, s.head, U \cup { c[k] : k \in 1 .. i })

LEMMA StoreTurn ==
  ASSUME NEW s, NEW f, NEW hdr, NEW U, NEW W, Held(s, f, hdr, U, W),
         PastHeld(s, f, hdr, U, W), ~ s.err, IsFile(f), U \subseteq InUse(f),
         NEW v \in Values, NEW i \in Nat \ {0}, Size(v) \in Nat, i < Size(v),
         NEW c, Storing(s, i, v, c, U)
  PROVE  LET u == AllocateBuffer(s)
             t == StoreBuffer(u, s.got, v, i, u.got)
         IN  /\ Held(t, f, hdr, U, W) /\ PastHeld(t, f, hdr, U, W)
             /\ ~ t.err => \E d : Storing(t, i + 1, v, d, U) /\ d[1] = c[1]
<1> DEFINE u == AllocateBuffer(s)
           n == Len(s.file)
           b == s.got
           X == U \cup { c[k] : k \in 1 .. i }
           buf == Filled(v, i, u.got)
           t == StoreBuffer(u, s.got, v, i, u.got)
           g == Put(s.file, b, buf)
<1>0. Rec(s) /\ s.file \in Seq(AnyBuffer) /\ n \in Nat
  BY DEF Held, Rec, IsFile
<1>1. U \subseteq X /\ ListAvoids(s.file, s.head, X)
  BY DEF Storing
<1> HIDE DEF X
<1>2. /\ Held(u, f, hdr, U, W) /\ PastHeld(u, f, hdr, U, W) /\ u.file = s.file
      /\ ~ u.err =>
           /\ ListAvoids(s.file, u.head, X \cup {u.got})
           /\ \/ Free(s.file, u.got) /\ u.got \notin X
              \/ /\ Handed(s.file, u.got, u.recent)
                 /\ s.recent = n => u.got = n + 1
  BY <1>1, AllocateHeld
<1>3. t = SetBuffer(u, b, buf)
  BY DEF StoreBuffer, Filled, Kind
<1> HIDE DEF u, t, b, buf
<1> SUFFICES /\ Held(t, f, hdr, U, W) /\ PastHeld(t, f, hdr, U, W)
             /\ ~ t.err => \E d : Storing(t, i + 1, v, d, U) /\ d[1] = c[1]
  BY DEF u, t
<1>4. CASE u.err
  <2>1. t = u
    BY <1>3, <1>4 DEF SetBuffer
  <2> QED BY <1>2, <1>4, <2>1
<1>5. CASE ~ u.err
  <2>1. buf \in AnyBuffer /\ buf.type # "FREE" /\ buf.next = u.got
    <3>1. u.got \in -1 .. Len(u.file) + 1
      BY <1>2 DEF Held, Rec
    <3>2. u.got \in Int
      BY <1>0, <1>2, <3>1
    <3>3. <<v, i>> \in Piece
      BY DEF Piece
    <3> QED BY <3>2, <3>3 DEF buf, Filled, Kind, AnyBuffer
  <2>2. Writable(u, b)
    BY <1>2 DEF Storing, Writable, Handed, b
  <2>3. buf.next \in -1 .. Len(u.file) + 1
    BY <1>2, <2>1 DEF Held, Rec
  <2>4. /\ Held(t, f, hdr, U, W) /\ PastHeld(t, f, hdr, U, W)
        /\ ~ t.err => /\ b \in 0 .. n /\ t.file = g
                      /\ t.head = u.head /\ t.recent = u.recent /\ t.got = u.got
    <3>1. /\ Held(t, f, hdr, U, W) /\ PastHeld(t, f, hdr, U, W)
          /\ ~ t.err => /\ b \in 0 .. Len(u.file) /\ t.file = Put(u.file, b, buf)
                        /\ t.head = u.head /\ t.recent = u.recent /\ t.got = u.got
      BY <1>2, <1>3, <1>5, <2>1, <2>2, <2>3, WriteHeld
    <3> QED BY <1>2, <3>1
  <2>5. ASSUME ~ t.err
        PROVE  \E d : Storing(t, i + 1, v, d, U) /\ d[1] = c[1]
    <3> DEFINE d == [k \in 1 .. i + 1 |-> IF k <= i THEN c[k] ELSE u.got]
    <3>1. /\ b \in 0 .. n /\ t.file = g
          /\ t.head = u.head /\ t.recent = u.recent /\ t.got = u.got
      BY <2>4, <2>5
    <3>a. /\ g \in Seq(AnyBuffer)
          /\ Len(g) \in Nat
          /\ Len(g) = IF b = Len(s.file) THEN Len(s.file) + 1 ELSE Len(s.file)
          /\ b \in Buffers(g)
          /\ g[b + 1] = buf
          /\ \A y \in Buffers(s.file) : /\ y \in Buffers(g)
                                        /\ y # b => g[y + 1] = s.file[y + 1]
          /\ \A y \in Buffers(g) : y # b => y \in Buffers(s.file)
      BY <1>0, <2>1, <3>1, PutIs
    <3>2. /\ g \in Seq(AnyBuffer) /\ Len(g) \in Nat /\ Len(g) = IF b = n THEN n + 1 ELSE n
          /\ b \in Buffers(g) /\ g[b + 1] = buf
      BY <3>a
    <3>2a. \A y \in Buffers(s.file) : y \in Buffers(g) /\ (y # b => g[y + 1] = s.file[y + 1])
      BY <3>a
    <3>2b. Free(s.file, u.got) /\ u.got # b => Free(g, u.got)
      BY <1>0, <2>1, <3>1, PutKeeps
    <3>2c. ListAvoids(g, u.head, X \cup {u.got})
      BY <1>0, <1>2, <1>5, <2>1, <3>1, ListWritten
    <3> HIDE DEF g
    <3>3. c \in [1 .. i -> 0 .. n + 1] /\ c[i] = b
      BY DEF Storing, b
    <3>4. \A k \in 1 .. i - 1 : /\ c[k] \in Buffers(s.file) \ U
                                /\ s.file[c[k] + 1] = Filled(v, k, c[k + 1])
      BY DEF Storing
    <3>5. Free(s.file, b) \/ Handed(s.file, b, s.recent)
      BY DEF Storing, b
    <3>6. b \in X /\ (\A k \in 1 .. i : c[k] \in X)
      BY <3>3 DEF X
    <3>7. \A k \in 1 .. i - 1 : c[k] # b
      <4>1. \A k \in 1 .. i - 1 : Used(s.file, c[k])
        <5> SUFFICES ASSUME NEW k \in 1 .. i - 1
                     PROVE  Used(s.file, c[k])
          OBVIOUS
        <5>1. c[k] \in Buffers(s.file) /\ s.file[c[k] + 1] = Filled(v, k, c[k + 1])
          BY <3>4
        <5>2. Filled(v, k, c[k + 1]).type # "FREE"
          BY DEF Filled, Kind
        <5> QED BY <5>1, <5>2 DEF Used
      <4>2. ~ Used(s.file, b)
        BY <1>0, <3>5 DEF Used, Free, Handed, Buffers
      <4> QED BY <4>1, <4>2
    <3>8. u.got # b /\ (Free(g, u.got) \/ Handed(g, u.got, u.recent))
      <4>1. CASE Free(s.file, u.got) /\ u.got \notin X
        BY <3>2b, <3>6, <4>1
      <4>2. CASE Handed(s.file, u.got, u.recent) /\ (s.recent = n => u.got = n + 1)
        <5>1. b \in Buffers(s.file) \/ (b = n /\ s.recent = n)
          BY <1>0, <3>1, <3>5 DEF Free, Handed
        <5>2. CASE b \in Buffers(s.file)
          BY <1>0, <3>2, <4>2, <5>2 DEF Handed, Buffers
        <5>3. CASE b = n /\ s.recent = n
          BY <1>0, <3>2, <4>2, <5>3 DEF Handed
        <5> QED BY <5>1, <5>2, <5>3
      <4> QED BY <1>2, <1>5, <4>1, <4>2
    <3>9. d \in [1 .. i + 1 -> 0 .. Len(g) + 1]
      <4>1. u.got \in 0 .. Len(g) + 1
        BY <1>0, <3>2, <3>8 DEF Free, Handed, Buffers
      <4>2. \A k \in 1 .. i : c[k] \in 0 .. Len(g) + 1
        BY <1>0, <3>2, <3>3
      <4> QED BY <4>1, <4>2
    <3>10. d[i + 1] = u.got /\ d[1] = c[1] /\ \A k \in 1 .. i : d[k] = c[k]
      OBVIOUS
    <3> HIDE DEF d
    <3>11. ASSUME NEW k \in 1 .. i
           PROVE  d[k] \in Buffers(g) \ U /\ g[d[k] + 1] = Filled(v, k, d[k + 1])
      <4>1. CASE k = i
        <5>1. d[k] = b /\ d[k + 1] = u.got
          BY <3>3, <3>10, <4>1
        <5>2. b \notin U
          BY <1>2, <2>2, StillUsed
        <5> QED BY <3>2, <4>1, <5>1, <5>2 DEF buf
      <4>2. CASE k # i
        <5>1. k \in 1 .. i - 1 /\ k + 1 \in 1 .. i
          BY <4>2
        <5>2. d[k] = c[k] /\ d[k + 1] = c[k + 1]
          BY <3>10, <5>1
        <5> QED BY <3>2a, <3>4, <3>7, <5>1, <5>2
      <4> QED BY <4>1, <4>2
    <3>12. U \cup { d[k] : k \in 1 .. i + 1 } = X \cup {u.got}
      <4>1. { d[k] : k \in 1 .. i + 1 } = { c[k] : k \in 1 .. i } \cup {u.got}
        <5>1. \A k \in 1 .. i + 1 : k \in 1 .. i \/ k = i + 1
          OBVIOUS
        <5>2. \A k \in 1 .. i : k \in 1 .. i + 1
          OBVIOUS
        <5> QED BY <3>10, <5>1, <5>2
      <4> QED BY <4>1 DEF X
    <3>13. (i + 1) - 1 = i
      OBVIOUS
    <3>14. Storing(t, i + 1, v, d, U)
      BY <3>1, <3>2c, <3>8, <3>9, <3>10, <3>11, <3>12, <3>13 DEF Storing
    <3> QED BY <3>10, <3>14
  <2> QED BY <2>4, <2>5
<1> QED BY <1>4, <1>5

-----------------------------------------------------------------------------
(* The recursive functions of LinkedFile.  Each goes on from what it had a *)
(* turn before, by one of four steps; that there is such a function is     *)
(* shown of the least number of turns for which it could fail.             *)
PathStep(f, x) == IF x \in 0 .. Len(f) - 1 THEN f[x + 1].next ELSE NullBuffer
StoreStep(v, x, i) ==
  StoreBuffer(AllocateBuffer(x), x.got, v, i - 1, AllocateBuffer(x).got)
FreeStep(x, i) == FreeBuffer(x, IF i = 1 THEN "HEAD" ELSE "BODY")
ReleaseStep(n, chunks, x, i) == IF n - i \in chunks THEN Released(x, n - i) ELSE x

Step(job, with, n, x, i) ==
  IF job = "path" THEN PathStep(with, x)
  ELSE IF job = "store" THEN StoreStep(with, x, i)
  ELSE IF job = "free" THEN FreeStep(x, i)
  ELSE ReleaseStep(n, with, x, i)

Turn(job, with, n, from, a, g, i) == IF i = from THEN a ELSE Step(job, with, n, g[i - 1], i)

IsRun(job, with, n, from, a, g, to) ==
  g = [i \in from .. to |-> Turn(job, with, n, from, a, g, i)]

LEMMA RunExists ==
  ASSUME NEW job, NEW with, NEW n, NEW from \in Nat, NEW a, NEW to \in Nat
  PROVE  \E g : IsRun(job, with, n, from, a, g, from + to)
<1> DEFINE Bad == { m \in Nat : ~ \E g : IsRun(job, with, n, from, a, g, from + m) }
<1>1. SUFFICES ASSUME Bad # {} PROVE FALSE
  OBVIOUS
<1>2. PICK m \in Bad : \A k \in Bad : m <= k
  BY <1>1, LeastNat
<1>3. CASE m = 0
  <2> DEFINE g == [i \in from .. from |-> a]
  <2>1. \A i \in from .. from : Turn(job, with, n, from, a, g, i) = a
    BY DEF Turn
  <2>2. g = [i \in from .. from |-> Turn(job, with, n, from, a, g, i)]
    BY <2>1
  <2>3. IsRun(job, with, n, from, a, g, from + m)
    BY <1>3, <2>2 DEF IsRun
  <2> QED BY <2>3
<1>4. CASE m # 0
  <2>1. m - 1 \in Nat /\ m - 1 \notin Bad
    BY <1>2, <1>4
  <2>2. PICK h : IsRun(job, with, n, from, a, h, from + (m - 1))
    BY <2>1
  <2> DEFINE g == [i \in from .. from + m |-> Turn(job, with, n, from, a, h, i)]
             G(i) == Turn(job, with, n, from, a, g, i)
  <2>3. ASSUME NEW i \in from .. from + m
        PROVE  Turn(job, with, n, from, a, h, i) = G(i)
    <3>1. CASE i = from
      BY <3>1 DEF Turn
    <3>2. CASE i # from
      <4>1. i - 1 \in from .. from + (m - 1) /\ i - 1 \in from .. from + m
        BY <1>2, <3>2
      <4>2. h[i - 1] = Turn(job, with, n, from, a, h, i - 1)
        BY <2>2, <4>1 DEF IsRun
      <4>3. g[i - 1] = h[i - 1]
        BY <4>1, <4>2
      <4> HIDE DEF g
      <4> QED BY <4>3 DEF Turn
    <3> QED BY <3>1, <3>2
  <2>4. g = [i \in from .. from + m |-> G(i)]
    <3> HIDE DEF G
    <3> QED BY <2>3
  <2>5. IsRun(job, with, n, from, a, g, from + m)
    BY <2>4 DEF IsRun
  <2> QED BY <2>5
<1> QED BY <1>3, <1>4

(* The functions inside the model's operators are such runs.               *)
StoreTurns(s, v) ==
  LET first == AllocateBuffer(s)
      turn[i \in 1 .. Size(v)] ==
        IF i = 1 THEN first
        ELSE LET t == turn[i - 1]
                 u == AllocateBuffer(t)
             IN  StoreBuffer(u, t.got, v, i - 1, u.got)
  IN  turn

IsStoreTurns(s, v, g) ==
  g = [i \in 1 .. Size(v) |->
         IF i = 1 THEN AllocateBuffer(s)
         ELSE StoreBuffer(AllocateBuffer(g[i - 1]), g[i - 1].got, v, i - 1,
                          AllocateBuffer(g[i - 1]).got)]

LEMMA StoreTurnsAre ==
  ASSUME NEW s, NEW v, Size(v) \in Nat \ {0}
  PROVE  LET g == StoreTurns(s, v)
             last == g[Size(v)]
         IN  /\ g[1] = AllocateBuffer(s)
             /\ \A i \in 2 .. Size(v) : g[i] = StoreStep(v, g[i - 1], i)
             /\ StoredChunk(s, v) = [StoreBuffer(last, last.got, v, Size(v), NullBuffer)
                                  EXCEPT !.got = AllocateBuffer(s).got]
<1> DEFINE g == StoreTurns(s, v)
           n == Size(v)
<1>1. g = CHOOSE h : IsStoreTurns(s, v, h)
  BY DEF StoreTurns, IsStoreTurns
<1>2. StoredChunk(s, v) = [StoreBuffer(g[n], g[n].got, v, n, NullBuffer)
                        EXCEPT !.got = AllocateBuffer(s).got]
  BY DEF StoredChunk, StoreTurns
<1>a. n - 1 \in Nat /\ 1 \in Nat /\ 1 + (n - 1) = n
  OBVIOUS
<1>3. PICK h : IsRun("store", v, 0, 1, AllocateBuffer(s), h, n)
  <2> DEFINE m == n - 1
             a == AllocateBuffer(s)
  <2>1. m \in Nat /\ 1 + m = n
    BY <1>a
  <2> HIDE DEF m, a
  <2>2. \E h : IsRun("store", v, 0, 1, a, h, 1 + m)
    BY <2>1, RunExists
  <2> QED BY <2>1, <2>2 DEF a
<1>4. h = [i \in 1 .. n |-> Turn("store", v, 0, 1, AllocateBuffer(s), h, i)]
  BY <1>3 DEF IsRun
<1>5. \A i : Turn("store", v, 0, 1, AllocateBuffer(s), h, i) =
               IF i = 1 THEN AllocateBuffer(s)
               ELSE StoreBuffer(AllocateBuffer(h[i - 1]), h[i - 1].got, v, i - 1,
                                AllocateBuffer(h[i - 1]).got)
  BY DEF Turn, Step, StoreStep
<1>6. IsStoreTurns(s, v, h)
  BY <1>4, <1>5 DEF IsStoreTurns
<1>7. IsStoreTurns(s, v, g)
  BY <1>1, <1>6
<1> HIDE DEF g
<1>8. \A i \in 1 .. n : g[i] = IF i = 1 THEN AllocateBuffer(s)
                               ELSE StoreBuffer(AllocateBuffer(g[i - 1]), g[i - 1].got, v, i - 1,
                                                AllocateBuffer(g[i - 1]).got)
  BY <1>7 DEF IsStoreTurns
<1>9. g[1] = AllocateBuffer(s)
  BY <1>8
<1>10. \A i \in 2 .. n : g[i] = StoreStep(v, g[i - 1], i)
  BY <1>8 DEF StoreStep
<1> QED BY <1>2, <1>9, <1>10 DEF g

IsPath(f, b, n, g) ==
  g = [i \in 1 .. n |->
         IF i = 1 THEN b
         ELSE IF g[i - 1] \in 0 .. Len(f) - 1 THEN f[g[i - 1] + 1].next ELSE NullBuffer]

LEMMA PathIs ==
  ASSUME NEW f, NEW b, NEW n \in Nat, n # 0
  PROVE  LET g == Path(f, b, n)
         IN  /\ g[1] = b
             /\ \A i \in 2 .. n : g[i] = PathStep(f, g[i - 1])
<1> DEFINE g == Path(f, b, n)
<1>1. g = CHOOSE h : IsPath(f, b, n, h)
  BY DEF Path, IsPath
<1>3. PICK h : IsRun("path", f, 0, 1, b, h, n)
  <2> DEFINE m == n - 1
  <2>1. m \in Nat /\ 1 + m = n
    OBVIOUS
  <2> HIDE DEF m
  <2>2. \E h : IsRun("path", f, 0, 1, b, h, 1 + m)
    BY <2>1, RunExists
  <2> QED BY <2>1, <2>2
<1>4. h = [i \in 1 .. n |-> Turn("path", f, 0, 1, b, h, i)]
  BY <1>3 DEF IsRun
<1>5. \A i : Turn("path", f, 0, 1, b, h, i) =
               IF i = 1 THEN b
               ELSE IF h[i - 1] \in 0 .. Len(f) - 1 THEN f[h[i - 1] + 1].next ELSE NullBuffer
  BY DEF Turn, Step, PathStep
<1>6. IsPath(f, b, n, h)
  BY <1>4, <1>5 DEF IsPath
<1>7. IsPath(f, b, n, g)
  BY <1>1, <1>6
<1> HIDE DEF g
<1>8. \A i \in 1 .. n :
        g[i] = IF i = 1 THEN b
               ELSE IF g[i - 1] \in 0 .. Len(f) - 1 THEN f[g[i - 1] + 1].next ELSE NullBuffer
  BY <1>7 DEF IsPath
<1>9. g[1] = b
  BY <1>8
<1>10. \A i \in 2 .. n : g[i] = PathStep(f, g[i - 1])
  BY <1>8 DEF PathStep
<1> QED BY <1>9, <1>10 DEF g

FreeTurns(s, id) ==
  LET turn[n \in 0 .. Len(s.file) + 1] ==
        IF n = 0 THEN [s EXCEPT !.got = id]
        ELSE FreeBuffer(turn[n - 1], IF n = 1 THEN "HEAD" ELSE "BODY")
  IN  turn

IsFreeTurns(s, a, g) ==
  g = [n \in 0 .. Len(s.file) + 1 |->
         IF n = 0 THEN a
         ELSE FreeBuffer(g[n - 1], IF n = 1 THEN "HEAD" ELSE "BODY")]

LEMMA FreeTurnsAre ==
  ASSUME NEW s, NEW id, Len(s.file) \in Nat
  PROVE  LET g == FreeTurns(s, id)
         IN  /\ g[0] = [s EXCEPT !.got = id]
             /\ \A i \in 1 .. Len(s.file) + 1 : g[i] = FreeStep(g[i - 1], i)
             /\ Released(s, id) = g[Len(s.file) + 1]
<1> DEFINE g == FreeTurns(s, id)
           a == [s EXCEPT !.got = id]
<1>1. g = CHOOSE h : IsFreeTurns(s, a, h)
  BY DEF FreeTurns, IsFreeTurns
<1>2. Released(s, id) = g[Len(s.file) + 1]
  BY DEF Released, FreeTurns
<1>3. PICK h : IsRun("free", 0, 0, 0, a, h, Len(s.file) + 1)
  <2> DEFINE m == Len(s.file) + 1
  <2>1. m \in Nat /\ 0 + m = m
    OBVIOUS
  <2> HIDE DEF m, a
  <2>2. \E h : IsRun("free", 0, 0, 0, a, h, 0 + m)
    BY <2>1, RunExists
  <2> QED BY <2>1, <2>2 DEF m
<1> HIDE DEF a
<1>4. h = [i \in 0 .. Len(s.file) + 1 |-> Turn("free", 0, 0, 0, a, h, i)]
  BY <1>3 DEF IsRun
<1>5. \A i : Turn("free", 0, 0, 0, a, h, i) =
               IF i = 0 THEN a ELSE FreeBuffer(h[i - 1], IF i = 1 THEN "HEAD" ELSE "BODY")
  BY DEF Turn, Step, FreeStep
<1>6. IsFreeTurns(s, a, h)
  BY <1>4, <1>5 DEF IsFreeTurns
<1>7. IsFreeTurns(s, a, g)
  BY <1>1, <1>6
<1> HIDE DEF g
<1>8. \A i \in 0 .. Len(s.file) + 1 :
        g[i] = IF i = 0 THEN a ELSE FreeBuffer(g[i - 1], IF i = 1 THEN "HEAD" ELSE "BODY")
  BY <1>7 DEF IsFreeTurns
<1>9. g[0] = a
  BY <1>8
<1>10. \A i \in 1 .. Len(s.file) + 1 : g[i] = FreeStep(g[i - 1], i)
  BY <1>8 DEF FreeStep
<1> QED BY <1>2, <1>9, <1>10 DEF g, a

ReleaseTurns(s, chunks) ==
  LET after[n \in 0 .. Len(s.file)] ==
        IF n = 0 THEN s
        ELSE LET b == Len(s.file) - n
             IN  IF b \in chunks THEN Released(after[n - 1], b) ELSE after[n - 1]
  IN  after

IsReleaseTurns(s, chunks, g) ==
  g = [n \in 0 .. Len(s.file) |->
         IF n = 0 THEN s
         ELSE IF Len(s.file) - n \in chunks THEN Released(g[n - 1], Len(s.file) - n)
         ELSE g[n - 1]]

LEMMA ReleaseTurnsAre ==
  ASSUME NEW s, NEW chunks, Len(s.file) \in Nat
  PROVE  LET g == ReleaseTurns(s, chunks)
         IN  /\ g[0] = s
             /\ \A i \in 1 .. Len(s.file) :
                  g[i] = ReleaseStep(Len(s.file), chunks, g[i - 1], i)
             /\ ReleaseAll(s, chunks) = g[Len(s.file)]
<1> DEFINE g == ReleaseTurns(s, chunks)
           n == Len(s.file)
<1>1. g = CHOOSE h : IsReleaseTurns(s, chunks, h)
  BY DEF ReleaseTurns, IsReleaseTurns
<1>2. ReleaseAll(s, chunks) = g[Len(s.file)]
  BY DEF ReleaseAll, ReleaseTurns
<1>3. PICK h : IsRun("release", chunks, n, 0, s, h, n)
  <2>1. n \in Nat /\ 0 + n = n
    OBVIOUS
  <2> HIDE DEF n
  <2>2. \E h : IsRun("release", chunks, n, 0, s, h, 0 + n)
    BY <2>1, RunExists
  <2> QED BY <2>1, <2>2
<1>4. h = [i \in 0 .. n |-> Turn("release", chunks, n, 0, s, h, i)]
  BY <1>3 DEF IsRun
<1>5. \A i : Turn("release", chunks, n, 0, s, h, i) =
               IF i = 0 THEN s
               ELSE IF n - i \in chunks THEN Released(h[i - 1], n - i) ELSE h[i - 1]
  BY DEF Turn, Step, ReleaseStep
<1>6. IsReleaseTurns(s, chunks, h)
  BY <1>4, <1>5 DEF IsReleaseTurns
<1>7. IsReleaseTurns(s, chunks, g)
  BY <1>1, <1>6
<1> HIDE DEF g
<1>8. \A i \in 0 .. n :
        g[i] = IF i = 0 THEN s
               ELSE IF n - i \in chunks THEN Released(g[i - 1], n - i) ELSE g[i - 1]
  BY <1>7 DEF IsReleaseTurns
<1>9. g[0] = s
  BY <1>8
<1>10. \A i \in 1 .. n : g[i] = ReleaseStep(n, chunks, g[i - 1], i)
  BY <1>8 DEF ReleaseStep
<1> QED BY <1>2, <1>9, <1>10 DEF g

-----------------------------------------------------------------------------
(* A chunk: the value v in the buffers p of the file, one piece in each.   *)
HoldsValue(f, id, v, p) ==
  /\ p \in [1 .. Size(v) -> Buffers(f)] /\ p[1] = id
  /\ \A k \in 1 .. Size(v) :
       f[p[k] + 1] = Filled(v, k, IF k = Size(v) THEN NullBuffer ELSE p[k + 1])

(* The turns of StoreNewChunk's loop.                                      *)
StoreTurnOK(g, i, v, f, hdr, U, W) ==
  /\ Held(g[i], f, hdr, U, W) /\ PastHeld(g[i], f, hdr, U, W)
  /\ ~ g[i].err => \E c : Storing(g[i], i, v, c, U) /\ c[1] = g[1].got

LEMMA StoreTurnsOK ==
  ASSUME NEW s, NEW f, NEW hdr, NEW U, NEW W, Held(s, f, hdr, U, W),
         PastHeld(s, f, hdr, U, W), ~ s.err, IsFile(f), U \subseteq InUse(f),
         NEW v \in Values, Size(v) \in Nat \ {0}
  PROVE  \A i \in 1 .. Size(v) : StoreTurnOK(StoreTurns(s, v), i, v, f, hdr, U, W)
<1> DEFINE g == StoreTurns(s, v)
           Bad == { i \in Nat : i \in 1 .. Size(v) /\ ~ StoreTurnOK(g, i, v, f, hdr, U, W) }
<1>1. g[1] = AllocateBuffer(s) /\ \A i \in 2 .. Size(v) : g[i] = StoreStep(v, g[i - 1], i)
  BY StoreTurnsAre
<1> HIDE DEF g
<1>2. SUFFICES ASSUME Bad # {} PROVE FALSE
  BY DEF g
<1>3. PICK i \in Bad : \A k \in Bad : i <= k
  BY <1>2, LeastNat
<1>4. i \in 1 .. Size(v) /\ i \in Nat
  BY <1>3
<1>5. CASE i = 1
  <2> DEFINE u == AllocateBuffer(s)
             c == [k \in 1 .. 1 |-> u.got]
  <2>1. /\ Held(u, f, hdr, U, W) /\ PastHeld(u, f, hdr, U, W) /\ u.file = s.file
        /\ ~ u.err =>
             /\ ListAvoids(s.file, u.head, U \cup {u.got})
             /\ Free(s.file, u.got) \/ Handed(s.file, u.got, u.recent)
    <3>1. ListAvoids(s.file, s.head, U)
      BY DEF Held
    <3> QED BY <3>1, AllocateHeld
  <2> HIDE DEF u
  <2>2. ASSUME ~ u.err
        PROVE  Storing(u, 1, v, c, U)
    <3>1. Len(u.file) \in Nat
      BY <2>1 DEF Held, Rec, IsFile
    <3>2. u.got \in 0 .. Len(u.file) + 1
      BY <2>1, <2>2, <3>1 DEF Free, Handed, Buffers
    <3>3. c \in [1 .. 1 -> 0 .. Len(u.file) + 1] /\ c[1] = u.got
      BY <3>2
    <3>4. { c[k] : k \in 1 .. 1 } = {u.got} /\ 1 .. 1 - 1 = {}
      OBVIOUS
    <3> HIDE DEF c
    <3> QED BY <2>1, <2>2, <3>3, <3>4 DEF Storing
  <2>3. c[1] = u.got
    OBVIOUS
  <2> HIDE DEF c
  <2>4. StoreTurnOK(g, 1, v, f, hdr, U, W)
    BY <1>1, <2>1, <2>2, <2>3 DEF StoreTurnOK, u
  <2> QED BY <1>3, <1>5, <2>4
<1>6. CASE i # 1
  <2> DEFINE j == i - 1
  <2>1. j \in 1 .. Size(v) /\ j \in Nat \ {0} /\ j < Size(v) /\ j + 1 = i /\ ~ (i <= j)
    BY <1>4, <1>6
  <2>2. g[i] = StoreStep(v, g[j], i)
    BY <1>1, <1>4, <1>6
  <2>2a. StoreStep(v, g[j], i) = LET u == AllocateBuffer(g[j])
                                     t == StoreBuffer(u, g[j].got, v, j, u.got)
                                 IN  t
    BY DEF StoreStep
  <2> HIDE DEF j
  <2>3. StoreTurnOK(g, j, v, f, hdr, U, W)
    BY <1>3, <2>1
  <2>4. CASE g[j].err
    <3>1. AllocateBuffer(g[j]) = g[j]
      BY <2>4 DEF AllocateBuffer
    <3>2. g[i] = g[j]
      BY <2>2, <2>2a, <2>4, <3>1 DEF StoreBuffer, SetBuffer
    <3>3. StoreTurnOK(g, i, v, f, hdr, U, W)
      BY <2>3, <2>4, <3>2 DEF StoreTurnOK
    <3> QED BY <1>3, <3>3
  <2>5. CASE ~ g[j].err
    <3>1. PICK c : Storing(g[j], j, v, c, U) /\ c[1] = g[1].got
      BY <2>3, <2>5 DEF StoreTurnOK
    <3>2. Held(g[j], f, hdr, U, W) /\ PastHeld(g[j], f, hdr, U, W)
      BY <2>3 DEF StoreTurnOK
    <3>3. /\ Held(g[i], f, hdr, U, W) /\ PastHeld(g[i], f, hdr, U, W)
          /\ ~ g[i].err => \E d : Storing(g[i], j + 1, v, d, U) /\ d[1] = c[1]
      <4> DEFINE x == g[j]
      <4>1. Held(x, f, hdr, U, W) /\ PastHeld(x, f, hdr, U, W) /\ ~ x.err
            /\ Storing(x, j, v, c, U) /\ Size(v) \in Nat
        BY <2>5, <3>1, <3>2
      <4>2. g[i] = LET u == AllocateBuffer(x)
                       t == StoreBuffer(u, x.got, v, j, u.got)
                   IN  t
        BY <2>2, <2>2a
      <4> HIDE DEF x
      <4>3. LET u == AllocateBuffer(x)
                t == StoreBuffer(u, x.got, v, j, u.got)
            IN  /\ Held(t, f, hdr, U, W) /\ PastHeld(t, f, hdr, U, W)
                /\ ~ t.err => \E d : Storing(t, j + 1, v, d, U) /\ d[1] = c[1]
        BY <2>1, <4>1, StoreTurn
      <4> QED BY <4>2, <4>3
    <3>4. StoreTurnOK(g, i, v, f, hdr, U, W)
      BY <2>1, <3>1, <3>3 DEF StoreTurnOK
    <3> QED BY <1>3, <3>4
  <2> QED BY <2>4, <2>5
<1> QED BY <1>5, <1>6

(* What StoreNewChunk leaves, done or raised.                              *)
LEMMA StoreHeld ==
  ASSUME NEW s, NEW f, NEW hdr, NEW U, NEW W, Held(s, f, hdr, U, W),
         PastHeld(s, f, hdr, U, W), ~ s.err, s.file = f, U \subseteq InUse(f),
         NEW v \in Values, Size(v) \in Nat \ {0}
  PROVE  LET t == StoredChunk(s, v)
         IN  /\ Held(t, f, hdr, U, W) /\ PastHeld(t, f, hdr, U, W)
             /\ ~ t.err => \E p : /\ HoldsValue(t.file, t.got, v, p) /\ Range(p) \cap U = {}
                                  /\ ListAvoids(t.file, t.head, U \cup Range(p))
<1> DEFINE g == StoreTurns(s, v)
           n == Size(v)
           x == g[n]
           y == StoreBuffer(x, x.got, v, n, NullBuffer)
           t == StoredChunk(s, v)
<1>0. IsFile(f) /\ Len(f) \in Nat
  BY DEF Held, Rec, IsFile
<1>1. t = [y EXCEPT !.got = g[1].got]
  BY StoreTurnsAre
<1>2. StoreTurnOK(g, n, v, f, hdr, U, W) /\ StoreTurnOK(g, 1, v, f, hdr, U, W)
  BY <1>0, StoreTurnsOK
<1>3. y = SetBuffer(x, x.got, Filled(v, n, NullBuffer))
  BY DEF StoreBuffer, Filled, Kind
<1>a. g[1].file = f
  <2>1. g[1] = AllocateBuffer(s)
    BY StoreTurnsAre
  <2>2. ListAvoids(s.file, s.head, U)
    BY DEF Held
  <2> QED BY <2>1, <2>2, AllocateHeld
<1>b. g[1].got \in -1 .. Len(f) + 1
  BY <1>2, <1>a DEF StoreTurnOK, Held, Rec
<1> HIDE DEF g, t
<1>c. Held(x, f, hdr, U, W) /\ PastHeld(x, f, hdr, U, W)
  BY <1>2 DEF StoreTurnOK
<1>d. ~ x.err => \E c : Storing(x, n, v, c, U) /\ c[1] = g[1].got
  BY <1>2 DEF StoreTurnOK
<1> HIDE DEF x, y
<1>4. /\ Held(y, f, hdr, U, W) /\ PastHeld(y, f, hdr, U, W)
      /\ ~ y.err => \E p : /\ HoldsValue(y.file, g[1].got, v, p) /\ Range(p) \cap U = {}
                           /\ ListAvoids(y.file, y.head, U \cup Range(p))
  <2>1. CASE x.err
    <3>1. y = x
      BY <1>3, <2>1 DEF SetBuffer
    <3> QED BY <1>c, <2>1, <3>1
  <2>2. CASE ~ x.err
    <3> DEFINE b == x.got
               buf == Filled(v, n, NullBuffer)
               h == Put(x.file, b, buf)
    <3>1. PICK c : Storing(x, n, v, c, U) /\ c[1] = g[1].got
      BY <1>d, <2>2
    <3>2. buf \in AnyBuffer /\ buf.type # "FREE" /\ buf.next = -1
      <4>1. <<v, n>> \in Piece
        BY DEF Piece
      <4> QED BY <4>1 DEF Filled, Kind, AnyBuffer, NullBuffer
    <3> HIDE DEF buf
    <3>3. Writable(x, b)
      BY <3>1 DEF Storing, Writable, Handed
    <3>4. x.file \in Seq(AnyBuffer) /\ Len(x.file) \in Nat
      BY <1>c DEF Held, Rec, IsFile
    <3>5. buf.next \in -1 .. Len(x.file) + 1
      BY <3>2, <3>4
    <3>5a. y = SetBuffer(x, b, buf)
      BY <1>3 DEF buf
    <3> HIDE DEF b
    <3>6. /\ Held(y, f, hdr, U, W) /\ PastHeld(y, f, hdr, U, W)
          /\ ~ y.err => /\ b \in 0 .. Len(x.file) /\ y.file = h /\ y.head = x.head
      BY <1>0, <1>c, <2>2, <3>2, <3>3, <3>5, <3>5a, WriteHeld
    <3>7. ASSUME ~ y.err
          PROVE  /\ HoldsValue(h, g[1].got, v, c) /\ Range(c) \cap U = {}
                 /\ ListAvoids(h, x.head, U \cup Range(c))
      <4>1. b \in 0 .. Len(x.file)
        BY <3>6, <3>7
      <4>2. /\ h \in Seq(AnyBuffer)
            /\ Len(h) \in Nat
            /\ Len(h) = IF b = Len(x.file) THEN Len(x.file) + 1 ELSE Len(x.file)
            /\ b \in Buffers(h)
            /\ h[b + 1] = buf
            /\ \A z \in Buffers(x.file) : /\ z \in Buffers(h)
                                          /\ z # b => h[z + 1] = x.file[z + 1]
            /\ \A z \in Buffers(h) : z # b => z \in Buffers(x.file)
        BY <3>2, <3>4, <4>1, PutIs
      <4>3. ListAvoids(h, x.head, U \cup { c[k] : k \in 1 .. n })
        <5>1. ListAvoids(x.file, x.head, U \cup { c[k] : k \in 1 .. n })
          BY <3>1 DEF Storing
        <5> QED BY <3>2, <3>4, <4>1, <5>1, ListWritten
      <4> HIDE DEF h
      <4>4. c \in [1 .. n -> 0 .. Len(x.file) + 1] /\ c[n] = b
        BY <3>1 DEF Storing, b
      <4>5. \A k \in 1 .. n - 1 : /\ c[k] \in Buffers(x.file) \ U
                                  /\ x.file[c[k] + 1] = Filled(v, k, c[k + 1])
        BY <3>1 DEF Storing
      <4>6. Free(x.file, b) \/ Handed(x.file, b, x.recent)
        BY <3>1 DEF Storing, b
      <4>7. b \notin U
        BY <1>0, <1>c, <3>3, StillUsed
      <4>8. \A k \in 1 .. n - 1 : c[k] # b
        <5> SUFFICES ASSUME NEW k \in 1 .. n - 1
                     PROVE  Used(x.file, c[k])
          BY <3>4, <4>6 DEF Used, Free, Handed, Buffers
        <5>1. c[k] \in Buffers(x.file) /\ x.file[c[k] + 1] = Filled(v, k, c[k + 1])
          BY <4>5
        <5>2. Filled(v, k, c[k + 1]).type # "FREE"
          BY DEF Filled, Kind
        <5> QED BY <5>1, <5>2 DEF Used
      <4>9. ASSUME NEW k \in 1 .. n
            PROVE  /\ c[k] \in Buffers(h) \ U
                   /\ h[c[k] + 1] = Filled(v, k, IF k = n THEN NullBuffer ELSE c[k + 1])
        <5>1. CASE k = n
          BY <4>2, <4>4, <4>7, <5>1 DEF buf
        <5>2. CASE k # n
          <6>1. k \in 1 .. n - 1
            BY <5>2
          <6> QED BY <4>2, <4>5, <4>8, <5>2, <6>1
        <5> QED BY <5>1, <5>2
      <4>10. c \in [1 .. n -> Buffers(h)] /\ Range(c) = { c[k] : k \in 1 .. n }
        BY <4>4, <4>9 DEF Range
      <4>11. Range(c) \cap U = {}
        BY <4>9, <4>10
      <4> QED BY <3>1, <4>3, <4>9, <4>10, <4>11 DEF HoldsValue
    <3> QED BY <3>6, <3>7
  <2> QED BY <2>1, <2>2
<1>5. PICK P : y \in Fields(P)
  BY <1>4 DEF Held, Rec
<1>6. /\ t \in Fields(P) /\ t.file = y.file /\ t.head = y.head /\ t.recent = y.recent
      /\ t.dirty = y.dirty /\ t.got = g[1].got /\ t.past = y.past /\ t.err = y.err
  <2>1. g[1].got \in Int
    BY <1>0, <1>b
  <2> QED BY <1>1, <1>5, <2>1 DEF Fields
<1>7. t.got \in -1 .. Len(t.file) + 1
  <2>1. Len(f) <= Len(t.file) /\ Len(t.file) \in Nat
    BY <1>4, <1>6 DEF Held, Rec, IsFile
  <2> QED BY <1>0, <1>b, <1>6, <2>1
<1>8. Rec(t)
  BY <1>4, <1>6, <1>7 DEF Held, Rec
<1>9. Held(t, f, hdr, U, W) /\ PastHeld(t, f, hdr, U, W)
  BY <1>4, <1>6, <1>8 DEF Held, PastHeld
<1> QED BY <1>4, <1>6, <1>9 DEF t

-----------------------------------------------------------------------------
(* ReleaseBuffers.  V holds the buffers that may be freed: a list through  *)
(* next pointers from one of them that is in use does not leave V, and the *)
(* free list leads to none of them yet.  The file does not grow.           *)
Freeable(s, f, U, V) ==
  /\ Short(s, f)
  /\ ListAvoids(s.file, s.head, U \cup (V \cap InUse(s.file)))
  /\ \A x \in V : Used(s.file, x) /\ Used(s.file, After(s.file, x)) => After(s.file, x) \in V

Next1(s, V) == Used(s.file, s.got) => s.got \in V

LEMMA FreeOneHeld ==
  ASSUME NEW s, NEW f, NEW hdr, NEW U, NEW W, Held(s, f, hdr, U, W),
         PastHeld(s, f, hdr, U, W), IsFile(f), U \subseteq InUse(f), W \subseteq U,
         NEW V, U \cap V = {}, Freeable(s, f, U, V), Next1(s, V),
         NEW type \in {"HEAD", "BODY"}
  PROVE  LET t == FreeBuffer(s, type)
         IN  /\ Held(t, f, hdr, U, W) /\ PastHeld(t, f, hdr, U, W)
             /\ Freeable(t, f, U, V) /\ Next1(t, V)
<1> DEFINE t == FreeBuffer(s, type)
           x == s.got
<1>0. Rec(s) /\ s.file \in Seq(AnyBuffer) /\ Len(s.file) \in Nat
  BY DEF Held, Rec, IsFile
<1>1. CASE t = s
  BY <1>1
<1>2. CASE t = Raise(s)
  <2>1. Held(t, f, hdr, U, W) /\ PastHeld(t, f, hdr, U, W)
    BY <1>2, RaiseHeld
  <2>2. t.file = s.file /\ t.head = s.head /\ t.got = s.got /\ t.past = s.past
    BY <1>0, <1>2, RaiseIs
  <2>3. Freeable(t, f, U, V) /\ Next1(t, V)
    BY <2>2 DEF Freeable, Next1, Short
  <2> QED BY <2>1, <2>3
<1>3. CASE t # s /\ t # Raise(s)
  <2> DEFINE X == U \cup (V \cap InUse(s.file))
             buf == [s.file[x + 1] EXCEPT !.type = "FREE", !.next = s.head]
             g == Put(s.file, x, buf)
             y == SetBuffer(s, x, buf)
             z == [y EXCEPT !.head = x, !.dirty = TRUE]
  <2>1. /\ ~ s.err /\ x \in Buffers(s.file) /\ s.file[x + 1].type = type
        /\ t = [DeallocateBuffer(s, x) EXCEPT !.got = After(s.file, x)]
    BY <1>3 DEF FreeBuffer, Has, At, Buffers, After
  <2>2. DeallocateBuffer(s, x) = z
    BY <2>1 DEF DeallocateBuffer, At
  <2>3. Used(s.file, x) /\ x \in V /\ x \in X /\ x \in 0 .. Len(s.file)
    BY <1>0, <2>1 DEF Next1, Used, InUse, Buffers
  <2>4. buf \in AnyBuffer /\ buf.type = "FREE" /\ buf.next = s.head
    <3>1. s.file[x + 1] \in AnyBuffer
      BY <1>0, <2>1 DEF Buffers
    <3>2. s.head \in Int
      BY <1>0 DEF Rec
    <3> QED BY <3>1, <3>2 DEF AnyBuffer
  <2>5. buf.next \in -1 .. Len(s.file) + 1
    BY <1>0, <2>4 DEF Rec
  <2> HIDE DEF buf
  <2>6. Rec(y) /\ ~ y.err /\ y.file = g /\ y.past = Append(s.past, s)
    BY <1>0, <2>1, <2>3, <2>4, <2>5, SetBufferIs
  <2> HIDE DEF y
  <2>7. PICK P : y \in Fields(P)
    BY <2>6 DEF Rec
  <2>8. After(s.file, x) \in -1 .. Len(s.file) + 1
    BY <1>0, <2>1 DEF Rec, IsFile
  <2>9. After(s.file, x) \in Int /\ x \in Int
    BY <1>0, <2>3, <2>8
  <2>9a. /\ z \in Fields(P) /\ z.file = g /\ z.head = x /\ z.dirty
         /\ z.past = y.past /\ z.recent = y.recent
    BY <2>6, <2>7, <2>9 DEF Fields
  <2> HIDE DEF z, t
  <2>10. /\ t \in Fields(P) /\ t.file = g /\ t.head = x /\ t.dirty
         /\ t.got = After(s.file, x) /\ t.past = y.past /\ t.recent = y.recent
    BY <2>1, <2>2, <2>9, <2>9a DEF Fields
  <2>11. PastHeld(t, f, hdr, U, W) /\ (Short(s, f) /\ Len(t.file) = Len(f) => Short(t, f))
    BY <2>6, <2>10, PastGrows
  <2>12. /\ g \in Seq(AnyBuffer)
         /\ Len(g) \in Nat
         /\ Len(g) = IF x = Len(s.file) THEN Len(s.file) + 1 ELSE Len(s.file)
         /\ x \in Buffers(g)
         /\ g[x + 1] = buf
         /\ \A c \in Buffers(s.file) : /\ c \in Buffers(g)
                                       /\ c # x => g[c + 1] = s.file[c + 1]
         /\ \A c \in Buffers(g) : c # x => c \in Buffers(s.file)
    BY <1>0, <2>3, <2>4, PutIs
  <2>13. Len(g) = Len(s.file)
    BY <1>0, <2>1, <2>12 DEF Buffers
  <2>14. \A c : c # x => /\ Free(g, c) <=> Free(s.file, c)
                         /\ Used(g, c) <=> Used(s.file, c)
                         /\ c \in Buffers(s.file) => After(g, c) = After(s.file, c)
    BY <1>0, <2>3, <2>4, PutKeeps
  <2>15. ~ Used(g, x)
    BY <2>4, <2>12 DEF Used
  <2>16. ListAvoids(s.file, s.head, X)
    BY DEF Freeable
  <2>17. ListAvoids(g, x, X \ {x})
    BY <1>0, <2>1, <2>3, <2>4, <2>16, ListPushed
  <2>18. ListAvoids(g, hdr, W)
    <3>1. W \subseteq X \ {x}
      BY <2>3
    <3>2. ListAvoids(s.file, hdr, W)
      BY DEF Held
    <3> HIDE DEF X, g, x
    <3>3. ListAvoids(Put(s.file, x, buf), hdr, W)
      BY <1>0, <2>1, <2>3, <2>4, <2>16, <3>1, <3>2, ListJoined
    <3> QED BY <3>3 DEF g
  <2> HIDE DEF g
  <2>19. Rec(t)
    <3>1. IsFile(g)
      BY <2>6 DEF Rec
    <3>2. y.recent \in -1 .. Len(g) + 1
      BY <2>6 DEF Rec
    <3>3. x \in -1 .. Len(g) + 1 /\ After(s.file, x) \in -1 .. Len(g) + 1
      BY <1>0, <2>3, <2>8, <2>13
    <3> QED BY <2>10, <3>1, <3>2, <3>3 DEF Rec
  <2>20. U \cup (V \cap InUse(g)) = X \ {x}
    <3>1. InUse(g) = InUse(s.file) \ {x}
      <4>1. \A c : c \in InUse(g) <=> Used(g, c)
        BY DEF InUse, Used
      <4>2. \A c : c \in InUse(s.file) <=> Used(s.file, c)
        BY DEF InUse, Used
      <4> QED BY <2>14, <2>15, <4>1, <4>2
    <3> QED BY <2>3, <3>1
  <2> HIDE DEF X
  <2>21. \A b \in U : g[b + 1] = f[b + 1]
    <3>1. \A b \in U : b \in Buffers(s.file) /\ b # x
      BY <2>3, StillUsed DEF Used
    <3> QED BY <2>12, <3>1 DEF Held
  <2>22. ListAvoids(g, x, U)
    <3>1. U \subseteq U \cup (V \cap InUse(g))
      OBVIOUS
    <3> QED BY <2>17, <2>20, <3>1, AvoidsLess
  <2>23. Held(t, f, hdr, U, W)
    BY <2>10, <2>13, <2>18, <2>19, <2>21, <2>22 DEF Held
  <2>24. ASSUME NEW c \in V, Used(g, c), Used(g, After(g, c))
         PROVE  After(g, c) \in V
    <3>1. c # x /\ After(g, c) # x
      BY <2>15, <2>24
    <3>2. Used(s.file, c) /\ After(g, c) = After(s.file, c)
      BY <2>14, <2>24, <3>1 DEF Used
    <3>3. Used(s.file, After(s.file, c))
      BY <2>14, <2>24, <3>1, <3>2
    <3> QED BY <3>2, <3>3 DEF Freeable
  <2>28. Short(t, f)
    BY <2>10, <2>11, <2>13 DEF Freeable, Short
  <2>25. Freeable(t, f, U, V)
    BY <2>10, <2>17, <2>20, <2>24, <2>28 DEF Freeable
  <2>26. ASSUME Used(g, After(s.file, x))
         PROVE  After(s.file, x) \in V
    <3>1. After(s.file, x) # x
      BY <2>15, <2>26
    <3>2. Used(s.file, After(s.file, x))
      BY <2>14, <2>26, <3>1
    <3> QED BY <2>3, <3>2 DEF Freeable
  <2>27. Next1(t, V)
    BY <2>10, <2>26 DEF Next1
  <2> QED BY <2>11, <2>23, <2>25, <2>27 DEF t
<1> QED BY <1>1, <1>2, <1>3

LEMMA ReleasedHeld ==
  ASSUME NEW s, NEW f, NEW hdr, NEW U, NEW W, Held(s, f, hdr, U, W),
         PastHeld(s, f, hdr, U, W), IsFile(f), U \subseteq InUse(f), W \subseteq U,
         NEW V, U \cap V = {}, Freeable(s, f, U, V),
         NEW id \in 0 .. Len(s.file), Used(s.file, id) => id \in V
  PROVE  LET t == Released(s, id)
         IN  Held(t, f, hdr, U, W) /\ PastHeld(t, f, hdr, U, W) /\ Freeable(t, f, U, V)
<1> DEFINE g == FreeTurns(s, id)
           n == Len(s.file)
           a == [s EXCEPT !.got = id]
           OK(t) == /\ Held(t, f, hdr, U, W) /\ PastHeld(t, f, hdr, U, W)
                    /\ Freeable(t, f, U, V) /\ Next1(t, V)
           Bad == { i \in Nat : i \in 0 .. n + 1 /\ ~ OK(g[i]) }
<1>0. Rec(s) /\ n \in Nat
  BY DEF Held, Rec, IsFile
<1>1. /\ g[0] = a /\ \A i \in 1 .. n + 1 : g[i] = FreeStep(g[i - 1], i)
      /\ Released(s, id) = g[n + 1]
  BY <1>0, FreeTurnsAre
<1>2. OK(a)
  <2>1. PICK P : s \in Fields(P)
    BY <1>0 DEF Rec
  <2>2. id \in Int /\ id \in -1 .. n + 1
    BY <1>0
  <2>3. /\ a \in Fields(P) /\ a.file = s.file /\ a.head = s.head /\ a.recent = s.recent
        /\ a.dirty = s.dirty /\ a.got = id /\ a.past = s.past /\ a.err = s.err
    BY <2>1, <2>2 DEF Fields
  <2> HIDE DEF a
  <2>4. Rec(a)
    BY <1>0, <2>2, <2>3 DEF Rec
  <2>5. Held(a, f, hdr, U, W) /\ PastHeld(a, f, hdr, U, W)
    BY <2>3, <2>4 DEF Held, PastHeld
  <2>6. Freeable(a, f, U, V) /\ Next1(a, V)
    BY <2>3 DEF Freeable, Next1, Short
  <2> QED BY <2>5, <2>6
<1> HIDE DEF g, a, OK
<1>3. ASSUME NEW i \in 1 .. n + 1, OK(g[i - 1])
      PROVE  OK(g[i])
  <2> DEFINE x == g[i - 1]
             type == IF i = 1 THEN "HEAD" ELSE "BODY"
  <2>1. g[i] = FreeBuffer(x, type)
    BY <1>1 DEF FreeStep
  <2>2. type \in {"HEAD", "BODY"}
    OBVIOUS
  <2>3. Held(x, f, hdr, U, W) /\ PastHeld(x, f, hdr, U, W) /\ Freeable(x, f, U, V) /\ Next1(x, V)
    BY <1>3 DEF OK
  <2> HIDE DEF x, type
  <2>4. LET t == FreeBuffer(x, type)
        IN  /\ Held(t, f, hdr, U, W) /\ PastHeld(t, f, hdr, U, W)
            /\ Freeable(t, f, U, V) /\ Next1(t, V)
    BY <2>2, <2>3, FreeOneHeld
  <2> QED BY <2>1, <2>4 DEF OK
<1>4. ASSUME Bad # {}
      PROVE  FALSE
  <2>1. PICK i \in Bad : \A k \in Bad : i <= k
    BY <1>4, LeastNat
  <2>2. i # 0
    BY <1>1, <1>2, <2>1
  <2>3. i \in 1 .. n + 1 /\ i - 1 \in Nat /\ i - 1 \in 0 .. n + 1 /\ ~ (i <= i - 1)
    BY <1>0, <2>1, <2>2
  <2>4. OK(g[i - 1])
    BY <2>1, <2>3
  <2> QED BY <1>3, <2>1, <2>3, <2>4
<1>5. OK(g[n + 1])
  <2>1. n + 1 \in Nat /\ n + 1 \in 0 .. n + 1
    BY <1>0
  <2> QED BY <1>4, <2>1
<1> QED BY <1>1, <1>5 DEF OK

LEMMA ReleaseAllHeld ==
  ASSUME NEW s, NEW f, NEW hdr, NEW U, NEW W, Held(s, f, hdr, U, W),
         PastHeld(s, f, hdr, U, W), s.file = f, U \subseteq InUse(f), W \subseteq U,
         Freeable(s, f, U, Int \ U), NEW chunks, chunks \cap U = {}
  PROVE  Held(ReleaseAll(s, chunks), f, hdr, U, W) /\ Short(ReleaseAll(s, chunks), f)
<1> DEFINE g == ReleaseTurns(s, chunks)
           n == Len(s.file)
           OK(t) == /\ Held(t, f, hdr, U, W) /\ PastHeld(t, f, hdr, U, W)
                    /\ Freeable(t, f, U, Int \ U)
           Bad == { i \in Nat : i \in 0 .. n /\ ~ OK(g[i]) }
<1>0. Rec(s) /\ n \in Nat /\ IsFile(f) /\ Len(f) = n
  BY DEF Held, Rec, IsFile
<1>1. /\ g[0] = s /\ \A i \in 1 .. n : g[i] = ReleaseStep(n, chunks, g[i - 1], i)
      /\ ReleaseAll(s, chunks) = g[n]
  BY <1>0, ReleaseTurnsAre
<1>2. OK(s)
  OBVIOUS
<1> HIDE DEF g, OK
<1>3. ASSUME NEW i \in 1 .. n, OK(g[i - 1])
      PROVE  OK(g[i])
  <2> DEFINE x == g[i - 1]
             b == n - i
  <2>1. g[i] = IF b \in chunks THEN Released(x, b) ELSE x
    BY <1>1 DEF ReleaseStep
  <2>2. Held(x, f, hdr, U, W) /\ PastHeld(x, f, hdr, U, W) /\ Freeable(x, f, U, Int \ U)
    BY <1>3 DEF OK
  <2>3. b \in 0 .. Len(x.file) /\ b \in Int
    <3>1. Len(f) <= Len(x.file) /\ Len(x.file) \in Nat
      BY <2>2 DEF Held, Rec, IsFile
    <3> QED BY <1>0, <3>1
  <2> HIDE DEF x, b
  <2>4. CASE b \in chunks
    <3>1. b \in Int \ U /\ U \cap (Int \ U) = {}
      BY <2>3, <2>4
    <3>2. LET t == Released(x, b)
          IN  Held(t, f, hdr, U, W) /\ PastHeld(t, f, hdr, U, W) /\ Freeable(t, f, U, Int \ U)
      BY <1>0, <2>2, <2>3, <3>1, ReleasedHeld
    <3> QED BY <2>1, <2>4, <3>2 DEF OK
  <2>5. CASE b \notin chunks
    BY <1>3, <2>1, <2>5 DEF x
  <2> QED BY <2>4, <2>5
<1>4. ASSUME Bad # {}
      PROVE  FALSE
  <2>1. PICK i \in Bad : \A k \in Bad : i <= k
    BY <1>4, LeastNat
  <2>2. i # 0
    BY <1>1, <1>2, <2>1
  <2>3. i \in 1 .. n /\ i - 1 \in Nat /\ i - 1 \in 0 .. n /\ ~ (i <= i - 1)
    BY <1>0, <2>1, <2>2
  <2>4. OK(g[i - 1])
    BY <2>1, <2>3
  <2> QED BY <1>3, <2>1, <2>3, <2>4
<1>5. OK(g[n])
  <2>1. n \in Nat /\ n \in 0 .. n
    BY <1>0
  <2> QED BY <1>4, <2>1
<1> QED BY <1>1, <1>5 DEF OK, Freeable

-----------------------------------------------------------------------------
(* What checkStructure has found out when it raises nothing.               *)
Starts(f, b) == {b} \cup Heads(f)

LEMMA ChainIs ==
  ASSUME NEW f, IsFile(f), NEW h
  PROVE  /\ Len(f) \in Nat /\ Chain(f, h)[1] = h
         /\ \A i \in 1 .. Len(f) : /\ i \in Steps(f) /\ i + 1 \in Steps(f) \ {1}
                                   /\ Chain(f, h)[i + 1] = PathStep(f, Chain(f, h)[i])
<1>1. Len(f) \in Nat
  BY DEF IsFile
<1> DEFINE n == Len(f) + 1
           c == Path(f, h, n)
<1>2. n \in Nat /\ n # 0
  BY <1>1
<1>3. c[1] = h /\ \A i \in 2 .. n : c[i] = PathStep(f, c[i - 1])
  <2> HIDE DEF n
  <2> QED BY <1>2, PathIs
<1>4. Chain(f, h) = c
  BY DEF Chain
<1> HIDE DEF c
<1>5. ASSUME NEW i \in 1 .. Len(f)
      PROVE  i \in Steps(f) /\ i + 1 \in Steps(f) \ {1} /\ c[i + 1] = PathStep(f, c[i])
  <2>1. i + 1 \in 2 .. n /\ (i + 1) - 1 = i /\ i \in 1 .. n
    BY <1>1
  <2>2. c[i + 1] = PathStep(f, c[(i + 1) - 1])
    BY <1>3, <2>1
  <2> QED BY <2>1, <2>2 DEF Steps
<1> QED BY <1>1, <1>3, <1>4, <1>5

LEMMA VisitedOnce ==
  ASSUME NEW f, NEW b, OnceEach(f, b), NEW h \in Starts(f, b), NEW k \in Starts(f, b),
         NEW i \in Steps(f), NEW j \in Steps(f), Chain(f, h)[i] \in Buffers(f),
         Chain(f, h)[i] = Chain(f, k)[j]
  PROVE  h = k /\ i = j
<1> DEFINE x == Chain(f, h)[i]
<1>1. <<h, i>> \in Visits(f, b, x) /\ <<k, j>> \in Visits(f, b, x)
  BY DEF Visits, Starts
<1>2. PICK at : Visits(f, b, x) = {at}
  BY DEF OnceEach, Buffers
<1>3. <<h, i>> = <<k, j>>
  BY <1>1, <1>2
<1> QED BY <1>3

(* A list does not come back on itself, so it ends in the file's length.   *)
LEMMA ChainEnds ==
  ASSUME NEW f, IsFile(f), NEW b, OnceEach(f, b), NEW h \in Starts(f, b)
  PROVE  Chain(f, h)[Len(f) + 1] \notin Buffers(f)
<1> DEFINE n == Len(f)
           c == Chain(f, h)
           Bad == { m \in Nat : m \in 0 .. n /\ c[n + 1 - m] \notin Buffers(f) }
<1>0. n \in Nat
  BY DEF IsFile
<1> SUFFICES ASSUME c[n + 1] \in Buffers(f)
             PROVE  FALSE
  OBVIOUS
<1>1. \A i \in 1 .. n : c[i + 1] = PathStep(f, c[i])
  BY ChainIs
<1>2. \A i, j \in 1 .. n + 1 : c[i] \in Buffers(f) /\ c[i] = c[j] => i = j
  BY VisitedOnce DEF Steps
<1> HIDE DEF c
<1>3. ASSUME Bad # {}
      PROVE  FALSE
  <2>1. PICK m \in Bad : \A k \in Bad : m <= k
    BY <1>3, LeastNat
  <2>2. m # 0
    BY <1>0, <2>1
  <2>3. m - 1 \in Nat /\ m - 1 \in 0 .. n /\ n + 1 - m \in 1 .. n /\ ~ (m <= m - 1)
        /\ (n + 1 - m) + 1 = n + 1 - (m - 1)
    BY <1>0, <2>1, <2>2
  <2>4. c[n + 1 - (m - 1)] \in Buffers(f)
    BY <2>1, <2>3
  <2>5. c[n + 1 - (m - 1)] = PathStep(f, c[n + 1 - m])
    BY <1>1, <2>3
  <2>6. c[n + 1 - m] \notin Buffers(f)
    BY <2>1
  <2>7. PathStep(f, c[n + 1 - m]) = -1
    BY <2>6 DEF PathStep, Buffers, NullBuffer
  <2>8. -1 \notin Buffers(f)
    BY <1>0 DEF Buffers
  <2> QED BY <2>4, <2>5, <2>7, <2>8
<1>4. \A i \in 1 .. n + 1 : c[i] \in Buffers(f)
  <2> SUFFICES ASSUME NEW i \in 1 .. n + 1
               PROVE  c[i] \in Buffers(f)
    OBVIOUS
  <2>1. n + 1 - i \in Nat /\ n + 1 - i \in 0 .. n /\ n + 1 - (n + 1 - i) = i
    BY <1>0
  <2>2. n + 1 - i \notin Bad
    BY <1>3
  <2> QED BY <2>1, <2>2
<1> DEFINE S == 1 .. n + 1
           d == [i \in S |-> c[i]]
<1>5. IsFiniteSet(S) /\ Cardinality(S) = n + 1
  BY <1>0, FS_Interval
<1>6. IsFiniteSet(Buffers(f)) /\ Cardinality(Buffers(f)) = n
  <2>1. IsFiniteSet(0 .. n - 1) /\ Cardinality(0 .. n - 1) = n
    <3>1. n - 1 \in Int /\ 0 \in Int
      BY <1>0
    <3>2. /\ IsFiniteSet(0 .. n - 1)
          /\ Cardinality(0 .. n - 1) = IF 0 > n - 1 THEN 0 ELSE (n - 1) - 0 + 1
      BY <3>1, FS_Interval
    <3> QED BY <1>0, <3>2
  <2> QED BY <2>1 DEF Buffers
<1>7. d \in [S -> Buffers(f)]
  BY <1>4
<1>8. n < n + 1
  BY <1>0
<1> HIDE DEF S, n, d
<1>9. PICK i, j \in S : i # j /\ d[i] = d[j]
  BY <1>5, <1>6, <1>7, <1>8, FS_PigeonHole
<1>10. d[i] = c[i] /\ d[j] = c[j]
  BY DEF d
<1> QED BY <1>2, <1>4, <1>9, <1>10 DEF S

LEMMA ChainGoesOn ==
  ASSUME NEW f, IsFile(f), NEW b, OnceEach(f, b), NEW h \in Starts(f, b), NEW i \in Steps(f),
         Chain(f, h)[i] \in Buffers(f)
  PROVE  /\ i \in 1 .. Len(f) /\ i + 1 \in Steps(f) \ {1}
         /\ Chain(f, h)[i + 1] = After(f, Chain(f, h)[i])
<1>1. Len(f) \in Nat /\ i # Len(f) + 1
  BY ChainEnds DEF IsFile
<1>2. i \in 1 .. Len(f)
  BY <1>1 DEF Steps
<1>3. i + 1 \in Steps(f) \ {1} /\ Chain(f, h)[i + 1] = PathStep(f, Chain(f, h)[i])
  BY <1>2, ChainIs
<1>4. PathStep(f, Chain(f, h)[i]) = After(f, Chain(f, h)[i])
  BY DEF PathStep, After, Buffers
<1> QED BY <1>2, <1>3, <1>4

(* A sound free list leads to no buffer in use.                            *)
LEMMA SoundListAvoids ==
  ASSUME NEW f, IsFile(f), NEW b, Sound(f, b)
  PROVE  ListAvoids(f, b, InUse(f))
<1> DEFINE n == Len(f)
           c == Chain(f, b)
           S == Along(f, b) \cup {NullBuffer}
           At1(x) == CHOOSE i \in Steps(f) : c[i] = x
           rk == [x \in S |-> IF x = NullBuffer THEN 0 ELSE n + 2 - At1(x)]
<1>0. n \in Nat /\ NullBuffer \notin Buffers(f)
  BY DEF IsFile, Buffers, NullBuffer
<1>1. \A x \in Along(f, b) : Free(f, x) /\ x # NullBuffer /\ x \in Buffers(f)
  BY DEF Sound, GoodFreeList, Along, Free, Buffers
<1>2. OnceEach(f, b) /\ b \in Starts(f, b)
  BY DEF Sound, Starts
<1>3. \A x \in Along(f, b) : \E i \in Steps(f) : c[i] = x
  BY DEF Along
<1>4. \A x \in Along(f, b) : At1(x) \in Steps(f) /\ c[At1(x)] = x
  BY <1>3
<1>5. \A i \in Steps(f) : c[i] = NullBuffer \/ c[i] \in Along(f, b)
  BY DEF Along
<1>6. \A x \in Along(f, b) : \A i \in Steps(f) : c[i] = x => i = At1(x)
  BY <1>1, <1>2, <1>4, VisitedOnce
<1>7. ASSUME NEW x \in Along(f, b)
      PROVE  /\ At1(x) \in 1 .. n /\ After(f, x) \in S
             /\ After(f, x) # NullBuffer => At1(After(f, x)) = At1(x) + 1
  <2>1. At1(x) \in 1 .. n /\ At1(x) + 1 \in Steps(f) \ {1} /\ c[At1(x) + 1] = After(f, x)
    BY <1>1, <1>2, <1>4, ChainGoesOn
  <2> HIDE DEF c, At1
  <2> QED BY <1>5, <1>6, <2>1
<1>8. b \in S
  <2>1. c[1] = b
    BY ChainIs
  <2>2. 1 \in Steps(f)
    BY <1>0 DEF Steps
  <2> QED BY <1>5, <2>1, <2>2
<1> HIDE DEF At1, c
<1>9. rk \in [S -> 0 .. n + 2]
  <2>1. \A x \in S : (IF x = NullBuffer THEN 0 ELSE n + 2 - At1(x)) \in 0 .. n + 2
    BY <1>0, <1>7
  <2> QED BY <2>1
<1>10. ASSUME NEW x \in S, Free(f, x)
       PROVE  After(f, x) \in S /\ rk[After(f, x)] < rk[x]
  <2>1. x \in Along(f, b) /\ x # NullBuffer
    BY <1>0, <1>10 DEF Free
  <2>2. At1(x) \in 1 .. n /\ After(f, x) \in S
    BY <1>7, <2>1
  <2>3. rk[x] = n + 2 - At1(x)
    BY <2>1
  <2>4. CASE After(f, x) = NullBuffer
    BY <1>0, <2>2, <2>3, <2>4
  <2>5. CASE After(f, x) # NullBuffer
    <3>1. At1(After(f, x)) = At1(x) + 1
      BY <1>7, <2>1, <2>5
    <3>2. rk[After(f, x)] = n + 2 - At1(After(f, x))
      BY <2>2, <2>5
    <3> QED BY <1>0, <2>2, <2>3, <3>1, <3>2
  <2> QED BY <2>4, <2>5
<1>11. n + 2 \in Nat
  BY <1>0
<1>12. S \cap InUse(f) = {}
  BY <1>0, <1>1 DEF InUse, Used, Free
<1> HIDE DEF S, rk
<1>13. Ranked(f, b, S, rk, n + 2)
  BY <1>8, <1>9, <1>10, <1>11 DEF Ranked
<1> QED BY <1>12, <1>13 DEF ListAvoids

(* No two buffers in use are followed by the same one, and what follows is *)
(* no head.                                                                *)
LEMMA SoundVisit ==
  ASSUME NEW f, IsFile(f), NEW b, Sound(f, b), NEW x, Used(f, x)
  PROVE  \E h \in Heads(f), i \in Steps(f) :
           /\ Chain(f, h)[i] = x /\ i + 1 \in Steps(f) \ {1}
           /\ Chain(f, h)[i + 1] = After(f, x)
<1>1. x \in Buffers(f) /\ OnceEach(f, b)
  BY DEF Used, Sound
<1>2. PICK at : Visits(f, b, x) = {at}
  BY <1>1 DEF OnceEach, Buffers
<1>3. PICK h \in Starts(f, b), i \in Steps(f) : Chain(f, h)[i] = x
  <2>1. at \in Starts(f, b) \X Steps(f) /\ Chain(f, at[1])[at[2]] = x
    BY <1>2 DEF Visits, Starts
  <2> QED BY <2>1
<1>4. h # b
  <2> SUFFICES ASSUME h = b
               PROVE  FALSE
    OBVIOUS
  <2>1. x # NullBuffer
    BY <1>1 DEF IsFile, Buffers, NullBuffer
  <2>2. x \in Along(f, b)
    BY <1>3, <2>1 DEF Along
  <2>3. Free(f, x)
    BY <2>2 DEF Sound, GoodFreeList, Free, Buffers
  <2> QED BY <2>3 DEF Free, Used
<1>5. h \in Heads(f)
  BY <1>4 DEF Starts
<1>6. i + 1 \in Steps(f) \ {1} /\ Chain(f, h)[i + 1] = After(f, x)
  BY <1>1, <1>3, ChainGoesOn
<1> QED BY <1>3, <1>5, <1>6

LEMMA SoundFollows ==
  ASSUME NEW f, IsFile(f), NEW b, Sound(f, b), NEW x, Used(f, x),
         After(f, x) \in Buffers(f)
  PROVE  /\ f[After(f, x) + 1].type = "BODY"
         /\ \A z : Used(f, z) /\ After(f, z) = After(f, x) => z = x
<1> DEFINE y == After(f, x)
<1>1. PICK h \in Heads(f), i \in Steps(f) :
        Chain(f, h)[i] = x /\ i + 1 \in Steps(f) \ {1} /\ Chain(f, h)[i + 1] = y
  BY SoundVisit
<1>2. y # NullBuffer
  BY DEF IsFile, Buffers, NullBuffer
<1>3. f[y + 1].type = "BODY"
  BY <1>1, <1>2 DEF Sound, GoodChunk
<1>4. ASSUME NEW z, Used(f, z), After(f, z) = y
      PROVE  z = x
  <2>1. PICK k \in Heads(f), j \in Steps(f) :
          Chain(f, k)[j] = z /\ j + 1 \in Steps(f) \ {1} /\ Chain(f, k)[j + 1] = y
    BY <1>4, SoundVisit
  <2>2. h = k /\ i + 1 = j + 1
    BY <1>1, <2>1, VisitedOnce DEF Sound, Starts
  <2>3. i = j
    BY <2>2, <1>1, <2>1 DEF IsFile, Steps
  <2> QED BY <1>1, <2>1, <2>2, <2>3
<1> QED BY <1>3, <1>4

-----------------------------------------------------------------------------
(* The chunks L of a file, which P says the buffers of.                    *)
Chunks(f, L, P) ==
  /\ \A id \in L : \E v \in Values : HoldsValue(f, id, v, P[id])
  /\ \A x, y \in L : x # y => Range(P[x]) \cap Range(P[y]) = {}

Using(L, P) == UNION { Range(P[id]) : id \in L }

LEMMA HoldsIs ==
  ASSUME NEW f, NEW id, NEW v, NEW p, HoldsValue(f, id, v, p), Size(v) \in Nat \ {0}
  PROVE  /\ Range(p) = { p[k] : k \in 1 .. Size(v) } /\ id \in Range(p)
         /\ \A k \in 1 .. Size(v) : Used(f, p[k])
         /\ f[id + 1].type = "HEAD" /\ id \in Buffers(f)
         /\ \A k \in 1 .. Size(v) : f[p[k] + 1].type = "HEAD" => p[k] = id
         /\ \A k \in 1 .. Size(v) - 1 : After(f, p[k]) = p[k + 1]
         /\ After(f, p[Size(v)]) = NullBuffer
<1>1. p \in [1 .. Size(v) -> Buffers(f)] /\ p[1] = id
  BY DEF HoldsValue
<1>2. \A k \in 1 .. Size(v) :
        f[p[k] + 1] = Filled(v, k, IF k = Size(v) THEN NullBuffer ELSE p[k + 1])
  BY DEF HoldsValue
<1>3. ASSUME NEW k \in 1 .. Size(v)
      PROVE  /\ f[p[k] + 1].type = Kind(k)
             /\ f[p[k] + 1].next = IF k = Size(v) THEN NullBuffer ELSE p[k + 1]
  <2> DEFINE next == IF k = Size(v) THEN NullBuffer ELSE p[k + 1]
  <2>1. f[p[k] + 1] = Filled(v, k, next)
    BY <1>2
  <2> HIDE DEF next
  <2>2. Filled(v, k, next).type = Kind(k) /\ Filled(v, k, next).next = next
    BY DEF Filled
  <2> QED BY <2>1, <2>2 DEF next
<1>4. 1 \in 1 .. Size(v) /\ Size(v) \in 1 .. Size(v)
  OBVIOUS
<1>5. Range(p) = { p[k] : k \in 1 .. Size(v) } /\ id \in Range(p)
  BY <1>1, <1>4 DEF Range
<1>6. \A k \in 1 .. Size(v) : Used(f, p[k])
  BY <1>1, <1>3 DEF Used, Kind
<1>7. f[id + 1].type = "HEAD" /\ id \in Buffers(f)
  BY <1>1, <1>3, <1>4 DEF Kind
<1>8. \A k \in 1 .. Size(v) : f[p[k] + 1].type = "HEAD" => p[k] = id
  BY <1>1, <1>3 DEF Kind
<1>9. ASSUME NEW k \in 1 .. Size(v) - 1
      PROVE  After(f, p[k]) = p[k + 1]
  <2>1. k \in 1 .. Size(v) /\ k # Size(v)
    OBVIOUS
  <2> QED BY <1>3, <2>1 DEF After
<1>10. After(f, p[Size(v)]) = NullBuffer
  BY <1>3, <1>4 DEF After
<1> QED BY <1>5, <1>6, <1>7, <1>8, <1>9, <1>10

LEMMA ChunksAre ==
  ASSUME NEW f, NEW L, NEW P, Chunks(f, L, P)
  PROVE  /\ Using(L, P) \subseteq InUse(f)
         /\ L \subseteq Using(L, P) /\ L \subseteq Heads(f)
         /\ \A y \in Using(L, P) : f[y + 1].type = "HEAD" => y \in L
         /\ \A y \in Using(L, P) : y \in L \/ \E z \in Using(L, P) : After(f, z) = y
<1>1. ASSUME NEW id \in L
      PROVE  /\ \A y \in Range(P[id]) : Used(f, y) /\ (f[y + 1].type = "HEAD" => y = id)
             /\ id \in Range(P[id]) /\ id \in Heads(f)
             /\ \A y \in Range(P[id]) : y = id \/ \E z \in Range(P[id]) : After(f, z) = y
  <2> DEFINE p == P[id]
  <2>1. PICK v \in Values : HoldsValue(f, id, v, p)
    BY DEF Chunks
  <2>2. Size(v) \in Nat \ {0}
    BY LinkedAssumption
  <2> HIDE DEF p
  <2>3. /\ Range(p) = { p[k] : k \in 1 .. Size(v) } /\ id \in Range(p)
        /\ \A k \in 1 .. Size(v) : Used(f, p[k])
        /\ f[id + 1].type = "HEAD" /\ id \in Buffers(f)
        /\ \A k \in 1 .. Size(v) : f[p[k] + 1].type = "HEAD" => p[k] = id
        /\ \A k \in 1 .. Size(v) - 1 : After(f, p[k]) = p[k + 1]
    BY <2>1, <2>2, HoldsIs
  <2>4. \A y \in Range(p) : Used(f, y) /\ (f[y + 1].type = "HEAD" => y = id)
    BY <2>3
  <2>5. id \in Heads(f)
    BY <2>3 DEF Heads, Buffers
  <2>6. ASSUME NEW y \in Range(p), y # id
        PROVE  \E z \in Range(p) : After(f, z) = y
    <3>1. PICK k \in 1 .. Size(v) : y = p[k]
      BY <2>3
    <3>2. p[1] = id
      BY <2>1 DEF HoldsValue
    <3>3. k - 1 \in 1 .. Size(v) - 1 /\ k - 1 \in 1 .. Size(v) /\ (k - 1) + 1 = k
      BY <2>2, <2>6, <3>1, <3>2
    <3>4. After(f, p[k - 1]) = y
      BY <2>3, <3>1, <3>3
    <3>5. p[k - 1] \in Range(p)
      BY <2>3, <3>3
    <3> QED BY <3>4, <3>5
  <2> QED BY <2>3, <2>4, <2>5, <2>6 DEF p
<1>2. \A y : y \in Using(L, P) <=> \E id \in L : y \in Range(P[id])
  BY DEF Using
<1>3. \A y : y \in InUse(f) <=> Used(f, y)
  BY DEF InUse, Used
<1>4. Using(L, P) \subseteq InUse(f)
  BY <1>1, <1>2, <1>3
<1>5. L \subseteq Using(L, P) /\ L \subseteq Heads(f)
  BY <1>1, <1>2
<1>6. \A y \in Using(L, P) : f[y + 1].type = "HEAD" => y \in L
  BY <1>1, <1>2
<1>7. ASSUME NEW y \in Using(L, P), y \notin L
      PROVE  \E z \in Using(L, P) : After(f, z) = y
  <2>1. PICK id \in L : y \in Range(P[id])
    BY <1>2
  <2>2. PICK z \in Range(P[id]) : After(f, z) = y
    BY <1>1, <1>7, <2>1
  <2>3. z \in Using(L, P)
    BY <1>2, <2>2
  <2> QED BY <2>2, <2>3
<1> QED BY <1>4, <1>5, <1>6, <1>7

LEMMA ChunksKept ==
  ASSUME NEW f, NEW g, Len(f) \in Nat, Len(g) \in Nat, Len(f) <= Len(g),
         NEW L, NEW M, M \subseteq L, NEW P, Chunks(f, L, P),
         \A b \in Using(M, P) : g[b + 1] = f[b + 1]
  PROVE  Chunks(g, M, P)
<1>1. ASSUME NEW id \in M
      PROVE  \E v \in Values : HoldsValue(g, id, v, P[id])
  <2> DEFINE p == P[id]
  <2>1. PICK v \in Values : HoldsValue(f, id, v, p)
    BY DEF Chunks
  <2>2. p \in [1 .. Size(v) -> Buffers(f)] /\ p[1] = id
    BY <2>1 DEF HoldsValue
  <2>3. \A b \in Range(p) : b \in Using(M, P)
    BY DEF Using
  <2> HIDE DEF p
  <2>4. Buffers(f) \subseteq Buffers(g)
    BY DEF Buffers
  <2>5. \A k \in 1 .. Size(v) : p[k] \in Range(p)
    BY <2>2 DEF Range
  <2>6. \A k \in 1 .. Size(v) : g[p[k] + 1] = f[p[k] + 1]
    BY <2>3, <2>5
  <2>7. p \in [1 .. Size(v) -> Buffers(g)]
    BY <2>2, <2>4
  <2>8. HoldsValue(g, id, v, p)
    BY <2>1, <2>2, <2>6, <2>7 DEF HoldsValue
  <2> QED BY <2>8 DEF p
<1>2. \A x, y \in M : x # y => Range(P[x]) \cap Range(P[y]) = {}
  BY DEF Chunks
<1> QED BY <1>1, <1>2 DEF Chunks

(* Recover touches no chunk that somebody knows.                           *)
LEMMA RecoverHeld ==
  ASSUME NEW s, NEW f, NEW hdr, NEW L, NEW P, NEW W, Chunks(f, L, P),
         Held(s, f, hdr, Using(L, P), W), PastHeld(s, f, hdr, Using(L, P), W), s.file = f,
         s.past = <<>>, W \subseteq Using(L, P)
  PROVE  Held(Recovered(s, L), f, hdr, Using(L, P), W) /\ Len(Recovered(s, L).file) = Len(f)
<1> DEFINE U == Using(L, P)
<1>0. IsFile(f)
  BY DEF Held, Rec
<1>1. /\ U \subseteq InUse(f)
      /\ L \subseteq Using(L, P) /\ L \subseteq Heads(f)
      /\ \A y \in U : f[y + 1].type = "HEAD" => y \in L
      /\ \A y \in U : y \in L \/ \E z \in U : After(f, z) = y
  BY ChunksAre
<1> HIDE DEF U
<1>2. CASE ~ Sound(f, s.head) \/ ~ L \subseteq Heads(f)
  <2>1. Recovered(s, L) = Raise(s)
    BY <1>2 DEF Recovered
  <2>2. Raise(s).file = s.file
    BY RaiseIs DEF Held
  <2> QED BY <2>1, <2>2, RaiseHeld
<1>3. CASE Sound(f, s.head) /\ L \subseteq Heads(f)
  <2>1. Recovered(s, L) = ReleaseAll(s, Heads(f) \ L)
    BY <1>3 DEF Recovered
  <2>2. (Heads(f) \ L) \cap U = {}
    BY <1>1 DEF Heads
  <2>3. ListAvoids(f, s.head, U \cup ((Int \ U) \cap InUse(f)))
    <3>1. U \cup ((Int \ U) \cap InUse(f)) \subseteq InUse(f)
      BY <1>1
    <3>2. ListAvoids(f, s.head, InUse(f))
      BY <1>0, <1>3, SoundListAvoids
    <3> QED BY <3>1, <3>2, AvoidsLess
  <2>4. ASSUME NEW x \in Int \ U, Used(f, x), Used(f, After(f, x))
        PROVE  After(f, x) \in Int \ U
    <3> DEFINE y == After(f, x)
    <3>1. y \in Buffers(f)
      BY <2>4 DEF Used
    <3>2. f[y + 1].type = "BODY" /\ \A z : Used(f, z) /\ After(f, z) = y => z = x
      BY <1>0, <1>3, <2>4, <3>1, SoundFollows
    <3> HIDE DEF y
    <3>3. ASSUME y \in U
          PROVE  FALSE
      <4>1. y \notin L
        BY <1>1, <3>2 DEF Heads
      <4>2. PICK z \in U : After(f, z) = y
        BY <1>1, <3>3, <4>1
      <4>3. Used(f, z)
        BY <1>1, <4>2 DEF InUse
      <4> QED BY <2>4, <3>2, <4>2, <4>3
    <3>4. y \in Int
      BY <1>0, <3>1 DEF Buffers, IsFile
    <3> QED BY <3>3, <3>4 DEF y
  <2>5. Freeable(s, f, U, Int \ U)
    BY <2>3, <2>4 DEF Freeable, Short
  <2>6. Held(ReleaseAll(s, Heads(f) \ L), f, hdr, U, W) /\ Short(ReleaseAll(s, Heads(f) \ L), f)
    BY <1>1, <2>2, <2>5, ReleaseAllHeld DEF U
  <2> QED BY <2>1, <2>6 DEF U, Short
<1> QED BY <1>2, <1>3

-----------------------------------------------------------------------------
(* The inductive invariant: the buffers of the chunks somebody knows are   *)
(* as they were written and in one of them each; the free list in memory   *)
(* leads to none of them, and the one in the header to none of those that  *)
(* a Flush has covered.                                                    *)
Owned(f, h, hdr, L, K, P) ==
  /\ Chunks(f, L, P)
  /\ ListAvoids(f, h, Using(L, P))
  /\ ListAvoids(f, hdr, Using(K, P))

Fits(f, hdr, h, r) ==
  /\ IsFile(f) /\ Len(f) <= MaxBuffers
  /\ hdr \in -1 .. Len(f) + 1 /\ h \in -1 .. Len(f) + 1 /\ r \in -1 .. Len(f) + 1

Flags ==
  /\ {open, dirty, strayed, failed, raised} \subseteq BOOLEAN
  /\ faults \in 0 .. MaxFaults
  /\ kept \subseteq live
  /\ ~ open => live = kept
  /\ open /\ ~ dirty => head = header

IInv ==
  /\ Fits(file, header, head, recent)
  /\ Flags
  /\ \E P : Owned(file, head, header, live, kept, P)

LEMMA UsingLess ==
  ASSUME NEW L, NEW M, L \subseteq M, NEW P
  PROVE  Using(L, P) \subseteq Using(M, P)
BY DEF Using

LEMMA NowHeld ==
  ASSUME IInv, open, NEW P, Owned(file, head, header, live, kept, P),
         NEW L, L \subseteq live, NEW K, K \subseteq kept
  PROVE  /\ Held(Now, file, header, Using(L, P), Using(K, P))
         /\ PastHeld(Now, file, header, Using(L, P), Using(K, P))
         /\ ~ Now.err /\ Now.file = file /\ Now.head = head
<1>1. IsFile(file) /\ Len(file) \in Nat
  BY DEF IInv, Fits, IsFile
<1>2. /\ Now.file = file /\ Now.head = head /\ Now.recent = recent /\ Now.dirty = dirty
      /\ Now.got = -1 /\ Now.err = FALSE /\ Now.past = <<>>
  BY DEF Now, NullBuffer
<1>3. Now \in Fields({})
  <2>1. file \in Seq(AnyBuffer) /\ head \in Int /\ recent \in Int /\ dirty \in BOOLEAN
    BY <1>1 DEF IInv, Fits, Flags, IsFile
  <2>2. <<>> \in Seq({})
    OBVIOUS
  <2> QED BY <2>1, <2>2 DEF Now, Fields, NullBuffer
<1>4. Rec(Now)
  <2>1. head \in -1 .. Len(file) + 1 /\ recent \in -1 .. Len(file) + 1
    BY DEF IInv, Fits
  <2>2. -1 \in -1 .. Len(file) + 1
    BY <1>1
  <2> HIDE DEF Now
  <2> QED BY <1>1, <1>2, <1>3, <2>1, <2>2 DEF Rec
<1>5. ListAvoids(file, head, Using(L, P)) /\ ListAvoids(file, header, Using(K, P))
  BY UsingLess, AvoidsLess DEF Owned
<1>6. ~ dirty => head = header
  BY DEF IInv, Flags
<1>7. Held(Now, file, header, Using(L, P), Using(K, P))
  BY <1>1, <1>2, <1>4, <1>5, <1>6 DEF Held
<1>8. PastHeld(Now, file, header, Using(L, P), Using(K, P))
  BY <1>2 DEF PastHeld
<1> QED BY <1>2, <1>7, <1>8

(* A chunk reads as the value it holds.                                    *)
LEMMA ReadsBack ==
  ASSUME NEW f, Len(f) \in Nat, NEW id, NEW v, NEW p, HoldsValue(f, id, v, p),
         Size(v) \in Nat \ {0}
  PROVE  GetChunk(f, id) = Pieces(v)
<1> DEFINE n == Size(v)
           g == Path(f, id, n)
           Bad == { i \in Nat : i \in 1 .. n /\ g[i] # p[i] }
<1>1. g[1] = id /\ \A i \in 2 .. n : g[i] = PathStep(f, g[i - 1])
  BY PathIs
<1>2. /\ \A k \in 1 .. n - 1 : After(f, p[k]) = p[k + 1]
      /\ f[id + 1].type = "HEAD" /\ id \in Buffers(f)
  BY HoldsIs
<1>3. p \in [1 .. n -> Buffers(f)] /\ p[1] = id
  BY DEF HoldsValue
<1>4. \A k \in 1 .. n : f[p[k] + 1].data = <<v, k>>
  <2> SUFFICES ASSUME NEW k \in 1 .. n
               PROVE  f[p[k] + 1].data = <<v, k>>
    OBVIOUS
  <2>1. f[p[k] + 1] = Filled(v, k, IF k = n THEN NullBuffer ELSE p[k + 1])
    BY DEF HoldsValue
  <2> QED BY <2>1 DEF Filled
<1> HIDE DEF g
<1>5. ASSUME Bad # {}
      PROVE  FALSE
  <2>1. PICK m \in Bad : \A k \in Bad : m <= k
    BY <1>5, LeastNat
  <2>2. m # 1
    BY <1>1, <1>3, <2>1
  <2>3. m \in 2 .. n /\ m - 1 \in 1 .. n - 1 /\ m - 1 \in Nat /\ m - 1 \in 1 .. n
        /\ ~ (m <= m - 1) /\ (m - 1) + 1 = m
    BY <2>1, <2>2
  <2>4. g[m - 1] = p[m - 1]
    BY <2>1, <2>3
  <2>5. g[m] = PathStep(f, p[m - 1])
    BY <1>1, <2>3, <2>4
  <2>6. PathStep(f, p[m - 1]) = After(f, p[m - 1])
    BY <1>3, <2>3 DEF PathStep, After, Buffers
  <2>7. After(f, p[m - 1]) = p[m]
    BY <1>2, <2>3
  <2> QED BY <2>1, <2>5, <2>6, <2>7
<1>6. \A i \in 1 .. n : g[i] = p[i]
  BY <1>5
<1>7. \A i \in 1 .. n : g[i] \in 0 .. Len(f) - 1 /\ f[g[i] + 1].data = <<v, i>>
  BY <1>3, <1>4, <1>6 DEF Buffers
<1>8. f[id + 1].data[1] = v
  <2>1. f[id + 1].data = <<v, 1>>
    BY <1>3, <1>4
  <2> QED BY <2>1
<1>9. GetChunk(f, id) = [i \in 1 .. n |-> f[g[i] + 1].data]
  BY <1>2, <1>7, <1>8 DEF GetChunk, Buffers, g
<1>10. [i \in 1 .. n |-> f[g[i] + 1].data] = [i \in 1 .. n |-> <<v, i>>]
  BY <1>7
<1> QED BY <1>9, <1>10 DEF Pieces

(* The buffers met from a chunk's number are those of the chunk.           *)
LEMMA AlongIs ==
  ASSUME NEW f, IsFile(f), NEW id, NEW v, NEW p, HoldsValue(f, id, v, p),
         Size(v) \in Nat \ {0}
  PROVE  Along(f, id) \subseteq Range(p)
<1> DEFINE n == Len(f) + 1
           c == Chain(f, id)
           Met == Range(p) \cup {NullBuffer}
           Bad == { i \in Nat : i \in 1 .. n /\ c[i] \notin Met }
<1>0. Len(f) \in Nat
  BY DEF IsFile
<1>1. c[1] = id /\ \A i \in 2 .. n : c[i] = PathStep(f, c[i - 1])
  BY <1>0, PathIs DEF Chain
<1>2. /\ Range(p) = { p[k] : k \in 1 .. Size(v) } /\ id \in Range(p)
      /\ \A k \in 1 .. Size(v) : Used(f, p[k])
      /\ \A k \in 1 .. Size(v) - 1 : After(f, p[k]) = p[k + 1]
      /\ After(f, p[Size(v)]) = NullBuffer
  BY HoldsIs
<1> HIDE DEF c
<1>3. ASSUME NEW x \in Met
      PROVE  PathStep(f, x) \in Met
  <2>1. CASE x = NullBuffer
    <3>1. PathStep(f, x) = NullBuffer
      BY <1>0, <2>1 DEF PathStep, NullBuffer
    <3> QED BY <3>1
  <2>2. CASE x \in Range(p)
    <3>1. PICK k \in 1 .. Size(v) : x = p[k]
      BY <1>2, <2>2
    <3>2. PathStep(f, x) = After(f, x)
      BY <1>2, <3>1 DEF PathStep, After, Used, Buffers
    <3>3. k = Size(v) \/ (k \in 1 .. Size(v) - 1 /\ k + 1 \in 1 .. Size(v))
      OBVIOUS
    <3>4. CASE k = Size(v)
      BY <1>2, <3>1, <3>2, <3>4
    <3>5. CASE k \in 1 .. Size(v) - 1 /\ k + 1 \in 1 .. Size(v)
      <4>1. After(f, p[k]) = p[k + 1]
        BY <1>2, <3>5
      <4>2. p[k + 1] \in Range(p)
        BY <1>2, <3>5
      <4> QED BY <3>1, <3>2, <4>1, <4>2
    <3> QED BY <3>3, <3>4, <3>5
  <2> QED BY <2>1, <2>2
<1>4. ASSUME Bad # {}
      PROVE  FALSE
  <2>1. PICK m \in Bad : \A k \in Bad : m <= k
    BY <1>4, LeastNat
  <2>2. m # 1
    BY <1>1, <1>2, <2>1
  <2>3. m \in 2 .. n /\ m - 1 \in Nat /\ m - 1 \in 1 .. n /\ ~ (m <= m - 1)
    BY <1>0, <2>1, <2>2
  <2>4. c[m - 1] \in Met
    BY <2>1, <2>3
  <2>5. c[m] = PathStep(f, c[m - 1])
    BY <1>1, <2>3
  <2> QED BY <1>3, <2>1, <2>4, <2>5
<1>5. \A i \in 1 .. n : c[i] \in Met
  BY <1>4
<1> QED BY <1>5 DEF Along, Steps, c

(* A call that keeps the buffers of the chunks L keeps what they read.     *)
Same(f, g, L) == \A id \in L : GetChunk(g, id) = GetChunk(f, id)

LEMMA ReadsSame ==
  ASSUME NEW f, NEW g, Len(f) \in Nat, Len(g) \in Nat, Len(f) <= Len(g),
         NEW L, NEW M, M \subseteq L, NEW P, Chunks(f, L, P),
         \A b \in Using(M, P) : g[b + 1] = f[b + 1]
  PROVE  Same(f, g, M)
<1> SUFFICES ASSUME NEW id \in M
             PROVE  GetChunk(g, id) = GetChunk(f, id)
  BY DEF Same
<1> DEFINE p == P[id]
<1>1. PICK v \in Values : HoldsValue(f, id, v, p)
  BY DEF Chunks
<1>2. p \in [1 .. Size(v) -> Buffers(f)] /\ p[1] = id
  BY <1>1 DEF HoldsValue
<1>3. \A b \in Range(p) : b \in Using(M, P)
  BY DEF Using
<1>4. Size(v) \in Nat \ {0}
  BY LinkedAssumption
<1> HIDE DEF p
<1>5. Buffers(f) \subseteq Buffers(g)
  BY DEF Buffers
<1>6. \A k \in 1 .. Size(v) : p[k] \in Range(p)
  BY <1>2 DEF Range
<1>7. \A k \in 1 .. Size(v) : g[p[k] + 1] = f[p[k] + 1]
  BY <1>3, <1>6
<1>8. p \in [1 .. Size(v) -> Buffers(g)]
  BY <1>2, <1>5
<1>9. HoldsValue(g, id, v, p)
  BY <1>1, <1>2, <1>7, <1>8 DEF HoldsValue
<1>10. GetChunk(f, id) = Pieces(v)
  BY <1>1, <1>4, ReadsBack
<1>11. GetChunk(g, id) = Pieces(v)
  BY <1>4, <1>9, ReadsBack
<1> QED BY <1>10, <1>11

(* A call that found the file f, with the chunks M, and made of it t, kept *)
(* the chunks L, of which a crash must leave K.                            *)
Call(f, hdr, M, L, K, P, t) ==
  /\ IsFile(f) /\ hdr \in -1 .. Len(f) + 1 /\ Chunks(f, M, P)
  /\ L \subseteq M /\ K \subseteq L
  /\ Held(t, f, hdr, Using(L, P), Using(K, P))

(* What it leaves in the file and in memory.                               *)
Left(f, hdr, L, K, P, t) ==
  /\ Same(f, t.file, L)
  /\ Owned(t.file, t.head, hdr, L, K, P)
  /\ Owned(t.file, NullBuffer, hdr, K, K, P)
  /\ Len(t.file) <= MaxBuffers => /\ Fits(t.file, hdr, t.head, t.recent)
                                  /\ Fits(t.file, hdr, NullBuffer, NullBuffer)
  /\ t.dirty \in BOOLEAN /\ t.err \in BOOLEAN
  /\ ~ t.dirty => t.head = hdr

LEMMA LeftOwned ==
  ASSUME NEW f, NEW hdr, NEW M, NEW L, NEW K, NEW P, NEW t,
         Call(f, hdr, M, L, K, P, t)
  PROVE  Left(f, hdr, L, K, P, t)
<1> USE DEF Call
<1>1. Len(f) \in Nat /\ Len(t.file) \in Nat /\ Len(f) <= Len(t.file) /\ IsFile(t.file)
  BY DEF Held, Rec, IsFile
<1>2. Chunks(t.file, L, P)
  BY <1>1, ChunksKept DEF Held
<1>3. Chunks(t.file, K, P)
  BY <1>2 DEF Chunks
<1>8. Same(f, t.file, L)
  BY <1>1, ReadsSame DEF Held
<1>4. ListAvoids(t.file, NullBuffer, Using(K, P))
  <2>1. NullBuffer \notin Buffers(t.file)
    BY <1>1 DEF Buffers, NullBuffer
  <2>2. Using(K, P) \subseteq InUse(t.file)
    BY <1>3, ChunksAre
  <2>3. NullBuffer \notin Using(K, P) /\ ~ Free(t.file, NullBuffer)
    BY <2>1, <2>2 DEF InUse, Free
  <2> QED BY <2>3, ListStops
<1>5. /\ hdr \in -1 .. Len(t.file) + 1 /\ NullBuffer \in -1 .. Len(t.file) + 1
  BY <1>1 DEF NullBuffer
<1>6. t.head \in -1 .. Len(t.file) + 1 /\ t.recent \in -1 .. Len(t.file) + 1
  BY DEF Held, Rec
<1>7. t.dirty \in BOOLEAN /\ t.err \in BOOLEAN
  BY DEF Held, Rec, Fields
<1> QED BY <1>1, <1>2, <1>3, <1>4, <1>5, <1>6, <1>7, <1>8 DEF Owned, Fits, Held, Left

-----------------------------------------------------------------------------
(* Every call, done, failed or cut off, keeps the invariant.               *)
LEMMA InitIInv == LinkedInit => IInv
<1> SUFFICES ASSUME LinkedInit PROVE IInv
  OBVIOUS
<1>1. /\ file = <<>> /\ header = -1 /\ head = -1 /\ recent = -1 /\ live = {} /\ kept = {}
      /\ open = TRUE /\ dirty = FALSE /\ faults = 0
      /\ strayed = FALSE /\ failed = FALSE /\ raised = FALSE
  BY DEF LinkedInit, NullBuffer
<1>5. 0 \in 0 .. MaxFaults
  BY LinkedAssumption
<1>6. Flags
  BY <1>1, <1>5 DEF Flags
<1>2. Len(file) = 0 /\ file \in Seq(AnyBuffer)
  BY <1>1
<1>3. Fits(file, header, head, recent)
  BY <1>1, <1>2, LinkedAssumption DEF Fits, IsFile, Buffers
<1>4. Owned(file, head, header, live, kept, <<>>)
  <2>1. Using({}, <<>>) = {} /\ Chunks(file, {}, <<>>)
    BY DEF Using, Chunks
  <2>2. ~ Free(file, -1)
    BY <1>2 DEF Free, Buffers
  <2>3. ListAvoids(file, -1, {})
    BY <2>2, ListStops
  <2> QED BY <1>1, <2>1, <2>3 DEF Owned
<1> QED BY <1>3, <1>4, <1>6 DEF IInv

LEMMA StoreStepInv ==
  ASSUME IInv, NEW v \in Values, StoreNewChunk(v)
  PROVE  /\ IInv' /\ Same(file, file', live) /\ kept' = kept
         /\ live' = live \/ \E id \in (0 .. MaxBuffers - 1) \ live :
                              live' = live \cup {id} /\ GetChunk(file', id) = Pieces(v)
<1>1. PICK P : Owned(file, head, header, live, kept, P)
  BY DEF IInv
<1> DEFINE t == StoredChunk(Now, v)
           U == Using(live, P)
           W == Using(kept, P)
<1>2. /\ open /\ Len(t.file) <= MaxBuffers
      /\ file' = t.file /\ head' = t.head /\ recent' = t.recent /\ dirty' = t.dirty
      /\ raised' = t.err
      /\ live' = (IF t.err THEN live ELSE live \cup {t.got})
      /\ header' = header /\ open' = open /\ kept' = kept /\ faults' = faults
      /\ strayed' = strayed /\ failed' = failed
  BY DEF StoreNewChunk, Takes
<1>3. /\ Held(Now, file, header, U, W) /\ PastHeld(Now, file, header, U, W)
      /\ ~ Now.err /\ Now.file = file
  BY <1>1, <1>2, NowHeld
<1>4. Chunks(file, live, P) /\ U \subseteq InUse(file) /\ live \subseteq U
  BY <1>1, ChunksAre DEF Owned
<1>5. Size(v) \in Nat \ {0}
  BY LinkedAssumption
<1>6. /\ Held(t, file, header, U, W)
      /\ ~ t.err => \E p : /\ HoldsValue(t.file, t.got, v, p) /\ Range(p) \cap U = {}
                           /\ ListAvoids(t.file, t.head, U \cup Range(p))
  BY <1>3, <1>4, <1>5, StoreHeld
<1>7. IsFile(file) /\ header \in -1 .. Len(file) + 1 /\ kept \subseteq live
  BY DEF IInv, Fits, Flags
<1> HIDE DEF t
<1>14. Held(t, file, header, Using(live, P), Using(kept, P))
  BY <1>6
<1>15. Call(file, header, live, live, kept, P, t)
  BY <1>4, <1>7, <1>14 DEF Call
<1> HIDE DEF U, W
<1>16. Left(file, header, live, kept, P, t)
  BY ONLY <1>15, LeftOwned
<1>8. /\ Same(file, t.file, live)
      /\ Owned(t.file, t.head, header, live, kept, P)
      /\ Fits(t.file, header, t.head, t.recent)
      /\ t.dirty \in BOOLEAN /\ t.err \in BOOLEAN
      /\ ~ t.dirty => t.head = header
  BY <1>2, <1>16 DEF Left
<1>9. Fits(file', header', head', recent') /\ Flags'
  BY <1>2, <1>8 DEF IInv, Flags
<1>10. \E Q : Owned(t.file, t.head, header, IF t.err THEN live ELSE live \cup {t.got}, kept, Q)
  <2>1. CASE t.err
    BY <1>8, <2>1
  <2>2. CASE ~ t.err
    <3>1. PICK p : /\ HoldsValue(t.file, t.got, v, p) /\ Range(p) \cap U = {}
                   /\ ListAvoids(t.file, t.head, U \cup Range(p))
      BY <1>6, <2>2
    <3> DEFINE L == live \cup {t.got}
               Q == [id \in L |-> IF id = t.got THEN p ELSE P[id]]
    <3>2. t.got \in Range(p)
      BY <1>5, <3>1, HoldsIs
    <3>3. t.got \notin live
      BY <1>4, <3>1, <3>2
    <3>4. Q[t.got] = p /\ \A id \in live : Q[id] = P[id] /\ id # t.got
      BY <3>3
    <3> HIDE DEF Q
    <3>5. \A id \in live : Range(P[id]) \subseteq U
      BY DEF Using, U
    <3>6. Chunks(t.file, L, Q)
      <4>1. Chunks(t.file, live, P)
        BY <1>8 DEF Owned
      <4>2. \A id \in L : \E w \in Values : HoldsValue(t.file, id, w, Q[id])
        BY <3>1, <3>4, <4>1 DEF Chunks
      <4>3. \A x, y \in L : x # y => Range(Q[x]) \cap Range(Q[y]) = {}
        BY <3>1, <3>4, <3>5, <4>1 DEF Chunks
      <4> QED BY <4>2, <4>3 DEF Chunks
    <3>7. Using(L, Q) = U \cup Range(p)
      BY <3>4 DEF Using, U
    <3>8. Using(kept, Q) = W
      BY <1>7, <3>4 DEF Using, W
    <3>9. Owned(t.file, t.head, header, L, kept, Q)
      BY <1>8, <3>1, <3>6, <3>7, <3>8 DEF Owned, W
    <3> QED BY <2>2, <3>9
  <2> QED BY <2>1, <2>2
<1>11. \E Q : Owned(file', head', header', live', kept', Q)
  BY <1>2, <1>10
<1>12. ASSUME ~ t.err
       PROVE  t.got \in (0 .. MaxBuffers - 1) \ live /\ GetChunk(t.file, t.got) = Pieces(v)
  <2>1. PICK p : HoldsValue(t.file, t.got, v, p) /\ Range(p) \cap U = {}
    BY <1>6, <1>12
  <2>2. t.got \in Range(p) /\ t.got \in Buffers(t.file)
    BY <1>5, <2>1, HoldsIs
  <2>3. t.got \notin live
    BY <1>4, <2>1, <2>2
  <2>4. Len(t.file) \in Nat
    BY <1>6 DEF Held, Rec, IsFile
  <2>5. GetChunk(t.file, t.got) = Pieces(v)
    BY <1>5, <2>1, <2>4, ReadsBack
  <2>6. t.got \in 0 .. MaxBuffers - 1
    BY <1>2, <2>2, <2>4, LinkedAssumption DEF Buffers
  <2> QED BY <2>3, <2>5, <2>6
<1>13. live' = live \/ (~ t.err /\ live' = live \cup {t.got})
  BY <1>2
<1>17. Same(file, file', live) /\ kept' = kept
  BY <1>2, <1>8
<1> QED BY <1>2, <1>9, <1>11, <1>12, <1>13, <1>17 DEF IInv

(* A call of StoreNewChunk cut off at one of its writes.                   *)
LEMMA StorePastHeld ==
  ASSUME IInv, open, NEW P, Owned(file, head, header, live, kept, P),
         NEW v \in Values, NEW i \in DOMAIN StoredChunk(Now, v).past
  PROVE  LET t == StoredChunk(Now, v).past[i]
         IN  /\ Left(file, header, live, kept, P, t)
             /\ Left(file, header, live, kept, P, Raise(t))
             /\ Raise(t).file = t.file /\ Raise(t).err
<1> DEFINE t == StoredChunk(Now, v).past[i]
           U == Using(live, P)
           W == Using(kept, P)
<1>1. /\ Held(Now, file, header, U, W) /\ PastHeld(Now, file, header, U, W)
      /\ ~ Now.err /\ Now.file = file
  BY NowHeld
<1>2. Chunks(file, live, P) /\ U \subseteq InUse(file)
  BY ChunksAre DEF Owned
<1>3. Size(v) \in Nat \ {0}
  BY LinkedAssumption
<1>4. PastHeld(StoredChunk(Now, v), file, header, U, W)
  BY <1>1, <1>2, <1>3, StoreHeld
<1>5. Held(t, file, header, U, W)
  BY <1>4 DEF PastHeld
<1>6. IsFile(file) /\ header \in -1 .. Len(file) + 1 /\ kept \subseteq live
  BY DEF IInv, Fits, Flags
<1> HIDE DEF t
<1>7. Rec(t)
  BY <1>5 DEF Held
<1>8. /\ Raise(t).file = t.file /\ Raise(t).err
      /\ Rec(Raise(t)) /\ Raise(t).head = t.head /\ Raise(t).dirty = t.dirty
  BY <1>7, RaiseIs
<1>9. Held(Raise(t), file, header, U, W)
  BY <1>5, <1>8 DEF Held
<1>10. Call(file, header, live, live, kept, P, t) /\ Call(file, header, live, live, kept, P, Raise(t))
  BY <1>2, <1>5, <1>6, <1>9 DEF Call
<1>11. Left(file, header, live, kept, P, t)
  BY ONLY <1>10, LeftOwned
<1>12. Left(file, header, live, kept, P, Raise(t))
  BY ONLY <1>10, LeftOwned
<1> QED BY <1>8, <1>11, <1>12 DEF t

LEMMA StoreFailsInv ==
  ASSUME IInv, NEW v \in Values, StoreFails(v)
  PROVE  IInv' /\ Same(file, file', live) /\ live' = live /\ kept' = kept
<1>1. PICK P : Owned(file, head, header, live, kept, P)
  BY DEF IInv
<1>2. /\ open /\ faults < MaxFaults
      /\ header' = header /\ open' = open /\ live' = live /\ kept' = kept
      /\ faults' = faults + 1 /\ strayed' = TRUE /\ failed' = TRUE
  BY DEF StoreFails
<1>3. PICK i \in DOMAIN StoredChunk(Now, v).past :
        /\ Len(StoredChunk(Now, v).past[i].file) <= MaxBuffers
        /\ Takes(Raise(StoredChunk(Now, v).past[i]))
  BY DEF StoreFails
<1> DEFINE t == StoredChunk(Now, v).past[i]
           r == Raise(t)
<1>4. Left(file, header, live, kept, P, r) /\ r.file = t.file /\ r.err
  BY <1>1, <1>2, StorePastHeld
<1>5. /\ file' = r.file /\ head' = r.head /\ recent' = r.recent /\ dirty' = r.dirty
      /\ raised' = r.err
  BY <1>3 DEF Takes
<1>6. Len(r.file) <= MaxBuffers
  BY <1>3, <1>4
<1> HIDE DEF r
<1>7. Fits(file', header', head', recent') /\ Owned(file', head', header', live', kept', P)
  BY <1>2, <1>4, <1>5, <1>6 DEF Left
<1>8. faults + 1 \in 0 .. MaxFaults
  BY <1>2, LinkedAssumption DEF IInv, Flags
<1>9. Flags'
  BY <1>2, <1>4, <1>5, <1>8 DEF Left, IInv, Flags
<1> QED BY <1>2, <1>4, <1>5, <1>7, <1>9 DEF IInv, Left

LEMMA CrashInStoreInv ==
  ASSUME IInv, NEW v \in Values, CrashInStore(v)
  PROVE  IInv' /\ Same(file, file', live') /\ live' = kept /\ kept' = kept
<1>1. PICK P : Owned(file, head, header, live, kept, P)
  BY DEF IInv
<1>2. /\ open /\ faults < MaxFaults
      /\ header' = header /\ live' = kept /\ kept' = kept /\ Gone
  BY DEF CrashInStore
<1>3. PICK i \in DOMAIN StoredChunk(Now, v).past :
        /\ Len(StoredChunk(Now, v).past[i].file) <= MaxBuffers
        /\ file' = StoredChunk(Now, v).past[i].file
  BY DEF CrashInStore
<1> DEFINE t == StoredChunk(Now, v).past[i]
<1>4. Left(file, header, live, kept, P, t)
  BY <1>1, <1>2, StorePastHeld
<1>5. file' = t.file /\ Len(t.file) <= MaxBuffers
  BY <1>3
<1> HIDE DEF t
<1>6. /\ open' = FALSE /\ head' = NullBuffer /\ recent' = NullBuffer /\ dirty' = FALSE
      /\ faults' = faults + 1 /\ strayed' = TRUE /\ failed' = FALSE /\ raised' = FALSE
  BY <1>2 DEF Gone
<1>7. Fits(file', header', head', recent') /\ Owned(file', head', header', live', kept', P)
  BY <1>2, <1>4, <1>5, <1>6 DEF Left
<1>8. faults + 1 \in 0 .. MaxFaults /\ kept \subseteq live
  BY <1>2, LinkedAssumption DEF IInv, Flags
<1>9. Flags'
  BY <1>2, <1>6, <1>8 DEF Flags
<1>10. Same(file, file', live')
  BY <1>2, <1>4, <1>5, <1>8 DEF Left, Same
<1> QED BY <1>2, <1>7, <1>9, <1>10 DEF IInv

(* A release done or cut off: what is left is kept but the chunk released. *)
LEMMA ReleaseLeaves ==
  ASSUME IInv, open, NEW P, Owned(file, head, header, live, kept, P), NEW id \in live
  PROVE  LET t == Released(Now, id)
             L == live \ {id}
             K == kept \ {id}
         IN  /\ Left(file, header, L, K, P, t) /\ Len(t.file) <= MaxBuffers
             /\ \A i \in DOMAIN t.past : /\ Left(file, header, L, K, P, t.past[i])
                                        /\ Len(t.past[i].file) <= MaxBuffers
<1> DEFINE t == Released(Now, id)
           L == live \ {id}
           K == kept \ {id}
           U == Using(L, P)
           W == Using(K, P)
           V == Range(P[id])
<1>1. IsFile(file) /\ Len(file) <= MaxBuffers /\ header \in -1 .. Len(file) + 1 /\ kept \subseteq live
  BY DEF IInv, Fits, Flags
<1>2. L \subseteq live /\ K \subseteq kept /\ K \subseteq L
  BY <1>1
<1>3. /\ Held(Now, file, header, U, W) /\ PastHeld(Now, file, header, U, W)
      /\ Now.file = file /\ Now.head = head
  BY <1>2, NowHeld
<1>4. Chunks(file, live, P) /\ ListAvoids(file, head, Using(live, P))
  BY DEF Owned
<1>5. Chunks(file, L, P)
  BY <1>4 DEF Chunks
<1>6. U \subseteq InUse(file)
  BY <1>5, ChunksAre
<1>7. W \subseteq U
  BY <1>2, UsingLess
<1>8. U \cap V = {}
  <2>1. \A x \in L : Range(P[x]) \cap V = {}
    BY <1>4 DEF Chunks
  <2> QED BY <2>1 DEF Using
<1>9. PICK v \in Values : HoldsValue(file, id, v, P[id])
  BY <1>4 DEF Chunks
<1>10. Size(v) \in Nat \ {0}
  BY LinkedAssumption
<1> DEFINE p == P[id]
<1> HIDE DEF p
<1>11. /\ Range(p) = { p[k] : k \in 1 .. Size(v) } /\ id \in Range(p)
       /\ id \in Buffers(file)
       /\ \A k \in 1 .. Size(v) - 1 : After(file, p[k]) = p[k + 1]
       /\ After(file, p[Size(v)]) = NullBuffer
  BY <1>9, <1>10, HoldsIs DEF p
<1>12. V = Range(p)
  BY DEF p
<1>13. ASSUME NEW x \in V, Used(file, After(file, x))
       PROVE  After(file, x) \in V
  <2>1. PICK k \in 1 .. Size(v) : x = p[k]
    BY <1>11, <1>12, <1>13
  <2>2. ~ Used(file, NullBuffer)
    BY <1>1 DEF Used, Buffers, NullBuffer, IsFile
  <2>3. k # Size(v)
    BY <1>11, <1>13, <2>1, <2>2
  <2>4. k \in 1 .. Size(v) - 1 /\ k + 1 \in 1 .. Size(v)
    BY <1>10, <2>1, <2>3
  <2>5. After(file, x) = p[k + 1]
    BY <1>11, <2>1, <2>4
  <2> QED BY <1>11, <1>12, <2>4, <2>5
<1>14. ListAvoids(file, head, U \cup (V \cap InUse(file)))
  <2>1. U \subseteq Using(live, P) /\ V \subseteq Using(live, P)
    BY DEF Using
  <2>2. U \cup (V \cap InUse(file)) \subseteq Using(live, P)
    BY <2>1
  <2> QED BY <1>4, <2>2, AvoidsLess
<1>15. Short(Now, file)
  BY <1>3 DEF Short, Now
<1> HIDE DEF U, V, W, L, K
<1>16. Freeable(Now, file, U, V)
  BY <1>3, <1>13, <1>14, <1>15 DEF Freeable
<1>17. id \in 0 .. Len(Now.file) /\ id \in V
  BY <1>1, <1>3, <1>11, <1>12 DEF Buffers, IsFile
<1>18. Held(t, file, header, U, W) /\ PastHeld(t, file, header, U, W) /\ Freeable(t, file, U, V)
  BY <1>1, <1>3, <1>6, <1>7, <1>8, <1>16, <1>17, ReleasedHeld
<1> HIDE DEF t
<1>19. Len(t.file) <= MaxBuffers /\ \A i \in DOMAIN t.past : Len(t.past[i].file) <= MaxBuffers
  BY <1>1, <1>18 DEF Freeable, Short
<1>20. ASSUME NEW x, Held(x, file, header, U, W)
       PROVE  Left(file, header, L, K, P, x)
  <2>1. Call(file, header, live, L, K, P, x)
    BY <1>1, <1>2, <1>4, <1>20 DEF Call, U, W
  <2> QED BY ONLY <2>1, LeftOwned
<1>21. Left(file, header, L, K, P, t)
  BY <1>18, <1>20
<1>22. \A i \in DOMAIN t.past : Left(file, header, L, K, P, t.past[i])
  BY <1>18, <1>20 DEF PastHeld
<1> QED BY <1>19, <1>21, <1>22 DEF t, L, K

LEMMA ReleaseStepInv ==
  ASSUME IInv, NEW id \in live, ReleaseBuffers(id)
  PROVE  IInv' /\ Same(file, file', live') /\ live' = live \ {id} /\ kept' = kept \ {id}
<1>1. PICK P : Owned(file, head, header, live, kept, P)
  BY DEF IInv
<1> DEFINE t == Released(Now, id)
<1>2. /\ open
      /\ file' = t.file /\ head' = t.head /\ recent' = t.recent /\ dirty' = t.dirty
      /\ raised' = t.err
      /\ live' = live \ {id} /\ kept' = kept \ {id}
      /\ header' = header /\ open' = open /\ faults' = faults
      /\ strayed' = strayed /\ failed' = failed
  BY DEF ReleaseBuffers, Takes
<1>3. Left(file, header, live \ {id}, kept \ {id}, P, t) /\ Len(t.file) <= MaxBuffers
  BY <1>1, <1>2, ReleaseLeaves
<1> HIDE DEF t
<1>4. /\ Fits(file', header', head', recent') /\ Owned(file', head', header', live', kept', P)
      /\ Same(file, file', live')
  BY <1>2, <1>3 DEF Left
<1>5. Flags'
  BY <1>2, <1>3 DEF Left, IInv, Flags
<1> QED BY <1>2, <1>4, <1>5 DEF IInv

LEMMA CrashInReleaseInv ==
  ASSUME IInv, NEW id \in live, CrashInRelease(id)
  PROVE  IInv' /\ Same(file, file', live') /\ live' = kept \ {id} /\ kept' = kept \ {id}
<1>1. PICK P : Owned(file, head, header, live, kept, P)
  BY DEF IInv
<1>2. /\ open /\ faults < MaxFaults
      /\ header' = header /\ live' = kept \ {id} /\ kept' = kept \ {id} /\ Gone
  BY DEF CrashInRelease
<1>3. PICK i \in DOMAIN Released(Now, id).past : file' = Released(Now, id).past[i].file
  BY DEF CrashInRelease
<1> DEFINE t == Released(Now, id).past[i]
<1>4. Left(file, header, live \ {id}, kept \ {id}, P, t) /\ Len(t.file) <= MaxBuffers
  BY <1>1, <1>2, ReleaseLeaves
<1>5. file' = t.file
  BY <1>3
<1> HIDE DEF t
<1>6. /\ open' = FALSE /\ head' = NullBuffer /\ recent' = NullBuffer /\ dirty' = FALSE
      /\ faults' = faults + 1 /\ strayed' = TRUE /\ failed' = FALSE /\ raised' = FALSE
  BY <1>2 DEF Gone
<1>7. Fits(file', header', head', recent') /\ Owned(file', head', header', live', kept', P)
  BY <1>2, <1>4, <1>5, <1>6 DEF Left
<1>8. faults + 1 \in 0 .. MaxFaults /\ kept \subseteq live
  BY <1>2, LinkedAssumption DEF IInv, Flags
<1>9. Flags'
  BY <1>2, <1>6, <1>8 DEF Flags
<1>10. Same(file, file', live')
  BY <1>2, <1>4, <1>5, <1>8 DEF Left, Same
<1> QED BY <1>2, <1>7, <1>9, <1>10 DEF IInv

LEMMA RecoverInv ==
  ASSUME IInv, LinkedRecover
  PROVE  IInv' /\ Same(file, file', live) /\ live' = live /\ kept' = kept
<1>1. PICK P : Owned(file, head, header, live, kept, P)
  BY DEF IInv
<1> DEFINE t == Recovered(Now, live)
<1>2. /\ open
      /\ file' = t.file /\ head' = t.head /\ recent' = t.recent /\ dirty' = t.dirty
      /\ raised' = t.err /\ strayed' = t.err
      /\ live' = live /\ kept' = kept
      /\ header' = header /\ open' = open /\ faults' = faults /\ failed' = failed
  BY DEF LinkedRecover, Takes
<1>3. IsFile(file) /\ Len(file) <= MaxBuffers /\ header \in -1 .. Len(file) + 1 /\ kept \subseteq live
  BY DEF IInv, Fits, Flags
<1>4. Chunks(file, live, P) /\ Using(kept, P) \subseteq Using(live, P)
  BY <1>1, <1>3, UsingLess DEF Owned
<1>5. /\ Held(Now, file, header, Using(live, P), Using(kept, P))
      /\ PastHeld(Now, file, header, Using(live, P), Using(kept, P))
      /\ Now.file = file /\ Now.past = <<>>
  <2>1. Now.past = <<>>
    BY DEF Now
  <2>2. live \subseteq live /\ kept \subseteq kept
    OBVIOUS
  <2> QED BY <1>1, <1>2, <2>1, <2>2, NowHeld
<1>6. Held(t, file, header, Using(live, P), Using(kept, P)) /\ Len(t.file) = Len(file)
  BY <1>4, <1>5, RecoverHeld
<1> HIDE DEF t
<1>7. Call(file, header, live, live, kept, P, t)
  BY <1>3, <1>4, <1>6 DEF Call
<1>8. Left(file, header, live, kept, P, t)
  BY ONLY <1>7, LeftOwned
<1>9. /\ Fits(file', header', head', recent') /\ Owned(file', head', header', live', kept', P)
      /\ Same(file, file', live)
  BY <1>2, <1>3, <1>6, <1>8 DEF Left
<1>10. Flags'
  BY <1>2, <1>8 DEF Left, IInv, Flags
<1> QED BY <1>2, <1>9, <1>10 DEF IInv

(* The calls that write no buffer.                                         *)
LEMMA ListsOf ==
  ASSUME IInv, NEW P, Owned(file, head, header, live, kept, P),
         NEW K, K \subseteq kept
  PROVE  /\ Owned(file, NullBuffer, header, K, K, P)
         /\ Owned(file, header, header, K, K, P)
         /\ Fits(file, header, NullBuffer, NullBuffer)
         /\ Fits(file, header, header, NullBuffer)
<1>1. IsFile(file) /\ Len(file) \in Nat /\ Len(file) <= MaxBuffers
      /\ header \in -1 .. Len(file) + 1 /\ kept \subseteq live
  BY DEF IInv, Fits, Flags, IsFile
<1>2. Chunks(file, K, P)
  BY <1>1 DEF Owned, Chunks
<1>3. ListAvoids(file, header, Using(K, P))
  BY UsingLess, AvoidsLess DEF Owned
<1>4. ListAvoids(file, NullBuffer, Using(K, P))
  <2>1. NullBuffer \notin Buffers(file)
    BY <1>1 DEF Buffers, NullBuffer
  <2>2. Using(K, P) \subseteq InUse(file)
    BY <1>2, ChunksAre
  <2>3. NullBuffer \notin Using(K, P) /\ ~ Free(file, NullBuffer)
    BY <2>1, <2>2 DEF InUse, Free
  <2> QED BY <2>3, ListStops
<1>5. NullBuffer \in -1 .. Len(file) + 1
  BY <1>1 DEF NullBuffer
<1> QED BY <1>1, <1>2, <1>3, <1>4, <1>5 DEF Owned, Fits

LEMMA ForgetInv ==
  ASSUME IInv, NEW id \in live, Forget(id)
  PROVE  IInv' /\ file' = file /\ live' = live \ {id} /\ kept' = kept \ {id}
<1>1. PICK P : Owned(file, head, header, live, kept, P)
  BY DEF IInv
<1>2. /\ open /\ live' = live \ {id} /\ kept' = kept \ {id}
      /\ strayed' = TRUE /\ raised' = FALSE
      /\ file' = file /\ header' = header /\ open' = open /\ head' = head
      /\ recent' = recent /\ dirty' = dirty /\ faults' = faults /\ failed' = failed
  BY DEF Forget
<1>3. Chunks(file, live \ {id}, P)
  BY <1>1 DEF Owned, Chunks
<1>4. ListAvoids(file, head, Using(live \ {id}, P))
  <2>1. live \ {id} \subseteq live
    OBVIOUS
  <2>2. Using(live \ {id}, P) \subseteq Using(live, P)
    BY <2>1, UsingLess
  <2> QED BY <1>1, <2>2, AvoidsLess DEF Owned
<1>5. ListAvoids(file, header, Using(kept \ {id}, P))
  <2>1. kept \ {id} \subseteq kept
    OBVIOUS
  <2>2. Using(kept \ {id}, P) \subseteq Using(kept, P)
    BY <2>1, UsingLess
  <2> QED BY <1>1, <2>2, AvoidsLess DEF Owned
<1>6. Owned(file', head', header', live', kept', P)
  BY <1>2, <1>3, <1>4, <1>5 DEF Owned
<1>7. Fits(file', header', head', recent')
  BY <1>2 DEF IInv
<1>8. Flags'
  BY <1>2 DEF IInv, Flags
<1> QED BY <1>2, <1>6, <1>7, <1>8 DEF IInv

LEMMA FlushInv ==
  ASSUME IInv, LinkedFlush
  PROVE  IInv' /\ file' = file /\ live' = live /\ kept' = live
<1>1. PICK P : Owned(file, head, header, live, kept, P)
  BY DEF IInv
<1>2. /\ open /\ header' = (IF dirty THEN head ELSE header)
      /\ dirty' = FALSE /\ kept' = live /\ raised' = FALSE
      /\ file' = file /\ open' = open /\ head' = head /\ recent' = recent /\ live' = live
      /\ faults' = faults /\ strayed' = strayed /\ failed' = failed
  BY DEF LinkedFlush
<1>3. header' = head
  BY <1>2 DEF IInv, Flags
<1>4. Owned(file', head', header', live', kept', P)
  BY <1>1, <1>2, <1>3 DEF Owned
<1>5. Fits(file', header', head', recent')
  BY <1>2, <1>3 DEF IInv, Fits
<1>6. Flags'
  BY <1>2, <1>3 DEF IInv, Flags
<1> QED BY <1>2, <1>4, <1>5, <1>6 DEF IInv

LEMMA ShutdownInv ==
  ASSUME IInv, Shutdown
  PROVE  IInv' /\ file' = file /\ live' = kept /\ kept' = kept
<1>1. PICK P : Owned(file, head, header, live, kept, P)
  BY DEF IInv
<1>2. /\ open' = FALSE /\ head' = NullBuffer /\ recent' = NullBuffer /\ dirty' = FALSE
      /\ faults' = faults + 1 /\ strayed' = TRUE /\ failed' = FALSE /\ raised' = FALSE
      /\ live' = kept /\ file' = file /\ header' = header /\ kept' = kept
      /\ faults < MaxFaults
  BY DEF Shutdown, Gone
<1>3. kept \subseteq kept
  OBVIOUS
<1>4. /\ Owned(file, NullBuffer, header, kept, kept, P)
      /\ Fits(file, header, NullBuffer, NullBuffer)
  BY <1>1, <1>3, ListsOf
<1>5. faults + 1 \in 0 .. MaxFaults
  BY <1>2, LinkedAssumption DEF IInv, Flags
<1>6. Flags'
  BY <1>2, <1>5 DEF Flags
<1> QED BY <1>2, <1>4, <1>6 DEF IInv

LEMMA CrashInFlushInv ==
  ASSUME IInv, CrashInFlush
  PROVE  IInv' /\ file' = file /\ live' = kept /\ kept' = kept
<1>1. PICK P : Owned(file, head, header, live, kept, P)
  BY DEF IInv
<1>2. /\ open' = FALSE /\ head' = NullBuffer /\ recent' = NullBuffer /\ dirty' = FALSE
      /\ faults' = faults + 1 /\ strayed' = TRUE /\ failed' = FALSE /\ raised' = FALSE
      /\ live' = kept /\ file' = file /\ header' = head /\ kept' = kept
      /\ faults < MaxFaults
  BY DEF CrashInFlush, Gone
<1>3. kept \subseteq kept /\ kept \subseteq live
  BY DEF IInv, Flags
<1>4. /\ Owned(file, NullBuffer, header, kept, kept, P)
      /\ Fits(file, header, NullBuffer, NullBuffer)
  BY <1>1, <1>3, ListsOf
<1>5. ListAvoids(file, head, Using(kept, P))
  BY <1>1, <1>3, UsingLess, AvoidsLess DEF Owned
<1>6. Owned(file, NullBuffer, head, kept, kept, P)
  BY <1>4, <1>5 DEF Owned
<1>7. Fits(file, head, NullBuffer, NullBuffer)
  BY <1>4 DEF IInv, Fits
<1>8. faults + 1 \in 0 .. MaxFaults
  BY <1>2, LinkedAssumption DEF IInv, Flags
<1>9. Flags'
  BY <1>2, <1>8 DEF Flags
<1> QED BY <1>2, <1>6, <1>7, <1>9 DEF IInv

LEMMA ReOpenInv ==
  ASSUME IInv, LinkedReOpen
  PROVE  IInv' /\ file' = file /\ live' = live /\ kept' = kept
<1>1. PICK P : Owned(file, head, header, live, kept, P)
  BY DEF IInv
<1>2. /\ open' = TRUE /\ head' = header /\ recent' = NullBuffer /\ dirty' = FALSE
      /\ raised' = FALSE /\ ~ open
      /\ file' = file /\ header' = header /\ live' = live /\ kept' = kept
      /\ faults' = faults /\ strayed' = strayed /\ failed' = failed
  BY DEF LinkedReOpen
<1>3. kept \subseteq kept /\ live = kept
  BY <1>2 DEF IInv, Flags
<1>4. /\ Owned(file, header, header, kept, kept, P)
      /\ Fits(file, header, header, NullBuffer)
  BY <1>1, <1>3, ListsOf
<1>5. Flags'
  BY <1>2, <1>3 DEF IInv, Flags
<1> QED BY <1>2, <1>3, <1>4, <1>5 DEF IInv

-----------------------------------------------------------------------------
(* What a step does to the chunks somebody knows, and to those of them     *)
(* that a Flush has covered.                                               *)
Unmoved == Same(file, file', live) /\ live' = live /\ kept' = kept

StoredOne ==
  /\ Same(file, file', live) /\ kept' = kept
  /\ \E id \in (0 .. MaxBuffers - 1) \ live, v \in Values :
       live' = live \cup {id} /\ GetChunk(file', id) = Pieces(v)

DroppedOne ==
  \E id \in live : /\ live' = live \ {id} /\ kept' = kept \ {id}
                   /\ Same(file, file', live')

Flushed == Same(file, file', live) /\ live' = live /\ kept' = live

Crashed ==
  \E gone \in SUBSET live : /\ gone = {} \/ \E id \in live : gone = {id}
                            /\ live' = kept \ gone /\ kept' = kept \ gone
                            /\ Same(file, file', live')

LEMMA NextInv ==
  ASSUME IInv, [LinkedNext]_linkedVars
  PROVE  IInv' /\ (Unmoved \/ StoredOne \/ DroppedOne \/ Flushed \/ Crashed)
<1>0. ASSUME NEW S, file' = file
      PROVE  Same(file, file', S)
  BY <1>0 DEF Same
<1>1. ASSUME NEW v \in Values, StoreNewChunk(v)
      PROVE  IInv' /\ (Unmoved \/ StoredOne)
  BY <1>1, StoreStepInv DEF Unmoved, StoredOne
<1>2. ASSUME NEW v \in Values, StoreFails(v)
      PROVE  IInv' /\ Unmoved
  BY <1>2, StoreFailsInv DEF Unmoved
<1>a. ASSUME Same(file, file', live'), live' = kept, kept' = kept
      PROVE  Crashed
  <2>1. {} \in SUBSET live /\ live' = kept \ {} /\ kept' = kept \ {}
    BY <1>a
  <2> QED BY <1>a, <2>1 DEF Crashed
<1>3. ASSUME NEW v \in Values, CrashInStore(v)
      PROVE  IInv' /\ Crashed
  BY <1>3, <1>a, CrashInStoreInv
<1>4. ASSUME NEW id \in live, ReleaseBuffers(id)
      PROVE  IInv' /\ DroppedOne
  BY <1>4, ReleaseStepInv DEF DroppedOne
<1>5. ASSUME NEW id \in live, Forget(id)
      PROVE  IInv' /\ DroppedOne
  BY <1>0, <1>5, ForgetInv DEF DroppedOne
<1>6. ASSUME NEW id \in live, CrashInRelease(id)
      PROVE  IInv' /\ Crashed
  <2>1. /\ IInv' /\ Same(file, file', live')
        /\ live' = kept \ {id} /\ kept' = kept \ {id}
    BY <1>6, CrashInReleaseInv
  <2>2. {id} \in SUBSET live
    OBVIOUS
  <2> QED BY <2>1, <2>2 DEF Crashed
<1>7. ASSUME LinkedFlush
      PROVE  IInv' /\ Flushed
  BY <1>0, <1>7, FlushInv DEF Flushed
<1>8. ASSUME LinkedRecover
      PROVE  IInv' /\ Unmoved
  BY <1>8, RecoverInv DEF Unmoved
<1>9. ASSUME Shutdown
      PROVE  IInv' /\ Crashed
  BY <1>0, <1>9, <1>a, ShutdownInv
<1>10. ASSUME CrashInFlush
       PROVE  IInv' /\ Crashed
  BY <1>0, <1>10, <1>a, CrashInFlushInv
<1>11. ASSUME LinkedReOpen
       PROVE  IInv' /\ Unmoved
  BY <1>0, <1>11, ReOpenInv DEF Unmoved
<1>12. ASSUME UNCHANGED linkedVars
       PROVE  IInv' /\ Unmoved
  <2>1. /\ file' = file /\ header' = header /\ open' = open /\ head' = head
        /\ recent' = recent /\ dirty' = dirty /\ live' = live /\ kept' = kept
        /\ faults' = faults /\ strayed' = strayed /\ failed' = failed /\ raised' = raised
    BY <1>12 DEF linkedVars
  <2>2. IInv'
    BY <2>1 DEF IInv, Flags
  <2> QED BY <1>0, <2>1, <2>2 DEF Unmoved
<1> QED BY <1>1, <1>2, <1>3, <1>4, <1>5, <1>6, <1>7, <1>8, <1>9, <1>10, <1>11, <1>12 DEF LinkedNext

LEMMA Inductive == LinkedSpec => []IInv
<1>1. LinkedInit => IInv
  BY InitIInv
<1>2. IInv /\ [LinkedNext]_linkedVars => IInv'
  BY NextInv
<1> QED BY <1>1, <1>2, PTL DEF LinkedSpec

(* Every field and every buffer has its type: next pointers, list heads    *)
(* and buffer numbers stay within the file or name the one buffer that is  *)
(* handed out and not written yet.                                         *)
THEOREM TypeCorrect == LinkedSpec => []LinkedTypeOK
<1>1. IInv => LinkedTypeOK
  <2> SUFFICES ASSUME IInv PROVE LinkedTypeOK
    OBVIOUS
  <2>1. /\ IsFile(file) /\ Len(file) \in Nat /\ Len(file) <= MaxBuffers /\ MaxBuffers \in Nat
        /\ {header, head, recent} \subseteq -1 .. Len(file) + 1
    BY LinkedAssumption DEF IInv, Fits, IsFile
  <2>2. file \in Seq(Buffer)
    <3>1. file \in Seq(AnyBuffer)
      BY <2>1 DEF IsFile
    <3>2. ASSUME NEW i \in 1 .. Len(file)
          PROVE  file[i] \in Buffer
      <4>1. i - 1 \in Buffers(file) /\ (i - 1) + 1 = i
        BY <2>1 DEF Buffers
      <4>2. file[i].next \in -1 .. MaxBuffers + 1
        BY <2>1, <4>1 DEF IsFile, After
      <4>3. file[i] \in AnyBuffer
        BY <3>1
      <4> QED BY <4>2, <4>3 DEF AnyBuffer, Buffer
    <3> QED BY <3>1, <3>2
  <2>3. live \subseteq 0 .. MaxBuffers - 1
    <3>1. PICK P : Owned(file, head, header, live, kept, P)
      BY DEF IInv
    <3>2. live \subseteq Heads(file)
      BY <3>1, ChunksAre DEF Owned
    <3> QED BY <2>1, <3>2 DEF Heads
  <2>4. {header, head, recent} \subseteq -1 .. MaxBuffers + 1
    BY <2>1
  <2> QED BY <2>2, <2>3, <2>4 DEF LinkedTypeOK, IInv, Flags
<1>2. LinkedSpec => []IInv
  BY Inductive
<1> QED BY <1>1, <1>2, PTL

(* OneOwner of LinkedFile: no buffer is in two chunks that somebody knows, *)
(* or in one of them and on a free list that holds free buffers alone.     *)
THEOREM OneOwnerAlways == LinkedSpec => []LinkedOneOwner
<1>1. IInv => OneOwner
  <2> SUFFICES ASSUME IInv PROVE OneOwner
    OBVIOUS
  <2>1. PICK P : Owned(file, head, header, live, kept, P)
    BY DEF IInv
  <2>2. IsFile(file) /\ Chunks(file, live, P)
    BY <2>1 DEF Owned, IInv, Fits
  <2>3. ASSUME NEW x \in live
        PROVE  /\ Along(file, x) \subseteq Range(P[x])
               /\ \A y \in Range(P[x]) : Used(file, y)
    <3> DEFINE p == P[x]
    <3>1. PICK v \in Values : HoldsValue(file, x, v, p)
      BY <2>2 DEF Chunks
    <3>2. Size(v) \in Nat \ {0}
      BY LinkedAssumption
    <3> HIDE DEF p
    <3>3. Along(file, x) \subseteq Range(p)
      BY <2>2, <3>1, <3>2, AlongIs
    <3>4. /\ Range(p) = { p[k] : k \in 1 .. Size(v) }
          /\ \A k \in 1 .. Size(v) : Used(file, p[k])
      BY <3>1, <3>2, HoldsIs
    <3> QED BY <3>3, <3>4 DEF p
  <2>4. \A x, y \in live : x # y => Along(file, x) \cap Along(file, y) = {}
    BY <2>2, <2>3 DEF Chunks
  <2>5. ASSUME NEW x \in live, NEW b \in {header, head}, GoodFreeList(file, b)
        PROVE  Along(file, x) \cap Along(file, b) = {}
    <3>1. \A y \in Along(file, x) : file[y + 1].type # "FREE"
      BY <2>3 DEF Used
    <3>2. \A y \in Along(file, b) : file[y + 1].type = "FREE"
      BY <2>5 DEF GoodFreeList
    <3> QED BY <3>1, <3>2
  <2> QED BY <2>4, <2>5 DEF OneOwner
<1>2. LinkedSpec => []IInv
  BY Inductive
<1>3. LinkedSpec => []LinkedTypeOK
  BY TypeCorrect
<1>4. LinkedTypeOK /\ IInv => LinkedOneOwner
  BY <1>1 DEF LinkedOneOwner
<1> QED BY <1>2, <1>3, <1>4, PTL

LEMMA KnownLess ==
  ASSUME live' \subseteq live, Same(file, file', live')
  PROVE  Known' = [id \in live' |-> Known[id]]
BY DEF Known, Same

(* The refinement of ChunkStore: every call, crash and Recover is a step   *)
(* of the store of chunks or leaves it alone; a chunk reads as it was      *)
(* stored until its number is released, forgotten or lost in a crash       *)
(* before a Flush.                                                         *)
THEOREM LinkedFileIsChunkStore == LinkedSpec => IsChunkStore
<1>1. LinkedInit => ChunkMap!Init
  BY DEF LinkedInit, ChunkMap!Init, Known
<1>2. IInv /\ [LinkedNext]_linkedVars => [ChunkMap!Next]_ChunkMap!csvars
  <2> SUFFICES ASSUME IInv, [LinkedNext]_linkedVars
               PROVE  ChunkMap!Next \/ UNCHANGED <<Known, kept>>
    BY DEF ChunkMap!csvars
  <2>0. Unmoved \/ StoredOne \/ DroppedOne \/ Flushed \/ Crashed
    BY NextInv
  <2>a. DOMAIN Known = live /\ kept \subseteq live
    BY DEF Known, IInv, Flags
  <2>b. Known = [id \in live |-> Known[id]]
    BY DEF Known
  <2>1. CASE Unmoved
    <3>1. Known' = [id \in live' |-> Known[id]]
      BY <2>1, KnownLess DEF Unmoved
    <3> QED BY <2>1, <2>b, <3>1 DEF Unmoved
  <2>2. CASE StoredOne
    <3>1. PICK id \in (0 .. MaxBuffers - 1) \ live, v \in Values :
            live' = live \cup {id} /\ GetChunk(file', id) = Pieces(v)
      BY <2>2 DEF StoredOne
    <3>2. Known' = [x \in live \cup {id} |-> GetChunk(file', x)]
      BY <3>1 DEF Known
    <3>3. \A x \in live : GetChunk(file', x) = Known[x]
      BY <2>2 DEF StoredOne, Same, Known
    <3>4. Known' = [x \in live \cup {id} |-> IF x = id THEN Pieces(v) ELSE Known[x]]
      BY <3>1, <3>2, <3>3
    <3>5. ChunkMap!Store
      BY <2>2, <2>a, <3>1, <3>4 DEF ChunkMap!Store, StoredOne
    <3> QED BY <3>5 DEF ChunkMap!Next
  <2>3. CASE DroppedOne
    <3>1. PICK id \in live : /\ live' = live \ {id} /\ kept' = kept \ {id}
                            /\ Same(file, file', live')
      BY <2>3 DEF DroppedOne
    <3>2. Known' = [x \in live \ {id} |-> Known[x]]
      BY <3>1, KnownLess
    <3>3. ChunkMap!Drop
      BY <2>a, <3>1, <3>2 DEF ChunkMap!Drop, ChunkMap!Without
    <3> QED BY <3>3 DEF ChunkMap!Next
  <2>4. CASE Flushed
    <3>1. Known' = [id \in live' |-> Known[id]]
      BY <2>4, KnownLess DEF Flushed
    <3>2. ChunkMap!Flush
      BY <2>4, <2>a, <2>b, <3>1 DEF ChunkMap!Flush, Flushed
    <3> QED BY <3>2 DEF ChunkMap!Next
  <2>5. CASE Crashed
    <3>1. PICK gone \in SUBSET live :
            /\ gone = {} \/ \E id \in live : gone = {id}
            /\ live' = kept \ gone /\ kept' = kept \ gone
            /\ Same(file, file', live')
      BY <2>5 DEF Crashed
    <3>2. Known' = [x \in kept \ gone |-> Known[x]]
      BY <2>a, <3>1, KnownLess
    <3>3. PICK lost \in {{}} \cup { {id} : id \in kept } : kept \ gone = kept \ lost
      <4>1. CASE gone \cap kept = {}
        BY <4>1
      <4>2. CASE gone \cap kept # {}
        BY <3>1, <4>2
      <4> QED BY <4>1, <4>2
    <3>4. ChunkMap!Crash
      BY <3>1, <3>2, <3>3 DEF ChunkMap!Crash, ChunkMap!Only
    <3> QED BY <3>4 DEF ChunkMap!Next
  <2> QED BY <2>0, <2>1, <2>2, <2>3, <2>4, <2>5
<1>3. LinkedSpec => []IInv
  BY Inductive
<1> QED BY <1>1, <1>2, <1>3, PTL DEF LinkedSpec, IsChunkStore, ChunkMap!Spec

-----------------------------------------------------------------------------
(* A list that ends: S is what is met from b by next pointers, each buffer *)
(* once, before e.                                                         *)
IsList(f, b, n, p, e) ==
  /\ n \in Nat /\ p \in [1 .. n -> Buffers(f)]
  /\ \A i, j \in 1 .. n : p[i] = p[j] => i = j
  /\ b = IF n = 0 THEN e ELSE p[1]
  /\ \A i \in 1 .. n : After(f, p[i]) = IF i = n THEN e ELSE p[i + 1]

ListOf(f, b, S, e) == \E n, p : IsList(f, b, n, p, e) /\ S = { p[i] : i \in 1 .. n }

LEMMA ListMade ==
  ASSUME NEW f, NEW b, NEW n, NEW p, NEW e, IsList(f, b, n, p, e),
         NEW S, S = { p[i] : i \in 1 .. n }
  PROVE  ListOf(f, b, S, e)
BY DEF ListOf

LEMMA ListEmpty ==
  ASSUME NEW f, NEW e
  PROVE  ListOf(f, e, {}, e)
<1> DEFINE p == [i \in 1 .. 0 |-> 0]
<1>1. 1 .. 0 = {}
  OBVIOUS
<1>2. IsList(f, e, 0, p, e)
  BY <1>1 DEF IsList
<1>3. {} = { p[i] : i \in 1 .. 0 }
  BY <1>1
<1> QED BY <1>2, <1>3 DEF ListOf

LEMMA ListIs ==
  ASSUME NEW f, NEW b, NEW S, NEW e, ListOf(f, b, S, e)
  PROVE  /\ S \subseteq Buffers(f)
         /\ S = {} => b = e
         /\ S # {} => b \in S
         /\ \A x \in S : After(f, x) \in S \cup {e}
<1>1. PICK n, p : IsList(f, b, n, p, e) /\ S = { p[i] : i \in 1 .. n }
  BY DEF ListOf
<1>2. S \subseteq Buffers(f)
  BY <1>1 DEF IsList
<1>3. S = {} => b = e
  <2>1. n # 0 => 1 \in 1 .. n
    BY <1>1 DEF IsList
  <2> QED BY <1>1, <2>1 DEF IsList
<1>4. S # {} => b \in S
  <2>1. S # {} => n # 0 /\ 1 \in 1 .. n
    BY <1>1 DEF IsList
  <2> QED BY <1>1, <2>1 DEF IsList
<1>5. \A x \in S : After(f, x) \in S \cup {e}
  <2> SUFFICES ASSUME NEW i \in 1 .. n
               PROVE  After(f, p[i]) \in S \cup {e}
    BY <1>1
  <2>1. i # n => i + 1 \in 1 .. n
    BY <1>1 DEF IsList
  <2> QED BY <1>1, <2>1 DEF IsList
<1> QED BY <1>2, <1>3, <1>4, <1>5

LEMMA ListKept ==
  ASSUME NEW f, NEW b, NEW S, NEW e, ListOf(f, b, S, e),
         NEW g, \A x \in S : x \in Buffers(g) /\ g[x + 1] = f[x + 1]
  PROVE  ListOf(g, b, S, e)
<1>1. PICK n, p : IsList(f, b, n, p, e) /\ S = { p[i] : i \in 1 .. n }
  BY DEF ListOf
<1>2. \A i \in 1 .. n : p[i] \in Buffers(g) /\ After(g, p[i]) = After(f, p[i])
  BY <1>1 DEF After
<1>3. IsList(g, b, n, p, e)
  BY <1>1, <1>2 DEF IsList
<1> QED BY <1>1, <1>3 DEF ListOf

LEMMA ListPush ==
  ASSUME NEW f, NEW b, NEW S, NEW e, ListOf(f, b, S, e),
         NEW x \in Buffers(f), x \notin S, After(f, x) = b
  PROVE  ListOf(f, x, S \cup {x}, e)
<1>1. PICK n, p : IsList(f, b, n, p, e) /\ S = { p[i] : i \in 1 .. n }
  BY DEF ListOf
<1> DEFINE q == [i \in 1 .. n + 1 |-> IF i = 1 THEN x ELSE p[i - 1]]
<1>2. n \in Nat /\ n + 1 \in Nat /\ n + 1 # 0 /\ 1 \in 1 .. n + 1
  BY <1>1 DEF IsList
<1>3. \A i \in 1 .. n + 1 : i # 1 => i - 1 \in 1 .. n /\ q[i] = p[i - 1]
  BY <1>2
<1>4. q[1] = x
  BY <1>2
<1>5. \A i \in 1 .. n : i + 1 \in 1 .. n + 1 /\ q[i + 1] = p[i]
  BY <1>2
<1>6. q \in [1 .. n + 1 -> Buffers(f)]
  BY <1>1, <1>3 DEF IsList
<1> HIDE DEF q
<1>7. \A i, j \in 1 .. n + 1 : q[i] = q[j] => i = j
  <2> SUFFICES ASSUME NEW i \in 1 .. n + 1, NEW j \in 1 .. n + 1, q[i] = q[j]
               PROVE  i = j
    OBVIOUS
  <2>1. CASE i # 1 /\ j # 1
    <3>1. p[i - 1] = p[j - 1] /\ i - 1 \in 1 .. n /\ j - 1 \in 1 .. n
      BY <1>3, <2>1
    <3>2. i - 1 = j - 1
      BY <1>1, <3>1 DEF IsList
    <3> QED BY <1>2, <3>2
  <2>2. \A k \in 1 .. n + 1 : k # 1 => q[k] \in S
    BY <1>1, <1>3
  <2> QED BY <1>4, <2>1, <2>2
<1>8. \A i \in 1 .. n + 1 : After(f, q[i]) = IF i = n + 1 THEN e ELSE q[i + 1]
  <2> SUFFICES ASSUME NEW i \in 1 .. n + 1
               PROVE  After(f, q[i]) = IF i = n + 1 THEN e ELSE q[i + 1]
    OBVIOUS
  <2>1. CASE i = 1
    <3>1. After(f, q[i]) = b
      BY <1>4, <2>1
    <3>2. n = 0 => b = e
      BY <1>1 DEF IsList
    <3>3. n # 0 => 1 \in 1 .. n /\ b = p[1]
      BY <1>1, <1>2 DEF IsList
    <3>4. n # 0 => q[1 + 1] = p[1]
      BY <1>5, <3>3
    <3> QED BY <1>2, <2>1, <3>1, <3>2, <3>3, <3>4
  <2>2. CASE i # 1
    <3>1. i - 1 \in 1 .. n /\ q[i] = p[i - 1] /\ (i - 1 = n <=> i = n + 1)
      BY <1>2, <1>3, <2>2
    <3>2. After(f, p[i - 1]) = IF i - 1 = n THEN e ELSE p[(i - 1) + 1]
      BY <1>1, <3>1 DEF IsList
    <3>3. (i - 1) + 1 = i /\ (i # n + 1 => i \in 1 .. n)
      BY <1>2, <3>1
    <3>4. i # n + 1 => q[i + 1] = p[i]
      BY <1>5, <3>3
    <3> QED BY <3>1, <3>2, <3>3, <3>4
  <2> QED BY <2>1, <2>2
<1>9. IsList(f, x, n + 1, q, e)
  BY <1>2, <1>4, <1>6, <1>7, <1>8 DEF IsList
<1>10. S \cup {x} = { q[i] : i \in 1 .. n + 1 }
  <2>1. \A y \in S : \E i \in 1 .. n + 1 : y = q[i]
    BY <1>1, <1>5
  <2>2. \A i \in 1 .. n + 1 : q[i] \in S \cup {x}
    BY <1>1, <1>3, <1>4
  <2> QED BY <1>2, <1>4, <2>1, <2>2
<1> QED BY <1>9, <1>10, ListMade

LEMMA ListPop ==
  ASSUME NEW f, NEW b, NEW S, NEW e, ListOf(f, b, S, e), S # {}
  PROVE  b \in S /\ ListOf(f, After(f, b), S \ {b}, e)
<1>1. PICK n, p : IsList(f, b, n, p, e) /\ S = { p[i] : i \in 1 .. n }
  BY DEF ListOf
<1> DEFINE m == n - 1
           q == [i \in 1 .. m |-> p[i + 1]]
<1>2. n \in Nat /\ n # 0 /\ m \in Nat /\ 1 \in 1 .. n /\ b = p[1] /\ m + 1 = n
  BY <1>1 DEF IsList
<1>3. \A i \in 1 .. m : i + 1 \in 1 .. n /\ q[i] = p[i + 1] /\ i + 1 # 1
  BY <1>2
<1>4. \A i \in 1 .. n : i # 1 => i - 1 \in 1 .. m /\ (i - 1) + 1 = i
  BY <1>2
<1>5. q \in [1 .. m -> Buffers(f)]
  BY <1>1, <1>3 DEF IsList
<1> HIDE DEF q, m
<1>6. \A i, j \in 1 .. m : q[i] = q[j] => i = j
  <2> SUFFICES ASSUME NEW i \in 1 .. m, NEW j \in 1 .. m, q[i] = q[j]
               PROVE  i = j
    OBVIOUS
  <2>1. i + 1 = j + 1
    BY <1>1, <1>3 DEF IsList
  <2> QED BY <1>2, <2>1
<1>7. \A i \in 1 .. m : After(f, q[i]) = IF i = m THEN e ELSE q[i + 1]
  <2> SUFFICES ASSUME NEW i \in 1 .. m
               PROVE  After(f, q[i]) = IF i = m THEN e ELSE q[i + 1]
    OBVIOUS
  <2>1. After(f, p[i + 1]) = IF i + 1 = n THEN e ELSE p[(i + 1) + 1]
    BY <1>1, <1>3 DEF IsList
  <2>2. i + 1 = n <=> i = m
    BY <1>2
  <2>3. i # m => i + 1 \in 1 .. m
    BY <1>2
  <2> QED BY <1>3, <2>1, <2>2, <2>3
<1>8. After(f, b) = IF m = 0 THEN e ELSE q[1]
  <2>1. After(f, p[1]) = IF 1 = n THEN e ELSE p[1 + 1]
    BY <1>1, <1>2 DEF IsList
  <2>2. m # 0 => 1 \in 1 .. m
    BY <1>2
  <2>3. 1 = n <=> m = 0
    BY <1>2
  <2> QED BY <1>2, <1>3, <2>1, <2>2, <2>3
<1>9. IsList(f, After(f, b), m, q, e)
  BY <1>2, <1>5, <1>6, <1>7, <1>8 DEF IsList
<1>10. S \ {b} = { q[i] : i \in 1 .. m }
  <2>1. \A i \in 1 .. n : p[i] # b => i # 1
    BY <1>2
  <2>2. ASSUME NEW y \in S \ {b}
        PROVE  \E i \in 1 .. m : y = q[i]
    <3>1. PICK i \in 1 .. n : y = p[i]
      BY <1>1
    <3>2. i - 1 \in 1 .. m /\ (i - 1) + 1 = i
      BY <1>4, <2>1, <3>1
    <3> QED BY <1>3, <3>1, <3>2
  <2>3. \A i \in 1 .. m : q[i] \in S /\ q[i] # b
    BY <1>1, <1>2, <1>3 DEF IsList
  <2> QED BY <2>2, <2>3
<1>11. b \in S
  BY <1>1, <1>2
<1>12. ListOf(f, After(f, b), S \ {b}, e)
  BY <1>9, <1>10, ListMade
<1> QED BY <1>11, <1>12

LEMMA ListExtend ==
  ASSUME NEW f, NEW b, NEW S, NEW e, ListOf(f, b, S, e), e \in Buffers(f), e \notin S
  PROVE  ListOf(f, b, S \cup {e}, After(f, e))
<1>1. PICK n, p : IsList(f, b, n, p, e) /\ S = { p[i] : i \in 1 .. n }
  BY DEF ListOf
<1> DEFINE m == n + 1
           q == [i \in 1 .. m |-> IF i = m THEN e ELSE p[i]]
<1>2. n \in Nat /\ m \in Nat /\ m # 0 /\ m \in 1 .. m /\ m \notin 1 .. n /\ 1 \in 1 .. m
  BY <1>1 DEF IsList
<1>3. \A i \in 1 .. n : i \in 1 .. m /\ i # m /\ q[i] = p[i] /\ i + 1 \in 1 .. m
                        /\ (i = n <=> i + 1 = m) /\ (i # n => i + 1 \in 1 .. n)
  BY <1>2
<1>4. q[m] = e /\ \A i \in 1 .. m : i = m \/ i \in 1 .. n
  BY <1>2
<1>5. q \in [1 .. m -> Buffers(f)]
  BY <1>1, <1>4 DEF IsList
<1> HIDE DEF q, m
<1>6. \A i \in 1 .. n : p[i] \in S
  BY <1>1
<1>7. \A i, j \in 1 .. m : q[i] = q[j] => i = j
  <2> SUFFICES ASSUME NEW i \in 1 .. m, NEW j \in 1 .. m, q[i] = q[j]
               PROVE  i = j
    OBVIOUS
  <2>1. CASE i \in 1 .. n /\ j \in 1 .. n
    BY <1>1, <1>3, <2>1 DEF IsList
  <2>2. CASE i = m /\ j \in 1 .. n
    BY <1>3, <1>4, <1>6, <2>2
  <2>3. CASE j = m /\ i \in 1 .. n
    BY <1>3, <1>4, <1>6, <2>3
  <2> QED BY <1>4, <2>1, <2>2, <2>3
<1>8. \A i \in 1 .. m : After(f, q[i]) = IF i = m THEN After(f, e) ELSE q[i + 1]
  <2> SUFFICES ASSUME NEW i \in 1 .. n
               PROVE  After(f, q[i]) = q[i + 1]
    BY <1>3, <1>4
  <2>1. After(f, p[i]) = IF i = n THEN e ELSE p[i + 1]
    BY <1>1 DEF IsList
  <2>2. CASE i = n
    BY <1>3, <1>4, <2>1, <2>2
  <2>3. CASE i # n
    BY <1>3, <2>1, <2>3
  <2> QED BY <2>2, <2>3
<1>9. b = IF m = 0 THEN After(f, e) ELSE q[1]
  <2>1. n = 0 => m = 1
    BY <1>2 DEF m
  <2>2. n # 0 => 1 \in 1 .. n
    BY <1>2
  <2> QED BY <1>1, <1>2, <1>3, <1>4, <2>1, <2>2 DEF IsList
<1>10. IsList(f, b, m, q, After(f, e))
  BY <1>2, <1>5, <1>7, <1>8, <1>9 DEF IsList
<1>11. S \cup {e} = { q[i] : i \in 1 .. m }
  <2>1. \A y \in S : \E i \in 1 .. m : y = q[i]
    BY <1>1, <1>3
  <2>2. \A i \in 1 .. m : q[i] \in S \cup {e}
    BY <1>3, <1>4, <1>6
  <2> QED BY <1>2, <1>4, <2>1, <2>2
<1> QED BY <1>10, <1>11 DEF ListOf

(* Following the pointers meets the list and then nothing.                 *)
LEMMA PathList ==
  ASSUME NEW f, Len(f) \in Nat, NEW b, NEW n, NEW p, IsList(f, b, n, p, NullBuffer), NEW m \in Nat
  PROVE  \A i \in 1 .. m : Path(f, b, m)[i] = IF i <= n THEN p[i] ELSE NullBuffer
<1> DEFINE c == Path(f, b, m)
           To(i) == IF i <= n THEN p[i] ELSE NullBuffer
           Bad == { i \in Nat : i \in 1 .. m /\ c[i] # To(i) }
<1>1. SUFFICES ASSUME Bad # {} PROVE FALSE
  OBVIOUS
<1>2. PICK i \in Bad : \A k \in Bad : i <= k
  BY <1>1, LeastNat
<1>3. i \in Nat /\ i \in 1 .. m /\ c[i] # To(i) /\ m # 0 /\ n \in Nat
  BY <1>2 DEF IsList
<1>4. c[1] = b /\ \A k \in 2 .. m : c[k] = PathStep(f, c[k - 1])
  BY <1>3, PathIs
<1> HIDE DEF c
<1>5. CASE i = 1
  BY <1>3, <1>4, <1>5 DEF IsList
<1>6. CASE i # 1
  <2> DEFINE j == i - 1
  <2>1. j \in Nat /\ j \in 1 .. m /\ ~ (i <= j) /\ i \in 2 .. m /\ j + 1 = i
    BY <1>3, <1>6
  <2>2. c[j] = To(j) /\ c[i] = PathStep(f, c[j])
    BY <1>2, <1>4, <2>1
  <2> HIDE DEF j
  <2>3. CASE j <= n
    <3>1. j \in 1 .. n /\ c[j] = p[j]
      BY <1>3, <2>1, <2>2, <2>3
    <3>2. p[j] \in Buffers(f) /\ After(f, p[j]) = IF j = n THEN NullBuffer ELSE p[j + 1]
      BY <3>1 DEF IsList
    <3>3. c[i] = After(f, p[j])
      BY <2>2, <3>1, <3>2 DEF PathStep, After, Buffers
    <3>4. j = n <=> ~ (i <= n)
      BY <1>3, <2>1, <3>1
    <3> QED BY <1>3, <2>1, <3>2, <3>3, <3>4
  <2>4. CASE ~ (j <= n)
    <3>1. c[j] = NullBuffer /\ ~ (i <= n)
      BY <1>3, <2>1, <2>2, <2>4
    <3>2. c[i] = NullBuffer
      BY <2>2, <3>1 DEF PathStep, NullBuffer
    <3> QED BY <1>3, <3>1, <3>2
  <2> QED BY <2>3, <2>4
<1> QED BY <1>5, <1>6

LEMMA BuffersAre ==
  ASSUME NEW f, Len(f) \in Nat
  PROVE  /\ IsFiniteSet(Buffers(f)) /\ Cardinality(Buffers(f)) = Len(f)
         /\ NullBuffer \notin Buffers(f)
<1> DEFINE n == Len(f)
<1>1. n - 1 \in Int /\ 0 \in Int
  OBVIOUS
<1>2. IsFiniteSet(0 .. n - 1) /\ Cardinality(0 .. n - 1) = IF 0 > n - 1 THEN 0 ELSE (n - 1) - 0 + 1
  BY <1>1, FS_Interval
<1>3. Cardinality(0 .. n - 1) = n
  BY <1>2
<1> QED BY <1>2, <1>3 DEF Buffers, NullBuffer

LEMMA ListFits ==
  ASSUME NEW f, Len(f) \in Nat, NEW b, NEW S, NEW e, ListOf(f, b, S, e)
  PROVE  IsFiniteSet(S) /\ Cardinality(S) \in Nat /\ Cardinality(S) <= Len(f)
<1>1. S \subseteq Buffers(f)
  BY ListIs
<1>2. IsFiniteSet(Buffers(f)) /\ Cardinality(Buffers(f)) = Len(f)
  BY BuffersAre
<1>3. IsFiniteSet(S) /\ Cardinality(S) <= Cardinality(Buffers(f))
  BY <1>1, <1>2, FS_Subset
<1> QED BY <1>2, <1>3, FS_CardinalityType

LEMMA ListShort ==
  ASSUME NEW f, Len(f) \in Nat, NEW b, NEW n, NEW p, NEW e, IsList(f, b, n, p, e)
  PROVE  n <= Len(f)
<1> DEFINE T == 1 .. n
<1>0. n \in Nat /\ p \in [T -> Buffers(f)]
  BY DEF IsList
<1>1. IsFiniteSet(T) /\ Cardinality(T) = n
  BY <1>0, FS_Interval
<1>2. IsFiniteSet(Buffers(f)) /\ Cardinality(Buffers(f)) = Len(f)
  BY BuffersAre
<1>3. SUFFICES ASSUME Len(f) < n PROVE FALSE
  BY <1>0
<1>4. \A i, j \in T : p[i] = p[j] => i = j
  BY DEF IsList
<1> HIDE DEF T
<1>5. PICK i, j \in T : i # j /\ p[i] = p[j]
  BY <1>0, <1>1, <1>2, <1>3, FS_PigeonHole
<1> QED BY <1>4, <1>5

LEMMA ChainList ==
  ASSUME NEW f, Len(f) \in Nat, NEW b, NEW S, ListOf(f, b, S, NullBuffer)
  PROVE  /\ Along(f, b) = S
         /\ \A x \in S : \E i \in Steps(f) : Chain(f, b)[i] = x
         /\ \A i, j \in Steps(f) : Chain(f, b)[i] \in S /\ Chain(f, b)[i] = Chain(f, b)[j] => i = j
<1>1. PICK n, p : IsList(f, b, n, p, NullBuffer) /\ S = { p[i] : i \in 1 .. n }
  BY DEF ListOf
<1> DEFINE c == Chain(f, b)
<1>2. n \in Nat /\ n <= Len(f)
  BY <1>1, ListShort DEF IsList
<1>3. \A i \in Steps(f) : c[i] = IF i <= n THEN p[i] ELSE NullBuffer
  BY <1>1, PathList DEF Chain, Steps
<1>4. NullBuffer \notin S
  BY BuffersAre, ListIs
<1> HIDE DEF c
<1>5. \A i \in 1 .. n : i \in Steps(f) /\ i <= n /\ c[i] = p[i]
  BY <1>2, <1>3 DEF Steps
<1>6. \A i \in Steps(f) : i <= n => i \in 1 .. n
  BY <1>2 DEF Steps
<1>7. \A x \in S : \E i \in Steps(f) : c[i] = x
  BY <1>1, <1>5
<1>8. { c[i] : i \in Steps(f) } \ {NullBuffer} = S
  <2>1. \A i \in Steps(f) : c[i] = NullBuffer \/ c[i] \in S
    BY <1>1, <1>3, <1>6
  <2> QED BY <1>4, <1>7, <2>1
<1>9. ASSUME NEW i \in Steps(f), NEW j \in Steps(f), c[i] \in S, c[i] = c[j]
      PROVE  i = j
  <2>1. i <= n /\ j <= n
    BY <1>3, <1>4, <1>9
  <2>2. i \in 1 .. n /\ j \in 1 .. n /\ p[i] = p[j]
    BY <1>3, <1>6, <1>9, <2>1
  <2> QED BY <1>1, <2>2 DEF IsList
<1> QED BY <1>7, <1>8, <1>9 DEF c, Along

-----------------------------------------------------------------------------
(* Nothing is lost: the free list holds every free buffer, and each buffer *)
(* in use is met from one of the chunks L.                                 *)
FreeOnes(f) == { b \in Buffers(f) : Free(f, b) }
Uses(f, L) == UNION { Along(f, id) : id \in L }
Exact(f, b, L) ==
  /\ ListOf(f, b, FreeOnes(f), NullBuffer)
  /\ InUse(f) = Uses(f, L)

(* A chunk is a list.                                                      *)
LEMMA HoldsList ==
  ASSUME NEW f, Len(f) \in Nat, NEW id, NEW v, NEW p, HoldsValue(f, id, v, p),
         Size(v) \in Nat \ {0}
  PROVE  /\ ListOf(f, id, Range(p), NullBuffer) /\ Along(f, id) = Range(p)
         /\ f[id + 1].data[1] = v
<1> DEFINE n == Size(v)
<1>1. p \in [1 .. n -> Buffers(f)] /\ p[1] = id
  BY DEF HoldsValue
<1>2. /\ Range(p) = { p[k] : k \in 1 .. n }
      /\ \A k \in 1 .. n - 1 : After(f, p[k]) = p[k + 1]
      /\ After(f, p[n]) = NullBuffer
  BY HoldsIs
<1>3. \A k \in 1 .. n : f[p[k] + 1].data = <<v, k>>
  <2> SUFFICES ASSUME NEW k \in 1 .. n
               PROVE  f[p[k] + 1].data = <<v, k>>
    OBVIOUS
  <2>1. f[p[k] + 1] = Filled(v, k, IF k = n THEN NullBuffer ELSE p[k + 1])
    BY DEF HoldsValue
  <2> QED BY <2>1 DEF Filled
<1>4. \A i, j \in 1 .. n : p[i] = p[j] => i = j
  <2> SUFFICES ASSUME NEW i \in 1 .. n, NEW j \in 1 .. n, p[i] = p[j]
               PROVE  i = j
    OBVIOUS
  <2>1. <<v, i>> = <<v, j>>
    BY <1>3
  <2> QED BY <2>1
<1>5. \A i \in 1 .. n : After(f, p[i]) = IF i = n THEN NullBuffer ELSE p[i + 1]
  <2>1. \A i \in 1 .. n : i # n => i \in 1 .. n - 1
    OBVIOUS
  <2> QED BY <1>2, <2>1
<1>6. IsList(f, id, n, p, NullBuffer)
  BY <1>1, <1>4, <1>5 DEF IsList
<1>7. ListOf(f, id, Range(p), NullBuffer)
  BY <1>2, <1>6, ListMade
<1>8. Along(f, id) = Range(p)
  BY <1>7, ChainList
<1>9. f[id + 1].data[1] = v
  <2>1. f[id + 1].data = <<v, 1>>
    BY <1>1, <1>3
  <2> QED BY <2>1
<1> QED BY <1>7, <1>8, <1>9

LEMMA UsesIs ==
  ASSUME NEW f, Len(f) \in Nat, NEW L, NEW P, Chunks(f, L, P)
  PROVE  /\ Uses(f, L) = Using(L, P)
         /\ \A id \in L : Along(f, id) = Range(P[id]) /\ ListOf(f, id, Range(P[id]), NullBuffer)
<1>1. ASSUME NEW id \in L
      PROVE  Along(f, id) = Range(P[id]) /\ ListOf(f, id, Range(P[id]), NullBuffer)
  <2>1. PICK v \in Values : HoldsValue(f, id, v, P[id])
    BY DEF Chunks
  <2>2. Size(v) \in Nat \ {0}
    BY LinkedAssumption
  <2> QED BY <2>1, <2>2, HoldsList
<1> QED BY <1>1 DEF Uses, Using

LEMMA ExactHeads ==
  ASSUME NEW f, IsFile(f), NEW b, NEW L, NEW P, Chunks(f, L, P), Exact(f, b, L)
  PROVE  Heads(f) = L
<1>1. InUse(f) = Using(L, P)
  BY UsesIs DEF Exact, IsFile
<1>2. L \subseteq Heads(f) /\ \A y \in Using(L, P) : f[y + 1].type = "HEAD" => y \in L
  BY ChunksAre
<1>3. \A y \in Heads(f) : y \in InUse(f)
  BY DEF Heads, InUse, Used, Buffers
<1> QED BY <1>1, <1>2, <1>3 DEF Heads

LEMMA ExactGoodChunk ==
  ASSUME NEW f, IsFile(f), NEW L, NEW P, Chunks(f, L, P), NEW h \in L
  PROVE  GoodChunk(f, h)
<1> DEFINE p == P[h]
           c == Chain(f, h)
<1>1. PICK v \in Values : HoldsValue(f, h, v, p)
  BY DEF Chunks
<1>2. Size(v) \in Nat \ {0} /\ Len(f) \in Nat
  BY LinkedAssumption DEF IsFile
<1> HIDE DEF p
<1>3. /\ ListOf(f, h, Range(p), NullBuffer) /\ Along(f, h) = Range(p)
      /\ f[h + 1].data[1] = v
  BY <1>1, <1>2, HoldsList
<1>4. /\ Range(p) = { p[k] : k \in 1 .. Size(v) } /\ h \in Range(p)
      /\ \A k \in 1 .. Size(v) : Used(f, p[k])
      /\ \A k \in 1 .. Size(v) : f[p[k] + 1].type = "HEAD" => p[k] = h
  BY <1>1, <1>2, HoldsIs
<1>5. GetChunk(f, h) = Pieces(v)
  BY <1>1, <1>2, ReadsBack
<1>6. Len(Pieces(v)) = Size(v)
  BY <1>2 DEF Pieces
<1>7. c[1] = h /\ 1 \in Steps(f)
  BY <1>2, ChainIs DEF Steps
<1>8. ASSUME NEW i \in Steps(f) \ {1}, c[i] # NullBuffer
      PROVE  c[i] \in 0 .. Len(f) - 1 /\ f[c[i] + 1].type = "BODY"
  <2>1. c[i] \in Range(p)
    BY <1>3, <1>8 DEF Along
  <2>2. c[i] # h
    BY <1>2, <1>3, <1>4, <1>7, <1>8, <2>1, ChainList
  <2>3. Used(f, c[i]) /\ f[c[i] + 1].type # "HEAD"
    BY <1>4, <2>1, <2>2
  <2>4. c[i] + 1 \in 1 .. Len(f)
    BY <1>2, <2>3 DEF Used, Buffers
  <2>5. f[c[i] + 1] \in AnyBuffer
    BY <2>4 DEF IsFile
  <2> QED BY <2>3, <2>5 DEF Used, Buffers, AnyBuffer
<1> QED BY <1>3, <1>5, <1>6, <1>8 DEF GoodChunk

(* What is exact is sound.                                                 *)
LEMMA ExactIsSound ==
  ASSUME NEW f, IsFile(f), NEW b, NEW L, NEW P, Chunks(f, L, P), Exact(f, b, L)
  PROVE  Sound(f, b)
<1>0. Len(f) \in Nat
  BY DEF IsFile
<1>1. ListOf(f, b, FreeOnes(f), NullBuffer) /\ Along(f, b) = FreeOnes(f)
  BY <1>0, ChainList DEF Exact
<1>2. Heads(f) = L
  BY ExactHeads
<1>3. GoodFreeList(f, b)
  BY <1>1 DEF GoodFreeList, FreeOnes, Free, Buffers
<1>4. \A h \in Heads(f) : GoodChunk(f, h)
  BY <1>2, ExactGoodChunk
<1>5. \A h \in L : /\ ListOf(f, h, Along(f, h), NullBuffer)
                   /\ \A y \in Along(f, h) : Used(f, y)
  <2>1. Using(L, P) \subseteq InUse(f)
    BY ChunksAre
  <2>2. \A h \in L : Range(P[h]) \subseteq Using(L, P)
    BY DEF Using
  <2> QED BY <1>0, <2>1, <2>2, UsesIs DEF InUse
<1>6. \A h, k \in L : h # k => Along(f, h) \cap Along(f, k) = {}
  <2>1. \A h \in L : Along(f, h) = Range(P[h])
    BY <1>0, UsesIs
  <2>2. \A h, k \in L : h # k => Range(P[h]) \cap Range(P[k]) = {}
    BY DEF Chunks
  <2> QED BY <2>1, <2>2
<1>7. \A h \in {b} \cup L : /\ \A y \in Along(f, h) : \E i \in Steps(f) : Chain(f, h)[i] = y
                            /\ \A i, j \in Steps(f) :
                                 Chain(f, h)[i] \in Along(f, h) /\ Chain(f, h)[i] = Chain(f, h)[j] => i = j
  BY <1>0, <1>1, <1>5, ChainList
<1>8. ASSUME NEW x \in Buffers(f)
      PROVE  \E at \in Visits(f, b, x) : Visits(f, b, x) = {at}
  <2>1. PICK h \in {b} \cup L : x \in Along(f, h)
    <3>1. CASE Free(f, x)
      BY <1>1, <3>1 DEF FreeOnes
    <3>2. CASE ~ Free(f, x)
      <4>1. x \in InUse(f)
        BY <3>2 DEF InUse, Used, Free
      <4> QED BY <4>1 DEF Exact, Uses
    <3> QED BY <3>1, <3>2
  <2>2. PICK i \in Steps(f) : Chain(f, h)[i] = x
    BY <1>7, <2>1
  <2>3. <<h, i>> \in Visits(f, b, x)
    BY <1>2, <2>2 DEF Visits
  <2>4. ASSUME NEW k \in {b} \cup L, NEW j \in Steps(f), Chain(f, k)[j] = x
        PROVE  k = h /\ j = i
    <3>1. x # NullBuffer
      BY <1>0, BuffersAre
    <3>2. x \in Along(f, k)
      BY <2>4, <3>1 DEF Along
    <3>3. k = h
      BY <1>1, <1>5, <1>6, <2>1, <3>2 DEF FreeOnes, Free, Used
    <3> QED BY <1>7, <2>1, <2>2, <2>4, <3>3
  <2>5. ASSUME NEW at \in Visits(f, b, x)
        PROVE  at = <<h, i>>
    <3>1. at \in ({b} \cup L) \X Steps(f) /\ Chain(f, at[1])[at[2]] = x
      BY <1>2 DEF Visits
    <3> QED BY <2>4, <3>1
  <2>6. Visits(f, b, x) = {<<h, i>>}
    BY <2>3, <2>5
  <2> QED BY <2>3, <2>6
<1>9. OnceEach(f, b)
  BY <1>8 DEF OnceEach, Buffers
<1> QED BY <1>3, <1>4, <1>9 DEF Sound

(* What checkStructure has found sound is made of lists that end.          *)
LEMMA SoundLists ==
  ASSUME NEW f, IsFile(f), NEW b, Sound(f, b), NEW h \in Starts(f, b)
  PROVE  ListOf(f, h, Along(f, h), NullBuffer)
<1> DEFINE c == Chain(f, h)
           n == Len(f)
           Out == { i \in Nat : i \in Steps(f) /\ c[i] \notin Buffers(f) }
<1>0. n \in Nat /\ OnceEach(f, b) /\ NullBuffer \notin Buffers(f)
  BY BuffersAre DEF IsFile, Sound
<1>1. c[1] = h /\ \A i \in Steps(f) : c[i] \in Buffers(f) =>
                    /\ i \in 1 .. n /\ i + 1 \in Steps(f) \ {1} /\ c[i + 1] = After(f, c[i])
  BY <1>0, ChainIs, ChainGoesOn
<1>2. \A i, j \in Steps(f) : c[i] \in Buffers(f) /\ c[i] = c[j] => i = j
  BY <1>0, VisitedOnce
<1>3. c[n + 1] \notin Buffers(f) /\ n + 1 \in Steps(f) /\ n + 1 \in Nat
  BY <1>0, ChainEnds DEF Steps
<1>4. \A i \in Steps(f) : c[i] \in Buffers(f) \cup {NullBuffer}
  <2> SUFFICES ASSUME NEW i \in Steps(f), c[i] # NullBuffer
               PROVE  c[i] \in Buffers(f)
    OBVIOUS
  <2>1. CASE h = b
    <3>1. c[i] \in Along(f, b)
      BY <2>1 DEF Along
    <3> QED BY <3>1 DEF Sound, GoodFreeList, Buffers
  <2>2. CASE h # b
    <3>1. h \in Heads(f)
      BY <2>2 DEF Starts
    <3>2. CASE i = 1
      BY <1>1, <3>1, <3>2 DEF Heads, Buffers
    <3>3. CASE i # 1
      BY <3>1, <3>3 DEF Sound, GoodChunk, Buffers
    <3> QED BY <3>2, <3>3
  <2> QED BY <2>1, <2>2
<1> HIDE DEF c
<1>5. PICK k \in Out : \A i \in Out : k <= i
  BY <1>3, LeastNat
<1>6. k \in Nat /\ k \in 1 .. n + 1 /\ c[k] = NullBuffer /\ n \in Nat
  BY <1>0, <1>4, <1>5 DEF Steps
<1> DEFINE m == k - 1
           p == [i \in 1 .. m |-> c[i]]
<1>7. \A i \in 1 .. m : i \in Steps(f) /\ i \in Nat /\ c[i] \in Buffers(f)
  <2> SUFFICES ASSUME NEW i \in 1 .. m
               PROVE  i \in Steps(f) /\ i \in Nat /\ c[i] \in Buffers(f)
    OBVIOUS
  <2>1. i \in Steps(f) /\ i \in Nat /\ ~ (k <= i)
    BY <1>6 DEF Steps
  <2> QED BY <1>5, <2>1
<1>8. m \in Nat /\ m + 1 = k
  BY <1>6
<1>9. p \in [1 .. m -> Buffers(f)] /\ \A i \in 1 .. m : p[i] = c[i]
  BY <1>7
<1> HIDE DEF m, p
<1>10. \A i \in 1 .. m : After(f, p[i]) = IF i = m THEN NullBuffer ELSE p[i + 1]
  <2> SUFFICES ASSUME NEW i \in 1 .. m
               PROVE  After(f, p[i]) = IF i = m THEN NullBuffer ELSE p[i + 1]
    OBVIOUS
  <2>1. After(f, p[i]) = c[i + 1]
    BY <1>1, <1>7, <1>9
  <2>2. i # m => i + 1 \in 1 .. m
    BY <1>8
  <2> QED BY <1>6, <1>8, <1>9, <2>1, <2>2
<1>11. h = IF m = 0 THEN NullBuffer ELSE p[1]
  <2>1. m # 0 => 1 \in 1 .. m
    BY <1>8
  <2>2. m = 0 => k = 1
    BY <1>8
  <2> QED BY <1>1, <1>6, <1>9, <2>1, <2>2
<1>12. \A i, j \in 1 .. m : p[i] = p[j] => i = j
  BY <1>2, <1>7, <1>9
<1>13. IsList(f, h, m, p, NullBuffer)
  BY <1>8, <1>9, <1>10, <1>11, <1>12 DEF IsList
<1> DEFINE S == { p[i] : i \in 1 .. m }
<1>14. ListOf(f, h, S, NullBuffer)
  BY <1>13, ListMade
<1> HIDE DEF S
<1>15. Along(f, h) = S
  BY <1>0, <1>14, ChainList
<1> QED BY <1>14, <1>15

LEMMA SoundIsExact ==
  ASSUME NEW f, IsFile(f), NEW b, Sound(f, b)
  PROVE  /\ Exact(f, b, Heads(f))
         /\ \A h \in Heads(f) :
              /\ ListOf(f, h, Along(f, h), NullBuffer)
              /\ \A y \in Along(f, h) : f[y + 1].type = IF y = h THEN "HEAD" ELSE "BODY"
         /\ \A h, k \in Heads(f) : h # k => Along(f, h) \cap Along(f, k) = {}
<1>0. Len(f) \in Nat /\ OnceEach(f, b) /\ NullBuffer \notin Buffers(f)
  BY BuffersAre DEF IsFile, Sound
<1>1. ListOf(f, b, Along(f, b), NullBuffer)
  BY SoundLists DEF Starts
<1>2. \A h \in Heads(f) : ListOf(f, h, Along(f, h), NullBuffer)
  BY SoundLists DEF Starts
<1>3. \A x \in Along(f, b) : Free(f, x)
  BY DEF Sound, GoodFreeList, Free, Buffers
<1>4. ASSUME NEW h \in Heads(f), NEW y \in Along(f, h)
      PROVE  y \in Buffers(f) /\ f[y + 1].type = IF y = h THEN "HEAD" ELSE "BODY"
  <2>1. PICK i \in Steps(f) : Chain(f, h)[i] = y /\ y # NullBuffer
    BY DEF Along
  <2>2. Chain(f, h)[1] = h /\ h \in Buffers(f) /\ f[h + 1].type = "HEAD"
    BY ChainIs DEF Heads, Buffers
  <2>3. CASE i = 1
    BY <2>1, <2>2, <2>3
  <2>4. CASE i # 1
    <3>1. y \in Buffers(f) /\ f[y + 1].type = "BODY"
      BY <2>1, <2>4 DEF Sound, GoodChunk, Buffers
    <3> QED BY <2>2, <3>1
  <2> QED BY <2>3, <2>4
<1>5. ASSUME NEW x \in Buffers(f)
      PROVE  \E h \in Starts(f, b) : x \in Along(f, h)
  <2>1. PICK at : at \in Visits(f, b, x)
    BY <1>0 DEF OnceEach, Buffers
  <2>2. at[1] \in Starts(f, b) /\ at[2] \in Steps(f) /\ Chain(f, at[1])[at[2]] = x
    BY <2>1 DEF Visits, Starts
  <2>3. x \in Along(f, at[1])
    BY <1>0, <2>2 DEF Along
  <2> QED BY <2>2, <2>3
<1>6. Along(f, b) = FreeOnes(f)
  <2>1. Along(f, b) \subseteq FreeOnes(f)
    BY <1>3 DEF FreeOnes, Free
  <2>2. ASSUME NEW x \in FreeOnes(f)
        PROVE  x \in Along(f, b)
    <3>1. x \in Buffers(f) /\ f[x + 1].type = "FREE"
      BY DEF FreeOnes, Free
    <3> QED BY <1>4, <1>5, <3>1 DEF Starts
  <2> QED BY <2>1, <2>2
<1>7. InUse(f) = Uses(f, Heads(f))
  <2>1. \A h \in Heads(f) : Along(f, h) \subseteq InUse(f)
    BY <1>4 DEF InUse, Used
  <2>2. ASSUME NEW x \in InUse(f)
        PROVE  \E h \in Heads(f) : x \in Along(f, h)
    <3>1. x \in Buffers(f) /\ ~ Free(f, x)
      BY DEF InUse, Used, Free
    <3> QED BY <1>3, <1>5, <3>1 DEF Starts
  <2> QED BY <2>1, <2>2 DEF Uses
<1>8. ASSUME NEW h \in Heads(f), NEW k \in Heads(f), NEW x \in Along(f, h), x \in Along(f, k)
      PROVE  h = k
  <2>1. PICK i \in Steps(f), j \in Steps(f) : Chain(f, h)[i] = x /\ Chain(f, k)[j] = x
    BY <1>8 DEF Along
  <2>2. x \in Buffers(f) /\ h \in Starts(f, b) /\ k \in Starts(f, b)
    BY <1>4 DEF Starts
  <2> QED BY <1>0, <2>1, <2>2, VisitedOnce
<1> QED BY <1>1, <1>2, <1>4, <1>6, <1>7, <1>8 DEF Exact

-----------------------------------------------------------------------------
(* ReleaseBuffers, one buffer at a time.                                   *)
FreedOne(s, t) ==
  LET x == s.got
      buf == [s.file[x + 1] EXCEPT !.type = "FREE", !.next = s.head]
  IN  /\ x \in Buffers(s.file) /\ buf \in AnyBuffer
      /\ t.file = Put(s.file, x, buf) /\ Len(t.file) = Len(s.file)
      /\ t.head = x /\ t.got = After(s.file, x) /\ t.recent = s.recent /\ ~ t.err

LEMMA FreeBufferIs ==
  ASSUME NEW s, Rec(s), NEW type \in {"HEAD", "BODY"}
  PROVE  LET t == FreeBuffer(s, type)
         IN  /\ Rec(t)
             /\ \/ t = s /\ (s.err \/ s.got = NullBuffer)
                \/ /\ t = Raise(s) /\ s.got # NullBuffer
                   /\ s.got \in Buffers(s.file) => s.file[s.got + 1].type # type
                \/ FreedOne(s, t)
<1> DEFINE t == FreeBuffer(s, type)
           x == s.got
<1>0. s.file \in Seq(AnyBuffer) /\ Len(s.file) \in Nat
  BY DEF Rec, IsFile
<1>1. CASE s.err \/ s.got = NullBuffer
  <2>1. t = s
    BY <1>1 DEF FreeBuffer
  <2> QED BY <1>1, <2>1
<1>2. CASE ~ (s.err \/ s.got = NullBuffer) /\ (~ Has(s, x) \/ At(s, x).type # type)
  <2>1. t = Raise(s)
    BY <1>2 DEF FreeBuffer
  <2>2. Rec(t)
    BY <2>1, RaiseIs
  <2>3. x \in Buffers(s.file) => s.file[x + 1].type # type
    BY <1>2 DEF Has, At, Buffers
  <2> QED BY <1>2, <2>1, <2>2, <2>3
<1>3. CASE ~ (s.err \/ s.got = NullBuffer) /\ Has(s, x) /\ At(s, x).type = type
  <2> DEFINE buf == [s.file[x + 1] EXCEPT !.type = "FREE", !.next = s.head]
             g == Put(s.file, x, buf)
             y == SetBuffer(s, x, buf)
             z == [y EXCEPT !.head = x, !.dirty = TRUE]
  <2>1. /\ ~ s.err /\ x \in Buffers(s.file)
        /\ t = [DeallocateBuffer(s, x) EXCEPT !.got = After(s.file, x)]
    BY <1>3 DEF FreeBuffer, Has, At, Buffers, After
  <2>2. DeallocateBuffer(s, x) = z
    BY <2>1 DEF DeallocateBuffer, At
  <2>3. x \in 0 .. Len(s.file) /\ x # Len(s.file)
    BY <1>0, <2>1 DEF Buffers
  <2>4. buf \in AnyBuffer /\ buf.type = "FREE" /\ buf.next = s.head
    <3>1. s.file[x + 1] \in AnyBuffer
      BY <1>0, <2>1 DEF Buffers
    <3>2. s.head \in Int
      BY <1>0 DEF Rec
    <3> QED BY <3>1, <3>2 DEF AnyBuffer
  <2>5. buf.next \in -1 .. Len(s.file) + 1
    BY <1>0, <2>4 DEF Rec
  <2> HIDE DEF buf
  <2>6. /\ Rec(y) /\ ~ y.err /\ y.file = g /\ y.past = Append(s.past, s)
        /\ y.head = s.head /\ y.recent = s.recent
    BY <1>0, <2>1, <2>3, <2>4, <2>5, SetBufferIs
  <2> HIDE DEF y
  <2>7. PICK P : y \in Fields(P)
    BY <2>6 DEF Rec
  <2>8. After(s.file, x) \in -1 .. Len(s.file) + 1
    BY <1>0, <2>1 DEF Rec, IsFile
  <2>9. After(s.file, x) \in Int /\ x \in Int
    BY <1>0, <2>3, <2>8
  <2>9a. /\ z \in Fields(P) /\ z.file = g /\ z.head = x
         /\ z.recent = s.recent /\ ~ z.err
    BY <2>6, <2>7, <2>9 DEF Fields
  <2> HIDE DEF z, t
  <2>10. /\ t \in Fields(P) /\ t.file = g /\ t.head = x /\ ~ t.err
         /\ t.got = After(s.file, x) /\ t.recent = s.recent
    BY <2>1, <2>2, <2>9, <2>9a DEF Fields
  <2>12. Len(g) = IF x = Len(s.file) THEN Len(s.file) + 1 ELSE Len(s.file)
    BY <1>0, <2>3, <2>4, PutIs
  <2>13. Len(g) = Len(s.file)
    BY <2>3, <2>12
  <2> HIDE DEF g
  <2>14. IsFile(g)
    BY <2>6 DEF Rec
  <2>15. s.recent \in -1 .. Len(g) + 1 /\ x \in -1 .. Len(g) + 1
         /\ After(s.file, x) \in -1 .. Len(g) + 1
    BY <1>0, <2>8, <2>13 DEF Rec
  <2>16. Rec(t)
    BY <2>10, <2>14, <2>15 DEF Rec
  <2>17. FreedOne(s, t)
    BY <2>1, <2>4, <2>10, <2>13 DEF FreedOne, buf, g
  <2> QED BY <2>16, <2>17 DEF t
<1> QED BY <1>1, <1>2, <1>3

(* The buffers G of f are free in g, and the others as they were.          *)
Freed(g, f, G) ==
  /\ Len(g) = Len(f) /\ G \subseteq Buffers(f)
  /\ \A y \in G : Free(g, y)
  /\ \A y \in Buffers(f) \ G : g[y + 1] = f[y + 1]

LEMMA FreedSets ==
  ASSUME NEW f, NEW g, NEW G, Freed(g, f, G)
  PROVE  /\ FreeOnes(g) = FreeOnes(f) \cup G /\ InUse(g) = InUse(f) \ G
         /\ Buffers(g) = Buffers(f)
<1>1. Buffers(g) = Buffers(f)
  BY DEF Freed, Buffers
<1>2. \A y \in Buffers(f) : y \in G => Free(g, y)
  BY DEF Freed
<1>3. \A y \in Buffers(f) : y \notin G => g[y + 1] = f[y + 1]
  BY DEF Freed
<1>4. G \subseteq Buffers(f)
  BY DEF Freed
<1>5. FreeOnes(g) = FreeOnes(f) \cup G
  BY <1>1, <1>2, <1>3, <1>4 DEF FreeOnes, Free
<1>6. InUse(g) = InUse(f) \ G
  BY <1>1, <1>2, <1>3, <1>4 DEF InUse, Used, Free
<1> QED BY <1>1, <1>5, <1>6

LEMMA FreedOneIs ==
  ASSUME NEW s, NEW t, Rec(s), FreedOne(s, t)
  PROVE  Freed(t.file, s.file, {s.got}) /\ After(t.file, s.got) = s.head
<1> DEFINE x == s.got
           buf == [s.file[x + 1] EXCEPT !.type = "FREE", !.next = s.head]
<1>0. s.file \in Seq(AnyBuffer) /\ Len(s.file) \in Nat
  BY DEF Rec, IsFile
<1>1. /\ x \in Buffers(s.file) /\ buf \in AnyBuffer
      /\ t.file = Put(s.file, x, buf) /\ Len(t.file) = Len(s.file)
  BY DEF FreedOne
<1>2. buf.type = "FREE" /\ buf.next = s.head
  <2>1. s.file[x + 1] \in AnyBuffer
    BY <1>0, <1>1 DEF Buffers
  <2> QED BY <2>1 DEF AnyBuffer
<1>3. x \in 0 .. Len(s.file)
  BY <1>0, <1>1 DEF Buffers
<1> HIDE DEF buf, x
<1>4. /\ x \in Buffers(t.file) /\ t.file[x + 1] = buf
      /\ \A c \in Buffers(s.file) : c # x => t.file[c + 1] = s.file[c + 1]
  BY <1>0, <1>1, <1>3, PutIs
<1>5. Free(t.file, x) /\ After(t.file, x) = s.head
  BY <1>2, <1>4 DEF Free, After
<1>6. Freed(t.file, s.file, {x})
  BY <1>1, <1>4, <1>5 DEF Freed
<1> QED BY <1>5, <1>6 DEF x

LEMMA FreedMore ==
  ASSUME NEW f, NEW g, NEW h, NEW G, NEW H, Freed(g, f, G), Freed(h, g, H)
  PROVE  Freed(h, f, G \cup H)
<1>1. Buffers(g) = Buffers(f) /\ Len(h) = Len(f)
  BY FreedSets DEF Freed
<1>2. G \cup H \subseteq Buffers(f)
  BY <1>1 DEF Freed
<1>3. \A y \in G \cup H : Free(h, y)
  <2>1. \A y \in G : y \in FreeOnes(g)
    BY DEF Freed, FreeOnes, Free
  <2>2. FreeOnes(h) = FreeOnes(g) \cup H
    BY FreedSets
  <2> QED BY <2>1, <2>2 DEF FreeOnes
<1>4. \A y \in Buffers(f) \ (G \cup H) : h[y + 1] = f[y + 1]
  <2>1. \A y \in Buffers(f) \ G : g[y + 1] = f[y + 1]
    BY DEF Freed
  <2>2. \A y \in Buffers(g) \ H : h[y + 1] = g[y + 1]
    BY DEF Freed
  <2> QED BY <1>1, <2>1, <2>2
<1> QED BY <1>1, <1>2, <1>3, <1>4 DEF Freed

(* A list that frees leave alone.                                          *)
LEMMA FreedKeeps ==
  ASSUME NEW f, NEW g, NEW G, Freed(g, f, G), NEW b, NEW S, NEW e, ListOf(f, b, S, e),
         S \cap G = {}
  PROVE  ListOf(g, b, S, e)
<1>1. S \subseteq Buffers(f)
  BY ListIs
<1>2. Buffers(g) = Buffers(f)
  BY FreedSets
<1>3. \A x \in S : x \in Buffers(g) /\ g[x + 1] = f[x + 1]
  BY <1>1, <1>2 DEF Freed
<1> QED BY <1>3, ListKept

(* The chunk of the buffers D may be released.                             *)
Releasable(s, id, D) ==
  /\ ~ s.err /\ ListOf(s.file, s.head, FreeOnes(s.file), NullBuffer)
  /\ ListOf(s.file, id, D, NullBuffer) /\ id \in D
  /\ \A y \in D : s.file[y + 1].type = IF y = id THEN "HEAD" ELSE "BODY"

(* After i turns D is left of it.                                          *)
Rest(x, s, id, All, i, D) ==
  /\ D \subseteq All /\ Freed(x.file, s.file, All \ D)
  /\ ListOf(x.file, x.head, FreeOnes(s.file) \cup (All \ D), NullBuffer)
  /\ ListOf(x.file, x.got, D, NullBuffer)
  /\ IF i = 0 THEN x.got = id /\ D = All ELSE id \notin D
  /\ D = {} \/ Cardinality(D) + i <= Len(s.file)

LEMMA RestTurn ==
  ASSUME NEW s, Rec(s), NEW id, NEW All, Releasable(s, id, All), NEW i \in Nat \ {0},
         NEW x, Rec(x), ~ x.err, NEW D, Rest(x, s, id, All, i - 1, D)
  PROVE  LET t == FreeBuffer(x, IF i = 1 THEN "HEAD" ELSE "BODY")
         IN  ~ t.err /\ \E E : Rest(t, s, id, All, i, E)
<1> DEFINE type == IF i = 1 THEN "HEAD" ELSE "BODY"
           t == FreeBuffer(x, type)
           b == x.got
           E == D \ {b}
<1>0. type \in {"HEAD", "BODY"}
  OBVIOUS
<1>1. /\ Rec(t)
      /\ \/ t = x /\ (x.err \/ b = NullBuffer)
         \/ /\ t = Raise(x) /\ b # NullBuffer
            /\ b \in Buffers(x.file) => x.file[b + 1].type # type
         \/ FreedOne(x, t)
  BY <1>0, FreeBufferIs
<1> SUFFICES ~ t.err /\ \E F : Rest(t, s, id, All, i, F)
  OBVIOUS
<1> HIDE DEF t
<1>2. /\ D \subseteq All /\ Freed(x.file, s.file, All \ D)
      /\ ListOf(x.file, x.head, FreeOnes(s.file) \cup (All \ D), NullBuffer)
      /\ ListOf(x.file, b, D, NullBuffer)
      /\ IF i - 1 = 0 THEN b = id /\ D = All ELSE id \notin D
      /\ D = {} \/ Cardinality(D) + (i - 1) <= Len(s.file)
  BY DEF Rest
<1>3. Len(x.file) \in Nat /\ Len(s.file) \in Nat
  BY DEF Rec, IsFile
<1>4. Buffers(x.file) = Buffers(s.file) /\ NullBuffer \notin Buffers(s.file)
  BY <1>2, <1>3, FreedSets, BuffersAre
<1>5. /\ D \subseteq Buffers(x.file) /\ (D = {} => b = NullBuffer) /\ (D # {} => b \in D)
  BY <1>2, ListIs
<1>6. id \in All /\ \A y \in All : s.file[y + 1].type = IF y = id THEN "HEAD" ELSE "BODY"
  BY DEF Releasable
<1>7. CASE b = NullBuffer
  <2>1. D = {}
    BY <1>4, <1>5, <1>7
  <2>2. b \notin Buffers(x.file)
    BY <1>4, <1>7
  <2>3. ~ FreedOne(x, t)
    BY <2>2 DEF FreedOne
  <2>4. t = x
    BY <1>1, <1>7, <2>3
  <2>5. i # 0 /\ i - 1 # 0
    BY <1>2, <1>6, <2>1
  <2>6. Rest(t, s, id, All, i, D)
    BY <1>2, <2>1, <2>4, <2>5 DEF Rest
  <2> QED BY <2>4, <2>6
<1>8. CASE b # NullBuffer
  <2>1. b \in D /\ b \in Buffers(x.file) /\ b \in All
    BY <1>2, <1>5, <1>8
  <2>2. x.file[b + 1].type = type
    <3>1. x.file[b + 1] = s.file[b + 1]
      BY <1>2, <1>4, <2>1 DEF Freed
    <3>2. s.file[b + 1].type = IF b = id THEN "HEAD" ELSE "BODY"
      BY <1>6, <2>1
    <3>3. b = id <=> i = 1
      BY <1>2, <2>1
    <3> QED BY <3>1, <3>2, <3>3
  <2>3. FreedOne(x, t)
    BY <1>1, <1>8, <2>1, <2>2
  <2> HIDE DEF type
  <2>4. Freed(t.file, x.file, {b}) /\ After(t.file, b) = x.head
    BY <2>3, FreedOneIs
  <2>5. ~ t.err /\ t.head = b /\ t.got = After(x.file, b)
    BY <2>3 DEF FreedOne
  <2>6. All \ E = (All \ D) \cup {b}
    BY <1>2, <2>1
  <2>7. Freed(t.file, s.file, All \ E)
    <3> DEFINE G == All \ D
    <3>1. Freed(x.file, s.file, G) /\ Freed(t.file, x.file, {b})
      BY <1>2, <2>4
    <3> HIDE DEF G, E
    <3>2. Freed(t.file, s.file, G \cup {b})
      BY ONLY <3>1, FreedMore
    <3>3. All \ E = G \cup {b}
      BY <2>6 DEF G
    <3> QED BY <3>2, <3>3
  <2> DEFINE S == FreeOnes(s.file) \cup (All \ D)
  <2>8. b \notin S
    <3>1. s.file[b + 1].type # "FREE"
      BY <1>6, <2>1
    <3> QED BY <2>1, <3>1 DEF FreeOnes, Free
  <2>9. ListOf(t.file, b, S \cup {b}, NullBuffer)
    <3>1. S \cap {b} = {} /\ ListOf(x.file, x.head, S, NullBuffer)
      BY <1>2, <2>8
    <3> HIDE DEF S
    <3>2. ListOf(t.file, x.head, S, NullBuffer)
      BY <2>4, <3>1, FreedKeeps
    <3>3. b \in Buffers(t.file)
      BY <2>4 DEF Freed, Free
    <3> QED BY <2>4, <2>8, <3>2, <3>3, ListPush
  <2>10. FreeOnes(s.file) \cup (All \ E) = S \cup {b}
    BY <2>6
  <2> HIDE DEF S
  <2>11. ListOf(t.file, After(x.file, b), E, NullBuffer)
    <3>1. ListOf(x.file, After(x.file, b), E, NullBuffer)
      BY <1>2, <2>1, ListPop
    <3>2. E \cap {b} = {}
      OBVIOUS
    <3> HIDE DEF E
    <3> QED BY <2>4, <3>1, <3>2, FreedKeeps
  <2>12. id \notin E
    BY <1>2, <2>1
  <2>13. Cardinality(E) + i <= Len(s.file)
    <3>1. IsFiniteSet(D) /\ Cardinality(D) \in Nat
      BY <1>2, <1>3, ListFits
    <3>2. Cardinality(E) = Cardinality(D) - 1
      BY <2>1, <3>1, FS_RemoveElement
    <3> QED BY <1>2, <1>3, <2>1, <3>1, <3>2
  <2>14. E \subseteq All /\ i # 0
    BY <1>2
  <2> HIDE DEF E
  <2>15. Rest(t, s, id, All, i, E)
    BY <2>5, <2>7, <2>9, <2>10, <2>11, <2>12, <2>13, <2>14 DEF Rest
  <2> QED BY <2>5, <2>15
<1> QED BY <1>7, <1>8

FreeingOK(x, s, id, All, i) ==
  /\ Rec(x) /\ x.recent = s.recent /\ Len(x.file) = Len(s.file)
  /\ Releasable(s, id, All) => ~ x.err /\ \E D : Rest(x, s, id, All, i, D)

LEMMA FreeingTurn ==
  ASSUME NEW s, Rec(s), NEW id, NEW All, NEW i \in Nat \ {0}, NEW x,
         FreeingOK(x, s, id, All, i - 1)
  PROVE  FreeingOK(FreeStep(x, i), s, id, All, i)
<1> DEFINE type == IF i = 1 THEN "HEAD" ELSE "BODY"
           t == FreeBuffer(x, type)
<1>0. type \in {"HEAD", "BODY"} /\ Rec(x) /\ x.recent = s.recent /\ Len(x.file) = Len(s.file)
  BY DEF FreeingOK
<1>1. FreeStep(x, i) = t
  BY DEF FreeStep
<1>2. /\ Rec(t) /\ (t = x \/ t = Raise(x) \/ FreedOne(x, t))
  BY <1>0, FreeBufferIs
<1>3. Releasable(s, id, All) => ~ t.err /\ \E D : Rest(t, s, id, All, i, D)
  <2> SUFFICES ASSUME Releasable(s, id, All)
               PROVE  ~ t.err /\ \E D : Rest(t, s, id, All, i, D)
    OBVIOUS
  <2>1. PICK D : ~ x.err /\ Rest(x, s, id, All, i - 1, D)
    BY DEF FreeingOK
  <2> QED BY <1>0, <2>1, RestTurn
<1> HIDE DEF t
<1>4. t.recent = s.recent /\ Len(t.file) = Len(s.file)
  BY <1>0, <1>2, RaiseIs DEF FreedOne
<1> QED BY <1>1, <1>2, <1>3, <1>4 DEF FreeingOK

LEMMA ReleasedOK ==
  ASSUME NEW s, Rec(s), NEW id \in 0 .. Len(s.file), NEW All
  PROVE  LET t == Released(s, id)
         IN  /\ Rec(t) /\ t.recent = s.recent /\ Len(t.file) = Len(s.file)
             /\ Releasable(s, id, All) =>
                  /\ ~ t.err /\ Freed(t.file, s.file, All)
                  /\ ListOf(t.file, t.head, FreeOnes(t.file), NullBuffer)
<1> DEFINE g == FreeTurns(s, id)
           n == Len(s.file)
           a == [s EXCEPT !.got = id]
           t == Released(s, id)
           Bad == { i \in Nat : i \in 0 .. n + 1 /\ ~ FreeingOK(g[i], s, id, All, i) }
<1>0. n \in Nat
  BY DEF Rec, IsFile
<1>1. /\ g[0] = a /\ \A i \in 1 .. n + 1 : g[i] = FreeStep(g[i - 1], i)
      /\ t = g[n + 1]
  BY <1>0, FreeTurnsAre
<1>2. FreeingOK(a, s, id, All, 0)
  <2>1. PICK P : s \in Fields(P)
    BY DEF Rec
  <2>2. id \in Int /\ id \in -1 .. n + 1
    BY <1>0
  <2>3. /\ a \in Fields(P) /\ a.file = s.file /\ a.head = s.head /\ a.recent = s.recent
        /\ a.got = id /\ a.err = s.err
    BY <2>1, <2>2 DEF Fields
  <2> HIDE DEF a
  <2>4. Rec(a)
    BY <2>2, <2>3 DEF Rec
  <2>5. ASSUME Releasable(s, id, All)
        PROVE  ~ a.err /\ Rest(a, s, id, All, 0, All)
    <3>1. /\ ~ s.err /\ ListOf(s.file, s.head, FreeOnes(s.file), NullBuffer)
          /\ ListOf(s.file, id, All, NullBuffer)
      BY <2>5 DEF Releasable
    <3>2. All \ All = {} /\ FreeOnes(s.file) \cup {} = FreeOnes(s.file)
      OBVIOUS
    <3>3. Freed(s.file, s.file, {})
      BY DEF Freed
    <3>4. Cardinality(All) + 0 <= Len(s.file)
      BY <1>0, <3>1, ListFits
    <3>5. Rest(a, s, id, All, 0, All)
      BY <2>3, <3>1, <3>2, <3>3, <3>4 DEF Rest
    <3> QED BY <2>3, <3>1, <3>5
  <2> QED BY <2>3, <2>4, <2>5 DEF FreeingOK
<1> HIDE DEF g, a, t
<1>3. ASSUME Bad # {}
      PROVE  FALSE
  <2>1. PICK i \in Bad : \A k \in Bad : i <= k
    BY <1>3, LeastNat
  <2>2. i # 0
    BY <1>1, <1>2, <2>1
  <2>3. i \in 1 .. n + 1 /\ i \in Nat \ {0} /\ i - 1 \in Nat /\ i - 1 \in 0 .. n + 1 /\ ~ (i <= i - 1)
    BY <1>0, <2>1, <2>2
  <2>4. FreeingOK(g[i - 1], s, id, All, i - 1)
    BY <2>1, <2>3
  <2>5. FreeingOK(g[i], s, id, All, i)
    BY <1>1, <2>3, <2>4, FreeingTurn
  <2> QED BY <2>1, <2>5
<1>4. FreeingOK(t, s, id, All, n + 1)
  <2>1. n + 1 \in Nat /\ n + 1 \in 0 .. n + 1
    BY <1>0
  <2> QED BY <1>1, <1>3, <2>1
<1>5. ASSUME Releasable(s, id, All)
      PROVE  /\ ~ t.err /\ Freed(t.file, s.file, All)
             /\ ListOf(t.file, t.head, FreeOnes(t.file), NullBuffer)
  <2>1. PICK D : ~ t.err /\ Rest(t, s, id, All, n + 1, D)
    BY <1>4, <1>5 DEF FreeingOK
  <2>2. /\ Freed(t.file, s.file, All \ D)
        /\ ListOf(t.file, t.head, FreeOnes(s.file) \cup (All \ D), NullBuffer)
        /\ ListOf(t.file, t.got, D, NullBuffer)
        /\ D = {} \/ Cardinality(D) + (n + 1) <= n
    BY <2>1 DEF Rest
  <2>3. Len(t.file) \in Nat
    BY <1>4 DEF FreeingOK, Rec, IsFile
  <2>4. Cardinality(D) \in Nat
    BY <2>2, <2>3, ListFits
  <2>5. D = {} /\ All \ D = All
    BY <1>0, <2>2, <2>4
  <2>6. FreeOnes(t.file) = FreeOnes(s.file) \cup All
    BY <2>2, <2>5, FreedSets
  <2> QED BY <2>1, <2>2, <2>5, <2>6
<1> QED BY <1>4, <1>5 DEF FreeingOK, t

(* The heads that ReleaseAll has come past after i turns.                  *)
Passed(chunks, n, i) == { h \in chunks : h >= n - i }

(* The chunks of a file, as lists.                                         *)
Lists(f, L) ==
  /\ \A h \in L : /\ h \in Buffers(f) /\ ListOf(f, h, Along(f, h), NullBuffer)
                  /\ \A y \in Along(f, h) : f[y + 1].type = IF y = h THEN "HEAD" ELSE "BODY"
  /\ \A h, k \in L : h # k => Along(f, h) \cap Along(f, k) = {}

ReleasingOK(x, s, M) ==
  /\ Rec(x) /\ x.recent = s.recent /\ ~ x.err
  /\ Freed(x.file, s.file, Uses(s.file, M))
  /\ ListOf(x.file, x.head, FreeOnes(x.file), NullBuffer)

LEMMA ReleasingOne ==
  ASSUME NEW s, Rec(s), NEW L, Lists(s.file, L), NEW M, M \subseteq L, NEW b \in L, b \notin M,
         NEW x, ReleasingOK(x, s, M)
  PROVE  ReleasingOK(Released(x, b), s, M \cup {b})
<1> DEFINE f == s.file
           A == Along(f, b)
           G == Uses(f, M)
           t == Released(x, b)
<1>1. /\ Rec(x) /\ x.recent = s.recent /\ ~ x.err /\ Freed(x.file, f, G)
      /\ ListOf(x.file, x.head, FreeOnes(x.file), NullBuffer)
  BY DEF ReleasingOK
<1>2. Len(f) \in Nat /\ Len(x.file) = Len(f) /\ Buffers(x.file) = Buffers(f) /\ NullBuffer \notin Buffers(f)
  <2>1. Len(f) \in Nat
    BY DEF Rec, IsFile
  <2>2. Len(x.file) = Len(f) /\ Buffers(x.file) = Buffers(f)
    BY <1>1, FreedSets DEF Freed
  <2> QED BY <2>1, <2>2, BuffersAre
<1>3. /\ b \in Buffers(f) /\ ListOf(f, b, A, NullBuffer)
      /\ \A y \in A : f[y + 1].type = IF y = b THEN "HEAD" ELSE "BODY"
  BY DEF Lists
<1>4. A \cap G = {}
  <2>1. \A h \in M : Along(f, h) \cap A = {}
    BY DEF Lists
  <2> QED BY <2>1 DEF Uses
<1>5. A \subseteq Buffers(f) /\ b \in A
  BY <1>2, <1>3, ListIs
<1> HIDE DEF A, G
<1>6. ListOf(x.file, b, A, NullBuffer)
  BY <1>1, <1>3, <1>4, FreedKeeps
<1>7. \A y \in A : x.file[y + 1] = f[y + 1]
  BY <1>1, <1>4, <1>5 DEF Freed
<1>8. Releasable(x, b, A)
  BY <1>1, <1>3, <1>5, <1>6, <1>7 DEF Releasable
<1>9. b \in 0 .. Len(x.file)
  BY <1>2, <1>3 DEF Buffers
<1>10. /\ Rec(t) /\ t.recent = x.recent /\ ~ t.err /\ Freed(t.file, x.file, A)
       /\ ListOf(t.file, t.head, FreeOnes(t.file), NullBuffer)
  BY <1>1, <1>8, <1>9, ReleasedOK
<1> HIDE DEF t
<1>11. Freed(t.file, f, G \cup A)
  BY <1>1, <1>10, FreedMore
<1>12. G \cup A = Uses(f, M \cup {b})
  BY DEF Uses, G, A
<1> QED BY <1>1, <1>10, <1>11, <1>12 DEF ReleasingOK, t

LEMMA ReleasingAll ==
  ASSUME NEW s, Rec(s), ~ s.err, NEW L, Lists(s.file, L), NEW chunks, chunks \subseteq L,
         ListOf(s.file, s.head, FreeOnes(s.file), NullBuffer)
  PROVE  ReleasingOK(ReleaseAll(s, chunks), s, chunks)
<1> DEFINE g == ReleaseTurns(s, chunks)
           n == Len(s.file)
           OK(i) == ReleasingOK(g[i], s, Passed(chunks, n, i))
           Bad == { i \in Nat : i \in 0 .. n /\ ~ OK(i) }
<1>0. n \in Nat
  BY DEF Rec, IsFile
<1>1. /\ g[0] = s /\ \A i \in 1 .. n : g[i] = ReleaseStep(n, chunks, g[i - 1], i)
      /\ ReleaseAll(s, chunks) = g[n]
  BY <1>0, ReleaseTurnsAre
<1> HIDE DEF g
<1>2. \A h \in chunks : h \in 0 .. n - 1
  BY DEF Lists, Buffers
<1>3. OK(0)
  <2>1. Passed(chunks, n, 0) = {}
    BY <1>0, <1>2 DEF Passed
  <2>2. Uses(s.file, {}) = {}
    BY DEF Uses
  <2>3. Freed(s.file, s.file, {})
    BY DEF Freed
  <2> QED BY <1>1, <2>1, <2>2, <2>3 DEF ReleasingOK
<1>4. ASSUME NEW i \in 1 .. n, OK(i - 1)
      PROVE  OK(i)
  <2> DEFINE b == n - i
             x == g[i - 1]
             M == Passed(chunks, n, i - 1)
  <2>1. g[i] = IF b \in chunks THEN Released(x, b) ELSE x
    BY <1>1 DEF ReleaseStep
  <2>2. b \notin M /\ M \subseteq L
    BY <1>0 DEF Passed
  <2>3. Passed(chunks, n, i) = IF b \in chunks THEN M \cup {b} ELSE M
    <3>1. \A h \in chunks : h >= n - i <=> h >= n - (i - 1) \/ h = b
      BY <1>0, <1>2
    <3> QED BY <3>1 DEF Passed
  <2>4. ReleasingOK(x, s, M)
    BY <1>4
  <2> HIDE DEF b, x, M
  <2>5. b \in chunks => ReleasingOK(Released(x, b), s, M \cup {b})
    BY <2>2, <2>4, ReleasingOne
  <2> QED BY <2>1, <2>3, <2>4, <2>5
<1> HIDE DEF OK
<1>5. ASSUME Bad # {}
      PROVE  FALSE
  <2>1. PICK i \in Bad : \A k \in Bad : i <= k
    BY <1>5, LeastNat
  <2>2. i # 0
    BY <1>3, <2>1
  <2>3. i \in 1 .. n /\ i - 1 \in Nat /\ i - 1 \in 0 .. n /\ ~ (i <= i - 1)
    BY <1>0, <2>1, <2>2
  <2>4. OK(i - 1)
    BY <2>1, <2>3
  <2> QED BY <1>4, <2>1, <2>3, <2>4
<1>6. OK(n)
  <2>1. n \in Nat /\ n \in 0 .. n
    BY <1>0
  <2> QED BY <1>5, <2>1
<1>7. Passed(chunks, n, n) = chunks
  BY <1>0, <1>2 DEF Passed
<1> QED BY <1>1, <1>6, <1>7 DEF OK

(* Of exact lists, those of L are left when the others are freed.          *)
LEMMA FreedExact ==
  ASSUME NEW f, Len(f) \in Nat, NEW H, Lists(f, H), InUse(f) = Uses(f, H), NEW L, L \subseteq H,
         NEW g, Freed(g, f, Uses(f, H \ L)), NEW b, ListOf(g, b, FreeOnes(g), NullBuffer)
  PROVE  Exact(g, b, L)
<1> DEFINE G == Uses(f, H \ L)
<1>1. \A h \in L : Along(f, h) \cap G = {}
  <2> SUFFICES ASSUME NEW h \in L, NEW k \in H \ L
               PROVE  Along(f, h) \cap Along(f, k) = {}
    BY DEF Uses
  <2> QED BY DEF Lists
<1>2. \A h \in L : ListOf(f, h, Along(f, h), NullBuffer)
  BY DEF Lists
<1>3. Len(g) \in Nat
  BY DEF Freed
<1>4. InUse(g) = InUse(f) \ G
  BY FreedSets
<1>5. Uses(f, H) \ G = Uses(f, L)
  <2>1. Uses(f, L) \cap G = {}
    BY <1>1 DEF Uses
  <2>2. Uses(f, H) = Uses(f, L) \cup G
    BY DEF Uses
  <2> QED BY <2>1, <2>2
<1> HIDE DEF G
<1>6. \A h \in L : Along(g, h) = Along(f, h)
  <2> SUFFICES ASSUME NEW h \in L
               PROVE  Along(g, h) = Along(f, h)
    OBVIOUS
  <2>1. ListOf(g, h, Along(f, h), NullBuffer)
    BY <1>1, <1>2, FreedKeeps DEF G
  <2> QED BY <1>3, <2>1, ChainList
<1>7. Uses(g, L) = Uses(f, L)
  BY <1>6 DEF Uses
<1> QED BY <1>4, <1>5, <1>7 DEF Exact

LEMMA RecoveredOK ==
  ASSUME NEW s, Rec(s), ~ s.err, NEW L
  PROVE  LET t == Recovered(s, L)
         IN  /\ Rec(t) /\ t.recent = s.recent /\ Len(t.file) = Len(s.file)
             /\ ~ t.err => Exact(t.file, t.head, L)
<1> DEFINE t == Recovered(s, L)
           f == s.file
           H == Heads(f)
<1>1. CASE ~ Sound(f, s.head) \/ ~ L \subseteq H
  <2>1. t = Raise(s)
    BY <1>1 DEF Recovered
  <2> HIDE DEF t
  <2>2. Rec(t) /\ t.err /\ t.file = s.file /\ t.recent = s.recent
    BY <2>1, RaiseIs
  <2> QED BY <2>2 DEF t
<1>2. CASE Sound(f, s.head) /\ L \subseteq H
  <2>1. t = ReleaseAll(s, H \ L)
    BY <1>2 DEF Recovered
  <2>2. IsFile(f) /\ Len(f) \in Nat
    BY DEF Rec, IsFile
  <2>3. /\ Exact(f, s.head, H)
        /\ \A h \in H :
             /\ ListOf(f, h, Along(f, h), NullBuffer)
             /\ \A y \in Along(f, h) : f[y + 1].type = IF y = h THEN "HEAD" ELSE "BODY"
        /\ \A h, k \in H : h # k => Along(f, h) \cap Along(f, k) = {}
    BY <1>2, <2>2, SoundIsExact
  <2>4. \A h \in H : h \in Buffers(f)
    BY DEF Heads, Buffers
  <2> HIDE DEF t, H
  <2>5. Lists(f, H)
    BY <2>3, <2>4 DEF Lists
  <2>6. ListOf(f, s.head, FreeOnes(f), NullBuffer) /\ InUse(f) = Uses(f, H)
    BY <2>3 DEF Exact
  <2>7. H \ L \subseteq H
    OBVIOUS
  <2>8. ReleasingOK(t, s, H \ L)
    BY <2>1, <2>5, <2>6, <2>7, ReleasingAll
  <2>9. /\ Rec(t) /\ t.recent = s.recent /\ ~ t.err
        /\ Freed(t.file, f, Uses(f, H \ L))
        /\ ListOf(t.file, t.head, FreeOnes(t.file), NullBuffer)
    BY <2>8 DEF ReleasingOK
  <2>10. Exact(t.file, t.head, L)
    BY <1>2, <2>2, <2>5, <2>6, <2>9, FreedExact DEF H
  <2> QED BY <2>9, <2>10 DEF Freed, t
<1> QED BY <1>1, <1>2

-----------------------------------------------------------------------------
(* StoreNewChunk, with nothing lost.  A buffer b of u is written.          *)
Written(u, t, b, next) ==
  /\ Rec(t) /\ ~ t.err /\ t.head = u.head /\ t.recent = u.recent /\ t.got = u.got
  /\ Len(t.file) = IF b = Len(u.file) THEN Len(u.file) + 1 ELSE Len(u.file)
  /\ b \in Buffers(t.file) /\ After(t.file, b) = next
  /\ \A c \in Buffers(u.file) \ {b} : c \in Buffers(t.file) /\ t.file[c + 1] = u.file[c + 1]
  /\ FreeOnes(t.file) = FreeOnes(u.file) \ {b}
  /\ InUse(t.file) = InUse(u.file) \cup {b}

LEMMA WriteIs ==
  ASSUME NEW u, Rec(u), ~ u.err, NEW b \in 0 .. Len(u.file), NEW v \in Values, NEW k \in 1 .. Size(v),
         NEW next \in -1 .. Len(u.file) + 1
  PROVE  Written(u, StoreBuffer(u, b, v, k, next), b, next)
<1> DEFINE buf == Filled(v, k, next)
           t == SetBuffer(u, b, buf)
           g == Put(u.file, b, buf)
<1>0. u.file \in Seq(AnyBuffer) /\ Len(u.file) \in Nat
  BY DEF Rec, IsFile
<1>1. StoreBuffer(u, b, v, k, next) = t
  BY DEF StoreBuffer, Filled, Kind
<1>2. buf \in AnyBuffer /\ buf.type # "FREE" /\ buf.next = next
  <2>1. next \in Int /\ <<v, k>> \in Piece
    BY <1>0 DEF Piece
  <2> QED BY <2>1 DEF Filled, Kind, AnyBuffer
<1> HIDE DEF buf
<1>3. /\ Rec(t) /\ ~ t.err /\ t.file = g
      /\ t.head = u.head /\ t.recent = u.recent /\ t.got = u.got
  BY <1>2, SetBufferIs
<1>4. /\ Len(g) = IF b = Len(u.file) THEN Len(u.file) + 1 ELSE Len(u.file)
      /\ b \in Buffers(g) /\ g[b + 1] = buf
      /\ \A c \in Buffers(u.file) : c \in Buffers(g) /\ (c # b => g[c + 1] = u.file[c + 1])
      /\ \A c \in Buffers(g) : c # b => c \in Buffers(u.file)
  <2>1. /\ g \in Seq(AnyBuffer)
        /\ Len(g) \in Nat
        /\ Len(g) = IF b = Len(u.file) THEN Len(u.file) + 1 ELSE Len(u.file)
        /\ b \in Buffers(g)
        /\ g[b + 1] = buf
        /\ \A c \in Buffers(u.file) : /\ c \in Buffers(g)
                                      /\ c # b => g[c + 1] = u.file[c + 1]
        /\ \A c \in Buffers(g) : c # b => c \in Buffers(u.file)
    BY <1>0, <1>2, PutIs
  <2> HIDE DEF g
  <2> QED BY <2>1
<1> HIDE DEF t, g
<1>5. After(g, b) = next /\ ~ Free(g, b) /\ Used(g, b)
  BY <1>2, <1>4 DEF After, Free, Used
<1>6. \A c : c # b => (Free(g, c) <=> Free(u.file, c)) /\ (Used(g, c) <=> Used(u.file, c))
  BY <1>4 DEF Free, Used
<1>7. FreeOnes(g) = FreeOnes(u.file) \ {b}
  <2>1. \A f, c : c \in FreeOnes(f) <=> Free(f, c)
    BY DEF FreeOnes, Free
  <2> QED BY <1>5, <1>6, <2>1
<1>8. InUse(g) = InUse(u.file) \cup {b}
  <2>1. \A f, c : c \in InUse(f) <=> Used(f, c)
    BY DEF InUse, Used
  <2> QED BY <1>5, <1>6, <2>1
<1> QED BY <1>1, <1>3, <1>4, <1>5, <1>7, <1>8 DEF Written

LEMMA WrittenKeeps ==
  ASSUME NEW u, NEW t, NEW b, NEW next, Written(u, t, b, next), NEW h, NEW S, NEW e,
         ListOf(u.file, h, S, e), b \notin S
  PROVE  ListOf(t.file, h, S, e)
<1>1. S \subseteq Buffers(u.file)
  BY ListIs
<1>2. \A c \in S : c \in Buffers(t.file) /\ t.file[c + 1] = u.file[c + 1]
  BY <1>1 DEF Written
<1> QED BY <1>2, ListKept

(* Where the buffer that is handed out lies: in the file, or at its end.   *)
Placed(x) ==
  \/ x.got \in Buffers(x.file) /\ x.recent # Len(x.file)
  \/ x.got = Len(x.file) /\ x.recent = Len(x.file) /\ x.head = NullBuffer

Sane(x) == IF x.err THEN x.recent # Len(x.file) ELSE Placed(x)

(* The free list holds the free buffers but the one handed out; the list   *)
(* B of those written leads from the first to that one.                    *)
Lined(x, f, first, B) ==
  /\ ListOf(x.file, x.head, FreeOnes(x.file) \ {x.got}, NullBuffer)
  /\ ListOf(x.file, first, B, x.got)
  /\ x.got \notin InUse(x.file)
  /\ InUse(x.file) = InUse(f) \cup B

LEMMA NoHead ==
  ASSUME NEW f, Len(f) \in Nat, NEW b, NEW S, ListOf(f, b, S, NullBuffer)
  PROVE  b = NullBuffer <=> S = {}
<1>1. /\ S \subseteq Buffers(f) /\ (S = {} => b = NullBuffer) /\ (S # {} => b \in S)
  BY ListIs
<1>2. NullBuffer \notin Buffers(f)
  BY BuffersAre
<1> QED BY <1>1, <1>2

(* What AllocateBuffer hands out.                                          *)
LEMMA AllocatedSane ==
  ASSUME NEW s, Rec(s), ~ s.err, s.recent # Len(s.file) \/ Free(s.file, s.head)
  PROVE  Rec(AllocateBuffer(s)) /\ Sane(AllocateBuffer(s))
<1> DEFINE u == AllocateBuffer(s)
<1>1. \/ u = Raise(s) /\ s.head # NullBuffer /\ ~ Free(s.file, s.head)
      \/ /\ Rec(u) /\ ~ u.err /\ u.file = s.file /\ u.past = s.past
         /\ \/ /\ Free(s.file, s.head) /\ u.got = s.head /\ u.dirty
               /\ u.head = After(s.file, s.head) /\ u.recent = NullBuffer
            \/ /\ s.head = NullBuffer /\ u.head = s.head /\ u.dirty = s.dirty
               /\ Handed(s.file, u.got, u.recent)
               /\ u.got = IF s.recent = Len(s.file) THEN Len(s.file) + 1 ELSE Len(s.file)
  BY AllocateIs
<1>2. Len(s.file) \in Nat /\ NullBuffer \notin Buffers(s.file)
  BY BuffersAre DEF Rec, IsFile
<1> HIDE DEF u
<1>3. CASE u = Raise(s) /\ ~ Free(s.file, s.head)
  BY <1>3, RaiseIs DEF Sane, u
<1>4. CASE Rec(u) /\ ~ u.err /\ u.file = s.file /\ Free(s.file, s.head) /\ u.got = s.head
           /\ u.recent = NullBuffer
  BY <1>2, <1>4 DEF Sane, Placed, Free, NullBuffer, u
<1>5. CASE /\ Rec(u) /\ ~ u.err /\ u.file = s.file /\ s.head = NullBuffer /\ u.head = s.head
           /\ Handed(s.file, u.got, u.recent)
           /\ u.got = IF s.recent = Len(s.file) THEN Len(s.file) + 1 ELSE Len(s.file)
  BY <1>2, <1>5 DEF Sane, Placed, Free, Handed, u
<1> QED BY <1>1, <1>3, <1>4, <1>5

LEMMA AllocatedLined ==
  ASSUME NEW s, Rec(s), ~ s.err, s.recent # Len(s.file) \/ s.head # NullBuffer,
         ListOf(s.file, s.head, FreeOnes(s.file), NullBuffer)
  PROVE  LET u == AllocateBuffer(s)
         IN  ~ u.err /\ Lined(u, s.file, u.got, {}) /\ (s.recent # Len(s.file) \/ Free(s.file, s.head))
<1> DEFINE u == AllocateBuffer(s)
           S == FreeOnes(s.file)
<1>1. \/ u = Raise(s) /\ s.head # NullBuffer /\ ~ Free(s.file, s.head)
      \/ /\ Rec(u) /\ ~ u.err /\ u.file = s.file /\ u.past = s.past
         /\ \/ /\ Free(s.file, s.head) /\ u.got = s.head /\ u.dirty
               /\ u.head = After(s.file, s.head) /\ u.recent = NullBuffer
            \/ /\ s.head = NullBuffer /\ u.head = s.head /\ u.dirty = s.dirty
               /\ Handed(s.file, u.got, u.recent)
               /\ u.got = IF s.recent = Len(s.file) THEN Len(s.file) + 1 ELSE Len(s.file)
  BY AllocateIs
<1>2. Len(s.file) \in Nat /\ NullBuffer \notin Buffers(s.file)
  BY BuffersAre DEF Rec, IsFile
<1> HIDE DEF u
<1>3. s.head = NullBuffer <=> S = {}
  BY <1>2, NoHead
<1>4. S # {} => s.head \in S /\ ListOf(s.file, After(s.file, s.head), S \ {s.head}, NullBuffer)
  BY ListPop
<1>5. \A c \in S : Free(s.file, c) /\ c \notin InUse(s.file)
  BY DEF FreeOnes, Free, InUse, Used
<1>6. ListOf(s.file, u.got, {}, u.got)
  BY ListEmpty
<1>7. CASE S # {}
  <2>1. Free(s.file, s.head) /\ s.head # NullBuffer /\ s.head \notin InUse(s.file)
    BY <1>3, <1>4, <1>5, <1>7
  <2>2. /\ ~ u.err /\ u.file = s.file /\ u.got = s.head /\ u.head = After(s.file, s.head)
    BY <1>1, <2>1
  <2>3. Lined(u, s.file, u.got, {})
    BY <1>4, <1>6, <1>7, <2>1, <2>2 DEF Lined
  <2> QED BY <2>1, <2>2, <2>3 DEF u
<1>8. CASE S = {}
  <2>1. ~ Free(s.file, s.head) /\ s.head = NullBuffer /\ s.recent # Len(s.file)
    BY <1>2, <1>3, <1>8 DEF Free
  <2>2. ~ u.err /\ u.file = s.file /\ u.head = s.head /\ u.got = Len(s.file)
    BY <1>1, <2>1
  <2>3. S \ {u.got} = S /\ u.got \notin InUse(s.file)
    BY <1>2, <1>8, <2>2 DEF InUse, Buffers
  <2>4. Lined(u, s.file, u.got, {})
    BY <1>6, <2>2, <2>3 DEF Lined
  <2> QED BY <2>1, <2>2, <2>4 DEF u
<1> QED BY <1>7, <1>8

(* A turn of the loop: the next buffer is handed out, this one written.    *)
LEMMA TurnSane ==
  ASSUME NEW x, Rec(x), Sane(x), NEW v \in Values, NEW i \in Nat, i - 1 \in 1 .. Size(v)
  PROVE  LET t == StoreStep(v, x, i)
         IN  Rec(t) /\ Sane(t)
<1> DEFINE u == AllocateBuffer(x)
           t == StoreBuffer(u, x.got, v, i - 1, u.got)
<1>0. StoreStep(v, x, i) = t
  BY DEF StoreStep
<1>1. Len(x.file) \in Nat /\ NullBuffer \notin Buffers(x.file)
  BY BuffersAre DEF Rec, IsFile
<1>2. CASE x.err
  <2>1. u = x
    BY <1>2 DEF AllocateBuffer
  <2>2. t = x
    BY <1>2, <2>1 DEF StoreBuffer, SetBuffer
  <2> QED BY <1>0, <2>2
<1>3. CASE ~ x.err
  <2>1. \/ u = Raise(x) /\ x.head # NullBuffer /\ ~ Free(x.file, x.head)
        \/ /\ Rec(u) /\ ~ u.err /\ u.file = x.file /\ u.past = x.past
           /\ \/ /\ Free(x.file, x.head) /\ u.got = x.head /\ u.dirty
                 /\ u.head = After(x.file, x.head) /\ u.recent = NullBuffer
              \/ /\ x.head = NullBuffer /\ u.head = x.head /\ u.dirty = x.dirty
                 /\ Handed(x.file, u.got, u.recent)
                 /\ u.got = IF x.recent = Len(x.file) THEN Len(x.file) + 1 ELSE Len(x.file)
    BY <1>3, AllocateIs
  <2>2. Placed(x)
    BY <1>3 DEF Sane
  <2> HIDE DEF u
  <2>3. CASE u = Raise(x) /\ x.head # NullBuffer
    <3>1. u.err /\ Rec(u) /\ u.recent = x.recent /\ u.file = x.file
      BY <2>3, RaiseIs
    <3>2. t = u
      BY <3>1 DEF StoreBuffer, SetBuffer
    <3>3. x.recent # Len(x.file)
      BY <2>2, <2>3 DEF Placed
    <3> QED BY <1>0, <3>1, <3>2, <3>3 DEF Sane
  <2>4. CASE Rec(u) /\ ~ u.err /\ u.file = x.file
    <3>1. x.got \in 0 .. Len(u.file)
      BY <1>1, <2>2, <2>4 DEF Placed, Buffers
    <3>2. u.got \in -1 .. Len(u.file) + 1
      BY <2>4 DEF Rec
    <3>3. Written(u, t, x.got, u.got)
      BY <2>4, <3>1, <3>2, WriteIs
    <3> HIDE DEF t
    <3>4. /\ Rec(t) /\ ~ t.err /\ t.head = u.head /\ t.recent = u.recent /\ t.got = u.got
          /\ Len(t.file) = IF x.got = Len(x.file) THEN Len(x.file) + 1 ELSE Len(x.file)
      BY <2>4, <3>3 DEF Written
    <3>5. CASE /\ Free(x.file, x.head) /\ u.got = x.head /\ u.recent = NullBuffer
      <4>1. x.head \in Buffers(t.file) /\ NullBuffer # Len(t.file)
        BY <1>1, <3>4, <3>5 DEF Free, Buffers, NullBuffer
      <4> QED BY <1>0, <3>4, <3>5, <4>1 DEF Sane, Placed
    <3>6. CASE /\ x.head = NullBuffer /\ u.head = x.head
               /\ Handed(x.file, u.got, u.recent)
               /\ u.got = IF x.recent = Len(x.file) THEN Len(x.file) + 1 ELSE Len(x.file)
      <4>1. u.got = Len(t.file) /\ u.recent = u.got
        BY <1>1, <2>2, <3>4, <3>6 DEF Placed, Handed, Buffers
      <4> QED BY <1>0, <3>4, <3>6, <4>1 DEF Sane, Placed
    <3> QED BY <2>1, <2>4, <3>5, <3>6, RaiseIs
  <2> QED BY <2>1, <2>3, <2>4
<1> QED BY <1>2, <1>3

LEMMA TurnLined ==
  ASSUME NEW x, Rec(x), Sane(x), ~ x.err, NEW f, NEW first, NEW B, Lined(x, f, first, B),
         NEW v \in Values, NEW i \in Nat, i - 1 \in 1 .. Size(v)
  PROVE  LET t == StoreStep(v, x, i)
         IN  ~ t.err /\ Lined(t, f, first, B \cup {x.got})
<1> DEFINE u == AllocateBuffer(x)
           b == x.got
           t == StoreBuffer(u, b, v, i - 1, u.got)
           S == FreeOnes(x.file) \ {b}
<1>0. StoreStep(v, x, i) = t
  BY DEF StoreStep
<1>1. Len(x.file) \in Nat /\ NullBuffer \notin Buffers(x.file) /\ Placed(x)
  BY BuffersAre DEF Rec, IsFile, Sane
<1>2. \/ u = Raise(x) /\ x.head # NullBuffer /\ ~ Free(x.file, x.head)
      \/ /\ Rec(u) /\ ~ u.err /\ u.file = x.file /\ u.past = x.past
         /\ \/ /\ Free(x.file, x.head) /\ u.got = x.head /\ u.dirty
               /\ u.head = After(x.file, x.head) /\ u.recent = NullBuffer
            \/ /\ x.head = NullBuffer /\ u.head = x.head /\ u.dirty = x.dirty
               /\ Handed(x.file, u.got, u.recent)
               /\ u.got = IF x.recent = Len(x.file) THEN Len(x.file) + 1 ELSE Len(x.file)
  BY AllocateIs
<1>3. /\ ListOf(x.file, x.head, S, NullBuffer)
      /\ ListOf(x.file, first, B, b)
      /\ b \notin InUse(x.file) /\ InUse(x.file) = InUse(f) \cup B
  BY DEF Lined
<1>4. S # {} => x.head \in S /\ ListOf(x.file, After(x.file, x.head), S \ {x.head}, NullBuffer)
  BY <1>3, ListPop
<1>5. x.head = NullBuffer <=> S = {}
  BY <1>1, <1>3, NoHead
<1>6. \A c \in S : Free(x.file, c) /\ c \notin InUse(x.file) /\ c # b
  BY DEF FreeOnes, Free, InUse, Used
<1> HIDE DEF u
<1>7. Rec(u) /\ ~ u.err /\ u.file = x.file
  BY <1>2, <1>4, <1>5, <1>6
<1>8. b \in 0 .. Len(u.file) /\ u.got \in -1 .. Len(u.file) + 1
  BY <1>1, <1>7 DEF Placed, Buffers, Rec
<1>9. Written(u, t, b, u.got)
  BY <1>7, <1>8, WriteIs
<1> HIDE DEF t
<1>10. /\ Rec(t) /\ ~ t.err /\ t.head = u.head /\ t.recent = u.recent /\ t.got = u.got
       /\ Len(t.file) = IF b = Len(x.file) THEN Len(x.file) + 1 ELSE Len(x.file)
       /\ b \in Buffers(t.file) /\ After(t.file, b) = u.got
       /\ FreeOnes(t.file) = S
       /\ InUse(t.file) = InUse(x.file) \cup {b}
  BY <1>7, <1>9 DEF Written
<1> HIDE DEF S, b
<1>11. ListOf(t.file, first, B \cup {b}, t.got)
  <2>1. b \notin B
    BY <1>3
  <2>2. ListOf(t.file, first, B, b)
    BY <1>3, <1>7, <1>9, <2>1, WrittenKeeps
  <2> QED BY <1>10, <2>1, <2>2, ListExtend
<1>12. ListOf(t.file, t.head, S \ {t.got}, NullBuffer) /\ t.got \notin InUse(t.file)
  <2>1. CASE S # {}
    <3>1. Free(x.file, x.head) /\ x.head # NullBuffer /\ x.head \notin InUse(x.file) /\ x.head # b
      BY <1>4, <1>5, <1>6, <2>1
    <3>2. u.got = x.head /\ u.head = After(x.file, x.head)
      BY <1>2, <1>7, <3>1, RaiseIs
    <3> DEFINE T == S \ {x.head}
    <3>3. b \notin T /\ ListOf(u.file, u.head, T, NullBuffer)
      BY <1>4, <1>6, <1>7, <2>1, <3>2
    <3> HIDE DEF T
    <3>4. ListOf(t.file, u.head, T, NullBuffer)
      BY <1>9, <3>3, WrittenKeeps
    <3> QED BY <1>10, <3>1, <3>2, <3>4 DEF T
  <2>2. CASE S = {}
    <3>1. x.head = NullBuffer /\ ~ Free(x.file, x.head)
      BY <1>1, <1>5, <2>2 DEF Free
    <3>2. /\ u.head = x.head
          /\ u.got = IF x.recent = Len(x.file) THEN Len(x.file) + 1 ELSE Len(x.file)
      BY <1>2, <3>1
    <3>3. u.got = Len(t.file)
      BY <1>1, <1>10, <3>2 DEF Placed, Buffers, b
    <3>4. t.got \notin InUse(t.file)
      BY <1>10, <3>3 DEF InUse, Buffers, Rec, IsFile
    <3>5. ListOf(t.file, NullBuffer, {}, NullBuffer) /\ S \ {t.got} = {}
      BY <2>2, ListEmpty
    <3> QED BY <1>10, <3>1, <3>2, <3>4, <3>5
  <2> QED BY <2>1, <2>2
<1>13. Lined(t, f, first, B \cup {b})
  BY <1>3, <1>10, <1>11, <1>12 DEF Lined
<1> QED BY <1>0, <1>10, <1>13 DEF b

(* The end of the file has been handed out and not written: a store asks   *)
(* for the buffer after it and raises, before it has written any.          *)
Stuck(s) == s.head = NullBuffer /\ s.recent = Len(s.file)

Idle(x, s) ==
  /\ Rec(x) /\ x.file = s.file /\ x.head = NullBuffer
  /\ x.err \/ x.got = Len(s.file) + 1

LEMMA TurnStuck ==
  ASSUME NEW s, Rec(s), NEW x, Idle(x, s), NEW v, NEW i
  PROVE  Idle(StoreStep(v, x, i), s)
<1> DEFINE u == AllocateBuffer(x)
           buf == [type |-> IF i - 1 = 1 THEN "HEAD" ELSE "BODY", next |-> u.got,
                   data |-> <<v, i - 1>>]
           t == SetBuffer(u, x.got, buf)
<1>0. StoreStep(v, x, i) = t
  BY DEF StoreStep, StoreBuffer
<1> HIDE DEF buf
<1>1. Rec(x) /\ x.file = s.file /\ x.head = NullBuffer /\ Len(s.file) \in Nat
  BY DEF Idle, Rec, IsFile
<1>2. CASE x.err
  <2>1. u = x
    BY <1>2 DEF AllocateBuffer
  <2>2. t = x
    BY <1>2, <2>1 DEF SetBuffer
  <2> QED BY <1>0, <2>2
<1>3. CASE ~ x.err
  <2>1. \/ u = Raise(x) /\ x.head # NullBuffer /\ ~ Free(x.file, x.head)
        \/ /\ Rec(u) /\ ~ u.err /\ u.file = x.file /\ u.past = x.past
           /\ \/ /\ Free(x.file, x.head) /\ u.got = x.head /\ u.dirty
                 /\ u.head = After(x.file, x.head) /\ u.recent = NullBuffer
              \/ /\ x.head = NullBuffer /\ u.head = x.head /\ u.dirty = x.dirty
                 /\ Handed(x.file, u.got, u.recent)
                 /\ u.got = IF x.recent = Len(x.file) THEN Len(x.file) + 1 ELSE Len(x.file)
    BY <1>1, <1>3, AllocateIs
  <2>2. ~ Free(x.file, x.head)
    BY <1>1, BuffersAre DEF Free
  <2> HIDE DEF u
  <2>3. Rec(u) /\ ~ u.err /\ u.file = s.file /\ u.head = NullBuffer
    BY <1>1, <2>1, <2>2
  <2>4. x.got > Len(u.file)
    BY <1>1, <1>3, <2>3 DEF Idle
  <2>5. t = Raise(u)
    BY <2>3, <2>4 DEF SetBuffer
  <2> HIDE DEF t
  <2>6. Rec(t) /\ t.err /\ t.file = s.file /\ t.head = NullBuffer
    BY <2>3, <2>5, RaiseIs
  <2> QED BY <1>0, <2>6 DEF Idle
<1> QED BY <1>2, <1>3

(* After some turns of the loop, s being what the call found.              *)
Listed(s) ==
  /\ ListOf(s.file, s.head, FreeOnes(s.file), NullBuffer)
  /\ s.recent # Len(s.file) \/ s.head # NullBuffer

Roomy(s) == s.recent # Len(s.file) \/ Free(s.file, s.head)

StoringOK(x, s, first) ==
  /\ Roomy(s) => Rec(x) /\ Sane(x)
  /\ Listed(s) => Roomy(s) /\ ~ x.err /\ \E B : Lined(x, s.file, first, B)
  /\ Stuck(s) => Idle(x, s)

LEMMA StoringFirst ==
  ASSUME NEW s, Rec(s), ~ s.err
  PROVE  StoringOK(AllocateBuffer(s), s, AllocateBuffer(s).got)
<1> DEFINE u == AllocateBuffer(s)
<1> SUFFICES StoringOK(u, s, u.got)
  OBVIOUS
<1>1. Roomy(s) => Rec(u) /\ Sane(u)
  BY AllocatedSane DEF Roomy
<1>2. Listed(s) => Roomy(s) /\ ~ u.err /\ Lined(u, s.file, u.got, {})
  BY AllocatedLined DEF Listed, Roomy
<1>3. ASSUME Stuck(s)
      PROVE  Idle(u, s)
  <2>1. \/ u = Raise(s) /\ s.head # NullBuffer /\ ~ Free(s.file, s.head)
        \/ /\ Rec(u) /\ ~ u.err /\ u.file = s.file /\ u.past = s.past
           /\ \/ /\ Free(s.file, s.head) /\ u.got = s.head /\ u.dirty
                 /\ u.head = After(s.file, s.head) /\ u.recent = NullBuffer
              \/ /\ s.head = NullBuffer /\ u.head = s.head /\ u.dirty = s.dirty
                 /\ Handed(s.file, u.got, u.recent)
                 /\ u.got = IF s.recent = Len(s.file) THEN Len(s.file) + 1 ELSE Len(s.file)
    BY AllocateIs
  <2>2. ~ Free(s.file, s.head)
    BY <1>3, BuffersAre DEF Stuck, Free, Rec, IsFile
  <2> HIDE DEF u
  <2> QED BY <1>3, <2>1, <2>2 DEF Stuck, Idle
<1> HIDE DEF u
<1> QED BY <1>1, <1>2, <1>3 DEF StoringOK

LEMMA StoringTurn ==
  ASSUME NEW s, Rec(s), NEW first, NEW x, StoringOK(x, s, first),
         NEW v \in Values, NEW i \in Nat, i - 1 \in 1 .. Size(v)
  PROVE  StoringOK(StoreStep(v, x, i), s, first)
<1> DEFINE t == StoreStep(v, x, i)
<1> SUFFICES StoringOK(t, s, first)
  OBVIOUS
<1>1. Roomy(s) => Rec(t) /\ Sane(t)
  BY TurnSane DEF StoringOK
<1>2. ASSUME Listed(s)
      PROVE  Roomy(s) /\ ~ t.err /\ \E B : Lined(t, s.file, first, B)
  <2>1. Roomy(s) /\ Rec(x) /\ Sane(x) /\ ~ x.err
    BY <1>2 DEF StoringOK
  <2>2. PICK B : Lined(x, s.file, first, B)
    BY <1>2 DEF StoringOK
  <2>3. ~ t.err /\ Lined(t, s.file, first, B \cup {x.got})
    BY <2>1, <2>2, TurnLined
  <2> QED BY <2>1, <2>3
<1>3. Stuck(s) => Idle(t, s)
  BY TurnStuck DEF StoringOK
<1> HIDE DEF t
<1> QED BY <1>1, <1>2, <1>3 DEF StoringOK

LEMMA StoringAll ==
  ASSUME NEW s, Rec(s), ~ s.err, NEW v \in Values
  PROVE  LET g == StoreTurns(s, v)
         IN  StoringOK(g[Size(v)], s, AllocateBuffer(s).got)
<1> DEFINE g == StoreTurns(s, v)
           n == Size(v)
           first == AllocateBuffer(s).got
           Bad == { i \in Nat : i \in 1 .. n /\ ~ StoringOK(g[i], s, first) }
<1>0. n \in Nat \ {0}
  BY LinkedAssumption
<1>1. g[1] = AllocateBuffer(s) /\ \A i \in 2 .. n : g[i] = StoreStep(v, g[i - 1], i)
  BY <1>0, StoreTurnsAre
<1>2. StoringOK(g[1], s, first)
  BY <1>1, StoringFirst
<1> SUFFICES StoringOK(g[n], s, first)
  OBVIOUS
<1> HIDE DEF g, first
<1>3. ASSUME Bad # {}
      PROVE  FALSE
  <2>1. PICK i \in Bad : \A k \in Bad : i <= k
    BY <1>3, LeastNat
  <2>2. i # 1
    BY <1>2, <2>1
  <2>3. i \in 2 .. n /\ i \in Nat /\ i - 1 \in Nat /\ i - 1 \in 1 .. n /\ ~ (i <= i - 1)
    BY <1>0, <2>1, <2>2
  <2>4. StoringOK(g[i - 1], s, first)
    BY <2>1, <2>3
  <2>5. g[i] = StoreStep(v, g[i - 1], i)
    BY <1>1, <2>3
  <2>6. StoringOK(g[i], s, first)
    BY <2>3, <2>4, <2>5, StoringTurn
  <2> QED BY <2>1, <2>6
<1>4. n \in Nat /\ n \in 1 .. n
  BY <1>0
<1> QED BY <1>3, <1>4

(* StoreNewChunk: the end of the file is not left handed out; where the    *)
(* free list is whole and the call not stuck it does not raise, and the    *)
(* buffers in use are those before and those of the chunk; where it is     *)
(* stuck nothing changes.                                                  *)
StoredWell(t, s) ==
  /\ Roomy(s) => t.recent # Len(t.file)
  /\ Listed(s) => /\ ~ t.err
                  /\ ListOf(t.file, t.head, FreeOnes(t.file), NullBuffer)
                  /\ InUse(t.file) = InUse(s.file) \cup Along(t.file, t.got)
  /\ Stuck(s) => t.err /\ t.file = s.file /\ t.head = s.head

LEMMA LastWrite ==
  ASSUME NEW s, Rec(s), NEW first, NEW x, StoringOK(x, s, first), NEW v \in Values,
         Size(v) \in Nat \ {0}
  PROVE  LET y == StoreBuffer(x, x.got, v, Size(v), NullBuffer)
         IN  /\ Roomy(s) => Rec(y) /\ y.recent # Len(y.file)
             /\ Listed(s) => /\ Rec(y) /\ ~ y.err
                             /\ ListOf(y.file, y.head, FreeOnes(y.file), NullBuffer)
                             /\ InUse(y.file) = InUse(s.file) \cup Along(y.file, first)
             /\ Stuck(s) => Rec(y) /\ y.err /\ y.file = s.file /\ y.head = s.head
<1> DEFINE n == Size(v)
           b == x.got
           y == StoreBuffer(x, b, v, n, NullBuffer)
<1> SUFFICES /\ Roomy(s) => Rec(y) /\ y.recent # Len(y.file)
             /\ Listed(s) => /\ Rec(y) /\ ~ y.err
                             /\ ListOf(y.file, y.head, FreeOnes(y.file), NullBuffer)
                             /\ InUse(y.file) = InUse(s.file) \cup Along(y.file, first)
             /\ Stuck(s) => Rec(y) /\ y.err /\ y.file = s.file /\ y.head = s.head
  OBVIOUS
<1>1. x.err => y = x
  BY DEF StoreBuffer, SetBuffer
<1>2. ASSUME Rec(x), ~ x.err, Placed(x)
      PROVE  /\ Written(x, y, b, NullBuffer) /\ Len(x.file) \in Nat
             /\ Rec(y) /\ ~ y.err /\ y.head = x.head /\ y.recent = x.recent
             /\ Len(y.file) = IF b = Len(x.file) THEN Len(x.file) + 1 ELSE Len(x.file)
  <2>1. Len(x.file) \in Nat
    BY <1>2 DEF Rec, IsFile
  <2>2. b \in 0 .. Len(x.file) /\ NullBuffer \in -1 .. Len(x.file) + 1 /\ n \in 1 .. n
    BY <1>2, <2>1 DEF Placed, Buffers, NullBuffer
  <2>3. Written(x, y, b, NullBuffer)
    BY <1>2, <2>2, WriteIs
  <2> HIDE DEF y
  <2> QED BY <2>1, <2>3 DEF Written
<1> HIDE DEF y
<1>3. ASSUME Roomy(s)
      PROVE  Rec(y) /\ y.recent # Len(y.file)
  <2>1. Rec(x) /\ Sane(x)
    BY <1>3 DEF StoringOK
  <2>2. CASE x.err
    BY <1>1, <2>1, <2>2 DEF Sane
  <2>3. CASE ~ x.err
    <3>1. Placed(x)
      BY <2>1, <2>3 DEF Sane
    <3>2. /\ Len(x.file) \in Nat /\ Rec(y) /\ y.recent = x.recent
          /\ Len(y.file) = IF b = Len(x.file) THEN Len(x.file) + 1 ELSE Len(x.file)
      BY <1>2, <2>1, <2>3, <3>1
    <3> QED BY <3>1, <3>2 DEF Placed, Buffers
  <2> QED BY <2>2, <2>3
<1>4. ASSUME Listed(s)
      PROVE  /\ Rec(y) /\ ~ y.err
             /\ ListOf(y.file, y.head, FreeOnes(y.file), NullBuffer)
             /\ InUse(y.file) = InUse(s.file) \cup Along(y.file, first)
  <2>1. Rec(x) /\ Placed(x) /\ ~ x.err
    BY <1>4 DEF StoringOK, Sane
  <2>2. PICK B : Lined(x, s.file, first, B)
    BY <1>4 DEF StoringOK
  <2>3. Written(x, y, b, NullBuffer) /\ Rec(y) /\ ~ y.err /\ y.head = x.head
    BY <1>2, <2>1
  <2>4. /\ b \in Buffers(y.file) /\ After(y.file, b) = NullBuffer
        /\ FreeOnes(y.file) = FreeOnes(x.file) \ {b}
        /\ InUse(y.file) = InUse(x.file) \cup {b}
    BY <2>3 DEF Written
  <2> DEFINE S == FreeOnes(x.file) \ {b}
  <2>5. /\ ListOf(x.file, x.head, S, NullBuffer)
        /\ ListOf(x.file, first, B, b)
        /\ b \notin InUse(x.file) /\ InUse(x.file) = InUse(s.file) \cup B
    BY <2>2 DEF Lined
  <2>6. b \notin S /\ b \notin B /\ FreeOnes(y.file) = S
    BY <2>4, <2>5
  <2> HIDE DEF S, b
  <2>7. ListOf(y.file, x.head, S, NullBuffer)
    BY <2>3, <2>5, <2>6, WrittenKeeps
  <2>8. ListOf(y.file, first, B, b)
    BY <2>3, <2>5, <2>6, WrittenKeeps
  <2>9. ListOf(y.file, first, B \cup {b}, NullBuffer)
    BY <2>4, <2>6, <2>8, ListExtend
  <2>10. Len(y.file) \in Nat
    BY <2>3 DEF Rec, IsFile
  <2>11. Along(y.file, first) = B \cup {b}
    BY <2>9, <2>10, ChainList
  <2> QED BY <2>3, <2>4, <2>5, <2>6, <2>7, <2>11
<1>5. ASSUME Stuck(s)
      PROVE  Rec(y) /\ y.err /\ y.file = s.file /\ y.head = s.head
  <2>1. Idle(x, s) /\ s.head = NullBuffer
    BY <1>5 DEF StoringOK, Stuck
  <2>2. CASE x.err
    BY <1>1, <2>1, <2>2 DEF Idle
  <2>3. CASE ~ x.err
    <3>1. Len(s.file) \in Nat
      BY DEF Rec, IsFile
    <3>2. Rec(x) /\ x.file = s.file /\ x.head = NullBuffer /\ b > Len(x.file)
      BY <2>1, <2>3, <3>1 DEF Idle
    <3>3. y = Raise(x)
      BY <2>3, <3>2 DEF y, StoreBuffer, SetBuffer
    <3> QED BY <2>1, <3>2, <3>3, RaiseIs
  <2> QED BY <2>2, <2>3
<1> QED BY <1>3, <1>4, <1>5

LEMMA StoredOK ==
  ASSUME NEW s, Rec(s), ~ s.err, NEW v \in Values, Rec(StoredChunk(s, v))
  PROVE  StoredWell(StoredChunk(s, v), s)
<1> DEFINE g == StoreTurns(s, v)
           n == Size(v)
           x == g[n]
           first == AllocateBuffer(s).got
           y == StoreBuffer(x, x.got, v, n, NullBuffer)
           t == StoredChunk(s, v)
<1>0. n \in Nat \ {0}
  BY LinkedAssumption
<1>1. t = [y EXCEPT !.got = first]
  BY <1>0, StoreTurnsAre
<1>2. StoringOK(x, s, first)
  BY StoringAll
<1> HIDE DEF x, first, t
<1>3. /\ Roomy(s) => Rec(y) /\ y.recent # Len(y.file)
      /\ Listed(s) => /\ Rec(y) /\ ~ y.err
                      /\ ListOf(y.file, y.head, FreeOnes(y.file), NullBuffer)
                      /\ InUse(y.file) = InUse(s.file) \cup Along(y.file, first)
      /\ Stuck(s) => Rec(y) /\ y.err /\ y.file = s.file /\ y.head = s.head
  BY <1>0, <1>2, LastWrite
<1> HIDE DEF y
<1>4. ASSUME Rec(y)
      PROVE  /\ t.file = y.file /\ t.head = y.head /\ t.recent = y.recent
             /\ t.got = first /\ t.err = y.err
  <2>1. PICK P : y \in Fields(P)
    BY <1>4 DEF Rec
  <2> QED BY <1>1, <2>1 DEF Fields
<1>5. StoredWell(t, s)
  BY <1>3, <1>4 DEF StoredWell
<1> QED BY <1>5 DEF t

-----------------------------------------------------------------------------
(* The inductive invariant, with IInv: as long as nothing strayed the      *)
(* lists are exact, and as long as no write failed the end of the file is  *)
(* not left handed out.                                                    *)
LInv ==
  /\ ~ strayed => Exact(file, head, live)
  /\ ~ failed => recent # Len(file)
  /\ ~ open => strayed
  /\ ~ strayed /\ ~ failed => ~ raised

LEMMA NowIs ==
  ASSUME IInv, open
  PROVE  /\ Rec(Now) /\ ~ Now.err /\ Now.file = file /\ Now.head = head /\ Now.recent = recent
         /\ Len(file) \in Nat
<1>1. PICK P : Owned(file, head, header, live, kept, P)
  BY DEF IInv
<1>2. live \subseteq live /\ kept \subseteq kept
  OBVIOUS
<1>3. Held(Now, file, header, Using(live, P), Using(kept, P))
  BY <1>1, <1>2, NowHeld
<1>4. Len(file) \in Nat
  BY DEF IInv, Fits, IsFile
<1> QED BY <1>3, <1>4 DEF Held, Now

LEMMA StoreWhole ==
  ASSUME IInv, LInv, NEW v \in Values, StoreNewChunk(v)
  PROVE  LInv'
<1>1. PICK P : Owned(file, head, header, live, kept, P)
  BY DEF IInv
<1> DEFINE t == StoredChunk(Now, v)
           U == Using(live, P)
           W == Using(kept, P)
<1>2. /\ open /\ file' = t.file /\ head' = t.head /\ recent' = t.recent /\ raised' = t.err
      /\ live' = (IF t.err THEN live ELSE live \cup {t.got})
      /\ open' = open /\ strayed' = strayed /\ failed' = failed
  BY DEF StoreNewChunk, Takes
<1>3. /\ Rec(Now) /\ ~ Now.err /\ Now.file = file /\ Now.head = head /\ Now.recent = recent
      /\ Len(file) \in Nat
  BY <1>2, NowIs
<1>4. Chunks(file, live, P) /\ U \subseteq InUse(file) /\ IsFile(file)
  BY <1>1, ChunksAre DEF Owned, IInv, Fits
<1>5. Held(t, file, header, U, W)
  <2>1. live \subseteq live /\ kept \subseteq kept
    OBVIOUS
  <2>2. Held(Now, file, header, U, W) /\ PastHeld(Now, file, header, U, W)
    BY <1>1, <1>2, <2>1, NowHeld
  <2>3. Size(v) \in Nat \ {0}
    BY LinkedAssumption
  <2> QED BY <1>3, <1>4, <2>2, <2>3, StoreHeld
<1>6. StoredWell(t, Now)
  <2>1. Rec(t)
    BY <1>5 DEF Held
  <2> QED BY <1>3, <2>1, StoredOK
<1> HIDE DEF t, U, W
<1>7. Chunks(t.file, live, P) /\ Len(t.file) \in Nat
  <2>1. Call(file, header, live, live, kept, P, t)
    BY <1>4, <1>5 DEF Call, IInv, Fits, Flags, U, W
  <2>2. Left(file, header, live, kept, P, t)
    BY ONLY <2>1, LeftOwned
  <2> QED BY <1>5, <2>2 DEF Left, Owned, Held, Rec, IsFile
<1>8. Uses(t.file, live) = Uses(file, live)
  BY <1>3, <1>4, <1>7, UsesIs
<1>9. ASSUME ~ strayed
      PROVE  Exact(file', head', live') /\ (~ failed => ~ t.err)
  <2>1. Exact(file, head, live)
    BY <1>9 DEF LInv
  <2>2. CASE Stuck(Now)
    <3>1. t.err /\ t.file = file /\ t.head = head
      BY <1>3, <1>6, <2>2 DEF StoredWell
    <3>2. failed
      BY <1>3, <2>2 DEF Stuck, LInv
    <3> QED BY <1>2, <2>1, <3>1, <3>2
  <2>3. CASE ~ Stuck(Now)
    <3>1. Listed(Now)
      BY <1>3, <2>1, <2>3 DEF Stuck, Listed, Exact
    <3>2. /\ ~ t.err /\ ListOf(t.file, t.head, FreeOnes(t.file), NullBuffer)
          /\ InUse(t.file) = InUse(file) \cup Along(t.file, t.got)
      BY <1>3, <1>6, <3>1 DEF StoredWell
    <3>3. Uses(t.file, live \cup {t.got}) = Uses(t.file, live) \cup Along(t.file, t.got)
      BY DEF Uses
    <3>4. Exact(t.file, t.head, live \cup {t.got})
      BY <1>8, <2>1, <3>2, <3>3 DEF Exact
    <3> QED BY <1>2, <3>2, <3>4
  <2> QED BY <2>2, <2>3
<1>10. ~ failed => t.recent # Len(t.file)
  BY <1>3, <1>6 DEF StoredWell, Roomy, LInv
<1> QED BY <1>2, <1>9, <1>10 DEF LInv

LEMMA ReleaseWhole ==
  ASSUME IInv, LInv, NEW id \in live, ReleaseBuffers(id)
  PROVE  LInv'
<1>1. PICK P : Owned(file, head, header, live, kept, P)
  BY DEF IInv
<1> DEFINE t == Released(Now, id)
           A == Along(file, id)
<1>2. /\ open /\ file' = t.file /\ head' = t.head /\ recent' = t.recent /\ raised' = t.err
      /\ live' = live \ {id} /\ open' = open /\ strayed' = strayed /\ failed' = failed
  BY DEF ReleaseBuffers, Takes
<1>3. /\ Rec(Now) /\ ~ Now.err /\ Now.file = file /\ Now.head = head /\ Now.recent = recent
      /\ Len(file) \in Nat
  BY <1>2, NowIs
<1>4. Chunks(file, live, P)
  BY <1>1 DEF Owned
<1>5. ASSUME NEW h \in live
      PROVE  /\ h \in Buffers(file) /\ h \in Along(file, h)
             /\ ListOf(file, h, Along(file, h), NullBuffer)
             /\ Along(file, h) = Range(P[h])
             /\ \A y \in Along(file, h) : file[y + 1].type = IF y = h THEN "HEAD" ELSE "BODY"
  <2> DEFINE p == P[h]
  <2>1. PICK v \in Values : HoldsValue(file, h, v, p)
    BY <1>4 DEF Chunks
  <2>2. Size(v) \in Nat \ {0}
    BY LinkedAssumption
  <2>3. /\ ListOf(file, h, Range(p), NullBuffer) /\ Along(file, h) = Range(p)
    BY <1>3, <1>4, UsesIs
  <2> HIDE DEF p
  <2>4. /\ Range(p) = { p[k] : k \in 1 .. Size(v) } /\ h \in Range(p) /\ h \in Buffers(file)
        /\ \A k \in 1 .. Size(v) : Used(file, p[k])
        /\ \A k \in 1 .. Size(v) : file[p[k] + 1].type = "HEAD" => p[k] = h
    BY <2>1, <2>2, HoldsIs
  <2>5. file[h + 1].type = "HEAD"
    BY <1>4, ChunksAre DEF Heads
  <2>6. ASSUME NEW y \in Range(p)
        PROVE  file[y + 1].type = IF y = h THEN "HEAD" ELSE "BODY"
    <3>1. Used(file, y) /\ (file[y + 1].type = "HEAD" => y = h)
      BY <2>4
    <3>2. y + 1 \in 1 .. Len(file) /\ file \in Seq(AnyBuffer)
      BY <1>3, <3>1 DEF Used, Buffers, IInv, Fits, IsFile
    <3>3. file[y + 1] \in AnyBuffer
      BY <3>2
    <3> QED BY <2>5, <3>1, <3>3 DEF Used, AnyBuffer
  <2> QED BY <2>3, <2>4, <2>6 DEF p
<1>6. \A h, k \in live : h # k => Along(file, h) \cap Along(file, k) = {}
  <2>1. \A h \in live : Along(file, h) = Range(P[h])
    BY <1>5
  <2> QED BY <1>4, <2>1 DEF Chunks
<1>7. Lists(file, live)
  BY <1>5, <1>6 DEF Lists
<1>8. /\ t.recent = recent /\ Len(t.file) = Len(file)
      /\ Releasable(Now, id, A) =>
           /\ ~ t.err /\ Freed(t.file, file, A)
           /\ ListOf(t.file, t.head, FreeOnes(t.file), NullBuffer)
  <2>1. id \in 0 .. Len(Now.file)
    BY <1>3, <1>5 DEF Buffers
  <2> QED BY <1>3, <2>1, ReleasedOK
<1> HIDE DEF t
<1>9. ASSUME ~ strayed
      PROVE  Exact(t.file, t.head, live \ {id}) /\ ~ t.err
  <2>1. Exact(file, head, live)
    BY <1>9 DEF LInv
  <2>2. Releasable(Now, id, A)
    BY <1>3, <1>5, <2>1 DEF Releasable, Exact
  <2>3. Uses(file, live \ (live \ {id})) = A
    BY DEF Uses
  <2>4. InUse(file) = Uses(file, live) /\ live \ {id} \subseteq live
    BY <2>1 DEF Exact
  <2>5. /\ ~ t.err /\ Freed(t.file, file, Uses(file, live \ (live \ {id})))
        /\ ListOf(t.file, t.head, FreeOnes(t.file), NullBuffer)
    BY <1>8, <2>2, <2>3
  <2> QED BY <1>3, <1>7, <2>4, <2>5, FreedExact
<1> QED BY <1>2, <1>8, <1>9 DEF LInv

LEMMA RecoverWhole ==
  ASSUME IInv, LInv, LinkedRecover
  PROVE  LInv'
<1> DEFINE t == Recovered(Now, live)
<1>1. /\ open /\ file' = t.file /\ head' = t.head /\ recent' = t.recent /\ raised' = t.err
      /\ strayed' = t.err /\ live' = live /\ open' = open /\ failed' = failed
  BY DEF LinkedRecover, Takes
<1>2. /\ Rec(Now) /\ ~ Now.err /\ Now.file = file /\ Now.head = head /\ Now.recent = recent
  BY <1>1, NowIs
<1>3. /\ t.recent = recent /\ Len(t.file) = Len(file)
      /\ ~ t.err => Exact(t.file, t.head, live)
  BY <1>2, RecoveredOK
<1> HIDE DEF t
<1> QED BY <1>1, <1>3 DEF LInv

(* The object is gone, with what it had in memory.                         *)
LEMMA GoneWhole ==
  ASSUME Gone, IInv'
  PROVE  LInv'
<1>1. Len(file') \in Nat
  BY DEF IInv, Fits, IsFile
<1> QED BY <1>1 DEF Gone, LInv, NullBuffer

LEMMA NextWhole ==
  ASSUME IInv, LInv, [LinkedNext]_linkedVars
  PROVE  LInv'
<1>0. IInv'
  BY NextInv
<1>1. ASSUME NEW v \in Values, StoreNewChunk(v)
      PROVE  LInv'
  BY <1>1, StoreWhole
<1>2. ASSUME NEW v \in Values, StoreFails(v)
      PROVE  LInv'
  <2>1. open /\ open' = open /\ strayed' = TRUE /\ failed' = TRUE
    BY <1>2 DEF StoreFails
  <2> QED BY <2>1 DEF LInv
<1>3. ASSUME NEW v \in Values, CrashInStore(v)
      PROVE  LInv'
  BY <1>0, <1>3, GoneWhole DEF CrashInStore
<1>4. ASSUME NEW id \in live, ReleaseBuffers(id)
      PROVE  LInv'
  BY <1>4, ReleaseWhole
<1>5. ASSUME NEW id \in live, Forget(id)
      PROVE  LInv'
  <2>1. open' = open /\ open /\ strayed' = TRUE /\ failed' = failed /\ recent' = recent /\ file' = file
    BY <1>5 DEF Forget
  <2> QED BY <2>1 DEF LInv
<1>6. ASSUME NEW id \in live, CrashInRelease(id)
      PROVE  LInv'
  BY <1>0, <1>6, GoneWhole DEF CrashInRelease
<1>7. ASSUME LinkedFlush
      PROVE  LInv'
  <2>1. /\ file' = file /\ head' = head /\ recent' = recent /\ live' = live /\ open' = open
        /\ strayed' = strayed /\ failed' = failed /\ raised' = FALSE
    BY <1>7 DEF LinkedFlush
  <2> QED BY <2>1 DEF LInv
<1>8. ASSUME LinkedRecover
      PROVE  LInv'
  BY <1>8, RecoverWhole
<1>9. ASSUME Shutdown
      PROVE  LInv'
  BY <1>0, <1>9, GoneWhole DEF Shutdown
<1>10. ASSUME CrashInFlush
       PROVE  LInv'
  BY <1>0, <1>10, GoneWhole DEF CrashInFlush
<1>11. ASSUME LinkedReOpen
       PROVE  LInv'
  <2>1. /\ strayed /\ Len(file) \in Nat
    BY <1>11 DEF LinkedReOpen, LInv, IInv, Fits, IsFile
  <2>2. open' = TRUE /\ recent' = NullBuffer /\ file' = file /\ strayed' = strayed
    BY <1>11 DEF LinkedReOpen
  <2> QED BY <2>1, <2>2 DEF LInv, NullBuffer
<1>12. ASSUME UNCHANGED linkedVars
       PROVE  LInv'
  BY <1>12 DEF linkedVars, LInv
<1> QED BY <1>1, <1>2, <1>3, <1>4, <1>5, <1>6, <1>7, <1>8, <1>9, <1>10, <1>11, <1>12 DEF LinkedNext

LEMMA InitWhole == LinkedInit => LInv
<1> SUFFICES ASSUME LinkedInit PROVE LInv
  OBVIOUS
<1>1. /\ file = <<>> /\ head = NullBuffer /\ recent = -1 /\ live = {} /\ open = TRUE
      /\ strayed = FALSE /\ failed = FALSE /\ raised = FALSE
  BY DEF LinkedInit, NullBuffer
<1>2. Len(file) = 0
  BY <1>1
<1>3. FreeOnes(file) = {} /\ InUse(file) = {} /\ Uses(file, live) = {}
  BY <1>1, <1>2 DEF FreeOnes, InUse, Uses, Buffers
<1>4. Exact(file, head, live)
  BY <1>1, <1>3, ListEmpty DEF Exact
<1> QED BY <1>1, <1>2, <1>4 DEF LInv

(* NothingLost of LinkedFile: while nothing strayed, every buffer is free  *)
(* and on the free list, or in the chunk of a number that somebody knows,  *)
(* exactly as checkStructure demands, and no call raises unless a write    *)
(* has failed since the file was opened.                                   *)
THEOREM NothingLostEver == LinkedSpec => []NothingLost
<1>1. LinkedSpec => [](IInv /\ LInv)
  <2>1. LinkedInit => IInv /\ LInv
    BY InitIInv, InitWhole
  <2>2. IInv /\ LInv /\ [LinkedNext]_linkedVars => (IInv /\ LInv)'
    BY NextInv, NextWhole
  <2> QED BY <2>1, <2>2, PTL DEF LinkedSpec
<1>2. IInv /\ LInv => NothingLost
  <2> SUFFICES ASSUME IInv, LInv, ~ strayed
               PROVE  Sound(file, head) /\ Heads(file) = live /\ (~ failed => ~ raised)
    BY DEF NothingLost
  <2>1. PICK P : Owned(file, head, header, live, kept, P)
    BY DEF IInv
  <2>2. IsFile(file) /\ Chunks(file, live, P) /\ Exact(file, head, live)
    BY <2>1 DEF IInv, Fits, Owned, LInv
  <2>3. Sound(file, head) /\ Heads(file) = live
    BY <2>2, ExactIsSound, ExactHeads
  <2> QED BY <2>3 DEF LInv
<1> QED BY <1>1, <1>2, PTL
=============================================================================
