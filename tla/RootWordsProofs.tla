-------------------------- MODULE RootWordsProofs ---------------------------
(***************************************************************************)
(* Proofs about the word collector, for every file of words, every number  *)
(* of clicks and every size of a batch: what a thread that dies can lose,  *)
(* and what a run that nobody disturbs leaves in the table.                *)
(***************************************************************************)
EXTENDS RootWords, TLAPS

-----------------------------------------------------------------------------
(* The inductive invariant.                                                *)

(* The line of a thread at work is a line of the file.                     *)
AtWork(t) == pc[t] \in {"fetch", "heads", "phonetic", "insert", "commit", "clear"}

(* The number of a row never runs ahead of the lines read.                 *)
Numbered(t) ==
  /\ AtWork(t) => at[t] <= Len(Lines)
  /\ id[t] <= at[t] + (IF pc[t] \in {"commit", "clear"} THEN 1 ELSE 0)

(* The number of the first row of the batch the row n is in.               *)
BatchStart(n) == n - (n % Batch)

(* The open transaction holds rows of its writer, all of the batch of the  *)
(* writer's last row; a batch that is full is committed next.              *)
BatchInv(t) ==
  writer = t =>
    /\ \A r \in pending : BatchStart(id[t] - 1) <= r.id /\ r.id <= id[t] - 1
    /\ pc[t] # "commit" => id[t] % Batch # 0

NobodysRows == writer = NoThread => pending = {}

(* While it is quiet one thread runs, and the cells are those of its line: *)
(* all but the first are empty until its pages are looked at.              *)
OneRuns == \A t, u \in Thread : Running(t) /\ Running(u) => t = u

Filling(t) == pc[t] \in {"phonetic", "insert", "commit", "clear"}

CellsOf(t) ==
  AtWork(t) =>
    /\ rootWord["word"] = Lines[at[t]]
    /\ Filling(t) => OfOneWord([cells |-> rootWord])

CellsEmpty ==
  (\A t \in Thread : ~Filling(t)) => \A c \in Cell \ {"word"} : rootWord[c] = NoWord

WordsOf(R) == {r.cells["word"] : r \in R}

(* The only thread so far has in the table, or in its transaction, the     *)
(* words it parsed; the one it parsed last is inserted next.               *)
Alone(t) == \A u \in Thread \ {t} : pc[u] = "new"

Saved(t) ==
  Alone(t) =>
    /\ parsed[t] = WordsOf(rows \cup pending)
                     \cup (IF pc[t] = "insert" THEN {Lines[at[t]]} ELSE {})
    /\ writer \in {t, NoThread}
    /\ pc[t] \in {"new", "drop", "create", "dialog", "done"} => writer = NoThread
    /\ pc[t] \in {"new", "drop", "create", "dialog"} => rows = {}

QuietInv ==
  quiet =>
    /\ OneRuns
    /\ CellsEmpty
    /\ \A t \in Thread : CellsOf(t) /\ Saved(t)
    /\ \A r \in rows \cup pending : OfOneWord(r)

IInv ==
  /\ TypeOK
  /\ NobodysRows
  /\ \A t \in Thread : Numbered(t) /\ BatchInv(t)
  /\ QuietInv

-----------------------------------------------------------------------------
(* Numbers of rows and batches.                                            *)

(* A multiple of b smaller than b is zero.                                 *)
LEMMA SmallMultiple ==
  ASSUME NEW b \in Nat \ {0}, NEW d \in Int, -b < d * b, d * b < b
  PROVE  d = 0
<1>1. d >= 1 => d * b >= b
  OBVIOUS
<1>2. d <= -1 => d * b <= -b
  OBVIOUS
<1> QED BY <1>1, <1>2

(* A number has one remainder.                                             *)
LEMMA RemainderUnique ==
  ASSUME NEW b \in Nat \ {0}, NEW p \in Int, NEW q \in Int,
         NEW r \in 0 .. b - 1, NEW s \in 0 .. b - 1, p * b + r = q * b + s
  PROVE  r = s
<1>1. (p - q) * b = s - r
  OBVIOUS
<1>2. -b < s - r /\ s - r < b
  OBVIOUS
<1>3. p - q = 0
  BY <1>1, <1>2, SmallMultiple
<1> QED BY <1>3, <1>1

(* And it has one.                                                         *)
LEMMA Quotient ==
  ASSUME NEW n \in Nat, NEW b \in Nat \ {0}
  PROVE  \E q \in Nat : n = q * b + (n % b)
<1>1. n \div b \in Nat
  OBVIOUS
<1>2. n = (n \div b) * b + (n % b)
  OBVIOUS
<1> QED BY <1>1, <1>2

(* A number that starts no batch is in the batch of the number before.     *)
LEMMA SameBatch ==
  ASSUME NEW n \in Nat, NEW b \in Nat \ {0}, n % b # 0
  PROVE  n - 1 \in Nat /\ n % b = ((n - 1) % b) + 1 /\ n % b < b
<1>1. n - 1 \in Nat
  OBVIOUS
<1>2. PICK q \in Nat : n = q * b + (n % b)
  BY Quotient
<1>3. PICK p \in Nat : n - 1 = p * b + ((n - 1) % b)
  BY <1>1, Quotient
<1>4. (n % b) - 1 \in 0 .. b - 1 /\ (n - 1) % b \in 0 .. b - 1
  BY <1>1
<1>5. q * b + ((n % b) - 1) = p * b + ((n - 1) % b)
  BY <1>1, <1>2, <1>3, <1>4
<1>6. (n % b) - 1 = (n - 1) % b
  BY <1>4, <1>5, RemainderUnique
<1> QED BY <1>1, <1>4, <1>6

(* A batch starts at or before any of its rows.                            *)
LEMMA BatchStarts ==
  ASSUME NEW n \in Nat
  PROVE  BatchStart(n) \in Nat /\ BatchStart(n) <= n
<1>1. n % Batch \in 0 .. Batch - 1 /\ n % Batch <= n
  BY RootWordsAssumption
<1> QED BY <1>1 DEF BatchStart

(* A batch that is not full has room for one more.                         *)
LEMMA BatchGoesOn ==
  ASSUME NEW n \in Nat, n % Batch # 0
  PROVE  /\ n - 1 \in Nat
         /\ BatchStart(n) = BatchStart(n - 1)
         /\ n - 1 - BatchStart(n - 1) < Batch - 1
<1>1. n - 1 \in Nat /\ n % Batch = ((n - 1) % Batch) + 1 /\ n % Batch < Batch
  BY SameBatch, RootWordsAssumption
<1>2. n % Batch \in Nat /\ (n - 1) % Batch \in Nat
  BY <1>1, RootWordsAssumption
<1> QED BY <1>1, <1>2, RootWordsAssumption DEF BatchStart

(* What the proofs use of the file.                                        *)
LEMMA LinesAreWords ==
  /\ Len(Lines) \in Nat
  /\ \A i \in 1 .. Len(Lines) : Lines[i] \in Word
BY RootWordsAssumption

-----------------------------------------------------------------------------
(* Domains and the numbers of the rows.                                    *)

(* Parts of steps.                                                         *)
LEMMA DieDomains ==
  ASSUME TypeOK, NEW t \in Thread, Die(t)
  PROVE  TypeOK'
BY DEF TypeOK, Die, Calm, Row

LEMMA FillDomains ==
  ASSUME TypeOK, NEW t \in Thread, at[t] <= Len(Lines), NEW cells, Fill(t, cells)
  PROVE  rootWord' \in [Cell -> Word \cup {NoWord}]
<1>1. Lines[at[t]] \in Word
  BY LinesAreWords DEF TypeOK
<1> QED BY <1>1 DEF Fill, TypeOK

LEMMA RowDomains ==
  ASSUME TypeOK, NEW t \in Thread
  PROVE  [id |-> id[t], cells |-> rootWord] \in Row
BY LinesAreWords DEF TypeOK, Row

LEMMA SkipDomains ==
  ASSUME TypeOK, NEW t \in Thread, at[t] <= Len(Lines), NEW from, Skip(t, from)
  PROVE  TypeOK'
BY LinesAreWords DEF TypeOK, Skip, Go, Advanced, db, Row

(* Every step keeps the domains.                                           *)
LEMMA DomainsStep ==
  ASSUME TypeOK, \A t \in Thread : Numbered(t), NEW t \in Thread, Click(t) \/ Step(t)
  PROVE  TypeOK'
<1>1. CASE Click(t)
  BY <1>1 DEF TypeOK, Click, Go, Calm, db, Row
<1>2. CASE Drop(t)
  BY <1>2, DieDomains DEF TypeOK, Drop, Go, db, Row
<1>3. CASE CreateTable(t)
  BY <1>3, DieDomains DEF TypeOK, CreateTable, Go, db, Row
<1>4. CASE Dialog(t)
  BY <1>4 DEF TypeOK, Dialog, Go, db, Row
<1>5. CASE NextLine(t)
  <2>1. at[t] <= Len(Lines) => Lines[at[t]] \in Word
    BY LinesAreWords DEF TypeOK
  <2>2. pc' \in [Thread -> {"new", "drop", "create", "dialog", "line", "fetch", "heads",
                        "phonetic", "insert", "commit", "clear", "close",
                        "cancelled", "done", "dead"}]
    BY <1>5 DEF NextLine, Go, TypeOK
  <2>3. rootWord' \in [Cell -> Word \cup {NoWord}]
    BY <1>5, <2>1 DEF NextLine, TypeOK, Cell
  <2> QED BY <1>5, <2>2, <2>3 DEF NextLine, TypeOK, db
<1>6. CASE Fetch(t)
  <2>1. at[t] <= Len(Lines)
    BY <1>6 DEF Fetch, Skip, Go, Numbered, AtWork
  <2>2. CASE Skip(t, "fetch")
    BY <2>1, <2>2, SkipDomains
  <2>3. CASE Go(t, "fetch", "heads") /\ UNCHANGED <<at, id, rootWord, db, parsed, quiet>>
    BY <2>3 DEF TypeOK, Go, db, Row
  <2> QED BY <1>6, <2>2, <2>3 DEF Fetch
<1>7. CASE Heads(t)
  <2>1. at[t] <= Len(Lines)
    BY <1>7 DEF Heads, Skip, Go, Numbered, AtWork
  <2>2. CASE Die(t)
    BY <2>2, DieDomains
  <2>3. CASE Skip(t, "heads")
    BY <2>1, <2>3, SkipDomains
  <2>4. ASSUME Go(t, "heads", "phonetic"), NEW cells, Fill(t, cells),
               UNCHANGED <<at, id, db, parsed, quiet>>
        PROVE  TypeOK'
    <3>1. rootWord' \in [Cell -> Word \cup {NoWord}]
      BY <2>1, <2>4, FillDomains
    <3> QED BY <2>4, <3>1 DEF TypeOK, Go, db, Row
  <2> QED BY <1>7, <2>2, <2>3, <2>4 DEF Heads
<1>8. CASE Phonetic(t)
  <2>1. at[t] <= Len(Lines)
    BY <1>8 DEF Phonetic, Go, Numbered, AtWork
  <2>2. CASE Die(t)
    BY <2>2, DieDomains
  <2>3. CASE ~Die(t)
    <3>1. rootWord' \in [Cell -> Word \cup {NoWord}]
      BY <1>8, <2>1, <2>3, FillDomains DEF Phonetic, TypeOK
    <3>2. Lines[at[t]] \in Word
      BY <2>1, LinesAreWords DEF TypeOK
    <3>3. parsed' \in [Thread -> SUBSET Word]
      <4>1. parsed[t] \cup {Lines[at[t]]} \in SUBSET Word
        BY <3>2 DEF TypeOK
      <4>2. parsed' = parsed \/ parsed' = [parsed EXCEPT ![t] = parsed[t] \cup {Lines[at[t]]}]
        BY <1>8, <2>3 DEF Phonetic
      <4> QED BY <4>1, <4>2 DEF TypeOK
    <3> QED BY <1>8, <2>3, <3>1, <3>3 DEF Phonetic, TypeOK, Go, db, Row
  <2> QED BY <2>2, <2>3
<1>9. CASE InsertRow(t)
  <2>1. CASE Die(t)
    BY <2>1, DieDomains
  <2>2. CASE ~Die(t)
    <3>1. pc[t] = "insert" /\ id[t] <= at[t] /\ at[t] <= Len(Lines)
      <4>1. pc[t] = "insert"
        BY <1>9 DEF InsertRow
      <4>2. at[t] <= Len(Lines)
        BY <4>1 DEF Numbered, AtWork
      <4>3. id[t] <= at[t] + 0
        BY <4>1 DEF Numbered
      <4> QED BY <4>1, <4>2, <4>3, LinesAreWords DEF TypeOK
    <3>2. id' \in [Thread -> 1 .. Len(Lines) + 1]
      <4>1. id[t] + 1 \in 1 .. Len(Lines) + 1
        BY <3>1, LinesAreWords DEF TypeOK
      <4>2. id' = [id EXCEPT ![t] = id[t] + 1]
        BY <1>9, <2>2 DEF InsertRow
      <4> QED BY <4>1, <4>2 DEF TypeOK
    <3>3. pending' \subseteq Row
      <4>1. pending' = pending \cup {[id |-> id[t], cells |-> rootWord]}
        BY <1>9, <2>2 DEF InsertRow
      <4> QED BY <4>1, RowDomains DEF TypeOK
    <3> QED BY <1>9, <2>2, <3>2, <3>3 DEF InsertRow, TypeOK, Go
  <2> QED BY <2>1, <2>2
<1>10. CASE CommitBatch(t)
  BY <1>10 DEF TypeOK, CommitBatch, CommitOf, Go, Row
<1>11. CASE Clear(t)
  <2>1. at[t] <= Len(Lines)
    BY <1>11 DEF Clear, Go, Numbered, AtWork
  <2>2. at' \in [Thread -> 1 .. Len(Lines) + 1]
    BY <1>11, <2>1, LinesAreWords DEF Clear, Advanced, TypeOK
  <2> QED BY <1>11, <2>2 DEF Clear, Cleared, TypeOK, Go, db, Row
<1>12. CASE Close(t)
  BY <1>12 DEF TypeOK, Close, LastCommit, CommitOf, Go, Row
<1> QED BY <1>1, <1>2, <1>3, <1>4, <1>5, <1>6, <1>7, <1>8, <1>9, <1>10, <1>11, <1>12 DEF Step

(* Every step keeps the numbers of rows behind the lines.                  *)
LEMMA NumberedStep ==
  ASSUME TypeOK, \A u \in Thread : Numbered(u), NEW t \in Thread, Click(t) \/ Step(t),
         NEW u \in Thread
  PROVE  Numbered(u)'
<1> USE LinesAreWords DEF TypeOK, Go, Numbered, AtWork
<1>1. CASE Click(t)
  BY <1>1 DEF Click, Calm
<1>2. CASE Drop(t)
  BY <1>2 DEF Drop, Die, Calm
<1>3. CASE CreateTable(t)
  BY <1>3 DEF CreateTable, Die, Calm
<1>4. CASE Dialog(t)
  BY <1>4 DEF Dialog
<1>5. CASE NextLine(t)
  BY <1>5 DEF NextLine
<1>6. CASE Fetch(t)
  <2>1. CASE Skip(t, "fetch")
    BY <2>1 DEF Skip, Advanced
  <2>2. CASE Go(t, "fetch", "heads") /\ UNCHANGED <<at, id, rootWord, db, parsed, quiet>>
    BY <2>2
  <2> QED BY <1>6, <2>1, <2>2 DEF Fetch
<1>7. CASE Heads(t)
  BY <1>7 DEF Heads, Skip, Advanced, Fill, Die, Calm
<1>8. CASE Phonetic(t)
  BY <1>8 DEF Phonetic, Fill, Die, Calm
<1>9. CASE InsertRow(t)
  <2>1. pc[t] = "insert"
    BY <1>9 DEF InsertRow
  <2>2. CASE Die(t)
    BY <2>1, <2>2 DEF Die, Calm
  <2>3. CASE /\ pc' = [pc EXCEPT ![t] = "commit"]
             /\ id' = [id EXCEPT ![t] = @ + 1] /\ at' = at
    BY <2>1, <2>3
  <2> QED BY <1>9, <2>2, <2>3 DEF InsertRow
<1>10. CASE CommitBatch(t)
  BY <1>10 DEF CommitBatch, CommitOf
<1>11. CASE Clear(t)
  BY <1>11 DEF Clear, Advanced, Cleared
<1>12. CASE Close(t)
  BY <1>12 DEF Close, LastCommit, CommitOf
<1> QED BY <1>1, <1>2, <1>3, <1>4, <1>5, <1>6, <1>7, <1>8, <1>9, <1>10, <1>11, <1>12 DEF Step

(* Every step keeps the open transaction within the writer's batch.        *)
LEMMA BatchStep ==
  ASSUME TypeOK, NobodysRows, \A u \in Thread : BatchInv(u),
         NEW t \in Thread, Click(t) \/ Step(t)
  PROVE  NobodysRows' /\ \A u \in Thread : BatchInv(u)'
<1> USE RootWordsAssumption DEF TypeOK, Go, db, NobodysRows, BatchInv
<1>1. CASE Click(t)
  BY <1>1 DEF Click, Calm, Locked
<1>2. CASE Drop(t)
  BY <1>2 DEF Drop, Die, Calm, Locked
<1>3. CASE CreateTable(t)
  BY <1>3 DEF CreateTable, Die, Calm, Locked
<1>4. CASE Dialog(t)
  BY <1>4 DEF Dialog, Locked
<1>5. CASE NextLine(t)
  BY <1>5 DEF NextLine, Locked
<1>6. CASE Fetch(t)
  BY <1>6 DEF Fetch, Skip, Advanced, Locked
<1>7. CASE Heads(t)
  BY <1>7 DEF Heads, Skip, Advanced, Fill, Die, Calm, Locked
<1>8. CASE Phonetic(t)
  BY <1>8 DEF Phonetic, Fill, Die, Calm, Locked
<1>9. CASE InsertRow(t)
  <2> DEFINE n == id[t]
  <2>1. CASE Die(t)
    BY <2>1 DEF Die
  <2>2. CASE ~Die(t)
    <3>1. n \in Nat /\ n >= 1
      BY LinesAreWords
    <3>2. BatchStart(n) <= n /\ BatchStart(n) \in Nat
      BY <3>1, BatchStarts
    <3>3. writer \in {t, NoThread} /\ writer' = t /\ id'[t] = n + 1 /\ pc'[t] = "commit"
          /\ pc[t] = "insert"
      BY <1>9, <2>2 DEF InsertRow, Locked
    <3>4. ASSUME NEW r \in pending
          PROVE  BatchStart(n) <= r.id /\ r.id <= n
      <4>1. writer = t
        BY <3>3
      <4>2. n % Batch # 0 /\ BatchStart(n - 1) <= r.id /\ r.id <= n - 1
        BY <3>3, <4>1
      <4>3. BatchStart(n) = BatchStart(n - 1)
        BY <3>1, <4>2, BatchGoesOn
      <4>4. r.id \in Nat
        BY DEF Row
      <4> QED BY <3>1, <4>2, <4>3, <4>4
    <3>5. \A r \in pending' : BatchStart(n) <= r.id /\ r.id <= n
      BY <1>9, <2>2, <3>1, <3>2, <3>4 DEF InsertRow
    <3> QED BY <3>1, <3>3, <3>5
  <2> QED BY <2>1, <2>2
<1>10. CASE CommitBatch(t)
  BY <1>10 DEF CommitBatch, CommitOf, BatchFull, Locked
<1>11. CASE Clear(t)
  BY <1>11 DEF Clear, Advanced, Cleared, Locked
<1>12. CASE Close(t)
  BY <1>12 DEF Close, LastCommit, CommitOf, Locked
<1> QED BY <1>1, <1>2, <1>3, <1>4, <1>5, <1>6, <1>7, <1>8, <1>9, <1>10, <1>11, <1>12 DEF Step

-----------------------------------------------------------------------------
(* While it is quiet.                                                      *)

Rests(u) == pc[u] \in {"new", "cancelled", "done", "dead"}

(* Nobody but the thread of the step is under way, before and after it.    *)
LEMMA OthersRest ==
  ASSUME TypeOK, OneRuns, NEW t \in Thread, Step(t)
  PROVE  /\ pc'[t] # "new" /\ Running(t)
         /\ \A u \in Thread \ {t} : Rests(u) /\ pc'[u] = pc[u]
<1>1. Running(t) /\ pc'[t] # "new" /\ \A u \in Thread \ {t} : pc'[u] = pc[u]
  <2> USE DEF TypeOK, Go, Running, Ended
  <2>1. CASE Drop(t)
    BY <2>1 DEF Drop, Die, Calm
  <2>2. CASE CreateTable(t)
    BY <2>2 DEF CreateTable, Die, Calm
  <2>3. CASE Dialog(t)
    BY <2>3 DEF Dialog
  <2>4. CASE NextLine(t)
    BY <2>4 DEF NextLine
  <2>5. CASE Fetch(t)
    BY <2>5 DEF Fetch, Skip, Advanced
  <2>6. CASE Heads(t)
    BY <2>6 DEF Heads, Skip, Advanced, Fill, Die, Calm
  <2>7. CASE Phonetic(t)
    BY <2>7 DEF Phonetic, Fill, Die, Calm
  <2>8. CASE InsertRow(t)
    BY <2>8 DEF InsertRow, Die, Calm
  <2>9. CASE CommitBatch(t)
    BY <2>9 DEF CommitBatch, CommitOf
  <2>10. CASE Clear(t)
    BY <2>10 DEF Clear, Advanced, Cleared
  <2>11. CASE Close(t)
    BY <2>11 DEF Close, LastCommit, CommitOf
  <2> QED BY <2>1, <2>2, <2>3, <2>4, <2>5, <2>6, <2>7, <2>8, <2>9, <2>10, <2>11 DEF Step
<1>2. \A u \in Thread \ {t} : ~Running(u)
  BY <1>1 DEF OneRuns
<1> QED BY <1>1, <1>2 DEF TypeOK, Running, Ended, Rests

(* Before the pages are looked at the cells are empty.                     *)
LEMMA NobodyFills ==
  ASSUME TypeOK, OneRuns, CellsEmpty, NEW t \in Thread, Step(t), ~Filling(t)
  PROVE  \A c \in Cell \ {"word"} : rootWord[c] = NoWord
BY OthersRest DEF CellsEmpty, Filling, Rests

(* A quiet step leaves the cells of one line's word.                       *)
LEMMA CellsStep ==
  ASSUME TypeOK, OneRuns, CellsEmpty, NEW t \in Thread, CellsOf(t), Step(t), quiet'
  PROVE  CellsOf(t)' /\ CellsEmpty'
<1>1. \A u \in Thread \ {t} : Rests(u) /\ pc'[u] = pc[u]
  BY OthersRest
<1>2. ~Filling(t) => \A c \in Cell \ {"word"} : rootWord[c] = NoWord
  BY NobodyFills
<1>3. ASSUME CellsOf(t)',
             ~Filling(t)' => \A c \in Cell \ {"word"} : rootWord'[c] = NoWord
      PROVE  CellsOf(t)' /\ CellsEmpty'
  BY <1>3 DEF CellsEmpty
<1> SUFFICES CellsOf(t)' /\ (~Filling(t)' => \A c \in Cell \ {"word"} : rootWord'[c] = NoWord)
  BY <1>3
<1> USE DEF TypeOK, Go, CellsOf, AtWork, Filling, OfOneWord, Cell
<1>4. CASE Drop(t)
  BY <1>4, <1>2 DEF Drop, Die, Calm
<1>5. CASE CreateTable(t)
  BY <1>5, <1>2 DEF CreateTable, Die, Calm
<1>6. CASE Dialog(t)
  BY <1>6, <1>2 DEF Dialog
<1>7. CASE NextLine(t)
  BY <1>7, <1>2 DEF NextLine
<1>8. CASE Fetch(t)
  BY <1>8, <1>2 DEF Fetch, Skip, Advanced
<1>9. CASE Heads(t)
  BY <1>9, <1>2 DEF Heads, Skip, Advanced, Fill, Die, Calm
<1>10. CASE Phonetic(t)
  BY <1>10, <1>2 DEF Phonetic, Fill, Die, Calm
<1>11. CASE InsertRow(t)
  BY <1>11, <1>2 DEF InsertRow, Die, Calm
<1>12. CASE CommitBatch(t)
  BY <1>12, <1>2 DEF CommitBatch, CommitOf
<1>13. CASE Clear(t)
  BY <1>13, <1>2 DEF Clear, Advanced, Cleared
<1>14. CASE Close(t)
  BY <1>14, <1>2 DEF Close, LastCommit, CommitOf
<1> QED BY <1>4, <1>5, <1>6, <1>7, <1>8, <1>9, <1>10, <1>11, <1>12, <1>13, <1>14 DEF Step

(* A quiet step saves cells of one word.                                   *)
LEMMA RowsStep ==
  ASSUME TypeOK, NEW t \in Thread, CellsOf(t), \A r \in rows \cup pending : OfOneWord(r),
         Step(t), quiet'
  PROVE  \A r \in (rows \cup pending)' : OfOneWord(r)
<1>1. CASE Drop(t)
  BY <1>1 DEF Drop, Die, Calm, db
<1>2. CASE CreateTable(t)
  BY <1>2 DEF CreateTable, Die, Calm, db
<1>3. CASE Dialog(t)
  BY <1>3 DEF Dialog, db
<1>4. CASE NextLine(t)
  BY <1>4 DEF NextLine, db
<1>5. CASE Fetch(t)
  BY <1>5 DEF Fetch, Skip, db
<1>6. CASE Heads(t)
  BY <1>6 DEF Heads, Skip, Die, Calm, db
<1>7. CASE Phonetic(t)
  BY <1>7 DEF Phonetic, Die, Calm, db
<1>8. CASE InsertRow(t)
  <2>1. pending' = pending \cup {[id |-> id[t], cells |-> rootWord]} /\ rows' = rows
    BY <1>8 DEF InsertRow, Die, Calm
  <2>2. OfOneWord([cells |-> rootWord])
    BY <1>8 DEF InsertRow, CellsOf, AtWork, Filling
  <2>3. OfOneWord([id |-> id[t], cells |-> rootWord])
    BY <2>2 DEF OfOneWord
  <2> QED BY <2>1, <2>3 DEF OfOneWord
<1>9. CASE CommitBatch(t)
  BY <1>9 DEF CommitBatch, CommitOf, db
<1>10. CASE Clear(t)
  BY <1>10 DEF Clear, db
<1>11. CASE Close(t)
  BY <1>11 DEF Close, LastCommit, CommitOf, db
<1> QED BY <1>1, <1>2, <1>3, <1>4, <1>5, <1>6, <1>7, <1>8, <1>9, <1>10, <1>11 DEF Step

(* A quiet step of the only thread so far keeps its words.                 *)
LEMMA SavedStep ==
  ASSUME TypeOK, NobodysRows, OneRuns, NEW t \in Thread, CellsOf(t), Saved(t),
         Step(t), quiet, quiet'
  PROVE  Saved(t)'
<1>1. \A u \in Thread \ {t} : pc'[u] = pc[u]
  BY OthersRest
<1>2. Alone(t)' => Alone(t)
  BY <1>1 DEF Alone
<1> SUFFICES ASSUME Alone(t) PROVE Saved(t)'
  BY <1>2 DEF Saved
<1> USE RootWordsAssumption DEF TypeOK, NobodysRows, Go, db, Saved, CellsOf, AtWork, WordsOf
<1>3. CASE Drop(t)
  BY <1>3 DEF Drop, Die, Calm, Locked
<1>4. CASE CreateTable(t)
  BY <1>4 DEF CreateTable, Die, Calm, Locked
<1>5. CASE Dialog(t)
  BY <1>5 DEF Dialog
<1>6. CASE NextLine(t)
  BY <1>6 DEF NextLine
<1>7. CASE Fetch(t)
  BY <1>7 DEF Fetch, Skip, Advanced
<1>8. CASE Heads(t)
  BY <1>8 DEF Heads, Skip, Advanced, Die, Calm
<1>9. CASE Phonetic(t)
  BY <1>9 DEF Phonetic, Die, Calm
<1>10. CASE InsertRow(t)
  <2> DEFINE row == [id |-> id[t], cells |-> rootWord]
  <2>1. pending' = pending \cup {row} /\ rows' = rows /\ parsed' = parsed
    BY <1>10 DEF InsertRow, Die, Calm
  <2>2. pc[t] = "insert" /\ pc'[t] = "commit" /\ writer' = t
    BY <1>10 DEF InsertRow, Die, Calm
  <2>3. row.cells["word"] = Lines[at[t]]
    BY <2>2
  <2>4. WordsOf(rows' \cup pending') = WordsOf(rows \cup pending) \cup {row.cells["word"]}
    BY <2>1
  <2>5. parsed[t] = WordsOf(rows \cup pending) \cup {Lines[at[t]]}
    BY <2>2
  <2> QED BY <2>1, <2>2, <2>3, <2>4, <2>5
<1>11. CASE CommitBatch(t)
  BY <1>11 DEF CommitBatch, CommitOf
<1>12. CASE Clear(t)
  BY <1>12 DEF Clear, Advanced, Cleared
<1>13. CASE Close(t)
  BY <1>13 DEF Close, LastCommit, CommitOf
<1> QED BY <1>3, <1>4, <1>5, <1>6, <1>7, <1>8, <1>9, <1>10, <1>11, <1>12, <1>13 DEF Step

(* Together.                                                               *)
LEMMA QuietStep ==
  ASSUME TypeOK, NobodysRows, QuietInv, NEW t \in Thread, Step(t)
  PROVE  QuietInv'
<1> SUFFICES ASSUME quiet'
             PROVE  QuietInv'
  BY DEF QuietInv
<1>1. quiet
  BY DEF Step, Drop, CreateTable, Dialog, NextLine, Fetch, Skip, Heads, Phonetic, InsertRow,
         CommitBatch, Clear, Close, Die, Calm
<1>2. OneRuns /\ CellsEmpty /\ CellsOf(t) /\ Saved(t) /\ \A r \in rows \cup pending : OfOneWord(r)
  BY <1>1 DEF QuietInv
<1>3. /\ pc'[t] # "new"
      /\ \A u \in Thread \ {t} : Rests(u) /\ pc'[u] = pc[u]
  BY <1>2, OthersRest
<1>4. \A u \in Thread \ {t} : CellsOf(u)' /\ Saved(u)' /\ ~Running(u)'
  BY <1>3 DEF Rests, CellsOf, AtWork, Saved, Alone, Running, Ended
<1>5. CellsOf(t)' /\ CellsEmpty'
  BY <1>2, CellsStep
<1>6. Saved(t)'
  BY <1>1, <1>2, SavedStep
<1>7. \A r \in (rows \cup pending)' : OfOneWord(r)
  BY <1>2, RowsStep
<1>8. OneRuns'
  BY <1>4 DEF OneRuns
<1> QED BY <1>4, <1>5, <1>6, <1>7, <1>8 DEF QuietInv

(* A click while nobody runs.                                              *)
LEMMA QuietClick ==
  ASSUME TypeOK, QuietInv, NEW t \in Thread, Click(t)
  PROVE  QuietInv'
<1> SUFFICES ASSUME quiet'
             PROVE  QuietInv'
  BY DEF QuietInv
<1> USE DEF TypeOK, Go, db
<1>1. /\ quiet /\ pc[t] = "new" /\ pc'[t] = "drop" /\ parsed' = parsed
      /\ UNCHANGED <<at, rootWord, rows, pending, writer>>
      /\ \A u \in Thread : ~Running(u)
      /\ \A u \in Thread \ {t} : pc'[u] = pc[u]
  BY DEF Click, Calm
<1>2. OneRuns'
  BY <1>1 DEF OneRuns, Running, Ended
<1>3. CellsEmpty'
  BY <1>1 DEF QuietInv, CellsEmpty, Filling
<1>4. \A u \in Thread : CellsOf(u)'
  BY <1>1 DEF QuietInv, CellsOf, AtWork, Filling
<1>5. \A u \in Thread \ {t} : Saved(u)'
  BY <1>1 DEF Saved, Alone
<1>6. Saved(t)'
  BY <1>1 DEF QuietInv, Saved, Alone
<1> QED BY <1>1, <1>2, <1>3, <1>4, <1>5, <1>6 DEF QuietInv

-----------------------------------------------------------------------------
(* What follows from it.                                                   *)

(* The inductive invariant holds in every reachable state.                 *)
THEOREM Invariance == Spec => []IInv
<1>1. Init => IInv
  BY LinesAreWords, RootWordsAssumption
     DEF Init, IInv, TypeOK, Row, NobodysRows, Numbered, AtWork, BatchInv, QuietInv,
         OneRuns, Running, Ended, CellsEmpty, CellsOf, Filling, Saved, Alone, WordsOf
<1>2. IInv /\ [Next]_vars => IInv'
  <2> SUFFICES ASSUME IInv, [Next]_vars
               PROVE  IInv'
    OBVIOUS
  <2>1. CASE Next
    <3>1. PICK t \in Thread : Click(t) \/ Step(t)
      BY <2>1 DEF Next
    <3>2. TypeOK'
      BY <3>1, DomainsStep DEF IInv
    <3>3. \A u \in Thread : Numbered(u)'
      BY <3>1, NumberedStep DEF IInv
    <3>4. NobodysRows' /\ \A u \in Thread : BatchInv(u)'
      BY <3>1, BatchStep DEF IInv
    <3>5. QuietInv'
      BY <3>1, QuietStep, QuietClick DEF IInv
    <3> QED BY <3>2, <3>3, <3>4, <3>5 DEF IInv
  <2>2. CASE UNCHANGED vars
    BY <2>2 DEF vars, IInv, TypeOK, NobodysRows, Numbered, AtWork, BatchInv, QuietInv,
                OneRuns, Running, Ended, CellsEmpty, CellsOf, Filling, Saved, Alone, WordsOf
  <2> QED BY <2>1, <2>2
<1> QED BY <1>1, <1>2, PTL DEF Spec

(* What a thread can lose when it dies is less than a batch, however       *)
(* threads interleave (src/RootWordGenerated.py:70).                       *)
THEOREM LessThanABatch == Spec => []LossBounded
<1>1. IInv => LossBounded
  <2> SUFFICES ASSUME IInv, \A t \in Thread : pc[t] # "commit",
                      NEW r \in pending, NEW q \in pending
               PROVE  r.id - q.id < Batch - 1
    BY DEF LossBounded
  <2>1. PICK t \in Thread : writer = t
    BY DEF IInv, TypeOK, NobodysRows
  <2> DEFINE n == id[t]
  <2>2. n \in Nat /\ r.id \in Nat /\ q.id \in Nat
    BY LinesAreWords DEF IInv, TypeOK, Row
  <2>3. /\ n % Batch # 0
        /\ BatchStart(n - 1) <= q.id
        /\ r.id <= n - 1
    BY <2>1 DEF IInv, BatchInv
  <2>4. n - 1 \in Nat /\ n - 1 - BatchStart(n - 1) < Batch - 1
    BY <2>2, <2>3, BatchGoesOn
  <2>5. BatchStart(n - 1) \in Nat
    BY <2>4, BatchStarts
  <2> QED BY <2>2, <2>3, <2>4, <2>5, RootWordsAssumption
<1> QED BY <1>1, Invariance, PTL

(* Threads that run one after the other, none of which dies, leave rows of *)
(* one word each; the one that ran alone leaves exactly the words it       *)
(* parsed, the last incomplete batch too (src/RootWordGenerated.py:60-83). *)
THEOREM QuietRunsSave == Spec => []QuietRunsSaveTheirWords
<1>1. IInv => QuietRunsSaveTheirWords
  <2> SUFFICES ASSUME IInv
               PROVE  QuietRunsSaveTheirWords
    OBVIOUS
  <2>1. QuietRowsOfOneWord
    BY DEF IInv, QuietInv, QuietRowsOfOneWord
  <2>2. ASSUME NEW t \in Thread, quiet, pc[t] = "done", \A u \in Thread \ {t} : pc[u] = "new"
        PROVE  {r.cells["word"] : r \in rows} = parsed[t]
    <3>1. Saved(t) /\ Alone(t)
      BY <2>2 DEF IInv, QuietInv, Alone
    <3>2. pending = {}
      BY <2>2, <3>1 DEF Saved, IInv, NobodysRows
    <3>3. parsed[t] = WordsOf(rows \cup pending)
      BY <2>2, <3>1 DEF Saved
    <3> QED BY <3>2, <3>3 DEF WordsOf
  <2> QED BY <2>1, <2>2 DEF IInv, QuietRunSaves, QuietRunsSaveTheirWords
<1> QED BY <1>1, Invariance, PTL
=============================================================================
