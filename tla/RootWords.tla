----------------------------- MODULE RootWords ------------------------------
(***************************************************************************)
(* The word collector of the application: every click on "RootWord" starts *)
(* a RootWordThread (src/htmlParser.py), which reads words from a file,    *)
(* fetches their pages, parses them (src/RootWordHtmlParser.py) into the   *)
(* list GlobalVariable.rootWord and saves that as a row                    *)
(* (src/RootWordGenerated.py).  All threads share the list and the table.  *)
(*                                                                         *)
(* A row is seen by where its cells come from: each of the groups of cells *)
(* that are assigned together holds the word whose pages it was taken      *)
(* from.  The database is external, SQLite as the calls use it: the first  *)
(* INSERT of a connection takes the write lock until its commit, a         *)
(* statement of another that finds the lock taken raises after a while, a  *)
(* connection that is dropped rolls back.                                  *)
(***************************************************************************)
EXTENDS Integers, Sequences

CONSTANTS Thread,   \* the clicks
          Lines,    \* the words of the file, one a line
          NoWord,   \* an empty cell
          NoThread, \* nobody has the write lock
          Batch     \* a commit every Batch rows, 10 in the code

Word == {Lines[i] : i \in DOMAIN Lines}

(* Cells assigned together: 0 and 12; 1; 6 and 8; 3, 4 and 11.  Cell 2,    *)
(* set whatever the pages say, is left out: it tells no more than these.   *)
Cell == {"word", "head", "root", "phonetic"}

ASSUME RootWordsAssumption ==
  /\ Lines \in Seq(Word)
  /\ NoWord \notin Word
  /\ NoThread \notin Thread
  /\ Batch \in Nat \ {0}

VARIABLES
  pc,       \* where each thread is
  at,       \* the line each thread is at
  id,       \* self.ID of each thread's RootWordGenerated
  rootWord, \* GlobalVariable.rootWord
  table,    \* the table exists
  rows,     \* its committed rows
  pending,  \* the rows of the open transaction
  writer,   \* the thread whose connection has the write lock
  parsed,   \* history: the words each thread parsed to the end while quiet
  quiet     \* history: no two threads ran at a time, and none died

vars == <<pc, at, id, rootWord, table, rows, pending, writer, parsed, quiet>>

db == <<table, rows, pending, writer>>

Row == [id : Nat, cells : [Cell -> Word \cup {NoWord}]]

(* The threads, the shared word and the table keep their domain: no        *)
(* counter of a RootWordThread runs past the end of the file's lines.      *)
TypeOK ==
  /\ pc \in [Thread -> {"new", "drop", "create", "dialog", "line", "fetch", "heads",
                        "phonetic", "insert", "commit", "clear", "close",
                        "cancelled", "done", "dead"}]
  /\ at \in [Thread -> 1 .. Len(Lines) + 1]
  /\ id \in [Thread -> 1 .. Len(Lines) + 1]
  /\ rootWord \in [Cell -> Word \cup {NoWord}]
  /\ table \in BOOLEAN
  /\ rows \subseteq Row /\ pending \subseteq Row
  /\ writer \in Thread \cup {NoThread}
  /\ parsed \in [Thread -> SUBSET Word]
  /\ quiet \in BOOLEAN

(* The table of an earlier day may be there; a new file has none.          *)
Init ==
  /\ pc = [t \in Thread |-> "new"]
  /\ at = [t \in Thread |-> 1]
  /\ id = [t \in Thread |-> 1]
  /\ rootWord = [c \in Cell |-> NoWord]
  /\ table \in BOOLEAN
  /\ rows = {} /\ pending = {}
  /\ writer = NoThread
  /\ parsed = [t \in Thread |-> {}]
  /\ quiet = TRUE

Ended(t) == pc[t] \in {"cancelled", "done", "dead"}
Running(t) == pc[t] # "new" /\ ~Ended(t)

Go(t, from, to) == pc[t] = from /\ pc' = [pc EXCEPT ![t] = to]

(* The histories: is it still quiet, and which words are parsed.           *)
Calm(still) ==
  /\ quiet' = still
  /\ parsed' = [t \in Thread |-> IF still THEN parsed[t] ELSE {}]

(***************************************************************************)
(* An exception nobody catches ends the thread; its connection goes with   *)
(* it, and the transaction is rolled back.                                 *)
(***************************************************************************)
Die(t) ==
  /\ pc' = [pc EXCEPT ![t] = "dead"]
  /\ pending' = IF writer = t THEN {} ELSE pending
  /\ writer' = IF writer = t THEN NoThread ELSE writer
  /\ Calm(FALSE)
  /\ UNCHANGED <<at, id, rootWord, table, rows>>

-----------------------------------------------------------------------------
Click(t) ==
  /\ Go(t, "new", "drop")
  /\ Calm(quiet /\ \A u \in Thread : ~Running(u))
  /\ UNCHANGED <<at, id, rootWord, db>>

Locked(t) == writer \notin {t, NoThread}

(* DROP TABLE without IF EXISTS.                                           *)
Drop(t) ==
  /\ pc[t] = "drop"
  /\ IF table /\ ~Locked(t)
     THEN /\ Go(t, "drop", "create")
          /\ table' = FALSE /\ rows' = {}
          /\ UNCHANGED <<at, id, rootWord, pending, writer, parsed, quiet>>
     ELSE Die(t)

(* CREATE TABLE IF NOT EXISTS.                                             *)
CreateTable(t) ==
  /\ pc[t] = "create"
  /\ IF table \/ ~Locked(t)
     THEN /\ Go(t, "create", "dialog")
          /\ table' = TRUE
          /\ UNCHANGED <<at, id, rootWord, rows, pending, writer, parsed, quiet>>
     ELSE Die(t)

(* The user picks the file, or none: the table stays as it is then, empty. *)
Dialog(t) ==
  /\ Go(t, "dialog", "line") \/ Go(t, "dialog", "cancelled")
  /\ UNCHANGED <<at, id, rootWord, db, parsed, quiet>>

(* The next line of the file: its word and address are set.                *)
NextLine(t) ==
  /\ \/ /\ at[t] <= Len(Lines)
        /\ Go(t, "line", "fetch")
        /\ rootWord' = [rootWord EXCEPT !["word"] = Lines[at[t]]]
     \/ /\ at[t] > Len(Lines)
        /\ Go(t, "line", "close")
        /\ UNCHANGED rootWord
  /\ UNCHANGED <<at, id, db, parsed, quiet>>

(* Mutant: a word that was dealt with is tried again.                      *)
Bug_Again(t) == at

Advanced(t) == [at EXCEPT ![t] = @ + 1]

(* The parser returned False: the word is skipped, nothing is cleared.     *)
Skip(t, from) ==
  /\ Go(t, from, "line")
  /\ at' = Advanced(t)
  /\ UNCHANGED <<id, rootWord, db, parsed, quiet>>

(* The three pages are fetched, or a request raises HTTPError.             *)
Fetch(t) ==
  \/ Skip(t, "fetch")
  \/ /\ Go(t, "fetch", "heads")
     /\ UNCHANGED <<at, id, rootWord, db, parsed, quiet>>

Fill(t, cells) ==
  rootWord' = [c \in Cell |-> IF c \in cells THEN Lines[at[t]] ELSE rootWord[c]]

(* The page of the word: not a dictionary page, without PIE, or with lines *)
(* that give the head of the entry, the root, or both.                     *)
Heads(t) ==
  \/ pc[t] = "heads" /\ Die(t)
  \/ Skip(t, "heads")
  \/ /\ Go(t, "heads", "phonetic")
     /\ \E cells \in SUBSET {"head", "root"} : cells # {} /\ Fill(t, cells)
     /\ UNCHANGED <<at, id, db, parsed, quiet>>

(* The page of the phonetic: empty (soup2.div is None), or without an      *)
(* entry, or with one, whose missing parts are set to None; the parser     *)
(* returns True.                                                           *)
Phonetic(t) ==
  \/ pc[t] = "phonetic" /\ Die(t)
  \/ /\ Go(t, "phonetic", "insert")
     /\ \/ UNCHANGED rootWord
        \/ Fill(t, {"phonetic"})
        \/ rootWord' = [rootWord EXCEPT !["phonetic"] = NoWord]
     /\ parsed' = IF quiet THEN [parsed EXCEPT ![t] = @ \cup {Lines[at[t]]}] ELSE parsed
     /\ UNCHANGED <<at, id, db, quiet>>

-----------------------------------------------------------------------------
(* INSERT of the cells as they are now, under the thread's own number.     *)
InsertRow(t) ==
  /\ pc[t] = "insert"
  /\ IF table /\ ~Locked(t) /\ \A r \in rows \cup pending : r.id # id[t]
     THEN /\ Go(t, "insert", "commit")
          /\ pending' = pending \cup {[id |-> id[t], cells |-> rootWord]}
          /\ writer' = t
          /\ id' = [id EXCEPT ![t] = @ + 1]
          /\ UNCHANGED <<at, rootWord, table, rows, parsed, quiet>>
     ELSE Die(t)

CommitOf(t) ==
  IF writer = t
  THEN rows' = rows \cup pending /\ pending' = {} /\ writer' = NoThread
  ELSE UNCHANGED <<rows, pending, writer>>

(* Mutant: nothing is committed before the end.                            *)
Bug_NoBatch(t) == FALSE

BatchFull(t) == id[t] % Batch = 0

CommitBatch(t) ==
  /\ Go(t, "commit", "clear")
  /\ IF BatchFull(t) THEN CommitOf(t) ELSE UNCHANGED <<rows, pending, writer>>
  /\ UNCHANGED <<at, id, rootWord, table, parsed, quiet>>

(* Mutant: the cells are not cleared.                                      *)
Bug_NotCleared == rootWord

Cleared == [c \in Cell |-> NoWord]

(* The list is cleared for the next word.                                  *)
Clear(t) ==
  /\ Go(t, "clear", "line")
  /\ rootWord' = Cleared
  /\ at' = Advanced(t)
  /\ UNCHANGED <<id, db, parsed, quiet>>

LastCommit(t) == CommitOf(t)

(* End of file: commit and close.                                          *)
Close(t) ==
  /\ Go(t, "close", "done")
  /\ LastCommit(t)
  /\ UNCHANGED <<at, id, rootWord, table, parsed, quiet>>

Step(t) ==
  \/ Drop(t) \/ CreateTable(t) \/ Dialog(t) \/ NextLine(t) \/ Fetch(t)
  \/ Heads(t) \/ Phonetic(t) \/ InsertRow(t) \/ CommitBatch(t)
  \/ Clear(t) \/ Close(t)

Next == \E t \in Thread : Click(t) \/ Step(t)

(* A thread that runs goes on: no statement waits for ever.                *)
Spec == Init /\ [][Next]_vars /\ \A t \in Thread : WF_vars(Step(t))

-----------------------------------------------------------------------------
OfOneWord(r) == \A c \in Cell : r.cells[c] \in {r.cells["word"], NoWord}

(***************************************************************************)
(* As long as threads run one after the other and none dies, a row holds   *)
(* cells of one word only: whatever the parser leaves unset is empty,      *)
(* because the list is cleared after a row and a word that is given up is  *)
(* given up before a cell is set (src/RootWordHtmlParser.py:35-73).        *)
(***************************************************************************)
QuietRowsOfOneWord == quiet => \A r \in rows \cup pending : OfOneWord(r)

(***************************************************************************)
(* Then the file's words are saved: a thread that ended with nobody after  *)
(* it leaves exactly the words it parsed, the last incomplete batch too.   *)
(***************************************************************************)
QuietRunSaves ==
  \A t \in Thread :
    quiet /\ pc[t] = "done" /\ (\A u \in Thread \ {t} : pc[u] = "new") =>
      {r.cells["word"] : r \in rows} = parsed[t]

(* Both, for the threads, the shared word and the table in their domains:  *)
(* a quiet run saves its words (src/RootWordGenerated.py:60-83).           *)
QuietRunsSaveTheirWords == TypeOK /\ QuietRowsOfOneWord /\ QuietRunSaves

(***************************************************************************)
(* What a thread can lose when it dies is less than a batch, however       *)
(* threads interleave (src/RootWordGenerated.py:70).                       *)
(***************************************************************************)
LossBounded ==
  (\A t \in Thread : pc[t] # "commit") =>
    \A r, q \in pending : r.id - q.id < Batch - 1

(***************************************************************************)
(* Every thread ends, whoever holds the lock and whatever it meets.        *)
(***************************************************************************)
EveryThreadEnds == \A t \in Thread : Running(t) ~> Ended(t)
=============================================================================
