--------------------------- MODULE BplusTreeBytes ---------------------------
(***************************************************************************)
(* BplusTreeBytes.cs (BplusDotNet): a map from keys to byte arrays, made   *)
(* of a B+ tree in one file (BplusTreeLong, taken as the AtomicMap it is   *)
(* shown to be) whose values are the numbers of chunks in another file     *)
(* (LinkedFile, taken as the ChunkStore it is shown to be).  No write      *)
(* spans the two files: a call is several steps, and the process may die   *)
(* between any two of them.                                                *)
(*                                                                         *)
(* A chunk that a commit may still need waits in FreeChunksOnCommit (foc); *)
(* a chunk of the transaction's own is in FreeChunksOnAbort (foa) and is   *)
(* released as soon as it is replaced.                                     *)
(***************************************************************************)
EXTENDS Naturals

CONSTANTS Keys,       \* what callers use as keys
          LongKeys,   \* the ones BplusNode.KeyOK refuses
          Contents,   \* the byte arrays
          Ids,        \* the chunk numbers explored
          None

ASSUME BytesAssumption ==
  /\ LongKeys \subseteq Keys
  /\ None \notin Ids /\ None \notin Contents

VARIABLES
  disk,    \* key -> chunk, as the tree file has it
  mem,     \* the same as the tree object sees it
  chunk,   \* chunk -> contents, as the linked file's object sees it
  filed,   \* the same as a Flush has last made sure of
  foc,     \* FreeChunksOnCommit
  foa,     \* FreeChunksOnAbort
  pc,      \* where the call under way is, or idle, closed, raised
  key,     \* the key of that call
  new,     \* the chunk stored by it
  littered \* history: a death or a refused key since the last Recover

vars == <<disk, mem, chunk, filed, foc, foa, pc, key, new, littered>>

Range(m) == { m[k] : k \in Keys } \ {None}
Stored == { i \in Ids : chunk[i] # None }

Init ==
  /\ disk = [k \in Keys |-> None] /\ mem = disk
  /\ chunk = [i \in Ids |-> None] /\ filed = chunk
  /\ foc = {} /\ foa = {}
  /\ pc = "idle" /\ key \in Keys /\ new = None /\ littered = FALSE

(* LinkedFile.ReleaseBuffers raises for what is no chunk.                  *)
Release(i, next) ==
  IF chunk[i] = None THEN pc' = "raised" /\ UNCHANGED chunk
  ELSE pc' = next /\ chunk' = [chunk EXCEPT ![i] = None]

Bug_ReleasesOld(i, next) == foa' = foa \ {i} /\ Release(i, next) /\ UNCHANGED foc

Bug_ForgetsOwn(i, next) ==
  /\ IF i \in foa THEN foa' = foa \ {i} /\ UNCHANGED foc
     ELSE foc' = foc \cup {i} /\ UNCHANGED foa
  /\ pc' = next /\ UNCHANGED chunk

(* A chunk that the tree will not use any more.                            *)
Retire(i, next) ==
  IF i \in foa
  THEN foa' = foa \ {i} /\ Release(i, next) /\ UNCHANGED foc
  ELSE foc' = foc \cup {i} /\ pc' = next /\ UNCHANGED <<foa, chunk>>

-----------------------------------------------------------------------------
(* this[key] = value: the bytes are stored under a number that is free,    *)
(* the chunk they replace is retired, then the tree is changed.            *)
Store(k) ==
  /\ pc = "idle"
  /\ \E i \in Ids \ Stored, c \in Contents :
       /\ chunk' = [chunk EXCEPT ![i] = c]
       /\ foa' = foa \cup {i} /\ new' = i
  /\ key' = k /\ pc' = "stored"
  /\ UNCHANGED <<disk, mem, filed, foc, littered>>

Replace ==
  /\ pc = "stored"
  /\ IF mem[key] = None THEN pc' = "linking" /\ UNCHANGED <<foc, foa, chunk>>
     ELSE Retire(mem[key], "linking")
  /\ UNCHANGED <<disk, mem, filed, key, new, littered>>

(* A key that is too long is refused only here; its chunk stays.           *)
Link ==
  /\ pc = "linking" /\ pc' = "idle"
  /\ IF key \in LongKeys THEN UNCHANGED mem /\ littered' = TRUE
     ELSE mem' = [mem EXCEPT ![key] = new] /\ UNCHANGED littered
  /\ UNCHANGED <<disk, chunk, filed, foc, foa, key, new>>

RemoveKey(k) ==
  /\ pc = "idle" /\ mem[k] # None
  /\ Retire(mem[k], "unlinking") /\ key' = k
  /\ UNCHANGED <<disk, mem, filed, new, littered>>

Unlink ==
  /\ pc = "unlinking" /\ pc' = "idle"
  /\ mem' = [mem EXCEPT ![key] = None]
  /\ UNCHANGED <<disk, chunk, filed, foc, foa, key, new, littered>>

-----------------------------------------------------------------------------
(* Commit: the chunks are flushed, the tree commits, the chunks that it    *)
(* has left behind are released (foc stands for toFree as well).           *)
Flush == pc = "idle" /\ pc' = "flushed" /\ filed' = chunk
           /\ UNCHANGED <<disk, mem, chunk, foc, foa, key, new, littered>>

CommitTree == pc = "flushed" /\ pc' = "freeing" /\ disk' = mem
                /\ UNCHANGED <<mem, chunk, filed, foc, foa, key, new, littered>>

FreeOne ==
  /\ pc = "freeing"
  /\ \E i \in foc : Release(i, "freeing") /\ foc' = foc \ {i}
  /\ UNCHANGED <<disk, mem, filed, foa, key, new, littered>>

EndCommit == pc = "freeing" /\ foc = {} /\ pc' = "idle"
               /\ filed' = chunk /\ foa' = {}
               /\ UNCHANGED <<disk, mem, chunk, foc, key, new, littered>>

(* Abort: the transaction's chunks are released before the tree turns back.*)
Abort == pc = "idle" /\ pc' = "aborting"
           /\ UNCHANGED <<disk, mem, chunk, filed, foc, foa, key, new, littered>>

AbortOne ==
  /\ pc = "aborting"
  /\ \E i \in foa : Release(i, "aborting") /\ foa' = foa \ {i}
  /\ UNCHANGED <<disk, mem, filed, foc, key, new, littered>>

Bug_MemStays == pc = "aborting" /\ foa = {} /\ pc' = "idle"
                  /\ filed' = chunk /\ foc' = {}
                  /\ UNCHANGED <<disk, mem, chunk, foa, key, new, littered>>

EndAbort == pc = "aborting" /\ foa = {} /\ pc' = "idle"
              /\ mem' = disk /\ filed' = chunk /\ foc' = {}
              /\ UNCHANGED <<disk, chunk, foa, key, new, littered>>

-----------------------------------------------------------------------------
(* Recover(true): chunks of no key and of no pending release are released. *)
(* Either file may turn out to be beyond it after a death.                 *)
Recover ==
  /\ pc = "idle"
  /\ \/ littered /\ pc' = "raised" /\ UNCHANGED <<chunk, littered>>
     \/ /\ chunk' = [i \in Ids |-> IF i \in Range(mem) \cup foc THEN chunk[i] ELSE None]
        /\ littered' = FALSE /\ UNCHANGED pc
  /\ UNCHANGED <<disk, mem, filed, foc, foa, key, new>>

(* Shutdown, or the process dies: each chunk that was stored or released   *)
(* since a Flush is in the file, or is not.                                *)
Die ==
  /\ pc # "closed" /\ pc' = "closed"
  /\ \E S \in SUBSET Ids :
       chunk' = [i \in Ids |-> IF i \in S THEN chunk[i] ELSE filed[i]]
  /\ filed' = chunk'
  /\ foc' = {} /\ foa' = {} /\ mem' = disk /\ littered' = TRUE
  /\ UNCHANGED <<disk, key, new>>

ReOpen == pc = "closed" /\ pc' = "idle"
            /\ UNCHANGED <<disk, mem, chunk, filed, foc, foa, key, new, littered>>

Step == Replace \/ Link \/ Unlink \/ CommitTree \/ FreeOne \/ EndCommit
          \/ AbortOne \/ EndAbort

Next ==
  \/ \E k \in Keys : Store(k) \/ RemoveKey(k)
  \/ Step \/ Flush \/ Abort \/ Recover \/ Die \/ ReOpen

Spec == Init /\ [][Next]_vars

-----------------------------------------------------------------------------
Numbers == Ids \cup {None}
Places == {"idle", "closed", "raised", "stored", "linking", "unlinking",
           "flushed", "freeing", "aborting"}

TypeOK ==
  /\ disk \in [Keys -> Numbers] /\ mem \in [Keys -> Numbers]
  /\ chunk \in [Ids -> Contents \cup {None}]
  /\ filed \in [Ids -> Contents \cup {None}]
  /\ foc \subseteq Ids /\ foa \subseteq Ids
  /\ pc \in Places /\ key \in Keys /\ new \in Numbers /\ littered \in BOOLEAN

(* What the last commit left can be read, now and if the process died at   *)
(* this point: no committed chunk is ever released, reused or left in a    *)
(* buffer of the process.                                                  *)
Intact ==
  \A k \in Keys : disk[k] # None =>
    chunk[disk[k]] # None /\ filed[disk[k]] = chunk[disk[k]]

(* "buffer number associated with more than one key" (Recover) is never    *)
(* said: neither the committed map nor the one in memory shares a chunk.   *)
OneKeyEach ==
  \A k, l \in Keys : k # l =>
    /\ disk[k] # None => disk[k] # disk[l]
    /\ mem[k] # None => mem[k] # mem[l]

(* Between calls, unless something died or was refused, every stored chunk *)
(* has a key in memory or waits for the commit.                            *)
NothingLeaks == pc = "idle" /\ ~ littered => Stored = Range(mem) \cup foc

(* Every chunk is accounted for, and by one key (BplusTreeBytes.cs).       *)
ChunksAccounted == TypeOK /\ OneKeyEach /\ NothingLeaks

(* The bytes that a reader of a map m of chunk numbers gets from chunks c. *)
Bytes(m, c) == [k \in { x \in Keys : m[x] # None } |-> c[m[k]]]

(* What the call under way has decided: this[key] = value counts from the  *)
(* moment the chunk is stored, RemoveKey from the chunk's retirement, Abort*)
(* from its start.                                                         *)
View ==
  CASE pc \in {"stored", "linking"} /\ key \notin LongKeys -> [mem EXCEPT ![key] = new]
    [] pc = "unlinking" -> [mem EXCEPT ![key] = None]
    [] pc \in {"aborting", "closed", "raised"} -> disk
    [] OTHER -> mem

(* The two files together are one map with atomic commits, aborts and      *)
(* deaths.                                                                 *)
Committed == Bytes(disk, chunk)
Working == Bytes(View, chunk)

Map == INSTANCE AtomicMap WITH Vals <- Contents, committed <- Committed,
                               working <- Working
IsAtomicMap == Map!Spec
=============================================================================
