------------------------ MODULE BplusTreeBytesProofs ------------------------
(***************************************************************************)
(* That no death of the process, at any step of any call, touches what the *)
(* last commit of BplusTreeBytes left, and that the two files together are *)
(* the AtomicMap that ITreeIndex.cs promises.                              *)
(***************************************************************************)
EXTENDS BplusTreeBytes, TLAPS

(* A key keeps the chunk that mem gives it unless the call under way has   *)
(* retired that chunk and has not changed the tree yet.                    *)
Holds(k) == mem[k] # None /\ ~ (pc \in {"linking", "unlinking"} /\ k = key)

(* In a call that has raised nothing about the tables of chunks is needed: *)
(* it ends with the object.                                                *)
HeldStored == pc \notin {"raised", "aborting"} =>
                \A k \in Keys : Holds(k) => chunk[mem[k]] # None

(* What a release takes is never committed: the transaction's own chunks   *)
(* are on no disk, and those that wait for the commit are in no memory.    *)
OwnNotCommitted == pc \notin {"raised", "freeing"} =>
                     \A k \in Keys : disk[k] # None => disk[k] \notin foa
PendingNotHeld == pc # "raised" =>
                    \A k \in Keys : Holds(k) => mem[k] \notin foc
PendingStored == pc # "raised" =>
                   (foc \cap foa = {} /\ \A i \in foc : chunk[i] # None)

(* A committed chunk is held or waits, so Recover leaves it.               *)
CommittedInUse == pc # "raised" =>
  \A k \in Keys : disk[k] # None =>
    disk[k] \in foc \/ \E l \in Keys : Holds(l) /\ mem[l] = disk[k]

(* A chunk that was stored and is not linked yet is nobody's.              *)
NewIsNew == pc \in {"stored", "linking"} =>
  /\ new \in Ids /\ chunk[new] # None /\ new \notin foc
  /\ \A k \in Keys : mem[k] # new /\ disk[k] # new

Phases == /\ pc = "flushed" => filed = chunk
          /\ pc = "freeing" => disk = mem
          /\ pc = "unlinking" => mem[key] # None
          /\ pc = "closed" => mem = disk

(* A refused key never gets into the tree.                                 *)
NoLongKey == \A k \in LongKeys : mem[k] = None /\ disk[k] = None

IInv == /\ TypeOK /\ Intact /\ OneKeyEach
        /\ HeldStored /\ OwnNotCommitted /\ PendingNotHeld /\ PendingStored
        /\ CommittedInUse /\ NewIsNew /\ Phases /\ NoLongKey

-----------------------------------------------------------------------------
LEMMA InitIInv == Init => IInv
  BY BytesAssumption
  DEF Init, IInv, TypeOK, Intact, OneKeyEach, HeldStored, OwnNotCommitted,
      PendingNotHeld, PendingStored, CommittedInUse, NewIsNew, Phases,
      NoLongKey, Holds, Numbers, Places

LEMMA StutterIInv == IInv /\ UNCHANGED vars => IInv'
  BY DEF vars, IInv, TypeOK, Intact, OneKeyEach, HeldStored, OwnNotCommitted,
      PendingNotHeld, PendingStored, CommittedInUse, NewIsNew, Phases,
      NoLongKey, Holds, Numbers, Places

(* A chunk number that is handed out names no stored chunk, so no key, on  *)
(* disk or in memory, and no pending release has it.                       *)
LEMMA StoreIInv == ASSUME NEW k \in Keys, IInv, Store(k) PROVE IInv'
<1> USE DEF IInv
<1>1. PICK i \in Ids \ Stored, c \in Contents :
        /\ chunk' = [chunk EXCEPT ![i] = c]
        /\ foa' = foa \cup {i} /\ new' = i
  BY DEF Store
<1>2. /\ pc = "idle" /\ pc' = "stored" /\ key' = k
      /\ UNCHANGED <<disk, mem, filed, foc, littered>>
  BY DEF Store
<1>3. chunk \in [Ids -> Contents \cup {None}] /\ chunk[i] = None /\ c # None
  BY <1>1, BytesAssumption DEF TypeOK, Stored
<1>4. /\ i \notin foc
      /\ \A l \in Keys : mem[l] # i /\ disk[l] # i
  BY <1>2, <1>3, BytesAssumption
  DEF TypeOK, PendingStored, HeldStored, Holds, Intact
<1>5. \A j \in Ids : j # i => chunk'[j] = chunk[j]
  BY <1>1, <1>3
<1>6. chunk'[i] = c
  BY <1>1, <1>3
<1>7. TypeOK'
  BY <1>1, <1>2, <1>3 DEF TypeOK, Numbers, Places
<1>8. Intact' /\ OneKeyEach'
  BY <1>2, <1>4, <1>5 DEF Intact, OneKeyEach, TypeOK, Numbers
<1>9. HeldStored' /\ PendingNotHeld'
  BY <1>2, <1>4, <1>5 DEF HeldStored, PendingNotHeld, Holds, TypeOK, Numbers
<1>10. OwnNotCommitted' /\ CommittedInUse'
  BY <1>1, <1>2, <1>4 DEF OwnNotCommitted, CommittedInUse, Holds
<1>11. PendingStored'
  BY <1>1, <1>2, <1>4, <1>5 DEF PendingStored, TypeOK
<1>12. NewIsNew' /\ Phases' /\ NoLongKey'
  BY <1>1, <1>2, <1>3, <1>4, <1>6 DEF NewIsNew, Phases, NoLongKey
<1>13. QED
  BY <1>7, <1>8, <1>9, <1>10, <1>11, <1>12

LEMMA ReplaceIInv == ASSUME IInv, Replace PROVE IInv'
  BY BytesAssumption
  DEF Replace, Retire, Release, IInv, TypeOK, Intact, OneKeyEach, HeldStored,
      OwnNotCommitted, PendingNotHeld, PendingStored, CommittedInUse, NewIsNew,
      Phases, NoLongKey, Holds, Numbers, Places

(* Linking the new chunk: every other key holds what it held.              *)
LEMMA LinkIInv == ASSUME IInv, Link PROVE IInv'
<1> USE DEF IInv
<1>1. /\ pc = "linking" /\ pc' = "idle"
      /\ UNCHANGED <<disk, chunk, filed, foc, foa, key, new>>
  BY DEF Link
<1>2. /\ mem \in [Keys -> Numbers] /\ key \in Keys
      /\ mem' \in [Keys -> Numbers] /\ littered' \in BOOLEAN
      /\ \A l \in Keys : l # key => mem'[l] = mem[l]
      /\ IF key \in LongKeys THEN mem'[key] = None ELSE mem'[key] = new
  BY <1>1 DEF Link, TypeOK, NoLongKey
<1>3. \A l \in Keys : Holds(l)' <=> mem'[l] # None
  BY <1>1 DEF Holds
<1>4. \A l \in Keys : Holds(l) <=> mem[l] # None /\ l # key
  BY <1>1 DEF Holds
<1>5. /\ new # None /\ chunk[new] # None /\ new \notin foc
      /\ \A k \in Keys : mem[k] # new /\ disk[k] # new
  BY <1>1, BytesAssumption DEF NewIsNew
<1>6. TypeOK'
  BY <1>1, <1>2 DEF TypeOK, Places
<1>7. Intact' /\ OneKeyEach'
  BY <1>1, <1>2, <1>5 DEF Intact, OneKeyEach
<1>8. HeldStored'
  BY <1>1, <1>2, <1>3, <1>4, <1>5 DEF HeldStored
<1>9. PendingNotHeld'
  BY <1>1, <1>2, <1>3, <1>4, <1>5 DEF PendingNotHeld
<1>10. OwnNotCommitted' /\ PendingStored'
  BY <1>1 DEF OwnNotCommitted, PendingStored
<1>11. CommittedInUse'
  <2> SUFFICES ASSUME NEW k \in Keys, disk[k] # None, disk[k] \notin foc
               PROVE  \E l \in Keys : Holds(l)' /\ mem'[l] = disk[k]
    BY <1>1 DEF CommittedInUse
  <2>1. PICK l \in Keys : Holds(l) /\ mem[l] = disk[k]
    BY <1>1 DEF CommittedInUse
  <2>2. Holds(l)' /\ mem'[l] = disk[k]
    BY <2>1, <1>2, <1>3, <1>4
  <2>3. QED
    BY <2>2
<1>12. NewIsNew' /\ Phases' /\ NoLongKey'
  BY <1>1, <1>2, BytesAssumption DEF NewIsNew, Phases, NoLongKey
<1>13. QED
  BY <1>6, <1>7, <1>8, <1>9, <1>10, <1>11, <1>12

LEMMA RemoveKeyIInv == ASSUME NEW k \in Keys, IInv, RemoveKey(k) PROVE IInv'
  BY BytesAssumption
  DEF RemoveKey, Retire, Release, IInv, TypeOK, Intact, OneKeyEach, HeldStored,
      OwnNotCommitted, PendingNotHeld, PendingStored, CommittedInUse, NewIsNew,
      Phases, NoLongKey, Holds, Numbers, Places

LEMMA UnlinkIInv == ASSUME IInv, Unlink PROVE IInv'
  BY BytesAssumption
  DEF Unlink, IInv, TypeOK, Intact, OneKeyEach, HeldStored,
      OwnNotCommitted, PendingNotHeld, PendingStored, CommittedInUse, NewIsNew,
      Phases, NoLongKey, Holds, Numbers, Places

LEMMA FlushIInv == ASSUME IInv, Flush PROVE IInv'
  BY BytesAssumption
  DEF Flush, IInv, TypeOK, Intact, OneKeyEach, HeldStored,
      OwnNotCommitted, PendingNotHeld, PendingStored, CommittedInUse, NewIsNew,
      Phases, NoLongKey, Holds, Numbers, Places

LEMMA CommitTreeIInv == ASSUME IInv, CommitTree PROVE IInv'
  BY BytesAssumption
  DEF CommitTree, IInv, TypeOK, Intact, OneKeyEach, HeldStored,
      OwnNotCommitted, PendingNotHeld, PendingStored, CommittedInUse, NewIsNew,
      Phases, NoLongKey, Holds, Numbers, Places

LEMMA FreeOneIInv == ASSUME IInv, FreeOne PROVE IInv'
  BY BytesAssumption
  DEF FreeOne, Release, IInv, TypeOK, Intact, OneKeyEach, HeldStored,
      OwnNotCommitted, PendingNotHeld, PendingStored, CommittedInUse, NewIsNew,
      Phases, NoLongKey, Holds, Numbers, Places

LEMMA EndCommitIInv == ASSUME IInv, EndCommit PROVE IInv'
  BY BytesAssumption
  DEF EndCommit, IInv, TypeOK, Intact, OneKeyEach, HeldStored,
      OwnNotCommitted, PendingNotHeld, PendingStored, CommittedInUse, NewIsNew,
      Phases, NoLongKey, Holds, Numbers, Places

LEMMA AbortIInv == ASSUME IInv, Abort PROVE IInv'
  BY BytesAssumption
  DEF Abort, IInv, TypeOK, Intact, OneKeyEach, HeldStored,
      OwnNotCommitted, PendingNotHeld, PendingStored, CommittedInUse, NewIsNew,
      Phases, NoLongKey, Holds, Numbers, Places

LEMMA AbortOneIInv == ASSUME IInv, AbortOne PROVE IInv'
  BY BytesAssumption
  DEF AbortOne, Release, IInv, TypeOK, Intact, OneKeyEach, HeldStored,
      OwnNotCommitted, PendingNotHeld, PendingStored, CommittedInUse, NewIsNew,
      Phases, NoLongKey, Holds, Numbers, Places

LEMMA EndAbortIInv == ASSUME IInv, EndAbort PROVE IInv'
  BY BytesAssumption
  DEF EndAbort, IInv, TypeOK, Intact, OneKeyEach, HeldStored,
      OwnNotCommitted, PendingNotHeld, PendingStored, CommittedInUse, NewIsNew,
      Phases, NoLongKey, Holds, Numbers, Places

(* Recover takes no chunk that a key or a pending release has; that a      *)
(* committed chunk is one of these is CommittedInUse.                      *)
LEMMA RecoverIInv == ASSUME IInv, Recover PROVE IInv'
<1> USE DEF IInv
<1>1. UNCHANGED <<disk, mem, filed, foc, foa, key, new>> /\ pc = "idle"
  BY DEF Recover
<1>2. CASE pc' = "raised" /\ UNCHANGED <<chunk, littered>>
  BY <1>1, <1>2
  DEF TypeOK, Intact, OneKeyEach, HeldStored, OwnNotCommitted, PendingNotHeld,
      PendingStored, CommittedInUse, NewIsNew, Phases, NoLongKey, Places
<1>3. CASE /\ chunk' = [i \in Ids |-> IF i \in Range(mem) \cup foc THEN chunk[i]
                                                                   ELSE None]
           /\ littered' = FALSE /\ pc' = pc
  <2>1. \A i \in Ids : i \in Range(mem) \cup foc => chunk'[i] = chunk[i]
    BY <1>3
  <2>2. \A l \in Keys : mem[l] # None => chunk'[mem[l]] = chunk[mem[l]]
    BY <2>1, BytesAssumption DEF Range, TypeOK, Numbers
  <2>3. \A l \in Keys : disk[l] # None => chunk'[disk[l]] = chunk[disk[l]]
    BY <1>1, <2>1, <2>2 DEF CommittedInUse, Holds, TypeOK, Numbers
  <2>4. TypeOK'
    BY <1>1, <1>3 DEF TypeOK
  <2>5. Intact' /\ OneKeyEach'
    BY <1>1, <2>3 DEF Intact, OneKeyEach
  <2>6. HeldStored' /\ PendingNotHeld' /\ OwnNotCommitted' /\ CommittedInUse'
    BY <1>1, <1>3, <2>2
    DEF HeldStored, PendingNotHeld, OwnNotCommitted, CommittedInUse, Holds
  <2>7. PendingStored' /\ NewIsNew' /\ Phases' /\ NoLongKey'
    BY <1>1, <1>3, <2>1 DEF PendingStored, NewIsNew, Phases, NoLongKey, TypeOK
  <2>8. QED
    BY <2>4, <2>5, <2>6, <2>7
<1>4. QED
  BY <1>2, <1>3 DEF Recover

LEMMA DieIInv == ASSUME IInv, Die PROVE IInv'
  BY BytesAssumption
  DEF Die, IInv, TypeOK, Intact, OneKeyEach, HeldStored,
      OwnNotCommitted, PendingNotHeld, PendingStored, CommittedInUse, NewIsNew,
      Phases, NoLongKey, Holds, Numbers, Places

LEMMA ReOpenIInv == ASSUME IInv, ReOpen PROVE IInv'
  BY BytesAssumption
  DEF ReOpen, IInv, TypeOK, Intact, OneKeyEach, HeldStored,
      OwnNotCommitted, PendingNotHeld, PendingStored, CommittedInUse, NewIsNew,
      Phases, NoLongKey, Holds, Numbers, Places
LEMMA NextIInv == IInv /\ [Next]_vars => IInv'
<1> SUFFICES ASSUME IInv, [Next]_vars PROVE IInv'
  OBVIOUS
<1>1. CASE \E k \in Keys : Store(k) \/ RemoveKey(k)
  BY <1>1, StoreIInv, RemoveKeyIInv
<1>2. CASE Step
  BY <1>2, ReplaceIInv, LinkIInv, UnlinkIInv, CommitTreeIInv, FreeOneIInv,
     EndCommitIInv, AbortOneIInv, EndAbortIInv DEF Step
<1>3. CASE Flush \/ Abort \/ Recover \/ Die \/ ReOpen
  BY <1>3, FlushIInv, AbortIInv, RecoverIInv, DieIInv, ReOpenIInv
<1>4. CASE UNCHANGED vars
  BY <1>4, StutterIInv
<1>5. QED
  BY <1>1, <1>2, <1>3, <1>4 DEF Next

THEOREM Inductive == Spec => []IInv
  BY InitIInv, NextIInv, PTL DEF Spec

(* The fields and tables keep their types.                                 *)
THEOREM TypeCorrect == Spec => []TypeOK
  BY Inductive, PTL DEF IInv

(* What the last commit left is readable after a death at any step.        *)
THEOREM CommittedIntact == Spec => []Intact
  BY Inductive, PTL DEF IInv

(* No chunk ever belongs to two keys.                                      *)
THEOREM NoChunkShared == Spec => []OneKeyEach
  BY Inductive, PTL DEF IInv

-----------------------------------------------------------------------------
(* Where the stored chunks are, when nothing died or was refused.          *)

(* Every one is held, waits for the commit, or is about to be linked.      *)
HeldOrPending == ~ littered /\ pc \notin {"raised", "aborting"} =>
  \A i \in Stored :
    \/ i \in foc
    \/ \E l \in Keys : Holds(l) /\ mem[l] = i
    \/ pc \in {"stored", "linking"} /\ i = new

OwnOrCommitted(i) == i \in foa \/ \E k \in Keys : disk[k] = i

(* An abort that releases the transaction's own leaves the committed ones. *)
StoredOwnOrCommitted == ~ littered /\ pc \notin {"raised", "freeing"} =>
  \A i \in Stored : OwnOrCommitted(i)

(* This also after a death or a refused key: a Recover that follows leaves *)
(* only chunks that are held or wait.                                      *)
UsedOwnOrCommitted == pc \notin {"raised", "freeing", "aborting"} =>
  /\ \A i \in foc : OwnOrCommitted(i)
  /\ \A l \in Keys : Holds(l) => OwnOrCommitted(mem[l])
  /\ pc \in {"stored", "linking"} => new \in foa

LInv == /\ HeldOrPending /\ StoredOwnOrCommitted /\ UsedOwnOrCommitted
        /\ pc = "closed" => littered

(* Every step keeps that.                                                  *)
LEMMA InitLInv == Init => LInv
  BY BytesAssumption
  DEF Init, LInv, HeldOrPending, StoredOwnOrCommitted, UsedOwnOrCommitted, OwnOrCommitted,
      Stored, Holds

LEMMA StutterLInv == LInv /\ UNCHANGED vars => LInv'
  BY DEF vars, LInv, HeldOrPending, StoredOwnOrCommitted, UsedOwnOrCommitted, OwnOrCommitted,
         Stored, Holds

LEMMA StoreLInv == ASSUME NEW k \in Keys, IInv, LInv, Store(k) PROVE LInv'
  BY BytesAssumption
  DEF Store, IInv, TypeOK, Numbers, OneKeyEach, Intact, OwnNotCommitted, PendingNotHeld,
      PendingStored, NewIsNew, Phases, LInv, HeldOrPending, StoredOwnOrCommitted,
      UsedOwnOrCommitted, OwnOrCommitted, Stored, Holds

LEMMA RemoveKeyLInv == ASSUME NEW k \in Keys, IInv, LInv, RemoveKey(k) PROVE LInv'
  BY BytesAssumption
  DEF RemoveKey, Retire, Release, IInv, TypeOK, Numbers, OneKeyEach, Intact, OwnNotCommitted, PendingNotHeld,
      PendingStored, NewIsNew, Phases, LInv, HeldOrPending, StoredOwnOrCommitted,
      UsedOwnOrCommitted, OwnOrCommitted, Stored, Holds

LEMMA ReplaceLInv == ASSUME IInv, LInv, Replace PROVE LInv'
  BY BytesAssumption
  DEF Replace, Retire, Release, IInv, TypeOK, Numbers, OneKeyEach, Intact, OwnNotCommitted, PendingNotHeld,
      PendingStored, NewIsNew, Phases, LInv, HeldOrPending, StoredOwnOrCommitted,
      UsedOwnOrCommitted, OwnOrCommitted, Stored, Holds

(* The new chunk is held from now on, or, refused, littered.               *)
LEMMA LinkLInv == ASSUME IInv, LInv, Link PROVE LInv'
<1> USE DEF IInv, LInv
<1>1. /\ pc = "linking" /\ pc' = "idle"
      /\ UNCHANGED <<disk, chunk, filed, foc, foa, key, new>>
      /\ key \in LongKeys => mem' = mem /\ littered'
      /\ key \notin LongKeys => mem' = [mem EXCEPT ![key] = new] /\ littered' = littered
  BY DEF Link
<1>2. /\ mem \in [Keys -> Numbers] /\ key \in Keys
      /\ \A l \in Keys : l # key => mem'[l] = mem[l]
      /\ key \notin LongKeys => mem'[key] = new
      /\ key \in LongKeys => mem'[key] = None
  BY <1>1 DEF TypeOK, NoLongKey
<1>3. \A l \in Keys : Holds(l)' <=> mem'[l] # None
  BY <1>1 DEF Holds
<1>4. \A l \in Keys : Holds(l) <=> mem[l] # None /\ l # key
  BY <1>1 DEF Holds
<1>5. new \in Ids /\ new # None /\ new \in foa
  BY <1>1, BytesAssumption DEF NewIsNew, UsedOwnOrCommitted
<1>6. \A l \in Keys : Holds(l) => Holds(l)' /\ mem'[l] = mem[l]
  BY <1>2, <1>3, <1>4
<1>7. HeldOrPending'
  <2> SUFFICES ASSUME ~ littered', NEW i \in Stored, i \notin foc
               PROVE  \E l \in Keys : Holds(l)' /\ mem'[l] = i
    BY <1>1 DEF HeldOrPending, Stored
  <2>1. key \notin LongKeys /\ ~ littered
    BY <1>1
  <2>2. CASE i = new
    BY <1>2, <1>3, <1>5, <2>1, <2>2
  <2>3. CASE i # new
    BY <1>1, <1>6, <2>1, <2>3 DEF HeldOrPending
  <2> QED BY <2>2, <2>3
<1>8. \A i : OwnOrCommitted(i) => OwnOrCommitted(i)'
  BY <1>1 DEF OwnOrCommitted
<1>9. StoredOwnOrCommitted'
  BY <1>1, <1>8 DEF StoredOwnOrCommitted, Stored
<1>10. UsedOwnOrCommitted'
  <2>1. \A l \in Keys : mem'[l] # None => OwnOrCommitted(mem'[l])
    BY <1>1, <1>2, <1>4, <1>5 DEF UsedOwnOrCommitted, OwnOrCommitted
  <2> QED BY <1>1, <1>3, <1>8, <2>1 DEF UsedOwnOrCommitted
<1> QED BY <1>1, <1>7, <1>9, <1>10

LEMMA UnlinkLInv == ASSUME IInv, LInv, Unlink PROVE LInv'
  BY BytesAssumption
  DEF Unlink, IInv, TypeOK, Numbers, OneKeyEach, Intact, OwnNotCommitted, PendingNotHeld,
      PendingStored, NewIsNew, Phases, LInv, HeldOrPending, StoredOwnOrCommitted,
      UsedOwnOrCommitted, OwnOrCommitted, Stored, Holds

LEMMA FlushLInv == ASSUME IInv, LInv, Flush PROVE LInv'
  BY BytesAssumption
  DEF Flush, IInv, TypeOK, Numbers, OneKeyEach, Intact, OwnNotCommitted, PendingNotHeld,
      PendingStored, NewIsNew, Phases, LInv, HeldOrPending, StoredOwnOrCommitted,
      UsedOwnOrCommitted, OwnOrCommitted, Stored, Holds

LEMMA CommitTreeLInv == ASSUME IInv, LInv, CommitTree PROVE LInv'
  BY BytesAssumption
  DEF CommitTree, IInv, TypeOK, Numbers, OneKeyEach, Intact, OwnNotCommitted, PendingNotHeld,
      PendingStored, NewIsNew, Phases, LInv, HeldOrPending, StoredOwnOrCommitted,
      UsedOwnOrCommitted, OwnOrCommitted, Stored, Holds

LEMMA FreeOneLInv == ASSUME IInv, LInv, FreeOne PROVE LInv'
  BY BytesAssumption
  DEF FreeOne, Release, IInv, TypeOK, Numbers, OneKeyEach, Intact, OwnNotCommitted, PendingNotHeld,
      PendingStored, NewIsNew, Phases, LInv, HeldOrPending, StoredOwnOrCommitted,
      UsedOwnOrCommitted, OwnOrCommitted, Stored, Holds

LEMMA EndCommitLInv == ASSUME IInv, LInv, EndCommit PROVE LInv'
  BY BytesAssumption
  DEF EndCommit, IInv, TypeOK, Numbers, OneKeyEach, Intact, OwnNotCommitted, PendingNotHeld,
      PendingStored, NewIsNew, Phases, LInv, HeldOrPending, StoredOwnOrCommitted,
      UsedOwnOrCommitted, OwnOrCommitted, Stored, Holds

LEMMA AbortLInv == ASSUME IInv, LInv, Abort PROVE LInv'
  BY BytesAssumption
  DEF Abort, IInv, TypeOK, Numbers, OneKeyEach, Intact, OwnNotCommitted, PendingNotHeld,
      PendingStored, NewIsNew, Phases, LInv, HeldOrPending, StoredOwnOrCommitted,
      UsedOwnOrCommitted, OwnOrCommitted, Stored, Holds

LEMMA AbortOneLInv == ASSUME IInv, LInv, AbortOne PROVE LInv'
  BY BytesAssumption
  DEF AbortOne, Release, IInv, TypeOK, Numbers, OneKeyEach, Intact, OwnNotCommitted, PendingNotHeld,
      PendingStored, NewIsNew, Phases, LInv, HeldOrPending, StoredOwnOrCommitted,
      UsedOwnOrCommitted, OwnOrCommitted, Stored, Holds

LEMMA EndAbortLInv == ASSUME IInv, LInv, EndAbort PROVE LInv'
  BY BytesAssumption
  DEF EndAbort, IInv, TypeOK, Numbers, OneKeyEach, Intact, OwnNotCommitted, PendingNotHeld,
      PendingStored, NewIsNew, Phases, LInv, HeldOrPending, StoredOwnOrCommitted,
      UsedOwnOrCommitted, OwnOrCommitted, Stored, Holds

LEMMA RecoverLInv == ASSUME IInv, LInv, Recover PROVE LInv'
  BY BytesAssumption
  DEF Recover, Range, IInv, TypeOK, Numbers, OneKeyEach, Intact, OwnNotCommitted, PendingNotHeld,
      PendingStored, NewIsNew, Phases, LInv, HeldOrPending, StoredOwnOrCommitted,
      UsedOwnOrCommitted, OwnOrCommitted, Stored, Holds

LEMMA DieLInv == ASSUME IInv, LInv, Die PROVE LInv'
  BY BytesAssumption
  DEF Die, IInv, TypeOK, Numbers, OneKeyEach, Intact, OwnNotCommitted, PendingNotHeld,
      PendingStored, NewIsNew, Phases, LInv, HeldOrPending, StoredOwnOrCommitted,
      UsedOwnOrCommitted, OwnOrCommitted, Stored, Holds

LEMMA ReOpenLInv == ASSUME IInv, LInv, ReOpen PROVE LInv'
  BY BytesAssumption
  DEF ReOpen, IInv, TypeOK, Numbers, OneKeyEach, Intact, OwnNotCommitted, PendingNotHeld,
      PendingStored, NewIsNew, Phases, LInv, HeldOrPending, StoredOwnOrCommitted,
      UsedOwnOrCommitted, OwnOrCommitted, Stored, Holds

(* Where every stored chunk is, after any calls, deaths and Recovers.      *)
THEOREM Placed == Spec => []LInv
<1>1. IInv /\ LInv /\ [Next]_vars => LInv'
  <2> SUFFICES ASSUME IInv, LInv, [Next]_vars PROVE LInv'
    OBVIOUS
  <2>1. CASE \E k \in Keys : Store(k) \/ RemoveKey(k)
    BY <2>1, StoreLInv, RemoveKeyLInv
  <2>2. CASE Step
    BY <2>2, ReplaceLInv, LinkLInv, UnlinkLInv, CommitTreeLInv, FreeOneLInv,
       EndCommitLInv, AbortOneLInv, EndAbortLInv DEF Step
  <2>3. CASE Flush \/ Abort \/ Recover \/ Die \/ ReOpen
    BY <2>3, FlushLInv, AbortLInv, RecoverLInv, DieLInv, ReOpenLInv
  <2>4. CASE UNCHANGED vars
    BY <2>4, StutterLInv
  <2> QED BY <2>1, <2>2, <2>3, <2>4 DEF Next
<1> QED BY <1>1, Inductive, InitLInv, PTL DEF Spec

(* Between calls no chunk is forgotten: every stored chunk has one key in  *)
(* memory or waits for the commit, unless something died or a key was      *)
(* refused since the last Recover.                                         *)
THEOREM NoChunkForgotten == Spec => []ChunksAccounted
<1>1. IInv /\ LInv => ChunksAccounted
  <2> SUFFICES ASSUME IInv, LInv, pc = "idle", ~ littered
               PROVE  Stored = Range(mem) \cup foc
    BY DEF IInv, ChunksAccounted, NothingLeaks
  <2>1. Stored \subseteq Range(mem) \cup foc
    BY DEF LInv, HeldOrPending, Holds, Range
  <2>2. foc \subseteq Stored
    BY DEF IInv, TypeOK, PendingStored, Stored
  <2>3. Range(mem) \subseteq Stored
    BY DEF IInv, TypeOK, Numbers, HeldStored, Holds, Range, Stored
  <2> QED BY <2>1, <2>2, <2>3
<1> QED BY <1>1, Inductive, Placed, PTL

-----------------------------------------------------------------------------
(* BplusTreeBytes implements AtomicMap: the bytes that its keys stand for  *)
(* are one map with atomic commits, aborts and deaths.                     *)

(* Bytes depends on the chunks that the map names, and on no other.        *)
LEMMA SameBytes ==
  ASSUME NEW m, NEW c, NEW d,
         \A k \in Keys : m[k] # None => d[m[k]] = c[m[k]]
  PROVE  Bytes(m, d) = Bytes(m, c)
  BY DEF Bytes

LEMMA PutBytes ==
  ASSUME NEW m, NEW c, NEW d, NEW k \in Keys, NEW i \in Ids, NEW n,
         \A x \in Keys : n[x] = IF x = k THEN i ELSE m[x],
         \A x \in Keys : m[x] # None /\ x # k => d[m[x]] = c[m[x]]
  PROVE  Bytes(n, d) = Map!Put(Bytes(m, c), k, d[i])
<1>1. i # None
  BY BytesAssumption
<1> DEFINE S == { x \in Keys : n[x] # None }
<1>2. S = { x \in Keys : m[x] # None } \cup {k}
  BY <1>1
<1>3. \A x \in S : d[n[x]] = IF x = k THEN d[i] ELSE c[m[x]]
  BY <1>2
<1>4. Map!Put(Bytes(m, c), k, d[i])
        = [x \in S |-> IF x = k THEN d[i] ELSE c[m[x]]]
  BY <1>2 DEF Map!Put, Bytes
<1>5. QED
  BY <1>3, <1>4 DEF Bytes

LEMMA RemoveBytes ==
  ASSUME NEW m, NEW c, NEW d, NEW k \in Keys, NEW n,
         \A x \in Keys : n[x] = IF x = k THEN None ELSE m[x],
         \A x \in Keys : m[x] # None /\ x # k => d[m[x]] = c[m[x]]
  PROVE  Bytes(n, d) = Map!Remove(Bytes(m, c), k)
<1> DEFINE S == { x \in Keys : n[x] # None }
<1>1. S = { x \in Keys : m[x] # None } \ {k}
  OBVIOUS
<1>2. \A x \in S : d[n[x]] = c[m[x]]
  BY <1>1
<1>3. Map!Remove(Bytes(m, c), k) = [x \in S |-> c[m[x]]]
  BY <1>1 DEF Map!Remove, Bytes
<1>4. QED
  BY <1>2, <1>3 DEF Bytes

-----------------------------------------------------------------------------
(* What a step of BplusTreeBytes may do to the two maps.                   *)
AbstractStep ==
  \/ Committed' = Committed /\ Working' \in Map!Changes(Working)
  \/ Committed' = Working /\ Working' = Working
  \/ Committed' = Committed /\ Working' = Committed
  \/ Committed' = Committed /\ Working' = Working

LEMMA AbstractStepIsMapStep == AbstractStep => [Map!Next]_(Map!amvars)
  BY DEF AbstractStep, Map!Next, Map!amvars

(* No key has a chunk at first: both maps are empty.                       *)
LEMMA InitMaps == Init => Map!Init
<1> SUFFICES ASSUME Init PROVE Map!Init
  OBVIOUS
<1>1. \A k \in Keys : disk[k] = None /\ View[k] = None
  BY DEF Init, View
<1> DEFINE empty == [k \in {} |-> None]
<1>2. Committed = empty /\ Working = empty
  BY <1>1 DEF Committed, Working, Bytes
<1>3. empty \in [{} -> Contents]
  OBVIOUS
<1>4. empty \in Map!Maps
  BY <1>3 DEF Map!Maps
<1>5. QED
  BY <1>2, <1>4 DEF Map!Init

(* The committed map stays when its chunks stay.                           *)
LEMMA CommittedStays ==
  ASSUME disk' = disk, \A k \in Keys : disk[k] # None => chunk'[disk[k]] = chunk[disk[k]]
  PROVE  Committed' = Committed
<1>1. Committed' = Bytes(disk, chunk')
  BY DEF Committed, Bytes
<1>2. QED
  BY <1>1, SameBytes DEF Committed

(* The same for the map in memory, and for a map that becomes the disk's.  *)
LEMMA WorkingStays ==
  ASSUME View' = View, \A k \in Keys : View[k] # None => chunk'[View[k]] = chunk[View[k]]
  PROVE  Working' = Working
<1>1. Working' = Bytes(View, chunk')
  BY DEF Working, Bytes
<1>2. QED
  BY <1>1, SameBytes DEF Working

LEMMA WorkingForgotten ==
  ASSUME View' = disk, \A k \in Keys : disk[k] # None => chunk'[disk[k]] = chunk[disk[k]]
  PROVE  Working' = Committed
<1>1. Working' = Bytes(disk, chunk')
  BY DEF Working, Bytes
<1>2. QED
  BY <1>1, SameBytes DEF Committed

-----------------------------------------------------------------------------
LEMMA StoreStep == ASSUME IInv, NEW k \in Keys, Store(k) PROVE AbstractStep
<1> USE DEF IInv
<1>1. PICK i \in Ids \ Stored, c \in Contents :
        chunk' = [chunk EXCEPT ![i] = c] /\ new' = i
  BY DEF Store
<1>2. pc = "idle" /\ pc' = "stored" /\ key' = k /\ UNCHANGED <<disk, mem>>
  BY DEF Store
<1>3. chunk \in [Ids -> Contents \cup {None}] /\ chunk[i] = None /\ chunk'[i] = c
  BY <1>1 DEF TypeOK, Stored
<1>4. \A l \in Keys : /\ disk[l] # None => chunk'[disk[l]] = chunk[disk[l]]
                      /\ mem[l] # None => chunk'[mem[l]] = chunk[mem[l]]
  BY <1>1, <1>2, <1>3 DEF TypeOK, Numbers, Intact, HeldStored, Holds
<1>5. Committed' = Committed
  BY <1>2, <1>4, CommittedStays
<1>6. View = mem
  BY <1>2 DEF View
<1>7. CASE k \in LongKeys
  <2>1. View' = mem
    BY <1>2, <1>7 DEF View
  <2>2. QED
    BY <2>1, <1>4, <1>5, <1>6, WorkingStays DEF AbstractStep
<1>8. CASE k \notin LongKeys
  <2>1. View' = [mem EXCEPT ![k] = i]
    BY <1>1, <1>2, <1>8 DEF View
  <2>2. Working' = Bytes(View', chunk')
    BY DEF Working, Bytes
  <2>3. \A x \in Keys : View'[x] = IF x = k THEN i ELSE mem[x]
    BY <2>1 DEF TypeOK
  <2>4. Bytes(View', chunk') = Map!Put(Bytes(mem, chunk), k, chunk'[i])
    BY <2>3, <1>4, PutBytes
  <2>5. Working = Bytes(mem, chunk)
    BY <1>6 DEF Working
  <2>6. Working' = Map!Put(Working, k, c)
    BY <2>2, <2>4, <2>5, <1>3
  <2>7. QED
    BY <2>6, <1>5 DEF AbstractStep, Map!Changes
<1>9. QED
  BY <1>7, <1>8

(* A retired chunk is that of the key of the call, which View no longer    *)
(* gives it.                                                               *)
LEMMA ReplaceStep == ASSUME IInv, Replace PROVE AbstractStep
<1> USE DEF IInv
<1>1. /\ pc = "stored" /\ UNCHANGED <<disk, mem, key, new>>
      /\ pc' \in {"linking", "raised"}
  BY DEF Replace, Retire, Release
<1>2. \A j \in Ids : j # mem[key] \/ j \notin foa => chunk'[j] = chunk[j]
  BY DEF Replace, Retire, Release, TypeOK
<1>3. \A l \in Keys : disk[l] # None => chunk'[disk[l]] = chunk[disk[l]]
  BY <1>1, <1>2 DEF OwnNotCommitted, TypeOK, Numbers
<1>4. Committed' = Committed
  BY <1>1, <1>3, CommittedStays
<1>5. CASE pc' = "raised"
  <2>1. View' = disk
    BY <1>1, <1>5 DEF View
  <2>2. QED
    BY <2>1, <1>3, <1>4, WorkingForgotten DEF AbstractStep
<1>6. CASE pc' = "linking"
  <2>1. View' = View
    BY <1>1, <1>6 DEF View
  <2>2. \A l \in Keys : View[l] # None => View[l] \in Ids /\ View[l] # mem[key]
    BY <1>1, BytesAssumption
    DEF View, TypeOK, Numbers, OneKeyEach, NewIsNew, NoLongKey
  <2>3. QED
    BY <2>1, <2>2, <1>2, <1>4, WorkingStays DEF AbstractStep
<1>7. QED
  BY <1>1, <1>5, <1>6

LEMMA LinkStep == ASSUME IInv, Link PROVE AbstractStep
<1>1. /\ pc = "linking" /\ pc' = "idle" /\ UNCHANGED <<disk, chunk>>
      /\ mem' = IF key \in LongKeys THEN mem ELSE [mem EXCEPT ![key] = new]
  BY DEF Link
<1>2. View' = View
  BY <1>1 DEF View
<1>3. QED
  BY <1>1, <1>2, CommittedStays, WorkingStays DEF AbstractStep

LEMMA RemoveKeyStep ==
  ASSUME IInv, NEW k \in Keys, RemoveKey(k) PROVE AbstractStep
<1> USE DEF IInv
<1>1. /\ pc = "idle" /\ mem[k] # None /\ key' = k /\ UNCHANGED <<disk, mem>>
      /\ pc' \in {"unlinking", "raised"}
  BY DEF RemoveKey, Retire, Release
<1>2. \A j \in Ids : j # mem[k] \/ j \notin foa => chunk'[j] = chunk[j]
  BY DEF RemoveKey, Retire, Release, TypeOK
<1>3. \A l \in Keys : disk[l] # None => chunk'[disk[l]] = chunk[disk[l]]
  BY <1>1, <1>2 DEF OwnNotCommitted, TypeOK, Numbers
<1>4. Committed' = Committed
  BY <1>1, <1>3, CommittedStays
<1>5. CASE pc' = "raised"
  <2>1. View' = disk
    BY <1>1, <1>5 DEF View
  <2>2. QED
    BY <2>1, <1>3, <1>4, WorkingForgotten DEF AbstractStep
<1>6. CASE pc' = "unlinking"
  <2>1. View = mem /\ View' = [mem EXCEPT ![k] = None]
    BY <1>1, <1>6 DEF View
  <2>2. \A x \in Keys : mem[x] # None /\ x # k => chunk'[mem[x]] = chunk[mem[x]]
    BY <1>1, <1>2 DEF TypeOK, Numbers, OneKeyEach
  <2>3. Working' = Bytes(View', chunk')
    BY DEF Working, Bytes
  <2>4. \A x \in Keys : View'[x] = IF x = k THEN None ELSE mem[x]
    BY <2>1 DEF TypeOK
  <2>5. Bytes(View', chunk') = Map!Remove(Bytes(mem, chunk), k)
    BY <2>2, <2>4, RemoveBytes
  <2>6. Working = Bytes(mem, chunk)
    BY <2>1 DEF Working
  <2>7. Working' = Map!Remove(Working, k)
    BY <2>3, <2>5, <2>6
  <2>8. k \in DOMAIN Working
    BY <1>1, <2>6 DEF Bytes
  <2>9. QED
    BY <2>7, <2>8, <1>4 DEF AbstractStep, Map!Changes
<1>7. QED
  BY <1>1, <1>5, <1>6

LEMMA UnlinkStep == ASSUME IInv, Unlink PROVE AbstractStep
<1>1. /\ pc = "unlinking" /\ pc' = "idle" /\ UNCHANGED <<disk, chunk>>
      /\ mem' = [mem EXCEPT ![key] = None]
  BY DEF Unlink
<1>2. View' = View
  BY <1>1 DEF View
<1>3. QED
  BY <1>1, <1>2, CommittedStays, WorkingStays DEF AbstractStep

(* The one step in which the committed map changes.                        *)
LEMMA CommitTreeStep == ASSUME IInv, CommitTree PROVE AbstractStep
<1>1. /\ pc = "flushed" /\ pc' = "freeing"
      /\ disk' = mem /\ UNCHANGED <<mem, chunk>>
  BY DEF CommitTree
<1>2. View = mem /\ View' = mem
  BY <1>1 DEF View
<1>3. Committed' = Working /\ Working' = Working
  BY <1>1, <1>2 DEF Committed, Working, Bytes
<1>4. QED
  BY <1>3 DEF AbstractStep

LEMMA FreeOneStep == ASSUME IInv, FreeOne PROVE AbstractStep
<1> USE DEF IInv
<1>1. /\ pc = "freeing" /\ disk = mem /\ UNCHANGED <<disk, mem>>
      /\ pc' \in {"freeing", "raised"}
  BY DEF FreeOne, Release, Phases
<1>2. \A j \in Ids : j \notin foc => chunk'[j] = chunk[j]
  BY DEF FreeOne, Release, TypeOK
<1>3. \A l \in Keys : disk[l] # None => chunk'[disk[l]] = chunk[disk[l]]
  BY <1>1, <1>2 DEF PendingNotHeld, Holds, TypeOK, Numbers
<1>4. View = disk /\ View' = disk
  BY <1>1 DEF View
<1>5. QED
  BY <1>1, <1>3, <1>4, CommittedStays, WorkingStays DEF AbstractStep

LEMMA AbortOneStep == ASSUME IInv, AbortOne PROVE AbstractStep
<1> USE DEF IInv
<1>1. /\ pc = "aborting" /\ UNCHANGED <<disk, mem>>
      /\ pc' \in {"aborting", "raised"}
  BY DEF AbortOne, Release
<1>2. \A j \in Ids : j \notin foa => chunk'[j] = chunk[j]
  BY DEF AbortOne, Release, TypeOK
<1>3. \A l \in Keys : disk[l] # None => chunk'[disk[l]] = chunk[disk[l]]
  BY <1>1, <1>2 DEF OwnNotCommitted, TypeOK, Numbers
<1>4. View = disk /\ View' = disk
  BY <1>1 DEF View
<1>5. QED
  BY <1>1, <1>3, <1>4, CommittedStays, WorkingStays DEF AbstractStep

LEMMA RecoverStep == ASSUME IInv, Recover PROVE AbstractStep
<1> USE DEF IInv
<1>1. pc = "idle" /\ UNCHANGED <<disk, mem, key, new>> /\ pc' \in {"idle", "raised"}
  BY DEF Recover
<1>2. \A j \in Ids : j \in Range(mem) \cup foc => chunk'[j] = chunk[j]
  BY DEF Recover, TypeOK
<1>3. \A l \in Keys : mem[l] # None => chunk'[mem[l]] = chunk[mem[l]]
  BY <1>2, BytesAssumption DEF Range, TypeOK, Numbers
<1>4. \A l \in Keys : disk[l] # None => chunk'[disk[l]] = chunk[disk[l]]
  BY <1>1, <1>2, <1>3 DEF CommittedInUse, Holds, TypeOK, Numbers
<1>5. Committed' = Committed
  BY <1>1, <1>4, CommittedStays
<1>6. View = mem /\ (View' = mem \/ View' = disk)
  BY <1>1 DEF View
<1>7. QED
  BY <1>3, <1>4, <1>5, <1>6, WorkingStays, WorkingForgotten DEF AbstractStep

(* Whatever part of the unflushed chunks a death loses.                    *)
LEMMA DieStep == ASSUME IInv, Die PROVE AbstractStep
<1> USE DEF IInv
<1>1. pc' = "closed" /\ UNCHANGED disk
  BY DEF Die
<1>2. \A i \in Ids : chunk'[i] = chunk[i] \/ chunk'[i] = filed[i]
  BY DEF Die
<1>3. \A l \in Keys : disk[l] # None => chunk'[disk[l]] = chunk[disk[l]]
  BY <1>2 DEF Intact, TypeOK, Numbers
<1>4. View' = disk
  BY <1>1 DEF View
<1>5. QED
  BY <1>1, <1>3, <1>4, CommittedStays, WorkingForgotten DEF AbstractStep

LEMMA QuietStep ==
  ASSUME IInv, Flush \/ EndCommit \/ EndAbort \/ ReOpen \/ UNCHANGED vars
  PROVE  AbstractStep
<1>1. disk' = disk /\ chunk' = chunk
  BY DEF Flush, EndCommit, EndAbort, ReOpen, vars
<1>2. View' = View
  BY DEF Flush, EndCommit, EndAbort, ReOpen, vars, View, IInv, Phases
<1>3. QED
  BY <1>1, <1>2, CommittedStays, WorkingStays DEF AbstractStep

LEMMA AbortStep == ASSUME IInv, Abort PROVE AbstractStep
<1>1. pc' = "aborting" /\ UNCHANGED <<disk, chunk>>
  BY DEF Abort
<1>2. View' = disk
  BY <1>1 DEF View
<1>3. QED
  BY <1>1, <1>2, CommittedStays, WorkingForgotten DEF AbstractStep

LEMMA NextStep == IInv /\ [Next]_vars => [Map!Next]_(Map!amvars)
<1> SUFFICES ASSUME IInv, [Next]_vars PROVE AbstractStep
  BY AbstractStepIsMapStep
<1>1. CASE \E k \in Keys : Store(k) \/ RemoveKey(k)
  BY <1>1, StoreStep, RemoveKeyStep
<1>2. CASE Step
  BY <1>2, ReplaceStep, LinkStep, UnlinkStep, CommitTreeStep, FreeOneStep,
     AbortOneStep, QuietStep DEF Step
<1>3. CASE Flush \/ Abort \/ Recover \/ Die \/ ReOpen \/ UNCHANGED vars
  BY <1>3, QuietStep, AbortStep, RecoverStep, DieStep
<1>4. QED
  BY <1>1, <1>2, <1>3 DEF Next

(* The keys and bytes of BplusTreeBytes are the map that ITreeIndex.cs     *)
(* promises: a commit takes all of a transaction or, when the process dies *)
(* in any of its steps, nothing.                                           *)
THEOREM BytesAreAtomicMap == Spec => IsAtomicMap
  BY InitMaps, NextStep, Inductive, PTL DEF Spec, Map!Spec, IsAtomicMap
=============================================================================
