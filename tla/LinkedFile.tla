----------------------------- MODULE LinkedFile -----------------------------
(***************************************************************************)
(* LinkedFile.cs over BufferFile.cs (BplusDotNet): chunks of bytes stored  *)
(* as chains of equal buffers, freed buffers kept on a singly linked list  *)
(* whose head lives in memory and reaches the file's header only in Flush. *)
(*                                                                         *)
(* A call is one step, computed over a record s of the object's fields     *)
(* that also carries err (an exception was raised: what is left of the     *)
(* call is not run) and past, the record before each write.  Writes reach  *)
(* the file in the order they are made, so a process that dies inside a    *)
(* call leaves the file of some element of past, and a write that raises   *)
(* leaves the whole element, memory included.                              *)
(***************************************************************************)
EXTENDS Integers, Sequences, FiniteSets

CONSTANTS Values,      \* what callers store
          Size(_),     \* buffers that a value fills
          MaxBuffers,  \* bound: the longest file explored
          MaxLive,     \* bound: the chunks known at a time
          MaxFaults    \* bound: crashes, shutdowns and failed writes

(* Every value fills a buffer at least, as its length does.                *)
ASSUME LinkedAssumption ==
  /\ \A v \in Values : Size(v) \in Nat \ {0}
  /\ MaxBuffers \in Nat /\ MaxFaults \in Nat

NullBuffer == -1

VARIABLES
  file,    \* the buffers of the file, buffer b at b + 1
  header,  \* FreeListHead as the header of the file has it
  open,    \* a LinkedFile object is open on the file
  head,    \* FreeListHead
  recent,  \* RecentNewBufferNumber
  dirty,   \* headerDirty
  live,    \* the chunks whose number somebody knows
  kept,    \* history: those of them that a Flush has covered
  faults,  \* history: crashes, shutdowns and failed writes so far
  strayed, \* history: one of those, or a forgotten number, since Recover
  failed,  \* history: a write has failed since the file was opened
  raised   \* the last call raised an exception

linkedVars == <<file, header, open, head, recent, dirty, live, kept, faults,
          strayed, failed, raised>>

(* A buffer: its indicator byte, its next pointer and its piece of a value *)
(* (the first piece comes with the length).                                *)
Piece == UNION { { <<v, i>> : i \in 1 .. Size(v) } : v \in Values }
Buffer == [type : {"FREE", "HEAD", "BODY"}, next : -1 .. MaxBuffers + 1,
           data : Piece]

Pieces(v) == [i \in 1 .. Size(v) |-> <<v, i>>]

(* The types of the fields of LinkedFile and of the file's buffers.        *)
LinkedTypeOK ==
  /\ file \in Seq(Buffer)
  /\ {header, head, recent} \subseteq -1 .. MaxBuffers + 1
  /\ {open, dirty, strayed, failed, raised} \subseteq BOOLEAN
  /\ live \subseteq 0 .. MaxBuffers - 1
  /\ kept \subseteq live
  /\ faults \in 0 .. MaxFaults

-----------------------------------------------------------------------------
(* The object's fields as a value, and what BufferFile does to it.         *)

Now == [file |-> file, head |-> head, recent |-> recent, dirty |-> dirty,
        got |-> NullBuffer, err |-> FALSE, past |-> <<>>]

Raise(s) == [s EXCEPT !.err = TRUE]

Has(s, b) == b \in 0 .. Len(s.file) - 1
At(s, b) == s.file[b + 1]

(* SetBuffer: a buffer may be written where it is or as the next one.      *)
SetBuffer(s, b, buf) ==
  IF s.err THEN s
  ELSE IF b > Len(s.file) THEN Raise(s)     \* "cannot skip buffer numbers"
  ELSE [s EXCEPT !.past = Append(@, s),
                 !.file = IF b = Len(s.file) THEN Append(@, buf)
                          ELSE [@ EXCEPT ![b + 1] = buf]]

DeallocateBuffer(s, b) ==
  IF s.err THEN s
  ELSE [SetBuffer(s, b, [At(s, b) EXCEPT !.type = "FREE", !.next = s.head])
          EXCEPT !.head = b, !.dirty = TRUE]

FromFreeList(s) ==
  IF ~ Has(s, s.head) \/ At(s, s.head).type # "FREE"
  THEN Raise(s)                       \* "free head buffer not marked free"
  ELSE [s EXCEPT !.got = s.head, !.head = At(s, s.head).next,
                 !.dirty = TRUE, !.recent = NullBuffer]

Bug_NoRecent(s) == [s EXCEPT !.got = Len(s.file), !.recent = Len(s.file)]

(* The end of the file, or the one after it when that one has been handed  *)
(* out and is not written yet.                                             *)
FromEnd(s) ==
  LET b == IF s.recent = Len(s.file) THEN Len(s.file) + 1 ELSE Len(s.file)
  IN  [s EXCEPT !.got = b, !.recent = b]

AllocateBuffer(s) ==
  IF s.err THEN s
  ELSE IF s.head # NullBuffer THEN FromFreeList(s) ELSE FromEnd(s)

-----------------------------------------------------------------------------
(* Reading.  The buffers met by following next pointers from b, in n steps *)
(* at most: past the last one, and past one that is not in the file, there *)
(* is NullBuffer.                                                          *)
Path(f, b, n) ==
  LET path[i \in 1 .. n] ==
        IF i = 1 THEN b
        ELSE LET x == path[i - 1]
             IN  IF x \in 0 .. Len(f) - 1 THEN f[x + 1].next ELSE NullBuffer
  IN  path

(* A read that meets a wrong indicator or leaves the file raises and stands *)
(* for the empty sequence here.                                             *)
GetChunk(f, id) ==
  IF id \notin 0 .. Len(f) - 1 THEN <<>>
  ELSE IF f[id + 1].type # "HEAD" THEN <<>>
  ELSE LET n == Size(f[id + 1].data[1])
           p == Path(f, id, n)
       IN  IF \A i \in 1 .. n : p[i] \in 0 .. Len(f) - 1
           THEN [i \in 1 .. n |-> f[p[i] + 1].data]
           ELSE <<>>

(* No list of distinct buffers is longer than the file: one step more      *)
(* finds the cycles.                                                       *)
Steps(f) == 1 .. Len(f) + 1
Chain(f, b) == Path(f, b, Len(f) + 1)
Along(f, b) == { Chain(f, b)[i] : i \in Steps(f) } \ {NullBuffer}
Heads(f) == { b \in 0 .. Len(f) - 1 : f[b + 1].type = "HEAD" }

-----------------------------------------------------------------------------
(* StoreNewChunk.                                                          *)

StoreBuffer(s, b, v, i, next) ==
  SetBuffer(s, b, [type |-> IF i = 1 THEN "HEAD" ELSE "BODY", next |-> next,
                   data |-> <<v, i>>])

(* Each turn of the loop allocates the buffer after the current one, which *)
(* is got, before it writes that.                                          *)
StoredChunk(s, v) ==
  LET first == AllocateBuffer(s)
      turn[i \in 1 .. Size(v)] ==
        IF i = 1 THEN first
        ELSE LET t == turn[i - 1]
                 u == AllocateBuffer(t)
             IN  StoreBuffer(u, t.got, v, i - 1, u.got)
      last == turn[Size(v)]
  IN  [StoreBuffer(last, last.got, v, Size(v), NullBuffer) EXCEPT !.got = first.got]

(* ReleaseBuffers: got is the buffer to free, whose next pointer is read   *)
(* before that is done.                                                    *)
FreeBuffer(s, type) ==
  IF s.err \/ s.got = NullBuffer THEN s
  ELSE IF ~ Has(s, s.got) \/ At(s, s.got).type # type THEN Raise(s)
  ELSE [DeallocateBuffer(s, s.got) EXCEPT !.got = At(s, s.got).next]

Bug_HeadOnly(s, id) == FreeBuffer([s EXCEPT !.got = id], "HEAD")

(* A buffer is freed once at most: the loop ends before it has made as     *)
(* many turns as the file has buffers, and one.                            *)
Released(s, id) ==
  LET turn[n \in 0 .. Len(s.file) + 1] ==
        IF n = 0 THEN [s EXCEPT !.got = id]
        ELSE FreeBuffer(turn[n - 1], IF n = 1 THEN "HEAD" ELSE "BODY")
  IN  turn[Len(s.file) + 1]

-----------------------------------------------------------------------------
(* checkStructure: the free list is a list of free buffers, every head's   *)
(* chain one of body buffers, no buffer in two of them or in none, and     *)
(* every chunk in use is one of the file's.                                *)

GoodFreeList(f, b) ==
  \A x \in Along(f, b) :
    x \in 0 .. Len(f) - 1 /\ f[x + 1].type = "FREE"

GoodChunk(f, h) ==
  /\ \A i \in Steps(f) \ {1} :
       LET x == Chain(f, h)[i]
       IN  x # NullBuffer => x \in 0 .. Len(f) - 1 /\ f[x + 1].type = "BODY"
  /\ Len(GetChunk(f, h)) = Size(f[h + 1].data[1])

(* Where the lists, of which b starts the free one, meet a buffer.         *)
Visits(f, b, x) ==
  { at \in ({b} \cup Heads(f)) \X Steps(f) : Chain(f, at[1])[at[2]] = x }

OnceEach(f, b) == \A x \in 0 .. Len(f) - 1 : \E at \in Visits(f, b, x) : Visits(f, b, x) = {at}

Sound(f, b) ==
  /\ GoodFreeList(f, b)
  /\ \A h \in Heads(f) : GoodChunk(f, h)
  /\ OnceEach(f, b)

(* The chunks of a set are released, the highest number first.             *)
ReleaseAll(s, chunks) ==
  LET after[n \in 0 .. Len(s.file)] ==
        IF n = 0 THEN s
        ELSE LET b == Len(s.file) - n
             IN  IF b \in chunks THEN Released(after[n - 1], b) ELSE after[n - 1]
  IN  after[Len(s.file)]

Bug_ReleasesAll(s, inUse) ==
  IF ~ Sound(s.file, s.head) \/ ~ inUse \subseteq Heads(s.file) THEN Raise(s)
  ELSE ReleaseAll(s, Heads(s.file))

(* Recover(ChunksInUse, true): chunks not in use go to the free list.      *)
Recovered(s, inUse) ==
  IF ~ Sound(s.file, s.head) \/ ~ inUse \subseteq Heads(s.file) THEN Raise(s)
  ELSE ReleaseAll(s, Heads(s.file) \ inUse)

-----------------------------------------------------------------------------
(* The file as it is created: a header and no buffer.                      *)
LinkedInit ==
  /\ file = <<>> /\ header = NullBuffer
  /\ open = TRUE /\ head = NullBuffer /\ recent = NullBuffer /\ dirty = FALSE
  /\ live = {} /\ kept = {} /\ faults = 0
  /\ strayed = FALSE /\ failed = FALSE /\ raised = FALSE

Takes(s) ==
  /\ file' = s.file /\ head' = s.head /\ recent' = s.recent
  /\ dirty' = s.dirty /\ raised' = s.err

StoreNewChunk(v) ==
  LET s == StoredChunk(Now, v)
  IN  /\ open /\ Cardinality(live) < MaxLive
      /\ Len(s.file) <= MaxBuffers
      /\ Takes(s)
      /\ live' = IF s.err THEN live ELSE live \cup {s.got}
      /\ UNCHANGED <<header, open, kept, faults, strayed, failed>>

(* Only the owner of a chunk releases it.                                  *)
ReleaseBuffers(id) ==
  /\ open /\ id \in live
  /\ Takes(Released(Now, id))
  /\ live' = live \ {id} /\ kept' = kept \ {id}
  /\ UNCHANGED <<header, open, faults, strayed, failed>>

(* The caller loses a number without releasing it, as the indexer of       *)
(* BplusTreeBytes does when the tree refuses the key.                      *)
Forget(id) ==
  /\ open /\ id \in live
  /\ live' = live \ {id} /\ kept' = kept \ {id}
  /\ strayed' = TRUE /\ raised' = FALSE
  /\ UNCHANGED <<file, header, open, head, recent, dirty, faults, failed>>

LinkedFlush ==
  /\ open
  /\ header' = IF dirty THEN head ELSE header
  /\ dirty' = FALSE
  /\ kept' = live /\ raised' = FALSE
  /\ UNCHANGED <<file, open, head, recent, live, faults,
                 strayed, failed>>

(* Recover with the chunks somebody knows in use.                          *)
LinkedRecover ==
  LET s == Recovered(Now, live)
  IN  /\ open /\ strayed
      /\ Takes(s)
      /\ strayed' = s.err
      /\ UNCHANGED <<header, open, live, kept, faults, failed>>

-----------------------------------------------------------------------------
(* A write of StoreNewChunk raises: no number is returned, what the call   *)
(* did so far stays, in the file and in memory.                            *)
StoreFails(v) ==
  LET past == StoredChunk(Now, v).past
  IN  /\ open /\ faults < MaxFaults
      /\ \E i \in DOMAIN past :
           /\ Len(past[i].file) <= MaxBuffers
           /\ Takes(Raise(past[i]))
      /\ faults' = faults + 1 /\ strayed' = TRUE /\ failed' = TRUE
      /\ UNCHANGED <<header, open, live, kept>>

(* The object is gone; what it had in memory with it.                      *)
Gone ==
  /\ open' = FALSE
  /\ head' = NullBuffer /\ recent' = NullBuffer /\ dirty' = FALSE
  /\ faults' = faults + 1 /\ strayed' = TRUE
  /\ failed' = FALSE /\ raised' = FALSE

(* Shutdown flushes and closes the stream without writing the header; a    *)
(* process that dies between two calls leaves the same.                    *)
Shutdown ==
  /\ open /\ faults < MaxFaults
  /\ Gone
  /\ live' = kept
  /\ UNCHANGED <<file, header, kept>>

(* The process dies inside a call.                                         *)
CrashInStore(v) ==
  LET past == StoredChunk(Now, v).past
  IN  /\ open /\ faults < MaxFaults
      /\ \E i \in DOMAIN past :
           Len(past[i].file) <= MaxBuffers /\ file' = past[i].file
      /\ Gone
      /\ live' = kept
      /\ UNCHANGED <<header, kept>>

CrashInRelease(id) ==
  LET past == Released(Now, id).past
  IN  /\ open /\ faults < MaxFaults /\ id \in live
      /\ \E i \in DOMAIN past : file' = past[i].file
      /\ Gone
      /\ live' = kept \ {id} /\ kept' = kept \ {id}
      /\ UNCHANGED header

(* Flush had written the header and did not return.                        *)
CrashInFlush ==
  /\ open /\ faults < MaxFaults /\ dirty
  /\ header' = head
  /\ Gone
  /\ live' = kept
  /\ UNCHANGED <<file, kept>>

(* SetupFromExistingStream reads the header.                               *)
LinkedReOpen ==
  /\ ~ open
  /\ open' = TRUE /\ head' = header /\ recent' = NullBuffer /\ dirty' = FALSE
  /\ raised' = FALSE
  /\ UNCHANGED <<file, header, live, kept, faults, strayed, failed>>

LinkedNext ==
  \/ \E v \in Values : StoreNewChunk(v) \/ StoreFails(v) \/ CrashInStore(v)
  \/ \E id \in live : ReleaseBuffers(id) \/ Forget(id) \/ CrashInRelease(id)
  \/ LinkedFlush \/ LinkedRecover \/ Shutdown \/ CrashInFlush \/ LinkedReOpen

LinkedSpec == LinkedInit /\ [][LinkedNext]_linkedVars

-----------------------------------------------------------------------------
(* No buffer is in two chunks that somebody knows, or in one of them and   *)
(* on the free list, in memory or in the header of the file: what a crash, *)
(* a failed write or a stale header leaves never lets AllocateBuffer hand  *)
(* out a buffer whose contents are still wanted.                           *)
OneOwner ==
  /\ \A x, y \in live :
       x # y => Along(file, x) \cap Along(file, y) = {}
  /\ \A x \in live, b \in {header, head} :
       b # NullBuffer /\ b \in 0 .. Len(file) - 1
         /\ GoodFreeList(file, b)
       => Along(file, x) \cap Along(file, b) = {}

(* The fields have their types, and no buffer has two owners.              *)
LinkedOneOwner == LinkedTypeOK /\ OneOwner

(* While nothing strayed (no crash, failed write or forgotten number since *)
(* the file was made or since a Recover that did not raise), every buffer  *)
(* is free or in a chunk that somebody knows: the structure that           *)
(* checkStructure demands.  No call raises then, if no write has failed    *)
(* since the file was opened: a failed write can leave recent at the end   *)
(* of the file, and the next store asks for the buffer after it.           *)
NothingLost ==
  ~ strayed => /\ Sound(file, head)
               /\ Heads(file) = live
               /\ ~ failed => ~ raised

(* The linked file is a store of chunks: a chunk reads as it was stored    *)
(* until its owner drops it, whatever else is stored, released or          *)
(* recovered meanwhile, and what a Flush has covered reads the same after  *)
(* a crash inside any call.                                                *)
Known == [id \in live |-> GetChunk(file, id)]
ChunkMap == INSTANCE ChunkStore
           WITH Ids <- 0 .. MaxBuffers - 1,
                Contents <- { Pieces(v) : v \in Values }, chunks <- Known
IsChunkStore == ChunkMap!Spec
=============================================================================
