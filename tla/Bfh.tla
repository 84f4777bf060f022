-------------------------------- MODULE Bfh ---------------------------------
(***************************************************************************)
(* The block file handler of btree.1.1, src/bfh.c: a file of equal blocks  *)
(* behind two header blocks, each with a one-byte in-use switch.  Freed    *)
(* blocks are kept on a doubly linked list whose links live in the data    *)
(* area of the free blocks themselves; the ends of the list and the end of *)
(* the file live in the descriptor, in memory, and reach the file only     *)
(* when BfhClose writes the descriptor back.                               *)
(*                                                                         *)
(* BfhOpen holds a lock on the file until BfhClose, so the calls of one    *)
(* session are not interleaved with another's and each is one step here.   *)
(* BfhClose is one step per iteration of its loop, so that a crash can     *)
(* come between two of them.                                               *)
(*                                                                         *)
(* Blocks are numbered: block b stands for the file offset                 *)
(* 2*BFHBLOCK + b*block_size, which keeps the order of addresses.          *)
(***************************************************************************)
EXTENDS Integers

CONSTANTS MaxBlocks,   \* bound: the longest file explored
          Value,       \* what a client can write into a block
          Blank        \* the zeroed record of a block added to the file

Nil == -1
BlockId == 0 .. MaxBlocks - 1
Ref == BlockId \cup {Nil}

(* struct free_block_id, the overlay of a free block's data area.          *)
Link == [prev : Ref, next : Ref]
WithPrev(l, r) == [prev |-> r, next |-> l.next]
WithNext(l, r) == [prev |-> l.prev, next |-> r]

Content == Value \cup Link

ASSUME BfhAssumption ==
  /\ MaxBlocks \in Nat \ {0}
  /\ Blank \in Value
  /\ Value \cap Link = {}

VARIABLES
  session,  \* "closed", "open" or "closing" (inside BfhClose)
  hdr,      \* the descriptor in memory: both ends of the list, end of file
  disk,     \* the descriptor as the file has it
  magic,    \* the version field of the file's descriptor is readable
  inuse,    \* the blocks whose in-use switch is set
  area,     \* the data area of every block
  newEnd,   \* BfhClose: new_end, 0 outside
  truncate, \* BfhClose: truncate, FALSE outside
  lost      \* history: a crash left a descriptor that does not fit the file

vars == <<session, hdr, disk, magic, inuse, area, newEnd, truncate, lost>>

Header == [first : Ref, last : Ref, add : 0 .. MaxBlocks]

(* The header, the links and the state of the open session keep their      *)
(* domain, as the fields of BfhInfo do in every call (src/bfh.c).          *)
TypeOK ==
  /\ session \in {"closed", "open", "closing"}
  /\ hdr \in Header
  /\ disk \in Header
  /\ magic \in BOOLEAN
  /\ inuse \subseteq BlockId
  /\ area \in [BlockId -> Content]
  /\ newEnd \in 0 .. MaxBlocks
  /\ truncate \in BOOLEAN
  /\ lost \in BOOLEAN

EmptyHeader == [first |-> Nil, last |-> Nil, add |-> 0]

-----------------------------------------------------------------------------
(***************************************************************************)
(* BfhOpen with CREATE writes the two header blocks of an empty file; a    *)
(* file that exists is removed by its owner first, as the tests do.        *)
(***************************************************************************)
Init ==
  /\ session = "open"
  /\ hdr = EmptyHeader /\ disk = EmptyHeader
  /\ magic = TRUE
  /\ inuse = {}
  /\ area = [b \in BlockId |-> Blank]
  /\ newEnd = 0 /\ truncate = FALSE
  /\ lost = FALSE

Create ==
  /\ session = "closed"
  /\ session' = "open"
  /\ hdr' = EmptyHeader /\ disk' = EmptyHeader
  /\ magic' = TRUE
  /\ inuse' = {}
  /\ area' = [b \in BlockId |-> Blank]
  /\ lost' = FALSE
  /\ UNCHANGED <<newEnd, truncate>>

(***************************************************************************)
(* BfhOpen of an existing file reads the descriptor and trusts it.  What a *)
(* session does to a file whose descriptor a crash made wrong is not       *)
(* explored: `lost' marks those files, and only Create is left for them.   *)
(***************************************************************************)
Open ==
  /\ session = "closed"
  /\ ~lost
  /\ magic
  /\ session' = "open"
  /\ hdr' = disk
  /\ UNCHANGED <<disk, magic, inuse, area, newEnd, truncate, lost>>

-----------------------------------------------------------------------------
(* BfhNewBlock, no free block: the file grows by one zeroed block.         *)
NewAtEnd ==
  /\ session = "open"
  /\ hdr.first = Nil
  /\ hdr.add < MaxBlocks
  /\ inuse' = inuse \cup {hdr.add}
  /\ area' = [area EXCEPT ![hdr.add] = Blank]
  /\ hdr' = [hdr EXCEPT !.add = @ + 1]
  /\ UNCHANGED <<session, disk, magic, newEnd, truncate, lost>>

(* Mutant: only the tail of the list is cleared.                           *)
Bug_HeadKept == [hdr EXCEPT !.last = Nil]

Emptied == [hdr EXCEPT !.first = Nil, !.last = Nil]

(* BfhNewBlock, one free block: the list becomes empty.                    *)
NewFromSole ==
  /\ session = "open"
  /\ hdr.first # Nil
  /\ hdr.first = hdr.last
  /\ inuse' = inuse \cup {hdr.first}
  /\ hdr' = Emptied
  /\ UNCHANGED <<session, disk, magic, area, newEnd, truncate, lost>>

(***************************************************************************)
(* BfhNewBlock, several free blocks: the second becomes the first and its  *)
(* back link is cut.  When the first has no successor the code seeks to    *)
(* -1+1 = 0 and cuts the "back link" of the file's descriptor, which       *)
(* overwrites its version field.                                           *)
(***************************************************************************)
NewFromList ==
  /\ session = "open"
  /\ hdr.first # Nil
  /\ hdr.first # hdr.last
  /\ LET second == area[hdr.first].next IN
       /\ hdr' = [hdr EXCEPT !.first = second]
       /\ area' = IF second = Nil THEN area
                  ELSE [area EXCEPT ![second] = WithPrev(@, Nil)]
       /\ magic' = (magic /\ second # Nil)
  /\ inuse' = inuse \cup {hdr.first}
  /\ UNCHANGED <<session, disk, newEnd, truncate, lost>>

NewBlock == NewAtEnd \/ NewFromSole \/ NewFromList

(* BfhWriteBlock: only a block in use is written.                          *)
WriteBlock(b, v) ==
  /\ session = "open"
  /\ b < hdr.add
  /\ b \in inuse
  /\ area' = [area EXCEPT ![b] = v]
  /\ UNCHANGED <<session, hdr, disk, magic, inuse, newEnd, truncate, lost>>

(***************************************************************************)
(* BfhFreeBlock of a block the client owns (the code does not look at the  *)
(* switch; its callers free only blocks in use).  A block above the head   *)
(* of the list goes to its end, a block below it to its front.             *)
(***************************************************************************)
Freeable(b) ==
  /\ session = "open"
  /\ b < hdr.add
  /\ b \in inuse

LinkedAtEnd(b) ==
  [area EXCEPT ![hdr.last] = WithNext(@, b),
               ![b] = [prev |-> hdr.last, next |-> Nil]]

FreeAtEnd(b) ==
  /\ Freeable(b)
  /\ hdr.last # Nil
  /\ b > hdr.first
  /\ area' = LinkedAtEnd(b)
  /\ hdr' = [hdr EXCEPT !.last = b]
  /\ inuse' = inuse \ {b}
  /\ UNCHANGED <<session, disk, magic, newEnd, truncate, lost>>

(* Mutant: the old head does not learn of its new predecessor.             *)
Bug_OneWay(b) == [area EXCEPT ![b] = [prev |-> Nil, next |-> hdr.first]]

LinkedAtFront(b) ==
  [area EXCEPT ![hdr.first] = WithPrev(@, b),
               ![b] = [prev |-> Nil, next |-> hdr.first]]

FreeAtFront(b) ==
  /\ Freeable(b)
  /\ hdr.last # Nil
  /\ b <= hdr.first
  /\ area' = LinkedAtFront(b)
  /\ hdr' = [hdr EXCEPT !.first = b]
  /\ inuse' = inuse \ {b}
  /\ UNCHANGED <<session, disk, magic, newEnd, truncate, lost>>

FreeAsSole(b) ==
  /\ Freeable(b)
  /\ hdr.last = Nil
  /\ hdr.first = Nil     \* otherwise the call reports failure
  /\ area' = [area EXCEPT ![b] = [prev |-> Nil, next |-> Nil]]
  /\ hdr' = [hdr EXCEPT !.first = b, !.last = b]
  /\ inuse' = inuse \ {b}
  /\ UNCHANGED <<session, disk, magic, newEnd, truncate, lost>>

FreeBlock(b) == FreeAtEnd(b) \/ FreeAtFront(b) \/ FreeAsSole(b)

-----------------------------------------------------------------------------
CloseBegin ==
  /\ session = "open"
  /\ session' = "closing"
  /\ newEnd' = hdr.add
  /\ truncate' = FALSE
  /\ UNCHANGED <<hdr, disk, magic, inuse, area, lost>>

(***************************************************************************)
(* One iteration of BfhClose's loop: the last block before new_end is      *)
(* free; it is unlinked from its neighbours, or from the end of the list   *)
(* in the descriptor on the side where it has no neighbour.  Only an       *)
(* iteration that rewrites a neighbour sets truncate.                      *)
(***************************************************************************)
CloseStep ==
  /\ session = "closing"
  /\ newEnd > 0
  /\ newEnd - 1 \notin inuse
  /\ LET t == newEnd - 1
         p == area[t].prev
         n == area[t].next
     IN /\ area' = [b \in BlockId |->
                      IF b \in {p, n}
                      THEN [prev |-> IF b = n THEN p ELSE area[b].prev,
                            next |-> IF b = p THEN n ELSE area[b].next]
                      ELSE area[b]]
        /\ hdr' = [hdr EXCEPT !.first = IF p = Nil THEN n ELSE @,
                              !.last  = IF n = Nil THEN p ELSE @]
        /\ truncate' = (truncate \/ p # Nil \/ n # Nil)
  /\ newEnd' = newEnd - 1
  /\ UNCHANGED <<session, disk, magic, inuse, lost>>

(* Mutant: the cut takes one block too many.                               *)
Bug_CutTooFar == IF truncate THEN newEnd - 1 ELSE hdr.add

EndOfFile == IF truncate THEN newEnd ELSE hdr.add

(***************************************************************************)
(* The rest of BfhClose: the end of the file moves if truncate is set, the *)
(* descriptor is written, the file is cut and unlocked.                    *)
(***************************************************************************)
CloseFinish ==
  /\ session = "closing"
  /\ newEnd > 0 => newEnd - 1 \in inuse
  /\ hdr' = [hdr EXCEPT !.add = EndOfFile]
  /\ disk' = hdr'
  /\ magic' = TRUE
  /\ session' = "closed"
  /\ newEnd' = 0 /\ truncate' = FALSE
  /\ UNCHANGED <<inuse, area, lost>>

(***************************************************************************)
(* The process dies with the file open; the system releases the lock.  The *)
(* blocks are as written, the descriptor is the one of the last close.     *)
(* The file is still good if that descriptor is intact and equals the one  *)
(* in memory, and BfhClose had not yet begun to unlink blocks.             *)
(***************************************************************************)
Unharmed == /\ magic
            /\ disk = hdr
            /\ session = "closing" => newEnd = hdr.add

Crash ==
  /\ session \in {"open", "closing"}
  /\ session' = "closed"
  /\ lost' = ~Unharmed
  /\ newEnd' = 0 /\ truncate' = FALSE
  /\ UNCHANGED <<hdr, disk, magic, inuse, area>>

-----------------------------------------------------------------------------
Next ==
  \/ Create \/ Open \/ NewBlock
  \/ \E b \in BlockId : FreeBlock(b)
  \/ \E b \in BlockId, v \in Value : WriteBlock(b, v)
  \/ CloseBegin \/ CloseStep \/ CloseFinish \/ Crash

Spec == Init /\ [][Next]_vars

-----------------------------------------------------------------------------
(* The end of the part of the file the free list is about: BfhClose has    *)
(* already dealt with the blocks from newEnd on.                           *)
Limit == IF session = "closing" THEN newEnd ELSE hdr.add

FreeBlocks == {b \in BlockId : b < Limit /\ b \notin inuse}

(***************************************************************************)
(* The links a free block holds lead to free blocks that point back, and   *)
(* the ends of the list in the descriptor are free blocks with no          *)
(* neighbour outside.  So no call that recycles, frees or unlinks a block  *)
(* touches the data of a block in use (BfhNewBlock, BfhFreeBlock,          *)
(* BfhClose), even though not every free block need be on the list.        *)
(***************************************************************************)
EndsSound ==
  /\ hdr.first # Nil => hdr.first \in FreeBlocks /\ area[hdr.first].prev = Nil
  /\ hdr.last  # Nil => hdr.last \in FreeBlocks  /\ area[hdr.last].next = Nil

LinksSound ==
  \A b \in FreeBlocks :
    /\ area[b] \in Link
    /\ area[b].next # Nil => area[b].next \in FreeBlocks /\ area[area[b].next].prev = b
    /\ area[b].prev # Nil => area[b].prev \in FreeBlocks /\ area[area[b].prev].next = b

FreeListSound == ~lost => EndsSound /\ LinksSound

InUse == [b \in {x \in inuse : x < hdr.add} |-> area[b]]

(* What the client still has: nothing, if the file was lost.               *)
Kept == IF lost THEN [b \in {} |-> area[b]] ELSE InUse

Store == INSTANCE BlockStore WITH session <- session, store <- Kept

(***************************************************************************)
(* The file handler implements a block store (BlockStore.tla): an          *)
(* allocation never hands out a block in use, no call changes a block that *)
(* is not its argument, and closing, truncating and reopening the file, or *)
(* a crash that leaves the descriptor unharmed, loses nothing.             *)
(***************************************************************************)

ImplementsStore == Store!Spec

(***************************************************************************)
(* What BfhNewBlock hands out was not in use: after the call exactly one   *)
(* block more is.                                                          *)
(***************************************************************************)
HandsOutFresh ==
  [][ NewBlock /\ ~lost =>
        \E b \in BlockId \ DOMAIN InUse : DOMAIN InUse' = DOMAIN InUse \cup {b} ]_vars

(***************************************************************************)
(* "Cant be a first free block without a last free block"                  *)
(* (src/bfh.c:733): the case in which BfhFreeBlock gives up.               *)
(***************************************************************************)
FirstNeedsLast ==
  session = "open" /\ ~lost /\ hdr.first # Nil => hdr.last # Nil
=============================================================================
