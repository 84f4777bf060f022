----------------------------- MODULE BfhProofs ------------------------------
(* Proofs about the block file handler, for files of any length.           *)
EXTENDS Bfh, TLAPS

(***************************************************************************)
(* What FreeListSound needs to be inductive: between sessions the file's   *)
(* descriptor is the one the blocks agree with, and the blocks BfhClose    *)
(* has passed are free, with no neighbours as long as nothing will be cut. *)
(***************************************************************************)
ClosedSound ==
  /\ lost => session = "closed"
  /\ session = "closed" /\ ~lost => disk = hdr /\ magic

ClosingSound ==
  session = "closing" =>
    /\ newEnd <= hdr.add
    /\ \A b \in BlockId : newEnd <= b /\ b < hdr.add =>
         /\ b \notin inuse
         /\ ~truncate => area[b] = [prev |-> Nil, next |-> Nil]

IInv == TypeOK /\ FreeListSound /\ ClosedSound /\ ClosingSound

-----------------------------------------------------------------------------
(* What an update of one field of a link is.                               *)
LEMMA LinkUpdate ==
  ASSUME NEW l \in Link, NEW r \in Ref
  PROVE  /\ WithPrev(l, r) \in Link /\ WithPrev(l, r).prev = r /\ WithPrev(l, r).next = l.next
         /\ WithNext(l, r) \in Link /\ WithNext(l, r).next = r /\ WithNext(l, r).prev = l.prev
  BY DEF Link, WithPrev, WithNext

LEMMA InitSound == Init => IInv
<1> SUFFICES ASSUME Init PROVE IInv
  OBVIOUS
<1> USE BfhAssumption DEF BfhAssumption, Init, EmptyHeader
<1>1. TypeOK
  <2>1. EmptyHeader \in Header
    BY DEF Header, Ref, Nil
  <2>2. area \in [BlockId -> Content]
    BY DEF Content
  <2>3. newEnd \in 0 .. MaxBlocks
    OBVIOUS
  <2> QED
    BY <2>1, <2>2, <2>3, Zenon DEF TypeOK
<1>2. FreeListSound
  BY DEF FreeListSound, EndsSound, LinksSound, FreeBlocks, Limit, BlockId
<1>3. ClosedSound /\ ClosingSound
  BY DEF ClosedSound, ClosingSound
<1> QED
  BY <1>1, <1>2, <1>3 DEF IInv

(* BfhNewBlock at the end of the file.                                     *)
LEMMA NewAtEndSound == IInv /\ NewAtEnd => IInv'
<1> SUFFICES ASSUME IInv, NewAtEnd PROVE IInv'
  OBVIOUS
<1> USE BfhAssumption DEF BfhAssumption, IInv, NewAtEnd
<1>1. TypeOK'
  BY DEF TypeOK, Header, BlockId, Content
<1>2. FreeListSound'
  BY DEF TypeOK, Header, Ref, BlockId, Nil, Link, FreeListSound, EndsSound, LinksSound, FreeBlocks, Limit, ClosedSound
<1>3. ClosedSound' /\ ClosingSound'
  BY DEF ClosedSound, ClosingSound
<1> QED
  BY <1>1, <1>2, <1>3

(* BfhNewBlock from a list of one.                                         *)
LEMMA NewFromSoleSound == IInv /\ NewFromSole => IInv'
<1> SUFFICES ASSUME IInv, NewFromSole PROVE IInv'
  OBVIOUS
<1> USE BfhAssumption DEF BfhAssumption, IInv, NewFromSole, Emptied
<1>1. TypeOK'
  BY DEF TypeOK, Header, Ref, BlockId, Nil
<1>2. FreeListSound'
  BY DEF TypeOK, Header, Ref, BlockId, Nil, Link, FreeListSound, EndsSound, LinksSound, FreeBlocks, Limit, ClosedSound
<1>3. ClosedSound' /\ ClosingSound'
  BY DEF ClosedSound, ClosingSound
<1> QED
  BY <1>1, <1>2, <1>3

(* BfhNewBlock from a longer list.                                         *)
LEMMA NewFromListSound == IInv /\ NewFromList => IInv'
<1> SUFFICES ASSUME IInv, NewFromList PROVE IInv'
  OBVIOUS
<1> USE BfhAssumption DEF BfhAssumption
<1> DEFINE f == hdr.first
           s == area[f].next
<1>1. /\ ~lost
      /\ f \in BlockId /\ f \in FreeBlocks /\ area[f] \in Link /\ area[f].prev = Nil
      /\ s \in Ref
      /\ s # Nil => s \in BlockId /\ s # f /\ s \in FreeBlocks /\ area[s] \in Link /\ area[s].prev = f
  BY DEF IInv, NewFromList, TypeOK, Header, Ref, BlockId, Nil, Link, ClosedSound, FreeListSound, EndsSound, LinksSound, FreeBlocks
<1>2. /\ hdr' \in Header
      /\ hdr'.first = s /\ hdr'.last = hdr.last /\ hdr'.add = hdr.add
      /\ inuse' = inuse \cup {f}
      /\ session' = session /\ session = "open" /\ lost' = lost
  BY <1>1 DEF NewFromList, IInv, TypeOK, Header
<1>3. s = Nil => area' = area
  BY DEF NewFromList
<1>4. s # Nil => area' = [area EXCEPT ![s] = WithPrev(area[s], Nil)]
  BY DEF NewFromList
<1>5. s # Nil => /\ WithPrev(area[s], Nil) \in Link
                 /\ WithPrev(area[s], Nil).prev = Nil
                 /\ WithPrev(area[s], Nil).next = area[s].next
  <2>1. Nil \in Ref
    BY DEF Ref
  <2>2. s # Nil => area[s] \in Link
    BY <1>1
  <2> QED
    BY <2>1, <2>2, LinkUpdate
<1>6. /\ area' \in [BlockId -> Content]
      /\ \A b \in BlockId \ {s} : area'[b] = area[b]
      /\ s # Nil => area'[s] \in Link /\ area'[s].prev = Nil /\ area'[s].next = area[s].next
  BY <1>1, <1>3, <1>4, <1>5 DEF IInv, TypeOK, Content
<1>7. TypeOK'
  BY <1>1, <1>2, <1>6 DEF NewFromList, IInv, TypeOK
<1>8. FreeBlocks' = FreeBlocks \ {f}
  BY <1>2 DEF FreeBlocks, Limit
<1>9. EndsSound'
  BY <1>1, <1>2, <1>6, <1>8 DEF IInv, NewFromList, TypeOK, Header, Ref, FreeListSound, EndsSound, FreeBlocks
<1>10. LinksSound'
  <2> SUFFICES ASSUME NEW b \in FreeBlocks'
               PROVE  /\ area'[b] \in Link
                      /\ area'[b].next # Nil =>
                            area'[b].next \in FreeBlocks' /\ area'[area'[b].next].prev = b
                      /\ area'[b].prev # Nil =>
                            area'[b].prev \in FreeBlocks' /\ area'[area'[b].prev].next = b
    BY DEF LinksSound
  <2>1. /\ b \in FreeBlocks /\ b # f /\ b # Nil /\ b \in BlockId
        /\ area[b] \in Link
        /\ area[b].next # Nil => area[b].next \in FreeBlocks /\ area[area[b].next].prev = b
        /\ area[b].prev # Nil => area[b].prev \in FreeBlocks /\ area[area[b].prev].next = b
    BY <1>1, <1>8 DEF IInv, FreeListSound, LinksSound, FreeBlocks, BlockId, Nil
  <2>2. area[b].next # f
    BY <1>1, <2>1 DEF Nil, BlockId
  <2>3. area[b].prev = f => b = s
    BY <1>1, <2>1 DEF Nil, BlockId
  <2>4. FreeBlocks \subseteq BlockId
    BY DEF FreeBlocks
  <2> HIDE DEF s, f
  <2>5. area'[b] \in Link /\ area'[b].next = area[b].next /\ (b # s => area'[b].prev = area[b].prev)
    BY <1>6, <2>1
  <2>6. area[b].next # Nil => area[b].next \in FreeBlocks' /\ area'[area[b].next].prev = b
    BY <1>1, <1>6, <1>8, <2>1, <2>2, <2>4
  <2>7. b # s /\ area[b].prev # Nil => area[b].prev \in FreeBlocks' /\ area'[area[b].prev].next = b
    BY <1>1, <1>6, <1>8, <2>1, <2>3, <2>4
  <2> QED
    BY <1>6, <2>1, <2>5, <2>6, <2>7
<1>11. ClosedSound' /\ ClosingSound'
  BY <1>2, Zenon DEF IInv, ClosedSound, ClosingSound
<1> QED
  BY <1>7, <1>9, <1>10, <1>11 DEF IInv, FreeListSound

-----------------------------------------------------------------------------
(* What the invariant says of one free block, in the form the steps use.   *)
LEMMA FreeBlockFacts ==
  ASSUME IInv, ~lost, NEW b \in FreeBlocks
  PROVE  /\ b \in BlockId /\ b # Nil
         /\ area[b] \in Link /\ area[b].prev \in Ref /\ area[b].next \in Ref
         /\ area[b].next # Nil => area[b].next \in FreeBlocks /\ area[area[b].next].prev = b
         /\ area[b].prev # Nil => area[b].prev \in FreeBlocks /\ area[area[b].prev].next = b
  BY DEF IInv, FreeListSound, LinksSound, FreeBlocks, BlockId, Nil, Link

(* BfhFreeBlock, behind the last free block.                               *)
LEMMA FreeAtEndSound == \A b \in BlockId : IInv /\ FreeAtEnd(b) => IInv'
<1> SUFFICES ASSUME NEW b \in BlockId, IInv, FreeAtEnd(b) PROVE IInv'
  OBVIOUS
<1> USE BfhAssumption DEF BfhAssumption
<1> DEFINE l == hdr.last
<1>1. /\ ~lost
      /\ l \in FreeBlocks /\ area[l].next = Nil
      /\ b # Nil /\ b \notin FreeBlocks /\ b < hdr.add
  BY DEF IInv, FreeAtEnd, Freeable, ClosedSound, FreeListSound, EndsSound, FreeBlocks, BlockId, Nil
<1>2. l \in BlockId /\ l # Nil /\ area[l] \in Link /\ l # b
  BY <1>1, FreeBlockFacts
<1>3. /\ hdr' \in Header
      /\ hdr'.first = hdr.first /\ hdr'.last = b /\ hdr'.add = hdr.add
      /\ inuse' = inuse \ {b}
      /\ session' = session /\ session = "open" /\ lost' = lost
  BY DEF FreeAtEnd, Freeable, IInv, TypeOK, Header, Ref
<1>4. WithNext(area[l], b) \in Link /\ WithNext(area[l], b).next = b /\ WithNext(area[l], b).prev = area[l].prev
  <2>1. b \in Ref
    BY DEF Ref
  <2> QED
    BY <1>2, <2>1, LinkUpdate
<1>5. [prev |-> l, next |-> Nil] \in Link
  BY <1>2 DEF Link, Ref
<1>6. area' = [area EXCEPT ![l] = WithNext(area[l], b), ![b] = [prev |-> l, next |-> Nil]]
  BY DEF FreeAtEnd, LinkedAtEnd
<1>7. /\ area' \in [BlockId -> Content]
      /\ \A x \in BlockId \ {l, b} : area'[x] = area[x]
      /\ area'[l] \in Link /\ area'[l].next = b /\ area'[l].prev = area[l].prev
      /\ area'[b] \in Link /\ area'[b].prev = l /\ area'[b].next = Nil
  BY <1>2, <1>4, <1>5, <1>6 DEF IInv, TypeOK, Content
<1>8. TypeOK'
  BY <1>3, <1>7 DEF FreeAtEnd, IInv, TypeOK
<1>9. FreeBlocks' = FreeBlocks \cup {b}
  BY <1>1, <1>3 DEF FreeBlocks, Limit
<1>10. EndsSound'
  <2>1. hdr.first # Nil => hdr.first \in FreeBlocks /\ area[hdr.first].prev = Nil
    BY <1>1 DEF IInv, FreeListSound, EndsSound
  <2> HIDE DEF l
  <2> QED
    BY <1>1, <1>3, <1>7, <1>9, <2>1, FreeBlockFacts DEF EndsSound
<1>11. LinksSound'
  <2> SUFFICES ASSUME NEW x \in FreeBlocks'
               PROVE  /\ area'[x] \in Link
                      /\ area'[x].next # Nil =>
                            area'[x].next \in FreeBlocks' /\ area'[area'[x].next].prev = x
                      /\ area'[x].prev # Nil =>
                            area'[x].prev \in FreeBlocks' /\ area'[area'[x].prev].next = x
    BY DEF LinksSound
  <2> HIDE DEF l
  <2>1. CASE x = b
    BY <1>1, <1>2, <1>7, <1>9, <2>1
  <2>2. CASE x # b
    <3>1. x \in FreeBlocks
      BY <1>9, <2>2
    <3>2. /\ x \in BlockId /\ area[x] \in Link
          /\ area[x].next # Nil => area[x].next \in FreeBlocks /\ area[area[x].next].prev = x
          /\ area[x].prev # Nil => area[x].prev \in FreeBlocks /\ area[area[x].prev].next = x
      BY <1>1, <3>1, FreeBlockFacts
    <3>3. area[x].prev # l
      BY <1>1, <1>2, <3>1, <3>2, FreeBlockFacts
    <3>4. \A y \in FreeBlocks : y \in BlockId /\ y # b
      BY <1>1, FreeBlockFacts
    <3>5. area'[x] \in Link /\ area'[x].prev = area[x].prev /\ area'[x].next = IF x = l THEN b ELSE area[x].next
      BY <1>7, <2>2, <3>2
    <3> QED
      BY <1>1, <1>2, <1>7, <1>9, <2>2, <3>1, <3>2, <3>3, <3>4, <3>5
  <2> QED
    BY <2>1, <2>2
<1>12. ClosedSound' /\ ClosingSound'
  BY <1>1, <1>3, Zenon DEF IInv, ClosedSound, ClosingSound
<1> QED
  BY <1>8, <1>10, <1>11, <1>12 DEF IInv, FreeListSound

(* BfhFreeBlock, before the first free block.                              *)
LEMMA FreeAtFrontSound == \A b \in BlockId : IInv /\ FreeAtFront(b) => IInv'
<1> SUFFICES ASSUME NEW b \in BlockId, IInv, FreeAtFront(b) PROVE IInv'
  OBVIOUS
<1> USE BfhAssumption DEF BfhAssumption
<1> DEFINE f == hdr.first
<1>1. /\ ~lost
      /\ f \in FreeBlocks /\ area[f].prev = Nil
      /\ b # Nil /\ b \notin FreeBlocks /\ b < hdr.add
  BY DEF IInv, FreeAtFront, Freeable, ClosedSound, FreeListSound, EndsSound, FreeBlocks, BlockId, Nil, TypeOK, Header, Ref
<1>2. f \in BlockId /\ f # Nil /\ area[f] \in Link /\ f # b
  BY <1>1, FreeBlockFacts
<1>3. /\ hdr' \in Header
      /\ hdr'.first = b /\ hdr'.last = hdr.last /\ hdr'.add = hdr.add
      /\ inuse' = inuse \ {b}
      /\ session' = session /\ session = "open" /\ lost' = lost
  BY DEF FreeAtFront, Freeable, IInv, TypeOK, Header, Ref
<1>4. WithPrev(area[f], b) \in Link /\ WithPrev(area[f], b).prev = b /\ WithPrev(area[f], b).next = area[f].next
  <2>1. b \in Ref
    BY DEF Ref
  <2> QED
    BY <1>2, <2>1, LinkUpdate
<1>5. [prev |-> Nil, next |-> f] \in Link
  BY <1>2 DEF Link, Ref
<1>6. area' = [area EXCEPT ![f] = WithPrev(area[f], b), ![b] = [prev |-> Nil, next |-> f]]
  BY DEF FreeAtFront, LinkedAtFront
<1>7. /\ area' \in [BlockId -> Content]
      /\ \A x \in BlockId \ {f, b} : area'[x] = area[x]
      /\ area'[f] \in Link /\ area'[f].prev = b /\ area'[f].next = area[f].next
      /\ area'[b] \in Link /\ area'[b].next = f /\ area'[b].prev = Nil
  BY <1>2, <1>4, <1>5, <1>6 DEF IInv, TypeOK, Content
<1>8. TypeOK'
  BY <1>3, <1>7 DEF FreeAtFront, IInv, TypeOK
<1>9. FreeBlocks' = FreeBlocks \cup {b}
  BY <1>1, <1>3 DEF FreeBlocks, Limit
<1>10. EndsSound'
  <2>1. hdr.last # Nil => hdr.last \in FreeBlocks /\ area[hdr.last].next = Nil
    BY <1>1 DEF IInv, FreeListSound, EndsSound
  <2> HIDE DEF f
  <2> QED
    BY <1>1, <1>3, <1>7, <1>9, <2>1, FreeBlockFacts DEF EndsSound
<1>11. LinksSound'
  <2> SUFFICES ASSUME NEW x \in FreeBlocks'
               PROVE  /\ area'[x] \in Link
                      /\ area'[x].next # Nil =>
                            area'[x].next \in FreeBlocks' /\ area'[area'[x].next].prev = x
                      /\ area'[x].prev # Nil =>
                            area'[x].prev \in FreeBlocks' /\ area'[area'[x].prev].next = x
    BY DEF LinksSound
  <2> HIDE DEF f
  <2>1. CASE x = b
    BY <1>1, <1>2, <1>7, <1>9, <2>1
  <2>2. CASE x # b
    <3>1. x \in FreeBlocks
      BY <1>9, <2>2
    <3>2. /\ x \in BlockId /\ area[x] \in Link
          /\ area[x].next # Nil => area[x].next \in FreeBlocks /\ area[area[x].next].prev = x
          /\ area[x].prev # Nil => area[x].prev \in FreeBlocks /\ area[area[x].prev].next = x
      BY <1>1, <3>1, FreeBlockFacts
    <3>3. area[x].next # f
      BY <1>1, <1>2, <3>1, <3>2, FreeBlockFacts
    <3>4. \A y \in FreeBlocks : y \in BlockId /\ y # b
      BY <1>1, FreeBlockFacts
    <3>5. area'[x] \in Link /\ area'[x].next = area[x].next /\ area'[x].prev = IF x = f THEN b ELSE area[x].prev
      BY <1>7, <2>2, <3>2
    <3> QED
      BY <1>1, <1>2, <1>7, <1>9, <2>2, <3>1, <3>2, <3>3, <3>4, <3>5
  <2> QED
    BY <2>1, <2>2
<1>12. ClosedSound' /\ ClosingSound'
  BY <1>1, <1>3, Zenon DEF IInv, ClosedSound, ClosingSound
<1> QED
  BY <1>8, <1>10, <1>11, <1>12 DEF IInv, FreeListSound

(* BfhFreeBlock onto an empty list.                                        *)
LEMMA FreeAsSoleSound == \A b \in BlockId : IInv /\ FreeAsSole(b) => IInv'
<1> SUFFICES ASSUME NEW b \in BlockId, IInv, FreeAsSole(b) PROVE IInv'
  OBVIOUS
<1> USE BfhAssumption DEF BfhAssumption
<1>1. ~lost /\ b # Nil /\ b \notin FreeBlocks /\ b < hdr.add
  BY DEF IInv, FreeAsSole, Freeable, ClosedSound, FreeBlocks, BlockId, Nil
<1>2. /\ hdr' \in Header
      /\ hdr'.first = b /\ hdr'.last = b /\ hdr'.add = hdr.add
      /\ inuse' = inuse \ {b}
      /\ session' = session /\ session = "open" /\ lost' = lost
  BY DEF FreeAsSole, Freeable, IInv, TypeOK, Header, Ref
<1>3. [prev |-> Nil, next |-> Nil] \in Link
  BY DEF Link, Ref
<1>4. /\ area' \in [BlockId -> Content]
      /\ \A x \in BlockId \ {b} : area'[x] = area[x]
      /\ area'[b] \in Link /\ area'[b].prev = Nil /\ area'[b].next = Nil
  BY <1>3 DEF FreeAsSole, IInv, TypeOK, Content
<1>5. TypeOK'
  BY <1>2, <1>4 DEF FreeAsSole, IInv, TypeOK
<1>6. FreeBlocks' = FreeBlocks \cup {b}
  BY <1>1, <1>2 DEF FreeBlocks, Limit
<1>7. EndsSound'
  BY <1>2, <1>4, <1>6 DEF EndsSound
<1>8. LinksSound'
  <2> SUFFICES ASSUME NEW x \in FreeBlocks'
               PROVE  /\ area'[x] \in Link
                      /\ area'[x].next # Nil =>
                            area'[x].next \in FreeBlocks' /\ area'[area'[x].next].prev = x
                      /\ area'[x].prev # Nil =>
                            area'[x].prev \in FreeBlocks' /\ area'[area'[x].prev].next = x
    BY DEF LinksSound
  <2>1. CASE x = b
    BY <1>4, <2>1
  <2>2. CASE x # b
    BY <1>1, <1>4, <1>6, <2>2, FreeBlockFacts
  <2> QED
    BY <2>1, <2>2
<1>9. ClosedSound' /\ ClosingSound'
  BY <1>1, <1>2, Zenon DEF IInv, ClosedSound, ClosingSound
<1> QED
  BY <1>5, <1>7, <1>8, <1>9 DEF IInv, FreeListSound

(* BfhWriteBlock.                                                          *)
LEMMA WriteBlockSound ==
  \A b \in BlockId, v \in Value : IInv /\ WriteBlock(b, v) => IInv'
<1> SUFFICES ASSUME NEW b \in BlockId, NEW v \in Value, IInv, WriteBlock(b, v)
             PROVE  IInv'
  OBVIOUS
<1>1. /\ b \in inuse /\ session = "open" /\ ~lost
      /\ area' = [area EXCEPT ![b] = v]
      /\ hdr' = hdr /\ disk' = disk /\ magic' = magic /\ inuse' = inuse
      /\ newEnd' = newEnd /\ truncate' = truncate /\ lost' = lost /\ session' = session
  BY DEF WriteBlock, IInv, ClosedSound
<1>2. FreeBlocks' = FreeBlocks /\ b \notin FreeBlocks
  BY <1>1 DEF FreeBlocks, Limit
<1>3. area' \in [BlockId -> Content] /\ \A x \in BlockId \ {b} : area'[x] = area[x]
  BY <1>1 DEF IInv, TypeOK, Content
<1>4. TypeOK'
  BY <1>1, <1>3 DEF IInv, TypeOK
<1>5. EndsSound' /\ LinksSound'
  <2>1. \A x \in FreeBlocks : x \in BlockId /\ area'[x] = area[x]
    BY <1>2, <1>3, FreeBlockFacts, <1>1
  <2> QED
    BY <1>1, <1>2, <2>1, FreeBlockFacts DEF IInv, FreeListSound, EndsSound, LinksSound
<1>6. ClosedSound' /\ ClosingSound'
  BY <1>1, Zenon DEF IInv, ClosedSound, ClosingSound
<1> QED
  BY <1>4, <1>5, <1>6 DEF IInv, FreeListSound

-----------------------------------------------------------------------------
LEMMA CreateSound == IInv /\ Create => IInv'
<1> SUFFICES ASSUME IInv, Create PROVE IInv'
  OBVIOUS
<1> USE BfhAssumption DEF BfhAssumption, Create
<1>1. TypeOK'
  <2>1. EmptyHeader \in Header
    BY DEF EmptyHeader, Header, Ref
  <2>2. area' \in [BlockId -> Content]
    BY DEF Content
  <2> QED
    BY <2>1, <2>2, Zenon DEF IInv, TypeOK
<1>2. FreeListSound'
  BY DEF EmptyHeader, FreeListSound, EndsSound, LinksSound, FreeBlocks, Limit, BlockId
<1>3. ClosedSound' /\ ClosingSound'
  BY DEF ClosedSound, ClosingSound
<1> QED
  BY <1>1, <1>2, <1>3 DEF IInv

LEMMA OpenSound == IInv /\ Open => IInv'
<1> SUFFICES ASSUME IInv, Open PROVE IInv'
  OBVIOUS
<1>1. /\ session = "closed" /\ session' = "open" /\ ~lost /\ ~lost'
      /\ hdr' = hdr /\ disk' = disk /\ inuse' = inuse /\ area' = area
      /\ newEnd' = newEnd /\ truncate' = truncate /\ magic' = magic /\ lost' = lost
  BY DEF IInv, Open, ClosedSound
<1>2. TypeOK'
  BY <1>1 DEF IInv, TypeOK
<1>3. FreeBlocks' = FreeBlocks
  BY <1>1 DEF FreeBlocks, Limit
<1>4. FreeListSound'
  BY <1>1, <1>3 DEF IInv, FreeListSound, EndsSound, LinksSound
<1>5. ClosedSound' /\ ClosingSound'
  BY <1>1 DEF ClosedSound, ClosingSound
<1> QED
  BY <1>2, <1>4, <1>5 DEF IInv

LEMMA CloseBeginSound == IInv /\ CloseBegin => IInv'
<1> SUFFICES ASSUME IInv, CloseBegin PROVE IInv'
  OBVIOUS
<1> USE DEF CloseBegin
<1>1. TypeOK'
  BY DEF IInv, TypeOK, Header
<1>2. FreeBlocks' = FreeBlocks
  BY DEF FreeBlocks, Limit
<1>3. FreeListSound'
  BY <1>2 DEF IInv, FreeListSound, EndsSound, LinksSound
<1>4. ClosedSound'
  BY DEF IInv, ClosedSound
<1>5. ClosingSound'
  BY DEF IInv, TypeOK, Header, ClosingSound, BlockId
<1> QED
  BY <1>1, <1>3, <1>4, <1>5 DEF IInv

LEMMA CloseFinishSound == IInv /\ CloseFinish => IInv'
<1> SUFFICES ASSUME IInv, CloseFinish PROVE IInv'
  OBVIOUS
<1> USE BfhAssumption DEF BfhAssumption
<1>1. /\ hdr' = [hdr EXCEPT !.add = EndOfFile] /\ disk' = hdr'
      /\ session = "closing" /\ session' = "closed" /\ magic' = TRUE
      /\ newEnd' = 0 /\ truncate' = FALSE
      /\ inuse' = inuse /\ area' = area /\ lost' = lost /\ ~lost
  BY DEF CloseFinish, IInv, ClosedSound
<1>2. EndOfFile \in 0 .. MaxBlocks
  BY DEF EndOfFile, IInv, TypeOK, Header
<1>3. /\ hdr' \in Header
      /\ hdr'.first = hdr.first /\ hdr'.last = hdr.last /\ hdr'.add = EndOfFile
  BY <1>1, <1>2 DEF IInv, TypeOK, Header
<1>4. TypeOK'
  <2>1. newEnd' \in 0 .. MaxBlocks
    BY <1>1
  <2> QED
    BY <1>1, <1>3, <2>1, Zenon DEF IInv, TypeOK
(* Without truncate the blocks the loop passed stay in the file, free and  *)
(* with no neighbours.                                                     *)
<1>5. /\ FreeBlocks \subseteq FreeBlocks'
      /\ \A b \in FreeBlocks' : b \in FreeBlocks \/ area[b] = [prev |-> Nil, next |-> Nil]
  BY <1>1, <1>3 DEF FreeBlocks, Limit, EndOfFile, IInv, ClosingSound, TypeOK, Header, BlockId
<1>6. EndsSound'
  BY <1>1, <1>3, <1>5 DEF IInv, FreeListSound, EndsSound
<1>7. LinksSound'
  <2>1. [prev |-> Nil, next |-> Nil] \in Link
    BY DEF Link, Ref
  <2> QED
    BY <1>1, <1>5, <2>1, FreeBlockFacts DEF LinksSound
<1>8. ClosedSound' /\ ClosingSound'
  BY <1>1 DEF ClosedSound, ClosingSound
<1> QED
  BY <1>4, <1>6, <1>7, <1>8 DEF IInv, FreeListSound

LEMMA CrashSound == IInv /\ Crash => IInv'
<1> SUFFICES ASSUME IInv, Crash PROVE IInv'
  OBVIOUS
<1> USE BfhAssumption DEF BfhAssumption
<1>1. TypeOK'
  <2>1. newEnd' \in 0 .. MaxBlocks
    BY DEF Crash
  <2> QED
    BY <2>1, Zenon DEF IInv, Crash, TypeOK
<1>2. FreeListSound'
  <2> SUFFICES ASSUME Unharmed PROVE EndsSound' /\ LinksSound'
    BY Zenon DEF Crash, FreeListSound
  <2>1. FreeBlocks' = FreeBlocks
    BY DEF Crash, FreeBlocks, Limit, Unharmed
  <2>2. ~lost /\ hdr' = hdr /\ area' = area
    BY DEF Crash, IInv, ClosedSound
  <2> QED
    BY <2>1, <2>2 DEF IInv, FreeListSound, EndsSound, LinksSound
<1>3. ClosedSound' /\ ClosingSound'
  BY DEF Crash, Unharmed, ClosedSound, ClosingSound
<1> QED
  BY <1>1, <1>2, <1>3 DEF IInv

(***************************************************************************)
(* One iteration of BfhClose unlinks the last block t of the file.         *)
(***************************************************************************)
LEMMA CloseStepSound == IInv /\ CloseStep => IInv'
<1> SUFFICES ASSUME IInv, CloseStep PROVE IInv'
  OBVIOUS
<1> USE BfhAssumption DEF BfhAssumption
<1> DEFINE t == newEnd - 1
           p == area[t].prev
           n == area[t].next
<1>1. /\ session = "closing" /\ session' = session /\ ~lost /\ lost' = lost
      /\ inuse' = inuse /\ newEnd' = t /\ newEnd \in 1 .. MaxBlocks
      /\ disk' = disk /\ magic' = magic
  BY DEF CloseStep, IInv, ClosedSound, TypeOK
<1>2. t \in FreeBlocks
  BY <1>1 DEF CloseStep, FreeBlocks, Limit, BlockId
<1>3. /\ p \in Ref /\ n \in Ref /\ area[t] \in Link /\ t \in BlockId /\ t # Nil
      /\ p # Nil => p \in FreeBlocks /\ area[p].next = t
      /\ n # Nil => n \in FreeBlocks /\ area[n].prev = t
  BY <1>1, <1>2, FreeBlockFacts
<1>4. FreeBlocks' = FreeBlocks \ {t}
  BY <1>1 DEF FreeBlocks, Limit, BlockId
<1>5. /\ hdr' \in Header /\ hdr'.add = hdr.add
      /\ hdr'.first = (IF p = Nil THEN n ELSE hdr.first)
      /\ hdr'.last = (IF n = Nil THEN p ELSE hdr.last)
      /\ truncate' = (truncate \/ p # Nil \/ n # Nil)
  BY <1>3 DEF CloseStep, IInv, TypeOK, Header
<1>6. area' = [b \in BlockId |->
                 IF b \in {p, n}
                 THEN [prev |-> IF b = n THEN p ELSE area[b].prev,
                       next |-> IF b = p THEN n ELSE area[b].next]
                 ELSE area[b]]
  BY DEF CloseStep
<1> HIDE DEF p, n, t
<1>7. ASSUME NEW x \in FreeBlocks
      PROVE  /\ area'[x] \in Link
             /\ area'[x].next = IF x = p THEN n ELSE area[x].next
             /\ area'[x].prev = IF x = n THEN p ELSE area[x].prev
  <2>1. x \in BlockId /\ area[x] \in Link /\ area[x].prev \in Ref /\ area[x].next \in Ref
    BY <1>1, FreeBlockFacts
  <2>2. CASE x \in {p, n}
    BY <1>3, <1>6, <2>1, <2>2 DEF Link
  <2>3. CASE x \notin {p, n}
    BY <1>6, <2>1, <2>3
  <2> QED
    BY <2>2, <2>3
<1>8. \A x \in BlockId : x \notin {p, n} => area'[x] = area[x]
  BY <1>6
<1>9. TypeOK'
  <2>1. area' \in [BlockId -> Content]
    <3> SUFFICES ASSUME NEW x \in BlockId PROVE area'[x] \in Content
      BY <1>6
    <3>1. CASE x \in {p, n}
      <4>1. x \in FreeBlocks
        BY <1>3, <3>1 DEF BlockId, Nil
      <4> QED
        BY <1>7, <4>1 DEF Content
    <3>2. CASE x \notin {p, n}
      BY <1>8, <3>2 DEF IInv, TypeOK
    <3> QED
      BY <3>1, <3>2
  <2>2. newEnd' \in 0 .. MaxBlocks
    BY <1>1 DEF t
  <2>3. truncate' \in BOOLEAN
    BY <1>5, Zenon DEF IInv, TypeOK
  <2> QED
    BY <1>1, <1>5, <2>1, <2>2, <2>3, Zenon DEF IInv, TypeOK
<1>10. EndsSound'
  <2>1. /\ hdr.first # Nil => hdr.first \in FreeBlocks /\ area[hdr.first].prev = Nil
        /\ hdr.last # Nil => hdr.last \in FreeBlocks /\ area[hdr.last].next = Nil
    BY <1>1 DEF IInv, FreeListSound, EndsSound
  <2>2. area[t].prev = p /\ area[t].next = n
    BY DEF p, n
  <2>3. hdr'.first # Nil => hdr'.first \in FreeBlocks' /\ area'[hdr'.first].prev = Nil
    BY <1>3, <1>4, <1>5, <1>7, <2>1, <2>2
  <2>4. hdr'.last # Nil => hdr'.last \in FreeBlocks' /\ area'[hdr'.last].next = Nil
    BY <1>3, <1>4, <1>5, <1>7, <2>1, <2>2
  <2> QED
    BY <2>3, <2>4 DEF EndsSound
<1>11. LinksSound'
  <2> SUFFICES ASSUME NEW x \in FreeBlocks'
               PROVE  /\ area'[x] \in Link
                      /\ area'[x].next # Nil =>
                            area'[x].next \in FreeBlocks' /\ area'[area'[x].next].prev = x
                      /\ area'[x].prev # Nil =>
                            area'[x].prev \in FreeBlocks' /\ area'[area'[x].prev].next = x
    BY DEF LinksSound
  <2>1. /\ x \in FreeBlocks /\ x # t
        /\ area[x].next # Nil => area[x].next \in FreeBlocks /\ area[area[x].next].prev = x
        /\ area[x].prev # Nil => area[x].prev \in FreeBlocks /\ area[area[x].prev].next = x
    BY <1>1, <1>4, FreeBlockFacts
  <2>2. area[t].prev = p /\ area[t].next = n
    BY DEF p, n
  <2>3. area'[x].next # Nil => area'[x].next \in FreeBlocks' /\ area'[area'[x].next].prev = x
    BY <1>3, <1>4, <1>7, <2>1, <2>2
  <2>4. area'[x].prev # Nil => area'[x].prev \in FreeBlocks' /\ area'[area'[x].prev].next = x
    BY <1>3, <1>4, <1>7, <2>1, <2>2
  <2> QED
    BY <1>7, <2>1, <2>3, <2>4
<1>12. ClosedSound'
  BY <1>1 DEF ClosedSound
<1>13. ClosingSound'
  <2>1. newEnd' <= hdr'.add
    BY <1>1, <1>5 DEF IInv, ClosingSound, TypeOK, Header, t
  <2>2. ASSUME NEW b \in BlockId, newEnd' <= b, b < hdr'.add
        PROVE  b \notin inuse' /\ (~truncate' => area'[b] = [prev |-> Nil, next |-> Nil])
    <3>1. CASE b = t
      <4>1. b \notin inuse'
        BY <1>1, <1>2, <3>1 DEF FreeBlocks
      <4>2. ASSUME ~truncate' PROVE area'[b] = [prev |-> Nil, next |-> Nil]
        BY <1>3, <1>5, <1>8, <3>1, <4>2 DEF Link, p, n
      <4> QED
        BY <4>1, <4>2
    <3>2. CASE b # t
      <4>1. newEnd <= b /\ b < hdr.add
        BY <1>1, <1>5, <2>2, <3>2 DEF t, BlockId
      <4>2. b \notin inuse' /\ (~truncate => area[b] = [prev |-> Nil, next |-> Nil])
        BY <1>1, <4>1 DEF IInv, ClosingSound
      <4>3. ~truncate' => ~truncate /\ p = Nil /\ n = Nil
        BY <1>5, Zenon
      <4>4. b # Nil
        BY DEF BlockId, Nil
      <4> QED
        BY <1>8, <4>2, <4>3, <4>4
    <3> QED
      BY <3>1, <3>2
  <2> QED
    BY <2>1, <2>2 DEF ClosingSound
<1> QED
  BY <1>1, <1>9, <1>10, <1>11, <1>12, <1>13 DEF IInv, FreeListSound

-----------------------------------------------------------------------------
(***************************************************************************)
(* The descriptor, the free list and the switches agree in every session,  *)
(* after every clean close and after every crash that leaves the           *)
(* descriptor unharmed.                                                    *)
(***************************************************************************)
THEOREM Invariance == Spec => []IInv
<1>1. Init => IInv
  BY InitSound
<1>2. IInv /\ [Next]_vars => IInv'
  <2> SUFFICES ASSUME IInv, [Next]_vars PROVE IInv'
    OBVIOUS
  <2>1. CASE Create
    BY <2>1, CreateSound
  <2>2. CASE Open
    BY <2>2, OpenSound
  <2>3. CASE NewBlock
    BY <2>3, NewAtEndSound, NewFromSoleSound, NewFromListSound DEF NewBlock
  <2>4. ASSUME NEW b \in BlockId, FreeBlock(b) PROVE IInv'
    BY <2>4, FreeAtEndSound, FreeAtFrontSound, FreeAsSoleSound DEF FreeBlock
  <2>5. ASSUME NEW b \in BlockId, NEW v \in Value, WriteBlock(b, v) PROVE IInv'
    BY <2>5, WriteBlockSound
  <2>6. CASE CloseBegin
    BY <2>6, CloseBeginSound
  <2>7. CASE CloseStep
    BY <2>7, CloseStepSound
  <2>8. CASE CloseFinish
    BY <2>8, CloseFinishSound
  <2>9. CASE Crash
    BY <2>9, CrashSound
  <2>10. CASE UNCHANGED vars
    BY <2>10 DEF vars, IInv, TypeOK, FreeListSound, EndsSound, LinksSound, FreeBlocks, Limit, ClosedSound, ClosingSound
  <2> QED
    BY <2>1, <2>2, <2>3, <2>4, <2>5, <2>6, <2>7, <2>8, <2>9, <2>10 DEF Next
<1> QED
  BY <1>1, <1>2, PTL DEF Spec

(* Every variable keeps its type.                                          *)
THEOREM TypeCorrect == Spec => []TypeOK
  BY Invariance, PTL DEF IInv

(* The free list never leads to a block in use.                            *)
THEOREM FreeListIsSound == Spec => []FreeListSound
  BY Invariance, PTL DEF IInv

-----------------------------------------------------------------------------
Used == {b \in inuse : b < hdr.add}

LEMMA UsedFacts ==
  ASSUME IInv
  PROVE  /\ DOMAIN InUse = Used /\ Used \subseteq BlockId
         /\ \A b \in Used : InUse[b] = area[b]
         /\ InUse \in [Used -> Content]
         /\ Used \cap FreeBlocks = {}
  BY DEF InUse, Used, IInv, TypeOK, FreeBlocks

LEMMA NextUsedFacts ==
  ASSUME IInv'
  PROVE  /\ DOMAIN InUse' = Used' /\ Used' \subseteq BlockId
         /\ \A b \in Used' : InUse'[b] = area'[b]
         /\ InUse' \in [Used' -> Content]
  BY DEF InUse, Used, IInv, TypeOK

(***************************************************************************)
(* BfhNewBlock turns one block that was not in use into one that is, and   *)
(* leaves the data of the others alone: a recycled block was on the list,  *)
(* so it and its successor are free.                                       *)
(***************************************************************************)
LEMMA NewBlockStep ==
  ASSUME IInv, NewBlock
  PROVE  \E b \in BlockId \ Used : /\ Used' = Used \cup {b}
                                   /\ \A x \in Used : area'[x] = area[x]
<1> USE BfhAssumption DEF BfhAssumption
<1>0. ~lost
  BY DEF NewBlock, NewAtEnd, NewFromSole, NewFromList, IInv, ClosedSound
<1>1. CASE NewAtEnd
  <2>1. /\ hdr.add \in BlockId /\ hdr'.add = hdr.add + 1
        /\ inuse' = inuse \cup {hdr.add} /\ inuse \subseteq BlockId
        /\ \A x \in BlockId \ {hdr.add} : area'[x] = area[x]
    BY <1>1 DEF NewAtEnd, IInv, TypeOK, Header, BlockId
  <2>2. Used' = Used \cup {hdr.add} /\ hdr.add \notin Used
    <3>1. \A x \in BlockId : x < hdr.add + 1 <=> x < hdr.add \/ x = hdr.add
      BY <2>1 DEF BlockId
    <3>2. ~(hdr.add < hdr.add)
      BY <2>1 DEF BlockId
    <3> QED
      BY <2>1, <3>1, <3>2 DEF Used
  <2>3. \A x \in Used : area'[x] = area[x]
    BY <2>1, <2>2 DEF Used
  <2> QED
    BY <2>1, <2>2, <2>3
<1>2. CASE NewFromSole
  <2>1. /\ hdr.first \in FreeBlocks /\ hdr'.add = hdr.add
        /\ inuse' = inuse \cup {hdr.first} /\ area' = area /\ session = "open"
    BY <1>0, <1>2 DEF NewFromSole, Emptied, IInv, TypeOK, Header, FreeListSound, EndsSound
  <2>2. /\ hdr.first \in BlockId \ Used /\ Used' = Used \cup {hdr.first}
    BY <2>1 DEF Used, FreeBlocks, Limit
  <2> QED
    BY <2>1, <2>2
<1>3. CASE NewFromList
  <2> DEFINE s == area[hdr.first].next
  <2>1. /\ hdr.first \in FreeBlocks /\ hdr'.add = hdr.add
        /\ inuse' = inuse \cup {hdr.first} /\ session = "open"
        /\ area' = IF s = Nil THEN area ELSE [area EXCEPT ![s] = WithPrev(area[s], Nil)]
    BY <1>0, <1>3 DEF NewFromList, IInv, TypeOK, Header, FreeListSound, EndsSound
  <2>2. /\ hdr.first \in BlockId \ Used /\ Used' = Used \cup {hdr.first}
    BY <2>1 DEF Used, FreeBlocks, Limit
  <2>3. s # Nil => s \in FreeBlocks
    BY <1>0, <2>1, FreeBlockFacts
  <2>4. \A x \in Used : x \in BlockId /\ x \notin FreeBlocks
    BY UsedFacts
  <2>5. \A x \in Used : area'[x] = area[x]
    <3> HIDE DEF s
    <3> QED
      BY <2>1, <2>3, <2>4 DEF IInv, TypeOK
  <2> QED
    BY <2>2, <2>5
<1> QED
  BY <1>1, <1>2, <1>3 DEF NewBlock

(* BfhNewBlock never hands out a block in use.                             *)
THEOREM NewBlockIsFresh == Spec => HandsOutFresh
<1>1. IInv /\ IInv' /\ [Next]_vars =>
        [NewBlock /\ ~lost =>
           \E b \in BlockId \ DOMAIN InUse : DOMAIN InUse' = DOMAIN InUse \cup {b}]_vars
  <2> SUFFICES ASSUME IInv, IInv', NewBlock
               PROVE  \E b \in BlockId \ DOMAIN InUse : DOMAIN InUse' = DOMAIN InUse \cup {b}
    OBVIOUS
  <2>1. PICK b \in BlockId \ Used : Used' = Used \cup {b}
    BY NewBlockStep
  <2> QED
    BY <2>1, UsedFacts, NextUsedFacts
<1> QED
  BY <1>1, Invariance, PTL DEF Spec, HandsOutFresh

-----------------------------------------------------------------------------
(***************************************************************************)
(* The steps of the file handler as steps of the block store.              *)
(***************************************************************************)
LEMMA KeptFacts ==
  ASSUME IInv
  PROVE  session \in {"open", "closing"} => ~lost /\ Kept = InUse
  BY DEF IInv, ClosedSound, Kept

LEMMA NextKeptFacts ==
  ASSUME IInv'
  PROVE  /\ session' \in {"open", "closing"} => ~lost' /\ Kept' = InUse'
         /\ ~lost' => Kept' = InUse'
         /\ lost' => Kept' \in Store!Empty
  BY DEF IInv, ClosedSound, Kept, Store!Empty

LEMMA NewBlockAllocates == IInv /\ IInv' /\ NewBlock => Store!Next
<1> SUFFICES ASSUME IInv, IInv', NewBlock PROVE Store!Next
  OBVIOUS
<1>1. PICK b \in BlockId \ Used : /\ Used' = Used \cup {b}
                                 /\ \A x \in Used : area'[x] = area[x]
  BY NewBlockStep
<1>2. session = "open" /\ session' = session
  BY DEF NewBlock, NewAtEnd, NewFromSole, NewFromList
<1>3. Kept = InUse /\ Kept' = InUse'
  BY <1>2, KeptFacts, NextKeptFacts
<1>4. Store!Allocate(b)
  BY <1>1, <1>2, <1>3, UsedFacts, NextUsedFacts DEF Store!Allocate, Store!InSession
<1> QED
  BY <1>4 DEF Store!Next

LEMMA WriteBlockWrites ==
  \A b \in BlockId, v \in Value : IInv /\ IInv' /\ WriteBlock(b, v) => Store!Next
<1> SUFFICES ASSUME NEW b \in BlockId, NEW v \in Value, IInv, IInv', WriteBlock(b, v)
             PROVE  Store!Next
  OBVIOUS
<1>1. /\ b \in Used /\ Used' = Used
      /\ \A x \in BlockId \ {b} : area'[x] = area[x]
      /\ session = "open" /\ session' = session
  BY DEF WriteBlock, Used, IInv, TypeOK
<1>2. Kept = InUse /\ Kept' = InUse'
  BY <1>1, KeptFacts, NextKeptFacts
<1>3. Store!Write(b)
  BY <1>1, <1>2, UsedFacts, NextUsedFacts DEF Store!Write, Store!InSession
<1> QED
  BY <1>3 DEF Store!Next

LEMMA FreeBlockReleases ==
  \A b \in BlockId : IInv /\ IInv' /\ FreeBlock(b) => Store!Next
<1> SUFFICES ASSUME NEW b \in BlockId, IInv, IInv', FreeBlock(b) PROVE Store!Next
  OBVIOUS
<1>0. /\ ~lost /\ b \in Used
      /\ inuse' = inuse \ {b} /\ hdr'.add = hdr.add
      /\ session = "open" /\ session' = session
  BY DEF FreeBlock, FreeAtEnd, FreeAtFront, FreeAsSole, Freeable, Used, IInv, ClosedSound, TypeOK, Header
<1>1. Used' = Used \ {b}
  BY <1>0 DEF Used
<1>2. \A x \in Used \ {b} : area'[x] = area[x]
  <2> SUFFICES ASSUME NEW x \in Used, x # b PROVE area'[x] = area[x]
    OBVIOUS
  <2>1. x \in BlockId /\ x \notin FreeBlocks
    BY UsedFacts
  <2>2. CASE FreeAtEnd(b)
    <3>1. hdr.last \in FreeBlocks
      BY <1>0, <2>2 DEF FreeAtEnd, IInv, FreeListSound, EndsSound
    <3> QED
      BY <2>1, <2>2, <3>1 DEF FreeAtEnd, LinkedAtEnd, IInv, TypeOK
  <2>3. CASE FreeAtFront(b)
    <3>1. hdr.first \in FreeBlocks
      BY <1>0, <2>3, BfhAssumption DEF BfhAssumption, FreeAtFront, IInv, FreeListSound, EndsSound, TypeOK, Header, Ref, BlockId, Nil
    <3> QED
      BY <2>1, <2>3, <3>1 DEF FreeAtFront, LinkedAtFront, IInv, TypeOK
  <2>4. CASE FreeAsSole(b)
    BY <2>1, <2>4 DEF FreeAsSole, IInv, TypeOK
  <2> QED
    BY <2>2, <2>3, <2>4 DEF FreeBlock
<1>3. InUse' = [x \in (DOMAIN InUse) \ {b} |-> InUse[x]]
  BY <1>1, <1>2, UsedFacts, NextUsedFacts
<1>4. Kept = InUse /\ Kept' = InUse'
  BY <1>0, KeptFacts, NextKeptFacts
<1>5. Store!Release(b)
  BY <1>0, <1>3, <1>4, UsedFacts DEF Store!Release, Store!InSession
<1> QED
  BY <1>5 DEF Store!Next, Used, IInv, TypeOK

LEMMA CreateEmpties == IInv' /\ Create => Store!Next
<1> SUFFICES ASSUME IInv', Create PROVE Store!Next
  OBVIOUS
<1>1. Used' = {} /\ ~lost' /\ session = "closed" /\ session' = "open"
  BY DEF Create, Used
<1>2. Store!Create
  BY <1>1, NextUsedFacts, NextKeptFacts DEF Store!Create, Store!Empty
<1> QED
  BY <1>2 DEF Store!Next

(* The other calls leave the store as it is.                               *)
LEMMA SameStore ==
  ASSUME IInv, IInv', Used' = Used, \A x \in Used : area'[x] = area[x]
  PROVE  InUse' = InUse
  BY UsedFacts, NextUsedFacts

LEMMA CloseStepHidden == IInv /\ IInv' /\ CloseStep => InUse' = InUse
<1> SUFFICES ASSUME IInv, IInv', CloseStep PROVE InUse' = InUse
  OBVIOUS
<1> USE BfhAssumption DEF BfhAssumption
<1> DEFINE t == newEnd - 1
           p == area[t].prev
           n == area[t].next
<1>1. ~lost /\ t \in FreeBlocks
  BY DEF CloseStep, FreeBlocks, Limit, BlockId, IInv, ClosedSound, TypeOK
<1>2. /\ p # Nil => p \in FreeBlocks
      /\ n # Nil => n \in FreeBlocks
  BY <1>1, FreeBlockFacts
<1>3. \A x \in BlockId : x \notin {p, n} => area'[x] = area[x]
  BY DEF CloseStep
<1>4. hdr'.add = hdr.add /\ inuse' = inuse
  BY DEF CloseStep, IInv, TypeOK, Header
<1> HIDE DEF p, n
<1>5. Used' = Used /\ Nil \notin BlockId
  BY <1>4 DEF Used, BlockId, Nil
<1>6. \A x \in Used : area'[x] = area[x]
  BY <1>2, <1>3, <1>5, UsedFacts
<1> QED
  BY <1>5, <1>6, SameStore

LEMMA CloseFinishHidden == IInv /\ IInv' /\ CloseFinish => InUse' = InUse
<1> SUFFICES ASSUME IInv, IInv', CloseFinish PROVE InUse' = InUse
  OBVIOUS
<1>1. hdr'.add = EndOfFile /\ inuse' = inuse /\ area' = area
  BY DEF CloseFinish, IInv, TypeOK, Header
<1>2. \A b \in inuse : b < hdr.add <=> b < EndOfFile
  BY DEF CloseFinish, EndOfFile, IInv, ClosingSound, TypeOK, Header, BlockId
<1>3. Used' = Used
  BY <1>1, <1>2 DEF Used
<1> QED
  BY <1>1, <1>3, SameStore

LEMMA SessionSteps ==
  ASSUME IInv, IInv', Open \/ CloseBegin \/ CloseStep \/ CloseFinish \/ Crash
  PROVE  Store!Next \/ UNCHANGED Store!vars
<1>1. CASE Open
  <2>1. Kept' = Kept
    BY <1>1, SameStore DEF Open, Used, Kept, IInv, ClosedSound
  <2> QED
    BY <1>1, <2>1 DEF Open, Store!Open, Store!Next
<1>2. CASE CloseBegin
  <2>1. Kept' = Kept
    BY <1>2, SameStore DEF CloseBegin, Used, Kept
  <2> QED
    BY <1>2, <2>1 DEF CloseBegin, Store!CloseBegin, Store!Next
<1>3. CASE CloseStep
  <2>1. Kept' = Kept
    BY <1>3, CloseStepHidden DEF CloseStep, Kept, IInv, ClosedSound
  <2> QED
    BY <1>3, <2>1 DEF CloseStep, Store!vars
<1>4. CASE CloseFinish
  <2>1. Kept' = Kept
    BY <1>4, CloseFinishHidden DEF CloseFinish, Kept, IInv, ClosedSound
  <2> QED
    BY <1>4, <2>1 DEF CloseFinish, Store!CloseFinish, Store!Next
<1>5. CASE Crash
  <2>1. ~lost' => Kept' = Kept
    BY <1>5, SameStore DEF Crash, Used, Kept, IInv, ClosedSound
  <2>2. lost' => Kept' \in Store!Empty
    BY NextKeptFacts
  <2> QED
    BY <1>5, <2>1, <2>2 DEF Crash, Store!Crash, Store!Next
<1> QED
  BY <1>1, <1>2, <1>3, <1>4, <1>5

(* The file handler is a block store.                                      *)
THEOREM StoreImplemented == Spec => ImplementsStore
<1>1. Init => Store!Init
  BY BfhAssumption DEF BfhAssumption, Init, EmptyHeader, InUse, Kept, Store!Init, Store!Empty
<1>2. IInv /\ IInv' /\ [Next]_vars => [Store!Next]_(Store!vars)
  <2> SUFFICES ASSUME IInv, IInv', [Next]_vars
               PROVE  Store!Next \/ UNCHANGED Store!vars
    BY DEF Store!vars
  <2>1. CASE Create
    BY <2>1, CreateEmpties
  <2>2. CASE NewBlock
    BY <2>2, NewBlockAllocates
  <2>3. ASSUME NEW b \in BlockId, FreeBlock(b) PROVE Store!Next
    BY <2>3, FreeBlockReleases
  <2>4. ASSUME NEW b \in BlockId, NEW v \in Value, WriteBlock(b, v) PROVE Store!Next
    BY <2>4, WriteBlockWrites
  <2>5. CASE Open \/ CloseBegin \/ CloseStep \/ CloseFinish \/ Crash
    BY <2>5, SessionSteps
  <2>6. CASE UNCHANGED vars
    BY <2>6, SameStore DEF vars, Used, Kept, Store!vars
  <2> QED
    BY <2>1, <2>2, <2>3, <2>4, <2>5, <2>6 DEF Next
<1> QED
  BY <1>1, <1>2, Invariance, PTL DEF Spec, ImplementsStore, Store!Spec
=============================================================================
