------------------------------ MODULE MemChunk ------------------------------
(***************************************************************************)
(* BlockAllocator and MemChunk: chunks of elements over blocks that are    *)
(* kept and used again.  (FE/MemChunk.c is compiled in under USE_MCHUNK.)  *)
(***************************************************************************)
EXTENDS Integers, Sequences, FiniteSets

CONSTANTS Chunks,      \* MemChunk objects
          BlockSize,   \* block_size of the allocator, in elements
          MaxLen,      \* bound: elements asked for at once
          MaxPools     \* bound: blocks allocated


VARIABLES pools,   \* the allocator's blocks: [size, used]; the address is the index
          chunk    \* each object: [data, used, length], or Gone
chunkVars == <<pools, chunk>>

Gone == [data |-> 0, used |-> 0, length |-> 0]
Alive(c) == chunk[c] # Gone

\* The loop of Malloc: the least multiple of block_size that is not below s.
Rounded(s) == CHOOSE bs \in {k * BlockSize : k \in 0 .. s} : bs >= s /\ bs - BlockSize < s
\* Malloc: the first unused block which is large enough (it stays marked unused), or one more.
Unused(s) == {i \in DOMAIN pools : ~pools[i].used /\ pools[i].size >= s}
First(S) == CHOOSE i \in S : \A j \in S : i <= j
Malloc(s) ==
    IF Unused(s) # {} THEN [pools |-> pools, ptr |-> First(Unused(s))]
    ELSE [pools |-> Append(pools, [size |-> Rounded(s), used |-> TRUE]), ptr |-> Len(pools) + 1]
\* Realloc: the same block while it is large enough; otherwise a new one, and the old one
\* stays marked used.
Realloc(p, s) == IF pools[p].size >= s THEN [pools |-> pools, ptr |-> p] ELSE Malloc(s)
Free(p) == [pools EXCEPT ![p].used = FALSE]

MemInit ==
    /\ pools = <<>>
    /\ chunk = [c \in Chunks |-> Gone]
Construct(c, n) ==
    /\ ~Alive(c)
    /\ LET m == Malloc(n)
       IN  /\ pools' = m.pools
           /\ chunk' = [chunk EXCEPT ![c] = [data |-> m.ptr, used |-> 0, length |-> n]]
\* Resize asserts what it has just found: it never stops a shrinking chunk.
Resize(c, n) ==
    /\ Alive(c)
    /\ LET m == Realloc(chunk[c].data, n)
       IN  /\ pools' = m.pools
           /\ chunk' = [chunk EXCEPT ![c].data = m.ptr, ![c].length = n]
\* Chunk asserts that there is room.
Chunk(c, n) ==
    /\ Alive(c)
    /\ chunk[c].used + n <= chunk[c].length
    /\ chunk' = [chunk EXCEPT ![c].used = @ + n]
    /\ UNCHANGED pools
Destroy(c) ==
    /\ Alive(c)
    /\ pools' = Free(chunk[c].data)
    /\ chunk' = [chunk EXCEPT ![c] = Gone]
MemNext ==
    /\ \E c \in Chunks :
         Destroy(c) \/ \E n \in 1 .. MaxLen : Construct(c, n) \/ Resize(c, n) \/ Chunk(c, n)
    /\ Len(pools') <= MaxPools
MemSpec == MemInit /\ [][MemNext]_chunkVars

----------------------------------------------------------------------------
\* GC.h:117: "A BlockAllocator is designed to handle memory management in much the same way
\* as malloc/realloc/free": two living chunks have different blocks.  They have not, once
\* a freed block has been handed out again.
BlocksHaveOneOwner ==
    \A c, d \in Chunks : c # d /\ Alive(c) /\ Alive(d) => chunk[c].data # chunk[d].data

=============================================================================
