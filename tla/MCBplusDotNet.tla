---------------------------- MODULE MCBplusDotNet ----------------------------
(***************************************************************************)
(* The layers of BplusDotNet under one configuration: a behaviour is one   *)
(* of the tree of byte arrays or of the linked file (which this module     *)
(* extends), of the tree of longs, or of the trees of buckets by prefix.   *)
(* Each has files of its own and those that are not layer's stay at their  *)
(* initial state, so that every property may be read for its layer alone.  *)
(***************************************************************************)
EXTENDS BplusTreeBytes, LinkedFile, TLC

VARIABLES layer,
  tNodeSize, tFile, tHeader, tOpen, tRoot, tFree, tFoc, tFoa, tDead,  \* the tree of longs
  tRuined, tRaised, tChanges, tFaults, tStrayed, tTodo,
  prefix, limit, pCommitted, pTree                                    \* the prefix tree

treeVars == <<tNodeSize, tFile, tHeader, tOpen, tRoot, tFree, tFoc, tFoa, tDead,
              tRuined, tRaised, tChanges, tFaults, tStrayed, tTodo>>
prefixVars == <<prefix, limit, pCommitted, pTree>>

(* Five keys in nodes of two and of four, a table of five terminal nodes,  *)
(* after the scripts of MCBplusTreeLong; one crash or shutdown.            *)
Tree == INSTANCE MCBplusTreeLong WITH
  Keys <- 1 .. 5, Vals <- {1}, NodeSizes <- {2, 4}, FifoLimit <- 5,
  MaxBuffers <- 12, MaxChanges <- 17, MaxFaults <- 1,
  NodeSize <- tNodeSize, file <- tFile, header <- tHeader, open <- tOpen, root <- tRoot,
  free <- tFree, foc <- tFoc, foa <- tFoa, dead <- tDead, ruined <- tRuined,
  raised <- tRaised, changes <- tChanges, faults <- tFaults, strayed <- tStrayed,
  todo <- tTodo

(* Linked files have values of one and of two buffers.                     *)
BuffersOf(v) == v

(* Four keys: with prefixes in order, of one, two and one keys; with       *)
(* hashes out of order that collide; and in one bucket.                    *)
Prefixed == INSTANCE PrefixTree WITH
  Keys <- 1 .. 4, Vals <- {1, 2}, Limits <- {-1, 2},
  PrefixFunctions <- {<<1, 2, 2, 3>>, <<2, 1, 2, 1>>, <<1, 1, 1, 1>>},
  PrefixForByteCount <- prefix, BucketSizeLimit <- limit,
  committed <- pCommitted, tree <- pTree

NoTree == Tree!Init /\ tNodeSize = 2 /\ tTodo = <<>>
NoPrefix == prefix = <<>> /\ limit = -1 /\ pCommitted = <<>> /\ pTree = <<>>
NoBytes == Init /\ key = CHOOSE k \in Keys : TRUE

AllInit ==
  \/ layer = "bytes"  /\ Init    /\ NoTree      /\ LinkedInit /\ NoPrefix
  \/ layer = "longs"  /\ NoBytes /\ Tree!MCInit /\ LinkedInit /\ NoPrefix
  \/ layer = "linked" /\ NoBytes /\ NoTree      /\ LinkedInit /\ NoPrefix
  \/ layer = "prefix" /\ NoBytes /\ NoTree      /\ LinkedInit /\ Prefixed!Init

AllNext ==
  \/ layer = "bytes"  /\ Next          /\ UNCHANGED <<layer, treeVars, linkedVars, prefixVars>>
  \/ layer = "longs"  /\ Tree!MCNext   /\ UNCHANGED <<layer, vars, linkedVars, prefixVars>>
  \/ layer = "linked" /\ LinkedNext    /\ UNCHANGED <<layer, vars, treeVars, prefixVars>>
  \/ layer = "prefix" /\ Prefixed!Next /\ UNCHANGED <<layer, vars, treeVars, linkedVars>>

AllSpec == AllInit /\ [][AllNext]_<<layer, vars, treeVars, linkedVars, prefixVars>>

(* Byte arrays, and keys of one length class, are only compared.            *)
Symmetry == Permutations(Contents) \cup Permutations(Keys \ LongKeys)

-----------------------------------------------------------------------------
\* The tree passes SanityCheck and its leaves are equally deep, in memory and on disk; its
\* buffers are a node's, free, or waiting for the commit, each once; and no call raises on
\* a tree that no process died on (BplusTreeLong.cs).
TreeSound == Tree!TypeOK /\ Tree!Sane /\ Tree!EachOnce /\ Tree!NoSurprise

\* Lookups and scans agree with the map in every state of the node cache; in the trees of
\* buckets a scan meets every key once, and NextKey also answers for a key not there.
ScansAgree ==
  /\ layer = "longs" => Tree!Answers
  /\ layer = "prefix" => /\ Prefixed!BucketsOK /\ Prefixed!ScansInOrder
                         /\ Prefixed!WalkMeetsAll /\ Prefixed!NextOfAbsent

\* A transaction of the tree of longs is seen by its reads and survives, whole or not at
\* all, wherever a crash cuts a call; no buffer of the committed tree is written in place
\* (BplusTreeLong.cs).
TreeIsAtomicMap == Tree!IsAtomicMap /\ Tree!NotInPlace

\* Bucketed by a prefix or a hash, the keys are one map, committed or forgotten as a whole
\* (xBplusTreeBytes.cs, hBplusTreeBytes.cs).
IsPrefixMap == Prefixed!IsAtomicMap
==============================================================================
