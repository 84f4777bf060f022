---------------------------- MODULE MCFileAndLock ---------------------------
(***************************************************************************)
(* The two parts of btree.1.1 below its index, under one configuration:    *)
(* the block file handler and the semaphore calls.  A behaviour is one of  *)
(* part's; the variables of the other stay as they are, so every property  *)
(* of Bfh and of Semaphore may be read for its part alone.                 *)
(***************************************************************************)
EXTENDS Bfh, Semaphore

VARIABLE part

BothInit == part \in {"file", "lock"} /\ Init /\ SemInit

BothNext ==
  \/ part = "file" /\ Next    /\ UNCHANGED <<part, semVars>>
  \/ part = "lock" /\ SemNext /\ UNCHANGED <<part, vars>>

(* In the file's part no process is in a call, and none has to go on.      *)
BothSpec == BothInit /\ [][BothNext]_<<part, vars, semVars>> /\ Fairness
=============================================================================
