----------------------------- MODULE Semaphore ------------------------------
(***************************************************************************)
(* The System V semaphore calls of btree.1.1, src/semaphore.c: P, V and    *)
(* rmsem of a key, each of which first looks the semaphore up (semid) and  *)
(* creates it when there is none.  Every system call is a step of its own, *)
(* because the calls of several processes interleave there.                *)
(*                                                                         *)
(* The kernel's part (the semaphore set, its value, the undo counts of the *)
(* processes) is external and modelled from what the calls rely on:        *)
(* a new set has value 0, SETALL clears every undo count, and the exit of  *)
(* a process adds its undo count to the value, never below 0.              *)
(***************************************************************************)
EXTENDS Integers, FiniteSets

CONSTANTS Proc,     \* processes; one that exits may start again
          MaxSets   \* bound: how many times the semaphore is created

ASSUME SemaphoreAssumption ==
  /\ IsFiniteSet(Proc)
  /\ MaxSets \in Nat

VARIABLES
  set,     \* the semaphore set the key names now, 0 if there is none
  made,    \* how many sets were created
  val,     \* the value of the semaphore
  undo,    \* the undo count of each process for the set
  pc,      \* the system call each process makes next, "idle" outside
  call,    \* the function called: "P", "try" (P without pause), "V", "rm"
  sid,     \* the set found by semid
  inside,  \* the processes whose P returned 0 and whose V did not yet
  resets,  \* history: how many times the value was set to 1
  orphan   \* history: a process died after creating the set, before setting it

semVars == <<set, made, val, undo, pc, call, sid, inside, resets, orphan>>

kernel == <<set, made, val, undo>>

(* The calls and the kernel keep their domain; above all, the value never  *)
(* goes below zero and no process owes more than one unit.                 *)
SemTypeOK ==
  /\ set \in 0 .. MaxSets /\ made \in 0 .. MaxSets
  /\ val \in Nat
  /\ undo \in [Proc -> -1 .. 1]
  /\ pc \in [Proc -> {"idle", "lookup", "create", "setall", "semop"}]
  /\ call \in [Proc -> {"P", "try", "V", "rm"}]
  /\ sid \in [Proc -> 0 .. MaxSets]
  /\ inside \subseteq Proc
  /\ resets \in Nat
  /\ orphan \in BOOLEAN

SemInit ==
  /\ set = 0 /\ made = 0 /\ val = 0
  /\ undo = [p \in Proc |-> 0]
  /\ pc = [p \in Proc |-> "idle"]
  /\ call = [p \in Proc |-> "rm"]
  /\ sid = [p \in Proc |-> 0]
  /\ inside = {}
  /\ resets = 0
  /\ orphan = FALSE

-----------------------------------------------------------------------------
(* A process that is not inside calls P, one that is inside calls V, and   *)
(* any process may call rmsem.                                             *)
Call(p, c) ==
  /\ pc[p] = "idle"
  /\ c \in {"P", "try"} => p \notin inside
  /\ c = "V" => p \in inside
  /\ pc' = [pc EXCEPT ![p] = "lookup"]
  /\ call' = [call EXCEPT ![p] = c]
  /\ UNCHANGED <<kernel, sid, inside, resets, orphan>>

(* semid, the first semget: the set exists, or errno is ENOENT.            *)
Lookup(p) ==
  /\ pc[p] = "lookup"
  /\ sid' = [sid EXCEPT ![p] = set]
  /\ pc' = [pc EXCEPT ![p] = IF set = 0 THEN "create" ELSE "semop"]
  /\ UNCHANGED <<kernel, call, inside, resets, orphan>>

(* semid, semget with IPC_CREAT: without IPC_EXCL it also succeeds when    *)
(* another process created the set in the meantime.                        *)
CreateSet(p) ==
  /\ pc[p] = "create"
  /\ \/ /\ set # 0
        /\ UNCHANGED <<kernel, orphan>>
     \/ /\ set = 0
        /\ made < MaxSets
        /\ made' = made + 1 /\ set' = made + 1
        /\ val' = 0
        /\ undo' = [q \in Proc |-> 0]
        /\ orphan' = FALSE
  /\ sid' = [sid EXCEPT ![p] = set']
  /\ pc' = [pc EXCEPT ![p] = "setall"]
  /\ UNCHANGED <<call, inside, resets>>

(* semid, semctl with SETALL.                                              *)
SetAll(p) ==
  /\ pc[p] = "setall"
  /\ sid[p] = set
  /\ val' = 1
  /\ undo' = [q \in Proc |-> 0]
  /\ resets' = resets + 1
  /\ pc' = [pc EXCEPT ![p] = "semop"]
  /\ UNCHANGED <<set, made, call, sid, inside, orphan>>

Return(p) == pc' = [pc EXCEPT ![p] = "idle"]

(* semctl or semop on a set that was removed fails: the call returns -1,   *)
(* also to a process that was blocked in semop.                            *)
Gone(p) ==
  /\ pc[p] \in {"setall", "semop"}
  /\ sid[p] # set
  /\ Return(p)
  /\ UNCHANGED <<kernel, call, sid, inside, resets, orphan>>

-----------------------------------------------------------------------------
AtSemop(p) == pc[p] = "semop" /\ sid[p] = set

Obtains(p) == AtSemop(p) /\ call[p] \in {"P", "try"} /\ val > 0

(* semcall of -1: the process waits in semop, or takes the unit.           *)
Take(p) ==
  /\ Obtains(p)
  /\ val' = val - 1
  /\ undo' = [undo EXCEPT ![p] = @ + 1]
  /\ inside' = inside \cup {p}
  /\ Return(p)
  /\ UNCHANGED <<set, made, call, sid, resets, orphan>>

(* semcall of -1 with IPC_NOWAIT: EAGAIN.  The flags are SEM_UNDO and      *)
(* IPC_NOWAIT, never IPC_NOWAIT alone, so the call returns -1, not 0.      *)
TryFails(p) ==
  /\ AtSemop(p) /\ call[p] = "try" /\ val = 0
  /\ Return(p)
  /\ UNCHANGED <<kernel, call, sid, inside, resets, orphan>>

(* Mutant: V without SEM_UNDO.                                             *)
Bug_KeepsUndo(p) == undo

UndoOfV(p) == [undo EXCEPT ![p] = @ - 1]

(* semcall of 1. *)
Give(p) ==
  /\ AtSemop(p) /\ call[p] = "V"
  /\ val' = val + 1
  /\ undo' = UndoOfV(p)
  /\ inside' = inside \ {p}
  /\ Return(p)
  /\ UNCHANGED <<set, made, call, sid, resets, orphan>>

(* rmsem, IPC_RMID.                                                        *)
Remove(p) ==
  /\ AtSemop(p) /\ call[p] = "rm"
  /\ set' = 0 /\ val' = 0
  /\ undo' = [q \in Proc |-> 0]
  /\ orphan' = FALSE
  /\ Return(p)
  /\ UNCHANGED <<made, call, sid, inside, resets>>

-----------------------------------------------------------------------------
(* Mutant: P without SEM_UNDO, nothing is given back at exit.              *)
Bug_NoUndo(p) == val

AfterUndo(p) == IF val + undo[p] < 0 THEN 0 ELSE val + undo[p]

(* A process ends, on its own or by a signal, at any point.                *)
Exit(p) ==
  /\ val' = AfterUndo(p)
  /\ undo' = [undo EXCEPT ![p] = 0]
  /\ pc' = [pc EXCEPT ![p] = "idle"]
  /\ call' = [call EXCEPT ![p] = "rm"]
  /\ sid' = [sid EXCEPT ![p] = 0]
  /\ inside' = inside \ {p}
  /\ orphan' = (orphan \/ (pc[p] = "setall" /\ sid[p] = set))
  /\ UNCHANGED <<set, made, resets>>

(* What a process does inside a call, once it is let.                      *)
Step(p) ==
  \/ Lookup(p) \/ CreateSet(p) \/ SetAll(p) \/ Gone(p)
  \/ Take(p) \/ TryFails(p) \/ Give(p) \/ Remove(p)

SemNext ==
  \E p \in Proc :
    \/ \E c \in {"P", "try", "V", "rm"} : Call(p, c)
    \/ Step(p)
    \/ Exit(p)

(* A process inside a call goes on, and the kernel serves the processes    *)
(* blocked on a semaphore in turn: whoever can be served again and again   *)
(* is served.                                                              *)
Fairness == \A p \in Proc : WF_semVars(Step(p)) /\ SF_semVars(Take(p))

SemSpec == SemInit /\ [][SemNext]_semVars /\ Fairness

-----------------------------------------------------------------------------
(***************************************************************************)
(* As many processes are inside as the value was ever set to 1, less the   *)
(* units still there: P and V, the exit of a process inside and the        *)
(* removal of the semaphore make none (semcall and SEM_UNDO,               *)
(* src/semaphore.c:133-139).  Created once, the semaphore excludes.        *)
(***************************************************************************)
NoExtraUnit == Cardinality(inside) + val <= resets

(***************************************************************************)
(* A semaphore without a unit, and nobody inside to give one back, is one  *)
(* still to be set by a process that created it, or whose creator died     *)
(* between the two calls of semid (src/semaphore.c:79-84): no exit of a    *)
(* process that took the unit strands the others.                          *)
(***************************************************************************)
NotStranded ==
  set # 0 /\ val = 0 /\ inside = {} =>
    orphan \/ \E p \in Proc : pc[p] = "setall" /\ sid[p] = set

(***************************************************************************)
(* "if pause is set then do not return until the semiphore is acquired"    *)
(* (src/semaphore.c:167-168), and then it does return: if every process    *)
(* that is inside leaves or dies some time, one waiting in P gets in, or   *)
(* is told that the semaphore is gone, unless the creator died.            *)
(***************************************************************************)
WaiterServed ==
  (\A p \in Proc : []<>(p \notin inside)) =>
    \A p \in Proc : (AtSemop(p) /\ call[p] = "P") ~> (pc[p] # "semop" \/ orphan)

(***************************************************************************)
(* "if you set pause to 0 and call P() and your return is 0, that means    *)
(* nobody was in the area the semaphore had locked"                        *)
(* (src/semaphore.c:148-152).                                              *)
(***************************************************************************)
TryFindsNobody ==
  [][ \A p \in Proc : call[p] = "try" /\ inside' = inside \cup {p} /\ p \notin inside
        => inside = {} ]_semVars
=============================================================================
