--------------------------- MODULE OptimisticLock ---------------------------
(***************************************************************************)
(* The version lock of a data object (synchronization/optimistic_lock.h)   *)
(* as the workers use it: Worker::execute_optimistic_read runs a read-only *)
(* task between two loads of the version and re-runs it, restored from the *)
(* worker's task stack, until both loads agree; a writing task runs        *)
(* between lock() and unlock().                                            *)
(*                                                                         *)
(* Every load, compare-exchange and fetch_add of the version is one step,  *)
(* and so is every access of a task to one of the object's two words.      *)
(***************************************************************************)
EXTENDS Integers

CONSTANTS
    Readers,         \* workers executing read-only tasks on the object
    Writers,         \* workers executing writing tasks on the object
    VersionModulus,  \* 2^32 in the code: version_t is an unsigned 32-bit integer
    OvertakeBound,   \* writes that may complete while one read is in progress
    Value, Modify, Initial

(* A version keeps two bits for the lock, and a read that is overtaken by  *)
(* VersionModulus \div 4 writes sees the version it started with again.    *)
ASSUME VersionAssumption ==
    /\ VersionModulus \in Nat /\ VersionModulus > 4
    /\ VersionModulus % 4 = 0
    /\ OvertakeBound \in Nat
    /\ 4 * OvertakeBound < VersionModulus

ASSUME WorkerAssumption == Readers \cap Writers = {}

ASSUME ValueAssumption ==
    /\ Modify \in [Value -> Value]
    /\ Initial \in Value

VARIABLES
    single,    \* TRUE: lock<true> (ScheduleWriter), FALSE: lock<false> (OLFIT)
    version,   \* OptimisticLock::_version
    lo, hi,    \* the two words of the object
    pc,        \* where each worker is
    seen,      \* the version each worker loaded last
    task,      \* each reader's task: what it read, how often its body ran
    stack,     \* TaskStack::_data of each reader
    copy,      \* the value a writing task works with
    overtaken  \* writes completed since each reader loaded its version

vars == <<single, version, lo, hi, pc, seen, task, stack, copy, overtaken>>

Workers == Readers \cup Writers
FreshTask == [words |-> <<Initial, Initial>>, runs |-> 0]
ReaderPC == {"idle", "version", "readlo", "readhi", "validate", "done"}
WriterPC == {"idle", "load", "cas", "read", "writelo", "writehi", "unlock"}

(* is_locked: bit 1 of the version. *)
IsLocked(v) == (v \div 2) % 2 = 1

(* lock and unlock both add 2 to an unsigned 32-bit integer. *)
NextVersion(v) == (v + 2) % VersionModulus

Init ==
    /\ single \in BOOLEAN
    /\ version = 4
    /\ lo = Initial /\ hi = Initial
    /\ pc = [w \in Workers |-> "idle"]
    /\ seen = [w \in Workers |-> 0]
    /\ task = [r \in Readers |-> FreshTask]
    /\ stack = [r \in Readers |-> FreshTask]
    /\ copy = [w \in Writers |-> Initial]
    /\ overtaken = [r \in Readers |-> 0]

Goto(w, from, to) ==
    /\ pc[w] = from
    /\ pc' = [pc EXCEPT ![w] = to]
    /\ UNCHANGED single

Reading(r) == pc[r] \in {"readlo", "readhi", "validate"}

-----------------------------------------------------------------------------
(* The reader: Worker::execute_optimistic_read. *)

(* task_stack.save. *)
Save(r) ==
    /\ Goto(r, "idle", "version")
    /\ task' = [task EXCEPT ![r] = FreshTask]
    /\ stack' = [stack EXCEPT ![r] = FreshTask]
    /\ UNCHANGED <<version, lo, hi, seen, copy, overtaken>>

(* Mutant: the version is loaded once, locked or not. *)
ReadAnyVersion(r) ==
    /\ Goto(r, "version", "readlo")
    /\ seen' = [seen EXCEPT ![r] = version]
    /\ overtaken' = [overtaken EXCEPT ![r] = 0]
    /\ UNCHANGED <<version, lo, hi, task, stack, copy>>

(* read_valid: a load that finds the version locked is followed by another. *)
ReadValid(r) ==
    /\ ~IsLocked(version)
    /\ Goto(r, "version", "readlo")
    /\ seen' = [seen EXCEPT ![r] = version]
    /\ overtaken' = [overtaken EXCEPT ![r] = 0]
    /\ UNCHANGED <<version, lo, hi, task, stack, copy>>

(* task->execute: the task keeps what it reads in itself. *)
ExecuteReadLo(r) ==
    /\ Goto(r, "readlo", "readhi")
    /\ task' = [task EXCEPT ![r] = [words |-> <<lo, @.words[2]>>, runs |-> @.runs + 1]]
    /\ UNCHANGED <<version, lo, hi, seen, stack, copy, overtaken>>

ExecuteReadHi(r) ==
    /\ Goto(r, "readhi", "validate")
    /\ task' = [task EXCEPT ![r] = [words |-> <<@.words[1], hi>>, runs |-> @.runs]]
    /\ UNCHANGED <<version, lo, hi, seen, stack, copy, overtaken>>

(* Mutant: the second load of the version is not compared. *)
AcceptUnchecked(r) ==
    /\ Goto(r, "validate", "done")
    /\ UNCHANGED <<version, lo, hi, seen, task, stack, copy, overtaken>>

(* is_version_valid: the version is still the one loaded before. *)
Accept(r) ==
    /\ version = seen[r]
    /\ Goto(r, "validate", "done")
    /\ UNCHANGED <<version, lo, hi, seen, task, stack, copy, overtaken>>

(* Mutant: the task is run again as the rejected run left it. *)
RetryWithoutRestore(r) ==
    /\ version # seen[r]
    /\ Goto(r, "validate", "version")
    /\ UNCHANGED <<version, lo, hi, seen, task, stack, copy, overtaken>>

(* Mutant: the version is loaded once, before the loop. *)
RetryStale(r) ==
    /\ version # seen[r]
    /\ Goto(r, "validate", "readlo")
    /\ task' = [task EXCEPT ![r] = stack[r]]
    /\ UNCHANGED <<version, lo, hi, seen, stack, copy, overtaken>>

(* The version moved: restore the task from the stack and start over. *)
Retry(r) ==
    /\ version # seen[r]
    /\ Goto(r, "validate", "version")
    /\ task' = [task EXCEPT ![r] = stack[r]]
    /\ UNCHANGED <<version, lo, hi, seen, stack, copy, overtaken>>

(* The worker leaves the completed task behind and takes another one. *)
Leave(r) ==
    /\ Goto(r, "done", "idle")
    /\ UNCHANGED <<version, lo, hi, seen, task, stack, copy, overtaken>>

ReaderStep(r) ==
    \/ ReadValid(r) \/ ExecuteReadLo(r) \/ ExecuteReadHi(r)
    \/ Accept(r) \/ Retry(r) \/ Leave(r)

-----------------------------------------------------------------------------
(* The writer: lock, task->execute, unlock. *)

(* No read in progress is overtaken more often than OvertakeBound allows. *)
MayOvertake == \A r \in Readers : Reading(r) => overtaken[r] < OvertakeBound

(* lock<true>: fetch_add, no test. The scheduler sends all writing tasks   *)
(* of the object to one channel, as Tasking shows: one runs at a time.     *)
LockSingle(w) ==
    /\ single
    /\ \A v \in Writers : pc[v] = "idle"
    /\ MayOvertake
    /\ Goto(w, "idle", "read")
    /\ version' = NextVersion(version)
    /\ UNCHANGED <<lo, hi, seen, task, stack, copy, overtaken>>

(* lock<false>: try_lock until it succeeds. *)
LockBegin(w) ==
    /\ ~single
    /\ Goto(w, "idle", "load")
    /\ UNCHANGED <<version, lo, hi, seen, task, stack, copy, overtaken>>

(* try_lock: read_valid waits for a version that is not locked, ... *)
TryLockLoad(w) ==
    /\ ~IsLocked(version)
    /\ Goto(w, "load", "cas")
    /\ seen' = [seen EXCEPT ![w] = version]
    /\ UNCHANGED <<version, lo, hi, task, stack, copy, overtaken>>

(* ... then compare_exchange it with the next one. *)
TryLockSucceed(w) ==
    /\ MayOvertake
    /\ version = seen[w]
    /\ Goto(w, "cas", "read")
    /\ version' = NextVersion(version)
    /\ UNCHANGED <<lo, hi, seen, task, stack, copy, overtaken>>

TryLockFail(w) ==
    /\ version # seen[w]
    /\ Goto(w, "cas", "load")
    /\ UNCHANGED <<version, lo, hi, seen, task, stack, copy, overtaken>>

(* A writing task reads the object and stores both words anew. *)
ExecuteRead(w) ==
    /\ Goto(w, "read", "writelo")
    /\ copy' = [copy EXCEPT ![w] = Modify[lo]]
    /\ UNCHANGED <<version, lo, hi, seen, task, stack, overtaken>>

ExecuteWriteLo(w) ==
    /\ Goto(w, "writelo", "writehi")
    /\ lo' = copy[w]
    /\ UNCHANGED <<version, hi, seen, task, stack, copy, overtaken>>

ExecuteWriteHi(w) ==
    /\ Goto(w, "writehi", "unlock")
    /\ hi' = copy[w]
    /\ UNCHANGED <<version, lo, seen, task, stack, copy, overtaken>>

(* unlock: fetch_add(0b10). *)
Unlock(w) ==
    /\ Goto(w, "unlock", "idle")
    /\ version' = NextVersion(version)
    /\ overtaken' = [r \in Readers |-> IF Reading(r) THEN overtaken[r] + 1 ELSE 0]
    /\ UNCHANGED <<lo, hi, seen, task, stack, copy>>

WriterStep(w) ==
    \/ TryLockLoad(w) \/ TryLockSucceed(w) \/ TryLockFail(w)
    \/ ExecuteRead(w) \/ ExecuteWriteLo(w) \/ ExecuteWriteHi(w) \/ Unlock(w)

Next ==
    \/ \E r \in Readers : Save(r) \/ ReaderStep(r)
    \/ \E w \in Writers : LockSingle(w) \/ LockBegin(w) \/ WriterStep(w)

Spec == Init /\ [][Next]_vars

(* Workers are threads of their own and keep running; nothing forces a new *)
(* task to arrive, so beginning one is not fair.                           *)
Fairness ==
    /\ \A r \in Readers : WF_vars(ReaderStep(r))
    /\ \A w \in Writers : WF_vars(WriterStep(w))

FairSpec == Spec /\ Fairness
-----------------------------------------------------------------------------

(* All variables stay in range; the version in particular never leaves the *)
(* range of version_t.                                                     *)
TypeOK ==
    /\ single \in BOOLEAN
    /\ version \in 0 .. VersionModulus - 1
    /\ lo \in Value /\ hi \in Value
    /\ pc \in [Workers -> ReaderPC \cup WriterPC]
    /\ \A r \in Readers : pc[r] \in ReaderPC
    /\ \A w \in Writers : pc[w] \in WriterPC
    /\ seen \in [Workers -> 0 .. VersionModulus - 1]
    /\ task \in [Readers -> [words : Value \X Value, runs : Nat]]
    /\ stack \in [Readers -> {FreshTask}]
    /\ copy \in [Writers -> Value]
    /\ overtaken \in [Readers -> 0 .. OvertakeBound]

(* A read-only task whose version check passed (worker.cpp, the return in  *)
(* execute_optimistic_read) holds two words of one and the same value: it  *)
(* never overlapped a writing task, even though it took no lock.           *)
AcceptedReadIsSnapshot ==
    \A r \in Readers : pc[r] = "done" => task[r].words[1] = task[r].words[2]

(* However often a read was rejected, the task that completes carries the  *)
(* traces of exactly one execution: task_stack.restore undid the others.   *)
AcceptedTaskRanOnce ==
    \A r \in Readers : pc[r] = "done" => task[r].runs = 1

Holding(w) == pc[w] \in {"read", "writelo", "writehi", "unlock"}

(* Two writing tasks are never between lock() and unlock() together, and   *)
(* the version tells every reader of the one that is.                      *)
WritersExclude ==
    /\ \A v, w \in Writers : Holding(v) /\ Holding(w) => v = w
    /\ (\E w \in Writers : Holding(w)) <=> IsLocked(version)

Result(r) == IF pc[r] = "done" THEN task[r].words ELSE <<>>

Atomic == INSTANCE AtomicResource
            WITH value <- hi, result <- [r \in Readers |-> Result(r)]

(* The version lock implements an atomic object: the write of a task takes *)
(* effect at its last store, a read at its successful validation, and no   *)
(* update is lost.                                                         *)
ImplementsAtomicResource == Atomic!ASpec

(* Once writing tasks stop arriving, every read that began is accepted:    *)
(* the retry loop of execute_optimistic_read terminates, and the version   *)
(* is not left locked behind.                                              *)
ReadsComplete ==
    <>[](\A w \in Writers : pc[w] = "idle")
        => \A r \in Readers : (pc[r] = "version") ~> (pc[r] = "done")

(* A writing task that has the lock, or waits for one that has it, brings  *)
(* some writing task to its end: lock<false> cannot block all writers.     *)
SomeWriterFinishes ==
    \A w \in Writers :
        (pc[w] # "idle") ~> (\E v \in Writers : pc[v] = "unlock")
=============================================================================
