----------------------- MODULE ResourceInterfaceProofs -----------------------
(* The latches of a data object, for every set of workers and every modulus  *)
(* of the version: the version lock gives its readers snapshots, and all     *)
(* three latches act as if they were taken in one instant.                   *)
EXTENDS ResourceInterface, FiniteSetTheorems, TLAPS

-----------------------------------------------------------------------------
(* OptimisticLock. *)

(* v advanced by d, for d below the modulus. *)
Plus(v, d) == IF v + d < VersionModulus THEN v + d ELSE v + d - VersionModulus

USE DEF Workers, ReaderPC, WriterPC, Goto, Reading, Holding, FreshTask

(* Adding two to a version, with the wrap-around of version_t. *)
LEMMA NextVersionIsPlus ==
    ASSUME NEW v \in 0 .. VersionModulus - 1
    PROVE  NextVersion(v) = Plus(v, 2)
  <1>1. CASE v + 2 < VersionModulus
    BY <1>1, VersionAssumption DEF NextVersion, Plus
  <1>2. CASE v + 2 >= VersionModulus
    BY <1>2, VersionAssumption DEF NextVersion, Plus
  <1>3. QED BY <1>1, <1>2, VersionAssumption


(* The next version is a version again: the wrap-around stays in             *)
(* version_t.                                                                *)
LEMMA NextVersionInRange ==
    ASSUME NEW v \in 0 .. VersionModulus - 1
    PROVE  NextVersion(v) \in 0 .. VersionModulus - 1
  BY NextVersionIsPlus, VersionAssumption DEF Plus

(* Whether the version is locked decides the lock bit of the next one. *)
LEMMA NextVersionToggles ==
    ASSUME NEW v \in 0 .. VersionModulus - 1
    PROVE  IsLocked(NextVersion(v)) <=> ~IsLocked(v)
  <1>1. Plus(v, 2) \in 0 .. VersionModulus - 1
    BY VersionAssumption DEF Plus
  <1>2. VersionModulus % 4 = 0 /\ VersionModulus \in Nat
    BY VersionAssumption
  <1>3. IsLocked(Plus(v, 2)) <=> ~IsLocked(v)
    BY <1>2 DEF Plus, IsLocked
  <1>4. QED BY <1>3, NextVersionIsPlus

-------------------------------------------------------------------------------

(* The words of the object and the working copy of the writing task that     *)
(* holds the lock.                                                           *)
ObjectInv ==
    /\ \A w \in Writers :
        /\ pc[w] = "writelo" => lo = hi /\ copy[w] = Modify[lo]
        /\ pc[w] = "writehi" => copy[w] = lo /\ lo = Modify[hi]
    /\ (\A w \in Writers : pc[w] # "writehi") => lo = hi

Locked == IF \E w \in Writers : Holding(w) THEN 1 ELSE 0

(* How far the version is ahead of the one a reader loaded. *)
Ahead(r) == 4 * overtaken[r] + 2 * Locked

(* The version a reader loaded is behind the current one by exactly the      *)
(* writes that have overtaken it, and these are too few to wrap around.      *)
VersionInv ==
    \A r \in Readers : Reading(r) =>
        /\ overtaken[r] + Locked <= OvertakeBound
        /\ version = Plus(seen[r], Ahead(r))

(* A reader that has not been overtaken holds the words of the object. *)
WordsInv ==
    \A r \in Readers : Reading(r) /\ Ahead(r) = 0 =>
        /\ pc[r] \in {"readhi", "validate"} => task[r].words[1] = lo
        /\ pc[r] = "validate" => task[r].words[2] = hi

RunsInv ==
    \A r \in Readers :
        /\ pc[r] \in {"version", "readlo"} => task[r] = FreshTask
        /\ pc[r] \in {"readhi", "validate", "done"} => task[r].runs = 1

(* A compare-exchange only succeeds from an unlocked version. *)
SeenInv == \A w \in Writers : pc[w] = "cas" => ~IsLocked(seen[w])

Inv ==
    /\ TypeOK
    /\ WritersExclude
    /\ ObjectInv
    /\ VersionInv
    /\ WordsInv
    /\ RunsInv
    /\ SeenInv
    /\ AcceptedReadIsSnapshot

(* The invariant holds of a new lock whose tasks have not begun. *)
LEMMA InitInv == Init => Inv
  <1> SUFFICES ASSUME Init PROVE Inv
    OBVIOUS
  <1> USE VersionAssumption, WorkerAssumption, ValueAssumption DEF Init
  <1>1. TypeOK
    BY DEF TypeOK
  <1>2. ~IsLocked(version)
    BY DEF IsLocked
  <1>3. WritersExclude
    BY <1>2 DEF WritersExclude
  <1>4. ObjectInv /\ VersionInv /\ WordsInv /\ RunsInv /\ SeenInv /\ AcceptedReadIsSnapshot
    BY DEF ObjectInv, VersionInv, WordsInv, RunsInv, SeenInv, AcceptedReadIsSnapshot
  <1>5. QED BY <1>1, <1>3, <1>4 DEF Inv

(* No step of a reading or writing task leaves the types. *)
LEMMA TypeStep == Inv /\ [Next]_vars => TypeOK'
  <1> SUFFICES ASSUME Inv, [Next]_vars PROVE TypeOK'
    OBVIOUS
  <1>0. TypeOK BY DEF Inv
  <1> USE VersionAssumption, WorkerAssumption, ValueAssumption, <1>0 DEF TypeOK
  <1>1. ASSUME NEW r \in Readers, Save(r) PROVE TypeOK'
    BY <1>1 DEF Save
  <1>2. ASSUME NEW r \in Readers, ReadValid(r) PROVE TypeOK'
    BY <1>2 DEF ReadValid
  <1>3. ASSUME NEW r \in Readers, ExecuteReadLo(r) PROVE TypeOK'
    BY <1>3 DEF ExecuteReadLo
  <1>4. ASSUME NEW r \in Readers, ExecuteReadHi(r) PROVE TypeOK'
    BY <1>4 DEF ExecuteReadHi
  <1>5. ASSUME NEW r \in Readers, Accept(r) PROVE TypeOK'
    BY <1>5 DEF Accept
  <1>6. ASSUME NEW r \in Readers, Retry(r) PROVE TypeOK'
    BY <1>6 DEF Retry
  <1>7. ASSUME NEW r \in Readers, Leave(r) PROVE TypeOK'
    BY <1>7 DEF Leave
  <1>8. ASSUME NEW w \in Writers, LockSingle(w) PROVE TypeOK'
    BY <1>8, NextVersionInRange DEF LockSingle
  <1>9. ASSUME NEW w \in Writers, LockBegin(w) PROVE TypeOK'
    BY <1>9 DEF LockBegin
  <1>10. ASSUME NEW w \in Writers, TryLockLoad(w) PROVE TypeOK'
    BY <1>10 DEF TryLockLoad
  <1>11. ASSUME NEW w \in Writers, TryLockSucceed(w) PROVE TypeOK'
    BY <1>11, NextVersionInRange DEF TryLockSucceed
  <1>12. ASSUME NEW w \in Writers, TryLockFail(w) PROVE TypeOK'
    BY <1>12 DEF TryLockFail
  <1>13. ASSUME NEW w \in Writers, ExecuteRead(w) PROVE TypeOK'
    BY <1>13 DEF ExecuteRead
  <1>14. ASSUME NEW w \in Writers, ExecuteWriteLo(w) PROVE TypeOK'
    BY <1>14 DEF ExecuteWriteLo
  <1>15. ASSUME NEW w \in Writers, ExecuteWriteHi(w) PROVE TypeOK'
    BY <1>15 DEF ExecuteWriteHi
  <1>16. ASSUME NEW w \in Writers, Unlock(w) PROVE TypeOK'
    <2>1. \A r \in Readers : Reading(r) => overtaken[r] < OvertakeBound
      BY <1>16 DEF Unlock, Inv, VersionInv, Locked
    <2>2. QED BY <1>16, <2>1, NextVersionInRange DEF Unlock
  <1>17. CASE UNCHANGED vars
    BY <1>17 DEF vars
  <1>18. QED
    BY <1>1, <1>2, <1>3, <1>4, <1>5, <1>6, <1>7, <1>8, <1>9, <1>10, <1>11,
       <1>12, <1>13, <1>14, <1>15, <1>16, <1>17
    DEF Next, ReaderStep, WriterStep

(* A step that moves no writing task and leaves the object alone preserves   *)
(* what is said of them.                                                     *)
LEMMA ObjectUnchanged ==
    ASSUME Inv, UNCHANGED <<version, lo, hi, copy>>,
           \A w \in Writers : pc'[w] = pc[w]
    PROVE  WritersExclude' /\ ObjectInv' /\ Locked' = Locked
  BY DEF Inv, WritersExclude, ObjectInv, Locked, IsLocked

(* A passed version check means the reader was not overtaken, and so holds   *)
(* the words the object has now.                                             *)
LEMMA AcceptSeesHi ==
    ASSUME Inv, NEW r \in Readers, Accept(r)
    PROVE  lo = hi /\ task[r].words[1] = hi /\ task[r].words[2] = hi
  <1>1. Ahead(r) = 0 /\ Locked = 0
    <2>1. overtaken[r] + Locked <= OvertakeBound /\ version = Plus(version, Ahead(r))
      BY DEF Accept, Inv, VersionInv
    <2>2. overtaken[r] \in Nat /\ Locked \in {0, 1} /\ version \in Int
      BY VersionAssumption DEF Locked, Inv, TypeOK
    <2>3. VersionModulus \in Nat /\ OvertakeBound \in Nat
          /\ 4 * OvertakeBound < VersionModulus
      BY VersionAssumption
    <2>4. QED BY ONLY <2>1, <2>2, <2>3 DEF Ahead, Plus
  <1>2. lo = hi
    BY <1>1 DEF Inv, ObjectInv, Locked
  <1>3. QED BY <1>1, <1>2 DEF Accept, Inv, WordsInv

(* The steps of Worker::execute_optimistic_read keep the invariant. *)
LEMMA ReaderStepInv ==
    ASSUME Inv, NEW r \in Readers, Save(r) \/ ReaderStep(r)
    PROVE  Inv'
  <1>0. TypeOK /\ TypeOK'
    <2>1. Next BY DEF Next
    <2>2. QED BY <2>1, TypeStep DEF Inv
  <1>1. WritersExclude' /\ ObjectInv' /\ Locked' = Locked
    <2>1. /\ UNCHANGED <<version, lo, hi, copy>>
          /\ \A w \in Writers : pc'[w] = pc[w]
      BY <1>0, WorkerAssumption DEF TypeOK, Save, ReaderStep, ReadValid,
         ExecuteReadLo, ExecuteReadHi, Accept, Retry, Leave
    <2>2. QED BY <2>1, ObjectUnchanged
  <1> USE <1>0, <1>1 DEF TypeOK
  <1>2. CASE Save(r)
    <2>1. VersionInv'
      BY <1>2 DEF Save, Inv, VersionInv, Ahead
    <2>2. WordsInv'
      BY <1>2 DEF Save, Inv, WordsInv, Ahead
    <2>3. RunsInv'
      BY <1>2 DEF Save, Inv, RunsInv
    <2>4. SeenInv' /\ AcceptedReadIsSnapshot'
      BY <1>2, WorkerAssumption DEF Save, Inv, SeenInv, AcceptedReadIsSnapshot
    <2>5. QED BY <2>1, <2>2, <2>3, <2>4 DEF Inv
  <1>3. CASE ReadValid(r)
    <2>1. Locked = 0 /\ overtaken'[r] = 0 /\ seen'[r] = version /\ version' = version
      BY <1>3 DEF ReadValid, Locked, Inv, WritersExclude
    <2>2. Ahead(r)' = 0 /\ version' = Plus(seen[r], Ahead(r))'
      BY <2>1, VersionAssumption DEF Ahead, Plus
    <2>3. VersionInv' /\ WordsInv'
      BY <1>3, <2>1, <2>2, VersionAssumption
      DEF ReadValid, Inv, VersionInv, WordsInv, Ahead
    <2>4. QED
      BY <1>3, <2>3 DEF ReadValid, Inv, RunsInv, SeenInv, AcceptedReadIsSnapshot
  <1>4. CASE ExecuteReadLo(r)
    <2>1. VersionInv'
      BY <1>4 DEF ExecuteReadLo, Inv, VersionInv, Ahead
    <2>2. WordsInv'
      BY <1>4 DEF ExecuteReadLo, Inv, WordsInv, Ahead
    <2>3. RunsInv'
      BY <1>4 DEF ExecuteReadLo, Inv, RunsInv
    <2>4. SeenInv' /\ AcceptedReadIsSnapshot'
      BY <1>4, WorkerAssumption DEF ExecuteReadLo, Inv, SeenInv, AcceptedReadIsSnapshot
    <2>5. QED BY <2>1, <2>2, <2>3, <2>4 DEF Inv
  <1>5. CASE ExecuteReadHi(r)
    <2>1. VersionInv'
      BY <1>5 DEF ExecuteReadHi, Inv, VersionInv, Ahead
    <2>2. WordsInv'
      BY <1>5 DEF ExecuteReadHi, Inv, WordsInv, Ahead
    <2>3. RunsInv'
      BY <1>5 DEF ExecuteReadHi, Inv, RunsInv
    <2>4. SeenInv' /\ AcceptedReadIsSnapshot'
      BY <1>5, WorkerAssumption DEF ExecuteReadHi, Inv, SeenInv, AcceptedReadIsSnapshot
    <2>5. QED BY <2>1, <2>2, <2>3, <2>4 DEF Inv
  <1>6. CASE Accept(r)
    <2>1. lo = hi /\ task[r].words[1] = hi /\ task[r].words[2] = hi
      BY <1>6, AcceptSeesHi
    <2>3. AcceptedReadIsSnapshot'
      BY <1>6, <2>1 DEF Accept, Inv, AcceptedReadIsSnapshot
    <2>4. QED
      BY <1>6, <2>3 DEF Accept, Inv, VersionInv, WordsInv, RunsInv, SeenInv, Ahead
  <1>7. CASE Retry(r)
    <2>1. VersionInv'
      BY <1>7 DEF Retry, Inv, VersionInv, Ahead
    <2>2. WordsInv'
      BY <1>7 DEF Retry, Inv, WordsInv, Ahead
    <2>3. RunsInv'
      BY <1>7 DEF Retry, Inv, RunsInv
    <2>4. SeenInv' /\ AcceptedReadIsSnapshot'
      BY <1>7, WorkerAssumption DEF Retry, Inv, SeenInv, AcceptedReadIsSnapshot
    <2>5. QED BY <2>1, <2>2, <2>3, <2>4 DEF Inv
  <1>8. CASE Leave(r)
    <2>1. VersionInv'
      BY <1>8 DEF Leave, Inv, VersionInv, Ahead
    <2>2. WordsInv'
      BY <1>8 DEF Leave, Inv, WordsInv, Ahead
    <2>3. RunsInv'
      BY <1>8 DEF Leave, Inv, RunsInv
    <2>4. SeenInv' /\ AcceptedReadIsSnapshot'
      BY <1>8, WorkerAssumption DEF Leave, Inv, SeenInv, AcceptedReadIsSnapshot
    <2>5. QED BY <2>1, <2>2, <2>3, <2>4 DEF Inv
  <1>9. QED
    BY <1>2, <1>3, <1>4, <1>5, <1>6, <1>7, <1>8 DEF ReaderStep

(* A step of a writing task that neither takes nor gives back the lock.      *)
LEMMA LockUnchanged ==
    ASSUME Inv, TypeOK', UNCHANGED <<version, task, overtaken>>,
           \A r \in Readers : pc'[r] = pc[r] /\ seen'[r] = seen[r],
           \A v \in Writers : Holding(v)' <=> Holding(v),
           Locked = 0 => UNCHANGED <<lo, hi>>,
           ObjectInv', SeenInv'
    PROVE  Inv'
  <1>1. Locked' = Locked
    BY DEF Locked
  <1>2. WritersExclude'
    BY DEF Inv, WritersExclude, IsLocked
  <1>3. VersionInv'
    BY <1>1 DEF Inv, VersionInv, Ahead, Plus
  <1>4. WordsInv'
    <2> SUFFICES ASSUME NEW r \in Readers, Reading(r), Ahead(r)' = 0
                 PROVE  /\ pc[r] \in {"readhi", "validate"} => task[r].words[1] = lo'
                        /\ pc[r] = "validate" => task[r].words[2] = hi'
      BY DEF WordsInv
    <2>1. Ahead(r) = 0 /\ Locked = 0
      BY <1>1, SMTT(120) DEF Ahead, Locked, Inv, TypeOK
    <2>2. QED BY <2>1 DEF Inv, WordsInv
  <1>5. RunsInv' /\ AcceptedReadIsSnapshot'
    BY DEF Inv, RunsInv, AcceptedReadIsSnapshot
  <1>6. QED BY <1>2, <1>3, <1>4, <1>5 DEF Inv

(* lock<true> by the only writer, or lock<false> with its compare-exchange.  *)
LEMMA LockInv ==
    ASSUME Inv, TypeOK', NEW w \in Writers, LockSingle(w) \/ TryLockSucceed(w),
           ~IsLocked(version)
    PROVE  Inv'
  <1>0. TypeOK /\ \A v \in Writers : ~Holding(v)
    BY DEF Inv, WritersExclude
  <1>1. /\ MayOvertake
        /\ version' = NextVersion(version)
        /\ pc' = [pc EXCEPT ![w] = "read"]
        /\ UNCHANGED <<lo, hi, seen, task, stack, copy, overtaken>>
    BY DEF LockSingle, TryLockSucceed
  <1>2. IsLocked(version')
    BY <1>0, <1>1, NextVersionToggles DEF TypeOK
  <1>3. WritersExclude' /\ Locked = 0 /\ Locked' = 1
    BY <1>0, <1>1, <1>2 DEF WritersExclude, Locked, TypeOK, IsLocked
  <1>4. \A r \in Readers : pc'[r] = pc[r]
    BY <1>0, <1>1, WorkerAssumption DEF TypeOK
  <1>5. ObjectInv'
    BY <1>0, <1>1 DEF Inv, ObjectInv, TypeOK
  <1>6. VersionInv'
    <2>0. \A r \in Readers : Ahead(r)' = 4 * overtaken[r] + 2
      BY <1>1, <1>3 DEF Ahead
    <2> SUFFICES ASSUME NEW r \in Readers, Reading(r)
                 PROVE  /\ overtaken[r] + 1 <= OvertakeBound
                        /\ version' = Plus(seen[r], 4 * overtaken[r] + 2)
      BY <1>1, <1>3, <1>4, <2>0 DEF VersionInv
    <2>1. overtaken[r] < OvertakeBound /\ version = Plus(seen[r], 4 * overtaken[r])
      BY <1>0, <1>1, <1>3, SMTT(120) DEF MayOvertake, Inv, VersionInv, Ahead, TypeOK
    <2>2. version' = Plus(version, 2)
      BY <1>0, <1>1, NextVersionIsPlus DEF TypeOK
    <2>3. QED
      BY <1>0, <2>1, <2>2, VersionAssumption DEF Plus, TypeOK
  <1>7. WordsInv'
    <2>1. \A r \in Readers : Ahead(r)' # 0
      BY <1>0, <1>1, <1>3 DEF Ahead, TypeOK
    <2>2. QED BY <2>1 DEF WordsInv
  <1>8. RunsInv' /\ SeenInv' /\ AcceptedReadIsSnapshot'
    <2>1. UNCHANGED <<task, seen>>
      BY <1>1
    <2>2. RunsInv' /\ AcceptedReadIsSnapshot'
      BY <1>4, <2>1 DEF Inv, RunsInv, AcceptedReadIsSnapshot
    <2>3. \A v \in Writers : pc'[v] = "cas" => pc[v] = "cas"
      BY <1>0, <1>1 DEF TypeOK
    <2>4. SeenInv'
      BY <2>1, <2>3 DEF Inv, SeenInv
    <2>5. QED BY <2>2, <2>4
  <1>9. QED BY <1>3, <1>5, <1>6, <1>7, <1>8 DEF Inv

(* unlock makes the locked version an unlocked one, and only its holder      *)
(* calls it.                                                                 *)
LEMMA UnlockInv ==
    ASSUME Inv, TypeOK', NEW w \in Writers, Unlock(w)
    PROVE  Inv'
  <1>0. TypeOK /\ Holding(w) /\ IsLocked(version) /\ \A v \in Writers : Holding(v) => v = w
    BY DEF Inv, WritersExclude, Unlock
  <1>1. /\ version' = NextVersion(version)
        /\ pc' = [pc EXCEPT ![w] = "idle"]
        /\ overtaken' = [r \in Readers |-> IF Reading(r) THEN overtaken[r] + 1 ELSE 0]
        /\ UNCHANGED <<lo, hi, seen, task, stack, copy>>
    BY DEF Unlock
  <1>2. ~IsLocked(version')
    BY <1>0, <1>1, NextVersionToggles DEF TypeOK
  <1>3. WritersExclude' /\ Locked = 1 /\ Locked' = 0
    BY <1>0, <1>1, <1>2 DEF WritersExclude, Locked, TypeOK, IsLocked
  <1>4. \A r \in Readers : pc'[r] = pc[r]
    BY <1>0, <1>1, WorkerAssumption DEF TypeOK
  <1>5. ObjectInv'
    BY <1>0, <1>1 DEF Inv, ObjectInv, TypeOK, Unlock
  <1>6. VersionInv'
    <2> SUFFICES ASSUME NEW r \in Readers, Reading(r)
                 PROVE  /\ overtaken'[r] <= OvertakeBound
                        /\ version' = Plus(seen[r], 4 * overtaken'[r])
      BY <1>0, <1>1, <1>3, <1>4 DEF VersionInv, Ahead, Plus, TypeOK
    <2>1. overtaken[r] < OvertakeBound /\ version = Plus(seen[r], 4 * overtaken[r] + 2)
      <3>1. Ahead(r) = 4 * overtaken[r] + 2
        BY <1>3 DEF Ahead
      <3>2. QED
        BY <1>0, <1>3, <3>1, VersionAssumption DEF Inv, VersionInv, TypeOK
    <2>2. version' = Plus(version, 2) /\ overtaken'[r] = overtaken[r] + 1
      BY <1>0, <1>1, NextVersionIsPlus DEF TypeOK
    <2>3. QED
      BY <1>0, <2>1, <2>2, VersionAssumption DEF Plus, TypeOK
  <1>7. WordsInv'
    <2>1. \A r \in Readers : Reading(r)' => Ahead(r)' # 0
      BY <1>0, <1>1, <1>3, <1>4 DEF Ahead, TypeOK
    <2>2. QED BY <2>1 DEF WordsInv
  <1>8. RunsInv' /\ SeenInv' /\ AcceptedReadIsSnapshot'
    BY <1>1, <1>4 DEF Inv, RunsInv, SeenInv, AcceptedReadIsSnapshot
  <1>9. QED BY <1>3, <1>5, <1>6, <1>7, <1>8 DEF Inv

(* The steps of a task under lock and unlock keep the invariant. *)
LEMMA WriterStepInv ==
    ASSUME Inv, NEW w \in Writers, LockSingle(w) \/ LockBegin(w) \/ WriterStep(w)
    PROVE  Inv'
  <1>0. TypeOK /\ TypeOK'
    <2>1. Next BY DEF Next
    <2>2. QED BY <2>1, TypeStep DEF Inv
  <1>1. \A v \in Writers : Holding(v) => Locked = 1
    BY DEF Locked
  <1> USE <1>0, WorkerAssumption DEF TypeOK
  <1>2. CASE LockSingle(w)
    <2>1. ~IsLocked(version)
      BY <1>2 DEF LockSingle, Inv, WritersExclude
    <2>2. QED BY <1>2, <2>1, LockInv
  <1>3. CASE TryLockSucceed(w)
    <2>1. ~IsLocked(version)
      BY <1>3 DEF TryLockSucceed, Inv, SeenInv
    <2>2. QED BY <1>3, <2>1, LockInv
  <1>4. CASE LockBegin(w)
    <2>1. ObjectInv' /\ SeenInv'
      BY <1>4 DEF LockBegin, Inv, ObjectInv, SeenInv, IsLocked
    <2>2. /\ UNCHANGED <<version, task, overtaken>>
          /\ \A r \in Readers : pc'[r] = pc[r] /\ seen'[r] = seen[r]
          /\ \A v \in Writers : Holding(v)' <=> Holding(v)
          /\ Locked = 0 => UNCHANGED <<lo, hi>>
      BY <1>4 DEF LockBegin
    <2>3. QED BY <2>1, <2>2, LockUnchanged
  <1>5. CASE TryLockLoad(w)
    <2>1. ObjectInv' /\ SeenInv'
      BY <1>5 DEF TryLockLoad, Inv, ObjectInv, SeenInv, IsLocked
    <2>2. /\ UNCHANGED <<version, task, overtaken>>
          /\ \A r \in Readers : pc'[r] = pc[r] /\ seen'[r] = seen[r]
          /\ \A v \in Writers : Holding(v)' <=> Holding(v)
          /\ Locked = 0 => UNCHANGED <<lo, hi>>
      BY <1>5 DEF TryLockLoad
    <2>3. QED BY <2>1, <2>2, LockUnchanged
  <1>6. CASE TryLockFail(w)
    <2>1. ObjectInv' /\ SeenInv'
      BY <1>6 DEF TryLockFail, Inv, ObjectInv, SeenInv, IsLocked
    <2>2. /\ UNCHANGED <<version, task, overtaken>>
          /\ \A r \in Readers : pc'[r] = pc[r] /\ seen'[r] = seen[r]
          /\ \A v \in Writers : Holding(v)' <=> Holding(v)
          /\ Locked = 0 => UNCHANGED <<lo, hi>>
      BY <1>6 DEF TryLockFail
    <2>3. QED BY <2>1, <2>2, LockUnchanged
  <1>7. CASE ExecuteRead(w)
    <2>1. ObjectInv' /\ SeenInv'
      BY <1>7, ValueAssumption DEF ExecuteRead, Inv, ObjectInv, SeenInv, IsLocked, WritersExclude
    <2>2. /\ UNCHANGED <<version, task, overtaken>>
          /\ \A r \in Readers : pc'[r] = pc[r] /\ seen'[r] = seen[r]
          /\ \A v \in Writers : Holding(v)' <=> Holding(v)
          /\ Locked = 0 => UNCHANGED <<lo, hi>>
      BY <1>1, <1>7 DEF ExecuteRead
    <2>3. QED BY <2>1, <2>2, LockUnchanged
  <1>8. CASE ExecuteWriteLo(w)
    <2>1. ObjectInv' /\ SeenInv'
      BY <1>8, ValueAssumption, SMTT(30) DEF ExecuteWriteLo, Inv, ObjectInv, SeenInv, IsLocked, WritersExclude
    <2>2. /\ UNCHANGED <<version, task, overtaken>>
          /\ \A r \in Readers : pc'[r] = pc[r] /\ seen'[r] = seen[r]
          /\ \A v \in Writers : Holding(v)' <=> Holding(v)
          /\ Locked = 0 => UNCHANGED <<lo, hi>>
      BY <1>1, <1>8 DEF ExecuteWriteLo
    <2>3. QED BY <2>1, <2>2, LockUnchanged
  <1>9. CASE ExecuteWriteHi(w)
    <2>1. ObjectInv' /\ SeenInv'
      BY <1>9, ValueAssumption DEF ExecuteWriteHi, Inv, ObjectInv, SeenInv, IsLocked, WritersExclude
    <2>2. /\ UNCHANGED <<version, task, overtaken>>
          /\ \A r \in Readers : pc'[r] = pc[r] /\ seen'[r] = seen[r]
          /\ \A v \in Writers : Holding(v)' <=> Holding(v)
          /\ Locked = 0 => UNCHANGED <<lo, hi>>
      BY <1>1, <1>9 DEF ExecuteWriteHi
    <2>3. QED BY <2>1, <2>2, LockUnchanged
  <1>10. CASE Unlock(w)
    BY <1>10, UnlockInv
  <1>11. QED
    BY <1>2, <1>3, <1>4, <1>5, <1>6, <1>7, <1>8, <1>9, <1>10 DEF WriterStep

(* The inductive invariant holds in every reachable state. *)
THEOREM Invariance == Spec => []Inv
  <1>1. Inv /\ [Next]_vars => Inv'
    <2> SUFFICES ASSUME Inv, [Next]_vars PROVE Inv'
      OBVIOUS
    <2>1. CASE Next
      BY <2>1, ReaderStepInv, WriterStepInv DEF Next
    <2>2. CASE UNCHANGED vars
      BY <2>2 DEF vars, Inv, TypeOK, WritersExclude, ObjectInv, VersionInv, WordsInv,
         RunsInv, SeenInv, AcceptedReadIsSnapshot, Ahead, Locked, Plus, IsLocked
    <2>3. QED BY <2>1, <2>2
  <1>2. QED BY <1>1, InitInv, PTL DEF Spec

(* Versions, words and positions of the tasks stay in their types. *)
THEOREM TypeCorrect == Spec => []TypeOK
  BY Invariance, PTL DEF Inv

(* A read accepted by the version check of execute_optimistic_read never     *)
(* mixes the words of two versions of the object.                            *)
THEOREM AcceptedReads == Spec => []AcceptedReadIsSnapshot
  BY Invariance, PTL DEF Inv

(* The task that completes after any number of rejected reads is the saved   *)
(* one, executed once.                                                       *)
THEOREM RunsOnce == Spec => []AcceptedTaskRanOnce
  <1>1. Inv => AcceptedTaskRanOnce
    BY DEF Inv, RunsInv, AcceptedTaskRanOnce
  <1>2. QED BY <1>1, Invariance, PTL

(* Writing tasks exclude each other under lock<true> as under lock<false>.   *)
THEOREM MutualExclusion == Spec => []WritersExclude
  BY Invariance, PTL DEF Inv

-------------------------------------------------------------------------------
(* The object behaves as AtomicResource: what a task does to it, or sees of  *)
(* it, happens at one instant.                                               *)

(* A step of a reading task is a read of the atomic object, or nothing to    *)
(* it.                                                                       *)
LEMMA ReaderRefines ==
    ASSUME Inv, Inv', NEW r \in Readers, Save(r) \/ ReaderStep(r)
    PROVE  [Atomic!ANext]_(Atomic!avars)
  <1>0. hi' = hi
    BY DEF Save, ReaderStep, ReadValid, ExecuteReadLo, ExecuteReadHi, Accept, Retry, Leave
  <1>1. CASE ~Accept(r) /\ ~Leave(r)
    <2>1. \A q \in Readers : Result(q)' = Result(q)
      <3>1. pc \in [Workers -> ReaderPC \cup WriterPC] /\ task \in [Readers -> [words : Value \X Value, runs : Nat]]
        BY DEF Inv, TypeOK
      <3>2. pc[r] # "done" /\ \E p \in ReaderPC \ {"done"} : pc' = [pc EXCEPT ![r] = p]
        BY <1>1 DEF Save, ReaderStep, ReadValid, ExecuteReadLo, ExecuteReadHi, Retry, Goto, ReaderPC
      <3>3. task' = task \/ \E x : task' = [task EXCEPT ![r] = x]
        BY <1>1 DEF Save, ReaderStep, ReadValid, ExecuteReadLo, ExecuteReadHi, Retry
      <3>4. r \in Workers /\ Readers \subseteq Workers
        BY DEF Workers
      <3>5. pc'[r] # "done" /\ \A q \in Readers \ {r} : pc'[q] = pc[q] /\ task'[q] = task[q]
        BY <3>1, <3>2, <3>3, <3>4
      <3> QED
        BY <3>2, <3>5 DEF Result
    <2>2. QED BY <1>0, <2>1 DEF Atomic!avars
  <1>2. CASE Accept(r)
    <2>1. Result(r) = <<>> /\ Result(r)' = <<hi, hi>>
      <3>1. task'[r].words[1] = hi /\ task'[r].words[2] = hi /\ pc'[r] = "done"
        BY <1>2, AcceptSeesHi DEF Inv, TypeOK, Accept
      <3>2. task'[r].words \in Value \X Value
        BY DEF Inv, TypeOK
      <3>3. QED BY <1>2, <3>1, <3>2 DEF Result, Accept
    <2>2. \A q \in Readers \ {r} : Result(q)' = Result(q)
      BY <1>2 DEF Inv, TypeOK, Accept, Result
    <2>3. Atomic!ARead(r)
      BY <1>0, <2>1, <2>2 DEF Atomic!ARead, Atomic!NoResult
    <2>4. QED BY <2>3 DEF Atomic!ANext
  <1>3. CASE Leave(r)
    <2>1. Result(r) # <<>> /\ Result(r)' = <<>>
      <3>1. task[r].words \in Value \X Value
        BY DEF Inv, TypeOK
      <3>2. task[r].words = <<task[r].words[1], task[r].words[2]>>
        BY <3>1
      <3>3. task[r].words # <<>>
        BY <3>2
      <3>4. QED BY <1>3, <3>3 DEF Inv, TypeOK, Leave, Result
    <2>2. \A q \in Readers \ {r} : Result(q)' = Result(q)
      BY <1>3 DEF Inv, TypeOK, Leave, Result
    <2>3. Atomic!AForget(r)
      BY <1>0, <2>1, <2>2 DEF Atomic!AForget, Atomic!NoResult
    <2>4. QED BY <2>3 DEF Atomic!ANext
  <1>4. QED BY <1>1, <1>2, <1>3

(* A step of a writing task is a write of the atomic object, or nothing to   *)
(* it.                                                                       *)
LEMMA WriterRefines ==
    ASSUME Inv, NEW w \in Writers, LockSingle(w) \/ LockBegin(w) \/ WriterStep(w)
    PROVE  [Atomic!ANext]_(Atomic!avars)
  <1>0. \A r \in Readers : Result(r)' = Result(r)
    BY WorkerAssumption DEF Inv, TypeOK, Result, LockSingle, LockBegin, WriterStep,
       TryLockLoad, TryLockSucceed, TryLockFail, ExecuteRead, ExecuteWriteLo,
       ExecuteWriteHi, Unlock
  <1>1. CASE ExecuteWriteHi(w)
    <2>1. hi' = Modify[hi]
      BY <1>1 DEF ExecuteWriteHi, Inv, ObjectInv
    <2>2. Atomic!AWrite
      BY <1>0, <2>1 DEF Atomic!AWrite
    <2>3. QED BY <2>2 DEF Atomic!ANext
  <1>2. CASE ~ExecuteWriteHi(w)
    <2>1. hi' = hi
      BY <1>2 DEF LockSingle, LockBegin, WriterStep, TryLockLoad, TryLockSucceed,
         TryLockFail, ExecuteRead, ExecuteWriteLo, Unlock
    <2>2. QED BY <1>0, <2>1 DEF Atomic!avars
  <1>3. QED BY <1>1, <1>2

(* The version lock implements an atomic object. *)
THEOREM Refinement == Spec => ImplementsAtomicResource
  <1>1. Init => Atomic!AInit
    BY DEF Init, Atomic!AInit, Atomic!NoResult, Result
  <1>2. Inv /\ Inv' /\ [Next]_vars => [Atomic!ANext]_(Atomic!avars)
    <2> SUFFICES ASSUME Inv, Inv', [Next]_vars
                 PROVE  [Atomic!ANext]_(Atomic!avars)
      OBVIOUS
    <2>1. CASE Next
      BY <2>1, ReaderRefines, WriterRefines DEF Next
    <2>2. CASE UNCHANGED vars
      BY <2>2 DEF vars, Atomic!avars, Result
    <2>3. QED BY <2>1, <2>2
  <1>3. QED
    BY <1>1, <1>2, Invariance, PTL DEF Spec, ImplementsAtomicResource, Atomic!ASpec

-----------------------------------------------------------------------------
(* Spinlock. *)

(* Whoever holds the latch has set the flag, and is alone. *)
SpinInv ==
    /\ flag \in BOOLEAN
    /\ spin \in [Workers -> Exclusive!Positions]
    /\ \A t \in Workers : spin[t] = "held" => flag
    /\ \A t, u \in Workers : spin[t] = "held" /\ spin[u] = "held" => t = u

LEMMA SpinInit == Exclusive!Init => SpinInv
BY DEF Exclusive!Init, SpinInv, Exclusive!Positions

LEMMA SpinStep == SpinInv /\ [Exclusive!Next]_(Exclusive!vars) => SpinInv'
<1> SUFFICES ASSUME SpinInv, [Exclusive!Next]_(Exclusive!vars) PROVE SpinInv'
  OBVIOUS
<1>1. CASE UNCHANGED Exclusive!vars
  BY <1>1 DEF SpinInv, Exclusive!vars
<1>2. ASSUME NEW t \in Workers, Exclusive!Want(t) \/ Exclusive!Load(t) \/ Exclusive!TryLockFails(t) PROVE SpinInv'
  BY <1>2 DEF SpinInv, Exclusive!Positions, Exclusive!Want, Exclusive!Load, Exclusive!TryLockFails, Exclusive!Goto
<1>3. ASSUME NEW t \in Workers, Exclusive!TryLock(t) PROVE SpinInv'
  BY <1>3 DEF SpinInv, Exclusive!Positions, Exclusive!TryLock, Exclusive!Goto
<1>4. ASSUME NEW t \in Workers, Exclusive!Unlock(t) PROVE SpinInv'
  BY <1>4 DEF SpinInv, Exclusive!Positions, Exclusive!Unlock, Exclusive!Goto
<1> QED
  BY <1>1, <1>2, <1>3, <1>4 DEF Exclusive!Next

SpinHeld == [t \in Workers |-> IF spin[t] = "held" THEN "exclusive" ELSE "none"]

(* A thread moves to a place where it has mode m, others stay. *)
LEMMA SpinMoves ==
    ASSUME spin \in [Workers -> Exclusive!Positions], NEW t \in Workers, NEW p \in Exclusive!Positions,
           spin' = [spin EXCEPT ![t] = p]
    PROVE  SpinHeld' = [SpinHeld EXCEPT ![t] = IF p = "held" THEN "exclusive" ELSE "none"]
BY DEF SpinHeld

LEMMA SpinRefines == SpinInv /\ [Exclusive!Next]_(Exclusive!vars) => [Exclusive!Latch!ANext]_SpinHeld
<1> SUFFICES ASSUME SpinInv, [Exclusive!Next]_(Exclusive!vars) PROVE Exclusive!Latch!ANext \/ SpinHeld' = SpinHeld
  BY DEF SpinHeld
<1> USE DEF Exclusive!Latch!ANext, Exclusive!Latch!Change, Exclusive!Latch!Compatible, Exclusive!Latch!AModes
<1>1. CASE UNCHANGED Exclusive!vars
  BY <1>1 DEF Exclusive!vars, SpinHeld
<1>2. ASSUME NEW t \in Workers, Exclusive!Want(t) \/ Exclusive!Load(t) \/ Exclusive!TryLockFails(t) PROVE SpinHeld' = SpinHeld
  BY <1>2 DEF SpinInv, Exclusive!Positions, Exclusive!Want, Exclusive!Load, Exclusive!TryLockFails, Exclusive!Goto, SpinHeld
<1>3. ASSUME NEW t \in Workers, Exclusive!TryLock(t) PROVE Exclusive!Latch!ANext
  <2>1. SpinHeld' = [SpinHeld EXCEPT ![t] = "exclusive"]
    BY <1>3, SpinMoves DEF SpinInv, Exclusive!Positions, Exclusive!TryLock, Exclusive!Goto
  <2>2. \A u \in Workers : SpinHeld[u] = "none"
    BY <1>3 DEF SpinInv, Exclusive!TryLock, SpinHeld
  <2> QED
    BY <2>1, <2>2 DEF SpinHeld
<1>4. ASSUME NEW t \in Workers, Exclusive!Unlock(t) PROVE Exclusive!Latch!ANext
  <2>1. SpinHeld' = [SpinHeld EXCEPT ![t] = "none"]
    BY <1>4, SpinMoves DEF SpinInv, Exclusive!Positions, Exclusive!Unlock, Exclusive!Goto
  <2> QED
    BY <2>1 DEF SpinHeld
<1> QED
  BY <1>1, <1>2, <1>3, <1>4 DEF Exclusive!Next

(* ImplementsExclusiveLatch: between lock and unlock of Spinlock there is    *)
(* one thread at a time, though the flag is loaded before it is exchanged.  *)
THEOREM SpinlockIsLatch == Exclusive!Spec => Exclusive!ImplementsExclusiveLatch
<1>1. Exclusive!Init => Exclusive!Latch!AInit
  BY DEF Exclusive!Init, Exclusive!Latch!AInit
<1>2. Exclusive!Spec => []SpinInv
  BY SpinInit, SpinStep, PTL DEF Exclusive!Spec
<1>3. SpinInv /\ [Exclusive!Next]_(Exclusive!vars) => [Exclusive!Latch!ANext]_[t \in Workers |-> IF spin[t] = "held" THEN "exclusive" ELSE "none"]
  BY SpinRefines DEF SpinHeld
<1> QED
  BY <1>1, <1>2, <1>3, PTL DEF Exclusive!Spec, Exclusive!ImplementsExclusiveLatch, Exclusive!Latch!ASpec

-----------------------------------------------------------------------------
(* RWSpinLock. *)

Counting == {"reader", "backout", "downgrade"}
Counted == {t \in Workers : at[t] \in Counting}
Count == Cardinality(Counted)
Flag == bits - Shared!READER * Count

Writing == {"writer", "downgrade", "toupgrade"}
Upgrade == {"upgrader", "upgrading"}

(* bits_ is the count of readers and the two flags. The flags are down if    *)
(* nobody writes or has announced to; UPGRADED alone is up for the one that  *)
(* has announced to, and WRITER for the one that writes, whom no reader and  *)
(* no second writer meets.                                                   *)
BitsInv ==
    /\ at \in [Workers -> Shared!Positions]
    /\ IsFiniteSet(Counted)
    /\ bits \in Nat /\ Flag \in 0 .. 3
    /\ (\A t \in Workers : at[t] \notin Writing \cup Upgrade) => Flag = 0
    /\ \A t \in Workers :
          /\ at[t] \in Upgrade => Flag = Shared!UPGRADED
          /\ at[t] \in {"writer", "downgrade"} => Flag \in {Shared!WRITER, Shared!WRITER + Shared!UPGRADED}
          /\ at[t] = "toupgrade" => Flag = Shared!WRITER + Shared!UPGRADED
    /\ \A t, u \in Workers :
          /\ at[t] \in Writing \cup Upgrade /\ at[u] \in Writing \cup Upgrade => t = u
          /\ at[t] \in Writing => at[u] # "reader"

LEMMA CountType == IsFiniteSet(Counted) => Count \in Nat
BY FS_CardinalityType DEF Count

(* The flags are the two lowest bits, the count is the rest. *)
LEMMA FlagsAreFlag ==
    ASSUME NEW n \in Nat, NEW b \in Nat, b - 4 * n \in 0 .. 3
    PROVE  b % 4 = b - 4 * n /\ b \div 4 = n
OBVIOUS

LEMMA InvariantFlags == BitsInv => Count \in Nat /\ Shared!Flags(bits) = Flag /\ bits \div Shared!READER = Count
<1> SUFFICES ASSUME BitsInv PROVE Count \in Nat /\ Shared!Flags(bits) = Flag /\ bits \div Shared!READER = Count
  OBVIOUS
<1>1. Count \in Nat
  BY CountType DEF BitsInv
<1>2. bits \in Nat /\ bits - 4 * Count \in 0 .. 3
  BY DEF BitsInv, Flag, Shared!READER
<1> QED
  BY <1>1, <1>2, FlagsAreFlag DEF Flag, Shared!Flags, Shared!READER

(* Counting in, counting out, and neither. *)
LEMMA CountIn ==
    ASSUME IsFiniteSet(Counted), at \in [Workers -> Shared!Positions], NEW t \in Workers,
           NEW p \in Counting, at[t] \notin Counting, at' = [at EXCEPT ![t] = p]
    PROVE  IsFiniteSet(Counted') /\ Count' = Count + 1
<1>1. Counted' = Counted \cup {t} /\ t \notin Counted
  BY DEF Counted, Counting
<1> QED
  BY <1>1, FS_AddElement DEF Count

LEMMA CountOut ==
    ASSUME IsFiniteSet(Counted), at \in [Workers -> Shared!Positions], NEW t \in Workers,
           NEW p, p \notin Counting, at[t] \in Counting, at' = [at EXCEPT ![t] = p]
    PROVE  IsFiniteSet(Counted') /\ Count' = Count - 1
<1>1. Counted' = Counted \ {t} /\ t \in Counted
  BY DEF Counted, Counting
<1> QED
  BY <1>1, FS_RemoveElement DEF Count

LEMMA CountSame ==
    ASSUME IsFiniteSet(Counted), at \in [Workers -> Shared!Positions], NEW t \in Workers,
           NEW p, p \in Counting <=> at[t] \in Counting, at' = [at EXCEPT ![t] = p]
    PROVE  IsFiniteSet(Counted') /\ Count' = Count
<1>1. Counted' = Counted
  BY DEF Counted, Counting
<1> QED
  BY <1>1 DEF Count

LEMMA NobodyCounted ==
    ASSUME IsFiniteSet(Counted), Count = 0
    PROVE  \A t \in Workers : at[t] \notin Counting
<1>1. Counted = {}
  BY FS_EmptySet DEF Count
<1> QED
  BY <1>1 DEF Counted

LEMMA BitsInit == Shared!Init => BitsInv
<1> SUFFICES ASSUME Shared!Init PROVE BitsInv
  OBVIOUS
<1>1. Counted = {}
  BY DEF Shared!Init, Counted, Counting
<1>2. IsFiniteSet(Counted) /\ Count = 0
  BY <1>1, FS_EmptySet DEF Count
<1> QED
  BY <1>2 DEF Shared!Init, BitsInv, Flag, Shared!READER, Shared!Positions, Writing, Upgrade

(* One lemma per atomic operation: what becomes of the count and the flags,  *)
(* and what that means for everybody.                                        *)

LEMMA WantInvariant == ASSUME BitsInv, NEW t \in Workers, Shared!Want(t) PROVE BitsInv'
<1>1. Count \in Nat /\ Shared!Flags(bits) = Flag
  BY InvariantFlags
<1>2. IsFiniteSet(Counted') /\ Count' = Count
  BY CountSame DEF BitsInv, Shared!Want, Shared!Goto, Counting
<1>3. bits' \in Nat /\ Flag' = Flag
  BY <1>1, <1>2 DEF BitsInv, Shared!Want, Shared!Goto, Flag, Shared!READER, Shared!WRITER, Shared!UPGRADED, Writing, Upgrade, Shared!OrUpgraded
<1> QED
  BY <1>1, <1>2, <1>3 DEF BitsInv, Shared!Want, Shared!Goto, Shared!Positions, Shared!READER, Shared!WRITER, Shared!UPGRADED, Writing, Upgrade

LEMMA TryLockInvariant == ASSUME BitsInv, NEW t \in Workers, Shared!TryLock(t) PROVE BitsInv'
<1>1. Count \in Nat /\ Shared!Flags(bits) = Flag
  BY InvariantFlags
<1>2. IsFiniteSet(Counted') /\ Count' = Count
  BY CountSame DEF BitsInv, Shared!TryLock, Shared!Goto, Counting
<1>3. bits' \in Nat /\ Flag' = Shared!WRITER
  BY <1>1, <1>2 DEF BitsInv, Shared!TryLock, Shared!Goto, Flag, Shared!READER, Shared!WRITER, Shared!UPGRADED, Writing, Upgrade, Shared!OrUpgraded
<1>4. \A u \in Workers : at[u] # "reader"
  <2>1. Count = 0
    BY <1>1 DEF BitsInv, Shared!TryLock, Flag, Shared!READER, Shared!UPGRADED
  <2> QED
    BY <2>1, NobodyCounted DEF BitsInv, Counting
<1>5. \A u \in Workers : at[u] \notin Writing \cup Upgrade
  <2>1. Flag \notin {Shared!WRITER, Shared!UPGRADED, Shared!WRITER + Shared!UPGRADED}
    BY <1>1 DEF BitsInv, Shared!TryLock, Flag, Shared!READER, Shared!WRITER, Shared!UPGRADED
  <2> QED
    BY <2>1 DEF BitsInv, Writing, Upgrade, Shared!WRITER, Shared!UPGRADED
<1> QED
  BY <1>1, <1>2, <1>3, <1>4, <1>5 DEF BitsInv, Shared!TryLock, Shared!Goto, Shared!Positions, Shared!READER, Shared!WRITER, Shared!UPGRADED, Writing, Upgrade

LEMMA UnlockInvariant == ASSUME BitsInv, NEW t \in Workers, Shared!Unlock(t) PROVE BitsInv'
<1>1. Count \in Nat /\ Shared!Flags(bits) = Flag
  BY InvariantFlags
<1>2. IsFiniteSet(Counted') /\ Count' = Count
  BY CountSame DEF BitsInv, Shared!Unlock, Shared!Goto, Counting
<1>3. bits' \in Nat /\ Flag' = 0
  BY <1>1, <1>2 DEF BitsInv, Shared!Unlock, Shared!Goto, Flag, Shared!READER, Shared!WRITER, Shared!UPGRADED, Writing, Upgrade, Shared!OrUpgraded
<1> QED
  BY <1>1, <1>2, <1>3 DEF BitsInv, Shared!Unlock, Shared!Goto, Shared!Positions, Shared!READER, Shared!WRITER, Shared!UPGRADED, Writing, Upgrade

LEMMA BackOutInvariant == ASSUME BitsInv, NEW t \in Workers, Shared!BackOut(t) PROVE BitsInv'
<1>1. Count \in Nat /\ Shared!Flags(bits) = Flag
  BY InvariantFlags
<1>2. IsFiniteSet(Counted') /\ Count' = Count - 1
  BY CountOut DEF BitsInv, Shared!BackOut, Shared!Goto, Counting
<1>3. Count' \in Nat
  BY <1>2, FS_CardinalityType DEF Count
<1>4. bits' \in Nat /\ Flag' = Flag
  BY <1>1, <1>2, <1>3 DEF BitsInv, Shared!BackOut, Shared!Goto, Flag, Shared!READER, Shared!WRITER, Shared!UPGRADED, Writing, Upgrade, Shared!OrUpgraded
<1> QED
  BY <1>1, <1>2, <1>4 DEF BitsInv, Shared!BackOut, Shared!Goto, Shared!Positions, Shared!READER, Shared!WRITER, Shared!UPGRADED, Writing, Upgrade

LEMMA UnlockSharedInvariant == ASSUME BitsInv, NEW t \in Workers, Shared!UnlockShared(t) PROVE BitsInv'
<1>1. Count \in Nat /\ Shared!Flags(bits) = Flag
  BY InvariantFlags
<1>2. IsFiniteSet(Counted') /\ Count' = Count - 1
  BY CountOut DEF BitsInv, Shared!UnlockShared, Shared!Goto, Counting
<1>3. Count' \in Nat
  BY <1>2, FS_CardinalityType DEF Count
<1>4. bits' \in Nat /\ Flag' = Flag
  BY <1>1, <1>2, <1>3 DEF BitsInv, Shared!UnlockShared, Shared!Goto, Flag, Shared!READER, Shared!WRITER, Shared!UPGRADED, Writing, Upgrade, Shared!OrUpgraded
<1> QED
  BY <1>1, <1>2, <1>4 DEF BitsInv, Shared!UnlockShared, Shared!Goto, Shared!Positions, Shared!READER, Shared!WRITER, Shared!UPGRADED, Writing, Upgrade

LEMMA DowngradeAddInvariant == ASSUME BitsInv, NEW t \in Workers, Shared!DowngradeAdd(t) PROVE BitsInv'
<1>1. Count \in Nat /\ Shared!Flags(bits) = Flag
  BY InvariantFlags
<1>2. IsFiniteSet(Counted') /\ Count' = Count + 1
  BY CountIn DEF BitsInv, Shared!DowngradeAdd, Shared!Goto, Counting
<1>3. bits' \in Nat /\ Flag' = Flag
  BY <1>1, <1>2 DEF BitsInv, Shared!DowngradeAdd, Shared!Goto, Flag, Shared!READER, Shared!WRITER, Shared!UPGRADED, Writing, Upgrade, Shared!OrUpgraded
<1> QED
  BY <1>1, <1>2, <1>3 DEF BitsInv, Shared!DowngradeAdd, Shared!Goto, Shared!Positions, Shared!READER, Shared!WRITER, Shared!UPGRADED, Writing, Upgrade

LEMMA DowngradeUnlockInvariant == ASSUME BitsInv, NEW t \in Workers, Shared!DowngradeUnlock(t) PROVE BitsInv'
<1>1. Count \in Nat /\ Shared!Flags(bits) = Flag
  BY InvariantFlags
<1>2. IsFiniteSet(Counted') /\ Count' = Count
  BY CountSame DEF BitsInv, Shared!DowngradeUnlock, Shared!Goto, Counting
<1>3. bits' \in Nat /\ Flag' = 0
  BY <1>1, <1>2 DEF BitsInv, Shared!DowngradeUnlock, Shared!Goto, Flag, Shared!READER, Shared!WRITER, Shared!UPGRADED, Writing, Upgrade, Shared!OrUpgraded
<1> QED
  BY <1>1, <1>2, <1>3 DEF BitsInv, Shared!DowngradeUnlock, Shared!Goto, Shared!Positions, Shared!READER, Shared!WRITER, Shared!UPGRADED, Writing, Upgrade

LEMMA UnlockUpgradeInvariant == ASSUME BitsInv, NEW t \in Workers, Shared!UnlockUpgrade(t) PROVE BitsInv'
<1>1. Count \in Nat /\ Shared!Flags(bits) = Flag
  BY InvariantFlags
<1>2. IsFiniteSet(Counted') /\ Count' = Count
  BY CountSame DEF BitsInv, Shared!UnlockUpgrade, Shared!Goto, Counting
<1>3. bits' \in Nat /\ Flag' = 0
  BY <1>1, <1>2 DEF BitsInv, Shared!UnlockUpgrade, Shared!Goto, Flag, Shared!READER, Shared!WRITER, Shared!UPGRADED, Writing, Upgrade, Shared!OrUpgraded
<1> QED
  BY <1>1, <1>2, <1>3 DEF BitsInv, Shared!UnlockUpgrade, Shared!Goto, Shared!Positions, Shared!READER, Shared!WRITER, Shared!UPGRADED, Writing, Upgrade

LEMMA UpgradeToSharedInvariant == ASSUME BitsInv, NEW t \in Workers, Shared!UpgradeToShared(t) PROVE BitsInv'
<1>1. Count \in Nat /\ Shared!Flags(bits) = Flag
  BY InvariantFlags
<1>2. IsFiniteSet(Counted') /\ Count' = Count + 1
  BY CountIn DEF BitsInv, Shared!UpgradeToShared, Shared!Goto, Counting
<1>3. bits' \in Nat /\ Flag' = 0
  BY <1>1, <1>2 DEF BitsInv, Shared!UpgradeToShared, Shared!Goto, Flag, Shared!READER, Shared!WRITER, Shared!UPGRADED, Writing, Upgrade, Shared!OrUpgraded
<1> QED
  BY <1>1, <1>2, <1>3 DEF BitsInv, Shared!UpgradeToShared, Shared!Goto, Shared!Positions, Shared!READER, Shared!WRITER, Shared!UPGRADED, Writing, Upgrade

LEMMA UpgradeBeginInvariant == ASSUME BitsInv, NEW t \in Workers, Shared!UpgradeBegin(t) PROVE BitsInv'
<1>1. Count \in Nat /\ Shared!Flags(bits) = Flag
  BY InvariantFlags
<1>2. IsFiniteSet(Counted') /\ Count' = Count
  BY CountSame DEF BitsInv, Shared!UpgradeBegin, Shared!Goto, Counting
<1>3. bits' \in Nat /\ Flag' = Flag
  BY <1>1, <1>2 DEF BitsInv, Shared!UpgradeBegin, Shared!Goto, Flag, Shared!READER, Shared!WRITER, Shared!UPGRADED, Writing, Upgrade, Shared!OrUpgraded
<1> QED
  BY <1>1, <1>2, <1>3 DEF BitsInv, Shared!UpgradeBegin, Shared!Goto, Shared!Positions, Shared!READER, Shared!WRITER, Shared!UPGRADED, Writing, Upgrade

LEMMA TryUnlockUpgradeAndLockInvariant == ASSUME BitsInv, NEW t \in Workers, Shared!TryUnlockUpgradeAndLock(t) PROVE BitsInv'
<1>1. Count \in Nat /\ Shared!Flags(bits) = Flag
  BY InvariantFlags
<1>2. IsFiniteSet(Counted') /\ Count' = Count
  BY CountSame DEF BitsInv, Shared!TryUnlockUpgradeAndLock, Shared!Goto, Counting
<1>3. bits' \in Nat /\ Flag' = Shared!WRITER
  BY <1>1, <1>2 DEF BitsInv, Shared!TryUnlockUpgradeAndLock, Shared!Goto, Flag, Shared!READER, Shared!WRITER, Shared!UPGRADED, Writing, Upgrade, Shared!OrUpgraded
<1>4. \A u \in Workers : at[u] # "reader"
  <2>1. Count = 0
    BY <1>1 DEF BitsInv, Shared!TryUnlockUpgradeAndLock, Flag, Shared!READER, Shared!UPGRADED
  <2> QED
    BY <2>1, NobodyCounted DEF BitsInv, Counting
<1> QED
  BY <1>1, <1>2, <1>3, <1>4 DEF BitsInv, Shared!TryUnlockUpgradeAndLock, Shared!Goto, Shared!Positions, Shared!READER, Shared!WRITER, Shared!UPGRADED, Writing, Upgrade

LEMMA KeepUpgradeInvariant == ASSUME BitsInv, NEW t \in Workers, Shared!KeepUpgrade(t) PROVE BitsInv'
<1>1. Count \in Nat /\ Shared!Flags(bits) = Flag
  BY InvariantFlags
<1>2. IsFiniteSet(Counted') /\ Count' = Count
  BY CountSame DEF BitsInv, Shared!KeepUpgrade, Shared!Goto, Counting
<1>3. bits' \in Nat /\ Flag' = Shared!WRITER + Shared!UPGRADED
  BY <1>1, <1>2 DEF BitsInv, Shared!KeepUpgrade, Shared!Goto, Flag, Shared!READER, Shared!WRITER, Shared!UPGRADED, Writing, Upgrade, Shared!OrUpgraded
<1> QED
  BY <1>1, <1>2, <1>3 DEF BitsInv, Shared!KeepUpgrade, Shared!Goto, Shared!Positions, Shared!READER, Shared!WRITER, Shared!UPGRADED, Writing, Upgrade

LEMMA DropWriterInvariant == ASSUME BitsInv, NEW t \in Workers, Shared!DropWriter(t) PROVE BitsInv'
<1>1. Count \in Nat /\ Shared!Flags(bits) = Flag
  BY InvariantFlags
<1>2. IsFiniteSet(Counted') /\ Count' = Count
  BY CountSame DEF BitsInv, Shared!DropWriter, Shared!Goto, Counting
<1>3. bits' \in Nat /\ Flag' = Shared!UPGRADED
  BY <1>1, <1>2 DEF BitsInv, Shared!DropWriter, Shared!Goto, Flag, Shared!READER, Shared!WRITER, Shared!UPGRADED, Writing, Upgrade, Shared!OrUpgraded
<1> QED
  BY <1>1, <1>2, <1>3 DEF BitsInv, Shared!DropWriter, Shared!Goto, Shared!Positions, Shared!READER, Shared!WRITER, Shared!UPGRADED, Writing, Upgrade

(* A reader counts itself in before it looks at the flags. *)
LEMMA TryLockSharedInvariant == ASSUME BitsInv, NEW t \in Workers, Shared!TryLockShared(t) PROVE BitsInv'
<1>1. Count \in Nat /\ Shared!Flags(bits) = Flag
  BY InvariantFlags
<1>2. IsFiniteSet(Counted') /\ Count' = Count + 1
  BY CountIn DEF BitsInv, Shared!TryLockShared, Shared!Goto, Counting
<1>3. bits' \in Nat /\ Flag' = Flag
  BY <1>1, <1>2 DEF BitsInv, Shared!TryLockShared, Flag, Shared!READER
<1>4. CASE Shared!Flags(bits) = 0
  BY <1>1, <1>2, <1>3, <1>4 DEF BitsInv, Shared!TryLockShared, Shared!Goto, Shared!Positions, Shared!WRITER, Shared!UPGRADED, Writing, Upgrade
<1>5. CASE Shared!Flags(bits) # 0
  BY <1>1, <1>2, <1>3, <1>5 DEF BitsInv, Shared!TryLockShared, Shared!Goto, Shared!Positions, Shared!WRITER, Shared!UPGRADED, Writing, Upgrade
<1> QED
  BY <1>4, <1>5

(* The bit that a failing try_lock_upgrade sets is set for whoever holds the *)
(* latch already.                                                            *)
LEMMA TryLockUpgradeInvariant == ASSUME BitsInv, NEW t \in Workers, Shared!TryLockUpgrade(t) PROVE BitsInv'
<1>1. Count \in Nat /\ Shared!Flags(bits) = Flag
  BY InvariantFlags
<1>2. IsFiniteSet(Counted') /\ Count' = Count
  BY CountSame DEF BitsInv, Shared!TryLockUpgrade, Shared!Goto, Counting
<1>3. bits' \in Nat /\ Flag' = IF Flag \in {Shared!UPGRADED, Shared!UPGRADED + Shared!WRITER} THEN Flag ELSE Flag + Shared!UPGRADED
  BY <1>1, <1>2 DEF BitsInv, Shared!TryLockUpgrade, Flag, Shared!READER, Shared!WRITER, Shared!UPGRADED, Shared!OrUpgraded
<1>4. CASE Shared!Flags(bits) = 0
  BY <1>1, <1>2, <1>3, <1>4 DEF BitsInv, Shared!TryLockUpgrade, Shared!Goto, Shared!Positions, Shared!WRITER, Shared!UPGRADED, Writing, Upgrade
<1>5. CASE Shared!Flags(bits) # 0
  BY <1>1, <1>2, <1>3, <1>5 DEF BitsInv, Shared!TryLockUpgrade, Shared!Goto, Shared!Positions, Shared!WRITER, Shared!UPGRADED, Writing, Upgrade
<1> QED
  BY <1>4, <1>5

LEMMA BitsStep == BitsInv /\ [Shared!Next]_(Shared!vars) => BitsInv'
<1> SUFFICES ASSUME BitsInv, [Shared!Next]_(Shared!vars) PROVE BitsInv'
  OBVIOUS
<1>1. CASE UNCHANGED Shared!vars
  BY <1>1 DEF BitsInv, Shared!vars, Counted, Count, Flag
<1>2. ASSUME NEW t \in Workers, Shared!Want(t) \/ Shared!Convert(t) PROVE BitsInv'
  BY <1>2, WantInvariant, DowngradeAddInvariant, UpgradeToSharedInvariant, UpgradeBeginInvariant,
     KeepUpgradeInvariant DEF Shared!Convert
<1>3. ASSUME NEW t \in Workers, Shared!Proceed(t) PROVE BitsInv'
  BY <1>3, TryLockInvariant, TryLockSharedInvariant, TryLockUpgradeInvariant,
     TryUnlockUpgradeAndLockInvariant, UnlockInvariant, BackOutInvariant, UnlockSharedInvariant,
     DowngradeUnlockInvariant, UnlockUpgradeInvariant, DropWriterInvariant DEF Shared!Proceed
<1> QED
  BY <1>1, <1>2, <1>3 DEF Shared!Next

LEMMA BitsInvariance == Shared!Spec => []BitsInv
BY BitsInit, BitsStep, PTL DEF Shared!Spec

(* TypeOK: bits_ counts every reader once, above the two flags.              *)
THEOREM CountsReaders == Shared!Spec => []Shared!TypeOK
<1>1. BitsInv => Shared!TypeOK
  <2> SUFFICES ASSUME BitsInv PROVE Shared!TypeOK
    OBVIOUS
  <2>1. bits \div Shared!READER = Shared!Cardinality({t \in Workers : at[t] \in {"reader", "backout", "downgrade"}})
    BY InvariantFlags DEF Count, Counted, Counting, Cardinality, Shared!Cardinality
  <2> QED
    BY <2>1 DEF BitsInv, Shared!TypeOK
<1> QED
  BY <1>1, BitsInvariance, PTL

(* NoStrayUpgrade: UPGRADED is never left set where nobody would clear it.   *)
THEOREM UpgradesAreCleared == Shared!Spec => []Shared!NoStrayUpgrade
<1>1. BitsInv => Shared!NoStrayUpgrade
  <2> SUFFICES ASSUME BitsInv, Shared!Flags(bits) # 0
               PROVE  \E t \in Workers : Shared!Mode(t) \in {"exclusive", "upgrade"}
    BY DEF Shared!NoStrayUpgrade
  <2>1. PICK t \in Workers : at[t] \in Writing \cup Upgrade
    BY InvariantFlags DEF BitsInv
  <2> QED
    BY <2>1 DEF Shared!Mode, Writing, Upgrade
<1> QED
  BY <1>1, BitsInvariance, PTL

LatchHeld == [t \in Workers |-> Shared!Mode(t)]

(* The invariant makes the modes of any two threads compatible. *)
AllCompatible == \A t, u \in Workers : t # u => Shared!Latch!Compatible(LatchHeld[t], LatchHeld[u])

LEMMA ModesAreCompatible == BitsInv => AllCompatible
<1> SUFFICES ASSUME BitsInv, NEW t \in Workers, NEW u \in Workers, t # u
             PROVE  Shared!Latch!Compatible(LatchHeld[t], LatchHeld[u])
  BY DEF AllCompatible
<1>1. CASE at[t] \in Writing
  BY <1>1 DEF BitsInv, LatchHeld, Shared!Mode, Writing, Upgrade, Shared!Latch!Compatible
<1>2. CASE at[t] \in Upgrade
  BY <1>2 DEF BitsInv, LatchHeld, Shared!Mode, Writing, Upgrade, Shared!Latch!Compatible
<1>3. CASE at[t] = "reader"
  BY <1>3 DEF BitsInv, LatchHeld, Shared!Mode, Writing, Upgrade, Shared!Latch!Compatible
<1>4. CASE at[t] \notin Writing \cup Upgrade \cup {"reader"}
  BY <1>4 DEF BitsInv, LatchHeld, Shared!Mode, Writing, Upgrade, Shared!Latch!Compatible
<1> QED
  BY <1>1, <1>2, <1>3, <1>4

(* Every atomic operation moves one thread. *)
LEMMA OneMoves ==
    ASSUME Shared!Next
    PROVE  \E t \in Workers : \E p : at' = [at EXCEPT ![t] = p]
<1>1. PICK t \in Workers : Shared!Want(t) \/ Shared!Convert(t) \/ Shared!Proceed(t)
  BY DEF Shared!Next
<1> QED
  BY <1>1 DEF Shared!Want, Shared!Convert, Shared!Proceed, Shared!Goto, Shared!TryLock, Shared!TryLockShared, Shared!TryLockUpgrade,
     Shared!TryUnlockUpgradeAndLock, Shared!Unlock, Shared!BackOut, Shared!UnlockShared, Shared!DowngradeUnlock, Shared!UnlockUpgrade,
     Shared!DropWriter, Shared!DowngradeAdd, Shared!UpgradeToShared, Shared!UpgradeBegin, Shared!KeepUpgrade

LEMMA BitsRefines == BitsInv /\ [Shared!Next]_(Shared!vars) => [Shared!Latch!ANext]_LatchHeld
<1> SUFFICES ASSUME BitsInv, [Shared!Next]_(Shared!vars) PROVE Shared!Latch!ANext \/ LatchHeld' = LatchHeld
  BY DEF LatchHeld
<1>1. CASE UNCHANGED Shared!vars
  BY <1>1 DEF Shared!vars, LatchHeld, Shared!Mode
<1>2. CASE Shared!Next
  <2>1. PICK t \in Workers : \E p : at' = [at EXCEPT ![t] = p]
    BY <1>2, OneMoves
  <2>2. BitsInv'
    BY BitsStep
  <2>3. \A u \in Workers \ {t} : LatchHeld'[u] = LatchHeld[u]
    BY <2>1 DEF BitsInv, LatchHeld, Shared!Mode
  <2>4. \A u \in Workers \ {t} : Shared!Latch!Compatible(LatchHeld'[t], LatchHeld'[u])
    <3>1. AllCompatible'
      BY <2>2, ModesAreCompatible, PTL
    <3> QED
      BY <3>1 DEF AllCompatible, Shared!Latch!Compatible
  <2>5. LatchHeld' = [LatchHeld EXCEPT ![t] = LatchHeld'[t]]
    BY <2>3 DEF LatchHeld
  <2>6. LatchHeld'[t] \in Shared!Latch!AModes
    BY DEF LatchHeld, Shared!Mode, Shared!Latch!AModes
  <2>7. Shared!Latch!Change(t, LatchHeld'[t])
    BY <2>3, <2>4, <2>5 DEF Shared!Latch!Change, LatchHeld
  <2> QED
    BY <2>6, <2>7 DEF Shared!Latch!ANext
<1> QED
  BY <1>1, <1>2

(* ImplementsRWLatch: every lock, unlock and conversion of RWSpinLock takes  *)
(* effect in one instant in which all the other holders allow it.            *)
THEOREM RWSpinLockIsLatch == Shared!Spec => Shared!ImplementsRWLatch
<1>1. Shared!Init => Shared!Latch!AInit
  BY DEF Shared!Init, Shared!Latch!AInit, Shared!Mode
<1>2. BitsInv /\ [Shared!Next]_(Shared!vars) => [Shared!Latch!ANext]_[t \in Workers |-> Shared!Mode(t)]
  BY BitsRefines DEF LatchHeld
<1> QED
  BY <1>1, <1>2, BitsInvariance, PTL DEF Shared!Spec, Shared!ImplementsRWLatch, Shared!Latch!ASpec

-----------------------------------------------------------------------------
(* The data object with all three. *)

(* The object follows one of its latches and leaves the others alone, so     *)
(* that each of them behaves as its own specification says.                  *)
LEMMA ObjectLatches == ResourceSpec => Spec /\ Exclusive!Spec /\ Shared!Spec
<1>1. ResourceInit => Init /\ Exclusive!Init /\ Shared!Init
  BY DEF ResourceInit
<1>2. [ResourceNext]_rvars => [Next]_vars
  BY DEF ResourceNext, rvars
<1>3. [ResourceNext]_rvars => [Exclusive!Next]_(Exclusive!vars)
  BY DEF ResourceNext, rvars, exclusivevars, Exclusive!vars
<1>4. [ResourceNext]_rvars => [Shared!Next]_(Shared!vars)
  BY DEF ResourceNext, rvars, sharedvars, Shared!vars
<1> QED
  BY <1>1, <1>2, <1>3, <1>4, PTL DEF ResourceSpec, Spec, Exclusive!Spec, Shared!Spec

(* NoStrayUpgrade: a failed try_lock_upgrade leaves UPGRADED set in a data   *)
(* object's latch only where a holder will clear it.                         *)
THEOREM NoUpgradeIsStray == ResourceSpec => []NoStrayUpgrade
BY ObjectLatches, UpgradesAreCleared, PTL DEF NoStrayUpgrade

(* LatchesAreAtomic: scoped_exclusive_latch and scoped_rw_latch take and     *)
(* give back the latch of a data object in an instant each.                  *)
THEOREM LatchesTakeEffectAtOnce == ResourceSpec => LatchesAreAtomic
BY ObjectLatches, SpinlockIsLatch, RWSpinLockIsLatch, PTL DEF LatchesAreAtomic
=============================================================================
