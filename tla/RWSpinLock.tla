----------------------------- MODULE RWSpinLock -----------------------------
(***************************************************************************)
(* The reader/writer latch of a data object (synchronization/rw_spinlock.h)*)
(* with all of its conversions. Every atomic operation on bits_ is one     *)
(* step; a try that fails and changes nothing is a step not taken.         *)
(***************************************************************************)
EXTENDS Integers, FiniteSets

CONSTANT Threads

VARIABLES
    bits,  \* RWSpinLock::bits_
    at     \* where each thread is

vars == <<bits, at>>

READER == 4
UPGRADED == 2
WRITER == 1

Positions == {"idle", "lock", "writer", "lockshared", "backout", "reader", "downgrade",
              "lockupgrade", "upgrader", "upgrading", "toupgrade"}

Init == bits = 0 /\ at = [t \in Threads |-> "idle"]

(* The two lowest bits, and bits_ with UPGRADED set. *)
Flags(b) == b % READER
OrUpgraded(b) == IF Flags(b) \in {UPGRADED, UPGRADED + WRITER} THEN b ELSE b + UPGRADED

Goto(t, from, to) ==
    /\ at[t] = from
    /\ at' = [at EXCEPT ![t] = to]

(* A task on the object arrives, and its thread wants the latch. *)
Want(t) ==
    /\ \E mode \in {"lock", "lockshared", "lockupgrade"} : Goto(t, "idle", mode)
    /\ UNCHANGED bits

(* try_lock: compare_exchange of 0 with WRITER. *)
TryLock(t) ==
    /\ bits = 0
    /\ Goto(t, "lock", "writer")
    /\ bits' = WRITER

(* Mutant: only WRITER is cleared. *)
UnlockWriterOnly(t) ==
    /\ Goto(t, "writer", "idle")
    /\ bits' = bits - WRITER

(* unlock also clears the UPGRADED of those whose try met the writer. *)
Unlock(t) ==
    /\ Goto(t, "writer", "idle")
    /\ bits' = bits - Flags(bits)

(* Mutant: a reader backs out for other readers, too. *)
TryLockSharedAlone(t) ==
    /\ Goto(t, "lockshared", IF bits = 0 THEN "reader" ELSE "backout")
    /\ bits' = bits + READER

(* try_lock_shared adds a reader first and looks at the old value then, ... *)
TryLockShared(t) ==
    /\ Goto(t, "lockshared", IF Flags(bits) = 0 THEN "reader" ELSE "backout")
    /\ bits' = bits + READER

(* ... to take it back and try again when someone writes or is about to. *)
BackOut(t) ==
    /\ Goto(t, "backout", "lockshared")
    /\ bits' = bits - READER

UnlockShared(t) ==
    /\ Goto(t, "reader", "idle")
    /\ bits' = bits - READER

(* unlock_and_lock_shared: become a reader, ... *)
DowngradeAdd(t) ==
    /\ Goto(t, "writer", "downgrade")
    /\ bits' = bits + READER

(* ... then unlock. *)
DowngradeUnlock(t) ==
    /\ Goto(t, "downgrade", "reader")
    /\ bits' = bits - Flags(bits)

(* try_lock_upgrade: fetch_or, and the bit stays set when it fails. *)
TryLockUpgrade(t) ==
    /\ Goto(t, "lockupgrade", IF Flags(bits) = 0 THEN "upgrader" ELSE "lockupgrade")
    /\ bits' = OrUpgraded(bits)

UnlockUpgrade(t) ==
    /\ Goto(t, "upgrader", "idle")
    /\ bits' = bits - UPGRADED

(* unlock_upgrade_and_lock_shared: one fetch_add. *)
UpgradeToShared(t) ==
    /\ Goto(t, "upgrader", "reader")
    /\ bits' = bits + READER - UPGRADED

(* unlock_upgrade_and_lock: wait for the readers that are still there. *)
UpgradeBegin(t) ==
    /\ Goto(t, "upgrader", "upgrading")
    /\ UNCHANGED bits

(* Mutant: the readers are not waited for. *)
UpgradeWithReaders(t) ==
    /\ Flags(bits) = UPGRADED
    /\ Goto(t, "upgrading", "writer")
    /\ bits' = bits - UPGRADED + WRITER

TryUnlockUpgradeAndLock(t) ==
    /\ bits = UPGRADED
    /\ Goto(t, "upgrading", "writer")
    /\ bits' = WRITER

(* unlock_and_lock_upgrade: two steps, as others may set UPGRADED as well. *)
KeepUpgrade(t) ==
    /\ Goto(t, "writer", "toupgrade")
    /\ bits' = OrUpgraded(bits)

DropWriter(t) ==
    /\ Goto(t, "toupgrade", "upgrader")
    /\ bits' = bits - WRITER

Convert(t) == DowngradeAdd(t) \/ UpgradeToShared(t) \/ UpgradeBegin(t) \/ KeepUpgrade(t)

(* What a thread does without being asked: try again, finish, give back. *)
Proceed(t) ==
    \/ TryLock(t) \/ TryLockShared(t) \/ TryLockUpgrade(t) \/ TryUnlockUpgradeAndLock(t)
    \/ Unlock(t) \/ BackOut(t) \/ UnlockShared(t) \/ DowngradeUnlock(t)
    \/ UnlockUpgrade(t) \/ DropWriter(t)

Next == \E t \in Threads : Want(t) \/ Convert(t) \/ Proceed(t)

Spec == Init /\ [][Next]_vars

(* Threads keep running and tasks end; nothing forces a task to arrive. *)
Fairness == \A t \in Threads : WF_vars(Proceed(t))
-----------------------------------------------------------------------------

(* bits_ counts every reader once, those that are about to back out and    *)
(* the writer that becomes one included, above the two flags.              *)
TypeOK ==
    /\ at \in [Threads -> Positions]
    /\ bits \in Nat
    /\ bits \div READER = Cardinality({t \in Threads : at[t] \in {"reader", "backout", "downgrade"}})

Mode(t) ==
    CASE at[t] \in {"writer", "downgrade", "toupgrade"} -> "exclusive"
      [] at[t] = "reader" -> "shared"
      [] at[t] \in {"upgrader", "upgrading"} -> "upgrade"
      [] OTHER -> "none"

Latch == INSTANCE AtomicLatch WITH held <- [t \in Threads |-> Mode(t)]

(* The latch is taken, converted and given back in one instant each, as    *)
(* Tasking takes it: a writer never meets a reader, although readers count *)
(* themselves in before they look, and no conversion in two steps leaves a *)
(* gap for another thread.                                                 *)
ImplementsRWLatch == Latch!ASpec

(* A try_lock_upgrade that fails leaves UPGRADED set. As its comment says  *)
(* whoever holds the latch clears it: the flags are never set in a latch   *)
(* nobody writes to or will, where they would keep everybody out.          *)
NoStrayUpgrade ==
    Flags(bits) # 0 => \E t \in Threads : Mode(t) \in {"exclusive", "upgrade"}

(* Once no thread asks anew, and none insists on becoming a writer, every  *)
(* thread gets the latch and gives it back: failing readers and failing    *)
(* upgraders do not shut each other out.                                   *)
WaitersAreServed ==
    /\ <>[][\A t \in Threads : ~Want(t)]_vars
    /\ <>[](\A t \in Threads : at[t] # "upgrading")
    => <>[](\A t \in Threads : at[t] = "idle")
=============================================================================
