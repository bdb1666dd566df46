-------------------------- MODULE ResourceInterface --------------------------
(***************************************************************************)
(* A data object with its three latches (resource/resource_interface.h):   *)
(* an exclusive latch, a reader/writer latch and a version lock, of which  *)
(* its synchronisation primitive picks one for all tasks on the object.    *)
(***************************************************************************)
EXTENDS OptimisticLock

VARIABLES
    type,        \* the latch that ResourceInterface::scoped_latch takes
    flag, spin,  \* _exclusive_latch
    bits, at     \* _rw_latch

Exclusive == INSTANCE Spinlock WITH Threads <- Workers, at <- spin
Shared == INSTANCE RWSpinLock WITH Threads <- Workers

exclusivevars == <<flag, spin>>
sharedvars == <<bits, at>>
rvars == <<vars, type, exclusivevars, sharedvars>>

ResourceInit ==
    /\ Init /\ Exclusive!Init /\ Shared!Init
    /\ type \in {"Exclusive", "Shared", "Optimistic"}

ResourceNext ==
    /\ UNCHANGED type
    /\ \/ type = "Optimistic" /\ Next /\ UNCHANGED <<exclusivevars, sharedvars>>
       \/ type = "Exclusive" /\ Exclusive!Next /\ UNCHANGED <<vars, sharedvars>>
       \/ type = "Shared" /\ Shared!Next /\ UNCHANGED <<vars, exclusivevars>>

ResourceSpec ==
    /\ ResourceInit /\ [][ResourceNext]_rvars
    /\ Fairness /\ Exclusive!Fairness /\ Shared!Fairness

-----------------------------------------------------------------------------

(* The latches behind scoped_exclusive_latch and scoped_rw_latch are taken *)
(* and given back in an instant each: the first admits one task at a time, *)
(* the second a writer alone, or readers and at most one that has          *)
(* announced to write, over all of its conversions.                        *)
LatchesAreAtomic == Exclusive!ImplementsExclusiveLatch /\ Shared!ImplementsRWLatch

(* A failed try_lock_upgrade leaves UPGRADED set only where a holder will  *)
(* clear it.                                                               *)
NoStrayUpgrade == Shared!NoStrayUpgrade

(* No latch shuts everybody out. A writing task that waits for the version *)
(* lock brings some writing task to its end, and a task that waits for the *)
(* spinlock brings some task into it; tasks that wait for the reader/      *)
(* writer latch all get it once no new ones arrive, unless one insists on  *)
(* being promoted.                                                         *)
WaitersAreServed ==
    SomeWriterFinishes /\ Exclusive!SpinlockProgresses /\ Shared!WaitersAreServed
=============================================================================
