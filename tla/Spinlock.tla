------------------------------ MODULE Spinlock ------------------------------
(***************************************************************************)
(* The exclusive latch of a data object and of an allocator's region       *)
(* (synchronization/spinlock.h): a loop of loads, then a weak exchange.    *)
(***************************************************************************)
CONSTANT Threads

VARIABLES
    flag,  \* Spinlock::_flag
    at     \* where each thread is

vars == <<flag, at>>

Positions == {"idle", "load", "cas", "held"}

Init == flag = FALSE /\ at = [t \in Threads |-> "idle"]

Goto(t, from, to) ==
    /\ at[t] = from
    /\ at' = [at EXCEPT ![t] = to]

Want(t) == Goto(t, "idle", "load") /\ UNCHANGED flag

(* The inner loop of lock waits until the flag is down. *)
Load(t) == ~flag /\ Goto(t, "load", "cas") /\ UNCHANGED flag

(* try_lock: compare_exchange_weak, which may also fail for no reason. *)
TryLock(t) == ~flag /\ Goto(t, "cas", "held") /\ flag' = TRUE
TryLockFails(t) == Goto(t, "cas", "load") /\ UNCHANGED flag

Unlock(t) == Goto(t, "held", "idle") /\ flag' = FALSE

Next ==
    \E t \in Threads :
        Want(t) \/ Load(t) \/ TryLock(t) \/ TryLockFails(t) \/ Unlock(t)

Spec == Init /\ [][Next]_vars

(* Tasks end, threads keep trying, and an exchange that would succeed      *)
(* again and again does not fail forever.                                  *)
Fairness ==
    \A t \in Threads : WF_vars(Unlock(t)) /\ WF_vars(Load(t)) /\ SF_vars(TryLock(t))
-----------------------------------------------------------------------------

Latch == INSTANCE AtomicLatch
           WITH held <- [t \in Threads |-> IF at[t] = "held" THEN "exclusive" ELSE "none"]

(* Between lock and unlock of Spinlock there is one thread at a time. *)
ImplementsExclusiveLatch == Latch!ASpec

(* A thread that wants the spinlock brings some thread into it.            *)
SpinlockProgresses ==
    (\E t \in Threads : at[t] # "idle") ~> (\E t \in Threads : at[t] = "held")
=============================================================================
