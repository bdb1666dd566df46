----------------------------- MODULE AtomicLatch -----------------------------
(* What the latches of a data object promise, and what Tasking takes for     *)
(* granted: a thread comes to hold the latch in one instant, and only when   *)
(* every other holder's mode allows it.                                      *)
CONSTANT Threads

VARIABLE held  \* the mode in which each thread holds the latch

AModes == {"none", "shared", "upgrade", "exclusive"}

(* Readers go with readers and with the one that has announced to write. *)
Compatible(m, n) ==
    \/ "none" \in {m, n}
    \/ m = "shared" /\ n \in {"shared", "upgrade"}
    \/ n = "shared" /\ m \in {"shared", "upgrade"}

AInit == held = [t \in Threads |-> "none"]

Change(t, m) ==
    /\ \A u \in Threads \ {t} : Compatible(m, held[u])
    /\ held' = [held EXCEPT ![t] = m]

ANext == \E t \in Threads, m \in AModes : Change(t, m)

ASpec == AInit /\ [][ANext]_held
=============================================================================
