------------------------------- MODULE Queues -------------------------------
(* The two latch-free queues of util/. They have nothing in common: a        *)
(* behaviour follows one of them.                                            *)
EXTENDS MPSCQueue, Naturals

CONSTANTS Threads, Value, Capacity, MaxPushes

(* With one slot the sequence numbers of "written" and "free again" would    *)
(* be the same.                                                              *)
ASSUME CapacityAssumption == Capacity \in Nat \ {0, 1}

VARIABLES storage, ahead, atail, at, op, pos, item, line, claimed, followed

Bound == INSTANCE BoundMPMCQueue WITH Item <- Value

bvars == <<storage, ahead, atail, at, op, pos, item, line, claimed>>
qvars == <<vars, bvars, followed>>

QInit == Init /\ Bound!Init /\ followed \in {"MPSCQueue", "BoundMPMCQueue"}

QNext ==
    /\ UNCHANGED followed
    /\ \/ followed = "MPSCQueue" /\ Next /\ UNCHANGED bvars
       \/ followed = "BoundMPMCQueue" /\ Bound!Next /\ UNCHANGED vars

QSpec ==
    /\ QInit /\ [][QNext]_qvars
    /\ Fairness /\ Bound!Fairness

(* The bounded queue is a FIFO queue.                                        *)
ImplementsBoundedFIFO == Bound!ImplementsBoundedFIFO

(* Threads wait for the bounded queue only while it is full or empty.        *)
WaitsOnlyWhenStuck == Bound!WaitsOnlyWhenStuck
=============================================================================
