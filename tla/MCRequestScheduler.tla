------------------------ MODULE MCRequestScheduler ------------------------
(* Workloads that split leaves and inner nodes at the right end, at the left *)
(* end and in the middle, with and without a mixed phase, on one core and    *)
(* then on two.                                                              *)
EXTENDS RequestScheduler

Tuple(op, k, v) == [op |-> op, key |-> k, value |-> v]
Inserts(keys) == [i \in DOMAIN keys |-> Tuple("insert", keys[i], "a")]

MCMixed == <<Tuple("update", 3, "b"), Tuple("lookup", 3, "a"), Tuple("insert", 7, "b"), Tuple("update", 7, "a")>>

MCWorkloads ==
    {[fill |-> Inserts(<<1, 2, 3, 4, 5, 6>>), mixed |-> MCMixed],
     [fill |-> Inserts(<<6, 5, 4, 3, 2, 1>>), mixed |-> <<>>],
     [fill |-> Inserts(<<1, 2, 7, 6, 3, 4>>), mixed |-> MCMixed]}

MCCoreSets == <<1, 2>>
=============================================================================
