----------------------------- MODULE MCHashJoin -----------------------------
(* Tables with unequal chunks, colliding and repeated keys, keys without a   *)
(* partner, and one whose keys all belong to one of two channels: a search   *)
(* for an absent key does not end there.                                     *)
EXTENDS HashJoin

MCInputs ==
    {[left |-> <<1, 2, 3, 4, 5>>, right |-> <<5, 2, 2, 6>>],
     [left |-> <<3, 4, 3, 6>>, right |-> <<3, 1, 6, 4, 6>>],
     [left |-> <<2, 4, 6, 8>>, right |-> <<6, 10, 1, 2>>]}
MCHash == [k \in 1..10 |-> IF k \in {3, 5} THEN 1 ELSE k]
MCCoreSets == <<1, 2>>
MCBatches == <<1, 2>>
=============================================================================
