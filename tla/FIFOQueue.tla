----------------------------- MODULE FIFOQueue -----------------------------
(* What a backend queue of a channel promises: items leave it in the order   *)
(* in which they entered, each one once.  A push of several linked items     *)
(* keeps them together.                                                      *)
EXTENDS Sequences

CONSTANT Item

VARIABLES
    queue,   \* the items in the queue, oldest first
    taken    \* the item removed last

fvars == <<queue, taken>>

FInit ==
    /\ queue = <<>>
    /\ taken = {}

FPush(items) ==
    /\ queue' = queue \o items
    /\ UNCHANGED taken

FPop ==
    /\ queue # <<>>
    /\ queue' = Tail(queue)
    /\ taken' = {Head(queue)}

FNext ==
    \/ \E x \in Item : FPush(<<x>>)
    \/ \E x, y \in Item : FPush(<<x, y>>)
    \/ FPop

FSpec == FInit /\ [][FNext]_fvars
=============================================================================
