--------------------------- MODULE BoundMPMCQueue ---------------------------
(* The queue with a fixed number of slots that any thread may push to and    *)
(* pop from (util/bound_mpmc_queue.h), one step per access to shared memory. *)
(* A slot carries a sequence number that tells whose turn it is.             *)
EXTENDS Naturals, Sequences, Functions

CONSTANTS
    Threads, Item,
    Null,        \* no item
    Capacity,
    MaxPushes    \* bound: a push begins only in front of this position

VARIABLES
    storage,          \* _storage, sequence number and item of every slot
    ahead, atail,     \* _head and _tail
    at, op,           \* where each thread is, and its call
    pos, item,        \* its local variables
    line, claimed     \* history: claimed positions in order, the last pop

vars == <<storage, ahead, atail, at, op, pos, item, line, claimed>>

NoCall == [pushes |-> FALSE, blocks |-> FALSE]

Init ==
    /\ storage = [i \in 0 .. Capacity - 1 |-> [sequence |-> i, item |-> Null]]
    /\ ahead = 0 /\ atail = 0
    /\ at = [t \in Threads |-> "idle"]
    /\ op = [t \in Threads |-> NoCall]
    /\ pos = [t \in Threads |-> 0] /\ item = [t \in Threads |-> Null]
    /\ line = <<>> /\ claimed = {}

Goto(t, from, to) == at[t] = from /\ at' = [at EXCEPT ![t] = to]

Return(t) ==
    /\ at' = [at EXCEPT ![t] = "idle"] /\ op' = [op EXCEPT ![t] = NoCall]
    /\ pos' = [pos EXCEPT ![t] = 0] /\ item' = [item EXCEPT ![t] = Null]

(* push_back and try_push_back. *)
Push(t, x, blocks) ==
    /\ ahead < MaxPushes
    /\ Goto(t, "idle", "load")
    /\ op' = [op EXCEPT ![t] = [pushes |-> TRUE, blocks |-> blocks]]
    /\ item' = [item EXCEPT ![t] = x]
    /\ UNCHANGED <<storage, ahead, atail, pos, line, claimed>>

(* pop_front and try_pop_front, on which pop_front_or rests. *)
Pop(t, blocks) ==
    /\ Goto(t, "idle", "load")
    /\ op' = [op EXCEPT ![t] = [pushes |-> FALSE, blocks |-> blocks]]
    /\ item' = [item EXCEPT ![t] = Null]
    /\ UNCHANGED <<storage, ahead, atail, pos, line, claimed>>

Current(t) == IF op[t].pushes THEN ahead ELSE atail
Slot(t) == pos[t] % Capacity

Load(t) ==
    /\ Goto(t, "load", "test")
    /\ pos' = [pos EXCEPT ![t] = Current(t)]
    /\ UNCHANGED <<storage, ahead, atail, op, item, line, claimed>>

(* The sequence number for which the thread waits. *)
Turn(t) == IF op[t].pushes THEN pos[t] ELSE pos[t] + 1

Sequence(t) == storage[Slot(t)].sequence

\* Mutant: a push does not wait for the slot to be popped.
ReadyEarly(t) ==
    /\ at[t] = "test"
    /\ Sequence(t) = Turn(t) \/ (op[t].pushes /\ Sequence(t) < Turn(t))

Ready(t) == at[t] = "test" /\ Sequence(t) = Turn(t)

IsTurn(t) ==
    /\ Ready(t)
    /\ Goto(t, "test", "exchange")
    /\ UNCHANGED <<storage, ahead, atail, op, pos, item, line, claimed>>

\* Mutant: a position that was taken meanwhile is not loaded anew.
TooLateStale(t) ==
    /\ Sequence(t) > Turn(t)
    /\ Goto(t, "test", "test")
    /\ UNCHANGED <<storage, ahead, atail, op, pos, item, line, claimed>>

(* The position was taken meanwhile. *)
TooLate(t) ==
    /\ Sequence(t) > Turn(t)
    /\ Goto(t, "test", "load")
    /\ UNCHANGED <<storage, ahead, atail, op, pos, item, line, claimed>>

(* The queue is full, or empty. *)
TooEarly(t) ==
    /\ at[t] = "test" /\ Sequence(t) < Turn(t)
    /\ \/ op[t].blocks /\ Goto(t, "test", "load") /\ UNCHANGED <<op, pos, item>>
       \/ ~op[t].blocks /\ Return(t)
    /\ UNCHANGED <<storage, ahead, atail, line, claimed>>

(* compare_exchange_weak, which fails on x86 only if the position moved. *)
Claim(t) ==
    /\ pos[t] = Current(t)
    /\ Goto(t, "exchange", "data")
    /\ IF op[t].pushes
       THEN /\ ahead' = ahead + 1 /\ line' = Append(line, item[t])
            /\ UNCHANGED <<atail, claimed>>
       ELSE /\ atail' = atail + 1 /\ line' = Tail(line)
            /\ claimed' = {storage[Slot(t)].item}
            /\ UNCHANGED ahead
    /\ UNCHANGED <<storage, op, pos, item>>

Missed(t) ==
    /\ pos[t] # Current(t)
    /\ Goto(t, "exchange", "test")
    /\ pos' = [pos EXCEPT ![t] = Current(t)]
    /\ UNCHANGED <<storage, ahead, atail, op, item, line, claimed>>

Data(t) ==
    /\ Goto(t, "data", "store")
    /\ IF op[t].pushes
       THEN storage' = [storage EXCEPT ![Slot(t)].item = item[t]] /\ UNCHANGED item
       ELSE item' = [item EXCEPT ![t] = storage[Slot(t)].item] /\ UNCHANGED storage
    /\ UNCHANGED <<ahead, atail, op, pos, line, claimed>>

Store(t) ==
    /\ at[t] = "store" /\ Return(t)
    /\ storage' = [storage EXCEPT ![Slot(t)].sequence =
                     IF op[t].pushes THEN pos[t] + 1 ELSE pos[t] + Capacity]
    /\ UNCHANGED <<ahead, atail, line, claimed>>

Proceed(t) ==
    \/ Load(t) \/ IsTurn(t) \/ TooLate(t) \/ TooEarly(t)
    \/ Claim(t) \/ Missed(t) \/ Data(t) \/ Store(t)

Next ==
    \E t \in Threads :
        \/ \E blocks \in BOOLEAN : Pop(t, blocks) \/ \E x \in Item : Push(t, x, blocks)
        \/ Proceed(t)

(* Threads keep running. *)
Fairness == \A t \in Threads : WF_vars(Proceed(t))
-----------------------------------------------------------------------------

Bounded == INSTANCE FIFOQueue WITH queue <- line, taken <- claimed

(* Items leave in the order in which their positions were claimed, and a     *)
(* position is claimed for popping only when its item is there.              *)
ImplementsBoundedFIFO == Bounded!FSpec

(* A push_back does not wait for ever unless the queue is full again and     *)
(* again, a pop_front not unless it is empty.                                *)
WaitsOnlyWhenStuck ==
    \A t \in Threads :
        []<>(\/ at[t] = "idle"
             \/ op[t].pushes /\ ahead - atail = Capacity
             \/ ~op[t].pushes /\ line = <<>>)
=============================================================================
