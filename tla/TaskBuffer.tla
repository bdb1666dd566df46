----------------------------- MODULE TaskBuffer -----------------------------
(* The ring buffer of tasks that are ready to execute (task_buffer.h), and   *)
(* the prefetch instructions that wait in its slots (prefetch_slot.h).       *)
EXTENDS Integers, Sequences

CONSTANTS
    S,                 \* number of slots: 64 in the code, a power of two
    PrefetchDistance,  \* given to the runtime when it is started
    Tasks,
    Nil

ASSUME BufferAssumption ==
    /\ S \in Nat \ {0}
    /\ PrefetchDistance \in Nat
    /\ Nil \notin Tasks

Slots == 0 .. S - 1

(* The buffer gets the distance as an 8-bit integer. *)
BufferDistance == PrefetchDistance % 256

Buffers == [slot : [Slots -> Tasks \cup {Nil}], prefetch : [Slots -> Tasks \cup {Nil}],
            head : Slots, tail : Slots]

EmptyBuffer == [slot |-> [i \in Slots |-> Nil], prefetch |-> [i \in Slots |-> Nil],
                head |-> 0, tail |-> 0]

(* index & (S - 1), where S is a power of two. *)
Normalize(index) == index % S

NormalizeBackward(index, offset) ==
    IF index >= offset THEN index - offset ELSE S - (offset - index)

BufferEmpty(b) == b.slot[b.head] = Nil

(* Zero for a full buffer, whose head and tail meet. *)
BufferSize(b) == IF b.tail >= b.head THEN b.tail - b.head ELSE S - (b.head - b.tail)

AvailableSlots(b) == S - BufferSize(b)

(* Whether a task has enough others in front of it to be prefetched, when  *)
(* there is room for so many.                                              *)
Prefetches(room) == BufferDistance > 0 /\ S - room >= BufferDistance

(* One round of TaskBuffer::fill: a task goes to the slot at the tail, and *)
(* its prefetch that many slots before.                                    *)
Store(b, task, room) ==
    LET ahead == NormalizeBackward(b.tail, BufferDistance)
    IN  [slot     |-> [b.slot EXCEPT ![b.tail] = task],
         prefetch |-> IF Prefetches(room) THEN [b.prefetch EXCEPT ![ahead] = task] ELSE b.prefetch,
         head     |-> b.head,
         tail     |-> Normalize(b.tail + 1)]

(* Mutant: the slot is left as it is. *)
KeepSlot(b) ==
    [b EXCEPT !.prefetch[b.head] = Nil, !.head = Normalize(b.head + 1)]

(* TaskBuffer::next on a buffer that is not empty: the prefetch waiting in *)
(* the slot is issued and the slot given free.                             *)
Consume(b) ==
    [slot     |-> [b.slot EXCEPT ![b.head] = Nil],
     prefetch |-> [b.prefetch EXCEPT ![b.head] = Nil],
     head     |-> Normalize(b.head + 1),
     tail     |-> b.tail]
=============================================================================
