------------------------------ MODULE Channel ------------------------------
(***************************************************************************)
(* One channel with its worker (channel.h, the loops of Worker::execute):  *)
(* tasks are pushed to the local queue by the worker itself and to remote  *)
(* queues, one per NUMA region of the producer, by others; the worker      *)
(* moves them to the task buffer and executes them from there.  A fill     *)
(* takes one task after the other, while producers go on pushing.          *)
(*                                                                         *)
(* A remote queue is an MPSCQueue: a pushed task is visible to the worker  *)
(* only when the producers have linked it and all tasks before it.         *)
(***************************************************************************)
EXTENDS TaskBuffer, FiniteSets, Functions

CONSTANTS
    NumaNodes,   \* length of the array of remote queues: 8 in the code
    OwnNode,     \* the region of the worker
    Profiling,   \* the ProfilingTask, if the channel has one
    SpawnBound   \* how many pushes are explored

ASSUME ChannelAssumption ==
    /\ NumaNodes \in Nat \ {0}
    /\ OwnNode \in 0 .. NumaNodes - 1
    /\ SpawnBound \in Nat

Node == 0 .. NumaNodes - 1
Priority == {"low", "normal"}

VARIABLES
    local,     \* local[P]: _local_queues
    linked,    \* linked[P][n]: what the worker can see of _remote_queues
    pending,   \* pending[P][n]: behind a link that is not yet written
    buffer,    \* _task_buffer
    size,      \* Worker::_channel_size
    pc,        \* where the worker is: "fill", "filling", "next" or "run"
    filling,   \* the fill() under way
    current,   \* the task the worker executes
    order,     \* history: what was pushed to each queue and has not started
    spawned

queues == <<local, linked, pending>>
vars == <<queues, buffer, size, pc, filling, current, order, spawned>>

Queue == Priority \X (Node \cup {-1})
QueueOf(P, n) == <<P, n>>

(* A fill: where in fill<P> it is, where the worker goes on after it, and  *)
(* as a history the normal tasks that were there when it began.            *)
Fills == [priority : Priority, source : 0 .. NumaNodes, room : 0 .. S,
          then : {"next", "run", "profile"}, seen : SUBSET Tasks]
NoFill == [priority |-> "normal", source |-> 0, room |-> 0, then |-> "next", seen |-> {}]

Init ==
    /\ local = [P \in Priority |-> <<>>]
    /\ linked = [P \in Priority |-> [n \in Node |-> <<>>]]
    /\ pending = [P \in Priority |-> [n \in Node |-> <<>>]]
    /\ buffer = EmptyBuffer
    /\ size = 0
    /\ pc = "fill"
    /\ filling = NoFill
    /\ current = Nil
    /\ order = [q \in Queue |-> <<>>]
    /\ spawned = 0

BufferTasks == Range(buffer.slot) \ {Nil}
Rest(q) == IF q[2] = -1 THEN local[q[1]] ELSE linked[q[1]][q[2]] \o pending[q[1]][q[2]]
QueueTasks == UNION {Range(Rest(q)) : q \in Queue}
Idle == Tasks \ (BufferTasks \cup QueueTasks \cup {current})

(* The tasks that may be pushed: the profiling task, and one of the others *)
(* that stands for all of them, as they differ in nothing.                 *)
Fresh ==
    {t \in Idle : t = Profiling \/ t = CHOOSE u \in Idle \ {Profiling} : TRUE}

-----------------------------------------------------------------------------
(* Pushing. *)

CountSpawn == spawned < SpawnBound /\ spawned' = spawned + 1

(* push_back_local: only from the worker's own tasks. *)
PushLocal(t, P) ==
    /\ pc = "run"
    /\ t \in Fresh
    /\ CountSpawn
    /\ local' = [local EXCEPT ![P] = Append(@, t)]
    /\ order' = [order EXCEPT ![QueueOf(P, -1)] = Append(@, t)]
    /\ UNCHANGED <<linked, pending, buffer, size, pc, filling, current>>

(* push_back_remote: the exchange of the MPSC queue ... *)
PushRemote(t, P, n) ==
    /\ t \in Fresh
    /\ CountSpawn
    /\ pending' = [pending EXCEPT ![P][n] = Append(@, t)]
    /\ order' = [order EXCEPT ![QueueOf(P, n)] = Append(@, t)]
    /\ UNCHANGED <<local, linked, buffer, size, pc, filling, current>>

(* ... and the link that makes the task visible. *)
Link(P, n) ==
    /\ pending[P][n] # <<>>
    /\ linked' = [linked EXCEPT ![P][n] = Append(@, Head(pending[P][n]))]
    /\ pending' = [pending EXCEPT ![P][n] = Tail(@)]
    /\ UNCHANGED <<local, buffer, size, pc, filling, current, order, spawned>>

-----------------------------------------------------------------------------
(* Filling the buffer. *)

(* Mutant: only the queue of the worker's own NUMA region. *)
OwnRegion(i) == OwnNode
(* The queues fill<P> goes through: the local one, number 0, then the      *)
(* remote ones from the worker's own NUMA region on.                       *)
Region(i) == (OwnNode + i - 1) % NumaNodes
Source(P, i) == IF i = 0 THEN local[P] ELSE linked[P][Region(i)]
Ready(P) == UNION {Range(Source(P, i)) : i \in 0 .. NumaNodes}

(* Channel::fill begins: fill<normal>(available_slots()). *)
Fill(b, then) ==
    /\ filling' = [priority |-> "normal", source |-> 0, room |-> AvailableSlots(b),
                   then |-> then, seen |-> Ready("normal")]
    /\ pc' = "filling"

PopFront(P, i) ==
    \/ i = 0 /\ local' = [local EXCEPT ![P] = Tail(@)] /\ UNCHANGED linked
    \/ i > 0 /\ linked' = [linked EXCEPT ![P][Region(i)] = Tail(@)] /\ UNCHANGED local

(* pop_front finds a task, ... *)
FillOne ==
    LET P == filling.priority
        i == filling.source
    IN  /\ pc = "filling" /\ filling.room > 0 /\ Source(P, i) # <<>>
        /\ buffer' = Store(buffer, Head(Source(P, i)), filling.room)
        /\ PopFront(P, i)
        /\ filling' = [filling EXCEPT !.room = @ - 1]
        /\ UNCHANGED <<pending, size, pc, current, order, spawned>>

(* ... or none, and the next queue has its turn. *)
FillOn ==
    /\ pc = "filling" /\ filling.room > 0 /\ filling.source < NumaNodes
    /\ Source(filling.priority, filling.source) = <<>>
    /\ filling' = [filling EXCEPT !.source = @ + 1]
    /\ UNCHANGED <<queues, buffer, size, pc, current, order, spawned>>

Filled ==
    /\ pc = "filling"
    /\ \/ filling.room = 0
       \/ filling.source = NumaNodes /\ Source(filling.priority, NumaNodes) = <<>>

(* Mutant: the low prioritised tasks have room for a whole buffer, always. *)
FillLowAlways ==
    /\ Filled /\ filling.priority = "normal"
    /\ filling' = [filling EXCEPT !.priority = "low", !.source = 0, !.room = S]
    /\ UNCHANGED <<queues, buffer, size, pc, current, order, spawned>>
(* fill<low>: only if the buffer stayed empty. *)
FillLow ==
    /\ Filled /\ filling.priority = "normal" /\ BufferEmpty(buffer)
    /\ filling' = [filling EXCEPT !.priority = "low", !.source = 0, !.room = S]
    /\ UNCHANGED <<queues, buffer, size, pc, current, order, spawned>>

(* fill returns.  ProfilingTask ignores the size of the buffer. *)
FillEnd ==
    /\ Filled /\ (filling.priority = "normal" => ~BufferEmpty(buffer))
    /\ IF filling.then = "profile" THEN pc' = "run" /\ UNCHANGED size
                                   ELSE pc' = filling.then /\ size' = S - filling.room
    /\ filling' = NoFill
    /\ UNCHANGED <<queues, buffer, current, order, spawned>>

-----------------------------------------------------------------------------
(* The worker. *)

(* The outer loop fills an empty buffer. *)
FillBuffer ==
    /\ pc = "fill"
    /\ Fill(buffer, "next")
    /\ UNCHANGED <<queues, buffer, size, current, order, spawned>>

(* The inner loop ends. *)
NextNothing ==
    /\ pc = "next"
    /\ BufferEmpty(buffer)
    /\ pc' = "fill"
    /\ UNCHANGED <<queues, buffer, size, filling, current, order, spawned>>

(* The head of the buffer is taken out. *)
TakeNext ==
    /\ pc = "next"
    /\ ~BufferEmpty(buffer)
    /\ current' = buffer.slot[buffer.head]
    /\ buffer' = Consume(buffer)
    /\ size' = size - 1
    /\ order' = [q \in Queue |-> IF current' \in Range(order[q]) THEN Tail(order[q]) ELSE order[q]]
    /\ UNCHANGED <<queues, spawned>>

(* Mutant: refilled when the buffer has run dry. *)
RefillWhenDry == TakeNext /\ pc' = "run" /\ UNCHANGED filling
(* The next task is taken out, and the buffer filled up once it holds no   *)
(* more tasks than the prefetch distance.                                  *)
NextTask ==
    /\ TakeNext
    /\ IF size' <= PrefetchDistance THEN Fill(buffer', "run")
                                    ELSE pc' = "run" /\ UNCHANGED filling

(* ProfilingTask::execute fills the buffer of its channel while it is      *)
(* empty; the worker's count of the buffer does not notice.                *)
ProfilingFill ==
    /\ pc = "run" /\ current = Profiling
    /\ BufferEmpty(buffer)
    /\ Fill(buffer, "profile")
    /\ UNCHANGED <<queues, buffer, size, current, order, spawned>>

Return ==
    /\ pc = "run"
    /\ current = Profiling => ~BufferEmpty(buffer)
    /\ pc' = "next"
    /\ current' = Nil
    /\ UNCHANGED <<queues, buffer, size, filling, order, spawned>>

(* The task returned itself as its successor. *)
ReturnSuccessor(P) ==
    /\ pc = "run"
    /\ current = Profiling => ~BufferEmpty(buffer)
    /\ CountSpawn
    /\ local' = [local EXCEPT ![P] = Append(@, current)]
    /\ order' = [order EXCEPT ![QueueOf(P, -1)] = Append(@, current)]
    /\ pc' = "next"
    /\ current' = Nil
    /\ UNCHANGED <<linked, pending, buffer, size, filling>>

Worker ==
    \/ FillBuffer \/ FillOne \/ FillOn \/ FillLow \/ FillEnd
    \/ NextNothing \/ NextTask \/ ProfilingFill \/ Return
    \/ \E P \in Priority : ReturnSuccessor(P)

Next ==
    \/ \E t \in Tasks, P \in Priority : PushLocal(t, P)
    \/ \E t \in Tasks, P \in Priority, n \in Node : PushRemote(t, P, n)
    \/ \E P \in Priority, n \in Node : Link(P, n)
    \/ Worker

Spec == Init /\ [][Next]_vars

(* The worker keeps running and producers finish their pushes. *)
FairSpec ==
    /\ Spec
    /\ WF_vars(Worker)
    /\ \A P \in Priority, n \in Node : WF_vars(Link(P, n))
-----------------------------------------------------------------------------

Occupied == {s \in Slots : buffer.slot[s] # Nil}

(* The tasks of the buffer lie between head and tail, without a gap.  That *)
(* size() is wrong for a full buffer does no harm, and _channel_size never *)
(* promises more tasks than there are, even behind a ProfilingTask.  A     *)
(* prefetch waits exactly PrefetchDistance slots before the task it is for *)
(* and every task that far from the head has one.                          *)
BufferIsRing ==
    LET n == Cardinality(Occupied)
        place(i) == Normalize(buffer.head + i)
    IN  /\ buffer \in Buffers
        /\ Occupied = {place(i) : i \in 0 .. n - 1}
        /\ buffer.tail = place(n)
        /\ size <= n
        /\ BufferDistance > 0 => \A i \in 0 .. n - 1 :
              buffer.prefetch[place(i)] =
                  IF i + BufferDistance < n THEN buffer.slot[place(i + BufferDistance)] ELSE Nil

(* Tasks pushed to the same queue are executed in the order of the pushes, *)
(* none is executed twice, and until then each of them is in its queue or  *)
(* in the buffer, where none is overwritten.                               *)
InOrder ==
    [][/\ \A q \in Queue :
             \/ order'[q] = order[q]
             \/ \E t \in Tasks : order'[q] = Append(order[q], t)
             \/ /\ order[q] # <<>>
                /\ order'[q] = Tail(order[q])
                /\ current' = Head(order[q])
       /\ (UNION {Range(order[q]) : q \in Queue} = BufferTasks \cup QueueTasks)']_vars

(* "Whenever the worker-local task-buffer falls under the prefetch         *)
(* distance, we re-fill the buffer": a task starts with so few tasks       *)
(* behind it only if every normal task that was there for the last fill,   *)
(* or is there if there was none, has been taken.                          *)
RefilledInTime ==
    [][/\ pc # "run" /\ pc' = "run"
       /\ Cardinality(Occupied') <= PrefetchDistance /\ PrefetchDistance < S
       => (IF pc = "filling" THEN filling.seen ELSE Ready("normal")) \cap QueueTasks' = {}]_vars

(* Every task that was pushed is executed, of either priority and from     *)
(* every NUMA region, when pushes become fewer than executions.            *)
Drains == <>[](BufferTasks \cup QueueTasks = {})
=============================================================================
