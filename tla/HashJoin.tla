------------------------------ MODULE HashJoin ------------------------------
(* The hash join benchmark: partition tasks distribute the keys of the left  *)
(* table to one hash table per channel; notifications that follow the build  *)
(* tasks through the same queues tell when all tables are complete; the same *)
(* happens for the right table and the probes; the last channel merges.      *)
(*                                                                           *)
(* A table belongs to one channel and is accessed by its tasks only, and a   *)
(* channel executes what comes from one source in order (Tasking, Channel).  *)
(* So a task is one step, with all that it spawns: whatever could happen     *)
(* between two of its spawns could as well happen after the last.            *)
EXTENDS Naturals, Sequences, FiniteSets, FiniteSetsExt, Functions

CONSTANTS
    Inputs,       \* possible join keys: a left and a right sequence
    CoreSets,     \* core counts of the configurations, in order
    Batches,      \* _batches: rows per build or probe task
    Iterations,   \* iterations per configuration and batch
    KeysPerLine,  \* 64U / sizeof(std::uint32_t)
    Hash          \* InlineHashtable::hash

VARIABLES
    input,        \* _join_keys
    config,       \* index of the core set; 0 before the first
    batch,        \* _current_batch_index, from 1
    iteration,    \* _current_iteration
    running,      \* whether the runtime is executing tasks
    queue,        \* queue[s][c]: tasks that channel s has spawned to c
    table,        \* _hash_tables
    result,       \* _result_sets of the merge task
    local,        \* _pending_local_notifications of both listeners
    global,       \* _pending_global_notifications of both listeners
    output        \* _count_output_tuples

vars == <<input, config, batch, iteration, running, queue, table, result, local, global, output>>

Ended == config > Len(CoreSets)
Count == CoreSets[config]
Channels == 0 .. Count - 1
Sides == {"left", "right"}
None == 2^16            \* greatest K, marks an empty slot; greatest V, no row

TuplesPerCore(count, cores) == ((count \div KeysPerLine) \div cores) * KeysPerLine
PerCore(side) == TuplesPerCore(Len(input[side]), Count)
KeysFor(side, c) ==
    IF c < Count - 1 THEN PerCore(side) ELSE Len(input[side]) - (Count - 1) * PerCore(side)

ASSUME InputAssumption ==
    /\ Inputs \subseteq [Sides -> Seq(Nat)]
    /\ CoreSets \in Seq(Nat \ {0})
    /\ Batches \in Seq(Nat \ {0}) /\ Batches # <<>>
    /\ KeysPerLine \in Nat \ {0}
    /\ \A i \in Inputs, n \in DOMAIN CoreSets, side \in Sides : TuplesPerCore(Len(i[side]), CoreSets[n]) > 0

NextPowerOfTwo(n) == CHOOSE p \in {2^i : i \in 0..n} : p >= n /\ (p = 1 \/ p \div 2 < n)
Slots == NextPowerOfTwo((PerCore("left") * 3) \div 2)

------------------------------------------------------------------------------
(* InlineHashtable.  The slots in which a search for a key can end; without  *)
(* one it would go on around the table forever.                              *)
Ends(t, key) == {d \in 0 .. Slots - 1 : t[(Hash[key] + d) % Slots].key \in {key, None}}
At(t, key) == (Hash[key] + Min(Ends(t, key))) % Slots

Insert(t, row) == [t EXCEPT ![At(t, row.key)] = row]
\* Mutant: only the first slot is looked at.
GetFirst(t, key) == IF t[Hash[key] % Slots].key = key THEN t[Hash[key] % Slots].id ELSE None
Get(t, key) == IF t[At(t, key)].key = key THEN t[At(t, key)].id ELSE None

Keys(rows) == {rows[i].key : i \in DOMAIN rows}
HasRoom(t, rows) == Cardinality((Keys(rows) \cup Keys(t)) \ {None}) <= Slots

EmptyTable == [s \in 0 .. Slots - 1 |-> [id |-> 0, key |-> None]]

\* Mutant: the vector grows when it is beyond its end.
GrownLate(capacity, size) == IF size <= capacity THEN capacity ELSE capacity * 2
(* util::vector doubles its capacity when it is full. *)
Grown(capacity, size) == IF size < capacity THEN capacity ELSE capacity * 2
Append1(r, pair) ==
    [pairs |-> r.pairs \cup {pair}, size |-> r.size + 1, capacity |-> Grown(r.capacity, r.size)]

------------------------------------------------------------------------------
(* The rows of a core's chunk, numbered as PartitionTask does it, and those  *)
(* of them that go to a target.                                              *)
Rows(side, c) ==
    [i \in 1 .. KeysFor(side, c) |->
        [id |-> c * KeysFor(side, c) + i - 1, key |-> input[side][c * PerCore(side) + i]]]
RowsTo(side, c, target) ==
    LET mine == {i \in 1 .. KeysFor(side, c) : Rows(side, c)[i].key % Count = target}
    IN  [n \in 1 .. Cardinality(mine) |->
            Rows(side, c)[CHOOSE i \in mine : Cardinality({j \in mine : j <= i}) = n]]

Task(kind, side, rows) == [kind |-> kind, side |-> side, rows |-> rows]
Notification(side) == Task("notify", side, <<>>)

(* What a partition task spawns to a target: full batches, the rest, which   *)
(* may be empty, and a notification.                                         *)
Batched(side, rows) ==
    LET size == Batches[batch]
    IN  [i \in 1 .. Len(rows) \div size + 1 |->
            Task("batch", side, SubSeq(rows, (i - 1) * size + 1, IF i * size < Len(rows) THEN i * size ELSE Len(rows)))]
\* Mutant: the notification overtakes the last batch.
SpawnedEarly(side, c, target) ==
    LET tasks == Batched(side, RowsTo(side, c, target))
    IN  [tasks EXCEPT ![Len(tasks)] = Notification(side)] \o <<tasks[Len(tasks)]>>
\* Mutant: no notification for a target without a last batch.
SpawnedUnlessEmpty(side, c, target) ==
    LET tasks == Batched(side, RowsTo(side, c, target))
    IN  IF tasks[Len(tasks)].rows = <<>> THEN SubSeq(tasks, 1, Len(tasks) - 1)
                                         ELSE Append(tasks, Notification(side))
Spawned(side, c, target) == Append(Batched(side, RowsTo(side, c, target)), Notification(side))

NoTasks == [s \in Channels |-> [c \in Channels |-> <<>>]]

Init ==
    /\ input \in Inputs
    /\ config = 0 /\ batch = 1 /\ iteration = 0
    /\ running = FALSE
    /\ queue = <<>> /\ table = <<>> /\ result = <<>>
    /\ local = <<>> /\ global = <<>> /\ output = 0

(* Benchmark::core_set: the next iteration, batch size or core set. *)
CoreSet ==
    \/ /\ config = 0
       /\ config' = 1
       /\ UNCHANGED <<iteration, batch>>
    \/ /\ config > 0 /\ iteration + 1 < Iterations
       /\ iteration' = iteration + 1
       /\ UNCHANGED <<batch, config>>
    \/ /\ config > 0 /\ iteration + 1 >= Iterations
       /\ iteration' = 0
       /\ IF batch < Len(Batches) THEN batch' = batch + 1 /\ UNCHANGED config
                                  ELSE batch' = 1 /\ config' = config + 1

(* Listener: every channel is notified by every channel. *)
Pending == [side \in Sides |-> [c \in Channels |-> Count]]

(* Benchmark::start: listeners, tables, result sets, and one partition task  *)
(* for the left table per channel, all spawned as if from channel 0.         *)
Start ==
    /\ ~running /\ ~Ended
    /\ CoreSet
    /\ UNCHANGED input
    /\ IF Ended' THEN table' = <<>> /\ UNCHANGED <<running, queue, result, local, global, output>>
       ELSE /\ running' = TRUE
            /\ output' = 0
            /\ local' = Pending'
            /\ global' = [side \in Sides |-> Count']
            /\ table' = [c \in Channels' |-> EmptyTable']
            /\ result' = [c \in Channels' |-> [pairs |-> {}, size |-> 0, capacity |-> PerCore("right")']]
            /\ queue' = [NoTasks' EXCEPT ![0] = [c \in Channels' |-> <<Task("partition", "left", <<>>)>>]]

------------------------------------------------------------------------------
(* Channel c executes the next task that s has spawned to it. *)
Next1(s, c, kind) == running /\ {s, c} \subseteq Channels /\ queue[s][c] # <<>> /\ Head(queue[s][c]).kind = kind

Popped(s, c) == [queue EXCEPT ![s][c] = Tail(@)]
SpawnTo(q, c, tasks) == [q EXCEPT ![c] = [t \in Channels |-> @[t] \o tasks[t]]]

Partition(s, c) ==
    /\ Next1(s, c, "partition")
    /\ LET side == Head(queue[s][c]).side
       IN  queue' = SpawnTo(Popped(s, c), c, [t \in Channels |-> Spawned(side, c, t)])
    /\ UNCHANGED <<table, result, local, global, output, running>>

(* The rows of a batch go into a table, or are looked up in it, in order. *)
Inserted(t, rows) ==
    LET after[i \in 0 .. Len(rows)] == IF i = 0 THEN t ELSE Insert(after[i - 1], rows[i])
    IN  after[Len(rows)]

Matched(t, r, rows) ==
    LET after[i \in 0 .. Len(rows)] ==
            IF i = 0 THEN r
            ELSE IF Get(t, rows[i].key) = None THEN after[i - 1]
            ELSE Append1(after[i - 1], <<rows[i].id, Get(t, rows[i].key)>>)
    IN  after[Len(rows)]

Build(s, c) ==
    /\ Next1(s, c, "batch") /\ Head(queue[s][c]).side = "left"
    /\ LET rows == Head(queue[s][c]).rows
       IN  /\ HasRoom(table[c], rows)
           /\ table' = [table EXCEPT ![c] = Inserted(@, rows)]
    /\ queue' = Popped(s, c)
    /\ UNCHANGED <<result, local, global, output, running>>

Probe(s, c) ==
    /\ Next1(s, c, "batch") /\ Head(queue[s][c]).side = "right"
    /\ LET rows == Head(queue[s][c]).rows
       IN  /\ \A i \in DOMAIN rows : Ends(table[c], rows[i].key) # {}
           /\ result' = [result EXCEPT ![c] = Matched(table[c], @, rows)]
    /\ queue' = Popped(s, c)
    /\ UNCHANGED <<table, local, global, output, running>>

(* The notifiers: the last notification of the left side releases the        *)
(* partition tasks of the right side, that of the right side the merge.      *)
Released(side, c) ==
    [t \in Channels |->
        CASE side = "left" -> <<Task("partition", "right", <<>>)>>
          [] side = "right" /\ t = c -> <<Task("merge", "right", <<>>)>>
          [] OTHER -> <<>>]

Notify(s, c) ==
    /\ Next1(s, c, "notify")
    /\ LET side == Head(queue[s][c]).side
           last == local[side][c] = 1
       IN  /\ local' = [local EXCEPT ![side][c] = @ - 1]
           /\ global' = IF last THEN [global EXCEPT ![side] = @ - 1] ELSE global
           /\ queue' = IF last /\ global[side] = 1 THEN SpawnTo(Popped(s, c), c, Released(side, c)) ELSE Popped(s, c)
    /\ UNCHANGED <<table, result, output, running>>

(* MergeTask counts the results and stops the runtime. *)
Merge(s, c) ==
    /\ Next1(s, c, "merge")
    /\ output' = MapThenSumSet(LAMBDA d : result[d].size, Channels)
    /\ running' = FALSE
    /\ queue' = Popped(s, c)
    /\ UNCHANGED <<table, result, local, global>>

Execute(s, c) ==
    /\ Partition(s, c) \/ Build(s, c) \/ Probe(s, c) \/ Notify(s, c) \/ Merge(s, c)
    /\ UNCHANGED <<input, config, batch, iteration>>

AllChannels == 0 .. Max(Range(CoreSets)) - 1

Next == Start \/ \E s, c \in AllChannels : Execute(s, c)

(* Every queue of a channel is served again and again (Channel!Drains), and  *)
(* the main thread goes on once the runtime has stopped.                     *)
Fairness == WF_vars(Start) /\ \A s, c \in AllChannels : WF_vars(Execute(s, c))

Spec == Init /\ [][Next]_vars /\ Fairness
------------------------------------------------------------------------------
Queued(kinds, side) ==
    {q \in Channels \X Channels : \E i \in DOMAIN queue[q[1]][q[2]] :
        queue[q[1]][q[2]][i].kind \in kinds /\ queue[q[1]][q[2]][i].side = side}

(* Counters stay in the range of unsigned integers, no slot holds a key of   *)
(* another channel, and no result is written behind the end of its vector.   *)
TypeOK ==
    config \in 1 .. Len(CoreSets) =>
      /\ output \in Nat
      /\ local \in [Sides -> [Channels -> 0 .. Count]] /\ global \in [Sides -> 0 .. Count]
      /\ \A c \in Channels :
            /\ result[c].size <= result[c].capacity
            /\ running => \A t \in DOMAIN table[c] : table[c][t].key = None \/ table[c][t].key % Count = c

(* Nothing of the right side is there, let alone probed, before every build  *)
(* task of every channel is done, although no channel waits for another; and *)
(* the merge finds no other task, so that it can stop the runtime.           *)
PhasesInOrder ==
    running =>
      /\ Queued({"partition", "batch"}, "right") # {} =>
            Queued({"partition", "batch", "notify"}, "left") = {}
      /\ Queued({"merge"}, "right") # {} =>
            \A s, c \in Channels :
                queue[s][c] = (IF <<s, c>> \in Queued({"merge"}, "right") THEN <<Task("merge", "right", <<>>)>> ELSE <<>>)
      /\ Cardinality(Queued({"merge"}, "right")) <= 1

(* The row of a side with a number, and the joined rows by definition. *)
Numbered(side) == UNION {{Rows(side, c)[i] : i \in 1 .. KeysFor(side, c)} : c \in Channels}

(* When the join is over, the result has one pair for every right row whose  *)
(* key is in the left table, with a left row of the same key, over all       *)
(* batch sizes, collisions and orders of execution; and that was counted.    *)
JoinIsComplete ==
    ~running /\ config \in 1 .. Len(CoreSets) =>
      LET pairs == UNION {result[c].pairs : c \in Channels}
          leftKeys == {l.key : l \in Numbered("left")}
      IN  /\ output = Cardinality({r \in DOMAIN input.right : input.right[r] \in Range(input.left)})
          /\ \A r \in Numbered("right") :
                Cardinality({p \in pairs : p[1] = r.id}) = IF r.key \in leftKeys THEN 1 ELSE 0
          /\ \A p \in pairs : \E r \in Numbered("right"), l \in Numbered("left") :
                p = <<r.id, l.id>> /\ r.key = l.key

(* Every table has a slot left over for the keys that it gets. *)
Fits ==
    config \in 1 .. Len(CoreSets) =>
      \A c \in Channels : Cardinality({k \in Range(input.left) : k % Count = c}) < Slots

(* If no table ever gets full, every join of every configuration ends.       *)
JoinsEnd == []Fits => <>Ended
=============================================================================
