-------------------------- MODULE RequestScheduler --------------------------
(* The B-Link tree benchmark around the tree: one request container and one  *)
(* RequestSchedulerTask per core share a workload, keep a bounded number of  *)
(* requests in flight, and the last of them to run dry ends the phase.  The  *)
(* main thread then starts the next phase, iteration or core configuration.  *)
EXTENDS BLinkTree

CONSTANTS
    Workloads,    \* possible workloads: a fill and a mixed sequence of tuples
    CoreSets,     \* core counts of the configurations, in order
    Iterations,   \* iterations per configuration
    BatchSize,    \* config::batch_size()
    MaxParallel   \* config::max_parallel_requests()

(* A request has the number of its tuple, and a container that of its core. *)
ASSUME SchedulerAssumption ==
    /\ \A w \in Workloads, p \in {"fill", "mixed"} :
          /\ w[p] \in Seq([op : {"insert", "update", "lookup"}, key : Keys, value : Values])
          /\ 1..Len(w[p]) \subseteq Requests
    /\ CoreSets \in Seq(Nat \ {0}) /\ CoreSets # <<>>
    /\ \A i \in DOMAIN CoreSets : 1..CoreSets[i] \subseteq Listeners
    /\ IsFiniteSet(Requests) /\ IsFiniteSet(Listeners)
    /\ Iterations \in Nat \ {0} /\ BatchSize \in Nat \ {0} /\ MaxParallel \in Nat
    /\ Pending \notin Values

VARIABLES
    workload,     \* the workload set, fixed at startup
    phase,        \* _current_phase; "none" before the first, "end" after the last
    current,      \* _current_index of the workload, kept at its size once beyond
    config,       \* index of the current core set
    iteration,    \* _current_iteration
    running,      \* whether the runtime is executing tasks
    open,         \* _open_requests
    container,    \* the request container of each core
    todo          \* requests a scheduler task has taken and not yet spawned

svars == <<workload, phase, current, config, iteration, running, open, container, todo>>
vars == <<tvars, svars>>

Tuples == workload[IF phase = "mixed" THEN "mixed" ELSE "fill"]
Cores == 1..CoreSets[config]
MaxPending == MaxParallel \div CoreSets[config]

None == [index |-> 0, count |-> 0]
NoContainer == [alive |-> FALSE, scheduled |-> 0, buffer |-> None]

(* Workload::next: what a fetch_add at an index returns. *)
Batch(index, size) ==
    IF index < size
    THEN [index |-> index, count |-> IF BatchSize < size - index THEN BatchSize ELSE size - index]
    ELSE None
\* Mutant: the shared index moves on by one tuple too many.
AdvanceTooFar(index, size) == IF index + BatchSize + 1 < size THEN index + BatchSize + 1 ELSE size
Advance(index, size) == IF index + BatchSize < size THEN index + BatchSize ELSE size

Init ==
    /\ TreeInit
    /\ workload \in Workloads
    /\ phase = "none" /\ config = 1 /\ iteration = 0
    /\ running = FALSE /\ open = 0 /\ current = 0
    /\ container = [c \in Listeners |-> NoContainer]
    /\ todo = [c \in Listeners |-> None]

(* Benchmark::core_set: what the main thread runs next. *)
CoreSet ==
    \/ /\ phase = "none"
       /\ phase' = "fill"
       /\ UNCHANGED <<config, iteration>>
    \/ /\ phase = "fill" /\ workload.mixed # <<>>
       /\ phase' = "mixed"
       /\ UNCHANGED <<config, iteration>>
    \/ /\ phase = "mixed" \/ (phase = "fill" /\ workload.mixed = <<>>)
       /\ \/ /\ iteration + 1 < Iterations
             /\ iteration' = iteration + 1
             /\ phase' = "fill"
             /\ UNCHANGED config
          \/ /\ iteration + 1 >= Iterations
             /\ iteration' = 0
             /\ IF config < Len(CoreSets) THEN config' = config + 1 /\ phase' = "fill"
                                          ELSE phase' = "end" /\ UNCHANGED config

(* Benchmark::start: a tree if there is none, and a container and a task for *)
(* every core, each container taking its first batch as it is built.         *)
Start ==
    /\ ~running /\ phase # "end"
    /\ CoreSet
    /\ UNCHANGED <<workload, task, call, answer, todo>>
    /\ IF phase' = "end" THEN UNCHANGED <<nodes, root, height, finished, running, open, current, container>>
       ELSE LET size == Len(Tuples')
            IN  /\ nodes' = IF root = Nil THEN <<NewNode("leaf", Nil)>> ELSE nodes
                /\ root' = IF root = Nil THEN 1 ELSE root
                /\ height' = IF root = Nil THEN 1 ELSE height
                /\ container' = [c \in Listeners |->
                        IF c \in Cores' THEN [alive |-> TRUE, scheduled |-> 0,
                                              buffer |-> Batch((c - 1) * BatchSize, size)]
                                        ELSE NoContainer]
                /\ current' = IF CoreSets[config'] * BatchSize < size
                              THEN CoreSets[config'] * BatchSize ELSE size
                /\ finished' = [c \in Listeners |-> 0]
                /\ open' = CoreSets[config']
                /\ running' = TRUE

(* A scheduler task with room for requests looks for some.  (Without room,   *)
(* or with nothing left but requests in flight, it only runs again later.)   *)
CanTake(c) ==
    /\ running /\ container[c].alive /\ todo[c].count = 0
    /\ container[c].scheduled - finished[c] < MaxPending

Refilled(c) ==
    IF container[c].buffer.count > 0 THEN container[c].buffer ELSE Batch(current, Len(Tuples))

Take(c) ==
    /\ CanTake(c) /\ Refilled(c).count > 0
    /\ LET free == MaxPending - (container[c].scheduled - finished[c])
           buffer == Refilled(c)
           count == IF free < buffer.count THEN free ELSE buffer.count
       IN  /\ todo' = [todo EXCEPT ![c] = [index |-> buffer.index, count |-> count]]
           /\ container' = [container EXCEPT ![c] =
                  [alive |-> TRUE, scheduled |-> @.scheduled + count,
                   buffer |-> [index |-> buffer.index + count, count |-> buffer.count - count]]]
           /\ current' = IF container[c].buffer.count > 0 THEN current ELSE Advance(current, Len(Tuples))
    /\ UNCHANGED <<tvars, workload, phase, config, iteration, running, open>>

(* One task is built from its tuple and spawned at the root. *)
Spawn(c) ==
    /\ running /\ todo[c].count > 0
    /\ LET r == todo[c].index + 1
           tuple == Tuples[r]
       IN  /\ task' = [task EXCEPT ![r] = [Idle EXCEPT
                  !.pc = "queued", !.kind = tuple.op, !.key = tuple.key, !.node = root,
                  !.readonly = tuple.op = "lookup" \/ height > 1, !.listener = c]]
           /\ call' = [call EXCEPT ![r] = tuple]
    /\ todo' = [todo EXCEPT ![c] = [index |-> @.index + 1, count |-> @.count - 1]]
    /\ UNCHANGED <<tree, answer, finished, workload, phase, current, config, iteration, running, open, container>>

(* No request left and none in flight: the container is deleted.  The last   *)
(* scheduler task stops the runtime and, after the last phase, deletes the   *)
(* tree.                                                                     *)
Finish(c) ==
    /\ CanTake(c) /\ Refilled(c).count = 0
    /\ container[c].scheduled = finished[c]
    /\ container' = [container EXCEPT ![c] = NoContainer]
    /\ open' = open - 1
    /\ IF open = 1
       THEN LET last == phase = "mixed" \/ workload.mixed = <<>>
            IN  /\ running' = FALSE
                /\ nodes' = IF last THEN <<>> ELSE nodes
                /\ root' = IF last THEN Nil ELSE root
                /\ call' = [r \in Requests |-> NoCall]
                /\ answer' = [r \in Requests |-> Pending]
       ELSE UNCHANGED <<running, nodes, root, call, answer>>
    /\ UNCHANGED <<height, task, finished, workload, phase, current, config, iteration, todo>>

Next ==
    \/ Start
    \/ \E c \in Listeners : Take(c) \/ Spawn(c) \/ Finish(c)
    \/ \E r \in Requests : Execute(r) /\ UNCHANGED svars

(* Workers run every task they are given again and again, and the main       *)
(* thread goes on once the runtime has stopped.                              *)
Fairness ==
    /\ WF_vars(Start)
    /\ \A c \in Listeners : WF_vars(Take(c) \/ Spawn(c) \/ Finish(c))
    /\ \A r \in Requests : WF_vars(Execute(r) /\ UNCHANGED svars)

Spec == Init /\ [][Next]_vars /\ Fairness
------------------------------------------------------------------------------
(* The leaf a search for a key from a node on ends in. *)
Reach(i, key) ==
    LET from[j \in DOMAIN nodes \cup {Nil}] ==
            IF j = Nil THEN Nil
            ELSE IF nodes[j].high <= key THEN from[nodes[j].right]
            ELSE IF nodes[j].type = "leaf" THEN j
            ELSE from[Child(nodes[j], key)]
    IN  from[i]

ValueIn(n, key) ==
    IF \E i \in DOMAIN n.keys : n.keys[i] = key
    THEN n.items[CHOOSE i \in DOMAIN n.keys : n.keys[i] = key] ELSE Absent

Contents ==
    [k \in Keys |-> IF Reach(root, k) = Nil THEN Absent ELSE ValueIn(nodes[Reach(root, k)], k)]

Map == INSTANCE KeyValueMap WITH store <- Contents

(* Whatever splits, late separators and half-built roots are under way, the  *)
(* tree is an atomic map: a key whose insert took effect is found from then  *)
(* on by every search from _root, no split loses or duplicates a value, and  *)
(* every lookup and update answers from the map as it is at that moment.     *)
ImplementsMap == Map!MSpec

(* The nodes NodeIterator visits: each level from its first node to the      *)
(* right, then the level of that node's first child.                         *)
Level(i) ==
    LET from[j \in DOMAIN nodes] == {j} \cup IF nodes[j].right = Nil THEN {} ELSE from[nodes[j].right]
    IN  from[i]

Visited(i) ==
    LET from[j \in DOMAIN nodes] ==
            Level(j) \cup IF nodes[j].type = "leaf" THEN {} ELSE from[nodes[j].items[1]]
    IN  from[i]

LastKey(n) == n.keys[Size(n)]

(* What NodeConsistencyChecker looks for. *)
HighKeyValid(n) == LastKey(n) < n.high
KeyOrderValid(n) == \A j \in 2..Size(n) : n.keys[j - 1] < n.keys[j]
NoNullSeparator(n) == n.type # "leaf" => \A j \in DOMAIN n.items : n.items[j] # Nil
ChildrenOrderValid(n) ==
    n.type # "leaf" => \A j \in DOMAIN n.keys : LastKey(nodes[n.items[j]]) < n.keys[j]
LevelValid(n) ==
    LET leaf(i) == nodes[i].type = "leaf"
    IN  /\ n.right # Nil => (leaf(n.right) <=> n.type = "leaf")
        /\ n.type # "leaf" => \A j \in DOMAIN n.keys : leaf(n.items[j]) <=> leaf(n.items[j + 1])
ParentValid(i) ==
    LET n == nodes[i]
        p == nodes[n.parent]
        at == CHOOSE j \in DOMAIN p.items : p.items[j] = i
    IN  n.parent # Nil =>
          /\ i \in Range(p.items)
          /\ IF at <= Size(p) THEN LastKey(n) < p.keys[at] ELSE n.keys[1] >= p.keys[at - 1]

(* When all requests have finished, the checks of NodeConsistencyChecker     *)
(* pass, the one on parents that Benchmark leaves out included.  The tree is *)
(* complete, too: every node is visited and every one but the root is the    *)
(* child of exactly one node, so deleting the root deletes all nodes once,   *)
(* and children meet their neighbours at the separators (no separator of a   *)
(* split is missing).                                                        *)
QuietTreeIsConsistent ==
    root # Nil /\ Size(nodes[root]) > 0 /\ (\A r \in Requests : task[r].pc = "idle") =>
      /\ Visited(root) = DOMAIN nodes
      /\ \A i \in DOMAIN nodes :
           LET n == nodes[i]
           IN  /\ HighKeyValid(n) /\ KeyOrderValid(n) /\ NoNullSeparator(n)
               /\ ChildrenOrderValid(n) /\ LevelValid(n) /\ ParentValid(i)
               /\ i = root <=> n.parent = Nil
               /\ Cardinality({j \in DOMAIN nodes :
                      nodes[j].type # "leaf" /\ i \in Range(nodes[j].items)}) = IF i = root THEN 0 ELSE 1
               /\ n.type # "leaf" =>
                     \A j \in DOMAIN n.items :
                        nodes[n.items[j]].high = IF j <= Size(n) THEN n.keys[j] ELSE n.high

(* A scheduler task never has more requests in flight than its share, and    *)
(* when its container is deleted, which the tasks of its requests still      *)
(* refer to, all of them are done; so no task is left when the tree goes.    *)
ContainerOutlivesRequests ==
    \A c \in Listeners :
      LET mine == {r \in Requests : task[r].pc # "idle" /\ task[r].listener = c}
      IN  /\ Cardinality(mine) + todo[c].count <= MaxPending
          /\ ~container[c].alive => mine = {} /\ todo[c].count = 0

(* Every tuple of the workload is answered in its phase. *)
PhaseAnswersAll ==
    [][running /\ ~running' => \A r \in DOMAIN Tuples : call[r] = Tuples[r] /\ answer[r] # Pending]_vars

(* Every phase of every configuration comes to its end. *)
BenchmarkEnds == <>(phase = "end")
=============================================================================
