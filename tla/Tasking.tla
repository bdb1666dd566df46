------------------------------ MODULE Tasking ------------------------------
(***************************************************************************)
(* Scheduling and execution of tasks: Scheduler::schedule sends a task to  *)
(* a channel by its annotation, the worker of the channel takes it out and *)
(* runs it in the execution context its data object asks for               *)
(* (scheduler.{h,cpp}, worker.{h,cpp}).  The data objects are built first, *)
(* from the hints of the application (resource/builder).                   *)
(*                                                                         *)
(* A channel is the set of the tasks in its queues and its task buffer;    *)
(* the order in which a worker takes them is left open here (Channel and   *)
(* MPSCQueue model it).  A latch or version lock is taken in one step;     *)
(* OptimisticLock shows that the code's atomic accesses to the version     *)
(* amount to that.                                                         *)
(***************************************************************************)
EXTENDS Integers, Synchronization

CONSTANTS
    Channels,    \* one worker each
    Resources,   \* data objects
    Tasks,
    SpawnBound,  \* how many calls of Scheduler::schedule are explored
    Nil          \* nullptr, no annotation

ASSUME TaskingAssumption ==
    /\ Nil \notin Channels \cup Resources \cup Tasks
    /\ SpawnBound \in Nat

VARIABLES
    resource,    \* the information in each object's tagged pointer, and its hint
    annotation,  \* TaskInterface::_annotation of each task
    channel,     \* the tasks waiting in each channel
    outside,     \* tasks the runtime does not hold: not allocated yet, or removed
    pc,          \* where the worker of each channel is
    current,     \* the task it executes
    context,     \* the execution context chosen for it
    on,          \* the object that context synchronises
    writing,     \* whether the task was a writing task when it was started
    seen,        \* the version loaded by execute_optimistic_read
    stack,       \* the task as saved by TaskStack::save
    result,      \* the successor in the TaskResult it returned
    exclusive,   \* exclusive[r]: who holds the spinlock of r
    shared,      \* shared[r]: who holds the reader/writer latch for reading
    unique,      \* unique[r]: who holds it for writing
    version,     \* version[r]: the optimistic latch
    overlapped,  \* a writing task ran on on[c] while c read optimistically
    spawned      \* calls of Scheduler::schedule so far

workerVars == <<pc, current, context, on, writing, seen, stack, result, overlapped>>
latchVars == <<exclusive, shared, unique, version>>
taskVars == <<annotation, channel, outside, spawned>>
vars == <<resource, workerVars, latchVars, taskVars>>

AnnotationRecord == [resource : Resources \cup {Nil}, channel : Channels \cup {Nil},
                     readonly : BOOLEAN]

(* The target is a variant: an object, a channel or nothing.  The access   *)
(* mode is only consulted together with an object.                         *)
Annotations == {a \in AnnotationRecord : /\ a.resource = Nil \/ a.channel = Nil
                                         /\ a.resource = Nil => ~a.readonly}

Buildable == {[isolation |-> h.isolation, primitive |-> PrimitiveFor(h), home |-> c] :
                  h \in Hint, c \in Channels}

Anywhere == [resource |-> Nil, channel |-> Nil, readonly |-> FALSE]

Init ==
    /\ resource \in [Resources -> Buildable]
    /\ annotation = [t \in Tasks |-> Anywhere]
    /\ channel = [c \in Channels |-> {}]
    /\ outside = Tasks
    /\ pc = [c \in Channels |-> "next"]
    /\ current = [c \in Channels |-> Nil]
    /\ context = [c \in Channels |-> "plain"]
    /\ on = [c \in Channels |-> Nil]
    /\ writing = [c \in Channels |-> FALSE]
    /\ seen = [c \in Channels |-> 0]
    /\ stack = [c \in Channels |-> Anywhere]
    /\ result = [c \in Channels |-> Nil]
    /\ exclusive = [r \in Resources |-> {}]
    /\ shared = [r \in Resources |-> {}]
    /\ unique = [r \in Resources |-> {}]
    /\ version = [r \in Resources |-> 4]
    /\ overlapped = [c \in Channels |-> FALSE]
    /\ spawned = 0

IsLocked(v) == (v \div 2) % 2 = 1

Goto(c, from, to) ==
    /\ pc[c] = from
    /\ pc' = [pc EXCEPT ![c] = to]

-----------------------------------------------------------------------------
(* Scheduling. *)

KeepTaskLocal(readonly, primitive, home, c) ==
    \/ home = c
    \/ readonly /\ primitive # "ScheduleAll"
    \/ primitive \notin {"None", "ScheduleAll", "ScheduleWriter"}

(* The channel Scheduler::schedule(task, c) puts a task annotated a into. *)
TargetFrom(c, a) ==
    CASE a.resource # Nil ->
            LET r == resource[a.resource]
            IN  IF KeepTaskLocal(a.readonly, r.primitive, r.home, c) THEN c ELSE r.home
      [] a.resource = Nil /\ a.channel # Nil -> a.channel
      [] a.resource = Nil /\ a.channel = Nil -> c

Enqueue(t, c) == channel' = [channel EXCEPT ![c] = @ \cup {t}]

CountSpawn ==
    /\ spawned < SpawnBound
    /\ spawned' = spawned + 1

(* Scheduler::schedule(task): spawned by a thread that is no worker.  Such *)
(* a task needs an object or a channel, the code asserts it.               *)
SpawnOutside(t, a) ==
    /\ t \in outside
    /\ a.resource # Nil \/ a.channel # Nil
    /\ CountSpawn
    /\ outside' = outside \ {t}
    /\ annotation' = [annotation EXCEPT ![t] = a]
    /\ Enqueue(t, IF a.resource # Nil THEN resource[a.resource].home ELSE a.channel)
    /\ UNCHANGED <<resource, workerVars, latchVars>>

(* Scheduler::schedule(task, c): spawned by the task c executes. *)
SpawnInTask(c, t, a) ==
    /\ pc[c] = "run"
    /\ t \in outside
    /\ CountSpawn
    /\ outside' = outside \ {t}
    /\ annotation' = [annotation EXCEPT ![t] = a]
    /\ Enqueue(t, TargetFrom(c, a))
    /\ UNCHANGED <<resource, workerVars, latchVars>>

-----------------------------------------------------------------------------
(* Execution: the body of the inner loop of Worker::execute. *)

(* Mutant: no reader of a ScheduleWriter object validates its version. *)
ContextWithoutValidation(c, a) ==
    IF a.resource = Nil THEN "plain" ELSE
    LET r == resource[a.resource] IN
    CASE r.primitive \in {"None", "ScheduleAll"} -> "plain"
      [] r.primitive = "ExclusiveLatch"    -> "exclusive"
      [] r.primitive = "ReaderWriterLatch" -> IF a.readonly THEN "shared" ELSE "unique"
      [] r.primitive = "ScheduleWriter"    -> IF a.readonly THEN "plain" ELSE "optimistic"
      [] r.primitive = "OLFIT"             -> IF a.readonly THEN "read" ELSE "olfit"

(* Which execute_* function runs the task, and in it which scoped latch. *)
ContextFor(c, a) ==
    IF a.resource = Nil THEN "plain" ELSE
    LET r == resource[a.resource] IN
    CASE r.primitive \in {"None", "ScheduleAll"} -> "plain"
      [] r.primitive = "ExclusiveLatch"    -> "exclusive"
      [] r.primitive = "ReaderWriterLatch" -> IF a.readonly THEN "shared" ELSE "unique"
      [] r.primitive = "ScheduleWriter"    -> IF ~a.readonly THEN "optimistic"
                                              ELSE IF r.home # c THEN "read" ELSE "plain"
      [] r.primitive = "OLFIT"             -> IF a.readonly THEN "read" ELSE "olfit"

(* Where a context begins: a latch, a version to load, or the task itself. *)
Entry(k) == CASE k = "plain" -> "run"
              [] k = "read"  -> "version"
              [] OTHER       -> "acquire"

ReadersOf(r) == {d \in Channels : context[d] = "read" /\ on[d] = r
                                  /\ pc[d] \in {"run", "validate"}}

(* A writing task begins to access r: the reads in progress overlap it. *)
MarkOverlaps(r, isWriter) ==
    overlapped' = [d \in Channels |-> overlapped[d] \/ (isWriter /\ d \in ReadersOf(r))]

(* Channel::next returned task t; the context is chosen and entered. *)
NextTask(c, t) ==
    LET a == annotation[t]
        k == ContextFor(c, a)
    IN  /\ pc[c] = "next"
        /\ t \in channel[c]
        /\ channel' = [channel EXCEPT ![c] = @ \ {t}]
        /\ pc' = [pc EXCEPT ![c] = Entry(k)]
        /\ current' = [current EXCEPT ![c] = t]
        /\ context' = [context EXCEPT ![c] = k]
        /\ on' = [on EXCEPT ![c] = a.resource]
        /\ writing' = [writing EXCEPT ![c] = ~a.readonly]
        /\ stack' = [stack EXCEPT ![c] = IF k = "read" THEN a ELSE @]
        /\ MarkOverlaps(a.resource, k = "plain" /\ ~a.readonly)
        /\ UNCHANGED <<resource, seen, result, latchVars, annotation, outside, spawned>>

(* The constructor of scoped_latch. *)
Acquire(c) ==
    LET r == on[c] IN
    /\ Goto(c, "acquire", "run")
    /\ \/ /\ context[c] = "exclusive"
          /\ exclusive[r] = {}
          /\ exclusive' = [exclusive EXCEPT ![r] = {c}]
          /\ UNCHANGED <<shared, unique, version>>
       \/ /\ context[c] = "shared"
          /\ unique[r] = {}
          /\ shared' = [shared EXCEPT ![r] = @ \cup {c}]
          /\ UNCHANGED <<exclusive, unique, version>>
       \/ /\ context[c] = "unique"
          /\ unique[r] = {} /\ shared[r] = {}
          /\ unique' = [unique EXCEPT ![r] = {c}]
          /\ UNCHANGED <<exclusive, shared, version>>
       \/ /\ context[c] = "optimistic"
          /\ version' = [version EXCEPT ![r] = @ + 2]
          /\ UNCHANGED <<exclusive, shared, unique>>
       \/ /\ context[c] = "olfit"
          /\ ~IsLocked(version[r])
          /\ version' = [version EXCEPT ![r] = @ + 2]
          /\ UNCHANGED <<exclusive, shared, unique>>
    /\ MarkOverlaps(r, writing[c])
    /\ UNCHANGED <<resource, current, context, on, writing, seen, stack, result, taskVars>>

(* execute_optimistic_read: resource->version(), when it is not locked. *)
ReadVersion(c) ==
    /\ Goto(c, "version", "run")
    /\ ~IsLocked(version[on[c]])
    /\ seen' = [seen EXCEPT ![c] = version[on[c]]]
    /\ overlapped' = [overlapped EXCEPT ![c] =
            \E d \in Channels : pc[d] = "run" /\ on[d] = on[c] /\ writing[d]]
    /\ UNCHANGED <<resource, current, context, on, writing, stack, result, latchVars, taskVars>>

(* task->execute returns.  The task may have annotated itself, or the task *)
(* it wants as its successor, anew.  A task that is removed and one that   *)
(* is kept by the application are not told apart.                          *)
Return(c, a, successor) ==
    /\ pc[c] = "run"
    /\ successor \in {Nil, current[c]} \cup outside
    /\ IF successor = Nil
       THEN UNCHANGED <<annotation, spawned>>
       ELSE CountSpawn /\ annotation' = [annotation EXCEPT ![successor] = a]
    /\ outside' = outside \ {successor}
    /\ result' = [result EXCEPT ![c] = successor]
    /\ pc' = [pc EXCEPT ![c] = CASE context[c] = "plain" -> "finish"
                                 [] context[c] = "read"  -> "validate"
                                 [] OTHER                -> "release"]
    /\ UNCHANGED <<resource, current, context, on, writing, seen, stack, overlapped,
                   latchVars, channel>>

(* Mutant: the destructor does not unlock the spinlock. *)
ReleaseKeepingLatch(c) ==
    LET r == on[c] IN
    /\ Goto(c, "release", "finish")
    /\ shared' = [shared EXCEPT ![r] = @ \ {c}]
    /\ unique' = [unique EXCEPT ![r] = @ \ {c}]
    /\ version' = [version EXCEPT ![r] =
            IF context[c] \in {"optimistic", "olfit"} THEN @ + 2 ELSE @]
    /\ UNCHANGED <<resource, current, context, on, writing, seen, stack, result,
                   overlapped, exclusive, taskVars>>

(* The destructor of scoped_latch. *)
Release(c) ==
    LET r == on[c] IN
    /\ Goto(c, "release", "finish")
    /\ exclusive' = [exclusive EXCEPT ![r] = @ \ {c}]
    /\ shared' = [shared EXCEPT ![r] = @ \ {c}]
    /\ unique' = [unique EXCEPT ![r] = @ \ {c}]
    /\ version' = [version EXCEPT ![r] =
            IF context[c] \in {"optimistic", "olfit"} THEN @ + 2 ELSE @]
    /\ UNCHANGED <<resource, current, context, on, writing, seen, stack, result,
                   overlapped, taskVars>>

(* Mutant: the successor of a rejected read is kept. *)
RejectKeepingResult(c) ==
    /\ Goto(c, "validate", "version")
    /\ version[on[c]] # seen[c]
    /\ annotation' = [annotation EXCEPT ![current[c]] = stack[c]]
    /\ channel' = [channel EXCEPT ![c] = @ \cup ({result[c]} \ {Nil})]
    /\ result' = [result EXCEPT ![c] = Nil]
    /\ UNCHANGED <<resource, current, context, on, writing, seen, stack, overlapped,
                   outside, latchVars, spawned>>

(* is_version_valid fails: the task is restored and its result dropped. *)
Reject(c) ==
    /\ Goto(c, "validate", "version")
    /\ version[on[c]] # seen[c]
    /\ annotation' = [annotation EXCEPT ![current[c]] = stack[c]]
    /\ outside' = outside \cup ({result[c]} \ {Nil, current[c]})
    /\ result' = [result EXCEPT ![c] = Nil]
    /\ UNCHANGED <<resource, current, context, on, writing, seen, stack, overlapped,
                   channel, latchVars, spawned>>

(* Mutant: the second load of the version is not compared. *)
AcceptUnchecked(c) ==
    /\ Goto(c, "validate", "finish")
    /\ UNCHANGED <<resource, current, context, on, writing, seen, stack, result,
                   overlapped, latchVars, taskVars>>

(* is_version_valid: the result counts. *)
Accept(c) ==
    /\ Goto(c, "validate", "finish")
    /\ version[on[c]] = seen[c]
    /\ UNCHANGED <<resource, current, context, on, writing, seen, stack, result,
                   overlapped, latchVars, taskVars>>

(* The successor is spawned from this channel, a removed task is freed; a  *)
(* task that returned neither stays with the application.                  *)
Finish(c) ==
    LET s == result[c] IN
    /\ pc[c] = "finish"
    /\ IF s # Nil THEN Enqueue(s, TargetFrom(c, annotation[s])) ELSE UNCHANGED channel
    /\ outside' = IF s = current[c] THEN outside ELSE outside \cup {current[c]}
    /\ pc' = [pc EXCEPT ![c] = "next"]
    /\ current' = [current EXCEPT ![c] = Nil]
    /\ context' = [context EXCEPT ![c] = "plain"]
    /\ on' = [on EXCEPT ![c] = Nil]
    /\ writing' = [writing EXCEPT ![c] = FALSE]
    /\ seen' = [seen EXCEPT ![c] = 0]
    /\ stack' = [stack EXCEPT ![c] = Anywhere]
    /\ result' = [result EXCEPT ![c] = Nil]
    /\ overlapped' = [overlapped EXCEPT ![c] = FALSE]
    /\ UNCHANGED <<resource, annotation, spawned, latchVars>>

Worker(c) ==
    \/ \E t \in Tasks : NextTask(c, t)
    \/ Acquire(c) \/ ReadVersion(c)
    \/ \E a \in Annotations, s \in Tasks \cup {Nil} : Return(c, a, s)
    \/ Release(c) \/ Reject(c) \/ Accept(c) \/ Finish(c)

Next ==
    \/ \E t \in Tasks, a \in Annotations : SpawnOutside(t, a)
    \/ \E c \in Channels, t \in Tasks, a \in Annotations : SpawnInTask(c, t, a)
    \/ \E c \in Channels : Worker(c)

Spec == Init /\ [][Next]_vars

(* A worker is a thread that keeps running, and tasks terminate.  What a   *)
(* task decides to do is its own choice, that it returns is not.           *)
FairSpec == Spec /\ \A c \in Channels : WF_vars(Worker(c))
-----------------------------------------------------------------------------

(* Annotations, channels, workers and latches stay within their types. *)
TypeOK ==
    /\ resource \in [Resources -> [isolation : IsolationLevel, primitive : Primitive,
                                   home : Channels]]
    /\ annotation \in [Tasks -> Annotations]
    /\ channel \in [Channels -> SUBSET Tasks]
    /\ outside \in SUBSET Tasks
    /\ pc \in [Channels -> {"next", "acquire", "version", "run", "release",
                            "validate", "finish"}]
    /\ current \in [Channels -> Tasks \cup {Nil}]
    /\ context \in [Channels -> {"plain", "exclusive", "shared", "unique",
                                 "optimistic", "olfit", "read"}]
    /\ on \in [Channels -> Resources \cup {Nil}]
    /\ writing \in [Channels -> BOOLEAN]
    /\ seen \in [Channels -> Nat]
    /\ stack \in [Channels -> Annotations]
    /\ result \in [Channels -> Tasks \cup {Nil}]
    /\ exclusive \in [Resources -> SUBSET Channels]
    /\ shared \in [Resources -> SUBSET Channels]
    /\ unique \in [Resources -> SUBSET Channels]
    /\ version \in [Resources -> Nat]
    /\ overlapped \in [Channels -> BOOLEAN]
    /\ spawned \in 0 .. SpawnBound

(* The worker of c is inside the task, which may access r. *)
Accesses(c, r) == pc[c] = "run" /\ on[c] = r

(* isolation_level::Exclusive, "All accesses will be synchronized": no two *)
(* tasks are inside an exclusive object together, whether the builder chose *)
(* to schedule all of them to one channel or to latch them.                *)
ExclusiveIsolation ==
    \A r \in Resources, c, d \in Channels :
        resource[r].isolation = "Exclusive" /\ Accesses(c, r) /\ Accesses(d, r) => c = d

(* isolation_level::ExclusiveWriter, "Reads can be parallel, writes will   *)
(* be synchronized": a writing task shares the object with no other task,  *)
(* except with readers that are going to validate the version.             *)
WriterIsolation ==
    \A r \in Resources, c, d \in Channels :
        /\ resource[r].isolation = "ExclusiveWriter"
        /\ Accesses(c, r) /\ Accesses(d, r)
        /\ writing[c] /\ c # d
        => ~writing[d] /\ context[d] = "read"

(* ... and such a reader's result is only used if no writing task ran on   *)
(* the object while it read, from the load of the version to its check.    *)
ReadersDiscardOverlaps ==
    \A c \in Channels : context[c] = "read" /\ pc[c] = "finish" => ~overlapped[c]

(* The tasks a worker has in its hands. *)
Held(c) == {current[c], result[c]} \ {Nil}

(* A task is in one place only: in one channel, with one worker, or not    *)
(* with the runtime.  Rejected reads neither lose nor double a successor.  *)
OnePlace ==
    \A t \in Tasks :
        /\ t \in outside <=> \A c \in Channels : t \notin channel[c] \cup Held(c)
        /\ \A c, d \in Channels :
              t \in channel[c] \cup Held(c) /\ t \in channel[d] \cup Held(d) => c = d
        /\ \A c \in Channels : t \notin channel[c] \cap Held(c)

(* Every task that was spawned is executed: when no more tasks are spawned *)
(* the channels run empty, no worker waits for a latch forever, and no     *)
(* optimistic read is repeated forever.                                    *)
Drains == <>[](\A c \in Channels : channel[c] = {} /\ pc[c] = "next")
=============================================================================
