------------------------------ MODULE Lifecycle ------------------------------
(***************************************************************************)
(* Starting and stopping the runtime: Scheduler::start_and_wait creates    *)
(* the workers and the epoch thread, raises _is_running and joins them;    *)
(* Scheduler::interrupt lowers the flag from inside a task.  The threads   *)
(* only poll the flag: before their loop until it is up, and at the head   *)
(* of the loop whether it still is.                                        *)
(*                                                                         *)
(* A task is what it does to the lifecycle when it is executed:            *)
(*   "once"   ends,                                                        *)
(*   "again"  is returned as its own successor,                            *)
(*   "asks"   returns TaskResult::make_stop, a StopTaskingTask for the     *)
(*            first channel,                                               *)
(*   "stops"  is that StopTaskingTask.                                     *)
(* Queues and buffers are unbounded here; module Channel has their limits. *)
(***************************************************************************)
EXTENDS Integers, Sequences, FiniteSets, Functions

CONSTANTS
    CountChannels,
    PrefetchDistance,
    Spawned,       \* the kinds of tasks spawned before a start
    SpawnBound,    \* tasks spawned to one channel before a start
    AgainBound,    \* tasks of kind "again" in one channel
    StartBound     \* calls of start_and_wait

LifecycleAssumption ==
    /\ CountChannels \in Nat \ {0}
    /\ PrefetchDistance \in Nat /\ SpawnBound \in Nat
    /\ AgainBound \in Nat /\ StartBound \in Nat
    /\ Spawned \subseteq {"once", "again", "asks"}

Channels == 0 .. CountChannels - 1
Epoch == CountChannels              \* the thread behind the workers' ones
Threads == Channels \cup {Epoch}
Kinds == {"once", "again", "asks", "stops"}

VARIABLES
    running,   \* _is_running
    main,      \* where the starting thread is
    thread,    \* where each worker and the epoch thread are
    queue,     \* the tasks waiting in each channel
    buffer,    \* and in its task buffer
    starts

vars == <<running, main, thread, queue, buffer, starts>>

Init ==
    /\ running = FALSE
    /\ main = "outside"
    /\ thread = [t \in Threads |-> "none"]
    /\ queue = [c \in Channels |-> <<>>]
    /\ buffer = [c \in Channels |-> <<>>]
    /\ starts = 0

-----------------------------------------------------------------------------
(* The starting thread. *)

Count(seq, kind) == Cardinality({i \in DOMAIN seq : seq[i] = kind})

(* The tasks of this run are spawned, then start_and_wait creates the      *)
(* threads.                                                                *)
Start(tasks) ==
    /\ main = "outside" /\ ~running /\ starts < StartBound
    /\ main' = "starting"
    /\ starts' = starts + 1
    /\ queue' = [c \in Channels |-> queue[c] \o tasks[c]]
    /\ \A c \in Channels : Count(queue'[c], "again") <= AgainBound
    /\ thread' = [t \in Threads |-> "spin"]
    /\ UNCHANGED <<running, buffer>>

RaiseFlag ==
    /\ main = "starting"
    /\ main' = "join"
    /\ running' = TRUE
    /\ UNCHANGED <<thread, queue, buffer, starts>>

(* Mutant: the epoch thread is not waited for. *)
JoinWorkers ==
    /\ main = "join"
    /\ \A c \in Channels : thread[c] = "ended"
    /\ main' = "reclaim"
    /\ UNCHANGED <<running, thread, queue, buffer, starts>>

Join ==
    /\ main = "join"
    /\ \A t \in Threads : thread[t] = "ended"
    /\ main' = "reclaim"
    /\ UNCHANGED <<running, thread, queue, buffer, starts>>

(* EpochManager::reclaim_all, and the return to the caller. *)
ReclaimAll ==
    /\ main = "reclaim"
    /\ main' = "outside"
    /\ UNCHANGED <<running, thread, queue, buffer, starts>>

-----------------------------------------------------------------------------
(* The threads. *)

Goto(t, from, to) == thread[t] = from /\ thread' = [thread EXCEPT ![t] = to]

(* The flag is up: the thread leaves its first loop. *)
SeeStart(t) ==
    /\ running
    /\ Goto(t, "spin", "loop")
    /\ UNCHANGED <<running, main, queue, buffer, starts>>

(* The flag is down at the head of the main loop.  (The rounds of the      *)
(* epoch thread, which module EpochManager models, change nothing here.)   *)
SeeStop(t) ==
    /\ ~running
    /\ Goto(t, "loop", "ended")
    /\ UNCHANGED <<running, main, queue, buffer, starts>>

(* Channel::fill, when c's buffer holds the tasks in rest. *)
FillFrom(c, rest) ==
    /\ buffer' = [buffer EXCEPT ![c] = rest \o queue[c]]
    /\ queue' = [queue EXCEPT ![c] = <<>>]

(* The outer loop of Worker::execute. *)
Fill(c) ==
    /\ running
    /\ Goto(c, "loop", "next")
    /\ FillFrom(c, buffer[c])
    /\ UNCHANGED <<running, main, starts>>

(* Mutant: an idle worker fills its buffer again without a look at the     *)
(* flag.                                                                   *)
NextWaits(c) ==
    /\ buffer[c] = <<>>
    /\ thread[c] = "next"
    /\ FillFrom(c, <<>>)
    /\ UNCHANGED <<running, main, thread, starts>>

(* The inner loop: it ends when the buffer is empty, and only then.  The   *)
(* next task moves out of the buffer, which is refilled when it runs low,  *)
(* and is executed.                                                        *)
NextNothing(c) ==
    /\ buffer[c] = <<>>
    /\ Goto(c, "next", "loop")
    /\ UNCHANGED <<running, main, queue, buffer, starts>>

Refill(c, rest) ==
    IF Len(rest) <= PrefetchDistance
    THEN FillFrom(c, rest)
    ELSE buffer' = [buffer EXCEPT ![c] = rest] /\ UNCHANGED queue

NextTask(c) ==
    /\ buffer[c] # <<>>
    /\ Goto(c, "next", Head(buffer[c]))
    /\ Refill(c, Tail(buffer[c]))
    /\ UNCHANGED <<running, main, starts>>

(* The task's result: nothing, itself, or the StopTaskingTask. *)
ExecuteOnce(c) ==
    /\ Goto(c, "once", "next")
    /\ UNCHANGED <<running, main, queue, buffer, starts>>

ExecuteAgain(c) ==
    /\ Goto(c, "again", "next")
    /\ queue' = [queue EXCEPT ![c] = Append(@, "again")]
    /\ UNCHANGED <<running, main, buffer, starts>>

ExecuteAsks(c) ==
    /\ Goto(c, "asks", "next")
    /\ queue' = [queue EXCEPT ![0] = Append(@, "stops")]
    /\ UNCHANGED <<running, main, buffer, starts>>

(* StopTaskingTask::execute: runtime::stop lowers the flag. *)
ExecuteStops(c) ==
    /\ Goto(c, "stops", "next")
    /\ running' = FALSE
    /\ UNCHANGED <<main, queue, buffer, starts>>

ThreadStep(t) == SeeStart(t) \/ SeeStop(t)

WorkerStep(c) ==
    \/ ThreadStep(c) \/ Fill(c) \/ NextNothing(c) \/ NextTask(c)
    \/ ExecuteOnce(c) \/ ExecuteAgain(c) \/ ExecuteAsks(c) \/ ExecuteStops(c)

MainStep == RaiseFlag \/ Join \/ ReclaimAll

(* Before every start some task is spawned that will ask for the stop. *)
SpawnedTasks ==
    {tasks \in [Channels -> UNION {[1 .. n -> Spawned] : n \in 0 .. SpawnBound}] :
        \E c \in Channels : "asks" \in Range(tasks[c])}

Next ==
    \/ \E tasks \in SpawnedTasks : Start(tasks)
    \/ MainStep
    \/ \E c \in Channels : WorkerStep(c)
    \/ ThreadStep(Epoch)

Spec == Init /\ [][Next]_vars

(* Every thread is scheduled again and again; the application need not     *)
(* start the runtime.                                                      *)
FairSpec ==
    /\ Spec
    /\ WF_vars(MainStep)
    /\ \A c \in Channels : WF_vars(WorkerStep(c))
    /\ WF_vars(ThreadStep(Epoch))
-----------------------------------------------------------------------------

(* Tasks and threads stay within their types. *)
TypeOK ==
    /\ running \in BOOLEAN
    /\ main \in {"outside", "starting", "join", "reclaim"}
    /\ thread \in [Threads -> Kinds \cup {"none", "spin", "loop", "next", "ended"}]
    /\ queue \in [Channels -> Seq(Kinds)]
    /\ buffer \in [Channels -> Seq(Kinds)]
    /\ starts \in 0 .. StartBound

(* When start_and_wait reclaims the garbage and returns, and until the     *)
(* next start, no worker executes a task, no thread is left, and nothing   *)
(* is stranded in a task buffer, which a new worker would not look at.     *)
QuietOutside ==
    main \in {"reclaim", "outside"} =>
        /\ ~running
        /\ \A t \in Threads : thread[t] \in {"none", "ended"}
        /\ \A c \in Channels : buffer[c] = <<>>

Stopped == main = "join" /\ ~running
Spinning(t) == thread[t] = "spin"

(* If every thread had seen the start when the runtime was stopped, the    *)
(* starting thread is resumed after a task has asked for the stop.         *)
StopReturns ==
    [](Stopped => \A t \in Threads : ~Spinning(t))
        => (Stopped \/ (\E c \in Channels : thread[c] = "asks")) ~> (main = "outside")

(* "Instructs all worker threads to stop their work.  After all worker     *)
(* threads are stopped, the starting thread will be resumed": whenever the *)
(* runtime is stopped, start_and_wait returns.                             *)
StopAlwaysReturns == Stopped ~> (main = "outside")
=============================================================================
