---------------------------- MODULE EpochManager ----------------------------
(***************************************************************************)
(* Epoch-based reclamation of optimistically synchronised data objects     *)
(* (memory/reclamation/epoch_manager.{h,cpp}, Builder::destroy), as        *)
(* configured: workers enter the global epoch whenever they fill their     *)
(* task buffer (UpdateEpochPeriodically), one thread advances the epoch    *)
(* and reclaims the global garbage queue.                                  *)
(*                                                                         *)
(* A task is the object it is annotated with.  Tasks are spawned on an     *)
(* object while it is reachable, wait in a channel and its buffer, and     *)
(* read the object when they are executed; an executed task may remove an  *)
(* object.                                                                 *)
(***************************************************************************)
EXTENDS Integers, FiniteSets, FiniteSetsExt

CONSTANTS
    CountChannels,  \* one worker each
    Resources,
    EpochBound,     \* the global epoch is not advanced any further
    FirstStart      \* FALSE: the runtime has run before and kept its epochs

EpochAssumption ==
    /\ CountChannels \in Nat \ {0}
    /\ EpochBound \in Nat
    /\ FirstStart \in BOOLEAN

Workers == 0 .. CountChannels - 1
Epoch == 0 .. EpochBound
MaxEpoch == EpochBound + 1   \* numeric_limits<epoch_t>::max()

VARIABLES
    running,      \* the scheduler's _is_running
    global,       \* _global_epoch
    local,        \* _local_epochs
    pc,           \* where each worker is
    loaded,       \* the epoch a worker is about to store, else 0
    queued,       \* the tasks in each channel's queues
    buffered,     \* the tasks in its task buffer
    on,           \* the object of the task being executed
    fresh,        \* whether that object was still reachable when the read began
    status,       \* of each object: "live", "removed" or "reclaimed"
    removeEpoch,  \* ResourceInterface::_remove_epoch
    garbage,      \* _global_garbage_queue
    deferred,     \* deferred_resources of reclaim_epoch_garbage
    epc,          \* where the epoch thread is
    scanned,      \* channels it has read so far
    minEpoch

workerVars == <<local, pc, loaded, queued, buffered, on, fresh>>
epochVars == <<global, deferred, epc, scanned, minEpoch>>
objectVars == <<status, removeEpoch>>
vars == <<running, workerVars, epochVars, objectVars, garbage>>

Init ==
    /\ running = TRUE
    /\ global = 0
    /\ local = [w \in Workers |-> IF FirstStart THEN MaxEpoch ELSE 0]
    /\ pc = [w \in Workers |-> "fill"]
    /\ loaded = [w \in Workers |-> 0]
    /\ queued \in [Workers -> SUBSET Resources]
    /\ buffered = [w \in Workers |-> {}]
    /\ on = [w \in Workers |-> {}]
    /\ fresh = [w \in Workers |-> FALSE]
    /\ status = [r \in Resources |-> "live"]
    /\ removeEpoch = [r \in Resources |-> 0]
    /\ garbage = {} /\ deferred = {}
    /\ epc = "advance" /\ scanned = 0 /\ minEpoch = MaxEpoch

Goto(w, from, to) == pc[w] = from /\ pc' = [pc EXCEPT ![w] = to]

-----------------------------------------------------------------------------
(* Workers: Worker::execute with UpdateEpochPeriodically. *)

(* LocalEpoch::enter, the load: at the head of the outer loop, or when the *)
(* buffer runs low, with the next task already taken out of it.            *)
EnterLoad(w) ==
    /\ running
    /\ Goto(w, "fill", "store")
    /\ loaded' = [loaded EXCEPT ![w] = global]
    /\ UNCHANGED <<running, local, queued, buffered, on, fresh, epochVars, objectVars, garbage>>

RefillLoad(w) ==
    /\ Goto(w, "refill", "restore")
    /\ loaded' = [loaded EXCEPT ![w] = global]
    /\ UNCHANGED <<running, local, queued, buffered, on, fresh, epochVars, objectVars, garbage>>

(* The store, and the fill of the buffer. *)
EnterStore(w) ==
    /\ \/ Goto(w, "store", "next") /\ UNCHANGED fresh
       \/ Goto(w, "restore", "read") /\ fresh' = [fresh EXCEPT ![w] = \A r \in on[w] : status[r] = "live"]
    /\ local' = [local EXCEPT ![w] = loaded[w]]
    /\ buffered' = [buffered EXCEPT ![w] = @ \cup queued[w]]
    /\ queued' = [queued EXCEPT ![w] = {}]
    /\ loaded' = [loaded EXCEPT ![w] = 0]
    /\ UNCHANGED <<running, on, epochVars, objectVars, garbage>>

(* Channel::next: a task is taken out, and executed at once or after a     *)
(* refill.                                                                 *)
NextTask(w, r, to) ==
    /\ r \in buffered[w]
    /\ Goto(w, "next", to)
    /\ buffered' = [buffered EXCEPT ![w] = @ \ {r}]
    /\ on' = [on EXCEPT ![w] = {r}]
    /\ fresh' = [fresh EXCEPT ![w] = to = "read" /\ status[r] = "live"]
    /\ UNCHANGED <<running, local, loaded, queued, epochVars, objectVars, garbage>>

NextNothing(w) ==
    /\ buffered[w] = {}
    /\ Goto(w, "next", "fill")
    /\ UNCHANGED <<running, local, loaded, queued, buffered, on, fresh, epochVars, objectVars, garbage>>

(* The executed task spawns another one on an object it found. *)
Spawn(w, d, r) ==
    /\ pc[w] = "read"
    /\ status[r] = "live"
    /\ queued' = [queued EXCEPT ![d] = @ \cup {r}]
    /\ UNCHANGED <<running, local, pc, loaded, buffered, on, fresh, epochVars, objectVars, garbage>>

(* The executed task removes an object: no one finds it any more, and      *)
(* Builder::destroy gives it to add_to_garbage_collection, which stamps it *)
(* with the global epoch ...                                               *)
Remove(w, r) ==
    /\ global < EpochBound
    /\ Goto(w, "read", "push")
    /\ status[r] = "live"
    /\ status' = [status EXCEPT ![r] = "removed"]
    /\ removeEpoch' = [removeEpoch EXCEPT ![r] = global]
    /\ UNCHANGED <<running, local, loaded, queued, buffered, on, fresh, epochVars, garbage>>

(* ... and pushes it to the garbage queue. *)
Collect(w, r) ==
    /\ status[r] = "removed" /\ r \notin garbage \cup deferred
    /\ Goto(w, "push", "read")
    /\ garbage' = garbage \cup {r}
    /\ UNCHANGED <<running, local, loaded, queued, buffered, on, fresh, epochVars, objectVars>>

Return(w) ==
    /\ Goto(w, "read", "next")
    /\ on' = [on EXCEPT ![w] = {}]
    /\ fresh' = [fresh EXCEPT ![w] = FALSE]
    /\ UNCHANGED <<running, local, loaded, queued, buffered, epochVars, objectVars, garbage>>

(* runtime::stop, called by a task. *)
Stop(w) ==
    /\ pc[w] = "read"
    /\ running' = FALSE
    /\ UNCHANGED <<workerVars, epochVars, objectVars, garbage>>

WorkerEnds(w) ==
    /\ ~running
    /\ Goto(w, "fill", "ended")
    /\ UNCHANGED <<running, local, loaded, queued, buffered, on, fresh, epochVars, objectVars, garbage>>

-----------------------------------------------------------------------------
(* The epoch thread: enter_epoch_periodically. *)

Advance ==
    /\ epc = "advance" /\ running
    /\ global' = IF global < EpochBound THEN global + 1 ELSE global
    /\ epc' = "min" /\ scanned' = 0 /\ minEpoch' = MaxEpoch
    /\ UNCHANGED <<running, workerVars, deferred, objectVars, garbage>>

(* Mutant: the channels after the first are forgotten. *)
MinOfFirst ==
    /\ epc = "min"
    /\ minEpoch' = IF scanned = 0 THEN local[scanned] ELSE minEpoch
    /\ scanned' = scanned + 1
    /\ epc' = IF scanned' = CountChannels THEN "reclaim" ELSE "min"
    /\ UNCHANGED <<running, workerVars, global, deferred, objectVars, garbage>>

(* min_local_epoch: one load per channel. *)
MinLocalEpoch ==
    /\ epc = "min"
    /\ minEpoch' = Min({minEpoch, local[scanned]})
    /\ scanned' = scanned + 1
    /\ epc' = IF scanned' = CountChannels THEN "reclaim" ELSE "min"
    /\ UNCHANGED <<running, workerVars, global, deferred, objectVars, garbage>>

(* Mutant: an object removed in the smallest epoch itself is freed, too. *)
ReclaimLeq(r) ==
    /\ epc = "reclaim" /\ r \in garbage
    /\ garbage' = garbage \ {r}
    /\ IF removeEpoch[r] <= minEpoch
       THEN status' = [status EXCEPT ![r] = "reclaimed"] /\ UNCHANGED deferred
       ELSE deferred' = deferred \cup {r} /\ UNCHANGED status
    /\ UNCHANGED <<running, workerVars, global, epc, scanned, minEpoch, removeEpoch>>

(* reclaim_epoch_garbage: an object is freed or deferred. *)
ReclaimEpochGarbage(r) ==
    /\ epc = "reclaim" /\ r \in garbage
    /\ garbage' = garbage \ {r}
    /\ IF removeEpoch[r] < minEpoch
       THEN status' = [status EXCEPT ![r] = "reclaimed"] /\ UNCHANGED deferred
       ELSE deferred' = deferred \cup {r} /\ UNCHANGED status
    /\ UNCHANGED <<running, workerVars, global, epc, scanned, minEpoch, removeEpoch>>

(* Mutant: the deferred objects are forgotten. *)
DropDeferred ==
    /\ epc = "reclaim" /\ garbage = {}
    /\ deferred' = {}
    /\ epc' = "advance" /\ scanned' = 0 /\ minEpoch' = MaxEpoch
    /\ UNCHANGED <<running, workerVars, global, objectVars, garbage>>

(* The queue is empty: the deferred objects go back, the thread sleeps. *)
PushDeferred ==
    /\ epc = "reclaim" /\ garbage = {}
    /\ garbage' = deferred
    /\ deferred' = {}
    /\ epc' = "advance" /\ scanned' = 0 /\ minEpoch' = MaxEpoch
    /\ UNCHANGED <<running, workerVars, global, objectVars>>

EpochEnds ==
    /\ epc = "advance" /\ ~running
    /\ epc' = "ended"
    /\ UNCHANGED <<running, workerVars, global, deferred, scanned, minEpoch, objectVars, garbage>>

(* Scheduler::start_and_wait, after all threads have been joined. *)
ReclaimAll ==
    /\ epc = "ended" /\ \A w \in Workers : pc[w] = "ended"
    /\ garbage # {}
    /\ status' = [r \in Resources |-> IF r \in garbage THEN "reclaimed" ELSE status[r]]
    /\ garbage' = {}
    /\ UNCHANGED <<running, workerVars, epochVars, removeEpoch>>

WorkerStep(w) ==
    \/ EnterLoad(w) \/ RefillLoad(w) \/ EnterStore(w)
    \/ \E r \in Resources, to \in {"read", "refill"} : NextTask(w, r, to)
    \/ NextNothing(w)
    \/ \E r \in Resources : Collect(w, r)
    \/ Return(w) \/ WorkerEnds(w)

EpochStep ==
    \/ Advance \/ MinLocalEpoch \/ (\E r \in Resources : ReclaimEpochGarbage(r))
    \/ PushDeferred \/ EpochEnds \/ ReclaimAll

Next ==
    \/ \E w \in Workers :
          \/ WorkerStep(w)
          \/ \E d \in Workers, r \in Resources : Spawn(w, d, r)
          \/ \E r \in Resources : Remove(w, r)
          \/ Stop(w)
    \/ EpochStep

Spec == Init /\ [][Next]_vars

(* Workers and the epoch thread keep running, tasks end.  What a task does *)
(* before it ends, and whether tasks are spawned, is the application's.    *)
FairSpec ==
    /\ Spec
    /\ \A w \in Workers : WF_vars(WorkerStep(w))
    /\ WF_vars(EpochStep)
-----------------------------------------------------------------------------

(* Epochs, objects and threads stay within their types. *)
TypeOK ==
    /\ running \in BOOLEAN
    /\ global \in Epoch
    /\ local \in [Workers -> Epoch \cup {MaxEpoch}]
    /\ pc \in [Workers -> {"fill", "store", "next", "refill", "restore", "read", "push", "ended"}]
    /\ loaded \in [Workers -> Epoch]
    /\ queued \in [Workers -> SUBSET Resources]
    /\ buffered \in [Workers -> SUBSET Resources]
    /\ on \in [Workers -> SUBSET Resources]
    /\ fresh \in [Workers -> BOOLEAN]
    /\ status \in [Resources -> {"live", "removed", "reclaimed"}]
    /\ removeEpoch \in [Resources -> Epoch]
    /\ garbage \in SUBSET Resources /\ deferred \in SUBSET Resources
    /\ epc \in {"advance", "min", "reclaim", "ended"}
    /\ scanned \in 0 .. CountChannels
    /\ minEpoch \in Epoch \cup {MaxEpoch}

(* "The resource will be deleted physically, when every local epoch is     *)
(* greater than the epoch when the resource is deleted": by the epoch      *)
(* thread, while workers run.                                              *)
ReclaimedWhenPassed ==
    [][\A r \in Resources :
          epc = "reclaim" /\ status[r] = "removed" /\ status'[r] = "reclaimed"
              => \A w \in Workers : local[w] > removeEpoch[r]]_vars

(* The epochs "protect reads against concurrent delete operations": an     *)
(* object that was reachable when a task began to read it is not reclaimed *)
(* before that task ends.                                                  *)
ReadsAreProtected ==
    \A w \in Workers : pc[w] \in {"read", "push"} /\ fresh[w] =>
        \A r \in on[w] : status[r] # "reclaimed"

(* Removed objects are not forgotten: each one is reclaimed while the      *)
(* runtime runs, or at the latest when it has stopped.                     *)
GarbageIsReclaimed ==
    \A r \in Resources : (status[r] = "removed") ~> (status[r] = "reclaimed")
=============================================================================
