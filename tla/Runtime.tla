------------------------------- MODULE Runtime -------------------------------
(* The threads of a running runtime, seen twice: by what the workers read    *)
(* and the epoch thread reclaims (EpochManager), and by how they are started *)
(* and stopped (Lifecycle).  The two views share no step that changes both,  *)
(* so a behaviour follows one of them.                                       *)
EXTENDS Integers

CONSTANTS
    CountChannels,
    Resources, EpochBound, FirstStart,                            \* EpochManager
    PrefetchDistance, Spawned, SpawnBound, AgainBound, StartBound \* Lifecycle

VARIABLES
    up, global, local, at, loaded, queued, buffered, on, fresh,
    status, removeEpoch, garbage, deferred, epc, scanned, minEpoch,
    running, main, thread, queue, buffers, starts,
    followed

Epochs == INSTANCE EpochManager WITH running <- up, pc <- at
Life == INSTANCE Lifecycle WITH buffer <- buffers

ASSUME RuntimeAssumption == Epochs!EpochAssumption /\ Life!LifecycleAssumption

evars == <<up, global, local, at, loaded, queued, buffered, on, fresh,
           status, removeEpoch, garbage, deferred, epc, scanned, minEpoch>>
lvars == <<running, main, thread, queue, buffers, starts>>
rvars == <<evars, lvars, followed>>

RInit ==
    /\ Epochs!Init /\ Life!Init
    /\ followed \in {"EpochManager", "Lifecycle"}
    /\ followed = "Lifecycle" => \A w \in Epochs!Workers : queued[w] = {}

RNext ==
    /\ UNCHANGED followed
    /\ \/ followed = "EpochManager" /\ Epochs!Next /\ UNCHANGED lvars
       \/ followed = "Lifecycle" /\ Life!Next /\ UNCHANGED evars

(* The threads of the view that is followed run as fairly as it says.        *)
RSpec ==
    /\ RInit /\ [][RNext]_rvars
    /\ \A w \in Epochs!Workers : WF_evars(followed = "EpochManager" /\ Epochs!WorkerStep(w))
    /\ WF_evars(followed = "EpochManager" /\ Epochs!EpochStep)
    /\ WF_lvars(followed = "Lifecycle" /\ Life!MainStep)
    /\ \A c \in Life!Channels : WF_lvars(followed = "Lifecycle" /\ Life!WorkerStep(c))
    /\ WF_lvars(followed = "Lifecycle" /\ Life!ThreadStep(Life!Epoch))
-----------------------------------------------------------------------------

(* The epoch thread reclaims an object only when every worker's local epoch  *)
(* has passed the one it was removed in.                                     *)
ReclaimedWhenPassed == Epochs!ReclaimedWhenPassed

(* An object that was reachable when a task began to read it is not          *)
(* reclaimed before that task ends.                                          *)
ReadsAreProtected == Epochs!ReadsAreProtected

(* Every removed object is reclaimed, at the latest when the runtime stops.  *)
GarbageIsReclaimed == Epochs!GarbageIsReclaimed

(* Outside of start_and_wait no thread is left and no task is stranded in a  *)
(* task buffer.                                                              *)
QuietOutside == Life!QuietOutside

(* If every thread had seen the start when the runtime was stopped,          *)
(* start_and_wait returns.                                                   *)
StopReturns == Life!StopReturns
=============================================================================
