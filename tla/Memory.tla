------------------------------- MODULE Memory -------------------------------
(* The memory of a runtime (tasking/runtime.h): one allocator for tasks and  *)
(* one for resources, which runtime::init builds and later prepares for the  *)
(* next run. Between two calls of init the allocators share nothing, so that *)
(* a behaviour follows one of them and every state of either is reached.     *)
EXTENDS TaskAllocator

CONSTANTS
    Threads, Sizes, Alignments, FirstSize, BlockSize, Line, Header, Spare, Word,
    MaxLive, MaxBlocks, Roomy

(* Every core gets a chunk of the first region; the counter of chunks does   *)
(* not overflow while cores find the buffer empty; a request fits into a new *)
(* block together with its header, wherever the alignment moves it.          *)
ASSUME ConfigurationAssumption ==
    /\ CoreCount \in 1 .. Chunks /\ Chunks + 2 * CoreCount <= Modulus
    /\ Sizes \subseteq Nat /\ Alignments \subseteq Nat \ {0}
    /\ {FirstSize, BlockSize, Line, Header, Spare, Word} \subseteq Nat \ {0}
    /\ \A s \in Sizes, a \in Alignments : s + a - 1 + Header <= BlockSize

VARIABLES
    blocks, nextId, growing, at, request, live,
    followed     \* the allocator this behaviour is about

Resources == INSTANCE ResourceAllocator

rvars == <<blocks, nextId, growing, at, request, live>>
mvars == <<vars, rvars, followed>>

MemoryInit ==
    /\ Init /\ Resources!Init
    /\ followed \in {"tasks", "resources"}

(* runtime::init while the scheduler does not run. *)
Reinit == Rebuild /\ Resources!Reinit

MemoryNext ==
    /\ UNCHANGED followed
    /\ \/ followed = "tasks" /\ Next /\ UNCHANGED rvars
       \/ followed = "resources" /\ Resources!Next /\ UNCHANGED vars
       \/ Reinit

MemorySpec == MemoryInit /\ [][MemoryNext]_mvars /\ Fairness /\ Resources!Fairness
-----------------------------------------------------------------------------

(* Allocations and free elements tile the blocks for resources, and          *)
(* resources begin at aligned addresses.                                     *)
SpaceIsTiled == Resources!SpaceIsTiled

(* runtime::init keeps the blocks of resources that are alive.               *)
BlocksOutliveAllocations == Resources!BlocksOutliveAllocations

(* A core without free task objects finds a chunk, whoever has to fetch the  *)
(* region, and a request for a resource is served, from a new block if need  *)
(* be: nobody spins for ever on the flags of the two allocators.             *)
RequestsAreServed == ChunksAreFound /\ Resources!RequestsAreServed
=============================================================================
