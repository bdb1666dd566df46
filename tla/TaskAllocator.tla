---------------------------- MODULE TaskAllocator ----------------------------
(* The allocator for tasks (memory/fixed_size_allocator.h): cores of one     *)
(* NUMA region take chunks from a buffer they share, the ProcessorHeap, and  *)
(* cut them into objects for a free list of their own, the CoreHeap.         *)
EXTENDS Naturals, Sequences, Functions, FiniteSets

CONSTANTS
    CoreCount,   \* cores of the region
    Chunks,      \* ProcessorHeap::CHUNKS
    Objects,     \* objects per chunk
    Modulus,     \* 2^8, _next_free_chunk is an atomic_uint8_t
    MaxRegions,  \* bound: no allocation begins with more memory than that
    Prompt       \* TRUE: no core pauses between fetch_add and what follows
                 \* from it for so long that another one refills meanwhile

VARIABLES
    buffer,      \* _free_chunk_buffer
    next,        \* _next_free_chunk
    filling,     \* _fill_buffer_flag
    retired,     \* _allocated_chunks
    regions,     \* regions of memory taken from the global heap
    pc, index,   \* where each core is, and the index it works with
    free,        \* the list of free objects of each core
    used         \* objects handed out

heap == <<buffer, next, filling, retired, regions>>
vars == <<heap, pc, index, free, used>>

Cores == 1 .. CoreCount
Slots == 0 .. Chunks - 1

(* A chunk is a region and a number; a region is given back by its first.    *)
Region(r) == [i \in Slots |-> <<r, i>>]
ObjectsOf(chunk) == [n \in 1 .. Objects |-> <<chunk, n>>]

(* The constructor: every core begins with a chunk of the first region. *)
FirstObjects == [c \in Cores |-> ObjectsOf(<<1, c - 1>>)]

Init ==
    /\ buffer = Region(1) /\ next = CoreCount /\ filling = FALSE
    /\ retired = <<>> /\ regions = 1
    /\ pc = [c \in Cores |-> "idle"] /\ index = [c \in Cores |-> 0]
    /\ free = FirstObjects /\ used = {}

Goto(c, from, to) == pc[c] = from /\ pc' = [pc EXCEPT ![c] = to]

(* CoreHeap::allocate from the list of the core. *)
Allocate(c) ==
    /\ pc[c] = "idle" /\ free[c] # <<>>
    /\ used' = used \cup {Head(free[c])}
    /\ free' = [free EXCEPT ![c] = Tail(@)]
    /\ UNCHANGED <<heap, pc, index>>

(* CoreHeap::free: on whatever core the task was executed. *)
Free(c, object) ==
    /\ pc[c] = "idle" /\ object \in used
    /\ used' = used \ {object}
    /\ free' = [free EXCEPT ![c] = <<object>> \o @]
    /\ UNCHANGED <<heap, pc, index>>

(* With an empty list: fill_buffer asks the processor heap. *)
FillBuffer(c) ==
    /\ free[c] = <<>> /\ regions <= MaxRegions
    /\ Goto(c, "idle", "fetch")
    /\ UNCHANGED <<heap, index, free, used>>

FetchAdd(c) ==
    /\ Goto(c, "fetch", IF next < Chunks THEN "read" ELSE "exchange")
    /\ next' = (next + 1) % Modulus
    /\ index' = [index EXCEPT ![c] = next]
    /\ UNCHANGED <<buffer, filling, retired, regions, free, used>>

(* The chunk is read and cut, and its first object handed out. *)
ReadChunk(c) ==
    /\ Goto(c, "read", "idle")
    /\ LET objects == ObjectsOf(buffer[index[c]])
       IN  /\ free' = [free EXCEPT ![c] = Tail(objects)]
           /\ used' = used \cup {Head(objects)}
    /\ UNCHANGED <<heap, index>>

(* compare_exchange of the flag: one core fills, the others wait.            *)
Exchange(c) ==
    /\ pc[c] = "exchange"
    /\ pc' = [pc EXCEPT ![c] = IF filling THEN "wait" ELSE "save"]
    /\ filling' = TRUE
    /\ UNCHANGED <<buffer, next, retired, regions, index, free, used>>

Wait(c) ==
    /\ ~filling
    /\ Goto(c, "wait", "fetch")
    /\ UNCHANGED <<heap, index, free, used>>

\* Mutant: the chunks of the buffer are not kept for the destructor.
SaveNothing(c) ==
    /\ Goto(c, "save", "store")
    /\ Prompt => \A d \in Cores : pc[d] # "read"
    /\ regions' = regions + 1
    /\ index' = [index EXCEPT ![c] = 0]
    /\ UNCHANGED <<buffer, next, filling, retired, free, used>>

(* fill_buffer<false>: keep the old chunks and take a region, ... *)
Save(c) ==
    /\ Goto(c, "save", "store")
    /\ Prompt => \A d \in Cores : pc[d] # "read"
    /\ retired' = retired \o [i \in 1 .. Chunks |-> buffer[i - 1]]
    /\ regions' = regions + 1
    /\ index' = [index EXCEPT ![c] = 0]
    /\ UNCHANGED <<buffer, next, filling, free, used>>

\* Mutant: cores may take chunks before all of them are stored.
StoreOpened(c) ==
    /\ pc[c] = "store" /\ index[c] < Chunks
    /\ buffer' = [buffer EXCEPT ![index[c]] = <<regions, index[c]>>]
    /\ next' = 0
    /\ index' = [index EXCEPT ![c] = @ + 1]
    /\ UNCHANGED <<filling, retired, regions, pc, free, used>>

(* ... store its chunks one by one, ... *)
Store(c) ==
    /\ pc[c] = "store" /\ index[c] < Chunks
    /\ buffer' = [buffer EXCEPT ![index[c]] = <<regions, index[c]>>]
    /\ index' = [index EXCEPT ![c] = @ + 1]
    /\ UNCHANGED <<next, filling, retired, regions, pc, free, used>>

(* ... start counting anew, ... *)
Restart(c) ==
    /\ index[c] = Chunks
    /\ Goto(c, "store", "filled")
    /\ Prompt => \A d \in Cores : pc[d] # "exchange"
    /\ next' = 0
    /\ UNCHANGED <<buffer, filling, retired, regions, index, free, used>>

(* ... and let the others go on. *)
Filled(c) ==
    /\ Goto(c, "filled", "fetch")
    /\ filling' = FALSE
    /\ UNCHANGED <<buffer, next, retired, regions, index, free, used>>

Proceed(c) ==
    \/ FetchAdd(c) \/ ReadChunk(c) \/ Exchange(c) \/ Wait(c)
    \/ Save(c) \/ Store(c) \/ Restart(c) \/ Filled(c)

Next ==
    \E c \in Cores :
        \/ Allocate(c) \/ FillBuffer(c) \/ Proceed(c)
        \/ \E object \in used : Free(c, object)

(* runtime::init builds a new allocator; the old one gives its regions back. *)
Rebuild ==
    /\ \A c \in Cores : pc[c] = "idle"
    /\ buffer' = Region(1) /\ next' = CoreCount /\ filling' = FALSE
    /\ retired' = <<>> /\ regions' = 1
    /\ pc' = pc /\ index' = [c \in Cores |-> 0]
    /\ free' = FirstObjects /\ used' = {}

(* Cores keep running. *)
Fairness == \A c \in Cores : WF_vars(Proceed(c))

Spec == Init /\ [][Next]_vars /\ Fairness
------------------------------------------------------------------------------

(* No object is handed out twice, or handed out and free, or free on two     *)
(* cores: chunks pass from the shared buffer to one core each, although the  *)
(* index is fetched and the chunk read in two steps and the buffer refilled  *)
(* in many, and tasks are freed on other cores than they were made on.       *)
ObjectsDistinct ==
    /\ \A c \in Cores : IsInjective(free[c]) /\ Range(free[c]) \cap used = {}
    /\ \A c, d \in Cores : c # d => Range(free[c]) \cap Range(free[d]) = {}

Firsts(chunks) == {chunks[i][1] : i \in {j \in DOMAIN chunks : chunks[j][2] = 0}}

(* The destructor gives every region back exactly once: whenever nobody is   *)
(* filling, its first chunk is either in the buffer or in _allocated_chunks. *)
RegionsAccounted ==
    (\A c \in Cores : pc[c] \notin {"store", "filled"}) =>
      /\ Firsts(retired) \cup Firsts(buffer) = 1 .. regions
      /\ Len(retired) = (regions - 1) * Chunks

(* Every core that needs a chunk gets one, whoever has to fetch the region.  *)
ChunksAreFound == \A c \in Cores : (pc[c] # "idle") ~> (pc[c] = "idle")
==============================================================================
