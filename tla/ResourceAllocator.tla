-------------------------- MODULE ResourceAllocator --------------------------
(* The allocator for resources (memory/dynamic_size_allocator): blocks taken *)
(* from the global heap, cut from the end of their free elements. One NUMA   *)
(* region, the regions share nothing. Addresses are relative to the block.   *)
EXTENDS Naturals, Sequences, FiniteSets, FiniteSetsExt

CONSTANTS
    Threads, Sizes, Alignments,
    FirstSize,   \* 2^24, the block a region begins with
    BlockSize,   \* 2^28, the blocks added later
    Line,        \* 64, to which larger blocks are rounded
    Header,      \* sizeof(AllocatedHeader)
    Spare,       \* 256, what is left of an element stays free from here on
    Word,        \* 2^64, sizes are std::size_t
    MaxLive,     \* bound: allocations alive at a time
    MaxBlocks,   \* bound: no allocation begins with more blocks made
    Roomy        \* TRUE: no block is used to the last element when the
                 \* runtime is initialised anew

VARIABLES
    blocks,      \* _numa_allocation_blocks: id, size, free elements, available
    nextId,      \* _next_allocation_id
    growing,     \* _numa_allocation_flags
    at, request, \* where each thread is, and what it wants
    live         \* the AllocatedHeaders in use

vars == <<blocks, nextId, growing, at, request, live>>

Block(id, size) ==
    [id |-> id, size |-> size, free |-> <<[start |-> 0, size |-> size]>>, available |-> size]

Init ==
    /\ blocks = <<Block(0, FirstSize)>> /\ nextId = 1 /\ growing = FALSE
    /\ at = [t \in Threads |-> "idle"]
    /\ request = [t \in Threads |-> [size |-> 0, alignment |-> 1]]
    /\ live = {}

(* find_block: what the request takes from the end of a free element, ... *)
Needed(e, r) == r.size + ((e.start + e.size - r.size) % r.alignment) + Header

(* ... and the elements that are large enough. *)
Fitting(b, r) ==
    {i \in DOMAIN b.free :
        b.free[i].size >= r.size + Header /\ b.free[i].size >= Needed(b.free[i], r)}

(* The free elements and what is subtracted from _available_size: an element *)
(* that is used up is erased first, and then the size is read where it was.  *)
Contracted(b, i, needed) ==
    [b EXCEPT !.free[i].size = @ - needed, !.available = (@ + Word - needed) % Word]
Erased(b, i) ==
    LET read == b.free[IF i < Len(b.free) THEN i + 1 ELSE i].size
    IN  [b EXCEPT !.free = SubSeq(@, 1, i - 1) \o SubSeq(@, i + 1, Len(@)),
                  !.available = (@ + Word - read) % Word]

(* AllocationBlock::allocate on the last block, which the lock makes atomic. *)
Served(t, r) ==
    LET b == blocks[Len(blocks)]
        i == Min(Fitting(b, r))
        e == b.free[i]
        needed == Needed(e, r)
        kept == e.size - needed >= Spare
    IN  /\ b.available >= r.size /\ Fitting(b, r) # {}
        /\ blocks' = [blocks EXCEPT ![Len(blocks)] =
                        IF kept THEN Contracted(b, i, needed) ELSE Erased(b, i)]
        /\ live' = live \cup {[block |-> b.id, size |-> needed - Header,
                               header |-> e.start + e.size - needed,
                               before |-> IF kept THEN 0 ELSE e.size - needed,
                               alignment |-> r.alignment]}
        /\ at' = [at EXCEPT ![t] = "idle"]
        /\ UNCHANGED <<nextId, growing, request>>

Missed(t, r) ==
    /\ LET b == blocks[Len(blocks)]
       IN  b.available < r.size \/ Fitting(b, r) = {}
    /\ at' = [at EXCEPT ![t] = "exchange"]
    /\ request' = [request EXCEPT ![t] = r]
    /\ UNCHANGED <<blocks, nextId, growing, live>>

Busy == {t \in Threads : at[t] # "idle"}

(* Allocator::allocate: the first attempt, ... *)
Allocate(t) ==
    /\ at[t] = "idle"
    /\ Cardinality(live) + Cardinality(Busy) < MaxLive /\ nextId <= MaxBlocks
    /\ \E size \in Sizes, alignment \in Alignments :
          LET r == [size |-> size, alignment |-> alignment]
          IN  Served(t, r) \/ Missed(t, r)

(* ... and those after a block was added by this thread or another one. *)
Retry(t) ==
    /\ at[t] = "retry"
    /\ Served(t, request[t]) \/ Missed(t, request[t])

(* allocate_new_block: one thread takes the flag, the others wait for it. *)
Exchange(t) ==
    /\ at[t] = "exchange"
    /\ at' = [at EXCEPT ![t] = IF growing THEN "wait" ELSE "emplace"]
    /\ growing' = TRUE
    /\ UNCHANGED <<blocks, nextId, request, live>>

NextMultiple(value, base) ==
    IF value > base THEN ((value + base - 1) \div base) * base ELSE base

Emplace(t) ==
    /\ at[t] = "emplace"
    /\ blocks' = Append(blocks, Block(nextId, Max({BlockSize, NextMultiple(request[t].size, Line)})))
    /\ nextId' = nextId + 1
    /\ at' = [at EXCEPT ![t] = "release"]
    /\ UNCHANGED <<growing, request, live>>

\* Mutant: the flag stays set.
ReleaseForgotten(t) ==
    /\ at[t] = "release"
    /\ at' = [at EXCEPT ![t] = "retry"]
    /\ UNCHANGED <<blocks, nextId, growing, request, live>>

Release(t) ==
    /\ at[t] = "release"
    /\ growing' = FALSE
    /\ at' = [at EXCEPT ![t] = "retry"]
    /\ UNCHANGED <<blocks, nextId, request, live>>

Wait(t) ==
    /\ at[t] = "wait" /\ ~growing
    /\ at' = [at EXCEPT ![t] = "retry"]
    /\ UNCHANGED <<blocks, nextId, growing, request, live>>

Borders(e, f) == e.start + e.size = f.start

\* Mutant: an element that grows to the left is not merged with its neighbour.
InsertedOnce(free, e) ==
    LET i == Cardinality({j \in DOMAIN free : free[j].start < e.start})
        right == i < Len(free) /\ Borders(e, free[i + 1])
        left == ~right /\ i > 0 /\ Borders(free[i], e)
        merged == [start |-> IF left THEN free[i].start ELSE e.start,
                   size |-> e.size + (IF left THEN free[i].size ELSE 0)
                                   + (IF right THEN free[i + 1].size ELSE 0)]
    IN  SubSeq(free, 1, IF left THEN i - 1 ELSE i) \o <<merged>>
          \o SubSeq(free, IF right THEN i + 2 ELSE i + 1, Len(free))

(* AllocationBlock::free: an element goes where its address belongs, merged  *)
(* with the elements it borders on.                                          *)
Inserted(free, e) ==
    LET i == Cardinality({j \in DOMAIN free : free[j].start < e.start})
        right == i < Len(free) /\ Borders(e, free[i + 1])
        left == i > 0 /\ Borders(free[i], e)
        merged == [start |-> IF left THEN free[i].start ELSE e.start,
                   size |-> e.size + (IF left THEN free[i].size ELSE 0)
                                   + (IF right THEN free[i + 1].size ELSE 0)]
    IN  SubSeq(free, 1, IF left THEN i - 1 ELSE i) \o <<merged>>
          \o SubSeq(free, IF right THEN i + 2 ELSE i + 1, Len(free))

Extent(a) == [start |-> a.header - a.before, size |-> a.size + a.before + Header]

(* Allocator::free: in the first block with the id of the header. *)
Free(a) ==
    /\ a \in live
    /\ live' = live \ {a}
    /\ LET owners == {i \in DOMAIN blocks : blocks[i].id = a.block}
       IN  blocks' = IF owners = {} THEN blocks
                     ELSE [blocks EXCEPT
                            ![Min(owners)].free = Inserted(@, Extent(a)),
                            ![Min(owners)].available = (@ + Extent(a).size) % Word]
    /\ UNCHANGED <<nextId, growing, at, request>>

\* Mutant: one free element is taken for a free block.
IsFreeOnceMerged(b) == Len(b.free) <= 1

IsFree(b) == b.free = <<>> \/ (Len(b.free) = 1 /\ b.free[1].size = b.size)

(* What remove_if leaves of the blocks with these indices: their order. *)
Orders(indices) ==
    {f \in Surjection(1 .. Cardinality(indices), indices) :
        \A j, k \in DOMAIN f : j < k => f[j] < f[k]}

(* initialize_empty *)
Filled(bs, id) == IF bs = <<>> THEN <<Block(id, FirstSize)>> ELSE bs

(* runtime::init with an allocator: release_allocated_memory if all blocks   *)
(* are free, else defragment, and initialize_empty in both cases.            *)
Reinit ==
    /\ Busy = {}
    /\ Roomy => \A i \in DOMAIN blocks : blocks[i].free # <<>>
    /\ \E order \in Orders({i \in DOMAIN blocks : ~IsFree(blocks[i])}) :
          LET inUse == [k \in DOMAIN order |-> blocks[order[k]]]
              id == IF inUse = <<>> THEN 0 ELSE nextId
          IN  /\ blocks' = Filled(inUse, id)
              /\ nextId' = IF inUse = <<>> THEN id + 1 ELSE nextId
    /\ UNCHANGED <<growing, at, request, live>>

Proceed(t) == Exchange(t) \/ Emplace(t) \/ Release(t) \/ Wait(t) \/ Retry(t)

Next == (\E t \in Threads : Allocate(t) \/ Proceed(t)) \/ (\E a \in live : Free(a))

(* Threads keep running. *)
Fairness == \A t \in Threads : WF_vars(Proceed(t))
------------------------------------------------------------------------------

Bytes(e) == e.start .. e.start + e.size - 1
Owned(b) == {Extent(a) : a \in {x \in live : x.block = b.id}}

(* The free elements and the allocations of a block tile it: no byte belongs *)
(* to two of them and none is lost, whatever was cut off for alignment or    *)
(* given away as too small to keep. Free elements are sorted and never       *)
(* adjacent, so a free block is one element, as is_free() assumes. Memory    *)
(* begins behind its header at an address of the alignment that was asked    *)
(* for, also in elements whose ends are not aligned.                         *)
SpaceIsTiled ==
    /\ \A a \in live : (a.header + Header) % a.alignment = 0
    /\ \A i \in DOMAIN blocks :
          LET b == blocks[i]
              parts == Owned(b) \cup Range(b.free)
          IN  /\ \A e, f \in parts : e = f \/ Bytes(e) \cap Bytes(f) = {}
              /\ UNION {Bytes(e) : e \in parts} = 0 .. b.size - 1
              /\ \A j \in 2 .. Len(b.free) :
                    b.free[j - 1].start + b.free[j - 1].size < b.free[j].start

(* Initialising the runtime anew keeps every block that has memory in use.   *)
BlocksOutliveAllocations == \A a \in live : \E i \in DOMAIN blocks : blocks[i].id = a.block

(* A request that does not fit into the last block is served from a new one, *)
(* whichever thread adds it.                                                 *)
RequestsAreServed == \A t \in Threads : (at[t] # "idle") ~> (at[t] = "idle")
==============================================================================
