----------------------------- MODULE MPSCQueue -----------------------------
(***************************************************************************)
(* The multi-producer, single-consumer queue behind the remote queues of a *)
(* channel (util/mpsc_queue.h), with one step for every access to a shared *)
(* pointer.  Items are tasks: they carry their own next pointer, and once  *)
(* popped they are executed and freed or pushed again.                     *)
(*                                                                         *)
(* A producer first makes its item the head and then links the former head *)
(* to it; in between the list is broken.  The consumer is Worker's call of *)
(* TaskBuffer::fill: empty(), then pop_front() until it has enough.        *)
(***************************************************************************)
EXTENDS Sequences, FiniteSets

CONSTANTS
    Producers,
    Item,
    Stub,    \* the dummy item of the queue; _end always points to it
    Null

ASSUME QueueAssumption ==
    /\ Stub \notin Item /\ Null \notin Item /\ Stub # Null

VARIABLES
    head,    \* _head, the item pushed last
    tail,    \* _tail, where the consumer is
    next,    \* the next pointer of every item
    pc,      \* where each producer is
    prev,    \* the head a producer has replaced
    first,   \* the item it is going to link there
    cpc,     \* where the consumer is
    ctail, cnext, cprev,  \* its local variables tail, next and prev
    queue,   \* history: the pushed items in the order of the exchanges
    taken    \* history: the item popped last

pvars == <<pc, prev, first>>
cvars == <<cpc, ctail, cnext, cprev>>
vars == <<head, tail, next, pvars, cvars, queue, taken>>

Node == Item \cup {Stub}

Init ==
    /\ head = Stub /\ tail = Stub
    /\ next = [n \in Node |-> Null]
    /\ pc = [p \in Producers |-> "idle"]
    /\ prev = [p \in Producers |-> Null]
    /\ first = [p \in Producers |-> Null]
    /\ cpc = "idle" /\ ctail = Null /\ cnext = Null /\ cprev = Null
    /\ queue = <<>> /\ taken = {}

(* Items that nobody has: the queue does not, and the consumer is not      *)
(* about to return them.                                                   *)
Free == {x \in Item : \A i \in DOMAIN queue : queue[i] # x}

-----------------------------------------------------------------------------
(* Producers. *)

(* push_back(item): item->next(nullptr), and the exchange of _head. *)
Push(p, x) ==
    /\ pc[p] = "idle"
    /\ next' = [next EXCEPT ![x] = Null]
    /\ head' = x
    /\ pc' = [pc EXCEPT ![p] = "link"]
    /\ prev' = [prev EXCEPT ![p] = head]
    /\ first' = [first EXCEPT ![p] = x]
    /\ queue' = Append(queue, x)
    /\ UNCHANGED <<tail, cvars, taken>>

(* push_back(begin, end), for two items linked by the caller. *)
PushLinked(p, x, y) ==
    /\ pc[p] = "idle"
    /\ next' = [next EXCEPT ![x] = y, ![y] = Null]
    /\ head' = y
    /\ pc' = [pc EXCEPT ![p] = "link"]
    /\ prev' = [prev EXCEPT ![p] = head]
    /\ first' = [first EXCEPT ![p] = x]
    /\ queue' = queue \o <<x, y>>
    /\ UNCHANGED <<tail, cvars, taken>>

(* prev->next(item). *)
Link(p) ==
    /\ pc[p] = "link"
    /\ next' = [next EXCEPT ![prev[p]] = first[p]]
    /\ pc' = [pc EXCEPT ![p] = "idle"]
    /\ prev' = [prev EXCEPT ![p] = Null]
    /\ first' = [first EXCEPT ![p] = Null]
    /\ UNCHANGED <<head, tail, cvars, queue, taken>>

-----------------------------------------------------------------------------
(* The consumer. *)

Empty == tail = Stub /\ next[Stub] = Null

CGoto(from, to) == cpc = from /\ cpc' = to

(* The caller asked empty() and calls pop_front: _tail and its next.  The  *)
(* consumer is the only one to change _tail.                               *)
PopBegin ==
    /\ CGoto("idle", "first")
    /\ ~Empty
    /\ ctail' = tail
    /\ cnext' = next[tail]
    /\ UNCHANGED <<head, tail, next, pvars, cprev, queue, taken>>

(* pop_front once more, without asking empty(). *)
PopAgain ==
    /\ CGoto("more", "first")
    /\ ctail' = tail
    /\ cnext' = next[tail]
    /\ UNCHANGED <<head, tail, next, pvars, cprev, queue, taken>>

(* The buffer is full: fill returns. *)
PopEnough ==
    /\ CGoto("more", "idle")
    /\ UNCHANGED <<head, tail, next, pvars, ctail, cnext, cprev, queue, taken>>

Return(x) ==
    /\ taken' = {x}
    /\ queue' = Tail(queue)

ReturnNothing ==
    /\ cpc' = "idle"
    /\ ctail' = Null /\ cnext' = Null
    /\ UNCHANGED <<head, tail, next, pvars, cprev, queue, taken>>

(* tail == _end: nothing there, ... *)
PopNothing ==
    /\ cpc = "first"
    /\ ctail = Stub /\ cnext = Null
    /\ ReturnNothing

(* ... or step over the stub. *)
SkipStub ==
    /\ CGoto("first", "second")
    /\ ctail = Stub /\ cnext # Null
    /\ tail' = cnext
    /\ ctail' = cnext
    /\ cnext' = next[cnext]
    /\ UNCHANGED <<head, next, pvars, cprev, queue, taken>>

(* Mutant: the successor is given away in place of the tail. *)
PopNext ==
    /\ \/ cpc = "first" /\ ctail # Stub
       \/ cpc = "second"
       \/ cpc = "third"
    /\ cnext # Null
    /\ cpc' = "more"
    /\ tail' = cnext
    /\ Return(cnext)
    /\ ctail' = Null /\ cnext' = Null
    /\ UNCHANGED <<head, next, pvars, cprev>>

(* next != nullptr: the tail has a successor and can be given away. *)
PopItem ==
    /\ \/ cpc = "first" /\ ctail # Stub
       \/ cpc = "second"
       \/ cpc = "third"
    /\ cnext # Null
    /\ cpc' = "more"
    /\ tail' = cnext
    /\ Return(ctail)
    /\ ctail' = Null /\ cnext' = Null
    /\ UNCHANGED <<head, next, pvars, cprev>>

(* Mutant: the last item is given away although producers may hold it. *)
PopLastDirectly ==
    /\ \/ cpc = "first" /\ ctail # Stub
       \/ cpc = "second"
    /\ cnext = Null
    /\ head = ctail
    /\ cpc' = "more"
    /\ Return(ctail)
    /\ tail' = Stub
    /\ ctail' = Null
    /\ UNCHANGED <<head, next, pvars, cnext, cprev>>

(* Mutant: the last item waits for a successor. *)
LastWaits ==
    /\ \/ cpc = "first" /\ ctail # Stub
       \/ cpc = "second"
    /\ cnext = Null
    /\ head = ctail
    /\ ReturnNothing

(* The tail is the last item: the stub has to go behind it first. *)
IsLast ==
    /\ \/ cpc = "first" /\ ctail # Stub
       \/ cpc = "second"
    /\ cnext = Null
    /\ head = ctail
    /\ cpc' = "reset"
    /\ UNCHANGED <<head, tail, next, pvars, ctail, cnext, cprev, queue, taken>>

(* tail != head: a producer is about to link the next item. *)
LinkPending ==
    /\ \/ cpc = "first" /\ ctail # Stub
       \/ cpc = "second"
    /\ cnext = Null
    /\ head # ctail
    /\ ReturnNothing

(* push_back(_end). *)
StubReset ==
    /\ CGoto("reset", "exchange")
    /\ next' = [next EXCEPT ![Stub] = Null]
    /\ UNCHANGED <<head, tail, pvars, ctail, cnext, cprev, queue, taken>>

StubExchange ==
    /\ CGoto("exchange", "link")
    /\ cprev' = head
    /\ head' = Stub
    /\ UNCHANGED <<tail, next, pvars, ctail, cnext, queue, taken>>

StubLink ==
    /\ CGoto("link", "reread")
    /\ next' = [next EXCEPT ![cprev] = Stub]
    /\ cprev' = Null
    /\ UNCHANGED <<head, tail, pvars, ctail, cnext, queue, taken>>

(* next = tail->next(), again. *)
Reread ==
    /\ CGoto("reread", "third")
    /\ cnext' = next[ctail]
    /\ UNCHANGED <<head, tail, next, pvars, ctail, cprev, queue, taken>>

(* A producer got in between the test of the head and the stub. *)
StillPending ==
    /\ cpc = "third"
    /\ cnext = Null
    /\ ReturnNothing

Pop ==
    \/ PopAgain \/ PopNothing \/ SkipStub \/ PopItem \/ IsLast \/ LinkPending
    \/ StubReset \/ StubExchange \/ StubLink \/ Reread \/ StillPending

Consumer == PopBegin \/ PopEnough \/ Pop

Next ==
    \/ \E p \in Producers :
          \/ \E x \in Free : Push(p, x)
          \/ \E x, y \in Free : x # y /\ PushLinked(p, x, y)
          \/ Link(p)
    \/ Consumer

Spec == Init /\ [][Next]_vars

(* A producer that began a push finishes it, and the worker keeps filling  *)
(* its buffer.  Which of the two ways a full or not yet full buffer takes  *)
(* is open, so the consumer is fair as a whole.                            *)
Fairness ==
    /\ \A p \in Producers : WF_vars(Link(p))
    /\ WF_vars(Consumer)

FairSpec == Spec /\ Fairness
-----------------------------------------------------------------------------

(* A producer that still has to link never writes to an item that was      *)
(* popped, for the worker may have freed it (delete_task) meanwhile.       *)
LinksOnlyQueued ==
    \A p \in Producers : pc[p] = "link" =>
        prev[p] = Stub \/ \E i \in DOMAIN queue : queue[i] = prev[p]

FIFO == INSTANCE FIFOQueue

(* The pointer structure is a queue: pop_front returns the items in the    *)
(* order in which the exchanges of push_back happened, none twice and none *)
(* skipped, wherever producers are between exchange and link.              *)
ImplementsFIFO == FIFO!FSpec

(* Every pushed task is popped in the end, although pop_front returns      *)
(* nothing as long as a link before it is pending.                         *)
EveryPushIsPopped ==
    \A x \in Item : (x \notin Free) ~> (x \in Free)
=============================================================================
