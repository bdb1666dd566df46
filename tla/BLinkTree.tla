----------------------------- MODULE BLinkTree -----------------------------
(* The B-Link tree and its four kinds of task.  The runtime serialises the   *)
(* tasks annotated with one node (Tasking, ResourceInterface), so what a     *)
(* task does to its own node is one step, and a task in the middle of        *)
(* execute() keeps its node to itself.  What it writes elsewhere, the parent *)
(* links of other nodes, a new root, the height and _root, is not protected  *)
(* by that and is a step of its own, in the order of the code.               *)
EXTENDS Naturals, Sequences, FiniteSets, Functions

CONSTANTS
    Keys,       \* keys of the workload
    Values,     \* values of the workload
    MaxItems,   \* LeafNode::max_items
    MaxKeys,    \* InnerNode::max_keys
    Requests,   \* identities of the requests of one phase
    Listeners   \* the request containers, which count finished requests

ASSUME TreeAssumption == Keys \subseteq Nat /\ MaxItems >= 2 /\ MaxKeys >= 2

VARIABLES
    nodes,      \* the nodes in the order of their creation
    root,       \* _root
    height,     \* _height
    task,       \* the task that serves each request
    call,       \* the tuple each request asks for
    answer,     \* what each request has got, from the moment of its effect
    finished    \* _finished_requests of every listener

tree == <<nodes, root, height>>
tvars == <<nodes, root, height, task, call, answer, finished>>

Nil == 0                                             \* the null pointer
Infinity == 1 + CHOOSE k \in Keys : \A j \in Keys : j <= k  \* greatest K

Absent == "absent"
NoCall == [op |-> "none"]
Pending == "pending"

NewNode(type, parent) ==
    [type |-> type, keys |-> <<>>, items |-> IF type = "leaf" THEN <<>> ELSE <<Nil>>,
     high |-> Infinity, right |-> Nil, parent |-> parent]

Size(n) == Len(n.keys)
Full(n) == Size(n) >= IF n.type = "leaf" THEN MaxItems ELSE MaxKeys

(* Indices count from 0 as in the code: index() is std::lower_bound. *)
Index(n, key) == Cardinality({i \in DOMAIN n.keys : n.keys[i] < key})
Child(n, key) == n.items[1 + Cardinality({i \in DOMAIN n.keys : n.keys[i] <= key})]

(* Keys and items from a 0-based index on, with one more there, and the node *)
(* cut down to a size.                                                       *)
From(s, index) == SubSeq(s, index + 1, Len(s))
InsertItem(n, index, item, key) ==
    LET place(s, i, x) == SubSeq(s, 1, i) \o <<x>> \o From(s, i)
    IN  [n EXCEPT !.keys = place(@, index, key),
                  !.items = place(@, IF n.type = "leaf" THEN index ELSE index + 1, item)]
Cut(n, size) ==
    [n EXCEPT !.keys = SubSeq(@, 1, size),
              !.items = SubSeq(@, 1, IF n.type = "leaf" THEN size ELSE size + 1)]

(* Both splits give the left and the right node and the key for the parent.  *)
SplitLeafNode(n, new, key, value) ==
    LET size == MaxItems \div 2
        fresh == [n EXCEPT !.keys = From(@, size), !.items = From(@, size)]
        toLeft == key < fresh.keys[1]
        left == IF toLeft THEN InsertItem(Cut(n, size), Index(Cut(n, size), key), value, key)
                          ELSE Cut(n, size)
        right == IF toLeft THEN fresh ELSE InsertItem(fresh, Index(fresh, key), value, key)
    IN  [left |-> [left EXCEPT !.right = new, !.high = right.keys[1]],
         right |-> right, up |-> right.keys[1]]

SplitInnerNode(n, new, key, separator) ==
    LET size == MaxKeys \div 2
        upper(index, first) ==
            [n EXCEPT !.keys = From(@, index), !.items = <<first>> \o From(@, index + 1)]
        parts ==
            CASE key < n.keys[size] ->
                    LET left == Cut(n, size - 1)
                    IN  [left |-> InsertItem(left, Index(left, key), separator, key),
                         right |-> upper(size, n.items[size + 1]), up |-> n.keys[size]]
              [] key >= n.keys[size] /\ key < n.keys[size + 1] ->
                    [left |-> Cut(n, size), right |-> upper(size, separator), up |-> key]
              [] OTHER ->
                    LET right == upper(size + 1, n.items[size + 2])
                    IN  [left |-> Cut(n, size),
                         right |-> InsertItem(right, Index(right, key), separator, key),
                         up |-> n.keys[size + 1]]
    IN  [parts EXCEPT !.left.right = new, !.left.high = parts.up]

------------------------------------------------------------------------------
(* A task: pc is "queued" between two executions; otherwise the task is in   *)
(* the middle of execute() on its node and the pc names what comes next.     *)
Idle == [pc |-> "idle", kind |-> "none", key |-> 0, node |-> Nil, readonly |-> FALSE,
         listener |-> Nil, separator |-> Nil, up |-> 0, index |-> 0, top |-> Nil]

Latched(n) == \E r \in Requests : task[r].pc \notin {"idle", "queued"} /\ task[r].node = n

MyNode(r) == nodes[task[r].node]
\* Mutant: a task looks for a right sibling only once its node is full.
RelatedUntilFull(r) == MyNode(r).high > task[r].key \/ ~Full(MyNode(r))
Related(r) == MyNode(r).high > task[r].key

(* A worker runs a queued task, which finds its node in the key's range. *)
Run(r) == task[r].pc = "queued" /\ ~Latched(task[r].node)

(* The task ends and its listener counts the request. *)
Done(r) ==
    /\ finished' = [finished EXCEPT ![task[r].listener] = @ + 1]
    /\ task' = [task EXCEPT ![r] = Idle]

TreeInit ==
    /\ nodes = <<NewNode("leaf", Nil)>>
    /\ root = 1
    /\ height = 1
    /\ task = [r \in Requests |-> Idle]
    /\ call = [r \in Requests |-> NoCall]
    /\ answer = [r \in Requests |-> Pending]
    /\ finished = [c \in Listeners |-> 0]

\* Mutant: the task is spawned again without the annotation of the sibling.
MoveRightForgotten(r) ==
    /\ Run(r) /\ ~Related(r)
    /\ UNCHANGED tvars
MoveRight(r) ==
    /\ Run(r) /\ ~Related(r)
    /\ task' = [task EXCEPT ![r].node = MyNode(r).right]
    /\ UNCHANGED <<tree, call, answer, finished>>

Descend(r) ==
    /\ Run(r) /\ Related(r)
    /\ task[r].kind # "separator" /\ MyNode(r).type # "leaf"
    /\ task' = [task EXCEPT
            ![r].node = Child(MyNode(r), task[r].key),
            ![r].readonly = task[r].kind = "lookup" \/ MyNode(r).type # "branch"]
    /\ UNCHANGED <<tree, call, answer, finished>>

AtLeaf(r, kind) ==
    Run(r) /\ Related(r) /\ MyNode(r).type = "leaf" /\ task[r].kind = kind

BecomeWriter(r) ==
    /\ AtLeaf(r, "insert") \/ AtLeaf(r, "update")
    /\ task[r].readonly
    /\ task' = [task EXCEPT ![r].readonly = FALSE]
    /\ UNCHANGED <<tree, call, answer, finished>>

(* leaf_key(index) == key.  At index = size() the slot read was never        *)
(* written, or holds what an earlier split left there.                       *)
Hits(n, key) ==
    IF Index(n, key) < Size(n) THEN {n.keys[Index(n, key) + 1] = key} ELSE BOOLEAN

Lookup(r) ==
    /\ AtLeaf(r, "lookup")
    /\ LET n == MyNode(r)
           index == Index(n, task[r].key)
       IN  \E hit \in Hits(n, task[r].key), v \in Values :
              /\ hit /\ index < Size(n) => v = n.items[index + 1]
              /\ answer' = [answer EXCEPT ![r] = v]
    /\ Done(r)
    /\ UNCHANGED <<tree, call>>

Update(r) ==
    /\ AtLeaf(r, "update") /\ ~task[r].readonly
    /\ LET n == MyNode(r)
           index == Index(n, task[r].key)
       IN  \E hit \in Hits(n, task[r].key) :
              /\ nodes' = IF hit /\ index < Size(n)
                          THEN [nodes EXCEPT ![task[r].node].items[index + 1] = call[r].value]
                          ELSE nodes
              /\ answer' = [answer EXCEPT ![r] = IF hit THEN "updated" ELSE "missing"]
    /\ Done(r)
    /\ UNCHANGED <<root, height, call>>

(* InsertValueTask on its leaf: the key is there, there is room, or split. *)
Insert(r) ==
    /\ AtLeaf(r, "insert") /\ ~task[r].readonly
    /\ LET n == MyNode(r)
           key == task[r].key
           index == Index(n, key)
           present == index < Size(n) /\ n.keys[index + 1] = key
           new == Len(nodes) + 1
       IN  \/ /\ present
              /\ Done(r)
              /\ UNCHANGED nodes
           \/ /\ ~present /\ ~Full(n)
              /\ nodes' = [nodes EXCEPT ![task[r].node] = InsertItem(@, index, call[r].value, key)]
              /\ Done(r)
           \/ /\ ~present /\ Full(n)
              /\ LET split == SplitLeafNode(n, new, key, call[r].value)
                 IN  /\ nodes' = Append([nodes EXCEPT ![task[r].node] = split.left], split.right)
                     /\ task' = [task EXCEPT ![r].pc = "ascend", ![r].separator = new, ![r].up = split.up]
              /\ UNCHANGED finished
    /\ answer' = [answer EXCEPT ![r] = "inserted"]
    /\ UNCHANGED <<root, height, call>>

(* InsertSeparatorTask on its inner node, where the separator belongs. *)
InsertSeparator(r) ==
    /\ Run(r) /\ Related(r) /\ task[r].kind = "separator"
    /\ LET n == MyNode(r)
           key == task[r].key
           new == Len(nodes) + 1
           split == SplitInnerNode(n, new, key, task[r].separator)
           kept == task[r].separator \in Range(split.left.items)
       IN  \/ /\ ~Full(n)
              /\ nodes' = [nodes EXCEPT ![task[r].node] =
                              InsertItem(@, Index(n, key), task[r].separator, key)]
              /\ task' = [task EXCEPT ![r].pc = "adopt"]
           \/ /\ Full(n)
              /\ nodes' = Append([i \in DOMAIN nodes |->
                              CASE i = task[r].node -> split.left
                                [] kept /\ i = task[r].separator ->
                                      [nodes[i] EXCEPT !.parent = task[r].node]
                                [] OTHER -> nodes[i]], split.right)
              /\ task' = [task EXCEPT
                      ![r].pc = "parents", ![r].index = 0, ![r].separator = new, ![r].up = split.up]
    /\ UNCHANGED <<root, height, call, answer, finished>>

(* The separator's parent is set after the separator was inserted. *)
Adopt(r) ==
    /\ task[r].pc = "adopt"
    /\ nodes' = [nodes EXCEPT ![task[r].separator].parent = task[r].node]
    /\ Done(r)
    /\ UNCHANGED <<root, height, call, answer>>

\* Mutant: the loop over the separators ends with the number of keys.
SetParentShort(r) ==
    LET new == task[r].separator
    IN  /\ task[r].pc = "parents" /\ task[r].index <= Size(nodes[new])
        /\ nodes' = IF task[r].index = Size(nodes[new]) THEN nodes
                    ELSE [nodes EXCEPT ![nodes[new].items[task[r].index + 1]].parent = new]
        /\ task' = [task EXCEPT ![r].index = task[r].index + 1]
        /\ UNCHANGED <<root, height, call, answer, finished>>
(* One round of the loop at the end of the inner split, over the new node as *)
(* it is now: other tasks reach it as soon as one child names it.            *)
SetParent(r) ==
    LET new == task[r].separator
    IN  /\ task[r].pc = "parents" /\ task[r].index <= Size(nodes[new])
        /\ nodes' = [nodes EXCEPT ![nodes[new].items[task[r].index + 1]].parent = new]
        /\ task' = [task EXCEPT ![r].index = task[r].index + 1]
        /\ UNCHANGED <<root, height, call, answer, finished>>

\* Mutant: the listener is told before the separator is in its parent.
AscendCounted(r) ==
    /\ \/ task[r].pc = "ascend"
       \/ task[r].pc = "parents" /\ task[r].index > Size(nodes[task[r].separator])
    /\ \/ /\ MyNode(r).parent # Nil
          /\ finished' = [finished EXCEPT ![task[r].listener] = @ + 1]
          /\ task' = [task EXCEPT
                  ![r].pc = "queued", ![r].kind = "separator", ![r].key = task[r].up,
                  ![r].node = MyNode(r).parent, ![r].readonly = FALSE]
       \/ /\ MyNode(r).parent = Nil
          /\ task' = [task EXCEPT ![r].pc = "root"]
          /\ UNCHANGED finished
    /\ UNCHANGED <<tree, call, answer>>
(* After a split: the separator goes to the parent, if there is one. *)
Ascend(r) ==
    /\ \/ task[r].pc = "ascend"
       \/ task[r].pc = "parents" /\ task[r].index > Size(nodes[task[r].separator])
    /\ \/ /\ MyNode(r).parent # Nil
          /\ task' = [task EXCEPT
                  ![r].pc = "queued", ![r].kind = "separator", ![r].key = task[r].up,
                  ![r].node = MyNode(r).parent, ![r].readonly = FALSE]
       \/ /\ MyNode(r).parent = Nil
          /\ task' = [task EXCEPT ![r].pc = "root"]
    /\ UNCHANGED <<tree, call, answer, finished>>

(* create_new_root: left's parent, right's parent, the root's content, the   *)
(* height, and last the pointer everybody starts from.                       *)
LinkLeft(r) ==
    /\ task[r].pc = "root"
    /\ LET new == Len(nodes) + 1
           type == IF MyNode(r).type = "leaf" THEN "branch" ELSE "inner"
       IN  /\ nodes' = Append([nodes EXCEPT ![task[r].node].parent = new], NewNode(type, Nil))
           /\ task' = [task EXCEPT ![r].pc = "right", ![r].top = new]
    /\ UNCHANGED <<root, height, call, answer, finished>>

LinkRight(r) ==
    /\ task[r].pc = "right"
    /\ nodes' = [nodes EXCEPT ![task[r].separator].parent = task[r].top]
    /\ task' = [task EXCEPT ![r].pc = "fill"]
    /\ UNCHANGED <<root, height, call, answer, finished>>

FillRoot(r) ==
    /\ task[r].pc = "fill"
    /\ nodes' = [nodes EXCEPT ![task[r].top] =
                    InsertItem([@ EXCEPT !.items[1] = task[r].node], 0, task[r].separator, task[r].up)]
    /\ task' = [task EXCEPT ![r].pc = "grow"]
    /\ UNCHANGED <<root, height, call, answer, finished>>

Grow(r) ==
    /\ task[r].pc = "grow"
    /\ height' = (height + 1) % 2^8
    /\ task' = [task EXCEPT ![r].pc = "publish"]
    /\ UNCHANGED <<nodes, root, call, answer, finished>>

Publish(r) ==
    /\ task[r].pc = "publish"
    /\ root' = task[r].top
    /\ Done(r)
    /\ UNCHANGED <<nodes, height, call, answer>>

Execute(r) ==
    \/ MoveRight(r) \/ Descend(r) \/ BecomeWriter(r)
    \/ Lookup(r) \/ Update(r) \/ Insert(r)
    \/ InsertSeparator(r) \/ Adopt(r) \/ SetParent(r) \/ Ascend(r)
    \/ LinkLeft(r) \/ LinkRight(r) \/ FillRoot(r) \/ Grow(r) \/ Publish(r)
=============================================================================
