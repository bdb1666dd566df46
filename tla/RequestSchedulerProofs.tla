----------------------- MODULE RequestSchedulerProofs -----------------------
(* The benchmark around the tree deletes nothing that is still in use and    *)
(* ends no phase early, for every workload, core configuration, batch size   *)
(* and number of parallel requests, whatever the tree looks like.            *)
EXTENDS RequestScheduler, Integers, FiniteSetTheorems, TLAPS

-----------------------------------------------------------------------------
(* The invariant. *)

(* The requests of a part of the workload. *)
Interval(b) == b.index + 1 .. b.index + b.count
Waiting(c) == Interval(container[c].buffer)
Taken(c) == Interval(todo[c])
Spawned == {r \in Requests : call[r] # NoCall}
Mine(c) == {r \in Requests : task[r].pc # "idle" /\ task[r].listener = c}
Alive == {c \in Listeners : container[c].alive}

Part == [index : Nat, count : Nat]
Fields == {"pc", "kind", "key", "node", "readonly", "listener", "separator", "up", "index", "top"}

TypeInv ==
    /\ workload \in Workloads /\ phase \in {"none", "fill", "mixed", "end"}
    /\ config \in 1 .. Len(CoreSets) /\ running \in BOOLEAN /\ open \in Nat /\ current \in Nat
    /\ container \in [Listeners -> [alive : BOOLEAN, scheduled : Nat, buffer : Part]]
    /\ todo \in [Listeners -> Part]
    /\ finished \in [Listeners -> Nat]
    /\ task = [r \in Requests |-> task[r]]
    /\ \A r \in Requests : task[r] = [f \in Fields |-> task[r][f]]
    /\ call = [r \in Requests |-> call[r]] /\ answer = [r \in Requests |-> answer[r]]

(* A task belongs to a request that was asked for.  Its request has an       *)
(* answer when it ends, and from the moment of its effect on.                *)
Effective(t) == t.pc \notin {"idle", "queued"} \/ (t.pc = "queued" /\ t.kind = "separator")
ServedInv ==
    \A r \in Requests :
        /\ task[r].pc # "idle" => r \in Spawned /\ task[r].listener \in Listeners
        /\ task[r].pc = "idle" /\ r \in Spawned => answer[r] # Pending
        /\ Effective(task[r]) => answer[r] # Pending

(* A container counts the requests in flight, and is kept for them. *)
CountInv ==
    /\ \A c \in Listeners :
          /\ container[c].alive =>
                /\ container[c].scheduled = finished[c] + (Cardinality(Mine(c)) + todo[c].count)
                /\ Cardinality(Mine(c)) + todo[c].count <= MaxPending
          /\ ~container[c].alive => Mine(c) = {} /\ todo[c].count = 0 /\ container[c].buffer.count = 0
    /\ open = Cardinality(Alive)

(* Each request of the phase is in one place only: not yet fetched, in the   *)
(* buffer of a container, taken by a scheduler task, or spawned.             *)
PlaceInv ==
    /\ \A c, d \in Listeners :
          /\ c # d => Waiting(c) \cap Waiting(d) = {} /\ Taken(c) \cap Taken(d) = {}
          /\ Waiting(c) \cap Taken(d) = {}
    /\ \A c \in Listeners : (Waiting(c) \cup Taken(c)) \cap Spawned = {}
PhaseInv ==
    /\ running => /\ phase \in {"fill", "mixed"} /\ current <= Len(Tuples)
                  /\ \A r \in 1 .. current : r \in Spawned \/ \E c \in Listeners : r \in Waiting(c) \/ r \in Taken(c)
                  /\ \A c \in Listeners : Waiting(c) \subseteq 1 .. current /\ Taken(c) \subseteq 1 .. current
                  /\ \A r \in Spawned : r \in 1 .. current /\ call[r] = Tuples[r]
    /\ ~running => Spawned = {} /\ Alive = {}

(* The invariant of the benchmark. *)
SchedulerInv == TypeInv /\ ServedInv /\ CountInv /\ PlaceInv /\ PhaseInv

-----------------------------------------------------------------------------
(* What one execution of a task of the tree means to the benchmark. *)

(* The task of a request goes on, or ends with its request answered. *)
GoesOn(r) == task'[r].pc # "idle" /\ task'[r].listener = task[r].listener /\ finished' = finished
Ends(r) ==
    /\ task'[r].pc = "idle" /\ answer'[r] # Pending
    /\ finished' = [finished EXCEPT ![task[r].listener] = @ + 1]
Serves(r) ==
    /\ task[r].pc # "idle" /\ call' = call
    /\ \A q \in Requests \ {r} : task'[q] = task[q] /\ answer'[q] = answer[q]
    /\ task' = [q \in Requests |-> task'[q]] /\ answer' = [q \in Requests |-> answer'[q]]
    /\ \A q \in Requests : task'[q] = [f \in Fields |-> task'[q][f]]
    /\ GoesOn(r) \/ Ends(r)
    /\ Effective(task'[r]) => answer'[r] # Pending

(* A task that stays in the middle of its work, or is queued again. *)
LEMMA Resumes ==
    ASSUME TypeInv, ServedInv, NEW r \in Requests,
           \/ MoveRight(r) \/ Descend(r) \/ BecomeWriter(r) \/ InsertSeparator(r) \/ SetParent(r)
           \/ Ascend(r) \/ LinkLeft(r) \/ LinkRight(r) \/ FillRoot(r) \/ Grow(r)
    PROVE  Serves(r)
<1>. USE DEF Serves, GoesOn, Effective, Fields
<1>0. /\ task = [q \in Requests |-> task[q]] /\ answer = [q \in Requests |-> answer[q]]
      /\ \A q \in Requests : task[q] = [f \in Fields |-> task[q][f]]
      /\ Effective(task[r]) => answer[r] # Pending
  BY DEF TypeInv, ServedInv
<1>1. CASE MoveRight(r)
  BY <1>0, <1>1 DEF MoveRight, Run
<1>2. CASE Descend(r)
  BY <1>0, <1>2 DEF Descend, Run
<1>3. CASE BecomeWriter(r)
  BY <1>0, <1>3 DEF BecomeWriter, AtLeaf, Run
<1>4. CASE InsertSeparator(r)
  <2>1. /\ task[r].pc = "queued" /\ task[r].kind = "separator"
        /\ call' = call /\ answer' = answer /\ finished' = finished
        /\ \/ task' = [task EXCEPT ![r].pc = "adopt"]
           \/ \E new, up : task' = [task EXCEPT ![r].pc = "parents", ![r].index = 0,
                                               ![r].separator = new, ![r].up = up]
    BY ONLY <1>4, Zenon DEF InsertSeparator, Run
  <2>2. CASE task' = [task EXCEPT ![r].pc = "adopt"]
    BY <1>0, <2>1, <2>2
  <2>3. CASE \E new, up : task' = [task EXCEPT ![r].pc = "parents", ![r].index = 0,
                                              ![r].separator = new, ![r].up = up]
    <3>1. PICK new, up : task' = [task EXCEPT ![r].pc = "parents", ![r].index = 0,
                                             ![r].separator = new, ![r].up = up]
      BY <2>3
    <3>2. /\ task' = [q \in Requests |-> task'[q]]
          /\ \A q \in Requests \ {r} : task'[q] = task[q]
      BY <1>0, <3>1
    <3>3. task'[r] = [task[r] EXCEPT !.pc = "parents", !.index = 0, !.separator = new, !.up = up]
      BY <1>0, <3>1
    <3>4. /\ task'[r] = [f \in Fields |-> task'[r][f]]
          /\ task'[r].pc = "parents" /\ task'[r].listener = task[r].listener
      BY <1>0, <3>3
    <3>5. \A q \in Requests : task'[q] = [f \in Fields |-> task'[q][f]]
      BY <1>0, <3>2, <3>4
    <3>. QED  BY <1>0, <2>1, <3>2, <3>4, <3>5, Zenon DEF Pending
  <2>. QED  BY <2>1, <2>2, <2>3
<1>5. CASE SetParent(r)
  BY <1>0, <1>5 DEF SetParent
<1>6. CASE Ascend(r)
  BY <1>0, <1>6 DEF Ascend
<1>7. CASE LinkLeft(r)
  BY <1>0, <1>7 DEF LinkLeft
<1>8. CASE LinkRight(r)
  BY <1>0, <1>8 DEF LinkRight
<1>9. CASE FillRoot(r)
  BY <1>0, <1>9 DEF FillRoot
<1>10. CASE Grow(r)
  BY <1>0, <1>10 DEF Grow
<1>. QED  BY <1>1, <1>2, <1>3, <1>4, <1>5, <1>6, <1>7, <1>8, <1>9, <1>10

(* A task that may end. *)
LEMMA Completes ==
    ASSUME TypeInv, ServedInv, NEW r \in Requests,
           Lookup(r) \/ Update(r) \/ Insert(r) \/ Adopt(r) \/ Publish(r)
    PROVE  Serves(r)
<1>. USE DEF Serves, Ends, Effective, Fields
<1>0. /\ task = [q \in Requests |-> task[q]] /\ answer = [q \in Requests |-> answer[q]]
      /\ \A q \in Requests : task[q] = [f \in Fields |-> task[q][f]]
      /\ Effective(task[r]) => answer[r] # Pending
      /\ Pending \notin Values
  BY SchedulerAssumption DEF TypeInv, ServedInv
<1>1. CASE Lookup(r)
  BY <1>0, <1>1 DEF Lookup, AtLeaf, Run, Done, Idle
<1>2. CASE Update(r)
  BY <1>0, <1>2 DEF Update, AtLeaf, Run, Done, Idle, Pending
<1>3. CASE Insert(r)
  <2>1. task[r].pc = "queued" /\ call' = call /\ answer' = [answer EXCEPT ![r] = "inserted"]
    BY ONLY <1>3, Zenon DEF Insert, AtLeaf, Run
  <2>5. \/ Done(r)
        \/ /\ finished' = finished
           /\ \E new, up : task' = [task EXCEPT ![r].pc = "ascend", ![r].separator = new, ![r].up = up]
    BY ONLY <1>3, Zenon DEF Insert
  <2>4. /\ answer' = [q \in Requests |-> answer'[q]] /\ answer'[r] # Pending
        /\ \A q \in Requests \ {r} : answer'[q] = answer[q]
    BY <1>0, <2>1 DEF Pending
  <2>2. CASE Done(r)
    <3>1. task' = [task EXCEPT ![r] = Idle] /\ Idle.pc = "idle" /\ Idle = [f \in Fields |-> Idle[f]]
      BY <2>2 DEF Done, Idle
    <3>2. /\ task' = [q \in Requests |-> task'[q]] /\ task'[r].pc = "idle"
          /\ \A q \in Requests : task'[q] = [f \in Fields |-> task'[q][f]]
          /\ \A q \in Requests \ {r} : task'[q] = task[q]
      BY <1>0, <3>1
    <3>. QED  BY <1>0, <2>1, <2>2, <2>4, <3>2 DEF Done
  <2>3. CASE /\ finished' = finished
             /\ \E new, up : task' = [task EXCEPT ![r].pc = "ascend", ![r].separator = new, ![r].up = up]
    <3>1. PICK new, up : task' = [task EXCEPT ![r].pc = "ascend", ![r].separator = new, ![r].up = up]
      BY <2>3
    <3>2. /\ task' = [q \in Requests |-> task'[q]]
          /\ \A q \in Requests \ {r} : task'[q] = task[q]
      BY <1>0, <3>1
    <3>3. task'[r] = [task[r] EXCEPT !.pc = "ascend", !.separator = new, !.up = up]
      BY <1>0, <3>1
    <3>4. /\ task'[r] = [f \in Fields |-> task'[r][f]]
          /\ task'[r].pc = "ascend" /\ task'[r].listener = task[r].listener
      BY <1>0, <3>3
    <3>5. \A q \in Requests : task'[q] = [f \in Fields |-> task'[q][f]]
      BY <1>0, <3>2, <3>4
    <3>. QED  BY <1>0, <2>1, <2>3, <2>4, <3>2, <3>4, <3>5, Zenon DEF GoesOn
  <2>. QED  BY <2>5, <2>2, <2>3
<1>4. CASE Adopt(r)
  BY <1>0, <1>4 DEF Adopt, Done, Idle
<1>5. CASE Publish(r)
  BY <1>0, <1>5 DEF Publish, Done, Idle
<1>. QED  BY <1>1, <1>2, <1>3, <1>4, <1>5

LEMMA ExecutionServes ==
    ASSUME TypeInv, ServedInv, NEW r \in Requests, Execute(r)
    PROVE  Serves(r)
  BY Resumes, Completes DEF Execute

-----------------------------------------------------------------------------
(* Counting. *)

LEMMA DivNat ==
    ASSUME NEW m \in Nat, NEW n \in Nat \ {0}
    PROVE  m \div n \in Nat
  OBVIOUS

(* What the constants and the types say of the numbers. *)
LEMMA Numbers ==
    ASSUME TypeInv
    PROVE  /\ CoreSets[config] \in Nat \ {0} /\ MaxPending \in Nat
           /\ IsFiniteSet(Alive) /\ Cardinality(Alive) \in Nat
           /\ \A c \in Listeners :
                 /\ IsFiniteSet(Mine(c)) /\ Cardinality(Mine(c)) \in Nat
                 /\ todo[c].count \in Nat /\ todo[c].index \in Nat /\ finished[c] \in Nat
                 /\ container[c].alive \in BOOLEAN /\ container[c].scheduled \in Nat
                 /\ container[c].buffer.count \in Nat /\ container[c].buffer.index \in Nat
<1>1. CoreSets[config] \in Nat \ {0}
  BY SchedulerAssumption DEF TypeInv
<1>2. MaxPending \in Nat
  BY <1>1, DivNat, SchedulerAssumption DEF MaxPending
<1>3. IsFiniteSet(Alive) /\ Cardinality(Alive) \in Nat
  BY SchedulerAssumption, FS_Subset, FS_CardinalityType DEF Alive
<1>4. ASSUME NEW c \in Listeners
      PROVE  IsFiniteSet(Mine(c)) /\ Cardinality(Mine(c)) \in Nat
  BY SchedulerAssumption, FS_Subset, FS_CardinalityType DEF Mine
<1>5. ASSUME NEW c \in Listeners
      PROVE  /\ todo[c].count \in Nat /\ todo[c].index \in Nat /\ finished[c] \in Nat
             /\ container[c].alive \in BOOLEAN /\ container[c].scheduled \in Nat
             /\ container[c].buffer.count \in Nat /\ container[c].buffer.index \in Nat
  BY DEF TypeInv, Part
<1>. QED  BY <1>1, <1>2, <1>3, <1>4, <1>5

(* An element of a sequence. *)
LEMMA ElementOf ==
    ASSUME NEW S, NEW s \in Seq(S), NEW i \in 1 .. Len(s)
    PROVE  s[i] \in S
  OBVIOUS

(* The tuples of a running phase are requests. *)
LEMMA TuplesAreRequests ==
    ASSUME TypeInv
    PROVE  /\ Tuples \in Seq([op : {"insert", "update", "lookup"}, key : Keys, value : Values])
           /\ Len(Tuples) \in Nat /\ 1 .. Len(Tuples) \subseteq Requests
           /\ DOMAIN Tuples = 1 .. Len(Tuples)
           /\ \A r \in 1 .. Len(Tuples) : Tuples[r] # NoCall
<1>1. Tuples \in Seq([op : {"insert", "update", "lookup"}, key : Keys, value : Values])
      /\ 1 .. Len(Tuples) \subseteq Requests
  BY SchedulerAssumption DEF TypeInv, Tuples
<1>2. ASSUME NEW r \in 1 .. Len(Tuples)
      PROVE  Tuples[r] # NoCall
  <2>0. Tuples[r] \in [op : {"insert", "update", "lookup"}, key : Keys, value : Values]
    BY <1>1, ElementOf
  <2>1. Tuples[r].op \in {"insert", "update", "lookup"}
    BY <2>0
  <2>2. NoCall.op = "none"
    BY DEF NoCall
  <2>. QED  BY <2>1, <2>2
<1>. QED  BY <1>1, <1>2

LEMMA RemovesOne ==
    ASSUME NEW S, IsFiniteSet(S), NEW x \in S
    PROVE  /\ Cardinality(S) \in Nat /\ Cardinality(S) > 0
           /\ IsFiniteSet(S \ {x}) /\ Cardinality(S \ {x}) = Cardinality(S) - 1
  BY FS_RemoveElement, FS_CardinalityType, FS_EmptySet

-----------------------------------------------------------------------------
(* The steps. *)

LEMMA ExecuteKeepsInv ==
    ASSUME SchedulerInv, NEW r \in Requests, Execute(r), UNCHANGED svars
    PROVE  SchedulerInv'
<1>1. Serves(r) /\ UNCHANGED <<workload, phase, current, config, iteration, running, open, container, todo, call>>
  BY ExecutionServes DEF SchedulerInv, svars, Serves
<1>2. PICK l \in Listeners : r \in Spawned /\ l = task[r].listener /\ task[r].pc # "idle" /\ r \in Mine(l)
  BY <1>1 DEF Serves, SchedulerInv, ServedInv, Mine
<1>3. finished \in [Listeners -> Nat]
  BY DEF SchedulerInv, TypeInv
<1>4. finished' \in [Listeners -> Nat]
  BY <1>1, <1>2, <1>3 DEF Serves, GoesOn, Ends
<1>5. TypeInv'
  <2>1. /\ task' = [q \in Requests |-> task'[q]] /\ answer' = [q \in Requests |-> answer'[q]]
        /\ \A q \in Requests : task'[q] = [f \in Fields |-> task'[q][f]]
    BY <1>1 DEF Serves
  <2>. QED  BY <1>1, <1>4, <2>1 DEF SchedulerInv, TypeInv
<1>6. Spawned' = Spawned /\ Alive' = Alive /\ MaxPending' = MaxPending /\ Tuples' = Tuples
  BY <1>1 DEF Spawned, Alive, MaxPending, Tuples
<1>7. \A c \in Listeners : Waiting(c)' = Waiting(c) /\ Taken(c)' = Taken(c)
  BY <1>1 DEF Waiting, Taken
<1>8. ServedInv'
  <2>. SUFFICES ASSUME NEW q \in Requests
                PROVE  /\ task'[q].pc # "idle" => q \in Spawned' /\ task'[q].listener \in Listeners
                       /\ task'[q].pc = "idle" /\ q \in Spawned' => answer'[q] # Pending
                       /\ Effective(task'[q]) => answer'[q] # Pending
    BY DEF ServedInv
  <2>1. CASE q = r
    BY <1>1, <1>2, <1>6, <2>1 DEF Serves, GoesOn, Ends
  <2>2. CASE q # r
    <3>1. task'[q] = task[q] /\ answer'[q] = answer[q]
      BY <1>1, <2>2 DEF Serves
    <3>. QED  BY <1>6, <3>1 DEF SchedulerInv, ServedInv
  <2>. QED  BY <2>1, <2>2
<1>9. CountInv'
  <2>1. \A c \in Listeners : c # l => Mine(c)' = Mine(c) /\ finished'[c] = finished[c]
    BY <1>1, <1>2, <1>3 DEF Serves, GoesOn, Ends, Mine
  <2>2. /\ Cardinality(Mine(l)') \in Nat /\ finished'[l] \in Nat
        /\ finished'[l] + Cardinality(Mine(l)') = finished[l] + Cardinality(Mine(l))
        /\ Cardinality(Mine(l)') <= Cardinality(Mine(l))
    <3>1. CASE GoesOn(r)
      <4>1. Mine(l)' = Mine(l) /\ finished'[l] = finished[l]
        BY <1>1, <1>2, <3>1 DEF Serves, GoesOn, Mine
      <4>. QED  BY <4>1, <1>2, Numbers DEF SchedulerInv
    <3>2. CASE Ends(r)
      <4>1. Mine(l)' = Mine(l) \ {r} /\ finished'[l] = finished[l] + 1
        BY <1>1, <1>2, <1>3, <3>2 DEF Serves, Ends, Mine
      <4>2. /\ Cardinality(Mine(l) \ {r}) = Cardinality(Mine(l)) - 1
            /\ Cardinality(Mine(l)) > 0
        BY <1>2, RemovesOne, Numbers DEF SchedulerInv
      <4>3. Cardinality(Mine(l)) \in Nat /\ finished[l] \in Nat
        BY <1>2, Numbers DEF SchedulerInv
      <4>. QED  BY <4>1, <4>2, <4>3
    <3>. QED  BY <1>1, <3>1, <3>2 DEF Serves
  <2>3. container[l].alive
    BY <1>2 DEF SchedulerInv, CountInv
  <2>4. ASSUME NEW c \in Listeners
        PROVE  /\ container'[c].alive =>
                    /\ container'[c].scheduled = finished'[c] + (Cardinality(Mine(c)') + todo'[c].count)
                    /\ Cardinality(Mine(c)') + todo'[c].count <= MaxPending'
               /\ ~container'[c].alive => Mine(c)' = {} /\ todo'[c].count = 0 /\ container'[c].buffer.count = 0
    <3>1. CASE c = l
      <4>1. /\ container[l].scheduled = finished[l] + (Cardinality(Mine(l)) + todo[l].count)
            /\ Cardinality(Mine(l)) + todo[l].count <= MaxPending
        BY <1>2, <2>3 DEF SchedulerInv, CountInv
      <4>2. /\ Cardinality(Mine(l)) \in Nat /\ finished[l] \in Nat /\ todo[l].count \in Nat
            /\ MaxPending \in Nat /\ container[l].scheduled \in Nat
        BY <1>2, Numbers DEF SchedulerInv
      <4>3. /\ container[l].scheduled = finished'[l] + (Cardinality(Mine(l)') + todo[l].count)
            /\ Cardinality(Mine(l)') + todo[l].count <= MaxPending
        BY ONLY <4>1, <4>2, <2>2
      <4>. QED  BY <4>3, <3>1, <2>3, <1>1, <1>6
    <3>2. CASE c # l
      BY <3>2, <2>1, <1>1, <1>6 DEF SchedulerInv, CountInv
    <3>. QED  BY <3>1, <3>2
  <2>. QED  BY <2>4, <1>1, <1>6 DEF SchedulerInv, CountInv
<1>10. PlaceInv'
  BY <1>6, <1>7 DEF SchedulerInv, PlaceInv
<1>11. PhaseInv'
  BY <1>1, <1>6, <1>7 DEF SchedulerInv, PhaseInv
<1>. QED  BY <1>5, <1>8, <1>9, <1>10, <1>11 DEF SchedulerInv

LEMMA SpawnKeepsInv ==
    ASSUME SchedulerInv, NEW c \in Listeners, Spawn(c)
    PROVE  SchedulerInv'
<1>. DEFINE t == todo[c].index + 1
<1>1. PICK r : r = t
  OBVIOUS
<1>2. /\ running /\ todo[c].count > 0 /\ todo[c].count \in Nat /\ todo[c].index \in Nat /\ r = todo[c].index + 1
      /\ call' = [call EXCEPT ![r] = Tuples[r]]
      /\ todo' = [todo EXCEPT ![c] = [index |-> todo[c].index + 1, count |-> todo[c].count - 1]]
      /\ UNCHANGED <<answer, finished, workload, phase, current, config, iteration, running, open, container>>
  BY <1>1, Numbers DEF Spawn, SchedulerInv
<1>3. /\ r \in Taken(c) /\ r \in 1 .. current /\ r \in 1 .. Len(Tuples)
      /\ r \in Requests /\ Tuples[r] # NoCall /\ r \notin Spawned
  <2>1. r \in Taken(c)
    BY <1>2 DEF Taken, Interval
  <2>2. r \in 1 .. current /\ current <= Len(Tuples) /\ current \in Nat /\ r \notin Spawned
    BY <1>2, <2>1 DEF SchedulerInv, PhaseInv, PlaceInv, TypeInv
  <2>3. r \in 1 .. Len(Tuples)
    BY <2>2, TuplesAreRequests DEF SchedulerInv
  <2>. QED  BY <2>1, <2>2, <2>3, TuplesAreRequests DEF SchedulerInv
<1>4. /\ task' = [q \in Requests |-> task'[q]]
      /\ \A q \in Requests : task'[q] = [f \in Fields |-> task'[q][f]]
      /\ \A q \in Requests \ {r} : task'[q] = task[q]
      /\ task'[r].pc = "queued" /\ task'[r].kind # "separator" /\ task'[r].listener = c
  <2>1. /\ task = [q \in Requests |-> task[q]]
        /\ \A q \in Requests : task[q] = [f \in Fields |-> task[q][f]]
    BY DEF SchedulerInv, TypeInv
  <2>2. Tuples[r].op # "separator"
    <3>1. Tuples[r] \in [op : {"insert", "update", "lookup"}, key : Keys, value : Values]
      BY <1>3, TuplesAreRequests, ElementOf DEF SchedulerInv
    <3>. QED  BY <3>1
  <2>3. task' = [task EXCEPT ![r] = [Idle EXCEPT
                  !.pc = "queued", !.kind = Tuples[r].op, !.key = Tuples[r].key, !.node = root,
                  !.readonly = Tuples[r].op = "lookup" \/ height > 1, !.listener = c]]
    BY <1>1 DEF Spawn
  <2>4. PICK rec : /\ task' = [task EXCEPT ![r] = rec]
                   /\ rec = [Idle EXCEPT
                        !.pc = "queued", !.kind = Tuples[r].op, !.key = Tuples[r].key, !.node = root,
                        !.readonly = Tuples[r].op = "lookup" \/ height > 1, !.listener = c]
    BY <2>3
  <2>5. /\ rec = [f \in Fields |-> rec[f]]
        /\ rec.pc = "queued" /\ rec.kind = Tuples[r].op /\ rec.listener = c
    BY <2>4 DEF Idle, Fields
  <2>. QED  BY <2>1, <2>2, <2>4, <2>5, <1>3
<1>5. TypeInv'
  <2>1. todo' \in [Listeners -> Part]
    BY <1>2 DEF SchedulerInv, TypeInv, Part
  <2>2. call' = [q \in Requests |-> call'[q]]
    BY <1>2 DEF SchedulerInv, TypeInv
  <2>. QED  BY <1>2, <1>4, <2>1, <2>2 DEF SchedulerInv, TypeInv
<1>6. Spawned' = Spawned \cup {r}
  BY <1>2, <1>3 DEF Spawned, SchedulerInv, TypeInv
<1>7. Alive' = Alive /\ MaxPending' = MaxPending /\ Tuples' = Tuples
  BY <1>2 DEF Alive, MaxPending, Tuples
<1>8. ServedInv'
  <2>. SUFFICES ASSUME NEW q \in Requests
                PROVE  /\ task'[q].pc # "idle" => q \in Spawned' /\ task'[q].listener \in Listeners
                       /\ task'[q].pc = "idle" /\ q \in Spawned' => answer'[q] # Pending
                       /\ Effective(task'[q]) => answer'[q] # Pending
    BY DEF ServedInv
  <2>1. CASE q = r
    BY <1>4, <1>6, <2>1 DEF Effective
  <2>2. CASE q # r
    <3>1. task'[q] = task[q] /\ answer'[q] = answer[q] /\ (q \in Spawned' <=> q \in Spawned)
      BY <1>2, <1>4, <1>6, <2>2
    <3>. QED  BY <3>1 DEF SchedulerInv, ServedInv
  <2>. QED  BY <2>1, <2>2
<1>9. task[r].pc = "idle"
  BY <1>3 DEF SchedulerInv, ServedInv
<1>10. CountInv'
  <2>1. \A d \in Listeners : d # c => Mine(d)' = Mine(d) /\ todo'[d] = todo[d]
    <3>1. \A d \in Listeners : d # c => todo'[d] = todo[d]
      BY <1>2 DEF SchedulerInv, TypeInv
    <3>2. ASSUME NEW d \in Listeners, d # c
          PROVE  Mine(d)' = Mine(d)
      BY <3>2, <1>3, <1>4, <1>9 DEF Mine
    <3>. QED  BY <3>1, <3>2
  <2>2. Mine(c)' = Mine(c) \cup {r} /\ r \notin Mine(c)
    BY <1>3, <1>4, <1>9 DEF Mine
  <2>3. Cardinality(Mine(c)') = Cardinality(Mine(c)) + 1
    BY <2>2, FS_AddElement, Numbers DEF SchedulerInv
  <2>4. todo'[c].count = todo[c].count - 1
    BY <1>2 DEF SchedulerInv, TypeInv
  <2>5. container[c].alive
    BY <1>2 DEF SchedulerInv, CountInv
  <2>6. ASSUME NEW d \in Listeners
        PROVE  /\ container'[d].alive =>
                    /\ container'[d].scheduled = finished'[d] + (Cardinality(Mine(d)') + todo'[d].count)
                    /\ Cardinality(Mine(d)') + todo'[d].count <= MaxPending'
               /\ ~container'[d].alive => Mine(d)' = {} /\ todo'[d].count = 0 /\ container'[d].buffer.count = 0
    <3>1. CASE d = c
      <4>1. Cardinality(Mine(c)') + todo'[c].count = Cardinality(Mine(c)) + todo[c].count
        BY <2>3, <2>4, <1>2, Numbers DEF SchedulerInv
      <4>. QED  BY <4>1, <3>1, <2>5, <1>2, <1>7 DEF SchedulerInv, CountInv
    <3>2. CASE d # c
      BY <3>2, <2>1, <1>2, <1>7 DEF SchedulerInv, CountInv
    <3>. QED  BY <3>1, <3>2
  <2>. QED  BY <2>6, <1>2, <1>7 DEF SchedulerInv, CountInv
<1>11. /\ \A d \in Listeners : Waiting(d)' = Waiting(d)
       /\ \A d \in Listeners : d # c => Taken(d)' = Taken(d)
       /\ Taken(c)' = Taken(c) \ {r}
  <2>1. Taken(c)' = Taken(c) \ {r}
    <3>1. todo'[c].index = todo[c].index + 1 /\ todo'[c].count = todo[c].count - 1
      BY <1>2 DEF SchedulerInv, TypeInv
    <3>2. Taken(c)' = todo[c].index + 1 + 1 .. todo[c].index + 1 + (todo[c].count - 1)
      BY <3>1 DEF Taken, Interval
    <3>. QED  BY <3>2, <1>2 DEF Taken, Interval
  <2>. QED  BY <2>1, <1>2 DEF Waiting, Taken, SchedulerInv, TypeInv
<1>12. PlaceInv'
  BY <1>3, <1>6, <1>11 DEF SchedulerInv, PlaceInv
<1>13. PhaseInv'
  <2>1. \A q \in 1 .. current : q \in Spawned' \/ \E d \in Listeners : q \in Waiting(d)' \/ q \in Taken(d)'
    BY <1>2, <1>6, <1>11 DEF SchedulerInv, PhaseInv
  <2>2. \A d \in Listeners : Waiting(d)' \subseteq 1 .. current /\ Taken(d)' \subseteq 1 .. current
    BY <1>2, <1>11 DEF SchedulerInv, PhaseInv
  <2>3. \A q \in Spawned' : q \in 1 .. current /\ call'[q] = Tuples[q]
    BY <1>2, <1>3, <1>6 DEF SchedulerInv, PhaseInv, Spawned, TypeInv
  <2>. QED  BY <1>2, <1>7, <2>1, <2>2, <2>3 DEF SchedulerInv, PhaseInv
<1>. QED  BY <1>5, <1>8, <1>10, <1>12, <1>13 DEF SchedulerInv

LEMMA TakeKeepsInv ==
    ASSUME SchedulerInv, NEW c \in Listeners, Take(c)
    PROVE  SchedulerInv'
<1>1. PICK b, k :
         /\ b = Refilled(c) /\ b.count > 0
         /\ k = IF MaxPending - (container[c].scheduled - finished[c]) < b.count
                THEN MaxPending - (container[c].scheduled - finished[c]) ELSE b.count
         /\ todo' = [todo EXCEPT ![c] = [index |-> b.index, count |-> k]]
         /\ container' = [container EXCEPT ![c] =
                [alive |-> TRUE, scheduled |-> container[c].scheduled + k,
                 buffer |-> [index |-> b.index + k, count |-> b.count - k]]]
  BY DEF Take
<1>2. /\ running /\ container[c].alive /\ todo[c].count = 0
      /\ container[c].scheduled - finished[c] < MaxPending
      /\ current' = IF container[c].buffer.count > 0 THEN current ELSE Advance(current, Len(Tuples))
      /\ UNCHANGED <<task, call, answer, finished, workload, phase, config, iteration, running, open>>
  BY DEF Take, CanTake, tvars
<1>3. /\ container[c].scheduled \in Nat /\ finished[c] \in Nat /\ MaxPending \in Nat
      /\ Cardinality(Mine(c)) \in Nat
      /\ container[c].buffer.count \in Nat /\ container[c].buffer.index \in Nat
      /\ current \in Nat /\ Len(Tuples) \in Nat /\ current <= Len(Tuples) /\ BatchSize \in Nat \ {0}
  BY <1>2, Numbers, TuplesAreRequests, SchedulerAssumption DEF SchedulerInv, PhaseInv, TypeInv
<1>4. container[c].scheduled = finished[c] + Cardinality(Mine(c))
  <2>1. container[c].scheduled = finished[c] + (Cardinality(Mine(c)) + todo[c].count) /\ todo[c].count = 0
    BY <1>2 DEF SchedulerInv, CountInv
  <2>. QED  BY ONLY <1>3, <2>1
(* The new requests, if the buffer was empty. *)
<1>5. /\ b.index \in Nat /\ b.count \in Nat /\ current' \in Nat /\ current <= current' /\ current' <= Len(Tuples)
      /\ \/ b = container[c].buffer /\ current' = current
         \/ Interval(b) = current + 1 .. current' /\ Waiting(c) = {}
  <2>1. CASE container[c].buffer.count > 0
    BY <1>1, <1>2, <1>3, <2>1 DEF Refilled
  <2>2. CASE ~(container[c].buffer.count > 0)
    <3>1. b = Batch(current, Len(Tuples)) /\ current' = Advance(current, Len(Tuples))
      BY <1>1, <1>2, <2>2 DEF Refilled
    <3>2. /\ current < Len(Tuples) /\ b.index = current
          /\ b.count = IF BatchSize < Len(Tuples) - current THEN BatchSize ELSE Len(Tuples) - current
      BY <1>1, <1>3, <3>1 DEF Batch, None
    <3>3. /\ b.count \in Nat /\ current' = current + b.count /\ current' <= Len(Tuples)
      BY <1>3, <3>1, <3>2 DEF Advance
    <3>4. Interval(b) = current + 1 .. current'
      BY <3>2, <3>3 DEF Interval
    <3>5. Waiting(c) = {}
      BY <1>3, <2>2 DEF Waiting, Interval
    <3>. QED  BY <1>3, <3>2, <3>3, <3>4, <3>5
  <2>. QED  BY <2>1, <2>2
<1>6. k \in Nat /\ k <= b.count /\ k <= MaxPending - Cardinality(Mine(c)) /\ b.count - k \in Nat
  <2>1. k = IF MaxPending - (container[c].scheduled - finished[c]) < b.count
            THEN MaxPending - (container[c].scheduled - finished[c]) ELSE b.count
    BY <1>1
  <2>2. MaxPending - (container[c].scheduled - finished[c]) = MaxPending - Cardinality(Mine(c))
    BY <1>3, <1>4
  <2>3. MaxPending - Cardinality(Mine(c)) \in Nat
    BY <1>2, <1>3, <1>4
  <2>. QED  BY ONLY <2>1, <2>2, <2>3, <1>5
(* What c has now. *)
<1>7. PICK t, x, y :
         /\ t = [index |-> b.index, count |-> k]
         /\ y = [index |-> b.index + k, count |-> b.count - k]
         /\ x = [alive |-> TRUE, scheduled |-> container[c].scheduled + k, buffer |-> y]
         /\ todo' = [todo EXCEPT ![c] = t] /\ container' = [container EXCEPT ![c] = x]
  BY <1>1
<1>8. /\ t.index = b.index /\ t.count = k /\ y.index = b.index + k /\ y.count = b.count - k
      /\ x.alive /\ x.scheduled = container[c].scheduled + k /\ x.buffer = y
  BY ONLY <1>7
<1>9. /\ todo'[c] = t /\ container'[c] = x
      /\ \A d \in Listeners : d # c => todo'[d] = todo[d] /\ container'[d] = container[d]
  <2>1. container \in [Listeners -> [alive : BOOLEAN, scheduled : Nat, buffer : Part]] /\ todo \in [Listeners -> Part]
    BY DEF SchedulerInv, TypeInv
  <2>2. todo' = [todo EXCEPT ![c] = t] /\ container' = [container EXCEPT ![c] = x]
    BY <1>7
  <2>. QED  BY ONLY <2>1, <2>2, c \in Listeners
<1>10. /\ todo'[c].index = b.index /\ todo'[c].count = k
      /\ container'[c].alive /\ container'[c].scheduled = container[c].scheduled + k
      /\ container'[c].buffer.index = b.index + k /\ container'[c].buffer.count = b.count - k
      /\ \A d \in Listeners : d # c => todo'[d] = todo[d] /\ container'[d] = container[d]
  BY ONLY <1>8, <1>9
<1>11. TypeInv'
  <2>1. todo' \in [Listeners -> Part]
    <3>1. t \in Part
      BY ONLY <1>7, <1>5, <1>6 DEF Part
    <3>2. todo \in [Listeners -> Part] /\ todo' = [todo EXCEPT ![c] = t]
      BY <1>7 DEF SchedulerInv, TypeInv
    <3>. QED  BY ONLY <3>1, <3>2
  <2>2. container' \in [Listeners -> [alive : BOOLEAN, scheduled : Nat, buffer : Part]]
    <3>1. container \in [Listeners -> [alive : BOOLEAN, scheduled : Nat, buffer : Part]]
      BY DEF SchedulerInv, TypeInv
    <3>2. y \in Part
      BY ONLY <1>7, <1>5, <1>6 DEF Part
    <3>3. x \in [alive : BOOLEAN, scheduled : Nat, buffer : Part]
      BY ONLY <1>7, <1>3, <1>6, <3>2
    <3>4. container' = [container EXCEPT ![c] = x]
      BY <1>7
    <3>. QED  BY ONLY <3>1, <3>3, <3>4
  <2>. QED  BY <1>2, <1>5, <2>1, <2>2 DEF SchedulerInv, TypeInv
<1>12. /\ Spawned' = Spawned /\ MaxPending' = MaxPending /\ Tuples' = Tuples
      /\ \A d \in Listeners : Mine(d)' = Mine(d)
  BY <1>2 DEF Spawned, MaxPending, Tuples, Mine
<1>13. Alive' = Alive
  BY <1>2, <1>10 DEF Alive
<1>14. ServedInv'
  BY <1>2, <1>12 DEF SchedulerInv, ServedInv
<1>15. CountInv'
  <2>1. ASSUME NEW d \in Listeners
        PROVE  /\ container'[d].alive =>
                    /\ container'[d].scheduled = finished'[d] + (Cardinality(Mine(d)') + todo'[d].count)
                    /\ Cardinality(Mine(d)') + todo'[d].count <= MaxPending'
               /\ ~container'[d].alive => Mine(d)' = {} /\ todo'[d].count = 0 /\ container'[d].buffer.count = 0
    <3>1. CASE d = c
      <4>0. todo'[c].count = k
        BY <1>10
      <4>1. todo'[c].count = k /\ finished'[c] = finished[c] /\ Mine(c)' = Mine(c) /\ MaxPending' = MaxPending
        BY ONLY <4>0, <1>2, <1>12, c \in Listeners
      <4>2. /\ container'[c].scheduled = finished[c] + (Cardinality(Mine(c)) + k)
            /\ Cardinality(Mine(c)) + k <= MaxPending
        BY <1>3, <1>4, <1>6, <1>10
      <4>. QED  BY <4>1, <4>2, <3>1, <1>10
    <3>2. CASE d # c
      BY <3>2, <1>2, <1>10, <1>12 DEF SchedulerInv, CountInv
    <3>. QED  BY <3>1, <3>2
  <2>. QED  BY <2>1, <1>2, <1>13 DEF SchedulerInv, CountInv
(* The part is cut in two. *)
<1>16. /\ Taken(c)' \cup Waiting(c)' = Interval(b) /\ Taken(c)' \cap Waiting(c)' = {}
       /\ Taken(c) = {}
       /\ \A d \in Listeners : d # c => Taken(d)' = Taken(d) /\ Waiting(d)' = Waiting(d)
  <2>1. Taken(c)' = b.index + 1 .. b.index + k
    BY ONLY <1>10 DEF Taken, Interval
  <2>2. Waiting(c)' = b.index + k + 1 .. b.index + k + (b.count - k)
    BY ONLY <1>10 DEF Waiting, Interval
  <2>3. Interval(b) = b.index + 1 .. b.index + b.count
    BY DEF Interval
  <2>4. Taken(c) = {}
    <3>1. todo[c].index \in Nat /\ todo[c].count = 0
      BY <1>2, Numbers DEF SchedulerInv
    <3>. QED  BY ONLY <3>1 DEF Taken, Interval
  <2>5. Taken(c)' \cup Waiting(c)' = Interval(b) /\ Taken(c)' \cap Waiting(c)' = {}
    BY <1>5, <1>6, <2>1, <2>2, <2>3
  <2>6. \A d \in Listeners : d # c => Taken(d)' = Taken(d) /\ Waiting(d)' = Waiting(d)
    BY <1>10 DEF Taken, Waiting
  <2>. QED  BY <2>4, <2>5, <2>6
<1>17. \/ Interval(b) = Waiting(c) /\ current' = current
       \/ Interval(b) = current + 1 .. current' /\ Waiting(c) = {}
  BY <1>5 DEF Waiting
<1>18. PlaceInv'
  <2>1. \A d \in Listeners : d # c => Interval(b) \cap Waiting(d) = {} /\ Interval(b) \cap Taken(d) = {}
    BY <1>2, <1>3, <1>17 DEF SchedulerInv, PhaseInv, PlaceInv
  <2>2. Interval(b) \cap Spawned = {}
    BY <1>2, <1>3, <1>17 DEF SchedulerInv, PhaseInv, PlaceInv
  <2>. QED  BY <1>12, <1>16, <2>1, <2>2 DEF SchedulerInv, PlaceInv
<1>19. PhaseInv'
  <2>1. ASSUME NEW q \in 1 .. current'
        PROVE  q \in Spawned' \/ \E d \in Listeners : q \in Waiting(d)' \/ q \in Taken(d)'
    <3>1. CASE q \in Interval(b)
      BY <1>16, <3>1
    <3>2. CASE q \notin Interval(b)
      <4>1. q \in 1 .. current /\ q \notin Waiting(c)
        BY <1>3, <1>5, <1>17, <3>2
      <4>. QED  BY <4>1, <1>2, <1>12, <1>16 DEF SchedulerInv, PhaseInv
    <3>. QED  BY <3>1, <3>2
  <2>2. \A d \in Listeners : Waiting(d)' \subseteq 1 .. current' /\ Taken(d)' \subseteq 1 .. current'
    <3>1. 1 .. current \subseteq 1 .. current' /\ Interval(b) \subseteq 1 .. current'
      BY <1>2, <1>3, <1>5, <1>17 DEF SchedulerInv, PhaseInv
    <3>. QED  BY <3>1, <1>2, <1>16 DEF SchedulerInv, PhaseInv
  <2>3. \A q \in Spawned' : q \in 1 .. current' /\ call'[q] = Tuples'[q]
    <3>1. \A q \in Spawned : q \in 1 .. current /\ call[q] = Tuples[q]
      BY <1>2 DEF SchedulerInv, PhaseInv
    <3>2. 1 .. current \subseteq 1 .. current'
      BY ONLY <1>3, <1>5
    <3>3. call' = call /\ Tuples' = Tuples /\ Spawned' = Spawned
      BY <1>2, <1>12
    <3>. QED  BY ONLY <3>1, <3>2, <3>3
  <2>. QED  BY <1>2, <1>5, <1>12, <2>1, <2>2, <2>3 DEF SchedulerInv, PhaseInv
<1>. QED  BY <1>11, <1>14, <1>15, <1>18, <1>19 DEF SchedulerInv

(* A container that is done has no request left, and none is left to fetch. *)
LEMMA FinishedContainer ==
    ASSUME SchedulerInv, NEW c \in Listeners, Finish(c)
    PROVE  /\ running /\ container[c].alive /\ todo[c].count = 0 /\ container[c].buffer.count = 0
           /\ Mine(c) = {} /\ current = Len(Tuples)
           /\ open \in Nat /\ open > 0
           /\ Cardinality(Alive \ {c}) = open - 1
           /\ IsFiniteSet(Alive \ {c})
<1>1. /\ running /\ container[c].alive /\ todo[c].count = 0 /\ Refilled(c).count = 0
      /\ container[c].scheduled = finished[c]
  BY DEF Finish, CanTake
<1>2. /\ Cardinality(Mine(c)) \in Nat /\ finished[c] \in Nat /\ container[c].buffer.count \in Nat
      /\ IsFiniteSet(Mine(c)) /\ IsFiniteSet(Alive)
      /\ current \in Nat /\ Len(Tuples) \in Nat /\ current <= Len(Tuples) /\ BatchSize \in Nat \ {0}
      /\ open = Cardinality(Alive)
  BY <1>1, Numbers, TuplesAreRequests, SchedulerAssumption DEF SchedulerInv, PhaseInv, TypeInv, CountInv
<1>3. Mine(c) = {}
  <2>1. finished[c] = finished[c] + (Cardinality(Mine(c)) + 0)
    BY <1>1 DEF SchedulerInv, CountInv
  <2>2. Cardinality(Mine(c)) = 0
    BY <2>1, <1>2
  <2>. QED  BY <2>2, <1>2, FS_EmptySet
<1>4. container[c].buffer.count = 0 /\ Batch(current, Len(Tuples)).count = 0
  BY <1>1, <1>2 DEF Refilled
<1>5. current = Len(Tuples)
  <2>. SUFFICES ASSUME current < Len(Tuples)
                PROVE  FALSE
    BY <1>2
  <2>1. Batch(current, Len(Tuples)).count = IF BatchSize < Len(Tuples) - current THEN BatchSize ELSE Len(Tuples) - current
    BY DEF Batch
  <2>. QED  BY <1>2, <1>4, <2>1
<1>6. c \in Alive
  BY <1>1 DEF Alive
<1>7. Cardinality(Alive) \in Nat /\ Cardinality(Alive) > 0 /\ IsFiniteSet(Alive \ {c}) /\ Cardinality(Alive \ {c}) = Cardinality(Alive) - 1
  BY <1>2, <1>6, RemovesOne
<1>. QED  BY <1>1, <1>2, <1>3, <1>4, <1>5, <1>7

(* When the last container goes, every tuple of the phase was spawned and    *)
(* has its answer.                                                           *)
LEMMA LastContainer ==
    ASSUME SchedulerInv, NEW c \in Listeners, Finish(c), open = 1
    PROVE  /\ Alive = {c}
           /\ \A d \in Listeners : Mine(d) = {} /\ todo[d].count = 0 /\ container[d].buffer.count = 0
           /\ \A r \in Requests : task[r].pc = "idle"
           /\ \A r \in DOMAIN Tuples : call[r] = Tuples[r] /\ answer[r] # Pending
<1>1. Alive = {c}
  <2>1. IsFiniteSet(Alive \ {c}) /\ Cardinality(Alive \ {c}) = 0
    BY FinishedContainer
  <2>2. Alive \ {c} = {}
    BY <2>1, FS_EmptySet
  <2>3. c \in Alive
    BY FinishedContainer DEF Alive
  <2>. QED  BY <2>2, <2>3
<1>2. ASSUME NEW d \in Listeners
      PROVE  Mine(d) = {} /\ todo[d].count = 0 /\ container[d].buffer.count = 0
  <2>1. CASE d = c
    BY <2>1, FinishedContainer
  <2>2. CASE d # c
    BY <2>2, <1>1 DEF Alive, SchedulerInv, CountInv
  <2>. QED  BY <2>1, <2>2
<1>3. ASSUME NEW r \in Requests
      PROVE  task[r].pc = "idle"
  BY <1>2 DEF Mine, SchedulerInv, ServedInv
<1>4. ASSUME NEW r \in DOMAIN Tuples
      PROVE  call[r] = Tuples[r] /\ answer[r] # Pending
  <2>1. r \in 1 .. current /\ running
    BY FinishedContainer, TuplesAreRequests DEF SchedulerInv
  <2>2. \A d \in Listeners : Waiting(d) = {} /\ Taken(d) = {}
    BY <1>2, Numbers DEF Waiting, Taken, Interval, SchedulerInv
  <2>3. r \in Spawned
    BY <2>1, <2>2 DEF SchedulerInv, PhaseInv
  <2>4. r \in Requests
    BY <2>3 DEF Spawned
  <2>. QED  BY <2>1, <2>3, <2>4, <1>3 DEF SchedulerInv, PhaseInv, ServedInv
<1>. QED  BY <1>1, <1>2, <1>3, <1>4

LEMMA FinishKeepsInv ==
    ASSUME SchedulerInv, NEW c \in Listeners, Finish(c)
    PROVE  SchedulerInv'
<1>0. /\ running /\ container[c].alive /\ todo[c].count = 0 /\ container[c].buffer.count = 0
      /\ Mine(c) = {} /\ open \in Nat /\ open > 0 /\ container[c].buffer.index \in Nat
  BY FinishedContainer, Numbers DEF SchedulerInv
<1>1. /\ container' = [container EXCEPT ![c] = NoContainer] /\ open' = open - 1
      /\ UNCHANGED <<height, task, finished, workload, phase, current, config, iteration, todo>>
  BY DEF Finish
<1>2. \/ /\ open = 1 /\ running' = FALSE
         /\ call' = [r \in Requests |-> NoCall] /\ answer' = [r \in Requests |-> Pending]
      \/ open # 1 /\ UNCHANGED <<running, call, answer>>
  BY DEF Finish
<1>3. /\ container'[c] = NoContainer
      /\ \A d \in Listeners : d # c => container'[d] = container[d]
  BY <1>1 DEF SchedulerInv, TypeInv
<1>4. TypeInv'
  <2>1. NoContainer \in [alive : BOOLEAN, scheduled : Nat, buffer : Part]
    BY DEF NoContainer, None, Part
  <2>2. container' \in [Listeners -> [alive : BOOLEAN, scheduled : Nat, buffer : Part]]
    BY <1>1, <2>1 DEF SchedulerInv, TypeInv
  <2>3. open' \in Nat /\ running' \in BOOLEAN
    <3>1. open' \in Nat
      <4>1. open' = open - 1
        BY <1>1
      <4>2. open \in Nat /\ open > 0
        BY <1>0
      <4>. QED  BY ONLY <4>1, <4>2
    <3>2. running' \in BOOLEAN
      BY <1>2, Zenon DEF SchedulerInv, TypeInv
    <3>. QED  BY <3>1, <3>2
  <2>4. call' = [r \in Requests |-> call'[r]] /\ answer' = [r \in Requests |-> answer'[r]]
    BY <1>2 DEF SchedulerInv, TypeInv
  <2>. QED  BY <1>1, <2>2, <2>3, <2>4 DEF SchedulerInv, TypeInv
<1>5. /\ MaxPending' = MaxPending /\ Tuples' = Tuples
      /\ \A d \in Listeners : Mine(d)' = Mine(d) /\ Taken(d)' = Taken(d)
  BY <1>1 DEF MaxPending, Tuples, Mine, Taken
<1>6. /\ \A d \in Listeners : d # c => Waiting(d)' = Waiting(d)
      /\ Waiting(c)' = {} /\ Waiting(c) = {}
  <2>1. \A d \in Listeners : d # c => Waiting(d)' = Waiting(d)
    BY <1>3 DEF Waiting
  <2>2. Waiting(c)' = {}
    BY <1>3 DEF Waiting, Interval, NoContainer, None
  <2>3. Waiting(c) = {}
    BY <1>0 DEF Waiting, Interval
  <2>. QED  BY <2>1, <2>2, <2>3
<1>7. Alive' = Alive \ {c}
  BY <1>3 DEF Alive, NoContainer
<1>8. \/ Spawned' = {}
      \/ Spawned' = Spawned /\ answer' = answer
  BY <1>2 DEF Spawned
<1>9. CASE open = 1
  <2>1. Spawned' = {} /\ running' = FALSE
    BY <1>2, <1>9 DEF Spawned
  <2>2. ServedInv'
    <3>1. \A r \in Requests : task'[r].pc = "idle"
      BY <1>1, <1>9, LastContainer
    <3>. QED  BY <2>1, <3>1 DEF ServedInv, Effective
  <2>3. Alive' = {}
    BY <1>7, <1>9, LastContainer
  <2>4. CountInv'
    <3>1. \A d \in Listeners : ~container'[d].alive
      BY <2>3 DEF Alive
    <3>2. \A d \in Listeners : Mine(d)' = {} /\ todo'[d].count = 0 /\ container'[d].buffer.count = 0
      <4>1. \A d \in Listeners : Mine(d) = {} /\ todo[d].count = 0 /\ container[d].buffer.count = 0
        BY <1>1, <1>9, LastContainer
      <4>2. container'[c].buffer.count = 0
        BY <1>3 DEF NoContainer, None
      <4>. QED  BY <1>1, <1>3, <1>5, <4>1, <4>2
    <3>3. open' = Cardinality(Alive')
      <4>1. open' = open - 1
        BY <1>1
      <4>2. open' = 0
        BY ONLY <4>1, <1>9
      <4>3. Cardinality(Alive') = 0
        BY <2>3, FS_EmptySet, Zenon
      <4>. QED  BY ONLY <4>2, <4>3
    <3>. QED  BY <3>1, <3>2, <3>3 DEF CountInv
  <2>5. PlaceInv'
    BY <1>5, <1>6, <2>1 DEF SchedulerInv, PlaceInv
  <2>6. PhaseInv'
    BY <2>1, <2>3 DEF PhaseInv
  <2>. QED  BY <1>4, <2>2, <2>4, <2>5, <2>6 DEF SchedulerInv
<1>10. CASE open # 1
  <2>1. UNCHANGED <<running, call, answer>> /\ Spawned' = Spawned
    BY <1>2, <1>10 DEF Spawned
  <2>2. ServedInv'
    BY <1>1, <2>1 DEF SchedulerInv, ServedInv
  <2>3. CountInv'
    <3>1. ASSUME NEW d \in Listeners
          PROVE  /\ container'[d].alive =>
                      /\ container'[d].scheduled = finished'[d] + (Cardinality(Mine(d)') + todo'[d].count)
                      /\ Cardinality(Mine(d)') + todo'[d].count <= MaxPending'
                 /\ ~container'[d].alive => Mine(d)' = {} /\ todo'[d].count = 0 /\ container'[d].buffer.count = 0
      <4>1. CASE d = c
        <5>1. ~container'[c].alive /\ container'[c].buffer.count = 0
          BY <1>3 DEF NoContainer, None
        <5>2. Mine(c)' = {} /\ todo'[c].count = 0
          BY <1>0, <1>1, <1>5
        <5>. QED  BY ONLY <4>1, <5>1, <5>2, Zenon
      <4>2. CASE d # c
        BY <4>2, <1>1, <1>3, <1>5 DEF SchedulerInv, CountInv
      <4>. QED  BY <4>1, <4>2
    <3>2. open' = Cardinality(Alive')
      BY <1>1, <1>7, FinishedContainer
    <3>. QED  BY <3>1, <3>2 DEF CountInv
  <2>4. PlaceInv'
    BY <1>5, <1>6, <2>1 DEF SchedulerInv, PlaceInv
  <2>5. PhaseInv'
    <3>1. /\ running /\ phase \in {"fill", "mixed"} /\ current <= Len(Tuples)
          /\ \A r \in 1 .. current : r \in Spawned \/ \E d \in Listeners : r \in Waiting(d) \/ r \in Taken(d)
          /\ \A d \in Listeners : Waiting(d) \subseteq 1 .. current /\ Taken(d) \subseteq 1 .. current
          /\ \A r \in Spawned : r \in 1 .. current /\ call[r] = Tuples[r]
      BY <1>0 DEF SchedulerInv, PhaseInv
    <3>2. \A d \in Listeners : Waiting(d)' = Waiting(d) /\ Taken(d)' = Taken(d)
      BY <1>5, <1>6
    <3>3. /\ running' = running /\ phase' = phase /\ current' = current /\ call' = call
          /\ Tuples' = Tuples /\ Spawned' = Spawned
      BY <1>1, <1>5, <2>1
    <3>. QED  BY ONLY <3>1, <3>2, <3>3 DEF PhaseInv
  <2>. QED  BY <1>4, <2>2, <2>3, <2>4, <2>5 DEF SchedulerInv
<1>. QED  BY <1>9, <1>10

-----------------------------------------------------------------------------
(* The start of a phase: the first batch of every container. *)

(* Batches of size B, one after the other, do not overlap, and leave no gap. *)
LEMMA BatchesApart ==
    ASSUME NEW B \in Nat \ {0}, NEW c \in Nat, NEW d \in Nat, c < d
    PROVE  (c - 1) * B + B <= (d - 1) * B
<1>1. PICK e \in Nat : d = c + 1 + e
  <2>1. d - c - 1 \in Nat /\ d = c + 1 + (d - c - 1)
    OBVIOUS
  <2>. QED  BY <2>1
<1>2. (d - 1) * B = (c - 1) * B + B + e * B
  BY <1>1
<1>3. e * B \in Nat
  OBVIOUS
<1>. QED  BY <1>2, <1>3

LEMMA BatchOfRequest ==
    ASSUME NEW B \in Nat \ {0}, NEW n \in Nat \ {0}, NEW r \in 1 .. n * B
    PROVE  \E c \in 1 .. n : (c - 1) * B < r /\ r <= (c - 1) * B + B
<1>. DEFINE q == (r - 1) \div B
<1>1. q \in Nat /\ q * B <= r - 1 /\ r - 1 < q * B + B
  OBVIOUS
<1>. HIDE DEF q
<1>2. q < n
  <2>. SUFFICES ASSUME q >= n
                PROVE  FALSE
    BY <1>1
  <2>1. PICK e \in Nat : q = n + e
    <3>1. q - n \in Nat /\ q = n + (q - n)
      BY <1>1
    <3>. QED  BY <3>1
  <2>2. q * B = n * B + e * B /\ e * B \in Nat /\ n * B \in Nat
    BY <2>1
  <2>. QED  BY <1>1, <2>2
<1>3. PICK p \in 1 .. n : p - 1 = q
  <2>1. q + 1 \in 1 .. n /\ (q + 1) - 1 = q
    BY <1>1, <1>2
  <2>. QED  BY <2>1
<1>4. (p - 1) * B < r /\ r <= (p - 1) * B + B
  <2>1. q * B \in Nat
    BY <1>1
  <2>2. q * B < r /\ r <= q * B + B
    BY <1>1, <2>1
  <2>. QED  BY <1>3, <2>2
<1>. QED  BY <1>4

(* The first batches of n containers are the first n * B tuples of size. *)
LEMMA FirstBatches ==
    ASSUME NEW n \in Nat \ {0}, NEW size \in Nat,
           NEW top, top = IF n * BatchSize < size THEN n * BatchSize ELSE size
    PROVE  /\ top \in Nat /\ top <= size
           /\ \A c \in 1 .. n : Batch((c - 1) * BatchSize, size) \in Part
           /\ \A c \in 1 .. n : Interval(Batch((c - 1) * BatchSize, size)) \subseteq 1 .. top
           /\ \A c, d \in 1 .. n : c # d =>
                 Interval(Batch((c - 1) * BatchSize, size)) \cap Interval(Batch((d - 1) * BatchSize, size)) = {}
           /\ \A r \in 1 .. top : \E c \in 1 .. n : r \in Interval(Batch((c - 1) * BatchSize, size))
<1>. DEFINE At(c) == (c - 1) * BatchSize
<1>1. BatchSize \in Nat \ {0}
  BY SchedulerAssumption
<1>2. n * BatchSize \in Nat
  BY <1>1
<1>3. ASSUME NEW c \in 1 .. n
      PROVE  At(c) \in Nat /\ At(c) + BatchSize <= n * BatchSize
  <2>1. c \in Nat /\ c - 1 \in Nat /\ n + 1 \in Nat /\ c < n + 1
    OBVIOUS
  <2>2. At(c) \in Nat
    BY <1>1, <2>1
  <2>3. (c - 1) * BatchSize + BatchSize <= (n + 1 - 1) * BatchSize
    BY ONLY <1>1, <2>1, BatchesApart
  <2>4. n + 1 - 1 = n
    OBVIOUS
  <2>. QED  BY <2>2, <2>3, <2>4
<1>4. ASSUME NEW c \in 1 .. n, NEW d \in 1 .. n, c < d
      PROVE  At(c) + BatchSize <= At(d)
  <2>1. c \in Nat /\ d \in Nat
    OBVIOUS
  <2>. QED  BY ONLY <2>1, <1>1, <1>4, BatchesApart DEF At
<1>5. ASSUME NEW r \in 1 .. top
      PROVE  \E c \in 1 .. n : At(c) < r /\ r <= At(c) + BatchSize
  <2>1. r \in 1 .. n * BatchSize
    BY <1>2
  <2>. QED  BY ONLY <2>1, <1>1, n \in Nat \ {0}, BatchOfRequest DEF At
<1>. HIDE DEF At
(* Membership in a batch. *)
<1>6. ASSUME NEW c \in 1 .. n
      PROVE  /\ Batch(At(c), size) \in Part
             /\ \A x : x \in Interval(Batch(At(c), size)) <=>
                         x \in Int /\ At(c) < x /\ x <= At(c) + BatchSize /\ x <= size
  <2>1. At(c) \in Nat
    BY <1>3
  <2>2. CASE At(c) < size
    BY <1>1, <2>1, <2>2 DEF Batch, Interval, Part
  <2>3. CASE ~(At(c) < size)
    BY <1>1, <2>1, <2>3 DEF Batch, Interval, Part, None
  <2>. QED  BY <2>2, <2>3
<1>7. top \in Nat /\ top <= size
  BY <1>2
<1>8. ASSUME NEW c \in 1 .. n
      PROVE  Interval(Batch(At(c), size)) \subseteq 1 .. top
  <2>1. At(c) \in Nat /\ At(c) + BatchSize <= n * BatchSize
    BY <1>3
  <2>. SUFFICES ASSUME NEW x \in Interval(Batch(At(c), size))
                PROVE  x \in 1 .. top
    OBVIOUS
  <2>2. x \in Int /\ At(c) < x /\ x <= At(c) + BatchSize /\ x <= size
    BY <1>6
  <2>. QED  BY ONLY <2>1, <2>2, <1>1, <1>2, size \in Nat,
               top = IF n * BatchSize < size THEN n * BatchSize ELSE size
<1>9. ASSUME NEW c \in 1 .. n, NEW d \in 1 .. n, c # d
      PROVE  Interval(Batch(At(c), size)) \cap Interval(Batch(At(d), size)) = {}
  <2>. SUFFICES ASSUME NEW x \in Interval(Batch(At(c), size)), x \in Interval(Batch(At(d), size))
                PROVE  FALSE
    OBVIOUS
  <2>1. /\ x \in Int /\ At(c) < x /\ x <= At(c) + BatchSize
        /\ At(d) < x /\ x <= At(d) + BatchSize
    BY <1>6
  <2>2. At(c) \in Nat /\ At(d) \in Nat
    BY <1>3
  <2>3. c < d \/ d < c
    BY <1>9
  <2>4. At(c) + BatchSize <= At(d) \/ At(d) + BatchSize <= At(c)
    BY <2>3, <1>4
  <2>. QED  BY ONLY <2>1, <2>2, <2>4, <1>1
<1>10. ASSUME NEW r \in 1 .. top
       PROVE  \E c \in 1 .. n : r \in Interval(Batch(At(c), size))
  <2>1. PICK c \in 1 .. n : At(c) < r /\ r <= At(c) + BatchSize
    BY <1>5
  <2>2. r \in Int /\ r <= size
    BY <1>7
  <2>. QED  BY <2>1, <2>2, <1>6
<1>. QED  BY <1>6, <1>7, <1>8, <1>9, <1>10 DEF At

LEMMA StartKeepsInv ==
    ASSUME SchedulerInv, Start
    PROVE  SchedulerInv'
<1>1. /\ ~running /\ phase # "end" /\ CoreSet
      /\ UNCHANGED <<workload, task, call, answer, todo>>
  BY DEF Start
<1>2. Spawned = {} /\ \A c \in Listeners : ~container[c].alive
  BY <1>1 DEF SchedulerInv, PhaseInv, Alive
<1>3. \A c \in Listeners : Mine(c) = {} /\ todo[c].count = 0 /\ container[c].buffer.count = 0
  BY <1>2 DEF SchedulerInv, CountInv
<1>4. \A r \in Requests : task[r].pc = "idle"
  BY <1>3 DEF Mine, SchedulerInv, ServedInv
<1>5. /\ config' \in 1 .. Len(CoreSets) /\ Len(CoreSets) \in Nat
      /\ phase' \in {"fill", "mixed", "end"}
  <2>1. config \in 1 .. Len(CoreSets) /\ Len(CoreSets) \in Nat
    BY SchedulerAssumption DEF SchedulerInv, TypeInv
  <2>. QED  BY <1>1, <2>1 DEF CoreSet
<1>6. /\ Spawned' = {} /\ ServedInv'
      /\ \A c \in Listeners : Mine(c)' = {} /\ todo'[c].count = 0 /\ Taken(c)' = {}
  <2>1. Spawned' = {}
    BY <1>1, <1>2 DEF Spawned
  <2>2. ServedInv'
    BY <1>1, <1>4, <2>1 DEF ServedInv, Effective
  <2>3. \A c \in Listeners : Mine(c)' = {} /\ todo'[c].count = 0
    BY <1>1, <1>3, <1>4 DEF Mine
  <2>4. \A c \in Listeners : Taken(c)' = {}
    BY <1>1, <2>3, Numbers DEF Taken, Interval, SchedulerInv
  <2>. QED  BY <2>1, <2>2, <2>3, <2>4
<1>7. CASE phase' = "end"
  <2>1. UNCHANGED <<finished, running, open, current, container>>
    BY <1>7 DEF Start
  <2>2. TypeInv'
    BY <1>1, <1>5, <2>1 DEF SchedulerInv, TypeInv
  <2>3. Alive' = Alive /\ Alive = {}
    BY <1>2, <2>1 DEF Alive
  <2>4. \A c \in Listeners : Waiting(c)' = Waiting(c)
    BY <2>1 DEF Waiting
  <2>5. CountInv'
    BY <1>2, <1>3, <1>6, <2>1, <2>3 DEF SchedulerInv, CountInv
  <2>6. PlaceInv'
    BY <1>6, <2>4 DEF SchedulerInv, PlaceInv
  <2>7. PhaseInv'
    BY <1>1, <1>6, <2>1, <2>3 DEF PhaseInv
  <2>. QED  BY <1>6, <2>2, <2>5, <2>6, <2>7 DEF SchedulerInv
<1>8. CASE phase' # "end"
  <2>1. PICK n, size :
          /\ n = CoreSets[config'] /\ size = Len(Tuples')
          /\ container' = [c \in Listeners |->
                  IF c \in 1 .. n THEN [alive |-> TRUE, scheduled |-> 0, buffer |-> Batch((c - 1) * BatchSize, size)]
                                  ELSE NoContainer]
          /\ current' = IF n * BatchSize < size THEN n * BatchSize ELSE size
          /\ finished' = [c \in Listeners |-> 0] /\ open' = n /\ running' = TRUE
    BY <1>8 DEF Start, Cores
  <2>2. n \in Nat \ {0} /\ 1 .. n \subseteq Listeners
    BY <1>5, <2>1, SchedulerAssumption
  <2>3. size \in Nat
    <3>1. workload' \in Workloads /\ Tuples' = workload'[IF phase' = "mixed" THEN "mixed" ELSE "fill"]
      BY <1>1 DEF Tuples, SchedulerInv, TypeInv
    <3>2. Tuples' \in Seq([op : {"insert", "update", "lookup"}, key : Keys, value : Values])
      BY <3>1, SchedulerAssumption
    <3>. QED  BY <2>1, <3>2
  <2>4. /\ current' \in Nat /\ current' <= size
        /\ \A c \in 1 .. n : Batch((c - 1) * BatchSize, size) \in Part
        /\ \A c \in 1 .. n : Interval(Batch((c - 1) * BatchSize, size)) \subseteq 1 .. current'
        /\ \A c, d \in 1 .. n : c # d =>
              Interval(Batch((c - 1) * BatchSize, size)) \cap Interval(Batch((d - 1) * BatchSize, size)) = {}
        /\ \A r \in 1 .. current' : \E c \in 1 .. n : r \in Interval(Batch((c - 1) * BatchSize, size))
    <3>1. current' = IF n * BatchSize < size THEN n * BatchSize ELSE size
      BY <2>1
    <3>2. PICK top : top = current' /\ top = IF n * BatchSize < size THEN n * BatchSize ELSE size
      BY ONLY <3>1
    <3>3. /\ top \in Nat /\ top <= size
          /\ \A c \in 1 .. n : Batch((c - 1) * BatchSize, size) \in Part
          /\ \A c \in 1 .. n : Interval(Batch((c - 1) * BatchSize, size)) \subseteq 1 .. top
          /\ \A c, d \in 1 .. n : c # d =>
                Interval(Batch((c - 1) * BatchSize, size)) \cap Interval(Batch((d - 1) * BatchSize, size)) = {}
          /\ \A r \in 1 .. top : \E c \in 1 .. n : r \in Interval(Batch((c - 1) * BatchSize, size))
      BY ONLY <2>2, <2>3, <3>2, FirstBatches, Zenon
    <3>. QED  BY ONLY <3>2, <3>3
  <2>5. \A c \in 1 .. n : Waiting(c)' = Interval(Batch((c - 1) * BatchSize, size))
    BY <2>1, <2>2 DEF Waiting
  <2>6. \A c \in Listeners \ (1 .. n) : container'[c] = NoContainer /\ Waiting(c)' = {}
    BY <2>1 DEF Waiting, NoContainer, None, Interval
  <2>7. TypeInv'
    <3>1. NoContainer \in [alive : BOOLEAN, scheduled : Nat, buffer : Part]
      BY DEF NoContainer, None, Part
    <3>2. container' \in [Listeners -> [alive : BOOLEAN, scheduled : Nat, buffer : Part]]
      BY <3>1, <2>1, <2>4
    <3>3. finished' \in [Listeners -> Nat] /\ open' \in Nat /\ running' \in BOOLEAN
      BY <2>1, <2>2
    <3>. QED  BY <1>1, <1>5, <2>4, <3>2, <3>3 DEF SchedulerInv, TypeInv
  <2>8. Alive' = 1 .. n
    BY <2>1, <2>2 DEF Alive, NoContainer
  <2>9. CountInv'
    <3>1. ASSUME NEW c \in Listeners
          PROVE  /\ container'[c].alive =>
                      /\ container'[c].scheduled = finished'[c] + (Cardinality(Mine(c)') + todo'[c].count)
                      /\ Cardinality(Mine(c)') + todo'[c].count <= MaxPending'
                 /\ ~container'[c].alive => Mine(c)' = {} /\ todo'[c].count = 0 /\ container'[c].buffer.count = 0
      <4>1. Mine(c)' = {} /\ Cardinality(Mine(c)') = 0 /\ todo'[c].count = 0 /\ finished'[c] = 0
        BY <1>6, <2>1, FS_EmptySet
      <4>2. MaxPending' \in Nat
        BY <2>1, <2>2, DivNat, SchedulerAssumption DEF MaxPending
      <4>3. CASE c \in 1 .. n
        <5>1. container'[c].alive /\ container'[c].scheduled = 0
          BY <2>1, <4>3
        <5>2. 0 = 0 + (Cardinality(Mine(c)') + todo'[c].count) /\ Cardinality(Mine(c)') + todo'[c].count <= MaxPending'
          BY ONLY <4>1, <4>2
        <5>. QED  BY ONLY <4>1, <5>1, <5>2, Zenon
      <4>4. CASE c \notin 1 .. n
        <5>1. ~container'[c].alive /\ container'[c].buffer.count = 0
          BY <4>4, <2>6 DEF NoContainer, None
        <5>. QED  BY ONLY <4>1, <5>1, Zenon
      <4>. QED  BY <4>3, <4>4, Zenon
    <3>2. open' = Cardinality(Alive')
      <4>1. n \in Nat /\ 1 \in Int /\ open' = n
        BY <2>1, <2>2
      <4>2. Cardinality(1 .. n) = IF 1 > n THEN 0 ELSE n - 1 + 1
        BY ONLY <4>1, FS_Interval
      <4>. QED  BY ONLY <4>1, <4>2, <2>2, <2>8
    <3>. QED  BY <3>1, <3>2 DEF CountInv
  <2>10. PlaceInv'
    <3>1. ASSUME NEW c \in Listeners, NEW d \in Listeners, c # d
          PROVE  Waiting(c)' \cap Waiting(d)' = {}
      <4>1. CASE c \in 1 .. n /\ d \in 1 .. n
        BY <3>1, <4>1, <2>4, <2>5
      <4>2. CASE ~(c \in 1 .. n /\ d \in 1 .. n)
        BY <4>2, <2>6
      <4>. QED  BY <4>1, <4>2
    <3>. QED  BY <1>6, <3>1 DEF PlaceInv
  <2>11. PhaseInv'
    <3>1. \A r \in 1 .. current' : \E c \in Listeners : r \in Waiting(c)'
      <4>1. ASSUME NEW r \in 1 .. current'
            PROVE  \E c \in Listeners : r \in Waiting(c)'
        <5>1. PICK c \in 1 .. n : r \in Interval(Batch((c - 1) * BatchSize, size))
          BY <2>4
        <5>2. c \in Listeners /\ r \in Waiting(c)'
          BY <2>2, <2>5, <5>1
        <5>. QED  BY <5>2
      <4>. QED  BY <4>1
    <3>2. \A c \in Listeners : Waiting(c)' \subseteq 1 .. current' /\ Taken(c)' \subseteq 1 .. current'
      BY <1>6, <2>4, <2>5, <2>6
    <3>. QED  BY <1>5, <1>6, <1>8, <2>1, <2>4, <3>1, <3>2 DEF PhaseInv
  <2>. QED  BY <1>6, <2>7, <2>9, <2>10, <2>11 DEF SchedulerInv
<1>. QED  BY <1>7, <1>8

-----------------------------------------------------------------------------
(* The theorems. *)

LEMMA InitInv ==
    ASSUME Init
    PROVE  SchedulerInv
<1>1. /\ task = [r \in Requests |-> Idle] /\ call = [r \in Requests |-> NoCall]
      /\ answer = [r \in Requests |-> Pending] /\ finished = [c \in Listeners |-> 0]
      /\ workload \in Workloads /\ phase = "none" /\ config = 1
      /\ running = FALSE /\ open = 0 /\ current = 0
      /\ container = [c \in Listeners |-> NoContainer] /\ todo = [c \in Listeners |-> None]
  BY DEF Init, TreeInit
<1>2. TypeInv
  <2>1. 1 \in 1 .. Len(CoreSets)
    BY SchedulerAssumption
  <2>2. None \in Part /\ NoContainer \in [alive : BOOLEAN, scheduled : Nat, buffer : Part]
    BY DEF None, NoContainer, Part
  <2>3. Idle = [f \in Fields |-> Idle[f]]
    BY DEF Idle, Fields
  <2>4. \A r \in Requests : task[r] = [f \in Fields |-> task[r][f]]
    BY <1>1, <2>3
  <2>5. /\ container \in [Listeners -> [alive : BOOLEAN, scheduled : Nat, buffer : Part]]
        /\ todo \in [Listeners -> Part] /\ finished \in [Listeners -> Nat]
    BY <1>1, <2>2
  <2>6. /\ task = [r \in Requests |-> task[r]] /\ call = [r \in Requests |-> call[r]]
        /\ answer = [r \in Requests |-> answer[r]]
    BY <1>1
  <2>. QED  BY <1>1, <2>1, <2>4, <2>5, <2>6 DEF TypeInv
<1>3. Spawned = {} /\ Alive = {}
  BY <1>1 DEF Spawned, Alive, NoContainer
<1>4. \A r \in Requests : task[r].pc = "idle"
  BY <1>1 DEF Idle
<1>5. \A c \in Listeners : /\ ~container[c].alive /\ Mine(c) = {} /\ todo[c].count = 0
                           /\ container[c].buffer.count = 0 /\ Waiting(c) = {} /\ Taken(c) = {}
  BY <1>1, <1>4 DEF NoContainer, None, Mine, Waiting, Taken, Interval
<1>6. ServedInv
  BY <1>3, <1>4 DEF ServedInv, Effective
<1>7. CountInv
  BY <1>1, <1>3, <1>5, FS_EmptySet DEF CountInv
<1>8. PlaceInv
  BY <1>5 DEF PlaceInv
<1>9. PhaseInv
  BY <1>1, <1>3 DEF PhaseInv
<1>. QED  BY <1>2, <1>6, <1>7, <1>8, <1>9 DEF SchedulerInv

LEMMA StutterKeepsInv ==
    ASSUME SchedulerInv, UNCHANGED vars
    PROVE  SchedulerInv'
<1>1. UNCHANGED <<nodes, root, height, task, call, answer, finished, workload, phase, current, config,
                  iteration, running, open, container, todo>>
  BY DEF vars, tvars, svars
<1>2. /\ Spawned' = Spawned /\ Alive' = Alive /\ MaxPending' = MaxPending /\ Tuples' = Tuples
      /\ \A c \in Listeners : Mine(c)' = Mine(c) /\ Waiting(c)' = Waiting(c) /\ Taken(c)' = Taken(c)
  BY <1>1 DEF Spawned, Alive, MaxPending, Tuples, Mine, Waiting, Taken
<1>3. TypeInv'
  BY <1>1 DEF SchedulerInv, TypeInv
<1>4. ServedInv'
  BY <1>1, <1>2 DEF SchedulerInv, ServedInv
<1>5. CountInv'
  BY <1>1, <1>2 DEF SchedulerInv, CountInv
<1>6. PlaceInv'
  BY <1>2 DEF SchedulerInv, PlaceInv
<1>7. PhaseInv'
  BY <1>1, <1>2 DEF SchedulerInv, PhaseInv
<1>. QED  BY <1>3, <1>4, <1>5, <1>6, <1>7 DEF SchedulerInv

LEMMA StepInv ==
    ASSUME SchedulerInv, [Next]_vars
    PROVE  SchedulerInv'
  BY StartKeepsInv, TakeKeepsInv, SpawnKeepsInv, FinishKeepsInv, ExecuteKeepsInv, StutterKeepsInv DEF Next

(* The invariant holds: every request of a phase is in exactly one place     *)
(* (still to be fetched, in a container's buffer, taken by a scheduler task, *)
(* or spawned), each container counts exactly its requests in flight, and a  *)
(* task ends only with its request answered.                                 *)
THEOREM SchedulerInvariant == Spec => []SchedulerInv
<1>1. Init => SchedulerInv
  BY InitInv
<1>2. SchedulerInv /\ [Next]_vars => SchedulerInv'
  BY StepInv
<1>. QED  BY <1>1, <1>2, PTL DEF Spec

(* A scheduler task never has more requests in flight than its share, and    *)
(* Finish deletes a request container only when no task refers to it.        *)
THEOREM ContainersOutliveRequests == Spec => []ContainerOutlivesRequests
<1>1. SchedulerInv => ContainerOutlivesRequests
  <2>. SUFFICES ASSUME SchedulerInv, NEW c \in Listeners
                PROVE  /\ Cardinality(Mine(c)) + todo[c].count <= MaxPending
                       /\ ~container[c].alive => Mine(c) = {} /\ todo[c].count = 0
    BY DEF ContainerOutlivesRequests, Mine
  <2>1. MaxPending \in Nat /\ container[c].alive \in BOOLEAN
    BY Numbers DEF SchedulerInv
  <2>2. CASE container[c].alive
    BY <2>2 DEF SchedulerInv, CountInv
  <2>3. CASE ~container[c].alive
    <3>1. Mine(c) = {} /\ todo[c].count = 0
      BY <2>3 DEF SchedulerInv, CountInv
    <3>2. Cardinality(Mine(c)) = 0
      BY <3>1, FS_EmptySet
    <3>. QED  BY <2>1, <3>1, <3>2
  <2>. QED  BY <2>2, <2>3
<1>. QED  BY <1>1, SchedulerInvariant, PTL

(* The runtime is stopped only when every tuple of the phase was spawned as  *)
(* a request and has its answer, whatever the batches, the order of the      *)
(* tasks and the shape of the tree.                                          *)
THEOREM PhasesAnswerAll == Spec => PhaseAnswersAll
<1>1. ASSUME SchedulerInv, [Next]_vars, running, ~running'
      PROVE  \A r \in DOMAIN Tuples : call[r] = Tuples[r] /\ answer[r] # Pending
  <2>1. CASE Start
    BY <1>1, <2>1 DEF Start
  <2>2. CASE \E c \in Listeners : Take(c) \/ Spawn(c)
    BY <1>1, <2>2 DEF Take, Spawn
  <2>3. CASE \E c \in Listeners : Finish(c)
    <3>1. PICK c \in Listeners : Finish(c)
      BY <2>3
    <3>2. open = 1
      BY <1>1, <3>1 DEF Finish
    <3>. QED  BY <1>1, <3>1, <3>2, LastContainer
  <2>4. CASE \E r \in Requests : Execute(r) /\ UNCHANGED svars
    BY <1>1, <2>4 DEF svars
  <2>5. CASE UNCHANGED vars
    BY <1>1, <2>5 DEF vars, svars
  <2>. QED  BY <1>1, <2>1, <2>2, <2>3, <2>4, <2>5 DEF Next
<1>2. SchedulerInv /\ [Next]_vars =>
         [running /\ ~running' => \A r \in DOMAIN Tuples : call[r] = Tuples[r] /\ answer[r] # Pending]_vars
  BY <1>1
<1>. QED  BY <1>2, SchedulerInvariant, PTL DEF Spec, PhaseAnswersAll
=============================================================================
