---------------------------- MODULE TaskingProofs ----------------------------
(* Proofs about Tasking: the isolation a data object was built with holds    *)
(* for every number of channels, objects and tasks. The inductive invariant  *)
(* comes first, then its steps, in the order of a task's way from the spawn  *)
(* to its end, and the properties it implies.                                *)
EXTENDS Tasking, TLAPS

(* The primitive Builder chose is one the isolation level allows. *)
BuiltInv ==
    \A r \in Resources :
        /\ resource[r].isolation = "Exclusive"
              => resource[r].primitive \in {"ScheduleAll", "ExclusiveLatch"}
        /\ resource[r].isolation = "ExclusiveWriter"
              => resource[r].primitive \in {"ScheduleAll", "ReaderWriterLatch",
                                            "ScheduleWriter", "OLFIT"}

(* A task with this object and access mode may be executed at channel c. *)
Allowed(c, r, writes) ==
    r # Nil =>
        /\ resource[r].primitive = "ScheduleAll" => c = resource[r].home
        /\ resource[r].primitive = "ScheduleWriter" /\ writes => c = resource[r].home

PlacedInv ==
    \A c \in Channels : \A t \in channel[c] :
        Allowed(c, annotation[t].resource, ~annotation[t].readonly)

(* What the worker's context says about the object it is executed on. *)
ContextAt(c) ==
    /\ pc[c] = "next" => context[c] = "plain" /\ on[c] = Nil /\ current[c] = Nil
    /\ pc[c] # "next" => current[c] # Nil
    /\ pc[c] \in {"next", "acquire", "version", "run"} => result[c] = Nil
    /\ Allowed(c, on[c], writing[c])
    /\ pc[c] \in {"acquire", "release"}
          => context[c] \in {"exclusive", "shared", "unique", "optimistic", "olfit"}
    /\ pc[c] \in {"version", "validate"} => context[c] = "read"
    /\ on[c] = Nil => context[c] = "plain"
    /\ on[c] # Nil =>
        /\ resource[on[c]].primitive = "ExclusiveLatch" => context[c] = "exclusive"
        /\ resource[on[c]].primitive = "ReaderWriterLatch"
              => context[c] = (IF writing[c] THEN "unique" ELSE "shared")
        /\ resource[on[c]].primitive = "ScheduleWriter"
              => context[c] = (IF writing[c] THEN "optimistic"
                               ELSE IF c # resource[on[c]].home THEN "read" ELSE "plain")
        /\ resource[on[c]].primitive = "OLFIT"
              => context[c] = (IF writing[c] THEN "olfit" ELSE "read")
        /\ resource[on[c]].primitive \in {"None", "ScheduleAll"} => context[c] = "plain"

ContextInv == \A c \in Channels : ContextAt(c)

Inside(c) == pc[c] \in {"run", "release"}

LatchHolder(c, r, k) == Inside(c) /\ on[c] = r /\ context[c] = k

VersionHolder(c, r) == Inside(c) /\ on[c] = r /\ context[c] \in {"optimistic", "olfit"}

(* The latches are held by the workers inside a task, and by no one else. *)
LatchInv ==
    \A r \in Resources :
        /\ \A c \in Channels : c \in exclusive[r] <=> LatchHolder(c, r, "exclusive")
        /\ \A c \in Channels : c \in shared[r] <=> LatchHolder(c, r, "shared")
        /\ \A c \in Channels : c \in unique[r] <=> LatchHolder(c, r, "unique")
        /\ \A c, d \in Channels : c \in exclusive[r] /\ d \in exclusive[r] => c = d
        /\ \A c, d \in Channels : c \in unique[r] /\ d \in unique[r] => c = d
        /\ \A c, d \in Channels : ~(c \in unique[r] /\ d \in shared[r])

(* The version of an object is locked while a writing task is inside. *)
VersionInv ==
    \A r \in Resources :
        /\ \A c, d \in Channels : VersionHolder(c, r) /\ VersionHolder(d, r) => c = d
        /\ IsLocked(version[r]) <=> \E c \in Channels : VersionHolder(c, r)

(* An overlapped read is one whose version has moved on. *)
ReadInv ==
    \A c \in Channels : context[c] = "read" =>
        /\ pc[c] \in {"run", "validate"} =>
              /\ seen[c] <= version[on[c]]
              /\ overlapped[c] => seen[c] < version[on[c]]
        /\ pc[c] = "finish" => ~overlapped[c]

IInv ==
    /\ TypeOK
    /\ BuiltInv
    /\ OnePlace
    /\ PlacedInv
    /\ ContextInv
    /\ LatchInv
    /\ VersionInv
    /\ ReadInv

------------------------------------------------------------------------------
(* isolation_level_to_synchronization_primitive respects the isolation level *)
(* for every combination of hints.                                           *)
LEMMA PrimitiveRespectsLevel ==
    ASSUME NEW h \in Hint
    PROVE  /\ PrimitiveFor(h) \in Primitive
           /\ h.isolation = "Exclusive"
                 => PrimitiveFor(h) \in {"ScheduleAll", "ExclusiveLatch"}
           /\ h.isolation = "ExclusiveWriter"
                 => PrimitiveFor(h) \in {"ScheduleAll", "ReaderWriterLatch",
                                         "ScheduleWriter", "OLFIT"}
  <1> USE DEF Hint, IsolationLevel, Protocol, AccessFrequency, ReadWriteRatio, Primitive
  <1>1. /\ ExclusiveMatrix(h.frequency) \in {"ScheduleAll", "ExclusiveLatch"}
        /\ ExclusiveWriterMatrix(h.ratio, h.frequency)
              \in {"ScheduleAll", "ReaderWriterLatch", "ScheduleWriter", "OLFIT"}
    BY DEF ExclusiveMatrix, ExclusiveWriterMatrix
  <1>2. CASE h.protocol = "Any"
    BY <1>1, <1>2 DEF PrimitiveFor, SelectPrimitive
  <1>3. CASE h.protocol # "Any"
    BY <1>3 DEF PrimitiveFor
  <1>4. QED BY <1>2, <1>3

(* The invariant holds when nothing has been scheduled. *)
LEMMA InitIInv == Init => IInv
  <1> SUFFICES ASSUME Init PROVE IInv
    OBVIOUS
  <1> USE TaskingAssumption DEF Init
  <1>1. \A r \in Resources : \E h \in Hint, c \in Channels :
           resource[r] = [isolation |-> h.isolation, primitive |-> PrimitiveFor(h), home |-> c]
    BY DEF Buildable
  <1>2. BuiltInv
    BY <1>1, PrimitiveRespectsLevel DEF BuiltInv
  <1>3. resource \in [Resources -> [isolation : IsolationLevel, primitive : Primitive,
                                    home : Channels]]
    BY PrimitiveRespectsLevel DEF Buildable, Hint
  <1>4. Anywhere \in Annotations
    BY DEF Anywhere, Annotations, AnnotationRecord
  <1>5. TypeOK
    BY <1>3, <1>4 DEF TypeOK
  <1>6. OnePlace
    BY DEF OnePlace, Held
  <1>7. PlacedInv /\ ContextInv /\ LatchInv /\ ReadInv
    BY DEF PlacedInv, ContextInv, ContextAt, LatchInv, LatchHolder, ReadInv, Allowed, Inside
  <1>8. VersionInv
    BY DEF VersionInv, VersionHolder, Inside, IsLocked
  <1>9. QED BY <1>2, <1>5, <1>6, <1>7, <1>8 DEF IInv

(* Taking a latch leaves the latches a function to sets of channels. *)
LEMMA TakenLatch ==
    ASSUME NEW f \in [Resources -> SUBSET Channels], NEW r \in Resources, NEW c \in Channels
    PROVE  [f EXCEPT ![r] = {c}] \in [Resources -> SUBSET Channels]
  OBVIOUS

(* No step of the scheduler or of a worker leaves the types. *)
LEMMA TypeStep == TypeOK /\ ContextInv /\ [Next]_vars => TypeOK'
  <1> SUFFICES ASSUME TypeOK, ContextInv, [Next]_vars PROVE TypeOK'
    OBVIOUS
  <1> USE TaskingAssumption DEF TypeOK, workerVars, latchVars, taskVars, Goto
  <1>0. Anywhere \in Annotations
    BY DEF Anywhere, Annotations, AnnotationRecord
  <1>1. \A r \in Resources : resource[r].home \in Channels
    OBVIOUS
  <1>2. \A a \in Annotations : /\ a.resource \in Resources \cup {Nil}
                               /\ a.channel \in Channels \cup {Nil}
                               /\ a.readonly \in BOOLEAN
    BY DEF Annotations, AnnotationRecord
  <1>3. \A c \in Channels, a \in Annotations : TargetFrom(c, a) \in Channels
    BY <1>1, <1>2 DEF TargetFrom
  <1>4. ASSUME NEW t \in Tasks, NEW a \in Annotations, SpawnOutside(t, a)
        PROVE  TypeOK'
    BY <1>1, <1>2, <1>4 DEF SpawnOutside, Enqueue, CountSpawn
  <1>5. ASSUME NEW c \in Channels, NEW t \in Tasks, NEW a \in Annotations, SpawnInTask(c, t, a)
        PROVE  TypeOK'
    <2>1. TargetFrom(c, a) \in Channels
      BY <1>3
    <2>2. channel' \in [Channels -> SUBSET Tasks]
      BY <1>5, <2>1 DEF SpawnInTask, Enqueue
    <2>3. QED BY <1>5, <2>2 DEF SpawnInTask, CountSpawn
  <1>6. ASSUME NEW c \in Channels, NEW t \in Tasks, NextTask(c, t)
        PROVE  TypeOK'
    <2>1. \A k : Entry(k) \in {"run", "version", "acquire"}
      BY DEF Entry
    <2>2. ContextFor(c, annotation[t]) \in {"plain", "exclusive", "shared", "unique",
                                             "optimistic", "olfit", "read"}
      BY <1>2 DEF ContextFor, Primitive
    <2>3. QED
      BY <1>2, <1>6, <2>1, <2>2 DEF NextTask, MarkOverlaps
  <1>7. ASSUME NEW c \in Channels, Acquire(c)
        PROVE  TypeOK'
    <2>0. on[c] \in Resources
      BY <1>7 DEF Acquire, ContextInv, ContextAt
    <2>1. overlapped' \in [Channels -> BOOLEAN]
      BY <1>7 DEF Acquire, MarkOverlaps
    <2>2. /\ exclusive' = exclusive \/ exclusive' = [exclusive EXCEPT ![on[c]] = {c}]
          /\ shared' = shared \/ shared' = [shared EXCEPT ![on[c]] = @ \cup {c}]
          /\ unique' = unique \/ unique' = [unique EXCEPT ![on[c]] = {c}]
      BY <1>7, <2>0 DEF Acquire
    <2>a. exclusive' \in [Resources -> SUBSET Channels]
      BY <2>0, <2>2, TakenLatch, SMTT(120)
    <2>b. shared' \in [Resources -> SUBSET Channels]
      BY <2>0, <2>2
    <2>c. unique' \in [Resources -> SUBSET Channels]
      BY <2>0, <2>2, TakenLatch, SMTT(120)
    <2>3. version' \in [Resources -> Nat]
      BY <1>7, <2>0 DEF Acquire
    <2>4. pc' \in [Channels -> {"next", "acquire", "version", "run", "release",
                                "validate", "finish"}]
      BY <1>7 DEF Acquire
    <2>5. UNCHANGED <<resource, current, context, on, writing, seen, stack, result, taskVars>>
      BY <1>7 DEF Acquire
    <2>6. QED BY <2>1, <2>a, <2>b, <2>c, <2>3, <2>4, <2>5
  <1>8. ASSUME NEW c \in Channels, ReadVersion(c), on[c] # Nil
        PROVE  TypeOK'
    <2>1. seen' \in [Channels -> Nat]
      BY <1>8 DEF ReadVersion
    <2>2. overlapped' \in [Channels -> BOOLEAN]
      BY <1>8 DEF ReadVersion
    <2>3. QED BY <1>8, <2>1, <2>2 DEF ReadVersion
  <1>9. ASSUME NEW c \in Channels, NEW a \in Annotations, NEW s \in Tasks \cup {Nil},
               Return(c, a, s)
        PROVE  TypeOK'
    <2>1. annotation' \in [Tasks -> Annotations] /\ spawned' \in 0 .. SpawnBound
      BY <1>9 DEF Return, CountSpawn
    <2>2. pc' \in [Channels -> {"next", "acquire", "version", "run", "release",
                                "validate", "finish"}]
      BY <1>9 DEF Return
    <2>3. QED BY <1>9, <2>1, <2>2 DEF Return
  <1>10. ASSUME NEW c \in Channels, Release(c)
         PROVE  TypeOK'
    <2>0. on[c] \in Resources
      BY <1>10 DEF Release, ContextInv, ContextAt
    <2>1. version' \in [Resources -> Nat]
      BY <1>10, <2>0 DEF Release
    <2>2. /\ exclusive' \in [Resources -> SUBSET Channels]
          /\ shared' \in [Resources -> SUBSET Channels]
          /\ unique' \in [Resources -> SUBSET Channels]
      BY <1>10 DEF Release
    <2>3. QED BY <1>10, <2>1, <2>2 DEF Release
  <1>11. ASSUME NEW c \in Channels, Reject(c)
         PROVE  TypeOK'
    BY <1>11 DEF Reject
  <1>12. ASSUME NEW c \in Channels, Accept(c)
         PROVE  TypeOK'
    BY <1>12 DEF Accept
  <1>13. ASSUME NEW c \in Channels, Finish(c)
         PROVE  TypeOK'
    <2>0. current[c] \in Tasks
      BY <1>13 DEF Finish, ContextInv, ContextAt
    <2>1. channel' \in [Channels -> SUBSET Tasks]
      <3>1. CASE result[c] = Nil
        BY <1>13, <3>1 DEF Finish
      <3>2. CASE result[c] # Nil
        <4>1. result[c] \in Tasks
          BY <3>2
        <4>2. TargetFrom(c, annotation[result[c]]) \in Channels
          BY <1>3, <4>1
        <4>3. channel' = [channel EXCEPT ![TargetFrom(c, annotation[result[c]])]
                              = @ \cup {result[c]}]
          BY <1>13, <3>2 DEF Finish, Enqueue
        <4>4. QED BY <4>1, <4>2, <4>3
      <3>3. QED BY <3>1, <3>2
    <2>2. outside' \in SUBSET Tasks
      BY <1>13, <2>0 DEF Finish
    <2>3. QED BY <1>0, <1>13, <2>1, <2>2 DEF Finish
  <1>14. CASE UNCHANGED vars
    BY <1>14 DEF vars
  <1>15. \A c \in Channels : ReadVersion(c) => on[c] # Nil
    BY DEF ReadVersion, ContextInv, ContextAt
  <1>16. QED
    BY <1>4, <1>5, <1>6, <1>7, <1>8, <1>9, <1>10, <1>11, <1>12, <1>13, <1>14, <1>15
    DEF Next, Worker

(* The scheduler only puts a task where its object may be accessed. *)
LEMMA TargetAllowed ==
    ASSUME TypeOK, NEW c \in Channels, NEW a \in Annotations
    PROVE  /\ TargetFrom(c, a) \in Channels
           /\ Allowed(TargetFrom(c, a), a.resource, ~a.readonly)
  <1> USE TaskingAssumption
  <1>1. /\ a.resource \in Resources \cup {Nil}
        /\ a.channel \in Channels \cup {Nil}
        /\ a.readonly \in BOOLEAN
    BY DEF Annotations, AnnotationRecord
  <1>2. \A r \in Resources : resource[r].home \in Channels
    BY DEF TypeOK
  <1>3. QED
    BY <1>1, <1>2 DEF TargetFrom, KeepTaskLocal, Allowed

(* What the steps preserve besides the types. *)
SInv == BuiltInv /\ OnePlace /\ PlacedInv /\ ContextInv /\ LatchInv /\ VersionInv /\ ReadInv

(* A worker goes on with its task in the context it has. *)
LEMMA ContextsKept ==
    ASSUME BuiltInv, ContextInv, NEW c \in Channels,
           UNCHANGED <<resource, current, context, on, writing>>,
           \A d \in Channels : d # c => pc'[d] = pc[d] /\ result'[d] = result[d],
           pc[c] # "next", pc'[c] # "next",
           pc'[c] \in {"acquire", "version", "run"} => result'[c] = Nil,
           pc'[c] \in {"acquire", "release"}
               => context[c] \in {"exclusive", "shared", "unique", "optimistic", "olfit"},
           pc'[c] \in {"version", "validate"} => context[c] = "read"
    PROVE  BuiltInv' /\ ContextInv'
  <1>1. BuiltInv'
    BY DEF BuiltInv
  <1>2. ASSUME NEW d \in Channels PROVE ContextAt(d)'
    <2>1. ContextAt(d)
      BY DEF ContextInv
    <2>2. CASE d # c
      BY <2>1, <2>2, SMTT(120) DEF ContextAt, Allowed
    <2>3. CASE d = c
      BY <2>1, <2>3, SMTT(120) DEF ContextAt, Allowed
    <2>4. QED BY <2>2, <2>3
  <1>3. QED BY <1>1, <1>2 DEF ContextInv

(* A task spawned into a channel it may be executed at. *)
LEMMA SpawnSInv ==
    ASSUME IInv, NEW t \in Tasks, NEW a \in Annotations, NEW q \in Channels,
           t \in outside, Allowed(q, a.resource, ~a.readonly),
           outside' = outside \ {t},
           annotation' = [annotation EXCEPT ![t] = a],
           Enqueue(t, q),
           UNCHANGED <<resource, workerVars, latchVars>>
    PROVE  SInv'
  <1> USE TaskingAssumption
  <1> TypeOK /\ SInv
    BY DEF IInv, SInv
  <1> USE DEF SInv
  <1>1. BuiltInv' /\ ContextInv'
    BY DEF workerVars, BuiltInv, ContextInv, ContextAt, Allowed
  <1>a. LatchInv' /\ VersionInv' /\ ReadInv'
    <2>1. UNCHANGED <<pc, context, on, seen, overlapped, exclusive, shared, unique, version>>
      BY DEF workerVars, latchVars
    <2>2. LatchInv'
      <3>1. \A c \in Channels, r \in Resources, k \in {"exclusive", "shared", "unique"} :
               LatchHolder(c, r, k)' <=> LatchHolder(c, r, k)
        BY <2>1 DEF LatchHolder, Inside
      <3>2. QED BY <2>1, <3>1, SMTT(120) DEF LatchInv
    <2>3. VersionInv'
      BY <2>1, SMTT(120) DEF VersionInv, Inside, VersionHolder
    <2>4. ReadInv'
      BY <2>1, SMTT(120) DEF ReadInv
    <2>5. QED BY <2>2, <2>3, <2>4
  <1>2. \A c \in Channels, u \in Tasks : u \in Held(c)' <=> u \in Held(c)
    BY DEF Held, workerVars
  <1>3. \A c \in Channels : \A u : u \in channel'[c] <=> u \in channel[c] \/ (c = q /\ u = t)
    BY DEF Enqueue, TypeOK
  <1>4. \A c \in Channels : t \notin channel[c] /\ t \notin Held(c)
    BY DEF OnePlace
  <1>5. OnePlace'
    <2>1. \A u \in Tasks : u \in outside' <=> u \in outside /\ u # t
      OBVIOUS
    <2>2. QED BY <1>2, <1>3, <1>4, <2>1 DEF OnePlace
  <1>6. PlacedInv'
    <2> SUFFICES ASSUME NEW c \in Channels, NEW u \in channel'[c]
                 PROVE  Allowed(c, annotation[u].resource, ~annotation[u].readonly)'
      BY DEF PlacedInv
    <2>0. u \in Tasks
      BY <1>3 DEF TypeOK
    <2>1. CASE u = t
      BY <2>1, <1>3, <1>4 DEF Allowed, TypeOK
    <2>2. CASE u # t
      BY <2>0, <2>2, <1>3, SMTT(120) DEF PlacedInv, Allowed, TypeOK
    <2>3. QED BY <2>1, <2>2
  <1>7. QED BY <1>1, <1>a, <1>5, <1>6

(* Worker::execute takes its next task: the task moves from channel to       *)
(* worker.                                                                   *)
LEMMA NextTaskSInv ==
    ASSUME IInv, NEW c \in Channels, NEW t \in Tasks, NextTask(c, t)
    PROVE  SInv'
  <1> USE TaskingAssumption DEF IInv
  <1> DEFINE a == annotation[t]
             k == ContextFor(c, a)
  <1>1. /\ a.resource \in Resources \cup {Nil}
        /\ a.readonly \in BOOLEAN
        /\ a.resource = Nil => ~a.readonly
    BY DEF TypeOK, Annotations, AnnotationRecord
  <1>2. /\ pc[c] = "next"
        /\ t \in channel[c]
        /\ channel' = [channel EXCEPT ![c] = @ \ {t}]
        /\ pc' = [pc EXCEPT ![c] = Entry(k)]
        /\ current' = [current EXCEPT ![c] = t]
        /\ context' = [context EXCEPT ![c] = k]
        /\ on' = [on EXCEPT ![c] = a.resource]
        /\ writing' = [writing EXCEPT ![c] = ~a.readonly]
        /\ MarkOverlaps(a.resource, k = "plain" /\ ~a.readonly)
        /\ UNCHANGED <<resource, seen, result, latchVars, annotation, outside>>
    BY DEF NextTask
  <1>3. BuiltInv'
    BY <1>2 DEF BuiltInv
  <1>4. PlacedInv'
    <2>1. \A d \in Channels : channel'[d] \subseteq channel[d]
      BY <1>2 DEF TypeOK
    <2>2. UNCHANGED <<resource, annotation>>
      BY <1>2
    <2>3. QED BY <2>1, <2>2, SMTT(120) DEF PlacedInv, Allowed
  <1>5. Allowed(c, a.resource, ~a.readonly)
    BY <1>2 DEF PlacedInv
  <1>6. ContextInv'
    <2>1. \A d \in Channels : d # c =>
             /\ pc'[d] = pc[d] /\ context'[d] = context[d] /\ current'[d] = current[d]
             /\ on'[d] = on[d] /\ writing'[d] = writing[d]
      BY <1>2 DEF TypeOK
    <2>a. result' = result /\ result[c] = Nil
      BY <1>2 DEF ContextInv, ContextAt
    <2>2. /\ pc'[c] = Entry(k) /\ context'[c] = k /\ current'[c] = t
          /\ on'[c] = a.resource /\ writing'[c] = ~a.readonly
      BY <1>2 DEF TypeOK
    <2>3. /\ k \in {"plain", "exclusive", "shared", "unique", "optimistic", "olfit", "read"}
          /\ a.resource = Nil => k = "plain"
          /\ a.resource # Nil =>
              /\ resource[a.resource].primitive = "ExclusiveLatch" => k = "exclusive"
              /\ resource[a.resource].primitive = "ReaderWriterLatch"
                    => k = (IF ~a.readonly THEN "unique" ELSE "shared")
              /\ resource[a.resource].primitive = "ScheduleWriter"
                    => k = (IF ~a.readonly THEN "optimistic"
                            ELSE IF c # resource[a.resource].home THEN "read" ELSE "plain")
              /\ resource[a.resource].primitive = "OLFIT"
                    => k = (IF ~a.readonly THEN "olfit" ELSE "read")
              /\ resource[a.resource].primitive \in {"None", "ScheduleAll"} => k = "plain"
      BY <1>1 DEF TypeOK, ContextFor, Primitive
    <2>4. /\ Entry(k) \in {"run", "version", "acquire"}
          /\ Entry(k) = "version" => k = "read"
          /\ Entry(k) = "acquire" => k \notin {"plain", "read"}
      BY DEF Entry
    <2>5. resource' = resource
      BY <1>2
    <2> SUFFICES ASSUME NEW d \in Channels
                 PROVE  ContextAt(d)'
      BY DEF ContextInv
    <2>6. CASE d = c
      BY <2>6, <2>a, <2>2, <2>3, <2>4, <2>5, <1>5 DEF ContextAt, Allowed
    <2>7. CASE d # c
      BY <2>7, <2>a, <2>1, <2>5, SMTT(120) DEF ContextInv, ContextAt, Allowed
    <2>8. QED BY <2>6, <2>7
  <1>7. OnePlace'
    <2>1. \A d \in Channels : \A u : u \in channel'[d] <=> u \in channel[d] /\ ~(d = c /\ u = t)
      BY <1>2 DEF TypeOK
    <2>2. \A d \in Channels, u \in Tasks : u \in Held(d)' <=> u \in Held(d) \/ (d = c /\ u = t)
      BY <1>2 DEF Held, TypeOK, ContextInv, ContextAt
    <2>3. outside' = outside
      BY <1>2
    <2>4. QED BY <1>2, <2>1, <2>2, <2>3, SMTT(120) DEF OnePlace
  <1>8. \A d \in Channels, r \in Resources, m \in {"exclusive", "shared", "unique", "optimistic", "olfit"} :
           (Inside(d) /\ on[d] = r /\ context[d] = m)' <=> Inside(d) /\ on[d] = r /\ context[d] = m
    <2>1. \A d \in Channels : d # c =>
             pc'[d] = pc[d] /\ context'[d] = context[d] /\ on'[d] = on[d]
      BY <1>2 DEF TypeOK
    <2>2. pc'[c] = Entry(k) /\ context'[c] = k
      BY <1>2 DEF TypeOK
    <2>3. Entry(k) = "run" => k = "plain"
      BY DEF Entry
    <2>4. Entry(k) # "release"
      BY DEF Entry
    <2>5. QED BY <1>2, <2>1, <2>2, <2>3, <2>4 DEF Inside
  <1>9. LatchInv' /\ VersionInv'
    <2>1. UNCHANGED latchVars
      BY <1>2
    <2>2. QED BY <1>8, <2>1 DEF latchVars, LatchInv, LatchHolder, VersionInv, VersionHolder
  <1>10. ReadInv'
    <2>1. \A d \in Channels : d # c =>
             /\ pc'[d] = pc[d] /\ context'[d] = context[d] /\ on'[d] = on[d] /\ seen'[d] = seen[d]
      BY <1>2 DEF TypeOK
    <2>2. pc'[c] = Entry(k) /\ context'[c] = k
      BY <1>2 DEF TypeOK
    <2>3. k = "read" => Entry(k) = "version"
      BY DEF Entry
    <2>4. ASSUME NEW d \in ReadersOf(a.resource), k = "plain", ~a.readonly
          PROVE  FALSE
      <3>1. on[d] # Nil /\ on[d] = a.resource /\ context[d] = "read" /\ d \in Channels
        BY <2>4 DEF ReadersOf, ContextInv, ContextAt
      <3>2. resource[on[d]].primitive \in {"ScheduleWriter", "OLFIT"}
        BY <3>1 DEF ContextInv, ContextAt, TypeOK, Primitive
      <3>3. QED BY <2>4, <3>1, <3>2 DEF ContextFor
    <2>5. \A d \in Channels : overlapped'[d] = overlapped[d]
      BY <1>2, <2>4 DEF MarkOverlaps, TypeOK
    <2>6. version' = version
      BY <1>2 DEF latchVars
    <2>7. QED BY <2>1, <2>2, <2>3, <2>5, <2>6 DEF ReadInv
  <1>11. QED BY <1>3, <1>4, <1>6, <1>7, <1>9, <1>10 DEF SInv

(* Steps that leave the channels and the tasks alone. *)
LEMMA TasksUnchanged ==
    ASSUME TypeOK, OnePlace, PlacedInv,
           UNCHANGED <<resource, current, result, annotation, channel, outside>>
    PROVE  OnePlace' /\ PlacedInv'
  BY DEF OnePlace, PlacedInv, Held, Allowed

(* A latch or lock of r belongs to workers whose context fits its primitive. *)
LEMMA ContextTellsPrimitive ==
    ASSUME TypeOK, ContextInv, NEW c \in Channels, on[c] # Nil
    PROVE  /\ on[c] \in Resources
           /\ context[c] = "exclusive" => resource[on[c]].primitive = "ExclusiveLatch"
           /\ context[c] \in {"shared", "unique"}
                 => resource[on[c]].primitive = "ReaderWriterLatch"
           /\ context[c] = "optimistic" => resource[on[c]].primitive = "ScheduleWriter"
           /\ context[c] = "olfit" => resource[on[c]].primitive = "OLFIT"
           /\ context[c] = "read" => resource[on[c]].primitive \in {"ScheduleWriter", "OLFIT"}
           /\ context[c] \in {"optimistic", "olfit", "unique"} => writing[c]
           /\ context[c] \in {"read", "shared"} => ~writing[c]
  <1>1. on[c] \in Resources /\ resource[on[c]].primitive \in Primitive
    BY DEF TypeOK
  <1>2. QED BY <1>1 DEF ContextInv, ContextAt, Primitive

(* Adding two to a version turns its lock bit over (OptimisticLock::lock,    *)
(* unlock).                                                                  *)
LEMMA LockedToggles == \A v \in Nat : IsLocked(v + 2) <=> ~IsLocked(v)
  BY DEF IsLocked

(* Taking the latch the primitive asks for lets no two workers in that       *)
(* exclude each other.                                                       *)
LEMMA AcquireSInv ==
    ASSUME IInv, NEW c \in Channels, Acquire(c)
    PROVE  SInv'
  <1> DEFINE r == on[c]
  <1> USE TaskingAssumption
  <1> TypeOK /\ SInv
    BY DEF IInv, SInv
  <1> USE DEF SInv
  <1>1. /\ pc[c] = "acquire"
        /\ pc' = [pc EXCEPT ![c] = "run"]
        /\ MarkOverlaps(r, writing[c])
        /\ UNCHANGED <<resource, current, context, on, writing, seen, stack, result, taskVars>>
    BY DEF Acquire, Goto
  <1>2. OnePlace' /\ PlacedInv'
    <2>1. UNCHANGED <<resource, current, result, annotation, channel, outside>>
      BY <1>1 DEF taskVars
    <2>2. QED BY <2>1, TasksUnchanged
  <1>3. BuiltInv' /\ ContextInv'
    <2>1. pc'[c] = "run" /\ \A d \in Channels : d # c => pc'[d] = pc[d]
      BY <1>1 DEF TypeOK
    <2>2. result'[c] = Nil
      BY <1>1 DEF ContextInv, ContextAt
    <2>3. QED BY <1>1, <2>1, <2>2, ContextsKept
  <1>4. r # Nil
    BY <1>1 DEF ContextInv, ContextAt
  <1>5. r \in Resources
    BY <1>4 DEF TypeOK
  <1>6. \A d \in Channels : Inside(d)' <=> Inside(d) \/ d = c
    BY <1>1 DEF Inside, TypeOK
  <1>7. ~Inside(c)
    BY <1>1 DEF Inside
  <1>8. \A d \in Channels : on[d] = r =>
           /\ context[d] = "exclusive" => resource[r].primitive = "ExclusiveLatch"
           /\ context[d] \in {"shared", "unique"} => resource[r].primitive = "ReaderWriterLatch"
           /\ context[d] = "optimistic" => resource[r].primitive = "ScheduleWriter"
           /\ context[d] = "olfit" => resource[r].primitive = "OLFIT"
           /\ context[d] = "read" => resource[r].primitive \in {"ScheduleWriter", "OLFIT"}
           /\ context[d] \in {"optimistic", "olfit"} => writing[d]
    BY <1>4, ContextTellsPrimitive
  <1>9. LatchInv'
    <2>0. \A d \in Channels, q \in Resources, k \in {"exclusive", "shared", "unique"} :
             LatchHolder(d, q, k)'
                 <=> LatchHolder(d, q, k) \/ (d = c /\ q = r /\ k = context[c])
      BY <1>1, <1>6, <1>7 DEF LatchHolder
    <2>1. CASE context[c] = "exclusive"
      <3>1. /\ exclusive[r] = {}
            /\ exclusive' = [exclusive EXCEPT ![r] = {c}]
            /\ UNCHANGED <<shared, unique>>
        BY <2>1 DEF Acquire
      <3>2. \A q \in Resources, d \in Channels :
               d \in exclusive'[q] <=> d \in exclusive[q] \/ (q = r /\ d = c)
        BY <1>5, <3>1 DEF TypeOK
      <3>3. QED BY <2>0, <2>1, <3>1, <3>2, SMTT(120) DEF LatchInv
    <2>2. CASE context[c] = "shared"
      <3>1. /\ unique[r] = {}
            /\ shared' = [shared EXCEPT ![r] = @ \cup {c}]
            /\ UNCHANGED <<exclusive, unique>>
        BY <2>2 DEF Acquire
      <3>2. \A q \in Resources, d \in Channels :
               d \in shared'[q] <=> d \in shared[q] \/ (q = r /\ d = c)
        BY <1>5, <3>1 DEF TypeOK
      <3>3. QED BY <2>0, <2>2, <3>1, <3>2, SMTT(120) DEF LatchInv
    <2>3. CASE context[c] = "unique"
      <3>1. /\ unique[r] = {} /\ shared[r] = {}
            /\ unique' = [unique EXCEPT ![r] = {c}]
            /\ UNCHANGED <<exclusive, shared>>
        BY <2>3 DEF Acquire
      <3>2. \A q \in Resources, d \in Channels :
               d \in unique'[q] <=> d \in unique[q] \/ (q = r /\ d = c)
        BY <1>5, <3>1 DEF TypeOK
      <3>3. QED BY <2>0, <2>3, <3>1, <3>2, SMTT(120) DEF LatchInv
    <2>4. CASE context[c] \in {"optimistic", "olfit"}
      <3>1. UNCHANGED <<exclusive, shared, unique>>
        BY <2>4 DEF Acquire
      <3>2. QED BY <2>0, <2>4, <3>1, SMTT(120) DEF LatchInv
    <2>5. QED BY <2>1, <2>2, <2>3, <2>4, <1>1 DEF ContextInv, ContextAt
  <1>10. CASE context[c] \in {"exclusive", "shared", "unique"}
    <2>1. version' = version
      BY <1>10 DEF Acquire
    <2>2. VersionInv'
      BY <1>1, <1>6, <1>7, <1>10, <2>1 DEF VersionInv, VersionHolder
    <2>3. \A d \in ReadersOf(r) : FALSE
      BY <1>8, <1>10 DEF ReadersOf
    <2>4. \A d \in Channels : overlapped'[d] = overlapped[d]
      BY <1>1, <2>3 DEF MarkOverlaps, TypeOK
    <2>5. ReadInv'
      BY <1>1, <1>10, <2>1, <2>4 DEF ReadInv, TypeOK
    <2>6. QED BY <1>2, <1>3, <1>9, <2>2, <2>5
  <1>11. CASE context[c] \in {"optimistic", "olfit"}
    <2>1. version' = [version EXCEPT ![r] = version[r] + 2]
      BY <1>11 DEF Acquire
    <2>2. \A d \in Channels : ~VersionHolder(d, r)
      <3>1. CASE context[c] = "optimistic"
        <4>1. \A d \in Channels : VersionHolder(d, r) => d = resource[r].home
          BY <1>4, <1>8, <3>1 DEF VersionHolder, ContextInv, ContextAt, Allowed
        <4>2. c = resource[r].home
          BY <1>4, <1>8, <3>1 DEF ContextInv, ContextAt, Allowed
        <4>3. QED BY <1>7, <4>1, <4>2 DEF VersionHolder
      <3>2. CASE context[c] = "olfit"
        <4>1. ~IsLocked(version[r])
          BY <3>2 DEF Acquire
        <4>2. QED BY <1>5, <4>1 DEF VersionInv
      <3>3. QED BY <1>11, <3>1, <3>2
    <2>3. ~IsLocked(version[r]) /\ IsLocked(version'[r])
      BY <1>5, <2>1, <2>2, LockedToggles DEF VersionInv, TypeOK
    <2>4. \A q \in Resources : q # r => version'[q] = version[q]
      BY <1>5, <2>1 DEF TypeOK
    <2>5. \A q \in Resources, d \in Channels :
             VersionHolder(d, q)' <=> VersionHolder(d, q) \/ (d = c /\ q = r)
      BY <1>1, <1>6, <1>7, <1>11 DEF VersionHolder
    <2>6. VersionInv'
      BY <1>5, <2>2, <2>3, <2>4, <2>5 DEF VersionInv
    <2>7. \A d \in Channels : d # c => pc'[d] = pc[d]
      BY <1>1 DEF TypeOK
    <2>8. \A d \in Channels : overlapped'[d] <=>
             overlapped[d] \/ (writing[c] /\ d \in ReadersOf(r))
      BY <1>1 DEF MarkOverlaps, TypeOK
    <2>9. ReadInv'
      <3> SUFFICES ASSUME NEW d \in Channels, context[d] = "read"
                   PROVE  /\ pc'[d] \in {"run", "validate"} =>
                              /\ seen[d] <= version'[on[d]]
                              /\ overlapped'[d] => seen[d] < version'[on[d]]
                          /\ pc'[d] = "finish" => ~overlapped'[d]
        BY <1>1 DEF ReadInv
      <3>1. d # c /\ pc'[d] = pc[d]
        BY <1>11, <2>7
      <3>2. on[d] \in Resources
        BY DEF TypeOK, ContextInv, ContextAt
      <3>3. seen[d] \in Nat /\ version[on[d]] \in Nat
        BY <3>2 DEF TypeOK
      <3>4. CASE on[d] = r
        BY <1>5, <2>1, <2>8, <3>1, <3>2, <3>3, <3>4, SMTT(120) DEF ReadInv, ReadersOf, TypeOK
      <3>5. CASE on[d] # r
        BY <2>4, <2>8, <3>1, <3>2, <3>3, <3>5 DEF ReadInv, ReadersOf
      <3>6. QED BY <3>4, <3>5
    <2>10. QED BY <1>2, <1>3, <1>9, <2>6, <2>9
  <1>12. QED BY <1>1, <1>10, <1>11 DEF ContextInv, ContextAt

(* The latches and versions do not change, and no worker enters or leaves. *)
LEMMA LatchesUnchanged ==
    ASSUME LatchInv, VersionInv, UNCHANGED <<latchVars, context, on>>,
           \A d \in Channels :
               context[d] \in {"exclusive", "shared", "unique", "optimistic", "olfit"}
                   => (Inside(d)' <=> Inside(d))
    PROVE  LatchInv' /\ VersionInv'
  <1>1. UNCHANGED <<exclusive, shared, unique, version, context, on>>
    BY DEF latchVars
  <1>2. LatchInv'
    <2>1. \A d \in Channels, r \in Resources, k \in {"exclusive", "shared", "unique"} :
             LatchHolder(d, r, k)' <=> LatchHolder(d, r, k)
      BY <1>1 DEF LatchHolder
    <2>2. QED BY <1>1, <2>1, SMTT(120) DEF LatchInv
  <1>3. \A d \in Channels, r \in Resources : VersionHolder(d, r)' <=> VersionHolder(d, r)
    BY <1>1 DEF VersionHolder
  <1>4. VersionInv'
    BY <1>1, <1>3 DEF VersionInv
  <1>5. QED BY <1>2, <1>4

(* The version an optimistic reader starts from is that of the object now. *)
LEMMA ReadVersionSInv ==
    ASSUME IInv, NEW c \in Channels, ReadVersion(c)
    PROVE  SInv'
  <1> USE TaskingAssumption
  <1> TypeOK /\ SInv
    BY DEF IInv, SInv
  <1> USE DEF SInv
  <1>1. /\ pc[c] = "version"
        /\ pc' = [pc EXCEPT ![c] = "run"]
        /\ ~IsLocked(version[on[c]])
        /\ seen' = [seen EXCEPT ![c] = version[on[c]]]
        /\ overlapped' = [overlapped EXCEPT ![c] =
                \E d \in Channels : pc[d] = "run" /\ on[d] = on[c] /\ writing[d]]
        /\ UNCHANGED <<resource, current, context, on, writing, result, latchVars, taskVars>>
    BY DEF ReadVersion, Goto
  <1>2. context[c] = "read" /\ on[c] # Nil
    BY <1>1 DEF ContextInv, ContextAt
  <1>3. OnePlace' /\ PlacedInv'
    <2>1. UNCHANGED <<resource, current, result, annotation, channel, outside>>
      BY <1>1 DEF taskVars
    <2>2. QED BY <2>1, TasksUnchanged
  <1>4. BuiltInv' /\ ContextInv'
    <2>1. pc'[c] = "run" /\ \A d \in Channels : d # c => pc'[d] = pc[d]
      BY <1>1 DEF TypeOK
    <2>2. result'[c] = Nil
      BY <1>1 DEF ContextInv, ContextAt
    <2>3. QED BY <1>1, <2>1, <2>2, ContextsKept
  <1>5. LatchInv' /\ VersionInv'
    <2>1. UNCHANGED <<latchVars, context, on>>
      BY <1>1
    <2>2. \A d \in Channels : d # c => (Inside(d)' <=> Inside(d))
      BY <1>1 DEF Inside, TypeOK
    <2>3. QED BY <1>2, <2>1, <2>2, LatchesUnchanged
  <1>6. ReadInv'
    <2>1. /\ on[c] \in Resources
          /\ resource[on[c]].primitive \in {"ScheduleWriter", "OLFIT"}
      BY <1>2, ContextTellsPrimitive
    <2>2. ASSUME NEW d \in Channels, pc[d] = "run", on[d] = on[c], writing[d]
          PROVE  FALSE
      <3>1. context[d] \in {"optimistic", "olfit"}
        BY <1>2, <2>1, <2>2 DEF ContextInv, ContextAt
      <3>2. VersionHolder(d, on[c])
        BY <2>2, <3>1 DEF VersionHolder, Inside
      <3>3. QED BY <1>1, <2>1, <3>2 DEF VersionInv
    <2>3. overlapped'[c] = FALSE
      BY <1>1, <2>2 DEF TypeOK
    <2>4. seen'[c] = version[on[c]] /\ version[on[c]] \in Nat /\ pc'[c] = "run"
      BY <1>1, <2>1 DEF TypeOK
    <2>5. \A d \in Channels : d # c =>
             pc'[d] = pc[d] /\ seen'[d] = seen[d] /\ overlapped'[d] = overlapped[d]
      BY <1>1 DEF TypeOK
    <2>6. UNCHANGED <<context, on, version>>
      BY <1>1 DEF latchVars
    <2>7. QED BY <2>3, <2>4, <2>5, <2>6 DEF ReadInv
  <1>7. QED BY <1>3, <1>4, <1>5, <1>6

(* The task returns: its successor, if any, is a task in no other place. *)
LEMMA ReturnSInv ==
    ASSUME IInv, NEW c \in Channels, NEW a \in Annotations, NEW s \in Tasks \cup {Nil},
           Return(c, a, s)
    PROVE  SInv'
  <1> USE TaskingAssumption
  <1> TypeOK /\ SInv
    BY DEF IInv, SInv
  <1> USE DEF SInv
  <1>1. /\ pc[c] = "run"
        /\ s \in {Nil, current[c]} \cup outside
        /\ annotation' = annotation \/ (s # Nil /\ annotation' = [annotation EXCEPT ![s] = a])
        /\ outside' = outside \ {s}
        /\ result' = [result EXCEPT ![c] = s]
        /\ pc' = [pc EXCEPT ![c] = CASE context[c] = "plain" -> "finish"
                                     [] context[c] = "read"  -> "validate"
                                     [] OTHER                -> "release"]
        /\ UNCHANGED <<resource, current, context, on, writing, seen, overlapped,
                       latchVars, channel>>
    BY DEF Return
  <1>2. /\ pc'[c] \in {"finish", "validate", "release"}
        /\ pc'[c] = "finish" <=> context[c] = "plain"
        /\ pc'[c] = "validate" <=> context[c] = "read"
    BY <1>1 DEF TypeOK
  <1>3. \A d \in Channels : d # c => pc'[d] = pc[d] /\ result'[d] = result[d]
    BY <1>1 DEF TypeOK
  <1>4. current[c] \in Tasks /\ result[c] = Nil /\ result'[c] = s
    BY <1>1 DEF ContextInv, ContextAt, TypeOK
  <1>5. OnePlace'
    <2>1. \A d \in Channels, u \in Tasks :
             u \in Held(d)' <=> u \in Held(d) \/ (d = c /\ u = s)
      BY <1>1, <1>3, <1>4 DEF Held
    <2>2. s # Nil => s = current[c] \/ s \in outside
      BY <1>1
    <2>3. \A u \in Tasks : u \in outside' <=> u \in outside /\ u # s
      BY <1>1
    <2>4. channel' = channel
      BY <1>1
    <2>5. current[c] \in Held(c) /\ current[c] \notin outside
      BY <1>4 DEF Held, OnePlace
    <2>6. QED BY <2>1, <2>2, <2>3, <2>4, <2>5 DEF OnePlace
  <1>6. PlacedInv'
    <2>1. \A d \in Channels : s \notin channel[d]
      <3>1. current[c] \in Held(c)
        BY <1>4 DEF Held
      <3>2. QED BY <1>1, <1>4, <3>1 DEF OnePlace, TypeOK
    <2>2. \A d \in Channels, u \in Tasks : u \in channel[d] => annotation'[u] = annotation[u]
      BY <1>1, <2>1 DEF TypeOK
    <2>3. QED BY <1>1, <2>2 DEF PlacedInv, Allowed, TypeOK
  <1>7. BuiltInv' /\ ContextInv'
    <2>1. BuiltInv'
      BY <1>1 DEF BuiltInv
    <2>2. ContextAt(c)'
      <3>1. context[c] \in {"plain", "exclusive", "shared", "unique", "optimistic", "olfit", "read"}
        BY DEF TypeOK
      <3>2. ContextAt(c)
        BY DEF ContextInv
      <3>3. QED BY <1>1, <1>2, <1>4, <3>1, <3>2 DEF ContextAt, Allowed
    <2>3. ASSUME NEW d \in Channels, d # c PROVE ContextAt(d)'
      <3>1. ContextAt(d)
        BY DEF ContextInv
      <3>2. QED BY <1>1, <1>3, <2>3, <3>1 DEF ContextAt, Allowed
    <2>4. QED BY <2>1, <2>2, <2>3 DEF ContextInv
  <1>8. LatchInv' /\ VersionInv'
    <2>1. UNCHANGED <<latchVars, context, on>>
      BY <1>1
    <2>2. \A d \in Channels :
             context[d] \in {"exclusive", "shared", "unique", "optimistic", "olfit"}
                 => (Inside(d)' <=> Inside(d))
      BY <1>1, <1>2, <1>3 DEF Inside
    <2>3. QED BY <2>1, <2>2, LatchesUnchanged
  <1>9. ReadInv'
    BY <1>1, <1>2, <1>3 DEF ReadInv, latchVars
  <1>10. QED BY <1>5, <1>6, <1>7, <1>8, <1>9

(* Leaving the scope of a latch gives back what this worker held, and no     *)
(* more.                                                                     *)
LEMMA ReleaseSInv ==
    ASSUME IInv, NEW c \in Channels, Release(c)
    PROVE  SInv'
  <1> DEFINE r == on[c]
             locks == context[c] \in {"optimistic", "olfit"}
  <1> USE TaskingAssumption
  <1> TypeOK /\ SInv
    BY DEF IInv, SInv
  <1> USE DEF SInv
  <1>1. /\ pc[c] = "release"
        /\ pc' = [pc EXCEPT ![c] = "finish"]
        /\ exclusive' = [exclusive EXCEPT ![r] = exclusive[r] \ {c}]
        /\ shared' = [shared EXCEPT ![r] = shared[r] \ {c}]
        /\ unique' = [unique EXCEPT ![r] = unique[r] \ {c}]
        /\ version' = [version EXCEPT ![r] = IF locks THEN version[r] + 2 ELSE version[r]]
        /\ UNCHANGED <<resource, current, context, on, writing, seen, result, overlapped,
                       taskVars>>
    BY DEF Release, Goto
  <1>2. OnePlace' /\ PlacedInv'
    <2>1. UNCHANGED <<resource, current, result, annotation, channel, outside>>
      BY <1>1 DEF taskVars
    <2>2. QED BY <2>1, TasksUnchanged
  <1>3. BuiltInv' /\ ContextInv'
    <2>1. pc'[c] = "finish" /\ \A d \in Channels : d # c => pc'[d] = pc[d]
      BY <1>1 DEF TypeOK
    <2>2. QED BY <1>1, <2>1, ContextsKept
  <1>4. r \in Resources /\ context[c] \notin {"plain", "read"}
    <2>1. ContextAt(c)
      BY DEF ContextInv
    <2>2. context[c] \in {"exclusive", "shared", "unique", "optimistic", "olfit"} /\ r # Nil
      BY <1>1, <2>1 DEF ContextAt
    <2>3. QED BY <2>2 DEF TypeOK
  <1>5. \A d \in Channels : Inside(d)' <=> Inside(d) /\ d # c
    BY <1>1 DEF Inside, TypeOK
  <1>6. \A d \in Channels : d # c => pc'[d] = pc[d]
    BY <1>1 DEF TypeOK
  <1>7. Inside(c)
    BY <1>1 DEF Inside
  <1>8. LatchInv'
    <2>1. \A q \in Resources, d \in Channels :
             /\ d \in exclusive'[q] <=> d \in exclusive[q] /\ ~(q = r /\ d = c)
             /\ d \in shared'[q] <=> d \in shared[q] /\ ~(q = r /\ d = c)
             /\ d \in unique'[q] <=> d \in unique[q] /\ ~(q = r /\ d = c)
      BY <1>1, <1>4 DEF TypeOK
    <2>2. \A q \in Resources, d \in Channels, k \in {"exclusive", "shared", "unique"} :
             LatchHolder(d, q, k)' <=> LatchHolder(d, q, k) /\ ~(q = r /\ d = c)
      BY <1>1, <1>5 DEF LatchHolder
    <2>3. QED BY <2>1, <2>2, SMTT(120) DEF LatchInv
  <1>9. \A q \in Resources : version'[q] = IF q = r /\ locks THEN version[q] + 2 ELSE version[q]
    BY <1>1, <1>4 DEF TypeOK
  <1>10. \A q \in Resources, d \in Channels :
            VersionHolder(d, q)' <=> VersionHolder(d, q) /\ d # c
    BY <1>1, <1>5 DEF VersionHolder
  <1>11. VersionInv'
    <2>1. CASE locks
      <3>1. VersionHolder(c, r)
        BY <1>7, <2>1 DEF VersionHolder
      <3>2. IsLocked(version[r]) /\ ~IsLocked(version[r] + 2)
        BY <1>4, <3>1, LockedToggles DEF VersionInv, TypeOK
      <3>3. \A q \in Resources : VersionHolder(c, q) => q = r
        BY DEF VersionHolder
      <3>4. QED BY <1>4, <1>9, <1>10, <2>1, <3>1, <3>2, <3>3, SMTT(120) DEF VersionInv
    <2>2. CASE ~locks
      <3>1. \A q \in Resources : ~VersionHolder(c, q)
        BY <2>2 DEF VersionHolder
      <3>2. QED BY <1>9, <1>10, <2>2, <3>1 DEF VersionInv
    <2>3. QED BY <2>1, <2>2
  <1>12. ReadInv'
    <2> SUFFICES ASSUME NEW d \in Channels, context[d] = "read"
                 PROVE  /\ pc'[d] \in {"run", "validate"} =>
                            /\ seen[d] <= version'[on[d]]
                            /\ overlapped[d] => seen[d] < version'[on[d]]
                        /\ pc'[d] = "finish" => ~overlapped[d]
      BY <1>1 DEF ReadInv
    <2>1. d # c /\ pc'[d] = pc[d]
      BY <1>4, <1>6
    <2>2. on[d] \in Resources
      BY DEF TypeOK, ContextInv, ContextAt
    <2>3. seen[d] \in Nat /\ version[on[d]] \in Nat /\ version'[on[d]] >= version[on[d]]
      BY <1>9, <2>2 DEF TypeOK
    <2>4. version'[on[d]] \in Nat
      BY <1>9, <2>2, <2>3
    <2>5. QED BY <2>1, <2>3, <2>4 DEF ReadInv
  <1>13. QED BY <1>2, <1>3, <1>8, <1>11, <1>12

(* A reader whose version is stale runs again from the saved task. *)
LEMMA RejectSInv ==
    ASSUME IInv, NEW c \in Channels, Reject(c)
    PROVE  SInv'
  <1> USE TaskingAssumption
  <1> TypeOK /\ SInv
    BY DEF IInv, SInv
  <1> USE DEF SInv
  <1>1. /\ pc[c] = "validate"
        /\ pc' = [pc EXCEPT ![c] = "version"]
        /\ annotation' = [annotation EXCEPT ![current[c]] = stack[c]]
        /\ outside' = outside \cup ({result[c]} \ {Nil, current[c]})
        /\ result' = [result EXCEPT ![c] = Nil]
        /\ UNCHANGED <<resource, current, context, on, writing, seen, overlapped,
                       channel, latchVars>>
    BY DEF Reject, Goto
  <1>2. context[c] = "read" /\ current[c] \in Tasks
    BY <1>1 DEF ContextInv, ContextAt, TypeOK
  <1>3. /\ pc'[c] = "version" /\ result'[c] = Nil
        /\ \A d \in Channels : d # c => pc'[d] = pc[d] /\ result'[d] = result[d]
    BY <1>1 DEF TypeOK
  <1>4. current[c] \in Held(c)
    BY <1>2 DEF Held
  <1>5. OnePlace'
    <2>1. \A d \in Channels, u \in Tasks :
             u \in Held(d)' <=> u \in Held(d) /\ (d = c => u = current[c])
      BY <1>1, <1>2, <1>3 DEF Held
    <2>2. \A u \in Tasks : u \in outside' <=>
             u \in outside \/ (u = result[c] /\ u # current[c])
      BY <1>1
    <2>3. \A u \in Tasks : u \in Held(c) <=> u = current[c] \/ u = result[c]
      BY DEF Held
    <2>4. channel' = channel
      BY <1>1
    <2>5. QED BY <1>4, <2>1, <2>2, <2>3, <2>4 DEF OnePlace
  <1>6. PlacedInv'
    <2>1. \A d \in Channels : current[c] \notin channel[d]
      BY <1>2, <1>4 DEF OnePlace
    <2>2. \A d \in Channels, u \in Tasks : u \in channel[d] => annotation'[u] = annotation[u]
      BY <1>1, <2>1 DEF TypeOK
    <2>3. UNCHANGED <<resource, channel>> /\ \A d \in Channels : channel[d] \subseteq Tasks
      BY <1>1 DEF TypeOK
    <2>4. QED BY <2>2, <2>3, SMTT(120) DEF PlacedInv, Allowed
  <1>7. BuiltInv' /\ ContextInv'
    BY <1>1, <1>2, <1>3, ContextsKept
  <1>8. LatchInv' /\ VersionInv'
    <2>1. UNCHANGED <<latchVars, context, on>>
      BY <1>1
    <2>2. \A d \in Channels : d # c => (Inside(d)' <=> Inside(d))
      BY <1>3 DEF Inside
    <2>3. QED BY <1>2, <2>1, <2>2, LatchesUnchanged
  <1>9. ReadInv'
    BY <1>1, <1>3 DEF ReadInv, latchVars
  <1>10. QED BY <1>5, <1>6, <1>7, <1>8, <1>9

(* A reader whose version is still valid has seen no writer. *)
LEMMA AcceptSInv ==
    ASSUME IInv, NEW c \in Channels, Accept(c)
    PROVE  SInv'
  <1> USE TaskingAssumption
  <1> TypeOK /\ SInv
    BY DEF IInv, SInv
  <1> USE DEF SInv
  <1>1. /\ pc[c] = "validate"
        /\ pc' = [pc EXCEPT ![c] = "finish"]
        /\ version[on[c]] = seen[c]
        /\ UNCHANGED <<resource, current, context, on, writing, seen, result, overlapped,
                       latchVars, taskVars>>
    BY DEF Accept, Goto
  <1>2. context[c] = "read"
    BY <1>1 DEF ContextInv, ContextAt
  <1>3. OnePlace' /\ PlacedInv'
    <2>1. UNCHANGED <<resource, current, result, annotation, channel, outside>>
      BY <1>1 DEF taskVars
    <2>2. QED BY <2>1, TasksUnchanged
  <1>5. pc'[c] = "finish" /\ \A d \in Channels : d # c => pc'[d] = pc[d]
    BY <1>1 DEF TypeOK
  <1>4. BuiltInv' /\ ContextInv'
    BY <1>1, <1>5, ContextsKept
  <1>6. LatchInv' /\ VersionInv'
    <2>1. UNCHANGED <<latchVars, context, on>>
      BY <1>1
    <2>2. \A d \in Channels : d # c => (Inside(d)' <=> Inside(d))
      BY <1>5 DEF Inside
    <2>3. QED BY <1>2, <2>1, <2>2, LatchesUnchanged
  <1>7. ReadInv'
    <2>1. seen[c] \in Nat
      BY DEF TypeOK
    <2>2. ~overlapped[c]
      BY <1>1, <1>2, <2>1 DEF ReadInv
    <2>3. QED BY <1>1, <1>5, <2>2 DEF ReadInv, latchVars
  <1>8. QED BY <1>3, <1>4, <1>6, <1>7

(* The successor is scheduled, the finished task is removed or kept by the   *)
(* application.                                                              *)
LEMMA FinishSInv ==
    ASSUME IInv, NEW c \in Channels, Finish(c)
    PROVE  SInv'
  <1> DEFINE s == result[c]
             q == TargetFrom(c, annotation[s])
  <1> USE TaskingAssumption
  <1> TypeOK /\ SInv
    BY DEF IInv, SInv
  <1> USE DEF SInv
  <1>1. /\ pc[c] = "finish"
        /\ IF s # Nil THEN Enqueue(s, q) ELSE UNCHANGED channel
        /\ outside' = IF s = current[c] THEN outside ELSE outside \cup {current[c]}
        /\ pc' = [pc EXCEPT ![c] = "next"]
        /\ current' = [current EXCEPT ![c] = Nil]
        /\ context' = [context EXCEPT ![c] = "plain"]
        /\ on' = [on EXCEPT ![c] = Nil]
        /\ writing' = [writing EXCEPT ![c] = FALSE]
        /\ seen' = [seen EXCEPT ![c] = 0]
        /\ result' = [result EXCEPT ![c] = Nil]
        /\ overlapped' = [overlapped EXCEPT ![c] = FALSE]
        /\ UNCHANGED <<resource, annotation, latchVars>>
    BY DEF Finish
  <1>2. current[c] \in Tasks /\ s \in Tasks \cup {Nil}
    <2>1. ContextAt(c)
      BY DEF ContextInv
    <2>2. QED BY <1>1, <2>1, SMTT(120) DEF ContextAt, TypeOK
  <1>3. \A d \in Channels : d # c =>
           /\ pc'[d] = pc[d] /\ current'[d] = current[d] /\ context'[d] = context[d]
           /\ on'[d] = on[d] /\ writing'[d] = writing[d] /\ seen'[d] = seen[d]
           /\ result'[d] = result[d] /\ overlapped'[d] = overlapped[d]
    BY <1>1 DEF TypeOK
  <1>4. /\ pc'[c] = "next" /\ current'[c] = Nil /\ context'[c] = "plain"
        /\ on'[c] = Nil /\ writing'[c] = FALSE /\ result'[c] = Nil
    BY <1>1 DEF TypeOK
  <1>5. s # Nil => q \in Channels /\ Allowed(q, annotation[s].resource, ~annotation[s].readonly)
    <2>1. s # Nil => annotation[s] \in Annotations
      BY <1>2 DEF TypeOK
    <2>2. QED BY <2>1, TargetAllowed
  <1>6. \A d \in Channels : \A u :
           u \in channel'[d] <=> u \in channel[d] \/ (s # Nil /\ d = q /\ u = s)
    BY <1>1, <1>5 DEF Enqueue, TypeOK
  <1>7. OnePlace'
    <2>1. \A d \in Channels, u \in Tasks : u \in Held(d)' <=> u \in Held(d) /\ d # c
      BY <1>3, <1>4 DEF Held
    <2>2. \A u \in Tasks : u \in Held(c) <=> u = current[c] \/ u = s
      BY DEF Held
    <2>3. \A u \in Tasks : u \in outside' <=> u \in outside \/ (u = current[c] /\ u # s)
      BY <1>1
    <2>4. \A u \in Tasks, d \in Channels :
             u \in (channel[d] \cup Held(d))'
                 <=> \/ u \in channel[d] \/ (u \in Held(d) /\ d # c)
                     \/ (s # Nil /\ d = q /\ u = s)
      BY <1>6, <2>1
    <2>5. \A u \in Tasks : u = current[c] \/ u = s =>
             \A d \in Channels : u \notin channel[d] /\ (u \in Held(d) <=> d = c)
      BY <2>2 DEF OnePlace
    <2>6. ASSUME NEW u \in Tasks
          PROVE  /\ u \in outside' <=> \A d \in Channels : u \notin (channel[d] \cup Held(d))'
                 /\ \A d, e \in Channels : /\ u \in (channel[d] \cup Held(d))'
                                            /\ u \in (channel[e] \cup Held(e))' => d = e
                 /\ \A d \in Channels : u \notin (channel[d] \cap Held(d))'
      <3>1. CASE u = s
        <4>1. s # Nil /\ q \in Channels
          BY <1>5, <3>1
        <4>2. \A d \in Channels : /\ u \in (channel[d] \cup Held(d))' <=> d = q
                                  /\ u \notin Held(d)'
          BY <2>1, <2>4, <2>5, <3>1, <4>1
        <4>3. u \notin outside'
          BY <2>2, <2>3, <3>1 DEF OnePlace
        <4>4. QED BY <4>1, <4>2, <4>3
      <3>2. CASE u = current[c] /\ u # s
        BY <2>3, <2>4, <2>5, <3>2
      <3>3. CASE u # current[c] /\ u # s
        <4>1. \A d \in Channels : /\ u \in (channel[d] \cup Held(d))' <=> u \in channel[d] \cup Held(d)
                                  /\ u \in Held(d)' <=> u \in Held(d)
                                  /\ u \in channel'[d] <=> u \in channel[d]
          BY <1>6, <2>1, <2>2, <2>4, <3>3
        <4>2. u \in outside' <=> u \in outside
          BY <2>3, <3>3
        <4>3. QED BY <4>1, <4>2 DEF OnePlace
      <3>4. QED BY <3>1, <3>2, <3>3
    <2>7. QED BY <2>6 DEF OnePlace
  <1>8. PlacedInv'
    BY <1>1, <1>5, <1>6 DEF PlacedInv, Allowed
  <1>9. BuiltInv'
    BY <1>1 DEF BuiltInv
  <1>10. ContextInv'
    <2>1. ContextAt(c)'
      BY <1>4 DEF ContextAt, Allowed
    <2>2. ASSUME NEW d \in Channels, d # c PROVE ContextAt(d)'
      <3>1. ContextAt(d)
        BY DEF ContextInv
      <3>2. /\ pc'[d] = pc[d] /\ current'[d] = current[d] /\ context'[d] = context[d]
            /\ on'[d] = on[d] /\ writing'[d] = writing[d] /\ result'[d] = result[d]
            /\ resource' = resource
        BY <1>1, <1>3, <2>2
      <3>3. Allowed(d, on[d], writing[d])' <=> Allowed(d, on[d], writing[d])
        BY <3>2 DEF Allowed
      <3>4. QED BY <3>1, <3>2, <3>3 DEF ContextAt
    <2>3. QED BY <2>1, <2>2 DEF ContextInv
  <1>11. \A d \in Channels, r \in Resources, k \in {"exclusive", "shared", "unique", "optimistic", "olfit"} :
           LatchHolder(d, r, k)' <=> LatchHolder(d, r, k)
    BY <1>1, <1>3, <1>4 DEF LatchHolder, Inside
  <1>12. LatchInv' /\ VersionInv'
    <2>1. UNCHANGED latchVars
      BY <1>1
    <2>2. LatchInv'
      <3>1. UNCHANGED <<exclusive, shared, unique>>
        BY <2>1 DEF latchVars
      <3>2. QED BY <1>11, <3>1, SMTT(120) DEF LatchInv
    <2>3. VersionInv'
      <3>1. UNCHANGED version
        BY <2>1 DEF latchVars
      <3>2. \A d \in Channels, r \in Resources : VersionHolder(d, r)' <=> VersionHolder(d, r)
        BY <1>11 DEF VersionHolder, LatchHolder
      <3>3. QED BY <3>1, <3>2 DEF VersionInv
    <2>4. QED BY <2>2, <2>3
  <1>13. ReadInv'
    <2>1. version' = version
      BY <1>1 DEF latchVars
    <2>2. ASSUME NEW d \in Channels, context'[d] = "read"
          PROVE  /\ pc[d] = pc'[d] /\ seen[d] = seen'[d] /\ on[d] = on'[d]
                 /\ overlapped[d] = overlapped'[d] /\ context[d] = "read"
      BY <1>3, <1>4, <2>2
    <2>3. QED BY <2>1, <2>2 DEF ReadInv
  <1>14. QED BY <1>7, <1>8, <1>9, <1>10, <1>12, <1>13

(* Every step of the system keeps the inductive invariant. *)
LEMMA StepIInv == IInv /\ [Next]_vars => IInv'
  <1> SUFFICES ASSUME IInv, [Next]_vars PROVE IInv'
    OBVIOUS
  <1>1. TypeOK'
    BY TypeStep DEF IInv
  <1>2. ASSUME NEW t \in Tasks, NEW a \in Annotations, SpawnOutside(t, a)
        PROVE  SInv'
    <2> DEFINE q == IF a.resource # Nil THEN resource[a.resource].home ELSE a.channel
    <2>1. /\ t \in outside
          /\ outside' = outside \ {t}
          /\ annotation' = [annotation EXCEPT ![t] = a]
          /\ Enqueue(t, q)
          /\ UNCHANGED <<resource, workerVars, latchVars>>
      BY <1>2 DEF SpawnOutside
    <2>2. q \in Channels
      BY <1>2, TaskingAssumption DEF SpawnOutside, IInv, TypeOK, Annotations, AnnotationRecord
    <2>3. Allowed(q, a.resource, ~a.readonly)
      BY DEF Allowed
    <2>4. QED BY <2>1, <2>2, <2>3, SpawnSInv
  <1>3. ASSUME NEW c \in Channels, NEW t \in Tasks, NEW a \in Annotations, SpawnInTask(c, t, a)
        PROVE  SInv'
    <2> DEFINE q == TargetFrom(c, a)
    <2>1. /\ t \in outside
          /\ outside' = outside \ {t}
          /\ annotation' = [annotation EXCEPT ![t] = a]
          /\ Enqueue(t, q)
          /\ UNCHANGED <<resource, workerVars, latchVars>>
      BY <1>3 DEF SpawnInTask
    <2>2. q \in Channels /\ Allowed(q, a.resource, ~a.readonly)
      BY TargetAllowed DEF IInv
    <2>3. QED BY <2>1, <2>2, SpawnSInv
  <1>4. ASSUME NEW c \in Channels, Worker(c)
        PROVE  SInv'
    BY <1>4, NextTaskSInv, AcquireSInv, ReadVersionSInv, ReturnSInv, ReleaseSInv, RejectSInv,
       AcceptSInv, FinishSInv DEF Worker
  <1>5. CASE UNCHANGED vars
    <2>1. UNCHANGED <<resource, current, result, annotation, channel, outside, latchVars,
                      context, on, pc, writing, seen, overlapped>>
      BY <1>5 DEF vars, workerVars, taskVars
    <2>2. OnePlace' /\ PlacedInv'
      BY <2>1, TasksUnchanged DEF IInv
    <2>3. LatchInv' /\ VersionInv'
      BY <2>1, LatchesUnchanged DEF IInv, Inside
    <2>4. BuiltInv' /\ ContextInv' /\ ReadInv'
      BY <2>1 DEF IInv, BuiltInv, ContextInv, ContextAt, Allowed, ReadInv, latchVars
    <2>5. QED BY <1>1, <2>2, <2>3, <2>4 DEF IInv
  <1>6. QED
    BY <1>1, <1>2, <1>3, <1>4, <1>5 DEF Next, IInv, SInv

------------------------------------------------------------------------------
(* The inductive invariant: where tasks wait, which context they get and who *)
(* holds the latches fit together in every reachable state.                  *)
THEOREM Invariance == Spec => []IInv
  BY InitIInv, StepIInv, PTL DEF Spec

(* The states of the scheduler and of the workers are what their types say.  *)
THEOREM TypeCorrect == Spec => []TypeOK
  <1>1. IInv => TypeOK
    BY DEF IInv
  <1>2. QED BY <1>1, Invariance, PTL

(* Worker and Scheduler give every object built with isolation_level::       *)
(* Exclusive to one task at a time, for every number of channels.            *)
THEOREM ExclusiveTasksAlone == Spec => []ExclusiveIsolation
  <1>1. IInv => ExclusiveIsolation
    <2> SUFFICES ASSUME IInv, NEW r \in Resources, NEW c \in Channels, NEW d \in Channels,
                        resource[r].isolation = "Exclusive", Accesses(c, r), Accesses(d, r)
                 PROVE  c = d
      BY DEF ExclusiveIsolation
    <2>1. r # Nil
      BY TaskingAssumption
    <2>2. CASE resource[r].primitive = "ScheduleAll"
      <3>1. Allowed(c, on[c], writing[c]) /\ Allowed(d, on[d], writing[d])
        BY DEF IInv, ContextInv, ContextAt
      <3>2. on[c] = r /\ on[d] = r
        BY DEF Accesses
      <3>3. QED BY <2>1, <2>2, <3>1, <3>2 DEF Allowed
    <2>3. CASE resource[r].primitive = "ExclusiveLatch"
      <3>1. context[c] = "exclusive" /\ context[d] = "exclusive"
        BY <2>1, <2>3 DEF IInv, Accesses, ContextInv, ContextAt
      <3>2. QED BY <3>1 DEF IInv, Accesses, LatchInv, LatchHolder, Inside
    <2>4. QED BY <2>2, <2>3 DEF IInv, BuiltInv
  <1>2. QED BY <1>1, Invariance, PTL

(* ... and isolates the writing tasks of isolation_level::ExclusiveWriter.   *)
THEOREM WritersIsolated == Spec => []WriterIsolation
  <1>1. IInv => WriterIsolation
    <2> SUFFICES ASSUME IInv, NEW r \in Resources, NEW c \in Channels, NEW d \in Channels,
                        resource[r].isolation = "ExclusiveWriter",
                        Accesses(c, r), Accesses(d, r), writing[c], c # d
                 PROVE  ~writing[d] /\ context[d] = "read"
      BY DEF WriterIsolation
    <2>1. r # Nil
      BY TaskingAssumption
    <2>2. /\ pc[c] = "run" /\ on[c] = r /\ pc[d] = "run" /\ on[d] = r
          /\ Inside(c) /\ Inside(d) /\ writing[d] \in BOOLEAN
      BY DEF Accesses, Inside, IInv, TypeOK
    <2>3. ContextAt(c) /\ ContextAt(d)
      BY DEF IInv, ContextInv
    <2>4. CASE resource[r].primitive = "ScheduleAll"
      BY <2>1, <2>2, <2>3, <2>4 DEF ContextAt, Allowed
    <2>5. CASE resource[r].primitive = "ReaderWriterLatch"
      <3>1. context[c] = "unique" /\ context[d] = (IF writing[d] THEN "unique" ELSE "shared")
        BY <2>1, <2>2, <2>3, <2>5 DEF ContextAt
      <3>2. /\ c \in unique[r] /\ (context[d] = "unique" => d \in unique[r])
            /\ (context[d] = "shared" => d \in shared[r])
        BY <2>2, <3>1 DEF IInv, LatchInv, LatchHolder
      <3>3. ~(d \in unique[r]) /\ ~(d \in shared[r])
        BY <3>2 DEF IInv, LatchInv
      <3>4. QED BY <3>1, <3>2, <3>3
    <2>6. CASE resource[r].primitive = "ScheduleWriter"
      BY <2>1, <2>2, <2>3, <2>6 DEF ContextAt, Allowed
    <2>7. CASE resource[r].primitive = "OLFIT"
      BY <2>1, <2>2, <2>3, <2>7 DEF ContextAt, IInv, VersionInv, VersionHolder
    <2>8. QED BY <2>4, <2>5, <2>6, <2>7 DEF IInv, BuiltInv
  <1>2. QED BY <1>1, Invariance, PTL

(* execute_optimistic_read never uses the result of a read a writing task    *)
(* overlapped.                                                               *)
THEOREM OverlapsDiscarded == Spec => []ReadersDiscardOverlaps
  <1>1. IInv => ReadersDiscardOverlaps
    BY DEF IInv, ReadInv, ReadersDiscardOverlaps
  <1>2. QED BY <1>1, Invariance, PTL

(* A spawned task is in one channel or with one worker, a task that is       *)
(* neither is free: no schedule, rejected read or successor loses or doubles *)
(* a task.                                                                   *)
THEOREM TasksConserved == Spec => []OnePlace
  <1>1. IInv => OnePlace
    BY DEF IInv
  <1>2. QED BY <1>1, Invariance, PTL
==============================================================================
