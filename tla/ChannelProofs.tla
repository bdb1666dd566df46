---------------------------- MODULE ChannelProofs ----------------------------
(* A channel executes the tasks of every queue in their order and never      *)
(* overwrites one in the buffer, for every size of the buffer, prefetch      *)
(* distance, number of NUMA regions and set of tasks.                        *)
EXTENDS Channel, FiniteSetTheorems, TLAPS

-----------------------------------------------------------------------------
(* The invariant. *)

(* The slot i places from the head of a ring, and the task in it. *)
Place(head, i) == IF head + i < S THEN head + i ELSE head + i - S
At(b, i) == b.slot[Place(b.head, i)]

(* A buffer with n tasks: those from the head on, without a gap.  A slot     *)
(* without a task has no prefetch either.                                    *)
Ring(b, n) ==
    /\ b \in Buffers
    /\ \A i \in 0 .. S - 1 : At(b, i) # Nil <=> i < n
    /\ b.tail = Place(b.head, n)
    /\ BufferDistance > 0 => \A i \in 0 .. S - 1 :
          b.prefetch[Place(b.head, i)] = IF i + BufferDistance < n THEN At(b, i + BufferDistance) ELSE Nil

(* The tasks of a buffer from the head on, and of the queues. *)
Held(b, n) == [i \in 0 .. n - 1 |-> At(b, i)]
Rests == [q \in Queue |-> Rest(q)]

Members(f) == UNION {Range(f[q]) : q \in Queue}

(* How many of the tasks pushed to q have left the queue. *)
Many(f, q) == Len(f[q])
Out(ord, rest, q) == Many(ord, q) - Many(rest, q)

(* A queue has the last of the tasks pushed to it that have not started, and *)
(* the buffer the others, those of one queue in the order of the pushes.     *)
Suffix(ord, rest) ==
    \A q \in Queue :
        /\ Many(rest, q) <= Many(ord, q)
        /\ \A k \in 1 .. Many(rest, q) : rest[q][k] = ord[q][Out(ord, rest, q) + k]
Distinct(ord) ==
    \A q, r \in Queue : \A k \in 1 .. Many(ord, q), l \in 1 .. Many(ord, r) :
        ord[q][k] = ord[r][l] => q = r /\ k = l
Buffered(held, n, ord, rest) ==
    /\ \A q \in Queue : \A k \in 1 .. Out(ord, rest, q) : \E i \in 0 .. n - 1 : held[i] = ord[q][k]
    /\ \A i \in 0 .. n - 1 : \E q \in Queue : \E k \in 1 .. Out(ord, rest, q) : held[i] = ord[q][k]
InTurn(held, n, ord) ==
    \A i, j \in 0 .. n - 1 : \A q \in Queue : \A k, l \in 1 .. Many(ord, q) :
        i < j /\ held[i] = ord[q][k] /\ held[j] = ord[q][l] => k < l
Orderly(held, n, ord, rest) ==
    /\ n \in 0 .. S /\ held \in [0 .. n - 1 -> Tasks]
    /\ ord \in [Queue -> Seq(Tasks)] /\ rest \in [Queue -> Seq(Tasks)]
    /\ Suffix(ord, rest) /\ Distinct(ord) /\ Buffered(held, n, ord, rest) /\ InTurn(held, n, ord)

TypeInv ==
    /\ local \in [Priority -> Seq(Tasks)]
    /\ linked \in [Priority -> [Node -> Seq(Tasks)]]
    /\ pending \in [Priority -> [Node -> Seq(Tasks)]]
    /\ size \in Int
    /\ pc \in {"fill", "filling", "next", "run"}
    /\ filling \in Fills
    /\ current \in Tasks \cup {Nil}

(* The worker and its fill.  A task that is executed is in no queue. *)
WorkerInv(n) ==
    /\ size <= n
    /\ pc = "fill" => n = 0
    /\ pc = "filling" => filling.room = S - n
    /\ pc = "run" \/ (pc = "filling" /\ filling.then # "next") => current \in Tasks
    /\ current \notin Members(order)

(* What a fill has seen is in the buffer or still ahead of it. *)
SeenInv ==
    pc = "filling" => \A t \in filling.seen :
        \/ t \in BufferTasks
        \/ /\ filling.priority = "normal"
           /\ \E i \in filling.source .. NumaNodes : t \in Range(Source("normal", i))

(* With n tasks in the buffer. *)
Core(n) == Ring(buffer, n) /\ Orderly(Held(buffer, n), n, order, Rests) /\ WorkerInv(n)

ChannelInv == TypeInv /\ SeenInv /\ \E n \in 0 .. S : Core(n)

-----------------------------------------------------------------------------
(* The ring. *)

(* Normalize takes an index of up to two rounds back into the first. *)
LEMMA Wraps ==
    ASSUME NEW x \in 0 .. 2 * S - 1
    PROVE  Normalize(x) = IF x < S THEN x ELSE x - S
<1> DEFINE d == x \div S
           r == x % S
<1>1. S \in Nat \ {0} /\ x \in Nat
  BY BufferAssumption
<1>2. r \in 0 .. S - 1 /\ d \in Nat /\ S * d \in Nat /\ x = S * d + r
  BY <1>1
<1> HIDE DEF d, r
<1>3. d = 0 \/ d = 1 \/ d >= 2
  BY <1>2
<1>4. d >= 2 => S * d >= 2 * S
  BY <1>1, <1>2
<1>5. d = 0 \/ d = 1
  BY <1>1, <1>2, <1>3, <1>4
<1>6. CASE d = 0
  BY <1>1, <1>2, <1>6 DEF Normalize, r
<1>7. CASE d = 1
  <2>1. S * d = S
    BY <1>1, <1>7
  <2> QED
    BY <1>1, <1>2, <2>1 DEF Normalize, r
<1> QED
  BY <1>5, <1>6, <1>7

(* Places are slots, and different ones in one round. *)
LEMMA Places ==
    ASSUME NEW h \in Slots
    PROVE  /\ \A i \in 0 .. S : Place(h, i) \in Slots
           /\ \A i \in 0 .. S - 1 : Place(h, i) \in Slots
           /\ \A i \in 0 .. S : Normalize(h + i) = Place(h, i)
           /\ \A i, j \in 0 .. S - 1 : Place(h, i) = Place(h, j) => i = j
           /\ \A s \in Slots : \E i \in 0 .. S - 1 : s = Place(h, i)
<1>1. S \in Nat \ {0}
  BY BufferAssumption
<1>2. ASSUME NEW i \in 0 .. S PROVE Place(h, i) \in Slots /\ Normalize(h + i) = Place(h, i)
  <2>1. h + i \in 0 .. 2 * S - 1
    BY <1>1 DEF Slots
  <2> QED
    BY <1>1, <2>1, Wraps DEF Slots, Place
<1>3. ASSUME NEW i \in 0 .. S - 1, NEW j \in 0 .. S - 1, Place(h, i) = Place(h, j) PROVE i = j
  BY <1>1, <1>3 DEF Slots, Place
<1>4. ASSUME NEW s \in Slots PROVE \E i \in 0 .. S - 1 : s = Place(h, i)
  <2>1. CASE s >= h
    <3>1. s - h \in 0 .. S - 1 /\ s = Place(h, s - h)
      BY <1>1, <2>1 DEF Slots, Place
    <3> QED
      BY <3>1
  <2>2. CASE s < h
    <3>1. s + S - h \in 0 .. S - 1 /\ s = Place(h, s + S - h)
      BY <1>1, <2>2 DEF Slots, Place
    <3> QED
      BY <3>1
  <2> QED
    BY <2>1, <2>2 DEF Slots
<1>5. \A i \in 0 .. S - 1 : i \in 0 .. S
  BY <1>1
<1> QED
  BY <1>2, <1>3, <1>4, <1>5

(* The fields of a buffer, and what a ring holds. *)
LEMMA RingFacts ==
    ASSUME NEW b, NEW n \in 0 .. S, Ring(b, n)
    PROVE  /\ b.head \in Slots /\ b.tail \in Slots
           /\ b.slot \in [Slots -> Tasks \cup {Nil}] /\ b.prefetch \in [Slots -> Tasks \cup {Nil}]
           /\ \A i \in 0 .. S - 1 : At(b, i) \in Tasks \cup {Nil}
           /\ \A i \in 0 .. n - 1 : At(b, i) \in Tasks
           /\ BufferEmpty(b) <=> n = 0
           /\ n < S => AvailableSlots(b) = S - n
<1>1. S \in Nat \ {0} /\ n \in Nat
  BY BufferAssumption
<1>2. /\ b.head \in Slots /\ b.tail \in Slots
      /\ b.slot \in [Slots -> Tasks \cup {Nil}] /\ b.prefetch \in [Slots -> Tasks \cup {Nil}]
  BY DEF Ring, Buffers
<1>3. \A i \in 0 .. S - 1 : At(b, i) \in Tasks \cup {Nil}
  <2>1. \A i \in 0 .. S - 1 : Place(b.head, i) \in Slots
    BY <1>2, Places
  <2> QED
    BY <1>2, <2>1 DEF At
<1>4. \A i \in 0 .. n - 1 : i \in 0 .. S - 1 /\ At(b, i) # Nil
  BY <1>1 DEF Ring
<1>5. At(b, 0) = b.slot[b.head]
  BY <1>1, <1>2 DEF At, Place, Slots
<1>6. BufferEmpty(b) <=> n = 0
  BY <1>1, <1>5 DEF Ring, BufferEmpty
<1>7. n < S => BufferSize(b) = n
  <2>1. b.tail = Place(b.head, n)
    BY DEF Ring
  <2> QED
    BY <1>1, <1>2, <2>1 DEF BufferSize, Place, Slots
<1>8. n < S => AvailableSlots(b) = S - n
  BY <1>7 DEF AvailableSlots
<1> QED
  BY <1>2, <1>3, <1>4, <1>6, <1>8

(* A ring with n tasks has n occupied slots. *)
LEMMA RingCount ==
    ASSUME NEW b, NEW n \in 0 .. S, Ring(b, n)
    PROVE  LET occupied == {s \in Slots : b.slot[s] # Nil}
           IN  /\ occupied = {Place(b.head, i) : i \in 0 .. n - 1}
               /\ IsFiniteSet(occupied) /\ Cardinality(occupied) = n
<1> DEFINE occupied == {s \in Slots : b.slot[s] # Nil}
           f == [i \in 0 .. n - 1 |-> Place(b.head, i)]
<1>1. S \in Nat \ {0} /\ n \in Nat /\ b.head \in Slots
  BY BufferAssumption, RingFacts
<1>2. occupied = {Place(b.head, i) : i \in 0 .. n - 1}
  <2>1. ASSUME NEW s \in occupied PROVE \E i \in 0 .. n - 1 : s = Place(b.head, i)
    <3>1. PICK i \in 0 .. S - 1 : s = Place(b.head, i)
      BY <1>1, Places
    <3>2. At(b, i) # Nil
      BY <3>1 DEF At
    <3> QED
      BY <1>1, <3>1, <3>2 DEF Ring
  <2>2. ASSUME NEW i \in 0 .. n - 1 PROVE Place(b.head, i) \in occupied
    <3>1. i \in 0 .. S - 1 /\ i \in 0 .. S /\ i < n
      BY <1>1
    <3>2. At(b, i) # Nil
      BY <3>1 DEF Ring
    <3> QED
      BY <1>1, <3>1, <3>2, Places DEF At
  <2> QED
    BY <2>1, <2>2
<1>3. f \in Bijection(0 .. n - 1, occupied)
  <2>1. f \in [0 .. n - 1 -> occupied]
    BY <1>2
  <2>2. \A i, j \in 0 .. n - 1 : f[i] = f[j] => i = j
    <3>1. \A i \in 0 .. n - 1 : i \in 0 .. S - 1
      BY <1>1
    <3> QED
      BY <1>1, <3>1, Places
  <2>3. \A s \in occupied : \E i \in 0 .. n - 1 : f[i] = s
    BY <1>2
  <2> QED
    BY <2>1, <2>2, <2>3 DEF Bijection, Injection, Surjection, IsInjective
<1>4. IsFiniteSet(0 .. n - 1) /\ Cardinality(0 .. n - 1) = n
  BY <1>1, FS_Interval
<1>5. ExistsBijection(0 .. n - 1, occupied)
  BY <1>3 DEF ExistsBijection
<1>6. IsFiniteSet(occupied) /\ Cardinality(occupied) = n
  BY <1>4, <1>5, FS_Bijection
<1> QED
  BY <1>2, <1>6

(* A task that is stored is the last of the ring, ... *)
LEMMA StoredLast ==
    ASSUME NEW b, NEW n \in 0 .. S - 1, Ring(b, n), NEW t \in Tasks
    PROVE  LET c == Store(b, t, S - n)
           IN  /\ Ring(c, n + 1)
               /\ \A i \in 0 .. n - 1 : At(c, i) = At(b, i)
               /\ At(c, n) = t
<1> DEFINE c == Store(b, t, S - n)
           d == BufferDistance
<1>1. S \in Nat \ {0} /\ n \in Nat /\ n \in 0 .. S /\ S - (S - n) = n /\ Nil \notin Tasks
  BY BufferAssumption
<1>2. /\ b.head \in Slots /\ b.tail \in Slots /\ b.tail = Place(b.head, n)
      /\ b.slot \in [Slots -> Tasks \cup {Nil}] /\ b.prefetch \in [Slots -> Tasks \cup {Nil}]
  BY <1>1, RingFacts DEF Ring
<1>3. d \in Nat
  BY BufferAssumption DEF BufferDistance
<1>4. /\ c.head = b.head
      /\ c.slot = [b.slot EXCEPT ![b.tail] = t]
      /\ c.prefetch = IF d > 0 /\ n >= d THEN [b.prefetch EXCEPT ![NormalizeBackward(b.tail, d)] = t]
                                         ELSE b.prefetch
      /\ c.tail = Normalize(b.tail + 1)
      /\ c = [slot |-> c.slot, prefetch |-> c.prefetch, head |-> c.head, tail |-> c.tail]
  BY <1>1 DEF Store, Prefetches
<1> HIDE DEF c, d
<1>5. \A i \in 0 .. S - 1 : Place(b.head, i) \in Slots /\ (Place(b.head, i) = b.tail => i = n)
  <2>1. \A i \in 0 .. S - 1 : Place(b.head, i) \in Slots
    BY <1>2, Places
  <2>2. \A i \in 0 .. S - 1 : Place(b.head, i) = Place(b.head, n) => i = n
    BY <1>2, Places
  <2> QED
    BY <1>2, <2>1, <2>2
<1>6. At(c, n) = t /\ \A i \in 0 .. S - 1 : i # n => At(c, i) = At(b, i)
  BY <1>1, <1>2, <1>4, <1>5 DEF At
<1>7. c.tail = Place(c.head, n + 1)
  <2>1. b.tail + 1 \in 0 .. 2 * S - 1 /\ b.head \in 0 .. S - 1
    BY <1>1, <1>2 DEF Slots
  <2>2. c.tail = IF b.tail + 1 < S THEN b.tail + 1 ELSE b.tail + 1 - S
    <3>1. Normalize(b.tail + 1) = IF b.tail + 1 < S THEN b.tail + 1 ELSE b.tail + 1 - S
      BY <1>1, <1>2, <2>1, Wraps DEF Slots
    <3> QED
      BY <1>4, <3>1
  <2> QED
    BY <1>1, <1>2, <1>4, <2>1, <2>2 DEF Place
<1>8. c \in Buffers
  <2>1. c.tail \in Slots
    <3>1. n + 1 \in 0 .. S
      BY <1>1
    <3>2. Place(b.head, n + 1) \in Slots
      BY <1>2, <3>1, Places
    <3> QED
      BY <1>4, <1>7, <3>2
  <2>2. c.slot \in [Slots -> Tasks \cup {Nil}] /\ c.prefetch \in [Slots -> Tasks \cup {Nil}]
    BY <1>2, <1>4
  <2> QED
    BY <1>2, <1>4, <2>1, <2>2 DEF Buffers
<1>9. \A i \in 0 .. S - 1 : At(c, i) # Nil <=> i < n + 1
  <2>1. \A i \in 0 .. S - 1 : At(b, i) # Nil <=> i < n
    BY DEF Ring
  <2> QED
    BY <1>1, <1>6, <2>1
<1>10. ASSUME d > 0, NEW i \in 0 .. S - 1
       PROVE  c.prefetch[Place(c.head, i)] = IF i + d < n + 1 THEN At(c, i + d) ELSE Nil
  <2>1. b.prefetch[Place(b.head, i)] = IF i + d < n THEN At(b, i + d) ELSE Nil
    BY <1>10 DEF Ring, d
  <2>2. n >= d => n - d \in 0 .. S - 1 /\ NormalizeBackward(b.tail, d) = Place(b.head, n - d)
    BY <1>1, <1>2, <1>3 DEF NormalizeBackward, Place, Slots
  <2>3. n >= d => (Place(b.head, i) = NormalizeBackward(b.tail, d) <=> i = n - d)
    <3>1. \A j \in 0 .. S - 1 : Place(b.head, i) = Place(b.head, j) => i = j
      BY <1>2, Places
    <3> QED
      BY <2>2, <3>1
  <2>4. c.prefetch[Place(b.head, i)] =
            IF n >= d /\ i = n - d THEN t ELSE b.prefetch[Place(b.head, i)]
    <3>1. CASE n >= d
      <4>1. c.prefetch = [b.prefetch EXCEPT ![NormalizeBackward(b.tail, d)] = t]
        BY <1>4, <1>10, <3>1
      <4> QED
        BY <1>2, <1>5, <2>3, <3>1, <4>1
    <3>2. CASE ~(n >= d)
      BY <1>4, <3>2
    <3> QED
      BY <3>1, <3>2
  <2>5. i + d < n => i + d \in 0 .. S - 1 /\ i + d # n
    BY <1>1, <1>3
  <2>6. CASE i + d = n
    BY <1>1, <1>3, <1>4, <1>6, <2>4, <2>6
  <2>7. CASE i + d < n
    BY <1>1, <1>3, <1>4, <1>6, <2>1, <2>4, <2>5, <2>7
  <2>8. CASE i + d > n
    BY <1>1, <1>3, <1>4, <2>1, <2>4, <2>8
  <2> QED
    BY <1>1, <1>3, <2>6, <2>7, <2>8
<1>11. Ring(c, n + 1)
  BY <1>7, <1>8, <1>9, <1>10 DEF Ring, d
<1>12. \A i \in 0 .. n - 1 : At(c, i) = At(b, i)
  BY <1>1, <1>6
<1> QED
  BY <1>6, <1>11, <1>12 DEF c

(* ... and with the head consumed the ring begins at its second task. *)
LEMMA ConsumedFirst ==
    ASSUME NEW b, NEW n \in 1 .. S, Ring(b, n)
    PROVE  LET c == Consume(b)
           IN  /\ Ring(c, n - 1)
               /\ \A i \in 0 .. n - 2 : At(c, i) = At(b, i + 1)
<1> DEFINE c == Consume(b)
           d == BufferDistance
<1>1. S \in Nat \ {0} /\ n \in Nat /\ n \in 0 .. S /\ n > 0 /\ Nil \notin Tasks
  BY BufferAssumption
<1>2. /\ b.head \in Slots /\ b.tail \in Slots /\ b.tail = Place(b.head, n)
      /\ b.slot \in [Slots -> Tasks \cup {Nil}] /\ b.prefetch \in [Slots -> Tasks \cup {Nil}]
  BY <1>1, RingFacts DEF Ring
<1>3. d \in Nat
  BY BufferAssumption DEF BufferDistance
<1>4. /\ c.head = Normalize(b.head + 1)
      /\ c.slot = [b.slot EXCEPT ![b.head] = Nil]
      /\ c.prefetch = [b.prefetch EXCEPT ![b.head] = Nil]
      /\ c.tail = b.tail
  BY DEF Consume
<1>5. c = [slot |-> c.slot, prefetch |-> c.prefetch, head |-> c.head, tail |-> c.tail]
  BY DEF Consume
<1> HIDE DEF c, d
<1>6. b.head + 1 \in 0 .. 2 * S - 1 /\ b.head \in 0 .. S - 1
  BY <1>1, <1>2 DEF Slots
<1>7. c.head = (IF b.head + 1 < S THEN b.head + 1 ELSE b.head + 1 - S) /\ c.head \in Slots
  BY <1>1, <1>4, <1>6, Wraps DEF Slots
<1>8. /\ \A i \in 0 .. S - 2 : Place(c.head, i) = Place(b.head, i + 1)
      /\ Place(c.head, S - 1) = b.head
      /\ Place(c.head, n - 1) = Place(b.head, n)
  <2>1. ASSUME NEW h \in 0 .. S - 1, NEW g, g = IF h + 1 < S THEN h + 1 ELSE h + 1 - S,
               NEW i \in 0 .. S - 1
        PROVE  Place(g, i) = IF h + (i + 1) < S THEN h + (i + 1)
                             ELSE IF i = S - 1 THEN h ELSE h + (i + 1) - S
    BY <1>1, <2>1 DEF Place
  <2>2. \A i \in 0 .. S - 1 :
            Place(c.head, i) = IF b.head + (i + 1) < S THEN b.head + (i + 1)
                               ELSE IF i = S - 1 THEN b.head ELSE b.head + (i + 1) - S
    BY <1>6, <1>7, <2>1
  <2>3. \A i \in 0 .. S - 2 : i \in 0 .. S - 1 /\ i # S - 1
    BY <1>1
  <2>4. \A i \in 0 .. S - 2 : Place(c.head, i) = Place(b.head, i + 1)
    BY <2>2, <2>3 DEF Place
  <2>5. S - 1 \in 0 .. S - 1 /\ ~(b.head + ((S - 1) + 1) < S)
    BY <1>1, <1>6
  <2>6. Place(c.head, S - 1) = b.head
    BY <2>2, <2>5
  <2>7. CASE n = S
    <3>1. Place(b.head, S) = b.head
      BY <1>1, <1>6 DEF Place
    <3> QED
      BY <2>4, <2>6, <2>7, <3>1
  <2>8. CASE n # S
    <3>1. n - 1 \in 0 .. S - 2 /\ (n - 1) + 1 = n
      BY <1>1, <2>8
    <3>2. Place(c.head, n - 1) = Place(b.head, (n - 1) + 1)
      BY <2>4, <3>1
    <3> QED
      BY <2>4, <2>6, <3>1, <3>2
  <2> QED
    BY <2>4, <2>6, <2>7, <2>8
<1>9. \A i \in 0 .. S - 2 : i + 1 \in 0 .. S - 1 /\ Place(b.head, i + 1) \in Slots /\ Place(b.head, i + 1) # b.head
  BY <1>1, <1>6 DEF Place, Slots
<1>10. /\ \A i \in 0 .. S - 2 : At(c, i) = At(b, i + 1)
       /\ At(c, S - 1) = Nil
  BY <1>2, <1>4, <1>8, <1>9 DEF At
<1>11. c \in Buffers
  <2>1. c.slot \in [Slots -> Tasks \cup {Nil}] /\ c.prefetch \in [Slots -> Tasks \cup {Nil}]
    BY <1>2, <1>4
  <2> QED
    BY <1>2, <1>4, <1>5, <1>7, <2>1 DEF Buffers
<1>12. \A i \in 0 .. S - 1 : i \in 0 .. S - 2 \/ i = S - 1
  BY <1>1
<1>13. ASSUME NEW i \in 0 .. S - 1 PROVE At(c, i) # Nil <=> i < n - 1
  <2>1. \A j \in 0 .. S - 1 : At(b, j) # Nil <=> j < n
    BY DEF Ring
  <2>2. CASE i \in 0 .. S - 2
    <3>1. i + 1 \in 0 .. S - 1 /\ (i + 1 < n <=> i < n - 1)
      BY <1>1, <2>2
    <3> QED
      BY <1>10, <2>1, <2>2, <3>1
  <2>3. CASE i = S - 1
    BY <1>1, <1>10, <2>3
  <2> QED
    BY <1>12, <2>2, <2>3
<1>14. ASSUME d > 0, NEW i \in 0 .. S - 1
       PROVE  c.prefetch[Place(c.head, i)] = IF i + d < n - 1 THEN At(c, i + d) ELSE Nil
  <2>1. \A j \in 0 .. S - 1 :
            b.prefetch[Place(b.head, j)] = IF j + d < n THEN At(b, j + d) ELSE Nil
    BY <1>14 DEF Ring, d
  <2>2. CASE i \in 0 .. S - 2
    <3>1. i + 1 \in 0 .. S - 1 /\ (i + 1) + d = (i + d) + 1 /\ ((i + d) + 1 < n <=> i + d < n - 1)
      BY <1>1, <1>3, <2>2
    <3>2. c.prefetch[Place(c.head, i)] = b.prefetch[Place(b.head, i + 1)]
      BY <1>2, <1>4, <1>8, <1>9, <2>2
    <3>3. c.prefetch[Place(c.head, i)] = IF i + d < n - 1 THEN At(b, (i + d) + 1) ELSE Nil
      BY <2>1, <3>1, <3>2
    <3>4. i + d < n - 1 => i + d \in 0 .. S - 2
      BY <1>1, <1>3, <2>2
    <3> QED
      BY <1>10, <3>3, <3>4
  <2>3. CASE i = S - 1
    <3>1. ~(i + d < n - 1)
      BY <1>1, <1>3, <2>3
    <3>2. c.prefetch[Place(c.head, i)] = Nil
      BY <1>2, <1>4, <1>8, <2>3
    <3> QED
      BY <3>1, <3>2
  <2> QED
    BY <1>12, <2>2, <2>3
<1>15. Ring(c, n - 1)
  BY <1>2, <1>4, <1>8, <1>11, <1>13, <1>14 DEF Ring, d
<1>16. \A i \in 0 .. n - 2 : At(c, i) = At(b, i + 1)
  BY <1>1, <1>10
<1> QED
  BY <1>15, <1>16 DEF c

-----------------------------------------------------------------------------
(* The order. *)

(* Sequences, element by element. *)
LEMMA TailFacts ==
    ASSUME NEW T, NEW s \in Seq(T), s # <<>>
    PROVE  /\ Len(s) \in Nat \ {0} /\ Head(s) = s[1] /\ Head(s) \in T
           /\ Tail(s) \in Seq(T) /\ Len(Tail(s)) = Len(s) - 1
           /\ \A k \in 1 .. Len(s) - 1 : Tail(s)[k] = s[k + 1]
OBVIOUS

LEMMA AppendFacts ==
    ASSUME NEW T, NEW s \in Seq(T), NEW t \in T
    PROVE  /\ Append(s, t) \in Seq(T) /\ Len(Append(s, t)) = Len(s) + 1
           /\ \A k \in 1 .. Len(s) : Append(s, t)[k] = s[k]
           /\ Append(s, t)[Len(s) + 1] = t
OBVIOUS

LEMMA RangeFacts ==
    ASSUME NEW T, NEW s \in Seq(T)
    PROVE  /\ Len(s) \in Nat
           /\ \A k \in 1 .. Len(s) : s[k] \in T
           /\ \A t : t \in Range(s) <=> \E k \in 1 .. Len(s) : t = s[k]
BY DEF Range

LEMMA MembersFacts ==
    ASSUME NEW f \in [Queue -> Seq(Tasks)]
    PROVE  \A t : t \in Members(f) <=> \E q \in Queue : \E k \in 1 .. Many(f, q) : t = f[q][k]
<1>1. ASSUME NEW q \in Queue, NEW t
      PROVE  t \in Range(f[q]) <=> \E k \in 1 .. Many(f, q) : t = f[q][k]
  <2>1. f[q] \in Seq(Tasks)
    OBVIOUS
  <2> QED
    BY <2>1, RangeFacts DEF Many
<1>2. \A t : t \in Members(f) <=> \E q \in Queue : t \in Range(f[q])
  BY DEF Members
<1> QED
  BY <1>1, <1>2

(* The types in Orderly. *)
LEMMA OrderlyFacts ==
    ASSUME NEW held, NEW n, NEW ord, NEW rest, Orderly(held, n, ord, rest)
    PROVE  /\ n \in Nat /\ n <= S /\ S \in Nat
           /\ \A i \in 0 .. n - 1 : held[i] \in Tasks
           /\ \A q \in Queue : /\ ord[q] \in Seq(Tasks) /\ rest[q] \in Seq(Tasks)
                               /\ Many(ord, q) \in Nat /\ Many(rest, q) \in Nat
                               /\ Out(ord, rest, q) \in 0 .. Many(ord, q)
                               /\ Many(ord, q) = Out(ord, rest, q) + Many(rest, q)
<1>1. S \in Nat /\ n \in 0 .. S
  BY BufferAssumption DEF Orderly
<1>2. \A i \in 0 .. n - 1 : held[i] \in Tasks
  BY DEF Orderly
<1>3. ASSUME NEW q \in Queue
      PROVE  /\ ord[q] \in Seq(Tasks) /\ rest[q] \in Seq(Tasks)
             /\ Many(ord, q) \in Nat /\ Many(rest, q) \in Nat
             /\ Out(ord, rest, q) \in 0 .. Many(ord, q)
             /\ Many(ord, q) = Out(ord, rest, q) + Many(rest, q)
  <2>1. ord[q] \in Seq(Tasks) /\ rest[q] \in Seq(Tasks)
    BY DEF Orderly
  <2>2. Many(ord, q) \in Nat /\ Many(rest, q) \in Nat
    BY <2>1 DEF Many
  <2>3. Many(rest, q) <= Many(ord, q)
    BY DEF Orderly, Suffix
  <2>4. Out(ord, rest, q) = Many(ord, q) - Many(rest, q)
    BY DEF Out
  <2> QED
    BY <2>1, <2>2, <2>3, <2>4
<1> QED
  BY <1>1, <1>2, <1>3

(* The task at the head of the buffer is the first of its queue. *)
LEMMA HeadIsFirst ==
    ASSUME NEW held, NEW n, n > 0, NEW ord, NEW rest, Orderly(held, n, ord, rest)
    PROVE  \E q \in Queue : Out(ord, rest, q) >= 1 /\ held[0] = ord[q][1]
<1>1. /\ n \in Nat
      /\ \A q \in Queue : Many(ord, q) \in Nat /\ Out(ord, rest, q) \in 0 .. Many(ord, q)
  BY OrderlyFacts
<1>2. 0 \in 0 .. n - 1
  BY <1>1
<1>3. PICK q \in Queue : \E k \in 1 .. Out(ord, rest, q) : held[0] = ord[q][k]
  BY <1>2 DEF Orderly, Buffered
<1>4. PICK k \in 1 .. Out(ord, rest, q) : held[0] = ord[q][k]
  BY <1>3
<1>5. /\ 1 \in 1 .. Out(ord, rest, q) /\ 1 \in 1 .. Many(ord, q) /\ k \in 1 .. Many(ord, q)
      /\ Out(ord, rest, q) >= 1
  BY <1>1
<1>6. PICK i \in 0 .. n - 1 : held[i] = ord[q][1]
  BY <1>5 DEF Orderly, Buffered
<1>7. i = 0
  <2>1. 0 < i => k < 1
    BY <1>2, <1>4, <1>5, <1>6 DEF Orderly, InTurn
  <2> QED
    BY <1>1, <1>5, <2>1
<1> QED
  BY <1>5, <1>6, <1>7

(* Its start leaves the rest in order. *)
Started(ord, q) == [ord EXCEPT ![q] = Tail(@)]

LEMMA OrderlyStart ==
    ASSUME NEW held, NEW n \in 1 .. S, NEW ord, NEW rest, Orderly(held, n, ord, rest),
           NEW q \in Queue, Out(ord, rest, q) >= 1, held[0] = ord[q][1],
           NEW new \in [0 .. n - 2 -> Tasks], \A i \in 0 .. n - 2 : new[i] = held[i + 1]
    PROVE  Orderly(new, n - 1, Started(ord, q), rest) /\ held[0] \notin Members(Started(ord, q))
<1> DEFINE ord1 == Started(ord, q)
           shift(r) == IF r = q THEN 1 ELSE 0
<1>1. /\ n \in Nat /\ n <= S /\ S \in Nat
      /\ \A r \in Queue : /\ ord[r] \in Seq(Tasks) /\ rest[r] \in Seq(Tasks)
                          /\ Many(ord, r) \in Nat /\ Many(rest, r) \in Nat
                          /\ Out(ord, rest, r) \in 0 .. Many(ord, r)
                          /\ Many(ord, r) = Out(ord, rest, r) + Many(rest, r)
  BY OrderlyFacts
<1>2. ord[q] # <<>> /\ Many(ord, q) >= 1
  <2>1. Many(ord, q) >= 1
    BY <1>1
  <2>2. ord[q] # <<>>
    BY <2>1 DEF Many
  <2> QED
    BY <2>1, <2>2
<1>3. /\ ord1 \in [Queue -> Seq(Tasks)]
      /\ \A r \in Queue : /\ Many(ord1, r) = Many(ord, r) - shift(r)
                          /\ \A k \in 1 .. Many(ord1, r) : ord1[r][k] = ord[r][k + shift(r)]
  <2>1. Tail(ord[q]) \in Seq(Tasks) /\ Len(Tail(ord[q])) = Many(ord, q) - 1
        /\ \A k \in 1 .. Many(ord, q) - 1 : Tail(ord[q])[k] = ord[q][k + 1]
    BY <1>1, <1>2, TailFacts DEF Many
  <2>2. ord \in [Queue -> Seq(Tasks)]
    BY DEF Orderly
  <2>3. ord1 \in [Queue -> Seq(Tasks)] /\ ord1[q] = Tail(ord[q]) /\ \A r \in Queue : r # q => ord1[r] = ord[r]
    BY <2>1, <2>2 DEF Started
  <2>4. ASSUME NEW r \in Queue
        PROVE  /\ Many(ord1, r) = Many(ord, r) - shift(r)
               /\ \A k \in 1 .. Many(ord1, r) : ord1[r][k] = ord[r][k + shift(r)]
    <3>1. CASE r = q
      <4>1. Many(ord1, r) = Many(ord, q) - 1
        BY <2>1, <2>3, <3>1 DEF Many
      <4> QED
        BY <2>1, <2>3, <3>1, <4>1
    <3>2. CASE r # q
      <4>1. ord1[r] = ord[r] /\ Many(ord1, r) = Many(ord, r)
        BY <2>3, <3>2 DEF Many
      <4> QED
        BY <1>1, <3>2, <4>1
    <3> QED
      BY <3>1, <3>2
  <2> QED
    BY <2>3, <2>4
<1>4. \A r \in Queue : /\ shift(r) \in {0, 1} /\ shift(r) <= Out(ord, rest, r)
                       /\ Out(ord1, rest, r) = Out(ord, rest, r) - shift(r)
  <2> SUFFICES ASSUME NEW r \in Queue
               PROVE  /\ shift(r) \in {0, 1} /\ shift(r) <= Out(ord, rest, r)
                      /\ Out(ord1, rest, r) = Out(ord, rest, r) - shift(r)
    OBVIOUS
  <2>1. shift(r) \in {0, 1} /\ (shift(r) = 1 => r = q)
    OBVIOUS
  <2> HIDE DEF shift
  <2>2. Many(ord, r) \in Nat /\ Many(rest, r) \in Nat /\ Out(ord, rest, r) \in Nat
    BY <1>1
  <2>3. /\ Many(ord1, r) = Many(ord, r) - shift(r)
        /\ Out(ord, rest, r) = Many(ord, r) - Many(rest, r)
        /\ Out(ord1, rest, r) = Many(ord1, r) - Many(rest, r)
    BY <1>3 DEF Out
  <2>4. shift(r) <= Out(ord, rest, r)
    BY <2>1, <2>2
  <2> QED
    BY ONLY <2>1, <2>2, <2>3, <2>4
<1> HIDE DEF ord1, shift
<1>5. Suffix(ord1, rest)
  <2> SUFFICES ASSUME NEW r \in Queue
               PROVE  /\ Many(rest, r) <= Many(ord1, r)
                      /\ \A k \in 1 .. Many(rest, r) : rest[r][k] = ord1[r][Out(ord1, rest, r) + k]
    BY DEF Suffix
  <2>1. Many(rest, r) <= Many(ord1, r)
    <3>1. /\ Many(ord, r) \in Nat /\ Many(rest, r) \in Nat /\ Out(ord, rest, r) \in Nat
          /\ Many(ord, r) = Out(ord, rest, r) + Many(rest, r)
      BY <1>1
    <3>2. Many(ord1, r) = Many(ord, r) - shift(r) /\ shift(r) \in {0, 1} /\ shift(r) <= Out(ord, rest, r)
      BY <1>3, <1>4
    <3> QED
      BY ONLY <3>1, <3>2
  <2>2. ASSUME NEW k \in 1 .. Many(rest, r) PROVE rest[r][k] = ord1[r][Out(ord1, rest, r) + k]
    <3>1. rest[r][k] = ord[r][Out(ord, rest, r) + k]
      BY DEF Orderly, Suffix
    <3>2. /\ Out(ord1, rest, r) + k \in 1 .. Many(ord1, r)
          /\ (Out(ord1, rest, r) + k) + shift(r) = Out(ord, rest, r) + k
      <4>1. /\ Many(ord, r) \in Nat /\ Many(rest, r) \in Nat /\ Out(ord, rest, r) \in Nat
            /\ Many(ord, r) = Out(ord, rest, r) + Many(rest, r)
        BY <1>1
      <4>2. /\ Many(ord1, r) = Many(ord, r) - shift(r) /\ shift(r) \in {0, 1}
            /\ shift(r) <= Out(ord, rest, r)
            /\ Out(ord1, rest, r) = Out(ord, rest, r) - shift(r)
        BY <1>3, <1>4
      <4> QED
        BY ONLY <4>1, <4>2, k \in 1 .. Many(rest, r)
    <3> QED
      BY <1>3, <3>1, <3>2
  <2> QED
    BY <2>1, <2>2
<1>6. /\ \A r \in Queue : /\ shift(r) \in {0, 1} /\ Many(ord, r) \in Nat
                           /\ Many(ord1, r) = Many(ord, r) - shift(r)
      /\ \A r \in Queue : \A k \in 1 .. Many(ord1, r) : k + shift(r) \in 1 .. Many(ord, r)
  <2>1. ASSUME NEW r \in Queue, NEW k \in 1 .. Many(ord1, r)
        PROVE  k + shift(r) \in 1 .. Many(ord, r)
    <3>1. Many(ord1, r) = Many(ord, r) - shift(r) /\ shift(r) \in {0, 1} /\ Many(ord, r) \in Nat
      BY <1>1, <1>3, <1>4
    <3> QED
      BY ONLY <3>1, k \in 1 .. Many(ord1, r)
  <2> QED
    BY <1>1, <1>3, <1>4, <2>1
<1>7. Distinct(ord1)
  <2> SUFFICES ASSUME NEW r \in Queue, NEW u \in Queue, NEW k \in 1 .. Many(ord1, r),
                      NEW l \in 1 .. Many(ord1, u), ord1[r][k] = ord1[u][l]
               PROVE  r = u /\ k = l
    BY DEF Distinct
  <2>1. ord[r][k + shift(r)] = ord[u][l + shift(u)]
    BY <1>3
  <2>2. Distinct(ord) /\ k + shift(r) \in 1 .. Many(ord, r) /\ l + shift(u) \in 1 .. Many(ord, u)
    BY <1>6 DEF Orderly
  <2>3. r = u /\ k + shift(r) = l + shift(u)
    BY ONLY r \in Queue, u \in Queue, <2>1, <2>2 DEF Distinct
  <2>4. shift(r) \in {0, 1} /\ Many(ord1, r) \in Int
    BY <1>6
  <2> QED
    BY ONLY <2>3, <2>4, k \in 1 .. Many(ord1, r), l \in 1 .. Many(ord1, u)
<1>8. \A r \in Queue : \A k \in 1 .. Many(ord1, r) : ord1[r][k] # held[0]
  <2> SUFFICES ASSUME NEW r \in Queue, NEW k \in 1 .. Many(ord1, r), ord1[r][k] = held[0]
               PROVE  FALSE
    OBVIOUS
  <2>1. ord[r][k + shift(r)] = ord[q][1] /\ 1 \in 1 .. Many(ord, q) /\ k + shift(r) \in 1 .. Many(ord, r)
    <3>1. ord1[r][k] = ord[r][k + shift(r)] /\ k + shift(r) \in 1 .. Many(ord, r)
      BY <1>3, <1>6
    <3>2. held[0] = ord[q][1] /\ 1 \in 1 .. Many(ord, q)
      BY <1>1, <1>2
    <3> QED
      BY <3>1, <3>2
  <2>2. r = q /\ k + shift(r) = 1
    BY <2>1 DEF Orderly, Distinct
  <2>3. shift(q) = 1
    BY DEF shift
  <2>4. Many(ord1, r) \in Int
    BY <1>6
  <2> QED
    BY ONLY <2>2, <2>3, <2>4, k \in 1 .. Many(ord1, r)
<1>9. Buffered(new, n - 1, ord1, rest)
  <2>1. ASSUME NEW r \in Queue, NEW k \in 1 .. Out(ord1, rest, r)
        PROVE  \E i \in 0 .. (n - 1) - 1 : new[i] = ord1[r][k]
    <3>1. k \in 1 .. Many(ord1, r) /\ k + shift(r) \in 1 .. Out(ord, rest, r)
      <4>1. /\ Out(ord1, rest, r) = Out(ord, rest, r) - shift(r)
            /\ Out(ord, rest, r) \in 0 .. Many(ord, r)
        BY <1>1, <1>4
      <4>2. /\ shift(r) \in {0, 1} /\ Many(ord, r) \in Nat
            /\ Many(ord1, r) = Many(ord, r) - shift(r)
        BY <1>6
      <4> QED
        BY ONLY <4>1, <4>2, k \in 1 .. Out(ord1, rest, r)
    <3>2. PICK i \in 0 .. n - 1 : held[i] = ord[r][k + shift(r)]
      BY <3>1 DEF Orderly, Buffered
    <3>3. ord1[r][k] = held[i]
      BY <1>3, <3>1, <3>2
    <3>4. i # 0
      BY <1>8, <3>1, <3>3
    <3>5. i - 1 \in 0 .. (n - 1) - 1 /\ i - 1 \in 0 .. n - 2 /\ (i - 1) + 1 = i
      BY <1>1, <3>4
    <3> QED
      BY <3>3, <3>5
  <2>2. ASSUME NEW i \in 0 .. (n - 1) - 1
        PROVE  \E r \in Queue : \E k \in 1 .. Out(ord1, rest, r) : new[i] = ord1[r][k]
    <3>1. i + 1 \in 0 .. n - 1 /\ i \in 0 .. n - 2 /\ 0 \in 0 .. n - 1 /\ 0 < i + 1
      BY <1>1
    <3>2. PICK r \in Queue : \E k \in 1 .. Out(ord, rest, r) : held[i + 1] = ord[r][k]
      BY <3>1 DEF Orderly, Buffered
    <3>3. PICK k \in 1 .. Out(ord, rest, r) : held[i + 1] = ord[r][k]
      BY <3>2
    <3>4. r = q => 1 < k
      <4>1. k \in 1 .. Many(ord, r) /\ 1 \in 1 .. Many(ord, q)
        BY <1>1, <1>2
      <4> QED
        BY <3>1, <3>3, <4>1 DEF Orderly, InTurn
    <3>5. k - shift(r) \in 1 .. Out(ord1, rest, r) /\ k - shift(r) \in 1 .. Many(ord1, r)
          /\ (k - shift(r)) + shift(r) = k
      <4>1. /\ Many(ord, r) \in Nat /\ Out(ord, rest, r) \in 0 .. Many(ord, r)
            /\ Many(ord1, r) = Many(ord, r) - shift(r) /\ shift(r) \in {0, 1}
            /\ Out(ord1, rest, r) = Out(ord, rest, r) - shift(r)
        BY <1>1, <1>3, <1>4
      <4>2. shift(r) = 1 => 1 < k
        BY <3>4 DEF shift
      <4> QED
        BY ONLY <4>1, <4>2, k \in 1 .. Out(ord, rest, r)
    <3>6. new[i] = ord1[r][k - shift(r)]
      BY <1>3, <3>1, <3>3, <3>5
    <3> QED
      BY <3>5, <3>6
  <2> QED
    BY <2>1, <2>2 DEF Buffered
<1>10. InTurn(new, n - 1, ord1)
  <2> SUFFICES ASSUME NEW i \in 0 .. (n - 1) - 1, NEW j \in 0 .. (n - 1) - 1, NEW r \in Queue,
                      NEW k \in 1 .. Many(ord1, r), NEW l \in 1 .. Many(ord1, r),
                      i < j, new[i] = ord1[r][k], new[j] = ord1[r][l]
               PROVE  k < l
    BY DEF InTurn
  <2>1. /\ i + 1 \in 0 .. n - 1 /\ j + 1 \in 0 .. n - 1 /\ i + 1 < j + 1
        /\ i \in 0 .. n - 2 /\ j \in 0 .. n - 2
    BY <1>1
  <2>2. held[i + 1] = ord[r][k + shift(r)] /\ held[j + 1] = ord[r][l + shift(r)]
    BY <1>3, <2>1
  <2>3. k + shift(r) < l + shift(r)
    BY <1>6, <2>1, <2>2 DEF Orderly, InTurn
  <2>4. shift(r) \in {0, 1} /\ Many(ord1, r) \in Int
    BY <1>6
  <2> QED
    BY ONLY <2>3, <2>4, k \in 1 .. Many(ord1, r), l \in 1 .. Many(ord1, r)
<1>11. n - 1 \in 0 .. S /\ (n - 1) - 1 = n - 2
  BY <1>1
<1>12. rest \in [Queue -> Seq(Tasks)]
  BY DEF Orderly
<1>13. Orderly(new, n - 1, ord1, rest)
  BY <1>3, <1>5, <1>7, <1>9, <1>10, <1>11, <1>12 DEF Orderly
<1>14. held[0] \notin Members(ord1)
  BY <1>3, <1>8, MembersFacts
<1> QED
  BY <1>13, <1>14 DEF ord1

(* So does a task that moves from the head of its queue to the buffer, ... *)
LEMMA OrderlyFill ==
    ASSUME NEW held, NEW n, n < S, NEW ord, NEW rest, Orderly(held, n, ord, rest),
           NEW q \in Queue, rest[q] # <<>>,
           NEW new, new \in [0 .. n -> Tasks], \A i \in 0 .. n - 1 : new[i] = held[i],
           new[n] = Head(rest[q])
    PROVE  Orderly(new, n + 1, ord, [rest EXCEPT ![q] = Tail(@)])
<1> DEFINE rest1 == [rest EXCEPT ![q] = Tail(@)]
           shift(r) == IF r = q THEN 1 ELSE 0
<1>1. /\ n \in Nat /\ n <= S /\ S \in Nat
      /\ \A r \in Queue : /\ ord[r] \in Seq(Tasks) /\ rest[r] \in Seq(Tasks)
                          /\ Many(ord, r) \in Nat /\ Many(rest, r) \in Nat
                          /\ Out(ord, rest, r) \in 0 .. Many(ord, r)
                          /\ Many(ord, r) = Out(ord, rest, r) + Many(rest, r)
  BY OrderlyFacts
<1>2. /\ Many(rest, q) \in Nat \ {0} /\ Head(rest[q]) = rest[q][1]
      /\ Tail(rest[q]) \in Seq(Tasks) /\ Len(Tail(rest[q])) = Many(rest, q) - 1
      /\ \A k \in 1 .. Many(rest, q) - 1 : Tail(rest[q])[k] = rest[q][k + 1]
  BY <1>1, TailFacts DEF Many
<1>3. /\ rest1 \in [Queue -> Seq(Tasks)]
      /\ \A r \in Queue : /\ Many(rest1, r) = Many(rest, r) - shift(r)
                          /\ \A k \in 1 .. Many(rest1, r) : rest1[r][k] = rest[r][k + shift(r)]
  <2>1. rest \in [Queue -> Seq(Tasks)]
    BY DEF Orderly
  <2>2. rest1 \in [Queue -> Seq(Tasks)] /\ rest1[q] = Tail(rest[q]) /\ \A r \in Queue : r # q => rest1[r] = rest[r]
    BY <1>2, <2>1
  <2>3. ASSUME NEW r \in Queue
        PROVE  /\ Many(rest1, r) = Many(rest, r) - shift(r)
               /\ \A k \in 1 .. Many(rest1, r) : rest1[r][k] = rest[r][k + shift(r)]
    <3>1. CASE r = q
      <4>1. Many(rest1, r) = Many(rest, q) - 1
        BY <1>2, <2>2, <3>1 DEF Many
      <4> HIDE DEF rest1
      <4> QED
        BY <1>2, <2>2, <3>1, <4>1
    <3>2. CASE r # q
      <4>1. rest1[r] = rest[r] /\ Many(rest1, r) = Many(rest, r)
        BY <2>2, <3>2 DEF Many
      <4> HIDE DEF rest1
      <4> QED
        BY <1>1, <3>2, <4>1
    <3> QED
      BY <3>1, <3>2
  <2> QED
    BY <2>2, <2>3
<1>4. \A r \in Queue : /\ shift(r) \in {0, 1} /\ shift(r) <= Many(rest, r)
                       /\ Out(ord, rest1, r) = Out(ord, rest, r) + shift(r)
  <2> SUFFICES ASSUME NEW r \in Queue
               PROVE  /\ shift(r) \in {0, 1} /\ shift(r) <= Many(rest, r)
                      /\ Out(ord, rest1, r) = Out(ord, rest, r) + shift(r)
    OBVIOUS
  <2> HIDE DEF rest1
  <2>1. shift(r) \in {0, 1} /\ (shift(r) = 1 => r = q)
    OBVIOUS
  <2> HIDE DEF shift
  <2>2. Many(ord, r) \in Nat /\ Many(rest, r) \in Nat
    BY <1>1
  <2>3. /\ Many(rest1, r) = Many(rest, r) - shift(r)
        /\ Out(ord, rest, r) = Many(ord, r) - Many(rest, r)
        /\ Out(ord, rest1, r) = Many(ord, r) - Many(rest1, r)
    BY <1>3 DEF Out
  <2>4. shift(r) <= Many(rest, r)
    BY <1>2, <2>1, <2>2
  <2> QED
    BY ONLY <2>1, <2>2, <2>3, <2>4
<1> HIDE DEF rest1, shift
<1>5. new[n] = ord[q][Out(ord, rest, q) + 1] /\ Out(ord, rest, q) + 1 \in 1 .. Many(ord, q)
      /\ Out(ord, rest, q) + 1 \in 1 .. Out(ord, rest1, q)
  <2>1. 1 \in 1 .. Many(rest, q)
    BY <1>2
  <2>2. rest[q][1] = ord[q][Out(ord, rest, q) + 1]
    BY <2>1 DEF Orderly, Suffix
  <2>3. /\ Out(ord, rest, q) \in Nat /\ Many(rest, q) \in Nat \ {0}
        /\ Many(ord, q) = Out(ord, rest, q) + Many(rest, q)
        /\ Out(ord, rest1, q) = Out(ord, rest, q) + 1
    BY <1>1, <1>2, <1>4 DEF shift
  <2> QED
    BY <1>2, <2>2, <2>3
<1>6. Suffix(ord, rest1)
  <2> SUFFICES ASSUME NEW r \in Queue
               PROVE  /\ Many(rest1, r) <= Many(ord, r)
                      /\ \A k \in 1 .. Many(rest1, r) : rest1[r][k] = ord[r][Out(ord, rest1, r) + k]
    BY DEF Suffix
  <2>0. /\ Many(ord, r) \in Nat /\ Many(rest, r) \in Nat /\ Out(ord, rest, r) \in Nat
        /\ Many(ord, r) = Out(ord, rest, r) + Many(rest, r)
        /\ Many(rest1, r) = Many(rest, r) - shift(r)
        /\ shift(r) \in {0, 1} /\ shift(r) <= Many(rest, r)
        /\ Out(ord, rest1, r) = Out(ord, rest, r) + shift(r)
    BY <1>1, <1>3, <1>4
  <2>1. Many(rest1, r) <= Many(ord, r)
    BY ONLY <2>0
  <2>2. ASSUME NEW k \in 1 .. Many(rest1, r) PROVE rest1[r][k] = ord[r][Out(ord, rest1, r) + k]
    <3>1. /\ k + shift(r) \in 1 .. Many(rest, r)
          /\ Out(ord, rest1, r) + k = Out(ord, rest, r) + (k + shift(r))
      BY ONLY <2>0, k \in 1 .. Many(rest1, r)
    <3>2. rest[r][k + shift(r)] = ord[r][Out(ord, rest, r) + (k + shift(r))]
      BY <3>1 DEF Orderly, Suffix
    <3> QED
      BY <1>3, <3>1, <3>2
  <2> QED
    BY <2>1, <2>2
<1>8. Buffered(new, n + 1, ord, rest1)
  <2>1. ASSUME NEW r \in Queue, NEW k \in 1 .. Out(ord, rest1, r)
        PROVE  \E i \in 0 .. (n + 1) - 1 : new[i] = ord[r][k]
    <3>1. CASE k \in 1 .. Out(ord, rest, r)
      <4>1. PICK i \in 0 .. n - 1 : held[i] = ord[r][k]
        BY <3>1 DEF Orderly, Buffered
      <4>2. i \in 0 .. (n + 1) - 1
        BY <1>1
      <4> QED
        BY <4>1, <4>2
    <3>2. CASE k \notin 1 .. Out(ord, rest, r)
      <4>1. r = q /\ k = Out(ord, rest, q) + 1
        BY <1>1, <1>4, <3>2 DEF shift
      <4>2. n \in 0 .. (n + 1) - 1
        BY <1>1
      <4> QED
        BY <1>5, <4>1, <4>2
    <3> QED
      BY <3>1, <3>2
  <2>2. ASSUME NEW i \in 0 .. (n + 1) - 1
        PROVE  \E r \in Queue : \E k \in 1 .. Out(ord, rest1, r) : new[i] = ord[r][k]
    <3>1. CASE i \in 0 .. n - 1
      <4>1. PICK r \in Queue : \E k \in 1 .. Out(ord, rest, r) : held[i] = ord[r][k]
        BY <3>1 DEF Orderly, Buffered
      <4>2. PICK k \in 1 .. Out(ord, rest, r) : held[i] = ord[r][k]
        BY <4>1
      <4>3. k \in 1 .. Out(ord, rest1, r)
        BY <1>1, <1>4
      <4> QED
        BY <3>1, <4>2, <4>3
    <3>2. CASE i = n
      BY <1>5, <3>2
    <3> QED
      BY <1>1, <3>1, <3>2
  <2> QED
    BY <2>1, <2>2 DEF Buffered
<1>9. InTurn(new, n + 1, ord)
  <2> SUFFICES ASSUME NEW i \in 0 .. (n + 1) - 1, NEW j \in 0 .. (n + 1) - 1, NEW r \in Queue,
                      NEW k \in 1 .. Many(ord, r), NEW l \in 1 .. Many(ord, r),
                      i < j, new[i] = ord[r][k], new[j] = ord[r][l]
               PROVE  k < l
    BY DEF InTurn
  <2>1. i \in 0 .. n - 1
    BY <1>1
  <2>2. CASE j \in 0 .. n - 1
    BY <2>1, <2>2 DEF Orderly, InTurn
  <2>3. CASE j = n
    <3>1. r = q /\ l = Out(ord, rest, q) + 1
      BY <1>5, <2>3 DEF Orderly, Distinct
    <3>2. PICK u \in Queue : \E m \in 1 .. Out(ord, rest, u) : held[i] = ord[u][m]
      BY <2>1 DEF Orderly, Buffered
    <3>3. PICK m \in 1 .. Out(ord, rest, u) : held[i] = ord[u][m]
      BY <3>2
    <3>4. m \in 1 .. Many(ord, u) /\ ord[u][m] = ord[r][k]
      <4>1. Many(ord, u) \in Nat /\ Out(ord, rest, u) \in 0 .. Many(ord, u)
        BY <1>1
      <4>2. new[i] = held[i]
        BY <2>1
      <4> QED
        BY <3>3, <4>1, <4>2
    <3>5. u = r /\ m = k
      BY <3>4 DEF Orderly, Distinct
    <3> QED
      BY <1>1, <3>1, <3>5
  <2> QED
    BY <1>1, <2>2, <2>3
<1>10. n + 1 \in 0 .. S /\ (n + 1) - 1 = n
  BY <1>1
<1>11. ord \in [Queue -> Seq(Tasks)] /\ Distinct(ord)
  BY DEF Orderly
<1>12. Orderly(new, n + 1, ord, rest1)
  BY <1>3, <1>6, <1>8, <1>9, <1>10, <1>11 DEF Orderly
<1> QED
  BY <1>12 DEF rest1

(* ... and one that is appended to a queue and is in none. *)
LEMMA OrderlyPush ==
    ASSUME NEW held, NEW n, NEW ord, NEW rest, Orderly(held, n, ord, rest),
           NEW q \in Queue, NEW t \in Tasks,
           t \notin Members(ord)
    PROVE  Orderly(held, n, [ord EXCEPT ![q] = Append(@, t)], [rest EXCEPT ![q] = Append(@, t)])
<1> DEFINE ord1  == [ord EXCEPT ![q] = Append(@, t)]
           rest1 == [rest EXCEPT ![q] = Append(@, t)]
           shift(r) == IF r = q THEN 1 ELSE 0
<1>0. \A r \in Queue : \A k \in 1 .. Many(ord, r) : ord[r][k] # t
  BY MembersFacts DEF Orderly
<1>1. /\ n \in Nat /\ n <= S /\ S \in Nat
      /\ \A r \in Queue : /\ ord[r] \in Seq(Tasks) /\ rest[r] \in Seq(Tasks)
                          /\ Many(ord, r) \in Nat /\ Many(rest, r) \in Nat
                          /\ Out(ord, rest, r) \in 0 .. Many(ord, r)
                          /\ Many(ord, r) = Out(ord, rest, r) + Many(rest, r)
  BY OrderlyFacts
<1>2. ASSUME NEW f, f \in [Queue -> Seq(Tasks)]
      PROVE  LET f1 == [f EXCEPT ![q] = Append(@, t)]
             IN  /\ f1 \in [Queue -> Seq(Tasks)]
                 /\ Many(f1, q) = Many(f, q) + 1 /\ f1[q][Many(f, q) + 1] = t
                 /\ \A k \in 1 .. Many(f, q) : f1[q][k] = f[q][k]
                 /\ \A r \in Queue : r # q => f1[r] = f[r] /\ Many(f1, r) = Many(f, r)
  <2> DEFINE f1 == [f EXCEPT ![q] = Append(@, t)]
  <2>1. f[q] \in Seq(Tasks)
    BY <1>2
  <2>2. /\ Append(f[q], t) \in Seq(Tasks) /\ Len(Append(f[q], t)) = Len(f[q]) + 1
        /\ \A k \in 1 .. Len(f[q]) : Append(f[q], t)[k] = f[q][k]
        /\ Append(f[q], t)[Len(f[q]) + 1] = t
    BY <2>1, AppendFacts
  <2>3. /\ f1 \in [Queue -> Seq(Tasks)] /\ f1[q] = Append(f[q], t)
        /\ \A r \in Queue : r # q => f1[r] = f[r]
    BY <1>2, <2>2
  <2> HIDE DEF f1
  <2>4. /\ f1 \in [Queue -> Seq(Tasks)]
        /\ Many(f1, q) = Many(f, q) + 1 /\ f1[q][Many(f, q) + 1] = t
        /\ \A k \in 1 .. Many(f, q) : f1[q][k] = f[q][k]
        /\ \A r \in Queue : r # q => f1[r] = f[r] /\ Many(f1, r) = Many(f, r)
    BY <2>2, <2>3 DEF Many
  <2> QED
    BY <2>4 DEF f1
<1>3. /\ ord1 \in [Queue -> Seq(Tasks)]
      /\ Many(ord1, q) = Many(ord, q) + 1 /\ ord1[q][Many(ord, q) + 1] = t
      /\ \A k \in 1 .. Many(ord, q) : ord1[q][k] = ord[q][k]
      /\ \A r \in Queue : r # q => ord1[r] = ord[r] /\ Many(ord1, r) = Many(ord, r)
  BY <1>2 DEF Orderly
<1>4. /\ rest1 \in [Queue -> Seq(Tasks)]
      /\ Many(rest1, q) = Many(rest, q) + 1 /\ rest1[q][Many(rest, q) + 1] = t
      /\ \A k \in 1 .. Many(rest, q) : rest1[q][k] = rest[q][k]
      /\ \A r \in Queue : r # q => rest1[r] = rest[r] /\ Many(rest1, r) = Many(rest, r)
  BY <1>2 DEF Orderly
<1> HIDE DEF ord1, rest1
<1>5. ASSUME NEW r \in Queue
      PROVE  /\ Many(ord, r) \in Nat /\ Many(rest, r) \in Nat
             /\ Many(ord1, r) = Many(ord, r) + shift(r) /\ Many(rest1, r) = Many(rest, r) + shift(r)
             /\ Out(ord1, rest1, r) = Out(ord, rest, r)
             /\ Out(ord, rest, r) \in 0 .. Many(ord, r)
             /\ Many(ord, r) = Out(ord, rest, r) + Many(rest, r)
             /\ \A k \in 1 .. Many(ord, r) : ord1[r][k] = ord[r][k]
  <2>1. /\ Many(ord, r) \in Nat /\ Many(rest, r) \in Nat
        /\ Out(ord, rest, r) \in 0 .. Many(ord, r)
        /\ Many(ord, r) = Out(ord, rest, r) + Many(rest, r)
    BY <1>1
  <2>2. Many(ord1, r) = Many(ord, r) + shift(r) /\ Many(rest1, r) = Many(rest, r) + shift(r)
    BY <1>3, <1>4, <2>1
  <2>3. shift(r) \in {0, 1}
    OBVIOUS
  <2> HIDE DEF shift
  <2>4. Out(ord1, rest1, r) = Out(ord, rest, r)
    <3>1. /\ Out(ord1, rest1, r) = Many(ord1, r) - Many(rest1, r)
          /\ Out(ord, rest, r) = Many(ord, r) - Many(rest, r)
      BY DEF Out
    <3> QED
      BY <2>1, <2>2, <2>3, <3>1
  <2>5. \A k \in 1 .. Many(ord, r) : ord1[r][k] = ord[r][k]
    BY <1>3
  <2> QED
    BY <2>1, <2>2, <2>4, <2>5
<1>6. Suffix(ord1, rest1)
  <2> SUFFICES ASSUME NEW r \in Queue
               PROVE  /\ Many(rest1, r) <= Many(ord1, r)
                      /\ \A k \in 1 .. Many(rest1, r) : rest1[r][k] = ord1[r][Out(ord1, rest1, r) + k]
    BY DEF Suffix
  <2>1. shift(r) \in {0, 1} /\ (shift(r) = 1 <=> r = q)
    OBVIOUS
  <2> HIDE DEF shift
  <2>2. /\ Many(ord, r) \in Nat /\ Many(rest, r) \in Nat /\ Out(ord, rest, r) \in Nat
        /\ Many(ord1, r) = Many(ord, r) + shift(r) /\ Many(rest1, r) = Many(rest, r) + shift(r)
        /\ Out(ord1, rest1, r) = Out(ord, rest, r)
        /\ Many(ord, r) = Out(ord, rest, r) + Many(rest, r)
    BY <1>5
  <2>3. Many(rest1, r) <= Many(ord1, r)
    BY ONLY <2>1, <2>2
  <2>4. ASSUME NEW k \in 1 .. Many(rest1, r) PROVE rest1[r][k] = ord1[r][Out(ord1, rest1, r) + k]
    <3>1. CASE k \in 1 .. Many(rest, r)
      <4>1. rest[r][k] = ord[r][Out(ord, rest, r) + k]
        BY <3>1 DEF Orderly, Suffix
      <4>2. Out(ord, rest, r) + k \in 1 .. Many(ord, r)
        BY ONLY <2>2, <3>1
      <4>3. ord1[r][Out(ord, rest, r) + k] = ord[r][Out(ord, rest, r) + k]
        BY <1>5, <4>2
      <4>4. rest1[r][k] = rest[r][k]
        BY <1>4, <3>1
      <4> QED
        BY <2>2, <4>1, <4>3, <4>4
    <3>2. CASE k \notin 1 .. Many(rest, r)
      <4>1. r = q /\ k = Many(rest, r) + 1 /\ Out(ord, rest, r) + k = Many(ord, r) + 1
        BY ONLY <2>1, <2>2, <3>2, k \in 1 .. Many(rest1, r)
      <4> QED
        BY <1>3, <1>4, <2>2, <4>1
    <3> QED
      BY <3>1, <3>2
  <2> QED
    BY <2>3, <2>4
<1>7. ASSUME NEW r \in Queue, NEW k \in 1 .. Many(ord1, r)
      PROVE  \/ k \in 1 .. Many(ord, r) /\ ord1[r][k] = ord[r][k] /\ ord1[r][k] # t
             \/ r = q /\ k = Many(ord, q) + 1 /\ ord1[r][k] = t
  <2>1. CASE k \in 1 .. Many(ord, r)
    BY <1>0, <1>5, <2>1
  <2>2. CASE k \notin 1 .. Many(ord, r)
    <3>1. shift(r) \in {0, 1} /\ (shift(r) = 1 <=> r = q)
      OBVIOUS
    <3> HIDE DEF shift
    <3>2. Many(ord, r) \in Nat /\ Many(ord1, r) = Many(ord, r) + shift(r)
      BY <1>5
    <3>3. r = q /\ k = Many(ord, r) + 1
      BY ONLY <2>2, <3>1, <3>2, k \in 1 .. Many(ord1, r)
    <3> QED
      BY <1>3, <3>3
  <2> QED
    BY <2>1, <2>2
<1>8. Distinct(ord1)
  <2> SUFFICES ASSUME NEW r \in Queue, NEW u \in Queue, NEW k \in 1 .. Many(ord1, r),
                      NEW l \in 1 .. Many(ord1, u), ord1[r][k] = ord1[u][l]
               PROVE  r = u /\ k = l
    BY DEF Distinct
  <2>1. CASE ord1[r][k] = t
    <3>1. r = q /\ k = Many(ord, q) + 1
      BY <1>7, <2>1
    <3>2. u = q /\ l = Many(ord, q) + 1
      BY <1>7, <2>1
    <3> QED
      BY ONLY <3>1, <3>2
  <2>2. CASE ord1[r][k] # t
    <3>1. /\ k \in 1 .. Many(ord, r) /\ ord1[r][k] = ord[r][k]
          /\ l \in 1 .. Many(ord, u) /\ ord1[u][l] = ord[u][l]
      BY <1>7, <2>2
    <3>2. Distinct(ord) /\ ord[r][k] = ord[u][l]
      BY <3>1 DEF Orderly
    <3> QED
      BY ONLY r \in Queue, u \in Queue, <3>1, <3>2 DEF Distinct
  <2> QED
    BY <2>1, <2>2
<1>9. \A r \in Queue : \A k \in 1 .. Out(ord, rest, r) : k \in 1 .. Many(ord, r)
  <2> SUFFICES ASSUME NEW r \in Queue, NEW k \in 1 .. Out(ord, rest, r) PROVE k \in 1 .. Many(ord, r)
    OBVIOUS
  <2>1. Many(ord, r) \in Nat /\ Out(ord, rest, r) \in 0 .. Many(ord, r)
    BY <1>5
  <2> QED
    BY <2>1
<1>10. \A i \in 0 .. n - 1 : held[i] # t
  <2> SUFFICES ASSUME NEW i \in 0 .. n - 1 PROVE held[i] # t
    OBVIOUS
  <2>1. PICK r \in Queue : \E k \in 1 .. Out(ord, rest, r) : held[i] = ord[r][k]
    BY DEF Orderly, Buffered
  <2> QED
    BY <1>0, <1>9, <2>1
<1>11. Buffered(held, n, ord1, rest1)
  <2>1. ASSUME NEW r \in Queue, NEW k \in 1 .. Out(ord1, rest1, r)
        PROVE  \E i \in 0 .. n - 1 : held[i] = ord1[r][k]
    <3>1. k \in 1 .. Out(ord, rest, r)
      BY <1>5
    <3>2. PICK i \in 0 .. n - 1 : held[i] = ord[r][k]
      BY <3>1 DEF Orderly, Buffered
    <3> QED
      BY <1>5, <1>9, <3>1, <3>2
  <2>2. ASSUME NEW i \in 0 .. n - 1
        PROVE  \E r \in Queue : \E k \in 1 .. Out(ord1, rest1, r) : held[i] = ord1[r][k]
    <3>1. PICK r \in Queue : \E k \in 1 .. Out(ord, rest, r) : held[i] = ord[r][k]
      BY DEF Orderly, Buffered
    <3>2. PICK k \in 1 .. Out(ord, rest, r) : held[i] = ord[r][k]
      BY <3>1
    <3>3. k \in 1 .. Out(ord1, rest1, r) /\ ord1[r][k] = ord[r][k]
      BY <1>5, <1>9
    <3> QED
      BY <3>2, <3>3
  <2> QED
    BY <2>1, <2>2 DEF Buffered
<1>12. InTurn(held, n, ord1)
  <2> SUFFICES ASSUME NEW i \in 0 .. n - 1, NEW j \in 0 .. n - 1, NEW r \in Queue,
                      NEW k \in 1 .. Many(ord1, r), NEW l \in 1 .. Many(ord1, r),
                      i < j, held[i] = ord1[r][k], held[j] = ord1[r][l]
               PROVE  k < l
    BY DEF InTurn
  <2>1. /\ k \in 1 .. Many(ord, r) /\ ord1[r][k] = ord[r][k]
        /\ l \in 1 .. Many(ord, r) /\ ord1[r][l] = ord[r][l]
    BY <1>7, <1>10
  <2> QED
    BY <2>1 DEF Orderly, InTurn
<1>13. n \in 0 .. S /\ held \in [0 .. n - 1 -> Tasks]
  BY DEF Orderly
<1>14. Orderly(held, n, ord1, rest1)
  BY <1>3, <1>4, <1>6, <1>8, <1>11, <1>12, <1>13 DEF Orderly
<1> QED
  BY <1>14 DEF ord1, rest1

(* The buffer and the queues have what was pushed and has not started, and   *)
(* no task is in both.                                                       *)
LEMMA OrderlyTasks ==
    ASSUME NEW held, NEW n, NEW ord, NEW rest, Orderly(held, n, ord, rest)
    PROVE  LET tasks == {held[i] : i \in 0 .. n - 1}
           IN  Members(ord) = tasks \cup Members(rest) /\ tasks \cap Members(rest) = {}
<1>1. ASSUME NEW q \in Queue
      PROVE  /\ Many(ord, q) \in Nat /\ Many(rest, q) \in Nat
             /\ Out(ord, rest, q) \in 0 .. Many(ord, q)
             /\ Many(ord, q) = Out(ord, rest, q) + Many(rest, q)
  BY OrderlyFacts
<1>2. ASSUME NEW q \in Queue, NEW k \in 1 .. Many(rest, q)
      PROVE  /\ Out(ord, rest, q) + k \in 1 .. Many(ord, q)
             /\ Out(ord, rest, q) + k \notin 1 .. Out(ord, rest, q)
             /\ rest[q][k] = ord[q][Out(ord, rest, q) + k]
  <2>1. rest[q][k] = ord[q][Out(ord, rest, q) + k]
    BY DEF Orderly, Suffix
  <2>2. /\ Many(ord, q) \in Nat /\ Many(rest, q) \in Nat /\ Out(ord, rest, q) \in Nat
        /\ Many(ord, q) = Out(ord, rest, q) + Many(rest, q)
    BY <1>1
  <2>3. /\ Out(ord, rest, q) + k \in 1 .. Many(ord, q)
        /\ Out(ord, rest, q) + k \notin 1 .. Out(ord, rest, q)
    BY ONLY <2>2, k \in 1 .. Many(rest, q)
  <2> QED
    BY <2>1, <2>3
<1>3. ASSUME NEW i \in 0 .. n - 1
      PROVE  \E q \in Queue : \E k \in 1 .. Out(ord, rest, q) : k \in 1 .. Many(ord, q) /\ held[i] = ord[q][k]
  <2>1. PICK q \in Queue : \E k \in 1 .. Out(ord, rest, q) : held[i] = ord[q][k]
    BY DEF Orderly, Buffered
  <2>2. PICK k \in 1 .. Out(ord, rest, q) : held[i] = ord[q][k]
    BY <2>1
  <2>3. Many(ord, q) \in Nat /\ Out(ord, rest, q) \in 0 .. Many(ord, q)
    BY <1>1
  <2>4. k \in 1 .. Many(ord, q)
    BY ONLY <2>3, k \in 1 .. Out(ord, rest, q)
  <2> QED
    BY <2>2, <2>4
<1>4. ASSUME NEW q \in Queue, NEW k \in 1 .. Many(ord, q)
      PROVE  \/ \E i \in 0 .. n - 1 : ord[q][k] = held[i]
             \/ \E l \in 1 .. Many(rest, q) : ord[q][k] = rest[q][l]
  <2>1. CASE k \in 1 .. Out(ord, rest, q)
    BY <2>1 DEF Orderly, Buffered
  <2>2. CASE k \notin 1 .. Out(ord, rest, q)
    <3>1. /\ Many(ord, q) \in Nat /\ Many(rest, q) \in Nat /\ Out(ord, rest, q) \in Nat
          /\ Many(ord, q) = Out(ord, rest, q) + Many(rest, q)
      BY <1>1
    <3>2. /\ k - Out(ord, rest, q) \in 1 .. Many(rest, q)
          /\ Out(ord, rest, q) + (k - Out(ord, rest, q)) = k
      BY ONLY <2>2, <3>1, k \in 1 .. Many(ord, q)
    <3>3. rest[q][k - Out(ord, rest, q)] = ord[q][Out(ord, rest, q) + (k - Out(ord, rest, q))]
      BY <1>2, <3>2
    <3> QED
      BY <3>2, <3>3
  <2> QED
    BY <2>1, <2>2
<1>5. ASSUME NEW i \in 0 .. n - 1, NEW q \in Queue, NEW k \in 1 .. Many(rest, q), held[i] = rest[q][k]
      PROVE  FALSE
  <2>1. PICK r \in Queue : \E l \in 1 .. Out(ord, rest, r) : l \in 1 .. Many(ord, r) /\ held[i] = ord[r][l]
    BY <1>3
  <2>2. PICK l \in 1 .. Out(ord, rest, r) : l \in 1 .. Many(ord, r) /\ held[i] = ord[r][l]
    BY <2>1
  <2>3. /\ Out(ord, rest, q) + k \in 1 .. Many(ord, q)
        /\ Out(ord, rest, q) + k \notin 1 .. Out(ord, rest, q)
        /\ ord[r][l] = ord[q][Out(ord, rest, q) + k]
    BY <1>2, <1>5, <2>2
  <2>4. Distinct(ord)
    BY DEF Orderly
  <2>5. r = q /\ l = Out(ord, rest, q) + k
    BY ONLY r \in Queue, q \in Queue, <2>2, <2>3, <2>4 DEF Distinct
  <2> QED
    BY <2>3, <2>5
<1>6. ASSUME NEW t
      PROVE  (\E q \in Queue : \E k \in 1 .. Many(ord, q) : t = ord[q][k])
             <=> \/ \E i \in 0 .. n - 1 : t = held[i]
                 \/ \E q \in Queue : \E k \in 1 .. Many(rest, q) : t = rest[q][k]
  BY <1>2, <1>3, <1>4
<1> DEFINE tasks == {held[i] : i \in 0 .. n - 1}
<1>7. /\ \A t : t \in Members(ord) <=> \E q \in Queue : \E k \in 1 .. Many(ord, q) : t = ord[q][k]
      /\ \A t : t \in Members(rest) <=> \E q \in Queue : \E k \in 1 .. Many(rest, q) : t = rest[q][k]
  BY MembersFacts DEF Orderly
<1>8. \A t : t \in tasks <=> \E i \in 0 .. n - 1 : t = held[i]
  OBVIOUS
<1> HIDE DEF tasks
<1>9. \A t : t \in Members(ord) <=> t \in tasks \/ t \in Members(rest)
  <2> SUFFICES ASSUME NEW t PROVE t \in Members(ord) <=> t \in tasks \/ t \in Members(rest)
    OBVIOUS
  <2>1. t \in Members(ord) <=> \E q \in Queue : \E k \in 1 .. Many(ord, q) : t = ord[q][k]
    BY ONLY <1>7
  <2>2. t \in Members(rest) <=> \E q \in Queue : \E k \in 1 .. Many(rest, q) : t = rest[q][k]
    BY ONLY <1>7
  <2>3. t \in tasks <=> \E i \in 0 .. n - 1 : t = held[i]
    BY ONLY <1>8
  <2>4. (\E q \in Queue : \E k \in 1 .. Many(ord, q) : t = ord[q][k])
        <=> \/ \E i \in 0 .. n - 1 : t = held[i]
            \/ \E q \in Queue : \E k \in 1 .. Many(rest, q) : t = rest[q][k]
    BY ONLY <1>6
  <2> QED
    BY ONLY <2>1, <2>2, <2>3, <2>4
<1>10. ASSUME NEW t, t \in tasks, t \in Members(rest) PROVE FALSE
  <2>1. PICK i \in 0 .. n - 1 : t = held[i]
    BY ONLY <1>8, <1>10
  <2>2. \E q \in Queue : \E k \in 1 .. Many(rest, q) : t = rest[q][k]
    BY ONLY <1>7, <1>10
  <2> QED
    BY <1>5, <2>1, <2>2
<1>11. Members(ord) = tasks \cup Members(rest) /\ tasks \cap Members(rest) = {}
  BY ONLY <1>9, <1>10
<1> QED
  BY <1>11 DEF tasks

(* The tasks of a ring. *)
LEMMA RingTasks ==
    ASSUME NEW b, NEW n \in 0 .. S, Ring(b, n)
    PROVE  \A t : t \in Range(b.slot) \ {Nil} <=> \E i \in 0 .. n - 1 : t = At(b, i)
<1>1. S \in Nat \ {0} /\ n \in Nat /\ b.head \in Slots /\ b.slot \in [Slots -> Tasks \cup {Nil}]
  BY BufferAssumption, RingFacts
<1>2. ASSUME NEW i \in 0 .. n - 1 PROVE At(b, i) \in Range(b.slot) \ {Nil}
  <2>1. i \in 0 .. S - 1 /\ i < n
    BY <1>1
  <2>2. At(b, i) # Nil /\ Place(b.head, i) \in Slots
    BY <1>1, <2>1, Places DEF Ring
  <2> QED
    BY <1>1, <2>2 DEF At, Range
<1>3. ASSUME NEW t \in Range(b.slot) \ {Nil} PROVE \E i \in 0 .. n - 1 : t = At(b, i)
  <2>1. PICK s \in Slots : t = b.slot[s]
    BY <1>1 DEF Range
  <2>2. PICK i \in 0 .. S - 1 : s = Place(b.head, i)
    BY <1>1, Places
  <2>3. At(b, i) # Nil /\ t = At(b, i)
    BY <2>1, <2>2 DEF At
  <2>4. i < n
    BY <2>3 DEF Ring
  <2>5. i \in 0 .. n - 1
    BY <1>1, <2>4
  <2> QED
    BY <2>3, <2>5
<1> QED
  BY <1>2, <1>3

-----------------------------------------------------------------------------
(* The queues. *)

(* The linked and the pending tasks of a queue. *)
LEMMA ConcatType ==
    ASSUME NEW s \in Seq(Tasks), NEW u \in Seq(Tasks)
    PROVE  s \o u \in Seq(Tasks)
OBVIOUS

LEMMA ConcatAppend ==
    ASSUME NEW s \in Seq(Tasks), NEW u \in Seq(Tasks), NEW t \in Tasks
    PROVE  s \o Append(u, t) = Append(s \o u, t)
OBVIOUS

LEMMA ConcatMove ==
    ASSUME NEW s \in Seq(Tasks), NEW u \in Seq(Tasks), u # <<>>
    PROVE  Append(s, Head(u)) \o Tail(u) = s \o u
OBVIOUS

LEMMA ConcatPop ==
    ASSUME NEW s \in Seq(Tasks), NEW u \in Seq(Tasks), s # <<>>
    PROVE  s \o u # <<>> /\ Head(s \o u) = Head(s) /\ Tail(s \o u) = Tail(s) \o u
OBVIOUS

(* A queue is the local one or a remote one. *)
LEMMA Queues ==
    /\ \A P \in Priority : QueueOf(P, -1) \in Queue /\ QueueOf(P, -1)[1] = P /\ QueueOf(P, -1)[2] = -1
    /\ \A P \in Priority, n \in Node :
          /\ QueueOf(P, n) \in Queue /\ QueueOf(P, n)[1] = P /\ QueueOf(P, n)[2] = n /\ n # -1
    /\ \A q \in Queue : /\ q[1] \in Priority /\ q[2] \in Node \cup {-1} /\ q = QueueOf(q[1], q[2])
<1>1. \A n \in Node : n # -1
  BY ChannelAssumption DEF Node
<1> QED
  BY <1>1 DEF Queue, QueueOf

LEMMA RestsFacts ==
    ASSUME TypeInv
    PROVE  /\ Rests \in [Queue -> Seq(Tasks)]
           /\ \A P \in Priority : local[P] \in Seq(Tasks) /\ Rests[QueueOf(P, -1)] = local[P]
           /\ \A P \in Priority, n \in Node :
                 /\ linked[P][n] \in Seq(Tasks) /\ pending[P][n] \in Seq(Tasks)
                 /\ Rests[QueueOf(P, n)] = linked[P][n] \o pending[P][n]
<1>1. /\ \A P \in Priority : local[P] \in Seq(Tasks)
      /\ \A P \in Priority, n \in Node : linked[P][n] \in Seq(Tasks) /\ pending[P][n] \in Seq(Tasks)
  BY DEF TypeInv
<1>2. \A q \in Queue : Rest(q) \in Seq(Tasks)
  <2> SUFFICES ASSUME NEW q \in Queue PROVE Rest(q) \in Seq(Tasks)
    OBVIOUS
  <2>1. q[1] \in Priority /\ (q[2] = -1 \/ q[2] \in Node)
    BY Queues
  <2>2. CASE q[2] = -1
    BY <1>1, <2>1, <2>2 DEF Rest
  <2>3. CASE q[2] # -1
    <3>1. linked[q[1]][q[2]] \o pending[q[1]][q[2]] \in Seq(Tasks)
      BY <1>1, <2>1, <2>3, ConcatType
    <3> QED
      BY <2>3, <3>1 DEF Rest
  <2> QED
    BY <2>2, <2>3
<1>3. \A P \in Priority : Rests[QueueOf(P, -1)] = local[P]
  BY Queues DEF Rests, Rest
<1>4. \A P \in Priority, n \in Node : Rests[QueueOf(P, n)] = linked[P][n] \o pending[P][n]
  BY Queues DEF Rests, Rest
<1> QED
  BY <1>1, <1>2, <1>3, <1>4 DEF Rests

(* Pushes append to a queue, ... *)
LEMMA RestsPushLocal ==
    ASSUME TypeInv, NEW P \in Priority, NEW t \in Tasks,
           local' = [local EXCEPT ![P] = Append(@, t)], UNCHANGED <<linked, pending>>
    PROVE  /\ local' \in [Priority -> Seq(Tasks)]
           /\ Rests' = [Rests EXCEPT ![QueueOf(P, -1)] = Append(@, t)]
<1>1. local \in [Priority -> Seq(Tasks)] /\ local[P] \in Seq(Tasks) /\ Append(local[P], t) \in Seq(Tasks)
  BY AppendFacts DEF TypeInv
<1>2. local' \in [Priority -> Seq(Tasks)]
  BY <1>1
<1>3. ASSUME NEW q \in Queue
      PROVE  Rest(q)' = IF q = QueueOf(P, -1) THEN Append(Rests[q], t) ELSE Rests[q]
  <2>1. q[1] \in Priority /\ q = QueueOf(q[1], q[2])
    BY Queues
  <2>2. CASE q[2] = -1
    <3>1. Rest(q)' = local'[q[1]] /\ Rests[q] = local[q[1]]
      BY <2>2 DEF Rest, Rests
    <3>2. q = QueueOf(P, -1) <=> q[1] = P
      BY <2>1, <2>2, Queues
    <3> QED
      BY <1>1, <2>1, <3>1, <3>2
  <2>3. CASE q[2] # -1
    <3>1. q # QueueOf(P, -1)
      BY <2>3, Queues
    <3> QED
      BY <2>3, <3>1 DEF Rest, Rests
  <2> QED
    BY <2>2, <2>3
<1>4. Rests' = [q \in Queue |-> IF q = QueueOf(P, -1) THEN Append(Rests[q], t) ELSE Rests[q]]
  BY <1>3 DEF Rests
<1> QED
  BY <1>2, <1>4, RestsFacts

LEMMA RestsPushRemote ==
    ASSUME TypeInv, NEW P \in Priority, NEW n \in Node, NEW t \in Tasks,
           pending' = [pending EXCEPT ![P][n] = Append(@, t)], UNCHANGED <<local, linked>>
    PROVE  /\ pending' \in [Priority -> [Node -> Seq(Tasks)]]
           /\ Rests' = [Rests EXCEPT ![QueueOf(P, n)] = Append(@, t)]
<1>1. /\ pending \in [Priority -> [Node -> Seq(Tasks)]] /\ linked[P][n] \in Seq(Tasks)
      /\ pending[P][n] \in Seq(Tasks) /\ Append(pending[P][n], t) \in Seq(Tasks)
  BY AppendFacts DEF TypeInv
<1>2. /\ pending' \in [Priority -> [Node -> Seq(Tasks)]]
      /\ \A R \in Priority, m \in Node :
            pending'[R][m] = IF R = P /\ m = n THEN Append(pending[P][n], t) ELSE pending[R][m]
  BY <1>1
<1>3. linked[P][n] \o Append(pending[P][n], t) = Append(linked[P][n] \o pending[P][n], t)
  BY <1>1, ConcatAppend
<1>4. ASSUME NEW q \in Queue
      PROVE  Rest(q)' = IF q = QueueOf(P, n) THEN Append(Rests[q], t) ELSE Rests[q]
  <2>1. q[1] \in Priority /\ q = QueueOf(q[1], q[2])
    BY Queues
  <2>2. CASE q[2] = -1
    <3>1. q # QueueOf(P, n)
      BY <2>2, Queues
    <3> QED
      BY <2>2, <3>1 DEF Rest, Rests
  <2>3. CASE q[2] # -1
    <3>1. q[2] \in Node /\ (q = QueueOf(P, n) <=> q[1] = P /\ q[2] = n)
      BY <2>1, <2>3, Queues
    <3>2. Rest(q)' = linked[q[1]][q[2]] \o pending'[q[1]][q[2]]
      BY <2>3 DEF Rest
    <3>3. Rests[q] = linked[q[1]][q[2]] \o pending[q[1]][q[2]]
      BY <2>3 DEF Rest, Rests
    <3> QED
      BY <1>2, <1>3, <2>1, <3>1, <3>2, <3>3
  <2> QED
    BY <2>2, <2>3
<1>5. Rests' = [q \in Queue |-> IF q = QueueOf(P, n) THEN Append(Rests[q], t) ELSE Rests[q]]
  BY <1>4 DEF Rests
<1> QED
  BY <1>2, <1>5, RestsFacts

(* ... a link moves nothing, ... *)
LEMMA RestsLink ==
    ASSUME TypeInv, NEW P \in Priority, NEW n \in Node, Link(P, n)
    PROVE  /\ linked' \in [Priority -> [Node -> Seq(Tasks)]]
           /\ pending' \in [Priority -> [Node -> Seq(Tasks)]]
           /\ Rests' = Rests
<1>1. /\ pending \in [Priority -> [Node -> Seq(Tasks)]] /\ linked \in [Priority -> [Node -> Seq(Tasks)]]
      /\ linked[P][n] \in Seq(Tasks) /\ pending[P][n] \in Seq(Tasks) /\ pending[P][n] # <<>>
  BY DEF TypeInv, Link
<1>2. Append(linked[P][n], Head(pending[P][n])) \in Seq(Tasks) /\ Tail(pending[P][n]) \in Seq(Tasks)
  BY <1>1, AppendFacts, TailFacts
<1>3. /\ pending' \in [Priority -> [Node -> Seq(Tasks)]]
      /\ \A R \in Priority, m \in Node :
            pending'[R][m] = IF R = P /\ m = n THEN Tail(pending[P][n]) ELSE pending[R][m]
  BY <1>1, <1>2 DEF Link
<1>4. /\ linked' \in [Priority -> [Node -> Seq(Tasks)]]
      /\ \A R \in Priority, m \in Node :
            linked'[R][m] = IF R = P /\ m = n THEN Append(linked[P][n], Head(pending[P][n])) ELSE linked[R][m]
  BY <1>1, <1>2 DEF Link
<1>5. Append(linked[P][n], Head(pending[P][n])) \o Tail(pending[P][n]) = linked[P][n] \o pending[P][n]
  BY <1>1, ConcatMove
<1>6. ASSUME NEW q \in Queue PROVE Rest(q)' = Rest(q)
  <2>1. CASE q[2] = -1
    BY <2>1 DEF Rest, Link
  <2>2. CASE q[2] # -1
    <3>1. q[1] \in Priority /\ q[2] \in Node
      BY <2>2, Queues
    <3>2. Rest(q)' = linked'[q[1]][q[2]] \o pending'[q[1]][q[2]]
      BY <2>2 DEF Rest
    <3>3. Rest(q) = linked[q[1]][q[2]] \o pending[q[1]][q[2]]
      BY <2>2 DEF Rest
    <3> QED
      BY <1>3, <1>4, <1>5, <3>1, <3>2, <3>3
  <2> QED
    BY <2>1, <2>2
<1> QED
  BY <1>3, <1>4, <1>6 DEF Rests

(* ... and pop_front takes the first. *)
SourceQueue(P, i) == IF i = 0 THEN QueueOf(P, -1) ELSE QueueOf(P, Region(i))

LEMMA Sources ==
    /\ NumaNodes \in Nat
    /\ \A i \in 1 .. NumaNodes : Region(i) \in Node
    /\ \A P \in Priority, i \in 0 .. NumaNodes : SourceQueue(P, i) \in Queue
<1>1. NumaNodes \in Nat \ {0} /\ OwnNode \in Nat
  BY ChannelAssumption
<1>2. ASSUME NEW i \in 1 .. NumaNodes PROVE Region(i) \in Node
  <2>1. OwnNode + i - 1 \in Nat
    BY <1>1
  <2>2. \A x \in Nat : x % NumaNodes \in 0 .. NumaNodes - 1
    BY <1>1
  <2> QED
    BY <2>1, <2>2 DEF Region, Node
<1>3. \A i \in 0 .. NumaNodes : i # 0 => i \in 1 .. NumaNodes
  BY <1>1
<1> QED
  BY <1>1, <1>2, <1>3, Queues DEF SourceQueue

LEMMA RestsPop ==
    ASSUME TypeInv, NEW P \in Priority, NEW i \in 0 .. NumaNodes, Source(P, i) # <<>>,
           PopFront(P, i), UNCHANGED pending
    PROVE  LET q == SourceQueue(P, i)
           IN  /\ local' \in [Priority -> Seq(Tasks)] /\ linked' \in [Priority -> [Node -> Seq(Tasks)]]
               /\ Rests[q] # <<>> /\ Head(Rests[q]) = Head(Source(P, i)) /\ Head(Source(P, i)) \in Tasks
               /\ Rests' = [Rests EXCEPT ![q] = Tail(@)]
<1>1. /\ local \in [Priority -> Seq(Tasks)] /\ linked \in [Priority -> [Node -> Seq(Tasks)]]
      /\ pending \in [Priority -> [Node -> Seq(Tasks)]] /\ Rests \in [Queue -> Seq(Tasks)]
  BY RestsFacts DEF TypeInv
<1>2. CASE i = 0
  <2>1. /\ local' = [local EXCEPT ![P] = Tail(@)] /\ linked' = linked /\ pending' = pending
        /\ Source(P, i) = local[P] /\ SourceQueue(P, i) = QueueOf(P, -1)
    BY <1>2 DEF PopFront, Source, SourceQueue
  <2>2. local[P] # <<>> /\ Tail(local[P]) \in Seq(Tasks) /\ Head(local[P]) \in Tasks
    BY <1>1, <2>1, TailFacts
  <2>3. local' \in [Priority -> Seq(Tasks)] /\ linked' \in [Priority -> [Node -> Seq(Tasks)]]
    BY <1>1, <2>1, <2>2
  <2>4. Rests[QueueOf(P, -1)] = local[P]
    BY RestsFacts
  <2>5. ASSUME NEW q \in Queue
        PROVE  Rest(q)' = IF q = QueueOf(P, -1) THEN Tail(Rests[q]) ELSE Rests[q]
    <3>1. q[1] \in Priority /\ q = QueueOf(q[1], q[2])
      BY Queues
    <3>2. CASE q[2] = -1
      <4>1. Rest(q)' = local'[q[1]] /\ Rests[q] = local[q[1]]
        BY <3>2 DEF Rest, Rests
      <4>2. q = QueueOf(P, -1) <=> q[1] = P
        BY <3>1, <3>2, Queues
      <4> QED
        BY <1>1, <2>1, <3>1, <4>1, <4>2
    <3>3. CASE q[2] # -1
      <4>1. q # QueueOf(P, -1)
        BY <3>3, Queues
      <4> QED
        BY <2>1, <3>3, <4>1 DEF Rest, Rests
    <3> QED
      BY <3>2, <3>3
  <2>6. Rests' = [q \in Queue |-> IF q = QueueOf(P, -1) THEN Tail(Rests[q]) ELSE Rests[q]]
    BY <2>5 DEF Rests
  <2>7. Rests' = [Rests EXCEPT ![QueueOf(P, -1)] = Tail(@)]
    BY <1>1, <2>6
  <2> QED
    BY <2>1, <2>2, <2>3, <2>4, <2>7
<1>3. CASE i # 0
  <2> DEFINE n == Region(i)
  <2>1. /\ linked' = [linked EXCEPT ![P][n] = Tail(@)] /\ local' = local /\ pending' = pending
        /\ Source(P, i) = linked[P][n] /\ SourceQueue(P, i) = QueueOf(P, n)
    BY <1>3 DEF PopFront, Source, SourceQueue
  <2>2. i \in 1 .. NumaNodes
    BY <1>3, Sources
  <2>3. n \in Node
    BY <2>2, Sources
  <2> HIDE DEF n
  <2>4. /\ linked[P][n] \in Seq(Tasks) /\ pending[P][n] \in Seq(Tasks) /\ linked[P][n] # <<>>
        /\ Rests[QueueOf(P, n)] = linked[P][n] \o pending[P][n]
    BY <2>1, <2>3, RestsFacts
  <2>5. Tail(linked[P][n]) \in Seq(Tasks) /\ Head(linked[P][n]) \in Tasks
    BY <2>4, TailFacts
  <2>6. /\ linked' \in [Priority -> [Node -> Seq(Tasks)]]
        /\ \A R \in Priority, m \in Node :
              linked'[R][m] = IF R = P /\ m = n THEN Tail(linked[P][n]) ELSE linked[R][m]
    BY <1>1, <2>1, <2>3, <2>5
  <2>7. /\ Rests[QueueOf(P, n)] # <<>> /\ Head(Rests[QueueOf(P, n)]) = Head(linked[P][n])
        /\ Tail(Rests[QueueOf(P, n)]) = Tail(linked[P][n]) \o pending[P][n]
    BY <2>4, ConcatPop
  <2>8. ASSUME NEW q \in Queue
        PROVE  Rest(q)' = IF q = QueueOf(P, n) THEN Tail(Rests[q]) ELSE Rests[q]
    <3>1. q[1] \in Priority /\ q = QueueOf(q[1], q[2])
      BY Queues
    <3>2. CASE q[2] = -1
      <4>1. q # QueueOf(P, n)
        BY <2>3, <3>2, Queues
      <4> QED
        BY <2>1, <3>2, <4>1 DEF Rest, Rests
    <3>3. CASE q[2] # -1
      <4>1. q[2] \in Node /\ (q = QueueOf(P, n) <=> q[1] = P /\ q[2] = n)
        BY <2>3, <3>1, <3>3, Queues
      <4>2. Rest(q)' = linked'[q[1]][q[2]] \o pending[q[1]][q[2]]
        BY <2>1, <3>3 DEF Rest
      <4>3. Rests[q] = linked[q[1]][q[2]] \o pending[q[1]][q[2]]
        BY <3>3 DEF Rest, Rests
      <4> QED
        BY <2>6, <2>7, <3>1, <4>1, <4>2, <4>3
    <3> QED
      BY <3>2, <3>3
  <2>9. Rests' = [q \in Queue |-> IF q = QueueOf(P, n) THEN Tail(Rests[q]) ELSE Rests[q]]
    BY <2>8 DEF Rests
  <2>10. Rests' = [Rests EXCEPT ![QueueOf(P, n)] = Tail(@)]
    BY <1>1, <2>9
  <2>11. local' \in [Priority -> Seq(Tasks)]
    BY <1>1, <2>1
  <2> QED
    BY <2>1, <2>5, <2>6, <2>7, <2>10, <2>11
<1> QED
  BY <1>2, <1>3

-----------------------------------------------------------------------------
(* The steps. *)

LEMMA CoreFacts ==
    ASSUME NEW n \in 0 .. S, Core(n)
    PROVE  /\ S \in Nat \ {0} /\ n \in Nat /\ n <= S /\ Nil \notin Tasks
           /\ \A i \in 0 .. n - 1 : At(buffer, i) \in Tasks /\ Held(buffer, n)[i] = At(buffer, i)
           /\ Held(buffer, n) \in [0 .. n - 1 -> Tasks]
           /\ BufferEmpty(buffer) <=> n = 0
           /\ n < S => AvailableSlots(buffer) = S - n
           /\ order \in [Queue -> Seq(Tasks)] /\ Rests \in [Queue -> Seq(Tasks)]
           /\ \A t : t \in BufferTasks <=> \E i \in 0 .. n - 1 : t = At(buffer, i)
<1>1. S \in Nat \ {0} /\ n \in Nat /\ n <= S /\ Nil \notin Tasks
  BY BufferAssumption
<1>2. Ring(buffer, n) /\ order \in [Queue -> Seq(Tasks)] /\ Rests \in [Queue -> Seq(Tasks)]
  BY DEF Core, Orderly
<1>3. /\ \A i \in 0 .. n - 1 : At(buffer, i) \in Tasks
      /\ BufferEmpty(buffer) <=> n = 0
      /\ n < S => AvailableSlots(buffer) = S - n
  BY <1>2, RingFacts
<1>4. \A t : t \in BufferTasks <=> \E i \in 0 .. n - 1 : t = At(buffer, i)
  BY <1>2, RingTasks DEF BufferTasks
<1>5. Held(buffer, n) \in [0 .. n - 1 -> Tasks] /\ \A i \in 0 .. n - 1 : Held(buffer, n)[i] = At(buffer, i)
  BY <1>3 DEF Held
<1> QED
  BY <1>1, <1>2, <1>3, <1>4, <1>5

(* What is in the buffer and the queues has been pushed and has not started. *)
LEMMA PushedTasks ==
    ASSUME TypeInv, NEW n \in 0 .. S, Core(n)
    PROVE  Members(order) = BufferTasks \cup QueueTasks /\ BufferTasks \cap QueueTasks = {}
<1>1. QueueTasks = Members(Rests)
  BY DEF QueueTasks, Members, Rests
<1>2. BufferTasks = {Held(buffer, n)[i] : i \in 0 .. n - 1}
  <2>1. /\ \A t : t \in BufferTasks <=> \E i \in 0 .. n - 1 : t = At(buffer, i)
        /\ \A i \in 0 .. n - 1 : Held(buffer, n)[i] = At(buffer, i)
    BY CoreFacts
  <2> QED
    BY <2>1
<1>3. Orderly(Held(buffer, n), n, order, Rests)
  BY DEF Core
<1> QED
  BY <1>1, <1>2, <1>3, OrderlyTasks

(* A task that is pushed goes to the end of one queue. *)
LEMMA PushCore ==
    ASSUME NEW n \in 0 .. S, Core(n), NEW q \in Queue, NEW t \in Tasks, t \notin Members(order),
           order' = [order EXCEPT ![q] = Append(@, t)],
           Rests' = [Rests EXCEPT ![q] = Append(@, t)], UNCHANGED buffer
    PROVE  /\ Ring(buffer, n)'
           /\ Orderly(Held(buffer, n)', n, order', Rests')
           /\ Members(order)' = Members(order) \cup {t}
<1>1. Ring(buffer, n)' /\ Held(buffer, n)' = Held(buffer, n)
  BY DEF Core, Ring, Held, At
<1>2. Orderly(Held(buffer, n), n, order, Rests)
  BY DEF Core
<1>3. Orderly(Held(buffer, n), n, order', Rests')
  BY <1>2, OrderlyPush
<1>4. order \in [Queue -> Seq(Tasks)]
  BY CoreFacts
<1>5. Range(order'[q]) = Range(order[q]) \cup {t} /\ \A r \in Queue : r # q => order'[r] = order[r]
  <2>1. order[q] \in Seq(Tasks) /\ order'[q] = Append(order[q], t) /\ order'[q] \in Seq(Tasks)
    BY <1>4, AppendFacts
  <2>2. /\ Len(order'[q]) = Len(order[q]) + 1 /\ order'[q][Len(order[q]) + 1] = t
        /\ \A l \in 1 .. Len(order[q]) : order'[q][l] = order[q][l]
        /\ Len(order[q]) \in Nat
    BY <2>1, AppendFacts
  <2>3. \A u : u \in Range(order'[q]) <=> \E k \in 1 .. Len(order'[q]) : u = order'[q][k]
    BY <2>1, RangeFacts
  <2>4. \A u : u \in Range(order[q]) <=> \E k \in 1 .. Len(order[q]) : u = order[q][k]
    BY <2>1, RangeFacts
  <2>5. \A k : k \in 1 .. Len(order'[q]) <=> k \in 1 .. Len(order[q]) \/ k = Len(order[q]) + 1
    BY <2>2
  <2>6. \A u : u \in Range(order'[q]) <=> u \in Range(order[q]) \/ u = t
    BY ONLY <2>2, <2>3, <2>4, <2>5
  <2> QED
    BY <1>4, <2>6
<1>6. Members(order)' = Members(order) \cup {t}
  BY <1>5 DEF Members
<1> QED
  BY <1>1, <1>3, <1>6

(* A step that leaves the buffer, the order and the queues alone. *)
LEMMA SameCore ==
    ASSUME NEW n \in 0 .. S, Core(n), UNCHANGED <<buffer, order>>, Rests' = Rests
    PROVE  Ring(buffer, n)' /\ Orderly(Held(buffer, n)', n, order', Rests') /\ Members(order)' = Members(order)
<1>1. Ring(buffer, n)' /\ Held(buffer, n)' = Held(buffer, n)
  BY DEF Core, Ring, Held, At
<1> QED
  BY <1>1 DEF Core, Members

LEMMA SourceType ==
    ASSUME TypeInv
    PROVE  \A P \in Priority, i \in 0 .. NumaNodes : Source(P, i) \in Seq(Tasks)
<1> SUFFICES ASSUME NEW P \in Priority, NEW i \in 0 .. NumaNodes PROVE Source(P, i) \in Seq(Tasks)
  OBVIOUS
<1>1. CASE i = 0
  BY <1>1, RestsFacts DEF Source
<1>2. CASE i # 0
  <2>1. i \in 1 .. NumaNodes
    BY <1>2, Sources
  <2>2. Region(i) \in Node
    BY <2>1, Sources
  <2> QED
    BY <1>2, <2>2, RestsFacts DEF Source
<1> QED
  BY <1>1, <1>2

(* The start of a fill. *)
LEMMA FillBegins ==
    ASSUME NEW b, NEW n \in 0 .. S, n < S, Ring(b, n), NEW then \in {"next", "run", "profile"}, TypeInv,
           Fill(b, then), UNCHANGED queues
    PROVE  /\ filling' \in Fills /\ pc' = "filling" /\ filling'.room = S - n /\ filling'.then = then
           /\ SeenInv'
<1>1. S \in Nat \ {0} /\ NumaNodes \in Nat /\ AvailableSlots(b) = S - n /\ S - n \in 0 .. S
  BY BufferAssumption, ChannelAssumption, RingFacts
<1>2. \A P \in Priority, i \in 0 .. NumaNodes : Source(P, i) \in Seq(Tasks)
  BY SourceType
<1>3. Ready("normal") \subseteq Tasks
  <2>1. \A i \in 0 .. NumaNodes : Range(Source("normal", i)) \subseteq Tasks
    BY <1>2, RangeFacts DEF Priority
  <2> QED
    BY <2>1 DEF Ready
<1>4. filling' = [priority |-> "normal", source |-> 0, room |-> S - n, then |-> then, seen |-> Ready("normal")]
      /\ pc' = "filling"
  BY <1>1 DEF Fill
<1>5. filling' \in Fills
  BY <1>1, <1>3, <1>4 DEF Fills, Priority
<1>6. \A i : Source("normal", i)' = Source("normal", i)
  BY DEF Source, queues
<1>7. ASSUME NEW t \in filling'.seen
      PROVE  filling'.priority = "normal" /\ \E i \in filling'.source .. NumaNodes : t \in Range(Source("normal", i)')
  BY <1>4, <1>6 DEF Ready
<1>8. SeenInv'
  BY <1>4, <1>7 DEF SeenInv
<1> QED
  BY <1>4, <1>5, <1>8

(* What a fill has seen stays so when nothing leaves a queue. *)
LEMMA SeenKept ==
    ASSUME SeenInv, pc' = "filling" => pc = "filling" /\ filling' = filling, UNCHANGED buffer,
           \A i \in 0 .. NumaNodes : Range(Source("normal", i)) \subseteq Range(Source("normal", i)'),
           filling \in Fills
    PROVE  SeenInv'
<1> SUFFICES ASSUME pc' = "filling", NEW t \in filling.seen
             PROVE  \/ t \in BufferTasks
                    \/ /\ filling.priority = "normal"
                       /\ \E i \in filling.source .. NumaNodes : t \in Range(Source("normal", i)')
  BY DEF SeenInv, BufferTasks
<1>1. NumaNodes \in Nat /\ filling.source \in 0 .. NumaNodes
  BY ChannelAssumption DEF Fills
<1>2. \A i \in filling.source .. NumaNodes : i \in 0 .. NumaNodes
  BY <1>1
<1>3. \/ t \in BufferTasks
      \/ /\ filling.priority = "normal"
         /\ \E i \in filling.source .. NumaNodes : t \in Range(Source("normal", i))
  BY DEF SeenInv
<1> QED
  BY <1>2, <1>3

LEMMA RangeAppend ==
    ASSUME NEW s \in Seq(Tasks), NEW t \in Tasks
    PROVE  Range(s) \subseteq Range(Append(s, t))
<1>1. /\ Append(s, t) \in Seq(Tasks) /\ Len(Append(s, t)) = Len(s) + 1 /\ Len(s) \in Nat
      /\ \A k \in 1 .. Len(s) : Append(s, t)[k] = s[k]
  BY AppendFacts
<1>2. \A u : u \in Range(s) <=> \E k \in 1 .. Len(s) : u = s[k]
  BY RangeFacts
<1>3. \A u : u \in Range(Append(s, t)) <=> \E k \in 1 .. Len(Append(s, t)) : u = Append(s, t)[k]
  BY <1>1, RangeFacts
<1>4. \A k \in 1 .. Len(s) : k \in 1 .. Len(Append(s, t))
  BY <1>1
<1> QED
  BY ONLY <1>1, <1>2, <1>3, <1>4

(* What is fresh is in no order and is not executed. *)
LEMMA FreshTasks ==
    ASSUME TypeInv, NEW n \in 0 .. S, Core(n), NEW t \in Fresh
    PROVE  t \in Tasks /\ t \notin Members(order) /\ t # current
<1>1. t \in Tasks /\ t \notin BufferTasks \cup QueueTasks /\ t # current
  BY DEF Fresh, Idle
<1> QED
  BY <1>1, PushedTasks

LEMMA StepPushLocal ==
    ASSUME ChannelInv, NEW t \in Tasks, NEW P \in Priority, PushLocal(t, P)
    PROVE  ChannelInv'
<1>1. PICK n \in 0 .. S : Core(n)
  BY DEF ChannelInv
<1>2. TypeInv /\ SeenInv
  BY DEF ChannelInv
<1>3. /\ local' = [local EXCEPT ![P] = Append(@, t)] /\ order' = [order EXCEPT ![QueueOf(P, -1)] = Append(@, t)]
      /\ UNCHANGED <<linked, pending, buffer, size, pc, filling, current>> /\ t \in Fresh
  BY DEF PushLocal
<1>4. t \notin Members(order) /\ t # current
  BY <1>1, <1>2, <1>3, FreshTasks
<1>5. local' \in [Priority -> Seq(Tasks)] /\ Rests' = [Rests EXCEPT ![QueueOf(P, -1)] = Append(@, t)]
  BY <1>2, <1>3, RestsPushLocal
<1>6. QueueOf(P, -1) \in Queue
  BY Queues
<1>7. /\ Ring(buffer, n)' /\ Orderly(Held(buffer, n)', n, order', Rests')
      /\ Members(order)' = Members(order) \cup {t}
  BY <1>1, <1>3, <1>4, <1>5, <1>6, PushCore
<1>8. WorkerInv(n)'
  BY <1>1, <1>3, <1>4, <1>7 DEF Core, WorkerInv
<1>9. TypeInv'
  BY <1>2, <1>3, <1>5 DEF TypeInv
<1>10. SeenInv'
  <2>1. ASSUME NEW i \in 0 .. NumaNodes PROVE Range(Source("normal", i)) \subseteq Range(Source("normal", i)')
    <3>1. CASE i = 0
      <4>1. local \in [Priority -> Seq(Tasks)] /\ "normal" \in Priority
        BY <1>2 DEF TypeInv, Priority
      <4>2. local'["normal"] = local["normal"] \/ local'["normal"] = Append(local["normal"], t)
        BY <1>3, <4>1
      <4>3. local["normal"] \in Seq(Tasks)
        BY <4>1
      <4> QED
        BY <3>1, <4>2, <4>3, RangeAppend DEF Source
    <3>2. CASE i # 0
      BY <1>3, <3>2 DEF Source
    <3> QED
      BY <3>1, <3>2
  <2>2. filling \in Fills
    BY <1>2 DEF TypeInv
  <2> QED
    BY <1>2, <1>3, <2>1, <2>2, SeenKept
<1> QED
  BY <1>7, <1>8, <1>9, <1>10 DEF ChannelInv, Core

LEMMA StepPushRemote ==
    ASSUME ChannelInv, NEW t \in Tasks, NEW P \in Priority, NEW m \in Node, PushRemote(t, P, m)
    PROVE  ChannelInv'
<1>1. PICK n \in 0 .. S : Core(n)
  BY DEF ChannelInv
<1>2. TypeInv /\ SeenInv
  BY DEF ChannelInv
<1>3. /\ pending' = [pending EXCEPT ![P][m] = Append(@, t)] /\ order' = [order EXCEPT ![QueueOf(P, m)] = Append(@, t)]
      /\ UNCHANGED <<local, linked, buffer, size, pc, filling, current>> /\ t \in Fresh
  BY DEF PushRemote
<1>4. t \notin Members(order) /\ t # current
  BY <1>1, <1>2, <1>3, FreshTasks
<1>5. pending' \in [Priority -> [Node -> Seq(Tasks)]] /\ Rests' = [Rests EXCEPT ![QueueOf(P, m)] = Append(@, t)]
  BY <1>2, <1>3, RestsPushRemote
<1>6. QueueOf(P, m) \in Queue
  BY Queues
<1>7. /\ Ring(buffer, n)' /\ Orderly(Held(buffer, n)', n, order', Rests')
      /\ Members(order)' = Members(order) \cup {t}
  BY <1>1, <1>3, <1>4, <1>5, <1>6, PushCore
<1>8. WorkerInv(n)'
  BY <1>1, <1>3, <1>4, <1>7 DEF Core, WorkerInv
<1>9. TypeInv'
  BY <1>2, <1>3, <1>5 DEF TypeInv
<1>10. SeenInv'
  <2>1. \A i \in 0 .. NumaNodes : Range(Source("normal", i)) \subseteq Range(Source("normal", i)')
    BY <1>3 DEF Source
  <2>2. filling \in Fills
    BY <1>2 DEF TypeInv
  <2> QED
    BY <1>2, <1>3, <2>1, <2>2, SeenKept
<1> QED
  BY <1>7, <1>8, <1>9, <1>10 DEF ChannelInv, Core

LEMMA StepLink ==
    ASSUME ChannelInv, NEW P \in Priority, NEW m \in Node, Link(P, m)
    PROVE  ChannelInv'
<1>1. PICK n \in 0 .. S : Core(n)
  BY DEF ChannelInv
<1>2. TypeInv /\ SeenInv
  BY DEF ChannelInv
<1>3. /\ pending[P][m] # <<>> /\ linked' = [linked EXCEPT ![P][m] = Append(@, Head(pending[P][m]))]
      /\ UNCHANGED <<local, buffer, size, pc, filling, current, order, spawned>>
  BY DEF Link
<1>4. /\ linked' \in [Priority -> [Node -> Seq(Tasks)]] /\ pending' \in [Priority -> [Node -> Seq(Tasks)]]
      /\ Rests' = Rests
  BY <1>2, RestsLink
<1>5. /\ Ring(buffer, n)' /\ Orderly(Held(buffer, n)', n, order', Rests') /\ Members(order)' = Members(order)
  BY <1>1, <1>3, <1>4, SameCore
<1>6. WorkerInv(n)'
  BY <1>1, <1>3, <1>5 DEF Core, WorkerInv
<1>7. TypeInv'
  BY <1>2, <1>3, <1>4 DEF TypeInv
<1>8. SeenInv'
  <2>1. ASSUME NEW i \in 0 .. NumaNodes PROVE Range(Source("normal", i)) \subseteq Range(Source("normal", i)')
    <3>1. CASE i = 0
      BY <1>3, <3>1 DEF Source
    <3>2. CASE i # 0
      <4>1. i \in 1 .. NumaNodes
        BY <3>2, Sources
      <4>2. Region(i) \in Node /\ "normal" \in Priority /\ linked \in [Priority -> [Node -> Seq(Tasks)]]
            /\ pending[P][m] \in Seq(Tasks)
        BY <1>2, <4>1, Sources DEF TypeInv, Priority
      <4>3. Head(pending[P][m]) \in Tasks /\ linked["normal"][Region(i)] \in Seq(Tasks)
        BY <1>3, <4>2, TailFacts
      <4>4. \/ linked'["normal"][Region(i)] = linked["normal"][Region(i)]
            \/ linked'["normal"][Region(i)] = Append(linked["normal"][Region(i)], Head(pending[P][m]))
        BY <1>3, <4>2
      <4>5. Range(linked["normal"][Region(i)]) \subseteq Range(linked'["normal"][Region(i)])
        BY <4>3, <4>4, RangeAppend
      <4> QED
        BY <3>2, <4>5 DEF Source, Region
    <3> QED
      BY <3>1, <3>2
  <2>2. filling \in Fills
    BY <1>2 DEF TypeInv
  <2> QED
    BY <1>2, <1>3, <2>1, <2>2, SeenKept
<1> QED
  BY <1>5, <1>6, <1>7, <1>8 DEF ChannelInv, Core

(* One round of a fill moves the first task of a queue to the buffer. *)
LEMMA StepFillOne ==
    ASSUME ChannelInv, FillOne
    PROVE  ChannelInv'
<1> DEFINE P == filling.priority
           i == filling.source
           t == Head(Source(P, i))
           q == SourceQueue(P, i)
<1>1. PICK n \in 0 .. S : Core(n)
  BY DEF ChannelInv
<1>2. TypeInv /\ SeenInv
  BY DEF ChannelInv
<1>3. /\ pc = "filling" /\ filling.room > 0 /\ Source(P, i) # <<>>
      /\ buffer' = Store(buffer, t, filling.room) /\ PopFront(P, i)
      /\ filling' = [filling EXCEPT !.room = @ - 1]
      /\ UNCHANGED <<pending, size, pc, current, order, spawned>>
  BY DEF FillOne
<1>4. P \in Priority /\ i \in 0 .. NumaNodes /\ filling.room = S - n /\ filling \in Fills
  BY <1>1, <1>2, <1>3 DEF TypeInv, Fills, Core, WorkerInv
<1>5. S \in Nat \ {0} /\ n \in Nat /\ n < S /\ n \in 0 .. S - 1 /\ n + 1 \in 0 .. S /\ (n + 1) - 1 = n
      /\ NumaNodes \in Nat
  BY <1>3, <1>4, BufferAssumption, ChannelAssumption
<1>6. Source(P, i) \in Seq(Tasks)
  BY <1>2, <1>4, SourceType
<1> HIDE DEF P, i
<1>7. /\ local' \in [Priority -> Seq(Tasks)] /\ linked' \in [Priority -> [Node -> Seq(Tasks)]]
      /\ Rests[q] # <<>> /\ Head(Rests[q]) = t /\ t \in Tasks /\ Rests' = [Rests EXCEPT ![q] = Tail(@)]
  BY <1>2, <1>3, <1>4, RestsPop
<1>8. q \in Queue
  BY <1>4, Sources
<1> HIDE DEF t, q
<1>9. /\ Ring(buffer, n + 1)' /\ At(buffer', n) = t
      /\ \A j \in 0 .. n - 1 : At(buffer', j) = At(buffer, j)
  <2>1. Ring(buffer, n) /\ buffer' = Store(buffer, t, S - n)
    BY <1>1, <1>3, <1>4 DEF Core
  <2>2. /\ Ring(Store(buffer, t, S - n), n + 1) /\ At(Store(buffer, t, S - n), n) = t
        /\ \A j \in 0 .. n - 1 : At(Store(buffer, t, S - n), j) = At(buffer, j)
    BY <1>5, <1>7, <2>1, StoredLast
  <2>3. Ring(buffer', n + 1)
    BY <2>1, <2>2
  <2> QED
    BY <2>1, <2>2, <2>3 DEF Ring
<1>10. Orderly(Held(buffer, n + 1)', n + 1, order', Rests')
  <2> DEFINE new == Held(buffer', n + 1)
  <2>1. Orderly(Held(buffer, n), n, order, Rests) /\ order' = order
    BY <1>1, <1>3 DEF Core
  <2>2. \A j \in 0 .. n - 1 : Held(buffer, n)[j] = At(buffer, j) /\ At(buffer, j) \in Tasks
    BY <1>1, CoreFacts
  <2>3. \A j \in 0 .. n : j \in 0 .. n - 1 \/ j = n
    BY <1>5
  <2>4. new = [j \in 0 .. n |-> At(buffer', j)]
    BY <1>5 DEF Held
  <2>5. new \in [0 .. n -> Tasks]
    BY <1>7, <1>9, <2>2, <2>3, <2>4
  <2>6. \A j \in 0 .. n - 1 : j \in 0 .. n
    BY <1>5
  <2>7. \A j \in 0 .. n - 1 : new[j] = Held(buffer, n)[j]
    BY <1>9, <2>2, <2>4, <2>6
  <2>8. n \in 0 .. n
    BY <1>5
  <2>9. new[n] = Head(Rests[q])
    BY <1>7, <1>9, <2>4, <2>8
  <2> HIDE DEF new
  <2>10. Orderly(new, n + 1, order, Rests')
    BY <1>5, <1>7, <1>8, <2>1, <2>5, <2>7, <2>9, OrderlyFill
  <2> QED
    BY <2>1, <2>10 DEF new
<1>11. filling' \in Fills /\ filling'.room = S - (n + 1) /\ filling'.then = filling.then
       /\ filling'.priority = P /\ filling'.source = i /\ filling'.seen = filling.seen
  <2>1. filling.room - 1 = S - (n + 1) /\ filling.room - 1 \in 0 .. S
    BY <1>4, <1>5
  <2> QED
    BY <1>3, <1>4, <2>1 DEF Fills, P, i
<1>12. WorkerInv(n + 1)'
  <2>1. WorkerInv(n) /\ size \in Int
    BY <1>1, <1>2 DEF Core, TypeInv
  <2>2. size' <= n + 1
    BY <1>3, <1>5, <2>1 DEF WorkerInv
  <2> QED
    BY <1>3, <1>11, <2>1, <2>2 DEF WorkerInv, Members
<1>13. TypeInv'
  BY <1>2, <1>3, <1>7, <1>11 DEF TypeInv
<1>14. SeenInv'
  <2>1. \A u : u \in BufferTasks <=> \E j \in 0 .. n - 1 : u = At(buffer, j)
    BY <1>1, CoreFacts
  <2>2. \A u : u \in Range(buffer'.slot) \ {Nil} <=> \E j \in 0 .. n : u = At(buffer', j)
    <3>1. Ring(buffer', n + 1)
      BY <1>9 DEF Ring
    <3>2. \A u : u \in Range(buffer'.slot) \ {Nil} <=> \E j \in 0 .. (n + 1) - 1 : u = At(buffer', j)
      BY <1>5, <3>1, RingTasks
    <3> QED
      BY <1>5, <3>2
  <2>3. BufferTasks \subseteq BufferTasks' /\ t \in BufferTasks'
    <3>1. BufferTasks' = Range(buffer'.slot) \ {Nil}
      BY DEF BufferTasks
    <3>2. n \in 0 .. n /\ \A j \in 0 .. n - 1 : j \in 0 .. n
      BY <1>5
    <3>3. t \in BufferTasks'
      BY <1>9, <2>2, <3>1, <3>2
    <3>4. ASSUME NEW u \in BufferTasks PROVE u \in BufferTasks'
      <4>1. PICK j \in 0 .. n - 1 : u = At(buffer, j)
        BY <2>1
      <4>2. u = At(buffer', j) /\ j \in 0 .. n
        BY <1>9, <3>2, <4>1
      <4> QED
        BY <2>2, <3>1, <4>2
    <3> QED
      BY <3>3, <3>4
  <2>4. ASSUME NEW u \in filling.seen, u \notin BufferTasks, u # t
        PROVE  P = "normal" /\ \E j \in i .. NumaNodes : u \in Range(Source("normal", j)')
    <3>1. P = "normal" /\ \E j \in i .. NumaNodes : u \in Range(Source("normal", j))
      BY <1>2, <1>3, <2>4 DEF SeenInv, P, i
    <3>2. PICK j \in i .. NumaNodes : u \in Range(Source("normal", j))
      BY <3>1
    <3>3. j \in 0 .. NumaNodes
      BY <1>4, <1>5
    <3>4. ASSUME NEW s \in Seq(Tasks), s # <<>>, u \in Range(s), u # Head(s) PROVE u \in Range(Tail(s))
      <4>1. /\ Len(s) \in Nat \ {0} /\ Head(s) = s[1] /\ Tail(s) \in Seq(Tasks) /\ Len(Tail(s)) = Len(s) - 1
            /\ \A k \in 1 .. Len(s) - 1 : Tail(s)[k] = s[k + 1]
        BY <3>4, TailFacts
      <4>2. PICK k \in 1 .. Len(s) : u = s[k]
        BY <3>4, RangeFacts
      <4>3. k # 1
        BY <3>4, <4>1, <4>2
      <4>4. k - 1 \in 1 .. Len(Tail(s)) /\ k - 1 \in 1 .. Len(s) - 1 /\ (k - 1) + 1 = k
        BY <4>1, <4>3
      <4>5. u = Tail(s)[k - 1]
        BY <4>1, <4>2, <4>4
      <4> QED
        BY <4>1, <4>4, <4>5, RangeFacts
    <3>5. /\ local \in [Priority -> Seq(Tasks)] /\ linked \in [Priority -> [Node -> Seq(Tasks)]]
          /\ "normal" \in Priority
      BY <1>2 DEF TypeInv, Priority
    <3>6. Source("normal", j)' = Source("normal", j) \/ (Source("normal", j)' = Tail(Source("normal", j)) /\ Source("normal", j) = Source(P, i))
      <4>1. CASE i = 0
        <5>1. local' = [local EXCEPT !["normal"] = Tail(@)] /\ linked' = linked
          BY <1>3, <1>5, <3>1, <4>1 DEF PopFront
        <5>2. CASE j = 0
          BY <3>1, <3>5, <4>1, <5>1, <5>2 DEF Source
        <5>3. CASE j # 0
          BY <5>1, <5>3 DEF Source, Region
        <5> QED
          BY <5>2, <5>3
      <4>2. CASE i # 0
        <5>1. linked' = [linked EXCEPT !["normal"][Region(i)] = Tail(@)] /\ local' = local
          BY <1>3, <3>1, <4>2 DEF PopFront
        <5>2. i \in 1 .. NumaNodes /\ j \in 1 .. NumaNodes
          BY <1>4, <1>5, <4>2
        <5>3. Region(i) \in Node /\ Region(j) \in Node /\ Region(j)' = Region(j)
          BY <5>2, Sources DEF Region
        <5>4. CASE Region(j) = Region(i)
          <6>1. linked'["normal"][Region(j)] = Tail(linked["normal"][Region(j)])
            BY <3>5, <5>1, <5>3, <5>4
          <6> QED
            BY <3>1, <4>2, <5>2, <5>3, <5>4, <6>1 DEF Source
        <5>5. CASE Region(j) # Region(i)
          <6>1. linked'["normal"][Region(j)] = linked["normal"][Region(j)]
            BY <3>5, <5>1, <5>3, <5>5
          <6> QED
            BY <5>2, <5>3, <6>1 DEF Source
        <5> QED
          BY <5>4, <5>5
      <4> QED
        BY <4>1, <4>2
    <3>7. CASE Source("normal", j)' = Source("normal", j)
      BY <3>1, <3>2, <3>7
    <3>8. CASE Source("normal", j)' = Tail(Source("normal", j)) /\ Source("normal", j) = Source(P, i)
      <4>1. u # Head(Source(P, i)) /\ u \in Range(Source(P, i))
        BY <2>4, <3>2, <3>8 DEF t
      <4>2. u \in Range(Tail(Source(P, i)))
        BY <1>3, <1>6, <3>4, <4>1
      <4> QED
        BY <3>1, <3>8, <4>2
    <3> QED
      BY <3>6, <3>7, <3>8
  <2> QED
    BY <1>11, <2>3, <2>4 DEF SeenInv
<1> QED
  BY <1>5, <1>9, <1>10, <1>12, <1>13, <1>14 DEF ChannelInv, Core

LEMMA StepFillOn ==
    ASSUME ChannelInv, FillOn
    PROVE  ChannelInv'
<1>1. PICK n \in 0 .. S : Core(n)
  BY DEF ChannelInv
<1>2. TypeInv /\ SeenInv
  BY DEF ChannelInv
<1>3. /\ pc = "filling" /\ filling.source < NumaNodes /\ Source(filling.priority, filling.source) = <<>>
      /\ filling' = [filling EXCEPT !.source = @ + 1]
      /\ UNCHANGED <<local, linked, pending, buffer, size, pc, current, order, spawned>>
  BY DEF FillOn, queues
<1>4. NumaNodes \in Nat /\ filling \in Fills /\ filling.source \in 0 .. NumaNodes
  BY <1>2, ChannelAssumption DEF TypeInv, Fills
<1>5. filling.source + 1 \in 0 .. NumaNodes
  BY <1>3, <1>4
<1>6. /\ filling' \in Fills /\ filling'.source = filling.source + 1 /\ filling'.room = filling.room
      /\ filling'.priority = filling.priority /\ filling'.then = filling.then /\ filling'.seen = filling.seen
  BY <1>3, <1>4, <1>5 DEF Fills
<1>7. Rests' = Rests
  BY <1>3 DEF Rests, Rest
<1>8. /\ Ring(buffer, n)' /\ Orderly(Held(buffer, n)', n, order', Rests') /\ Members(order)' = Members(order)
  BY <1>1, <1>3, <1>7, SameCore
<1>9. WorkerInv(n)'
  BY <1>1, <1>3, <1>6, <1>8 DEF Core, WorkerInv
<1>10. TypeInv'
  BY <1>2, <1>3, <1>6 DEF TypeInv
<1>11. SeenInv'
  <2>1. ASSUME NEW t \in filling.seen, t \notin BufferTasks
        PROVE  filling.priority = "normal" /\ \E j \in filling.source + 1 .. NumaNodes : t \in Range(Source("normal", j))
    <3>1. filling.priority = "normal" /\ \E j \in filling.source .. NumaNodes : t \in Range(Source("normal", j))
      BY <1>2, <1>3, <2>1 DEF SeenInv
    <3>2. PICK j \in filling.source .. NumaNodes : t \in Range(Source("normal", j))
      BY <3>1
    <3>3. j # filling.source
      <4>1. t \notin Range(<<>>)
        BY DEF Range
      <4> QED
        BY <1>3, <3>1, <3>2, <4>1
    <3>4. j \in filling.source + 1 .. NumaNodes
      BY <1>4, <3>3
    <3> QED
      BY <3>1, <3>2, <3>4
  <2>2. \A j : Source("normal", j)' = Source("normal", j)
    BY <1>3 DEF Source
  <2>3. BufferTasks' = BufferTasks
    BY <1>3 DEF BufferTasks
  <2> QED
    BY <1>6, <2>1, <2>2, <2>3 DEF SeenInv
<1> QED
  BY <1>8, <1>9, <1>10, <1>11 DEF ChannelInv, Core

LEMMA StepFillLow ==
    ASSUME ChannelInv, FillLow
    PROVE  ChannelInv'
<1>1. PICK n \in 0 .. S : Core(n)
  BY DEF ChannelInv
<1>2. TypeInv /\ SeenInv
  BY DEF ChannelInv
<1>3. /\ pc = "filling" /\ filling.priority = "normal" /\ BufferEmpty(buffer)
      /\ filling.room = 0 \/ (filling.source = NumaNodes /\ Source(filling.priority, NumaNodes) = <<>>)
      /\ filling' = [filling EXCEPT !.priority = "low", !.source = 0, !.room = S]
      /\ UNCHANGED <<local, linked, pending, buffer, size, pc, current, order, spawned>>
  BY DEF FillLow, Filled, queues
<1>4. n = 0 /\ S \in Nat \ {0}
  BY <1>1, <1>3, CoreFacts
<1>5. filling \in Fills /\ NumaNodes \in Nat /\ filling.room = S - n
  BY <1>1, <1>2, <1>3, ChannelAssumption DEF TypeInv, Core, WorkerInv
<1>6. /\ filling' \in Fills /\ filling'.room = S - n /\ filling'.then = filling.then
      /\ filling'.seen = filling.seen
  <2>1. 0 \in 0 .. NumaNodes /\ S \in 0 .. S /\ "low" \in Priority /\ S - n = S
    BY <1>4, <1>5 DEF Priority
  <2> QED
    BY <1>3, <1>5, <2>1 DEF Fills
<1>7. Rests' = Rests
  BY <1>3 DEF Rests, Rest
<1>8. /\ Ring(buffer, n)' /\ Orderly(Held(buffer, n)', n, order', Rests') /\ Members(order)' = Members(order)
  BY <1>1, <1>3, <1>7, SameCore
<1>9. WorkerInv(n)'
  BY <1>1, <1>3, <1>6, <1>8 DEF Core, WorkerInv
<1>10. TypeInv'
  BY <1>2, <1>3, <1>6 DEF TypeInv
<1>11. SeenInv'
  <2>1. filling.room # 0
    BY <1>4, <1>5
  <2>2. filling.source = NumaNodes /\ Source("normal", NumaNodes) = <<>>
    BY <1>3, <2>1
  <2>3. \A t \in filling.seen : t \in BufferTasks
    <3> SUFFICES ASSUME NEW t \in filling.seen, t \notin BufferTasks PROVE FALSE
      OBVIOUS
    <3>1. PICK j \in filling.source .. NumaNodes : t \in Range(Source("normal", j))
      BY <1>2, <1>3 DEF SeenInv
    <3>2. j = NumaNodes
      BY <1>5, <2>2
    <3>3. t \notin Range(<<>>)
      BY DEF Range
    <3> QED
      BY <2>2, <3>1, <3>2, <3>3
  <2>4. BufferTasks' = BufferTasks
    BY <1>3 DEF BufferTasks
  <2> QED
    BY <1>6, <2>3, <2>4 DEF SeenInv
<1> QED
  BY <1>8, <1>9, <1>10, <1>11 DEF ChannelInv, Core

LEMMA StepFillEnd ==
    ASSUME ChannelInv, FillEnd
    PROVE  ChannelInv'
<1>1. PICK n \in 0 .. S : Core(n)
  BY DEF ChannelInv
<1>2. TypeInv /\ SeenInv
  BY DEF ChannelInv
<1>3. /\ pc = "filling" /\ filling' = NoFill
      /\ UNCHANGED <<local, linked, pending, buffer, current, order, spawned>>
      /\ \/ filling.then = "profile" /\ pc' = "run" /\ size' = size
         \/ filling.then # "profile" /\ pc' = filling.then /\ size' = S - filling.room
  BY DEF FillEnd, Filled, queues
<1>4. S \in Nat \ {0} /\ n \in Nat /\ NumaNodes \in Nat /\ filling \in Fills
  BY <1>2, BufferAssumption, ChannelAssumption DEF TypeInv
<1>5. filling.room = S - n /\ filling.then \in {"next", "run", "profile"} /\ size \in Int /\ size <= n
  BY <1>1, <1>2, <1>3, <1>4 DEF Core, WorkerInv, TypeInv, Fills
<1>6. size' \in Int /\ size' <= n
  <2>1. S - (S - n) = n
    BY <1>4
  <2> QED
    BY <1>3, <1>4, <1>5, <2>1
<1>7. Rests' = Rests
  BY <1>3 DEF Rests, Rest
<1>8. /\ Ring(buffer, n)' /\ Orderly(Held(buffer, n)', n, order', Rests') /\ Members(order)' = Members(order)
  BY <1>1, <1>3, <1>7, SameCore
<1>9. pc' \in {"next", "run"} /\ (pc' = "run" => filling.then # "next")
  BY <1>3, <1>5
<1>10. WorkerInv(n)'
  BY <1>1, <1>3, <1>6, <1>8, <1>9 DEF Core, WorkerInv
<1>11. NoFill \in Fills
  BY <1>4 DEF NoFill, Fills, Priority
<1>12. TypeInv'
  BY <1>2, <1>3, <1>6, <1>9, <1>11 DEF TypeInv
<1>13. SeenInv'
  BY <1>9 DEF SeenInv
<1> QED
  BY <1>8, <1>10, <1>12, <1>13 DEF ChannelInv, Core

LEMMA StepFillBuffer ==
    ASSUME ChannelInv, FillBuffer
    PROVE  ChannelInv'
<1>1. PICK n \in 0 .. S : Core(n)
  BY DEF ChannelInv
<1>2. TypeInv /\ SeenInv
  BY DEF ChannelInv
<1>3. /\ pc = "fill" /\ Fill(buffer, "next")
      /\ UNCHANGED <<local, linked, pending, buffer, size, current, order, spawned>> /\ UNCHANGED queues
  BY DEF FillBuffer, queues
<1>4. n = 0 /\ n < S
  BY <1>1, <1>3, BufferAssumption DEF Core, WorkerInv
<1>5. /\ filling' \in Fills /\ pc' = "filling" /\ filling'.room = S - n /\ filling'.then = "next" /\ SeenInv'
  BY <1>1, <1>2, <1>3, <1>4, FillBegins DEF Core
<1>6. Rests' = Rests
  BY <1>3 DEF Rests, Rest
<1>7. /\ Ring(buffer, n)' /\ Orderly(Held(buffer, n)', n, order', Rests') /\ Members(order)' = Members(order)
  BY <1>1, <1>3, <1>6, SameCore
<1>8. WorkerInv(n)'
  BY <1>1, <1>3, <1>5, <1>7 DEF Core, WorkerInv
<1>9. TypeInv'
  BY <1>2, <1>3, <1>5 DEF TypeInv
<1> QED
  BY <1>5, <1>7, <1>8, <1>9 DEF ChannelInv, Core

LEMMA StepProfilingFill ==
    ASSUME ChannelInv, ProfilingFill
    PROVE  ChannelInv'
<1>1. PICK n \in 0 .. S : Core(n)
  BY DEF ChannelInv
<1>2. TypeInv /\ SeenInv
  BY DEF ChannelInv
<1>3. /\ pc = "run" /\ Fill(buffer, "profile") /\ BufferEmpty(buffer)
      /\ UNCHANGED <<local, linked, pending, buffer, size, current, order, spawned>> /\ UNCHANGED queues
  BY DEF ProfilingFill, queues
<1>4. n = 0
  BY <1>1, <1>3, CoreFacts
<1>5. n < S
  BY <1>4, BufferAssumption
<1>6. /\ filling' \in Fills /\ pc' = "filling" /\ filling'.room = S - n /\ filling'.then = "profile" /\ SeenInv'
  BY <1>1, <1>2, <1>3, <1>5, FillBegins DEF Core
<1>7. Rests' = Rests
  BY <1>3 DEF Rests, Rest
<1>8. /\ Ring(buffer, n)' /\ Orderly(Held(buffer, n)', n, order', Rests') /\ Members(order)' = Members(order)
  BY <1>1, <1>3, <1>7, SameCore
<1>9. WorkerInv(n)'
  BY <1>1, <1>3, <1>6, <1>8 DEF Core, WorkerInv
<1>10. TypeInv'
  BY <1>2, <1>3, <1>6 DEF TypeInv
<1> QED
  BY <1>6, <1>8, <1>9, <1>10 DEF ChannelInv, Core

LEMMA StepNextNothing ==
    ASSUME ChannelInv, NextNothing
    PROVE  ChannelInv'
<1>1. PICK n \in 0 .. S : Core(n)
  BY DEF ChannelInv
<1>2. TypeInv /\ SeenInv
  BY DEF ChannelInv
<1>3. /\ pc' = "fill" /\ BufferEmpty(buffer)
      /\ UNCHANGED <<local, linked, pending, buffer, size, filling, current, order, spawned>>
  BY DEF NextNothing, queues
<1>4. n = 0
  BY <1>1, <1>3, CoreFacts
<1>5. Rests' = Rests
  BY <1>3 DEF Rests, Rest
<1>6. /\ Ring(buffer, n)' /\ Orderly(Held(buffer, n)', n, order', Rests') /\ Members(order)' = Members(order)
  BY <1>1, <1>3, <1>5, SameCore
<1>7. WorkerInv(n)'
  BY <1>1, <1>3, <1>4, <1>6 DEF Core, WorkerInv
<1>8. TypeInv' /\ SeenInv'
  BY <1>2, <1>3 DEF TypeInv, SeenInv
<1> QED
  BY <1>6, <1>7, <1>8 DEF ChannelInv, Core

(* The task at the head starts. *)
LEMMA Starts ==
    ASSUME TypeInv, NEW n \in 0 .. S, Core(n), TakeNext
    PROVE  /\ n > 0 /\ n - 1 \in 0 .. S /\ n - 1 < S /\ current' \in Tasks
           /\ Ring(buffer', n - 1) /\ Orderly(Held(buffer, n - 1)', n - 1, order', Rests')
           /\ current' \notin Members(order)'
           /\ size' \in Int /\ size' <= n - 1
           /\ \E q \in Queue : /\ order' = [order EXCEPT ![q] = Tail(@)] /\ order[q] # <<>>
                              /\ current' = Head(order[q])
<1>1. /\ ~BufferEmpty(buffer) /\ current' = buffer.slot[buffer.head] /\ buffer' = Consume(buffer)
      /\ size' = size - 1
      /\ order' = [q \in Queue |-> IF current' \in Range(order[q]) THEN Tail(order[q]) ELSE order[q]]
      /\ UNCHANGED <<local, linked, pending, spawned>>
  BY DEF TakeNext, queues
<1>2. /\ S \in Nat \ {0} /\ n \in Nat /\ n <= S /\ n # 0 /\ order \in [Queue -> Seq(Tasks)]
      /\ \A i \in 0 .. n - 1 : At(buffer, i) \in Tasks /\ Held(buffer, n)[i] = At(buffer, i)
  BY <1>1, CoreFacts
<1>3. n > 0 /\ n - 1 \in 0 .. S /\ n - 1 < S /\ n \in 1 .. S /\ 0 \in 0 .. n - 1 /\ (n - 1) - 1 = n - 2
  BY <1>2
<1>4. Ring(buffer, n) /\ Orderly(Held(buffer, n), n, order, Rests) /\ WorkerInv(n)
  BY DEF Core
<1>5. Ring(buffer', n - 1) /\ \A i \in 0 .. n - 2 : At(buffer', i) = At(buffer, i + 1)
  BY <1>1, <1>3, <1>4, ConsumedFirst
<1>6. current' = Held(buffer, n)[0] /\ current' \in Tasks
  <2>1. buffer.head \in 0 .. S - 1
    BY <1>4, RingFacts DEF Slots
  <2>2. Place(buffer.head, 0) = buffer.head
    BY <1>2, <2>1 DEF Place
  <2>3. At(buffer, 0) = buffer.slot[buffer.head]
    BY <2>2 DEF At
  <2> QED
    BY <1>1, <1>2, <1>3, <2>3
<1>7. PICK q \in Queue : Out(order, Rests, q) >= 1 /\ Held(buffer, n)[0] = order[q][1]
  BY <1>3, <1>4, HeadIsFirst
<1>8. order[q] # <<>> /\ 1 \in 1 .. Many(order, q) /\ current' = Head(order[q])
  <2>1. Many(order, q) \in Nat /\ Out(order, Rests, q) \in 0 .. Many(order, q)
    BY <1>4, OrderlyFacts
  <2>2. Many(order, q) >= 1
    BY <1>7, <2>1
  <2>3. order[q] \in Seq(Tasks) /\ order[q] # <<>>
    BY <1>2, <2>2 DEF Many
  <2>4. Head(order[q]) = order[q][1]
    BY <2>3, TailFacts
  <2> QED
    BY <1>6, <1>7, <2>1, <2>2, <2>3, <2>4
<1>9. \A r \in Queue : current' \in Range(order[r]) <=> r = q
  <2> SUFFICES ASSUME NEW r \in Queue PROVE current' \in Range(order[r]) <=> r = q
    OBVIOUS
  <2>1. order[r] \in Seq(Tasks) /\ \A t : t \in Range(order[r]) <=> \E k \in 1 .. Many(order, r) : t = order[r][k]
    BY <1>2, RangeFacts DEF Many
  <2>2. Distinct(order) /\ current' = order[q][1]
    BY <1>4, <1>6, <1>7 DEF Orderly
  <2>3. r = q => current' \in Range(order[r])
    BY <1>8, <2>1, <2>2
  <2>4. ASSUME current' \in Range(order[r]) PROVE r = q
    <3>1. PICK k \in 1 .. Many(order, r) : current' = order[r][k]
      BY <2>1, <2>4
    <3> QED
      BY <1>8, <2>2, <3>1 DEF Distinct
  <2> QED
    BY <2>3, <2>4
<1>10. order' = [order EXCEPT ![q] = Tail(@)]
  BY <1>1, <1>2, <1>9
<1>11. Rests' = Rests
  BY <1>1 DEF Rests, Rest
<1>12. /\ Orderly(Held(buffer, n - 1)', n - 1, order', Rests')
       /\ current' \notin Members(order)'
  <2> DEFINE new == Held(buffer', n - 1)
  <2>1. new = [i \in 0 .. n - 2 |-> At(buffer, i + 1)]
    BY <1>3, <1>5 DEF Held
  <2>2. \A i \in 0 .. n - 2 : i + 1 \in 0 .. n - 1
    BY <1>2
  <2>3. new \in [0 .. n - 2 -> Tasks] /\ \A i \in 0 .. n - 2 : new[i] = Held(buffer, n)[i + 1]
    BY <1>2, <2>1, <2>2
  <2> HIDE DEF new
  <2>4. Orderly(new, n - 1, Started(order, q), Rests) /\ Held(buffer, n)[0] \notin Members(Started(order, q))
    <3> DEFINE held == Held(buffer, n)
    <3>1. Orderly(held, n, order, Rests) /\ n \in 1 .. S /\ Out(order, Rests, q) >= 1 /\ held[0] = order[q][1]
      BY <1>3, <1>4, <1>7
    <3>2. new \in [0 .. n - 2 -> Tasks] /\ \A i \in 0 .. n - 2 : new[i] = held[i + 1]
      BY <2>3
    <3> HIDE DEF held
    <3>3. Orderly(new, n - 1, Started(order, q), Rests) /\ held[0] \notin Members(Started(order, q))
      BY <3>1, <3>2, OrderlyStart
    <3> QED
      BY <3>3 DEF held
  <2>5. Members(order)' = Members(order')
    BY DEF Members
  <2> QED
    BY <1>6, <1>10, <1>11, <2>4, <2>5 DEF new, Started
<1>13. size' \in Int /\ size' <= n - 1
  <2>1. size \in Int /\ size <= n
    BY <1>4 DEF TypeInv, WorkerInv
  <2>2. size' = size - 1
    BY <1>1
  <2> QED
    BY ONLY <1>2, <2>1, <2>2
<1> QED
  BY <1>3, <1>5, <1>6, <1>8, <1>10, <1>12, <1>13

LEMMA StepNextTask ==
    ASSUME ChannelInv, NextTask
    PROVE  ChannelInv'
<1>1. PICK n \in 0 .. S : Core(n)
  BY DEF ChannelInv
<1>2. TypeInv /\ SeenInv
  BY DEF ChannelInv
<1>3. /\ TakeNext /\ UNCHANGED queues /\ UNCHANGED <<local, linked, pending>>
      /\ Fill(buffer', "run") \/ (pc' = "run" /\ filling' = filling)
  BY DEF NextTask, TakeNext, queues
<1> DEFINE m == n - 1
<1>4. /\ m \in 0 .. S /\ m < S /\ current' \in Tasks
      /\ Ring(buffer', m) /\ Orderly(Held(buffer, m)', m, order', Rests')
      /\ current' \notin Members(order)' /\ size' \in Int /\ size' <= m
  BY <1>1, <1>2, <1>3, Starts
<1> HIDE DEF m
<1>5. \/ filling' \in Fills /\ pc' = "filling" /\ filling'.room = S - m /\ SeenInv'
      \/ filling' \in Fills /\ pc' = "run" /\ SeenInv'
  <2>1. CASE Fill(buffer', "run")
    BY <1>2, <1>3, <1>4, <2>1, FillBegins
  <2>2. CASE pc' = "run" /\ filling' = filling
    BY <1>2, <2>2 DEF TypeInv, SeenInv
  <2> QED
    BY <1>3, <2>1, <2>2
<1>6. WorkerInv(m)'
  BY <1>4, <1>5 DEF WorkerInv
<1>7. TypeInv'
  BY <1>2, <1>3, <1>4, <1>5 DEF TypeInv
<1>8. Ring(buffer, m)'
  BY <1>4 DEF Ring
<1> QED
  BY <1>4, <1>5, <1>6, <1>7, <1>8 DEF ChannelInv, Core

LEMMA StepReturn ==
    ASSUME ChannelInv, Return
    PROVE  ChannelInv'
<1>1. PICK n \in 0 .. S : Core(n)
  BY DEF ChannelInv
<1>2. TypeInv /\ SeenInv
  BY DEF ChannelInv
<1>3. /\ pc' = "next" /\ current' = Nil
      /\ UNCHANGED <<local, linked, pending, buffer, size, filling, order, spawned>>
  BY DEF Return, queues
<1>4. Rests' = Rests
  BY <1>3 DEF Rests, Rest
<1>5. /\ Ring(buffer, n)' /\ Orderly(Held(buffer, n)', n, order', Rests') /\ Members(order)' = Members(order)
  BY <1>1, <1>3, <1>4, SameCore
<1>6. Nil \notin Members(order)
  <2>1. Members(order) \subseteq Tasks
    <3>1. order \in [Queue -> Seq(Tasks)]
      BY <1>1, CoreFacts
    <3> QED
      BY <3>1, RangeFacts DEF Members
  <2> QED
    BY <2>1, BufferAssumption
<1>7. WorkerInv(n)'
  BY <1>1, <1>3, <1>5, <1>6 DEF Core, WorkerInv
<1>8. TypeInv' /\ SeenInv'
  BY <1>2, <1>3 DEF TypeInv, SeenInv
<1> QED
  BY <1>5, <1>7, <1>8 DEF ChannelInv, Core

LEMMA StepReturnSuccessor ==
    ASSUME ChannelInv, NEW P \in Priority, ReturnSuccessor(P)
    PROVE  ChannelInv'
<1>1. PICK n \in 0 .. S : Core(n)
  BY DEF ChannelInv
<1>2. TypeInv /\ SeenInv
  BY DEF ChannelInv
<1>3. /\ pc = "run" /\ pc' = "next" /\ current' = Nil
      /\ local' = [local EXCEPT ![P] = Append(@, current)]
      /\ order' = [order EXCEPT ![QueueOf(P, -1)] = Append(@, current)]
      /\ UNCHANGED <<linked, pending, buffer, size, filling>>
  BY DEF ReturnSuccessor
<1>4. current \in Tasks /\ current \notin Members(order)
  BY <1>1, <1>3 DEF Core, WorkerInv
<1>5. local' \in [Priority -> Seq(Tasks)] /\ Rests' = [Rests EXCEPT ![QueueOf(P, -1)] = Append(@, current)]
  BY <1>2, <1>3, <1>4, RestsPushLocal
<1>6. QueueOf(P, -1) \in Queue
  BY Queues
<1>7. /\ Ring(buffer, n)' /\ Orderly(Held(buffer, n)', n, order', Rests')
      /\ Members(order)' = Members(order) \cup {current}
  BY <1>1, <1>3, <1>4, <1>5, <1>6, PushCore
<1>8. Nil \notin Members(order)'
  <2>1. order \in [Queue -> Seq(Tasks)]
    BY <1>1, CoreFacts
  <2>2. Members(order) \subseteq Tasks
    BY <2>1, RangeFacts DEF Members
  <2> QED
    BY <1>4, <1>7, <2>2, BufferAssumption
<1>9. WorkerInv(n)'
  BY <1>1, <1>3, <1>8 DEF Core, WorkerInv
<1>10. TypeInv' /\ SeenInv'
  BY <1>2, <1>3, <1>5 DEF TypeInv, SeenInv
<1> QED
  BY <1>7, <1>9, <1>10 DEF ChannelInv, Core

LEMMA InitInv ==
    ASSUME Init
    PROVE  ChannelInv
<1>1. /\ local = [P \in Priority |-> <<>>] /\ buffer = EmptyBuffer /\ size = 0 /\ pc = "fill"
      /\ linked = [P \in Priority |-> [n \in Node |-> <<>>]]
      /\ pending = [P \in Priority |-> [n \in Node |-> <<>>]]
      /\ filling = NoFill /\ current = Nil /\ order = [q \in Queue |-> <<>>]
  BY DEF Init
<1>2. S \in Nat \ {0} /\ NumaNodes \in Nat /\ BufferDistance \in Nat /\ 0 \in 0 .. S
  BY BufferAssumption, ChannelAssumption DEF BufferDistance
<1>3. <<>> \in Seq(Tasks) /\ <<>> \o <<>> = <<>> /\ Len(<<>>) = 0 /\ Range(<<>>) = {}
  BY DEF Range
<1>4. NoFill \in Fills
  BY <1>2 DEF NoFill, Fills, Priority
<1>5. TypeInv
  BY <1>1, <1>3, <1>4 DEF TypeInv
<1>6. SeenInv
  BY <1>1 DEF SeenInv
<1>7. Ring(buffer, 0)
  <2>1. buffer \in Buffers
    BY <1>1, <1>2 DEF EmptyBuffer, Buffers, Slots
  <2>2. 0 \in Slots /\ buffer.head = 0 /\ buffer.tail = 0
        /\ \A s \in Slots : buffer.slot[s] = Nil /\ buffer.prefetch[s] = Nil
    BY <1>1, <1>2 DEF EmptyBuffer, Slots
  <2>3. \A i \in 0 .. S - 1 : Place(buffer.head, i) \in Slots
    BY <2>2, Places
  <2>4. Place(buffer.head, 0) = 0
    BY <1>2, <2>2 DEF Place
  <2>5. \A i \in 0 .. S - 1 : At(buffer, i) = Nil /\ ~(i < 0) /\ ~(i + BufferDistance < 0)
    BY <1>2, <2>2, <2>3 DEF At
  <2> QED
    BY <2>1, <2>2, <2>3, <2>4, <2>5 DEF Ring
<1>8. \A q \in Queue : order[q] = <<>> /\ Rests[q] = <<>>
  <2> SUFFICES ASSUME NEW q \in Queue PROVE order[q] = <<>> /\ Rests[q] = <<>>
    OBVIOUS
  <2>1. q[1] \in Priority /\ (q[2] # -1 => q[2] \in Node)
    BY Queues
  <2> QED
    BY <1>1, <1>3, <2>1 DEF Rests, Rest
<1>9. Orderly(Held(buffer, 0), 0, order, Rests)
  <2>1. 0 .. 0 - 1 = {} /\ 1 .. 0 = {}
    OBVIOUS
  <2>2. \A q \in Queue : Many(order, q) = 0 /\ Many(Rests, q) = 0
    BY <1>3, <1>8 DEF Many
  <2>3. \A q \in Queue : Out(order, Rests, q) = 0
    BY <2>2 DEF Out
  <2>4. order \in [Queue -> Seq(Tasks)] /\ Rests \in [Queue -> Seq(Tasks)]
    BY <1>1, <1>3, <1>5, RestsFacts
  <2>5. Held(buffer, 0) \in [0 .. 0 - 1 -> Tasks]
    BY <2>1 DEF Held
  <2>6. Suffix(order, Rests) /\ Distinct(order)
    BY <2>1, <2>2 DEF Suffix, Distinct
  <2>7. Buffered(Held(buffer, 0), 0, order, Rests) /\ InTurn(Held(buffer, 0), 0, order)
    BY <2>1, <2>3 DEF Buffered, InTurn
  <2> QED
    BY <1>2, <2>4, <2>5, <2>6, <2>7 DEF Orderly
<1>10. WorkerInv(0)
  <2>1. Members(order) = {}
    BY <1>3, <1>8 DEF Members
  <2> QED
    BY <1>1, <2>1 DEF WorkerInv
<1> QED
  BY <1>2, <1>5, <1>6, <1>7, <1>9, <1>10 DEF ChannelInv, Core

LEMMA StutterInv ==
    ASSUME ChannelInv, UNCHANGED vars
    PROVE  ChannelInv'
<1>1. PICK n \in 0 .. S : Core(n)
  BY DEF ChannelInv
<1>2. UNCHANGED <<local, linked, pending, buffer, size, pc, filling, current, order>>
  BY DEF vars, queues
<1>3. Rests' = Rests
  BY <1>2 DEF Rests, Rest
<1>4. /\ Ring(buffer, n)' /\ Orderly(Held(buffer, n)', n, order', Rests') /\ Members(order)' = Members(order)
  BY <1>1, <1>2, <1>3, SameCore
<1>5. WorkerInv(n)'
  BY <1>1, <1>2, <1>4 DEF Core, WorkerInv
<1>6. TypeInv'
  BY <1>2 DEF ChannelInv, TypeInv
<1>7. \A i : Source("normal", i)' = Source("normal", i)
  BY <1>2 DEF Source
<1>8. SeenInv'
  BY <1>2, <1>7 DEF ChannelInv, SeenInv, BufferTasks
<1> QED
  BY <1>4, <1>5, <1>6, <1>8 DEF ChannelInv, Core

LEMMA StepInv ==
    ASSUME ChannelInv, [Next]_vars
    PROVE  ChannelInv'
<1>1. CASE \E t \in Tasks, P \in Priority : PushLocal(t, P)
  BY <1>1, StepPushLocal
<1>2. CASE \E t \in Tasks, P \in Priority, n \in Node : PushRemote(t, P, n)
  BY <1>2, StepPushRemote
<1>3. CASE \E P \in Priority, n \in Node : Link(P, n)
  BY <1>3, StepLink
<1>4. CASE FillBuffer \/ FillOne \/ FillOn \/ FillLow \/ FillEnd
  BY <1>4, StepFillBuffer, StepFillOne, StepFillOn, StepFillLow, StepFillEnd
<1>5. CASE NextNothing \/ NextTask \/ ProfilingFill \/ Return
  BY <1>5, StepNextNothing, StepNextTask, StepProfilingFill, StepReturn
<1>6. CASE \E P \in Priority : ReturnSuccessor(P)
  BY <1>6, StepReturnSuccessor
<1>7. CASE UNCHANGED vars
  BY <1>7, StutterInv
<1> QED
  BY <1>1, <1>2, <1>3, <1>4, <1>5, <1>6, <1>7 DEF Next, Worker

-----------------------------------------------------------------------------
(* The theorems. *)

(* The invariant holds throughout. *)
THEOREM ChannelInvariant == Spec => []ChannelInv
<1>1. Init => ChannelInv
  BY InitInv
<1>2. ChannelInv /\ [Next]_vars => ChannelInv'
  BY StepInv
<1> QED
  BY <1>1, <1>2, PTL DEF Spec

(* The task buffer is a ring at every time: its tasks lie from the head to   *)
(* the tail without a gap, the worker never counts more of them than there   *)
(* are, and each prefetch waits in the slot it belongs to.                   *)
THEOREM BufferStaysRing == Spec => []BufferIsRing
<1>1. ChannelInv => BufferIsRing
  <2> SUFFICES ASSUME ChannelInv PROVE BufferIsRing
    OBVIOUS
  <2>1. PICK n \in 0 .. S : Core(n)
    BY DEF ChannelInv
  <2>2. Ring(buffer, n) /\ size <= n
    BY <2>1 DEF Core, WorkerInv
  <2>3. S \in Nat \ {0} /\ n \in Nat /\ n <= S /\ BufferDistance \in Nat
    BY BufferAssumption DEF BufferDistance
  <2>4. Occupied = {Place(buffer.head, i) : i \in 0 .. n - 1} /\ Cardinality(Occupied) = n
    BY <2>2, RingCount DEF Occupied
  <2>5. buffer.head \in Slots
    BY <2>2, RingFacts
  <2>6. \A i \in 0 .. S : Normalize(buffer.head + i) = Place(buffer.head, i)
    BY <2>5, Places
  <2>7. \A i \in 0 .. n - 1 : i \in 0 .. S /\ i \in 0 .. S - 1
    BY <2>3
  <2>8. Occupied = {Normalize(buffer.head + i) : i \in 0 .. n - 1}
    BY <2>4, <2>6, <2>7
  <2>9. buffer.tail = Normalize(buffer.head + n)
    BY <2>2, <2>6 DEF Ring
  <2>10. ASSUME BufferDistance > 0, NEW i \in 0 .. n - 1
         PROVE  buffer.prefetch[Normalize(buffer.head + i)] =
                  IF i + BufferDistance < n THEN buffer.slot[Normalize(buffer.head + (i + BufferDistance))] ELSE Nil
    <3>1. buffer.prefetch[Place(buffer.head, i)] = IF i + BufferDistance < n THEN At(buffer, i + BufferDistance) ELSE Nil
      BY <2>2, <2>7, <2>10 DEF Ring
    <3>2. i + BufferDistance < n => i + BufferDistance \in 0 .. S
      BY <2>3
    <3> QED
      BY <2>6, <2>7, <3>1, <3>2 DEF At
  <2>11. buffer \in Buffers
    BY <2>2 DEF Ring
  <2> QED
    BY <2>2, <2>4, <2>8, <2>9, <2>10, <2>11 DEF BufferIsRing
<1> QED
  BY <1>1, ChannelInvariant, PTL

(* Tasks pushed to the same queue start in the order of the pushes, none     *)
(* twice, and until then each is in its queue or in the buffer.              *)
THEOREM TasksStartInOrder == Spec => InOrder
<1> DEFINE Ordered(q) == \/ order'[q] = order[q]
                         \/ \E t \in Tasks : order'[q] = Append(order[q], t)
                         \/ /\ order[q] # <<>> /\ order'[q] = Tail(order[q]) /\ current' = Head(order[q])
           Kept == UNION {Range(order[q]) : q \in Queue} = BufferTasks \cup QueueTasks
<1>1. ChannelInv => Kept
  <2> SUFFICES ASSUME ChannelInv PROVE Kept
    OBVIOUS
  <2>1. PICK n \in 0 .. S : Core(n)
    BY DEF ChannelInv
  <2> QED
    BY <2>1, PushedTasks DEF ChannelInv, Members
<1>2. ASSUME ChannelInv, [Next]_vars PROVE \A q \in Queue : Ordered(q)
  <2>1. PICK n \in 0 .. S : Core(n)
    BY <1>2 DEF ChannelInv
  <2>2. order \in [Queue -> Seq(Tasks)]
    BY <2>1, CoreFacts
  <2>3. CASE order' = order
    BY <2>3
  <2>4. CASE \E r \in Queue, t \in Tasks : order' = [order EXCEPT ![r] = Append(@, t)]
    BY <2>2, <2>4
  <2>5. CASE \E r \in Queue : /\ order' = [order EXCEPT ![r] = Tail(@)] /\ order[r] # <<>>
                             /\ current' = Head(order[r])
    BY <2>2, <2>5
  <2>6. ASSUME NEW t \in Tasks, NEW P \in Priority, PushLocal(t, P)
        PROVE  \E r \in Queue, u \in Tasks : order' = [order EXCEPT ![r] = Append(@, u)]
    BY <2>6, Queues DEF PushLocal
  <2>7. ASSUME NEW t \in Tasks, NEW P \in Priority, NEW m \in Node, PushRemote(t, P, m)
        PROVE  \E r \in Queue, u \in Tasks : order' = [order EXCEPT ![r] = Append(@, u)]
    BY <2>7, Queues DEF PushRemote
  <2>8. ASSUME NEW P \in Priority, ReturnSuccessor(P)
        PROVE  \E r \in Queue, u \in Tasks : order' = [order EXCEPT ![r] = Append(@, u)]
    <3>1. current \in Tasks
      BY <2>1, <2>8 DEF Core, WorkerInv, ReturnSuccessor
    <3> QED
      BY <2>8, <3>1, Queues DEF ReturnSuccessor
  <2>9. ASSUME NextTask
        PROVE  \E r \in Queue : /\ order' = [order EXCEPT ![r] = Tail(@)] /\ order[r] # <<>>
                               /\ current' = Head(order[r])
    BY <1>2, <2>1, <2>9, Starts DEF ChannelInv, NextTask
  <2>10. \A P \in Priority, m \in Node : Link(P, m) => order' = order
    BY DEF Link
  <2>11. FillBuffer \/ FillOne \/ FillOn \/ FillLow \/ FillEnd => order' = order
    BY DEF FillBuffer, FillOne, FillOn, FillLow, FillEnd
  <2>12. NextNothing \/ ProfilingFill \/ Return \/ UNCHANGED vars => order' = order
    BY DEF NextNothing, ProfilingFill, Return, vars
  <2> HIDE DEF Ordered
  <2> QED
    BY <1>2, <2>3, <2>4, <2>5, <2>6, <2>7, <2>8, <2>9, <2>10, <2>11, <2>12 DEF Next, Worker
<1>3. ChannelInv' => Kept'
  BY <1>1, PTL
<1>4. ChannelInv /\ ChannelInv' /\ [Next]_vars =>
        [/\ \A q \in Queue :
             \/ order'[q] = order[q]
             \/ \E t \in Tasks : order'[q] = Append(order[q], t)
             \/ /\ order[q] # <<>>
                /\ order'[q] = Tail(order[q])
                /\ current' = Head(order[q])
         /\ (UNION {Range(order[q]) : q \in Queue} = BufferTasks \cup QueueTasks)']_vars
  BY <1>2, <1>3
<1> QED
  BY <1>4, ChannelInvariant, PTL DEF Spec, InOrder

(* A task starts with no more than PrefetchDistance tasks behind it only     *)
(* when no normal task that the last fill found is left in a queue.          *)
THEOREM BufferIsRefilled == Spec => RefilledInTime
<1> DEFINE Refilled == /\ pc # "run" /\ pc' = "run"
                       /\ Cardinality(Occupied') <= PrefetchDistance /\ PrefetchDistance < S
                       => (IF pc = "filling" THEN filling.seen ELSE Ready("normal")) \cap QueueTasks' = {}
<1>1. ASSUME ChannelInv, ChannelInv', [Next]_vars PROVE Refilled
  <2> SUFFICES ASSUME pc # "run", pc' = "run", Cardinality(Occupied') <= PrefetchDistance, PrefetchDistance < S
               PROVE  (IF pc = "filling" THEN filling.seen ELSE Ready("normal")) \cap QueueTasks' = {}
    OBVIOUS
  <2>1. PICK n \in 0 .. S : Core(n)
    BY <1>1 DEF ChannelInv
  <2>2. S \in Nat \ {0} /\ PrefetchDistance \in Nat /\ n \in Nat /\ NumaNodes \in Nat
    BY BufferAssumption, ChannelAssumption
  <2>3. FillEnd \/ NextTask
    BY <1>1 DEF Next, Worker, PushLocal, PushRemote, Link, FillBuffer, Fill, FillOne, FillOn, FillLow,
                NextNothing, ProfilingFill, Return, ReturnSuccessor, vars
  <2>4. CASE FillEnd
    <3>1. /\ pc = "filling" /\ UNCHANGED <<local, linked, pending, buffer>>
          /\ filling.room = 0 \/ (filling.source = NumaNodes /\ Source(filling.priority, NumaNodes) = <<>>)
          /\ filling.room = S - n
      BY <2>1, <2>4 DEF FillEnd, Filled, queues, Core, WorkerInv
    <3>2. Cardinality(Occupied') = n
      <4>1. Cardinality(Occupied) = n
        BY <2>1, RingCount DEF Core, Occupied
      <4>2. Occupied' = Occupied
        BY <3>1 DEF Occupied
      <4> QED
        BY <4>1, <4>2
    <3>3. filling.room # 0
      BY <2>2, <3>1, <3>2
    <3>4. filling.source = NumaNodes /\ Source(filling.priority, NumaNodes) = <<>>
      BY <3>1, <3>3
    <3>5. filling.seen \subseteq BufferTasks
      <4> SUFFICES ASSUME NEW t \in filling.seen, t \notin BufferTasks PROVE FALSE
        OBVIOUS
      <4>1. filling.priority = "normal" /\ \E j \in filling.source .. NumaNodes : t \in Range(Source("normal", j))
        BY <1>1, <3>1 DEF ChannelInv, SeenInv
      <4>2. PICK j \in filling.source .. NumaNodes : t \in Range(Source("normal", j))
        BY <4>1
      <4>3. j = NumaNodes
        BY <2>2, <3>4
      <4>4. t \notin Range(<<>>)
        BY DEF Range
      <4> QED
        BY <3>4, <4>1, <4>2, <4>3, <4>4
    <3>6. BufferTasks \cap QueueTasks = {}
      BY <1>1, <2>1, PushedTasks DEF ChannelInv
    <3>7. QueueTasks' = QueueTasks
      BY <3>1 DEF QueueTasks, Rest
    <3> QED
      BY <3>1, <3>5, <3>6, <3>7
  <2>5. CASE NextTask
    <3>1. TakeNext /\ size' > PrefetchDistance
      <4>1. TakeNext /\ (size' <= PrefetchDistance => pc' = "filling")
        BY <2>5 DEF NextTask, Fill
      <4>2. size' \in Int
        BY <1>1, <2>1, <4>1, Starts DEF ChannelInv
      <4> QED
        BY <2>2, <4>1, <4>2
    <3>2. n - 1 \in 0 .. S /\ Ring(buffer', n - 1) /\ size' \in Int /\ size' <= n - 1
      BY <1>1, <2>1, <3>1, Starts DEF ChannelInv
    <3>3. Cardinality(Occupied') = n - 1
      BY <3>2, RingCount DEF Occupied
    <3> QED
      BY <2>2, <3>1, <3>2, <3>3
  <2> QED
    BY <2>3, <2>4, <2>5
<1>2. ChannelInv /\ ChannelInv' /\ [Next]_vars => [Refilled]_vars
  BY <1>1
<1> QED
  BY <1>2, ChannelInvariant, PTL DEF Spec, RefilledInTime
=============================================================================
