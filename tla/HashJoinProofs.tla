--------------------------- MODULE HashJoinProofs ---------------------------
(* The phases of the hash join follow each other, for any tables, numbers of *)
(* cores and batch sizes: PhasesInOrder.                                     *)
EXTENDS HashJoin, Integers, FiniteSetTheorems, TLAPS

-----------------------------------------------------------------------------
(* What can be queued while a configuration runs. *)
RowLists ==
    {Batched(side, RowsTo(side, c, t))[i].rows : side \in Sides, c \in Channels, t \in Channels, i \in Nat}
Tasks ==
    {Task(kind, side, <<>>) : kind \in {"partition", "notify"}, side \in Sides}
    \cup {Task("merge", "right", <<>>)}
    \cup {Task("batch", side, rows) : side \in Sides, rows \in RowLists}

Queues == [Channels -> [Channels -> Seq(Tasks)]]

IsA(task, kind, side) == task.kind = kind /\ task.side = side

(* A task of a kind and side is in a queue. *)
In(q, kind, side) == \E i \in 1 .. Len(q) : IsA(q[i], kind, side)

(* A queue holds a task at most once, batches apart, and a batch only        *)
(* together with the notification that follows it.                           *)
Single == {"partition", "notify", "merge"}
Once(q) ==
    \A kind \in Single, side \in Sides : \A i, j \in 1 .. Len(q) :
        IsA(q[i], kind, side) /\ IsA(q[j], kind, side) => i = j
Announced(q) ==
    \A side \in Sides : \A i \in 1 .. Len(q) :
        IsA(q[i], "batch", side) => \E j \in i + 1 .. Len(q) : IsA(q[j], "notify", side)

Has(s, c, kind, side) == In(queue[s][c], kind, side)

(* A partition task that is still to run. *)
ToPartition(c, side) == \E s \in Channels : Has(s, c, "partition", side)

(* The channels whose notification c still waits for. *)
Awaited(c, side) == {s \in Channels : Has(s, c, "notify", side) \/ ToPartition(s, side)}

JoinTypes ==
    /\ queue \in Queues
    /\ local \in [Sides -> [Channels -> Nat]]
    /\ global \in [Sides -> Nat]

QueueInv ==
    /\ \A s, c \in Channels : Once(queue[s][c]) /\ Announced(queue[s][c])
    /\ \A side \in Sides : \A r, s, c \in Channels :
          Has(r, c, "partition", side) /\ Has(s, c, "partition", side) => r = s
    /\ \A side \in Sides : \A s, c \in Channels :
          Has(s, c, "notify", side) => ~ToPartition(s, side)
    /\ \A r, s, c, d \in Channels :
          Has(r, c, "merge", "right") /\ Has(s, d, "merge", "right") => r = s /\ c = d

(* The listeners count what is still to come. *)
CountInv ==
    /\ \A side \in Sides : (side = "left" \/ global["left"] = 0) =>
          \A c \in Channels : local[side][c] = Cardinality(Awaited(c, side))
    /\ \A side \in Sides : global[side] = Cardinality({c \in Channels : local[side][c] # 0})

(* A phase begins when the one before is over. *)
PhaseInv ==
    /\ global["left"] # 0 => \A c \in Channels :
          /\ local["right"][c] = Count
          /\ \A s \in Channels : \A kind \in Single : ~Has(s, c, kind, "right")
    /\ global["right"] # 0 => \A s, c \in Channels : ~Has(s, c, "merge", "right")

ConfigInv ==
    /\ input \in Inputs
    /\ config \in Nat
    /\ batch \in 1 .. Len(Batches)
    /\ running \in BOOLEAN
    /\ running => config \in 1 .. Len(CoreSets)

JoinInv == ConfigInv /\ (running => JoinTypes /\ QueueInv /\ CountInv /\ PhaseInv)

-----------------------------------------------------------------------------
(* Queues as sequences. *)

(* Nothing but the head goes away with the head. *)
LEMMA InTail ==
    ASSUME NEW T, NEW q \in Seq(T), q # <<>>, NEW kind, NEW side
    PROVE  /\ In(Tail(q), kind, side) => In(q, kind, side)
           /\ In(q, kind, side) => IsA(Head(q), kind, side) \/ In(Tail(q), kind, side)
<1>1. Len(q) \in Nat \ {0} /\ Len(Tail(q)) = Len(q) - 1 /\ Head(q) = q[1]
  OBVIOUS
<1>2. \A i \in 1 .. Len(Tail(q)) : Tail(q)[i] = q[i + 1]
  OBVIOUS
<1>3. ASSUME In(Tail(q), kind, side) PROVE In(q, kind, side)
  <2>1. PICK i \in 1 .. Len(Tail(q)) : IsA(Tail(q)[i], kind, side)
    BY <1>3 DEF In
  <2>2. i + 1 \in 1 .. Len(q) /\ IsA(q[i + 1], kind, side)
    BY <1>1, <1>2, <2>1
  <2> QED
    BY <2>2 DEF In
<1>4. ASSUME In(q, kind, side), ~IsA(Head(q), kind, side) PROVE In(Tail(q), kind, side)
  <2>1. PICK i \in 1 .. Len(q) : IsA(q[i], kind, side)
    BY <1>4 DEF In
  <2>2. i # 1
    BY <1>1, <1>4, <2>1
  <2>3. i - 1 \in 1 .. Len(Tail(q)) /\ (i - 1) + 1 = i
    BY <1>1, <2>2
  <2>4. IsA(Tail(q)[i - 1], kind, side)
    BY <1>2, <2>1, <2>3
  <2> QED
    BY <2>3, <2>4 DEF In
<1> QED
  BY <1>3, <1>4

(* The tasks of a concatenation. *)
LEMMA InConcat ==
    ASSUME NEW T, NEW q \in Seq(T), NEW r \in Seq(T), NEW kind, NEW side
    PROVE  In(q \o r, kind, side) <=> In(q, kind, side) \/ In(r, kind, side)
<1>1. Len(q) \in Nat /\ Len(r) \in Nat /\ Len(q \o r) = Len(q) + Len(r)
  OBVIOUS
<1>2. /\ \A i \in 1 .. Len(q) : (q \o r)[i] = q[i]
      /\ \A i \in 1 .. Len(r) : (q \o r)[Len(q) + i] = r[i]
  OBVIOUS
<1>3. ASSUME In(q, kind, side) PROVE In(q \o r, kind, side)
  BY <1>1, <1>2, <1>3 DEF In
<1>4. ASSUME In(r, kind, side) PROVE In(q \o r, kind, side)
  <2>1. PICK i \in 1 .. Len(r) : IsA(r[i], kind, side)
    BY <1>4 DEF In
  <2>2. Len(q) + i \in 1 .. Len(q \o r) /\ IsA((q \o r)[Len(q) + i], kind, side)
    BY <1>1, <1>2, <2>1
  <2> QED
    BY <2>2 DEF In
<1>5. ASSUME In(q \o r, kind, side), ~In(q, kind, side) PROVE In(r, kind, side)
  <2>1. PICK i \in 1 .. Len(q \o r) : IsA((q \o r)[i], kind, side)
    BY <1>5 DEF In
  <2>2. ~(i \in 1 .. Len(q))
    BY <1>2, <1>5, <2>1 DEF In
  <2>3. i - Len(q) \in 1 .. Len(r) /\ Len(q) + (i - Len(q)) = i
    BY <1>1, <2>2
  <2>4. IsA(r[i - Len(q)], kind, side)
    BY <1>2, <2>1, <2>3
  <2> QED
    BY <2>3, <2>4 DEF In
<1> QED
  BY <1>3, <1>4, <1>5

(* A queue without its head is as orderly as before, and the head was the    *)
(* only task of its kind.                                                    *)
LEMMA OrderlyTail ==
    ASSUME NEW T, NEW q \in Seq(T), q # <<>>, Once(q), Announced(q)
    PROVE  /\ Once(Tail(q)) /\ Announced(Tail(q))
           /\ \A kind \in Single, side \in Sides :
                 IsA(Head(q), kind, side) => ~In(Tail(q), kind, side)
<1>1. Len(q) \in Nat \ {0} /\ Len(Tail(q)) = Len(q) - 1 /\ Head(q) = q[1]
  OBVIOUS
<1>2. \A i \in 1 .. Len(Tail(q)) : Tail(q)[i] = q[i + 1] /\ i + 1 \in 1 .. Len(q)
  BY <1>1
<1>3. Once(Tail(q))
  <2> SUFFICES ASSUME NEW kind \in Single, NEW side \in Sides,
                      NEW i \in 1 .. Len(Tail(q)), NEW j \in 1 .. Len(Tail(q)),
                      IsA(Tail(q)[i], kind, side), IsA(Tail(q)[j], kind, side)
               PROVE  i = j
    BY DEF Once
  <2>1. i + 1 = j + 1
    BY <1>2 DEF Once
  <2> QED
    BY <1>1, <2>1
<1>4. Announced(Tail(q))
  <2> SUFFICES ASSUME NEW side \in Sides, NEW i \in 1 .. Len(Tail(q)), IsA(Tail(q)[i], "batch", side)
               PROVE  \E j \in i + 1 .. Len(Tail(q)) : IsA(Tail(q)[j], "notify", side)
    BY DEF Announced
  <2>1. PICK j \in (i + 1) + 1 .. Len(q) : IsA(q[j], "notify", side)
    BY <1>2 DEF Announced
  <2>2. j - 1 \in i + 1 .. Len(Tail(q)) /\ j - 1 \in 1 .. Len(Tail(q)) /\ (j - 1) + 1 = j
    BY <1>1
  <2>3. IsA(Tail(q)[j - 1], "notify", side)
    BY <1>2, <2>1, <2>2
  <2> QED
    BY <2>2, <2>3
<1>5. ASSUME NEW kind \in Single, NEW side \in Sides, IsA(Head(q), kind, side), In(Tail(q), kind, side)
      PROVE  FALSE
  <2>1. PICK i \in 1 .. Len(Tail(q)) : IsA(Tail(q)[i], kind, side)
    BY <1>5 DEF In
  <2>2. IsA(q[i + 1], kind, side) /\ IsA(q[1], kind, side) /\ 1 \in 1 .. Len(q)
    BY <1>1, <1>2, <1>5, <2>1
  <2>3. i + 1 = 1
    BY <1>2, <2>2 DEF Once
  <2> QED
    BY <1>1, <2>3
<1> QED
  BY <1>3, <1>4, <1>5

(* Orderly queues with nothing in common make an orderly one. *)
LEMMA OrderlyConcat ==
    ASSUME NEW T, NEW q \in Seq(T), NEW r \in Seq(T),
           Once(q), Announced(q), Once(r), Announced(r),
           \A kind \in Single, side \in Sides : ~(In(q, kind, side) /\ In(r, kind, side))
    PROVE  Once(q \o r) /\ Announced(q \o r)
<1> DEFINE m == Len(q)
           n == Len(r)
           w == q \o r
<1>1. m \in Nat /\ n \in Nat /\ Len(w) = m + n
  OBVIOUS
<1>2. \A i \in 1 .. m : w[i] = q[i]
  OBVIOUS
<1>3. \A i \in 1 .. n : w[m + i] = r[i]
  OBVIOUS
<1>4. \A i \in 1 .. m + n : i \in 1 .. m \/ (i - m \in 1 .. n /\ w[i] = r[i - m])
  <2> SUFFICES ASSUME NEW i \in 1 .. m + n, ~(i \in 1 .. m)
               PROVE  i - m \in 1 .. n /\ w[i] = r[i - m]
    OBVIOUS
  <2>1. i - m \in 1 .. n /\ m + (i - m) = i
    BY <1>1
  <2> QED
    BY <1>3, <2>1
<1> HIDE DEF m, n, w
<1>5. Once(w)
  <2> SUFFICES ASSUME NEW kind \in Single, NEW side \in Sides,
                      NEW i \in 1 .. m + n, NEW j \in 1 .. m + n,
                      IsA(w[i], kind, side), IsA(w[j], kind, side)
               PROVE  i = j
    BY <1>1 DEF Once
  <2>1. CASE i \in 1 .. m /\ j \in 1 .. m
    BY <1>2, <2>1 DEF Once, m
  <2>2. CASE i \in 1 .. m /\ ~(j \in 1 .. m)
    <3>1. In(q, kind, side)
      BY <1>2, <2>2 DEF In, m
    <3>2. In(r, kind, side)
      BY <1>4, <2>2 DEF In, n
    <3> QED
      BY <3>1, <3>2
  <2>3. CASE ~(i \in 1 .. m) /\ j \in 1 .. m
    <3>1. In(q, kind, side)
      BY <1>2, <2>3 DEF In, m
    <3>2. In(r, kind, side)
      BY <1>4, <2>3 DEF In, n
    <3> QED
      BY <3>1, <3>2
  <2>4. CASE ~(i \in 1 .. m) /\ ~(j \in 1 .. m)
    <3>1. i - m \in 1 .. n /\ j - m \in 1 .. n /\ IsA(r[i - m], kind, side) /\ IsA(r[j - m], kind, side)
      BY <1>4, <2>4
    <3>2. i - m = j - m
      BY <3>1 DEF Once, n
    <3> QED
      BY <1>1, <3>2
  <2> QED
    BY <2>1, <2>2, <2>3, <2>4
<1>6. Announced(w)
  <2> SUFFICES ASSUME NEW side \in Sides, NEW i \in 1 .. m + n, IsA(w[i], "batch", side)
               PROVE  \E j \in i + 1 .. m + n : IsA(w[j], "notify", side)
    BY <1>1 DEF Announced
  <2>1. CASE i \in 1 .. m
    <3>1. PICK j \in i + 1 .. m : IsA(q[j], "notify", side)
      BY <1>2, <2>1 DEF Announced, m
    <3>2. j \in 1 .. m /\ j \in i + 1 .. m + n
      BY <1>1, <2>1
    <3> QED
      BY <1>2, <3>1, <3>2
  <2>2. CASE ~(i \in 1 .. m)
    <3>1. i - m \in 1 .. n /\ IsA(r[i - m], "batch", side)
      BY <1>4, <2>2
    <3>2. PICK j \in (i - m) + 1 .. n : IsA(r[j], "notify", side)
      BY <3>1 DEF Announced, n
    <3>3. j \in 1 .. n /\ m + j \in i + 1 .. m + n
      BY <1>1, <3>1
    <3>4. IsA(w[m + j], "notify", side)
      BY <1>3, <3>2, <3>3
    <3> QED
      BY <3>3, <3>4
  <2> QED
    BY <2>1, <2>2
<1> QED
  BY <1>5, <1>6 DEF w

-----------------------------------------------------------------------------
(* What is spawned. *)

(* The number of cores is positive and the channels are that many. *)
LEMMA CountFacts ==
    ASSUME ConfigInv, config \in 1 .. Len(CoreSets)
    PROVE  /\ Count \in Nat \ {0} /\ 0 \in Channels
           /\ IsFiniteSet(Channels) /\ Cardinality(Channels) = Count
           /\ Batches[batch] \in Nat \ {0}
<1>1. Count \in Nat \ {0}
  BY InputAssumption DEF Count
<1>2. Batches[batch] \in Nat \ {0}
  BY InputAssumption DEF ConfigInv
<1>3. IsFiniteSet(0 .. Count - 1) /\ Cardinality(0 .. Count - 1) = Count
  BY <1>1, FS_Interval
<1> QED
  BY <1>1, <1>2, <1>3 DEF Channels

(* The quotient of natural numbers. *)
LEMMA Quotient ==
    ASSUME NEW n \in Nat, NEW d \in Nat \ {0}
    PROVE  n \div d \in Nat
OBVIOUS

(* The rows for a target are counted. *)
LEMMA RowsCounted ==
    ASSUME ConfigInv, config \in 1 .. Len(CoreSets),
           NEW side \in Sides, NEW c \in Channels, NEW t \in Channels
    PROVE  Len(RowsTo(side, c, t)) \in Nat
<1> DEFINE mine == {i \in 1 .. KeysFor(side, c) : Rows(side, c)[i].key % Count = t}
<1>1. Count \in Nat \ {0} /\ c \in Nat
  BY CountFacts DEF Channels
<1>2. Len(input[side]) \in Nat
  BY InputAssumption DEF ConfigInv
<1>3. PerCore(side) \in Nat
  <2> DEFINE lines == Len(input[side]) \div KeysPerLine
             share == lines \div Count
  <2>0. KeysPerLine \in Nat \ {0}
    BY InputAssumption
  <2>1. lines \in Nat
    BY ONLY <1>2, <2>0, Quotient
  <2> HIDE DEF lines
  <2>2. share \in Nat
    BY ONLY <1>1, <2>1, Quotient
  <2> HIDE DEF share
  <2>3. share * KeysPerLine \in Nat
    BY ONLY <2>0, <2>2
  <2> QED
    BY <2>3 DEF PerCore, TuplesPerCore, share, lines
<1>4. (Count - 1) * PerCore(side) \in Nat
  BY <1>1, <1>3
<1>5. KeysFor(side, c) \in Int
  BY <1>1, <1>2, <1>3, <1>4 DEF KeysFor
<1>6. IsFiniteSet(1 .. KeysFor(side, c))
  BY <1>5, FS_Interval
<1>7. IsFiniteSet(mine)
  BY <1>6, FS_Subset
<1>8. Cardinality(mine) \in Nat
  BY <1>7, FS_CardinalityType
<1> QED
  BY <1>8 DEF RowsTo

(* A partition task spawns batches and one notification behind them. *)
LEMMA SpawnedTasks ==
    ASSUME ConfigInv, config \in 1 .. Len(CoreSets),
           NEW side \in Sides, NEW c \in Channels, NEW t \in Channels
    PROVE  /\ Spawned(side, c, t) \in Seq(Tasks)
           /\ Once(Spawned(side, c, t)) /\ Announced(Spawned(side, c, t))
           /\ \A kind \in Single, other \in Sides :
                 In(Spawned(side, c, t), kind, other) <=> kind = "notify" /\ other = side
<1> DEFINE rows == RowsTo(side, c, t)
           q == Batched(side, rows)
           n == Len(rows) \div Batches[batch] + 1
           w == Append(q, Notification(side))
<1>1. n \in Nat
  <2>1. Len(rows) \in Nat /\ Batches[batch] \in Nat \ {0}
    BY RowsCounted, CountFacts
  <2> QED
    BY <2>1
<1> HIDE DEF n
<1>2. q = [i \in 1 .. n |-> q[i]]
  BY DEF Batched, n
<1>3. \A i \in 1 .. n : q[i] = Task("batch", side, q[i].rows)
  BY DEF Batched, n, Task
<1> HIDE DEF q
<1>4. \A i \in 1 .. n : q[i] \in Tasks
  <2> SUFFICES ASSUME NEW i \in 1 .. n PROVE q[i] \in Tasks
    OBVIOUS
  <2>1. i \in Nat
    BY <1>1
  <2>2. q[i].rows \in RowLists
    BY <2>1 DEF RowLists, q
  <2> QED
    BY <1>3, <2>2 DEF Tasks
<1>5. q \in Seq(Tasks) /\ Len(q) = n
  BY <1>1, <1>2, <1>4
<1>6. Notification(side) \in Tasks
  BY DEF Notification, Tasks
<1>7. w \in Seq(Tasks) /\ Len(w) = n + 1 /\ w[n + 1] = Notification(side)
  BY <1>1, <1>5, <1>6
<1>8. \A i \in 1 .. n : w[i] = q[i]
  BY <1>1, <1>5, <1>6
<1> HIDE DEF w
<1>9. \A i \in 1 .. n : w[i].kind = "batch" /\ w[i].side = side
  <2> SUFFICES ASSUME NEW i \in 1 .. n PROVE w[i].kind = "batch" /\ w[i].side = side
    OBVIOUS
  <2>1. w[i] = Task("batch", side, q[i].rows)
    BY <1>3, <1>8
  <2> QED
    BY <2>1 DEF Task
<1>10. w[n + 1].kind = "notify" /\ w[n + 1].side = side
  BY <1>7 DEF Notification, Task
<1>11. \A i \in 1 .. n + 1 : \A kind \in Single, other \in Sides :
          IsA(w[i], kind, other) <=> i = n + 1 /\ kind = "notify" /\ other = side
  <2> SUFFICES ASSUME NEW i \in 1 .. n + 1, NEW kind \in Single, NEW other \in Sides
               PROVE  IsA(w[i], kind, other) <=> i = n + 1 /\ kind = "notify" /\ other = side
    OBVIOUS
  <2>1. CASE i \in 1 .. n
    <3>1. i # n + 1
      BY <1>1, <2>1
    <3>2. kind # "batch"
      BY DEF Single
    <3> QED
      BY <1>9, <2>1, <3>1, <3>2 DEF IsA
  <2>2. CASE i = n + 1
    BY <1>10, <2>2 DEF IsA
  <2> QED
    BY <1>1, <2>1, <2>2
<1>12. n + 1 \in 1 .. n + 1 /\ \A i \in 1 .. n : n + 1 \in i + 1 .. n + 1
  BY <1>1
<1>13. Once(w)
  BY <1>7, <1>11 DEF Once
<1>14. Announced(w)
  <2> SUFFICES ASSUME NEW other \in Sides, NEW i \in 1 .. n + 1, IsA(w[i], "batch", other)
               PROVE  \E j \in i + 1 .. n + 1 : IsA(w[j], "notify", other)
    BY <1>7 DEF Announced
  <2>1. i # n + 1
    BY <1>10 DEF IsA
  <2>2. i \in 1 .. n
    BY <1>1, <2>1
  <2>3. other = side
    BY <1>9, <2>2 DEF IsA
  <2>4. IsA(w[n + 1], "notify", other)
    BY <1>10, <2>3 DEF IsA
  <2> QED
    BY <1>12, <2>2, <2>4
<1>15. ASSUME NEW kind \in Single, NEW other \in Sides
       PROVE  In(w, kind, other) <=> kind = "notify" /\ other = side
  BY <1>7, <1>11, <1>12 DEF In
<1>16. w = Spawned(side, c, t)
  BY DEF w, q, Spawned
<1> QED
  BY <1>7, <1>13, <1>14, <1>15, <1>16

(* No task at all. *)
LEMMA NoTask ==
    /\ <<>> \in Seq(Tasks) /\ Once(<<>>) /\ Announced(<<>>)
    /\ \A kind, side : ~In(<<>>, kind, side)
<1>1. Len(<<>>) = 0 /\ \A i : ~(i \in 1 .. 0)
  OBVIOUS
<1> QED
  BY <1>1 DEF Once, Announced, In

(* One task that is not a batch. *)
LEMMA OneTask ==
    ASSUME NEW kind \in Single, NEW side \in Sides, Task(kind, side, <<>>) \in Tasks,
           NEW q, q = <<Task(kind, side, <<>>)>>
    PROVE  /\ q \in Seq(Tasks) /\ Once(q) /\ Announced(q)
           /\ \A k \in Single, other \in Sides : In(q, k, other) <=> k = kind /\ other = side
<1>1. q \in Seq(Tasks) /\ Len(q) = 1 /\ q[1].kind = kind /\ q[1].side = side
  BY DEF Task
<1>2. \A i : i \in 1 .. 1 <=> i = 1
  OBVIOUS
<1>3. Once(q)
  BY <1>1, <1>2 DEF Once
<1>4. Announced(q)
  <2>1. kind # "batch"
    BY DEF Single
  <2> QED
    BY <1>1, <1>2, <2>1 DEF Announced, IsA
<1>5. \A k \in Single, other \in Sides : In(q, k, other) <=> k = kind /\ other = side
  BY <1>1, <1>2 DEF In, IsA
<1> QED
  BY <1>1, <1>3, <1>4, <1>5

-----------------------------------------------------------------------------
(* What a task does to the queues: it is taken out of the one it is in and   *)
(* the tasks it spawns are appended to those of its channel.                 *)
Rest(s, c, r, t) == IF r = s /\ t = c THEN Tail(queue[s][c]) ELSE queue[r][t]
Executed(q, s, c, tasks) ==
    /\ q \in Queues
    /\ \A r, t \in Channels : q[r][t] = Rest(s, c, r, t) \o (IF r = c THEN tasks[t] ELSE <<>>)

(* The queues without their head. *)
LEMMA RestType ==
    ASSUME NEW s \in Channels, NEW c \in Channels, queue \in Queues, queue[s][c] # <<>>
    PROVE  /\ \A r, t \in Channels : Rest(s, c, r, t) \in Seq(Tasks) /\ queue[r][t] \in Seq(Tasks)
           /\ Popped(s, c) \in Queues
           /\ \A r, t \in Channels : Popped(s, c)[r][t] = Rest(s, c, r, t)
<1>1. \A r, t \in Channels : queue[r][t] \in Seq(Tasks)
  BY DEF Queues
<1>2. Tail(queue[s][c]) \in Seq(Tasks)
  BY <1>1
<1>3. \A r, t \in Channels : Rest(s, c, r, t) \in Seq(Tasks)
  BY <1>1, <1>2 DEF Rest
<1>4. Popped(s, c) \in Queues
  BY <1>2 DEF Queues, Popped
<1>5. \A r, t \in Channels : Popped(s, c)[r][t] = Rest(s, c, r, t)
  BY DEF Queues, Popped, Rest
<1> QED
  BY <1>1, <1>3, <1>4, <1>5

(* A task that spawns nothing. *)
LEMMA PopExecutes ==
    ASSUME NEW s \in Channels, NEW c \in Channels, queue \in Queues, queue[s][c] # <<>>
    PROVE  Executed(Popped(s, c), s, c, [t \in Channels |-> <<>>])
<1> SUFFICES ASSUME NEW r \in Channels, NEW t \in Channels
             PROVE  Rest(s, c, r, t) = Rest(s, c, r, t) \o (IF r = c THEN [u \in Channels |-> <<>>][t] ELSE <<>>)
  BY RestType DEF Executed
<1>1. Rest(s, c, r, t) \in Seq(Tasks)
  BY RestType
<1>2. Rest(s, c, r, t) = Rest(s, c, r, t) \o <<>>
  BY <1>1
<1> QED
  BY <1>2

(* A task that spawns others. *)
LEMMA SpawnExecutes ==
    ASSUME NEW s \in Channels, NEW c \in Channels, queue \in Queues, queue[s][c] # <<>>,
           NEW tasks, \A t \in Channels : tasks[t] \in Seq(Tasks)
    PROVE  Executed(SpawnTo(Popped(s, c), c, tasks), s, c, tasks)
<1> DEFINE p == Popped(s, c)
           q == SpawnTo(p, c, tasks)
<1>1. p \in Queues /\ \A r, t \in Channels : p[r][t] = Rest(s, c, r, t) /\ p[r][t] \in Seq(Tasks)
  BY RestType
<1> HIDE DEF p
<1>2. \A t \in Channels : p[c][t] \o tasks[t] \in Seq(Tasks)
  BY <1>1
<1>3. [t \in Channels |-> p[c][t] \o tasks[t]] \in [Channels -> Seq(Tasks)]
  BY <1>2
<1>4. q = [p EXCEPT ![c] = [t \in Channels |-> p[c][t] \o tasks[t]]]
  BY <1>1 DEF SpawnTo, Queues
<1>5. q \in Queues
  BY <1>1, <1>3, <1>4 DEF Queues
<1>6. ASSUME NEW r \in Channels, NEW t \in Channels
      PROVE  q[r][t] = Rest(s, c, r, t) \o (IF r = c THEN tasks[t] ELSE <<>>)
  <2>1. CASE r = c
    <3>1. q[c][t] = p[c][t] \o tasks[t]
      BY <1>1, <1>4 DEF Queues
    <3> QED
      BY <1>1, <2>1, <3>1
  <2>2. CASE r # c
    <3>1. q[r][t] = p[r][t]
      BY <1>1, <1>4, <2>2 DEF Queues
    <3>2. p[r][t] = p[r][t] \o <<>>
      BY <1>1
    <3> QED
      BY <1>1, <2>2, <3>1, <3>2
  <2> QED
    BY <2>1, <2>2
<1> QED
  BY <1>5, <1>6 DEF Executed, p

(* Tasks that can be spawned without disorder: nothing is queued twice. *)
Spawnable(c, tasks) ==
    /\ \A t \in Channels : tasks[t] \in Seq(Tasks) /\ Once(tasks[t]) /\ Announced(tasks[t])
    /\ \A t \in Channels : \A kind \in Single, side \in Sides :
          In(tasks[t], kind, side) => ~Has(c, t, kind, side)

(* Queues with what was there, without the executed task and with the new    *)
(* ones.                                                                     *)
Outcome(q, s, c, tasks) ==
    /\ \A r, t \in Channels : Once(q[r][t]) /\ Announced(q[r][t])
    /\ \A r, t \in Channels : \A kind \in Single, side \in Sides :
          In(q[r][t], kind, side) <=>
             \/ Has(r, t, kind, side) /\ ~(r = s /\ t = c /\ IsA(Head(queue[s][c]), kind, side))
             \/ r = c /\ In(tasks[t], kind, side)

(* Which tasks are queued afterwards. *)
LEMMA ExecutedQueues ==
    ASSUME NEW s \in Channels, NEW c \in Channels, queue \in Queues, queue[s][c] # <<>>, QueueInv,
           NEW tasks, NEW q, Executed(q, s, c, tasks), Spawnable(c, tasks)
    PROVE  Outcome(q, s, c, tasks)
<1> SUFFICES ASSUME NEW r \in Channels, NEW t \in Channels
             PROVE  /\ Once(q[r][t]) /\ Announced(q[r][t])
                    /\ \A kind \in Single, side \in Sides :
                          In(q[r][t], kind, side) <=>
                             \/ Has(r, t, kind, side) /\ ~(r = s /\ t = c /\ IsA(Head(queue[s][c]), kind, side))
                             \/ r = c /\ In(tasks[t], kind, side)
  BY DEF Outcome
<1>0. /\ tasks[t] \in Seq(Tasks) /\ Once(tasks[t]) /\ Announced(tasks[t])
      /\ r = c => \A kind \in Single, side \in Sides : In(tasks[t], kind, side) => ~Has(r, t, kind, side)
      /\ Once(queue[r][t]) /\ Announced(queue[r][t]) /\ Once(queue[s][c]) /\ Announced(queue[s][c])
  BY DEF Spawnable, QueueInv
<1> DEFINE a == Rest(s, c, r, t)
           b == IF r = c THEN tasks[t] ELSE <<>>
           h == Head(queue[s][c])
<1>1. a \in Seq(Tasks) /\ b \in Seq(Tasks) /\ q[r][t] = a \o b /\ queue[r][t] \in Seq(Tasks)
  BY <1>0, RestType, NoTask DEF Executed
<1>2. Once(b) /\ Announced(b)
  BY <1>0, NoTask
<1>3. \A kind \in Single, side \in Sides : In(b, kind, side) <=> r = c /\ In(tasks[t], kind, side)
  BY NoTask
<1>4. Once(a) /\ Announced(a)
  <2>1. CASE r = s /\ t = c
    BY <1>0, <1>1, <2>1, OrderlyTail DEF Rest
  <2>2. CASE ~(r = s /\ t = c)
    BY <1>0, <2>2 DEF Rest
  <2> QED
    BY <2>1, <2>2
<1>5. ASSUME NEW kind \in Single, NEW side \in Sides
      PROVE  In(a, kind, side) <=> Has(r, t, kind, side) /\ ~(r = s /\ t = c /\ IsA(h, kind, side))
  <2>1. CASE r = s /\ t = c
    <3>1. a = Tail(queue[s][c]) /\ queue[s][c] \in Seq(Tasks)
      BY <1>1, <2>1 DEF Rest
    <3>2. In(a, kind, side) => In(queue[s][c], kind, side)
      BY <3>1, InTail
    <3>3. In(queue[s][c], kind, side) => IsA(h, kind, side) \/ In(a, kind, side)
      BY <3>1, InTail
    <3>4. IsA(h, kind, side) => ~In(a, kind, side)
      BY <1>0, <3>1, OrderlyTail
    <3> QED
      BY <2>1, <3>2, <3>3, <3>4 DEF Has
  <2>2. CASE ~(r = s /\ t = c)
    BY <2>2 DEF Rest, Has
  <2> QED
    BY <2>1, <2>2
<1> HIDE DEF a, b, h
<1>6. ASSUME NEW kind \in Single, NEW side \in Sides PROVE ~(In(a, kind, side) /\ In(b, kind, side))
  BY <1>0, <1>3, <1>5
<1>7. Once(a \o b) /\ Announced(a \o b)
  BY <1>1, <1>2, <1>4, <1>6, OrderlyConcat
<1>8. ASSUME NEW kind \in Single, NEW side \in Sides
      PROVE  In(a \o b, kind, side) <=> In(a, kind, side) \/ In(b, kind, side)
  BY <1>1, InConcat
<1>9. ASSUME NEW kind \in Single, NEW side \in Sides
      PROVE  In(q[r][t], kind, side) <=>
                \/ Has(r, t, kind, side) /\ ~(r = s /\ t = c /\ IsA(h, kind, side))
                \/ r = c /\ In(tasks[t], kind, side)
  BY <1>1, <1>3, <1>5, <1>8
<1> QED
  BY <1>1, <1>7, <1>9 DEF h

-----------------------------------------------------------------------------
(* RowsTo as an operator on rows. *)
Selected(rows, keys, count, target) ==
    LET mine == {i \in 1 .. keys : rows[i].key % count = target}
    IN  [n \in 1 .. Cardinality(mine) |->
            rows[CHOOSE i \in mine : Cardinality({j \in mine : j <= i}) = n]]

(* What stays as it is while a configuration runs. *)
LEMMA Steady ==
    ASSUME UNCHANGED <<input, config, batch>>
    PROVE  Count' = Count /\ Channels' = Channels /\ Queues' = Queues
<1>1. Count' = Count
  BY DEF Count
<1>2. Channels' = Channels
  BY <1>1 DEF Channels
<1>3. \A side : PerCore(side)' = PerCore(side)
  BY <1>1 DEF PerCore, TuplesPerCore
<1>4. \A side, c : KeysFor(side, c)' = KeysFor(side, c)
  BY <1>1, <1>3 DEF KeysFor
<1>5. \A side, c : Rows(side, c)' = Rows(side, c)
  BY <1>3, <1>4 DEF Rows
<1>6. \A side, c, t : RowsTo(side, c, t)' = RowsTo(side, c, t)
  <2> SUFFICES ASSUME NEW side, NEW c, NEW t PROVE RowsTo(side, c, t)' = RowsTo(side, c, t)
    OBVIOUS
  <2>1. RowsTo(side, c, t) = Selected(Rows(side, c), KeysFor(side, c), Count, t)
    BY DEF RowsTo, Selected
  <2>2. RowsTo(side, c, t)' = Selected(Rows(side, c)', KeysFor(side, c)', Count', t)
    BY DEF RowsTo, Selected
  <2> QED
    BY <1>1, <1>4, <1>5, <2>1, <2>2
<1>7. \A side, c, t : Batched(side, RowsTo(side, c, t))' = Batched(side, RowsTo(side, c, t))
  BY <1>6 DEF Batched
<1>8. RowLists' = RowLists
  BY <1>2, <1>7 DEF RowLists
<1>9. Tasks' = Tasks
  BY <1>8 DEF Tasks
<1> QED
  BY <1>1, <1>2, <1>9 DEF Queues

(* The sides of tasks. *)
LEMMA TaskSides ==
    ASSUME NEW task \in Tasks
    PROVE  /\ task.side \in Sides /\ task.kind \in Single \cup {"batch"}
           /\ task.kind = "merge" => task = Task("merge", "right", <<>>)
  BY DEF Tasks, Task, Sides, Single

(* The task that is executed is queued. *)
LEMMA HeadIsQueued ==
    ASSUME NEW s, NEW c, NEW kind, ConfigInv, JoinTypes, Next1(s, c, kind)
    PROVE  /\ running /\ config \in 1 .. Len(CoreSets)
           /\ s \in Channels /\ c \in Channels /\ queue \in Queues /\ queue[s][c] # <<>>
           /\ Head(queue[s][c]) \in Tasks /\ Head(queue[s][c]).kind = kind
           /\ Head(queue[s][c]).side \in Sides
           /\ Has(s, c, kind, Head(queue[s][c]).side)
<1>1. running /\ config \in 1 .. Len(CoreSets) /\ s \in Channels /\ c \in Channels /\ queue \in Queues
  BY DEF Next1, ConfigInv, JoinTypes
<1>2. queue[s][c] # <<>> /\ Head(queue[s][c]).kind = kind
  BY DEF Next1
<1>3. queue[s][c] \in Seq(Tasks)
  BY <1>1 DEF Queues
<1>4. Head(queue[s][c]) \in Tasks /\ 1 \in 1 .. Len(queue[s][c]) /\ Head(queue[s][c]) = queue[s][c][1]
  BY <1>2, <1>3
<1>5. Has(s, c, kind, Head(queue[s][c]).side)
  BY <1>2, <1>4 DEF Has, In, IsA
<1> QED
  BY <1>1, <1>2, <1>4, <1>5, TaskSides

(* A partition task turns into the notifications that are waited for.        *)
LEMMA PartitionStep ==
    ASSUME JoinInv, NEW s, NEW c, Partition(s, c), UNCHANGED <<input, config, batch, iteration>>
    PROVE  JoinInv'
<1> DEFINE x == Head(queue[s][c]).side
           tasks == [t \in Channels |-> Spawned(x, c, t)]
<1>1. Next1(s, c, "partition") /\ UNCHANGED <<local, global, running>>
  BY DEF Partition
<1>2. running /\ ConfigInv /\ JoinTypes /\ QueueInv /\ CountInv /\ PhaseInv
  BY <1>1 DEF JoinInv, Next1
<1>3. /\ config \in 1 .. Len(CoreSets) /\ s \in Channels /\ c \in Channels
      /\ queue \in Queues /\ queue[s][c] # <<>>
      /\ Head(queue[s][c]).kind = "partition" /\ x \in Sides /\ Has(s, c, "partition", x)
  BY <1>1, <1>2, HeadIsQueued
<1>4. queue' = SpawnTo(Popped(s, c), c, tasks)
  BY DEF Partition
<1> HIDE DEF x
<1>5. Channels' = Channels /\ Queues' = Queues /\ Count' = Count
  BY Steady
<1>6. \A t \in Channels : /\ tasks[t] \in Seq(Tasks) /\ Once(tasks[t]) /\ Announced(tasks[t])
                          /\ \A kind \in Single, side \in Sides :
                                In(tasks[t], kind, side) <=> kind = "notify" /\ side = x
  BY <1>2, <1>3, SpawnedTasks
<1> HIDE DEF tasks
<1>7. Executed(queue', s, c, tasks)
  BY <1>3, <1>4, <1>6, SpawnExecutes
<1>8. ToPartition(c, x)
  BY <1>3 DEF ToPartition
<1>9. \A t \in Channels : ~Has(c, t, "notify", x)
  BY <1>2, <1>3, <1>8 DEF QueueInv
<1>10. /\ \A r, t \in Channels : Once(queue'[r][t]) /\ Announced(queue'[r][t])
       /\ \A r, t \in Channels : \A kind \in Single, side \in Sides :
             In(queue'[r][t], kind, side) <=>
                \/ Has(r, t, kind, side) /\ ~(r = s /\ t = c /\ IsA(Head(queue[s][c]), kind, side))
                \/ r = c /\ In(tasks[t], kind, side)
  <2>1. QueueInv
    BY <1>2
  <2>2. \A t \in Channels : \A kind \in Single, side \in Sides :
              In(tasks[t], kind, side) => ~Has(c, t, kind, side)
    BY <1>6, <1>9
  <2>3. \A t \in Channels : tasks[t] \in Seq(Tasks) /\ Once(tasks[t]) /\ Announced(tasks[t])
    BY <1>6
  <2>4. Spawnable(c, tasks)
    BY <2>2, <2>3 DEF Spawnable
  <2>5. Outcome(queue', s, c, tasks)
    BY <1>3, <1>7, <2>1, <2>4, ExecutedQueues
  <2> QED
    BY <2>5 DEF Outcome
<1>11. \A r, t \in Channels : \A side \in Sides :
          /\ In(queue'[r][t], "partition", side) <=> Has(r, t, "partition", side) /\ ~(r = s /\ t = c /\ side = x)
          /\ In(queue'[r][t], "notify", side) <=> Has(r, t, "notify", side) \/ (r = c /\ side = x)
          /\ In(queue'[r][t], "merge", side) <=> Has(r, t, "merge", side)
  <2> SUFFICES ASSUME NEW r \in Channels, NEW t \in Channels, NEW side \in Sides
               PROVE  /\ In(queue'[r][t], "partition", side) <=> Has(r, t, "partition", side) /\ ~(r = s /\ t = c /\ side = x)
                      /\ In(queue'[r][t], "notify", side) <=> Has(r, t, "notify", side) \/ (r = c /\ side = x)
                      /\ In(queue'[r][t], "merge", side) <=> Has(r, t, "merge", side)
    OBVIOUS
  <2>1. \A kind \in Single : IsA(Head(queue[s][c]), kind, side) <=> kind = "partition" /\ side = x
    BY <1>3 DEF IsA, x
  <2>2. "partition" \in Single /\ "notify" \in Single /\ "merge" \in Single
    BY DEF Single
  <2> QED
    BY <1>6, <1>10, <2>1, <2>2
<1>12. \A r, t \in Channels : \A side \in Sides :
          /\ Has(r, t, "partition", side)' <=> Has(r, t, "partition", side) /\ ~(r = s /\ t = c /\ side = x)
          /\ Has(r, t, "notify", side)' <=> Has(r, t, "notify", side) \/ (r = c /\ side = x)
          /\ Has(r, t, "merge", side)' <=> Has(r, t, "merge", side)
  BY <1>11 DEF Has
<1>13. \A t \in Channels : \A side \in Sides :
          ToPartition(t, side)' <=> ToPartition(t, side) /\ ~(t = c /\ side = x)
  <2> SUFFICES ASSUME NEW t \in Channels, NEW side \in Sides
               PROVE  ToPartition(t, side)' <=> ToPartition(t, side) /\ ~(t = c /\ side = x)
    OBVIOUS
  <2>1. ToPartition(t, side)' <=> \E r \in Channels : Has(r, t, "partition", side) /\ ~(r = s /\ t = c /\ side = x)
    BY <1>5, <1>12 DEF ToPartition
  <2>2. CASE t = c /\ side = x
    BY <1>2, <1>3, <2>1, <2>2 DEF QueueInv
  <2>3. CASE ~(t = c /\ side = x)
    BY <2>1, <2>3 DEF ToPartition
  <2> QED
    BY <2>2, <2>3
<1>14. \A t \in Channels : \A side \in Sides : Awaited(t, side)' = Awaited(t, side)
  <2> SUFFICES ASSUME NEW t \in Channels, NEW side \in Sides
               PROVE  Awaited(t, side)' = Awaited(t, side)
    OBVIOUS
  <2>1. \A r \in Channels : Has(r, t, "notify", side)' \/ ToPartition(r, side)' <=>
                               Has(r, t, "notify", side) \/ ToPartition(r, side)
    BY <1>8, <1>12, <1>13
  <2> QED
    BY <1>5, <2>1 DEF Awaited
<1>15. QueueInv'
  <2>1. (\A r, t \in Channels : Once(queue[r][t]) /\ Announced(queue[r][t]))'
    BY <1>5, <1>10
  <2>2. (\A side \in Sides : \A r, q, t \in Channels :
          Has(r, t, "partition", side) /\ Has(q, t, "partition", side) => r = q)'
    BY <1>2, <1>5, <1>12 DEF QueueInv
  <2>3. (\A side \in Sides : \A r, t \in Channels : Has(r, t, "notify", side) => ~ToPartition(r, side))'
    BY <1>2, <1>5, <1>12, <1>13 DEF QueueInv
  <2>4. (\A r, q, t, d \in Channels :
          Has(r, t, "merge", "right") /\ Has(q, d, "merge", "right") => r = q /\ t = d)'
    BY <1>2, <1>5, <1>12 DEF QueueInv, Sides
  <2> QED
    BY <2>1, <2>2, <2>3, <2>4 DEF QueueInv
<1>16. CountInv'
  <2>1. (\A side \in Sides : (side = "left" \/ global["left"] = 0) =>
            \A t \in Channels : local[side][t] = Cardinality(Awaited(t, side)))'
    BY <1>1, <1>2, <1>5, <1>14 DEF CountInv
  <2>2. (\A side \in Sides : global[side] = Cardinality({t \in Channels : local[side][t] # 0}))'
    BY <1>1, <1>2, <1>5 DEF CountInv
  <2> QED
    BY <2>1, <2>2 DEF CountInv
<1>17. PhaseInv'
  <2>1. global["left"] # 0 => x # "right"
    BY <1>2, <1>3 DEF PhaseInv, Single
  <2>2. ASSUME global["left"] # 0, NEW t \in Channels, NEW r \in Channels, NEW kind \in Single
        PROVE  ~Has(r, t, kind, "right")'
    <3>1. "right" \in Sides
      BY DEF Sides
    <3>2. ~Has(r, t, "partition", "right") /\ ~Has(r, t, "notify", "right") /\ ~Has(r, t, "merge", "right")
      BY <1>2, <2>2 DEF PhaseInv, Single
    <3>3. ~Has(r, t, "partition", "right")' /\ ~Has(r, t, "notify", "right")' /\ ~Has(r, t, "merge", "right")'
      BY <1>12, <2>1, <2>2, <3>1, <3>2
    <3> QED
      BY <3>3 DEF Single
  <2>3. ASSUME global["right"] # 0, NEW t \in Channels, NEW r \in Channels
        PROVE  ~Has(r, t, "merge", "right")'
    BY <1>2, <1>12, <2>3 DEF PhaseInv, Sides
  <2>4. ASSUME global["left"] # 0, NEW t \in Channels PROVE local["right"][t] = Count
    BY <1>2, <2>4 DEF PhaseInv
  <2> QED
    BY <1>1, <1>5, <2>2, <2>3, <2>4 DEF PhaseInv
<1>18. JoinTypes' /\ ConfigInv'
  BY <1>1, <1>2, <1>5, <1>7 DEF JoinTypes, ConfigInv, Executed
<1> QED
  BY <1>15, <1>16, <1>17, <1>18 DEF JoinInv

(* Building and probing changes nothing of this. *)
LEMMA BatchStep ==
    ASSUME JoinInv, NEW s, NEW c, Next1(s, c, "batch"), queue' = Popped(s, c),
           UNCHANGED <<input, config, batch, iteration, local, global, running>>
    PROVE  JoinInv'
<1> DEFINE tasks == [t \in Channels |-> <<>>]
<1>1. running /\ ConfigInv /\ JoinTypes /\ QueueInv /\ CountInv /\ PhaseInv
  BY DEF JoinInv, Next1
<1>2. /\ config \in 1 .. Len(CoreSets) /\ s \in Channels /\ c \in Channels
      /\ queue \in Queues /\ queue[s][c] # <<>> /\ Head(queue[s][c]).kind = "batch"
  BY <1>1, HeadIsQueued
<1>3. Channels' = Channels /\ Queues' = Queues /\ Count' = Count
  BY Steady
<1>4. \A t \in Channels : /\ tasks[t] \in Seq(Tasks) /\ Once(tasks[t]) /\ Announced(tasks[t])
                          /\ \A kind \in Single, side \in Sides : ~In(tasks[t], kind, side)
  BY NoTask
<1>5. Executed(queue', s, c, tasks)
  BY <1>2, PopExecutes
<1> HIDE DEF tasks
<1>6. /\ \A r, t \in Channels : Once(queue'[r][t]) /\ Announced(queue'[r][t])
      /\ \A r, t \in Channels : \A kind \in Single, side \in Sides :
            In(queue'[r][t], kind, side) <=>
               \/ Has(r, t, kind, side) /\ ~(r = s /\ t = c /\ IsA(Head(queue[s][c]), kind, side))
               \/ r = c /\ In(tasks[t], kind, side)
  <2>1. QueueInv
    BY <1>1
  <2>2. \A t \in Channels : \A kind \in Single, side \in Sides :
              In(tasks[t], kind, side) => ~Has(c, t, kind, side)
    BY <1>4
  <2>3. \A t \in Channels : tasks[t] \in Seq(Tasks) /\ Once(tasks[t]) /\ Announced(tasks[t])
    BY <1>4
  <2>4. Spawnable(c, tasks)
    BY <2>2, <2>3 DEF Spawnable
  <2>5. Outcome(queue', s, c, tasks)
    BY <1>2, <1>5, <2>1, <2>4, ExecutedQueues
  <2> QED
    BY <2>5 DEF Outcome
<1>7. \A r, t \in Channels : \A kind \in Single, side \in Sides : Has(r, t, kind, side)' <=> Has(r, t, kind, side)
  <2> SUFFICES ASSUME NEW r \in Channels, NEW t \in Channels, NEW kind \in Single, NEW side \in Sides
               PROVE  In(queue'[r][t], kind, side) <=> Has(r, t, kind, side)
    BY DEF Has
  <2>1. ~IsA(Head(queue[s][c]), kind, side)
    BY <1>2 DEF IsA, Single
  <2> QED
    BY <1>4, <1>6, <2>1
<1>8. "partition" \in Single /\ "notify" \in Single /\ "merge" \in Single /\ "right" \in Sides
  BY DEF Single, Sides
<1>9. \A t \in Channels : \A side \in Sides : ToPartition(t, side)' <=> ToPartition(t, side)
  BY <1>3, <1>7, <1>8 DEF ToPartition
<1>10. \A t \in Channels : \A side \in Sides : Awaited(t, side)' = Awaited(t, side)
  <2> SUFFICES ASSUME NEW t \in Channels, NEW side \in Sides
               PROVE  Awaited(t, side)' = Awaited(t, side)
    OBVIOUS
  <2>1. \A r \in Channels : Has(r, t, "notify", side)' \/ ToPartition(r, side)' <=>
                               Has(r, t, "notify", side) \/ ToPartition(r, side)
    BY <1>7, <1>8, <1>9
  <2> QED
    BY <1>3, <2>1 DEF Awaited
<1>11. QueueInv'
  <2>1. (\A r, t \in Channels : Once(queue[r][t]) /\ Announced(queue[r][t]))'
    BY <1>3, <1>6
  <2>2. (\A side \in Sides : \A r, q, t \in Channels :
          Has(r, t, "partition", side) /\ Has(q, t, "partition", side) => r = q)'
    BY <1>1, <1>3, <1>7, <1>8 DEF QueueInv
  <2>3. (\A side \in Sides : \A r, t \in Channels : Has(r, t, "notify", side) => ~ToPartition(r, side))'
    BY <1>1, <1>3, <1>7, <1>8, <1>9 DEF QueueInv
  <2>4. (\A r, q, t, d \in Channels :
          Has(r, t, "merge", "right") /\ Has(q, d, "merge", "right") => r = q /\ t = d)'
    BY <1>1, <1>3, <1>7, <1>8 DEF QueueInv
  <2> QED
    BY <2>1, <2>2, <2>3, <2>4 DEF QueueInv
<1>12. CountInv'
  <2>1. (\A side \in Sides : (side = "left" \/ global["left"] = 0) =>
            \A t \in Channels : local[side][t] = Cardinality(Awaited(t, side)))'
    BY <1>1, <1>3, <1>10 DEF CountInv
  <2>2. (\A side \in Sides : global[side] = Cardinality({t \in Channels : local[side][t] # 0}))'
    BY <1>1, <1>3 DEF CountInv
  <2> QED
    BY <2>1, <2>2 DEF CountInv
<1>13. PhaseInv'
  BY <1>1, <1>3, <1>7, <1>8 DEF PhaseInv
<1>14. JoinTypes' /\ ConfigInv'
  BY <1>1, <1>3, <1>5 DEF JoinTypes, ConfigInv, Executed
<1> QED
  BY <1>11, <1>12, <1>13, <1>14 DEF JoinInv

(* What the last notification releases. *)
LEMMA ReleasedTasks ==
    ASSUME NEW side \in Sides, NEW c \in Channels, NEW t \in Channels
    PROVE  /\ Released(side, c)[t] \in Seq(Tasks)
           /\ Once(Released(side, c)[t]) /\ Announced(Released(side, c)[t])
           /\ \A kind \in Single, other \in Sides :
                 In(Released(side, c)[t], kind, other) <=>
                    /\ other = "right"
                    /\ \/ side = "left" /\ kind = "partition"
                       \/ side = "right" /\ kind = "merge" /\ t = c
<1>1. CASE side = "left"
  <2>1. Released(side, c)[t] = <<Task("partition", "right", <<>>)>>
    BY <1>1 DEF Released
  <2>2. Task("partition", "right", <<>>) \in Tasks /\ "partition" \in Single /\ "right" \in Sides
    BY DEF Tasks, Single, Sides
  <2> DEFINE q == Released(side, c)[t]
  <2> HIDE DEF q
  <2>3. q = <<Task("partition", "right", <<>>)>>
    BY <2>1 DEF q
  <2>4. /\ q \in Seq(Tasks) /\ Once(q) /\ Announced(q)
        /\ \A kind \in Single, other \in Sides : In(q, kind, other) <=> kind = "partition" /\ other = "right"
    BY ONLY <2>2, <2>3, OneTask
  <2> QED
    BY <1>1, <2>4 DEF q
<1>2. CASE side = "right" /\ t = c
  <2>1. Released(side, c)[t] = <<Task("merge", "right", <<>>)>>
    BY <1>2 DEF Released
  <2>2. Task("merge", "right", <<>>) \in Tasks /\ "merge" \in Single /\ "right" \in Sides
    BY DEF Tasks, Single, Sides
  <2> DEFINE q == Released(side, c)[t]
  <2> HIDE DEF q
  <2>3. q = <<Task("merge", "right", <<>>)>>
    BY <2>1 DEF q
  <2>4. /\ q \in Seq(Tasks) /\ Once(q) /\ Announced(q)
        /\ \A kind \in Single, other \in Sides : In(q, kind, other) <=> kind = "merge" /\ other = "right"
    BY ONLY <2>2, <2>3, OneTask
  <2> QED
    BY <1>2, <2>4 DEF q
<1>3. CASE side = "right" /\ t # c
  <2>1. Released(side, c)[t] = <<>>
    BY <1>3 DEF Released
  <2> QED
    BY <1>3, <2>1, NoTask
<1> QED
  BY <1>1, <1>2, <1>3 DEF Sides

(* The last notification of a side begins the next phase; every other one    *)
(* is one that is no longer waited for.                                      *)
LEMMA NotifyStep ==
    ASSUME JoinInv, NEW s, NEW c, Notify(s, c), UNCHANGED <<input, config, batch, iteration>>
    PROVE  JoinInv'
<1> DEFINE x == Head(queue[s][c]).side
           last == local[x][c] = 1
           free == last /\ global[x] = 1
           tasks == IF free THEN Released(x, c) ELSE [t \in Channels |-> <<>>]
           Open(side) == {t \in Channels : local[side][t] # 0}
<1>1. Next1(s, c, "notify") /\ UNCHANGED running
  BY DEF Notify
<1>2. running /\ ConfigInv /\ JoinTypes /\ QueueInv /\ CountInv /\ PhaseInv
  BY <1>1 DEF JoinInv, Next1
<1>3. /\ config \in 1 .. Len(CoreSets) /\ s \in Channels /\ c \in Channels
      /\ queue \in Queues /\ queue[s][c] # <<>>
      /\ Head(queue[s][c]).kind = "notify" /\ x \in Sides /\ Has(s, c, "notify", x)
  BY <1>1, <1>2, HeadIsQueued
<1>4. /\ local' = [local EXCEPT ![x][c] = @ - 1]
      /\ global' = IF last THEN [global EXCEPT ![x] = @ - 1] ELSE global
      /\ queue' = IF free THEN SpawnTo(Popped(s, c), c, Released(x, c)) ELSE Popped(s, c)
  BY DEF Notify
<1> HIDE DEF x
<1>5. Channels' = Channels /\ Queues' = Queues /\ Count' = Count
  BY Steady
<1>6. IsFiniteSet(Channels) /\ Cardinality(Channels) = Count /\ Count \in Nat \ {0}
  BY <1>2, <1>3, CountFacts
<1>7. /\ "partition" \in Single /\ "notify" \in Single /\ "merge" \in Single
      /\ "left" \in Sides /\ "right" \in Sides /\ (x = "left" \/ x = "right")
      /\ \A side \in Sides : side = "left" \/ side = "right"
  BY <1>3 DEF Single, Sides
<1>8. /\ local \in [Sides -> [Channels -> Nat]] /\ global \in [Sides -> Nat]
      /\ local[x][c] \in Nat /\ global[x] \in Nat
  BY <1>2, <1>3 DEF JoinTypes
(* The notification counts. *)
<1>9. x = "left" \/ global["left"] = 0
  BY <1>2, <1>3, <1>7 DEF PhaseInv
<1>10. /\ IsFiniteSet(Awaited(c, x)) /\ s \in Awaited(c, x)
       /\ local[x][c] = Cardinality(Awaited(c, x)) /\ local[x][c] # 0
  <2>1. s \in Awaited(c, x) /\ Awaited(c, x) \subseteq Channels
    BY <1>3 DEF Awaited
  <2>2. IsFiniteSet(Awaited(c, x))
    BY <1>6, <2>1, FS_Subset
  <2>3. local[x][c] = Cardinality(Awaited(c, x))
    BY <1>2, <1>3, <1>9 DEF CountInv
  <2>4. Cardinality(Awaited(c, x)) # 0
    BY <2>1, <2>2, FS_EmptySet
  <2> QED
    BY <2>1, <2>2, <2>3, <2>4
<1>11. IsFiniteSet(Open(x)) /\ c \in Open(x) /\ global[x] = Cardinality(Open(x)) /\ global[x] # 0
  <2>1. c \in Open(x) /\ Open(x) \subseteq Channels
    BY <1>3, <1>10
  <2>2. IsFiniteSet(Open(x))
    BY <1>6, <2>1, FS_Subset
  <2>3. global[x] = Cardinality(Open(x))
    BY <1>2, <1>3 DEF CountInv
  <2>4. Cardinality(Open(x)) # 0
    BY <2>1, <2>2, FS_EmptySet
  <2> QED
    BY <2>1, <2>2, <2>3, <2>4
<1>12. /\ local' \in [Sides -> [Channels -> Nat]] /\ global' \in [Sides -> Nat]
       /\ local'[x][c] = local[x][c] - 1
       /\ \A side \in Sides : \A t \in Channels : ~(side = x /\ t = c) => local'[side][t] = local[side][t]
  <2>1. local[x][c] - 1 \in Nat /\ global[x] - 1 \in Nat
    BY <1>8, <1>10, <1>11
  <2>2. local' \in [Sides -> [Channels -> Nat]]
    BY <1>3, <1>4, <1>8, <2>1
  <2>3. global' \in [Sides -> Nat]
    BY <1>3, <1>4, <1>8, <2>1
  <2>4. local'[x][c] = local[x][c] - 1
    BY <1>3, <1>4, <1>8
  <2>5. \A side \in Sides : \A t \in Channels : ~(side = x /\ t = c) => local'[side][t] = local[side][t]
    BY <1>3, <1>4, <1>8
  <2> QED
    BY <2>2, <2>3, <2>4, <2>5
<1>13. /\ last => global'[x] = global[x] - 1
       /\ ~last => global'[x] = global[x]
       /\ \A side \in Sides : side # x => global'[side] = global[side]
  BY <1>3, <1>4, <1>8
<1>14. free <=> global'[x] = 0
  <2>1. CASE last
    <3>1. global'[x] = global[x] - 1
      BY <1>13, <2>1
    <3>2. global[x] - 1 = 0 <=> global[x] = 1
      BY ONLY <1>8
    <3> QED
      BY <2>1, <3>1, <3>2
  <2>2. CASE ~last
    BY <1>11, <1>13, <2>2
  <2> QED
    BY <2>1, <2>2
(* The queues. *)
<1>15. \A t \in Channels : /\ tasks[t] \in Seq(Tasks) /\ Once(tasks[t]) /\ Announced(tasks[t])
                           /\ \A kind \in Single, side \in Sides :
                                 In(tasks[t], kind, side) <=>
                                    /\ free /\ side = "right"
                                    /\ \/ x = "left" /\ kind = "partition"
                                       \/ x = "right" /\ kind = "merge" /\ t = c
  <2>1. CASE free
    <3> SUFFICES ASSUME NEW t \in Channels
                 PROVE  /\ tasks[t] \in Seq(Tasks) /\ Once(tasks[t]) /\ Announced(tasks[t])
                        /\ \A kind \in Single, side \in Sides :
                              In(tasks[t], kind, side) <=>
                                 /\ side = "right"
                                 /\ \/ x = "left" /\ kind = "partition"
                                    \/ x = "right" /\ kind = "merge" /\ t = c
      BY <2>1
    <3>1. tasks[t] = Released(x, c)[t]
      BY <2>1
    <3>2. x \in Sides /\ c \in Channels
      BY <1>3
    <3> QED
      BY ONLY <3>1, <3>2, t \in Channels, ReleasedTasks
  <2>2. CASE ~free
    BY <2>2, NoTask
  <2> QED
    BY <2>1, <2>2
<1>16. Executed(queue', s, c, tasks)
  <2>1. CASE free
    <3>1. \A t \in Channels : Released(x, c)[t] \in Seq(Tasks)
      BY <1>3, ReleasedTasks
    <3>2. Executed(SpawnTo(Popped(s, c), c, Released(x, c)), s, c, Released(x, c))
      BY <1>3, <3>1, SpawnExecutes
    <3> QED
      BY <1>4, <2>1, <3>2
  <2>2. CASE ~free
    <3>1. Executed(Popped(s, c), s, c, [t \in Channels |-> <<>>])
      BY <1>3, PopExecutes
    <3> QED
      BY <1>4, <2>2, <3>1
  <2> QED
    BY <2>1, <2>2
<1>17. /\ free /\ x = "left" => \A r, t \in Channels : \A kind \in Single : ~Has(r, t, kind, "right")
       /\ free /\ x = "right" => \A r, t \in Channels : ~Has(r, t, "merge", "right")
  BY <1>2, <1>8 DEF PhaseInv
<1> HIDE DEF tasks, free, last
<1>18. /\ \A r, t \in Channels : Once(queue'[r][t]) /\ Announced(queue'[r][t])
       /\ \A r, t \in Channels : \A kind \in Single, side \in Sides :
             In(queue'[r][t], kind, side) <=>
                \/ Has(r, t, kind, side) /\ ~(r = s /\ t = c /\ IsA(Head(queue[s][c]), kind, side))
                \/ r = c /\ In(tasks[t], kind, side)
  <2>1. QueueInv
    BY <1>2
  <2>2. \A t \in Channels : \A kind \in Single, side \in Sides :
              In(tasks[t], kind, side) => ~Has(c, t, kind, side)
    BY <1>3, <1>15, <1>17
  <2>3. \A t \in Channels : tasks[t] \in Seq(Tasks) /\ Once(tasks[t]) /\ Announced(tasks[t])
    BY <1>15
  <2>4. Spawnable(c, tasks)
    BY <2>2, <2>3 DEF Spawnable
  <2>5. Outcome(queue', s, c, tasks)
    BY <1>3, <1>16, <2>1, <2>4, ExecutedQueues
  <2> QED
    BY <2>5 DEF Outcome
<1>19. \A r, t \in Channels : \A side \in Sides :
          /\ Has(r, t, "partition", side)' <=> Has(r, t, "partition", side) \/ (free /\ x = "left" /\ r = c /\ side = "right")
          /\ Has(r, t, "notify", side)' <=> Has(r, t, "notify", side) /\ ~(r = s /\ t = c /\ side = x)
          /\ Has(r, t, "merge", side)' <=> Has(r, t, "merge", side) \/ (free /\ x = "right" /\ r = c /\ t = c /\ side = "right")
  <2> SUFFICES ASSUME NEW r \in Channels, NEW t \in Channels, NEW side \in Sides
               PROVE  /\ In(queue'[r][t], "partition", side) <=> Has(r, t, "partition", side) \/ (free /\ x = "left" /\ r = c /\ side = "right")
                      /\ In(queue'[r][t], "notify", side) <=> Has(r, t, "notify", side) /\ ~(r = s /\ t = c /\ side = x)
                      /\ In(queue'[r][t], "merge", side) <=> Has(r, t, "merge", side) \/ (free /\ x = "right" /\ r = c /\ t = c /\ side = "right")
    BY DEF Has
  <2>1. \A kind \in Single : IsA(Head(queue[s][c]), kind, side) <=> kind = "notify" /\ side = x
    BY <1>3 DEF IsA, x
  <2>2. In(queue'[r][t], "partition", side) <=> Has(r, t, "partition", side) \/ (free /\ x = "left" /\ r = c /\ side = "right")
    BY <1>7, <1>15, <1>18, <2>1
  <2>3. In(queue'[r][t], "notify", side) <=> Has(r, t, "notify", side) /\ ~(r = s /\ t = c /\ side = x)
    BY <1>7, <1>15, <1>18, <2>1
  <2>4. In(queue'[r][t], "merge", side) <=> Has(r, t, "merge", side) \/ (free /\ x = "right" /\ r = c /\ t = c /\ side = "right")
    BY <1>7, <1>15, <1>18, <2>1
  <2> QED
    BY <2>2, <2>3, <2>4
<1>20. \A t \in Channels : \A side \in Sides :
          ToPartition(t, side)' <=> ToPartition(t, side) \/ (free /\ x = "left" /\ side = "right")
  BY <1>3, <1>5, <1>19 DEF ToPartition
<1>21. ASSUME NEW side \in Sides, side = x PROVE Awaited(c, side)' = Awaited(c, side) \ {s}
  <2>1. ~ToPartition(s, side) /\ ~(x = "left" /\ side = "right")
    BY <1>2, <1>3, <1>21 DEF QueueInv
  <2>2. \A r \in Channels : Has(r, c, "notify", side)' \/ ToPartition(r, side)' <=>
                               (Has(r, c, "notify", side) \/ ToPartition(r, side)) /\ r # s
    BY <1>3, <1>19, <1>20, <1>21, <2>1
  <2> QED
    BY <1>5, <2>2 DEF Awaited
<1>22. ASSUME NEW t \in Channels, NEW side \in Sides, ~(side = x /\ t = c), ~(free /\ x = "left" /\ side = "right")
       PROVE  Awaited(t, side)' = Awaited(t, side)
  <2>1. \A r \in Channels : Has(r, t, "notify", side)' \/ ToPartition(r, side)' <=>
                               Has(r, t, "notify", side) \/ ToPartition(r, side)
    BY <1>19, <1>20, <1>22
  <2> QED
    BY <1>5, <2>1 DEF Awaited
<1>23. ASSUME free, x = "left", NEW t \in Channels PROVE Awaited(t, "right")' = Channels
  <2>1. \A r \in Channels : ToPartition(r, "right")'
    BY <1>7, <1>20, <1>23
  <2> QED
    BY <1>5, <2>1 DEF Awaited
<1>24. QueueInv'
  <2>1. (\A r, t \in Channels : Once(queue[r][t]) /\ Announced(queue[r][t]))'
    BY <1>5, <1>18
  <2>2. ASSUME NEW side \in Sides, NEW r \in Channels, NEW q \in Channels, NEW t \in Channels,
               Has(r, t, "partition", side)', Has(q, t, "partition", side)'
        PROVE  r = q
    <3>1. CASE free /\ x = "left" /\ side = "right"
      <4>1. ~Has(r, t, "partition", side) /\ ~Has(q, t, "partition", side)
        BY <1>7, <1>17, <3>1
      <4> QED
        BY <1>19, <2>2, <4>1
    <3>2. CASE ~(free /\ x = "left" /\ side = "right")
      <4>1. Has(r, t, "partition", side) /\ Has(q, t, "partition", side)
        BY <1>19, <2>2, <3>2
      <4> QED
        BY <1>2, <4>1 DEF QueueInv
    <3> QED
      BY <3>1, <3>2
  <2>3. ASSUME NEW side \in Sides, NEW r \in Channels, NEW t \in Channels, Has(r, t, "notify", side)'
        PROVE  ~ToPartition(r, side)'
    <3>1. Has(r, t, "notify", side)
      BY <1>19, <2>3
    <3>2. ~ToPartition(r, side)
      BY <1>2, <3>1 DEF QueueInv
    <3>3. ~(free /\ x = "left" /\ side = "right")
      BY <1>7, <1>17, <3>1
    <3> QED
      BY <1>20, <3>2, <3>3
  <2>4. ASSUME NEW r \in Channels, NEW q \in Channels, NEW t \in Channels, NEW d \in Channels,
               Has(r, t, "merge", "right")', Has(q, d, "merge", "right")'
        PROVE  r = q /\ t = d
    <3>1. CASE free /\ x = "right"
      <4>1. ~Has(r, t, "merge", "right") /\ ~Has(q, d, "merge", "right")
        BY <1>17, <3>1
      <4> QED
        BY <1>7, <1>19, <2>4, <4>1
    <3>2. CASE ~(free /\ x = "right")
      <4>1. Has(r, t, "merge", "right") /\ Has(q, d, "merge", "right")
        BY <1>7, <1>19, <2>4, <3>2
      <4> QED
        BY <1>2, <4>1 DEF QueueInv
    <3> QED
      BY <3>1, <3>2
  <2> QED
    BY <1>5, <2>1, <2>2, <2>3, <2>4 DEF QueueInv
<1>25. ASSUME NEW side \in Sides, side = "left" \/ global'["left"] = 0, NEW t \in Channels
       PROVE  local'[side][t] = Cardinality(Awaited(t, side)')
  <2>1. CASE side = x /\ t = c
    <3>1. Cardinality(Awaited(c, x) \ {s}) = Cardinality(Awaited(c, x)) - 1
      BY <1>10, FS_RemoveElement
    <3> QED
      BY <1>10, <1>12, <1>21, <2>1, <3>1
  <2>2. CASE side = x /\ t # c
    <3>1. Awaited(t, side)' = Awaited(t, side)
      BY <1>7, <1>22, <2>2
    <3>2. local'[side][t] = local[side][t] /\ local[side][t] = Cardinality(Awaited(t, side))
      BY <1>2, <1>9, <1>12, <2>2 DEF CountInv
    <3> QED
      BY <3>1, <3>2
  <2>3. CASE side # x /\ x = "left"
    <3>1. side = "right" /\ free
      BY <1>7, <1>14, <1>25, <2>3
    <3>2. global["left"] # 0
      BY <1>11, <2>3
    <3>3. local'[side][t] = local[side][t] /\ local["right"][t] = Count
      BY <1>2, <1>12, <2>3, <3>2 DEF PhaseInv
    <3> QED
      BY <1>6, <1>23, <2>3, <3>1, <3>3
  <2>4. CASE side # x /\ x = "right"
    <3>1. side = "left"
      BY <1>7, <2>4
    <3>2. Awaited(t, side)' = Awaited(t, side)
      BY <1>7, <1>22, <2>4
    <3>3. local'[side][t] = local[side][t] /\ local[side][t] = Cardinality(Awaited(t, side))
      BY <1>2, <1>12, <2>4, <3>1 DEF CountInv
    <3> QED
      BY <3>2, <3>3
  <2> QED
    BY <1>7, <2>1, <2>2, <2>3, <2>4
<1>26. ASSUME NEW side \in Sides
       PROVE  global'[side] = Cardinality({t \in Channels : local'[side][t] # 0})
  <2>1. CASE side = x /\ last
    <3>1. local'[x][c] = 0
      BY <1>12, <2>1 DEF last
    <3>2. {t \in Channels : local'[side][t] # 0} = Open(x) \ {c}
      BY <1>3, <1>12, <2>1, <3>1
    <3>3. Cardinality(Open(x) \ {c}) = Cardinality(Open(x)) - 1
      BY <1>11, FS_RemoveElement
    <3> QED
      BY <1>11, <1>13, <2>1, <3>2, <3>3
  <2>2. CASE side = x /\ ~last
    <3>1. local'[x][c] # 0
      BY <1>8, <1>10, <1>12, <2>2 DEF last
    <3>2. {t \in Channels : local'[side][t] # 0} = Open(x)
      BY <1>10, <1>12, <2>2, <3>1
    <3> QED
      BY <1>11, <1>13, <2>2, <3>2
  <2>3. CASE side # x
    <3>1. {t \in Channels : local'[side][t] # 0} = Open(side)
      BY <1>12, <2>3
    <3>2. global[side] = Cardinality(Open(side))
      BY <1>2 DEF CountInv
    <3> QED
      BY <1>13, <2>3, <3>1, <3>2
  <2> QED
    BY <2>1, <2>2, <2>3
<1>27. CountInv'
  BY <1>5, <1>25, <1>26 DEF CountInv
<1>28. ASSUME global'["left"] # 0, NEW t \in Channels
       PROVE  /\ local'["right"][t] = Count
              /\ \A r \in Channels : \A kind \in Single : ~Has(r, t, kind, "right")'
  <2>1. x = "left" /\ ~free /\ global["left"] # 0
    BY <1>7, <1>9, <1>11, <1>13, <1>14, <1>28
  <2>2. local'["right"][t] = Count
    BY <1>2, <1>7, <1>12, <2>1 DEF PhaseInv
  <2>3. ASSUME NEW r \in Channels, NEW kind \in Single PROVE ~Has(r, t, kind, "right")'
    <3>1. ~Has(r, t, "partition", "right") /\ ~Has(r, t, "notify", "right") /\ ~Has(r, t, "merge", "right")
      BY <1>2, <1>7, <2>1 DEF PhaseInv
    <3>2. ~Has(r, t, "partition", "right")' /\ ~Has(r, t, "notify", "right")' /\ ~Has(r, t, "merge", "right")'
      BY <1>7, <1>19, <2>1, <3>1
    <3> QED
      BY <3>2 DEF Single
  <2> QED
    BY <2>2, <2>3
<1>29. ASSUME global'["right"] # 0, NEW r \in Channels, NEW t \in Channels
       PROVE  ~Has(r, t, "merge", "right")'
  <2>1. global["right"] # 0 /\ ~(free /\ x = "right")
    BY <1>7, <1>11, <1>13, <1>14, <1>29
  <2> QED
    BY <1>2, <1>7, <1>19, <2>1 DEF PhaseInv
<1>30. PhaseInv'
  BY <1>5, <1>28, <1>29 DEF PhaseInv
<1>31. JoinTypes' /\ ConfigInv'
  BY <1>1, <1>2, <1>5, <1>12, <1>16 DEF JoinTypes, ConfigInv, Executed
<1> QED
  BY <1>24, <1>27, <1>30, <1>31 DEF JoinInv

(* A configuration starts with one partition task per channel. *)
LEMMA StartStep ==
    ASSUME JoinInv, Start
    PROVE  JoinInv'
<1>1. ConfigInv /\ ~running /\ CoreSet /\ input' = input
  BY DEF JoinInv, Start
<1>2. Len(Batches) \in Nat \ {0} /\ Len(CoreSets) \in Nat
  BY InputAssumption
<1>3. config \in Nat /\ batch \in 1 .. Len(Batches) /\ input \in Inputs
  BY <1>1 DEF ConfigInv
<1>4. config' \in Nat \ {0} /\ batch' \in 1 .. Len(Batches)
  <2>1. CASE config = 0 /\ config' = 1 /\ UNCHANGED <<iteration, batch>>
    BY <1>3, <2>1
  <2>2. CASE config > 0 /\ UNCHANGED <<batch, config>>
    BY <1>3, <2>2
  <2>3. CASE config > 0 /\ IF batch < Len(Batches) THEN batch' = batch + 1 /\ UNCHANGED config
                                                   ELSE batch' = 1 /\ config' = config + 1
    BY <1>2, <1>3, <2>3
  <2> QED
    BY <1>1, <2>1, <2>2, <2>3 DEF CoreSet
<1>5. CASE Ended'
  <2>1. running' = running
    BY <1>5 DEF Start
  <2> QED
    BY <1>1, <1>3, <1>4, <2>1 DEF JoinInv, ConfigInv
<1>6. CASE ~Ended'
  <2> DEFINE K == Count'
             C == Channels'
             first == <<Task("partition", "left", <<>>)>>
  <2>1. /\ running' = TRUE
        /\ local' = [side \in Sides |-> [c \in C |-> K]]
        /\ global' = [side \in Sides |-> K]
        /\ queue' = [[s \in C |-> [c \in C |-> <<>>]] EXCEPT ![0] = [c \in C |-> first]]
    BY <1>6 DEF Start, Pending, NoTasks
  <2>2. config' \in 1 .. Len(CoreSets)
    BY <1>2, <1>4, <1>6 DEF Ended
  <2>3. ConfigInv'
    BY <1>1, <1>3, <1>4, <2>1, <2>2 DEF ConfigInv
  <2>4. K \in Nat \ {0} /\ C = 0 .. K - 1
    BY <2>2, InputAssumption DEF Count, Channels
  <2> HIDE DEF K, C
  <2>5. IsFiniteSet(C) /\ Cardinality(C) = K /\ 0 \in C
    <3>1. IsFiniteSet(0 .. K - 1) /\ Cardinality(0 .. K - 1) = K
      BY <2>4, FS_Interval
    <3> QED
      BY <2>4, <3>1
  <2>6. first \in Seq(Tasks') /\ <<>> \in Seq(Tasks')
    <3>1. Task("partition", "left", <<>>) \in Tasks'
      BY DEF Tasks, Sides
    <3> QED
      BY <3>1
  <2>7. /\ Once(first) /\ Announced(first)
        /\ \A kind \in Single, side \in Sides : In(first, kind, side) <=> kind = "partition" /\ side = "left"
    <3>1. Task("partition", "left", <<>>) \in Tasks /\ "partition" \in Single /\ "left" \in Sides
      BY DEF Tasks, Sides, Single
    <3> HIDE DEF first
    <3>2. first = <<Task("partition", "left", <<>>)>>
      BY DEF first
    <3> QED
      BY ONLY <3>1, <3>2, OneTask
  <2> HIDE DEF first
  <2>8. \A r, t \in C : queue'[r][t] = IF r = 0 THEN first ELSE <<>>
    BY <2>1, <2>5
  <2>9. queue' \in [C -> [C -> Seq(Tasks')]]
    BY <2>1, <2>5, <2>6
  <2>10. JoinTypes'
    <3>1. local' \in [Sides -> [C -> Nat]] /\ global' \in [Sides -> Nat]
      BY <2>1, <2>4
    <3> QED
      BY <2>9, <3>1 DEF JoinTypes, Queues, C
  <2>11. \A r, t \in C : \A kind \in Single, side \in Sides :
            Has(r, t, kind, side)' <=> r = 0 /\ kind = "partition" /\ side = "left"
    <3> SUFFICES ASSUME NEW r \in C, NEW t \in C, NEW kind \in Single, NEW side \in Sides
                 PROVE  In(queue'[r][t], kind, side) <=> r = 0 /\ kind = "partition" /\ side = "left"
      BY DEF Has
    <3> QED
      BY <2>7, <2>8, NoTask
  <2>12. \A r, t \in C : Once(queue'[r][t]) /\ Announced(queue'[r][t])
    BY <2>7, <2>8, NoTask
  <2>13. "partition" \in Single /\ "notify" \in Single /\ "merge" \in Single
         /\ "left" \in Sides /\ "right" \in Sides
    BY DEF Single, Sides
  <2>14. \A t \in C : ToPartition(t, "left")'
    BY <2>5, <2>11, <2>13 DEF ToPartition, C
  <2>15. \A t \in C : Awaited(t, "left")' = C
    BY <2>14 DEF Awaited, C
  <2>16. QueueInv'
    <3>1. (\A r, t \in Channels : Once(queue[r][t]) /\ Announced(queue[r][t]))'
      BY <2>12 DEF C
    <3>2. (\A side \in Sides : \A r, q, t \in Channels :
            Has(r, t, "partition", side) /\ Has(q, t, "partition", side) => r = q)'
      BY <2>11, <2>13 DEF C
    <3>3. (\A side \in Sides : \A r, t \in Channels : Has(r, t, "notify", side) => ~ToPartition(r, side))'
      BY <2>11, <2>13 DEF C
    <3>4. (\A r, q, t, d \in Channels :
            Has(r, t, "merge", "right") /\ Has(q, d, "merge", "right") => r = q /\ t = d)'
      BY <2>11, <2>13 DEF C
    <3> QED
      BY <3>1, <3>2, <3>3, <3>4 DEF QueueInv
  <2>17. CountInv'
    <3>1. global'["left"] = K /\ K # 0
      BY <2>1, <2>4, <2>13
    <3>2. \A t \in C : local'["left"][t] = Cardinality(Awaited(t, "left")')
      BY <2>1, <2>5, <2>13, <2>15
    <3>3. ASSUME NEW side \in Sides PROVE global'[side] = Cardinality({t \in C : local'[side][t] # 0})
      <4>1. {t \in C : local'[side][t] # 0} = C
        BY <2>1, <2>4
      <4> QED
        BY <2>1, <2>5, <4>1
    <3>4. (\A side \in Sides : (side = "left" \/ global["left"] = 0) =>
              \A t \in Channels : local[side][t] = Cardinality(Awaited(t, side)))'
      BY <3>1, <3>2 DEF C
    <3> QED
      BY <3>3, <3>4 DEF CountInv, C
  <2>18. PhaseInv'
    <3>1. \A t \in C : local'["right"][t] = K
      BY <2>1, <2>13
    <3>2. \A r, t \in C : \A kind \in Single : ~Has(r, t, kind, "right")'
      BY <2>11, <2>13
    <3> QED
      BY <2>13, <3>1, <3>2 DEF PhaseInv, C, K
  <2> QED
    BY <2>3, <2>10, <2>16, <2>17, <2>18 DEF JoinInv
<1> QED
  BY <1>5, <1>6

(* Queues and listeners agree, in every step. *)
LEMMA JoinInvariant == Spec => []JoinInv
<1>1. Init => JoinInv
  <2> SUFFICES ASSUME Init PROVE JoinInv
    OBVIOUS
  <2>1. 1 \in 1 .. Len(Batches)
    BY InputAssumption
  <2>2. input \in Inputs /\ config = 0 /\ batch = 1 /\ ~running /\ running \in BOOLEAN
    BY DEF Init
  <2>3. ConfigInv
    BY <2>1, <2>2 DEF ConfigInv
  <2> QED
    BY <2>2, <2>3 DEF JoinInv
<1>2. JoinInv /\ [Next]_vars => JoinInv'
  <2> SUFFICES ASSUME JoinInv, [Next]_vars PROVE JoinInv'
    OBVIOUS
  <2>1. CASE Start
    BY <2>1, StartStep
  <2>2. ASSUME NEW s \in AllChannels, NEW c \in AllChannels, Execute(s, c) PROVE JoinInv'
    <3>1. UNCHANGED <<input, config, batch, iteration>>
      BY <2>2 DEF Execute
    <3>2. CASE Partition(s, c)
      BY <3>1, <3>2, PartitionStep
    <3>3. CASE Build(s, c)
      <4>1. Next1(s, c, "batch") /\ queue' = Popped(s, c) /\ UNCHANGED <<local, global, running>>
        BY <3>3 DEF Build
      <4> QED
        BY <3>1, <4>1, BatchStep
    <3>4. CASE Probe(s, c)
      <4>1. Next1(s, c, "batch") /\ queue' = Popped(s, c) /\ UNCHANGED <<local, global, running>>
        BY <3>4 DEF Probe
      <4> QED
        BY <3>1, <4>1, BatchStep
    <3>5. CASE Notify(s, c)
      BY <3>1, <3>5, NotifyStep
    <3>6. CASE Merge(s, c)
      <4>1. running' = FALSE
        BY <3>6 DEF Merge
      <4>2. ConfigInv
        BY DEF JoinInv
      <4>3. ConfigInv'
        BY <3>1, <4>1, <4>2 DEF ConfigInv
      <4> QED
        BY <4>1, <4>3 DEF JoinInv
    <3> QED
      BY <2>2, <3>2, <3>3, <3>4, <3>5, <3>6 DEF Execute
  <2>3. CASE UNCHANGED vars
    <3>1. /\ UNCHANGED <<input, config, batch, running>>
          /\ queue' = queue /\ local' = local /\ global' = global
      BY <2>3 DEF vars
    <3>2. Channels' = Channels /\ Queues' = Queues /\ Count' = Count
      BY <3>1, Steady
    <3>3. \A r, t, kind, side : Has(r, t, kind, side)' = Has(r, t, kind, side)
      BY <3>1 DEF Has
    <3>4. \A t, side : ToPartition(t, side)' = ToPartition(t, side)
      BY <3>2, <3>3 DEF ToPartition
    <3>5. \A t, side : Awaited(t, side)' = Awaited(t, side)
      BY <3>2, <3>3, <3>4 DEF Awaited
    <3>6. ConfigInv' = ConfigInv
      BY <3>1 DEF ConfigInv
    <3>7. JoinTypes' = JoinTypes
      BY <3>1, <3>2 DEF JoinTypes
    <3>8. QueueInv => QueueInv'
      <4> SUFFICES ASSUME QueueInv PROVE QueueInv'
        OBVIOUS
      <4>1. (\A r, t \in Channels : Once(queue[r][t]) /\ Announced(queue[r][t]))'
        BY <3>1, <3>2 DEF QueueInv
      <4>2. (\A side \in Sides : \A r, q, t \in Channels :
              Has(r, t, "partition", side) /\ Has(q, t, "partition", side) => r = q)'
        BY <3>2, <3>3 DEF QueueInv
      <4>3. (\A side \in Sides : \A r, t \in Channels : Has(r, t, "notify", side) => ~ToPartition(r, side))'
        BY <3>2, <3>3, <3>4 DEF QueueInv
      <4>4. ASSUME NEW r \in Channels, NEW q \in Channels, NEW t \in Channels, NEW d \in Channels,
                   Has(r, t, "merge", "right")', Has(q, d, "merge", "right")'
            PROVE  r = q /\ t = d
        <5>1. Has(r, t, "merge", "right") /\ Has(q, d, "merge", "right")
          BY <3>3, <4>4
        <5> QED
          BY <5>1 DEF QueueInv
      <4>5. (\A r, q, t, d \in Channels :
              Has(r, t, "merge", "right") /\ Has(q, d, "merge", "right") => r = q /\ t = d)'
        BY ONLY <3>2, <4>4
      <4> QED
        BY ONLY <4>1, <4>2, <4>3, <4>5 DEF QueueInv
    <3>9. CountInv' = CountInv
      BY <3>1, <3>2, <3>5 DEF CountInv
    <3>10. PhaseInv' = PhaseInv
      BY <3>1, <3>2, <3>3 DEF PhaseInv
    <3> QED
      BY <3>1, <3>6, <3>7, <3>8, <3>9, <3>10 DEF JoinInv
  <2> QED
    BY <2>1, <2>2, <2>3 DEF Next
<1> QED
  BY <1>1, <1>2, PTL DEF Spec

-----------------------------------------------------------------------------
(* The order of the phases. *)

(* Where a batch is, its notification is. *)
LEMMA BatchIsAnnounced ==
    ASSUME JoinTypes, QueueInv, NEW side \in Sides, NEW s \in Channels, NEW c \in Channels,
           Has(s, c, "batch", side)
    PROVE  Has(s, c, "notify", side)
<1> DEFINE q == queue[s][c]
<1>1. Len(q) \in Nat /\ Announced(q)
  BY DEF JoinTypes, Queues, QueueInv
<1> HIDE DEF q
<1>2. PICK i \in 1 .. Len(q) : IsA(q[i], "batch", side)
  BY DEF Has, In, q
<1>3. PICK j \in i + 1 .. Len(q) : IsA(q[j], "notify", side)
  BY <1>1, <1>2 DEF Announced
<1>4. j \in 1 .. Len(q)
  BY <1>1
<1> QED
  BY <1>3, <1>4 DEF Has, In, q

(* A side whose listener counts nothing more has no task left. *)
LEMMA SideIsDone ==
    ASSUME JoinInv, running, NEW side \in Sides, side = "left" \/ global["left"] = 0, global[side] = 0,
           NEW s \in Channels, NEW c \in Channels
    PROVE  ~Has(s, c, "partition", side) /\ ~Has(s, c, "notify", side) /\ ~Has(s, c, "batch", side)
<1> DEFINE open == {t \in Channels : local[side][t] # 0}
<1>1. ConfigInv /\ JoinTypes /\ QueueInv /\ CountInv /\ config \in 1 .. Len(CoreSets)
  BY DEF JoinInv, ConfigInv
<1>2. IsFiniteSet(Channels)
  BY <1>1, CountFacts
<1>3. Cardinality(open) = 0
  BY <1>1 DEF CountInv
<1>4. IsFiniteSet(open)
  BY <1>2, FS_Subset
<1>5. open = {}
  BY <1>3, <1>4, FS_EmptySet
<1>6. \A t \in Channels : Awaited(t, side) = {}
  <2> SUFFICES ASSUME NEW t \in Channels PROVE Awaited(t, side) = {}
    OBVIOUS
  <2>1. Cardinality(Awaited(t, side)) = 0
    BY <1>1, <1>5 DEF CountInv
  <2>2. IsFiniteSet(Awaited(t, side))
    <3>1. Awaited(t, side) \subseteq Channels
      BY DEF Awaited
    <3> QED
      BY <1>2, <3>1, FS_Subset
  <2> QED
    BY <2>1, <2>2, FS_EmptySet
<1>7. ~Has(s, c, "notify", side)
  BY <1>6 DEF Awaited
<1>8. ~ToPartition(c, side)
  BY <1>6 DEF Awaited
<1>9. ~Has(s, c, "partition", side)
  BY <1>8 DEF ToPartition
<1>10. ~Has(s, c, "batch", side)
  BY <1>1, <1>7, BatchIsAnnounced
<1> QED
  BY <1>7, <1>9, <1>10

(* The merge is the only task when it is there. *)
LEMMA MergeIsAlone ==
    ASSUME JoinInv, running, NEW s \in Channels, NEW c \in Channels, Has(s, c, "merge", "right"),
           NEW r \in Channels, NEW t \in Channels
    PROVE  queue[r][t] = IF r = s /\ t = c THEN <<Task("merge", "right", <<>>)>> ELSE <<>>
<1> DEFINE q == queue[r][t]
<1>1. JoinTypes /\ QueueInv /\ PhaseInv
  BY DEF JoinInv
<1>2. global["left"] = 0 /\ global["right"] = 0
  BY <1>1 DEF PhaseInv, Single
<1>3. \A side \in Sides : ~Has(r, t, "partition", side) /\ ~Has(r, t, "notify", side) /\ ~Has(r, t, "batch", side)
  <2> SUFFICES ASSUME NEW side \in Sides
               PROVE  ~Has(r, t, "partition", side) /\ ~Has(r, t, "notify", side) /\ ~Has(r, t, "batch", side)
    OBVIOUS
  <2>1. global[side] = 0
    BY <1>2 DEF Sides
  <2> QED
    BY <1>2, <2>1, SideIsDone
<1>4. q \in Seq(Tasks) /\ Once(q)
  BY <1>1 DEF JoinTypes, Queues, QueueInv
<1>5. ASSUME NEW i \in 1 .. Len(q) PROVE q[i] = Task("merge", "right", <<>>)
  <2>1. q[i] \in Tasks
    BY <1>4
  <2>2. q[i].kind \notin {"partition", "notify", "batch"}
    BY <1>3, <2>1, TaskSides DEF Has, In, IsA
  <2> QED
    BY <2>1, <2>2, TaskSides DEF Single
<1> HIDE DEF q
<1>6. ASSUME NEW i \in 1 .. Len(q) PROVE IsA(q[i], "merge", "right")
  BY <1>5 DEF IsA, Task
<1>7. CASE r = s /\ t = c
  <2>1. 1 \in 1 .. Len(q)
    BY <1>4, <1>7 DEF Has, In, q
  <2>2. Len(q) = 1
    <3>1. Len(q) \in 1 .. Len(q)
      BY <1>4, <2>1
    <3> QED
      BY <1>4, <1>6, <2>1, <3>1 DEF Once, Single, Sides
  <2>3. q = <<q[1]>>
    BY <1>4, <2>2
  <2> QED
    BY <1>5, <1>7, <2>1, <2>3 DEF q
<1>8. CASE ~(r = s /\ t = c)
  <2>1. ~Has(r, t, "merge", "right")
    BY <1>1, <1>8 DEF QueueInv
  <2>2. ~(1 \in 1 .. Len(q))
    BY <1>6, <2>1 DEF Has, In, q
  <2>3. q = <<>>
    BY <1>4, <2>2
  <2> QED
    BY <1>8, <2>3 DEF q
<1> QED
  BY <1>7, <1>8

(* PhasesInOrder: although the channels run on their own, nothing of the     *)
(* right table is partitioned or probed before the last build task, and the  *)
(* merge task, of which there is one, is the last task there is.             *)
THEOREM JoinPhasesAreOrdered == Spec => []PhasesInOrder
<1>1. JoinInv => PhasesInOrder
  <2> SUFFICES ASSUME JoinInv, running
               PROVE  /\ Queued({"partition", "batch"}, "right") # {} =>
                           Queued({"partition", "batch", "notify"}, "left") = {}
                      /\ Queued({"merge"}, "right") # {} =>
                           \A s, c \in Channels :
                              queue[s][c] = (IF <<s, c>> \in Queued({"merge"}, "right") THEN <<Task("merge", "right", <<>>)>> ELSE <<>>)
                      /\ Cardinality(Queued({"merge"}, "right")) <= 1
    BY DEF PhasesInOrder
  <2>1. JoinTypes /\ QueueInv /\ PhaseInv
    BY DEF JoinInv
  <2>2. \A s, c \in Channels : queue[s][c] \in Seq(Tasks) /\ DOMAIN queue[s][c] = 1 .. Len(queue[s][c])
    BY <2>1 DEF JoinTypes, Queues
  <2>3. ASSUME NEW kinds, NEW side, NEW s \in Channels, NEW c \in Channels
        PROVE  <<s, c>> \in Queued(kinds, side) <=> \E kind \in kinds : Has(s, c, kind, side)
    BY <2>2 DEF Queued, Has, In, IsA
  <2>4. ASSUME NEW kinds, NEW side, NEW p \in Queued(kinds, side)
        PROVE  p[1] \in Channels /\ p[2] \in Channels /\ p = <<p[1], p[2]>>
    BY DEF Queued
  <2>5. ASSUME Queued({"partition", "batch"}, "right") # {} PROVE Queued({"partition", "batch", "notify"}, "left") = {}
    <3>1. PICK p \in Queued({"partition", "batch"}, "right") : TRUE
      BY <2>5
    <3>2. PICK s \in Channels, c \in Channels : Has(s, c, "partition", "right") \/ Has(s, c, "batch", "right")
      BY <2>3, <2>4, <3>1
    <3>3. Has(s, c, "partition", "right") \/ Has(s, c, "notify", "right")
      BY <2>1, <3>2, BatchIsAnnounced DEF Sides
    <3>4. global["left"] = 0
      BY <2>1, <3>3 DEF PhaseInv, Single
    <3>5. ASSUME NEW r \in Channels, NEW t \in Channels
          PROVE  ~Has(r, t, "partition", "left") /\ ~Has(r, t, "notify", "left") /\ ~Has(r, t, "batch", "left")
      BY <3>4, SideIsDone DEF Sides
    <3>6. ASSUME NEW q \in Queued({"partition", "batch", "notify"}, "left") PROVE FALSE
      BY <2>3, <2>4, <3>5, <3>6
    <3> QED
      BY <3>6
  <2>6. ASSUME NEW p \in Queued({"merge"}, "right")
        PROVE  /\ Queued({"merge"}, "right") = {p}
               /\ \A s, c \in Channels : queue[s][c] = IF <<s, c>> = p THEN <<Task("merge", "right", <<>>)>> ELSE <<>>
    <3>1. PICK s \in Channels, c \in Channels : p = <<s, c>> /\ Has(s, c, "merge", "right")
      BY <2>3, <2>4
    <3>2. ASSUME NEW q \in Queued({"merge"}, "right") PROVE q = p
      <4>1. PICK r \in Channels, t \in Channels : q = <<r, t>> /\ Has(r, t, "merge", "right")
        BY <2>3, <2>4
      <4> QED
        BY <2>1, <3>1, <4>1 DEF QueueInv
    <3>3. ASSUME NEW r \in Channels, NEW t \in Channels
          PROVE  queue[r][t] = IF <<r, t>> = p THEN <<Task("merge", "right", <<>>)>> ELSE <<>>
      <4>1. queue[r][t] = IF r = s /\ t = c THEN <<Task("merge", "right", <<>>)>> ELSE <<>>
        BY <3>1, MergeIsAlone
      <4>2. <<r, t>> = p <=> r = s /\ t = c
        BY <3>1
      <4> QED
        BY <4>1, <4>2
    <3> QED
      BY <3>2, <3>3
  <2>7. Cardinality(Queued({"merge"}, "right")) <= 1
    <3>1. CASE Queued({"merge"}, "right") = {}
      <4>1. Cardinality({}) = 0
        BY FS_EmptySet
      <4> QED
        BY <3>1, <4>1
    <3>2. CASE Queued({"merge"}, "right") # {}
      <4>1. PICK p : Queued({"merge"}, "right") = {p}
        BY <2>6, <3>2
      <4>2. Cardinality({p}) = 1
        BY FS_Singleton
      <4> QED
        BY <4>1, <4>2
    <3> QED
      BY <3>1, <3>2
  <2>8. ASSUME Queued({"merge"}, "right") # {}, NEW s \in Channels, NEW c \in Channels
        PROVE  queue[s][c] = (IF <<s, c>> \in Queued({"merge"}, "right") THEN <<Task("merge", "right", <<>>)>> ELSE <<>>)
    <3>1. PICK p \in Queued({"merge"}, "right") : TRUE
      BY <2>8
    <3>2. Queued({"merge"}, "right") = {p}
      BY <2>6, <3>1
    <3>3. queue[s][c] = IF <<s, c>> = p THEN <<Task("merge", "right", <<>>)>> ELSE <<>>
      BY <2>6, <3>1
    <3> QED
      BY <3>2, <3>3
  <2> QED
    BY <2>5, <2>7, <2>8
<1> QED
  BY <1>1, JoinInvariant, PTL
=============================================================================
