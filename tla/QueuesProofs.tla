---------------------------- MODULE QueuesProofs ----------------------------
(* The two queues are FIFO queues: the list of MPSCQueue for any numbers of  *)
(* producers and items, BoundMPMCQueue for any numbers of threads and items  *)
(* and any capacity of more than one slot.                                   *)
EXTENDS Queues, Integers, SequenceTheorems, TLAPS

-----------------------------------------------------------------------------
(* Division by the capacity. *)
LEMMA Division ==
    ASSUME NEW C \in Nat \ {0}, NEW p \in Nat
    PROVE  /\ p % C \in 0 .. C - 1 /\ p \div C \in Nat /\ C * (p \div C) \in Nat
           /\ p = C * (p \div C) + (p % C)
OBVIOUS

(* Multiples of the capacity are ordered as their factors. *)
LEMMA Multiples ==
    ASSUME NEW C \in Nat \ {0}, NEW a \in Nat, NEW b \in Nat, C * a < C * b + C
    PROVE  a <= b
OBVIOUS

(* A multiple of the capacity leaves the remainder unchanged. *)
LEMMA Remainder ==
    ASSUME NEW C \in Nat \ {0}, NEW a \in Nat, NEW r \in 0 .. C - 1
    PROVE  (C * a + r) % C = r
<1> DEFINE n == C * a + r
           b == n \div C
           s == n % C
<1> HIDE DEF n, b, s
<1>1. n \in Nat /\ n = C * a + r /\ C * a \in Nat
  BY DEF n
<1>2. s \in 0 .. C - 1 /\ b \in Nat /\ C * b \in Nat /\ n = C * b + s
  BY <1>1, Division DEF b, s
<1>3. a <= b /\ b <= a
  BY <1>1, <1>2, Multiples
<1> QED
  BY <1>1, <1>2, <1>3 DEF n, s

(* Positions of one round have slots of their own, ... *)
LEMMA SlotsOfOneRound ==
    ASSUME NEW C \in Nat \ {0}, NEW p \in Nat, NEW q \in Nat,
           p % C = q % C, p - q < C, q - p < C
    PROVE  p = q
<1> DEFINE a == p \div C
           b == q \div C
           r == p % C
<1> HIDE DEF a, b, r
<1>1. /\ r \in 0 .. C - 1 /\ a \in Nat /\ b \in Nat /\ C * a \in Nat /\ C * b \in Nat
      /\ p = C * a + r /\ q = C * b + r
  BY Division DEF a, b, r
<1>2. a <= b /\ b <= a
  BY <1>1, Multiples
<1> QED
  BY <1>1, <1>2

(* ... and the same one in the next round. *)
LEMMA SlotsOfNextRound ==
    ASSUME NEW C \in Nat \ {0}, NEW p \in Nat
    PROVE  (p + C) % C = p % C
<1> DEFINE a == p \div C
           r == p % C
<1> HIDE DEF a, r
<1>1. a \in Nat /\ r \in 0 .. C - 1 /\ p = C * a + r /\ C * a \in Nat
  BY Division DEF a, r
<1>2. p + C = C * (a + 1) + r
  BY <1>1
<1>3. (p + C) % C = r
  BY <1>1, <1>2, Remainder
<1> QED
  BY <1>3 DEF r

-----------------------------------------------------------------------------
(* BoundMPMCQueue.  The positions from _tail on, as many as there are slots, *)
(* are those in use, up to _head, and those that are free.  The thread that  *)
(* claimed a position owns its slot until it has stored the sequence number. *)

Places == {"idle", "load", "test", "exchange", "data", "store"}

BoundTypes ==
    /\ storage \in [0 .. Capacity - 1 -> [sequence : Nat, item : Value \cup {Null}]]
    /\ ahead \in Nat /\ atail \in Nat /\ atail <= ahead /\ ahead <= atail + Capacity
    /\ at \in [Threads -> Places]
    /\ op \in [Threads -> [pushes : BOOLEAN, blocks : BOOLEAN]]
    /\ pos \in [Threads -> Nat]
    /\ item \in [Threads -> Value \cup {Null}]
    /\ \A t \in Threads : op[t].pushes /\ at[t] # "idle" => item[t] \in Value
    /\ line \in Seq(Value) /\ Len(line) = ahead - atail

Owns(t) == at[t] \in {"data", "store"}
Pushing(t) == Owns(t) /\ op[t].pushes
Popping(t) == Owns(t) /\ ~op[t].pushes

SlotAt(p) == storage[p % Capacity]

(* Owners stand at positions of their own, in use or free again, whose slots *)
(* wait for them.                                                            *)
OwnersInv ==
    /\ \A t \in Threads : Pushing(t) =>
          /\ atail <= pos[t] /\ pos[t] < ahead
          /\ SlotAt(pos[t]).sequence = pos[t]
          /\ item[t] = line[pos[t] - atail + 1]
          /\ at[t] = "store" => SlotAt(pos[t]).item = item[t]
    /\ \A t \in Threads : Popping(t) =>
          /\ pos[t] < atail /\ ahead <= pos[t] + Capacity
          /\ SlotAt(pos[t]).sequence = pos[t] + 1
    /\ \A t, u \in Threads : Owns(t) /\ Owns(u) /\ pos[t] = pos[u] => t = u

(* A position in use has its item, unless it is still being pushed; a free   *)
(* one has its turn, unless the item of the last round is still being read.  *)
SlotsInv ==
    /\ \A p \in Nat : atail <= p /\ p < ahead =>
          \/ \E t \in Threads : Pushing(t) /\ pos[t] = p
          \/ SlotAt(p) = [sequence |-> p + 1, item |-> line[p - atail + 1]]
    /\ \A p \in Nat : ahead <= p /\ p < atail + Capacity =>
          \/ \E t \in Threads : Popping(t) /\ pos[t] + Capacity = p
          \/ SlotAt(p).sequence = p

(* What a thread saw before its exchange still holds if the exchange         *)
(* succeeds: positions are claimed once.                                     *)
Informed(t) ==
    /\ pos[t] <= Bound!Current(t)
    /\ at[t] = "idle" => pos[t] = 0
    /\ at[t] = "exchange" /\ pos[t] = Bound!Current(t) => SlotAt(pos[t]).sequence = Bound!Turn(t)

ClaimInv == \A t \in Threads : Informed(t)

BoundInv == BoundTypes /\ OwnersInv /\ SlotsInv /\ ClaimInv

(* The numbers of the invariant. *)
LEMMA Positions ==
    ASSUME BoundInv
    PROVE  /\ Capacity \in Nat /\ 1 < Capacity
           /\ ahead \in Nat /\ atail \in Nat /\ atail <= ahead /\ ahead <= atail + Capacity
           /\ \A t \in Threads : pos[t] \in Nat
BY CapacityAssumption DEF BoundInv, BoundTypes

(* The invariant holds when the queue is constructed. *)
LEMMA BoundInit == Bound!Init => BoundInv
<1> SUFFICES ASSUME Bound!Init PROVE BoundInv
  OBVIOUS
<1>1. BoundTypes
  BY CapacityAssumption DEF Bound!Init, BoundTypes, Places, Bound!NoCall
<1>2. ASSUME NEW p \in Nat, p < Capacity PROVE SlotAt(p).sequence = p
  <2>1. p % Capacity = p
    BY <1>2, CapacityAssumption, Remainder
  <2> QED
    BY <1>2, <2>1, CapacityAssumption DEF Bound!Init, SlotAt
<1>3. OwnersInv /\ SlotsInv
  BY <1>2, CapacityAssumption DEF Bound!Init, OwnersInv, SlotsInv, Owns, Pushing, Popping
<1>4. ClaimInv
  BY DEF Bound!Init, ClaimInv, Informed, Bound!Current
<1> QED
  BY <1>1, <1>3, <1>4 DEF BoundInv

(* A thread that owns no slot before and after the step disturbs no one. *)
Looks(t) ==
    /\ ~Owns(t) /\ ~Owns(t)' /\ UNCHANGED <<storage, ahead, atail, line>>
    /\ \A u \in Threads \ {t} : /\ at'[u] = at[u] /\ op'[u] = op[u]
                                /\ pos'[u] = pos[u] /\ item'[u] = item[u]

(* Such a step keeps the invariant if the thread knows what it has to. *)
LEMMA Bystanders ==
    ASSUME BoundInv, NEW t \in Threads, Looks(t), BoundTypes', Informed(t)'
    PROVE  BoundInv'
<1>1. \A u \in Threads : (Pushing(u)' <=> Pushing(u)) /\ (Popping(u)' <=> Popping(u))
  BY DEF Looks, Pushing, Popping, Owns
<1>2. \A u \in Threads : Owns(u)' => pos'[u] = pos[u] /\ item'[u] = item[u] /\ at'[u] = at[u] /\ Owns(u)
  BY DEF Looks, Owns
<1>3. OwnersInv'
  BY <1>1, <1>2 DEF Looks, BoundInv, OwnersInv, SlotAt, Pushing, Popping
<1>4. SlotsInv'
  BY <1>1, <1>2 DEF Looks, BoundInv, SlotsInv, SlotAt, Pushing, Popping
<1>5. ClaimInv'
  BY DEF Looks, BoundInv, ClaimInv, Informed, SlotAt, Bound!Current, Bound!Turn
<1> QED
  BY <1>3, <1>4, <1>5 DEF BoundInv

(* A call begins. *)
LEMMA BoundCall ==
    ASSUME BoundInv, NEW t \in Threads, NEW blocks \in BOOLEAN,
           Bound!Pop(t, blocks) \/ \E x \in Value : Bound!Push(t, x, blocks)
    PROVE  BoundInv'
<1>1. BoundTypes'
  <2>1. CASE Bound!Pop(t, blocks)
    BY <2>1 DEF BoundInv, BoundTypes, Places, Bound!Pop, Bound!Goto
  <2>2. ASSUME NEW x \in Value, Bound!Push(t, x, blocks) PROVE BoundTypes'
    BY <2>2 DEF BoundInv, BoundTypes, Places, Bound!Push, Bound!Goto
  <2> QED
    BY <2>1, <2>2
<1>2. Looks(t)
  BY DEF BoundInv, BoundTypes, Looks, Owns, Bound!Pop, Bound!Push, Bound!Goto
<1>3. Informed(t)'
  <2>1. pos'[t] = 0 /\ at'[t] = "load"
    BY DEF BoundInv, BoundTypes, ClaimInv, Informed, Bound!Pop, Bound!Push, Bound!Goto
  <2> QED
    BY <1>1, <2>1 DEF BoundTypes, Informed, Bound!Current
<1> QED
  BY <1>1, <1>2, <1>3, Bystanders

(* A thread reads a position or a sequence number, or misses its exchange. *)
LEMMA BoundLook ==
    ASSUME BoundInv, NEW t \in Threads,
           Bound!Load(t) \/ Bound!IsTurn(t) \/ Bound!TooLate(t) \/ Bound!TooEarly(t) \/ Bound!Missed(t)
    PROVE  BoundInv'
<1>1. CASE Bound!Load(t) \/ Bound!Missed(t)
  <2>1. Bound!Current(t) \in Nat
    BY DEF BoundInv, BoundTypes, Bound!Current
  <2>2. BoundTypes'
    BY <1>1, <2>1 DEF BoundInv, BoundTypes, Places, Bound!Load, Bound!Missed, Bound!Goto
  <2>3. Looks(t)
    BY <1>1 DEF BoundInv, BoundTypes, Looks, Owns, Bound!Load, Bound!Missed, Bound!Goto
  <2>4. Informed(t)'
    BY <1>1, <2>1 DEF BoundInv, BoundTypes, Informed, Bound!Load, Bound!Missed, Bound!Goto, Bound!Current
  <2> QED
    BY <2>2, <2>3, <2>4, Bystanders
<1>2. CASE Bound!TooLate(t) \/ (Bound!TooEarly(t) /\ op[t].blocks)
  <2> USE <1>2
  <2>1. /\ at[t] = "test" /\ at' = [at EXCEPT ![t] = "load"]
        /\ UNCHANGED <<storage, ahead, atail, op, pos, item, line>>
    BY DEF Bound!TooLate, Bound!TooEarly, Bound!Goto
  <2>2. BoundTypes'
    BY <2>1 DEF BoundInv, BoundTypes, Places
  <2>3. Looks(t)
    BY <2>1 DEF BoundInv, BoundTypes, Looks, Owns
  <2>4. Informed(t)'
    BY <2>1 DEF BoundInv, BoundTypes, ClaimInv, Informed, Bound!Current
  <2> QED
    BY <2>2, <2>3, <2>4, Bystanders
<1>3. CASE Bound!TooEarly(t) /\ ~op[t].blocks
  <2> USE <1>3
  <2>1. at[t] = "test" /\ Bound!Return(t) /\ UNCHANGED <<storage, ahead, atail, line>>
    BY DEF Bound!TooEarly
  <2>2. BoundTypes'
    BY <2>1 DEF BoundInv, BoundTypes, Places, Bound!Return, Bound!NoCall
  <2>3. Looks(t)
    BY <2>1 DEF BoundInv, BoundTypes, Looks, Owns, Bound!Return
  <2>4. pos'[t] = 0 /\ at'[t] = "idle"
    BY <2>1 DEF BoundInv, BoundTypes, Bound!Return
  <2>5. Informed(t)'
    BY <2>2, <2>4 DEF BoundTypes, Informed, Bound!Current
  <2> QED
    BY <2>2, <2>3, <2>5, Bystanders
<1>4. CASE Bound!IsTurn(t)
  <2>1. BoundTypes'
    BY <1>4 DEF BoundInv, BoundTypes, Places, Bound!IsTurn, Bound!Goto
  <2>2. Looks(t)
    BY <1>4 DEF BoundInv, BoundTypes, Looks, Owns, Bound!IsTurn, Bound!Goto
  <2>3. SlotAt(pos[t]).sequence = Bound!Turn(t)
    BY <1>4 DEF Bound!IsTurn, Bound!Ready, Bound!Sequence, Bound!Slot, SlotAt
  <2>4. Informed(t)'
    BY <1>4, <2>3 DEF BoundInv, BoundTypes, ClaimInv, Informed, Bound!IsTurn, Bound!Goto, SlotAt,
                      Bound!Current, Bound!Turn
  <2> QED
    BY <2>1, <2>2, <2>4, Bystanders
<1> QED
  BY <1>1, <1>2, <1>3, <1>4

(* The exchange of a push takes a position whose slot is free, so that the   *)
(* queue never holds more items than it has slots.                           *)
LEMMA BoundPushClaim ==
    ASSUME BoundInv, NEW t \in Threads, Bound!Claim(t), op[t].pushes
    PROVE  BoundInv'
<1> USE CapacityAssumption DEF BoundInv
<1>1. /\ pos[t] = ahead /\ at[t] = "exchange" /\ at' = [at EXCEPT ![t] = "data"]
      /\ ahead' = ahead + 1 /\ line' = Append(line, item[t])
      /\ UNCHANGED <<atail, storage, op, pos, item>>
  BY DEF Bound!Claim, Bound!Goto, Bound!Current
<1>2. SlotAt(ahead).sequence = ahead
  BY <1>1 DEF ClaimInv, Informed, Bound!Current, Bound!Turn
<1>3. ahead < atail + Capacity
  <2>1. SUFFICES ASSUME ahead = atail + Capacity PROVE FALSE
    BY DEF BoundTypes
  <2>2. SlotAt(ahead) = SlotAt(atail)
    BY <2>1, SlotsOfNextRound DEF BoundTypes, SlotAt
  <2>3. SlotAt(atail).sequence \in {atail, atail + 1}
    BY <2>1 DEF BoundTypes, SlotsInv, OwnersInv
  <2> QED
    BY <1>2, <2>1, <2>2, <2>3 DEF BoundTypes
<1>4. item[t] \in Value /\ ~Owns(t) /\ Pushing(t)'
  BY <1>1 DEF BoundTypes, Owns, Pushing
<1>5. /\ line' \in Seq(Value) /\ Len(line') = ahead - atail + 1
      /\ line'[ahead - atail + 1] = item[t]
      /\ \A i \in 1 .. ahead - atail : line'[i] = line[i]
  BY <1>1, <1>4, AppendProperties DEF BoundTypes
<1>6. BoundTypes'
  BY <1>1, <1>3, <1>5 DEF BoundTypes, Places
<1>7. \A u \in Threads \ {t} : /\ at'[u] = at[u] /\ (Owns(u)' <=> Owns(u))
                               /\ (Pushing(u)' <=> Pushing(u)) /\ (Popping(u)' <=> Popping(u))
  BY <1>1 DEF BoundTypes, Owns, Pushing, Popping
<1>8. \A u \in Threads : Popping(u) => ahead < pos[u] + Capacity
  <2> SUFFICES ASSUME NEW u \in Threads, Popping(u), ~(ahead < pos[u] + Capacity) PROVE FALSE
    OBVIOUS
  <2>0. ahead = pos[u] + Capacity
    <3>1. ahead <= pos[u] + Capacity
      BY DEF OwnersInv
    <3> QED
      BY <3>1, Positions
  <2>1. SlotAt(ahead) = SlotAt(pos[u])
    BY <2>0, SlotsOfNextRound DEF BoundTypes, SlotAt
  <2> QED
    BY <1>2, <2>0, <2>1 DEF BoundTypes, OwnersInv
<1>9. \A u \in Threads : Owns(u) => pos[u] < ahead
  BY DEF BoundTypes, OwnersInv, Pushing, Popping
<1>10. at'[t] = "data" /\ Owns(t)' /\ ~Popping(t)'
  BY <1>1 DEF BoundTypes, Owns, Popping
<1>11. OwnersInv'
  <2>1. ASSUME NEW u \in Threads, Pushing(u)'
        PROVE  /\ atail' <= pos'[u] /\ pos'[u] < ahead'
               /\ SlotAt(pos[u])'.sequence = pos'[u]
               /\ item'[u] = line'[pos'[u] - atail' + 1]
               /\ at'[u] = "store" => SlotAt(pos[u])'.item = item'[u]
    <3>1. CASE u = t
      BY <1>1, <1>2, <1>5, <1>10, <3>1 DEF BoundTypes, SlotAt
    <3>2. CASE u # t
      <4>1. pos[u] - atail + 1 \in 1 .. ahead - atail
        BY <1>7, <2>1, <3>2 DEF BoundTypes, OwnersInv
      <4>2. line'[pos[u] - atail + 1] = line[pos[u] - atail + 1]
        BY <1>5, <4>1
      <4>3. Pushing(u) /\ at'[u] = at[u]
        BY <1>7, <2>1, <3>2
      <4> QED
        BY <1>1, <4>2, <4>3, SMTT(30) DEF BoundTypes, OwnersInv, SlotAt
    <3> QED
      BY <3>1, <3>2
  <2>2. ASSUME NEW u \in Threads, Popping(u)'
        PROVE  /\ pos'[u] < atail' /\ ahead' <= pos'[u] + Capacity
               /\ SlotAt(pos[u])'.sequence = pos'[u] + 1
    BY <1>1, <1>7, <1>8, <1>10, <2>2 DEF BoundTypes, OwnersInv, SlotAt
  <2>3. ASSUME NEW u \in Threads, NEW v \in Threads, Owns(u)', Owns(v)', pos'[u] = pos'[v]
        PROVE  u = v
    BY <1>1, <1>7, <1>9, <2>3 DEF BoundTypes, OwnersInv
  <2> QED
    BY <2>1, <2>2, <2>3 DEF OwnersInv
<1>12. SlotsInv'
  <2>1. ASSUME NEW p \in Nat, atail' <= p, p < ahead'
        PROVE  \/ \E u \in Threads : Pushing(u)' /\ pos'[u] = p
               \/ SlotAt(p)' = [sequence |-> p + 1, item |-> line'[p - atail' + 1]]
    <3>1. CASE p = ahead
      BY <1>1, <1>4, <3>1
    <3>2. CASE p # ahead
      <4>1. p < ahead /\ p - atail + 1 \in 1 .. ahead - atail
        BY <1>1, <2>1, <3>2 DEF BoundTypes
      <4>2. CASE \E u \in Threads : Pushing(u) /\ pos[u] = p
        BY <1>1, <1>4, <1>7, <4>2 DEF Pushing
      <4>3. CASE SlotAt(p) = [sequence |-> p + 1, item |-> line[p - atail + 1]]
        BY <1>1, <1>5, <4>1, <4>3 DEF SlotAt
      <4> QED
        BY <1>1, <2>1, <4>1, <4>2, <4>3 DEF SlotsInv
    <3> QED
      BY <3>1, <3>2
  <2>2. ASSUME NEW p \in Nat, ahead' <= p, p < atail' + Capacity
        PROVE  \/ \E u \in Threads : Popping(u)' /\ pos'[u] + Capacity = p
               \/ SlotAt(p)'.sequence = p
    <3>1. \/ \E u \in Threads : Popping(u) /\ pos[u] + Capacity = p
          \/ SlotAt(p).sequence = p
      BY <1>1, <2>2 DEF SlotsInv, BoundTypes
    <3> QED
      BY <1>1, <1>4, <1>7, <3>1 DEF Popping, SlotAt
  <2> QED
    BY <2>1, <2>2 DEF SlotsInv
<1>13. ClaimInv'
  BY <1>1, <1>10 DEF BoundTypes, ClaimInv, Informed, SlotAt, Bound!Current, Bound!Turn
<1> QED
  BY <1>6, <1>11, <1>12, <1>13

(* The exchange of a pop takes the oldest position in use, and its item is   *)
(* in the slot.                                                              *)
LEMMA BoundPopReady ==
    ASSUME BoundInv, NEW t \in Threads, Bound!Claim(t), ~op[t].pushes
    PROVE  /\ pos[t] = atail /\ atail < ahead
           /\ SlotAt(atail) = [sequence |-> atail + 1, item |-> line[1]]
           /\ \A u \in Threads : Pushing(u) => pos[u] # atail
<1> USE CapacityAssumption DEF BoundInv
<1>1. pos[t] = atail /\ at[t] = "exchange"
  BY DEF Bound!Claim, Bound!Goto, Bound!Current
<1>2. SlotAt(atail).sequence = atail + 1
  BY <1>1 DEF ClaimInv, Informed, Bound!Current, Bound!Turn
<1>3. \A u \in Threads : Pushing(u) => pos[u] # atail
  BY <1>2 DEF BoundTypes, OwnersInv
<1>4. atail < ahead
  <2>1. SUFFICES ASSUME atail = ahead PROVE FALSE
    BY DEF BoundTypes
  <2>2. PICK u \in Threads : Popping(u) /\ pos[u] + Capacity = atail
    <3>1. \/ \E u \in Threads : Popping(u) /\ pos[u] + Capacity = atail
          \/ SlotAt(atail).sequence = atail
      BY <2>1 DEF BoundTypes, SlotsInv
    <3> QED
      BY <1>2, <3>1 DEF BoundTypes
  <2>3. SlotAt(atail) = SlotAt(pos[u])
    BY <2>2, SlotsOfNextRound DEF BoundTypes, SlotAt
  <2> QED
    BY <1>2, <2>2, <2>3 DEF BoundTypes, OwnersInv
<1>5. SlotAt(atail) = [sequence |-> atail + 1, item |-> line[1]]
  BY <1>3, <1>4 DEF BoundTypes, SlotsInv
<1> QED
  BY <1>1, <1>3, <1>4, <1>5

(* After it the slot belongs to the popping thread. *)
LEMMA BoundPopClaim ==
    ASSUME BoundInv, NEW t \in Threads, Bound!Claim(t), ~op[t].pushes
    PROVE  BoundInv'
<1> USE CapacityAssumption DEF BoundInv
<1>1. /\ at[t] = "exchange" /\ at' = [at EXCEPT ![t] = "data"]
      /\ atail' = atail + 1 /\ line' = Tail(line)
      /\ UNCHANGED <<ahead, storage, op, pos, item>>
  BY DEF Bound!Claim, Bound!Goto
<1>2. /\ pos[t] = atail /\ atail < ahead
      /\ SlotAt(atail).sequence = atail + 1
      /\ \A u \in Threads : Pushing(u) => pos[u] # atail
  BY BoundPopReady
<1>3. /\ line' \in Seq(Value) /\ Len(line') = ahead - atail - 1
      /\ \A i \in 1 .. ahead - atail - 1 : line'[i] = line[i + 1]
  BY <1>1, <1>2, HeadTailProperties DEF BoundTypes
<1>4. BoundTypes'
  <2>1. at' \in [Threads -> Places] /\ \A u \in Threads : at'[u] # "idle" => at[u] # "idle"
    BY <1>1 DEF BoundTypes, Places
  <2>2. atail' \in Nat /\ atail' <= ahead /\ ahead <= atail' + Capacity /\ Len(line') = ahead - atail'
    BY <1>1, <1>2, <1>3 DEF BoundTypes
  <2> QED
    BY <1>1, <1>3, <2>1, <2>2 DEF BoundTypes
<1>5. \A u \in Threads \ {t} : /\ at'[u] = at[u] /\ (Owns(u)' <=> Owns(u))
                               /\ (Pushing(u)' <=> Pushing(u)) /\ (Popping(u)' <=> Popping(u))
  BY <1>1 DEF BoundTypes, Owns, Pushing, Popping
<1>6. at'[t] = "data" /\ Owns(t)' /\ ~Pushing(t)' /\ Popping(t)' /\ ~Owns(t)
  BY <1>1 DEF BoundTypes, Owns, Popping, Pushing
<1>7. \A u \in Threads : Owns(u) => pos[u] # atail
  BY <1>2 DEF BoundTypes, OwnersInv, Pushing, Popping
<1>8. OwnersInv'
  <2>1. ASSUME NEW u \in Threads, Pushing(u)'
        PROVE  /\ atail' <= pos'[u] /\ pos'[u] < ahead'
               /\ SlotAt(pos[u])'.sequence = pos'[u]
               /\ item'[u] = line'[pos'[u] - atail' + 1]
               /\ at'[u] = "store" => SlotAt(pos[u])'.item = item'[u]
    <3>1. u # t /\ Pushing(u) /\ at'[u] = at[u] /\ pos[u] # atail
      BY <1>2, <1>5, <1>6, <2>1
    <3>2. pos[u] - atail \in 1 .. ahead - atail - 1
      <4>1. pos[u] \in Nat /\ atail \in Nat /\ ahead \in Nat
        BY DEF BoundTypes
      <4>2. atail <= pos[u] /\ pos[u] < ahead
        BY <3>1 DEF OwnersInv
      <4> QED
        BY <3>1, <4>1, <4>2
    <3>3. line'[pos[u] - atail] = line[pos[u] - atail + 1]
      BY <1>3, <3>2
    <3>4. pos[u] - (atail + 1) + 1 = pos[u] - atail
      BY DEF BoundTypes
    <3>5. pos[u] \in Nat /\ atail + 1 <= pos[u] /\ pos[u] < ahead
      BY <3>1 DEF BoundTypes, OwnersInv
    <3>6. item[u] = line[pos[u] - atail + 1]
      BY <3>1 DEF OwnersInv
    <3> QED
      BY <1>1, <3>1, <3>3, <3>4, <3>5, <3>6 DEF OwnersInv, SlotAt
  <2>2. ASSUME NEW u \in Threads, Popping(u)'
        PROVE  /\ pos'[u] < atail' /\ ahead' <= pos'[u] + Capacity
               /\ SlotAt(pos[u])'.sequence = pos'[u] + 1
    <3>1. CASE u = t
      BY <1>1, <1>2, <3>1 DEF BoundTypes, SlotAt
    <3>2. CASE u # t
      BY <1>1, <1>5, <2>2, <3>2 DEF BoundTypes, OwnersInv, SlotAt
    <3> QED
      BY <3>1, <3>2
  <2>3. ASSUME NEW u \in Threads, NEW v \in Threads, Owns(u)', Owns(v)', pos'[u] = pos'[v]
        PROVE  u = v
    BY <1>1, <1>2, <1>5, <1>7, <2>3 DEF BoundTypes, OwnersInv
  <2> QED
    BY <2>1, <2>2, <2>3 DEF OwnersInv
<1>9. SlotsInv'
  <2>1. ASSUME NEW p \in Nat, atail' <= p, p < ahead'
        PROVE  \/ \E u \in Threads : Pushing(u)' /\ pos'[u] = p
               \/ SlotAt(p)' = [sequence |-> p + 1, item |-> line'[p - atail' + 1]]
    <3>1. /\ atail <= p /\ p < ahead /\ p - atail \in 1 .. ahead - atail - 1
          /\ p - (atail + 1) + 1 = p - atail
      BY <1>1, <2>1 DEF BoundTypes
    <3>2. line'[p - atail] = line[p - atail + 1]
      BY <1>3, <3>1
    <3>3. CASE \E u \in Threads : Pushing(u) /\ pos[u] = p
      BY <1>1, <1>5, <1>6, <3>3 DEF Pushing
    <3>4. CASE SlotAt(p) = [sequence |-> p + 1, item |-> line[p - atail + 1]]
      BY <1>1, <3>1, <3>2, <3>4 DEF SlotAt
    <3> QED
      BY <3>1, <3>3, <3>4 DEF SlotsInv
  <2>2. ASSUME NEW p \in Nat, ahead' <= p, p < atail' + Capacity
        PROVE  \/ \E u \in Threads : Popping(u)' /\ pos'[u] + Capacity = p
               \/ SlotAt(p)'.sequence = p
    <3>1. CASE p = atail + Capacity
      BY <1>1, <1>2, <1>6, <3>1
    <3>2. CASE p # atail + Capacity
      <4>1. \/ \E u \in Threads : Popping(u) /\ pos[u] + Capacity = p
            \/ SlotAt(p).sequence = p
        BY <1>1, <2>2, <3>2 DEF SlotsInv, BoundTypes
      <4> QED
        BY <1>1, <1>5, <1>6, <4>1 DEF Popping, SlotAt
    <3> QED
      BY <3>1, <3>2
  <2> QED
    BY <2>1, <2>2 DEF SlotsInv
<1>10. ClaimInv'
  BY <1>1, <1>6 DEF BoundTypes, ClaimInv, Informed, SlotAt, Bound!Current, Bound!Turn
<1> QED
  BY <1>4, <1>8, <1>9, <1>10

(* Positions that are less than a round apart have different slots.          *)
LEMMA SlotsApart ==
    ASSUME NEW p \in Nat, NEW q \in Nat, p # q, p - q < Capacity, q - p < Capacity
    PROVE  p % Capacity # q % Capacity
BY SlotsOfOneRound, CapacityAssumption

(* The owner of a slot writes or reads its item.                             *)
LEMMA BoundData ==
    ASSUME BoundInv, NEW t \in Threads, Bound!Data(t)
    PROVE  BoundInv'
<1> USE CapacityAssumption DEF BoundInv
<1>1. /\ at[t] = "data" /\ at' = [at EXCEPT ![t] = "store"]
      /\ UNCHANGED <<ahead, atail, op, pos, line>>
  BY DEF Bound!Data, Bound!Goto
<1>2. pos[t] % Capacity \in 0 .. Capacity - 1 /\ \A p \in Nat : p % Capacity \in 0 .. Capacity - 1
  BY DEF BoundTypes
<1>3. \A u \in Threads : (Owns(u)' <=> Owns(u)) /\ (Pushing(u)' <=> Pushing(u)) /\ (Popping(u)' <=> Popping(u))
  BY <1>1 DEF BoundTypes, Owns, Pushing, Popping
<1>4. CASE op[t].pushes
  <2>1. /\ storage' = [storage EXCEPT ![pos[t] % Capacity].item = item[t]]
        /\ UNCHANGED item /\ item[t] \in Value /\ Pushing(t)
    BY <1>1, <1>4 DEF BoundTypes, Bound!Data, Bound!Slot, Pushing, Owns
  <2>2. BoundTypes'
    BY <1>1, <1>2, <2>1 DEF BoundTypes, Places
  <2>3. \A p \in Nat : SlotAt(p)'.sequence = SlotAt(p).sequence
    BY <1>2, <2>1 DEF BoundTypes, SlotAt
  <2>4. SlotAt(pos[t])'.item = item[t]
    BY <1>1, <1>2, <2>1 DEF BoundTypes, SlotAt
  <2>5. ASSUME NEW p \in Nat, atail <= p, p < ahead, p # pos[t]
        PROVE  SlotAt(p)' = SlotAt(p)
    <3>0. atail <= pos[t] /\ pos[t] < ahead
      BY <2>1 DEF OwnersInv
    <3>1. p % Capacity # pos[t] % Capacity
      BY <2>5, <3>0, SlotsApart, Positions
    <3> QED
      BY <1>2, <2>1, <3>1 DEF BoundTypes, SlotAt
  <2>6. OwnersInv'
    <3>1. ASSUME NEW u \in Threads, Pushing(u)'
          PROVE  /\ atail' <= pos'[u] /\ pos'[u] < ahead'
                 /\ SlotAt(pos[u])'.sequence = pos'[u]
                 /\ item'[u] = line'[pos'[u] - atail' + 1]
                 /\ at'[u] = "store" => SlotAt(pos[u])'.item = item'[u]
      <4>1. CASE u = t
        BY <1>1, <2>1, <2>3, <2>4, <4>1 DEF BoundTypes, OwnersInv
      <4>2. CASE u # t
        <5>1. Pushing(u) /\ Owns(u) /\ Owns(t) /\ pos[u] # pos[t] /\ at'[u] = at[u]
          BY <1>1, <1>3, <2>1, <3>1, <4>2 DEF BoundTypes, OwnersInv, Pushing
        <5>2. SlotAt(pos[u])' = SlotAt(pos[u])
          BY <1>1, <2>5, <5>1 DEF BoundTypes, OwnersInv, SlotAt
        <5> QED
          BY <1>1, <2>1, <5>1, <5>2 DEF BoundTypes, OwnersInv
      <4> QED
        BY <4>1, <4>2
    <3>2. ASSUME NEW u \in Threads, Popping(u)'
          PROVE  /\ pos'[u] < atail' /\ ahead' <= pos'[u] + Capacity
                 /\ SlotAt(pos[u])'.sequence = pos'[u] + 1
      BY <1>1, <1>3, <2>3, <3>2 DEF BoundTypes, OwnersInv, SlotAt
    <3> QED
      BY <1>1, <1>3, <3>1, <3>2 DEF OwnersInv
  <2>7. SlotsInv'
    <3>1. ASSUME NEW p \in Nat, atail' <= p, p < ahead'
          PROVE  \/ \E u \in Threads : Pushing(u)' /\ pos'[u] = p
                 \/ SlotAt(p)' = [sequence |-> p + 1, item |-> line'[p - atail' + 1]]
      <4>1. CASE p = pos[t]
        BY <1>1, <1>3, <2>1, <4>1
      <4>2. CASE p # pos[t]
        BY <1>1, <1>3, <2>5, <3>1, <4>2 DEF SlotsInv
      <4> QED
        BY <4>1, <4>2
    <3> QED
      BY <1>1, <1>3, <2>3, <3>1 DEF SlotsInv
  <2>8. ClaimInv'
    BY <1>1, <2>3 DEF BoundTypes, ClaimInv, Informed, SlotAt, Bound!Current, Bound!Turn
  <2> QED
    BY <2>2, <2>6, <2>7, <2>8
<1>5. CASE ~op[t].pushes
  <2>1. /\ UNCHANGED storage /\ item' = [item EXCEPT ![t] = SlotAt(pos[t]).item]
        /\ SlotAt(pos[t]).item \in Value \cup {Null} /\ ~Pushing(t)
    BY <1>1, <1>2, <1>5 DEF BoundTypes, Bound!Data, Bound!Slot, SlotAt, Pushing
  <2>2. BoundTypes'
    BY <1>1, <1>5, <2>1 DEF BoundTypes, Places
  <2>3. \A u \in Threads \ {t} : at'[u] = at[u] /\ item'[u] = item[u]
    BY <1>1, <2>1 DEF BoundTypes
  <2>4. OwnersInv'
    BY <1>1, <1>3, <2>1, <2>3 DEF OwnersInv, SlotAt
  <2>5. SlotsInv'
    BY <1>1, <1>3, <2>1 DEF SlotsInv, SlotAt
  <2>6. ClaimInv'
    BY <1>1, <2>1 DEF BoundTypes, ClaimInv, Informed, SlotAt, Bound!Current, Bound!Turn
  <2> QED
    BY <2>2, <2>4, <2>5, <2>6
<1> QED
  BY <1>4, <1>5

(* The slot of a push is handed to the pop of its item. *)
LEMMA BoundPushStore ==
    ASSUME BoundInv, NEW t \in Threads, Bound!Store(t), op[t].pushes
    PROVE  BoundInv'
<1> USE CapacityAssumption DEF BoundInv
<1>1. /\ at[t] = "store" /\ Bound!Return(t) /\ UNCHANGED <<ahead, atail, line>>
      /\ storage' = [storage EXCEPT ![pos[t] % Capacity].sequence = pos[t] + 1]
  BY DEF Bound!Store, Bound!Slot
<1>2. pos[t] % Capacity \in 0 .. Capacity - 1 /\ \A p \in Nat : p % Capacity \in 0 .. Capacity - 1
  BY DEF BoundTypes
<1>3. Pushing(t) /\ pos[t] \in Nat /\ atail <= pos[t] /\ pos[t] < ahead
  BY <1>1 DEF BoundTypes, OwnersInv, Pushing, Owns
<1>4. BoundTypes'
  <2>1. storage' \in [0 .. Capacity - 1 -> [sequence : Nat, item : Value \cup {Null}]]
    <3>1. pos[t] + 1 \in Nat
      BY <1>3, Positions
    <3>2. storage[pos[t] % Capacity] \in [sequence : Nat, item : Value \cup {Null}]
      BY <1>2 DEF BoundTypes
    <3>3. [storage[pos[t] % Capacity] EXCEPT !.sequence = pos[t] + 1] \in [sequence : Nat, item : Value \cup {Null}]
      BY <3>1, <3>2
    <3> QED
      BY <1>1, <1>2, <3>3 DEF BoundTypes
  <2>2. at' \in [Threads -> Places] /\ op' \in [Threads -> [pushes : BOOLEAN, blocks : BOOLEAN]]
    BY <1>1 DEF BoundTypes, Places, Bound!Return, Bound!NoCall
  <2>3. pos' \in [Threads -> Nat] /\ item' \in [Threads -> Value \cup {Null}]
    BY <1>1 DEF BoundTypes, Bound!Return
  <2>4. \A u \in Threads : op'[u].pushes /\ at'[u] # "idle" => item'[u] \in Value
    BY <1>1 DEF BoundTypes, Bound!Return
  <2> QED
    BY <1>1, <2>1, <2>2, <2>3, <2>4 DEF BoundTypes
<1>5. \A u \in Threads \ {t} : at'[u] = at[u] /\ op'[u] = op[u] /\ pos'[u] = pos[u] /\ item'[u] = item[u]
  BY <1>1 DEF BoundTypes, Bound!Return
<1>6. at'[t] = "idle" /\ ~Owns(t)' /\ pos'[t] = 0
  BY <1>1 DEF BoundTypes, Bound!Return, Owns
<1>7. \A u \in Threads : Owns(u)' => u # t /\ Owns(u) /\ (Pushing(u)' <=> Pushing(u)) /\ (Popping(u)' <=> Popping(u))
  BY <1>5, <1>6 DEF Owns, Pushing, Popping
<1>8. \A u \in Threads \ {t} : (Pushing(u)' <=> Pushing(u)) /\ (Popping(u)' <=> Popping(u))
  BY <1>5 DEF Owns, Pushing, Popping
<1>9. ASSUME NEW p \in Nat, p # pos[t], p - pos[t] < Capacity, pos[t] - p < Capacity
      PROVE  storage'[p % Capacity] = SlotAt(p)
  <2>1. p % Capacity # pos[t] % Capacity
    BY <1>3, <1>9, SlotsApart
  <2> QED
    BY <1>1, <1>2, <2>1 DEF BoundTypes, SlotAt
<1>10. storage'[pos[t] % Capacity] = [sequence |-> pos[t] + 1, item |-> line[pos[t] - atail + 1]]
  <2>1. SlotAt(pos[t]).item = line[pos[t] - atail + 1]
    BY <1>1, <1>3 DEF OwnersInv
  <2> QED
    BY <1>1, <1>2, <2>1 DEF BoundTypes, SlotAt
<1>11. OwnersInv'
  <2>1. ASSUME NEW u \in Threads, Pushing(u)'
        PROVE  /\ atail' <= pos'[u] /\ pos'[u] < ahead'
               /\ SlotAt(pos[u])'.sequence = pos'[u]
               /\ item'[u] = line'[pos'[u] - atail' + 1]
               /\ at'[u] = "store" => SlotAt(pos[u])'.item = item'[u]
    <3>1. u # t /\ Pushing(u) /\ Owns(u) /\ Owns(t)
      BY <1>3, <1>7, <2>1 DEF Pushing
    <3>2. pos[u] \in Nat /\ pos[u] # pos[t] /\ atail <= pos[u] /\ pos[u] < ahead
      BY <3>1 DEF BoundTypes, OwnersInv
    <3>3. storage'[pos[u] % Capacity] = SlotAt(pos[u])
      BY <1>3, <1>9, <3>2, Positions
    <3>4. /\ SlotAt(pos[u]).sequence = pos[u] /\ item[u] = line[pos[u] - atail + 1]
          /\ at[u] = "store" => SlotAt(pos[u]).item = item[u]
      BY <3>1 DEF OwnersInv
    <3> QED
      BY <1>1, <1>5, <3>1, <3>2, <3>3, <3>4 DEF SlotAt
  <2>2. ASSUME NEW u \in Threads, Popping(u)'
        PROVE  /\ pos'[u] < atail' /\ ahead' <= pos'[u] + Capacity
               /\ SlotAt(pos[u])'.sequence = pos'[u] + 1
    <3>1. u # t /\ Popping(u)
      BY <1>7, <2>2 DEF Popping
    <3>2. pos[u] \in Nat /\ pos[u] < atail /\ ahead <= pos[u] + Capacity
      BY <3>1 DEF BoundTypes, OwnersInv
    <3>3. storage'[pos[u] % Capacity] = SlotAt(pos[u])
      BY <1>3, <1>9, <3>2, Positions
    <3>4. SlotAt(pos[u]).sequence = pos[u] + 1
      BY <3>1 DEF OwnersInv
    <3> QED
      BY <1>1, <1>5, <3>1, <3>2, <3>3, <3>4 DEF SlotAt
  <2>3. ASSUME NEW u \in Threads, NEW v \in Threads, Owns(u)', Owns(v)', pos'[u] = pos'[v]
        PROVE  u = v
    BY <1>5, <1>7, <2>3 DEF OwnersInv
  <2> QED
    BY <2>1, <2>2, <2>3 DEF OwnersInv
<1>12. SlotsInv'
  <2>1. ASSUME NEW p \in Nat, atail <= p, p < ahead
        PROVE  \/ \E u \in Threads : Pushing(u)' /\ pos'[u] = p
               \/ storage'[p % Capacity] = [sequence |-> p + 1, item |-> line[p - atail + 1]]
    <3>1. CASE p = pos[t]
      BY <1>10, <3>1
    <3>2. CASE p # pos[t]
      <4>1. storage'[p % Capacity] = SlotAt(p)
        BY <1>3, <1>9, <2>1, <3>2, Positions
      <4>2. CASE \E u \in Threads : Pushing(u) /\ pos[u] = p
        BY <1>5, <1>8, <3>2, <4>2
      <4>3. CASE SlotAt(p) = [sequence |-> p + 1, item |-> line[p - atail + 1]]
        BY <4>1, <4>3
      <4> QED
        BY <2>1, <4>2, <4>3 DEF SlotsInv
    <3> QED
      BY <3>1, <3>2
  <2>2. ASSUME NEW p \in Nat, ahead <= p, p < atail + Capacity
        PROVE  \/ \E u \in Threads : Popping(u)' /\ pos'[u] + Capacity = p
               \/ storage'[p % Capacity].sequence = p
    <3>1. storage'[p % Capacity] = SlotAt(p)
      BY <1>3, <1>9, <2>2, Positions
    <3>2. CASE \E u \in Threads : Popping(u) /\ pos[u] + Capacity = p
      BY <1>3, <1>5, <1>8, <3>2 DEF Pushing, Popping
    <3>3. CASE SlotAt(p).sequence = p
      BY <3>1, <3>3
    <3> QED
      BY <2>2, <3>2, <3>3 DEF SlotsInv
  <2> QED
    BY <1>1, <2>1, <2>2 DEF SlotsInv, SlotAt
<1>13. ASSUME NEW u \in Threads PROVE Informed(u)'
  <2>1. CASE u = t
    BY <1>4, <1>6, <2>1 DEF BoundTypes, Informed, Bound!Current
  <2>2. CASE u # t
    <3>1. at'[u] = at[u] /\ op'[u] = op[u] /\ pos'[u] = pos[u] /\ Informed(u)
      BY <1>5, <2>2 DEF ClaimInv
    <3>2. ASSUME at[u] = "exchange", pos[u] = Bound!Current(u)
          PROVE  storage'[pos[u] % Capacity] = SlotAt(pos[u])
      <4>1. SlotAt(pos[u]).sequence = Bound!Turn(u)
        BY <3>1, <3>2 DEF Informed
      <4>2. SlotAt(pos[t]).sequence = pos[t]
        BY <1>3 DEF OwnersInv
      <4>3. CASE pos[u] % Capacity = pos[t] % Capacity
        <5>1. pos[t] = Bound!Turn(u)
          BY <4>1, <4>2, <4>3 DEF SlotAt
        <5>2. pos[u] = atail /\ pos[t] = atail + 1
          BY <1>3, <3>2, <5>1 DEF BoundTypes, Bound!Current, Bound!Turn
        <5> QED
          BY <1>3, <4>3, <5>2, SlotsApart DEF BoundTypes
      <4>4. CASE pos[u] % Capacity # pos[t] % Capacity
        BY <1>1, <1>2, <4>4 DEF BoundTypes, SlotAt
      <4> QED
        BY <4>3, <4>4
    <3> QED
      BY <1>1, <3>1, <3>2 DEF Informed, SlotAt, Bound!Current, Bound!Turn
  <2> QED
    BY <2>1, <2>2
<1> QED
  BY <1>4, <1>11, <1>12, <1>13 DEF ClaimInv

(* The slot of a pop is free for the position one round on. *)
LEMMA BoundPopStore ==
    ASSUME BoundInv, NEW t \in Threads, Bound!Store(t), ~op[t].pushes
    PROVE  BoundInv'
<1> USE CapacityAssumption DEF BoundInv
<1>1. /\ at[t] = "store" /\ Bound!Return(t) /\ UNCHANGED <<ahead, atail, line>>
      /\ storage' = [storage EXCEPT ![pos[t] % Capacity].sequence = pos[t] + Capacity]
  BY DEF Bound!Store, Bound!Slot
<1>2. pos[t] % Capacity \in 0 .. Capacity - 1 /\ \A p \in Nat : p % Capacity \in 0 .. Capacity - 1
  BY DEF BoundTypes
<1>3. Popping(t) /\ pos[t] \in Nat /\ pos[t] < atail /\ ahead <= pos[t] + Capacity
  BY <1>1 DEF BoundTypes, OwnersInv, Popping, Owns
<1>4. BoundTypes'
  <2>1. storage' \in [0 .. Capacity - 1 -> [sequence : Nat, item : Value \cup {Null}]]
    <3>1. pos[t] + Capacity \in Nat
      BY <1>3, Positions
    <3>2. storage[pos[t] % Capacity] \in [sequence : Nat, item : Value \cup {Null}]
      BY <1>2 DEF BoundTypes
    <3>3. [storage[pos[t] % Capacity] EXCEPT !.sequence = pos[t] + Capacity] \in [sequence : Nat, item : Value \cup {Null}]
      BY <3>1, <3>2
    <3> QED
      BY <1>1, <1>2, <3>3 DEF BoundTypes
  <2>2. at' \in [Threads -> Places] /\ op' \in [Threads -> [pushes : BOOLEAN, blocks : BOOLEAN]]
    BY <1>1 DEF BoundTypes, Places, Bound!Return, Bound!NoCall
  <2>3. pos' \in [Threads -> Nat] /\ item' \in [Threads -> Value \cup {Null}]
    BY <1>1 DEF BoundTypes, Bound!Return
  <2>4. \A u \in Threads : op'[u].pushes /\ at'[u] # "idle" => item'[u] \in Value
    BY <1>1 DEF BoundTypes, Bound!Return
  <2> QED
    BY <1>1, <2>1, <2>2, <2>3, <2>4 DEF BoundTypes
<1>5. \A u \in Threads \ {t} : at'[u] = at[u] /\ op'[u] = op[u] /\ pos'[u] = pos[u] /\ item'[u] = item[u]
  BY <1>1 DEF BoundTypes, Bound!Return
<1>6. at'[t] = "idle" /\ ~Owns(t)' /\ pos'[t] = 0
  BY <1>1 DEF BoundTypes, Bound!Return, Owns
<1>7. \A u \in Threads : Owns(u)' => u # t /\ Owns(u) /\ (Pushing(u)' <=> Pushing(u)) /\ (Popping(u)' <=> Popping(u))
  BY <1>5, <1>6 DEF Owns, Pushing, Popping
<1>8. \A u \in Threads \ {t} : (Pushing(u)' <=> Pushing(u)) /\ (Popping(u)' <=> Popping(u))
  BY <1>5 DEF Owns, Pushing, Popping
<1>9. ASSUME NEW p \in Nat, p # pos[t], p - pos[t] < Capacity, pos[t] - p < Capacity
      PROVE  storage'[p % Capacity] = SlotAt(p)
  <2>1. p % Capacity # pos[t] % Capacity
    BY <1>3, <1>9, SlotsApart
  <2> QED
    BY <1>1, <1>2, <2>1 DEF BoundTypes, SlotAt
<1>10. (pos[t] + Capacity) % Capacity = pos[t] % Capacity
  BY <1>3, SlotsOfNextRound
<1>11. OwnersInv'
  <2>1. ASSUME NEW u \in Threads, Pushing(u)'
        PROVE  /\ atail' <= pos'[u] /\ pos'[u] < ahead'
               /\ SlotAt(pos[u])'.sequence = pos'[u]
               /\ item'[u] = line'[pos'[u] - atail' + 1]
               /\ at'[u] = "store" => SlotAt(pos[u])'.item = item'[u]
    <3>1. u # t /\ Pushing(u)
      BY <1>7, <2>1 DEF Pushing
    <3>2. pos[u] \in Nat /\ atail <= pos[u] /\ pos[u] < ahead
      BY <3>1 DEF BoundTypes, OwnersInv
    <3>3. storage'[pos[u] % Capacity] = SlotAt(pos[u])
      BY <1>3, <1>9, <3>2, Positions
    <3>4. /\ SlotAt(pos[u]).sequence = pos[u] /\ item[u] = line[pos[u] - atail + 1]
          /\ at[u] = "store" => SlotAt(pos[u]).item = item[u]
      BY <3>1 DEF OwnersInv
    <3> QED
      BY <1>1, <1>5, <3>1, <3>2, <3>3, <3>4 DEF SlotAt
  <2>2. ASSUME NEW u \in Threads, Popping(u)'
        PROVE  /\ pos'[u] < atail' /\ ahead' <= pos'[u] + Capacity
               /\ SlotAt(pos[u])'.sequence = pos'[u] + 1
    <3>1. u # t /\ Popping(u) /\ Owns(u) /\ Owns(t)
      BY <1>3, <1>7, <2>2 DEF Popping
    <3>2. pos[u] \in Nat /\ pos[u] # pos[t] /\ pos[u] < atail /\ ahead <= pos[u] + Capacity
      BY <3>1 DEF BoundTypes, OwnersInv
    <3>3. storage'[pos[u] % Capacity] = SlotAt(pos[u])
      BY <1>3, <1>9, <3>2, Positions
    <3>4. SlotAt(pos[u]).sequence = pos[u] + 1
      BY <3>1 DEF OwnersInv
    <3> QED
      BY <1>1, <1>5, <3>1, <3>2, <3>3, <3>4 DEF SlotAt
  <2>3. ASSUME NEW u \in Threads, NEW v \in Threads, Owns(u)', Owns(v)', pos'[u] = pos'[v]
        PROVE  u = v
    BY <1>5, <1>7, <2>3 DEF OwnersInv
  <2> QED
    BY <2>1, <2>2, <2>3 DEF OwnersInv
<1>12. SlotsInv'
  <2>1. ASSUME NEW p \in Nat, atail <= p, p < ahead
        PROVE  \/ \E u \in Threads : Pushing(u)' /\ pos'[u] = p
               \/ storage'[p % Capacity] = [sequence |-> p + 1, item |-> line[p - atail + 1]]
    <3>1. storage'[p % Capacity] = SlotAt(p)
      BY <1>3, <1>9, <2>1, Positions
    <3>2. CASE \E u \in Threads : Pushing(u) /\ pos[u] = p
      BY <1>3, <1>5, <1>8, <3>2 DEF Pushing, Popping
    <3>3. CASE SlotAt(p) = [sequence |-> p + 1, item |-> line[p - atail + 1]]
      BY <3>1, <3>3
    <3> QED
      BY <2>1, <3>2, <3>3 DEF SlotsInv
  <2>2. ASSUME NEW p \in Nat, ahead <= p, p < atail + Capacity
        PROVE  \/ \E u \in Threads : Popping(u)' /\ pos'[u] + Capacity = p
               \/ storage'[p % Capacity].sequence = p
    <3>1. CASE p = pos[t] + Capacity
      BY <1>1, <1>2, <1>3, <1>10, <3>1 DEF BoundTypes
    <3>2. CASE p # pos[t] + Capacity
      <4>1. p % Capacity # pos[t] % Capacity
        <5>1. /\ pos[t] + Capacity \in Nat /\ p # pos[t] + Capacity
              /\ p - (pos[t] + Capacity) < Capacity /\ (pos[t] + Capacity) - p < Capacity
          BY <1>3, <2>2, <3>2, Positions
        <5> QED
          BY <1>10, <5>1, SlotsApart
      <4>2. storage'[p % Capacity] = SlotAt(p)
        BY <1>1, <1>2, <4>1 DEF BoundTypes, SlotAt
      <4>3. CASE \E u \in Threads : Popping(u) /\ pos[u] + Capacity = p
        BY <1>5, <1>8, <3>2, <4>3
      <4>4. CASE SlotAt(p).sequence = p
        BY <4>2, <4>4
      <4> QED
        BY <2>2, <4>3, <4>4 DEF SlotsInv
    <3> QED
      BY <3>1, <3>2
  <2> QED
    BY <1>1, <2>1, <2>2 DEF SlotsInv, SlotAt
<1>13. ASSUME NEW u \in Threads PROVE Informed(u)'
  <2>1. CASE u = t
    BY <1>4, <1>6, <2>1 DEF BoundTypes, Informed, Bound!Current
  <2>2. CASE u # t
    <3>1. at'[u] = at[u] /\ op'[u] = op[u] /\ pos'[u] = pos[u] /\ Informed(u)
      BY <1>5, <2>2 DEF ClaimInv
    <3>2. ASSUME at[u] = "exchange", pos[u] = Bound!Current(u)
          PROVE  storage'[pos[u] % Capacity] = SlotAt(pos[u])
      <4>1. SlotAt(pos[u]).sequence = Bound!Turn(u)
        BY <3>1, <3>2 DEF Informed
      <4>2. SlotAt(pos[t]).sequence = pos[t] + 1
        BY <1>3 DEF OwnersInv
      <4>3. CASE pos[u] % Capacity = pos[t] % Capacity
        <5>1. pos[t] + 1 = Bound!Turn(u)
          BY <4>1, <4>2, <4>3 DEF SlotAt
        <5>2. pos[u] = ahead /\ pos[t] + 1 = ahead
          BY <1>3, <3>2, <5>1 DEF BoundTypes, Bound!Current, Bound!Turn
        <5> QED
          BY <1>3, <4>3, <5>2, SlotsApart DEF BoundTypes
      <4>4. CASE pos[u] % Capacity # pos[t] % Capacity
        BY <1>1, <1>2, <4>4 DEF BoundTypes, SlotAt
      <4> QED
        BY <4>3, <4>4
    <3> QED
      BY <1>1, <3>1, <3>2 DEF Informed, SlotAt, Bound!Current, Bound!Turn
  <2> QED
    BY <2>1, <2>2
<1> QED
  BY <1>4, <1>11, <1>12, <1>13 DEF ClaimInv

(* The invariant is inductive. *)
LEMMA BoundStep == BoundInv /\ [Bound!Next]_bvars => BoundInv'
<1> SUFFICES ASSUME BoundInv, [Bound!Next]_bvars PROVE BoundInv'
  OBVIOUS
<1>1. ASSUME NEW t \in Threads, Bound!Proceed(t) PROVE BoundInv'
  BY <1>1, BoundLook, BoundPushClaim, BoundPopClaim, BoundData, BoundPushStore, BoundPopStore
     DEF Bound!Proceed
<1>2. CASE UNCHANGED bvars
  BY <1>2 DEF bvars, BoundInv, BoundTypes, OwnersInv, SlotsInv, ClaimInv, Informed, Owns, Pushing, Popping,
              SlotAt, Bound!Current, Bound!Turn
<1> QED
  BY <1>1, <1>2, BoundCall DEF Bound!Next

(* Every step of the bounded queue is one of the FIFO queue: the exchange of *)
(* a push appends its item, the exchange of a pop takes the oldest.          *)
LEMMA BoundSimulates == BoundInv /\ [Bound!Next]_bvars => [Bound!Bounded!FNext]_(Bound!Bounded!fvars)
<1> SUFFICES ASSUME BoundInv, [Bound!Next]_bvars
             PROVE  [Bound!Bounded!FNext]_(Bound!Bounded!fvars)
  OBVIOUS
<1>1. ASSUME NEW t \in Threads, Bound!Claim(t), op[t].pushes
      PROVE  Bound!Bounded!FNext
  <2>1. item[t] \in Value /\ line \in Seq(Value)
    BY <1>1 DEF BoundInv, BoundTypes, Bound!Claim, Bound!Goto
  <2>2. line' = line \o <<item[t]>> /\ UNCHANGED claimed
    BY <1>1, <2>1, AppendIsConcat DEF Bound!Claim
  <2> QED
    BY <2>1, <2>2 DEF Bound!Bounded!FNext, Bound!Bounded!FPush
<1>2. ASSUME NEW t \in Threads, Bound!Claim(t), ~op[t].pushes
      PROVE  Bound!Bounded!FNext
  <2>1. SlotAt(atail).item = line[1] /\ pos[t] = atail /\ atail < ahead
    BY <1>2, BoundPopReady
  <2>2. line # <<>> /\ Head(line) = line[1]
    BY <2>1, Positions DEF BoundInv, BoundTypes
  <2>3. line' = Tail(line) /\ claimed' = {SlotAt(atail).item}
    BY <1>2, <2>1 DEF Bound!Claim, Bound!Slot, SlotAt
  <2> QED
    BY <2>1, <2>2, <2>3 DEF Bound!Bounded!FNext, Bound!Bounded!FPop
<1>3. CASE UNCHANGED <<line, claimed>>
  BY <1>3 DEF Bound!Bounded!fvars
<1>4. ASSUME NEW t \in Threads, Bound!Proceed(t) PROVE Bound!Claim(t) \/ UNCHANGED <<line, claimed>>
  BY <1>4 DEF Bound!Proceed, Bound!Load, Bound!IsTurn, Bound!TooLate, Bound!TooEarly, Bound!Missed,
              Bound!Data, Bound!Store
<1> QED
  BY <1>1, <1>2, <1>3, <1>4 DEF Bound!Next, Bound!Pop, Bound!Push, bvars

(* The queue with a fixed number of slots is a FIFO queue, for any number of *)
(* slots but one, any threads and any items: positions are claimed for       *)
(* popping in the order in which they were claimed for pushing, each once,   *)
(* and the slot then holds the item of that push.                            *)
THEOREM BoundedQueueIsFIFO == QSpec => ImplementsBoundedFIFO
<1>1. QInit => BoundInv /\ Bound!Bounded!FInit
  BY BoundInit DEF QInit, Bound!Init, Bound!Bounded!FInit
<1>2. [QNext]_qvars => [Bound!Next]_bvars
  BY DEF QNext, qvars
<1>3. BoundInv /\ [QNext]_qvars => BoundInv'
  BY <1>2, BoundStep
<1>4. BoundInv /\ [QNext]_qvars => [Bound!Bounded!FNext]_(Bound!Bounded!fvars)
  BY <1>2, BoundSimulates
<1> QED
  BY <1>1, <1>3, <1>4, PTL DEF QSpec, ImplementsBoundedFIFO, Bound!ImplementsBoundedFIFO, Bound!Bounded!FSpec

-----------------------------------------------------------------------------
(* MPSCQueue.  The list that begins at _tail holds the queued items in       *)
(* order and, at place k, the stub; k = 0 while the stub is not in the list. *)

Length(k) == IF k = 0 THEN Len(queue) ELSE Len(queue) + 1
Nth(k, i) == IF k = 0 \/ i < k THEN queue[i] ELSE IF i = k THEN Stub ELSE queue[i - 1]

ListTypes ==
    /\ queue \in Seq(Item)
    /\ \A i, j \in 1 .. Len(queue) : queue[i] = queue[j] => i = j
    /\ next \in [Node -> Node \cup {Null}]
    /\ pc \in [Producers -> {"idle", "link"}]
    /\ prev \in [Producers -> Node \cup {Null}]
    /\ first \in [Producers -> Node \cup {Null}]

(* A next pointer leads to the next node of the list or is not yet set.      *)
ShapeInv(k) ==
    /\ k \in 0 .. Len(queue) + 1 /\ Length(k) # 0
    /\ tail = Nth(k, 1) /\ head = Nth(k, Length(k))
    /\ \A i \in 1 .. Length(k) - 1 : next[Nth(k, i)] \in {Null, Nth(k, i + 1)}
    /\ next[head] = Null

(* A producer between exchange and link is the only one to set its pointer.  *)
LinkInv(k) ==
    /\ \A p \in Producers : pc[p] = "link" =>
          /\ next[prev[p]] = Null
          /\ \E i \in 1 .. Length(k) - 1 : prev[p] = Nth(k, i) /\ first[p] = Nth(k, i + 1)
    /\ \A p, q \in Producers : pc[p] = "link" /\ pc[q] = "link" /\ prev[p] = prev[q] => p = q

(* What the consumer has read is still so, or was null and is set now.  It   *)
(* pushes the stub only while the stub is not in the list.                   *)
ConsumerInv(k) ==
    /\ cpc \notin {"idle", "more"} => ctail = tail
    /\ cpc \in {"first", "second", "third"} => cnext \in {Null, next[ctail]}
    /\ cpc \notin {"idle", "more", "first"} => ctail # Stub
    /\ cpc \in {"reset", "exchange"} => k = 0
    /\ cpc = "exchange" => next[Stub] = Null
    /\ cpc = "link" => /\ k > 1 /\ cprev = Nth(k, k - 1) /\ next[cprev] = Null
                       /\ \A p \in Producers : pc[p] = "link" => prev[p] # cprev

ChainInv(k) == ListTypes /\ ShapeInv(k) /\ LinkInv(k) /\ ConsumerInv(k)

ListInv == \E k \in Nat : ChainInv(k)

(* The nodes of the list are different ones, the stub is the k-th.           *)
LEMMA ListNodes ==
    ASSUME ListTypes, NEW k \in 0 .. Len(queue) + 1
    PROVE  /\ Len(queue) \in Nat /\ Length(k) \in Nat /\ Length(k) <= Len(queue) + 1
           /\ \A i \in 1 .. Length(k) : Nth(k, i) \in Node /\ (Nth(k, i) = Stub <=> i = k)
           /\ \A i, j \in 1 .. Length(k) : Nth(k, i) = Nth(k, j) => i = j
           /\ \A i \in 1 .. Length(k) : i # k => \E j \in 1 .. Len(queue) : Nth(k, i) = queue[j]
<1>1. Len(queue) \in Nat /\ \A i \in 1 .. Len(queue) : queue[i] \in Item
  BY DEF ListTypes
<1>2. Length(k) \in Nat /\ Length(k) <= Len(queue) + 1
  BY <1>1 DEF Length
<1>3. ASSUME NEW i \in 1 .. Length(k), i # k
      PROVE  \E j \in 1 .. Len(queue) : Nth(k, i) = queue[j]
  <2>1. CASE k = 0 \/ i < k
    BY <1>1, <2>1 DEF Nth, Length
  <2>2. CASE ~(k = 0 \/ i < k)
    BY <1>1, <1>3, <2>2 DEF Nth, Length
  <2> QED
    BY <2>1, <2>2
<1>4. ASSUME NEW i \in 1 .. Length(k)
      PROVE  Nth(k, i) \in Node /\ (Nth(k, i) = Stub <=> i = k)
  <2>1. CASE i = k
    BY <1>1, <2>1 DEF Nth, Node
  <2>2. CASE i # k
    BY <1>1, <1>3, <2>2, QueueAssumption DEF Node
  <2> QED
    BY <2>1, <2>2
<1>5. ASSUME NEW i \in 1 .. Length(k), NEW j \in 1 .. Length(k), Nth(k, i) = Nth(k, j)
      PROVE  i = j
  <2>1. CASE i = k \/ j = k
    BY <1>4, <1>5, <2>1
  <2>2. CASE i # k /\ j # k
    BY <1>1, <1>5, <2>2 DEF Nth, Length, ListTypes
  <2> QED
    BY <2>1, <2>2
<1> QED
  BY <1>1, <1>2, <1>3, <1>4, <1>5

(* The list of a new queue is the stub. *)
LEMMA ListInit == Init => ListInv
<1> SUFFICES ASSUME Init PROVE ChainInv(1)
  BY DEF ListInv
<1>1. ListTypes
  BY DEF Init, ListTypes, Node
<1>2. ShapeInv(1) /\ LinkInv(1) /\ ConsumerInv(1)
  BY DEF Init, ShapeInv, LinkInv, ConsumerInv, Length, Nth, Node
<1> QED
  BY <1>1, <1>2 DEF ChainInv

(* The list after a push of one item. *)
LEMMA NodesAppended ==
    ASSUME ListTypes, NEW k \in 0 .. Len(queue) + 1, NEW x \in Item, queue' = Append(queue, x)
    PROVE  /\ Length(k)' = Length(k) + 1
           /\ \A i \in Nat : i = Length(k) + 1 => Nth(k, i)' = x
           /\ \A i \in 1 .. Length(k) : Nth(k, i)' = Nth(k, i)
<1>1. /\ queue' \in Seq(Item) /\ Len(queue') = Len(queue) + 1 /\ queue'[Len(queue) + 1] = x
      /\ \A i \in 1 .. Len(queue) : queue'[i] = queue[i]
  BY AppendProperties DEF ListTypes
<1>2. Len(queue) \in Nat
  BY DEF ListTypes
<1>3. Length(k)' = Length(k) + 1 /\ \A i \in Nat : i = Length(k) + 1 => Nth(k, i)' = x
  BY <1>1, <1>2 DEF Length, Nth
<1>4. ASSUME NEW i \in 1 .. Length(k) PROVE Nth(k, i)' = Nth(k, i)
  BY <1>1, <1>2 DEF Length, Nth
<1> QED
  BY <1>3, <1>4

(* An item in front is given away. *)
LEMMA NodesPopped ==
    ASSUME ListTypes, queue # <<>>, queue' = Tail(queue), NEW k \in 0 .. Len(queue) + 1, k # 1,
           NEW m \in Nat, m = IF k = 0 THEN 0 ELSE k - 1
    PROVE  /\ m \in 0 .. Len(queue') + 1 /\ Length(m)' = Length(k) - 1
           /\ \A i \in 1 .. Length(k) - 1 : Nth(m, i)' = Nth(k, i + 1)
<1>1. /\ queue' \in Seq(Item) /\ Len(queue') = Len(queue) - 1 /\ Len(queue) \in Nat
      /\ \A i \in 1 .. Len(queue) - 1 : queue'[i] = queue[i + 1]
  BY HeadTailProperties DEF ListTypes
<1>2. m \in 0 .. Len(queue') + 1 /\ Length(m)' = Length(k) - 1
  BY <1>1 DEF Length
<1>3. ASSUME NEW i \in 1 .. Length(k) - 1 PROVE Nth(m, i)' = Nth(k, i + 1)
  BY <1>1 DEF Length, Nth
<1> QED
  BY <1>2, <1>3

(* The same for two items linked by the caller. *)
LEMMA TwoNodesAppended ==
    ASSUME ListTypes, NEW k \in 0 .. Len(queue) + 1, NEW x \in Item, NEW y \in Item,
           queue' = queue \o <<x, y>>
    PROVE  /\ Length(k)' = Length(k) + 2
           /\ \A i \in Nat : i = Length(k) + 1 => Nth(k, i)' = x /\ Nth(k, i + 1)' = y
           /\ \A i \in 1 .. Length(k) : Nth(k, i)' = Nth(k, i)
<1>1. <<x, y>> \in Seq(Item) /\ Len(<<x, y>>) = 2
  OBVIOUS
<1>2. /\ queue' \in Seq(Item) /\ Len(queue') = Len(queue) + 2
      /\ queue'[Len(queue) + 1] = x /\ queue'[Len(queue) + 2] = y
      /\ \A i \in 1 .. Len(queue) : queue'[i] = queue[i]
  BY <1>1, ConcatProperties DEF ListTypes
<1>3. Len(queue) \in Nat
  BY DEF ListTypes
<1>4. Length(k)' = Length(k) + 2
  BY <1>2, <1>3 DEF Length
<1>5. ASSUME NEW i \in Nat, i = Length(k) + 1 PROVE Nth(k, i)' = x /\ Nth(k, i + 1)' = y
  <2>1. CASE k = 0
    BY <1>2, <1>3, <1>5, <2>1 DEF Length, Nth
  <2>2. CASE k # 0
    <3>1. i = Len(queue) + 2 /\ ~(i < k) /\ i # k /\ ~(i + 1 < k) /\ i + 1 # k
      BY <1>3, <1>5, <2>2 DEF Length
    <3> QED
      BY <1>2, <1>3, <2>2, <3>1 DEF Nth
  <2> QED
    BY <2>1, <2>2
<1>6. ASSUME NEW i \in 1 .. Length(k) PROVE Nth(k, i)' = Nth(k, i)
  BY <1>2, <1>3 DEF Length, Nth
<1> QED
  BY <1>4, <1>5, <1>6

(* A producer's exchange lengthens the list by d nodes, all new. *)
Lengthens(k, n, d, p) ==
    /\ n = Length(k) /\ Length(k)' = n + d
    /\ \A i \in 1 .. n : Nth(k, i)' = Nth(k, i) /\ next'[Nth(k, i)] = next[Nth(k, i)]
    /\ next'[Stub] = next[Stub]
    /\ \A i \in n + 1 .. n + d - 1 : next'[Nth(k, i)'] \in {Null, Nth(k, i + 1)'}
    /\ head' = Nth(k, n + d)' /\ next'[head'] = Null
    /\ pc' = [pc EXCEPT ![p] = "link"] /\ prev' = [prev EXCEPT ![p] = head]
    /\ first' = [first EXCEPT ![p] = Nth(k, n + 1)']
    /\ UNCHANGED <<tail, cvars>>

(* Such an exchange keeps the list in order. *)
LEMMA ListLengthens ==
    ASSUME NEW k \in Nat, ChainInv(k), NEW n \in Nat, NEW d \in {1, 2}, NEW p \in Producers, pc[p] = "idle",
           Lengthens(k, n, d, p), ListTypes', Len(queue') >= Len(queue)
    PROVE  ChainInv(k)'
<1> USE DEF ChainInv
<1>1. k \in 0 .. Len(queue) + 1 /\ n # 0
  BY DEF Lengthens, ShapeInv
<1>2. /\ Len(queue) \in Nat /\ n <= Len(queue) + 1
      /\ \A i \in 1 .. n : Nth(k, i) \in Node /\ (Nth(k, i) = Stub <=> i = k)
      /\ \A i, j \in 1 .. n : Nth(k, i) = Nth(k, j) => i = j
  BY <1>1, ListNodes DEF Lengthens
<1>3. tail = Nth(k, 1) /\ head = Nth(k, n) /\ next[head] = Null
  BY DEF Lengthens, ShapeInv
<1>4. Len(queue') \in Nat /\ k \in 0 .. Len(queue') + 1
  BY <1>1, <1>2 DEF ListTypes
<1>5. ShapeInv(k)'
  <2>1. Length(k)' # 0 /\ tail' = Nth(k, 1)' /\ head' = Nth(k, Length(k))' /\ next'[head'] = Null
    BY <1>1, <1>3 DEF Lengthens
  <2>2. ASSUME NEW i \in 1 .. Length(k)' - 1 PROVE next'[Nth(k, i)'] \in {Null, Nth(k, i + 1)'}
    <3>1. CASE i < n
      <4>1. i \in 1 .. n /\ i + 1 \in 1 .. n /\ i \in 1 .. Length(k) - 1
        BY <2>2, <3>1 DEF Lengthens
      <4>2. next[Nth(k, i)] \in {Null, Nth(k, i + 1)}
        BY <4>1 DEF ShapeInv
      <4> QED
        BY <4>1, <4>2 DEF Lengthens
    <3>2. CASE i = n
      BY <1>1, <1>3, <3>2 DEF Lengthens
    <3>3. CASE i > n
      BY <2>2, <3>3 DEF Lengthens
    <3> QED
      BY <2>2, <3>1, <3>2, <3>3 DEF Lengthens
  <2> QED
    BY <1>4, <2>1, <2>2 DEF ShapeInv
<1>6. ASSUME NEW q \in Producers, q # p, pc'[q] = "link"
      PROVE  /\ pc[q] = "link" /\ prev'[q] = prev[q] /\ prev[q] # head /\ next'[prev[q]] = Null
             /\ \E i \in 1 .. Length(k)' - 1 : prev'[q] = Nth(k, i)' /\ first'[q] = Nth(k, i + 1)'
  <2>1. pc[q] = "link" /\ prev'[q] = prev[q] /\ first'[q] = first[q]
    BY <1>6 DEF Lengthens, ListTypes
  <2>2. PICK i \in 1 .. n - 1 : prev[q] = Nth(k, i) /\ first[q] = Nth(k, i + 1)
    BY <2>1 DEF LinkInv, Lengthens
  <2>3. i \in 1 .. n /\ i + 1 \in 1 .. n /\ i \in 1 .. Length(k)' - 1
    BY <2>2 DEF Lengthens
  <2>4. next[prev[q]] = Null
    BY <2>1 DEF LinkInv
  <2>5. prev[q] # head
    BY <1>1, <1>2, <1>3, <2>2, <2>3
  <2> QED
    BY <2>1, <2>2, <2>3, <2>4, <2>5 DEF Lengthens
<1>7. LinkInv(k)'
  <2>1. pc'[p] = "link" /\ prev'[p] = head /\ first'[p] = Nth(k, n + 1)' /\ next'[head] = Null
    BY <1>1, <1>3 DEF Lengthens, ListTypes
  <2>2. n \in 1 .. Length(k)' - 1 /\ head = Nth(k, n)'
    BY <1>1, <1>3 DEF Lengthens
  <2>3. ASSUME NEW q \in Producers, pc'[q] = "link"
        PROVE  /\ next'[prev'[q]] = Null
               /\ \E i \in 1 .. Length(k)' - 1 : prev'[q] = Nth(k, i)' /\ first'[q] = Nth(k, i + 1)'
    <3>1. CASE q = p
      BY <2>1, <2>2, <3>1
    <3>2. CASE q # p
      BY <1>6, <2>3, <3>2
    <3> QED
      BY <3>1, <3>2
  <2>4. ASSUME NEW q \in Producers, NEW r \in Producers, pc'[q] = "link", pc'[r] = "link", prev'[q] = prev'[r]
        PROVE  q = r
    <3>1. CASE q = p \/ r = p
      BY <1>6, <2>1, <2>4, <3>1
    <3>2. CASE q # p /\ r # p
      <4>1. pc[q] = "link" /\ pc[r] = "link" /\ prev[q] = prev[r]
        BY <1>6, <2>4, <3>2
      <4> QED
        BY <4>1 DEF LinkInv
    <3> QED
      BY <3>1, <3>2
  <2> QED
    BY <2>3, <2>4 DEF LinkInv
<1>8. ConsumerInv(k)'
  <2>1. next'[tail] = next[tail]
    <3>1. 1 \in 1 .. n
      BY <1>1
    <3> QED
      BY <1>3, <3>1 DEF Lengthens
  <2>2. ASSUME cpc = "link"
        PROVE  /\ k > 1 /\ cprev = Nth(k, k - 1)' /\ next'[cprev] = Null
               /\ \A q \in Producers : pc'[q] = "link" => prev'[q] # cprev
    <3>1. /\ k > 1 /\ cprev = Nth(k, k - 1) /\ next[cprev] = Null
          /\ \A q \in Producers : pc[q] = "link" => prev[q] # cprev
      BY <2>2 DEF ConsumerInv
    <3>2. n = Len(queue) + 1
      BY <3>1 DEF Lengthens, Length
    <3>3. k - 1 \in 1 .. n /\ k - 1 # n
      BY <1>1, <1>2, <3>1, <3>2
    <3>4. cprev = Nth(k, k - 1)' /\ next'[cprev] = Null
      BY <3>1, <3>3 DEF Lengthens
    <3>5. cprev # head
      BY <1>1, <1>2, <1>3, <3>1, <3>3
    <3>6. prev'[p] = head
      BY DEF Lengthens, ListTypes
    <3> QED
      BY <1>6, <3>1, <3>4, <3>5, <3>6
  <2> QED
    BY <2>1, <2>2 DEF ConsumerInv, Lengthens, cvars
<1> QED
  BY <1>5, <1>7, <1>8

(* push_back of one item is such an exchange, ... *)
LEMMA ListPush ==
    ASSUME NEW k \in Nat, ChainInv(k), NEW p \in Producers, NEW x \in Free, Push(p, x)
    PROVE  ChainInv(k)'
<1> USE DEF ChainInv
<1>1. k \in 0 .. Len(queue) + 1
  BY DEF ShapeInv
<1>2. PICK n \in Nat : n = Length(k)
  BY <1>1, ListNodes
<1>3. /\ \A i \in 1 .. n : Nth(k, i) \in Node /\ (Nth(k, i) = Stub <=> i = k)
      /\ \A i \in 1 .. n : i # k => \E j \in 1 .. Len(queue) : Nth(k, i) = queue[j]
  BY <1>1, <1>2, ListNodes
<1>4. x \in Item /\ x \in Node /\ x # Stub /\ \A j \in 1 .. Len(queue) : queue[j] # x
  BY QueueAssumption DEF Free, Node, ListTypes
<1>5. \A i \in 1 .. n : Nth(k, i) # x
  BY <1>3, <1>4
<1>6. queue' = Append(queue, x)
  BY DEF Push
<1>7. Length(k)' = n + 1 /\ Nth(k, n + 1)' = x /\ \A i \in 1 .. n : Nth(k, i)' = Nth(k, i)
  BY <1>1, <1>2, <1>4, <1>6, NodesAppended
<1>8. next' = [next EXCEPT ![x] = Null]
  BY DEF Push
<1>9. \A y \in Node : next'[y] = IF y = x THEN Null ELSE next[y]
  BY <1>8 DEF ListTypes
<1>10. Lengthens(k, n, 1, p)
  <2>1. \A i \in 1 .. n : next'[Nth(k, i)] = next[Nth(k, i)]
    BY <1>3, <1>5, <1>9
  <2>2. next'[Stub] = next[Stub] /\ next'[x] = Null
    BY <1>4, <1>9 DEF Node
  <2>3. \A i \in n + 1 .. n + 1 - 1 : next'[Nth(k, i)'] \in {Null, Nth(k, i + 1)'}
    OBVIOUS
  <2> QED
    BY <1>2, <1>7, <2>1, <2>2, <2>3 DEF Lengthens, Push
<1>11. /\ queue' \in Seq(Item) /\ Len(queue') = Len(queue) + 1 /\ queue'[Len(queue) + 1] = x
       /\ \A i \in 1 .. Len(queue) : queue'[i] = queue[i]
  BY <1>4, <1>6, AppendProperties DEF ListTypes
<1>12. ListTypes'
  <2>1. head \in Node
    <3>1. head = Nth(k, Length(k)) /\ Length(k) # 0
      BY DEF ShapeInv
    <3>2. head = Nth(k, n) /\ n \in 1 .. n
      BY ONLY <1>2, <3>1, n \in Nat
    <3> QED
      BY ONLY <1>3, <3>2
  <2>2. \A i, j \in 1 .. Len(queue') : queue'[i] = queue'[j] => i = j
    <3>1. Len(queue) \in Nat /\ \A i, j \in 1 .. Len(queue) : queue[i] = queue[j] => i = j
      BY DEF ListTypes
    <3>2. \A i \in 1 .. Len(queue') : i \in 1 .. Len(queue) \/ i = Len(queue) + 1
      BY ONLY <1>11, <3>1
    <3> QED
      BY ONLY <1>4, <1>11, <3>1, <3>2
  <2>3. next' \in [Node -> Node \cup {Null}]
    BY <1>8 DEF ListTypes
  <2>4. /\ pc' \in [Producers -> {"idle", "link"}] /\ prev' \in [Producers -> Node \cup {Null}]
        /\ first' \in [Producers -> Node \cup {Null}]
    BY <1>4, <2>1 DEF Push, ListTypes
  <2> QED
    BY <1>11, <2>2, <2>3, <2>4 DEF ListTypes
<1>13. pc[p] = "idle" /\ Len(queue') >= Len(queue)
  BY <1>11 DEF Push, ListTypes
<1> QED
  BY <1>10, <1>12, <1>13, ListLengthens

(* ... and so is push_back of two. *)
LEMMA ListPushLinked ==
    ASSUME NEW k \in Nat, ChainInv(k), NEW p \in Producers, NEW x \in Free, NEW y \in Free, x # y,
           PushLinked(p, x, y)
    PROVE  ChainInv(k)'
<1> USE DEF ChainInv
<1>1. k \in 0 .. Len(queue) + 1
  BY DEF ShapeInv
<1>2. PICK n \in Nat : n = Length(k)
  BY <1>1, ListNodes
<1>3. /\ \A i \in 1 .. n : Nth(k, i) \in Node /\ (Nth(k, i) = Stub <=> i = k)
      /\ \A i \in 1 .. n : i # k => \E j \in 1 .. Len(queue) : Nth(k, i) = queue[j]
  BY <1>1, <1>2, ListNodes
<1>4. /\ x \in Item /\ x \in Node /\ x # Stub /\ \A j \in 1 .. Len(queue) : queue[j] # x
      /\ y \in Item /\ y \in Node /\ y # Stub /\ \A j \in 1 .. Len(queue) : queue[j] # y
  BY QueueAssumption DEF Free, Node, ListTypes
<1>5. \A i \in 1 .. n : Nth(k, i) # x /\ Nth(k, i) # y
  BY <1>3, <1>4
<1>6. queue' = queue \o <<x, y>>
  BY DEF PushLinked
<1>7. /\ Length(k)' = n + 2 /\ Nth(k, n + 1)' = x /\ Nth(k, n + 2)' = y
      /\ \A i \in 1 .. n : Nth(k, i)' = Nth(k, i)
  <2>1. n + 1 \in Nat /\ (n + 1) + 1 = n + 2 /\ n + 1 = Length(k) + 1 /\ Length(k) + 2 = n + 2
    BY <1>2
  <2>2. /\ Length(k)' = Length(k) + 2
        /\ \A i \in Nat : i = Length(k) + 1 => Nth(k, i)' = x /\ Nth(k, i + 1)' = y
        /\ \A i \in 1 .. Length(k) : Nth(k, i)' = Nth(k, i)
    BY <1>1, <1>4, <1>6, TwoNodesAppended
  <2>3. Nth(k, n + 1)' = x /\ Nth(k, n + 1 + 1)' = y
    BY <2>1, <2>2
  <2> QED
    BY <1>2, <2>1, <2>2, <2>3
<1>8. next' = [next EXCEPT ![x] = y, ![y] = Null]
  BY DEF PushLinked
<1>9. \A z \in Node : next'[z] = IF z = y THEN Null ELSE IF z = x THEN y ELSE next[z]
  BY <1>4, <1>8 DEF ListTypes
<1>10. Lengthens(k, n, 2, p)
  <2>1. \A i \in 1 .. n : next'[Nth(k, i)] = next[Nth(k, i)]
    BY <1>3, <1>5, <1>9
  <2>2. next'[Stub] = next[Stub] /\ next'[x] = y /\ next'[y] = Null
    BY <1>4, <1>9 DEF Node
  <2>3. \A i \in n + 1 .. n + 2 - 1 : next'[Nth(k, i)'] \in {Null, Nth(k, i + 1)'}
    <3> SUFFICES ASSUME NEW i \in n + 1 .. n + 2 - 1 PROVE next'[Nth(k, i)'] = Nth(k, i + 1)'
      OBVIOUS
    <3>1. i = n + 1 /\ i + 1 = n + 2
      OBVIOUS
    <3> QED
      BY <1>7, <2>2, <3>1
  <2> QED
    BY <1>2, <1>7, <2>1, <2>2, <2>3 DEF Lengthens, PushLinked
<1>11. /\ queue' \in Seq(Item) /\ Len(queue') = Len(queue) + 2
       /\ queue'[Len(queue) + 1] = x /\ queue'[Len(queue) + 2] = y
       /\ \A i \in 1 .. Len(queue) : queue'[i] = queue[i]
  <2>1. <<x, y>> \in Seq(Item) /\ Len(<<x, y>>) = 2
    BY <1>4
  <2> QED
    BY <1>6, <2>1, ConcatProperties DEF ListTypes
<1>12. ListTypes'
  <2>1. head \in Node
    <3>1. head = Nth(k, Length(k)) /\ Length(k) # 0
      BY DEF ShapeInv
    <3>2. head = Nth(k, n) /\ n \in 1 .. n
      BY ONLY <1>2, <3>1, n \in Nat
    <3> QED
      BY ONLY <1>3, <3>2
  <2>2. \A i, j \in 1 .. Len(queue') : queue'[i] = queue'[j] => i = j
    <3>1. Len(queue) \in Nat
      BY DEF ListTypes
    <3>2. \A i \in 1 .. Len(queue') : i \in 1 .. Len(queue) \/ i = Len(queue) + 1 \/ i = Len(queue) + 2
      BY <1>11, <3>1
    <3> SUFFICES ASSUME NEW i \in 1 .. Len(queue'), NEW j \in 1 .. Len(queue'), queue'[i] = queue'[j]
                 PROVE  i = j
      OBVIOUS
    <3>3. CASE i \in 1 .. Len(queue) /\ j \in 1 .. Len(queue)
      <4>1. queue[i] = queue[j]
        BY <1>11, <3>3
      <4> QED
        BY <3>3, <4>1 DEF ListTypes
    <3>4. CASE i \in 1 .. Len(queue) /\ ~(j \in 1 .. Len(queue))
      BY <1>4, <1>11, <3>2, <3>4
    <3>5. CASE ~(i \in 1 .. Len(queue)) /\ j \in 1 .. Len(queue)
      BY <1>4, <1>11, <3>2, <3>5
    <3>6. CASE ~(i \in 1 .. Len(queue)) /\ ~(j \in 1 .. Len(queue))
      BY <1>11, <3>2, <3>6
    <3> QED
      BY <3>3, <3>4, <3>5, <3>6
  <2>3. next' \in [Node -> Node \cup {Null}]
    BY <1>4, <1>8 DEF ListTypes
  <2>4. /\ pc' \in [Producers -> {"idle", "link"}] /\ prev' \in [Producers -> Node \cup {Null}]
        /\ first' \in [Producers -> Node \cup {Null}]
    BY <1>4, <2>1 DEF PushLinked, ListTypes
  <2> QED
    BY <1>11, <2>2, <2>3, <2>4 DEF ListTypes
<1>13. pc[p] = "idle" /\ Len(queue') >= Len(queue)
  BY <1>11 DEF PushLinked, ListTypes
<1> QED
  BY <1>10, <1>12, <1>13, ListLengthens

(* prev->next(item) completes the list where it was broken. *)
LEMMA ListLink ==
    ASSUME NEW k \in Nat, ChainInv(k), NEW p \in Producers, Link(p)
    PROVE  ChainInv(k)'
<1> USE DEF ChainInv
<1>1. k \in 0 .. Len(queue) + 1
  BY DEF ShapeInv
<1>2. PICK n \in Nat : n = Length(k)
  BY <1>1, ListNodes
<1>3. /\ \A i \in 1 .. n : Nth(k, i) \in Node /\ (Nth(k, i) = Stub <=> i = k)
      /\ \A i, j \in 1 .. n : Nth(k, i) = Nth(k, j) => i = j
  BY <1>1, <1>2, ListNodes
<1>4. PICK m \in 1 .. n - 1 : prev[p] = Nth(k, m) /\ first[p] = Nth(k, m + 1)
  BY <1>2 DEF Link, LinkInv
<1>5. m \in 1 .. n /\ m + 1 \in 1 .. n /\ prev[p] \in Node /\ first[p] \in Node /\ next[prev[p]] = Null
  BY <1>3, <1>4 DEF Link, LinkInv
<1>6. /\ next' = [next EXCEPT ![prev[p]] = first[p]]
      /\ \A z \in Node : next'[z] = IF z = prev[p] THEN first[p] ELSE next[z]
  BY <1>5 DEF Link, ListTypes
<1>7. /\ \A i : Nth(k, i)' = Nth(k, i)
      /\ Length(k)' = n /\ UNCHANGED <<queue, head, tail, cpc, ctail, cnext, cprev>>
  BY <1>2 DEF Link, Nth, Length, cvars
<1>8. ListTypes'
  BY <1>5, <1>6, <1>7 DEF Link, ListTypes
<1>9. /\ pc'[p] = "idle"
      /\ \A q \in Producers \ {p} : pc'[q] = pc[q] /\ prev'[q] = prev[q] /\ first'[q] = first[q]
  BY DEF Link, ListTypes
<1>10. ShapeInv(k)'
  <2>1. ASSUME NEW i \in 1 .. n - 1 PROVE next'[Nth(k, i)] \in {Null, Nth(k, i + 1)}
    <3>1. i \in 1 .. n /\ next[Nth(k, i)] \in {Null, Nth(k, i + 1)}
      BY <1>2 DEF ShapeInv
    <3>2. CASE i = m
      BY <1>3, <1>4, <1>5, <1>6, <3>1, <3>2
    <3>3. CASE i # m
      BY <1>3, <1>4, <1>5, <1>6, <3>1, <3>3
    <3> QED
      BY <3>2, <3>3
  <2>2. next'[head] = Null
    <3>1. head = Nth(k, n) /\ n \in 1 .. n /\ n # m /\ next[head] = Null
      BY <1>2, <1>4 DEF ShapeInv
    <3> QED
      BY <1>3, <1>4, <1>5, <1>6, <3>1
  <2> QED
    BY <1>2, <1>7, <2>1, <2>2 DEF ShapeInv
<1>11. ASSUME NEW q \in Producers, pc'[q] = "link"
       PROVE  /\ q # p /\ pc[q] = "link" /\ prev'[q] = prev[q] /\ next'[prev[q]] = Null
              /\ \E i \in 1 .. n - 1 : prev'[q] = Nth(k, i) /\ first'[q] = Nth(k, i + 1)
  <2>1. q # p /\ pc[q] = "link" /\ prev'[q] = prev[q] /\ first'[q] = first[q]
    BY <1>9, <1>11
  <2>2. PICK i \in 1 .. n - 1 : prev[q] = Nth(k, i) /\ first[q] = Nth(k, i + 1)
    BY <1>2, <2>1 DEF LinkInv
  <2>3. prev[q] # prev[p] /\ next[prev[q]] = Null
    BY <2>1 DEF LinkInv, Link
  <2>4. prev[q] \in Node
    BY <1>3, <2>2
  <2> QED
    BY <1>6, <2>1, <2>2, <2>3, <2>4
<1>12. LinkInv(k)'
  BY <1>7, <1>11 DEF LinkInv
<1>13. ConsumerInv(k)'
  <2>1. tail \in Node
    <3>1. tail = Nth(k, 1) /\ Length(k) # 0
      BY DEF ShapeInv
    <3>2. 1 \in 1 .. n
      BY ONLY <1>2, <3>1, n \in Nat
    <3> QED
      BY ONLY <1>3, <3>1, <3>2
  <2>2. cnext \in {Null, next[tail]} => cnext \in {Null, next'[tail]}
    BY <1>5, <1>6, <2>1
  <2>3. cpc = "exchange" => next'[Stub] = Null
    <3>1. cpc = "exchange" => k = 0 /\ next[Stub] = Null
      BY DEF ConsumerInv
    <3>2. k = 0 => prev[p] # Stub
      BY <1>3, <1>4, <1>5
    <3> QED
      BY <1>6, <3>1, <3>2 DEF Node
  <2>4. ASSUME cpc = "link" PROVE next'[cprev] = Null
    <3>1. /\ k > 1 /\ cprev = Nth(k, k - 1) /\ next[cprev] = Null
          /\ \A q \in Producers : pc[q] = "link" => prev[q] # cprev
      BY <2>4 DEF ConsumerInv
    <3>2. k - 1 \in 1 .. n
      BY <1>1, <1>2, <3>1, ListNodes DEF Length
    <3> QED
      BY <1>3, <1>6, <3>1, <3>2 DEF Link
  <2> QED
    BY <1>7, <1>11, <2>2, <2>3, <2>4 DEF ConsumerInv
<1> QED
  BY <1>8, <1>10, <1>12, <1>13

(* The consumer takes the first node off the list, whose link is set.        *)
Shortens(k, m) ==
    /\ m \in 0 .. Len(queue') + 1 /\ Length(m)' = Length(k) - 1
    /\ \A i \in 1 .. Length(k) - 1 : Nth(m, i)' = Nth(k, i + 1)
    /\ tail' = next[tail] /\ next[tail] # Null
    /\ UNCHANGED <<head, next, pvars>>

(* The rest of the list is a list, and no producer was to link its first node. *)
LEMMA ListShortens ==
    ASSUME NEW k \in Nat, ChainInv(k), NEW m \in Nat, Shortens(k, m)
    PROVE  Length(k) > 1 /\ next[tail] = Nth(k, 2) /\ ShapeInv(m)' /\ LinkInv(m)'
<1> USE DEF ChainInv
<1>1. k \in 0 .. Len(queue) + 1
  BY DEF ShapeInv
<1>2. PICK n \in Nat : n = Length(k)
  BY <1>1, ListNodes
<1>3. \A i, j \in 1 .. n : Nth(k, i) = Nth(k, j) => i = j
  BY <1>1, <1>2, ListNodes
<1>4. n > 1 /\ tail = Nth(k, 1) /\ head = Nth(k, n) /\ next[head] = Null
  BY <1>2 DEF ShapeInv, Shortens
<1>5. next[tail] = Nth(k, 2)
  BY <1>2, <1>4 DEF ShapeInv, Shortens
<1>6. Length(m)' = n - 1 /\ \A i \in 1 .. n - 1 : Nth(m, i)' = Nth(k, i + 1)
  BY <1>2 DEF Shortens
<1>7. ShapeInv(m)'
  <2>1. Length(m)' # 0 /\ tail' = Nth(m, 1)' /\ next'[head'] = Null
    BY <1>4, <1>5, <1>6 DEF Shortens
  <2>2. head' = Nth(m, Length(m))'
    <3>1. n - 1 \in 1 .. n - 1 /\ n - 1 + 1 = n
      BY <1>4
    <3>2. Nth(m, n - 1)' = Nth(k, n)
      BY <1>6, <3>1
    <3> QED
      BY <1>4, <1>6, <3>2 DEF Shortens
  <2>3. ASSUME NEW i \in 1 .. n - 1 - 1 PROVE next'[Nth(m, i)'] \in {Null, Nth(m, i + 1)'}
    <3>1. i \in 1 .. n - 1 /\ i + 1 \in 1 .. n - 1
      OBVIOUS
    <3>2. next[Nth(k, i + 1)] \in {Null, Nth(k, i + 1 + 1)}
      BY <1>2, <3>1 DEF ShapeInv
    <3> QED
      BY <1>6, <3>1, <3>2 DEF Shortens
  <2> QED
    BY <1>6, <2>1, <2>2, <2>3 DEF ShapeInv, Shortens
<1>8. LinkInv(m)'
  <2>1. ASSUME NEW p \in Producers, pc[p] = "link"
        PROVE  \E i \in 1 .. n - 1 - 1 : prev[p] = Nth(m, i)' /\ first[p] = Nth(m, i + 1)'
    <3>1. PICK i \in 1 .. n - 1 : prev[p] = Nth(k, i) /\ first[p] = Nth(k, i + 1)
      BY <1>2, <2>1 DEF LinkInv
    <3>2. i # 1
      BY <1>4, <2>1, <3>1 DEF LinkInv, Shortens
    <3>3. i - 1 \in 1 .. n - 1 - 1 /\ i - 1 \in 1 .. n - 1 /\ i \in 1 .. n - 1 /\ i - 1 + 1 = i
      BY <3>1, <3>2
    <3>4. Nth(m, i - 1)' = Nth(k, i) /\ Nth(m, i - 1 + 1)' = Nth(k, i + 1)
      BY <1>6, <3>3
    <3> QED
      BY <3>1, <3>3, <3>4
  <2> QED
    BY <1>6, <2>1 DEF LinkInv, Shortens, pvars
<1> QED
  BY <1>2, <1>4, <1>5, <1>7, <1>8

(* The consumer steps over the stub. *)
LEMMA ListSkipStub ==
    ASSUME NEW k \in Nat, ChainInv(k), SkipStub
    PROVE  ChainInv(0)'
<1> USE DEF ChainInv
<1>1. k \in 0 .. Len(queue) + 1 /\ tail = Nth(k, 1) /\ Length(k) # 0
  BY DEF ShapeInv
<1>2. /\ Len(queue) \in Nat /\ Length(k) \in Nat
      /\ \A i \in 1 .. Length(k) : Nth(k, i) \in Node /\ (Nth(k, i) = Stub <=> i = k)
  BY <1>1, ListNodes
<1>3. ctail = tail /\ tail = Stub /\ cnext = next[tail] /\ next[tail] # Null
  BY DEF SkipStub, CGoto, ConsumerInv
<1>4. k = 1
  BY <1>1, <1>2, <1>3
<1>5. UNCHANGED queue /\ Length(0)' = Length(k) - 1
  BY <1>2, <1>4 DEF SkipStub, Length
<1>6. \A i \in 1 .. Length(k) - 1 : Nth(0, i)' = Nth(k, i + 1)
  BY <1>2, <1>4, <1>5 DEF Nth, Length
<1>7. Shortens(k, 0)
  BY <1>2, <1>3, <1>5, <1>6 DEF SkipStub, Shortens
<1>8. Length(k) > 1 /\ next[tail] = Nth(k, 2) /\ ShapeInv(0)' /\ LinkInv(0)'
  BY <1>7, ListShortens
<1>9. cnext # Stub
  BY <1>2, <1>3, <1>4, <1>8
<1>10. ListTypes'
  BY DEF SkipStub, ListTypes, pvars
<1>11. ConsumerInv(0)'
  BY <1>9 DEF SkipStub, CGoto, ConsumerInv
<1> QED
  BY <1>8, <1>10, <1>11

(* The consumer gives the first item away, which is the oldest one. *)
LEMMA ListPopItem ==
    ASSUME NEW k \in Nat, ChainInv(k), PopItem
    PROVE  queue # <<>> /\ ctail = Head(queue) /\ \E m \in Nat : ChainInv(m)'
<1> USE DEF ChainInv
<1>1. k \in 0 .. Len(queue) + 1 /\ tail = Nth(k, 1) /\ Length(k) # 0
  BY DEF ShapeInv
<1>2. /\ Len(queue) \in Nat /\ Length(k) \in Nat
      /\ \A i \in 1 .. Length(k) : Nth(k, i) = Stub <=> i = k
  BY <1>1, ListNodes
<1>3. ctail = tail /\ tail # Stub /\ cnext = next[tail] /\ next[tail] # Null
  BY DEF PopItem, ConsumerInv
<1>4. k # 1
  BY <1>1, <1>2, <1>3
<1>5. Len(queue) # 0 /\ tail = queue[1]
  BY <1>1, <1>2, <1>4 DEF Nth, Length
<1>6. queue # <<>> /\ Head(queue) = queue[1] /\ queue' = Tail(queue)
  BY <1>5 DEF ListTypes, PopItem, Return
<1>7. PICK m \in Nat : m = IF k = 0 THEN 0 ELSE k - 1
  BY <1>1
<1>8. /\ m \in 0 .. Len(queue') + 1 /\ Length(m)' = Length(k) - 1
      /\ \A i \in 1 .. Length(k) - 1 : Nth(m, i)' = Nth(k, i + 1)
  BY <1>1, <1>4, <1>6, <1>7, NodesPopped
<1>9. Shortens(k, m)
  BY <1>3, <1>8 DEF Shortens, PopItem
<1>10. ShapeInv(m)' /\ LinkInv(m)'
  BY <1>9, ListShortens
<1>11. ListTypes'
  <2>1. /\ queue' \in Seq(Item) /\ Len(queue') = Len(queue) - 1
        /\ \A i \in 1 .. Len(queue) - 1 : queue'[i] = queue[i + 1]
    BY <1>6, HeadTailProperties DEF ListTypes
  <2>2. ASSUME NEW i \in 1 .. Len(queue'), NEW j \in 1 .. Len(queue'), queue'[i] = queue'[j]
        PROVE  i = j
    <3>1. i + 1 \in 1 .. Len(queue) /\ j + 1 \in 1 .. Len(queue) /\ queue[i + 1] = queue[j + 1]
      BY <1>2, <2>1, <2>2
    <3>2. i + 1 = j + 1
      BY <3>1 DEF ListTypes
    <3> QED
      BY <1>2, <2>1, <3>2
  <2> QED
    BY <2>1, <2>2 DEF PopItem, ListTypes, pvars
<1>12. ConsumerInv(m)'
  BY DEF PopItem, ConsumerInv
<1> QED
  BY <1>3, <1>5, <1>6, <1>10, <1>11, <1>12

(* Steps of the consumer that only read. *)
LEMMA ListRead ==
    ASSUME NEW k \in Nat, ChainInv(k),
           PopBegin \/ PopAgain \/ PopEnough \/ PopNothing \/ IsLast \/ LinkPending \/ Reread \/ StillPending
    PROVE  ChainInv(k)'
<1> USE DEF ChainInv
<1>1. UNCHANGED <<head, tail, next, pc, prev, first, queue>>
  BY DEF PopBegin, PopAgain, PopEnough, PopNothing, IsLast, LinkPending, Reread, StillPending,
         ReturnNothing, pvars
<1>2. ListTypes' /\ ShapeInv(k)' /\ LinkInv(k)'
  <2>1. ListTypes'
    BY <1>1 DEF ListTypes
  <2>2. Length(k)' = Length(k) /\ \A i : Nth(k, i)' = Nth(k, i)
    BY <1>1 DEF Length, Nth
  <2>3. ShapeInv(k)'
    BY <1>1, <2>2 DEF ShapeInv
  <2>4. LinkInv(k)'
    BY <1>1, <2>2 DEF LinkInv
  <2> QED
    BY <2>1, <2>3, <2>4
<1>3. CASE PopBegin \/ PopAgain \/ Reread
  <2>1. ConsumerInv(k)'
    BY <1>1, <1>3 DEF PopBegin, PopAgain, Reread, ConsumerInv, CGoto
  <2> QED
    BY <1>2, <2>1
<1>4. CASE PopEnough \/ PopNothing \/ LinkPending \/ StillPending
  <2>1. cpc' = "idle"
    BY <1>4 DEF PopEnough, PopNothing, LinkPending, StillPending, ReturnNothing, CGoto
  <2>2. ConsumerInv(k)'
    BY <2>1 DEF ConsumerInv
  <2> QED
    BY <1>2, <2>2
<1>5. CASE IsLast
  <2>1. k \in 0 .. Len(queue) + 1 /\ Length(k) # 0 /\ tail = Nth(k, 1) /\ head = Nth(k, Length(k))
    BY DEF ShapeInv
  <2>2. /\ Len(queue) \in Nat /\ Length(k) \in Nat
        /\ \A i \in 1 .. Length(k) : Nth(k, i) = Stub <=> i = k
        /\ \A i, j \in 1 .. Length(k) : Nth(k, i) = Nth(k, j) => i = j
    BY <2>1, ListNodes
  <2>3. ctail = tail /\ head = tail /\ tail # Stub
    BY <1>5 DEF IsLast, ConsumerInv
  <2>4. Length(k) = 1
    <3>1. 1 \in 1 .. Length(k) /\ Length(k) \in 1 .. Length(k)
      BY <2>1, <2>2
    <3> QED
      BY <2>1, <2>2, <2>3, <3>1
  <2>5. k = 0
    BY <2>1, <2>2, <2>3, <2>4 DEF Length
  <2> QED
    BY <1>1, <1>2, <1>5, <2>3, <2>5 DEF IsLast, ConsumerInv
<1> QED
  BY <1>3, <1>4, <1>5

(* push_back(_end), in three steps: the stub's next pointer is cleared, ... *)
LEMMA ListStubReset ==
    ASSUME NEW k \in Nat, ChainInv(k), StubReset
    PROVE  ChainInv(k)'
<1> USE DEF ChainInv
<1>1. k = 0 /\ k \in 0 .. Len(queue) + 1 /\ cpc = "reset"
  BY DEF StubReset, CGoto, ConsumerInv, ShapeInv
<1>2. PICK n \in Nat : n = Length(k)
  BY <1>1, ListNodes
<1>3. \A i \in 1 .. n : Nth(k, i) \in Node /\ Nth(k, i) # Stub
  BY <1>1, <1>2, ListNodes
<1>4. \A z \in Node : next'[z] = IF z = Stub THEN Null ELSE next[z]
  BY DEF StubReset, ListTypes, Node
<1>5. /\ UNCHANGED <<head, tail, pc, prev, first, ctail, cprev, queue>> /\ cpc' = "exchange"
      /\ Length(k)' = n /\ \A i : Nth(k, i)' = Nth(k, i)
  BY <1>2 DEF StubReset, CGoto, pvars, Length, Nth
<1>6. ListTypes'
  BY <1>5 DEF StubReset, ListTypes, Node
<1>7. ShapeInv(k)'
  <2>1. head = Nth(k, n) /\ n \in 1 .. n
    BY <1>2 DEF ShapeInv
  <2>2. next'[head] = Null
    BY <1>3, <1>4, <2>1 DEF ShapeInv
  <2>3. ASSUME NEW i \in 1 .. n - 1 PROVE next'[Nth(k, i)] \in {Null, Nth(k, i + 1)}
    BY <1>2, <1>3, <1>4 DEF ShapeInv
  <2> QED
    BY <1>2, <1>5, <2>2, <2>3 DEF ShapeInv
<1>8. LinkInv(k)'
  <2>1. ASSUME NEW p \in Producers, pc[p] = "link"
        PROVE  /\ next'[prev[p]] = Null
               /\ \E i \in 1 .. n - 1 : prev[p] = Nth(k, i) /\ first[p] = Nth(k, i + 1)
    <3>1. PICK i \in 1 .. n - 1 : prev[p] = Nth(k, i) /\ first[p] = Nth(k, i + 1)
      BY <1>2, <2>1 DEF LinkInv
    <3>2. next[prev[p]] = Null /\ prev[p] \in Node
      BY <1>3, <2>1, <3>1 DEF LinkInv
    <3> QED
      BY <1>4, <3>1, <3>2
  <2> QED
    BY <1>5, <2>1 DEF LinkInv
<1>9. ConsumerInv(k)'
  BY <1>1, <1>4, <1>5 DEF ConsumerInv, Node
<1> QED
  BY <1>6, <1>7, <1>8, <1>9

(* The exchange puts the stub behind the last node, ... *)
LEMMA ListStubExchange ==
    ASSUME NEW k \in Nat, ChainInv(k), StubExchange
    PROVE  \E m \in Nat : ChainInv(m)'
<1> USE DEF ChainInv
<1>1. k = 0 /\ k \in 0 .. Len(queue) + 1 /\ cpc = "exchange" /\ next[Stub] = Null /\ ctail # Stub /\ ctail = tail
  BY DEF StubExchange, CGoto, ConsumerInv, ShapeInv
<1>2. PICK n \in Nat : n = Len(queue)
  BY DEF ListTypes
<1>3. n = Length(0) /\ n # 0 /\ tail = Nth(0, 1) /\ head = Nth(0, n) /\ next[head] = Null
  BY <1>1, <1>2 DEF Length, ShapeInv
<1>4. \A i, j \in 1 .. n : Nth(0, i) = Nth(0, j) => i = j
  BY <1>1, <1>3, ListNodes
<1>5. /\ UNCHANGED <<tail, next, pc, prev, first, ctail, queue>>
      /\ head' = Stub /\ cprev' = head /\ cpc' = "link"
  BY DEF StubExchange, CGoto, pvars
<1>6. /\ Length(n + 1)' = n + 1 /\ Nth(n + 1, n + 1)' = Stub
      /\ \A i \in 1 .. n : Nth(n + 1, i)' = Nth(0, i)
  BY <1>2, <1>5 DEF Length, Nth
<1>7. ShapeInv(n + 1)'
  <2>1. ASSUME NEW i \in 1 .. n PROVE next[Nth(0, i)] \in {Null, Nth(n + 1, i + 1)'}
    <3>1. CASE i = n
      BY <1>3, <3>1
    <3>2. CASE i # n
      <4>1. i \in 1 .. n - 1 /\ i + 1 \in 1 .. n
        BY <3>2
      <4>2. next[Nth(0, i)] \in {Null, Nth(0, i + 1)}
        BY <1>1, <1>3, <4>1 DEF ShapeInv
      <4> QED
        BY <1>6, <4>1, <4>2
    <3> QED
      BY <3>1, <3>2
  <2>2. tail' = Nth(n + 1, 1)' /\ head' = Nth(n + 1, n + 1)' /\ next'[head'] = Null
    BY <1>1, <1>3, <1>5, <1>6
  <2>3. /\ n + 1 \in 0 .. Len(queue') + 1 /\ Length(n + 1)' # 0
        /\ head' = Nth(n + 1, Length(n + 1))' /\ Length(n + 1)' - 1 = n
    BY <1>2, <1>5, <1>6, <2>2
  <2>4. ASSUME NEW i \in 1 .. Length(n + 1)' - 1
        PROVE  next'[Nth(n + 1, i)'] \in {Null, Nth(n + 1, i + 1)'}
    BY <1>5, <1>6, <2>1, <2>3
  <2> QED
    BY <2>2, <2>3, <2>4 DEF ShapeInv
<1>8. ASSUME NEW p \in Producers, pc[p] = "link"
      PROVE  /\ prev[p] # head
             /\ \E i \in 1 .. n : prev[p] = Nth(n + 1, i)' /\ first[p] = Nth(n + 1, i + 1)'
  <2>1. PICK i \in 1 .. n - 1 : prev[p] = Nth(0, i) /\ first[p] = Nth(0, i + 1)
    BY <1>1, <1>3, <1>8 DEF LinkInv
  <2>2. i \in 1 .. n /\ i + 1 \in 1 .. n /\ n \in 1 .. n /\ i # n
    BY <2>1
  <2> QED
    BY <1>3, <1>4, <1>6, <2>1, <2>2
<1>9. LinkInv(n + 1)'
  <2>1. Length(n + 1)' - 1 = n
    BY <1>6
  <2>2. ASSUME NEW p \in Producers, pc'[p] = "link"
        PROVE  /\ next'[prev'[p]] = Null
               /\ \E i \in 1 .. Length(n + 1)' - 1 : prev'[p] = Nth(n + 1, i)' /\ first'[p] = Nth(n + 1, i + 1)'
    <3>1. pc[p] = "link"
      BY <1>5, <2>2
    <3>2. next[prev[p]] = Null
      BY <3>1 DEF LinkInv
    <3> QED
      BY <1>5, <1>8, <2>1, <3>1, <3>2
  <2>3. ASSUME NEW p \in Producers, NEW q \in Producers, pc'[p] = "link", pc'[q] = "link", prev'[p] = prev'[q]
        PROVE  p = q
    BY <1>5, <2>3 DEF LinkInv
  <2> QED
    BY <2>2, <2>3 DEF LinkInv
<1>10. ConsumerInv(n + 1)'
  <2>1. n + 1 > 1 /\ n + 1 - 1 = n /\ head = Nth(n + 1, n)'
    BY <1>3, <1>6
  <2>2. cpc' = "link" /\ ctail' = tail' /\ ctail' # Stub
    BY <1>1, <1>5
  <2>3. n + 1 > 1 /\ cprev' = Nth(n + 1, (n + 1) - 1)' /\ next'[cprev'] = Null
    BY <1>3, <1>5, <2>1
  <2>4. \A p \in Producers : pc'[p] = "link" => prev'[p] # cprev'
    BY <1>5, <1>8
  <2> QED
    BY ONLY <2>2, <2>3, <2>4 DEF ConsumerInv
<1>11. ListTypes'
  BY <1>5 DEF ListTypes
<1> QED
  BY <1>7, <1>9, <1>10, <1>11

(* ... and the link completes the list. *)
LEMMA ListStubLink ==
    ASSUME NEW k \in Nat, ChainInv(k), StubLink
    PROVE  ChainInv(k)'
<1> USE DEF ChainInv
<1>1. /\ k \in 0 .. Len(queue) + 1 /\ cpc = "link" /\ k > 1 /\ cprev = Nth(k, k - 1)
      /\ ctail = tail /\ ctail # Stub
      /\ \A p \in Producers : pc[p] = "link" => prev[p] # cprev
  BY DEF StubLink, CGoto, ConsumerInv, ShapeInv
<1>2. PICK n \in Nat : n = Length(k)
  BY <1>1, ListNodes
<1>3. /\ \A i \in 1 .. n : Nth(k, i) \in Node /\ (Nth(k, i) = Stub <=> i = k)
      /\ \A i, j \in 1 .. n : Nth(k, i) = Nth(k, j) => i = j
  BY <1>1, <1>2, ListNodes
<1>4. k \in 1 .. n /\ k - 1 \in 1 .. n
  BY <1>1, <1>2, ListNodes DEF Length
<1>5. Nth(k, k) = Stub /\ cprev \in Node
  BY <1>1, <1>3, <1>4
<1>6. \A z \in Node : next'[z] = IF z = cprev THEN Stub ELSE next[z]
  BY <1>5 DEF StubLink, ListTypes
<1>7. /\ UNCHANGED <<head, tail, pc, prev, first, ctail, queue>> /\ cpc' = "reread"
      /\ Length(k)' = n /\ \A i : Nth(k, i)' = Nth(k, i)
  BY <1>2 DEF StubLink, CGoto, pvars, Length, Nth
<1>8. ListTypes'
  BY <1>5, <1>7 DEF StubLink, ListTypes, Node
<1>9. ShapeInv(k)'
  <2>1. head = Nth(k, n) /\ n \in 1 .. n /\ next[head] = Null
    BY <1>2 DEF ShapeInv
  <2>2. next'[head] = Null
    BY <1>1, <1>3, <1>4, <1>6, <2>1
  <2>3. ASSUME NEW i \in 1 .. n - 1 PROVE next'[Nth(k, i)] \in {Null, Nth(k, i + 1)}
    <3>1. i \in 1 .. n /\ next[Nth(k, i)] \in {Null, Nth(k, i + 1)}
      BY <1>2 DEF ShapeInv
    <3>2. CASE i = k - 1
      <4>1. i + 1 = k
        BY <1>4, <3>2
      <4> QED
        BY <1>1, <1>5, <1>6, <3>2, <4>1
    <3>3. CASE i # k - 1
      BY <1>1, <1>3, <1>4, <1>6, <3>1, <3>3
    <3> QED
      BY <3>2, <3>3
  <2> QED
    BY <1>2, <1>7, <2>2, <2>3 DEF ShapeInv
<1>10. LinkInv(k)'
  <2>1. ASSUME NEW p \in Producers, pc[p] = "link"
        PROVE  /\ next'[prev[p]] = Null
               /\ \E i \in 1 .. n - 1 : prev[p] = Nth(k, i) /\ first[p] = Nth(k, i + 1)
    <3>1. PICK i \in 1 .. n - 1 : prev[p] = Nth(k, i) /\ first[p] = Nth(k, i + 1)
      BY <1>2, <2>1 DEF LinkInv
    <3>2. next[prev[p]] = Null /\ prev[p] \in Node /\ prev[p] # cprev
      <4>1. i \in 1 .. n
        BY ONLY n \in Nat, i \in 1 .. n - 1
      <4>2. next[prev[p]] = Null
        BY <2>1 DEF LinkInv
      <4> QED
        BY <1>1, <1>3, <2>1, <3>1, <4>1, <4>2
    <3>3. next'[prev[p]] = Null
      BY <1>6, <3>2
    <3> QED
      BY <3>1, <3>3
  <2> QED
    BY <1>7, <2>1 DEF LinkInv
<1>11. ConsumerInv(k)'
  BY <1>1, <1>7 DEF ConsumerInv
<1> QED
  BY <1>8, <1>9, <1>10, <1>11

(* The invariant is inductive. *)
LEMMA ListStep == ListInv /\ [Next]_vars => ListInv'
<1> SUFFICES ASSUME NEW k \in Nat, ChainInv(k), [Next]_vars PROVE ListInv'
  BY DEF ListInv
<1>1. ASSUME Consumer PROVE ListInv'
  BY <1>1, ListSkipStub, ListPopItem, ListRead, ListStubReset, ListStubExchange, ListStubLink
     DEF Consumer, Pop, ListInv
<1>2. CASE UNCHANGED vars
  <2>1. ChainInv(k)'
    <3>1. UNCHANGED <<queue, next, pc, prev, first, head, tail, cpc, ctail, cnext, cprev>>
      BY <1>2 DEF vars, pvars, cvars
    <3>2. Length(k)' = Length(k) /\ \A i : Nth(k, i)' = Nth(k, i)
      BY <3>1 DEF Length, Nth
    <3>3. ListTypes'
      BY <3>1 DEF ChainInv, ListTypes
    <3>4. ShapeInv(k)'
      BY <3>1, <3>2 DEF ChainInv, ShapeInv
    <3>5. LinkInv(k)'
      BY <3>1, <3>2 DEF ChainInv, LinkInv
    <3>6. ConsumerInv(k)'
      BY <3>1, <3>2 DEF ChainInv, ConsumerInv
    <3> QED
      BY <3>3, <3>4, <3>5, <3>6 DEF ChainInv
  <2> QED
    BY <2>1 DEF ListInv
<1>3. ASSUME NEW p \in Producers, NEW x \in Free, Push(p, x) PROVE ListInv'
  BY <1>3, ListPush DEF ListInv
<1>4. ASSUME NEW p \in Producers, NEW x \in Free, NEW y \in Free, x # y, PushLinked(p, x, y) PROVE ListInv'
  BY <1>4, ListPushLinked DEF ListInv
<1>5. ASSUME NEW p \in Producers, Link(p) PROVE ListInv'
  BY <1>5, ListLink DEF ListInv
<1> QED
  BY <1>1, <1>2, <1>3, <1>4, <1>5 DEF Next

(* Every step of the list is one of the FIFO queue: the exchange of a push   *)
(* appends, and what pop_front returns is the oldest item.                   *)
LEMMA ListSimulates == ListInv /\ [Next]_vars => [FIFO!FNext]_(FIFO!fvars)
<1> SUFFICES ASSUME NEW k \in Nat, ChainInv(k), [Next]_vars PROVE [FIFO!FNext]_(FIFO!fvars)
  BY DEF ListInv
<1>1. ASSUME NEW p \in Producers, NEW x \in Free, Push(p, x) PROVE FIFO!FNext
  <2>1. x \in Item /\ queue \in Seq(Item)
    BY DEF Free, ChainInv, ListTypes
  <2>2. queue' = queue \o <<x>> /\ UNCHANGED taken
    BY <1>1, <2>1, AppendIsConcat DEF Push
  <2> QED
    BY <2>1, <2>2 DEF FIFO!FNext, FIFO!FPush
<1>2. ASSUME NEW p \in Producers, NEW x \in Free, NEW y \in Free, PushLinked(p, x, y) PROVE FIFO!FNext
  BY <1>2 DEF Free, PushLinked, FIFO!FNext, FIFO!FPush
<1>3. ASSUME PopItem PROVE FIFO!FNext
  BY <1>3, ListPopItem DEF PopItem, Return, FIFO!FNext, FIFO!FPop
<1>4. ASSUME \/ UNCHANGED vars \/ PopBegin \/ PopEnough \/ PopAgain \/ PopNothing \/ SkipStub \/ IsLast
             \/ LinkPending \/ StubReset \/ StubExchange \/ StubLink \/ Reread \/ StillPending
             \/ \E p \in Producers : Link(p)
      PROVE  UNCHANGED FIFO!fvars
  BY <1>4 DEF vars, PopBegin, PopEnough, PopAgain, PopNothing, SkipStub, IsLast, LinkPending, StubReset,
              StubExchange, StubLink, Reread, StillPending, ReturnNothing, Link, FIFO!fvars
<1> QED
  BY <1>1, <1>2, <1>3, <1>4 DEF Next, Consumer, Pop

(* It holds in every behaviour. *)
LEMMA ListInvariant == QSpec => []ListInv
<1>1. QInit => ListInv
  BY ListInit DEF QInit
<1>2. ListInv /\ [QNext]_qvars => ListInv'
  <2>1. [QNext]_qvars => [Next]_vars
    BY DEF QNext, qvars
  <2> QED
    BY <2>1, ListStep
<1> QED
  BY <1>1, <1>2, PTL DEF QSpec

(* A producer that still has to set prev->next sets it in the stub or in an  *)
(* item that is still queued, for any number of producers and items: the     *)
(* consumer gives no task away as long as a producer is going to write to it.*)
THEOREM ProducersLinkQueuedItems == QSpec => []LinksOnlyQueued
<1>1. ListInv => LinksOnlyQueued
  <2> SUFFICES ASSUME NEW k \in Nat, ChainInv(k), NEW p \in Producers, pc[p] = "link"
               PROVE  prev[p] = Stub \/ \E i \in DOMAIN queue : queue[i] = prev[p]
    BY DEF ListInv, LinksOnlyQueued
  <2>1. k \in 0 .. Len(queue) + 1
    BY DEF ChainInv, ShapeInv
  <2>2. PICK i \in 1 .. Length(k) - 1 : prev[p] = Nth(k, i)
    BY DEF ChainInv, LinkInv
  <2>3. i \in 1 .. Length(k)
    <3>1. Length(k) \in Nat
      BY <2>1, ListNodes DEF ChainInv
    <3> QED
      BY ONLY <3>1, i \in 1 .. Length(k) - 1
  <2>4. DOMAIN queue = 1 .. Len(queue)
    BY DEF ChainInv, ListTypes
  <2>5. CASE i = k
    BY <2>1, <2>2, <2>3, <2>5, ListNodes DEF ChainInv
  <2>6. CASE i # k
    <3>1. \E j \in 1 .. Len(queue) : Nth(k, i) = queue[j]
      BY <2>1, <2>3, <2>6, ListNodes DEF ChainInv
    <3> QED
      BY <2>2, <2>4, <3>1
  <2> QED
    BY <2>5, <2>6
<1> QED
  BY <1>1, ListInvariant, PTL

(* The pointers implement a FIFO queue, for any number of producers and      *)
(* items: pop_front returns every item once, in the order of the exchanges,  *)
(* wherever producers and the consumer are between two of their steps.       *)
THEOREM ListIsFIFO == QSpec => ImplementsFIFO
<1>1. QInit => FIFO!FInit
  BY DEF QInit, Init, FIFO!FInit
<1>2. ListInv /\ [QNext]_qvars => [FIFO!FNext]_(FIFO!fvars)
  <2>1. [QNext]_qvars => [Next]_vars
    BY DEF QNext, qvars
  <2> QED
    BY <2>1, ListSimulates
<1> QED
  BY <1>1, <1>2, ListInvariant, PTL DEF QSpec, ImplementsFIFO, FIFO!FSpec
=============================================================================
