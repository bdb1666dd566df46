---------------------------- MODULE RuntimeProofs ----------------------------
(* The runtime around the tasks.  No object is handed out twice, for every  *)
(* number of cores, chunks and objects per chunk, if no core pauses while   *)
(* another one refills.  Epochs protect reads, for every number of workers  *)
(* and objects, once the local epochs are those of a runtime that has run   *)
(* before.  And nothing is at work outside start_and_wait, for every number *)
(* of channels, every set of spawned tasks and every number of starts.      *)
EXTENDS TaskAllocator, Runtime, Integers, FiniteSetTheorems, TLAPS

-----------------------------------------------------------------------------
(* The task allocator. *)

(* What a runtime is configured with: see ConfigurationAssumption of Memory. *)
Configured ==
    /\ CoreCount \in Nat \ {0} /\ Chunks \in Nat /\ Objects \in Nat \ {0} /\ Modulus \in Nat
    /\ CoreCount <= Chunks /\ Chunks + 2 * CoreCount <= Modulus

Positions == {"idle", "fetch", "read", "exchange", "wait", "save", "store", "filled"}
Object == (Nat \X Nat) \X Nat

Types ==
    /\ next \in Nat /\ filling \in BOOLEAN /\ regions \in Nat \ {0}
    /\ pc \in [Cores -> Positions] /\ index \in [Cores -> Nat]
    /\ buffer \in [Slots -> Nat \X Nat]
    /\ free \in [Cores -> Seq(Object)] /\ used \in SUBSET Object

(* One core refills, and only when all chunks are taken; each core that has  *)
(* an index to read has one of its own, and nobody reads while chunks are    *)
(* stored.                                                                   *)
Protocol ==
    /\ \A c \in Cores : pc[c] \in {"save", "store", "filled"} => filling
    /\ \A c, d \in Cores :
          pc[c] \in {"save", "store", "filled"} /\ pc[d] \in {"save", "store", "filled"} => c = d
    /\ \A c \in Cores : pc[c] \in {"exchange", "save", "store"} => next >= Chunks
    /\ \A c \in Cores : pc[c] = "read" => index[c] < next /\ index[c] < Chunks
    /\ \A c, d \in Cores : pc[c] = "read" /\ pc[d] = "read" /\ index[c] = index[d] => c = d
    /\ \A c, d \in Cores : pc[c] = "store" => pc[d] # "read"
    /\ \A c \in Cores : pc[c] = "store" => index[c] <= Chunks

(* The buffer holds the chunks of the last region, up to the one that is     *)
(* stored next.                                                              *)
Stored ==
    \A i \in Slots : (\A c \in Cores : pc[c] = "store" => i < index[c]) => buffer[i] = <<regions, i>>

(* The counter is past the end once for every core in Over, and once more    *)
(* for cores that came too late before the flag was down.                    *)
Over == {c \in Cores : pc[c] \in {"exchange", "save", "store"} \/ (filling /\ pc[c] = "wait")}
Ahead == Cardinality(Over)
Filling == \E c \in Cores : pc[c] = "filled"
Slack == IF Filling THEN 0 ELSE CoreCount - 1
Bounded == next <= Chunks + Ahead + Slack

(* Objects in the hands of somebody come from a chunk that was read.         *)
Taken(o) ==
    /\ o[1][1] <= regions
    /\ o[1][1] = regions =>
          /\ o[1][2] < next /\ o[1][2] < Chunks
          /\ \A c \in Cores : pc[c] # "store" /\ (pc[c] = "read" => index[c] # o[1][2])
Held == used \cup {o \in Object : \E c \in Cores : \E i \in 1 .. Len(free[c]) : free[c][i] = o}
AllTaken == \A o \in Held : Taken(o)

Distinct ==
    /\ \A c \in Cores : \A i \in 1 .. Len(free[c]) : free[c][i] \notin used
    /\ \A c, d \in Cores : \A i \in 1 .. Len(free[c]), j \in 1 .. Len(free[d]) :
          free[c][i] = free[d][j] => c = d /\ i = j

-----------------------------------------------------------------------------
(* Counting. *)

LEMMA CoresFinite ==
    ASSUME Configured
    PROVE  IsFiniteSet(Cores) /\ Cardinality(Cores) = CoreCount
BY FS_Interval DEF Configured, Cores

LEMMA CoreSubset ==
    ASSUME Configured, NEW S \in SUBSET Cores
    PROVE  /\ IsFiniteSet(S) /\ Cardinality(S) \in 0 .. CoreCount
           /\ \A c \in Cores : c \notin S => Cardinality(S) <= CoreCount - 1
<1>1. IsFiniteSet(Cores) /\ Cardinality(Cores) = CoreCount
  BY CoresFinite
<1>2. IsFiniteSet(S) /\ Cardinality(S) <= CoreCount /\ Cardinality(S) \in Nat
  BY <1>1, FS_Subset, FS_CardinalityType
<1>3. ASSUME NEW c \in Cores, c \notin S PROVE Cardinality(S) <= CoreCount - 1
  <2>1. IsFiniteSet(Cores \ {c}) /\ Cardinality(Cores \ {c}) = CoreCount - 1 /\ S \subseteq Cores \ {c}
    BY <1>1, <1>3, FS_RemoveElement
  <2> QED
    BY <2>1, FS_Subset
<1> QED
  BY <1>2, <1>3 DEF Configured

LEMMA AheadBounded ==
    ASSUME Configured
    PROVE  /\ Ahead \in 0 .. CoreCount /\ Ahead' \in 0 .. CoreCount
           /\ \A c \in Cores : c \notin Over => Ahead <= CoreCount - 1
<1>1. Over \in SUBSET Cores /\ Over' \in SUBSET Cores
  BY DEF Over
<1> QED
  BY <1>1, CoreSubset DEF Ahead

(* One more core past the end, or the same ones or more. *)
LEMMA OneMore ==
    ASSUME Configured, NEW c \in Cores, c \notin Over, Over' = Over \cup {c}
    PROVE  Ahead' = Ahead + 1
<1>1. IsFiniteSet(Over)
  BY CoreSubset DEF Over
<1> QED
  BY <1>1, FS_AddElement DEF Ahead

LEMMA NoLess ==
    ASSUME Configured, Over \subseteq Over'
    PROVE  Ahead <= Ahead'
<1>1. IsFiniteSet(Over')
  BY CoreSubset DEF Over
<1> QED
  BY <1>1, FS_Subset DEF Ahead

LEMMA SmallModulo ==
    ASSUME NEW a \in Nat, NEW m \in Nat, a < m
    PROVE  a % m = a
OBVIOUS

(* The counter does not wrap. *)
LEMMA Fetched ==
    ASSUME Configured, Types, Bounded, NEW c \in Cores, FetchAdd(c)
    PROVE  next' = next + 1
<1>0. CoreCount \in Nat \ {0} /\ Chunks \in Nat /\ Ahead \in Nat /\ next \in Nat
  BY AheadBounded DEF Configured, Types
<1>1. c \notin Over
  BY DEF Types, Over, FetchAdd, Goto
<1>2. Slack \in 0 .. CoreCount - 1
  BY <1>0 DEF Slack
<1>3. next + 1 < Modulus
  BY <1>0, <1>1, <1>2, AheadBounded DEF Bounded, Configured
<1> QED
  BY <1>0, <1>3, SmallModulo DEF FetchAdd, Configured

LEMMA StepBounded ==
    ASSUME Configured, Prompt, Types, Protocol, Bounded, NEW c \in Cores, Proceed(c)
    PROVE  Bounded'
<1> USE DEF Goto, heap
<1>0. CoreCount \in Nat \ {0} /\ Chunks \in Nat /\ Ahead \in Nat /\ Ahead' \in Nat /\ next \in Nat
  BY AheadBounded DEF Configured, Types
<1>s. Slack \in 0 .. CoreCount - 1 /\ Slack' \in 0 .. CoreCount - 1
  BY <1>0 DEF Slack
<1>b. SUFFICES ASSUME NEW a, a = Ahead', NEW b, b = Slack' PROVE next' <= Chunks + a + b
  BY DEF Bounded
<1>c. a \in Nat /\ b \in Nat /\ b <= CoreCount - 1
  BY <1>0, <1>s, <1>b
<1>1. CASE FetchAdd(c)
  <2>1. c \notin Over
    BY <1>1 DEF Types, Over, FetchAdd
  <2>s. Slack' = Slack
    <3>1. Filling' <=> Filling
      BY <1>1 DEF Types, FetchAdd, Filling
    <3> QED
      BY <3>1 DEF Slack
  <2>3. next' = next + 1
    BY <1>1, Fetched
  <2>4. CASE next < Chunks
    BY <1>0, <1>c, <2>3, <2>4
  <2>5. CASE ~(next < Chunks)
    <3>1. Over' = Over \cup {c}
      BY <1>1, <2>5 DEF Types, Over, FetchAdd
    <3>2. Ahead' = Ahead + 1
      BY <2>1, <3>1, OneMore
    <3> QED
      BY <1>0, <1>s, <1>b, <2>s, <2>3, <3>2 DEF Bounded
  <2> QED
    BY <2>4, <2>5
<1>2. CASE ReadChunk(c) \/ Wait(c) \/ Save(c) \/ Store(c)
  <2>1. Over' = Over /\ next' = next
    BY <1>2 DEF Types, Over, ReadChunk, Wait, Save, Store
  <2>2. Filling' <=> Filling
    BY <1>2 DEF Types, Filling, ReadChunk, Wait, Save, Store
  <2>3. Slack' = Slack /\ Ahead' = Ahead
    BY <2>1, <2>2 DEF Slack, Ahead
  <2> QED
    BY <1>b, <2>1, <2>3 DEF Bounded
<1>3. CASE Exchange(c)
  <2>1. Over \subseteq Over' /\ next' = next
    BY <1>3 DEF Types, Over, Exchange
  <2>2. Filling' <=> Filling
    BY <1>3 DEF Types, Filling, Exchange
  <2>3. Slack' = Slack /\ Ahead <= Ahead'
    BY <2>1, <2>2, NoLess DEF Slack
  <2> QED
    <3>1. Ahead <= a /\ b = Slack
      BY <1>b, <2>3
    <3>2. next <= Chunks + Ahead + Slack /\ Slack \in Nat
      BY <1>0, <1>s DEF Bounded
    <3> QED
      BY <1>0, <1>c, <2>1, <3>1, <3>2
<1>6. CASE Restart(c)
  <2>1. next' = 0
    BY <1>6 DEF Types, Restart
  <2> QED
    BY <1>0, <1>c, <2>1
<1>7. CASE Filled(c)
  <2>1. Filling /\ c \notin Over /\ next' = next
    BY <1>7 DEF Types, Filled, Filling, Over
  <2>2. ~Filling'
    BY <1>7 DEF Types, Filled, Filling, Protocol
  <2>3. Slack = 0 /\ Slack' = CoreCount - 1
    BY <2>1, <2>2 DEF Slack
  <2>4. Ahead <= CoreCount - 1
    BY <2>1, AheadBounded
  <2> QED
    <3>1. b = CoreCount - 1
      BY <1>b, <2>3
    <3>2. next <= Chunks + Ahead
      BY <1>0, <2>3 DEF Bounded
    <3> QED
      BY <1>0, <1>c, <2>1, <2>4, <3>1, <3>2
<1> QED
  BY <1>1, <1>2, <1>3, <1>6, <1>7 DEF Proceed

-----------------------------------------------------------------------------
(* Types and the protocol of the refill. *)

LEMMA Chunk ==
    ASSUME Configured, NEW chunk \in Nat \X Nat
    PROVE  /\ Head(ObjectsOf(chunk)) = <<chunk, 1>>
           /\ ObjectsOf(chunk) \in Seq(Object) /\ Len(ObjectsOf(chunk)) = Objects
           /\ \A i \in 1 .. Objects : ObjectsOf(chunk)[i] = <<chunk, i>>
           /\ Tail(ObjectsOf(chunk)) \in Seq(Object) /\ Len(Tail(ObjectsOf(chunk))) = Objects - 1
           /\ \A i \in 1 .. Objects - 1 : Tail(ObjectsOf(chunk))[i] = <<chunk, i + 1>>
<1>1. \A i \in 1 .. Objects : <<chunk, i>> \in Object
  BY DEF Object, Configured
<1>2. ObjectsOf(chunk) \in Seq(Object) /\ Len(ObjectsOf(chunk)) = Objects
  BY <1>1 DEF ObjectsOf, Configured
<1>3. \A i \in 1 .. Objects : ObjectsOf(chunk)[i] = <<chunk, i>>
  BY DEF ObjectsOf
<1> HIDE DEF ObjectsOf, Object
<1>4. ObjectsOf(chunk) # <<>>
  BY <1>2 DEF Configured
<1>5. Head(ObjectsOf(chunk)) = <<chunk, 1>>
  BY <1>2, <1>3, <1>4 DEF Configured
<1>6. Tail(ObjectsOf(chunk)) \in Seq(Object) /\ Len(Tail(ObjectsOf(chunk))) = Objects - 1
  BY <1>2, <1>4 DEF Configured
<1>7. ASSUME NEW i \in 1 .. Objects - 1 PROVE Tail(ObjectsOf(chunk))[i] = <<chunk, i + 1>>
  <2>1. Tail(ObjectsOf(chunk))[i] = ObjectsOf(chunk)[i + 1]
    BY <1>2, <1>4 DEF Configured
  <2>2. i + 1 \in 1 .. Objects
    BY DEF Configured
  <2> QED
    BY <1>3, <2>1, <2>2
<1> QED
  BY <1>2, <1>3, <1>5, <1>6, <1>7

LEMMA InitTypes ==
    ASSUME Configured
    PROVE  Region(1) \in [Slots -> Nat \X Nat] /\ FirstObjects \in [Cores -> Seq(Object)]
<1>1. Region(1) \in [Slots -> Nat \X Nat]
  BY DEF Region, Slots, Configured
<1>2. \A c \in Cores : <<1, c - 1>> \in Nat \X Nat
  BY DEF Cores, Configured
<1> QED
  BY <1>1, <1>2, Chunk DEF FirstObjects

LEMMA StepTypes ==
    ASSUME Configured, Types, Protocol, NEW c \in Cores, Proceed(c)
    PROVE  Types'
<1> USE DEF Types, Goto, heap, Positions
<1>1. CASE FetchAdd(c)
  BY <1>1 DEF FetchAdd, Configured
<1>2. CASE ReadChunk(c)
  <2>1. buffer[index[c]] \in Nat \X Nat
    BY <1>2 DEF ReadChunk, Protocol, Slots, Configured
  <2>2. Tail(ObjectsOf(buffer[index[c]])) \in Seq(Object)
    BY <2>1, Chunk
  <2>3. Head(ObjectsOf(buffer[index[c]])) = <<buffer[index[c]], 1>>
    BY <2>1, Chunk
  <2>4. <<buffer[index[c]], 1>> \in Object
    BY <2>1 DEF Object
  <2> QED
    BY <1>2, <2>2, <2>3, <2>4 DEF ReadChunk
<1>3. CASE Exchange(c)
  BY <1>3 DEF Exchange
<1>4. CASE Wait(c)
  BY <1>4 DEF Wait
<1>7. CASE Filled(c)
  BY <1>7 DEF Filled
<1>8. CASE Restart(c)
  BY <1>8 DEF Restart
<1>5. CASE Save(c)
  BY <1>5 DEF Save
<1>6. CASE Store(c)
  <2>1. <<regions, index[c]>> \in Nat \X Nat
    OBVIOUS
  <2>2. buffer' \in [Slots -> Nat \X Nat]
    BY <1>6, <2>1 DEF Store
  <2> QED
    BY <1>6, <2>2 DEF Store
<1> QED
  BY <1>1, <1>2, <1>3, <1>4, <1>5, <1>6, <1>7, <1>8 DEF Proceed

LEMMA StepProtocol ==
    ASSUME Configured, Prompt, Types, Bounded, Protocol, NEW c \in Cores, Proceed(c)
    PROVE  Protocol'
<1> USE DEF Protocol, Types, Goto, heap
<1>1. CASE FetchAdd(c)
  <2>1. next' = next + 1 /\ filling' = filling
    BY <1>1, Fetched DEF FetchAdd
  <2>2. /\ pc' = [pc EXCEPT ![c] = IF next < Chunks THEN "read" ELSE "exchange"]
        /\ index' = [index EXCEPT ![c] = next] /\ pc[c] = "fetch"
    BY <1>1 DEF FetchAdd
  <2>3. CASE next < Chunks
    BY <2>1, <2>2, <2>3, SMTT(120) DEF Configured
  <2>4. CASE ~(next < Chunks)
    BY <2>1, <2>2, <2>4, SMTT(120) DEF Configured
  <2> QED
    BY <2>3, <2>4
<1>2. CASE ReadChunk(c)
  BY <1>2 DEF ReadChunk
<1>3. CASE Exchange(c)
  BY <1>3, SMTT(120) DEF Exchange
<1>4. CASE Wait(c)
  BY <1>4 DEF Wait
<1>5. CASE Save(c)
  BY <1>5, SMTT(120) DEF Save, Configured
<1>6. CASE Store(c)
  BY <1>6, SMTT(120) DEF Store, Configured
<1>7. CASE Restart(c)
  BY <1>7, SMTT(120) DEF Restart, Configured
<1>8. CASE Filled(c)
  BY <1>8, SMTT(120) DEF Filled
<1> QED
  BY <1>1, <1>2, <1>3, <1>4, <1>5, <1>6, <1>7, <1>8 DEF Proceed

LEMMA StepStored ==
    ASSUME Configured, Prompt, Types, Protocol, Stored, NEW c \in Cores, Proceed(c)
    PROVE  Stored'
<1> USE DEF Stored, Types, Goto, heap
<1>1. CASE FetchAdd(c) \/ ReadChunk(c) \/ Exchange(c) \/ Wait(c) \/ Filled(c)
  <2>1. buffer' = buffer /\ regions' = regions
    BY <1>1 DEF FetchAdd, ReadChunk, Exchange, Wait, Filled
  <2>2. \A d \in Cores : (pc'[d] = "store" <=> pc[d] = "store") /\ (pc[d] = "store" => index'[d] = index[d])
    BY <1>1 DEF FetchAdd, ReadChunk, Exchange, Wait, Filled
  <2> QED
    BY <2>1, <2>2
<1>2. CASE Save(c)
  <2>1. pc'[c] = "store" /\ index'[c] = 0
    BY <1>2 DEF Save
  <2> QED
    BY <2>1 DEF Slots, Configured
<1>3. CASE Store(c)
  <2> SUFFICES ASSUME NEW i \in Slots, \A d \in Cores : pc'[d] = "store" => i < index'[d]
               PROVE  buffer'[i] = <<regions', i>>
    OBVIOUS
  <2>1. pc' = pc /\ regions' = regions /\ pc[c] = "store" /\ index'[c] = index[c] + 1
    BY <1>3 DEF Store
  <2>2. CASE i = index[c]
    BY <1>3, <2>1, <2>2 DEF Store
  <2>3. CASE i # index[c]
    <3>1. buffer'[i] = buffer[i]
      BY <1>3, <2>3 DEF Store
    <3>2. i < index[c]
      BY <2>1, <2>3 DEF Slots, Configured
    <3>3. \A d \in Cores : pc[d] = "store" => d = c
      BY <2>1 DEF Protocol
    <3> QED
      BY <2>1, <3>1, <3>2, <3>3
  <2> QED
    BY <2>2, <2>3
<1>4. CASE Restart(c)
  <2>1. buffer' = buffer /\ regions' = regions /\ index[c] = Chunks
    BY <1>4 DEF Restart
  <2>2. \A d \in Cores : pc[d] = "store" => d = c
    BY <1>4 DEF Restart, Protocol
  <2>3. \A i \in Slots : i < Chunks
    BY DEF Slots, Configured
  <2> QED
    BY <2>1, <2>2, <2>3
<1> QED
  BY <1>1, <1>2, <1>3, <1>4 DEF Proceed

-----------------------------------------------------------------------------
(* The objects. *)

LEMMA Removed ==
    ASSUME NEW S, NEW s \in Seq(S), s # <<>>
    PROVE  /\ Head(s) \in S /\ Head(s) = s[1] /\ Len(s) \in Nat \ {0}
           /\ Tail(s) \in Seq(S) /\ Len(Tail(s)) = Len(s) - 1
           /\ \A i \in 1 .. Len(s) - 1 : i + 1 \in 1 .. Len(s) /\ Tail(s)[i] = s[i + 1]
OBVIOUS

LEMMA Prepended ==
    ASSUME NEW S, NEW s \in Seq(S), NEW e \in S
    PROVE  /\ <<e>> \o s \in Seq(S) /\ Len(<<e>> \o s) = Len(s) + 1 /\ Len(s) \in Nat
           /\ (<<e>> \o s)[1] = e
           /\ \A i \in 2 .. Len(s) + 1 : i - 1 \in 1 .. Len(s) /\ (<<e>> \o s)[i] = s[i - 1]
OBVIOUS

(* An object that was taken stays so. *)
LEMMA StaysTaken ==
    ASSUME Configured, Prompt, Types, Bounded, Protocol, NEW c \in Cores, Proceed(c),
           NEW o \in Object, Taken(o)
    PROVE  Taken(o)'
<1> USE DEF Taken, Types, Goto, heap
<1>0. o[1][1] \in Nat /\ o[1][2] \in Nat
  BY DEF Object
<1> HIDE DEF Object
<1>1. CASE FetchAdd(c)
  <2>1. next' = next + 1 /\ regions' = regions
    BY <1>1, Fetched DEF FetchAdd
  <2>2. /\ pc' = [pc EXCEPT ![c] = IF next < Chunks THEN "read" ELSE "exchange"]
        /\ index' = [index EXCEPT ![c] = next] /\ pc[c] = "fetch"
    BY <1>1 DEF FetchAdd
  <2>3. CASE o[1][1] # regions
    BY ONLY Taken(o), <2>1, <2>3
  <2>4. CASE o[1][1] = regions
    <3>1. \A d \in Cores \ {c} : pc'[d] = pc[d] /\ index'[d] = index[d]
      BY <2>2
    <3>2. index'[c] = next /\ pc'[c] # "store"
      BY <2>2
    <3> QED
      BY ONLY Taken(o), next \in Nat, <1>0, <2>1, <2>4, <3>1, <3>2
  <2> QED
    BY <2>3, <2>4
<1>2. CASE ReadChunk(c)
  BY <1>0, <1>2 DEF ReadChunk
<1>3. CASE Exchange(c)
  BY <1>0, <1>3 DEF Exchange
<1>4. CASE Wait(c)
  BY <1>0, <1>4 DEF Wait
<1>5. CASE Save(c)
  BY <1>0, <1>5 DEF Save
<1>6. CASE Store(c)
  BY <1>0, <1>6 DEF Store
<1>7. CASE Restart(c)
  BY <1>0, <1>7 DEF Restart
<1>8. CASE Filled(c)
  BY <1>0, <1>8 DEF Filled
<1> QED
  BY <1>1, <1>2, <1>3, <1>4, <1>5, <1>6, <1>7, <1>8 DEF Proceed

(* What a core reads from the buffer: a chunk of which nobody has an object. *)
LEMMA Read ==
    ASSUME Configured, Types, Protocol, Stored, NEW c \in Cores, pc[c] = "read"
    PROVE  \E chunk \in Nat \X Nat :
              /\ chunk = buffer[index[c]] /\ chunk = <<regions, index[c]>>
              /\ index[c] < next /\ index[c] < Chunks
              /\ \A n \in Nat : <<chunk, n>> \in Object /\ ~Taken(<<chunk, n>>)
<1>1. index[c] \in Slots /\ index[c] < next /\ index[c] < Chunks
  BY DEF Protocol, Types, Slots, Configured
<1>2. buffer[index[c]] = <<regions, index[c]>> /\ buffer[index[c]] \in Nat \X Nat
  BY <1>1 DEF Stored, Protocol, Types
<1>w. SUFFICES \A n \in Nat : <<buffer[index[c]], n>> \in Object /\ ~Taken(<<buffer[index[c]], n>>)
  BY <1>1, <1>2
<1>3. \A n \in Nat : <<buffer[index[c]], n>> \in Object
  BY <1>2 DEF Object
<1>4. \A n \in Nat : ~Taken(<<buffer[index[c]], n>>)
  BY <1>2 DEF Taken
<1> QED
  BY <1>3, <1>4

LEMMA HeldObjects ==
    ASSUME Types
    PROVE  /\ Held \subseteq Object
           /\ \A c \in Cores : \A i \in 1 .. Len(free[c]) : free[c][i] \in Held
<1>1. \A c \in Cores : \A i \in 1 .. Len(free[c]) : free[c][i] \in Object
  BY DEF Types
<1> QED
  BY <1>1 DEF Held, Types

LEMMA StepTaken ==
    ASSUME Configured, Prompt, Types, Bounded, Protocol, Stored, AllTaken, NEW c \in Cores, Proceed(c)
    PROVE  AllTaken'
<1>1. \A o \in Held : Taken(o)'
  BY HeldObjects, StaysTaken DEF AllTaken
<1>2. CASE ReadChunk(c)
  <2>1. /\ pc[c] = "read" /\ pc' = [pc EXCEPT ![c] = "idle"]
        /\ next' = next /\ regions' = regions /\ index' = index
        /\ free' = [free EXCEPT ![c] = Tail(ObjectsOf(buffer[index[c]]))]
        /\ used' = used \cup {Head(ObjectsOf(buffer[index[c]]))}
    BY <1>2 DEF ReadChunk, Goto, heap
  <2>2. PICK chunk \in Nat \X Nat :
              /\ chunk = buffer[index[c]] /\ chunk = <<regions, index[c]>>
              /\ index[c] < next /\ index[c] < Chunks
    BY <2>1, Read
  <2>3. ASSUME NEW n \in Nat PROVE Taken(<<chunk, n>>)'
    <3>1. \A d \in Cores : pc'[d] # "store" /\ (pc'[d] = "read" => index'[d] # index[c])
      BY <2>1 DEF Protocol, Types
    <3>2. chunk[1] = regions /\ chunk[2] = index[c]
      BY <2>2
    <3> QED
      BY <2>1, <2>2, <3>1, <3>2 DEF Taken, Types
  <2>4. /\ Head(ObjectsOf(chunk)) = <<chunk, 1>> /\ Len(Tail(ObjectsOf(chunk))) = Objects - 1
        /\ \A i \in 1 .. Objects - 1 : Tail(ObjectsOf(chunk))[i] = <<chunk, i + 1>> /\ i + 1 \in Nat
    <3>1. chunk \in Nat \X Nat
      BY <2>2
    <3>2. \A i \in 1 .. Objects - 1 : i + 1 \in Nat
      BY DEF Configured
    <3> QED
      BY ONLY Configured, <3>1, <3>2, Chunk
  <2>5. ASSUME NEW o \in Held' PROVE o \in Held \/ \E n \in Nat : o = <<chunk, n>>
    <3>1. CASE o \in used'
      BY <2>1, <2>2, <2>4, <3>1 DEF Held
    <3>2. ASSUME NEW d \in Cores, NEW i \in 1 .. Len(free'[d]), o = free'[d][i], o \in Object
          PROVE  o \in Held \/ \E n \in Nat : o = <<chunk, n>>
      <4>1. CASE d = c
        BY <2>1, <2>2, <2>4, <3>2, <4>1 DEF Types
      <4>2. CASE d # c
        BY <2>1, <3>2, <4>2 DEF Types, Held
      <4> QED
        BY <4>1, <4>2
    <3> QED
      BY <3>1, <3>2 DEF Held
  <2> QED
    BY <1>1, <2>3, <2>5 DEF AllTaken
<1>3. CASE ~ReadChunk(c)
  <2>1. free' = free /\ used' = used
    BY <1>3 DEF Proceed, FetchAdd, Exchange, Wait, Save, Store, Restart, Filled
  <2> QED
    BY <1>1, <2>1 DEF AllTaken, Held
<1> QED
  BY <1>2, <1>3

LEMMA StepDistinct ==
    ASSUME Configured, Types, Protocol, Stored, AllTaken, Distinct, NEW c \in Cores, Proceed(c)
    PROVE  Distinct'
<1>1. CASE ReadChunk(c)
  <2>1. /\ pc[c] = "read"
        /\ free' = [free EXCEPT ![c] = Tail(ObjectsOf(buffer[index[c]]))]
        /\ used' = used \cup {Head(ObjectsOf(buffer[index[c]]))}
    BY <1>1 DEF ReadChunk, Goto
  <2>2. PICK chunk \in Nat \X Nat :
              /\ chunk = buffer[index[c]]
              /\ \A n \in Nat : <<chunk, n>> \in Object /\ ~Taken(<<chunk, n>>)
    BY <2>1, Read
  <2>3. \A n \in Nat : <<chunk, n>> \notin Held
    BY <2>2 DEF AllTaken
  <2>4. /\ Head(ObjectsOf(chunk)) = <<chunk, 1>> /\ Len(Tail(ObjectsOf(chunk))) = Objects - 1
        /\ \A i \in 1 .. Objects - 1 : Tail(ObjectsOf(chunk))[i] = <<chunk, i + 1>>
    BY Chunk
  <2>5. used' = used \cup {<<chunk, 1>>} /\ free'[c] = Tail(ObjectsOf(chunk))
    BY <2>1, <2>2, <2>4 DEF Types
  <2>6. \A i \in 1 .. Len(free'[c]) : free'[c][i] = <<chunk, i + 1>> /\ i + 1 \in Nat /\ i \in Nat \ {0}
    <3>1. Len(free'[c]) = Objects - 1 /\ Objects \in Nat
      BY <2>4, <2>5 DEF Configured
    <3> SUFFICES ASSUME NEW i \in 1 .. Objects - 1
                 PROVE  free'[c][i] = <<chunk, i + 1>> /\ i + 1 \in Nat /\ i \in Nat \ {0}
      BY <3>1
    <3>2. i + 1 \in Nat /\ i \in Nat \ {0}
      BY <3>1
    <3> QED
      BY <2>4, <2>5, <3>2
  <2>7. \A d \in Cores : d # c => free'[d] = free[d]
    BY <2>1 DEF Types
  <2>8. ASSUME NEW d \in Cores, NEW i \in 1 .. Len(free'[d]) PROVE free'[d][i] \notin used'
    <3>1. CASE d = c
      <4>1. <<chunk, i + 1>> \notin used /\ i + 1 # 1
        <5>1. i \in Nat \ {0} /\ i + 1 \in Nat
          BY <2>6, <2>8, <3>1
        <5>2. <<chunk, i + 1>> \notin Held
          BY <2>3, <5>1
        <5> QED
          BY <5>1, <5>2 DEF Held
      <4>2. free'[d][i] = <<chunk, i + 1>>
        BY <2>6, <2>8, <3>1
      <4>3. <<chunk, i + 1>> # <<chunk, 1>>
        BY <4>1
      <4> QED
        BY <2>5, <4>1, <4>2, <4>3
    <3>2. CASE d # c
      <4>1. i \in 1 .. Len(free[d]) /\ free'[d][i] = free[d][i] /\ free[d][i] \in Held
        BY <2>7, <2>8, <3>2, HeldObjects
      <4>2. free[d][i] # <<chunk, 1>> /\ free[d][i] \notin used
        BY <2>3, <4>1 DEF Distinct
      <4> QED
        BY <2>5, <4>1, <4>2
    <3> QED
      BY <3>1, <3>2
  <2>9. ASSUME NEW d \in Cores, NEW e \in Cores,
               NEW i \in 1 .. Len(free'[d]), NEW j \in 1 .. Len(free'[e]),
               free'[d][i] = free'[e][j]
        PROVE  d = e /\ i = j
    <3>1. CASE d = c /\ e = c
      <4>1. <<chunk, i + 1>> = <<chunk, j + 1>>
        BY <2>6, <2>9, <3>1
      <4>2. i \in Nat /\ j \in Nat
        BY <2>6, <3>1
      <4> QED
        BY <3>1, <4>1, <4>2
    <3>2. CASE d = c /\ e # c
      <4>1. free'[d][i] = <<chunk, i + 1>> /\ i + 1 \in Nat
        BY <2>6, <3>2
      <4>2. free'[e][j] \in Held
        BY <2>7, <3>2, HeldObjects
      <4> QED
        BY <2>3, <2>9, <4>1, <4>2
    <3>3. CASE d # c /\ e = c
      <4>1. free'[e][j] = <<chunk, j + 1>> /\ j + 1 \in Nat
        BY <2>6, <3>3
      <4>2. free'[d][i] \in Held
        BY <2>7, <3>3, HeldObjects
      <4> QED
        BY <2>3, <2>9, <4>1, <4>2
    <3>4. CASE d # c /\ e # c
      BY <2>7, <2>9, <3>4 DEF Distinct
    <3> QED
      BY <3>1, <3>2, <3>3, <3>4
  <2> QED
    BY <2>8, <2>9 DEF Distinct
<1>2. CASE ~ReadChunk(c)
  <2>1. free' = free /\ used' = used
    BY <1>2 DEF Proceed, FetchAdd, Exchange, Wait, Save, Store, Restart, Filled
  <2> QED
    BY <2>1 DEF Distinct
<1> QED
  BY <1>1, <1>2

-----------------------------------------------------------------------------
(* The inductive invariant. *)

IInv == Types /\ Protocol /\ Stored /\ Bounded /\ AllTaken /\ Distinct

LEMMA AllocateInvariant ==
    ASSUME IInv, NEW c \in Cores, Allocate(c)
    PROVE  IInv'
<1> DEFINE s == free[c]
<1>1. /\ s # <<>> /\ s \in Seq(Object)
      /\ used' = used \cup {Head(s)} /\ free' = [free EXCEPT ![c] = Tail(s)]
      /\ UNCHANGED <<buffer, next, filling, retired, regions, pc, index>>
  BY DEF Allocate, heap, IInv, Types
<1>2. /\ Head(s) \in Object /\ Head(s) = s[1] /\ Len(s) \in Nat \ {0}
      /\ Tail(s) \in Seq(Object) /\ Len(Tail(s)) = Len(s) - 1
      /\ \A i \in 1 .. Len(s) - 1 : i + 1 \in 1 .. Len(s) /\ Tail(s)[i] = s[i + 1]
  BY <1>1, Removed
<1>3. free'[c] = Tail(s) /\ \A d \in Cores : d # c => free'[d] = free[d]
  BY <1>1 DEF IInv, Types
<1>4. \A d \in Cores : \A i \in 1 .. Len(free'[d]) :
         \E k \in 1 .. Len(free[d]) : /\ free'[d][i] = free[d][k]
                                      /\ k = IF d = c THEN i + 1 ELSE i
  <2> SUFFICES ASSUME NEW d \in Cores, NEW i \in 1 .. Len(free'[d])
               PROVE  \E k \in 1 .. Len(free[d]) : /\ free'[d][i] = free[d][k]
                                                   /\ k = IF d = c THEN i + 1 ELSE i
    OBVIOUS
  <2>1. CASE d = c
    BY <1>2, <1>3, <2>1
  <2>2. CASE d # c
    BY <1>3, <2>2
  <2> QED
    BY <2>1, <2>2
<1> HIDE DEF s
<1>5. Types'
  BY <1>1, <1>2 DEF IInv, Types
<1>6. Protocol' /\ Stored' /\ Bounded'
  BY <1>1 DEF IInv, Protocol, Stored, Bounded, Ahead, Over, Slack, Filling
<1>7. AllTaken'
  <2>1. Held' \subseteq Held
    <3>1. Head(s) \in Held
      BY <1>1, <1>2, HeldObjects DEF s, IInv
    <3>2. ASSUME NEW d \in Cores, NEW i \in 1 .. Len(free'[d]) PROVE free'[d][i] \in Held
      <4>1. PICK k \in 1 .. Len(free[d]) : free'[d][i] = free[d][k]
        BY <1>4
      <4> QED
        BY <4>1, HeldObjects DEF IInv
    <3>3. used \subseteq Held
      BY DEF Held
    <3>4. used' \subseteq Held
      BY <1>1, <3>1, <3>3
    <3>5. ASSUME NEW o \in Held' PROVE o \in used' \/ \E d \in Cores : \E i \in 1 .. Len(free'[d]) : free'[d][i] = o
      BY <3>5 DEF Held
    <3> QED
      BY <3>2, <3>4, <3>5
  <2>2. \A o \in Held : Taken(o)'
    BY <1>1 DEF IInv, AllTaken, Taken
  <2> QED
    BY <2>1, <2>2 DEF AllTaken
<1>8. Distinct'
  <2>1. ASSUME NEW d \in Cores, NEW i \in 1 .. Len(free'[d]) PROVE free'[d][i] \notin used'
    <3>1. PICK k \in 1 .. Len(free[d]) : free'[d][i] = free[d][k] /\ k = IF d = c THEN i + 1 ELSE i
      BY <1>4
    <3>2. free[d][k] \notin used
      BY DEF IInv, Distinct
    <3>3. 1 \in 1 .. Len(free[c])
      BY <1>2 DEF s
    <3>4. free[d][k] # free[c][1]
      BY <3>1, <3>3 DEF IInv, Distinct
    <3> QED
      BY <1>1, <1>2, <3>1, <3>2, <3>4 DEF s
  <2>2. ASSUME NEW d \in Cores, NEW e \in Cores,
               NEW i \in 1 .. Len(free'[d]), NEW j \in 1 .. Len(free'[e]),
               free'[d][i] = free'[e][j]
        PROVE  d = e /\ i = j
    <3>1. PICK k \in 1 .. Len(free[d]) : free'[d][i] = free[d][k] /\ k = IF d = c THEN i + 1 ELSE i
      BY <1>4
    <3>2. PICK l \in 1 .. Len(free[e]) : free'[e][j] = free[e][l] /\ l = IF e = c THEN j + 1 ELSE j
      BY <1>4
    <3>3. d = e /\ k = l
      <4>1. free[d][k] = free[e][l]
        BY <2>2, <3>1, <3>2
      <4> QED
        BY <4>1 DEF IInv, Distinct
    <3> QED
      BY <3>1, <3>2, <3>3
  <2> QED
    BY <2>1, <2>2 DEF Distinct
<1> QED
  BY <1>5, <1>6, <1>7, <1>8 DEF IInv

LEMMA FreeInvariant ==
    ASSUME IInv, NEW c \in Cores, NEW object \in used, Free(c, object)
    PROVE  IInv'
<1> DEFINE s == free[c]
<1>1. /\ s \in Seq(Object) /\ object \in Object
      /\ used' = used \ {object} /\ free' = [free EXCEPT ![c] = <<object>> \o s]
      /\ UNCHANGED <<buffer, next, filling, retired, regions, pc, index>>
  BY DEF Free, heap, IInv, Types
<1>2. /\ <<object>> \o s \in Seq(Object) /\ Len(<<object>> \o s) = Len(s) + 1 /\ Len(s) \in Nat
      /\ (<<object>> \o s)[1] = object
      /\ \A i \in 2 .. Len(s) + 1 : i - 1 \in 1 .. Len(s) /\ (<<object>> \o s)[i] = s[i - 1]
  BY <1>1, Prepended
<1>3. free'[c] = <<object>> \o s /\ \A d \in Cores : d # c => free'[d] = free[d]
  BY <1>1 DEF IInv, Types
<1>4. ASSUME NEW d \in Cores, NEW i \in 1 .. Len(free'[d])
      PROVE  \/ d = c /\ i = 1 /\ free'[d][i] = object
             \/ \E k \in 1 .. Len(free[d]) : /\ free'[d][i] = free[d][k]
                                             /\ k = IF d = c THEN i - 1 ELSE i
  <2>1. CASE d = c /\ i = 1
    BY <1>2, <1>3, <2>1
  <2>2. CASE d = c /\ i # 1
    <3>1. i \in 2 .. Len(s) + 1
      BY <1>2, <1>3, <1>4, <2>2
    <3> QED
      BY <1>2, <1>3, <2>2, <3>1
  <2>3. CASE d # c
    BY <1>3, <2>3
  <2> QED
    BY <2>1, <2>2, <2>3
<1> HIDE DEF s
<1>5. Types'
  BY <1>1, <1>2 DEF IInv, Types
<1>6. Protocol' /\ Stored' /\ Bounded'
  BY <1>1 DEF IInv, Protocol, Stored, Bounded, Ahead, Over, Slack, Filling
<1>7. AllTaken'
  <2>1. Held' \subseteq Held
    BY <1>1, <1>4 DEF Held
  <2>2. \A o \in Held : Taken(o)'
    BY <1>1 DEF IInv, AllTaken, Taken
  <2> QED
    BY <2>1, <2>2 DEF AllTaken
<1>8. Distinct'
  <2>0. \A d \in Cores : \A k \in 1 .. Len(free[d]) : free[d][k] \notin used /\ free[d][k] # object
    BY DEF IInv, Distinct
  <2>1. ASSUME NEW d \in Cores, NEW i \in 1 .. Len(free'[d]) PROVE free'[d][i] \notin used'
    BY <1>1, <1>4, <2>0
  <2>2. ASSUME NEW d \in Cores, NEW e \in Cores,
               NEW i \in 1 .. Len(free'[d]), NEW j \in 1 .. Len(free'[e]),
               free'[d][i] = free'[e][j]
        PROVE  d = e /\ i = j
    <3>1. CASE free'[d][i] = object
      <4>1. /\ ~\E k \in 1 .. Len(free[d]) : free'[d][i] = free[d][k]
            /\ ~\E k \in 1 .. Len(free[e]) : free'[e][j] = free[e][k]
        BY <2>0, <2>2, <3>1
      <4>2. d = c /\ i = 1
        BY <1>4, <4>1
      <4>3. e = c /\ j = 1
        BY <1>4, <4>1
      <4> QED
        BY <4>2, <4>3
    <3>2. CASE free'[d][i] # object
      <4>1. PICK k \in 1 .. Len(free[d]) : free'[d][i] = free[d][k] /\ k = IF d = c THEN i - 1 ELSE i
        BY <1>4, <3>2
      <4>2. PICK l \in 1 .. Len(free[e]) : free'[e][j] = free[e][l] /\ l = IF e = c THEN j - 1 ELSE j
        BY <1>4, <2>2, <3>2
      <4>3. d = e /\ k = l
        <5>1. free[d][k] = free[e][l]
          BY <2>2, <4>1, <4>2
        <5> QED
          BY <5>1 DEF IInv, Distinct
      <4> QED
        BY <4>1, <4>2, <4>3
    <3> QED
      BY <3>1, <3>2
  <2> QED
    BY <2>1, <2>2 DEF Distinct
<1> QED
  BY <1>5, <1>6, <1>7, <1>8 DEF IInv

LEMMA FillBufferInvariant ==
    ASSUME IInv, NEW c \in Cores, FillBuffer(c)
    PROVE  IInv'
<1>1. /\ pc[c] = "idle" /\ pc' = [pc EXCEPT ![c] = "fetch"]
      /\ UNCHANGED <<buffer, next, filling, retired, regions, index, free, used>>
  BY DEF FillBuffer, Goto, heap
<1>2. Types'
  BY <1>1 DEF IInv, Types, Positions
<1>3. Protocol'
  BY <1>1 DEF IInv, Protocol, Types
<1>4. Stored'
  BY <1>1 DEF IInv, Stored, Types
<1>5. Bounded'
  <2>1. Over' = Over
    BY <1>1 DEF IInv, Types, Over
  <2>2. Filling' <=> Filling
    BY <1>1 DEF IInv, Types, Filling
  <2>3. Slack' = Slack /\ Ahead' = Ahead
    BY <2>1, <2>2 DEF Slack, Ahead
  <2> QED
    BY <1>1, <2>3 DEF IInv, Bounded
<1>6. AllTaken' /\ Distinct'
  <2>1. \A o \in Held : Taken(o)'
    BY <1>1 DEF IInv, Types, AllTaken, Taken
  <2>2. free' = free /\ used' = used
    BY <1>1
  <2>3. Held' = Held
    BY <2>2 DEF Held
  <2>4. Distinct'
    BY <2>2 DEF IInv, Distinct
  <2> QED
    BY <2>1, <2>3, <2>4 DEF AllTaken
<1> QED
  BY <1>2, <1>3, <1>4, <1>5, <1>6 DEF IInv

LEMMA ProceedInvariant ==
    ASSUME Configured, Prompt, IInv, NEW c \in Cores, Proceed(c)
    PROVE  IInv'
BY StepTypes, StepProtocol, StepStored, StepBounded, StepTaken, StepDistinct DEF IInv

LEMMA InitInvariant ==
    ASSUME Configured
    PROVE  Init => IInv
<1> SUFFICES ASSUME Init PROVE IInv
  OBVIOUS
<1>1. Types
  <2>1. buffer \in [Slots -> Nat \X Nat] /\ free \in [Cores -> Seq(Object)]
    <3>1. buffer = Region(1) /\ free = FirstObjects
      BY DEF Init
    <3> QED
      BY <3>1, InitTypes
  <2>2. next \in Nat /\ regions \in Nat \ {0}
    BY DEF Init, Configured
  <2>4. filling \in BOOLEAN
    BY DEF Init
  <2>5. used \in SUBSET Object
    BY DEF Init
  <2>3. pc \in [Cores -> Positions] /\ index \in [Cores -> Nat]
    BY DEF Init, Positions
  <2> QED
    BY <2>1, <2>2, <2>3, <2>4, <2>5 DEF Types
<1>2. Protocol
  BY DEF Init, Protocol
<1>3. Stored
  BY DEF Init, Stored, Region
<1>4. Bounded
  <2>1. ~Filling /\ Ahead \in Nat /\ CoreCount \in Nat \ {0} /\ Chunks \in Nat
    BY AheadBounded DEF Init, Filling, Configured
  <2>2. Slack = CoreCount - 1 /\ next = CoreCount /\ CoreCount <= Chunks
    BY <2>1 DEF Slack, Init, Configured
  <2> QED
    BY <2>1, <2>2 DEF Bounded
<1>5. \A c \in Cores : /\ <<1, c - 1>> \in Nat \X Nat /\ c - 1 < CoreCount /\ c - 1 < Chunks
                       /\ c - 1 \in Nat
  BY DEF Cores, Configured
<1>6. \A c \in Cores : Len(free[c]) = Objects /\ \A i \in 1 .. Objects : free[c][i] = <<<<1, c - 1>>, i>>
  BY <1>5, Chunk DEF Init, FirstObjects
<1>7. AllTaken
  <2> SUFFICES ASSUME NEW c \in Cores, NEW i \in 1 .. Objects PROVE Taken(<<<<1, c - 1>>, i>>)
    BY <1>6 DEF AllTaken, Held, Init
  <2> DEFINE o == <<<<1, c - 1>>, i>>
  <2>1. o[1][1] = 1 /\ o[1][2] = c - 1
    OBVIOUS
  <2> HIDE DEF o
  <2>2. Taken(o)
    <3>1. regions = 1 /\ next = CoreCount /\ \A d \in Cores : pc[d] = "idle"
      BY DEF Init
    <3>2. o[1][1] <= regions /\ o[1][2] < next /\ o[1][2] < Chunks
      <4>1. c - 1 < CoreCount /\ c - 1 < Chunks
        BY <1>5
      <4>2. o[1][1] <= regions
        BY <2>1, <3>1
      <4>3. o[1][2] < next
        BY <2>1, <3>1, <4>1
      <4>4. o[1][2] < Chunks
        BY <2>1, <4>1
      <4> QED
        BY <4>2, <4>3, <4>4
    <3> QED
      BY <3>1, <3>2 DEF Taken
  <2> QED
    BY <2>2 DEF o
<1>8. Distinct
  <2>1. ASSUME NEW c \in Cores, NEW d \in Cores, NEW i \in 1 .. Objects, NEW j \in 1 .. Objects,
               <<<<1, c - 1>>, i>> = <<<<1, d - 1>>, j>>
        PROVE  c = d /\ i = j
    <3>1. c - 1 = d - 1 /\ i = j
      BY <2>1
    <3> QED
      BY <3>1 DEF Cores, Configured
  <2> QED
    BY <1>6, <2>1 DEF Distinct, Init
<1> QED
  BY <1>1, <1>2, <1>3, <1>4, <1>7, <1>8 DEF IInv

LEMMA Rebuilt ==
    ASSUME IInv, Rebuild
    PROVE  Init'
<1>1. pc = [c \in Cores |-> "idle"]
  BY DEF IInv, Types, Rebuild
<1> QED
  BY <1>1 DEF Rebuild, Init

(* The life of the allocators of a process, one after the other. *)
Allocators == Init /\ [][Next \/ Rebuild]_vars

LEMMA Invariant ==
    ASSUME Configured, Prompt
    PROVE  Allocators => []IInv
<1>1. Init => IInv
  BY InitInvariant
<1>2. ASSUME IInv, [Next \/ Rebuild]_vars PROVE IInv'
  <2>1. CASE Next
    BY <1>2, <2>1, AllocateInvariant, FillBufferInvariant, ProceedInvariant, FreeInvariant DEF Next
  <2>2. CASE Rebuild
    <3>1. Init'
      BY <1>2, <2>2, Rebuilt
    <3>2. Init' => IInv'
      BY <1>1, PTL
    <3> QED
      BY <3>1, <3>2
  <2>3. CASE UNCHANGED vars
    <3>1. UNCHANGED <<buffer, next, filling, retired, regions, pc, index, free, used>>
      BY <2>3 DEF vars, heap
    <3>2. Types' /\ Protocol'
      BY <1>2, <3>1 DEF IInv, Types, Protocol
    <3>3. Stored'
      BY <1>2, <3>1 DEF IInv, Stored
    <3>4. Distinct'
      BY <1>2, <3>1 DEF IInv, Distinct
    <3>5. Bounded'
      BY <1>2, <3>1 DEF IInv, Bounded, Ahead, Over, Slack, Filling
    <3>6. Held' = Held /\ \A o \in Held : Taken(o) => Taken(o)'
      BY <3>1 DEF Held, Taken
    <3>7. AllTaken'
      BY <1>2, <3>6 DEF IInv, AllTaken
    <3> QED
      BY <3>2, <3>3, <3>4, <3>5, <3>7 DEF IInv
  <2> QED
    BY <1>2, <2>1, <2>2, <2>3
<1> QED
  BY <1>1, <1>2, PTL DEF Allocators

LEMMA Disjoint == Types /\ Distinct => ObjectsDistinct
<1> SUFFICES ASSUME Types, Distinct PROVE ObjectsDistinct
  OBVIOUS
<1>1. \A c \in Cores : DOMAIN free[c] = 1 .. Len(free[c])
  BY DEF Types
<1>2. ASSUME NEW c \in Cores, NEW i \in DOMAIN free[c], NEW j \in DOMAIN free[c], free[c][i] = free[c][j]
      PROVE  i = j
  <2>1. i \in 1 .. Len(free[c]) /\ j \in 1 .. Len(free[c])
    BY <1>1
  <2> QED
    BY <1>2, <2>1 DEF Distinct
<1>3. ASSUME NEW c \in Cores, NEW o \in Range(free[c]) PROVE o \notin used
  <2>1. PICK i \in DOMAIN free[c] : o = free[c][i]
    BY DEF Range
  <2>2. i \in 1 .. Len(free[c])
    BY <1>1
  <2> QED
    BY <2>1, <2>2 DEF Distinct
<1>4. ASSUME NEW c \in Cores, NEW d \in Cores, NEW o \in Range(free[c]), o \in Range(free[d])
      PROVE  c = d
  <2>1. PICK i \in DOMAIN free[c], j \in DOMAIN free[d] : o = free[c][i] /\ o = free[d][j]
    BY <1>4 DEF Range
  <2>2. i \in 1 .. Len(free[c]) /\ j \in 1 .. Len(free[d])
    BY <1>1
  <2> QED
    BY <2>1, <2>2 DEF Distinct
<1>5. \A c \in Cores : IsInjective(free[c])
  BY <1>2 DEF IsInjective
<1>6. \A c \in Cores : Range(free[c]) \cap used = {}
  BY <1>3
<1>7. \A c, d \in Cores : c # d => Range(free[c]) \cap Range(free[d]) = {}
  BY <1>4
<1> QED
  BY <1>5, <1>6, <1>7 DEF ObjectsDistinct

(* However many cores share the chunks of a region, whatever their size, and *)
(* however often the runtime builds a new one, CoreHeap::allocate hands      *)
(* out no task twice, as long as no core is paused between fetch_add and the *)
(* read of its chunk, or the exchange of the flag, while another one refills.*)
THEOREM TasksAreDistinct ==
    ASSUME Configured, Prompt
    PROVE  Allocators => []ObjectsDistinct
<1>1. IInv => ObjectsDistinct
  BY Disjoint DEF IInv
<1> QED
  BY <1>1, Invariant, PTL

(* The same for the one allocator of Spec. *)
THEOREM ObjectsAreDistinct ==
    ASSUME Configured, Prompt
    PROVE  Spec => []ObjectsDistinct
<1>1. [Next]_vars => [Next \/ Rebuild]_vars
  OBVIOUS
<1> QED
  BY <1>1, TasksAreDistinct, PTL DEF Spec, Allocators

-----------------------------------------------------------------------------
(* The regions. *)

(* What is kept for the destructor: all chunks of all regions but the last.  *)
Kept ==
    /\ retired \in Seq(Nat \X Nat)
    /\ Len(retired) = (regions - 1) * Chunks
    /\ Firsts(retired) = 1 .. regions - 1

LEMMA FirstsOf ==
    ASSUME NEW chunks, NEW r
    PROVE  r \in Firsts(chunks) <=> \E j \in DOMAIN chunks : chunks[j][2] = 0 /\ chunks[j][1] = r
BY DEF Firsts

LEMMA Joined ==
    ASSUME NEW S, NEW s \in Seq(S), NEW t \in Seq(S)
    PROVE  s \o t \in Seq(S) /\ Len(s \o t) = Len(s) + Len(t)
OBVIOUS

LEMMA FirstsOfTwo ==
    ASSUME NEW s \in Seq(Nat \X Nat), NEW t \in Seq(Nat \X Nat)
    PROVE  Firsts(s \o t) = Firsts(s) \cup Firsts(t)
<1>1. \A j \in DOMAIN s : j \in DOMAIN (s \o t) /\ (s \o t)[j] = s[j]
  OBVIOUS
<1>2. \A j \in DOMAIN t : j + Len(s) \in DOMAIN (s \o t) /\ (s \o t)[j + Len(s)] = t[j]
  OBVIOUS
<1>3. \A j \in DOMAIN (s \o t) :
         \/ j \in DOMAIN s /\ (s \o t)[j] = s[j]
         \/ j - Len(s) \in DOMAIN t /\ (s \o t)[j] = t[j - Len(s)]
  OBVIOUS
<1>4. ASSUME NEW r PROVE r \in Firsts(s \o t) <=> r \in Firsts(s) \/ r \in Firsts(t)
  <2> DEFINE u == s \o t
  <2>1. /\ \A j \in DOMAIN s : j \in DOMAIN u /\ u[j] = s[j]
        /\ \A j \in DOMAIN t : j + Len(s) \in DOMAIN u /\ u[j + Len(s)] = t[j]
        /\ \A j \in DOMAIN u : \/ j \in DOMAIN s /\ u[j] = s[j]
                               \/ j - Len(s) \in DOMAIN t /\ u[j] = t[j - Len(s)]
    BY <1>1, <1>2, <1>3
  <2> HIDE DEF u
  <2>2. /\ r \in Firsts(s) <=> \E j \in DOMAIN s : s[j][2] = 0 /\ s[j][1] = r
        /\ r \in Firsts(t) <=> \E j \in DOMAIN t : t[j][2] = 0 /\ t[j][1] = r
        /\ r \in Firsts(u) <=> \E j \in DOMAIN u : u[j][2] = 0 /\ u[j][1] = r
    BY FirstsOf
  <2>3. ASSUME r \in Firsts(s) PROVE r \in Firsts(u)
    <3>1. PICK j \in DOMAIN s : s[j][2] = 0 /\ s[j][1] = r
      BY <2>2, <2>3
    <3>2. j \in DOMAIN u /\ u[j][2] = 0 /\ u[j][1] = r
      BY <2>1, <3>1
    <3> QED
      BY <2>2, <3>2
  <2>4. r \in Firsts(t) => r \in Firsts(u)
    BY <2>1, <2>2, ZenonT(40)
  <2>5. ASSUME r \in Firsts(u) PROVE r \in Firsts(s) \/ r \in Firsts(t)
    <3>1. PICK j \in DOMAIN u : u[j][2] = 0 /\ u[j][1] = r
      BY <2>2, <2>5
    <3>2. CASE j \in DOMAIN s /\ u[j] = s[j]
      <4>1. s[j][2] = 0 /\ s[j][1] = r
        BY <3>1, <3>2
      <4> QED
        BY <2>2, <3>2, <4>1
    <3>3. CASE j - Len(s) \in DOMAIN t /\ u[j] = t[j - Len(s)]
      <4> DEFINE i == j - Len(s)
      <4>1. i \in DOMAIN t /\ t[i][2] = 0 /\ t[i][1] = r
        BY <3>1, <3>3
      <4> HIDE DEF i
      <4> QED
        BY <2>2, <4>1
    <3> QED
      BY <2>1, <3>1, <3>2, <3>3
  <2> QED
    BY <2>3, <2>4, <2>5 DEF u
<1> QED
  BY <1>4

(* A region is given back by its first chunk. *)
LEMMA FirstsOfRegion ==
    ASSUME Configured, NEW r \in Nat, NEW b, NEW s,
           b = Region(r), s = [i \in 1 .. Chunks |-> b[i - 1]]
    PROVE  Firsts(b) = {r} /\ Firsts(s) = {r} /\ s \in Seq(Nat \X Nat) /\ Len(s) = Chunks
<1>1. Chunks \in Nat \ {0}
  BY DEF Configured
<1>2. DOMAIN b = Slots /\ \A i \in Slots : b[i] = <<r, i>> /\ b[i][1] = r /\ b[i][2] = i
  BY DEF Region
<1>3. \A i \in 1 .. Chunks : i - 1 \in Slots /\ i - 1 \in Nat
  BY <1>1 DEF Slots
<1>4. DOMAIN s = 1 .. Chunks /\ \A i \in 1 .. Chunks : s[i] = <<r, i - 1>> /\ s[i][1] = r /\ s[i][2] = i - 1
  BY <1>2, <1>3
<1>5. s \in Seq(Nat \X Nat) /\ Len(s) = Chunks
  <2> DEFINE S == Nat \X Nat
  <2>1. \A i \in Slots : i \in Nat
    BY <1>1 DEF Slots
  <2>2. ASSUME NEW i \in Slots PROVE b[i] \in S
    <3>1. <<r, i>> \in Nat \X Nat
      BY <2>1
    <3>2. b[i] = <<r, i>>
      BY <1>2
    <3> QED
      BY <3>1, <3>2
  <2> HIDE DEF S
  <2>3. \A i \in 1 .. Chunks : b[i - 1] \in S
    BY <1>3, <2>2
  <2>4. s \in Seq(S) /\ Len(s) = Chunks
    BY <1>1, <2>3
  <2> QED
    BY <2>4 DEF S
<1>6. 0 \in Slots /\ 1 \in 1 .. Chunks
  BY <1>1 DEF Slots
<1>7. \A x : x \in Firsts(b) <=> x = r
  BY <1>2, <1>6, FirstsOf
<1>8. \A x : x \in Firsts(s) <=> x = r
  <2>1. \A i \in 1 .. Chunks : s[i][2] = 0 <=> i = 1
    BY <1>1, <1>4
  <2>2. \A x : x \in Firsts(s) <=> \E i \in 1 .. Chunks : s[i][2] = 0 /\ s[i][1] = x
    BY <1>4, FirstsOf
  <2>3. \A i \in 1 .. Chunks : s[i][1] = r
    BY <1>4
  <2> QED
    BY <1>6, <2>1, <2>2, <2>3, Zenon
<1> QED
  BY <1>5, <1>7, <1>8

LEMMA SaveKept ==
    ASSUME Configured, IInv, Kept, NEW c \in Cores, Save(c)
    PROVE  Kept'
<1> DEFINE s == [i \in 1 .. Chunks |-> buffer[i - 1]]
<1>1. retired' = retired \o s /\ regions' = regions + 1 /\ regions \in Nat \ {0} /\ Chunks \in Nat
  BY DEF Save, IInv, Types, Configured
<1>2. buffer = Region(regions)
  <2>1. \A d \in Cores : pc[d] # "store"
    BY DEF Save, Goto, IInv, Protocol
  <2> QED
    BY <2>1 DEF IInv, Types, Stored, Region
<1>3. s \in Seq(Nat \X Nat) /\ Len(s) = Chunks /\ Firsts(s) = {regions}
  BY <1>1, <1>2, FirstsOfRegion
<1> HIDE DEF s
<1>4. retired' \in Seq(Nat \X Nat) /\ Len(retired') = (regions - 1) * Chunks + Chunks
  BY <1>1, <1>3, Joined, Zenon DEF Kept
<1>5. (regions - 1) * Chunks + Chunks = regions * Chunks
  BY <1>1
<1>6. Firsts(retired') = (1 .. regions - 1) \cup {regions}
  <2>1. Firsts(retired \o s) = Firsts(retired) \cup Firsts(s)
    BY <1>3, FirstsOfTwo DEF Kept
  <2> QED
    BY <1>1, <1>3, <2>1 DEF Kept
<1>7. (1 .. regions - 1) \cup {regions} = 1 .. regions /\ regions' - 1 = regions
  BY <1>1
<1>8. Firsts(retired)' = Firsts(retired')
  BY DEF Firsts
<1> QED
  BY <1>4, <1>5, <1>6, <1>7, <1>8 DEF Kept

LEMMA StepKept ==
    ASSUME Configured, IInv, Kept, [Next \/ Rebuild]_vars
    PROVE  Kept'
<1>1. CASE \E c \in Cores : Save(c)
  BY <1>1, SaveKept
<1>2. CASE UNCHANGED <<retired, regions>>
  BY <1>2 DEF Kept, Firsts
<1>3. CASE Rebuild
  <2>1. retired' = <<>> /\ regions' = 1
    BY <1>3 DEF Rebuild
  <2>2. Firsts(<<>>) = {} /\ 1 .. 0 = {} /\ Chunks \in Nat
    BY FirstsOf DEF Configured
  <2> QED
    BY <2>1, <2>2 DEF Kept, Firsts
<1> QED
  BY <1>1, <1>2, <1>3 DEF Next, Proceed, Allocate, Free, FillBuffer, FetchAdd, ReadChunk, Exchange,
                          Wait, Store, Restart, Filled, heap, vars

LEMMA InitKept ==
    ASSUME Configured
    PROVE  Init => Kept
<1>1. Firsts(<<>>) = {} /\ 1 .. 0 = {} /\ Chunks \in Nat
  BY FirstsOf DEF Configured
<1> QED
  BY <1>1 DEF Init, Kept

LEMMA KeptAccounts ==
    ASSUME Configured, IInv, Kept
    PROVE  RegionsAccounted
<1> SUFFICES ASSUME \A c \in Cores : pc[c] \notin {"store", "filled"}
             PROVE  Firsts(retired) \cup Firsts(buffer) = 1 .. regions
  BY DEF RegionsAccounted, Kept
<1>1. buffer = Region(regions) /\ regions \in Nat \ {0}
  BY DEF IInv, Types, Stored, Region
<1>2. Firsts(buffer) = {regions}
  BY <1>1, FirstsOfRegion
<1>3. (1 .. regions - 1) \cup {regions} = 1 .. regions
  BY <1>1
<1> QED
  BY <1>2, <1>3 DEF Kept

(* However often a core refills the buffer, the destructor finds the first   *)
(* chunk of every region once, among the chunks that were kept or in the     *)
(* buffer, and no chunk was kept twice: fill_buffer keeps the old chunks     *)
(* before it stores new ones.                                                *)
THEOREM RegionsAreAccounted ==
    ASSUME Configured, Prompt
    PROVE  Allocators => []RegionsAccounted
<1>1. Allocators => [](IInv /\ Kept)
  <2>1. Init => Kept
    BY InitKept
  <2>2. IInv /\ Kept /\ [Next \/ Rebuild]_vars => Kept'
    BY StepKept
  <2> QED
    BY <2>1, <2>2, Invariant, PTL DEF Allocators
<1>2. IInv /\ Kept => RegionsAccounted
  BY KeptAccounts
<1> QED
  BY <1>1, <1>2, PTL

-----------------------------------------------------------------------------
(* Epochs. *)

(* Min of the two epochs that min_local_epoch compares. *)
LEMMA MinOfTwo ==
    ASSUME NEW a \in Int, NEW b \in Int
    PROVE  Epochs!Min({a, b}) \in {a, b} /\ Epochs!Min({a, b}) <= a /\ Epochs!Min({a, b}) <= b
<1>1. \E x \in {a, b} : \A y \in {a, b} : x <= y
  <2>1. CASE a <= b
    BY <2>1
  <2>2. CASE b <= a
    BY <2>2
  <2> QED
    BY <2>1, <2>2
<1> QED
  BY <1>1 DEF Epochs!Min

-----------------------------------------------------------------------------
(* Types of the epochs. *)

Scanning == epc = "min" => scanned < CountChannels

LEMMA EpochInitType ==
    ASSUME Epochs!EpochAssumption
    PROVE  Epochs!Init => Epochs!TypeOK /\ Scanning
BY DEF Epochs!EpochAssumption, Epochs!Init, Epochs!TypeOK, Scanning, Epochs!Epoch, Epochs!MaxEpoch, Epochs!Workers

LEMMA WorkerType ==
    ASSUME Epochs!EpochAssumption, Epochs!TypeOK, NEW w \in Epochs!Workers, Epochs!WorkerStep(w)
    PROVE  Epochs!TypeOK'
<1> USE DEF Epochs!TypeOK, Epochs!Goto, Epochs!epochVars, Epochs!objectVars
<1>1. CASE Epochs!EnterLoad(w) \/ Epochs!RefillLoad(w)
  BY <1>1 DEF Epochs!EnterLoad, Epochs!RefillLoad
<1>2. CASE Epochs!EnterStore(w)
  <2>1. local' \in [Epochs!Workers -> Epochs!Epoch \cup {Epochs!MaxEpoch}] /\ loaded' \in [Epochs!Workers -> Epochs!Epoch]
    BY <1>2 DEF Epochs!EpochAssumption, Epochs!EnterStore, Epochs!Epoch
  <2>2. queued' \in [Epochs!Workers -> SUBSET Resources] /\ buffered' \in [Epochs!Workers -> SUBSET Resources]
    BY <1>2 DEF Epochs!EnterStore
  <2>3. fresh' \in [Epochs!Workers -> BOOLEAN]
    <3>1. CASE UNCHANGED fresh
      BY <3>1
    <3>2. CASE fresh' = [fresh EXCEPT ![w] = \A r \in on[w] : status[r] = "live"]
      <4>1. (\A r \in on[w] : status[r] = "live") \in BOOLEAN
        OBVIOUS
      <4> QED
        BY <3>2, <4>1
    <3> QED
      BY <1>2, <3>1, <3>2 DEF Epochs!EnterStore
  <2> QED
    BY <1>2, <2>1, <2>2, <2>3 DEF Epochs!EnterStore
<1>3. ASSUME NEW r \in Resources, NEW to \in {"read", "refill"}, Epochs!NextTask(w, r, to) PROVE Epochs!TypeOK'
  <2>1. (to = "read" /\ status[r] = "live") \in BOOLEAN
    OBVIOUS
  <2>2. fresh' \in [Epochs!Workers -> BOOLEAN]
    BY <1>3, <2>1 DEF Epochs!NextTask
  <2> QED
    BY <1>3, <2>2 DEF Epochs!NextTask
<1>4. CASE Epochs!NextNothing(w) \/ Epochs!WorkerEnds(w)
  BY <1>4 DEF Epochs!NextNothing, Epochs!WorkerEnds
<1>5. ASSUME NEW r \in Resources, Epochs!Collect(w, r) PROVE Epochs!TypeOK'
  BY <1>5 DEF Epochs!Collect
<1>6. CASE Epochs!Return(w)
  BY <1>6 DEF Epochs!Return
<1> QED
  BY <1>1, <1>2, <1>3, <1>4, <1>5, <1>6 DEF Epochs!WorkerStep

LEMMA TaskType ==
    ASSUME Epochs!EpochAssumption, Epochs!TypeOK, NEW w \in Epochs!Workers, NEW d \in Epochs!Workers, NEW r \in Resources,
           Epochs!Spawn(w, d, r) \/ Epochs!Remove(w, r) \/ Epochs!Stop(w)
    PROVE  Epochs!TypeOK'
<1> USE DEF Epochs!TypeOK, Epochs!Goto, Epochs!epochVars, Epochs!objectVars, Epochs!workerVars
<1>1. CASE Epochs!Spawn(w, d, r)
  BY <1>1 DEF Epochs!Spawn
<1>2. CASE Epochs!Remove(w, r)
  BY <1>2 DEF Epochs!Remove
<1>3. CASE Epochs!Stop(w)
  BY <1>3 DEF Epochs!Stop
<1> QED
  BY <1>1, <1>2, <1>3

LEMMA EpochType ==
    ASSUME Epochs!EpochAssumption, Epochs!TypeOK, Epochs!EpochStep, Scanning
    PROVE  Epochs!TypeOK'
<1> USE DEF Epochs!TypeOK, Epochs!workerVars, Epochs!objectVars
<1>1. CASE Epochs!Advance
  BY <1>1 DEF Epochs!EpochAssumption, Epochs!Advance, Epochs!Epoch, Epochs!MaxEpoch
<1>2. CASE Epochs!MinLocalEpoch
  <2>1. scanned \in Epochs!Workers
    BY <1>2 DEF Epochs!EpochAssumption, Epochs!MinLocalEpoch, Epochs!Workers, Scanning
  <2>2. minEpoch' \in Epochs!Epoch \cup {Epochs!MaxEpoch}
    <3>1. local[scanned] \in Epochs!Epoch \cup {Epochs!MaxEpoch}
      BY <2>1
    <3>2. local[scanned] \in Int /\ minEpoch \in Int
      BY <3>1 DEF Epochs!EpochAssumption, Epochs!Epoch, Epochs!MaxEpoch
    <3> QED
      BY <1>2, <3>1, <3>2, MinOfTwo DEF Epochs!MinLocalEpoch
  <2>3. scanned' \in 0 .. CountChannels
    BY <1>2 DEF Epochs!EpochAssumption, Epochs!MinLocalEpoch, Scanning
  <2> QED
    BY <1>2, <2>2, <2>3 DEF Epochs!MinLocalEpoch
<1>3. ASSUME NEW r \in Resources, Epochs!ReclaimEpochGarbage(r) PROVE Epochs!TypeOK'
  BY <1>3 DEF Epochs!ReclaimEpochGarbage
<1>4. CASE Epochs!PushDeferred
  BY <1>4 DEF Epochs!EpochAssumption, Epochs!PushDeferred
<1>5. CASE Epochs!EpochEnds
  BY <1>5 DEF Epochs!EpochEnds
<1>6. CASE Epochs!ReclaimAll
  BY <1>6 DEF Epochs!ReclaimAll, Epochs!epochVars
<1> QED
  BY <1>1, <1>2, <1>3, <1>4, <1>5, <1>6 DEF Epochs!EpochStep

LEMMA StepScans ==
    ASSUME Epochs!EpochAssumption
    PROVE  Epochs!TypeOK /\ Scanning /\ [Epochs!Next]_(Epochs!vars) => Scanning'
<1> SUFFICES ASSUME Epochs!TypeOK, Scanning, [Epochs!Next]_(Epochs!vars) PROVE Scanning'
  OBVIOUS
<1> USE DEF Scanning, Epochs!epochVars
<1>1. CASE UNCHANGED Epochs!vars
  BY <1>1 DEF Epochs!vars
<1>2. ASSUME NEW w \in Epochs!Workers, Epochs!WorkerStep(w) PROVE Scanning'
  BY <1>2 DEF Epochs!WorkerStep, Epochs!EnterLoad, Epochs!RefillLoad, Epochs!EnterStore, Epochs!NextTask, Epochs!NextNothing, Epochs!Collect, Epochs!Return, Epochs!WorkerEnds
<1>3. ASSUME NEW w \in Epochs!Workers, NEW d \in Epochs!Workers, NEW r \in Resources,
             Epochs!Spawn(w, d, r) \/ Epochs!Remove(w, r) \/ Epochs!Stop(w)
      PROVE  Scanning'
  BY <1>3 DEF Epochs!Spawn, Epochs!Remove, Epochs!Stop
<1>4. CASE Epochs!EpochStep
  <2>1. CASE Epochs!MinLocalEpoch
    BY <2>1 DEF Epochs!EpochAssumption, Epochs!MinLocalEpoch, Epochs!TypeOK
  <2>2. CASE Epochs!Advance
    BY <2>2 DEF Epochs!EpochAssumption, Epochs!Advance
  <2> QED
    BY <1>4, <2>1, <2>2 DEF Epochs!EpochStep, Epochs!ReclaimEpochGarbage, Epochs!PushDeferred, Epochs!EpochEnds, Epochs!ReclaimAll
<1>5. ASSUME NEW w \in Epochs!Workers, Epochs!Stop(w) PROVE Scanning'
  BY <1>5 DEF Epochs!Stop
<1> QED
  BY <1>1, <1>2, <1>3, <1>4, <1>5 DEF Epochs!Next

LEMMA EpochStepType ==
    ASSUME Epochs!EpochAssumption
    PROVE  Epochs!TypeOK /\ Scanning /\ [Epochs!Next]_(Epochs!vars) => Epochs!TypeOK'
<1> SUFFICES ASSUME Epochs!TypeOK, Scanning, [Epochs!Next]_(Epochs!vars) PROVE Epochs!TypeOK'
  OBVIOUS
<1>1. CASE UNCHANGED Epochs!vars
  BY <1>1 DEF Epochs!vars, Epochs!TypeOK, Epochs!workerVars, Epochs!epochVars, Epochs!objectVars
<1>2. ASSUME NEW w \in Epochs!Workers, Epochs!Stop(w) PROVE Epochs!TypeOK'
  BY <1>2 DEF Epochs!Stop, Epochs!TypeOK, Epochs!workerVars, Epochs!epochVars, Epochs!objectVars
<1> QED
  BY <1>1, <1>2, WorkerType, TaskType, EpochType DEF Epochs!Next

(* TypeOK: epochs stay in their range, whether the runtime starts for the    *)
(* first time or not.                                                        *)
THEOREM EpochTypeCorrect ==
    Epochs!Spec => []Epochs!TypeOK
<1>0. Epochs!EpochAssumption
  BY RuntimeAssumption
<1>1. Epochs!Spec => [](Epochs!TypeOK /\ Scanning)
  BY <1>0, EpochInitType, EpochStepType, StepScans, PTL DEF Epochs!Spec
<1> QED
  BY <1>1, PTL

-----------------------------------------------------------------------------
(* Protection by epochs. *)

(* What the epoch thread may free was removed, once. *)
Garbage ==
    /\ \A r \in garbage \cup deferred : status[r] = "removed"
    /\ garbage \cap deferred = {}
    /\ epc # "reclaim" => deferred = {}

LEMMA StepGarbage == Epochs!TypeOK /\ Garbage /\ [Epochs!Next]_(Epochs!vars) => Garbage'
<1> SUFFICES ASSUME Epochs!TypeOK, Garbage, [Epochs!Next]_(Epochs!vars) PROVE Garbage'
  OBVIOUS
<1> USE DEF Epochs!TypeOK, Garbage, Epochs!epochVars, Epochs!objectVars, Epochs!workerVars
<1>1. CASE UNCHANGED Epochs!vars
  BY <1>1 DEF Epochs!vars
<1>2. ASSUME NEW w \in Epochs!Workers, Epochs!WorkerStep(w) PROVE Garbage'
  <2>1. ASSUME NEW r \in Resources, Epochs!Collect(w, r) PROVE Garbage'
    BY <2>1 DEF Epochs!Collect
  <2> QED
    BY <1>2, <2>1 DEF Epochs!WorkerStep, Epochs!EnterLoad, Epochs!RefillLoad, Epochs!EnterStore, Epochs!NextTask, Epochs!NextNothing, Epochs!Return, Epochs!WorkerEnds
<1>3. ASSUME NEW w \in Epochs!Workers, NEW r \in Resources, Epochs!Remove(w, r) PROVE Garbage'
  BY <1>3 DEF Epochs!Remove
<1>4. ASSUME NEW w \in Epochs!Workers, NEW d \in Epochs!Workers, NEW r \in Resources, Epochs!Spawn(w, d, r) PROVE Garbage'
  BY <1>4 DEF Epochs!Spawn
<1>5. ASSUME NEW w \in Epochs!Workers, Epochs!Stop(w) PROVE Garbage'
  BY <1>5 DEF Epochs!Stop
<1>6. ASSUME NEW r \in Resources, Epochs!ReclaimEpochGarbage(r) PROVE Garbage'
  BY <1>6 DEF Epochs!ReclaimEpochGarbage
<1>7. CASE Epochs!Advance \/ Epochs!MinLocalEpoch \/ Epochs!PushDeferred \/ Epochs!EpochEnds
  BY <1>7 DEF Epochs!Advance, Epochs!MinLocalEpoch, Epochs!PushDeferred, Epochs!EpochEnds
<1>8. CASE Epochs!ReclaimAll
  BY <1>8 DEF Epochs!ReclaimAll
<1> QED
  BY <1>1, <1>2, <1>3, <1>4, <1>5, <1>6, <1>7, <1>8 DEF Epochs!Next, Epochs!EpochStep

(* No worker is ahead of the global epoch, also not with the epoch it has    *)
(* loaded but not stored yet, and none steps back.  So what the epoch thread *)
(* has read of a worker stays a lower bound of its epoch, and an object that *)
(* was reachable when a read began carries an epoch not below the reader's.  *)
EpochInv ==
    /\ \A w \in Epochs!Workers : local[w] <= global
    /\ \A w \in Epochs!Workers : at[w] \in {"store", "restore"} => local[w] <= loaded[w] /\ loaded[w] <= global
    /\ epc = "min" => \A w \in Epochs!Workers : w < scanned => minEpoch <= local[w]
    /\ epc = "reclaim" => \A w \in Epochs!Workers : minEpoch <= local[w]
    /\ \A w \in Epochs!Workers : at[w] \in {"read", "push"} /\ fresh[w] =>
          \A r \in on[w] : status[r] # "live" => status[r] = "removed" /\ local[w] <= removeEpoch[r]

LEMMA EpochInit ==
    ASSUME Epochs!EpochAssumption, ~FirstStart
    PROVE  Epochs!Init => EpochInv
BY DEF Epochs!EpochAssumption, Epochs!Init, EpochInv, Epochs!Workers

(* All epochs are numbers, in this state and the next. *)
EpochNumbers ==
    /\ global \in Int /\ minEpoch \in Int /\ scanned \in Int
    /\ \A w \in Epochs!Workers : local[w] \in Int /\ loaded[w] \in Int
    /\ \A r \in Resources : removeEpoch[r] \in Int

LEMMA EpochNumbersFacts ==
    ASSUME Epochs!EpochAssumption
    PROVE  Epochs!TypeOK => EpochNumbers
BY DEF Epochs!EpochAssumption, Epochs!TypeOK, EpochNumbers, Epochs!Epoch, Epochs!MaxEpoch

(* A worker that leaves the epochs alone and begins no read. *)
LEMMA EpochInvKept ==
    ASSUME EpochNumbers, EpochInv, UNCHANGED <<local, global, minEpoch, scanned, epc, status, removeEpoch>>,
           NEW w \in Epochs!Workers,
           \A v \in Epochs!Workers \ {w} :
               at'[v] = at[v] /\ loaded'[v] = loaded[v] /\ on'[v] = on[v] /\ fresh'[v] = fresh[v],
           at'[w] \in {"store", "restore"} => loaded'[w] = global,
           at'[w] \in {"read", "push"} => at[w] \in {"read", "push"} /\ on'[w] = on[w] /\ fresh'[w] = fresh[w]
    PROVE  EpochInv'
<1>1. ASSUME NEW v \in Epochs!Workers, at'[v] \in {"store", "restore"}
      PROVE  local'[v] <= loaded'[v] /\ loaded'[v] <= global'
  <2>1. CASE v = w
    <3>1. loaded'[v] = global /\ global \in Int /\ local[v] <= global
      BY <1>1, <2>1 DEF EpochInv, EpochNumbers
    <3> QED
      BY ONLY <3>1, UNCHANGED <<local, global>>
  <2>2. CASE v # w
    BY <1>1, <2>2 DEF EpochInv
  <2> QED
    BY <2>1, <2>2
<1>2. ASSUME NEW v \in Epochs!Workers, at'[v] \in {"read", "push"}, fresh'[v], NEW r \in on'[v], status'[r] # "live"
      PROVE  status'[r] = "removed" /\ local'[v] <= removeEpoch'[r]
  <2>1. at[v] \in {"read", "push"} /\ fresh[v] /\ r \in on[v]
    BY <1>2
  <2> QED
    BY <1>2, <2>1 DEF EpochInv
<1>3. /\ \A v \in Epochs!Workers : local'[v] <= global'
      /\ epc' = "min" => \A v \in Epochs!Workers : v < scanned' => minEpoch' <= local'[v]
      /\ epc' = "reclaim" => \A v \in Epochs!Workers : minEpoch' <= local'[v]
  BY DEF EpochInv
<1> QED
  BY <1>1, <1>2, <1>3 DEF EpochInv

LEMMA LoadInvariant ==
    ASSUME Epochs!EpochAssumption, Epochs!TypeOK, EpochNumbers, EpochInv, NEW w \in Epochs!Workers, Epochs!EnterLoad(w) \/ Epochs!RefillLoad(w)
    PROVE  EpochInv'
<1> USE DEF Epochs!EnterLoad, Epochs!RefillLoad, Epochs!Goto
<1>1. UNCHANGED <<local, global, minEpoch, scanned, epc, status, removeEpoch, on, fresh>>
  BY DEF Epochs!epochVars, Epochs!objectVars
<1>2. loaded' = [loaded EXCEPT ![w] = global]
  OBVIOUS
<1>3. PICK to \in {"store", "restore"} : at' = [at EXCEPT ![w] = to]
  OBVIOUS
<1>4. \A v \in Epochs!Workers \ {w} : at'[v] = at[v] /\ loaded'[v] = loaded[v] /\ on'[v] = on[v] /\ fresh'[v] = fresh[v]
  BY ONLY Epochs!TypeOK, <1>1, <1>2, <1>3 DEF Epochs!TypeOK
<1>5. loaded'[w] = global /\ at'[w] \notin {"read", "push"}
  BY ONLY Epochs!TypeOK, <1>2, <1>3, w \in Epochs!Workers DEF Epochs!TypeOK
<1> QED
  BY <1>1, <1>4, <1>5, EpochInvKept

LEMMA StoreInvariant ==
    ASSUME Epochs!EpochAssumption, Epochs!TypeOK, EpochNumbers, EpochInv, NEW w \in Epochs!Workers, Epochs!EnterStore(w)
    PROVE  EpochInv'
<1> USE DEF Epochs!TypeOK, EpochNumbers, Epochs!EnterStore, Epochs!Goto, Epochs!epochVars, Epochs!objectVars
<1>1. \A v \in Epochs!Workers : local'[v] <= global /\ local[v] <= local'[v]
  <2>1. at[w] \in {"store", "restore"}
    OBVIOUS
  <2>2. local[w] <= loaded[w] /\ loaded[w] <= global /\ \A v \in Epochs!Workers : local[v] <= global
    BY ONLY <2>1, EpochInv, w \in Epochs!Workers DEF EpochInv
  <2>3. \A v \in Epochs!Workers : local[v] <= local[v]
    BY ONLY EpochNumbers DEF EpochNumbers
  <2>4. local'[w] = loaded[w] /\ \A v \in Epochs!Workers \ {w} : local'[v] = local[v]
    OBVIOUS
  <2> QED
    BY ONLY <2>2, <2>3, <2>4
<1>2. \A v \in Epochs!Workers : at'[v] \in {"store", "restore"} => local'[v] <= loaded'[v] /\ loaded'[v] <= global'
  BY DEF EpochInv
<1>3. /\ epc' = "min" => \A v \in Epochs!Workers : v < scanned' => minEpoch' <= local'[v]
      /\ epc' = "reclaim" => \A v \in Epochs!Workers : minEpoch' <= local'[v]
  <2>1. UNCHANGED <<epc, scanned, minEpoch>>
    OBVIOUS
  <2>2. minEpoch \in Int /\ \A v \in Epochs!Workers : local[v] \in Int /\ local'[v] \in Int
    OBVIOUS
  <2>3. ASSUME NEW v \in Epochs!Workers, minEpoch <= local[v] PROVE minEpoch <= local'[v]
    <3>1. minEpoch \in Int /\ local[v] \in Int /\ local'[v] \in Int /\ local[v] <= local'[v]
      BY ONLY <1>1, <2>2, v \in Epochs!Workers
    <3> QED
      BY ONLY <2>3, <3>1
  <2>4. /\ epc = "min" => \A v \in Epochs!Workers : v < scanned => minEpoch <= local[v]
        /\ epc = "reclaim" => \A v \in Epochs!Workers : minEpoch <= local[v]
    BY ONLY EpochInv DEF EpochInv
  <2> QED
    BY ONLY <2>1, <2>3, <2>4
<1>4. ASSUME NEW v \in Epochs!Workers, at'[v] \in {"read", "push"}, fresh'[v], NEW r \in on'[v], status'[r] # "live"
      PROVE  status'[r] = "removed" /\ local'[v] <= removeEpoch'[r]
  <2>1. v # w
    BY <1>4
  <2>2. at[v] \in {"read", "push"} /\ fresh[v] /\ r \in on[v] /\ local'[v] = local[v]
    BY <1>4, <2>1
  <2> QED
    BY <1>4, <2>2 DEF EpochInv
<1> QED
  BY <1>1, <1>2, <1>3, <1>4 DEF EpochInv

LEMMA NextTaskInvariant ==
    ASSUME Epochs!EpochAssumption, Epochs!TypeOK, EpochInv, NEW w \in Epochs!Workers, NEW q \in Resources, NEW to \in {"read", "refill"},
           Epochs!NextTask(w, q, to)
    PROVE  EpochInv'
<1> USE DEF Epochs!TypeOK, Epochs!NextTask, Epochs!Goto, Epochs!epochVars, Epochs!objectVars
<1>1. ASSUME NEW v \in Epochs!Workers, at'[v] \in {"read", "push"}, fresh'[v], NEW r \in on'[v], status'[r] # "live"
      PROVE  status'[r] = "removed" /\ local'[v] <= removeEpoch'[r]
  <2>1. v # w
    BY <1>1
  <2>2. at[v] \in {"read", "push"} /\ fresh[v] /\ r \in on[v]
    BY <1>1, <2>1
  <2> QED
    BY <1>1, <2>2 DEF EpochInv
<1> QED
  BY <1>1 DEF EpochInv

LEMMA WorkerInvariant ==
    ASSUME Epochs!EpochAssumption, Epochs!TypeOK, EpochNumbers, EpochInv, NEW w \in Epochs!Workers, Epochs!WorkerStep(w)
    PROVE  EpochInv'
<1> USE DEF Epochs!TypeOK, Epochs!Goto, Epochs!epochVars, Epochs!objectVars
<1>1. CASE Epochs!NextNothing(w) \/ Epochs!WorkerEnds(w)
  <2>1. /\ UNCHANGED <<local, global, minEpoch, scanned, epc, status, removeEpoch, loaded, on, fresh>>
        /\ at'[w] \in {"fill", "ended"} /\ \A v \in Epochs!Workers \ {w} : at'[v] = at[v]
    BY <1>1 DEF Epochs!NextNothing, Epochs!WorkerEnds
  <2> QED
    BY ONLY EpochNumbers, EpochInv, w \in Epochs!Workers, <2>1, EpochInvKept
<1>2. ASSUME NEW r \in Resources, Epochs!Collect(w, r) PROVE EpochInv'
  <2>1. /\ UNCHANGED <<local, global, minEpoch, scanned, epc, status, removeEpoch, loaded, on, fresh>>
        /\ at[w] = "push" /\ at'[w] = "read" /\ \A v \in Epochs!Workers \ {w} : at'[v] = at[v]
    BY <1>2 DEF Epochs!Collect
  <2> QED
    BY ONLY EpochNumbers, EpochInv, w \in Epochs!Workers, <2>1, EpochInvKept
<1>3. CASE Epochs!Return(w)
  <2>1. /\ UNCHANGED <<local, global, minEpoch, scanned, epc, status, removeEpoch, loaded>>
        /\ at'[w] = "next"
        /\ \A v \in Epochs!Workers \ {w} : at'[v] = at[v] /\ on'[v] = on[v] /\ fresh'[v] = fresh[v]
    BY <1>3 DEF Epochs!Return
  <2> QED
    BY ONLY EpochNumbers, EpochInv, w \in Epochs!Workers, <2>1, EpochInvKept
<1> QED
  BY <1>1, <1>2, <1>3, LoadInvariant, StoreInvariant, NextTaskInvariant DEF Epochs!WorkerStep

(* A removal is stamped with an epoch that no reader is ahead of. *)
LEMMA RemoveInvariant ==
    ASSUME Epochs!EpochAssumption, Epochs!TypeOK, EpochNumbers, EpochInv, NEW w \in Epochs!Workers, NEW q \in Resources, Epochs!Remove(w, q)
    PROVE  EpochInv'
<1> USE DEF Epochs!TypeOK, Epochs!Remove, Epochs!Goto, Epochs!epochVars
<1>1. ASSUME NEW v \in Epochs!Workers, at'[v] \in {"read", "push"}, fresh'[v], NEW r \in on'[v], status'[r] # "live"
      PROVE  status'[r] = "removed" /\ local'[v] <= removeEpoch'[r]
  <2>1. at[v] \in {"read", "push"} /\ fresh[v] /\ r \in on[v] /\ r \in Resources
    BY <1>1
  <2>2. CASE r = q
    BY <2>2 DEF EpochInv
  <2>3. CASE r # q
    BY <1>1, <2>1, <2>3 DEF EpochInv
  <2> QED
    BY <2>2, <2>3
<1> QED
  BY <1>1 DEF EpochInv

LEMMA MinInvariant ==
    ASSUME Epochs!EpochAssumption, Epochs!TypeOK, EpochNumbers, Scanning, EpochInv, Epochs!MinLocalEpoch
    PROVE  EpochInv'
<1> USE DEF Epochs!MinLocalEpoch, Epochs!workerVars, Epochs!objectVars
<1>1. scanned \in Epochs!Workers /\ local[scanned] \in Int
  BY DEF Epochs!EpochAssumption, Epochs!TypeOK, Scanning, Epochs!Workers, EpochNumbers
<1>2. minEpoch' <= minEpoch /\ minEpoch' <= local[scanned] /\ minEpoch' \in Int
  BY <1>1, MinOfTwo DEF EpochNumbers
<1>3. ASSUME NEW w \in Epochs!Workers, w < scanned' PROVE minEpoch' <= local'[w]
  <2>1. CASE w = scanned
    BY <1>2, <2>1
  <2>2. CASE w < scanned
    <3>1. minEpoch <= local[w] /\ minEpoch \in Int /\ local[w] \in Int /\ local' = local
      BY <2>2 DEF EpochInv, EpochNumbers
    <3> QED
      BY ONLY <1>2, <3>1
  <2> QED
    BY <1>3, <2>1, <2>2 DEF Epochs!EpochAssumption, Epochs!TypeOK, Epochs!Workers
<1>4. epc' = "reclaim" => \A w \in Epochs!Workers : w < scanned'
  BY DEF Epochs!EpochAssumption, Epochs!Workers
<1> QED
  BY <1>3, <1>4 DEF EpochInv

(* What is reclaimed was removed in an epoch that all workers have left. *)
LEMMA ReclaimInvariant ==
    ASSUME Epochs!EpochAssumption, Epochs!TypeOK, EpochNumbers, Garbage, EpochInv, NEW q \in Resources, Epochs!ReclaimEpochGarbage(q)
    PROVE  EpochInv'
<1> USE DEF Epochs!ReclaimEpochGarbage, Epochs!workerVars
<1>1. CASE removeEpoch[q] < minEpoch
  <2>1. ASSUME NEW w \in Epochs!Workers, at[w] \in {"read", "push"}, fresh[w], q \in on[w] PROVE FALSE
    <3>1. minEpoch <= local[w] /\ status[q] = "removed"
      BY DEF EpochInv, Garbage
    <3>2. local[w] <= removeEpoch[q]
      BY <2>1, <3>1 DEF EpochInv
    <3>3. minEpoch \in Int /\ local[w] \in Int /\ removeEpoch[q] \in Int
      BY DEF EpochNumbers
    <3> QED
      BY ONLY <1>1, <3>1, <3>2, <3>3
  <2>2. \A r \in Resources \ {q} : status'[r] = status[r]
    BY <1>1 DEF Epochs!TypeOK
  <2>3. ASSUME NEW w \in Epochs!Workers, at'[w] \in {"read", "push"}, fresh'[w], NEW r \in on'[w], status'[r] # "live"
        PROVE  status'[r] = "removed" /\ local'[w] <= removeEpoch'[r]
    <3>1. r \in Resources \ {q}
      BY <2>1, <2>3 DEF Epochs!TypeOK
    <3> QED
      BY <2>2, <2>3, <3>1 DEF EpochInv
  <2> QED
    BY <2>3 DEF EpochInv
<1>2. CASE ~(removeEpoch[q] < minEpoch)
  BY <1>2 DEF EpochInv
<1> QED
  BY <1>1, <1>2

LEMMA EpochStepInv ==
    ASSUME Epochs!EpochAssumption
    PROVE  Epochs!TypeOK /\ Scanning /\ Garbage /\ EpochInv /\ [Epochs!Next]_(Epochs!vars) => EpochInv'
<1> SUFFICES ASSUME Epochs!TypeOK, Scanning, Garbage, EpochInv, [Epochs!Next]_(Epochs!vars) PROVE EpochInv'
  OBVIOUS
<1>0. EpochNumbers
  BY EpochNumbersFacts
<1>1. CASE UNCHANGED Epochs!vars
  BY <1>1 DEF Epochs!vars, EpochInv, Epochs!workerVars, Epochs!epochVars, Epochs!objectVars
<1>2. ASSUME NEW w \in Epochs!Workers, NEW d \in Epochs!Workers, NEW r \in Resources, Epochs!Spawn(w, d, r) PROVE EpochInv'
  BY <1>2 DEF Epochs!Spawn, EpochInv, Epochs!epochVars, Epochs!objectVars
<1>3. ASSUME NEW w \in Epochs!Workers, Epochs!Stop(w) PROVE EpochInv'
  BY <1>3 DEF Epochs!Stop, EpochInv, Epochs!workerVars, Epochs!epochVars, Epochs!objectVars
<1>4. CASE Epochs!Advance
  <2>1. /\ UNCHANGED <<local, at, loaded, on, fresh, status, removeEpoch>>
        /\ scanned' = 0 /\ epc' # "reclaim"
        /\ global' \in {global, global + 1}
    BY <1>4 DEF Epochs!Advance, Epochs!workerVars, Epochs!objectVars
  <2>2. ASSUME NEW w \in Epochs!Workers
        PROVE  local[w] <= global' /\ (loaded[w] <= global => loaded[w] <= global')
    <3>1. local[w] <= global
      BY DEF EpochInv
    <3>2. local[w] \in Int /\ loaded[w] \in Int /\ global \in Int
      BY <1>0 DEF EpochNumbers
    <3>3. global' = global \/ global' = global + 1
      BY <2>1
    <3> QED
      BY ONLY <3>1, <3>2, <3>3
  <2>3. \A w \in Epochs!Workers : ~(w < 0)
    BY DEF Epochs!EpochAssumption, Epochs!Workers
  <2> QED
    BY <2>1, <2>2, <2>3 DEF EpochInv
<1>5. CASE Epochs!PushDeferred \/ Epochs!EpochEnds
  BY <1>5 DEF Epochs!PushDeferred, Epochs!EpochEnds, EpochInv, Epochs!workerVars, Epochs!objectVars
<1>6. CASE Epochs!ReclaimAll
  BY <1>6 DEF Epochs!ReclaimAll, EpochInv, Epochs!workerVars, Epochs!epochVars
<1> QED
  BY <1>0, <1>1, <1>2, <1>3, <1>4, <1>5, <1>6, WorkerInvariant, RemoveInvariant, MinInvariant,
     ReclaimInvariant DEF Epochs!Next, Epochs!EpochStep

LEMMA EpochInvariant ==
    ASSUME Epochs!EpochAssumption, ~FirstStart
    PROVE  Epochs!Spec => [](Epochs!TypeOK /\ Garbage /\ EpochInv)
<1>1. Epochs!Init => Garbage
  BY DEF Epochs!Init, Garbage
<1>2. Epochs!Init => EpochInv
  BY EpochInit
<1> QED
  BY <1>1, <1>2, EpochInitType, EpochStepType, StepScans, StepGarbage, EpochStepInv, PTL DEF Epochs!Spec

(* ReadsAreProtected: after a first run, an object that was reachable when a *)
(* task began to read it is not reclaimed before that task ends.             *)
THEOREM ReadsProtected ==
    ASSUME ~FirstStart
    PROVE  Epochs!Spec => []ReadsAreProtected
<1>0. Epochs!EpochAssumption
  BY RuntimeAssumption
<1>1. Epochs!TypeOK /\ Garbage /\ EpochInv => ReadsAreProtected
  BY DEF EpochInv, ReadsAreProtected, Epochs!ReadsAreProtected
<1> QED
  BY <1>1, <1>0, EpochInvariant, PTL

(* ReclaimedWhenPassed: the minimum the epoch thread collects channel by     *)
(* channel is still below every local epoch when it is used.                 *)
THEOREM ReclaimedLate ==
    ASSUME ~FirstStart
    PROVE  Epochs!Spec => ReclaimedWhenPassed
<1>0. Epochs!EpochAssumption
  BY RuntimeAssumption
<1>1. ASSUME Epochs!TypeOK, Garbage, EpochInv, [Epochs!Next]_(Epochs!vars), NEW r \in Resources,
             epc = "reclaim", status[r] = "removed", status'[r] = "reclaimed"
      PROVE  \A w \in Epochs!Workers : local[w] > removeEpoch[r]
  <2>1. removeEpoch[r] < minEpoch
    <3>1. CASE \E q \in Resources : Epochs!ReclaimEpochGarbage(q)
      BY <1>1, <3>1 DEF Epochs!ReclaimEpochGarbage, Epochs!TypeOK
    <3>2. CASE Epochs!Advance \/ Epochs!MinLocalEpoch \/ Epochs!PushDeferred \/ Epochs!EpochEnds \/ Epochs!ReclaimAll
      BY <1>1, <3>2 DEF Epochs!Advance, Epochs!MinLocalEpoch, Epochs!PushDeferred, Epochs!EpochEnds, Epochs!ReclaimAll, Epochs!objectVars
    <3>3. ASSUME NEW w \in Epochs!Workers, Epochs!WorkerStep(w) PROVE FALSE
      BY <1>1, <3>3 DEF Epochs!WorkerStep, Epochs!EnterLoad, Epochs!RefillLoad, Epochs!EnterStore, Epochs!NextTask, Epochs!NextNothing,
         Epochs!Collect, Epochs!Return, Epochs!WorkerEnds, Epochs!objectVars
    <3>4. ASSUME NEW w \in Epochs!Workers, NEW d \in Epochs!Workers, NEW q \in Resources,
                 Epochs!Spawn(w, d, q) \/ Epochs!Remove(w, q) \/ Epochs!Stop(w)
          PROVE  FALSE
      BY <1>1, <3>4 DEF Epochs!Spawn, Epochs!Remove, Epochs!Stop, Epochs!objectVars, Epochs!TypeOK
    <3>5. CASE UNCHANGED Epochs!vars
      BY <1>1, <3>5 DEF Epochs!vars, Epochs!objectVars
    <3> QED
      BY <1>1, <3>1, <3>2, <3>3, <3>4, <3>5 DEF Epochs!Next, Epochs!EpochStep
  <2> QED
    BY <1>1, <2>1, <1>0, EpochNumbersFacts DEF EpochInv, EpochNumbers
<1>2. Epochs!TypeOK /\ Garbage /\ EpochInv /\ [Epochs!Next]_(Epochs!vars) =>
        [\A r \in Resources : epc = "reclaim" /\ status[r] = "removed" /\ status'[r] = "reclaimed"
              => \A w \in Epochs!Workers : local[w] > removeEpoch[r]]_(Epochs!vars)
  BY <1>1
<1> QED
  BY <1>2, <1>0, EpochInvariant, PTL DEF Epochs!Spec, ReclaimedWhenPassed, Epochs!ReclaimedWhenPassed

-----------------------------------------------------------------------------
(* The life cycle of start_and_wait. *)

Busy == Life!Kinds \cup {"next"}   \* a worker in its inner loop

(* The flag is up only while the starting thread waits in join, and no       *)
(* thread has ended before it is down again.  Outside of its inner loop a    *)
(* worker leaves nothing in its buffer, and the epoch thread has no tasks.   *)
QuietInv ==
    /\ main # "join" => ~running
    /\ main = "starting" => \A t \in Life!Threads : thread[t] = "spin"
    /\ main \in {"reclaim", "outside"} => \A t \in Life!Threads : thread[t] \in {"none", "ended"}
    /\ main = "join" /\ running => \A t \in Life!Threads : thread[t] # "ended"
    /\ thread[Life!Epoch] \notin Busy
    /\ \A c \in Life!Channels : thread[c] \notin Busy => buffers[c] = <<>>

LEMMA ThreadFacts ==
    ASSUME Life!LifecycleAssumption
    PROVE  /\ Life!Epoch \in Life!Threads /\ 0 \in Life!Channels
           /\ Life!Channels \subseteq Life!Threads /\ Life!Epoch \notin Life!Channels
BY DEF Life!LifecycleAssumption, Life!Threads, Life!Epoch, Life!Channels

LEMMA LifecycleInit ==
    ASSUME Life!LifecycleAssumption
    PROVE  Life!Init => Life!TypeOK /\ QuietInv
BY ThreadFacts DEF Life!LifecycleAssumption, Life!Init, Life!TypeOK, QuietInv, Life!Kinds, Busy

-----------------------------------------------------------------------------
(* Types of the life cycle. *)

LEMMA SpawnedType ==
    ASSUME Life!LifecycleAssumption, NEW tasks \in Life!SpawnedTasks, NEW c \in Life!Channels
    PROVE  tasks[c] \in Seq(Life!Kinds)
<1>1. tasks[c] \in UNION {[1 .. m -> Spawned] : m \in 0 .. SpawnBound}
  BY DEF Life!SpawnedTasks
<1>2. PICK m \in 0 .. SpawnBound : tasks[c] \in [1 .. m -> Spawned]
  BY <1>1
<1>3. Spawned \subseteq Life!Kinds
  BY DEF Life!LifecycleAssumption, Life!Kinds
<1>4. m \in Nat
  BY DEF Life!LifecycleAssumption
<1>5. tasks[c] \in [1 .. m -> Life!Kinds]
  BY <1>2, <1>3
<1> QED
  BY <1>4, <1>5

LEMMA LifecycleType ==
    ASSUME Life!LifecycleAssumption
    PROVE  Life!TypeOK /\ QuietInv /\ [Life!Next]_(Life!vars) => Life!TypeOK'
<1> SUFFICES ASSUME Life!TypeOK, QuietInv, [Life!Next]_(Life!vars) PROVE Life!TypeOK'
  OBVIOUS
<1> USE ThreadFacts DEF Life!TypeOK, Life!Goto
<1>1. CASE UNCHANGED Life!vars
  BY <1>1 DEF Life!vars
<1>2. ASSUME NEW tasks \in Life!SpawnedTasks, Life!Start(tasks) PROVE Life!TypeOK'
  <2>1. \A c \in Life!Channels : queue[c] \o tasks[c] \in Seq(Life!Kinds)
    BY SpawnedType
  <2>2. queue' \in [Life!Channels -> Seq(Life!Kinds)]
    BY <1>2, <2>1 DEF Life!Start
  <2>3. starts' \in 0 .. StartBound
    BY <1>2 DEF Life!LifecycleAssumption, Life!Start
  <2> QED
    BY <1>2, <2>2, <2>3 DEF Life!Start
<1>3. CASE Life!MainStep
  BY <1>3 DEF Life!MainStep, Life!RaiseFlag, Life!Join, Life!ReclaimAll
<1>4. ASSUME NEW t \in Life!Threads, Life!ThreadStep(t) PROVE Life!TypeOK'
  BY <1>4 DEF Life!ThreadStep, Life!SeeStart, Life!SeeStop
<1>5. ASSUME NEW c \in Life!Channels, Life!Fill(c) PROVE Life!TypeOK'
  BY <1>5 DEF Life!Fill, Life!FillFrom
<1>6. ASSUME NEW c \in Life!Channels, Life!NextNothing(c) PROVE Life!TypeOK'
  BY <1>6 DEF Life!NextNothing
<1>7. ASSUME NEW c \in Life!Channels, Life!NextTask(c) PROVE Life!TypeOK'
  <2>1. Head(buffers[c]) \in Life!Kinds /\ Tail(buffers[c]) \in Seq(Life!Kinds)
    BY <1>7 DEF Life!NextTask
  <2>2. thread' \in [Life!Threads -> Life!Kinds \cup {"none", "spin", "loop", "next", "ended"}]
    BY <1>7, <2>1 DEF Life!NextTask
  <2>3. queue' \in [Life!Channels -> Seq(Life!Kinds)] /\ buffers' \in [Life!Channels -> Seq(Life!Kinds)]
    <3>1. Life!Refill(c, Tail(buffers[c]))
      BY <1>7 DEF Life!NextTask
    <3>2. CASE Life!FillFrom(c, Tail(buffers[c]))
      BY <2>1, <3>2 DEF Life!FillFrom
    <3>3. CASE buffers' = [buffers EXCEPT ![c] = Tail(buffers[c])] /\ UNCHANGED queue
      BY <2>1, <3>3
    <3> QED
      BY <3>1, <3>2, <3>3 DEF Life!Refill
  <2> QED
    BY <1>7, <2>2, <2>3 DEF Life!NextTask
<1>8. ASSUME NEW c \in Life!Channels, Life!ExecuteOnce(c) \/ Life!ExecuteStops(c) PROVE Life!TypeOK'
  BY <1>8 DEF Life!ExecuteOnce, Life!ExecuteStops
<1>9. ASSUME NEW c \in Life!Channels, Life!ExecuteAgain(c) \/ Life!ExecuteAsks(c) PROVE Life!TypeOK'
  <2>1. CASE Life!ExecuteAgain(c)
    BY <2>1 DEF Life!ExecuteAgain, Life!Kinds
  <2>2. CASE Life!ExecuteAsks(c)
    BY <2>2 DEF Life!ExecuteAsks, Life!Kinds
  <2> QED
    BY <1>9, <2>1, <2>2
<1> QED
  BY <1>1, <1>2, <1>3, <1>4, <1>5, <1>6, <1>7, <1>8, <1>9 DEF Life!Next, Life!WorkerStep

-----------------------------------------------------------------------------
(* Quiet outside of start_and_wait. *)

LEMMA LifecycleStep ==
    ASSUME Life!LifecycleAssumption
    PROVE  Life!TypeOK /\ QuietInv /\ [Life!Next]_(Life!vars) => QuietInv'
<1> SUFFICES ASSUME Life!TypeOK, QuietInv, [Life!Next]_(Life!vars) PROVE QuietInv'
  OBVIOUS
<1> USE ThreadFacts DEF Life!TypeOK, QuietInv, Life!Goto, Busy, Life!Kinds
<1>1. CASE UNCHANGED Life!vars
  BY <1>1 DEF Life!vars
<1>2. ASSUME NEW tasks \in Life!SpawnedTasks, Life!Start(tasks) PROVE QuietInv'
  BY <1>2 DEF Life!Start
<1>3. CASE Life!MainStep
  <2>1. CASE Life!RaiseFlag
    BY <2>1 DEF Life!RaiseFlag
  <2>2. CASE Life!Join
    BY <2>2 DEF Life!Join
  <2>3. CASE Life!ReclaimAll
    BY <2>3 DEF Life!ReclaimAll
  <2> QED
    BY <1>3, <2>1, <2>2, <2>3 DEF Life!MainStep
<1>4. ASSUME NEW t \in Life!Threads, Life!ThreadStep(t) PROVE QuietInv'
  <2>1. CASE Life!SeeStart(t)
    BY <2>1 DEF Life!SeeStart
  <2>2. CASE Life!SeeStop(t)
    BY <2>2 DEF Life!SeeStop
  <2> QED
    BY <1>4, <2>1, <2>2 DEF Life!ThreadStep
<1>5. ASSUME NEW c \in Life!Channels, Life!Fill(c) PROVE QuietInv'
  BY <1>5 DEF Life!Fill, Life!FillFrom
<1>6. ASSUME NEW c \in Life!Channels, Life!NextNothing(c) PROVE QuietInv'
  BY <1>6 DEF Life!NextNothing
<1>7. ASSUME NEW c \in Life!Channels, Life!NextTask(c) PROVE QuietInv'
  <2>1. Head(buffers[c]) \in Life!Kinds
    <3>1. buffers[c] \in Seq(Life!Kinds) /\ buffers[c] # <<>>
      BY <1>7 DEF Life!NextTask
    <3> QED
      BY ONLY <3>1
  <2>2. \A d \in Life!Channels \ {c} : buffers'[d] = buffers[d]
    <3>1. Life!Refill(c, Tail(buffers[c]))
      BY <1>7 DEF Life!NextTask
    <3>2. PICK b : buffers' = [buffers EXCEPT ![c] = b]
      BY <3>1, Zenon DEF Life!Refill, Life!FillFrom
    <3> QED
      BY <3>2
  <2> QED
    BY <1>7, <2>1, <2>2 DEF Life!NextTask
<1>8. ASSUME NEW c \in Life!Channels, Life!ExecuteOnce(c) \/ Life!ExecuteStops(c) PROVE QuietInv'
  <2>1. CASE Life!ExecuteOnce(c)
    BY <2>1 DEF Life!ExecuteOnce
  <2>2. CASE Life!ExecuteStops(c)
    BY <2>2 DEF Life!ExecuteStops
  <2> QED
    BY <1>8, <2>1, <2>2
<1>9. ASSUME NEW c \in Life!Channels, Life!ExecuteAgain(c) \/ Life!ExecuteAsks(c) PROVE QuietInv'
  <2>1. CASE Life!ExecuteAgain(c)
    BY <2>1 DEF Life!ExecuteAgain
  <2>2. CASE Life!ExecuteAsks(c)
    BY <2>2 DEF Life!ExecuteAsks
  <2> QED
    BY <1>9, <2>1, <2>2
<1> QED
  BY <1>1, <1>2, <1>3, <1>4, <1>5, <1>6, <1>7, <1>8, <1>9 DEF Life!Next, Life!WorkerStep

LEMMA LifecycleInvariant ==
    ASSUME Life!LifecycleAssumption
    PROVE  Life!Spec => [](Life!TypeOK /\ QuietInv)
<1>1. Life!Init => Life!TypeOK /\ QuietInv
  BY LifecycleInit
<1>2. Life!TypeOK /\ QuietInv /\ [Life!Next]_(Life!vars) => (Life!TypeOK /\ QuietInv)'
  BY LifecycleType, LifecycleStep
<1> QED
  BY <1>1, <1>2, PTL DEF Life!Spec

(* TypeOK: workers only meet tasks that were spawned or made as successors.  *)
THEOREM LifecycleTypeCorrect ==
    Life!Spec => []Life!TypeOK
<1>0. Life!LifecycleAssumption
  BY RuntimeAssumption
<1>1. Life!Spec => [](Life!TypeOK /\ QuietInv)
  BY <1>0, LifecycleInvariant
<1> QED
  BY <1>1, PTL

(* QuietOutside: when start_and_wait reclaims the garbage and returns, no    *)
(* thread is left that could use an object, and no buffer holds a task.      *)
THEOREM QuietWhenReturned ==
    Life!Spec => []QuietOutside
<1>0. Life!LifecycleAssumption
  BY RuntimeAssumption
<1>1. Life!TypeOK /\ QuietInv => QuietOutside
  BY <1>0, ThreadFacts DEF QuietInv, QuietOutside, Life!QuietOutside, Busy, Life!Kinds
<1>2. Life!Spec => [](Life!TypeOK /\ QuietInv)
  BY <1>0, LifecycleInvariant
<1> QED
  BY <1>1, <1>2, PTL

=============================================================================
