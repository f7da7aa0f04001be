------------------------- MODULE SingleWriterProofs -------------------------
(***************************************************************************)
(* Proofs about the structures whose plain stores are right as long as one *)
(* thread at a time makes them.  SpscQueue: for every ring size and every  *)
(* set of values; types hold for any threads, the rest needs one producer  *)
(* and one consumer.  Binlog: for any threads, any slots and every ring    *)
(* size; a slot that two threads wrote at once is told apart by the        *)
(* history `mixed'.  Metrics: for any threads and any number of cores; a   *)
(* core that two reports measured at once is told apart by `crowded'.      *)
(***************************************************************************)
EXTENDS SpscQueue, Binlog, Metrics, RingArith, SequenceTheorems, FiniteSetTheorems

\* (i + 1) & mask stays in the ring: one up, or back to slot 0.
LEMMA SuccValue ==
  ASSUME NEW i \in Slots
  PROVE  /\ Succ(i) \in Slots
         /\ Succ(i) = IF i = N - 1 THEN 0 ELSE i + 1
<1> USE NAssumption DEF Slots, Succ
<1>1. CASE i = N - 1
  <2>1. (0 + N) % N = 0 % N
    BY NextLap
  <2>2. 0 % N = 0
    BY FirstLap
  <2>3. (i + 1) % N = 0
    BY <1>1, <2>1, <2>2
  <2> QED
    BY <1>1, <2>3
<1>2. CASE i # N - 1
  <2>1. i + 1 \in Nat /\ i + 1 < N
    BY <1>2
  <2>2. (i + 1) % N = i + 1
    BY <2>1, FirstLap
  <2> QED
    BY <1>2, <2>1, <2>2
<1> QED
  BY <1>1, <1>2

-----------------------------------------------------------------------------
\* Every variable of queue_spsc.c keeps its type, however many threads push and
\* pop: head and tail never leave the ring.
THEOREM SpscTypeCorrect == Spec => []TypeOK
<1>1. Init => TypeOK
  BY NAssumption DEF Init, TypeOK, Slots
<1>2. TypeOK /\ [Next]_vars => TypeOK'
  <2> SUFFICES ASSUME TypeOK, [Next]_vars PROVE TypeOK'
    OBVIOUS
  <2>0. 0 \in Slots
    BY NAssumption DEF Slots
  <2> USE <2>0 DEF TypeOK, Goto, Return, PushPcs, PopPcs, Threads
  <2>1. ASSUME NEW t \in Producers, NEW v \in Values, PushCall(t, v) PROVE TypeOK'
    BY <2>1 DEF PushCall
  <2>2. ASSUME NEW t \in Producers, PushStep(t) PROVE TypeOK'
    <3>1. Succ(idx[t]) \in Slots
      BY SuccValue
    <3> QED
      BY <2>2, <3>1 DEF PushStep, PushFull, PushRoom, PushData, PushTail, PushReturn
  <2>3. ASSUME NEW t \in Consumers, PopCall(t) PROVE TypeOK'
    BY <2>3 DEF PopCall
  <2>4. ASSUME NEW t \in Consumers, PopStep(t) PROVE TypeOK'
    <3>1. Succ(idx[t]) \in Slots
      BY SuccValue
    <3> QED
      BY <2>4, <3>1 DEF PopStep, PopEmpty, PopReady, PopData, PopHead, PopReturn
  <2>5. CASE UNCHANGED vars
    BY <2>5 DEF vars
  <2> QED
    BY <2>1, <2>2, <2>3, <2>4, <2>5 DEF Next
<1> QED
  BY <1>1, <1>2, PTL DEF Spec

-----------------------------------------------------------------------------
\* A slot that is not occupied is not between head and tail.
LEMMA TailFree == ASSUME TypeOK PROVE tail \notin Occupied
  BY NAssumption DEF TypeOK, Occupied, Slots

\* Storing tail adds the slot that was written, and only that one.
LEMMA OccupiedAfterPush ==
  ASSUME TypeOK, Succ(tail) # head, tail' = Succ(tail), head' = head
  PROVE  Occupied' = Occupied \cup {tail}
<1>1. Succ(tail) \in Slots /\ Succ(tail) = IF tail = N - 1 THEN 0 ELSE tail + 1
  BY SuccValue DEF TypeOK
<1> QED
  BY <1>1, NAssumption DEF TypeOK, Occupied, Slots

\* Storing head removes the slot that was read, and only that one.
LEMMA OccupiedAfterPop ==
  ASSUME TypeOK, head # tail, head' = Succ(head), tail' = tail
  PROVE  Occupied' = Occupied \ {head} /\ head \in Occupied
<1>1. Succ(head) \in Slots /\ Succ(head) = IF head = N - 1 THEN 0 ELSE head + 1
  BY SuccValue DEF TypeOK
<1> QED
  BY <1>1, NAssumption DEF TypeOK, Occupied, Slots

\* A pop that makes room cannot make the ring look full to a push that saw room.
LEMMA RoomStays ==
  ASSUME TypeOK, head # tail
  PROVE  Succ(tail) # Succ(head)
<1>1. /\ Succ(head) = IF head = N - 1 THEN 0 ELSE head + 1
      /\ Succ(tail) = IF tail = N - 1 THEN 0 ELSE tail + 1
  BY SuccValue DEF TypeOK
<1> QED
  BY <1>1, NAssumption DEF TypeOK, Slots

-----------------------------------------------------------------------------
\* A step of the producer.
LEMMA ProducerStep ==
  ASSUME Disciplined, TypeOK, TypeOK', RingInv, NEW t \in Producers,
         (\E v \in Values : PushCall(t, v)) \/ PushStep(t)
  PROVE  RingInv'
<1> USE SidesAssumption DEF RingInv, SideInv, NoNullItem, Goto, Return, TypeOK, Threads
<1>0. \A u \in Producers : u = t
  BY DEF Disciplined
<1>1. ASSUME NEW v \in Values, PushCall(t, v) PROVE RingInv'
  <2>1. Occupied' = Occupied
    BY <1>1 DEF PushCall, Occupied, Slots
  <2> QED
    BY <1>0, <1>1, <2>1 DEF PushCall, PushPcs, PopPcs
<1>2. CASE PushFull(t)
  <2>1. Occupied' = Occupied
    BY <1>2 DEF PushFull, Occupied, Slots
  <2> QED
    BY <1>0, <1>2, <2>1 DEF PushFull, PushPcs, PopPcs
<1>3. CASE PushRoom(t)
  <2>1. Occupied' = Occupied
    BY <1>3 DEF PushRoom, Occupied, Slots
  <2> QED
    BY <1>0, <1>3, <2>1 DEF PushRoom, PushPcs, PopPcs
<1>4. CASE PushData(t)
  <2>1. Occupied' = Occupied
    BY <1>4 DEF PushData, Occupied, Slots
  <2>2. idx[t] = tail /\ tail \notin Occupied /\ val[t] \in Values
    BY <1>4, TailFree DEF PushData, PushPcs
  <2>4. \A c \in Consumers : pc[c] = "pop_head" => buffer'[head] = buffer[head]
    BY <1>4, <2>2 DEF PushData
  <2>3. NoNullItem'
    BY <1>0, <1>4, <2>1, <2>2 DEF PushData, Occupied, Slots
  <2> QED
    BY <1>0, <1>4, <2>2, <2>3, <2>4 DEF PushData, PushPcs, PopPcs
<1>5. CASE PushTail(t)
  <2>1. /\ idx[t] = tail /\ Succ(tail) # head /\ buffer[tail] \in Values
        /\ tail' = Succ(tail) /\ head' = head
    BY <1>5 DEF PushTail
  <2>2. Occupied' = Occupied \cup {tail}
    BY <2>1, OccupiedAfterPush
  <2>3. NoNullItem'
    BY <1>0, <1>5, <2>1, <2>2 DEF PushTail
  <2>4. SideInv'
    BY <1>0, <1>5, <2>1 DEF PushTail, PushPcs, PopPcs
  <2> QED
    BY <2>3, <2>4
<1>6. CASE PushReturn(t)
  <2>1. Occupied' = Occupied
    BY <1>6 DEF PushReturn, Occupied, Slots
  <2> QED
    BY <1>0, <1>6, <2>1 DEF PushReturn, PushPcs, PopPcs
<1> QED
  BY <1>1, <1>2, <1>3, <1>4, <1>5, <1>6 DEF PushStep

\* A step of the consumer.
LEMMA ConsumerStep ==
  ASSUME Disciplined, TypeOK, TypeOK', RingInv, NEW t \in Consumers,
         PopCall(t) \/ PopStep(t)
  PROVE  RingInv'
<1> USE SidesAssumption DEF RingInv, SideInv, NoNullItem, Goto, Return, TypeOK, Threads
<1>0. \A u \in Consumers : u = t
  BY DEF Disciplined
<1>1. CASE PopCall(t)
  <2>1. Occupied' = Occupied
    BY <1>1 DEF PopCall, Occupied, Slots
  <2> QED
    BY <1>0, <1>1, <2>1 DEF PopCall, PushPcs, PopPcs
<1>2. CASE PopEmpty(t)
  <2>1. Occupied' = Occupied
    BY <1>2 DEF PopEmpty, Occupied, Slots
  <2> QED
    BY <1>0, <1>2, <2>1 DEF PopEmpty, PushPcs, PopPcs
<1>3. CASE PopReady(t)
  <2>1. Occupied' = Occupied
    BY <1>3 DEF PopReady, Occupied, Slots
  <2> QED
    BY <1>0, <1>3, <2>1 DEF PopReady, PushPcs, PopPcs
<1>4. CASE PopData(t)
  <2>1. Occupied' = Occupied
    BY <1>4 DEF PopData, Occupied, Slots
  <2>2. idx[t] = head /\ head # tail
    BY <1>4 DEF PopData
  <2>3. head \in Occupied
    BY <2>2 DEF Occupied, Slots
  <2>4. NoNullItem'
    BY <1>0, <1>4, <2>1, <2>2, <2>3 DEF PopData
  <2> QED
    BY <1>0, <1>4, <2>2, <2>4 DEF PopData, PushPcs, PopPcs
<1>5. CASE PopHead(t)
  <2>1. /\ idx[t] = head /\ head # tail /\ val[t] \in Values
        /\ head' = Succ(head) /\ tail' = tail
    BY <1>5 DEF PopHead
  <2>2. Occupied' = Occupied \ {head} /\ Succ(tail) # Succ(head)
    BY <2>1, OccupiedAfterPop, RoomStays
  <2>3. NoNullItem'
    BY <1>0, <1>5, <2>1, <2>2 DEF PopHead
  <2>4. SideInv'
    BY <1>0, <1>5, <2>1, <2>2 DEF PopHead, PushPcs, PopPcs
  <2> QED
    BY <2>3, <2>4
<1>6. CASE PopReturn(t)
  <2>1. Occupied' = Occupied
    BY <1>6 DEF PopReturn, Occupied, Slots
  <2> QED
    BY <1>0, <1>6, <2>1 DEF PopReturn, PushPcs, PopPcs
<1> QED
  BY <1>1, <1>2, <1>3, <1>4, <1>5, <1>6 DEF PopStep

\* With one producer and one consumer, what each side read of its own index stays
\* current, its check cannot be spoilt by the other side, and every occupied slot
\* holds an item: queue_spsc.c needs no compare-and-swap.
THEOREM RingSafety == Disciplined => (Spec => []RingInv)
<1> SUFFICES ASSUME Disciplined PROVE Spec => []RingInv
  OBVIOUS
<1>1. Init => RingInv
  BY NAssumption DEF Init, RingInv, SideInv, NoNullItem, Occupied, Threads, Slots,
       PushPcs, PopPcs
<1>2. TypeOK /\ TypeOK' /\ RingInv /\ [Next]_vars => RingInv'
  <2> SUFFICES ASSUME TypeOK, TypeOK', RingInv, [Next]_vars PROVE RingInv'
    OBVIOUS
  <2>1. CASE UNCHANGED vars
    <3>1. Occupied' = Occupied
      BY <2>1 DEF vars, Occupied, Slots
    <3> QED
      BY <2>1, <3>1 DEF vars, RingInv, SideInv, NoNullItem
  <2>2. CASE Next
    BY <2>2, ProducerStep, ConsumerStep DEF Next
  <2> QED
    BY <2>1, <2>2
<1> QED
  BY <1>1, <1>2, SpscTypeCorrect, PTL DEF Spec

\* No data race on buffer[]: the slot being written is never one being read.
THEOREM NoSlotRace == Disciplined => (Spec => []SlotExclusive)
<1> SUFFICES ASSUME Disciplined PROVE Spec => []SlotExclusive
  OBVIOUS
<1>1. TypeOK /\ RingInv => SlotExclusive
  BY TailFree DEF RingInv, SideInv, SlotExclusive
<1> QED
  BY <1>1, RingSafety, SpscTypeCorrect, PTL

-----------------------------------------------------------------------------
\* The slot of the i-th item of a ring whose head is h, without the modulus.
LEMMA ItemSlot ==
  ASSUME NEW h \in Slots, NEW i \in 1 .. N
  PROVE  /\ (h + i - 1) % N \in Slots
         /\ (h + i - 1) % N = IF h + i - 1 < N THEN h + i - 1 ELSE h + i - 1 - N
<1> USE NAssumption DEF Slots
<1>1. CASE h + i - 1 < N
  BY <1>1, FirstLap
<1>2. CASE h + i - 1 >= N
  <2>1. h + i - 1 - N \in Nat /\ h + i - 1 - N < N
    BY <1>2
  <2>2. (h + i - 1 - N + N) % N = (h + i - 1 - N) % N
    BY <2>1, NextLap
  <2>3. (h + i - 1 - N) % N = h + i - 1 - N
    BY <2>1, FirstLap
  <2>4. h + i - 1 - N + N = h + i - 1
    BY <2>1
  <2> QED
    BY <1>2, <2>1, <2>2, <2>3, <2>4
<1> QED
  BY <1>1, <1>2

\* The ring's contents are a sequence of at most N - 1 items.
LEMMA ContentsSeq ==
  ASSUME TypeOK
  PROVE  /\ Count \in 0 .. N - 1
         /\ Contents \in Seq(Values \cup {NULL})
         /\ Len(Contents) = Count
         /\ \A i \in 1 .. Count : Contents[i] = buffer[(head + i - 1) % N]
<1>1. Count \in 0 .. N - 1
  BY NAssumption DEF TypeOK, Count, Slots
<1>2. \A i \in 1 .. Count : buffer[(head + i - 1) % N] \in Values \cup {NULL}
  <2> TAKE i \in 1 .. Count
  <2>1. i \in 1 .. N
    BY <1>1, NAssumption
  <2>2. (head + i - 1) % N \in Slots
    BY <2>1, ItemSlot DEF TypeOK
  <2> QED
    BY <2>2 DEF TypeOK
<1> QED
  BY <1>1, <1>2 DEF Contents

\* Storing tail appends the item that was written.
LEMMA ContentsAfterPush ==
  ASSUME TypeOK, TypeOK', Succ(tail) # head, tail' = Succ(tail),
         head' = head, buffer' = buffer
  PROVE  Count < N - 1 /\ Contents' = Append(Contents, buffer[tail])
<1>1. Succ(tail) = IF tail = N - 1 THEN 0 ELSE tail + 1
  BY SuccValue DEF TypeOK
<1>2. Count' = Count + 1 /\ Count < N - 1 /\ Count \in Nat
  BY <1>1, NAssumption DEF TypeOK, Count, Slots
<1>3. (head + (Count + 1) - 1) % N = tail
  <2> DEFINE i == Count + 1
  <2>1. i \in 1 .. N
    BY <1>2, NAssumption
  <2>2. head + i - 1 = IF head <= tail THEN tail ELSE tail + N
    BY NAssumption DEF TypeOK, Count, Slots
  <2> HIDE DEF i
  <2>3. (head + i - 1) % N = IF head + i - 1 < N THEN head + i - 1 ELSE head + i - 1 - N
    BY <2>1, ItemSlot DEF TypeOK
  <2> DEFINE slot == (head + i - 1) % N
  <2>4. slot = tail
    <3> slot = IF head + i - 1 < N THEN head + i - 1 ELSE head + i - 1 - N
      BY <2>3
    <3> HIDE DEF slot
    <3> QED
      BY <2>1, <2>2, NAssumption DEF TypeOK, Slots
  <2> QED
    BY <2>4 DEF i
<1>4. Contents' = [i \in 1 .. Count + 1 |-> buffer[(head + i - 1) % N]]
  BY <1>2 DEF Contents
<1> DEFINE s == Contents
<1>5. s \in Seq(Values \cup {NULL}) /\ Len(s) = Count
      /\ \A i \in 1 .. Count : s[i] = buffer[(head + i - 1) % N]
  BY ContentsSeq
<1> HIDE DEF s
<1>6. Append(s, buffer[tail]) = [i \in 1 .. Count + 1 |-> buffer[(head + i - 1) % N]]
  BY <1>2, <1>3, <1>5
<1> QED
  BY <1>2, <1>4, <1>6 DEF s

\* Storing head removes the oldest item.
LEMMA ContentsAfterPop ==
  ASSUME TypeOK, TypeOK', head # tail, head' = Succ(head),
         tail' = tail, buffer' = buffer
  PROVE  /\ Contents # << >> /\ Head(Contents) = buffer[head]
         /\ Contents' = Tail(Contents)
<1>1. Succ(head) = IF head = N - 1 THEN 0 ELSE head + 1
  BY SuccValue DEF TypeOK
<1>2. Count' = Count - 1 /\ Count \in 1 .. N - 1
  BY <1>1, NAssumption DEF TypeOK, Count, Slots
<1> DEFINE s == Contents
<1>3. s \in Seq(Values \cup {NULL}) /\ Len(s) = Count
      /\ \A i \in 1 .. Count : s[i] = buffer[(head + i - 1) % N]
  BY ContentsSeq
<1>4. (head + 1 - 1) % N = head
  <2>1. head + 1 - 1 = head /\ head \in Nat /\ head < N
    BY NAssumption DEF TypeOK, Slots
  <2> QED
    BY <2>1, FirstLap, NAssumption
<1>5. \A i \in 1 .. Count - 1 : (head' + i - 1) % N = (head + (i + 1) - 1) % N
  <2> TAKE i \in 1 .. Count - 1
  <2>1. i \in 1 .. N /\ i + 1 \in 1 .. N
    BY <1>2, NAssumption
  <2>2. (head + (i + 1) - 1) % N
          = IF head + (i + 1) - 1 < N THEN head + (i + 1) - 1 ELSE head + (i + 1) - 1 - N
    BY <2>1, ItemSlot DEF TypeOK
  <2>3. (head' + i - 1) % N
          = IF head' + i - 1 < N THEN head' + i - 1 ELSE head' + i - 1 - N
    BY <2>1, ItemSlot DEF TypeOK
  <2>4. head \in 0 .. N - 1 /\ head' = IF head = N - 1 THEN 0 ELSE head + 1
    BY <1>1 DEF TypeOK, Slots
  <2> HIDE DEF Count
  <2> QED
    BY <2>1, <2>2, <2>3, <2>4, NAssumption
<1>6. Contents' = [i \in 1 .. Count - 1 |-> buffer[(head' + i - 1) % N]]
  BY <1>2 DEF Contents
<1> HIDE DEF s
<1>7. s # << >> /\ Head(s) = buffer[head]
  BY <1>2, <1>3, <1>4
<1>8. Tail(s) = [i \in 1 .. Count - 1 |-> buffer[(head' + i - 1) % N]]
  <2>1. /\ Tail(s) \in Seq(Values \cup {NULL}) /\ Len(Tail(s)) = Count - 1
        /\ \A i \in 1 .. Count - 1 : Tail(s)[i] = s[i + 1]
    BY <1>2, <1>3, <1>7, HeadTailProperties
  <2>2. \A i \in 1 .. Count - 1 : s[i + 1] = buffer[(head' + i - 1) % N]
    BY <1>2, <1>3, <1>5
  <2> DEFINE r == Tail(s)
             b(i) == buffer[(head' + i - 1) % N]
  <2>3. r \in [1 .. Count - 1 -> Values \cup {NULL}] /\ \A i \in 1 .. Count - 1 : r[i] = b(i)
    <3>1. \A i \in 1 .. Count - 1 : r[i] = b(i)
      BY <2>1, <2>2
    <3>2. r \in Seq(Values \cup {NULL}) /\ Len(r) = Count - 1
      BY <2>1
    <3> HIDE DEF r
    <3>3. r \in [1 .. Count - 1 -> Values \cup {NULL}]
      BY <3>2
    <3> QED
      BY <3>1, <3>3
  <2> HIDE DEF r, b
  <2>4. r = [i \in 1 .. Count - 1 |-> b(i)]
    BY <2>3
  <2> QED
    BY <2>4 DEF r, b
<1> QED
  BY <1>6, <1>7, <1>8 DEF s

-----------------------------------------------------------------------------
\* A step of thread t changes what the caller sees of t's call, and nothing else.
LEMMA ViewStep ==
  ASSUME NEW t \in Threads,
         \A u \in Threads \ {t} : pc'[u] = pc[u] /\ val'[u] = val[u]
  PROVE  /\ [u \in Threads |-> Phase(u)]' = [[u \in Threads |-> Phase(u)] EXCEPT ![t] = Phase(t)']
         /\ [u \in Threads |-> Held(u)]' = [[u \in Threads |-> Held(u)] EXCEPT ![t] = Held(t)']
<1>1. \A u \in Threads \ {t} : Phase(u)' = Phase(u)
  BY DEF Phase
<1>2. \A u \in Threads \ {t} : Held(u)' = Held(u)
  BY DEF Held
<1> QED
  BY <1>1, <1>2

\* The contents depend on the shared fields only.
LEMMA SameContents ==
  ASSUME UNCHANGED <<head, tail, buffer>>
  PROVE  Contents' = Contents
  BY DEF Contents, Count

\* Writing the slot at tail, which holds no item, leaves the contents alone.
LEMMA ContentsAfterData ==
  ASSUME TypeOK, NEW v, buffer' = [buffer EXCEPT ![tail] = v], UNCHANGED <<head, tail>>
  PROVE  Contents' = Contents
<1>1. Count' = Count /\ Count \in 0 .. N - 1
  BY ContentsSeq DEF Count
<1>2. \A i \in 1 .. Count : buffer'[(head + i - 1) % N] = buffer[(head + i - 1) % N]
  <2> TAKE i \in 1 .. Count
  <2>1. i \in 1 .. N
    BY <1>1, NAssumption
  <2> DEFINE slot == (head + i - 1) % N
  <2>2. slot \in Slots /\ slot = IF head + i - 1 < N THEN head + i - 1 ELSE head + i - 1 - N
    BY <2>1, ItemSlot DEF TypeOK
  <2> HIDE DEF slot
  <2>3. slot # tail
    BY <2>1, <2>2, NAssumption DEF TypeOK, Slots, Count
  <2>4. buffer'[slot] = buffer[slot]
    BY <2>2, <2>3 DEF TypeOK
  <2> QED
    BY <2>4 DEF slot
<1> QED
  BY <1>1, <1>2 DEF Contents

\* The ring looks full to a push that sees head one slot ahead of its tail, and
\* empty to a pop that sees tail at its head: it then holds N - 1 items, or none.
LEMMA FullAndEmpty ==
  ASSUME TypeOK
  PROVE  /\ Succ(tail) = head => Len(Contents) = N - 1
         /\ head = tail => Contents = << >>
<1>1. Succ(tail) = IF tail = N - 1 THEN 0 ELSE tail + 1
  BY SuccValue DEF TypeOK
<1>2. Succ(tail) = head => Count = N - 1
  BY <1>1, NAssumption DEF TypeOK, Slots, Count
<1>3. head = tail => Count = 0
  BY NAssumption DEF TypeOK, Slots, Count
<1> QED
  BY <1>2, <1>3, ContentsSeq, EmptySeq

\* A step of the producer is a step of the bounded FIFO, or none.
LEMMA ProducerSimulation ==
  ASSUME Disciplined, TypeOK, TypeOK', RingInv, NEW t \in Producers,
         (\E v \in Values : PushCall(t, v)) \/ PushStep(t)
  PROVE  Fifo!FifoNext \/ UNCHANGED Fifo!fifoVars
<1> DEFINE S == [u \in Threads |-> Phase(u)]
           A == [u \in Threads |-> Held(u)]
<1>0. t \in Threads
  BY DEF Threads
<1> USE <1>0 DEF Goto, Return, TypeOK
<1>1. ASSUME NEW v \in Values, PushCall(t, v) PROVE Fifo!FifoNext
  <2>1. Phase(t) = "idle" /\ Phase(t)' = "push" /\ Held(t)' = v
    BY <1>1 DEF PushCall, Phase, Held
  <2>2. S' = [S EXCEPT ![t] = "push"] /\ A' = [A EXCEPT ![t] = v]
    BY <1>1, <2>1, ViewStep DEF PushCall
  <2>3. Contents' = Contents
    BY <1>1, SameContents DEF PushCall
  <2>4. Fifo!CallPush(t, v)
    BY <2>1, <2>2, <2>3 DEF Fifo!CallPush, Fifo!Goto
  <2> QED
    BY <2>4 DEF Fifo!FifoNext
<1>2. CASE PushFull(t)
  <2>1. Phase(t) = "push" /\ Phase(t)' = "idle" /\ Held(t)' = NULL
    BY <1>2 DEF PushFull, Phase, Held
  <2>2. S' = [S EXCEPT ![t] = "idle"] /\ A' = [A EXCEPT ![t] = NULL]
    BY <1>2, <2>1, ViewStep DEF PushFull
  <2>3. Contents' = Contents /\ Len(Contents) = N - 1
    BY <1>2, SameContents, FullAndEmpty DEF PushFull, RingInv, SideInv
  <2>4. Fifo!PushFull(t)
    BY <2>1, <2>2, <2>3 DEF Fifo!PushFull, Fifo!Goto
  <2> QED
    BY <2>4 DEF Fifo!FifoNext
<1>3. CASE PushRoom(t) \/ PushData(t)
  <2>1. Phase(t)' = Phase(t) /\ Held(t)' = Held(t)
    BY <1>3 DEF PushRoom, PushData, Phase, Held
  <2>2. S' = S /\ A' = A
    BY <1>3, <2>1, ViewStep DEF PushRoom, PushData
  <2>3. Contents' = Contents
    BY <1>3, SameContents, ContentsAfterData DEF PushRoom, PushData, RingInv, SideInv
  <2> QED
    BY <2>2, <2>3 DEF Fifo!fifoVars
<1>4. CASE PushTail(t)
  <2>1. Phase(t) = "push" /\ Phase(t)' = "putting" /\ Held(t)' = Held(t) /\ Held(t) = val[t]
    BY <1>4 DEF PushTail, Phase, Held
  <2>2. S' = [S EXCEPT ![t] = "putting"] /\ A' = A
    BY <1>4, <2>1, ViewStep DEF PushTail
  <2>3. /\ Succ(tail) # head /\ tail' = Succ(tail) /\ head' = head /\ buffer' = buffer
        /\ buffer[tail] = val[t]
    BY <1>4 DEF PushTail, RingInv, SideInv
  <2>4. Count < N - 1 /\ Contents' = Append(Contents, val[t])
    BY <2>3, ContentsAfterPush
  <2>5. Len(Contents) < N - 1
    BY <2>4, ContentsSeq
  <2>6. Fifo!Enqueue(t)
    BY <2>1, <2>2, <2>4, <2>5 DEF Fifo!Enqueue, Fifo!Goto
  <2> QED
    BY <2>6 DEF Fifo!FifoNext
<1>5. CASE PushReturn(t)
  <2>1. Phase(t) = "putting" /\ Phase(t)' = "idle" /\ Held(t)' = NULL
    BY <1>5 DEF PushReturn, Phase, Held
  <2>2. S' = [S EXCEPT ![t] = "idle"] /\ A' = [A EXCEPT ![t] = NULL]
    BY <1>5, <2>1, ViewStep DEF PushReturn
  <2>3. Contents' = Contents
    BY <1>5, SameContents DEF PushReturn
  <2>4. Fifo!ReturnPush(t)
    BY <2>1, <2>2, <2>3 DEF Fifo!ReturnPush, Fifo!Goto
  <2> QED
    BY <2>4 DEF Fifo!FifoNext
<1> QED
  BY <1>1, <1>2, <1>3, <1>4, <1>5 DEF PushStep

\* A step of the consumer is a step of the bounded FIFO, or none.
LEMMA ConsumerSimulation ==
  ASSUME Disciplined, TypeOK, TypeOK', RingInv, NEW t \in Consumers,
         PopCall(t) \/ PopStep(t)
  PROVE  Fifo!FifoNext \/ UNCHANGED Fifo!fifoVars
<1> DEFINE S == [u \in Threads |-> Phase(u)]
           A == [u \in Threads |-> Held(u)]
<1>0. t \in Threads
  BY DEF Threads
<1> USE <1>0 DEF Goto, Return, TypeOK
<1>1. CASE PopCall(t)
  <2>1. Phase(t) = "idle" /\ Phase(t)' = "pop" /\ Held(t)' = Held(t)
    BY <1>1 DEF PopCall, Phase, Held
  <2>2. S' = [S EXCEPT ![t] = "pop"] /\ A' = A
    BY <1>1, <2>1, ViewStep DEF PopCall
  <2>3. Contents' = Contents
    BY <1>1, SameContents DEF PopCall
  <2>4. Fifo!CallPop(t)
    BY <2>1, <2>2, <2>3 DEF Fifo!CallPop, Fifo!Goto
  <2> QED
    BY <2>4 DEF Fifo!FifoNext
<1>2. CASE PopEmpty(t)
  <2>1. Phase(t) = "pop" /\ Phase(t)' = "idle" /\ Held(t)' = Held(t)
    BY <1>2 DEF PopEmpty, Phase, Held, RingInv, SideInv
  <2>2. S' = [S EXCEPT ![t] = "idle"] /\ A' = A
    BY <1>2, <2>1, ViewStep DEF PopEmpty
  <2>3. Contents' = Contents /\ Contents = << >>
    BY <1>2, SameContents, FullAndEmpty DEF PopEmpty, RingInv, SideInv
  <2>4. Fifo!PopEmpty(t)
    BY <2>1, <2>2, <2>3 DEF Fifo!PopEmpty, Fifo!Goto
  <2> QED
    BY <2>4 DEF Fifo!FifoNext
<1>3. CASE PopReady(t) \/ PopData(t)
  <2>1. Phase(t)' = Phase(t) /\ Held(t)' = Held(t)
    BY <1>3 DEF PopReady, PopData, Phase, Held, RingInv, SideInv
  <2>2. S' = S /\ A' = A
    BY <1>3, <2>1, ViewStep DEF PopReady, PopData
  <2>3. Contents' = Contents
    BY <1>3, SameContents DEF PopReady, PopData
  <2> QED
    BY <2>2, <2>3 DEF Fifo!fifoVars
<1>4. CASE PopHead(t)
  <2>1. Phase(t) = "pop" /\ Phase(t)' = "taking" /\ Held(t)' = val[t]
    BY <1>4 DEF PopHead, Phase, Held
  <2>2. S' = [S EXCEPT ![t] = "taking"] /\ A' = [A EXCEPT ![t] = val[t]]
    BY <1>4, <2>1, ViewStep DEF PopHead
  <2>3. /\ head # tail /\ head' = Succ(head) /\ tail' = tail /\ buffer' = buffer
        /\ val[t] = buffer[head]
    BY <1>4 DEF PopHead, RingInv, SideInv
  <2>4. Contents # << >> /\ Head(Contents) = val[t] /\ Contents' = Tail(Contents)
    BY <2>3, ContentsAfterPop
  <2>5. Fifo!Dequeue(t)
    BY <2>1, <2>2, <2>4 DEF Fifo!Dequeue, Fifo!Goto
  <2> QED
    BY <2>5 DEF Fifo!FifoNext
<1>5. CASE PopReturn(t)
  <2>1. Phase(t) = "taking" /\ Phase(t)' = "idle" /\ Held(t)' = NULL
    BY <1>5 DEF PopReturn, Phase, Held
  <2>2. S' = [S EXCEPT ![t] = "idle"] /\ A' = [A EXCEPT ![t] = NULL]
    BY <1>5, <2>1, ViewStep DEF PopReturn
  <2>3. Contents' = Contents
    BY <1>5, SameContents DEF PopReturn
  <2>4. Fifo!ReturnPop(t)
    BY <2>1, <2>2, <2>3 DEF Fifo!ReturnPop, Fifo!Goto
  <2> QED
    BY <2>4 DEF Fifo!FifoNext
<1> QED
  BY <1>1, <1>2, <1>3, <1>4, <1>5 DEF PopStep

\* queue_spsc.c with one producer and one consumer implements a bounded FIFO of
\* N - 1 items, for every ring size.
THEOREM SpscRefinement == Disciplined => (Spec => ImplementsFifo)
<1> SUFFICES ASSUME Disciplined PROVE Spec => ImplementsFifo
  OBVIOUS
<1>1. Init => Fifo!FifoInit
  <2> SUFFICES ASSUME Init PROVE Fifo!FifoInit
    OBVIOUS
  <2>1. Count = 0
    BY DEF Init, Count
  <2>2. Contents = << >>
    BY <2>1 DEF Contents
  <2>3. \A t \in Threads : Phase(t) = "idle" /\ Held(t) = NULL
    BY DEF Init, Phase, Held
  <2> QED
    BY <2>2, <2>3 DEF Fifo!FifoInit
<1>2. TypeOK /\ TypeOK' /\ RingInv /\ [Next]_vars => [Fifo!FifoNext]_(Fifo!fifoVars)
  <2> SUFFICES ASSUME TypeOK, TypeOK', RingInv, [Next]_vars
               PROVE  Fifo!FifoNext \/ UNCHANGED Fifo!fifoVars
    OBVIOUS
  <2>1. CASE UNCHANGED vars
    <3>1. Contents' = Contents
      BY <2>1, SameContents DEF vars
    <3>2. \A t \in Threads : Phase(t)' = Phase(t) /\ Held(t)' = Held(t)
      BY <2>1 DEF vars, Phase, Held
    <3> QED
      BY <3>1, <3>2 DEF Fifo!fifoVars
  <2>2. CASE Next
    BY <2>2, ProducerSimulation, ConsumerSimulation DEF Next
  <2> QED
    BY <2>1, <2>2
<1> QED
  BY <1>1, <1>2, SpscTypeCorrect, RingSafety, PTL DEF Spec, ImplementsFifo, Fifo!FifoSpec

-----------------------------------------------------------------------------
(* The binary log's rings.                                                 *)

\* What an entry may hold: the halves of an event, or of none.
Entries == [id : {"none"} \cup Kinds, arg : ({"none"} \cup Loggers) \X Nat]

\* What an img_binlog_cpu_t may hold.
CpuLogs == [entries : Seq(Entries), mask : Nat, tail : Nat, has : BOOLEAN]

\* The thread is between the test for room and the store of the new tail.
Storing(t) == bpc[t] \in {"header", "args", "advance"}

\* The variables have their types.
BinTypes ==
  /\ bstate \in {"unset", "ready", "partial", "destroyed"}
  /\ count \in Nat
  /\ rings \in [CpuIds -> CpuLogs]
  /\ tls \in [Loggers -> CpuIds]
  /\ bpc \in [Loggers -> {"idle", "tail", "header", "args", "advance"}]
  /\ btail \in [Loggers -> Nat]
  /\ event \in [Loggers -> Entries]
  /\ events \in [Loggers -> Nat]
  /\ accepted \in [CpuIds -> Seq(Entries)]

\* A ring's tail is within its mask, which is 0 in a slot without entries.
RingShape(r) ==
  /\ r.tail <= r.mask
  /\ r.has => Len(r.entries) = r.mask + 1
  /\ ~r.has => r.mask = 0

\* Nothing is written before init, and a thread that writes has been counted.
BinEarly ==
  /\ bstate = "unset" => /\ count = 0
                         /\ \A t \in Loggers : bpc[t] = "idle"
                         /\ \A c \in CpuIds : accepted[c] = << >> /\ rings[c].tail = 0
  /\ \A t \in Loggers : bpc[t] # "idle" => events[t] # 0

\* A thread that stores has an entry to store in, in a shared slot too.
HasRoom(t) == Storing(t) => SlotOf(t).has /\ btail[t] < SlotOf(t).mask

\* What a thread alone in its slot has stored so far of the event it was
\* given room for.
InHand(t) ==
  /\ btail[t] = SlotOf(t).tail
  /\ accepted[tls[t]][btail[t] + 1] = event[t]
  /\ bpc[t] \in {"args", "advance"} => EntryOf(t).id = event[t].id
  /\ bpc[t] = "advance" => EntryOf(t).arg = event[t].arg

\* Thread t is writing to slot c.
In(t, c) == tls[t] = c /\ bpc[t] # "idle"

\* A slot that one thread at a time writes.
SlotKept(c) ==
  /\ \A t, u \in Loggers : In(t, c) /\ In(u, c) => t = u
  /\ \A i \in 1 .. rings[c].tail : rings[c].entries[i] = accepted[c][i]
  /\ \A t \in Loggers : In(t, c) /\ Storing(t) =>
       Len(accepted[c]) = rings[c].tail + 1 /\ InHand(t)
  /\ (\A t \in Loggers : ~(In(t, c) /\ Storing(t))) => Len(accepted[c]) = rings[c].tail

\* The inductive invariant of the binary log.
BinInv ==
  /\ BinTypes
  /\ \A c \in CpuIds : RingShape(rings[c])
  /\ BinEarly
  /\ \A t \in Loggers : HasRoom(t)
  /\ ~stray
  /\ \A c \in CpuIds \ mixed : SlotKept(c)

\* Before img_binlog_init.
LEMMA BinInitInv == BinInit => BinInv
<1> SUFFICES ASSUME BinInit PROVE BinInv
  OBVIOUS
<1> USE CpuIdsAssumption DEF BinInit, NoRing
<1>1. NoEvent \in Entries
  BY DEF NoEvent, Entries
<1>2. << >> \in Seq(Entries) /\ Len(<< >>) = 0
  OBVIOUS
<1>3. NoRing \in CpuLogs
  BY <1>2 DEF CpuLogs
<1>4. BinTypes
  BY <1>1, <1>2, <1>3 DEF BinTypes
<1>5. \A c \in CpuIds : RingShape(rings[c])
  BY DEF RingShape
<1>6. BinEarly
  BY DEF BinEarly
<1>7. \A t \in Loggers : HasRoom(t)
  BY DEF HasRoom, Storing
<1>8. \A c \in CpuIds : SlotKept(c)
  BY <1>2 DEF SlotKept, In, Storing
<1> QED
  BY <1>4, <1>5, <1>6, <1>7, <1>8 DEF BinInv

\* A slot that the step does not concern.
LEMMA OtherSlot ==
  ASSUME NEW c \in CpuIds, SlotKept(c),
         rings'[c] = rings[c], accepted'[c] = accepted[c],
         \A t \in Loggers : In(t, c)' <=> In(t, c),
         \A t \in Loggers : In(t, c) => /\ bpc'[t] = bpc[t] /\ btail'[t] = btail[t]
                                        /\ event'[t] = event[t] /\ tls'[t] = tls[t]
  PROVE  SlotKept(c)'
<1>1. \A t \in Loggers : In(t, c) => (Storing(t)' <=> Storing(t)) /\ (InHand(t)' <=> InHand(t))
  BY DEF In, Storing, InHand, SlotOf, EntryOf
<1> QED
  BY <1>1 DEF SlotKept

\* Ring r with entry k replaced by e.
WithEntry(r, k, e) == [r EXCEPT !.entries = [r.entries EXCEPT ![k + 1] = e]]

\* What a store makes of a ring.
LEMMA Stored ==
  ASSUME NEW r \in CpuLogs, NEW e \in Entries, NEW k \in Nat,
         RingShape(r), k < r.mask
  PROVE  /\ WithEntry(r, k, e) \in CpuLogs /\ RingShape(WithEntry(r, k, e))
         /\ WithEntry(r, k, e).mask = r.mask /\ WithEntry(r, k, e).tail = r.tail
         /\ WithEntry(r, k, e).has = r.has /\ WithEntry(r, k, e).entries[k + 1] = e
         /\ \A i \in 1 .. r.mask + 1 :
              i # k + 1 => WithEntry(r, k, e).entries[i] = r.entries[i]
<1> DEFINE es == [r.entries EXCEPT ![k + 1] = e]
<1>1. r.entries \in Seq(Entries) /\ Len(r.entries) = r.mask + 1 /\ r.mask \in Nat
  BY DEF CpuLogs, RingShape
<1>2. k + 1 \in 1 .. Len(r.entries)
  BY <1>1
<1>3. /\ es \in Seq(Entries) /\ Len(es) = r.mask + 1
      /\ \A i \in 1 .. r.mask + 1 : es[i] = IF i = k + 1 THEN e ELSE r.entries[i]
  BY <1>1, <1>2, ExceptSeq
<1>4. PICK s : s = WithEntry(r, k, e)
  OBVIOUS
<1>7. s = [r EXCEPT !.entries = es]
  BY <1>4 DEF WithEntry
<1> HIDE DEF es
<1>5. s \in CpuLogs /\ s.entries = es /\ s.mask = r.mask /\ s.tail = r.tail /\ s.has = r.has
  BY <1>3, <1>7 DEF CpuLogs
<1>6. RingShape(s)
  BY <1>3, <1>5 DEF RingShape
<1> QED
  BY <1>1, <1>2, <1>3, <1>4, <1>5, <1>6

\* The thread's slot is one of the log's, as it should be.
LEMMA OwnSlot ==
  ASSUME BinInv, NEW t \in Loggers
  PROVE  /\ tls[t] \in CpuIds /\ SlotOf(t) \in CpuLogs /\ RingShape(SlotOf(t))
         /\ SlotOf(t).mask \in Nat /\ SlotOf(t).tail \in Nat
         /\ event[t] \in Entries /\ btail[t] \in Nat /\ accepted[tls[t]] \in Seq(Entries)
<1>1. tls[t] \in CpuIds /\ rings[tls[t]] \in CpuLogs
  BY DEF BinInv, BinTypes
<1> QED
  BY <1>1 DEF BinInv, BinTypes, SlotOf, CpuLogs

\* The ring is full when its tail has reached its mask; there is no other
\* way for the next tail to be 0.
LEMMA FullAtMask ==
  ASSUME NEW mask \in Nat, NEW last \in Nat, last <= mask
  PROVE  /\ (last + 1) % (mask + 1) = 0 <=> last = mask
         /\ last < mask => (last + 1) % (mask + 1) = last + 1
<1>1. mask + 1 \in Nat \ {0}
  OBVIOUS
<1>2. CASE last = mask
  <2>1. (0 + (mask + 1)) % (mask + 1) = 0 % (mask + 1)
    BY <1>1, NextLap
  <2>2. 0 % (mask + 1) = 0
    BY <1>1, FirstLap
  <2>3. 0 + (mask + 1) = last + 1
    BY <1>2
  <2> QED
    BY <1>2, <2>1, <2>2, <2>3
<1>3. CASE last < mask
  <2>1. last + 1 \in Nat /\ last + 1 < mask + 1
    BY <1>3
  <2>2. (last + 1) % (mask + 1) = last + 1
    BY <1>1, <2>1, FirstLap
  <2> QED
    BY <1>3, <2>2
<1> QED
  BY <1>2, <1>3

\* img_binlog_init, to its end or to the allocation that failed.
LEMMA BinlogInitStep ==
  ASSUME BinInv, NEW cpus \in 1 .. 2, NEW power \in Powers, NEW good \in 0 .. 2,
         BinlogInit(cpus, power, good)
  PROVE  BinInv'
<1> USE DEF BinlogInit, calling
<1>1. PICK size \in Nat \ {0} : size = 2^power
  BY PowersAssumption
<1>2. NoEvent \in Entries
  BY DEF NoEvent, Entries
<1>3. Ring(size) \in CpuLogs /\ RingShape(Ring(size)) /\ Ring(size).tail = 0
  <2>1. [i \in 1 .. size |-> NoEvent] \in Seq(Entries)
    BY <1>2
  <2>2. Len([i \in 1 .. size |-> NoEvent]) = size
    OBVIOUS
  <2>3. size - 1 \in Nat
    OBVIOUS
  <2> QED
    BY <2>1, <2>2, <2>3 DEF Ring, CpuLogs, RingShape
<1>4. NoRing \in CpuLogs /\ RingShape(NoRing) /\ NoRing.tail = 0
  <2>1. << >> \in Seq(Entries) /\ Len(<< >>) = 0
    OBVIOUS
  <2> QED
    BY <2>1 DEF NoRing, CpuLogs, RingShape
<1>5. rings' = [c \in CpuIds |-> IF c < good THEN Ring(size) ELSE NoRing]
  BY <1>1
<1>6. rings' \in [CpuIds -> CpuLogs] /\ \A c \in CpuIds : RingShape(rings'[c]) /\ rings'[c].tail = 0
  BY <1>3, <1>4, <1>5
<1>7. BinTypes'
  BY <1>6 DEF BinInv, BinTypes
<1>8. BinEarly'
  BY DEF BinInv, BinEarly
<1>9. \A t \in Loggers : bpc'[t] = "idle"
  BY DEF BinInv, BinEarly
<1>10. \A t \in Loggers : HasRoom(t)'
  BY <1>9 DEF HasRoom, Storing
<1>11. \A c \in CpuIds : Len(accepted'[c]) = 0
  BY DEF BinInv, BinEarly
<1>12. \A c \in CpuIds : SlotKept(c)'
  BY <1>6, <1>9, <1>11 DEF SlotKept, In, Storing
<1> QED
  BY <1>6, <1>7, <1>8, <1>10, <1>12 DEF BinInv

\* Destroy, and the naming of a slot by a thread that has written nothing.
LEMMA BinQuietStep ==
  ASSUME BinInv, BinlogDestroy \/ \E t \in Loggers, c \in CpuIds : SetCpu(t, c)
  PROVE  BinInv'
<1>1. CASE BinlogDestroy
  <2> USE <1>1 DEF BinlogDestroy, calling
  <2>1. BinTypes' /\ BinEarly' /\ \A c \in CpuIds : RingShape(rings'[c])
    BY DEF BinInv, BinTypes, BinEarly
  <2>2. \A t \in Loggers : HasRoom(t)'
    BY DEF HasRoom, Storing
  <2>3. \A c \in CpuIds \ mixed' : SlotKept(c)'
    BY OtherSlot DEF BinInv, In
  <2> QED
    BY <2>1, <2>2, <2>3 DEF BinInv
<1>2. ASSUME NEW t \in Loggers, NEW c \in CpuIds, SetCpu(t, c) PROVE BinInv'
  <2> USE <1>2 DEF SetCpu
  <2>1. bpc[t] = "idle"
    BY DEF BinInv, BinEarly
  <2>2. BinTypes' /\ BinEarly' /\ \A d \in CpuIds : RingShape(rings'[d])
    BY DEF BinInv, BinTypes, BinEarly
  <2>3. \A u \in Loggers : u # t => tls'[u] = tls[u]
    BY DEF BinInv, BinTypes
  <2>4. \A u \in Loggers : HasRoom(u)'
    BY <2>1, <2>3 DEF BinInv, HasRoom, Storing, SlotOf
  <2>5. \A d \in CpuIds \ mixed' : SlotKept(d)'
    BY <2>1, <2>3, OtherSlot DEF BinInv, In
  <2> QED
    BY <2>2, <2>4, <2>5 DEF BinInv
<1> QED
  BY <1>1, <1>2

\* A call: the slot is taken, or it was taken and becomes a mixed one.
LEMMA BinCallStep ==
  ASSUME BinInv, NEW t \in Loggers, NEW id \in Kinds, BinCall(t, id)
  PROVE  BinInv'
<1> USE DEF BinCall
<1>1. events[t] \in Nat /\ events' = [events EXCEPT ![t] = events[t] + 1]
  BY DEF BinInv, BinTypes
<1>2. events[t] + 1 \in Nat /\ events[t] + 1 # 0
  BY <1>1
<1>3. events' \in [Loggers -> Nat] /\ events'[t] \in Nat /\ events'[t] # 0
      /\ \A u \in Loggers : u # t => events'[u] = events[u]
  BY <1>1, <1>2 DEF BinInv, BinTypes
<1>4. [id |-> id, arg |-> <<t, events'[t]>>] \in Entries
  BY <1>3 DEF Entries
<1>5. bpc' \in [Loggers -> {"idle", "tail", "header", "args", "advance"}]
      /\ event' \in [Loggers -> Entries]
  BY <1>4 DEF BinInv, BinTypes
<1>6. BinTypes' /\ \A c \in CpuIds : RingShape(rings'[c])
  BY <1>3, <1>5 DEF BinInv, BinTypes
<1>7. /\ \A u \in Loggers : u # t => bpc'[u] = bpc[u] /\ event'[u] = event[u]
      /\ bpc'[t] \in {"idle", "tail"} /\ (bpc'[t] = "tail" => tls[t] < count)
  <2>1. tls[t] \in Nat /\ count \in Nat
    BY CpuIdsAssumption DEF BinInv, BinTypes
  <2> QED
    BY <2>1 DEF BinInv, BinTypes
<1>8. BinEarly'
  <2>1. bpc'[t] = "tail" => count # 0
    <3>1. tls[t] \in Nat
      BY CpuIdsAssumption DEF BinInv, BinTypes
    <3> QED
      BY <1>7, <3>1
  <2> QED
    BY <1>3, <1>7, <2>1 DEF BinInv, BinEarly
<1>9. \A u \in Loggers : HasRoom(u)'
  BY <1>7 DEF BinInv, HasRoom, Storing, SlotOf
<1>10. ASSUME NEW c \in CpuIds \ mixed' PROVE SlotKept(c)'
  <2>1. SlotKept(c)
    BY DEF BinInv
  <2>2. CASE tls[t] # c \/ bpc'[t] = "idle"
    BY <1>7, <2>1, <2>2, OtherSlot DEF In
  <2>3. CASE tls[t] = c /\ bpc'[t] = "tail"
    <3>1. \A u \in Loggers : u # t => ~In(u, c) /\ ~In(u, c)'
      BY <1>7, <2>3 DEF In
    <3>2. \A u \in Loggers : ~(In(u, c) /\ Storing(u)) /\ ~(In(u, c) /\ Storing(u))'
      BY <3>1, <2>3 DEF In, Storing
    <3> QED
      BY <2>1, <3>1, <3>2 DEF SlotKept
  <2> QED
    BY <1>7, <2>2, <2>3
<1> QED
  BY <1>6, <1>8, <1>9, <1>10 DEF BinInv

\* What every step of img_binlog_write keeps: the other threads, and the
\* slots of which this thread is not.
LEMMA BinWriteFrame ==
  ASSUME BinInv, NEW t \in Loggers, BinTypes', UNCHANGED <<bstate, count, tls, events, mixed>>,
         bpc[t] # "idle",
         \A u \in Loggers : u # t => /\ bpc'[u] = bpc[u] /\ btail'[u] = btail[u]
                                     /\ event'[u] = event[u],
         \A c \in CpuIds : c # tls[t] => rings'[c] = rings[c] /\ accepted'[c] = accepted[c],
         RingShape(rings'[tls[t]]), rings'[tls[t]].mask = rings[tls[t]].mask,
         rings'[tls[t]].has = rings[tls[t]].has, HasRoom(t)', ~stray',
         tls[t] \notin mixed => SlotKept(tls[t])'
  PROVE  BinInv'
<1>1. \A c \in CpuIds : RingShape(rings'[c])
  BY DEF BinInv
<1>2. bstate # "unset"
  BY DEF BinInv, BinEarly
<1>3. BinEarly'
  BY <1>2 DEF BinInv, BinEarly
<1>4. \A u \in Loggers : tls[u] \in CpuIds
  BY DEF BinInv, BinTypes
<1>5. \A u \in Loggers : u # t =>
        /\ Storing(u)' <=> Storing(u)
        /\ SlotOf(u)'.mask = SlotOf(u).mask /\ SlotOf(u)'.has = SlotOf(u).has
  BY <1>4 DEF Storing, SlotOf
<1>6. \A u \in Loggers : HasRoom(u)'
  BY <1>5 DEF BinInv, HasRoom
<1>7. ASSUME NEW c \in CpuIds \ mixed', c # tls[t] PROVE SlotKept(c)'
  BY <1>7, OtherSlot DEF BinInv, In
<1> QED
  BY <1>1, <1>3, <1>6, <1>7 DEF BinInv

\* Alone in its slot, a thread is the only one to have anything in hand.
LEMMA AloneInSlot ==
  ASSUME BinInv, NEW t \in Loggers, bpc[t] # "idle", tls[t] \notin mixed
  PROVE  /\ SlotKept(tls[t])
         /\ \A u \in Loggers : In(u, tls[t]) => u = t
         /\ Storing(t) => Len(accepted[tls[t]]) = SlotOf(t).tail + 1 /\ InHand(t)
         /\ ~Storing(t) => Len(accepted[tls[t]]) = SlotOf(t).tail
<1>1. tls[t] \in CpuIds \ mixed
  BY OwnSlot
<1>2. SlotKept(tls[t])
  BY <1>1 DEF BinInv
<1>3. In(t, tls[t])
  BY DEF In
<1>4. \A u \in Loggers : In(u, tls[t]) => u = t
  BY <1>2, <1>3 DEF SlotKept
<1> QED
  BY <1>2, <1>3, <1>4 DEF SlotKept, SlotOf

\* next == c->head: the event is dropped.
LEMMA BinFullStep ==
  ASSUME BinInv, NEW t \in Loggers, BinFull(t)
  PROVE  BinInv'
<1> USE DEF BinFull, BinAt
<1>1. NoEvent \in Entries
  BY DEF NoEvent, Entries
<1>2. BinTypes'
  BY <1>1 DEF BinInv, BinTypes
<1>3. /\ \A u \in Loggers : u # t => /\ bpc'[u] = bpc[u] /\ btail'[u] = btail[u]
                                     /\ event'[u] = event[u]
      /\ bpc[t] = "tail" /\ bpc'[t] = "idle"
  BY DEF BinInv, BinTypes
<1>4. HasRoom(t)' /\ ~stray' /\ RingShape(rings'[tls[t]])
  BY <1>3, OwnSlot DEF HasRoom, Storing, BinInv, SlotOf
<1>5. ASSUME tls[t] \notin mixed PROVE SlotKept(tls[t])'
  <2>1. /\ SlotKept(tls[t]) /\ \A u \in Loggers : In(u, tls[t]) => u = t
        /\ Len(accepted[tls[t]]) = rings[tls[t]].tail
    BY <1>3, <1>5, AloneInSlot DEF Storing, SlotOf
  <2>2. PICK c : c = tls[t]
    OBVIOUS
  <2>3. \A u \in Loggers : ~In(u, c)'
    BY <1>3, <2>1, <2>2 DEF In
  <2>4. SlotKept(c)'
    BY <2>1, <2>2, <2>3 DEF SlotKept
  <2>5. tls'[t] = c
    BY <2>2
  <2> QED
    BY <2>2, <2>4
<1> QED
  BY <1>2, <1>3, <1>4, <1>5, BinWriteFrame

\* There is room: the local tail is taken, and it lies below the mask.
LEMMA BinRoomStep ==
  ASSUME BinInv, NEW t \in Loggers, BinRoom(t)
  PROVE  BinInv'
<1> USE DEF BinRoom, BinAt
<1>1. PICK c \in CpuIds : c = tls[t]
  BY OwnSlot
<1>2. /\ rings[c] \in CpuLogs /\ RingShape(rings[c]) /\ rings[c].mask \in Nat
      /\ rings[c].tail \in Nat /\ event[t] \in Entries /\ accepted[c] \in Seq(Entries)
  BY <1>1, OwnSlot DEF SlotOf
<1>3. rings[c].tail < rings[c].mask
  <2>1. (rings[c].tail + 1) % (rings[c].mask + 1) # 0
    BY <1>1 DEF NextOf, SlotOf
  <2>2. rings[c].tail <= rings[c].mask
    BY <1>2 DEF RingShape
  <2> QED
    BY <1>2, <2>1, <2>2, FullAtMask
<1>4. rings[c].has
  BY <1>2, <1>3 DEF RingShape
<1>5. PICK more : more = Append(accepted[c], event[t])
  OBVIOUS
<1>6. /\ more \in Seq(Entries) /\ Len(more) = Len(accepted[c]) + 1
      /\ \A i \in 1 .. Len(accepted[c]) : more[i] = accepted[c][i]
      /\ more[Len(accepted[c]) + 1] = event[t]
  BY <1>2, <1>5, AppendProperties
<1>7. accepted' = [accepted EXCEPT ![c] = more] /\ btail' = [btail EXCEPT ![t] = rings[c].tail]
  BY <1>1, <1>5 DEF SlotOf
<1>8. BinTypes'
  BY <1>2, <1>6, <1>7 DEF BinInv, BinTypes
<1>9. /\ \A u \in Loggers : u # t => /\ bpc'[u] = bpc[u] /\ btail'[u] = btail[u]
                                     /\ event'[u] = event[u]
      /\ bpc[t] = "tail" /\ bpc'[t] = "header" /\ btail'[t] = rings[c].tail
  BY <1>7 DEF BinInv, BinTypes
<1>10. accepted'[c] = more /\ \A d \in CpuIds : d # c => accepted'[d] = accepted[d]
  BY <1>7 DEF BinInv, BinTypes
<1>11. HasRoom(t)'
  BY <1>1, <1>3, <1>4, <1>9 DEF HasRoom, SlotOf
<1>12. ~stray'
  BY <1>1, <1>4 DEF BinInv, SlotOf
<1>13. ASSUME c \notin mixed PROVE SlotKept(c)'
  <2>1. /\ SlotKept(c) /\ \A u \in Loggers : In(u, c) => u = t
        /\ Len(accepted[c]) = rings[c].tail
    BY <1>1, <1>9, <1>13, AloneInSlot DEF Storing, SlotOf
  <2>2. \A u \in Loggers : In(u, c)' => u = t
    BY <1>9, <2>1 DEF In
  <2>3. In(t, c)' /\ Storing(t)'
    BY <1>1, <1>9 DEF In, Storing
  <2>4. InHand(t)'
    BY <1>1, <1>6, <1>9, <1>10, <2>1 DEF InHand, SlotOf
  <2>5. \A i \in 1 .. rings[c].tail : rings[c].entries[i] = more[i]
    BY <1>6, <2>1 DEF SlotKept
  <2> QED
    BY <1>6, <1>10, <2>1, <2>2, <2>3, <2>4, <2>5 DEF SlotKept
<1>14. RingShape(rings'[c]) /\ rings'[c] = rings[c] /\ rings' = rings
  BY <1>2
<1> QED
  BY <1>1, <1>8, <1>9, <1>10, <1>11, <1>12, <1>13, <1>14, BinWriteFrame

\* The stores of an entry's header and of its arguments.
LEMMA BinStoreStep ==
  ASSUME BinInv, NEW t \in Loggers, BinHeader(t) \/ BinArgs(t)
  PROVE  BinInv'
<1> USE DEF BinAt
<1>1. PICK c \in CpuIds : c = tls[t]
  BY OwnSlot
<1>2. /\ rings[c] \in CpuLogs /\ RingShape(rings[c]) /\ rings[c].mask \in Nat
      /\ rings[c].tail \in Nat /\ event[t] \in Entries /\ btail[t] \in Nat
  BY <1>1, OwnSlot DEF SlotOf
<1>3. Storing(t) /\ bpc[t] # "idle"
  BY DEF BinHeader, BinArgs, Storing
<1>4. rings[c].has /\ btail[t] < rings[c].mask
  BY <1>1, <1>3 DEF BinInv, HasRoom, SlotOf
<1>5. PICK k \in Nat : k = btail[t]
  BY <1>2
<1>6. PICK old : old = rings[c].entries[k + 1]
  OBVIOUS
<1>7. old \in Entries
  <2>1. rings[c].entries \in Seq(Entries) /\ Len(rings[c].entries) = rings[c].mask + 1
    BY <1>2, <1>4 DEF CpuLogs, RingShape
  <2>2. k + 1 \in 1 .. Len(rings[c].entries)
    BY <1>2, <1>4, <1>5, <2>1
  <2> QED
    BY <1>6, <2>1, <2>2
<1>8. PICK e \in Entries :
        /\ rings' = [rings EXCEPT ![c] = [rings[c] EXCEPT !.entries = [rings[c].entries EXCEPT ![k + 1] = e]]]
        /\ \/ BinHeader(t) /\ e.id = event[t].id
           \/ BinArgs(t) /\ e.id = old.id /\ e.arg = event[t].arg
  <2>1. CASE BinHeader(t)
    <3>1. PICK e : e = [old EXCEPT !.id = event[t].id]
      OBVIOUS
    <3>2. e \in Entries /\ e.id = event[t].id
      BY <1>2, <1>7, <3>1 DEF Entries
    <3>3. rings' = [rings EXCEPT ![c] = [rings[c] EXCEPT !.entries = [rings[c].entries EXCEPT ![k + 1] = e]]]
      BY <1>1, <1>5, <1>6, <2>1, <3>1 DEF BinHeader, StoreEntry, EntryOf, SlotOf
    <3> QED
      BY <2>1, <3>2, <3>3
  <2>2. CASE BinArgs(t)
    <3>1. PICK e : e = [old EXCEPT !.arg = event[t].arg]
      OBVIOUS
    <3>2. e \in Entries /\ e.id = old.id /\ e.arg = event[t].arg
      BY <1>2, <1>7, <3>1 DEF Entries
    <3>3. rings' = [rings EXCEPT ![c] = [rings[c] EXCEPT !.entries = [rings[c].entries EXCEPT ![k + 1] = e]]]
      BY <1>1, <1>5, <1>6, <2>2, <3>1 DEF BinArgs, StoreEntry, EntryOf, SlotOf
    <3> QED
      BY <2>2, <3>2, <3>3
  <2> QED
    BY <2>1, <2>2
<1>9. PICK s : s = [rings[c] EXCEPT !.entries = [rings[c].entries EXCEPT ![k + 1] = e]]
  OBVIOUS
<1>10. /\ s \in CpuLogs /\ RingShape(s)
       /\ s.mask = rings[c].mask /\ s.tail = rings[c].tail /\ s.has = rings[c].has
       /\ s.entries[k + 1] = e
       /\ \A i \in 1 .. rings[c].mask + 1 : i # k + 1 => s.entries[i] = rings[c].entries[i]
  <2>1. k < rings[c].mask
    BY <1>4, <1>5
  <2>2. s = WithEntry(rings[c], k, e)
    BY <1>9 DEF WithEntry
  <2> QED
    BY <1>2, <2>1, <2>2, Stored
<1>11. rings' = [rings EXCEPT ![c] = s]
  BY <1>8, <1>9
<1>12. BinTypes'
  <2>1. rings' \in [CpuIds -> CpuLogs]
    BY <1>10, <1>11 DEF BinInv, BinTypes
  <2> QED
    BY <2>1 DEF BinInv, BinTypes, BinHeader, BinArgs
<1>13. /\ \A u \in Loggers : u # t => /\ bpc'[u] = bpc[u] /\ btail'[u] = btail[u]
                                      /\ event'[u] = event[u]
       /\ bpc'[t] \in {"args", "advance"} /\ btail'[t] = k /\ event'[t] = event[t]
       /\ UNCHANGED <<bstate, count, tls, events, mixed, accepted, stray>>
  BY <1>5 DEF BinInv, BinTypes, BinHeader, BinArgs
<1>14. rings'[c] = s /\ \A d \in CpuIds : d # c => rings'[d] = rings[d]
  BY <1>11 DEF BinInv, BinTypes
<1>15. HasRoom(t)' /\ ~stray'
  BY <1>1, <1>4, <1>5, <1>10, <1>13, <1>14 DEF BinInv, HasRoom, SlotOf
<1>16. ASSUME c \notin mixed PROVE SlotKept(c)'
  <2>1. /\ SlotKept(c) /\ \A u \in Loggers : In(u, c) => u = t
        /\ Len(accepted[c]) = rings[c].tail + 1 /\ InHand(t)
    BY <1>1, <1>3, <1>16, AloneInSlot DEF SlotOf
  <2>2. \A u \in Loggers : In(u, c)' => u = t
    BY <1>13, <2>1 DEF In
  <2>3. In(t, c)' /\ Storing(t)'
    BY <1>1, <1>13 DEF In, Storing
  <2>4. k = rings[c].tail /\ accepted[c][k + 1] = event[t]
    BY <1>1, <1>5, <2>1 DEF InHand, SlotOf
  <2>5. e.id = event[t].id /\ (bpc'[t] = "advance" => e.arg = event[t].arg)
    <3>1. CASE BinHeader(t) /\ e.id = event[t].id
      BY <3>1 DEF BinHeader, BinInv, BinTypes
    <3>2. CASE BinArgs(t) /\ e.id = old.id /\ e.arg = event[t].arg
      BY <1>1, <1>5, <1>6, <2>1, <3>2 DEF BinArgs, InHand, EntryOf, SlotOf
    <3> QED
      BY <1>8, <3>1, <3>2
  <2>6. InHand(t)'
    BY <1>1, <1>10, <1>13, <1>14, <2>4, <2>5 DEF InHand, SlotOf, EntryOf
  <2>7. \A i \in 1 .. s.tail : s.entries[i] = accepted[c][i]
    <3>1. ASSUME NEW i \in 1 .. s.tail PROVE s.entries[i] = accepted[c][i]
      <4>1. i \in 1 .. rings[c].tail /\ i \in 1 .. rings[c].mask + 1 /\ i # k + 1
        BY <1>2, <1>4, <1>5, <1>10, <2>4
      <4> QED
        BY <1>10, <2>1, <4>1 DEF SlotKept
    <3> QED
      BY <3>1
  <2> QED
    BY <1>10, <1>13, <1>14, <2>1, <2>2, <2>3, <2>6, <2>7 DEF SlotKept
<1> QED
  BY <1>1, <1>3, <1>10, <1>12, <1>13, <1>14, <1>15, <1>16, BinWriteFrame

\* c->tail = next: the entry is whole, and the slot is free for its next one.
LEMMA BinAdvanceStep ==
  ASSUME BinInv, NEW t \in Loggers, BinAdvance(t)
  PROVE  BinInv'
<1> USE DEF BinAt, BinAdvance
<1>1. PICK c \in CpuIds : c = tls[t]
  BY OwnSlot
<1>2. /\ rings[c] \in CpuLogs /\ RingShape(rings[c]) /\ rings[c].mask \in Nat
      /\ rings[c].tail \in Nat /\ event[t] \in Entries /\ btail[t] \in Nat
  BY <1>1, OwnSlot DEF SlotOf
<1>3. Storing(t) /\ bpc[t] # "idle"
  BY DEF Storing
<1>4. rings[c].has /\ btail[t] < rings[c].mask
  BY <1>1, <1>3 DEF BinInv, HasRoom, SlotOf
<1>5. PICK k \in Nat : k = btail[t]
  BY <1>2
<1>6. (k + 1) % (rings[c].mask + 1) = k + 1
  BY <1>2, <1>4, <1>5, FullAtMask
<1>7. PICK s : s = [rings[c] EXCEPT !.tail = k + 1]
  OBVIOUS
<1>8. rings' = [rings EXCEPT ![c] = s]
  BY <1>1, <1>5, <1>6, <1>7 DEF SlotOf
<1>9. /\ s \in CpuLogs /\ s.tail = k + 1 /\ s.mask = rings[c].mask
      /\ s.has = rings[c].has /\ s.entries = rings[c].entries
  <2>1. k + 1 \in Nat
    OBVIOUS
  <2> QED
    BY <1>2, <1>7, <2>1 DEF CpuLogs
<1>10. RingShape(s)
  BY <1>2, <1>4, <1>5, <1>9 DEF RingShape
<1>11. NoEvent \in Entries
  BY DEF NoEvent, Entries
<1>12. BinTypes'
  <2>1. rings' \in [CpuIds -> CpuLogs]
    BY <1>8, <1>9 DEF BinInv, BinTypes
  <2> QED
    BY <1>11, <2>1 DEF BinInv, BinTypes
<1>13. /\ \A u \in Loggers : u # t => /\ bpc'[u] = bpc[u] /\ btail'[u] = btail[u]
                                      /\ event'[u] = event[u]
       /\ bpc[t] = "advance" /\ bpc'[t] = "idle"
  BY DEF BinInv, BinTypes
<1>14. rings'[c] = s /\ \A d \in CpuIds : d # c => rings'[d] = rings[d]
  BY <1>8 DEF BinInv, BinTypes
<1>15. HasRoom(t)' /\ ~stray'
  BY <1>13 DEF BinInv, HasRoom, Storing
<1>16. ASSUME c \notin mixed PROVE SlotKept(c)'
  <2>1. /\ SlotKept(c) /\ \A u \in Loggers : In(u, c) => u = t
        /\ Len(accepted[c]) = rings[c].tail + 1 /\ InHand(t)
    BY <1>1, <1>3, <1>16, AloneInSlot DEF SlotOf
  <2>2. \A u \in Loggers : ~In(u, c)'
    BY <1>13, <2>1 DEF In
  <2>3. /\ k = rings[c].tail /\ accepted[c][k + 1] = event[t]
        /\ rings[c].entries[k + 1].id = event[t].id
        /\ rings[c].entries[k + 1].arg = event[t].arg
    BY <1>1, <1>5, <1>13, <2>1 DEF InHand, SlotOf, EntryOf
  <2>4. rings[c].entries[k + 1] = event[t]
    <3>1. rings[c].entries \in Seq(Entries) /\ Len(rings[c].entries) = rings[c].mask + 1
      BY <1>2, <1>4 DEF CpuLogs, RingShape
    <3>2. k + 1 \in 1 .. Len(rings[c].entries)
      BY <1>2, <1>4, <1>5, <3>1
    <3>3. rings[c].entries[k + 1] \in Entries
      BY <3>1, <3>2
    <3> QED
      BY <1>2, <2>3, <3>3 DEF Entries
  <2>5. \A i \in 1 .. k + 1 : rings[c].entries[i] = accepted[c][i]
    <3>1. ASSUME NEW i \in 1 .. k + 1 PROVE rings[c].entries[i] = accepted[c][i]
      <4>1. i = k + 1 \/ i \in 1 .. rings[c].tail
        BY <2>3
      <4> QED
        BY <2>1, <2>3, <2>4, <4>1 DEF SlotKept
    <3> QED
      BY <3>1
  <2> QED
    BY <1>9, <1>14, <2>1, <2>2, <2>3, <2>5 DEF SlotKept
<1> QED
  BY <1>1, <1>3, <1>9, <1>10, <1>12, <1>13, <1>14, <1>15, <1>16, BinWriteFrame

\* The inductive invariant is one.
LEMMA BinInvStep == BinInv /\ [BinNext]_binVars => BinInv'
<1> SUFFICES ASSUME BinInv, [BinNext]_binVars PROVE BinInv'
  OBVIOUS
<1>1. CASE BinNext
  BY <1>1, BinlogInitStep, BinQuietStep, BinCallStep, BinFullStep, BinRoomStep,
     BinStoreStep, BinAdvanceStep DEF BinNext, BinWrite
<1>2. CASE UNCHANGED binVars
  <2> USE <1>2 DEF binVars
  <2>1. BinTypes' /\ BinEarly' /\ \A c \in CpuIds : RingShape(rings'[c])
    BY DEF BinInv, BinTypes, BinEarly
  <2>2. \A t \in Loggers : HasRoom(t)'
    BY DEF BinInv, HasRoom, Storing, SlotOf
  <2>3. \A c \in CpuIds \ mixed' : SlotKept(c)'
    BY OtherSlot DEF BinInv, In
  <2> QED
    BY <2>1, <2>2, <2>3 DEF BinInv
<1> QED
  BY <1>1, <1>2

\* For every number of threads and of slots and every size of ring: a slot
\* that one thread at a time writes holds what it accepted, whole and in
\* order, and nothing is stored where img_binlog_init allocated nothing.
THEOREM EntriesKeptHolds == BinSpec => []EntriesKept
<1>1. BinInv => EntriesKept
  <2> SUFFICES ASSUME BinInv PROVE EntriesKept
    OBVIOUS
  <2>1. ASSUME NEW c \in CpuIds \ mixed
        PROVE  LET pending == Len(accepted[c]) - rings[c].tail IN
               /\ pending \in 0 .. 1
               /\ Decoded(c) = [i \in 1 .. rings[c].tail |-> Decode(accepted[c][i])]
               /\ pending = 1 =>
                    \E t \in Loggers : tls[t] = c /\ bpc[t] \notin {"idle", "tail"}
    <3>1. SlotKept(c) /\ rings[c] \in CpuLogs
      BY DEF BinInv, BinTypes
    <3>2. rings[c].tail \in Nat
      BY <3>1 DEF CpuLogs
    <3>3. Decoded(c) = [i \in 1 .. rings[c].tail |-> Decode(accepted[c][i])]
      BY <3>1 DEF SlotKept, Decoded
    <3>4. CASE \E t \in Loggers : In(t, c) /\ Storing(t)
      <4>1. PICK t \in Loggers : In(t, c) /\ Storing(t)
        BY <3>4
      <4>2. Len(accepted[c]) = rings[c].tail + 1
        BY <3>1, <4>1 DEF SlotKept
      <4>3. tls[t] = c /\ bpc[t] \notin {"idle", "tail"}
        BY <4>1 DEF In, Storing
      <4> QED
        BY <3>2, <3>3, <4>2, <4>3
    <3>5. CASE \A t \in Loggers : ~(In(t, c) /\ Storing(t))
      <4>1. Len(accepted[c]) = rings[c].tail
        BY <3>1, <3>5 DEF SlotKept
      <4> QED
        BY <3>2, <3>3, <4>1
    <3> QED
      BY <3>4, <3>5
  <2> QED
    BY <2>1 DEF EntriesKept, BinInv
<1> QED
  BY <1>1, BinInitInv, BinInvStep, PTL DEF BinSpec

-----------------------------------------------------------------------------
\* The sum of the latencies of a set of reports, as MetricsExact has it.
LatencySum(S) == MapThenSumSet(LAMBDA r : r[3], S)

\* The report the fold takes next.
Taken(s) == CHOOSE r \in s : TRUE

\* What the fold's recursive function has to satisfy on the subsets of S.
Sums(g, S) ==
  g = [s \in SUBSET S |-> IF s = {} THEN 0 ELSE Taken(s)[3] + g[s \ {Taken(s)}]]

\* One value of such a function.
LEMMA SumsApply ==
  ASSUME NEW g, NEW S, Sums(g, S), NEW s \in SUBSET S
  PROVE  g[s] = IF s = {} THEN 0 ELSE Taken(s)[3] + g[s \ {Taken(s)}]
<1> DEFINE e(t) == IF t = {} THEN 0 ELSE Taken(t)[3] + g[t \ {Taken(t)}]
<1>1. g = [t \in SUBSET S |-> e(t)]
  BY DEF Sums
<1> HIDE DEF e
<1>2. g[s] = e(s)
  BY <1>1
<1> QED
  BY <1>2 DEF e

\* The fold is a choice among such functions.
LEMMA LatencySumIs ==
  ASSUME NEW S
  PROVE  LatencySum(S) = (CHOOSE g : Sums(g, S))[S]
BY DEF LatencySum, Sums, Taken, MapThenSumSet, MapThenFoldSet

\* Two such functions agree where both are defined.
LEMMA SumsAgree ==
  ASSUME NEW D, IsFiniteSet(D), NEW g, Sums(g, D), NEW r, r \subseteq D, NEW h, Sums(h, r),
         NEW u, u \subseteq r
  PROVE  g[u] = h[u]
<1> DEFINE B == {s \in SUBSET r : g[s] # h[s]}
<1> SUFFICES ASSUME B # {} PROVE FALSE
  OBVIOUS
<1>0. B \subseteq SUBSET D
  OBVIOUS
<1> HIDE DEF B
<1>1. PICK m \in B : \A y \in B : y \subseteq m => y = m
  BY <1>0, SmallestMember
<1> USE DEF B
<1>2. m \in SUBSET r /\ m \in SUBSET D /\ g[m] # h[m]
  OBVIOUS
<1>3. m # {}
  <2> SUFFICES ASSUME m = {} PROVE FALSE
    OBVIOUS
  <2>1. g[m] = 0 /\ h[m] = 0
    BY <1>2, SumsApply
  <2> QED
    BY <1>2, <2>1
<1> DEFINE x == Taken(m)
           n == m \ {x}
<1>4. x \in m
  BY <1>3 DEF Taken
<1>5. n \subseteq m /\ n # m /\ n \in SUBSET r
  BY <1>2, <1>4
<1> HIDE DEF B
<1>6. n \notin B
  BY <1>1, <1>5
<1>7. g[n] = h[n]
  BY <1>5, <1>6 DEF B
<1>8. g[m] = x[3] + g[n] /\ h[m] = x[3] + h[n]
  BY <1>2, <1>3, SumsApply
<1> QED
  BY <1>2, <1>7, <1>8

\* Such a function exists for every finite set.
LEMMA SumsExist ==
  ASSUME NEW D, IsFiniteSet(D)
  PROVE  \E g : Sums(g, D)
<1> DEFINE B == {s \in SUBSET D : ~\E g : Sums(g, s)}
<1> SUFFICES ASSUME B # {} PROVE FALSE
  OBVIOUS
<1>0. B \subseteq SUBSET D
  OBVIOUS
<1> HIDE DEF B
<1>1. PICK m \in B : \A y \in B : y \subseteq m => y = m
  BY <1>0, SmallestMember
<1>2. m \in SUBSET D /\ ~\E g : Sums(g, m)
  BY DEF B
<1>3. \A s \in SUBSET m : s # m => \E g : Sums(g, s)
  BY <1>1, <1>2 DEF B
<1> DEFINE f(s) == CHOOSE g : Sums(g, s)
           e(s) == IF s = {} THEN 0 ELSE Taken(s)[3] + f(s \ {Taken(s)})[s \ {Taken(s)}]
           h == [s \in SUBSET m |-> e(s)]
<1>4. \A s \in SUBSET m : s # m => Sums(f(s), s)
  BY <1>3
<1>5. \A s \in SUBSET m : s # {} => Taken(s) \in s
  BY DEF Taken
<1>6. ASSUME NEW s \in SUBSET m, s # m PROVE f(s)[s] = e(s)
  <2>1. Sums(f(s), s)
    BY <1>4, <1>6
  <2> HIDE DEF f
  <2>2. CASE s = {}
    BY <2>1, <2>2, SumsApply
  <2>3. CASE s # {}
    <3> DEFINE n == s \ {Taken(s)}
    <3>1. n \in SUBSET s /\ n \in SUBSET m /\ n # m /\ IsFiniteSet(s)
      BY <1>2, <1>5, <2>3, FS_Subset
    <3> HIDE DEF n
    <3>2. Sums(f(n), n)
      BY <1>4, <3>1
    <3>3. f(s)[n] = f(n)[n]
      BY <2>1, <3>1, <3>2, SumsAgree
    <3>4. f(s)[s] = Taken(s)[3] + f(s)[n]
      BY <2>1, <2>3, SumsApply DEF n
    <3> QED
      BY <2>3, <3>3, <3>4 DEF n
  <2> QED
    BY <2>2, <2>3
<1>7. \A s \in SUBSET m : e(s) = IF s = {} THEN 0 ELSE Taken(s)[3] + h[s \ {Taken(s)}]
  <2> TAKE s \in SUBSET m
  <2>1. CASE s = {}
    BY <2>1
  <2>2. CASE s # {}
    <3> DEFINE n == s \ {Taken(s)}
    <3>1. n \in SUBSET m /\ n # m
      BY <1>5, <2>2
    <3>2. h[n] = e(n)
      BY <3>1
    <3>3. f(n)[n] = e(n)
      <4> HIDE DEF n
      <4> QED
        BY <3>1, <1>6
    <3>4. e(s) = Taken(s)[3] + f(n)[n]
      BY <2>2
    <3> QED
      BY <2>2, <3>2, <3>3, <3>4
  <2> QED
    BY <2>1, <2>2
<1>8. Sums(h, m)
  <2> HIDE DEF e
  <2>1. h = [s \in SUBSET m |-> IF s = {} THEN 0 ELSE Taken(s)[3] + h[s \ {Taken(s)}]]
    BY <1>7
  <2> HIDE DEF h
  <2> QED
    BY <2>1 DEF Sums
<1> QED
  BY <1>2, <1>8

\* The sum, one report after the other.
LEMMA LatencySumStep ==
  ASSUME NEW D, IsFiniteSet(D)
  PROVE  LatencySum(D) = IF D = {} THEN 0 ELSE Taken(D)[3] + LatencySum(D \ {Taken(D)})
<1> DEFINE g == CHOOSE g : Sums(g, D)
<1>1. Sums(g, D)
  BY SumsExist
<1>2. LatencySum(D) = g[D]
  BY LatencySumIs
<1>3. D \in SUBSET D
  OBVIOUS
<1> HIDE DEF g
<1>4. CASE D = {}
  BY <1>1, <1>2, <1>3, <1>4, SumsApply
<1>5. CASE D # {}
  <2> DEFINE n == D \ {Taken(D)}
             h == CHOOSE h : Sums(h, n)
  <2>1. n \subseteq D /\ IsFiniteSet(n)
    BY FS_Subset
  <2> HIDE DEF n
  <2>2. Sums(h, n)
    BY <2>1, SumsExist
  <2>3. LatencySum(n) = h[n]
    BY LatencySumIs
  <2> HIDE DEF h
  <2>4. g[n] = h[n]
    BY <1>1, <2>1, <2>2, SumsAgree
  <2>5. g[D] = Taken(D)[3] + g[n]
    BY <1>1, <1>3, <1>5, SumsApply DEF n
  <2> QED
    BY <1>2, <1>5, <2>3, <2>4, <2>5 DEF n
<1> QED
  BY <1>4, <1>5

\* A sum of natural numbers is one.
LEMMA LatencySumType ==
  ASSUME NEW D, IsFiniteSet(D), \A r \in D : r[3] \in Nat
  PROVE  LatencySum(D) \in Nat
<1> DEFINE B == {s \in SUBSET D : LatencySum(s) \notin Nat}
<1> SUFFICES ASSUME B # {} PROVE FALSE
  OBVIOUS
<1>0. B \subseteq SUBSET D
  OBVIOUS
<1> HIDE DEF B
<1>1. PICK m \in B : \A y \in B : y \subseteq m => y = m
  BY <1>0, SmallestMember
<1>2. m \in SUBSET D /\ IsFiniteSet(m) /\ LatencySum(m) \notin Nat
  BY FS_Subset DEF B
<1>3. m # {} /\ LatencySum(m) = Taken(m)[3] + LatencySum(m \ {Taken(m)})
  BY <1>2, LatencySumStep
<1>4. Taken(m) \in m
  BY <1>3 DEF Taken
<1> DEFINE n == m \ {Taken(m)}
<1>5. LatencySum(n) \in Nat
  <2>1. n \in SUBSET D /\ n \subseteq m /\ n # m
    BY <1>2, <1>4
  <2> HIDE DEF n
  <2> QED
    BY <1>1, <2>1 DEF B
<1> QED
  BY <1>2, <1>3, <1>4, <1>5

\* The order in which the reports are added does not matter.
LEMMA LatencySumAny ==
  ASSUME NEW D, IsFiniteSet(D), \A r \in D : r[3] \in Nat, NEW x \in D
  PROVE  LatencySum(D) = x[3] + LatencySum(D \ {x})
<1> DEFINE B == {s \in SUBSET D : \E y \in s : LatencySum(s) # y[3] + LatencySum(s \ {y})}
<1> SUFFICES ASSUME B # {} PROVE FALSE
  OBVIOUS
<1>0. B \subseteq SUBSET D
  OBVIOUS
<1> HIDE DEF B
<1>1. PICK m \in B : \A y \in B : y \subseteq m => y = m
  BY <1>0, SmallestMember
<1>2. m \in SUBSET D /\ IsFiniteSet(m)
  BY FS_Subset DEF B
<1>3. PICK y \in m : LatencySum(m) # y[3] + LatencySum(m \ {y})
  BY DEF B
<1>4. LatencySum(m) = Taken(m)[3] + LatencySum(m \ {Taken(m)})
  BY <1>2, LatencySumStep
<1> DEFINE p == Taken(m)
<1>5. p \in m /\ p # y
  BY <1>3, <1>4 DEF Taken
<1> HIDE DEF p
<1>6. \A s \in SUBSET m : s # m => \A z \in s : LatencySum(s) = z[3] + LatencySum(s \ {z})
  BY <1>1, <1>2 DEF B
<1>7. LatencySum(m \ {p}) = y[3] + LatencySum((m \ {p}) \ {y})
  BY <1>5, <1>6
<1>8. LatencySum(m \ {y}) = p[3] + LatencySum((m \ {y}) \ {p})
  BY <1>5, <1>6
<1>9. (m \ {p}) \ {y} = (m \ {y}) \ {p}
  OBVIOUS
<1> DEFINE k == LatencySum((m \ {y}) \ {p})
<1>10. k \in Nat
  <2> DEFINE n == (m \ {y}) \ {p}
  <2>1. IsFiniteSet(n) /\ \A r \in n : r[3] \in Nat
    BY <1>2, FS_Subset
  <2> HIDE DEF n
  <2>2. LatencySum(n) \in Nat
    BY <2>1, LatencySumType
  <2> QED
    BY <2>2 DEF n
<1> HIDE DEF k
<1>11. LatencySum(m) = p[3] + (y[3] + k) /\ LatencySum(m \ {y}) = p[3] + k
  BY <1>4, <1>7, <1>8, <1>9 DEF k, p
<1>12. p[3] \in Nat /\ y[3] \in Nat
  BY <1>2, <1>5
<1> QED
  BY <1>3, <1>10, <1>11, <1>12

\* One more report adds its latency.
LEMMA LatencySumAdd ==
  ASSUME NEW D, IsFiniteSet(D), \A r \in D : r[3] \in Nat, NEW x, x \notin D, x[3] \in Nat
  PROVE  LatencySum(D \cup {x}) = LatencySum(D) + x[3]
<1> DEFINE E == D \cup {x}
<1>1. IsFiniteSet(E) /\ (\A r \in E : r[3] \in Nat) /\ x \in E /\ E \ {x} = D
  BY FS_AddElement
<1> HIDE DEF E
<1>2. LatencySum(E) = x[3] + LatencySum(D)
  BY <1>1, LatencySumAny
<1>3. LatencySum(D) \in Nat
  BY LatencySumType
<1> QED
  BY <1>2, <1>3 DEF E

-----------------------------------------------------------------------------
\* A report whose latency has been added and that has not returned.
Measuring(t) == mpc[t] \notin {"idle", "cycles"}

\* The types of the counters, of the reports under way and of those told.
MetTypes ==
  /\ reqs \in [Cores -> Nat] /\ cycles \in [Cores -> Nat] /\ max \in [Cores -> Nat]
  /\ min \in [Cores -> Nat]
  /\ mpc \in [Reporters -> {"idle", "cycles", "readmax", "storemax", "readmin", "storemin"}]
  /\ report \in [Reporters -> [core : Cores, lat : Latencies \cup {0}]]
  /\ reports \in [Reporters -> Nat]
  /\ told \in [Cores -> SUBSET (Reporters \X Nat \X Latencies)]
  /\ crowded \subseteq Cores
  /\ \A t \in Reporters : mpc[t] # "idle" => report[t].lat \in Latencies

\* What was told of a core is finite, and each report is told once: the one under way
\* only after its latency was added.
ToldOnce ==
  \A c \in Cores :
    /\ IsFiniteSet(told[c])
    /\ \A r \in told[c] :
         /\ r[2] <= reports[r[1]]
         /\ r[2] = reports[r[1]] /\ mpc[r[1]] # "idle" =>
              Measuring(r[1]) /\ report[r[1]].core = c /\ report[r[1]].lat = r[3]

\* The atomic add loses nothing.
TotalsExact == \A c \in Cores : cycles[c] = LatencySum(told[c])

\* Two reports that measure one core at once have crowded it.
Alone ==
  \A t, u \in Reporters :
    t # u /\ Measuring(t) /\ Measuring(u) /\ report[t].core = report[u].core
      => report[t].core \in crowded

\* On a core that was never crowded, a report's comparison still holds when it stores.
Compared ==
  \A t \in Reporters :
    report[t].core \notin crowded =>
      /\ mpc[t] = "storemax" => max[report[t].core] < report[t].lat
      /\ mpc[t] \in {"readmin", "storemin"} => report[t].lat <= max[report[t].core]
      /\ mpc[t] = "storemin" => report[t].lat < min[report[t].core]

\* There the extremes bound every report that has returned.
Bounds ==
  \A c \in Cores \ crowded : \A r \in Settled(c) : min[c] <= r[3] /\ r[3] <= max[c]

\* The inductive invariant of the counters.
CountersInv == MetTypes /\ ToldOnce /\ TotalsExact /\ Alone /\ Compared /\ Bounds

\* The parts of a report that was told.
LEMMA ToldTypes ==
  ASSUME MetTypes, NEW d \in Cores, NEW r \in told[d]
  PROVE  r[1] \in Reporters /\ r[2] \in Nat /\ r[3] \in Nat /\ r[3] \in Latencies
<1>1. r \in Reporters \X Nat \X Latencies
  BY DEF MetTypes
<1>2. r[1] \in Reporters /\ r[2] \in Nat /\ r[3] \in Latencies
  BY <1>1
<1> QED
  BY <1>2, LatencyAssumption

\* Before the first report.
LEMMA CountersInit == MetInit => CountersInv
<1> SUFFICES ASSUME MetInit PROVE CountersInv
  OBVIOUS
<1> USE CoreAssumption, LatencyAssumption DEF MetInit
<1>0. 0 \in Cores
  BY DEF Cores
<1>1. MetTypes
  BY <1>0 DEF MetTypes, NoReport
<1>2. ToldOnce
  BY FS_EmptySet DEF ToldOnce
<1>3. LatencySum({}) = 0
  BY LatencySumStep, FS_EmptySet
<1>4. TotalsExact
  BY <1>3 DEF TotalsExact
<1>5. Alone /\ Compared
  BY DEF Alone, Compared, Measuring
<1>6. Bounds
  BY DEF Bounds, Settled
<1> QED
  BY <1>1, <1>2, <1>4, <1>5, <1>6 DEF CountersInv

\* The exporter changes no counter.
LEMMA ExporterKeeps ==
  CountersInv /\ UNCHANGED <<counters, reporting>> => CountersInv'
BY DEF CountersInv, counters, reporting, MetTypes, ToldOnce, TotalsExact, Alone, Compared,
   Bounds, Measuring, Settled

\* A new report: nothing is told of it yet.
LEMMA IncStep ==
  ASSUME CountersInv, NEW t \in Reporters, NEW c \in Cores, NEW l \in Latencies, Inc(t, c, l)
  PROVE  CountersInv'
<1> USE DEF CountersInv
<1>0. /\ mpc[t] = "idle" /\ mpc' = [mpc EXCEPT ![t] = "cycles"]
      /\ reports' = [reports EXCEPT ![t] = reports[t] + 1]
      /\ report' = [report EXCEPT ![t] = [core |-> c, lat |-> l]]
      /\ reqs' = [reqs EXCEPT ![c] = reqs[c] + 1]
      /\ UNCHANGED <<cycles, max, min, told, crowded>>
  BY DEF Inc, MetAt
<1>1. MetTypes'
  <2>1. reports[t] + 1 \in Nat /\ reqs[c] + 1 \in Nat
    BY DEF MetTypes
  <2>2. [core |-> c, lat |-> l] \in [core : Cores, lat : Latencies \cup {0}]
    OBVIOUS
  <2>3. \A u \in Reporters : mpc'[u] # "idle" => report'[u].lat \in Latencies
    BY <1>0 DEF MetTypes
  <2> QED
    BY <1>0, <2>1, <2>2, <2>3 DEF MetTypes
<1>2. /\ \A u \in Reporters : u # t => /\ mpc'[u] = mpc[u] /\ report'[u] = report[u]
                                       /\ reports'[u] = reports[u]
      /\ mpc'[t] = "cycles" /\ reports'[t] = reports[t] + 1 /\ reports[t] \in Nat
  BY <1>0 DEF MetTypes
<1>3. \A d \in Cores : \A r \in told[d] : r[1] \in Reporters /\ r[2] \in Nat
  BY DEF MetTypes
<1>4. ToldOnce'
  <2> SUFFICES ASSUME NEW d \in Cores, NEW r \in told[d]
               PROVE  /\ r[2] <= reports'[r[1]]
                      /\ r[2] = reports'[r[1]] /\ mpc'[r[1]] # "idle" =>
                           Measuring(r[1])' /\ report'[r[1]].core = d /\ report'[r[1]].lat = r[3]
    BY <1>0 DEF ToldOnce
  <2>1. CASE r[1] = t
    <3>1. r[2] <= reports[t] /\ r[2] \in Nat
      BY <1>3, <2>1 DEF ToldOnce
    <3> QED
      BY <1>2, <2>1, <3>1
  <2>2. CASE r[1] # t
    BY <1>2, <1>3, <2>2 DEF ToldOnce, Measuring
  <2> QED
    BY <2>1, <2>2
<1>5. TotalsExact'
  BY <1>0 DEF TotalsExact
<1>6. Alone' /\ Compared'
  BY <1>0, <1>2 DEF Alone, Compared, Measuring
<1>7. Bounds'
  <2>1. \A d \in Cores : Settled(d)' \subseteq Settled(d)
    BY <1>0, <1>2, <1>3 DEF Settled
  <2> QED
    BY <1>0, <2>1 DEF Bounds
<1> QED
  BY <1>1, <1>4, <1>5, <1>6, <1>7

\* The atomic add, which is when a report is told: if another one is measuring the same
\* core, the core is crowded from now on.
LEMMA AddCyclesStep ==
  ASSUME CountersInv, NEW t \in Reporters, AddCycles(t)
  PROVE  CountersInv'
<1> USE DEF CountersInv
<1> PICK c \in Cores : c = report[t].core
  BY DEF MetTypes
<1> PICK l \in Latencies : l = report[t].lat
  BY DEF AddCycles, MetAt, MetTypes
<1> PICK n \in Nat : n = reports[t]
  BY DEF MetTypes
<1> PICK x : x = <<t, n, l>>
  OBVIOUS
<1>0. /\ mpc[t] = "cycles" /\ mpc' = [mpc EXCEPT ![t] = "readmax"]
      /\ cycles' = [cycles EXCEPT ![c] = cycles[c] + l]
      /\ told' = [told EXCEPT ![c] = told[c] \cup {x}]
      /\ crowded' = crowded \cup
           {d \in {c} : \E u \in Reporters \ {t} : report[u].core = d /\ Measuring(u)}
      /\ UNCHANGED <<reqs, max, min, report, reports>>
  BY DEF AddCycles, MetAt, Measuring
<1>a. /\ x \in Reporters \X Nat \X Latencies /\ x[1] = t /\ x[2] = n /\ x[3] = l
      /\ l \in Nat /\ l < TopLatency
  BY LatencyAssumption
<1>b. /\ \A u \in Reporters : u # t => mpc'[u] = mpc[u]
      /\ mpc'[t] = "readmax" /\ Measuring(t)' /\ ~Measuring(t)
      /\ \A u \in Reporters : u # t => (Measuring(u)' <=> Measuring(u))
  BY <1>0 DEF MetTypes, Measuring
<1>c. /\ told[c] \in SUBSET (Reporters \X Nat \X Latencies) /\ told'[c] = told[c] \cup {x}
      /\ \A d \in Cores : d # c => told'[d] = told[d] /\ cycles'[d] = cycles[d]
      /\ cycles'[c] = cycles[c] + l
  BY <1>0 DEF MetTypes
<1>d. \A d \in Cores : \A r \in told[d] : r[1] \in Reporters /\ r[2] \in Nat /\ r[3] \in Nat
  BY ToldTypes
<1>e. \A d \in Cores : \A r \in told[d] : r[1] = t => r[2] # n
  BY <1>0 DEF ToldOnce, Measuring
<1>f. x \notin told[c]
  BY <1>a, <1>e
<1>1. MetTypes'
  <2>1. told[c] \cup {x} \in SUBSET (Reporters \X Nat \X Latencies)
    BY <1>a, <1>c
  <2>2. cycles[c] + l \in Nat
    BY <1>a DEF MetTypes
  <2>3. crowded' \subseteq Cores
    BY <1>0 DEF MetTypes
  <2>4. \A u \in Reporters : mpc'[u] # "idle" => report'[u].lat \in Latencies
    BY <1>0, <1>b DEF MetTypes
  <2> QED
    BY <1>0, <2>1, <2>2, <2>3, <2>4 DEF MetTypes
<1>2. ToldOnce'
  <2>1. ASSUME NEW d \in Cores PROVE IsFiniteSet(told'[d])
    BY <1>c, FS_AddElement DEF ToldOnce
  <2>2. ASSUME NEW d \in Cores, NEW r \in told'[d]
        PROVE  /\ r[2] <= reports'[r[1]]
               /\ r[2] = reports'[r[1]] /\ mpc'[r[1]] # "idle" =>
                    Measuring(r[1])' /\ report'[r[1]].core = d /\ report'[r[1]].lat = r[3]
    <3>1. CASE r \in told[d]
      BY <1>0, <1>b, <1>d, <1>e, <3>1 DEF ToldOnce
    <3>2. CASE d = c /\ r = x
      BY <1>0, <1>a, <1>b, <3>2
    <3> QED
      BY <1>c, <2>2, <3>1, <3>2
  <2> QED
    BY <2>1, <2>2 DEF ToldOnce
<1>3. TotalsExact'
  <2>1. LatencySum(told'[c]) = LatencySum(told[c]) + l
    BY <1>a, <1>c, <1>d, <1>f, LatencySumAdd DEF ToldOnce
  <2> QED
    BY <1>c, <2>1 DEF TotalsExact
<1>4. Alone'
  <2> SUFFICES ASSUME NEW u \in Reporters, NEW v \in Reporters, u # v, Measuring(u)',
                      Measuring(v)', report[u].core = report[v].core
               PROVE  report[u].core \in crowded'
    BY <1>0 DEF Alone
  <2>1. CASE u # t /\ v # t
    BY <1>0, <1>b, <2>1 DEF Alone
  <2>2. CASE u = t \/ v = t
    BY <1>0, <1>b, <2>2
  <2> QED
    BY <2>1, <2>2
<1>5. Compared'
  BY <1>0, <1>b DEF Compared
<1>6. Bounds'
  <2>1. ASSUME NEW d \in Cores, NEW r \in Settled(d)' PROVE r \in Settled(d)
    <3>1. CASE r \in told[d]
      BY <1>0, <1>b, <1>d, <2>1, <3>1 DEF Settled
    <3>2. CASE d = c /\ r = x
      BY <1>0, <1>a, <1>b, <2>1, <3>2 DEF Settled
    <3> QED
      BY <1>c, <2>1, <3>1, <3>2 DEF Settled
  <2> QED
    BY <1>0, <2>1 DEF Bounds
<1> QED
  BY <1>1, <1>2, <1>3, <1>4, <1>5, <1>6

\* The reading of an extreme, and the branch on it.
LEMMA ReadMaxStep ==
  ASSUME CountersInv, NEW t \in Reporters, ReadMax(t)
  PROVE  CountersInv'
<1> USE DEF CountersInv
<1> PICK c \in Cores : c = report[t].core
  BY DEF MetTypes
<1> PICK l \in Latencies : l = report[t].lat
  BY DEF ReadMax, MetAt, MetTypes
<1>a. l \in Nat /\ max[c] \in Nat
  BY LatencyAssumption DEF MetTypes
<1>0. /\ mpc[t] = "readmax"
      /\ mpc' = [mpc EXCEPT ![t] = IF l > max[c] THEN "storemax" ELSE "readmin"]
      /\ UNCHANGED <<reqs, cycles, max, min, report, reports, told, crowded>>
  BY DEF ReadMax, MetAt
<1>b. /\ \A u \in Reporters : u # t => mpc'[u] = mpc[u]
      /\ mpc'[t] \in {"storemax", "readmin"}
      /\ mpc'[t] = "storemax" => max[c] < l
      /\ mpc'[t] = "readmin" => l <= max[c]
      /\ \A u \in Reporters : (Measuring(u)' <=> Measuring(u)) /\ (mpc'[u] = "idle" <=> mpc[u] = "idle")
  BY <1>0, <1>a DEF MetTypes, Measuring
<1>1. MetTypes'
  BY <1>0, <1>b DEF MetTypes
<1>2. ToldOnce'
  <2>1. \A d \in Cores : \A r \in told[d] : r[1] \in Reporters
    BY DEF MetTypes
  <2> QED
    BY <1>0, <1>b, <2>1 DEF ToldOnce
<1>3. TotalsExact' /\ Alone'
  BY <1>0, <1>b DEF TotalsExact, Alone
<1>4. Compared'
  BY <1>0, <1>b DEF Compared
<1>5. Bounds'
  <2>1. \A d \in Cores : \A r \in told[d] : r[1] \in Reporters
    BY DEF MetTypes
  <2>2. \A d \in Cores : Settled(d)' = Settled(d)
    BY <1>0, <1>b, <2>1 DEF Settled
  <2> QED
    BY <1>0, <2>2 DEF Bounds
<1> QED
  BY <1>1, <1>2, <1>3, <1>4, <1>5

\* The plain store of the maximum: on a core nobody crowded, it raises it.
LEMMA StoreMaxStep ==
  ASSUME CountersInv, NEW t \in Reporters, StoreMax(t)
  PROVE  CountersInv' /\ \A d \in Cores \ crowded : max[d] <= max'[d]
<1> USE DEF CountersInv
<1> PICK c \in Cores : c = report[t].core
  BY DEF MetTypes
<1> PICK l \in Latencies : l = report[t].lat
  BY DEF StoreMax, MetAt, MetTypes
<1>a. l \in Nat
  BY LatencyAssumption
<1>0. /\ mpc[t] = "storemax" /\ mpc' = [mpc EXCEPT ![t] = "readmin"]
      /\ max' = [max EXCEPT ![c] = l]
      /\ UNCHANGED <<reqs, cycles, min, report, reports, told, crowded>>
  BY DEF StoreMax, MetAt
<1>b. /\ \A u \in Reporters : u # t => mpc'[u] = mpc[u]
      /\ mpc'[t] = "readmin" /\ Measuring(t)
      /\ \A u \in Reporters : (Measuring(u)' <=> Measuring(u)) /\ (mpc'[u] = "idle" <=> mpc[u] = "idle")
      /\ max'[c] = l /\ \A d \in Cores : d # c => max'[d] = max[d]
  BY <1>0 DEF MetTypes, Measuring
<1>c. c \notin crowded => max[c] < l
  BY <1>0 DEF Compared
<1>d. \A d \in Cores : max[d] \in Nat /\ max'[d] \in Nat
  BY <1>a, <1>b DEF MetTypes
<1>e. \A d \in Cores \ crowded : max[d] <= max'[d]
  BY <1>a, <1>b, <1>c, <1>d
<1>r. \A d \in Cores : \A r \in told[d] : r[1] \in Reporters /\ r[3] \in Nat
  BY ToldTypes
<1>1. MetTypes'
  BY <1>0, <1>a, <1>b DEF MetTypes
<1>2. ToldOnce'
  BY <1>0, <1>b, <1>r DEF ToldOnce
<1>3. TotalsExact' /\ Alone'
  BY <1>0, <1>b DEF TotalsExact, Alone
<1>4. Compared'
  <2> SUFFICES ASSUME NEW u \in Reporters, report[u].core \notin crowded
               PROVE  /\ mpc'[u] = "storemax" => max'[report[u].core] < report[u].lat
                      /\ mpc'[u] \in {"readmin", "storemin"} =>
                           report[u].lat <= max'[report[u].core]
                      /\ mpc'[u] = "storemin" => report[u].lat < min[report[u].core]
    BY <1>0 DEF Compared
  <2>1. CASE u = t
    BY <1>0, <1>a, <1>b, <2>1
  <2>2. CASE u # t /\ report[u].core # c
    <3>1. report[u].core \in Cores
      BY DEF MetTypes
    <3> QED
      BY <1>b, <2>2, <3>1 DEF Compared
  <2>3. CASE u # t /\ report[u].core = c
    <3>1. ~Measuring(u)
      BY <1>b, <2>3 DEF Alone
    <3> QED
      BY <1>b, <2>3, <3>1 DEF Measuring
  <2> QED
    BY <2>1, <2>2, <2>3
<1>5. Bounds'
  <2>2. \A d \in Cores : Settled(d)' = Settled(d) /\ Settled(d) \subseteq told[d]
    BY <1>0, <1>b, <1>r DEF Settled
  <2>3. ASSUME NEW d \in Cores \ crowded, NEW r \in Settled(d)
        PROVE  min[d] <= r[3] /\ r[3] <= max'[d]
    <3>1. r[3] \in Nat /\ r[3] <= max[d] /\ min[d] <= r[3]
      BY <1>r, <2>2, <2>3 DEF Bounds
    <3> QED
      BY <1>d, <1>e, <3>1
  <2> QED
    BY <1>0, <2>2, <2>3 DEF Bounds
<1> QED
  BY <1>e, <1>1, <1>2, <1>3, <1>4, <1>5

\* A report that returns is settled: its latency is within the extremes.
LEMMA LastStep ==
  ASSUME CountersInv, NEW t \in Reporters, mpc[t] \in {"readmin", "storemin"},
         mpc' = [mpc EXCEPT ![t] = "idle"], report' = [report EXCEPT ![t] = NoReport],
         UNCHANGED <<reqs, cycles, max, reports, told, crowded>>,
         min' \in [Cores -> Nat],
         \A d \in Cores : d # report[t].core => min'[d] = min[d],
         report[t].core \notin crowded =>
           min'[report[t].core] <= report[t].lat /\ min'[report[t].core] <= min[report[t].core]
  PROVE  CountersInv'
<1> USE DEF CountersInv
<1> PICK c \in Cores : c = report[t].core
  BY DEF MetTypes
<1> PICK l \in Latencies : l = report[t].lat
  BY DEF MetTypes
<1>a. l \in Nat /\ 0 \in Cores /\ min[c] \in Nat /\ min'[c] \in Nat
  BY LatencyAssumption, CoreAssumption DEF MetTypes, Cores
<1>b. /\ \A u \in Reporters : u # t => mpc'[u] = mpc[u] /\ report'[u] = report[u]
      /\ mpc'[t] = "idle" /\ Measuring(t) /\ ~Measuring(t)' /\ report'[t] = NoReport
      /\ \A u \in Reporters : u # t => (Measuring(u)' <=> Measuring(u))
  BY DEF MetTypes, Measuring
<1>r. \A d \in Cores : \A r \in told[d] : r[1] \in Reporters /\ r[3] \in Nat
  BY ToldTypes
<1>1. MetTypes'
  <2>1. NoReport \in [core : Cores, lat : Latencies \cup {0}]
    BY <1>a DEF NoReport
  <2>2. \A u \in Reporters : mpc'[u] # "idle" => report'[u].lat \in Latencies
    BY <1>b DEF MetTypes
  <2> QED
    BY <2>1, <2>2 DEF MetTypes
<1>2. ToldOnce'
  BY <1>b, <1>r DEF ToldOnce
<1>3. TotalsExact'
  BY DEF TotalsExact
<1>4. Alone'
  BY <1>b DEF Alone
<1>5. Compared'
  <2> SUFFICES ASSUME NEW u \in Reporters, u # t, report[u].core \notin crowded
               PROVE  /\ mpc[u] = "storemax" => max[report[u].core] < report[u].lat
                      /\ mpc[u] \in {"readmin", "storemin"} =>
                           report[u].lat <= max[report[u].core]
                      /\ mpc[u] = "storemin" => report[u].lat < min'[report[u].core]
    BY <1>b DEF Compared
  <2>1. report[u].core \in Cores
    BY DEF MetTypes
  <2>2. CASE report[u].core # c
    BY <2>1, <2>2 DEF Compared
  <2>3. CASE report[u].core = c
    <3>1. ~Measuring(u)
      BY <1>b, <2>3 DEF Alone
    <3> QED
      BY <3>1 DEF Measuring
  <2> QED
    BY <2>2, <2>3
<1>6. Bounds'
  <2> SUFFICES ASSUME NEW d \in Cores, d \notin crowded, NEW r \in Settled(d)'
               PROVE  min'[d] <= r[3] /\ r[3] <= max[d]
    BY DEF Bounds
  <2>0. r \in told[d] /\ r[1] \in Reporters /\ r[3] \in Nat
    BY <1>r DEF Settled
  <2>m. min[d] \in Nat /\ min'[d] \in Nat /\ max[d] \in Nat /\ min'[d] <= min[d]
    <3>1. min[d] \in Nat /\ min'[d] \in Nat /\ max[d] \in Nat
      BY DEF MetTypes
    <3>2. CASE d = c
      BY <3>1, <3>2
    <3>3. CASE d # c
      BY <3>1, <3>3
    <3> QED
      BY <3>1, <3>2, <3>3
  <2>1. CASE r \in Settled(d)
    <3>1. min[d] <= r[3] /\ r[3] <= max[d]
      BY <2>1 DEF Bounds
    <3> QED
      BY <2>0, <2>m, <3>1
  <2>2. CASE r \notin Settled(d)
    <3>1. r[1] = t /\ r[2] = reports[t] /\ mpc[t] # "idle"
      BY <1>b, <2>0, <2>2 DEF Settled
    <3>2. c = d /\ r[3] = l
      BY <2>0, <3>1 DEF ToldOnce
    <3>3. l <= max[c] /\ min'[c] <= l
      BY <3>2 DEF Compared
    <3> QED
      BY <3>2, <3>3
  <2> QED
    BY <2>1, <2>2
<1> QED
  BY <1>1, <1>2, <1>3, <1>4, <1>5, <1>6

\* The reading of the minimum: the report goes on to store it or returns.
LEMMA ReadMinStep ==
  ASSUME CountersInv, NEW t \in Reporters, ReadMin(t)
  PROVE  CountersInv'
<1> USE DEF CountersInv
<1> PICK c \in Cores : c = report[t].core
  BY DEF MetTypes
<1> PICK l \in Latencies : l = report[t].lat
  BY DEF ReadMin, MetAt, MetTypes
<1>a. l \in Nat /\ min[c] \in Nat
  BY LatencyAssumption DEF MetTypes
<1>0. /\ mpc[t] = "readmin"
      /\ UNCHANGED <<reqs, cycles, max, min, reports, told, crowded>>
      /\ mpc' = [mpc EXCEPT ![t] = IF l < min[c] THEN "storemin" ELSE "idle"]
      /\ report' = IF mpc'[t] = "idle" THEN [report EXCEPT ![t] = NoReport] ELSE report
  BY DEF ReadMin, MetAt
<1>1. CASE l < min[c]
  <2>1. mpc' = [mpc EXCEPT ![t] = "storemin"] /\ report' = report /\ mpc'[t] = "storemin"
    BY <1>0, <1>1 DEF MetTypes
  <2>b. /\ \A u \in Reporters : u # t => mpc'[u] = mpc[u]
        /\ \A u \in Reporters : (Measuring(u)' <=> Measuring(u)) /\ (mpc'[u] = "idle" <=> mpc[u] = "idle")
    BY <1>0, <2>1 DEF MetTypes, Measuring
  <2>r. \A d \in Cores : \A r \in told[d] : r[1] \in Reporters
    BY DEF MetTypes
  <2>2. MetTypes'
    BY <1>0, <2>1, <2>b DEF MetTypes
  <2>3. ToldOnce' /\ TotalsExact' /\ Alone'
    BY <1>0, <2>1, <2>b, <2>r DEF ToldOnce, TotalsExact, Alone
  <2>4. Compared'
    BY <1>0, <1>1, <2>1, <2>b DEF Compared
  <2>5. Bounds'
    <3>1. \A d \in Cores : Settled(d)' = Settled(d)
      BY <1>0, <2>b, <2>r DEF Settled
    <3> QED
      BY <1>0, <3>1 DEF Bounds
  <2> QED
    BY <2>2, <2>3, <2>4, <2>5
<1>2. CASE ~(l < min[c])
  <2>1. mpc' = [mpc EXCEPT ![t] = "idle"] /\ mpc'[t] = "idle"
    BY <1>0, <1>2 DEF MetTypes
  <2>2. report' = [report EXCEPT ![t] = NoReport]
    BY <1>0, <2>1
  <2>3. min' \in [Cores -> Nat] /\ min'[c] <= l /\ min'[c] <= min[c]
    BY <1>0, <1>2, <1>a DEF MetTypes
  <2> QED
    BY <1>0, <2>1, <2>2, <2>3, LastStep
<1> QED
  BY <1>1, <1>2

\* The plain store of the minimum, the last access of a report.
LEMMA StoreMinStep ==
  ASSUME CountersInv, NEW t \in Reporters, StoreMin(t)
  PROVE  CountersInv'
<1> PICK c \in Cores : c = report[t].core
  BY DEF CountersInv, MetTypes
<1> PICK l \in Latencies : l = report[t].lat
  BY DEF StoreMin, MetAt, CountersInv, MetTypes
<1>a. l \in Nat /\ min[c] \in Nat
  BY LatencyAssumption DEF CountersInv, MetTypes
<1>0. /\ mpc[t] = "storemin" /\ mpc' = [mpc EXCEPT ![t] = "idle"]
      /\ min' = [min EXCEPT ![c] = l] /\ report' = [report EXCEPT ![t] = NoReport]
      /\ UNCHANGED <<reqs, cycles, max, reports, told, crowded>>
  BY DEF StoreMin, MetAt
<1>1. /\ min' \in [Cores -> Nat] /\ min'[c] = l
      /\ \A d \in Cores : d # c => min'[d] = min[d]
  BY <1>0, <1>a DEF CountersInv, MetTypes
<1>2. c \notin crowded => l < min[c]
  BY <1>0 DEF CountersInv, Compared
<1>3. c \notin crowded => min'[c] <= l /\ min'[c] <= min[c]
  BY <1>1, <1>2, <1>a
<1> QED
  BY <1>0, <1>1, <1>3, LastStep

-----------------------------------------------------------------------------
\* How many cores' requests the export under way has read.
Counted == IF scan.at \in {"cycles", "max"} THEN scan.core + 1 ELSE scan.core

\* Partial sums of what the cores from 0 on had counted when they were read: none of
\* them had counted more than it has by now.
PartialSums(P, n) ==
  /\ P \in [0 .. CoreCount -> Int]
  /\ P[0] = 0
  /\ \A c \in 0 .. n - 1 : P[c + 1] <= P[c] + reqs[c]

\* What the exporter's locals can be.
Scans ==
  [at : {"idle", "reqs", "cycles", "max", "print"}, core : 0 .. CoreCount,
   requests : Int, cycles : Int, max : Int]

\* Where the export under way is.
ScanTypes ==
  /\ scan \in Scans
  /\ scan.at \in {"reqs", "cycles", "max"} => scan.core \in Cores
  /\ scan.at = "print" => scan.core = CoreCount
  /\ export.requests \in Int /\ export.max \in Int

\* The requests read so far are the partial sums of this export.
ScanSums ==
  scan.at # "idle" =>
    \E P : PartialSums(P, Counted) /\ P[Counted] = scan.requests

\* The last export's requests were partial sums too, and this export has passed them.
ExportSums ==
  \E P : /\ PartialSums(P, CoreCount) /\ P[CoreCount] = export.requests
         /\ scan.at # "idle" => scan.requests >= P[Counted]

\* A maximum that was read is still some core's.
MaxKept(m) == m <= 0 \/ \E c \in Cores : m <= max[c]

\* The export under way has the last export's maximum, or has still to read it.
MaxAhead ==
  \/ export.max <= scan.max
  \/ \E c \in Cores : scan.core <= c /\ export.max <= max[c]

\* What holds of the maxima as long as no core was crowded.
ExportMaxima ==
  crowded = {} =>
    /\ MaxKept(export.max)
    /\ scan.at # "idle" => scan.max >= 0 /\ MaxKept(scan.max) /\ MaxAhead

\* The inductive invariant of the exporter, beside that of the counters.
ExportInv == ScanTypes /\ ScanSums /\ ExportSums /\ ExportMaxima

\* Before the first export.
LEMMA ExportInit == MetInit => ExportInv
<1> SUFFICES ASSUME MetInit PROVE ExportInv
  OBVIOUS
<1> USE CoreAssumption DEF MetInit, NoScan
<1>1. ScanTypes /\ ScanSums
  BY DEF ScanTypes, ScanSums, Scans
<1>2. ExportSums
  <2> DEFINE Z == [c \in 0 .. CoreCount |-> 0]
  <2>1. reqs = [c \in Cores |-> 0] /\ 0 .. CoreCount - 1 = Cores
    BY DEF Cores
  <2>2. PartialSums(Z, CoreCount)
    BY <2>1 DEF PartialSums
  <2>3. Z[CoreCount] = 0
    OBVIOUS
  <2> HIDE DEF Z
  <2> QED
    BY <2>2, <2>3 DEF ExportSums
<1>3. ExportMaxima
  BY DEF ExportMaxima, MaxKept
<1> QED
  BY <1>1, <1>2, <1>3 DEF ExportInv

\* Counting more requests, with the export where it was, keeps the partial sums.
LEMMA SumsKeep ==
  ASSUME CountersInv, CountersInv', \A c \in Cores : reqs[c] <= reqs'[c],
         NEW P, NEW n \in 0 .. CoreCount, PartialSums(P, n)
  PROVE  PartialSums(P, n)'
<1>1. \A c \in 0 .. n - 1 : c \in Cores /\ c + 1 \in 0 .. CoreCount /\ c \in 0 .. CoreCount
  BY CoreAssumption DEF Cores
<1>2. \A c \in Cores : reqs[c] \in Int /\ reqs'[c] \in Int
  BY DEF CountersInv, MetTypes
<1>3. ASSUME NEW c \in 0 .. n - 1 PROVE P[c + 1] <= P[c] + reqs'[c]
  <2>1. P[c + 1] \in Int /\ P[c] \in Int /\ P[c + 1] <= P[c] + reqs[c]
    BY <1>1 DEF PartialSums
  <2>2. reqs[c] \in Int /\ reqs'[c] \in Int /\ reqs[c] <= reqs'[c]
    BY <1>1, <1>2
  <2> QED
    BY <2>1, <2>2
<1> QED
  BY <1>3 DEF PartialSums

\* How far an export is, as a number of cores.
LEMMA CountedRange ==
  ASSUME ScanTypes
  PROVE  Counted \in 0 .. CoreCount
BY CoreAssumption DEF ScanTypes, Scans, Counted, Cores

\* A step of a report: counts only grow, and as long as no core is crowded so do the
\* maxima.
LEMMA ReportKeepsExport ==
  ASSUME CountersInv, CountersInv', ExportInv, UNCHANGED exporting,
         \A c \in Cores : reqs[c] <= reqs'[c],
         crowded \subseteq crowded',
         crowded' = {} => \A c \in Cores : max[c] <= max'[c]
  PROVE  ExportInv'
<1> USE DEF ExportInv, exporting
<1>1. ScanTypes' /\ Counted' = Counted /\ Counted \in 0 .. CoreCount
  BY CountedRange DEF ScanTypes, Counted
<1>2. ScanSums'
  <2> SUFFICES ASSUME scan.at # "idle"
               PROVE  \E P : PartialSums(P, Counted)' /\ P[Counted] = scan.requests
    BY <1>1 DEF ScanSums, PartialSums
  <2>1. PICK P : PartialSums(P, Counted) /\ P[Counted] = scan.requests
    BY DEF ScanSums
  <2> PICK n \in 0 .. CoreCount : n = Counted
    BY <1>1
  <2>2. PartialSums(P, n)'
    BY <2>1, SumsKeep
  <2>3. PartialSums(P, Counted)'
    BY <2>2, <1>1
  <2> QED
    BY <2>1, <2>3
<1>3. ExportSums'
  <2>1. PICK P : /\ PartialSums(P, CoreCount) /\ P[CoreCount] = export.requests
                 /\ scan.at # "idle" => scan.requests >= P[Counted]
    BY DEF ExportSums
  <2>2. PartialSums(P, CoreCount)'
    <3>1. CoreCount \in 0 .. CoreCount
      BY CoreAssumption
    <3> QED
      BY <2>1, <3>1, SumsKeep
  <2> QED
    BY <1>1, <2>1, <2>2 DEF ExportSums
<1>4. ExportMaxima'
  <2> SUFFICES ASSUME crowded' = {}
               PROVE  /\ MaxKept(export.max)'
                      /\ scan.at # "idle" => scan.max >= 0 /\ MaxKept(scan.max)' /\ MaxAhead'
    BY DEF ExportMaxima
  <2>1. /\ MaxKept(export.max)
        /\ scan.at # "idle" => scan.max >= 0 /\ MaxKept(scan.max) /\ MaxAhead
    BY DEF ExportMaxima
  <2>2. /\ \A c \in Cores : max[c] \in Int /\ max'[c] \in Int /\ max[c] <= max'[c]
        /\ scan.max \in Int /\ export.max \in Int
    BY DEF CountersInv, MetTypes, ScanTypes, Scans
  <2>3. \A c \in Cores : /\ scan.max <= max[c] => scan.max <= max'[c]
                         /\ export.max <= max[c] => export.max <= max'[c]
    BY <2>2
  <2> QED
    BY <2>1, <2>3 DEF MaxKept, MaxAhead
<1> QED
  BY <1>1, <1>2, <1>3, <1>4

\* The steps of the exporter.
LEMMA ScanStep ==
  ASSUME CountersInv, CountersInv', ExportInv,
         ScanStart \/ ScanRequests \/ ScanCycles \/ ScanMax \/ ScanPrint
  PROVE  ExportInv'
<1> USE CoreAssumption DEF ExportInv, ScanAt, counters, reporting, Counted
<1>0. /\ UNCHANGED <<reqs, max, crowded>>
      /\ \A c \in Cores : reqs[c] \in Int /\ max[c] \in Int /\ cycles[c] \in Int
  BY DEF CountersInv, MetTypes, ScanStart, ScanRequests, ScanCycles, ScanMax, ScanPrint
<1>p. \A P, n : PartialSums(P, n)' <=> PartialSums(P, n)
  BY <1>0 DEF PartialSums
<1>m. \A m : MaxKept(m)' <=> MaxKept(m)
  BY <1>0 DEF MaxKept
<1>1. CASE ScanStart
  <2>1. /\ scan.at = "idle" /\ export' = export
        /\ scan' = [at |-> "reqs", core |-> 0, requests |-> 0, cycles |-> 0, max |-> 0]
    BY <1>1 DEF ScanStart
  <2>2. ScanTypes'
    BY <2>1 DEF ScanTypes, Scans, Cores
  <2>3. ScanSums' /\ ExportSums'
    <3>1. PICK P : PartialSums(P, CoreCount) /\ P[CoreCount] = export.requests
      BY DEF ExportSums
    <3>2. PartialSums(P, 0) /\ P[0] = 0
      BY <3>1 DEF PartialSums
    <3>3. Counted' = 0 /\ scan'.requests = 0
      BY <2>1
    <3>4. ScanSums'
      BY <1>p, <3>2, <3>3 DEF ScanSums
    <3>5. ExportSums'
      BY <1>p, <2>1, <3>1, <3>2, <3>3 DEF ExportSums
    <3> QED
      BY <3>4, <3>5
  <2>4. ExportMaxima'
    <3>1. \A c \in Cores : 0 <= c
      BY DEF Cores
    <3>2. crowded = {} => MaxKept(export.max)
      BY DEF ExportMaxima
    <3>3. export.max \in Int
      BY DEF ScanTypes
    <3>4. scan'.max = 0 /\ scan'.core = 0
      BY <2>1
    <3>5. crowded = {} => MaxAhead'
      BY <1>0, <2>1, <3>1, <3>2, <3>3, <3>4 DEF MaxAhead, MaxKept
    <3>6. MaxKept(0)
      BY DEF MaxKept
    <3>7. crowded = {} => MaxKept(export.max)' /\ MaxKept(scan.max)'
      BY <1>0, <2>1, <3>2, <3>4, <3>6 DEF MaxKept
    <3> QED
      BY <1>0, <3>4, <3>5, <3>7 DEF ExportMaxima
  <2> QED
    BY <2>2, <2>3, <2>4
<1>2. CASE ScanRequests
  <2> PICK c \in Cores : c = scan.core
    BY <1>2 DEF ScanRequests, ScanTypes
  <2> PICK q \in Int : q = scan.requests
    BY DEF ScanTypes, Scans
  <2> PICK r \in Int : r = reqs[c]
    BY <1>0
  <2>1. /\ scan.at = "reqs" /\ export' = export
        /\ scan' = [scan EXCEPT !.at = "cycles", !.requests = q + r]
    BY <1>2 DEF ScanRequests
  <2>c. c \in 0 .. CoreCount /\ c + 1 \in 0 .. CoreCount /\ c \in Int
    BY DEF Cores
  <2>2. /\ scan' \in Scans /\ scan'.at = "cycles" /\ scan'.requests = q + r
        /\ scan'.core = c /\ scan'.max = scan.max
    <3>1. q + r \in Int
      OBVIOUS
    <3> QED
      BY <2>1, <3>1 DEF ScanTypes, Scans
  <2>3. ScanTypes'
    BY <2>1, <2>2 DEF ScanTypes
  <2>4. Counted = c /\ Counted' = c + 1
    BY <2>1, <2>2
  <2>5. ScanSums'
    <3>1. PICK P : PartialSums(P, c) /\ P[c] = q
      BY <2>1, <2>4 DEF ScanSums
    <3> DEFINE Q == [P EXCEPT ![c + 1] = q + r]
    <3>2. /\ P \in [0 .. CoreCount -> Int] /\ P[0] = 0
          /\ \A d \in 0 .. c - 1 : P[d + 1] <= P[d] + reqs[d]
      BY <3>1 DEF PartialSums
    <3>3. Q \in [0 .. CoreCount -> Int] /\ Q[c + 1] = q + r
          /\ \A d \in 0 .. CoreCount : d # c + 1 => Q[d] = P[d]
      BY <2>c, <3>2
    <3> HIDE DEF Q
    <3>4. ASSUME NEW d \in 0 .. (c + 1) - 1 PROVE Q[d + 1] <= Q[d] + reqs[d]
      <4>0. d \in 0 .. CoreCount /\ d # c + 1 /\ Q[d] = P[d]
        BY <2>c, <3>3
      <4>1. CASE d = c
        BY <3>1, <3>3, <4>0, <4>1
      <4>2. CASE d # c
        <5>1. d \in 0 .. c - 1 /\ d + 1 \in 0 .. CoreCount /\ d + 1 # c + 1
          BY <2>c, <4>2
        <5> QED
          BY <3>2, <3>3, <4>0, <5>1
      <4> QED
        BY <4>1, <4>2
    <3>5. Q[0] = 0
      BY <2>c, <3>2, <3>3 DEF Cores
    <3>6. PartialSums(Q, c + 1)
      BY <3>3, <3>4, <3>5 DEF PartialSums
    <3>7. PartialSums(Q, c + 1)' /\ Q[Counted'] = scan'.requests
      BY <1>p, <2>2, <2>4, <3>3, <3>6
    <3> QED
      BY <2>4, <3>7 DEF ScanSums, PartialSums
  <2>6. ExportSums'
    <3>1. PICK P : /\ PartialSums(P, CoreCount) /\ P[CoreCount] = export.requests
                   /\ q >= P[c]
      BY <2>1, <2>4 DEF ExportSums
    <3>2. P[c + 1] <= P[c] + r /\ P[c] \in Int /\ P[c + 1] \in Int
      BY <2>c, <3>1 DEF PartialSums, Cores
    <3>3. q + r >= P[c + 1]
      BY <3>1, <3>2
    <3> QED
      BY <1>p, <2>1, <2>2, <2>4, <3>1, <3>3 DEF ExportSums
  <2>7. ExportMaxima'
    BY <1>0, <2>1, <2>2, <1>m DEF ExportMaxima, MaxAhead, MaxKept
  <2> QED
    BY <2>3, <2>5, <2>6, <2>7
<1>3. CASE ScanCycles
  <2> PICK y \in Int : y = scan.cycles + cycles[scan.core]
    BY <1>0, <1>3 DEF ScanCycles, ScanTypes, Scans
  <2>1. /\ scan.at = "cycles" /\ export' = export
        /\ scan' = [scan EXCEPT !.at = "max", !.cycles = y]
    BY <1>3 DEF ScanCycles
  <2>2. /\ scan' \in Scans /\ scan'.at = "max" /\ scan'.requests = scan.requests
        /\ scan'.core = scan.core /\ scan'.max = scan.max
    BY <2>1 DEF ScanTypes, Scans
  <2>3. ScanTypes'
    BY <2>1, <2>2 DEF ScanTypes
  <2>4. Counted' = Counted
    BY <2>1, <2>2
  <2>5. ScanSums' /\ ExportSums'
    BY <1>p, <2>1, <2>2, <2>4, <1>0 DEF ScanSums, ExportSums, PartialSums
  <2>7. ExportMaxima'
    BY <1>0, <2>1, <2>2, <1>m DEF ExportMaxima, MaxAhead, MaxKept
  <2> QED
    BY <2>3, <2>5, <2>7
<1>4. CASE ScanMax
  <2> PICK c \in Cores : c = scan.core
    BY <1>4 DEF ScanMax, ScanTypes
  <2> PICK x \in Int : x = scan.max
    BY DEF ScanTypes, Scans
  <2> PICK y \in Int : y = max[c]
    BY <1>0
  <2> PICK z \in Int : z = Larger(x, y)
    BY DEF Larger
  <2> PICK a : a = IF c + 1 \in Cores THEN "reqs" ELSE "print"
    OBVIOUS
  <2>z. (z = x \/ z = y) /\ z >= x /\ z >= y
    BY DEF Larger
  <2>1. /\ scan.at = "max" /\ export' = export
        /\ scan' = [scan EXCEPT !.at = a, !.core = c + 1, !.max = z]
    BY <1>4 DEF ScanMax
  <2>c. /\ c \in Int /\ c + 1 \in 0 .. CoreCount /\ a \in {"reqs", "print"}
        /\ a = "print" => c + 1 = CoreCount
        /\ a = "reqs" => c + 1 \in Cores
    BY DEF Cores
  <2>2. /\ scan' \in Scans /\ scan'.at = a /\ scan'.requests = scan.requests
        /\ scan'.core = c + 1 /\ scan'.max = z
    BY <2>1, <2>c DEF ScanTypes, Scans
  <2>3. ScanTypes'
    BY <2>1, <2>2, <2>c DEF ScanTypes
  <2>4. Counted' = c + 1 /\ Counted = c + 1
    BY <2>1, <2>2, <2>c
  <2>5. ScanSums' /\ ExportSums'
    <3>1. PICK P : PartialSums(P, c + 1) /\ P[c + 1] = scan.requests
      BY <2>1, <2>4 DEF ScanSums
    <3>2. PICK R : /\ PartialSums(R, CoreCount) /\ R[CoreCount] = export.requests
                   /\ scan.requests >= R[c + 1]
      BY <2>1, <2>4 DEF ExportSums
    <3> HIDE DEF Counted
    <3>3. ScanSums'
      BY <1>p, <2>2, <2>4, <3>1 DEF ScanSums
    <3>4. ExportSums'
      BY <1>p, <2>1, <2>2, <2>4, <3>2 DEF ExportSums
    <3> QED
      BY <3>3, <3>4
  <2>7. ExportMaxima'
    <3> SUFFICES ASSUME crowded = {}
                 PROVE  MaxKept(export.max)' /\ z >= 0 /\ MaxKept(z)' /\ MaxAhead'
      BY <1>0, <2>2 DEF ExportMaxima, MaxKept
    <3>1. MaxKept(export.max) /\ x >= 0 /\ MaxKept(x) /\ MaxAhead
      BY <2>1 DEF ExportMaxima
    <3>2. MaxKept(y)
      BY DEF MaxKept
    <3>3. MaxKept(export.max)' /\ z >= 0 /\ MaxKept(z)'
      BY <1>0, <2>1, <2>z, <3>1, <3>2 DEF MaxKept
    <3>4. MaxAhead'
      <4>0. export.max \in Int
        BY DEF ScanTypes
      <4>1. CASE export.max <= x
        BY <2>1, <2>2, <2>z, <4>0, <4>1 DEF MaxAhead
      <4>2. CASE \E d \in Cores : c <= d /\ export.max <= max[d]
        <5> PICK d \in Cores : c <= d /\ export.max <= max[d]
          BY <4>2
        <5>1. CASE d = c
          BY <2>1, <2>2, <2>z, <4>0, <5>1 DEF MaxAhead
        <5>2. CASE d # c
          <6>1. c + 1 <= d
            BY <2>c, <5>2 DEF Cores
          <6> QED
            BY <1>0, <2>1, <2>2, <6>1 DEF MaxAhead
        <5> QED
          BY <5>1, <5>2
      <4> QED
        BY <3>1, <4>1, <4>2 DEF MaxAhead
    <3> QED
      BY <3>3, <3>4
  <2> QED
    BY <2>3, <2>5, <2>7
<1>5. CASE ScanPrint
  <2>1. /\ scan.at = "print" /\ scan' = NoScan
        /\ export'.requests = scan.requests /\ export'.max = scan.max
    BY <1>5 DEF ScanPrint
  <2>2. ScanTypes'
    BY <2>1 DEF ScanTypes, Scans, NoScan
  <2>3. scan'.at = "idle" /\ Counted = CoreCount
    BY <2>1 DEF ScanTypes, NoScan
  <2>4. PICK P : PartialSums(P, CoreCount) /\ P[CoreCount] = scan.requests
    BY <2>1, <2>3 DEF ScanSums
  <2>5. ScanSums' /\ ExportSums'
    BY <1>p, <2>1, <2>3, <2>4 DEF ScanSums, ExportSums
  <2>6. ExportMaxima'
    BY <1>0, <1>m, <2>1, <2>3 DEF ExportMaxima, MaxKept
  <2> QED
    BY <2>2, <2>5, <2>6
<1> QED
  BY <1>1, <1>2, <1>3, <1>4, <1>5

\* Every step of the metrics keeps both invariants.
LEMMA MetricsStep ==
  ASSUME CountersInv, ExportInv, [MetNext]_metVars
  PROVE  CountersInv' /\ ExportInv'
<1>1. CASE UNCHANGED metVars
  <2>1. UNCHANGED <<counters, reporting>> /\ UNCHANGED exporting
    BY <1>1 DEF metVars
  <2>2. CountersInv'
    BY <2>1, ExporterKeeps
  <2>3. reqs' = reqs /\ max' = max /\ crowded' = crowded
    BY <2>1 DEF counters, reporting
  <2>4. \A c \in Cores : reqs[c] <= reqs'[c] /\ max[c] <= max'[c]
    BY <2>3 DEF CountersInv, MetTypes
  <2> QED
    BY <2>1, <2>2, <2>3, <2>4, ReportKeepsExport
<1>2. CASE ScanStart \/ ScanRequests \/ ScanCycles \/ ScanMax \/ ScanPrint
  <2>1. UNCHANGED <<counters, reporting>>
    BY <1>2 DEF ScanStart, ScanRequests, ScanCycles, ScanMax, ScanPrint
  <2>2. CountersInv'
    BY <2>1, ExporterKeeps
  <2> QED
    BY <1>2, <2>2, ScanStep
<1>3. ASSUME NEW t \in Reporters, NEW c \in Cores, NEW l \in Latencies, Inc(t, c, l)
      PROVE  CountersInv' /\ ExportInv'
  <2>1. CountersInv'
    BY <1>3, IncStep
  <2>2. /\ UNCHANGED exporting /\ max' = max /\ crowded' = crowded
        /\ reqs' = [reqs EXCEPT ![c] = reqs[c] + 1]
    BY <1>3 DEF Inc
  <2>3. \A d \in Cores : reqs[d] <= reqs'[d] /\ max[d] <= max'[d]
    BY <2>2 DEF CountersInv, MetTypes
  <2> QED
    BY <2>1, <2>2, <2>3, ReportKeepsExport
<1>4. ASSUME NEW t \in Reporters, StoreMax(t) PROVE CountersInv' /\ ExportInv'
  <2>1. CountersInv' /\ \A d \in Cores \ crowded : max[d] <= max'[d]
    BY <1>4, StoreMaxStep
  <2>2. UNCHANGED exporting /\ reqs' = reqs /\ crowded' = crowded
    BY <1>4 DEF StoreMax
  <2>3. \A d \in Cores : reqs[d] <= reqs'[d]
    BY <2>2 DEF CountersInv, MetTypes
  <2>4. crowded' = {} => \A d \in Cores : max[d] <= max'[d]
    BY <2>1, <2>2
  <2> QED
    BY <2>1, <2>2, <2>3, <2>4, ReportKeepsExport
<1>5. ASSUME NEW t \in Reporters, AddCycles(t) \/ ReadMax(t) \/ ReadMin(t) \/ StoreMin(t)
      PROVE  CountersInv' /\ ExportInv'
  <2>1. CountersInv'
    BY <1>5, AddCyclesStep, ReadMaxStep, ReadMinStep, StoreMinStep
  <2>2. UNCHANGED exporting /\ reqs' = reqs /\ max' = max /\ crowded \subseteq crowded'
    BY <1>5 DEF AddCycles, ReadMax, ReadMin, StoreMin
  <2>3. \A d \in Cores : reqs[d] <= reqs'[d] /\ max[d] <= max'[d]
    BY <2>2 DEF CountersInv, MetTypes
  <2> QED
    BY <2>1, <2>2, <2>3, ReportKeepsExport
<1> QED
  BY <1>1, <1>2, <1>3, <1>4, <1>5 DEF MetNext

\* The metrics tell the truth, for any number of cores, threads and reports and
\* whatever the interleaving: the cycle totals are the sums of what was reported, the
\* extremes bound every report that returned on cores where no two reports overlapped,
\* and no export shows fewer requests than the one before it, nor, as long as no core
\* was crowded, a smaller maximum (metrics.c:18-62).
THEOREM MetricsExactHolds == MetSpec => []MetricsExact
<1>1. CountersInv /\ ExportInv => MetricsExact
  <2> SUFFICES ASSUME CountersInv, ExportInv PROVE MetricsExact
    OBVIOUS
  <2>1. \A c \in Cores : cycles[c] = MapThenSumSet(LAMBDA r : r[3], told[c])
    BY DEF CountersInv, TotalsExact, LatencySum
  <2>2. \A c \in Cores \ crowded : \A r \in Settled(c) : min[c] <= r[3] /\ r[3] <= max[c]
    BY DEF CountersInv, Bounds
  <2>3. ASSUME scan.at = "print"
        PROVE  /\ scan.requests >= export.requests
               /\ crowded = {} => scan.max >= export.max
    <3>1. scan.core = CoreCount /\ Counted = CoreCount
      BY <2>3 DEF ExportInv, ScanTypes, Counted
    <3>2. scan.requests >= export.requests
      BY <2>3, <3>1 DEF ExportInv, ExportSums
    <3>3. \A c \in Cores : ~(CoreCount <= c)
      BY CoreAssumption DEF Cores
    <3>4. scan.max \in Int /\ export.max \in Int
      BY DEF ExportInv, ScanTypes, Scans
    <3>5. crowded = {} => scan.max >= export.max
      BY <2>3, <3>1, <3>3, <3>4 DEF ExportInv, ExportMaxima, MaxAhead
    <3> QED
      BY <3>2, <3>5
  <2> QED
    BY <2>1, <2>2, <2>3 DEF MetricsExact
<1>2. MetInit => CountersInv /\ ExportInv
  BY CountersInit, ExportInit
<1>3. CountersInv /\ ExportInv /\ [MetNext]_metVars => (CountersInv /\ ExportInv)'
  BY MetricsStep
<1> QED
  BY <1>1, <1>2, <1>3, PTL DEF MetSpec

=============================================================================
