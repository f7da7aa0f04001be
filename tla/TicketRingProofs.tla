-------------------------- MODULE TicketRingProofs --------------------------
(***************************************************************************)
(* Proofs about the two rings whose cells carry sequence numbers.          *)
(* MpmcQueue: for every set of threads and values, every bound on tickets  *)
(* and every ring of at least two cells.  Logger: one consumer, which must *)
(* print in the order of the tickets, and a host that may free the ring.   *)
(***************************************************************************)
EXTENDS MpmcQueue, Logger, RingArith, SequenceTheorems

\* The next ticket's cell is another one: what img_mpmc_init must be asked for.
RingOfTwo == N >= 2

\* p & mask is an index into q->cells.
LEMMA CellType == ASSUME NEW p \in Nat PROVE Cell(p) \in Cells
  BY NAssumption, ModInRange DEF Cell, Cells

\* Two tickets less than a ring apart have different cells.
LEMMA CellDistinct ==
  ASSUME NEW p \in Nat, NEW q \in Nat, p < q, q < p + N
  PROVE  Cell(p) # Cell(q)
  BY NAssumption, WindowDistinct DEF Cell

\* A ticket and the one a lap later share a cell.
LEMMA CellLap == ASSUME NEW p \in Nat PROVE Cell(p + N) = Cell(p)
  BY NAssumption, NextLap DEF Cell

-----------------------------------------------------------------------------
\* Every variable of queue_mpmc.c keeps its type, whatever the ring's size.
THEOREM TypeCorrect == Spec => []TypeOK
<1>1. Init => TypeOK
  BY NAssumption DEF Init, TypeOK, Cells, Pcs
<1>2. TypeOK /\ [Next]_vars => TypeOK'
  <2> SUFFICES ASSUME TypeOK, [Next]_vars PROVE TypeOK'
    OBVIOUS
  <2> USE NAssumption DEF TypeOK, Goto, Return, Pcs, PushPcs, PopPcs
  <2>1. ASSUME NEW t \in Threads, NEW v \in Values, PushCall(t, v) PROVE TypeOK'
    BY <2>1 DEF PushCall
  <2>2. ASSUME NEW t \in Threads, PopCall(t) PROVE TypeOK'
    BY <2>2 DEF PopCall
  <2>3. ASSUME NEW t \in Threads, PushStep(t) PROVE TypeOK'
    <3>1. Cell(pos[t]) \in Cells /\ pos[t] \in Nat
      BY CellType
    <3> QED
      BY <2>3, <3>1 DEF PushStep, PushLoadTail, PushLoadSeqFree, PushLoadSeqFull,
           PushLoadSeqRetry, PushCasOk, PushCasFail, PushData, PushPublish
  <2>4. ASSUME NEW t \in Threads, PopStep(t) PROVE TypeOK'
    <3>1. Cell(pos[t]) \in Cells /\ pos[t] \in Nat
      BY CellType
    <3> QED
      BY <2>4, <3>1 DEF PopStep, PopLoadHead, PopLoadSeqReady, PopLoadSeqEmpty,
           PopLoadSeqRetry, PopCasOk, PopCasFail, PopData, PopRelease
  <2>5. CASE UNCHANGED vars
    BY <2>5 DEF vars
  <2> QED
    BY <2>1, <2>2, <2>3, <2>4, <2>5 DEF Next
<1> QED
  BY <1>1, <1>2, PTL DEF Spec

-----------------------------------------------------------------------------
\* A step that changes no shared memory and starts or ends no ownership of a
\* cell can only disturb what the thread itself read.
LEMMA LocalStep ==
  ASSUME TypeOK, TicketInv, TypeOK',
         UNCHANGED <<head, tail, seq, data>>,
         NEW t \in Threads, ~Pushing(t), ~Popping(t), ~Pushing(t)', ~Popping(t)',
         \A u \in Threads \ {t} : pc'[u] = pc[u] /\ pos'[u] = pos[u] /\ val'[u] = val[u],
         StaleReads'
  PROVE  TicketInv'
<1> USE DEF TicketInv, Pushing, Popping
<1>1. Bounded'
  BY DEF Bounded
<1>2. ReservedTickets'
  BY DEF ReservedTickets
<1>3. FreeTickets'
  BY DEF FreeTickets
<1>4. PushOwners'
  BY DEF PushOwners
<1>5. PopOwners'
  BY DEF PopOwners
<1>6. DistinctOwners'
  BY DEF DistinctOwners
<1>7. PopNeverNull'
  BY DEF PopNeverNull
<1> QED
  BY <1>1, <1>2, <1>3, <1>4, <1>5, <1>6, <1>7

-----------------------------------------------------------------------------
\* Two positions of [head, head + N) in one cell are the same position.
LEMMA WindowCell ==
  ASSUME NEW h \in Nat, NEW p \in Nat, NEW q \in Nat,
         h <= p, p < h + N, h <= q, q < h + N, Cell(p) = Cell(q)
  PROVE  p = q
<1>1. ~(p < q)
  BY CellDistinct, NAssumption
<1>2. ~(q < p)
  BY CellDistinct, NAssumption
<1> QED
  BY <1>1, <1>2

\* A push that finds its cell free at tail has room: the ring is not full.
\* This is where one cell is not enough.
LEMMA RoomAtTail ==
  ASSUME RingOfTwo, TypeOK, TicketInv, seq[Cell(tail)] = tail
  PROVE  tail < head + N
<1> SUFFICES ASSUME tail = head + N PROVE FALSE
  BY NAssumption DEF TypeOK, TicketInv, Bounded
<1>1. head \in head .. tail - 1 /\ head \in Nat
  BY NAssumption DEF TypeOK
<1>2. seq[Cell(head)] \in {head, head + 1}
  BY <1>1 DEF TicketInv, ReservedTickets
<1>3. Cell(tail) = Cell(head)
  BY <1>1, CellLap
<1> QED
  BY <1>1, <1>2, <1>3, NAssumption DEF RingOfTwo

\* push takes ticket tail.
LEMMA PushCasOkInv ==
  ASSUME RingOfTwo, TypeOK, TypeOK', TicketInv, NEW t \in Threads, PushCasOk(t)
  PROVE  TicketInv'
<1> USE NAssumption DEF TypeOK, PushCasOk, Goto
<1>0. /\ pos[t] = tail /\ seq[Cell(tail)] = tail /\ val[t] \in Values
      /\ tail' = tail + 1 /\ ~Pushing(t) /\ ~Popping(t) /\ Pushing(t)' /\ ~Popping(t)'
  BY DEF TicketInv, StaleReads, Pushing, Popping, PushPcs
<1>1. tail < head + N
  BY <1>0, RoomAtTail
<1>2. \A u \in Threads \ {t} : (Pushing(u)' <=> Pushing(u)) /\ (Popping(u)' <=> Popping(u))
  BY DEF Pushing, Popping
<1>b. Bounded'
  BY <1>0, <1>1 DEF TicketInv, Bounded
<1>3. ReservedTickets'
  BY <1>0, <1>2 DEF TicketInv, ReservedTickets
<1>4. FreeTickets'
  BY <1>0, <1>2 DEF TicketInv, FreeTickets
<1>5. PushOwners'
  <2>1. pc'[t] = "push_data"
    OBVIOUS
  <2> QED
    BY <1>0, <1>2, <2>1 DEF TicketInv, PushOwners, Bounded, Pushing
<1>6. PopOwners'
  <2> SUFFICES ASSUME NEW u \in Threads, Popping(u) PROVE (tail + 1 <= pos[u] + N)
    BY <1>0, <1>2 DEF TicketInv, PopOwners
  <2>1. tail <= pos[u] + N /\ seq[Cell(pos[u])] = pos[u] + 1 /\ pos[u] < head
    BY DEF TicketInv, PopOwners
  <2>2. ASSUME tail = pos[u] + N PROVE FALSE
    <3>1. Cell(tail) = Cell(pos[u])
      BY <2>2, CellLap
    <3> QED
      BY <3>1, <2>1, <2>2, <1>0 DEF RingOfTwo
  <2> QED
    BY <2>1, <2>2
<1>7. DistinctOwners'
  <2>1. \A u \in Threads : Pushing(u) => pos[u] # tail
    BY DEF TicketInv, PushOwners
  <2> QED
    BY <1>0, <1>2, <2>1 DEF TicketInv, DistinctOwners
<1>8. StaleReads'
  BY <1>0 DEF TicketInv, StaleReads, PushPcs
<1>9. PopNeverNull'
  BY DEF TicketInv, PopNeverNull
<1> QED
  BY <1>b, <1>3, <1>4, <1>5, <1>6, <1>7, <1>8, <1>9 DEF TicketInv

\* push writes its item; no other call looks at the cell.
LEMMA PushDataInv ==
  ASSUME TypeOK, TypeOK', TicketInv, NEW t \in Threads, PushData(t)
  PROVE  TicketInv'
<1> USE NAssumption DEF TypeOK, PushData, Goto
<1>0. /\ head <= pos[t] /\ pos[t] < tail /\ tail <= head + N
      /\ seq[Cell(pos[t])] = pos[t] /\ val[t] \in Values /\ Cell(pos[t]) \in Cells
      /\ Pushing(t) /\ Pushing(t)' /\ ~Popping(t) /\ ~Popping(t)'
  BY CellType DEF TicketInv, Bounded, PushOwners, StaleReads, Pushing, Popping, PushPcs
<1>2. \A u \in Threads : (Pushing(u)' <=> Pushing(u)) /\ (Popping(u)' <=> Popping(u))
  BY DEF Pushing, Popping
<1>3. \A c \in Cells : data[c] \in Values => data'[c] \in Values
  BY <1>0
<1>a. \A p \in Nat : data[Cell(p)] \in Values => data'[Cell(p)] \in Values
  BY <1>3, CellType
<1>b. Bounded'
  BY DEF TicketInv, Bounded
<1>4. ReservedTickets'
  BY <1>2, <1>a DEF TicketInv, ReservedTickets
<1>5. FreeTickets'
  BY <1>2 DEF TicketInv, FreeTickets
<1>6. PushOwners'
  <2> SUFFICES ASSUME NEW u \in Threads, Pushing(u), pc'[u] = "push_pub"
               PROVE  data'[Cell(pos[u])] \in Values
    BY <1>2 DEF TicketInv, PushOwners
  <2>1. CASE u = t
    BY <2>1, <1>0
  <2>2. CASE u # t
    BY <2>2, <1>a DEF TicketInv, PushOwners
  <2> QED
    BY <2>1, <2>2
<1>7. PopOwners'
  BY <1>2, <1>a DEF TicketInv, PopOwners
<1>8. DistinctOwners'
  BY <1>2 DEF TicketInv, DistinctOwners
<1>9. StaleReads'
  BY DEF TicketInv, StaleReads, PushPcs
<1>10. PopNeverNull'
  BY DEF TicketInv, PopNeverNull
<1> QED
  BY <1>b, <1>4, <1>5, <1>6, <1>7, <1>8, <1>9, <1>10 DEF TicketInv

\* push publishes: only the ticket's own cell changes its turn.
LEMMA PushPublishInv ==
  ASSUME RingOfTwo, TypeOK, TypeOK', TicketInv, NEW t \in Threads, PushPublish(t)
  PROVE  TicketInv'
<1> USE NAssumption DEF TypeOK, PushPublish, Goto, Return
<1> DEFINE x == pos[t]
<1>0. /\ x \in Nat /\ head <= x /\ x < tail /\ tail <= head + N
      /\ seq[Cell(x)] = x /\ data[Cell(x)] \in Values /\ Cell(x) \in Cells
      /\ Pushing(t) /\ ~Pushing(t)' /\ ~Popping(t) /\ ~Popping(t)'
  BY CellType DEF TicketInv, Bounded, PushOwners, Pushing, Popping
<1>1. seq'[Cell(x)] = x + 1 /\ \A c \in Cells : c # Cell(x) => seq'[c] = seq[c]
  BY <1>0
<1>2. \A u \in Threads \ {t} : /\ (Pushing(u)' <=> Pushing(u)) /\ (Popping(u)' <=> Popping(u))
                               /\ pos'[u] = pos[u]
  BY DEF Pushing, Popping
<1>3. \A p \in Nat : head <= p /\ p < head + N /\ p # x => seq'[Cell(p)] = seq[Cell(p)]
  <2> SUFFICES ASSUME NEW p \in Nat, head <= p, p < head + N, p # x
               PROVE  seq'[Cell(p)] = seq[Cell(p)]
    OBVIOUS
  <2>1. Cell(p) # Cell(x)
    BY <1>0, WindowCell
  <2> QED
    BY <2>1, <1>1, CellType
<1>b. Bounded'
  BY DEF TicketInv, Bounded
<1>4. ReservedTickets'
  <2> SUFFICES ASSUME NEW p \in head .. tail - 1
               PROVE  \/ seq'[Cell(p)] = p /\ \E u \in Threads : Pushing(u)' /\ pos'[u] = p
                      \/ seq'[Cell(p)] = p + 1 /\ data[Cell(p)] \in Values
    BY DEF ReservedTickets
  <2>1. CASE p = x
    BY <2>1, <1>0, <1>1
  <2>2. CASE p # x
    BY <2>2, <1>0, <1>2, <1>3 DEF TicketInv, ReservedTickets
  <2> QED
    BY <2>1, <2>2
<1>5. FreeTickets'
  <2>1. \A p \in tail .. head + N - 1 : seq'[Cell(p)] = seq[Cell(p)]
    BY <1>0, <1>3
  <2>2. \A u \in Threads : Popping(u) => Popping(u)' /\ pos'[u] = pos[u]
    BY <1>0, <1>2
  <2> QED
    BY <2>1, <2>2 DEF TicketInv, FreeTickets
<1>6. PushOwners'
  <2> SUFFICES ASSUME NEW u \in Threads \ {t}, Pushing(u)
               PROVE  seq'[Cell(pos[u])] = seq[Cell(pos[u])]
    BY <1>0, <1>2 DEF TicketInv, PushOwners
  <2>1. pos[u] # x /\ head <= pos[u] /\ pos[u] < head + N
    BY <1>0 DEF TicketInv, DistinctOwners, PushOwners
  <2> QED
    BY <2>1, <1>3
<1>7. PopOwners'
  <2> SUFFICES ASSUME NEW u \in Threads \ {t}, Popping(u)
               PROVE  seq'[Cell(pos[u])] = seq[Cell(pos[u])]
    BY <1>0, <1>2 DEF TicketInv, PopOwners
  <2>1. pos[u] < x /\ x < pos[u] + N /\ pos[u] \in Nat
    BY <1>0 DEF TicketInv, PopOwners
  <2> QED
    BY <2>1, <1>0, <1>1, CellDistinct, CellType
<1>8. DistinctOwners'
  BY <1>0, <1>2 DEF TicketInv, DistinctOwners
<1>9. StaleReads'
  <2> SUFFICES ASSUME NEW u \in Threads \ {t}
               PROVE  /\ pc[u] = "push_cas" /\ pos[u] = tail => seq'[Cell(pos[u])] = pos[u]
                      /\ pc[u] = "pop_cas" /\ pos[u] = head => seq'[Cell(pos[u])] = pos[u] + 1
    BY DEF TicketInv, StaleReads, PushPcs
  <2>1. ASSUME pc[u] = "push_cas", pos[u] = tail PROVE seq'[Cell(pos[u])] = pos[u]
    <3>1. seq[Cell(tail)] = tail
      BY <2>1 DEF TicketInv, StaleReads
    <3>2. tail < head + N
      BY <3>1, RoomAtTail
    <3> QED
      BY <2>1, <3>1, <3>2, <1>0, <1>3
  <2>2. ASSUME pc[u] = "pop_cas", pos[u] = head PROVE seq'[Cell(pos[u])] = pos[u] + 1
    <3>1. seq[Cell(head)] = head + 1
      BY <2>2 DEF TicketInv, StaleReads
    <3> QED
      BY <2>2, <3>1, <1>0, <1>1, <1>3
  <2> QED
    BY <2>1, <2>2
<1>10. PopNeverNull'
  BY DEF TicketInv, PopNeverNull
<1> QED
  BY <1>b, <1>4, <1>5, <1>6, <1>7, <1>8, <1>9, <1>10 DEF TicketInv

\* pop takes ticket head.
LEMMA PopCasOkInv ==
  ASSUME RingOfTwo, TypeOK, TypeOK', TicketInv, NEW t \in Threads, PopCasOk(t)
  PROVE  TicketInv'
<1> USE NAssumption DEF TypeOK, PopCasOk, Goto
<1>0. /\ pos[t] = head /\ seq[Cell(head)] = head + 1 /\ Cell(head) \in Cells
      /\ head' = head + 1 /\ ~Pushing(t) /\ ~Popping(t) /\ ~Pushing(t)' /\ Popping(t)'
  BY CellType DEF TicketInv, StaleReads, Pushing, Popping
<1>1. head < tail
  <2> SUFFICES ASSUME head = tail PROVE FALSE
    BY DEF TicketInv, Bounded
  <2>1. seq[Cell(tail)] = tail \/ seq[Cell(tail)] = tail - N + 1
    BY DEF TicketInv, FreeTickets
  <2> QED
    BY <2>1, <1>0
<1>2. \A u \in Threads \ {t} : (Pushing(u)' <=> Pushing(u)) /\ (Popping(u)' <=> Popping(u))
  BY DEF Pushing, Popping
<1>3. data[Cell(head)] \in Values
  BY <1>0, <1>1 DEF TicketInv, ReservedTickets
<1>b. Bounded'
  BY <1>0, <1>1 DEF TicketInv, Bounded
<1>4. ReservedTickets'
  <2>1. \A u \in Threads : Pushing(u) => Pushing(u)'
    BY <1>0, <1>2
  <2> QED
    BY <1>0, <2>1 DEF TicketInv, ReservedTickets
<1>5. FreeTickets'
  <2> SUFFICES ASSUME NEW p \in tail .. head + N
               PROVE  \/ seq[Cell(p)] = p
                      \/ /\ seq[Cell(p)] = p - N + 1
                         /\ \E u \in Threads : Popping(u)' /\ pos[u] = p - N
    BY <1>0 DEF FreeTickets
  <2>1. CASE p = head + N
    BY <2>1, <1>0, CellLap
  <2>2. CASE p # head + N
    <3>1. \A u \in Threads : Popping(u) => Popping(u)'
      BY <1>0, <1>2
    <3> QED
      BY <2>2, <3>1 DEF TicketInv, FreeTickets
  <2> QED
    BY <2>1, <2>2
<1>6. PushOwners'
  <2> SUFFICES ASSUME NEW u \in Threads, Pushing(u) PROVE head + 1 <= pos[u]
    BY <1>0, <1>2 DEF TicketInv, PushOwners
  <2>1. head <= pos[u] /\ seq[Cell(pos[u])] = pos[u]
    BY DEF TicketInv, PushOwners
  <2> QED
    BY <2>1, <1>0
<1>7. PopOwners'
  <2>1. pos[t] < head' /\ tail <= pos[t] + N
    BY <1>0 DEF TicketInv, Bounded
  <2> QED
    BY <1>0, <1>2, <1>3, <2>1 DEF TicketInv, PopOwners
<1>8. DistinctOwners'
  <2>1. \A u \in Threads : Popping(u) => pos[u] # head
    BY DEF TicketInv, PopOwners
  <2> QED
    BY <1>0, <1>2, <2>1 DEF TicketInv, DistinctOwners
<1>9. StaleReads'
  BY <1>0 DEF TicketInv, StaleReads, PushPcs
<1>10. PopNeverNull'
  BY DEF TicketInv, PopNeverNull
<1> QED
  BY <1>b, <1>4, <1>5, <1>6, <1>7, <1>8, <1>9, <1>10 DEF TicketInv

\* pop reads the item its ticket promised.
LEMMA PopDataInv ==
  ASSUME TypeOK, TypeOK', TicketInv, NEW t \in Threads, PopData(t)
  PROVE  TicketInv'
<1> USE NAssumption DEF TypeOK, PopData, Goto
<1>0. data[Cell(pos[t])] \in Values /\ Popping(t)
  BY DEF TicketInv, PopOwners, Popping
<1>2. \A u \in Threads : (Pushing(u)' <=> Pushing(u)) /\ (Popping(u)' <=> Popping(u))
  BY DEF Pushing, Popping
<1>b. Bounded'
  BY DEF TicketInv, Bounded
<1>4. ReservedTickets'
  BY <1>2 DEF TicketInv, ReservedTickets
<1>5. FreeTickets'
  BY <1>2 DEF TicketInv, FreeTickets
<1>6. PushOwners'
  BY <1>2 DEF TicketInv, PushOwners
<1>7. PopOwners'
  BY <1>2 DEF TicketInv, PopOwners
<1>8. DistinctOwners'
  BY <1>2 DEF TicketInv, DistinctOwners
<1>9. StaleReads'
  BY DEF TicketInv, StaleReads, PushPcs
<1>10. PopNeverNull'
  BY <1>0 DEF TicketInv, PopNeverNull
<1> QED
  BY <1>b, <1>4, <1>5, <1>6, <1>7, <1>8, <1>9, <1>10 DEF TicketInv

\* pop releases: the cell is free for the ticket one lap later.
LEMMA PopReleaseInv ==
  ASSUME RingOfTwo, TypeOK, TypeOK', TicketInv, NEW t \in Threads, PopRelease(t)
  PROVE  TicketInv'
<1> USE NAssumption DEF TypeOK, PopRelease, Goto, Return
<1> DEFINE x == pos[t]
           y == x + N
<1>0. /\ x \in Nat /\ y \in Nat /\ x < head /\ tail <= y /\ head <= tail /\ tail <= head + N
      /\ Cell(x) \in Cells /\ Cell(y) = Cell(x) /\ seq[Cell(x)] = x + 1
      /\ ~Pushing(t) /\ ~Pushing(t)' /\ Popping(t) /\ ~Popping(t)'
  BY CellType, CellLap DEF TicketInv, Bounded, PopOwners, Pushing, Popping
<1>1. seq'[Cell(y)] = y /\ \A c \in Cells : c # Cell(y) => seq'[c] = seq[c]
  BY <1>0
<1>2. \A u \in Threads \ {t} : /\ (Pushing(u)' <=> Pushing(u)) /\ (Popping(u)' <=> Popping(u))
                               /\ pos'[u] = pos[u]
  BY DEF Pushing, Popping
<1>3. \A p \in Nat : head <= p /\ p < head + N /\ p # y => seq'[Cell(p)] = seq[Cell(p)]
  <2> SUFFICES ASSUME NEW p \in Nat, head <= p, p < head + N, p # y
               PROVE  seq'[Cell(p)] = seq[Cell(p)]
    OBVIOUS
  <2>1. Cell(p) # Cell(y)
    BY <1>0, WindowCell
  <2> QED
    BY <2>1, <1>1, CellType
<1>b. Bounded'
  BY DEF TicketInv, Bounded
<1>4. ReservedTickets'
  <2>1. \A p \in head .. tail - 1 : seq'[Cell(p)] = seq[Cell(p)]
    BY <1>0, <1>3
  <2>2. \A u \in Threads : Pushing(u) => Pushing(u)' /\ pos'[u] = pos[u]
    BY <1>0, <1>2
  <2> QED
    BY <2>1, <2>2 DEF TicketInv, ReservedTickets
<1>5. FreeTickets'
  <2> SUFFICES ASSUME NEW p \in tail .. head + N - 1
               PROVE  \/ seq'[Cell(p)] = p
                      \/ /\ seq'[Cell(p)] = p - N + 1
                         /\ \E u \in Threads : Popping(u)' /\ pos'[u] = p - N
    BY DEF FreeTickets
  <2>1. CASE p = y
    BY <2>1, <1>1
  <2>2. CASE p # y
    <3>1. seq'[Cell(p)] = seq[Cell(p)]
      BY <2>2, <1>0, <1>3
    <3>2. \A u \in Threads : Popping(u) /\ pos[u] = p - N => Popping(u)' /\ pos'[u] = p - N
      BY <2>2, <1>0, <1>2
    <3> QED
      BY <3>1, <3>2 DEF TicketInv, FreeTickets
  <2> QED
    BY <2>1, <2>2
<1>6. PushOwners'
  <2> SUFFICES ASSUME NEW u \in Threads \ {t}, Pushing(u)
               PROVE  seq'[Cell(pos[u])] = seq[Cell(pos[u])]
    BY <1>0, <1>2 DEF TicketInv, PushOwners
  <2>1. head <= pos[u] /\ pos[u] < tail
    BY DEF TicketInv, PushOwners
  <2> QED
    BY <2>1, <1>0, <1>3
<1>7. PopOwners'
  <2> SUFFICES ASSUME NEW u \in Threads \ {t}, Popping(u)
               PROVE  seq'[Cell(pos[u])] = seq[Cell(pos[u])]
    BY <1>0, <1>2 DEF TicketInv, PopOwners
  <2>1. /\ pos[u] \in Nat /\ pos[u] # x /\ pos[u] < head /\ tail <= pos[u] + N
    BY <1>0 DEF TicketInv, PopOwners, DistinctOwners
  <2>2. Cell(pos[u]) # Cell(x)
    <3>1. CASE x < pos[u]
      BY <3>1, <2>1, <1>0, CellDistinct
    <3>2. CASE pos[u] < x
      BY <3>2, <2>1, <1>0, CellDistinct
    <3> QED
      BY <3>1, <3>2, <2>1, <1>0
  <2> QED
    BY <2>1, <2>2, <1>0, <1>1, CellType
<1>8. DistinctOwners'
  BY <1>0, <1>2 DEF TicketInv, DistinctOwners
<1>9. StaleReads'
  <2> SUFFICES ASSUME NEW u \in Threads \ {t}
               PROVE  /\ pc[u] = "push_cas" /\ pos[u] = tail => seq'[Cell(pos[u])] = pos[u]
                      /\ pc[u] = "pop_cas" /\ pos[u] = head => seq'[Cell(pos[u])] = pos[u] + 1
    BY DEF TicketInv, StaleReads, PushPcs
  <2>1. ASSUME pc[u] = "push_cas", pos[u] = tail PROVE seq'[Cell(pos[u])] = pos[u]
    <3>1. seq[Cell(tail)] = tail
      BY <2>1 DEF TicketInv, StaleReads
    <3>2. tail < head + N
      BY <3>1, RoomAtTail
    <3> QED
      BY <2>1, <3>1, <3>2, <1>0, <1>1, <1>3
  <2>2. ASSUME pc[u] = "pop_cas", pos[u] = head PROVE seq'[Cell(pos[u])] = pos[u] + 1
    <3>1. seq[Cell(head)] = head + 1
      BY <2>2 DEF TicketInv, StaleReads
    <3>2. head # y
      BY <3>1, <1>0 DEF RingOfTwo
    <3> QED
      BY <2>2, <3>1, <3>2, <1>0, <1>3
  <2> QED
    BY <2>1, <2>2
<1>10. PopNeverNull'
  BY DEF TicketInv, PopNeverNull
<1> QED
  BY <1>b, <1>4, <1>5, <1>6, <1>7, <1>8, <1>9, <1>10 DEF TicketInv

-----------------------------------------------------------------------------
\* The loads, the failed compare-and-swaps and the calls.
LEMMA QuietStepInv ==
  ASSUME TypeOK, TypeOK', TicketInv, NEW t \in Threads,
         \/ \E v \in Values : PushCall(t, v)
         \/ PushLoadTail(t) \/ PushLoadSeqFree(t) \/ PushLoadSeqFull(t)
         \/ PushLoadSeqRetry(t) \/ PushCasFail(t)
         \/ PopCall(t) \/ PopLoadHead(t) \/ PopLoadSeqReady(t) \/ PopLoadSeqEmpty(t)
         \/ PopLoadSeqRetry(t) \/ PopCasFail(t)
  PROVE  TicketInv'
<1> USE DEF PushCall, PushLoadTail, PushLoadSeqFree, PushLoadSeqFull, PushLoadSeqRetry,
      PushCasFail, PopCall, PopLoadHead, PopLoadSeqReady, PopLoadSeqEmpty,
      PopLoadSeqRetry, PopCasFail, Goto, Return, TypeOK
<1>1. UNCHANGED <<head, tail, seq, data>>
  OBVIOUS
<1>2. ~Pushing(t) /\ ~Popping(t) /\ ~Pushing(t)' /\ ~Popping(t)'
  BY DEF Pushing, Popping
<1>3. \A u \in Threads \ {t} : pc'[u] = pc[u] /\ pos'[u] = pos[u] /\ val'[u] = val[u]
  OBVIOUS
<1>4. StaleReads'
  <2> SUFFICES ASSUME NEW u \in Threads
      PROVE /\ pc'[u] \in PushPcs => val'[u] \in Values
            /\ pc'[u] = "push_seq" => pos'[u] <= tail
            /\ pc'[u] = "push_cas" => /\ pos'[u] <= tail
                                      /\ pos'[u] = tail => seq[Cell(pos'[u])] = pos'[u]
            /\ pc'[u] = "pop_seq" => pos'[u] <= head
            /\ pc'[u] = "pop_cas" => /\ pos'[u] <= head
                                     /\ pos'[u] = head => seq[Cell(pos'[u])] = pos'[u] + 1
    BY <1>1 DEF StaleReads
  <2>1. CASE u # t
    BY <2>1, <1>3 DEF TicketInv, StaleReads
  <2>2. CASE u = t
    BY <2>2 DEF TicketInv, StaleReads, PushPcs
  <2> QED
    BY <2>1, <2>2
<1> QED
  BY <1>1, <1>2, <1>3, <1>4, LocalStep

\* The initial ring satisfies the invariant: every ticket of the first lap is free.
LEMMA InitTicketInv == Init => TicketInv
<1> SUFFICES ASSUME Init PROVE TicketInv
  OBVIOUS
<1> USE NAssumption DEF Init
<1>1. Bounded /\ ReservedTickets
  BY DEF Bounded, ReservedTickets
<1>2. FreeTickets
  <2> SUFFICES ASSUME NEW p \in 0 .. N - 1 PROVE seq[Cell(p)] = p
    BY DEF FreeTickets
  <2>1. Cell(p) = p
    BY FirstLap DEF Cell
  <2> QED
    BY <2>1 DEF Cells
<1>3. PushOwners /\ PopOwners /\ DistinctOwners /\ StaleReads /\ PopNeverNull
  BY DEF PushOwners, PopOwners, DistinctOwners, StaleReads, PopNeverNull,
         Pushing, Popping, PushPcs
<1> QED
  BY <1>1, <1>2, <1>3 DEF TicketInv

\* In a ring of at least two cells, at every instant and whatever the
\* interleaving of pushes and pops, seq tells the truth about every ticket: the
\* queue never holds more than N items and never fewer than none, a cell has one
\* owner, and a pop that took a ticket finds that ticket's item.
THEOREM TicketSafety == RingOfTwo => (Spec => []TicketInv)
<1> SUFFICES ASSUME RingOfTwo PROVE Spec => []TicketInv
  OBVIOUS
<1>1. TypeOK /\ TypeOK' /\ TicketInv /\ [Next]_vars => TicketInv'
  <2> SUFFICES ASSUME TypeOK, TypeOK', TicketInv, [Next]_vars PROVE TicketInv'
    OBVIOUS
  <2>1. ASSUME NEW t \in Threads, \E v \in Values : PushCall(t, v) PROVE TicketInv'
    BY <2>1, QuietStepInv
  <2>2. ASSUME NEW t \in Threads, PopCall(t) PROVE TicketInv'
    BY <2>2, QuietStepInv
  <2>3. ASSUME NEW t \in Threads, PushStep(t) PROVE TicketInv'
    BY <2>3, QuietStepInv, PushCasOkInv, PushDataInv, PushPublishInv DEF PushStep
  <2>4. ASSUME NEW t \in Threads, PopStep(t) PROVE TicketInv'
    BY <2>4, QuietStepInv, PopCasOkInv, PopDataInv, PopReleaseInv DEF PopStep
  <2>5. CASE UNCHANGED vars
    BY <2>5 DEF vars, TicketInv, Bounded, ReservedTickets, FreeTickets, PushOwners,
         PopOwners, DistinctOwners, StaleReads, PopNeverNull, Pushing, Popping
  <2> QED
    BY <2>1, <2>2, <2>3, <2>4, <2>5 DEF Next
<1> QED
  BY <1>1, InitTicketInv, TypeCorrect, PTL DEF Spec

\* cell->data is never accessed by two calls at once: no data race.
THEOREM NoDataRace == RingOfTwo => (Spec => []CellExclusive)
<1> SUFFICES ASSUME RingOfTwo PROVE Spec => []CellExclusive
  OBVIOUS
<1>1. TypeOK /\ TicketInv => CellExclusive
  <2> SUFFICES ASSUME TypeOK, TicketInv, NEW t \in Threads, NEW u \in Threads, t # u,
                      Pushing(t) \/ Popping(t), Pushing(u) \/ Popping(u)
               PROVE  Cell(pos[t]) # Cell(pos[u])
    BY DEF CellExclusive
  <2> USE NAssumption DEF TypeOK, TicketInv
  <2>0. pos[t] \in Nat /\ pos[u] \in Nat /\ head \in Nat /\ tail \in Nat
    OBVIOUS
  <2>1. CASE Pushing(t) /\ Pushing(u)
    BY <2>0, <2>1, WindowCell DEF PushOwners, DistinctOwners, Bounded
  <2>2. CASE Popping(t) /\ Popping(u)
    <3>1. pos[t] # pos[u] /\ pos[t] < pos[u] + N /\ pos[u] < pos[t] + N
      BY <2>0, <2>2 DEF PopOwners, DistinctOwners, Bounded
    <3> QED
      BY <2>0, <3>1, CellDistinct
  <2>3. CASE Pushing(t) /\ Popping(u)
    BY <2>0, <2>3, CellDistinct DEF PushOwners, PopOwners
  <2>4. CASE Popping(t) /\ Pushing(u)
    BY <2>0, <2>4, CellDistinct DEF PushOwners, PopOwners
  <2> QED
    BY <2>1, <2>2, <2>3, <2>4
<1> QED
  BY <1>1, TypeCorrect, TicketSafety, PTL

-----------------------------------------------------------------------------
(* The refinement: every step of the ring is a step of the bounded FIFO.   *)

\* A call that carries no item: before a push and while a pop looks at the queue.
NoItem ==
  \A t \in Threads : pc[t] \in {"idle", "pop_head", "pop_seq", "pop_cas"} => val[t] = NULL

\* Those calls never gain an item without a push or a pop's read of its cell.
LEMMA NoItemHolds == Spec => []NoItem
<1>1. Init => NoItem
  BY DEF Init, NoItem
<1>2. TypeOK /\ NoItem /\ [Next]_vars => NoItem'
  <2> SUFFICES ASSUME TypeOK, NoItem, [Next]_vars PROVE NoItem'
    OBVIOUS
  <2> USE DEF TypeOK, NoItem, Goto, Return
  <2>1. ASSUME NEW t \in Threads, NEW v \in Values, PushCall(t, v) PROVE NoItem'
    BY <2>1 DEF PushCall
  <2>2. ASSUME NEW t \in Threads, PopCall(t) PROVE NoItem'
    BY <2>2 DEF PopCall
  <2>3. ASSUME NEW t \in Threads, PushStep(t) PROVE NoItem'
    BY <2>3 DEF PushStep, PushLoadTail, PushLoadSeqFree, PushLoadSeqFull,
         PushLoadSeqRetry, PushCasOk, PushCasFail, PushData, PushPublish
  <2>4. ASSUME NEW t \in Threads, PopStep(t) PROVE NoItem'
    BY <2>4 DEF PopStep, PopLoadHead, PopLoadSeqReady, PopLoadSeqEmpty,
         PopLoadSeqRetry, PopCasOk, PopCasFail, PopData, PopRelease
  <2>5. CASE UNCHANGED vars
    BY <2>5 DEF vars
  <2> QED
    BY <2>1, <2>2, <2>3, <2>4, <2>5 DEF Next
<1> QED
  BY <1>1, <1>2, TypeCorrect, PTL DEF Spec

\* Every cell is the cell of a ticket in the window that starts at h.
LEMMA TicketOfCell ==
  ASSUME NEW h \in Nat, NEW p \in Nat
  PROVE  \E q \in h .. h + N - 1 : Cell(q) = Cell(p)
  BY NAssumption, WindowCovers DEF Cell

\* A ticket that was handed out a lap ago: its cell is ahead of it.
LEMMA OldTicket ==
  ASSUME TypeOK, TicketInv, NEW p \in Nat, p < head
  PROVE  seq[Cell(p)] >= p + 1
<1> USE NAssumption DEF TypeOK, TicketInv
<1>0. head \in Nat /\ tail \in Nat /\ head <= tail /\ tail <= head + N
  BY DEF Bounded
<1>1. PICK q \in head .. head + N - 1 : Cell(q) = Cell(p)
  BY <1>0, TicketOfCell
<1>2. q \in Nat /\ p < q
  BY <1>0
<1>3. q >= p + N
  BY <1>1, <1>2, CellDistinct
<1>4. CASE q < tail
  <2>1. seq[Cell(q)] \in {q, q + 1}
    BY <1>0, <1>1, <1>4 DEF ReservedTickets
  <2> QED
    BY <1>1, <1>2, <1>3, <2>1
<1>5. CASE q >= tail
  <2>1. seq[Cell(q)] \in {q, q - N + 1}
    BY <1>0, <1>1, <1>5 DEF FreeTickets
  <2> QED
    BY <1>1, <1>2, <1>3, <2>1
<1> QED
  BY <1>2, <1>4, <1>5, <1>0

\* A push that found its cell behind its ticket: the queue holds N items, or some
\* pop has taken its item and not yet given the cell back.
LEMMA FullMeansFull ==
  ASSUME TypeOK, TicketInv, NEW t \in Threads, pc[t] = "push_seq", seq[Cell(pos[t])] < pos[t]
  PROVE  tail - head = N \/ \E u \in Threads : Popping(u)
<1> USE NAssumption DEF TypeOK, TicketInv
<1>0. /\ head \in Nat /\ tail \in Nat /\ head <= tail /\ tail <= head + N
      /\ pos[t] \in Nat /\ pos[t] <= tail
  BY DEF Bounded, StaleReads
<1>1. ~(pos[t] < head)
  <2> SUFFICES ASSUME pos[t] < head PROVE FALSE
    OBVIOUS
  <2>1. Cell(pos[t]) \in Cells /\ seq[Cell(pos[t])] \in Nat
    BY <1>0, CellType
  <2>2. seq[Cell(pos[t])] >= pos[t] + 1
    BY <1>0, OldTicket
  <2> QED
    BY <1>0, <2>1, <2>2
<1>2. ~(head <= pos[t] /\ pos[t] < tail)
  <2> SUFFICES ASSUME head <= pos[t], pos[t] < tail PROVE FALSE
    OBVIOUS
  <2>1. seq[Cell(pos[t])] \in {pos[t], pos[t] + 1}
    BY <1>0 DEF ReservedTickets
  <2> QED
    BY <1>0, <2>1
<1>3. pos[t] = tail
  BY <1>0, <1>1, <1>2
<1>4. CASE tail < head + N
  <2>1. seq[Cell(tail)] = tail \/ \E u \in Threads : Popping(u)
    BY <1>0, <1>4 DEF FreeTickets
  <2> QED
    BY <1>0, <1>3, <2>1
<1> QED
  BY <1>0, <1>4

\* A pop that found its cell behind: the queue is empty, or some push has taken the
\* ticket and not yet published its item.
LEMMA EmptyMeansEmpty ==
  ASSUME TypeOK, TicketInv, NEW t \in Threads, pc[t] = "pop_seq", seq[Cell(pos[t])] < pos[t] + 1
  PROVE  head = tail \/ \E u \in Threads : Pushing(u)
<1> USE NAssumption DEF TypeOK, TicketInv
<1>0. /\ head \in Nat /\ tail \in Nat /\ head <= tail /\ tail <= head + N
      /\ pos[t] \in Nat /\ pos[t] <= head
      /\ Cell(pos[t]) \in Cells /\ seq[Cell(pos[t])] \in Nat
  BY CellType DEF Bounded, StaleReads
<1>1. pos[t] = head
  BY <1>0, OldTicket
<1>2. CASE head < tail
  <2>1. seq[Cell(head)] = head + 1 \/ \E u \in Threads : Pushing(u)
    BY <1>0, <1>2 DEF ReservedTickets
  <2> QED
    BY <1>0, <1>1, <2>1
<1> QED
  BY <1>0, <1>2

-----------------------------------------------------------------------------
\* The item of a ticket is with the push that has the ticket and has not stored it
\* yet, and otherwise in the ticket's cell.
TicketValues ==
  \A p \in Nat :
    /\ \A t \in Threads : pc[t] = "push_data" /\ pos[t] = p => TicketValue(p) = val[t]
    /\ (\A t \in Threads : ~(pc[t] = "push_data" /\ pos[t] = p))
         => TicketValue(p) = data[Cell(p)]

\* No two pushes have one ticket, so the ticket's item is that push's.
LEMMA TicketValueIs == TicketInv => TicketValues
<1> SUFFICES ASSUME TicketInv, NEW p \in Nat
             PROVE  /\ \A t \in Threads :
                         pc[t] = "push_data" /\ pos[t] = p => TicketValue(p) = val[t]
                    /\ (\A t \in Threads : ~(pc[t] = "push_data" /\ pos[t] = p))
                         => TicketValue(p) = data[Cell(p)]
  BY DEF TicketValues
<1>1. ASSUME NEW t \in Threads, pc[t] = "push_data", pos[t] = p PROVE TicketValue(p) = val[t]
  <2> DEFINE P(u) == pc[u] = "push_data" /\ pos[u] = p
             c == CHOOSE u \in Threads : P(u)
  <2>1. c \in Threads /\ P(c)
    BY <1>1
  <2> HIDE DEF c
  <2>2. c = t
    BY <1>1, <2>1 DEF TicketInv, DistinctOwners, Pushing
  <2> QED
    BY <1>1, <2>2 DEF TicketValue, c
<1>2. ASSUME \A t \in Threads : ~(pc[t] = "push_data" /\ pos[t] = p)
      PROVE  TicketValue(p) = data[Cell(p)]
  BY <1>2 DEF TicketValue
<1> QED
  BY <1>1, <1>2

\* The same after a step.
LEMMA TicketValueNext == TicketInv' => TicketValues'
  BY TicketValueIs, PTL

\* The contents of the queue are the items of its tickets, in their order.
LEMMA ContentsAre ==
  ASSUME TypeOK, TicketInv
  PROVE  /\ tail - head \in Nat /\ Len(Contents) = tail - head
         /\ Contents \in Seq(Values \cup {NULL})
         /\ \A i \in 1 .. tail - head : Contents[i] = TicketValue(head + i - 1)
<1>0. head \in Nat /\ tail \in Nat /\ tail - head \in Nat
  BY DEF TypeOK, TicketInv, Bounded
<1>1. \A i \in 1 .. tail - head : TicketValue(head + i - 1) \in Values \cup {NULL}
  <2> TAKE i \in 1 .. tail - head
  <2> DEFINE p == head + i - 1
  <2>1. p \in Nat
    BY <1>0
  <2> HIDE DEF p
  <2>2. data[Cell(p)] \in Values \cup {NULL}
    BY <2>1, CellType DEF TypeOK
  <2>3. \A t \in Threads : val[t] \in Values \cup {NULL}
    BY DEF TypeOK
  <2>4. TicketValue(p) \in Values \cup {NULL}
    <3>1. \/ TicketValue(p) = data[Cell(p)]
          \/ \E t \in Threads : TicketValue(p) = val[t]
      BY <2>1, TicketValueIs DEF TicketValues
    <3> QED
      BY <2>2, <2>3, <3>1
  <2> QED
    BY <2>4 DEF p
<1> QED
  BY <1>0, <1>1 DEF Contents

\* The same tickets with the same items are the same contents.
LEMMA SameTickets ==
  ASSUME TypeOK, TicketInv, head' = head, tail' = tail,
         \A p \in Nat : head <= p /\ p < tail => TicketValue(p)' = TicketValue(p)
  PROVE  Contents' = Contents
<1>1. head \in Nat /\ tail \in Nat
  BY DEF TypeOK
<1>2. \A i \in 1 .. tail - head : TicketValue(head + i - 1)' = TicketValue(head + i - 1)
  <2> TAKE i \in 1 .. tail - head
  <2> PICK p \in Nat : p = head + i - 1 /\ head <= p /\ p < tail
    BY <1>1
  <2>1. TicketValue(p)' = TicketValue(p)
    OBVIOUS
  <2>2. TicketValue(head + i - 1)' = TicketValue(p)'
    BY DEF TicketValue
  <2> QED
    BY <2>1, <2>2
<1>3. Contents' = [i \in 1 .. tail - head |-> TicketValue(head + i - 1)']
  BY DEF Contents
<1> QED
  BY <1>2, <1>3 DEF Contents

\* A step that changes neither the cells nor the pushes about to store their item
\* leaves every ticket its item.
LEMMA TicketsKeep ==
  ASSUME TicketInv, TicketInv', data' = data,
         \A u \in Threads : /\ pc'[u] = "push_data" <=> pc[u] = "push_data"
                            /\ pc[u] = "push_data" => pos'[u] = pos[u] /\ val'[u] = val[u]
  PROVE  \A p \in Nat : TicketValue(p)' = TicketValue(p)
<1> TAKE p \in Nat
<1>1. CASE \E t \in Threads : pc[t] = "push_data" /\ pos[t] = p
  <2> PICK t \in Threads : pc[t] = "push_data" /\ pos[t] = p
    BY <1>1
  <2>1. TicketValue(p) = val[t]
    BY TicketValueIs, TicketValueNext DEF TicketValues
  <2>2. pc'[t] = "push_data" /\ pos'[t] = p /\ val'[t] = val[t]
    OBVIOUS
  <2>3. TicketValue(p)' = val'[t]
    BY <2>2, TicketValueIs, TicketValueNext DEF TicketValues
  <2> QED
    BY <2>1, <2>2, <2>3
<1>2. CASE \A t \in Threads : ~(pc[t] = "push_data" /\ pos[t] = p)
  <2>1. TicketValue(p) = data[Cell(p)]
    BY <1>2, TicketValueIs, TicketValueNext DEF TicketValues
  <2>2. \A t \in Threads : ~(pc'[t] = "push_data" /\ pos'[t] = p)
    BY <1>2
  <2>3. TicketValue(p)' = data'[Cell(p)]
    <3>1. (Cell(p))' = Cell(p)
      BY DEF Cell
    <3> QED
      BY <2>2, <3>1, TicketValueIs, TicketValueNext DEF TicketValues
  <2> QED
    BY <2>1, <2>3
<1> QED
  BY <1>1, <1>2

\* Taking a ticket from tail appends the item of that push.
LEMMA ContentsAfterTicket ==
  ASSUME RingOfTwo, TypeOK, TypeOK', TicketInv, TicketInv', NEW t \in Threads, PushCasOk(t)
  PROVE  Len(Contents) < N /\ Contents' = Append(Contents, val[t])
<1> USE DEF PushCasOk, Goto
<1> PICK h \in Nat : h = head
  BY DEF TypeOK
<1> PICK e \in Nat : e = tail
  BY DEF TypeOK
<1>0. /\ head' = h /\ tail' = e + 1 /\ pos[t] = e /\ h <= e
      /\ pos'[t] = e /\ val'[t] = val[t] /\ pc'[t] = "push_data" /\ data' = data
      /\ pc[t] = "push_cas" /\ seq[Cell(tail)] = tail
      /\ \A u \in Threads : u # t => pc'[u] = pc[u] /\ pos'[u] = pos[u] /\ val'[u] = val[u]
  BY DEF TypeOK, TicketInv, StaleReads, Bounded
<1>1. e < h + N
  BY <1>0, RoomAtTail
<1>2. TicketValue(e)' = val[t]
  BY <1>0, TicketValueIs, TicketValueNext DEF TicketValues
<1>3. \A p \in Nat : p < e => TicketValue(p)' = TicketValue(p)
  <2> TAKE p \in Nat
  <2> SUFFICES ASSUME p < e PROVE TicketValue(p)' = TicketValue(p)
    OBVIOUS
  <2>1. CASE \E u \in Threads : pc[u] = "push_data" /\ pos[u] = p
    <3> PICK u \in Threads : pc[u] = "push_data" /\ pos[u] = p
      BY <2>1
    <3>1. u # t
      BY <1>0
    <3>2. TicketValue(p) = val[u] /\ TicketValue(p)' = val'[u]
      BY <1>0, <3>1, TicketValueIs, TicketValueNext DEF TicketValues
    <3> QED
      BY <1>0, <3>1, <3>2
  <2>2. CASE \A u \in Threads : ~(pc[u] = "push_data" /\ pos[u] = p)
    <3>1. \A u \in Threads : ~(pc'[u] = "push_data" /\ pos'[u] = p)
      BY <1>0, <2>2
    <3>2. TicketValue(p) = data[Cell(p)] /\ TicketValue(p)' = data'[Cell(p)]
      BY <2>2, <3>1, TicketValueIs, TicketValueNext DEF TicketValues, Cell
    <3> QED
      BY <1>0, <3>2
  <2> QED
    BY <2>1, <2>2
<1> DEFINE s == Contents
           n == e - h
<1>4. /\ s \in Seq(Values \cup {NULL}) /\ Len(s) = n /\ n \in Nat
      /\ \A i \in 1 .. n : s[i] = TicketValue(h + i - 1)
  BY ContentsAre
<1>5. s' = [i \in 1 .. n + 1 |-> TicketValue(h + i - 1)']
  <2>1. tail' - head' = n + 1
    BY <1>0
  <2>2. \A i \in 1 .. n + 1 : TicketValue(head + i - 1)' = TicketValue(h + i - 1)'
    BY <1>0 DEF TicketValue, Cell
  <2>3. s' = [i \in 1 .. tail' - head' |-> TicketValue(head + i - 1)']
    BY DEF Contents
  <2> QED
    BY <2>1, <2>2, <2>3
<1>6. \A i \in 1 .. n : TicketValue(h + i - 1)' = s[i]
  <2> TAKE i \in 1 .. n
  <2> PICK p \in Nat : p = h + i - 1 /\ p < e
    BY <1>0
  <2>1. TicketValue(p)' = TicketValue(p)
    BY <1>3
  <2> QED
    BY <1>4, <2>1
<1>7. TicketValue(h + (n + 1) - 1)' = val[t]
  <2>1. h + (n + 1) - 1 = e
    BY <1>0
  <2> QED
    BY <1>2, <2>1
<1> HIDE DEF s, n
<1> DEFINE q == [i \in 1 .. n + 1 |-> IF i = n + 1 THEN val[t] ELSE s[i]]
<1>8. s' = q
  <2>1. \A i \in 1 .. n + 1 : TicketValue(h + i - 1)' = IF i = n + 1 THEN val[t] ELSE s[i]
    BY <1>4, <1>6, <1>7
  <2> QED
    BY <1>5, <2>1
<1>9. Append(s, val[t]) = q
  BY <1>4
<1>10. Len(s) < N
  BY <1>1, <1>4, <1>0, NAssumption DEF n
<1> QED
  BY <1>8, <1>9, <1>10 DEF s

\* Taking a ticket from head removes the oldest item, the one in that ticket's cell.
LEMMA ContentsAfterTake ==
  ASSUME RingOfTwo, TypeOK, TypeOK', TicketInv, TicketInv', NEW t \in Threads, PopCasOk(t)
  PROVE  /\ Contents # << >> /\ Head(Contents) = data[Cell(pos[t])]
         /\ Contents' = Tail(Contents)
<1> USE DEF PopCasOk, Goto
<1> PICK h \in Nat : h = head
  BY DEF TypeOK
<1> PICK e \in Nat : e = tail
  BY DEF TypeOK
<1>0. /\ head' = h + 1 /\ tail' = e /\ pos[t] = h /\ data' = data
      /\ seq[Cell(h)] = h + 1 /\ h + 1 <= e
  BY DEF TypeOK, TicketInv, StaleReads, Bounded
<1>1. \A u \in Threads : ~(pc[u] = "push_data" /\ pos[u] = h)
  <2> SUFFICES ASSUME NEW u \in Threads, pc[u] = "push_data", pos[u] = h PROVE FALSE
    OBVIOUS
  <2>1. seq[Cell(h)] = h
    BY DEF TicketInv, PushOwners, Pushing
  <2> QED
    BY <1>0, <2>1
<1>2. TicketValue(h) = data[Cell(h)]
  BY <1>1, TicketValueIs, TicketValueNext DEF TicketValues
<1>3. \A p \in Nat : TicketValue(p)' = TicketValue(p)
  <2>1. \A u \in Threads : /\ pc'[u] = "push_data" <=> pc[u] = "push_data"
                           /\ pos'[u] = pos[u] /\ val'[u] = val[u]
    BY DEF TypeOK
  <2> QED
    BY <2>1, <1>0, TicketsKeep
<1> DEFINE s == Contents
           n == e - h
<1>4. /\ s \in Seq(Values \cup {NULL}) /\ Len(s) = n /\ n \in Nat
      /\ \A i \in 1 .. n : s[i] = TicketValue(h + i - 1)
  BY ContentsAre
<1>5. s' = [i \in 1 .. n - 1 |-> TicketValue((h + 1) + i - 1)']
  <2>1. tail' - head' = n - 1
    BY <1>0
  <2>2. \A i \in 1 .. n - 1 : TicketValue(head + i - 1)' = TicketValue((h + 1) + i - 1)'
    BY <1>0 DEF TicketValue, Cell
  <2>3. s' = [i \in 1 .. tail' - head' |-> TicketValue(head + i - 1)']
    BY DEF Contents
  <2> QED
    BY <2>1, <2>2, <2>3
<1>6. \A i \in 1 .. n - 1 : TicketValue((h + 1) + i - 1)' = s[i + 1]
  <2> TAKE i \in 1 .. n - 1
  <2> PICK p \in Nat : p = (h + 1) + i - 1 /\ p = h + (i + 1) - 1
    OBVIOUS
  <2>1. TicketValue(p)' = TicketValue(p)
    BY <1>3
  <2>2. i + 1 \in 1 .. n
    OBVIOUS
  <2> QED
    BY <1>4, <2>1, <2>2
<1>7. n >= 1 /\ s[1] = data[Cell(pos[t])]
  <2>1. h + 1 - 1 = h /\ n >= 1
    BY <1>0
  <2> QED
    BY <2>1, <1>0, <1>2, <1>4
<1> HIDE DEF s, n
<1>8. s # << >> /\ Head(s) = s[1]
  BY <1>4, <1>7
<1>9. Tail(s) = [i \in 1 .. n - 1 |-> s[i + 1]]
  <2>1. /\ Tail(s) \in Seq(Values \cup {NULL}) /\ Len(Tail(s)) = n - 1
        /\ \A i \in 1 .. n - 1 : Tail(s)[i] = s[i + 1]
    BY <1>4, <1>8, HeadTailProperties
  <2> DEFINE r == Tail(s)
  <2>2. r \in Seq(Values \cup {NULL}) /\ Len(r) = n - 1 /\ n - 1 \in Nat
    BY <1>7, <1>4, <2>1
  <2>3. \A i \in 1 .. n - 1 : r[i] = s[i + 1]
    BY <2>1
  <2> HIDE DEF r
  <2>4. r \in [1 .. n - 1 -> Values \cup {NULL}]
    BY <2>2
  <2>5. r = [i \in 1 .. n - 1 |-> s[i + 1]]
    BY <2>3, <2>4
  <2> QED
    BY <2>5 DEF r
<1>10. s' = [i \in 1 .. n - 1 |-> s[i + 1]]
  BY <1>5, <1>6
<1> QED
  BY <1>7, <1>8, <1>9, <1>10 DEF s

\* A push that stores its item in its cell leaves every ticket its item: the ticket
\* of that push from now on has it in the cell, and the other tickets of the window
\* have other cells.
LEMMA TicketsAfterData ==
  ASSUME TypeOK, TypeOK', TicketInv, TicketInv', NEW t \in Threads, PushData(t)
  PROVE  /\ Contents' = Contents
         /\ \A u \in Threads : pc[u] = "pop_data" => data'[Cell(pos[u])] = data[Cell(pos[u])]
<1> USE NAssumption DEF PushData, Goto
<1> PICK h \in Nat : h = head
  BY DEF TypeOK
<1> PICK e \in Nat : e = tail
  BY DEF TypeOK
<1> PICK x \in Nat : x = pos[t]
  BY DEF TypeOK
<1>0. /\ head' = h /\ tail' = e /\ pos' = pos /\ val' = val
      /\ pc[t] = "push_data" /\ pc'[t] = "push_pub"
      /\ h <= x /\ x < e /\ e <= h + N /\ Cell(x) \in Cells
      /\ data'[Cell(x)] = val[t]
      /\ \A c \in Cells : c # Cell(x) => data'[c] = data[c]
      /\ \A u \in Threads : u # t => pc'[u] = pc[u]
  BY CellType DEF TypeOK, TicketInv, PushOwners, Bounded, Pushing
<1>1. \A p \in Nat : h <= p /\ p < e => TicketValue(p)' = TicketValue(p)
  <2> TAKE p \in Nat
  <2> SUFFICES ASSUME h <= p, p < e PROVE TicketValue(p)' = TicketValue(p)
    OBVIOUS
  <2>0. (Cell(p))' = Cell(p) /\ Cell(p) \in Cells
    BY CellType DEF Cell
  <2>1. CASE p = x
    <3>1. TicketValue(p) = val[t]
      BY <1>0, <2>1, TicketValueIs, TicketValueNext DEF TicketValues
    <3>2. \A u \in Threads : ~(pc'[u] = "push_data" /\ pos'[u] = p)
      <4>1. \A u \in Threads : u # t /\ pc[u] = "push_data" => pos[u] # x
        BY <1>0 DEF TicketInv, DistinctOwners, Pushing
      <4> QED
        BY <1>0, <2>1, <4>1
    <3>3. TicketValue(p)' = data'[Cell(p)]
      BY <2>0, <3>2, TicketValueIs, TicketValueNext DEF TicketValues
    <3> QED
      BY <1>0, <2>1, <3>1, <3>3
  <2>2. CASE p # x /\ \E u \in Threads : pc[u] = "push_data" /\ pos[u] = p
    <3> PICK u \in Threads : pc[u] = "push_data" /\ pos[u] = p
      BY <2>2
    <3>1. u # t
      BY <2>2
    <3>2. TicketValue(p) = val[u] /\ TicketValue(p)' = val'[u]
      BY <1>0, <3>1, TicketValueIs, TicketValueNext DEF TicketValues
    <3> QED
      BY <1>0, <3>2
  <2>3. CASE p # x /\ \A u \in Threads : ~(pc[u] = "push_data" /\ pos[u] = p)
    <3>1. \A u \in Threads : ~(pc'[u] = "push_data" /\ pos'[u] = p)
      BY <1>0, <2>3
    <3>2. TicketValue(p) = data[Cell(p)] /\ TicketValue(p)' = data'[Cell(p)]
      BY <2>0, <2>3, <3>1, TicketValueIs, TicketValueNext DEF TicketValues
    <3>3. Cell(p) # Cell(x)
      <4>1. p < h + N /\ x < h + N
        BY <1>0
      <4> QED
        BY <1>0, <2>3, <4>1, WindowCell
    <3> QED
      BY <1>0, <2>0, <3>2, <3>3
  <2> QED
    BY <2>1, <2>2, <2>3
<1>2. Contents' = Contents
  BY <1>0, <1>1, SameTickets
<1>3. ASSUME NEW u \in Threads, pc[u] = "pop_data"
      PROVE  data'[Cell(pos[u])] = data[Cell(pos[u])]
  <2> PICK y \in Nat : y = pos[u]
    BY DEF TypeOK
  <2>1. y < h /\ e <= y + N
    BY <1>3 DEF TicketInv, PopOwners, Popping
  <2>2. y < x /\ x < y + N /\ Cell(y) \in Cells
    BY <1>0, <2>1, CellType
  <2>3. Cell(y) # Cell(x)
    BY <2>2, CellDistinct
  <2> QED
    BY <1>0, <2>2, <2>3
<1> QED
  BY <1>2, <1>3

-----------------------------------------------------------------------------
\* A step of thread t changes what the caller sees of t's call, and nothing else.
LEMMA CallView ==
  ASSUME NEW t \in Threads,
         \A u \in Threads \ {t} : /\ pc'[u] = pc[u] /\ pos'[u] = pos[u] /\ val'[u] = val[u]
                                  /\ pc[u] = "pop_data" =>
                                       data'[Cell(pos[u])] = data[Cell(pos[u])]
  PROVE  /\ [u \in Threads |-> Phase(u)]' = [[u \in Threads |-> Phase(u)] EXCEPT ![t] = Phase(t)']
         /\ [u \in Threads |-> Held(u)]' = [[u \in Threads |-> Held(u)] EXCEPT ![t] = Held(t)']
<1>1. \A u \in Threads \ {t} : Phase(u)' = Phase(u)
  BY DEF Phase, Pushing, Popping
<1>2. \A u \in Threads \ {t} : Held(u)' = Held(u)
  BY DEF Held, Cell
<1> QED
  BY <1>1, <1>2

\* A step of a thread in a push is a step of the bounded FIFO, or none.
LEMMA PushSimulation ==
  ASSUME RingOfTwo, TypeOK, TypeOK', TicketInv, TicketInv', NEW t \in Threads,
         (\E v \in Values : PushCall(t, v)) \/ PushStep(t)
  PROVE  Fifo!FifoNext \/ UNCHANGED Fifo!fifoVars
<1> DEFINE S == [u \in Threads |-> Phase(u)]
           A == [u \in Threads |-> Held(u)]
<1> USE DEF Goto, Return, TypeOK
<1>1. ASSUME NEW v \in Values, PushCall(t, v) PROVE Fifo!FifoNext
  <2>1. Phase(t) = "idle" /\ Phase(t)' = "push" /\ Held(t)' = v
    BY <1>1 DEF PushCall, Phase, Held, Pushing, Popping
  <2>2. S' = [S EXCEPT ![t] = "push"] /\ A' = [A EXCEPT ![t] = v]
    BY <1>1, <2>1, CallView DEF PushCall
  <2>3. Contents' = Contents
    BY <1>1, SameTickets, TicketsKeep DEF PushCall
  <2>4. Fifo!CallPush(t, v)
    BY <2>1, <2>2, <2>3 DEF Fifo!CallPush, Fifo!Goto
  <2> QED
    BY <2>4 DEF Fifo!FifoNext
<1>2. CASE PushLoadSeqFull(t)
  <2>1. Phase(t) = "push" /\ Phase(t)' = "idle" /\ Held(t)' = NULL
    BY <1>2 DEF PushLoadSeqFull, Phase, Held, Pushing, Popping
  <2>2. S' = [S EXCEPT ![t] = "idle"] /\ A' = [A EXCEPT ![t] = NULL]
    BY <1>2, <2>1, CallView DEF PushLoadSeqFull
  <2>3. Contents' = Contents
    BY <1>2, SameTickets, TicketsKeep DEF PushLoadSeqFull
  <2>4. Len(Contents) = N \/ \E u \in Threads : Popping(u)
    BY <1>2, FullMeansFull, ContentsAre DEF PushLoadSeqFull
  <2>5. Len(Contents) = N \/ \E u \in Threads : S[u] = "taking"
    BY <2>4 DEF Phase, Pushing, Popping
  <2>6. Fifo!PushFull(t)
    BY <2>1, <2>2, <2>3, <2>5 DEF Fifo!PushFull, Fifo!Goto
  <2> QED
    BY <2>6 DEF Fifo!FifoNext
<1>3. CASE PushLoadTail(t) \/ PushLoadSeqFree(t) \/ PushLoadSeqRetry(t) \/ PushCasFail(t)
  <2> USE DEF PushLoadTail, PushLoadSeqFree, PushLoadSeqRetry, PushCasFail
  <2>1. Phase(t)' = Phase(t) /\ Held(t)' = Held(t)
    BY <1>3 DEF Phase, Held, Pushing, Popping
  <2>2. S' = S /\ A' = A
    BY <1>3, <2>1, CallView
  <2>3. Contents' = Contents
    BY <1>3, SameTickets, TicketsKeep
  <2> QED
    BY <2>2, <2>3 DEF Fifo!fifoVars
<1>4. CASE PushCasOk(t)
  <2>1. Phase(t) = "push" /\ Phase(t)' = "putting" /\ Held(t)' = Held(t) /\ Held(t) = val[t]
    BY <1>4 DEF PushCasOk, Phase, Held, Pushing, Popping
  <2>2. S' = [S EXCEPT ![t] = "putting"] /\ A' = A
    BY <1>4, <2>1, CallView DEF PushCasOk
  <2>3. Len(Contents) < N /\ Contents' = Append(Contents, val[t])
    BY <1>4, ContentsAfterTicket
  <2>4. Fifo!Enqueue(t)
    BY <2>1, <2>2, <2>3 DEF Fifo!Enqueue, Fifo!Goto
  <2> QED
    BY <2>4 DEF Fifo!FifoNext
<1>5. CASE PushData(t)
  <2>1. Phase(t)' = Phase(t) /\ Held(t)' = Held(t)
    BY <1>5 DEF PushData, Phase, Held, Pushing, Popping
  <2>2. Contents' = Contents
    BY <1>5, TicketsAfterData
  <2>3. S' = S /\ A' = A
    BY <1>5, <2>1, CallView, TicketsAfterData DEF PushData
  <2> QED
    BY <2>2, <2>3 DEF Fifo!fifoVars
<1>6. CASE PushPublish(t)
  <2>1. Phase(t) = "putting" /\ Phase(t)' = "idle" /\ Held(t)' = NULL
    BY <1>6 DEF PushPublish, Phase, Held, Pushing, Popping
  <2>2. S' = [S EXCEPT ![t] = "idle"] /\ A' = [A EXCEPT ![t] = NULL]
    BY <1>6, <2>1, CallView DEF PushPublish
  <2>3. Contents' = Contents
    BY <1>6, SameTickets, TicketsKeep DEF PushPublish
  <2>4. Fifo!ReturnPush(t)
    BY <2>1, <2>2, <2>3 DEF Fifo!ReturnPush, Fifo!Goto
  <2> QED
    BY <2>4 DEF Fifo!FifoNext
<1> QED
  BY <1>1, <1>2, <1>3, <1>4, <1>5, <1>6 DEF PushStep

\* A step of a thread in a pop is a step of the bounded FIFO, or none.
LEMMA PopSimulation ==
  ASSUME RingOfTwo, TypeOK, TypeOK', TicketInv, TicketInv', NoItem, NEW t \in Threads,
         PopCall(t) \/ PopStep(t)
  PROVE  Fifo!FifoNext \/ UNCHANGED Fifo!fifoVars
<1> DEFINE S == [u \in Threads |-> Phase(u)]
           A == [u \in Threads |-> Held(u)]
<1> USE DEF Goto, Return, TypeOK
<1>1. CASE PopCall(t)
  <2>1. Phase(t) = "idle" /\ Phase(t)' = "pop" /\ Held(t)' = Held(t)
    BY <1>1 DEF PopCall, Phase, Held, Pushing, Popping
  <2>2. S' = [S EXCEPT ![t] = "pop"] /\ A' = A
    BY <1>1, <2>1, CallView DEF PopCall
  <2>3. Contents' = Contents
    BY <1>1, SameTickets, TicketsKeep DEF PopCall
  <2>4. Fifo!CallPop(t)
    BY <2>1, <2>2, <2>3 DEF Fifo!CallPop, Fifo!Goto
  <2> QED
    BY <2>4 DEF Fifo!FifoNext
<1>2. CASE PopLoadSeqEmpty(t)
  <2>1. Phase(t) = "pop" /\ Phase(t)' = "idle" /\ Held(t)' = Held(t)
    BY <1>2 DEF PopLoadSeqEmpty, Phase, Held, Pushing, Popping, NoItem
  <2>2. S' = [S EXCEPT ![t] = "idle"] /\ A' = A
    BY <1>2, <2>1, CallView DEF PopLoadSeqEmpty
  <2>3. Contents' = Contents
    BY <1>2, SameTickets, TicketsKeep DEF PopLoadSeqEmpty
  <2>4. Contents = << >> \/ \E u \in Threads : Pushing(u)
    BY <1>2, EmptyMeansEmpty, ContentsAre, EmptySeq DEF PopLoadSeqEmpty
  <2>5. Contents = << >> \/ \E u \in Threads : S[u] = "putting"
    BY <2>4 DEF Phase, Pushing, Popping
  <2>6. Fifo!PopEmpty(t)
    BY <2>1, <2>2, <2>3, <2>5 DEF Fifo!PopEmpty, Fifo!Goto
  <2> QED
    BY <2>6 DEF Fifo!FifoNext
<1>3. CASE \/ PopLoadHead(t) \/ PopLoadSeqReady(t) \/ PopLoadSeqRetry(t)
           \/ PopCasFail(t) \/ PopData(t)
  <2> USE DEF PopLoadHead, PopLoadSeqReady, PopLoadSeqRetry, PopCasFail, PopData
  <2>1. Phase(t)' = Phase(t) /\ Held(t)' = Held(t)
    BY <1>3 DEF Phase, Held, Pushing, Popping
  <2>2. S' = S /\ A' = A
    BY <1>3, <2>1, CallView
  <2>3. Contents' = Contents
    BY <1>3, SameTickets, TicketsKeep
  <2> QED
    BY <2>2, <2>3 DEF Fifo!fifoVars
<1>4. CASE PopCasOk(t)
  <2>1. Phase(t) = "pop" /\ Phase(t)' = "taking" /\ Held(t)' = data[Cell(pos[t])]
    BY <1>4 DEF PopCasOk, Phase, Held, Pushing, Popping, Cell
  <2>2. S' = [S EXCEPT ![t] = "taking"] /\ A' = [A EXCEPT ![t] = data[Cell(pos[t])]]
    BY <1>4, <2>1, CallView DEF PopCasOk
  <2>3. /\ Contents # << >> /\ Head(Contents) = data[Cell(pos[t])]
        /\ Contents' = Tail(Contents)
    BY <1>4, ContentsAfterTake
  <2>4. Fifo!Dequeue(t)
    BY <2>1, <2>2, <2>3 DEF Fifo!Dequeue, Fifo!Goto
  <2> QED
    BY <2>4 DEF Fifo!FifoNext
<1>5. CASE PopRelease(t)
  <2>1. Phase(t) = "taking" /\ Phase(t)' = "idle" /\ Held(t)' = NULL
    BY <1>5 DEF PopRelease, Phase, Held, Pushing, Popping
  <2>2. S' = [S EXCEPT ![t] = "idle"] /\ A' = [A EXCEPT ![t] = NULL]
    BY <1>5, <2>1, CallView DEF PopRelease
  <2>3. Contents' = Contents
    BY <1>5, SameTickets, TicketsKeep DEF PopRelease
  <2>4. Fifo!ReturnPop(t)
    BY <2>1, <2>2, <2>3 DEF Fifo!ReturnPop, Fifo!Goto
  <2> QED
    BY <2>4 DEF Fifo!FifoNext
<1> QED
  BY <1>1, <1>2, <1>3, <1>4, <1>5 DEF PopStep

\* queue_mpmc.c with any number of pushing and popping threads implements a bounded
\* FIFO: for every ring of at least two cells and whatever the interleaving, items come
\* out once each in the order their tickets were taken, push refuses only a full queue or
\* one with a pop on its way out, pop finds nothing only in an empty queue or in one
\* with a push on its way out (queue_mpmc.c:60-147).
THEOREM MpmcRefinement == RingOfTwo => (Spec => ImplementsFifo)
<1> SUFFICES ASSUME RingOfTwo PROVE Spec => ImplementsFifo
  OBVIOUS
<1>1. Init => Fifo!FifoInit
  <2> SUFFICES ASSUME Init PROVE Fifo!FifoInit
    OBVIOUS
  <2>1. Contents = << >>
    BY DEF Init, Contents
  <2>2. \A t \in Threads : Phase(t) = "idle" /\ Held(t) = NULL
    BY DEF Init, Phase, Held, Pushing, Popping
  <2> QED
    BY <2>1, <2>2 DEF Fifo!FifoInit
<1>2. TypeOK /\ TypeOK' /\ TicketInv /\ TicketInv' /\ NoItem /\ [Next]_vars
        => [Fifo!FifoNext]_(Fifo!fifoVars)
  <2> SUFFICES ASSUME TypeOK, TypeOK', TicketInv, TicketInv', NoItem, [Next]_vars
               PROVE  Fifo!FifoNext \/ UNCHANGED Fifo!fifoVars
    OBVIOUS
  <2>1. CASE UNCHANGED vars
    <3>1. Contents' = Contents
      BY <2>1, SameTickets, TicketsKeep DEF vars
    <3>2. \A t \in Threads : Phase(t)' = Phase(t) /\ Held(t)' = Held(t)
      BY <2>1 DEF vars, Phase, Held, Pushing, Popping, Cell
    <3> QED
      BY <3>1, <3>2 DEF Fifo!fifoVars
  <2>2. CASE Next
    BY <2>2, PushSimulation, PopSimulation DEF Next
  <2> QED
    BY <2>1, <2>2
<1> QED
  BY <1>1, <1>2, TypeCorrect, TicketSafety, NoItemHolds, PTL
     DEF Spec, ImplementsFifo, Fifo!FifoSpec

-----------------------------------------------------------------------------
(* The logger.  PrintedInOrder rests on the message of every ticket still  *)
(* in the ring, and on no writer being on a cell the thread has taken.     *)

\* A writer between its ticket and its publish.
Writing(w) == wpc[w] \in {"copy", "publish"}

\* The logger thread is between head and the print of what it took.
Carrying == thread \in {"copy", "release", "print"}

\* The thread runs only on cells that are there, and nothing happens before the start.
LoopAlive ==
  /\ thread \notin {"none", "exit"} => HasCells
  /\ life \in {"off", "noring"} => thread = "none"
  /\ life = "off" =>
       /\ lhead = 0 /\ ltail = 0
       /\ \A w \in Writers : wpc[w] # "cas" /\ ~Writing(w)

\* What was printed, and what is about to be.
Output ==
  /\ Len(tickets) = ltail /\ lhead <= ltail
  /\ Carrying => lhead >= 1 /\ Len(printed) = lhead - 1
  /\ ~Carrying => Len(printed) = lhead
  /\ \A k \in 1 .. Len(printed) : printed[k] = tickets[k]
  /\ thread \in {"release", "print"} => buffer = tickets[lhead]

\* What seq says of the tickets before, in and behind the ring.
TicketCells ==
  /\ ltail <= Released + RingSize
  /\ \A p \in Nat : p < Released => lseq[CellOf(p)] > p
  /\ \A p \in Nat : Released <= p /\ p < ltail =>
       \/ lseq[CellOf(p)] = p
       \/ lseq[CellOf(p)] = p + 1 /\ lmsg[CellOf(p)] = tickets[p + 1]
  /\ \A p \in Nat : ltail <= p /\ p < Released + RingSize => lseq[CellOf(p)] = p
  /\ thread \in {"copy", "release"} => lseq[CellOf(lhead - 1)] = lhead

\* A writer that saw its cell free and whose ticket is still the next finds room.
RoomSeen(w) == wpc[w] = "cas" /\ wpos[w] = ltail => ltail < Released + RingSize

\* A writer with a ticket has its cell.
HasTicket(w) ==
  Writing(w) =>
    /\ lhead <= wpos[w] /\ wpos[w] < ltail
    /\ lseq[CellOf(wpos[w])] = wpos[w]
    /\ tickets[wpos[w] + 1] = Message(w)
    /\ wpc[w] = "publish" => lmsg[CellOf(wpos[w])] = Message(w)

\* What is known of every writer, and that no two have one ticket.
WriterInv ==
  /\ \A w \in Writers : wpos[w] <= ltail /\ (wpc[w] # "idle" => calls[w] >= 1)
  /\ HasCells => \A w \in Writers : RoomSeen(w) /\ HasTicket(w)
  /\ HasCells => \A u, w \in Writers : Writing(u) /\ Writing(w) /\ wpos[u] = wpos[w] => u = w

\* The inductive invariant of the logger.
LogInv == LogTypeOK /\ LoopAlive /\ Output /\ (HasCells => TicketCells) /\ WriterInv

-----------------------------------------------------------------------------
\* Two tickets less than a ring apart have different cells.
LEMMA LogCellDistinct ==
  ASSUME NEW p \in Nat, NEW q \in Nat, p < q, q < p + RingSize
  PROVE  CellOf(p) # CellOf(q)
<1>1. RingSize \in Nat \ {0}
  BY RingSizeAssumption
<1> QED
  BY <1>1, WindowDistinct DEF CellOf

\* pos % LOG_RING_SIZE is a cell; a lap later it is the same; within a lap another.
LEMMA LogCells ==
  /\ \A p \in Nat : CellOf(p) \in RingCells /\ CellOf(p + RingSize) = CellOf(p)
  /\ \A h, p, q \in Nat :
       h <= p /\ p < h + RingSize /\ h <= q /\ q < h + RingSize /\ CellOf(p) = CellOf(q)
       => p = q
<1> USE RingSizeAssumption
<1>0. RingSize \in Nat \ {0}
  OBVIOUS
<1>1. ASSUME NEW p \in Nat PROVE CellOf(p) \in RingCells /\ CellOf(p + RingSize) = CellOf(p)
  BY <1>0, ModInRange, NextLap DEF CellOf, RingCells
<1>2. ASSUME NEW h \in Nat, NEW p \in Nat, NEW q \in Nat, h <= p, p < h + RingSize, h <= q,
             q < h + RingSize, CellOf(p) = CellOf(q)
      PROVE  p = q
  <2>1. ~(p < q)
    BY <1>2, LogCellDistinct
  <2>2. ~(q < p)
    BY <1>2, LogCellDistinct
  <2> QED
    BY <2>1, <2>2
<1> QED
  BY <1>1, <1>2

\* Released is a position at or one behind head.
LEMMA ReleasedFacts ==
  ASSUME LogTypeOK, Output
  PROVE  /\ Released \in Nat /\ Released <= lhead /\ lhead <= Released + 1
         /\ thread \in {"copy", "release"} => Released = lhead - 1
         /\ thread \notin {"copy", "release"} => Released = lhead
BY DEF LogTypeOK, Output, Released, Carrying

\* Before img_logger_init there is no ring.
LEMMA LogInvInit == LogInit => LogInv
<1> SUFFICES ASSUME LogInit PROVE LogInv
  OBVIOUS
<1> USE RingSizeAssumption, MaxWritesAssumption DEF LogInit
<1>1. LogTypeOK
  <2>1. << >> \in Seq(Messages) /\ << >> \in Seq(Messages \cup {Blank})
    OBVIOUS
  <2>2. lmsg \in [RingCells -> Messages \cup {Blank}] /\ buffer \in Messages \cup {Blank}
    OBVIOUS
  <2>3. /\ life \in {"off", "running", "stopping", "stopped", "noring", "undefined"}
        /\ thread \in ThreadPcs /\ lhead \in Nat /\ ltail \in Nat /\ lseq \in [RingCells -> Nat]
        /\ wpc \in [Writers -> WriterPcs] /\ wpos \in [Writers -> Nat]
        /\ calls \in [Writers -> 0 .. MaxWrites]
    BY DEF WriterPcs, ThreadPcs
  <2>4. running \in BOOLEAN
    OBVIOUS
  <2> QED
    BY <2>1, <2>2, <2>3, <2>4 DEF LogTypeOK
<1>2. LoopAlive /\ Output /\ ~HasCells
  BY DEF LoopAlive, Output, HasCells, Writing, Carrying
<1>3. WriterInv
  BY <1>2 DEF WriterInv
<1> QED
  BY <1>1, <1>2, <1>3 DEF LogInv

-----------------------------------------------------------------------------
(* The host.                                                               *)

\* img_logger_init with both of its failures, and img_logger_shutdown.
LEMMA LogHostSteps == LogInv /\ LogHost => LogInv'
<1> SUFFICES ASSUME LogInv, LogHost PROVE LogInv'
  OBVIOUS
<1> USE DEF LogInv, ring, writer, output
<1>1. CASE InitNoMemory
  <2>1. LogTypeOK' /\ LoopAlive' /\ Output' /\ ~HasCells'
    BY <1>1 DEF InitNoMemory, LogTypeOK, LoopAlive, Output, HasCells, Writing, Carrying
  <2>2. WriterInv'
    BY <1>1, <2>1 DEF InitNoMemory, WriterInv
  <2> QED
    BY <2>1, <2>2
<1>2. ASSUME NEW started \in BOOLEAN, InitLogger(started) PROVE LogInv'
  <2> USE <1>2 DEF InitLogger
  <2>1. LogTypeOK'
    BY RingSizeAssumption DEF LogTypeOK, RingCells, ThreadPcs
  <2>2. /\ lhead' = 0 /\ ltail' = 0 /\ thread = "none" /\ thread' \in {"none", "check"}
        /\ \A w \in Writers : wpc'[w] # "cas" /\ ~Writing(w)'
    BY DEF LoopAlive, Writing
  <2>3. LoopAlive' /\ Output'
    BY <2>2 DEF LoopAlive, Output, HasCells, Carrying
  <2>4. TicketCells'
    <3>1. Released' = 0
      BY <2>2 DEF Released
    <3>2. \A p \in Nat : p < RingSize => CellOf(p) = p /\ p \in RingCells
      <4>1. RingSize \in Nat \ {0}
        BY RingSizeAssumption
      <4> QED
        BY <4>1, FirstLap DEF CellOf, RingCells
    <3> QED
      BY <2>2, <3>1, <3>2, RingSizeAssumption DEF TicketCells
  <2>5. WriterInv'
    BY <2>2 DEF WriterInv, RoomSeen, HasTicket
  <2> QED
    BY <2>1, <2>3, <2>4, <2>5
<1>3. CASE ShutdownFlag \/ ShutdownJoin
  <2> USE <1>3 DEF ShutdownFlag, ShutdownJoin
  <2>1. LogTypeOK'
    BY DEF LogTypeOK
  <2>2. LoopAlive' /\ Output' /\ (HasCells' => HasCells)
    BY DEF LoopAlive, Output, HasCells, Carrying
  <2>3. HasCells' => TicketCells'
    BY <2>2 DEF TicketCells, Released
  <2>4. \A u \in Writers : /\ Writing(u)' <=> Writing(u)
                           /\ RoomSeen(u)' <=> RoomSeen(u)
                           /\ HasTicket(u)' <=> HasTicket(u)
    BY DEF Writing, RoomSeen, HasTicket, Released, Message
  <2>5. WriterInv'
    BY <2>2, <2>4 DEF WriterInv
  <2> QED
    BY <2>1, <2>2, <2>3, <2>5
<1> QED
  BY <1>1, <1>2, <1>3 DEF LogHost

-----------------------------------------------------------------------------
(* The writers.                                                            *)

\* A step that leaves the ring alone, of a writer without a ticket.
LEMMA QuietWriter ==
  ASSUME LogInv, LogTypeOK', UNCHANGED <<life, running, thread, ring, output>>,
         NEW w \in Writers, ~Writing(w)',
         \A u \in Writers : u # w => /\ wpc'[u] = wpc[u] /\ wpos'[u] = wpos[u]
                                     /\ calls'[u] = calls[u],
         wpos'[w] <= ltail, wpc'[w] # "idle" => calls'[w] >= 1,
         wpc'[w] = "cas" => HasCells /\ RoomSeen(w)'
  PROVE  LogInv'
<1> USE DEF LogInv, ring, output
<1>1. LoopAlive' /\ Output' /\ (HasCells' <=> HasCells)
  BY DEF LoopAlive, Output, HasCells, Carrying, Writing
<1>2. HasCells' => TicketCells'
  BY <1>1 DEF TicketCells, Released
<1>3. \A u \in Writers : u # w => /\ Writing(u)' <=> Writing(u)
                                  /\ RoomSeen(u)' <=> RoomSeen(u)
                                  /\ HasTicket(u)' <=> HasTicket(u)
  BY DEF Writing, RoomSeen, HasTicket, Released, Message
<1>4. HasCells' => RoomSeen(w)' /\ HasTicket(w)'
  BY DEF RoomSeen, HasTicket
<1>5. WriterInv'
  BY <1>1, <1>3, <1>4 DEF WriterInv
<1> QED
  BY <1>1, <1>2, <1>5

\* A ticket whose cell shows its number, and which is the next, has room: this is where
\* one cell would not be enough.
LEMMA LogRoom ==
  ASSUME LogInv, HasCells, lseq[CellOf(ltail)] = ltail
  PROVE  ltail < Released + RingSize
<1> USE RingSizeAssumption DEF LogInv
<1>0. Released \in Nat /\ ltail \in Nat /\ ltail <= Released + RingSize
  BY ReleasedFacts DEF TicketCells, LogTypeOK
<1> SUFFICES ASSUME ltail = Released + RingSize PROVE FALSE
  BY <1>0
<1>1. Released \in Nat /\ Released < ltail
  BY <1>0
<1>2. lseq[CellOf(Released)] \in {Released, Released + 1}
  BY <1>1 DEF TicketCells
<1>3. CellOf(ltail) = CellOf(Released)
  BY <1>1, LogCells
<1> QED
  BY <1>1, <1>2, <1>3

\* img_log_write up to the compare-and-swap, and its failures.
LEMMA LookSteps ==
  ASSUME LogInv, NEW w \in Writers,
         \/ LogWrite(w) \/ LogBelowInfo(w) \/ LogLoadTail(w)
         \/ LogSeqFree(w) \/ LogSeqFull(w) \/ LogSeqRetry(w)
         \/ LogCasFail(w) \/ LogNoCells(w)
  PROVE  LogInv'
<1> USE DEF LogInv
<1>0. /\ wpc \in [Writers -> WriterPcs] /\ wpos \in [Writers -> Nat]
      /\ calls \in [Writers -> 0 .. MaxWrites] /\ ltail \in Nat
      /\ wpos[w] <= ltail /\ (wpc[w] # "idle" => calls[w] >= 1)
  BY DEF LogTypeOK, WriterInv
<1> USE MaxWritesAssumption
<1>1. CASE LogWrite(w) \/ LogBelowInfo(w)
  <2>1. calls[w] \in Nat /\ calls[w] + 1 \in 1 .. MaxWrites
    BY <1>0, <1>1 DEF LogWrite, LogBelowInfo
  <2>2. /\ calls' = [calls EXCEPT ![w] = calls[w] + 1] /\ wpos' = wpos
        /\ UNCHANGED <<life, running, thread, ring, output>>
        /\ wpc' \in {wpc, [wpc EXCEPT ![w] = "tail"]} /\ wpc[w] = "idle"
    BY <1>1 DEF LogWrite, LogBelowInfo, WriterAt
  <2>3. /\ wpc' \in [Writers -> WriterPcs] /\ calls' \in [Writers -> 0 .. MaxWrites]
        /\ calls'[w] >= 1 /\ wpc'[w] \in {"idle", "tail"}
        /\ \A u \in Writers : u # w => wpc'[u] = wpc[u] /\ calls'[u] = calls[u]
    <3>1. CASE wpc' = wpc
      BY <3>1, <2>1, <2>2, <1>0
    <3>2. CASE wpc' = [wpc EXCEPT ![w] = "tail"]
      BY <3>2, <2>1, <2>2, <1>0 DEF WriterPcs
    <3> QED
      BY <3>1, <3>2, <2>2
  <2>4. LogTypeOK'
    BY <2>2, <2>3 DEF LogTypeOK, ring, output
  <2> QED
    BY <2>2, <2>3, <2>4, <1>0, QuietWriter DEF Writing
<1>2. CASE LogLoadTail(w)
  <2>1. LogTypeOK'
    BY <1>2, <1>0 DEF LogLoadTail, WriterAt, LogTypeOK, ring, output, WriterPcs
  <2> QED
    BY <1>2, <2>1, <1>0, QuietWriter DEF LogLoadTail, WriterAt, Writing
<1>3. CASE LogSeqFree(w)
  <2>1. LogTypeOK'
    BY <1>3, <1>0 DEF LogSeqFree, WriterAt, LogTypeOK, ring, output, WriterPcs
  <2>2. RoomSeen(w)'
    BY <1>3, LogRoom DEF RoomSeen, LogSeqFree, SeqOf, Released, ring
  <2> QED
    BY <1>3, <2>1, <2>2, <1>0, QuietWriter DEF LogSeqFree, WriterAt, Writing
<1>4. CASE LogSeqFull(w)
  <2>1. LogTypeOK'
    BY <1>4, <1>0 DEF LogSeqFull, WriterAt, LogTypeOK, ring, output, WriterPcs
  <2> QED
    BY <1>4, <2>1, <1>0, QuietWriter DEF LogSeqFull, WriterAt, Writing
<1>5. CASE LogSeqRetry(w) \/ LogCasFail(w) \/ LogNoCells(w)
  <2>1. /\ wpc' \in {[wpc EXCEPT ![w] = "tail"], [wpc EXCEPT ![w] = "wild"]}
        /\ wpos' = wpos /\ calls' = calls /\ wpc[w] # "idle"
        /\ UNCHANGED <<life, running, thread, ring, output>>
    BY <1>5 DEF LogSeqRetry, LogCasFail, LogNoCells, WriterAt
  <2>2. LogTypeOK'
    BY <2>1, <1>0 DEF LogTypeOK, ring, output, WriterPcs
  <2> QED
    BY <2>1, <2>2, <1>0, QuietWriter DEF Writing
<1> QED
  BY <1>1, <1>2, <1>3, <1>4, <1>5
-----------------------------------------------------------------------------
(* A writer takes its ticket, copies its message and publishes it.         *)

\* The compare-and-swap: ticket ltail.
LEMMA TicketStep == ASSUME LogInv, NEW w \in Writers, LogCasOk(w) PROVE LogInv'
<1> USE DEF LogInv
<1> PICK p \in Nat : p = ltail
  BY DEF LogTypeOK
<1> PICK m : m = Message(w)
  OBVIOUS
<1>1. /\ wpc[w] = "cas" /\ wpc' = [wpc EXCEPT ![w] = "copy"] /\ wpos[w] = p
      /\ ltail' = p + 1 /\ tickets' = Append(tickets, m)
      /\ UNCHANGED <<life, running, thread, lhead, lseq, lmsg, wpos, calls, buffer, printed>>
  BY DEF LogCasOk, WriterAt
<1>2. /\ wpc \in [Writers -> WriterPcs] /\ wpos \in [Writers -> Nat] /\ lhead \in Nat
      /\ calls \in [Writers -> 0 .. MaxWrites] /\ tickets \in Seq(Messages)
      /\ printed \in Seq(Messages \cup {Blank})
  BY DEF LogTypeOK
<1>3. m \in Messages
  <2>1. calls[w] \in 1 .. MaxWrites
    BY <1>1, <1>2, MaxWritesAssumption DEF WriterInv
  <2> QED
    BY <2>1 DEF Message, Messages
<1>4. /\ Len(tickets) = p /\ Len(tickets') = p + 1 /\ tickets' \in Seq(Messages)
      /\ \A k \in 1 .. p : tickets'[k] = tickets[k]
      /\ tickets'[p + 1] = m
  <2>1. Len(tickets) = p
    BY DEF Output
  <2>2. /\ Append(tickets, m) \in Seq(Messages) /\ Len(Append(tickets, m)) = Len(tickets) + 1
        /\ \A k \in 1 .. Len(tickets) : Append(tickets, m)[k] = tickets[k]
        /\ Append(tickets, m)[Len(tickets) + 1] = m
    BY <1>2, <1>3, AppendProperties
  <2> QED
    BY <2>1, <2>2, <1>1
<1>5. LogTypeOK'
  BY <1>1, <1>2, <1>4 DEF LogTypeOK, WriterPcs
<1>6. /\ \A u \in Writers : u # w => wpc'[u] = wpc[u]
      /\ wpc'[w] = "copy" /\ Writing(w)' /\ ~Writing(w)
      /\ \A u \in Writers : u # w => (Writing(u)' <=> Writing(u))
      /\ (HasCells' <=> HasCells) /\ (Carrying' <=> Carrying) /\ Released' = Released
      /\ \A u \in Writers : Message(u)' = Message(u)
  BY <1>1, <1>2 DEF Writing, HasCells, Carrying, Released, Message
<1>7. LoopAlive'
  <2>1. life # "off"
    BY <1>1 DEF LoopAlive
  <2> QED
    BY <2>1, <1>1, <1>6 DEF LoopAlive
<1>8. Output'
  <2>1. lhead <= p /\ (Carrying => lhead >= 1 /\ Len(printed) = lhead - 1)
        /\ (~Carrying => Len(printed) = lhead)
    BY DEF Output
  <2>2. Len(printed) \in Nat /\ Len(printed) <= p
    BY <2>1, <1>2
  <2>3. \A k \in 1 .. Len(printed) : printed[k] = tickets'[k]
    BY <2>2, <1>4 DEF Output
  <2>4. thread \in {"release", "print"} => lhead \in 1 .. p /\ buffer = tickets[lhead]
    BY <2>1, <1>2 DEF Output, Carrying
  <2>5. thread' \in {"release", "print"} => buffer' = tickets'[lhead']
    BY <2>4, <1>4, <1>1
  <2>6. Len(tickets') = ltail' /\ lhead' <= ltail'
    BY <2>1, <1>1, <1>2, <1>4
  <2> QED
    BY <2>1, <2>3, <2>5, <2>6, <1>1, <1>6 DEF Output
<1>9. ASSUME HasCells
      PROVE  TicketCells' /\ \A u \in Writers : RoomSeen(u)' /\ HasTicket(u)'
  <2>1. Released \in Nat /\ Released <= lhead /\ lhead <= p /\ p < Released + RingSize
    BY <1>9, <1>1, ReleasedFacts DEF WriterInv, RoomSeen, Output
  <2>2. /\ \A q \in Nat : q < Released => lseq[CellOf(q)] > q
        /\ \A q \in Nat : Released <= q /\ q < p =>
             \/ lseq[CellOf(q)] = q
             \/ lseq[CellOf(q)] = q + 1 /\ lmsg[CellOf(q)] = tickets[q + 1]
        /\ \A q \in Nat : p <= q /\ q < Released + RingSize => lseq[CellOf(q)] = q
        /\ thread \in {"copy", "release"} => lseq[CellOf(lhead - 1)] = lhead
    BY <1>9 DEF TicketCells
  <2>3. lseq[CellOf(p)] = p
    BY <2>1, <2>2
  <2>4. \A q \in Nat : q < p => q + 1 \in 1 .. p
    OBVIOUS
  <2>5. \A q \in Nat : Released <= q /\ q < p + 1 =>
             \/ lseq[CellOf(q)] = q
             \/ lseq[CellOf(q)] = q + 1 /\ lmsg[CellOf(q)] = tickets'[q + 1]
    <3> SUFFICES ASSUME NEW q \in Nat, Released <= q, q < p + 1
                 PROVE  \/ lseq[CellOf(q)] = q
                        \/ lseq[CellOf(q)] = q + 1 /\ lmsg[CellOf(q)] = tickets'[q + 1]
      OBVIOUS
    <3>1. CASE q = p
      BY <3>1, <2>3
    <3>2. CASE q < p
      BY <3>2, <2>2, <2>4, <1>4
    <3> QED
      BY <3>1, <3>2
  <2>6. TicketCells'
    <3>1. p + 1 <= Released + RingSize
      BY <2>1, RingSizeAssumption
    <3>2. \A q \in Nat : p + 1 <= q /\ q < Released + RingSize => lseq[CellOf(q)] = q
      BY <2>2
    <3> QED
      BY <3>1, <3>2, <2>2, <2>5, <1>1, <1>6 DEF TicketCells
  <2>7. \A u \in Writers : RoomSeen(u)'
    <3> SUFFICES ASSUME NEW u \in Writers, wpc'[u] = "cas", wpos'[u] = p + 1 PROVE FALSE
      BY <1>1 DEF RoomSeen
    <3> QED
      BY <1>1, <1>2 DEF WriterInv
  <2>8. HasTicket(w)'
    BY <2>1, <2>3, <1>1, <1>4, <1>6 DEF HasTicket
  <2>9. ASSUME NEW u \in Writers, u # w PROVE HasTicket(u)'
    <3> SUFFICES ASSUME Writing(u) PROVE HasTicket(u)'
      BY <2>9, <1>6 DEF HasTicket
    <3>1. /\ wpos[u] \in Nat /\ lhead <= wpos[u] /\ wpos[u] < p
          /\ lseq[CellOf(wpos[u])] = wpos[u] /\ tickets[wpos[u] + 1] = Message(u)
          /\ wpc[u] = "publish" => lmsg[CellOf(wpos[u])] = Message(u)
      BY <1>9, <1>2 DEF WriterInv, HasTicket
    <3>2. wpos[u] + 1 \in 1 .. p
      BY <3>1, <2>4
    <3>3. wpos[u] < p + 1
      BY <3>1
    <3> QED
      BY <3>1, <3>2, <3>3, <2>9, <1>1, <1>4, <1>6 DEF HasTicket
  <2> QED
    BY <2>6, <2>7, <2>8, <2>9
<1>10. WriterInv'
  <2>1. \A u \in Writers : wpos'[u] <= ltail' /\ (wpc'[u] # "idle" => calls'[u] >= 1)
    <3>1. \A u \in Writers : wpos[u] <= p + 1
      BY <1>2 DEF WriterInv
    <3> QED
      BY <3>1, <1>1, <1>6 DEF WriterInv
  <2>2. HasCells => \A u \in Writers : Writing(u) => wpos[u] # p
    BY <1>2 DEF WriterInv, HasTicket
  <2> QED
    BY <2>1, <2>2, <1>9, <1>1, <1>6 DEF WriterInv
<1> QED
  BY <1>5, <1>6, <1>7, <1>8, <1>9, <1>10

\* The message is copied into the cell, which nobody else touches.
LEMMA CopyStep == ASSUME LogInv, NEW w \in Writers, LogCopy(w) PROVE LogInv'
<1> USE DEF LogInv
<1> PICK p \in Nat : p = wpos[w]
  BY DEF LogTypeOK
<1> PICK m : m = Message(w)
  OBVIOUS
<1>1. /\ wpc[w] = "copy" /\ wpc' = [wpc EXCEPT ![w] = "publish"] /\ HasCells
      /\ lmsg' = [lmsg EXCEPT ![CellOf(p)] = m]
      /\ UNCHANGED <<life, running, thread, lhead, ltail, lseq, wpos, calls, buffer,
                     tickets, printed>>
  BY DEF LogCopy, WriterAt, output
<1>2. /\ wpc \in [Writers -> WriterPcs] /\ wpos \in [Writers -> Nat] /\ lhead \in Nat
      /\ calls \in [Writers -> 0 .. MaxWrites] /\ ltail \in Nat
      /\ lmsg \in [RingCells -> Messages \cup {Blank}]
  BY DEF LogTypeOK
<1>3. m \in Messages
  <2>1. calls[w] \in 1 .. MaxWrites
    BY <1>1, <1>2, MaxWritesAssumption DEF WriterInv
  <2> QED
    BY <2>1 DEF Message, Messages
<1>4. LogTypeOK'
  <2>1. CellOf(p) \in RingCells
    BY LogCells
  <2> QED
    BY <2>1, <1>1, <1>2, <1>3 DEF LogTypeOK, WriterPcs
<1>5. /\ \A u \in Writers : u # w => wpc'[u] = wpc[u]
      /\ wpc'[w] = "publish"
      /\ \A u \in Writers : Writing(u)' <=> Writing(u)
      /\ HasCells' /\ (Carrying' <=> Carrying) /\ Released' = Released
      /\ \A u \in Writers : Message(u)' = Message(u)
  BY <1>1, <1>2 DEF Writing, HasCells, Carrying, Released, Message
<1>6. LoopAlive' /\ Output'
  BY <1>1, <1>5 DEF LoopAlive, Output
<1>7. /\ lhead <= p /\ p < ltail /\ lseq[CellOf(p)] = p /\ tickets[p + 1] = m
      /\ Released \in Nat /\ Released <= lhead /\ ltail <= Released + RingSize
  BY <1>1, ReleasedFacts DEF WriterInv, HasTicket, Writing, TicketCells
<1>8. /\ lmsg'[CellOf(p)] = m
      /\ \A q \in Nat : Released <= q /\ q < ltail /\ q # p =>
           lmsg'[CellOf(q)] = lmsg[CellOf(q)]
  <2>1. lmsg'[CellOf(p)] = m
    BY <1>1, <1>2, LogCells
  <2>2. ASSUME NEW q \in Nat, Released <= q, q < ltail, q # p
        PROVE  lmsg'[CellOf(q)] = lmsg[CellOf(q)]
    <3>1. q < Released + RingSize /\ p < Released + RingSize /\ Released <= p
      BY <2>2, <1>7, <1>2, RingSizeAssumption
    <3>2. CellOf(q) # CellOf(p) /\ CellOf(q) \in RingCells
      BY <3>1, <2>2, <1>7, LogCells
    <3> QED
      BY <3>2, <1>1, <1>2
  <2> QED
    BY <2>1, <2>2
<1>9. TicketCells'
  <2>1. \A q \in Nat : Released <= q /\ q < ltail =>
          \/ lseq[CellOf(q)] = q
          \/ lseq[CellOf(q)] = q + 1 /\ lmsg'[CellOf(q)] = tickets[q + 1]
    BY <1>1, <1>7, <1>8 DEF TicketCells
  <2> QED
    BY <2>1, <1>1, <1>5 DEF TicketCells
<1>10. \A u \in Writers : RoomSeen(u)'
  BY <1>1, <1>5 DEF WriterInv, RoomSeen
<1>11. HasTicket(w)'
  BY <1>1, <1>5, <1>7, <1>8 DEF HasTicket
<1>12. ASSUME NEW u \in Writers, u # w PROVE HasTicket(u)'
  <2> SUFFICES ASSUME Writing(u) PROVE HasTicket(u)'
    BY <1>5 DEF HasTicket
  <2>1. /\ wpos[u] \in Nat /\ lhead <= wpos[u] /\ wpos[u] < ltail /\ wpos[u] # p
        /\ lseq[CellOf(wpos[u])] = wpos[u] /\ tickets[wpos[u] + 1] = Message(u)
        /\ wpc[u] = "publish" => lmsg[CellOf(wpos[u])] = Message(u)
    BY <1>12, <1>1, <1>2 DEF WriterInv, HasTicket, Writing
  <2>2. lmsg'[CellOf(wpos[u])] = lmsg[CellOf(wpos[u])]
    BY <2>1, <1>2, <1>7, <1>8
  <2> QED
    BY <2>1, <2>2, <1>12, <1>1, <1>5 DEF HasTicket
<1>13. WriterInv'
  BY <1>1, <1>5, <1>10, <1>11, <1>12 DEF WriterInv
<1> QED
  BY <1>4, <1>5, <1>6, <1>9, <1>13

\* Publishing: seq becomes the ticket plus one, over a message that is its own.
LEMMA PublishStep == ASSUME LogInv, NEW w \in Writers, LogPublish(w) PROVE LogInv'
<1> USE DEF LogInv
<1> PICK p \in Nat : p = wpos[w]
  BY DEF LogTypeOK
<1>0. p + 1 \in Nat
  OBVIOUS
<1>1. /\ wpc[w] = "publish" /\ wpc' = [wpc EXCEPT ![w] = "idle"] /\ HasCells
      /\ lseq' = [lseq EXCEPT ![CellOf(p)] = p + 1] /\ wpos' = [wpos EXCEPT ![w] = 0]
      /\ UNCHANGED <<life, running, thread, lhead, ltail, lmsg, calls, buffer,
                     tickets, printed>>
  BY DEF LogPublish, WriterAt, output
<1>2. /\ wpc \in [Writers -> WriterPcs] /\ wpos \in [Writers -> Nat] /\ lhead \in Nat
      /\ ltail \in Nat /\ lseq \in [RingCells -> Nat]
  BY DEF LogTypeOK
<1>4. LogTypeOK'
  <2>1. CellOf(p) \in RingCells
    BY LogCells
  <2> QED
    BY <2>1, <1>0, <1>1, <1>2 DEF LogTypeOK, WriterPcs
<1>5. /\ \A u \in Writers : u # w => wpc'[u] = wpc[u] /\ wpos'[u] = wpos[u]
      /\ wpc'[w] = "idle" /\ wpos'[w] = 0 /\ ~Writing(w)'
      /\ \A u \in Writers : u # w => (Writing(u)' <=> Writing(u))
      /\ HasCells' /\ (Carrying' <=> Carrying) /\ Released' = Released
      /\ \A u \in Writers : Message(u)' = Message(u)
  BY <1>1, <1>2 DEF Writing, HasCells, Carrying, Released, Message
<1>6. LoopAlive' /\ Output'
  BY <1>1, <1>5 DEF LoopAlive, Output
<1>7. /\ lhead <= p /\ p < ltail /\ lseq[CellOf(p)] = p /\ lmsg[CellOf(p)] = tickets[p + 1]
      /\ Released \in Nat /\ Released <= lhead /\ ltail <= Released + RingSize
      /\ lhead <= Released + 1 /\ (thread \in {"copy", "release"} => Released = lhead - 1)
  BY <1>1, ReleasedFacts DEF WriterInv, HasTicket, Writing, TicketCells
<1>8. /\ lseq'[CellOf(p)] = p + 1
      /\ \A q \in Nat : Released <= q /\ q < Released + RingSize /\ q # p =>
           lseq'[CellOf(q)] = lseq[CellOf(q)]
      /\ \A c \in RingCells : lseq'[c] >= lseq[c]
  <2>1. lseq'[CellOf(p)] = p + 1 /\ \A c \in RingCells : c # CellOf(p) => lseq'[c] = lseq[c]
    BY <1>1, <1>2, LogCells
  <2>2. ASSUME NEW q \in Nat, Released <= q, q < Released + RingSize, q # p
        PROVE  lseq'[CellOf(q)] = lseq[CellOf(q)]
    <3>1. p < Released + RingSize /\ Released <= p
      BY <1>7, <1>2, RingSizeAssumption
    <3>2. CellOf(q) # CellOf(p) /\ CellOf(q) \in RingCells
      BY <3>1, <2>2, <1>7, LogCells
    <3> QED
      BY <3>2, <2>1
  <2>3. ASSUME NEW c \in RingCells PROVE lseq'[c] >= lseq[c]
    BY <2>1, <1>2, <1>7
  <2> QED
    BY <2>1, <2>2, <2>3
<1>9. TicketCells'
  <2>1. \A q \in Nat : Released <= q /\ q < ltail =>
          \/ lseq'[CellOf(q)] = q
          \/ lseq'[CellOf(q)] = q + 1 /\ lmsg[CellOf(q)] = tickets[q + 1]
    <3> SUFFICES ASSUME NEW q \in Nat, Released <= q, q < ltail
                 PROVE  \/ lseq'[CellOf(q)] = q
                        \/ lseq'[CellOf(q)] = q + 1 /\ lmsg[CellOf(q)] = tickets[q + 1]
      OBVIOUS
    <3>1. CASE q = p
      BY <3>1, <1>7, <1>8
    <3>2. CASE q # p
      <4>1. q < Released + RingSize
        BY <1>2, <1>7, RingSizeAssumption
      <4> QED
        BY <4>1, <3>2, <1>1, <1>8 DEF TicketCells
    <3> QED
      BY <3>1, <3>2
  <2>2. \A q \in Nat : ltail <= q /\ q < Released + RingSize => lseq'[CellOf(q)] = q
    <3> SUFFICES ASSUME NEW q \in Nat, ltail <= q, q < Released + RingSize
                 PROVE  lseq'[CellOf(q)] = q
      OBVIOUS
    <3>1. q # p /\ Released <= q
      BY <1>2, <1>7
    <3> QED
      BY <3>1, <1>1, <1>8 DEF TicketCells
  <2>3. \A q \in Nat : q < Released => lseq'[CellOf(q)] > q
    <3> SUFFICES ASSUME NEW q \in Nat, q < Released PROVE lseq'[CellOf(q)] > q
      OBVIOUS
    <3>1. CellOf(q) \in RingCells /\ lseq[CellOf(q)] > q
      BY <1>1, LogCells DEF TicketCells
    <3>2. lseq[CellOf(q)] \in Nat /\ lseq'[CellOf(q)] \in Nat
      BY <3>1, <1>2, <1>4 DEF LogTypeOK
    <3> QED
      BY <3>1, <3>2, <1>8
  <2>4. thread \in {"copy", "release"} => lseq'[CellOf(lhead - 1)] = lhead
    <3> SUFFICES ASSUME thread \in {"copy", "release"} PROVE lseq'[CellOf(lhead - 1)] = lhead
      OBVIOUS
    <3>1. lhead - 1 = Released /\ lseq[CellOf(lhead - 1)] = lhead
      BY <1>1, <1>7 DEF TicketCells
    <3>2. Released # p /\ Released < Released + RingSize
      BY <1>2, <1>7, <3>1, RingSizeAssumption
    <3> QED
      BY <3>1, <3>2, <1>7, <1>8
  <2> QED
    BY <2>1, <2>2, <2>3, <2>4, <1>1, <1>5, <1>7 DEF TicketCells
<1>10. \A u \in Writers : RoomSeen(u)'
  BY <1>1, <1>5 DEF WriterInv, RoomSeen
<1>11. HasTicket(w)'
  BY <1>5 DEF HasTicket
<1>12. ASSUME NEW u \in Writers, u # w PROVE HasTicket(u)'
  <2> SUFFICES ASSUME Writing(u) PROVE HasTicket(u)'
    BY <1>12, <1>5 DEF HasTicket
  <2>1. /\ wpos[u] \in Nat /\ lhead <= wpos[u] /\ wpos[u] < ltail /\ wpos[u] # p
        /\ lseq[CellOf(wpos[u])] = wpos[u] /\ tickets[wpos[u] + 1] = Message(u)
        /\ wpc[u] = "publish" => lmsg[CellOf(wpos[u])] = Message(u)
    BY <1>12, <1>1, <1>2 DEF WriterInv, HasTicket, Writing
  <2>2. Released <= wpos[u] /\ wpos[u] < Released + RingSize
    BY <2>1, <1>2, <1>7, RingSizeAssumption
  <2>3. lseq'[CellOf(wpos[u])] = lseq[CellOf(wpos[u])]
    BY <2>1, <2>2, <1>8
  <2> QED
    BY <2>1, <2>3, <1>12, <1>1, <1>5 DEF HasTicket
<1>13. WriterInv'
  <2>1. \A u \in Writers : wpos'[u] <= ltail' /\ (wpc'[u] # "idle" => calls'[u] >= 1)
    BY <1>1, <1>2, <1>5 DEF WriterInv
  <2> QED
    BY <2>1, <1>1, <1>5, <1>10, <1>11, <1>12 DEF WriterInv
<1> QED
  BY <1>4, <1>5, <1>6, <1>9, <1>13

-----------------------------------------------------------------------------
(* The logger thread.                                                      *)

\* What none of its steps touches of a writer.
LEMMA WritersKeep ==
  ASSUME LogInv, UNCHANGED <<life, ltail, lmsg, writer, tickets>>
  PROVE  /\ HasCells' <=> HasCells
         /\ \A u \in Writers : /\ Writing(u)' <=> Writing(u)
                               /\ Message(u)' = Message(u)
                               /\ wpc'[u] = wpc[u] /\ wpos'[u] = wpos[u]
         /\ (HasCells => \A u \in Writers : RoomSeen(u)' /\ HasTicket(u)') => WriterInv'
<1>1. /\ HasCells' <=> HasCells
      /\ \A u \in Writers : /\ Writing(u)' <=> Writing(u)
                            /\ Message(u)' = Message(u)
                            /\ wpc'[u] = wpc[u] /\ wpos'[u] = wpos[u] /\ calls'[u] = calls[u]
  BY DEF HasCells, Writing, Message, writer
<1> QED
  BY <1>1 DEF LogInv, WriterInv

\* Steps that leave the ring and the output alone: the test of g_running, and a pop
\* that finds nothing.
LEMMA IdleSteps == LogInv /\ (LoopTest \/ PopNothing) => LogInv'
<1> SUFFICES ASSUME LogInv, LoopTest \/ PopNothing PROVE LogInv'
  OBVIOUS
<1> USE DEF LogInv
<1>1. /\ thread \in {"check", "pop"} /\ thread' \in {"check", "pop", "exit"}
      /\ UNCHANGED <<life, running, lhead, ltail, lseq, lmsg, wpc, wpos, calls, buffer,
                     tickets, printed>>
  BY DEF LoopTest, PopNothing, ThreadAt, ring, writer, output
<1>2. LogTypeOK'
  BY <1>1 DEF LogTypeOK, ThreadPcs
<1>3. Released' = Released /\ ~Carrying /\ ~Carrying' /\ (HasCells' <=> HasCells)
  BY <1>1 DEF Released, Carrying, HasCells
<1>4. LoopAlive' /\ Output'
  BY <1>1, <1>3 DEF LoopAlive, Output, Writing
<1>5. HasCells' => TicketCells'
  BY <1>1, <1>3 DEF TicketCells
<1>6. WriterInv'
  BY <1>1, <1>3, WritersKeep DEF writer, WriterInv, RoomSeen, HasTicket
<1> QED
  BY <1>2, <1>4, <1>5, <1>6

\* The thread takes the ticket at head: it is published, so no writer is on its cell.
LEMMA TakeStep == LogInv /\ PopTake => LogInv'
<1> SUFFICES ASSUME LogInv, PopTake PROVE LogInv'
  OBVIOUS
<1> USE DEF LogInv
<1> PICK h \in Nat : h = lhead
  BY DEF LogTypeOK
<1>0. h + 1 \in Nat /\ h + 1 >= 1 /\ (h + 1) - 1 = h /\ h <= h
  OBVIOUS
<1>1. /\ thread = "pop" /\ thread' = "copy" /\ lhead' = h + 1 /\ lseq[CellOf(h)] >= h + 1
      /\ UNCHANGED <<life, running, ltail, lseq, lmsg, wpc, wpos, calls, buffer,
                     tickets, printed>>
  BY DEF PopTake, ThreadAt, writer, output
<1>2. HasCells /\ Released = h /\ ltail \in Nat /\ h <= ltail
  BY <1>1, ReleasedFacts DEF LoopAlive, LogTypeOK, Output
<1>3. /\ h < ltail /\ lseq[CellOf(h)] = h + 1
  <2>1. CASE h = ltail
    BY <2>1, <1>1, <1>2, RingSizeAssumption DEF TicketCells
  <2>2. CASE h < ltail
    <3>1. lseq[CellOf(h)] \in {h, h + 1}
      BY <2>2, <1>2 DEF TicketCells
    <3> QED
      BY <2>2, <3>1, <1>1
  <2> QED
    BY <2>1, <2>2, <1>2
<1>4. LogTypeOK'
  BY <1>0, <1>1 DEF LogTypeOK, ThreadPcs
<1>5. /\ Released' = h /\ ~Carrying /\ Carrying'
  BY <1>0, <1>1 DEF Released, Carrying
<1>6. LoopAlive' /\ HasCells'
  BY <1>1, <1>2 DEF LoopAlive, HasCells
<1>7. Output'
  <2>1. h + 1 <= ltail
    BY <1>2, <1>3
  <2> QED
    BY <2>1, <1>0, <1>1, <1>5 DEF Output
<1>8. TicketCells'
  BY <1>0, <1>1, <1>2, <1>3, <1>5 DEF TicketCells
<1>9. \A u \in Writers : RoomSeen(u)' /\ HasTicket(u)'
  <2> SUFFICES ASSUME NEW u \in Writers PROVE RoomSeen(u)' /\ HasTicket(u)'
    OBVIOUS
  <2>1. RoomSeen(u)'
    BY <1>1, <1>2, <1>5 DEF WriterInv, RoomSeen
  <2>2. HasTicket(u)'
    <3> SUFFICES ASSUME Writing(u) PROVE HasTicket(u)'
      BY <1>1 DEF HasTicket, Writing
    <3>1. wpos[u] \in Nat /\ h <= wpos[u] /\ lseq[CellOf(wpos[u])] = wpos[u]
      BY <1>2 DEF WriterInv, HasTicket, LogTypeOK
    <3>2. wpos[u] # h
      BY <3>1, <1>3
    <3>3. h + 1 <= wpos[u]
      BY <3>1, <3>2
    <3> QED
      BY <3>3, <1>1, <1>2 DEF WriterInv, HasTicket, Writing, Message
  <2> QED
    BY <2>1, <2>2
<1>10. WriterInv'
  BY <1>1, <1>9, WritersKeep DEF writer
<1> QED
  BY <1>4, <1>6, <1>7, <1>8, <1>10

\* It copies the message the ticket was taken for.
LEMMA CopyOutStep == LogInv /\ PopCopy => LogInv'
<1> SUFFICES ASSUME LogInv, PopCopy PROVE LogInv'
  OBVIOUS
<1> USE DEF LogInv
<1> PICK h \in Nat : h = lhead
  BY DEF LogTypeOK
<1>1. /\ thread = "copy" /\ thread' = "release" /\ buffer' = lmsg[CellOf(h - 1)]
      /\ UNCHANGED <<life, running, lhead, ltail, lseq, lmsg, wpc, wpos, calls,
                     tickets, printed>>
  BY DEF PopCopy, ThreadAt, writer, ring
<1>2. /\ HasCells /\ Released = h - 1 /\ h - 1 \in Nat /\ h <= ltail /\ ltail \in Nat
      /\ (h - 1) + 1 = h /\ h - 1 < h
  BY <1>1, ReleasedFacts DEF LoopAlive, LogTypeOK, Output, Carrying
<1>3. buffer' = tickets[h]
  <2>1. lseq[CellOf(h - 1)] = h
    BY <1>1, <1>2 DEF TicketCells
  <2>2. Released <= h - 1 /\ h - 1 < ltail
    BY <1>2
  <2>3. \/ lseq[CellOf(h - 1)] = h - 1
        \/ lseq[CellOf(h - 1)] = (h - 1) + 1 /\ lmsg[CellOf(h - 1)] = tickets[(h - 1) + 1]
    BY <2>2, <1>2 DEF TicketCells
  <2> QED
    BY <2>1, <2>3, <1>1, <1>2
<1>4. LogTypeOK'
  <2>1. CellOf(h - 1) \in RingCells
    BY <1>2, LogCells
  <2> QED
    BY <2>1, <1>1 DEF LogTypeOK, ThreadPcs
<1>5. Released' = Released /\ Carrying /\ Carrying'
  BY <1>1 DEF Released, Carrying
<1>6. LoopAlive' /\ HasCells'
  BY <1>1, <1>2 DEF LoopAlive, HasCells
<1>7. Output'
  BY <1>1, <1>3, <1>5 DEF Output
<1>8. TicketCells'
  BY <1>1, <1>2, <1>5 DEF TicketCells
<1>9. WriterInv'
  BY <1>1, <1>5, WritersKeep DEF writer, WriterInv, RoomSeen, HasTicket
<1> QED
  BY <1>4, <1>6, <1>7, <1>8, <1>9

\* It gives the cell back to the ticket a lap later.
LEMMA GiveBackStep == LogInv /\ PopGiveBack => LogInv'
<1> SUFFICES ASSUME LogInv, PopGiveBack PROVE LogInv'
  OBVIOUS
<1> USE DEF LogInv
<1>0. HasCells /\ Released = lhead - 1 /\ Released \in Nat /\ thread = "release"
  BY ReleasedFacts DEF LoopAlive, PopGiveBack, ThreadAt
<1> PICK r \in Nat : r = Released
  BY <1>0
<1>a. r + 1 \in Nat /\ r + RingSize \in Nat /\ r < r + RingSize
  BY RingSizeAssumption
<1>1. /\ thread' = "print" /\ lseq' = [lseq EXCEPT ![CellOf(r)] = r + RingSize]
      /\ lhead = r + 1
      /\ UNCHANGED <<life, running, lhead, ltail, lmsg, wpc, wpos, calls, buffer,
                     tickets, printed>>
  <2>1. lhead = r + 1 /\ lhead - 1 = r
    BY <1>0 DEF LogTypeOK
  <2> QED
    BY <2>1 DEF PopGiveBack, ThreadAt, writer, output
<1>2. /\ ltail \in Nat /\ r + 1 <= ltail /\ ltail <= r + RingSize
      /\ lseq \in [RingCells -> Nat] /\ lseq[CellOf(r)] = r + 1
  <2>1. lseq[CellOf(lhead - 1)] = lhead
    BY <1>0 DEF TicketCells
  <2> QED
    BY <2>1, <1>0, <1>1 DEF TicketCells, LogTypeOK, Output
<1>3. /\ lseq'[CellOf(r)] = r + RingSize
      /\ \A c \in RingCells : c # CellOf(r) => lseq'[c] = lseq[c]
  BY <1>1, <1>2, LogCells
<1>4. LogTypeOK'
  BY <1>a, <1>1, LogCells DEF LogTypeOK, ThreadPcs
<1>5. /\ Released' = r + 1 /\ Carrying /\ Carrying'
  BY <1>0, <1>1 DEF Released, Carrying
<1>6. LoopAlive' /\ HasCells'
  BY <1>0, <1>1 DEF LoopAlive, HasCells
<1>7. Output'
  BY <1>0, <1>1, <1>5 DEF Output
<1>b. \A q \in Nat : r < q /\ q < r + RingSize => lseq'[CellOf(q)] = lseq[CellOf(q)]
  <2> SUFFICES ASSUME NEW q \in Nat, r < q, q < r + RingSize
               PROVE  lseq'[CellOf(q)] = lseq[CellOf(q)]
    OBVIOUS
  <2>1. CellOf(q) # CellOf(r) /\ CellOf(q) \in RingCells
    BY LogCells, LogCellDistinct
  <2> QED
    BY <2>1, <1>3
<1>8. TicketCells'
  <2>1. ltail <= (r + 1) + RingSize
    BY <1>2, RingSizeAssumption
  <2>2. \A q \in Nat : q < r + 1 => lseq'[CellOf(q)] > q
    <3> SUFFICES ASSUME NEW q \in Nat, q <= r PROVE lseq'[CellOf(q)] > q
      OBVIOUS
    <3>1. CASE CellOf(q) = CellOf(r)
      BY <3>1, <1>3, RingSizeAssumption
    <3>2. CASE CellOf(q) # CellOf(r)
      <4>1. q < r
        BY <3>2
      <4> QED
        BY <4>1, <3>2, <1>0, <1>3, LogCells DEF TicketCells
    <3> QED
      BY <3>1, <3>2
  <2>3. \A q \in Nat : r + 1 <= q /\ q < ltail =>
          \/ lseq'[CellOf(q)] = q
          \/ lseq'[CellOf(q)] = q + 1 /\ lmsg[CellOf(q)] = tickets[q + 1]
    <3> SUFFICES ASSUME NEW q \in Nat, r + 1 <= q, q < ltail
                 PROVE  \/ lseq'[CellOf(q)] = q
                        \/ lseq'[CellOf(q)] = q + 1 /\ lmsg[CellOf(q)] = tickets[q + 1]
      OBVIOUS
    <3>1. r < q /\ q < r + RingSize
      BY <1>2, RingSizeAssumption
    <3> QED
      BY <3>1, <1>0, <1>b DEF TicketCells
  <2>4. \A q \in Nat : ltail <= q /\ q < (r + 1) + RingSize => lseq'[CellOf(q)] = q
    <3> SUFFICES ASSUME NEW q \in Nat, ltail <= q, q < (r + 1) + RingSize
                 PROVE  lseq'[CellOf(q)] = q
      OBVIOUS
    <3>1. CASE q = r + RingSize
      BY <3>1, <1>3, LogCells
    <3>2. CASE q # r + RingSize
      <4>1. r < q /\ q < r + RingSize
        BY <3>2, <1>2, RingSizeAssumption
      <4> QED
        BY <4>1, <1>0, <1>b DEF TicketCells
    <3> QED
      BY <3>1, <3>2
  <2> QED
    BY <2>1, <2>2, <2>3, <2>4, <1>1, <1>5 DEF TicketCells
<1>9. \A u \in Writers : RoomSeen(u)' /\ HasTicket(u)'
  <2> SUFFICES ASSUME NEW u \in Writers PROVE RoomSeen(u)' /\ HasTicket(u)'
    OBVIOUS
  <2>1. RoomSeen(u)'
    <3>1. ltail < r + RingSize => ltail < (r + 1) + RingSize
      BY <1>2, RingSizeAssumption
    <3> QED
      BY <3>1, <1>0, <1>1, <1>5 DEF WriterInv, RoomSeen
  <2>2. HasTicket(u)'
    <3> SUFFICES ASSUME Writing(u) PROVE HasTicket(u)'
      BY <1>1 DEF HasTicket, Writing
    <3>1. wpos[u] \in Nat /\ r + 1 <= wpos[u] /\ wpos[u] < ltail
      BY <1>0, <1>1 DEF WriterInv, HasTicket, LogTypeOK
    <3>2. r < wpos[u] /\ wpos[u] < r + RingSize
      BY <3>1, <1>2, RingSizeAssumption
    <3>3. lseq'[CellOf(wpos[u])] = lseq[CellOf(wpos[u])]
      BY <3>1, <3>2, <1>b
    <3> QED
      BY <3>3, <1>0, <1>1 DEF WriterInv, HasTicket, Writing, Message
  <2> QED
    BY <2>1, <2>2
<1>10. WriterInv'
  BY <1>1, <1>9, WritersKeep DEF writer
<1> QED
  BY <1>4, <1>6, <1>7, <1>8, <1>10

\* It prints what it copied: the next message in the order of the tickets.
LEMMA PrintStep == LogInv /\ PrintBuffer => LogInv'
<1> SUFFICES ASSUME LogInv, PrintBuffer PROVE LogInv'
  OBVIOUS
<1> USE DEF LogInv
<1> PICK n \in Nat : n = Len(printed)
  BY DEF LogTypeOK
<1>1. /\ thread = "print" /\ thread' = "check" /\ printed' = Append(printed, buffer)
      /\ UNCHANGED <<life, running, lhead, ltail, lseq, lmsg, wpc, wpos, calls, buffer,
                     tickets>>
  BY DEF PrintBuffer, ThreadAt, writer, ring
<1>2. /\ HasCells /\ Carrying /\ ~Carrying' /\ Released' = Released
      /\ lhead \in Nat /\ n = lhead - 1 /\ lhead >= 1 /\ lhead = n + 1
      /\ buffer = tickets[n + 1]
  <2>1. HasCells /\ Carrying /\ ~Carrying' /\ Released' = Released
    BY <1>1 DEF LoopAlive, Carrying, Released
  <2>2. lhead \in Nat /\ n = lhead - 1 /\ lhead >= 1 /\ buffer = tickets[lhead]
    BY <2>1, <1>1 DEF LogTypeOK, Output
  <2>3. lhead = n + 1
    BY <2>2
  <2> QED
    BY <2>1, <2>2, <2>3
<1>3. /\ Append(printed, buffer) \in Seq(Messages \cup {Blank})
      /\ Len(Append(printed, buffer)) = Len(printed) + 1
      /\ \A k \in 1 .. Len(printed) : Append(printed, buffer)[k] = printed[k]
      /\ Append(printed, buffer)[Len(printed) + 1] = buffer
  <2>1. printed \in Seq(Messages \cup {Blank}) /\ buffer \in Messages \cup {Blank}
    BY DEF LogTypeOK
  <2> QED
    BY <2>1, AppendProperties
<1>4. LogTypeOK'
  BY <1>1, <1>3 DEF LogTypeOK, ThreadPcs
<1>5. /\ Len(printed') = n + 1 /\ printed'[n + 1] = buffer
      /\ \A k \in 1 .. n : printed'[k] = printed[k]
  BY <1>1, <1>3
<1>6. LoopAlive' /\ HasCells'
  BY <1>1, <1>2 DEF LoopAlive, HasCells
<1>7. Output'
  <2>1. \A k \in 1 .. n + 1 : printed'[k] = tickets[k]
    <3>1. \A k \in 1 .. n + 1 : k = n + 1 \/ k \in 1 .. n
      OBVIOUS
    <3> QED
      BY <3>1, <1>2, <1>5 DEF Output
  <2> QED
    BY <2>1, <1>1, <1>2, <1>5 DEF Output
<1>8. TicketCells'
  BY <1>1, <1>2 DEF TicketCells
<1>9. WriterInv'
  BY <1>1, <1>2, WritersKeep DEF writer, WriterInv, RoomSeen, HasTicket
<1> QED
  BY <1>4, <1>6, <1>7, <1>8, <1>9

-----------------------------------------------------------------------------
\* Every step of the host, of a writer and of the logger thread keeps the invariant.
LEMMA LogInvStep == LogInv /\ [LogNext]_logVars => LogInv'
<1> SUFFICES ASSUME LogInv, [LogNext]_logVars PROVE LogInv'
  OBVIOUS
<1>1. CASE LogHost
  BY <1>1, LogHostSteps
<1>2. ASSUME NEW w \in Writers, LogWrite(w) \/ LogBelowInfo(w) \/ LogStep(w) PROVE LogInv'
  BY <1>2, LookSteps, TicketStep, CopyStep, PublishStep DEF LogStep
<1>3. CASE LoggerLoop
  BY <1>3, IdleSteps, TakeStep, CopyOutStep, GiveBackStep, PrintStep DEF LoggerLoop
<1>4. CASE UNCHANGED logVars
  <2> USE <1>4 DEF logVars, LogInv
  <2>1. LogTypeOK' /\ LoopAlive' /\ Output' /\ (HasCells' <=> HasCells)
    BY DEF LogTypeOK, LoopAlive, Output, HasCells, Carrying, Writing
  <2>2. (HasCells => TicketCells') /\ WriterInv'
    BY <2>1 DEF TicketCells, Released, WriterInv, RoomSeen, HasTicket, Writing, Message
  <2> QED
    BY <2>1, <2>2
<1> QED
  BY <1>1, <1>2, <1>3, <1>4 DEF LogNext

\* The invariant holds at every moment.
LEMMA LogInvHolds == LogSpec => []LogInv
BY LogInvInit, LogInvStep, PTL DEF LogSpec

\* For any number of writers and messages and any ring of two cells or more, what the
\* logger thread has printed is a prefix of the messages in the order of their tickets
\* (logger.c:145, 179): none twice, none torn, none out of order.
THEOREM PrintedInOrderHolds == LogSpec => []PrintedInOrder
<1>1. LogInv => PrintedInOrder
  <2> SUFFICES ASSUME LogInv PROVE PrintedInOrder
    OBVIOUS
  <2> PICK n \in Nat : n = Len(printed)
    BY DEF LogInv, LogTypeOK
  <2> DEFINE t == SubSeq(tickets, 1, n)
  <2>1. /\ tickets \in Seq(Messages \cup {Blank}) /\ printed \in Seq(Messages \cup {Blank})
        /\ Len(tickets) \in Nat
    BY DEF LogInv, LogTypeOK
  <2>2. n <= Len(tickets)
    BY DEF LogInv, LogTypeOK, Output
  <2>3. t \in Seq(Messages \cup {Blank}) /\ Len(t) = n /\ \A k \in 1 .. n : t[k] = tickets[k]
    BY <2>1, <2>2
  <2>4. \A k \in 1 .. n : printed[k] = t[k]
    BY <2>3 DEF LogInv, Output
  <2> HIDE DEF t
  <2>5. printed = t
    BY <2>1, <2>3, <2>4, SeqEqual
  <2> QED
    BY <2>2, <2>5 DEF PrintedInOrder, t
<1> QED
  BY <1>1, LogInvHolds, PTL

\* The logger thread never touches a ring that was freed or not allocated: shutdown joins
\* it first (logger.c:115, 117).
THEOREM ThreadInRingHolds == LogSpec => []ThreadInRing
<1>1. LogInv => ThreadInRing
  BY DEF LogInv, LoopAlive, ThreadInRing
<1> QED
  BY <1>1, LogInvHolds, PTL

\* log_ring_push answers -1 (logger.c:147) only when every cell belongs to a ticket that
\* the logger thread has not given back, however stale the position it compared with.
THEOREM DropOnlyFullHolds == LogSpec => DropOnlyFull
<1>1. LogInv /\ [LogNext]_logVars =>
        [\A w \in Writers :
           wpc[w] = "seq" /\ wpc'[w] = "idle" => ltail - Released >= RingSize]_logVars
  <2> SUFFICES ASSUME LogInv, LogNext, NEW w \in Writers, wpc[w] = "seq", wpc'[w] = "idle"
               PROVE  ltail - Released >= RingSize
    OBVIOUS
  <2>0. wpc \in [Writers -> WriterPcs]
    BY DEF LogInv, LogTypeOK
  <2>1. LogSeqFull(w)
    <3>1. ~(LogHost \/ LoggerLoop)
      BY DEF LogHost, LoggerLoop, InitNoMemory, InitLogger, ShutdownFlag, ShutdownJoin,
             LoopTest, PopNothing, PopTake, PopCopy, PopGiveBack, PrintBuffer, writer
    <3>2. ASSUME NEW u \in Writers, LogWrite(u) \/ LogBelowInfo(u) \/ LogStep(u)
          PROVE  LogSeqFull(w)
      BY <3>2, <2>0 DEF LogWrite, LogBelowInfo, LogStep, LogLoadTail, LogSeqFree, LogSeqFull,
             LogSeqRetry, LogCasOk, LogCasFail, LogCopy, LogPublish, LogNoCells, WriterAt
    <3> QED
      BY <3>1, <3>2 DEF LogNext
  <2>2. /\ HasCells /\ lseq[CellOf(wpos[w])] < wpos[w] /\ wpos[w] \in Nat /\ ltail \in Nat
        /\ wpos[w] <= ltail /\ Released \in Nat /\ ltail <= Released + RingSize
    BY <2>1, ReleasedFacts DEF LogSeqFull, SeqOf, LogInv, LogTypeOK, WriterInv, TicketCells
  <2>3. CellOf(wpos[w]) \in RingCells /\ lseq[CellOf(wpos[w])] \in Nat
    BY <2>2, LogCells DEF LogInv, LogTypeOK
  <2>4. ~(wpos[w] < Released)
    BY <2>2, <2>3 DEF LogInv, TicketCells
  <2>5. ~(wpos[w] < ltail)
    BY <2>2, <2>3, <2>4 DEF LogInv, TicketCells
  <2>6. ~(ltail < Released + RingSize)
    BY <2>2, <2>3, <2>4, <2>5 DEF LogInv, TicketCells
  <2> QED
    BY <2>2, <2>6, RingSizeAssumption
<1> QED
  BY <1>1, LogInvHolds, PTL DEF LogSpec, DropOnlyFull

=============================================================================
