-------------------------- MODULE ProcessingProofs --------------------------
(***************************************************************************)
(* Proofs about the parts of Processing, one section each: the arena, the  *)
(* engine, remote execution, the io_uring engine and fused pipelines.      *)
(* They hold for every word size, number of workers and of processors,     *)
(* pipeline, image, thread, client and sequence of calls.  The last        *)
(* section shows that a behaviour of Processing is a behaviour of each     *)
(* part, so that they hold there too.                                      *)
(***************************************************************************)
EXTENDS Processing, RingArith, FiniteSetTheorems, SequenceTheorems

-----------------------------------------------------------------------------
(* The arena.  ArenaSound alone is not inductive: that a plain block       *)
(* starts on a line rests on where the offset stands, which ArenaInv adds. *)

\* A sum of multiples of N is one: a remainder of zero is kept by adding lines.
LEMMA MultipleHasNoRest ==
  ASSUME NEW N \in Nat \ {0}, NEW d \in Nat, NEW k \in Nat, d = N * k
  PROVE  d % N = 0
<1> DEFINE a == d \div N
           r == d % N
           m == k - a
<1>1. a \in Nat /\ d = N * a + r /\ r \in 0 .. N - 1
  BY DivisionIdentity, ModInRange
<1> HIDE DEF a, r
<1>2. m \in Int /\ r = N * m
  BY <1>1
<1>3. ~(0 < r)
  <2> HIDE DEF m
  <2> QED
    BY <1>1, <1>2, NoMultipleBelow
<1> QED
  BY <1>1, <1>3 DEF r

\* Rounding down takes less than the unit and leaves a multiple of it.
LEMMA RoundDownFacts ==
  ASSUME NEW a \in Nat \ {0}, NEW x \in Nat
  PROVE  /\ RoundDown(x, a) \in Nat
         /\ RoundDown(x, a) <= x /\ x < RoundDown(x, a) + a
         /\ RoundDown(x, a) % a = 0
<1> DEFINE q == x \div a
           r == x % a
           d == RoundDown(x, a)
<1>1. q \in Nat /\ x = a * q + r /\ r \in 0 .. a - 1
  BY DivisionIdentity, ModInRange
<1>2. d = x - r
  BY DEF RoundDown
<1> HIDE DEF q, r, d
<1>3. a * q \in Nat /\ d = a * q
  BY <1>1, <1>2
<1>4. d % a = 0
  BY <1>1, <1>3, MultipleHasNoRest
<1> QED
  BY <1>1, <1>2, <1>3, <1>4 DEF d

\* Two lengths in whole lines add up to whole lines.
LEMMA LinesAdd ==
  ASSUME NEW N \in Nat \ {0}, NEW x \in Nat, NEW y \in Nat, x % N = 0, y % N = 0
  PROVE  (x + y) % N = 0
<1> DEFINE j == x \div N
           k == y \div N
<1>1. j \in Nat /\ x = N * j
  BY DivisionIdentity
<1>2. k \in Nat /\ y = N * k
  BY DivisionIdentity
<1> HIDE DEF j, k
<1>3. x + y \in Nat /\ j + k \in Nat /\ x + y = N * (j + k)
  BY <1>1, <1>2
<1> QED
  BY <1>3, MultipleHasNoRest

-----------------------------------------------------------------------------
\* No aligned block left the offset off a line.
OnLines == \A b \in given : b.how = "aligned" => (b.at + b.size) % Line = 0

\* ArenaSound, and where the offset stands.
ArenaInv ==
  /\ ArenaTypeOK
  /\ ArenaSound
  /\ Modest => (OnLines => arena.offset % Line = 0)

\* A size_t sum is a size_t, and exact below Word.
LEMMA WrapFacts ==
  ASSUME NEW x \in Nat
  PROVE  Wrap(x) \in 0 .. Word - 1 /\ (x < Word => Wrap(x) = x)
BY WordAssumption, ModInRange, FirstLap DEF Wrap

\* align64 returns a size_t; while it does not wrap, the next multiple of a line.
LEMMA AlignFacts ==
  ASSUME NEW n \in Requests
  PROVE  /\ Align64(n) \in 0 .. Word - 1
         /\ n + Line <= Word =>
              Align64(n) >= n /\ Align64(n) < n + Line /\ Align64(n) % Line = 0
<1> DEFINE x == n + Line - 1
           w == Wrap(x)
<1>1. x \in Nat /\ n \in Nat /\ Line \in Nat \ {0} /\ Word \in Nat
  BY WordAssumption DEF Requests
<1>2. w \in 0 .. Word - 1 /\ (x < Word => w = x)
  <2> HIDE DEF x
  <2> QED
    BY <1>1, WrapFacts
<1>3. Align64(n) = RoundDown(w, Line)
  BY DEF Align64
<1> HIDE DEF w
<1>4. /\ RoundDown(w, Line) \in Nat /\ RoundDown(w, Line) <= w
      /\ w < RoundDown(w, Line) + Line /\ RoundDown(w, Line) % Line = 0
  BY <1>1, <1>2, RoundDownFacts
<1> QED
  BY <1>1, <1>2, <1>3, <1>4

\* A block at or behind the offset, of the size asked for and inside what the
\* offset moves over, keeps the invariant.
LEMMA GiveKeeps ==
  ASSUME ArenaInv, NEW how \in {"plain", "aligned"}, NEW at \in 0 .. Word - 1,
         NEW n \in Requests, NEW end \in 0 .. Word - 1,
         Give(how, at, n, end),
         Modest' => /\ arena.offset <= at /\ at + n <= end /\ end <= arena.size
                    /\ how = "plain" => at = arena.offset /\ (end - at) % Line = 0
                    /\ how = "aligned" => end = at + n
  PROVE  ArenaInv'
<1> DEFINE new == [how |-> how, at |-> at, size |-> n]
<1>1. /\ arena.size' = arena.size /\ arena.live' = arena.live /\ arena.offset' = end
      /\ given' = given \cup {new} /\ biggest' = LargerOf(biggest, n)
  BY DEF Give, ArenaInv, ArenaTypeOK
<1>2. ArenaTypeOK'
  <2>1. arena' \in [live : BOOLEAN, size : 0 .. Word - 1, offset : 0 .. Word - 1]
    BY DEF Give, ArenaInv, ArenaTypeOK
  <2>2. \A b \in given' : b.at \in 0 .. Word - 1 /\ b.size \in Requests
    BY <1>1 DEF ArenaInv, ArenaTypeOK
  <2>3. biggest' \in Requests
    BY <1>1 DEF LargerOf, ArenaInv, ArenaTypeOK
  <2> QED
    BY <2>1, <2>2, <2>3 DEF ArenaTypeOK
<1> SUFFICES ASSUME Modest' PROVE ArenaSound' /\ (OnLines' => arena.offset' % Line = 0)
  BY <1>2 DEF ArenaInv, ArenaSound
<1>3. Modest
  BY <1>1, WordAssumption DEF Modest, LargerOf, ArenaInv, ArenaTypeOK, Requests
<1>4. /\ arena.offset <= at /\ at + n <= end /\ end <= arena.size
      /\ how = "plain" => at = arena.offset /\ (end - at) % Line = 0
      /\ how = "aligned" => end = at + n
  OBVIOUS
<1>5. /\ arena.offset \in Nat /\ at \in Nat /\ n \in Nat /\ end \in Nat
      /\ \A b \in given : b.at \in Nat /\ b.size \in Nat
  BY WordAssumption DEF ArenaInv, ArenaTypeOK, Requests
<1>6. \A b \in given' : b.at + b.size <= arena.offset'
  BY <1>1, <1>3, <1>4, <1>5 DEF ArenaInv, ArenaSound
<1>7. arena.offset' <= arena.size'
  BY <1>1, <1>4
<1>8. \A b, c \in given' : b = c \/ b.at + b.size <= c.at \/ c.at + c.size <= b.at
  <2>1. \A b \in given : b.at + b.size <= new.at
    BY <1>3, <1>4, <1>5 DEF ArenaInv, ArenaSound
  <2> QED
    BY <1>1, <1>3, <2>1 DEF ArenaInv, ArenaSound
<1>9. OnLines' => /\ arena.offset' % Line = 0
                  /\ \A b \in given' : b.how = "plain" => b.at % Line = 0
  <2> SUFFICES ASSUME OnLines'
               PROVE  /\ end % Line = 0
                      /\ \A b \in given' : b.how = "plain" => b.at % Line = 0
    BY <1>1
  <2>1. OnLines
    BY <1>1 DEF OnLines
  <2>2. arena.offset % Line = 0 /\ \A b \in given : b.how = "plain" => b.at % Line = 0
    BY <1>3, <2>1 DEF ArenaInv, ArenaSound, OnLines
  <2>3. how = "plain" => end % Line = 0 /\ at % Line = 0
    <3> SUFFICES ASSUME how = "plain" PROVE end % Line = 0
      BY <1>4, <2>2
    <3> DEFINE d == end - at
    <3>1. d \in Nat /\ d % Line = 0 /\ at % Line = 0 /\ end = at + d
      BY <1>4, <1>5, <2>2
    <3> HIDE DEF d
    <3>2. Line \in Nat \ {0}
      BY WordAssumption
    <3>3. (at + d) % Line = 0
      BY <3>1, <3>2, <1>5, LinesAdd
    <3> QED
      BY <3>1, <3>3
  <2>4. how = "aligned" => end % Line = 0
    <3>1. \A b \in given' : b.how = "aligned" => (b.at + b.size) % Line = 0
      BY DEF OnLines
    <3>2. new \in given' /\ new.how = how /\ new.at = at /\ new.size = n
      BY <1>1
    <3>3. how = "aligned" => (at + n) % Line = 0
      <4> HIDE DEF new
      <4> QED
        BY <3>1, <3>2
    <3> QED
      BY <3>3, <1>4
  <2> QED
    BY <1>1, <2>2, <2>3, <2>4
<1> QED
  BY <1>6, <1>7, <1>8, <1>9 DEF ArenaSound, OnLines

\* A refused request changes nothing but the record of what was asked for.
LEMMA RefuseKeeps ==
  ASSUME ArenaInv, NEW n \in Requests, Refuse(n)
  PROVE  ArenaInv'
<1>1. Modest' => Modest
  BY WordAssumption DEF Refuse, Modest, LargerOf, ArenaInv, ArenaTypeOK, Requests
<1>2. ArenaTypeOK'
  BY DEF Refuse, LargerOf, ArenaInv, ArenaTypeOK
<1> QED
  BY <1>1, <1>2 DEF Refuse, ArenaInv, ArenaSound, OnLines

\* A block handed out under a request that cannot wrap.
LEMMA PlainKeeps ==
  ASSUME ArenaInv, NEW n \in Requests, ArenaAlloc(n)
  PROVE  ArenaInv'
<1> DEFINE size == Align64(n)
           end == Wrap(arena.offset + size)
<1>1. /\ arena.offset \in 0 .. Word - 1 /\ arena.size \in 0 .. Word - 1
      /\ n \in 0 .. Word - 1 /\ biggest \in 0 .. Word - 1 /\ Word \in Nat
      /\ Line \in Nat \ {0}
  BY WordAssumption DEF ArenaInv, ArenaTypeOK, Requests
<1>2. /\ size \in 0 .. Word - 1
      /\ n + Line <= Word => size >= n /\ size < n + Line /\ size % Line = 0
  BY AlignFacts
<1> HIDE DEF size
<1>3. end \in 0 .. Word - 1 /\ (arena.offset + size < Word => end = arena.offset + size)
  <2>1. arena.offset + size \in Nat
    BY <1>1, <1>2
  <2> QED
    BY <2>1, WrapFacts
<1> HIDE DEF end
<1>4. CASE end > arena.size
  <2>1. Refuse(n)
    BY <1>4 DEF ArenaAlloc, end, size
  <2> QED
    BY <2>1, RefuseKeeps
<1>5. CASE ~(end > arena.size)
  <2>1. Give("plain", arena.offset, n, end)
    BY <1>5 DEF ArenaAlloc, end, size
  <2>2. ASSUME Modest'
        PROVE  /\ arena.offset + n <= end /\ end <= arena.size
               /\ (end - arena.offset) % Line = 0
    <3>1. arena.size' = arena.size /\ biggest' = LargerOf(biggest, n)
      BY <2>1 DEF Give, ArenaInv, ArenaTypeOK
    <3>2. arena.size + n + Line <= Word /\ Modest
      BY <2>2, <3>1, <1>1 DEF Modest, LargerOf
    <3>3. arena.offset <= arena.size
      BY <3>2 DEF ArenaInv, ArenaSound
    <3>4. n + Line <= Word
      BY <3>2, <1>1
    <3>5. end = arena.offset + size
      BY <3>2, <3>3, <3>4, <1>1, <1>2, <1>3
    <3>6. end - arena.offset = size
      BY <3>5, <1>1, <1>2
    <3> QED
      BY <3>4, <3>5, <3>6, <1>1, <1>2, <1>5
  <2> QED
    BY <2>1, <2>2, <1>1, <1>3, GiveKeeps
<1> QED
  BY <1>4, <1>5

\* The same for the aligned way, whose size is not rounded.
LEMMA AlignedKeeps ==
  ASSUME ArenaInv, NEW n \in Requests, NEW a \in Aligns, ArenaAllocAligned(n, a)
  PROVE  ArenaInv'
<1> DEFINE w == Wrap(arena.offset + a - 1)
           start == RoundDown(w, a)
           end == Wrap(start + n)
<1>1. /\ arena.offset \in 0 .. Word - 1 /\ arena.size \in 0 .. Word - 1
      /\ n \in 0 .. Word - 1 /\ biggest \in 0 .. Word - 1 /\ Word \in Nat
      /\ Line \in Nat \ {0} /\ a \in Nat \ {0} /\ a <= Line
  BY WordAssumption, CapacityAssumption DEF ArenaInv, ArenaTypeOK, Requests
<1>2. w \in 0 .. Word - 1 /\ (arena.offset + a - 1 < Word => w = arena.offset + a - 1)
  <2>1. arena.offset + a - 1 \in Nat
    BY <1>1
  <2> QED
    BY <2>1, WrapFacts
<1> HIDE DEF w
<1>3. start \in Nat /\ start <= w /\ w < start + a
  <2>1. w \in Nat /\ a \in Nat \ {0}
    BY <1>1, <1>2
  <2>2. /\ RoundDown(w, a) \in Nat /\ RoundDown(w, a) <= w
        /\ w < RoundDown(w, a) + a
    BY <2>1, RoundDownFacts
  <2> QED
    BY <2>2
<1> HIDE DEF start
<1>4. end \in 0 .. Word - 1 /\ (start + n < Word => end = start + n)
  <2>1. start + n \in Nat
    BY <1>1, <1>3
  <2> QED
    BY <2>1, WrapFacts
<1> HIDE DEF end
<1>5. CASE end > arena.size
  <2>1. Refuse(n)
    BY <1>5 DEF ArenaAllocAligned, end, start, w
  <2> QED
    BY <2>1, RefuseKeeps
<1>6. CASE ~(end > arena.size)
  <2>1. Give("aligned", start, n, end)
    BY <1>6 DEF ArenaAllocAligned, end, start, w
  <2>2. ASSUME Modest'
        PROVE  arena.offset <= start /\ end = start + n /\ end <= arena.size
    <3>1. arena.size' = arena.size /\ biggest' = LargerOf(biggest, n)
      BY <2>1 DEF Give, ArenaInv, ArenaTypeOK
    <3>2. arena.size + n + Line <= Word /\ Modest
      BY <2>2, <3>1, <1>1 DEF Modest, LargerOf
    <3>3. arena.offset <= arena.size
      BY <3>2 DEF ArenaInv, ArenaSound
    <3>4. w = arena.offset + a - 1
      BY <3>2, <3>3, <1>1, <1>2
    <3>5. arena.offset <= start /\ start < arena.offset + a
      BY <3>4, <1>1, <1>3
    <3>6. end = start + n
      BY <3>2, <3>3, <3>5, <1>1, <1>3, <1>4
    <3> QED
      BY <3>5, <3>6, <1>1, <1>3, <1>6
  <2>3. start \in 0 .. Word - 1
    BY <1>1, <1>2, <1>3
  <2>4. Modest' => start + n <= end
    BY <2>2, <1>1, <1>3
  <2> QED
    BY <2>1, <2>2, <2>3, <2>4, <1>1, <1>4, GiveKeeps
<1> QED
  BY <1>5, <1>6

-----------------------------------------------------------------------------
\* Initially, and after create, reset and destroy, nothing is given.
LEMMA EmptyInv ==
  ASSUME arena \in [live : BOOLEAN, size : 0 .. Word - 1, offset : 0 .. Word - 1],
         arena.offset = 0, given = {}, biggest = 0
  PROVE  ArenaInv
<1>1. arena.size \in 0 .. Word - 1 /\ 0 \in Requests
  BY WordAssumption DEF Requests
<1>2. 0 % Line = 0
  BY WordAssumption, FirstLap
<1> QED
  BY <1>1, <1>2 DEF ArenaInv, ArenaTypeOK, ArenaSound

\* Nothing is given when img_arena_create has not been called.
LEMMA ArenaInvInit == ArenaInit => ArenaInv
<1> SUFFICES ASSUME ArenaInit PROVE ArenaInv
  OBVIOUS
<1> QED
  BY EmptyInv, WordAssumption DEF ArenaInit, NoArena

\* Every operation on an arena keeps ArenaInv, requests near SIZE_MAX included.
LEMMA ArenaInvStep == ArenaInv /\ [ArenaNext]_arenaVars => ArenaInv'
<1> SUFFICES ASSUME ArenaInv, [ArenaNext]_arenaVars PROVE ArenaInv'
  OBVIOUS
<1> DEFINE Cleared ==
       /\ arena' \in [live : BOOLEAN, size : 0 .. Word - 1, offset : 0 .. Word - 1]
       /\ arena'.offset = 0 /\ given' = {} /\ biggest' = 0
<1>0. ASSUME Cleared PROVE ArenaInv'
  <2>1. arena'.size \in 0 .. Word - 1 /\ 0 \in Requests
    BY <1>0, WordAssumption DEF Requests
  <2>2. 0 % Line = 0
    BY WordAssumption, FirstLap
  <2> QED
    BY <1>0, <2>1, <2>2 DEF ArenaInv, ArenaTypeOK, ArenaSound
<1>1. ASSUME NEW n \in Capacities, ArenaCreate(n) PROVE ArenaInv'
  <2>1. n \in Requests
    BY CapacityAssumption DEF Requests
  <2>2. Align64(n) \in 0 .. Word - 1
    BY <2>1, AlignFacts
  <2> QED
    BY <1>0, <1>1, <2>2, WordAssumption DEF ArenaCreate
<1>2. ASSUME NEW n \in Requests, ArenaAlloc(n) PROVE ArenaInv'
  BY <1>2, PlainKeeps
<1>3. ASSUME NEW n \in Requests, NEW a \in Aligns, ArenaAllocAligned(n, a) PROVE ArenaInv'
  BY <1>3, AlignedKeeps
<1>4. CASE ArenaReset
  BY <1>0, <1>4, WordAssumption DEF ArenaReset, ArenaInv, ArenaTypeOK
<1>5. CASE ArenaDestroy
  BY <1>0, <1>5, WordAssumption DEF ArenaDestroy, NoArena
<1>6. CASE UNCHANGED arenaVars
  BY <1>6 DEF arenaVars, ArenaInv, ArenaTypeOK, ArenaSound, Modest, OnLines
<1> QED
  BY <1>1, <1>2, <1>3, <1>4, <1>5, <1>6 DEF ArenaNext

\* ArenaSound for every size_t, capacity, alignment and sequence of requests: as long as
\* none is near SIZE_MAX, blocks of one arena (arena.c:33-63) are inside it and apart.
THEOREM ArenaSafe == ArenaSpec => []ArenaSound
<1>1. ArenaInit => ArenaInv
  BY ArenaInvInit
<1>2. ArenaInv /\ [ArenaNext]_arenaVars => ArenaInv'
  BY ArenaInvStep
<1>3. ArenaInv => ArenaSound
  BY DEF ArenaInv
<1> QED
  BY <1>1, <1>2, <1>3, PTL DEF ArenaSpec

-----------------------------------------------------------------------------
(* The engine.  That the pool outlives the threads rests on how far the    *)
(* host is in start or shutdown, which EngineInv says.                     *)

\* What an entry of a dispatch table may be.
Kernels == [isa : {"none", "scalar", "avx2", "avx512"},
            from : {"null", "table", "arch", "plugin", "fused"}]

\* Where the host thread may be, and the records of the engine and its workers.
HostAts == {"new", "failed", "workers", "up", "kernels", "plugins", "io", "stop", "join", "down"}

Hosts == [at : HostAts, i : Nat, core : CoreIds \cup {AnyCore}]
Engines == [count : Nat, pool : {"none", "ready", "destroyed"}]
WorkerFlags == [running : BOOLEAN, ring : BOOLEAN, handle : BOOLEAN]

\* The types of the variables that the theorems depend on.
EngineTypes ==
  /\ caps \in CapSets
  /\ host \in Hosts /\ engine \in Engines
  /\ worker \in [WorkerIds -> WorkerFlags]
  /\ thread \in [WorkerIds -> CoreIds \cup {AnyCore, NoThread, Exited}]

\* Every kernel of table t can run on this processor.
TablesFit(t) == t \in [Opcodes -> Kernels] /\ \A op \in Opcodes : Fits(t[op], caps)

\* Where threads may be alive as the host goes through start and shutdown.
Lifecycle ==
  /\ host.at \in {"new", "failed"} => host.i = 0 /\ \A w \in WorkerIds : thread[w] = NoThread
  /\ host.at = "workers" =>
       /\ host.i <= engine.count
       /\ \A w \in WorkerIds : w >= host.i => thread[w] = NoThread
  /\ host.at \in {"up", "kernels", "plugins", "io", "stop", "join", "down"} =>
       \A w \in WorkerIds : w >= engine.count => thread[w] = NoThread
  /\ host.at \in {"stop", "join"} =>
       /\ host.i <= engine.count
       /\ \A w \in WorkerIds : w < host.i => ~Alive(w)
  /\ host.at = "join" => host.i < engine.count
  /\ host.at = "down" => \A w \in WorkerIds : ~Alive(w)
  /\ engine.pool = "destroyed" => host.at = "down"

\* The inductive invariant of the engine.
EngineInv ==
  /\ EngineTypes
  /\ TablesFit(table) /\ TablesFit(batch)
  /\ Lifecycle
  /\ WorkersApart

\* A kernel fits when the processor has its instruction set; the best level that
\* jump_table.c:39 picks is one the processor has.
LEMMA KernelFacts ==
  ASSUME caps \in CapSets
  PROVE  /\ \A isa \in {"none", "scalar", "avx2", "avx512"},
               from \in {"null", "table", "arch", "plugin", "fused"} :
              /\ Kernel(isa, from) \in Kernels
              /\ Fits(Kernel(isa, from), caps) <=> isa \in caps \cup {"scalar", "none"}
         /\ Best(caps) \in {"scalar", "avx2", "avx512"} /\ Best(caps) \in caps \cup {"scalar"}
BY DEF Kernel, Kernels, Fits, Best, CapSets

\* img_register_op with a kernel that fits.
LEMMA SetEntry ==
  ASSUME NEW t, TablesFit(t), NEW op \in Opcodes, NEW k \in Kernels, Fits(k, caps)
  PROVE  TablesFit([t EXCEPT ![op] = k])
BY DEF TablesFit

\* The opcodes that a registration names are indices of the table.
LEMMA OpcodeFacts ==
  {OP_RESIZE, OP_GRAYSCALE, OP_RESIZE_H, OP_RESIZE_V} \subseteq Opcodes
BY DEF Opcodes

\* However the tables are filled, every kernel in them fits.
LEMMA FillFacts ==
  ASSUME caps \in CapSets
  PROVE  /\ TablesFit(EmptyTable) /\ TablesFit(JumpTable(caps)) /\ TablesFit(BatchTable(caps))
         /\ \A t : TablesFit(t) => /\ TablesFit(HwKernels(caps, t)) /\ TablesFit(FusedInit(caps, t))
                                   /\ TablesFit(LoadPlugins(t, "single"))
                                   /\ TablesFit(LoadPlugins(t, "batch"))
<1>0. /\ NoKernel \in Kernels /\ Fits(NoKernel, caps)
      /\ \A from \in {"table", "arch", "plugin", "fused"} :
           Kernel("scalar", from) \in Kernels /\ Fits(Kernel("scalar", from), caps)
  BY KernelFacts DEF NoKernel
<1>1. TablesFit(EmptyTable)
  BY <1>0 DEF EmptyTable, TablesFit
<1>2. TablesFit(JumpTable(caps))
  BY <1>1, KernelFacts, SetEntry, OpcodeFacts DEF JumpTable
<1>3. TablesFit(BatchTable(caps))
  <2>1. CASE Best(caps) = "avx2"
    BY <1>1, <2>1, KernelFacts, SetEntry, OpcodeFacts DEF BatchTable
  <2>2. CASE Best(caps) # "avx2"
    BY <1>0, <1>1, <2>2, SetEntry, OpcodeFacts DEF BatchTable
  <2> QED
    BY <2>1, <2>2
<1>4. ASSUME NEW t, TablesFit(t) PROVE TablesFit(HwKernels(caps, t))
  <2> DEFINE isa == IF caps = {} THEN "scalar" ELSE "avx2"
             k == Kernel(isa, "arch")
  <2>1. caps # {"neon"} /\ isa \in {"scalar", "avx2"} /\ isa \in caps \cup {"scalar", "none"}
    BY DEF CapSets
  <2>2. HwKernels(caps, t) =
          [[[t EXCEPT ![OP_RESIZE_H] = k] EXCEPT ![OP_RESIZE_V] = k] EXCEPT ![OP_GRAYSCALE] = k]
    BY <2>1 DEF HwKernels
  <2>3. k \in Kernels /\ Fits(k, caps)
    <3> HIDE DEF isa
    <3> QED
      BY <2>1, KernelFacts
  <2> HIDE DEF k
  <2>4. TablesFit([t EXCEPT ![OP_RESIZE_H] = k])
    BY <1>4, <2>3, SetEntry, OpcodeFacts
  <2>5. TablesFit([[t EXCEPT ![OP_RESIZE_H] = k] EXCEPT ![OP_RESIZE_V] = k])
    BY <2>3, <2>4, SetEntry, OpcodeFacts
  <2>6. TablesFit([[[t EXCEPT ![OP_RESIZE_H] = k] EXCEPT ![OP_RESIZE_V] = k]
                     EXCEPT ![OP_GRAYSCALE] = k])
    BY <2>3, <2>5, SetEntry, OpcodeFacts
  <2> QED
    BY <2>2, <2>6
<1>5. ASSUME NEW t, TablesFit(t) PROVE TablesFit(FusedInit(caps, t))
  BY <1>5, KernelFacts, SetEntry, OpcodeFacts DEF FusedInit
<1>6. ASSUME NEW t, TablesFit(t), NEW which \in {"single", "batch"}
      PROVE  TablesFit(LoadPlugins(t, which))
  <2>1. ASSUME NEW op \in Opcodes
        PROVE  LoadPlugins(t, which)[op] \in {t[op], Kernel("scalar", "plugin")}
    <3>1. LoadPlugins(t, which)[op] = IF Registering(op, which) = {} THEN t[op]
                                      ELSE Plugins[Max(Registering(op, which))][which]
      BY DEF LoadPlugins
    <3>2. CASE Registering(op, which) = {}
      BY <3>1, <3>2
    <3>3. CASE Registering(op, which) # {}
      <4>1. Len(Plugins) = 1 /\ 1 .. 1 = {1}
        BY DEF Plugins
      <4>2. Registering(op, which) = {1} /\ Plugins[1][which] # NoKernel
        BY <3>3, <4>1 DEF Registering
      <4>3. Max({1}) = 1
        BY DEF Max
      <4>4. Plugins[1].batch = NoKernel /\ Plugins[1].single = Kernel("scalar", "plugin")
        BY DEF Plugins
      <4>5. Plugins[1][which] = Kernel("scalar", "plugin")
        BY <4>2, <4>4
      <4> QED
        BY <3>1, <3>3, <4>2, <4>3, <4>5
    <3> QED
      BY <3>2, <3>3
  <2>2. LoadPlugins(t, which) = [op \in Opcodes |-> LoadPlugins(t, which)[op]]
    BY DEF LoadPlugins
  <2> QED
    BY <1>0, <1>6, <2>1, <2>2 DEF TablesFit
<1> QED
  BY <1>1, <1>2, <1>3, <1>4, <1>5, <1>6

\* Workers are numbered from 0.
LEMMA WorkerNumbers == WorkerIds \subseteq Nat
<1> SUFFICES ASSUME NEW w \in WorkerIds PROVE w \in Nat
  OBVIOUS
<1>1. PICK n \in WorkerCounts \cap 1 .. MaxWorkers : w \in 0 .. n - 1
  BY DEF WorkerIds
<1> QED
  BY <1>1, WorkerCountsAssumption

\* Before img_api_init nothing runs and both tables are empty.
LEMMA EngineInitInv == EngineInit => EngineInv
<1> SUFFICES ASSUME EngineInit PROVE EngineInv
  OBVIOUS
<1>0. caps \in CapSets
  BY DEF EngineInit
<1>1. TablesFit(table) /\ TablesFit(batch)
  BY <1>0, FillFacts DEF EngineInit
<1>2. host \in Hosts /\ engine \in Engines
  BY DEF EngineInit, Hosts, HostAts, Engines
<1>3. worker \in [WorkerIds -> WorkerFlags]
  BY DEF EngineInit, WorkerFlags
<1>4. thread \in [WorkerIds -> CoreIds \cup {AnyCore, NoThread, Exited}]
  BY DEF EngineInit
<1>5. Lifecycle
  BY DEF EngineInit, Lifecycle, Alive
<1>6. WorkersApart
  BY CoreIdsAssumption DEF EngineInit, WorkersApart, Alive, NoThread, AnyCore
<1> QED
  BY <1>0, <1>1, <1>2, <1>3, <1>4, <1>5, <1>6 DEF EngineInv, EngineTypes

\* Threads that are not on a processor are not alive.
LEMMA NotAlive ==
  \A x : x \in CoreIds \cup {AnyCore} => x # NoThread /\ x # Exited
BY CoreIdsAssumption DEF AnyCore, NoThread, Exited

\* Steps that leave the tables, or fill them with kernels that fit.
LEMMA TablesKeep ==
  ASSUME EngineInv, EngineNext
  PROVE  caps' = caps /\ TablesFit(table)' /\ TablesFit(batch)'
<1> USE DEF EngineInv, EngineTypes
<1>0. /\ caps' = caps
      /\ table' \in {table, JumpTable(caps), HwKernels(caps, JumpTable(caps)),
                     HwKernels(caps, table), LoadPlugins(table, "single")}
      /\ batch' \in {batch, BatchTable(caps), FusedInit(caps, batch), LoadPlugins(batch, "batch")}
  BY DEF EngineNext, InitRefused, InitTables, HostStep, InitWorker, InitWorkerNoRing, InitQueue,
         StartTables, StartKernels, StartPlugins, StartIo, ShutdownBegin, ShutdownStop,
         ShutdownJoin, ShutdownPool, Submit, CallStep, FastCall, FastDecode, FastValidate,
         FastCompile, FastExecute, StaysBut, WorkerExit
<1>1. TablesFit(table') /\ TablesFit(batch')
  <2>1. TablesFit(HwKernels(caps, JumpTable(caps))) /\ TablesFit(HwKernels(caps, table))
    BY FillFacts
  <2> QED
    BY <1>0, <2>1, FillFacts
<1> QED
  BY <1>0, <1>1 DEF TablesFit

\* What a step of a caller leaves to the host and the workers.
LEMMA ThreadsKeep ==
  ASSUME EngineInv, UNCHANGED <<host, engine, worker, thread>>
  PROVE  /\ host' \in Hosts /\ engine' \in Engines
         /\ worker' \in [WorkerIds -> WorkerFlags]
         /\ thread' \in [WorkerIds -> CoreIds \cup {AnyCore, NoThread, Exited}]
         /\ Lifecycle' /\ WorkersApart'
BY DEF EngineInv, EngineTypes, Lifecycle, WorkersApart, Alive

\* img_api_init up to its first worker, and its refusals.
LEMMA StartSteps ==
  ASSUME EngineInv, NEW n \in WorkerCounts, InitRefused(n) \/ InitTables(n)
  PROVE  /\ host' \in Hosts /\ engine' \in Engines
         /\ worker' \in [WorkerIds -> WorkerFlags]
         /\ thread' \in [WorkerIds -> CoreIds \cup {AnyCore, NoThread, Exited}]
         /\ Lifecycle' /\ WorkersApart'
<1> USE DEF EngineInv, EngineTypes, Sane
<1>1. host' \in Hosts /\ host'.i = host.i /\ host'.at \in {"failed", "workers"}
  BY DEF InitRefused, InitTables, Hosts, HostAts
<1>2. engine' \in Engines /\ engine'.pool # "destroyed" /\ 0 <= engine'.count
  BY WorkerCountsAssumption DEF InitRefused, InitTables, Engines, Lifecycle
<1>3. worker' = worker /\ thread' = thread
  BY DEF InitRefused, InitTables
<1>4. host.i = 0 /\ \A w \in WorkerIds : thread[w] = NoThread
  BY DEF InitRefused, InitTables, Lifecycle
<1>5. Lifecycle'
  BY <1>1, <1>2, <1>3, <1>4, NotAlive DEF Lifecycle, Alive
<1> QED
  BY <1>1, <1>2, <1>3, <1>5 DEF WorkersApart, Alive

\* img_worker_init: the host pins itself to the worker's processor, then creates the
\* thread, which inherits it; each way to fail leaves the worker without a thread.
LEMMA InitWorkerSteps ==
  ASSUME EngineInv, InitWorker \/ InitWorkerNoRing
  PROVE  /\ host' \in Hosts /\ engine' \in Engines
         /\ worker' \in [WorkerIds -> WorkerFlags]
         /\ thread' \in [WorkerIds -> CoreIds \cup {AnyCore, NoThread, Exited}]
         /\ Lifecycle' /\ WorkersApart'
<1> USE DEF EngineInv, EngineTypes, Sane
<1>0. /\ host.at = "workers" /\ host.i < engine.count /\ engine' = engine
      /\ host.i \in Nat /\ engine.count \in Nat /\ host.core \in CoreIds \cup {AnyCore}
  BY DEF InitWorker, InitWorkerNoRing, Hosts, Engines
<1>1. host.i + 1 \in Nat /\ host.i + 1 <= engine.count /\ Pinned(host.i) \in CoreIds \cup {AnyCore}
  BY <1>0 DEF Pinned
<1>2. host' \in Hosts /\ host'.i = host.i + 1 /\ host'.at = "workers"
  BY <1>0, <1>1 DEF InitWorker, InitWorkerNoRing, Hosts, HostAts
<1>3. worker' \in [WorkerIds -> WorkerFlags]
  <2>1. CASE InitWorker
    <3>1. PICK created \in BOOLEAN : 
            worker' = [worker EXCEPT ![host.i] =
                       [running |-> TRUE, ring |-> TRUE, handle |-> created]]
      BY <2>1 DEF InitWorker
    <3> QED
      BY <3>1 DEF WorkerFlags
  <2>2. CASE InitWorkerNoRing
    BY <2>2 DEF InitWorkerNoRing, WorkerFlags
  <2> QED
    BY <2>1, <2>2
<1>4. /\ thread' \in [WorkerIds -> CoreIds \cup {AnyCore, NoThread, Exited}]
      /\ \A w \in WorkerIds : w # host.i => thread'[w] = thread[w]
      /\ host.i \in WorkerIds => \/ thread'[host.i] = thread[host.i]
                                 \/ thread'[host.i] = Pinned(host.i)
                                 \/ thread'[host.i] = NoThread
  <2>1. thread' = thread \/ \E x \in {Pinned(host.i), NoThread} : thread' = [thread EXCEPT ![host.i] = x]
    BY DEF InitWorker, InitWorkerNoRing
  <2> QED
    BY <1>1, <2>1
<1>5. WorkersApart'
  <2> SUFFICES ASSUME NEW w \in WorkerIds, thread'[w] \in CoreIds \cup {AnyCore}, w \in CoreIds
               PROVE  thread'[w] = w
    BY DEF WorkersApart, Alive
  <2> QED
    BY <1>4, NotAlive DEF WorkersApart, Alive, Pinned
<1>6. Lifecycle'
  <2>1. \A w \in WorkerIds : w >= host.i + 1 => thread'[w] = NoThread
    BY <1>0, <1>4, WorkerNumbers DEF Lifecycle
  <2>2. engine.pool # "destroyed"
    BY <1>0 DEF Lifecycle
  <2> QED
    BY <1>0, <1>1, <1>2, <2>1, <2>2 DEF Lifecycle
<1> QED
  BY <1>0, <1>2, <1>3, <1>4, <1>5, <1>6

\* The steps of the host that move it on without a new thread.
LEMMA HostSteps ==
  ASSUME EngineInv,
         InitQueue \/ StartTables \/ StartKernels \/ StartPlugins \/ StartIo \/ ShutdownBegin
  PROVE  /\ host' \in Hosts /\ engine' \in Engines
         /\ worker' \in [WorkerIds -> WorkerFlags]
         /\ thread' \in [WorkerIds -> CoreIds \cup {AnyCore, NoThread, Exited}]
         /\ Lifecycle' /\ WorkersApart'
<1> USE DEF EngineInv, EngineTypes, Sane
<1>1. /\ worker' = worker /\ thread' = thread /\ engine' = engine
      /\ host.at \in {"workers", "up", "kernels", "plugins", "io"}
      /\ host.at = "workers" => host.i = engine.count
  BY DEF InitQueue, StartTables, StartKernels, StartPlugins, StartIo, ShutdownBegin
<1>2. /\ host' \in Hosts /\ host'.at \in {"up", "kernels", "plugins", "io", "stop"}
      /\ host'.at = "stop" => host'.i = 0
  <2>1. CASE ShutdownBegin
    BY <2>1 DEF ShutdownBegin, Hosts, HostAts
  <2>2. CASE ~ShutdownBegin
    <3>1. PICK a \in {"up", "kernels", "plugins", "io"} : host' = [host EXCEPT !.at = a]
      BY <2>2 DEF InitQueue, StartTables, StartKernels, StartPlugins, StartIo
    <3> QED
      BY <3>1 DEF Hosts, HostAts
  <2> QED
    BY <2>1, <2>2
<1>3. engine.pool # "destroyed" /\ engine.count \in Nat
      /\ \A w \in WorkerIds : w >= engine.count => thread[w] = NoThread
  BY <1>1 DEF Lifecycle, Engines
<1>4. Lifecycle'
  BY <1>1, <1>2, <1>3, WorkerNumbers DEF Lifecycle
<1> QED
  BY <1>1, <1>2, <1>4 DEF WorkersApart, Alive

\* img_api_shutdown: stop and join one worker after the other, then destroy the pool.
LEMMA ShutdownSteps ==
  ASSUME EngineInv, ShutdownStop \/ ShutdownJoin \/ ShutdownPool
  PROVE  /\ host' \in Hosts /\ engine' \in Engines
         /\ worker' \in [WorkerIds -> WorkerFlags]
         /\ thread' \in [WorkerIds -> CoreIds \cup {AnyCore, NoThread, Exited}]
         /\ Lifecycle' /\ WorkersApart'
<1> USE DEF EngineInv, EngineTypes, Sane
<1>0. /\ thread' = thread
      /\ host.at \in {"stop", "join"} /\ host.i \in Nat /\ engine.count \in Nat
      /\ host.i <= engine.count /\ \A w \in WorkerIds : w < host.i => ~Alive(w)
      /\ \A w \in WorkerIds : w >= engine.count => thread[w] = NoThread
      /\ engine.pool # "destroyed"
  BY DEF ShutdownStop, ShutdownJoin, ShutdownPool, Hosts, Engines, Lifecycle
<1>1. worker' \in [WorkerIds -> WorkerFlags]
  <2>1. worker' = worker \/ worker' = [worker EXCEPT ![host.i].running = FALSE]
    BY DEF ShutdownStop, ShutdownJoin, ShutdownPool
  <2> QED
    BY <2>1 DEF WorkerFlags
<1>2. engine' \in Engines /\ engine'.count = engine.count
  BY DEF ShutdownStop, ShutdownJoin, ShutdownPool, Engines
<1>3. WorkersApart'
  BY <1>0 DEF WorkersApart, Alive
<1>4. host' \in Hosts
  <2>1. host.i + 1 \in Nat
    BY <1>0
  <2> QED
    BY <2>1 DEF ShutdownStop, ShutdownJoin, ShutdownPool, Hosts, HostAts
<1>5. Lifecycle'
  <2>1. CASE ShutdownStop
    <3>1. host'.at = "join" /\ host'.i = host.i /\ engine' = engine /\ host.i < engine.count
      BY <2>1 DEF ShutdownStop, Hosts
    <3> QED
      BY <1>0, <3>1 DEF Lifecycle, Alive
  <2>2. CASE ShutdownJoin /\ worker[host.i].handle
    <3>1. /\ host'.at = "stop" /\ host'.i = host.i + 1 /\ engine' = engine
          /\ thread[host.i] = Exited /\ host.at = "join"
      BY <2>2 DEF ShutdownJoin, Hosts
    <3>2. host.i + 1 <= engine.count
      BY <1>0, <3>1 DEF Lifecycle
    <3>3. \A w \in WorkerIds : w < host.i + 1 => ~Alive(w)
      BY <1>0, <3>1, WorkerNumbers, NotAlive DEF Alive
    <3> QED
      BY <1>0, <3>1, <3>2, <3>3 DEF Lifecycle, Alive
  <2>3. CASE ShutdownJoin /\ ~worker[host.i].handle
    <3>1. host' = host /\ engine' = engine
      BY <2>3 DEF ShutdownJoin
    <3> QED
      BY <1>0, <3>1 DEF Lifecycle, Alive
  <2>4. CASE ShutdownPool
    <3>1. host'.at = "down" /\ host.i = engine.count
      BY <2>4 DEF ShutdownPool, Hosts
    <3>2. \A w \in WorkerIds : ~Alive(w)
      BY <1>0, <3>1, WorkerNumbers, NotAlive DEF Alive
    <3> QED
      BY <1>0, <1>2, <3>1, <3>2 DEF Lifecycle, Alive
  <2> QED
    BY <2>1, <2>2, <2>3, <2>4
<1> QED
  BY <1>0, <1>1, <1>2, <1>3, <1>4, <1>5

\* A worker thread ends when its flag is cleared.
LEMMA ExitSteps ==
  ASSUME EngineInv, NEW v \in WorkerIds, WorkerExit(v)
  PROVE  /\ host' \in Hosts /\ engine' \in Engines
         /\ worker' \in [WorkerIds -> WorkerFlags]
         /\ thread' \in [WorkerIds -> CoreIds \cup {AnyCore, NoThread, Exited}]
         /\ Lifecycle' /\ WorkersApart'
<1> USE DEF EngineInv, EngineTypes, Sane
<1>0. UNCHANGED <<host, engine, worker, call>> /\ wild' # "table" /\ Alive(v)
  BY DEF WorkerExit
<1>1. /\ thread' \in [WorkerIds -> CoreIds \cup {AnyCore, NoThread, Exited}]
      /\ thread'[v] = Exited /\ \A w \in WorkerIds \ {v} : thread'[w] = thread[w]
  BY DEF WorkerExit
<1>2. thread[v] # NoThread
  BY <1>0, NotAlive DEF Alive
<1>3. WorkersApart'
  BY <1>1, NotAlive DEF WorkersApart, Alive
<1>4. Lifecycle'
  <2>1. \A w \in WorkerIds : /\ thread[w] = NoThread => thread'[w] = NoThread
                             /\ ~Alive(w) => thread'[w] \notin CoreIds \cup {AnyCore}
    BY <1>1, <1>2, NotAlive DEF Alive
  <2> QED
    BY <1>0, <2>1 DEF Lifecycle, Alive
<1> QED
  BY <1>0, <1>1, <1>3, <1>4

\* img_api_process_fast is nothing to the host and the workers.
LEMMA CallSteps ==
  ASSUME NEW c \in Callers, CallStep(c) \/ \E p \in Pipelines : FastCall(c, p)
  PROVE  UNCHANGED <<host, engine, worker, thread>>
BY DEF CallStep, FastCall, FastDecode, FastValidate, FastCompile, FastExecute, StaysBut

\* Every step of the host, a worker or a caller keeps the invariant.
LEMMA EngineStepInv == EngineInv /\ [EngineNext]_engineVars => EngineInv'
<1> SUFFICES ASSUME EngineInv, [EngineNext]_engineVars PROVE EngineInv'
  OBVIOUS
<1>1. CASE EngineNext
  <2>0. caps' = caps /\ TablesFit(table)' /\ TablesFit(batch)' /\ caps \in CapSets
    BY <1>1, TablesKeep DEF EngineInv, EngineTypes
  <2>1. ASSUME NEW n \in WorkerCounts, InitRefused(n) \/ InitTables(n) PROVE EngineInv'
    BY <2>0, <2>1, StartSteps DEF EngineInv, EngineTypes
  <2>2. CASE InitWorker \/ InitWorkerNoRing
    BY <2>0, <2>2, InitWorkerSteps DEF EngineInv, EngineTypes
  <2>3. CASE InitQueue \/ StartTables \/ StartKernels \/ StartPlugins \/ StartIo \/ ShutdownBegin
    BY <2>0, <2>3, HostSteps DEF EngineInv, EngineTypes
  <2>4. CASE ShutdownStop \/ ShutdownJoin \/ ShutdownPool
    BY <2>0, <2>4, ShutdownSteps DEF EngineInv, EngineTypes
  <2>5. CASE Submit
    <3>1. UNCHANGED <<host, engine, worker, thread>>
      BY <2>5 DEF Submit, Serving, Sane
    <3> QED
      BY <2>0, <3>1, ThreadsKeep DEF EngineInv, EngineTypes
  <2>6. ASSUME NEW c \in Callers, CallStep(c) \/ \E p \in Pipelines : FastCall(c, p)
        PROVE  EngineInv'
    BY <2>0, <2>6, CallSteps, ThreadsKeep DEF EngineInv, EngineTypes
  <2>7. ASSUME NEW w \in WorkerIds, WorkerExit(w) PROVE EngineInv'
    BY <2>0, <2>7, ExitSteps DEF EngineInv, EngineTypes
  <2> QED
    BY <1>1, <2>1, <2>2, <2>3, <2>4, <2>5, <2>6, <2>7 DEF EngineNext, HostStep
<1>2. CASE UNCHANGED engineVars
  <2> USE <1>2 DEF engineVars
  <2> QED
    BY ThreadsKeep DEF EngineInv, EngineTypes, TablesFit
<1> QED
  BY <1>1, <1>2

\* The invariant holds at every moment of the engine's life.
LEMMA EngineInvHolds == EngineSpec => []EngineInv
BY EngineInitInv, EngineStepInv, PTL DEF EngineSpec

\* For any number of workers and processors, each worker thread whose number is a
\* processor's runs there, although img_pin_thread only ever pins the host (worker.c:93).
THEOREM WorkersApartHolds == EngineSpec => []WorkersApart
<1>1. EngineInv => WorkersApart
  BY DEF EngineInv
<1> QED
  BY <1>1, EngineInvHolds, PTL

\* img_api_shutdown destroys the pool (api.c:516) after every worker thread that was
\* created has ended, whichever of them failed to start.
THEOREM PoolOutlivesThreadsHolds == EngineSpec => []PoolOutlivesThreads
<1>1. EngineInv => PoolOutlivesThreads
  BY DEF EngineInv, Lifecycle, PoolOutlivesThreads
<1> QED
  BY <1>1, EngineInvHolds, PTL

\* No start sequence, on any processor, puts a kernel in a dispatch table that the
\* processor cannot run: not even between two registrations (jump_table.c:39).
THEOREM KernelsFitHolds == EngineSpec => []KernelsFit
<1>1. EngineInv => KernelsFit
  BY DEF EngineInv, TablesFit, KernelsFit
<1> QED
  BY <1>1, EngineInvHolds, PTL

-----------------------------------------------------------------------------
(* Remote execution.  What a success is worth is settled while the call is *)
(* under way, by what the server has of whose bytes.                       *)

\* A chunk of some client's bytes or of nobody's, the two chunks of an image, and the
\* records of a client and of the server.
Chunks      == [of : Clients \cup {"nobody"}, state : {"raw", "done"}]
Bytes       == [1 .. 2 -> Chunks]
ClientCalls == [at : {"idle", "connect", "wait"}, op : {0} \cup RemoteOps, img : Bytes,
                ret : {"none", "ok", "error"}, n : Nat, sockets : Nat]
Servers     == [at : {"accept", "kernel", "reply", "dead"}, who : SUBSET Clients,
                data : Bytes, heap : SUBSET Chunks]

\* The types of the clients, their requests, their answers and the server.
RemoteTypeOK ==
  /\ client \in [Clients -> ClientCalls]
  /\ server \in Servers
  /\ reply \in [Clients -> Bytes \cup {NoReply, Reset}]
  /\ cut \subseteq Clients /\ early \subseteq Clients

\* A call under way still has the image it was given, and its answer is that image
\* processed; of a body cut short the first chunk only is sure to be.
InFlight(c) ==
  /\ client[c].at \in {"connect", "wait"} => client[c].img = Fresh(c)
  /\ client[c].at = "connect" => reply[c] = NoReply
  /\ \/ reply[c] \in {NoReply, Whole(c)}
     \/ c \in cut /\ (reply[c] = Reset \/ reply[c][1].of = c)

\* The server works for one client, which waits for it, on that client's bytes, or on
\* that client's first chunk and what was in memory.
Serves ==
  server.at \in {"kernel", "reply"} =>
    \E c \in Clients :
      /\ server.who = {c} /\ client[c].at = "wait" /\ reply[c] = NoReply
      /\ \/ server.data = (IF server.at = "kernel" THEN Fresh(c) ELSE Whole(c))
         \/ c \in cut /\ server.data[1].of = c

\* The inductive invariant of remote execution.
RemoteInv ==
  /\ RemoteTypeOK
  /\ \A c \in Clients : InFlight(c)
  /\ Serves
  /\ RemoteTrue

\* Images stay images of two chunks when the kernel runs or a recv is short, and the
\* owner of a chunk is its owner still.
LEMMA BytesFacts ==
  /\ <<Junk, Junk>> \in Bytes
  /\ \A c \in Clients : \A a, b \in {"raw", "done"} :
       Image(c, a, b) \in Bytes /\ Image(c, a, b)[1].of = c
  /\ \A d \in Bytes : /\ Processed(d) \in Bytes /\ Processed(d)[1].of = d[1].of
                      /\ d # NoReply /\ d # Reset
  /\ \A c \in Clients : Processed(Fresh(c)) = Whole(c)
<1>0. <<Junk, Junk>> \in Bytes
  BY DEF Junk, Bytes, Chunks
<1>1. ASSUME NEW c \in Clients, NEW a \in {"raw", "done"}, NEW b \in {"raw", "done"}
      PROVE  Image(c, a, b) \in Bytes /\ Image(c, a, b)[1].of = c
  <2>1. [of |-> c, state |-> a] \in Chunks /\ [of |-> c, state |-> b] \in Chunks
    BY DEF Chunks
  <2> QED
    BY <2>1 DEF Image, Bytes
<1>2. ASSUME NEW d \in Bytes
      PROVE  Processed(d) \in Bytes /\ Processed(d)[1].of = d[1].of
  <2>1. ASSUME NEW i \in 1 .. 2
        PROVE  [d[i] EXCEPT !.state = "done"] \in Chunks /\ [d[i] EXCEPT !.state = "done"].of = d[i].of
    <3>1. d[i] \in Chunks
      BY DEF Bytes
    <3> QED
      BY <3>1 DEF Chunks
  <2>2. Processed(d) \in Bytes
    BY <2>1 DEF Processed, Bytes
  <2>3. 1 \in 1 .. 2 /\ Processed(d)[1] = [d[1] EXCEPT !.state = "done"]
    BY DEF Processed
  <2> QED
    BY <2>1, <2>2, <2>3
<1>3. ASSUME NEW d \in Bytes PROVE d # NoReply /\ d # Reset
  <2>1. DOMAIN d = 1 .. 2
    BY DEF Bytes
  <2>2. DOMAIN NoReply = 1 .. 0 /\ DOMAIN Reset = 1 .. 1
    BY DEF NoReply, Reset
  <2>3. 2 \in 1 .. 2 /\ 2 \notin 1 .. 1 /\ 2 \notin 1 .. 0
    OBVIOUS
  <2> QED
    BY <2>1, <2>2, <2>3
<1>4. ASSUME NEW c \in Clients PROVE Processed(Fresh(c)) = Whole(c)
  <2>1. [[of |-> c, state |-> "raw"] EXCEPT !.state = "done"] = [of |-> c, state |-> "done"]
    OBVIOUS
  <2> QED
    BY <2>1 DEF Processed, Fresh, Whole, Image
<1> QED
  BY <1>0, <1>1, <1>2, <1>3, <1>4

\* The images of a client, as instances of the above.
LEMMA OwnImages ==
  ASSUME NEW c \in Clients
  PROVE  /\ Fresh(c) \in Bytes /\ Fresh(c)[1].of = c
         /\ Whole(c) \in Bytes /\ Whole(c)[1].of = c
         /\ [Fresh(c) EXCEPT ![1] = Whole(c)[1]] = Image(c, "done", "raw")
<1>1. /\ Fresh(c) \in Bytes /\ Fresh(c)[1].of = c
      /\ Whole(c) \in Bytes /\ Whole(c)[1].of = c
  BY BytesFacts DEF Fresh, Whole
<1>2. [Fresh(c) EXCEPT ![1] = Whole(c)[1]] = Image(c, "done", "raw")
  BY DEF Fresh, Whole, Image
<1> QED
  BY <1>1, <1>2

\* One chunk of an image may be replaced by another.
LEMMA ChunkReplaced ==
  ASSUME NEW d \in Bytes, NEW i \in 1 .. 2, NEW chunk \in Chunks
  PROVE  /\ [d EXCEPT ![i] = chunk] \in Bytes
         /\ [d EXCEPT ![i] = chunk][i] = chunk
         /\ \A k \in 1 .. 2 : k # i => [d EXCEPT ![i] = chunk][k] = d[k]
  BY DEF Bytes

\* At first no client has called and the server is up or down.
LEMMA RemoteInvInit == RemoteInit => RemoteInv
<1> SUFFICES ASSUME RemoteInit PROVE RemoteInv
  OBVIOUS
<1>1. client \in [Clients -> ClientCalls]
  BY OwnImages DEF RemoteInit, ClientCalls
<1>2. reply \in [Clients -> Bytes \cup {NoReply, Reset}]
  BY DEF RemoteInit
<1>3. server \in Servers
  BY BytesFacts DEF RemoteInit, Servers
<1> QED
  BY <1>1, <1>2, <1>3 DEF RemoteInit, RemoteInv, RemoteTypeOK, InFlight, Serves, RemoteTrue

\* What RemoteTrue says of one client.
Truthful(c) ==
  client[c].at = "idle" /\ client[c].ret = "ok" =>
    /\ client[c].img[1].of = c
    /\ \/ client[c].img = Whole(c)
       \/ c \in early /\ client[c].img = Image(c, "done", "raw")
       \/ reply[c] = NoReply /\ ~Up /\ client[c].img = Fresh(c)
       \/ c \in cut

\* A step for client c leaves what is known of the others.
LEMMA OthersKeep ==
  ASSUME RemoteInv, NEW c \in Clients,
         client' \in [Clients -> ClientCalls],
         reply' \in [Clients -> Bytes \cup {NoReply, Reset}], cut' \subseteq Clients,
         early' \subseteq Clients, server' \in Servers,
         ~Up => ~Up',
         \A d \in Clients \ {c} : /\ client'[d] = client[d] /\ reply'[d] = reply[d]
                                  /\ d \in cut' <=> d \in cut
                                  /\ d \in early' <=> d \in early,
         InFlight(c)', Truthful(c)', Serves'
  PROVE  RemoteInv'
<1>1. ASSUME NEW d \in Clients PROVE InFlight(d)' /\ Truthful(d)'
  <2>1. CASE d = c
    BY <2>1
  <2>2. CASE d # c
    BY <2>2 DEF RemoteInv, InFlight, RemoteTrue, Truthful
  <2> QED
    BY <2>1, <2>2
<1>2. RemoteTrue'
  BY <1>1 DEF RemoteTrue, Truthful
<1> QED
  BY <1>1, <1>2 DEF RemoteInv, RemoteTypeOK

\* Steps of a client alone, whom the server is not working for or who stays where it is.
LEMMA ClientSteps ==
  ASSUME RemoteInv, NEW c \in Clients,
         \/ \E op \in RemoteOps : ExecDispatch(c, op)
         \/ ConnectFails(c) \/ SendRequest(c)
         \/ ReceiveAll(c) \/ ReceiveShort(c) \/ ReceiveNothing(c)
  PROVE  RemoteInv'
<1> USE DEF RemoteInv, RemoteTypeOK
<1>0. /\ client[c] \in ClientCalls /\ InFlight(c) /\ reply[c] \in Bytes \cup {NoReply, Reset}
      /\ UNCHANGED server
  BY DEF ExecDispatch, ConnectFails, SendRequest, ReceiveAll, ReceiveShort, ReceiveNothing
<1>1. ASSUME client[c].at = "wait" => reply[c] # NoReply \/ ~Up,
             \A d \in Clients \ {c} : /\ client'[d] = client[d] /\ reply'[d] = reply[d]
                                      /\ d \in cut' <=> d \in cut
      PROVE  Serves'
  BY <1>0, <1>1 DEF Serves, Up
<1>2. CASE \E op \in RemoteOps : ExecDispatch(c, op)
  <2> PICK op \in RemoteOps : ExecDispatch(c, op)
    BY <1>2
  <2> DEFINE at  == IF Local(op) THEN "idle" ELSE "connect"
             img == IF Local(op) /\ op # OP_BRIGHTNESS THEN Whole(c) ELSE Fresh(c)
             ret == IF ~Local(op) THEN "none"
                    ELSE IF op # OP_BRIGHTNESS THEN "ok" ELSE "error"
             new == [client[c] EXCEPT !.op = op, !.n = @ + 1, !.at = at, !.img = img, !.ret = ret]
  <2>1. client' = [client EXCEPT ![c] = new] /\ reply' = [reply EXCEPT ![c] = NoReply] /\ cut' = cut \ {c} /\ early' = early \ {c}
    <3>1. client' = [client EXCEPT ![c] = new]
      BY DEF ExecDispatch
    <3> QED
      BY <3>1 DEF ExecDispatch
  <2>2. at \in {"idle", "connect"} /\ img \in Bytes /\ ret \in {"none", "ok", "error"}
    BY OwnImages
  <2>3. /\ at = "idle" => img = Whole(c) \/ ret # "ok"
        /\ at = "connect" => img = Fresh(c)
    OBVIOUS
  <2> HIDE DEF at, img, ret
  <2>8. new \in ClientCalls /\ new.at = at /\ new.img = img /\ new.ret = ret
    <3>1. client[c].n + 1 \in Nat
      BY <1>0 DEF ClientCalls
    <3> QED
      BY <1>0, <2>2, <3>1 DEF ClientCalls
  <2> HIDE DEF new
  <2>4. client'[c] = new /\ reply'[c] = NoReply
    BY <2>1
  <2>5. client' \in [Clients -> ClientCalls] /\ reply' \in [Clients -> Bytes \cup {NoReply, Reset}]
    BY <2>1, <2>8
  <2>6. InFlight(c)' /\ Truthful(c)'
    BY <2>2, <2>3, <2>4, <2>8, OwnImages DEF InFlight, Truthful
  <2>7. client[c].at = "idle"
    BY DEF ExecDispatch
  <2> QED
    BY <1>0, <1>1, <2>1, <2>5, <2>6, <2>7, OthersKeep DEF Up
<1>3. CASE ConnectFails(c)
  <2> DEFINE new == [client[c] EXCEPT !.at = "idle", !.ret = "error", !.sockets = @ + 1]
  <2>1. client' = [client EXCEPT ![c] = new] /\ UNCHANGED <<reply, cut, early>> /\ client[c].at = "connect"
    BY <1>3 DEF ConnectFails
  <2>2. new \in ClientCalls /\ new.at = "idle" /\ new.ret = "error"
    <3>1. client[c].sockets + 1 \in Nat
      BY <1>0 DEF ClientCalls
    <3> QED
      BY <1>0, <3>1 DEF ClientCalls
  <2> HIDE DEF new
  <2>3. client' \in [Clients -> ClientCalls] /\ client'[c] = new
    BY <2>1, <2>2
  <2>4. InFlight(c)' /\ Truthful(c)'
    BY <1>0, <2>1, <2>2, <2>3 DEF InFlight, Truthful
  <2> QED
    BY <1>0, <1>1, <2>1, <2>3, <2>4, OthersKeep DEF Up
<1>4. CASE SendRequest(c)
  <2> DEFINE new == [client[c] EXCEPT !.at = "wait"]
  <2>1. client' = [client EXCEPT ![c] = new] /\ UNCHANGED <<reply, cut, early>> /\ client[c].at = "connect"
    BY <1>4 DEF SendRequest
  <2>2. new \in ClientCalls /\ new.at = "wait" /\ new.img = client[c].img
    BY <1>0 DEF ClientCalls
  <2> HIDE DEF new
  <2>3. client' \in [Clients -> ClientCalls] /\ client'[c] = new
    BY <2>1, <2>2
  <2>4. InFlight(c)' /\ Truthful(c)'
    BY <1>0, <2>1, <2>2, <2>3 DEF InFlight, Truthful
  <2> QED
    BY <1>0, <1>1, <2>1, <2>3, <2>4, OthersKeep DEF Up
<1>5. CASE ReceiveAll(c)
  <2> DEFINE new == [client[c] EXCEPT !.at = "idle", !.ret = "ok", !.img = reply[c]]
  <2>1. /\ client' = [client EXCEPT ![c] = new] /\ UNCHANGED <<reply, cut, early>>
        /\ reply[c] \notin {NoReply, Reset}
    BY <1>5 DEF ReceiveAll
  <2>2. new \in ClientCalls /\ new.at = "idle" /\ new.img = reply[c]
    BY <1>0, <2>1 DEF ClientCalls
  <2> HIDE DEF new
  <2>3. client' \in [Clients -> ClientCalls] /\ client'[c] = new
    BY <2>1, <2>2
  <2>4. InFlight(c)' /\ Truthful(c)'
    BY <1>0, <2>1, <2>2, <2>3, OwnImages DEF InFlight, Truthful
  <2> QED
    BY <1>0, <1>1, <2>1, <2>3, <2>4, OthersKeep DEF Up
<1>6. CASE ReceiveShort(c)
  <2> DEFINE new == [client[c] EXCEPT !.at = "idle", !.ret = "ok", !.img[1] = reply[c][1]]
  <2>1. /\ client' = [client EXCEPT ![c] = new] /\ UNCHANGED <<reply, cut>> /\ early' = early \cup {c}
        /\ client[c].at = "wait" /\ reply[c] \notin {NoReply, Reset}
    BY <1>6 DEF ReceiveShort
  <2>5. client[c].img = Fresh(c) /\ reply[c] \in Bytes
    BY <1>0, <2>1 DEF InFlight
  <2>6. reply[c][1] \in Chunks
    BY <2>5 DEF Bytes
  <2>2. new \in ClientCalls /\ new.at = "idle" /\ new.img = [Fresh(c) EXCEPT ![1] = reply[c][1]]
    <3>2. [client[c].img EXCEPT ![1] = reply[c][1]] \in Bytes
      BY <2>5, <2>6, ChunkReplaced, OwnImages
    <3> QED
      BY <1>0, <2>5, <3>2 DEF ClientCalls
  <2> HIDE DEF new
  <2>7. /\ new.img[1].of = c
        /\ new.img = Image(c, "done", "raw") \/ c \in cut
    <3>0. 1 \in 1 .. 2 /\ Fresh(c) \in Bytes
      BY OwnImages
    <3>4. \A chunk \in Chunks : [Fresh(c) EXCEPT ![1] = chunk][1] = chunk
      BY <3>0 DEF Bytes
    <3>1. new.img[1] = reply[c][1]
      BY <2>2, <2>6, <3>4
    <3>2. CASE reply[c] = Whole(c)
      BY <2>2, <3>1, <3>2, OwnImages
    <3>3. CASE c \in cut /\ reply[c][1].of = c
      BY <3>1, <3>3
    <3> QED
      BY <1>0, <2>1, <3>2, <3>3 DEF InFlight
  <2>3. client' \in [Clients -> ClientCalls] /\ client'[c] = new
    BY <2>1, <2>2
  <2>4. InFlight(c)' /\ Truthful(c)'
    BY <1>0, <2>1, <2>2, <2>3, <2>7 DEF InFlight, Truthful
  <2> QED
    BY <1>0, <1>1, <2>1, <2>3, <2>4, OthersKeep DEF Up
<1>7. CASE ReceiveNothing(c)
  <2> DEFINE new == [client[c] EXCEPT !.at = "idle", !.ret = "ok"]
  <2>1. /\ client' = [client EXCEPT ![c] = new] /\ UNCHANGED <<reply, cut, early>> /\ client[c].at = "wait"
        /\ reply[c] = Reset \/ (reply[c] = NoReply /\ ~Up)
    BY <1>7 DEF ReceiveNothing, RetTo
  <2>2. new \in ClientCalls /\ new.at = "idle" /\ new.img = client[c].img
    BY <1>0 DEF ClientCalls
  <2> HIDE DEF new
  <2>3. client' \in [Clients -> ClientCalls] /\ client'[c] = new
    BY <2>1, <2>2
  <2>4. Reset \notin {NoReply, Whole(c)}
    BY BytesFacts, OwnImages DEF NoReply, Reset
  <2>5. InFlight(c)' /\ Truthful(c)'
    BY <1>0, <2>1, <2>2, <2>3, <2>4, OwnImages DEF InFlight, Truthful, Up
  <2> QED
    BY <1>0, <1>1, <2>1, <2>3, <2>4, <2>5, OthersKeep DEF Up
<1> QED
  BY <1>2, <1>3, <1>4, <1>5, <1>6, <1>7

\* The server takes the bytes of one waiting client, all or the first chunk.
LEMMA AcceptSteps ==
  ASSUME RemoteInv, NEW c \in Clients, Accept(c) \/ AcceptShort(c)
  PROVE  RemoteInv'
<1> USE DEF RemoteInv, RemoteTypeOK
<1>0. /\ client[c] \in ClientCalls /\ InFlight(c) /\ client[c].at = "wait" /\ reply[c] = NoReply
      /\ UNCHANGED <<client, reply, early>> /\ client[c].img = Fresh(c)
  BY DEF Accept, AcceptShort, InFlight
<1>1. /\ server'.at = "kernel" /\ server'.who = {c} /\ server' \in Servers
      /\ \/ UNCHANGED cut /\ server'.data = Fresh(c)
         \/ cut' = cut \cup {c} /\ server'.data[1].of = c
  <2>1. CASE Accept(c)
    BY <1>0, <2>1, OwnImages DEF Accept, Servers
  <2>2. CASE AcceptShort(c)
    <3>1. PICK left \in {Junk} \cup server.heap :
            server' = [server EXCEPT !.at = "kernel", !.who = {c},
                                     !.data = [Fresh(c) EXCEPT ![2] = left]]
      BY <1>0, <2>2 DEF AcceptShort
    <3>2. left \in Chunks /\ 1 \in 1 .. 2 /\ 2 \in 1 .. 2 /\ 1 # 2
      BY DEF Junk, Chunks, Servers
    <3>3. [Fresh(c) EXCEPT ![2] = left] \in Bytes /\ [Fresh(c) EXCEPT ![2] = left][1].of = c
      BY <3>2, ChunkReplaced, OwnImages
    <3> QED
      BY <2>2, <3>1, <3>3 DEF AcceptShort, Servers
  <2> QED
    BY <2>1, <2>2
<1>2. Serves'
  BY <1>0, <1>1 DEF Serves
<1>3. InFlight(c)' /\ Truthful(c)'
  BY <1>0, <1>1 DEF InFlight, Truthful
<1>4. Up
  BY DEF Accept, AcceptShort, Up
<1> QED
  BY <1>0, <1>1, <1>2, <1>3, <1>4, OthersKeep

\* The kernel of the server, and its answer.
LEMMA ServerSteps == RemoteInv /\ (Kernel1 \/ Reply) => RemoteInv'
<1> SUFFICES ASSUME RemoteInv, Kernel1 \/ Reply PROVE RemoteInv'
  OBVIOUS
<1> USE DEF RemoteInv, RemoteTypeOK
<1>0. PICK c \in Clients :
        /\ server.who = {c} /\ client[c].at = "wait" /\ reply[c] = NoReply
        /\ \/ server.data = (IF server.at = "kernel" THEN Fresh(c) ELSE Whole(c))
           \/ c \in cut /\ server.data[1].of = c
  BY DEF Serves, Kernel1, Reply
<1>1. InFlight(c) /\ Up
  BY DEF Kernel1, Reply, Up
<1>2. CASE Kernel1
  <2>1. UNCHANGED <<client, reply, cut, early>> /\ server.at = "kernel"
    BY <1>2 DEF Kernel1
  <2>2. CASE server' = [server EXCEPT !.at = "reply", !.data = Processed(@)]
    <3>1. server'.at = "reply" /\ server'.data = Processed(server.data) /\ server'.who = server.who
          /\ server' \in Servers
      BY <2>2, <1>0, <2>1, BytesFacts DEF Servers
    <3>2. Serves'
      BY <1>0, <2>1, <3>1, BytesFacts DEF Serves, Servers
    <3>3. InFlight(c)' /\ Truthful(c)'
      BY <1>0, <1>1, <2>1 DEF InFlight, Truthful
    <3> QED
      BY <1>1, <2>1, <3>1, <3>2, <3>3, OthersKeep
  <2>3. CASE server' = [server EXCEPT !.at = "dead"]
    <3>1. server'.at = "dead" /\ server' \in Servers
      BY <2>3, <1>0, <2>1 DEF Servers
    <3>2. Serves'
      BY <3>1 DEF Serves
    <3>3. InFlight(c)' /\ Truthful(c)'
      BY <1>0, <1>1, <2>1 DEF InFlight, Truthful
    <3> QED
      BY <1>1, <2>1, <3>1, <3>2, <3>3, OthersKeep
  <2> QED
    BY <1>0, <1>2, <2>2, <2>3 DEF Kernel1
<1>3. CASE Reply
  <2>1. /\ UNCHANGED <<client, cut, early>> /\ server'.at = "accept"
        /\ server.at = "reply" /\ server.data \in Bytes
    BY <1>3 DEF Reply, Servers
  <2>7. server' \in Servers
    <3>1. server.data[2] \in Chunks /\ server.heap \subseteq Chunks
      BY DEF Bytes, Servers
    <3> QED
      BY <1>3, <3>1, BytesFacts DEF Reply, Servers
  <2>2. PICK r \in {server.data} \cup (IF c \in cut THEN {Reset} ELSE {}) :
           reply' = [reply EXCEPT ![c] = r]
    BY <1>0, <1>3 DEF Reply
  <2>3. r \in Bytes \cup {Reset} /\ (r = Whole(c) \/ (c \in cut /\ (r = Reset \/ r[1].of = c)))
    BY <1>0, <2>1
  <2>4. reply' \in [Clients -> Bytes \cup {NoReply, Reset}] /\ reply'[c] = r
    BY <2>2, <2>3
  <2>5. InFlight(c)' /\ Truthful(c)'
    BY <1>0, <1>1, <2>1, <2>3, <2>4 DEF InFlight, Truthful
  <2>6. Serves'
    BY <2>1 DEF Serves
  <2> QED
    BY <1>1, <2>1, <2>2, <2>4, <2>5, <2>6, <2>7, OthersKeep, BytesFacts
<1> QED
  BY <1>2, <1>3

\* Every step of a client or of the server keeps the invariant.
LEMMA RemoteInvStep == RemoteInv /\ [RemoteNext]_remoteVars => RemoteInv'
<1> SUFFICES ASSUME RemoteInv, [RemoteNext]_remoteVars PROVE RemoteInv'
  OBVIOUS
<1>1. CASE UNCHANGED remoteVars
  BY <1>1 DEF remoteVars, RemoteInv, RemoteTypeOK, InFlight, Serves, RemoteTrue, Up
<1> QED
  BY <1>1, ClientSteps, AcceptSteps, ServerSteps DEF RemoteNext

\* For any number of clients of the one server, a zero from img_exec_dispatch means this
\* client's own image, processed as far as the client's recv got or untouched by a server
\* that died before it answered (rpc_client.c:46-53); only where the server's recv of the
\* body was short may the rest of it be another's (rpc_server.c:40-60).
THEOREM RemoteTrueHolds == RemoteSpec => []RemoteTrue
<1>1. RemoteInv => RemoteTrue
  BY DEF RemoteInv
<1> QED
  BY <1>1, RemoteInvInit, RemoteInvStep, PTL DEF RemoteSpec

-----------------------------------------------------------------------------
(* The io_uring engine.  A call takes the first completion; that it is its *)
(* own follows from there being one transfer at a time until one fails.    *)

\* A completion, the ring, a call and its answer.
Completions == [id : Nat, res : {"whole", "short", "error"}]
RingStates  == [live : BOOLEAN, flight : SUBSET Nat, cq : Seq(Completions)]
IoCalls     == [at : {"idle", "wait"}, kind : {"none", "read", "write"}, id : Nat,
                fd : BOOLEAN, buf : {"none", "malloc", "caller", "returned"}]
IoAnswers   == [id : Nat, ok : BOOLEAN, seen : Nat, whole : BOOLEAN]

\* The types of the ring, the call in progress and the last answer.
IoTypeOK ==
  /\ uring \in RingStates /\ io_call \in IoCalls
  /\ io_ret \in IoAnswers /\ failed \in BOOLEAN

\* Before a failure the ring holds the one transfer of the call in progress and
\* nothing else ...
OneTransfer ==
  IF io_call.at = "idle"
  THEN uring.flight = {} /\ uring.cq = <<>>
  ELSE \/ uring.flight = {io_call.id} /\ uring.cq = <<>>
       \/ /\ uring.flight = {}
          /\ \E res \in {"whole", "short"} : uring.cq = <<[id |-> io_call.id, res |-> res]>>

\* ... and after it an error is the first completion, until the ring goes.
ErrorFirst ==
  /\ io_call.id > 0
  /\ \/ uring.cq # <<>> /\ Head(uring.cq).res = "error"
     \/ ~uring.live /\ io_call.at = "idle" /\ uring.cq = <<>> /\ uring.flight = {}

\* What is in the ring: nothing without one, one transfer before a failure, and the
\* error first after it.
Transfers ==
  /\ io_ret.id <= io_call.id
  /\ io_call.at = "wait" => io_call.id > 0
  /\ failed => ErrorFirst
  /\ ~failed => OneTransfer

\* The inductive invariant of the io_uring engine.
IoInv == IoTypeOK /\ OwnCompletion /\ Transfers

\* Before the first call there is no ring and no transfer.
LEMMA IoInvInit == IoInit => IoInv
<1> SUFFICES ASSUME IoInit PROVE IoInv
  OBVIOUS
<1>1. uring \in RingStates
  BY DEF IoInit, RingStates
<1>2. io_call \in IoCalls
  BY DEF IoInit, IoCalls, NoCall
<1>3. io_ret \in IoAnswers
  BY DEF IoInit, IoAnswers
<1>4. OwnCompletion
  BY DEF IoInit, OwnCompletion
<1>5. Transfers
  BY DEF IoInit, NoCall, Transfers, OneTransfer
<1> QED
  BY <1>1, <1>2, <1>3, <1>4, <1>5 DEF IoInv, IoTypeOK, IoInit

\* A call that fails before it submits is answered by itself; one that submits puts
\* the one transfer under way.
LEMMA StartKeeps ==
  ASSUME IoInv, NEW kind \in {"read", "write"}, NEW buf \in {"malloc", "caller"},
         FileStart(kind, buf)
  PROVE  IoInv'
<1> USE DEF IoInv, IoTypeOK
<1> DEFINE id == io_call.id + 1
<1>0. io_call.id \in Nat /\ io_ret.id \in Nat /\ uring.live /\ io_call.at = "idle" /\ UNCHANGED failed
  BY DEF FileStart, IoCalls, IoAnswers
<1>1. CASE /\ io_call' = [NoCall EXCEPT !.id = id]
           /\ io_ret' = [id |-> id, ok |-> FALSE, seen |-> 0, whole |-> FALSE]
           /\ UNCHANGED uring
  <2>1. io_call'.at = "idle" /\ io_call'.id = id /\ io_ret'.id = id /\ ~io_ret'.ok /\ io_ret'.seen = 0
    BY <1>1 DEF NoCall
  <2>2. io_call' \in IoCalls
    <3>1. io_call' = [at |-> "idle", kind |-> "none", id |-> id, fd |-> FALSE, buf |-> "none"]
      BY <1>1 DEF NoCall
    <3> QED
      BY <1>0, <3>1 DEF IoCalls
  <2>3. io_ret' \in IoAnswers
    BY <1>0, <1>1 DEF IoAnswers
  <2>4. OwnCompletion'
    BY <1>0, <1>1, <2>1 DEF OwnCompletion
  <2>5. Transfers'
    BY <1>0, <1>1, <2>1 DEF Transfers, OneTransfer, ErrorFirst
  <2> QED
    BY <1>0, <1>1, <2>2, <2>3, <2>4, <2>5
<1>2. CASE /\ io_call' = [at |-> "wait", kind |-> kind, id |-> id, fd |-> TRUE, buf |-> buf]
           /\ uring' = [uring EXCEPT !.flight = @ \cup {id}]
           /\ UNCHANGED io_ret
  <2>1. /\ io_call'.at = "wait" /\ io_call'.id = id
        /\ uring'.flight = uring.flight \cup {id} /\ uring'.cq = uring.cq /\ uring'.live = uring.live
    BY <1>2 DEF RingStates
  <2>2. io_call' \in IoCalls
    BY <1>0, <1>2 DEF IoCalls
  <2>3. uring' \in RingStates
    BY <1>0, <1>2 DEF RingStates
  <2>4. OwnCompletion'
    BY <1>0, <1>2, <2>1 DEF OwnCompletion, Transfers
  <2>5. Transfers'
    BY <1>0, <1>2, <2>1 DEF Transfers, OneTransfer, ErrorFirst
  <2> QED
    BY <1>0, <1>2, <2>2, <2>3, <2>4, <2>5
<1> QED
  BY <1>1, <1>2 DEF FileStart

\* The kernel completes the one transfer under way, in any way.
LEMMA CompleteKeeps ==
  ASSUME IoInv, NEW id \in uring.flight, NEW res \in {"whole", "short", "error"},
         Complete(id, res)
  PROVE  IoInv'
<1> USE DEF IoInv, IoTypeOK
<1> DEFINE done == [id |-> id, res |-> res]
<1>1. /\ uring'.live = uring.live /\ uring'.flight = uring.flight \ {id}
      /\ uring'.cq = Append(uring.cq, done) /\ UNCHANGED <<io_call, io_ret>>
      /\ failed' = (failed \/ res = "error")
  BY DEF Complete, RingStates
<1>2. done \in Completions /\ uring.cq \in Seq(Completions)
  BY DEF Completions, RingStates
<1>3. uring' \in RingStates
  <2>1. uring'.cq \in Seq(Completions)
    BY <1>1, <1>2
  <2> QED
    BY <2>1, <1>1 DEF Complete, RingStates
<1>4. CASE failed
  <2>1. uring.cq # <<>> /\ Head(uring.cq).res = "error"
    BY <1>4 DEF Transfers, ErrorFirst
  <2>2. uring'.cq # <<>> /\ Head(uring'.cq) = Head(uring.cq)
    BY <1>1, <1>2, <2>1
  <2>3. OwnCompletion'
    BY <1>1, <1>4 DEF OwnCompletion
  <2>4. Transfers'
    BY <1>1, <1>4, <2>1, <2>2 DEF Transfers, ErrorFirst
  <2> QED
    BY <1>1, <1>3, <2>3, <2>4
<1>5. CASE ~failed
  <2>0. io_call.at \in {"idle", "wait"} /\ io_call.id \in Nat
    BY DEF IoCalls
  <2>1. io_call.at = "wait" /\ uring.flight = {io_call.id} /\ uring.cq = <<>> /\ id = io_call.id
    BY <1>5, <2>0 DEF Transfers, OneTransfer
  <2>2. uring'.flight = {} /\ uring'.cq = <<done>>
    BY <1>1, <2>1
  <2>3. OwnCompletion'
    BY <1>1, <1>5, <2>1, <2>2 DEF OwnCompletion
  <2>4. Transfers'
    <3>1. CASE res = "error"
      <4>1. uring'.cq # <<>> /\ Head(uring'.cq).res = "error"
        BY <2>2, <3>1
      <4> QED
        BY <1>1, <2>0, <2>1, <3>1, <4>1 DEF Transfers, ErrorFirst
    <3>2. CASE res \in {"whole", "short"}
      <4>1. OneTransfer' /\ ~failed'
        BY <1>1, <1>5, <2>1, <2>2, <3>2 DEF OneTransfer
      <4> QED
        BY <1>1, <2>1, <4>1 DEF Transfers
    <3> QED
      BY <3>1, <3>2
  <2> QED
    BY <1>1, <1>3, <2>3, <2>4
<1> QED
  BY <1>4, <1>5

\* Both answers: what the call and its result are afterwards.
LEMMA AnswerFacts ==
  ASSUME IoTypeOK, NEW ok \in BOOLEAN, Waiting, Answer(ok)
  PROVE  /\ io_call' \in IoCalls /\ io_ret' \in IoAnswers
         /\ io_call'.at = "idle" /\ io_call'.id = io_call.id
         /\ io_ret'.id = io_call.id /\ io_ret'.ok = ok /\ io_ret'.seen = Head(uring.cq).id
<1>1. Head(uring.cq) \in Completions
  BY DEF Waiting, IoTypeOK, RingStates
<1>2. Head(uring.cq).id \in Nat /\ (Head(uring.cq).res = "whole") \in BOOLEAN /\ io_call.id \in Nat
  BY <1>1 DEF Completions, IoTypeOK, IoCalls
<1>3. io_call' \in IoCalls
  BY DEF Answer, IoTypeOK, IoCalls
<1>4. io_ret' \in IoAnswers
  BY <1>2 DEF Answer, IoAnswers
<1> QED
  BY <1>3, <1>4 DEF Answer, IoTypeOK, IoCalls

\* A completion with an error is left in the ring (io_uring_engine.c:60).
LEMMA WaitErrorKeeps == IoInv /\ WaitError => IoInv'
<1> SUFFICES ASSUME IoInv, WaitError PROVE IoInv'
  OBVIOUS
<1> USE DEF IoInv
<1>1. failed
  BY DEF WaitError, Waiting, Transfers, OneTransfer
<1>2. /\ io_call' \in IoCalls /\ io_ret' \in IoAnswers
      /\ io_call'.at = "idle" /\ io_call'.id = io_call.id
      /\ io_ret'.id = io_call.id /\ io_ret'.ok = FALSE
  BY AnswerFacts DEF WaitError
<1>3. UNCHANGED <<uring, failed>>
  BY DEF WaitError
<1>4. OwnCompletion'
  BY <1>1, <1>2, <1>3 DEF OwnCompletion
<1>5. io_call.id \in Nat
  BY DEF IoTypeOK, IoCalls
<1>6. Transfers'
  BY <1>1, <1>2, <1>3, <1>5 DEF Transfers, ErrorFirst
<1> QED
  BY <1>2, <1>3, <1>4, <1>6 DEF IoTypeOK

\* A good completion is consumed by the call that waits.
LEMMA WaitOkKeeps == IoInv /\ WaitOk => IoInv'
<1> SUFFICES ASSUME IoInv, WaitOk PROVE IoInv'
  OBVIOUS
<1> USE DEF IoInv
<1>1. ~failed
  BY DEF WaitOk, Waiting, Transfers, ErrorFirst
<1>2. /\ uring.flight = {} /\ io_call.at = "wait"
      /\ \E res \in {"whole", "short"} : uring.cq = <<[id |-> io_call.id, res |-> res]>>
  BY <1>1 DEF WaitOk, Waiting, Transfers, OneTransfer
<1>3. Head(uring.cq).id = io_call.id /\ Tail(uring.cq) = <<>>
  BY <1>2
<1>4. /\ io_call' \in IoCalls /\ io_ret' \in IoAnswers
      /\ io_call'.at = "idle" /\ io_call'.id = io_call.id
      /\ io_ret'.id = io_call.id /\ io_ret'.ok = TRUE /\ io_ret'.seen = io_call.id
  BY <1>3, AnswerFacts DEF WaitOk
<1>5. uring'.flight = {} /\ uring'.cq = <<>> /\ UNCHANGED failed
  BY <1>2, <1>3 DEF WaitOk, IoTypeOK, RingStates
<1>6. uring' \in RingStates
  <2>1. uring' = [uring EXCEPT !.cq = <<>>]
    BY <1>3 DEF WaitOk
  <2>2. <<>> \in Seq(Completions)
    OBVIOUS
  <2> QED
    BY <2>1, <2>2 DEF IoTypeOK, RingStates
<1>7. io_call.id \in Nat
  BY DEF IoTypeOK, IoCalls
<1>8. OwnCompletion' /\ Transfers'
  BY <1>1, <1>4, <1>5, <1>7 DEF OwnCompletion, Transfers, OneTransfer
<1> QED
  BY <1>4, <1>5, <1>6, <1>8 DEF IoTypeOK

\* Every call and every completion keeps the invariant.
LEMMA IoInvStep == IoInv /\ [IoNext]_ioVars => IoInv'
<1> SUFFICES ASSUME IoInv, [IoNext]_ioVars PROVE IoInv'
  OBVIOUS
<1>1. CASE RingInit
  <2>1. /\ uring' \in RingStates /\ uring'.flight = uring.flight /\ uring'.cq = uring.cq
        /\ UNCHANGED <<io_call, io_ret, failed>> /\ io_call.id = 0
    BY <1>1 DEF RingInit, IoInv, IoTypeOK, RingStates
  <2> QED
    BY <2>1 DEF IoInv, IoTypeOK, OwnCompletion, Transfers, OneTransfer, ErrorFirst
<1>2. CASE RingDestroy
  <2>1. /\ uring' \in RingStates /\ uring'.flight = {} /\ uring'.cq = <<>> /\ ~uring'.live
        /\ UNCHANGED <<io_call, io_ret, failed>> /\ io_call.at = "idle"
    BY <1>2 DEF RingDestroy, IoInv, IoTypeOK, RingStates
  <2> QED
    BY <2>1 DEF IoInv, IoTypeOK, OwnCompletion, Transfers, OneTransfer, ErrorFirst
<1>3. CASE ReadFile \/ WriteFile
  BY <1>3, StartKeeps DEF ReadFile, WriteFile
<1>4. CASE WaitError
  BY <1>4, WaitErrorKeeps
<1>5. CASE WaitOk
  BY <1>5, WaitOkKeeps
<1>6. ASSUME NEW id \in uring.flight, NEW res \in {"whole", "short", "error"}, Complete(id, res)
      PROVE  IoInv'
  BY <1>6, CompleteKeeps
<1>7. CASE UNCHANGED ioVars
  BY <1>7 DEF ioVars, IoInv, IoTypeOK, OwnCompletion, Transfers, OneTransfer, ErrorFirst
<1> QED
  BY <1>1, <1>2, <1>3, <1>4, <1>5, <1>6, <1>7 DEF IoNext

\* For any sequence of reads and writes and any outcome of each, a call that returns 0
\* has seen its own completion, and only after a failed transfer does a call see
\* another's (io_uring_engine.c:58, 91).
THEOREM OwnCompletionHolds == IoSpec => []OwnCompletion
<1>1. IoInv => OwnCompletion
  BY DEF IoInv
<1> QED
  BY <1>1, IoInvInit, IoInvStep, PTL DEF IoSpec

-----------------------------------------------------------------------------
(* Fused pipelines.  FusedRight is about a run that is over; FusedInv says *)
(* how far a thread has come at every step of fusing and running.  What    *)
(* the ops of a fusable pipeline come to, in parameters and in bytes, has  *)
(* a closed form, ParamsOf and ByteOf: the kernels compute it, and so does *)
(* the fold over the ops that FusedRight compares them with.               *)

\* An op is among those at the places s of a pipeline.
Has(pipe, s, name) == \E i \in s : pipe[i].op = name

\* The brightness they ask for, of which a fusable pipeline has one at most.
Brights(pipe, s) == {i \in s : pipe[i].op = "bright"}
ValueAt(pipe, s) ==
  LET i == CHOOSE i \in Brights(pipe, s) : TRUE
  IN  IF Has(pipe, s, "bright") /\ pipe[i].val # NULL THEN pipe[i].val ELSE 0

\* What fusing them leaves in the block of parameters.
ParamsOf(pipe, s) ==
  [gray |-> Has(pipe, s, "gray"), bright |-> Has(pipe, s, "bright"), resize |-> FALSE,
   val |-> ValueAt(pipe, s), w |-> 0, h |-> 0]

\* What applying them makes of a byte.
GrayOf(pipe, s, px) == IF Has(pipe, s, "gray") THEN Gray(px) ELSE px
ByteOf(pipe, s, px) ==
  IF Has(pipe, s, "bright") THEN Bright(GrayOf(pipe, s, px), ValueAt(pipe, s))
  ELSE GrayOf(pipe, s, px)

\* The last of some places adds its op to what the others did.
LEMMA LastPlace ==
  ASSUME NEW pipe, Fusable(pipe), NEW s, s \subseteq 1 .. Len(pipe), Len(pipe) \in Nat,
         NEW x \in s, \A y \in s : y <= x
  PROVE  LET r == s \ {x} IN
         /\ pipe[x].op = "gray" => /\ Has(pipe, s, "gray") /\ ~Has(pipe, r, "gray")
                                   /\ ~Has(pipe, s, "bright") /\ ~Has(pipe, r, "bright")
                                   /\ ValueAt(pipe, s) = 0 /\ ValueAt(pipe, r) = 0
         /\ pipe[x].op = "bright" =>
              /\ Has(pipe, s, "bright") /\ ~Has(pipe, r, "bright")
              /\ Has(pipe, s, "gray") = Has(pipe, r, "gray")
              /\ ValueAt(pipe, r) = 0
              /\ ValueAt(pipe, s) = IF pipe[x].val = NULL THEN 0 ELSE pipe[x].val
         /\ pipe[x].op \notin {"gray", "bright"} =>
              /\ Has(pipe, s, "gray") = Has(pipe, r, "gray")
              /\ Has(pipe, s, "bright") = Has(pipe, r, "bright")
              /\ ValueAt(pipe, s) = ValueAt(pipe, r)
         /\ pipe[x].op # "resize"
<1> DEFINE r == s \ {x}
<1>0. \A y \in r : y \in 1 .. Len(pipe) /\ y < x /\ x \in 1 .. Len(pipe)
  OBVIOUS
<1>1. \A name : Has(pipe, s, name) <=> Has(pipe, r, name) \/ pipe[x].op = name
  BY DEF Has
<1>2. pipe[x].op # "resize"
  BY DEF Fusable
<1>3. CASE pipe[x].op = "gray"
  <2>1. \A y \in r : pipe[y].op # "gray" /\ pipe[y].op # "bright"
    BY <1>0, <1>3 DEF Fusable
  <2>2. ~Has(pipe, r, "gray") /\ ~Has(pipe, r, "bright")
    BY <2>1 DEF Has
  <2> QED
    BY <1>1, <1>2, <1>3, <2>2 DEF ValueAt
<1>4. CASE pipe[x].op = "bright"
  <2>1. \A y \in r : pipe[y].op # "bright"
    BY <1>0, <1>4 DEF Fusable
  <2>2. ~Has(pipe, r, "bright")
    BY <2>1 DEF Has
  <2>3. Brights(pipe, s) = {x}
    BY <1>4, <2>1 DEF Brights
  <2>4. ValueAt(pipe, s) = IF pipe[x].val = NULL THEN 0 ELSE pipe[x].val
    BY <1>1, <1>4, <2>3 DEF ValueAt
  <2>5. Has(pipe, s, "gray") = Has(pipe, r, "gray")
    BY <1>1, <1>4 DEF Has
  <2> QED
    BY <1>1, <1>2, <1>4, <2>2, <2>4, <2>5 DEF ValueAt
<1>5. CASE pipe[x].op \notin {"gray", "bright"}
  <2>1. Has(pipe, s, "gray") = Has(pipe, r, "gray") /\ Has(pipe, s, "bright") = Has(pipe, r, "bright")
    BY <1>1, <1>5 DEF Has
  <2>3. Brights(pipe, s) = Brights(pipe, r)
    BY <1>5 DEF Brights
  <2>4. ValueAt(pipe, s) = ValueAt(pipe, r)
    BY <2>1, <2>3 DEF ValueAt
  <2> QED
    BY <1>2, <1>5, <2>1, <2>4
<1> QED
  BY <1>3, <1>4, <1>5

\* Fused takes the parameters one place on,
LEMMA FusedLast ==
  ASSUME NEW pipe, Fusable(pipe), NEW s, s \subseteq 1 .. Len(pipe), Len(pipe) \in Nat,
         NEW x \in s, \A y \in s : y <= x
  PROVE  Fused(ParamsOf(pipe, s \ {x}), pipe[x]) = ParamsOf(pipe, s)
<1> DEFINE r == s \ {x}
<1> HIDE DEF r
<1>1. CASE pipe[x].op = "gray"
  <2>1. /\ Has(pipe, s, "gray") /\ ~Has(pipe, s, "bright")
        /\ ~Has(pipe, r, "bright") /\ ValueAt(pipe, s) = 0 /\ ValueAt(pipe, r) = 0
    BY <1>1, LastPlace DEF r
  <2>2. /\ Has(pipe, s, "gray") = TRUE /\ Has(pipe, s, "bright") = FALSE
        /\ Has(pipe, r, "bright") = FALSE
    BY <2>1 DEF Has
  <2> QED
    BY <1>1, <2>1, <2>2 DEF Fused, ParamsOf, r
<1>2. CASE pipe[x].op = "bright"
  <2>1. /\ Has(pipe, s, "bright") /\ Has(pipe, s, "gray") = Has(pipe, r, "gray")
        /\ ValueAt(pipe, r) = 0
        /\ ValueAt(pipe, s) = IF pipe[x].val = NULL THEN 0 ELSE pipe[x].val
    BY <1>2, LastPlace DEF r
  <2>2. Has(pipe, s, "bright") = TRUE
    BY <2>1 DEF Has
  <2> QED
    BY <1>2, <2>1, <2>2 DEF Fused, ParamsOf, r
<1>3. CASE pipe[x].op \notin {"gray", "bright"}
  <2>1. /\ Has(pipe, s, "gray") = Has(pipe, r, "gray")
        /\ Has(pipe, s, "bright") = Has(pipe, r, "bright")
        /\ ValueAt(pipe, s) = ValueAt(pipe, r) /\ pipe[x].op # "resize"
    BY <1>3, LastPlace DEF r
  <2> QED
    BY <1>3, <2>1 DEF Fused, ParamsOf, r
<1> QED
  BY <1>1, <1>2, <1>3

\* and Apply a byte.
LEMMA ApplyLast ==
  ASSUME NEW pipe, Fusable(pipe), NEW s, s \subseteq 1 .. Len(pipe), Len(pipe) \in Nat,
         NEW x \in s, \A y \in s : y <= x, NEW px
  PROVE  Apply(ByteOf(pipe, s \ {x}, px), pipe[x]) = ByteOf(pipe, s, px)
<1> DEFINE r == s \ {x}
<1> HIDE DEF r
<1>1. CASE pipe[x].op = "gray"
  <2>1. /\ Has(pipe, s, "gray") /\ ~Has(pipe, s, "bright") /\ ~Has(pipe, r, "gray")
        /\ ~Has(pipe, r, "bright")
    BY <1>1, LastPlace DEF r
  <2> QED
    BY <1>1, <2>1 DEF Apply, ByteOf, GrayOf, r
<1>2. CASE pipe[x].op = "bright"
  <2>1. /\ Has(pipe, s, "bright") /\ Has(pipe, s, "gray") = Has(pipe, r, "gray")
        /\ ~Has(pipe, r, "bright")
        /\ ValueAt(pipe, s) = IF pipe[x].val = NULL THEN 0 ELSE pipe[x].val
    BY <1>2, LastPlace DEF r
  <2> QED
    BY <1>2, <2>1 DEF Apply, ByteOf, GrayOf, r
<1>3. CASE pipe[x].op \notin {"gray", "bright"}
  <2>1. /\ Has(pipe, s, "gray") = Has(pipe, r, "gray")
        /\ Has(pipe, s, "bright") = Has(pipe, r, "bright")
        /\ ValueAt(pipe, s) = ValueAt(pipe, r) /\ pipe[x].op # "resize"
    BY <1>3, LastPlace DEF r
  <2> QED
    BY <1>3, <2>1 DEF Apply, ByteOf, GrayOf, r
<1> QED
  BY <1>1, <1>2, <1>3

\* The last of some places, which the library's fold takes first.
LEMMA MaxPlace ==
  ASSUME NEW n \in Nat, NEW s, s \subseteq 1 .. n, s # {}
  PROVE  Max(s) \in s /\ \A y \in s : y <= Max(s)
<1> DEFINE D == {n - y : y \in s}
<1>0. \A y \in s : y \in Nat /\ n - y \in Nat
  <2> TAKE y \in s
  <2>1. y \in 1 .. n
    OBVIOUS
  <2> QED
    BY <2>1
<1>1. D \subseteq Nat /\ D # {}
  <2>1. \A k \in D : k \in Nat
    BY <1>0
  <2>2. D # {}
    OBVIOUS
  <2> QED
    BY <2>1, <2>2
<1>2. \E m \in D : \A k \in D : m <= k
  <2> HIDE DEF D
  <2> QED
    BY <1>1, SmallestNumber
<1>3. PICK m \in D : \A k \in D : m <= k
  BY <1>2
<1>4. PICK x \in s : m = n - x
  OBVIOUS
<1>5. \A y \in s : x >= y
  <2> TAKE y \in s
  <2>1. n - x <= n - y
    BY <1>3, <1>4
  <2>2. x \in Nat /\ y \in Nat
    BY <1>0
  <2> QED
    BY <2>1, <2>2
<1>6. Max(s) \in s /\ \A y \in s : Max(s) >= y
  BY <1>5 DEF Max
<1>7. Max(s) \in Nat /\ \A y \in s : y \in Nat
  BY <1>0, <1>6
<1> QED
  BY <1>6, <1>7

\* What the library's recursive function for the parameters satisfies,
FoldsParams(g, pipe) ==
  g = [s \in SUBSET DOMAIN pipe |->
         IF s = {} THEN NoParams ELSE Fused(g[s \ {Max(s)}], pipe[Max(s)])]

\* and the one for a byte.
FoldsByte(g, pipe, px) ==
  g = [s \in SUBSET DOMAIN pipe |->
         IF s = {} THEN px ELSE Apply(g[s \ {Max(s)}], pipe[Max(s)])]

\* The folds are choices among such functions.
LEMMA FoldIsChosen ==
  ASSUME NEW pipe, NEW px
  PROVE  /\ FoldLeft(Fused, NoParams, pipe) = (CHOOSE g : FoldsParams(g, pipe))[DOMAIN pipe]
         /\ FoldLeft(Apply, px, pipe) = (CHOOSE g : FoldsByte(g, pipe, px))[DOMAIN pipe]
<1>1. FoldLeft(Fused, NoParams, pipe) = (CHOOSE g : FoldsParams(g, pipe))[DOMAIN pipe]
  BY DEF FoldLeft, MapThenFoldSet, FoldsParams
<1>2. FoldLeft(Apply, px, pipe) = (CHOOSE g : FoldsByte(g, pipe, px))[DOMAIN pipe]
  BY DEF FoldLeft, MapThenFoldSet, FoldsByte
<1> QED
  BY <1>1, <1>2

\* The ops of a fusable pipeline, folded over the parameters, leave what was asked for.
LEMMA FoldParams ==
  ASSUME NEW pipe, Fusable(pipe), Len(pipe) \in Nat, DOMAIN pipe = 1 .. Len(pipe)
  PROVE  FoldLeft(Fused, NoParams, pipe) = ParamsOf(pipe, 1 .. Len(pipe))
<1> DEFINE D == 1 .. Len(pipe)
           v(s) == ParamsOf(pipe, s)
           w == [s \in SUBSET D |-> v(s)]
           g == CHOOSE f : FoldsParams(f, pipe)
<1>0. \A s \in SUBSET D : s # {} => Max(s) \in s /\ \A y \in s : y <= Max(s)
  BY MaxPlace
<1>1. \A s \in SUBSET D : v(s) = IF s = {} THEN NoParams
                                 ELSE Fused(v(s \ {Max(s)}), pipe[Max(s)])
  <2> TAKE s \in SUBSET D
  <2>1. CASE s = {}
    <3>1. ~Has(pipe, s, "gray") /\ ~Has(pipe, s, "bright") /\ ValueAt(pipe, s) = 0
      BY <2>1 DEF Has, ValueAt
    <3>2. Has(pipe, s, "gray") = FALSE /\ Has(pipe, s, "bright") = FALSE
      BY <3>1 DEF Has
    <3> QED
      BY <2>1, <3>1, <3>2 DEF ParamsOf, NoParams
  <2>2. CASE s # {}
    BY <1>0, <2>2, FusedLast
  <2> QED
    BY <2>1, <2>2
<1> HIDE DEF v
<1>2. FoldsParams(w, pipe)
  <2>1. \A s \in SUBSET D : w[s \ {Max(s)}] = v(s \ {Max(s)})
    OBVIOUS
  <2>2. w = [s \in SUBSET D |-> IF s = {} THEN NoParams
                                ELSE Fused(w[s \ {Max(s)}], pipe[Max(s)])]
    BY <1>1, <2>1
  <2> HIDE DEF w
  <2> QED
    BY <2>2 DEF FoldsParams
<1> HIDE DEF w
<1>3. FoldsParams(g, pipe)
  BY <1>2
<1> HIDE DEF g
<1>4. \A s \in SUBSET D : g[s] = IF s = {} THEN NoParams
                                 ELSE Fused(g[s \ {Max(s)}], pipe[Max(s)])
  <2> DEFINE e(s) == IF s = {} THEN NoParams ELSE Fused(g[s \ {Max(s)}], pipe[Max(s)])
  <2>1. g = [s \in SUBSET D |-> e(s)]
    BY <1>3 DEF FoldsParams
  <2> HIDE DEF e
  <2>2. \A s \in SUBSET D : g[s] = e(s)
    BY <2>1
  <2> QED
    BY <2>2 DEF e
<1> DEFINE B == {s \in SUBSET D : g[s] # v(s)}
<1>5. B = {}
  <2> SUFFICES ASSUME B # {} PROVE FALSE
    OBVIOUS
  <2>1. B \subseteq SUBSET D /\ IsFiniteSet(D)
    <3>1. IsFiniteSet(D)
      BY FS_Interval
    <3> QED
      BY <3>1
  <2>2. \E m \in B : \A y \in B : y \subseteq m => y = m
    <3> HIDE DEF B, D
    <3> QED
      BY <2>1, SmallestMember
  <2>3. PICK m \in B : \A y \in B : y \subseteq m => y = m
    BY <2>2
  <2>4. m # {}
    BY <1>1, <1>4
  <2>5. m \ {Max(m)} \in SUBSET D /\ m \ {Max(m)} # m
    BY <1>0, <2>4
  <2>6. g[m \ {Max(m)}] = v(m \ {Max(m)})
    BY <2>3, <2>5
  <2> QED
    BY <1>1, <1>4, <2>4, <2>6
<1>6. D \in SUBSET D
  OBVIOUS
<1>7. g[D] = v(D)
  <2> HIDE DEF D
  <2> QED
    BY <1>5, <1>6
<1> QED
  BY <1>7, FoldIsChosen DEF g, v

\* Applied to a byte one after the other, they make of it what the kernels compute.
LEMMA FoldByte ==
  ASSUME NEW pipe, Fusable(pipe), Len(pipe) \in Nat, DOMAIN pipe = 1 .. Len(pipe), NEW px
  PROVE  FoldLeft(Apply, px, pipe) = ByteOf(pipe, 1 .. Len(pipe), px)
<1> DEFINE D == 1 .. Len(pipe)
           v(s) == ByteOf(pipe, s, px)
           w == [s \in SUBSET D |-> v(s)]
           g == CHOOSE f : FoldsByte(f, pipe, px)
<1>0. \A s \in SUBSET D : s # {} => Max(s) \in s /\ \A y \in s : y <= Max(s)
  BY MaxPlace
<1>1. \A s \in SUBSET D : v(s) = IF s = {} THEN px ELSE Apply(v(s \ {Max(s)}), pipe[Max(s)])
  <2> TAKE s \in SUBSET D
  <2>1. CASE s = {}
    BY <2>1 DEF Has, ByteOf, GrayOf
  <2>2. CASE s # {}
    BY <1>0, <2>2, ApplyLast
  <2> QED
    BY <2>1, <2>2
<1> HIDE DEF v
<1>2. FoldsByte(w, pipe, px)
  <2>1. \A s \in SUBSET D : w[s \ {Max(s)}] = v(s \ {Max(s)})
    OBVIOUS
  <2>2. w = [s \in SUBSET D |-> IF s = {} THEN px ELSE Apply(w[s \ {Max(s)}], pipe[Max(s)])]
    BY <1>1, <2>1
  <2> HIDE DEF w
  <2> QED
    BY <2>2 DEF FoldsByte
<1> HIDE DEF w
<1>3. FoldsByte(g, pipe, px)
  BY <1>2
<1> HIDE DEF g
<1>4. \A s \in SUBSET D : g[s] = IF s = {} THEN px ELSE Apply(g[s \ {Max(s)}], pipe[Max(s)])
  <2> DEFINE e(s) == IF s = {} THEN px ELSE Apply(g[s \ {Max(s)}], pipe[Max(s)])
  <2>1. g = [s \in SUBSET D |-> e(s)]
    BY <1>3 DEF FoldsByte
  <2> HIDE DEF e
  <2>2. \A s \in SUBSET D : g[s] = e(s)
    BY <2>1
  <2> QED
    BY <2>2 DEF e
<1> DEFINE B == {s \in SUBSET D : g[s] # v(s)}
<1>5. B = {}
  <2> SUFFICES ASSUME B # {} PROVE FALSE
    OBVIOUS
  <2>1. B \subseteq SUBSET D /\ IsFiniteSet(D)
    <3>1. IsFiniteSet(D)
      BY FS_Interval
    <3> QED
      BY <3>1
  <2>2. \E m \in B : \A y \in B : y \subseteq m => y = m
    <3> HIDE DEF B, D
    <3> QED
      BY <2>1, SmallestMember
  <2>3. PICK m \in B : \A y \in B : y \subseteq m => y = m
    BY <2>2
  <2>4. m # {}
    BY <1>1, <1>4
  <2>5. m \ {Max(m)} \in SUBSET D /\ m \ {Max(m)} # m
    BY <1>0, <2>4
  <2>6. g[m \ {Max(m)}] = v(m \ {Max(m)})
    BY <2>3, <2>5
  <2> QED
    BY <1>1, <1>4, <2>4, <2>6
<1>6. D \in SUBSET D
  OBVIOUS
<1>7. g[D] = v(D)
  <2> HIDE DEF D
  <2> QED
    BY <1>5, <1>6
<1> QED
  BY <1>7, FoldIsChosen DEF g, v

\* The byte at place k of a padded image is its pixel with this number, row by row.
Number(img, k) == img.w * ((k - 1) \div img.stride) + ((k - 1) % img.stride)

\* The bytes a kernel has been at before its step x.
Seen(route, img, x, k) ==
  IF route = "batch" THEN k <= x
  ELSE (k - 1) % img.stride < img.w /\ Number(img, k) < x

\* The byte of step x of the row kernels.
RowPlace(img, x) == (x \div img.w) * img.stride + (x % img.w) + 1

\* The row kernels go through the pixels in order, each once, and leave the padding.
LEMMA RowOrder ==
  ASSUME NEW img \in Images, NEW x \in Nat, x < img.w * img.h
  PROVE  /\ RowPlace(img, x) \in 1 .. img.stride * img.h
         /\ \A k \in 1 .. img.stride * img.h :
              (k - 1) % img.stride < img.w /\ Number(img, k) = x <=> k = RowPlace(img, x)
<1> DEFINE W == img.w
           S == img.stride
           H == img.h
<1>0. W \in Nat \ {0} /\ S \in Nat \ {0} /\ H \in Nat /\ W <= S
  BY ImagesAssumption
<1>a. x < W * H
  OBVIOUS
<1>b. \A k : Number(img, k) = W * ((k - 1) \div S) + ((k - 1) % S)
  BY DEF Number
<1> HIDE DEF W, S, H
<1>1. PICK q \in Nat, r \in 0 .. W - 1 : x = W * q + r /\ q = x \div W /\ r = x % W
  BY <1>0, DivisionIdentity, ModInRange
<1>2. PICK p \in Nat : p = S * q + r
  BY <1>0
<1>3. RowPlace(img, x) = p + 1
  <2>1. q * S = S * q
    BY <1>0
  <2> QED
    BY <1>1, <1>2, <2>1 DEF RowPlace, W, S
<1>4. r \in 0 .. S - 1
  BY <1>0
<1>5. p % S = r /\ p \div S = q
  BY <1>0, <1>2, <1>4, OneQuotient
<1>6. q < H
  <2>1. W * q \in Nat /\ W * H \in Nat
    BY <1>0
  <2>2. W * q < W * H
    BY <1>a, <1>1, <2>1
  <2> QED
    BY <1>0, <2>2, FactorOrder
<1>7. p + 1 \in 1 .. S * H
  <2>1. q + 1 \in Nat /\ q + 1 <= H
    BY <1>0, <1>6
  <2>2. S * (q + 1) <= S * H /\ S * H \in Nat
    BY <1>0, <2>1, FactorOrder
  <2>3. S * (q + 1) = S * q + S /\ S * q \in Nat
    BY <1>0
  <2> QED
    BY <1>0, <1>2, <1>4, <2>2, <2>3
<1>8. ASSUME NEW k \in 1 .. S * H
      PROVE  ((k - 1) % S < W /\ Number(img, k) = x) <=> k = p + 1
  <2>1. S * H \in Nat /\ k - 1 \in Nat
    BY <1>0
  <2> DEFINE a == (k - 1) \div S
             b == (k - 1) % S
  <2>2. a \in Nat /\ b \in 0 .. S - 1 /\ k - 1 = S * a + b
    BY <1>0, <2>1, DivisionIdentity, ModInRange
  <2>3. Number(img, k) = W * a + b
    BY <1>b
  <2>6. k - 1 = p => a = q /\ b = r
    BY <1>5
  <2>7. (k - 1) % S = b
    OBVIOUS
  <2> HIDE DEF a, b
  <2>4. ASSUME b < W, W * a + b = x PROVE k = p + 1
    <3>1. b \in 0 .. W - 1
      BY <1>0, <2>2, <2>4
    <3>2. x % W = b /\ x \div W = a
      BY <1>0, <2>2, <2>4, <3>1, OneQuotient
    <3>3. a = q /\ b = r
      BY <1>1, <3>2
    <3>4. k - 1 = p
      BY <1>2, <2>2, <3>3, Zenon
    <3> QED
      BY <2>1, <3>4
  <2>5. ASSUME k = p + 1 PROVE b < W /\ W * a + b = x
    <3>1. k - 1 = p
      BY <2>5
    <3>2. a = q /\ b = r
      BY <2>6, <3>1
    <3>3. W * a + b = x
      BY <1>1, <3>2, Zenon
    <3>4. r < W
      BY <1>0
    <3> QED
      BY <3>2, <3>3, <3>4
  <2> QED
    BY <2>3, <2>4, <2>5, <2>7
<1> QED
  BY <1>3, <1>7, <1>8 DEF S, H, W

\* After the last step they have been at every pixel.
LEMMA RowsDone ==
  ASSUME NEW img \in Images, NEW k \in 1 .. img.stride * img.h, (k - 1) % img.stride < img.w
  PROVE  Number(img, k) \in Nat /\ Number(img, k) < img.w * img.h
<1> DEFINE W == img.w
           S == img.stride
           H == img.h
<1>0. W \in Nat \ {0} /\ S \in Nat \ {0} /\ H \in Nat /\ W <= S
  BY ImagesAssumption
<1>1. k \in 1 .. S * H /\ (k - 1) % S < W
  OBVIOUS
<1>2. Number(img, k) = W * ((k - 1) \div S) + ((k - 1) % S)
  BY DEF Number
<1> HIDE DEF W, S, H
<1>3. S * H \in Nat /\ k - 1 \in Nat /\ k - 1 < S * H
  BY <1>0, <1>1
<1> DEFINE a == (k - 1) \div S
           b == (k - 1) % S
<1>4. a \in Nat /\ b \in 0 .. S - 1 /\ k - 1 = S * a + b
  BY <1>0, <1>3, DivisionIdentity, ModInRange
<1>9. b < W /\ Number(img, k) = W * a + b
  BY <1>1, <1>2
<1> HIDE DEF a, b
<1>5. S * a < S * H
  <2>1. S * a \in Nat
    BY <1>0, <1>4
  <2> QED
    BY <1>3, <1>4, <2>1
<1>6. a < H
  BY <1>0, <1>4, <1>5, FactorOrder
<1>7. W * (a + 1) <= W * H /\ W * H \in Nat
  <2>1. a + 1 \in Nat /\ a + 1 <= H
    BY <1>0, <1>4, <1>6
  <2> QED
    BY <1>0, <2>1, FactorOrder
<1>8. W * (a + 1) = W * a + W /\ W * a \in Nat
  BY <1>0, <1>4
<1>10. W * a + b \in Nat /\ W * a + b < W * H
  BY <1>0, <1>4, <1>7, <1>8, <1>9
<1> QED
  BY <1>9, <1>10 DEF W, H

\* A thread's record has the fields of NewJob and no other.
Shape(j) ==
  j = [at |-> j.at, pipe |-> j.pipe, i |-> j.i, sig |-> j.sig, ctx |-> j.ctx, img |-> j.img,
       w |-> j.w, h |-> j.h, bytes |-> j.bytes, route |-> j.route, x |-> j.x,
       runs |-> j.runs, fuses |-> j.fuses, clean |-> j.clean]

\* The fusable ops among the first n.
OpsUpTo(pipe, n) == {pipe[i].op : i \in 1 .. n} \cap Fusables

\* The image as it was given to the thread.
Untouched(j) == j.bytes = j.img.bytes /\ j.w = j.img.w /\ j.h = j.img.h

\* A run that FusedRight speaks of: the first, of a fusable pipeline on an image that
\* suits the route, with parameters that nobody else has changed.
SuitsJob(j) ==
  IF j.route = "batch" THEN j.img.stride = j.img.w
  ELSE \A i \in 1 .. Len(j.pipe) : j.pipe[i].val < 32768 - 255
Promised(j) ==
  /\ j.runs = 1 /\ j.route \in {"batch", "rows"}
  /\ j.clean \/ j.ctx = "own"
  /\ Fusable(j.pipe) /\ SuitsJob(j)

\* The image when the kernel is at its step x.
UpTo(route, pipe, img, x) ==
  [k \in 1 .. Len(img.bytes) |->
     IF Seen(route, img, x, k) THEN ByteOf(pipe, 1 .. Len(pipe), img.bytes[k])
     ELSE img.bytes[k]]

\* How far a thread has come with fusing, as long as nobody else fuses,
FusingInv(j, p) ==
  /\ j.at # "idle" => j.pipe \in Pipes /\ j.img \in Images
  /\ j.at = "fuse" => /\ j.i \in 1 .. Len(j.pipe) + 1 /\ j.sig = OpsUpTo(j.pipe, j.i - 1)
                      /\ j.clean /\ Fusable(j.pipe) => p = ParamsOf(j.pipe, 1 .. j.i - 1)
  /\ j.at \in {"fused", "run"} =>
       /\ j.sig = OpsUpTo(j.pipe, Len(j.pipe))
       /\ j.clean /\ Fusable(j.pipe) => p = ParamsOf(j.pipe, 1 .. Len(j.pipe))

\* and with running.
RunningInv(j) ==
  /\ j.runs \in Nat
  /\ j.at = "fuse" => j.runs = 0 /\ Untouched(j)
  /\ j.at = "fused" /\ j.runs = 0 => Untouched(j)
  /\ j.at = "run" => j.runs # 0
  /\ j.at = "run" /\ Promised(j) =>
       /\ j.w = j.img.w /\ j.h = j.img.h /\ j.x \in 0 .. j.w * j.h
       /\ j.bytes = UpTo(j.route, j.pipe, j.img, j.x)
  /\ j.at = "fused" /\ Promised(j) => j.bytes = Sequential(j.pipe, j.img)

\* The inductive invariant of the threads and of g_fused_params.
FusedInv ==
  /\ job = [t \in Threads |-> job[t]]
  /\ \A t \in Threads : Shape(job[t]) /\ FusingInv(job[t], fp) /\ RunningInv(job[t])

\* A pipeline is a sequence of ops with these parameters.
LEMMA PipeFacts ==
  ASSUME NEW pipe \in Pipes
  PROVE  /\ Len(pipe) \in Nat /\ DOMAIN pipe = 1 .. Len(pipe)
         /\ \A i \in 1 .. Len(pipe) : pipe[i].val \in Int /\ (pipe[i].val # NULL => pipe[i].val >= 0)
<1> DEFINE R == [op : STRING, val : {NULL} \cup Nat]
<1>1. pipe \in Seq(R)
  BY PipesAssumption
<1>2. \A r \in R : r.val \in {NULL} \cup Nat
  OBVIOUS
<1> HIDE DEF R
<1>3. Len(pipe) \in Nat /\ DOMAIN pipe = 1 .. Len(pipe)
  BY <1>1, LenProperties
<1>4. \A i \in 1 .. Len(pipe) : pipe[i] \in R
  BY <1>1, ElementOfSeq
<1> QED
  BY <1>2, <1>3, <1>4 DEF NULL

\* What is in an interval.
LEMMA InInterval ==
  ASSUME NEW n \in Nat, NEW x \in 0 .. n
  PROVE  x \in Nat /\ x <= n
OBVIOUS

\* An image is as many bytes as its rows have.
LEMMA ImageFacts ==
  ASSUME NEW img \in Images
  PROVE  /\ img.w \in Nat \ {0} /\ img.h \in Nat /\ img.stride \in Nat \ {0} /\ img.w <= img.stride
         /\ img.w * img.h \in Nat /\ Len(img.bytes) = img.stride * img.h /\ Len(img.bytes) \in Nat
         /\ \A k \in 1 .. Len(img.bytes) : img.bytes[k] \in Nat /\ img.bytes[k] <= 255
<1> DEFINE top == 255
<1>0. top \in Nat
  OBVIOUS
<1>1. /\ img.w \in Nat \ {0} /\ img.h \in Nat /\ img.stride \in Nat \ {0} /\ img.w <= img.stride
      /\ img.bytes \in Seq(0 .. top) /\ Len(img.bytes) = img.stride * img.h
  BY ImagesAssumption
<1> HIDE DEF top
<1>2. img.w * img.h \in Nat
  BY <1>1
<1>3. Len(img.bytes) \in Nat /\ \A k \in 1 .. Len(img.bytes) : img.bytes[k] \in 0 .. top
  BY <1>1, LenProperties, ElementOfSeq
<1>4. \A k \in 1 .. Len(img.bytes) : img.bytes[k] \in Nat /\ img.bytes[k] <= top
  BY <1>0, <1>3, InInterval
<1> QED
  BY <1>1, <1>2, <1>3, <1>4 DEF top

-----------------------------------------------------------------------------
\* The brightness asked for is that of one op, or none.
LEMMA ValueRange ==
  ASSUME NEW pipe \in Pipes, NEW top \in Nat,
         \A i \in 1 .. Len(pipe) : pipe[i].val <= top
  PROVE  ValueAt(pipe, 1 .. Len(pipe)) \in Nat /\ ValueAt(pipe, 1 .. Len(pipe)) <= top
<1> DEFINE D == 1 .. Len(pipe)
<1>1. CASE Has(pipe, D, "bright")
  <2> DEFINE c == CHOOSE i \in Brights(pipe, D) : TRUE
  <2>1. c \in Brights(pipe, D)
    BY <1>1 DEF Has, Brights
  <2>2. c \in D
    BY <2>1 DEF Brights
  <2>3. ValueAt(pipe, D) = IF pipe[c].val # NULL THEN pipe[c].val ELSE 0
    BY <1>1 DEF ValueAt
  <2> HIDE DEF c
  <2>4. /\ pipe[c].val \in Int /\ (pipe[c].val # NULL => pipe[c].val >= 0)
        /\ pipe[c].val <= top
    BY <2>2, PipeFacts
  <2> QED
    BY <2>3, <2>4
<1>2. CASE ~Has(pipe, D, "bright")
  BY <1>2 DEF ValueAt
<1> QED
  BY <1>1, <1>2

\* Gray stays a byte.
LEMMA GrayByte ==
  ASSUME NEW px \in Nat, px <= 255
  PROVE  Gray(px) \in Nat /\ Gray(px) <= 255
<1>1. px * 77 \in Nat /\ px * 77 < 256 * 256
  OBVIOUS
<1> QED
  BY <1>1 DEF Gray

\* The vector loop and the scalar one agree below half the range.
LEMMA VectorAgrees ==
  ASSUME NEW g \in Nat, g <= 255, NEW v \in Nat, v <= 32512
  PROVE  VectorBright(g, v) = Bright(g, v)
BY DEF VectorBright, Bright

\* With the parameters of the whole pipeline the row kernels compute it,
LEMMA RowValueRight ==
  ASSUME NEW t \in Threads, NEW pipe \in Pipes, job[t].pipe = pipe,
         Params(t) = ParamsOf(pipe, 1 .. Len(pipe)),
         \A i \in 1 .. Len(pipe) : pipe[i].val < 32768 - 255, NEW px \in Nat, px <= 255
  PROVE  RowValue(t, px) = ByteOf(pipe, 1 .. Len(pipe), px)
<1> DEFINE D == 1 .. Len(pipe)
           g == GrayOf(pipe, D, px)
           v == ValueAt(pipe, D)
<1>1. g \in Nat /\ g <= 255
  <2>1. g = Gray(px) \/ g = px
    BY DEF GrayOf
  <2>2. Gray(px) \in Nat /\ Gray(px) <= 255 /\ px \in Nat /\ px <= 255
    BY GrayByte
  <2> HIDE DEF g, D, v
  <2> QED
    BY <2>1, <2>2
<1>2. \A i \in 1 .. Len(pipe) : pipe[i].val <= 32512
  <2> TAKE i \in 1 .. Len(pipe)
  <2>1. pipe[i].val \in Int
    BY PipeFacts
  <2> QED
    BY <2>1
<1>3. v \in Nat /\ v <= 32512
  BY <1>2, ValueRange
<1>4. /\ Params(t).gray = Has(pipe, D, "gray") /\ Params(t).bright = Has(pipe, D, "bright")
      /\ Params(t).val = v
  BY DEF ParamsOf
<1>5. VectorBright(g, v) = Bright(g, v)
  <2> HIDE DEF g, v
  <2> QED
    BY <1>1, <1>3, VectorAgrees
<1>6. RowValue(t, px) = IF ~Has(pipe, D, "bright") THEN g
                        ELSE IF InVector(t) THEN VectorBright(g, v) ELSE Bright(g, v)
  BY <1>4 DEF RowValue, GrayOf
<1> QED
  BY <1>5, <1>6 DEF ByteOf

\* and so do the batch kernels, whose ops are those of the signature.
LEMMA BatchValueRight ==
  ASSUME NEW t \in Threads, NEW pipe \in Pipes, Fusable(pipe),
         job[t].sig = OpsUpTo(pipe, Len(pipe)),
         Params(t) = ParamsOf(pipe, 1 .. Len(pipe)), NEW px
  PROVE  BatchValue(t, px) = ByteOf(pipe, 1 .. Len(pipe), px)
<1> DEFINE D == 1 .. Len(pipe)
           sig == OpsUpTo(pipe, Len(pipe))
<1>1. "resize" \notin sig
  BY DEF OpsUpTo, Fusable
<1>2. FusedKernel(sig) = sig
  BY <1>1 DEF FusedKernel
<1>3. ("gray" \in sig <=> Has(pipe, D, "gray")) /\ ("bright" \in sig <=> Has(pipe, D, "bright"))
  BY DEF OpsUpTo, Fusables, Has
<1> HIDE DEF sig
<1>4. Params(t).val = ValueAt(pipe, D)
  BY DEF ParamsOf
<1> QED
  BY <1>2, <1>3, <1>4 DEF BatchValue, ByteOf, GrayOf, sig

\* What the invariant says of one thread.
JobInv(j, p) == Shape(j) /\ FusingInv(j, p) /\ RunningInv(j)

-----------------------------------------------------------------------------
(* The image on its way.                                                   *)

\* Before the first step the image is as it was given,
LEMMA UpToStart ==
  ASSUME NEW img \in Images, NEW route, NEW pipe
  PROVE  UpTo(route, pipe, img, 0) = img.bytes
<1> DEFINE D == 1 .. Len(img.bytes)
<1>1. Len(img.bytes) = img.stride * img.h /\ Len(img.bytes) \in Nat
  BY ImageFacts
<1>2. ASSUME NEW k \in D PROVE ~Seen(route, img, 0, k)
  <2>1. CASE route = "batch"
    BY <1>1, <2>1 DEF Seen
  <2>2. CASE route # "batch"
    <3>1. (k - 1) % img.stride < img.w => Number(img, k) \in Nat
      BY <1>1, RowsDone
    <3> QED
      BY <2>2, <3>1 DEF Seen
  <2> QED
    BY <2>1, <2>2
<1>3. UpTo(route, pipe, img, 0) = [k \in D |-> img.bytes[k]]
  BY <1>2 DEF UpTo
<1>4. img.bytes = [k \in D |-> img.bytes[k]]
  <2> DEFINE top == 255
  <2>1. img.bytes \in Seq(0 .. top)
    BY ImagesAssumption
  <2> HIDE DEF top
  <2>2. img.bytes \in [D -> 0 .. top]
    BY <2>1, LenProperties
  <2> QED
    BY <2>2
<1> QED
  BY <1>3, <1>4

\* after the last every pixel is what the ops make of it,
LEMMA UpToEnd ==
  ASSUME NEW img \in Images, NEW pipe \in Pipes, Fusable(pipe), NEW route,
         route = "batch" => img.stride = img.w
  PROVE  UpTo(route, pipe, img, img.w * img.h) = Sequential(pipe, img)
<1> DEFINE D == 1 .. Len(img.bytes)
           n == img.w * img.h
<1>1. /\ Len(img.bytes) = img.stride * img.h /\ Len(img.bytes) \in Nat
      /\ img.w \in Nat \ {0} /\ img.stride \in Nat \ {0} /\ img.w * img.h \in Nat
  BY ImageFacts
<1>2. \A px : FoldLeft(Apply, px, pipe) = ByteOf(pipe, 1 .. Len(pipe), px)
  BY PipeFacts, FoldByte
<1>3. ASSUME NEW k \in D PROVE Seen(route, img, n, k) <=> (k - 1) % img.stride < img.w
  <2>1. CASE route = "batch"
    <3>1. img.stride = img.w
      BY <2>1
    <3>2. k <= n
      BY <1>1, <3>1
    <3>3. k - 1 \in Nat
      OBVIOUS
    <3>4. (k - 1) % img.stride < img.w
      <4> DEFINE S == img.stride
      <4>1. S \in Nat \ {0}
        BY <1>1
      <4>2. (k - 1) % S \in 0 .. S - 1
        BY <3>3, <4>1, ModInRange
      <4>3. (k - 1) % S < S
        BY <4>1, <4>2
      <4> QED
        BY <3>1, <4>3
    <3> QED
      BY <2>1, <3>2, <3>4 DEF Seen
  <2>2. CASE route # "batch"
    <3>1. (k - 1) % img.stride < img.w => Number(img, k) < n
      BY <1>1, RowsDone
    <3> QED
      BY <2>2, <3>1 DEF Seen
  <2> QED
    BY <2>1, <2>2
<1> HIDE DEF n
<1>4. UpTo(route, pipe, img, n) = Sequential(pipe, img)
  BY <1>2, <1>3 DEF UpTo, Sequential
<1> QED
  BY <1>4 DEF n

\* and a step makes one more byte so, which was untouched.
LEMMA UpToStep ==
  ASSUME NEW img \in Images, NEW pipe, NEW route, route = "batch" => img.stride = img.w,
         NEW x \in Nat, x < img.w * img.h, NEW p,
         p = IF route = "batch" THEN x + 1 ELSE RowPlace(img, x)
  PROVE  /\ p \in 1 .. Len(img.bytes)
         /\ UpTo(route, pipe, img, x)[p] = img.bytes[p]
         /\ UpTo(route, pipe, img, x + 1) =
              [UpTo(route, pipe, img, x) EXCEPT ![p] = ByteOf(pipe, 1 .. Len(pipe), img.bytes[p])]
<1> DEFINE D == 1 .. Len(img.bytes)
<1>1. /\ Len(img.bytes) = img.stride * img.h /\ Len(img.bytes) \in Nat
      /\ img.w * img.h \in Nat
  BY ImageFacts
<1>2. p \in D
  <2>1. CASE route = "batch"
    BY <1>1, <2>1
  <2>2. CASE route # "batch"
    BY <1>1, <2>2, RowOrder
  <2> QED
    BY <2>1, <2>2
<1>3. ASSUME NEW k \in D
      PROVE  (Seen(route, img, x + 1, k) <=> (Seen(route, img, x, k) \/ k = p))
             /\ (k = p => ~Seen(route, img, x, k))
  <2>1. CASE route = "batch"
    BY <1>1, <2>1 DEF Seen
  <2>2. CASE route # "batch"
    <3> DEFINE pixel == (k - 1) % img.stride < img.w
               N == Number(img, k)
    <3>1. pixel => N \in Nat
      BY <1>1, RowsDone
    <3>2. pixel /\ N = x <=> k = p
      BY <1>1, <2>2, RowOrder
    <3>3. /\ Seen(route, img, x, k) <=> pixel /\ N < x
          /\ Seen(route, img, x + 1, k) <=> pixel /\ N < x + 1
      BY <2>2 DEF Seen
    <3> HIDE DEF pixel, N
    <3> QED
      BY <3>1, <3>2, <3>3
  <2> QED
    BY <2>1, <2>2
<1>4. ~Seen(route, img, x, p)
  BY <1>2, <1>3
<1>5. UpTo(route, pipe, img, x)[p] = img.bytes[p]
  BY <1>2, <1>4 DEF UpTo
<1> DEFINE new == [UpTo(route, pipe, img, x) EXCEPT ![p] = ByteOf(pipe, 1 .. Len(pipe), img.bytes[p])]
<1>6. new = [k \in D |-> IF k = p THEN ByteOf(pipe, 1 .. Len(pipe), img.bytes[k])
                         ELSE UpTo(route, pipe, img, x)[k]]
  BY <1>2 DEF UpTo
<1>7. \A k \in D : UpTo(route, pipe, img, x)[k] =
        IF Seen(route, img, x, k) THEN ByteOf(pipe, 1 .. Len(pipe), img.bytes[k]) ELSE img.bytes[k]
  BY DEF UpTo
<1>8. ASSUME NEW k \in D
      PROVE  (IF Seen(route, img, x + 1, k) THEN ByteOf(pipe, 1 .. Len(pipe), img.bytes[k])
              ELSE img.bytes[k]) = new[k]
  BY <1>3, <1>6, <1>7
<1>9. UpTo(route, pipe, img, x + 1) = new
  <2> HIDE DEF new
  <2>1. UpTo(route, pipe, img, x + 1) = [k \in D |-> new[k]]
    BY <1>8 DEF UpTo
  <2>2. new = [k \in D |-> new[k]]
    BY <1>6
  <2> QED
    BY <2>1, <2>2
<1> QED
  BY <1>2, <1>5, <1>9

-----------------------------------------------------------------------------
(* What the steps do to one thread.                                        *)

\* A thread that another one disturbs is promised nothing it was not promised before.
LEMMA DisturbedKeeps ==
  ASSUME NEW j, NEW p, NEW q, JobInv(j, p)
  PROVE  JobInv([j EXCEPT !.clean = FALSE], q)
<1> DEFINE k == [j EXCEPT !.clean = FALSE]
<1>1. Shape(j) /\ FusingInv(j, p) /\ RunningInv(j)
  BY DEF JobInv
<1>2. /\ k.at = j.at /\ k.pipe = j.pipe /\ k.i = j.i /\ k.sig = j.sig /\ k.ctx = j.ctx
      /\ k.img = j.img /\ k.w = j.w /\ k.h = j.h /\ k.bytes = j.bytes /\ k.route = j.route
      /\ k.x = j.x /\ k.runs = j.runs
  BY <1>1 DEF Shape
<1>6. Shape(k)
  <2>1. \A c : Shape([j EXCEPT !.clean = c])
    BY <1>1 DEF Shape
  <2> QED
    BY <2>1
<1>7. k.clean = FALSE
  BY <1>1 DEF Shape
<1> HIDE DEF k
<1>3. FusingInv(k, q)
  BY <1>1, <1>2, <1>7 DEF FusingInv
<1>4. Promised(k) => Promised(j)
  BY <1>2, <1>7 DEF Promised, SuitsJob
<1>5. RunningInv(k)
  BY <1>1, <1>2, <1>4 DEF RunningInv, Untouched
<1> QED
  BY <1>3, <1>5, <1>6 DEF JobInv, k

\* Nothing of the pipeline is fused yet.
LEMMA NothingFused ==
  ASSUME NEW pipe
  PROVE  OpsUpTo(pipe, 0) = {} /\ ParamsOf(pipe, 1 .. 0) = NoParams
<1>1. 1 .. 0 = {}
  OBVIOUS
<1>2. OpsUpTo(pipe, 0) = {}
  BY <1>1 DEF OpsUpTo
<1>3. \A name : Has(pipe, {}, name) = FALSE
  BY DEF Has
<1>4. ValueAt(pipe, {}) = 0
  BY <1>3 DEF ValueAt
<1> QED
  BY <1>1, <1>2, <1>3, <1>4 DEF ParamsOf, NoParams

\* A pipeline begun.
LEMMA ClearStep ==
  ASSUME NEW j, NEW pipe \in Pipes, NEW img \in Images, Shape(j), NEW k,
         k = [j EXCEPT !.at = "fuse", !.pipe = pipe, !.i = 1, !.sig = {},
                       !.img = img, !.w = img.w, !.h = img.h, !.bytes = img.bytes,
                       !.route = "none", !.runs = 0, !.fuses = @ + 1, !.clean = TRUE]
  PROVE  JobInv(k, NoParams)
<1>1. /\ k.at = "fuse" /\ k.pipe = pipe /\ k.i = 1 /\ k.sig = {} /\ k.img = img
      /\ k.w = img.w /\ k.h = img.h /\ k.bytes = img.bytes /\ k.runs = 0 /\ Shape(k)
  BY DEF Shape
<1>2. Len(pipe) \in Nat
  BY PipeFacts
<1>3. k.i \in 1 .. Len(k.pipe) + 1 /\ k.i - 1 = 0
  BY <1>1, <1>2
<1>4. k.sig = OpsUpTo(k.pipe, k.i - 1) /\ NoParams = ParamsOf(k.pipe, 1 .. k.i - 1)
  BY <1>1, <1>3, NothingFused
<1>5. FusingInv(k, NoParams)
  BY <1>1, <1>3, <1>4 DEF FusingInv
<1>6. RunningInv(k)
  BY <1>1 DEF RunningInv, Untouched
<1> QED
  BY <1>1, <1>5, <1>6 DEF JobInv

\* One more op fused.
LEMMA OpStep ==
  ASSUME NEW j, NEW p, JobInv(j, p), j.at = "fuse", j.i <= Len(j.pipe), NEW k,
         k = [j EXCEPT !.i = @ + 1, !.sig = @ \cup ({j.pipe[j.i].op} \cap Fusables)]
  PROVE  JobInv(k, Fused(p, j.pipe[j.i]))
<1>1. Shape(j) /\ FusingInv(j, p) /\ RunningInv(j)
  BY DEF JobInv
<1>2. /\ k.at = "fuse" /\ k.pipe = j.pipe /\ k.i = j.i + 1 /\ k.img = j.img
      /\ k.sig = j.sig \cup ({j.pipe[j.i].op} \cap Fusables)
      /\ k.w = j.w /\ k.h = j.h /\ k.bytes = j.bytes /\ k.runs = j.runs /\ k.clean = j.clean
      /\ Shape(k)
  BY <1>1 DEF Shape
<1>3. /\ j.pipe \in Pipes /\ j.img \in Images /\ j.i \in 1 .. Len(j.pipe) + 1
      /\ j.sig = OpsUpTo(j.pipe, j.i - 1)
      /\ j.clean /\ Fusable(j.pipe) => p = ParamsOf(j.pipe, 1 .. j.i - 1)
  BY <1>1 DEF FusingInv
<1>4. Len(j.pipe) \in Nat
  BY <1>3, PipeFacts
<1> DEFINE s == 1 .. j.i
<1>5. /\ j.i \in s /\ s \subseteq 1 .. Len(j.pipe) /\ s \ {j.i} = 1 .. j.i - 1
      /\ s = (1 .. j.i - 1) \cup {j.i} /\ \A y \in s : y <= j.i
  BY <1>3, <1>4
<1>6. k.i \in 1 .. Len(k.pipe) + 1 /\ k.i - 1 = j.i
  BY <1>2, <1>3, <1>4
<1> HIDE DEF s
<1>7. k.sig = OpsUpTo(k.pipe, k.i - 1)
  <2>1. OpsUpTo(j.pipe, j.i) = OpsUpTo(j.pipe, j.i - 1) \cup ({j.pipe[j.i].op} \cap Fusables)
    BY <1>5 DEF OpsUpTo, s
  <2> QED
    BY <1>2, <1>3, <1>6, <2>1
<1>8. ASSUME k.clean, Fusable(k.pipe)
      PROVE  Fused(p, j.pipe[j.i]) = ParamsOf(k.pipe, 1 .. k.i - 1)
  <2>1. Fusable(j.pipe) /\ p = ParamsOf(j.pipe, s \ {j.i})
    BY <1>2, <1>3, <1>5, <1>8
  <2>2. Fused(ParamsOf(j.pipe, s \ {j.i}), j.pipe[j.i]) = ParamsOf(j.pipe, s)
    BY <1>4, <1>5, <2>1, FusedLast
  <2> QED
    BY <1>2, <1>6, <2>1, <2>2 DEF s
<1>9. FusingInv(k, Fused(p, j.pipe[j.i]))
  BY <1>2, <1>3, <1>6, <1>7, <1>8 DEF FusingInv
<1>10. RunningInv(k)
  BY <1>1, <1>2 DEF RunningInv, Untouched
<1> QED
  BY <1>2, <1>9, <1>10 DEF JobInv

\* All of them fused.
LEMMA DoneStep ==
  ASSUME NEW j, NEW p, JobInv(j, p), j.at = "fuse", j.i > Len(j.pipe), NEW k,
         k = [j EXCEPT !.at = "fused"]
  PROVE  JobInv(k, p)
<1>1. Shape(j) /\ FusingInv(j, p) /\ RunningInv(j)
  BY DEF JobInv
<1>2. /\ k.at = "fused" /\ k.pipe = j.pipe /\ k.img = j.img /\ k.sig = j.sig
      /\ k.w = j.w /\ k.h = j.h /\ k.bytes = j.bytes /\ k.runs = j.runs /\ k.clean = j.clean
      /\ Shape(k)
  BY <1>1 DEF Shape
<1>3. /\ j.pipe \in Pipes /\ j.img \in Images /\ j.i \in 1 .. Len(j.pipe) + 1
      /\ j.sig = OpsUpTo(j.pipe, j.i - 1)
      /\ j.clean /\ Fusable(j.pipe) => p = ParamsOf(j.pipe, 1 .. j.i - 1)
  BY <1>1 DEF FusingInv
<1>4. Len(j.pipe) \in Nat
  BY <1>3, PipeFacts
<1>5. j.i - 1 = Len(j.pipe)
  BY <1>3, <1>4
<1>6. FusingInv(k, p)
  BY <1>2, <1>3, <1>5 DEF FusingInv
<1>7. RunningInv(k)
  BY <1>1, <1>2 DEF RunningInv, Untouched, Promised
<1> QED
  BY <1>2, <1>6, <1>7 DEF JobInv

\* A run begun: the first is of the image as it was given.
LEMMA RunStep ==
  ASSUME NEW j, NEW p, JobInv(j, p), j.at = "fused", NEW route, NEW ctx, NEW k,
         k = [j EXCEPT !.at = "run", !.route = route, !.ctx = ctx, !.x = 0, !.runs = @ + 1]
  PROVE  JobInv(k, p)
<1>1. Shape(j) /\ FusingInv(j, p) /\ RunningInv(j)
  BY DEF JobInv
<1>2. /\ k.at = "run" /\ k.pipe = j.pipe /\ k.img = j.img /\ k.sig = j.sig
      /\ k.w = j.w /\ k.h = j.h /\ k.bytes = j.bytes /\ k.runs = j.runs + 1 /\ k.clean = j.clean
      /\ k.x = 0 /\ Shape(k)
  BY <1>1 DEF Shape
<1>3. FusingInv(k, p) /\ k.img \in Images
  BY <1>1, <1>2 DEF FusingInv
<1>4. j.runs \in Nat /\ (j.runs = 0 => Untouched(j))
  BY <1>1 DEF RunningInv
<1>5. k.runs \in Nat /\ k.runs # 0 /\ (k.runs = 1 => j.runs = 0)
  BY <1>2, <1>4
<1>6. ASSUME Promised(k)
      PROVE  /\ k.w = k.img.w /\ k.h = k.img.h /\ k.x \in 0 .. k.w * k.h
             /\ k.bytes = UpTo(k.route, k.pipe, k.img, k.x)
  <2>1. Untouched(j)
    BY <1>4, <1>5, <1>6 DEF Promised
  <2>2. k.w = k.img.w /\ k.h = k.img.h /\ k.bytes = k.img.bytes
    BY <1>2, <2>1 DEF Untouched
  <2>3. k.img.w * k.img.h \in Nat
    BY <1>3, ImageFacts
  <2>4. k.x \in 0 .. k.w * k.h
    BY <1>2, <2>2, <2>3
  <2> QED
    BY <1>2, <1>3, <2>2, <2>4, UpToStart
<1>7. RunningInv(k)
  BY <1>2, <1>5, <1>6 DEF RunningInv
<1> QED
  BY <1>2, <1>3, <1>7 DEF JobInv

\* A batch run that has no parameters does not count as one.
LEMMA NothingStep ==
  ASSUME NEW j, NEW p, JobInv(j, p), j.at = "fused", NEW at \in {"wild", "fused"}, NEW k,
         k = [j EXCEPT !.at = at, !.route = "nothing", !.runs = @ + 1]
  PROVE  JobInv(k, p)
<1>1. Shape(j) /\ FusingInv(j, p) /\ RunningInv(j)
  BY DEF JobInv
<1>2. /\ k.at = at /\ k.pipe = j.pipe /\ k.img = j.img /\ k.sig = j.sig
      /\ k.route = "nothing" /\ k.runs = j.runs + 1 /\ k.clean = j.clean /\ Shape(k)
  BY <1>1 DEF Shape
<1>3. FusingInv(k, p)
  BY <1>1, <1>2 DEF FusingInv
<1>4. j.runs \in Nat
  BY <1>1 DEF RunningInv
<1>5. k.runs \in Nat /\ k.runs # 0
  BY <1>2, <1>4
<1>6. ~Promised(k)
  BY <1>2 DEF Promised
<1>7. RunningInv(k)
  BY <1>2, <1>5, <1>6 DEF RunningInv
<1> QED
  BY <1>2, <1>3, <1>7 DEF JobInv

\* A byte written: in a promised run the next one, with what the ops make of it.
LEMMA ByteStep ==
  ASSUME NEW j, NEW p, JobInv(j, p), j.at = "run", j.x < j.w * j.h, NEW y, NEW v, NEW k,
         k = [j EXCEPT !.bytes = [@ EXCEPT ![y] = v], !.x = @ + 1],
         Promised(j) => /\ y = IF j.route = "batch" THEN j.x + 1 ELSE RowPlace(j.img, j.x)
                        /\ v = ByteOf(j.pipe, 1 .. Len(j.pipe), j.img.bytes[y])
  PROVE  JobInv(k, p)
<1>1. Shape(j) /\ FusingInv(j, p) /\ RunningInv(j)
  BY DEF JobInv
<1>2. /\ k.at = "run" /\ k.pipe = j.pipe /\ k.img = j.img /\ k.sig = j.sig /\ k.ctx = j.ctx
      /\ k.w = j.w /\ k.h = j.h /\ k.bytes = [j.bytes EXCEPT ![y] = v] /\ k.runs = j.runs
      /\ k.route = j.route /\ k.clean = j.clean /\ k.x = j.x + 1
  BY <1>1 DEF Shape
<1>3. Shape(k)
  BY <1>1 DEF Shape
<1>4. FusingInv(k, p) /\ j.img \in Images
  BY <1>1, <1>2 DEF FusingInv
<1>5. Promised(k) => Promised(j)
  BY <1>2 DEF Promised, SuitsJob
<1>6. ASSUME Promised(k)
      PROVE  /\ k.w = k.img.w /\ k.h = k.img.h /\ k.x \in 0 .. k.w * k.h
             /\ k.bytes = UpTo(k.route, k.pipe, k.img, k.x)
  <2>1. /\ j.w = j.img.w /\ j.h = j.img.h /\ j.x \in 0 .. j.w * j.h
        /\ j.bytes = UpTo(j.route, j.pipe, j.img, j.x)
    BY <1>1, <1>5, <1>6 DEF RunningInv
  <2>2. j.img.w * j.img.h \in Nat
    BY <1>4, ImageFacts
  <2>3. j.x \in Nat /\ j.x < j.img.w * j.img.h /\ j.x + 1 \in 0 .. j.img.w * j.img.h
    BY <2>1, <2>2
  <2>4. j.route = "batch" => j.img.stride = j.img.w
    BY <1>5, <1>6 DEF Promised, SuitsJob
  <2>5. UpTo(j.route, j.pipe, j.img, j.x + 1) =
          [UpTo(j.route, j.pipe, j.img, j.x) EXCEPT
             ![y] = ByteOf(j.pipe, 1 .. Len(j.pipe), j.img.bytes[y])]
    BY <1>4, <1>5, <1>6, <2>3, <2>4, UpToStep
  <2> QED
    BY <1>2, <1>5, <1>6, <2>1, <2>3, <2>5
<1>7. RunningInv(k)
  BY <1>1, <1>2, <1>6 DEF RunningInv
<1> QED
  BY <1>3, <1>4, <1>7 DEF JobInv

\* The last byte written: the image is that of the ops one after the other.
LEMMA LastStep ==
  ASSUME NEW j, NEW p, JobInv(j, p), j.at = "run", j.x = j.w * j.h, NEW w, NEW h, NEW k,
         k = [j EXCEPT !.at = "fused", !.w = w, !.h = h]
  PROVE  JobInv(k, p)
<1>1. Shape(j) /\ FusingInv(j, p) /\ RunningInv(j)
  BY DEF JobInv
<1>2. /\ k.at = "fused" /\ k.pipe = j.pipe /\ k.img = j.img /\ k.sig = j.sig /\ k.ctx = j.ctx
      /\ k.bytes = j.bytes /\ k.runs = j.runs /\ k.route = j.route /\ k.clean = j.clean
  BY <1>1 DEF Shape
<1>3. Shape(k)
  BY <1>1 DEF Shape
<1>4. FusingInv(k, p) /\ j.img \in Images /\ j.pipe \in Pipes
  BY <1>1, <1>2 DEF FusingInv
<1>5. Promised(k) => Promised(j)
  BY <1>2 DEF Promised, SuitsJob
<1>6. ASSUME Promised(k)
      PROVE  k.bytes = Sequential(k.pipe, k.img)
  <2>1. /\ j.w = j.img.w /\ j.h = j.img.h
        /\ j.bytes = UpTo(j.route, j.pipe, j.img, j.x)
    BY <1>1, <1>5, <1>6 DEF RunningInv
  <2>2. Fusable(j.pipe) /\ (j.route = "batch" => j.img.stride = j.img.w)
    BY <1>5, <1>6 DEF Promised, SuitsJob
  <2>3. UpTo(j.route, j.pipe, j.img, j.img.w * j.img.h) = Sequential(j.pipe, j.img)
    BY <1>4, <2>2, UpToEnd
  <2> QED
    BY <1>2, <2>1, <2>3
<1>7. RunningInv(k)
  BY <1>1, <1>2, <1>6 DEF RunningInv
<1> QED
  BY <1>3, <1>4, <1>7 DEF JobInv

\* A promised run reads the parameters of its own pipeline.
LEMMA ParamsRight ==
  ASSUME NEW t \in Threads, JobInv(job[t], fp), job[t].at = "run", Promised(job[t])
  PROVE  Params(t) = ParamsOf(job[t].pipe, 1 .. Len(job[t].pipe))
<1>1. /\ job[t].pipe \in Pipes /\ Fusable(job[t].pipe)
      /\ job[t].clean => fp = ParamsOf(job[t].pipe, 1 .. Len(job[t].pipe))
  BY DEF JobInv, FusingInv, Promised
<1>2. CASE job[t].ctx = "static"
  BY <1>1, <1>2 DEF Promised, Params
<1>3. CASE job[t].ctx # "static"
  BY <1>1, <1>3, PipeFacts, FoldParams DEF Params
<1> QED
  BY <1>2, <1>3

\* What a promised run writes is what the ops make of the byte that was given.
LEMMA ValueRight ==
  ASSUME NEW t \in Threads, JobInv(job[t], fp), job[t].at = "run", Promised(job[t]),
         job[t].x < job[t].w * job[t].h, NEW y,
         y = IF job[t].route = "batch" THEN BatchByte(t) ELSE RowByte(t)
  PROVE  /\ y = IF job[t].route = "batch" THEN job[t].x + 1 ELSE RowPlace(job[t].img, job[t].x)
         /\ (IF job[t].route = "batch" THEN BatchValue(t, job[t].bytes[y])
             ELSE RowValue(t, job[t].bytes[y]))
            = ByteOf(job[t].pipe, 1 .. Len(job[t].pipe), job[t].img.bytes[y])
<1> DEFINE j == job[t]
<1>1. Shape(j) /\ FusingInv(j, fp) /\ RunningInv(j)
  BY DEF JobInv
<1>2. j.pipe \in Pipes /\ j.img \in Images /\ j.sig = OpsUpTo(j.pipe, Len(j.pipe))
  BY <1>1 DEF FusingInv
<1>3. /\ j.w = j.img.w /\ j.h = j.img.h /\ j.x \in 0 .. j.w * j.h
      /\ j.bytes = UpTo(j.route, j.pipe, j.img, j.x)
  BY <1>1 DEF RunningInv
<1>4. j.img.w * j.img.h \in Nat
  BY <1>2, ImageFacts
<1>5. j.x \in Nat /\ j.x < j.img.w * j.img.h
  BY <1>3, <1>4
<1>6. y = IF j.route = "batch" THEN j.x + 1 ELSE RowPlace(j.img, j.x)
  BY <1>3 DEF BatchByte, RowByte, RowPlace
<1>7. Fusable(j.pipe) /\ (j.route = "batch" => j.img.stride = j.img.w)
  BY DEF Promised, SuitsJob
<1>8. y \in 1 .. Len(j.img.bytes) /\ UpTo(j.route, j.pipe, j.img, j.x)[y] = j.img.bytes[y]
  <2>0. PICK route : route = j.route
    OBVIOUS
  <2>1. PICK img \in Images, pipe \in Pipes, x \in Nat :
          img = j.img /\ pipe = j.pipe /\ x = j.x
    BY <1>2, <1>5
  <2>2. /\ route = "batch" => img.stride = img.w
        /\ x < img.w * img.h
        /\ y = IF route = "batch" THEN x + 1 ELSE RowPlace(img, x)
    BY <1>5, <1>6, <1>7, <2>0, <2>1
  <2>3. y \in 1 .. Len(img.bytes) /\ UpTo(route, pipe, img, x)[y] = img.bytes[y]
    <3>1. /\ y \in 1 .. Len(img.bytes)
          /\ UpTo(route, pipe, img, x)[y] = img.bytes[y]
          /\ UpTo(route, pipe, img, x + 1) =
               [UpTo(route, pipe, img, x) EXCEPT ![y] = ByteOf(pipe, 1 .. Len(pipe), img.bytes[y])]
      BY <2>2, UpToStep, SMT
    <3> QED
      BY <3>1
  <2> QED
    BY <2>0, <2>1, <2>3
<1>9. j.bytes[y] = j.img.bytes[y]
  BY <1>3, <1>8
<1>10. j.img.bytes[y] \in Nat /\ j.img.bytes[y] <= 255
  BY <1>2, <1>8, ImageFacts
<1>11. Params(t) = ParamsOf(j.pipe, 1 .. Len(j.pipe))
  BY ParamsRight
<1>12. CASE j.route = "batch"
  BY <1>2, <1>6, <1>7, <1>9, <1>11, <1>12, BatchValueRight
<1>13. CASE j.route # "batch"
  <2>1. \A i \in 1 .. Len(j.pipe) : j.pipe[i].val < 32768 - 255
    BY <1>13 DEF Promised, SuitsJob
  <2>2. RowValue(t, j.img.bytes[y]) = ByteOf(j.pipe, 1 .. Len(j.pipe), j.img.bytes[y])
    BY <1>2, <1>10, <1>11, <2>1, RowValueRight
  <2> QED
    BY <1>6, <1>9, <1>13, <2>2
<1> QED
  BY <1>12, <1>13

\* At the start nobody has fused anything.
LEMMA FusedStart == FusedInitial => FusedInv
<1> SUFFICES ASSUME FusedInitial PROVE FusedInv
  OBVIOUS
<1> DEFINE img == CHOOSE m \in Images : TRUE
           n == NewJob
<1>1. /\ n.at = "idle" /\ n.runs = 0
  BY DEF NewJob
<1>2. Shape(n)
  BY DEF NewJob, Shape
<1>3. job = [t \in Threads |-> n]
  BY DEF FusedInitial
<1> HIDE DEF n
<1>4. FusingInv(n, fp)
  BY <1>1 DEF FusingInv
<1>5. RunningInv(n)
  BY <1>1 DEF RunningInv
<1>6. \A t \in Threads : job[t] = n
  BY <1>3
<1>7. job = [t \in Threads |-> job[t]]
  BY <1>3
<1> QED
  BY <1>2, <1>4, <1>5, <1>6, <1>7 DEF FusedInv

\* A step that leaves the parameters and the other threads alone.
LEMMA OwnStep ==
  ASSUME FusedInv, NEW t \in Threads, NEW k, JobInv(k, fp),
         job' = [job EXCEPT ![t] = k], fp' = fp
  PROVE  FusedInv'
<1>1. /\ job = [u \in Threads |-> job[u]]
      /\ \A u \in Threads : JobInv(job[u], fp)
  BY DEF FusedInv, JobInv
<1>2. job' = [u \in Threads |-> IF u = t THEN k ELSE job[u]]
  BY <1>1
<1>3. \A u \in Threads : job'[u] = IF u = t THEN k ELSE job[u]
  BY <1>2
<1>4. job' = [u \in Threads |-> job'[u]]
  BY <1>2
<1>5. \A u \in Threads : JobInv(job'[u], fp')
  BY <1>1, <1>3
<1> QED
  BY <1>4, <1>5 DEF FusedInv, JobInv

\* A step that fuses: the others cannot rely on the parameters any more.
LEMMA FuseStep ==
  ASSUME FusedInv, NEW t \in Threads, NEW k, NEW q, JobInv(k, q),
         job' = Disturbed(t, [job EXCEPT ![t] = k]), fp' = q
  PROVE  FusedInv'
<1>1. /\ job = [u \in Threads |-> job[u]]
      /\ \A u \in Threads : JobInv(job[u], fp)
  BY DEF FusedInv, JobInv
<1> DEFINE f == [job EXCEPT ![t] = k]
<1>2. \A u \in Threads : f[u] = IF u = t THEN k ELSE job[u]
  BY <1>1
<1>3. job' = [u \in Threads |-> IF u = t THEN f[u] ELSE [f[u] EXCEPT !.clean = FALSE]]
  BY DEF Disturbed
<1> HIDE DEF f
<1>4. job' = [u \in Threads |-> job'[u]]
  BY <1>3
<1>5. ASSUME NEW u \in Threads PROVE JobInv(job'[u], q)
  <2>1. CASE u = t
    BY <1>2, <1>3, <2>1
  <2>2. CASE u # t
    <3>1. job'[u] = [job[u] EXCEPT !.clean = FALSE]
      BY <1>2, <1>3, <2>2
    <3> QED
      BY <1>1, <3>1, DisturbedKeeps
  <2> QED
    BY <2>1, <2>2
<1> QED
  BY <1>4, <1>5 DEF FusedInv, JobInv

\* What the invariant says in the terms of the steps' lemmas.
LEMMA EachJob ==
  ASSUME FusedInv
  PROVE  /\ job = [u \in Threads |-> job[u]]
         /\ \A u \in Threads : JobInv(job[u], fp)
BY DEF FusedInv, JobInv

\* Fusing keeps the invariant,
LEMMA FusingKeeps ==
  ASSUME FusedInv, NEW t \in Threads,
         (\E pipe \in Pipes, img \in Images : FuseClear(t, pipe, img)) \/ FuseOp(t) \/ FuseDone(t)
  PROVE  FusedInv'
<1> DEFINE j == job[t]
<1>1. job = [u \in Threads |-> job[u]] /\ JobInv(j, fp) /\ Shape(j)
  BY EachJob DEF JobInv
<1>2. CASE \E pipe \in Pipes, img \in Images : FuseClear(t, pipe, img)
  <2>1. PICK pipe \in Pipes, img \in Images : FuseClear(t, pipe, img)
    BY <1>2
  <2>2. PICK k : k = Fusing(t, pipe, img)
    OBVIOUS
  <2>3. JobInv(k, NoParams)
    BY <1>1, <2>2, ClearStep DEF Fusing
  <2>4. job' = Disturbed(t, [job EXCEPT ![t] = k]) /\ fp' = NoParams
    BY <2>1, <2>2 DEF FuseClear
  <2> QED
    BY <2>3, <2>4, FuseStep
<1>3. CASE FuseOp(t)
  <2>1. PICK k : k = [j EXCEPT !.i = @ + 1, !.sig = @ \cup ({j.pipe[j.i].op} \cap Fusables)]
    OBVIOUS
  <2>2. PICK q : q = Fused(fp, j.pipe[j.i])
    OBVIOUS
  <2>3. JobInv(k, q)
    BY <1>1, <1>3, <2>1, <2>2, OpStep DEF FuseOp
  <2>4. job' = Disturbed(t, [job EXCEPT ![t] = k]) /\ fp' = q
    BY <1>1, <1>3, <2>1, <2>2 DEF FuseOp
  <2> QED
    BY <2>3, <2>4, FuseStep
<1>4. CASE FuseDone(t)
  <2>1. PICK k : k = [j EXCEPT !.at = "fused"]
    OBVIOUS
  <2>2. JobInv(k, fp)
    BY <1>1, <1>4, <2>1, DoneStep DEF FuseDone
  <2>3. job' = [job EXCEPT ![t] = k] /\ fp' = fp
    BY <1>1, <1>4, <2>1 DEF FuseDone
  <2> QED
    BY <2>2, <2>3, OwnStep
<1> QED
  BY <1>2, <1>3, <1>4

\* and so does starting a run,
LEMMA StartingKeeps ==
  ASSUME FusedInv, NEW t \in Threads, RunFusedBatch(t) \/ RunBatch(t) \/ RunSingle(t)
  PROVE  FusedInv'
<1> DEFINE j == job[t]
<1>1. job = [u \in Threads |-> job[u]] /\ JobInv(j, fp)
  BY EachJob
<1>2. j.at = "fused" /\ fp' = fp
  BY DEF RunFusedBatch, RunBatch, RunSingle, CanRun
<1>3. ASSUME NEW route, NEW ctx, Runs(t, route, ctx) PROVE FusedInv'
  <2>1. PICK k : k = [j EXCEPT !.at = "run", !.route = route, !.ctx = ctx, !.x = 0, !.runs = @ + 1]
    OBVIOUS
  <2>2. JobInv(k, fp)
    BY <1>1, <1>2, <2>1, RunStep
  <2>3. job' = [job EXCEPT ![t] = k]
    BY <1>1, <1>3, <2>1 DEF Runs
  <2> QED
    BY <1>2, <2>2, <2>3, OwnStep
<1>4. ASSUME NEW at \in {"wild", "fused"},
             job' = [job EXCEPT ![t].at = at, ![t].route = "nothing", ![t].runs = @ + 1]
      PROVE  FusedInv'
  <2>1. PICK k : k = [j EXCEPT !.at = at, !.route = "nothing", !.runs = @ + 1]
    OBVIOUS
  <2>2. JobInv(k, fp)
    BY <1>1, <1>2, <2>1, NothingStep
  <2>3. job' = [job EXCEPT ![t] = k]
    BY <1>1, <1>4, <2>1
  <2> QED
    BY <1>2, <2>2, <2>3, OwnStep
<1>5. \/ Runs(t, RouteOf(t), "static") \/ Runs(t, RouteOf(t), job[t].ctx) \/ Runs(t, "rows", "own")
      \/ \E at \in {"wild", "fused"} :
           job' = [job EXCEPT ![t].at = at, ![t].route = "nothing", ![t].runs = @ + 1]
  BY DEF RunFusedBatch, RunBatch, RunSingle
<1> QED
  BY <1>3, <1>4, <1>5

\* and running.
LEMMA KernelKeeps ==
  ASSUME FusedInv, NEW t \in Threads, KernelByte(t) \/ KernelDone(t)
  PROVE  FusedInv'
<1> DEFINE j == job[t]
<1>1. job = [u \in Threads |-> job[u]] /\ JobInv(j, fp)
  BY EachJob
<1>2. CASE KernelByte(t)
  <2>1. j.at = "run" /\ j.x < j.w * j.h /\ fp' = fp
    BY <1>2 DEF KernelByte
  <2>2. PICK y : y = IF j.route = "batch" THEN BatchByte(t) ELSE RowByte(t)
    OBVIOUS
  <2>3. PICK v : v = IF j.route = "batch" THEN BatchValue(t, j.bytes[y]) ELSE RowValue(t, j.bytes[y])
    OBVIOUS
  <2>4. PICK k : k = [j EXCEPT !.bytes = [@ EXCEPT ![y] = v], !.x = @ + 1]
    OBVIOUS
  <2>5. Promised(j) =>
          /\ y = IF j.route = "batch" THEN j.x + 1 ELSE RowPlace(j.img, j.x)
          /\ v = ByteOf(j.pipe, 1 .. Len(j.pipe), j.img.bytes[y])
    BY <1>1, <2>1, <2>2, <2>3, ValueRight
  <2>6. JobInv(k, fp)
    BY <1>1, <2>1, <2>4, <2>5, ByteStep
  <2>7. job' = [job EXCEPT ![t] = k]
    BY <1>1, <1>2, <2>2, <2>3, <2>4 DEF KernelByte
  <2> QED
    BY <2>1, <2>6, <2>7, OwnStep
<1>3. CASE KernelDone(t)
  <2>1. j.at = "run" /\ j.x = j.w * j.h /\ fp' = fp
    BY <1>3 DEF KernelDone
  <2>2. PICK w, h : job' = [job EXCEPT ![t].at = "fused", ![t].w = w, ![t].h = h]
    BY <1>3 DEF KernelDone
  <2>3. PICK k : k = [j EXCEPT !.at = "fused", !.w = w, !.h = h]
    OBVIOUS
  <2>4. JobInv(k, fp)
    BY <1>1, <2>1, <2>3, LastStep
  <2>5. job' = [job EXCEPT ![t] = k]
    BY <1>1, <2>2, <2>3
  <2> QED
    BY <2>1, <2>4, <2>5, OwnStep
<1> QED
  BY <1>2, <1>3

\* FusedInv is inductive.
LEMMA FusedInvStep == FusedInv /\ [FusedNext]_fusedVars => FusedInv'
<1> SUFFICES ASSUME FusedInv, [FusedNext]_fusedVars PROVE FusedInv'
  OBVIOUS
<1>1. CASE FusedNext
  BY <1>1, FusingKeeps, StartingKeeps, KernelKeeps DEF FusedNext
<1>2. CASE UNCHANGED fusedVars
  BY <1>2 DEF fusedVars, FusedInv
<1> QED
  BY <1>1, <1>2

\* A finished run that FusedRight speaks of was promised.
LEMMA FusedInvRight == FusedInv => FusedRight
<1> SUFFICES ASSUME FusedInv, NEW t \in Threads,
                    job[t].at = "fused", job[t].runs = 1, job[t].route \in {"batch", "rows"},
                    job[t].clean \/ job[t].ctx = "own", Fusable(job[t].pipe), Suits(t)
             PROVE  job[t].bytes = Sequential(job[t].pipe, job[t].img)
  BY DEF FusedRight
<1>1. Promised(job[t])
  BY DEF Promised, SuitsJob, Suits
<1> QED
  BY <1>1 DEF FusedInv, RunningInv

\* FusedRight.
THEOREM FusedRightHolds == FusedSpec => []FusedRight
BY FusedStart, FusedInvStep, FusedInvRight, PTL DEF FusedSpec

-----------------------------------------------------------------------------
(* The parts together.                                                     *)

\* Processing interleaves its parts and couples none of them: what it does is, seen
\* from each part, a behaviour of that part, which its theorems are about.
THEOREM PartsApart == Spec => EngineSpec /\ FusedSpec /\ ArenaSpec /\ RemoteSpec /\ IoSpec
<1>1. Init => EngineInit /\ FusedInitial /\ ArenaInit /\ RemoteInit /\ IoInit
  BY DEF Init
<1>2. [Next]_vars => /\ [EngineNext]_engineVars /\ [FusedNext]_fusedVars /\ [ArenaNext]_arenaVars
                     /\ [RemoteNext]_remoteVars /\ [IoNext]_ioVars
  BY DEF Next, vars
<1> QED
  BY <1>1, <1>2, PTL DEF Spec, EngineSpec, FusedSpec, ArenaSpec, RemoteSpec, IoSpec

=============================================================================
