------------------------------- MODULE Arena -------------------------------
(***************************************************************************)
(* The bump allocator of memory/arena.c on size_t values that wrap at      *)
(* Word.  `given' is a history of the blocks handed out since the last     *)
(* reset, each with the size its caller asked for.  Line stands for the 64 *)
(* of align64; offsets are relative to base.                               *)
(***************************************************************************)
EXTENDS Integers, FiniteSets

CONSTANTS
  Word,        \* SIZE_MAX + 1
  Line,        \* 64, what align64 rounds up to
  Capacities,  \* sizes that img_arena_create is given
  Aligns,      \* alignments, powers of two up to a line
  MaxBlocks    \* bound: blocks handed out between two resets

ASSUME WordAssumption == Word \in Nat \ {0} /\ Line \in Nat \ {0} /\ Word % Line = 0
ASSUME CapacityAssumption ==
  Capacities \subseteq 0 .. Word - 1 /\ Aligns \subseteq 1 .. Line

VARIABLES
  arena,       \* the img_arena_t
  given,       \* history: the blocks given since the last reset
  biggest      \* history: the largest size asked for since then

arenaVars == <<arena, given, biggest>>

NoArena == [live |-> FALSE, size |-> 0, offset |-> 0]

Wrap(x) == x % Word

\* x & ~(a - 1) for a power of two a
RoundDown(x, a) == x - (x % a)
Align64(x) == RoundDown(Wrap(x + Line - 1), Line)

ArenaInit == arena = NoArena /\ given = {} /\ biggest = 0

LargerOf(a, b) == IF a > b THEN a ELSE b

-----------------------------------------------------------------------------
\* img_arena_create; either allocation may fail and leaves nothing.
ArenaCreate(n) ==
  /\ ~arena.live
  /\ arena' = [live |-> TRUE, size |-> Align64(n), offset |-> 0]
  /\ given' = {} /\ biggest' = 0

Give(how, at, n, end) ==
  /\ arena' = [arena EXCEPT !.offset = end]
  /\ given' = given \cup {[how |-> how, at |-> at, size |-> n]}
  /\ biggest' = LargerOf(biggest, n)

Refuse(n) ==
  /\ biggest' = LargerOf(biggest, n)
  /\ UNCHANGED <<arena, given>>

\* Mutation: the offset is moved by the size asked for, not the rounded one.
ArenaAllocUnrounded(n) ==
  /\ arena.live
  /\ IF Wrap(arena.offset + n) > arena.size
       THEN Refuse(n)
       ELSE Give("plain", arena.offset, n, Wrap(arena.offset + n))

\* img_arena_alloc
ArenaAlloc(n) ==
  LET size == Align64(n) IN
  /\ arena.live
  /\ IF Wrap(arena.offset + size) > arena.size
       THEN Refuse(n)
       ELSE Give("plain", arena.offset, n, Wrap(arena.offset + size))

\* img_arena_alloc_aligned: the size is not rounded, so the next plain block
\* may start off the line.
ArenaAllocAligned(n, a) ==
  LET start == RoundDown(Wrap(arena.offset + a - 1), a) IN
  /\ arena.live
  /\ IF Wrap(start + n) > arena.size
       THEN Refuse(n)
       ELSE Give("aligned", start, n, Wrap(start + n))

\* img_arena_reset: the blocks handed out so far are void.
ArenaReset ==
  /\ arena.live
  /\ arena' = [arena EXCEPT !.offset = 0]
  /\ given' = {} /\ biggest' = 0

ArenaDestroy ==
  /\ arena.live
  /\ arena' = NoArena /\ given' = {} /\ biggest' = 0

Requests == 0 .. Word - 1

ArenaNext ==
  \/ \E n \in Capacities : ArenaCreate(n)
  \/ /\ Cardinality(given) < MaxBlocks
     /\ \E n \in Requests :
          ArenaAlloc(n) \/ \E a \in Aligns : ArenaAllocAligned(n, a)
  \/ ArenaReset \/ ArenaDestroy

ArenaSpec == ArenaInit /\ [][ArenaNext]_arenaVars

-----------------------------------------------------------------------------
ArenaTypeOK ==
  /\ arena \in [live : BOOLEAN, size : 0 .. Word - 1, offset : 0 .. Word - 1]
  /\ \A b \in given : b.at \in 0 .. Word - 1 /\ b.size \in Requests
  /\ biggest \in Requests

\* No request came near the end of size_t.
Modest == arena.size + biggest + Line <= Word

\* While no request is so large that offset + size or align64(size) can wrap
\* (arena.c:9, 40, 54, 56), the blocks of one arena lie inside it and apart
\* from each other, in any mixture of the two ways to allocate; and plain
\* blocks start on a line unless an aligned block of an odd size came between
\* (arena.c:60).
ArenaSound ==
  Modest =>
    /\ \A b \in given : b.at + b.size <= arena.offset
    /\ arena.offset <= arena.size
    /\ \A b, c \in given :
         b = c \/ b.at + b.size <= c.at \/ c.at + c.size <= b.at
    /\ (\A b \in given : b.how = "aligned" => (b.at + b.size) % Line = 0)
         => \A b \in given : b.how = "plain" => b.at % Line = 0

=============================================================================
