-------------------------- MODULE BlockAllocators ---------------------------
(***************************************************************************)
(* PoolAllocator and ArenaAllocator, each used by one thread. The pool's   *)
(* free list is threaded through the blocks themselves: a block's first    *)
(* word is `next' while the block is free and belongs to the user          *)
(* otherwise. The user returns what it holds, once, and stops using what   *)
(* it was given when it calls reset().                                     *)
(***************************************************************************)
EXTENDS Integers, Sequences, FiniteSets

CONSTANTS
  BlockCount,
  Capacity,      \* of the arena
  kAlignment,    \* alignof(std::max_align_t)
  ArenaBuffer,   \* buffer_, what operator new returned for kAlignment
  Sizes, Alignments,
  SizeMod        \* 2^64

ASSUME BlockAssumption ==
  /\ BlockCount \in Nat \ {0} /\ Capacity \in Nat \ {0}
  /\ kAlignment \in Nat \ {0} /\ ArenaBuffer \in Nat /\ ArenaBuffer % kAlignment = 0
  /\ Sizes \subseteq Nat /\ Alignments \subseteq Nat \ {0} /\ SizeMod \in Nat \ {0}
  /\ \A t \in Alignments : \E k \in 0..t : t = 2^k
  /\ \A s \in Sizes, t \in Alignments : Capacity + s + t < SizeMod

VARIABLES
  freeList, word, \* the head (0 is nullptr) and the first word of every block
  available_,
  inUse,          \* history: blocks the user holds
  offset_,
  given           \* history: <<address, size, alignment>> of the arena's live pieces

freeVars == <<freeList, word, available_, inUse>>
blockVars == <<freeList, word, available_, inUse, offset_, given>>

Blocks == 1..BlockCount

\* buildFreeList pushes the blocks in order, so the last one comes first.
BuiltWords == [b \in Blocks |-> b - 1]

BlocksInit ==
  /\ freeList = BlockCount /\ word = BuiltWords /\ available_ = BlockCount /\ inUse = {}
  /\ offset_ = 0 /\ given = {}

\* Mutant of poolAllocate: the head is not advanced.
AllocateHead ==
  /\ freeList # 0
  /\ available_' = available_ - 1
  /\ inUse' = inUse \cup {freeList}
  /\ UNCHANGED <<freeList, word, offset_, given>>

\* nullptr when the list is empty, which changes nothing.
poolAllocate ==
  /\ freeList # 0
  /\ freeList' = word[freeList]
  /\ available_' = available_ - 1
  /\ inUse' = inUse \cup {freeList}
  /\ UNCHANGED <<word, offset_, given>>

\* The user fills a block, the word of the list included.
UserWrites(b) ==
  /\ b \in inUse
  /\ \E x \in 0..BlockCount : word' = [word EXCEPT ![b] = x]
  /\ UNCHANGED <<freeList, available_, inUse, offset_, given>>

poolDeallocate(b) ==
  /\ b \in inUse
  /\ word' = [word EXCEPT ![b] = freeList]
  /\ freeList' = b
  /\ available_' = available_ + 1
  /\ inUse' = inUse \ {b}
  /\ UNCHANGED <<offset_, given>>

poolReset ==
  /\ freeList' = BlockCount /\ word' = BuiltWords /\ available_' = BlockCount
  /\ inUse' = {}
  /\ UNCHANGED <<offset_, given>>

-----------------------------------------------------------------------------
(* ArenaAllocator                                                          *)

\* (value + (alignment - 1)) & ~(alignment - 1), alignment being a power of two.
align(value, alignment) ==
  (((value + (alignment - 1)) % SizeMod) \div alignment) * alignment

\* Mutant of arenaAllocate: the bound is checked before aligning.
AllocateUnaligned(size, alignment) ==
  LET current == align(offset_, alignment) IN
  /\ (offset_ + size) % SizeMod <= Capacity
  /\ offset_' = (current + size) % SizeMod
  /\ given' = given \cup {<<ArenaBuffer + current, size, alignment>>}
  /\ UNCHANGED freeVars

\* bad_alloc when the piece does not fit, which changes nothing. create<T> is
\* allocate(sizeof(T), alignof(T)).
arenaAllocate(size, alignment) ==
  LET current == align(offset_, alignment) IN
  /\ (current + size) % SizeMod <= Capacity
  /\ offset_' = (current + size) % SizeMod
  /\ given' = given \cup {<<ArenaBuffer + current, size, alignment>>}
  /\ UNCHANGED freeVars

arenaReset ==
  /\ offset_' = 0 /\ given' = {}
  /\ UNCHANGED freeVars

PoolNext == poolAllocate \/ poolReset \/ \E b \in Blocks : UserWrites(b) \/ poolDeallocate(b)

ArenaNext == arenaReset \/ \E s \in Sizes, t \in Alignments : arenaAllocate(s, t)

\* A pool and an arena, each with its user.
BlockSpec == BlocksInit /\ [][PoolNext \/ ArenaNext]_blockVars

-----------------------------------------------------------------------------
(* Properties                                                              *)

\* The blocks met when following the list from its head for `n' words.
Walk[n \in 0..BlockCount] ==
  IF n = 0 THEN <<freeList>> ELSE LET w == Walk[n - 1] IN
    IF w[Len(w)] = 0 THEN w ELSE Append(w, word[w[Len(w)]])

\* Following the words from the head meets exactly the blocks the user does not
\* hold, each once, and available() of them, whatever users wrote into theirs:
\* no block is handed out twice and none is lost.
FreeListSound ==
  LET w == Walk[BlockCount] IN
  /\ w[Len(w)] = 0 /\ Len(w) = available_ + 1
  /\ {w[i] : i \in 1..(Len(w) - 1)} = Blocks \ inUse
  /\ available_ = BlockCount - Cardinality(inUse)

\* The pieces an arena has handed out since reset() lie inside the buffer and do not
\* overlap, and their addresses have the alignment they were asked for wherever
\* it is one of buffer_ itself. Only the offset is rounded up: an alignment beyond
\* alignof(std::max_align_t) is granted or not as buffer_ happens to lie.
PiecesDisjoint ==
  \A p \in given :
    /\ kAlignment % p[3] = 0 => p[1] % p[3] = 0
    /\ ArenaBuffer <= p[1] /\ p[1] + p[2] <= ArenaBuffer + Capacity
    /\ \A q \in given : p # q => p[1] + p[2] <= q[1] \/ q[1] + q[2] <= p[1]
=============================================================================
