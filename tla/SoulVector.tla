----------------------------- MODULE SoulVector -----------------------------
(***************************************************************************)
(* SoulVector, a vector with small-buffer storage and a tracked allocator. *)
(* The heap state is one record s: for each vector its data_, size_,       *)
(* capacity_ and allocator_, and for each storage area its cells, which    *)
(* hold a constructed element or are Raw. Member functions are operators   *)
(* from heap states to heap states, so that they compose as the code calls *)
(* them; s.bad records an access no program may make. The elements can be  *)
(* copied, so that a constructor that throws in reallocate() or in         *)
(* move_to_small() has left its source alone. reallocate() catches and     *)
(* undoes; move_to_small() does not: elements it has already destroyed are *)
(* still counted by size_, and the model stops there, with `torn' set.     *)
(* Values given to insert are not elements of the vector.                  *)
(***************************************************************************)
EXTENDS Integers, Sequences, FiniteSets, SequencesExt

CONSTANTS
  Vectors,       \* the program's vectors
  Temp, Temp2,   \* the local variables of operator= and swap
  HeapBlocks, Elements, Raw,
  SmallCapacity,
  AllocatorOf,   \* the allocator each vector is created with
  MaxSize        \* bound on size; reserve() asks for at most one more

VARIABLES
  s,        \* the heap state
  contents, \* vector -> sequence, what the operations mean
  torn      \* move_to_small() was left by an exception, elements destroyed

vectorVars == <<s, contents, torn>>

AllVectors == Vectors \cup {Temp, Temp2}
Areas == AllVectors \cup HeapBlocks   \* a vector's own name is its smallStorage_

\* Names differ, and the heap has a block left when every vector has one.
ASSUME VectorAssumption ==
  /\ SmallCapacity \in Nat \ {0} /\ MaxSize \in Nat
  /\ Temp # Temp2 /\ {Temp, Temp2} \cap Vectors = {}
  /\ HeapBlocks \cap AllVectors = {} /\ Raw \notin Elements
  /\ \A f \in [AllVectors -> Areas] : ~(HeapBlocks \subseteq Range(f))

RawCells == [i \in 1..(2 * MaxSize) |-> Raw]

VectorInit ==
  /\ s = [data |-> [v \in AllVectors |-> v], size |-> [v \in AllVectors |-> 0],
          capacity |-> [v \in AllVectors |-> SmallCapacity],
          allocator |-> [v \in AllVectors |-> AllocatorOf[v]],
          cells |-> [a \in Areas |-> RawCells],
          owner |-> [b \in {} |-> b],   \* allocated block -> its Grant
          bad |-> FALSE]
  /\ contents = [v \in Vectors |-> <<>>] /\ torn = FALSE

-----------------------------------------------------------------------------
(* Storage and lifetimes                                                   *)

using_small_storage(h, v) == h.data[v] = v

Items(h, v) == [i \in 1..h.size[v] |-> h.cells[h.data[v]][i]]

\* Placement new of xs at positions from + 1, from + 2, ...
Construct(h, area, from, xs) ==
  LET new == (from + 1)..(from + Len(xs)) IN
  [h EXCEPT !.cells[area] = [i \in DOMAIN @ |-> IF i \in new THEN xs[i - from] ELSE @[i]],
            !.bad = @ \/ \E i \in new : h.cells[area][i] # Raw]

destroy_range(h, area, from, to) ==
  [h EXCEPT !.cells[area] = [i \in DOMAIN @ |-> IF i \in from..to THEN Raw ELSE @[i]],
            !.bad = @ \/ \E i \in from..to : h.cells[area][i] = Raw]

FreshBlock(h) == CHOOSE b \in HeapBlocks : b \notin DOMAIN h.owner

\* What allocate(n) returns: n elements of the allocator's memory.
Grant(allocator, n) == [allocator |-> allocator, room |-> n]

AllocateBlock(h, v, n) ==
  LET b == FreshBlock(h) IN
  [h EXCEPT !.owner = [x \in DOMAIN @ \cup {b} |-> IF x = b THEN Grant(h.allocator[v], n) ELSE @[x]]]

\* deallocate(b, n) through v's allocator, which must be the one that granted
\* the block, for n elements.
DeallocateBlock(h, v, b, n) ==
  [h EXCEPT !.owner = [x \in DOMAIN @ \ {b} |-> @[x]],
            !.bad = @ \/ b \notin DOMAIN h.owner \/ h.owner[b] # Grant(h.allocator[v], n)
                      \/ h.cells[b] # RawCells]

-----------------------------------------------------------------------------
(* Member functions                                                        *)

move_to_small(h, v) ==
  IF using_small_storage(h, v) THEN h
  ELSE LET old == h.data[v]
           moved == Construct(h, v, 0, Items(h, v))
           freed == DeallocateBlock(destroy_range(moved, old, 1, h.size[v]), v, old, h.capacity[v])
       IN [freed EXCEPT !.data[v] = v, !.capacity[v] = SmallCapacity]

reallocate(h, v, requested) ==
  IF requested <= SmallCapacity THEN move_to_small(h, v)
  ELSE LET b == FreshBlock(h)
           old == h.data[v]
           copied == Construct(AllocateBlock(h, v, requested), b, 0, Items(h, v))
           destroyed == destroy_range(copied, old, 1, h.size[v])
           freed == IF using_small_storage(h, v) THEN destroyed
                    ELSE DeallocateBlock(destroyed, v, old, h.capacity[v])
       IN [freed EXCEPT !.data[v] = b, !.capacity[v] = requested]

\* The constructor of element done + 1 throws: done elements live in the small
\* storage, their originals are gone, data_ and size_ are as before.
moveToSmallThrows(h, v, done) ==
  destroy_range(Construct(h, v, 0, SubSeq(Items(h, v), 1, done)), h.data[v], 1, done)

\* Mutant of reallocateThrows: the new block is not given back.
ThrowKeepingBlock(h, v, requested, done) ==
  LET b == FreshBlock(h)
      begun == Construct(AllocateBlock(h, v, requested), b, 0, SubSeq(Items(h, v), 1, done))
  IN destroy_range(begun, b, 1, done)

\* The catch block, when the constructor of element done + 1 throws.
reallocateThrows(h, v, requested, done) ==
  LET b == FreshBlock(h)
      begun == Construct(AllocateBlock(h, v, requested), b, 0, SubSeq(Items(h, v), 1, done))
  IN DeallocateBlock(destroy_range(begun, b, 1, done), v, b, requested)

reserve(h, v, capacity) == IF capacity <= h.capacity[v] THEN h ELSE reallocate(h, v, capacity)

emplace_back_internal(h, v, x) ==
  LET room == IF h.size[v] = h.capacity[v] THEN reallocate(h, v, h.capacity[v] * 2) ELSE h IN
  [Construct(room, room.data[v], room.size[v], <<x>>) EXCEPT !.size[v] = @ + 1]

AppendAll(h, v, xs) ==
  LET after[k \in 0..Len(xs)] == IF k = 0 THEN h ELSE emplace_back_internal(after[k - 1], v, xs[k])
  IN after[Len(xs)]

\* The range is sized, so the room is made first.
append_range(h, v, xs) == AppendAll(reserve(h, v, h.size[v] + Len(xs)), v, xs)

release_storage(h, v) ==
  LET old == h.data[v]
      destroyed == destroy_range(h, old, 1, h.size[v])
      freed == IF using_small_storage(h, v) THEN destroyed
                    ELSE DeallocateBlock(destroyed, v, old, h.capacity[v])
  IN [freed EXCEPT !.data[v] = v, !.capacity[v] = SmallCapacity, !.size[v] = 0]

\* Small contents are moved element by element, a block changes hands.
adopt_from(h, v, other) ==
  IF using_small_storage(h, other)
    THEN LET fresh == [h EXCEPT !.data[v] = v, !.capacity[v] = SmallCapacity, !.size[v] = 0]
             moved == AppendAll(fresh, v, Items(h, other))
         IN [destroy_range(moved, other, 1, h.size[other]) EXCEPT !.size[other] = 0]
    ELSE [h EXCEPT !.data[v] = h.data[other], !.capacity[v] = h.capacity[other], !.size[v] = h.size[other],
                   !.data[other] = other, !.capacity[other] = SmallCapacity, !.size[other] = 0]

MoveConstruct(h, v, other) ==
  adopt_from([h EXCEPT !.allocator[v] = h.allocator[other]], v, other)

CopyConstruct(h, v, other) ==
  LET fresh == [h EXCEPT !.allocator[v] = h.allocator[other]] IN
  AppendAll(reserve(fresh, v, h.size[other]), v, Items(h, other))

MoveAssign(h, v, other) ==
  IF v = other THEN h
  ELSE adopt_from([release_storage(h, v) EXCEPT !.allocator[v] = h.allocator[other]], v, other)

swap(h, v, other) ==
  IF v = other THEN h
  ELSE LET a == MoveConstruct(h, Temp2, other)
           b == MoveAssign(a, other, v)
           c == MoveAssign(b, v, Temp2)
       IN release_storage(c, Temp2)

CopyAssign(h, v, other) ==
  IF v = other THEN h
  ELSE release_storage(swap(CopyConstruct(h, Temp, other), v, Temp), Temp)

\* std::remove takes the elements in order and keeps those that differ from x.
Remaining(q, x) ==
  LET kept[k \in 0..Len(q)] == IF k = 0 THEN <<>> ELSE IF q[k] = x THEN kept[k - 1] ELSE Append(kept[k - 1], q[k])
  IN kept[Len(q)]

\* The kept elements move to the front; the rest is destroyed.
removeAll(h, v, x) ==
  LET kept == Remaining(Items(h, v), x)
      front == [h EXCEPT !.cells[h.data[v]] = [i \in DOMAIN @ |-> IF i <= Len(kept) THEN kept[i] ELSE @[i]]]
  IN [destroy_range(front, h.data[v], Len(kept) + 1, h.size[v]) EXCEPT !.size[v] = Len(kept)]

\* A position outside the vector changes nothing.
erase(h, v, pos) ==
  IF pos \notin 1..h.size[v] THEN h
  ELSE LET n == h.size[v]
           shifted == [h EXCEPT !.cells[h.data[v]] = [i \in DOMAIN @ |-> IF i \in pos..(n - 1) THEN @[i + 1] ELSE @[i]]]
       IN [destroy_range(shifted, h.data[v], n, n) EXCEPT !.size[v] = n - 1]

shrink_to_fit(h, v) ==
  IF using_small_storage(h, v) THEN h
  ELSE IF h.size[v] <= SmallCapacity THEN move_to_small(h, v)
  ELSE IF h.size[v] < h.capacity[v] THEN reallocate(h, v, h.size[v])
  ELSE h

clearVector(h, v) == [destroy_range(h, h.data[v], 1, h.size[v]) EXCEPT !.size[v] = 0]

-----------------------------------------------------------------------------
(* The program's calls                                                     *)

Does(h, v, seq) == s' = h /\ contents' = [contents EXCEPT ![v] = seq] /\ UNCHANGED torn

Fits(v, n) == s.size[v] + n <= MaxSize

Insert(v) == \E x \in Elements :
  Fits(v, 1) /\ Does(emplace_back_internal(s, v, x), v, Append(contents[v], x))

AppendRange(v) == \E x, y \in Elements :
  Fits(v, 2) /\ Does(append_range(s, v, <<x, y>>), v, contents[v] \o <<x, y>>)

\* The capacities that insert, reserve and shrink_to_fit ask reallocate() for.
Requests(v) ==
  {2 * c : c \in {s.capacity[v]} \cap {s.size[v]}} \cup ((s.capacity[v] + 1)..(MaxSize + 1))
    \cup (IF using_small_storage(s, v) THEN {} ELSE {s.size[v]} \cap ((SmallCapacity + 1)..(s.capacity[v] - 1)))

Throws(v) == \E requested \in Requests(v), done \in 0..(s.size[v] - 1) :
  Does(reallocateThrows(s, v, requested, done), v, contents[v])

\* shrink_to_fit() left by an exception; one at the first element changes nothing.
ShrinkThrows(v) == \E done \in 1..(s.size[v] - 1) :
  /\ ~using_small_storage(s, v) /\ s.size[v] <= SmallCapacity
  /\ s' = moveToSmallThrows(s, v, done) /\ torn' = TRUE /\ UNCHANGED contents

RemoveValue(v) == \E x \in Elements :
  Does(removeAll(s, v, x), v, Remaining(contents[v], x))

EraseAt(v) == \E pos \in 1..(s.size[v] + 1) :
  Does(erase(s, v, pos), v, IF pos <= Len(contents[v]) THEN RemoveAt(contents[v], pos) ELSE contents[v])

Reserve(v) == \E n \in 1..(MaxSize + 1) : Does(reserve(s, v, n), v, contents[v])
Shrink(v) == Does(shrink_to_fit(s, v), v, contents[v])
Clear(v) == Does(clearVector(s, v), v, <<>>)

Assign(v) == \E w \in Vectors : Does(CopyAssign(s, v, w), v, contents[w])

Swap(v) == \E w \in Vectors :
  /\ s' = swap(s, v, w) /\ contents' = [contents EXCEPT ![v] = contents[w], ![w] = contents[v]]
  /\ UNCHANGED torn

Steal(v) == \E w \in Vectors \ {v} :
  /\ s' = MoveAssign(s, v, w) /\ contents' = [contents EXCEPT ![v] = contents[w], ![w] = <<>>]
  /\ UNCHANGED torn

VectorCalls(v) ==
  \/ Insert(v) \/ AppendRange(v) \/ Throws(v) \/ RemoveValue(v) \/ EraseAt(v) \/ Reserve(v)
  \/ Shrink(v) \/ Clear(v) \/ Assign(v) \/ Swap(v) \/ Steal(v)

VectorNext == ~torn /\ \E v \in Vectors : VectorCalls(v) \/ ShrinkThrows(v)

VectorSpec == VectorInit /\ [][VectorNext]_vectorVars

-----------------------------------------------------------------------------
(* Properties                                                              *)

\* Whatever is moved, copied, swapped, grown or shrunk, and when a constructor
\* throws while reallocate() fills a new block: every constructed element lies
\* within the size of the vector whose storage it is in and every position below
\* that size is constructed; every allocated block belongs to one vector, was
\* granted by that vector's allocator for exactly its capacity, and goes back to
\* it with that number; nothing is constructed, destroyed or freed twice; and the
\* vector holds the sequence its operations stand for. Nothing is said once an
\* exception has left move_to_small() halfway: the code does not undo it.
StorageSound == ~torn =>
  /\ ~s.bad
  /\ \A v \in AllVectors :
       /\ s.size[v] <= s.capacity[v]
       /\ using_small_storage(s, v) => s.capacity[v] = SmallCapacity
       /\ ~using_small_storage(s, v) => /\ s.data[v] \in DOMAIN s.owner
                                        /\ s.owner[s.data[v]] = Grant(s.allocator[v], s.capacity[v])
  /\ \A a \in Areas : \A i \in 1..(2 * MaxSize) :
       s.cells[a][i] # Raw <=> \E v \in AllVectors : s.data[v] = a /\ i <= s.size[v]
  /\ \A b \in DOMAIN s.owner : Cardinality({v \in AllVectors : s.data[v] = b}) = 1
  /\ \A v \in Vectors : Items(s, v) = contents[v]
=============================================================================
