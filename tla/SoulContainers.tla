--------------------------- MODULE SoulContainers ---------------------------
(***************************************************************************)
(* The containers that wrap one of the standard library behind IContainer, *)
(* all given the same calls by one thread: SoulDeque, SoulList,            *)
(* SoulForwardList, SoulArray, SoulStack, SoulPriorityQueue, SoulMultiset, *)
(* SoulSet and SoulUnorderedSet. Standard sequences are sequences; a heap  *)
(* is the sequence of its pushes, of which only the largest is visible.    *)
(* Comparators are total orders, so that an unstable sort has one result.  *)
(***************************************************************************)
EXTENDS SoulMaps

CONSTANTS
  Values,          \* integers, ordered by std::less
  ArrayCapacity,   \* N of SoulArray
  Unset,           \* a cell of std::array that was never assigned
  MaxLength        \* bound on the length of the sequences

ASSUME ContainerAssumption == Values \subseteq Int /\ ArrayCapacity \in Nat /\ MaxLength \in Nat

VARIABLES
  dequeData, listData, forwardData,
  arrayData,       \* [data, currentSize]
  stackData,       \* bottom first
  heapData, multisetData, setData, hashSet,
  multimapData,    \* sequence of <<key, value>>
  exact            \* history: the array has dropped no insert and kept no duplicate

containerVars == <<dequeData, listData, forwardData, arrayData, stackData,
                   heapData, multisetData, setData, hashSet, multimapData, exact>>

ContainersInit ==
  /\ dequeData = <<>> /\ listData = <<>> /\ forwardData = <<>>
  /\ arrayData = [data |-> [i \in 1..ArrayCapacity |-> Unset], currentSize |-> 0]
  /\ stackData = <<>> /\ heapData = <<>> /\ multisetData = <<>>
  /\ setData = {} /\ hashSet = {} /\ multimapData = <<>> /\ exact = TRUE

\* std::remove with erase, and remove() of the lists.
Without(q, x) ==
  LET kept[k \in 0..Len(q)] ==
        IF k = 0 THEN <<>> ELSE IF q[k] = x THEN kept[k - 1] ELSE Append(kept[k - 1], q[k])
  IN  kept[Len(q)]

PushAll(q) ==
  LET pushed[k \in 0..Len(q)] == IF k = 0 THEN <<>> ELSE Append(pushed[k - 1], q[k])
  IN  pushed[Len(q)]

-----------------------------------------------------------------------------
(* SoulArray                                                               *)

arrayGetAll(a) == SubSeq(a.data, 1, a.currentSize)

\* A full array ignores the call.
arrayInsert(a, x) ==
  IF a.currentSize < ArrayCapacity
    THEN [data |-> [a.data EXCEPT ![a.currentSize + 1] = x], currentSize |-> a.currentSize + 1]
    ELSE a

\* Only the first occurrence goes; what is behind it moves up by one.
arrayRemove(a, x) ==
  IF x \notin Range(arrayGetAll(a)) THEN a
  ELSE LET it == CHOOSE i \in 1..a.currentSize : a.data[i] = x /\ \A j \in 1..(i - 1) : a.data[j] # x IN
       [data |-> [i \in 1..ArrayCapacity |-> IF i \in it..(a.currentSize - 1) THEN a.data[i + 1] ELSE a.data[i]],
        currentSize |-> a.currentSize - 1]

arraySort(a, by) ==
  LET q == StableSort(arrayGetAll(a), by) IN
  [a EXCEPT !.data = [i \in 1..ArrayCapacity |-> IF i <= a.currentSize THEN q[i] ELSE @[i]]]

-----------------------------------------------------------------------------
(* SoulStack and SoulPriorityQueue take everything out of a copy and push  *)
(* what is to stay                                                         *)

\* Mutant of stackGetAll: std::reverse is forgotten.
StackTopFirst(st) == Reverse(st)

\* Popped top first, then reversed.
stackGetAll(st) == Reverse(Reverse(st))

stackRemove(st, x) == PushAll(Without(stackGetAll(st), x))
stackSort(st, by) == PushAll(StableSort(stackGetAll(st), by))

heapGetAll(h) == StableSort(h, "larger")
heapRemove(h, x) == PushAll(Without(heapGetAll(h), x))
heapSort(h, by) == PushAll(StableSort(heapGetAll(h), by))

-----------------------------------------------------------------------------
(* SoulMultiset, SoulMultimap, SoulSet and SoulUnorderedSet                *)

multisetInsert(q, x) == SortIn(q, x, "smaller")

\* The values are filed under keys of which two share one.
Entry(x) == <<x \div 2, x>>

\* emplace puts an entry behind the ones with an equal key.
multimapInsert(q, kv) == SortIn(q, kv, "key")
multimapInsertAll(q, kv, kw) == multimapInsert(multimapInsert(q, kv), kw)

\* Of equal entries only the first goes.
multimapRemove(q, kv) ==
  IF kv \notin Range(q) THEN q
  ELSE RemoveAt(q, CHOOSE i \in DOMAIN q : q[i] = kv /\ \A j \in 1..(i - 1) : q[j] # kv)

setInsert(S, x) == S \cup {x}

\* Copied out, sorted, cleared and filled again.
hashSort(S, by) == Range(StableSort(SetToSeq(S), by))

-----------------------------------------------------------------------------
(* The calls of IContainer                                                 *)

insertValue(x) ==
  /\ Len(dequeData) < MaxLength /\ Len(multimapData) < MaxLength
  /\ dequeData' = Append(dequeData, x) /\ listData' = Append(listData, x)
  /\ forwardData' = <<x>> \o forwardData
  /\ arrayData' = arrayInsert(arrayData, x)
  /\ stackData' = Append(stackData, x) /\ heapData' = Append(heapData, x)
  /\ multisetData' = multisetInsert(multisetData, x)
  /\ setData' = setInsert(setData, x) /\ hashSet' = setInsert(hashSet, x)
  /\ multimapData' = multimapInsert(multimapData, Entry(x))
  /\ exact' = (exact /\ arrayData.currentSize < ArrayCapacity)

\* insert_range of the sets and of the multimap, here of two values; the others get
\* one insert after the other.
insertValues(x, y) ==
  /\ Len(dequeData) + 2 <= MaxLength /\ Len(multimapData) + 2 <= MaxLength
  /\ dequeData' = Append(Append(dequeData, x), y) /\ listData' = Append(Append(listData, x), y)
  /\ forwardData' = <<y>> \o (<<x>> \o forwardData)
  /\ arrayData' = arrayInsert(arrayInsert(arrayData, x), y)
  /\ stackData' = Append(Append(stackData, x), y) /\ heapData' = Append(Append(heapData, x), y)
  /\ multisetData' = multisetInsert(multisetInsert(multisetData, x), y)
  /\ setData' = setInsert(setInsert(setData, x), y) /\ hashSet' = setInsert(setInsert(hashSet, x), y)
  /\ multimapData' = multimapInsertAll(multimapData, Entry(x), Entry(y))
  /\ exact' = (exact /\ arrayData.currentSize + 2 <= ArrayCapacity)

removeValue(x) ==
  /\ dequeData' = Without(dequeData, x) /\ listData' = Without(listData, x)
  /\ forwardData' = Without(forwardData, x)
  /\ arrayData' = arrayRemove(arrayData, x)
  /\ stackData' = stackRemove(stackData, x) /\ heapData' = heapRemove(heapData, x)
  /\ multisetData' = Without(multisetData, x)
  /\ setData' = setData \ {x} /\ hashSet' = hashSet \ {x}
  /\ multimapData' = multimapRemove(multimapData, Entry(x))
  /\ exact' = (exact /\ x \notin Range(arrayGetAll(arrayData')))

\* The ordered ones ignore sort().
sortValues(by) ==
  /\ dequeData' = StableSort(dequeData, by) /\ listData' = StableSort(listData, by)
  /\ forwardData' = StableSort(forwardData, by)
  /\ arrayData' = arraySort(arrayData, by)
  /\ stackData' = stackSort(stackData, by) /\ heapData' = heapSort(heapData, by)
  /\ hashSet' = hashSort(hashSet, by)
  /\ UNCHANGED <<multisetData, setData, multimapData, exact>>

ContainersNext ==
  \/ \E x \in Values : insertValue(x) \/ removeValue(x)
  \/ \E x, y \in Values : insertValues(x, y)
  \/ sortValues("smaller") \/ sortValues("larger")

ContainersSpec == ContainersInit /\ [][ContainersNext]_containerVars

-----------------------------------------------------------------------------
(* Searcher and the property                                               *)

indexOf(q, x) == {i \in DOMAIN q : q[i] = x /\ \A j \in 1..(i - 1) : q[j] # x}

\* std::lower_bound, and the element found there must be the value.
binarySearch(q, x) ==
  LET i == lower_bound([j \in DOMAIN q |-> <<q[j]>>], x) IN
  IF i <= Len(q) /\ q[i] = x THEN {i} ELSE {}

\* After any inserts, removals and sorts, deque, list and stack return the same
\* sequence, the forward list the same elements in its own order, priority queue
\* and multiset the sorted ones, the sets each value once; the array agrees until
\* it has ignored an insert or met a duplicate, of which it removes one only; the
\* multimap, which also removes one only, stays in the order of its keys, loses no
\* value the others have and until then has no other; and
\* in sorted results binarySearch finds the index that indexOf finds.
ContainersAgree ==
  LET ascending == StableSort(dequeData, "smaller") IN
  /\ listData = dequeData /\ stackGetAll(stackData) = dequeData
  /\ StableSort(forwardData, "smaller") = ascending
  /\ heapGetAll(heapData) = Reverse(ascending) /\ multisetData = ascending
  /\ setData = Range(dequeData) /\ hashSet = setData
  /\ exact => arrayGetAll(arrayData) = dequeData
  /\ \A i \in 1..(Len(multimapData) - 1) : multimapData[i][1] <= multimapData[i + 1][1]
  /\ Range(dequeData) \subseteq {e[2] : e \in Range(multimapData)}
  /\ exact => StableSort([i \in DOMAIN multimapData |-> multimapData[i][2]], "smaller") = ascending
  /\ \A x \in Values : binarySearch(ascending, x) = indexOf(ascending, x)
=============================================================================
