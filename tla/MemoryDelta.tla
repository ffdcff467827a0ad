---------------------------- MODULE MemoryDelta -----------------------------
(***************************************************************************)
(* MemoryManager::snapshot and its per-tag queries, and the demo's         *)
(* printMemoryDelta, which compares the snapshots taken before and after a *)
(* scenario. The two ledgers are any two the scenario can produce: what    *)
(* changes a ledger is in MemoryTracking. The lines printed are kept as    *)
(* the numbers they show.                                                  *)
(***************************************************************************)
EXTENDS Integers, Sequences, FiniteSets, SequencesExt

CONSTANTS Pointers, ByteCounts, TagHashes

ASSUME DeltaAssumption == IsFiniteSet(Pointers) /\ ByteCounts \subseteq Nat

VARIABLES
  before, after,  \* allocations_ at the two snapshots: pointer -> [size, tag]
  printed         \* the lines printMemoryDelta wrote: <<>>, or <<total, entries>>

deltaVars == <<before, after, printed>>

\* allocations_: some of the pointers, each with its size and tag.
Ledgers == UNION {[P -> [size : ByteCounts, tag : TagHashes]] : P \in SUBSET Pointers}

DeltaInit == before \in Ledgers /\ after \in Ledgers /\ printed = <<>>

-----------------------------------------------------------------------------
(* MemoryManager's queries                                                 *)

Total(q) ==
  LET sum[k \in 0..Len(q)] == IF k = 0 THEN 0 ELSE sum[k - 1] + q[k] IN sum[Len(q)]

\* Along the map, in some order.
BytesOf(ledger, P) ==
  LET q == SetToSeq(P) IN Total([i \in 1..Len(q) |-> ledger[q[i]].size])

Tagged(ledger, tag) == {p \in DOMAIN ledger : ledger[p].tag = tag}

getAllocatedByTag(ledger, tag) == BytesOf(ledger, Tagged(ledger, tag))

\* One bucket for every tag that occurs.
snapshot(ledger) ==
  [totalBytes |-> BytesOf(ledger, DOMAIN ledger),
   allocationCount |-> Cardinality(DOMAIN ledger),
   tags |-> {[tag |-> t, bytes |-> getAllocatedByTag(ledger, t),
              allocations |-> Cardinality(Tagged(ledger, t))] : t \in {ledger[p].tag : p \in DOMAIN ledger}}]

-----------------------------------------------------------------------------
(* printMemoryDelta                                                        *)

Diff(tag, b, bAllocs, a, aAllocs) ==
  [tag |-> tag, bytes |-> a - b, allocations |-> aAllocs - bAllocs, changed |-> <<a, aAllocs>> # <<b, bAllocs>>]

\* A tag of the second snapshot, against its bucket of the first if it has one.
DiffOfTag(first, current) ==
  LET old == {t \in first.tags : t.tag = current.tag} IN
  IF old = {} THEN Diff(current.tag, 0, 0, current.bytes, current.allocations)
  ELSE LET t == CHOOSE t \in old : TRUE IN
       Diff(current.tag, t.bytes, t.allocations, current.bytes, current.allocations)

\* Mutant of Disappeared: the loop over what is left of beforeMap is missing.
NoneDisappeared(first, second) == {}

\* What is left in beforeMap.
Disappeared(first, second) ==
  {t \in first.tags : t.tag \notin {u.tag : u \in second.tags}}

Diffs(first, second) ==
  {d \in {DiffOfTag(first, u) : u \in second.tags} : d.changed}
    \cup {Diff(t.tag, t.bytes, t.allocations, 0, 0) : t \in Disappeared(first, second)}

\* std::sort with the largest growth first: any such order of the diffs.
Sorted(D) ==
  {q \in [1..Cardinality(D) -> D] :
     IsInjective(q) /\ \A i \in 1..(Cardinality(D) - 1) : q[i].bytes >= q[i + 1].bytes}

printMemoryDelta ==
  LET first == snapshot(before)
      second == snapshot(after)
  IN  /\ printed = <<>>
      /\ \E q \in Sorted(Diffs(first, second)) :
           printed' = <<[bytes |-> second.totalBytes - first.totalBytes,
                         allocations |-> second.allocationCount - first.allocationCount], q>>
      /\ UNCHANGED <<before, after>>

DeltaNext == printMemoryDelta

DeltaSpec == DeltaInit /\ [][DeltaNext]_deltaVars

-----------------------------------------------------------------------------
(* Properties                                                              *)

\* The lines of a report account for its total, in bytes and in allocations,
\* and name every tag once at most: nothing that was allocated under a new tag,
\* freed with its whole tag, or moved between tags is missed or counted twice.
DeltaAddsUp ==
  printed # <<>> =>
    LET q == printed[2] IN
    /\ printed[1].bytes = Total([i \in 1..Len(q) |-> q[i].bytes])
    /\ printed[1].allocations = Total([i \in 1..Len(q) |-> q[i].allocations])
    /\ \A i, j \in DOMAIN q : q[i].tag = q[j].tag => i = j
=============================================================================
