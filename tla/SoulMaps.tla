------------------------------ MODULE SoulMaps ------------------------------
(***************************************************************************)
(* SoulFlatMap, a sorted vector searched by bisection, next to SoulMap     *)
(* (std::map) and SoulUnorderedMap (std::unordered_map), all three behind  *)
(* IContainer and given the same calls by one thread. std::map and         *)
(* std::unordered_map are functions from keys to values; the flat map is   *)
(* the vector it keeps, so an order the bisection does not expect shows.   *)
(***************************************************************************)
EXTENDS Integers, Sequences, FiniteSets, SequencesExt

CONSTANTS
  MapKeys,        \* ordered by compare_, std::less
  MapValues,
  DefaultValue,   \* mapped_type{}
  MaxEntries      \* bound on the flat map's length

ASSUME MapAssumption ==
  MapKeys \cup MapValues \subseteq Int /\ DefaultValue \in MapValues /\ MaxEntries \in Nat

VARIABLES
  data_,          \* SoulFlatMap: sequence of <<key, value>>
  treeMap,        \* SoulMap
  hashMap,        \* SoulUnorderedMap
  order           \* history: "key", "other" after a sort by something else, "lost" after
                  \* a call that searched the flat map in such an order

mapVars == <<data_, treeMap, hashMap, order>>

Pairs == MapKeys \X MapValues

MapsInit == data_ = <<>> /\ treeMap = <<>> /\ hashMap = <<>> /\ order = "key"

\* One round of std::lower_bound, which halves [first, first + len).
Halve(d, key, p) ==
  LET half == p.len \div 2 IN
  IF p.len = 0 THEN p
  ELSE IF d[p.first + half][1] < key THEN [first |-> p.first + half + 1, len |-> p.len - half - 1]
  ELSE [first |-> p.first, len |-> half]

\* Len(d) rounds are always enough.
lower_bound(d, key) ==
  LET after[k \in 0..Len(d)] == IF k = 0 THEN [first |-> 1, len |-> Len(d)] ELSE Halve(d, key, after[k - 1])
  IN  after[Len(d)].first

keys_equal(a, b) == ~(a < b) /\ ~(b < a)

Found(d, key) ==
  LET i == lower_bound(d, key) IN i <= Len(d) /\ keys_equal(d[i][1], key)

\* Mutant of FlatInsert: the entry of an equal key is kept, as a multimap would.
FlatInsertAlways(d, kv) == InsertAt(d, lower_bound(d, kv[1]), kv)

FlatInsert(d, kv) ==
  LET i == lower_bound(d, kv[1]) IN
  IF Found(d, kv[1]) THEN ReplaceAt(d, i, <<d[i][1], kv[2]>>) ELSE InsertAt(d, i, kv)

FlatInsertAll(d, range) ==
  LET after[k \in 0..Len(range)] == IF k = 0 THEN d ELSE FlatInsert(after[k - 1], range[k])
  IN  after[Len(range)]

FlatRemove(d, key) == IF Found(d, key) THEN RemoveAt(d, lower_bound(d, key)) ELSE d

\* data[kv.first] = kv.second of SoulMap and SoulUnorderedMap.
Put(f, kv) == [k \in DOMAIN f \cup {kv[1]} |-> IF k = kv[1] THEN kv[2] ELSE f[k]]

PutAll(f, range) ==
  LET after[k \in 0..Len(range)] == IF k = 0 THEN f ELSE Put(after[k - 1], range[k])
  IN  after[Len(range)]

\* data.erase(key).
Drop(f, key) == [k \in DOMAIN f \ {key} |-> f[k]]

\* The comparators the callers pass: of the entries of maps by key or by value,
\* of plain values either way.
Less(by, a, b) ==
  CASE by = "key" -> a[1] < b[1] [] by = "value" -> a[2] < b[2]
    [] by = "smaller" -> a < b   [] by = "larger" -> a > b

\* std::stable_sort: every entry goes behind the ones it does not precede.
SortIn(sorted, e, by) ==
  InsertAt(sorted, 1 + Cardinality({i \in DOMAIN sorted : ~Less(by, e, sorted[i])}), e)

StableSort(d, by) ==
  LET sorted[k \in 0..Len(d)] == IF k = 0 THEN <<>> ELSE SortIn(sorted[k - 1], d[k], by)
  IN  sorted[Len(d)]

Ascending(d) == \A i \in 1..(Len(d) - 1) : d[i][1] < d[i + 1][1]

\* sort() of SoulUnorderedMap: copied out, sorted, cleared and filled again.
Refilled(f, by) ==
  PutAll(<<>>, StableSort(SetToSeq({<<k, f[k]>> : k \in DOMAIN f}), by))

-----------------------------------------------------------------------------
(* The calls. MaxEntries keeps an instance finite.                         *)

Searched == order' = (IF order = "key" THEN "key" ELSE "lost")

insert(kv) ==
  /\ Len(data_) < MaxEntries
  /\ data_' = FlatInsert(data_, kv)
  /\ treeMap' = Put(treeMap, kv) /\ hashMap' = Put(hashMap, kv)
  /\ Searched

\* Also the constructors from a range.
insert_range(range) ==
  /\ Len(data_) + Len(range) <= MaxEntries
  /\ data_' = FlatInsertAll(data_, range)
  /\ treeMap' = PutAll(treeMap, range) /\ hashMap' = PutAll(hashMap, range)
  /\ Searched

remove(kv) ==
  /\ data_' = FlatRemove(data_, kv[1])
  /\ treeMap' = Drop(treeMap, kv[1]) /\ hashMap' = Drop(hashMap, kv[1])
  /\ Searched

\* operator[] and an assignment through the reference: a new key gets
\* mapped_type{} first. The user of the other two, which have none, inserts.
subscript(key, v) ==
  LET i == lower_bound(data_, key)
      d == IF Found(data_, key) THEN data_ ELSE InsertAt(data_, i, <<key, DefaultValue>>)
  IN  /\ Len(data_) < MaxEntries
      /\ data_' = ReplaceAt(d, i, <<d[i][1], v>>)
      /\ treeMap' = Put(treeMap, <<key, v>>) /\ hashMap' = Put(hashMap, <<key, v>>)
      /\ Searched

\* std::map ignores sort().
sort(by) ==
  /\ data_' = StableSort(data_, by)
  /\ hashMap' = Refilled(hashMap, by)
  /\ order' = IF order = "lost" THEN "lost" ELSE IF Ascending(data_') THEN "key" ELSE "other"
  /\ UNCHANGED treeMap

\* clear() of the flat map; the others are replaced by new ones.
clearMaps == data_' = <<>> /\ treeMap' = <<>> /\ hashMap' = <<>> /\ order' = "key"

MapsNext ==
  \/ \E kv \in Pairs : insert(kv) \/ remove(kv) \/ subscript(kv[1], kv[2])
  \/ \E kv, kw \in Pairs : insert_range(<<kv, kw>>)
  \/ sort("key") \/ sort("value") \/ clearMaps

MapsSpec == MapsInit /\ [][MapsNext]_mapVars

-----------------------------------------------------------------------------
(* Properties                                                              *)

\* lookup(), contains() and find() of the flat map.
lookup(key) == IF Found(data_, key) THEN {data_[lower_bound(data_, key)][2]} ELSE {}

\* Whatever was inserted, overwritten, removed, subscripted and sorted before,
\* the three maps hold the same entries as long as nobody searches a flat map
\* that was sorted by something else, sorting it back by key included; and while
\* its order is that of the keys, the bisection finds exactly the keys present.
MapsAgree ==
  order # "lost" =>
    /\ hashMap = treeMap
    /\ Len(data_) = Cardinality(DOMAIN treeMap)
    /\ {data_[i] : i \in DOMAIN data_} = {<<k, treeMap[k]>> : k \in DOMAIN treeMap}
    /\ order = "key" =>
         /\ Ascending(data_)
         /\ \A k \in MapKeys : lookup(k) = IF k \in DOMAIN treeMap THEN {treeMap[k]} ELSE {}
=============================================================================
