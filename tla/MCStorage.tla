----------------------------- MODULE MCStorage ------------------------------
(***************************************************************************)
(* Memory and what is kept in it: tracking with logging, the block         *)
(* allocators, SoulVector, the maps and the other containers, and the      *)
(* comparison of snapshots. They share no state, so an instance explores   *)
(* one of them at a time, the one `focus' names.                           *)
(***************************************************************************)
EXTENDS MemoryTracking, BlockAllocators, SoulVector, SoulContainers, MemoryDelta

VARIABLE focus

storageVars == <<focus, memVars, blockVars, vectorVars, mapVars, containerVars, deltaVars>>

Levels == [c \in Channels |-> IF c = "c1" THEN 0 ELSE 1]
Allocators == [v \in Vectors \cup {Temp, Temp2} |-> IF v = "v1" THEN "A" ELSE "B"]

Init ==
  /\ focus \in {"tracking", "pool", "arena", "vector", "maps", "containers", "delta"}
  /\ MemInit /\ BlocksInit /\ VectorInit /\ MapsInit /\ ContainersInit
  /\ DeltaInit /\ (focus # "delta" => before = <<>> /\ after = <<>>)

Next ==
  \/ focus = "tracking" /\ MemNext /\ UNCHANGED <<focus, blockVars, vectorVars, mapVars, containerVars, deltaVars>>
  \/ focus = "pool" /\ PoolNext /\ UNCHANGED <<focus, memVars, vectorVars, mapVars, containerVars, deltaVars>>
  \/ focus = "arena" /\ ArenaNext /\ UNCHANGED <<focus, memVars, vectorVars, mapVars, containerVars, deltaVars>>
  \/ focus = "vector" /\ VectorNext /\ UNCHANGED <<focus, memVars, blockVars, mapVars, containerVars, deltaVars>>
  \/ focus = "maps" /\ MapsNext /\ UNCHANGED <<focus, memVars, blockVars, vectorVars, containerVars, deltaVars>>
  \/ focus = "containers" /\ ContainersNext /\ UNCHANGED <<focus, memVars, blockVars, vectorVars, mapVars, deltaVars>>
  \/ focus = "delta" /\ DeltaNext /\ UNCHANGED <<focus, memVars, blockVars, vectorVars, mapVars, containerVars>>

\* A thread inside a call goes on.
Spec ==
  /\ Init /\ [][Next]_storageVars
  /\ \A th \in LogThreads : WF_memVars(MemStep(th))
=============================================================================
