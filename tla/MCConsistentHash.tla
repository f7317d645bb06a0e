-------------------------- MODULE MCConsistentHash --------------------------
(* The placements of the virtual nodes on the ring: with collisions and     *)
(* without.                                                                 *)
EXTENDS ConsistentHash

AllHashes == [Nodes -> [Replicas -> Pos]]
InjectiveHashes == {h \in AllHashes : Injective(h)}
=============================================================================
