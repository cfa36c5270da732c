------------------------------- MODULE RingLife -------------------------------
(***************************************************************************)
(* One ConsistentHashRing in the hands of a caller: every public operation *)
(* that changes it, in any order.  An operation that returns Err (a known  *)
(* shard added, an unknown one removed, an absent node reassigned) changes *)
(* nothing.                                                                *)
(***************************************************************************)
EXTENDS HashRing

CONSTANTS Keys          \* hashes of the keys that are routed

ASSUME KeysAssumption == Keys \subseteq Nat

VARIABLE ring

TypeOK == ring \in Rings

RingInit == ring = EmptyRing

Add(s, n) ==
    /\ s \notin ring.known
    /\ ring' = AddShard(ring, s, n)

Remove(s) ==
    /\ s \in ring.known
    /\ ring' = RemoveShard(ring, s)

Move(p, s) ==
    /\ p \in OnRing(ring)
    /\ ring' = Reassign(ring, p, s)

Clear == ring' = EmptyRing

RingNext ==
    \/ \E s \in Shards, n \in 0..MaxVNodes : Add(s, n)
    \/ \E s \in Shards : Remove(s)
    \/ \E p \in Positions, s \in Shards : Move(p, s)
    \/ Clear

RingSpec == RingInit /\ [][RingNext]_ring

-----------------------------------------------------------------------------
(* Every virtual node is in the list of its owner.  remove_shard empties   *)
(* the positions in the list and nothing else, so this is what makes it    *)
(* remove "a shard and all its virtual nodes".                             *)
NodesListed == NodesAreListed(ring)

(* Only shards that were added, or were given a node, and not removed      *)
(* since are routed to.                                                    *)
RoutedAreKnown == \A h \in Keys : FindShard(ring, h) \in ring.known \cup {NoShard}

(* find_shards_with_replicas against what it promises: distinct shards,    *)
(* the one find_shard names first, as many as asked for (at least one) or  *)
(* as there are shards with nodes.                                         *)
ReplicasOK ==
    LET owners == {ring.nodes[p] : p \in OnRing(ring)}
    IN  \A h \in Keys, count \in 0..Cardinality(Shards) + 1 :
          LET found == FindReplicas(ring, h, count)
              wanted == IF count = 0 THEN 1 ELSE count
          IN  /\ \A i, j \in DOMAIN found : found[i] = found[j] => i = j
              /\ \A i \in DOMAIN found : found[i] \in owners
              /\ Len(found) = IF wanted < Cardinality(owners) THEN wanted
                                                              ELSE Cardinality(owners)
              /\ owners # {} => found[1] = FindShard(ring, h)

(* Consistent hashing: adding a shard moves keys to it only, and removing  *)
(* one moves only the keys it had, as long as no list names the node of    *)
(* another shard.                                                          *)
KeysStay ==
    [][\A s \in Shards :
         /\ (\E n \in 0..MaxVNodes : Add(s, n)) =>
              \A h \in Keys : FindShard(ring', h) \in {s, FindShard(ring, h)}
         /\ Remove(s) /\ ListedAreNodes(ring) =>
              \A h \in Keys : FindShard(ring, h) \in {s, FindShard(ring', h)}]_ring
=============================================================================
