------------------------------- MODULE HashRing -------------------------------
(***************************************************************************)
(* The consistent hash ring (ha/consistent_hash.rs) as operators on a      *)
(* ring value: the virtual nodes on the ring (nodes) and, kept beside      *)
(* them, each shard's list of its own nodes (shard_nodes).                 *)
(*                                                                         *)
(* A virtual node is placed at the hash of its shard and index, or, when   *)
(* that position is taken, at the hash of a second key, without a further  *)
(* look.  The hashes of different keys are taken to differ; a position is  *)
(* still met twice, because a node that was reassigned stays on the ring   *)
(* when the shard it was made for is removed and added again.              *)
(***************************************************************************)
EXTENDS Integers, FiniteSets, Sequences

CONSTANTS
    Shards,
    MaxVNodes,          \* bound: virtual nodes of one shard
    Place,              \* Place[s][i]: the hash of "shard-s-vnode-i"
    Retry               \* Retry[s][i]: the hash of "shard-s-vnode-i-retry"

VNodes == 1..MaxVNodes
NoShard == -1

ASSUME PlaceAssumption ==
    /\ MaxVNodes \in Nat
    /\ Shards \subseteq Nat /\ IsFiniteSet(Shards)
    /\ Place \in [Shards -> [VNodes -> Nat]]
    /\ Retry \in [Shards -> [VNodes -> Nat]]
    /\ \A s, t \in Shards : \A i, j \in VNodes :
         /\ Place[s][i] # Retry[t][j]
         /\ Place[s][i] = Place[t][j] => s = t /\ i = j
         /\ Retry[s][i] = Retry[t][j] => s = t /\ i = j

Positions ==
    {Place[s][i] : s \in Shards, i \in VNodes} \cup {Retry[s][i] : s \in Shards, i \in VNodes}

(* nodes[p]: the owner of the virtual node at p; known: the keys of        *)
(* shard_nodes; lists[s]: the positions in the list of s, a set because no *)
(* position is twice in one list.  virtual_node_counts is never read.      *)
Rings == [nodes : [Positions -> Shards \cup {NoShard}],
          known : SUBSET Shards,
          lists : [Shards -> SUBSET Positions]]

EmptyRing == [nodes |-> [p \in Positions |-> NoShard],
              known |-> {},
              lists |-> [s \in Shards |-> {}]]

OnRing(ring) == {p \in Positions : ring.nodes[p] # NoShard}

-----------------------------------------------------------------------------
(* Where the i-th virtual node of s goes.                                  *)
Position(ring, s, i) ==
    IF ring.nodes[Place[s][i]] # NoShard THEN Retry[s][i] ELSE Place[s][i]

(* add_shard of a shard that is not known.                                 *)
AddShard(ring, s, n) ==
    LET mine == {Position(ring, s, i) : i \in 1..n}
    IN  [nodes |-> [p \in Positions |-> IF p \in mine THEN s ELSE ring.nodes[p]],
         known |-> ring.known \cup {s},
         lists |-> [ring.lists EXCEPT ![s] = mine]]

(* A plausible slip: the positions are recomputed from the shard's keys    *)
(* instead of being taken from its list.                                   *)
RemoveShard_ByKeys(ring, s) ==
    LET mine == {Place[s][i] : i \in VNodes}
    IN  [nodes |-> [p \in Positions |-> IF p \in mine THEN NoShard ELSE ring.nodes[p]],
         known |-> ring.known \ {s},
         lists |-> [ring.lists EXCEPT ![s] = {}]]

(* A plausible slip: the positions of the shard's keys are emptied as      *)
(* well, also where the node has been given to another shard.              *)
RemoveShard_AlsoKeys(ring, s) ==
    LET mine == ring.lists[s] \cup {Place[s][i] : i \in VNodes}
    IN  [nodes |-> [p \in Positions |-> IF p \in mine THEN NoShard ELSE ring.nodes[p]],
         known |-> ring.known \ {s},
         lists |-> [ring.lists EXCEPT ![s] = {}]]

(* remove_shard of a known shard: the positions in its list are emptied,   *)
(* whoever owns them.                                                      *)
RemoveShard(ring, s) ==
    [nodes |-> [p \in Positions |-> IF p \in ring.lists[s] THEN NoShard ELSE ring.nodes[p]],
     known |-> ring.known \ {s},
     lists |-> [ring.lists EXCEPT ![s] = {}]]

(* A plausible slip: a shard that has a list already is not given the node.*)
Reassign_NoPush(ring, p, s) ==
    [nodes |-> [ring.nodes EXCEPT ![p] = s],
     known |-> ring.known \cup {s},
     lists |-> [t \in Shards |-> IF t = s /\ s \notin ring.known
                                 THEN {p} ELSE ring.lists[t] \ {p}]]

(* reassign_virtual_node of a node on the ring: from the list of its owner *)
(* to the list of s, which need not have been added before.                *)
Reassign(ring, p, s) ==
    [nodes |-> [ring.nodes EXCEPT ![p] = s],
     known |-> ring.known \cup {s},
     lists |-> [t \in Shards |->
                  (IF t = ring.nodes[p] THEN ring.lists[t] \ {p} ELSE ring.lists[t])
                    \cup (IF t = s THEN {p} ELSE {})]]

-----------------------------------------------------------------------------
Least(S) == CHOOSE p \in S : \A q \in S : p <= q

(* find_shard: the owner of the first node at or after h, else of the      *)
(* first node of all.                                                      *)
FindShard(ring, h) ==
    LET after == {p \in OnRing(ring) : p >= h}
    IN  CASE OnRing(ring) = {} -> NoShard
          [] after # {}        -> ring.nodes[Least(after)]
          [] OTHER             -> ring.nodes[Least(OnRing(ring))]

Ascending(S) ==
    [k \in 1..Cardinality(S) |-> CHOOSE p \in S : Cardinality({q \in S : q < p}) = k - 1]

(* A plausible slip: the walk does not remember the shards it has met.     *)
FindReplicas_Repeated(ring, h, count) ==
    LET walk == Ascending({p \in OnRing(ring) : p >= h}) \o Ascending(OnRing(ring))
        found == [k \in 1..Len(walk) |-> ring.nodes[walk[k]]]
    IN  SubSeq(found, 1, IF count < Len(found) THEN count ELSE Len(found))

(* find_shards_with_replicas: the nodes from h on, then all nodes, each    *)
(* shard when it is first met.  The length is compared after the push, so  *)
(* a count of 0 is answered like 1.                                        *)
FindReplicas(ring, h, count) ==
    LET walk == Ascending({p \in OnRing(ring) : p >= h}) \o Ascending(OnRing(ring))
        owner(k) == ring.nodes[walk[k]]
        first == {k \in 1..Len(walk) : \A j \in 1..(k - 1) : owner(j) # owner(k)}
        found == [k \in 1..Cardinality(first) |-> owner(Ascending(first)[k])]
        wanted == IF count = 0 THEN 1 ELSE count
    IN  SubSeq(found, 1, IF wanted < Len(found) THEN wanted ELSE Len(found))

-----------------------------------------------------------------------------
(* Both directions of the agreement between the ring and the lists.        *)
NodesAreListed(ring) ==
    \A p \in OnRing(ring) : ring.nodes[p] \in ring.known /\ p \in ring.lists[ring.nodes[p]]
ListedAreNodes(ring) ==
    \A s \in Shards : \A p \in ring.lists[s] : s \in ring.known /\ ring.nodes[p] = s
=============================================================================
