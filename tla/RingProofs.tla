------------------------------ MODULE RingProofs ------------------------------
(***************************************************************************)
(* Proofs about the hash ring, on its own (RingLife) and as a part of the  *)
(* coordinator's replicated state (ClusterState), for every set of shards, *)
(* every number of virtual nodes, every placement of them, every set of    *)
(* keys, replicas, migrations and commands.                                *)
(***************************************************************************)
EXTENDS RingLife, ClusterState, FiniteSetTheorems, SequenceTheorems,
        WellFoundedInduction, TLAPS

(* The inductive invariant: what is routed to is known because every node  *)
(* is in the list of its owner, which has a list.                          *)
IInv == TypeOK /\ NodesListed

-----------------------------------------------------------------------------
(* Positions on the ring are hashes, and hashes are numbers.               *)
LEMMA PositionsAreNumbers == Positions \subseteq Nat
BY PlaceAssumption DEF Positions

(* No shard's number is the mark for an empty position.                    *)
LEMMA NoShardIsNone == NoShard \notin Shards
BY PlaceAssumption DEF NoShard

(* A shard's first and second positions are positions of the ring.         *)
LEMMA PositionIsOne ==
    ASSUME NEW s \in Shards, NEW i \in VNodes, NEW r
    PROVE  Position(r, s, i) \in Positions
BY DEF Position, Positions

(* Of a set of numbers that is not empty, Least is a member and a bound.   *)
LEMMA LeastIsLeast ==
    ASSUME NEW S, S \subseteq Nat, S # {}
    PROVE  Least(S) \in S /\ \A q \in S : Least(S) <= q
<1> DEFINE R == OpToRel(<, Nat)
<1>1. IsWellFoundedOn(R, Nat)
  BY NatLessThanWellFounded
<1>2. \A p, q \in Nat : q < p => <<q, p>> \in R
  BY DEF OpToRel
<1> HIDE DEF R
<1>3. PICK p \in S : \A q \in S : ~(<<q, p>> \in R)
  BY <1>1, WFMin
<1>4. ASSUME NEW q \in S PROVE p <= q
  <2>1. p \in Nat /\ q \in Nat
    OBVIOUS
  <2>2. ~(q < p)
    BY <1>2, <1>3, <2>1
  <2> QED  BY <2>1, <2>2
<1> QED  BY <1>4 DEF Least

(* The least of a set is the least of every part of it that has it.        *)
LEMMA LeastOfPart ==
    ASSUME NEW S, S \subseteq Nat, NEW T, T \subseteq S, T # {}, Least(S) \in T
    PROVE  Least(T) = Least(S)
<1>1. Least(S) <= Least(T)
  BY LeastIsLeast
<1>2. Least(T) <= Least(S)
  BY LeastIsLeast
<1>3. Least(S) \in Nat /\ Least(T) \in Nat
  BY LeastIsLeast
<1> QED  BY <1>1, <1>2, <1>3

(* find_shard names the owner of a node on the ring, or no shard.          *)
LEMMA FindShardOwner ==
    ASSUME NEW r \in Rings, NEW h \in Keys
    PROVE  \/ OnRing(r) = {} /\ FindShard(r, h) = NoShard
           \/ \E p \in OnRing(r) : FindShard(r, h) = r.nodes[p]
<1> DEFINE after == {p \in OnRing(r) : p >= h}
<1>1. OnRing(r) \subseteq Nat /\ after \subseteq OnRing(r)
  BY PositionsAreNumbers DEF OnRing
<1>2. CASE OnRing(r) = {}
  BY <1>2 DEF FindShard
<1>3. CASE OnRing(r) # {} /\ after # {}
  <2>1. Least(after) \in OnRing(r)
    BY <1>1, <1>3, LeastIsLeast
  <2>2. FindShard(r, h) = r.nodes[Least(after)]
    BY <1>3 DEF FindShard
  <2> QED  BY <2>1, <2>2
<1>4. CASE OnRing(r) # {} /\ after = {}
  <2>1. Least(OnRing(r)) \in OnRing(r)
    BY <1>1, <1>4, LeastIsLeast
  <2>2. FindShard(r, h) = r.nodes[Least(OnRing(r))]
    BY <1>4 DEF FindShard
  <2> QED  BY <2>1, <2>2
<1> QED  BY <1>2, <1>3, <1>4

-----------------------------------------------------------------------------
(* Type correctness.                                                       *)

LEMMA InitType == RingInit => TypeOK
BY DEF RingInit, TypeOK, Rings, EmptyRing

LEMMA AddType ==
    ASSUME TypeOK, NEW s \in Shards, NEW n \in 0..MaxVNodes, Add(s, n)
    PROVE  TypeOK'
<1> DEFINE mine == {Position(ring, s, i) : i \in 1..n}
<1>1. 1..n \subseteq VNodes
  BY PlaceAssumption DEF VNodes
<1>2. mine \subseteq Positions
  BY <1>1, PositionIsOne
<1>3. /\ ring'.nodes = [p \in Positions |-> IF p \in mine THEN s ELSE ring.nodes[p]]
      /\ ring'.known = ring.known \cup {s}
      /\ ring'.lists = [ring.lists EXCEPT ![s] = mine]
      /\ ring' = [nodes |-> ring'.nodes, known |-> ring'.known, lists |-> ring'.lists]
  BY DEF Add, AddShard
<1> HIDE DEF mine
<1>4. ring'.nodes \in [Positions -> Shards \cup {NoShard}]
  BY <1>3 DEF TypeOK, Rings
<1>5. ring'.lists \in [Shards -> SUBSET Positions]
  BY <1>2, <1>3 DEF TypeOK, Rings
<1>6. ring'.known \in SUBSET Shards
  BY <1>3 DEF TypeOK, Rings
<1> QED  BY <1>3, <1>4, <1>5, <1>6 DEF TypeOK, Rings

LEMMA RemoveType ==
    ASSUME TypeOK, NEW s \in Shards, Remove(s)
    PROVE  TypeOK'
BY DEF TypeOK, Rings, Remove, RemoveShard

LEMMA MoveType ==
    ASSUME TypeOK, NEW p \in Positions, NEW s \in Shards, Move(p, s)
    PROVE  TypeOK'
BY DEF TypeOK, Rings, Move, Reassign

LEMMA ClearType == Clear => TypeOK'
BY DEF Clear, TypeOK, Rings, EmptyRing

-----------------------------------------------------------------------------
(* Every node is in the list of its owner.                                 *)

LEMMA AddListed ==
    ASSUME TypeOK, NodesListed, NEW s \in Shards, NEW n \in 0..MaxVNodes, Add(s, n)
    PROVE  NodesListed'
<1> DEFINE mine == {Position(ring, s, i) : i \in 1..n}
<1>1. /\ ring'.nodes = [p \in Positions |-> IF p \in mine THEN s ELSE ring.nodes[p]]
      /\ ring'.known = ring.known \cup {s}
      /\ ring'.lists = [ring.lists EXCEPT ![s] = mine]
  BY DEF Add, AddShard
<1> HIDE DEF mine
<1>2. SUFFICES ASSUME NEW p \in Positions, ring'.nodes[p] # NoShard
               PROVE  /\ ring'.nodes[p] \in ring'.known
                      /\ p \in ring'.lists[ring'.nodes[p]]
  BY DEF NodesListed, NodesAreListed, OnRing
<1>3. CASE p \in mine
  BY <1>1, <1>2, <1>3 DEF TypeOK, Rings
<1>4. CASE p \notin mine
  <2>1. ring'.nodes[p] = ring.nodes[p] /\ p \in OnRing(ring)
    BY <1>1, <1>2, <1>4 DEF OnRing
  <2>2. ring.nodes[p] \in ring.known /\ p \in ring.lists[ring.nodes[p]]
    BY <2>1 DEF NodesListed, NodesAreListed
  <2>3. ring.nodes[p] # s /\ ring.nodes[p] \in Shards
    BY <2>2 DEF Add, TypeOK, Rings
  <2> QED  BY <1>1, <2>1, <2>2, <2>3 DEF TypeOK, Rings
<1> QED  BY <1>3, <1>4

LEMMA RemoveListed ==
    ASSUME TypeOK, NodesListed, NEW s \in Shards, Remove(s)
    PROVE  NodesListed'
<1>1. /\ ring'.nodes = [p \in Positions |-> IF p \in ring.lists[s] THEN NoShard ELSE ring.nodes[p]]
      /\ ring'.known = ring.known \ {s}
      /\ ring'.lists = [ring.lists EXCEPT ![s] = {}]
  BY DEF Remove, RemoveShard
<1>2. SUFFICES ASSUME NEW p \in Positions, ring'.nodes[p] # NoShard
               PROVE  /\ ring'.nodes[p] \in ring'.known
                      /\ p \in ring'.lists[ring'.nodes[p]]
  BY DEF NodesListed, NodesAreListed, OnRing
<1>3. p \notin ring.lists[s] /\ ring'.nodes[p] = ring.nodes[p] /\ p \in OnRing(ring)
  BY <1>1, <1>2 DEF OnRing
<1>4. ring.nodes[p] \in ring.known /\ p \in ring.lists[ring.nodes[p]]
  BY <1>3 DEF NodesListed, NodesAreListed
<1>5. ring.nodes[p] # s /\ ring.nodes[p] \in Shards
  BY <1>3, <1>4 DEF TypeOK, Rings
<1> QED  BY <1>1, <1>3, <1>4, <1>5 DEF TypeOK, Rings

LEMMA MoveListed ==
    ASSUME TypeOK, NodesListed, NEW p \in Positions, NEW s \in Shards, Move(p, s)
    PROVE  NodesListed'
<1>1. /\ ring'.nodes = [ring.nodes EXCEPT ![p] = s]
      /\ ring'.known = ring.known \cup {s}
      /\ \A t \in Shards : ring'.lists[t] =
           (IF t = ring.nodes[p] THEN ring.lists[t] \ {p} ELSE ring.lists[t])
             \cup (IF t = s THEN {p} ELSE {})
  BY DEF Move, Reassign
<1>2. SUFFICES ASSUME NEW q \in Positions, ring'.nodes[q] # NoShard
               PROVE  /\ ring'.nodes[q] \in ring'.known
                      /\ q \in ring'.lists[ring'.nodes[q]]
  BY DEF NodesListed, NodesAreListed, OnRing
<1>3. CASE q = p
  BY <1>1, <1>3 DEF TypeOK, Rings
<1>4. CASE q # p
  <2>1. ring'.nodes[q] = ring.nodes[q] /\ q \in OnRing(ring)
    BY <1>1, <1>2, <1>4 DEF OnRing, TypeOK, Rings
  <2>2. ring.nodes[q] \in ring.known /\ q \in ring.lists[ring.nodes[q]]
    BY <2>1 DEF NodesListed, NodesAreListed
  <2>3. ring.nodes[q] \in Shards
    BY <2>2 DEF TypeOK, Rings
  <2> QED  BY <1>1, <1>4, <2>1, <2>2, <2>3
<1> QED  BY <1>3, <1>4

LEMMA InitListed == RingInit => NodesListed
BY DEF RingInit, EmptyRing, NodesListed, NodesAreListed, OnRing

LEMMA ClearListed == Clear => NodesListed'
BY DEF Clear, EmptyRing, NodesListed, NodesAreListed, OnRing

-----------------------------------------------------------------------------
(* Every sequence of ring operations keeps the ring's type and every node  *)
(* in the list of its owner.                                               *)
THEOREM Inductive == RingSpec => []IInv
<1>1. RingInit => IInv
  BY InitType, InitListed DEF IInv
<1>2. IInv /\ [RingNext]_ring => IInv'
  <2> SUFFICES ASSUME IInv, [RingNext]_ring PROVE IInv'
    OBVIOUS
  <2>1. ASSUME NEW s \in Shards, NEW n \in 0..MaxVNodes, Add(s, n) PROVE IInv'
    BY <2>1, AddType, AddListed DEF IInv
  <2>2. ASSUME NEW s \in Shards, Remove(s) PROVE IInv'
    BY <2>2, RemoveType, RemoveListed DEF IInv
  <2>3. ASSUME NEW p \in Positions, NEW s \in Shards, Move(p, s) PROVE IInv'
    BY <2>3, MoveType, MoveListed DEF IInv
  <2>4. CASE Clear
    BY <2>4, ClearType, ClearListed DEF IInv
  <2>5. CASE UNCHANGED ring
    BY <2>5 DEF IInv, TypeOK, NodesListed
  <2> QED  BY <2>1, <2>2, <2>3, <2>4, <2>5 DEF RingNext
<1> QED  BY <1>1, <1>2, PTL DEF RingSpec

(* remove_shard takes every node of the shard off the ring, because the    *)
(* lists name all of them, whatever was reassigned before.                 *)
THEOREM EveryNodeListed == RingSpec => []NodesListed
<1>1. IInv => NodesListed
  BY DEF IInv
<1> QED  BY <1>1, Inductive, PTL

(* find_shard never answers with a shard the ring does not know.           *)
THEOREM RoutesToKnown == RingSpec => []RoutedAreKnown
<1>1. IInv => RoutedAreKnown
  <2> SUFFICES ASSUME IInv, NEW h \in Keys
               PROVE  FindShard(ring, h) \in ring.known \cup {NoShard}
    BY DEF RoutedAreKnown
  <2>1. ring \in Rings /\ NodesAreListed(ring)
    BY DEF IInv, TypeOK, NodesListed
  <2> QED  BY <2>1, FindShardOwner DEF NodesAreListed
<1> QED  BY <1>1, Inductive, PTL

-----------------------------------------------------------------------------
(* If q has all nodes of r, and a node of q belongs to s or to its owner   *)
(* in r, then a key that q does not route to s it routes like r.           *)
LEMMA OnlyToOne ==
    ASSUME NEW r \in Rings, NEW q \in Rings, NEW s, NEW h \in Keys,
           OnRing(r) \subseteq OnRing(q),
           \A p \in Positions : q.nodes[p] \in {s, r.nodes[p]}
    PROVE  FindShard(q, h) \in {s, FindShard(r, h)}
<1> DEFINE after(x) == {p \in OnRing(x) : p >= h}
<1>1. /\ OnRing(q) \subseteq Nat /\ OnRing(r) \subseteq Nat
      /\ after(q) \subseteq Nat /\ after(r) \subseteq after(q)
  BY PositionsAreNumbers DEF OnRing
<1>2. \A p \in OnRing(q) : q.nodes[p] # s => p \in OnRing(r) /\ q.nodes[p] = r.nodes[p]
  BY DEF OnRing
<1>3. CASE OnRing(q) = {}
  <2>1. OnRing(r) = {}
    BY <1>3
  <2> QED  BY <1>3, <2>1 DEF FindShard
<1>4. CASE OnRing(q) # {} /\ after(q) # {}
  <2> DEFINE l == Least(after(q))
  <2>1. l \in after(q)
    BY <1>1, <1>4, LeastIsLeast
  <2>2. FindShard(q, h) = q.nodes[l]
    BY <1>4 DEF FindShard
  <2>3. CASE q.nodes[l] # s
    <3>1. l \in after(r) /\ q.nodes[l] = r.nodes[l]
      BY <1>2, <2>1, <2>3
    <3>2. Least(after(r)) = l
      BY <1>1, <3>1, LeastOfPart
    <3>3. FindShard(r, h) = r.nodes[Least(after(r))]
      BY <3>1 DEF FindShard
    <3> QED  BY <2>2, <3>1, <3>2, <3>3
  <2> QED  BY <2>2, <2>3
<1>5. CASE OnRing(q) # {} /\ after(q) = {}
  <2> DEFINE l == Least(OnRing(q))
  <2>1. l \in OnRing(q)
    BY <1>1, <1>5, LeastIsLeast
  <2>2. FindShard(q, h) = q.nodes[l]
    BY <1>5 DEF FindShard
  <2>3. CASE q.nodes[l] # s
    <3>1. l \in OnRing(r) /\ q.nodes[l] = r.nodes[l]
      BY <1>2, <2>1, <2>3
    <3>2. Least(OnRing(r)) = l
      BY <1>1, <3>1, LeastOfPart
    <3>3. after(r) = {}
      BY <1>1, <1>5
    <3>4. FindShard(r, h) = r.nodes[Least(OnRing(r))]
      BY <3>1, <3>3 DEF FindShard
    <3> QED  BY <2>2, <3>1, <3>2, <3>4
  <2> QED  BY <2>2, <2>3
<1> QED  BY <1>3, <1>4, <1>5

(* Adding a shard moves keys to it only; removing one moves its keys only, *)
(* unless a list names a node of another shard.                            *)
THEOREM KeysStayPut == RingSpec => KeysStay
<1> DEFINE Step ==
      \A s \in Shards :
         /\ (\E n \in 0..MaxVNodes : Add(s, n)) =>
              \A h \in Keys : FindShard(ring', h) \in {s, FindShard(ring, h)}
         /\ Remove(s) /\ ListedAreNodes(ring) =>
              \A h \in Keys : FindShard(ring, h) \in {s, FindShard(ring', h)}
<1>1. IInv /\ IInv' => Step
  <2> SUFFICES ASSUME IInv, IInv', NEW s \in Shards, NEW h \in Keys
               PROVE  /\ (\E n \in 0..MaxVNodes : Add(s, n)) =>
                            FindShard(ring', h) \in {s, FindShard(ring, h)}
                      /\ Remove(s) /\ ListedAreNodes(ring) =>
                            FindShard(ring, h) \in {s, FindShard(ring', h)}
    OBVIOUS
  <2>1. ring \in Rings /\ ring' \in Rings
    BY DEF IInv, TypeOK
  <2>2. ASSUME NEW n \in 0..MaxVNodes, Add(s, n)
        PROVE  FindShard(ring', h) \in {s, FindShard(ring, h)}
    <3> DEFINE mine == {Position(ring, s, i) : i \in 1..n}
    <3>1. ring'.nodes = [p \in Positions |-> IF p \in mine THEN s ELSE ring.nodes[p]]
      BY <2>2 DEF Add, AddShard
    <3> HIDE DEF mine
    <3>2. \A p \in Positions : ring'.nodes[p] \in {s, ring.nodes[p]}
      BY <3>1
    <3>3. OnRing(ring) \subseteq OnRing(ring')
      BY <3>2, NoShardIsNone DEF OnRing
    <3> QED  BY <2>1, <3>2, <3>3, OnlyToOne
  <2>3. ASSUME Remove(s), ListedAreNodes(ring)
        PROVE  FindShard(ring, h) \in {s, FindShard(ring', h)}
    <3>1. ring'.nodes = [p \in Positions |->
                           IF p \in ring.lists[s] THEN NoShard ELSE ring.nodes[p]]
      BY <2>3 DEF Remove, RemoveShard
    <3>2. \A p \in Positions : ring.nodes[p] \in {s, ring'.nodes[p]}
      BY <2>3, <3>1 DEF ListedAreNodes
    <3>3. OnRing(ring') \subseteq OnRing(ring)
      BY <3>1 DEF OnRing
    <3> QED  BY <2>1, <3>2, <3>3, OnlyToOne
  <2> QED  BY <2>2, <2>3
<1>2. Step => [Step]_ring
  OBVIOUS
<1> QED  BY <1>1, Inductive, PTL DEF KeysStay

-----------------------------------------------------------------------------
(* find_shards_with_replicas.                                              *)

(* The positions a table of hashes names.                                  *)
Row(F, s) == {F[s][i] : i \in VNodes}
Named(F) == UNION {Row(F, s) : s \in Shards}

LEMMA NamedFinite ==
    ASSUME NEW F \in [Shards -> [VNodes -> Nat]]
    PROVE  IsFiniteSet(Named(F))
<1> DEFINE Rows == {Row(F, s) : s \in Shards}
           f == [s \in Shards |-> Row(F, s)]
<1>1. IsFiniteSet(VNodes) /\ IsFiniteSet(Shards)
  BY PlaceAssumption, FS_Interval DEF VNodes
<1>2. ASSUME NEW s \in Shards PROVE IsFiniteSet(Row(F, s))
  <2>1. F[s] \in Surjection(VNodes, Row(F, s))
    BY DEF Surjection, Row
  <2> QED  BY <1>1, <2>1, FS_Surjection
<1>3. f \in Surjection(Shards, Rows)
  BY DEF Surjection
<1>4. \A R \in Rows : IsFiniteSet(R)
  BY <1>2
<1> HIDE DEF Rows, f
<1>5. IsFiniteSet(Rows)
  BY <1>1, <1>3, FS_Surjection
<1>6. IsFiniteSet(UNION Rows)
  BY <1>4, <1>5, FS_UNION
<1> QED  BY <1>6 DEF Rows, Named

LEMMA PositionsFinite == IsFiniteSet(Positions)
<1>1. IsFiniteSet(Named(Place)) /\ IsFiniteSet(Named(Retry))
  BY PlaceAssumption, NamedFinite
<1>2. Positions = Named(Place) \cup Named(Retry)
  BY DEF Positions, Named, Row
<1> QED  BY <1>1, <1>2, FS_Union

(* How many numbers of S are smaller.                                      *)
Below(S, p) == {q \in S : q < p}
Rank(S, p) == Cardinality(Below(S, p))

LEMMA RankGrows ==
    ASSUME NEW S, S \subseteq Nat, IsFiniteSet(S), NEW p \in S
    PROVE  /\ Cardinality(S) \in Nat /\ Rank(S, p) \in 0..(Cardinality(S) - 1)
           /\ \A q \in S : p < q => Rank(S, p) < Rank(S, q)
<1>1. \A q : Below(S, q) \in SUBSET S
  BY DEF Below
<1>2. \A q : IsFiniteSet(Below(S, q)) /\ Rank(S, q) \in Nat /\ Rank(S, q) <= Cardinality(S)
  BY <1>1, FS_Subset, FS_CardinalityType DEF Rank
<1>3. Cardinality(S) \in Nat
  BY FS_CardinalityType
<1>4. Rank(S, p) # Cardinality(S)
  <2>1. p \notin Below(S, p)
    BY DEF Below
  <2> QED  BY <1>1, <2>1, FS_Subset DEF Rank
<1>5. ASSUME NEW q \in S, p < q PROVE Rank(S, p) < Rank(S, q)
  <2>0. /\ p \in Nat /\ q \in Nat /\ ~(p < p)
        /\ \A x \in S : x < p => x < q
    BY <1>5
  <2>1. Below(S, p) \in SUBSET Below(S, q) /\ p \in Below(S, q) /\ p \notin Below(S, p)
    BY <1>5, <2>0 DEF Below
  <2>2. Rank(S, p) <= Rank(S, q) /\ Rank(S, p) # Rank(S, q)
    BY <1>2, <2>1, FS_Subset DEF Rank
  <2> QED  BY <1>2, <2>2
<1> QED  BY <1>2, <1>3, <1>4, <1>5

(* Ascending lists a finite set of numbers, each once, the least first.    *)
LEMMA AscendingLists ==
    ASSUME NEW S, S \subseteq Nat, IsFiniteSet(S)
    PROVE  /\ Cardinality(S) \in Nat
           /\ Ascending(S) \in [1..Cardinality(S) -> S]
           /\ \A j, k \in 1..Cardinality(S) : Ascending(S)[j] = Ascending(S)[k] => j = k
           /\ \A p \in S : \E k \in 1..Cardinality(S) : Ascending(S)[k] = p
           /\ S # {} => 1 \in 1..Cardinality(S) /\ Ascending(S)[1] = Least(S)
<1> DEFINE n == Cardinality(S)
           A == Ascending(S)
           f == [p \in S |-> Rank(S, p)]
<1>0. \A p \in S : /\ Rank(S, p) \in 0..(n - 1)
                   /\ \A q \in S : p < q => Rank(S, p) < Rank(S, q)
  BY RankGrows, Zenon
<1>1. n \in Nat
  BY FS_CardinalityType
<1> HIDE DEF n
<1>2. \A p, q \in S : Rank(S, p) = Rank(S, q) => p = q
  <2> SUFFICES ASSUME NEW p \in S, NEW q \in S, Rank(S, p) = Rank(S, q) PROVE p = q
    OBVIOUS
  <2>1. p \in Nat /\ q \in Nat /\ Rank(S, p) \in Nat /\ Rank(S, q) \in Nat
    BY <1>1, <1>0
  <2>2. ~(p < q) /\ ~(q < p)
    BY <1>0, <2>1
  <2> QED  BY <2>1, <2>2
<1>3. f \in Injection(S, 0..(n - 1))
  BY <1>0, <1>2 DEF Injection, IsInjective
<1>4. IsFiniteSet(0..(n - 1)) /\ Cardinality(0..(n - 1)) = n
  BY <1>1, FS_Interval
<1>5. f \in Surjection(S, 0..(n - 1))
  <2>1. Cardinality(S) = Cardinality(0..(n - 1))
    BY <1>4 DEF n
  <2> HIDE DEF f
  <2> QED  BY <1>3, <1>4, <2>1, FS_Injection
<1>6. \A k \in 1..n : \E p \in S : Rank(S, p) = k - 1
  <2>1. \A m \in 0..(n - 1) : \E p \in S : Rank(S, p) = m
    BY <1>5 DEF Surjection
  <2> QED  BY <1>1, <2>1
<1>7. A = [k \in 1..n |-> CHOOSE p \in S : Rank(S, p) = k - 1]
  BY DEF Ascending, Rank, Below, n
<1> HIDE DEF A, f
<1>8. \A k \in 1..n : A[k] \in S /\ Rank(S, A[k]) = k - 1
  BY <1>6, <1>7
<1>9. A \in [1..n -> S]
  BY <1>7, <1>8
<1>10. \A j, k \in 1..n : A[j] = A[k] => j = k
  BY <1>1, <1>8
<1>11. \A p \in S : \E k \in 1..n : A[k] = p
  <2> SUFFICES ASSUME NEW p \in S PROVE \E k \in 1..n : A[k] = p
    OBVIOUS
  <2>1. Rank(S, p) \in 0..(n - 1)
    BY <1>0
  <2>2. Rank(S, p) + 1 \in 1..n /\ (Rank(S, p) + 1) - 1 = Rank(S, p)
    BY <1>1, <2>1
  <2>3. A[Rank(S, p) + 1] = p
    BY <1>2, <1>8, <2>2
  <2> QED  BY <2>2, <2>3
<1>12. ASSUME S # {} PROVE 1 \in 1..n /\ A[1] = Least(S)
  <2>1. Least(S) \in S /\ \A q \in S : Least(S) <= q
    BY <1>12, LeastIsLeast
  <2>2. \A q \in S : ~(q < Least(S))
    <3>1. ASSUME NEW l \in S, \A q \in S : l <= q PROVE \A q \in S : ~(q < l)
      BY <3>1
    <3> QED  BY <2>1, <3>1
  <2>3. Rank(S, Least(S)) = 0
    <3>1. Below(S, Least(S)) = {}
      BY <2>2 DEF Below
    <3> QED  BY <3>1, FS_EmptySet DEF Rank
  <2>4. 1 \in 1..n
    <3>1. PICK k \in 1..n : A[k] = Least(S)
      BY <1>11, <2>1
    <3> QED  BY <1>1, <3>1
  <2>5. Rank(S, A[1]) = 0 /\ A[1] \in S
    BY <1>8, <2>4
  <2> QED  BY <1>2, <2>1, <2>3, <2>4, <2>5
<1> QED  BY <1>1, <1>9, <1>10, <1>11, <1>12 DEF A, n

(* Where a walk that meets o[1], o[2], ... meets somebody new, and whom.   *)
First(n, o) == {k \in 1..n : \A j \in 1..(k - 1) : o[j] # o[k]}
Met(n, o) == {o[k] : k \in 1..n}
Found(n, o) == [k \in 1..Cardinality(First(n, o)) |-> o[Ascending(First(n, o))[k]]]

(* Each owner is met for the first time once.                              *)
LEMMA FirstMeetings ==
    ASSUME NEW n \in Nat, NEW o
    PROVE  /\ First(n, o) \subseteq 1..n
           /\ IsFiniteSet(First(n, o))
           /\ \A j, k \in First(n, o) : o[j] = o[k] => j = k
           /\ Cardinality(First(n, o)) = Cardinality(Met(n, o))
<1> DEFINE F == First(n, o)
           M == Met(n, o)
           f == [k \in F |-> o[k]]
<1>1. F \subseteq 1..n
  BY DEF First
<1>2. IsFiniteSet(F)
  <2>1. IsFiniteSet(1..n)
    BY FS_Interval
  <2> HIDE DEF F
  <2>2. F \in SUBSET (1..n)
    BY <1>1
  <2> QED  BY <2>1, <2>2, FS_Subset
<1>3. ASSUME NEW j \in F, NEW k \in F, o[j] = o[k] PROVE j = k
  <2>1. j \in Nat /\ k \in Nat /\ j >= 1 /\ k >= 1
    BY <1>1
  <2>2. ~(j < k)
    <3> SUFFICES ASSUME j < k PROVE FALSE
      OBVIOUS
    <3>1. j \in 1..(k - 1)
      BY <2>1
    <3> QED  BY <1>3, <3>1 DEF First
  <2>3. ~(k < j)
    <3> SUFFICES ASSUME k < j PROVE FALSE
      OBVIOUS
    <3>1. k \in 1..(j - 1)
      BY <2>1
    <3> QED  BY <1>3, <3>1 DEF First
  <2> QED  BY <2>1, <2>2, <2>3
<1>4. ASSUME NEW m \in M PROVE \E k \in F : o[k] = m
  <2> DEFINE T == {k \in 1..n : o[k] = m}
  <2>1. T # {} /\ T \subseteq Nat
    BY <1>4 DEF Met
  <2>2. Least(T) \in T /\ \A q \in T : Least(T) <= q
    BY <2>1, LeastIsLeast
  <2>3. ASSUME NEW l \in T, \A q \in T : l <= q PROVE l \in F
    <3>1. l \in 1..n /\ o[l] = m
      OBVIOUS
    <3>2. ASSUME NEW j \in 1..(l - 1) PROVE o[j] # o[l]
      <4>1. j \in 1..n /\ ~(l <= j)
        BY <3>1
      <4> QED  BY <2>3, <3>1, <4>1
    <3> QED  BY <3>1, <3>2 DEF First
  <2> QED  BY <2>2, <2>3
<1>5. f \in Surjection(F, M) /\ f \in Injection(F, M)
  <2>1. \A k \in F : o[k] \in M
    BY <1>1 DEF Met
  <2> HIDE DEF F, M
  <2> QED  BY <1>3, <1>4, <2>1 DEF Surjection, Injection, IsInjective
<1> HIDE DEF F, M, f
<1>6. Cardinality(M) = Cardinality(F)
  BY <1>2, <1>5, FS_Surjection
<1> QED  BY <1>1, <1>2, <1>3, <1>6 DEF F, M

(* The shards found: those met, each once, the first one first.            *)
LEMMA FoundOnce ==
    ASSUME NEW n \in Nat, NEW o
    PROVE  /\ Cardinality(Met(n, o)) \in Nat
           /\ Cardinality(First(n, o)) = Cardinality(Met(n, o))
           /\ \A k \in 1..Cardinality(Met(n, o)) : Found(n, o)[k] \in Met(n, o)
           /\ \A j, k \in 1..Cardinality(Met(n, o)) : Found(n, o)[j] = Found(n, o)[k] => j = k
           /\ n # 0 => 1 \in 1..Cardinality(Met(n, o)) /\ Found(n, o)[1] = o[1]
<1> DEFINE F == First(n, o)
           c == Cardinality(Met(n, o))
           A == Ascending(F)
<1>1. /\ F \subseteq 1..n /\ IsFiniteSet(F) /\ Cardinality(F) = c
      /\ \A j, k \in F : o[j] = o[k] => j = k
  BY FirstMeetings
<1>2. n # 0 => 1 \in F
  BY DEF First
<1>3. Found(n, o) = [k \in 1..c |-> o[A[k]]]
  BY <1>1 DEF Found
<1>4. \A k \in F : o[k] \in Met(n, o)
  BY <1>1 DEF Met
<1> HIDE DEF F, c
<1>5. F \subseteq Nat
  BY <1>1
<1>6. /\ c \in Nat
      /\ A \in [1..c -> F]
      /\ \A j, k \in 1..c : A[j] = A[k] => j = k
      /\ F # {} => 1 \in 1..c /\ A[1] = Least(F)
  BY <1>1, <1>5, AscendingLists, Zenon
<1> HIDE DEF A
<1>7. \A j, k \in 1..c : Found(n, o)[j] = Found(n, o)[k] => j = k
  <2> SUFFICES ASSUME NEW j \in 1..c, NEW k \in 1..c, Found(n, o)[j] = Found(n, o)[k]
               PROVE  j = k
    OBVIOUS
  <2>1. A[j] \in F /\ A[k] \in F /\ o[A[j]] = o[A[k]]
    BY <1>3, <1>6
  <2> QED  BY <1>1, <1>6, <2>1
<1>8. \A k \in 1..c : Found(n, o)[k] \in Met(n, o)
  BY <1>3, <1>4, <1>6
<1>9. ASSUME n # 0 PROVE 1 \in 1..c /\ Found(n, o)[1] = o[1]
  <2>1. Least(F) \in F /\ \A q \in F : Least(F) <= q
    BY <1>2, <1>5, <1>9, LeastIsLeast
  <2>2. ASSUME NEW l \in F, \A q \in F : l <= q PROVE l = 1
    <3>1. l \in Nat /\ l >= 1 /\ l <= 1
      BY <1>1, <1>2, <1>9, <2>2
    <3> QED  BY <3>1
  <2>3. A[1] = 1 /\ 1 \in 1..c
    BY <1>2, <1>6, <1>9, <2>1, <2>2
  <2> QED  BY <1>3, <2>3
<1> QED  BY <1>1, <1>6, <1>7, <1>8, <1>9 DEF c, F

(* The walk around the ring from h: the nodes at or after h, then all.     *)
Walk(r, h) == Ascending({p \in OnRing(r) : p >= h}) \o Ascending(OnRing(r))
Owner(r, h) == [k \in 1..Len(Walk(r, h)) |-> r.nodes[Walk(r, h)[k]]]

(* The walk meets the owners of all nodes, and first the one find_shard    *)
(* names.                                                                  *)
LEMMA WalkMeetsAll ==
    ASSUME NEW r \in Rings, NEW h \in Nat
    PROVE  /\ Len(Walk(r, h)) \in Nat
           /\ \A k \in 1..Len(Walk(r, h)) : Walk(r, h)[k] \in OnRing(r)
           /\ Met(Len(Walk(r, h)), Owner(r, h)) = {r.nodes[p] : p \in OnRing(r)}
           /\ OnRing(r) # {} => /\ Len(Walk(r, h)) # 0
                                /\ Owner(r, h)[1] = FindShard(r, h)
<1> DEFINE all == OnRing(r)
           after == {p \in all : p >= h}
           a == Cardinality(after)
           b == Cardinality(all)
           AA == Ascending(after)
           BB == Ascending(all)
           w == Walk(r, h)
<1>1. /\ all \subseteq Nat /\ IsFiniteSet(all)
      /\ after \subseteq Nat /\ IsFiniteSet(after) /\ after \subseteq all
  <2>1. all \in SUBSET Positions
    BY DEF OnRing
  <2>2. IsFiniteSet(all)
    BY <2>1, PositionsFinite, FS_Subset
  <2>3. after \in SUBSET all
    OBVIOUS
  <2> HIDE DEF all, after
  <2>4. IsFiniteSet(after)
    BY <2>2, <2>3, FS_Subset
  <2> QED  BY <2>1, <2>2, <2>3, <2>4, PositionsAreNumbers
<1>2. w = AA \o BB
  BY DEF Walk
<1>3. FindShard(r, h) = IF all = {} THEN NoShard
                        ELSE IF after # {} THEN r.nodes[Least(after)]
                        ELSE r.nodes[Least(all)]
  BY DEF FindShard
<1>4. all = {} <=> OnRing(r) = {}
  OBVIOUS
<1> HIDE DEF all, after
<1>5. /\ b \in Nat /\ BB \in [1..b -> all]
      /\ \A p \in all : \E k \in 1..b : BB[k] = p
      /\ all # {} => 1 \in 1..b /\ BB[1] = Least(all)
  BY <1>1, AscendingLists, Zenon
<1>6. /\ a \in Nat /\ AA \in [1..a -> after]
      /\ after # {} => 1 \in 1..a /\ AA[1] = Least(after)
  BY <1>1, AscendingLists, Zenon
<1>7. after = {} => a = 0
  BY FS_EmptySet
<1> HIDE DEF a, b, AA, BB, w
<1>8. AA \in Seq(all) /\ BB \in Seq(all) /\ Len(AA) = a /\ Len(BB) = b
  <2>1. AA \in [1..a -> all]
    BY <1>1, <1>6
  <2> QED  BY <2>1, <1>5, <1>6
<1>9. /\ Len(w) = a + b
      /\ \A i \in 1..a + b : w[i] = IF i <= a THEN AA[i] ELSE BB[i - a]
  BY <1>2, <1>8, ConcatProperties
<1>10. Len(w) \in Nat
  BY <1>5, <1>6, <1>9
<1>11. ASSUME NEW k \in 1..Len(w) PROVE w[k] \in all
  <2>1. CASE k <= a
    <3>1. k \in 1..a /\ k \in 1..a + b
      BY <1>5, <1>6, <1>9, <2>1
    <3> QED  BY <1>1, <1>6, <1>9, <2>1, <3>1
  <2>2. CASE ~(k <= a)
    <3>1. k - a \in 1..b /\ k \in 1..a + b
      BY <1>5, <1>6, <1>9, <2>2
    <3> QED  BY <1>5, <1>9, <2>2, <3>1
  <2> QED  BY <2>1, <2>2
<1>12. ASSUME NEW p \in all PROVE \E k \in 1..Len(w) : w[k] = p
  <2>1. PICK k \in 1..b : BB[k] = p
    BY <1>5
  <2>2. a + k \in 1..a + b /\ ~(a + k <= a) /\ (a + k) - a = k
    BY <1>5, <1>6
  <2>3. w[a + k] = p
    BY <1>9, <2>1, <2>2
  <2> QED  BY <1>9, <2>2, <2>3
<1>13. Owner(r, h) = [k \in 1..Len(w) |-> r.nodes[w[k]]]
  BY DEF Owner, w
<1>14. Met(Len(w), Owner(r, h)) = {r.nodes[p] : p \in all}
  BY <1>11, <1>12, <1>13 DEF Met
<1>15. ASSUME all # {} PROVE Len(w) # 0 /\ Owner(r, h)[1] = FindShard(r, h)
  <2>1. 1 \in 1..Len(w) /\ 1 \in 1..a + b
    BY <1>5, <1>6, <1>9, <1>15
  <2>2. Owner(r, h)[1] = r.nodes[w[1]]
    BY <1>13, <2>1
  <2>3. CASE after # {}
    <3>1. w[1] = AA[1]
      BY <1>6, <1>9, <2>1, <2>3
    <3> QED  BY <1>3, <1>6, <1>15, <2>1, <2>2, <2>3, <3>1
  <2>4. CASE after = {}
    <3>1. w[1] = BB[1]
      <4>1. a = 0
        BY <1>7, <2>4
      <4> QED  BY <1>9, <2>1, <4>1
    <3> QED  BY <1>3, <1>5, <1>15, <2>1, <2>2, <2>4, <3>1
  <2> QED  BY <2>3, <2>4
<1> QED  BY <1>10, <1>11, <1>14, <1>15 DEF w, all

(* find_shards_with_replicas returns the first of the shards found.        *)
Wanted(count) == IF count = 0 THEN 1 ELSE count

LEMMA ReplicasAreFound ==
    ASSUME NEW r \in Rings, NEW h \in Nat, NEW count \in Nat
    PROVE  LET n == Len(Walk(r, h))
               c == Cardinality(First(n, Owner(r, h)))
           IN  FindReplicas(r, h, count) =
                 SubSeq(Found(n, Owner(r, h)), 1,
                        IF Wanted(count) < c THEN Wanted(count) ELSE c)
<1> DEFINE w == Walk(r, h)
           n == Len(w)
           o == Owner(r, h)
           owner(k) == r.nodes[w[k]]
           first == {k \in 1..n : \A j \in 1..(k - 1) : owner(j) # owner(k)}
           found == [k \in 1..Cardinality(first) |-> owner(Ascending(first)[k])]
           wanted == IF count = 0 THEN 1 ELSE count
<1>1. FindReplicas(r, h, count) =
        SubSeq(found, 1, IF wanted < Len(found) THEN wanted ELSE Len(found))
  BY DEF FindReplicas, Walk
<1>2. n \in Nat
  BY WalkMeetsAll
<1>3. o = [k \in 1..n |-> owner(k)]
  BY DEF Owner
<1> HIDE DEF o, n, w
<1>4. first = First(n, o)
  <2>1. \A k \in 1..n : o[k] = owner(k) /\ \A j \in 1..(k - 1) : j \in 1..n
    BY <1>2, <1>3
  <2> QED  BY <1>3, <2>1 DEF First
<1>5. /\ First(n, o) \subseteq 1..n /\ IsFiniteSet(First(n, o))
  BY <1>2, FirstMeetings, Zenon
<1>6. First(n, o) \subseteq Nat
  BY <1>5
<1>7. /\ Cardinality(First(n, o)) \in Nat
      /\ Ascending(First(n, o)) \in [1..Cardinality(First(n, o)) -> First(n, o)]
  BY <1>5, <1>6, AscendingLists, Zenon
<1>8. found = Found(n, o)
  <2>1. \A k \in 1..Cardinality(First(n, o)) : Ascending(First(n, o))[k] \in 1..n
    BY <1>5, <1>7
  <2> HIDE DEF first
  <2> QED  BY <1>3, <1>4, <2>1 DEF Found
<1>9. Len(found) = Cardinality(First(n, o))
  <2> HIDE DEF first
  <2> QED  BY <1>4, <1>7
<1> HIDE DEF found
<1> QED  BY <1>1, <1>8, <1>9 DEF Wanted, n, o, w

(* find_shards_with_replicas (consistent_hash.rs) answers with distinct    *)
(* shards that have nodes on the ring, find_shard's first, as many as      *)
(* asked for or as there are, on every ring the operations can reach.      *)
THEOREM ReplicasAreRight == RingSpec => []ReplicasOK
<1>1. IInv => ReplicasOK
  <2> SUFFICES ASSUME IInv,
                      NEW h \in Keys, NEW count \in 0..Cardinality(Shards) + 1
               PROVE  LET owners == {ring.nodes[p] : p \in OnRing(ring)}
                          found == FindReplicas(ring, h, count)
                          wanted == IF count = 0 THEN 1 ELSE count
                      IN  /\ \A i, j \in DOMAIN found : found[i] = found[j] => i = j
                          /\ \A i \in DOMAIN found : found[i] \in owners
                          /\ Len(found) = IF wanted < Cardinality(owners)
                                          THEN wanted ELSE Cardinality(owners)
                          /\ owners # {} => found[1] = FindShard(ring, h)
    BY DEF ReplicasOK
  <2> DEFINE owners == {ring.nodes[p] : p \in OnRing(ring)}
             found == FindReplicas(ring, h, count)
             n == Len(Walk(ring, h))
             o == Owner(ring, h)
             c == Cardinality(owners)
             all == Found(n, o)
             m == IF Wanted(count) < c THEN Wanted(count) ELSE c
  <2>1. ring \in Rings /\ h \in Nat /\ count \in Nat
    <3>1. Cardinality(Shards) \in Nat
      BY PlaceAssumption, FS_CardinalityType
    <3> QED  BY <3>1, KeysAssumption DEF IInv, TypeOK
  <2>2. /\ n \in Nat /\ Met(n, o) = owners
        /\ OnRing(ring) # {} => n # 0 /\ o[1] = FindShard(ring, h)
    BY <2>1, WalkMeetsAll
  <2>3. found = SubSeq(all, 1, IF Wanted(count) < Cardinality(First(n, o))
                               THEN Wanted(count) ELSE Cardinality(First(n, o)))
    BY <2>1, ReplicasAreFound
  <2>4. owners # {} => OnRing(ring) # {}
    OBVIOUS
  <2> HIDE DEF n, o, owners, found
  <2>5. /\ c \in Nat /\ Cardinality(First(n, o)) = c
        /\ \A k \in 1..c : all[k] \in owners
        /\ \A j, k \in 1..c : all[j] = all[k] => j = k
        /\ n # 0 => 1 \in 1..c /\ all[1] = o[1]
    <3>1. /\ Cardinality(Met(n, o)) \in Nat
          /\ Cardinality(First(n, o)) = Cardinality(Met(n, o))
          /\ \A k \in 1..Cardinality(Met(n, o)) : all[k] \in Met(n, o)
          /\ \A j, k \in 1..Cardinality(Met(n, o)) : all[j] = all[k] => j = k
          /\ n # 0 => 1 \in 1..Cardinality(Met(n, o)) /\ all[1] = o[1]
      BY <2>2, FoundOnce
    <3> QED  BY <2>2, <3>1
  <2>6. Wanted(count) \in Nat /\ Wanted(count) >= 1
    BY <2>1 DEF Wanted
  <2>7. found = SubSeq(all, 1, m)
    BY <2>3, <2>5
  <2> HIDE DEF all, c
  <2>8. m \in Nat /\ m <= c /\ (1 \in 1..c => m >= 1)
    BY <2>5, <2>6
  <2>9. m = IF Wanted(count) < c THEN Wanted(count) ELSE c
    OBVIOUS
  <2> HIDE DEF m
  <2>10. found \in Seq(owners) /\ Len(found) = m /\ \A i \in 1..m : found[i] = all[i]
    <3>1. \A i \in 1..m : i \in 1..c
      BY <2>5, <2>8
    <3>2. \A i \in 1..m : all[i] \in owners
      BY <2>5, <3>1
    <3>3. /\ SubSeq(all, 1, m) \in Seq(owners)
          /\ Len(SubSeq(all, 1, m)) = IF 1 <= m THEN m - 1 + 1 ELSE 0
          /\ \A i \in 1..(m - 1 + 1) : SubSeq(all, 1, m)[i] = all[1 + i - 1]
      BY <2>8, <3>2, SubSeqProperties
    <3>4. /\ (IF 1 <= m THEN m - 1 + 1 ELSE 0) = m /\ m - 1 + 1 = m
          /\ \A i \in 1..m : 1 + i - 1 = i
      BY <2>8
    <3> QED  BY <2>7, <3>3, <3>4
  <2>11. DOMAIN found = 1..m /\ \A i \in 1..m : i \in 1..c
    BY <2>5, <2>8, <2>10
  <2>12. \A i, j \in DOMAIN found : found[i] = found[j] => i = j
    BY <2>5, <2>10, <2>11
  <2>13. \A i \in DOMAIN found : found[i] \in owners
    BY <2>5, <2>10, <2>11
  <2>14. ASSUME owners # {} PROVE found[1] = FindShard(ring, h)
    <3>1. 1 \in 1..c /\ all[1] = FindShard(ring, h)
      BY <2>2, <2>4, <2>5, <2>14
    <3>2. 1 \in 1..m
      BY <2>8, <3>1
    <3> QED  BY <2>10, <3>1, <3>2
  <2> QED  BY <2>9, <2>10, <2>12, <2>13, <2>14 DEF Wanted, owners, found, c
<1> QED  BY <1>1, Inductive, PTL

-----------------------------------------------------------------------------
(* The replicated state machine.                                           *)

MigrationStates ==
    {NoMigration} \cup
    [status : {"InProgress", "Completed", "Aborted"}, target : Shards,
     nodes : Seq(Positions), started_at : Nat]

States ==
    [shards : [Shards -> ShardStatus \cup {"None"}],
     heartbeats : [Shards -> Nat],
     has_ring : BOOLEAN,
     hash_ring : Rings,
     migrations : [Migrations -> MigrationStates],
     config : Nat,
     version : Nat]

Mirrored(r) == NodesAreListed(r) /\ ListedAreNodes(r)

(* Two states that differ in what their replica's clock has put there.     *)
Same(s, t) ==
    /\ s.shards = t.shards /\ s.has_ring = t.has_ring /\ s.hash_ring = t.hash_ring
    /\ s.config = t.config /\ s.version = t.version
    /\ \A m \in Migrations :
         /\ s.migrations[m].status = t.migrations[m].status
         /\ s.migrations[m].target = t.migrations[m].target
         /\ s.migrations[m].nodes = t.migrations[m].nodes

(* What every handler does: given states that differ in clock values only, *)
(* it returns the same verdict and such states again; it leaves the        *)
(* version alone, and everything when it fails, unless a migration was     *)
(* being completed; it keeps a ring and its lists in agreement.            *)
Handles(s, t, c, o, u) ==
    /\ o.ok \in BOOLEAN /\ o.state \in States
    /\ o.ok = u.ok /\ Same(o.state, u.state)
    /\ o.state.version = s.version
    /\ ~o.ok /\ c.op # "CompleteMigration" => o.state = s
    /\ Mirrored(s.hash_ring) /\ (c.op = "UpdateHashRing" => Mirrored(c.ring))
         => Mirrored(o.state.hash_ring)

(* Reassigning a node keeps a ring a ring, and its lists in agreement.     *)
LEMMA ReassignKeeps ==
    ASSUME NEW r \in Rings, NEW p \in Positions, NEW s \in Shards
    PROVE  /\ Reassign(r, p, s) \in Rings
           /\ Mirrored(r) => Mirrored(Reassign(r, p, s))
<1> DEFINE q == Reassign(r, p, s)
<1>1. /\ q.nodes = [r.nodes EXCEPT ![p] = s]
      /\ q.known = r.known \cup {s}
      /\ q.lists = [t \in Shards |->
                      (IF t = r.nodes[p] THEN r.lists[t] \ {p} ELSE r.lists[t])
                        \cup (IF t = s THEN {p} ELSE {})]
      /\ q = [nodes |-> q.nodes, known |-> q.known, lists |-> q.lists]
  BY DEF Reassign
<1>2. /\ r.nodes \in [Positions -> Shards \cup {NoShard}]
      /\ r.known \in SUBSET Shards /\ r.lists \in [Shards -> SUBSET Positions]
  BY DEF Rings
<1> HIDE DEF q
<1>3. q.nodes \in [Positions -> Shards \cup {NoShard}] /\ q.known \in SUBSET Shards
  BY <1>1, <1>2
<1>4. q.lists \in [Shards -> SUBSET Positions]
  BY <1>1, <1>2
<1>5. q \in Rings
  BY <1>1, <1>3, <1>4 DEF Rings
<1>6. ASSUME Mirrored(r) PROVE Mirrored(q)
  <2>1. ASSUME NEW x \in OnRing(q)
        PROVE  q.nodes[x] \in q.known /\ x \in q.lists[q.nodes[x]]
    <3>1. x \in Positions /\ q.nodes[x] # NoShard
      BY DEF OnRing
    <3>2. CASE x = p
      BY <1>1, <1>2, <3>2
    <3>3. CASE x # p
      <4>1. q.nodes[x] = r.nodes[x] /\ x \in OnRing(r) /\ r.nodes[x] \in Shards
        BY <1>1, <1>2, <3>1, <3>3 DEF OnRing
      <4>2. r.nodes[x] \in r.known /\ x \in r.lists[r.nodes[x]]
        BY <1>6, <4>1 DEF Mirrored, NodesAreListed
      <4> QED  BY <1>1, <1>2, <3>3, <4>1, <4>2
    <3> QED  BY <3>2, <3>3
  <2>2. ASSUME NEW t \in Shards, NEW x \in q.lists[t]
        PROVE  t \in q.known /\ q.nodes[x] = t
    <3>1. CASE t = s /\ x = p
      BY <1>1, <1>2, <3>1
    <3>2. CASE ~(t = s /\ x = p)
      <4>1. x \in r.lists[t] /\ ~(t = r.nodes[p] /\ x = p)
        BY <1>1, <3>2
      <4>2. t \in r.known /\ r.nodes[x] = t
        BY <1>6, <4>1 DEF Mirrored, ListedAreNodes
      <4>3. x # p /\ x \in Positions
        BY <1>2, <4>1, <4>2
      <4> QED  BY <1>1, <1>2, <4>2, <4>3
    <3> QED  BY <3>1, <3>2
  <2> QED  BY <2>1, <2>2 DEF Mirrored, NodesAreListed, ListedAreNodes
<1> QED  BY <1>5, <1>6 DEF q

LEMMA ReassignableCount ==
    ASSUME NEW r, NEW nodes \in Seq(Positions)
    PROVE  /\ Cardinality(Reassignable(r, nodes)) \in 0..Len(nodes)
           /\ Cardinality(Reassignable(r, nodes)) # Len(nodes)
                => \E k \in DOMAIN nodes : nodes[k] \notin OnRing(r)
<1> DEFINE R == Reassignable(r, nodes)
           n == Len(nodes)
<1>1. n \in Nat /\ DOMAIN nodes = 1..n
  OBVIOUS
<1>2. R \in SUBSET (1..n)
  BY DEF Reassignable
<1>3. (\A k \in 1..n : nodes[k] \in OnRing(r)) => R = 1..n
  <2> SUFFICES ASSUME \A k \in 1..n : nodes[k] \in OnRing(r), NEW k \in 1..n
               PROVE  k \in R
    BY <1>2
  <2>1. \A j \in 1..k : j \in 1..n
    BY <1>1
  <2> QED  BY <2>1 DEF Reassignable
<1> HIDE DEF R, n
<1>4. IsFiniteSet(1..n) /\ Cardinality(1..n) = n
  BY <1>1, FS_Interval
<1>5. IsFiniteSet(R) /\ Cardinality(R) <= n
  BY <1>2, <1>4, FS_Subset
<1>6. Cardinality(R) \in Nat
  BY <1>5, FS_CardinalityType
<1>7. Cardinality(R) \in 0..n
  BY <1>1, <1>5, <1>6
<1>8. Cardinality(R) # n => \E k \in 1..n : nodes[k] \notin OnRing(r)
  BY <1>3, <1>4
<1> QED  BY <1>1, <1>7, <1>8 DEF R, n

(* The rings met while the nodes are moved one by one.                     *)
Moving(r, nodes, target, n, f) ==
    f = [k \in 0..n |-> IF k = 0 THEN r ELSE Reassign(f[k - 1], nodes[k], target)]

LEMMA MovingExists ==
    ASSUME NEW r, NEW nodes, NEW target, NEW n \in Nat
    PROVE  \E f : Moving(r, nodes, target, n, f)
<1> DEFINE P(m) == \E f : Moving(r, nodes, target, m, f)
           T == {m \in Nat : ~P(m)}
<1> SUFFICES ASSUME T # {} PROVE FALSE
  OBVIOUS
<1>1. Least(T) \in T /\ \A q \in T : Least(T) <= q
  BY LeastIsLeast
<1>2. ASSUME NEW l \in Nat, ~P(l), \A q \in T : l <= q PROVE FALSE
  <2>1. P(0)
    <3>1. Moving(r, nodes, target, 0, [k \in 0..0 |-> r])
      BY DEF Moving
    <3> QED  BY <3>1
  <2>2. l # 0
    BY <1>2, <2>1
  <2>3. l - 1 \in Nat /\ ~(l <= l - 1)
    BY <2>2
  <2>4. P(l - 1)
    BY <1>2, <2>3
  <2>5. PICK f : Moving(r, nodes, target, l - 1, f)
    BY <2>4
  <2> DEFINE g == [k \in 0..l |-> IF k = l THEN Reassign(f[l - 1], nodes[l], target) ELSE f[k]]
  <2>6. \A k \in 0..l : g[k] = IF k = 0 THEN r ELSE Reassign(g[k - 1], nodes[k], target)
    <3> SUFFICES ASSUME NEW k \in 0..l
                 PROVE  g[k] = IF k = 0 THEN r ELSE Reassign(g[k - 1], nodes[k], target)
      OBVIOUS
    <3>1. CASE k = l
      <4>1. l - 1 \in 0..l /\ l - 1 # l
        BY <2>3
      <4> QED  BY <2>2, <3>1, <4>1
    <3>2. CASE k # l
      <4>1. k \in 0..(l - 1) /\ (k # 0 => k - 1 \in 0..l /\ k - 1 # l)
        BY <3>2
      <4>2. g[k] = f[k] /\ (k # 0 => g[k - 1] = f[k - 1])
        BY <3>2, <4>1
      <4>3. f[k] = IF k = 0 THEN r ELSE Reassign(f[k - 1], nodes[k], target)
        BY <2>5, <4>1 DEF Moving
      <4> QED  BY <4>2, <4>3
    <3> QED  BY <3>1, <3>2
  <2>7. Moving(r, nodes, target, l, g)
    <3>1. g = [k \in 0..l |-> g[k]]
      OBVIOUS
    <3> HIDE DEF g
    <3> QED  BY <2>6, <3>1 DEF Moving
  <2> QED  BY <1>2, <2>7
<1> QED  BY <1>1, <1>2

(* Completing a migration keeps the ring's lists in agreement, however far *)
(* it gets.                                                                *)
LEMMA MovedKeeps ==
    ASSUME NEW r \in Rings, NEW nodes \in Seq(Positions), NEW target \in Shards
    PROVE  /\ Moved(r, nodes, target) \in Rings
           /\ Mirrored(r) => Mirrored(Moved(r, nodes, target))
<1> DEFINE n == Len(nodes)
           moved == CHOOSE f : Moving(r, nodes, target, n, f)
           Good(q) == q \in Rings /\ (Mirrored(r) => Mirrored(q))
           T == {k \in 0..n : ~Good(moved[k])}
<1>1. n \in Nat /\ \A k \in 1..n : nodes[k] \in Positions
  OBVIOUS
<1>2. Moved(r, nodes, target) = moved[Cardinality(Reassignable(r, nodes))]
  BY DEF Moved, Moving
<1>3. Moving(r, nodes, target, n, moved)
  BY <1>1, MovingExists
<1> HIDE DEF n, moved
<1>4. \A k \in 0..n : moved[k] = IF k = 0 THEN r ELSE Reassign(moved[k - 1], nodes[k], target)
  BY <1>3 DEF Moving
<1>5. T = {}
  <2> SUFFICES ASSUME T # {} PROVE FALSE
    OBVIOUS
  <2>1. Least(T) \in T /\ \A q \in T : Least(T) <= q
    <3>1. T \subseteq Nat
      BY <1>1
    <3> QED  BY <3>1, LeastIsLeast
  <2>2. ASSUME NEW l \in 0..n, ~Good(moved[l]), \A q \in T : l <= q PROVE FALSE
    <3>1. l # 0
      <4>1. 0 \in 0..n
        BY <1>1
      <4> QED  BY <1>4, <2>2, <4>1
    <3>2. l - 1 \in 0..n /\ ~(l <= l - 1) /\ l \in 1..n
      BY <1>1, <3>1
    <3>3. Good(moved[l - 1])
      BY <2>2, <3>2
    <3>4. moved[l] = Reassign(moved[l - 1], nodes[l], target)
      BY <1>4, <3>1
    <3>5. nodes[l] \in Positions
      BY <1>1, <3>2
    <3>6. Good(Reassign(moved[l - 1], nodes[l], target))
      BY <3>3, <3>5, ReassignKeeps
    <3> QED  BY <2>2, <3>4, <3>6
  <2> QED  BY <2>1, <2>2
<1>6. Cardinality(Reassignable(r, nodes)) \in 0..n
  BY ReassignableCount DEF n
<1> QED  BY <1>2, <1>5, <1>6

(* The ring that rebuild_hash_ring makes agrees with its lists, because no *)
(* two virtual nodes have the same place.                                  *)
LEMMA RingOfKeeps ==
    ASSUME NEW members \in SUBSET Shards
    PROVE  RingOf(members) \in Rings /\ Mirrored(RingOf(members))
<1> DEFINE mine(s) == {Place[s][i] : i \in VNodes}
           q == RingOf(members)
<1>1. /\ q.nodes = [p \in Positions |-> IF \E s \in members : p \in mine(s)
                                        THEN CHOOSE s \in members : p \in mine(s) ELSE NoShard]
      /\ q.known = members
      /\ q.lists = [s \in Shards |-> IF s \in members THEN mine(s) ELSE {}]
      /\ q = [nodes |-> q.nodes, known |-> q.known, lists |-> q.lists]
  BY DEF RingOf
<1>2. \A s \in Shards : mine(s) \in SUBSET Positions
  BY DEF Positions
<1>3. \A s, t \in Shards : \A p : p \in mine(s) /\ p \in mine(t) => s = t
  BY PlaceAssumption
<1> HIDE DEF q, mine
<1>4. ASSUME NEW p \in Positions
      PROVE  /\ \A s \in members : p \in mine(s) => q.nodes[p] = s
             /\ q.nodes[p] # NoShard => q.nodes[p] \in members /\ p \in mine(q.nodes[p])
             /\ q.nodes[p] \in members \cup {NoShard}
  BY <1>1, <1>3
<1>5. q.nodes \in [Positions -> Shards \cup {NoShard}]
  BY <1>1, <1>4
<1>6. q.lists \in [Shards -> SUBSET Positions]
  BY <1>1, <1>2
<1>7. q \in Rings
  BY <1>1, <1>5, <1>6 DEF Rings
<1>8. NodesAreListed(q)
  BY <1>1, <1>4 DEF NodesAreListed, OnRing
<1>9. ListedAreNodes(q)
  BY <1>1, <1>2, <1>4 DEF ListedAreNodes
<1> QED  BY <1>7, <1>8, <1>9 DEF Mirrored, q

(* What the commands carry.                                                *)
LEMMA CommandFields ==
    ASSUME NEW c \in Command
    PROVE  /\ c.op \in {"RegisterShard", "UpdateShardStatus", "UnregisterShard",
                        "UpdateHeartbeat"} => c.shard \in Shards
           /\ c.op \in {"RegisterShard", "UpdateShardStatus"} => c.status \in ShardStatus
           /\ c.op = "UpdateHeartbeat" => c.timestamp \in Nat
           /\ c.op = "UpdateHashRing" => c.ring \in Rings
           /\ c.op = "StartMigration" => /\ c.target \in Shards
                                         /\ c.nodes \in Seq(Positions)
           /\ c.op \in {"StartMigration", "CompleteMigration", "AbortMigration"}
                => c.id \in Migrations
           /\ c.op = "UpdateConfig" => c.value \in Nat
           /\ c.op \in {"RegisterShard", "UpdateShardStatus", "UnregisterShard",
                        "UpdateHeartbeat", "UpdateHashRing", "StartMigration",
                        "CompleteMigration", "AbortMigration", "UpdateConfig"}
BY DEF Command

LEMMA StateFields ==
    ASSUME NEW s \in States
    PROVE  /\ s.shards \in [Shards -> ShardStatus \cup {"None"}]
           /\ s.heartbeats \in [Shards -> Nat]
           /\ s.has_ring \in BOOLEAN /\ s.hash_ring \in Rings
           /\ s.migrations \in [Migrations -> MigrationStates]
           /\ s.config \in Nat /\ s.version \in Nat
BY DEF States

LEMMA SameIsReflexive == \A s : Same(s, s)
BY DEF Same

(* rebuild_hash_ring.                                                      *)
LEMMA RebuildKeeps ==
    ASSUME NEW s \in States, NEW t \in States, Same(s, t)
    PROVE  /\ RebuildHashRing(s) \in States
           /\ Same(RebuildHashRing(s), RebuildHashRing(t))
           /\ RebuildHashRing(s).version = s.version
           /\ Mirrored(s.hash_ring) => Mirrored(RebuildHashRing(s).hash_ring)
<1> DEFINE ring1 == RingOf({h \in Shards : s.shards[h] = "Active"})
           ring2 == RingOf({h \in Shards : t.shards[h] = "Active"})
<1>1. ring1 \in Rings /\ Mirrored(ring1) /\ ring1 = ring2
  BY RingOfKeeps DEF Same
<1>2. /\ RebuildHashRing(s) = IF s.has_ring THEN [s EXCEPT !.hash_ring = ring1] ELSE s
      /\ RebuildHashRing(t) = IF t.has_ring THEN [t EXCEPT !.hash_ring = ring2] ELSE t
  BY DEF RebuildHashRing
<1>3. s.has_ring = t.has_ring
  BY DEF Same
<1> HIDE DEF ring1, ring2
<1>4. CASE ~s.has_ring
  BY <1>2, <1>3, <1>4
<1>5. CASE s.has_ring
  <2> DEFINE a == [s EXCEPT !.hash_ring = ring1]
             b == [t EXCEPT !.hash_ring = ring2]
  <2>1. a \in States
    BY <1>1 DEF States
  <2>2. a.hash_ring = ring1 /\ a.version = s.version
    BY DEF States
  <2>3. Same(a, b)
    BY <1>1 DEF Same, States
  <2> QED  BY <1>1, <1>2, <1>3, <1>5, <2>1, <2>2, <2>3
<1> QED  BY <1>4, <1>5

-----------------------------------------------------------------------------
(* The handlers, one by one.                                               *)
LEMMA RegisterShardHandles ==
    ASSUME NEW s \in States, NEW t \in States, Same(s, t), NEW c \in Command,
           c.op = "RegisterShard", NEW now \in Nat, NEW then \in Nat
    PROVE  Handles(s, t, c, RegisterShard(s, c, now), RegisterShard(t, c, then))
<1> DEFINE o == RegisterShard(s, c, now)
           u == RegisterShard(t, c, then)
           a == [s EXCEPT !.shards[c.shard] = c.status, !.heartbeats[c.shard] = now]
           b == [t EXCEPT !.shards[c.shard] = c.status, !.heartbeats[c.shard] = then]
<1>1. c.shard \in Shards /\ c.status \in ShardStatus
  BY CommandFields
<1>2. Registered(s, c.shard) = Registered(t, c.shard)
  BY DEF Same, Registered
<1>3. CASE Registered(s, c.shard)
  <2>1. o = [ok |-> FALSE, state |-> s] /\ u = [ok |-> FALSE, state |-> t]
    BY <1>2, <1>3 DEF RegisterShard, Err
  <2> HIDE DEF o, u
  <2>2. Handles(s, t, c, o, u)
    BY <2>1 DEF Handles
  <2> QED  BY <2>2 DEF o, u
<1>4. CASE ~Registered(s, c.shard)
  <2>1. /\ o = [ok |-> TRUE, state |-> RebuildHashRing(a)]
        /\ u = [ok |-> TRUE, state |-> RebuildHashRing(b)]
    BY <1>2, <1>4 DEF RegisterShard, Ok
  <2>2. a \in States /\ b \in States
    BY <1>1 DEF States
  <2>3. Same(a, b) /\ a.version = s.version /\ a.hash_ring = s.hash_ring
    BY <1>1 DEF Same, States
  <2> HIDE DEF a, b, o, u
  <2>4. /\ RebuildHashRing(a) \in States
        /\ Same(RebuildHashRing(a), RebuildHashRing(b))
        /\ RebuildHashRing(a).version = s.version
        /\ Mirrored(s.hash_ring) => Mirrored(RebuildHashRing(a).hash_ring)
    BY <2>2, <2>3, RebuildKeeps
  <2>5. Handles(s, t, c, o, u)
    BY <2>1, <2>4 DEF Handles
  <2> QED  BY <2>5 DEF o, u
<1> QED  BY <1>3, <1>4

LEMMA UnregisterShardHandles ==
    ASSUME NEW s \in States, NEW t \in States, Same(s, t), NEW c \in Command,
           c.op = "UnregisterShard"
    PROVE  Handles(s, t, c, UnregisterShard(s, c), UnregisterShard(t, c))
<1> DEFINE o == UnregisterShard(s, c)
           u == UnregisterShard(t, c)
           a == [s EXCEPT !.shards[c.shard] = "None", !.heartbeats[c.shard] = 0]
           b == [t EXCEPT !.shards[c.shard] = "None", !.heartbeats[c.shard] = 0]
<1>1. c.shard \in Shards
  BY CommandFields
<1>2. Registered(s, c.shard) = Registered(t, c.shard)
  BY DEF Same, Registered
<1>3. CASE ~Registered(s, c.shard)
  <2>1. o = [ok |-> FALSE, state |-> s] /\ u = [ok |-> FALSE, state |-> t]
    BY <1>2, <1>3 DEF UnregisterShard, Err
  <2> HIDE DEF o, u
  <2>2. Handles(s, t, c, o, u)
    BY <2>1 DEF Handles
  <2> QED  BY <2>2 DEF o, u
<1>4. CASE Registered(s, c.shard)
  <2>1. /\ o = [ok |-> TRUE, state |-> RebuildHashRing(a)]
        /\ u = [ok |-> TRUE, state |-> RebuildHashRing(b)]
    BY <1>2, <1>4 DEF UnregisterShard, Ok
  <2>2. a \in States /\ b \in States
    BY <1>1 DEF States
  <2>3. Same(a, b) /\ a.version = s.version /\ a.hash_ring = s.hash_ring
    BY <1>1 DEF Same, States
  <2> HIDE DEF a, b, o, u
  <2>4. /\ RebuildHashRing(a) \in States
        /\ Same(RebuildHashRing(a), RebuildHashRing(b))
        /\ RebuildHashRing(a).version = s.version
        /\ Mirrored(s.hash_ring) => Mirrored(RebuildHashRing(a).hash_ring)
    BY <2>2, <2>3, RebuildKeeps
  <2>5. Handles(s, t, c, o, u)
    BY <2>1, <2>4 DEF Handles
  <2> QED  BY <2>5 DEF o, u
<1> QED  BY <1>3, <1>4

LEMMA UpdateShardStatusHandles ==
    ASSUME NEW s \in States, NEW t \in States, Same(s, t), NEW c \in Command,
           c.op = "UpdateShardStatus"
    PROVE  Handles(s, t, c, UpdateShardStatus(s, c), UpdateShardStatus(t, c))
<1> DEFINE o == UpdateShardStatus(s, c)
           u == UpdateShardStatus(t, c)
           a == [s EXCEPT !.shards[c.shard] = c.status]
           b == [t EXCEPT !.shards[c.shard] = c.status]
<1>1. c.shard \in Shards /\ c.status \in ShardStatus
  BY CommandFields
<1>2. Registered(s, c.shard) = Registered(t, c.shard)
  BY DEF Same, Registered
<1>3. CASE ~Registered(s, c.shard)
  <2>1. o = [ok |-> FALSE, state |-> s] /\ u = [ok |-> FALSE, state |-> t]
    BY <1>2, <1>3 DEF UpdateShardStatus, Err
  <2> HIDE DEF o, u
  <2>2. Handles(s, t, c, o, u)
    BY <2>1 DEF Handles
  <2> QED  BY <2>2 DEF o, u
<1>4. CASE Registered(s, c.shard)
  <2>1. o = [ok |-> TRUE, state |-> a] /\ u = [ok |-> TRUE, state |-> b]
    BY <1>2, <1>4 DEF UpdateShardStatus, Ok
  <2>2. a \in States
    BY <1>1 DEF States
  <2>3. Same(a, b) /\ a.version = s.version /\ a.hash_ring = s.hash_ring
    BY <1>1 DEF Same, States
  <2> HIDE DEF a, b, o, u
  <2>4. Handles(s, t, c, o, u)
    BY <2>1, <2>2, <2>3 DEF Handles
  <2> QED  BY <2>4 DEF o, u
<1> QED  BY <1>3, <1>4

LEMMA UpdateHeartbeatHandles ==
    ASSUME NEW s \in States, NEW t \in States, Same(s, t), NEW c \in Command,
           c.op = "UpdateHeartbeat"
    PROVE  Handles(s, t, c, UpdateHeartbeat(s, c), UpdateHeartbeat(t, c))
<1> DEFINE o == UpdateHeartbeat(s, c)
           u == UpdateHeartbeat(t, c)
           a == [s EXCEPT !.heartbeats[c.shard] = c.timestamp]
           b == [t EXCEPT !.heartbeats[c.shard] = c.timestamp]
<1>1. c.shard \in Shards /\ c.timestamp \in Nat
  BY CommandFields
<1>2. Registered(s, c.shard) = Registered(t, c.shard)
  BY DEF Same, Registered
<1>3. CASE ~Registered(s, c.shard)
  <2>1. o = [ok |-> FALSE, state |-> s] /\ u = [ok |-> FALSE, state |-> t]
    BY <1>2, <1>3 DEF UpdateHeartbeat, Err
  <2> HIDE DEF o, u
  <2>2. Handles(s, t, c, o, u)
    BY <2>1 DEF Handles
  <2> QED  BY <2>2 DEF o, u
<1>4. CASE Registered(s, c.shard)
  <2>1. o = [ok |-> TRUE, state |-> a] /\ u = [ok |-> TRUE, state |-> b]
    BY <1>2, <1>4 DEF UpdateHeartbeat, Ok
  <2>2. a \in States
    BY <1>1 DEF States
  <2>3. Same(a, b) /\ a.version = s.version /\ a.hash_ring = s.hash_ring
    BY <1>1 DEF Same, States
  <2> HIDE DEF a, b, o, u
  <2>4. Handles(s, t, c, o, u)
    BY <2>1, <2>2, <2>3 DEF Handles
  <2> QED  BY <2>4 DEF o, u
<1> QED  BY <1>3, <1>4

LEMMA UpdateHashRingHandles ==
    ASSUME NEW s \in States, NEW t \in States, Same(s, t), NEW c \in Command,
           c.op = "UpdateHashRing"
    PROVE  Handles(s, t, c, UpdateHashRing(s, c), UpdateHashRing(t, c))
<1> DEFINE o == UpdateHashRing(s, c)
           u == UpdateHashRing(t, c)
           a == [s EXCEPT !.has_ring = TRUE, !.hash_ring = c.ring]
           b == [t EXCEPT !.has_ring = TRUE, !.hash_ring = c.ring]
<1>1. c.ring \in Rings
  BY CommandFields
<1>2. o = [ok |-> TRUE, state |-> a] /\ u = [ok |-> TRUE, state |-> b]
  BY DEF UpdateHashRing, Ok
<1>3. a \in States
  BY <1>1 DEF States
<1>4. Same(a, b) /\ a.version = s.version /\ a.hash_ring = c.ring
  BY <1>1 DEF Same, States
<1> HIDE DEF a, b, o, u
<1>5. Handles(s, t, c, o, u)
  BY <1>2, <1>3, <1>4 DEF Handles
<1> QED  BY <1>5 DEF o, u

LEMMA UpdateConfigHandles ==
    ASSUME NEW s \in States, NEW t \in States, Same(s, t), NEW c \in Command,
           c.op = "UpdateConfig"
    PROVE  Handles(s, t, c, UpdateConfig(s, c), UpdateConfig(t, c))
<1> DEFINE o == UpdateConfig(s, c)
           u == UpdateConfig(t, c)
           a == [s EXCEPT !.config = c.value]
           b == [t EXCEPT !.config = c.value]
<1>1. c.value \in Nat
  BY CommandFields
<1>2. o = [ok |-> TRUE, state |-> a] /\ u = [ok |-> TRUE, state |-> b]
  BY DEF UpdateConfig, Ok
<1>3. a \in States
  BY <1>1 DEF States
<1>4. Same(a, b) /\ a.version = s.version /\ a.hash_ring = s.hash_ring
  BY <1>1 DEF Same, States
<1> HIDE DEF a, b, o, u
<1>5. Handles(s, t, c, o, u)
  BY <1>2, <1>3, <1>4 DEF Handles
<1> QED  BY <1>5 DEF o, u

(* What is known of the migrations of states that differ in clock values.  *)
LEMMA MigrationFields ==
    ASSUME NEW s \in States, NEW t \in States, Same(s, t), NEW i \in Migrations
    PROVE  /\ s.migrations[i].status = t.migrations[i].status
           /\ s.migrations[i].target = t.migrations[i].target
           /\ s.migrations[i].nodes = t.migrations[i].nodes
           /\ s.migrations[i].status # "None" =>
                s.migrations[i] \in [status : {"InProgress", "Completed", "Aborted"},
                                     target : Shards, nodes : Seq(Positions), started_at : Nat]
<1>1. s.migrations[i] \in MigrationStates
  BY StateFields
<1> QED  BY <1>1 DEF Same, MigrationStates, NoMigration

(* A migration put into a state, with and without a new ring.              *)
Put(s, i, m) == [s EXCEPT !.migrations[i] = m]
PutBoth(s, i, m, r) == [s EXCEPT !.migrations[i] = m, !.hash_ring = r]
WithStatus(m, x) == [m EXCEPT !.status = x]
SetStatus(s, i, x) == [s EXCEPT !.migrations[i].status = x]

LEMMA PutKeeps ==
    ASSUME NEW s \in States, NEW t \in States, Same(s, t), NEW i \in Migrations,
           NEW m \in MigrationStates, NEW k \in MigrationStates,
           m.status = k.status, m.target = k.target, m.nodes = k.nodes,
           NEW r \in Rings
    PROVE  /\ Put(s, i, m) \in States /\ Same(Put(s, i, m), Put(t, i, k))
           /\ Put(s, i, m).version = s.version /\ Put(s, i, m).hash_ring = s.hash_ring
           /\ Put(s, i, m).migrations[i] = m
           /\ PutBoth(s, i, m, r) \in States
           /\ Same(PutBoth(s, i, m, r), PutBoth(t, i, k, r))
           /\ PutBoth(s, i, m, r).version = s.version /\ PutBoth(s, i, m, r).hash_ring = r
           /\ PutBoth(s, i, m, r).migrations[i] = m
<1> DEFINE a == PutBoth(s, i, m, r)
           b == PutBoth(t, i, k, r)
           d == Put(s, i, m)
           e == Put(t, i, k)
<1>1. a \in States /\ d \in States
  BY DEF States, Put, PutBoth
<1>2. /\ a.version = s.version /\ a.hash_ring = r /\ a.migrations[i] = m
      /\ d.version = s.version /\ d.hash_ring = s.hash_ring /\ d.migrations[i] = m
  BY DEF States, Put, PutBoth
<1>3. \A j \in Migrations : /\ a.migrations[j] = IF j = i THEN m ELSE s.migrations[j]
                            /\ b.migrations[j] = IF j = i THEN k ELSE t.migrations[j]
                            /\ d.migrations[j] = IF j = i THEN m ELSE s.migrations[j]
                            /\ e.migrations[j] = IF j = i THEN k ELSE t.migrations[j]
  BY DEF States, Put, PutBoth
<1>4. /\ a.shards = s.shards /\ a.has_ring = s.has_ring
      /\ a.config = s.config /\ a.version = s.version
      /\ b.shards = t.shards /\ b.has_ring = t.has_ring
      /\ b.config = t.config /\ b.version = t.version /\ b.hash_ring = r
  BY DEF States, PutBoth
<1>5. /\ d.shards = s.shards /\ d.has_ring = s.has_ring
      /\ d.config = s.config /\ d.version = s.version
      /\ e.shards = t.shards /\ e.has_ring = t.has_ring
      /\ e.config = t.config /\ e.version = t.version /\ e.hash_ring = t.hash_ring
  BY DEF States, Put
<1> HIDE DEF a, b, d, e
<1>6. Same(a, b) /\ Same(d, e)
  BY <1>2, <1>3, <1>4, <1>5 DEF Same
<1> QED  BY <1>1, <1>2, <1>6 DEF a, b, d, e

(* A migration under way whose status alone changes.                       *)
LEMMA StatusSet ==
    ASSUME NEW s \in States, NEW t \in States, Same(s, t), NEW i \in Migrations,
           s.migrations[i].status # "None", NEW x \in {"Completed", "Aborted"}
    PROVE  LET m == WithStatus(s.migrations[i], x)
               k == WithStatus(t.migrations[i], x)
           IN  /\ m \in MigrationStates /\ k \in MigrationStates
               /\ m.status = x /\ m.status = k.status
               /\ m.target = k.target /\ m.nodes = k.nodes
               /\ SetStatus(s, i, x) = Put(s, i, m) /\ SetStatus(t, i, x) = Put(t, i, k)
<1> DEFINE M == [status : {"InProgress", "Completed", "Aborted"},
                 target : Shards, nodes : Seq(Positions), started_at : Nat]
           m == WithStatus(s.migrations[i], x)
           k == WithStatus(t.migrations[i], x)
<1>1. Same(t, s)
  BY DEF Same
<1>2. s.migrations[i].status = t.migrations[i].status
  BY MigrationFields
<1>3. s.migrations[i] \in M
  BY MigrationFields
<1>4. t.migrations[i] \in M
  BY <1>1, <1>2, MigrationFields
<1>5. /\ s.migrations[i].target = t.migrations[i].target
      /\ s.migrations[i].nodes = t.migrations[i].nodes
  BY MigrationFields
<1>6. /\ m \in M /\ k \in M /\ m.status = x /\ k.status = x
      /\ m.target = k.target /\ m.nodes = k.nodes
  BY <1>3, <1>4, <1>5 DEF WithStatus
<1>7. m \in MigrationStates /\ k \in MigrationStates
  BY <1>6 DEF MigrationStates
<1>8. SetStatus(s, i, x) = Put(s, i, m)
  BY DEF Put, SetStatus, WithStatus
<1>9. SetStatus(t, i, x) = Put(t, i, k)
  BY DEF Put, SetStatus, WithStatus
<1> QED  BY <1>6, <1>7, <1>8, <1>9

LEMMA StartMigrationHandles ==
    ASSUME NEW s \in States, NEW t \in States, Same(s, t), NEW c \in Command,
           c.op = "StartMigration", NEW now \in Nat, NEW then \in Nat
    PROVE  Handles(s, t, c, StartMigration(s, c, now), StartMigration(t, c, then))
<1> DEFINE o == StartMigration(s, c, now)
           u == StartMigration(t, c, then)
           m == [status |-> "InProgress", target |-> c.target, nodes |-> c.nodes,
                 started_at |-> now]
           k == [status |-> "InProgress", target |-> c.target, nodes |-> c.nodes,
                 started_at |-> then]
           a == Put(s, c.id, m)
           b == Put(t, c.id, k)
<1>1. c.id \in Migrations /\ c.target \in Shards /\ c.nodes \in Seq(Positions)
  BY CommandFields
<1>2. s.migrations[c.id].status = t.migrations[c.id].status
  BY <1>1, MigrationFields
<1>3. CASE s.migrations[c.id].status # "None"
  <2>1. o = [ok |-> FALSE, state |-> s] /\ u = [ok |-> FALSE, state |-> t]
    BY <1>2, <1>3 DEF StartMigration, Err
  <2> HIDE DEF o, u
  <2>2. Handles(s, t, c, o, u)
    BY <2>1 DEF Handles
  <2> QED  BY <2>2 DEF o, u
<1>4. CASE s.migrations[c.id].status = "None"
  <2>1. o = [ok |-> TRUE, state |-> a] /\ u = [ok |-> TRUE, state |-> b]
    BY <1>2, <1>4 DEF StartMigration, Ok, Put
  <2>2. /\ m \in MigrationStates /\ k \in MigrationStates
        /\ m.status = k.status /\ m.target = k.target /\ m.nodes = k.nodes
    BY <1>1 DEF MigrationStates
  <2> HIDE DEF m, k, o, u
  <2>3. s.hash_ring \in Rings
    BY StateFields
  <2>4. /\ a \in States /\ Same(a, b)
        /\ a.version = s.version /\ a.hash_ring = s.hash_ring
    BY <1>1, <2>2, <2>3, PutKeeps
  <2> HIDE DEF a, b
  <2>5. Handles(s, t, c, o, u)
    BY <2>1, <2>4 DEF Handles
  <2> QED  BY <2>5 DEF o, u
<1> QED  BY <1>3, <1>4

LEMMA AbortMigrationHandles ==
    ASSUME NEW s \in States, NEW t \in States, Same(s, t), NEW c \in Command,
           c.op = "AbortMigration"
    PROVE  Handles(s, t, c, AbortMigration(s, c), AbortMigration(t, c))
<1> DEFINE o == AbortMigration(s, c)
           u == AbortMigration(t, c)
           m == WithStatus(s.migrations[c.id], "Aborted")
           k == WithStatus(t.migrations[c.id], "Aborted")
           a == Put(s, c.id, m)
           b == Put(t, c.id, k)
<1>1. c.id \in Migrations
  BY CommandFields
<1>2. s.migrations[c.id].status = t.migrations[c.id].status
  BY <1>1, MigrationFields
<1>3. CASE s.migrations[c.id].status = "None"
  <2>1. o = [ok |-> FALSE, state |-> s] /\ u = [ok |-> FALSE, state |-> t]
    BY <1>2, <1>3 DEF AbortMigration, Err
  <2> HIDE DEF o, u
  <2>2. Handles(s, t, c, o, u)
    BY <2>1 DEF Handles
  <2> QED  BY <2>2 DEF o, u
<1>4. CASE s.migrations[c.id].status # "None"
  <2>1. /\ o = [ok |-> TRUE, state |-> SetStatus(s, c.id, "Aborted")]
        /\ u = [ok |-> TRUE, state |-> SetStatus(t, c.id, "Aborted")]
    BY <1>2, <1>4 DEF AbortMigration, Ok, SetStatus
  <2>2. /\ m \in MigrationStates /\ k \in MigrationStates
        /\ m.status = k.status /\ m.target = k.target /\ m.nodes = k.nodes
        /\ SetStatus(s, c.id, "Aborted") = a /\ SetStatus(t, c.id, "Aborted") = b
    BY <1>1, <1>4, StatusSet
  <2> HIDE DEF m, k
  <2>3. o = [ok |-> TRUE, state |-> a] /\ u = [ok |-> TRUE, state |-> b]
    BY <2>1, <2>2
  <2> HIDE DEF o, u
  <2>4. s.hash_ring \in Rings
    BY StateFields
  <2>5. /\ a \in States /\ Same(a, b)
        /\ a.version = s.version /\ a.hash_ring = s.hash_ring
    BY <1>1, <2>2, <2>4, PutKeeps
  <2> HIDE DEF a, b
  <2>6. Handles(s, t, c, o, u)
    BY <2>3, <2>5 DEF Handles
  <2> QED  BY <2>6 DEF o, u
<1> QED  BY <1>3, <1>4

(* complete_migration fails half way on a node that is not on the ring.    *)
LEMMA CompleteMigrationHandles ==
    ASSUME NEW s \in States, NEW t \in States, Same(s, t), NEW c \in Command,
           c.op = "CompleteMigration"
    PROVE  /\ Handles(s, t, c, CompleteMigration(s, c), CompleteMigration(t, c))
           /\ ~CompleteMigration(s, c).ok /\ CompleteMigration(s, c).state # s =>
                /\ CompleteMigration(s, c).state.migrations[c.id].status = "Completed"
                /\ \E k \in DOMAIN s.migrations[c.id].nodes :
                     s.migrations[c.id].nodes[k] \notin OnRing(s.hash_ring)
<1> DEFINE o == CompleteMigration(s, c)
           u == CompleteMigration(t, c)
           i == c.id
           m == WithStatus(s.migrations[i], "Completed")
           k == WithStatus(t.migrations[i], "Completed")
           nodes == s.migrations[i].nodes
           target == s.migrations[i].target
           whole == Cardinality(Reassignable(s.hash_ring, nodes)) = Len(nodes)
           r == Moved(s.hash_ring, nodes, target)
<1>1. i \in Migrations
  BY CommandFields
<1>2. /\ s.migrations[i].status = t.migrations[i].status
      /\ t.migrations[i].target = target /\ t.migrations[i].nodes = nodes
      /\ s.has_ring = t.has_ring /\ s.hash_ring = t.hash_ring
  BY <1>1, MigrationFields DEF Same
<1>3. s.hash_ring \in Rings
  BY StateFields
<1>4. CASE s.migrations[i].status = "None"
  <2>1. o = [ok |-> FALSE, state |-> s] /\ u = [ok |-> FALSE, state |-> t]
    BY <1>2, <1>4 DEF CompleteMigration, Err
  <2> HIDE DEF o, u
  <2>2. Handles(s, t, c, o, u) /\ o.state = s
    BY <2>1 DEF Handles
  <2> QED  BY <2>2 DEF o, u
<1>5. CASE s.migrations[i].status # "None"
  <2>1. /\ m \in MigrationStates /\ k \in MigrationStates /\ m.status = "Completed"
        /\ m.status = k.status /\ m.target = k.target /\ m.nodes = k.nodes
        /\ SetStatus(s, i, "Completed") = Put(s, i, m)
        /\ SetStatus(t, i, "Completed") = Put(t, i, k)
    BY <1>1, <1>5, StatusSet
  <2>2. nodes \in Seq(Positions) /\ target \in Shards
    BY <1>1, <1>5, MigrationFields
  <2>3. CASE ~s.has_ring
    <3>1. /\ o = [ok |-> TRUE, state |-> SetStatus(s, i, "Completed")]
          /\ u = [ok |-> TRUE, state |-> SetStatus(t, i, "Completed")]
      BY <1>2, <1>5, <2>3 DEF CompleteMigration, Ok, SetStatus
    <3> HIDE DEF m, k, i, o, u
    <3>2. o = [ok |-> TRUE, state |-> Put(s, i, m)] /\ u = [ok |-> TRUE, state |-> Put(t, i, k)]
      BY <2>1, <3>1
    <3>3. /\ Put(s, i, m) \in States /\ Same(Put(s, i, m), Put(t, i, k))
          /\ Put(s, i, m).version = s.version /\ Put(s, i, m).hash_ring = s.hash_ring
      BY <1>1, <1>3, <2>1, PutKeeps
    <3>4. Handles(s, t, c, o, u) /\ o.ok
      BY <3>2, <3>3 DEF Handles
    <3> QED  BY <3>4 DEF o, u
  <2>4. CASE s.has_ring
    <3>1. /\ o = [ok |-> whole, state |-> [SetStatus(s, i, "Completed") EXCEPT !.hash_ring = r]]
          /\ u = [ok |-> whole, state |-> [SetStatus(t, i, "Completed") EXCEPT !.hash_ring = r]]
      BY <1>2, <1>5, <2>4 DEF CompleteMigration, SetStatus
    <3>2. r \in Rings /\ (Mirrored(s.hash_ring) => Mirrored(r))
      BY <1>3, <2>2, MovedKeeps
    <3>3. ~whole => \E j \in DOMAIN nodes : nodes[j] \notin OnRing(s.hash_ring)
      BY <2>2, ReassignableCount
    <3>4. whole \in BOOLEAN
      OBVIOUS
    <3> HIDE DEF m, k, i, o, u, r, whole
    <3>5. /\ [Put(s, i, m) EXCEPT !.hash_ring = r] = PutBoth(s, i, m, r)
          /\ [Put(t, i, k) EXCEPT !.hash_ring = r] = PutBoth(t, i, k, r)
      BY DEF Put, PutBoth
    <3>6. /\ o = [ok |-> whole, state |-> PutBoth(s, i, m, r)]
          /\ u = [ok |-> whole, state |-> PutBoth(t, i, k, r)]
      BY <2>1, <3>1, <3>5
    <3>7. /\ PutBoth(s, i, m, r) \in States
          /\ Same(PutBoth(s, i, m, r), PutBoth(t, i, k, r))
          /\ PutBoth(s, i, m, r).version = s.version /\ PutBoth(s, i, m, r).hash_ring = r
          /\ PutBoth(s, i, m, r).migrations[i] = m
      BY <1>1, <2>1, <3>2, PutKeeps
    <3>8. /\ o.ok = whole /\ u.ok = whole
          /\ o.state = PutBoth(s, i, m, r) /\ u.state = PutBoth(t, i, k, r)
      BY <3>6
    <3>9. Handles(s, t, c, o, u)
      BY <3>2, <3>4, <3>7, <3>8 DEF Handles
    <3>10. o.state.migrations[i].status = "Completed"
      BY <2>1, <3>7, <3>8
    <3> QED  BY <3>3, <3>8, <3>9, <3>10 DEF o, u, i
  <2> QED  BY <2>3, <2>4
<1> QED  BY <1>4, <1>5

-----------------------------------------------------------------------------
(* apply().                                                                *)
LEMMA OutcomeHandles ==
    ASSUME NEW s \in States, NEW t \in States, Same(s, t), NEW c \in Command,
           NEW now \in Nat, NEW then \in Nat
    PROVE  Handles(s, t, c, Outcome(s, c, now), Outcome(t, c, then))
<1>1. CASE c.op = "RegisterShard"
  <2>1. /\ Outcome(s, c, now) = RegisterShard(s, c, now)
        /\ Outcome(t, c, then) = RegisterShard(t, c, then)
    BY <1>1 DEF Outcome
  <2> QED  BY <1>1, <2>1, RegisterShardHandles
<1>2. CASE c.op = "UnregisterShard"
  <2>1. /\ Outcome(s, c, now) = UnregisterShard(s, c)
        /\ Outcome(t, c, then) = UnregisterShard(t, c)
    BY <1>2 DEF Outcome
  <2> QED  BY <1>2, <2>1, UnregisterShardHandles
<1>3. CASE c.op = "UpdateShardStatus"
  <2>1. /\ Outcome(s, c, now) = UpdateShardStatus(s, c)
        /\ Outcome(t, c, then) = UpdateShardStatus(t, c)
    BY <1>3 DEF Outcome
  <2> QED  BY <1>3, <2>1, UpdateShardStatusHandles
<1>4. CASE c.op = "UpdateHeartbeat"
  <2>1. /\ Outcome(s, c, now) = UpdateHeartbeat(s, c)
        /\ Outcome(t, c, then) = UpdateHeartbeat(t, c)
    BY <1>4 DEF Outcome
  <2> QED  BY <1>4, <2>1, UpdateHeartbeatHandles
<1>5. CASE c.op = "UpdateHashRing"
  <2>1. /\ Outcome(s, c, now) = UpdateHashRing(s, c)
        /\ Outcome(t, c, then) = UpdateHashRing(t, c)
    BY <1>5 DEF Outcome
  <2> QED  BY <1>5, <2>1, UpdateHashRingHandles
<1>6. CASE c.op = "StartMigration"
  <2>1. /\ Outcome(s, c, now) = StartMigration(s, c, now)
        /\ Outcome(t, c, then) = StartMigration(t, c, then)
    BY <1>6 DEF Outcome
  <2> QED  BY <1>6, <2>1, StartMigrationHandles
<1>7. CASE c.op = "CompleteMigration"
  <2>1. /\ Outcome(s, c, now) = CompleteMigration(s, c)
        /\ Outcome(t, c, then) = CompleteMigration(t, c)
    BY <1>7 DEF Outcome
  <2> QED  BY <1>7, <2>1, CompleteMigrationHandles
<1>8. CASE c.op = "AbortMigration"
  <2>1. /\ Outcome(s, c, now) = AbortMigration(s, c)
        /\ Outcome(t, c, then) = AbortMigration(t, c)
    BY <1>8 DEF Outcome
  <2> QED  BY <1>8, <2>1, AbortMigrationHandles
<1>9. CASE c.op = "UpdateConfig"
  <2>1. /\ Outcome(s, c, now) = UpdateConfig(s, c)
        /\ Outcome(t, c, then) = UpdateConfig(t, c)
    BY <1>9 DEF Outcome
  <2> QED  BY <1>9, <2>1, UpdateConfigHandles
<1> QED  BY <1>1, <1>2, <1>3, <1>4, <1>5, <1>6, <1>7, <1>8, <1>9, CommandFields

Bumped(s) == [s EXCEPT !.version = @ + 1]

LEMMA BumpKeeps ==
    ASSUME NEW s \in States, NEW t \in States, Same(s, t)
    PROVE  /\ Bumped(s) \in States /\ Same(Bumped(s), Bumped(t))
           /\ Bumped(s).hash_ring = s.hash_ring /\ Bumped(s).version # s.version
<1>1. s.version \in Nat
  BY StateFields
<1>2. Bumped(s) \in States
  BY <1>1 DEF States, Bumped
<1>3. Bumped(s).hash_ring = s.hash_ring /\ Bumped(s).version = s.version + 1
  BY DEF States, Bumped
<1>4. Same(Bumped(s), Bumped(t))
  BY DEF States, Bumped, Same
<1> QED  BY <1>1, <1>2, <1>3, <1>4

(* What an entry makes of a state does not depend on the clock; it keeps   *)
(* the ring in agreement with its lists; and where it leaves the version   *)
(* alone it has failed.                                                    *)
LEMMA ApplyKeeps ==
    ASSUME NEW s \in States, NEW t \in States, Same(s, t), NEW c \in Command,
           NEW now \in Nat, NEW then \in Nat
    PROVE  /\ ApplyCommand(s, c, now) \in States
           /\ Same(ApplyCommand(s, c, now), ApplyCommand(t, c, then))
           /\ Mirrored(s.hash_ring) /\ (c.op = "UpdateHashRing" => Mirrored(c.ring))
                => Mirrored(ApplyCommand(s, c, now).hash_ring)
           /\ ApplyCommand(s, c, now).version = s.version
                => ~Outcome(s, c, now).ok /\ ApplyCommand(s, c, now) = Outcome(s, c, now).state
<1> DEFINE o == Outcome(s, c, now)
           u == Outcome(t, c, then)
<1>1. Handles(s, t, c, o, u)
  BY OutcomeHandles
<1>2. Handles(t, s, c, u, o)
  <2>1. Same(t, s)
    BY DEF Same
  <2> QED  BY <2>1, OutcomeHandles
<1>3. /\ ApplyCommand(s, c, now) = IF o.ok THEN Bumped(o.state) ELSE o.state
      /\ ApplyCommand(t, c, then) = IF u.ok THEN Bumped(u.state) ELSE u.state
  BY DEF ApplyCommand, Bumped
<1> HIDE DEF o, u
<1>4. /\ o.ok \in BOOLEAN /\ o.state \in States /\ u.state \in States
      /\ o.ok = u.ok /\ Same(o.state, u.state) /\ o.state.version = s.version
      /\ Mirrored(s.hash_ring) /\ (c.op = "UpdateHashRing" => Mirrored(c.ring))
           => Mirrored(o.state.hash_ring)
  BY <1>1, <1>2 DEF Handles
<1>5. /\ Bumped(o.state) \in States /\ Same(Bumped(o.state), Bumped(u.state))
      /\ Bumped(o.state).hash_ring = o.state.hash_ring
      /\ Bumped(o.state).version # o.state.version
  BY <1>4, BumpKeeps
<1> QED  BY <1>3, <1>4, <1>5 DEF o

LEMMA NewStateType == NewState \in States /\ Mirrored(NewState.hash_ring)
<1>1. EmptyRing \in Rings /\ Mirrored(EmptyRing)
  BY DEF EmptyRing, Rings, Mirrored, NodesAreListed, ListedAreNodes, OnRing
<1>2. NoMigration \in MigrationStates
  BY DEF MigrationStates
<1> HIDE DEF EmptyRing, NoMigration
<1>3. NewState \in States
  BY <1>1, <1>2 DEF NewState, States
<1> QED  BY <1>1, <1>3 DEF NewState

-----------------------------------------------------------------------------
(* The types, and how far the replicas are.                                *)
ClusterType ==
    /\ log \in Seq(Command)
    /\ delivered \in [Replicas -> Nat] /\ \A r \in Replicas : delivered[r] <= Len(log)
    /\ applied \in [Replicas -> Seq(Command)]
    /\ state \in [Replicas -> States]
    /\ discards \in Nat

(* What a sequence of commands says: the state after each of them, on a    *)
(* machine whose clock stands still.                                       *)
IsHistory(l, n, f) ==
    /\ f \in [0..n -> States]
    /\ f[0] = NewState
    /\ \A k \in 1..n : f[k] = ApplyCommand(f[k - 1], l[k], 0)

(* s is where the commands l lead, clock values aside.                     *)
LeadsTo(l, s) == \E f : IsHistory(l, Len(l), f) /\ Same(s, f[Len(l)])

(* As long as nothing was dropped a replica has applied what it was handed.*)
NothingMissed(r) ==
    discards = 0 => /\ Len(applied[r]) = delivered[r]
                    /\ \A k \in 1..Len(applied[r]) : applied[r][k] = log[k]

(* Every replica is where the commands it has applied lead.  That two      *)
(* replicas which have applied the same agree is no inductive invariant:   *)
(* it says nothing of what one of them will be when it has caught up.      *)
ClusterInv ==
    ClusterType /\ \A r \in Replicas : LeadsTo(applied[r], state[r]) /\ NothingMissed(r)

LEMMA ApplyStep ==
    ASSUME ClusterType, NEW r \in Replicas, Apply(r)
    PROVE  /\ delivered[r] \in Nat /\ delivered[r] < Len(log) /\ delivered[r] + 1 \in 1..Len(log)
           /\ log[delivered[r] + 1] \in Command
           /\ delivered'[r] = delivered[r] + 1 /\ log' = log /\ discards' = discards
           /\ state[r] \in States /\ LocalTime[r] \in Nat
           /\ state'[r] = ApplyCommand(state[r], log[delivered[r] + 1], LocalTime[r])
           /\ applied[r] \in Seq(Command)
           /\ applied'[r] = Append(applied[r], log[delivered[r] + 1])
           /\ \A q \in Replicas : q # r => /\ delivered'[q] = delivered[q]
                                          /\ state'[q] = state[q]
                                          /\ applied'[q] = applied[q]
           /\ delivered' \in [Replicas -> Nat]
           /\ applied' \in [Replicas -> Seq(Command)]
           /\ state' = [state EXCEPT ![r] = state'[r]]
<1>1. /\ delivered[r] \in Nat /\ delivered[r] < Len(log) /\ Len(log) \in Nat
      /\ state[r] \in States /\ LocalTime[r] \in Nat /\ log' = log /\ discards' = discards
  <2>1. delivered[r] \in Nat /\ Len(log) \in Nat /\ state[r] \in States
    BY DEF ClusterType
  <2>2. delivered[r] < Len(log) /\ log' = log /\ discards' = discards
    BY DEF Apply
  <2>3. LocalTime \in [Replicas -> Nat \ {0}]
    BY ClusterAssumption
  <2>4. LocalTime[r] \in Nat
    BY <2>3
  <2> QED  BY <2>1, <2>2, <2>4
<1>2. delivered[r] + 1 \in 1..Len(log)
  BY <1>1
<1>3. log[delivered[r] + 1] \in Command
  BY <1>2 DEF ClusterType
<1>4. delivered' = [delivered EXCEPT ![r] = delivered[r] + 1]
  BY DEF Apply
<1>5. /\ state' = [state EXCEPT ![r] = ApplyCommand(state[r], log[delivered[r] + 1], LocalTime[r])]
      /\ applied' = [applied EXCEPT ![r] = Append(applied[r], log[delivered[r] + 1])]
  BY DEF Apply
<1>6. /\ delivered' \in [Replicas -> Nat] /\ delivered'[r] = delivered[r] + 1
      /\ \A q \in Replicas : q # r => delivered'[q] = delivered[q]
  BY <1>1, <1>4 DEF ClusterType
<1>7. /\ state'[r] = ApplyCommand(state[r], log[delivered[r] + 1], LocalTime[r])
      /\ \A q \in Replicas : q # r => state'[q] = state[q]
      /\ state' = [state EXCEPT ![r] = state'[r]]
  BY <1>5 DEF ClusterType
<1>8. applied[r] \in Seq(Command) /\ Append(applied[r], log[delivered[r] + 1]) \in Seq(Command)
  BY <1>3 DEF ClusterType
<1>9. /\ applied'[r] = Append(applied[r], log[delivered[r] + 1])
      /\ \A q \in Replicas : q # r => applied'[q] = applied[q]
      /\ applied' \in [Replicas -> Seq(Command)]
  BY <1>5, <1>8 DEF ClusterType
<1> QED  BY <1>1, <1>2, <1>3, <1>6, <1>7, <1>8, <1>9

LEMMA TypeStep == ClusterType /\ [Next]_vars => ClusterType'
<1> SUFFICES ASSUME ClusterType, [Next]_vars PROVE ClusterType'
  OBVIOUS
<1>0. Len(log) \in Nat
  BY DEF ClusterType
<1>1. ASSUME NEW c \in Commands, Commit(c) PROVE ClusterType'
  <2>1. c \in Command
    BY ClusterAssumption
  <2>2. log' \in Seq(Command) /\ Len(log') = Len(log) + 1
    BY <1>1, <2>1 DEF Commit, ClusterType
  <2>3. \A r \in Replicas : delivered[r] <= Len(log')
    BY <1>0, <2>2 DEF ClusterType
  <2> QED  BY <1>1, <2>2, <2>3 DEF Commit, ClusterType
<1>2. ASSUME NEW r \in Replicas, Apply(r) PROVE ClusterType'
  <2>1. state'[r] \in States
    <3> DEFINE c == log[delivered[r] + 1]
    <3>1. /\ c \in Command /\ state[r] \in States /\ LocalTime[r] \in Nat
          /\ state'[r] = ApplyCommand(state[r], c, LocalTime[r])
      BY <1>2, ApplyStep
    <3> HIDE DEF c
    <3> QED  BY <3>1, ApplyKeeps, SameIsReflexive
  <2>2. state' \in [Replicas -> States]
    BY <1>2, <2>1, ApplyStep DEF ClusterType
  <2>3. \A q \in Replicas : delivered'[q] <= Len(log')
    <3>1. /\ delivered[r] \in Nat /\ delivered[r] < Len(log) /\ log' = log
          /\ delivered'[r] = delivered[r] + 1
          /\ \A q \in Replicas : q # r => delivered'[q] = delivered[q]
      BY <1>2, ApplyStep
    <3>2. \A q \in Replicas : delivered[q] <= Len(log)
      BY DEF ClusterType
    <3> QED  BY <1>0, <3>1, <3>2
  <2> QED  BY <1>2, <2>2, <2>3, ApplyStep DEF ClusterType
<1>3. ASSUME NEW r \in Replicas, Restart(r) PROVE ClusterType'
  <2>1. state' \in [Replicas -> States]
    BY <1>3, NewStateType DEF Restart, ClusterType
  <2>2. delivered' \in [Replicas -> Nat] /\ \A q \in Replicas : delivered'[q] <= Len(log)
    BY <1>0, <1>3 DEF Restart, ClusterType
  <2>3. applied' \in [Replicas -> Seq(Command)]
    BY <1>3 DEF Restart, ClusterType
  <2> QED  BY <1>3, <2>1, <2>2, <2>3 DEF Restart, ClusterType
<1>4. ASSUME NEW r \in Replicas, Discard(r) PROVE ClusterType'
  <2>1. delivered' \in [Replicas -> Nat] /\ \A q \in Replicas : delivered'[q] <= Len(log)
    BY <1>0, <1>4 DEF Discard, ClusterType
  <2> QED  BY <1>4, <2>1 DEF Discard, ClusterType
<1>5. CASE UNCHANGED vars
  BY <1>5 DEF vars, ClusterType
<1> QED  BY <1>1, <1>2, <1>3, <1>4, <1>5 DEF Next

LEMMA TypeInit == Init => ClusterType
<1> SUFFICES ASSUME Init PROVE ClusterType
  OBVIOUS
<1>1. log \in Seq(Command) /\ Len(log) \in Nat
  BY ClusterAssumption DEF Init
<1> QED  BY <1>1, NewStateType DEF Init, ClusterType

(* One more entry continues the history.                                   *)
LEMMA HistoryGrows ==
    ASSUME NEW l \in Seq(Command), NEW n \in Nat, n + 1 <= Len(l), NEW f, IsHistory(l, n, f)
    PROVE  \E g : IsHistory(l, n + 1, g) /\ \A k \in 0..n : g[k] = f[k]
<1> DEFINE c == l[n + 1]
           g == [k \in 0..(n + 1) |-> IF k = n + 1 THEN ApplyCommand(f[n], c, 0) ELSE f[k]]
<1>1. c \in Command
  <2>1. n + 1 \in 1..Len(l)
    OBVIOUS
  <2> QED  BY <2>1
<1>2. /\ f \in [0..n -> States] /\ f[0] = NewState
      /\ \A k \in 1..n : f[k] = ApplyCommand(f[k - 1], l[k], 0)
  BY DEF IsHistory
<1>3. /\ g[n + 1] = ApplyCommand(f[n], c, 0)
      /\ \A k \in 0..n : g[k] = f[k]
  OBVIOUS
<1> HIDE DEF c
<1>4. ApplyCommand(f[n], c, 0) \in States
  <2>1. f[n] \in States
    BY <1>2
  <2> QED  BY <1>1, <2>1, SameIsReflexive, ApplyKeeps
<1>5. g \in [0..(n + 1) -> States]
  BY <1>2, <1>4
<1> HIDE DEF g
<1>6. g[0] = NewState
  BY <1>2, <1>3
<1>7. ASSUME NEW k \in 1..(n + 1) PROVE g[k] = ApplyCommand(g[k - 1], l[k], 0)
  <2>1. CASE k = n + 1
    <3>1. g[k - 1] = f[n]
      BY <1>3, <2>1
    <3> QED  BY <1>3, <2>1, <3>1 DEF c
  <2>2. CASE k # n + 1
    <3>1. k \in 1..n /\ k \in 0..n /\ k - 1 \in 0..n
      BY <2>2
    <3> QED  BY <1>2, <1>3, <3>1
  <2> QED  BY <2>1, <2>2
<1>8. IsHistory(l, n + 1, g)
  BY <1>5, <1>6, <1>7 DEF IsHistory
<1> QED  BY <1>3, <1>8

(* A sequence of commands has one history.                                 *)
LEMMA HistoryUnique ==
    ASSUME NEW l, NEW n \in Nat, NEW f, NEW g, IsHistory(l, n, f), IsHistory(l, n, g)
    PROVE  f[n] = g[n]
<1> DEFINE T == {m \in 0..n : f[m] # g[m]}
<1> SUFFICES ASSUME T # {} PROVE FALSE
  OBVIOUS
<1>1. Least(T) \in T /\ \A q \in T : Least(T) <= q
  <2>1. T \subseteq Nat
    OBVIOUS
  <2> QED  BY <2>1, LeastIsLeast
<1>2. ASSUME NEW m \in 0..n, f[m] # g[m], \A q \in T : m <= q PROVE FALSE
  <2>1. m # 0
    BY <1>2 DEF IsHistory
  <2>2. m \in 1..n /\ m - 1 \in 0..n /\ ~(m <= m - 1)
    BY <2>1
  <2>3. f[m - 1] = g[m - 1]
    BY <1>2, <2>2
  <2>4. f[m] = ApplyCommand(f[m - 1], l[m], 0) /\ g[m] = ApplyCommand(g[m - 1], l[m], 0)
    BY <2>2 DEF IsHistory
  <2> QED  BY <1>2, <2>3, <2>4
<1> QED  BY <1>1, <1>2

(* A new machine is where no command leads.                                *)
LEMMA LeadsToNew == LeadsTo(<< >>, NewState)
<1> DEFINE f == [k \in 0..0 |-> NewState]
<1>1. IsHistory(<< >>, 0, f) /\ f[0] = NewState
  BY NewStateType DEF IsHistory
<1>2. Same(NewState, NewState)
  BY SameIsReflexive
<1>3. Len(<< >>) = 0
  OBVIOUS
<1> QED  BY <1>1, <1>2, <1>3 DEF LeadsTo

(* One more command leads one step on, whatever the clock.                 *)
LEMMA LeadsOn ==
    ASSUME NEW l \in Seq(Command), NEW s \in States, NEW c \in Command, NEW now \in Nat,
           LeadsTo(l, s)
    PROVE  LeadsTo(Append(l, c), ApplyCommand(s, c, now))
<1> DEFINE n == Len(l)
           a == Append(l, c)
<1>1. PICK f : IsHistory(l, n, f) /\ Same(s, f[n])
  BY DEF LeadsTo
<1>2. n \in Nat /\ a \in Seq(Command) /\ Len(a) = n + 1 /\ a[n + 1] = c
      /\ \A k \in 1..n : a[k] = l[k]
  OBVIOUS
<1> HIDE DEF a, n
<1>3. IsHistory(a, n, f)
  BY <1>1, <1>2 DEF IsHistory
<1>4. PICK g : IsHistory(a, n + 1, g) /\ \A k \in 0..n : g[k] = f[k]
  BY <1>2, <1>3, HistoryGrows
<1>5. g[n + 1] = ApplyCommand(f[n], c, 0) /\ f[n] \in States
  <2>1. n + 1 \in 1..(n + 1) /\ (n + 1) - 1 = n /\ n \in 0..n
    BY <1>2
  <2>2. g[n + 1] = ApplyCommand(g[(n + 1) - 1], a[n + 1], 0)
    BY <1>4, <2>1 DEF IsHistory
  <2>3. f \in [0..n -> States]
    BY <1>1 DEF IsHistory
  <2> QED  BY <1>2, <1>4, <2>1, <2>2, <2>3
<1>6. Same(ApplyCommand(s, c, now), g[n + 1])
  BY <1>1, <1>5, ApplyKeeps
<1> QED  BY <1>2, <1>4, <1>6 DEF LeadsTo, a

LEMMA ClusterInit == Init => ClusterInv
<1> SUFFICES ASSUME Init, NEW r \in Replicas PROVE LeadsTo(applied[r], state[r]) /\ NothingMissed(r)
  BY TypeInit DEF ClusterInv
<1>1. applied[r] = << >> /\ state[r] = NewState /\ delivered[r] = 0
  BY DEF Init
<1>2. Len(<< >>) = 0
  OBVIOUS
<1> QED  BY <1>1, <1>2, LeadsToNew DEF NothingMissed

LEMMA ClusterStep == ClusterInv /\ [Next]_vars => ClusterInv'
<1> SUFFICES ASSUME ClusterInv, [Next]_vars PROVE ClusterInv'
  OBVIOUS
<1>0. ClusterType /\ ClusterType'
  BY TypeStep DEF ClusterInv
<1>1. \A r \in Replicas : LeadsTo(applied[r], state[r]) /\ NothingMissed(r)
  BY DEF ClusterInv
<1>2. \A r \in Replicas : Len(applied[r]) \in Nat /\ delivered[r] \in Nat /\ delivered[r] <= Len(log)
  BY <1>0 DEF ClusterType
<1> SUFFICES ASSUME NEW x \in Replicas PROVE LeadsTo(applied[x], state[x])' /\ NothingMissed(x)'
  BY <1>0 DEF ClusterInv
<1>3. ASSUME NEW c \in Commands, Commit(c)
      PROVE  LeadsTo(applied[x], state[x])' /\ NothingMissed(x)'
  <2>1. /\ log' = Append(log, c) /\ state' = state /\ applied' = applied
        /\ delivered' = delivered /\ discards' = discards
    BY <1>3 DEF Commit
  <2>2. \A k \in 1..Len(log) : log'[k] = log[k]
    BY <1>0, <2>1 DEF ClusterType
  <2>3. NothingMissed(x)'
    BY <1>1, <1>2, <2>1, <2>2 DEF NothingMissed
  <2> QED  BY <1>1, <2>1, <2>3 DEF LeadsTo
<1>4. ASSUME NEW r \in Replicas, Apply(r)
      PROVE  LeadsTo(applied[x], state[x])' /\ NothingMissed(x)'
  <2>1. CASE x # r
    <3>1. /\ applied'[x] = applied[x] /\ state'[x] = state[x] /\ delivered'[x] = delivered[x]
          /\ log' = log /\ discards' = discards
      BY <1>0, <1>4, <2>1, ApplyStep
    <3> QED  BY <1>1, <3>1 DEF LeadsTo, NothingMissed
  <2>2. CASE x = r
    <3> DEFINE d == delivered[x]
               c == log[d + 1]
               l == applied[x]
    <3>1. /\ d \in Nat /\ d + 1 \in 1..Len(log) /\ c \in Command
          /\ state[x] \in States /\ LocalTime[x] \in Nat
          /\ state'[x] = ApplyCommand(state[x], c, LocalTime[x])
          /\ l \in Seq(Command) /\ applied'[x] = Append(l, c)
          /\ delivered'[x] = d + 1 /\ log' = log /\ discards' = discards
      BY <1>0, <1>4, <2>2, ApplyStep
    <3> HIDE DEF c
    <3>2. LeadsTo(applied'[x], state'[x])
      BY <1>1, <3>1, LeadsOn
    <3>3. /\ Len(applied'[x]) = Len(l) + 1 /\ applied'[x][Len(l) + 1] = c
          /\ \A k \in 1..Len(l) : applied'[x][k] = l[k]
      BY <3>1
    <3>4. NothingMissed(x)'
      <4> SUFFICES ASSUME discards = 0
                   PROVE  /\ Len(applied'[x]) = d + 1
                          /\ \A k \in 1..(d + 1) : applied'[x][k] = log[k]
        BY <3>1 DEF NothingMissed
      <4>1. Len(l) = d /\ \A k \in 1..d : l[k] = log[k]
        BY <1>1 DEF NothingMissed
      <4>2. \A k \in 1..(d + 1) : k = d + 1 \/ k \in 1..d
        BY <3>1
      <4> QED  BY <3>1, <3>3, <4>1, <4>2 DEF c
    <3> QED  BY <3>2, <3>4 DEF LeadsTo
  <2> QED  BY <2>1, <2>2
<1>5. ASSUME NEW r \in Replicas, Discard(r)
      PROVE  LeadsTo(applied[x], state[x])' /\ NothingMissed(x)'
  <2>1. applied' = applied /\ state' = state /\ discards' = discards + 1 /\ discards \in Nat
    BY <1>0, <1>5 DEF Discard, ClusterType
  <2>2. discards' # 0
    BY <2>1
  <2> QED  BY <1>1, <2>1, <2>2 DEF LeadsTo, NothingMissed
<1>6. ASSUME NEW r \in Replicas, Restart(r)
      PROVE  LeadsTo(applied[x], state[x])' /\ NothingMissed(x)'
  <2>1. \/ applied'[x] = << >> /\ state'[x] = NewState /\ delivered'[x] = 0
        \/ applied'[x] = applied[x] /\ state'[x] = state[x] /\ delivered'[x] = delivered[x]
    BY <1>0, <1>6 DEF Restart, ClusterType
  <2>2. log' = log /\ discards' = discards /\ Len(<< >>) = 0
    BY <1>6 DEF Restart
  <2>3. LeadsTo(applied'[x], state'[x])
    BY <1>1, <2>1, LeadsToNew
  <2>4. NothingMissed(x)'
    BY <1>1, <2>1, <2>2 DEF NothingMissed
  <2> QED  BY <2>3, <2>4 DEF LeadsTo
<1>7. CASE UNCHANGED vars
  BY <1>1, <1>7 DEF vars, LeadsTo, NothingMissed
<1> QED  BY <1>3, <1>4, <1>5, <1>6, <1>7 DEF Next

(* The inductive invariant of the replicated state machine: the state of   *)
(* every replica is, clock values aside, the one that the commands it has  *)
(* applied determine, and these are the log as far as it was handed to the *)
(* replica as long as process_ready has dropped no entry.                  *)
THEOREM ReplicasFollow == Spec => []ClusterInv
<1> QED  BY ClusterInit, ClusterStep, PTL DEF Spec

(* Replicas that have applied the same commands in the same order hold the *)
(* same state but for what their clocks put into it, whatever failed and   *)
(* whether or not they restarted; as long as process_ready drops nothing   *)
(* these are all replicas that are equally far in the log.                 *)
THEOREM ReplicasDoAgree == Spec => []ReplicasAgree
<1>1. ClusterInv => ReplicasAgree
  <2> SUFFICES ASSUME ClusterInv, NEW q \in Replicas, NEW r \in Replicas,
                      applied[q] = applied[r] \/ (discards = 0 /\ delivered[q] = delivered[r])
               PROVE  Replicated(state[q]) = Replicated(state[r])
    BY DEF ReplicasAgree
  <2>1. applied[q] = applied[r]
    <3>1. applied[q] \in Seq(Command) /\ applied[r] \in Seq(Command)
      BY DEF ClusterInv, ClusterType
    <3>2. CASE discards = 0 /\ delivered[q] = delivered[r]
      <4>1. /\ Len(applied[q]) = Len(applied[r])
            /\ \A k \in 1..Len(applied[q]) : applied[q][k] = applied[r][k]
        BY <3>2 DEF ClusterInv, NothingMissed
      <4> QED  BY <3>1, <4>1
    <3> QED  BY <3>2
  <2>2. Same(state[q], state[r])
    <3> DEFINE l == applied[q]
    <3>1. LeadsTo(l, state[q]) /\ LeadsTo(l, state[r]) /\ Len(l) \in Nat
      BY <2>1 DEF ClusterInv, ClusterType
    <3>2. PICK f : IsHistory(l, Len(l), f) /\ Same(state[q], f[Len(l)])
      BY <3>1 DEF LeadsTo
    <3>3. PICK g : IsHistory(l, Len(l), g) /\ Same(state[r], g[Len(l)])
      BY <3>1 DEF LeadsTo
    <3>4. f[Len(l)] = g[Len(l)]
      BY <3>1, <3>2, <3>3, HistoryUnique
    <3>5. Same(state[q], f[Len(l)]) /\ Same(state[r], f[Len(l)])
      BY <3>2, <3>3, <3>4
    <3> QED  BY <3>5 DEF Same
  <2>3. state[q] \in States /\ state[r] \in States
    BY DEF ClusterInv, ClusterType
  <2>4. ASSUME NEW s \in States, NEW t \in States, Same(s, t)
        PROVE  Replicated(s) = Replicated(t)
    <3> DEFINE a == [m \in Migrations |-> [s.migrations[m] EXCEPT !.started_at = 0]]
               b == [m \in Migrations |-> [t.migrations[m] EXCEPT !.started_at = 0]]
    <3>1. ASSUME NEW m \in Migrations
          PROVE  [s.migrations[m] EXCEPT !.started_at = 0] = [t.migrations[m] EXCEPT !.started_at = 0]
      <4>1. s.migrations[m] \in MigrationStates /\ t.migrations[m] \in MigrationStates
        BY StateFields
      <4> QED  BY <2>4, <4>1 DEF Same, MigrationStates, NoMigration
    <3>2. a = b
      BY <3>1
    <3>3. /\ Replicated(s) = [s EXCEPT !.heartbeats = [h \in Shards |-> 0], !.migrations = a]
          /\ Replicated(t) = [t EXCEPT !.heartbeats = [h \in Shards |-> 0], !.migrations = b]
      BY DEF Replicated
    <3> HIDE DEF a, b
    <3>4. Replicated(s) = [shards |-> s.shards, heartbeats |-> [h \in Shards |-> 0],
                           has_ring |-> s.has_ring, hash_ring |-> s.hash_ring,
                           migrations |-> a, config |-> s.config, version |-> s.version]
      BY <3>3 DEF States
    <3>5. Replicated(t) = [shards |-> t.shards, heartbeats |-> [h \in Shards |-> 0],
                           has_ring |-> t.has_ring, hash_ring |-> t.hash_ring,
                           migrations |-> b, config |-> t.config, version |-> t.version]
      BY <3>3 DEF States
    <3>6. /\ s.shards = t.shards /\ s.has_ring = t.has_ring /\ s.hash_ring = t.hash_ring
          /\ s.config = t.config /\ s.version = t.version
      BY <2>4 DEF Same
    <3> QED  BY <3>2, <3>4, <3>5, <3>6
  <2> QED  BY <2>2, <2>3, <2>4
<1> QED  BY <1>1, ReplicasFollow, PTL

-----------------------------------------------------------------------------
(* The rings in the commands agree with their lists, as the ones do that   *)
(* add_shard makes of an empty ring; update_hash_ring takes what it gets.  *)
RingsSentMirrored ==
    /\ \A c \in Commands : c.op = "UpdateHashRing" => Mirrored(c.ring)
    /\ \A k \in 1..Len(Bootstrap) : Bootstrap[k].op = "UpdateHashRing" => Mirrored(Bootstrap[k].ring)

LoggedMirrored ==
    \A k \in 1..Len(log) : log[k].op = "UpdateHashRing" => Mirrored(log[k].ring)

MirrorInv == ClusterType /\ LoggedMirrored /\ \A r \in Replicas : Mirrored(state[r].hash_ring)

(* The ring of every replica and its per-shard lists name the same nodes,  *)
(* also after complete_migration has failed half way, as long as the rings *)
(* clients send do.                                                        *)
THEOREM RingsStayMirrored ==
    ASSUME RingsSentMirrored
    PROVE  Spec => []RingMirror
<1>1. Init => MirrorInv
  <2> SUFFICES ASSUME Init PROVE MirrorInv
    OBVIOUS
  <2>1. ClusterType
    BY TypeInit
  <2>2. log = Bootstrap /\ \A r \in Replicas : state[r] = NewState
    BY DEF Init
  <2> QED  BY <2>1, <2>2, NewStateType DEF MirrorInv, LoggedMirrored, RingsSentMirrored
<1>2. MirrorInv /\ [Next]_vars => MirrorInv'
  <2> SUFFICES ASSUME MirrorInv, [Next]_vars PROVE MirrorInv'
    OBVIOUS
  <2>1. ClusterType /\ ClusterType'
    BY TypeStep DEF MirrorInv
  <2>2. LoggedMirrored /\ \A r \in Replicas : Mirrored(state[r].hash_ring)
    BY DEF MirrorInv
  <2>3. ASSUME NEW c \in Commands, Commit(c) PROVE MirrorInv'
    <3>1. log' = Append(log, c) /\ state' = state /\ log \in Seq(Command) /\ c \in Command
      BY <2>1, <2>3, ClusterAssumption DEF Commit, ClusterType
    <3>2. c.op = "UpdateHashRing" => Mirrored(c.ring)
      BY DEF RingsSentMirrored
    <3>3. LoggedMirrored'
      <4> SUFFICES ASSUME NEW k \in 1..Len(log'), log'[k].op = "UpdateHashRing"
                   PROVE  Mirrored(log'[k].ring)
        BY DEF LoggedMirrored
      <4>1. (k \in 1..Len(log) /\ log'[k] = log[k]) \/ log'[k] = c
        BY <3>1
      <4> QED  BY <2>2, <3>2, <4>1 DEF LoggedMirrored
    <3> QED  BY <2>1, <2>2, <3>1, <3>3 DEF MirrorInv
  <2>4. ASSUME NEW r \in Replicas, Apply(r) PROVE MirrorInv'
    <3> DEFINE c == log[delivered[r] + 1]
    <3>1. /\ delivered[r] + 1 \in 1..Len(log) /\ c \in Command /\ log' = log
          /\ state[r] \in States /\ LocalTime[r] \in Nat
          /\ state'[r] = ApplyCommand(state[r], c, LocalTime[r])
          /\ \A q \in Replicas : q # r => state'[q] = state[q]
      BY <2>1, <2>4, ApplyStep
    <3>2. c.op = "UpdateHashRing" => Mirrored(c.ring)
      BY <2>2, <3>1 DEF LoggedMirrored
    <3> HIDE DEF c
    <3>3. Mirrored(state'[r].hash_ring)
      BY <2>2, <3>1, <3>2, ApplyKeeps, SameIsReflexive
    <3>4. \A q \in Replicas : Mirrored(state'[q].hash_ring)
      BY <2>2, <3>1, <3>3
    <3>5. LoggedMirrored'
      BY <2>2, <3>1 DEF LoggedMirrored
    <3> QED  BY <2>1, <3>4, <3>5 DEF MirrorInv
  <2>5. ASSUME NEW r \in Replicas, Restart(r) PROVE MirrorInv'
    <3>1. log' = log /\ \A q \in Replicas : state'[q] \in {state[q], NewState}
      BY <2>1, <2>5 DEF Restart, ClusterType
    <3>2. \A q \in Replicas : Mirrored(state'[q].hash_ring)
      BY <2>2, <3>1, NewStateType
    <3>3. LoggedMirrored'
      BY <2>2, <3>1 DEF LoggedMirrored
    <3> QED  BY <2>1, <3>2, <3>3 DEF MirrorInv
  <2>6. ASSUME NEW r \in Replicas, Discard(r) PROVE MirrorInv'
    <3>1. log' = log /\ state' = state
      BY <2>6 DEF Discard
    <3> QED  BY <2>1, <2>2, <3>1 DEF MirrorInv, LoggedMirrored
  <2>7. CASE UNCHANGED vars
    BY <2>1, <2>2, <2>7 DEF vars, MirrorInv, LoggedMirrored
  <2> QED  BY <2>3, <2>4, <2>5, <2>6, <2>7 DEF Next
<1>3. MirrorInv => RingMirror
  BY DEF MirrorInv, RingMirror, Mirrored
<1> QED  BY <1>1, <1>2, <1>3, PTL DEF Spec

(* An entry that leaves the version alone but changes the state is a       *)
(* complete_migration that met a node which is not on the ring; every      *)
(* other failure leaves the state as it was, and every success moves the   *)
(* version.                                                                *)
THEOREM VersionsCover == Spec => VersionCoversChanges
<1> DEFINE Covers(r) ==
             Apply(r) /\ state'[r].version = state[r].version /\ state'[r] # state[r]
             => LET c == log[delivered'[r]]
                    m == state[r].migrations[c.id]
                IN  /\ c.op = "CompleteMigration"
                    /\ state'[r].migrations[c.id].status = "Completed"
                    /\ \E k \in DOMAIN m.nodes : m.nodes[k] \notin OnRing(state[r].hash_ring)
           Step == \A r \in Replicas : Covers(r)
<1>1. ClusterType => Step
  <2> SUFFICES ASSUME ClusterType, NEW r \in Replicas, Apply(r),
                      state'[r].version = state[r].version, state'[r] # state[r]
               PROVE  LET c == log[delivered'[r]]
                          m == state[r].migrations[c.id]
                      IN  /\ c.op = "CompleteMigration"
                          /\ state'[r].migrations[c.id].status = "Completed"
                          /\ \E k \in DOMAIN m.nodes : m.nodes[k] \notin OnRing(state[r].hash_ring)
    OBVIOUS
  <2> DEFINE c == log[delivered'[r]]
             s == state[r]
             o == Outcome(s, c, LocalTime[r])
  <2>1. /\ c \in Command /\ s \in States /\ LocalTime[r] \in Nat
        /\ state'[r] = ApplyCommand(s, c, LocalTime[r])
    BY ApplyStep
  <2>2. state'[r].version = s.version /\ state'[r] # s
    OBVIOUS
  <2>3. Same(s, s)
    BY SameIsReflexive
  <2> HIDE DEF c, s
  <2>4. ~o.ok /\ state'[r] = o.state
    BY <2>1, <2>2, <2>3, ApplyKeeps
  <2>5. Handles(s, s, c, o, o)
    BY <2>1, <2>3, OutcomeHandles
  <2>6. c.op = "CompleteMigration"
    BY <2>2, <2>4, <2>5 DEF Handles
  <2>7. o = CompleteMigration(s, c)
    BY <2>6 DEF Outcome
  <2> HIDE DEF o
  <2>8. /\ state'[r].migrations[c.id].status = "Completed"
        /\ \E k \in DOMAIN s.migrations[c.id].nodes :
             s.migrations[c.id].nodes[k] \notin OnRing(s.hash_ring)
    BY <2>1, <2>2, <2>3, <2>4, <2>6, <2>7, CompleteMigrationHandles
  <2> QED  BY <2>6, <2>8 DEF c, s
<1>2. Step => [Step]_vars
  OBVIOUS
<1>3. ClusterInv => ClusterType
  BY DEF ClusterInv
<1> QED  BY <1>1, <1>2, <1>3, ReplicasFollow, PTL DEF VersionCoversChanges
=============================================================================
