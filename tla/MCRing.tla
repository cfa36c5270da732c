-------------------------------- MODULE MCRing --------------------------------
(* Instances of RingLife and ClusterState for TLC.  The two share no state *)
(* and one placement of shards, so a behaviour is of the one or the other. *)
EXTENDS RingLife, ClusterState

VARIABLE part           \* what this behaviour is of

(* First and second positions of different shards take turns.              *)
MCPlace == [s \in Shards |-> [i \in VNodes |-> 10 * i + 2 * s]]
MCRetry == [s \in Shards |-> [i \in VNodes |-> 10 * (MaxVNodes + 1 - i) + 2 * s + 1]]
(* The first node at or after a key is all that matters of it, so one key  *)
(* per position and one past the last stand for all.                       *)
MCKeys == Positions \cup {100}

MCLocalTime == [r \in Replicas |-> r]

Register(s, st) == [op |-> "RegisterShard", shard |-> s, status |-> st]
Start(m, t, nodes) == [op |-> "StartMigration", id |-> m, target |-> t, nodes |-> nodes]
Finish(m) == [op |-> "CompleteMigration", id |-> m]
Replace(members) == [op |-> "UpdateHashRing", ring |-> RingOf(members)]

(* Two shards, their ring and a migration whose second node leaves it with *)
(* shard 2; then commands of every kind.                                   *)
MCBootstrap ==
    <<Register(1, "Active"), Register(2, "Active"), Replace({1, 2}), Start(1, 2, <<12, 14>>)>>
MCCommands ==
    {Register(2, "Active"), Replace({1}),
     Start(1, 2, <<12, 14>>), Start(2, 1, <<14>>), Finish(1), Finish(2),
     [op |-> "AbortMigration", id |-> 1],
     [op |-> "UnregisterShard", shard |-> 2],
     [op |-> "UpdateShardStatus", shard |-> 2, status |-> "Down"],
     [op |-> "UpdateHeartbeat", shard |-> 2, timestamp |-> 3],
     [op |-> "UpdateConfig", value |-> 1]}

MCInit == RingInit /\ Init /\ part \in {"ring", "cluster"}

MCNext ==
    \/ part = "ring" /\ RingNext /\ UNCHANGED <<vars, part>>
    \/ part = "cluster" /\ Next /\ UNCHANGED <<ring, part>>

MCSpec == MCInit /\ [][MCNext]_<<ring, vars, part>>
=============================================================================
