----------------------------- MODULE ClusterState -----------------------------
(***************************************************************************)
(* The coordinator's replicated state machine (ha/state_machine.rs) under  *)
(* the committed log of its Raft group (ha/raft_coordinator.rs).           *)
(*                                                                         *)
(* External: the Raft crate commits one log and hands each replica every   *)
(* entry of it once, in order: in a Ready, whose entries the event loop    *)
(* applies, or in the LightReady that advance() returns, which the loop    *)
(* drops.  So replicas are at different places in the log and can miss     *)
(* entries of it; an entry whose apply returns Err is logged and counts as *)
(* applied, whatever it has changed by then.  The state machine is in      *)
(* memory and Config.applied is 0: a restarted replica begins anew and is  *)
(* sent the log from its start.                                            *)
(***************************************************************************)
EXTENDS HashRing

CONSTANTS
    Replicas,
    Migrations,         \* migration ids
    LocalTime,          \* LocalTime[r]: what current_timestamp() returns at r
    Commands,           \* the commands clients send
    Bootstrap,          \* the log when the model starts: nothing of it is applied
    MaxCommands,        \* bound: length of the log
    MaxLag,             \* bound: entries a replica is behind when another commits
    MaxRestarts,        \* bound
    MaxDiscards         \* bound: entries that are dropped with a LightReady

ShardStatus == {"Active", "Draining", "Provisioning", "Degraded", "Down"}

Command ==
    [op : {"RegisterShard", "UpdateShardStatus"}, shard : Shards, status : ShardStatus]
      \cup [op : {"UnregisterShard"}, shard : Shards]
      \cup [op : {"UpdateHeartbeat"}, shard : Shards, timestamp : Nat]
      \cup [op : {"UpdateHashRing"}, ring : Rings]
      \cup [op : {"StartMigration"}, id : Migrations, target : Shards,
            nodes : Seq(Positions)]
      \cup [op : {"CompleteMigration", "AbortMigration"}, id : Migrations]
      \cup [op : {"UpdateConfig"}, value : Nat]

ASSUME ClusterAssumption ==
    /\ LocalTime \in [Replicas -> Nat \ {0}]
    /\ Commands \subseteq Command
    /\ Bootstrap \in Seq(Command)
    /\ {MaxCommands, MaxLag, MaxRestarts, MaxDiscards} \subseteq Nat

VARIABLES
    log,                \* external: the entries Raft has committed
    delivered,          \* delivered[r]: how many of them Raft has handed to r
    state,              \* state[r]: r's CoordinatorStateMachine
    applied,            \* history: the commands r has applied since it started
    restarts,
    discards            \* how many entries have been dropped with a LightReady

vars == <<log, delivered, state, applied, restarts, discards>>

NoMigration == [status |-> "None", target |-> NoShard, nodes |-> << >>, started_at |-> 0]

(* shards: the status of each registered shard; hash_ring counts when      *)
(* has_ring; config: the value of one key.  A migration's source is stored *)
(* and never read.                                                         *)
NewState ==
    [shards |-> [s \in Shards |-> "None"],
     heartbeats |-> [s \in Shards |-> 0],
     has_ring |-> FALSE,
     hash_ring |-> EmptyRing,
     migrations |-> [m \in Migrations |-> NoMigration],
     config |-> 0,
     version |-> 0]

Init ==
    /\ log = Bootstrap
    /\ delivered = [r \in Replicas |-> 0]
    /\ state = [r \in Replicas |-> NewState]
    /\ applied = [r \in Replicas |-> << >>]
    /\ restarts = 0 /\ discards = 0

-----------------------------------------------------------------------------
(* What a handler returns: its verdict, and what it has made of the state. *)
Ok(s) == [ok |-> TRUE, state |-> s]
Err(s) == [ok |-> FALSE, state |-> s]

Registered(s, h) == s.shards[h] # "None"

(* The ring of the given shards, each with its full number of nodes: what  *)
(* adding them to an empty ring in any order gives, no position being      *)
(* taken twice.                                                            *)
RingOf(members) ==
    LET mine(s) == {Place[s][i] : i \in VNodes}
    IN  [nodes |-> [p \in Positions |->
                      IF \E s \in members : p \in mine(s)
                      THEN CHOOSE s \in members : p \in mine(s) ELSE NoShard],
         known |-> members,
         lists |-> [s \in Shards |-> IF s \in members THEN mine(s) ELSE {}]]

(* A plausible slip: the ring is made of the shards this replica has heard *)
(* of lately.                                                              *)
RebuildHashRing_Live(s) ==
    IF s.has_ring
    THEN [s EXCEPT !.hash_ring = RingOf({h \in Shards : s.shards[h] = "Active"
                                                        /\ s.heartbeats[h] > 1})]
    ELSE s

RebuildHashRing(s) ==
    IF s.has_ring
    THEN [s EXCEPT !.hash_ring = RingOf({h \in Shards : s.shards[h] = "Active"})]
    ELSE s

RegisterShard(s, c, now) ==
    IF Registered(s, c.shard) THEN Err(s)
    ELSE Ok(RebuildHashRing([s EXCEPT !.shards[c.shard] = c.status,
                                      !.heartbeats[c.shard] = now]))

UnregisterShard(s, c) ==
    IF ~Registered(s, c.shard) THEN Err(s)
    ELSE Ok(RebuildHashRing([s EXCEPT !.shards[c.shard] = "None",
                                      !.heartbeats[c.shard] = 0]))

UpdateShardStatus(s, c) ==
    IF ~Registered(s, c.shard) THEN Err(s)
    ELSE Ok([s EXCEPT !.shards[c.shard] = c.status])

UpdateHeartbeat(s, c) ==
    IF ~Registered(s, c.shard) THEN Err(s)
    ELSE Ok([s EXCEPT !.heartbeats[c.shard] = c.timestamp])

UpdateHashRing(s, c) == Ok([s EXCEPT !.has_ring = TRUE, !.hash_ring = c.ring])

(* A plausible slip: an id that exists is taken over before the refusal.   *)
StartMigration_Replace(s, c, now) ==
    LET started == [s EXCEPT !.migrations[c.id] =
                      [status |-> "InProgress", target |-> c.target, nodes |-> c.nodes,
                       started_at |-> now]]
    IN  IF s.migrations[c.id].status # "None" THEN Err(started) ELSE Ok(started)

(* Neither the shards nor the nodes are looked at.                         *)
StartMigration(s, c, now) ==
    IF s.migrations[c.id].status # "None" THEN Err(s)
    ELSE Ok([s EXCEPT !.migrations[c.id] =
               [status |-> "InProgress", target |-> c.target, nodes |-> c.nodes,
                started_at |-> now]])

(* The nodes before the first one that is not on the ring.                 *)
Reassignable(ring, nodes) ==
    {k \in 1..Len(nodes) : \A j \in 1..k : nodes[j] \in OnRing(ring)}

(* They are moved one by one; what was done stays.                         *)
Moved(ring, nodes, target) ==
    LET moved[k \in 0..Len(nodes)] ==
          IF k = 0 THEN ring ELSE Reassign(moved[k - 1], nodes[k], target)
    IN  moved[Cardinality(Reassignable(ring, nodes))]

(* The status is set whatever it was, then the nodes are moved until one   *)
(* is not on the ring.                                                     *)
CompleteMigration(s, c) ==
    LET m == s.migrations[c.id]
        movable == Reassignable(s.hash_ring, m.nodes)
        done == [s EXCEPT !.migrations[c.id].status = "Completed"]
    IN  IF m.status = "None" THEN Err(s)
        ELSE IF ~s.has_ring THEN Ok(done)
        ELSE [ok |-> Cardinality(movable) = Len(m.nodes),
              state |-> [done EXCEPT !.hash_ring = Moved(s.hash_ring, m.nodes, m.target)]]

AbortMigration(s, c) ==
    IF s.migrations[c.id].status = "None" THEN Err(s)
    ELSE Ok([s EXCEPT !.migrations[c.id].status = "Aborted"])

UpdateConfig(s, c) == Ok([s EXCEPT !.config = c.value])

Outcome(s, c, now) ==
    CASE c.op = "RegisterShard"     -> RegisterShard(s, c, now)
      [] c.op = "UnregisterShard"   -> UnregisterShard(s, c)
      [] c.op = "UpdateShardStatus" -> UpdateShardStatus(s, c)
      [] c.op = "UpdateHeartbeat"   -> UpdateHeartbeat(s, c)
      [] c.op = "UpdateHashRing"    -> UpdateHashRing(s, c)
      [] c.op = "StartMigration"    -> StartMigration(s, c, now)
      [] c.op = "CompleteMigration" -> CompleteMigration(s, c)
      [] c.op = "AbortMigration"    -> AbortMigration(s, c)
      [] c.op = "UpdateConfig"      -> UpdateConfig(s, c)

ApplyCommand(s, c, now) ==
    LET o == Outcome(s, c, now)
    IN  IF o.ok THEN [o.state EXCEPT !.version = @ + 1] ELSE o.state

-----------------------------------------------------------------------------
(* A client's command that the leader proposed and Raft committed; one     *)
(* that is refused, dropped or lost changes nothing.                       *)
Commit(c) ==
    /\ Len(log) < MaxCommands
    /\ \A r \in Replicas : Len(log) - delivered[r] < MaxLag
    /\ log' = Append(log, c)
    /\ UNCHANGED <<delivered, state, applied, restarts, discards>>

(* One turn of process_ready's loop over the committed entries.            *)
Apply(r) ==
    /\ delivered[r] < Len(log)
    /\ delivered' = [delivered EXCEPT ![r] = @ + 1]
    /\ LET c == log[delivered[r] + 1]
       IN  /\ state' = [state EXCEPT ![r] = ApplyCommand(@, c, LocalTime[r])]
           /\ applied' = [applied EXCEPT ![r] = Append(@, c)]
    /\ UNCHANGED <<log, restarts, discards>>

(* The entry became applicable while the Ready was processed (it was       *)
(* stored in that turn): advance() hands it over in the LightReady that    *)
(* process_ready drops, and it does not come again.                        *)
Discard(r) ==
    /\ discards < MaxDiscards
    /\ discards' = discards + 1
    /\ delivered[r] < Len(log)
    /\ delivered' = [delivered EXCEPT ![r] = @ + 1]
    /\ UNCHANGED <<log, state, applied, restarts>>

Restart(r) ==
    /\ restarts < MaxRestarts
    /\ restarts' = restarts + 1
    /\ delivered' = [delivered EXCEPT ![r] = 0]
    /\ state' = [state EXCEPT ![r] = NewState]
    /\ applied' = [applied EXCEPT ![r] = << >>]
    /\ UNCHANGED <<log, discards>>

Next ==
    \/ \E c \in Commands : Commit(c)
    \/ \E r \in Replicas : Apply(r) \/ Discard(r) \/ Restart(r)

Spec == Init /\ [][Next]_vars

-----------------------------------------------------------------------------
(* A state without what a replica's own clock has put into it.             *)
Replicated(s) ==
    [s EXCEPT !.heartbeats = [h \in Shards |-> 0],
              !.migrations = [m \in Migrations |-> [s.migrations[m] EXCEPT !.started_at = 0]]]

(* Replicas that have applied the same commands in the same order have the *)
(* same shards, ring, migrations, configuration and version, whatever      *)
(* failed on the way and whether or not they restarted; and as long as     *)
(* process_ready has dropped no entry, replicas that were handed as much   *)
(* of the log have applied the same.  Once it has, they can part for good. *)
ReplicasAgree ==
    \A q, r \in Replicas :
      \/ applied[q] = applied[r]
      \/ discards = 0 /\ delivered[q] = delivered[r]
      => Replicated(state[q]) = Replicated(state[r])

(* The replicated ring and its per-shard lists name the same nodes in      *)
(* every state, also after a migration that failed half way, one to a      *)
(* shard that is not registered, and two migrations of the same node.      *)
RingMirror ==
    \A r \in Replicas : NodesAreListed(state[r].hash_ring) /\ ListedAreNodes(state[r].hash_ring)

(* "State version (incremented on each change)": an applied entry moves    *)
(* the version exactly when it succeeds, and a state that has changed      *)
(* under an unmoved version is that of a migration completed in part.      *)
VersionCoversChanges ==
    [][\A r \in Replicas :
         Apply(r) /\ state'[r].version = state[r].version /\ state'[r] # state[r]
         => LET c == log[delivered'[r]]
                m == state[r].migrations[c.id]
            IN  /\ c.op = "CompleteMigration"
                /\ state'[r].migrations[c.id].status = "Completed"
                /\ \E k \in DOMAIN m.nodes : m.nodes[k] \notin OnRing(state[r].hash_ring)]_vars
=============================================================================
