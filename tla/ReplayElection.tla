---------------------------- MODULE ReplayElection ----------------------------
(***************************************************************************)
(* Leader election among coordinators for the replay of unacknowledged     *)
(* lineage events (storage/kafka/distributed_replay.rs, and the handlers   *)
(* of its two HTTP endpoints in api/kafka_raft.rs).                        *)
(*                                                                         *)
(* start_election takes a lock per field and releases it again, asks the   *)
(* peers one after the other over HTTP and counts the votes at the end.    *)
(* handle_vote_request only READS the voter's state: voted_for is written  *)
(* by a candidate for itself and never looked at, so it is left out.       *)
(* Heartbeats change nothing at either end and are left out too, as is the *)
(* content of the log entries.                                             *)
(***************************************************************************)
EXTENDS Naturals, FiniteSets

CONSTANTS
    Coordinators,
    Candidates,         \* bound: the coordinators on which start_election is called
    MaxTerm,            \* bound: no election is started at or beyond this term
    MaxRestarts         \* bound: restarts of coordinators

ASSUME ElectionAssumption ==
    /\ IsFiniteSet(Coordinators)
    /\ Candidates \subseteq Coordinators
    /\ {MaxTerm, MaxRestarts} \subseteq Nat

VARIABLES
    state,              \* state[n]: RaftState
    term,               \* term[n]
    election,           \* the start_election call of n, if one is running
    replaying,          \* coordinators inside replay_if_leader's recovery
    granted,            \* history: <<voter, term, candidate>> of every vote given
    restarts

vars == <<state, term, election, replaying, granted, restarts>>

RaftState == {"Follower", "Candidate", "Leader"}
Terms == 0..MaxTerm

(* at: the next step of start_election; term: new_term, the term it asks   *)
(* votes for; asked, votes: the peers it is done with and who said yes     *)
(* (itself included); reply: what the peer it is waiting for answered.     *)
(* The record of the last election stays until the next one draws its term.*)
NoReply == [from |-> "none", vote_granted |-> FALSE, term |-> 0]
NoElection == [at |-> "none", term |-> 0, asked |-> {}, votes |-> {},
               reply |-> NoReply]

TypeOK ==
    /\ state \in [Coordinators -> RaftState]
    /\ term \in [Coordinators -> Terms]
    /\ election \in [Coordinators ->
          [at : {"none", "candidate", "asking"}, term : Terms,
           asked : SUBSET Coordinators, votes : SUBSET Coordinators,
           reply : [from : Coordinators \cup {"none"}, vote_granted : BOOLEAN,
                    term : Terms]]]
    /\ replaying \subseteq Coordinators
    /\ granted \subseteq Coordinators \X Terms \X Coordinators
    /\ restarts \in 0..MaxRestarts

Init ==
    /\ state = [n \in Coordinators |-> "Follower"]
    /\ term = [n \in Coordinators |-> 0]
    /\ election = [n \in Coordinators |-> NoElection]
    /\ replaying = {}
    /\ granted = {}
    /\ restarts = 0

-----------------------------------------------------------------------------
(* start_election: the state becomes Candidate ...                         *)
BecomeCandidate(n) ==
    /\ n \in Candidates
    /\ election[n].at = "none"
    /\ term[n] < MaxTerm
    /\ state' = [state EXCEPT ![n] = "Candidate"]
    /\ election' = [election EXCEPT ![n].at = "candidate"]
    /\ UNCHANGED <<term, replaying, granted, restarts>>

(* A plausible slip: a repeated election stands in the term of the last.   *)
NewTerm_Same(n) == IF term[n] = 0 THEN 1 ELSE term[n]

NewTerm(n) == term[n] + 1

(* ... then the term grows and the coordinator votes for itself.           *)
IncrementTerm(n) ==
    /\ election[n].at = "candidate"
    /\ term' = [term EXCEPT ![n] = NewTerm(n)]
    /\ election' = [election EXCEPT ![n] =
                      [at |-> "asking", term |-> NewTerm(n), asked |-> {n},
                       votes |-> {n}, reply |-> NoReply]]
    /\ granted' = granted \cup {<<n, NewTerm(n), n>>}
    /\ UNCHANGED <<state, replaying, restarts>>

(* handle_vote_request at p: refuse an older term, refuse as a leader,     *)
(* otherwise grant.  It reads the term, then the state.  A leader's term   *)
(* only changes after it has become Candidate, so any grant between the    *)
(* two reads is one an atomic reading allows; a refusal with an outdated   *)
(* term has the effect of VoteRequestFails.                                *)
VoteGranted(p, t) == t >= term[p] /\ state[p] # "Leader"

(* A plausible slip: the voter answers with the term it would stand in.    *)
ReplyTerm_Next(p, t) == IF term[p] > t THEN term[p] + 1 ELSE t + 1

(* current_term.max(request.term)                                          *)
ReplyTerm(p, t) == IF term[p] > t THEN term[p] ELSE t

PeerVotes(n, p) ==
    LET e == election[n] IN
    /\ e.at = "asking" /\ e.reply = NoReply
    /\ p \notin e.asked
    /\ election' = [election EXCEPT ![n].reply =
                      [from |-> p, vote_granted |-> VoteGranted(p, e.term),
                       term |-> ReplyTerm(p, e.term)]]
    /\ granted' = IF VoteGranted(p, e.term) THEN granted \cup {<<p, e.term, n>>}
                                            ELSE granted
    /\ UNCHANGED <<state, term, replaying, restarts>>

(* A plausible slip: a refusal is counted as well.                         *)
CountVote_Always(votes, reply) == votes \cup {reply.from}

CountVote(votes, reply) ==
    IF reply.vote_granted THEN votes \cup {reply.from} ELSE votes

(* The reply carries a higher term than the one votes are asked for.       *)
Outdated(n) == election[n].reply.term > election[n].term

(* request_vote_from_peer gets the reply.  A higher term makes it "step    *)
(* down" and adopt that term, but the loop over the peers goes on.         *)
ReceiveVote(n) ==
    LET e == election[n] IN
    /\ e.at = "asking" /\ e.reply # NoReply
    /\ election' = [election EXCEPT ![n] =
                      [e EXCEPT !.asked = @ \cup {e.reply.from},
                                !.votes = CountVote(@, e.reply),
                                !.reply = NoReply]]
    /\ IF Outdated(n)
         THEN /\ state' = [state EXCEPT ![n] = "Follower"]
              /\ term' = [term EXCEPT ![n] = e.reply.term]
         ELSE UNCHANGED <<state, term>>
    /\ UNCHANGED <<replaying, granted, restarts>>

(* The request or the reply is lost or times out: Err, no vote.            *)
VoteRequestFails(n, p) ==
    LET e == election[n] IN
    /\ e.at = "asking" /\ p \notin e.asked
    /\ e.reply.from \in {p, "none"}
    /\ election' = [election EXCEPT ![n].asked = @ \cup {p}, ![n].reply = NoReply]
    /\ UNCHANGED <<state, term, replaying, granted, restarts>>

(* A plausible slip: half of the coordinators is taken for a majority.     *)
Majority_Half == Cardinality(Coordinators) \div 2

Majority == (Cardinality(Coordinators) \div 2) + 1

Won(n) == Cardinality(election[n].votes) >= Majority

(* All peers were asked: Leader with a majority, Follower without.         *)
ConcludeElection(n) ==
    /\ election[n].at = "asking" /\ election[n].asked = Coordinators
    /\ state' = [state EXCEPT ![n] = IF Won(n) THEN "Leader" ELSE "Follower"]
    /\ election' = [election EXCEPT ![n].at = "none"]
    /\ UNCHANGED <<term, replaying, granted, restarts>>

-----------------------------------------------------------------------------
(* replay_if_leader looks at the state once, then runs the recovery.       *)
ReplayBegin(n) ==
    /\ state[n] = "Leader"
    /\ n \notin replaying
    /\ replaying' = replaying \cup {n}
    /\ UNCHANGED <<state, term, election, granted, restarts>>

ReplayEnd(n) ==
    /\ n \in replaying
    /\ replaying' = replaying \ {n}
    /\ UNCHANGED <<state, term, election, granted, restarts>>

-----------------------------------------------------------------------------
(* The process of n dies, in an election or a replay perhaps, and starts   *)
(* anew: state and term are in memory only.  An answer n has given as a    *)
(* voter is on its way all the same.  One that never stood loses nothing.  *)
Restart(n) ==
    /\ n \in Candidates
    /\ restarts < MaxRestarts
    /\ restarts' = restarts + 1
    /\ state' = [state EXCEPT ![n] = "Follower"]
    /\ term' = [term EXCEPT ![n] = 0]
    /\ election' = [election EXCEPT ![n] = NoElection]
    /\ replaying' = replaying \ {n}
    /\ UNCHANGED granted

Next ==
    \E n \in Coordinators :
        \/ BecomeCandidate(n) \/ IncrementTerm(n)
        \/ \E p \in Coordinators : PeerVotes(n, p) \/ VoteRequestFails(n, p)
        \/ ReceiveVote(n) \/ ConcludeElection(n)
        \/ ReplayBegin(n) \/ ReplayEnd(n) \/ Restart(n)

Spec == Init /\ [][Next]_vars

-----------------------------------------------------------------------------
(* Between two starts of its process a coordinator does not stand twice in *)
(* one term, although its term is overwritten by what a peer reported some *)
(* time ago.  A restarted one stands in term 1 again: the election record, *)
(* which Restart resets, is that of the running process.                   *)
ElectionTermsIncrease ==
    [][\A n \in Coordinators : election[n].at = "candidate" /\ election'[n].at = "asking"
                                => election'[n].term > election[n].term]_vars

(* Any two leaders owe their office to a common voter: two majorities      *)
(* intersect, so that two leaders of one term are only possible if one     *)
(* voter voted twice in it.                                                *)
LeadersShareAVoter ==
    \A m, n \in Coordinators :
        state[m] = "Leader" /\ state[n] = "Leader" =>
            election[m].votes \cap election[n].votes # {}

(* Every vote a leader counted was granted to it, for the very term it     *)
(* stood in.                                                               *)
LeaderVotesGenuine ==
    \A n \in Coordinators : state[n] = "Leader" =>
        \A v \in election[n].votes : <<v, election[n].term, n>> \in granted

(* "Ensure only one coordinator performs recovery at a time".              *)
OneReplayAtATime == Cardinality(replaying) <= 1
=============================================================================
