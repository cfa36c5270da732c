------------------------ MODULE ReplayElectionProofs ------------------------
(***************************************************************************)
(* Proofs about ReplayElection for every finite set of coordinators, every *)
(* set of candidates and every bound on the terms.                         *)
(***************************************************************************)
EXTENDS ReplayElection, FiniteSetTheorems, TLAPS

(* What holds of a coordinator and its last election at all times: the     *)
(* term never falls below the election's, a leader's election is over and  *)
(* was won, and every vote counted or about to be counted was granted.     *)
TermSound(n) ==
    /\ election[n].term <= term[n]
    /\ election[n].at = "candidate" => term[n] < MaxTerm
    /\ election[n].reply = NoReply \/ election[n].reply.from \in Coordinators

LeaderSound(n) ==
    state[n] = "Leader" => election[n].at = "none" /\ Won(n)

VotesSound(n) ==
    /\ \A v \in election[n].votes : <<v, election[n].term, n>> \in granted
    /\ election[n].reply # NoReply /\ election[n].reply.vote_granted =>
          <<election[n].reply.from, election[n].term, n>> \in granted

(* The inductive invariant.                                                *)
IInv ==
    /\ TypeOK
    /\ \A n \in Coordinators : TermSound(n) /\ LeaderSound(n) /\ VotesSound(n)

(* Only one coordinator's record changes in a step: for the others it is   *)
(* enough that no vote is taken back.                                      *)
LEMMA OthersSound ==
    ASSUME IInv, NEW n \in Coordinators, NEW m \in Coordinators, m # n,
           NEW s, NEW t, NEW e,
           state' = [state EXCEPT ![n] = s],
           term' = [term EXCEPT ![n] = t],
           election' = [election EXCEPT ![n] = e],
           granted \subseteq granted'
    PROVE  TermSound(m)' /\ LeaderSound(m)' /\ VotesSound(m)'
<1>1. state'[m] = state[m] /\ term'[m] = term[m] /\ election'[m] = election[m]
  BY DEF IInv, TypeOK
<1>2. TermSound(m) /\ LeaderSound(m) /\ VotesSound(m)
  BY DEF IInv
<1> QED  BY <1>1, <1>2 DEF TermSound, LeaderSound, VotesSound, Won

(* The same for the actions that leave the voting alone.                   *)
LEMMA Untouched ==
    ASSUME IInv, UNCHANGED <<state, term, election, granted>>, TypeOK'
    PROVE  IInv'
BY DEF IInv, TermSound, LeaderSound, VotesSound, Won

LEMMA InitInv == Init => IInv
<1> SUFFICES ASSUME Init PROVE IInv
  OBVIOUS
<1>1. TypeOK
  BY ElectionAssumption DEF Init, TypeOK, RaftState, Terms, NoElection, NoReply
<1>2. ASSUME NEW n \in Coordinators
      PROVE  TermSound(n) /\ LeaderSound(n) /\ VotesSound(n)
  BY ElectionAssumption
  DEF Init, TermSound, LeaderSound, VotesSound, NoElection
<1> QED  BY <1>1, <1>2 DEF IInv

(* Every step keeps the invariant: one case per action; in each the acting *)
(* coordinator n is the only one whose record changes.                     *)
LEMMA NextInv == IInv /\ [Next]_vars => IInv'
<1> SUFFICES ASSUME IInv, [Next]_vars PROVE IInv'
  OBVIOUS
<1> USE ElectionAssumption
<1>1. ASSUME NEW n \in Coordinators, BecomeCandidate(n)
      PROVE  IInv'
  <2>1. TypeOK'
    BY <1>1 DEF IInv, BecomeCandidate, TypeOK, RaftState
  <2>2. TermSound(n)' /\ LeaderSound(n)' /\ VotesSound(n)'
    BY <1>1 DEF IInv, BecomeCandidate, TypeOK, TermSound, LeaderSound, VotesSound
  <2>3. ASSUME NEW m \in Coordinators, m # n
        PROVE  TermSound(m)' /\ LeaderSound(m)' /\ VotesSound(m)'
    <3>1. /\ term' = [term EXCEPT ![n] = term[n]]
          /\ election' = [election EXCEPT ![n] = [election[n] EXCEPT !.at = "candidate"]]
      BY <1>1 DEF IInv, BecomeCandidate, TypeOK
    <3> QED  BY <1>1, <2>3, <3>1, OthersSound DEF BecomeCandidate
  <2> QED  BY <2>1, <2>2, <2>3 DEF IInv
<1>2. ASSUME NEW n \in Coordinators, IncrementTerm(n)
      PROVE  IInv'
  <2>0. term[n] < MaxTerm /\ term[n] \in Nat
    BY <1>2 DEF IInv, IncrementTerm, TermSound, TypeOK, Terms
  <2>1. TypeOK'
    BY <1>2, <2>0 DEF IInv, IncrementTerm, TypeOK, Terms, NewTerm, NoReply
  <2>2. TermSound(n)' /\ LeaderSound(n)' /\ VotesSound(n)'
    <3>1. /\ election'[n].at = "asking" /\ election'[n].term = NewTerm(n)
          /\ election'[n].votes = {n} /\ election'[n].reply = NoReply
          /\ term'[n] = NewTerm(n) /\ state'[n] # "Leader"
      BY <1>2 DEF IInv, IncrementTerm, TypeOK, LeaderSound
    <3>2. <<n, NewTerm(n), n>> \in granted'
      BY <1>2 DEF IncrementTerm
    <3> QED  BY <2>0, <3>1, <3>2 DEF NewTerm, TermSound, LeaderSound, VotesSound
  <2>3. ASSUME NEW m \in Coordinators, m # n
        PROVE  TermSound(m)' /\ LeaderSound(m)' /\ VotesSound(m)'
    <3>1. state' = [state EXCEPT ![n] = state[n]] /\ granted \subseteq granted'
      BY <1>2 DEF IInv, IncrementTerm, TypeOK
    <3> QED  BY <1>2, <2>3, <3>1, OthersSound DEF IncrementTerm
  <2> QED  BY <2>1, <2>2, <2>3 DEF IInv
<1>3. ASSUME NEW n \in Coordinators, NEW p \in Coordinators, PeerVotes(n, p)
      PROVE  IInv'
  <2> DEFINE r == [from |-> p, vote_granted |-> VoteGranted(p, election[n].term),
                   term |-> ReplyTerm(p, election[n].term)]
  <2>0. r \in [from : Coordinators \cup {"none"}, vote_granted : BOOLEAN, term : Terms]
    BY DEF IInv, TypeOK, Terms, VoteGranted, ReplyTerm
  <2>a. election' = [election EXCEPT ![n] = [election[n] EXCEPT !.reply = r]]
    BY <1>3 DEF IInv, PeerVotes, TypeOK
  <2>b. granted \subseteq granted' /\ (r.vote_granted => <<p, election[n].term, n>> \in granted')
    BY <1>3 DEF PeerVotes
  <2>1. TypeOK'
    <3>1. granted' \subseteq Coordinators \X Terms \X Coordinators
      BY <1>3 DEF IInv, PeerVotes, TypeOK
    <3> QED  BY <1>3, <2>0, <2>a, <3>1 DEF IInv, PeerVotes, TypeOK
  <2>2. TermSound(n)' /\ LeaderSound(n)' /\ VotesSound(n)'
    <3>1. election'[n] = [election[n] EXCEPT !.reply = r]
      BY <2>a DEF IInv, TypeOK
    <3> HIDE DEF r
    <3>2. r.from = p /\ election[n].at = "asking"
      BY <1>3 DEF r, PeerVotes
    <3> QED  BY <1>3, <2>b, <3>1, <3>2
             DEF IInv, PeerVotes, TypeOK, TermSound, LeaderSound, VotesSound, Won
  <2>3. ASSUME NEW m \in Coordinators, m # n
        PROVE  TermSound(m)' /\ LeaderSound(m)' /\ VotesSound(m)'
    <3>1. state' = [state EXCEPT ![n] = state[n]] /\ term' = [term EXCEPT ![n] = term[n]]
      BY <1>3 DEF IInv, PeerVotes, TypeOK
    <3> QED  BY <2>3, <2>a, <2>b, <3>1, OthersSound
  <2> QED  BY <2>1, <2>2, <2>3 DEF IInv
<1>4. ASSUME NEW n \in Coordinators, NEW p \in Coordinators, VoteRequestFails(n, p)
      PROVE  IInv'
  <2>a. election' = [election EXCEPT ![n] =
                       [election[n] EXCEPT !.asked = @ \cup {p}, !.reply = NoReply]]
    BY <1>4 DEF IInv, VoteRequestFails, TypeOK
  <2>1. TypeOK'
    BY <1>4, <2>a DEF IInv, VoteRequestFails, TypeOK, NoReply, Terms
  <2>2. TermSound(n)' /\ LeaderSound(n)' /\ VotesSound(n)'
    <3>1. /\ election'[n].at = "asking" /\ election'[n].reply = NoReply
          /\ election'[n].term = election[n].term /\ election'[n].votes = election[n].votes
          /\ UNCHANGED <<state, term, granted>>
      BY <1>4, <2>a DEF IInv, VoteRequestFails, TypeOK
    <3>2. election[n].at = "asking"
      BY <1>4 DEF VoteRequestFails
    <3> QED  BY <3>1, <3>2 DEF IInv, TermSound, LeaderSound, VotesSound
  <2>3. ASSUME NEW m \in Coordinators, m # n
        PROVE  TermSound(m)' /\ LeaderSound(m)' /\ VotesSound(m)'
    <3>1. /\ state' = [state EXCEPT ![n] = state[n]] /\ term' = [term EXCEPT ![n] = term[n]]
          /\ granted \subseteq granted'
      BY <1>4 DEF IInv, VoteRequestFails, TypeOK
    <3> QED  BY <2>3, <2>a, <3>1, OthersSound
  <2> QED  BY <2>1, <2>2, <2>3 DEF IInv
<1>5. ASSUME NEW n \in Coordinators, ReceiveVote(n)
      PROVE  IInv'
  <2> DEFINE e == election[n]
             f == [e EXCEPT !.asked = @ \cup {e.reply.from},
                            !.votes = CountVote(@, e.reply),
                            !.reply = NoReply]
             t == IF Outdated(n) THEN e.reply.term ELSE term[n]
             s == IF Outdated(n) THEN "Follower" ELSE state[n]
  <2>a. election' = [election EXCEPT ![n] = f]
    BY <1>5 DEF ReceiveVote
  <2>b. state' = [state EXCEPT ![n] = s] /\ term' = [term EXCEPT ![n] = t]
    BY <1>5 DEF IInv, ReceiveVote, TypeOK
  <2>c. e.reply.from \in Coordinators /\ e.at = "asking" /\ e.term <= term[n]
    BY <1>5 DEF IInv, ReceiveVote, TermSound
  <2>d. e \in [at : {"none", "candidate", "asking"}, term : Terms,
               asked : SUBSET Coordinators, votes : SUBSET Coordinators,
               reply : [from : Coordinators \cup {"none"}, vote_granted : BOOLEAN,
                        term : Terms]]
    BY DEF IInv, TypeOK
  <2>e. /\ t \in Terms /\ e.term <= t
        /\ s \in RaftState /\ s # "Leader"
    BY <2>c, <2>d DEF IInv, TypeOK, Terms, RaftState, Outdated, LeaderSound
  <2>f. CountVote(e.votes, e.reply) \subseteq Coordinators
    BY <2>c, <2>d DEF CountVote
  <2>1. TypeOK'
    <3>1. f \in [at : {"none", "candidate", "asking"}, term : Terms,
               asked : SUBSET Coordinators, votes : SUBSET Coordinators,
               reply : [from : Coordinators \cup {"none"}, vote_granted : BOOLEAN,
                        term : Terms]]
      <4>1. NoReply \in [from : Coordinators \cup {"none"}, vote_granted : BOOLEAN,
                          term : Terms]
        BY DEF NoReply, Terms
      <4> HIDE DEF e
      <4> QED  BY <2>c, <2>d, <2>f, <4>1
    <3> HIDE DEF e, f, s, t
    <3> QED  BY <1>5, <2>a, <2>b, <2>e, <3>1 DEF IInv, ReceiveVote, TypeOK
  <2>2. TermSound(n)' /\ LeaderSound(n)' /\ VotesSound(n)'
    <3>1. election'[n] = f /\ term'[n] = t /\ state'[n] = s /\ granted' = granted
      BY <1>5, <2>a, <2>b DEF IInv, TypeOK, ReceiveVote
    <3>2. /\ f.at = "asking" /\ f.term = e.term /\ f.reply = NoReply
          /\ f.votes = CountVote(e.votes, e.reply)
      BY <2>c, <2>d
    <3>3. \A v \in f.votes : <<v, f.term, n>> \in granted
      <4>1. /\ \A v \in e.votes : <<v, e.term, n>> \in granted
            /\ e.reply.vote_granted => <<e.reply.from, e.term, n>> \in granted
        BY <1>5 DEF IInv, VotesSound, ReceiveVote
      <4>2. \A v \in f.votes : v \in e.votes \/ (e.reply.vote_granted /\ v = e.reply.from)
        BY <3>2 DEF CountVote
      <4> HIDE DEF e, f
      <4> QED  BY <3>2, <4>1, <4>2
    <3> HIDE DEF e, f, s, t
    <3> QED  BY <2>e, <3>1, <3>2, <3>3
             DEF TermSound, LeaderSound, VotesSound
  <2>3. ASSUME NEW m \in Coordinators, m # n
        PROVE  TermSound(m)' /\ LeaderSound(m)' /\ VotesSound(m)'
    <3>1. granted \subseteq granted'
      BY <1>5 DEF ReceiveVote
    <3> HIDE DEF e, f, s, t
    <3> QED  BY <2>3, <2>a, <2>b, <3>1, OthersSound
  <2> QED  BY <2>1, <2>2, <2>3 DEF IInv
<1>6. ASSUME NEW n \in Coordinators, ConcludeElection(n)
      PROVE  IInv'
  <2>a. election' = [election EXCEPT ![n] = [election[n] EXCEPT !.at = "none"]]
    BY <1>6 DEF IInv, ConcludeElection, TypeOK
  <2>1. TypeOK'
    BY <1>6, <2>a DEF IInv, ConcludeElection, TypeOK, RaftState
  <2>2. TermSound(n)' /\ LeaderSound(n)' /\ VotesSound(n)'
    BY <1>6, <2>a DEF IInv, ConcludeElection, TypeOK, TermSound, LeaderSound,
                      VotesSound, Won
  <2>3. ASSUME NEW m \in Coordinators, m # n
        PROVE  TermSound(m)' /\ LeaderSound(m)' /\ VotesSound(m)'
    <3> DEFINE s == IF Won(n) THEN "Leader" ELSE "Follower"
    <3>1. /\ term' = [term EXCEPT ![n] = term[n]] /\ granted \subseteq granted'
          /\ state' = [state EXCEPT ![n] = s]
      BY <1>6 DEF IInv, ConcludeElection, TypeOK
    <3> HIDE DEF s
    <3> QED  BY <2>3, <2>a, <3>1, OthersSound
  <2> QED  BY <2>1, <2>2, <2>3 DEF IInv
<1>7. ASSUME NEW n \in Coordinators, ReplayBegin(n) \/ ReplayEnd(n)
      PROVE  IInv'
  <2>1. TypeOK'
    BY <1>7 DEF IInv, ReplayBegin, ReplayEnd, TypeOK
  <2> QED  BY <1>7, <2>1, Untouched DEF ReplayBegin, ReplayEnd
<1>8. ASSUME NEW n \in Coordinators, Restart(n)
      PROVE  IInv'
  <2>a. /\ state' = [state EXCEPT ![n] = "Follower"] /\ term' = [term EXCEPT ![n] = 0]
        /\ election' = [election EXCEPT ![n] = NoElection]
        /\ granted' = granted /\ replaying' = replaying \ {n}
        /\ restarts < MaxRestarts /\ restarts' = restarts + 1
    BY <1>8 DEF Restart
  <2>1. TypeOK'
    <3>1. /\ state' \in [Coordinators -> RaftState] /\ term' \in [Coordinators -> Terms]
          /\ replaying' \subseteq Coordinators
      BY <2>a DEF IInv, TypeOK, RaftState, Terms
    <3>2. NoElection \in [at : {"none", "candidate", "asking"}, term : Terms,
                          asked : SUBSET Coordinators, votes : SUBSET Coordinators,
                          reply : [from : Coordinators \cup {"none"}, vote_granted : BOOLEAN,
                                   term : Terms]]
      BY DEF NoElection, NoReply, Terms
    <3>3. restarts' \in 0..MaxRestarts
      BY <2>a DEF IInv, TypeOK
    <3> HIDE DEF NoElection
    <3> QED  BY <2>a, <3>1, <3>2, <3>3 DEF IInv, TypeOK
  <2>2. TermSound(n)' /\ LeaderSound(n)' /\ VotesSound(n)'
    <3>1. state'[n] = "Follower" /\ term'[n] = 0 /\ election'[n] = NoElection
      BY <2>a DEF IInv, TypeOK
    <3> QED  BY <3>1 DEF TermSound, LeaderSound, VotesSound, NoElection
  <2>3. ASSUME NEW m \in Coordinators, m # n
        PROVE  TermSound(m)' /\ LeaderSound(m)' /\ VotesSound(m)'
    <3>1. granted \subseteq granted'
      BY <2>a
    <3> QED  BY <2>3, <2>a, <3>1, OthersSound
  <2> QED  BY <2>1, <2>2, <2>3 DEF IInv
<1>9. CASE UNCHANGED vars
  <2>1. TypeOK'
    BY <1>9 DEF IInv, TypeOK, vars
  <2> QED  BY <1>9, <2>1, Untouched DEF vars
<1> QED  BY <1>1, <1>2, <1>3, <1>4, <1>5, <1>6, <1>7, <1>8, <1>9 DEF Next

(* The invariant holds in every reachable state.                           *)
THEOREM Invariance == Spec => []IInv
BY InitInv, NextInv, PTL DEF Spec

(* The election's variables keep their types; in particular no adopted     *)
(* term is one nobody ever stood in.                                       *)
THEOREM TypeCorrect == Spec => []TypeOK
<1>1. IInv => TypeOK
  BY DEF IInv
<1> QED  BY <1>1, Invariance, PTL

-----------------------------------------------------------------------------
(* Two sets of votes that both reach `majority` have a member in common.   *)
LEMMA MajoritiesMeet ==
    ASSUME NEW A, NEW B, A \subseteq Coordinators, B \subseteq Coordinators,
           Cardinality(A) >= Majority, Cardinality(B) >= Majority
    PROVE  A \cap B # {}
<1>1. /\ Cardinality(Coordinators) \in Nat
      /\ Cardinality(A) \in Nat /\ Cardinality(B) \in Nat
  BY ElectionAssumption, FS_Subset, FS_CardinalityType
<1>2. Cardinality(A) + Cardinality(B) > Cardinality(Coordinators)
  BY <1>1 DEF Majority
<1> QED  BY <1>2, ElectionAssumption, FS_MajoritiesIntersect

(* start_election: any two leaders, of whatever terms, were voted for by a *)
(* common coordinator.                                                     *)
THEOREM LeadersShare == Spec => []LeadersShareAVoter
<1>1. IInv => LeadersShareAVoter
  <2> SUFFICES ASSUME IInv, NEW m \in Coordinators, NEW n \in Coordinators,
                      state[m] = "Leader", state[n] = "Leader"
               PROVE  election[m].votes \cap election[n].votes # {}
    BY DEF LeadersShareAVoter
  <2>1. /\ election[m].votes \subseteq Coordinators
        /\ election[n].votes \subseteq Coordinators
    BY DEF IInv, TypeOK
  <2>2. /\ Cardinality(election[m].votes) >= Majority
        /\ Cardinality(election[n].votes) >= Majority
    BY DEF IInv, LeaderSound, Won
  <2> QED  BY <2>1, <2>2, MajoritiesMeet
<1> QED  BY <1>1, Invariance, PTL

(* start_election counts only votes that handle_vote_request granted to    *)
(* this candidate for this very term.                                      *)
THEOREM VotesGenuine == Spec => []LeaderVotesGenuine
<1>1. IInv => LeaderVotesGenuine
  BY DEF IInv, LeaderVotesGenuine, VotesSound
<1> QED  BY <1>1, Invariance, PTL

(* While its process lives, a coordinator never stands twice in one term,  *)
(* although request_vote_from_peer may lower its term again.  Nothing is   *)
(* said of two lives: Restart forgets the term and the elections.          *)
THEOREM ElectionsAdvance == Spec => ElectionTermsIncrease
<1>1. IInv /\ [Next]_vars =>
        [\A n \in Coordinators : election[n].at = "candidate" /\ election'[n].at = "asking"
                                   => election'[n].term > election[n].term]_vars
  <2> SUFFICES ASSUME IInv, Next, NEW n \in Coordinators,
                      election[n].at = "candidate", election'[n].at = "asking"
               PROVE  election'[n].term > election[n].term
    OBVIOUS
  <2>1. election[n].term \in Nat /\ term[n] \in Nat /\ election[n].term <= term[n]
    BY DEF IInv, TypeOK, Terms, TermSound
  <2>2. ~ \E m \in Coordinators : Restart(m)
    <3>1. \A m \in Coordinators : Restart(m) => election'[n] \in {election[n], NoElection}
      BY DEF IInv, TypeOK, Restart
    <3>2. NoElection.at = "none"
      BY DEF NoElection
    <3> QED  BY <3>1, <3>2
  <2>3. IncrementTerm(n)
    BY <2>2 DEF IInv, TypeOK, Next, BecomeCandidate, IncrementTerm, PeerVotes, VoteRequestFails,
                ReceiveVote, ConcludeElection, ReplayBegin, ReplayEnd
  <2> QED  BY <2>1, <2>3 DEF IInv, TypeOK, IncrementTerm, NewTerm
<1> QED  BY <1>1, Invariance, PTL DEF Spec, ElectionTermsIncrease
=============================================================================
