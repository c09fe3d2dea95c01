----------------------------- MODULE RaftProofs -----------------------------
(***************************************************************************)
(* Election safety for every number of nodes, terms and messages, although a *)
(* node may vote twice in a term.                                           *)
(*                                                                          *)
(* A node forgets its vote in its own term only when it hears from a leader  *)
(* of that term.  So until a term has a leader its votes are unique, and     *)
(* from then on a majority of nodes stands by that leader: a voter follows   *)
(* it, a node that only follows keeps its vote, and the leader itself gets   *)
(* no AppendEntries of its own.                                             *)
(***************************************************************************)
EXTENDS Raft, SequenceFacts

Granted(t, v, c) ==
    [type |-> "VoteGranted", term |-> t, from |-> v, to |-> c] \in votes

HasLeader(t) == \E l \in Server: <<t, l>> \in leaders

(* What the argument needs to know of the types.                             *)
ElectionTypes ==
    /\ current_term \in [Server -> Nat]
    /\ voted_for \in [Server -> Server \union {Nil}]
    /\ state \in [Server -> NodeState]
    /\ \A m \in votes: m.term \in Nat /\ m.from \in Server
    /\ \A m \in appends: m.term \in Nat /\ m.from \in Server /\ m.to \in Server
    /\ leaders \subseteq Nat \X Server

(* Only a follower may have another vote than its own.                       *)
CandidateVotesForItself ==
    \A s \in Server: state[s] # "Follower" => voted_for[s] = s

LeadersAreKnown ==
    \A s \in Server: state[s] = "Leader" => <<current_term[s], s>> \in leaders

AppendsAreLeaders ==
    \A m \in appends: <<m.term, m.from>> \in leaders /\ m.from # m.to

VotesAreNotAhead ==
    \A v, c \in Server: \A t \in Nat: Granted(t, v, c) => t <= current_term[v]

(* In a term without a leader a node has voted at most once, and stands by   *)
(* its vote while it is in that term.                                        *)
VotesAreUnique ==
    \A t \in Nat: \A v, c \in Server: ~HasLeader(t) /\ Granted(t, v, c) =>
        /\ current_term[v] = t => voted_for[v] = c
        /\ \A d \in Server: Granted(t, v, d) => d = c

(* A node that stands by l in term t has voted for nobody else in it.        *)
StandsBy(q, t, l) ==
    /\ current_term[q] > t \/ (current_term[q] = t /\ voted_for[q] = l)
    /\ \A c \in Server: Granted(t, q, c) => c = l

LeadersHaveMajorities ==
    \A t \in Nat: \A l \in Server: <<t, l>> \in leaders =>
        \E Q \in Majority: \A q \in Q: StandsBy(q, t, l)

OneLeader ==
    \A t \in Nat: \A a, b \in Server:
        <<t, a>> \in leaders /\ <<t, b>> \in leaders => a = b

ElectionInv ==
    /\ ElectionTypes
    /\ CandidateVotesForItself
    /\ LeadersAreKnown
    /\ AppendsAreLeaders
    /\ VotesAreNotAhead
    /\ VotesAreUnique
    /\ LeadersHaveMajorities
    /\ OneLeader

----------------------------------------------------------------------------
(* Two sets that are both more than half of the cluster share a node.        *)
LEMMA MajoritiesMeet ==
    ASSUME NEW Q \in Majority, NEW R \in Majority
    PROVE  \E q \in Server: q \in Q /\ q \in R
<1>1. IsFiniteSet(Server) /\ Q \subseteq Server /\ R \subseteq Server
  BY RaftAssumption DEF Majority
<1>2. /\ Cardinality(Server) \in Nat /\ Cardinality(Q) \in Nat /\ Cardinality(R) \in Nat
  BY <1>1, FS_CardinalityType, FS_Subset
<1>3. /\ Cardinality(Q) >= Cardinality(Server) \div 2 + 1
      /\ Cardinality(R) >= Cardinality(Server) \div 2 + 1
  BY DEF Majority
<1>4. Cardinality(Q) + Cardinality(R) > Cardinality(Server)
  BY <1>2, <1>3
<1>5. Q \cap R # {}
  BY <1>1, <1>4, FS_MajoritiesIntersect
<1> QED BY <1>1, <1>5

(* Before the first election nobody leads and nobody has voted.              *)
LEMMA ElectionInit == Init => ElectionInv
BY DEF Init, ElectionInv, ElectionTypes, NodeState, CandidateVotesForItself,
       LeadersAreKnown, AppendsAreLeaders, VotesAreNotAhead, VotesAreUnique,
       Granted, LeadersHaveMajorities, OneLeader

(* A new candidate votes for itself in a term it has never voted in.         *)
LEMMA StartElectionStep ==
    ASSUME ElectionInv, NEW s \in Server, StartElection(s)
    PROVE  ElectionInv'
<1>1. /\ current_term' = [current_term EXCEPT ![s] = @ + 1]
      /\ voted_for' = [voted_for EXCEPT ![s] = s]
      /\ state' = [state EXCEPT ![s] = "Candidate"]
      /\ appends' = appends /\ leaders' = leaders
  BY DEF StartElection
<1>2. \A t, v, c: Granted(t, v, c)' <=> Granted(t, v, c)
  BY DEF StartElection, Granted
<1>3. ElectionTypes'
  BY <1>1 DEF ElectionInv, ElectionTypes, NodeState, StartElection
<1>4. CandidateVotesForItself' /\ LeadersAreKnown'
  BY <1>1 DEF ElectionInv, ElectionTypes, CandidateVotesForItself, LeadersAreKnown
<1>5. AppendsAreLeaders' /\ OneLeader'
  BY <1>1 DEF ElectionInv, AppendsAreLeaders, OneLeader
<1>6. /\ current_term'[s] = current_term[s] + 1
      /\ \A v \in Server \ {s}: current_term'[v] = current_term[v] /\ voted_for'[v] = voted_for[v]
      /\ \A v \in Server: current_term[v] \in Nat
  BY <1>1 DEF ElectionInv, ElectionTypes
<1>7. VotesAreNotAhead'
  BY <1>2, <1>6 DEF ElectionInv, VotesAreNotAhead
<1>8. VotesAreUnique'
  <2>1. \A t, c: Granted(t, s, c) /\ t \in Nat /\ c \in Server => t # current_term'[s]
    BY <1>6 DEF ElectionInv, VotesAreNotAhead
  <2> QED BY <1>1, <1>2, <1>6, <2>1 DEF ElectionInv, VotesAreUnique, HasLeader
<1>9. \A q \in Server: \A t \in Nat: \A l \in Server: StandsBy(q, t, l) => StandsBy(q, t, l)'
  BY <1>2, <1>6 DEF StandsBy
<1>10. LeadersHaveMajorities'
  BY <1>1, <1>9 DEF ElectionInv, LeadersHaveMajorities, Majority
<1> QED BY <1>3, <1>4, <1>5, <1>7, <1>8, <1>10 DEF ElectionInv

(* Steps that leave terms, votes and leadership alone.                       *)
LEMMA OtherStep ==
    ASSUME ElectionInv, UNCHANGED <<current_term, voted_for, state, votes, leaders>>,
           \A m \in appends' \ appends:
              /\ m.term \in Nat /\ m.from \in Server /\ m.to \in Server
              /\ <<m.term, m.from>> \in leaders /\ m.from # m.to
    PROVE  ElectionInv'
<1>1. ElectionTypes' /\ AppendsAreLeaders'
  BY DEF ElectionInv, ElectionTypes, AppendsAreLeaders
<1>2. CandidateVotesForItself' /\ LeadersAreKnown' /\ VotesAreNotAhead' /\ OneLeader'
  BY DEF ElectionInv, CandidateVotesForItself, LeadersAreKnown, VotesAreNotAhead,
         OneLeader, Granted
<1>3. VotesAreUnique'
  BY DEF ElectionInv, VotesAreUnique, HasLeader, Granted
<1>4. LeadersHaveMajorities'
  BY DEF ElectionInv, LeadersHaveMajorities, StandsBy, Majority, Granted
<1> QED BY <1>1, <1>2, <1>3, <1>4 DEF ElectionInv

(* In one term a node votes once, unless it stepped down in between.         *)
LEMMA RequestVoteStep ==
    ASSUME ElectionInv, NEW s \in Server, NEW m \in votes, HandleRequestVote(s, m)
    PROVE  ElectionInv'
<1> DEFINE newer == m.term > current_term[s]
           vote == IF newer THEN Nil ELSE voted_for[s]
           grant == CanVote(vote, m) /\ UpToDate(s, m)
<1>1. /\ m.from # s /\ m.from \in Server /\ m.term \in Nat /\ m.term >= current_term[s]
      /\ current_term[s] \in Nat
  BY DEF HandleRequestVote, ElectionInv, ElectionTypes
<1>2. /\ current_term' = [current_term EXCEPT ![s] = m.term]
      /\ state' = [state EXCEPT ![s] = IF newer THEN "Follower" ELSE @]
      /\ voted_for' = [voted_for EXCEPT ![s] = IF grant THEN m.from ELSE vote]
      /\ votes' = IF grant
                  THEN votes \union {[type |-> "VoteGranted", term |-> m.term,
                                     from |-> s, to |-> m.from]}
                  ELSE votes
      /\ appends' = appends /\ leaders' = leaders
  BY DEF HandleRequestVote
<1>3. /\ current_term'[s] = m.term
      /\ voted_for'[s] = IF grant THEN m.from ELSE vote
      /\ state'[s] = IF newer THEN "Follower" ELSE state[s]
      /\ \A v \in Server \ {s}: /\ current_term'[v] = current_term[v]
                                /\ voted_for'[v] = voted_for[v]
                                /\ state'[v] = state[v]
  BY <1>2 DEF ElectionInv, ElectionTypes
<1>4. grant => vote \in {Nil, m.from}
  BY DEF CanVote
<1>5. Nil \notin Server
  BY RaftAssumption
<1> HIDE DEF grant
<1>6. \A t, v, c: Granted(t, v, c)' <=>
                    \/ Granted(t, v, c)
                    \/ grant /\ t = m.term /\ v = s /\ c = m.from
  BY <1>2 DEF Granted
<1>7. ElectionTypes'
  <2>1. current_term' \in [Server -> Nat]
    BY <1>1, <1>2 DEF ElectionInv, ElectionTypes
  <2>2. voted_for' \in [Server -> Server \union {Nil}]
    BY <1>1, <1>2 DEF ElectionInv, ElectionTypes
  <2>3. state' \in [Server -> NodeState]
    BY <1>2 DEF ElectionInv, ElectionTypes, NodeState
  <2>4. \A n \in votes': n.term \in Nat /\ n.from \in Server
    BY <1>1, <1>2 DEF ElectionInv, ElectionTypes
  <2> QED BY <1>2, <2>1, <2>2, <2>3, <2>4 DEF ElectionInv, ElectionTypes
<1>8. CandidateVotesForItself'
  <2>1. state'[s] # "Follower" => voted_for'[s] = s
    <3>1. CASE newer
      BY <1>3, <3>1
    <3>2. CASE ~newer /\ state[s] # "Follower"
      <4>1. voted_for[s] = s
        BY <3>2 DEF ElectionInv, CandidateVotesForItself
      <4>2. ~grant
        BY <1>1, <1>4, <1>5, <3>2, <4>1
      <4> QED BY <1>3, <3>2, <4>1, <4>2
    <3> QED BY <1>3, <3>1, <3>2
  <2> QED BY <1>3, <2>1 DEF ElectionInv, CandidateVotesForItself
<1>9. LeadersAreKnown'
  <2>1. state'[s] = "Leader" => current_term'[s] = current_term[s] /\ state[s] = "Leader"
    BY <1>1, <1>3
  <2> QED BY <1>2, <1>3, <2>1 DEF ElectionInv, LeadersAreKnown
<1>10. AppendsAreLeaders' /\ OneLeader'
  BY <1>2 DEF ElectionInv, AppendsAreLeaders, OneLeader
<1>11. VotesAreNotAhead'
  BY <1>1, <1>3, <1>6 DEF ElectionInv, VotesAreNotAhead, ElectionTypes
<1>12. VotesAreUnique'
  <2> SUFFICES ASSUME NEW t \in Nat, NEW v \in Server, NEW c \in Server,
                      ~HasLeader(t), Granted(t, v, c)'
               PROVE  /\ current_term'[v] = t => voted_for'[v] = c
                      /\ \A d \in Server: Granted(t, v, d)' => d = c
    BY <1>2 DEF VotesAreUnique, HasLeader
  <2>1. CASE v # s
    BY <1>3, <1>6, <2>1 DEF ElectionInv, VotesAreUnique
  <2>2. CASE v = s /\ t # m.term
    BY <1>3, <1>6, <2>2 DEF ElectionInv, VotesAreUnique
  <2>3. CASE v = s /\ t = m.term /\ newer
    <3>1. \A d \in Server: ~Granted(t, s, d)
      BY <1>1, <2>3 DEF ElectionInv, VotesAreNotAhead
    <3> QED BY <1>3, <1>6, <2>3, <3>1
  <2>4. CASE v = s /\ t = m.term /\ ~newer
    <3>1. current_term[s] = t
      BY <1>1, <2>4
    <3>2. \A d \in Server: Granted(t, s, d) => voted_for[s] = d
      BY <2>4, <3>1 DEF ElectionInv, VotesAreUnique
    <3>3. \A d \in Server: grant /\ Granted(t, s, d) => d = m.from
      BY <1>4, <1>5, <2>4, <3>2
    <3>4. \A d \in Server: Granted(t, s, d) => voted_for'[s] = d
      BY <1>3, <2>4, <3>2, <3>3
    <3>5. grant => voted_for'[s] = m.from
      BY <1>3
    <3> QED BY <1>6, <2>4, <3>4, <3>5
  <2> QED BY <2>1, <2>2, <2>3, <2>4
<1>13. ASSUME NEW q \in Server, NEW t \in Nat, NEW l \in Server, StandsBy(q, t, l)
       PROVE  StandsBy(q, t, l)'
  <2>1. CASE q # s
    BY <1>3, <1>6, <1>13, <2>1 DEF StandsBy
  <2>2. CASE q = s /\ current_term[s] > t
    BY <1>1, <1>3, <1>6, <1>13, <2>2 DEF StandsBy
  <2>3. CASE q = s /\ current_term[s] = t /\ voted_for[s] = l /\ m.term = t
    <3>1. ~newer
      BY <1>1, <2>3
    <3>2. grant => m.from = l
      BY <1>4, <1>5, <2>3, <3>1
    <3> QED BY <1>3, <1>6, <1>13, <2>3, <3>1, <3>2 DEF StandsBy
  <2>4. CASE q = s /\ current_term[s] = t /\ voted_for[s] = l /\ m.term # t
    BY <1>1, <1>3, <1>6, <1>13, <2>4 DEF StandsBy
  <2> QED BY <1>13, <2>1, <2>2, <2>3, <2>4 DEF StandsBy
<1>14. LeadersHaveMajorities'
  BY <1>2, <1>13 DEF ElectionInv, LeadersHaveMajorities, Majority
<1> QED BY <1>7, <1>8, <1>9, <1>10, <1>11, <1>12, <1>14 DEF ElectionInv

(* The new leader's majority meets that of any other leader of the term.     *)
LEMMA PromoteStep ==
    ASSUME ElectionInv, NEW s \in Server, PromoteToLeader(s)
    PROVE  ElectionInv'
<1> DEFINE t == current_term[s]
<1>1. /\ state[s] = "Candidate"
      /\ Voters(s) \in Majority
      /\ state' = [state EXCEPT ![s] = "Leader"]
      /\ leaders' = leaders \union {<<t, s>>}
      /\ UNCHANGED <<current_term, voted_for, votes, appends>>
  BY DEF PromoteToLeader
<1>2. t \in Nat /\ voted_for[s] = s
  BY <1>1 DEF ElectionInv, ElectionTypes, CandidateVotesForItself
<1>3. ASSUME NEW l \in Server, <<t, l>> \in leaders PROVE l = s
  <2>1. PICK Q \in Majority: \A q \in Q: StandsBy(q, t, l)
    BY <1>2, <1>3 DEF ElectionInv, LeadersHaveMajorities
  <2>2. PICK q \in Server: q \in Q /\ q \in Voters(s)
    BY <1>1, <2>1, MajoritiesMeet
  <2>3. StandsBy(q, t, l)
    BY <2>1, <2>2
  <2>4. CASE q = s
    BY <1>2, <2>3, <2>4 DEF StandsBy
  <2>5. CASE q # s
    <3>1. Granted(t, q, s)
      BY <2>2, <2>5 DEF Voters, Granted
    <3> QED BY <2>3, <3>1 DEF StandsBy
  <2> QED BY <2>4, <2>5
<1>4. OneLeader'
  BY <1>1, <1>3 DEF ElectionInv, OneLeader
<1>5. ASSUME NEW q \in Server, NEW u \in Nat, NEW l \in Server
      PROVE  StandsBy(q, u, l) => StandsBy(q, u, l)'
  BY <1>1 DEF StandsBy, Granted
<1>6. ASSUME ~HasLeader(t), NEW q \in Voters(s) PROVE StandsBy(q, t, s)'
  <2>1. q \in Server
    BY DEF Voters
  <2>2. CASE q = s
    BY <1>1, <1>2, <1>6, <2>2 DEF ElectionInv, VotesAreUnique, StandsBy, Granted
  <2>3. CASE q # s
    <3>1. Granted(t, q, s)
      BY <2>3 DEF Voters, Granted
    <3>2. /\ current_term[q] = t => voted_for[q] = s
          /\ \A d \in Server: Granted(t, q, d) => d = s
      BY <1>2, <1>6, <2>1, <3>1 DEF ElectionInv, VotesAreUnique
    <3>3. t <= current_term[q] /\ current_term[q] \in Nat
      BY <1>2, <2>1, <3>1 DEF ElectionInv, VotesAreNotAhead, ElectionTypes
    <3> QED BY <1>1, <1>2, <3>2, <3>3 DEF StandsBy, Granted
  <2> QED BY <2>2, <2>3
<1>7. LeadersHaveMajorities'
  <2> SUFFICES ASSUME NEW u \in Nat, NEW l \in Server, <<u, l>> \in leaders'
               PROVE  \E Q \in Majority: \A q \in Q: StandsBy(q, u, l)'
    BY DEF LeadersHaveMajorities, Majority
  <2>1. CASE <<u, l>> \in leaders
    BY <1>5, <2>1 DEF ElectionInv, LeadersHaveMajorities, Majority
  <2>2. CASE <<u, l>> \notin leaders
    <3>1. u = t /\ l = s
      BY <1>1, <2>2
    <3>2. ~HasLeader(t)
      BY <1>3, <2>2, <3>1 DEF HasLeader
    <3> QED BY <1>1, <1>6, <3>1, <3>2
  <2> QED BY <2>1, <2>2
<1>8. ElectionTypes'
  BY <1>1, <1>2 DEF ElectionInv, ElectionTypes, NodeState
<1>9. CandidateVotesForItself' /\ LeadersAreKnown'
  BY <1>1, <1>2 DEF ElectionInv, ElectionTypes, CandidateVotesForItself, LeadersAreKnown
<1>10. AppendsAreLeaders'
  BY <1>1 DEF ElectionInv, AppendsAreLeaders
<1>11. VotesAreNotAhead'
  BY <1>1 DEF ElectionInv, VotesAreNotAhead, Granted
<1>12. VotesAreUnique'
  BY <1>1 DEF ElectionInv, VotesAreUnique, Granted, HasLeader
<1> QED BY <1>4, <1>7, <1>8, <1>9, <1>10, <1>11, <1>12 DEF ElectionInv

(* A node that hears a leader may forget its vote but leads no more.         *)
LEMMA AppendEntriesStep ==
    ASSUME ElectionInv, NEW s \in Server, NEW m \in appends, HeardFromLeader(s, m),
           UNCHANGED <<votes, appends, leaders>>
    PROVE  ElectionInv'
<1>1. /\ m.term \in Nat /\ m.from \in Server /\ m.to = s /\ m.from # s
      /\ <<m.term, m.from>> \in leaders
      /\ m.term >= current_term[s] /\ current_term[s] \in Nat
  BY DEF HeardFromLeader, ElectionInv, ElectionTypes, AppendsAreLeaders
<1>2. /\ current_term' = [current_term EXCEPT ![s] = m.term]
      /\ state' = [state EXCEPT ![s] = "Follower"]
      /\ voted_for' = IF m.term > current_term[s] \/ state[s] # "Follower"
                      THEN [voted_for EXCEPT ![s] = Nil] ELSE voted_for
  BY DEF HeardFromLeader
<1>3. /\ current_term'[s] = m.term
      /\ state'[s] = "Follower"
      /\ m.term = current_term[s] /\ state[s] = "Follower" => voted_for'[s] = voted_for[s]
      /\ \A v \in Server \ {s}: /\ current_term'[v] = current_term[v]
                                /\ voted_for'[v] = voted_for[v]
                                /\ state'[v] = state[v]
  BY <1>1, <1>2 DEF ElectionInv, ElectionTypes
<1>4. \A t, v, c: Granted(t, v, c)' <=> Granted(t, v, c)
  BY DEF Granted
<1>5. ElectionTypes'
  BY <1>1, <1>2 DEF ElectionInv, ElectionTypes, NodeState
<1>6. CandidateVotesForItself' /\ LeadersAreKnown'
  BY <1>3 DEF ElectionInv, CandidateVotesForItself, LeadersAreKnown
<1>7. AppendsAreLeaders' /\ OneLeader'
  BY DEF ElectionInv, AppendsAreLeaders, OneLeader
<1>8. VotesAreNotAhead'
  BY <1>1, <1>3, <1>4 DEF ElectionInv, VotesAreNotAhead
<1>9. VotesAreUnique'
  <2>1. HasLeader(m.term)
    BY <1>1 DEF HasLeader
  <2> QED BY <1>3, <1>4, <2>1 DEF ElectionInv, VotesAreUnique, HasLeader
<1>10. ASSUME NEW q \in Server, NEW t \in Nat, NEW l \in Server,
              <<t, l>> \in leaders, StandsBy(q, t, l)
       PROVE  StandsBy(q, t, l)'
  <2>1. CASE q # s
    BY <1>3, <1>4, <1>10, <2>1 DEF StandsBy
  <2>2. CASE q = s /\ m.term > t
    BY <1>3, <1>4, <1>10, <2>2 DEF StandsBy
  <2>3. CASE q = s /\ ~(m.term > t)
    <3>1. m.term = t /\ current_term[s] = t /\ voted_for[s] = l
      BY <1>1, <1>10, <2>3 DEF StandsBy
    <3>2. l = m.from
      BY <1>1, <1>10, <3>1 DEF ElectionInv, OneLeader
    <3>3. state[s] = "Follower"
      BY <1>1, <3>1, <3>2 DEF ElectionInv, CandidateVotesForItself
    <3> QED BY <1>3, <1>4, <1>10, <2>3, <3>1, <3>3 DEF StandsBy
  <2> QED BY <2>1, <2>2, <2>3
<1>11. LeadersHaveMajorities'
  BY <1>10 DEF ElectionInv, LeadersHaveMajorities, Majority
<1> QED BY <1>5, <1>6, <1>7, <1>8, <1>9, <1>11 DEF ElectionInv

(* Each step keeps the invariant.                                            *)
LEMMA ElectionStep == ElectionInv /\ [Next]_vars => ElectionInv'
<1> SUFFICES ASSUME ElectionInv, [Next]_vars PROVE ElectionInv'
  OBVIOUS
<1>1. ASSUME NEW s \in Server, StartElection(s) PROVE ElectionInv'
  BY <1>1, StartElectionStep
<1>2. ASSUME NEW s \in Server, PromoteToLeader(s) PROVE ElectionInv'
  BY <1>2, PromoteStep
<1>3. ASSUME NEW s \in Server, NEW v \in Value, Propose(s, v) PROVE ElectionInv'
  BY <1>3, OtherStep DEF Propose, electionVars
<1>4. ASSUME NEW s \in Server, NEW p \in Server, Replicate(s, p) PROVE ElectionInv'
  <2>1. ASSUME NEW m \in appends' \ appends
        PROVE  m.term = current_term[s] /\ m.from = s /\ m.to = p
    BY <1>4 DEF Replicate
  <2>2. /\ <<current_term[s], s>> \in leaders /\ current_term[s] \in Nat /\ p # s
        /\ UNCHANGED <<current_term, voted_for, state, votes, leaders>>
    BY <1>4 DEF Replicate, ElectionInv, ElectionTypes, LeadersAreKnown, electionVars
  <2> QED BY <2>1, <2>2, OtherStep
<1>5. ASSUME NEW s \in Server, UpdateLeaderCommit(s) PROVE ElectionInv'
  BY <1>5, OtherStep DEF UpdateLeaderCommit, electionVars
<1>6. ASSUME NEW s \in Server, NEW m \in votes, HandleRequestVote(s, m) PROVE ElectionInv'
  BY <1>6, RequestVoteStep
<1>7. ASSUME NEW s \in Server, NEW m \in appends, AcceptEntries(s, m) PROVE ElectionInv'
  BY <1>7, AppendEntriesStep DEF AcceptEntries
<1>8. ASSUME NEW s \in Server, NEW m \in appends, RejectEntries(s, m) PROVE ElectionInv'
  BY <1>8, AppendEntriesStep DEF RejectEntries
<1>9. ASSUME NEW s \in Server, NEW m \in appends, Drop(m) PROVE ElectionInv'
  BY <1>9, OtherStep DEF Drop, electionVars
<1>10. CASE UNCHANGED vars
  BY <1>10, OtherStep DEF vars
<1> QED BY <1>1, <1>2, <1>3, <1>4, <1>5, <1>6, <1>7, <1>8, <1>9, <1>10 DEF Next

(* "At most one leader can be elected per term" (raft.py:8), as long as no    *)
(* node restarts: votes that a node casts twice never make a second leader.  *)
THEOREM OneLeaderPerTerm == Spec => []ElectionSafety
<1>1. ElectionInv => ElectionSafety
  BY DEF ElectionInv, OneLeader, ElectionSafety, Terms
<1> QED BY <1>1, ElectionInit, ElectionStep, PTL DEF Spec

----------------------------------------------------------------------------
(***************************************************************************)
(* The logs of Raft, for every number of nodes, terms, commands and messages, *)
(* whatever the driver does with heartbeats and replies.                     *)
(*                                                                          *)
(* An entry is known by its index, its term and the term of the entry before *)
(* it: its link.  A link is made once, by the leader of its term, at an index *)
(* where no other entry of that term is; from there it is only copied, into   *)
(* messages and into other logs.  So one index and one term have one link,    *)
(* wherever it is found, and two logs that agree on the term at an index      *)
(* agree on everything before it.                                           *)
(***************************************************************************)
LogLinks(l) ==
    {[index |-> i, prev |-> TermAt(l, i - 1), entry |-> l[i]] : i \in 1..Len(l)}

AppendLinks(m) ==
    {[index |-> m.prev_log_index + k,
      prev |-> IF k = 1 THEN m.prev_log_term ELSE m.entries[k - 1].term,
      entry |-> m.entries[k]] : k \in 1..Len(m.entries)}

(* The links there are, in a log or on their way.                            *)
Links == UNION ({LogLinks(log[s]) : s \in Server} \union {AppendLinks(m) : m \in appends})

LinksAreUnique ==
    \A x, y \in Links: x.index = y.index /\ x.entry.term = y.entry.term => x = y

LinksHaveLeaders == \A x \in Links: HasLeader(x.entry.term)

(* A leader has all entries of its own term, so the next one is the first at  *)
(* its index.                                                               *)
LeadersHaveTheirLinks ==
    \A s \in Server: state[s] = "Leader" =>
        \A x \in Links: x.entry.term = current_term[s] => x.index <= Len(log[s])

LinkInv == LinksAreUnique /\ LinksHaveLeaders /\ LeadersHaveTheirLinks

(* A leader leads until it leaves its term.                                  *)
LeadersMoveOn ==
    \A t \in Terms: \A l \in Server: <<t, l>> \in leaders =>
        current_term[l] > t \/ (current_term[l] = t /\ state[l] = "Leader")

(* What the driver keeps for a leader points into its log.                   *)
NextIsInLog ==
    \A s, p \in Server: state[s] = "Leader" => next_index[s][p] <= Len(log[s]) + 1

AppendsStartRight == \A m \in appends: m.prev_log_index = 0 => m.prev_log_term = 0

CommitIsApplied == \A s \in Server: commit_index[s] <= Len(applied[s])

(* The types, and that indices point where something is.                     *)
LogTypes == TypeOK /\ NextIsInLog /\ AppendsStartRight /\ CommitIsApplied

LogInv == ElectionInv /\ LogTypes /\ LeadersMoveOn /\ LinkInv

----------------------------------------------------------------------------
(* The log after an AppendEntries that matches: what the node had, or what it *)
(* had up to the first entry that is missing or of another term, and the      *)
(* entries of the message from there on.                                     *)
LEMMA MergedIs ==
    ASSUME NEW l \in Seq(LogEntry), NEW prev \in 0..Len(l), NEW entries \in Seq(LogEntry)
    PROVE  /\ Merged(l, prev, entries) \in Seq(LogEntry)
           /\ \/ /\ Merged(l, prev, entries) = l
                 /\ Len(l) >= prev + Len(entries)
                 /\ \A k \in 1..Len(entries): l[prev + k].term = entries[k].term
              \/ \E from \in 1..Len(entries):
                    /\ Len(Merged(l, prev, entries)) = prev + Len(entries)
                    /\ prev + from - 1 <= Len(l)
                    /\ prev + from > Len(l) \/ l[prev + from].term # entries[from].term
                    /\ \A i \in 1..(prev + from - 1): Merged(l, prev, entries)[i] = l[i]
                    /\ \A k \in 1..(from - 1): l[prev + k].term = entries[k].term
                    /\ \A k \in from..Len(entries): Merged(l, prev, entries)[prev + k] = entries[k]
<1> DEFINE bad == Conflicts(l, prev, entries)
           M == Merged(l, prev, entries)
<1>1. Len(l) \in Nat /\ Len(entries) \in Nat /\ prev \in Nat /\ prev <= Len(l)
  BY LenProperties
<1>2. \A k \in 1..Len(entries): k \notin bad =>
         prev + k > Len(l) \/ l[prev + k].term = entries[k].term
  BY <1>1 DEF Conflicts
<1>3. \A k \in bad: k \in 1..Len(entries) /\ prev + k <= Len(l)
                    /\ l[prev + k].term # entries[k].term
  BY DEF Conflicts
<1>4. CASE bad = {} /\ Len(l) >= prev + Len(entries)
  <2>1. M = l
    BY <1>4 DEF Merged
  <2>2. \A k \in 1..Len(entries): l[prev + k].term = entries[k].term
    BY <1>1, <1>2, <1>4
  <2> QED BY <1>4, <2>1, <2>2
<1>5. ASSUME NEW from \in 1..Len(entries), prev + from - 1 <= Len(l),
             prev + from > Len(l) \/ l[prev + from].term # entries[from].term,
             \A k \in 1..(from - 1): l[prev + k].term = entries[k].term,
             M = SubSeq(l, 1, prev + from - 1) \o SubSeq(entries, from, Len(entries))
      PROVE  /\ M \in Seq(LogEntry)
             /\ Len(M) = prev + Len(entries)
             /\ \A i \in 1..(prev + from - 1): M[i] = l[i]
             /\ \A k \in from..Len(entries): M[prev + k] = entries[k]
  <2> DEFINE n == prev + from - 1
             a == SubSeq(l, 1, n)
             b == SubSeq(entries, from, Len(entries))
  <2>1. n \in Nat /\ n <= Len(l) /\ from \in Nat \ {0} /\ from <= Len(entries) + 1
    BY <1>1, <1>5
  <2>2. a \in Seq(LogEntry) /\ Len(a) = n /\ \A i \in 1..n: a[i] = l[i]
    <3>1. /\ a \in Seq(LogEntry) /\ Len(a) = n - 1 + 1
          /\ \A i \in 1..(n - 1 + 1): a[i] = l[1 + i - 1]
      BY <1>1, <2>1, SubSeqParts
    <3>2. n - 1 + 1 = n /\ \A i \in 1..n: 1 + i - 1 = i
      BY <2>1
    <3> HIDE DEF a, n
    <3> QED BY <3>1, <3>2
  <2>3. /\ b \in Seq(LogEntry) /\ Len(b) = Len(entries) - from + 1
        /\ \A i \in 1..(Len(entries) - from + 1): b[i] = entries[from + i - 1]
    BY <1>1, <2>1, SubSeqParts
  <2> HIDE DEF a, b
  <2>4. /\ a \o b \in Seq(LogEntry) /\ Len(a \o b) = Len(a) + Len(b)
        /\ \A i \in 1..Len(a): (a \o b)[i] = a[i]
        /\ \A i \in (Len(a) + 1)..(Len(a) + Len(b)): (a \o b)[i] = b[i - Len(a)]
    <3>1. a \in Seq(LogEntry) /\ b \in Seq(LogEntry)
      BY <2>2, <2>3
    <3> QED BY <3>1, ConcatParts
  <2>5. M = a \o b
    BY <1>5 DEF a, b
  <2> HIDE DEF M
  <2>6. M \in Seq(LogEntry) /\ Len(M) = prev + Len(entries)
    <3>1. Len(a) + Len(b) = prev + Len(entries)
      BY <1>1, <2>1, <2>2, <2>3
    <3> QED BY <2>4, <2>5, <3>1
  <2>7. \A i \in 1..n: M[i] = l[i]
    BY <2>2, <2>4, <2>5
  <2>8. ASSUME NEW k \in from..Len(entries) PROVE M[prev + k] = entries[k]
    <3>1. /\ prev + k \in (Len(a) + 1)..(Len(a) + Len(b))
          /\ (prev + k) - Len(a) = k - from + 1
          /\ k - from + 1 \in 1..(Len(entries) - from + 1)
          /\ from + (k - from + 1) - 1 = k
      BY <1>1, <2>1, <2>2, <2>3
    <3>2. M[prev + k] = b[k - from + 1]
      BY <2>4, <2>5, <3>1
    <3>3. b[k - from + 1] = entries[from + (k - from + 1) - 1]
      BY <2>3, <3>1
    <3> QED BY <3>1, <3>2, <3>3
  <2> QED BY <2>6, <2>7, <2>8
<1>6. CASE bad = {} /\ ~(Len(l) >= prev + Len(entries))
  <2> DEFINE from == Len(l) - prev + 1
  <2>1. from \in 1..Len(entries) /\ prev + from - 1 = Len(l) /\ prev + from > Len(l)
    BY <1>1, <1>6
  <2>2. ASSUME NEW k \in 1..(from - 1) PROVE l[prev + k].term = entries[k].term
    <3>1. k \in 1..Len(entries) /\ ~(prev + k > Len(l))
      BY <1>1, <2>1
    <3>2. k \notin bad
      BY <1>6
    <3> QED BY <1>2, <3>1, <3>2
  <2>3. Min2(Len(l) - prev, Len(entries)) + 1 = from
    BY <1>1, <1>6 DEF Min2
  <2>4. M = SubSeq(l, 1, prev + from - 1) \o SubSeq(entries, from, Len(entries))
    BY <1>6, <2>3 DEF Merged
  <2> HIDE DEF from, M
  <2>5. prev + from - 1 <= Len(l)
    BY <1>1, <2>1
  <2>6. /\ M \in Seq(LogEntry)
        /\ Len(M) = prev + Len(entries)
        /\ \A i \in 1..(prev + from - 1): M[i] = l[i]
        /\ \A k \in from..Len(entries): M[prev + k] = entries[k]
    BY <1>5, <2>1, <2>2, <2>4, <2>5
  <2> QED BY <2>1, <2>2, <2>5, <2>6 DEF M
<1>7. CASE bad # {}
  <2> DEFINE from == CHOOSE i \in bad: \A j \in bad: i <= j
  <2>1. from \in bad /\ \A j \in bad: from <= j
    <3>1. bad \in SUBSET Nat
      BY <1>3
    <3>2. \E i \in bad: \A j \in bad: i <= j
      BY <1>7, <3>1, LeastOfSet
    <3> QED BY <3>2
  <2>2. M = SubSeq(l, 1, prev + from - 1) \o SubSeq(entries, from, Len(entries))
    BY <1>7 DEF Merged
  <2> HIDE DEF from, M
  <2>3. from \in 1..Len(entries) /\ prev + from <= Len(l)
        /\ l[prev + from].term # entries[from].term
    BY <1>3, <2>1
  <2>4. ASSUME NEW k \in 1..(from - 1) PROVE l[prev + k].term = entries[k].term
    <3>1. k \notin bad /\ k \in 1..Len(entries) /\ ~(prev + k > Len(l))
      BY <1>1, <2>1, <2>3
    <3> QED BY <1>2, <3>1
  <2>5. prev + from - 1 <= Len(l)
    BY <1>1, <2>3
  <2>6. /\ M \in Seq(LogEntry)
        /\ Len(M) = prev + Len(entries)
        /\ \A i \in 1..(prev + from - 1): M[i] = l[i]
        /\ \A k \in from..Len(entries): M[prev + k] = entries[k]
    BY <1>5, <2>2, <2>3, <2>4, <2>5
  <2> QED BY <2>3, <2>4, <2>5, <2>6 DEF M
<1> QED BY <1>4, <1>6, <1>7

(* What is cut off a log takes links away.                                   *)
LEMMA PrefixLinks ==
    ASSUME NEW l \in Seq(LogEntry), NEW n \in 0..Len(l)
    PROVE  /\ SubSeq(l, 1, n) \in Seq(LogEntry) /\ Len(SubSeq(l, 1, n)) = n
           /\ \A i \in 1..n: SubSeq(l, 1, n)[i] = l[i]
           /\ LogLinks(SubSeq(l, 1, n)) \subseteq LogLinks(l)
<1> DEFINE a == SubSeq(l, 1, n)
<1>1. Len(l) \in Nat /\ n \in Nat /\ n <= Len(l)
  BY LenProperties
<1>2. /\ a \in Seq(LogEntry) /\ Len(a) = n - 1 + 1
      /\ \A i \in 1..(n - 1 + 1): a[i] = l[1 + i - 1]
  BY <1>1, SubSeqParts
<1> HIDE DEF a
<1>3. a \in Seq(LogEntry) /\ Len(a) = n /\ \A i \in 1..n: a[i] = l[i]
  <2>1. n - 1 + 1 = n /\ \A i \in 1..n: 1 + i - 1 = i
    BY <1>1
  <2> QED BY <1>2, <2>1
<1>4. ASSUME NEW i \in 1..n
      PROVE  i \in 1..Len(l) /\ TermAt(a, i - 1) = TermAt(l, i - 1) /\ a[i] = l[i]
  <2>1. i \in 1..Len(l) /\ (i - 1 = 0 \/ i - 1 \in 1..n)
    BY <1>1
  <2> QED BY <1>3, <2>1 DEF TermAt
<1>5. LogLinks(a) \subseteq LogLinks(l)
  BY <1>3, <1>4 DEF LogLinks
<1> QED BY <1>3, <1>5 DEF a

(* An entry more is one link more.                                           *)
LEMMA LongerLinks ==
    ASSUME NEW l \in Seq(LogEntry), NEW e \in LogEntry
    PROVE  LogLinks(Append(l, e)) =
              LogLinks(l) \union {[index |-> Len(l) + 1, prev |-> TermAt(l, Len(l)), entry |-> e]}
<1> DEFINE a == Append(l, e)
           new == [index |-> Len(l) + 1, prev |-> TermAt(l, Len(l)), entry |-> e]
<1>1. /\ Len(a) = Len(l) + 1 /\ Len(l) \in Nat
      /\ \A i \in 1..Len(l): a[i] = l[i]
      /\ a[Len(l) + 1] = e
  BY AppendParts, LenProperties
<1> HIDE DEF a
<1>2. ASSUME NEW i \in 1..Len(l)
      PROVE  TermAt(a, i - 1) = TermAt(l, i - 1) /\ a[i] = l[i]
  <2>1. i - 1 = 0 \/ i - 1 \in 1..Len(l)
    BY <1>1
  <2> QED BY <1>1, <2>1 DEF TermAt
<1>3. TermAt(a, Len(l)) = TermAt(l, Len(l))
  <2>1. Len(l) = 0 \/ Len(l) \in 1..Len(l)
    BY <1>1
  <2> QED BY <1>1, <2>1 DEF TermAt
<1>4. 1..Len(a) = 1..Len(l) \union {Len(l) + 1} /\ (Len(l) + 1) - 1 = Len(l)
  BY <1>1
<1>5. LogLinks(a) \subseteq LogLinks(l) \union {new}
  BY <1>1, <1>2, <1>3, <1>4 DEF LogLinks
<1>6. LogLinks(l) \subseteq LogLinks(a)
  BY <1>1, <1>2, <1>4 DEF LogLinks
<1>7. new \in LogLinks(a)
  <2>1. new = [index |-> Len(l) + 1, prev |-> TermAt(a, (Len(l) + 1) - 1), entry |-> a[Len(l) + 1]]
    BY <1>1, <1>3, <1>4
  <2> HIDE DEF new
  <2> QED BY <1>4, <2>1 DEF LogLinks
<1> QED BY <1>5, <1>6, <1>7 DEF a

(* A message carries links of the log it is built from.                      *)
LEMMA SentLinks ==
    ASSUME NEW l \in Seq(LogEntry), NEW prev \in 0..Len(l), NEW m,
           m.prev_log_index = prev, m.prev_log_term = TermAt(l, prev),
           m.entries \in {<<>>, SubSeq(l, prev + 1, Len(l))}
    PROVE  /\ m.entries \in Seq(LogEntry)
           /\ prev + Len(m.entries) <= Len(l)
           /\ \A k \in 1..Len(m.entries): m.entries[k] = l[prev + k]
           /\ AppendLinks(m) \subseteq LogLinks(l)
<1>1. Len(l) \in Nat /\ prev \in Nat /\ prev <= Len(l)
  BY LenProperties
<1>2. CASE m.entries = <<>>
  BY <1>1, <1>2, EmptySeq DEF AppendLinks
<1>3. CASE m.entries = SubSeq(l, prev + 1, Len(l))
  <2> DEFINE b == m.entries
  <2>1. /\ b \in Seq(LogEntry) /\ Len(b) = Len(l) - (prev + 1) + 1
        /\ \A i \in 1..(Len(l) - (prev + 1) + 1): b[i] = l[(prev + 1) + i - 1]
    BY <1>1, <1>3, SubSeqParts
  <2> HIDE DEF b
  <2>2. Len(b) = Len(l) - prev /\ \A k \in 1..Len(b): b[k] = l[prev + k]
    <3>1. /\ Len(l) - (prev + 1) + 1 = Len(l) - prev
          /\ \A k \in 1..(Len(l) - prev): (prev + 1) + k - 1 = prev + k
      BY <1>1
    <3> QED BY <2>1, <3>1
  <2>3. ASSUME NEW k \in 1..Len(b)
        PROVE  /\ prev + k \in 1..Len(l) /\ b[k] = l[prev + k]
               /\ (IF k = 1 THEN m.prev_log_term ELSE b[k - 1].term) = TermAt(l, prev + k - 1)
    <3>1. prev + k \in 1..Len(l) /\ b[k] = l[prev + k]
      BY <1>1, <2>2
    <3>2. CASE k = 1
      <4>1. prev + k - 1 = prev
        BY <1>1, <3>2
      <4> QED BY <3>1, <3>2, <4>1
    <3>3. CASE k # 1
      <4>1. k - 1 \in 1..Len(b) /\ prev + (k - 1) = prev + k - 1 /\ prev + k - 1 # 0
        BY <1>1, <2>2, <3>3
      <4> QED BY <2>2, <3>1, <3>3, <4>1 DEF TermAt
    <3> QED BY <3>2, <3>3
  <2>4. AppendLinks(m) \subseteq LogLinks(l)
    <3>1. ASSUME NEW k \in 1..Len(b)
          PROVE  [index |-> prev + k,
                  prev |-> IF k = 1 THEN m.prev_log_term ELSE b[k - 1].term,
                  entry |-> b[k]] \in LogLinks(l)
      <4> PICK p : p = IF k = 1 THEN m.prev_log_term ELSE b[k - 1].term
        OBVIOUS
      <4>1. prev + k \in 1..Len(l) /\ b[k] = l[prev + k] /\ p = TermAt(l, prev + k - 1)
        BY <2>3
      <4> PICK i \in 1..Len(l) : i = prev + k
        BY <4>1
      <4>2. [index |-> i, prev |-> p, entry |-> b[k]] \in LogLinks(l)
        <5>1. b[k] = l[i] /\ p = TermAt(l, i - 1)
          BY <4>1
        <5> QED BY <5>1, Zenon DEF LogLinks
      <4> QED BY <4>2
    <3> QED BY <3>1 DEF AppendLinks, b
  <2>5. prev + Len(b) <= Len(l)
    BY <1>1, <2>2
  <2> QED BY <2>1, <2>2, <2>4, <2>5 DEF b
<1> QED BY <1>2, <1>3

(* A merged log has links of the log before and of the message.              *)
LEMMA MergedLinks ==
    ASSUME NEW l \in Seq(LogEntry), NEW m, m.prev_log_index \in 0..Len(l),
           m.prev_log_term = TermAt(l, m.prev_log_index), m.entries \in Seq(LogEntry)
    PROVE  LogLinks(Merged(l, m.prev_log_index, m.entries)) \subseteq LogLinks(l) \union AppendLinks(m)
<1> DEFINE prev == m.prev_log_index
           b == m.entries
           M == Merged(l, prev, b)
<1>1. /\ Len(l) \in Nat /\ Len(b) \in Nat /\ prev \in Nat /\ prev <= Len(l)
      /\ b \in Seq(LogEntry)
  BY LenProperties
<1>2. /\ M \in Seq(LogEntry)
      /\ \/ M = l
         \/ \E from \in 1..Len(b):
               /\ Len(M) = prev + Len(b)
               /\ prev + from - 1 <= Len(l)
               /\ \A i \in 1..(prev + from - 1): M[i] = l[i]
               /\ \A k \in 1..(from - 1): l[prev + k].term = b[k].term
               /\ \A k \in from..Len(b): M[prev + k] = b[k]
  <2>1. l \in Seq(LogEntry) /\ prev \in 0..Len(l) /\ b \in Seq(LogEntry)
    BY <1>1
  <2> HIDE DEF prev, b
  <2>2. /\ M \in Seq(LogEntry)
        /\ \/ /\ M = l
              /\ Len(l) >= prev + Len(b)
              /\ \A k \in 1..Len(b): l[prev + k].term = b[k].term
           \/ \E from \in 1..Len(b):
                 /\ Len(M) = prev + Len(b)
                 /\ prev + from - 1 <= Len(l)
                 /\ prev + from > Len(l) \/ l[prev + from].term # b[from].term
                 /\ \A i \in 1..(prev + from - 1): M[i] = l[i]
                 /\ \A k \in 1..(from - 1): l[prev + k].term = b[k].term
                 /\ \A k \in from..Len(b): M[prev + k] = b[k]
    BY <2>1, MergedIs
  <2> HIDE DEF M
  <2> QED BY <2>2
<1>3. CASE M = l
  BY <1>3
<1> HIDE DEF M
<1>4. CASE M # l
  <2>1. PICK from \in 1..Len(b):
           /\ Len(M) = prev + Len(b)
           /\ prev + from - 1 <= Len(l)
           /\ \A i \in 1..(prev + from - 1): M[i] = l[i]
           /\ \A k \in 1..(from - 1): l[prev + k].term = b[k].term
           /\ \A k \in from..Len(b): M[prev + k] = b[k]
    BY <1>2, <1>4
  <2>2. ASSUME NEW i \in 1..(prev + from - 1)
        PROVE  i \in 1..Len(l) /\ M[i] = l[i] /\ TermAt(M, i - 1) = TermAt(l, i - 1)
    <3>1. i \in 1..Len(l) /\ M[i] = l[i] /\ (i - 1 = 0 \/ i - 1 \in 1..(prev + from - 1))
      BY <1>1, <2>1
    <3> QED BY <2>1, <3>1 DEF TermAt
  <2>3. ASSUME NEW k \in from..Len(b)
        PROVE  /\ k \in 1..Len(b) /\ M[prev + k] = b[k]
               /\ TermAt(M, prev + k - 1) = IF k = 1 THEN m.prev_log_term ELSE b[k - 1].term
    <3>1. k \in 1..Len(b) /\ M[prev + k] = b[k]
      BY <2>1
    <3>2. CASE k = 1
      <4>1. from = 1 /\ prev + k - 1 = prev /\ (prev = 0 \/ prev \in 1..(prev + from - 1))
        BY <1>1, <2>3, <3>2
      <4>2. TermAt(M, prev) = TermAt(l, prev)
        BY <2>1, <4>1 DEF TermAt
      <4> QED BY <3>1, <3>2, <4>1, <4>2
    <3>3. CASE k # 1 /\ k = from
      <4>1. k - 1 \in 1..(from - 1) /\ prev + k - 1 \in 1..(prev + from - 1)
            /\ prev + (k - 1) = prev + k - 1 /\ prev + k - 1 # 0
        BY <1>1, <3>3
      <4>2. M[prev + k - 1] = l[prev + k - 1] /\ l[prev + k - 1].term = b[k - 1].term
        BY <2>1, <4>1
      <4> QED BY <3>1, <3>3, <4>1, <4>2 DEF TermAt
    <3>4. CASE k # 1 /\ k # from
      <4>1. k - 1 \in from..Len(b) /\ prev + (k - 1) = prev + k - 1 /\ prev + k - 1 # 0
        BY <1>1, <2>3, <3>4
      <4>2. M[prev + (k - 1)] = b[k - 1]
        BY <2>1, <4>1
      <4> QED BY <3>1, <3>4, <4>1, <4>2 DEF TermAt
    <3> QED BY <3>2, <3>3, <3>4
  <2>4. ASSUME NEW x \in LogLinks(M) PROVE x \in LogLinks(l) \union AppendLinks(m)
    <3>1. PICK i \in 1..Len(M) : x = [index |-> i, prev |-> TermAt(M, i - 1), entry |-> M[i]]
      BY DEF LogLinks
    <3>2. CASE i <= prev + from - 1
      <4>1. i \in 1..(prev + from - 1)
        BY <1>1, <2>1, <3>2
      <4> QED BY <2>2, <3>1, <4>1 DEF LogLinks
    <3>3. CASE ~(i <= prev + from - 1)
      <4>1. PICK k \in from..Len(b) : i = prev + k
        <5>1. i - prev \in from..Len(b) /\ i = prev + (i - prev)
          BY <1>1, <2>1, <3>3
        <5> QED BY <5>1
      <4>2. /\ k \in 1..Len(b)
            /\ x = [index |-> prev + k,
                    prev |-> IF k = 1 THEN m.prev_log_term ELSE b[k - 1].term,
                    entry |-> b[k]]
        <5>1. k \in 1..Len(b) /\ M[prev + k] = b[k]
          BY <2>3
        <5>2. TermAt(M, prev + k - 1) = IF k = 1 THEN m.prev_log_term ELSE b[k - 1].term
          BY <2>3
        <5> PICK p : p = IF k = 1 THEN m.prev_log_term ELSE b[k - 1].term
          OBVIOUS
        <5> HIDE DEF prev, b
        <5>3. x = [index |-> prev + k, prev |-> p, entry |-> b[k]]
          <6>1. p = TermAt(M, i - 1)
            <7>1. p = TermAt(M, prev + k - 1)
              BY <5>2
            <7>2. i - 1 = prev + k - 1
              BY <1>1, <3>1, <4>1, <5>1, LenProperties
            <7> QED BY <7>1, <7>2
          <6>2. M[i] = b[k] /\ i = prev + k
            BY <4>1, <5>1
          <6> QED BY <3>1, <6>1, <6>2
        <5> QED BY <5>1, <5>3
      <4> QED BY <4>2 DEF AppendLinks
    <3> QED BY <3>2, <3>3
  <2>5. LogLinks(M) \subseteq LogLinks(l) \union AppendLinks(m)
    BY <2>4
  <2> QED BY <2>5 DEF M
<1> QED BY <1>3, <1>4 DEF M

(* What a node has applied grows, by entries of its log.                     *)
LEMMA AppliedGrows ==
    ASSUME NEW s \in Server, applied[s] \in Seq(LogEntry), NEW l \in Seq(LogEntry),
           NEW commit \in Nat, commit <= Len(applied[s]) \/ commit <= Len(l)
    PROVE  /\ AppliedUpTo(s, l, commit) \in Seq(LogEntry)
           /\ Len(AppliedUpTo(s, l, commit)) = Max2(Len(applied[s]), commit)
           /\ \A i \in 1..Len(applied[s]): AppliedUpTo(s, l, commit)[i] = applied[s][i]
           /\ \A i \in (Len(applied[s]) + 1)..commit: AppliedUpTo(s, l, commit)[i] = l[i]
<1> DEFINE a == applied[s]
           r == AppliedUpTo(s, l, commit)
<1>1. Len(a) \in Nat /\ Len(l) \in Nat
  BY LenProperties
<1>2. CASE commit <= Len(a)
  <2>1. r = a /\ Max2(Len(a), commit) = Len(a) /\ (Len(a) + 1)..commit = {}
    BY <1>1, <1>2 DEF AppliedUpTo, Max2
  <2> QED BY <2>1
<1>3. CASE ~(commit <= Len(a))
  <2> DEFINE b == SubSeq(l, Len(a) + 1, commit)
  <2>1. Len(a) + 1 \in Nat \ {0} /\ Len(a) + 1 <= commit + 1 /\ commit <= Len(l)
    BY <1>1, <1>3
  <2>2. /\ b \in Seq(LogEntry) /\ Len(b) = commit - (Len(a) + 1) + 1
        /\ \A i \in 1..(commit - (Len(a) + 1) + 1): b[i] = l[(Len(a) + 1) + i - 1]
    BY <2>1, SubSeqParts
  <2>3. r = a \o b
    BY <1>3 DEF AppliedUpTo
  <2> HIDE DEF b, r, a
  <2>4. /\ a \o b \in Seq(LogEntry) /\ Len(a \o b) = Len(a) + Len(b)
        /\ \A i \in 1..Len(a): (a \o b)[i] = a[i]
        /\ \A i \in (Len(a) + 1)..(Len(a) + Len(b)): (a \o b)[i] = b[i - Len(a)]
    <3>1. a \in Seq(LogEntry) /\ b \in Seq(LogEntry)
      BY <2>2 DEF a
    <3> QED BY <3>1, ConcatParts
  <2>5. Len(a) + Len(b) = commit /\ Max2(Len(a), commit) = commit
    BY <1>1, <1>3, <2>1, <2>2 DEF Max2
  <2>6. ASSUME NEW i \in (Len(a) + 1)..commit PROVE r[i] = l[i]
    <3>1. /\ i - Len(a) \in 1..(commit - (Len(a) + 1) + 1)
          /\ (Len(a) + 1) + (i - Len(a)) - 1 = i
      BY <1>1, <2>1
    <3>2. b[i - Len(a)] = l[(Len(a) + 1) + (i - Len(a)) - 1]
      BY <2>2, <3>1
    <3>3. r[i] = b[i - Len(a)]
      BY <2>3, <2>4, <2>5
    <3> QED BY <3>1, <3>2, <3>3
  <2>7. /\ r \in Seq(LogEntry) /\ Len(r) = Max2(Len(a), commit)
        /\ \A i \in 1..Len(a): r[i] = a[i]
    BY <2>3, <2>4, <2>5
  <2> QED BY <2>6, <2>7 DEF a, r
<1> QED BY <1>2, <1>3

----------------------------------------------------------------------------
(* The term of an entry, or of none.                                         *)
LEMMA TermAtType ==
    ASSUME NEW l \in Seq(LogEntry), NEW i \in 0..Len(l)
    PROVE  TermAt(l, i) \in Terms
<1>1. CASE i = 0
  BY <1>1, RaftAssumption DEF TermAt, Terms
<1>2. CASE i # 0
  <2>1. l[i] \in LogEntry
    BY <1>2, ElementOfSeq, LenProperties
  <2> QED BY <1>2, <2>1 DEF TermAt, LogEntry
<1> QED BY <1>1, <1>2

LEMMA LogTypesInit == Init => LogTypes
<1> SUFFICES ASSUME Init PROVE LogTypes
  OBVIOUS
<1>1. 0 \in Terms /\ <<>> \in Seq(LogEntry) /\ Len(<<>>) = 0
  BY RaftAssumption, EmptySeq DEF Terms
<1>2. TypeOK
  BY <1>1 DEF Init, TypeOK, NodeState
<1>3. CommitIsApplied
  BY <1>1 DEF Init, CommitIsApplied
<1> QED BY <1>2, <1>3 DEF Init, LogTypes, NextIsInLog, AppendsStartRight

(* Each operation keeps them.                                                *)
LEMMA StartElectionTypes ==
    ASSUME LogTypes, NEW s \in Server, StartElection(s)
    PROVE  LogTypes'
<1>1. /\ current_term' = [current_term EXCEPT ![s] = @ + 1]
      /\ voted_for' = [voted_for EXCEPT ![s] = s]
      /\ state' = [state EXCEPT ![s] = "Candidate"]
      /\ votes' = votes \union
           {[type |-> "RequestVote", term |-> current_term[s] + 1, from |-> s,
             last_log_index |-> LastLogIndex(s), last_log_term |-> LastLogTerm(s)]}
      /\ UNCHANGED <<log, commit_index, applied, next_index, match_index, appends, leaders>>
      /\ current_term[s] < MaxTerm
  BY DEF StartElection, logVars, leaderVars
<1>2. current_term[s] + 1 \in Terms /\ log[s] \in Seq(LogEntry)
  BY <1>1, RaftAssumption DEF LogTypes, TypeOK, Terms
<1>3. LastLogIndex(s) \in Nat /\ LastLogTerm(s) \in Terms
  <2>1. Len(log[s]) \in Nat /\ Len(log[s]) \in 0..Len(log[s])
    BY <1>2, LenProperties
  <2> QED BY <1>2, <2>1, TermAtType DEF LastLogIndex, LastLogTerm
<1>4. TypeOK'
  <2>1. current_term' \in [Server -> Terms]
    BY <1>1, <1>2 DEF LogTypes, TypeOK
  <2>2. /\ voted_for' \in [Server -> Server \union {Nil}]
        /\ state' \in [Server -> NodeState]
    BY <1>1 DEF LogTypes, TypeOK, NodeState
  <2>3. votes' \subseteq RequestVote \union VoteGranted
    BY <1>1, <1>2, <1>3 DEF LogTypes, TypeOK, RequestVote
  <2> QED BY <1>1, <2>1, <2>2, <2>3 DEF LogTypes, TypeOK
<1>5. NextIsInLog'
  BY <1>1 DEF LogTypes, TypeOK, NextIsInLog
<1> QED BY <1>1, <1>4, <1>5 DEF LogTypes, AppendsStartRight, CommitIsApplied

LEMMA RequestVoteTypes ==
    ASSUME LogTypes, NEW s \in Server, NEW m \in votes, HandleRequestVote(s, m)
    PROVE  LogTypes'
<1> DEFINE newer == m.term > current_term[s]
           vote == IF newer THEN Nil ELSE voted_for[s]
           grant == CanVote(vote, m) /\ UpToDate(s, m)
<1>1. /\ current_term' = [current_term EXCEPT ![s] = m.term]
      /\ state' = [state EXCEPT ![s] = IF newer THEN "Follower" ELSE @]
      /\ voted_for' = [voted_for EXCEPT ![s] = IF grant THEN m.from ELSE vote]
      /\ votes' = IF grant
                  THEN votes \union {[type |-> "VoteGranted", term |-> m.term,
                                     from |-> s, to |-> m.from]}
                  ELSE votes
      /\ UNCHANGED <<log, commit_index, applied, next_index, match_index, appends, leaders>>
  BY DEF HandleRequestVote, logVars, leaderVars
<1>2. m.term \in Terms /\ m.from \in Server
  BY DEF LogTypes, TypeOK, RequestVote, VoteGranted
<1> HIDE DEF grant
<1>3. TypeOK'
  <2>1. current_term' \in [Server -> Terms]
    BY <1>1, <1>2 DEF LogTypes, TypeOK
  <2>2. voted_for' \in [Server -> Server \union {Nil}]
    BY <1>1, <1>2 DEF LogTypes, TypeOK
  <2>3. state' \in [Server -> NodeState]
    BY <1>1 DEF LogTypes, TypeOK, NodeState
  <2>4. votes' \subseteq RequestVote \union VoteGranted
    <3>1. [type |-> "VoteGranted", term |-> m.term, from |-> s, to |-> m.from] \in VoteGranted
      BY <1>2 DEF VoteGranted
    <3>2. votes \subseteq RequestVote \union VoteGranted
      BY DEF LogTypes, TypeOK
    <3> QED BY <1>1, <3>1, <3>2
  <2> QED BY <1>1, <2>1, <2>2, <2>3, <2>4 DEF LogTypes, TypeOK
<1>4. NextIsInLog'
  <2>1. \A q \in Server: state'[q] = "Leader" => state[q] = "Leader"
    BY <1>1 DEF LogTypes, TypeOK
  <2> QED BY <1>1, <2>1 DEF LogTypes, NextIsInLog
<1> QED BY <1>1, <1>3, <1>4 DEF LogTypes, AppendsStartRight, CommitIsApplied

LEMMA PromoteTypes ==
    ASSUME LogTypes, NEW s \in Server, PromoteToLeader(s)
    PROVE  LogTypes'
<1>1. /\ state' = [state EXCEPT ![s] = "Leader"]
      /\ next_index' = [next_index EXCEPT ![s] = [p \in Server |-> Len(log[s]) + 1]]
      /\ match_index' = [match_index EXCEPT ![s] = [p \in Server |-> 0]]
      /\ leaders' = leaders \union {<<current_term[s], s>>}
      /\ UNCHANGED <<current_term, voted_for, log, commit_index, applied, votes, appends>>
  BY DEF PromoteToLeader, logVars
<1>2. Len(log[s]) \in Nat
  BY LenProperties DEF LogTypes, TypeOK
<1>3. TypeOK'
  <2>1. state' \in [Server -> NodeState]
    BY <1>1 DEF LogTypes, TypeOK, NodeState
  <2>2. next_index' \in [Server -> [Server -> Nat \ {0}]]
    <3>1. [p \in Server |-> Len(log[s]) + 1] \in [Server -> Nat \ {0}]
      BY <1>2
    <3> QED BY <1>1, <3>1 DEF LogTypes, TypeOK
  <2>3. match_index' \in [Server -> [Server -> Nat]]
    BY <1>1 DEF LogTypes, TypeOK
  <2>4. leaders' \subseteq Terms \X Server
    BY <1>1 DEF LogTypes, TypeOK
  <2> QED BY <1>1, <2>1, <2>2, <2>3, <2>4 DEF LogTypes, TypeOK
<1>4. NextIsInLog'
  <2> SUFFICES ASSUME NEW q \in Server, NEW p \in Server, state'[q] = "Leader"
               PROVE  next_index'[q][p] <= Len(log[q]) + 1
    BY <1>1 DEF NextIsInLog
  <2>1. CASE q = s
    BY <1>1, <1>2, <2>1 DEF LogTypes, TypeOK
  <2>2. CASE q # s
    <3>1. state[q] = "Leader" /\ next_index'[q][p] = next_index[q][p]
      BY <1>1, <2>2 DEF LogTypes, TypeOK
    <3> QED BY <3>1 DEF LogTypes, NextIsInLog
  <2> QED BY <2>1, <2>2
<1> QED BY <1>1, <1>3, <1>4 DEF LogTypes, AppendsStartRight, CommitIsApplied

LEMMA ProposeTypes ==
    ASSUME LogTypes, NEW s \in Server, NEW v \in Value, Propose(s, v)
    PROVE  LogTypes'
<1> DEFINE e == [term |-> current_term[s], command |-> v]
<1>1. /\ log' = [log EXCEPT ![s] = Append(@, e)]
      /\ UNCHANGED <<current_term, voted_for, state, commit_index, applied, next_index,
                     match_index, votes, appends, leaders>>
  BY DEF Propose, electionVars, leaderVars
<1>2. log \in [Server -> Seq(LogEntry)] /\ e \in LogEntry
  BY DEF LogTypes, TypeOK, LogEntry
<1>3. /\ Append(log[s], e) \in Seq(LogEntry) /\ Len(Append(log[s], e)) = Len(log[s]) + 1
      /\ Len(log[s]) \in Nat
  BY <1>2, AppendParts, LenProperties
<1> HIDE DEF e
<1>4. log' \in [Server -> Seq(LogEntry)] /\ \A q \in Server: Len(log'[q]) >= Len(log[q])
  <2>1. \A q \in Server: Len(log[q]) \in Nat
    BY <1>2, LenProperties
  <2> QED BY <1>1, <1>2, <1>3, <2>1
<1>5. TypeOK'
  BY <1>1, <1>4 DEF LogTypes, TypeOK
<1>6. NextIsInLog'
  <2> SUFFICES ASSUME NEW q \in Server, NEW p \in Server, state[q] = "Leader"
               PROVE  next_index[q][p] <= Len(log'[q]) + 1
    BY <1>1 DEF NextIsInLog
  <2>1. /\ next_index[q][p] \in Nat /\ next_index[q][p] <= Len(log[q]) + 1
        /\ Len(log[q]) \in Nat /\ Len(log'[q]) \in Nat /\ Len(log'[q]) >= Len(log[q])
    BY <1>2, <1>4, LenProperties DEF LogTypes, TypeOK, NextIsInLog
  <2> QED BY <2>1
<1> QED BY <1>1, <1>5, <1>6 DEF LogTypes, AppendsStartRight, CommitIsApplied

(* What a leader sends: a part of its log.                                   *)
LEMMA ReplicateSends ==
    ASSUME LogTypes, NEW s \in Server, NEW p \in Server, Replicate(s, p)
    PROVE  /\ state[s] = "Leader" /\ p # s
           /\ UNCHANGED <<current_term, voted_for, state, log, commit_index, applied,
                          next_index, match_index, votes, leaders>>
           /\ \E m \in AppendEntries:
                 /\ appends' = appends \union {m}
                 /\ m.term = current_term[s] /\ m.from = s /\ m.to = p
                 /\ m.prev_log_index = next_index[s][p] - 1
                 /\ m.prev_log_index \in 0..Len(log[s])
                 /\ m.prev_log_term = TermAt(log[s], m.prev_log_index)
                 /\ \/ m.entries = SubSeq(log[s], m.prev_log_index + 1, Len(log[s]))
                    \/ Heartbeats /\ m.entries = <<>>
                 /\ m.entries \in {<<>>, SubSeq(log[s], m.prev_log_index + 1, Len(log[s]))}
                 /\ m.leader_commit = commit_index[s]
<1>1. /\ state[s] = "Leader" /\ p # s
      /\ UNCHANGED <<current_term, voted_for, state, log, commit_index, applied,
                     next_index, match_index, votes, leaders>>
  BY DEF Replicate, electionVars, logVars, leaderVars
<1> DEFINE prev == next_index[s][p] - 1
<1>2. PICK heartbeat \in {FALSE, Heartbeats}:
         appends' = appends \union
            {[term |-> current_term[s], from |-> s, to |-> p,
              prev_log_index |-> prev, prev_log_term |-> TermAt(log[s], prev),
              entries |-> IF heartbeat THEN <<>>
                          ELSE SubSeq(log[s], prev + 1, Len(log[s])),
              leader_commit |-> commit_index[s]]}
  BY DEF Replicate
<1>3. prev \in 0..Len(log[s]) /\ log[s] \in Seq(LogEntry) /\ Len(log[s]) \in Nat
  <2>1. next_index[s][p] \in Nat \ {0} /\ next_index[s][p] <= Len(log[s]) + 1
    BY <1>1 DEF LogTypes, TypeOK, NextIsInLog
  <2>2. log[s] \in Seq(LogEntry) /\ Len(log[s]) \in Nat
    BY LenProperties DEF LogTypes, TypeOK
  <2> QED BY <2>1, <2>2
<1> HIDE DEF prev
<1> PICK entries : entries = IF heartbeat THEN <<>> ELSE SubSeq(log[s], prev + 1, Len(log[s]))
  OBVIOUS
<1> DEFINE m == [term |-> current_term[s], from |-> s, to |-> p,
                 prev_log_index |-> prev, prev_log_term |-> TermAt(log[s], prev),
                 entries |-> entries, leader_commit |-> commit_index[s]]
<1>4. entries \in Seq(LogEntry)
  <2>1. /\ prev + 1 \in Nat \ {0} /\ prev + 1 <= Len(log[s]) + 1
    BY <1>3
  <2>2. SubSeq(log[s], prev + 1, Len(log[s])) \in Seq(LogEntry)
    BY <1>3, <2>1, SubSeqParts
  <2> QED BY <2>2, EmptySeq
<1>5. TermAt(log[s], prev) \in Terms
  BY <1>3, TermAtType
<1>6. m \in AppendEntries
  <2>1. current_term[s] \in Terms /\ commit_index[s] \in Nat /\ prev \in Nat
    BY <1>3 DEF LogTypes, TypeOK
  <2> QED BY <1>4, <1>5, <2>1 DEF AppendEntries
<1>7. \/ entries = SubSeq(log[s], prev + 1, Len(log[s]))
      \/ Heartbeats /\ entries = <<>>
  <2>1. CASE heartbeat
    <3>1. Heartbeats
      BY <2>1, Zenon
    <3> QED BY <2>1, <3>1, Zenon
  <2>2. CASE ~heartbeat
    BY <2>2, Zenon
  <2> QED BY <2>1, <2>2, Zenon
<1>8. appends' = appends \union {m}
  BY <1>2
<1>9. /\ m.term = current_term[s] /\ m.from = s /\ m.to = p
      /\ m.prev_log_index = prev /\ m.prev_log_term = TermAt(log[s], prev)
      /\ m.entries = entries /\ m.leader_commit = commit_index[s]
  OBVIOUS
<1> HIDE DEF m
<1>10. prev = next_index[s][p] - 1
  BY DEF prev
<1> QED BY <1>1, <1>3, <1>6, <1>7, <1>8, <1>9, <1>10

LEMMA ReplicateTypes ==
    ASSUME LogTypes, NEW s \in Server, NEW p \in Server, Replicate(s, p)
    PROVE  LogTypes'
<1>1. /\ UNCHANGED <<current_term, voted_for, state, log, commit_index, applied,
                     next_index, match_index, votes, leaders>>
      /\ \E m \in AppendEntries:
            /\ appends' = appends \union {m}
            /\ m.prev_log_index \in 0..Len(log[s])
            /\ m.prev_log_term = TermAt(log[s], m.prev_log_index)
  BY ReplicateSends
<1>2. TypeOK'
  BY <1>1 DEF LogTypes, TypeOK
<1>3. AppendsStartRight'
  BY <1>1 DEF LogTypes, AppendsStartRight, TermAt
<1> QED BY <1>1, <1>2, <1>3 DEF LogTypes, NextIsInLog, CommitIsApplied

LEMMA UpdateLeaderCommitTypes ==
    ASSUME LogTypes, NEW s \in Server, UpdateLeaderCommit(s)
    PROVE  LogTypes'
<1>1. PICK n \in (commit_index[s] + 1)..Len(log[s]):
         /\ commit_index' = [commit_index EXCEPT ![s] = n]
         /\ applied' = [applied EXCEPT ![s] = AppliedUpTo(s, log[s], n)]
  BY DEF UpdateLeaderCommit
<1>2. UNCHANGED <<current_term, voted_for, state, log, next_index, match_index,
                  votes, appends, leaders>>
  BY DEF UpdateLeaderCommit, electionVars, leaderVars
<1>3. /\ log[s] \in Seq(LogEntry) /\ applied[s] \in Seq(LogEntry)
      /\ Len(log[s]) \in Nat /\ Len(applied[s]) \in Nat /\ n \in Nat /\ n <= Len(log[s])
  BY LenProperties DEF LogTypes, TypeOK
<1>4. /\ AppliedUpTo(s, log[s], n) \in Seq(LogEntry)
      /\ Len(AppliedUpTo(s, log[s], n)) = Max2(Len(applied[s]), n)
  BY <1>3, AppliedGrows
<1>5. TypeOK'
  BY <1>1, <1>2, <1>3, <1>4 DEF LogTypes, TypeOK
<1>6. CommitIsApplied'
  <2>1. n <= Max2(Len(applied[s]), n)
    BY <1>3 DEF Max2
  <2> QED BY <1>1, <1>4, <2>1 DEF LogTypes, TypeOK, CommitIsApplied
<1> QED BY <1>2, <1>5, <1>6 DEF LogTypes, NextIsInLog, AppendsStartRight

(* A node that gets AppendEntries.                                           *)
LEMMA HeardTypes ==
    ASSUME LogTypes, NEW s \in Server, NEW m \in appends, HeardFromLeader(s, m)
    PROVE  /\ current_term' \in [Server -> Terms]
           /\ voted_for' \in [Server -> Server \union {Nil}]
           /\ state' \in [Server -> NodeState]
           /\ \A q \in Server: state'[q] = "Leader" => q # s /\ state[q] = "Leader"
<1>1. m.term \in Terms
  BY DEF LogTypes, TypeOK, AppendEntries
<1> QED BY <1>1 DEF LogTypes, TypeOK, HeardFromLeader, NodeState

LEMMA RecordSuccessTypes ==
    ASSUME LogTypes, NEW s \in Server, NEW m \in appends, NEW l \in Seq(LogEntry),
           RecordSuccess(s, m, l)
    PROVE  /\ next_index' \in [Server -> [Server -> Nat \ {0}]]
           /\ match_index' \in [Server -> [Server -> Nat]]
           /\ \A q, p \in Server: state[q] = "Leader" => next_index'[q][p] <= Len(log[q]) + 1
<1>1. CASE UNCHANGED leaderVars
  BY <1>1 DEF leaderVars, LogTypes, TypeOK, NextIsInLog
<1>2. CASE ~UNCHANGED leaderVars
  <2> DEFINE match == Max2(match_index[m.from][s], Acknowledged(l, m))
             next == Min2(match, Len(log[m.from])) + 1
  <2>1. /\ match_index' = [match_index EXCEPT ![m.from][s] = match]
        /\ next_index' = [next_index EXCEPT ![m.from][s] = next]
    BY <1>2 DEF RecordSuccess
  <2>2. /\ m.from \in Server /\ Len(log[m.from]) \in Nat /\ match_index[m.from][s] \in Nat
        /\ Len(l) \in Nat /\ m.prev_log_index \in Nat /\ Len(m.entries) \in Nat
    BY LenProperties DEF LogTypes, TypeOK, AppendEntries
  <2>3. match \in Nat
    BY <2>2 DEF Max2, Acknowledged
  <2> HIDE DEF match
  <2>4. next \in Nat \ {0} /\ next <= Len(log[m.from]) + 1
    BY <2>2, <2>3 DEF Min2
  <2> HIDE DEF next
  <2>5. ASSUME NEW q \in Server, NEW p \in Server, state[q] = "Leader"
        PROVE  next_index'[q][p] <= Len(log[q]) + 1
    <3>1. next_index'[q][p] = next_index[q][p] \/ (q = m.from /\ next_index'[q][p] = next)
      BY <2>1, <2>2 DEF LogTypes, TypeOK
    <3> QED BY <2>4, <2>5, <3>1 DEF LogTypes, NextIsInLog
  <2>6. next_index' \in [Server -> [Server -> Nat \ {0}]]
    BY <2>1, <2>2, <2>4 DEF LogTypes, TypeOK
  <2>7. match_index' \in [Server -> [Server -> Nat]]
    BY <2>1, <2>2, <2>3 DEF LogTypes, TypeOK
  <2> QED BY <2>5, <2>6, <2>7
<1> QED BY <1>1, <1>2

LEMMA RecordFailureTypes ==
    ASSUME LogTypes, NEW s \in Server, NEW m \in appends, RecordFailure(s, m)
    PROVE  /\ next_index' \in [Server -> [Server -> Nat \ {0}]]
           /\ match_index' = match_index
           /\ \A q, p \in Server: state[q] = "Leader" => next_index'[q][p] <= Len(log[q]) + 1
<1>1. CASE UNCHANGED leaderVars
  BY <1>1 DEF leaderVars, LogTypes, TypeOK, NextIsInLog
<1>2. CASE ~UNCHANGED leaderVars
  <2> DEFINE next == Max2(next_index[m.from][s] - 1, 1)
  <2>1. m.from \in Server /\ next_index[m.from][s] \in Nat \ {0}
    <3>1. m.from \in Server
      BY DEF LogTypes, TypeOK, AppendEntries
    <3> QED BY <3>1 DEF LogTypes, TypeOK
  <2>2. match_index' = match_index /\ next_index' = [next_index EXCEPT ![m.from][s] = next]
    BY <1>2, <2>1 DEF RecordFailure, LogTypes, TypeOK
  <2>3. next \in Nat \ {0} /\ next <= next_index[m.from][s]
    BY <2>1 DEF Max2
  <2> HIDE DEF next
  <2>4. ASSUME NEW q \in Server, NEW p \in Server, state[q] = "Leader"
        PROVE  next_index'[q][p] <= Len(log[q]) + 1
    <3>1. /\ next_index'[q][p] = next_index[q][p] \/ (q = m.from /\ p = s /\ next_index'[q][p] = next)
          /\ next_index[q][p] <= Len(log[q]) + 1 /\ next_index[q][p] \in Nat /\ Len(log[q]) \in Nat
      BY <2>1, <2>2, <2>4, LenProperties DEF LogTypes, TypeOK, NextIsInLog
    <3> QED BY <2>3, <3>1
  <2>5. next_index' \in [Server -> [Server -> Nat \ {0}]]
    BY <2>1, <2>2, <2>3 DEF LogTypes, TypeOK
  <2> QED BY <2>2, <2>4, <2>5
<1> QED BY <1>1, <1>2

(* What a node that accepts does, apart from the reply.                      *)
LEMMA AcceptDoes ==
    ASSUME LogTypes, NEW s \in Server, NEW m \in appends, AcceptEntries(s, m)
    PROVE  /\ m \in AppendEntries /\ m.to = s /\ m.term >= current_term[s]
           /\ log[s] \in Seq(LogEntry)
           /\ m.prev_log_index \in 0..Len(log[s])
           /\ m.prev_log_term = TermAt(log[s], m.prev_log_index)
           /\ m.entries \in Seq(LogEntry)
           /\ UNCHANGED <<votes, appends, leaders>>
           /\ Merged(log[s], m.prev_log_index, m.entries) \in Seq(LogEntry)
           /\ log' = [log EXCEPT ![s] = Merged(log[s], m.prev_log_index, m.entries)]
           /\ \E l \in Seq(LogEntry), commit \in Nat:
                 /\ l = Merged(log[s], m.prev_log_index, m.entries)
                 /\ commit = IF m.leader_commit > commit_index[s]
                             THEN Min2(m.leader_commit, Len(l)) ELSE commit_index[s]
                 /\ commit <= Len(applied[s]) \/ commit <= Len(l)
                 /\ log' = [log EXCEPT ![s] = l]
                 /\ commit_index' = [commit_index EXCEPT ![s] = commit]
                 /\ applied' = [applied EXCEPT ![s] = AppliedUpTo(s, l, commit)]
                 /\ RecordSuccess(s, m, l)
<1> DEFINE l == Merged(log[s], m.prev_log_index, m.entries)
           commit == IF m.leader_commit > commit_index[s]
                     THEN Min2(m.leader_commit, Len(l)) ELSE commit_index[s]
<1>1. m \in AppendEntries
  BY DEF LogTypes, TypeOK
<1>2. /\ m.to = s /\ m.term >= current_term[s]
      /\ m.prev_log_index <= Len(log[s])
      /\ TermAt(log[s], m.prev_log_index) = m.prev_log_term
      /\ UNCHANGED <<votes, appends, leaders>>
      /\ log' = [log EXCEPT ![s] = l]
      /\ commit_index' = [commit_index EXCEPT ![s] = commit]
      /\ applied' = [applied EXCEPT ![s] = AppliedUpTo(s, l, commit)]
      /\ RecordSuccess(s, m, l)
  BY DEF AcceptEntries, HeardFromLeader, AppendMatches
<1>3. /\ log[s] \in Seq(LogEntry) /\ m.entries \in Seq(LogEntry)
      /\ m.prev_log_index \in 0..Len(log[s])
  BY <1>1, <1>2, LenProperties DEF LogTypes, TypeOK, AppendEntries
<1>4. l \in Seq(LogEntry)
  BY <1>3, MergedIs
<1> HIDE DEF l
<1>5. commit \in Nat /\ (commit <= Len(applied[s]) \/ commit <= Len(l))
  <2>1. /\ Len(l) \in Nat /\ m.leader_commit \in Nat /\ commit_index[s] \in Nat
        /\ commit_index[s] <= Len(applied[s])
    BY <1>1, <1>4, LenProperties DEF LogTypes, TypeOK, AppendEntries, CommitIsApplied
  <2> QED BY <2>1 DEF Min2
<1>6. l = Merged(log[s], m.prev_log_index, m.entries)
  BY DEF l
<1> QED BY <1>1, <1>2, <1>3, <1>4, <1>5, <1>6

LEMMA AcceptTypes ==
    ASSUME LogTypes, NEW s \in Server, NEW m \in appends, AcceptEntries(s, m), m.from # s
    PROVE  LogTypes'
<1>1. PICK l \in Seq(LogEntry), commit \in Nat:
         /\ commit <= Len(applied[s]) \/ commit <= Len(l)
         /\ log' = [log EXCEPT ![s] = l]
         /\ commit_index' = [commit_index EXCEPT ![s] = commit]
         /\ applied' = [applied EXCEPT ![s] = AppliedUpTo(s, l, commit)]
         /\ RecordSuccess(s, m, l)
  BY AcceptDoes
<1>2. UNCHANGED <<votes, appends, leaders>> /\ HeardFromLeader(s, m)
  BY DEF AcceptEntries
<1>3. /\ current_term' \in [Server -> Terms]
      /\ voted_for' \in [Server -> Server \union {Nil}]
      /\ state' \in [Server -> NodeState]
      /\ \A q \in Server: state'[q] = "Leader" => q # s /\ state[q] = "Leader"
  BY <1>2, HeardTypes
<1>4. /\ next_index' \in [Server -> [Server -> Nat \ {0}]]
      /\ match_index' \in [Server -> [Server -> Nat]]
      /\ \A q, p \in Server: state[q] = "Leader" => next_index'[q][p] <= Len(log[q]) + 1
  BY <1>1, RecordSuccessTypes
<1>5. /\ AppliedUpTo(s, l, commit) \in Seq(LogEntry)
      /\ commit <= Len(AppliedUpTo(s, l, commit))
  <2>1. applied[s] \in Seq(LogEntry) /\ Len(applied[s]) \in Nat
    BY LenProperties DEF LogTypes, TypeOK
  <2>2. commit <= Max2(Len(applied[s]), commit)
    BY <2>1 DEF Max2
  <2> QED BY <1>1, <2>1, <2>2, AppliedGrows
<1>6. TypeOK'
  BY <1>1, <1>2, <1>3, <1>4, <1>5 DEF LogTypes, TypeOK
<1>7. CommitIsApplied'
  BY <1>1, <1>5 DEF LogTypes, TypeOK, CommitIsApplied
<1>8. NextIsInLog'
  BY <1>1, <1>3, <1>4 DEF LogTypes, TypeOK, NextIsInLog
<1> QED BY <1>2, <1>6, <1>7, <1>8 DEF LogTypes, AppendsStartRight

(* A node that refuses cuts its log in front of the entry that differs.      *)
LEMMA RejectDoes ==
    ASSUME LogTypes, NEW s \in Server, NEW m \in appends, RejectEntries(s, m)
    PROVE  /\ m \in AppendEntries /\ m.to = s /\ m.term >= current_term[s]
           /\ log[s] \in Seq(LogEntry)
           /\ UNCHANGED <<commit_index, applied, votes, appends, leaders>>
           /\ RecordFailure(s, m)
           /\ \A q \in Server: q # s => log'[q] = log[q]
           /\ \/ m.prev_log_index > Len(log[s]) /\ log' = log
              \/ \E n \in 0..Len(log[s]):
                    /\ n + 1 = m.prev_log_index /\ n + 1 <= Len(log[s])
                    /\ TermAt(log[s], n + 1) # m.prev_log_term
                    /\ log' = [log EXCEPT ![s] = SubSeq(log[s], 1, n)]
<1>1. m \in AppendEntries
  BY DEF LogTypes, TypeOK
<1>2. /\ m.to = s /\ m.term >= current_term[s] /\ ~AppendMatches(s, m)
      /\ UNCHANGED <<commit_index, applied, votes, appends, leaders>>
      /\ RecordFailure(s, m)
      /\ log' = IF m.prev_log_index > Len(log[s]) THEN log
                ELSE [log EXCEPT ![s] = SubSeq(@, 1, m.prev_log_index - 1)]
      /\ \A q \in Server: q # s => log'[q] = log[q]
  BY DEF RejectEntries, HeardFromLeader, LogTypes, TypeOK
<1>3. log[s] \in Seq(LogEntry) /\ Len(log[s]) \in Nat /\ m.prev_log_index \in Nat
  BY <1>1, LenProperties DEF LogTypes, TypeOK, AppendEntries
<1>4. CASE ~(m.prev_log_index > Len(log[s]))
  <2>1. /\ m.prev_log_index <= Len(log[s])
        /\ TermAt(log[s], m.prev_log_index) # m.prev_log_term
    BY <1>2, <1>3, <1>4 DEF AppendMatches
  <2>2. m.prev_log_index # 0
    BY <2>1 DEF TermAt, LogTypes, AppendsStartRight
  <2>3. PICK n \in 0..Len(log[s]) : n + 1 = m.prev_log_index /\ n = m.prev_log_index - 1
    <3>1. /\ m.prev_log_index - 1 \in 0..Len(log[s])
          /\ (m.prev_log_index - 1) + 1 = m.prev_log_index
      BY <1>3, <2>1, <2>2
    <3> QED BY <3>1
  <2>4. log' = [log EXCEPT ![s] = SubSeq(log[s], 1, n)]
    BY <1>2, <1>4, <2>3 DEF LogTypes, TypeOK
  <2> QED BY <1>1, <1>2, <1>3, <2>1, <2>3, <2>4
<1> QED BY <1>1, <1>2, <1>3, <1>4

LEMMA RejectTypes ==
    ASSUME LogTypes, NEW s \in Server, NEW m \in appends, RejectEntries(s, m)
    PROVE  LogTypes'
<1>1. /\ UNCHANGED <<commit_index, applied, votes, appends, leaders>>
      /\ RecordFailure(s, m) /\ HeardFromLeader(s, m)
      /\ \/ log' = log
         \/ \E n \in 0..Len(log[s]): log' = [log EXCEPT ![s] = SubSeq(log[s], 1, n)]
  BY RejectDoes DEF RejectEntries
<1>2. /\ current_term' \in [Server -> Terms]
      /\ voted_for' \in [Server -> Server \union {Nil}]
      /\ state' \in [Server -> NodeState]
      /\ \A q \in Server: state'[q] = "Leader" => q # s /\ state[q] = "Leader"
  BY <1>1, HeardTypes
<1>3. /\ next_index' \in [Server -> [Server -> Nat \ {0}]]
      /\ match_index' = match_index
      /\ \A q, p \in Server: state[q] = "Leader" => next_index'[q][p] <= Len(log[q]) + 1
  BY <1>1, RecordFailureTypes
<1>4. log' \in [Server -> Seq(LogEntry)] /\ \A q \in Server: q # s => log'[q] = log[q]
  <2>1. log \in [Server -> Seq(LogEntry)]
    BY DEF LogTypes, TypeOK
  <2>2. \A n \in 0..Len(log[s]): SubSeq(log[s], 1, n) \in Seq(LogEntry)
    BY <2>1, PrefixLinks
  <2> QED BY <1>1, <2>1, <2>2
<1>5. TypeOK'
  BY <1>1, <1>2, <1>3, <1>4 DEF LogTypes, TypeOK
<1>6. NextIsInLog'
  BY <1>2, <1>3, <1>4 DEF NextIsInLog
<1> QED BY <1>1, <1>5, <1>6 DEF LogTypes, AppendsStartRight, CommitIsApplied

LEMMA LogTypesStep ==
    ASSUME ElectionInv, LogTypes, [Next]_vars
    PROVE  LogTypes'
<1>1. ASSUME NEW s \in Server, StartElection(s) PROVE LogTypes'
  BY <1>1, StartElectionTypes
<1>2. ASSUME NEW s \in Server, PromoteToLeader(s) PROVE LogTypes'
  BY <1>2, PromoteTypes
<1>3. ASSUME NEW s \in Server, NEW v \in Value, Propose(s, v) PROVE LogTypes'
  BY <1>3, ProposeTypes
<1>4. ASSUME NEW s \in Server, NEW p \in Server, Replicate(s, p) PROVE LogTypes'
  BY <1>4, ReplicateTypes
<1>5. ASSUME NEW s \in Server, UpdateLeaderCommit(s) PROVE LogTypes'
  BY <1>5, UpdateLeaderCommitTypes
<1>6. ASSUME NEW s \in Server, NEW m \in votes, HandleRequestVote(s, m) PROVE LogTypes'
  BY <1>6, RequestVoteTypes
<1>7. ASSUME NEW s \in Server, NEW m \in appends, AcceptEntries(s, m) PROVE LogTypes'
  <2>1. m.from # s
    BY <1>7 DEF AcceptEntries, HeardFromLeader, ElectionInv, AppendsAreLeaders
  <2> QED BY <1>7, <2>1, AcceptTypes
<1>8. ASSUME NEW s \in Server, NEW m \in appends, RejectEntries(s, m) PROVE LogTypes'
  BY <1>8, RejectTypes
<1>9. ASSUME NEW m \in appends, Drop(m) PROVE LogTypes'
  BY <1>9 DEF Drop, electionVars, logVars, leaderVars, LogTypes, TypeOK, NextIsInLog,
              AppendsStartRight, CommitIsApplied
<1>10. CASE UNCHANGED vars
  BY <1>10 DEF vars, LogTypes, TypeOK, NextIsInLog, AppendsStartRight, CommitIsApplied
<1> QED BY <1>1, <1>2, <1>3, <1>4, <1>5, <1>6, <1>7, <1>8, <1>9, <1>10 DEF Next

----------------------------------------------------------------------------
(* A leader of a term stays its leader, or goes on to a later one.            *)
LEMMA LeadersMoveOnStep ==
    ASSUME LogInv, [Next]_vars
    PROVE  LeadersMoveOn'
<1>1. /\ current_term \in [Server -> Terms] /\ state \in [Server -> NodeState]
      /\ \A t \in Terms: t \in Nat
  BY RaftAssumption DEF LogInv, LogTypes, TypeOK, Terms
<1>2. ASSUME NEW s \in Server, StartElection(s) PROVE LeadersMoveOn'
  <2>1. /\ state[s] # "Leader"
        /\ current_term' = [current_term EXCEPT ![s] = @ + 1]
        /\ state' = [state EXCEPT ![s] = "Candidate"] /\ leaders' = leaders
    BY <1>2 DEF StartElection
  <2> QED BY <1>1, <2>1 DEF LogInv, LeadersMoveOn
<1>3. ASSUME NEW s \in Server, PromoteToLeader(s) PROVE LeadersMoveOn'
  <2>1. /\ state' = [state EXCEPT ![s] = "Leader"] /\ current_term' = current_term
        /\ leaders' = leaders \union {<<current_term[s], s>>}
    BY <1>3 DEF PromoteToLeader
  <2> QED BY <1>1, <2>1 DEF LogInv, LeadersMoveOn
<1>4. ASSUME NEW s \in Server, NEW m \in votes, HandleRequestVote(s, m) PROVE LeadersMoveOn'
  <2>1. /\ m.term >= current_term[s] /\ leaders' = leaders
        /\ current_term' = [current_term EXCEPT ![s] = m.term]
        /\ state' = [state EXCEPT ![s] = IF m.term > current_term[s] THEN "Follower" ELSE @]
    BY <1>4 DEF HandleRequestVote
  <2>2. m.term \in Terms
    BY DEF LogInv, LogTypes, TypeOK, RequestVote, VoteGranted
  <2> QED BY <1>1, <2>1, <2>2 DEF LogInv, LeadersMoveOn
<1>5. ASSUME NEW s \in Server, NEW m \in appends, HeardFromLeader(s, m), leaders' = leaders
      PROVE  LeadersMoveOn'
  <2>1. /\ m.to = s /\ m.term >= current_term[s]
        /\ current_term' = [current_term EXCEPT ![s] = m.term]
        /\ state' = [state EXCEPT ![s] = "Follower"]
    BY <1>5 DEF HeardFromLeader
  <2>2. /\ m.term \in Terms /\ m.from \in Server /\ m.from # s
        /\ <<m.term, m.from>> \in leaders
    BY <2>1 DEF LogInv, LogTypes, TypeOK, AppendEntries, ElectionInv, AppendsAreLeaders
  <2>3. \A t \in Terms: <<t, s>> \in leaders => m.term # t
    BY <1>1, <2>2 DEF LogInv, ElectionInv, OneLeader
  <2> QED BY <1>1, <1>5, <2>1, <2>2, <2>3 DEF LogInv, LeadersMoveOn
<1>6. ASSUME UNCHANGED <<current_term, state, leaders>> PROVE LeadersMoveOn'
  BY <1>6 DEF LogInv, LeadersMoveOn
<1>7. ASSUME NEW s \in Server, NEW m \in appends, AcceptEntries(s, m) \/ RejectEntries(s, m)
      PROVE  LeadersMoveOn'
  BY <1>5, <1>7 DEF AcceptEntries, RejectEntries
<1>8. ASSUME NEW s \in Server,
             \/ \E v \in Value: Propose(s, v)
             \/ \E p \in Server: Replicate(s, p)
             \/ UpdateLeaderCommit(s)
             \/ \E m \in appends: Drop(m)
      PROVE  LeadersMoveOn'
  BY <1>6, <1>8 DEF Propose, Replicate, UpdateLeaderCommit, Drop, electionVars
<1>9. CASE UNCHANGED vars
  BY <1>6, <1>9 DEF vars
<1> QED BY <1>2, <1>3, <1>4, <1>7, <1>8, <1>9 DEF Next

(* Links that are copied or lost leave the rest as it is.                    *)
LEMMA LinksKept ==
    ASSUME LinkInv, Links' \subseteq Links, leaders \subseteq leaders',
           \A s \in Server: state'[s] = "Leader" =>
               /\ state[s] = "Leader" /\ current_term'[s] = current_term[s]
               /\ Len(log'[s]) = Len(log[s])
    PROVE  LinkInv'
<1>1. LinksAreUnique'
  BY DEF LinkInv, LinksAreUnique
<1>2. LinksHaveLeaders'
  BY DEF LinkInv, LinksHaveLeaders, HasLeader
<1>3. LeadersHaveTheirLinks'
  BY DEF LinkInv, LeadersHaveTheirLinks
<1> QED BY <1>1, <1>2, <1>3 DEF LinkInv

(* The links of a state in which one log or one message is new.              *)
LEMMA LinksOfLog ==
    ASSUME NEW s \in Server, NEW l, NEW new,
           log \in [Server -> Seq(LogEntry)], log' = [log EXCEPT ![s] = l],
           appends' \subseteq appends, LogLinks(l) \subseteq Links \union new
    PROVE  Links' \subseteq Links \union new
<1>1. \A q \in Server: log'[q] = log[q] \/ log'[q] = l
  OBVIOUS
<1>2. \A q \in Server: LogLinks(log'[q]) \subseteq Links \union new
  BY <1>1 DEF Links
<1> QED BY <1>2 DEF Links

(* The node that becomes the leader is the first of its term.                *)
LEMMA FirstOfItsTerm ==
    ASSUME LogInv, NEW s \in Server, PromoteToLeader(s)
    PROVE  ~HasLeader(current_term[s])
<1> SUFFICES ASSUME NEW l \in Server, <<current_term[s], l>> \in leaders PROVE FALSE
  BY DEF HasLeader
<1>1. state[s] = "Candidate" /\ leaders' = leaders \union {<<current_term[s], s>>}
  BY DEF PromoteToLeader
<1>2. current_term[s] \in Terms /\ current_term[s] \in Nat
  BY RaftAssumption DEF LogInv, LogTypes, TypeOK, Terms
<1>3. OneLeader'
  BY PromoteStep DEF LogInv, ElectionInv
<1>4. l = s
  BY <1>1, <1>2, <1>3 DEF OneLeader
<1> QED BY <1>1, <1>2, <1>4 DEF LogInv, LeadersMoveOn

(* So there is no entry of the term.                                         *)
LEMMA PromoteLinks ==
    ASSUME LogInv, NEW s \in Server, PromoteToLeader(s)
    PROVE  LinkInv'
<1>1. /\ state[s] = "Candidate"
      /\ state' = [state EXCEPT ![s] = "Leader"]
      /\ leaders' = leaders \union {<<current_term[s], s>>}
      /\ current_term' = current_term /\ log' = log /\ appends' = appends
  BY DEF PromoteToLeader, logVars
<1>2. Links' = Links
  BY <1>1 DEF Links
<1>3. /\ current_term[s] \in Terms /\ current_term[s] \in Nat
      /\ state \in [Server -> NodeState]
  BY RaftAssumption DEF LogInv, LogTypes, TypeOK, Terms
<1>4. ~HasLeader(current_term[s])
  BY FirstOfItsTerm
<1>5. LinksAreUnique' /\ LinksHaveLeaders'
  BY <1>1, <1>2 DEF LogInv, LinkInv, LinksAreUnique, LinksHaveLeaders, HasLeader
<1>6. LeadersHaveTheirLinks'
  <2> SUFFICES ASSUME NEW q \in Server, state'[q] = "Leader", NEW x \in Links,
                      x.entry.term = current_term[q]
               PROVE  x.index <= Len(log[q])
    BY <1>1, <1>2 DEF LeadersHaveTheirLinks
  <2>1. CASE q = s
    BY <1>4, <2>1 DEF LogInv, LinkInv, LinksHaveLeaders
  <2>2. CASE q # s
    <3>1. state[q] = "Leader"
      BY <1>1, <1>3, <2>2
    <3> QED BY <3>1 DEF LogInv, LinkInv, LeadersHaveTheirLinks
  <2> QED BY <2>1, <2>2
<1> QED BY <1>5, <1>6 DEF LinkInv

(* The entry a leader appends is the first of its term at its index.         *)
LEMMA ProposeLinks ==
    ASSUME LogInv, NEW s \in Server, NEW v \in Value, Propose(s, v)
    PROVE  LinkInv'
<1> DEFINE e == [term |-> current_term[s], command |-> v]
           l == Append(log[s], e)
           new == [index |-> Len(log[s]) + 1, prev |-> TermAt(log[s], Len(log[s])), entry |-> e]
<1>1. /\ state[s] = "Leader" /\ log' = [log EXCEPT ![s] = l]
      /\ UNCHANGED <<current_term, state, appends, leaders>>
  BY DEF Propose, electionVars
<1>2. /\ log \in [Server -> Seq(LogEntry)] /\ e \in LogEntry
      /\ current_term[s] \in Terms /\ current_term[s] \in Nat
  <2>1. log \in [Server -> Seq(LogEntry)] /\ current_term[s] \in Terms
    BY DEF LogInv, LogTypes, TypeOK
  <2>2. e \in LogEntry
    BY <2>1 DEF LogEntry
  <2>3. current_term[s] \in Nat
    BY <2>1, RaftAssumption DEF Terms
  <2> QED BY <2>1, <2>2, <2>3
<1>3. /\ LogLinks(l) = LogLinks(log[s]) \union {new}
      /\ Len(l) = Len(log[s]) + 1 /\ Len(log[s]) \in Nat
  BY <1>2, LongerLinks, AppendParts, LenProperties
<1>4. new.index = Len(log[s]) + 1 /\ new.entry.term = current_term[s]
  OBVIOUS
<1> HIDE DEF e, l, new
<1>5. Links' \subseteq Links \union {new}
  <2>1. LogLinks(l) \subseteq Links \union {new}
    BY <1>3 DEF Links
  <2> QED BY <1>1, <1>2, <2>1, LinksOfLog
<1>6. \A x \in Links: x.entry.term = current_term[s] => x.index # new.index
  <2>1. \A x \in Links: x.entry.term = current_term[s] => x.index <= Len(log[s])
    BY <1>1 DEF LogInv, LinkInv, LeadersHaveTheirLinks
  <2>2. \A x \in Links: x.entry.term = current_term[s] => ~(x.index <= Len(log[s])) \/ x.index # new.index
    BY <1>3, <1>4
  <2> QED BY <2>1, <2>2
<1>7. LinksAreUnique'
  BY <1>4, <1>5, <1>6 DEF LogInv, LinkInv, LinksAreUnique
<1>8. HasLeader(current_term[s])
  BY <1>1 DEF HasLeader, LogInv, ElectionInv, LeadersAreKnown
<1>9. LinksHaveLeaders'
  BY <1>1, <1>4, <1>5, <1>8 DEF LogInv, LinkInv, LinksHaveLeaders, HasLeader
<1>10. LeadersHaveTheirLinks'
  <2> SUFFICES ASSUME NEW q \in Server, state[q] = "Leader", NEW x \in Links',
                      x.entry.term = current_term[q]
               PROVE  x.index <= Len(log'[q])
    BY <1>1 DEF LeadersHaveTheirLinks
  <2>1. CASE x = new
    <3>1. q = s
      BY <1>1, <1>2, <1>4, <2>1 DEF LogInv, ElectionInv, LeadersAreKnown, OneLeader
    <3> QED BY <1>1, <1>2, <1>3, <1>4, <2>1, <3>1
  <2>2. CASE x # new
    <3>1. x \in Links /\ x.index <= Len(log[q])
      BY <1>5, <2>2 DEF LogInv, LinkInv, LeadersHaveTheirLinks
    <3>2. CASE q = s
      <4>1. PICK i : i = x.index
        OBVIOUS
      <4>2. i \in Nat
        <5>1. (\E r \in Server: x \in LogLinks(log[r])) \/ (\E m \in appends: x \in AppendLinks(m))
          BY <3>1 DEF Links
        <5>2. \A r \in Server: x \in LogLinks(log[r]) => x.index \in Nat
          <6>1. \A r \in Server: Len(log[r]) \in Nat
            BY <1>2, LenProperties
          <6> QED BY <6>1 DEF LogLinks
        <5>3. \A m \in appends: x \in AppendLinks(m) => x.index \in Nat
          <6>1. \A m \in appends: m.prev_log_index \in Nat /\ Len(m.entries) \in Nat
            BY LenProperties DEF LogInv, LogTypes, TypeOK, AppendEntries
          <6> QED BY <6>1 DEF AppendLinks
        <5> QED BY <4>1, <5>1, <5>2, <5>3
      <4>3. log'[q] = l
        BY <1>1, <1>2, <3>2
      <4> QED BY <1>3, <3>1, <3>2, <4>1, <4>2, <4>3
    <3>3. CASE q # s
      BY <1>1, <1>2, <3>1, <3>3
    <3> QED BY <3>2, <3>3
  <2> QED BY <2>1, <2>2
<1> QED BY <1>7, <1>9, <1>10 DEF LinkInv

LEMMA ReplicateLinks ==
    ASSUME LogInv, NEW s \in Server, NEW p \in Server, Replicate(s, p)
    PROVE  Links' \subseteq Links
<1>1. PICK m \in AppendEntries:
         /\ appends' = appends \union {m}
         /\ m.prev_log_index \in 0..Len(log[s])
         /\ m.prev_log_term = TermAt(log[s], m.prev_log_index)
         /\ m.entries \in {<<>>, SubSeq(log[s], m.prev_log_index + 1, Len(log[s]))}
  BY ReplicateSends DEF LogInv
<1>2. log' = log /\ log[s] \in Seq(LogEntry)
  BY ReplicateSends DEF LogInv, LogTypes, TypeOK
<1>3. AppendLinks(m) \subseteq Links
  <2>1. AppendLinks(m) \subseteq LogLinks(log[s])
    BY <1>1, <1>2, SentLinks
  <2> QED BY <2>1 DEF Links
<1> QED BY <1>1, <1>2, <1>3 DEF Links

LEMMA AcceptLinks ==
    ASSUME LogInv, NEW s \in Server, NEW m \in appends, AcceptEntries(s, m)
    PROVE  Links' \subseteq Links
<1> PICK l : l = Merged(log[s], m.prev_log_index, m.entries)
  OBVIOUS
<1>1. log' = [log EXCEPT ![s] = l]
  BY AcceptDoes DEF LogInv
<1>2. /\ log[s] \in Seq(LogEntry)
      /\ m.prev_log_index \in 0..Len(log[s])
      /\ m.prev_log_term = TermAt(log[s], m.prev_log_index)
      /\ m.entries \in Seq(LogEntry)
      /\ appends' = appends
  BY AcceptDoes DEF LogInv
<1>3. LogLinks(l) \subseteq LogLinks(log[s]) \union AppendLinks(m)
  BY <1>1, <1>2, MergedLinks
<1>4. LogLinks(l) \subseteq Links \union {}
  BY <1>3 DEF Links
<1> QED BY <1>1, <1>2, <1>4, LinksOfLog DEF LogInv, LogTypes, TypeOK

LEMMA RejectLinks ==
    ASSUME LogInv, NEW s \in Server, NEW m \in appends, RejectEntries(s, m)
    PROVE  Links' \subseteq Links
<1>1. /\ appends' = appends /\ log[s] \in Seq(LogEntry)
      /\ \/ log' = log
         \/ \E n \in 0..Len(log[s]): log' = [log EXCEPT ![s] = SubSeq(log[s], 1, n)]
  BY RejectDoes DEF LogInv
<1>2. CASE log' = log
  BY <1>1, <1>2 DEF Links
<1>3. CASE log' # log
  <2>1. PICK n \in 0..Len(log[s]): log' = [log EXCEPT ![s] = SubSeq(log[s], 1, n)]
    BY <1>1, <1>3
  <2>2. LogLinks(SubSeq(log[s], 1, n)) \subseteq LogLinks(log[s])
    BY <1>1, PrefixLinks
  <2>3. LogLinks(SubSeq(log[s], 1, n)) \subseteq Links \union {}
    BY <2>2 DEF Links
  <2> QED BY <1>1, <2>1, <2>3, LinksOfLog DEF LogInv, LogTypes, TypeOK
<1> QED BY <1>2, <1>3

(* A node that hears from a leader does not lead, and no other log changes.   *)
LEMMA HeardLinks ==
    ASSUME LogInv, NEW s \in Server, NEW m \in appends,
           AcceptEntries(s, m) \/ RejectEntries(s, m)
    PROVE  LinkInv'
<1>1. Links' \subseteq Links
  BY AcceptLinks, RejectLinks
<1>2. /\ current_term' = [current_term EXCEPT ![s] = m.term]
      /\ state' = [state EXCEPT ![s] = "Follower"]
      /\ leaders' = leaders
  BY DEF AcceptEntries, RejectEntries, HeardFromLeader
<1>3. \A q \in Server: q # s => log'[q] = log[q]
  <2>1. CASE AcceptEntries(s, m)
    <3>1. log' = [log EXCEPT ![s] = Merged(log[s], m.prev_log_index, m.entries)]
      BY <2>1, AcceptDoes DEF LogInv
    <3> QED BY <3>1 DEF LogInv, LogTypes, TypeOK
  <2>2. CASE RejectEntries(s, m)
    BY <2>2, RejectDoes DEF LogInv
  <2> QED BY <2>1, <2>2
<1>4. state \in [Server -> NodeState] /\ current_term \in [Server -> Terms]
  BY DEF LogInv, LogTypes, TypeOK
<1>5. \A q \in Server: state'[q] = "Leader" =>
         /\ state[q] = "Leader" /\ current_term'[q] = current_term[q]
         /\ Len(log'[q]) = Len(log[q])
  BY <1>2, <1>3, <1>4
<1> QED BY <1>1, <1>2, <1>5, LinksKept DEF LogInv

LEMMA LogStep == LogInv /\ [Next]_vars => LogInv'
<1> SUFFICES ASSUME LogInv, [Next]_vars PROVE LinkInv'
  BY ElectionStep, LogTypesStep, LeadersMoveOnStep DEF LogInv
<1>1. /\ state \in [Server -> NodeState] /\ current_term \in [Server -> Terms]
      /\ LinkInv
  BY DEF LogInv, LogTypes, TypeOK
<1>2. ASSUME UNCHANGED <<current_term, state, log, leaders>>, Links' \subseteq Links
      PROVE  LinkInv'
  BY <1>1, <1>2, LinksKept
<1>3. ASSUME NEW s \in Server, StartElection(s) PROVE LinkInv'
  <2>1. /\ current_term' = [current_term EXCEPT ![s] = @ + 1]
        /\ state' = [state EXCEPT ![s] = "Candidate"]
        /\ log' = log /\ appends' = appends /\ leaders' = leaders
    BY <1>3 DEF StartElection, logVars
  <2>2. Links' = Links
    BY <2>1 DEF Links
  <2>3. \A q \in Server: state'[q] = "Leader" =>
           state[q] = "Leader" /\ current_term'[q] = current_term[q]
    BY <1>1, <2>1
  <2> QED BY <1>1, <2>1, <2>2, <2>3, LinksKept
<1>4. ASSUME NEW s \in Server, NEW m \in votes, HandleRequestVote(s, m) PROVE LinkInv'
  <2>1. /\ current_term' = [current_term EXCEPT ![s] = m.term]
        /\ state' = [state EXCEPT ![s] = IF m.term > current_term[s] THEN "Follower" ELSE @]
        /\ m.term >= current_term[s]
        /\ log' = log /\ appends' = appends /\ leaders' = leaders
    BY <1>4 DEF HandleRequestVote, logVars
  <2>2. Links' = Links
    BY <2>1 DEF Links
  <2>3. m.term \in Nat /\ current_term[s] \in Nat
    BY DEF LogInv, ElectionInv, ElectionTypes
  <2>4. \A q \in Server: state'[q] = "Leader" =>
           state[q] = "Leader" /\ current_term'[q] = current_term[q]
    BY <1>1, <2>1, <2>3
  <2> QED BY <1>1, <2>1, <2>2, <2>4, LinksKept
<1>5. ASSUME NEW s \in Server, NEW p \in Server, Replicate(s, p) PROVE LinkInv'
  BY <1>2, <1>5, ReplicateLinks DEF Replicate, electionVars, logVars
<1>6. ASSUME NEW s \in Server, UpdateLeaderCommit(s) PROVE LinkInv'
  BY <1>2, <1>6 DEF UpdateLeaderCommit, electionVars, Links
<1>7. ASSUME NEW m \in appends, Drop(m) PROVE LinkInv'
  BY <1>2, <1>7 DEF Drop, electionVars, logVars, Links
<1>8. CASE UNCHANGED vars
  BY <1>2, <1>8 DEF vars, Links
<1> QED BY <1>3, <1>4, <1>5, <1>6, <1>7, <1>8, PromoteLinks, ProposeLinks, HeardLinks DEF Next

LEMMA LogInit == Init => LogInv
<1> SUFFICES ASSUME Init PROVE LogInv
  OBVIOUS
<1>1. ElectionInv /\ LogTypes
  BY ElectionInit, LogTypesInit
<1>2. Links = {}
  BY EmptySeq DEF Init, Links, LogLinks
<1>3. LinkInv
  BY <1>2 DEF LinkInv, LinksAreUnique, LinksHaveLeaders, LeadersHaveTheirLinks
<1> QED BY <1>1, <1>3 DEF LogInv, LeadersMoveOn, Init

LEMMA LogAlways == Spec => []LogInv
BY LogInit, LogStep, PTL DEF Spec

(* The types of the nodes' state, of the messages and of what the driver      *)
(* keeps for a leader.                                                      *)
THEOREM RaftTypes == Spec => []TypeOK
<1>1. LogInv => TypeOK
  BY DEF LogInv, LogTypes
<1> QED BY <1>1, LogAlways, PTL

(* Two sequences of entries whose links are unique, and that agree on the     *)
(* term at an index, agree up to it: of the indices where they differ, the    *)
(* last one would be followed by one where they agree, and so by one link.    *)
LEMMA PathsMatch ==
    ASSUME NEW K, \A x, y \in K: x.index = y.index /\ x.entry.term = y.entry.term => x = y,
           NEW a \in Seq(LogEntry), LogLinks(a) \subseteq K,
           NEW b \in Seq(LogEntry), LogLinks(b) \subseteq K,
           NEW i \in Nat, 1 <= i, i <= Len(a), i <= Len(b), a[i].term = b[i].term
    PROVE  \A k \in 1..i: a[k] = b[k]
<1> SUFFICES ASSUME NEW k \in 1..i PROVE a[k] = b[k]
  OBVIOUS
<1>1. Len(a) \in Nat /\ Len(b) \in Nat
  BY LenProperties
<1>2. \A j \in 1..i: j \in 1..Len(a) /\ j \in 1..Len(b)
  BY <1>1
<1>3. ASSUME NEW j \in 1..i, a[j].term = b[j].term
      PROVE  a[j] = b[j] /\ TermAt(a, j - 1) = TermAt(b, j - 1)
  <2> DEFINE x == [index |-> j, prev |-> TermAt(a, j - 1), entry |-> a[j]]
             y == [index |-> j, prev |-> TermAt(b, j - 1), entry |-> b[j]]
  <2>1. x \in LogLinks(a) /\ y \in LogLinks(b)
    BY <1>2 DEF LogLinks
  <2>2. x \in K /\ y \in K
    BY <2>1
  <2>3. /\ x.index = y.index /\ x.entry = a[j] /\ y.entry = b[j]
        /\ x.prev = TermAt(a, j - 1) /\ y.prev = TermAt(b, j - 1)
    OBVIOUS
  <2> HIDE DEF x, y
  <2>4. x = y
    BY <1>3, <2>2, <2>3
  <2> QED BY <2>3, <2>4
<1> DEFINE differ == {n \in 0..(i - 1) : a[i - n] # b[i - n]}
<1>4. ASSUME differ # {} PROVE FALSE
  <2>1. differ \in SUBSET Nat
    OBVIOUS
  <2>2. PICK n \in differ: \A d \in differ: n <= d
    BY <1>4, <2>1, LeastOfSet
  <2>3. n # 0
    <3>1. a[i] = b[i]
      BY <1>2, <1>3
    <3>2. i - 0 = i
      OBVIOUS
    <3> QED BY <3>1, <3>2
  <2>4. n - 1 \in 0..(i - 1) /\ ~(n <= n - 1) /\ i - (n - 1) = (i - n) + 1
        /\ i - n \in 1..i /\ (i - n) + 1 \in 1..i /\ ((i - n) + 1) - 1 = i - n
    BY <2>2, <2>3
  <2> PICK j : j = i - n
    OBVIOUS
  <2>5. a[j + 1] = b[j + 1]
    <3>1. n - 1 \notin differ
      BY <2>2, <2>4
    <3>2. a[i - (n - 1)] = b[i - (n - 1)]
      BY <2>4, <3>1
    <3> QED BY <2>4, <3>2
  <2>6. TermAt(a, j) = TermAt(b, j)
    <3>1. j + 1 \in 1..i /\ (j + 1) - 1 = j
      BY <2>4
    <3> QED BY <1>3, <2>5, <3>1
  <2>7. a[j].term = b[j].term
    BY <2>4, <2>6 DEF TermAt
  <2>8. a[j] = b[j]
    BY <1>3, <2>4, <2>7
  <2> QED BY <2>2, <2>8
<1>5. i - k \in 0..(i - 1) /\ i - (i - k) = k
  OBVIOUS
<1> QED BY <1>4, <1>5

(* "If two logs contain an entry with same index and term, the logs are       *)
(* identical up to that entry" (raft.py:10).                                 *)
THEOREM LogsMatch == Spec => []LogMatching
<1>1. LogInv => LogMatching
  <2> SUFFICES ASSUME LogInv, NEW a \in Server, NEW b \in Server,
                      NEW i \in 1..Min2(Len(log[a]), Len(log[b])),
                      log[a][i].term = log[b][i].term
               PROVE  \A k \in 1..i: log[a][k] = log[b][k]
    BY DEF LogMatching
  <2>1. /\ log[a] \in Seq(LogEntry) /\ log[b] \in Seq(LogEntry)
        /\ Len(log[a]) \in Nat /\ Len(log[b]) \in Nat
    BY LenProperties DEF LogInv, LogTypes, TypeOK
  <2>2. i \in Nat /\ 1 <= i /\ i <= Len(log[a]) /\ i <= Len(log[b])
    BY <2>1 DEF Min2
  <2>3. /\ LogLinks(log[a]) \subseteq Links /\ LogLinks(log[b]) \subseteq Links
        /\ \A x, y \in Links: x.index = y.index /\ x.entry.term = y.entry.term => x = y
    BY DEF Links, LogInv, LinkInv, LinksAreUnique
  <2> QED BY <2>1, <2>2, <2>3, PathsMatch
<1> QED BY <1>1, LogAlways, PTL

(* "Leader never overwrites or truncates its log entries" (raft.py:9): the     *)
(* log of a node that leads before and after a step is longer or the same.    *)
THEOREM LeadersOnlyAppend == Spec => LeaderAppendOnly
<1>1. ASSUME LogInv, [Next]_vars
      PROVE  [\A s \in Server: state[s] = "Leader" /\ state'[s] = "Leader" =>
                 /\ Len(log'[s]) >= Len(log[s])
                 /\ \A i \in 1..Len(log[s]): log'[s][i] = log[s][i]]_vars
  <2> SUFFICES ASSUME Next, NEW s \in Server, state[s] = "Leader", state'[s] = "Leader"
               PROVE  /\ Len(log'[s]) >= Len(log[s])
                      /\ \A i \in 1..Len(log[s]): log'[s][i] = log[s][i]
    BY <1>1
  <2>1. /\ log \in [Server -> Seq(LogEntry)] /\ state \in [Server -> NodeState]
        /\ Len(log[s]) \in Nat
    BY <1>1, LenProperties DEF LogInv, LogTypes, TypeOK
  <2>2. CASE log'[s] = log[s]
    BY <2>1, <2>2
  <2>3. CASE log'[s] # log[s]
    <3>1. ASSUME NEW q \in Server, NEW m \in appends,
                 AcceptEntries(q, m) \/ RejectEntries(q, m)
          PROVE  FALSE
      <4>1. state' = [state EXCEPT ![q] = "Follower"]
        BY <3>1 DEF AcceptEntries, RejectEntries, HeardFromLeader
      <4>2. q # s
        BY <2>1, <4>1
      <4>3. log'[s] = log[s]
        BY <1>1, <2>1, <3>1, <4>2, AcceptDoes, RejectDoes DEF LogInv
      <4> QED BY <2>3, <4>3
    <3>2. PICK q \in Server, v \in Value: Propose(q, v)
      BY <2>3, <3>1 DEF Next, StartElection, PromoteToLeader, Replicate, UpdateLeaderCommit,
                        HandleRequestVote, Drop, logVars
    <3> DEFINE e == [term |-> current_term[q], command |-> v]
    <3>3. log' = [log EXCEPT ![q] = Append(@, e)]
      BY <3>2 DEF Propose
    <3>4. e \in LogEntry
      BY <1>1 DEF LogInv, LogTypes, TypeOK, LogEntry
    <3> HIDE DEF e
    <3>5. log'[s] = Append(log[s], e)
      BY <2>1, <2>3, <3>3
    <3> QED BY <2>1, <3>4, <3>5, AppendParts
  <2> QED BY <2>2, <2>3
<1> QED BY <1>1, LogAlways, PTL DEF Spec, LeaderAppendOnly

----------------------------------------------------------------------------
(***************************************************************************)
(* What Raft commits, for every number of nodes, terms, commands and messages. *)
(* The driver is one that sends no empty heartbeats and relates a reply to    *)
(* its request (~Heartbeats, ~ReplyMatch); with either of the other two the   *)
(* code does lose what it committed.                                        *)
(*                                                                          *)
(* A path is the log up to an entry.  A path is safe with a set of nodes when *)
(* they keep it and vote for no candidate that is behind it, when nobody who  *)
(* leads its term or a later one is behind it, and when no AppendEntries of   *)
(* these terms and no later entry departs from it.  A new leader cannot break *)
(* this unless it was elected without these nodes; so a path that is safe     *)
(* with a majority is safe for good: it is stable.  The path up to an entry   *)
(* of the leader's own term is safe with the nodes that acknowledged it, or   *)
(* else a majority has gone on to later terms without them and they will      *)
(* never be a majority.  That is why the leader may commit an entry of its     *)
(* own term when a majority acknowledged it, and what it then commits is a    *)
(* stable path.                                                             *)
(***************************************************************************)

LastTerm(P) == P[Len(P)].term

(* An entry at index i with term u is the end of P or goes beyond it.        *)
IsAfter(P, i, u) == u > LastTerm(P) \/ (u = LastTerm(P) /\ i >= Len(P))

Extends(l, P) == Len(P) <= Len(l) /\ \A i \in 1..Len(P): l[i] = P[i]

(* Whatever goes beyond P goes back to its end, link by link.                *)
FollowsIn(K, P) ==
    \A x \in K: IsAfter(P, x.index, x.entry.term) =>
        \/ x.index = Len(P) /\ x.entry.term = LastTerm(P)
        \/ IsAfter(P, x.index - 1, x.prev)

TermOf(m, i) ==
    IF i = m.prev_log_index THEN m.prev_log_term ELSE m.entries[i - m.prev_log_index].term

(* The message says of no index up to the end of P anything else than P.     *)
Compatible(P, m) ==
    /\ \A i \in m.prev_log_index..(m.prev_log_index + Len(m.entries)):
          i <= Len(P) => TermOf(m, i) = TermAt(P, i)
    /\ m.prev_log_index > Len(P) => m.prev_log_term >= LastTerm(P)

----------------------------------------------------------------------------
LEMMA PathType ==
    ASSUME NEW P \in Seq(LogEntry), Len(P) > 0
    PROVE  /\ Len(P) \in Nat /\ 1 <= Len(P) /\ Len(P) \in 1..Len(P)
           /\ LastTerm(P) \in Terms /\ LastTerm(P) \in Nat
           /\ TermAt(P, Len(P)) = LastTerm(P)
<1>1. Len(P) \in Nat /\ 1 <= Len(P) /\ Len(P) \in 1..Len(P)
  BY LenProperties
<1>2. P[Len(P)] \in LogEntry
  BY <1>1, ElementOfSeq
<1> QED BY <1>1, <1>2, RaftAssumption DEF LastTerm, LogEntry, Terms, TermAt

LEMMA EntryTerm ==
    ASSUME NEW l \in Seq(LogEntry), NEW i \in 1..Len(l)
    PROVE  l[i] \in LogEntry /\ l[i].term \in Nat /\ TermAt(l, i) = l[i].term
<1>1. l[i] \in LogEntry
  BY ElementOfSeq
<1>2. Len(l) \in Nat /\ i # 0
  BY LenProperties
<1> QED BY <1>1, <1>2, RaftAssumption DEF LogEntry, Terms, TermAt

(* A log with an entry that goes beyond a path has the path: the first entry  *)
(* that does can only be the end of the path.                               *)
LEMMA BeyondExtends ==
    ASSUME NEW K, \A x, y \in K: x.index = y.index /\ x.entry.term = y.entry.term => x = y,
           NEW P \in Seq(LogEntry), Len(P) > 0, LogLinks(P) \subseteq K, FollowsIn(K, P),
           NEW l \in Seq(LogEntry), LogLinks(l) \subseteq K,
           NEW i \in 1..Len(l), IsAfter(P, i, l[i].term)
    PROVE  Extends(l, P) /\ Len(P) <= i
<1>1. Len(l) \in Nat /\ i \in Nat /\ Len(P) \in Nat /\ 1 <= Len(P) /\ LastTerm(P) \in Nat
  BY PathType, LenProperties
<1> DEFINE after == {j \in 1..Len(l) : IsAfter(P, j, l[j].term)}
<1>2. PICK j \in after: \A n \in after: j <= n
  <2>1. after \in SUBSET Nat /\ i \in after
    OBVIOUS
  <2> HIDE DEF after
  <2> QED BY <2>1, LeastOfSet
<1>3. j \in 1..Len(l) /\ j <= i /\ IsAfter(P, j, l[j].term)
  <2>1. i \in after /\ j \in 1..Len(l) /\ IsAfter(P, j, l[j].term)
    OBVIOUS
  <2> HIDE DEF after
  <2> QED BY <1>2, <2>1
<1>4. j = Len(P) /\ l[j].term = LastTerm(P)
  <2> DEFINE x == [index |-> j, prev |-> TermAt(l, j - 1), entry |-> l[j]]
  <2>1. x \in K /\ x.index = j /\ x.prev = TermAt(l, j - 1) /\ x.entry = l[j]
    BY <1>3 DEF LogLinks
  <2> HIDE DEF x
  <2>2. \/ j = Len(P) /\ l[j].term = LastTerm(P)
        \/ IsAfter(P, j - 1, TermAt(l, j - 1))
    BY <1>3, <2>1 DEF FollowsIn
  <2>3. CASE j = 1
    <3>1. ~IsAfter(P, j - 1, TermAt(l, j - 1))
      BY <1>1, <2>3 DEF IsAfter, TermAt
    <3> QED BY <2>2, <3>1
  <2>4. CASE j # 1
    <3>1. j - 1 \in 1..Len(l) /\ j - 1 # 0 /\ ~(j <= j - 1)
      BY <1>1, <1>3, <2>4
    <3>2. ~IsAfter(P, j - 1, l[j - 1].term)
      BY <1>2, <3>1
    <3> QED BY <2>2, <3>1, <3>2 DEF TermAt
  <2> QED BY <2>3, <2>4
<1>5. \A k \in 1..j: l[k] = P[k]
  <2>1. j \in Nat /\ 1 <= j /\ j <= Len(l) /\ j <= Len(P) /\ l[j].term = P[j].term
    BY <1>1, <1>3, <1>4 DEF LastTerm
  <2> HIDE DEF after
  <2> QED BY <2>1, PathsMatch
<1> QED BY <1>1, <1>3, <1>4, <1>5 DEF Extends

(* The terms of a log do not fall.                                           *)
LEMMA TermsRise ==
    ASSUME NEW l \in Seq(LogEntry), \A x \in LogLinks(l): x.prev <= x.entry.term,
           NEW i \in 1..Len(l), NEW j \in 1..Len(l), i <= j
    PROVE  l[i].term <= l[j].term
<1>1. Len(l) \in Nat /\ i \in Nat /\ j \in Nat
  BY LenProperties
<1> DEFINE less == {n \in 1..Len(l) : i <= n /\ l[n].term < l[i].term}
<1>2. ASSUME less # {} PROVE FALSE
  <2>1. PICK n \in less: \A k \in less: n <= k
    <3>1. less \in SUBSET Nat
      OBVIOUS
    <3> HIDE DEF less
    <3> QED BY <1>2, <3>1, LeastOfSet
  <2>2. n \in 1..Len(l) /\ i <= n /\ l[n].term < l[i].term
    OBVIOUS
  <2>3. l[n].term \in Nat /\ l[i].term \in Nat
    BY <2>2, EntryTerm
  <2>4. n # i
    BY <2>2, <2>3
  <2>5. n - 1 \in 1..Len(l) /\ i <= n - 1 /\ ~(n <= n - 1) /\ n - 1 # 0
    BY <1>1, <2>2, <2>4
  <2>6. ~(l[n - 1].term < l[i].term) /\ l[n - 1].term \in Nat
    BY <2>1, <2>5, EntryTerm
  <2> DEFINE x == [index |-> n, prev |-> TermAt(l, n - 1), entry |-> l[n]]
  <2>7. x \in LogLinks(l) /\ x.prev = TermAt(l, n - 1) /\ x.entry = l[n]
    BY <2>2 DEF LogLinks
  <2> HIDE DEF x
  <2>8. TermAt(l, n - 1) <= l[n].term
    BY <2>7
  <2>9. l[n - 1].term <= l[n].term
    BY <2>5, <2>8 DEF TermAt
  <2> QED BY <2>2, <2>3, <2>6, <2>9
<1>3. l[i].term \in Nat /\ l[j].term \in Nat
  BY EntryTerm
<1>4. j \notin less
  BY <1>2
<1> QED BY <1>3, <1>4

LEMMA ExtendsIn ==
    ASSUME NEW l, NEW P \in Seq(LogEntry), NEW Q \in Seq(LogEntry),
           Extends(l, P), Extends(P, Q), Len(l) \in Nat
    PROVE  Extends(l, Q)
<1>1. Len(P) \in Nat /\ Len(Q) \in Nat /\ Len(Q) <= Len(P)
  BY LenProperties DEF Extends
<1> QED BY <1>1 DEF Extends

(* A log with a path has the path's links.                                   *)
LEMMA ExtendsLinks ==
    ASSUME NEW l \in Seq(LogEntry), NEW P \in Seq(LogEntry), Extends(l, P)
    PROVE  LogLinks(P) \subseteq LogLinks(l)
<1>1. Len(l) \in Nat /\ Len(P) \in Nat /\ Len(P) <= Len(l) /\ \A i \in 1..Len(P): l[i] = P[i]
  BY LenProperties DEF Extends
<1>2. ASSUME NEW i \in 1..Len(P)
      PROVE  i \in 1..Len(l) /\ TermAt(P, i - 1) = TermAt(l, i - 1) /\ P[i] = l[i]
  <2>1. i \in 1..Len(l) /\ (i - 1 = 0 \/ i - 1 \in 1..Len(P))
    BY <1>1
  <2> QED BY <1>1, <2>1 DEF TermAt
<1> QED BY <1>2 DEF LogLinks

(* What entries do not contradict stays when they are merged.                 *)
LEMMA MergedKeeps ==
    ASSUME NEW l \in Seq(LogEntry), NEW prev \in 0..Len(l), NEW b \in Seq(LogEntry),
           NEW n \in 0..Len(l),
           \A k \in 1..Len(b): prev + k <= n => l[prev + k].term = b[k].term
    PROVE  n <= Len(Merged(l, prev, b)) /\ \A i \in 1..n: Merged(l, prev, b)[i] = l[i]
<1> DEFINE N == Merged(l, prev, b)
<1>1. /\ N \in Seq(LogEntry)
      /\ \/ /\ N = l
            /\ Len(l) >= prev + Len(b)
            /\ \A k \in 1..Len(b): l[prev + k].term = b[k].term
         \/ \E from \in 1..Len(b):
               /\ Len(N) = prev + Len(b)
               /\ prev + from - 1 <= Len(l)
               /\ prev + from > Len(l) \/ l[prev + from].term # b[from].term
               /\ \A i \in 1..(prev + from - 1): N[i] = l[i]
               /\ \A k \in 1..(from - 1): l[prev + k].term = b[k].term
               /\ \A k \in from..Len(b): N[prev + k] = b[k]
  BY MergedIs
<1>2. Len(l) \in Nat /\ Len(b) \in Nat /\ prev \in Nat /\ n \in Nat /\ n <= Len(l)
  BY LenProperties
<1> HIDE DEF N
<1>3. CASE N = l
  BY <1>2, <1>3 DEF N
<1>4. CASE N # l
  <2>1. PICK from \in 1..Len(b):
           /\ Len(N) = prev + Len(b)
           /\ prev + from > Len(l) \/ l[prev + from].term # b[from].term
           /\ \A i \in 1..(prev + from - 1): N[i] = l[i]
    BY <1>1, <1>4
  <2>2. prev + from > n
    BY <1>2, <2>1
  <2>3. n <= Len(N) /\ \A i \in 1..n: i \in 1..(prev + from - 1)
    BY <1>2, <2>1, <2>2
  <2> QED BY <2>1, <2>3 DEF N
<1> QED BY <1>3, <1>4

(* A message that agrees with P takes nothing of P, Q being what the node    *)
(* has of it, out of the log of a node that accepts it.                      *)
LEMMA AcceptKeeps ==
    ASSUME NEW l \in Seq(LogEntry), NEW P \in Seq(LogEntry), NEW Q \in Seq(LogEntry),
           Extends(l, Q), Extends(P, Q),
           NEW m, Compatible(P, m), m.prev_log_index \in 0..Len(l), m.entries \in Seq(LogEntry)
    PROVE  Extends(Merged(l, m.prev_log_index, m.entries), Q)
<1> PICK prev, b: prev = m.prev_log_index /\ b = m.entries
  OBVIOUS
<1>1. prev \in 0..Len(l) /\ b \in Seq(LogEntry)
  OBVIOUS
<1>2. Len(l) \in Nat /\ Len(P) \in Nat /\ Len(Q) \in Nat /\ Len(b) \in Nat /\ prev \in Nat
  BY <1>1, LenProperties
<1>3. /\ Len(Q) <= Len(l) /\ \A i \in 1..Len(Q): l[i] = Q[i]
      /\ Len(Q) <= Len(P) /\ \A i \in 1..Len(Q): P[i] = Q[i]
  BY DEF Extends
<1>4. ASSUME NEW k \in 1..Len(b), prev + k <= Len(Q)
      PROVE  l[prev + k].term = b[k].term
  <2>1. /\ prev + k \in prev..(prev + Len(b)) /\ prev + k # prev /\ prev + k # 0
        /\ (prev + k) - prev = k /\ prev + k \in 1..Len(Q) /\ prev + k <= Len(P)
    BY <1>2, <1>3, <1>4
  <2>2. TermOf(m, prev + k) = TermAt(P, prev + k)
    BY <2>1 DEF Compatible
  <2>3. b[k].term = P[prev + k].term
    BY <2>1, <2>2 DEF TermOf, TermAt
  <2> QED BY <1>3, <2>1, <2>3
<1>5. Len(Q) \in 0..Len(l)
  BY <1>2, <1>3
<1>6. /\ Len(Q) <= Len(Merged(l, prev, b))
      /\ \A i \in 1..Len(Q): Merged(l, prev, b)[i] = l[i]
  BY <1>1, <1>4, <1>5, MergedKeeps
<1> QED BY <1>3, <1>6 DEF Extends

(* Nor does a node that refuses it cut P.                                    *)
LEMMA RejectKeeps ==
    ASSUME NEW l \in Seq(LogEntry), NEW P \in Seq(LogEntry), NEW Q \in Seq(LogEntry),
           Extends(l, Q), Extends(P, Q),
           NEW m, Compatible(P, m), m.entries \in Seq(LogEntry),
           NEW n \in 0..Len(l), n + 1 = m.prev_log_index, n + 1 <= Len(l),
           TermAt(l, n + 1) # m.prev_log_term
    PROVE  Extends(SubSeq(l, 1, n), Q)
<1>1. /\ Len(l) \in Nat /\ Len(P) \in Nat /\ Len(Q) \in Nat /\ Len(m.entries) \in Nat /\ n \in Nat
      /\ Len(Q) <= Len(l) /\ \A i \in 1..Len(Q): l[i] = Q[i]
      /\ Len(Q) <= Len(P) /\ \A i \in 1..Len(Q): P[i] = Q[i]
  BY LenProperties DEF Extends
<1>2. n + 1 > Len(Q)
  <2> SUFFICES ASSUME n + 1 <= Len(Q) PROVE FALSE
    BY <1>1
  <2>1. n + 1 \in 1..Len(Q) /\ n + 1 <= Len(P) /\ n + 1 # 0
    BY <1>1
  <2>2. TermOf(m, n + 1) = TermAt(P, n + 1)
    <3>1. m.prev_log_index \in m.prev_log_index..(m.prev_log_index + Len(m.entries))
      BY <1>1
    <3> QED BY <2>1, <3>1 DEF Compatible
  <2>3. l[n + 1] = P[n + 1]
    BY <1>1, <2>1
  <2> QED BY <2>1, <2>2, <2>3 DEF TermOf, TermAt
<1>3. Len(SubSeq(l, 1, n)) = n /\ \A i \in 1..n: SubSeq(l, 1, n)[i] = l[i]
  BY PrefixLinks
<1>4. Len(Q) <= n /\ \A i \in 1..Len(Q): i \in 1..n
  BY <1>1, <1>2
<1> QED BY <1>1, <1>3, <1>4 DEF Extends

(* A node that accepted a message has its terms at its indices.              *)
LEMMA MergedAgrees ==
    ASSUME NEW l \in Seq(LogEntry), NEW m, m.prev_log_index \in 0..Len(l),
           m.entries \in Seq(LogEntry), m.prev_log_term = TermAt(l, m.prev_log_index),
           NEW M, M = Merged(l, m.prev_log_index, m.entries)
    PROVE  /\ M \in Seq(LogEntry)
           /\ m.prev_log_index + Len(m.entries) <= Len(M)
           /\ \A i \in 1..m.prev_log_index: M[i] = l[i]
           /\ \A i \in m.prev_log_index..(m.prev_log_index + Len(m.entries)):
                 TermAt(M, i) = TermOf(m, i)
<1>1. PICK prev, b: prev = m.prev_log_index /\ b = m.entries
  OBVIOUS
<1>2. /\ Len(l) \in Nat /\ Len(b) \in Nat /\ prev \in Nat /\ prev <= Len(l)
      /\ prev \in 0..Len(l) /\ b \in Seq(LogEntry) /\ M = Merged(l, prev, b)
  BY <1>1, LenProperties
<1>3. /\ M \in Seq(LogEntry)
      /\ \/ /\ M = l
            /\ Len(l) >= prev + Len(b)
            /\ \A k \in 1..Len(b): l[prev + k].term = b[k].term
         \/ \E from \in 1..Len(b):
               /\ Len(M) = prev + Len(b)
               /\ prev + from - 1 <= Len(l)
               /\ \A i \in 1..(prev + from - 1): M[i] = l[i]
               /\ \A k \in 1..(from - 1): l[prev + k].term = b[k].term
               /\ \A k \in from..Len(b): M[prev + k] = b[k]
  <2> DEFINE N == Merged(l, prev, b)
  <2>1. /\ N \in Seq(LogEntry)
        /\ \/ /\ N = l
              /\ Len(l) >= prev + Len(b)
              /\ \A k \in 1..Len(b): l[prev + k].term = b[k].term
           \/ \E from \in 1..Len(b):
                 /\ Len(N) = prev + Len(b)
                 /\ prev + from - 1 <= Len(l)
                 /\ prev + from > Len(l) \/ l[prev + from].term # b[from].term
                 /\ \A i \in 1..(prev + from - 1): N[i] = l[i]
                 /\ \A k \in 1..(from - 1): l[prev + k].term = b[k].term
                 /\ \A k \in from..Len(b): N[prev + k] = b[k]
    BY <1>2, MergedIs
  <2>2. M = N
    BY <1>2
  <2> HIDE DEF N
  <2> QED BY <2>1, <2>2
<1>4. /\ prev + Len(b) <= Len(M)
      /\ \A i \in 1..prev: M[i] = l[i]
      /\ \A k \in 1..Len(b): M[prev + k].term = b[k].term
  <2>1. CASE M = l /\ Len(l) >= prev + Len(b)
             /\ \A k \in 1..Len(b): l[prev + k].term = b[k].term
    BY <1>2, <2>1
  <2>2. ASSUME NEW from \in 1..Len(b), Len(M) = prev + Len(b),
               \A i \in 1..(prev + from - 1): M[i] = l[i],
               \A k \in 1..(from - 1): l[prev + k].term = b[k].term,
               \A k \in from..Len(b): M[prev + k] = b[k]
        PROVE  /\ prev + Len(b) <= Len(M)
               /\ \A i \in 1..prev: M[i] = l[i]
               /\ \A k \in 1..Len(b): M[prev + k].term = b[k].term
    <3>1. \A i \in 1..prev: i \in 1..(prev + from - 1)
      BY <1>2
    <3>2. ASSUME NEW k \in 1..Len(b) PROVE M[prev + k].term = b[k].term
      <4>1. k \in from..Len(b) \/ (k \in 1..(from - 1) /\ prev + k \in 1..(prev + from - 1))
        BY <1>2
      <4> QED BY <2>2, <4>1
    <3> QED BY <1>2, <2>2, <3>1, <3>2
  <2> QED BY <1>3, <2>1, <2>2
<1>5. ASSUME NEW i \in prev..(prev + Len(b)) PROVE TermAt(M, i) = TermOf(m, i)
  <2>1. CASE i = prev
    <3>1. prev = 0 \/ prev \in 1..prev
      BY <1>2
    <3> QED BY <1>1, <1>4, <2>1, <3>1 DEF TermOf, TermAt
  <2>2. CASE i # prev
    <3>1. i - prev \in 1..Len(b) /\ prev + (i - prev) = i /\ i # 0
      BY <1>2, <2>2
    <3>2. M[prev + (i - prev)].term = b[i - prev].term
      BY <1>4, <3>1
    <3> QED BY <1>1, <2>2, <3>1, <3>2 DEF TermOf, TermAt
  <2> QED BY <2>1, <2>2
<1> QED BY <1>1, <1>3, <1>4, <1>5


----------------------------------------------------------------------------
(* What a step does to the terms, the states and the logs of the nodes, to    *)
(* the votes, the messages and the acknowledgements.                         *)
LEMMA TermsMove ==
    ASSUME LogInv, [Next]_vars, NEW q \in Server
    PROVE  /\ current_term[q] \in Nat /\ current_term'[q] \in Nat
           /\ current_term[q] <= current_term'[q]
<1>1. /\ current_term \in [Server -> Terms] /\ \A t \in Terms: t \in Nat
      /\ \A m \in votes: m.term \in Nat
      /\ \A m \in appends: m.term \in Nat
  BY RaftAssumption DEF LogInv, ElectionInv, ElectionTypes, LogTypes, TypeOK, Terms
<1>2. ASSUME NEW s \in Server, StartElection(s)
      PROVE  current_term'[q] \in Nat /\ current_term[q] <= current_term'[q]
  BY <1>1, <1>2 DEF StartElection
<1>3. ASSUME NEW s \in Server, NEW m \in votes, HandleRequestVote(s, m)
      PROVE  current_term'[q] \in Nat /\ current_term[q] <= current_term'[q]
  BY <1>1, <1>3 DEF HandleRequestVote
<1>4. ASSUME NEW s \in Server, NEW m \in appends, AcceptEntries(s, m) \/ RejectEntries(s, m)
      PROVE  current_term'[q] \in Nat /\ current_term[q] <= current_term'[q]
  BY <1>1, <1>4 DEF AcceptEntries, RejectEntries, HeardFromLeader
<1>5. CASE UNCHANGED current_term
  BY <1>1, <1>5
<1>6. ASSUME NEW s \in Server,
             \/ PromoteToLeader(s)
             \/ \E v \in Value: Propose(s, v)
             \/ \E p \in Server: Replicate(s, p)
             \/ UpdateLeaderCommit(s)
             \/ \E m \in appends: Drop(m)
      PROVE  UNCHANGED current_term
  BY <1>6 DEF PromoteToLeader, Propose, Replicate, UpdateLeaderCommit, Drop, electionVars
<1>7. CASE UNCHANGED vars
  BY <1>5, <1>7 DEF vars
<1> QED BY <1>1, <1>2, <1>3, <1>4, <1>5, <1>6, <1>7 DEF Next

(* A node that hears from a leader follows.                                  *)
LEMMA HeardFollows ==
    ASSUME LogInv, NEW s \in Server, NEW m \in appends,
           AcceptEntries(s, m) \/ RejectEntries(s, m)
    PROVE  /\ m \in AppendEntries /\ m.term \in Nat /\ m.from \in Server /\ m.from # s
           /\ current_term[s] <= m.term
           /\ current_term' = [current_term EXCEPT ![s] = m.term]
           /\ state' = [state EXCEPT ![s] = "Follower"]
           /\ current_term'[s] = m.term /\ state'[s] = "Follower"
           /\ \A q \in Server: q # s => /\ current_term'[q] = current_term[q]
                                        /\ state'[q] = state[q]
                                        /\ log'[q] = log[q]
           /\ votes' = votes /\ appends' = appends /\ leaders' = leaders
<1>1. m \in AppendEntries
  BY DEF LogInv, LogTypes, TypeOK
<1>2. /\ m.to = s /\ m.term >= current_term[s]
      /\ current_term' = [current_term EXCEPT ![s] = m.term]
      /\ state' = [state EXCEPT ![s] = "Follower"]
      /\ votes' = votes /\ appends' = appends /\ leaders' = leaders
  BY DEF AcceptEntries, RejectEntries, HeardFromLeader
<1>3. /\ m.term \in Nat /\ m.from \in Server /\ m.from # s
  BY <1>2 DEF LogInv, ElectionInv, ElectionTypes, AppendsAreLeaders
<1>4. current_term \in [Server -> Nat] /\ state \in [Server -> NodeState]
  BY DEF LogInv, ElectionInv, ElectionTypes
<1>5. \A q \in Server: q # s => log'[q] = log[q]
  <2>1. CASE AcceptEntries(s, m)
    <3>1. log' = [log EXCEPT ![s] = Merged(log[s], m.prev_log_index, m.entries)]
      BY <2>1, AcceptDoes DEF LogInv
    <3> QED BY <3>1 DEF LogInv, LogTypes, TypeOK
  <2>2. CASE RejectEntries(s, m)
    BY <2>2, RejectDoes DEF LogInv
  <2> QED BY <2>1, <2>2
<1> QED BY <1>1, <1>2, <1>3, <1>4, <1>5

LEMMA LogsMove ==
    ASSUME LogInv, [Next]_vars, NEW q \in Server
    PROVE  \/ log'[q] = log[q]
           \/ \E v \in Value: Propose(q, v)
           \/ \E m \in appends: AcceptEntries(q, m) \/ RejectEntries(q, m)
<1>1. log \in [Server -> Seq(LogEntry)]
  BY DEF LogInv, LogTypes, TypeOK
<1>2. ASSUME NEW s \in Server, NEW v \in Value, Propose(s, v), s # q
      PROVE  log'[q] = log[q]
  BY <1>1, <1>2 DEF Propose
<1>3. ASSUME NEW s \in Server, NEW m \in appends, AcceptEntries(s, m) \/ RejectEntries(s, m), s # q
      PROVE  log'[q] = log[q]
  BY <1>3, HeardFollows
<1>4. ASSUME NEW s \in Server,
             \/ StartElection(s) \/ PromoteToLeader(s)
             \/ \E p \in Server: Replicate(s, p)
             \/ UpdateLeaderCommit(s)
             \/ \E m \in votes: HandleRequestVote(s, m)
             \/ \E m \in appends: Drop(m)
      PROVE  log'[q] = log[q]
  BY <1>4 DEF StartElection, PromoteToLeader, Replicate, UpdateLeaderCommit,
              HandleRequestVote, Drop, logVars
<1>5. CASE UNCHANGED vars
  BY <1>5 DEF vars
<1> QED BY <1>2, <1>3, <1>4, <1>5 DEF Next

LEMMA LeadersMove ==
    ASSUME LogInv, [Next]_vars, NEW s \in Server, state'[s] = "Leader"
    PROVE  /\ current_term'[s] = current_term[s]
           /\ state[s] = "Leader" \/ PromoteToLeader(s)
           /\ log'[s] = log[s] \/ \E v \in Value: Propose(s, v)
<1>1. /\ current_term \in [Server -> Nat] /\ state \in [Server -> NodeState]
      /\ \A m \in votes: m.term \in Nat
  BY DEF LogInv, ElectionInv, ElectionTypes
<1>2. ASSUME NEW q \in Server, StartElection(q)
      PROVE  current_term'[s] = current_term[s] /\ state[s] = "Leader"
  BY <1>1, <1>2 DEF StartElection
<1>3. ASSUME NEW q \in Server, NEW m \in votes, HandleRequestVote(q, m)
      PROVE  current_term'[s] = current_term[s] /\ state[s] = "Leader"
  BY <1>1, <1>3 DEF HandleRequestVote
<1>4. ASSUME NEW q \in Server, NEW m \in appends, AcceptEntries(q, m) \/ RejectEntries(q, m)
      PROVE  s # q /\ current_term'[s] = current_term[s] /\ state[s] = "Leader"
  BY <1>1, <1>4, HeardFollows
<1>5. ASSUME NEW q \in Server, PromoteToLeader(q)
      PROVE  current_term'[s] = current_term[s] /\ (state[s] = "Leader" \/ s = q)
  BY <1>1, <1>5 DEF PromoteToLeader
<1>6. ASSUME NEW q \in Server,
             \/ \E v \in Value: Propose(q, v)
             \/ \E p \in Server: Replicate(q, p)
             \/ UpdateLeaderCommit(q)
             \/ \E m \in appends: Drop(m)
      PROVE  current_term'[s] = current_term[s] /\ state[s] = "Leader"
  BY <1>6 DEF Propose, Replicate, UpdateLeaderCommit, Drop, electionVars
<1>7. CASE UNCHANGED vars
  BY <1>7 DEF vars
<1>8. log'[s] = log[s] \/ \E v \in Value: Propose(s, v)
  BY <1>4, LogsMove
<1> QED BY <1>2, <1>3, <1>4, <1>5, <1>6, <1>7, <1>8 DEF Next

LEMMA CandidatesMove ==
    ASSUME LogInv, [Next]_vars, NEW s \in Server, state'[s] = "Candidate"
    PROVE  \/ StartElection(s)
           \/ state[s] = "Candidate" /\ current_term'[s] = current_term[s] /\ log'[s] = log[s]
<1>1. /\ current_term \in [Server -> Nat] /\ state \in [Server -> NodeState]
      /\ \A m \in votes: m.term \in Nat
  BY DEF LogInv, ElectionInv, ElectionTypes
<1>2. ASSUME NEW q \in Server, StartElection(q)
      PROVE  s = q \/ (current_term'[s] = current_term[s] /\ state[s] = "Candidate")
  BY <1>1, <1>2 DEF StartElection
<1>3. ASSUME NEW q \in Server, NEW m \in votes, HandleRequestVote(q, m)
      PROVE  current_term'[s] = current_term[s] /\ state[s] = "Candidate"
  BY <1>1, <1>3 DEF HandleRequestVote
<1>4. ASSUME NEW q \in Server, NEW m \in appends, AcceptEntries(q, m) \/ RejectEntries(q, m)
      PROVE  s # q /\ current_term'[s] = current_term[s] /\ state[s] = "Candidate"
  BY <1>1, <1>4, HeardFollows
<1>5. ASSUME NEW q \in Server, PromoteToLeader(q)
      PROVE  current_term'[s] = current_term[s] /\ state[s] = "Candidate"
  BY <1>1, <1>5 DEF PromoteToLeader
<1>6. ASSUME NEW q \in Server,
             \/ \E v \in Value: Propose(q, v)
             \/ \E p \in Server: Replicate(q, p)
             \/ UpdateLeaderCommit(q)
             \/ \E m \in appends: Drop(m)
      PROVE  current_term'[s] = current_term[s] /\ state[s] = "Candidate"
  BY <1>6 DEF Propose, Replicate, UpdateLeaderCommit, Drop, electionVars
<1>7. CASE UNCHANGED vars
  BY <1>7 DEF vars
<1>8. StartElection(s) \/ (state[s] = "Candidate" /\ current_term'[s] = current_term[s])
  BY <1>2, <1>3, <1>4, <1>5, <1>6, <1>7 DEF Next
<1>9. \/ log'[s] = log[s] \/ state[s] = "Leader"
  BY <1>4, LogsMove DEF Propose
<1> QED BY <1>8, <1>9

(* A vote that is asked for, or granted.                                     *)
LEMMA VotesMove ==
    ASSUME LogInv, [Next]_vars
    PROVE  /\ votes \subseteq votes'
           /\ \A n \in votes' \ votes:
                 \/ \E s \in Server:
                       /\ StartElection(s)
                       /\ n.type = "RequestVote" /\ n.term = current_term[s] + 1 /\ n.from = s
                       /\ n.term = current_term'[s] /\ log' = log
                       /\ n.last_log_index = Len(log[s])
                       /\ n.last_log_term = TermAt(log[s], Len(log[s]))
                 \/ \E s \in Server: \E m \in votes:
                       /\ m.type = "RequestVote" /\ m.term >= current_term[s] /\ m.from \in Server
                       /\ UpToDate(s, m)
                       /\ n.type = "VoteGranted" /\ n.term = m.term /\ n.from = s /\ n.to = m.from
<1>1. current_term \in [Server -> Nat] /\ \A m \in votes: m.from \in Server
  BY DEF LogInv, ElectionInv, ElectionTypes
<1>2. ASSUME NEW s \in Server, StartElection(s)
      PROVE  /\ votes \subseteq votes'
             /\ \A n \in votes' \ votes:
                   /\ n.type = "RequestVote" /\ n.term = current_term[s] + 1 /\ n.from = s
                   /\ n.term = current_term'[s] /\ log' = log
                   /\ n.last_log_index = Len(log[s])
                   /\ n.last_log_term = TermAt(log[s], Len(log[s]))
  BY <1>1, <1>2 DEF StartElection, LastLogIndex, LastLogTerm, logVars
<1>3. ASSUME NEW s \in Server, NEW m \in votes, HandleRequestVote(s, m)
      PROVE  /\ votes \subseteq votes'
             /\ \A n \in votes' \ votes:
                   /\ m.type = "RequestVote" /\ m.term >= current_term[s] /\ m.from \in Server
                   /\ UpToDate(s, m)
                   /\ n.type = "VoteGranted" /\ n.term = m.term /\ n.from = s /\ n.to = m.from
  BY <1>1, <1>3 DEF HandleRequestVote
<1>4. ASSUME NEW s \in Server,
             \/ PromoteToLeader(s)
             \/ \E v \in Value: Propose(s, v)
             \/ \E p \in Server: Replicate(s, p)
             \/ UpdateLeaderCommit(s)
             \/ \E m \in appends: AcceptEntries(s, m) \/ RejectEntries(s, m) \/ Drop(m)
      PROVE  votes' = votes
  BY <1>4 DEF PromoteToLeader, Propose, Replicate, UpdateLeaderCommit, AcceptEntries,
              RejectEntries, Drop
<1>5. CASE UNCHANGED vars
  BY <1>5 DEF vars
<1>6. CASE \E s \in Server: StartElection(s)
  BY <1>2, <1>6
<1>7. CASE \E s \in Server: \E m \in votes: HandleRequestVote(s, m)
  <2>1. PICK s \in Server, m \in votes : HandleRequestVote(s, m)
    BY <1>7
  <2>2. /\ votes \subseteq votes'
        /\ \A n \in votes' \ votes:
              /\ m.type = "RequestVote" /\ m.term >= current_term[s] /\ m.from \in Server
              /\ UpToDate(s, m)
              /\ n.type = "VoteGranted" /\ n.term = m.term /\ n.from = s /\ n.to = m.from
    BY <1>3, <2>1
  <2> QED BY <2>2
<1> QED BY <1>4, <1>5, <1>6, <1>7 DEF Next

(* What a leader has in the log it has in the message.                       *)
IsPart(m, l) ==
    /\ m.prev_log_index \in 0..Len(l)
    /\ m.prev_log_index + Len(m.entries) <= Len(l)
    /\ m.prev_log_term = TermAt(l, m.prev_log_index)
    /\ \A k \in 1..Len(m.entries): m.entries[k] = l[m.prev_log_index + k]

LEMMA AppendsMove ==
    ASSUME LogInv, [Next]_vars, NEW m \in appends', m \notin appends
    PROVE  \E s \in Server:
              /\ state[s] = "Leader" /\ m.from = s /\ m.term = current_term[s]
              /\ m.entries \in Seq(LogEntry) /\ IsPart(m, log[s])
              /\ m.leader_commit = commit_index[s]
              /\ Heartbeats \/ m.prev_log_index + Len(m.entries) = Len(log[s])
              /\ UNCHANGED <<current_term, state, log, commit_index, applied, match_index,
                             votes, leaders>>
<1>1. ASSUME NEW s \in Server,
             \/ StartElection(s) \/ PromoteToLeader(s)
             \/ \E v \in Value: Propose(s, v)
             \/ UpdateLeaderCommit(s)
             \/ \E n \in votes: HandleRequestVote(s, n)
             \/ \E n \in appends: AcceptEntries(s, n) \/ RejectEntries(s, n) \/ Drop(n)
      PROVE  FALSE
  BY <1>1 DEF StartElection, PromoteToLeader, Propose, UpdateLeaderCommit, HandleRequestVote,
              AcceptEntries, RejectEntries, Drop
<1>2. ~UNCHANGED vars
  BY DEF vars
<1>3. PICK s \in Server, p \in Server: Replicate(s, p)
  BY <1>1, <1>2 DEF Next
<1>4. /\ state[s] = "Leader"
      /\ UNCHANGED <<current_term, voted_for, state, log, commit_index, applied,
                     next_index, match_index, votes, leaders>>
      /\ \E n \in AppendEntries:
            /\ appends' = appends \union {n}
            /\ n.term = current_term[s] /\ n.from = s /\ n.to = p
            /\ n.prev_log_index = next_index[s][p] - 1
            /\ n.prev_log_index \in 0..Len(log[s])
            /\ n.prev_log_term = TermAt(log[s], n.prev_log_index)
            /\ \/ n.entries = SubSeq(log[s], n.prev_log_index + 1, Len(log[s]))
               \/ Heartbeats /\ n.entries = <<>>
            /\ n.entries \in {<<>>, SubSeq(log[s], n.prev_log_index + 1, Len(log[s]))}
            /\ n.leader_commit = commit_index[s]
  BY <1>3, ReplicateSends DEF LogInv
<1>5. PICK prev : prev = m.prev_log_index
  OBVIOUS
<1>6. /\ m.term = current_term[s] /\ m.from = s
      /\ prev \in 0..Len(log[s])
      /\ m.prev_log_term = TermAt(log[s], prev)
      /\ m.entries = SubSeq(log[s], prev + 1, Len(log[s])) \/ Heartbeats
      /\ m.entries \in {<<>>, SubSeq(log[s], prev + 1, Len(log[s]))}
      /\ m.leader_commit = commit_index[s]
  BY <1>4, <1>5
<1>7. log[s] \in Seq(LogEntry) /\ Len(log[s]) \in Nat /\ prev \in Nat /\ prev <= Len(log[s])
  BY <1>6, LenProperties DEF LogInv, LogTypes, TypeOK
<1>8. /\ m.entries \in Seq(LogEntry)
      /\ prev + Len(m.entries) <= Len(log[s])
      /\ \A k \in 1..Len(m.entries): m.entries[k] = log[s][prev + k]
  <2>1. /\ m.entries \in Seq(LogEntry)
        /\ prev + Len(m.entries) <= Len(log[s])
        /\ \A k \in 1..Len(m.entries): m.entries[k] = log[s][prev + k]
        /\ AppendLinks(m) \subseteq LogLinks(log[s])
    BY <1>5, <1>6, <1>7, SentLinks
  <2> QED BY <2>1
<1>9. Heartbeats \/ prev + Len(m.entries) = Len(log[s])
  <2> SUFFICES ASSUME m.entries = SubSeq(log[s], prev + 1, Len(log[s]))
               PROVE  prev + Len(m.entries) = Len(log[s])
    BY <1>6
  <2>1. Len(SubSeq(log[s], prev + 1, Len(log[s]))) = Len(log[s]) - (prev + 1) + 1
    <3>1. prev + 1 \in Nat \ {0} /\ prev + 1 <= Len(log[s]) + 1 /\ Len(log[s]) <= Len(log[s])
      BY <1>7
    <3> QED BY <1>7, <3>1, SubSeqParts
  <2> QED BY <1>7, <2>1
<1>10. IsPart(m, log[s])
  BY <1>5, <1>6, <1>8 DEF IsPart
<1> QED BY <1>4, <1>5, <1>6, <1>8, <1>9, <1>10

(* A leader's new entry.                                                     *)
LEMMA ProposeDoes ==
    ASSUME LogInv, NEW s \in Server, NEW v \in Value, Propose(s, v)
    PROVE  /\ state[s] = "Leader"
           /\ UNCHANGED <<current_term, state, voted_for, commit_index, applied, match_index,
                          votes, appends, leaders>>
           /\ log[s] \in Seq(LogEntry) /\ log'[s] \in Seq(LogEntry)
           /\ Len(log'[s]) = Len(log[s]) + 1
           /\ \A i \in 1..Len(log[s]): log'[s][i] = log[s][i]
           /\ log'[s][Len(log[s]) + 1].term = current_term[s]
           /\ \A q \in Server: q # s => log'[q] = log[q]
           /\ \A x \in Links' \ Links:
                 /\ x.index = Len(log[s]) + 1 /\ x.prev = TermAt(log[s], Len(log[s]))
                 /\ x.entry.term = current_term[s]
<1> DEFINE e == [term |-> current_term[s], command |-> v]
<1>1. /\ state[s] = "Leader" /\ log' = [log EXCEPT ![s] = Append(@, e)]
      /\ UNCHANGED <<current_term, state, voted_for, commit_index, applied, match_index,
                     votes, appends, leaders>>
  BY DEF Propose, electionVars, leaderVars
<1>2. e \in LogEntry /\ e.term = current_term[s]
  BY DEF LogInv, LogTypes, TypeOK, LogEntry
<1> HIDE DEF e
<1>3. log \in [Server -> Seq(LogEntry)]
  BY DEF LogInv, LogTypes, TypeOK
<1>4. /\ log[s] \in Seq(LogEntry) /\ log'[s] = Append(log[s], e)
      /\ \A q \in Server: q # s => log'[q] = log[q]
  BY <1>1, <1>3
<1>5. /\ log'[s] \in Seq(LogEntry) /\ Len(log'[s]) = Len(log[s]) + 1
      /\ \A i \in 1..Len(log[s]): log'[s][i] = log[s][i]
      /\ log'[s][Len(log[s]) + 1] = e
  BY <1>2, <1>4, AppendParts
<1> DEFINE new == [index |-> Len(log[s]) + 1, prev |-> TermAt(log[s], Len(log[s])), entry |-> e]
<1>6. LogLinks(Append(log[s], e)) = LogLinks(log[s]) \union {new}
  BY <1>2, <1>4, LongerLinks
<1>7. /\ new.index = Len(log[s]) + 1 /\ new.prev = TermAt(log[s], Len(log[s]))
      /\ new.entry.term = current_term[s]
  BY <1>2
<1> HIDE DEF new
<1>8. LogLinks(Append(log[s], e)) \subseteq Links \union {new}
  BY <1>6 DEF Links
<1>9. Links' \subseteq Links \union {new}
  <2>1. log' = [log EXCEPT ![s] = Append(log[s], e)] /\ appends' \subseteq appends
    BY <1>1, <1>3
  <2> QED BY <1>3, <1>8, <2>1, LinksOfLog
<1> QED BY <1>1, <1>2, <1>4, <1>5, <1>7, <1>9

LEMMA LinksMove ==
    ASSUME LogInv, [Next]_vars
    PROVE  Links' \subseteq Links \/ \E s \in Server, v \in Value: Propose(s, v)
<1>1. ASSUME NEW s \in Server,
             \/ StartElection(s) \/ PromoteToLeader(s) \/ UpdateLeaderCommit(s)
             \/ \E m \in votes: HandleRequestVote(s, m)
             \/ \E m \in appends: Drop(m)
      PROVE  Links' \subseteq Links
  <2>1. log' = log /\ appends' \subseteq appends
    BY <1>1 DEF StartElection, PromoteToLeader, UpdateLeaderCommit, HandleRequestVote, Drop, logVars
  <2> QED BY <2>1 DEF Links
<1>2. CASE UNCHANGED vars
  BY <1>2 DEF vars, Links
<1> QED BY <1>1, <1>2, ReplicateLinks, AcceptLinks, RejectLinks DEF Next

(* An acknowledgement, from a driver that relates it to its request.         *)
LEMMA MatchMove ==
    ASSUME LogInv, ~ReplyMatch, [Next]_vars, NEW s \in Server, NEW q \in Server,
           state'[s] = "Leader"
    PROVE  \/ PromoteToLeader(s) /\ match_index'[s][q] = 0
           \/ state[s] = "Leader" /\ match_index'[s][q] = match_index[s][q]
           \/ /\ state[s] = "Leader"
              /\ \E m \in appends:
                    /\ AcceptEntries(q, m) /\ m.from = s /\ m.term = current_term[s]
                    /\ match_index'[s][q] = Max2(match_index[s][q],
                                                 m.prev_log_index + Len(m.entries))
<1>1. match_index \in [Server -> [Server -> Nat]] /\ state \in [Server -> NodeState]
  BY DEF LogInv, LogTypes, TypeOK
<1>2. CASE PromoteToLeader(s)
  BY <1>1, <1>2 DEF PromoteToLeader
<1>3. CASE state[s] = "Leader"
  <2>1. ASSUME NEW r \in Server, PromoteToLeader(r)
        PROVE  match_index'[s] = match_index[s]
    <3>1. r # s
      BY <1>3, <2>1 DEF PromoteToLeader
    <3> QED BY <1>1, <2>1, <3>1 DEF PromoteToLeader
  <2>2. ASSUME NEW r \in Server, NEW m \in appends, RejectEntries(r, m)
        PROVE  match_index' = match_index
    <3>1. RecordFailure(r, m)
      BY <2>2 DEF RejectEntries
    <3> QED BY <3>1, RecordFailureTypes DEF LogInv
  <2>3. ASSUME NEW r \in Server, NEW m \in appends, AcceptEntries(r, m)
        PROVE  \/ match_index'[s][q] = match_index[s][q]
               \/ /\ r = q /\ m.from = s /\ m.term = current_term[s]
                  /\ match_index'[s][q] = Max2(match_index[s][q],
                                               m.prev_log_index + Len(m.entries))
    <3>1. PICK l : RecordSuccess(r, m, l)
      BY <2>3 DEF AcceptEntries
    <3>2. m.from \in Server
      BY DEF LogInv, ElectionInv, ElectionTypes
    <3>3. CASE match_index' = match_index
      BY <3>3
    <3>4. CASE match_index' # match_index
      <4>1. /\ current_term[m.from] = m.term
            /\ match_index' = [match_index EXCEPT ![m.from][r] =
                  Max2(match_index[m.from][r], m.prev_log_index + Len(m.entries))]
        BY <3>1, <3>4 DEF RecordSuccess, Awaited, leaderVars, Acknowledged
      <4> QED BY <1>1, <3>2, <4>1
    <3> QED BY <3>3, <3>4
  <2>4. ASSUME NEW r \in Server,
               \/ StartElection(r)
               \/ \E v \in Value: Propose(r, v)
               \/ \E p \in Server: Replicate(r, p)
               \/ UpdateLeaderCommit(r)
               \/ \E m \in votes: HandleRequestVote(r, m)
               \/ \E m \in appends: Drop(m)
        PROVE  match_index' = match_index
    BY <2>4 DEF StartElection, Propose, Replicate, UpdateLeaderCommit, HandleRequestVote, Drop,
                leaderVars
  <2>5. CASE UNCHANGED vars
    BY <2>5 DEF vars
  <2> QED BY <1>3, <2>1, <2>2, <2>3, <2>4, <2>5 DEF Next
<1> QED BY <1>2, <1>3, LeadersMove

(* A vote that is new was asked for.                                         *)
LEMMA GrantsMove ==
    ASSUME LogInv, [Next]_vars, NEW t, NEW v, NEW c, Granted(t, v, c)', ~Granted(t, v, c)
    PROVE  /\ v \in Server
           /\ \E m \in votes: /\ m.type = "RequestVote" /\ m.term = t /\ m.from = c
                              /\ m.term >= current_term[v] /\ UpToDate(v, m)
<1> DEFINE n == [type |-> "VoteGranted", term |-> t, from |-> v, to |-> c]
<1>1. n \in votes' \ votes /\ n.type = "VoteGranted" /\ n.term = t /\ n.from = v /\ n.to = c
  BY DEF Granted
<1> HIDE DEF n
<1>2. PICK s \in Server: \E m \in votes:
         /\ m.type = "RequestVote" /\ m.term >= current_term[s] /\ UpToDate(s, m)
         /\ n.term = m.term /\ n.from = s /\ n.to = m.from
  BY <1>1, VotesMove
<1> QED BY <1>1, <1>2

----------------------------------------------------------------------------
(* What the argument needs beside the links: where terms, requests, messages  *)
(* and acknowledgements come from.                                          *)
TermsAreBounded ==
    /\ \A s \in Server: \A i \in 1..Len(log[s]): log[s][i].term <= current_term[s]
    /\ \A m \in appends: \A k \in 1..Len(m.entries): m.entries[k].term <= m.term

LinksAreSorted == \A x \in Links: x.prev <= x.entry.term

(* A node asks for votes once in a term, and nobody votes before it asks.    *)
RequestsAreUnique ==
    \A m, n \in votes: m.type = "RequestVote" /\ n.type = "RequestVote"
                       /\ m.term = n.term /\ m.from = n.from => m = n

RequestsAreNotAhead ==
    \A m \in votes: m.type = "RequestVote" => m.term <= current_term[m.from]

GrantsAreNotAhead ==
    \A t \in Nat: \A v, c \in Server: Granted(t, v, c) => t <= current_term[c]

(* A candidate still has the log it asked with.                              *)
CandidatesAsked ==
    \A s \in Server: state[s] = "Candidate" =>
        \E m \in votes: /\ m.type = "RequestVote" /\ m.term = current_term[s] /\ m.from = s
                        /\ m.last_log_index = Len(log[s])
                        /\ m.last_log_term = TermAt(log[s], Len(log[s]))

(* A leader still has what it sent.                                          *)
AppendsArePart == \A m \in appends: Awaited(m) => IsPart(m, log[m.from])

AcksAreInLog ==
    \A s, q \in Server: state[s] = "Leader" => match_index[s][q] <= Len(log[s])

OriginInv ==
    /\ TermsAreBounded /\ LinksAreSorted
    /\ RequestsAreUnique /\ RequestsAreNotAhead /\ GrantsAreNotAhead /\ CandidatesAsked
    /\ AppendsArePart /\ AcksAreInLog

LEMMA OriginInit == Init => OriginInv
<1> SUFFICES ASSUME Init PROVE OriginInv
  OBVIOUS
<1>1. Links = {} /\ \A s \in Server: log[s] = <<>> /\ Len(log[s]) = 0
  BY EmptySeq DEF Init, Links, LogLinks
<1> QED BY <1>1 DEF Init, OriginInv, TermsAreBounded, LinksAreSorted, RequestsAreUnique,
                    RequestsAreNotAhead, GrantsAreNotAhead, Granted, CandidatesAsked,
                    AppendsArePart, AcksAreInLog

(* The entries of a log have its links, and those of a message.              *)
LEMMA TermsAreBoundedStep ==
    ASSUME LogInv, OriginInv, [Next]_vars
    PROVE  TermsAreBounded'
<1>1. TermsAreBounded /\ LogInv /\ log \in [Server -> Seq(LogEntry)]
  BY DEF OriginInv, LogInv, LogTypes, TypeOK
<1>2. ASSUME NEW s \in Server, NEW i \in 1..Len(log'[s])
      PROVE  log'[s][i].term <= current_term'[s]
  <2>1. /\ log[s] \in Seq(LogEntry) /\ Len(log[s]) \in Nat
        /\ current_term[s] \in Nat /\ current_term'[s] \in Nat /\ current_term[s] <= current_term'[s]
    BY <1>1, TermsMove, LenProperties
  <2>2. \A j \in 1..Len(log[s]): log[s][j].term <= current_term'[s]
    BY <1>1, <2>1, EntryTerm DEF TermsAreBounded
  <2>3. CASE log'[s] = log[s]
    BY <2>2, <2>3
  <2>4. ASSUME NEW v \in Value, Propose(s, v) PROVE log'[s][i].term <= current_term'[s]
    <3>1. /\ Len(log'[s]) = Len(log[s]) + 1 /\ current_term' = current_term
          /\ \A j \in 1..Len(log[s]): log'[s][j] = log[s][j]
          /\ log'[s][Len(log[s]) + 1].term = current_term[s]
      BY <2>4, ProposeDoes
    <3>2. i \in 1..Len(log[s]) \/ i = Len(log[s]) + 1
      BY <2>1, <3>1
    <3> QED BY <2>1, <2>2, <3>1, <3>2
  <2>5. ASSUME NEW m \in appends, AcceptEntries(s, m) PROVE log'[s][i].term <= current_term'[s]
    <3>1. /\ current_term'[s] = m.term
          /\ \A k \in 1..Len(m.entries): m.entries[k].term <= m.term
      BY <1>1, <2>5, HeardFollows DEF TermsAreBounded
    <3>2. /\ log[s] \in Seq(LogEntry) /\ m.prev_log_index \in 0..Len(log[s])
          /\ m.prev_log_term = TermAt(log[s], m.prev_log_index)
          /\ m.entries \in Seq(LogEntry)
          /\ log' = [log EXCEPT ![s] = Merged(log[s], m.prev_log_index, m.entries)]
      BY <1>1, <2>5, AcceptDoes DEF LogInv
    <3>3. log'[s] = Merged(log[s], m.prev_log_index, m.entries)
      BY <1>1, <3>2
    <3>4. LogLinks(log'[s]) \subseteq LogLinks(log[s]) \union AppendLinks(m)
      BY <3>2, <3>3, MergedLinks
    <3>5. PICK x \in LogLinks(log[s]) \union AppendLinks(m) : x.entry = log'[s][i]
      <4> PICK l : l = log'[s]
        OBVIOUS
      <4> DEFINE y == [index |-> i, prev |-> TermAt(l, i - 1), entry |-> l[i]]
      <4>1. y \in LogLinks(l) /\ y.entry = l[i]
        BY DEF LogLinks
      <4> HIDE DEF y
      <4> QED BY <3>4, <4>1
    <3>6. CASE x \in LogLinks(log[s])
      BY <2>2, <3>5, <3>6 DEF LogLinks
    <3>7. CASE x \in AppendLinks(m)
      BY <3>1, <3>5, <3>7 DEF AppendLinks
    <3> QED BY <3>6, <3>7
  <2>6. ASSUME NEW m \in appends, RejectEntries(s, m) PROVE log'[s][i].term <= current_term'[s]
    <3>1. log' = log \/ \E n \in 0..Len(log[s]): log' = [log EXCEPT ![s] = SubSeq(log[s], 1, n)]
      BY <1>1, <2>6, RejectDoes DEF LogInv
    <3>2. CASE \E n \in 0..Len(log[s]): log' = [log EXCEPT ![s] = SubSeq(log[s], 1, n)]
      <4>1. PICK n \in 0..Len(log[s]) : log'[s] = SubSeq(log[s], 1, n)
        BY <1>1, <3>2
      <4>2. /\ Len(SubSeq(log[s], 1, n)) = n
            /\ \A j \in 1..n: SubSeq(log[s], 1, n)[j] = log[s][j]
        BY <2>1, PrefixLinks
      <4>3. i \in 1..n /\ i \in 1..Len(log[s])
        BY <2>1, <4>1, <4>2
      <4> QED BY <2>2, <4>1, <4>2, <4>3
    <3> QED BY <2>3, <3>1, <3>2
  <2> QED BY <1>1, <2>3, <2>4, <2>5, <2>6, LogsMove
<1>3. ASSUME NEW m \in appends', NEW k \in 1..Len(m.entries)
      PROVE  m.entries[k].term <= m.term
  <2>1. CASE m \in appends
    BY <1>1, <2>1 DEF TermsAreBounded
  <2>2. CASE m \notin appends
    <3>1. PICK s \in Server: /\ m.term = current_term[s] /\ m.entries \in Seq(LogEntry)
                             /\ IsPart(m, log[s])
      BY <1>1, <2>2, AppendsMove
    <3>2. /\ m.prev_log_index \in Nat /\ Len(log[s]) \in Nat /\ Len(m.entries) \in Nat
          /\ m.entries[k] = log[s][m.prev_log_index + k]
      BY <1>1, <3>1, LenProperties DEF IsPart
    <3>3. m.prev_log_index + k \in 1..Len(log[s])
      BY <3>1, <3>2 DEF IsPart
    <3> QED BY <1>1, <3>1, <3>2, <3>3 DEF TermsAreBounded
  <2> QED BY <2>1, <2>2
<1> QED BY <1>2, <1>3 DEF TermsAreBounded

LEMMA LinksAreSortedStep ==
    ASSUME LogInv, OriginInv, [Next]_vars
    PROVE  LinksAreSorted'
<1>1. LinksAreSorted /\ TermsAreBounded /\ log \in [Server -> Seq(LogEntry)]
  BY DEF OriginInv, LogInv, LogTypes, TypeOK
<1>2. CASE Links' \subseteq Links
  BY <1>1, <1>2 DEF LinksAreSorted
<1>3. ASSUME NEW s \in Server, NEW v \in Value, Propose(s, v) PROVE LinksAreSorted'
  <2>1. \A x \in Links' \ Links: x.prev = TermAt(log[s], Len(log[s])) /\ x.entry.term = current_term[s]
    BY <1>3, ProposeDoes
  <2>2. TermAt(log[s], Len(log[s])) <= current_term[s]
    <3>1. Len(log[s]) \in Nat /\ current_term[s] \in Nat
      BY <1>1, LenProperties, TermsMove
    <3>2. CASE Len(log[s]) = 0
      BY <3>1, <3>2 DEF TermAt
    <3>3. CASE Len(log[s]) # 0
      <4>1. Len(log[s]) \in 1..Len(log[s])
        BY <3>1, <3>3
      <4> QED BY <1>1, <4>1, <3>3 DEF TermAt, TermsAreBounded
    <3> QED BY <3>2, <3>3
  <2> QED BY <1>1, <2>1, <2>2 DEF LinksAreSorted
<1> QED BY <1>2, <1>3, LinksMove

LEMMA RequestsStep ==
    ASSUME LogInv, OriginInv, [Next]_vars
    PROVE  RequestsAreUnique' /\ RequestsAreNotAhead' /\ GrantsAreNotAhead' /\ CandidatesAsked'
<1>1. /\ RequestsAreUnique /\ RequestsAreNotAhead /\ GrantsAreNotAhead /\ CandidatesAsked
      /\ LogInv /\ \A m \in votes: m.term \in Nat /\ m.from \in Server
  BY DEF OriginInv, LogInv, ElectionInv, ElectionTypes
<1>2. \A q \in Server: /\ current_term[q] \in Nat /\ current_term'[q] \in Nat
                       /\ current_term[q] <= current_term'[q]
  BY TermsMove
<1>3. votes \subseteq votes'
  BY VotesMove
<1>4. ASSUME NEW n \in votes' \ votes, n.type = "RequestVote"
      PROVE  \E s \in Server:
                /\ StartElection(s) /\ n.term = current_term[s] + 1 /\ n.from = s
                /\ n.term = current_term'[s] /\ log' = log
                /\ n.last_log_index = Len(log[s])
                /\ n.last_log_term = TermAt(log[s], Len(log[s]))
  BY <1>4, VotesMove
<1>5. RequestsAreUnique'
  <2> SUFFICES ASSUME NEW m \in votes', NEW n \in votes',
                      m.type = "RequestVote", n.type = "RequestVote",
                      m.term = n.term, m.from = n.from
               PROVE  m = n
    BY DEF RequestsAreUnique
  <2>1. CASE m \in votes /\ n \in votes
    BY <1>1, <2>1 DEF RequestsAreUnique
  <2>2. ASSUME NEW a \in votes, NEW b \in votes' \ votes, a.type = "RequestVote",
               b.type = "RequestVote", a.term = b.term, a.from = b.from
        PROVE  FALSE
    BY <1>1, <1>2, <1>4, <2>2 DEF RequestsAreNotAhead
  <2>3. CASE m \notin votes /\ n \notin votes
    <3>1. PICK s \in Server: StartElection(s)
      BY <1>4, <2>3
    <3> DEFINE r == [type |-> "RequestVote", term |-> current_term[s] + 1, from |-> s,
                     last_log_index |-> LastLogIndex(s), last_log_term |-> LastLogTerm(s)]
    <3>2. votes' = votes \union {r}
      BY <3>1 DEF StartElection
    <3> HIDE DEF r
    <3> QED BY <2>3, <3>2
  <2> QED BY <2>1, <2>2, <2>3
<1>6. RequestsAreNotAhead'
  <2> SUFFICES ASSUME NEW n \in votes', n.type = "RequestVote"
               PROVE  n.term <= current_term'[n.from]
    BY DEF RequestsAreNotAhead
  <2>1. CASE n \in votes
    BY <1>1, <1>2, <2>1 DEF RequestsAreNotAhead
  <2>2. CASE n \notin votes
    BY <1>2, <1>4, <2>2
  <2> QED BY <2>1, <2>2
<1>7. GrantsAreNotAhead'
  <2> SUFFICES ASSUME NEW t \in Nat, NEW v \in Server, NEW c \in Server, Granted(t, v, c)'
               PROVE  t <= current_term'[c]
    BY DEF GrantsAreNotAhead
  <2>1. CASE Granted(t, v, c)
    BY <1>1, <1>2, <2>1 DEF GrantsAreNotAhead
  <2>2. CASE ~Granted(t, v, c)
    <3>1. PICK m \in votes: m.type = "RequestVote" /\ m.term = t /\ m.from = c
      BY <2>2, GrantsMove
    <3> QED BY <1>1, <1>2, <3>1 DEF RequestsAreNotAhead
  <2> QED BY <2>1, <2>2
<1>8. CandidatesAsked'
  <2> SUFFICES ASSUME NEW s \in Server, state'[s] = "Candidate"
               PROVE  \E m \in votes':
                        /\ m.type = "RequestVote" /\ m.term = current_term'[s] /\ m.from = s
                        /\ m.last_log_index = Len(log'[s])
                        /\ m.last_log_term = TermAt(log'[s], Len(log'[s]))
    BY DEF CandidatesAsked
  <2>1. CASE StartElection(s)
    <3> DEFINE r == [type |-> "RequestVote", term |-> current_term[s] + 1, from |-> s,
                     last_log_index |-> LastLogIndex(s), last_log_term |-> LastLogTerm(s)]
    <3>1. r \in votes' /\ log' = log /\ current_term'[s] = current_term[s] + 1
      BY <2>1 DEF StartElection, logVars, LogInv, LogTypes, TypeOK
    <3>2. /\ r.type = "RequestVote" /\ r.term = current_term[s] + 1 /\ r.from = s
          /\ r.last_log_index = Len(log[s]) /\ r.last_log_term = TermAt(log[s], Len(log[s]))
      BY DEF LastLogIndex, LastLogTerm
    <3> HIDE DEF r
    <3> QED BY <3>1, <3>2
  <2>2. CASE state[s] = "Candidate" /\ current_term'[s] = current_term[s] /\ log'[s] = log[s]
    BY <1>1, <1>3, <2>2 DEF CandidatesAsked
  <2> QED BY <2>1, <2>2, CandidatesMove
<1> QED BY <1>5, <1>6, <1>7, <1>8

LEMMA AppendsArePartStep ==
    ASSUME LogInv, OriginInv, [Next]_vars
    PROVE  AppendsArePart'
<1> SUFFICES ASSUME NEW m \in appends', Awaited(m)' PROVE IsPart(m, log'[m.from])
  BY DEF AppendsArePart, IsPart
<1>1. /\ AppendsArePart /\ LogInv /\ log \in [Server -> Seq(LogEntry)]
      /\ state'[m.from] = "Leader" /\ current_term'[m.from] = m.term
  BY DEF OriginInv, LogInv, LogTypes, TypeOK, Awaited
<1>2. CASE m \in appends
  <2> PICK s : s = m.from
    OBVIOUS
  <2>1. s \in Server /\ <<m.term, s>> \in leaders /\ m.term \in Terms
    BY <1>1, <1>2 DEF LogInv, ElectionInv, ElectionTypes, AppendsAreLeaders, LogTypes, TypeOK,
                      AppendEntries
  <2>2. /\ current_term[s] = m.term /\ (state[s] = "Leader" \/ PromoteToLeader(s))
        /\ log'[s] = log[s] \/ \E v \in Value: Propose(s, v)
    BY <1>1, <2>1, LeadersMove
  <2>3. state[s] = "Leader"
    <3>1. current_term[s] > m.term \/ state[s] = "Leader"
      BY <2>1 DEF LogInv, LeadersMoveOn
    <3>2. current_term[s] \in Nat
      BY <2>1, TermsMove
    <3> QED BY <2>2, <3>1, <3>2
  <2>4. IsPart(m, log[s])
    BY <1>1, <1>2, <2>2, <2>3 DEF AppendsArePart, Awaited
  <2>5. CASE log'[s] = log[s]
    BY <2>4, <2>5
  <2>6. ASSUME NEW v \in Value, Propose(s, v) PROVE IsPart(m, log'[s])
    <3>1. /\ Len(log'[s]) = Len(log[s]) + 1 /\ Len(log[s]) \in Nat
          /\ \A i \in 1..Len(log[s]): log'[s][i] = log[s][i]
      BY <1>1, <2>1, <2>6, ProposeDoes, LenProperties
    <3>2. m.entries \in Seq(LogEntry) /\ Len(m.entries) \in Nat /\ m.prev_log_index \in Nat
      BY <1>2, LenProperties DEF LogInv, LogTypes, TypeOK, AppendEntries
    <3> PICK a, b, l, n : a = log[s] /\ b = log'[s] /\ l = Len(m.entries) /\ n = m.prev_log_index
      OBVIOUS
    <3>3. /\ n \in 0..Len(a) /\ n + l <= Len(a) /\ m.prev_log_term = TermAt(a, n)
          /\ \A k \in 1..l: m.entries[k] = a[n + k]
      BY <2>4 DEF IsPart
    <3>4. /\ Len(b) = Len(a) + 1 /\ Len(a) \in Nat /\ \A i \in 1..Len(a): b[i] = a[i]
          /\ l \in Nat /\ n \in Nat
      BY <3>1, <3>2
    <3>5. n \in 0..Len(b) /\ n + l <= Len(b)
      BY <3>3, <3>4
    <3>6. TermAt(b, n) = TermAt(a, n)
      <4>1. n = 0 \/ n \in 1..Len(a)
        BY <3>3, <3>4
      <4> QED BY <3>4, <4>1 DEF TermAt
    <3>7. \A k \in 1..l: m.entries[k] = b[n + k]
      <4>1. \A k \in 1..l: n + k \in 1..Len(a)
        BY <3>3, <3>4
      <4> QED BY <3>3, <3>4, <4>1
    <3> QED BY <3>3, <3>5, <3>6, <3>7 DEF IsPart
  <2> QED BY <2>2, <2>5, <2>6
<1>3. CASE m \notin appends
  BY <1>1, <1>3, AppendsMove
<1> QED BY <1>2, <1>3

LEMMA AcksAreInLogStep ==
    ASSUME LogInv, OriginInv, ~ReplyMatch, [Next]_vars
    PROVE  AcksAreInLog'
<1> SUFFICES ASSUME NEW s \in Server, NEW q \in Server, state'[s] = "Leader"
             PROVE  match_index'[s][q] <= Len(log'[s])
  BY DEF AcksAreInLog
<1>1. /\ AppendsArePart /\ AcksAreInLog /\ log \in [Server -> Seq(LogEntry)]
      /\ match_index[s][q] \in Nat
  BY DEF OriginInv, LogInv, LogTypes, TypeOK
<1>2. Len(log[s]) \in Nat /\ Len(log'[s]) \in Nat /\ Len(log[s]) <= Len(log'[s])
  <2>1. Len(log[s]) \in Nat
    BY <1>1, LenProperties
  <2>2. log'[s] = log[s] \/ Len(log'[s]) = Len(log[s]) + 1
    BY LeadersMove, ProposeDoes
  <2> QED BY <2>1, <2>2
<1>3. CASE match_index'[s][q] = 0
  BY <1>2, <1>3
<1>4. CASE state[s] = "Leader" /\ match_index'[s][q] = match_index[s][q]
  BY <1>1, <1>2, <1>4 DEF AcksAreInLog
<1>5. ASSUME state[s] = "Leader", NEW m \in appends, m.from = s, m.term = current_term[s],
             match_index'[s][q] = Max2(match_index[s][q], m.prev_log_index + Len(m.entries))
      PROVE  match_index'[s][q] <= Len(log'[s])
  <2>1. m.prev_log_index + Len(m.entries) <= Len(log[s])
    BY <1>1, <1>5 DEF AppendsArePart, Awaited, IsPart
  <2>2. m.prev_log_index \in Nat /\ Len(m.entries) \in Nat
    BY LenProperties DEF LogInv, LogTypes, TypeOK, AppendEntries
  <2>3. match_index[s][q] <= Len(log[s])
    BY <1>1, <1>5 DEF AcksAreInLog
  <2> QED BY <1>1, <1>2, <1>5, <2>1, <2>2, <2>3 DEF Max2
<1> QED BY <1>3, <1>4, <1>5, MatchMove

LEMMA OriginStep ==
    ASSUME LogInv, OriginInv, ~ReplyMatch, [Next]_vars
    PROVE  OriginInv'
BY TermsAreBoundedStep, LinksAreSortedStep, RequestsStep, AppendsArePartStep, AcksAreInLogStep
   DEF OriginInv

----------------------------------------------------------------------------
(* When the path P is safe with the nodes A.                                 *)
FollowsPath(P) == FollowsIn(Links, P)

HoldersKeep(P, A) == \A q \in A: current_term[q] >= LastTerm(P) /\ Extends(log[q], P)

LeadersHave(P) ==
    \A s \in Server: state[s] = "Leader" /\ current_term[s] >= LastTerm(P) =>
        IsAfter(P, Len(log[s]), TermAt(log[s], Len(log[s])))

AppendsFit(P) == \A m \in appends: m.term >= LastTerm(P) => Compatible(P, m)

VotesFor(q, m) == m.from = q \/ Granted(m.term, q, m.from)

HoldersVote(P, A) ==
    \A q \in A: \A m \in votes:
        m.type = "RequestVote" /\ m.term > LastTerm(P) /\ VotesFor(q, m) =>
            IsAfter(P, m.last_log_index, m.last_log_term)

Safe(P, A) ==
    /\ HasLeader(LastTerm(P)) /\ FollowsPath(P) /\ LeadersHave(P) /\ AppendsFit(P)
    /\ HoldersKeep(P, A) /\ HoldersVote(P, A)

(* A majority has gone on to later terms without the nodes A.                *)
Overtaken(P, A) ==
    \E R \in Majority: \A r \in R: current_term[r] > LastTerm(P) /\ r \notin A

(* The links of a safe path exist, and who leads has the path.               *)
LEMMA PathLinks ==
    ASSUME LogInv, NEW P \in Seq(LogEntry), NEW q \in Server, Extends(log[q], P)
    PROVE  LogLinks(P) \subseteq Links
<1>1. log[q] \in Seq(LogEntry)
  BY DEF LogInv, LogTypes, TypeOK
<1> PICK l : l = log[q]
  OBVIOUS
<1>2. LogLinks(P) \subseteq LogLinks(l)
  BY <1>1, ExtendsLinks
<1> QED BY <1>2 DEF Links

LEMMA LeaderExtends ==
    ASSUME LogInv, NEW P \in Seq(LogEntry), Len(P) > 0, LogLinks(P) \subseteq Links,
           FollowsPath(P), LeadersHave(P),
           NEW s \in Server, state[s] = "Leader", current_term[s] >= LastTerm(P)
    PROVE  Extends(log[s], P)
<1> PICK l, K : l = log[s] /\ K = Links
  OBVIOUS
<1>1. /\ l \in Seq(LogEntry) /\ Len(l) \in Nat /\ LogLinks(l) \subseteq K
      /\ \A x, y \in K: x.index = y.index /\ x.entry.term = y.entry.term => x = y
  <2>1. l \in Seq(LogEntry) /\ Len(l) \in Nat
    BY LenProperties DEF LogInv, LogTypes, TypeOK
  <2>2. LogLinks(l) \subseteq K
    BY DEF Links
  <2>3. \A x, y \in K: x.index = y.index /\ x.entry.term = y.entry.term => x = y
    BY DEF LogInv, LinkInv, LinksAreUnique
  <2> QED BY <2>1, <2>2, <2>3
<1>2. IsAfter(P, Len(l), TermAt(l, Len(l)))
  BY DEF LeadersHave
<1>3. Len(l) # 0
  BY <1>2, PathType DEF IsAfter, TermAt
<1>4. Len(l) \in 1..Len(l) /\ IsAfter(P, Len(l), l[Len(l)].term)
  BY <1>1, <1>2, <1>3 DEF TermAt
<1>5. LogLinks(P) \subseteq K /\ FollowsIn(K, P)
  BY DEF FollowsPath
<1>6. Extends(l, P)
  BY <1>1, <1>4, <1>5, BeyondExtends
<1> QED BY <1>6

(* Who has the path is not behind it.                                        *)
LEMMA ExtendsIsAfter ==
    ASSUME LogInv, OriginInv, NEW P \in Seq(LogEntry), Len(P) > 0,
           NEW s \in Server, Extends(log[s], P),
           NEW i \in Nat, Len(P) <= i, i <= Len(log[s])
    PROVE  TermAt(log[s], i) >= LastTerm(P) /\ IsAfter(P, i, TermAt(log[s], i))
<1> PICK l : l = log[s]
  OBVIOUS
<1>1. l \in Seq(LogEntry) /\ Len(l) \in Nat /\ Len(P) \in Nat /\ 1 <= Len(P) /\ LastTerm(P) \in Nat
  BY PathType, LenProperties DEF LogInv, LogTypes, TypeOK
<1>2. \A x \in LogLinks(l): x.prev <= x.entry.term
  BY DEF OriginInv, LinksAreSorted, Links
<1>3. Len(P) \in 1..Len(l) /\ i \in 1..Len(l) /\ i # 0
  BY <1>1
<1>4. l[Len(P)].term <= l[i].term
  BY <1>1, <1>2, <1>3, TermsRise
<1>5. l[Len(P)] = P[Len(P)]
  BY <1>1 DEF Extends
<1>6. l[i].term \in Nat /\ TermAt(l, i) = l[i].term
  BY <1>1, <1>3, EntryTerm
<1>7. TermAt(l, i) >= LastTerm(P)
  BY <1>1, <1>4, <1>5, <1>6 DEF LastTerm
<1>8. IsAfter(P, i, TermAt(l, i))
  BY <1>1, <1>6, <1>7 DEF IsAfter
<1> QED BY <1>7, <1>8

LEMMA FollowsPathStep ==
    ASSUME LogInv, [Next]_vars, NEW P \in Seq(LogEntry), Len(P) > 0,
           FollowsPath(P), LeadersHave(P)
    PROVE  FollowsPath(P)'
<1>1. CASE Links' \subseteq Links
  BY <1>1 DEF FollowsPath, FollowsIn
<1>2. ASSUME NEW s \in Server, NEW v \in Value, Propose(s, v) PROVE FollowsPath(P)'
  <2>1. /\ state[s] = "Leader" /\ log[s] \in Seq(LogEntry)
        /\ \A x \in Links' \ Links:
              /\ x.index = Len(log[s]) + 1 /\ x.prev = TermAt(log[s], Len(log[s]))
              /\ x.entry.term = current_term[s]
    BY <1>2, ProposeDoes
  <2>2. Len(log[s]) \in Nat /\ current_term[s] \in Nat /\ LastTerm(P) \in Nat
    BY <2>1, PathType, TermsMove, LenProperties
  <2>3. ASSUME NEW x \in Links' \ Links, IsAfter(P, x.index, x.entry.term)
        PROVE  IsAfter(P, x.index - 1, x.prev)
    <3>1. current_term[s] >= LastTerm(P)
      BY <2>1, <2>2, <2>3 DEF IsAfter
    <3>2. IsAfter(P, Len(log[s]), TermAt(log[s], Len(log[s])))
      BY <2>1, <3>1 DEF LeadersHave
    <3>3. x.index - 1 = Len(log[s]) /\ x.prev = TermAt(log[s], Len(log[s]))
      BY <2>1, <2>2
    <3> QED BY <3>2, <3>3
  <2> QED BY <2>3 DEF FollowsPath, FollowsIn
<1> QED BY <1>1, <1>2, LinksMove

(* A log with a part of a path that new entries do not contradict keeps it.   *)
LEMMA NodeKeeps ==
    ASSUME LogInv, [Next]_vars, NEW P \in Seq(LogEntry), NEW Q \in Seq(LogEntry),
           Extends(P, Q), NEW q \in Server, Extends(log[q], Q),
           \A m \in appends: m.term >= current_term[q] => Compatible(P, m)
    PROVE  Extends(log'[q], Q)
<1>1. log \in [Server -> Seq(LogEntry)] /\ log[q] \in Seq(LogEntry) /\ Len(log[q]) \in Nat
      /\ LogInv /\ Len(Q) \in Nat
  BY LenProperties DEF LogInv, LogTypes, TypeOK
<1>2. ASSUME NEW v \in Value, Propose(q, v) PROVE Extends(log'[q], Q)
  <2>1. /\ Len(log'[q]) = Len(log[q]) + 1
        /\ \A i \in 1..Len(log[q]): log'[q][i] = log[q][i]
    BY <1>2, ProposeDoes
  <2>2. Len(Q) <= Len(log[q]) /\ \A i \in 1..Len(Q): log[q][i] = Q[i]
    BY DEF Extends
  <2>3. Len(Q) <= Len(log'[q]) /\ \A i \in 1..Len(Q): i \in 1..Len(log[q])
    BY <1>1, <2>1, <2>2
  <2>4. \A i \in 1..Len(Q): log'[q][i] = Q[i]
    BY <2>1, <2>2, <2>3
  <2> QED BY <2>3, <2>4 DEF Extends
<1>3. ASSUME NEW m \in appends, AcceptEntries(q, m) PROVE Extends(log'[q], Q)
  <2>1. /\ m.term >= current_term[q]
        /\ m.prev_log_index \in 0..Len(log[q]) /\ m.entries \in Seq(LogEntry)
        /\ log' = [log EXCEPT ![q] = Merged(log[q], m.prev_log_index, m.entries)]
    BY <1>1, <1>3, AcceptDoes DEF LogInv
  <2> PICK l : l = log[q]
    OBVIOUS
  <2>2. log'[q] = Merged(l, m.prev_log_index, m.entries) /\ l \in Seq(LogEntry)
        /\ m.prev_log_index \in 0..Len(l) /\ Compatible(P, m) /\ Extends(l, Q)
    BY <1>1, <2>1
  <2>3. Extends(Merged(l, m.prev_log_index, m.entries), Q)
    BY <2>1, <2>2, AcceptKeeps
  <2> QED BY <2>2, <2>3
<1>4. ASSUME NEW m \in appends, RejectEntries(q, m) PROVE Extends(log'[q], Q)
  <2>1. /\ m \in AppendEntries /\ m.term >= current_term[q]
        /\ \/ log' = log
           \/ \E n \in 0..Len(log[q]):
                 /\ n + 1 = m.prev_log_index /\ n + 1 <= Len(log[q])
                 /\ TermAt(log[q], n + 1) # m.prev_log_term
                 /\ log' = [log EXCEPT ![q] = SubSeq(log[q], 1, n)]
    BY <1>1, <1>4, RejectDoes DEF LogInv
  <2>2. CASE log' = log
    BY <2>2
  <2>3. CASE log' # log
    <3> PICK l : l = log[q]
      OBVIOUS
    <3>1. PICK n \in 0..Len(l):
             /\ n + 1 = m.prev_log_index /\ n + 1 <= Len(l)
             /\ TermAt(l, n + 1) # m.prev_log_term
             /\ log' = [log EXCEPT ![q] = SubSeq(l, 1, n)]
      BY <2>1, <2>3
    <3>2. l \in Seq(LogEntry) /\ Compatible(P, m) /\ Extends(l, Q) /\ m.entries \in Seq(LogEntry)
      BY <1>1, <2>1 DEF AppendEntries
    <3>3. Extends(SubSeq(l, 1, n), Q)
      BY <3>1, <3>2, RejectKeeps
    <3> QED BY <1>1, <3>1, <3>3
  <2> QED BY <2>2, <2>3
<1> QED BY <1>2, <1>3, <1>4, LogsMove

LEMMA HoldersKeepStep ==
    ASSUME LogInv, [Next]_vars, NEW P \in Seq(LogEntry), Len(P) > 0,
           NEW A \in SUBSET Server, AppendsFit(P), HoldersKeep(P, A)
    PROVE  HoldersKeep(P, A)'
<1> SUFFICES ASSUME NEW q \in A
             PROVE  current_term'[q] >= LastTerm(P) /\ Extends(log'[q], P)
  BY DEF HoldersKeep, Extends
<1>1. /\ current_term[q] >= LastTerm(P) /\ Extends(log[q], P) /\ q \in Server
      /\ current_term[q] \in Nat /\ current_term'[q] \in Nat /\ LastTerm(P) \in Nat
      /\ current_term[q] <= current_term'[q]
  BY TermsMove, PathType DEF HoldersKeep
<1>2. \A m \in appends: m.term >= current_term[q] => Compatible(P, m)
  BY <1>1 DEF AppendsFit, LogInv, ElectionInv, ElectionTypes
<1>3. Extends(P, P)
  BY PathType DEF Extends
<1>4. Extends(log'[q], P)
  BY <1>1, <1>2, <1>3, NodeKeeps
<1> QED BY <1>1, <1>4

(* Who becomes the leader of a later term was voted for by one of the nodes, *)
(* unless a majority left them behind.                                       *)
LEMMA LeadersHaveStep ==
    ASSUME LogInv, OriginInv, [Next]_vars, NEW P \in Seq(LogEntry), Len(P) > 0,
           LogLinks(P) \subseteq Links, NEW A \in SUBSET Server, Safe(P, A)
    PROVE  LeadersHave(P)' \/ Overtaken(P, A)'
<1> SUFFICES ASSUME ~Overtaken(P, A)', NEW s \in Server, state'[s] = "Leader",
                    current_term'[s] >= LastTerm(P)
             PROVE  IsAfter(P, Len(log'[s]), TermAt(log'[s], Len(log'[s])))
  BY DEF LeadersHave, IsAfter
<1>1. /\ LeadersHave(P) /\ FollowsPath(P) /\ HasLeader(LastTerm(P)) /\ HoldersVote(P, A)
      /\ current_term[s] \in Nat /\ LastTerm(P) \in Nat /\ LastTerm(P) \in Terms
  BY TermsMove, PathType DEF Safe
<1>2. /\ current_term'[s] = current_term[s]
      /\ state[s] = "Leader" \/ PromoteToLeader(s)
      /\ log'[s] = log[s] \/ \E v \in Value: Propose(s, v)
  BY LeadersMove
<1>3. CASE state[s] = "Leader"
  <2>1. IsAfter(P, Len(log[s]), TermAt(log[s], Len(log[s])))
    BY <1>1, <1>2, <1>3 DEF LeadersHave
  <2>2. CASE log'[s] = log[s]
    BY <2>1, <2>2
  <2>3. ASSUME NEW v \in Value, Propose(s, v)
        PROVE  IsAfter(P, Len(log'[s]), TermAt(log'[s], Len(log'[s])))
    <3>1. /\ Len(log'[s]) = Len(log[s]) + 1 /\ log[s] \in Seq(LogEntry)
          /\ log'[s][Len(log[s]) + 1].term = current_term[s]
      BY <2>3, ProposeDoes
    <3>2. Extends(log[s], P)
      BY <1>1, <1>2, <1>3, LeaderExtends
    <3>3. Len(log[s]) \in Nat /\ Len(P) \in Nat /\ Len(P) <= Len(log[s])
      BY <3>1, <3>2, PathType, LenProperties DEF Extends
    <3>4. TermAt(log'[s], Len(log'[s])) = current_term[s]
      BY <3>1, <3>3 DEF TermAt
    <3> QED BY <1>1, <1>2, <3>1, <3>3, <3>4 DEF IsAfter
  <2> QED BY <1>2, <2>2, <2>3
<1>4. CASE PromoteToLeader(s)
  <2>1. /\ state[s] = "Candidate" /\ Voters(s) \in Majority
        /\ leaders' = leaders \union {<<current_term[s], s>>}
        /\ current_term' = current_term /\ log' = log
    BY <1>4 DEF PromoteToLeader, logVars
  <2>2. current_term[s] > LastTerm(P)
    <3> SUFFICES ASSUME current_term[s] = LastTerm(P) PROVE FALSE
      BY <1>1, <1>2
    <3> QED BY <1>1, <1>4, FirstOfItsTerm
  <2>3. \A r \in Voters(s): /\ r \in Server /\ current_term[r] >= current_term[s]
                            /\ r = s \/ Granted(current_term[s], r, s)
    <3>1. ASSUME NEW r \in Voters(s)
          PROVE  r \in Server /\ (r = s \/ Granted(current_term[s], r, s))
      BY DEF Voters, Granted
    <3>2. ASSUME NEW r \in Server, Granted(current_term[s], r, s)
          PROVE  current_term[r] >= current_term[s]
      BY <1>1, <3>2, TermsMove DEF LogInv, ElectionInv, VotesAreNotAhead
    <3> QED BY <1>1, <3>1, <3>2
  <2>4. PICK q \in A: q \in Voters(s)
    <3> SUFFICES ASSUME \A r \in Voters(s): r \notin A PROVE FALSE
      OBVIOUS
    <3>1. \A r \in Voters(s): current_term'[r] > LastTerm(P) /\ r \notin A
      BY <1>1, <2>1, <2>2, <2>3, TermsMove
    <3>2. Majority' = Majority
      BY DEF Majority
    <3> QED BY <2>1, <3>1, <3>2 DEF Overtaken
  <2>5. PICK m \in votes: /\ m.type = "RequestVote" /\ m.term = current_term[s] /\ m.from = s
                          /\ m.last_log_index = Len(log[s])
                          /\ m.last_log_term = TermAt(log[s], Len(log[s]))
    BY <2>1 DEF OriginInv, CandidatesAsked
  <2>6. VotesFor(q, m)
    BY <2>3, <2>4, <2>5 DEF VotesFor
  <2>7. IsAfter(P, m.last_log_index, m.last_log_term)
    BY <1>1, <2>2, <2>4, <2>5, <2>6 DEF HoldersVote
  <2> QED BY <2>1, <2>5, <2>7
<1> QED BY <1>2, <1>3, <1>4

LEMMA AppendsFitStep ==
    ASSUME LogInv, OriginInv, [Next]_vars, NEW P \in Seq(LogEntry), Len(P) > 0,
           LogLinks(P) \subseteq Links, FollowsPath(P), LeadersHave(P), AppendsFit(P)
    PROVE  AppendsFit(P)'
<1> SUFFICES ASSUME NEW m \in appends', m.term >= LastTerm(P)
             PROVE  Compatible(P, m)
  BY DEF AppendsFit, Compatible, TermOf, TermAt, LastTerm
<1>1. CASE m \in appends
  BY <1>1 DEF AppendsFit
<1>2. CASE m \notin appends
  <2>1. PICK s \in Server: /\ state[s] = "Leader" /\ m.term = current_term[s]
                           /\ m.entries \in Seq(LogEntry) /\ IsPart(m, log[s])
    BY <1>2, AppendsMove
  <2>2. Extends(log[s], P)
    BY <2>1, LeaderExtends
  <2> PICK l, prev, n : l = log[s] /\ prev = m.prev_log_index /\ n = Len(m.entries)
    OBVIOUS
  <2>3. /\ l \in Seq(LogEntry) /\ Len(l) \in Nat /\ n \in Nat /\ Len(P) \in Nat
        /\ prev \in Nat /\ prev <= Len(l) /\ prev + n <= Len(l)
    BY <2>1, LenProperties, PathType DEF IsPart, LogInv, LogTypes, TypeOK
  <2>4. /\ m.prev_log_term = TermAt(l, prev)
        /\ \A k \in 1..n: m.entries[k] = l[prev + k]
    BY <2>1 DEF IsPart
  <2>5. \A i \in 1..Len(P): l[i] = P[i]
    BY <2>2 DEF Extends
  <2>6. ASSUME NEW i \in prev..(prev + n), i <= Len(P) PROVE TermOf(m, i) = TermAt(P, i)
    <3>1. TermAt(l, i) = TermAt(P, i)
      <4>1. i = 0 \/ i \in 1..Len(P)
        BY <2>3, <2>6
      <4> QED BY <2>5, <4>1 DEF TermAt
    <3>2. CASE i = prev
      BY <2>4, <3>1, <3>2 DEF TermOf
    <3>3. CASE i # prev
      <4>1. i - prev \in 1..n /\ prev + (i - prev) = i /\ i # 0
        BY <2>3, <3>3
      <4>2. m.entries[i - prev] = l[i]
        BY <2>4, <4>1
      <4> QED BY <3>1, <3>3, <4>1, <4>2 DEF TermOf, TermAt
    <3> QED BY <3>2, <3>3
  <2>7. prev > Len(P) => m.prev_log_term >= LastTerm(P)
    <3> SUFFICES ASSUME prev > Len(P) PROVE m.prev_log_term >= LastTerm(P)
      OBVIOUS
    <3>1. Len(P) <= prev /\ prev <= Len(log[s]) /\ prev \in Nat
      BY <2>3
    <3>2. TermAt(log[s], prev) >= LastTerm(P)
      BY <2>2, <3>1, ExtendsIsAfter
    <3> QED BY <2>4, <3>2
  <2> QED BY <2>6, <2>7 DEF Compatible
<1> QED BY <1>1, <1>2

LEMMA HoldersVoteStep ==
    ASSUME LogInv, OriginInv, [Next]_vars, NEW P \in Seq(LogEntry), Len(P) > 0,
           NEW A \in SUBSET Server, HoldersKeep(P, A), HoldersVote(P, A)
    PROVE  HoldersVote(P, A)'
<1> SUFFICES ASSUME NEW q \in A, NEW m \in votes', m.type = "RequestVote",
                    m.term > LastTerm(P), VotesFor(q, m)'
             PROVE  IsAfter(P, m.last_log_index, m.last_log_term)
  BY DEF HoldersVote, IsAfter
<1>1. /\ RequestsAreUnique /\ RequestsAreNotAhead /\ GrantsAreNotAhead
      /\ \A n \in votes: n.term \in Nat /\ n.from \in Server
      /\ q \in Server /\ log[q] \in Seq(LogEntry) /\ Extends(log[q], P)
  BY DEF OriginInv, LogInv, ElectionInv, ElectionTypes, LogTypes, TypeOK, HoldersKeep
<1>2. Len(log[q]) \in Nat /\ Len(P) \in Nat /\ LastTerm(P) \in Nat /\ Len(P) <= Len(log[q])
  BY <1>1, PathType, LenProperties DEF Extends
<1>3. IsAfter(P, Len(log[q]), TermAt(log[q], Len(log[q])))
  BY <1>1, <1>2, ExtendsIsAfter
<1>4. CASE m \in votes
  <2>1. CASE VotesFor(q, m)
    BY <1>4, <2>1 DEF HoldersVote
  <2>2. CASE ~VotesFor(q, m)
    <3>1. Granted(m.term, q, m.from)' /\ ~Granted(m.term, q, m.from)
      BY <2>2 DEF VotesFor
    <3>2. PICK n \in votes: /\ n.type = "RequestVote" /\ n.term = m.term /\ n.from = m.from
                            /\ UpToDate(q, n)
      BY <3>1, GrantsMove
    <3>3. n = m
      BY <1>1, <1>4, <3>2 DEF RequestsAreUnique
    <3>4. \/ m.last_log_term > TermAt(log[q], Len(log[q]))
          \/ m.last_log_term = TermAt(log[q], Len(log[q])) /\ m.last_log_index >= Len(log[q])
      BY <3>2, <3>3 DEF UpToDate, LastLogTerm, LastLogIndex
    <3>5. TermAt(log[q], Len(log[q])) \in Nat
      <4>1. \A t \in Terms: t \in Nat
        BY RaftAssumption DEF Terms
      <4>2. Len(log[q]) \in 0..Len(log[q])
        BY <1>2
      <4> QED BY <1>1, <4>1, <4>2, TermAtType
    <3>6. m.last_log_term \in Nat /\ m.last_log_index \in Nat
      <4>1. m \in RequestVote
        BY <1>4 DEF LogInv, LogTypes, TypeOK, RequestVote, VoteGranted
      <4> QED BY <4>1, RaftAssumption DEF RequestVote, Terms
    <3> QED BY <1>2, <1>3, <3>4, <3>5, <3>6 DEF IsAfter
  <2> QED BY <2>1, <2>2
<1>5. CASE m \notin votes
  <2>1. PICK s \in Server: /\ m.term = current_term[s] + 1 /\ m.from = s /\ log' = log
                           /\ m.last_log_index = Len(log[s])
                           /\ m.last_log_term = TermAt(log[s], Len(log[s]))
    BY <1>5, VotesMove
  <2>2. current_term[s] \in Nat /\ m.term \in Nat /\ ~(m.term <= current_term[s])
    BY <2>1, TermsMove
  <2>3. ~Granted(m.term, q, m.from)'
    <3>1. ~Granted(m.term, q, m.from)
      BY <1>1, <2>1, <2>2 DEF GrantsAreNotAhead
    <3>2. ASSUME Granted(m.term, q, m.from)' PROVE FALSE
      <4>1. PICK n \in votes: n.type = "RequestVote" /\ n.term = m.term /\ n.from = m.from
        BY <3>1, <3>2, GrantsMove
      <4> QED BY <1>1, <2>1, <2>2, <4>1 DEF RequestsAreNotAhead
    <3> QED BY <3>2
  <2>4. s = q
    BY <2>1, <2>3 DEF VotesFor
  <2> QED BY <1>3, <2>1, <2>4
<1> QED BY <1>4, <1>5

LEMMA LeadersGrow ==
    ASSUME [Next]_vars
    PROVE  leaders \subseteq leaders'
<1>1. ASSUME NEW s \in Server, PromoteToLeader(s) PROVE leaders \subseteq leaders'
  BY <1>1 DEF PromoteToLeader
<1>2. ASSUME NEW s \in Server,
             \/ StartElection(s)
             \/ \E v \in Value: Propose(s, v)
             \/ \E p \in Server: Replicate(s, p)
             \/ UpdateLeaderCommit(s)
             \/ \E m \in votes: HandleRequestVote(s, m)
             \/ \E m \in appends: AcceptEntries(s, m) \/ RejectEntries(s, m) \/ Drop(m)
      PROVE  leaders' = leaders
  BY <1>2 DEF StartElection, Propose, Replicate, UpdateLeaderCommit, HandleRequestVote,
              AcceptEntries, RejectEntries, Drop
<1>3. CASE UNCHANGED vars
  BY <1>3 DEF vars
<1> QED BY <1>1, <1>2, <1>3 DEF Next

LEMMA SafeStep ==
    ASSUME LogInv, OriginInv, [Next]_vars, NEW P \in Seq(LogEntry), Len(P) > 0,
           NEW A \in SUBSET Server, A # {}, Safe(P, A)
    PROVE  Safe(P, A)' \/ Overtaken(P, A)'
<1>1. /\ FollowsPath(P) /\ LeadersHave(P) /\ AppendsFit(P)
      /\ HoldersKeep(P, A) /\ HoldersVote(P, A) /\ HasLeader(LastTerm(P))
  BY DEF Safe
<1>2. LogLinks(P) \subseteq Links
  <2>1. PICK q \in A : q \in Server /\ Extends(log[q], P)
    BY <1>1 DEF HoldersKeep
  <2> QED BY <2>1, PathLinks
<1>3. FollowsPath(P)' /\ AppendsFit(P)' /\ HoldersKeep(P, A)' /\ HoldersVote(P, A)'
  BY <1>1, <1>2, FollowsPathStep, AppendsFitStep, HoldersKeepStep, HoldersVoteStep
<1>4. HasLeader(LastTerm(P))'
  <2>1. leaders \subseteq leaders'
    BY LeadersGrow
  <2> QED BY <1>1, <2>1 DEF HasLeader, LastTerm
<1>5. LeadersHave(P)' \/ Overtaken(P, A)'
  BY <1>2, LeadersHaveStep
<1> QED BY <1>3, <1>4, <1>5 DEF Safe

LEMMA OvertakenStep ==
    ASSUME LogInv, [Next]_vars, NEW P \in Seq(LogEntry), Len(P) > 0, NEW A, Overtaken(P, A)
    PROVE  Overtaken(P, A)'
<1>1. PICK R \in Majority: \A r \in R: current_term[r] > LastTerm(P) /\ r \notin A
  BY DEF Overtaken
<1>2. \A r \in R: current_term'[r] > LastTerm(P)
  <2>1. LastTerm(P) \in Nat /\ R \subseteq Server
    BY PathType DEF Majority
  <2> QED BY <1>1, <2>1, TermsMove
<1>3. R \in Majority'
  BY DEF Majority
<1> QED BY <1>1, <1>2, <1>3 DEF Overtaken

(* A node that accepts what the leader sent has the leader's log up to there, *)
(* and has voted in no later term.                                           *)
LEMMA AckJoins ==
    ASSUME LogInv, LogInv', OriginInv, OriginInv', [Next]_vars,
           NEW s \in Server, state[s] = "Leader",
           NEW P \in Seq(LogEntry), Len(P) > 0, Extends(log[s], P), LastTerm(P) = current_term[s],
           NEW q \in Server, NEW m \in appends, AcceptEntries(q, m), m.from = s,
           m.term = current_term[s], Len(P) <= m.prev_log_index + Len(m.entries)
    PROVE  /\ current_term'[q] = LastTerm(P)
           /\ HoldersKeep(P, {q})' /\ HoldersVote(P, {q})'
<1>0. PICK a, b, K, prev, n : /\ a = log[s] /\ b = log'[q] /\ K = Links
                              /\ prev = m.prev_log_index /\ n = Len(m.entries)
  OBVIOUS
<1>1. /\ current_term'[q] = m.term /\ m.term \in Nat /\ votes' = votes
      /\ current_term[q] \in Nat
  BY HeardFollows, TermsMove
<1>2. /\ log[q] \in Seq(LogEntry) /\ prev \in 0..Len(log[q]) /\ m.entries \in Seq(LogEntry)
      /\ m.prev_log_term = TermAt(log[q], prev)
      /\ b = Merged(log[q], prev, m.entries)
  <2>1. /\ log[q] \in Seq(LogEntry) /\ m.prev_log_index \in 0..Len(log[q])
        /\ m.prev_log_term = TermAt(log[q], m.prev_log_index)
        /\ m.entries \in Seq(LogEntry)
        /\ log' = [log EXCEPT ![q] = Merged(log[q], m.prev_log_index, m.entries)]
    BY AcceptDoes DEF LogInv
  <2>2. log'[q] = Merged(log[q], m.prev_log_index, m.entries)
    BY <2>1 DEF LogInv, LogTypes, TypeOK
  <2> QED BY <1>0, <2>1, <2>2
<1>3. /\ b \in Seq(LogEntry) /\ prev + n <= Len(b)
      /\ \A i \in prev..(prev + n): TermAt(b, i) = TermOf(m, i)
  BY <1>0, <1>2, MergedAgrees
<1>4. /\ a \in Seq(LogEntry) /\ Len(a) \in Nat /\ Len(b) \in Nat /\ prev \in Nat /\ n \in Nat
      /\ Len(P) \in Nat /\ 1 <= Len(P)
  <2>1. a \in Seq(LogEntry)
    BY <1>0 DEF LogInv, LogTypes, TypeOK
  <2>2. Len(a) \in Nat /\ Len(b) \in Nat /\ Len(log[q]) \in Nat /\ n \in Nat
    BY <1>0, <1>2, <1>3, <2>1, LenProperties
  <2>3. prev \in Nat
    BY <1>2, <2>2
  <2> QED BY <2>1, <2>2, <2>3, PathType
<1>5. /\ prev + n <= Len(a) /\ m.prev_log_term = TermAt(a, prev)
      /\ \A k \in 1..n: m.entries[k] = a[prev + k]
  BY <1>0 DEF OriginInv, AppendsArePart, Awaited, IsPart
<1>6. a[prev + n].term = b[prev + n].term
  <2>1. prev + n \in prev..(prev + n) /\ prev + n # 0
    BY <1>0, <1>4
  <2>2. b[prev + n].term = TermOf(m, prev + n)
    BY <1>3, <2>1 DEF TermAt
  <2>3. CASE n = 0
    <3>1. prev + n = prev
      BY <1>4, <2>3
    <3> QED BY <1>0, <1>5, <2>1, <2>2, <3>1 DEF TermOf, TermAt
  <2>4. CASE n # 0
    <3>1. prev + n # prev /\ (prev + n) - prev = n /\ n \in 1..n
      BY <1>4, <2>4
    <3> QED BY <1>0, <1>5, <2>2, <3>1 DEF TermOf
  <2> QED BY <2>3, <2>4
<1>7. /\ LogLinks(a) \subseteq K /\ LogLinks(b) \subseteq K
      /\ \A x, y \in K: x.index = y.index /\ x.entry.term = y.entry.term => x = y
  <2>1. LogLinks(a) \subseteq K
    BY <1>0 DEF Links
  <2>2. Links' \subseteq K
    BY <1>0, AcceptLinks
  <2>3. LogLinks(b) \subseteq Links'
    BY <1>0 DEF Links
  <2>4. \A x, y \in K: x.index = y.index /\ x.entry.term = y.entry.term => x = y
    BY <1>0 DEF LogInv, LinkInv, LinksAreUnique
  <2> QED BY <2>1, <2>2, <2>3, <2>4
<1>8. \A i \in 1..(prev + n): a[i] = b[i]
  <2> PICK j : j = prev + n
    OBVIOUS
  <2>1. j \in Nat /\ 1 <= j /\ j <= Len(a) /\ j <= Len(b) /\ a[j].term = b[j].term
    BY <1>0, <1>3, <1>4, <1>5, <1>6
  <2>2. a \in Seq(LogEntry) /\ b \in Seq(LogEntry)
    BY <1>3, <1>4
  <2>3. LogLinks(a) \subseteq K /\ LogLinks(b) \subseteq K
    BY <1>7
  <2>4. \A x, y \in K: x.index = y.index /\ x.entry.term = y.entry.term => x = y
    BY <1>7
  <2>5. \A i \in 1..j: a[i] = b[i]
    BY <2>1, <2>2, <2>3, <2>4, PathsMatch
  <2> QED BY <2>5
<1>9. Extends(b, P)
  <2>1. \A i \in 1..Len(P): i \in 1..(prev + n) /\ a[i] = P[i]
    BY <1>0, <1>4 DEF Extends
  <2> QED BY <1>3, <1>4, <1>8, <2>1 DEF Extends
<1>10. HoldersKeep(P, {q})'
  <2>1. current_term'[q] >= LastTerm(P) /\ Extends(log'[q], P)
    BY <1>0, <1>1, <1>9
  <2> QED BY <2>1 DEF HoldersKeep, Extends, LastTerm
<1>11. HoldersVote(P, {q})'
  <2>1. ASSUME NEW r \in votes', r.type = "RequestVote", r.term > LastTerm(P), VotesFor(q, r)'
        PROVE  FALSE
    <3>1. r.term \in Nat /\ r.from \in Server
      BY DEF LogInv, ElectionInv, ElectionTypes
    <3>2. CASE r.from = q
      <4>1. r.term <= current_term'[q]
        BY <2>1, <3>2 DEF OriginInv, RequestsAreNotAhead
      <4> QED BY <1>1, <2>1, <3>1, <4>1
    <3>3. CASE Granted(r.term, q, r.from)'
      <4>1. r.term <= current_term'[q]
        BY <3>1, <3>3 DEF LogInv, ElectionInv, VotesAreNotAhead
      <4> QED BY <1>1, <2>1, <3>1, <4>1
    <3> QED BY <2>1, <3>2, <3>3 DEF VotesFor
  <2>2. \A r \in votes': ~(r.type = "RequestVote" /\ r.term > LastTerm(P) /\ VotesFor(q, r)')
    BY <2>1
  <2> QED BY <2>2 DEF HoldersVote, LastTerm
<1> QED BY <1>1, <1>10, <1>11

----------------------------------------------------------------------------
(* The leader and the nodes that acknowledged its log up to index k.          *)
Ackers(s, k) == {s} \union {q \in Server : match_index[s][q] >= k}

LeadersAreSafe ==
    \A s \in Server: \A P \in Seq(LogEntry):
        state[s] = "Leader" /\ Len(P) > 0 /\ Extends(log[s], P) /\ LastTerm(P) = current_term[s] =>
            Safe(P, Ackers(s, Len(P))) \/ Overtaken(P, Ackers(s, Len(P)))

(* A leader's new entry: nothing of its term or a later one exists beyond it, *)
(* unless a majority is in a later term already.                             *)
LEMMA NewEntryIsSafe ==
    ASSUME LogInv, LogInv', OriginInv, [Next]_vars, NEW s \in Server, NEW v \in Value,
           Propose(s, v), NEW P \in Seq(LogEntry), Len(P) = Len(log[s]) + 1,
           Extends(log'[s], P), LastTerm(P) = current_term[s]
    PROVE  Safe(P, {s})' \/ Overtaken(P, {s})'
<1>1. /\ state[s] = "Leader"
      /\ UNCHANGED <<current_term, state, voted_for, commit_index, applied, match_index,
                     votes, appends, leaders>>
      /\ log[s] \in Seq(LogEntry) /\ log'[s] \in Seq(LogEntry)
      /\ Len(log'[s]) = Len(log[s]) + 1
      /\ \A i \in 1..Len(log[s]): log'[s][i] = log[s][i]
      /\ log'[s][Len(log[s]) + 1].term = current_term[s]
      /\ \A q \in Server: q # s => log'[q] = log[q]
  BY ProposeDoes
<1>2. /\ Len(log[s]) \in Nat /\ Len(P) \in Nat /\ Len(P) > 0 /\ LastTerm(P) \in Nat
      /\ \A q \in Server: current_term[q] \in Nat
      /\ \A i \in 1..Len(P): log'[s][i] = P[i]
  <2>1. Len(log[s]) \in Nat
    BY <1>1, LenProperties
  <2>2. Len(P) > 0
    BY <2>1
  <2> QED BY <2>1, <2>2, PathType, TermsMove DEF Extends
<1>3. <<LastTerm(P), s>> \in leaders
  BY <1>1 DEF LogInv, ElectionInv, LeadersAreKnown
<1>4. CASE \E u \in Nat: u > LastTerm(P) /\ HasLeader(u)
  <2>1. PICK u \in Nat, a \in Server: u > LastTerm(P) /\ <<u, a>> \in leaders
    BY <1>4 DEF HasLeader
  <2>2. PICK Q \in Majority: \A q \in Q: StandsBy(q, u, a)
    BY <2>1 DEF LogInv, ElectionInv, LeadersHaveMajorities
  <2>3. \A q \in Q: current_term'[q] > LastTerm(P) /\ q \notin {s}
    <3> SUFFICES ASSUME NEW q \in Q PROVE current_term[q] > LastTerm(P)
      BY <1>1, <1>2
    <3>1. q \in Server /\ (current_term[q] > u \/ current_term[q] = u)
      BY <2>2 DEF StandsBy, Majority
    <3> QED BY <1>2, <2>1, <3>1
  <2>4. Q \in Majority'
    BY DEF Majority
  <2> QED BY <2>3, <2>4 DEF Overtaken
<1>5. CASE ~ \E u \in Nat: u > LastTerm(P) /\ HasLeader(u)
  <2>1. \A u \in Nat: \A a \in Server: <<u, a>> \in leaders =>
           u <= LastTerm(P) /\ (u = LastTerm(P) => a = s)
    <3> SUFFICES ASSUME NEW u \in Nat, NEW a \in Server, <<u, a>> \in leaders
                 PROVE  u <= LastTerm(P) /\ (u = LastTerm(P) => a = s)
      OBVIOUS
    <3>1. HasLeader(u)
      BY DEF HasLeader
    <3>2. ~(u > LastTerm(P))
      BY <1>5, <3>1
    <3>3. \A t \in Nat: \A b, c \in Server:
             <<t, b>> \in leaders /\ <<t, c>> \in leaders => b = c
      BY DEF LogInv, ElectionInv, OneLeader
    <3> QED BY <1>2, <1>3, <3>2, <3>3
  <2>2. HasLeader(LastTerm(P))'
    BY <1>1, <1>3 DEF HasLeader, LastTerm
  <2>3. FollowsPath(P)'
    <3> SUFFICES ASSUME NEW x \in Links', IsAfter(P, x.index, x.entry.term)
                 PROVE  x.index = Len(P) /\ x.entry.term = LastTerm(P)
      BY DEF FollowsPath, FollowsIn, LastTerm
    <3>1. PICK a \in Server : <<x.entry.term, a>> \in leaders
      BY <1>1 DEF LogInv, LinkInv, LinksHaveLeaders, HasLeader
    <3>2. x.entry.term \in Nat
      BY <3>1 DEF LogInv, ElectionInv, ElectionTypes
    <3>3. x.entry.term = LastTerm(P) /\ x.index >= Len(P)
      BY <1>2, <2>1, <3>1, <3>2 DEF IsAfter
    <3>4. x.index <= Len(log'[s])
      BY <1>1, <3>3 DEF LogInv, LinkInv, LeadersHaveTheirLinks
    <3>5. x.index \in Nat
      <4>1. CASE \E q \in Server: x \in LogLinks(log'[q])
        BY <4>1 DEF LogLinks
      <4>2. ASSUME NEW m \in appends', x \in AppendLinks(m) PROVE x.index \in Nat
        <5>1. m.prev_log_index \in Nat
          BY DEF LogInv, LogTypes, TypeOK, AppendEntries
        <5> QED BY <4>2, <5>1 DEF AppendLinks
      <4> QED BY <4>1, <4>2 DEF Links
    <3> QED BY <1>1, <1>2, <3>3, <3>4, <3>5
  <2>4. LeadersHave(P)'
    <3> SUFFICES ASSUME NEW q \in Server, state[q] = "Leader", current_term[q] >= LastTerm(P)
                 PROVE  IsAfter(P, Len(log'[q]), TermAt(log'[q], Len(log'[q])))
      BY <1>1 DEF LeadersHave, IsAfter, LastTerm
    <3>1. <<current_term[q], q>> \in leaders
      BY DEF LogInv, ElectionInv, LeadersAreKnown
    <3>2. q = s
      BY <1>2, <2>1, <3>1
    <3>3. TermAt(log'[s], Len(log'[s])) = LastTerm(P) /\ Len(log'[s]) = Len(P)
      BY <1>1, <1>2 DEF TermAt
    <3> QED BY <1>2, <3>2, <3>3 DEF IsAfter
  <2>5. AppendsFit(P)'
    <3> SUFFICES ASSUME NEW m \in appends, m.term >= LastTerm(P) PROVE Compatible(P, m)
      BY <1>1 DEF AppendsFit, Compatible, TermOf, TermAt, LastTerm
    <3>1. m.from = s /\ m.term = current_term[s]
      <4>1. m.term \in Nat /\ m.from \in Server /\ <<m.term, m.from>> \in leaders
        BY DEF LogInv, ElectionInv, ElectionTypes, AppendsAreLeaders
      <4> QED BY <1>2, <2>1, <4>1
    <3>2. IsPart(m, log[s])
      BY <1>1, <3>1 DEF OriginInv, AppendsArePart, Awaited
    <3>3. PICK l, prev, n : l = log[s] /\ prev = m.prev_log_index /\ n = Len(m.entries)
      OBVIOUS
    <3>4. /\ prev \in Nat /\ prev <= Len(l) /\ prev + n <= Len(l) /\ n \in Nat
          /\ Len(P) = Len(l) + 1 /\ Len(l) \in Nat
          /\ m.prev_log_term = TermAt(l, prev)
          /\ \A k \in 1..n: m.entries[k] = l[prev + k]
          /\ \A i \in 1..Len(l): l[i] = P[i]
      <4>1. m.entries \in Seq(LogEntry)
        BY DEF LogInv, LogTypes, TypeOK, AppendEntries
      <4>2. n \in Nat
        BY <3>3, <4>1, LenProperties
      <4> QED BY <1>1, <1>2, <3>2, <3>3, <4>2 DEF IsPart
    <3>5. ASSUME NEW i \in prev..(prev + n) PROVE TermOf(m, i) = TermAt(P, i)
      <4>1. TermAt(l, i) = TermAt(P, i)
        <5>1. i = 0 \/ i \in 1..Len(l)
          BY <3>4
        <5> QED BY <3>4, <5>1 DEF TermAt
      <4>2. CASE i = prev
        BY <3>3, <3>4, <4>1, <4>2 DEF TermOf
      <4>3. CASE i # prev
        <5>1. i - prev \in 1..n /\ prev + (i - prev) = i /\ i # 0
          BY <3>4, <4>3
        <5>2. m.entries[i - prev] = l[i]
          BY <3>4, <5>1
        <5> QED BY <3>3, <4>1, <4>3, <5>1, <5>2 DEF TermOf, TermAt
      <4> QED BY <4>2, <4>3
    <3>6. ~(prev > Len(P))
      BY <3>4
    <3> QED BY <3>3, <3>5, <3>6 DEF Compatible
  <2>6. HoldersKeep(P, {s})'
    <3>1. current_term'[s] >= LastTerm(P) /\ Extends(log'[s], P)
      BY <1>1, <1>2
    <3> QED BY <3>1 DEF HoldersKeep, Extends, LastTerm
  <2>7. HoldersVote(P, {s})'
    <3>1. ASSUME NEW m \in votes, m.type = "RequestVote", m.term > LastTerm(P), VotesFor(s, m)
          PROVE  FALSE
      <4>1. m.term \in Nat /\ m.from \in Server
        BY DEF LogInv, ElectionInv, ElectionTypes
      <4>2. m.term <= current_term[s]
        BY <3>1, <4>1 DEF VotesFor, OriginInv, RequestsAreNotAhead, LogInv, ElectionInv,
                          VotesAreNotAhead
      <4> QED BY <1>2, <3>1, <4>1, <4>2
    <3>2. \A m \in votes: VotesFor(s, m)' <=> VotesFor(s, m)
      BY <1>1 DEF VotesFor, Granted
    <3> QED BY <1>1, <3>1, <3>2 DEF HoldersVote, LastTerm
  <2> QED BY <2>2, <2>3, <2>4, <2>5, <2>6, <2>7 DEF Safe
<1> QED BY <1>4, <1>5

LEMMA LeadersAreSafeStep ==
    ASSUME LogInv, LogInv', OriginInv, OriginInv', ~ReplyMatch, LeadersAreSafe, [Next]_vars
    PROVE  LeadersAreSafe'
<1> SUFFICES ASSUME NEW s \in Server, NEW P \in Seq(LogEntry), state'[s] = "Leader",
                    Len(P) > 0, Extends(log'[s], P), LastTerm(P) = current_term'[s]
             PROVE  Safe(P, Ackers(s, Len(P)))' \/ Overtaken(P, Ackers(s, Len(P)))'
  BY DEF LeadersAreSafe, Extends, LastTerm
<1>1. /\ current_term'[s] = current_term[s]
      /\ state[s] = "Leader" \/ PromoteToLeader(s)
      /\ log'[s] = log[s] \/ \E v \in Value: Propose(s, v)
      /\ log[s] \in Seq(LogEntry) /\ Len(log[s]) \in Nat
      /\ Len(P) \in Nat /\ LastTerm(P) \in Nat /\ Len(P) \in 1..Len(P)
  BY LeadersMove, PathType, LenProperties DEF LogInv, LogTypes, TypeOK
<1>2. PICK B \in SUBSET Server : B = Ackers(s, Len(P))'
  BY DEF Ackers
<1>3. \A q \in B: q = s \/ match_index'[s][q] >= Len(P)
  BY <1>2 DEF Ackers
<1>4. state[s] = "Leader"
  <2> SUFFICES ASSUME PromoteToLeader(s) PROVE FALSE
    BY <1>1
  <2>1. log'[s] = log[s]
    BY DEF PromoteToLeader, logVars
  <2>2. Extends(log[s], P)
    BY <2>1
  <2> DEFINE x == [index |-> Len(P), prev |-> TermAt(P, Len(P) - 1), entry |-> P[Len(P)]]
  <2>3. x \in LogLinks(P) /\ x.entry.term = LastTerm(P)
    BY <1>1 DEF LogLinks, LastTerm
  <2> HIDE DEF x
  <2>4. x \in Links
    BY <2>2, <2>3, PathLinks
  <2>5. HasLeader(current_term[s])
    BY <1>1, <2>3, <2>4 DEF LogInv, LinkInv, LinksHaveLeaders
  <2> QED BY <2>5, FirstOfItsTerm
<1>5. CASE Extends(log[s], P)
  <2>1. PICK A \in SUBSET Server : A = Ackers(s, Len(P))
    BY DEF Ackers
  <2>2. A # {} /\ s \in A /\ \A q \in Server: match_index[s][q] >= Len(P) => q \in A
    BY <2>1 DEF Ackers
  <2>3. Safe(P, A) \/ Overtaken(P, A)
    BY <1>1, <1>4, <1>5, <2>1 DEF LeadersAreSafe
  <2>4. Safe(P, A)' \/ Overtaken(P, A)'
    BY <2>2, <2>3, SafeStep, OvertakenStep
  <2>5. ASSUME NEW q \in B, q \notin A
        PROVE  /\ current_term'[q] = LastTerm(P)
               /\ HoldersKeep(P, {q})' /\ HoldersVote(P, {q})'
    <3>1. q \in Server /\ q # s /\ match_index'[s][q] >= Len(P) /\ ~(match_index[s][q] >= Len(P))
      BY <1>3, <2>2, <2>5
    <3>2. match_index'[s][q] # 0
      BY <1>1, <3>1
    <3>3. PICK m \in appends: /\ AcceptEntries(q, m) /\ m.from = s /\ m.term = current_term[s]
                              /\ match_index'[s][q] = Max2(match_index[s][q],
                                                           m.prev_log_index + Len(m.entries))
      BY <3>1, <3>2, MatchMove
    <3>4. Len(P) <= m.prev_log_index + Len(m.entries)
      <4>1. m.prev_log_index \in Nat /\ Len(m.entries) \in Nat /\ match_index[s][q] \in Nat
        BY <3>1, LenProperties DEF LogInv, LogTypes, TypeOK, AppendEntries
      <4> QED BY <1>1, <3>1, <3>3, <4>1 DEF Max2
    <3> QED BY <1>1, <1>4, <1>5, <3>1, <3>3, <3>4, AckJoins
  <2>6. Safe(P, A)' => Safe(P, B)'
    BY <2>5 DEF Safe, HoldersKeep, HoldersVote
  <2>7. Overtaken(P, A)' => Overtaken(P, B)'
    <3> SUFFICES ASSUME Overtaken(P, A)' PROVE Overtaken(P, B)'
      OBVIOUS
    <3>1. PICK R \in Majority': \A r \in R: current_term'[r] > LastTerm(P) /\ r \notin A
      BY DEF Overtaken, LastTerm
    <3>2. \A q \in B: q \notin A => current_term'[q] = LastTerm(P)
      BY <2>5
    <3>3. \A r \in R: r \notin B
      BY <1>1, <3>1, <3>2
    <3> QED BY <3>1, <3>3 DEF Overtaken, LastTerm
  <2> QED BY <1>2, <2>4, <2>6, <2>7
<1>6. CASE ~Extends(log[s], P)
  <2>1. PICK v \in Value: Propose(s, v)
    BY <1>1, <1>6
  <2>2. /\ Len(log'[s]) = Len(log[s]) + 1 /\ match_index' = match_index
        /\ \A i \in 1..Len(log[s]): log'[s][i] = log[s][i]
    BY <2>1, ProposeDoes
  <2>3. Len(P) = Len(log[s]) + 1
    <3>1. Len(P) <= Len(log[s]) + 1 /\ \A i \in 1..Len(P): log'[s][i] = P[i]
      BY <2>2 DEF Extends
    <3>2. ~(Len(P) <= Len(log[s]))
      <4> SUFFICES ASSUME Len(P) <= Len(log[s]) PROVE FALSE
        OBVIOUS
      <4>1. \A i \in 1..Len(P): i \in 1..Len(log[s])
        BY <1>1
      <4>2. \A i \in 1..Len(P): log[s][i] = P[i]
        BY <2>2, <3>1, <4>1
      <4> QED BY <1>6, <4>2 DEF Extends
    <3> QED BY <1>1, <3>1, <3>2
  <2>4. B = {s}
    <3>1. \A q \in Server: match_index[s][q] \in Nat /\ match_index[s][q] <= Len(log[s])
      BY <1>4 DEF OriginInv, AcksAreInLog, LogInv, LogTypes, TypeOK
    <3>2. \A q \in Server: ~(match_index'[s][q] >= Len(P))
      BY <1>1, <2>2, <2>3, <3>1
    <3>3. s \in B
      BY <1>2 DEF Ackers
    <3> QED BY <1>3, <3>2, <3>3
  <2>5. Safe(P, {s})' \/ Overtaken(P, {s})'
    BY <1>1, <2>1, <2>3, NewEntryIsSafe
  <2> QED BY <1>2, <2>4, <2>5
<1> QED BY <1>5, <1>6


----------------------------------------------------------------------------
(* A path that a majority keeps safe is stable: no majority can go on without *)
(* one of these nodes.                                                      *)
Stable(P) == Len(P) > 0 /\ \E A \in Majority: Safe(P, A)

LEMMA StableMeans ==
    ASSUME LogInv, NEW P \in Seq(LogEntry), Stable(P)
    PROVE  /\ Len(P) > 0 /\ LogLinks(P) \subseteq Links
           /\ FollowsPath(P) /\ LeadersHave(P) /\ AppendsFit(P)
           /\ \E A \in Majority: HoldersKeep(P, A)
<1>1. PICK A \in Majority: Safe(P, A)
  BY DEF Stable
<1>2. PICK q \in Server: q \in A
  BY MajoritiesMeet
<1>3. Extends(log[q], P)
  BY <1>1, <1>2 DEF Safe, HoldersKeep
<1>4. LogLinks(P) \subseteq Links
  BY <1>3, PathLinks
<1> QED BY <1>1, <1>4 DEF Stable, Safe

LEMMA StableStep ==
    ASSUME LogInv, OriginInv, [Next]_vars, NEW P \in Seq(LogEntry), Stable(P)
    PROVE  Stable(P)'
<1>1. PICK A \in Majority: Safe(P, A)
  BY DEF Stable
<1>2. Len(P) > 0 /\ A # {} /\ A \in SUBSET Server
  <2>1. \E q \in Server: q \in A
    BY MajoritiesMeet
  <2> QED BY <2>1 DEF Stable, Majority
<1>3. Safe(P, A)' \/ Overtaken(P, A)'
  BY <1>1, <1>2, SafeStep
<1>4. ASSUME Overtaken(P, A)' PROVE FALSE
  <2>1. PICK R \in Majority': \A r \in R: r \notin A
    BY <1>4 DEF Overtaken
  <2>2. R \in Majority
    BY DEF Majority
  <2>3. \E q \in Server: q \in R /\ q \in A
    BY <2>2, MajoritiesMeet
  <2> QED BY <2>1, <2>3
<1>5. A \in Majority'
  BY DEF Majority
<1> QED BY <1>2, <1>3, <1>4, <1>5 DEF Stable

(* What update_leader_commit finds replicated is a stable path.              *)
LEMMA CommitIsStable ==
    ASSUME LogInv, OriginInv, LeadersAreSafe, NEW s \in Server, state[s] = "Leader",
           NEW n \in 1..Len(log[s]), Replicated(s, n)
    PROVE  \E P \in Seq(LogEntry), A \in Majority:
              /\ Stable(P) /\ LastTerm(P) = current_term[s] /\ Len(P) = n
              /\ Extends(log[s], P) /\ HoldersKeep(P, A)
<1>1. log[s] \in Seq(LogEntry) /\ Len(log[s]) \in Nat /\ n \in 0..Len(log[s]) /\ n \in 1..n
      /\ n \in Nat /\ 1 <= n /\ n <= Len(log[s])
  BY LenProperties DEF LogInv, LogTypes, TypeOK
<1>2. PICK P : P = SubSeq(log[s], 1, n)
  OBVIOUS
<1>3. P \in Seq(LogEntry) /\ Len(P) = n /\ \A i \in 1..n: P[i] = log[s][i]
  BY <1>1, <1>2, PrefixLinks
<1>4. Extends(log[s], P) /\ Len(P) > 0 /\ LastTerm(P) = current_term[s]
  BY <1>1, <1>3 DEF Extends, LastTerm, Replicated
<1>5. PICK A : A = Ackers(s, n)
  OBVIOUS
<1>6. A \in Majority
  <2>1. {s} \union {p \in Server \ {s} : match_index[s][p] >= n} = A
    BY <1>5 DEF Ackers
  <2> QED BY <2>1 DEF Replicated
<1>7. Safe(P, A) \/ Overtaken(P, A)
  BY <1>3, <1>4, <1>5 DEF LeadersAreSafe
<1>8. ~Overtaken(P, A)
  <2> SUFFICES ASSUME NEW R \in Majority, \A r \in R: r \notin A PROVE FALSE
    BY DEF Overtaken
  <2> QED BY <1>6, MajoritiesMeet
<1>9. Stable(P) /\ HoldersKeep(P, A)
  BY <1>4, <1>6, <1>7, <1>8 DEF Stable, Safe
<1> QED BY <1>3, <1>4, <1>6, <1>9

----------------------------------------------------------------------------
(* What a node applied is on a stable path of its term or an earlier one, and *)
(* still in its log.                                                        *)
AppliedIsStable ==
    \A s \in Server:
        /\ Extends(log[s], applied[s])
        /\ Len(applied[s]) > 0 =>
              \E P \in Seq(LogEntry): /\ Stable(P) /\ LastTerm(P) <= current_term[s]
                                      /\ Extends(P, applied[s])

(* So is what a message tells its receiver to commit, and it does not go      *)
(* beyond the entries of the message.                                       *)
CommitsAreStable ==
    \A m \in appends:
        /\ m.leader_commit <= m.prev_log_index + Len(m.entries)
        /\ m.leader_commit > 0 =>
              \E P \in Seq(LogEntry): /\ Stable(P) /\ LastTerm(P) <= m.term
                                      /\ m.leader_commit <= Len(P)

CommitInv == LogInv /\ OriginInv /\ LeadersAreSafe /\ AppliedIsStable /\ CommitsAreStable

(* No step takes back what a node applied.                                   *)
LEMMA AppliedKept ==
    ASSUME LogInv, OriginInv, AppliedIsStable, [Next]_vars, NEW s \in Server
    PROVE  /\ Extends(log'[s], applied[s])
           /\ Len(applied[s]) > 0 =>
                 \E P \in Seq(LogEntry): /\ Stable(P)' /\ LastTerm(P) <= current_term'[s]
                                         /\ Extends(P, applied[s])
<1>0. PICK a : a = applied[s]
  OBVIOUS
<1>1. a \in Seq(LogEntry) /\ Len(a) \in Nat /\ Extends(log[s], a) /\ log'[s] \in Seq(LogEntry)
      /\ Len(log'[s]) \in Nat
  <2>1. log'[s] \in Seq(LogEntry)
    BY LogStep DEF LogInv, LogTypes, TypeOK
  <2>2. a \in Seq(LogEntry)
    BY <1>0 DEF LogInv, LogTypes, TypeOK
  <2>3. Extends(log[s], a)
    BY <1>0 DEF AppliedIsStable
  <2> QED BY <2>1, <2>2, <2>3, LenProperties
<1>2. CASE Len(a) = 0
  BY <1>0, <1>1, <1>2 DEF Extends
<1>3. CASE Len(a) > 0
  <2>1. PICK P \in Seq(LogEntry): /\ Stable(P) /\ LastTerm(P) <= current_term[s]
                                  /\ Extends(P, a)
    BY <1>0, <1>3 DEF AppliedIsStable
  <2>2. Stable(P)' /\ Len(P) > 0
    BY <2>1, StableStep DEF Stable
  <2>3. LastTerm(P) <= current_term'[s] /\ LastTerm(P) <= current_term[s]
        /\ LastTerm(P) \in Nat /\ current_term[s] \in Nat
    BY <2>1, <2>2, PathType, TermsMove
  <2>4. \A m \in appends: m.term >= current_term[s] => Compatible(P, m)
    <3>1. AppendsFit(P)
      BY <2>1, StableMeans
    <3>2. \A m \in appends: m.term \in Nat
      BY DEF LogInv, ElectionInv, ElectionTypes
    <3> QED BY <2>3, <3>1, <3>2 DEF AppendsFit
  <2>5. Extends(log'[s], a)
    BY <1>1, <2>1, <2>4, NodeKeeps
  <2> QED BY <1>0, <2>1, <2>2, <2>3, <2>5
<1> QED BY <1>1, <1>2, <1>3


(* A node that accepts a message then has the path the message commits, as    *)
(* far as the message tells it to commit.                                    *)
LEMMA AcceptedAgrees ==
    ASSUME LogInv, LogInv', NEW s \in Server, NEW m \in appends, AcceptEntries(s, m),
           NEW P \in Seq(LogEntry), Stable(P), LastTerm(P) <= m.term,
           m.leader_commit > 0, m.leader_commit <= Len(P),
           m.leader_commit <= m.prev_log_index + Len(m.entries)
    PROVE  \A i \in 1..Len(P): i <= m.leader_commit /\ i <= Len(log'[s]) => log'[s][i] = P[i]
<1>0. PICK l, K, prev, n, c : /\ l = log'[s] /\ K = Links /\ c = m.leader_commit
                              /\ prev = m.prev_log_index /\ n = Len(m.entries)
  OBVIOUS
<1>1. /\ log[s] \in Seq(LogEntry) /\ prev \in 0..Len(log[s]) /\ m.entries \in Seq(LogEntry)
      /\ m.prev_log_term = TermAt(log[s], prev)
      /\ l = Merged(log[s], prev, m.entries)
  <2>1. /\ log[s] \in Seq(LogEntry) /\ m.prev_log_index \in 0..Len(log[s])
        /\ m.prev_log_term = TermAt(log[s], m.prev_log_index)
        /\ m.entries \in Seq(LogEntry)
        /\ log' = [log EXCEPT ![s] = Merged(log[s], m.prev_log_index, m.entries)]
    BY AcceptDoes DEF LogInv
  <2>2. log'[s] = Merged(log[s], m.prev_log_index, m.entries)
    BY <2>1 DEF LogInv, LogTypes, TypeOK
  <2> QED BY <1>0, <2>1, <2>2
<1>2. /\ l \in Seq(LogEntry) /\ prev + n <= Len(l)
      /\ \A i \in prev..(prev + n): TermAt(l, i) = TermOf(m, i)
  BY <1>0, <1>1, MergedAgrees
<1>3. /\ Len(l) \in Nat /\ prev \in Nat /\ n \in Nat /\ c \in Nat
      /\ Len(P) \in Nat /\ 1 <= Len(P) /\ LastTerm(P) \in Nat
      /\ c > 0 /\ c <= Len(P) /\ c <= prev + n
  <2>1. Len(l) \in Nat /\ n \in Nat /\ Len(log[s]) \in Nat
    BY <1>0, <1>1, <1>2, LenProperties
  <2>2. m \in AppendEntries
    BY DEF LogInv, LogTypes, TypeOK
  <2>3. m.leader_commit \in Nat
    BY <2>2 DEF AppendEntries
  <2>4. Len(P) \in Nat /\ 1 <= Len(P) /\ LastTerm(P) \in Nat
    BY PathType DEF Stable
  <2> QED BY <1>0, <1>1, <2>1, <2>3, <2>4
<1>4. LogLinks(l) \subseteq K
  <2>1. Links' \subseteq K
    BY <1>0, AcceptLinks
  <2>2. LogLinks(l) \subseteq Links'
    BY <1>0 DEF Links
  <2> QED BY <2>1, <2>2
<1>5. LogLinks(P) \subseteq K /\ FollowsIn(K, P)
  BY <1>0, StableMeans DEF FollowsPath
<1>6. \A x, y \in K: x.index = y.index /\ x.entry.term = y.entry.term => x = y
  BY <1>0 DEF LogInv, LinkInv, LinksAreUnique
<1>7. /\ \A i \in prev..(prev + n): i <= Len(P) => TermOf(m, i) = TermAt(P, i)
      /\ prev > Len(P) => m.prev_log_term >= LastTerm(P)
  <2>1. Compatible(P, m)
    BY StableMeans DEF AppendsFit
  <2> QED BY <1>0, <2>1 DEF Compatible
<1>8. CASE prev <= Len(P)
  <2>1. PICK j \in {c, prev}: j >= c /\ j >= prev
    BY <1>3
  <2>2. j \in prev..(prev + n) /\ j \in Nat /\ 1 <= j /\ j <= Len(P) /\ j <= Len(l) /\ j # 0
    BY <1>2, <1>3, <1>8, <2>1
  <2>3. TermAt(l, j) = TermAt(P, j)
    BY <1>2, <1>7, <2>2
  <2>4. l[j].term = P[j].term
    BY <2>2, <2>3 DEF TermAt
  <2>5. \A k \in 1..j: l[k] = P[k]
    BY <1>2, <1>4, <1>5, <1>6, <2>2, <2>4, PathsMatch
  <2>6. \A i \in 1..Len(P): i <= c => i \in 1..j
    BY <1>3, <2>1, <2>2
  <2> QED BY <1>0, <2>5, <2>6
<1>9. CASE prev > Len(P)
  <2>1. prev \in prev..(prev + n) /\ prev \in 1..Len(l) /\ prev # 0
    BY <1>2, <1>3, <1>9
  <2>2. l[prev].term = m.prev_log_term
    BY <1>0, <1>2, <2>1 DEF TermAt, TermOf
  <2>3. l[prev].term \in Nat
    BY <1>2, <2>1, EntryTerm
  <2>4. IsAfter(P, prev, l[prev].term)
    BY <1>3, <1>7, <1>9, <2>2, <2>3 DEF IsAfter
  <2>5. Len(P) > 0
    BY DEF Stable
  <2>6. Extends(l, P)
    BY <1>2, <1>4, <1>5, <1>6, <2>1, <2>4, <2>5, BeyondExtends
  <2> QED BY <1>0, <2>6 DEF Extends
<1> QED BY <1>3, <1>8, <1>9

(* applied[s] only changes where the code calls _apply_entries, and grows by   *)
(* entries of the log up to a new commit index.                              *)
LEMMA AppliedMoves ==
    ASSUME LogInv, LogInv', [Next]_vars, NEW s \in Server
    PROVE  \/ applied'[s] = applied[s]
           \/ \E c \in Nat:
                 /\ c > Len(applied[s]) /\ c <= Len(log'[s]) /\ Len(applied'[s]) = c
                 /\ \A i \in 1..Len(applied[s]): applied'[s][i] = applied[s][i]
                 /\ \A i \in (Len(applied[s]) + 1)..c: applied'[s][i] = log'[s][i]
                 /\ \/ /\ state[s] = "Leader" /\ c \in 1..Len(log[s]) /\ Replicated(s, c)
                       /\ log' = log
                    \/ \E m \in appends: AcceptEntries(s, m) /\ c <= m.leader_commit
<1>0. /\ applied \in [Server -> Seq(LogEntry)] /\ log \in [Server -> Seq(LogEntry)]
      /\ Len(applied[s]) \in Nat /\ Len(log[s]) \in Nat /\ Len(log'[s]) \in Nat
      /\ commit_index \in [Server -> Nat] /\ commit_index[s] <= Len(applied[s])
  <2>1. applied \in [Server -> Seq(LogEntry)] /\ log \in [Server -> Seq(LogEntry)]
        /\ commit_index \in [Server -> Nat] /\ commit_index[s] <= Len(applied[s])
    BY DEF LogInv, LogTypes, TypeOK, CommitIsApplied
  <2>2. log'[s] \in Seq(LogEntry)
    BY DEF LogInv, LogTypes, TypeOK
  <2>3. applied[s] \in Seq(LogEntry) /\ log[s] \in Seq(LogEntry)
    BY <2>1
  <2> QED BY <2>1, <2>2, <2>3, LenProperties
<1>1. CASE UpdateLeaderCommit(s)
  <2>1. PICK n \in (commit_index[s] + 1)..Len(log[s]):
           /\ Replicated(s, n)
           /\ applied' = [applied EXCEPT ![s] = AppliedUpTo(s, log[s], n)]
    BY <1>1 DEF UpdateLeaderCommit
  <2>2. state[s] = "Leader" /\ log' = log
    BY <1>1 DEF UpdateLeaderCommit
  <2>3. n \in Nat /\ n \in 1..Len(log[s]) /\ n <= Len(log[s])
    BY <1>0
  <2>4. applied'[s] = AppliedUpTo(s, log[s], n)
    BY <1>0, <2>1
  <2>5. CASE n <= Len(applied[s])
    BY <2>4, <2>5 DEF AppliedUpTo
  <2>6. CASE n > Len(applied[s])
    <3>1. /\ Len(AppliedUpTo(s, log[s], n)) = Max2(Len(applied[s]), n)
          /\ \A i \in 1..Len(applied[s]): AppliedUpTo(s, log[s], n)[i] = applied[s][i]
          /\ \A i \in (Len(applied[s]) + 1)..n: AppliedUpTo(s, log[s], n)[i] = log[s][i]
      BY <1>0, <2>3, AppliedGrows
    <3>2. Len(applied'[s]) = n
      BY <1>0, <2>3, <2>4, <2>6, <3>1 DEF Max2
    <3> QED BY <2>1, <2>2, <2>3, <2>4, <2>6, <3>1, <3>2
  <2>7. n <= Len(applied[s]) \/ n > Len(applied[s])
    BY <1>0, <2>3
  <2> QED BY <2>5, <2>6, <2>7
<1>2. ASSUME NEW m \in appends, AcceptEntries(s, m)
      PROVE  \/ applied'[s] = applied[s]
             \/ \E c \in Nat:
                   /\ c > Len(applied[s]) /\ c <= Len(log'[s]) /\ Len(applied'[s]) = c
                   /\ \A i \in 1..Len(applied[s]): applied'[s][i] = applied[s][i]
                   /\ \A i \in (Len(applied[s]) + 1)..c: applied'[s][i] = log'[s][i]
                   /\ c <= m.leader_commit
  <2>1. PICK l \in Seq(LogEntry), c \in Nat:
           /\ c = IF m.leader_commit > commit_index[s]
                  THEN Min2(m.leader_commit, Len(l)) ELSE commit_index[s]
           /\ log' = [log EXCEPT ![s] = l]
           /\ applied' = [applied EXCEPT ![s] = AppliedUpTo(s, l, c)]
    BY <1>2, AcceptDoes DEF LogInv
  <2>2. applied'[s] = AppliedUpTo(s, l, c) /\ log'[s] = l
    BY <1>0, <2>1
  <2>3. CASE c <= Len(applied[s])
    BY <2>2, <2>3 DEF AppliedUpTo
  <2>4. CASE c > Len(applied[s])
    <3>1. m.leader_commit \in Nat /\ Len(l) \in Nat
      <4>1. m \in AppendEntries
        BY DEF LogInv, LogTypes, TypeOK
      <4> QED BY <4>1, LenProperties DEF AppendEntries
    <3>2. c <= m.leader_commit /\ c <= Len(l)
      BY <1>0, <2>1, <2>4, <3>1 DEF Min2
    <3>3. /\ Len(AppliedUpTo(s, l, c)) = Max2(Len(applied[s]), c)
          /\ \A i \in 1..Len(applied[s]): AppliedUpTo(s, l, c)[i] = applied[s][i]
          /\ \A i \in (Len(applied[s]) + 1)..c: AppliedUpTo(s, l, c)[i] = l[i]
      BY <1>0, <3>2, AppliedGrows
    <3>4. Len(applied'[s]) = c
      BY <1>0, <2>2, <2>4, <3>3 DEF Max2
    <3> QED BY <2>2, <2>4, <3>2, <3>3, <3>4
  <2>5. c <= Len(applied[s]) \/ c > Len(applied[s])
    BY <1>0
  <2> QED BY <2>3, <2>4, <2>5
<1>3. ASSUME NEW q \in Server,
             \/ StartElection(q)
             \/ PromoteToLeader(q)
             \/ \E v \in Value: Propose(q, v)
             \/ \E p \in Server: Replicate(q, p)
             \/ \E m \in votes: HandleRequestVote(q, m)
             \/ \E m \in appends: RejectEntries(q, m) \/ Drop(m)
      PROVE  applied' = applied
  BY <1>3 DEF StartElection, PromoteToLeader, Propose, Replicate, HandleRequestVote,
              RejectEntries, Drop, logVars
<1>4. ASSUME NEW q \in Server, q # s,
             UpdateLeaderCommit(q) \/ \E m \in appends: AcceptEntries(q, m)
      PROVE  applied'[s] = applied[s]
  BY <1>0, <1>4 DEF UpdateLeaderCommit, AcceptEntries
<1>5. CASE UNCHANGED vars
  BY <1>5 DEF vars
<1> QED BY <1>1, <1>2, <1>3, <1>4, <1>5 DEF Next


LEMMA AppliedIsStableStep ==
    ASSUME CommitInv, LogInv', [Next]_vars
    PROVE  AppliedIsStable'
<1> SUFFICES ASSUME NEW s \in Server
             PROVE  /\ Extends(log'[s], applied'[s])
                    /\ Len(applied'[s]) > 0 =>
                          \E P \in Seq(LogEntry):
                             /\ Stable(P)' /\ LastTerm(P) <= current_term'[s]
                             /\ Extends(P, applied'[s])
  BY DEF AppliedIsStable, Extends, LastTerm
<1>0. LogInv /\ OriginInv /\ LeadersAreSafe /\ AppliedIsStable /\ CommitsAreStable
  BY DEF CommitInv
<1>1. /\ Extends(log'[s], applied[s])
      /\ Len(applied[s]) > 0 =>
            \E P \in Seq(LogEntry): /\ Stable(P)' /\ LastTerm(P) <= current_term'[s]
                                    /\ Extends(P, applied[s])
  BY <1>0, AppliedKept
<1>2. CASE applied'[s] = applied[s]
  BY <1>1, <1>2
<1>3. ASSUME NEW c \in Nat, c > Len(applied[s]), c <= Len(log'[s]), Len(applied'[s]) = c,
             \A i \in 1..Len(applied[s]): applied'[s][i] = applied[s][i],
             \A i \in (Len(applied[s]) + 1)..c: applied'[s][i] = log'[s][i],
             \/ /\ state[s] = "Leader" /\ c \in 1..Len(log[s]) /\ Replicated(s, c)
                /\ log' = log
             \/ \E m \in appends: AcceptEntries(s, m) /\ c <= m.leader_commit
      PROVE  /\ Extends(log'[s], applied'[s])
             /\ \E P \in Seq(LogEntry):
                   /\ Stable(P)' /\ LastTerm(P) <= current_term'[s]
                   /\ Extends(P, applied'[s])
  <2>1. Len(applied[s]) \in Nat /\ current_term[s] \in Nat /\ current_term'[s] \in Nat
        /\ current_term[s] <= current_term'[s]
    BY <1>0, TermsMove, LenProperties DEF LogInv, LogTypes, TypeOK
  <2>2. Extends(log'[s], applied'[s])
    <3>1. ASSUME NEW i \in 1..c PROVE log'[s][i] = applied'[s][i]
      <4>1. CASE i \in 1..Len(applied[s])
        BY <1>1, <1>3, <4>1 DEF Extends
      <4>2. CASE i \in (Len(applied[s]) + 1)..c
        BY <1>3, <4>2
      <4> QED BY <2>1, <4>1, <4>2
    <3> QED BY <1>3, <3>1 DEF Extends
  <2>3. ASSUME NEW P \in Seq(LogEntry), Stable(P), LastTerm(P) <= current_term'[s],
               c <= Len(P), \A i \in 1..c: log'[s][i] = P[i]
        PROVE  \E R \in Seq(LogEntry):
                   /\ Stable(R)' /\ LastTerm(R) <= current_term'[s]
                   /\ Extends(R, applied'[s])
    <3>1. Stable(P)'
      BY <1>0, <2>3, StableStep
    <3>2. \A i \in 1..c: log'[s][i] = applied'[s][i]
      BY <1>3, <2>2 DEF Extends
    <3>3. Extends(P, applied'[s])
      BY <1>3, <2>3, <3>2 DEF Extends
    <3> QED BY <2>3, <3>1, <3>3
  <2>4. CASE state[s] = "Leader" /\ c \in 1..Len(log[s]) /\ Replicated(s, c) /\ log' = log
    <3>1. PICK P \in Seq(LogEntry) : /\ Stable(P) /\ LastTerm(P) = current_term[s]
                                     /\ Len(P) = c /\ Extends(log[s], P)
      BY <1>0, <2>4, CommitIsStable
    <3>2. \A i \in 1..c: log'[s][i] = P[i]
      BY <2>4, <3>1 DEF Extends
    <3>3. LastTerm(P) <= current_term'[s] /\ c <= Len(P)
      BY <2>1, <3>1
    <3> QED BY <2>2, <2>3, <3>1, <3>2, <3>3
  <2>5. ASSUME NEW m \in appends, AcceptEntries(s, m), c <= m.leader_commit
        PROVE  \E P \in Seq(LogEntry):
                   /\ Stable(P)' /\ LastTerm(P) <= current_term'[s]
                   /\ Extends(P, applied'[s])
    <3>1. m.term \in Nat /\ current_term'[s] = m.term
      BY <1>0, <2>5, HeardFollows
    <3>2. m.leader_commit \in Nat
      <4>1. m \in AppendEntries
        BY <1>0 DEF LogInv, LogTypes, TypeOK
      <4> QED BY <4>1 DEF AppendEntries
    <3>3. m.leader_commit > 0
      BY <1>3, <2>1, <2>5, <3>2
    <3>4. m.leader_commit <= m.prev_log_index + Len(m.entries)
      BY <1>0 DEF CommitsAreStable
    <3>5. PICK P \in Seq(LogEntry): /\ Stable(P) /\ LastTerm(P) <= m.term
                                    /\ m.leader_commit <= Len(P)
      BY <1>0, <3>3 DEF CommitsAreStable
    <3>6. \A i \in 1..Len(P): i <= m.leader_commit /\ i <= Len(log'[s]) => log'[s][i] = P[i]
      BY <1>0, <2>5, <3>3, <3>4, <3>5, AcceptedAgrees
    <3>7. Len(P) \in Nat
      BY <3>5, PathType DEF Stable
    <3>8. c <= Len(P)
      BY <2>5, <3>2, <3>5, <3>7
    <3>9. ASSUME NEW i \in 1..c PROVE i \in 1..Len(P) /\ i <= m.leader_commit /\ i <= Len(log'[s])
      <4>1. Len(log'[s]) \in Nat
        BY LenProperties DEF LogInv, LogTypes, TypeOK
      <4> QED BY <1>3, <2>5, <3>2, <3>7, <3>8, <4>1
    <3>10. \A i \in 1..c: log'[s][i] = P[i]
      BY <3>6, <3>9
    <3> QED BY <2>3, <3>1, <3>5, <3>8, <3>10
  <2> QED BY <1>3, <2>2, <2>4, <2>5
<1> QED BY <1>0, <1>2, <1>3, AppliedMoves

LEMMA CommitsAreStableStep ==
    ASSUME CommitInv, ~Heartbeats, [Next]_vars
    PROVE  CommitsAreStable'
<1>0. LogInv /\ OriginInv /\ AppliedIsStable /\ CommitsAreStable
  BY DEF CommitInv
<1> SUFFICES ASSUME NEW m \in appends'
             PROVE  /\ m.leader_commit <= m.prev_log_index + Len(m.entries)
                    /\ m.leader_commit > 0 =>
                          \E P \in Seq(LogEntry): /\ Stable(P)' /\ LastTerm(P) <= m.term
                                                  /\ m.leader_commit <= Len(P)
  BY DEF CommitsAreStable, LastTerm
<1>1. CASE m \in appends
  <2>1. m.leader_commit <= m.prev_log_index + Len(m.entries)
    BY <1>0, <1>1 DEF CommitsAreStable
  <2>2. ASSUME m.leader_commit > 0
        PROVE  \E P \in Seq(LogEntry): /\ Stable(P)' /\ LastTerm(P) <= m.term
                                       /\ m.leader_commit <= Len(P)
    <3>1. PICK P \in Seq(LogEntry): /\ Stable(P) /\ LastTerm(P) <= m.term
                                    /\ m.leader_commit <= Len(P)
      BY <1>0, <1>1, <2>2 DEF CommitsAreStable
    <3>2. Stable(P)'
      BY <1>0, <3>1, StableStep
    <3> QED BY <3>1, <3>2
  <2> QED BY <2>1, <2>2
<1>2. CASE m \notin appends
  <2>1. PICK s \in Server :
           /\ m.term = current_term[s] /\ m.leader_commit = commit_index[s]
           /\ Heartbeats \/ m.prev_log_index + Len(m.entries) = Len(log[s])
    BY <1>0, <1>2, AppendsMove
  <2>2. /\ commit_index[s] \in Nat /\ Len(applied[s]) \in Nat /\ Len(log[s]) \in Nat
        /\ commit_index[s] <= Len(applied[s])
    BY <1>0, LenProperties DEF LogInv, LogTypes, TypeOK, CommitIsApplied
  <2>3. Len(applied[s]) <= Len(log[s])
    BY <1>0 DEF AppliedIsStable, Extends
  <2>4. m.leader_commit <= m.prev_log_index + Len(m.entries)
    BY <2>1, <2>2, <2>3
  <2>5. ASSUME m.leader_commit > 0
        PROVE  \E P \in Seq(LogEntry): /\ Stable(P)' /\ LastTerm(P) <= m.term
                                       /\ m.leader_commit <= Len(P)
    <3>1. Len(applied[s]) > 0
      BY <2>1, <2>2, <2>5
    <3>2. PICK P \in Seq(LogEntry): /\ Stable(P) /\ LastTerm(P) <= current_term[s]
                                    /\ Extends(P, applied[s])
      BY <1>0, <3>1 DEF AppliedIsStable
    <3>3. Stable(P)'
      BY <1>0, <3>2, StableStep
    <3>4. m.leader_commit <= Len(P)
      <4>1. Len(applied[s]) <= Len(P) /\ Len(P) \in Nat
        BY <3>2, LenProperties DEF Extends
      <4> QED BY <2>1, <2>2, <4>1
    <3> QED BY <2>1, <3>2, <3>3, <3>4
  <2> QED BY <2>4, <2>5
<1> QED BY <1>1, <1>2

LEMMA CommitStep ==
    ASSUME ~Heartbeats, ~ReplyMatch, CommitInv, [Next]_vars
    PROVE  CommitInv'
<1>1. LogInv /\ OriginInv /\ LeadersAreSafe
  BY DEF CommitInv
<1>2. LogInv'
  BY <1>1, LogStep
<1>3. OriginInv'
  BY <1>1, OriginStep
<1>4. LeadersAreSafe'
  BY <1>1, <1>2, <1>3, LeadersAreSafeStep
<1>5. AppliedIsStable'
  BY <1>2, AppliedIsStableStep
<1>6. CommitsAreStable'
  BY CommitsAreStableStep
<1> QED BY <1>2, <1>3, <1>4, <1>5, <1>6 DEF CommitInv

LEMMA CommitInit == Init => CommitInv
<1> SUFFICES ASSUME Init PROVE CommitInv
  OBVIOUS
<1>1. LogInv /\ OriginInv
  BY LogInit, OriginInit
<1>2. LeadersAreSafe
  BY DEF Init, LeadersAreSafe
<1>3. AppliedIsStable
  BY DEF Init, AppliedIsStable, Extends
<1>4. CommitsAreStable
  BY DEF Init, CommitsAreStable
<1> QED BY <1>1, <1>2, <1>3, <1>4 DEF CommitInv

LEMMA CommitAlways ==
    ASSUME ~Heartbeats, ~ReplyMatch
    PROVE  Spec => []CommitInv
<1>1. CommitInv /\ [Next]_vars => CommitInv'
  BY CommitStep
<1> QED BY <1>1, CommitInit, PTL DEF Spec


----------------------------------------------------------------------------
LEMMA AppliedParts ==
    ASSUME CommitInv, NEW s \in Server
    PROVE  /\ applied[s] \in Seq(LogEntry) /\ Len(applied[s]) \in Nat /\ Len(log[s]) \in Nat
           /\ current_term[s] \in Nat
           /\ Len(applied[s]) <= Len(log[s])
           /\ \A i \in 1..Len(applied[s]): log[s][i] = applied[s][i]
<1>1. LogInv /\ AppliedIsStable
  BY DEF CommitInv
<1>2. /\ applied[s] \in Seq(LogEntry) /\ log[s] \in Seq(LogEntry)
      /\ current_term[s] \in Terms /\ \A t \in Terms: t \in Nat
  BY <1>1, RaftAssumption DEF LogInv, LogTypes, TypeOK, Terms
<1>3. Len(applied[s]) \in Nat /\ Len(log[s]) \in Nat
  BY <1>2, LenProperties
<1> QED BY <1>1, <1>2, <1>3 DEF AppliedIsStable, Extends

(* A leader has whatever any node of its term or an earlier one has applied  *)
(* (raft.py:12), however many elections, commands and messages there were: a *)
(* driver that sends no empty heartbeats and relates a reply to its request   *)
(* cannot make promote_to_leader elect a node that lacks a committed entry.   *)
THEOREM LeadersAreComplete ==
    ASSUME ~Heartbeats, ~ReplyMatch
    PROVE  Spec => []LeaderCompleteness
<1>1. CommitInv => LeaderCompleteness
  <2> SUFFICES ASSUME CommitInv, NEW l \in Server, NEW s \in Server,
                      state[l] = "Leader", current_term[l] >= current_term[s]
               PROVE  /\ Len(applied[s]) <= Len(log[l])
                      /\ \A i \in 1..Len(applied[s]): log[l][i] = applied[s][i]
    BY DEF LeaderCompleteness
  <2>0. LogInv /\ AppliedIsStable
    BY DEF CommitInv
  <2>1. /\ applied[s] \in Seq(LogEntry) /\ Len(applied[s]) \in Nat /\ Len(log[l]) \in Nat
        /\ current_term[s] \in Nat /\ current_term[l] \in Nat
    BY AppliedParts
  <2>2. CASE Len(applied[s]) = 0
    BY <2>1, <2>2
  <2>3. CASE Len(applied[s]) > 0
    <3>1. PICK P \in Seq(LogEntry): /\ Stable(P) /\ LastTerm(P) <= current_term[s]
                                    /\ Extends(P, applied[s])
      BY <2>0, <2>3 DEF AppliedIsStable
    <3>2. /\ Len(P) > 0 /\ LogLinks(P) \subseteq Links /\ FollowsPath(P) /\ LeadersHave(P)
      BY <2>0, <3>1, StableMeans
    <3>3. LastTerm(P) \in Nat
      BY <3>2, PathType
    <3>4. current_term[l] >= LastTerm(P)
      BY <2>1, <3>1, <3>3
    <3>5. Extends(log[l], P)
      BY <2>0, <3>2, <3>4, LeaderExtends
    <3>6. Extends(log[l], applied[s])
      BY <2>1, <3>1, <3>5, ExtendsIn
    <3> QED BY <3>6 DEF Extends
  <2> QED BY <2>1, <2>2, <2>3
<1> QED BY <1>1, CommitAlways, PTL

(* "If a server has applied a log entry at a given index, no other server     *)
(* will ever apply a different log entry for that index" (raft.py:14), and    *)
(* handle_append_entries takes no applied entry back out of a log.            *)
THEOREM AppliesAgree ==
    ASSUME ~Heartbeats, ~ReplyMatch
    PROVE  Spec => []AppliedIsAgreed
<1>1. CommitInv => AppliedStaysInLog
  BY AppliedParts DEF AppliedStaysInLog
<1>2. CommitInv => StateMachineSafety
  <2> SUFFICES ASSUME CommitInv, NEW a \in Server, NEW b \in Server,
                      NEW i \in 1..Min2(Len(applied[a]), Len(applied[b]))
               PROVE  applied[a][i] = applied[b][i]
    BY DEF StateMachineSafety
  <2>0. LogInv /\ AppliedIsStable
    BY DEF CommitInv
  <2>1. /\ Len(applied[a]) \in Nat /\ Len(applied[b]) \in Nat
    BY AppliedParts
  <2>2. i \in 1..Len(applied[a]) /\ i \in 1..Len(applied[b])
        /\ Len(applied[a]) > 0 /\ Len(applied[b]) > 0
    BY <2>1 DEF Min2
  <2>3. PICK P \in Seq(LogEntry) : Stable(P) /\ Extends(P, applied[a])
    BY <2>0, <2>2 DEF AppliedIsStable
  <2>4. PICK Q \in Seq(LogEntry) : Stable(Q) /\ Extends(Q, applied[b])
    BY <2>0, <2>2 DEF AppliedIsStable
  <2>5. PICK A \in Majority : HoldersKeep(P, A)
    BY <2>0, <2>3, StableMeans
  <2>6. PICK B \in Majority : HoldersKeep(Q, B)
    BY <2>0, <2>4, StableMeans
  <2>7. PICK q \in Server: q \in A /\ q \in B
    BY MajoritiesMeet
  <2>8. Extends(log[q], P) /\ Extends(log[q], Q) /\ Len(log[q]) \in Nat
    BY <2>5, <2>6, <2>7, AppliedParts DEF HoldersKeep
  <2>9. applied[a] \in Seq(LogEntry) /\ applied[b] \in Seq(LogEntry)
    BY AppliedParts
  <2>10. Extends(log[q], applied[a])
    BY <2>3, <2>8, <2>9, ExtendsIn
  <2>11. Extends(log[q], applied[b])
    BY <2>4, <2>8, <2>9, ExtendsIn
  <2>12. log[q][i] = applied[a][i] /\ log[q][i] = applied[b][i]
    BY <2>2, <2>10, <2>11 DEF Extends
  <2> QED BY <2>12
<1> QED BY <1>1, <1>2, CommitAlways, PTL DEF AppliedIsAgreed

(* update_leader_commit commits only what a majority has in its logs          *)
(* (raft.py:223), whether or not the driver sends empty heartbeats.          *)
THEOREM MajoritiesHoldCommits ==
    ASSUME ~ReplyMatch
    PROVE  Spec => CommitsAreReplicated
<1> DEFINE AckInv == LogInv /\ OriginInv /\ LeadersAreSafe
<1>1. Init => AckInv
  BY CommitInit DEF CommitInv
<1>2. ASSUME AckInv, [Next]_vars PROVE AckInv'
  <2>1. LogInv'
    BY <1>2, LogStep
  <2>2. OriginInv'
    BY <1>2, OriginStep
  <2> QED BY <1>2, <2>1, <2>2, LeadersAreSafeStep
<1>3. ASSUME AckInv, [Next]_vars
      PROVE  [\A s \in Server: state[s] = "Leader" /\ commit_index'[s] # commit_index[s] =>
                 \/ state'[s] # "Leader"
                 \/ Holders(log[s], commit_index'[s]) \in Majority]_vars
  <2> SUFFICES ASSUME Next, NEW s \in Server, state[s] = "Leader", state'[s] = "Leader",
                      commit_index'[s] # commit_index[s]
               PROVE  Holders(log[s], commit_index'[s]) \in Majority
    BY <1>3
  <2>1. /\ commit_index \in [Server -> Nat] /\ state \in [Server -> NodeState]
        /\ Len(log[s]) \in Nat
    BY <1>3, LenProperties DEF LogInv, LogTypes, TypeOK
  <2>2. UpdateLeaderCommit(s)
    <3>1. ASSUME NEW q \in Server, NEW m \in appends, AcceptEntries(q, m) PROVE FALSE
      <4>1. state' = [state EXCEPT ![q] = "Follower"]
        BY <3>1 DEF AcceptEntries, HeardFromLeader
      <4>2. q # s
        BY <2>1, <4>1
      <4> QED BY <2>1, <3>1, <4>2 DEF AcceptEntries
    <3>2. ASSUME NEW q \in Server, UpdateLeaderCommit(q) PROVE q = s
      BY <2>1, <3>2 DEF UpdateLeaderCommit
    <3>3. PICK q \in Server: UpdateLeaderCommit(q)
      BY <3>1 DEF Next, StartElection, PromoteToLeader, Propose, Replicate,
                  HandleRequestVote, RejectEntries, Drop, logVars
    <3> QED BY <3>2, <3>3
  <2>3. PICK n \in (commit_index[s] + 1)..Len(log[s]) :
           Replicated(s, n) /\ commit_index' = [commit_index EXCEPT ![s] = n]
    BY <2>2 DEF UpdateLeaderCommit
  <2>4. n \in 1..Len(log[s]) /\ commit_index'[s] = n
    BY <2>1, <2>3
  <2>5. PICK P \in Seq(LogEntry), A \in Majority :
           Len(P) = n /\ Extends(log[s], P) /\ HoldersKeep(P, A)
    BY <1>3, <2>3, <2>4, CommitIsStable
  <2>6. A \subseteq Holders(log[s], n)
    BY <2>4, <2>5 DEF Holders, HoldersKeep, Extends, Majority
  <2>7. Cardinality(Holders(log[s], n)) >= Cardinality(Server) \div 2 + 1
    <3>1. IsFiniteSet(Server) /\ Holders(log[s], n) \subseteq Server
      BY RaftAssumption DEF Holders
    <3>2. /\ Cardinality(A) <= Cardinality(Holders(log[s], n)) /\ Cardinality(A) \in Nat
          /\ Cardinality(Holders(log[s], n)) \in Nat /\ Cardinality(Server) \in Nat
      BY <2>6, <3>1, FS_Subset, FS_CardinalityType
    <3>3. Cardinality(A) >= Cardinality(Server) \div 2 + 1
      BY DEF Majority
    <3> QED BY <3>2, <3>3
  <2>8. Holders(log[s], n) \in Majority
    BY <2>7 DEF Majority, Holders
  <2> QED BY <2>4, <2>8
<1> QED BY <1>1, <1>2, <1>3, PTL DEF Spec, CommitsAreReplicated
==============================================================================
