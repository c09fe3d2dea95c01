-------------------------------- MODULE Raft --------------------------------
(***************************************************************************)
(* pysql.raft.RaftNode: one node per server, and the driver that connects    *)
(* the nodes.                                                               *)
(*                                                                          *)
(* The nodes' methods are in the source; what carries their arguments and    *)
(* replies from node to node, counts votes and calls the methods is not, so  *)
(* the driver is modelled from the methods' interface: it broadcasts what    *)
(* start_election returns, promotes a candidate that a majority voted for,   *)
(* builds AppendEntries from next_index, and records the replies in          *)
(* match_index.  A message may be delivered late, out of order, many times or  *)
(* never.                                                                   *)
(*                                                                          *)
(* Index i of a log here is index i there: the dummy entry 0 of the code is  *)
(* left out, so len(self.log) is Len(log[s]) + 1.                            *)
(***************************************************************************)
EXTENDS Integers, Sequences, FiniteSets

CONSTANTS
    Server,         \* node ids
    Value,          \* commands
    MaxTerm,        \* bound: elections may raise the term up to it
    MaxLog,         \* bound: length of a log
    MaxInFlight,    \* bound: AppendEntries in the network at a time
    Heartbeats,     \* TRUE: the driver may send AppendEntries without entries
    ReplyMatch,     \* TRUE: the driver takes match_index from the reply
    Nil

ASSUME RaftAssumption ==
    /\ IsFiniteSet(Server)
    /\ MaxTerm \in Nat
    /\ MaxLog \in Nat
    /\ MaxInFlight \in Nat
    /\ Heartbeats \in BOOLEAN
    /\ ReplyMatch \in BOOLEAN
    /\ Nil \notin Server

VARIABLES
    current_term, voted_for, log,       \* "persistent state on all nodes"
    commit_index, applied, state,       \* volatile; applied[s] is what apply_fn
                                        \* was given, last_applied its length
    next_index, match_index,            \* volatile state on leaders
    votes,                              \* requests for votes and votes sent
    appends,                            \* AppendEntries in the network
    leaders                             \* history: <<term, server>> promoted

electionVars == <<current_term, voted_for, state>>
logVars == <<log, commit_index, applied>>
leaderVars == <<next_index, match_index>>
vars == <<current_term, voted_for, log, commit_index, applied, state,
          next_index, match_index, votes, appends, leaders>>

Terms == 0..MaxTerm
NodeState == {"Follower", "Candidate", "Leader"}
LogEntry == [term : Terms, command : Value]

RequestVote ==
    [type : {"RequestVote"}, term : Terms, from : Server,
     last_log_index : Nat, last_log_term : Terms]
VoteGranted ==
    [type : {"VoteGranted"}, term : Terms, from : Server, to : Server]
AppendEntries ==
    [term : Terms, from : Server, to : Server,
     prev_log_index : Nat, prev_log_term : Terms, entries : Seq(LogEntry),
     leader_commit : Nat]

----------------------------------------------------------------------------
(* Properties last_log_index and last_log_term.                              *)
TermAt(l, i) == IF i = 0 THEN 0 ELSE l[i].term
LastLogIndex(s) == Len(log[s])
LastLogTerm(s) == TermAt(log[s], Len(log[s]))

(* majority in update_leader_commit; the driver counts votes by it, too.     *)
Majority == {Q \in SUBSET Server : Cardinality(Q) >= Cardinality(Server) \div 2 + 1}

Min2(a, b) == IF a <= b THEN a ELSE b
Max2(a, b) == IF a >= b THEN a ELSE b

AnyLog(s, m) == TRUE             \* fault: the candidate's log is not looked at

(* The candidate's log is at least as up to date as the voter's.             *)
UpToDate(s, m) ==
    \/ m.last_log_term > LastLogTerm(s)
    \/ m.last_log_term = LastLogTerm(s) /\ m.last_log_index >= LastLogIndex(s)

(* The log after the loop over args.entries: entries already there stay; the *)
(* first one with another term cuts the log, and the rest is appended.       *)
Conflicts(l, prev, entries) ==
    {i \in 1..Len(entries) : prev + i <= Len(l) /\ l[prev + i].term # entries[i].term}

(* fault: an entry of another term stays                                     *)
MergedKeeping(l, prev, entries) ==
    IF Len(l) >= prev + Len(entries) THEN l
    ELSE l \o SubSeq(entries, Len(l) - prev + 1, Len(entries))

Merged(l, prev, entries) ==
    LET bad == Conflicts(l, prev, entries)
        from == IF bad # {} THEN CHOOSE i \in bad: \A j \in bad: i <= j
                            ELSE Min2(Len(l) - prev, Len(entries)) + 1
    IN  IF bad = {} /\ Len(l) >= prev + Len(entries) THEN l
        ELSE SubSeq(l, 1, prev + from - 1) \o SubSeq(entries, from, Len(entries))

(* _apply_entries up to a new commit index; it never takes anything back.    *)
AppliedUpTo(s, l, commit) ==
    IF commit <= Len(applied[s]) THEN applied[s]
    ELSE applied[s] \o SubSeq(l, Len(applied[s]) + 1, commit)

----------------------------------------------------------------------------
Init ==
    /\ current_term = [s \in Server |-> 0]
    /\ voted_for = [s \in Server |-> Nil]
    /\ log = [s \in Server |-> <<>>]
    /\ commit_index = [s \in Server |-> 0]
    /\ applied = [s \in Server |-> <<>>]
    /\ state = [s \in Server |-> "Follower"]
    /\ next_index = [s \in Server |-> [p \in Server |-> 1]]
    /\ match_index = [s \in Server |-> [p \in Server |-> 0]]
    /\ votes = {}
    /\ appends = {}
    /\ leaders = {}

(* start_election; the driver calls it when a node that does not lead has    *)
(* not heard of a leader for its election timeout.                           *)
StartElection(s) ==
    /\ state[s] # "Leader"
    /\ current_term[s] < MaxTerm
    /\ state' = [state EXCEPT ![s] = "Candidate"]
    /\ current_term' = [current_term EXCEPT ![s] = @ + 1]
    /\ voted_for' = [voted_for EXCEPT ![s] = s]
    /\ votes' = votes \union
         {[type |-> "RequestVote", term |-> current_term[s] + 1, from |-> s,
           last_log_index |-> LastLogIndex(s), last_log_term |-> LastLogTerm(s)]}
    /\ UNCHANGED <<logVars, leaderVars, appends, leaders>>

AnyVote(vote, m) == TRUE         \* fault: an earlier vote does not count
CanVote(vote, m) == vote \in {Nil, m.from}

(* handle_request_vote.  A refusal tells the driver nothing it can act on:   *)
(* only a granted vote is a message.                                         *)
HandleRequestVote(s, m) ==
    /\ m.type = "RequestVote" /\ m.from # s
    /\ m.term >= current_term[s]
    /\ LET newer == m.term > current_term[s]
           vote == IF newer THEN Nil ELSE voted_for[s]
           grant == CanVote(vote, m) /\ UpToDate(s, m)
       IN  /\ current_term' = [current_term EXCEPT ![s] = m.term]
           /\ state' = [state EXCEPT ![s] = IF newer THEN "Follower" ELSE @]
           /\ voted_for' = [voted_for EXCEPT ![s] = IF grant THEN m.from ELSE vote]
           /\ votes' = IF grant
                      THEN votes \union {[type |-> "VoteGranted", term |-> m.term,
                                         from |-> s, to |-> m.from]}
                      ELSE votes
    /\ UNCHANGED <<logVars, leaderVars, appends, leaders>>

(* The driver counts the votes of a candidate, its own included, and calls   *)
(* promote_to_leader.                                                        *)
Voters(s) ==
    {s} \union {v \in Server : [type |-> "VoteGranted", term |-> current_term[s],
                                from |-> v, to |-> s] \in votes}

PromoteToLeader(s) ==
    /\ state[s] = "Candidate"
    /\ Voters(s) \in Majority
    /\ state' = [state EXCEPT ![s] = "Leader"]
    /\ next_index' = [next_index EXCEPT ![s] = [p \in Server |-> Len(log[s]) + 1]]
    /\ match_index' = [match_index EXCEPT ![s] = [p \in Server |-> 0]]
    /\ leaders' = leaders \union {<<current_term[s], s>>}
    /\ UNCHANGED <<current_term, voted_for, logVars, votes, appends>>

(* propose; on a node that does not lead it returns None.                    *)
Propose(s, v) ==
    /\ state[s] = "Leader"
    /\ Len(log[s]) < MaxLog
    /\ log' = [log EXCEPT ![s] = Append(@, [term |-> current_term[s], command |-> v])]
    /\ UNCHANGED <<electionVars, commit_index, applied, leaderVars, votes, appends, leaders>>

(* The driver of leader s sends its log from next_index on to p; as a        *)
(* heartbeat, it leaves the entries out.                                     *)
Replicate(s, p) ==
    /\ state[s] = "Leader"
    /\ p # s
    /\ Cardinality(appends) < MaxInFlight
    /\ \E heartbeat \in {FALSE, Heartbeats}:
          LET prev == next_index[s][p] - 1 IN
          appends' = appends \union
            {[term |-> current_term[s], from |-> s, to |-> p,
              prev_log_index |-> prev, prev_log_term |-> TermAt(log[s], prev),
              entries |-> IF heartbeat THEN <<>>
                          ELSE SubSeq(log[s], prev + 1, Len(log[s])),
              leader_commit |-> commit_index[s]]}
    /\ UNCHANGED <<electionVars, logVars, leaderVars, votes, leaders>>

(* A message is dropped; one that was delivered may be delivered again until *)
(* then.                                                                    *)
Drop(m) ==
    /\ appends' = appends \ {m}
    /\ UNCHANGED <<electionVars, logVars, leaderVars, votes, leaders>>

(* What a success tells the driver of the leader: the length of the node's   *)
(* log, or, for a driver that relates a reply to its request, the last entry *)
(* it had sent.                                                             *)
Acknowledged(l, m) ==
    IF ReplyMatch THEN Len(l) ELSE m.prev_log_index + Len(m.entries)

(* The reply is the return value of the call; the driver records it, or it   *)
(* is lost, or the sender no longer leads the term it was sent in.  A late   *)
(* reply is one that update_leader_commit looks at late.                     *)
Awaited(m) == state[m.from] = "Leader" /\ current_term[m.from] = m.term

RecordSuccess(s, m, l) ==
    \/ UNCHANGED leaderVars
    \/ /\ Awaited(m)
       /\ LET match == Max2(match_index[m.from][s], Acknowledged(l, m)) IN
          /\ match_index' = [match_index EXCEPT ![m.from][s] = match]
          /\ next_index' = [next_index EXCEPT
                ![m.from][s] = Min2(match, Len(log[m.from])) + 1]

RecordFailure(s, m) ==
    \/ UNCHANGED leaderVars
    \/ /\ Awaited(m)
       /\ next_index' = [next_index EXCEPT ![m.from][s] = Max2(@ - 1, 1)]
       /\ UNCHANGED match_index

(* fault: a node that hears from a newer leader does not step down           *)
HeardFromLeaderOnly(s, m) ==
    /\ m.to = s
    /\ m.term >= current_term[s]
    /\ current_term' = [current_term EXCEPT ![s] = m.term]
    /\ UNCHANGED <<state, voted_for>>

(* handle_append_entries of a message that is not older than the node.  A    *)
(* node that was not a follower forgets its vote, also in the same term.     *)
HeardFromLeader(s, m) ==
    /\ m.to = s
    /\ m.term >= current_term[s]
    /\ current_term' = [current_term EXCEPT ![s] = m.term]
    /\ state' = [state EXCEPT ![s] = "Follower"]
    /\ voted_for' = IF m.term > current_term[s] \/ state[s] # "Follower"
                    THEN [voted_for EXCEPT ![s] = Nil]
                    ELSE voted_for

AppendMatches(s, m) ==
    /\ m.prev_log_index <= Len(log[s])
    /\ TermAt(log[s], m.prev_log_index) = m.prev_log_term

AcceptEntries(s, m) ==
    /\ HeardFromLeader(s, m)
    /\ AppendMatches(s, m)
    /\ LET l == Merged(log[s], m.prev_log_index, m.entries)
           commit == IF m.leader_commit > commit_index[s]
                     THEN Min2(m.leader_commit, Len(l)) ELSE commit_index[s]
       IN  /\ log' = [log EXCEPT ![s] = l]
           /\ commit_index' = [commit_index EXCEPT ![s] = commit]
           /\ applied' = [applied EXCEPT ![s] = AppliedUpTo(s, l, commit)]
           /\ RecordSuccess(s, m, l)
    /\ UNCHANGED <<votes, appends, leaders>>

RejectEntries(s, m) ==
    /\ HeardFromLeader(s, m)
    /\ ~AppendMatches(s, m)
    /\ log' = IF m.prev_log_index > Len(log[s]) THEN log
              ELSE [log EXCEPT ![s] = SubSeq(@, 1, m.prev_log_index - 1)]
    /\ RecordFailure(s, m)
    /\ UNCHANGED <<commit_index, applied, votes, appends, leaders>>

(* update_leader_commit: the largest index of the leader's own term that a   *)
(* majority, the leader included, has acknowledged.                          *)
ReplicatedAlmost(s, n) ==        \* fault: off by one
    /\ log[s][n].term = current_term[s]
    /\ {s} \union {p \in Server \ {s} : match_index[s][p] + 1 >= n} \in Majority

Replicated(s, n) ==
    /\ log[s][n].term = current_term[s]
    /\ {s} \union {p \in Server \ {s} : match_index[s][p] >= n} \in Majority

UpdateLeaderCommit(s) ==
    /\ state[s] = "Leader"
    /\ \E n \in (commit_index[s] + 1)..Len(log[s]):
          /\ Replicated(s, n)
          /\ \A k \in (n + 1)..Len(log[s]): ~Replicated(s, k)
          /\ commit_index' = [commit_index EXCEPT ![s] = n]
          /\ applied' = [applied EXCEPT ![s] = AppliedUpTo(s, log[s], n)]
    /\ UNCHANGED <<electionVars, log, leaderVars, votes, appends, leaders>>

(* A process that stops and starts again is a new RaftNode: nothing of the   *)
(* state its constructor calls persistent is stored anywhere.                *)
Restart(s) ==
    /\ current_term' = [current_term EXCEPT ![s] = 0]
    /\ voted_for' = [voted_for EXCEPT ![s] = Nil]
    /\ log' = [log EXCEPT ![s] = <<>>]
    /\ commit_index' = [commit_index EXCEPT ![s] = 0]
    /\ applied' = [applied EXCEPT ![s] = <<>>]
    /\ state' = [state EXCEPT ![s] = "Follower"]
    /\ next_index' = [next_index EXCEPT ![s] = [p \in Server |-> 1]]
    /\ match_index' = [match_index EXCEPT ![s] = [p \in Server |-> 0]]
    /\ UNCHANGED <<votes, appends, leaders>>

Next ==
    \E s \in Server:
        \/ StartElection(s)
        \/ PromoteToLeader(s)
        \/ \E v \in Value: Propose(s, v)
        \/ \E p \in Server: Replicate(s, p)
        \/ UpdateLeaderCommit(s)
        \/ \E m \in votes: HandleRequestVote(s, m)
        \/ \E m \in appends: \/ AcceptEntries(s, m)
                             \/ RejectEntries(s, m)
                             \/ m.to = s /\ Drop(m)

Spec == Init /\ [][Next]_vars

(* The same nodes when processes may also stop and restart.                  *)
CrashSpec == Init /\ [][Next \/ \E s \in Server: Restart(s)]_vars

----------------------------------------------------------------------------
TypeOK ==
    /\ current_term \in [Server -> Terms]
    /\ voted_for \in [Server -> Server \union {Nil}]
    /\ state \in [Server -> NodeState]
    /\ log \in [Server -> Seq(LogEntry)]
    /\ applied \in [Server -> Seq(LogEntry)]
    /\ commit_index \in [Server -> Nat]
    /\ next_index \in [Server -> [Server -> Nat \ {0}]]
    /\ match_index \in [Server -> [Server -> Nat]]
    /\ votes \subseteq RequestVote \union VoteGranted
    /\ appends \subseteq AppendEntries
    /\ leaders \subseteq Terms \X Server

(* "At most one leader can be elected per term" (raft.py:8).                 *)
ElectionSafety ==
    \A t \in Terms: \A a, b \in Server:
        <<t, a>> \in leaders /\ <<t, b>> \in leaders => a = b

(* "If two logs contain an entry with same index and term, the logs are      *)
(* identical up to that entry" (raft.py:10).                                 *)
LogMatching ==
    \A a, b \in Server: \A i \in 1..Min2(Len(log[a]), Len(log[b])):
        log[a][i].term = log[b][i].term =>
            \A j \in 1..i: log[a][j] = log[b][j]

(* "Leader never overwrites or truncates its log entries" (raft.py:9).       *)
LeaderAppendOnly ==
    [][\A s \in Server: state[s] = "Leader" /\ state'[s] = "Leader" =>
          /\ Len(log'[s]) >= Len(log[s])
          /\ \A i \in 1..Len(log[s]): log'[s][i] = log[s][i]]_vars

(* What a node has applied is in the log of every leader of its term or a    *)
(* later one (raft.py:12).                                                   *)
LeaderCompleteness ==
    \A l, s \in Server:
        state[l] = "Leader" /\ current_term[l] >= current_term[s] =>
            /\ Len(applied[s]) <= Len(log[l])
            /\ \A i \in 1..Len(applied[s]): log[l][i] = applied[s][i]

(* A leader commits an entry only when a majority has it in the log ("Check   *)
(* if any log entries have been replicated to a majority and commit them",   *)
(* raft.py:223).                                                            *)
Holders(l, i) == {p \in Server : Len(log[p]) >= i /\ log[p][i] = l[i]}

CommitsAreReplicated ==
    [][\A s \in Server: state[s] = "Leader" /\ commit_index'[s] # commit_index[s] =>
          \/ state'[s] # "Leader"
          \/ Holders(log[s], commit_index'[s]) \in Majority]_vars

(* "If a server has applied a log entry at a given index, no other server    *)
(* will ever apply a different log entry for that index" (raft.py:14).       *)
StateMachineSafety ==
    \A a, b \in Server: \A i \in 1..Min2(Len(applied[a]), Len(applied[b])):
        applied[a][i] = applied[b][i]

(* A node votes for one candidate in a term, its own candidacy included      *)
(* ("Deny double voting in same term", tests/test_distributed_raft.py:56).   *)
VotedFor(v, t) ==
    {c \in Server : [type |-> "VoteGranted", term |-> t, from |-> v, to |-> c] \in votes}
    \union {c \in {v} : \E m \in votes: m.type = "RequestVote" /\ m.term = t /\ m.from = v}

OneVotePerTerm ==
    \A v \in Server, t \in Terms: Cardinality(VotedFor(v, t)) <= 1

(* A node never unsays what it committed: its log keeps every entry it has   *)
(* applied.                                                                  *)
AppliedStaysInLog ==
    \A s \in Server:
        /\ Len(applied[s]) <= Len(log[s])
        /\ \A i \in 1..Len(applied[s]): log[s][i] = applied[s][i]

(* Nodes apply the same entries in the same order, and none of them is ever   *)
(* taken back out of a log it was applied from (raft.py:12-14).        *)
AppliedIsAgreed == StateMachineSafety /\ AppliedStaysInLog
=============================================================================
