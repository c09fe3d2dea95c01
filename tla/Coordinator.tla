------------------------------- MODULE Coordinator -------------------------------
(***************************************************************************)
(* pysql.distributed: DistributedCoordinator.execute_2pc.  The coordinator    *)
(* and the databases of the cluster are objects of one process, called one    *)
(* after the other; each call of a node is one step here.  A command is       *)
(* executed, and its local transaction committed, in the prepare phase: what  *)
(* it wrote is in the node's buffer pool, and on its disk after a checkpoint  *)
(* or when the pool evicts the page.                                        *)
(* An abort undoes nothing.                                                 *)
(***************************************************************************)
EXTENDS Naturals, Sequences, FiniteSets

CONSTANTS
    Nodes,          \* the keys of cluster_nodes
    Unknown,        \* a node id that is not one of them
    Txns,           \* transaction ids
    MaxCalls,       \* bound on the calls of execute_2pc
    MaxCrashes      \* bound on the crashes of the process

ASSUME CoordinatorAssumption ==
    Unknown \notin Nodes /\ MaxCalls \in Nat /\ MaxCrashes \in Nat

VARIABLES
    memory,         \* memory[n][t]: how often the command of t has run on node n
    disk,           \* disk[n]: what of memory[n] a crash leaves
    active_txns,    \* active_txns[t]: the last DistributedTxnState of t
    call,           \* the execute_2pc that runs: its txn_id, and the position of
                    \* the participant its loop has come to
    answer,         \* what the client last heard of each transaction
    calls, crashes  \* how often execute_2pc was called, and the process died

vars == <<memory, disk, active_txns, call, answer, calls, crashes>>

Phases == {"PREPARING", "COMMITTING", "COMMITTED", "ABORTING", "ABORTED"}
NoState == [phase |-> "none", participants |-> <<>>, yes |-> {}]
Idle == [txn |-> "none", at |-> 0]
Unanswered == [says |-> "nothing", nodes |-> {}]

(* The keys of commands, in the order of the dict.                           *)
Orders == UNION {{f \in [1..n -> Nodes \union {Unknown}]:
                    \A i, j \in 1..n: f[i] = f[j] => i = j}: n \in 1..Cardinality(Nodes)}
Named(state) == {state.participants[i]: i \in DOMAIN state.participants}

(* The transaction of the running call, its state, and the node it is at.     *)
Running == call # Idle
State == active_txns[call.txn]
Node == State.participants[call.at]
Participant == Running /\ call.at \in DOMAIN State.participants

States == [phase: Phases \union {"none"}, participants: Seq(Nodes \union {Unknown}),
           yes: SUBSET Nodes]
Answers == [says: {"nothing", "committed", "aborted"}, nodes: SUBSET Nodes]

TypeOK ==
    /\ memory \in [Nodes -> [Txns -> Nat]] /\ disk \in [Nodes -> [Txns -> Nat]]
    /\ active_txns \in [Txns -> States]
    /\ call \in {Idle} \union [txn: Txns, at: Nat \ {0}]
    /\ answer \in [Txns -> Answers]
    /\ calls \in 0..MaxCalls /\ crashes \in 0..MaxCrashes

Init ==
    /\ memory = [n \in Nodes |-> [t \in Txns |-> 0]]
    /\ disk = memory
    /\ active_txns = [t \in Txns |-> NoState]
    /\ call = Idle
    /\ answer = [t \in Txns |-> Unanswered]
    /\ calls = 0 /\ crashes = 0

----------------------------------------------------------------------------
(* execute_2pc, one call of a node at a time.                                *)

(* begin_distributed_txn; a state of the same txn_id is replaced.            *)
BeginDistributedTxn(t, order) ==
    /\ ~Running /\ calls < MaxCalls
    /\ active_txns' = [active_txns EXCEPT ![t] =
            [phase |-> "PREPARING", participants |-> order, yes |-> {}]]
    /\ call' = [txn |-> t, at |-> 1]
    /\ answer' = [answer EXCEPT ![t] = Unanswered]
    /\ calls' = calls + 1
    /\ UNCHANGED <<memory, disk, crashes>>

(* Phase 1: the command runs, and the vote is yes.                           *)
PrepareNode ==
    /\ Participant /\ State.phase = "PREPARING" /\ Node \in Nodes
    /\ memory' = [memory EXCEPT ![Node][call.txn] = @ + 1]
    /\ active_txns' = [active_txns EXCEPT ![call.txn].yes = @ \union {Node}]
    /\ call' = [call EXCEPT !.at = @ + 1]
    /\ UNCHANGED <<disk, answer, calls, crashes>>

(* The node is unknown, or its command raises (what it did before that does   *)
(* not count as its effect): the loop is left.                               *)
RefuseNode ==
    /\ Participant /\ State.phase = "PREPARING"
    /\ active_txns' = [active_txns EXCEPT ![call.txn].phase = "ABORTING"]
    /\ UNCHANGED <<memory, disk, call, answer, calls, crashes>>

(* Every participant has voted yes.                                         *)
DecideCommitEarly ==      \* fault: one participant is not asked
    /\ Running /\ State.phase = "PREPARING" /\ call.at = Len(State.participants)
    /\ active_txns' = [active_txns EXCEPT ![call.txn].phase = "COMMITTING"]
    /\ call' = [call EXCEPT !.at = 1]
    /\ UNCHANGED <<memory, disk, answer, calls, crashes>>
DecideCommit ==
    /\ Running /\ State.phase = "PREPARING" /\ ~Participant
    /\ active_txns' = [active_txns EXCEPT ![call.txn].phase = "COMMITTING"]
    /\ call' = [call EXCEPT !.at = 1]
    /\ UNCHANGED <<memory, disk, answer, calls, crashes>>

(* Phase 2: Database.checkpoint of each participant.                         *)
CheckpointSkipped ==      \* fault: the loop advances past a node it does not flush
    /\ Participant /\ State.phase = "COMMITTING"
    /\ call' = [call EXCEPT !.at = @ + 1]
    /\ UNCHANGED <<memory, disk, active_txns, answer, calls, crashes>>
CheckpointNode ==
    /\ Participant /\ State.phase = "COMMITTING"
    /\ disk' = [disk EXCEPT ![Node] = memory[Node]]
    /\ call' = [call EXCEPT !.at = @ + 1]
    /\ UNCHANGED <<memory, active_txns, answer, calls, crashes>>

(* A checkpoint raises: the exception leaves execute_2pc, which has no answer *)
(* and leaves the phase as it is.                                           *)
CheckpointFails ==
    /\ Participant /\ State.phase = "COMMITTING"
    /\ call' = Idle
    /\ UNCHANGED <<memory, disk, active_txns, answer, calls, crashes>>

Return(phase, reply) ==
    /\ active_txns' = [active_txns EXCEPT ![call.txn].phase = phase]
    /\ answer' = [answer EXCEPT ![call.txn] = reply]
    /\ call' = Idle
    /\ UNCHANGED <<memory, disk, calls, crashes>>

ReturnCommitted ==
    /\ Running /\ State.phase = "COMMITTING" /\ ~Participant
    /\ Return("COMMITTED", [says |-> "committed", nodes |-> Named(State)])

(* The loop over the participants that voted yes has an empty body.          *)
ReturnAbortedToAll ==     \* fault: waits until every participant has voted yes
    /\ Running /\ State.phase = "ABORTING" /\ State.yes = Named(State)
    /\ Return("ABORTED", [says |-> "aborted", nodes |-> {}])
ReturnAborted ==
    /\ Running /\ State.phase = "ABORTING"
    /\ Return("ABORTED", [says |-> "aborted", nodes |-> {}])

----------------------------------------------------------------------------
(* The buffer pool of a node writes a page to make room for another.         *)
Evict(n) ==
    /\ disk' = [disk EXCEPT ![n] = memory[n]]
    /\ UNCHANGED <<memory, active_txns, call, answer, calls, crashes>>

(* The process dies and the databases are opened again; active_txns is        *)
(* nowhere else.                                                            *)
Crash ==
    /\ crashes < MaxCrashes
    /\ memory' = disk
    /\ active_txns' = [t \in Txns |-> NoState]
    /\ call' = Idle
    /\ crashes' = crashes + 1
    /\ UNCHANGED <<disk, answer, calls>>

Execute2pc ==
    \/ PrepareNode \/ RefuseNode \/ DecideCommit
    \/ CheckpointNode \/ CheckpointFails
    \/ ReturnCommitted \/ ReturnAborted

Next ==
    \/ \E t \in Txns: \E order \in Orders: BeginDistributedTxn(t, order)
    \/ Execute2pc
    \/ \E n \in Nodes: Evict(n)
    \/ Crash

(* A call that runs in its thread goes on to its end.                        *)
Spec == Init /\ [][Next]_vars /\ WF_vars(Execute2pc)

----------------------------------------------------------------------------
(* TRUE is returned only after every participant voted yes and what it        *)
(* executed is on its disk; and it stays there whatever happens later         *)
(* (distributed.py 113-121): the coordinator keeps the promise of module      *)
(* CommitPromise.                                                           *)
Kept == [n \in Nodes |-> {t \in Txns: disk[n][t] > 0}]
Promise == INSTANCE CommitPromise WITH kept <- Kept
KeepsItsPromise == Promise!Spec

(* The decision to commit rests on the yes of every participant, also when    *)
(* one of them is unknown or a retry has left votes behind (distributed.py    *)
(* 94-118).                                                                 *)
CommitNeedsEveryVote ==
    \A t \in Txns: active_txns[t].phase \in {"COMMITTING", "COMMITTED"} =>
                      active_txns[t].yes = Named(active_txns[t])

(* A call that was begun ends, with an answer or an exception, unless the     *)
(* process dies (distributed.py 81-135).                                    *)
EveryCallReturns == Running ~> ~Running

(* Not so: "If any votes NO/Timeout -> Coordinator sends ABORT"               *)
(* (distributed.py 19-20) leaves what the other participants executed.       *)
AbortedLeavesNothing ==
    \A t \in Txns: answer[t].says = "aborted" =>
                      \A n \in Nodes: memory[n][t] = 0

(* Not so: a client that repeats an aborted transaction runs the command of   *)
(* the earlier participants a second time.                                  *)
CommandsRunOnce ==
    \A t \in Txns: answer[t].says = "committed" =>
                      \A n \in answer[t].nodes: memory[n][t] = 1
=============================================================================
