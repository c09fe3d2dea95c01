--------------------------- MODULE CoordinatorProofs ---------------------------
(***************************************************************************)
(* The coordinator keeps its promise, for every cluster, every set of         *)
(* transactions and any number of calls and crashes.                        *)
(***************************************************************************)
EXTENDS Coordinator, TLAPS

(* What makes the promise inductive: disks lag behind memory, a yes stands    *)
(* for an executed command, and the loops have done what lies behind them.    *)
DisksLag == \A n \in Nodes: \A t \in Txns: disk[n][t] <= memory[n][t]
VotesAreExecuted ==
    \A t \in Txns: \A n \in active_txns[t].yes: memory[n][t] > 0
LoopIsDone ==
    Running =>
        /\ call.at <= Len(State.participants) + 1
        /\ State.phase = "PREPARING" =>
              State.yes = {State.participants[i]: i \in 1..(call.at - 1)}
        /\ State.phase = "COMMITTING" =>
              \A i \in 1..(call.at - 1): disk[State.participants[i]][call.txn] > 0
PromiseInv == TypeOK /\ CommitNeedsEveryVote /\ DisksLag /\ VotesAreExecuted /\ LoopIsDone

(* The keys of commands are a sequence.                                     *)
LEMMA OrdersAreSequences ==
    ASSUME NEW order \in Orders PROVE order \in Seq(Nodes \union {Unknown})
<1>1. PICK n \in 1..Cardinality(Nodes): order \in [1..n -> Nodes \union {Unknown}]
  BY DEF Orders
<1>2. n \in Nat
  BY <1>1
<1> QED BY <1>1, <1>2

(* The running call has a transaction and a state.                           *)
LEMMA RunningTypes ==
    ASSUME TypeOK, Running
    PROVE  /\ call.txn \in Txns /\ call.at \in Nat \ {0}
           /\ call = [txn |-> call.txn, at |-> call.at]
           /\ State \in States
           /\ State.participants \in Seq(Nodes \union {Unknown})
           /\ Len(State.participants) \in Nat
           /\ DOMAIN State.participants = 1..Len(State.participants)
<1>1. call \in [txn: Txns, at: Nat \ {0}]
  BY DEF TypeOK, Running
<1>2. State \in States
  BY <1>1 DEF TypeOK, State
<1> QED BY <1>1, <1>2 DEF States

LEMMA InitPromise == Init => PromiseInv
<1> SUFFICES ASSUME Init PROVE PromiseInv
  OBVIOUS
<1>1. NoState \in States /\ Named(NoState) = {}
  BY DEF NoState, States, Phases, Named
<1>2. TypeOK
  BY <1>1, CoordinatorAssumption DEF Init, TypeOK, Answers, Unanswered
<1>3. CommitNeedsEveryVote /\ VotesAreExecuted
  BY DEF Init, CommitNeedsEveryVote, VotesAreExecuted, NoState
<1>4. DisksLag
  BY DEF Init, DisksLag
<1>5. LoopIsDone
  BY DEF Init, LoopIsDone, Running
<1> QED BY <1>2, <1>3, <1>4, <1>5 DEF PromiseInv

LEMMA BeginKeeps ==
    ASSUME PromiseInv, NEW t \in Txns, NEW order \in Orders, BeginDistributedTxn(t, order)
    PROVE  PromiseInv'
<1> DEFINE new == [phase |-> "PREPARING", participants |-> order, yes |-> {}]
<1> USE DEF PromiseInv
<1>1. new \in States
  BY OrdersAreSequences DEF States, Phases
<1>2. /\ active_txns' = [active_txns EXCEPT ![t] = new]
      /\ call' = [txn |-> t, at |-> 1]
      /\ answer' = [answer EXCEPT ![t] = Unanswered]
      /\ calls < MaxCalls /\ calls' = calls + 1
      /\ UNCHANGED <<memory, disk, crashes>>
  BY DEF BeginDistributedTxn
<1>3. Unanswered \in Answers
  BY DEF Unanswered, Answers
<1>4. calls' \in 0..MaxCalls
  BY <1>2, CoordinatorAssumption DEF TypeOK
<1>5. TypeOK'
  BY <1>1, <1>2, <1>3, <1>4 DEF TypeOK
<1>6. active_txns'[t] = new /\ \A u \in Txns \ {t}: active_txns'[u] = active_txns[u]
  BY <1>1, <1>2 DEF TypeOK
<1>7. CommitNeedsEveryVote'
  BY <1>6 DEF CommitNeedsEveryVote, Named
<1>8. DisksLag' /\ VotesAreExecuted'
  BY <1>2, <1>6 DEF DisksLag, VotesAreExecuted
<1>9. LoopIsDone'
  <2>1. State' = new /\ call'.at = 1 /\ Len(order) \in Nat
    BY <1>2, <1>6, OrdersAreSequences DEF State
  <2> QED BY <2>1 DEF LoopIsDone
<1> QED BY <1>5, <1>7, <1>8, <1>9

LEMMA PrepareKeeps ==
    ASSUME PromiseInv, PrepareNode
    PROVE  PromiseInv'
<1> DEFINE t == call.txn
           n == Node
           new == [State EXCEPT !.yes = @ \union {n}]
<1> USE DEF PromiseInv
<1>1. /\ t \in Txns /\ call.at \in Nat \ {0} /\ State \in States /\ n \in Nodes
      /\ State.phase = "PREPARING"
      /\ call.at \in 1..Len(State.participants) /\ Len(State.participants) \in Nat
      /\ n = State.participants[call.at]
  BY RunningTypes DEF PrepareNode, Participant, Node
<1>2. /\ active_txns' = [active_txns EXCEPT ![t] = new]
      /\ call' = [call EXCEPT !.at = call.at + 1]
      /\ memory' = [memory EXCEPT ![n] = [memory[n] EXCEPT ![t] = memory[n][t] + 1]]
      /\ UNCHANGED <<disk, answer, calls, crashes>>
  BY DEF PrepareNode, State, Node
<1>3. /\ new \in States /\ new.phase = "PREPARING"
      /\ new.yes = State.yes \union {n} /\ new.participants = State.participants
  BY <1>1 DEF States
<1> HIDE DEF new
<1>4. /\ call' = [txn |-> t, at |-> call.at + 1]
      /\ call'.txn = t /\ call'.at = call.at + 1
  BY <1>1, <1>2, RunningTypes DEF PrepareNode, Participant
<1>5. \A m \in Nodes: \A u \in Txns:
         memory'[m][u] = IF m = n /\ u = t THEN memory[m][u] + 1 ELSE memory[m][u]
  <2>1. memory[n] \in [Txns -> Nat] /\ memory \in [Nodes -> [Txns -> Nat]]
    BY <1>1 DEF TypeOK
  <2>2. /\ memory'[n] = [memory[n] EXCEPT ![t] = memory[n][t] + 1]
        /\ \A m \in Nodes \ {n}: memory'[m] = memory[m]
    BY <1>1, <1>2, <2>1
  <2> QED BY <1>1, <2>1, <2>2
<1>6. /\ memory'[n][t] > 0
      /\ \A m \in Nodes: \A u \in Txns: memory'[m][u] >= memory[m][u]
  <2>1. \A m \in Nodes: \A u \in Txns: memory[m][u] \in Nat
    BY DEF TypeOK
  <2>2. memory'[n][t] = memory[n][t] + 1
    BY <1>1, <1>5
  <2>3. ASSUME NEW m \in Nodes, NEW u \in Txns PROVE memory'[m][u] >= memory[m][u]
    <3>1. memory'[m][u] = memory[m][u] \/ memory'[m][u] = memory[m][u] + 1
      BY <1>5
    <3> QED BY <2>1, <3>1
  <2> QED BY <1>1, <2>1, <2>2, <2>3
<1>7. TypeOK'
  <2>1. memory' \in [Nodes -> [Txns -> Nat]]
    <3>1. [memory[n] EXCEPT ![t] = memory[n][t] + 1] \in [Txns -> Nat]
      BY <1>1 DEF TypeOK
    <3> QED BY <1>1, <1>2, <3>1 DEF TypeOK
  <2>2. active_txns' \in [Txns -> States]
    BY <1>1, <1>2, <1>3 DEF TypeOK
  <2>3. call' \in [txn: Txns, at: Nat \ {0}]
    BY <1>1, <1>4
  <2> QED BY <1>2, <2>1, <2>2, <2>3 DEF TypeOK
<1>8. active_txns'[t] = new /\ \A u \in Txns \ {t}: active_txns'[u] = active_txns[u]
  BY <1>1, <1>2, <1>3 DEF TypeOK
<1>9. CommitNeedsEveryVote'
  BY <1>3, <1>8 DEF CommitNeedsEveryVote, Named
<1>10. DisksLag'
  BY <1>2, <1>6, <1>7 DEF DisksLag, TypeOK
<1>11. VotesAreExecuted'
  <2>1. ASSUME NEW u \in Txns, NEW m \in active_txns'[u].yes PROVE memory'[m][u] > 0
    <3>1. m \in Nodes
      BY <1>7 DEF TypeOK, States
    <3>2. CASE u = t /\ m = n
      BY <1>6, <3>2
    <3>3. CASE ~(u = t /\ m = n)
      <4>1. m \in active_txns[u].yes
        <5>1. CASE u # t
          BY <1>8, <5>1
        <5>2. CASE u = t /\ m # n
          BY <1>3, <1>8, <5>2 DEF State
        <5> QED BY <3>3, <5>1, <5>2
      <4> QED BY <1>6, <1>7, <3>1, <4>1 DEF VotesAreExecuted, TypeOK
    <3> QED BY <3>2, <3>3
  <2> QED BY <2>1 DEF VotesAreExecuted
<1>12. LoopIsDone'
  <2>1. State' = new
    BY <1>4, <1>8 DEF State
  <2>2. State.yes = {State.participants[i]: i \in 1..(call.at - 1)}
    BY <1>1 DEF LoopIsDone, PrepareNode, Participant
  <2>3. new.yes = {State.participants[i]: i \in 1..call.at}
    <3>1. 1..call.at = (1..(call.at - 1)) \union {call.at}
      BY <1>1
    <3> QED BY <1>1, <1>3, <2>2, <3>1
  <2>4. call'.at - 1 = call.at
    BY <1>1, <1>4
  <2> QED BY <1>1, <1>3, <1>4, <2>1, <2>3, <2>4 DEF LoopIsDone
<1> QED BY <1>7, <1>9, <1>10, <1>11, <1>12

(* A change of phase changes nothing else of the states.                     *)
LEMMA PhaseTypes ==
    ASSUME PromiseInv, Running, NEW phase \in Phases,
           active_txns' = [active_txns EXCEPT ![call.txn].phase = phase]
    PROVE  /\ active_txns' \in [Txns -> States]
           /\ active_txns'[call.txn].phase = phase
           /\ active_txns'[call.txn].participants = State.participants
           /\ active_txns'[call.txn].yes = State.yes
           /\ \A u \in Txns \ {call.txn}: active_txns'[u] = active_txns[u]
<1>1. call.txn \in Txns /\ State \in States
  BY RunningTypes DEF PromiseInv
<1>2. [State EXCEPT !.phase = phase] \in States
  BY <1>1 DEF States
<1>3. active_txns' = [active_txns EXCEPT ![call.txn] = [State EXCEPT !.phase = phase]]
  BY DEF State
<1> QED BY <1>1, <1>2, <1>3 DEF PromiseInv, TypeOK, States

LEMMA RefuseKeeps ==
    ASSUME PromiseInv, RefuseNode
    PROVE  PromiseInv'
<1> USE DEF PromiseInv
<1>1. /\ Running /\ call.txn \in Txns /\ call.at \in 1..Len(State.participants)
      /\ active_txns' = [active_txns EXCEPT ![call.txn].phase = "ABORTING"]
      /\ UNCHANGED <<memory, disk, call, answer, calls, crashes>>
  BY RunningTypes DEF RefuseNode, Participant
<1>2. /\ active_txns' \in [Txns -> States]
      /\ active_txns'[call.txn].phase = "ABORTING"
      /\ active_txns'[call.txn].participants = State.participants
      /\ active_txns'[call.txn].yes = State.yes
      /\ \A u \in Txns \ {call.txn}: active_txns'[u] = active_txns[u]
  BY <1>1, PhaseTypes DEF Phases
<1>3. TypeOK'
  BY <1>1, <1>2 DEF TypeOK
<1>4. CommitNeedsEveryVote'
  BY <1>2 DEF CommitNeedsEveryVote, Named
<1>5. DisksLag' /\ VotesAreExecuted'
  BY <1>1, <1>2 DEF DisksLag, VotesAreExecuted, State
<1>6. LoopIsDone'
  BY <1>1, <1>2, RunningTypes DEF LoopIsDone, State
<1> QED BY <1>3, <1>4, <1>5, <1>6

LEMMA DecideKeeps ==
    ASSUME PromiseInv, DecideCommit
    PROVE  PromiseInv'
<1> USE DEF PromiseInv
<1>1. /\ Running /\ call.txn \in Txns /\ call.at \in Nat \ {0}
      /\ call.at \notin 1..Len(State.participants) /\ State.phase = "PREPARING"
      /\ Len(State.participants) \in Nat
      /\ DOMAIN State.participants = 1..Len(State.participants)
      /\ active_txns' = [active_txns EXCEPT ![call.txn].phase = "COMMITTING"]
      /\ UNCHANGED <<memory, disk, answer, calls, crashes>>
  BY RunningTypes DEF DecideCommit, Participant
<1>2. call' = [txn |-> call.txn, at |-> 1]
  BY <1>1, RunningTypes DEF DecideCommit
<1>3. /\ active_txns' \in [Txns -> States]
      /\ active_txns'[call.txn].phase = "COMMITTING"
      /\ active_txns'[call.txn].participants = State.participants
      /\ active_txns'[call.txn].yes = State.yes
      /\ \A u \in Txns \ {call.txn}: active_txns'[u] = active_txns[u]
  BY <1>1, PhaseTypes DEF Phases
<1>4. TypeOK'
  BY <1>1, <1>2, <1>3 DEF TypeOK
<1>5. State.yes = Named(State)
  <2>1. call.at - 1 = Len(State.participants)
    BY <1>1 DEF LoopIsDone
  <2>2. State.yes = {State.participants[i]: i \in 1..(call.at - 1)}
    BY <1>1 DEF LoopIsDone
  <2> QED BY <1>1, <2>1, <2>2 DEF Named
<1>6. CommitNeedsEveryVote'
  BY <1>3, <1>5 DEF CommitNeedsEveryVote, Named
<1>7. DisksLag' /\ VotesAreExecuted'
  BY <1>1, <1>3 DEF DisksLag, VotesAreExecuted, State
<1>8. LoopIsDone'
  <2>1. /\ State'.participants = State.participants /\ State'.phase = "COMMITTING"
        /\ call'.at = 1
    BY <1>2, <1>3 DEF State
  <2>2. 1..(call'.at - 1) = {}
    BY <2>1
  <2> QED BY <1>1, <2>1, <2>2 DEF LoopIsDone
<1> QED BY <1>4, <1>6, <1>7, <1>8

(* Writing a node's memory to its disk loses nothing.                        *)
LEMMA DiskGrows ==
    ASSUME PromiseInv, NEW n \in Nodes, disk' = [disk EXCEPT ![n] = memory[n]],
           UNCHANGED memory
    PROVE  /\ disk' \in [Nodes -> [Txns -> Nat]]
           /\ disk'[n] = memory[n]
           /\ \A m \in Nodes \ {n}: disk'[m] = disk[m]
           /\ \A m \in Nodes: \A u \in Txns: disk'[m][u] >= disk[m][u]
           /\ DisksLag'
<1> USE DEF PromiseInv
<1>1. /\ disk' \in [Nodes -> [Txns -> Nat]] /\ disk'[n] = memory[n]
      /\ \A m \in Nodes \ {n}: disk'[m] = disk[m]
  BY DEF TypeOK
<1>2. \A m \in Nodes: \A u \in Txns: /\ disk[m][u] \in Nat /\ memory[m][u] \in Nat
                                     /\ disk[m][u] <= memory[m][u]
  BY DEF TypeOK, DisksLag
<1>3. ASSUME NEW m \in Nodes, NEW u \in Txns
      PROVE  disk'[m][u] >= disk[m][u] /\ disk'[m][u] <= memory[m][u]
  <2>1. CASE m = n
    BY <1>1, <1>2, <2>1
  <2>2. CASE m # n
    BY <1>1, <1>2, <2>2
  <2> QED BY <2>1, <2>2
<1> QED BY <1>1, <1>3 DEF DisksLag

(* In phase 2 the participants are nodes that have executed their command.    *)
LEMMA CommittingNodes ==
    ASSUME PromiseInv, Running, State.phase = "COMMITTING",
           NEW i \in DOMAIN State.participants
    PROVE  State.participants[i] \in Nodes
           /\ memory[State.participants[i]][call.txn] > 0
<1>1. call.txn \in Txns /\ State \in States
  BY RunningTypes DEF PromiseInv
<1>2. State.participants[i] \in State.yes
  BY <1>1 DEF PromiseInv, CommitNeedsEveryVote, Named, State
<1> QED BY <1>1, <1>2 DEF PromiseInv, VotesAreExecuted, State, States

LEMMA CheckpointKeeps ==
    ASSUME PromiseInv, CheckpointNode
    PROVE  PromiseInv'
<1> USE DEF PromiseInv
<1> DEFINE n == Node
<1>1. /\ Running /\ call.txn \in Txns /\ call.at \in Nat \ {0}
      /\ call.at \in 1..Len(State.participants) /\ State.phase = "COMMITTING"
      /\ Len(State.participants) \in Nat
      /\ DOMAIN State.participants = 1..Len(State.participants)
      /\ n = State.participants[call.at]
      /\ disk' = [disk EXCEPT ![n] = memory[n]]
      /\ UNCHANGED <<memory, active_txns, answer, calls, crashes>>
  BY RunningTypes DEF CheckpointNode, Participant, Node
<1>2. call' = [txn |-> call.txn, at |-> call.at + 1]
  BY <1>1, RunningTypes DEF CheckpointNode
<1>3. n \in Nodes /\ memory[n][call.txn] > 0
  BY <1>1, CommittingNodes
<1> HIDE DEF n
<1>4. /\ disk' \in [Nodes -> [Txns -> Nat]]
      /\ disk'[n] = memory[n]
      /\ \A m \in Nodes: \A u \in Txns: disk'[m][u] >= disk[m][u]
      /\ DisksLag'
  BY <1>1, <1>3, DiskGrows
<1>5. call' \in [txn: Txns, at: Nat \ {0}]
  BY <1>1, <1>2
<1>6. TypeOK'
  BY <1>1, <1>4, <1>5 DEF TypeOK
<1>7. CommitNeedsEveryVote' /\ VotesAreExecuted'
  BY <1>1 DEF CommitNeedsEveryVote, VotesAreExecuted, Named
<1>8. LoopIsDone'
  <2>1. State' = State /\ call'.txn = call.txn /\ call'.at = call.at + 1
    BY <1>1, <1>2 DEF State
  <2>2. ASSUME NEW i \in 1..call.at PROVE disk'[State.participants[i]][call.txn] > 0
    <3>1. CASE i = call.at
      BY <1>1, <1>3, <1>4, <3>1
    <3>2. CASE i # call.at
      <4>1. i \in 1..(call.at - 1) /\ i \in DOMAIN State.participants
        BY <1>1, <3>2
      <4>2. disk[State.participants[i]][call.txn] > 0 /\ State.participants[i] \in Nodes
        BY <1>1, <4>1, CommittingNodes DEF LoopIsDone
      <4> QED BY <1>1, <1>4, <1>6, <4>2 DEF TypeOK
    <3> QED BY <3>1, <3>2
  <2>3. call'.at - 1 = call.at /\ call'.at <= Len(State.participants) + 1
    BY <1>1, <2>1
  <2> QED BY <1>1, <2>1, <2>2, <2>3 DEF LoopIsDone
<1> QED BY <1>4, <1>6, <1>7, <1>8

LEMMA FailureKeeps ==
    ASSUME PromiseInv, CheckpointFails
    PROVE  PromiseInv'
<1> USE DEF PromiseInv
<1>1. call' = Idle /\ UNCHANGED <<memory, disk, active_txns, answer, calls, crashes>>
  BY DEF CheckpointFails
<1>2. TypeOK' /\ CommitNeedsEveryVote' /\ DisksLag' /\ VotesAreExecuted' /\ LoopIsDone'
  BY <1>1 DEF TypeOK, CommitNeedsEveryVote, DisksLag, VotesAreExecuted, LoopIsDone, Running,
              Named
<1> QED BY <1>2

LEMMA ReturnKeeps ==
    ASSUME PromiseInv, Running, NEW reply \in Answers,
           \/ State.phase = "COMMITTING" /\ Return("COMMITTED", reply)
           \/ State.phase = "ABORTING" /\ Return("ABORTED", reply)
    PROVE  PromiseInv'
<1> USE DEF PromiseInv
<1>1. PICK phase \in Phases:
         /\ phase \in {"COMMITTING", "COMMITTED"} => State.phase = "COMMITTING"
         /\ Return(phase, reply)
  BY DEF Phases
<1>2. /\ active_txns' = [active_txns EXCEPT ![call.txn].phase = phase]
      /\ answer' = [answer EXCEPT ![call.txn] = reply]
      /\ call' = Idle /\ UNCHANGED <<memory, disk, calls, crashes>>
  BY <1>1 DEF Return
<1>3. /\ active_txns' \in [Txns -> States]
      /\ active_txns'[call.txn].phase = phase
      /\ active_txns'[call.txn].participants = State.participants
      /\ active_txns'[call.txn].yes = State.yes
      /\ \A u \in Txns \ {call.txn}: active_txns'[u] = active_txns[u]
  BY <1>2, PhaseTypes
<1>4. TypeOK'
  BY <1>2, <1>3 DEF TypeOK
<1>5. CommitNeedsEveryVote'
  <2>1. call.txn \in Txns
    BY RunningTypes
  <2> QED BY <1>1, <1>3, <2>1 DEF CommitNeedsEveryVote, Named, State
<1>6. DisksLag' /\ VotesAreExecuted'
  BY <1>2, <1>3 DEF DisksLag, VotesAreExecuted, State
<1>7. LoopIsDone'
  BY <1>2 DEF LoopIsDone, Running
<1> QED BY <1>4, <1>5, <1>6, <1>7

LEMMA EvictKeeps ==
    ASSUME PromiseInv, NEW n \in Nodes, Evict(n)
    PROVE  PromiseInv'
<1> USE DEF PromiseInv
<1>1. /\ disk' = [disk EXCEPT ![n] = memory[n]]
      /\ UNCHANGED <<memory, active_txns, call, answer, calls, crashes>>
  BY DEF Evict
<1>2. /\ disk' \in [Nodes -> [Txns -> Nat]]
      /\ \A m \in Nodes: \A u \in Txns: disk'[m][u] >= disk[m][u]
      /\ DisksLag'
  BY <1>1, DiskGrows
<1>3. TypeOK'
  BY <1>1, <1>2 DEF TypeOK
<1>4. CommitNeedsEveryVote' /\ VotesAreExecuted'
  BY <1>1 DEF CommitNeedsEveryVote, VotesAreExecuted, Named
<1>5. LoopIsDone'
  <2> SUFFICES ASSUME Running
               PROVE  LoopIsDone'
    BY <1>1 DEF LoopIsDone, Running
  <2>1. State' = State /\ call' = call
    BY <1>1 DEF State
  <2>2. ASSUME State.phase = "COMMITTING", NEW i \in 1..(call.at - 1)
        PROVE  disk'[State.participants[i]][call.txn] > 0
    <3>1. i \in DOMAIN State.participants /\ call.txn \in Txns
      BY RunningTypes DEF LoopIsDone
    <3>2. disk[State.participants[i]][call.txn] > 0 /\ State.participants[i] \in Nodes
      BY <2>2, <3>1, CommittingNodes DEF LoopIsDone
    <3> QED BY <1>2, <1>3, <3>1, <3>2 DEF TypeOK
  <2> QED BY <2>1, <2>2 DEF LoopIsDone
<1> QED BY <1>2, <1>3, <1>4, <1>5

LEMMA CrashKeeps ==
    ASSUME PromiseInv, Crash
    PROVE  PromiseInv'
<1> USE DEF PromiseInv
<1>1. /\ crashes < MaxCrashes /\ crashes' = crashes + 1
      /\ memory' = disk /\ active_txns' = [t \in Txns |-> NoState] /\ call' = Idle
      /\ UNCHANGED <<disk, answer, calls>>
  BY DEF Crash
<1>2. NoState \in States /\ NoState.yes = {} /\ NoState.phase = "none"
  BY DEF NoState, States, Phases
<1>3. crashes' \in 0..MaxCrashes
  BY <1>1, CoordinatorAssumption DEF TypeOK
<1>4. TypeOK'
  BY <1>1, <1>2, <1>3 DEF TypeOK
<1>5. CommitNeedsEveryVote' /\ VotesAreExecuted'
  BY <1>1, <1>2 DEF CommitNeedsEveryVote, VotesAreExecuted
<1>6. DisksLag'
  BY <1>1 DEF DisksLag, TypeOK
<1>7. LoopIsDone'
  BY <1>1 DEF LoopIsDone, Running
<1> QED BY <1>4, <1>5, <1>6, <1>7

(* The replies of execute_2pc are answers.                                  *)
LEMMA Replies ==
    ASSUME PromiseInv, Running
    PROVE  /\ [says |-> "aborted", nodes |-> {}] \in Answers
           /\ State.phase = "COMMITTING" =>
                 [says |-> "committed", nodes |-> Named(State)] \in Answers
<1>1. ASSUME State.phase = "COMMITTING" PROVE Named(State) \subseteq Nodes
  BY <1>1, CommittingNodes DEF Named
<1> QED BY <1>1 DEF Answers

LEMMA StepKeeps == PromiseInv /\ [Next]_vars => PromiseInv'
<1> SUFFICES ASSUME PromiseInv, [Next]_vars PROVE PromiseInv'
  OBVIOUS
<1>1. CASE \E t \in Txns: \E order \in Orders: BeginDistributedTxn(t, order)
  BY <1>1, BeginKeeps
<1>2. CASE PrepareNode
  BY <1>2, PrepareKeeps
<1>3. CASE RefuseNode
  BY <1>3, RefuseKeeps
<1>4. CASE DecideCommit
  BY <1>4, DecideKeeps
<1>5. CASE CheckpointNode
  BY <1>5, CheckpointKeeps
<1>6. CASE CheckpointFails
  BY <1>6, FailureKeeps
<1>7. CASE ReturnCommitted
  BY <1>7, Replies, ReturnKeeps DEF ReturnCommitted
<1>8. CASE ReturnAborted
  BY <1>8, Replies, ReturnKeeps DEF ReturnAborted
<1>9. CASE \E n \in Nodes: Evict(n)
  BY <1>9, EvictKeeps
<1>10. CASE Crash
  BY <1>10, CrashKeeps
<1>11. CASE UNCHANGED vars
  BY <1>11 DEF vars, PromiseInv, TypeOK, CommitNeedsEveryVote, DisksLag, VotesAreExecuted,
               LoopIsDone, Running, State, Named
<1> QED BY <1>1, <1>2, <1>3, <1>4, <1>5, <1>6, <1>7, <1>8, <1>9, <1>10, <1>11
        DEF Next, Execute2pc

LEMMA PromiseInvariant == Spec => []PromiseInv
BY InitPromise, StepKeeps, PTL DEF Spec

(* No transaction is committed without the vote of each of its participants   *)
(* (distributed.py 94-118).                                                 *)
THEOREM CommitsAreUnanimous == Spec => []CommitNeedsEveryVote
<1>1. PromiseInv => CommitNeedsEveryVote
  BY DEF PromiseInv
<1> QED BY <1>1, PromiseInvariant, PTL

----------------------------------------------------------------------------
LEMMA PromiseInit == Init => Promise!Init
<1> SUFFICES ASSUME Init PROVE Promise!Init
  OBVIOUS
<1>1. \A n \in Nodes: {t \in Txns: disk[n][t] > 0} = {}
  BY DEF Init
<1>2. Kept = [n \in Nodes |-> {}]
  BY <1>1 DEF Kept
<1> QED BY <1>2 DEF Init, Promise!Init, Unanswered, Promise!Unanswered

(* A node that is written to its disk keeps more, the others what they had.   *)
LEMMA WritingKeeps ==
    ASSUME PromiseInv, NEW n \in Nodes, disk' = [disk EXCEPT ![n] = memory[n]],
           UNCHANGED <<memory, answer>>
    PROVE  Promise!Next
<1>1. /\ disk'[n] = memory[n]
      /\ \A m \in Nodes \ {n}: disk'[m] = disk[m]
      /\ \A u \in Txns: disk'[n][u] >= disk[n][u]
      /\ \A u \in Txns: disk'[n][u] \in Nat /\ disk[n][u] \in Nat
  <2>1. /\ disk' \in [Nodes -> [Txns -> Nat]] /\ disk'[n] = memory[n]
        /\ \A m \in Nodes \ {n}: disk'[m] = disk[m]
        /\ \A m \in Nodes: \A u \in Txns: disk'[m][u] >= disk[m][u]
    BY DiskGrows
  <2>2. disk \in [Nodes -> [Txns -> Nat]]
    BY DEF PromiseInv, TypeOK
  <2> QED BY <2>1, <2>2
<1> DEFINE effects == {t \in Txns: disk'[n][t] > 0}
<1>2. Kept'[n] = Kept[n] \union effects
  <2>1. Kept[n] \subseteq effects
    BY <1>1 DEF Kept
  <2> QED BY <2>1 DEF Kept
<1>3. \A m \in Nodes \ {n}: Kept'[m] = Kept[m]
  BY <1>1 DEF Kept
<1>4. Kept' = [Kept EXCEPT ![n] = Kept[n] \union effects]
  BY <1>2, <1>3 DEF Kept
<1>5. effects \in SUBSET Txns
  OBVIOUS
<1> QED BY <1>4, <1>5 DEF Promise!Next, Promise!Keep

LEMMA PromiseStep ==
    PromiseInv /\ [Next]_vars => [Promise!Next]_(Promise!vars)
<1> SUFFICES ASSUME PromiseInv, [Next]_vars
             PROVE  Promise!Next \/ UNCHANGED <<Kept, answer>>
  BY DEF Promise!vars
<1>1. ASSUME NEW t \in Txns, NEW order \in Orders, BeginDistributedTxn(t, order)
      PROVE  Promise!Next
  <2>1. Promise!Ask(t)
    BY <1>1 DEF BeginDistributedTxn, Promise!Ask, Unanswered, Promise!Unanswered, Kept
  <2> QED BY <2>1 DEF Promise!Next
<1>2. CASE PrepareNode \/ RefuseNode \/ DecideCommit \/ CheckpointFails \/ Crash
  BY <1>2 DEF PrepareNode, RefuseNode, DecideCommit, CheckpointFails, Crash, Kept
<1>3. CASE CheckpointNode
  <2>1. Node \in Nodes
    BY <1>3, CommittingNodes DEF CheckpointNode, Participant, Node
  <2> QED BY <1>3, <2>1, WritingKeeps DEF CheckpointNode
<1>4. CASE ReturnCommitted
  <2>1. Running /\ State.phase = "COMMITTING" /\ ~Participant /\ UNCHANGED disk
    BY <1>4 DEF ReturnCommitted, Return
  <2>2. /\ call.txn \in Txns
        /\ DOMAIN State.participants = 1..Len(State.participants)
        /\ call.at \in Nat \ {0} /\ Len(State.participants) \in Nat
    BY <2>1, RunningTypes DEF PromiseInv
  <2>3. call.at - 1 = Len(State.participants)
    BY <2>1, <2>2 DEF PromiseInv, LoopIsDone, Participant
  <2>4. \A n \in Named(State): n \in Nodes /\ call.txn \in Kept[n]
    <3>1. ASSUME NEW i \in DOMAIN State.participants
          PROVE  /\ State.participants[i] \in Nodes
                 /\ disk[State.participants[i]][call.txn] > 0
      BY <2>1, <2>2, <2>3, CommittingNodes DEF PromiseInv, LoopIsDone
    <3> QED BY <2>2, <3>1 DEF Named, Kept
  <2>5. answer' = [answer EXCEPT ![call.txn] = [says |-> "committed", nodes |-> Named(State)]]
    BY <1>4 DEF ReturnCommitted, Return
  <2>6. Promise!Commit(call.txn, Named(State))
    BY <2>1, <2>4, <2>5 DEF Promise!Commit, Kept
  <2> QED BY <2>2, <2>4, <2>6 DEF Promise!Next
<1>5. CASE ReturnAborted
  <2>1. call.txn \in Txns
    BY <1>5, RunningTypes DEF PromiseInv, ReturnAborted
  <2>2. Promise!Abort(call.txn)
    BY <1>5 DEF ReturnAborted, Return, Promise!Abort, Kept
  <2> QED BY <2>1, <2>2 DEF Promise!Next
<1>6. ASSUME NEW n \in Nodes, Evict(n) PROVE Promise!Next
  BY <1>6, WritingKeeps DEF Evict
<1>7. CASE UNCHANGED vars
  BY <1>7 DEF vars, Kept
<1> QED BY <1>1, <1>2, <1>3, <1>4, <1>5, <1>6, <1>7 DEF Next, Execute2pc

(* What was answered TRUE is on the disk of every participant, and stays      *)
(* there through every later call, eviction, failure and crash               *)
(* (distributed.py 113-121).                                                *)
THEOREM PromiseIsKept == Spec => KeepsItsPromise
BY PromiseInit, PromiseStep, PromiseInvariant, PTL DEF Spec, KeepsItsPromise, Promise!Spec
=============================================================================
