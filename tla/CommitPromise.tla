------------------------------ MODULE CommitPromise ------------------------------
(***************************************************************************)
(* What a client of the coordinator may rely on: nodes keep for ever what     *)
(* they have kept once, and the answer TRUE stands for an effect that every   *)
(* participant keeps.  Nothing is promised of a call that is answered FALSE   *)
(* or not at all: some nodes may keep its effect.                           *)
(***************************************************************************)
EXTENDS FiniteSets

CONSTANTS Nodes, Txns

VARIABLES
    kept,           \* kept[n]: the transactions whose effect node n never loses
    answer          \* answer[t]: what the last call of t returned, and after TRUE
                    \* its participants

vars == <<kept, answer>>

Unanswered == [says |-> "nothing", nodes |-> {}]

Init == /\ kept = [n \in Nodes |-> {}]
        /\ answer = [t \in Txns |-> Unanswered]

Keep(n, effects) ==
    /\ kept' = [kept EXCEPT ![n] = @ \union effects]
    /\ UNCHANGED answer

Commit(t, nodes) ==
    /\ \A n \in nodes: t \in kept[n]
    /\ answer' = [answer EXCEPT ![t] = [says |-> "committed", nodes |-> nodes]]
    /\ UNCHANGED kept

Abort(t) ==
    /\ answer' = [answer EXCEPT ![t] = [says |-> "aborted", nodes |-> {}]]
    /\ UNCHANGED kept

(* A new call of t waits for an answer of its own.                           *)
Ask(t) == /\ answer' = [answer EXCEPT ![t] = Unanswered]
          /\ UNCHANGED kept

Next ==
    \/ \E n \in Nodes: \E effects \in SUBSET Txns: Keep(n, effects)
    \/ \E t \in Txns: \E nodes \in SUBSET Nodes: Commit(t, nodes)
    \/ \E t \in Txns: Ask(t) \/ Abort(t)

Spec == Init /\ [][Next]_vars
=============================================================================
