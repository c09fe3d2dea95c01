------------------------------- MODULE MCRaft -------------------------------
(* Raft for TLC: the nodes and the commands are interchangeable.             *)
EXTENDS Raft, TLC

Symmetry == Permutations(Server) \union Permutations(Value)
=============================================================================
