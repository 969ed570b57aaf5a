---------------------------- MODULE MCTaskQueue ----------------------------
(* Instances of TaskQueue for TLC. *)
EXTENDS TaskQueue, TLC

CONSTANTS a1, a2, k

(* Two tasks of one ordering key. *)
OneKey == {[event |-> a1, key |-> k], [event |-> a2, key |-> k]}

Symmetry == Permutations(Token) \cup Permutations(Worker)

=============================================================================
