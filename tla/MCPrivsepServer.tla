-------------------------- MODULE MCPrivsepServer --------------------------
(* PrivsepServer for TLC: every connection comes from one address.         *)
EXTENDS PrivsepServer, TLC

CONSTANT ip1

MCIpOf == [c \in Conns |-> ip1]
TaskSymmetry == Permutations(Tasks)
ConnSymmetry == Permutations(Tasks) \cup Permutations(Conns)
=============================================================================
