----------------------------- MODULE MCTransport -----------------------------
(* Transport for TLC: two connections from one address, one from another.  *)
EXTENDS Transport, TLC

CONSTANTS c1, c2, c3, ip1, ip2

MCIpOf == (c1 :> ip1) @@ (c2 :> ip1) @@ (c3 :> ip2)
TaskSymmetry == Permutations(Tasks)
=============================================================================
