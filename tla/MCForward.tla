------------------------------ MODULE MCForward ------------------------------
(* Sizes for TLC: frames of one and of two bytes upwards, cut anywhere.    *)
EXTENDS Forward

MCChunkSizes == [up |-> 1..WireCap, down |-> {3}]
=============================================================================
