------------------------------- MODULE MCParts --------------------------------
(* The server's parts in one run for TLC, each on its own: a behaviour is one   *)
(* of the monitor under any worker (Monitor), one of the accept path (Transport *)
(* and RateLimiter, with two connections from one address and one from          *)
(* another), or one of the signing proxy (Signing).                             *)
EXTENDS Monitor, Transport, Signing, TLC

CONSTANTS c1, c2, c3, ip1, ip2

VARIABLE part  \* "monitor", "transport", "signing"

MCIpOf == (c1 :> ip1) @@ (c2 :> ip1) @@ (c3 :> ip2)

\* The monitor's connections are interchangeable.
MCSymmetry == Permutations(Conns)

MCInit ==
  /\ part \in {"monitor", "transport", "signing"}
  /\ Init /\ TransportInit /\ SigningInit

MCNext ==
  /\ \/ part = "monitor" /\ Next /\ UNCHANGED <<connection_vars, signing_vars>>
     \/ part = "transport" /\ TransportNext /\ UNCHANGED <<vars, signing_vars>>
     \/ part = "signing" /\ SigningNext /\ UNCHANGED <<vars, connection_vars>>
  /\ UNCHANGED part

MCSpec == MCInit /\ [][MCNext]_<<part, vars, connection_vars, signing_vars>>
=============================================================================
