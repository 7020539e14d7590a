----------------------------- MODULE MCForwarding -----------------------------
(* Both halves of forwarding in one run for TLC: a behaviour is one of the  *)
(* pumps of a forwarded connection (Forward, with frames of one and of two  *)
(* bytes upwards, cut anywhere) or one of the table of parked sockets       *)
(* (RemoteForward, with a client that has two -R forwards and a rogue one). *)
EXTENDS Forward, RemoteForward

CONSTANTS c1, c2

VARIABLE half  \* "pumps", "table"

MCChunkSizes == [up |-> 1..WireCap, down |-> {3}]
MCConnOf == <<c1, c1>>

MCInit == half \in {"pumps", "table"} /\ Init /\ RemoteInit

MCNext ==
  /\ \/ half = "pumps" /\ Next /\ UNCHANGED remote_vars
     \/ half = "table" /\ RemoteNext /\ UNCHANGED vars
  /\ UNCHANGED half

\* The fairness of each half, in its own behaviours.
MCSpec ==
  /\ MCInit /\ [][MCNext]_<<half, vars, remote_vars>>
  /\ WF_vars(half = "pumps" /\ ServiceStep)
  /\ WF_vars(half = "pumps" /\ ClientUpEnds) /\ WF_vars(half = "pumps" /\ BridgeDown)
  /\ WF_vars(half = "pumps" /\ ReaderStep) /\ WF_vars(half = "pumps" /\ UpEnds)
  /\ WF_vars(half = "pumps" /\ PumpStep)
  /\ \A r \in Refs : WF_remote_vars(half = "table" /\ TimerFires(r))
=============================================================================
