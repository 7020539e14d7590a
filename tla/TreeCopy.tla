------------------------------- MODULE TreeCopy -------------------------------
(***************************************************************************)
(* What `quish cp dir host:dst` promises, whatever it is made of: the      *)
(* remote tree grows from its root, nothing in it vanishes, a run reports  *)
(* success for a whole tree only, and a failed run may be repeated.  The   *)
(* promise is void once `spoiled` says that something it excludes has      *)
(* happened.                                                               *)
(***************************************************************************)
CONSTANTS
  Dirs, Files, Root, Parent,
  Opened    \* what opening a file makes of it: "partial"; "whole" if files are empty

VARIABLES
  node,     \* node -> "absent", "partial", "whole" (a directory is whole)
  outcome,  \* of the current run: "none", "ok", "failed"
  spoiled   \* "no", "yes"

copy_vars == <<node, outcome, spoiled>>

Nodes == Dirs \cup Files

Init ==
  /\ node = [n \in Nodes |-> "absent"]
  /\ outcome = "none"
  /\ spoiled = "no"

Becomes(n, s) == node' = [node EXCEPT ![n] = s]

MakeDir(d) ==
  /\ node[d] = "absent" /\ (d = Root \/ node[Parent[d]] = "whole")
  /\ Becomes(d, "whole")
  /\ UNCHANGED <<outcome, spoiled>>

\* A file is created or emptied: before the run that reports success ends, or
\* it is spoiled.
OpenFile(f) ==
  /\ node[Parent[f]] = "whole"
  /\ Becomes(f, Opened)
  /\ \/ outcome # "ok" /\ UNCHANGED spoiled
     \/ spoiled' = "yes"
  /\ UNCHANGED outcome

FillFile(f) ==
  /\ node[f] = "partial"
  /\ Becomes(f, "whole")
  /\ UNCHANGED <<outcome, spoiled>>

Spoil == spoiled' = "yes" /\ UNCHANGED <<node, outcome>>

Report ==
  /\ outcome = "none"
  /\ \/ outcome' = "failed"
     \/ /\ spoiled = "yes" \/ \A n \in Nodes : node[n] = "whole"
        /\ outcome' = "ok"
  /\ UNCHANGED <<node, spoiled>>

Repeat == outcome = "failed" /\ outcome' = "none" /\ UNCHANGED <<node, spoiled>>

Next ==
  \/ \E d \in Dirs : MakeDir(d)
  \/ \E f \in Files : OpenFile(f) \/ FillFile(f)
  \/ Spoil \/ Report \/ Repeat

Spec == Init /\ [][Next]_copy_vars
=============================================================================
