------------------------------ MODULE KnownHosts ------------------------------
(***************************************************************************)
(* The client's known_hosts file (quish-client/src/connect.rs) under       *)
(* several client processes: lookup and pin, which verify_server_cert      *)
(* calls, and `quish known-hosts remove`, which reads the file, writes the *)
(* rest of it to known_hosts.tmp and renames that.  Nothing locks the file *)
(* between processes.                                                      *)
(*                                                                         *)
(* A line is a host and a fingerprint; its length is left open.  A missing *)
(* file has no lines.  A descriptor follows its file through a rename.     *)
(***************************************************************************)
EXTENDS Integers, Sequences

CONSTANTS
  Procs,  \* client processes
  Hosts,
  Tails   \* the pairs of a host and one whose name its name ends with

NoHost == ""

ASSUME HostsAssumption ==
  /\ Tails \subseteq Hosts \X Hosts
  /\ \A a, b, c \in Hosts : <<a, b>> \in Tails /\ <<b, c>> \in Tails => <<a, c>> \in Tails
  /\ NoHost \notin Hosts

VARIABLES
  file,     \* known_hosts
  tmp,      \* known_hosts.tmp: {} or {its lines}
  rm,       \* process -> "none", "read", "open", "written"
  rm_host,  \* process -> the host it removes
  body,     \* process -> the lines it keeps
  fd,       \* process -> what it has open: "none", "tmp", "file", "gone"
  want,     \* auxiliary: the lines that were pinned and not removed
  approved, \* auxiliary: the lines a user said yes to
  overlap   \* auxiliary: "no", "yes": the file changed under a removal

file_vars == <<file, tmp, rm, rm_host, body, fd, want, approved, overlap>>

NoFp == 0
Line(h, f) == [host |-> h, fp |-> f]
Lines(s)   == {s[i] : i \in 1..Len(s)}
Junk       == Line(NoHost, NoFp)  \* a line that names no host: lookup passes over it

FileInit ==
  /\ file = <<>> /\ tmp = {}
  /\ rm = [p \in Procs |-> "none"]
  /\ rm_host = [p \in Procs |-> NoHost]
  /\ body = [p \in Procs |-> <<>>]
  /\ fd = [p \in Procs |-> "none"]
  /\ want = {} /\ approved = {} /\ overlap = "no"

Rewriting == {p \in Procs : rm[p] # "none"}

\* Mutant: the line's host is not compared.
Mut_lookup(h) == IF file = <<>> THEN NoFp ELSE Head(file).fp

\* The first line of the host wins.
lookup(h) ==
  LET hits == {i \in 1..Len(file) : file[i].host = h}
  IN IF hits = {} THEN NoFp
     ELSE file[CHOOSE i \in hits : \A j \in hits : i <= j].fp

\* One appended line.
pin(h, f) ==
  /\ file' = Append(file, Line(h, f))
  /\ want' = want \cup {Line(h, f)}
  /\ approved' = approved \cup {Line(h, f)}
  /\ overlap' = IF Rewriting = {} THEN overlap ELSE "yes"
  /\ UNCHANGED <<tmp, rm, rm_host, body, fd>>

\* Mutant: only the first line of the host goes.
Mut_remove_host_lines(s, h) ==
  SelectSeq(s, LAMBDA l : l.host # h \/ l # Line(h, lookup(h)))

\* Every other line stays, in its order.
remove_host_lines(s, h) ==
  LET kept[i \in 0..Len(s)] ==
        IF i = 0 THEN <<>>
        ELSE IF s[i].host = h THEN kept[i - 1] ELSE Append(kept[i - 1], s[i])
  IN kept[Len(s)]

-----------------------------------------------------------------------------
(* remove_known_host                                                       *)

\* The file is read; with nothing to remove that is all.
RemoveReads(p) ==
  /\ rm[p] = "none"
  /\ \E h \in Hosts :
       LET kept == remove_host_lines(file, h)
       IN /\ kept # file
          /\ rm' = [rm EXCEPT ![p] = "read"]
          /\ rm_host' = [rm_host EXCEPT ![p] = h]
          /\ body' = [body EXCEPT ![p] = kept]
  /\ overlap' = IF Rewriting = {} THEN overlap ELSE "yes"
  /\ UNCHANGED <<file, tmp, fd, want, approved>>

\* fs::write creates or truncates the temporary file, which all share,
RemoveOpens(p) ==
  /\ rm[p] = "read"
  /\ tmp' = {<<>>}
  /\ rm' = [rm EXCEPT ![p] = "open"]
  /\ fd' = [fd EXCEPT ![p] = "tmp"]
  /\ UNCHANGED <<file, rm_host, body, want, approved, overlap>>

\* What is left of a line that is overwritten up to its middle: the end of it,
\* which may read as a line of another host.
Cut(l) == {Junk} \cup {Line(h, l.fp) : h \in {g \in Hosts : <<l.host, g>> \in Tails}}

\* What a write from the start leaves of the lines that were there: nothing, or
\* those after the k-th, and perhaps the end of the k-th.
Overwrite(new, old) ==
  IF new = <<>> THEN {old}
  ELSE {new} \cup UNION {LET rest == SubSeq(old, k + 1, Len(old))
                         IN {new \o rest} \cup {(new \o <<c>>) \o rest : c \in Cut(old[k])} :
                           k \in 1..Len(old)}

\* and fills it, wherever it is by now.
RemoveWrites(p) ==
  /\ rm[p] = "open"
  /\ \/ /\ fd[p] = "tmp"
        /\ tmp' \in {{s} : s \in UNION {Overwrite(body[p], t) : t \in tmp}}
        /\ UNCHANGED file
     \/ fd[p] = "file" /\ file' \in Overwrite(body[p], file) /\ UNCHANGED tmp
     \/ fd[p] = "gone" /\ UNCHANGED <<file, tmp>>
  /\ rm' = [rm EXCEPT ![p] = "written"]
  /\ fd' = [fd EXCEPT ![p] = "none"]
  /\ UNCHANGED <<rm_host, body, want, approved, overlap>>

\* Where the open descriptors are after a rename.
Followed == [q \in Procs |-> IF fd[q] = "tmp" THEN "file"
                             ELSE IF fd[q] = "file" THEN "gone" ELSE fd[q]]

\* The process ends, and closes what it has open.
Exits(p) ==
  /\ rm' = [rm EXCEPT ![p] = "none"]
  /\ rm_host' = [rm_host EXCEPT ![p] = NoHost]
  /\ body' = [body EXCEPT ![p] = <<>>]

\* The rename fails if another removal took the temporary file away.
RemoveRenames(p) ==
  /\ rm[p] = "written"
  /\ \/ /\ file' \in tmp
        /\ tmp' = {}
        /\ fd' = Followed
        /\ want' = {l \in want : l.host # rm_host[p]}
     \/ tmp = {} /\ UNCHANGED <<file, tmp, fd, want>>
  /\ Exits(p)
  /\ UNCHANGED <<approved, overlap>>

\* The process is killed on the way.
RemoveKilled(p) ==
  /\ rm[p] # "none"
  /\ Exits(p)
  /\ fd' = [fd EXCEPT ![p] = "none"]
  /\ UNCHANGED <<file, tmp, want, approved, overlap>>

RemoveStep(p) ==
  RemoveOpens(p) \/ RemoveWrites(p) \/ RemoveRenames(p) \/ RemoveKilled(p)

-----------------------------------------------------------------------------
\* A user said yes to the line, or it is the end of one a user said yes to and
\* that two removals at once cut (connect.rs:273-275).
Vouched(l) ==
  \/ l \in approved
  \/ overlap = "yes" /\ \E a \in approved : l \in Cut(a)

\* known_hosts holds exactly the lines that were pinned and not removed since,
\* although a removal can be killed at any point, because it replaces the file
\* with one rename.  When another process changed the file during a removal,
\* lines may be lost or come back (connect.rs:225-226, 258-275), and when it was
\* another removal, which shares the temporary file, the end of a line may be
\* left; nothing else is ever there.
KnownHostsExact ==
  /\ \A l \in Lines(file) : Vouched(l)
  /\ overlap = "no" => Lines(file) = want
=============================================================================
