------------------------------ MODULE UploadTree ------------------------------
(***************************************************************************)
(* `quish cp dir host:dst`: collect_walk and upload_tree in the client     *)
(* (quish-client/src/cp.rs), one MkDir channel per directory and one       *)
(* WriteFile channel (Upload) per file, over one connection.  A run stops  *)
(* at its first failure, or is killed, and is then started again over what *)
(* it left; the helper of the killed run may still be alive.               *)
(***************************************************************************)
EXTENDS Upload, Sequences, FiniteSets

CONSTANTS
  Root,      \* the source directory
  Children,  \* directory -> its entries, sorted by name
  Files,     \* the regular files
  Skipped,   \* the entries that are neither: links, devices
  ReadOnly,  \* the nodes whose mode, which the client sends along, keeps the
             \* user from writing to them again (none, for root)
  MaxRuns    \* bound: runs of the command

Dirs  == DOMAIN Children
Nodes == Dirs \cup Files

\* A finite tree: an entry stands in one place of one directory, Root in none,
\* and since links are not followed no directory lies below itself.
ASSUME TreeAssumption ==
  /\ Root \in Dirs /\ Files \cap Dirs = {} /\ Skipped \cap Nodes = {}
  /\ IsFiniteSet(Nodes \cup Skipped)
  /\ Children \in [Dirs -> Seq((Nodes \cup Skipped) \ {Root})]
  /\ \A n \in Nodes \ {Root} : \E d \in Dirs : \E i \in 1..Len(Children[d]) : Children[d][i] = n
  /\ \A d, e \in Dirs : \A i \in 1..Len(Children[d]), j \in 1..Len(Children[e]) :
       Children[d][i] = Children[e][j] => d = e /\ i = j
  /\ \E height \in [Dirs -> 0..Cardinality(Dirs)] :
       \A d \in Dirs : \A i \in 1..Len(Children[d]) :
         Children[d][i] \in Dirs => height[Children[d][i]] < height[d]
  /\ ReadOnly \subseteq Nodes /\ MaxRuns \in Nat \ {0}

VARIABLES
  run,          \* which run this is
  at,           \* where in the walk it is
  mk,           \* the MkDir channel's status: "none", "zero", "nonzero"
  tree_result,  \* of this run: "none", "ok", "failed"
  made,         \* the nodes that exist on the server
  data,         \* file -> the chunks in it
  stale,        \* run -> the helper it left: its state, file, chunks written
                \* and chunks on their way to it
  fault,        \* auxiliary: "no", "yes": something failed in this run, "mode":
                \* a mode was in its way
  spoiled       \* auxiliary: "no", "yes": see RefinesTreeCopy

tree_vars == <<run, at, mk, tree_result, made, data, stale, fault, spoiled>>
all_vars == <<vars, tree_vars>>

NoHelper == [state |-> "none", file |-> Root, written |-> 0, limit |-> 0]

TreeInit ==
  /\ Init
  /\ run = 1 /\ at = 1 /\ mk = "none" /\ tree_result = "none"
  /\ made = {} /\ data = [f \in Files |-> {}]
  /\ stale = [r \in 1..MaxRuns |-> NoHelper] /\ fault = "no" /\ spoiled = "no"

-----------------------------------------------------------------------------
(* The walk                                                                *)

\* How far the walk is in a directory: before its first entry, or after its i-th.
Positions == UNION {{d} \X (0..Len(Children[d])) : d \in Dirs}

\* The two vectors after p[2] entries of p[1], from what c says of earlier
\* positions: a directory is pushed and then walked, a file is pushed.
Push(c, p) ==
  IF p[2] = 0 THEN [dirs |-> <<>>, files |-> <<>>]
  ELSE LET n == Children[p[1]][p[2]]
           before == c[<<p[1], p[2] - 1>>]
           within == c[<<n, Len(Children[n])>>]
       IN IF n \in Dirs
          THEN [dirs |-> (before.dirs \o <<n>>) \o within.dirs,
                files |-> before.files \o within.files]
          ELSE IF n \in Files
          THEN [dirs |-> before.dirs, files |-> Append(before.files, n)]
          ELSE before

collect_dir[p \in Positions] == Push(collect_dir, p)

\* The order of upload_tree: the root, all directories, all files.
collect_walk ==
  LET walk == collect_dir[<<Root, Len(Children[Root])>>]
  IN (<<Root>> \o walk.dirs) \o walk.files

Parent == [n \in Nodes \ {Root} |->
             CHOOSE d \in Dirs : \E i \in 1..Len(Children[d]) : Children[d][i] = n]

Here == collect_walk[at]
HasParent(n) == n = Root \/ Parent[n] \in made

\* The user may not create n, or may not open it for writing once it is there.
Blocked(n) ==
  \/ n \notin made /\ n # Root /\ Parent[n] \in ReadOnly
  \/ n \in made /\ n \in Files \cap ReadOnly

\* What is recorded of a failure at n.
Mark(n) == IF Blocked(n) /\ fault # "yes" THEN "mode" ELSE "yes"

-----------------------------------------------------------------------------
(* upload_tree                                                             *)

\* The next channel, or success after the last one.
Advance ==
  \/ at < Len(collect_walk) /\ at' = at + 1 /\ UNCHANGED tree_result
  \/ at = Len(collect_walk) /\ tree_result' = "ok" /\ UNCHANGED at

RunFails == tree_result' = "failed" /\ UNCHANGED at

\* Mutant: a directory that exists is an error.
MutMkdirCode(n) == IF HasParent(n) /\ n \notin made THEN "zero" ELSE "nonzero"

\* mkdir: an existing directory is success.
MkdirCode(n) == IF HasParent(n) /\ ~Blocked(n) THEN "zero" ELSE "nonzero"

\* The MkDir channel's helper, or its thread; it may also fail for a reason of
\* its own: a file in the way, no permission at the root, a spawn that fails.
MkdirRuns ==
  /\ tree_result = "none" /\ Here \in Dirs /\ mk = "none"
  /\ \/ /\ mk' = MkdirCode(Here)
        /\ made' = IF MkdirCode(Here) = "zero" THEN made \cup {Here} ELSE made
        /\ fault' = IF HasParent(Here) /\ Blocked(Here) THEN Mark(Here) ELSE fault
     \/ mk' = "nonzero" /\ fault' = "yes" /\ UNCHANGED made
  /\ UNCHANGED <<vars, run, at, tree_result, data, stale, spoiled>>

\* await_status of mkdir_one.
MkdirDone ==
  /\ tree_result = "none" /\ Here \in Dirs /\ mk # "none"
  /\ IF mk = "zero" THEN Advance ELSE RunFails
  /\ mk' = "none"
  /\ UNCHANGED <<vars, run, made, data, stale, fault, spoiled>>

\* The client is killed, or loses the connection, between directories; the
\* helper's mkdir has happened or will not, since later makes no difference.
MkdirLost ==
  /\ tree_result = "none" /\ Here \in Dirs
  /\ RunFails
  /\ fault' = "yes" /\ mk' = "none"
  /\ UNCHANGED <<vars, run, made, data, stale, spoiled>>

\* A new WriteFile channel.
FreshChannel ==
  /\ client' = "sending" /\ result' = "none" /\ sent' = 0 /\ fin' = "no"
  /\ task' = "frames" /\ taken' = 0 /\ code' = "none" /\ status' = "none"
  /\ writer' = "starting" /\ written' = 0
  /\ UNCHANGED server

\* The steps of the current upload, and what the writer's do to the file.
Uploading == Here \in Files /\ (tree_result = "none" \/ Gone)

Quiet(A) == A /\ UNCHANGED <<made, data, fault, spoiled>>

\* The open creates the file with the mode of the source, or empties the file
\* that is there, if its mode allows that.
FileOpened ==
  /\ WriterOpens
  /\ writer' = "running" => HasParent(Here) /\ ~Blocked(Here)
  /\ made' = IF writer' = "running" THEN made \cup {Here} ELSE made
  /\ data' = IF writer' = "running" THEN [data EXCEPT ![Here] = {}] ELSE data
  /\ fault' = IF writer' = "unopened" /\ HasParent(Here) THEN Mark(Here) ELSE fault
  /\ UNCHANGED spoiled

FileWritten ==
  /\ WriterWrites
  /\ data' = [data EXCEPT ![Here] = @ \cup {written'}]
  /\ UNCHANGED <<made, fault, spoiled>>

FileFailed ==
  /\ WriterFails
  /\ fault' = "yes"
  /\ spoiled' = IF server = "dev" THEN "yes" ELSE spoiled
  /\ UNCHANGED <<made, data>>

ClientLost == (ClientFails \/ ClientKilled) /\ fault' = "yes" /\ UNCHANGED <<made, data, spoiled>>

ServerSide ==
  FileOpened \/ FileWritten \/ FileFailed \/ Quiet(WriterEof \/ TaskStep \/ CloseKills)

UploadStep ==
  /\ Uploading
  /\ Quiet(ClientStep) \/ ClientLost \/ ServerSide
  /\ UNCHANGED <<run, at, mk, tree_result, stale>>

\* Mutant: the status of a file is not looked at.
MutFileDone ==
  /\ tree_result = "none" /\ Here \in Files /\ Gone
  /\ \/ result # "none" /\ Advance /\ FreshChannel
     \/ result = "none" /\ RunFails /\ UNCHANGED vars
  /\ UNCHANGED <<run, mk, made, data, stale, fault, spoiled>>

\* upload_one has returned, or the client is dead.
FileDone ==
  /\ tree_result = "none" /\ Here \in Files /\ Gone
  /\ \/ result = "ok" /\ Advance
        /\ IF at < Len(collect_walk) THEN FreshChannel ELSE UNCHANGED vars
     \/ result # "ok" /\ RunFails /\ UNCHANGED vars
  /\ UNCHANGED <<run, mk, made, data, stale, fault, spoiled>>

-----------------------------------------------------------------------------
(* The next run, and the helpers of those before it                        *)

\* The user runs the command again.
Rerun ==
  /\ tree_result = "failed" /\ run < MaxRuns
  /\ run' = run + 1 /\ at' = 1 /\ mk' = "none" /\ tree_result' = "none" /\ fault' = "no"
  /\ stale' = IF Here \in Files /\ Alive
              THEN [stale EXCEPT ![run] = [state |-> writer, file |-> Here,
                                           written |-> written, limit |-> sent]]
              ELSE stale
  /\ FreshChannel
  /\ UNCHANGED <<made, data, spoiled>>

\* It opens the file only now, and empties it.
StaleOpens(r) ==
  /\ stale[r].state = "starting" /\ ~Blocked(stale[r].file)
  /\ stale' = [stale EXCEPT ![r].state = "running"]
  /\ made' = made \cup {stale[r].file}
  /\ data' = [data EXCEPT ![stale[r].file] = {}]
  /\ spoiled' = "yes"
  /\ UNCHANGED <<vars, run, at, mk, tree_result, fault>>

\* It writes, at its own offset, the same bytes the new run does.
StaleWrites(r) ==
  /\ stale[r].state = "running" /\ stale[r].written < stale[r].limit
  /\ stale' = [stale EXCEPT ![r].written = @ + 1]
  /\ data' = [data EXCEPT ![stale[r].file] = @ \cup {stale[r].written + 1}]
  /\ UNCHANGED <<vars, run, at, mk, tree_result, made, fault, spoiled>>

StaleEnds(r) ==
  /\ stale[r].state # "none"
  /\ stale' = [stale EXCEPT ![r] = NoHelper]
  /\ UNCHANGED <<vars, run, at, mk, tree_result, made, data, fault, spoiled>>

-----------------------------------------------------------------------------
ClientRuns == MkdirDone \/ FileDone \/ (UploadStep /\ Quiet(ClientStep))

TreeNext ==
  \/ MkdirRuns \/ MkdirDone \/ MkdirLost
  \/ UploadStep \/ FileDone
  \/ Rerun
  \/ \E r \in 1..MaxRuns : StaleOpens(r) \/ StaleWrites(r) \/ StaleEnds(r)

TreeSpec == TreeInit /\ [][TreeNext]_all_vars

TreeFairSpec ==
  /\ TreeSpec
  /\ WF_all_vars(ClientRuns)
  /\ WF_all_vars(MkdirRuns)
  /\ WF_all_vars(UploadStep /\ (FileOpened \/ FileWritten \/ Quiet(WriterEof)))
  /\ WF_all_vars(UploadStep /\ Quiet(TaskStep))

-----------------------------------------------------------------------------
\* A run that is repeated is not stopped by what the runs before it left, but
\* for one thing: a file whose mode is read-only, which the first open creates
\* and no later one may open (cp.rs:440, privdrop.rs:363-369), or a directory with
\* such a mode.  Else a run fails only if something fails in it: its directories
\* come before what is in them, "an existing directory at `path` is success
\* (idempotent re-upload)" (privdrop.rs:385-386) and a file is opened with O_TRUNC.
RerunSucceeds ==
  tree_result = "failed" => \/ fault = "yes"
                            \/ fault = "mode" /\ Blocked(Here)

\* Each run ends, although the client reads no status before it has sent the
\* whole file (cp.rs:460-464).
TreeEnds == tree_result = "none" ~> tree_result # "none"

\* The remote tree as TreeCopy sees it.
NodeState(n) ==
  CASE n \notin made -> "absent"
    [] n \in made /\ (n \in Dirs \/ (n \in Files /\ data[n] = 1..FileLen)) -> "whole"
    [] OTHER -> "partial"

Copy == INSTANCE TreeCopy
          WITH node <- [n \in Nodes |-> NodeState(n)], outcome <- tree_result,
               Opened <- IF FileLen = 0 THEN "whole" ELSE "partial"

\* upload_tree implements TreeCopy: parents first, nothing vanishes, and success
\* only for a whole tree (cp.rs:496-498).  Two things spoil that: a dev server,
\* which reports a failed write as success (session.rs:139), and a killed run's
\* helper that opens its file, and truncates it, only when the next run is under
\* way (privdrop.rs:365-369).
RefinesTreeCopy == Copy!Spec
=============================================================================
