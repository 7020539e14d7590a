------------------------------ MODULE MCStreams -------------------------------
(* The channels of a connection in one run for TLC: a behaviour is one of an    *)
(* exec channel (Channel), of two downloads to one destination (Download), or   *)
(* of an upload of a tree (UploadTree): a root with a file whose mode is        *)
(* read-only, a symbolic link and two nested directories, the inner one with a  *)
(* file.                                                                        *)
EXTENDS Channel, Download, UploadTree

CONSTANTS c1, c2

VARIABLE way  \* "exec", "down", "up"

MCChildren == [root |-> <<"dir", "file", "link">>, dir |-> <<"sub">>, sub |-> <<"deep">>]
MCFiles == {"file", "deep"}
MCSkipped == {"link"}
MCReadOnly == {"file"}

\* Bound: there is a file at the destination of the downloads.  The parts that do
\* not run start in one state only.
MCInit ==
  /\ ChannelInit /\ DownloadInit /\ final = OldFile /\ TreeInit
  /\ \/ way = "exec" /\ server = "privsep" /\ peer = "privsep"
     \/ way = "down" /\ server = "privsep"
     \/ way = "up" /\ peer = "privsep"

MCNext ==
  /\ \/ way = "exec" /\ ChannelNext /\ UNCHANGED <<download_vars, all_vars>>
     \/ way = "down" /\ DownloadNext /\ UNCHANGED <<channel_vars, all_vars>>
     \/ way = "up" /\ TreeNext /\ UNCHANGED <<channel_vars, download_vars>>
  /\ UNCHANGED way

\* The fairness of each, in its own behaviours.
MCSpec ==
  /\ MCInit /\ [][MCNext]_<<way, channel_vars, download_vars, all_vars>>
  /\ WF_channel_vars(way = "exec" /\ TerminalStep)
  /\ WF_channel_vars(way = "exec" /\ PumpStep)
  /\ WF_channel_vars(way = "exec" /\ DrainSignal)
  /\ WF_channel_vars(way = "exec" /\ ChildStep)
  /\ \A c \in Clients : /\ WF_download_vars(way = "down" /\ ReaderStep(c))
                        /\ WF_download_vars(way = "down" /\ ServeStep(c))
                        /\ WF_download_vars(way = "down" /\ ReceiveStep(c))
  /\ WF_all_vars(way = "up" /\ ClientRuns)
  /\ WF_all_vars(way = "up" /\ MkdirRuns)
  /\ WF_all_vars(way = "up" /\ UploadStep /\ (FileOpened \/ FileWritten \/ Quiet(WriterEof)))
  /\ WF_all_vars(way = "up" /\ UploadStep /\ Quiet(TaskStep))

\* TreeEnds, in the behaviours in which a tree is uploaded: each run of upload_tree
\* ends, although the client reads no status before it has sent the whole file
\* (cp.rs:460-464).
UploadEnds == way = "up" /\ tree_result = "none" ~> tree_result # "none"
=============================================================================
