------------------------------- MODULE Download -------------------------------
(***************************************************************************)
(* `quish cp host:file dst`, end to end: download_one in the client        *)
(* (quish-client/src/cp.rs), the stream, and the server's side of a        *)
(* ReadFile channel, which is run_transfer and the transfer helper in a    *)
(* privilege-separated server (worker.rs, privdrop.rs) and `transfer` in a *)
(* dev server (session.rs).  Several client processes may download to the  *)
(* same destination, and a client process may be killed at any point.      *)
(*                                                                         *)
(* The remote file is RemoteLen chunks and does not change.  Chunks arrive   *)
(* in order, so each stage is a count of chunks; a local file is the set   *)
(* of the chunks that have been written at their place in it.              *)
(***************************************************************************)
EXTENDS Integers, FiniteSets

CONSTANTS
  Clients,          \* runs of `quish cp`
  NoFile, OldFile,  \* no directory entry; the file that was at the destination
  RemoteLen,        \* chunks in the remote file
  QueueCap,         \* capacity of the queue behind read_loop (64) and its pipe
  StreamCap         \* chunks the stream holds

ASSUME DownloadAssumption ==
  /\ {NoFile, OldFile} \cap Clients = {} /\ NoFile # OldFile
  /\ RemoteLen \in Nat /\ {QueueCap, StreamCap} \subseteq Nat \ {0}

VARIABLES
  phase,       \* client -> "idle", "receiving", "returned", "killed"
  verdict,     \* client -> "none", "ok", "status", "error"
  fd,          \* client -> the file its descriptor is open on
  offset,      \* client -> chunks it has taken from the stream and written
  part,        \* what the name .<dst>.quish-part is bound to
  final,       \* what the name <dst> is bound to
  content,     \* file -> the chunks in it
  contended,   \* auxiliary: the files opened while another download ran
  peer,        \* how the server runs: "privsep", "dev"
  reader,      \* client -> its channel's file reader: "none", "running", "ok",
               \* "unopened", "failed", "stopped", "killed"
  read,        \* client -> chunks the reader has read
  serve,       \* client -> the channel's task: "none", "pump", "drained",
               \* "gone", "status", "finished", "failed"
  forwarded,   \* client -> chunks the task has sent
  exit,        \* client -> the exit code: "none", "zero", "nonzero"
  exit_status  \* client -> the ExitStatus on the stream

receive_vars  == <<phase, verdict, fd, offset>>
dir_vars      == <<part, final, content, contended>>
reader_vars   == <<peer, reader, read>>
serve_vars    == <<serve, forwarded, exit, exit_status>>
download_vars == <<receive_vars, dir_vars, reader_vars, serve_vars>>

LocalFiles == Clients \cup {OldFile}
Chunks     == 1..RemoteLen
ExitCodes  == {"none", "zero", "nonzero"}

DownloadTypeOK ==
  /\ peer \in {"privsep", "dev"}
  /\ phase \in [Clients -> {"idle", "receiving", "returned", "killed"}]
  /\ verdict \in [Clients -> {"none", "ok", "status", "error"}]
  /\ fd \in [Clients -> LocalFiles \cup {NoFile}]
  /\ offset \in [Clients -> 0..RemoteLen]
  /\ part \in Clients \cup {NoFile}
  /\ final \in LocalFiles \cup {NoFile}
  /\ content \in [Clients -> SUBSET Chunks]
  /\ contended \subseteq Clients
  /\ reader \in [Clients -> {"none", "running", "ok", "unopened", "failed",
                             "stopped", "killed"}]
  /\ read \in [Clients -> 0..RemoteLen]
  /\ serve \in [Clients -> {"none", "pump", "drained", "gone", "status",
                            "finished", "failed"}]
  /\ forwarded \in [Clients -> 0..RemoteLen]
  /\ exit \in [Clients -> ExitCodes]
  /\ exit_status \in [Clients -> ExitCodes]
  /\ \A c \in Clients :
       /\ offset[c] <= forwarded[c] /\ forwarded[c] - offset[c] <= StreamCap
       /\ forwarded[c] <= read[c] /\ read[c] - forwarded[c] <= QueueCap

DownloadInit ==
  /\ peer \in {"privsep", "dev"}
  /\ phase = [c \in Clients |-> "idle"]
  /\ verdict = [c \in Clients |-> "none"]
  /\ fd = [c \in Clients |-> NoFile]
  /\ offset = [c \in Clients |-> 0]
  /\ part = NoFile
  /\ final \in {NoFile, OldFile}
  /\ content = [c \in Clients |-> {}]
  /\ contended = {}
  /\ reader = [c \in Clients |-> "none"]
  /\ read = [c \in Clients |-> 0]
  /\ serve = [c \in Clients |-> "none"]
  /\ forwarded = [c \in Clients |-> 0]
  /\ exit = [c \in Clients |-> "none"]
  /\ exit_status = [c \in Clients |-> "none"]

HungUp(c) == phase[c] # "receiving"

-----------------------------------------------------------------------------
(* download_one                                                            *)

\* Send ReadFile, then File::create the part file: an existing one is
\* truncated and shared, whoever made it.
Start(c) ==
  /\ phase[c] = "idle"
  /\ LET file == IF part = NoFile THEN c ELSE part
     IN /\ part' = file
        /\ fd' = [fd EXCEPT ![c] = file]
        /\ content' = [content EXCEPT ![file] = {}]
        /\ contended' = IF \E d \in Clients : phase[d] = "receiving"
                        THEN contended \cup {file} ELSE contended
  /\ phase' = [phase EXCEPT ![c] = "receiving"]
  /\ serve' = [serve EXCEPT ![c] = "pump"]
  /\ reader' = [reader EXCEPT ![c] = "running"]
  /\ UNCHANGED <<verdict, offset, final, peer, read, forwarded, exit, exit_status>>

\* The part file cannot be created: ReadFile has been sent already.
CreateFails(c) ==
  /\ phase[c] = "idle"
  /\ phase' = [phase EXCEPT ![c] = "returned"]
  /\ verdict' = [verdict EXCEPT ![c] = "error"]
  /\ serve' = [serve EXCEPT ![c] = "pump"]
  /\ reader' = [reader EXCEPT ![c] = "running"]
  /\ UNCHANGED <<fd, offset, dir_vars, peer, read, forwarded, exit, exit_status>>

\* A Data frame: write_all at this descriptor's offset.
ReceiveData(c) ==
  /\ phase[c] = "receiving" /\ offset[c] < forwarded[c]
  /\ offset' = [offset EXCEPT ![c] = @ + 1]
  /\ content' = [content EXCEPT ![fd[c]] = @ \cup {offset[c] + 1}]
  /\ UNCHANGED <<phase, verdict, fd, part, final, contended, reader_vars, serve_vars>>

Returns(c, r) ==
  /\ phase' = [phase EXCEPT ![c] = "returned"]
  /\ verdict' = [verdict EXCEPT ![c] = r]
  /\ UNCHANGED <<fd, offset, content, contended, reader_vars, serve_vars>>

\* remove_file(&temp_path), its error ignored.
RemovePart == part' = NoFile /\ UNCHANGED final

\* write_all fails, the connection is lost, or the stream ends with no status.
TransportFails(c) ==
  /\ phase[c] = "receiving"
  /\ RemovePart
  /\ Returns(c, "error")

\* The exit status ends the loop; the frames before it have been taken.
HasStatus(c) == phase[c] = "receiving" /\ offset[c] = forwarded[c]

\* The file under the part name becomes the destination: the rename goes by
\* name, and fails if the name is gone or for a reason of the file system.
ReceiveZero(c) ==
  /\ HasStatus(c) /\ exit_status[c] = "zero"
  /\ \/ part # NoFile /\ final' = part /\ part' = NoFile /\ Returns(c, "ok")
     \/ UNCHANGED <<part, final>> /\ Returns(c, "error")

\* Mutant: the part file is left behind by a failed download.
MutReceiveNonzero(c) ==
  /\ HasStatus(c) /\ exit_status[c] = "nonzero"
  /\ UNCHANGED <<part, final>>
  /\ Returns(c, "status")

ReceiveNonzero(c) ==
  /\ HasStatus(c) /\ exit_status[c] = "nonzero"
  /\ RemovePart
  /\ Returns(c, "status")

Killed(c) ==
  /\ phase[c] = "receiving"
  /\ phase' = [phase EXCEPT ![c] = "killed"]
  /\ UNCHANGED <<verdict, fd, offset, dir_vars, reader_vars, serve_vars>>

-----------------------------------------------------------------------------
(* The file reader: the helper and read_loop, or the dev server's thread   *)

ReaderMoves(c, state, n) ==
  /\ reader[c] = "running"
  /\ reader' = [reader EXCEPT ![c] = state]
  /\ read' = [read EXCEPT ![c] = n]
  /\ UNCHANGED <<receive_vars, dir_vars, peer, serve_vars>>

ReceiverDropped(c) == serve[c] \in {"finished", "failed"}

\* A chunk goes into the queue when it has room; a send to a dropped receiver
\* ends the loop, and the helper with it.
ReadChunk(c) ==
  /\ read[c] < RemoteLen
  /\ \/ ~ReceiverDropped(c) /\ read[c] - forwarded[c] < QueueCap
        /\ ReaderMoves(c, "running", read[c] + 1)
     \/ ReceiverDropped(c) /\ ReaderMoves(c, "stopped", read[c])

ReadEof(c) == read[c] = RemoteLen /\ ReaderMoves(c, "ok", read[c])

\* The open or the fstat fails, or the path is no regular file.
OpenFails(c) == read[c] = 0 /\ ReaderMoves(c, "unopened", 0)

\* A read fails.
ReadFails(c) ==
  read[c] < RemoteLen /\ ReaderMoves(c, "failed", read[c])

-----------------------------------------------------------------------------
(* The channel's task: run_transfer, or transfer in dev mode               *)

ServeMoves(c, state, n) ==
  /\ serve' = [serve EXCEPT ![c] = state]
  /\ forwarded' = [forwarded EXCEPT ![c] = n]
  /\ UNCHANGED <<receive_vars, dir_vars>>

\* send_msg: the frame goes out; or the client hung up and the loop breaks; or
\* the stream failed and `?` returns.
SendChunk(c) ==
  /\ serve[c] = "pump" /\ forwarded[c] < read[c]
  /\ \/ ~HungUp(c) /\ forwarded[c] - offset[c] < StreamCap
        /\ ServeMoves(c, "pump", forwarded[c] + 1)
     \/ HungUp(c) /\ \E s \in {"gone", "failed"} : ServeMoves(c, s, forwarded[c])
  /\ UNCHANGED <<reader_vars, exit, exit_status>>

Drained(c) ==
  /\ serve[c] = "pump" /\ forwarded[c] = read[c] /\ reader[c] # "running"
  /\ ServeMoves(c, "drained", forwarded[c])
  /\ UNCHANGED <<reader_vars, exit, exit_status>>

\* Mutant: the exit code is not looked at.
MutReadCode(r) == "zero"

\* The code of the ended reader.  The dev server's thread returns Ok from
\* read_loop whether that loop met end of file or an error.
ReadCode(r) ==
  IF r = "ok" \/ (peer = "dev" /\ r # "unopened") THEN "zero" ELSE "nonzero"

\* Mutant: the helper is waited for and never killed.
MutCollect(c) ==
  /\ serve[c] \in {"drained", "gone"}
  /\ reader[c] # "running"
  /\ exit' = [exit EXCEPT ![c] = ReadCode(reader[c])]
  /\ ServeMoves(c, IF serve[c] = "drained" THEN "status" ELSE "finished", forwarded[c])
  /\ UNCHANGED <<reader_vars, exit_status>>

\* reap kills a helper that is still there and waits; join only waits.  With
\* the client gone no status is sent.
Collect(c) ==
  /\ serve[c] \in {"drained", "gone"}
  /\ peer = "dev" => reader[c] # "running"
  /\ reader' = [reader EXCEPT ![c] = IF @ = "running" THEN "killed" ELSE @]
  /\ exit' = [exit EXCEPT ![c] = ReadCode(reader'[c])]
  /\ ServeMoves(c, IF serve[c] = "drained" THEN "status" ELSE "finished", forwarded[c])
  /\ UNCHANGED <<peer, read, exit_status>>

SendStatus(c) ==
  /\ serve[c] = "status"
  /\ \/ HungUp(c) /\ UNCHANGED exit_status
     \/ ~HungUp(c) /\ exit_status' = [exit_status EXCEPT ![c] = exit[c]]
  /\ ServeMoves(c, "finished", forwarded[c])
  /\ UNCHANGED <<reader_vars, exit>>

-----------------------------------------------------------------------------
ReaderStep(c)  == ReadChunk(c) \/ ReadEof(c)
ServeStep(c)   == SendChunk(c) \/ Drained(c) \/ Collect(c) \/ SendStatus(c)
ReceiveStep(c) == ReceiveData(c) \/ ReceiveZero(c) \/ ReceiveNonzero(c)

DownloadNext ==
  \E c \in Clients :
    \/ Start(c) \/ CreateFails(c) \/ ReceiveStep(c) \/ TransportFails(c)
    \/ Killed(c)
    \/ ReaderStep(c) \/ OpenFails(c) \/ ReadFails(c) \/ ServeStep(c)

DownloadSpec == DownloadInit /\ [][DownloadNext]_download_vars

\* Each thread and each task runs; nothing makes a user start a download, a
\* read fail or a process be killed.
DownloadFairSpec ==
  /\ DownloadSpec
  /\ \A c \in Clients : /\ WF_download_vars(ReaderStep(c))
                        /\ WF_download_vars(ServeStep(c))
                        /\ WF_download_vars(ReceiveStep(c))

-----------------------------------------------------------------------------
Whole(f) == f \in Clients /\ content[f] = Chunks

\* download_one is "never a silent success" (cp.rs:352-355).  With a privilege-
\* separated server, and for a file that no other download had open, success means
\* that the whole remote file is at the destination, and no download that failed
\* or was killed ever leaves part of a file there.
NoSilentSuccess ==
  peer = "privsep" =>
    /\ final \in {NoFile, OldFile} \cup contended \/ Whole(final)
    /\ (\E c \in Clients : verdict[c] = "ok") => final \in Clients

\* What "nonzero on failure" (session.rs:83) and "never a silent success"
\* (cp.rs:352-355) say together, of either server and of any downloads: once a
\* download has reported success, the file at the destination is whole.
SuccessMeansWhole ==
  (\E c \in Clients : verdict[c] = "ok") => Whole(final)

\* download_one removes the part file on every way out but the one a kill
\* takes and a failed rename: what is left under its name belongs to a
\* download still running, to one that was killed, or to one whose rename
\* failed after a zero status.
PartOwned ==
  part # NoFile =>
    \E c \in Clients :
      /\ fd[c] = part
      /\ \/ phase[c] \in {"receiving", "killed"}
         \/ verdict[c] = "error" /\ exit_status[c] = "zero"

\* download_one returns, and, in a privilege-separated server, so does
\* run_transfer, whatever the client and the file do and wherever the queue is
\* full: a helper blocked on a client that hung up is killed by its reaper, so
\* that none waits for ever (worker.rs:459-468).
DownloadEnds ==
  \A c \in Clients :
    /\ phase[c] = "receiving" ~> phase[c] # "receiving"
    /\ peer = "privsep" /\ serve[c] = "pump" ~> serve[c] \in {"finished", "failed"}
=============================================================================
