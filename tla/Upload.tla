-------------------------------- MODULE Upload --------------------------------
(***************************************************************************)
(* `quish cp file host:dst`, end to end: upload_one in the client          *)
(* (quish-client/src/cp.rs), the stream, and the server's side of a        *)
(* WriteFile channel: run_transfer_write and the upload helper in a        *)
(* privilege-separated server (worker.rs, privdrop.rs), transfer_write in  *)
(* a dev server (session.rs).                                              *)
(*                                                                         *)
(* The file is FileLen chunks.  Chunks keep their order, so each stage is  *)
(* a count: sent by the client, taken by the channel's task, written to    *)
(* the remote file.                                                        *)
(***************************************************************************)
EXTENDS Integers

CONSTANTS
  FileLen,  \* chunks in the local file
  UpCap,    \* chunks the stream and the frame reader's queue hold
  InCap     \* chunks the queue before write_loop and its pipe hold

ASSUME UploadAssumption == FileLen \in Nat /\ {UpCap, InCap} \subseteq Nat \ {0}

VARIABLES
  client,   \* "sending", "awaiting", "returned", "killed"
  result,   \* "none", "ok", "status", "error"
  sent,     \* chunks the client has sent
  fin,      \* how its half of the stream ended: "no", "fin", "reset"
  task,     \* "frames", "closed", "status", "finished"
  taken,    \* chunks the task has passed on
  code,     \* the writer's code: "none", "zero", "nonzero"
  status,   \* the ExitStatus on the stream
  server,   \* how the server runs: "privsep", "dev"
  writer,   \* the helper, or the dev server's thread: "starting", "running",
            \* "ok", "unopened", "failed", "killed"
  written   \* chunks in the remote file

client_vars == <<client, result, sent, fin>>
task_vars   == <<task, taken, code, status>>
writer_vars == <<server, writer, written>>
vars == <<client_vars, task_vars, writer_vars>>

Codes == {"none", "zero", "nonzero"}

TypeOK ==
  /\ server \in {"privsep", "dev"}
  /\ client \in {"sending", "awaiting", "returned", "killed"}
  /\ result \in {"none", "ok", "status", "error"}
  /\ fin \in {"no", "fin", "reset"}
  /\ task \in {"frames", "closed", "status", "finished"}
  /\ code \in Codes /\ status \in Codes
  /\ writer \in {"starting", "running", "ok", "unopened", "failed", "killed"}
  /\ {sent, taken, written} \subseteq 0..FileLen
  /\ taken <= sent /\ sent - taken <= UpCap
  /\ written <= taken /\ taken - written <= InCap

Init ==
  /\ server \in {"privsep", "dev"}
  /\ client = "sending" /\ result = "none" /\ sent = 0 /\ fin = "no"
  /\ task = "frames" /\ taken = 0 /\ code = "none" /\ status = "none"
  /\ writer = "starting" /\ written = 0

Alive == writer \in {"starting", "running"}
Gone  == client \in {"returned", "killed"}

-----------------------------------------------------------------------------
(* upload_one                                                              *)

\* A chunk is read and its Data frame sent, when the stream has room.
ClientSends ==
  /\ client = "sending" /\ sent < FileLen
  /\ task # "finished" /\ sent - taken < UpCap
  /\ sent' = sent + 1
  /\ UNCHANGED <<client, result, fin, task_vars, writer_vars>>

\* End of the local file: finish, then await_status.
ClientFinishes ==
  /\ client = "sending" /\ sent = FileLen
  /\ fin' = "fin"
  /\ client' = "awaiting"
  /\ UNCHANGED <<result, sent, task_vars, writer_vars>>

ClientReturns(r) ==
  /\ client' = "returned"
  /\ result' = r
  /\ fin' = IF fin = "no" THEN "reset" ELSE fin
  /\ UNCHANGED <<sent, task_vars, writer_vars>>

\* The channel is over and its receiving half dropped: send_data or finish fails,
\* and `?` returns without reading the status.
ClientSendFails ==
  /\ client = "sending" /\ task = "finished"
  /\ ClientReturns("error")

\* The local read fails, or the connection is lost.
ClientFails ==
  /\ client \in {"sending", "awaiting"}
  /\ ClientReturns("error")

\* await_status.
ClientStatus ==
  /\ client = "awaiting" /\ status # "none"
  /\ ClientReturns(IF status = "zero" THEN "ok" ELSE "status")

ClientKilled ==
  /\ client \in {"sending", "awaiting"}
  /\ client' = "killed"
  /\ fin' = IF fin = "no" THEN "reset" ELSE fin
  /\ UNCHANGED <<result, sent, task_vars, writer_vars>>

-----------------------------------------------------------------------------
(* The writer: run_transfer_write_helper behind write_loop, or the thread  *)

WriterMoves(state, n) ==
  /\ writer' = state
  /\ written' = n
  /\ UNCHANGED <<server, client_vars, task_vars>>

\* Open with O_CREAT and O_TRUNC, fstat: a regular file, or a failure.
WriterOpens ==
  /\ writer = "starting"
  /\ \E s \in {"running", "unopened"} : WriterMoves(s, 0)

WriterWrites ==
  /\ writer = "running" /\ written < taken
  /\ WriterMoves("running", written + 1)

WriterFails ==
  /\ writer = "running" /\ written < taken
  /\ WriterMoves("failed", written)

\* End of input: in_tx was dropped and everything before it written.
WriterEof ==
  /\ writer = "running" /\ task # "frames" /\ written = taken
  /\ WriterMoves("ok", written)

\* The connection's end makes the monitor kill the helper (monitor.rs, Close).
CloseKills ==
  /\ server = "privsep" /\ Gone /\ Alive
  /\ WriterMoves("killed", written)

-----------------------------------------------------------------------------
(* The channel's task: run_transfer_write, or transfer_write               *)

TaskMoves(state, n) ==
  /\ task' = state
  /\ taken' = n
  /\ UNCHANGED client_vars

\* A Data frame is passed on; the writer is gone, and so is the queue, or not
\* yet: in_tx.send fails and the loop breaks.
TaskTakes ==
  /\ task = "frames" /\ taken < sent
  /\ \/ taken - written < InCap /\ TaskMoves("frames", taken + 1)
     \/ ~Alive /\ TaskMoves("closed", taken)
  /\ UNCHANGED <<code, status, writer_vars>>

\* Mutant: the FIN overtakes the frames before it.
MutTaskFramesEnd ==
  /\ task = "frames" /\ fin # "no"
  /\ TaskMoves("closed", taken)
  /\ UNCHANGED <<code, status, writer_vars>>

\* The frames end, with the stream's FIN or with its failure: in_tx is dropped.
\* A reset may lose frames that were not yet taken.
TaskFramesEnd ==
  /\ task = "frames" /\ fin # "no"
  /\ fin = "fin" => taken = sent
  /\ TaskMoves("closed", taken)
  /\ UNCHANGED <<code, status, writer_vars>>

\* The dev server's thread returns Ok from write_loop whether that loop met
\* the end of its queue or a failed write.
ExitCode(w) ==
  IF w = "ok" \/ (server = "dev" /\ w # "unopened") THEN "zero" ELSE "nonzero"

\* The task waits for the helper's stdout to end, which its exit does, and
\* then reaps it; the dev server joins its thread.
TaskReaps ==
  /\ task = "closed" /\ ~Alive
  /\ code' = ExitCode(writer)
  /\ TaskMoves("status", taken)
  /\ UNCHANGED <<status, writer_vars>>

\* Mutant: the status waits for the FIN.
MutTaskSendsStatus ==
  /\ task = "status" /\ ~Gone /\ fin = "fin"
  /\ status' = code
  /\ TaskMoves("finished", taken)
  /\ UNCHANGED <<code, writer_vars>>

TaskSendsStatus ==
  /\ task = "status"
  /\ status' = IF Gone THEN status ELSE code
  /\ TaskMoves("finished", taken)
  /\ UNCHANGED <<code, writer_vars>>

-----------------------------------------------------------------------------
ClientStep == ClientSends \/ ClientFinishes \/ ClientSendFails \/ ClientStatus
WriterStep == WriterOpens \/ WriterWrites \/ WriterEof
TaskStep   == TaskTakes \/ TaskFramesEnd \/ TaskReaps \/ TaskSendsStatus

Next ==
  \/ ClientStep \/ ClientFails \/ ClientKilled
  \/ WriterStep \/ WriterFails \/ CloseKills
  \/ TaskStep

Spec == Init /\ [][Next]_vars

-----------------------------------------------------------------------------
\* With a privilege-separated server, upload_one reports success only for a file
\* that is complete on the server: the status is nonzero if an open or a write
\* failed (worker.rs:475-476), and no chunk is lost between the stages.
UploadExact ==
  result = "ok" /\ server = "privsep" => writer = "ok" /\ written = FileLen

\* run_transfer_write reaps the helper only after it has exited, so that the
\* reaper never kills a helper that is still writing and truncates the file
\* (worker.rs 488-492): only the end of the connection kills one.
HelperSpared == writer = "killed" => Gone
=============================================================================
