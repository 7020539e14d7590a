------------------------------- MODULE Channel -------------------------------
(***************************************************************************)
(* One exec or shell channel, end to end: the client's pump                *)
(* (quish-client/src/terminal.rs, run_channel), the stream, the server's   *)
(* pump (quish-server/src/session.rs, pump_exec and pump_shell) and the    *)
(* remote process, here a filter such as `cat`: it copies its input to its *)
(* outputs and exits at end of input.                                      *)
(*                                                                         *)
(* Both pumps are one task that selects between its sources and then       *)
(* AWAITS the write of what it took before it selects again; while it      *)
(* waits it takes nothing.                                                 *)
(*                                                                         *)
(* A run of passive movers is one bounded queue: `up` is the stream's      *)
(* window and the server's frame-reader queue, `stdin` the in_tx queue and *)
(* the pipe behind write_loop, `out` a pipe and the queue behind           *)
(* read_loop, `down` the stream's window and the client's frame-reader     *)
(* queue.  Chunks of input are numbered; 0 is a Signal frame.              *)
(***************************************************************************)
EXTENDS Integers, Sequences, FiniteSets

CONSTANTS
  Outputs,    \* {"out", "err"} for exec, {"out"} for a shell on its PTY
  MaxInput,   \* bound: chunks the user's stdin holds
  MaxSignals, \* bound: interrupts the user sends
  FrameCap, StdinCap, OutCap, DownCap,  \* capacities of the four queues
  SigCap      \* capacity of the signal queue

ASSUME ChannelAssumption ==
  /\ Outputs # {} /\ Outputs \cap {"in", "exit", "none"} = {}
  /\ {MaxInput, MaxSignals} \subseteq Nat
  /\ {FrameCap, StdinCap, OutCap, DownCap, SigCap} \subseteq Nat \ {0}

VARIABLES
  terminal,     \* the client: "select", "sending", "exited", "killed"
  c_item,       \* what the client is sending
  typed,        \* chunks taken from stdin
  signalled,    \* interrupts taken
  stdin_done,   \* "no", "yes": the send half was finished
  ending,       \* "none", "status", "lost" (-1), "error" (a send failed),
                \* "broken" (the output could not be written locally)
  got,          \* output -> chunks the client wrote out
  up, down,     \* the two directions of the stream
  down_fin,     \* "no", "yes": the server finished its half
  link,         \* "up", "lost": the connection
  pump,         \* "select", "stdin", "sig", "client", "drained", "gone",
                \* "failed", "finished"
  p_item,       \* what the server's pump is writing
  frames_done,  \* "no", "yes"
  sig_q,        \* signals waiting for the drain loop
  stdin,        \* the process's input
  out,          \* output -> chunks it wrote that the pump has not taken
  done,         \* the outputs the pump has seen end
  child,        \* "running", "exited"
  eaten,        \* auxiliary: the input the process consumed
  produced      \* auxiliary: output -> everything the process wrote

terminal_vars == <<terminal, c_item, typed, signalled, stdin_done, ending, got>>
stream_vars   == <<up, down, down_fin, link>>
pump_vars     == <<pump, p_item, frames_done, sig_q, done>>
child_vars    == <<child, eaten, produced>>
channel_vars == <<terminal_vars, stream_vars, pump_vars, stdin, out, child_vars>>

Items    == 0..MaxInput
Frames    == [kind : Outputs, chunk : Items]
InFrames  == [kind : {"in"}, chunk : Items]
NoFrame   == [kind |-> "none", chunk |-> 0]
ExitFrame == [kind |-> "exit", chunk |-> 0]

PumpStates == {"select", "stdin", "sig", "client", "drained", "gone",
               "failed", "finished"}

ChannelTypeOK ==
  /\ terminal \in {"select", "sending", "exited", "killed"}
  /\ c_item \in Items
  /\ typed \in Items
  /\ signalled \in 0..MaxSignals
  /\ stdin_done \in {"no", "yes"}
  /\ ending \in {"none", "status", "lost", "error", "broken"}
  /\ got \in [Outputs -> Seq(Items)]
  /\ up \in Seq(Items) /\ Len(up) <= FrameCap
  /\ down \in Seq(Frames \cup {ExitFrame}) /\ Len(down) <= DownCap
  /\ down_fin \in {"no", "yes"}
  /\ link \in {"up", "lost"}
  /\ pump \in PumpStates
  /\ p_item \in Frames \cup InFrames \cup {NoFrame}
  /\ frames_done \in {"no", "yes"}
  /\ sig_q \in 0..SigCap
  /\ stdin \in Seq(Items) /\ Len(stdin) <= StdinCap
  /\ out \in [Outputs -> Seq(Items)] /\ \A o \in Outputs : Len(out[o]) <= OutCap
  /\ done \subseteq Outputs
  /\ child \in {"running", "exited"}
  /\ eaten \in Seq(Items)
  /\ produced \in [Outputs -> Seq(Items)]

ChannelInit ==
  /\ terminal = "select" /\ c_item = 0 /\ typed = 0 /\ signalled = 0
  /\ stdin_done = "no" /\ ending = "none"
  /\ got = [o \in Outputs |-> <<>>]
  /\ up = <<>> /\ down = <<>> /\ down_fin = "no" /\ link = "up"
  /\ pump = "select" /\ p_item = NoFrame /\ frames_done = "no"
  /\ sig_q = 0 /\ done = {}
  /\ stdin = <<>>
  /\ out = [o \in Outputs |-> <<>>]
  /\ child = "running"
  /\ eaten = <<>>
  /\ produced = [o \in Outputs |-> <<>>]

ClientGone == terminal \in {"exited", "killed"}

\* send_msg can only fail.
Unreachable == ClientGone \/ link = "lost"

\* What may have reached the other end when a stream is torn down.
Prefixes(q) == {SubSeq(q, 1, n) : n \in 0..Len(q)}

-----------------------------------------------------------------------------
(* run_channel                                                             *)

\* The stdin branch with a chunk: the client now awaits send_frame.
ClientTakesStdin ==
  /\ terminal = "select" /\ stdin_done = "no"
  /\ typed < MaxInput
  /\ typed' = typed + 1
  /\ c_item' = typed + 1
  /\ terminal' = "sending"
  /\ UNCHANGED <<signalled, stdin_done, ending, got, stream_vars, pump_vars,
                 stdin, out, child_vars>>

\* The stdin branch at end of input: finish() half-closes the stream.
ClientStdinEof ==
  /\ terminal = "select" /\ stdin_done = "no"
  /\ typed = MaxInput
  /\ stdin_done' = "yes"
  /\ UNCHANGED <<terminal, c_item, typed, signalled, ending, got, stream_vars,
                 pump_vars, stdin, out, child_vars>>

\* SIGINT or SIGQUIT; send_frame does nothing once the half is closed.
ClientSignal ==
  /\ terminal = "select" /\ signalled < MaxSignals
  /\ signalled' = signalled + 1
  /\ IF stdin_done = "no" THEN terminal' = "sending" /\ c_item' = 0
                          ELSE UNCHANGED <<terminal, c_item>>
  /\ UNCHANGED <<typed, stdin_done, ending, got, stream_vars, pump_vars, stdin,
                 out, child_vars>>

\* send_data completes.
TerminalSends ==
  /\ terminal = "sending" /\ link = "up"
  /\ Len(up) < FrameCap
  /\ up' = Append(up, c_item)
  /\ terminal' = "select"
  /\ UNCHANGED <<c_item, typed, signalled, stdin_done, ending, got, down, down_fin,
                 link, pump_vars, stdin, out, child_vars>>

\* The server's pump is over and its frame reader dropped the recv half, or the
\* connection is lost: send_data fails and `?` ends run_channel.
TerminalSendFails ==
  /\ terminal = "sending"
  /\ pump \notin {"select", "stdin", "sig", "client"} \/ link = "lost"
  /\ terminal' = "exited"
  /\ ending' = "error"
  /\ UNCHANGED <<c_item, typed, signalled, stdin_done, got, stream_vars,
                 pump_vars, stdin, out, child_vars>>

\* The frames branch: output is written out, ExitStatus ends the channel.
ClientReceives ==
  /\ terminal = "select"
  /\ down # <<>>
  /\ LET f == Head(down)
     IN IF f = ExitFrame
        THEN terminal' = "exited" /\ ending' = "status" /\ UNCHANGED got
        ELSE got' = [got EXCEPT ![f.kind] = Append(@, f.chunk)]
             /\ UNCHANGED <<terminal, ending>>
  /\ down' = Tail(down)
  /\ UNCHANGED <<c_item, typed, signalled, stdin_done, up, down_fin, link, pump_vars,
                 stdin, out, child_vars>>

\* The same branch when the local stdout or stderr is closed: write_all or flush
\* fails, `?` ends run_channel and the program closes the connection.
ClientWriteFails ==
  /\ terminal = "select"
  /\ down # <<>> /\ Head(down) # ExitFrame
  /\ terminal' = "exited"
  /\ ending' = "broken"
  /\ up' \in Prefixes(up) /\ down' = <<>>
  /\ UNCHANGED <<c_item, typed, signalled, stdin_done, got, down_fin, link,
                 pump_vars, stdin, out, child_vars>>

\* The stream ended without an exit status: exit code -1.
ClientLosesStream ==
  /\ terminal = "select"
  /\ down = <<>>
  /\ down_fin = "yes" \/ link = "lost"
  /\ terminal' = "exited"
  /\ ending' = "lost"
  /\ UNCHANGED <<c_item, typed, signalled, stdin_done, got, stream_vars,
                 pump_vars, stdin, out, child_vars>>

\* The client process dies and the connection with it.
TerminalKilled ==
  /\ terminal \in {"select", "sending"}
  /\ terminal' = "killed"
  /\ up' \in Prefixes(up) /\ down' = <<>>
  /\ UNCHANGED <<c_item, typed, signalled, stdin_done, ending, got, down_fin, link,
                 pump_vars, stdin, out, child_vars>>

-----------------------------------------------------------------------------
(* pump_exec and pump_shell                                                *)

\* The frames branch with a frame.
PumpTakesFrame ==
  /\ pump = "select" /\ frames_done = "no"
  /\ up # <<>>
  /\ up' = Tail(up)
  /\ p_item' = [kind |-> "in", chunk |-> Head(up)]
  /\ pump' = IF Head(up) = 0 THEN "sig" ELSE "stdin"
  /\ UNCHANGED <<terminal_vars, down, down_fin, link, frames_done, sig_q, done, stdin,
                 out, child_vars>>

\* Mutant: the FIN is acted on before the frames ahead of it.
MutPumpFramesEnd ==
  /\ pump = "select" /\ frames_done = "no"
  /\ stdin_done = "yes" \/ Unreachable
  /\ frames_done' = "yes"
  /\ UNCHANGED <<terminal_vars, stream_vars, pump, p_item, sig_q, done, stdin, out,
                 child_vars>>

\* The frames branch with None, because the stream ended or because the frame
\* reader stopped at an error: in_tx is dropped, the process reads end of input,
\* and the pump goes on draining.
PumpFramesEnd ==
  /\ pump = "select" /\ frames_done = "no"
  /\ up = <<>>
  /\ stdin_done = "yes" \/ Unreachable
  /\ frames_done' = "yes"
  /\ UNCHANGED <<terminal_vars, stream_vars, pump, p_item, sig_q, done, stdin, out,
                 child_vars>>

\* tx.send(d) completes, or fails because the process is gone (ignored).
PumpWritesStdin ==
  /\ pump = "stdin"
  /\ \/ child = "running" /\ Len(stdin) < StdinCap
        /\ stdin' = Append(stdin, p_item.chunk)
     \/ child = "exited" /\ UNCHANGED stdin
  /\ pump' = "select" /\ p_item' = NoFrame
  /\ UNCHANGED <<terminal_vars, stream_vars, frames_done, sig_q, done, out, child_vars>>

\* sig_tx.send(s) completes.
PumpQueuesSignal ==
  /\ pump = "sig"
  /\ sig_q < SigCap
  /\ sig_q' = sig_q + 1
  /\ pump' = "select" /\ p_item' = NoFrame
  /\ UNCHANGED <<terminal_vars, stream_vars, frames_done, done, stdin, out, child_vars>>

\* run_exec's drain loop hands a signal to the monitor.
DrainSignal ==
  /\ sig_q > 0
  /\ sig_q' = sig_q - 1
  /\ UNCHANGED <<terminal_vars, stream_vars, pump, p_item, frames_done, done, stdin,
                 out, child_vars>>

\* An output branch with bytes: the pump now awaits send_msg.
PumpTakesOutput(o) ==
  /\ pump = "select" /\ o \notin done
  /\ out[o] # <<>>
  /\ out' = [out EXCEPT ![o] = Tail(@)]
  /\ p_item' = [kind |-> o, chunk |-> Head(out[o])]
  /\ pump' = "client"
  /\ UNCHANGED <<terminal_vars, stream_vars, frames_done, sig_q, done, stdin, child_vars>>

\* send_msg completes; a client that hung up or is out of reach ends the pump,
\* gracefully (H3_NO_ERROR) or with an error.
PumpSends ==
  /\ pump = "client"
  /\ \/ /\ ~Unreachable
        /\ Len(down) < DownCap
        /\ down' = Append(down, p_item)
        /\ pump' = "select"
     \/ /\ Unreachable
        /\ pump' \in {"gone", "failed"}
        /\ UNCHANGED down
  /\ p_item' = NoFrame
  /\ UNCHANGED <<terminal_vars, up, down_fin, link, frames_done, sig_q, done, stdin, out,
                 child_vars>>

\* Mutant: the first output that ends takes the other one with it.
MutPumpOutputEnds(o) ==
  /\ pump = "select" /\ o \notin done
  /\ out[o] = <<>> /\ child = "exited"
  /\ done' = Outputs
  /\ pump' = "drained"
  /\ UNCHANGED <<terminal_vars, stream_vars, p_item, frames_done, sig_q, stdin, out,
                 child_vars>>

\* Mutant: only one of the output branches checks whether all have ended.
MutOutputEndsLate(o) ==
  /\ pump = "select" /\ o \notin done
  /\ out[o] = <<>> /\ child = "exited"
  /\ done' = done \cup {o}
  /\ pump' = IF o = "out" /\ done \cup {o} = Outputs THEN "drained" ELSE "select"
  /\ UNCHANGED <<terminal_vars, stream_vars, p_item, frames_done, sig_q, stdin, out,
                 child_vars>>

\* An output branch at end of file: drained once every output has ended.
PumpOutputEnds(o) ==
  /\ pump = "select" /\ o \notin done
  /\ out[o] = <<>> /\ child = "exited"
  /\ done' = done \cup {o}
  /\ pump' = IF done \cup {o} = Outputs THEN "drained" ELSE "select"
  /\ UNCHANGED <<terminal_vars, stream_vars, p_item, frames_done, sig_q, stdin, out,
                 child_vars>>

\* Mutant: the ExitStatus is sent with try_send and lost when the queue is full.
MutFinish ==
  /\ sig_q = 0
  /\ pump \in {"drained", "gone", "failed"}
  /\ down' = IF pump = "drained" /\ ~Unreachable /\ Len(down) < DownCap
             THEN Append(down, ExitFrame) ELSE down
  /\ pump' = "finished"
  /\ down_fin' = "yes"
  /\ UNCHANGED <<terminal_vars, up, link, p_item, frames_done, sig_q, done, stdin, out,
                 child_vars>>

\* run_exec / run_shell after the pump and the signal drain: reap, ExitStatus
\* unless the client is gone, finish.  An error skips all of it.
Finish ==
  /\ sig_q = 0
  /\ \/ /\ pump = "drained" /\ ~Unreachable
        /\ Len(down) < DownCap
        /\ down' = Append(down, ExitFrame)
     \/ /\ pump = "drained" /\ Unreachable /\ UNCHANGED down
     \/ /\ pump \in {"gone", "failed"} /\ UNCHANGED down
  /\ pump' = "finished"
  /\ down_fin' = "yes"
  /\ UNCHANGED <<terminal_vars, up, link, p_item, frames_done, sig_q, done, stdin, out,
                 child_vars>>

\* The connection is lost.  Each side keeps what it had received: the pump takes
\* its last frames, then None; the client writes out its last frames, then ends.
ConnectionLost ==
  /\ ~Unreachable
  /\ link' = "lost"
  /\ up' \in Prefixes(up) /\ down' \in Prefixes(down)
  /\ UNCHANGED <<terminal_vars, down_fin, pump_vars, stdin, out, child_vars>>

-----------------------------------------------------------------------------
(* The process                                                             *)

\* It copies one chunk to one of its outputs.
ChildCopies(o) ==
  /\ child = "running"
  /\ stdin # <<>>
  /\ Len(out[o]) < OutCap
  /\ stdin' = Tail(stdin)
  /\ eaten' = Append(eaten, Head(stdin))
  /\ out' = [out EXCEPT ![o] = Append(@, Head(stdin))]
  /\ produced' = [produced EXCEPT ![o] = Append(@, Head(stdin))]
  /\ UNCHANGED <<terminal_vars, stream_vars, pump_vars, child>>

\* End of input, and the process exits.
ChildEof ==
  /\ child = "running"
  /\ stdin = <<>> /\ frames_done = "yes"
  /\ child' = "exited"
  /\ UNCHANGED <<terminal_vars, stream_vars, pump_vars, stdin, out, eaten, produced>>

\* It exits early, by itself or by a signal.
ChildDies ==
  /\ child = "running"
  /\ child' = "exited"
  /\ stdin' = <<>>
  /\ UNCHANGED <<terminal_vars, stream_vars, pump_vars, out, eaten, produced>>

-----------------------------------------------------------------------------
TerminalStep ==
  \/ ClientTakesStdin \/ ClientStdinEof \/ TerminalSends \/ TerminalSendFails
  \/ ClientReceives \/ ClientLosesStream

PumpStep ==
  \/ PumpTakesFrame \/ PumpFramesEnd \/ PumpWritesStdin \/ PumpQueuesSignal
  \/ PumpSends \/ Finish
  \/ \E o \in Outputs : PumpTakesOutput(o) \/ PumpOutputEnds(o)

ChildStep == ChildEof \/ \E o \in Outputs : ChildCopies(o)

ChannelNext ==
  \/ TerminalStep \/ ClientSignal \/ ClientWriteFails \/ TerminalKilled
  \/ PumpStep \/ DrainSignal \/ ConnectionLost
  \/ ChildStep \/ ChildDies

ChannelSpec == ChannelInit /\ [][ChannelNext]_channel_vars

\* Both pumps and the drain are tasks the runtime keeps scheduling, and the
\* process is a filter that keeps reading.  Nothing is assumed of interrupts, of
\* a failing local write, of the client's death, of a lost connection or of an
\* early exit.
ChannelFairSpec ==
  /\ ChannelSpec
  /\ WF_channel_vars(TerminalStep) /\ WF_channel_vars(PumpStep)
  /\ WF_channel_vars(DrainSignal) /\ WF_channel_vars(ChildStep)

-----------------------------------------------------------------------------
(* Properties                                                              *)

\* A client that has the exit status has all of the process's output, each
\* stream in order, however the two outputs and the exit raced
\* (session.rs:409-441, worker.rs:433-442).
OutputComplete ==
  ending = "status" => \A o \in Outputs : got[o] = produced[o]

\* As long as the client is there and the connection is up, the process sees end
\* of input only after all of the input, in order, although the FIN travels apart
\* from the frames (session.rs:427-436).  A lost connection or a client that dies
\* ends the input after a part of it: the pump has one None for all of them.
EofAfterInput ==
  frames_done = "yes" /\ ~Unreachable /\ child = "running" =>
    eaten \o stdin = [i \in 1..typed |-> i]

\* run_channel returns the remote exit code (terminal.rs:60-62) to every client
\* that has sent all of its input: only a lost connection and a local stdout or
\* stderr that cannot be written lose the ExitStatus, never the race between the
\* last output, the FIN and the end of the process.
ExitCodeReturned ==
  terminal = "exited" /\ stdin_done = "yes" =>
    ending \in {"status", "broken"} \/ link = "lost"

\* Once the process has exited and the client has no more input to send, both
\* ends of the channel come to their end, whatever is queued, whichever output
\* ends first and whether the connection lasts (session.rs:426-440,
\* worker.rs:433-442, terminal.rs:93-101).
EndsAfterExit ==
  child = "exited" /\ stdin_done = "yes" ~> ClientGone /\ pump = "finished"

\* What session.rs:4-6 says of every channel: both sides pump "until the process
\* exits (final `ExitStatus` frame) or a side hangs up", so with a process that
\* reads all of its input and then exits, every channel ends.
ChannelEnds == <>(ClientGone /\ pump = "finished")
=============================================================================
