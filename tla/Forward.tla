------------------------------- MODULE Forward -------------------------------
(***************************************************************************)
(* One forwarded TCP connection, end to end: the application on the        *)
(* client's host ("local"), the client's bridge (quish-client/src/main.rs, *)
(* forward_one and bridge), the stream, the server's serve_forward and     *)
(* pump_forward (quish-server/src/session.rs), and the program at the far  *)
(* end ("service").  A -R forward is the same pair of pumps around a       *)
(* parked socket (RemoteForward); there the service is who connected.      *)
(*                                                                         *)
(* The bridge is two tasks.  The pump is one: it selects between the two   *)
(* directions and then AWAITS the write of what it took.  Its frame reader *)
(* and its socket reader are tasks of their own, with bounded queues.      *)
(*                                                                         *)
(* A socket and the task that reads it are part of the queue behind them:  *)
(* `wire` holds what the application wrote, `out` what the service wrote.  *)
(*                                                                         *)
(* A peer's bytes are numbered from 1.  The stream carries frames as bytes *)
(* and is cut into chunks anywhere.  The service is one thread: while it   *)
(* waits for a write it reads nothing.  The local application always reads,*)
(* so that what is written to it is as good as read.                       *)
(***************************************************************************)
EXTENDS Framing, FiniteSets

CONSTANTS
  LocalBytes,    \* bound: bytes the local application writes
  ServiceBytes,  \* bound: bytes the service writes
  SockCap,       \* bytes the service's socket holds towards it
  WireCap,       \* bytes the stream holds in one direction
  QueueCap,      \* frames, or chunks, the pump's two queues hold
  ChunkSizes     \* bound: "up", "down" -> the sizes recv_data returns

ASSUME ForwardAssumption ==
  /\ MaxFrameLen > 0
  /\ {LocalBytes, ServiceBytes} \subseteq Nat
  /\ {SockCap, QueueCap} \subseteq Nat \ {0}
  /\ WireCap \in Nat /\ WireCap >= LenPrefix + MaxFrameLen

Peers == {"local", "service"}

VARIABLES
  peer,    \* peer -> "open", "half" (ended its output), "closed", "reset"
  wrote,   \* peer -> bytes written
  got,     \* peer -> bytes read
  tx,      \* bytes quish wrote that the service has not read
  shut,    \* peer -> "no", "yes": quish ended its output to the peer
  busy,    \* "no", "yes": the service waits for a write
  wire,    \* "up", "down" -> bytes on the stream
  fin,     \* "up", "down" -> "no", "fin", "reset"
  dropped, \* "up", "down" -> "no", "yes": the receiver dropped its half
  lost,    \* "no", "yes": the connection
  c_up,                   \* bridge's own loop: "reading", "finished"
  c_down, c_buf,          \* its spawned task: "reading", "ended"
  s_reader, s_buf,        \* spawn_frame_reader's task: "reading", "ended"
  frames,                 \* its queue
  s_up, out,              \* pump_forward's `up` task: "reading", "ended"; its queue
  pump, p_data,           \* "opening", "select", "write", "send", "finished"
  frames_done, out_done   \* "no", "yes"

peer_vars   == <<peer, wrote, got, busy>>
sock_vars   == <<tx, shut>>
stream_vars == <<wire, fin, dropped, lost>>
reader_vars == <<s_reader, s_buf, frames>>
sup_vars    == <<s_up, out>>
pump_vars   == <<pump, p_data, frames_done, out_done>>
client_vars == <<c_up, c_down, c_buf>>
server_vars == <<reader_vars, sup_vars, pump_vars>>
vars == <<peer_vars, sock_vars, stream_vars, client_vars, server_vars>>

Init ==
  /\ peer = [p \in Peers |-> "open"] /\ wrote = [p \in Peers |-> 0]
  /\ got = [p \in Peers |-> <<>>] /\ busy = "no"
  /\ tx = <<>> /\ shut = [p \in Peers |-> "no"]
  /\ wire = [up |-> <<>>, down |-> <<>>] /\ fin = [up |-> "no", down |-> "no"]
  /\ dropped = [up |-> "no", down |-> "no"] /\ lost = "no"
  /\ c_up = "reading"
  /\ c_down = "reading" /\ c_buf = <<>>
  /\ s_reader = "reading" /\ s_buf = <<>> /\ frames = <<>>
  /\ s_up = "reading" /\ out = <<>>
  /\ pump = "opening" /\ p_data = <<>> /\ frames_done = "no" /\ out_done = "no"

-----------------------------------------------------------------------------
(* The two programs and their sockets                                      *)

Reading(p) == peer[p] \in {"open", "half"}

Connected(p) == p = "service" => pump # "opening"

\* The service starts a write.
ServiceBegins ==
  /\ Connected("service") /\ peer["service"] = "open" /\ busy = "no"
  /\ wrote["service"] < ServiceBytes
  /\ busy' = "yes"
  /\ UNCHANGED <<peer, wrote, got, sock_vars, stream_vars, client_vars, server_vars>>

\* The write completes: pump_forward's `up` task reads it into its queue.
ServiceWrites ==
  /\ busy = "yes" /\ s_up = "reading"
  /\ Len(out) < QueueCap
  /\ out' = Append(out, <<wrote["service"] + 1>>)
  /\ wrote' = [wrote EXCEPT !["service"] = @ + 1]
  /\ busy' = "no"
  /\ UNCHANGED <<peer, got, sock_vars, stream_vars, client_vars, reader_vars, s_up,
                 pump_vars>>

ServiceReads ==
  /\ Reading("service") /\ tx # <<>> /\ busy = "no"
  /\ got' = [got EXCEPT !["service"] = @ \o tx]
  /\ tx' = <<>>
  /\ UNCHANGED <<peer, wrote, busy, shut, stream_vars, client_vars, server_vars>>

\* It ends its output and goes on reading.
PeerHalfCloses(p) ==
  /\ Connected(p) /\ peer[p] = "open"
  /\ p = "service" => busy = "no"
  /\ peer' = [peer EXCEPT ![p] = "half"]
  /\ UNCHANGED <<wrote, got, busy, sock_vars, stream_vars, client_vars, server_vars>>

\* It closes: what it wrote still arrives, or, reset, the end of it may not.
PeerCloses(p) ==
  /\ Connected(p) /\ Reading(p)
  /\ \/ peer' = [peer EXCEPT ![p] = "closed"] /\ UNCHANGED out
     \/ /\ peer' = [peer EXCEPT ![p] = "reset"]
        /\ out' \in IF p = "service" THEN {SubSeq(out, 1, n) : n \in 0..Len(out)} ELSE {out}
  /\ IF p = "service" THEN tx' = <<>> /\ busy' = "no" ELSE UNCHANGED <<tx, busy>>
  /\ UNCHANGED <<wrote, got, shut, stream_vars, client_vars, reader_vars, s_up, pump_vars>>

-----------------------------------------------------------------------------
(* The stream                                                              *)

\* send_data of one frame completes.
Push(d, body) ==
  /\ lost = "no" /\ dropped[d] = "no"
  /\ Len(wire[d]) + Len(encode(body)) <= WireCap
  /\ wire' = [wire EXCEPT ![d] = @ \o encode(body)]

SendFails(d) == lost = "yes" \/ dropped[d] = "yes"

\* finish: the half ends, unless it already ended otherwise.
Finished(d) == [fin EXCEPT ![d] = IF @ = "no" THEN "fin" ELSE @]

\* recv_data: any chunk of what is there, only when no frame is buffered.
Pull(d, buf) ==
  /\ ~HasFrame(buf) /\ ~TooLarge(buf)
  /\ wire[d] # <<>>
  /\ \E n \in 1..Len(wire[d]) \cap ChunkSizes[d] :
       /\ wire' = [wire EXCEPT ![d] = SubSeq(@, n + 1, Len(@))]
       /\ IF d = "up" THEN s_buf' = s_buf \o SubSeq(wire[d], 1, n) /\ UNCHANGED c_buf
                      ELSE c_buf' = c_buf \o SubSeq(wire[d], 1, n) /\ UNCHANGED s_buf

\* next_frame returns None or Err.  Bytes of an unfinished frame are dropped.
NoMore(d, buf) == TooLarge(buf) \/ (~HasFrame(buf) /\ wire[d] = <<>> /\ fin[d] # "no")

ConnectionLost ==
  /\ lost = "no"
  /\ lost' = "yes"
  /\ wire' = [up |-> <<>>, down |-> <<>>]
  /\ fin' = [up |-> "reset", down |-> "reset"]
  /\ UNCHANGED <<peer_vars, sock_vars, dropped, client_vars, server_vars>>

-----------------------------------------------------------------------------
(* bridge                                                                  *)

\* The application writes; a chunk of it is read and becomes a Data frame.
ClientForwards ==
  /\ c_up = "reading" /\ peer["local"] = "open"
  /\ \E n \in 1..MaxFrameLen :
       /\ wrote["local"] + n <= LocalBytes
       /\ Push("up", [i \in 1..n |-> wrote["local"] + i])
       /\ wrote' = [wrote EXCEPT !["local"] = @ + n]
  /\ UNCHANGED <<peer, got, busy, sock_vars, fin, dropped, lost, client_vars, server_vars>>

\* Mutant: the loop ends without finish.
MutClientUpEnds ==
  /\ c_up = "reading" /\ peer["local"] # "open"
  /\ c_up' = "finished"
  /\ UNCHANGED <<peer_vars, sock_vars, stream_vars, c_down, c_buf, server_vars>>

\* A read that returns 0 or an error, or a chunk whose send fails: finish.
ClientUpEnds ==
  /\ c_up = "reading"
  /\ \/ peer["local"] # "open" /\ UNCHANGED wrote
     \/ /\ SendFails("up")
        /\ peer["local"] = "open" /\ wrote["local"] < LocalBytes
        /\ wrote' = [wrote EXCEPT !["local"] = @ + 1]
  /\ c_up' = "finished"
  /\ fin' = Finished("up")
  /\ UNCHANGED <<peer, got, busy, sock_vars, wire, dropped, lost, c_down, c_buf,
                 server_vars>>

ClientReceives ==
  /\ c_down = "reading"
  /\ Pull("down", c_buf)
  /\ UNCHANGED <<peer_vars, sock_vars, fin, dropped, lost, c_up, c_down, s_reader,
                 frames, sup_vars, pump_vars>>

\* A frame is taken and written to the socket.
ClientWrites ==
  /\ c_down = "reading" /\ HasFrame(c_buf) /\ Reading("local")
  /\ got' = [got EXCEPT !["local"] = @ \o frame_body(c_buf)]
  /\ c_buf' = frame_rest(c_buf)
  /\ UNCHANGED <<peer, wrote, busy, sock_vars, stream_vars, c_up, c_down, server_vars>>

\* The stream ended, or write_all failed: shutdown, and the half is dropped.
ClientDownEnds ==
  /\ c_down = "reading"
  /\ NoMore("down", c_buf) \/ (HasFrame(c_buf) /\ ~Reading("local"))
  /\ c_down' = "ended" /\ c_buf' = <<>>
  /\ shut' = [shut EXCEPT !["local"] = "yes"]
  /\ dropped' = [dropped EXCEPT !["down"] = "yes"]
  /\ UNCHANGED <<peer_vars, tx, wire, fin, lost, c_up, server_vars>>

-----------------------------------------------------------------------------
(* serve_forward                                                           *)

\* Forwarding is off, the name does not resolve to loopback addresses alone,
\* or nobody listens: the send half is finished and the reader dropped.
Refused ==
  /\ pump = "opening"
  /\ pump' = "finished"
  /\ s_reader' = "ended" /\ s_up' = "ended"
  /\ fin' = Finished("down")
  /\ dropped' = [dropped EXCEPT !["up"] = "yes"]
  /\ peer' = [peer EXCEPT !["service"] = "closed"]
  /\ shut' = [shut EXCEPT !["service"] = "yes"]
  /\ UNCHANGED <<wrote, got, busy, tx, wire, lost, client_vars, s_buf, frames,
                 out, p_data, frames_done, out_done>>

Connects ==
  /\ pump = "opening"
  /\ pump' = "select"
  /\ UNCHANGED <<peer_vars, sock_vars, stream_vars, client_vars, reader_vars, sup_vars,
                 p_data, frames_done, out_done>>

-----------------------------------------------------------------------------
(* spawn_frame_reader                                                      *)

Started == pump # "opening"

ServerReceives ==
  /\ Started /\ s_reader = "reading"
  /\ Pull("up", s_buf)
  /\ UNCHANGED <<peer_vars, sock_vars, fin, dropped, lost, c_up, c_down, s_reader,
                 frames, sup_vars, pump_vars>>

ServerTakesFrame ==
  /\ Started /\ s_reader = "reading" /\ HasFrame(s_buf)
  /\ pump # "finished" /\ Len(frames) < QueueCap
  /\ frames' = Append(frames, frame_body(s_buf))
  /\ s_buf' = frame_rest(s_buf)
  /\ UNCHANGED <<peer_vars, sock_vars, stream_vars, client_vars, s_reader, sup_vars,
                 pump_vars>>

\* The stream ended, or nobody takes frames any more: the half is dropped.
ServerReaderEnds ==
  /\ Started /\ s_reader = "reading"
  /\ NoMore("up", s_buf) \/ (HasFrame(s_buf) /\ pump = "finished")
  /\ s_reader' = "ended" /\ s_buf' = <<>>
  /\ dropped' = [dropped EXCEPT !["up"] = "yes"]
  /\ UNCHANGED <<peer_vars, sock_vars, wire, fin, lost, client_vars, frames, sup_vars,
                 pump_vars>>

-----------------------------------------------------------------------------
(* pump_forward's `up` task                                                *)

\* A read that returns 0 or an error, or a chunk for a queue that nobody reads.
UpEnds ==
  /\ Started /\ s_up = "reading"
  /\ peer["service"] # "open" \/ (busy = "yes" /\ pump = "finished")
  /\ s_up' = "ended"
  /\ UNCHANGED <<peer_vars, sock_vars, stream_vars, client_vars, reader_vars, out,
                 pump_vars>>

-----------------------------------------------------------------------------
(* pump_forward                                                            *)

PumpTakesFrame ==
  /\ pump = "select" /\ frames_done = "no" /\ frames # <<>>
  /\ p_data' = Head(frames)
  /\ frames' = Tail(frames)
  /\ pump' = "write"
  /\ UNCHANGED <<peer_vars, sock_vars, stream_vars, client_vars, s_reader, s_buf,
                 sup_vars, frames_done, out_done>>

\* No more frames: the service's input is ended.
PumpFramesEnd ==
  /\ pump = "select" /\ frames_done = "no" /\ frames = <<>> /\ s_reader = "ended"
  /\ frames_done' = "yes"
  /\ shut' = [shut EXCEPT !["service"] = "yes"]
  /\ UNCHANGED <<peer_vars, tx, stream_vars, client_vars, reader_vars, sup_vars,
                 pump, p_data, out_done>>

\* write_all, as the socket takes the bytes; a failed one ends the direction.
PumpWrites ==
  /\ pump = "write"
  /\ \/ /\ Reading("service") /\ Len(tx) < SockCap
        /\ tx' = Append(tx, Head(p_data))
        /\ p_data' = Tail(p_data)
        /\ pump' = IF Tail(p_data) = <<>> THEN "select" ELSE "write"
        /\ UNCHANGED frames_done
     \/ /\ ~Reading("service")
        /\ p_data' = <<>> /\ pump' = "select" /\ frames_done' = "yes"
        /\ UNCHANGED tx
  /\ UNCHANGED <<peer_vars, shut, stream_vars, client_vars, reader_vars, sup_vars,
                 out_done>>

PumpTakesOutput ==
  /\ pump = "select" /\ out_done = "no" /\ out # <<>>
  /\ p_data' = Head(out)
  /\ out' = Tail(out)
  /\ pump' = "send"
  /\ UNCHANGED <<peer_vars, sock_vars, stream_vars, client_vars, reader_vars, s_up,
                 frames_done, out_done>>

PumpOutputEnds ==
  /\ pump = "select" /\ out_done = "no" /\ out = <<>> /\ s_up = "ended"
  /\ out_done' = "yes"
  /\ UNCHANGED <<peer_vars, sock_vars, stream_vars, client_vars, reader_vars, sup_vars,
                 pump, p_data, frames_done>>

\* The function returns: its halves of the socket are dropped.
PumpReturns ==
  /\ pump' = "finished" /\ p_data' = <<>>
  /\ fin' = Finished("down")
  /\ shut' = [shut EXCEPT !["service"] = "yes"]
  /\ UNCHANGED <<peer_vars, tx, wire, dropped, lost, client_vars, reader_vars,
                 out, frames_done, out_done>>

\* send_msg: sent; or the client is gone, which ends the pump, with the `up`
\* task aborted (H3_NO_ERROR) or left to itself (any other error, `?`).
PumpSends ==
  /\ pump = "send"
  /\ \/ /\ Push("down", p_data)
        /\ pump' = "select" /\ p_data' = <<>>
        /\ UNCHANGED <<peer_vars, sock_vars, fin, dropped, lost, client_vars,
                       reader_vars, sup_vars, frames_done, out_done>>
     \/ /\ SendFails("down")
        /\ PumpReturns
        /\ s_up' \in {s_up, "ended"}

\* Mutant: one direction's end is enough, as the comment has it.
MutPumpFinishes ==
  /\ pump = "select" /\ (frames_done = "yes" \/ out_done = "yes")
  /\ PumpReturns
  /\ s_up' = "ended"

\* Both directions are over: abort the `up` task and finish.
PumpFinishes ==
  /\ pump = "select" /\ frames_done = "yes" /\ out_done = "yes"
  /\ PumpReturns
  /\ s_up' = "ended"

-----------------------------------------------------------------------------
ServiceStep == ServiceReads \/ ServiceWrites
BridgeDown  == ClientReceives \/ ClientWrites \/ ClientDownEnds
ReaderStep  == ServerReceives \/ ServerTakesFrame \/ ServerReaderEnds
PumpStep    ==
  \/ Refused \/ Connects
  \/ PumpTakesFrame \/ PumpFramesEnd \/ PumpWrites
  \/ PumpTakesOutput \/ PumpOutputEnds \/ PumpSends \/ PumpFinishes

Next ==
  \/ ServiceBegins \/ ServiceStep
  \/ \E p \in Peers : PeerHalfCloses(p) \/ PeerCloses(p)
  \/ ConnectionLost
  \/ ClientForwards \/ ClientUpEnds \/ BridgeDown \/ ReaderStep \/ UpEnds \/ PumpStep

Spec == Init /\ [][Next]_vars

\* Every task is scheduled; the service reads while it is not waiting for a
\* write, and a write completes when its socket has room.  Nothing makes a peer write,
\* half-close or close, and nothing loses the connection.
Fairness ==
  /\ WF_vars(ServiceStep)
  /\ WF_vars(ClientUpEnds) /\ WF_vars(BridgeDown)
  /\ WF_vars(ReaderStep) /\ WF_vars(UpEnds) /\ WF_vars(PumpStep)

FairSpec == Spec /\ Fairness

-----------------------------------------------------------------------------
(* Properties                                                              *)

\* What has reached a peer's socket.
Delivered(p) == IF p = "service" THEN got[p] \o tx ELSE got[p]

\* Each peer receives what the other one wrote, in order and without a gap or
\* a repetition, wherever the stream was cut (lib.rs:207-226, main.rs:1022-1054).
InOrder ==
  \A p \in Peers : \A i \in 1..Len(Delivered(p)) : Delivered(p)[i] = i

\* A peer whose input quish ended has everything that the other one wrote before
\* it ended its own output.  Exceptions: the connection was lost or the writer
\* reset its socket, which the bridge turns into a clean end all the same
\* (main.rs:1028, 1042), and a local application that no longer reads, which
\* makes the pump give up both directions (session.rs:530).
EofAfterAll ==
  lost = "no" /\ Reading("local") =>
    /\ shut["local"] = "yes" /\ peer["service"] # "reset" =>
         Len(Delivered("local")) = wrote["service"] /\ peer["service"] # "open"
    /\ shut["service"] = "yes" /\ Reading("service") =>
         Len(Delivered("service")) = wrote["local"] /\ peer["local"] = "half"

\* When both programs have ended their output, every task of both processes ends
\* and both sockets are released, however the ends, the last bytes, a refusal and
\* a lost connection raced (session.rs:537-544, main.rs:1038-1054).
ForwardEnds ==
  peer["local"] # "open" /\ peer["service"] # "open" ~>
    c_up = "finished" /\ c_down = "ended" /\ pump = "finished" /\ s_up = "ended"

\* What main.rs:1020-1021 says of the bridge, "Either EOF closes the other
\* direction", and session.rs:489 of the pump, "Ends when either side EOFs": when
\* one program has ended its output, quish ends the other one's input.
EitherEofCloses ==
  /\ peer["local"] # "open" ~> shut["service"] = "yes"
  /\ peer["service"] # "open" ~> shut["local"] = "yes"
=============================================================================
