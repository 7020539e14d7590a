------------------------------ MODULE Transport ------------------------------
(***************************************************************************)
(* The accept path shared by dev mode and the privsep worker               *)
(* (quish-server/src/transport.rs): run admits a connection through the    *)
(* per-IP limiter and spawns a task for it; handle_connection spawns one   *)
(* task per request stream; handle_request gates, waits out the backoff,   *)
(* authenticates under AUTH_DEADLINE and serves the channel.  When the     *)
(* accept loop of a connection ends, run calls Backend::close and then     *)
(* drops the connection's limiter guard.                                   *)
(*                                                                         *)
(* Request tasks are detached (tokio::spawn): the end of the connection    *)
(* does NOT cancel them.  What the backend answers is open here; the       *)
(* compositions (PrivsepServer) fix it.                                    *)
(***************************************************************************)
EXTENDS RateLimiter

CONSTANTS
  Connections,         \* connection ids (NEXT_CONN: each is used once)
  Tasks,         \* request streams (each is used once)
  IpOf,          \* the peer address of each connection
  MaxAuthFails,  \* max_auth_fails
  MaxChannels,   \* MAX_CHANNELS_PER_CONN: QUIC's cap on open bidi streams
  NoConn

ASSUME TransportAssumption ==
  /\ NoConn \notin Connections
  /\ IpOf \in [Connections -> Ips]
  /\ MaxAuthFails \in Nat
  /\ MaxChannels \in Nat \ {0}
  /\ IsFiniteSet(Tasks)

VARIABLES
  conn,         \* "new", "open", "closing", "closed"
  conn_fails,   \* handle_connection's counter, per connection
  pc,           \* "idle","accepted","backoff","auth","serving","done"
  on            \* task -> its connection

connection_vars == <<limiter_vars, conn, conn_fails, pc, on>>

PCs == {"idle", "accepted", "backoff", "auth", "serving", "done"}

TransportTypeOK ==
  /\ LimiterTypeOK
  /\ conn \in [Connections -> {"new", "open", "closing", "closed"}]
  /\ conn_fails \in [Connections -> Nat]
  /\ pc \in [Tasks -> PCs]
  /\ on \in [Tasks -> Connections \cup {NoConn}]
  /\ \A t \in Tasks : pc[t] # "idle" => on[t] \in Connections

TransportInit ==
  /\ LimiterInit
  /\ conn = [c \in Connections |-> "new"]
  /\ conn_fails = [c \in Connections |-> 0]
  /\ pc = [t \in Tasks |-> "idle"]
  /\ on = [t \in Tasks |-> NoConn]

-----------------------------------------------------------------------------
(* Connections                                                             *)

\* run: admitted, the connection's task starts; refused, nothing is kept.
Accept(c) ==
  /\ conn[c] = "new"
  /\ \/ /\ Admit(IpOf[c])
        /\ conn' = [conn EXCEPT ![c] = "open"]
     \/ /\ Refuse(IpOf[c])
        /\ conn' = [conn EXCEPT ![c] = "closed"]
  /\ UNCHANGED <<conn_fails, pc, on>>

\* handle_connection returns: handshake failed, no request within
\* FIRST_REQUEST_DEADLINE, peer closed, idle timeout, h3 error.
ConnEnds(c) ==
  /\ conn[c] = "open"
  /\ conn' = [conn EXCEPT ![c] = "closing"]
  /\ UNCHANGED <<limiter_vars, conn_fails, pc, on>>

\* Mutant: the guard leaked with the connection's task.
MutClosed(c) ==
  /\ conn[c] = "closing"
  /\ conn' = [conn EXCEPT ![c] = "closed"]
  /\ UNCHANGED <<limiter_vars, conn_fails, pc, on>>

\* run: Backend::close has returned; the guard is dropped with the task.
Closed(c) ==
  /\ conn[c] = "closing"
  /\ conn' = [conn EXCEPT ![c] = "closed"]
  /\ DropGuard(IpOf[c])
  /\ UNCHANGED <<conn_fails, pc, on>>

-----------------------------------------------------------------------------
(* Requests                                                                *)

\* The streams of a connection that QUIC still counts as open.
Streams(c) == {t \in Tasks : on[t] = c /\ pc[t] # "done"}

\* The attempts on a connection that are past the gate and not yet counted.
Attempts(c) == {t \in Tasks : on[t] = c /\ pc[t] \in {"backoff", "auth"}}

\* handle_connection accepts a stream and spawns handle_request for it.
AcceptRequest(t, c) ==
  /\ conn[c] = "open"
  /\ pc[t] = "idle"
  /\ Cardinality(Streams(c)) < MaxChannels
  /\ pc' = [pc EXCEPT ![t] = "accepted"]
  /\ on' = [on EXCEPT ![t] = c]
  /\ UNCHANGED <<limiter_vars, conn, conn_fails>>

\* Mutant: the counter is compared with <=.
MutGate(t) ==
  /\ pc[t] = "accepted"
  /\ \/ /\ conn_fails[on[t]] <= MaxAuthFails
        /\ pc' = [pc EXCEPT ![t] = "backoff"]
     \/ pc' = [pc EXCEPT ![t] = "done"]
  /\ UNCHANGED <<limiter_vars, conn, conn_fails, on>>

\* handle_request up to the backoff: 404, 426 or a cheap 401 over the cap.
Gate(t) ==
  /\ pc[t] = "accepted"
  /\ \/ /\ conn_fails[on[t]] < MaxAuthFails
        /\ pc' = [pc EXCEPT ![t] = "backoff"]
     \/ pc' = [pc EXCEPT ![t] = "done"]
  /\ UNCHANGED <<limiter_vars, conn, conn_fails, on>>

\* The backoff sleep is over; Backend::authenticate starts.
StartAuth(t) ==
  /\ pc[t] = "backoff"
  /\ pc' = [pc EXCEPT ![t] = "auth"]
  /\ UNCHANGED <<limiter_vars, conn, conn_fails, on>>

\* AuthOutcome::Deny, from the backend or because AUTH_DEADLINE passed.
Denied(t) ==
  /\ pc[t] = "auth"
  /\ RecordFailure(IpOf[on[t]])
  /\ conn_fails' = [conn_fails EXCEPT ![on[t]] = @ + 1]
  /\ pc' = [pc EXCEPT ![t] = "done"]
  /\ UNCHANGED <<conn, on>>

\* AuthOutcome::Challenge: neither counter moves.
Challenged(t) ==
  /\ pc[t] = "auth"
  /\ pc' = [pc EXCEPT ![t] = "done"]
  /\ UNCHANGED <<limiter_vars, conn, conn_fails, on>>

\* AuthOutcome::Allow: the IP's failures are forgotten, Backend::serve runs.
Allowed(t) ==
  /\ pc[t] = "auth"
  /\ RecordSuccess(IpOf[on[t]])
  /\ pc' = [pc EXCEPT ![t] = "serving"]
  /\ UNCHANGED <<conn, conn_fails, on>>

\* Backend::serve returned (or the 200 could not be sent).
Served(t) ==
  /\ pc[t] = "serving"
  /\ pc' = [pc EXCEPT ![t] = "done"]
  /\ UNCHANGED <<limiter_vars, conn, conn_fails, on>>

\* ENTRY_TTL passes for an IP's entry.
Ages(ip) == EntryAges(ip) /\ UNCHANGED <<conn, conn_fails, pc, on>>

TransportNext ==
  \/ \E c \in Connections : Accept(c) \/ ConnEnds(c) \/ Closed(c)
  \/ \E t \in Tasks :
       \/ \E c \in Connections : AcceptRequest(t, c)
       \/ Gate(t) \/ StartAuth(t)
       \/ Denied(t) \/ Challenged(t) \/ Allowed(t)
       \/ Served(t)
  \/ \E ip \in Ips : Ages(ip)

TransportSpec == TransportInit /\ [][TransportNext]_connection_vars

-----------------------------------------------------------------------------
(* Properties                                                              *)

\* The limiter's count of an IP is the number of its connections whose task
\* is alive, closing ones included, although guards are dropped after Close,
\* failures of detached requests arrive after that, and idle entries are swept
\* (transport.rs:226-245, ratelimit.rs:59-120).
SlotPerConnection ==
  \A ip \in Ips :
    EntryConns(known, ip) =
      Cardinality({c \in Connections : IpOf[c] = ip /\ conn[c] \in {"open", "closing"}})

\* "Failed auth attempts tolerated on a single connection before further attempts
\* get cheap 401s (no monitor round-trip)" (dist/server.toml:22-23,
\* quish-server/src/main.rs:79-80): no connection fails more often than that.
\* It does: max_auth_fails is checked before the backoff and counted after the
\* verdict, so attempts under way together pass the gate together
\* (transport.rs:373, 400).
FailsTolerated == \A c \in Connections : conn_fails[c] <= MaxAuthFails

\* The failures beyond max_auth_fails (FailsTolerated) are bounded by the streams
\* QUIC lets a connection have open: whoever is past the gate was one of them
\* when the last failure below the cap was counted (transport.rs:84, 373, 400).
FailsBounded ==
  \A c \in Connections :
    conn_fails[c] + Cardinality(Attempts(c)) <= MaxAuthFails + MaxChannels - 1
=============================================================================
