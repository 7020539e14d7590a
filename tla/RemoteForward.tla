---------------------------- MODULE RemoteForward ----------------------------
(***************************************************************************)
(* Remote (-R) forwarding.  In the server (quish-server/src/session.rs) a  *)
(* control channel listens and parks every inbound socket in one           *)
(* process-wide table; a data channel that names its conn_ref claims it; a *)
(* timer evicts what nobody claims.  The table is not told when a          *)
(* connection ends: its timer is what empties it.  In the client           *)
(* (quish-client/src/main.rs) each control channel has a task, and each    *)
(* Accepted signal starts another, which dials the local side and then     *)
(* opens the data channel.  What the two pumps do with a claimed socket is *)
(* Forward.                                                                *)
(*                                                                         *)
(* A socket is named by its conn_ref.  A rogue client may name any         *)
(* conn_ref, announced to it or not.                                       *)
(***************************************************************************)
EXTENDS Naturals, Sequences, FiniteSets

CONSTANTS
  Conns,      \* connections, one per client process
  Rogues,     \* those of them that do not run our client
  ConnOf,     \* the -R forwards, in order: sequence of their connections
  MaxParked,  \* MAX_PARKED
  MaxRefs     \* bound: inbound sockets accepted

ASSUME RemoteForwardAssumption ==
  /\ MaxParked \in Nat /\ MaxRefs \in Nat
  /\ Rogues \subseteq Conns /\ ConnOf \in Seq(Conns)
  /\ Conns \cap {"none", "table", "closed"} = {}

VARIABLES
  parked,     \* PARKED: the conn_refs in the table
  next_ref,   \* NEXT_CONN_REF - 1
  owner,      \* conn_ref -> the connection whose listener accepted it
  held,       \* conn_ref -> who holds the socket: "none", "table", a
              \* connection's pump, or "closed"
  timers,     \* the conn_refs whose PARK_TIMEOUT task is still asleep
  listener,   \* forward -> "none", "listening", "signalling", "closed"
  announcing, \* forward -> the conn_ref its listener is sending, 0 = none
  signals,    \* forward -> Accepted frames on their way
  control,    \* forward -> the client's task: "open", "ok", "err"
  dial,       \* conn_ref -> the client's data task: "none", "dialing",
              \* "opening", "over"
  command     \* connection -> run_forwarding: "serving", "returned"

table_vars  == <<parked, next_ref, owner, held, timers>>
listen_vars == <<listener, announcing>>
remote_client_vars == <<control, dial, command>>
remote_vars == <<table_vars, listen_vars, signals, remote_client_vars>>

Refs     == 1..MaxRefs
Forwards == DOMAIN ConnOf
NoConn   == 0

RemoteTypeOK ==
  /\ parked \in SUBSET Refs /\ Cardinality(parked) <= MaxParked
  /\ next_ref \in 0..MaxRefs
  /\ owner \in [Refs -> Conns \cup {NoConn}]
  /\ held \in [Refs -> {"none", "table", "closed"} \cup Conns]
  /\ timers \in SUBSET Refs
  /\ listener \in [Forwards -> {"none", "listening", "signalling", "closed"}]
  /\ announcing \in [Forwards -> 0..MaxRefs]
  /\ signals \in [Forwards -> Seq(Refs)]
  /\ control \in [Forwards -> {"open", "ok", "err"}]
  /\ dial \in [Refs -> {"none", "dialing", "opening", "over"}]
  /\ command \in [Conns -> {"serving", "returned"}]

RemoteInit ==
  /\ parked = {} /\ next_ref = 0 /\ timers = {}
  /\ owner = [r \in Refs |-> NoConn]
  /\ held = [r \in Refs |-> "none"]
  /\ listener = [k \in Forwards |-> "none"]
  /\ announcing = [k \in Forwards |-> 0]
  /\ signals = [k \in Forwards |-> <<>>]
  /\ control = [k \in Forwards |-> "open"]
  /\ dial = [r \in Refs |-> "none"]
  /\ command = [c \in Conns |-> "serving"]

Serving(c) == command[c] = "serving"

-----------------------------------------------------------------------------
(* The control channel: serve_remote_forward_listen                        *)

\* CONNECT, the gate, resolution, bind policy and bind succeed, or the channel
\* is closed.
Listen(k) ==
  /\ listener[k] = "none"
  /\ \E l \in {"listening", "closed"} : listener' = [listener EXCEPT ![k] = l]
  /\ UNCHANGED <<table_vars, announcing, signals, remote_client_vars>>

\* park_conn's table test.
HasRoom == Cardinality(parked) < MaxParked

\* An inbound socket: the ref is drawn first; parked with its timer if there
\* is room, else dropped and the listener goes on.
AcceptInbound(k) ==
  /\ listener[k] = "listening"
  /\ next_ref < MaxRefs
  /\ LET r == next_ref + 1
     IN /\ next_ref' = r
        /\ owner' = [owner EXCEPT ![r] = ConnOf[k]]
        /\ \/ /\ HasRoom
              /\ parked' = parked \cup {r}
              /\ held' = [held EXCEPT ![r] = "table"]
              /\ timers' = timers \cup {r}
              /\ listener' = [listener EXCEPT ![k] = "signalling"]
              /\ announcing' = [announcing EXCEPT ![k] = r]
           \/ /\ ~HasRoom
              /\ held' = [held EXCEPT ![r] = "closed"]
              /\ UNCHANGED <<parked, timers, listen_vars>>
  /\ UNCHANGED <<signals, remote_client_vars>>

\* Mutant: a conn_ref is enough to claim a socket.
MutClaimable(c, r) == r \in parked

\* take_conn's test: known, and accepted for this very connection.
Claimable(c, r) == r \in parked /\ owner[r] = c

\* Send of Accepted completes, and the listener goes on.
SignalSent(k) ==
  /\ listener[k] = "signalling" /\ Serving(ConnOf[k])
  /\ listener' = [listener EXCEPT ![k] = "listening"]
  /\ announcing' = [announcing EXCEPT ![k] = 0]
  /\ signals' = [signals EXCEPT ![k] = Append(@, announcing[k])]
  /\ UNCHANGED <<table_vars, remote_client_vars>>

\* The client hung up: gracefully, the socket is taken back (if it is still
\* there) and closed; with an error, `?` leaves it to its timer.
SignalFails(k) ==
  /\ listener[k] = "signalling" /\ ~Serving(ConnOf[k])
  /\ LET r == announcing[k]
     IN \/ /\ Claimable(ConnOf[k], r)
           /\ parked' = parked \ {r}
           /\ held' = [held EXCEPT ![r] = "closed"]
        \/ UNCHANGED <<parked, held>>
  /\ listener' = [listener EXCEPT ![k] = "closed"]
  /\ announcing' = [announcing EXCEPT ![k] = 0]
  /\ UNCHANGED <<next_ref, owner, timers, signals, remote_client_vars>>

\* The client is gone, or accept fails.
ListenEnds(k) ==
  /\ listener[k] = "listening"
  /\ listener' = [listener EXCEPT ![k] = "closed"]
  /\ UNCHANGED <<table_vars, announcing, signals, remote_client_vars>>

-----------------------------------------------------------------------------
(* The client                                                              *)

\* A signal is read, and a task started for it.
ClientHears(k) ==
  /\ control[k] = "open" /\ Serving(ConnOf[k]) /\ signals[k] # <<>>
  /\ dial' = [dial EXCEPT ![Head(signals[k])] = "dialing"]
  /\ signals' = [signals EXCEPT ![k] = Tail(@)]
  /\ UNCHANGED <<table_vars, listen_vars, control, command>>

\* The channel was finished, refused or broken.
ControlEnds(k) ==
  /\ control[k] = "open" /\ Serving(ConnOf[k])
  /\ listener[k] = "closed" /\ signals[k] = <<>>
  /\ \E e \in {"ok", "err"} : control' = [control EXCEPT ![k] = e]
  /\ UNCHANGED <<table_vars, listen_vars, signals, dial, command>>

\* The local side is dialled, then the data channel requested; either may fail,
\* and the task drops the inbound socket by leaving it parked.
ClientDials(r) ==
  /\ dial[r] \in {"dialing", "opening"} /\ Serving(owner[r])
  /\ \/ dial[r] = "dialing" /\ dial' = [dial EXCEPT ![r] = "opening"]
     \/ dial' = [dial EXCEPT ![r] = "over"]
  /\ UNCHANGED <<table_vars, listen_vars, signals, control, command>>

\* run_forwarding returns, or the process is killed, at any point: its connection
\* closes, and what was on its way to it is gone.  In which order the tasks are
\* joined makes no difference to the sockets.
CommandEnds(c) ==
  /\ Serving(c)
  /\ command' = [command EXCEPT ![c] = "returned"]
  /\ signals' = [k \in Forwards |-> IF ConnOf[k] = c THEN <<>> ELSE signals[k]]
  /\ dial' = [r \in Refs |-> IF owner[r] = c THEN "over" ELSE dial[r]]
  /\ UNCHANGED <<table_vars, listen_vars, control>>

-----------------------------------------------------------------------------
(* The data channel and the timer                                          *)

\* serve_remote_forward_data: the socket goes to this channel's pump, or the
\* channel is closed.
OpenData(c, r) ==
  /\ Serving(c)
  /\ \/ /\ owner[r] = c /\ dial[r] = "opening"
        /\ dial' = [dial EXCEPT ![r] = "over"]
     \/ c \in Rogues /\ r \in parked /\ UNCHANGED dial
  /\ IF Claimable(c, r)
     THEN parked' = parked \ {r} /\ held' = [held EXCEPT ![r] = c]
     ELSE UNCHANGED <<parked, held>>
  /\ UNCHANGED <<next_ref, owner, timers, listen_vars, signals, control, command>>

\* pump_forward ends and drops the socket.
PumpEnds(c, r) ==
  /\ held[r] = c
  /\ held' = [held EXCEPT ![r] = "closed"]
  /\ UNCHANGED <<parked, next_ref, owner, timers, listen_vars, signals, remote_client_vars>>

\* Mutant: the timer leaves the entry to the listener, if that is gone too.
MutEvicted(r) ==
  {p \in parked : p = r /\ \E k \in Forwards : ConnOf[k] = owner[r] /\ listener[k] # "closed"}

\* What a timer that fires finds: the entry of its own conn_ref, or nothing.
Evicted(r) == parked \cap {r}

\* PARK_TIMEOUT is over.
TimerFires(r) ==
  /\ r \in timers
  /\ timers' = timers \ {r}
  /\ parked' = parked \ Evicted(r)
  /\ held' = [p \in Refs |-> IF p \in Evicted(r) THEN "closed" ELSE held[p]]
  /\ UNCHANGED <<next_ref, owner, listen_vars, signals, remote_client_vars>>

RemoteNext ==
  \/ \E k \in Forwards : \/ Listen(k) \/ AcceptInbound(k) \/ SignalSent(k)
                         \/ SignalFails(k) \/ ListenEnds(k)
                         \/ ClientHears(k) \/ ControlEnds(k)
  \/ \E c \in Conns : \/ CommandEnds(c)
                      \/ \E r \in Refs : OpenData(c, r) \/ PumpEnds(c, r)
  \/ \E r \in Refs : ClientDials(r) \/ TimerFires(r)

RemoteSpec == RemoteInit /\ [][RemoteNext]_remote_vars

\* Sleeping tasks wake up.  That alone must do: nothing is assumed of clients,
\* listeners and pumps.
RemoteFairness == \A r \in Refs : WF_remote_vars(TimerFires(r))

RemoteFairSpec == RemoteSpec /\ RemoteFairness

-----------------------------------------------------------------------------
(* Properties                                                              *)

\* A socket is in one place: the table, one pump, or closed.  A claim, the
\* timer and the listener's own clean-up race for it and exactly one gets it,
\* and only a channel of the accepting connection can (session.rs:696-705).
OneHolder ==
  /\ \A r \in Refs : r \in parked <=> held[r] = "table"
  /\ \A r \in Refs : held[r] \in Conns => held[r] = owner[r]

\* "A parked socket cannot leak indefinitely" (session.rs:676-677): it is claimed
\* or closed in the end, whatever became of the signal, of the local dial, of
\* the client and of the listener.
SocketSettles ==
  \A r \in Refs : held[r] = "table" ~> held[r] # "table"
=============================================================================
