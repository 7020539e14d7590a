-------------------------------- MODULE Login --------------------------------
(***************************************************************************)
(* From `quish host` to an open channel: the server's identity across its  *)
(* restarts (HostIdentity), the client's known_hosts (KnownHosts), and the *)
(* processes that connect: verify_server_cert and its prompt               *)
(* (quish-client/src/connect.rs), then open_channel's challenge rounds, or *)
(* the single request of a forward (main.rs).                              *)
(*                                                                         *)
(* "here" is the host of HostIdentity; somebody else may answer for it, if *)
(* Impostor.  "there" is another host, whose certificate never changes and *)
(* may chain to a web root.  Every server answers requests as it likes.    *)
(***************************************************************************)
EXTENDS KnownHosts, HostIdentity

CONSTANTS
  MaxRounds,  \* MAX_CHALLENGE_ROUNDS
  Impostor,   \* whether another server may answer for "here"
  MaxStarts   \* bound: processes started

ASSUME LoginAssumption ==
  /\ Hosts = {"here", "there"}
  /\ MaxRounds \in Nat
  /\ Impostor \in BOOLEAN
  /\ MaxStarts \in Nat

VARIABLES
  pc,      \* process -> "idle", "verify", "prompt", "auth", "open", "mismatch"
  host,    \* process -> whom it connects to
  shown,   \* process -> what it is presented: certificate, whether the
           \* presenter has the key of it, whether it chains to a web root
  left,    \* process -> challenges it may still answer
  starts   \* processes started so far

conn_vars == <<host, shown, left>>
login_vars == <<pc, conn_vars, starts>>
vars == <<login_vars, file_vars, identity_vars>>

Theirs == MaxGen + 1  \* the certificate of "there"
Fake   == MaxGen + 2  \* an impostor's
Fp(c)  == c + 2       \* cert_fingerprint, which is never NoFp

Presented(c, genuine, web) == [cert |-> c, genuine |-> genuine, web |-> web]
Nothing == Presented(Absent, "no", "no")

Init ==
  /\ IdentityInit /\ FileInit
  /\ pc = [p \in Procs |-> "idle"]
  /\ host = [p \in Procs |-> NoHost]
  /\ shown = [p \in Procs |-> Nothing]
  /\ left = [p \in Procs |-> 0]
  /\ starts = 0

\* Who may answer for a host, now.
Servers(h) ==
  IF h = "there" THEN {Presented(Theirs, "yes", w) : w \in {"yes", "no"}}
  ELSE {Presented(mem_cert, IF mem_key = mem_cert THEN "yes" ELSE "no", "no") :
          b \in {boot} \cap {"up"}}
       \cup {Presented(Fake, "yes", "no") : i \in {Impostor} \cap {TRUE}}

Goto(p, s) == pc' = [pc EXCEPT ![p] = s] /\ UNCHANGED <<host, shown>>

\* The process ends, and another one may start.
Quit(p) ==
  /\ pc' = [pc EXCEPT ![p] = "idle"]
  /\ host' = [host EXCEPT ![p] = NoHost]
  /\ shown' = [shown EXCEPT ![p] = Nothing]
  /\ left' = [left EXCEPT ![p] = 0]

Started == starts < MaxStarts /\ starts' = starts + 1

\* open_channel answers challenges; the channels of a forward send one request.
Budgets == {MaxRounds, 0}

\* The handshake reaches the server's certificate.
Dial(p) ==
  /\ pc[p] = "idle" /\ rm[p] = "none"
  /\ Started
  /\ \E h \in Hosts : \E c \in Servers(h) :
       /\ host' = [host EXCEPT ![p] = h]
       /\ shown' = [shown EXCEPT ![p] = c]
  /\ pc' = [pc EXCEPT ![p] = "verify"]
  /\ UNCHANGED <<left, file_vars, identity_vars>>

\* Mutant: the signature is not checked.
MutAccepted(p) ==
  /\ Goto(p, "auth")
  /\ \E n \in Budgets : left' = [left EXCEPT ![p] = n]

\* The certificate is accepted; the handshake's signature is checked after it.
Accepted(p) ==
  \/ /\ shown[p].genuine = "yes"
     /\ Goto(p, "auth")
     /\ \E n \in Budgets : left' = [left EXCEPT ![p] = n]
  \/ shown[p].genuine = "no" /\ Quit(p)

\* verify_server_cert up to the prompt.
Verify(p) ==
  /\ pc[p] = "verify"
  /\ LET pinned == lookup(host[p])
         fp     == Fp(shown[p].cert)
         web    == shown[p].web = "yes"
     IN \/ (web \/ pinned = fp) /\ Accepted(p)
        \/ ~web /\ pinned = NoFp /\ Goto(p, "prompt") /\ UNCHANGED left
        \/ ~web /\ pinned \notin {fp, NoFp} /\ Goto(p, "mismatch") /\ UNCHANGED left
  /\ UNCHANGED <<starts, file_vars, identity_vars>>

\* Yes pins, without a second look at the file; no, or no terminal, refuses.
Answer(p) ==
  /\ pc[p] = "prompt"
  /\ \/ pin(host[p], Fp(shown[p].cert)) /\ Accepted(p)
     \/ Quit(p) /\ UNCHANGED file_vars
  /\ UNCHANGED <<starts, identity_vars>>

\* Mutant: no cap on the rounds.
MutRespond(p) ==
  /\ pc[p] = "auth"
  /\ \/ Goto(p, "open") /\ UNCHANGED left
     \/ Goto(p, "auth") /\ left' = [left EXCEPT ![p] = IF @ = 0 THEN MaxRounds ELSE @ - 1]
     \/ Quit(p)
  /\ UNCHANGED <<starts, file_vars, identity_vars>>

\* A CONNECT request and its response: 200; a challenge that is answered, while
\* rounds are left; or a last challenge, any other status, a lost connection, an
\* answer nobody gives.
Respond(p) ==
  /\ pc[p] = "auth"
  /\ \/ Goto(p, "open") /\ UNCHANGED left
     \/ left[p] > 0 /\ Goto(p, "auth") /\ left' = [left EXCEPT ![p] = @ - 1]
     \/ Quit(p)
  /\ UNCHANGED <<starts, file_vars, identity_vars>>

\* The channel is over, or the mismatch reported.
End(p) ==
  /\ pc[p] \in {"open", "mismatch"}
  /\ Quit(p)
  /\ UNCHANGED <<starts, file_vars, identity_vars>>

\* `quish known-hosts remove`.
Remove(p) ==
  /\ pc[p] = "idle"
  /\ \/ RemoveReads(p) /\ Started
     \/ RemoveStep(p) /\ UNCHANGED starts
  /\ UNCHANGED <<pc, conn_vars, identity_vars>>

Server == IdentityNext /\ UNCHANGED <<login_vars, file_vars>>

ClientGoesOn(p) == Verify(p) \/ Answer(p) \/ End(p)

Next == Server \/ \E p \in Procs : Dial(p) \/ ClientGoesOn(p) \/ Respond(p) \/ Remove(p)

Spec == Init /\ [][Next]_vars

\* A client that has connected goes on, and its user answers a prompt.  Nothing
\* makes a server answer a request: the client keeps the connection alive
\* (connect.rs:51-56) and waits without a timeout (main.rs:696).
FairSpec == Spec /\ \A p \in Procs : WF_vars(ClientGoesOn(p))

-----------------------------------------------------------------------------
\* "Hard-fail on any later mismatch" (connect.rs:6) strikes impostors only: a
\* client that refuses the certificate it is shown was shown an impostor's, or
\* had accepted one before, however the server was restarted and however the
\* clients raced on known_hosts.  The exception is a host with whose name the
\* name of an accepted one ends, when removals overlapped.
NoFalseAlarm ==
  host_key = "persistent" =>
    \A p \in Procs : pc[p] = "mismatch" =>
      \/ shown[p].cert = Fake \/ Line("here", Fp(Fake)) \in approved
      \/ overlap = "yes" /\ \E a \in approved : <<a.host, host[p]>> \in Tails

\* A client gets into a host that no web root vouches for only with a
\* certificate a user accepted for that very host, or in a line that removals at
\* once cut, and only if the server has its key (connect.rs:98-123).
OnlyAccepted ==
  \A p \in Procs : pc[p] \in {"auth", "open"} /\ shown[p].web = "no" =>
    /\ shown[p].genuine = "yes"
    /\ Vouched(Line(host[p], Fp(shown[p].cert)))

\* "a misbehaving/hostile server can never loop the client forever prompting for
\* codes" (main.rs:731-732): a login ends, or the client waits for ever for one
\* answer of the server, after as many rounds as it has gone through.
LoginEnds ==
  \A p \in Procs :
    pc[p] = "verify" ~> \/ pc[p] \in {"open", "mismatch", "idle"}
                        \/ \E n \in 0..MaxRounds : [](pc[p] = "auth" /\ left[p] = n)
=============================================================================
