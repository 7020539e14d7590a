------------------------------- MODULE Signing -------------------------------
(***************************************************************************)
(* Host-key signatures: the worker's TLS stack asks ProxySigner::sign      *)
(* (quish-server/src/signproxy.rs), a socket thread passes the message to  *)
(* the monitor, and the monitor's signing thread answers under a token     *)
(* bucket (quish-server/src/monitor.rs, SignThrottle).                     *)
(*                                                                         *)
(* There are two timeouts of the same length, one on the reactor that      *)
(* waits for the reply channel and one on the socket thread's read; the    *)
(* monitor may answer after either.  Neither the request nor the reply     *)
(* says which message it belongs to; here both carry the job's number so   *)
(* that a property can compare them.                                       *)
(***************************************************************************)
EXTENDS Integers, Sequences

CONSTANTS
  Burst,    \* SIGN_BURST
  Refill,   \* SIGN_REFILL, in clock ticks
  MaxGain,  \* u32::MAX, the most tokens one refill can credit
  MaxJobs,  \* bound: handshakes in one behaviour
  MaxTime   \* bound: the clock

ASSUME SigningAssumption ==
  /\ {Burst, MaxGain, MaxJobs, MaxTime} \subseteq Nat
  /\ Refill \in Nat \ {0}
  /\ Burst <= MaxGain

VARIABLES
  now,      \* the monotonic clock
  tokens,   \* SignThrottle::tokens
  last,     \* SignThrottle::last
  signed,   \* signatures made so far
  next_job, \* jobs created so far
  waiting,  \* the job whose reply the reactor is blocked on, 0 = none
  jobs,     \* the channel to the socket thread
  reply,    \* job -> what is in its reply channel
  result,   \* job -> what sign() returned
  thread,   \* "idle", "reading", "stopped"
  job,      \* the job the socket thread is working on
  to_mon,   \* requests in the signing socket
  to_thr    \* answers in the signing socket

throttle_vars == <<tokens, last, signed>>
signing_socket   == <<to_mon, to_thr>>
signing_vars ==
  <<now, throttle_vars, next_job, waiting, jobs, reply, result, thread, job,
    signing_socket>>

Jobs    == 1..MaxJobs
None    == [kind |-> "none", of |-> 0]
Failed  == [kind |-> "failed", of |-> 0]
Signature(j) == [kind |-> "signature", of |-> j]
SignAnswers == {None, Failed} \cup {Signature(j) : j \in Jobs}

SigningTypeOK ==
  /\ now \in 0..MaxTime
  /\ tokens \in 0..Burst
  /\ last \in 0..MaxTime
  /\ signed \in 0..MaxJobs
  /\ next_job \in 0..MaxJobs
  /\ waiting \in 0..MaxJobs
  /\ jobs \in Seq(Jobs)
  /\ reply \in [Jobs -> SignAnswers]
  /\ result \in [Jobs -> SignAnswers]
  /\ thread \in {"idle", "reading", "stopped"}
  /\ job \in 0..MaxJobs
  /\ to_mon \in Seq(Jobs)
  /\ to_thr \in Seq(SignAnswers)

SigningInit ==
  /\ now = 0
  /\ tokens = Burst /\ last = 0 /\ signed = 0
  /\ next_job = 0 /\ waiting = 0
  /\ jobs = <<>>
  /\ reply = [j \in Jobs |-> None]
  /\ result = [j \in Jobs |-> None]
  /\ thread = "idle" /\ job = 0
  /\ to_mon = <<>> /\ to_thr = <<>>

-----------------------------------------------------------------------------
(* The reactor: ProxySigner::sign                                          *)

\* The job is queued; with the socket thread gone the call fails at once.
Sign ==
  /\ waiting = 0
  /\ next_job < MaxJobs
  /\ next_job' = next_job + 1
  /\ IF thread = "stopped"
     THEN /\ result' = [result EXCEPT ![next_job + 1] = Failed]
          /\ UNCHANGED <<waiting, jobs>>
     ELSE /\ jobs' = Append(jobs, next_job + 1)
          /\ waiting' = next_job + 1
          /\ UNCHANGED result
  /\ UNCHANGED <<now, throttle_vars, reply, thread, job, signing_socket>>

\* recv_timeout gives a reply.
SignReturns ==
  /\ waiting # 0
  /\ reply[waiting] # None
  /\ result' = [result EXCEPT ![waiting] = reply[waiting]]
  /\ waiting' = 0
  /\ UNCHANGED <<now, throttle_vars, next_job, jobs, reply, thread, job, signing_socket>>

\* recv_timeout runs out, or the thread dropped the queued job's sender.
SignTimesOut ==
  /\ waiting # 0
  /\ result' = [result EXCEPT ![waiting] = Failed]
  /\ waiting' = 0
  /\ UNCHANGED <<now, throttle_vars, next_job, jobs, reply, thread, job, signing_socket>>

-----------------------------------------------------------------------------
(* The socket thread                                                       *)

\* sign_once writes the request.
ThreadWrites ==
  /\ thread = "idle"
  /\ jobs # <<>>
  /\ job' = Head(jobs)
  /\ jobs' = Tail(jobs)
  /\ to_mon' = Append(to_mon, Head(jobs))
  /\ thread' = "reading"
  /\ UNCHANGED <<now, throttle_vars, next_job, waiting, reply, result, to_thr>>

\* Signed or Refused: the answer goes to the job at hand, the loop goes on.
ThreadReads ==
  /\ thread = "reading"
  /\ to_thr # <<>>
  /\ reply' = [reply EXCEPT ![job] = Head(to_thr)]
  /\ to_thr' = Tail(to_thr)
  /\ thread' = "idle"
  /\ UNCHANGED <<now, throttle_vars, next_job, waiting, jobs, result, job, to_mon>>

\* Mutant: Broken is handled like Refused.
MutThreadBreaks ==
  /\ thread = "reading"
  /\ reply' = [reply EXCEPT ![job] = Failed]
  /\ thread' = "idle"
  /\ UNCHANGED <<now, throttle_vars, next_job, waiting, jobs, result, job, signing_socket>>

\* Broken: the write failed, the read timed out or the socket ended.  The
\* thread stops; the jobs it had not taken are dropped with its channel.
ThreadBreaks ==
  /\ thread = "reading"
  /\ reply' = [reply EXCEPT ![job] = Failed]
  /\ thread' = "stopped"
  /\ jobs' = <<>>
  /\ UNCHANGED <<now, throttle_vars, next_job, waiting, result, job, signing_socket>>

-----------------------------------------------------------------------------
(* The monitor's signing thread                                            *)

Least(a, b) == IF a < b THEN a ELSE b

\* The tokens SignThrottle::allow credits now, and the bucket with them.
gained == Least((now - last) \div Refill, MaxGain)

filled == Least(tokens + gained, Burst)

\* Mutant: `last` stays where it was.
MutAdvance == UNCHANGED last

\* `last` moves by exactly the intervals credited.
Advance == last' = last + gained * Refill

\* One request: refused without a token; else a signature, unless the key
\* cannot sign (the token is spent all the same).
MonitorAnswers ==
  /\ to_mon # <<>>
  /\ to_mon' = Tail(to_mon)
  /\ Advance
  /\ \/ /\ filled = 0
        /\ tokens' = 0
        /\ to_thr' = Append(to_thr, Failed)
        /\ UNCHANGED signed
     \/ /\ filled > 0
        /\ tokens' = filled - 1
        /\ \/ to_thr' = Append(to_thr, Signature(Head(to_mon))) /\ signed' = signed + 1
           \/ to_thr' = Append(to_thr, Failed) /\ UNCHANGED signed
  /\ UNCHANGED <<now, next_job, waiting, jobs, reply, result, thread, job>>

Tick ==
  /\ now < MaxTime
  /\ now' = now + 1
  /\ UNCHANGED <<throttle_vars, next_job, waiting, jobs, reply, result, thread,
                 job, signing_socket>>

SigningNext ==
  \/ Sign \/ SignReturns \/ SignTimesOut
  \/ ThreadWrites \/ ThreadReads \/ ThreadBreaks
  \/ MonitorAnswers
  \/ Tick

SigningSpec == SigningInit /\ [][SigningNext]_signing_vars

-----------------------------------------------------------------------------
(* Properties                                                              *)

\* A handshake never gets the signature of another handshake's message, although
\* a reply may come after the timeouts and jobs queue behind a slow one
\* (signproxy.rs:96-98 "rather than risk reading a stale reply for the next job").
OwnSignature ==
  \A j \in Jobs : result[j].kind = "signature" => result[j].of = j

\* However requests and refills interleave, the monitor has made no more
\* signatures than the burst and the refills since its start allow
\* (monitor.rs:253-256 "this bounds the abuse throughput").
ThrottleBound == signed * Refill <= Burst * Refill + now
=============================================================================
