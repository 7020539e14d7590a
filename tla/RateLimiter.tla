---------------------------- MODULE RateLimiter ----------------------------
(***************************************************************************)
(* The per-IP limiter of quish-server/src/ratelimit.rs: a map from IP to   *)
(* (live connections, recent failures, last_seen) behind one mutex, swept  *)
(* of stale idle entries whenever a connection is admitted.  Each method   *)
(* holds the mutex throughout, so each is one action.                      *)
(*                                                                         *)
(* Time: `stale` holds the IPs whose last_seen is at least ENTRY_TTL ago;  *)
(* every method that writes last_seen makes the entry fresh again.         *)
(***************************************************************************)
EXTENDS Naturals, FiniteSets

CONSTANTS
  Ips,
  MaxConnsPerIp,   \* max_conns_per_ip (32 in Default)
  MaxFails,        \* u32::MAX, where `fails` saturates
  BaseBackoff,     \* base_backoff
  MaxBackoff       \* max_backoff

ASSUME LimiterAssumption ==
  /\ {MaxConnsPerIp, MaxFails, BaseBackoff, MaxBackoff} \subseteq Nat

VARIABLES
  known,    \* the IPs with an entry
  conns,    \* Entry::conns (meaningful for known IPs)
  fails,    \* Entry::fails
  stale,    \* the IPs whose last_seen is ENTRY_TTL or more ago
  guards    \* the ConnGuards alive, per IP

limiter_vars == <<known, conns, fails, stale, guards>>

LimiterTypeOK ==
  /\ known \in SUBSET Ips
  /\ conns \in [Ips -> Nat]
  /\ fails \in [Ips -> 0..MaxFails]
  /\ stale \in SUBSET Ips
  /\ guards \in [Ips -> Nat]

LimiterInit ==
  /\ known = {}
  /\ conns = [ip \in Ips |-> 0]
  /\ fails = [ip \in Ips |-> 0]
  /\ stale = {}
  /\ guards = [ip \in Ips |-> 0]

-----------------------------------------------------------------------------
\* Mutant: the sweep looks at last_seen alone.
MutRetained == {ip \in known : ip \notin stale}

\* What `retain` keeps.
Retained == {ip \in known : conns[ip] > 0 \/ ip \notin stale}

\* The entry's value as `entry(ip).or_insert_with(Entry::new)` finds it in a
\* map whose keys are `keys`.
EntryConns(keys, ip) == IF ip \in keys THEN conns[ip] ELSE 0
EntryFails(keys, ip) == IF ip \in keys THEN fails[ip] ELSE 0

\* RateLimiter::admit, below the cap: sweep, insert, count, hand out a guard.
Admit(ip) ==
  /\ EntryConns(Retained, ip) < MaxConnsPerIp
  /\ known' = Retained \cup {ip}
  /\ conns' = [conns EXCEPT ![ip] = EntryConns(Retained, ip) + 1]
  /\ fails' = [fails EXCEPT ![ip] = EntryFails(Retained, ip)]
  /\ stale' = stale \ {ip}
  /\ guards' = [guards EXCEPT ![ip] = @ + 1]

\* RateLimiter::admit at the cap: the sweep and the insert still happen.
Refuse(ip) ==
  /\ EntryConns(Retained, ip) >= MaxConnsPerIp
  /\ known' = Retained \cup {ip}
  /\ conns' = [conns EXCEPT ![ip] = EntryConns(Retained, ip)]
  /\ fails' = [fails EXCEPT ![ip] = EntryFails(Retained, ip)]
  /\ stale' = IF ip \in Retained THEN stale ELSE stale \ {ip}
  /\ UNCHANGED guards

\* RateLimiter::record_failure: inserts if absent, saturates.
RecordFailure(ip) ==
  /\ known' = known \cup {ip}
  /\ conns' = [conns EXCEPT ![ip] = EntryConns(known, ip)]
  /\ fails' = [fails EXCEPT ![ip] =
                 IF EntryFails(known, ip) < MaxFails
                 THEN EntryFails(known, ip) + 1 ELSE MaxFails]
  /\ stale' = stale \ {ip}
  /\ UNCHANGED guards

\* RateLimiter::record_success: only an existing entry is touched.
RecordSuccess(ip) ==
  /\ fails' = IF ip \in known THEN [fails EXCEPT ![ip] = 0] ELSE fails
  /\ stale' = IF ip \in known THEN stale \ {ip} ELSE stale
  /\ UNCHANGED <<known, conns, guards>>

\* ConnGuard::drop: saturating_sub on an existing entry.
DropGuard(ip) ==
  /\ guards[ip] > 0
  /\ guards' = [guards EXCEPT ![ip] = @ - 1]
  /\ conns' = IF ip \in known /\ conns[ip] > 0
              THEN [conns EXCEPT ![ip] = @ - 1] ELSE conns
  /\ stale' = IF ip \in known THEN stale \ {ip} ELSE stale
  /\ UNCHANGED <<known, fails>>

\* ENTRY_TTL passes since last_seen.
EntryAges(ip) ==
  /\ ip \in known
  /\ ip \notin stale
  /\ stale' = stale \cup {ip}
  /\ UNCHANGED <<known, conns, fails, guards>>

LimiterNext ==
  \E ip \in Ips :
    \/ Admit(ip)
    \/ Refuse(ip)
    \/ RecordFailure(ip)
    \/ RecordSuccess(ip)
    \/ DropGuard(ip)
    \/ EntryAges(ip)

LimiterSpec == LimiterInit /\ [][LimiterNext]_limiter_vars

-----------------------------------------------------------------------------
\* RateLimiter::backoff: base * 2^(fails-1), the exponent capped at 16 and the
\* product at max_backoff.
backoff(n) ==
  LET shift == IF n - 1 < 16 THEN n - 1 ELSE 16
      wait  == BaseBackoff * 2^shift
  IN  IF n = 0 THEN 0 ELSE IF wait < MaxBackoff THEN wait ELSE MaxBackoff

Backoff(ip) == backoff(EntryFails(known, ip))

-----------------------------------------------------------------------------
(* Properties                                                              *)

\* The map counts exactly the guards that are alive: the sweep never drops an
\* entry whose connections still run, a failure recorded after the entry was
\* swept starts from zero connections, and a guard's drop always finds its
\* entry and never saturates (ratelimit.rs:62, 92, 115-118).
CountsGuards == \A ip \in Ips : EntryConns(known, ip) = guards[ip]

\* So the cap on concurrent connections of one IP holds in terms of the
\* connections themselves (ratelimit.rs:65-67).
CapHeld == \A ip \in Ips : guards[ip] <= MaxConnsPerIp

\* The wait before an attempt shrinks only after a success or once the IP has
\* no connection left: an IP that keeps a connection open cannot shed its
\* failures by waiting for the sweep (ratelimit.rs:62, 78-103).
BackoffSticks ==
  [][\A ip \in Ips :
       Backoff(ip)' < Backoff(ip) => RecordSuccess(ip) \/ guards[ip] = 0]_limiter_vars
=============================================================================
