----------------------------- MODULE HostIdentity -----------------------------
(***************************************************************************)
(* The monitor's host key and certificate on disk: host_identity and       *)
(* generate_identity in quish-server/src/monitor.rs, with a crash, or an   *)
(* error that ends the program, between any two system calls and a restart *)
(* after it.                                                               *)
(*                                                                         *)
(* Pairs are numbered as they are generated; a file is Absent, Torn (it    *)
(* exists, and fs::write has not yet filled it) or half of a pair.  A file *)
(* that was written stays: the loss of unsynced data by the whole machine  *)
(* is not modelled.                                                        *)
(***************************************************************************)
EXTENDS Integers

CONSTANT MaxGen  \* bound: pairs generated

ASSUME IdentityAssumption == MaxGen \in Nat

VARIABLES
  host_key,  \* "persistent" (--host-key was given), "ephemeral"
  key, cert, \* the two files
  gen,       \* pairs generated so far
  boot,      \* "down", "key", "key2", "cert", "cert2", "up"
  mem_key,   \* the pair in memory
  mem_cert,
  served     \* auxiliary: every certificate the server has presented

identity_vars == <<host_key, key, cert, gen, boot, mem_key, mem_cert, served>>

Absent == 0
Torn   == -1
Pairs  == 1..MaxGen

IdentityTypeOK ==
  /\ host_key \in {"persistent", "ephemeral"}
  /\ key \in Pairs \cup {Absent, Torn}
  /\ cert \in Pairs \cup {Absent, Torn}
  /\ gen \in 0..MaxGen
  /\ boot \in {"down", "key", "key2", "cert", "cert2", "up"}
  /\ mem_key \in Pairs \cup {Absent, Torn}
  /\ mem_cert \in Pairs \cup {Absent, Torn}
  /\ served \subseteq Pairs \cup {Torn}

IdentityInit ==
  /\ host_key \in {"persistent", "ephemeral"}
  /\ key = Absent /\ cert = Absent /\ gen = 0 /\ boot = "down"
  /\ mem_key = Absent /\ mem_cert = Absent /\ served = {}

\* Mutant: a pair is generated at every start.
MutOnDiskNever == FALSE

\* path.exists() && cert_path.exists()
OnDisk == key # Absent /\ cert # Absent

\* generate_identity
Generate(b) ==
  /\ gen < MaxGen
  /\ gen' = gen + 1
  /\ mem_key' = gen + 1 /\ mem_cert' = gen + 1
  /\ boot' = b

\* The pair is in memory and the worker is given the certificate.
Serve(c) == served' = served \cup {c}

StartEphemeral ==
  /\ boot = "down" /\ host_key = "ephemeral"
  /\ Generate("up")
  /\ Serve(mem_cert')
  /\ UNCHANGED <<host_key, key, cert>>

\* Both files are read.  A key that does not parse ends the program, a
\* certificate is not looked into.
StartLoads ==
  /\ boot = "down" /\ host_key = "persistent" /\ OnDisk
  /\ key # Torn
  /\ mem_key' = key /\ mem_cert' = cert
  /\ boot' = "up"
  /\ Serve(cert)
  /\ UNCHANGED <<host_key, key, cert, gen>>

StartGenerates ==
  /\ boot = "down" /\ host_key = "persistent" /\ ~OnDisk
  /\ Generate("key")
  /\ UNCHANGED <<host_key, key, cert, served>>

\* fs::write of the key, which creates or truncates and then fills the file,
\* then of the certificate.
WriteKey ==
  /\ \/ boot = "key" /\ key' = Torn /\ boot' = "key2"
     \/ boot = "key2" /\ key' = mem_key /\ boot' = "cert"
  /\ UNCHANGED <<host_key, cert, gen, mem_key, mem_cert, served>>

WriteCert ==
  /\ \/ boot = "cert" /\ cert' = Torn /\ boot' = "cert2" /\ UNCHANGED served
     \/ boot = "cert2" /\ cert' = mem_cert /\ boot' = "up" /\ Serve(mem_cert)
  /\ UNCHANGED <<host_key, key, gen, mem_key, mem_cert>>

\* The process ends, by itself or not.
Crash ==
  /\ boot # "down"
  /\ boot' = "down"
  /\ mem_key' = Absent /\ mem_cert' = Absent
  /\ UNCHANGED <<host_key, key, cert, gen, served>>

IdentityNext ==
  StartEphemeral \/ StartLoads \/ StartGenerates \/ WriteKey \/ WriteCert \/ Crash

IdentitySpec == IdentityInit /\ [][IdentityNext]_identity_vars

-----------------------------------------------------------------------------
\* "Pass `--host-key <path>` to persist the host identity" (README.md:70):
\* whatever was interrupted, the server presents one certificate, the same
\* after every restart, and holds the key of it.  The exception is a crash while
\* the certificate is filled: host_identity then takes the torn file for a pair
\* at every later start (monitor.rs:165, 180).
StableIdentity ==
  host_key = "persistent" =>
    /\ \A c, d \in served : c = d
    /\ boot = "up" => mem_cert = mem_key \/ mem_cert = Torn
=============================================================================
