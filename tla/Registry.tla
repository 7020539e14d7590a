------------------------------ MODULE Registry ------------------------------
(***************************************************************************)
(* The authentication registry (quish-auth): the compiled-in backends, the *)
(* dispatch of one credential to the first backend that supports it, the   *)
(* TOTP second factor and the operator's user policy.  Everything here is  *)
(* a pure operator: the registry keeps no state of its own, the challenge  *)
(* it asks for is parked by the caller (Monitor).                          *)
(*                                                                         *)
(* Data abstraction.  A credential that some backend would verify carries  *)
(* the user it proves; one that it would reject (wrong password, key not   *)
(* in authorized_keys, stale timestamp, bad signature, bad JWT) carries    *)
(* NoUser.  A signed token also carries the connection whose channel       *)
(* binding it was signed over; a JWT is bound to no connection.            *)
(***************************************************************************)
EXTENDS Naturals, Sequences

CONSTANTS
  Conns,       \* connection ids (also stand for the channel binding of each)
  Users,       \* local user names
  NoUser,      \* "no user"
  AllowUsers,  \* UserPolicy.allow_users
  DenyUsers,   \* UserPolicy.deny_users
  Pam,         \* the build has the `pam` feature
  Totp,        \* Config.totp
  Oidc,        \* Config.oidc is Some
  Enrolled     \* users with a readable ~/.config/quish/totp

ASSUME RegistryAssumption ==
  /\ NoUser \notin Users
  /\ AllowUsers \subseteq Users
  /\ DenyUsers \subseteq Users
  /\ Enrolled \subseteq Users
  /\ {Pam, Totp, Oidc} \subseteq BOOLEAN

-----------------------------------------------------------------------------
(* Credentials and verdicts                                                *)

Proved == Users \cup {NoUser}

\* A header that parse_authorization does not understand, or no header.
NoCred == [kind |-> "none"]

PasswordCred == [kind : {"password"}, user : Proved]
TokenCred    == [kind : {"token"}, user : Proved, bind : Conns]
JwtCred      == [kind : {"jwt"}, user : Proved]

Credentials == {NoCred} \cup PasswordCred \cup TokenCred \cup JwtCred

\* The secret a one-time code was computed from.  A user without an
\* enrolled secret is verified against the empty key.
EmptyKey == NoUser
secret_for(user) == IF user \in Enrolled THEN user ELSE EmptyKey

\* ConnInfo.challenge: the parked first-factor outcome and the client's code.
\* Round one has none.
NoResume == [round |-> 1, pending |-> NoUser, code |-> NoUser]
Resume(pending, code) == [round |-> 2, pending |-> pending, code |-> code]

Deny == [kind |-> "Deny", user |-> NoUser]
Allow(user) == [kind |-> "Allow", user |-> user]
Challenge(pending) == [kind |-> "Challenge", user |-> pending]

Verdicts == [kind : {"Allow", "Challenge", "Deny"}, user : Proved]

-----------------------------------------------------------------------------
(* Backends                                                                *)

\* PubkeyBackend::authenticate: an authorized key, a fresh timestamp and a
\* signature that covers THIS connection's channel binding.
pubkey_authenticate(cred, binding) ==
  IF cred.user # NoUser /\ cred.bind = binding THEN Allow(cred.user) ELSE Deny

\* PamBackend::authenticate
pam_authenticate(cred) ==
  IF cred.user # NoUser THEN Allow(cred.user) ELSE Deny

\* OidcBackend::authenticate
oidc_authenticate(cred) ==
  IF cred.user # NoUser THEN Allow(cred.user) ELSE Deny

\* Mutant: a validated first factor is enough.
Mut_totp_complete(ch) == IF ch.pending # NoUser THEN Allow(ch.pending) ELSE Deny

\* TotpBackend::complete: Allow needs a validated first factor AND the code.
totp_complete(ch) ==
  IF ch.pending # NoUser /\ ch.code = secret_for(ch.pending)
  THEN Allow(ch.pending)
  ELSE Deny

\* TotpBackend::authenticate: a resumed challenge is completed whatever the
\* credential says; otherwise the first factor runs and ALWAYS challenges.
totp_authenticate(cred, ch) ==
  IF ch.round = 2
  THEN totp_complete(ch)
  ELSE Challenge(pam_authenticate(cred).user)

\* The backends in build_registry's order; a slot the build or the
\* configuration leaves out is "absent".
build_registry ==
  <<"pubkey",
    IF Pam THEN IF Totp THEN "totp" ELSE "pam" ELSE "absent",
    IF Oidc THEN "oidc" ELSE "absent">>

supports(backend, cred) ==
  \/ backend = "pubkey" /\ cred.kind = "token"
  \/ backend \in {"pam", "totp"} /\ cred.kind = "password"
  \/ backend = "oidc" /\ cred.kind = "jwt"

\* The first supporting backend of the list.
first_supporting(cred) ==
  LET able == {i \in 1..3 : supports(build_registry[i], cred)}
  IN  IF able = {} THEN "absent"
      ELSE build_registry[CHOOSE i \in able : \A j \in able : i <= j]

\* Registry::dispatch: that backend decides; with none it is a Deny.
dispatch(cred, binding, ch) ==
  CASE first_supporting(cred) = "pubkey" -> pubkey_authenticate(cred, binding)
    [] first_supporting(cred) = "pam"    -> pam_authenticate(cred)
    [] first_supporting(cred) = "totp"   -> totp_authenticate(cred, ch)
    [] first_supporting(cred) = "oidc"   -> oidc_authenticate(cred)
    [] OTHER                             -> Deny

-----------------------------------------------------------------------------
(* The registry                                                            *)

\* UserPolicy::permits
permits(user) ==
  /\ user \notin DenyUsers
  /\ AllowUsers = {} \/ user \in AllowUsers

\* Registry::verdict: an Allow the policy does not permit becomes a Deny.
verdict(cred, binding, ch) ==
  LET v == IF cred.kind = "none" THEN Deny ELSE dispatch(cred, binding, ch)
  IN  IF v.kind = "Allow" /\ ~permits(v.user) THEN Deny ELSE v

\* The user a credential proves on its own on the connection `binding`: the
\* reference the properties compare verdicts with.
ProvenUser(cred, binding) ==
  IF cred.kind = "none" \/ (cred.kind = "token" /\ cred.bind # binding)
  THEN NoUser
  ELSE cred.user
=============================================================================
