SPECIFICATION MCSpec
CONSTANTS
  m1 = m1
  m2 = m2
  alice = alice
  bob = bob
  Conns = {m1, m2}
  Users = {alice, bob}
  NoUser = NoUser
  AllowUsers = {alice, bob}
  DenyUsers = {bob}
  Pam = TRUE
  Totp = TRUE
  Oidc = TRUE
  Enrolled = {alice}
  MaxSession = 2
  MaxRequests = 4
  MaxInFlight = 1
  CredKinds = {"none", "password", "token", "jwt"}
  c1 = c1
  c2 = c2
  c3 = c3
  ip1 = ip1
  ip2 = ip2
  t1 = t1
  t2 = t2
  t3 = t3
  Connections = {c1, c2, c3}
  Tasks = {t1, t2, t3}
  Ips = {ip1, ip2}
  IpOf <- MCIpOf
  NoConn = NoConn
  MaxAuthFails = 1
  MaxChannels = 2
  MaxConnsPerIp = 1
  MaxFails = 2
  BaseBackoff = 200
  MaxBackoff = 30000
  Burst = 2
  Refill = 2
  MaxGain = 2
  MaxJobs = 4
  MaxTime = 7
SYMMETRY MCSymmetry
CHECK_DEADLOCK FALSE
INVARIANTS
  Bookkeeping
  SessionEarned
  OneGuess
  SlotPerConnection
  FailsBounded
  CountsGuards
  OwnSignature
  ThrottleBound
PROPERTIES
  SessionIdNeverReused
  BackoffSticks
