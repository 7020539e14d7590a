SPECIFICATION Spec
CONSTANTS
  c1 = c1
  c2 = c2
  t1 = t1
  t2 = t2
  alice = alice
  ip1 = ip1
  Conns = {c1, c2}
  Tasks = {t1, t2}
  Users = {alice}
  NoUser = NoUser
  NoConn = NoConn
  AllowUsers = {}
  DenyUsers = {}
  Pam = TRUE
  Totp = FALSE
  Oidc = FALSE
  Enrolled = {}
  MaxSession = 2
  MaxRequests = 6
  MaxInFlight = 8
  CredKinds = {"password"}
  Ips = {ip1}
  MaxAuthFails = 6
  MaxChannels = 16
  MaxConnsPerIp = 32
  MaxFails = 1
  BaseBackoff = 200
  MaxBackoff = 30000
  MaxSignals = 1
  DeadlineFires = FALSE
  Oversized = FALSE
  SpawnKinds = {"SpawnExec", "SpawnTransferWrite"}
  IpOf <- MCIpOf
SYMMETRY ConnSymmetry
CHECK_DEADLOCK FALSE
INVARIANTS
  ReplyMatchesCall
  AllowIsMonitors
  OwnSession
  AlwaysReaped
