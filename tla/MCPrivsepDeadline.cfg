SPECIFICATION Spec
CONSTANTS
  c1 = c1
  c2 = c2
  t1 = t1
  t2 = t2
  alice = alice
  ip1 = ip1
  Conns = {c1, c2}
  Tasks = {t1, t2}
  Users = {alice}
  NoUser = NoUser
  NoConn = NoConn
  AllowUsers = {}
  DenyUsers = {}
  Pam = TRUE
  Totp = FALSE
  Oidc = FALSE
  Enrolled = {}
  MaxSession = 2
  MaxRequests = 8
  MaxInFlight = 8
  CredKinds = {"password"}
  Ips = {ip1}
  MaxAuthFails = 6
  MaxChannels = 16
  MaxConnsPerIp = 32
  MaxFails = 2
  BaseBackoff = 200
  MaxBackoff = 30000
  MaxSignals = 0
  DeadlineFires = TRUE
  Oversized = FALSE
  SpawnKinds = {"SpawnShell"}
  IpOf <- MCIpOf
SYMMETRY ConnSymmetry
CHECK_DEADLOCK FALSE
INVARIANTS
  AllowIsMonitors
