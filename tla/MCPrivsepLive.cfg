SPECIFICATION FairSpec
CONSTANTS
  c1 = c1
  t1 = t1
  t2 = t2
  alice = alice
  ip1 = ip1
  Conns = {c1}
  Tasks = {t1, t2}
  Users = {alice}
  NoUser = NoUser
  NoConn = NoConn
  AllowUsers = {}
  DenyUsers = {}
  Pam = TRUE
  Totp = FALSE
  Oidc = FALSE
  Enrolled = {}
  MaxSession = 1
  MaxRequests = 7
  MaxInFlight = 8
  CredKinds = {"password"}
  Ips = {ip1}
  MaxAuthFails = 6
  MaxChannels = 16
  MaxConnsPerIp = 32
  MaxFails = 2
  BaseBackoff = 200
  MaxBackoff = 30000
  MaxSignals = 0
  DeadlineFires = TRUE
  Oversized = TRUE
  SpawnKinds = {"SpawnShell"}
  IpOf <- MCIpOf
CHECK_DEADLOCK FALSE
PROPERTIES
  AuthEnds
  CloseEnds
  RefinesMonitor
  RefinesTransport
