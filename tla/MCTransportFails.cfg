SPECIFICATION TransportSpec
CONSTANTS
  c1 = c1
  c2 = c2
  c3 = c3
  ip1 = ip1
  ip2 = ip2
  t1 = t1
  t2 = t2
  Connections = {c1, c2, c3}
  Tasks = {t1, t2}
  Ips = {ip1, ip2}
  IpOf <- MCIpOf
  NoConn = NoConn
  MaxAuthFails = 1
  MaxChannels = 2
  MaxConnsPerIp = 1
  MaxFails = 2
  BaseBackoff = 200
  MaxBackoff = 30000
CHECK_DEADLOCK FALSE
INVARIANT
  FailsTolerated
