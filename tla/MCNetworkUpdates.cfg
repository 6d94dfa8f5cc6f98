SPECIFICATION Spec
CONSTANTS
  join = join  leave = leave  route = route
  p1 = p1  p2 = p2  proxy = proxy  other = other
  x = x  y = y  z = z
  Requests = {join, leave, route}
  TypeOf <- MCTypeOf
  InboundOf <- MCInboundOf
  Pods = {p1, p2, proxy, other}
  ServicePods = {p1, p2, proxy}
  Proxies = {proxy}
  IPs = {x, y, z}
  NoIP = NoIP
  InitialIP <- MCInitialIP
  MaxAttempts = 2
  MaxChanges = 2
CHECK_DEADLOCK FALSE
INVARIANTS
  ReachedSoFar
  MembersWereMeant
PROPERTY
  RequestsEnd
