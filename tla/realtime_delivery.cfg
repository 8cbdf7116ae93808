SPECIFICATION PairSpec
CONSTANTS
  c1 = c1
  c2 = c2
  c3 = c3
  t1 = t1
  t2 = t2
  d1 = d1
  e1 = e1
  Conns = {c1, c2, c3}
  NoConn = NoConn
  Tenants = {t1, t2}
  TenantOf <- Neighbours
  DatasetChannels = {d1}
  OpenChannels = {}
  PlainChannels = {}
  Owner <- DatasetOwner
  Events = {e1}
  ChannelOf <- DatasetEvent
  EventTenant <- TenantEvent
SYMMETRY Symmetry
CHECK_DEADLOCK FALSE
INVARIANTS TypeOK TenantIsolation ReadersOnly BusFollowsRegistry ServedIsRegistered
PROPERTIES ImplementsPublication
