SPECIFICATION FairSpec
CONSTANTS
  c1 = c1
  c2 = c2
  c3 = c3
  t1 = t1
  t2 = t2
  d1 = d1
  e1 = e1
  Conns = {c1}
  NoConn = NoConn
  Tenants = {t1}
  TenantOf <- Alone
  DatasetChannels = {d1}
  OpenChannels = {"notifications:n"}
  PlainChannels = {"approvals"}
  Owner <- DatasetOwner
  Events = {e1}
  ChannelOf <- DatasetEvent
  EventTenant <- TenantEvent
CHECK_DEADLOCK FALSE
PROPERTIES PublicationEnds SilentIsEvicted
