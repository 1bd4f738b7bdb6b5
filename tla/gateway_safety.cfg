SPECIFICATION Spec
CONSTANTS
  Instances = {i1, i2}
  Sockets = {k1, k2}
  Sessions = {s1}
  Notes = {1, 2}
  Nowhere = Nowhere
  NoSession = NoSession
  MaxPerIp = 1
  SyncLimit = 1
  MaxIncidents = 1
SYMMETRY Symmetry
INVARIANTS
  GatewayTypeOK
  LimitHolds
  SlotsAccountedFor
  NothingMissed
  RevokedSocketsCameLate
