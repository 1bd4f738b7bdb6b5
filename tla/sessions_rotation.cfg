SPECIFICATION Spec
CONSTANTS
  Users = {u1}
  Sessions = {s1}
  Tokens = {t1, t2, t3}
  LegacyTokens = {t1}
  Requests = {r1, r2}
  NoSession = NoSession
  NoToken = NoToken
  NoUser = NoUser
  Lifetime = 2
  Retention = 2
  MaxIncidents = 1
SYMMETRY Symmetry
INVARIANTS
  SessionsTypeOK
  OneLiveToken
  ReplayIsFatal
PROPERTIES
  NothingUnannounced
  PurgeTakesOnlyTheExpired
  FamilySpec
