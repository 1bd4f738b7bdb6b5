SPECIFICATION FairSpec
CONSTANTS
  Users = {u1, u2}
  Sessions = {s1, s2}
  Tokens = {t1, t2}
  LegacyTokens = {}
  Requests = {r1, r2}
  NoSession = NoSession
  NoToken = NoToken
  NoUser = NoUser
  Lifetime = 1
  Retention = 1
  MaxIncidents = 0
INVARIANTS
  EveryRevocationHasACause
  DeadlocksNeedASweep
PROPERTIES
  RequestsEnd
