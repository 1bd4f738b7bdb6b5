SPECIFICATION MCSpec
CONSTANTS
  Ids = {1, 2, 3}
  CreatedAt <- MCCreatedAt
  Limit = 1
  NoCursor = NoCursor
  NoReply = NoReply
  NoMutation = NoMutation
  MaxLoads = 2
  MaxEvents = 1
  MaxClicks = 4
  MaxIncidents = 1
  NoRow = NoRow
  MaxSaves = 2
  MaxLost = 1
  Addresses = {a1, a2}
  Minute = 2
  MaxHandshakes = 2
  MaxMessages = 1
  MaxConnections = 2
  MaxTracked = 1
CHECK_DEADLOCK FALSE
INVARIANTS
  ConsoleTypeOK
  WholeUnlessCrossed
  
  PreferenceKept
  HandshakesPerMinute
