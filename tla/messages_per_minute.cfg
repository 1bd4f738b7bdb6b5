SPECIFICATION WindowsSpec
CONSTANTS
  Addresses = {a1}
  Minute = 2
  MaxHandshakes = 2
  MaxMessages = 1
  MaxConnections = 1
  MaxTracked = 1
INVARIANT
  MessagesPerMinute
