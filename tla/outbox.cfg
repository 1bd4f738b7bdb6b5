SPECIFICATION FairSpec
CONSTANTS
  Events = {1, 2}
  Workers = {w1, w2}
  Nobody = Nobody
  Gone = Gone
  NoEvent = NoEvent
  BatchSize = 2
  MaxAttempts = 2
  RetryBase = 1
  RetryMax = 2
  Lease = 1
  MaxIncidents = 2
INVARIANTS
  TypeOK
  PendingHasAttemptsLeft
  DeadLetterExhausted
  AttemptsBounded
  ExclusiveUnlessLate
  IInv
PROPERTIES
  NothingStranded
  PublishedIsFinal
  Settles
  StopCompletes
  LifecycleSpec
