SPECIFICATION DeliverySpec
CONSTANTS
  Events = {1}
  Workers = {w1, w2}
  Nobody = Nobody
  Gone = Gone
  NoEvent = NoEvent
  BatchSize = 1
  MaxAttempts = 2
  RetryBase = 0
  RetryMax = 2
  Lease = 0
  MaxIncidents = 1
  MaxTries = 2
  MaxPreferences = 2
SYMMETRY Symmetry
INVARIANTS
  DeliveryTypeOK
  PublishedMeansDelivered
  NothingUnwanted
  EmailsPaidFor
  InAppIndependentOfMail
