SPECIFICATION FairSpec
CONSTANTS
  Events = {e1, e2}
  Relays = {r1, r2}
  Workers = {w1, w2}
  Limit = 2
  MaxAttempts = 2
  MaxMessages = 3
  MaxCrashes = 2
  None = None
INVARIANT PublishedIsUnderway
PROPERTIES EventuallySettled DeliverySpec
CHECK_DEADLOCK FALSE
