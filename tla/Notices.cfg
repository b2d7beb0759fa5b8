SPECIFICATION NotesFairSpec
CONSTANTS
  Events = {e1, e2}
  Relays = {r1}
  Workers = {w1, w2}
  Limit = 1
  MaxAttempts = 2
  MaxMessages = 2
  MaxCrashes = 1
  None = None
  Channels = {app, sms}
  Deliverers = {d1, d2}
  Batch = 3
INVARIANTS EffectOnce DeadLetterOnce NoticeMatchesEvent SentOnce
PROPERTIES EventuallyDelivered
CHECK_DEADLOCK FALSE
