\* Four calls, room for two events, batches of two, three attempts.
CONSTANTS
  Call = {c1, c2, c3, c4}
  Capacity = 2
  MAX_BATCH = 2
  MAX_WRITE_ATTEMPTS = 3
SPECIFICATION UsageFairSpec
INVARIANTS LossIsCounted StoredOnce
PROPERTIES Drains
CHECK_DEADLOCK FALSE
