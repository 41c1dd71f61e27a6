\* Three calls for two business keys, three rows, four status changes.
CONSTANTS
  c1 = c1
  c2 = c2
  c3 = c3
  Caller = {c1, c2, c3}
  Key <- Keys
  Instance = {i1, i2, i3}
  KeyOf <- TwoKeys
  MaxMoves = 4
SPECIFICATION StartFairSpec
INVARIANTS OneActivePerKey
PROPERTIES HonestAnswer EventuallyAnswered
CHECK_DEADLOCK FALSE
