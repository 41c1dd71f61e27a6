\* Two dispatcher processes with ids of their own, two rows, two attempts, two faults.
CONSTANTS
  Worker = {w1, w2}
  Record = {r1, r2}
  Id <- OwnIds
  IdOf <- OwnIdOf
  MaxAttempts = 2
  Batch = 2
  MaxFaults = 2
SPECIFICATION FairSpec
INVARIANTS FollowedOnce WithinBudget
PROPERTIES OnlyHolderSettles KeepsPromise EventuallySettled
CHECK_DEADLOCK FALSE
