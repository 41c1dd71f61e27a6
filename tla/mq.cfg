\* Two workers, three events, batches of two, budgets 0 and 2, one fault, one stall.
CONSTANTS
  Worker = {w1, w2}
  Event = {1, 2, 3}
  Budget = {0, 2}
  BatchSize = 2
  MaxFaults = 1
  MaxStalls = 1
SPECIFICATION FairSpec
INVARIANTS AttemptsWithinBudget SharedOnlyIfContested
PROPERTIES SettledUnlessContested EventuallySettled
CHECK_DEADLOCK FALSE
