\* One task, closures three deep, five runs, two faults, on either database.
CONSTANTS
  Write = {a, b, c}
  MaxDepth = 3
  MaxRuns = 5
  MaxFaults = 2
SPECIFICATION Spec
SYMMETRY Alike
INVARIANTS DepthMatches ViewIsWritten NothingUnpromised KeepsPromises
CHECK_DEADLOCK FALSE
