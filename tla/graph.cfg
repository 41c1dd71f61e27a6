\* Three runs, one input, one delete.
CONSTANTS
  Run = {r1, r2, r3}
  Feed = {f}
  Delete = {d}
  Child = {k1, k2}
  Graphs <- MCGraphs
  MaxBegun = 3
SPECIFICATION Spec
SYMMETRY Requests
INVARIANTS StoredIsOneLine AckedStays
CHECK_DEADLOCK FALSE
