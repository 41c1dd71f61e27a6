\* Every dependency among three plugins and two components; then two servers, one that signals,
\* two that await and two that add the same component.
CONSTANTS
  Wirings <- AllWirings
  HookLists <- Hooks
  Server = {s1, s2}
  Stopper = {x}
  Waiter = {w1, w2}
  Adder = {a1, a2}
SPECIFICATION FairSpec
INVARIANTS BuildsWhatCanBeBuilt AddedStays HooksRunLast
PROPERTIES ShutdownEnds
CHECK_DEADLOCK FALSE
