\* Serial definitions, splits under every strategy, rework, a for_each.
CONSTANTS
  Defs <- AllDefs
  Ctx <- TwoCtx
  HardLimit = 3
  MaxActs = 12
  MaxCascade = 6
SPECIFICATION Spec
INVARIANTS NeverStranded CallbackAfterApproval JoinFiresOnce ReplayKeepsUp NothingLeftOpen
PROPERTIES DecidedOnce WaitAllIsWhole
CHECK_DEADLOCK FALSE
