\* Every wiring of an approval, a condition, a merge and an event wait, and of a split.
CONSTANTS
  Drafts <- WiredDrafts
  Ctx <- TwoCtx
SPECIFICATION Spec
INVARIANTS LintFollowsRuntime SplitConverges
PROPERTIES ValidNeverErrors
CHECK_DEADLOCK FALSE
