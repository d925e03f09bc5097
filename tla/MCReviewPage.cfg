CONSTANTS
  Tabs = {a, b}
  Clicks <- SomeClicks
  MaxClicks = 3
  MaxDrafts = 2
  MaxCuts = 1
SPECIFICATION PageSpec
SYMMETRY SymTabs
INVARIANTS
  WorkflowShowsOutcome
  RevisionsBuildOnTheLatest
  RepeatsFollowCuts
CHECK_DEADLOCK FALSE
