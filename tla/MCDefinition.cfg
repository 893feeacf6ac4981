SPECIFICATION SchedulerSpec
CONSTANTS
  Current <- Running
  Definitions <- AllDefinitions
  Conditions <- Comparisons
  Levels <- LevelsOfThree
INVARIANTS
  ValidatedIsFound
  VersionsAreOrdered
  BranchesAreOpposite
  CriticalPathFirst
CHECK_DEADLOCK FALSE
