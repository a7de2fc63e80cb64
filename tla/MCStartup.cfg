SPECIFICATION StartupSpec
CONSTANTS
  Row = {"r1", "r2"}
  Plugin <- SomePlugin
  Loaded <- SomeLoaded
  RuleSets <- SomeRules
  LoopLimit = 100
  MaxLate = 1
  Remote <- SomeRemote
  DirOrder <- SomeDir
  ReadOnly = {"sysconf"}
  Slot <- SomeSlot
  Value = {1, 2}
  Content <- SomeContent
  MaxRounds = 4
INVARIANTS
  LoadedIsComplete
  RowsKept
  FailsIffCircular
  RulesMet
  NoConflictLeft
  ListIsFresh
  OrderMet
CHECK_DEADLOCK FALSE
