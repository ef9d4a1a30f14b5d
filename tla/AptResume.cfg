CONSTANTS
  Configs <- LegacyProposed
  TarballSuites <- MCTarballSuites
  MaxFailures = 1
SPECIFICATION Spec
INVARIANTS NotUsedToBuild
CHECK_DEADLOCK FALSE
