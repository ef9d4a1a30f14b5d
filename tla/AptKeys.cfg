CONSTANTS
  Configs <- LegacyKept
  TarballSuites <- MCTarballSuites
  MaxFailures = 0
SPECIFICATION Spec
INVARIANTS KeptPPAsAreSigned
CHECK_DEADLOCK FALSE
