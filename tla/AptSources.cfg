CONSTANTS
  Configs <- MCConfigs
  TarballSuites <- MCTarballSuites
  MaxFailures = 2
SPECIFICATION Spec
INVARIANTS TypeOK TargetSuites BuildSuites OnlyTargetSources PPAsAsAsked InstallSeesEveryPPA
CHECK_DEADLOCK FALSE
