CONSTANTS
  Builds <- TwoSessions
  PackagesMounts <- MCPackagesMounts
  PreseedMounts <- MCPreseedMounts
  OtherMounts <- MCOtherMounts
  Diversions <- MCDiversions
  Originals <- DanglingLink
  Faults = {}
  MaxFaults = 0
SPECIFICATION Spec
INVARIANTS ImageHasItsResolvConf
CHECK_DEADLOCK FALSE
