CONSTANTS
  Builds <- MCBuilds
  PackagesMounts <- MCPackagesMounts
  PreseedMounts <- MCPreseedMounts
  OtherMounts <- MCOtherMounts
  Diversions <- MCDiversions
  Originals <- RegularFile
  Faults = {"copy", "mount", "divert", "command", "undivert", "umount", "kill"}
  MaxFaults = 2
SPECIFICATION Spec
INVARIANTS TypeOK ImageHasItsResolvConf
PROPERTIES  SuccessLeavesNoFake RemovedWhenUnmounted
CHECK_DEADLOCK FALSE
