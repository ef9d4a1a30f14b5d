CONSTANTS
  prepare = prepare
  chroot = chroot
  pack = pack
  NoStep = NoStep
  Unknown = Unknown
  States <- MCStates
  Once <- MCOnce
  MaxRuns = 3
SPECIFICATION Spec
INVARIANT ResumeNotBlocked
CHECK_DEADLOCK FALSE
