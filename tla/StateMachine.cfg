CONSTANTS
  prepare = prepare
  chroot = chroot
  pack = pack
  NoStep = NoStep
  Unknown = Unknown
  States <- MCStates
  Once <- MCOnce
  MaxRuns = 3
SPECIFICATION FairSpec
INVARIANTS TypeOK CheckpointSound CheckpointComplete InOrder RunsWhatIsShown StopsWhereAsked TempDirRemoved
PROPERTIES WorkDirKept DryRunPure ImplementsProgress Terminates
CHECK_DEADLOCK FALSE
