CONSTANTS
  ImageDefs <- Unnamed
  MaxResumes = 1
SPECIFICATION Spec
INVARIANTS ResumesFromAnyState
CHECK_DEADLOCK FALSE
