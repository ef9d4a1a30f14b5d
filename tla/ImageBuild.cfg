CONSTANTS
  ImageDefs <- MCImageDefs
  MaxResumes = 2
SPECIFICATION Spec
INVARIANTS TypeOK EveryStateFindsItsInputs RequestedIsBuilt ImageIsClean SourcesListInPlace EachStateOnce
PROPERTIES CopyIsFinal
CHECK_DEADLOCK FALSE
