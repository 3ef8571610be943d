SPECIFICATION Spec
CONSTANTS
  timer = timer
  manual = manual
  Runs = {timer, manual}
  Keep = 1
  MaxTime = 4
  MaxBack = 1
  MaxCrashes = 1
SYMMETRY RunSymmetry
INVARIANTS TypeOK SnapshotsAreWhole
PROPERTIES RotationCatchesUp SteadyWritesHaveSnapshot
