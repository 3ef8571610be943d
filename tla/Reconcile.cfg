CONSTANTS
  a = a  b = b  v1 = v1  v2 = v2  w = w
  i1 = i1  i2 = i2  i3 = i3  i4 = i4
  Kinds <- MCKinds
  Names = {a, b}
  Values = {v1, v2, w}
  Opaque <- MCOpaque
  Ids = {i1, i2, i3, i4}
  NoObject = NoObject
  Unset = Unset
  Sites <- MCSites
  Commands <- MCCommands
  RestoreOptions <- MCRestoreOptions
  MaxEdits = 1
  MaxFaults = 1
SPECIFICATION Spec
SYMMETRY MCSymmetry
INVARIANTS TypeOK WritesPassedGuards SafeDeletions BlastRadius PlanIsExact ExitStatusIsTrue
  SnapshotHoldsOverwritten UndoRestores
PROPERTIES ImplementsContract
