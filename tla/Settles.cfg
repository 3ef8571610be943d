CONSTANTS
  a = a  b = b  v1 = v1  v2 = v2  w = w
  i1 = i1  i2 = i2  i3 = i3  i4 = i4
  Kinds <- MCKinds
  Names = {a, b}
  Values = {v1, v2}
  Opaque = {}
  Ids = {i1, i2, i3, i4}
  NoObject = NoObject
  Unset = Unset
  Sites <- MCSites
  Commands <- MCLiveCommands
  RestoreOptions = {}
  MaxEdits = 1
  MaxFaults = 1
SPECIFICATION FairSpec
PROPERTIES EventuallySettled
