CONSTANTS
  n1 = n1  n2 = n2  n3 = n3  A = A  B = B  C = C  c1 = c1  c2 = c2
  Nets = {n1, n2, n3}
  Zones = {A, B, C}
  Confs = {c1, c2}
  Builtin = {n1, A}
  Fixed = {A}
  NoZone = NoZone
  Absent = Absent
  Consoles <- MCConsoles
  Documents <- MCDocuments
  MaxFaults = 1
SPECIFICATION FairSpec
INVARIANTS TypeOK PlanIsCarriedOut MovesAreCounted
PROPERTIES NoNetworkIsStranded EventuallySettled
