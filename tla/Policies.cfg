CONSTANTS
  P = P  Q = Q  a = a  b = b  c = c  d1 = d1  x = x  y = y  w = w
  Pairs = {P, Q}
  Names = {a, b, c, d1}
  Confs = {x, y, w}
  Opaque = {w}
  NotCreatable = {w}
  Uids = {1, 2, 3, 4, 5, 6, 7, 8}
  NoOrder = NoOrder
  Consoles <- MCConsoles
  Documents <- MCDocuments
  MaxFaults = 1
SPECIFICATION FairSpec
INVARIANTS TypeOK PlanIsCarriedOut MovesAreCounted
PROPERTIES WritesAreSafe EventuallySettled
