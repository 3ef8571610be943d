CONSTANTS
  w = w  x = x  y = y  z = z  n = n
  Ids = {w, x, y, z, n}
  Lists <- MCLists
  PageLimit = 3
  ServerCap = 2
  MaxChanges = 3
SPECIFICATION FairSpec
INVARIANTS TypeOK QuietReadIsExact ErrorsAreBounded
PROPERTIES EventuallyReturns
