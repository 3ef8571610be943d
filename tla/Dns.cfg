CONSTANTS
  d1 = d1  d2 = d2  apex = apex  www = www  pre = pre  x = x  y = y
  Domains = {d1, d2}
  Names = {apex, www, pre}
  PreviewNames = {pre}
  Contents = {x, y}
  TTLs = {1, 2}
  Ids = {1, 2, 3, 4, 5, 6, 7}
  InitialZones <- MCZones
  Inputs <- MCInputs
  Prunes = {TRUE, FALSE}
  DryRuns = {TRUE, FALSE}
  MaxFaults = 1
  MaxOutside = 1
SPECIFICATION FairSpec
INVARIANTS TypeOK KeepsAnswering PlanIsCarriedOut
PROPERTIES DeletesAreSafe EventuallyConverged
