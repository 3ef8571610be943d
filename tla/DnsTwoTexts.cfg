CONSTANTS
  d1 = d1  d2 = d2  apex = apex  www = www  pre = pre  x = x  y = y
  Domains = {d1, d2}
  Names = {apex, www, pre}
  PreviewNames = {pre}
  Contents = {x, y}
  TTLs = {1, 2}
  Ids = {1, 2, 3, 4, 5, 6, 7}
  InitialZones <- MCTexts
  Inputs <- MCTextInputs
  Prunes = {TRUE}
  DryRuns = {FALSE}
  MaxFaults = 0
  MaxOutside = 0
SPECIFICATION Spec
INVARIANTS FinishedIsConverged
