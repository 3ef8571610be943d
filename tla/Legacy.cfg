CONSTANTS
  nas = nas  tv = tv  ip1 = ip1  ip2 = ip2  lan = lan  iot = iot
  label = label  all = all  custom = custom
  Macs = {nas, tv}
  IPs = {ip1, ip2}
  Nets = {lan, iot}
  Builtin = {lan}
  Labels = {label}
  Scopes = {all, custom}
  Unreadable = Unreadable
  None = None
  Gone = Gone
  Sites <- MCSites
  Commands <- MCCommands
  MaxTroubles = 1
SPECIFICATION FairSpec
INVARIANTS TypeOK PlanIsCarriedOut AddressesEndUnique UndoRestores
PROPERTIES ScopeFirst ClearsAreApproved EventuallySettled
