SPECIFICATION Spec
CONSTANTS
  Email = {a, b}
  Limits = {1}
  Cap = 1
  Admission = {v1}
  MaxMade = 2
  ann = ann
  bob = bob
  kid = kid
  x = x
  y = y
  Account = {ann, bob}
  Address = {x, y}
  None = None
  Claims <- MCClaims
  MaxWrites <- MCWrites
  Holder = {ann, bob}
  Companion = {kid}
  Identity = {x, y}
  Manager <- MCManager
  Leader = bob
  MaxToken = 2
  Placing = {s1}
  Window <- MCWindow
  MaxSlots = 2
  Dates <- MCDates
  Edits <- MCEdits
  Imported <- MCImported
  Session = {g, h}
  User = {1, 2, 3}
  Owner <- MCOwner
  Household = {{1}, {3}}
  Txn = {t1, t2}
  Web = {w1, w2}
INVARIANTS
  DatesHoldTheProgramme
  LimitKept
  NoStaleEntry
  SeatsNeverDeadlock
PROPERTIES
  SlotsApart
  PlacementOpensItsHours
  RemovedStaysOut
  AddressesAreProved
  OwnSay
SYMMETRY Symmetry
CHECK_DEADLOCK FALSE
