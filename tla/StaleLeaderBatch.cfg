SPECIFICATION Spec
CONSTANTS
  ann = ann
  kid = kid
  bob = bob
  cay = cay
  s1 = s1
  s2 = s2
  early = early
  late = late
  NoOne = NoOne
  Session = {s1}
  Person = {ann, bob}
  Token = {k1, k2}
  Slot = {early}
  Web = {w1, w2}
  Worker = {}
  Anonymous = {}
  Invites = {}
  Owner <- MCOwner
  Passes <- NoPasses
  Barred <- NobodyBarred
  Mode <- AutoMode
  SlotClash <- SameSlotClash
  Rank <- MCRank
  Members <- BobLeads
  PctOpen = 100
  PctRestricted = 0
  AllowAnonymous = {}
  MaxLimit = 1
  MaxGuests = 0
  MaxWaitlist = 1
  InitLimits <- OneSeatEach
  InitSlots <- AllEarly
  InitPhases <- AllFar
  Ticking = {}
  MaxEdits <- NoEdits
  MaxCrashes = 0
SYMMETRY Interchangeable
PROPERTIES
  MembersOwnTheirSeats
CHECK_DEADLOCK FALSE
