SPECIFICATION Spec
CONSTANTS
  ann = ann
  kid = kid
  bob = bob
  cay = cay
  s1 = s1
  s2 = s2
  early = early
  late = late
  NoOne = NoOne
  Session = {s1, s2}
  Person = {ann, bob}
  Token = {k1, k2}
  Slot = {early, late}
  Web = {w1, w2}
  Worker = {}
  Anonymous = {}
  Invites = {}
  Owner <- MCOwner
  Passes <- NoPasses
  Barred <- NobodyBarred
  Mode <- OfferMode
  SlotClash <- SameSlotClash
  Rank <- MCRank
  Members <- NoMembers
  PctOpen = 100
  PctRestricted = 0
  AllowAnonymous = {}
  MaxLimit = 1
  MaxGuests = 0
  MaxWaitlist = 2
  InitLimits <- OneSeatEach
  InitSlots <- AllEarly
  InitPhases <- AllFar
  Ticking = {}
  MaxEdits <- NoEdits
  MaxCrashes = 1
SYMMETRY Interchangeable
INVARIANTS
  NoDoubleBooking
  DecisionsStayRight
PROPERTIES
  ImplementsLedger
CHECK_DEADLOCK FALSE
