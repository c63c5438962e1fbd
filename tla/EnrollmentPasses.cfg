SPECIFICATION Spec
CONSTANTS
  ann = ann
  kid = kid
  bob = bob
  cay = cay
  s1 = s1
  s2 = s2
  early = early
  late = late
  NoOne = NoOne
  Session = {s1, s2}
  Person = {ann, kid}
  Token = {k1, k2}
  Slot = {early, late}
  Web = {w1, w2}
  Worker = {}
  Anonymous = {}
  Invites = {}
  Owner <- MCOwner
  Passes <- AnnHasPasses
  Barred <- NobodyBarred
  Mode <- OfferMode
  SlotClash <- SameSlotClash
  Rank <- MCRank
  Members <- NoMembers
  PctOpen = 0
  PctRestricted = 100
  AllowAnonymous = {}
  MaxLimit = 1
  MaxGuests = 0
  MaxWaitlist = 2
  InitLimits <- OneSeatEach
  InitSlots <- OneEach
  InitPhases <- AllFar
  Ticking = {}
  MaxEdits <- NoEdits
  MaxCrashes = 0
SYMMETRY Interchangeable
INVARIANTS
  PassesRespected
CHECK_DEADLOCK FALSE
