SPECIFICATION Spec
CONSTANTS
  ann = ann
  kid = kid
  bob = bob
  cay = cay
  s1 = s1
  s2 = s2
  early = early
  late = late
  NoOne = NoOne
  Session = {s1, s2}
  Person = {ann, bob}
  Token = {k1, k2}
  Slot = {early, late}
  Web = {w1}
  Worker = {x1}
  Anonymous = {ann, bob}
  Invites = {}
  Owner <- MCOwner
  Passes <- NoPasses
  Barred <- NobodyBarred
  Mode <- OfferMode
  SlotClash <- SameSlotClash
  Rank <- MCRank
  Members <- NoMembers
  PctOpen = 100
  PctRestricted = 0
  AllowAnonymous = {"open"}
  MaxLimit = 1
  MaxGuests = 0
  MaxWaitlist = 1
  InitLimits <- OneSeatEach
  InitSlots <- OneEach
  InitPhases <- AllFar
  Ticking = {}
  MaxEdits <- OneMoveAndBack
  MaxCrashes = 0
SYMMETRY Interchangeable
INVARIANTS
  TypeOK
PROPERTIES
  ClaimKeepsApart
CHECK_DEADLOCK FALSE
