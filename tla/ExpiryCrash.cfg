SPECIFICATION FairSpec
CONSTANTS
  ann = ann
  kid = kid
  bob = bob
  cay = cay
  s1 = s1
  s2 = s2
  early = early
  late = late
  NoOne = NoOne
  Session = {s1}
  Person = {ann, bob}
  Token = {k1, k2}
  Slot = {early}
  Web = {w1}
  Worker = {x1}
  Anonymous = {ann, bob}
  Invites = {}
  Owner <- MCOwner
  Passes <- NoPasses
  Barred <- NobodyBarred
  Mode <- OfferMode
  SlotClash <- SameSlotClash
  Rank <- MCRank
  Members <- NoMembers
  PctOpen = 100
  PctRestricted = 0
  AllowAnonymous = {"open"}
  MaxLimit = 2
  MaxGuests = 0
  MaxWaitlist = 1
  InitLimits <- OneSeatEach
  InitSlots <- AllEarly
  InitPhases <- AllFar
  Ticking = {}
  MaxEdits <- NoEdits
  MaxCrashes = 1
PROPERTIES
  NoIdleSeat
CHECK_DEADLOCK FALSE
