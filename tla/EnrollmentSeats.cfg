SPECIFICATION Spec
CONSTANTS
  ann = ann
  kid = kid
  bob = bob
  cay = cay
  s1 = s1
  s2 = s2
  early = early
  late = late
  NoOne = NoOne
  Session = {s1}
  Person = {ann, bob, cay}
  Token = {k1, k2, k3}
  Slot = {early}
  Web = {w1}
  Worker = {}
  Anonymous = {}
  Invites = {ann}
  Owner <- MCOwner
  Passes <- NoPasses
  Barred <- NobodyBarred
  Mode <- OfferMode
  SlotClash <- SameSlotClash
  Rank <- MCRank
  Members <- BobLeads
  PctOpen = 100
  PctRestricted = 100
  AllowAnonymous = {"restricted"}
  MaxLimit = 2
  MaxGuests = 1
  MaxWaitlist = 1
  InitLimits <- OneSeatEach
  InitSlots <- AllEarly
  InitPhases <- AllFar
  Ticking = {}
  MaxEdits <- OneLimitEdit
  MaxCrashes = 0
SYMMETRY Interchangeable
INVARIANTS
  OffersKeptApart
PROPERTIES
  NeverOversold
  DepartureRefills
CHECK_DEADLOCK FALSE
