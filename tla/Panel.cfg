SPECIFICATION Spec
CONSTANTS
  None = None
  Web = {w1, w2}
  ann = ann
  f1 = f1
  k1 = k1
  k2 = k2
  t1 = t1
  t2 = t2
  p1 = p1
  p2 = p2
  hall = hall
  cell = cell
  crew = crew
  larp = larp
  Facilitator = {f1, f2}
  Proposal = {s1}
  Organizer = {o1, o2}
  Profile <- MCProfile
  Mark = {important}
  MaxLog = 4
  Sheets <- MCSheets
  Recipes <- MCRecipes
  SessionId = {1, 2}
  FacilitatorId = {1, 2}
  MaxHand = 2
  MaxBeside = 1
  Number = {1, 2, 3}
  Space = {hall, cell}
  Host = {ann, crew}
  RunBy <- MCRunBy
  Collective = {crew}
  Limit <- MCLimit
  Capacity <- MCCapacity
  Prefers <- MCPrefers
  Track <- MCTrack
  DayLength = 3
  Days = 2
  Openings <- MCOpenings
  Places <- MCPlaces
  MaxMoves = 2
INVARIANTS
  NamesTheLiving
  MoveMarkedWhole
  PeopleKeptApart
  EveryClashToldOnce
  GridTellsTheDay
PROPERTIES
  ClaimsStand
  RerunChangesNothing
  HandEditsStay
SYMMETRY Symmetry
CHECK_DEADLOCK FALSE
