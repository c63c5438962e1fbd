SPECIFICATION Spec
CONSTANTS
  None = None
  Session = {s1, s2}
  Space = {hall}
  Window <- MCWindow
  Web = {w1, w2}
  AutoConfirm = TRUE
  Verdict = {"ACCEPTED", "PENDING"}
  Bounds <- MCBounds
  MaxItems = 2
INVARIANTS
  PlacedIsAccepted
  AcceptedApart
  AcceptanceTold
PROPERTIES
  LogTellsTheTimetable
  FlagsPartByRaceOnly
SYMMETRY Symmetry
CHECK_DEADLOCK FALSE
