-------------------------------- MODULE Panel --------------------------------
(***************************************************************************)
(* The organizers' panel: facilitators, the errata, imported proposals,    *)
(* and the timetable page.  As in Background the parts share no variable,  *)
(* and "part" says which of them a behaviour is of; the others start in    *)
(* one of their initial states.                                            *)
(***************************************************************************)
EXTENDS Naturals, FiniteSets

CONSTANTS
  Web, None,
  Facilitator, Proposal, Organizer, Profile,          \* Facilitators
  Mark, MaxLog,                                       \* Errata
  Sheets, Recipes, SessionId, FacilitatorId,          \* Import
  MaxHand, MaxBeside,
  Number, Space, Host, RunBy, Collective, Limit,      \* Grid
  Capacity, Prefers, Track, DayLength, Days, Openings, Places, MaxMoves

VARIABLES
  part,
  alive, dead, row, names, off, panelReq,
  log, since, marking, split,
  sheet, recipe, session, person, entry, run, hands, imported,
  slots, at, page, moves

F == INSTANCE Facilitators WITH Session <- Proposal, req <- panelReq
R == INSTANCE Errata
I == INSTANCE Import
G == INSTANCE Grid WITH Session <- Number, Facilitator <- Host

ASSUME PanelAssumption ==
  /\ F!FacilitatorsAssumption /\ R!ErrataAssumption /\ I!ImportAssumption
  /\ G!GridAssumption

facilitators == <<alive, dead, row, names, off, panelReq>>
errata == <<log, since, marking, split>>
import == <<sheet, recipe, session, person, entry, run, hands, imported>>
grid == <<slots, at, page, moves>>

vars == <<part, facilitators, errata, import, grid>>

-----------------------------------------------------------------------------
\* A step of one part leaves the others alone.
InFacilitators == part = "facilitators" /\ UNCHANGED <<part, errata, import, grid>>
InErrata == part = "errata" /\ UNCHANGED <<part, facilitators, import, grid>>
InImport == part = "import" /\ UNCHANGED <<part, facilitators, errata, grid>>
InGrid == part = "grid" /\ UNCHANGED <<part, facilitators, errata, import>>

Init ==
  /\ part \in {"facilitators", "errata", "import", "grid"}
  /\ F!Init /\ R!Init /\ I!Init /\ G!Init
  /\ part # "import" => /\ sheet = CHOOSE s \in Sheets : TRUE
                        /\ recipe = CHOOSE r \in Recipes : TRUE
  /\ part # "grid" => slots = CHOOSE o \in Openings : TRUE

Next ==
  \/ InFacilitators /\ F!Next
  \/ InErrata /\ R!Next
  \/ InImport /\ I!Next
  \/ InGrid /\ G!Next

Spec == Init /\ [][Next]_vars

-----------------------------------------------------------------------------
\* No session names a facilitator who is not there
\* (repositories/facilitators.py).
NamesTheLiving == F!NamesTheLiving

\* An organizer's claim on a facilitator ends by release, by merge, or under an
\* edit that read the row before it (mills/panel_facilitators.py).
ClaimsStand == F!ClaimsStand

\* The two rows of a move carry the same marks (mills/errata.py).
MoveMarkedWhole == R!MoveMarkedWhole

\* A run of all rows after another changes nothing (mills/submissions/engine.py).
RerunChangesNothing == I!RerunChangesNothing

\* What an organizer wrote outlives every import of its row
\* (mills/submissions/engine.py).
HandEditsStay == I!HandEditsStay

\* Nobody is taken for somebody else by an import (mills/submissions/engine.py).
PeopleKeptApart == I!PeopleKeptApart

\* Every clash is told once, and none there is not (mills/timetable.py).
EveryClashToldOnce == G!EveryClashToldOnce

\* The page shows the day as it is (mills/timetable.py).
GridTellsTheDay == G!GridTellsTheDay
=============================================================================
