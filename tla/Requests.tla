------------------------------ MODULE Requests ------------------------------
(***************************************************************************)
(* What requests do to each other where no scheduler is about: encounters, *)
(* the addresses of accounts, parties and companions, the hours of an      *)
(* event, and the order of row locks.  As in Background the parts share no *)
(* variable, and "part" says which of them a behaviour is of.              *)
(***************************************************************************)
EXTENDS Naturals, Sequences, FiniteSets

CONSTANTS
  Email, Limits, Cap, Admission, MaxMade,             \* Encounters
  Account, Address, Claims, MaxWrites,                \* Accounts
  Holder, Companion, Identity, Manager, Leader, MaxToken,  \* Parties
  Placing, Window, MaxSlots, Dates, Edits, Imported, \* TimeSlots
  Session, User, Owner, Household, Txn,               \* RowLocks
  Web, None

VARIABLES
  part,
  up, made, limit, most, account, rsvp, invite, counted, entry, missed, join,
  save,
  email, verified, pending, reserved, links, req, writes, proved, cancelled,
  crossed,
  formed, kept, login, known, member, link, claim, issued, partyReq, agreed,
  asked, granted,
  dates, loose, slots, created, at, undo, hourReq,
  waits, txn, step, todo, held

E == INSTANCE Encounters WITH Web <- Admission
C == INSTANCE Accounts WITH User <- Account
P == INSTANCE Parties
       WITH Account <- Holder, up <- formed, alive <- kept, req <- partyReq
T == INSTANCE TimeSlots WITH Session <- Placing, made <- created, req <- hourReq
K == INSTANCE RowLocks

ASSUME RequestsAssumption ==
  /\ E!EncountersAssumption /\ C!AccountsAssumption /\ P!PartiesAssumption
  /\ T!TimeSlotsAssumption /\ K!RowLocksAssumption

encounters == <<up, made, limit, most, account, rsvp, invite, counted, entry,
                missed, join, save>>
accounts == <<email, verified, pending, reserved, links, req, writes, proved,
              cancelled, crossed>>
parties == <<formed, kept, login, known, member, link, claim, issued, partyReq,
             agreed, asked, granted>>
hours == <<dates, loose, slots, created, at, undo, hourReq>>
locks == <<waits, txn, step, todo, held>>

vars == <<part, encounters, accounts, parties, hours, locks>>

-----------------------------------------------------------------------------
\* A step of one part leaves the others alone.
InEncounters == part = "encounters" /\ UNCHANGED <<part, accounts, parties, hours, locks>>
InAccounts == part = "accounts" /\ UNCHANGED <<part, encounters, parties, hours, locks>>
InParties == part = "parties" /\ UNCHANGED <<part, encounters, accounts, hours, locks>>
InHours == part = "hours" /\ UNCHANGED <<part, encounters, accounts, parties, locks>>
InLocks == part = "locks" /\ UNCHANGED <<part, encounters, accounts, parties, hours>>

Init ==
  /\ part \in {"encounters", "accounts", "parties", "hours", "locks"}
  /\ E!Init /\ C!Init /\ P!Init /\ T!Init /\ K!Init

Next ==
  \/ InEncounters /\ E!Next
  \/ InAccounts /\ C!Next
  \/ InParties /\ P!Next
  \/ InHours /\ T!Next
  \/ InLocks /\ K!Next

Spec == Init /\ [][Next]_vars

-----------------------------------------------------------------------------
\* Only admissions that overlap pass an encounter's limit
\* (mills/encounter_calendar.py).
LimitKept == E!LimitKept

\* Whoever was removed comes back by a new invitation only
\* (mills/encounter_replies.py).
RemovedStaysOut == E!RemovedStaysOut

\* Nobody keeps a calendar entry of an encounter they are no guest of
\* (mills/encounter_calendar.py).
NoStaleEntry == E!NoStaleEntry

\* A verified address was proved by its account, and a cancelled change of
\* address stays cancelled (mills/crowd.py).
AddressesAreProved == C!AddressesAreProved

\* Nobody with a login is in a party without their own say (mills/party.py),
\* and a companion who was claimed is their own for good
\* (links/db/django/crowd.py).
OwnSay == P!OwnSay

\* Slots overlap only when saved by requests that crossed
\* (mills/panel_time_slots.py).
SlotsApart == T!SlotsApart

\* The event's dates hold its slots and its timetable (mills/event.py).
DatesHoldTheProgramme == T!DatesHoldTheProgramme

\* A placement opens its own hours and no others (mills/timetable.py).
PlacementOpensItsHours == T!PlacementOpensItsHours

\* The seat lock order cannot deadlock (docs/agents/architecture.md).
SeatsNeverDeadlock == K!SeatsNeverDeadlock
=============================================================================
