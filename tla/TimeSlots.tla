------------------------------ MODULE TimeSlots ------------------------------
(***************************************************************************)
(* The hours of an event: its dates, the time slots proposals pick from,   *)
(* and the placements that stretch both.  Slots are saved from the panel,  *)
(* and dropping a session past the day's hours widens the slots around it. *)
(*                                                                         *)
(* Whatever saves slots reads them first and locks only the event's row,   *)
(* later, to widen its dates: so each is two steps, and the second writes  *)
(* by slots that may have changed.                                         *)
(***************************************************************************)
EXTENDS Integers, FiniteSets, FiniteSetsExt, TLC

CONSTANTS
  Session, Web, None,
  Window,      \* bound: pairs of hours
  MaxSlots,    \* bound: slots ever made
  Dates,       \* the event's dates at first
  Edits,       \* bound: the dates an organizer may set instead
  Imported     \* bound: the slots a recipe may name

Slot == 1 .. MaxSlots
Idle == [busy |-> FALSE]

TimeSlotsAssumption ==
  /\ MaxSlots \in Nat /\ None \notin Nat \X Nat
  /\ Window \subseteq Nat \X Nat /\ \A w \in Window : w[1] < w[2]
  /\ Imported \subseteq Window
  /\ Edits \cup {Dates} \subseteq [publication : Nat, start : Nat, end : Nat]
  /\ \A d \in Edits \cup {Dates} : d.publication <= d.start /\ d.start < d.end

VARIABLES
  dates,    \* publication, start and end of the event; publication 0, before
            \* every hour, stands for an event that has none
  loose,    \* the organizer has set them since, or an import has made a slot
            \* outside them
  slots,    \* the window of each slot, or None
  made,     \* slots made so far
  at,       \* when each session is placed, or None
  undo,     \* where undoing its last change would put each session back, or None
  req       \* what each request in flight has read

vars == <<dates, loose, slots, made, at, undo, req>>

Init ==
  /\ dates = Dates /\ loose = FALSE
  /\ slots = [k \in Slot |-> None] /\ made = 0
  /\ at = [s \in Session |-> None] /\ undo = at
  /\ req = [r \in Web |-> Idle]

-----------------------------------------------------------------------------
Overlap(v, w) == v[1] < w[2] /\ w[1] < v[2]
HoursOf(w) == w[1] .. w[2] - 1
Live(f) == {k \in Slot : f[k] # None}
Open(f) == UNION {HoursOf(f[k]) : k \in Live(f)}

\* One of the merged ranges of the slots holds the window: slots that touch
\* merge, so that is when all of its hours are open.
Fits(w, f) == HoursOf(w) \subseteq Open(f)

\* Mutant: only another slot inside the window is looked for.
ClashesWithin(k, w, f) == \E j \in Live(f) \ {k} : HoursOf(f[j]) \subseteq HoursOf(w)

\* Another slot overlaps the window (_validate_time_slot).
Clashes(k, w, f) == \E j \in Live(f) \ {k} : Overlap(f[j], w)

\* Mutant: only one end is moved at a time.
WidenOneEnd(w) ==
  /\ w[1] < dates.start => dates.publication <= w[1]
  /\ dates' = IF w[1] < dates.start THEN [dates EXCEPT !.start = w[1]]
              ELSE [dates EXCEPT !.end = Max({@, w[2]})]

\* widen_event_dates, under the lock of the event's row; a start before the
\* publication refuses the request.
Widen(w) ==
  /\ w[1] < dates.start => dates.publication <= w[1]
  /\ dates' = [dates EXCEPT !.start = Min({@, w[1]}), !.end = Max({@, w[2]})]

Seen(r) == req[r].slots
Stale(r) == Seen(r) # slots

Busy == {r \in Web : req[r].busy}
Dropping == {r \in Busy : req[r].locked # None}
Locked(s) == \E q \in Dropping : req[q].locked = s

Done(r) == req' = [req EXCEPT ![r] = Idle]

\* A request reads the slots; a placement has its session's row locked then.
\* Which slot and which window it is about is left open until it writes.
Read(r, s) ==
  /\ s # None => ~Locked(s)
  /\ req' = [req EXCEPT ![r] =
       [busy |-> TRUE, locked |-> s, slots |-> slots]]
  /\ UNCHANGED <<dates, loose, slots, made, at, undo>>

\* A request without its row, with two slots of the same times, or with a
\* start before the publication, or one that is cut off, rolls back.
Abort(r) ==
  /\ Done(r) /\ UNCHANGED <<dates, loose, slots, made, at, undo>>

-----------------------------------------------------------------------------
\* PanelTimeSlotsService.create (k = 0) and update.
SaveSlot(r, k, w) ==
  LET row == IF k = 0 THEN made + 1 ELSE k IN
  /\ Done(r)
  /\ k = 0 \/ k \in Live(Seen(r)) \cap Live(slots)
  /\ ~Clashes(k, w, Seen(r))
  /\ Widen(w)
  /\ row \in Slot
  /\ \A j \in Live(slots) \ {row} : slots[j] # w
  /\ slots' = [slots EXCEPT ![row] = w]
  /\ made' = Max({made, row})
  /\ UNCHANGED <<loose, at, undo>>

\* PanelTimeSlotsService.delete, of a slot no proposal asks for: which ones
\* do is left open.
DeleteSlot(r, k) ==
  /\ Done(r)
  /\ k \in Live(slots)
  /\ slots' = [slots EXCEPT ![k] = None]
  /\ UNCHANGED <<dates, loose, made, at, undo>>

\* TimeSlotRepository.get_or_create, for a row of an import: the slot the recipe
\* says, whatever it overlaps and whatever the event's dates are.
ImportSlot(w) ==
  /\ made + 1 \in Slot
  /\ \A j \in Live(slots) : slots[j] # w
  /\ slots' = [slots EXCEPT ![made + 1] = w]
  /\ made' = made + 1
  /\ loose' = (loose \/ w[1] < dates.start \/ dates.end < w[2])
  /\ UNCHANGED <<dates, at, undo, req>>

-----------------------------------------------------------------------------
\* The slots a placement overlaps or touches.
Touched(w, f) == {k \in Live(f) : f[k][1] <= w[2] /\ f[k][2] >= w[1]}

Before(j, k, f) == f[j][1] < f[k][1] \/ (f[j][1] = f[k][1] /\ j < k)

\* Mutant: the last one is stretched only.
StretchedLast(k, w, f) ==
  IF \E j \in Touched(w, f) : Before(k, j, f) THEN f[k]
  ELSE <<f[k][1], Max({f[k][2], w[2]})>>

\* The first touched slot is stretched back to the placement's start, the
\* last out to its end, and the ones between close their gaps.
Stretched(k, w, f) ==
  LET later == {j \in Touched(w, f) : Before(k, j, f)}
      reach == IF later = {} THEN w[2] ELSE Min({f[j][1] : j \in later})
      first == \A j \in Touched(w, f) : ~Before(j, k, f)
  IN <<IF first THEN Min({f[k][1], w[1]}) ELSE f[k][1], Max({f[k][2], reach})>>

\* The slots to be written, as _widen_time_slots_around saw them.
Changed(w, f) == {k \in Touched(w, f) : Stretched(k, w, f) # f[k]}

\* TimetableService.assign_session with the session's row locked.
Place(r, w) ==
  LET seen == Seen(r)
      fits == Fits(w, seen)
      alone == Touched(w, seen) = {}
      changed == IF fits THEN {} ELSE Changed(w, seen)
  IN
  /\ changed \subseteq Live(slots)
  /\ IF fits THEN UNCHANGED dates ELSE Widen(w)
  /\ made' = IF ~fits /\ alone THEN made + 1 ELSE made
  /\ made' \in 0 .. MaxSlots
  /\ slots' = [k \in Slot |->
       IF k \in changed THEN Stretched(k, w, seen)
       ELSE IF k = made' /\ made' # made THEN w ELSE slots[k]]
  /\ \A j, k \in Live(slots') : slots'[j] = slots'[k] => j = k
  /\ at' = [at EXCEPT ![req[r].locked] = w]
  /\ undo' = [undo EXCEPT ![req[r].locked] = None]
  /\ Done(r)
  /\ UNCHANGED loose

\* unassign_session, which can be undone, or revert_change of an assignment,
\* which cannot.
Unplace(s) ==
  /\ at[s] # None /\ ~Locked(s)
  /\ at' = [at EXCEPT ![s] = None]
  /\ \E w \in {at[s], None} : undo' = [undo EXCEPT ![s] = w]
  /\ UNCHANGED <<dates, loose, slots, made, req>>

\* revert_change of an unassign_session: back where it was, whatever the slots
\* and the dates are by now, and nothing is widened.  Whether the session is
\* still accepted is left open.
Revert(s) ==
  /\ undo[s] # None /\ at[s] = None /\ ~Locked(s)
  /\ at' = [at EXCEPT ![s] = undo[s]]
  /\ undo' = [undo EXCEPT ![s] = None]
  /\ UNCHANGED <<dates, loose, slots, made, req>>

\* accept_session: at the times of a slot it read, and nothing is widened.  An
\* UNASSIGN stays the last row of the log, and fails while the session is placed.
Accept(r, s, k) ==
  /\ Done(r)
  /\ at[s] = None
  /\ at' = [at EXCEPT ![s] = Seen(r)[k]]
  /\ undo' = [undo EXCEPT ![s] = None]
  /\ UNCHANGED <<dates, loose, slots, made>>

\* A new duration moves the end of a placement, and widens nothing.
Resize(s, w) ==
  /\ at[s] # None /\ ~Locked(s) /\ at[s][1] = w[1] /\ at[s] # w
  /\ at' = [at EXCEPT ![s] = w]
  /\ UNCHANGED <<dates, loose, slots, made, undo, req>>

\* EventSettingsService.update_general: any dates that are in order, whatever
\* is placed outside them.
EditDates(d) ==
  /\ d # dates
  /\ dates' = d /\ loose' = TRUE
  /\ UNCHANGED <<slots, made, at, undo, req>>

-----------------------------------------------------------------------------
Next ==
  \/ \E r \in Web \ Busy, s \in Session \cup {None} : Read(r, s)
  \/ \E r \in Busy : Abort(r)
  \/ \E r \in Busy \ Dropping :
       \/ \E k \in Slot \cup {0}, w \in Window : SaveSlot(r, k, w)
       \/ \E k \in Live(Seen(r)) : DeleteSlot(r, k)
       \/ \E s \in Session, k \in Live(Seen(r)) : Accept(r, s, k)
  \/ \E r \in Dropping, w \in Window : Place(r, w)
  \/ \E s \in Session :
       \/ Unplace(s)
       \/ Revert(s)
       \/ \E w \in Window : Resize(s, w)
  \/ \E d \in Edits : EditDates(d)
  \/ \E w \in Imported : ImportSlot(w)

Spec == Init /\ [][Next]_vars

-----------------------------------------------------------------------------
\* Two slots of an event come to overlap only by an import, or when a request
\* saves what it decided before the other was saved ("two concurrent requests
\* can both read the same slots"); widening them for a placement never does it.
SlotsApart ==
  [][slots' # slots => \A j, k \in Slot :
       LET apart(f) == {j, k} \subseteq Live(f) => j = k \/ ~Overlap(f[j], f[k]) IN
       apart(slots) /\ ~apart(slots') =>
         \/ req' = req
         \/ \E r \in Busy : req'[r] = Idle /\ Stale(r)]_vars

\* As long as the organizer has not set them otherwise, and no import has made
\* a slot outside them, the event's dates hold its slots and the start of
\* everything on its timetable, whoever widens them at the same time.
DatesHoldTheProgramme ==
  ~loose =>
    /\ \A k \in Live(slots) :
         dates.start <= slots[k][1] /\ slots[k][2] <= dates.end
    /\ \A s \in Session :
         at[s] # None => at[s][1] \in dates.start .. dates.end - 1

\* A placement opens its own hours and no others, and no slot loses any: a
\* drop away from every slot opens its own window "instead of dragging the
\* nearest one (and those picks) across the gap".  Slots that changed since
\* they were read are the exception.
PlacementOpensItsHours ==
  [][at' # at => \A r \in Dropping :
       req'[r] = Idle /\ ~Stale(r) =>
         /\ Open(slots') = Open(slots) \cup HoursOf(at'[req[r].locked])
         /\ \A k \in Live(slots) : HoursOf(slots[k]) \subseteq HoursOf(slots'[k])
    ]_vars
=============================================================================
