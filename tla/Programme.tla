----------------------------- MODULE Programme -----------------------------
(***************************************************************************)
(* The programme of an event: proposals are accepted or turned down, put   *)
(* on the timetable, moved, taken off, undone, confirmed, deleted and      *)
(* restored, and every change of the timetable is logged and announced.    *)
(*                                                                         *)
(* A handler that locks the Session row first is one step.  Three do not   *)
(* and are several, each reading what the others have committed by then:   *)
(*   accept   reads the proposal, then the room, then writes;              *)
(*   confirm  reads the agenda item, then writes both flags;               *)
(*   bulk     a facilitator's confirmations: the statement over the agenda *)
(*            items, which holds their rows, then the one over sessions.   *)
(* Their first write takes the row lock, so what follows it is one step.   *)
(***************************************************************************)
EXTENDS Naturals, Sequences, FiniteSets

CONSTANTS
  Session,        \* the proposals
  Space,          \* the rooms
  Window,         \* the stretches of time a session may get: <<start, end>>
  Web,            \* requests in flight of the handlers without a lock
  AutoConfirm,    \* auto_confirm_sessions of the event
  None,
  Verdict,        \* the statuses an organizer sets here
  Bounds,         \* bounds of a behaviour: what each request may be about,
                  \* and the rows of the change log, for each session
  MaxItems        \* bound: agenda items ever made

Status == {"PENDING", "ACCEPTED", "ON_HOLD", "REJECTED"}
Place == [space : Space, window : Window]
AgendaItem ==
  [pk : Nat, place : Place, ok : BOOLEAN, by : {"accept", "panel", "resized"},
   saw : SUBSET Nat]
Idle == [op |-> "idle"]

ASSUME ProgrammeAssumption ==
  /\ Window \subseteq {w \in Nat \X Nat : w[1] < w[2]}
  /\ AutoConfirm \in BOOLEAN /\ Verdict \subseteq Status
  /\ None \notin Place /\ None \notin Nat /\ None \notin AgendaItem
  /\ None \notin Space \X Nat
  /\ Bounds \subseteq
       [asks : [Web -> SUBSET ({"accept", "confirm", "bulk"} \X Session)],
        rows : [Session -> Nat]]
  /\ MaxItems \in Nat

VARIABLES
  alive,       \* the sessions that are not soft-deleted
  status,
  confirmed,   \* schedule_confirmed of the session
  item,        \* its agenda item, or None
  items,       \* agenda items made so far: the next one's pk
  log,         \* ScheduleChangeLog; a row's pk is its place
  told,        \* the sessions whose people were told of an acceptance
  ghost,       \* the sessions an accept placed after their deletion
  req,         \* what each request in flight has read
  bound        \* which of the bounds this behaviour has

vars == <<alive, status, confirmed, item, items, log, told, ghost, req, bound>>

Init ==
  /\ alive = Session
  /\ status = [s \in Session |-> "PENDING"]
  /\ confirmed = [s \in Session |-> FALSE]
  /\ item = [s \in Session |-> None]
  /\ items = 0
  /\ log = <<>>
  /\ told = {}
  /\ ghost = {}
  /\ req = [r \in Web |-> Idle]
  /\ bound \in Bounds

-----------------------------------------------------------------------------
Placed(s) == item[s] # None
PlaceOf(it) == IF it = None THEN None ELSE it.place

Overlap(p, q) ==
  /\ p.space = q.space
  /\ p.window[1] < q.window[2] /\ q.window[1] < p.window[2]

\* A new agenda item; "saw" holds the items an accept knew of.
Item(p, ok, by, saw) ==
  [pk |-> items, place |-> p, ok |-> ok, by |-> by, saw |-> saw]

NewItem(s, p, ok, by, saw) ==
  /\ items < MaxItems
  /\ item' = [item EXCEPT ![s] = Item(p, ok, by, saw)]
  /\ items' = items + 1

Row(s, action, old, new, from) ==
  [session |-> s, action |-> action, old |-> old, new |-> new, from |-> from]

RowsOf(s) == {i \in 1 .. Len(log) : log[i].session = s}

Record(s, rows) ==
  /\ Cardinality(RowsOf(s)) + Len(rows) <= bound.rows[s]
  /\ log' = log \o rows

\* The agenda items a bulk confirmation has written and not committed: nobody
\* else can write these rows.
Held == UNION {req[r].pks : r \in {q \in Web : req[q].op = "bulk"}}
Free(s) == Placed(s) => item[s].pk \notin Held

\* select_for_update of the session: NotFound once it is deleted.
Locked(s) == s \in alive

\* Mutant: any row may be undone, not only the session's latest.
AnyRow(i) == TRUE

\* latest_pk_for_session
Latest(i) == \A j \in i + 1 .. Len(log) : log[j].session # log[i].session

-----------------------------------------------------------------------------
\* Mutant: a placed session may be turned down.
SetAnyStatus(s, to) ==
  /\ Locked(s)
  /\ status' = [status EXCEPT ![s] = to]
  /\ told' = IF to = "ACCEPTED" /\ status[s] # "ACCEPTED"
               THEN told \cup {s} ELSE told
  /\ UNCHANGED <<alive, confirmed, item, items, log, ghost, req>>

\* Mutant: the status is compared after it was written.
SetStatusUntold(s, to) ==
  /\ Locked(s)
  /\ to # "ACCEPTED" => ~Placed(s)
  /\ status' = [status EXCEPT ![s] = to]
  /\ UNCHANGED <<alive, confirmed, item, items, log, told, ghost, req>>

\* ProposalStatusService._set_status
SetStatus(s, to) ==
  /\ Locked(s)
  /\ to # "ACCEPTED" => ~Placed(s)
  /\ status' = [status EXCEPT ![s] = to]
  /\ told' = IF to = "ACCEPTED" /\ status[s] # "ACCEPTED"
               THEN told \cup {s} ELSE told
  /\ UNCHANGED <<alive, confirmed, item, items, log, ghost, req>>

\* ProposalAcceptanceService.accept_session, before its transaction.
AcceptRead(r, s, p) ==
  /\ req[r] = Idle /\ <<"accept", s>> \in bound.asks[r]
  /\ s \in alive
  /\ req' = [req EXCEPT ![r] =
       [op |-> "accept", s |-> s, place |-> p, was |-> status[s],
        checked |-> FALSE, saw |-> {}]]
  /\ UNCHANGED <<alive, status, confirmed, item, items, log, told, ghost>>

\* Mutant: a room is taken only at exactly the same time.
SameWindow(s, p) == {t \in Session \ {s} : PlaceOf(item[t]) = p}

InTheWay(s, p) ==
  {t \in Session \ {s} : Placed(t) /\ Overlap(item[t].place, p)}

\* list_overlapping_in_space: a taken room turns the request away.
AcceptCheck(r) ==
  /\ req[r].op = "accept" /\ ~req[r].checked
  /\ req' = [req EXCEPT ![r] =
       IF InTheWay(req[r].s, req[r].place) # {} THEN Idle
       ELSE [req[r] EXCEPT
               !.checked = TRUE,
               !.saw = {item[t].pk : t \in {u \in Session : Placed(u)}}]]
  /\ UNCHANGED <<alive, status, confirmed, item, items, log, told, ghost>>

\* The UPDATE of a deleted session touches no row, the INSERT goes through.
AcceptWrite(r) ==
  LET s == req[r].s IN
  /\ req[r].op = "accept" /\ req[r].checked
  /\ ~Placed(s)
  /\ NewItem(s, req[r].place, AutoConfirm, "accept", req[r].saw)
  /\ status' = IF s \in alive THEN [status EXCEPT ![s] = "ACCEPTED"] ELSE status
  /\ confirmed' = IF s \in alive THEN [confirmed EXCEPT ![s] = AutoConfirm]
                  ELSE confirmed
  /\ told' = IF req[r].was # "ACCEPTED" THEN told \cup {s} ELSE told
  /\ ghost' = IF s \in alive THEN ghost ELSE ghost \cup {s}
  /\ req' = [req EXCEPT ![r] = Idle]
  /\ UNCHANGED <<alive, log>>

\* The session has an item by now: the one-to-one key answers with an error.
AcceptFails(r) ==
  /\ req[r].op = "accept" /\ req[r].checked
  /\ Placed(req[r].s)
  /\ req' = [req EXCEPT ![r] = Idle]
  /\ UNCHANGED <<alive, status, confirmed, item, items, log, told, ghost>>

-----------------------------------------------------------------------------
\* TimetableService.assign_session: a first placement, or a move, which is
\* the unassignment and the assignment under one transaction.
Assign(s, p) ==
  /\ Locked(s) /\ Free(s)
  /\ PlaceOf(item[s]) # p
  /\ status[s] = "ACCEPTED"
  /\ LET ok == AutoConfirm /\ ~Placed(s)
         left == Row(s, "UNASSIGN", PlaceOf(item[s]), None, None)
         from == IF Placed(s) THEN Len(log) + 1 ELSE None
     IN /\ confirmed' = [confirmed EXCEPT ![s] = ok]
        /\ NewItem(s, p, ok, "panel", {})
        /\ Record(s, (IF Placed(s) THEN <<left>> ELSE <<>>)
                    \o <<Row(s, "ASSIGN", None, p, from)>>)
  /\ UNCHANGED <<alive, status, told, ghost, req>>

\* Mutant: a session taken off the timetable stays confirmed.
UnassignConfirmed(s) ==
  /\ Locked(s) /\ Placed(s) /\ Free(s)
  /\ item' = [item EXCEPT ![s] = None]
  /\ Record(s, <<Row(s, "UNASSIGN", item[s].place, None, None)>>)
  /\ UNCHANGED <<alive, status, confirmed, items, told, ghost, req>>

\* TimetableService.unassign_session
Unassign(s) ==
  /\ Locked(s) /\ Placed(s) /\ Free(s)
  /\ item' = [item EXCEPT ![s] = None]
  /\ confirmed' = [confirmed EXCEPT ![s] = FALSE]
  /\ Record(s, <<Row(s, "UNASSIGN", item[s].place, None, None)>>)
  /\ UNCHANGED <<alive, status, items, told, ghost, req>>

\* TimetableService.revert_change of row i: an assignment is taken back, an
\* unassignment put back unconfirmed; a revert is not undone.
Revert(i) ==
  LET row == log[i]
      s == row.session
  IN
  /\ Locked(s) /\ Free(s)
  /\ Latest(i)
  /\ \/ /\ row.action = "ASSIGN" /\ Placed(s)
        /\ item' = [item EXCEPT ![s] = None] /\ UNCHANGED items
        /\ Record(s, <<Row(s, "REVERT", row.new, None, None)>>)
     \/ /\ row.action = "UNASSIGN" /\ ~Placed(s)
        /\ status[s] = "ACCEPTED"
        /\ NewItem(s, row.old, FALSE, "panel", {})
        /\ Record(s, <<Row(s, "REVERT", None, row.old, None)>>)
  /\ confirmed' = [confirmed EXCEPT ![s] = FALSE]
  /\ UNCHANGED <<alive, status, told, ghost, req>>

\* SessionContentEditService._resize: a new duration moves the end of the
\* agenda item and writes no row of this log.
Resize(s, w) ==
  /\ s \in alive /\ Placed(s) /\ Free(s)
  /\ w[1] = item[s].place.window[1] /\ w # item[s].place.window
  /\ item' = [item EXCEPT ![s].place.window = w,
                          ![s].by = IF @ = "panel" THEN @ ELSE "resized"]
  /\ UNCHANGED <<alive, status, confirmed, items, log, told, ghost, req>>

\* SessionDeletionService.soft_delete: a placed session leaves the timetable
\* through the log and goes back to PENDING.
SoftDelete(s) ==
  /\ Locked(s) /\ Free(s)
  /\ alive' = alive \ {s}
  /\ IF Placed(s)
       THEN /\ item' = [item EXCEPT ![s] = None]
            /\ status' = [status EXCEPT ![s] = "PENDING"]
            /\ confirmed' = [confirmed EXCEPT ![s] = FALSE]
            /\ Record(s, <<Row(s, "UNASSIGN", item[s].place, None, None)>>)
       ELSE UNCHANGED <<item, status, confirmed, log>>
  /\ UNCHANGED <<items, told, ghost, req>>

Restore(s) ==
  /\ s \notin alive
  /\ alive' = alive \cup {s}
  /\ UNCHANGED <<status, confirmed, item, items, log, told, ghost, req>>

-----------------------------------------------------------------------------
\* SessionConfirmationService.set_session_confirmed: no lock, and the item is
\* the one that was read.
ConfirmRead(r, s, yes) ==
  /\ req[r] = Idle /\ <<"confirm", s>> \in bound.asks[r]
  /\ s \in alive /\ Placed(s)
  /\ req' = [req EXCEPT ![r] =
       [op |-> "confirm", s |-> s, pks |-> {item[s].pk}, yes |-> yes]]
  /\ UNCHANGED <<alive, status, confirmed, item, items, log, told, ghost>>

\* The items in pks that still exist, and these sessions, are set to yes.
SetFlags(pks, S, yes) ==
  /\ item' = [s \in Session |->
       IF Placed(s) /\ item[s].pk \in pks THEN [item[s] EXCEPT !.ok = yes]
       ELSE item[s]]
  /\ confirmed' = [s \in Session |->
       IF s \in S \cap alive THEN yes ELSE confirmed[s]]

ConfirmWrite(r) ==
  /\ req[r].op = "confirm" /\ Free(req[r].s)
  /\ SetFlags(req[r].pks, {req[r].s}, req[r].yes)
  /\ req' = [req EXCEPT ![r] = Idle]
  /\ UNCHANGED <<alive, status, items, log, told, ghost>>

\* set_schedule_confirmed_for_facilitator over the sessions S they run.
BulkItems(r, S, yes) ==
  /\ req[r] = Idle /\ \A s \in S : <<"bulk", s>> \in bound.asks[r] /\ Free(s)
  /\ LET pks == {item[s].pk : s \in {t \in S \cap alive : Placed(t)}} IN
     req' = [req EXCEPT ![r] =
       [op |-> "bulk", s |-> S, pks |-> pks, yes |-> yes]]
  /\ UNCHANGED <<alive, status, confirmed, item, items, log, told, ghost>>

BulkSessions(r) ==
  /\ req[r].op = "bulk"
  /\ SetFlags(req[r].pks, {s \in req[r].s : Placed(s)}, req[r].yes)
  /\ req' = [req EXCEPT ![r] = Idle]
  /\ UNCHANGED <<alive, status, items, log, told, ghost>>

\* It holds item rows and waits for session rows, a panel handler the other
\* way round: PostgreSQL ends the deadlock by aborting one of them.
BulkAborted(r) ==
  /\ req[r].op = "bulk"
  /\ req' = [req EXCEPT ![r] = Idle]
  /\ UNCHANGED <<alive, status, confirmed, item, items, log, told, ghost>>

-----------------------------------------------------------------------------
Accept(r) ==
  \/ \E s \in Session, p \in Place : AcceptRead(r, s, p)
  \/ AcceptCheck(r) \/ AcceptWrite(r) \/ AcceptFails(r)

Confirm(r) ==
  \/ \E s \in Session, yes \in BOOLEAN : ConfirmRead(r, s, yes)
  \/ ConfirmWrite(r)
  \/ \E S \in (SUBSET Session) \ {{}}, yes \in BOOLEAN : BulkItems(r, S, yes)
  \/ BulkSessions(r) \/ BulkAborted(r)

Panel(s) ==
  \/ \E to \in Verdict : SetStatus(s, to)
  \/ \E p \in Place : Assign(s, p)
  \/ Unassign(s)
  \/ \E w \in Window : Resize(s, w)
  \/ SoftDelete(s) \/ Restore(s)

Next ==
  /\ \/ \E r \in Web : Accept(r) \/ Confirm(r)
     \/ \E s \in Session : Panel(s)
     \/ \E i \in 1 .. Len(log) : Revert(i)
  /\ UNCHANGED bound

Spec == Init /\ [][Next]_vars

-----------------------------------------------------------------------------
\* Where and when a placement starts: a new duration moves only its end.
Spot(p) == IF p = None THEN None ELSE <<p.space, p.window[1]>>

\* The change log tells the timetable: a session is where its latest row put it,
\* and when that row took it off, only an accepted proposal, which is not
\* logged, can have put it back; and a row says what its change did.  The rows a handler adds lead from where the
\* session was to where it is, each taking up where the one before left off;
\* an undo that took back another change than its row's would not.
LogTellsTheTimetable ==
  /\ [](\A s \in Session : \A i \in RowsOf(s) : Latest(i) =>
          IF log[i].new # None THEN Spot(PlaceOf(item[s])) = Spot(log[i].new)
          ELSE Placed(s) => item[s].by # "panel")
  /\ [][\A i \in Len(log) + 1 .. Len(log') :
         LET s == log'[i].session IN
         /\ Spot(log'[i].old) =
              IF i = Len(log) + 1 THEN Spot(PlaceOf(item[s]))
              ELSE Spot(log'[i - 1].new)
         /\ i = Len(log') => Spot(log'[i].new) = Spot(PlaceOf(item'[s]))]_vars

\* Only accepted, undeleted proposals are on the timetable: "the 'scheduled
\* implies accepted' invariant the panel now enforces", which migration 0118
\* brought the older rows to, whatever the order of status changes, undos,
\* deletions and restores.  One race escapes it: an accept that read the
\* proposal before its deletion, whose session comes back placed and PENDING
\* when it is restored.  Comments elsewhere still speak of a scheduled
\* session that "commonly keeps PENDING" (links/db/django/repositories/
\* sessions.py): no step of an organizer makes one.
PlacedIsAccepted ==
  \A s \in Session \ ghost :
    Placed(s) => s \in alive /\ status[s] = "ACCEPTED"

\* Two accepts put two sessions in one room at one time only when neither
\* could see the other's placement: one after the other, they never do.
AcceptedApart ==
  \A s, t \in Session :
    /\ s # t /\ Placed(s) /\ Placed(t)
    /\ item[s].by = "accept" /\ item[t].by = "accept"
    /\ Overlap(item[s].place, item[t].place)
    => item[s].pk \notin item[t].saw /\ item[t].pk \notin item[s].saw

\* No proposal stands accepted without its people having been told, however
\* it got there; the accept compares with a status it read much earlier.
AcceptanceTold == \A s \in Session : status[s] = "ACCEPTED" => s \in told

SessionsOf(q) == IF q.op = "bulk" THEN q.s ELSE {q.s}
Mirrored(s) == confirmed[s] = (Placed(s) /\ item[s].ok)

\* The two confirmation flags, the session's and its agenda item's ("mirrored
\* until it is dropped"), part in one way only: a confirmation writes to a
\* session whose placement is no longer the one it was read with.
FlagsPartByRaceOnly ==
  [][\A s \in Session \ ghost' : Mirrored(s) /\ ~Mirrored(s)' =>
       \E r \in Web :
         /\ req[r].op \in {"confirm", "bulk"} /\ req'[r] = Idle
         /\ s \in SessionsOf(req[r])
         /\ Placed(s) => item[s].pk \notin req[r].pks]_vars
=============================================================================
