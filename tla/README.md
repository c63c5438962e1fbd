# ludamus in TLA+

ludamus runs conventions: an organizer publishes an event, people propose
sessions, organizers import more, put them on a timetable and answer for who
runs them, visitors take seats, and a scheduler tells everybody. This directory
models the parts of it where things go wrong when two people click at once, a
worker dies, or a page is older than what it shows. TLC checks the modules on
small instances; TLAPS proves most of what they promise for any number of
people, sessions, rows and requests: that nobody is double booked and no session
oversold, that the promotion loop is the promotion rule, that the log tells the
timetable, that requests which read early and write late keep their promises.

Source paths below are relative to `src/ludamus/` in the repository.

## Inventory

The code is hexagonal: `pacts` holds records and protocols, `specs` pure rules,
`mills` services, `links` repositories and outside systems, `gates` and
`adapters` the web, `inits` the wiring and the scheduler. Everything shares one
Postgres database at READ COMMITTED. Every HTTP request is one transaction
(`ATOMIC_REQUESTS`, `edges/settings.py:255`), so `atomic()` inside a request is
a savepoint; a scheduler worker has no such outer transaction, and neither has the
route of the export's button.

| Component | State it keeps | Operations | What is hard | What makes it correct | Module |
| --- | --- | --- | --- | --- | --- |
| Waitlist promotion rule (`specs/enrollment.py`) | none (a loop over the waiting list) | `select_promotable_parties` | skip, stop or select each party while seats and passes run down | the walk picks exactly the parties the rule names; nobody leapfrogs | `Promotion`, `PromotionWalk` |
| Waitlist promotion and offers (`mills/enrollment.py`, `links/db/django/enrollment.py`) | participations (status, claim token, party, deadline) | refill, hold, claim, decline, expire, sweep | all of them at once on one session; timers early, late, twice, lost; crashes | no double booking, no overselling, no pass overspent, freed seats handed on, lapsed offers released | `Enrollment`, `Seating`, `SeatLedger`, `RowLocks` |
| Enroll page (`adapters/web/django/views.py`, `forms.py`, `mills/enrollment_windows.py`) | participations, guests | enroll, wait, cancel, hold for a member, bring guests, in one batch | the form is validated before any lock is taken | the same, and that nobody changes what is not theirs | `Enrollment` |
| Enrolment without an account (`mills/enrollment_anonymous.py`) | participations | enroll, cancel | the same locks, other checks | the same | `Enrollment` |
| Organizer edits that refill (`proposal_edit.py`, `timetable.py` of the panel) | limit, agenda item | change the limit, assign, unassign | the edit compares with what it loaded | waiters are promoted into new seats | `Enrollment`, `Programme` |
| Programme (`mills/chronology.py`, `mills/timetable.py`) | session status, agenda items, change log, confirmations | set a status, accept, assign, move, unassign, undo, confirm, resize, delete, restore | three handlers lock nothing; undo after anything; deletion of a placed session | the log tells the timetable; only accepted sessions are placed; flags agree | `Programme` |
| Time slots and dates (`mills/panel_time_slots.py`, `mills/event.py`, `mills/timetable.py`) | slots, the event's dates | save, delete, widen by a placement, make by an import, set dates | slots are read without a lock | slots apart; the dates hold the programme; a drop opens its hours | `TimeSlots` |
| Timetable page (`mills/timetable.py`, `mills/timeslots.py`) | none: it is read | the grid of a day, the warnings on it | two reads of the agenda; slots that overlap or cross midnight | every clash told once; the day shown as it is | `Grid` |
| Errata (`mills/errata.py`) | marks on rows of the change log | star, acknowledge, publish anew | a move is two rows | a move is marked whole | `Errata` |
| Facilitators panel (`mills/panel_facilitators.py`) | facilitators, who they run, who claimed them | assign, delete, restore, merge, edit, claim, release | merges and deletions against assignments; an edit saves a whole row | sessions name the living; claims stand | `Facilitators` |
| Proposal import (`mills/submissions/`) | sessions, facilitators, import log | run, sample, retry, reimport | rows told apart by keys that may be missing; hand edits in between; two runs at once | a second run changes nothing; hand edits stay; people are kept apart | `Import` |
| Scheduler (`inits/dbos_scheduler.py`, `links/scheduler.py`) | durable timers, cron ticks | arm, fire, sweep | lost, repeated and overlapping runs | every due piece of work is done | `Enrollment`, `Background` |
| Announcements (`mills/notifications.py`, `mills/multiverse.py`) | stamps, bells | publish, claim, fan out, sweep, mute | rival workers, a crash half way | everybody hears once | `Announcements` |
| Subscriptions (`mills/dashboard.py`) | subscriptions, age band, queued mail | subscribe, leave, sweep, send | consent given up while mail is queued | no mail without consent and age | `Subscriptions` |
| Listings (`mills/listing.py`) | listings, responses | publish, edit, respond, withdraw, decline, close, reopen, sweep | a close races a response, a sweep a reopening | nobody waits on a closed listing | `Listings` |
| Konwencik export (`mills/konwencik.py`) | a lock by timestamp | claim, write, release, save | a slow writer loses its lock | rivals only after a lock was lost; the sheet catches up | `ExportLock` |
| Parties and companions (`mills/party.py`, `mills/crowd.py`) | memberships, consent, links | invite, join, accept, decline, leave, remove, claim | members act for each other; a companion is claimed meanwhile | nobody is in a party without their say | `Parties` |
| Accounts (`mills/crowd.py`) | address, pending address, links | change, confirm, cancel, resend, log in | links redeemed late or twice, logins in between | a verified address was proved | `Accounts` |
| Encounters (`mills/encounter*.py`) | signups, invitations, calendar entries | sign up, leave, answer by calendar, invite, remove, save, delete | no lock; answers late, twice, out of order | the limit, removals and entries | `Encounters` |
| Safety (`mills/safety.py`) | bans | ban, lift | a ban while seated | the banned are not seated | a constant of `Enrollment` |
| Wizard, content log, discounts, tracks, venues, tags, team, guilds, printing, event pages, MCP | rows of their own | create, update, delete, read | little: one transaction per edit | uniqueness, ownership | none |

The first five interact through the participations of a session. A cancel, a
decline, a refused claim, an expiry, a larger limit and a move all end in
`fill_freed_seats`; the enroll page calls `hold_seat`; offers arm timers which
come back as `expire_offer`; a move changes which sessions overlap, and so
which seats clash. All of them follow the one lock order of
`docs/agents/architecture.md` ("Seat lock order"): the Session row, then the
User rows of everybody whose seats are decided (and of who pays for them), in
key order, and only then the checks. The programme writes the change log the
errata read; placements and imports write the slots the timetable page shows;
imports and the panel write the same facilitators.

The hazards, each at its line, are in `PROJECT.json`.

## Modules

| Module | Models | Run |
| --- | --- | --- |
| `Promotion`, `PromotionWalk` | the promotion rule without the loop, and the loops of `select_promotable_parties`: the waiting rows grouped one by one, then an action per outcome for a party | `promotion_walk` |
| `Seating` | an event's sessions as data: a *book* per session, capacity, clashes, allowances, and what a refill does | with `Enrollment` |
| `Enrollment` | requests, workers, locks, crashes and clock around the books | `enrollment_*`, `stale_leader_batch`, `expiry_crash` |
| `SeatLedger` | what all that promises: a ledger of seats that changes one session at a time | the abstract specification of `Enrollment` |
| `Programme` | proposals, agenda items and the change log | `programme` |
| `Listings`, `Announcements`, `Subscriptions`, `ExportLock` | what the scheduler keeps up; composed in `Background` | `background` |
| `Encounters`, `Accounts`, `Parties`, `TimeSlots`, `RowLocks` | requests that read, decide and write apart; composed in `Requests` | `requests` |
| `Facilitators`, `Errata`, `Import`, `Grid` | the organizers' panel; composed in `Panel` | `panel` |
| `SeatingProofs`, `EnrollmentProofs`, `PromotionProofs`, `ProgrammeProofs`, `BackgroundProofs`, `RequestsProofs`, `PanelProofs`, `GridProofs` | the theorems; `GridProofs` is about the `Grid` part of `Panel`, `PanelProofs` about the others | |
| `MC*` | small instances for TLC | |

`Promotion` is extended by `PromotionWalk`, which checks the loop against it,
and by `Seating`, which uses it to say what a refill selects. `Enrollment`
extends `Seating`, and instantiates `SeatLedger` under a refinement mapping.

### Composites

`Background`, `Requests` and `Panel` hold parts that share a database and no
row the properties speak of. Each behaviour is one of a single part, chosen at
the start by `part`; the other parts stay in an initial state. So the state
space is the sum of the parts' and not their product, and nothing is lost: a
property of one part says nothing about another's variables. The composite
states the assumptions of all its parts (`BackgroundAssumption`,
`RequestsAssumption`, `PanelAssumption`), which TLC evaluates.

### A book

A book is the state one transaction writes: the session's participations with
its `participants_limit` and its place on the timetable. A person's row has a
status (`NONE` for no row), a claim token while OFFERED, the party it was
enrolled through while WAITING or OFFERED (nothing reads either in another
status), and a place in the creation order. Guests are counted per host: their
throwaway accounts hold one seat each and play no other part.

### A request

`ask[r]` is what request `r` was asked and what it read **before** its locks;
`pending[r]` the book its open transaction will commit; `held[r]` the people
whose User rows it holds.

| Step | Code |
| --- | --- |
| `AskEnroll` | `post` up to a valid form: choices, allowance, windows, read without locks |
| `HandleEnroll`, `RefuseEnroll` | `_process_enrollments` under the locks, then `fill_freed_seats` when a seat was freed |
| `AskClaim`, `AskDecline`, `AskExpire` | an offer named by a token or by a row of it; its session is looked up without a lock |
| `HandleClaim`, `ReleaseClaim`, `ClaimTooLate` | `_claim`: seat the party, or release it on a clash and refill, or refuse |
| `HandleDecline` | `decline_offer` and its refill, one transaction |
| `HandleExpire`, then `HandleFill` | `expire_offer`: the drop and the refill are **two** transactions in a worker |
| `MissOffer`, `ExpireTooEarly` | somebody got there first; the timer was early |
| `AnonymousEnroll`, `AnonymousCancel` | the two services; what they read early they read again under the locks, so they ask and handle in one step. The exception is whether the session is on the timetable: to enroll, it has to have been there before the locks (`WasScheduled`); to cancel, nobody asks |
| `AskLimit`, `HandleLimit` | `_write_content_edit`, which compares with the limit it loaded |
| `Move` | `assign_session` with its refill, `unassign_session`, `revert_change` of an ASSIGN |
| `Revert` | `revert_change` of an UNASSIGN, which puts the session back and refills nothing |
| `Commit` | the rows become visible, the locks go |
| `Crash` | a crash, a database error, a restart: the open transaction rolls back and what the request had still to do is lost |
| `Lapse`, `Tick` | a deadline passes; a start comes nearer |

A handler reads committed books only (READ COMMITTED) and writes one book, its
session's, under that session's lock. Between `Handle*` and `Commit` other
requests go on, which is where the lock order earns its keep.

Abstractions, and why they are sound:

- *Locks are taken in one step.* A request holds nothing before its Session row
  and checks nothing before it holds them all; waiting half way only delays it.
  That the order cannot deadlock is a question of its own, asked by `RowLocks`.
- *Time* is a phase per session: `far` (an offer fits before the start), `near`
  (it would outlive the start, so the seat is given outright), `started`
  (nobody is promoted). Deadlines lapse one token at a time, in any order:
  offers made together really lapse together, so this allows more.
- *Windows and allowances* do not change while the behaviour runs. There are two
  windows, an open one and one kept to configured users, and `AllowAnonymous` is
  the set of those that take people without an account; guests are taken where
  either does, an enrolment without an account by the open one only.
- *The desired-state page* submits batches that the explicit page could submit;
  they are covered by `AskEnroll`.
- *Who may act for whom* (companions, led parties, consent) is constant here;
  `Parties` is about how it changes.
- *Notifications and messages* are left out, the refills they announce are not.

### The other modules

They keep one shape. A handler that locks its row before it reads is one step.
One that reads, decides and writes later is a `...Read` step that remembers
what it saw and a `...Write` step that acts on it, with whatever others commit
in between; a crash or an error forgets what was read.

- `Programme`. `item[s]` is the agenda item of a session, `log` the change log,
  `req[w]` a request without a lock: an accept (three steps), a confirmation
  (two), a facilitator's confirmations (two statements). The panel's handlers
  lock the Session row and are one step. `ghost` holds the sessions an accept
  placed after they had been deleted.
- `Listings`, `Announcements`, `Subscriptions`, `ExportLock`. A transaction
  keeps the row lock from its read to its commit; mail goes out after the
  commit; a crash may lose a worker that was to be started, or leave a stamp
  without bells. A mail queued by a sweep is authorised in one step and sent in
  another, and nothing is asked in between. The export's claim commits on its
  own, from the sweep and from the button alike: the button's route is outside
  `ATOMIC_REQUESTS` for that (`gates/web/django/event/panel/urls.py:597`). The
  export's lock is a number of ticks, `Timeout` of them
  long, and `lapsed` holds the runs that have lost it.
- `Encounters`. The answers in a calendar travel as messages which may be lost,
  late or repeated. `missed` holds who changed while a save or a deletion had
  read the guests already.
- `Accounts`. A link is an account, an action and an address, and stays out for
  ever; whether it is spent is read off the account, as in the code. `crossed`
  holds the accounts two requests of which overlapped.
- `Parties`. One party, its leader, accounts and companions. What members said
  is kept beside the rows (`agreed`, `asked`, `granted`), so the rows can be
  held against it.
- `TimeSlots`. Time is in hours. A request reads the slots (a placement also
  locks its session) and writes by what it read; `Widen` reads the event's row
  under its lock, as the code does. `loose` says that an organizer has set the
  dates, or that an import has made a slot outside them. `undo` is the window an
  unassigned session goes back to by an undo, which asks for no slot and widens
  nothing. `publication = 0`, before every hour, stands for an event that has no
  publication time.
- `RowLocks`. A transaction is a sequence of statements, each a set of rows
  taken one by one, ordered or not. What the transactions decide is not here.
- `Facilitators`, `Errata`. As their headers say: locks and a step under them,
  or a check and a write.
- `Import`. A run is one transaction: `run[w]` holds what it has to do, what it
  read of its row, and what it has written, which only it sees until it
  commits. The rows it wrote and the keys it claimed block others. `person.of`
  remembers whom runs by key took each facilitator to be.
- `Grid`. No writer but `Move`. A page loads the event's items, then its
  track's; what it shows is computed by operators that follow `build_grid`.

## What TLC checks

Every property is broken by at least one mutated definition (`PROJECT.json`,
"mutants"), each a bug somebody could write: a refill that does not lock its
waiters, an allowance not asked again, a clash told by the lower key always, a
slot check that only looks inside the new window.

| Run | Instance | Shows |
| --- | --- | --- |
| `promotion_walk` | up to 3 waiting, any grouping, eligibility, payer; 0..2 seats; owners overdrawn, with one pass, or unlimited | `WalkMeetsRule`: the loop ends with the one selection the rule allows; `NoLeapfrog` |
| `enrollment_clash` | 2 people, 2 overlapping sessions of one seat, offers to claim, 2 concurrent requests, 1 crash | `NoDoubleBooking`; `DecisionsStayRight`; `ImplementsLedger` |
| `enrollment_moves` | people without accounts, offers out, one move of either session and one undo, a worker | `ClaimKeepsApart`: a claim rechecks what the timetable changed; `TypeOK` |
| `enrollment_passes` | an owner with one pass and a companion, 2 sessions, offers to claim, 2 requests | `PassesRespected` |
| `enrollment_seats` | 3 people: a leader, a member who must accept, another who need not; guests, offers, one edit of the limit anywhere in 0..2 | `NeverOversold`; `OffersKeptApart`; `DepartureRefills` |
| `enrollment_fair` | fair; two people, two offers, a worker, 1 crash; the start comes nearer | `LapsedOffersReleased`; `SeatsHandedOn` |
| `programme` | 2 proposals, 1 room, 3 windows; one request against the panel with up to 3 log rows for one session, or two accepts | `LogTellsTheTimetable`; `PlacedIsAccepted`; `AcceptedApart`; `AcceptanceTold`; `FlagsPartByRaceOnly` |
| `background` | fair; a listing with 2 users; an announcement with 2 workers and 2 crashes; an event with 2 sweeps and 3 subscriptions of one user; 3 exports with a timeout of 2 ticks | `NobodyWaitsInVain`; `SweepTakesTheStale`; `AnnouncedOnce`; `ConsentHolds`; `ExportKeepsUp` |
| `requests` | 2 requests each: an encounter for 1 guest; 2 accounts and 2 addresses; a leader, a manager and a companion; 1 session, 2 slots, 5 windows; 2 transactions on 2 sessions and 3 users | `LimitKept`; `RemovedStaysOut`; `NoStaleEntry`; `AddressesAreProved`; `OwnSay`; `SlotsApart`; `DatesHoldTheProgramme`; `PlacementOpensItsHours`; `SeatsNeverDeadlock` |
| `panel` | 2 facilitators, 1 session, 2 organizers; a log of 4 rows; 2 rows or 1 of a form, 2 recipes, 2 overlapping requests, 2 changes by hand; 3 sessions in 2 spaces over 2 days | `NamesTheLiving`; `ClaimsStand`; `MoveMarkedWhole`; `RerunChangesNothing`; `HandEditsStay`; `PeopleKeptApart`; `EveryClashToldOnce`; `GridTellsTheDay` |

### Bounds, and what they leave out

`Enrollment`: two sessions are enough for a clash, and a third would only add
another pair; two requests are enough for a race, since a decision is spoilt by
one other commit at a time; three people and up to two seats
(`enrollment_seats`) give a waiter a seat is offered to and one behind them
(the walk over longer lists is `promotion_walk`'s). A worker beside the guests,
the member who must accept and the edit of the limit is more than five minutes
of checking, so timers and sweeps race the routes in `enrollment_moves` and
`enrollment_fair` instead: `OffersKeptApart` and `DepartureRefills` are not
checked against them. `MaxLimit`, `MaxGuests`, `MaxEdits`, `MaxCrashes` and the
number of tokens bound the rest; when no token is free no new offer can be made,
so every run has as many tokens as people.

`Programme`: `Bounds` names two kinds of behaviour, because all requests
against all handlers is too much: one request, of any kind, against the panel
with three log rows for one session; or two accepts on a timetable nobody else
touches.

`Background`: one listing open for one tick of four; one announcement that may
be withdrawn and published again; a user subscribing three times; one edit of
the agenda. Every counter stops where a second of its kind has happened.

`Requests`: one admission is in flight at a time (`Admission`), so `LimitKept`
says there that one admission after another never passes the limit; of two
accounts one changes its address, twice. `TimeSlots` has a session, two
slots and five windows, which are inside one another, overlap, touch or leave a
gap, one other set of dates, whose publication forbids widening back, and one
slot a recipe may name, which overlaps the event's hour and ends after it.
`RowLocks` has two transactions, since a cycle of two shows a wrong order, and
companions on both sides of their owner's key.

`Panel`: two facilitators, so two claims may disagree in a merge and three may
not. `Import` has two namesakes with keys of their own on rows of one title,
and a row that shares the second one's key but has no facilitator key; the
sheet is either the first two or the last, so rows vanish, move and come back.
`MaxHand` changes by hand may happen, of which only `MaxBeside` while two
requests overlap; restoring what was deleted is not counted. `Grid` has slots one
inside another or across midnight, windows that overlap in a chain, one larger
than the session's room, one facilitator of two sessions and one collective;
`MaxMoves` sessions may move between the two reads.

Interchangeable requests, tokens, transactions and sessions are symmetric in
the safety runs; the fair runs use no symmetry. Deadlock is not checked: with
bounded edits and crashes, and nobody obliged to send a request, the instances
may rightly stop.

### Fairness

`Enrollment`: a request that arrived is handled (strong fairness: Postgres
grants a contended row lock in queue order, so a request whose locks keep coming
free gets them) and then commits (weak fairness); the sweep, which runs every
five minutes, gets to each lapsed offer (strong fairness per offer). Nobody is
obliged to send a request, to claim, or to run a timer.

`Background`: the cron runs every sweep again and again, so one that finds
something to do infinitely often does it (strong fairness of the sweeps and,
since rows are contended, of the fan-out and the export's claim); a transaction
under way commits (weak fairness). Of the export's steps on the sheet it is
assumed that not every attempt fails: an outside service that is always down
would never be written. Users are obliged to nothing.

### Where the code and its words part

Two runs check what a comment says, and TLC finds it violated.

| Run | Said | Done |
| --- | --- | --- |
| `stale_leader_batch` | a member's participation is theirs alone (`forms.py:339`) | a leader's batch validated before the member enrolled overwrites the member's seat with a waiting row |
| `expiry_crash` | the seats roll on to the next party (`mills/enrollment.py:384`) | a crash between drop and refill leaves them idle: no OFFERED row is left to find. `NoIdleSeat` is `SeatsHandedOn` without its exception for crashes |

These follow from the models too. They have no run: each is an exception in
a property, or what a property is worded around.

Seats.

- Enrolling through a party someone else leads leaves the viewer's companions
  out of the count (`forms.py:466`, `mills/party.py:222`), so passes are
  overspent (`docs/agents/architecture.md:299`). `enrollment_passes` has no
  such party.
- A confirmed person who moves to the waiting list frees a seat nobody gets
  (`views.py:1493`), and keeps the place in line of their first row.
- A seat given up while a session is off the timetable is promoted to nobody; a
  placement refills it, but an undo of the removal does not
  (`panel/views/timetable.py:704`), and it stays free until the next departure.
- The cap on waiting lists is asked before the locks only (`forms.py:78`), and
  whether a limit grew is judged against a limit read before another edit
  (`proposal_edit.py:776`).

Programme.

- The comments disagree on whether a session on the timetable is accepted.
  Migration `0118` made every one so, and names the invariant the panel enforces
  since; `assign_session` and an undo refuse any other ("Only accepted sessions
  can be placed on the schedule", `panel/views/timetable.py:110`), an accept
  makes it so, and a placed session's status cannot be taken back. That is what
  `PlacedIsAccepted` states, and why no behaviour starts with a placed session
  that is PENDING. The review queue still says that "a scheduled session
  commonly keeps PENDING" and that such a session belongs to the panel
  (`repositories/sessions.py:167-173`), and so do `event_presentation.py:154`
  and `tests/integration/web/chronology/test_event_page.py:1964`. Of all the
  handlers modelled only an accept that crosses a deletion makes one: it reads a
  proposal, the deletion commits, the accept's UPDATE touches no row and its
  INSERT goes through (`mills/chronology.py:360`); a restore brings back a
  session that is placed and PENDING. `PlacedIsAccepted` leaves out the sessions
  such an accept wrote to (`ghost`).
- The two confirmation flags part when a confirmation writes to an item or a
  session that changed since it was read (`repositories/sessions.py:386` calls
  the one a mirror of the other).
- Two overlapping sweeps announce one event twice; the repository lists it as
  open (`docs/VERIFICATION.md:56`).

Facilitators.

- A claim is "released before anyone else can take over, so it never silently
  changes hands" (`models.py:1200`). An edit saves every column as it was read
  (`repositories/facilitators.py:172`): read while one organizer had the claim,
  and saved after a release and another's claim, it gives it back to the first.
  It takes back a deletion the same way; `ClaimsStand` makes the exception.
- A merge passes deleted sessions over (`repositories/sessions.py:926`) and
  destroys the row they name, so a restored session names nobody.

Import.

- A second run is not idempotent where rows cannot be told apart: when two
  rows share a key, or share title and address while the proposal of one is
  deleted; "the next run re-adopts" (`engine.py:109`) does not hold there.
- A new row whose title has the slug of a deleted proposal is skipped at every
  run, since only live proposals' slugs are avoided and all of them are unique.
- Two runs that adopt one facilitator without a key each stamp it, and the later
  stamp wins, although one with a different identity "gets left alone"
  (`engine.py:644`). `PeopleKeptApart` names this exception.
- A facilitator deleted or restored between a run's read and its write ends the
  whole run, not the row.
- "Each session has at most one log entry" (`repositories/submissions.py:826`)
  fails when two rows link to one session; and a retry overwrites the entry
  that "stays in the log as history" (`import_log.py:63`).
- A reimport that read a value while it was empty writes over an edit by hand
  committed since.
- A row's time slots are made with no check against the others and without
  widening the event's dates (`engine.py:712`).

Timetable page.

- On a track's page a clash may be missed, or told after it has gone, when both
  its sessions move between the two reads; the next load is right again.

## What is proved

Every theorem is about the specification a run checks, for every value of the
constants that satisfies the module's assumptions: sets of people, sessions or
rows are finite where something is counted, values that stand for nobody are
nobody, requests and workers are apart. TLC evaluates the assumptions on every
run. The bounds of a module are constants too, so a theorem holds of them all.

The parts of `Background`, `Requests` and `Panel` share no variable, so each has
an inductive invariant of its own, which a step of another part leaves alone.

| Module | Theorem | What the run checks |
| --- | --- | --- |
| `EnrollmentProofs` | `NoDoubleBookingHolds`, `DecisionsHold`, `TypeCorrect`, `OffersKeptApartHolds` | `NoDoubleBooking`, `DecisionsStayRight`, `TypeOK`, `OffersKeptApart` |
| | `NeverOversoldHolds` | `NeverOversold`, an action property |
| | `PassesRespectedHolds` | `PassesRespected`, where `MembersAlone` |
| | `LedgerImplemented` | `ImplementsLedger`, the refinement |
| `PromotionProofs` | `WalkMeetsRuleHolds`, `NoLeapfrogHolds` | `WalkMeetsRule`, `NoLeapfrog` |
| `ProgrammeProofs` | `PlacedIsAcceptedHolds`, `AcceptedApartHolds`, `AcceptanceToldHolds`, `FlagsPartByRaceOnlyHolds`, `LogTellsTheTimetableHolds` | all of `programme` |
| `BackgroundProofs` | `NobodyWaitsInVainHolds`, `ConsentHoldsAlways` | `NobodyWaitsInVain`, `ConsentHolds` |
| | `SweepTakesOnlyTheStale`, `NeverAnnouncedTwice`, `OneExportHoldsTheLock` | the safety halves of `SweepTakesTheStale`, `AnnouncedOnce`, `ExportKeepsUp` |
| `RequestsProofs` | `LimitKeptHolds`, `NoStaleEntryHolds`, `RemovedStaysOutHolds`, `AddressesAreProvedHolds`, `OwnSayHolds`, `DatesHoldTheProgrammeHolds`, `SlotsApartHolds`, `PlacementOpensItsHoursHolds` | the same names in `requests` |
| | `SeatsNeverDeadlockHolds` | `SeatsNeverDeadlock` |
| `PanelProofs` | `NamesTheLivingHolds`, `ClaimsStandHolds`, `MoveMarkedWholeHolds`, `PeopleKeptApartHolds`, `HandEditsStayHolds`, `RerunChangesNothingHolds` | the same names in `panel` |
| `GridProofs` | `EveryClashToldOnceHolds`, `GridTellsTheDayHolds` | the same names in `panel` |

### The seats

`InvariantHolds` proves `Spec => []IInv`, where `IInv` is

- `TypeOK`;
- `DecisionsStayRight`: locks never cross, and the book each open transaction
  will write (`MayCommit`) seats nobody new outside its locks, lets nobody in
  past the seats on offer, and clashes with nothing committed;
- `NoDoubleBooking`, which `Commit` draws from it;
- `OffersStayApart`: tokens name one party, in committed and in pending books,
  and no two open transactions drew the same one;
- `FormsAreOwn`: a form names the viewer and people of theirs;
- `PassesStay`: where a pending book seats somebody new of a household, the
  household's seats, with that book committed, are within its passes.

*Why the properties alone are not inductive.* They speak of committed books. A
request decides against the books committed when it took its locks and commits
later, over different ones.

*The argument.* A handler establishes `MayCommit` for its book, because it
subtracts `Conflicted` (for the people it names and for the waiters a refill
selects) and has locked exactly those people. Another transaction's commit can
only spoil it by seating, in an overlapping session, somebody our book seats.
If that person is new in both, they are under both locks (`PendingApart`),
which cannot be; if they sat in our session already, the other's `MayCommit`
rules them out. So `Commit` preserves it. The passes follow the same line with
the payer's row instead of the person's: two books that seat somebody new of one
household would hold one row twice.

*A refill* is known by the rule it follows and not by a loop. `RefillBook`: it
seats only waiting people without a clash and keeps the book well formed.
`SelectionFits` and `SelectionPaidFor` read the seats and the passes off the
last party that goes: of a finite set of parties in a total order there is one
(`LastParty`), everybody selected is ahead of it or in it, and the rule asks for
them together. No induction over the list is needed.

*Passes* have a hypothesis, `MembersAlone`: members of a party somebody else
leads answer for no companions of their own. Without it the code does overspend
(`forms.py:466`, below the runs).

*The ledger.* Each `Commit` of a book is a step `Decide` of `SeatLedger` under
the refinement mapping, or leaves the ledger as it is; all other steps leave it.
Its ceiling comes from `MayCommit`, its clash rule from `NoDoubleBooking`'s
argument.

### The promotion loop

`WInv` says of the part of the list already judged what the rule says of it:
who was passed over, who was taken, what is left (`Totals` writes seats and
passes as sums over the selected). `NoOther` says that any selection the rule
allows agrees with the loop so far. When the loop ends that is all of it, so the
rule names the selection and no other; uniqueness needs no induction because the
loop has done it step by step. `NoLeapfrog` is read off the rule.

### The programme

`Inv` adds to the types and the three invariants of the run: `KeysApart` (a
primary key is one agenda item's for good), `AcceptsCurrent` (what an accept saw
in no way of its place has moved by hand only), `ConfirmsOwn` (a key a
confirmation holds is its own session's or nobody's), `RowsWhole` and `LogTells`
(the latest row of a session says where it is, and each row can be undone with
what it carries).

### What the scheduler keeps up

A transaction's row lock covers what it read (`LHeld`); at most one worker has
claimed an announcement, and none whose bells have rung (`AClaims`); a
subscription given up is gone for good, since the next one has a new key
(`SConsent`); of the exports that run one at most still has the lock, and while
it has nobody may claim it (`XAlone`).

### Requests that read, decide and write apart

- *Encounters*: the guests, and those an admission in flight is about to let in,
  pass the limit by no more than the other admissions (`ERoom`); an encounter
  that is not there has no guests and is not being saved (`EDown`).
- *Accounts*: a link that is being redeemed fits the address its account has
  now (`CStands`), a verified address was proved and no cancelled one is pending
  (`CProved`), all but for accounts two requests of which crossed.
- *Parties*: the rows a request holds keep what it read true: the link it joins
  by is current, whom it brings along has no login (`PHeld`); every membership
  has the words it needs (`PSay`); a claimed companion is not deleted
  (`PClaimed`).
- *Time slots*: the dates hold what requests in flight have read, since they will
  write it back (`HRead`), and what an undo may put back (`HUndo`).
  `SlotsApart` and `PlacementOpensItsHours` are about one step that stretches
  any number of slots at once: lemmas about `Stretched` say that a hole belongs
  to the slot before it or the slot after it, so that nothing is opened twice.
- *Row locks*: nothing a transaction may still ask for is before what it holds
  (`Below`, `Ordered`), except seats, which stay covered by rows of people it
  holds (`SeatsCovered`) or by the session's row, under which it found out whose
  they are (`SessionFirst`, `PeopleFirst`). So of a set of transactions each of
  which waits for another in it, the one that waits for the greatest row waits
  for nobody; a greatest exists because the transactions are finitely many.

### The panel

- *Facilitators*: whoever is locked stays alive (`FLocks`); the locks cover what a
  request is about to do, and nobody names whom it is about to delete
  (`FCovered`). `ClaimsStand` is an action property of the same invariant.
- *Errata*: the two rows of a move stand next to each other (`RMoves`), and
  whoever marks one has both in hand (`RChecked`), unless a publication split
  them.
- *Import* (`MInv`): what is written and not yet committed is kept beside what
  is committed. No row is written by two requests (`MAlone`); nobody takes a
  facilitator's key away (`MSince`); whom a request has read is still there with
  the key they had, in every copy of the row (`MSeen`); a run of rows changes no
  proposal's text (`MText`). One lemma (`MWrite`) carries a write of any row
  through; the handlers show that what they write is of its kind.
- *Import, run after run* (`NInv`): keys and slugs are one row's, in what is
  committed, in what a request sees and among the rows requests have pending
  (`Unique`), since a write asks for what nobody has (`MayClaim`) and a commit
  puts nothing in that its own request did not see. While a run has nobody
  beside it, what it read is current (`NSeen`) and no row it links a facilitator
  to is refused (`NotRefused`). So each row of the sheet comes to an end that can
  be read off the proposals (`Settled`): its key is found; or a namesake without
  a key is its, because a deleted proposal keeps the key; or nothing can be made
  of it, for want of a key, of the person's key, or because a deleted proposal
  has its key or its address. An end once reached stays while other rows have
  their turn (`SettledBesideAdopted`, `SettledBesideMade`: this is where
  `RowsApart` is needed), it is the only one (`SettledOnce`), and a row whose end
  is reached already writes nothing (`Turn`). After a run of all rows every row
  has its end (`NImported`), so the next one writes no proposal and no
  facilitator (`NNothing`) and logs what is in the log.
- *Timetable page*: what it tells is worked out of its two reads, so
  `EveryClashToldOnce` is proved of any two: who tells a clash is decided by an
  order of the sessions, and by whether both are on the track. `GInv` has only
  to say that a placement is one a session can have and that a page shows what
  it read. The rest of `GridTellsTheDay` is about the page's loops, whatever
  order the sort leaves among windows or items that start together: a finite set
  can be put in order (`PutInOrder`, `AllOf`), a fold takes one value of it after
  another (`FoldIsThere`), so what it has seen so far can be said of each prefix.
  The ranges merged so far hold the hours the slots so far hold
  (`MergedHolds`); an hour is hatched when no window of the day so far covers it
  (`ClosedHours`); the groups so far are chained and end before the next one
  starts (`CardsArranged`), so cards of two groups share no hour and cards of one
  group have lanes of their own (`LanesApart`); a session's cards lie end to end
  over its hours (`DrawnWhole`).

### What stays with TLC

- Liveness: `LapsedOffersReleased`, `SeatsHandedOn`, and the halves of
  `SweepTakesTheStale`, `AnnouncedOnce` and `ExportKeepsUp` that say something
  happens in the end. Fairness is out of the prover's reach.
- `DepartureRefills` and `ClaimKeepsApart` hold of the runs' instances and not of
  every instance: a move may take a session out of a waiter's way, or put one in
  it, between a refill or a claim and its commit, and it asks for no lock of
  theirs. The runs with these properties leave that move out.

## Not modelled

- *The attribution of clashes to tracks, filters, paging, the heatmap and the
  capacity report*: computed from one read and stored nowhere.
- *Offer timers as durable jobs*: a timer may fire whenever an offer is out;
  that one armed by a transaction which rolled back finds nothing is
  `MissOffer`. Mail sent before a commit is not modelled.
- *The desired-state page's second read*: what it submits is covered, why it
  splits a household is not.
- *The proposal wizard, the content log, discounts, tracks, venues, tags, team,
  guilds*: one transaction on rows of their own.
- *Provisioning of fields, categories and tracks by an import*, and how a cell
  of a sheet is read: data the properties do not tell apart.
- *Django's admin* (`links/db/django/admin.py`), where a superuser may write a
  session's status or an agenda item without asking any of this: no module
  promises anything of rows it wrote.
- *Layout, forms, printing, translations, MCP tools, vendored and generated
  code*: no state that two actors share.

## Plan

1. Done: the seats (`Promotion` to `SeatLedger`, with the first theorems).
2. Done: `Programme`; what the scheduler keeps up (`Background`); requests that
   read and write apart (`Requests`, with the lock order row by row in
   `RowLocks`); the panel (`Panel`).
3. Done: the invariants and action properties of the parts, proved one part at a
   time, and the promotion loop against its rule.
4. Done: the ledger by refinement, tokens, passes and the ceiling.
5. Left to prove: `DepartureRefills` and `ClaimKeepsApart` under the condition
   that no session moves while a transaction is open.
6. Left to model: the proposal wizard, the content log, copying a day's slots.
