----------------------------- MODULE Enrollment -----------------------------
(***************************************************************************)
(* The seat decisions of an event as concurrent transactions: enrolling,   *)
(* waiting, cancelling and bringing guests (SessionEnrollPageView.post),   *)
(* claiming and declining offers, offer expiry and the sweep, enrolling    *)
(* and cancelling without an account, and the two organizer edits that     *)
(* refill a session: a new limit and a move on the timetable.              *)
(*                                                                         *)
(* Every request takes the same steps as in the code:                      *)
(*   Ask*     what it reads before any lock: the form it validated, the    *)
(*            offer's identity, the limit the editor saw;                  *)
(*   Handle*  one step once it holds the Session row and the User rows of  *)
(*            its seat holders: it reads committed rows, checks, and       *)
(*            writes rows nobody else sees yet.  A refill it owes runs in  *)
(*            the same transaction (ATOMIC_REQUESTS);                      *)
(*   Refuse*  the same step for a request the checks turn away;            *)
(*   Commit   the rows become visible and the locks are released.          *)
(* A crash or a rollback between them loses what was not committed.        *)
(***************************************************************************)
EXTENDS Seating

CONSTANTS
  Web,              \* HTTP requests in flight
  Worker,           \* scheduler workers: offer timers and the sweep
  Anonymous,        \* people without an account
  Members,          \* Members[l]: the co-members of the party l leads
  Invites,          \* members who must accept a seat (ACCEPT_INVITES)
  MaxWaitlist,      \* max_waitlist_sessions of the windows
  InitLimits,       \* the limits and slots the sessions may start with
  InitSlots,
  InitPhases,       \* and how near their starts are
  Ticking,          \* bound: the sessions whose start comes nearer
  MaxEdits,         \* bound: the edits of each kind in a behaviour
  MaxCrashes        \* bound: crashes and rollbacks in a behaviour

Request == Web \cup Worker
EditKind == {"limit", "move", "revert"}

ASSUME RequestAssumption ==
  /\ Web \cap Worker = {}
  /\ NoOne \notin Book
  /\ Anonymous \subseteq {p \in Person : Owner[p] = p} \ DOMAIN Passes
  /\ DOMAIN Members \subseteq Person
  /\ \A l \in DOMAIN Members :
       Members[l] \subseteq {p \in Person : Owner[p] = p} \ (Anonymous \cup {l})
  /\ MaxWaitlist \in Nat
  /\ InitLimits \subseteq [Session -> 0 .. MaxLimit]
  /\ InitSlots \subseteq [Session -> Slot \cup {NoOne}]
  /\ InitPhases \subseteq [Session -> {"far", "near", "started"}]
  /\ Ticking \subseteq Session
  /\ MaxEdits \in [EditKind -> Nat] /\ MaxCrashes \in Nat

VARIABLES
  book,      \* the committed book of each session
  phase,     \* how near each session's start is: "far", "near", "started"
  lapsed,    \* the tokens whose offers are past their deadline
  ask,       \* what each request was asked and what it read before its locks
  pending,   \* the book each open transaction will commit, NoOne for none
  held,      \* the people whose User rows each open transaction holds
  edits,     \* the limit changes, moves and reverts asked for so far
  crashes    \* crashes so far

vars == <<book, phase, lapsed, ask, pending, held, edits, crashes>>

Phase == {"far", "near", "started"}
Choice == {"enroll", "waitlist", "cancel"}

Idle == [kind |-> "idle"]
Batch == UNION {[D -> Choice] : D \in SUBSET Person}
Ask ==
  {Idle}
    \cup [kind : {"enroll"}, s : Session, actor : Person,
          party : Person \cup {NoOne}, wants : Batch,
          guests : 0 .. MaxGuests \cup {NoOne}]
    \cup [kind : {"claim", "decline", "expire"}, s : Session, token : Token]
    \cup [kind : {"fill"}, s : Session]
    \cup [kind : {"anonymous_enroll", "anonymous_cancel"}, s : Session,
          actor : Person]
    \cup [kind : {"limit"}, s : Session, limit : 0 .. MaxLimit,
          old : 0 .. MaxLimit]
    \cup [kind : {"move"}, s : Session, slot : Slot \cup {NoOne},
          phase : Phase]

EmptyBook(limit, slot) ==
  [status |-> [p \in Person |-> "NONE"], token |-> [p \in Person |-> NoOne],
   party |-> [p \in Person |-> NoOne], before |-> {},
   guests |-> [p \in Person |-> 0], limit |-> limit, slot |-> slot,
   moved |-> FALSE]

Init ==
  /\ \E limits \in InitLimits, slots \in InitSlots :
       book = [s \in Session |-> EmptyBook(limits[s], slots[s])]
  /\ phase \in InitPhases
  /\ lapsed = {}
  /\ ask = [r \in Request |-> Idle]
  /\ pending = [r \in Request |-> NoOne]
  /\ held = [r \in Request |-> {}]
  /\ edits = [k \in EditKind |-> 0]
  /\ crashes = 0

-----------------------------------------------------------------------------
\* Transactions and their locks.

Open(r) == pending[r] # NoOne

\* lock_seat_holders: the people, and the owners of the passes they spend.
SeatHolders(P) == P \cup {Owner[p] : p \in P}

\* Mutant: a refill leaves its waiters unlocked (waiters_of not passed).
WaitersUnlocked(s) == {}

\* The waiters a refill of s may seat.
RefillHolders(s) == SeatHolders(Waiting(book[s]))

CanLock(r, s, L) ==
  \A q \in Request \ {r} : Open(q) => ask[q].s # s /\ held[q] \cap L = {}

\* r, asked for a, writes one of these books under the locks L.
Write(r, a, L, books) ==
  /\ CanLock(r, a.s, L)
  /\ \E b \in books : pending' = [pending EXCEPT ![r] = b]
  /\ held' = [held EXCEPT ![r] = L]
  /\ ask' = [ask EXCEPT ![r] = a]
  /\ UNCHANGED <<book, phase, lapsed, crashes>>

\* r ends without having written anything.
Quit(r) ==
  /\ ask' = [ask EXCEPT ![r] = Idle]
  /\ UNCHANGED <<book, phase, lapsed, pending, held, edits, crashes>>

Asked(r, kind) == ask[r].kind = kind /\ ~Open(r)

Receive(r, a) ==
  /\ ask[r] = Idle
  /\ ask' = [ask EXCEPT ![r] = a]
  /\ UNCHANGED <<book, phase, lapsed, pending, held, crashes>>

\* Claim tokens are never drawn twice while anybody still knows them.
TokensInUse ==
  (UNION {TokensOf(book[s]) : s \in Session})
    \cup (UNION {TokensOf(pending[r]) : r \in {q \in Request : Open(q)}})
    \cup {ask[r].token : r \in {q \in Request :
                           ask[q].kind \in {"claim", "decline", "expire"}}}
Fresh == Token \ TokensInUse

\* The books after b is written to s and the session refilled.
Refilled(s, b) ==
  Refills([book EXCEPT ![s] = b], s, phase[s], Fresh \ TokensOf(b))

-----------------------------------------------------------------------------
\* The enroll form and batch (create_enrollment_form, _process_enrollments).

Accounts == {p \in Person : Owner[p] = p} \ Anonymous
Companions(v) == Household(v) \ {v}

PartiesOf(v) == {NoOne} \cup {l \in DOMAIN Members : v = l \/ v \in Members[l]}

\* A party someone else leads takes the viewer's own companions off the page.
OwnRoster(v, party) ==
  {v} \cup (IF party \in {NoOne, v} THEN Companions(v) ELSE {})

MembersOnPage(v, party) ==
  IF party = v THEN Members[v] ELSE {}

CanEnroll(v, b) == ActorPct(v) # 0 /\ b.limit # 0

\* On an event open to nobody else, a member needs passes of their own.
MemberCanEnroll(m, b) ==
  TakesEnrollment(b) /\ PctOpen = 0 => Configured(m)

WaitsIn(p) ==
  {s \in Session : book[s].status[p] = "WAITING" /\ book[s].slot # NoOne}

CanJoinWaitlist(v, p, b) ==
  CanEnroll(v, b) /\ Cardinality(WaitsIn(p)) < MaxWaitlist

\* The choices the form offers: a name and when it is offered.
Offer(choice, when) == {c \in {choice} : when}

FreshChoices(v, p, s) ==
  Offer("waitlist", CanJoinWaitlist(v, p, book[s]))
    \cup Offer("enroll", CanEnroll(v, book[s]) /\ p \notin Conflicted(book, s))

UserChoices(v, p, s) ==
  CASE book[s].status[p] = "CONFIRMED" ->
         {"cancel"} \cup Offer("waitlist", CanJoinWaitlist(v, p, book[s]))
    [] book[s].status[p] = "WAITING" ->
         {"cancel"} \cup Offer("enroll", CanEnroll(v, book[s]))
    [] book[s].status[p] = "OFFERED" -> {"cancel"}
    [] OTHER -> FreshChoices(v, p, s)

MemberChoices(v, p, s) ==
  IF book[s].status[p] = "NONE" /\ MemberCanEnroll(p, book[s])
  THEN FreshChoices(v, p, s) ELSE {}

HeldSeatChoices(v, p, s) ==
  CASE book[s].status[p] = "OFFERED" -> {"cancel"}
    [] book[s].status[p] = "NONE" /\ MemberCanEnroll(p, book[s]) ->
         FreshChoices(v, p, s) \ {"waitlist"}
    [] OTHER -> {}

Choices(v, p, s, party) ==
  IF p \in OwnRoster(v, party) THEN UserChoices(v, p, s)
  ELSE IF p \in Invites THEN HeldSeatChoices(v, p, s)
  ELSE MemberChoices(v, p, s)

Wanting(wants, choice) == {p \in DOMAIN wants : wants[p] = choice}

\* AllowanceCheck: the household's distinct seated people fit the passes.
Affordable(v, party, wants) ==
  LET own == OwnRoster(v, party)
      new == Wanting(wants, "enroll") \cap own
  IN SpendsPasses(v) /\ new # {} =>
       Cardinality((HoldsSeat(book) \cap own) \cup new) <= Passes[v]

\* _event_allows_anonymous_enrollment: any window that takes people without an
\* account will do, the one kept to configured users as well.
TakesGuests(b) ==
  /\ TakesEnrollment(b)
  /\ \/ "open" \in AllowAnonymous /\ PctOpen # 0
     \/ "restricted" \in AllowAnonymous /\ PctRestricted # 0

GuestTargets(b) == {NoOne} \cup (IF TakesGuests(b) THEN 0 .. MaxGuests ELSE {})

OnlyCancels(wants) == DOMAIN wants # {} /\ Wanting(wants, "cancel") = DOMAIN wants

\* The form is valid: the page is open to v, offers each choice made, makes a
\* request at all, and an event that seats nobody now takes cancellations only.
MaySubmit(v, s, party, wants, guests) ==
  /\ book[s].slot # NoOne \/ book[s].status[v] # "NONE"
  /\ \A p \in DOMAIN wants : wants[p] \in Choices(v, p, s, party)
  /\ DOMAIN wants # {} \/ guests \notin {NoOne, book[s].guests[v]}
  /\ OnlyCancels(wants) \/ TakesEnrollment(book[s])
  /\ Affordable(v, party, wants)

AskEnroll(r) ==
  /\ r \in Web
  /\ ask[r] = Idle
  /\ \E v \in Accounts, s \in Session : \E party \in PartiesOf(v) :
     \E D \in SUBSET (OwnRoster(v, party) \cup MembersOnPage(v, party)) :
     \E wants \in [D -> Choice], guests \in GuestTargets(book[s]) :
       /\ MaySubmit(v, s, party, wants, guests)
       /\ Receive(r, [kind |-> "enroll", s |-> s, actor |-> v, party |-> party,
                      wants |-> wants, guests |-> guests])
  /\ UNCHANGED edits

GuestsNow(a) == book[a.s].guests[a.actor]
GuestsNeeded(a) ==
  IF a.guests = NoOne THEN 0 ELSE Larger(0, a.guests - GuestsNow(a))
GuestsFreed(a) ==
  IF a.guests = NoOne THEN 0 ELSE Larger(0, GuestsNow(a) - a.guests)

\* _lock_seat_holders: the waiters too when the batch may free a seat.
BatchHolders(a) ==
  SeatHolders({a.actor} \cup DOMAIN a.wants)
    \cup (IF Wanting(a.wants, "cancel") # {} \/ GuestsFreed(a) # 0
          THEN RefillHolders(a.s) ELSE {})

\* Mutant: a cancelled waiting row is credited like a seat.
EveryCancel(a) == GuestsFreed(a) + Cardinality(Wanting(a.wants, "cancel"))

\* What the batch gives up before it takes: guests and seats, no waiting rows.
SeatsFreed(a) ==
  GuestsFreed(a)
    + Cardinality(Wanting(a.wants, "cancel") \cap Seated(book[a.s]))

\* _is_capacity_invalid: a seat freed by the same batch is credited first.
\* With no window left to seat anyone, only freed seats can be taken.
FitsCapacity(a) ==
  LET b == book[a.s]
      entering == Cardinality(Wanting(a.wants, "enroll"))
      Spots(pct) ==
        Larger(0, Share(b.limit, pct) - (SeatsTaken(b) - SeatsFreed(a)))
      spots == IF TakesEnrollment(b) THEN Spots(SessionPct) ELSE SeatsFreed(a)
  IN entering + GuestsNeeded(a) # 0 =>
       /\ entering <= Spots(ActorPct(a.actor))
       /\ entering + GuestsNeeded(a) <= spots

\* Mutant: the allowance asked by the form is not asked again under the locks.
GrantedByForm(a) == FitsCapacity(a)

Granted(a) == Affordable(a.actor, a.party, a.wants) /\ FitsCapacity(a)

\* Members who must accept get a held seat; a batch never seats them.
MustAccept(a) ==
  MembersOnPage(a.actor, a.party) \cap Invites \cap Wanting(a.wants, "enroll")

\* Mutant: the form's conflict check is trusted.
EntersUnchecked(a) == Wanting(a.wants, "enroll") \ Barred[a.s]

\* The people the batch seats, queues and holds seats for: the host, the
\* shadowbanned and those with a clash are skipped, one by one.
Enters(a) ==
  Wanting(a.wants, "enroll") \ (Barred[a.s] \cup Conflicted(book, a.s))
Queues(a) == Wanting(a.wants, "waitlist") \ Barred[a.s]
Holds(a) ==
  {p \in Enters(a) \cap MustAccept(a) : book[a.s].status[p] = "NONE"}
Leaves(a) == Wanting(a.wants, "cancel") \cap Rows(book[a.s])

\* Cancellations run first; the latest batch regroups the rows it writes.
BatchBook(a, tok) ==
  LET b == book[a.s]
      seats == Enters(a) \ MustAccept(a)
      queues == Queues(a)
      holds == Holds(a)
      status == [p \in Person |->
                   CASE p \in Leaves(a) -> "NONE"
                     [] p \in seats -> "CONFIRMED"
                     [] p \in queues -> "WAITING"
                     [] p \in holds -> "OFFERED"
                     [] OTHER -> b.status[p]]
      token == [p \in Person |-> IF p \in holds THEN tok[p] ELSE b.token[p]]
      party == [p \in Person |->
                  IF p \in seats \cup queues \cup holds
                  THEN a.party ELSE b.party[p]]
  IN [Rewritten(b, status, token, party) EXCEPT
        !.guests[a.actor] = IF a.guests = NoOne THEN @ ELSE a.guests]

\* Each held seat is claimed on its own.
HoldTokens(a) ==
  {tok \in [Holds(a) -> Fresh] :
     \A p, q \in Holds(a) : tok[p] = tok[q] => p = q}

\* Mutant: only a confirmed seat counts as freed, and no guest.
FreesConfirmedSeat(a) ==
  {p \in Leaves(a) : book[a.s].status[p] = "CONFIRMED"} # {}

\* enrollments.freed_seat: set by a cancelled seat and by a removed guest.
FreesSeat(a) ==
  Leaves(a) \cap Seated(book[a.s]) # {} \/ GuestsFreed(a) # 0

EnrollBooks(a) ==
  LET written == {BatchBook(a, tok) : tok \in HoldTokens(a)}
  IN IF FreesSeat(a) THEN UNION {Refilled(a.s, b) : b \in written}
     ELSE written

HandleEnroll(r) ==
  /\ Asked(r, "enroll")
  /\ Granted(ask[r])
  /\ Write(r, ask[r], BatchHolders(ask[r]), EnrollBooks(ask[r]))
  /\ UNCHANGED edits

RefuseEnroll(r) ==
  /\ Asked(r, "enroll")
  /\ CanLock(r, ask[r].s, BatchHolders(ask[r]))
  /\ ~Granted(ask[r])
  /\ Quit(r)

-----------------------------------------------------------------------------
\* Offers (claim_offer, claim_member_offer, decline_offer, expire_offer).

\* A link, a dashboard button or a timer names an offer by its token or by a
\* row of it; its session is looked up before any lock.
AskOffer(r, kind) ==
  \E s \in Session : \E t \in TokensOf(book[s]) :
    /\ Receive(r, [kind |-> kind, s |-> s, token |-> t])
    /\ UNCHANGED edits

AskClaim(r) == r \in Web /\ AskOffer(r, "claim")
AskDecline(r) == r \in Web /\ AskOffer(r, "decline")

\* The timer of an offer, or the sweep.  Both may run before the deadline as
\* the offer's reader sees it, and both may run twice.
AskExpire(r) == r \in Worker /\ AskOffer(r, "expire")

\* _read_locked_party: the offer's people and the waiters of a refill.
OfferHolders(a) ==
  SeatHolders(OfferedUnder(book[a.s], a.token)) \cup RefillHolders(a.s)

OfferStands(a) == OfferedUnder(book[a.s], a.token) # {}

Released(a) ==
  WithoutRows(book[a.s], OfferedUnder(book[a.s], a.token))

\* Mutant: the claim trusts the check made when the seat was offered.
ClashUnchecked(a) == FALSE

Clashing(a) ==
  OfferedUnder(book[a.s], a.token) \cap Conflicted(book, a.s) # {}

\* r holds the locks of a standing offer, before or after its deadline.
AtOffer(r, kind, late) ==
  /\ Asked(r, kind)
  /\ OfferStands(ask[r])
  /\ late <=> ask[r].token \in lapsed

ResolveOffer(r, books) ==
  Write(r, ask[r], OfferHolders(ask[r]), books) /\ UNCHANGED edits

LeaveOffer(r) ==
  CanLock(r, ask[r].s, OfferHolders(ask[r])) /\ Quit(r)

\* Not found: whoever got there first took the offer.
MissOffer(r) ==
  /\ \E kind \in {"claim", "decline", "expire"} : Asked(r, kind)
  /\ ~OfferStands(ask[r])
  /\ LeaveOffer(r)

ClaimTooLate(r) == AtOffer(r, "claim", TRUE) /\ LeaveOffer(r)
ExpireTooEarly(r) == AtOffer(r, "expire", FALSE) /\ LeaveOffer(r)

HandleClaim(r) ==
  LET a == ask[r]
  IN /\ AtOffer(r, "claim", FALSE)
     /\ ~Clashing(a)
     /\ ResolveOffer(r,
          {Confirmed(book[a.s], OfferedUnder(book[a.s], a.token))})

\* One clash releases the whole offer, and the seats are filled again.
ReleaseClaim(r) ==
  LET a == ask[r]
  IN /\ AtOffer(r, "claim", FALSE)
     /\ Clashing(a)
     /\ ResolveOffer(r, Refilled(a.s, Released(a)))

HandleDecline(r) ==
  LET a == ask[r]
  IN /\ \E late \in BOOLEAN : AtOffer(r, "decline", late)
     /\ ResolveOffer(r, Refilled(a.s, Released(a)))

\* Mutant: the deadline compared the wrong way round.
ExpireBeforeDeadline(r) ==
  /\ AtOffer(r, "expire", FALSE)
  /\ ResolveOffer(r, {Released(ask[r])})

\* The drop commits on its own: a worker has no request transaction.
HandleExpire(r) ==
  /\ AtOffer(r, "expire", TRUE)
  /\ ResolveOffer(r, {Released(ask[r])})

\* fill_freed_seats in a transaction of its own.
HandleFill(r) ==
  LET s == ask[r].s
  IN /\ Asked(r, "fill")
     /\ Write(r, ask[r], RefillHolders(s), Refilled(s, book[s]))
     /\ UNCHANGED edits

-----------------------------------------------------------------------------
\* People without an account (AnonymousEnrollmentService).  What these
\* requests read before their locks is read again under them, so they are
\* asked and handled in one step; one that is turned away changes nothing.
\* Whether the session is on the timetable is the exception: enroll asks it
\* before the locks only.

AnonymousFull(b) == SeatsTaken(b) >= Share(b.limit, AnonymousPct)

\* Seated when there is room; when there is none the row that exists stays.
AnonymousBook(b, p) ==
  WithStatus(b, {p},
    IF ~AnonymousFull(b) THEN "CONFIRMED"
    ELSE IF p \in Rows(b) THEN b.status[p] ELSE "WAITING")

\* The session was on the timetable when the request read it: it is there
\* still, or it has been taken off meanwhile.
WasScheduled(b) == b.slot # NoOne \/ b.moved

AnonymousEnroll(r) ==
  \E p \in Anonymous, s \in Session :
    /\ r \in Web
    /\ ask[r] = Idle
    /\ WasScheduled(book[s])
    /\ AnonymousPct # 0 /\ book[s].limit # 0
    /\ p \notin Conflicted(book, s)
    /\ Write(r, [kind |-> "anonymous_enroll", s |-> s, actor |-> p],
             SeatHolders({p}), {AnonymousBook(book[s], p)})
    /\ UNCHANGED edits

AnonymousCancel(r) ==
  \E p \in Anonymous, s \in Session :
    /\ r \in Web
    /\ ask[r] = Idle
    /\ p \in Rows(book[s])
    /\ Write(r, [kind |-> "anonymous_cancel", s |-> s, actor |-> p],
             SeatHolders({p}) \cup RefillHolders(s),
             IF p \in Seated(book[s])
             THEN Refilled(s, WithoutRows(book[s], {p}))
             ELSE {WithoutRows(book[s], {p})})
    /\ UNCHANGED edits

-----------------------------------------------------------------------------
\* Organizer edits (proposal edit, timetable).

CountEdit(k) ==
  /\ edits[k] < MaxEdits[k]
  /\ edits' = [edits EXCEPT ![k] = @ + 1]

\* The edit compares the new limit with the one it loaded before its locks.
AskLimit(r) ==
  \E s \in Session, n \in 0 .. MaxLimit :
    /\ r \in Web
    /\ CountEdit("limit")
    /\ Receive(r, [kind |-> "limit", s |-> s, limit |-> n,
                   old |-> book[s].limit])

HandleLimit(r) ==
  LET a == ask[r]
      b == [book[a.s] EXCEPT !.limit = a.limit]
      fills == a.limit = 0 \/ a.limit > a.old
  IN /\ Asked(r, "limit")
     /\ Write(r, a, IF fills THEN RefillHolders(a.s) ELSE {},
              IF fills THEN Refilled(a.s, b) ELSE {b})
     /\ UNCHANGED edits

\* assign_session, and unassign_session when the new slot is NoOne.  ph is
\* how near the new start is.
Move(r) ==
  \E s \in Session, slot \in Slot \cup {NoOne}, ph \in {"far", "near"} :
    LET b == [book[s] EXCEPT !.slot = slot, !.moved = TRUE]
    IN /\ r \in Web
       /\ ask[r] = Idle
       /\ slot # book[s].slot
       /\ Write(r, [kind |-> "move", s |-> s, slot |-> slot, phase |-> ph],
                IF slot = NoOne THEN {} ELSE RefillHolders(s),
                Refills([book EXCEPT ![s] = b], s, ph, Fresh))
       /\ CountEdit("move")

\* revert_change of an UNASSIGN: a session that was taken off the timetable
\* goes back where it was, however near that start has come meanwhile, and
\* nobody is seated.  (That of an ASSIGN is a Move to NoOne.)  The books do not
\* remember where it was, so it may be any slot.
Revert(r) ==
  \E s \in Session, slot \in Slot, ph \in Phase :
    /\ r \in Web
    /\ ask[r] = Idle
    /\ book[s].slot = NoOne /\ book[s].moved
    /\ Write(r, [kind |-> "move", s |-> s, slot |-> slot, phase |-> ph], {},
             {[book[s] EXCEPT !.slot = slot]})
    /\ CountEdit("revert")

-----------------------------------------------------------------------------
\* The end of a transaction, crashes, and time.

\* Mutant: expire_offer returns after the drop.
NothingAfter(a) == Idle

\* expire_offer goes on to refill the session it dropped the offer from.
After(a) == IF a.kind = "expire" THEN [kind |-> "fill", s |-> a.s] ELSE Idle

Commit(r) ==
  LET a == ask[r]
  IN /\ Open(r)
     /\ book' = [book EXCEPT ![a.s] = pending[r]]
     /\ phase' = IF a.kind = "move" THEN [phase EXCEPT ![a.s] = a.phase]
                 ELSE phase
     /\ lapsed' = lapsed \ (TokensOf(pending[r]) \ TokensOf(book[a.s]))
     /\ ask' = [ask EXCEPT ![r] = After(a)]
     /\ pending' = [pending EXCEPT ![r] = NoOne]
     /\ held' = [held EXCEPT ![r] = {}]
     /\ UNCHANGED <<edits, crashes>>

\* A crash, a database error or a worker restart: the open transaction, if
\* there is one, rolls back, and what the request had still to do is lost.
Crash(r) ==
  /\ ask[r] # Idle
  /\ crashes < MaxCrashes
  /\ crashes' = crashes + 1
  /\ ask' = [ask EXCEPT ![r] = Idle]
  /\ pending' = [pending EXCEPT ![r] = NoOne]
  /\ held' = [held EXCEPT ![r] = {}]
  /\ UNCHANGED <<book, phase, lapsed, edits>>

Lapse(t) ==
  /\ t \in (UNION {TokensOf(book[s]) : s \in Session}) \ lapsed
  /\ lapsed' = lapsed \cup {t}
  /\ UNCHANGED <<book, phase, ask, pending, held, edits, crashes>>

\* An unscheduled session has no start to come nearer.
Tick(s) ==
  /\ s \in Ticking
  /\ book[s].slot # NoOne
  /\ phase[s] # "started"
  /\ phase' = [phase EXCEPT ![s] = IF @ = "far" THEN "near" ELSE "started"]
  /\ UNCHANGED <<book, lapsed, ask, pending, held, edits, crashes>>

Arrival(r) ==
  \/ AskEnroll(r) \/ AskClaim(r) \/ AskDecline(r) \/ AskExpire(r)
  \/ AskLimit(r) \/ AnonymousEnroll(r) \/ AnonymousCancel(r) \/ Move(r)
  \/ Revert(r)

Handling(r) ==
  \/ HandleEnroll(r) \/ HandleClaim(r) \/ ReleaseClaim(r)
  \/ HandleDecline(r) \/ HandleExpire(r) \/ HandleFill(r) \/ HandleLimit(r)

Refusal(r) ==
  RefuseEnroll(r) \/ MissOffer(r) \/ ClaimTooLate(r) \/ ExpireTooEarly(r)

Next ==
  \/ \E r \in Request :
       Arrival(r) \/ Handling(r) \/ Refusal(r) \/ Commit(r) \/ Crash(r)
  \/ \E t \in Token : Lapse(t)
  \/ \E s \in Session : Tick(s)

Spec == Init /\ [][Next]_vars

\* The sweep lists every lapsed offer each five minutes.
Sweep(x, t) == AskExpire(x) /\ t \in lapsed /\ ask'[x].token = t

\* A request that arrived runs to its end: Postgres queues the waiters of a
\* row lock, so one that keeps coming free is granted in the end (strong
\* fairness), and a statement that holds its locks finishes (weak fairness).
\* Nobody has to send a request.
Fairness ==
  /\ \A r \in Request :
       SF_vars(Handling(r) \/ Refusal(r)) /\ WF_vars(Commit(r))
  /\ \A x \in Worker, t \in Token : SF_vars(Sweep(x, t))

FairSpec == Spec /\ Fairness

-----------------------------------------------------------------------------
\* Properties.

\* The type of the variables; every committed book is well formed, and only a
\* request that was asked something has a transaction open.
TypeOK ==
  /\ book \in [Session -> Book]
  /\ \A s \in Session : WellFormed(book[s])
  /\ phase \in [Session -> Phase]
  /\ lapsed \subseteq Token
  /\ ask \in [Request -> Ask]
  /\ pending \in [Request -> Book \cup {NoOne}]
  /\ held \in [Request -> SUBSET Person]
  /\ edits \in [EditKind -> Nat]
  /\ \A k \in EditKind : edits[k] <= MaxEdits[k]
  /\ crashes \in 0 .. MaxCrashes
  /\ \A r \in Request : Open(r) => ask[r] # Idle

\* Nobody holds seats in two overlapping sessions, unless the timetable moved
\* one of them: each of two concurrent requests for one person checks
\* has_conflicts, and the User row locks keep the checks apart.
NoDoubleBooking ==
  \A s, t \in Session :
    s # t /\ Overlap(book[s], book[t])
      => \/ Seated(book[s]) \cap Seated(book[t]) = {}
         \/ book[s].moved \/ book[t].moved

\* The locks of open transactions never cross: one per session, and nobody's
\* User row under two of them.
LocksExclude ==
  \A q, r \in Request :
    q # r /\ Open(q) /\ Open(r)
      => ask[q].s # ask[r].s /\ held[q] \cap held[r] = {}

\* The book b seats somebody, or a guest, whom b0 does not.
TakesSeat(b0, b) ==
  \/ Seated(b) \ Seated(b0) # {}
  \/ GuestSeats(b) \ GuestSeats(b0) # {}

\* Whoever enters, enters within the seats on offer; a session lowered below
\* its occupancy only ever swaps seats.
WithinSeats(b0, b) ==
  TakesSeat(b0, b) => SeatsTaken(b) <= Larger(Ceiling(b), SeatsTaken(b0))

\* A transaction holding L may commit b to session s: the people b seats anew
\* and who pays for them are under L, there are seats for them, and b clashes
\* with no committed book, moves aside.
MayCommit(s, L, b) ==
  /\ WellFormed(b)
  /\ SeatHolders(Seated(b) \ Seated(book[s])) \subseteq L
  /\ WithinSeats(book[s], b)
  /\ b.moved = (book[s].moved \/ b.slot # book[s].slot)
  /\ \A t \in Session \ {s} :
       Overlap(b, book[t]) /\ ~b.moved /\ ~book[t].moved
         => Seated(b) \cap Seated(book[t]) = {}

\* What a request decided under its locks is still right when it commits,
\* whatever the others committed meanwhile.
DecisionsStayRight ==
  /\ LocksExclude
  /\ \A r \in Request : Open(r) => MayCommit(ask[r].s, held[r], pending[r])

\* Nobody is let in past the ceiling, by whatever route: batch, claim, refill,
\* an enrolment without an account, a larger limit or a move.
NeverOversold ==
  [][\A s \in Session : WithinSeats(book[s], book'[s])]_vars

\* A household never holds more distinct people's seats than its owner's
\* passes: form, batch, and refill share one accounting, under the owner's lock.
PassesRespected ==
  \A o \in DOMAIN Passes :
    SpendsPasses(o) => Cardinality(Household(o) \cap HoldsSeat(book)) <= Passes[o]

\* Two rows share a claim token only as one promoted party of one session:
\* claiming or declining moves exactly the people offered together.
OffersKeptApart ==
  \A s, t \in Session : \A p \in Seated(book[s]), q \in Seated(book[t]) :
    book[s].token[p] # NoOne /\ book[s].token[p] = book[t].token[q]
      => s = t /\ (p = q \/ Group(book[s], p) = Group(book[s], q))

\* The step gives up the seat of somebody who leaves the session.
Departs(s) ==
  \/ Seated(book[s]) \ Rows(book'[s]) # {}
  \/ GuestSeats(book[s]) \ GuestSeats(book'[s]) # {}

\* When a seat holder leaves, by a cancel, a decline, a refused claim or a
\* smaller guest count, the same commit leaves nobody behind who could have
\* the seat.  (An expiry drops first and refills in its next transaction.)
DepartureRefills ==
  [][\A r \in Request :
       Commit(r) /\ ask[r].kind # "expire" /\ Departs(ask[r].s)
         => Settled(book', ask[r].s, phase'[ask[r].s])]_vars

\* A claim seats nobody who has come to hold a seat at the same time since
\* the offer was made (the timetable may have moved it there): the recheck of
\* _claim.  Moves are kept out of the claim's own transaction by the run.
ClaimKeepsApart ==
  [][\A r \in Web :
       Commit(r) /\ ask[r].kind = "claim"
         => \A p \in Person :
              book[ask[r].s].token[p] = ask[r].token
                => p \notin Seated(book'[ask[r].s]) \cap Conflicted(book', ask[r].s)]_vars

\* The abstract ledger of seats, read off the committed books.
Ledger == INSTANCE SeatLedger WITH
  roster <- [s \in Session |-> Seated(book[s])],
  guests <- [s \in Session |-> Cardinality(GuestSeats(book[s]))],
  ceiling <- [s \in Session |-> Ceiling(book[s])],
  slot <- [s \in Session |-> book[s].slot],
  moved <- [s \in Session |-> book[s].moved]

\* The concurrent transactions look like single steps on a ledger: one
\* session at a time, nobody let in past the ceiling or over a clash.
ImplementsLedger == Ledger!Spec

\* An offer past its deadline does not hold its seats for ever, whoever
\* claims, declines or crashes meanwhile: the sweep gets to it.
LapsedOffersReleased ==
  \A s \in Session, t \in Token :
    t \in lapsed /\ t \in TokensOf(book[s])
      ~> ~(t \in lapsed /\ t \in TokensOf(book[s]))

\* A free seat somebody waits for is handed on, through expiries and the start
\* coming nearer, unless a crash got in the way.
SeatsHandedOn ==
  \A s \in Session :
    ~Settled(book, s, phase[s])
      ~> (Settled(book, s, phase[s]) \/ crashes # 0)

\* The same, crashes or not: what expire_offer and the cron floor promise.
NoIdleSeat ==
  \A s \in Session : ~Settled(book, s, phase[s]) ~> Settled(book, s, phase[s])

-----------------------------------------------------------------------------
\* What the comments and documents of the code say, and the code does not do.

\* forms.py: a member's existing participation is theirs alone, a leader's
\* batch never cancels it and never changes it.
MembersOwnTheirSeats ==
  [][\A r \in Web :
       Commit(r) /\ ask[r].kind = "enroll"
         => \A p \in MembersOnPage(ask[r].actor, ask[r].party) :
              book[ask[r].s].status[p] = "CONFIRMED"
                => book'[ask[r].s].status[p] = "CONFIRMED"]_vars
=============================================================================
