------------------------------ MODULE Seating ------------------------------
(***************************************************************************)
(* One event's sessions as data: who sits where, how many seats a session  *)
(* offers, who is busy elsewhere, whose passes a seat spends, and what a   *)
(* refill of a session's free seats does.                                  *)
(*                                                                         *)
(* A book is the state one transaction of the enrollment code writes: the  *)
(* participations of one session with the session's limit and placement.   *)
(*   status   the status of each person's participation, NONE for no row   *)
(*   token    the claim token of an OFFERED row                            *)
(*   party    the party a WAITING or OFFERED row was enrolled through,     *)
(*            named by its leader (nothing reads it on a CONFIRMED row)    *)
(*   before   <<p, q>> when p's row was created before q's                 *)
(*   guests   how many walk-in guests each person hosts                    *)
(*   limit    participants_limit                                           *)
(*   slot     the agenda item's time slot, NoOne when unscheduled          *)
(*   moved    history: the timetable has moved this session                *)
(* Operators that look across sessions take all the books B.               *)
(***************************************************************************)
EXTENDS Promotion

CONSTANTS
  Session, Person, Token, Slot,
  NoOne,            \* no party, no token, no slot
  Owner,            \* Owner[p]: who pays for p's seat (a companion's manager)
  Passes,           \* Passes[o]: the allowance of each owner that has one
  Barred,           \* Barred[s]: the host of s and those the host shadowbans
  Mode,             \* Mode[s]: "AUTO" or "OFFER_CLAIM"
  SlotClash,        \* the pairs of slots that overlap in time
  Rank,             \* the order in which one batch creates its rows
  PctOpen,          \* percentage_slots of the open window, 0 when none
  PctRestricted,    \* the same for the window kept to configured users
  AllowAnonymous,   \* the windows that take people without an account
  MaxLimit,         \* bound: the largest participants_limit
  MaxGuests         \* MAX_GUESTS of the enroll form

ASSUME EventAssumption ==
  /\ NoOne \notin Person \cup Token \cup Slot
  /\ Owner \in [Person -> Person]
  /\ \A p \in Person : Owner[Owner[p]] = Owner[p]
  /\ DOMAIN Passes \subseteq Person
  /\ \A o \in DOMAIN Passes : Passes[o] \in Nat
  /\ Barred \in [Session -> SUBSET Person]
  /\ Mode \in [Session -> {"AUTO", "OFFER_CLAIM"}]
  /\ SlotClash \subseteq Slot \X Slot
  /\ \A pair \in SlotClash : <<pair[2], pair[1]>> \in SlotClash
  /\ Rank \in [Person -> Int]
  /\ \A p, q \in Person : Rank[p] = Rank[q] => p = q
  /\ PctOpen \in 0 .. 100 /\ PctRestricted \in 0 .. 100
  /\ AllowAnonymous \subseteq {"open", "restricted"}
  /\ MaxLimit \in Nat /\ MaxGuests \in Nat

ASSUME PeopleAreFinite == IsFiniteSet(Person)

Status == {"NONE", "CONFIRMED", "WAITING", "OFFERED"}
Occupies == {"CONFIRMED", "OFFERED"}

Book ==
  [status : [Person -> Status], token : [Person -> Token \cup {NoOne}],
   party : [Person -> Person \cup {NoOne}], before : SUBSET (Person \X Person),
   guests : [Person -> 0 .. MaxGuests], limit : 0 .. MaxLimit,
   slot : Slot \cup {NoOne}, moved : BOOLEAN]

Rows(b) == {p \in Person : b.status[p] # "NONE"}
Waiting(b) == {p \in Person : b.status[p] = "WAITING"}
Seated(b) == {p \in Person : b.status[p] \in Occupies}
OfferedUnder(b, t) == {p \in Person : b.status[p] = "OFFERED" /\ b.token[p] = t}
TokensOf(b) == {b.token[p] : p \in Person} \ {NoOne}

\* Exactly the OFFERED rows carry a claim token, and the rows of a session
\* are in one creation order.
WellFormed(b) ==
  /\ \A p \in Person : b.token[p] # NoOne <=> b.status[p] = "OFFERED"
  /\ b.before \subseteq Rows(b) \X Rows(b)
  /\ \A p, q \in Rows(b) : p # q => (<<p, q>> \in b.before <=> <<q, p>> \notin b.before)
  /\ \A p, q, w \in Rows(b) :
       <<p, q>> \in b.before /\ <<q, w>> \in b.before => <<p, w>> \in b.before

GuestSeats(b) ==
  {hk \in Person \X (1 .. MaxGuests) : hk[2] <= b.guests[hk[1]]}

-----------------------------------------------------------------------------
\* Capacity: the windows, each actor's share of the limit, the free seats.

Larger(m, n) == IF m >= n THEN m ELSE n

Configured(v) == v \in DOMAIN Passes /\ Passes[v] > 0

\* The percentage of the limit an actor may fill: the best window open to them.
ActorPct(v) == IF Configured(v) THEN Larger(PctOpen, PctRestricted) ELSE PctOpen
AnonymousPct == IF "open" \in AllowAnonymous THEN PctOpen ELSE 0
SessionPct == Larger(PctOpen, PctRestricted)

\* An actor's batch spends passes when their best window is the restricted
\* one; of two equal windows the open one seats them.
SpendsPasses(v) == Configured(v) /\ PctRestricted > PctOpen

Share(limit, pct) == (limit * pct + 99) \div 100

\* A limit of 0 closes every window.
TakesEnrollment(b) == b.limit # 0 /\ SessionPct # 0

\* effective_participants_limit: the limit itself when no window seats it.
Ceiling(b) == IF TakesEnrollment(b) THEN Share(b.limit, SessionPct) ELSE b.limit

\* enrolled_count
SeatsTaken(b) == Cardinality(Seated(b)) + Cardinality(GuestSeats(b))

SeatsLeft(b) == Larger(0, Ceiling(b) - SeatsTaken(b))

-----------------------------------------------------------------------------
\* Across the sessions of the event.

Overlap(b, c) == <<b.slot, c.slot>> \in SlotClash

\* conflicted_user_ids
Conflicted(B, s) ==
  UNION {Seated(B[t]) : t \in {u \in Session \ {s} : Overlap(B[s], B[u])}}

Household(o) == {p \in Person : Owner[p] = o}

\* occupying_user_ids, over everyone
HoldsSeat(B) == UNION {Seated(B[s]) : s \in Session}

-----------------------------------------------------------------------------
\* Rows of one session, written together.

\* Mutant: the place of a new row behind the older ones is lost.
RewrittenUnordered(b, status, token, party) ==
  [b EXCEPT !.status = status,
            !.token = [p \in Person |->
                         IF status[p] = "OFFERED" THEN token[p] ELSE NoOne],
            !.party = party,
            !.before = {pq \in b.before : status[pq[1]] # "NONE"
                                             /\ status[pq[2]] # "NONE"}]

\* The book b after its rows take these statuses, tokens and parties.  A row
\* keeps its place in the creation order until it is deleted.
Rewritten(b, status, token, party) ==
  LET old == Rows(b)
      now == {p \in Person : status[p] # "NONE"}
      Older(p, q) == \/ <<p, q>> \in b.before
                     \/ p \in old /\ q \notin old
                     \/ p \notin old /\ q \notin old /\ Rank[p] < Rank[q]
  IN [b EXCEPT
        !.status = status,
        !.token = [p \in Person |->
                     IF status[p] = "OFFERED" THEN token[p] ELSE NoOne],
        !.party = [p \in Person |->
                     IF status[p] \in {"WAITING", "OFFERED"}
                     THEN party[p] ELSE NoOne],
        !.before = {pq \in now \X now : Older(pq[1], pq[2])}]

WithStatus(b, P, new) ==
  Rewritten(b, [p \in Person |-> IF p \in P THEN new ELSE b.status[p]],
            b.token, b.party)

WithoutRows(b, P) == WithStatus(b, P, "NONE")
Confirmed(b, P) == WithStatus(b, P, "CONFIRMED")

\* P hold seats under the tokens tok, until they claim them.
Offered(b, P, tok, party) ==
  Rewritten(b, [p \in Person |-> IF p \in P THEN "OFFERED" ELSE b.status[p]],
            [p \in Person |-> IF p \in P THEN tok[p] ELSE b.token[p]],
            party)

-----------------------------------------------------------------------------
\* The refill of a session (WaitlistPromotionService.fill_freed_seats).

\* promotion_group_key: the party a row was enrolled through, else its owner.
Group(b, p) ==
  IF b.party[p] # NoOne THEN <<"party", b.party[p]>> ELSE <<"owner", Owner[p]>>

PromotionState(B, s) ==
  LET W == Waiting(B[s])
      seated == HoldsSeat(B)
  IN [seats    |-> SeatsLeft(B[s]),
      waiting  |-> W,
      before   |-> B[s].before,
      eligible |-> W \ (Conflicted(B, s) \cup Barred[s]),
      group    |-> [p \in W |-> Group(B[s], p)],
      owner    |-> [p \in W |-> Owner[p]],
      slots    |-> [o \in {Owner[p] : p \in W} \cap DOMAIN Passes |->
                      Passes[o] - Cardinality(Household(o) \cap seated)],
      seated   |-> W \cap seated]

Selections(st) == {sel \in SUBSET st.waiting : IsSelection(st, sel)}

\* Mutant: the token is drawn once, above the loop over the parties.
OneTokenForAll(st, sel, fresh) == {[p \in sel |-> t] : t \in fresh}

\* One fresh token per promoted party, shared by its members.
TokenDraws(st, sel, fresh) ==
  {tok \in [sel -> fresh] :
     \A p, q \in sel : tok[p] = tok[q] <=> st.group[p] = st.group[q]}

\* An offer that could outlive the start is not made: the seat is given.
\* phase says how near the start is: "far", "near", or "started".
Refills(B, s, phase, fresh) ==
  LET b == B[s]
      st == PromotionState(B, s)
      closed == phase = "started" \/ b.slot = NoOne
      gives == Mode[s] = "AUTO" \/ phase = "near"
  IN IF closed THEN {b}
     ELSE UNION {IF gives THEN {Confirmed(b, sel)}
                 ELSE {Offered(b, sel, tok, b.party) :
                         tok \in TokenDraws(st, sel, fresh)} :
                   sel \in Selections(st)}

\* Nobody waiting could be seated now.
Settled(B, s, phase) ==
  \/ phase = "started"
  \/ B[s].slot = NoOne
  \/ Selections(PromotionState(B, s)) = {{}}
=============================================================================
