-------------------------- MODULE EnrollmentProofs --------------------------
(***************************************************************************)
(* The seat decisions of an event, for every event and any number of       *)
(* requests: nobody is booked twice, nobody is let in past the seats on    *)
(* offer, no household holds more seats than it has passes, a claim token  *)
(* names one promoted party; and the concurrent transactions implement     *)
(* the ledger of seats.                                                    *)
(*                                                                         *)
(* The properties speak of committed books, and a request decides before   *)
(* others commit; so the inductive invariant also says, of each open       *)
(* transaction, that what it is about to write would be right today: free  *)
(* of clashes, within the seats, paid for, its tokens its session's or     *)
(* fresh, and seating nobody whose row, or whose payer's row, it has not   *)
(* locked.  Another commit cannot spoil that: it is about another session, *)
(* and would have to seat somebody under both locks.                       *)
(***************************************************************************)
EXTENDS Enrollment, SeatingProofs

-----------------------------------------------------------------------------
\* The parts of the invariant the runs do not name.

\* No row of one session shares a claim token with a row of another, be the
\* rows committed or about to be; rows of one session that share one are one
\* promoted party.
OffersStayApart ==
  /\ \A s \in Session : OfferedTogether(book[s])
  /\ \A s, t \in Session : s # t => TokensOf(book[s]) \cap TokensOf(book[t]) = {}
  /\ \A r \in Request : Open(r) =>
       /\ OfferedTogether(pending[r])
       /\ \A t \in Session \ {ask[r].s} :
            TokensOf(pending[r]) \cap TokensOf(book[t]) = {}
       /\ \A q \in Request \ {r} :
            Open(q) => TokensOf(pending[r]) \cap TokensOf(pending[q]) = {}

\* A form names the viewer's own people and, when the viewer leads the party,
\* its members.
FormIsOwn(a) ==
  a.kind = "enroll" =>
    /\ a.actor \in Accounts
    /\ a.party \in PartiesOf(a.actor)
    /\ DOMAIN a.wants \subseteq OwnRoster(a.actor, a.party)
                                  \cup MembersOnPage(a.actor, a.party)

FormsAreOwn == \A r \in Request : FormIsOwn(ask[r])

\* Members of other people's parties answer for no companions.  (Where one
\* does, a batch leaves the companions out of the count, and the passes can be
\* overspent: forms.py:466.)
MembersAlone ==
  \A l \in DOMAIN Members : \A m \in Members[l] \cap DOMAIN Passes : Household(m) = {m}

\* Everybody seated in the event once b is committed to s.
SeatedAfter(s, b) ==
  Seated(b) \cup UNION {Seated(book[t]) : t \in Session \ {s}}

\* The households b seats somebody of have the passes for it.
PaidFor(s, b) ==
  \A o \in DOMAIN Passes :
    MembersAlone /\ SpendsPasses(o) /\ (Seated(b) \ Seated(book[s])) \cap Household(o) # {}
      => Cardinality(Household(o) \cap SeatedAfter(s, b)) <= Passes[o]

PassesStay ==
  /\ MembersAlone => PassesRespected
  /\ \A r \in Request : Open(r) => PaidFor(ask[r].s, pending[r])

IInv ==
  /\ TypeOK
  /\ DecisionsStayRight
  /\ NoDoubleBooking
  /\ OffersStayApart
  /\ FormsAreOwn
  /\ PassesStay

\* The rows b holds OFFERED were so before, or carry a token nobody knows.
DrawsFresh(s, b) ==
  OfferedTogether(b) /\ TokensOf(b) \subseteq TokensOf(book[s]) \cup Fresh

\* What a handler may write to session s under the locks L.
MayWrite(s, L, b) ==
  b \in Book /\ MayCommit(s, L, b) /\ DrawsFresh(s, b) /\ PaidFor(s, b)

-----------------------------------------------------------------------------
\* Requests and their locks.

\* lock_seat_holders locks at least the people it is given.
LEMMA HoldersContain ==
  ASSUME NEW P PROVE P \subseteq SeatHolders(P)
BY DEF SeatHolders

\* The people and pass owners locked for a set of people are people.
LEMMA HoldersArePeople ==
  ASSUME NEW P \in SUBSET Person PROVE SeatHolders(P) \subseteq Person
BY EventAssumption DEF SeatHolders

\* Every request but an idle one is about a session of the event.
LEMMA AskedSession ==
  ASSUME NEW a \in Ask, a # Idle PROVE a.s \in Session
BY DEF Ask, Idle

\* The tokens a transaction may draw are tokens.
LEMMA FreshTokens == Fresh \in SUBSET Token
BY DEF Fresh

\* A pending book is never mistaken for no transaction.
LEMMA NoOneIsNoBook == NoOne \notin Book
BY RequestAssumption

\* The committed book of a session is always something a transaction could
\* write back.
LEMMA CommittedBook ==
  ASSUME IInv, NEW s \in Session
  PROVE  /\ book[s] \in Book
         /\ WellFormed(book[s])
         /\ \A t \in Session \ {s} :
              Overlap(book[s], book[t]) /\ ~book[s].moved /\ ~book[t].moved
                => Seated(book[s]) \cap Seated(book[t]) = {}
BY DEF IInv, TypeOK, NoDoubleBooking

\* More people locked means more User rows locked.
LEMMA HoldersGrow ==
  ASSUME NEW P, NEW Q, P \subseteq Q PROVE SeatHolders(P) \subseteq SeatHolders(Q)
BY DEF SeatHolders

\* Tokens not in use are in no book.
LEMMA FreshApart ==
  /\ \A t \in Session : TokensOf(book[t]) \cap Fresh = {}
  /\ \A q \in Request : Open(q) => TokensOf(pending[q]) \cap Fresh = {}
<1>1. ASSUME NEW t \in Session PROVE TokensOf(book[t]) \subseteq TokensInUse
  BY DEF TokensInUse
<1>2. ASSUME NEW q \in Request, Open(q) PROVE TokensOf(pending[q]) \subseteq TokensInUse
  <2> DEFINE theirs == {TokensOf(pending[p]) : p \in {o \in Request : Open(o)}}
  <2>1. TokensOf(pending[q]) \in theirs
    BY <1>2
  <2>2. UNION theirs \subseteq TokensInUse
    BY DEF TokensInUse
  <2> HIDE DEF theirs
  <2> QED
    BY <2>1, <2>2
<1> QED
  BY <1>1, <1>2 DEF Fresh

\* A book that seats nobody anew takes nobody's seat.
LEMMA NobodyEnters ==
  ASSUME NEW b0, NEW b, Seated(b) \subseteq Seated(b0),
         GuestSeats(b) \subseteq GuestSeats(b0)
  PROVE  WithinSeats(b0, b)
BY DEF WithinSeats, TakesSeat

\* A book that gives up seats, or gives them only to people without a clash
\* who are under the locks with their payers, may be committed.
LEMMA SeatsUnclashed ==
  ASSUME IInv, NEW s \in Session, NEW L, NEW b \in Book, WellFormed(b),
         NEW new, SeatHolders(new) \subseteq L,
         Seated(b) \subseteq Seated(book[s]) \cup new,
         b.slot = book[s].slot, b.moved = book[s].moved,
         WithinSeats(book[s], b),
         new \cap Conflicted(book, s) = {}
  PROVE  MayCommit(s, L, b)
<1>1. ASSUME NEW t \in Session \ {s}, Overlap(b, book[t]),
             ~b.moved, ~book[t].moved
      PROVE  Seated(b) \cap Seated(book[t]) = {}
  <2>1. Overlap(book[s], book[t])
    BY <1>1 DEF Overlap
  <2>2. new \cap Seated(book[t]) = {}
    BY <2>1 DEF Conflicted
  <2>3. Seated(book[s]) \cap Seated(book[t]) = {}
    BY <1>1, <2>1, CommittedBook
  <2> QED
    BY <2>2, <2>3
<1>2. SeatHolders(Seated(b) \ Seated(book[s])) \subseteq L
  BY DEF SeatHolders
<1>3. b.moved = (book[s].moved \/ b.slot # book[s].slot)
  BY CommittedBook DEF Book
<1> QED
  BY <1>1, <1>2, <1>3 DEF MayCommit

\* A book whose rows were confirmed, queued or deleted, or that was moved on
\* the timetable, may be written.
LEMMA NobodyNewMayWrite ==
  ASSUME IInv, NEW s \in Session, NEW L, NEW b \in Book, WellFormed(b),
         Seated(b) \subseteq Seated(book[s]), b.guests = book[s].guests,
         b.moved = (book[s].moved \/ b.slot # book[s].slot),
         KeepsOffers(book[s], b)
  PROVE  MayWrite(s, L, b)
<1>1. /\ book[s] \in Book /\ WellFormed(book[s])
      /\ OfferedTogether(book[s])
  BY CommittedBook DEF IInv, OffersStayApart
<1>2. SeatHolders(Seated(b) \ Seated(book[s])) \subseteq L
  BY DEF SeatHolders
<1>3. WithinSeats(book[s], b)
  BY NobodyEnters DEF GuestSeats
<1>4. ASSUME NEW t \in Session \ {s}, Overlap(b, book[t]),
             ~b.moved, ~book[t].moved
      PROVE  Seated(b) \cap Seated(book[t]) = {}
  <2>1. ~book[s].moved /\ b.slot = book[s].slot
    BY <1>4
  <2>2. Overlap(book[s], book[t])
    BY <1>4, <2>1 DEF Overlap
  <2> QED
    BY <1>4, <2>1, <2>2, CommittedBook
<1>5. MayCommit(s, L, b)
  BY <1>2, <1>3, <1>4 DEF MayCommit
<1>6. DrawsFresh(s, b)
  BY <1>1, OffersKept DEF DrawsFresh
<1>7. PaidFor(s, b)
  BY DEF PaidFor
<1> QED
  BY <1>5, <1>6, <1>7 DEF MayWrite

\* A refill takes no more seats than its session has left.
LEMMA RefillWithinSeats ==
  ASSUME NEW b0 \in Book, NEW b \in Book, NEW c \in Book, WithinSeats(b0, b),
         NEW sel \in SUBSET Person, sel = {} \/ Cardinality(sel) <= SeatsLeft(b),
         Seated(c) = Seated(b) \cup sel,
         c.limit = b.limit, c.guests = b.guests
  PROVE  WithinSeats(b0, c)
<1>1. GuestSeats(c) = GuestSeats(b) /\ Ceiling(c) = Ceiling(b)
  BY DEF GuestSeats, Ceiling, TakesEnrollment
<1>2. CASE sel = {}
  <2>1. Seated(c) = Seated(b)
    BY <1>2
  <2>2. SeatsTaken(c) = SeatsTaken(b)
    BY <1>1, <2>1 DEF SeatsTaken
  <2> QED
    BY <1>1, <2>1, <2>2 DEF WithinSeats, TakesSeat
<1>3. CASE sel # {}
  <2>1. IsFiniteSet(sel) /\ Cardinality(sel) \in Nat /\ Cardinality(sel) # 0
    BY <1>3, PeopleAreFinite, FS_Subset, FS_CardinalityType, FS_EmptySet
  <2>2. /\ IsFiniteSet(Seated(b)) /\ Cardinality(Seated(b)) \in Nat
        /\ Cardinality(GuestSeats(b)) \in Nat
        /\ Cardinality(Seated(c)) \in Nat
        /\ Ceiling(b) \in Nat /\ SeatsTaken(b0) \in Nat
    BY SeatsCounted, CeilingCounted
  <2>3. Cardinality(Seated(c)) <= Cardinality(Seated(b)) + Cardinality(sel)
    <3>1. /\ Cardinality(Seated(b) \cup sel)
               = Cardinality(Seated(b)) + Cardinality(sel) - Cardinality(Seated(b) \cap sel)
          /\ Cardinality(Seated(b) \cap sel) \in Nat
      BY <2>1, <2>2, FS_Union, FS_Intersection, FS_CardinalityType
    <3> QED
      BY <2>1, <2>2, <3>1
  <2>4. Cardinality(sel) <= Ceiling(b) - SeatsTaken(b)
    BY <1>3, <2>1, <2>2, SeatsCounted DEF SeatsLeft, Larger
  <2>5. SeatsTaken(c) <= Ceiling(c)
    BY <1>1, <2>1, <2>2, <2>3, <2>4 DEF SeatsTaken
  <2>6. SeatsTaken(c) \in Nat
    BY SeatsCounted
  <2> QED
    BY <1>1, <2>2, <2>5, <2>6 DEF WithinSeats, Larger
<1> QED
  BY <1>2, <1>3

\* After the book b of s, which may be written itself, a refill of s writes
\* books that may be written, when the waiters of b are under the locks.
LEMMA RefillMayWrite ==
  ASSUME IInv, NEW s \in Session, NEW L, NEW b, MayWrite(s, L, b),
         SeatHolders(Waiting(b)) \subseteq L,
         NEW ph, NEW fresh \in SUBSET (Fresh \ TokensOf(b)),
         NEW c \in Refills([book EXCEPT ![s] = b], s, ph, fresh)
  PROVE  MayWrite(s, L, c)
<1> DEFINE B == [book EXCEPT ![s] = b]
<1>0. /\ b \in Book /\ MayCommit(s, L, b) /\ WellFormed(b)
      /\ OfferedTogether(b) /\ TokensOf(b) \subseteq TokensOf(book[s]) \cup Fresh
      /\ PaidFor(s, b)
      /\ book[s] \in Book /\ fresh \in SUBSET Token
  BY CommittedBook, FreshTokens DEF MayWrite, MayCommit, DrawsFresh
<1>1. B \in [Session -> Book] /\ B[s] = b
  BY <1>0 DEF IInv, TypeOK
<1>2. WellFormed(B[s])
  BY <1>0, <1>1
<1>3. \A t \in Session \ {s} : B[t] = book[t]
  BY DEF IInv, TypeOK
<1>4. c \in Refills(B, s, ph, fresh)
  OBVIOUS
<1> HIDE DEF B
<1>5. /\ c \in Book /\ WellFormed(c)
      /\ c.slot = b.slot /\ c.moved = b.moved
      /\ c.limit = b.limit /\ c.guests = b.guests
      /\ \E sel \in SUBSET (Waiting(b) \ Conflicted(B, s)) :
           Seated(c) = Seated(b) \cup sel /\ (sel = {} \/ Affords(B, s, sel))
  BY <1>0, <1>1, <1>2, <1>4, RefillBook
<1>6. PICK sel \in SUBSET (Waiting(b) \ Conflicted(B, s)) :
        Seated(c) = Seated(b) \cup sel /\ (sel = {} \/ Affords(B, s, sel))
  BY <1>5
<1>7. ASSUME NEW t \in Session \ {s}, Overlap(c, book[t]),
             ~c.moved, ~book[t].moved
      PROVE  Seated(c) \cap Seated(book[t]) = {}
  <2>1. Overlap(b, book[t]) /\ ~b.moved
    BY <1>5, <1>7 DEF Overlap
  <2>2. Seated(b) \cap Seated(book[t]) = {}
    BY <1>0, <1>7, <2>1 DEF MayCommit
  <2>3. Overlap(B[s], B[t])
    BY <1>1, <1>3, <2>1
  <2>4. Seated(book[t]) \subseteq Conflicted(B, s)
    BY <1>3, <2>3 DEF Conflicted
  <2> QED
    BY <1>6, <2>2, <2>4
<1>8. SeatHolders(Seated(c) \ Seated(book[s])) \subseteq L
  <2>1. SeatHolders(Seated(b) \ Seated(book[s])) \subseteq L
    BY <1>0 DEF MayCommit
  <2> QED
    BY <1>6, <2>1 DEF SeatHolders
<1>9. WithinSeats(book[s], c)
  <2>1. WithinSeats(book[s], b) /\ sel \in SUBSET Person
    BY <1>0, <1>6 DEF MayCommit, Waiting
  <2>2. sel = {} \/ Cardinality(sel) <= SeatsLeft(b)
    BY <1>1, <1>6 DEF Affords
  <2> QED
    BY <1>0, <1>5, <1>6, <2>1, <2>2, RefillWithinSeats
<1>10. c.moved = (book[s].moved \/ c.slot # book[s].slot)
  BY <1>0, <1>5 DEF MayCommit
<1>11. MayCommit(s, L, c)
  BY <1>5, <1>7, <1>8, <1>9, <1>10 DEF MayCommit
<1>12. DrawsFresh(s, c)
  <2>1. /\ OfferedTogether(B[s]) /\ fresh \cap TokensOf(B[s]) = {}
    BY <1>0, <1>1
  <2>2. OfferedTogether(c) /\ TokensOf(c) \subseteq TokensOf(B[s]) \cup fresh
    BY <1>0, <1>1, <1>2, <1>4, <2>1, RefillOffers
  <2> QED
    BY <1>0, <1>1, <2>2 DEF DrawsFresh
<1>13. PaidFor(s, c)
  <2> SUFFICES ASSUME NEW o \in DOMAIN Passes, MembersAlone, SpendsPasses(o),
                      (Seated(c) \ Seated(book[s])) \cap Household(o) # {}
               PROVE  Cardinality(Household(o) \cap SeatedAfter(s, c)) <= Passes[o]
    BY DEF PaidFor
  <2>1. HoldsSeat(B) = SeatedAfter(s, b)
    BY <1>1, <1>3 DEF HoldsSeat, SeatedAfter
  <2>2. SeatedAfter(s, c) = HoldsSeat(B) \cup sel
    BY <1>6, <2>1 DEF SeatedAfter
  <2>3. CASE sel \cap Household(o) = {}
    <3>1. (Seated(b) \ Seated(book[s])) \cap Household(o) # {}
      BY <1>6, <2>3
    <3>2. Household(o) \cap SeatedAfter(s, c) = Household(o) \cap SeatedAfter(s, b)
      BY <2>1, <2>2, <2>3
    <3> QED
      BY <1>0, <3>1, <3>2 DEF PaidFor
  <2>4. CASE sel \cap Household(o) # {}
    BY <1>6, <2>2, <2>4 DEF Affords
  <2> QED
    BY <2>3, <2>4
<1> QED
  BY <1>5, <1>11, <1>12, <1>13 DEF MayWrite

-----------------------------------------------------------------------------
\* The steps every request takes.

EditsOK == edits \in [EditKind -> Nat] /\ \A k \in EditKind : edits[k] <= MaxEdits[k]

\* Writing a book keeps claim tokens apart: its own are its session's, or fresh.
LEMMA WriteKeepsOffers ==
  ASSUME IInv, NEW r \in Request, ~Open(r), NEW a, a.s \in Session,
         NEW b, b # NoOne, DrawsFresh(a.s, b),
         \A q \in Request : Open(q) => ask[q].s # a.s,
         book' = book, ask' = [ask EXCEPT ![r] = a],
         pending' = [pending EXCEPT ![r] = b]
  PROVE  OffersStayApart'
<1>1. /\ ask'[r] = a /\ pending'[r] = b
      /\ \A q \in Request \ {r} : ask'[q] = ask[q] /\ pending'[q] = pending[q]
  BY DEF IInv, TypeOK
<1>2. \A q \in Request \ {r} : Open(q)' <=> Open(q)
  BY <1>1 DEF Open
<1>3. /\ OfferedTogether(b)
      /\ TokensOf(b) \subseteq TokensOf(book[a.s]) \cup Fresh
  BY DEF DrawsFresh
<1>4. ASSUME NEW t \in Session \ {a.s}
      PROVE  TokensOf(b) \cap TokensOf(book[t]) = {}
  <2>1. TokensOf(book[a.s]) \cap TokensOf(book[t]) = {}
    BY DEF IInv, OffersStayApart
  <2> QED
    BY <1>3, <2>1, FreshApart
<1>5. ASSUME NEW q \in Request \ {r}, Open(q)
      PROVE  TokensOf(b) \cap TokensOf(pending[q]) = {}
  <2>1. TokensOf(book[a.s]) \cap TokensOf(pending[q]) = {}
    BY <1>5 DEF IInv, OffersStayApart
  <2> QED
    BY <1>3, <1>5, <2>1, FreshApart
<1>6. ASSUME NEW q \in Request \ {r}, Open(q)
      PROVE  /\ OfferedTogether(pending[q])
             /\ \A t \in Session \ {ask[q].s} :
                  TokensOf(pending[q]) \cap TokensOf(book[t]) = {}
             /\ \A p \in Request \ {q} :
                  Open(p) => TokensOf(pending[q]) \cap TokensOf(pending[p]) = {}
  BY <1>6 DEF IInv, OffersStayApart
<1>7. /\ \A s \in Session : OfferedTogether(book[s])
      /\ \A s, t \in Session : s # t => TokensOf(book[s]) \cap TokensOf(book[t]) = {}
  BY DEF IInv, OffersStayApart
<1>8. ASSUME NEW q \in Request, Open(q)'
      PROVE  /\ OfferedTogether(pending'[q])
             /\ \A t \in Session \ {ask'[q].s} :
                  TokensOf(pending'[q]) \cap TokensOf(book'[t]) = {}
             /\ \A p \in Request \ {q} :
                  Open(p)' => TokensOf(pending'[q]) \cap TokensOf(pending'[p]) = {}
  <2>1. CASE q = r
    BY <1>1, <1>2, <1>3, <1>4, <1>5, <2>1
  <2>2. CASE q # r
    <3>1. Open(q) /\ pending'[q] = pending[q] /\ ask'[q] = ask[q]
      BY <1>1, <1>2, <1>8, <2>2
    <3>2. ASSUME NEW p \in Request \ {q}, Open(p)'
          PROVE  TokensOf(pending'[q]) \cap TokensOf(pending'[p]) = {}
      BY <1>1, <1>2, <1>5, <1>6, <2>2, <3>1, <3>2
    <3> QED
      BY <1>6, <2>2, <3>1, <3>2
  <2> QED
    BY <2>1, <2>2
<1> QED
  BY <1>7, <1>8 DEF OffersStayApart

\* A transaction that takes its locks and writes a book that may be written
\* keeps the invariant.
LEMMA WriteStep ==
  ASSUME IInv, NEW r \in Request, ~Open(r),
         NEW a \in Ask, a # Idle, FormIsOwn(a), NEW L \in SUBSET Person, NEW books,
         Write(r, a, L, books), EditsOK',
         \A b \in books : MayWrite(a.s, L, b)
  PROVE  IInv'
<1>1. /\ book' = book /\ phase' = phase /\ lapsed' = lapsed
      /\ crashes' = crashes
      /\ ask' = [ask EXCEPT ![r] = a]
      /\ held' = [held EXCEPT ![r] = L]
      /\ CanLock(r, a.s, L)
  BY DEF Write
<1>2. PICK b \in books : pending' = [pending EXCEPT ![r] = b]
  BY DEF Write
<1>3. /\ b \in Book /\ b # NoOne /\ MayCommit(a.s, L, b)
      /\ DrawsFresh(a.s, b) /\ PaidFor(a.s, b)
  BY NoOneIsNoBook DEF MayWrite
<1>4. /\ ask \in [Request -> Ask] /\ held \in [Request -> SUBSET Person]
      /\ pending \in [Request -> Book \cup {NoOne}]
  BY DEF IInv, TypeOK
<1>5. TypeOK'
  <2>1. \A q \in Request : Open(q)' => ask'[q] # Idle
    BY <1>1, <1>2, <1>4 DEF IInv, TypeOK, Open
  <2> QED
    BY <1>1, <1>2, <1>3, <1>4, <2>1 DEF IInv, TypeOK, EditsOK, WellFormed, Rows
<1>6. LocksExclude'
  BY <1>1, <1>2, <1>4 DEF CanLock, IInv, DecisionsStayRight, LocksExclude, Open
<1>7. ASSUME NEW q \in Request, Open(q)'
      PROVE  MayCommit(ask[q].s, held[q], pending[q])'
  <2>1. CASE q = r
    BY <1>1, <1>2, <1>3, <1>4, <2>1 DEF MayCommit
  <2>2. CASE q # r
    BY <1>1, <1>2, <1>4, <1>7, <2>2 DEF MayCommit, IInv, DecisionsStayRight, Open
  <2> QED
    BY <2>1, <2>2
<1>8. NoDoubleBooking'
  BY <1>1 DEF IInv, NoDoubleBooking
<1>9. OffersStayApart'
  <2>1. a.s \in Session
    BY AskedSession
  <2>2. \A q \in Request : Open(q) => ask[q].s # a.s
    BY <1>1 DEF CanLock
  <2> QED
    BY <1>1, <1>2, <1>3, <2>1, <2>2, WriteKeepsOffers
<1>10. FormsAreOwn'
  BY <1>1, <1>4 DEF IInv, FormsAreOwn, FormIsOwn
<1>11. PassesStay'
  <2>1. (MembersAlone => PassesRespected)'
    BY <1>1 DEF IInv, PassesStay, MembersAlone, PassesRespected, HoldsSeat
  <2>2. ASSUME NEW q \in Request, Open(q)'
        PROVE  PaidFor(ask[q].s, pending[q])'
    <3>1. CASE q = r
      BY <1>1, <1>2, <1>3, <1>4, <3>1 DEF PaidFor, SeatedAfter, MembersAlone
    <3>2. CASE q # r
      BY <1>1, <1>2, <1>4, <2>2, <3>2 DEF IInv, PassesStay, Open, PaidFor, SeatedAfter, MembersAlone
    <3> QED
      BY <3>1, <3>2
  <2> QED
    BY <2>1, <2>2 DEF PassesStay
<1> QED
  BY <1>5, <1>6, <1>7, <1>8, <1>9, <1>10, <1>11 DEF IInv, DecisionsStayRight

\* A step that leaves the books and the transactions alone keeps all of the
\* invariant but the types of what it changes, and whose forms are asked.
LEMMA BooksUntouched ==
  ASSUME IInv, TypeOK', FormsAreOwn', book' = book, pending' = pending, held' = held,
         \A r \in Request : Open(r) => ask'[r] = ask[r]
  PROVE  IInv'
<1>1. LocksExclude'
  BY DEF IInv, DecisionsStayRight, LocksExclude, Open
<1>2. ASSUME NEW r \in Request, Open(r)'
      PROVE  MayCommit(ask[r].s, held[r], pending[r])'
  BY <1>2 DEF MayCommit, IInv, DecisionsStayRight, Open
<1>3. NoDoubleBooking'
  BY DEF IInv, NoDoubleBooking
<1>4. OffersStayApart'
  BY DEF IInv, OffersStayApart, Open
<1>5. PassesStay'
  <2>1. (MembersAlone => PassesRespected)'
    BY DEF IInv, PassesStay, MembersAlone, PassesRespected, HoldsSeat
  <2>2. ASSUME NEW r \in Request, Open(r)'
        PROVE  PaidFor(ask[r].s, pending[r])'
    BY <2>2 DEF IInv, PassesStay, Open, PaidFor, SeatedAfter, MembersAlone
  <2> QED
    BY <2>1, <2>2 DEF PassesStay
<1> QED
  BY <1>1, <1>2, <1>3, <1>4, <1>5 DEF IInv, DecisionsStayRight

\* A request that arrives, having read but not locked, keeps the invariant.
LEMMA ReceiveStep ==
  ASSUME IInv, NEW r \in Request, NEW a \in Ask, a # Idle, FormIsOwn(a),
         Receive(r, a), EditsOK'
  PROVE  IInv'
<1>1. /\ ask[r] = Idle /\ ask' = [ask EXCEPT ![r] = a]
      /\ book' = book /\ phase' = phase /\ lapsed' = lapsed
      /\ pending' = pending /\ held' = held /\ crashes' = crashes
  BY DEF Receive
<1>2. ~Open(r)
  BY <1>1 DEF IInv, TypeOK
<1>3. TypeOK'
  BY <1>1, <1>2 DEF IInv, TypeOK, EditsOK, Open, WellFormed, Rows
<1>4. FormsAreOwn'
  BY <1>1 DEF IInv, TypeOK, FormsAreOwn, FormIsOwn
<1> QED
  BY <1>1, <1>2, <1>3, <1>4, BooksUntouched DEF IInv, TypeOK

\* Nobody's form is an idle request's.
LEMMA IdleFormIsOwn == FormIsOwn(Idle)
BY DEF FormIsOwn, Idle

\* A request that ends without having written keeps the invariant: it held
\* no locks, so no other transaction's decision depended on it.
LEMMA QuitStep ==
  ASSUME IInv, NEW r \in Request, ~Open(r), Quit(r)
  PROVE  IInv'
<1>1. /\ ask' = [ask EXCEPT ![r] = Idle]
      /\ UNCHANGED <<book, phase, lapsed, pending, held, edits, crashes>>
  BY DEF Quit
<1>2. Idle \in Ask
  BY DEF Ask
<1>3. TypeOK'
  BY <1>1, <1>2 DEF IInv, TypeOK, Open, WellFormed, Rows
<1>4. FormsAreOwn'
  BY <1>1, IdleFormIsOwn DEF IInv, TypeOK, FormsAreOwn, FormIsOwn
<1> QED
  BY <1>1, <1>3, <1>4, BooksUntouched DEF IInv, TypeOK

\* An offer passing its deadline changes no book and no lock.
LEMMA LapseStep ==
  ASSUME IInv, NEW t \in Token, Lapse(t)
  PROVE  IInv'
<1>1. TypeOK'
  BY DEF Lapse, IInv, TypeOK, Open, WellFormed, Rows
<1>2. FormsAreOwn'
  BY DEF Lapse, IInv, FormsAreOwn, FormIsOwn
<1> QED
  BY <1>1, <1>2, BooksUntouched DEF Lapse

\* A session's start coming nearer changes no book and no lock.
LEMMA TickStep ==
  ASSUME IInv, NEW s \in Session, Tick(s)
  PROVE  IInv'
<1>1. TypeOK'
  BY DEF Tick, IInv, TypeOK, Phase, Open, WellFormed, Rows
<1>2. FormsAreOwn'
  BY DEF Tick, IInv, FormsAreOwn, FormIsOwn
<1> QED
  BY <1>1, <1>2, BooksUntouched DEF Tick

\* A rollback takes its pending book with it.
LEMMA CrashStep ==
  ASSUME IInv, NEW r \in Request, Crash(r)
  PROVE  IInv'
<1>1. /\ ask' = [ask EXCEPT ![r] = Idle]
      /\ pending' = [pending EXCEPT ![r] = NoOne]
      /\ held' = [held EXCEPT ![r] = {}]
      /\ crashes < MaxCrashes /\ crashes' = crashes + 1
      /\ UNCHANGED <<book, phase, lapsed, edits>>
  BY DEF Crash
<1>2. Idle \in Ask
  BY DEF Ask
<1>3. /\ ask \in [Request -> Ask] /\ held \in [Request -> SUBSET Person]
      /\ pending \in [Request -> Book \cup {NoOne}]
  BY DEF IInv, TypeOK
<1>4. TypeOK'
  <2>1. crashes' \in 0 .. MaxCrashes
    BY <1>1, RequestAssumption DEF IInv, TypeOK
  <2>2. \A q \in Request : Open(q)' => ask'[q] # Idle
    BY <1>1, <1>3 DEF IInv, TypeOK, Open
  <2> QED
    BY <1>1, <1>2, <1>3, <2>1, <2>2 DEF IInv, TypeOK, WellFormed, Rows
<1>5. \A q \in Request : Open(q)' => q # r /\ Open(q)
  BY <1>1, <1>3 DEF Open
<1>6. LocksExclude'
  BY <1>1, <1>3, <1>5 DEF IInv, DecisionsStayRight, LocksExclude
<1>7. ASSUME NEW q \in Request, Open(q)'
      PROVE  MayCommit(ask[q].s, held[q], pending[q])'
  BY <1>1, <1>3, <1>5, <1>7 DEF MayCommit, IInv, DecisionsStayRight
<1>8. NoDoubleBooking'
  BY <1>1 DEF IInv, NoDoubleBooking
<1>9. \A q \in Request : Open(q)' =>
        ask'[q] = ask[q] /\ pending'[q] = pending[q]
  BY <1>1, <1>3, <1>5
<1>10. OffersStayApart'
  BY <1>1, <1>5, <1>9 DEF IInv, OffersStayApart
<1>11. FormsAreOwn'
  BY <1>1, <1>3, IdleFormIsOwn DEF IInv, FormsAreOwn, FormIsOwn
<1>12. PassesStay'
  <2>1. (MembersAlone => PassesRespected)'
    BY <1>1 DEF IInv, PassesStay, MembersAlone, PassesRespected, HoldsSeat
  <2>2. ASSUME NEW q \in Request, Open(q)'
        PROVE  PaidFor(ask[q].s, pending[q])'
    BY <1>1, <1>5, <1>9, <2>2 DEF IInv, PassesStay, PaidFor, SeatedAfter, MembersAlone
  <2> QED
    BY <2>1, <2>2 DEF PassesStay
<1> QED
  BY <1>4, <1>6, <1>7, <1>8, <1>10, <1>11, <1>12 DEF IInv, DecisionsStayRight

\* What a transaction seats anew it has locked.
LEMMA NewcomersLocked ==
  ASSUME IInv, NEW r \in Request, Open(r)
  PROVE  \A p \in Seated(pending[r]) \ Seated(book[ask[r].s]) :
           p \in held[r] /\ Owner[p] \in held[r]
<1>1. SeatHolders(Seated(pending[r]) \ Seated(book[ask[r].s])) \subseteq held[r]
  BY DEF IInv, DecisionsStayRight, MayCommit
<1> QED
  BY <1>1 DEF SeatHolders

\* Two transactions that are both about to seat somebody do not clash: each
\* checked the other's committed book, and the same newcomer would be under
\* both locks.
LEMMA PendingApart ==
  ASSUME IInv, NEW q \in Request, NEW r \in Request, q # r, Open(q), Open(r),
         Overlap(pending[q], pending[r]), ~pending[q].moved, ~pending[r].moved
  PROVE  Seated(pending[q]) \cap Seated(pending[r]) = {}
<1> DEFINE s == ask[r].s
           t == ask[q].s
           b == pending[r]
           c == pending[q]
<1>1. s \in Session /\ t \in Session
  BY AskedSession DEF IInv, TypeOK
<1>2. s # t /\ held[q] \cap held[r] = {}
  BY DEF IInv, DecisionsStayRight, LocksExclude
<1>3. MayCommit(s, held[r], b) /\ MayCommit(t, held[q], c)
  BY DEF IInv, DecisionsStayRight
<1>4. /\ ~book[s].moved /\ b.slot = book[s].slot
      /\ ~book[t].moved /\ c.slot = book[t].slot
  BY <1>3 DEF MayCommit
<1>5. Overlap(b, book[t]) /\ Overlap(c, book[s])
  BY <1>4, EventAssumption DEF Overlap
<1>6. /\ Seated(b) \cap Seated(book[t]) = {}
      /\ Seated(c) \cap Seated(book[s]) = {}
  BY <1>1, <1>2, <1>3, <1>4, <1>5 DEF MayCommit
<1>7. /\ Seated(b) \ Seated(book[s]) \subseteq held[r]
      /\ Seated(c) \ Seated(book[t]) \subseteq held[q]
  BY NewcomersLocked
<1> QED
  BY <1>2, <1>6, <1>7

\* What the commit of r leaves alone, and the books after it.
LEMMA Committed ==
  ASSUME IInv, NEW r \in Request, Commit(r)
  PROVE  /\ ask[r] \in Ask /\ ask[r].s \in Session /\ Open(r)
         /\ pending[r] \in Book /\ MayCommit(ask[r].s, held[r], pending[r])
         /\ book'[ask[r].s] = pending[r]
         /\ \A t \in Session \ {ask[r].s} : book'[t] = book[t]
         /\ \A q \in Request : Open(q)' => q # r /\ Open(q) /\ ask[q].s # ask[r].s
         /\ \A q \in Request \ {r} :
              ask'[q] = ask[q] /\ held'[q] = held[q] /\ pending'[q] = pending[q]
<1> DEFINE s == ask[r].s
           b == pending[r]
<1>1. /\ Open(r)
      /\ book' = [book EXCEPT ![s] = b]
      /\ ask' = [ask EXCEPT ![r] = After(ask[r])]
      /\ pending' = [pending EXCEPT ![r] = NoOne]
      /\ held' = [held EXCEPT ![r] = {}]
  BY DEF Commit
<1>2. /\ ask \in [Request -> Ask] /\ held \in [Request -> SUBSET Person]
      /\ pending \in [Request -> Book \cup {NoOne}]
      /\ book \in [Session -> Book]
  BY DEF IInv, TypeOK
<1>3. ask[r] \in Ask /\ s \in Session /\ b \in Book /\ MayCommit(s, held[r], b)
  BY <1>1, <1>2, AskedSession DEF IInv, TypeOK, DecisionsStayRight, Open
<1>4. \A q \in Request : Open(q)' => q # r /\ Open(q) /\ ask[q].s # s
  BY <1>1, <1>2 DEF Open, IInv, DecisionsStayRight, LocksExclude
<1>5. \A q \in Request \ {r} :
        ask'[q] = ask[q] /\ held'[q] = held[q] /\ pending'[q] = pending[q]
  BY <1>1, <1>2
<1>6. /\ book'[s] = b
      /\ \A t \in Session \ {s} : book'[t] = book[t]
  BY <1>1, <1>2, <1>3
<1> QED
  BY <1>1, <1>3, <1>4, <1>5, <1>6

\* Commit keeps the types.
LEMMA CommitKeepsTypes ==
  ASSUME IInv, NEW r \in Request, Commit(r)
  PROVE  TypeOK' /\ FormsAreOwn'
<1> DEFINE s == ask[r].s
           b == pending[r]
<1>1. /\ ask' = [ask EXCEPT ![r] = After(ask[r])]
      /\ pending' = [pending EXCEPT ![r] = NoOne]
      /\ held' = [held EXCEPT ![r] = {}]
      /\ book' = [book EXCEPT ![s] = b]
      /\ UNCHANGED <<edits, crashes>>
  BY DEF Commit
<1>2. /\ ask \in [Request -> Ask] /\ held \in [Request -> SUBSET Person]
      /\ pending \in [Request -> Book \cup {NoOne}]
      /\ book \in [Session -> Book]
  BY DEF IInv, TypeOK
<1>3. /\ ask[r] \in Ask /\ s \in Session /\ b \in Book /\ WellFormed(b)
      /\ book'[s] = b /\ \A t \in Session \ {s} : book'[t] = book[t]
      /\ \A q \in Request : Open(q)' => q # r /\ Open(q)
      /\ \A q \in Request \ {r} : ask'[q] = ask[q]
  BY Committed DEF MayCommit
<1>4. book' \in [Session -> Book] /\ \A t \in Session : WellFormed(book'[t])
  BY <1>1, <1>2, <1>3 DEF IInv, TypeOK
<1>5. After(ask[r]) \in Ask /\ After(ask[r]).kind # "enroll"
  BY <1>3 DEF After, Ask, Idle
<1>6. phase' \in [Session -> Phase] /\ lapsed' \subseteq Token
  <2>1. ask[r].kind = "move" => ask[r].phase \in Phase
    BY <1>3 DEF Ask, Idle
  <2> QED
    BY <2>1 DEF Commit, IInv, TypeOK
<1>7. \A q \in Request : Open(q)' => ask'[q] # Idle
  BY <1>3 DEF IInv, TypeOK
<1>8. /\ ask' \in [Request -> Ask]
      /\ pending' \in [Request -> Book \cup {NoOne}]
      /\ held' \in [Request -> SUBSET Person]
  BY <1>1, <1>2, <1>5
<1>9. TypeOK'
  BY <1>1, <1>4, <1>6, <1>7, <1>8 DEF IInv, TypeOK, WellFormed, Rows
<1>10. FormsAreOwn'
  BY <1>1, <1>2, <1>5 DEF IInv, FormsAreOwn, FormIsOwn
<1> QED
  BY <1>9, <1>10

\* What r decided under its locks is right now, and by PendingApart its commit
\* leaves right what every other open transaction decided.
LEMMA CommitKeepsDecisions ==
  ASSUME IInv, NEW r \in Request, Commit(r)
  PROVE  DecisionsStayRight' /\ NoDoubleBooking'
<1> DEFINE s == ask[r].s
           b == pending[r]
<1>1. /\ s \in Session /\ Open(r) /\ MayCommit(s, held[r], b)
      /\ book'[s] = b /\ \A t \in Session \ {s} : book'[t] = book[t]
      /\ \A q \in Request : Open(q)' => q # r /\ Open(q) /\ ask[q].s # s
      /\ \A q \in Request \ {r} :
           ask'[q] = ask[q] /\ held'[q] = held[q] /\ pending'[q] = pending[q]
  BY Committed
<1>2. LocksExclude'
  BY <1>1 DEF IInv, DecisionsStayRight, LocksExclude
<1>3. ASSUME NEW q \in Request, Open(q)'
      PROVE  MayCommit(ask[q].s, held[q], pending[q])'
  <2> DEFINE t == ask[q].s
             c == pending[q]
  <2>1. q # r /\ Open(q) /\ t # s /\ t \in Session
    BY <1>1, <1>3, AskedSession DEF IInv, TypeOK
  <2>2. MayCommit(t, held[q], c)
    BY <2>1 DEF IInv, DecisionsStayRight
  <2>3. ASSUME NEW u \in Session \ {t}, Overlap(c, book'[u]),
               ~c.moved, ~book'[u].moved
        PROVE  Seated(c) \cap Seated(book'[u]) = {}
    <3>1. CASE u = s
      BY <1>1, <2>1, <2>3, <3>1, PendingApart
    <3>2. CASE u # s
      BY <1>1, <2>2, <2>3, <3>2 DEF MayCommit
    <3> QED
      BY <3>1, <3>2
  <2>4. book'[t] = book[t]
    BY <1>1, <2>1
  <2>5. /\ WellFormed(c)
        /\ SeatHolders(Seated(c) \ Seated(book'[t])) \subseteq held[q]
        /\ WithinSeats(book'[t], c)
        /\ c.moved = (book'[t].moved \/ c.slot # book'[t].slot)
    BY <2>2, <2>4 DEF MayCommit
  <2>6. ask'[q].s = t /\ held'[q] = held[q] /\ pending'[q] = c
    BY <1>1, <2>1
  <2> HIDE DEF t, c
  <2> QED
    BY <2>3, <2>5, <2>6 DEF MayCommit
<1>4. NoDoubleBooking'
  <2>1. ASSUME NEW t \in Session \ {s}, Overlap(b, book[t]),
               ~b.moved, ~book[t].moved
        PROVE  Seated(b) \cap Seated(book[t]) = {}
    BY <1>1, <2>1 DEF MayCommit
  <2>2. \A t \in Session : Overlap(book[t], b) => Overlap(b, book[t])
    BY EventAssumption DEF Overlap
  <2>3. ASSUME NEW t \in Session, NEW u \in Session, t # u,
               Overlap(book'[t], book'[u]), ~book'[t].moved, ~book'[u].moved
        PROVE  Seated(book'[t]) \cap Seated(book'[u]) = {}
    <3>1. CASE t = s
      BY <1>1, <2>1, <2>3, <3>1
    <3>2. CASE u = s
      BY <1>1, <2>1, <2>2, <2>3, <3>2
    <3>3. CASE t # s /\ u # s
      BY <1>1, <2>3, <3>3 DEF IInv, NoDoubleBooking
    <3> QED
      BY <3>1, <3>2, <3>3
  <2> QED
    BY <2>3 DEF NoDoubleBooking
<1> QED
  BY <1>2, <1>3, <1>4 DEF DecisionsStayRight

\* The tokens r wrote become its session's; nobody else had drawn them.
LEMMA CommitKeepsOffers ==
  ASSUME IInv, NEW r \in Request, Commit(r)
  PROVE  OffersStayApart'
<1> DEFINE s == ask[r].s
           b == pending[r]
<1>1. /\ s \in Session /\ Open(r)
      /\ book'[s] = b /\ \A t \in Session \ {s} : book'[t] = book[t]
      /\ \A q \in Request : Open(q)' => q # r /\ Open(q) /\ ask[q].s # s
      /\ \A q \in Request \ {r} : ask'[q] = ask[q] /\ pending'[q] = pending[q]
  BY Committed
<1>2. /\ OfferedTogether(b)
      /\ \A t \in Session \ {s} : TokensOf(b) \cap TokensOf(book[t]) = {}
      /\ \A q \in Request \ {r} :
           Open(q) => TokensOf(b) \cap TokensOf(pending[q]) = {}
  BY <1>1 DEF IInv, OffersStayApart
<1>3. \A t \in Session : OfferedTogether(book'[t])
  BY <1>1, <1>2 DEF IInv, OffersStayApart
<1>4. ASSUME NEW t \in Session, NEW u \in Session, t # u
      PROVE  TokensOf(book'[t]) \cap TokensOf(book'[u]) = {}
  <2>1. CASE t = s
    BY <1>1, <1>2, <1>4, <2>1
  <2>2. CASE u = s
    BY <1>1, <1>2, <1>4, <2>2
  <2>3. CASE t # s /\ u # s
    BY <1>1, <1>4, <2>3 DEF IInv, OffersStayApart
  <2> QED
    BY <2>1, <2>2, <2>3
<1>5. ASSUME NEW q \in Request, Open(q)'
      PROVE  /\ OfferedTogether(pending'[q])
             /\ \A t \in Session \ {ask'[q].s} :
                  TokensOf(pending'[q]) \cap TokensOf(book'[t]) = {}
             /\ \A p \in Request \ {q} :
                  Open(p)' => TokensOf(pending'[q]) \cap TokensOf(pending'[p]) = {}
  <2>1. /\ q # r /\ Open(q)
        /\ pending'[q] = pending[q] /\ ask'[q] = ask[q]
    BY <1>1, <1>5
  <2>2. ASSUME NEW t \in Session \ {ask'[q].s}
        PROVE  TokensOf(pending'[q]) \cap TokensOf(book'[t]) = {}
    BY <1>1, <1>2, <2>1, <2>2 DEF IInv, OffersStayApart
  <2>3. ASSUME NEW p \in Request \ {q}, Open(p)'
        PROVE  TokensOf(pending'[q]) \cap TokensOf(pending'[p]) = {}
    BY <1>1, <2>1, <2>3 DEF IInv, OffersStayApart
  <2>4. OfferedTogether(pending'[q])
    BY <2>1 DEF IInv, OffersStayApart
  <2> QED
    BY <2>2, <2>3, <2>4
<1> QED
  BY <1>3, <1>4, <1>5 DEF OffersStayApart

\* What r paid for is paid for now; and nobody else counted on the seats of a
\* household r seats somebody of, whose owner r has locked.
LEMMA CommitKeepsPasses ==
  ASSUME IInv, NEW r \in Request, Commit(r)
  PROVE  PassesStay'
<1> DEFINE s == ask[r].s
           b == pending[r]
<1>1. /\ s \in Session /\ Open(r)
      /\ book'[s] = b /\ \A t \in Session \ {s} : book'[t] = book[t]
      /\ \A q \in Request : Open(q)' => q # r /\ Open(q) /\ ask[q].s # s
      /\ \A q \in Request \ {r} :
           ask'[q] = ask[q] /\ held'[q] = held[q] /\ pending'[q] = pending[q]
  BY Committed
<1>2. HoldsSeat(book)' = SeatedAfter(s, b)
  BY <1>1 DEF HoldsSeat, SeatedAfter
<1>3. ASSUME NEW o \in DOMAIN Passes, NEW S, NEW T, S \subseteq T,
             T \subseteq Household(o), Cardinality(T) <= Passes[o]
      PROVE  Cardinality(S) <= Passes[o]
  <2>1. IsFiniteSet(T)
    BY <1>3, PeopleAreFinite, FS_Subset DEF Household
  <2>2. Cardinality(S) <= Cardinality(T) /\ Cardinality(S) \in Nat /\ Cardinality(T) \in Nat
    BY <1>3, <2>1, FS_Subset, FS_CardinalityType
  <2> QED
    BY <1>3, <2>2, EventAssumption
<1>4. ASSUME MembersAlone PROVE PassesRespected'
  <2> SUFFICES ASSUME NEW o \in DOMAIN Passes, SpendsPasses(o)
               PROVE  Cardinality(Household(o) \cap SeatedAfter(s, b)) <= Passes[o]
    BY <1>2 DEF PassesRespected
  <2>1. CASE (Seated(b) \ Seated(book[s])) \cap Household(o) # {}
    BY <1>1, <1>4, <2>1 DEF IInv, PassesStay, PaidFor
  <2>2. CASE (Seated(b) \ Seated(book[s])) \cap Household(o) = {}
    <3>1. Household(o) \cap SeatedAfter(s, b) \subseteq Household(o) \cap HoldsSeat(book)
      BY <1>1, <2>2 DEF SeatedAfter, HoldsSeat
    <3>2. Cardinality(Household(o) \cap HoldsSeat(book)) <= Passes[o]
      BY <1>4 DEF IInv, PassesStay, PassesRespected
    <3> QED
      BY <1>3, <3>1, <3>2
  <2> QED
    BY <2>1, <2>2
<1>5. ASSUME NEW q \in Request, Open(q)'
      PROVE  PaidFor(ask[q].s, pending[q])'
  <2> DEFINE t == ask[q].s
             c == pending[q]
  <2>1. /\ q # r /\ Open(q) /\ t # s /\ t \in Session
        /\ ask'[q].s = t /\ pending'[q] = c
    BY <1>1, <1>5, AskedSession DEF IInv, TypeOK
  <2>2. book'[t] = book[t]
    BY <1>1, <2>1
  <2>3. held[q] \cap held[r] = {}
    BY <1>1, <2>1 DEF IInv, DecisionsStayRight, LocksExclude
  <2> SUFFICES ASSUME NEW o \in DOMAIN Passes, MembersAlone, SpendsPasses(o),
                      (Seated(c) \ Seated(book[t])) \cap Household(o) # {}
               PROVE  Cardinality(Household(o) \cap SeatedAfter(t, c)') <= Passes[o]
    BY <2>1, <2>2 DEF PaidFor, SeatedAfter, MembersAlone
  <2>4. o \in held[q]
    BY <2>1, NewcomersLocked DEF Household
  <2>5. (Seated(b) \ Seated(book[s])) \cap Household(o) = {}
    BY <1>1, <2>3, <2>4, NewcomersLocked DEF Household
  <2>6. Household(o) \cap SeatedAfter(t, c)' \subseteq Household(o) \cap SeatedAfter(t, c)
    <3>1. ASSUME NEW u \in Session \ {t}
          PROVE  Household(o) \cap Seated(book'[u]) \subseteq Seated(book[u])
      BY <1>1, <2>5
    <3>2. SeatedAfter(t, c)' = Seated(c) \cup UNION {Seated(book'[u]) : u \in Session \ {t}}
      BY <2>1 DEF SeatedAfter
    <3> QED
      BY <3>1, <3>2 DEF SeatedAfter
  <2>7. Cardinality(Household(o) \cap SeatedAfter(t, c)) <= Passes[o]
    BY <2>1 DEF IInv, PassesStay, PaidFor
  <2> QED
    BY <1>3, <2>6, <2>7
<1> QED
  BY <1>4, <1>5 DEF PassesStay, MembersAlone

\* Commit keeps the invariant.
LEMMA CommitStep ==
  ASSUME IInv, NEW r \in Request, Commit(r)
  PROVE  IInv'
BY CommitKeepsTypes, CommitKeepsDecisions, CommitKeepsOffers, CommitKeepsPasses
   DEF IInv

-----------------------------------------------------------------------------
\* What each handler writes may be committed.

\* The fields of an enroll request (post of SessionEnrollPageView).
LEMMA EnrollAsk ==
  ASSUME IInv, NEW r \in Request, ask[r].kind = "enroll"
  PROVE  /\ ask[r] \in Ask /\ ask[r] # Idle
         /\ ask[r].s \in Session /\ ask[r].actor \in Person
         /\ ask[r].party \in Person \cup {NoOne}
         /\ ask[r].wants \in Batch
         /\ ask[r].guests \in 0 .. MaxGuests \cup {NoOne}
<1>1. ask[r] \in Ask
  BY DEF IInv, TypeOK
<1> QED
  BY <1>1 DEF Ask, Idle

\* A batch names people and gives each a choice.
LEMMA BatchOfPeople ==
  ASSUME NEW wants \in Batch
  PROVE  DOMAIN wants \subseteq Person /\ wants \in [DOMAIN wants -> Choice]
BY DEF Batch

\* The rows a batch writes (_process_enrollments): who it seats and queues, and
\* under which tokens it holds seats.
LEMMA BatchRows ==
  ASSUME IInv, NEW r \in Request, ask[r].kind = "enroll",
         NEW tok \in HoldTokens(ask[r])
  PROVE  LET a == ask[r]
             b0 == book[a.s]
             b == BatchBook(a, tok)
         IN /\ b \in Book /\ WellFormed(b)
            /\ b.slot = b0.slot /\ b.moved = b0.moved /\ b.limit = b0.limit
            /\ b.guests = IF a.guests = NoOne THEN b0.guests
                          ELSE [b0.guests EXCEPT ![a.actor] = a.guests]
            /\ Seated(b) \subseteq (Seated(b0) \ Wanting(a.wants, "cancel")) \cup Enters(a)
            /\ Waiting(b) \subseteq Waiting(b0) \cup DOMAIN a.wants
            /\ Holds(a) \subseteq Person
            /\ \A p \in Holds(a) : b.token[p] = tok[p] /\ tok[p] \in Fresh
            /\ \A p \in Person \ Holds(a) : b.token[p] # NoOne =>
                 b.token[p] = b0.token[p] /\ b.party[p] = b0.party[p]
<1> DEFINE a == ask[r]
           b0 == book[a.s]
           seats == Enters(a) \ MustAccept(a)
           queues == Queues(a)
           holds == Holds(a)
           status == [p \in Person |->
                        CASE p \in Leaves(a) -> "NONE"
                          [] p \in seats -> "CONFIRMED"
                          [] p \in queues -> "WAITING"
                          [] p \in holds -> "OFFERED"
                          [] OTHER -> b0.status[p]]
           token == [p \in Person |-> IF p \in holds THEN tok[p] ELSE b0.token[p]]
           party == [p \in Person |->
                       IF p \in seats \cup queues \cup holds
                       THEN a.party ELSE b0.party[p]]
           rows == Rewritten(b0, status, token, party)
           b == BatchBook(a, tok)
<1>1. /\ a \in Ask /\ a.s \in Session /\ a.actor \in Person
      /\ a.party \in Person \cup {NoOne}
      /\ a.wants \in Batch
      /\ a.guests \in 0 .. MaxGuests \cup {NoOne}
  BY EnrollAsk
<1>2. DOMAIN a.wants \subseteq Person
  BY <1>1, BatchOfPeople
<1>3. b0 \in Book /\ WellFormed(b0)
  BY <1>1, CommittedBook
<1>4. /\ b0.status \in [Person -> Status]
      /\ b0.token \in [Person -> Token \cup {NoOne}]
      /\ b0.party \in [Person -> Person \cup {NoOne}]
      /\ b0.guests \in [Person -> 0 .. MaxGuests]
  BY <1>3 DEF Book
<1>5. tok \in [holds -> Fresh] /\ Fresh \subseteq Token
  BY FreshTokens DEF HoldTokens
<1>6. /\ Enters(a) \subseteq Wanting(a.wants, "enroll")
      /\ queues \subseteq Wanting(a.wants, "waitlist")
      /\ holds \subseteq Enters(a)
      /\ Leaves(a) = Wanting(a.wants, "cancel") \cap Rows(b0)
  BY DEF Enters, Queues, Holds, Leaves
<1>7. \A choice : Wanting(a.wants, choice) \subseteq DOMAIN a.wants
  BY DEF Wanting
<1>8. holds \subseteq Person /\ holds \cap Wanting(a.wants, "cancel") = {}
      /\ holds \cap queues = {} /\ holds \cap seats = {} /\ seats \cap queues = {}
      /\ Leaves(a) \cap (seats \cup queues \cup holds) = {}
  BY <1>2, <1>6, <1>7 DEF Wanting, Holds
<1>9. /\ status \in [Person -> Status]
      /\ token \in [Person -> Token \cup {NoOne}]
      /\ party \in [Person -> Person \cup {NoOne}]
  BY <1>1, <1>4, <1>5 DEF Status
<1>10. \A p \in Person : status[p] = "OFFERED" => token[p] # NoOne
  BY <1>3, <1>5, EventAssumption DEF WellFormed
<1>11. /\ b = [rows EXCEPT !.guests[a.actor] = IF a.guests = NoOne THEN @ ELSE a.guests]
       /\ \A p \in Person : status[p] \in Occupies =>
            p \in (Seated(b0) \ Wanting(a.wants, "cancel")) \cup Enters(a)
       /\ \A p \in Person : status[p] = "WAITING" => p \in Waiting(b0) \cup DOMAIN a.wants
       /\ \A p \in holds : status[p] = "OFFERED" /\ token[p] = tok[p]
       /\ \A p \in Person \ holds : status[p] = "OFFERED" =>
            b0.status[p] = "OFFERED" /\ token[p] = b0.token[p] /\ party[p] = b0.party[p]
  <2>1. b = [rows EXCEPT !.guests[a.actor] = IF a.guests = NoOne THEN @ ELSE a.guests]
    BY DEF BatchBook
  <2>2. ASSUME NEW p \in Person, status[p] \in Occupies
        PROVE  p \in (Seated(b0) \ Wanting(a.wants, "cancel")) \cup Enters(a)
    <3>1. p \notin Leaves(a) /\ (p \in Enters(a) \/ status[p] = b0.status[p])
      <4>1. p \notin Leaves(a)
        <5>1. p \in Leaves(a) => status[p] = "NONE"
          BY <1>8
        <5> QED
          BY <2>2, <5>1 DEF Occupies
      <4>2. CASE p \in seats \cup holds
        BY <1>6, <4>1, <4>2
      <4>3. CASE p \in queues /\ p \notin seats
        <5>1. status[p] = "WAITING"
          BY <1>8, <4>1, <4>3
        <5> QED
          BY <2>2, <5>1 DEF Occupies
      <4>4. CASE p \notin seats \cup queues \cup holds
        BY <4>1, <4>4
      <4> QED
        BY <4>1, <4>2, <4>3, <4>4
    <3>2. CASE p \in Enters(a)
      BY <3>2
    <3>3. CASE p \notin Enters(a)
      <4>1. p \in Seated(b0) /\ p \in Rows(b0)
        BY <2>2, <3>1, <3>3 DEF Seated, Rows, Occupies
      <4> QED
        BY <1>6, <3>1, <4>1
    <3> QED
      BY <3>2, <3>3
  <2>3. \A p \in Person : status[p] = "WAITING" => p \in Waiting(b0) \cup DOMAIN a.wants
    BY <1>6, <1>7 DEF Waiting
  <2>4. \A p \in holds : status[p] = "OFFERED" /\ token[p] = tok[p]
    BY <1>6, <1>8
  <2>5. ASSUME NEW p \in Person \ holds, status[p] = "OFFERED"
        PROVE  b0.status[p] = "OFFERED" /\ token[p] = b0.token[p] /\ party[p] = b0.party[p]
    BY <2>5
  <2> QED
    BY <2>1, <2>2, <2>3, <2>4, <2>5
<1> HIDE DEF status, token, party
<1>12. /\ rows \in Book /\ WellFormed(rows) /\ rows.status = status
       /\ rows.slot = b0.slot /\ rows.moved = b0.moved
       /\ rows.limit = b0.limit /\ rows.guests = b0.guests
  BY <1>3, <1>9, <1>10, RewrittenBook
<1>13. /\ \A p \in Person : rows.token[p] = IF status[p] = "OFFERED" THEN token[p] ELSE NoOne
       /\ \A p \in Person : status[p] = "OFFERED" => rows.party[p] = party[p]
  BY <1>3 DEF Rewritten, Book
<1> HIDE DEF rows, b
<1>14. /\ b \in Book
       /\ b.status = rows.status /\ b.token = rows.token /\ b.party = rows.party
       /\ b.before = rows.before /\ b.slot = rows.slot /\ b.moved = rows.moved
       /\ b.limit = rows.limit
       /\ b.guests = IF a.guests = NoOne THEN b0.guests
                     ELSE [b0.guests EXCEPT ![a.actor] = a.guests]
  <2> DEFINE g == [rows.guests EXCEPT ![a.actor] = IF a.guests = NoOne THEN @ ELSE a.guests]
  <2>1. g \in [Person -> 0 .. MaxGuests]
    BY <1>1, <1>12 DEF Book
  <2>2. b = [rows EXCEPT !.guests = g]
    BY <1>11, <1>12 DEF Book
  <2>3. g = IF a.guests = NoOne THEN b0.guests ELSE [b0.guests EXCEPT ![a.actor] = a.guests]
    BY <1>4, <1>12
  <2> HIDE DEF g
  <2> QED
    BY <1>12, <2>1, <2>2, <2>3 DEF Book
<1>15. WellFormed(b)
  BY <1>12, <1>14 DEF WellFormed, Rows
<1>16. /\ Seated(b) \subseteq (Seated(b0) \ Wanting(a.wants, "cancel")) \cup Enters(a)
       /\ Waiting(b) \subseteq Waiting(b0) \cup DOMAIN a.wants
  BY <1>11, <1>12, <1>14 DEF Seated, Waiting
<1>17. \A p \in holds : b.token[p] = tok[p] /\ tok[p] \in Fresh
  BY <1>5, <1>8, <1>11, <1>13, <1>14
<1>18. \A p \in Person \ holds : b.token[p] # NoOne =>
         b.token[p] = b0.token[p] /\ b.party[p] = b0.party[p]
  BY <1>11, <1>13, <1>14
<1> QED
  BY <1>8, <1>12, <1>14, <1>15, <1>16, <1>17, <1>18 DEF b

\* _is_capacity_invalid, asked under the locks, leaves the batch seats enough.
LEMMA BatchWithinSeats ==
  ASSUME IInv, NEW r \in Request, ask[r].kind = "enroll", FitsCapacity(ask[r]),
         NEW b \in Book, b.limit = book[ask[r].s].limit,
         b.guests = (IF ask[r].guests = NoOne THEN book[ask[r].s].guests
                     ELSE [book[ask[r].s].guests EXCEPT ![ask[r].actor] = ask[r].guests]),
         Seated(b) \subseteq (Seated(book[ask[r].s]) \ Wanting(ask[r].wants, "cancel"))
                               \cup Enters(ask[r])
  PROVE  WithinSeats(book[ask[r].s], b)
<1> DEFINE a == ask[r]
           b0 == book[a.s]
           S == Seated(b0)
           C == Wanting(a.wants, "cancel") \cap S
           W == Wanting(a.wants, "enroll")
           entering == Cardinality(W)
           need == GuestsNeeded(a)
           freed == GuestsFreed(a)
<1>1. /\ a.s \in Session /\ a.actor \in Person
      /\ a.guests \in 0 .. MaxGuests \cup {NoOne}
      /\ DOMAIN a.wants \subseteq Person
  BY EnrollAsk, BatchOfPeople
<1>2. b0 \in Book /\ b0.guests \in [Person -> 0 .. MaxGuests]
  BY <1>1, CommittedBook DEF Book
<1>3. /\ IsFiniteSet(S) /\ Cardinality(S) \in Nat
      /\ Cardinality(GuestSeats(b0)) \in Nat /\ Cardinality(GuestSeats(b)) \in Nat
      /\ Cardinality(Seated(b)) \in Nat
      /\ SeatsTaken(b0) = Cardinality(S) + Cardinality(GuestSeats(b0))
      /\ SeatsTaken(b) = Cardinality(Seated(b)) + Cardinality(GuestSeats(b))
      /\ Ceiling(b0) \in Nat /\ Ceiling(b) = Ceiling(b0)
  BY <1>2, SeatsCounted, CeilingCounted DEF SeatsTaken, Ceiling, TakesEnrollment
<1>4. IsFiniteSet(W) /\ entering \in Nat
  BY <1>1, PeopleAreFinite, FS_Subset, FS_CardinalityType DEF Wanting
<1>5. /\ Cardinality(C) \in Nat
      /\ Cardinality(Seated(b)) <= Cardinality(S) - Cardinality(C) + entering
  <2>1. /\ IsFiniteSet(S \ C) /\ Cardinality(S \ C) = Cardinality(S) - Cardinality(C)
        /\ Cardinality(C) \in Nat
    <3>1. S \cap C = C /\ C \subseteq S
      OBVIOUS
    <3> HIDE DEF S, C
    <3>2. IsFiniteSet(C) /\ Cardinality(C) \in Nat
      BY <1>3, <3>1, FS_Subset, FS_CardinalityType
    <3>3. IsFiniteSet(S \ C) /\ Cardinality(S \ C) = Cardinality(S) - Cardinality(S \cap C)
      BY <1>3, FS_Difference
    <3> QED
      BY <3>1, <3>2, <3>3
  <2>2. Seated(b) \subseteq (S \ C) \cup W
    BY DEF Enters
  <2> HIDE DEF S, C, W
  <2>3. /\ IsFiniteSet((S \ C) \cup W)
        /\ Cardinality((S \ C) \cup W)
             = Cardinality(S \ C) + Cardinality(W) - Cardinality((S \ C) \cap W)
        /\ Cardinality((S \ C) \cap W) \in Nat
    BY <1>4, <2>1, FS_Union, FS_Intersection, FS_CardinalityType
  <2>4. Cardinality(Seated(b)) <= Cardinality((S \ C) \cup W)
    BY <2>2, <2>3, FS_Subset
  <2>5. Cardinality(S \ C) \in Nat /\ Cardinality((S \ C) \cup W) \in Nat
    BY <2>1, <2>3, FS_CardinalityType
  <2> QED
    BY <1>3, <1>4, <2>1, <2>3, <2>4, <2>5
<1>6. /\ need \in Nat /\ freed \in Nat
      /\ Cardinality(GuestSeats(b)) = Cardinality(GuestSeats(b0)) + need - freed
      /\ need = 0 => GuestSeats(b) \subseteq GuestSeats(b0)
  <2>1. CASE a.guests = NoOne
    <3>1. GuestSeats(b) = GuestSeats(b0) /\ need = 0 /\ freed = 0
      BY <2>1 DEF GuestSeats, GuestsNeeded, GuestsFreed
    <3> QED
      BY <1>3, <3>1
  <2>2. CASE a.guests # NoOne
    <3>1. /\ a.guests \in 0 .. MaxGuests
          /\ b.guests = [b0.guests EXCEPT ![a.actor] = a.guests]
      BY <1>1, <2>2
    <3>2. /\ Cardinality(GuestSeats(b))
               = Cardinality(GuestSeats(b0)) + a.guests - b0.guests[a.actor]
          /\ a.guests <= b0.guests[a.actor] => GuestSeats(b) \subseteq GuestSeats(b0)
      BY <1>1, <1>2, <3>1, GuestsCounted
    <3>3. b0.guests[a.actor] \in Nat /\ a.guests \in Nat
      BY <1>1, <1>2, <3>1
    <3>4. /\ need = Larger(0, a.guests - b0.guests[a.actor])
          /\ freed = Larger(0, b0.guests[a.actor] - a.guests)
      BY <2>2 DEF GuestsNeeded, GuestsFreed, GuestsNow
    <3> DEFINE g == a.guests
               x == b0.guests[a.actor]
               N == Cardinality(GuestSeats(b))
               N0 == Cardinality(GuestSeats(b0))
    <3> SUFFICES /\ need \in Nat /\ freed \in Nat
                 /\ N = N0 + need - freed
                 /\ need = 0 => g <= x
      BY <3>2
    <3>5. N0 \in Nat /\ N = N0 + g - x /\ g \in Nat /\ x \in Nat
           /\ need = Larger(0, g - x) /\ freed = Larger(0, x - g)
      BY <1>3, <3>2, <3>3, <3>4
    <3> HIDE DEF need, freed, g, x, N, N0
    <3> QED
      BY <3>5 DEF Larger
  <2> QED
    BY <2>1, <2>2
<1>7. SeatsFreed(a) = freed + Cardinality(C)
  BY DEF SeatsFreed
<1>8. CASE entering + need = 0
  <2>1. W = {} /\ need = 0
    BY <1>4, <1>6, <1>8, FS_EmptySet
  <2>2. Seated(b) \subseteq Seated(b0)
    BY <2>1 DEF Enters
  <2> QED
    BY <1>6, <2>1, <2>2, NobodyEnters
<1>9. CASE entering + need # 0
  <2> DEFINE spots == IF TakesEnrollment(b0)
                      THEN Larger(0, Share(b0.limit, SessionPct)
                                       - (SeatsTaken(b0) - SeatsFreed(a)))
                      ELSE SeatsFreed(a)
  <2>1. entering + need <= spots
    BY <1>9 DEF FitsCapacity
  <2>2. SeatsTaken(b) <= SeatsTaken(b0) - SeatsFreed(a) + entering + need
    BY <1>3, <1>4, <1>5, <1>6, <1>7
  <2>3. /\ SeatsTaken(b) \in Nat /\ SeatsTaken(b0) \in Nat /\ SeatsFreed(a) \in Nat
    BY <1>3, <1>5, <1>6, <1>7
  <2>4. CASE TakesEnrollment(b0)
    <3>1. Ceiling(b0) = Share(b0.limit, SessionPct)
      BY <2>4 DEF Ceiling
    <3>2. spots = Larger(0, Ceiling(b0) - (SeatsTaken(b0) - SeatsFreed(a)))
      BY <2>4, <3>1
    <3> HIDE DEF spots, entering, need, freed
    <3>3. SeatsTaken(b) <= Ceiling(b)
      BY <1>3, <1>4, <1>6, <1>9, <2>1, <2>2, <2>3, <3>2 DEF Larger
    <3> QED
      BY <1>3, <2>3, <3>3 DEF WithinSeats, Larger
  <2>5. CASE ~TakesEnrollment(b0)
    <3>1. spots = SeatsFreed(a)
      BY <2>5
    <3> HIDE DEF spots, entering, need, freed
    <3>2. SeatsTaken(b) <= SeatsTaken(b0)
      BY <1>4, <1>6, <2>1, <2>2, <2>3, <3>1
    <3> QED
      BY <1>3, <2>3, <3>2 DEF WithinSeats, Larger
  <2> QED
    BY <2>4, <2>5
<1> QED
  BY <1>8, <1>9

\* AllowanceCheck, asked under the locks, covers everybody the batch seats: the
\* viewer's household, or members who answer for nobody else.
LEMMA BatchPaidFor ==
  ASSUME IInv, NEW r \in Request, ask[r].kind = "enroll",
         Affordable(ask[r].actor, ask[r].party, ask[r].wants),
         NEW b \in Book, Seated(b) \subseteq Seated(book[ask[r].s]) \cup Enters(ask[r])
  PROVE  PaidFor(ask[r].s, b)
<1> DEFINE a == ask[r]
           v == a.actor
           own == OwnRoster(v, a.party)
           wanted == Wanting(a.wants, "enroll") \cap own
<1>1. /\ a.s \in Session /\ v \in Person
      /\ v \in Accounts /\ a.party \in PartiesOf(v)
      /\ DOMAIN a.wants \subseteq own \cup MembersOnPage(v, a.party)
  BY EnrollAsk DEF IInv, FormsAreOwn, FormIsOwn
<1>2. Owner[v] = v
  BY <1>1 DEF Accounts
<1> SUFFICES ASSUME NEW o \in DOMAIN Passes, MembersAlone, SpendsPasses(o),
                    (Seated(b) \ Seated(book[a.s])) \cap Household(o) # {}
             PROVE  Cardinality(Household(o) \cap SeatedAfter(a.s, b)) <= Passes[o]
  BY DEF PaidFor
<1>3. PICK p \in Enters(a) : Owner[p] = o
  BY DEF Household
<1>4. /\ Enters(a) \subseteq Wanting(a.wants, "enroll")
      /\ Wanting(a.wants, "enroll") \subseteq DOMAIN a.wants
  BY DEF Enters, Wanting
<1>5. CASE p \in own
  <2>1. o = v
    BY <1>2, <1>3, <1>5 DEF OwnRoster, Companions, Household
  <2>2. own = Household(v)
    <3>1. CASE a.party \in {NoOne, v}
      BY <1>1, <1>2, <3>1 DEF OwnRoster, Companions, Household
    <3>2. CASE a.party \notin {NoOne, v}
      <4>1. a.party \in DOMAIN Members /\ v \in Members[a.party]
        BY <1>1, <3>2 DEF PartiesOf
      <4>2. Household(v) = {v}
        BY <2>1, <4>1 DEF MembersAlone
      <4> QED
        BY <3>2, <4>2 DEF OwnRoster
    <3> QED
      BY <3>1, <3>2
  <2>3. wanted # {}
    BY <1>3, <1>4, <1>5
  <2>4. Cardinality((HoldsSeat(book) \cap own) \cup wanted) <= Passes[o]
    BY <2>1, <2>3 DEF Affordable
  <2>5. Household(o) \cap SeatedAfter(a.s, b) \subseteq (HoldsSeat(book) \cap own) \cup wanted
    <3>1. SeatedAfter(a.s, b) \subseteq HoldsSeat(book) \cup Enters(a)
      BY <1>1 DEF SeatedAfter, HoldsSeat
    <3> QED
      BY <1>4, <2>1, <2>2, <3>1
  <2>6. IsFiniteSet((HoldsSeat(book) \cap own) \cup wanted)
    BY <2>2, PeopleAreFinite, FS_Subset DEF Household
  <2> HIDE DEF own, wanted
  <2> QED
    BY <2>4, <2>5, <2>6, EventAssumption, FS_Subset, FS_CardinalityType
<1>6. CASE p \notin own
  <2>1. p \in MembersOnPage(v, a.party)
    BY <1>1, <1>3, <1>4, <1>6
  <2>2. a.party = v /\ v \in DOMAIN Members /\ p \in Members[v]
    BY <1>1, <2>1, EventAssumption DEF MembersOnPage, PartiesOf
  <2>3. o = p
    BY <1>3, <2>2, RequestAssumption
  <2>4. Household(o) = {o}
    BY <2>2, <2>3 DEF MembersAlone
  <2>5. Passes[o] \in Nat /\ Passes[o] > 0
    BY EventAssumption DEF SpendsPasses, Configured
  <2>6. Cardinality(Household(o) \cap SeatedAfter(a.s, b)) <= 1
    <3>1. IsFiniteSet({o}) /\ Cardinality({o}) = 1
      BY FS_Singleton
    <3>2. Household(o) \cap SeatedAfter(a.s, b) \in SUBSET {o}
      BY <2>4
    <3> QED
      BY <3>1, <3>2, FS_Subset
  <2>7. Cardinality(Household(o) \cap SeatedAfter(a.s, b)) \in Nat
    <3>1. IsFiniteSet({o})
      BY FS_Singleton
    <3>2. Household(o) \cap SeatedAfter(a.s, b) \in SUBSET {o}
      BY <2>4
    <3>3. IsFiniteSet(Household(o) \cap SeatedAfter(a.s, b))
      BY <3>1, <3>2, FS_Subset
    <3> QED
      BY <3>3, FS_CardinalityType
  <2> QED
    BY <2>5, <2>6, <2>7
<1> QED
  BY <1>5, <1>6

\* The batch seats only people without a clash, all of them under its locks,
\* within the seats and the passes, and holds seats under fresh tokens.
LEMMA BatchMayWrite ==
  ASSUME IInv, NEW r \in Request, ask[r].kind = "enroll", Granted(ask[r]),
         NEW tok \in HoldTokens(ask[r])
  PROVE  MayWrite(ask[r].s, BatchHolders(ask[r]), BatchBook(ask[r], tok))
<1> DEFINE a == ask[r]
           b0 == book[a.s]
           b == BatchBook(a, tok)
           L == BatchHolders(a)
<1>1. /\ b \in Book /\ WellFormed(b)
      /\ b.slot = b0.slot /\ b.moved = b0.moved /\ b.limit = b0.limit
      /\ b.guests = IF a.guests = NoOne THEN b0.guests
                    ELSE [b0.guests EXCEPT ![a.actor] = a.guests]
      /\ Seated(b) \subseteq (Seated(b0) \ Wanting(a.wants, "cancel")) \cup Enters(a)
  BY BatchRows
<1>2. /\ Holds(a) \subseteq Person
      /\ \A p \in Holds(a) : b.token[p] = tok[p] /\ tok[p] \in Fresh
      /\ \A p \in Person \ Holds(a) : b.token[p] # NoOne =>
           b.token[p] = b0.token[p] /\ b.party[p] = b0.party[p]
  BY BatchRows
<1>3. /\ a.s \in Session /\ b0 \in Book
  BY EnrollAsk, CommittedBook
<1> HIDE DEF b
<1>4. /\ SeatHolders(Enters(a)) \subseteq L
      /\ Enters(a) \cap Conflicted(book, a.s) = {}
  <2>1. Enters(a) \subseteq {a.actor} \cup DOMAIN a.wants
    BY DEF Enters, Wanting
  <2> QED
    BY <2>1, HoldersGrow DEF BatchHolders, Enters
<1>5. WithinSeats(b0, b)
  BY <1>1, BatchWithinSeats DEF Granted
<1>6. MayCommit(a.s, L, b)
  <2>1. Seated(b) \subseteq Seated(b0) \cup Enters(a)
    BY <1>1
  <2> HIDE DEF L
  <2> QED
    BY <1>1, <1>3, <1>4, <1>5, <2>1, SeatsUnclashed
<1>7. DrawsFresh(a.s, b)
  <2>1. TokensOf(b) \subseteq TokensOf(b0) \cup Fresh
    BY <1>2 DEF TokensOf
  <2>2. ASSUME NEW p \in Person, NEW q \in Person, b.token[p] # NoOne, b.token[p] = b.token[q]
        PROVE  Group(b, p) = Group(b, q)
    <3>1. CASE p \in Holds(a) /\ q \in Holds(a)
      BY <1>2, <2>2, <3>1 DEF HoldTokens
    <3>2. CASE p \notin Holds(a) /\ q \notin Holds(a)
      <4>1. Group(b, p) = Group(b0, p) /\ Group(b, q) = Group(b0, q)
            /\ b0.token[p] # NoOne /\ b0.token[p] = b0.token[q]
        BY <1>2, <2>2, <3>2 DEF Group
      <4> QED
        BY <1>3, <4>1 DEF IInv, OffersStayApart, OfferedTogether
    <3>3. CASE p \in Holds(a) <=> q \notin Holds(a)
      <4>1. TokensOf(b0) \cap Fresh = {}
        BY <1>3, FreshApart
      <4>2. \A u \in Person \ Holds(a) : b.token[u] # NoOne => b.token[u] \in TokensOf(b0)
        BY <1>2 DEF TokensOf
      <4> QED
        BY <1>2, <2>2, <3>3, <4>1, <4>2
    <3> QED
      BY <3>1, <3>2, <3>3
  <2> QED
    BY <2>1, <2>2 DEF DrawsFresh, OfferedTogether
<1>8. PaidFor(a.s, b)
  BY <1>1, BatchPaidFor DEF Granted
<1> QED
  BY <1>1, <1>6, <1>7, <1>8 DEF MayWrite, b

\* _lock_seat_holders locks people.
LEMMA BatchHoldersArePeople ==
  ASSUME IInv, NEW r \in Request, ask[r].kind = "enroll"
  PROVE  BatchHolders(ask[r]) \in SUBSET Person
<1>1. ask[r].actor \in Person /\ DOMAIN ask[r].wants \subseteq Person
  BY EnrollAsk, BatchOfPeople
<1>2. RefillHolders(ask[r].s) \subseteq Person
  BY HoldersArePeople DEF RefillHolders, Waiting
<1> QED
  BY <1>1, <1>2, HoldersArePeople DEF BatchHolders

\* The row holders of people drawn from two locked sets are locked.
LEMMA HoldersOfBoth ==
  ASSUME NEW L, NEW P, NEW Q, NEW R, SeatHolders(P) \subseteq L,
         SeatHolders(Q) \subseteq L, R \subseteq P \cup Q
  PROVE  SeatHolders(R) \subseteq L
BY DEF SeatHolders

\* A batch that frees a seat has locked the waiters it may promote.
LEMMA HandleEnrollStep ==
  ASSUME IInv, NEW r \in Request, HandleEnroll(r)
  PROVE  IInv'
<1> DEFINE a == ask[r]
           L == BatchHolders(a)
<1>1. /\ a.kind = "enroll" /\ ~Open(r) /\ Granted(a)
      /\ Write(r, a, L, EnrollBooks(a)) /\ edits' = edits
  BY DEF HandleEnroll, Asked
<1>2. a \in Ask /\ a # Idle /\ a.s \in Session /\ FormIsOwn(a)
  BY <1>1, EnrollAsk DEF IInv, FormsAreOwn
<1>3. ASSUME NEW tok \in HoldTokens(a)
      PROVE  /\ MayWrite(a.s, L, BatchBook(a, tok))
             /\ Waiting(BatchBook(a, tok)) \subseteq Waiting(book[a.s]) \cup DOMAIN a.wants
  BY <1>1, BatchMayWrite, BatchRows
<1>4. SeatHolders(DOMAIN a.wants) \subseteq L
  BY HoldersGrow DEF BatchHolders
<1>5. FreesSeat(a) => SeatHolders(Waiting(book[a.s])) \subseteq L
  <2>1. FreesSeat(a) => Wanting(a.wants, "cancel") # {} \/ GuestsFreed(a) # 0
    BY DEF FreesSeat, Leaves
  <2> QED
    BY <2>1 DEF BatchHolders, RefillHolders
<1>6. ASSUME NEW c \in EnrollBooks(a)
      PROVE  MayWrite(a.s, L, c)
  <2>1. CASE ~FreesSeat(a)
    <3>1. PICK tok \in HoldTokens(a) : c = BatchBook(a, tok)
      BY <1>6, <2>1 DEF EnrollBooks
    <3> QED
      BY <1>3, <3>1
  <2>2. CASE FreesSeat(a)
    <3>1. PICK tok \in HoldTokens(a) : c \in Refilled(a.s, BatchBook(a, tok))
      BY <1>6, <2>2 DEF EnrollBooks
    <3>2. SeatHolders(Waiting(BatchBook(a, tok))) \subseteq L
      BY <1>3, <1>4, <1>5, <2>2, HoldersOfBoth
    <3>3. MayWrite(a.s, L, BatchBook(a, tok))
      BY <1>3
    <3> HIDE DEF L
    <3> QED
      BY <1>2, <3>1, <3>2, <3>3, RefillMayWrite DEF Refilled
  <2> QED
    BY <2>1, <2>2
<1>7. EditsOK' /\ L \in SUBSET Person
  BY <1>1, BatchHoldersArePeople DEF EditsOK, IInv, TypeOK
<1> QED
  BY <1>1, <1>2, <1>6, <1>7, WriteStep

\* A claim, a decline or an expiry is about a session of the event.
LEMMA OfferAsk ==
  ASSUME IInv, NEW r \in Request, ask[r].kind \in {"claim", "decline", "expire"}
  PROVE  ask[r] \in Ask /\ ask[r] # Idle /\ ask[r].s \in Session
<1>1. ask[r] \in Ask
  BY DEF IInv, TypeOK
<1> QED
  BY <1>1 DEF Ask, Idle

\* Resolving an offer keeps the invariant once the books it may write may be
\* written under the locks _read_locked_party takes.
LEMMA ResolveStep ==
  ASSUME IInv, NEW r \in Request, ~Open(r),
         ask[r].kind \in {"claim", "decline", "expire"},
         NEW books, ResolveOffer(r, books),
         \A b \in books : MayWrite(ask[r].s, OfferHolders(ask[r]), b)
  PROVE  IInv'
<1> DEFINE a == ask[r]
           L == OfferHolders(a)
<1>1. Write(r, a, L, books) /\ edits' = edits
  BY DEF ResolveOffer
<1>2. a \in Ask /\ a # Idle /\ FormIsOwn(a)
  BY OfferAsk DEF FormIsOwn
<1>3. L \in SUBSET Person
  BY HoldersArePeople DEF OfferHolders, RefillHolders, OfferedUnder, Waiting
<1>4. EditsOK'
  BY <1>1 DEF EditsOK, IInv, TypeOK
<1> QED
  BY <1>1, <1>2, <1>3, <1>4, WriteStep

\* Deleting or confirming rows of a book, seating nobody anew, writes a book
\* that may be written.
LEMMA StatusMayWrite ==
  ASSUME IInv, NEW s \in Session, NEW L, NEW P \in SUBSET Person, NEW c \in Book,
         \/ c = WithoutRows(book[s], P)
         \/ c = Confirmed(book[s], P) /\ P \subseteq Seated(book[s])
  PROVE  MayWrite(s, L, c)
<1> DEFINE b == book[s]
<1>1. b \in Book /\ WellFormed(b) /\ b.status \in [Person -> Status]
  BY CommittedBook DEF Book
<1>2. /\ WellFormed(c) /\ Seated(c) \subseteq Seated(b)
      /\ c.slot = b.slot /\ c.moved = b.moved /\ c.guests = b.guests
  <2>1. CASE c = WithoutRows(b, P)
    BY <1>1, <2>1, WithoutRowsBook
  <2>2. CASE c = Confirmed(b, P) /\ P \subseteq Seated(b)
    BY <1>1, <2>2, ConfirmedBook
  <2> QED
    BY <2>1, <2>2
<1>3. c.moved = (b.moved \/ c.slot # b.slot)
  BY <1>1, <1>2 DEF Book
<1>4. KeepsOffers(b, c)
  <2>1. PICK new \in {"NONE", "CONFIRMED"} : c = WithStatus(b, P, new)
    BY DEF WithoutRows, Confirmed
  <2> DEFINE status == [p \in Person |-> IF p \in P THEN new ELSE b.status[p]]
  <2>2. status \in [Person -> Status] /\ c = Rewritten(b, status, b.token, b.party)
    BY <1>1, <2>1 DEF Status, WithStatus
  <2>3. \A p \in Person : status[p] = "OFFERED" => b.status[p] = "OFFERED"
    OBVIOUS
  <2> HIDE DEF status
  <2> QED
    BY <1>1, <2>2, <2>3, StatusKeepsOffers
<1> HIDE DEF b
<1> QED
  BY <1>2, <1>3, <1>4, NobodyNewMayWrite DEF b

\* The seats an offer releases go to waiters under the locks.
LEMMA ReleaseMayWrite ==
  ASSUME IInv, NEW r \in Request,
         ask[r].kind \in {"claim", "decline", "expire"}
  PROVE  LET a == ask[r]
         IN /\ MayWrite(a.s, OfferHolders(a), Released(a))
            /\ \A b \in Refilled(a.s, Released(a)) :
                 MayWrite(a.s, OfferHolders(a), b)
<1> DEFINE a == ask[r]
           b0 == book[a.s]
           L == OfferHolders(a)
           c == Released(a)
           P == OfferedUnder(b0, a.token)
<1>1. a.s \in Session /\ b0 \in Book /\ WellFormed(b0)
  BY OfferAsk, CommittedBook
<1>2. P \in SUBSET Person /\ c = WithoutRows(b0, P)
  BY DEF OfferedUnder, Released
<1> HIDE DEF c, P
<1>3. c \in Book /\ Waiting(c) \subseteq Waiting(b0)
  BY <1>1, <1>2, WithoutRowsBook
<1>4. MayWrite(a.s, L, c)
  BY <1>1, <1>2, <1>3, StatusMayWrite
<1>5. SeatHolders(Waiting(c)) \subseteq L
  BY <1>3, HoldersGrow DEF OfferHolders, RefillHolders
<1> HIDE DEF L
<1>6. \A b \in Refilled(a.s, c) : MayWrite(a.s, L, b)
  BY <1>1, <1>4, <1>5, RefillMayWrite DEF Refilled
<1> QED
  BY <1>4, <1>6 DEF c, L

\* A claim before the deadline, with no clash, keeps the invariant: its seats
\* were held already, so it seats nobody anew.
LEMMA HandleClaimStep ==
  ASSUME IInv, NEW r \in Request, HandleClaim(r)
  PROVE  IInv'
<1> DEFINE a == ask[r]
           P == OfferedUnder(book[a.s], a.token)
           c == Confirmed(book[a.s], P)
<1>1. a.kind = "claim" /\ ~Open(r) /\ ResolveOffer(r, {c})
  BY DEF HandleClaim, AtOffer, Asked
<1>2. a.s \in Session /\ book[a.s] \in Book /\ WellFormed(book[a.s])
  BY <1>1, OfferAsk, CommittedBook
<1>3. P \in SUBSET Person /\ P \subseteq Seated(book[a.s])
  BY DEF OfferedUnder, Seated, Occupies
<1>4. c \in Book
  BY <1>2, <1>3, ConfirmedBook
<1>5. MayWrite(a.s, OfferHolders(a), c)
  BY <1>2, <1>3, <1>4, StatusMayWrite
<1> HIDE DEF c
<1> QED
  BY <1>1, <1>5, ResolveStep

\* A claim refused for a clash releases the offer and refills the session;
\* both under the locks of the waiters it may seat.
LEMMA ReleaseClaimStep ==
  ASSUME IInv, NEW r \in Request, ReleaseClaim(r)
  PROVE  IInv'
<1>1. /\ ask[r].kind = "claim" /\ ~Open(r)
      /\ ResolveOffer(r, Refilled(ask[r].s, Released(ask[r])))
  BY DEF ReleaseClaim, AtOffer, Asked
<1> QED
  BY <1>1, ReleaseMayWrite, ResolveStep

\* A decline releases the offer and refills the session in one transaction.
LEMMA HandleDeclineStep ==
  ASSUME IInv, NEW r \in Request, HandleDecline(r)
  PROVE  IInv'
<1>1. /\ ask[r].kind = "decline" /\ ~Open(r)
      /\ ResolveOffer(r, Refilled(ask[r].s, Released(ask[r])))
  BY DEF HandleDecline, AtOffer, Asked
<1> QED
  BY <1>1, ReleaseMayWrite, ResolveStep

\* An expiry drops the rows of the offer and seats nobody.
LEMMA HandleExpireStep ==
  ASSUME IInv, NEW r \in Request, HandleExpire(r)
  PROVE  IInv'
<1>1. /\ ask[r].kind = "expire" /\ ~Open(r)
      /\ ResolveOffer(r, {Released(ask[r])})
  BY DEF HandleExpire, AtOffer, Asked
<1> QED
  BY <1>1, ReleaseMayWrite, ResolveStep

\* fill_freed_seats in a transaction of its own keeps the invariant.
LEMMA HandleFillStep ==
  ASSUME IInv, NEW r \in Request, HandleFill(r)
  PROVE  IInv'
<1> DEFINE a == ask[r]
           s == a.s
           L == RefillHolders(s)
<1>1. /\ a.kind = "fill" /\ ~Open(r) /\ edits' = edits
      /\ Write(r, a, L, Refilled(s, book[s]))
  BY DEF HandleFill, Asked
<1>2. a \in Ask /\ a # Idle /\ s \in Session /\ FormIsOwn(a)
  BY <1>1, AskedSession DEF IInv, TypeOK, Idle, FormIsOwn
<1>3. MayWrite(s, L, book[s])
  <2>1. book[s] \in Book /\ WellFormed(book[s])
    BY <1>2, CommittedBook
  <2>2. book[s].moved = (book[s].moved \/ book[s].slot # book[s].slot)
    BY <2>1 DEF Book
  <2>3. KeepsOffers(book[s], book[s])
    BY DEF KeepsOffers
  <2> QED
    BY <1>2, <2>1, <2>2, <2>3, NobodyNewMayWrite
<1>4. SeatHolders(Waiting(book[s])) \subseteq L /\ L \in SUBSET Person
  BY HoldersArePeople DEF RefillHolders, Waiting
<1>5. EditsOK'
  BY <1>1 DEF EditsOK, IInv, TypeOK
<1> HIDE DEF L
<1>6. \A b \in Refilled(s, book[s]) : MayWrite(s, L, b)
  BY <1>2, <1>3, <1>4, RefillMayWrite DEF Refilled
<1> QED
  BY <1>1, <1>2, <1>4, <1>5, <1>6, WriteStep

\* An idle request has no transaction open.
LEMMA IdleIsClosed ==
  ASSUME IInv, NEW r \in Request, ask[r] = Idle
  PROVE  ~Open(r)
BY DEF IInv, TypeOK

\* A larger percentage is no smaller a share.
LEMMA ShareGrows ==
  ASSUME NEW limit \in Nat, NEW m \in Nat, NEW n \in Nat, m <= n
  PROVE  Share(limit, m) \in Nat /\ Share(limit, m) <= Share(limit, n)
<1>1. limit * m \in Nat /\ limit * n \in Nat /\ limit * m <= limit * n
  OBVIOUS
<1> DEFINE x == limit * m
           y == limit * n
<1>2. x \in Nat /\ y \in Nat /\ x <= y
  BY <1>1
<1>3. Share(limit, m) = (x + 99) \div 100 /\ Share(limit, n) = (y + 99) \div 100
  BY DEF Share
<1> HIDE DEF x, y
<1> QED
  BY <1>2, <1>3

\* Whoever enrolls without an account finds a seat within the anonymous share
\* of the limit, which is within the session's (AnonymousEnrollmentService).
LEMMA AnonymousWithinSeats ==
  ASSUME NEW b0 \in Book, NEW b \in Book, NEW p \in Person,
         ~AnonymousFull(b0), AnonymousPct # 0, b0.limit # 0,
         Seated(b) \subseteq Seated(b0) \cup {p},
         b.limit = b0.limit, b.guests = b0.guests
  PROVE  WithinSeats(b0, b)
<1>1. GuestSeats(b) = GuestSeats(b0) /\ Ceiling(b) = Ceiling(b0)
  BY DEF GuestSeats, Ceiling, TakesEnrollment
<1>2. /\ b0.limit \in Nat /\ AnonymousPct = PctOpen /\ PctOpen \in Nat
      /\ SessionPct \in Nat /\ PctOpen <= SessionPct /\ SessionPct # 0
  BY EventAssumption DEF Book, AnonymousPct, SessionPct, Larger
<1>3. Ceiling(b0) = Share(b0.limit, SessionPct)
  BY <1>2 DEF Ceiling, TakesEnrollment
<1>4. /\ IsFiniteSet(Seated(b0)) /\ Cardinality(Seated(b0)) \in Nat
      /\ Cardinality(GuestSeats(b0)) \in Nat
      /\ Cardinality(Seated(b)) \in Nat
      /\ SeatsTaken(b0) \in Nat /\ SeatsTaken(b) \in Nat /\ Ceiling(b0) \in Nat
  BY SeatsCounted, CeilingCounted
<1>5. Cardinality(Seated(b)) <= Cardinality(Seated(b0)) + 1
  <2>1. IsFiniteSet({p}) /\ Cardinality({p}) = 1
    BY FS_Singleton
  <2>2. /\ IsFiniteSet(Seated(b0) \cup {p})
        /\ Cardinality(Seated(b0) \cup {p})
             = Cardinality(Seated(b0)) + Cardinality({p}) - Cardinality(Seated(b0) \cap {p})
        /\ Cardinality(Seated(b0) \cap {p}) \in Nat
    BY <1>4, <2>1, FS_Union, FS_Intersection, FS_CardinalityType
  <2>3. Cardinality(Seated(b)) <= Cardinality(Seated(b0) \cup {p})
    BY <2>2, FS_Subset
  <2>4. Cardinality(Seated(b0) \cup {p}) \in Nat
    BY <2>2, FS_CardinalityType
  <2> QED
    BY <1>4, <2>1, <2>2, <2>3, <2>4
<1>6. SeatsTaken(b) <= SeatsTaken(b0) + 1
  BY <1>1, <1>4, <1>5 DEF SeatsTaken
<1>7. Share(b0.limit, PctOpen) \in Nat /\ Share(b0.limit, PctOpen) <= Ceiling(b0)
  BY <1>2, <1>3, ShareGrows
<1>8. SeatsTaken(b0) < Share(b0.limit, PctOpen)
  BY <1>2, <1>4, <1>7 DEF AnonymousFull
<1>9. SeatsTaken(b) <= Ceiling(b)
  BY <1>1, <1>4, <1>6, <1>7, <1>8
<1> QED
  BY <1>1, <1>4, <1>9 DEF WithinSeats, Larger

\* The row an enrolment without an account writes may be written: the
\* person's clashes were read under their lock, and nobody pays for them.
LEMMA AnonymousMayWrite ==
  ASSUME IInv, NEW p \in Anonymous, NEW s \in Session,
         p \notin Conflicted(book, s), AnonymousPct # 0, book[s].limit # 0
  PROVE  MayWrite(s, SeatHolders({p}), AnonymousBook(book[s], p))
<1> DEFINE b0 == book[s]
           new == IF ~AnonymousFull(b0) THEN "CONFIRMED"
                  ELSE IF p \in Rows(b0) THEN b0.status[p] ELSE "WAITING"
           status == [q \in Person |-> IF q \in {p} THEN new ELSE b0.status[q]]
           b == AnonymousBook(b0, p)
<1>1. p \in Person /\ Owner[p] \notin DOMAIN Passes
  BY RequestAssumption
<1>2. b0 \in Book /\ WellFormed(b0) /\ OfferedTogether(b0)
  BY CommittedBook DEF IInv, OffersStayApart
<1>3. /\ b0.status \in [Person -> Status]
      /\ b0.token \in [Person -> Token \cup {NoOne}]
      /\ b0.party \in [Person -> Person \cup {NoOne}]
  BY <1>2 DEF Book
<1>4. status \in [Person -> Status]
  BY <1>1, <1>3 DEF Status
<1>5. \A q \in Person : status[q] = "OFFERED" => b0.status[q] = "OFFERED" /\ b0.token[q] # NoOne
  BY <1>2 DEF WellFormed
<1>6. /\ \A q \in Person : status[q] \in Occupies => q \in Seated(b0) \cup {p}
      /\ AnonymousFull(b0) => \A q \in Person : status[q] \in Occupies => q \in Seated(b0)
  BY DEF Seated, Occupies
<1>7. b = Rewritten(b0, status, b0.token, b0.party)
  BY DEF AnonymousBook, WithStatus
<1> HIDE DEF b, status, new
<1>8. /\ b \in Book /\ WellFormed(b) /\ b.status = status
      /\ b.slot = b0.slot /\ b.moved = b0.moved
      /\ b.limit = b0.limit /\ b.guests = b0.guests
  BY <1>2, <1>3, <1>4, <1>5, <1>7, RewrittenBook
<1>9. /\ Seated(b) \subseteq Seated(b0) \cup {p}
      /\ AnonymousFull(b0) => Seated(b) \subseteq Seated(b0)
  BY <1>6, <1>8 DEF Seated
<1>10. WithinSeats(b0, b)
  <2>1. CASE AnonymousFull(b0)
    BY <1>8, <1>9, <2>1, NobodyEnters DEF GuestSeats
  <2>2. CASE ~AnonymousFull(b0)
    BY <1>1, <1>2, <1>8, <1>9, <2>2, AnonymousWithinSeats
  <2> QED
    BY <2>1, <2>2
<1>11. MayCommit(s, SeatHolders({p}), b)
  <2>1. {p} \cap Conflicted(book, s) = {}
    OBVIOUS
  <2> QED
    BY <1>8, <1>9, <1>10, <2>1, SeatsUnclashed
<1>12. DrawsFresh(s, b)
  <2>1. KeepsOffers(b0, b)
    BY <1>2, <1>4, <1>5, <1>7, StatusKeepsOffers
  <2> QED
    BY <1>2, <1>8, <2>1, OffersKept DEF DrawsFresh
<1>13. PaidFor(s, b)
  BY <1>1, <1>9 DEF PaidFor, Household
<1> QED
  BY <1>8, <1>11, <1>12, <1>13 DEF MayWrite, b

\* An enrolment without an account keeps the invariant: the person's own row
\* is locked and their clashes are read under that lock.
LEMMA AnonymousEnrollStep ==
  ASSUME IInv, NEW r \in Request, AnonymousEnroll(r)
  PROVE  IInv'
<1>1. PICK p \in Anonymous, s \in Session :
        /\ ask[r] = Idle /\ p \notin Conflicted(book, s)
        /\ AnonymousPct # 0 /\ book[s].limit # 0
        /\ Write(r, [kind |-> "anonymous_enroll", s |-> s, actor |-> p],
                 SeatHolders({p}), {AnonymousBook(book[s], p)})
        /\ edits' = edits
  BY DEF AnonymousEnroll
<1> DEFINE a == [kind |-> "anonymous_enroll", s |-> s, actor |-> p]
           L == SeatHolders({p})
           b == AnonymousBook(book[s], p)
<1>2. MayWrite(s, L, b)
  BY <1>1, AnonymousMayWrite
<1>3. p \in Person /\ L \in SUBSET Person
  BY RequestAssumption, HoldersArePeople
<1>4. a \in Ask /\ a # Idle /\ FormIsOwn(a)
  BY <1>3 DEF Ask, Idle, FormIsOwn
<1>5. EditsOK' /\ ~Open(r)
  BY <1>1, IdleIsClosed DEF EditsOK, IInv, TypeOK
<1>6. Write(r, a, L, {b})
  BY <1>1
<1>7. a.s = s
  OBVIOUS
<1> HIDE DEF a, b, L
<1> QED
  BY <1>2, <1>3, <1>4, <1>5, <1>6, <1>7, WriteStep

\* A cancellation without an account keeps the invariant, refill included.
LEMMA AnonymousCancelStep ==
  ASSUME IInv, NEW r \in Request, AnonymousCancel(r)
  PROVE  IInv'
<1>1. PICK p \in Anonymous, s \in Session :
        /\ ask[r] = Idle
        /\ Write(r, [kind |-> "anonymous_cancel", s |-> s, actor |-> p],
                 SeatHolders({p}) \cup RefillHolders(s),
                 IF p \in Seated(book[s])
                 THEN Refilled(s, WithoutRows(book[s], {p}))
                 ELSE {WithoutRows(book[s], {p})})
        /\ edits' = edits
  BY DEF AnonymousCancel
<1> DEFINE a == [kind |-> "anonymous_cancel", s |-> s, actor |-> p]
           L == SeatHolders({p}) \cup RefillHolders(s)
           c == WithoutRows(book[s], {p})
           books == IF p \in Seated(book[s]) THEN Refilled(s, c) ELSE {c}
<1>2. p \in Person /\ book[s] \in Book /\ WellFormed(book[s])
  BY RequestAssumption, CommittedBook
<1>3. c \in Book /\ Waiting(c) \subseteq Waiting(book[s])
  BY <1>2, WithoutRowsBook
<1>4. SeatHolders(Waiting(c)) \subseteq L
  BY <1>3, HoldersGrow DEF RefillHolders
<1>5. L \in SUBSET Person
  BY <1>2, HoldersArePeople DEF RefillHolders, Waiting
<1>6. Write(r, a, L, books)
  BY <1>1
<1> HIDE DEF L
<1>7. MayWrite(s, L, c)
  BY <1>2, <1>3, StatusMayWrite
<1> HIDE DEF c
<1>8. \A b \in Refilled(s, c) : MayWrite(s, L, b)
  BY <1>4, <1>7, RefillMayWrite DEF Refilled
<1>9. a \in Ask /\ a # Idle /\ FormIsOwn(a)
  BY <1>2 DEF Ask, Idle, FormIsOwn
<1>10. EditsOK' /\ ~Open(r)
  BY <1>1, IdleIsClosed DEF EditsOK, IInv, TypeOK
<1>11. \A b \in books : MayWrite(a.s, L, b)
  BY <1>7, <1>8
<1> HIDE DEF a, books
<1> QED
  BY <1>5, <1>6, <1>9, <1>10, <1>11, WriteStep

\* An edit that is counted stays within the bound on edits.
LEMMA CountedEdit ==
  ASSUME IInv, NEW k \in EditKind, CountEdit(k)
  PROVE  EditsOK'
<1>1. /\ edits \in [EditKind -> Nat] /\ MaxEdits \in [EditKind -> Nat]
      /\ \A e \in EditKind : edits[e] <= MaxEdits[e]
  BY RequestAssumption DEF IInv, TypeOK
<1>2. edits[k] < MaxEdits[k] /\ edits' = [edits EXCEPT ![k] = @ + 1]
  BY DEF CountEdit
<1>3. \A e \in EditKind : edits'[e] <= MaxEdits[e]
  BY <1>1, <1>2
<1> QED
  BY <1>1, <1>2, <1>3 DEF EditsOK

\* A change of the limit seats nobody by itself.
LEMMA HandleLimitStep ==
  ASSUME IInv, NEW r \in Request, HandleLimit(r)
  PROVE  IInv'
<1> DEFINE a == ask[r]
           s == a.s
           b == [book[s] EXCEPT !.limit = a.limit]
           fills == a.limit = 0 \/ a.limit > a.old
           L == IF fills THEN RefillHolders(s) ELSE {}
           books == IF fills THEN Refilled(s, b) ELSE {b}
<1>1. a.kind = "limit" /\ ~Open(r) /\ Write(r, a, L, books) /\ edits' = edits
  BY DEF HandleLimit, Asked
<1>2. /\ a \in Ask /\ a # Idle /\ s \in Session /\ a.limit \in 0 .. MaxLimit
      /\ FormIsOwn(a)
  <2>1. a \in Ask
    BY DEF IInv, TypeOK
  <2> QED
    BY <1>1, <2>1 DEF Ask, Idle, FormIsOwn
<1>3. book[s] \in Book /\ WellFormed(book[s])
  BY <1>2, CommittedBook
<1>4. /\ b \in Book
      /\ b.status = book[s].status /\ b.token = book[s].token
      /\ b.party = book[s].party
      /\ b.before = book[s].before /\ b.guests = book[s].guests
      /\ b.slot = book[s].slot /\ b.moved = book[s].moved
  BY <1>2, <1>3 DEF Book
<1>5. b.moved = (book[s].moved \/ b.slot # book[s].slot)
  BY <1>3, <1>4 DEF Book
<1> HIDE DEF b
<1>6. /\ WellFormed(b) /\ Seated(b) = Seated(book[s])
      /\ Waiting(b) = Waiting(book[s]) /\ KeepsOffers(book[s], b)
  <2>1. Rows(b) = Rows(book[s])
    BY <1>4 DEF Rows
  <2>2. WellFormed(b)
    BY <1>3, <1>4, <2>1 DEF WellFormed
  <2>3. Seated(b) = Seated(book[s]) /\ Waiting(b) = Waiting(book[s])
    BY <1>4 DEF Seated, Waiting
  <2>4. KeepsOffers(book[s], b)
    BY <1>4 DEF KeepsOffers
  <2> QED
    BY <2>2, <2>3, <2>4
<1>7. /\ L \in SUBSET Person
      /\ fills => SeatHolders(Waiting(b)) \subseteq L
  BY <1>6, HoldersArePeople DEF RefillHolders, Waiting
<1> HIDE DEF L
<1>8. MayWrite(s, L, b)
  BY <1>2, <1>4, <1>5, <1>6, NobodyNewMayWrite
<1>9. ASSUME NEW c \in books PROVE MayWrite(s, L, c)
  <2>1. CASE fills
    BY <1>2, <1>7, <1>8, <1>9, <2>1, RefillMayWrite DEF Refilled
  <2>2. CASE ~fills
    BY <1>8, <1>9, <2>2
  <2> QED
    BY <2>1, <2>2
<1>10. EditsOK'
  BY <1>1 DEF EditsOK, IInv, TypeOK
<1> HIDE DEF books
<1> QED
  BY <1>1, <1>2, <1>7, <1>9, <1>10, WriteStep

\* The timetable may put two sessions on top of each other, and says so; the
\* refill of the session it moved still seats only waiters under the locks.
LEMMA MoveStep ==
  ASSUME IInv, NEW r \in Request, Move(r)
  PROVE  IInv'
<1>1. PICK s \in Session, slot \in Slot \cup {NoOne}, ph \in {"far", "near"} :
        LET b == [book[s] EXCEPT !.slot = slot, !.moved = TRUE]
        IN /\ ask[r] = Idle
           /\ slot # book[s].slot
           /\ Write(r, [kind |-> "move", s |-> s, slot |-> slot, phase |-> ph],
                    IF slot = NoOne THEN {} ELSE RefillHolders(s),
                    Refills([book EXCEPT ![s] = b], s, ph, Fresh))
           /\ CountEdit("move")
  BY DEF Move
<1> DEFINE a == [kind |-> "move", s |-> s, slot |-> slot, phase |-> ph]
           b == [book[s] EXCEPT !.slot = slot, !.moved = TRUE]
           L == IF slot = NoOne THEN {} ELSE RefillHolders(s)
           books == Refills([book EXCEPT ![s] = b], s, ph, Fresh)
<1>2. book[s] \in Book /\ WellFormed(book[s])
  BY CommittedBook
<1>3. /\ b \in Book
      /\ b.status = book[s].status /\ b.token = book[s].token
      /\ b.party = book[s].party
      /\ b.before = book[s].before /\ b.guests = book[s].guests
      /\ b.slot = slot /\ b.moved = TRUE
  BY <1>2 DEF Book
<1>4. /\ Write(r, a, L, books) /\ CountEdit("move") /\ ask[r] = Idle
      /\ slot # book[s].slot
  BY <1>1
<1> HIDE DEF b
<1>5. /\ WellFormed(b) /\ Seated(b) = Seated(book[s])
      /\ Waiting(b) = Waiting(book[s]) /\ KeepsOffers(book[s], b)
      /\ TokensOf(b) = TokensOf(book[s])
  BY <1>2, <1>3 DEF WellFormed, Rows, Seated, Waiting, KeepsOffers, TokensOf
<1>6. /\ L \in SUBSET Person
      /\ slot # NoOne => SeatHolders(Waiting(b)) \subseteq L
  BY <1>5, HoldersArePeople DEF RefillHolders, Waiting
<1> HIDE DEF L
<1>7. MayWrite(s, L, b)
  BY <1>3, <1>4, <1>5, NobodyNewMayWrite
<1>8. Fresh \in SUBSET (Fresh \ TokensOf(b))
  BY <1>5, FreshApart
<1>9. ASSUME NEW c \in books PROVE MayWrite(s, L, c)
  <2>1. CASE slot # NoOne
    BY <1>6, <1>7, <1>8, <1>9, <2>1, RefillMayWrite
  <2>2. CASE slot = NoOne
    <3>1. [book EXCEPT ![s] = b][s] = b
      BY DEF IInv, TypeOK
    <3>2. c = b
      BY <1>3, <1>9, <2>2, <3>1 DEF Refills
    <3> QED
      BY <1>7, <3>2
  <2> QED
    BY <2>1, <2>2
<1>10. a \in Ask /\ a # Idle /\ FormIsOwn(a)
  BY DEF Ask, Idle, Phase, FormIsOwn
<1>11. EditsOK' /\ ~Open(r)
  BY <1>4, CountedEdit, IdleIsClosed DEF EditKind
<1>12. a.s = s
  OBVIOUS
<1> HIDE DEF a, books
<1> QED
  BY <1>4, <1>6, <1>9, <1>10, <1>11, <1>12, WriteStep

\* Putting a session back where it was taken off seats nobody.
LEMMA RevertStep ==
  ASSUME IInv, NEW r \in Request, Revert(r)
  PROVE  IInv'
<1>1. PICK s \in Session, slot \in Slot, ph \in Phase :
        /\ ask[r] = Idle
        /\ book[s].slot = NoOne /\ book[s].moved
        /\ Write(r, [kind |-> "move", s |-> s, slot |-> slot, phase |-> ph], {},
                 {[book[s] EXCEPT !.slot = slot]})
        /\ CountEdit("revert")
  BY DEF Revert
<1> DEFINE a == [kind |-> "move", s |-> s, slot |-> slot, phase |-> ph]
           b == [book[s] EXCEPT !.slot = slot]
<1>2. book[s] \in Book /\ WellFormed(book[s])
  BY CommittedBook
<1>3. /\ b \in Book
      /\ b.status = book[s].status /\ b.token = book[s].token
      /\ b.party = book[s].party
      /\ b.before = book[s].before /\ b.guests = book[s].guests
      /\ b.slot = slot /\ b.moved = TRUE
  BY <1>1, <1>2 DEF Book
<1>4. Write(r, a, {}, {b})
  BY <1>1
<1> HIDE DEF b
<1>5. /\ WellFormed(b) /\ Seated(b) = Seated(book[s])
      /\ Waiting(b) = Waiting(book[s]) /\ KeepsOffers(book[s], b)
  BY <1>2, <1>3 DEF WellFormed, Rows, Seated, Waiting, KeepsOffers
<1>6. MayWrite(s, {}, b)
  BY <1>1, <1>3, <1>5, NobodyNewMayWrite
<1>7. a \in Ask /\ a # Idle /\ FormIsOwn(a)
  BY DEF Ask, Idle, FormIsOwn
<1>8. EditsOK' /\ ~Open(r)
  BY <1>1, CountedEdit, IdleIsClosed DEF EditKind
<1>9. a.s = s
  OBVIOUS
<1> HIDE DEF a
<1> QED
  BY <1>4, <1>6, <1>7, <1>8, <1>9, WriteStep

-----------------------------------------------------------------------------
\* Arrivals and refusals write no book.

\* Submitting the enroll form keeps the invariant.
LEMMA AskEnrollStep ==
  ASSUME IInv, NEW r \in Request, AskEnroll(r)
  PROVE  IInv'
<1>0. edits' = edits
  BY DEF AskEnroll
<1>1. PICK v \in Accounts, s \in Session :
      \E party \in PartiesOf(v) :
      \E D \in SUBSET (OwnRoster(v, party) \cup MembersOnPage(v, party)) :
      \E wants \in [D -> Choice], guests \in GuestTargets(book[s]) :
        Receive(r, [kind |-> "enroll", s |-> s, actor |-> v, party |-> party,
                    wants |-> wants, guests |-> guests])
  BY DEF AskEnroll
<1>2. PICK party \in PartiesOf(v) :
      \E D \in SUBSET (OwnRoster(v, party) \cup MembersOnPage(v, party)) :
      \E wants \in [D -> Choice], guests \in GuestTargets(book[s]) :
        Receive(r, [kind |-> "enroll", s |-> s, actor |-> v, party |-> party,
                    wants |-> wants, guests |-> guests])
  BY <1>1
<1>3. PICK D \in SUBSET (OwnRoster(v, party) \cup MembersOnPage(v, party)) :
      \E wants \in [D -> Choice], guests \in GuestTargets(book[s]) :
        Receive(r, [kind |-> "enroll", s |-> s, actor |-> v, party |-> party,
                    wants |-> wants, guests |-> guests])
  BY <1>2
<1>4. PICK wants \in [D -> Choice], guests \in GuestTargets(book[s]) :
        Receive(r, [kind |-> "enroll", s |-> s, actor |-> v, party |-> party,
                    wants |-> wants, guests |-> guests])
  BY <1>3
<1> DEFINE a == [kind |-> "enroll", s |-> s, actor |-> v, party |-> party,
                 wants |-> wants, guests |-> guests]
<1>5. v \in Person /\ party \in Person \cup {NoOne}
  BY RequestAssumption DEF Accounts, PartiesOf
<1>6. D \subseteq Person
  <2>1. OwnRoster(v, party) \subseteq Person
    BY <1>5 DEF OwnRoster, Companions, Household
  <2>2. MembersOnPage(v, party) \subseteq Person
    <3>1. party = v => v \in DOMAIN Members
      BY <1>5, EventAssumption DEF PartiesOf
    <3> QED
      BY <3>1, RequestAssumption DEF MembersOnPage
  <2> QED
    BY <2>1, <2>2
<1>7. wants \in Batch
  BY <1>6 DEF Batch
<1>8. guests \in 0 .. MaxGuests \cup {NoOne}
  BY DEF GuestTargets
<1>9. a \in Ask /\ a # Idle /\ FormIsOwn(a)
  BY <1>5, <1>7, <1>8 DEF Ask, Idle, FormIsOwn
<1>10. EditsOK'
  BY <1>0 DEF EditsOK, IInv, TypeOK
<1>11. Receive(r, a)
  BY <1>4
<1> HIDE DEF a
<1> QED
  BY <1>9, <1>10, <1>11, ReceiveStep

\* Naming an offer (a link, a button, a timer, the sweep) keeps the invariant.
LEMMA AskOfferStep ==
  ASSUME IInv, NEW r \in Request,
         NEW kind \in {"claim", "decline", "expire"}, AskOffer(r, kind)
  PROVE  IInv'
<1>0. PICK s \in Session : \E t \in TokensOf(book[s]) :
        /\ Receive(r, [kind |-> kind, s |-> s, token |-> t])
        /\ edits' = edits
  BY DEF AskOffer
<1>1. PICK t \in TokensOf(book[s]) :
        /\ Receive(r, [kind |-> kind, s |-> s, token |-> t])
        /\ edits' = edits
  BY <1>0
<1> DEFINE a == [kind |-> kind, s |-> s, token |-> t]
<1>2. t \in Token
  BY DEF TokensOf, IInv, TypeOK, Book
<1>3. a \in Ask /\ a # Idle /\ FormIsOwn(a)
  BY <1>2 DEF Ask, Idle, FormIsOwn
<1>4. EditsOK' /\ Receive(r, a)
  BY <1>1 DEF EditsOK, IInv, TypeOK
<1> HIDE DEF a
<1> QED
  BY <1>3, <1>4, ReceiveStep

\* Loading a session to edit its limit keeps the invariant.
LEMMA AskLimitStep ==
  ASSUME IInv, NEW r \in Request, AskLimit(r)
  PROVE  IInv'
<1>1. PICK s \in Session, n \in 0 .. MaxLimit :
        /\ CountEdit("limit")
        /\ Receive(r, [kind |-> "limit", s |-> s, limit |-> n,
                       old |-> book[s].limit])
  BY DEF AskLimit
<1> DEFINE a == [kind |-> "limit", s |-> s, limit |-> n, old |-> book[s].limit]
<1>2. book[s].limit \in 0 .. MaxLimit
  BY DEF IInv, TypeOK, Book
<1>3. a \in Ask /\ a # Idle /\ FormIsOwn(a)
  BY <1>2 DEF Ask, Idle, FormIsOwn
<1>4. EditsOK' /\ Receive(r, a)
  BY <1>1, CountedEdit DEF EditKind
<1> HIDE DEF a
<1> QED
  BY <1>3, <1>4, ReceiveStep

\* A request the checks turn away keeps the invariant.
LEMMA RefusalStep ==
  ASSUME IInv, NEW r \in Request, Refusal(r)
  PROVE  IInv'
<1>1. ~Open(r) /\ Quit(r)
  BY DEF Refusal, RefuseEnroll, MissOffer, ClaimTooLate, ExpireTooEarly,
         LeaveOffer, AtOffer, Asked
<1> QED
  BY <1>1, QuitStep

-----------------------------------------------------------------------------
\* The theorems.

\* An event nobody has enrolled in satisfies the invariant.
LEMMA InitInv == Init => IInv
<1> SUFFICES ASSUME Init PROVE IInv
  OBVIOUS
<1>1. PICK limits \in InitLimits, slots \in InitSlots :
        book = [s \in Session |-> EmptyBook(limits[s], slots[s])]
  BY DEF Init
<1>2. limits \in [Session -> 0 .. MaxLimit] /\ slots \in [Session -> Slot \cup {NoOne}]
  BY RequestAssumption
<1>3. ASSUME NEW limit \in 0 .. MaxLimit, NEW slot \in Slot \cup {NoOne}
      PROVE  LET b == EmptyBook(limit, slot)
             IN /\ b \in Book /\ WellFormed(b) /\ Seated(b) = {}
                /\ \A p \in Person : b.token[p] = NoOne
  <2>1. EmptyBook(limit, slot) \in Book
    BY EventAssumption DEF EmptyBook, Book, Status
  <2>2. Rows(EmptyBook(limit, slot)) = {}
    BY DEF EmptyBook, Rows
  <2>3. Seated(EmptyBook(limit, slot)) = {}
    BY DEF EmptyBook, Seated, Occupies
  <2>4. \A p \in Person : EmptyBook(limit, slot).token[p] = NoOne
    BY DEF EmptyBook
  <2>5. WellFormed(EmptyBook(limit, slot))
    BY <2>2 DEF WellFormed, EmptyBook
  <2> QED
    BY <2>1, <2>3, <2>4, <2>5
<1>4. \A s \in Session :
        /\ book[s] \in Book /\ WellFormed(book[s]) /\ Seated(book[s]) = {}
        /\ \A p \in Person : book[s].token[p] = NoOne
  BY <1>1, <1>2, <1>3
<1>5. book \in [Session -> Book]
  BY <1>1, <1>4
<1>6. TypeOK
  <2>1. phase \in [Session -> Phase]
    BY RequestAssumption DEF Init, Phase
  <2>2. edits \in [EditKind -> Nat] /\ \A k \in EditKind : edits[k] <= MaxEdits[k]
    BY RequestAssumption DEF Init
  <2>3. crashes \in 0 .. MaxCrashes
    BY RequestAssumption DEF Init
  <2>4. /\ ask \in [Request -> Ask] /\ held \in [Request -> SUBSET Person]
        /\ pending \in [Request -> Book \cup {NoOne}]
        /\ \A r \in Request : ~Open(r)
    BY DEF Init, Ask, Open
  <2> QED
    BY <1>4, <1>5, <2>1, <2>2, <2>3, <2>4 DEF TypeOK, Init
<1>7. DecisionsStayRight
  BY DEF DecisionsStayRight, LocksExclude, Open, Init
<1>8. NoDoubleBooking
  BY <1>4 DEF NoDoubleBooking
<1>9. \A r \in Request : ~Open(r) /\ ask[r] = Idle
  BY DEF Init, Open
<1>10. OffersStayApart
  BY <1>4, <1>9 DEF OffersStayApart, OfferedTogether, TokensOf
<1>11. FormsAreOwn
  BY <1>9, IdleFormIsOwn DEF FormsAreOwn
<1>12. PassesStay
  <2>1. HoldsSeat(book) = {}
    BY <1>4 DEF HoldsSeat
  <2>2. PassesRespected
    BY <2>1, FS_EmptySet, EventAssumption DEF PassesRespected
  <2> QED
    BY <1>9, <2>2 DEF PassesStay
<1> QED
  BY <1>6, <1>7, <1>8, <1>10, <1>11, <1>12 DEF IInv

\* Every step of every request, worker and clock keeps the invariant.
LEMMA NextInv == IInv /\ [Next]_vars => IInv'
<1> SUFFICES ASSUME IInv, [Next]_vars PROVE IInv'
  OBVIOUS
<1>1. ASSUME NEW r \in Request, Arrival(r) PROVE IInv'
  <2>1. CASE AskEnroll(r)
    BY <2>1, AskEnrollStep
  <2>2. CASE AskClaim(r) \/ AskDecline(r) \/ AskExpire(r)
    BY <2>2, AskOfferStep DEF AskClaim, AskDecline, AskExpire
  <2>3. CASE AskLimit(r)
    BY <2>3, AskLimitStep
  <2>4. CASE AnonymousEnroll(r)
    BY <2>4, AnonymousEnrollStep
  <2>5. CASE AnonymousCancel(r)
    BY <2>5, AnonymousCancelStep
  <2>6. CASE Move(r)
    BY <2>6, MoveStep
  <2>7. CASE Revert(r)
    BY <2>7, RevertStep
  <2> QED
    BY <1>1, <2>1, <2>2, <2>3, <2>4, <2>5, <2>6, <2>7 DEF Arrival
<1>2. ASSUME NEW r \in Request, Handling(r) PROVE IInv'
  BY <1>2, HandleEnrollStep, HandleClaimStep, ReleaseClaimStep,
     HandleDeclineStep, HandleExpireStep, HandleFillStep, HandleLimitStep
     DEF Handling
<1>3. ASSUME NEW r \in Request, Refusal(r) PROVE IInv'
  BY <1>3, RefusalStep
<1>4. ASSUME NEW r \in Request, Commit(r) PROVE IInv'
  BY <1>4, CommitStep
<1>5. ASSUME NEW r \in Request, Crash(r) PROVE IInv'
  BY <1>5, CrashStep
<1>6. ASSUME NEW t \in Token, Lapse(t) PROVE IInv'
  BY <1>6, LapseStep
<1>7. ASSUME NEW s \in Session, Tick(s) PROVE IInv'
  BY <1>7, TickStep
<1>8. ASSUME UNCHANGED vars PROVE IInv'
  <2>1. TypeOK'
    BY <1>8 DEF vars, IInv, TypeOK, Open, WellFormed, Rows
  <2>2. FormsAreOwn'
    BY <1>8 DEF vars, IInv, FormsAreOwn, FormIsOwn
  <2> QED
    BY <1>8, <2>1, <2>2, BooksUntouched DEF vars
<1> QED
  BY <1>1, <1>2, <1>3, <1>4, <1>5, <1>6, <1>7, <1>8 DEF Next

\* In every event, under any number of concurrent requests, crashes and
\* organizer edits, what an open transaction decided is still right when it
\* commits: the argument every theorem below rests on.
THEOREM InvariantHolds == Spec => []IInv
BY InitInv, NextInv, PTL DEF Spec

\* The variables keep their types; every committed book has its claim tokens
\* on the OFFERED rows alone and one creation order (create, confirm, offer,
\* mark_claimed, drop).
THEOREM TypeCorrect == Spec => []TypeOK
<1>1. IInv => TypeOK
  BY DEF IInv
<1> QED
  BY <1>1, InvariantHolds, PTL

\* lock_seat_holders and has_conflicts together keep a person out of two
\* overlapping sessions, whatever the number of requests in flight.
THEOREM NoDoubleBookingHolds == Spec => []NoDoubleBooking
<1>1. IInv => NoDoubleBooking
  BY DEF IInv
<1> QED
  BY <1>1, InvariantHolds, PTL

\* A decision made under the locks is still right at the commit.
THEOREM DecisionsHold == Spec => []DecisionsStayRight
<1>1. IInv => DecisionsStayRight
  BY DEF IInv
<1> QED
  BY <1>1, InvariantHolds, PTL

\* Until a transaction commits, nobody sees a row it wrote.
LEMMA BooksChangeByCommit ==
  ASSUME IInv, [Next]_vars
  PROVE  book' = book \/ \E r \in Request : Commit(r)
<1>1. ASSUME NEW r \in Request, Arrival(r) PROVE book' = book
  BY <1>1 DEF Arrival, AskEnroll, AskClaim, AskDecline, AskExpire, AskLimit,
              AskOffer, Receive, AnonymousEnroll, AnonymousCancel, Move,
              Revert, Write
<1>2. ASSUME NEW r \in Request, Handling(r) PROVE book' = book
  BY <1>2 DEF Handling, HandleEnroll, HandleClaim, ReleaseClaim, HandleDecline,
              HandleExpire, HandleFill, HandleLimit, ResolveOffer, Write
<1>3. ASSUME NEW r \in Request, Refusal(r) PROVE book' = book
  BY <1>3 DEF Refusal, RefuseEnroll, MissOffer, ClaimTooLate, ExpireTooEarly,
              LeaveOffer, Quit
<1>4. ASSUME NEW r \in Request, Crash(r) PROVE book' = book
  BY <1>4 DEF Crash
<1>5. ASSUME NEW t \in Token, Lapse(t) PROVE book' = book
  BY <1>5 DEF Lapse
<1>6. ASSUME NEW s \in Session, Tick(s) PROVE book' = book
  BY <1>6 DEF Tick
<1>7. ASSUME UNCHANGED vars PROVE book' = book
  BY <1>7 DEF vars
<1> QED
  BY <1>1, <1>2, <1>3, <1>4, <1>5, <1>6, <1>7 DEF Next

\* Nobody is let in past the seats on offer, by any route: the capacity check
\* of a batch, the seats a refill counts and the anonymous share each hold
\* under the Session row, so what was counted is still so at the commit.
THEOREM NeverOversoldHolds == Spec => NeverOversold
<1>1. ASSUME IInv, [Next]_vars
      PROVE  \A s \in Session : WithinSeats(book[s], book'[s])
  <2> SUFFICES ASSUME NEW s \in Session
               PROVE  WithinSeats(book[s], book'[s])
    OBVIOUS
  <2>1. CASE book'[s] = book[s]
    BY <2>1, NobodyEnters
  <2>2. CASE book'[s] # book[s]
    <3>1. PICK r \in Request : Commit(r)
      BY <1>1, <2>2, BooksChangeByCommit
    <3>2. /\ \A t \in Session \ {ask[r].s} : book'[t] = book[t]
          /\ book'[ask[r].s] = pending[r]
          /\ MayCommit(ask[r].s, held[r], pending[r])
      BY <1>1, <3>1, Committed
    <3>3. s = ask[r].s
      BY <2>2, <3>2
    <3> QED
      BY <3>2, <3>3 DEF MayCommit
  <2> QED
    BY <2>1, <2>2
<1>2. IInv /\ [Next]_vars => [\A s \in Session : WithinSeats(book[s], book'[s])]_vars
  BY <1>1
<1> QED
  BY <1>2, InvariantHolds, PTL DEF Spec, NeverOversold

\* A claim token names one promoted party of one session, so claiming or
\* declining it moves those people and nobody else: tokens are drawn per party,
\* fresh, while two sessions may be refilled at once.
THEOREM OffersKeptApartHolds == Spec => []OffersKeptApart
<1>1. ASSUME IInv PROVE OffersKeptApart
  <2> SUFFICES ASSUME NEW s \in Session, NEW t \in Session,
                      NEW p \in Seated(book[s]), NEW q \in Seated(book[t]),
                      book[s].token[p] # NoOne, book[s].token[p] = book[t].token[q]
               PROVE  s = t /\ Group(book[s], p) = Group(book[s], q)
    BY DEF OffersKeptApart
  <2>1. p \in Person /\ q \in Person
    BY DEF Seated
  <2>2. book[s].token[p] \in TokensOf(book[s]) \cap TokensOf(book[t])
    BY <2>1 DEF TokensOf
  <2>3. s = t
    BY <1>1, <2>2 DEF IInv, OffersStayApart
  <2> QED
    BY <1>1, <2>1, <2>3 DEF IInv, OffersStayApart, OfferedTogether
<1>2. IInv => OffersKeptApart
  BY <1>1
<1> QED
  BY <1>2, InvariantHolds, PTL

\* Where members of other people's parties answer for no companions, no
\* household ever holds more people's seats than its owner has passes: form,
\* batch and refill count alike, under the owner's User row.
THEOREM PassesRespectedHolds ==
  ASSUME MembersAlone PROVE Spec => []PassesRespected
<1>1. IInv => PassesRespected
  BY DEF IInv, PassesStay
<1> QED
  BY <1>1, InvariantHolds, PTL

-----------------------------------------------------------------------------
\* The transactions implement the ledger of seats.

\* The ledger counts people as this module does.
LEMMA LedgerCounts == \A D : Ledger!Cardinality(D) = Cardinality(D)
BY DEF Ledger!Cardinality, Cardinality, Ledger!IsFiniteSet, IsFiniteSet

\* An event nobody has enrolled in is an empty ledger.
LEMMA LedgerInit == Init => Ledger!Init
<1> SUFFICES ASSUME Init PROVE Ledger!Init
  OBVIOUS
<1>1. PICK limits \in InitLimits, slots \in InitSlots :
        book = [s \in Session |-> EmptyBook(limits[s], slots[s])]
  BY DEF Init
<1>2. ASSUME NEW s \in Session
      PROVE  /\ Seated(book[s]) = {} /\ GuestSeats(book[s]) = {}
             /\ book[s].moved = FALSE
  <2>1. book[s] = EmptyBook(limits[s], slots[s])
    BY <1>1
  <2>2. /\ \A p \in Person : book[s].status[p] = "NONE" /\ book[s].guests[p] = 0
        /\ book[s].moved = FALSE
    BY <2>1 DEF EmptyBook
  <2> QED
    BY <2>2, EventAssumption DEF Seated, Occupies, GuestSeats
<1>3. Cardinality({}) = 0
  BY FS_EmptySet
<1> QED
  BY <1>2, <1>3, LedgerCounts DEF Ledger!Init

\* A commit is one decision of the ledger.
LEMMA LedgerCommit ==
  ASSUME IInv, IInv', NEW r \in Request, Commit(r)
  PROVE  Ledger!Next
<1>0. PICK s \in Session : s = ask[r].s
  BY Committed
<1> DEFINE b0 == book[s]
           b == pending[r]
<1>1. /\ s \in Session /\ b \in Book /\ MayCommit(s, held[r], b)
      /\ book'[s] = b /\ \A t \in Session \ {s} : book'[t] = book[t]
  BY <1>0, Committed
<1>2. b0 \in Book
  BY <1>1, CommittedBook
<1>3. Ledger!Fits(s)
  <2> SUFFICES ASSUME \/ Seated(b) \ Seated(b0) # {}
                      \/ Cardinality(GuestSeats(b)) > Cardinality(GuestSeats(b0))
               PROVE  SeatsTaken(b) <= Ceiling(b) \/ SeatsTaken(b) <= SeatsTaken(b0)
    BY <1>1, LedgerCounts
       DEF Ledger!Fits, Ledger!Newcomers, Ledger!Seats, SeatsTaken
  <2>1. GuestSeats(b) \subseteq GuestSeats(b0)
          => Cardinality(GuestSeats(b)) <= Cardinality(GuestSeats(b0))
    BY <1>2, SeatsCounted, FS_Subset
  <2>2. /\ Cardinality(GuestSeats(b)) \in Nat /\ Cardinality(GuestSeats(b0)) \in Nat
        /\ SeatsTaken(b) \in Nat /\ SeatsTaken(b0) \in Nat /\ Ceiling(b) \in Nat
    BY <1>1, <1>2, SeatsCounted, CeilingCounted
  <2>3. TakesSeat(b0, b)
    BY <2>1, <2>2 DEF TakesSeat
  <2>4. SeatsTaken(b) <= Larger(Ceiling(b), SeatsTaken(b0))
    BY <1>1, <2>3 DEF MayCommit, WithinSeats
  <2> QED
    BY <2>2, <2>4 DEF Larger
<1>4. Ledger!StaysApart(s)
  <2> SUFFICES ASSUME NEW t \in Session \ {s},
                      <<b.slot, book[t].slot>> \in SlotClash, ~b.moved, ~book[t].moved
               PROVE  (Seated(b) \ Seated(b0)) \cap Seated(book[t]) = {}
    BY <1>1 DEF Ledger!StaysApart, Ledger!Newcomers
  <2>1. Seated(b) \cap Seated(book[t]) = {}
    BY <1>1 DEF MayCommit, Overlap
  <2> QED
    BY <2>1
<1>5. b.moved = (b0.moved \/ b.slot # b0.slot)
  BY <1>1 DEF MayCommit
<1>6. Ledger!Decide(s)
  BY <1>1, <1>3, <1>4, <1>5 DEF Ledger!Decide
<1> QED
  BY <1>1, <1>6 DEF Ledger!Next

\* The requests, locks, offers and waiting lists are, seen from outside, a
\* ledger that changes one session at a time, lets nobody in past the seats on
\* offer and nobody into two sessions at once.
THEOREM LedgerImplemented == Spec => ImplementsLedger
<1>1. ASSUME IInv, IInv', [Next]_vars
      PROVE  [Ledger!Next]_(Ledger!ledger)
  <2>1. CASE book' = book
    BY <2>1 DEF Ledger!ledger
  <2>2. CASE \E r \in Request : Commit(r)
    BY <1>1, <2>2, LedgerCommit
  <2> QED
    BY <1>1, <2>1, <2>2, BooksChangeByCommit
<1> QED
  BY <1>1, LedgerInit, InvariantHolds, PTL DEF Spec, ImplementsLedger, Ledger!Spec

=============================================================================
