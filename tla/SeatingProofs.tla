--------------------------- MODULE SeatingProofs ---------------------------
(***************************************************************************)
(* What rewriting the rows of a book, and refilling a session, preserve,   *)
(* and how many people a refill seats.                                     *)
(***************************************************************************)
EXTENDS Seating, FiniteSetTheorems, WellFoundedInduction, TLAPS

-----------------------------------------------------------------------------
\* Whom a refill selects.

\* D is in one order.
InOneOrder(D, R) ==
  /\ \A p, q \in D : p # q => (<<p, q>> \in R <=> <<q, p>> \notin R)
  /\ \A p, q, w \in D : <<p, q>> \in R /\ <<q, w>> \in R => <<p, w>> \in R

EarlierThan(D, R, p) == {q \in D : q # p /\ <<q, p>> \in R}

\* Of finitely many rows in one order, some row comes first.
LEMMA Earliest ==
  ASSUME NEW D, NEW R, InOneOrder(D, R), IsFiniteSet(D),
         NEW S \in SUBSET D, S # {}
  PROVE  \E p \in S : \A q \in S \ {p} : <<p, q>> \in R
<1> DEFINE all == {EarlierThan(D, R, p) : p \in S}
<1>0. \A p \in S : EarlierThan(D, R, p) \in SUBSET D
  BY DEF EarlierThan
<1>1. all \subseteq FiniteSubsetsOf(D) /\ all # {}
  <2>1. \A p \in S : IsFiniteSet(EarlierThan(D, R, p))
    BY <1>0, FS_Subset
  <2> QED
    BY <1>0, <2>1 DEF FiniteSubsetsOf
<1>2. \E x \in all : \A y \in all : <<y, x>> \notin StrictSubsetOrdering(D)
  <2> HIDE DEF all
  <2> QED
    BY <1>1, FS_StrictSubsetOrderingWellFounded, WFMin
<1>3. PICK p \in S : \A q \in S :
        <<EarlierThan(D, R, q), EarlierThan(D, R, p)>> \notin StrictSubsetOrdering(D)
  BY <1>2
<1>4. ASSUME NEW q \in S \ {p}, <<p, q>> \notin R PROVE FALSE
  <2>1. <<q, p>> \in R
    BY <1>4 DEF InOneOrder
  <2>2. \A w \in EarlierThan(D, R, q) : w \in EarlierThan(D, R, p)
    BY <2>1 DEF EarlierThan, InOneOrder
  <2>3. q \in EarlierThan(D, R, p) /\ q \notin EarlierThan(D, R, q)
    BY <2>1 DEF EarlierThan
  <2>4. <<EarlierThan(D, R, q), EarlierThan(D, R, p)>> \in StrictSubsetOrdering(D)
    BY <1>0, <2>2, <2>3 DEF StrictSubsetOrdering
  <2> QED
    BY <1>3, <2>4
<1> QED
  BY <1>4

\* The waiting people of a promotion state stand in one finite line.
InLine(st) == IsFiniteSet(st.waiting) /\ InOneOrder(st.waiting, st.before)

\* Of the parties that go and bring somebody of X, the last one sees all the
\* others of X that go taken before its turn.
LEMMA LastParty ==
  ASSUME NEW st, InLine(st), NEW sel, IsSelection(st, sel),
         NEW X, sel \cap X # {}
  PROVE  \E g \in Groups(st) :
           /\ Goes(st, sel, g)
           /\ X \cap Movers(st, g) # {}
           /\ sel \cap X \subseteq Taken(st, sel, g) \cup Movers(st, g)
<1> DEFINE Heads(p, g) ==
             p \in Party(st, g) /\ \A q \in Party(st, g) \ {p} : <<p, q>> \in st.before
           Brings(g) == Goes(st, sel, g) /\ X \cap Movers(st, g) # {}
           heads == {p \in st.waiting : \E g \in Groups(st) : Brings(g) /\ Heads(p, g)}
           after == {pq \in st.waiting \X st.waiting : <<pq[2], pq[1]>> \in st.before}
<1>1. \A x \in sel : \E g \in Groups(st) : Goes(st, sel, g) /\ x \in Movers(st, g)
  BY DEF IsSelection
<1>2. ASSUME NEW g \in Groups(st)
      PROVE  \E p \in st.waiting : Heads(p, g)
  <2>1. Party(st, g) \in SUBSET st.waiting /\ Party(st, g) # {}
    BY DEF Party, Groups
  <2>2. \E p \in Party(st, g) : \A q \in Party(st, g) \ {p} : <<p, q>> \in st.before
    BY <2>1, Earliest DEF InLine
  <2> QED
    BY <2>1, <2>2
<1>3. PICK last \in heads : \A q \in heads \ {last} : <<q, last>> \in st.before
  <2>1. heads \in SUBSET st.waiting
    OBVIOUS
  <2>2. heads # {}
    BY <1>1, <1>2
  <2>3. \A p, q \in st.waiting : <<p, q>> \in after <=> <<q, p>> \in st.before
    OBVIOUS
  <2> HIDE DEF heads, after
  <2>4. \E p \in heads : \A q \in heads \ {p} : <<p, q>> \in after
    <3>1. InOneOrder(st.waiting, after)
      BY <2>3 DEF InLine, InOneOrder
    <3> QED
      BY <2>1, <2>2, <3>1, Earliest DEF InLine
  <2> QED
    BY <2>1, <2>3, <2>4
<1>4. PICK g \in Groups(st) : Brings(g) /\ Heads(last, g)
  OBVIOUS
<1>5. ASSUME NEW x \in sel \cap X
      PROVE  x \in Taken(st, sel, g) \cup Movers(st, g)
  <2>1. PICK h \in Groups(st) : Goes(st, sel, h) /\ x \in Movers(st, h)
    BY <1>1
  <2>2. PICK p \in st.waiting : Heads(p, h)
    BY <1>2
  <2>3. p \in heads
    BY <2>1, <2>2
  <2>4. st.group[x] = h
    BY <2>1 DEF Movers, Party
  <2>5. CASE p = last
    BY <1>4, <2>1, <2>2, <2>5 DEF Party
  <2>6. CASE p # last
    <3>1. <<p, last>> \in st.before
      BY <1>3, <2>3, <2>6
    <3>2. \A q \in Party(st, g) : <<p, q>> \in st.before
      BY <1>4, <2>2, <3>1 DEF InLine, InOneOrder, Party
    <3>3. h \in Ahead(st, g)
      BY <2>2, <3>2 DEF Ahead
    <3> QED
      BY <2>4, <3>3 DEF Taken
  <2> QED
    BY <2>5, <2>6
<1> QED
  BY <1>4, <1>5

\* No more people are promoted than there are free seats.
LEMMA SelectionFits ==
  ASSUME NEW st, InLine(st), st.seats \in Nat, NEW sel, IsSelection(st, sel)
  PROVE  IsFiniteSet(sel) /\ Cardinality(sel) <= st.seats
<1>1. sel \subseteq st.waiting
  BY DEF IsSelection, Movers, Party
<1>2. IsFiniteSet(sel)
  BY <1>1, FS_Subset DEF InLine
<1>3. CASE sel = {}
  BY <1>2, <1>3, FS_EmptySet
<1>4. CASE sel # {}
  <2>1. PICK g \in Groups(st) :
          /\ Goes(st, sel, g)
          /\ sel \subseteq Taken(st, sel, g) \cup Movers(st, g)
    <3>1. sel \cap sel # {}
      BY <1>4
    <3> QED
      BY <3>1, LastParty
  <2> DEFINE T == Taken(st, sel, g)
             M == Movers(st, g)
  <2>2. Cardinality(M) <= st.seats - Cardinality(T)
    BY <2>1 DEF Goes, Fits
  <2>3. IsFiniteSet(T) /\ IsFiniteSet(M)
    BY <1>2, FS_Subset DEF Taken, Movers, Party, InLine
  <2> HIDE DEF T, M
  <2>4. /\ Cardinality(T) \in Nat /\ Cardinality(M) \in Nat
        /\ Cardinality(T \cap M) \in Nat
        /\ IsFiniteSet(T \cup M)
        /\ Cardinality(T \cup M) = Cardinality(T) + Cardinality(M) - Cardinality(T \cap M)
    BY <2>3, FS_Union, FS_Intersection, FS_CardinalityType
  <2>5. Cardinality(sel) <= Cardinality(T \cup M)
    BY <2>1, <2>4, FS_Subset DEF T, M
  <2>6. Cardinality(sel) \in Nat /\ Cardinality(T \cup M) \in Nat
    BY <1>2, <2>4, FS_CardinalityType
  <2> QED
    BY <1>2, <2>2, <2>4, <2>5, <2>6
<1> QED
  BY <1>3, <1>4

\* No owner pays for more promoted people than the passes they have left.
LEMMA SelectionPaidFor ==
  ASSUME NEW st, InLine(st), NEW sel, IsSelection(st, sel),
         NEW o \in DOMAIN st.slots, st.slots[o] \in Int,
         \E p \in sel : st.owner[p] = o
  PROVE  Cardinality(Charged(st, sel, o)) <= st.slots[o]
<1> DEFINE X == {p \in sel : st.owner[p] = o}
<1>1. PICK g \in Groups(st) :
        /\ Goes(st, sel, g)
        /\ X \cap Movers(st, g) # {}
        /\ X \subseteq Taken(st, sel, g) \cup Movers(st, g)
  <2>1. sel \cap X = X /\ sel \cap X # {}
    OBVIOUS
  <2> HIDE DEF X
  <2> QED
    BY <2>1, LastParty
<1> DEFINE T == Charged(st, Taken(st, sel, g), o)
           M == Charged(st, Movers(st, g), o)
<1>2. \E p \in Movers(st, g) : st.owner[p] = o
  BY <1>1
<1>3. ~(Cardinality(M) > SlotsLeft(st, Taken(st, sel, g), o))
  BY <1>1, <1>2 DEF Goes, Fits, Shortfall
<1>4. IsFiniteSet(T) /\ IsFiniteSet(M)
  <2>1. T \subseteq st.waiting /\ M \subseteq st.waiting
    BY DEF Charged, Taken, Movers, Party, IsSelection
  <2> HIDE DEF T, M
  <2> QED
    BY <2>1, FS_Subset DEF InLine
<1>5. Charged(st, sel, o) \subseteq T \cup M
  BY <1>1 DEF Charged
<1>6. /\ Cardinality(T) \in Nat /\ Cardinality(M) \in Nat
      /\ SlotsLeft(st, Taken(st, sel, g), o) = st.slots[o] - Cardinality(T)
  BY <1>4, FS_CardinalityType DEF SlotsLeft
<1> HIDE DEF T, M
<1>7. /\ Cardinality(T \cap M) \in Nat
      /\ IsFiniteSet(T \cup M)
      /\ Cardinality(T \cup M) = Cardinality(T) + Cardinality(M) - Cardinality(T \cap M)
  BY <1>4, FS_Union, FS_Intersection, FS_CardinalityType
<1>8. /\ Cardinality(Charged(st, sel, o)) \in Nat
      /\ Cardinality(Charged(st, sel, o)) <= Cardinality(T \cup M)
  BY <1>5, <1>7, FS_Subset, FS_CardinalityType
<1> QED
  BY <1>3, <1>6, <1>7, <1>8

-----------------------------------------------------------------------------
\* Books.

\* Only people with no clash, ban or hosting role are promoted.
LEMMA SelectionEligible ==
  ASSUME NEW st, NEW sel, IsSelection(st, sel)
  PROVE  sel \subseteq st.eligible
BY DEF IsSelection, Movers

\* However its rows are rewritten, a book keeps its one creation order, and
\* its tokens on the OFFERED rows alone.
LEMMA RewrittenBook ==
  ASSUME NEW b \in Book, WellFormed(b),
         NEW status \in [Person -> Status],
         NEW token \in [Person -> Token \cup {NoOne}],
         NEW party \in [Person -> Person \cup {NoOne}],
         \A p \in Person : status[p] = "OFFERED" => token[p] # NoOne
  PROVE  LET c == Rewritten(b, status, token, party)
         IN /\ c \in Book
            /\ WellFormed(c)
            /\ c.status = status
            /\ c.slot = b.slot /\ c.moved = b.moved
            /\ c.limit = b.limit /\ c.guests = b.guests
<1> DEFINE c == Rewritten(b, status, token, party)
           now == {p \in Person : status[p] # "NONE"}
           Older(p, q) == \/ <<p, q>> \in b.before
                          \/ p \in Rows(b) /\ q \notin Rows(b)
                          \/ p \notin Rows(b) /\ q \notin Rows(b) /\ Rank[p] < Rank[q]
<1>1. /\ c.status = status
      /\ c.token = [p \in Person |->
                      IF status[p] = "OFFERED" THEN token[p] ELSE NoOne]
      /\ c.before = {pq \in now \X now : Older(pq[1], pq[2])}
      /\ c.slot = b.slot /\ c.moved = b.moved
      /\ c.limit = b.limit /\ c.guests = b.guests
  BY DEF Rewritten, Book
<1>2. c \in Book
  BY DEF Rewritten, Book
<1>3. \A p, q \in now : <<p, q>> \in c.before <=> Older(p, q)
  BY <1>1
<1>4. Rows(c) = now
  BY <1>1 DEF Rows
<1>5. \A p \in Person : c.token[p] # NoOne <=> c.status[p] = "OFFERED"
  BY <1>1
<1>6. c.before \subseteq Rows(c) \X Rows(c)
  BY <1>1, <1>4
<1>7. ASSUME NEW p \in now, NEW q \in now, p # q
      PROVE  Older(p, q) <=> ~Older(q, p)
  <2>1. Rank[p] \in Int /\ Rank[q] \in Int /\ Rank[p] # Rank[q]
    BY <1>7, EventAssumption
  <2>2. b.before \subseteq Rows(b) \X Rows(b)
    BY DEF WellFormed
  <2>3. p \in Rows(b) /\ q \in Rows(b)
          => (<<p, q>> \in b.before <=> <<q, p>> \notin b.before)
    BY <1>7 DEF WellFormed
  <2>4. QED
    BY <2>1, <2>2, <2>3
<1>8. ASSUME NEW p \in now, NEW q \in now, NEW w \in now,
             Older(p, q), Older(q, w)
      PROVE  Older(p, w)
  <2>1. Rank[p] \in Int /\ Rank[q] \in Int /\ Rank[w] \in Int
    BY EventAssumption
  <2>2. b.before \subseteq Rows(b) \X Rows(b)
    BY DEF WellFormed
  <2>3. <<p, q>> \in b.before /\ <<q, w>> \in b.before => <<p, w>> \in b.before
    BY <2>2 DEF WellFormed
  <2>4. QED
    BY <1>8, <2>1, <2>2, <2>3
<1>9. WellFormed(c)
  BY <1>3, <1>4, <1>5, <1>6, <1>7, <1>8 DEF WellFormed
<1> QED
  BY <1>1, <1>2, <1>9

\* Giving or holding seats for people keeps everybody else's seat.
LEMMA ConfirmedBook ==
  ASSUME NEW b \in Book, WellFormed(b), NEW P \in SUBSET Person
  PROVE  LET c == Confirmed(b, P)
         IN /\ c \in Book
            /\ WellFormed(c)
            /\ Seated(c) = Seated(b) \cup P
            /\ c.slot = b.slot /\ c.moved = b.moved
            /\ c.limit = b.limit /\ c.guests = b.guests
<1> DEFINE status == [p \in Person |-> IF p \in P THEN "CONFIRMED" ELSE b.status[p]]
           c == Confirmed(b, P)
<1>1. /\ b.status \in [Person -> Status]
      /\ b.token \in [Person -> Token \cup {NoOne}]
      /\ b.party \in [Person -> Person \cup {NoOne}]
  BY DEF Book
<1>2. status \in [Person -> Status]
  BY <1>1 DEF Status
<1>3. \A p \in Person : status[p] = "OFFERED" => b.token[p] # NoOne
  BY DEF WellFormed
<1>4. c = Rewritten(b, status, b.token, b.party)
  BY DEF Confirmed, WithStatus
<1> HIDE DEF c, status
<1>5. /\ c \in Book /\ WellFormed(c) /\ c.status = status
      /\ c.slot = b.slot /\ c.moved = b.moved
      /\ c.limit = b.limit /\ c.guests = b.guests
  BY <1>1, <1>2, <1>3, <1>4, RewrittenBook
<1>6. Seated(c) = Seated(b) \cup P
  BY <1>5 DEF status, Seated, Occupies
<1> QED
  BY <1>5, <1>6 DEF c

\* Offering seats to P (hold_seat, _offer): P's rows become OFFERED under a
\* token each, every other row stays, and the book stays well formed.
LEMMA OfferedBook ==
  ASSUME NEW b \in Book, WellFormed(b), NEW P \in SUBSET Person,
         NEW tok \in [P -> Token]
  PROVE  LET c == Offered(b, P, tok, b.party)
         IN /\ c \in Book
            /\ WellFormed(c)
            /\ Seated(c) = Seated(b) \cup P
            /\ c.slot = b.slot /\ c.moved = b.moved
            /\ c.limit = b.limit /\ c.guests = b.guests
<1> DEFINE status == [p \in Person |-> IF p \in P THEN "OFFERED" ELSE b.status[p]]
           token == [p \in Person |-> IF p \in P THEN tok[p] ELSE b.token[p]]
           c == Offered(b, P, tok, b.party)
<1>1. /\ b.status \in [Person -> Status]
      /\ b.token \in [Person -> Token \cup {NoOne}]
      /\ b.party \in [Person -> Person \cup {NoOne}]
  BY DEF Book
<1>2. status \in [Person -> Status] /\ token \in [Person -> Token \cup {NoOne}]
  BY <1>1 DEF Status
<1>3. \A p \in Person : status[p] = "OFFERED" => token[p] # NoOne
  BY EventAssumption DEF WellFormed
<1>4. c = Rewritten(b, status, token, b.party)
  BY DEF Offered
<1> HIDE DEF c, status, token
<1>5. /\ c \in Book /\ WellFormed(c) /\ c.status = status
      /\ c.slot = b.slot /\ c.moved = b.moved
      /\ c.limit = b.limit /\ c.guests = b.guests
  BY <1>1, <1>2, <1>3, <1>4, RewrittenBook
<1>6. Seated(c) = Seated(b) \cup P
  BY <1>5 DEF status, Seated, Occupies
<1> QED
  BY <1>5, <1>6 DEF c

\* Deleting rows frees their seats and nobody else's.
LEMMA WithoutRowsBook ==
  ASSUME NEW b \in Book, WellFormed(b), NEW P \in SUBSET Person
  PROVE  LET c == WithoutRows(b, P)
         IN /\ c \in Book
            /\ WellFormed(c)
            /\ Seated(c) = Seated(b) \ P
            /\ Waiting(c) \subseteq Waiting(b)
            /\ c.slot = b.slot /\ c.moved = b.moved
            /\ c.limit = b.limit /\ c.guests = b.guests
<1> DEFINE status == [p \in Person |-> IF p \in P THEN "NONE" ELSE b.status[p]]
           c == WithoutRows(b, P)
<1>1. /\ b.status \in [Person -> Status]
      /\ b.token \in [Person -> Token \cup {NoOne}]
      /\ b.party \in [Person -> Person \cup {NoOne}]
  BY DEF Book
<1>2. status \in [Person -> Status]
  BY <1>1 DEF Status
<1>3. \A p \in Person : status[p] = "OFFERED" => b.token[p] # NoOne
  BY DEF WellFormed
<1>4. c = Rewritten(b, status, b.token, b.party)
  BY DEF WithoutRows, WithStatus
<1> HIDE DEF c, status
<1>5. /\ c \in Book /\ WellFormed(c) /\ c.status = status
      /\ c.slot = b.slot /\ c.moved = b.moved
      /\ c.limit = b.limit /\ c.guests = b.guests
  BY <1>1, <1>2, <1>3, <1>4, RewrittenBook
<1>6. Seated(c) = Seated(b) \ P /\ Waiting(c) \subseteq Waiting(b)
  BY <1>5 DEF status, Seated, Waiting, Occupies
<1> QED
  BY <1>5, <1>6 DEF c

-----------------------------------------------------------------------------
\* Counting seats.

\* A session's seat holders and guests are finitely many.
LEMMA SeatsCounted ==
  ASSUME NEW b \in Book
  PROVE  /\ IsFiniteSet(Seated(b)) /\ Cardinality(Seated(b)) \in Nat
         /\ IsFiniteSet(GuestSeats(b)) /\ Cardinality(GuestSeats(b)) \in Nat
         /\ SeatsTaken(b) \in Nat
<1>1. IsFiniteSet(Seated(b)) /\ Cardinality(Seated(b)) \in Nat
  <2>1. Seated(b) \in SUBSET Person
    BY DEF Seated
  <2> QED
    BY <2>1, PeopleAreFinite, FS_Subset, FS_CardinalityType
<1>2. IsFiniteSet(GuestSeats(b)) /\ Cardinality(GuestSeats(b)) \in Nat
  <2>1. IsFiniteSet(1 .. MaxGuests)
    BY EventAssumption, FS_Interval
  <2>2. IsFiniteSet(Person \X (1 .. MaxGuests))
    BY <2>1, PeopleAreFinite, FS_Product
  <2>3. GuestSeats(b) \in SUBSET (Person \X (1 .. MaxGuests))
    BY DEF GuestSeats
  <2> QED
    BY <2>2, <2>3, FS_Subset, FS_CardinalityType
<1> QED
  BY <1>1, <1>2 DEF SeatsTaken

\* A session offers a natural number of seats, and so are those left over.
LEMMA CeilingCounted ==
  ASSUME NEW b \in Book
  PROVE  Ceiling(b) \in Nat /\ SeatsLeft(b) \in Nat
<1>1. b.limit \in Nat
  BY EventAssumption DEF Book
<1>2. SessionPct \in Nat
  BY EventAssumption DEF SessionPct, Larger
<1>3. Share(b.limit, SessionPct) \in Nat
  <2>1. b.limit * SessionPct \in Nat
    BY <1>1, <1>2
  <2> HIDE DEF SessionPct
  <2> QED
    BY <2>1 DEF Share
<1>4. Ceiling(b) \in Nat
  BY <1>1, <1>3 DEF Ceiling
<1> QED
  BY <1>4, SeatsCounted DEF SeatsLeft, Larger

\* Changing how many guests one person hosts changes the seats by as many.
LEMMA GuestsCounted ==
  ASSUME NEW b \in Book, NEW c \in Book, NEW h \in Person, NEW n \in 0 .. MaxGuests,
         c.guests = [b.guests EXCEPT ![h] = n]
  PROVE  /\ Cardinality(GuestSeats(c)) = Cardinality(GuestSeats(b)) + n - b.guests[h]
         /\ n <= b.guests[h] => GuestSeats(c) \subseteq GuestSeats(b)
<1> DEFINE others == {hk \in GuestSeats(b) : hk[1] # h}
           mine(k) == {h} \X (1 .. k)
<1>0. b.guests \in [Person -> 0 .. MaxGuests] /\ c.guests \in [Person -> 0 .. MaxGuests]
  BY DEF Book
<1>1. GuestSeats(b) = others \cup mine(b.guests[h])
  BY <1>0, EventAssumption DEF GuestSeats
<1>2. GuestSeats(c) = others \cup mine(n)
  <2>1. \A hk \in GuestSeats(c) : hk \in others \cup mine(n)
    BY <1>0, EventAssumption DEF GuestSeats
  <2>2. \A hk \in others \cup mine(n) : hk \in GuestSeats(c)
    BY <1>0, EventAssumption DEF GuestSeats
  <2> QED
    BY <2>1, <2>2
<1>3. ASSUME NEW k \in Nat
      PROVE  /\ IsFiniteSet(mine(k)) /\ Cardinality(mine(k)) = k
             /\ IsFiniteSet(others \cup mine(k))
             /\ Cardinality(others \cup mine(k)) = Cardinality(others) + k
  <2>1. IsFiniteSet(1 .. k) /\ Cardinality(1 .. k) = k
    BY FS_Interval
  <2>2. IsFiniteSet({h}) /\ Cardinality({h}) = 1
    BY FS_Singleton
  <2>3. IsFiniteSet(mine(k)) /\ Cardinality(mine(k)) = k
    <3>1. /\ IsFiniteSet({h} \X (1 .. k))
          /\ Cardinality({h} \X (1 .. k)) = Cardinality({h}) * Cardinality(1 .. k)
      BY <2>1, <2>2, FS_Product
    <3> QED
      BY <2>1, <2>2, <3>1
  <2>4. IsFiniteSet(others)
    BY SeatsCounted, FS_Subset
  <2>5. others \cap mine(k) = {}
    OBVIOUS
  <2> HIDE DEF others, mine
  <2>6. /\ IsFiniteSet(others \cup mine(k))
        /\ Cardinality(others \cup mine(k))
             = Cardinality(others) + Cardinality(mine(k)) - Cardinality(others \cap mine(k))
    BY <2>3, <2>4, FS_Union
  <2>7. Cardinality({}) = 0 /\ Cardinality(others) \in Nat
    BY <2>4, FS_EmptySet, FS_CardinalityType
  <2>8. Cardinality(others \cup mine(k)) = Cardinality(others) + k - 0
    BY <2>3, <2>5, <2>6, <2>7
  <2>9. Cardinality(others \cup mine(k)) = Cardinality(others) + k
    BY <2>7, <2>8
  <2> QED
    BY <2>3, <2>6, <2>9
<1>4. Cardinality(others) \in Nat
  <2>1. IsFiniteSet(others)
    BY SeatsCounted, FS_Subset
  <2> HIDE DEF others
  <2> QED
    BY <2>1, FS_CardinalityType
<1>5. b.guests[h] \in Nat /\ n \in Nat
  BY <1>0
<1>6. n <= b.guests[h] => mine(n) \subseteq mine(b.guests[h])
  BY <1>5
<1> HIDE DEF others, mine
<1>7. Cardinality(GuestSeats(b)) = Cardinality(others) + b.guests[h]
  BY <1>1, <1>3, <1>5
<1>8. Cardinality(GuestSeats(c)) = Cardinality(others) + n
  BY <1>2, <1>3, <1>5
<1>9. n <= b.guests[h] => GuestSeats(c) \subseteq GuestSeats(b)
  BY <1>1, <1>2, <1>6
<1> QED
  BY <1>4, <1>5, <1>7, <1>8, <1>9

-----------------------------------------------------------------------------
\* Offers.

\* The rows of a book that share a claim token are one promoted party.
OfferedTogether(b) ==
  \A p, q \in Person :
    b.token[p] # NoOne /\ b.token[p] = b.token[q] => Group(b, p) = Group(b, q)

\* Every offer of c was out in b already, with its token and party.
KeepsOffers(b, c) ==
  \A p \in Person : c.status[p] = "OFFERED" =>
    b.status[p] = "OFFERED" /\ c.token[p] = b.token[p] /\ c.party[p] = b.party[p]

\* Confirming, queueing and deleting rows keeps every offer that is left.
LEMMA StatusKeepsOffers ==
  ASSUME NEW b \in Book, NEW status \in [Person -> Status],
         \A p \in Person : status[p] = "OFFERED" => b.status[p] = "OFFERED"
  PROVE  KeepsOffers(b, Rewritten(b, status, b.token, b.party))
BY DEF KeepsOffers, Rewritten, Book

\* A book that makes no offer has no new token, and keeps parties together.
LEMMA OffersKept ==
  ASSUME NEW b \in Book, NEW c \in Book, WellFormed(c),
         OfferedTogether(b), KeepsOffers(b, c)
  PROVE  OfferedTogether(c) /\ TokensOf(c) \subseteq TokensOf(b)
<1>1. \A p \in Person : c.token[p] # NoOne => c.status[p] = "OFFERED"
  BY DEF WellFormed
<1>2. TokensOf(c) \subseteq TokensOf(b)
  BY <1>1 DEF TokensOf, KeepsOffers
<1>3. OfferedTogether(c)
  BY <1>1 DEF OfferedTogether, KeepsOffers, Group
<1> QED
  BY <1>2, <1>3

-----------------------------------------------------------------------------
\* Refills.

\* The seats and the passes are enough for sel.
Affords(B, s, sel) ==
  /\ Cardinality(sel) <= SeatsLeft(B[s])
  /\ \A o \in DOMAIN Passes :
       sel \cap Household(o) # {}
         => Cardinality(Household(o) \cap (HoldsSeat(B) \cup sel)) <= Passes[o]

\* The waiting list is one finite line.
LEMMA WaitingInLine ==
  ASSUME NEW B \in [Session -> Book], NEW s \in Session, WellFormed(B[s])
  PROVE  InLine(PromotionState(B, s))
<1>1. Waiting(B[s]) \subseteq Rows(B[s])
  BY DEF Waiting, Rows
<1>2. IsFiniteSet(Waiting(B[s]))
  BY PeopleAreFinite, FS_Subset DEF Waiting
<1>3. InOneOrder(Rows(B[s]), B[s].before)
  BY DEF WellFormed, InOneOrder
<1>4. InOneOrder(Waiting(B[s]), B[s].before)
  BY <1>1, <1>3 DEF InOneOrder
<1> QED
  BY <1>2, <1>4 DEF InLine, PromotionState

\* A refill selects no more people than seats are left, and no more of a
\* household than its owner has passes for.
LEMMA SelectionAffords ==
  ASSUME NEW B \in [Session -> Book], NEW s \in Session, WellFormed(B[s]),
         NEW sel \in Selections(PromotionState(B, s))
  PROVE  Affords(B, s, sel)
<1> DEFINE st == PromotionState(B, s)
           W == Waiting(B[s])
<1>1. InLine(st) /\ IsSelection(st, sel) /\ sel \subseteq W
  BY WaitingInLine DEF Selections, PromotionState
<1>2. Cardinality(sel) <= SeatsLeft(B[s])
  <2>1. st.seats = SeatsLeft(B[s]) /\ st.seats \in Nat
    BY CeilingCounted DEF PromotionState
  <2> HIDE DEF st
  <2> QED
    BY <1>1, <2>1, SelectionFits
<1>3. ASSUME NEW o \in DOMAIN Passes, sel \cap Household(o) # {}
      PROVE  Cardinality(Household(o) \cap (HoldsSeat(B) \cup sel)) <= Passes[o]
  <2> DEFINE H == Household(o)
             had == H \cap HoldsSeat(B)
             new == Charged(st, sel, o)
  <2>1. H \subseteq Person /\ W \subseteq Person
    BY DEF Household, Waiting
  <2>2. IsFiniteSet(had) /\ IsFiniteSet(new) /\ IsFiniteSet(H)
    <3>1. had \subseteq Person /\ new \subseteq Person
      BY <1>1, <2>1 DEF Charged
    <3> HIDE DEF had, new, H
    <3> QED
      BY <2>1, <3>1, PeopleAreFinite, FS_Subset
  <2>3. PICK p \in sel : p \in W /\ Owner[p] = o
    BY <1>1, <1>3 DEF Household
  <2>4. /\ o \in DOMAIN st.slots
        /\ st.slots[o] = Passes[o] - Cardinality(had)
    BY <2>3 DEF PromotionState
  <2>5. /\ Passes[o] \in Nat /\ Cardinality(had) \in Nat /\ Cardinality(new) \in Nat
    BY <2>2, EventAssumption, FS_CardinalityType
  <2>6. st.owner[p] = o
    BY <2>3 DEF PromotionState
  <2>7. H \cap (HoldsSeat(B) \cup sel) = had \cup new /\ had \cap new = {}
    <3>1. \A q \in sel : st.owner[q] = Owner[q]
      BY <1>1 DEF PromotionState
    <3>2. new = {q \in sel \ HoldsSeat(B) : Owner[q] = o}
      BY <1>1, <3>1 DEF Charged, PromotionState
    <3>3. H = {q \in Person : Owner[q] = o}
      BY DEF Household
    <3> HIDE DEF H, new
    <3> QED
      BY <1>1, <2>1, <3>2, <3>3
  <2>8. Cardinality(new) <= st.slots[o]
    <3>1. st.slots[o] \in Int
      BY <2>4, <2>5
    <3> HIDE DEF st
    <3> QED
      BY <1>1, <2>4, <2>6, <3>1, SelectionPaidFor
  <2> HIDE DEF had, new, H, st
  <2>9. Cardinality(had \cup new) = Cardinality(had) + Cardinality(new) - Cardinality({})
    <3>1. Cardinality(had \cup new) = Cardinality(had) + Cardinality(new) - Cardinality(had \cap new)
      BY <2>2, FS_Union
    <3> QED
      BY <2>7, <3>1
  <2>10. Cardinality(had \cup new) = Cardinality(had) + Cardinality(new)
    BY <2>5, <2>9, FS_EmptySet
  <2>11. Cardinality(had \cup new) <= Passes[o]
    BY <2>4, <2>5, <2>8, <2>10
  <2> QED
    BY <2>7, <2>11 DEF H
<1> QED
  BY <1>2, <1>3 DEF Affords

\* A refill seats only people who wait for the session and hold no seat at
\* the same time, as many as there are seats and passes for, and leaves an
\* unscheduled session alone.
LEMMA RefillBook ==
  ASSUME NEW B \in [Session -> Book], NEW s \in Session, WellFormed(B[s]),
         NEW phase, NEW fresh \in SUBSET Token,
         NEW c \in Refills(B, s, phase, fresh)
  PROVE  /\ c \in Book
         /\ WellFormed(c)
         /\ c.slot = B[s].slot /\ c.moved = B[s].moved
         /\ c.limit = B[s].limit /\ c.guests = B[s].guests
         /\ \E sel \in SUBSET (Waiting(B[s]) \ Conflicted(B, s)) :
              Seated(c) = Seated(B[s]) \cup sel /\ (sel = {} \/ Affords(B, s, sel))
         /\ B[s].slot = NoOne => c = B[s]
<1> DEFINE b == B[s]
           st == PromotionState(B, s)
           closed == phase = "started" \/ b.slot = NoOne
           gives == Mode[s] = "AUTO" \/ phase = "near"
<1>1. CASE closed
  <2>1. c = b
    BY <1>1 DEF Refills
  <2>2. Seated(c) = Seated(b) \cup {}
    BY <2>1
  <2> QED
    BY <2>1, <2>2
<1>2. CASE ~closed
  <2>1. PICK sel \in Selections(st) :
          c \in IF gives THEN {Confirmed(b, sel)}
                ELSE {Offered(b, sel, tok, b.party) :
                        tok \in TokenDraws(st, sel, fresh)}
    BY <1>2 DEF Refills
  <2>2. sel \subseteq st.eligible
    BY SelectionEligible DEF Selections
  <2>3. sel \subseteq Waiting(b) \ Conflicted(B, s)
    BY <2>2 DEF PromotionState
  <2>4. sel \subseteq Person
    BY <2>3 DEF Waiting
  <2>5. b \in Book /\ Affords(B, s, sel)
    BY SelectionAffords
  <2> HIDE DEF b, st
  <2>6. /\ c \in Book /\ WellFormed(c)
        /\ c.slot = b.slot /\ c.moved = b.moved
        /\ c.limit = b.limit /\ c.guests = b.guests
        /\ Seated(c) = Seated(b) \cup sel
    <3>1. CASE c = Confirmed(b, sel)
      BY <2>4, <2>5, <3>1, ConfirmedBook DEF b
    <3>2. CASE \E tok \in TokenDraws(st, sel, fresh) : c = Offered(b, sel, tok, b.party)
      <4>1. PICK tok \in [sel -> Token] : c = Offered(b, sel, tok, b.party)
        BY <3>2 DEF TokenDraws
      <4> QED
        BY <2>4, <2>5, <4>1, OfferedBook DEF b
    <3> QED
      BY <2>1, <3>1, <3>2
  <2> QED
    BY <1>2, <2>3, <2>5, <2>6 DEF b
<1> QED
  BY <1>1, <1>2

\* A refill offers its seats under fresh tokens, one to a party.
LEMMA RefillOffers ==
  ASSUME NEW B \in [Session -> Book], NEW s \in Session, WellFormed(B[s]),
         OfferedTogether(B[s]),
         NEW phase, NEW fresh \in SUBSET Token, fresh \cap TokensOf(B[s]) = {},
         NEW c \in Refills(B, s, phase, fresh)
  PROVE  OfferedTogether(c) /\ TokensOf(c) \subseteq TokensOf(B[s]) \cup fresh
<1> DEFINE b == B[s]
           st == PromotionState(B, s)
<1>0. b \in Book /\ c \in Book /\ WellFormed(c)
  BY RefillBook
<1>1. CASE c = b
  BY <1>1
<1>2. CASE \E sel \in Selections(st) : c = Confirmed(b, sel)
  <2>1. PICK sel \in Selections(st) : c = Confirmed(b, sel)
    BY <1>2
  <2> DEFINE status == [p \in Person |-> IF p \in sel THEN "CONFIRMED" ELSE b.status[p]]
  <2>2. status \in [Person -> Status] /\ \A p \in Person : status[p] = "OFFERED" => b.status[p] = "OFFERED"
    BY <1>0 DEF Book, Status
  <2>3. c = Rewritten(b, status, b.token, b.party)
    BY <2>1 DEF Confirmed, WithStatus
  <2> HIDE DEF status, b
  <2> QED
    BY <1>0, <2>2, <2>3, StatusKeepsOffers, OffersKept DEF b
<1>3. CASE \E sel \in Selections(st) : \E tok \in TokenDraws(st, sel, fresh) :
             c = Offered(b, sel, tok, b.party)
  <2>1. PICK sel \in Selections(st) : \E tok \in TokenDraws(st, sel, fresh) :
               c = Offered(b, sel, tok, b.party)
    BY <1>3
  <2>2. PICK tok \in TokenDraws(st, sel, fresh) : c = Offered(b, sel, tok, b.party)
    BY <2>1
  <2>3. /\ tok \in [sel -> fresh]
        /\ \A p, q \in sel : tok[p] = tok[q] => st.group[p] = st.group[q]
    BY DEF TokenDraws
  <2>4. sel \subseteq Waiting(b) /\ sel \subseteq Person
    BY DEF Selections, PromotionState, Waiting
  <2>5. \A p \in sel : st.group[p] = Group(b, p)
    BY <2>4 DEF PromotionState
  <2> HIDE DEF b, st
  <2>6. /\ \A p \in sel : c.token[p] = tok[p] /\ c.party[p] = b.party[p]
        /\ \A p \in Person \ sel : c.token[p] # NoOne =>
             c.token[p] = b.token[p] /\ c.party[p] = b.party[p]
    <3>1. /\ c.token = [p \in Person |->
              IF p \in sel THEN tok[p]
              ELSE IF b.status[p] = "OFFERED" THEN b.token[p] ELSE NoOne]
          /\ c.party = [p \in Person |->
              IF p \in sel \/ b.status[p] \in {"WAITING", "OFFERED"}
              THEN b.party[p] ELSE NoOne]
      BY <1>0, <2>2 DEF Offered, Rewritten, Book
    <3> QED
      BY <2>4, <3>1
  <2>7. \A p \in sel : Group(c, p) = Group(b, p) /\ c.token[p] \in fresh
    BY <2>3, <2>6 DEF Group
  <2>8. \A p \in Person \ sel : c.token[p] # NoOne =>
          Group(c, p) = Group(b, p) /\ c.token[p] = b.token[p] /\ c.token[p] \in TokensOf(b)
    BY <2>6 DEF Group, TokensOf
  <2>9. OfferedTogether(c)
    <3> SUFFICES ASSUME NEW p \in Person, NEW q \in Person,
                        c.token[p] # NoOne, c.token[p] = c.token[q]
                 PROVE  Group(c, p) = Group(c, q)
      BY DEF OfferedTogether
    <3>1. CASE p \in sel /\ q \in sel
      BY <2>3, <2>5, <2>6, <2>7, <3>1
    <3>2. CASE p \notin sel /\ q \notin sel
      BY <2>8, <3>2 DEF OfferedTogether, b
    <3>3. CASE p \in sel <=> q \notin sel
      BY <2>7, <2>8, <3>3 DEF b
    <3> QED
      BY <3>1, <3>2, <3>3
  <2>10. TokensOf(c) \subseteq TokensOf(b) \cup fresh
    BY <2>7, <2>8 DEF TokensOf
  <2> QED
    BY <2>9, <2>10 DEF b
<1>4. \/ c = b
      \/ \E sel \in Selections(st) : c = Confirmed(b, sel)
      \/ \E sel \in Selections(st) : \E tok \in TokenDraws(st, sel, fresh) :
           c = Offered(b, sel, tok, b.party)
  BY DEF Refills
<1> QED
  BY <1>1, <1>2, <1>3, <1>4

=============================================================================
