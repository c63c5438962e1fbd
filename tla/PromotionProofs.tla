--------------------------- MODULE PromotionProofs ---------------------------
(***************************************************************************)
(* The loop of select_promotable_parties computes the rule of Promotion,   *)
(* for any waiting list, grouping, eligibility, payers and passes.         *)
(*                                                                         *)
(* The invariant says of the parties behind the loop what the rule says of *)
(* all of them: which have gone, that none of them stops the walk, and     *)
(* that whatever the rule can select agrees with the loop so far.          *)
(***************************************************************************)
EXTENDS PromotionWalk, FiniteSetTheorems, TLAPS

\* The parties still to visit, and those the loop has left behind.
Left == {parties[i] : i \in DOMAIN parties}
Seen == {st.group[p] : p \in {q \in st.waiting : q < row}}
Gone == Seen \ Left

\* The invariant's parts: types ...
WTypeOK ==
  /\ \E n \in Nat : st.waiting = 1 .. n /\ row \in 1 .. n + 1
  /\ st.before = {ij \in st.waiting \X st.waiting : ij[1] < ij[2]}
  /\ st.eligible \subseteq st.waiting
  /\ st.group \in [st.waiting -> Key]
  /\ st.seats \in Int
  /\ st.slots \in [DOMAIN st.slots -> Int]
  /\ parties \in Seq(Key)
  /\ stopped \in BOOLEAN

\* ... the parties queue by their earliest rows, none twice ...
InOrder ==
  /\ \A i, j \in DOMAIN parties : i < j => parties[i] \in Ahead(st, parties[j])
  /\ \A h \in Gone, g \in Left : h \in Ahead(st, g)
  /\ Left \subseteq Seen

\* ... while rows are grouped, no party is visited ...
GroupedFirst == row \in st.waiting => Gone = {} /\ ~stopped

\* ... the parties behind the loop were judged as the rule judges them ...
WentThrough(g) == Goes(st, selected, g)

Judged ==
  /\ selected = UNION {Movers(st, g) : g \in {h \in Gone : WentThrough(h)}}
  /\ \A h \in Gone : ~Stops(st, Taken(st, selected, h), h)
  /\ stopped => parties # <<>> /\ Stops(st, selected, Head(parties))

\* ... the totals are what the rule says is left ...
Totals ==
  /\ seats = st.seats - Cardinality(selected)
  /\ DOMAIN slots = DOMAIN st.slots
  /\ \A o \in DOMAIN slots : slots[o] = SlotsLeft(st, selected, o)

\* ... and the rule leaves no other choice of the parties behind the loop.
Among(sel, G) == {p \in sel : st.group[p] \in G}

NoOther ==
  \A sel \in SUBSET st.waiting : IsSelection(st, sel) => Among(sel, Gone) = selected

WInv == WTypeOK /\ InOrder /\ GroupedFirst /\ Judged /\ Totals /\ NoOther

-----------------------------------------------------------------------------
\* The order of parties.

\* No party is ahead of itself, and to be ahead is transitive.
LEMMA AheadIsAnOrder ==
  ASSUME WTypeOK
  PROVE  /\ \A g : g \notin Ahead(st, g)
         /\ \A f, g, h : f \in Ahead(st, g) /\ g \in Ahead(st, h) => f \in Ahead(st, h)
<1>1. st.waiting \subseteq Int
  BY DEF WTypeOK
<1>2. \A p, q \in st.waiting : <<p, q>> \in st.before <=> p < q
  BY DEF WTypeOK
<1>3. ASSUME NEW g, g \in Ahead(st, g) PROVE FALSE
  <2>1. PICK p \in Party(st, g) : \A q \in Party(st, g) : <<p, q>> \in st.before
    BY <1>3 DEF Ahead
  <2>2. p \in st.waiting /\ p \in Int /\ p < p
    BY <1>1, <1>2, <2>1 DEF Party
  <2> QED
    BY <2>2
<1>4. ASSUME NEW f, NEW g, NEW h, f \in Ahead(st, g), g \in Ahead(st, h)
      PROVE  f \in Ahead(st, h)
  <2>1. PICK p \in Party(st, f) : \A q \in Party(st, g) : <<p, q>> \in st.before
    BY <1>4 DEF Ahead
  <2>2. PICK r \in Party(st, g) : \A q \in Party(st, h) : <<r, q>> \in st.before
    BY <1>4 DEF Ahead
  <2>3. ASSUME NEW q \in Party(st, h) PROVE <<p, q>> \in st.before
    <3>1. p \in st.waiting /\ r \in st.waiting /\ q \in st.waiting
      BY DEF Party
    <3>2. p < r /\ r < q
      BY <1>2, <2>1, <2>2, <3>1
    <3>3. p < q
      BY <1>1, <3>1, <3>2
    <3> QED
      BY <1>2, <3>1, <3>3
  <2>4. f \in Groups(st)
    BY <1>4 DEF Ahead
  <2> QED
    BY <2>1, <2>3, <2>4 DEF Ahead
<1> QED
  BY <1>3, <1>4

\* The parties ahead of the one the loop visits are those behind the loop.
LEMMA HeadOfTheLine ==
  ASSUME WInv, Grouped, parties # <<>>
  PROVE  /\ Head(parties) \in Left
         /\ Ahead(st, Head(parties)) = Gone
         /\ \A g \in Left : g = Head(parties) \/ Head(parties) \in Ahead(st, g)
         /\ Groups(st) = Gone \cup Left
<1> DEFINE k == Head(parties)
<1>1. parties \in Seq(Key) /\ Len(parties) \in Nat \ {0} /\ k = parties[1]
  BY DEF WInv, WTypeOK
<1>2. 1 \in DOMAIN parties /\ DOMAIN parties = 1 .. Len(parties)
  BY <1>1
<1>3. k \in Left
  BY <1>1, <1>2 DEF Left
<1>4. \A g \in Left : g = k \/ k \in Ahead(st, g)
  <2> SUFFICES ASSUME NEW i \in DOMAIN parties PROVE parties[i] = k \/ k \in Ahead(st, parties[i])
    BY DEF Left
  <2> QED
    BY <1>1, <1>2 DEF WInv, InOrder
<1>5. Groups(st) = Seen
  <2>1. PICK n \in Nat : st.waiting = 1 .. n /\ row \in 1 .. n + 1
    BY DEF WInv, WTypeOK
  <2>2. \A q \in st.waiting : q < row
    BY <2>1 DEF Grouped
  <2> QED
    BY <2>2 DEF Groups, Seen
<1>6. Groups(st) = Gone \cup Left
  BY <1>5 DEF Gone, WInv, InOrder
<1>7. \A h \in Ahead(st, k) : h \in Gone
  <2>1. WTypeOK
    BY DEF WInv
  <2>2. \A h \in Ahead(st, k) : h \in Groups(st)
    BY DEF Ahead
  <2>3. \A h \in Ahead(st, k) : h \notin Left
    BY <1>4, <2>1, AheadIsAnOrder
  <2> QED
    BY <1>6, <2>2, <2>3
<1>8. \A h \in Gone : h \in Ahead(st, k)
  BY <1>3 DEF WInv, InOrder
<1> QED
  BY <1>3, <1>4, <1>6, <1>7, <1>8

\* Whom the loop selected belongs to the parties behind it.
LEMMA SelectedGone ==
  ASSUME WInv
  PROVE  /\ selected \subseteq st.waiting
         /\ \A p \in selected : st.group[p] \in Gone
         /\ IsFiniteSet(st.waiting) /\ IsFiniteSet(selected)
<1>1. selected \subseteq st.waiting /\ \A p \in selected : st.group[p] \in Gone
  BY DEF WInv, Judged, Movers, Party
<1>2. IsFiniteSet(st.waiting)
  BY FS_Interval DEF WInv, WTypeOK
<1> QED
  BY <1>1, <1>2, FS_Subset

\* What stands behind a party is nothing to it: it is judged by what is taken
\* ahead of it.
LEMMA JudgedByThoseAhead ==
  ASSUME NEW sel, NEW other, NEW g,
         \A h \in Ahead(st, g) \cup {g} : Taken(st, sel, h) = Taken(st, other, h)
  PROVE  Goes(st, sel, g) <=> Goes(st, other, g)
BY DEF Goes

-----------------------------------------------------------------------------
\* The steps of the loop.

LEMMA WInit == Init => WInv
<1> SUFFICES ASSUME Init PROVE WInv
  OBVIOUS
<1> USE WalkAssumption
<1>1. PICK n \in 0 .. MaxWaiting, room \in 0 .. MaxSeats, paying \in SUBSET Owner :
      \E E \in SUBSET (1 .. n), S \in SUBSET (1 .. n) :
      \E group \in [1 .. n -> Key], owner \in [1 .. n -> Owner] :
      \E left \in [paying -> Passes] :
        /\ st = [seats |-> room, waiting |-> 1 .. n,
                 before |-> {ij \in (1 .. n) \X (1 .. n) : ij[1] < ij[2]},
                 eligible |-> E, group |-> group, owner |-> owner,
                 slots |-> left, seated |-> S]
        /\ row = 1
        /\ parties = <<>>
        /\ seats = room
        /\ slots = left
        /\ selected = {}
        /\ stopped = FALSE
  BY Zenon DEF Init
<1>2. PICK E \in SUBSET (1 .. n), S \in SUBSET (1 .. n),
           group \in [1 .. n -> Key], owner \in [1 .. n -> Owner],
           left \in [paying -> Passes] :
        /\ st = [seats |-> room, waiting |-> 1 .. n,
                 before |-> {ij \in (1 .. n) \X (1 .. n) : ij[1] < ij[2]},
                 eligible |-> E, group |-> group, owner |-> owner,
                 slots |-> left, seated |-> S]
        /\ row = 1
        /\ parties = <<>>
        /\ seats = room
        /\ slots = left
        /\ selected = {}
        /\ stopped = FALSE
  BY <1>1, Zenon
<1>3. /\ st.seats = room /\ st.waiting = 1 .. n
      /\ st.before = {ij \in st.waiting \X st.waiting : ij[1] < ij[2]}
      /\ st.eligible = E /\ st.group = group /\ st.slots = left
  BY <1>2
<1>4. n \in Nat /\ room \in Int
  OBVIOUS
<1>5. WTypeOK
  <2>1. st.slots \in [DOMAIN st.slots -> Int]
    BY <1>2, <1>3
  <2>2. st.waiting = 1 .. n /\ row \in 1 .. n + 1
    BY <1>2, <1>3, <1>4
  <2>3. parties \in Seq(Key) /\ stopped \in BOOLEAN
    <3>1. parties = <<>> /\ <<>> \in Seq(Key)
      BY <1>2
    <3> QED
      BY <1>2, <3>1
  <2> QED
    BY <1>3, <1>4, <2>1, <2>2, <2>3 DEF WTypeOK
<1>6. Left = {} /\ Gone = {}
  <2>1. \A p \in st.waiting : ~(p < row)
    BY <1>2, <1>3, <1>4
  <2> QED
    BY <1>2, <2>1 DEF Left, Gone, Seen
<1>7. InOrder /\ GroupedFirst
  BY <1>2, <1>6 DEF InOrder, GroupedFirst
<1>8. Judged
  BY <1>2, <1>6 DEF Judged
<1>9. Totals
  <2>1. Cardinality(selected) = 0
    BY <1>2, FS_EmptySet
  <2>2. \A o : Charged(st, selected, o) = {}
    BY <1>2 DEF Charged
  <2>3. \A o : Cardinality(Charged(st, selected, o)) = 0
    BY <2>2, FS_EmptySet
  <2>4. \A o \in DOMAIN slots : slots[o] \in Int
    BY <1>2
  <2> QED
    BY <1>2, <1>3, <1>4, <2>1, <2>3, <2>4 DEF Totals, SlotsLeft
<1>10. NoOther
  BY <1>2, <1>6 DEF NoOther, Among
<1> QED
  BY <1>5, <1>7, <1>8, <1>9, <1>10 DEF WInv

\* The rows of a party that is new to the loop are all still to come.
LEMMA WGroupRow ==
  ASSUME WInv, GroupRow
  PROVE  WInv'
<1> DEFINE g == st.group[row]
<1>1. PICK n \in Nat : st.waiting = 1 .. n /\ row \in 1 .. n
  BY DEF WInv, WTypeOK, GroupRow
<1>2. UNCHANGED <<st, seats, slots, selected, stopped>> /\ row' = row + 1
  BY DEF GroupRow
<1>3. parties \in Seq(Key) /\ g \in Key
  BY <1>1 DEF WInv, WTypeOK
<1>4. Seen' = Seen \cup {g}
  <2>1. \A q \in st.waiting : q < row' <=> q < row \/ q = row
    BY <1>1, <1>2
  <2> QED
    BY <1>1, <1>2, <2>1 DEF Seen
<1>5. Gone = {} /\ ~stopped /\ Left = Seen
  BY <1>1 DEF WInv, GroupedFirst, InOrder, Gone
<1>6. /\ parties' \in Seq(Key) /\ Left' = Left \cup {g}
      /\ \A i, j \in DOMAIN parties' : i < j => parties'[i] \in Ahead(st, parties'[j])
  <2>1. CASE \E i \in DOMAIN parties : parties[i] = g
    <3>1. parties' = parties
      BY <2>1 DEF GroupRow
    <3>2. Left' = Left /\ g \in Left
      BY <2>1, <3>1 DEF Left
    <3> QED
      BY <1>3, <3>1, <3>2 DEF WInv, InOrder
  <2>2. CASE ~ \E i \in DOMAIN parties : parties[i] = g
    <3> DEFINE k == Len(parties)
    <3>1. parties' = Append(parties, g)
      BY <2>2 DEF GroupRow
    <3>2. /\ parties' \in Seq(Key) /\ k \in Nat
          /\ DOMAIN parties = 1 .. k /\ DOMAIN parties' = 1 .. k + 1
          /\ parties'[k + 1] = g
          /\ \A i \in 1 .. k : parties'[i] = parties[i]
      BY <1>3, <3>1
    <3>3. g \notin Left
      BY <2>2 DEF Left
    <3>4. \A i \in 1 .. k : parties[i] \in Ahead(st, g)
      <4> SUFFICES ASSUME NEW i \in 1 .. k PROVE parties[i] \in Ahead(st, g)
        OBVIOUS
      <4>1. parties[i] \in Seen
        BY <1>5, <3>2 DEF Left
      <4>2. PICK p \in st.waiting : p < row /\ st.group[p] = parties[i]
        BY <4>1 DEF Seen
      <4>3. \A q \in Party(st, g) : q \in st.waiting /\ ~(q < row)
        BY <1>5, <3>3 DEF Seen, Party
      <4>4. \A q \in Party(st, g) : p < q
        BY <1>1, <4>2, <4>3
      <4>5. \A q \in Party(st, g) : <<p, q>> \in st.before
        BY <4>2, <4>3, <4>4 DEF WInv, WTypeOK
      <4> QED
        BY <4>2, <4>5 DEF Ahead, Groups, Party
    <3>5. Left' = Left \cup {g}
      <4>1. Left' = {parties'[i] : i \in 1 .. k + 1} /\ Left = {parties[i] : i \in 1 .. k}
        BY <3>2 DEF Left
      <4> HIDE DEF g
      <4>2. \A i \in 1 .. k + 1 : i \in 1 .. k \/ i = k + 1
        BY <3>2
      <4>3. k + 1 \in 1 .. k + 1 /\ \A i \in 1 .. k : i \in 1 .. k + 1
        BY <3>2
      <4> QED
        BY <3>2, <4>1, <4>2, <4>3
    <3>6. ASSUME NEW i \in DOMAIN parties', NEW j \in DOMAIN parties', i < j
          PROVE  parties'[i] \in Ahead(st, parties'[j])
      <4>1. CASE j \in 1 .. k
        BY <3>2, <3>6, <4>1 DEF WInv, InOrder
      <4>2. CASE j = k + 1
        BY <3>2, <3>4, <3>6, <4>2
      <4> QED
        BY <3>2, <4>1, <4>2
    <3> QED
      BY <3>2, <3>5, <3>6
  <2> QED
    BY <2>1, <2>2
<1>7. Left' = Seen' /\ Gone' = {}
  BY <1>4, <1>5, <1>6 DEF Gone
<1>8. WTypeOK'
  BY <1>1, <1>2, <1>6 DEF WInv, WTypeOK
<1>9. InOrder' /\ GroupedFirst'
  BY <1>2, <1>5, <1>6, <1>7 DEF InOrder, GroupedFirst
<1>10. Judged'
  BY <1>2, <1>5, <1>7 DEF WInv, Judged, WentThrough
<1>12. NoOther'
  BY <1>2, <1>5, <1>7 DEF WInv, NoOther, Among
<1>11. Totals'
  BY <1>2 DEF WInv, Totals
<1> QED
  BY <1>8, <1>9, <1>10, <1>11, <1>12 DEF WInv

\* What the loop works out of the party it visits is what the rule says.
LEMMA Visited ==
  ASSUME WInv, NEW g, Visit(g)
  PROVE  /\ g \in Left /\ g \notin Gone
         /\ Ahead(st, g) = Gone
         /\ \A sel : Taken(st, sel, g) = Among(sel, Gone)
         /\ Taken(st, selected, g) = selected
         /\ Eligible(g) = Movers(st, g)
         /\ \A o : Needed(g, o) = Cardinality(Charged(st, Movers(st, g), o))
         /\ Short(g) = Shortfall(st, selected, g)
         /\ Eligible(g) = {} \/ Broke(g) <=> Skipped(st, selected, g)
<1>1. Grouped /\ ~stopped /\ parties # <<>> /\ g = Head(parties)
  BY DEF Visit
<1>2. g \in Left /\ Ahead(st, g) = Gone
  BY <1>1, HeadOfTheLine
<1>3. \A sel : Taken(st, sel, g) = Among(sel, Gone)
  BY <1>2 DEF Taken, Among
<1>4. Taken(st, selected, g) = selected
  BY <1>3, SelectedGone DEF Among
<1>5. Eligible(g) = Movers(st, g)
  BY DEF Eligible, Movers
<1>6. ASSUME NEW o PROVE Needed(g, o) = Cardinality(Charged(st, Movers(st, g), o))
  <2>1. {p \in Eligible(g) : st.owner[p] = o /\ p \notin st.seated}
          = Charged(st, Movers(st, g), o)
    BY <1>5 DEF Charged
  <2> QED
    BY <2>1 DEF Needed
<1>7. Short(g) = Shortfall(st, selected, g)
  BY <1>5, <1>6 DEF WInv, Totals, Short, Shortfall
<1>8. Eligible(g) = {} \/ Broke(g) <=> Skipped(st, selected, g)
  <2>1. \A o \in Shortfall(st, selected, g) : slots[o] = SlotsLeft(st, selected, o)
    BY DEF Shortfall, WInv, Totals
  <2> QED
    BY <1>5, <1>7, <2>1 DEF Broke, Skipped
<1>9. g \notin Gone
  BY <1>2 DEF Gone
<1> QED
  BY <1>2, <1>3, <1>4, <1>5, <1>6, <1>7, <1>8, <1>9

\* The party visited leaves the line, and all others keep their places.
LEMMA OneLess ==
  ASSUME WInv, NEW g, Visit(g), parties' = Tail(parties), UNCHANGED <<st, row>>
  PROVE  /\ Gone' = Gone \cup {g}
         /\ InOrder'
         /\ parties' \in Seq(Key)
<1> DEFINE n == Len(parties)
<1>1. /\ parties \in Seq(Key) /\ parties # <<>> /\ n \in Nat \ {0}
      /\ DOMAIN parties = 1 .. n /\ g = parties[1]
  BY DEF Visit, WInv, WTypeOK
<1>2. /\ parties' \in Seq(Key) /\ DOMAIN parties' = 1 .. n - 1
      /\ \A i \in 1 .. n - 1 : parties'[i] = parties[i + 1]
  BY <1>1
<1>3. \A i, j \in 1 .. n : i < j => parties[i] \in Ahead(st, parties[j])
  BY <1>1 DEF WInv, InOrder
<1>4. WTypeOK /\ \A h : h \notin Ahead(st, h)
  BY AheadIsAnOrder DEF WInv
<1>5. Left' = Left \ {g}
  <2>1. Left' = {parties[i + 1] : i \in 1 .. n - 1}
    BY <1>2 DEF Left
  <2>2. Left = {parties[i] : i \in 1 .. n}
    BY <1>1 DEF Left
  <2>3. \A i \in 1 .. n - 1 : i + 1 \in 1 .. n /\ 1 < i + 1 /\ 1 \in 1 .. n
    BY <1>1
  <2>4. \A i \in 1 .. n - 1 : parties[i + 1] # g
    BY <1>1, <1>3, <1>4, <2>3
  <2>5. ASSUME NEW i \in 1 .. n, parties[i] # g
        PROVE  parties[i] \in {parties[j + 1] : j \in 1 .. n - 1}
    <3>1. i - 1 \in 1 .. n - 1 /\ (i - 1) + 1 = i
      BY <1>1, <2>5
    <3> QED
      BY <3>1
  <2> QED
    BY <2>1, <2>2, <2>3, <2>4, <2>5
<1>6. g \in Left /\ g \notin Gone /\ Ahead(st, g) = Gone
  BY Visited
<1>7. Seen' = Seen
  BY DEF Seen
<1>8. Gone' = Gone \cup {g}
  BY <1>5, <1>6, <1>7 DEF Gone, WInv, InOrder
<1>9. ASSUME NEW h \in Left' PROVE g \in Ahead(st, h)
  <2>1. Grouped /\ parties # <<>> /\ g = Head(parties)
    BY DEF Visit
  <2> QED
    BY <1>5, <2>1, HeadOfTheLine
<1>10. \A i, j \in DOMAIN parties' : i < j => parties'[i] \in Ahead(st, parties'[j])
  <2> SUFFICES ASSUME NEW i \in 1 .. n - 1, NEW j \in 1 .. n - 1, i < j
               PROVE  parties'[i] \in Ahead(st, parties'[j])
    BY <1>2
  <2>1. i + 1 \in 1 .. n /\ j + 1 \in 1 .. n /\ i + 1 < j + 1
    BY <1>1
  <2> QED
    BY <1>2, <1>3, <2>1
<1>11. InOrder'
  BY <1>5, <1>7, <1>8, <1>9, <1>10 DEF InOrder, WInv
<1> QED
  BY <1>2, <1>8, <1>11

\* A party behind the loop is judged the same after another has been visited.
LEMMA StillJudged ==
  ASSUME WInv, NEW g, Visit(g), NEW sel, Among(sel, Gone) = selected
  PROVE  \A h \in Gone : /\ Taken(st, sel, h) = Taken(st, selected, h)
                         /\ Goes(st, sel, h) <=> Goes(st, selected, h)
<1>1. \A h \in Gone : Ahead(st, h) \subseteq Gone
  <2>1. Ahead(st, g) = Gone /\ WTypeOK
    BY Visited DEF WInv
  <2> QED
    BY <2>1, AheadIsAnOrder
<1>2. \A h \in Gone : Taken(st, sel, h) = Taken(st, selected, h)
  BY <1>1 DEF Taken, Among
<1>3. ASSUME NEW h \in Gone PROVE Goes(st, sel, h) <=> Goes(st, selected, h)
  BY <1>1, <1>2, <1>3, JudgedByThoseAhead
<1> QED
  BY <1>2, <1>3

\* Whether the party visited goes is the same for every selection the rule
\* allows, and its people are in or out with it.
LEMMA OneMore ==
  ASSUME WInv, NEW g, Visit(g), NEW sel \in SUBSET st.waiting, IsSelection(st, sel)
  PROVE  /\ Goes(st, sel, g) <=> ~Skipped(st, selected, g) /\ Fits(st, selected, g)
         /\ Among(sel, Gone \cup {g})
              = selected \cup (IF Goes(st, sel, g) THEN Movers(st, g) ELSE {})
<1>1. Among(sel, Gone) = selected
  BY DEF WInv, NoOther
<1>2. Taken(st, sel, g) = selected /\ Ahead(st, g) = Gone
  BY <1>1, Visited
<1>3. \A h \in Gone : ~Stops(st, Taken(st, sel, h), h)
  BY <1>1, StillJudged DEF WInv, Judged
<1>4. Goes(st, sel, g) <=> ~Skipped(st, selected, g) /\ Fits(st, selected, g)
  BY <1>2, <1>3 DEF Goes
<1>5. {p \in sel : st.group[p] = g} = IF Goes(st, sel, g) THEN Movers(st, g) ELSE {}
  <2>1. \A p \in sel : \E h \in Groups(st) : Goes(st, sel, h) /\ p \in Movers(st, h)
    BY DEF IsSelection
  <2>2. \A h : \A p \in Movers(st, h) : st.group[p] = h
    BY DEF Movers, Party
  <2>3. Goes(st, sel, g) => Movers(st, g) \subseteq sel
    <3>1. g \in Groups(st)
      BY Visited, HeadOfTheLine DEF Visit
    <3> QED
      BY <3>1 DEF IsSelection
  <2> QED
    BY <2>1, <2>2, <2>3
<1>6. Among(sel, Gone \cup {g}) = Among(sel, Gone) \cup {p \in sel : st.group[p] = g}
  BY DEF Among
<1> QED
  BY <1>1, <1>4, <1>5, <1>6

LEMMA WSkipParty ==
  ASSUME WInv, NEW g, Visit(g), Eligible(g) = {} \/ Broke(g), parties' = Tail(parties),
         UNCHANGED <<st, row, seats, slots, selected, stopped>>
  PROVE  WInv'
<1>1. Gone' = Gone \cup {g} /\ InOrder' /\ parties' \in Seq(Key)
  BY OneLess
<1>2. /\ Skipped(st, selected, g)
      /\ Taken(st, selected, g) = selected
  BY Visited
<1>3. ~stopped /\ Grouped
  BY DEF Visit
<1>4. WTypeOK'
  BY <1>1 DEF WInv, WTypeOK
<1>5. GroupedFirst'
  BY <1>3 DEF GroupedFirst, Grouped
<1>6. ~Goes(st, selected, g) /\ ~Stops(st, Taken(st, selected, g), g)
  BY <1>2 DEF Goes, Stops
<1>7. Judged'
  <2>1. selected = UNION {Movers(st, h) : h \in {k \in Gone : WentThrough(k)}}
    BY DEF WInv, Judged
  <2>2. {k \in Gone' : WentThrough(k)} = {k \in Gone : WentThrough(k)}
    BY <1>1, <1>6 DEF WentThrough
  <2>3. {k \in Gone' : WentThrough(k)'} = {k \in Gone' : WentThrough(k)}
    BY DEF WentThrough
  <2>4. selected' = UNION {Movers(st', h) : h \in {k \in Gone' : WentThrough(k)'}}
    BY <2>1, <2>2, <2>3
  <2>5. \A h \in Gone' : ~Stops(st', Taken(st', selected', h), h)
    BY <1>1, <1>6 DEF WInv, Judged
  <2>6. ~stopped'
    BY <1>3
  <2> QED
    BY <2>4, <2>5, <2>6 DEF Judged
<1>8. Totals'
  BY DEF WInv, Totals
<1>9. NoOther'
  <2> SUFFICES ASSUME NEW sel \in SUBSET st.waiting, IsSelection(st, sel)
               PROVE  {p \in sel : st.group[p] \in Gone'} = selected
    BY DEF NoOther, Among
  <2>1. ~Goes(st, sel, g)
    BY <1>2, OneMore
  <2>2. Among(sel, Gone \cup {g}) = selected
    BY <2>1, OneMore
  <2> QED
    BY <1>1, <2>2 DEF Among
<1> QED
  BY <1>1, <1>4, <1>5, <1>7, <1>8, <1>9 DEF WInv

LEMMA WStopWalk ==
  ASSUME WInv, NEW g, Visit(g), Eligible(g) # {} /\ ~Broke(g),
         Short(g) # {} \/ Cardinality(Eligible(g)) > seats, stopped' = TRUE,
         UNCHANGED <<st, row, parties, seats, slots, selected>>
  PROVE  WInv'
<1>1. Stops(st, selected, g)
  <2>1. ~Skipped(st, selected, g) /\ Eligible(g) = Movers(st, g)
    BY Visited
  <2>2. ~Fits(st, selected, g)
    <3>1. Short(g) = Shortfall(st, selected, g) /\ seats = st.seats - Cardinality(selected)
      BY Visited DEF WInv, Totals
    <3>2. /\ Cardinality(selected) \in Nat /\ Cardinality(Movers(st, g)) \in Nat
          /\ st.seats \in Int
      <4>1. Movers(st, g) \subseteq st.waiting
        BY DEF Movers, Party
      <4> QED
        BY <4>1, SelectedGone, FS_Subset, FS_CardinalityType DEF WInv, WTypeOK
    <3> QED
      BY <2>1, <3>1, <3>2 DEF Fits
  <2> QED
    BY <2>1, <2>2 DEF Stops
<1>2. parties # <<>> /\ g = Head(parties) /\ Grouped
  BY DEF Visit
<1>3. Gone' = Gone /\ Left' = Left /\ Seen' = Seen
  BY DEF Gone, Seen, Left
<1>4. WTypeOK'
  BY DEF WInv, WTypeOK
<1>5. InOrder' /\ GroupedFirst'
  BY <1>2, <1>3 DEF WInv, InOrder, GroupedFirst, Grouped
<1>6. Judged'
  <2>1. {k \in Gone' : WentThrough(k)'} = {k \in Gone : WentThrough(k)}
    BY <1>3 DEF WentThrough
  <2> QED
    BY <1>1, <1>2, <1>3, <2>1 DEF WInv, Judged
<1>7. Totals' /\ NoOther'
  BY <1>3 DEF WInv, Totals, NoOther, Among
<1> QED
  BY <1>4, <1>5, <1>6, <1>7 DEF WInv

\* The party visited goes, and its seats and passes are taken.
LEMMA WSelectParty ==
  ASSUME WInv, NEW g, Visit(g), Eligible(g) # {}, Short(g) = {},
         Cardinality(Eligible(g)) <= seats,
         selected' = selected \cup Eligible(g),
         seats' = seats - Cardinality(Eligible(g)),
         slots' = [o \in DOMAIN slots |-> slots[o] - Needed(g, o)],
         parties' = Tail(parties), UNCHANGED <<st, row, stopped>>
  PROVE  WInv'
<1> DEFINE M == Movers(st, g)
<1>1. Gone' = Gone \cup {g} /\ InOrder' /\ parties' \in Seq(Key)
  BY OneLess
<1>2. /\ Eligible(g) = M /\ Ahead(st, g) = Gone /\ g \notin Gone
      /\ Taken(st, selected, g) = selected
      /\ \A o : Needed(g, o) = Cardinality(Charged(st, M, o))
      /\ Shortfall(st, selected, g) = {}
  BY Visited
<1>3. ~stopped /\ Grouped
  BY DEF Visit
<1>4. ~Skipped(st, selected, g) /\ Fits(st, selected, g)
  BY <1>2 DEF WInv, Totals, Fits, Skipped
<1>5. /\ selected \subseteq st.waiting /\ \A p \in selected : st.group[p] \in Gone
      /\ IsFiniteSet(st.waiting) /\ IsFiniteSet(selected)
  BY SelectedGone
<1>6. /\ M \subseteq st.waiting /\ \A p \in M : st.group[p] = g
      /\ M \cap selected = {} /\ IsFiniteSet(M)
  <2>1. M \subseteq st.waiting /\ \A p \in M : st.group[p] = g
    BY DEF Movers, Party
  <2> QED
    BY <1>2, <1>5, <2>1, FS_Subset
<1>7. selected' = selected \cup M
  BY <1>2
<1>8. Among(selected', Gone) = selected
  BY <1>2, <1>5, <1>6, <1>7 DEF Among
<1>9. \A h \in Gone : /\ Taken(st, selected', h) = Taken(st, selected, h)
                      /\ Goes(st, selected', h) <=> Goes(st, selected, h)
  BY <1>8, StillJudged
<1>10. Taken(st, selected', g) = selected
  BY <1>8, Visited
<1>11. Goes(st, selected', g) /\ ~Stops(st, Taken(st, selected', g), g)
  BY <1>2, <1>4, <1>9, <1>10 DEF Goes, Stops, WInv, Judged
<1>12. WTypeOK' /\ GroupedFirst'
  BY <1>1, <1>3 DEF WInv, WTypeOK, GroupedFirst, Grouped
<1>13. Judged'
  <2>1. selected = UNION {Movers(st, h) : h \in {k \in Gone : WentThrough(k)}}
    BY DEF WInv, Judged
  <2>2. {k \in Gone' : WentThrough(k)'} = {k \in Gone : WentThrough(k)} \cup {g}
    BY <1>1, <1>9, <1>11 DEF WentThrough
  <2>3. selected' = UNION {Movers(st', h) : h \in {k \in Gone' : WentThrough(k)'}}
    BY <1>7, <2>1, <2>2
  <2>4. \A h \in Gone' : ~Stops(st', Taken(st', selected', h), h)
    BY <1>1, <1>9, <1>11 DEF WInv, Judged
  <2>5. ~stopped'
    BY <1>3
  <2> QED
    BY <2>3, <2>4, <2>5 DEF Judged
<1>14. Totals'
  <2>1. Cardinality(selected') = Cardinality(selected) + Cardinality(M)
    <3>1. Cardinality(selected \cup M)
            = Cardinality(selected) + Cardinality(M) - Cardinality(selected \cap M)
      BY <1>5, <1>6, FS_Union
    <3>2. selected \cap M = {} /\ Cardinality({}) = 0
      BY <1>6, FS_EmptySet
    <3>3. Cardinality(selected) \in Nat /\ Cardinality(M) \in Nat
      BY <1>5, <1>6, FS_CardinalityType
    <3>4. Cardinality(selected \cap M) = 0
      BY <3>2
    <3>5. Cardinality(selected') = Cardinality(selected \cup M)
      BY <1>7
    <3> HIDE DEF M
    <3> QED
      BY <3>1, <3>3, <3>4, <3>5
  <2>2. ASSUME NEW o \in DOMAIN slots
        PROVE  slots'[o] = SlotsLeft(st, selected', o)
    <3> DEFINE A == Charged(st, selected, o)
               B == Charged(st, M, o)
    <3>1. A \subseteq selected /\ B \subseteq M /\ Charged(st, selected', o) = A \cup B
      BY <1>7 DEF Charged
    <3>2. slots'[o] = slots[o] - Cardinality(B)
      BY <1>2
    <3>3. slots[o] = st.slots[o] - Cardinality(A) /\ st.slots[o] \in Int
      BY DEF WInv, WTypeOK, Totals, SlotsLeft
    <3>4. SlotsLeft(st, selected', o) = st.slots[o] - Cardinality(A \cup B)
      BY <3>1 DEF SlotsLeft
    <3> HIDE DEF A, B
    <3>5. IsFiniteSet(A) /\ IsFiniteSet(B) /\ A \cap B = {}
      BY <1>5, <1>6, <3>1, FS_Subset
    <3>6. Cardinality(A \cup B) = Cardinality(A) + Cardinality(B) - Cardinality(A \cap B)
      BY <3>5, FS_Union
    <3>7. Cardinality(A \cap B) = 0 /\ Cardinality(A) \in Nat /\ Cardinality(B) \in Nat
      BY <3>5, FS_EmptySet, FS_CardinalityType
    <3> QED
      BY <3>2, <3>3, <3>4, <3>6, <3>7
  <2>3. seats = st.seats - Cardinality(selected) /\ st.seats \in Int
    BY DEF WInv, WTypeOK, Totals
  <2>4. Cardinality(selected) \in Nat /\ Cardinality(M) \in Nat
    BY <1>5, <1>6, FS_CardinalityType
  <2>5. seats' = seats - Cardinality(M)
    BY <1>2
  <2>6. seats' = st.seats - Cardinality(selected')
    <3> HIDE DEF M
    <3> QED
      BY <2>1, <2>3, <2>4, <2>5
  <2>7. DOMAIN slots' = DOMAIN st.slots
    BY DEF WInv, Totals
  <2> QED
    BY <2>2, <2>6, <2>7 DEF Totals
<1>15. NoOther'
  <2> SUFFICES ASSUME NEW sel \in SUBSET st.waiting, IsSelection(st, sel)
               PROVE  {p \in sel : st.group[p] \in Gone'} = selected'
    BY DEF NoOther, Among
  <2>1. Goes(st, sel, g)
    BY <1>4, OneMore
  <2>2. Among(sel, Gone \cup {g}) = selected \cup M
    BY <2>1, OneMore
  <2> QED
    BY <1>1, <1>7, <2>2 DEF Among
<1> QED
  BY <1>1, <1>12, <1>13, <1>14, <1>15 DEF WInv

LEMMA WNext == WInv /\ [Next]_vars => WInv'
<1> SUFFICES ASSUME WInv, [Next]_vars PROVE WInv'
  OBVIOUS
<1>1. CASE GroupRow
  BY <1>1, WGroupRow
<1>2. CASE SkipParty
  BY <1>2, WSkipParty DEF SkipParty
<1>3. CASE StopWalk
  BY <1>3, WStopWalk DEF StopWalk
<1>4. CASE SelectParty
  BY <1>4, WSelectParty DEF SelectParty
<1>5. CASE UNCHANGED vars
  <2>1. UNCHANGED <<st, row, parties, seats, slots, selected, stopped>>
    BY <1>5 DEF vars
  <2>2. Left' = Left /\ Seen' = Seen /\ Gone' = Gone
    BY <2>1 DEF Left, Seen, Gone
  <2>3. WTypeOK' /\ GroupedFirst' /\ Totals'
    BY <2>1, <2>2 DEF WInv, WTypeOK, GroupedFirst, Totals
  <2>4. InOrder' /\ NoOther'
    BY <2>1, <2>2 DEF WInv, InOrder, NoOther, Among
  <2>5. {k \in Gone' : WentThrough(k)'} = {k \in Gone : WentThrough(k)}
    BY <2>1, <2>2 DEF WentThrough
  <2>6. Judged'
    BY <2>1, <2>2, <2>5 DEF WInv, Judged
  <2> QED
    BY <2>3, <2>4, <2>6 DEF WInv
<1> QED
  BY <1>1, <1>2, <1>3, <1>4, <1>5 DEF Next

-----------------------------------------------------------------------------

\* For any waiting list the walk of select_promotable_parties ends with the
\* one selection that the promotion rule allows.
THEOREM WalkMeetsRuleHolds == Spec => []WalkMeetsRule
<1>1. ASSUME WInv, Finished, NEW sel \in SUBSET st.waiting
      PROVE  IsSelection(st, sel) <=> sel = selected
  <2>1. Groups(st) = Gone \cup Left
    <3>1. CASE parties = <<>>
      <4>1. \A p \in st.waiting : p < row
        BY <1>1 DEF Finished, Grouped, WInv, WTypeOK
      <4> QED
        BY <3>1, <4>1 DEF Left, Gone, Seen, Groups
    <3>2. CASE parties # <<>>
      BY <1>1, <3>2, HeadOfTheLine DEF Finished
    <3> QED
      BY <3>1, <3>2
  <2>2. ASSUME NEW other, Among(other, Gone) = selected, NEW h \in Left
        PROVE  ~Goes(st, other, h)
    <3> DEFINE k == Head(parties)
    <3>1. stopped /\ Stops(st, selected, k) /\ parties # <<>> /\ Grouped
      <4>1. parties # <<>>
        BY <2>2 DEF Left
      <4> QED
        BY <1>1, <4>1 DEF Finished, WInv, Judged
    <3>2. Ahead(st, k) = Gone /\ (h = k \/ k \in Ahead(st, h))
      BY <1>1, <3>1, HeadOfTheLine
    <3>3. Taken(st, other, k) = selected
      BY <2>2, <3>2 DEF Taken, Among
    <3>4. CASE h = k
      BY <3>1, <3>3, <3>4 DEF Goes, Stops
    <3>5. CASE k \in Ahead(st, h)
      BY <3>1, <3>3, <3>5 DEF Goes
    <3> QED
      BY <3>2, <3>4, <3>5
  <2>3. ASSUME IsSelection(st, sel) PROVE sel = selected
    <3>1. Among(sel, Gone) = selected
      BY <1>1, <2>3 DEF WInv, NoOther
    <3>2. \A p \in sel : \E h \in Groups(st) : Goes(st, sel, h) /\ st.group[p] = h
      BY <2>3 DEF IsSelection, Movers, Party
    <3>3. \A p \in sel : st.group[p] \in Gone
      BY <2>1, <2>2, <3>1, <3>2
    <3> QED
      BY <3>1, <3>3 DEF Among
  <2>4. IsSelection(st, selected)
    <3>1. Among(selected, Gone) = selected
      BY <1>1, SelectedGone DEF Among
    <3>2. \A h \in Left : ~Goes(st, selected, h)
      BY <2>2, <3>1
    <3>3. {h \in Groups(st) : Goes(st, selected, h)} = {h \in Gone : WentThrough(h)}
      BY <2>1, <3>2 DEF WentThrough
    <3> QED
      BY <1>1, <3>3 DEF IsSelection, WInv, Judged
  <2> QED
    BY <2>3, <2>4
<1>2. WInv => WalkMeetsRule
  BY <1>1 DEF WalkMeetsRule
<1> QED
  BY <1>2, WInit, WNext, PTL DEF Spec

\* At every step of the walk, whoever has been overtaken has nobody to seat or
\* an owner out of passes.
THEOREM NoLeapfrogHolds == Spec => []NoLeapfrog
<1>1. ASSUME WInv, NEW p \in selected, NEW q \in st.eligible \ selected,
             st.group[q] \in Ahead(st, st.group[p])
      PROVE  \E o \in DOMAIN slots :
               /\ slots[o] <= 0
               /\ \E m \in Movers(st, st.group[q]) : st.owner[m] = o
  <2> DEFINE h == st.group[q]
             taken == Taken(st, selected, h)
  <2>1. st.group[p] \in Gone /\ Goes(st, selected, st.group[p])
    BY <1>1 DEF WInv, Judged, WentThrough, Movers, Party
  <2>2. WTypeOK
    BY <1>1 DEF WInv
  <2>3. \A f \in Ahead(st, h) : f \in Ahead(st, st.group[p])
    BY <1>1, <2>2, AheadIsAnOrder
  <2>4. \A f \in Ahead(st, h) \cup {h} : ~Stops(st, Taken(st, selected, f), f)
    BY <1>1, <2>1, <2>3 DEF Goes
  <2>5. h \in Gone
    <3>1. Grouped
      BY <1>1, <2>1 DEF WInv, GroupedFirst, Grouped
    <3>2. h \notin Left
      BY <1>1, <2>1, <2>2, AheadIsAnOrder DEF WInv, InOrder
    <3>3. h \in Groups(st)
      BY <1>1 DEF Ahead
    <3>4. Groups(st) = Seen
      <4>1. \A w \in st.waiting : w < row
        BY <2>2, <3>1 DEF Grouped, WTypeOK
      <4> QED
        BY <4>1 DEF Groups, Seen
    <3> QED
      BY <3>2, <3>3, <3>4 DEF Gone
  <2>6. q \in Movers(st, h)
    BY <2>2 DEF WTypeOK, Movers, Party
  <2>7. ~Goes(st, selected, h)
    BY <1>1, <2>5, <2>6 DEF WInv, Judged, WentThrough
  <2>8. Skipped(st, taken, h)
    BY <2>4, <2>7 DEF Goes, Stops
  <2>9. PICK o \in Shortfall(st, taken, h) : SlotsLeft(st, taken, o) <= 0
    BY <2>6, <2>8 DEF Skipped
  <2>10. o \in DOMAIN slots /\ \E m \in Movers(st, h) : st.owner[m] = o
    BY <1>1, <2>9 DEF Shortfall, WInv, Totals
  <2>11. slots[o] <= 0
    <3> DEFINE A == Charged(st, taken, o)
               B == Charged(st, selected, o)
    <3>1. A \subseteq B /\ B \subseteq selected
      BY DEF Charged, Taken
    <3>2. st.slots[o] - Cardinality(A) <= 0
      BY <2>9 DEF SlotsLeft
    <3>3. slots[o] = st.slots[o] - Cardinality(B) /\ st.slots[o] \in Int
      BY <1>1, <2>10 DEF WInv, WTypeOK, Totals, SlotsLeft
    <3>4. IsFiniteSet(selected)
      BY <1>1, SelectedGone
    <3> HIDE DEF A, B
    <3>5. IsFiniteSet(B) /\ IsFiniteSet(A) /\ Cardinality(A) <= Cardinality(B)
      BY <3>1, <3>4, FS_Subset
    <3>6. Cardinality(A) \in Nat /\ Cardinality(B) \in Nat
      BY <3>5, FS_CardinalityType
    <3> QED
      BY <3>2, <3>3, <3>5, <3>6
  <2> QED
    BY <2>10, <2>11
<1>2. WInv => NoLeapfrog
  BY <1>1 DEF NoLeapfrog
<1> QED
  BY <1>2, WInit, WNext, PTL DEF Spec
=============================================================================
