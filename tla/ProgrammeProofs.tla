--------------------------- MODULE ProgrammeProofs ---------------------------
(***************************************************************************)
(* The programme, for every event and any number of requests.              *)
(*                                                                         *)
(* A request without a lock acts on what it read.  The inductive invariant *)
(* says what of that still holds when it writes: a primary key is one      *)
(* agenda item's for good, so the keys a request holds name nobody else's  *)
(* placement, and what an accept saw in no way of its place can only have  *)
(* moved by hand.                                                          *)
(***************************************************************************)
EXTENDS Programme, TLAPS, FiniteSetTheorems, SequenceTheorems

LogRow ==
  [session : Session, action : {"ASSIGN", "UNASSIGN", "REVERT"},
   old : Place \cup {None}, new : Place \cup {None}, from : Nat \cup {None}]

Asked ==
  {Idle}
  \cup [op : {"accept"}, s : Session, place : Place, was : Status,
        checked : BOOLEAN, saw : SUBSET Nat]
  \cup [op : {"confirm"}, s : Session, pks : SUBSET Nat, yes : BOOLEAN]
  \cup [op : {"bulk"}, s : SUBSET Session, pks : SUBSET Nat, yes : BOOLEAN]

TypeOK ==
  /\ alive \subseteq Session
  /\ status \in [Session -> Status]
  /\ confirmed \in [Session -> BOOLEAN]
  /\ item \in [Session -> AgendaItem \cup {None}]
  /\ items \in Nat
  /\ log \in Seq(LogRow)
  /\ told \subseteq Session
  /\ req \in [Web -> Asked]

\* Keys and what was seen are older than the next key, and no key is two
\* items'.
KeysApart ==
  /\ \A s \in Session : Placed(s) =>
       item[s].pk < items /\ \A k \in item[s].saw : k < items
  /\ \A s, t \in Session :
       s # t /\ Placed(s) /\ Placed(t) => item[s].pk # item[t].pk

\* An accept that has checked its place saw nothing there, and what it saw is
\* not there unless by hand; it compares with a status it told of.
AcceptsCurrent ==
  \A r \in Web : req[r].op = "accept" =>
    /\ req[r].was = "ACCEPTED" => req[r].s \in told
    /\ req[r].checked =>
         /\ \A k \in req[r].saw : k < items
         /\ \A t \in Session \ {req[r].s} :
              Placed(t) /\ item[t].by = "accept" /\ item[t].pk \in req[r].saw
                => ~Overlap(item[t].place, req[r].place)

\* The items a confirmation is about are those of its sessions, or gone.
ConfirmsOwn ==
  \A r \in Web : req[r].op \in {"confirm", "bulk"} =>
    /\ \A k \in req[r].pks : k < items
    /\ \A t \in Session \ SessionsOf(req[r]) :
         Placed(t) => item[t].pk \notin req[r].pks

\* What a row of the log can be undone with.
RowsWhole ==
  \A i \in 1 .. Len(log) :
    /\ log[i].action = "ASSIGN" => log[i].new \in Place
    /\ log[i].action = "UNASSIGN" => log[i].old \in Place

\* A session is where its latest row put it.
LogTells ==
  \A s \in Session : \A i \in RowsOf(s) : Latest(i) =>
    IF log[i].new # None THEN Spot(PlaceOf(item[s])) = Spot(log[i].new)
    ELSE Placed(s) => item[s].by # "panel"

Inv ==
  /\ TypeOK /\ KeysApart /\ AcceptsCurrent /\ ConfirmsOwn /\ RowsWhole /\ LogTells
  /\ PlacedIsAccepted /\ AcceptedApart /\ AcceptanceTold

-----------------------------------------------------------------------------
\* To begin with nothing is placed and the log is empty.
LEMMA ProgrammeInit == Init => Inv
<1> SUFFICES ASSUME Init PROVE Inv
  OBVIOUS
<1> USE DEF Init
<1>1. TypeOK
  BY DEF TypeOK, Status, Asked
<1>2. KeysApart /\ AcceptsCurrent /\ ConfirmsOwn /\ RowsWhole /\ LogTells
  BY DEF KeysApart, AcceptsCurrent, ConfirmsOwn, RowsWhole, LogTells, Placed,
     RowsOf, Idle
<1>3. PlacedIsAccepted /\ AcceptedApart /\ AcceptanceTold
  BY DEF PlacedIsAccepted, AcceptedApart, AcceptanceTold, Placed
<1> QED
  BY <1>1, <1>2, <1>3 DEF Inv

\* What a request has read, by what it is doing.
LEMMA AskedRead ==
  ASSUME TypeOK, NEW r \in Web
  PROVE  LET q == req[r] IN
         /\ q = Idle \/ q.op \in {"accept", "confirm", "bulk"}
         /\ q.op = "accept" =>
              /\ q.s \in Session /\ q.place \in Place /\ q.was \in Status
              /\ q.checked \in BOOLEAN /\ q.saw \in SUBSET Nat
              /\ q = [op |-> "accept", s |-> q.s, place |-> q.place,
                      was |-> q.was, checked |-> q.checked, saw |-> q.saw]
         /\ q.op \in {"confirm", "bulk"} =>
              q.pks \in SUBSET Nat /\ q.yes \in BOOLEAN
         /\ q.op = "confirm" => q.s \in Session
         /\ q.op = "bulk" => q.s \in SUBSET Session
<1>1. req[r] \in Asked
  BY DEF TypeOK
<1> QED
  BY <1>1 DEF Asked, Idle

\* An agenda item and a place are never mistaken for none.
LEMMA PlacedItem ==
  ASSUME TypeOK, NEW s \in Session
  PROVE  /\ Placed(s) => /\ item[s] \in AgendaItem
                         /\ PlaceOf(item[s]) = item[s].place
                         /\ item[s].place \in Place
         /\ ~Placed(s) => item[s] = None /\ PlaceOf(item[s]) = None
BY DEF TypeOK, Placed, PlaceOf, AgendaItem

\* A place has a spot, which is not that of no place.
LEMMA SpotOfPlace ==
  ASSUME NEW p \in Place
  PROVE  p # None /\ Spot(p) = <<p.space, p.window[1]>> /\ Spot(p) # None
<1>1. p # None
  BY ProgrammeAssumption
<1>2. p.space \in Space /\ p.window[1] \in Nat
  BY ProgrammeAssumption DEF Place
<1> QED
  BY <1>1, <1>2, ProgrammeAssumption DEF Spot

-----------------------------------------------------------------------------
\* Steps that leave the timetable alone.

\* A status is set under the session's lock, and unplaces nothing.
LEMMA SetStatusStep ==
  ASSUME Inv, NEW s \in Session, NEW to \in Verdict, SetStatus(s, to)
  PROVE  Inv'
<1> USE DEF SetStatus
<1>1. TypeOK'
  BY ProgrammeAssumption DEF Inv, TypeOK
<1>2. KeysApart' /\ ConfirmsOwn' /\ RowsWhole' /\ LogTells'
  BY DEF Inv, KeysApart, ConfirmsOwn, RowsWhole, LogTells, Placed, RowsOf, Latest,
     PlaceOf
<1>3. AcceptsCurrent'
  BY DEF Inv, AcceptsCurrent, Placed
<1>4. PlacedIsAccepted' /\ AcceptedApart'
  BY DEF Inv, TypeOK, PlacedIsAccepted, AcceptedApart, Placed
<1>5. AcceptanceTold'
  BY DEF Inv, TypeOK, AcceptanceTold
<1> QED
  BY <1>1, <1>2, <1>3, <1>4, <1>5 DEF Inv

\* An accept reads the status of its session ...
LEMMA AcceptReadStep ==
  ASSUME Inv, NEW r \in Web, NEW s \in Session, NEW p \in Place, AcceptRead(r, s, p)
  PROVE  Inv'
<1> USE DEF AcceptRead
<1>1. TypeOK'
  BY DEF Inv, TypeOK, Asked
<1>2. KeysApart' /\ RowsWhole' /\ LogTells'
  BY DEF Inv, KeysApart, RowsWhole, LogTells, Placed, RowsOf, Latest, PlaceOf
<1>3. AcceptsCurrent'
  BY DEF Inv, TypeOK, AcceptsCurrent, AcceptanceTold, Placed
<1>4. ConfirmsOwn'
  BY DEF Inv, TypeOK, ConfirmsOwn, Placed, SessionsOf
<1>5. PlacedIsAccepted' /\ AcceptedApart' /\ AcceptanceTold'
  BY DEF Inv, PlacedIsAccepted, AcceptedApart, AcceptanceTold, Placed
<1> QED
  BY <1>1, <1>2, <1>3, <1>4, <1>5 DEF Inv

\* ... looks for what is placed already ...
LEMMA AcceptCheckStep ==
  ASSUME Inv, NEW r \in Web, AcceptCheck(r)
  PROVE  Inv'
<1> USE DEF AcceptCheck
<1>1. TypeOK'
  <2>1. {item[t].pk : t \in {u \in Session : Placed(u)}} \in SUBSET Nat
    BY PlacedItem DEF Inv, AgendaItem
  <2> DEFINE saw == {item[t].pk : t \in {u \in Session : Placed(u)}}
  <2> HIDE DEF saw
  <2>2. req[r] \in [op : {"accept"}, s : Session, place : Place, was : Status,
                    checked : BOOLEAN, saw : SUBSET Nat]
    BY DEF Inv, TypeOK, Asked, Idle
  <2>3. [req[r] EXCEPT !.checked = TRUE, !.saw = saw] \in Asked
    BY <2>1, <2>2 DEF Asked, saw
  <2> QED
    BY <2>3 DEF Inv, TypeOK, Asked, saw
<1>2. KeysApart' /\ RowsWhole' /\ LogTells'
  BY DEF Inv, KeysApart, RowsWhole, LogTells, Placed, RowsOf, Latest, PlaceOf
<1>3. AcceptsCurrent'
  <2>1. \A q \in Web \ {r} : req'[q] = req[q]
    BY DEF Inv, TypeOK
  <2>2. CASE InTheWay(req[r].s, req[r].place) # {}
    BY <2>1, <2>2 DEF Inv, TypeOK, AcceptsCurrent, Placed, Idle
  <2>3. CASE InTheWay(req[r].s, req[r].place) = {}
    <3>1. /\ req'[r].op = "accept" /\ req'[r].s = req[r].s
          /\ req'[r].was = req[r].was /\ req'[r].place = req[r].place
          /\ req'[r].saw = {item[t].pk : t \in {u \in Session : Placed(u)}}
      BY <2>3, AskedRead DEF Inv, TypeOK
    <3>2. \A k \in req'[r].saw : k < items
      BY <3>1 DEF Inv, KeysApart
    <3>3. \A t \in Session \ {req[r].s} :
            Placed(t) => ~Overlap(item[t].place, req[r].place)
      BY <2>3 DEF InTheWay
    <3> QED
      BY <2>1, <3>1, <3>2, <3>3 DEF Inv, AcceptsCurrent, Placed
  <2> QED
    BY <2>2, <2>3
<1>4. ConfirmsOwn'
  BY DEF Inv, TypeOK, ConfirmsOwn, Placed, SessionsOf, Idle
<1>5. PlacedIsAccepted' /\ AcceptedApart' /\ AcceptanceTold'
  BY DEF Inv, PlacedIsAccepted, AcceptedApart, AcceptanceTold, Placed
<1> QED
  BY <1>1, <1>2, <1>3, <1>4, <1>5 DEF Inv

\* A request that gives up, or is done with what moves no item and no status.
LEMMA GivenUp ==
  ASSUME Inv, NEW r \in Web, req' = [req EXCEPT ![r] = Idle],
         UNCHANGED <<alive, status, confirmed, item, items, log, told, ghost>>
  PROVE  Inv'
<1>1. TypeOK'
  BY DEF Inv, TypeOK, Asked
<1>2. KeysApart' /\ RowsWhole' /\ LogTells'
  BY DEF Inv, KeysApart, RowsWhole, LogTells, Placed, RowsOf, Latest, PlaceOf
<1>3. AcceptsCurrent' /\ ConfirmsOwn'
  BY DEF Inv, TypeOK, AcceptsCurrent, ConfirmsOwn, Placed, Idle, SessionsOf
<1>4. PlacedIsAccepted' /\ AcceptedApart' /\ AcceptanceTold'
  BY DEF Inv, PlacedIsAccepted, AcceptedApart, AcceptanceTold, Placed
<1> QED
  BY <1>1, <1>2, <1>3, <1>4 DEF Inv

\* A confirmation remembers the item it is about ...
LEMMA ConfirmReadStep ==
  ASSUME Inv, NEW r \in Web, NEW s \in Session, NEW yes \in BOOLEAN,
         ConfirmRead(r, s, yes)
  PROVE  Inv'
<1> USE DEF ConfirmRead
<1>1. TypeOK'
  BY PlacedItem DEF Inv, TypeOK, Asked, AgendaItem
<1>2. KeysApart' /\ RowsWhole' /\ LogTells'
  BY DEF Inv, KeysApart, RowsWhole, LogTells, Placed, RowsOf, Latest, PlaceOf
<1>3. AcceptsCurrent'
  BY DEF Inv, TypeOK, AcceptsCurrent, Placed
<1>4. ConfirmsOwn'
  BY DEF Inv, TypeOK, ConfirmsOwn, KeysApart, Placed, SessionsOf
<1>5. PlacedIsAccepted' /\ AcceptedApart' /\ AcceptanceTold'
  BY DEF Inv, PlacedIsAccepted, AcceptedApart, AcceptanceTold, Placed
<1> QED
  BY <1>1, <1>2, <1>3, <1>4, <1>5 DEF Inv

\* A facilitator's confirmation writes the items first, and their sessions later.
LEMMA BulkItemsStep ==
  ASSUME Inv, NEW r \in Web, NEW S \in SUBSET Session, NEW yes \in BOOLEAN,
         BulkItems(r, S, yes)
  PROVE  Inv'
<1> DEFINE pks == {item[s].pk : s \in {t \in S \cap alive : Placed(t)}}
<1>1. /\ req' = [req EXCEPT ![r] = [op |-> "bulk", s |-> S, pks |-> pks, yes |-> yes]]
      /\ UNCHANGED <<alive, status, confirmed, item, items, log, told, ghost>>
  BY DEF BulkItems
<1>2. /\ pks \in SUBSET Nat /\ \A k \in pks : k < items
      /\ \A t \in Session \ S : Placed(t) => item[t].pk \notin pks
  BY PlacedItem DEF Inv, KeysApart, AgendaItem
<1> HIDE DEF pks
<1>3. TypeOK'
  BY <1>1, <1>2 DEF Inv, TypeOK, Asked
<1>4. KeysApart' /\ RowsWhole' /\ LogTells'
  BY <1>1 DEF Inv, KeysApart, RowsWhole, LogTells, Placed, RowsOf, Latest, PlaceOf
<1>5. AcceptsCurrent'
  BY <1>1 DEF Inv, TypeOK, AcceptsCurrent, Placed
<1>6. ConfirmsOwn'
  BY <1>1, <1>2 DEF Inv, TypeOK, ConfirmsOwn, Placed, SessionsOf
<1>7. PlacedIsAccepted' /\ AcceptedApart' /\ AcceptanceTold'
  BY <1>1 DEF Inv, PlacedIsAccepted, AcceptedApart, AcceptanceTold, Placed
<1> QED
  BY <1>3, <1>4, <1>5, <1>6, <1>7 DEF Inv

\* A session comes back as it was deleted.
LEMMA RestoreStep ==
  ASSUME Inv, NEW s \in Session, Restore(s)
  PROVE  Inv'
<1> USE DEF Restore
<1>1. TypeOK'
  BY DEF Inv, TypeOK
<1>2. KeysApart' /\ RowsWhole' /\ LogTells'
  BY DEF Inv, KeysApart, RowsWhole, LogTells, Placed, RowsOf, Latest, PlaceOf
<1>3. AcceptsCurrent' /\ ConfirmsOwn'
  BY DEF Inv, AcceptsCurrent, ConfirmsOwn, Placed, SessionsOf
<1>4. PlacedIsAccepted' /\ AcceptedApart' /\ AcceptanceTold'
  BY DEF Inv, PlacedIsAccepted, AcceptedApart, AcceptanceTold, Placed
<1> QED
  BY <1>1, <1>2, <1>3, <1>4 DEF Inv

-----------------------------------------------------------------------------
\* Steps that set flags: an item keeps its key, its place and its origin.

\* Flags are set on whatever rows were read.
LEMMA FlagsStep ==
  ASSUME Inv, NEW r \in Web, NEW pks, NEW S, NEW yes \in BOOLEAN,
         SetFlags(pks, S, yes), req' = [req EXCEPT ![r] = Idle],
         UNCHANGED <<alive, status, items, log, told, ghost>>
  PROVE  Inv'
<1>1. ASSUME NEW s \in Session
      PROVE  /\ Placed(s)' <=> Placed(s)
             /\ Placed(s) =>
                  /\ item'[s] \in AgendaItem
                  /\ item'[s].pk = item[s].pk /\ item'[s].place = item[s].place
                  /\ item'[s].by = item[s].by /\ item'[s].saw = item[s].saw
             /\ ~Placed(s) => item'[s] = None
             /\ PlaceOf(item[s])' = PlaceOf(item[s])
  <2>1. item'[s] = IF Placed(s) /\ item[s].pk \in pks
                   THEN [item[s] EXCEPT !.ok = yes] ELSE item[s]
    BY DEF SetFlags
  <2>2. CASE Placed(s)
    <3>1. item[s] \in AgendaItem
      BY <2>2, PlacedItem DEF Inv
    <3>2. /\ item'[s] \in AgendaItem
          /\ item'[s].pk = item[s].pk /\ item'[s].place = item[s].place
          /\ item'[s].by = item[s].by /\ item'[s].saw = item[s].saw
      BY <2>1, <3>1 DEF AgendaItem
    <3> QED
      BY <2>2, <3>2, ProgrammeAssumption DEF Placed, PlaceOf
  <2>3. CASE ~Placed(s)
    BY <2>1, <2>3 DEF Placed, PlaceOf
  <2> QED
    BY <2>2, <2>3
<1>2. TypeOK'
  <2>1. item' \in [Session -> AgendaItem \cup {None}]
    BY <1>1 DEF SetFlags
  <2>2. confirmed' \in [Session -> BOOLEAN]
    BY DEF SetFlags, Inv, TypeOK
  <2> QED
    BY <2>1, <2>2 DEF Inv, TypeOK, Asked
<1>3. KeysApart'
  BY <1>1 DEF Inv, KeysApart
<1>4. RowsWhole' /\ LogTells'
  BY <1>1 DEF Inv, RowsWhole, LogTells, RowsOf, Latest
<1>5. \A q \in Web : req'[q].op # "idle" => req'[q] = req[q]
  BY DEF Inv, TypeOK, Idle
<1>6. AcceptsCurrent'
  BY <1>1, <1>5, AskedRead DEF Inv, AcceptsCurrent
<1>7. ConfirmsOwn'
  BY <1>1, <1>5, AskedRead DEF Inv, ConfirmsOwn, SessionsOf
<1>8. PlacedIsAccepted' /\ AcceptanceTold'
  BY <1>1 DEF Inv, PlacedIsAccepted, AcceptanceTold
<1>9. AcceptedApart'
  BY <1>1 DEF Inv, AcceptedApart
<1> QED
  BY <1>2, <1>3, <1>4, <1>6, <1>7, <1>8, <1>9 DEF Inv

-----------------------------------------------------------------------------
\* Steps that move items, and their rows of the log.

\* What rows at the end of the log look like.
LEMMA Concatenated ==
  ASSUME NEW rows \in Seq(LogRow), log \in Seq(LogRow), log' = log \o rows
  PROVE  /\ log' \in Seq(LogRow) /\ Len(log) \in Nat /\ Len(rows) \in Nat
         /\ Len(log') = Len(log) + Len(rows)
         /\ \A i \in 1 .. Len(log) : log'[i] = log[i]
         /\ \A i \in 1 .. Len(rows) : log'[Len(log) + i] = rows[i]
         /\ \A i \in 1 .. Len(log') :
              i \in 1 .. Len(log) \/ i - Len(log) \in 1 .. Len(rows)
<1>1. Len(log) \in Nat /\ Len(rows) \in Nat
  BY LenProperties
<1>2. /\ log' \in Seq(LogRow) /\ Len(log') = Len(log) + Len(rows)
      /\ \A i \in 1 .. Len(log) + Len(rows) :
           log'[i] = IF i <= Len(log) THEN log[i] ELSE rows[i - Len(log)]
  BY ConcatProperties
<1> QED
  BY <1>1, <1>2

\* Rows about s, the last of which says where it is now, keep the log telling
\* the timetable.
LEMMA RowsLogged ==
  ASSUME Inv, NEW s \in Session, NEW rows \in Seq(LogRow), log' = log \o rows,
         rows # <<>>,
         \A i \in 1 .. Len(rows) :
           /\ rows[i].session = s
           /\ rows[i].action = "ASSIGN" => rows[i].new \in Place
           /\ rows[i].action = "UNASSIGN" => rows[i].old \in Place,
         \A t \in Session \ {s} : item'[t] = item[t],
         IF rows[Len(rows)].new # None
           THEN Spot(PlaceOf(item'[s])) = Spot(rows[Len(rows)].new)
           ELSE Placed(s)' => item'[s].by # "panel"
  PROVE  RowsWhole' /\ LogTells'
<1>1. /\ log' \in Seq(LogRow) /\ Len(log) \in Nat /\ Len(rows) \in Nat
      /\ Len(log') = Len(log) + Len(rows)
      /\ \A i \in 1 .. Len(log) : log'[i] = log[i]
      /\ \A i \in 1 .. Len(rows) : log'[Len(log) + i] = rows[i]
      /\ \A i \in 1 .. Len(log') :
           i \in 1 .. Len(log) \/ i - Len(log) \in 1 .. Len(rows)
  BY Concatenated DEF Inv, TypeOK
<1>2. Len(rows) > 0
  BY <1>1, EmptySeq
<1>3. \A i \in 1 .. Len(log') :
        i \notin 1 .. Len(log) => log'[i] = rows[i - Len(log)]
  <2> SUFFICES ASSUME NEW i \in 1 .. Len(log'), i \notin 1 .. Len(log)
               PROVE  log'[i] = rows[i - Len(log)]
    OBVIOUS
  <2>1. i - Len(log) \in 1 .. Len(rows) /\ Len(log) + (i - Len(log)) = i
    BY <1>1
  <2> QED
    BY <1>1, <2>1
<1>4. RowsWhole'
  BY <1>1, <1>3 DEF Inv, RowsWhole
<1>5. LogTells'
  <2> SUFFICES ASSUME NEW t \in Session, NEW i \in RowsOf(t)', Latest(i)'
               PROVE  IF log'[i].new # None
                        THEN Spot(PlaceOf(item'[t])) = Spot(log'[i].new)
                        ELSE Placed(t)' => item'[t].by # "panel"
    BY DEF LogTells
  <2>1. i \in 1 .. Len(log') /\ log'[i].session = t
    BY DEF RowsOf
  <2>2. CASE t = s
    <3>1. Len(log') \in 1 .. Len(log') /\ Len(log') \notin 1 .. Len(log)
          /\ Len(log') - Len(log) = Len(rows)
      BY <1>1, <1>2
    <3>2. log'[Len(log')] = rows[Len(rows)]
      BY <1>3, <3>1
    <3>3. log'[Len(log')].session = s
      BY <1>1, <1>2, <3>2
    <3>4. i = Len(log')
      <4>1. ~(Len(log') \in i + 1 .. Len(log'))
        BY <2>1, <2>2, <3>3 DEF Latest
      <4>2. i \in Nat /\ Len(log') \in Nat
        BY <1>1, <2>1
      <4>3. \A m, n \in Nat : m \in 1 .. n /\ ~(n \in m + 1 .. n) => m = n
        OBVIOUS
      <4> QED
        BY <2>1, <4>1, <4>2, <4>3
    <3> QED
      BY <2>2, <3>2, <3>4
  <2>3. CASE t # s
    <3>1. i \in 1 .. Len(log) /\ log'[i] = log[i]
      BY <1>1, <1>3, <2>1, <2>3
    <3>2. i \in RowsOf(t) /\ Latest(i)
      BY <1>1, <2>1, <3>1 DEF RowsOf, Latest
    <3>3. item'[t] = item[t]
      BY <2>3
    <3> QED
      BY <3>1, <3>2, <3>3 DEF Inv, LogTells, Placed
  <2> QED
    BY <2>2, <2>3
<1> QED
  BY <1>4, <1>5

\* A new item has a key that nobody holds.
LEMMA ItemMade ==
  ASSUME Inv, NEW s \in Session, NEW p \in Place, NEW ok \in BOOLEAN,
         NEW by \in {"accept", "panel"}, NEW saw \in SUBSET Nat,
         \A k \in saw : k < items, NewItem(s, p, ok, by, saw),
         req' = req \/ \E r \in Web : req' = [req EXCEPT ![r] = Idle],
         told \subseteq told'
  PROVE  /\ item' \in [Session -> AgendaItem \cup {None}] /\ items' \in Nat
         /\ req' \in [Web -> Asked]
         /\ item'[s] = Item(p, ok, by, saw) /\ item'[s] # None
         /\ \A t \in Session \ {s} : item'[t] = item[t]
         /\ KeysApart' /\ AcceptsCurrent' /\ ConfirmsOwn'
<1>1. Item(p, ok, by, saw) \in AgendaItem
  BY DEF Item, AgendaItem, Inv, TypeOK
<1>2. /\ item' \in [Session -> AgendaItem \cup {None}] /\ items' \in Nat
      /\ item'[s] = Item(p, ok, by, saw)
      /\ \A t \in Session \ {s} : item'[t] = item[t]
      /\ items' = items + 1 /\ items \in Nat
  BY <1>1 DEF NewItem, Inv, TypeOK
<1>3. item'[s] # None
  BY <1>1, <1>2, ProgrammeAssumption
<1>4. item'[s].pk = items /\ item'[s].saw = saw
  BY <1>2 DEF Item
<1>5. \A t \in Session \ {s} : Placed(t)' <=> Placed(t)
  BY <1>2 DEF Placed
<1>6. \A t \in Session : Placed(t) => item[t].pk \in Nat /\ item[t].saw \in SUBSET Nat
  BY PlacedItem DEF Inv, AgendaItem
<1>7. KeysApart'
  <2>1. \A t \in Session : Placed(t)' =>
          item'[t].pk < items' /\ \A k \in item'[t].saw : k < items'
    <3>1. item'[s].pk < items' /\ \A k \in item'[s].saw : k < items'
      <4>1. items < items + 1 /\ \A k \in Nat : k < items => k < items + 1
        BY <1>2
      <4>2. \A k \in saw : k < items + 1
        BY <4>1
      <4> QED
        BY <1>2, <1>4, <4>1, <4>2
    <3>2. ASSUME NEW t \in Session \ {s}, Placed(t)'
          PROVE  item'[t].pk < items' /\ \A k \in item'[t].saw : k < items'
      <4>1. item'[t] = item[t] /\ Placed(t)
        BY <1>2, <1>5, <3>2
      <4>2. item[t].pk < items /\ \A k \in item[t].saw : k < items
        BY <4>1 DEF Inv, KeysApart
      <4> QED
        BY <1>2, <1>6, <4>1, <4>2
    <3> QED
      BY <3>1, <3>2
  <2>2. \A t \in Session \ {s} : Placed(t)' => item'[t].pk < items
    BY <1>2, <1>5 DEF Inv, KeysApart
  <2>3. \A t, u \in Session :
          t # u /\ Placed(t)' /\ Placed(u)' => item'[t].pk # item'[u].pk
    BY <1>2, <1>4, <1>5, <2>2 DEF Inv, KeysApart
  <2> QED
    BY <2>1, <2>3 DEF KeysApart
<1>8. /\ req' \in [Web -> Asked]
      /\ \A q \in Web : req'[q].op # "idle" => req'[q] = req[q]
  BY DEF Inv, TypeOK, Idle, Asked
<1>9. AcceptsCurrent'
  <2> SUFFICES ASSUME NEW q \in Web, req[q].op = "accept", req[q].checked
               PROVE  /\ \A k \in req[q].saw : k < items'
                      /\ \A t \in Session \ {req[q].s} :
                           Placed(t)' /\ item'[t].by = "accept"
                             /\ item'[t].pk \in req[q].saw
                           => ~Overlap(item'[t].place, req[q].place)
    BY <1>8 DEF Inv, AcceptsCurrent
  <2>1. /\ req[q].saw \in SUBSET Nat /\ \A k \in req[q].saw : k < items
    BY AskedRead DEF Inv, AcceptsCurrent
  <2> QED
    BY <1>2, <1>4, <1>5, <2>1 DEF Inv, AcceptsCurrent
<1>10. ConfirmsOwn'
  <2> SUFFICES ASSUME NEW q \in Web, req[q].op \in {"confirm", "bulk"}
               PROVE  /\ \A k \in req[q].pks : k < items'
                      /\ \A t \in Session \ SessionsOf(req[q]) :
                           Placed(t)' => item'[t].pk \notin req[q].pks
    BY <1>8 DEF ConfirmsOwn
  <2>1. req[q].pks \in SUBSET Nat /\ \A k \in req[q].pks : k < items
    BY AskedRead DEF Inv, ConfirmsOwn
  <2> QED
    BY <1>2, <1>4, <1>5, <2>1 DEF Inv, ConfirmsOwn
<1> QED
  BY <1>2, <1>3, <1>7, <1>8, <1>9, <1>10

\* An item that goes leaves the others theirs.
LEMMA ItemGone ==
  ASSUME Inv, NEW s \in Session, item' = [item EXCEPT ![s] = None],
         UNCHANGED <<items, req, told>>
  PROVE  /\ item' \in [Session -> AgendaItem \cup {None}]
         /\ item'[s] = None
         /\ \A t \in Session \ {s} : item'[t] = item[t]
         /\ KeysApart' /\ AcceptsCurrent' /\ ConfirmsOwn'
<1>1. /\ item' \in [Session -> AgendaItem \cup {None}]
      /\ item'[s] = None
      /\ \A t \in Session \ {s} : item'[t] = item[t]
  BY DEF Inv, TypeOK
<1>2. \A t \in Session : Placed(t)' => item'[t] = item[t] /\ Placed(t)
  BY <1>1 DEF Placed
<1>3. KeysApart'
  BY <1>2 DEF Inv, KeysApart
<1>4. AcceptsCurrent'
  BY <1>2 DEF Inv, AcceptsCurrent
<1>5. ConfirmsOwn'
  BY <1>2 DEF Inv, ConfirmsOwn
<1> QED
  BY <1>1, <1>3, <1>4, <1>5

\* ... and makes an item there, whatever was committed since.
LEMMA AcceptWriteStep ==
  ASSUME Inv, NEW r \in Web, AcceptWrite(r)
  PROVE  Inv'
<1> DEFINE s == req[r].s
           p == req[r].place
           saw == req[r].saw
<1>1. /\ s \in Session /\ p \in Place /\ saw \in SUBSET Nat
      /\ \A k \in saw : k < items
      /\ \A t \in Session \ {s} : Placed(t) /\ item[t].by = "accept"
           /\ item[t].pk \in saw => ~Overlap(item[t].place, p)
  BY AskedRead DEF Inv, AcceptWrite, AcceptsCurrent
<1>2. /\ ~Placed(s) /\ NewItem(s, p, AutoConfirm, "accept", saw)
      /\ status' = IF s \in alive THEN [status EXCEPT ![s] = "ACCEPTED"] ELSE status
      /\ confirmed' = IF s \in alive THEN [confirmed EXCEPT ![s] = AutoConfirm]
                      ELSE confirmed
      /\ told' = IF req[r].was # "ACCEPTED" THEN told \cup {s} ELSE told
      /\ ghost' = IF s \in alive THEN ghost ELSE ghost \cup {s}
      /\ req' = [req EXCEPT ![r] = Idle]
      /\ UNCHANGED <<alive, log>>
  BY DEF AcceptWrite
<1>3. s \in told'
  BY <1>2 DEF Inv, AcceptWrite, AcceptsCurrent
<1> HIDE DEF s, p, saw
<1>4. AutoConfirm \in BOOLEAN
  BY ProgrammeAssumption
<1>5. /\ item' \in [Session -> AgendaItem \cup {None}] /\ items' \in Nat
      /\ req' \in [Web -> Asked]
      /\ item'[s] = Item(p, AutoConfirm, "accept", saw) /\ item'[s] # None
      /\ \A t \in Session \ {s} : item'[t] = item[t]
      /\ KeysApart' /\ AcceptsCurrent' /\ ConfirmsOwn'
  BY <1>1, <1>2, <1>4, ItemMade
<1>6. TypeOK'
  BY <1>1, <1>2, <1>4, <1>5 DEF Inv, TypeOK, Status
<1>7. RowsWhole'
  BY <1>2 DEF Inv, RowsWhole
<1>8. LogTells'
  <2> SUFFICES ASSUME NEW t \in Session, NEW i \in RowsOf(t), Latest(i)
               PROVE  IF log[i].new # None
                        THEN Spot(PlaceOf(item'[t])) = Spot(log[i].new)
                        ELSE Placed(t)' => item'[t].by # "panel"
    BY <1>2 DEF LogTells, RowsOf, Latest
  <2>1. CASE t = s
    <3>1. log[i].new = None
      <4>1. Spot(PlaceOf(item[s])) = None
        BY <1>1, <1>2, PlacedItem DEF Inv, Spot
      <4>2. log[i].new \in Place \cup {None}
        <5>1. log \in Seq(LogRow) /\ i \in 1 .. Len(log)
          BY DEF RowsOf, Inv, TypeOK
        <5>2. log[i] \in LogRow
          BY <5>1, ElementOfSeq
        <5> QED
          BY <5>2 DEF LogRow
      <4> QED
        BY <2>1, <4>1, <4>2, SpotOfPlace DEF Inv, LogTells
    <3>2. item'[s].by = "accept"
      BY <1>5 DEF Item
    <3> QED
      BY <2>1, <3>1, <3>2
  <2>2. CASE t # s
    BY <1>5, <2>2 DEF Inv, LogTells, Placed
  <2> QED
    BY <2>1, <2>2
<1>9. PlacedIsAccepted'
  BY <1>1, <1>2, <1>5 DEF Inv, TypeOK, PlacedIsAccepted, Placed
<1>10. AcceptedApart'
  <2>1. /\ item'[s].pk = items /\ item'[s].place = p /\ item'[s].saw = saw
    BY <1>5 DEF Item
  <2>2. \A t \in Session \ {s} : Placed(t)' =>
          /\ Placed(t) /\ item'[t] = item[t]
          /\ items \notin item[t].saw
    <3>1. \A t \in Session \ {s} : Placed(t)' => Placed(t) /\ item'[t] = item[t]
      BY <1>5 DEF Placed
    <3>2. ~(items < items)
      BY DEF Inv, TypeOK
    <3> QED
      BY <3>1, <3>2 DEF Inv, KeysApart
  <2>3. \A t \in Session \ {s} :
          Placed(t)' /\ item'[t].by = "accept" /\ Overlap(item'[t].place, p)
            => item'[t].pk \notin saw /\ items \notin item'[t].saw
    BY <1>1, <2>2
  <2>4. \A t \in Session \ {s} : Overlap(p, item'[t].place) => Overlap(item'[t].place, p)
    BY DEF Overlap
  <2> QED
    BY <2>1, <2>2, <2>3, <2>4 DEF Inv, AcceptedApart
<1>11. AcceptanceTold'
  BY <1>1, <1>2, <1>3 DEF Inv, TypeOK, AcceptanceTold
<1> QED
  BY <1>5, <1>6, <1>7, <1>8, <1>9, <1>10, <1>11 DEF Inv

\* A session of the panel's may be given a new place, or none.
LEMMA PutByPanel ==
  ASSUME Inv, NEW s \in Session, NEW p \in Place, NEW ok \in BOOLEAN,
         NewItem(s, p, ok, "panel", {}), s \in alive, status[s] = "ACCEPTED",
         confirmed' = [confirmed EXCEPT ![s] = ok],
         NEW rows \in Seq(LogRow), log' = log \o rows, rows # <<>>,
         \A i \in 1 .. Len(rows) :
           /\ rows[i].session = s
           /\ rows[i].action = "ASSIGN" => rows[i].new \in Place
           /\ rows[i].action = "UNASSIGN" => rows[i].old \in Place,
         rows[Len(rows)].new = p,
         UNCHANGED <<alive, status, told, ghost, req>>
  PROVE  Inv'
<1>1. /\ item' \in [Session -> AgendaItem \cup {None}] /\ items' \in Nat
      /\ req' \in [Web -> Asked]
      /\ item'[s] = Item(p, ok, "panel", {}) /\ item'[s] # None
      /\ \A t \in Session \ {s} : item'[t] = item[t]
      /\ KeysApart' /\ AcceptsCurrent' /\ ConfirmsOwn'
  BY ItemMade
<1>2. item'[s].place = p /\ item'[s].by = "panel" /\ PlaceOf(item'[s]) = p
  BY <1>1 DEF Item, PlaceOf
<1>3. log' \in Seq(LogRow)
  BY Concatenated DEF Inv, TypeOK
<1>4. TypeOK'
  BY <1>1, <1>3 DEF Inv, TypeOK
<1>5. RowsWhole' /\ LogTells'
  BY <1>1, <1>2, RowsLogged, SpotOfPlace
<1>6. PlacedIsAccepted' /\ AcceptanceTold'
  BY <1>1 DEF Inv, PlacedIsAccepted, AcceptanceTold, Placed
<1>7. AcceptedApart'
  BY <1>1, <1>2 DEF Inv, AcceptedApart, Placed
<1> QED
  BY <1>1, <1>4, <1>5, <1>6, <1>7 DEF Inv

\* A session of the panel's that is taken off goes without its confirmation.
LEMMA TakenOff ==
  ASSUME Inv, NEW s \in Session, item' = [item EXCEPT ![s] = None],
         confirmed' = [confirmed EXCEPT ![s] = FALSE],
         NEW row \in LogRow, log' = log \o <<row>>,
         row.session = s, row.action # "ASSIGN",
         row.action = "UNASSIGN" => row.old \in Place, row.new = None,
         alive' \in SUBSET Session, alive \ {s} \subseteq alive',
         status' \in {status, [status EXCEPT ![s] = "PENDING"]},
         UNCHANGED <<items, told, ghost, req>>
  PROVE  Inv'
<1>1. /\ item' \in [Session -> AgendaItem \cup {None}]
      /\ item'[s] = None
      /\ \A t \in Session \ {s} : item'[t] = item[t]
      /\ KeysApart' /\ AcceptsCurrent' /\ ConfirmsOwn'
  BY ItemGone
<1>2. /\ <<row>> \in Seq(LogRow) /\ <<row>> # <<>> /\ Len(<<row>>) = 1
      /\ <<row>>[1] = row
  OBVIOUS
<1>3. log' \in Seq(LogRow)
  BY <1>2, Concatenated DEF Inv, TypeOK
<1>4. TypeOK'
  <2>1. status' \in [Session -> Status]
    BY DEF Inv, TypeOK, Status
  <2>2. confirmed' \in [Session -> BOOLEAN]
    BY DEF Inv, TypeOK
  <2> QED
    BY <1>1, <1>3, <2>1, <2>2 DEF Inv, TypeOK
<1>5. RowsWhole' /\ LogTells'
  <2>1. ~Placed(s)'
    BY <1>1 DEF Placed
  <2>2. \A i \in 1 .. Len(<<row>>) : <<row>>[i] = row
    BY <1>2
  <2> DEFINE rows == <<row>>
  <2> HIDE DEF rows
  <2>3. rows \in Seq(LogRow) /\ rows # <<>> /\ log' = log \o rows
        /\ rows[Len(rows)] = row /\ \A i \in 1 .. Len(rows) : rows[i] = row
    BY <1>2, <2>2 DEF rows
  <2> QED
    BY <1>1, <2>1, <2>3, RowsLogged
<1>6. PlacedIsAccepted' /\ AcceptanceTold'
  BY <1>1 DEF Inv, TypeOK, PlacedIsAccepted, AcceptanceTold, Placed
<1>7. AcceptedApart'
  BY <1>1 DEF Inv, AcceptedApart, Placed
<1> QED
  BY <1>1, <1>4, <1>5, <1>6, <1>7 DEF Inv

\* An assignment makes a new item, and logs where the session was.
LEMMA AssignStep ==
  ASSUME Inv, NEW s \in Session, NEW p \in Place, Assign(s, p)
  PROVE  Inv'
<1>0. PICK ok \in BOOLEAN : ok = (AutoConfirm /\ ~Placed(s))
  OBVIOUS
<1> DEFINE left == Row(s, "UNASSIGN", PlaceOf(item[s]), None, None)
           from == IF Placed(s) THEN Len(log) + 1 ELSE None
           put == Row(s, "ASSIGN", None, p, from)
           rows == (IF Placed(s) THEN <<left>> ELSE <<>>) \o <<put>>
<1>1. /\ NewItem(s, p, ok, "panel", {}) /\ s \in alive /\ status[s] = "ACCEPTED"
      /\ confirmed' = [confirmed EXCEPT ![s] = ok]
      /\ log' = log \o rows
      /\ UNCHANGED <<alive, status, told, ghost, req>>
  BY <1>0 DEF Assign, Locked, Record
<1>2. put \in LogRow
  <2>1. from \in Nat \cup {None}
    BY LenProperties DEF Inv, TypeOK
  <2> HIDE DEF from
  <2> QED
    BY <2>1 DEF Row, LogRow
<1>3. Placed(s) => left \in LogRow /\ left.old \in Place
  BY PlacedItem DEF Inv, Row, LogRow
<1>4. /\ put.session = s /\ put.new = p /\ put.action = "ASSIGN"
      /\ left.session = s /\ left.action = "UNASSIGN"
  BY DEF Row
<1> HIDE DEF left, put
<1>5. CASE Placed(s)
  <2>1. rows = <<left>> \o <<put>>
    BY <1>5
  <2>2. /\ rows \in Seq(LogRow) /\ rows # <<>> /\ Len(rows) = 2
        /\ rows[1] = left /\ rows[2] = put
    <3> DEFINE a == <<left>>
               b == <<put>>
    <3>1. /\ a \in Seq(LogRow) /\ Len(a) = 1 /\ a[1] = left
          /\ b \in Seq(LogRow) /\ Len(b) = 1 /\ b[1] = put
      BY <1>2, <1>3, <1>5
    <3>2. rows = a \o b
      BY <2>1
    <3> HIDE DEF a, b, rows
    <3> QED
      BY <3>1, <3>2, ConcatProperties, EmptySeq
  <2> HIDE DEF rows
  <2>3. \A i \in 1 .. Len(rows) :
          /\ rows[i].session = s
          /\ rows[i].action = "ASSIGN" => rows[i].new \in Place
          /\ rows[i].action = "UNASSIGN" => rows[i].old \in Place
    <3>1. \A i \in 1 .. Len(rows) : i = 1 \/ i = 2
      BY <2>2
    <3> QED
      BY <1>3, <1>4, <1>5, <2>2, <3>1
  <2>4. rows[Len(rows)].new = p
    BY <1>4, <2>2
  <2> QED
    BY <1>0, <1>1, <2>2, <2>3, <2>4, PutByPanel
<1>6. CASE ~Placed(s)
  <2>0. rows = <<put>>
    BY <1>6
  <2>1. rows \in Seq(LogRow) /\ rows # <<>> /\ Len(rows) = 1 /\ rows[1] = put
    BY <1>2, <2>0
  <2> HIDE DEF rows
  <2>2. \A i \in 1 .. Len(rows) : rows[i] = put
    BY <2>1
  <2>3. \A i \in 1 .. Len(rows) :
          /\ rows[i].session = s
          /\ rows[i].action = "ASSIGN" => rows[i].new \in Place
          /\ rows[i].action = "UNASSIGN" => rows[i].old \in Place
    BY <1>4, <2>2
  <2>4. rows[Len(rows)].new = p
    BY <1>4, <2>1
  <2> QED
    BY <1>0, <1>1, <2>1, <2>3, <2>4, PutByPanel
<1> QED
  BY <1>5, <1>6

\* An unassignment drops the item and logs it.
LEMMA UnassignStep ==
  ASSUME Inv, NEW s \in Session, Unassign(s)
  PROVE  Inv'
<1> DEFINE row == Row(s, "UNASSIGN", item[s].place, None, None)
<1>1. row \in LogRow /\ row.session = s /\ row.action = "UNASSIGN"
      /\ row.old \in Place /\ row.new = None
  BY PlacedItem DEF Inv, Unassign, Row, LogRow
<1>2. log' = log \o <<row>>
  BY DEF Unassign, Record
<1> HIDE DEF row
<1> QED
  BY <1>1, <1>2, TakenOff DEF Unassign, Inv, TypeOK

\* A deletion takes the session off the timetable first.
LEMMA SoftDeleteStep ==
  ASSUME Inv, NEW s \in Session, SoftDelete(s)
  PROVE  Inv'
<1>1. CASE Placed(s)
  <2> DEFINE row == Row(s, "UNASSIGN", item[s].place, None, None)
  <2>1. row \in LogRow /\ row.session = s /\ row.action = "UNASSIGN"
        /\ row.old \in Place /\ row.new = None
    BY <1>1, PlacedItem DEF Inv, Row, LogRow
  <2>2. log' = log \o <<row>>
    BY <1>1 DEF SoftDelete, Record
  <2> HIDE DEF row
  <2> QED
    BY <1>1, <2>1, <2>2, TakenOff DEF SoftDelete, Inv, TypeOK
<1>2. CASE ~Placed(s)
  <2>1. /\ alive' = alive \ {s}
        /\ UNCHANGED <<item, status, confirmed, log, items, told, ghost, req>>
    BY <1>2 DEF SoftDelete
  <2>2. TypeOK' /\ KeysApart' /\ AcceptsCurrent' /\ ConfirmsOwn'
    BY <2>1 DEF Inv, TypeOK, KeysApart, AcceptsCurrent, ConfirmsOwn, Placed, SessionsOf
  <2>3. RowsWhole' /\ LogTells'
    BY <2>1 DEF Inv, RowsWhole, LogTells, Placed, RowsOf, Latest, PlaceOf
  <2>4. PlacedIsAccepted' /\ AcceptedApart' /\ AcceptanceTold'
    BY <1>2, <2>1 DEF Inv, PlacedIsAccepted, AcceptedApart, AcceptanceTold, Placed
  <2> QED
    BY <2>2, <2>3, <2>4 DEF Inv
<1> QED
  BY <1>1, <1>2

\* An undo puts back what a row of the log says.
LEMMA RevertStep ==
  ASSUME Inv, NEW i \in 1 .. Len(log), Revert(i)
  PROVE  Inv'
<1> DEFINE row == log[i]
           s == row.session
<1>1. row \in LogRow
  BY ElementOfSeq DEF Inv, TypeOK
<1>2. /\ s \in Session
      /\ row.old \in Place \cup {None} /\ row.new \in Place \cup {None}
      /\ row.action = "ASSIGN" => row.new \in Place
      /\ row.action = "UNASSIGN" => row.old \in Place
  BY <1>1 DEF LogRow, Inv, RowsWhole
<1>3. CASE row.action = "ASSIGN" /\ Placed(s)
  <2> DEFINE undo == Row(s, "REVERT", row.new, None, None)
  <2>1. /\ item' = [item EXCEPT ![s] = None] /\ log' = log \o <<undo>>
        /\ confirmed' = [confirmed EXCEPT ![s] = FALSE]
        /\ UNCHANGED <<items, alive, status, told, ghost, req>>
    BY <1>3 DEF Revert, Record
  <2>2. undo \in LogRow /\ undo.session = s /\ undo.action = "REVERT"
        /\ undo.new = None
    BY <1>2 DEF Row, LogRow
  <2> HIDE DEF undo, s, row
  <2> QED
    BY <1>2, <2>1, <2>2, TakenOff DEF Inv, TypeOK
<1>4. CASE row.action = "UNASSIGN" /\ ~Placed(s)
  <2> DEFINE undo == Row(s, "REVERT", None, row.old, None)
             rows == <<undo>>
  <2>1. /\ NewItem(s, row.old, FALSE, "panel", {}) /\ s \in alive
        /\ status[s] = "ACCEPTED" /\ log' = log \o rows
        /\ confirmed' = [confirmed EXCEPT ![s] = FALSE]
        /\ UNCHANGED <<alive, status, told, ghost, req>>
    BY <1>4 DEF Revert, Record, Locked
  <2>2. undo \in LogRow /\ undo.session = s /\ undo.action = "REVERT"
        /\ undo.new = row.old
    BY <1>2 DEF Row, LogRow
  <2> HIDE DEF undo
  <2>3. rows \in Seq(LogRow) /\ rows # <<>> /\ Len(rows) = 1 /\ rows[1] = undo
    BY <2>2
  <2>4. \A n \in 1 .. Len(rows) : rows[n] = undo
    BY <2>3
  <2> HIDE DEF rows, s, row
  <2> QED
    BY <1>2, <1>4, <2>1, <2>2, <2>3, <2>4, PutByPanel
<1> QED
  BY <1>3, <1>4 DEF Revert

\* A new duration keeps the item, its key and its start.
LEMMA ResizeStep ==
  ASSUME Inv, NEW s \in Session, NEW w \in Window, Resize(s, w)
  PROVE  Inv'
<1> DEFINE new == [item[s] EXCEPT !.place.window = w,
                                  !.by = IF @ = "panel" THEN @ ELSE "resized"]
<1>1. item[s] \in AgendaItem /\ item[s].place \in Place
  BY PlacedItem DEF Inv, Resize
<1>2. /\ new \in AgendaItem /\ new.pk = item[s].pk /\ new.saw = item[s].saw
      /\ new.place.space = item[s].place.space /\ new.place.window = w
      /\ new.by # "accept" /\ (new.by = "panel" <=> item[s].by = "panel")
  BY <1>1 DEF AgendaItem, Place
<1>3. new # None
  BY <1>2, ProgrammeAssumption
<1>4. /\ item' = [item EXCEPT ![s] = new] /\ w[1] = item[s].place.window[1]
      /\ UNCHANGED <<alive, status, confirmed, items, log, told, ghost, req>>
  BY DEF Resize
<1> HIDE DEF new
<1>5. TypeOK'
  BY <1>2, <1>4 DEF Inv, TypeOK
<1>6. \A t \in Session : /\ Placed(t)' <=> Placed(t)
                         /\ t # s => item'[t] = item[t]
  BY <1>3, <1>4 DEF Inv, TypeOK, Placed, Resize
<1>7. item'[s] = new
  BY <1>4 DEF Inv, TypeOK
<1>8. KeysApart' /\ ConfirmsOwn'
  BY <1>2, <1>4, <1>6, <1>7 DEF Inv, KeysApart, ConfirmsOwn
<1>9. AcceptsCurrent'
  BY <1>2, <1>4, <1>6, <1>7 DEF Inv, AcceptsCurrent
<1>10. RowsWhole' /\ LogTells'
  <2>1. \A t \in Session : Spot(PlaceOf(item'[t])) = Spot(PlaceOf(item[t]))
    <3>1. PlaceOf(item'[s]) = new.place /\ PlaceOf(item[s]) = item[s].place
      BY <1>1, <1>3, <1>7, ProgrammeAssumption DEF PlaceOf
    <3>2. new.place \in Place
      BY <1>2 DEF AgendaItem
    <3>3. Spot(new.place) = Spot(item[s].place)
      BY <1>1, <1>2, <1>4, <3>2, SpotOfPlace
    <3> QED
      BY <1>6, <3>1, <3>3
  <2> QED
    BY <1>2, <1>4, <1>6, <1>7, <2>1 DEF Inv, RowsWhole, LogTells, RowsOf, Latest
<1>11. PlacedIsAccepted' /\ AcceptanceTold'
  BY <1>4, <1>6 DEF Inv, PlacedIsAccepted, AcceptanceTold
<1>12. AcceptedApart'
  BY <1>2, <1>6, <1>7 DEF Inv, AcceptedApart
<1> QED
  BY <1>5, <1>8, <1>9, <1>10, <1>11, <1>12 DEF Inv

-----------------------------------------------------------------------------
\* Every step keeps the invariant.
LEMMA ProgrammeNext == Inv /\ [Next]_vars => Inv'
<1> SUFFICES ASSUME Inv, [Next]_vars PROVE Inv'
  OBVIOUS
<1>1. ASSUME NEW r \in Web, Accept(r) PROVE Inv'
  <2>1. AcceptFails(r) => Inv'
    BY GivenUp DEF AcceptFails
  <2> QED
    BY <1>1, <2>1, AcceptReadStep, AcceptCheckStep, AcceptWriteStep DEF Accept
<1>2. ASSUME NEW r \in Web, Confirm(r) PROVE Inv'
  <2>1. ConfirmWrite(r) => Inv'
    <3> SUFFICES ASSUME ConfirmWrite(r) PROVE Inv'
      OBVIOUS
    <3>1. req[r].yes \in BOOLEAN
      BY AskedRead DEF Inv, ConfirmWrite
    <3> QED
      BY <3>1, FlagsStep DEF ConfirmWrite
  <2>2. BulkSessions(r) => Inv'
    <3> SUFFICES ASSUME BulkSessions(r) PROVE Inv'
      OBVIOUS
    <3>1. req[r].yes \in BOOLEAN
      BY AskedRead DEF Inv, BulkSessions
    <3> QED
      BY <3>1, FlagsStep DEF BulkSessions
  <2>3. BulkAborted(r) => Inv'
    BY GivenUp DEF BulkAborted
  <2> QED
    BY <1>2, <2>1, <2>2, <2>3, ConfirmReadStep, BulkItemsStep DEF Confirm
<1>3. ASSUME NEW s \in Session, Panel(s) PROVE Inv'
  BY <1>3, SetStatusStep, AssignStep, UnassignStep, ResizeStep, SoftDeleteStep,
     RestoreStep DEF Panel
<1>4. CASE UNCHANGED vars
  <2> USE <1>4 DEF vars
  <2>1. TypeOK' /\ KeysApart' /\ AcceptsCurrent' /\ ConfirmsOwn'
    BY DEF Inv, TypeOK, KeysApart, AcceptsCurrent, ConfirmsOwn, Placed, SessionsOf
  <2>2. RowsWhole' /\ LogTells'
    BY DEF Inv, RowsWhole, LogTells, Placed, RowsOf, Latest, PlaceOf
  <2>3. PlacedIsAccepted' /\ AcceptedApart' /\ AcceptanceTold'
    BY DEF Inv, PlacedIsAccepted, AcceptedApart, AcceptanceTold, Placed
  <2> QED
    BY <2>1, <2>2, <2>3 DEF Inv
<1> QED
  BY <1>1, <1>2, <1>3, <1>4, RevertStep DEF Next

\* The inductive invariant holds of every behaviour.
THEOREM ProgrammeInvariant == Spec => []Inv
BY ProgrammeInit, ProgrammeNext, PTL DEF Spec

\* Whatever the order of status changes, undos, deletions and restores, only
\* accepted, undeleted proposals are on the timetable (PlacedIsAccepted), but
\* for those an accept had read before their deletion.
THEOREM PlacedIsAcceptedHolds == Spec => []PlacedIsAccepted
<1>1. Inv => PlacedIsAccepted
  BY DEF Inv
<1> QED
  BY <1>1, ProgrammeInvariant, PTL

\* Of two sessions that accepts put in one room at one time, neither accept can
\* have seen the other's placement (AcceptedApart).
THEOREM AcceptedApartHolds == Spec => []AcceptedApart
<1>1. Inv => AcceptedApart
  BY DEF Inv
<1> QED
  BY <1>1, ProgrammeInvariant, PTL

\* No proposal stands accepted without its people having been told
\* (AcceptanceTold), however old the status an accept compares with.
THEOREM AcceptanceToldHolds == Spec => []AcceptanceTold
<1>1. Inv => AcceptanceTold
  BY DEF Inv
<1> QED
  BY <1>1, ProgrammeInvariant, PTL

-----------------------------------------------------------------------------
\* What the flags of a session are set to, when its items are read or gone.
LEMMA FlagsPart ==
  ASSUME Inv, NEW r \in Web, req[r].op \in {"confirm", "bulk"}, NEW S,
         SetFlags(req[r].pks, S, req[r].yes), req' = [req EXCEPT ![r] = Idle],
         UNCHANGED <<alive, ghost>>,
         \A s \in SessionsOf(req[r]) : Placed(s) => s \in S,
         S \subseteq SessionsOf(req[r]),
         NEW s \in Session \ ghost', Mirrored(s), ~Mirrored(s)'
  PROVE  /\ req'[r] = Idle /\ s \in SessionsOf(req[r])
         /\ Placed(s) => item[s].pk \notin req[r].pks
<1> DEFINE yes == req[r].yes
<1>1. /\ item'[s] = IF Placed(s) /\ item[s].pk \in req[r].pks
                      THEN [item[s] EXCEPT !.ok = yes] ELSE item[s]
      /\ confirmed'[s] = IF s \in S \cap alive THEN yes ELSE confirmed[s]
  BY DEF SetFlags
<1>2. yes \in BOOLEAN /\ req'[r] = Idle
  BY AskedRead DEF Inv, TypeOK
<1>3. Placed(s) => item[s] \in AgendaItem /\ s \in alive
  BY PlacedItem DEF Inv, PlacedIsAccepted
<1>4. s \in SessionsOf(req[r])
  <2> SUFFICES ASSUME s \notin SessionsOf(req[r]) PROVE FALSE
    OBVIOUS
  <2>1. Placed(s) => item[s].pk \notin req[r].pks
    BY DEF Inv, ConfirmsOwn
  <2>2. item'[s] = item[s] /\ confirmed'[s] = confirmed[s]
    BY <1>1, <2>1
  <2> QED
    BY <2>2 DEF Mirrored, Placed
<1>5. ASSUME Placed(s), item[s].pk \in req[r].pks PROVE FALSE
  <2>1. item'[s] \in AgendaItem /\ item'[s].ok = yes
    BY <1>1, <1>2, <1>3, <1>5 DEF AgendaItem
  <2>2. confirmed'[s] = yes
    BY <1>1, <1>3, <1>4, <1>5
  <2>3. Placed(s)'
    BY <2>1, ProgrammeAssumption DEF Placed
  <2> QED
    BY <1>2, <2>1, <2>2, <2>3 DEF Mirrored
<1> QED
  BY <1>2, <1>4, <1>5

\* A new item comes with its session's flag.
LEMMA MadeMirrored ==
  ASSUME Inv, NEW t \in Session, NEW p, NEW ok \in BOOLEAN, NEW by, NEW saw,
         NewItem(t, p, ok, by, saw), Item(p, ok, by, saw) # None,
         confirmed' = [confirmed EXCEPT ![t] = ok],
         NEW s \in Session, Mirrored(s)
  PROVE  Mirrored(s)'
<1>1. item' = [item EXCEPT ![t] = Item(p, ok, by, saw)]
  BY DEF NewItem
<1>2. CASE s = t
  <2>1. item'[s] = Item(p, ok, by, saw) /\ confirmed'[s] = ok
    BY <1>1, <1>2 DEF Inv, TypeOK
  <2>2. item'[s].ok = ok /\ Placed(s)'
    BY <2>1 DEF Item, Placed
  <2> QED
    BY <2>1, <2>2 DEF Mirrored
<1>3. CASE s # t
  <2>1. item'[s] = item[s] /\ confirmed'[s] = confirmed[s]
    BY <1>1, <1>3 DEF Inv, TypeOK
  <2> QED
    BY <2>1 DEF Mirrored, Placed
<1> QED
  BY <1>2, <1>3

\* A session taken off loses its flag.
LEMMA OffMirrored ==
  ASSUME Inv, NEW t \in Session, item' = [item EXCEPT ![t] = None],
         confirmed' = [confirmed EXCEPT ![t] = FALSE],
         NEW s \in Session, Mirrored(s)
  PROVE  Mirrored(s)'
<1>1. CASE s = t
  BY <1>1 DEF Inv, TypeOK, Mirrored, Placed
<1>2. CASE s # t
  <2>1. item'[s] = item[s] /\ confirmed'[s] = confirmed[s]
    BY <1>2 DEF Inv, TypeOK
  <2> QED
    BY <2>1 DEF Mirrored, Placed
<1> QED
  BY <1>1, <1>2

\* The panel writes both flags of a session.
LEMMA PanelMirrored ==
  ASSUME Inv, NEW t \in Session, Panel(t), NEW s \in Session, Mirrored(s)
  PROVE  Mirrored(s)'
<1>1. CASE UNCHANGED <<confirmed, item>>
  BY <1>1 DEF Mirrored, Placed
<1>2. ASSUME NEW p \in Place, Assign(t, p) PROVE Mirrored(s)'
  <2>1. PICK ok \in BOOLEAN : ok = (AutoConfirm /\ ~Placed(t))
    OBVIOUS
  <2>2. NewItem(t, p, ok, "panel", {}) /\ confirmed' = [confirmed EXCEPT ![t] = ok]
    BY <1>2, <2>1 DEF Assign
  <2>3. Item(p, ok, "panel", {}) \in AgendaItem
    BY <2>1 DEF Item, AgendaItem, Inv, TypeOK
  <2>4. Item(p, ok, "panel", {}) # None
    BY <2>3, ProgrammeAssumption
  <2> QED
    BY <2>1, <2>2, <2>4, MadeMirrored
<1>3. CASE Unassign(t)
  BY <1>3, OffMirrored DEF Unassign
<1>4. CASE SoftDelete(t)
  BY <1>1, <1>4, OffMirrored DEF SoftDelete
<1>5. ASSUME NEW w \in Window, Resize(t, w) PROVE Mirrored(s)'
  <2> DEFINE new == [item[t] EXCEPT !.place.window = w,
                                    !.by = IF @ = "panel" THEN @ ELSE "resized"]
  <2>1. item[t] \in AgendaItem
    BY <1>5, PlacedItem DEF Inv, Resize
  <2>2. new \in AgendaItem /\ new.ok = item[t].ok
    BY <2>1 DEF AgendaItem, Place
  <2>3. new # None /\ Placed(t)
    BY <1>5, <2>2, ProgrammeAssumption DEF Resize
  <2>4. item' = [item EXCEPT ![t] = new] /\ confirmed' = confirmed
    BY <1>5 DEF Resize
  <2> HIDE DEF new
  <2>5. s # t => item'[s] = item[s]
    BY <2>4 DEF Inv, TypeOK
  <2>6. item'[t] = new
    BY <2>4 DEF Inv, TypeOK
  <2> QED
    BY <2>2, <2>3, <2>4, <2>5, <2>6 DEF Mirrored, Placed
<1> QED
  BY <1>1, <1>2, <1>3, <1>4, <1>5 DEF Panel, SetStatus, Restore

\* An undo writes both flags of its session.
LEMMA RevertMirrored ==
  ASSUME Inv, NEW i \in 1 .. Len(log), Revert(i), NEW s \in Session, Mirrored(s)
  PROVE  Mirrored(s)'
<1> DEFINE row == log[i]
<1>1. row \in LogRow
  BY ElementOfSeq DEF Inv, TypeOK
<1>2. PICK t \in Session : t = row.session
  BY <1>1 DEF LogRow
<1>3. row.action = "UNASSIGN" => row.old \in Place
  BY DEF Inv, RowsWhole
<1>4. PICK ok \in BOOLEAN : ok = FALSE
  OBVIOUS
<1>5. confirmed' = [confirmed EXCEPT ![t] = ok]
  BY <1>2, <1>4 DEF Revert
<1>6. CASE item' = [item EXCEPT ![t] = None]
  BY <1>2, <1>4, <1>5, <1>6, OffMirrored
<1>7. CASE row.action = "UNASSIGN" /\ NewItem(t, row.old, ok, "panel", {})
  <2>1. PICK p \in Place : p = row.old
    BY <1>3, <1>7
  <2>2. Item(p, ok, "panel", {}) \in AgendaItem
    BY <1>4, <2>1 DEF Item, AgendaItem, Inv, TypeOK
  <2>3. Item(p, ok, "panel", {}) # None
    BY <2>2, ProgrammeAssumption
  <2>4. NewItem(t, p, ok, "panel", {})
    BY <1>7, <2>1
  <2> QED
    BY <1>2, <1>4, <1>5, <2>3, <2>4, MadeMirrored
<1> QED
  BY <1>2, <1>4, <1>6, <1>7 DEF Revert

\* An accept writes both flags, unless its session was deleted meanwhile.
LEMMA AcceptMirrored ==
  ASSUME Inv, NEW r \in Web, AcceptWrite(r), NEW s \in Session \ ghost', Mirrored(s)
  PROVE  Mirrored(s)'
<1>1. PICK t \in Session, p \in Place, ok \in BOOLEAN, saw \in SUBSET Nat :
        t = req[r].s /\ p = req[r].place /\ ok = AutoConfirm /\ saw = req[r].saw
  BY AskedRead, ProgrammeAssumption DEF Inv, AcceptWrite
<1>2. Item(p, ok, "accept", saw) \in AgendaItem
  BY DEF Item, AgendaItem, Inv, TypeOK
<1>3. Item(p, ok, "accept", saw) # None
  BY <1>2, ProgrammeAssumption
<1>4. NewItem(t, p, ok, "accept", saw)
  BY <1>1 DEF AcceptWrite
<1>5. CASE t \in alive
  <2>1. confirmed' = [confirmed EXCEPT ![t] = ok]
    BY <1>1, <1>5 DEF AcceptWrite
  <2> QED
    BY <1>3, <1>4, <2>1, MadeMirrored
<1>6. CASE t \notin alive
  <2>1. s # t /\ confirmed' = confirmed
    BY <1>1, <1>6 DEF AcceptWrite
  <2>2. item'[s] = item[s]
    BY <1>4, <2>1 DEF Inv, TypeOK, NewItem
  <2> QED
    BY <2>1, <2>2 DEF Mirrored, Placed
<1> QED
  BY <1>5, <1>6

\* Where the two flags of a session part, a confirmation writes to it that
\* names another placement than the one it has.
LEMMA FlagsStepPart ==
  ASSUME Inv, Next, NEW s \in Session \ ghost', Mirrored(s), ~Mirrored(s)'
  PROVE  \E r \in Web :
           /\ req[r].op \in {"confirm", "bulk"} /\ req'[r] = Idle
           /\ s \in SessionsOf(req[r])
           /\ Placed(s) => item[s].pk \notin req[r].pks
<1>1. ~UNCHANGED <<confirmed, item>>
  BY DEF Mirrored, Placed
<1>2. ~\E t \in Session : Panel(t)
  BY PanelMirrored
<1>3. ~\E i \in 1 .. Len(log) : Revert(i)
  BY RevertMirrored
<1>4. ~\E r \in Web : Accept(r)
  BY <1>1, AcceptMirrored DEF Accept, AcceptRead, AcceptCheck, AcceptFails
<1>5. PICK r \in Web : ConfirmWrite(r) \/ BulkSessions(r)
  BY <1>1, <1>2, <1>3, <1>4 DEF Next, Confirm, ConfirmRead, BulkItems, BulkAborted
<1>6. CASE ConfirmWrite(r)
  <2>1. /\ req[r].op = "confirm" /\ SessionsOf(req[r]) = {req[r].s}
        /\ SetFlags(req[r].pks, {req[r].s}, req[r].yes)
        /\ req' = [req EXCEPT ![r] = Idle] /\ UNCHANGED <<alive, ghost>>
    BY <1>6 DEF ConfirmWrite, SessionsOf
  <2> QED
    BY <2>1, FlagsPart
<1>7. CASE BulkSessions(r)
  <2> DEFINE S == {t \in req[r].s : Placed(t)}
  <2>1. /\ req[r].op = "bulk" /\ SessionsOf(req[r]) = req[r].s
        /\ SetFlags(req[r].pks, S, req[r].yes)
        /\ req' = [req EXCEPT ![r] = Idle] /\ UNCHANGED <<alive, ghost>>
    BY <1>7 DEF BulkSessions, SessionsOf
  <2>2. S \subseteq SessionsOf(req[r]) /\ \A t \in SessionsOf(req[r]) : Placed(t) => t \in S
    BY <2>1
  <2> HIDE DEF S
  <2> QED
    BY <2>1, <2>2, FlagsPart
<1> QED
  BY <1>5, <1>6, <1>7

\* The two confirmation flags part in one way only (FlagsPartByRaceOnly): a
\* confirmation writes to a session whose placement is not the one it had read.
THEOREM FlagsPartByRaceOnlyHolds == Spec => FlagsPartByRaceOnly
<1>1. Inv /\ [Next]_vars =>
        [\A s \in Session \ ghost' : Mirrored(s) /\ ~Mirrored(s)' =>
           \E r \in Web :
             /\ req[r].op \in {"confirm", "bulk"} /\ req'[r] = Idle
             /\ s \in SessionsOf(req[r])
             /\ Placed(s) => item[s].pk \notin req[r].pks]_vars
  BY FlagsStepPart
<1> QED
  BY <1>1, ProgrammeInvariant, PTL DEF Spec, FlagsPartByRaceOnly

-----------------------------------------------------------------------------
\* The rows a step adds lead from where their session was to where it is.
RowsLead ==
  \A i \in Len(log) + 1 .. Len(log') :
    LET s == log'[i].session IN
    /\ Spot(log'[i].old) =
         IF i = Len(log) + 1 THEN Spot(PlaceOf(item[s]))
         ELSE Spot(log'[i - 1].new)
    /\ i = Len(log') => Spot(log'[i].new) = Spot(PlaceOf(item'[s]))

\* Whatever writes no row moves nothing.
LEMMA NoRowLeads == ASSUME Inv, log' = log PROVE RowsLead
<1>1. Len(log) \in Nat
  BY LenProperties DEF Inv, TypeOK
<1> QED
  BY <1>1 DEF RowsLead

\* A single row leads from where its session was to where it is.
LEMMA OneRowLeads ==
  ASSUME Inv, NEW s \in Session, NEW row \in LogRow, log' = log \o <<row>>,
         row.session = s, Spot(row.old) = Spot(PlaceOf(item[s])),
         Spot(row.new) = Spot(PlaceOf(item'[s]))
  PROVE  RowsLead
<1> DEFINE rows == <<row>>
<1>1. rows \in Seq(LogRow) /\ Len(rows) = 1 /\ rows[1] = row
  OBVIOUS
<1>2. log' = log \o rows
  OBVIOUS
<1> HIDE DEF rows
<1>3. /\ Len(log) \in Nat /\ Len(log') = Len(log) + 1
      /\ log'[Len(log) + 1] = row
  BY <1>1, <1>2, ConcatProperties, LenProperties DEF Inv, TypeOK
<1>4. \A i \in Len(log) + 1 .. Len(log') : i = Len(log) + 1
  BY <1>3
<1> QED
  BY <1>3, <1>4 DEF RowsLead

\* Two sequences of one row each, one after the other.
LEMMA PairOfRows ==
  ASSUME NEW a \in Seq(LogRow), NEW b \in Seq(LogRow), Len(a) = 1, Len(b) = 1
  PROVE  /\ a \o b \in Seq(LogRow) /\ Len(a \o b) = 2
         /\ (a \o b)[1] = a[1] /\ (a \o b)[2] = b[1]
BY ConcatProperties

\* A move writes two rows, the second taking up where the first left off.
LEMMA TwoRowsLead ==
  ASSUME Inv, NEW s \in Session, NEW one \in LogRow, NEW two \in LogRow,
         log' = log \o (<<one>> \o <<two>>), one.session = s, two.session = s,
         Spot(one.old) = Spot(PlaceOf(item[s])), Spot(two.old) = Spot(one.new),
         Spot(two.new) = Spot(PlaceOf(item'[s]))
  PROVE  RowsLead
<1> DEFINE a == <<one>>
           b == <<two>>
           rows == a \o b
<1>1. /\ a \in Seq(LogRow) /\ Len(a) = 1 /\ a[1] = one
      /\ b \in Seq(LogRow) /\ Len(b) = 1 /\ b[1] = two
  OBVIOUS
<1>2. log' = log \o rows
  OBVIOUS
<1> HIDE DEF a, b
<1>0. rows = a \o b
  OBVIOUS
<1> HIDE DEF rows
<1>3. rows \in Seq(LogRow) /\ Len(rows) = 2 /\ rows[1] = one /\ rows[2] = two
  BY <1>0, <1>1, PairOfRows
<1>4. /\ Len(log) \in Nat /\ Len(log') = Len(log) + 2
      /\ log'[Len(log) + 1] = one /\ log'[Len(log) + 2] = two
  BY <1>2, <1>3, ConcatProperties, LenProperties DEF Inv, TypeOK
<1>5. \A i \in Len(log) + 1 .. Len(log') : i = Len(log) + 1 \/ i = Len(log) + 2
  BY <1>4
<1> QED
  BY <1>4, <1>5 DEF RowsLead

\* An assignment writes one row, or two when the session was placed.
LEMMA AssignLeads ==
  ASSUME Inv, NEW s \in Session, NEW p \in Place, Assign(s, p)
  PROVE  RowsLead
<1> DEFINE left == Row(s, "UNASSIGN", PlaceOf(item[s]), None, None)
           put(from) == Row(s, "ASSIGN", None, p, from)
<1>1. PlaceOf(item'[s]) = p
  <2>1. PICK ok \in BOOLEAN : ok = (AutoConfirm /\ ~Placed(s))
    OBVIOUS
  <2>2. NewItem(s, p, ok, "panel", {})
    BY <2>1 DEF Assign
  <2>3. Item(p, ok, "panel", {}) \in AgendaItem /\ Item(p, ok, "panel", {}).place = p
    BY DEF Item, AgendaItem, Inv, TypeOK
  <2>4. item'[s] = Item(p, ok, "panel", {})
    BY <2>2 DEF NewItem, Inv, TypeOK
  <2> QED
    BY <2>3, <2>4, ProgrammeAssumption DEF PlaceOf
<1>2. CASE Placed(s)
  <2>1. PICK from \in Nat : from = Len(log) + 1
    BY LenProperties DEF Inv, TypeOK
  <2>2. left \in LogRow /\ put(from) \in LogRow
    BY <1>2, PlacedItem DEF Inv, Row, LogRow
  <2>3. log' = log \o (<<left>> \o <<put(from)>>)
    BY <1>2, <2>1 DEF Assign, Record
  <2>4. /\ left.session = s /\ put(from).session = s /\ left.old = PlaceOf(item[s])
        /\ left.new = None /\ put(from).old = None /\ put(from).new = p
    BY DEF Row
  <2> HIDE DEF left, put
  <2> QED
    BY <1>1, <2>2, <2>3, <2>4, TwoRowsLead
<1>3. CASE ~Placed(s)
  <2>1. put(None) \in LogRow /\ put(None).session = s
        /\ put(None).old = None /\ put(None).new = p
    BY DEF Row, LogRow
  <2> DEFINE rows == <<put(None)>>
  <2>2. log' = log \o (<<>> \o rows)
    BY <1>3 DEF Assign, Record
  <2>3. <<>> \o rows = rows
    BY <2>1
  <2>4. log' = log \o <<put(None)>>
    BY <2>2, <2>3
  <2>5. PlaceOf(item[s]) = None
    BY <1>3, PlacedItem DEF Inv
  <2> HIDE DEF put, rows
  <2> QED
    BY <1>1, <2>1, <2>4, <2>5, OneRowLeads
<1> QED
  BY <1>2, <1>3

\* Taking a session off the timetable writes one row.
LEMMA OffLeads ==
  ASSUME Inv, NEW s \in Session, NEW action \in {"UNASSIGN", "REVERT"},
         item' = [item EXCEPT ![s] = None], NEW old \in Place \cup {None},
         Spot(old) = Spot(PlaceOf(item[s])),
         log' = log \o <<Row(s, action, old, None, None)>>
  PROVE  RowsLead
<1> DEFINE row == Row(s, action, old, None, None)
<1>1. row \in LogRow /\ row.session = s /\ row.old = old /\ row.new = None
  BY DEF Row, LogRow
<1>2. PlaceOf(item'[s]) = None
  BY DEF Inv, TypeOK, PlaceOf
<1> HIDE DEF row
<1> QED
  BY <1>1, <1>2, OneRowLeads DEF row

\* An undone assignment is the session's latest, so it still is where that row
\* put it.
LEMMA RevertLeads ==
  ASSUME Inv, NEW i \in 1 .. Len(log), Revert(i)
  PROVE  RowsLead
<1> DEFINE row == log[i]
<1>1. row \in LogRow
  BY ElementOfSeq DEF Inv, TypeOK
<1>2. PICK s \in Session : s = row.session
  BY <1>1 DEF LogRow
<1>3. /\ row.action = "ASSIGN" => row.new \in Place
      /\ row.action = "UNASSIGN" => row.old \in Place
  BY DEF Inv, RowsWhole
<1>4. CASE row.action = "ASSIGN" /\ Placed(s)
  <2>1. PICK new \in Place : new = row.new
    BY <1>3, <1>4
  <2>2. i \in RowsOf(s) /\ Latest(i)
    BY <1>2 DEF RowsOf, Revert
  <2>3. Spot(new) = Spot(PlaceOf(item[s]))
    BY <2>1, <2>2, SpotOfPlace DEF Inv, LogTells
  <2>4. /\ item' = [item EXCEPT ![s] = None]
        /\ log' = log \o <<Row(s, "REVERT", new, None, None)>>
    BY <1>2, <1>4, <2>1 DEF Revert, Record
  <2> QED
    BY <2>3, <2>4, OffLeads
<1>5. CASE row.action = "UNASSIGN" /\ ~Placed(s)
  <2>1. PICK p \in Place : p = row.old
    BY <1>3, <1>5
  <2>2. PICK ok \in BOOLEAN : ok = FALSE
    OBVIOUS
  <2>3. /\ NewItem(s, p, ok, "panel", {})
        /\ log' = log \o <<Row(s, "REVERT", None, p, None)>>
    BY <1>2, <1>5, <2>1, <2>2 DEF Revert, Record
  <2>4. Item(p, ok, "panel", {}) \in AgendaItem /\ Item(p, ok, "panel", {}).place = p
    BY DEF Item, AgendaItem, Inv, TypeOK
  <2>5. item'[s] = Item(p, ok, "panel", {})
    BY <2>3 DEF NewItem, Inv, TypeOK
  <2>6. PlaceOf(item'[s]) = p /\ PlaceOf(item[s]) = None
    BY <1>5, <2>4, <2>5, PlacedItem, ProgrammeAssumption DEF PlaceOf, Inv
  <2> DEFINE new == Row(s, "REVERT", None, p, None)
  <2>7. new \in LogRow /\ new.session = s /\ new.old = None /\ new.new = p
    BY DEF Row, LogRow
  <2> HIDE DEF new
  <2> QED
    BY <2>3, <2>6, <2>7, OneRowLeads DEF new
<1> QED
  BY <1>2, <1>4, <1>5 DEF Revert

\* So it is of every step.
LEMMA NextLeads == ASSUME Inv, Next PROVE RowsLead
<1>1. CASE log' = log
  BY <1>1, NoRowLeads
<1>2. ASSUME NEW s \in Session, Unassign(s) \/ (SoftDelete(s) /\ Placed(s))
      PROVE RowsLead
  <2>1. /\ Placed(s) /\ item' = [item EXCEPT ![s] = None]
        /\ log' = log \o <<Row(s, "UNASSIGN", item[s].place, None, None)>>
    BY <1>2 DEF Unassign, SoftDelete, Record
  <2>2. item[s].place \in Place /\ PlaceOf(item[s]) = item[s].place
    BY <2>1, PlacedItem DEF Inv
  <2> QED
    BY <2>1, <2>2, OffLeads
<1>3. ASSUME NEW s \in Session, Panel(s) PROVE RowsLead
  BY <1>1, <1>2, <1>3, AssignLeads DEF Panel, SetStatus, Resize, SoftDelete, Restore
<1>4. ASSUME NEW r \in Web, Accept(r) \/ Confirm(r) PROVE log' = log
  BY <1>4 DEF Accept, AcceptRead, AcceptCheck, AcceptWrite, AcceptFails, Confirm,
     ConfirmRead, ConfirmWrite, BulkItems, BulkSessions, BulkAborted
<1> QED
  BY <1>1, <1>3, <1>4, RevertLeads DEF Next

\* The change log tells the timetable (LogTellsTheTimetable): a session is
\* where its latest row put it, and the rows a change writes lead from where
\* the session was to where it is.
THEOREM LogTellsTheTimetableHolds == Spec => LogTellsTheTimetable
<1>1. Inv => LogTells
  BY DEF Inv
<1>2. Inv /\ [Next]_vars => [RowsLead]_vars
  BY NextLeads
<1>3. Spec => [](\A s \in Session : \A i \in RowsOf(s) : Latest(i) =>
                   IF log[i].new # None THEN Spot(PlaceOf(item[s])) = Spot(log[i].new)
                   ELSE Placed(s) => item[s].by # "panel")
  BY <1>1, ProgrammeInvariant, PTL DEF LogTells
<1>4. Spec => [][RowsLead]_vars
  BY <1>2, ProgrammeInvariant, PTL DEF Spec
<1> QED
  BY <1>3, <1>4, PTL DEF LogTellsTheTimetable, RowsLead
=============================================================================
