--------------------------------- MODULE Grid ---------------------------------
(***************************************************************************)
(* The timetable page: the columns of a day, the hours it is closed, and   *)
(* the warnings on its cards.  A page reads the event's items first, and a *)
(* track's own ones a second time, so a move may come in between.          *)
(***************************************************************************)
EXTENDS Naturals, Sequences, FiniteSets, FiniteSetsExt, SequencesExt

CONSTANTS
  Session,       \* pks
  Space, Facilitator, None,
  RunBy,         \* the facilitators of each session ...
  Collective,    \* ... of which these are not one person
  Limit,         \* each session's participants
  Capacity,      \* each space's, or None
  Prefers,       \* the slots each session was proposed for
  Track,         \* the sessions of each track
  DayLength, Days,
  Openings,      \* bound: the slots an event may have
  Places,        \* bound: where and when a session may be put
  MaxMoves       \* bound: moves while a page is read

VARIABLES
  slots,    \* the event's slots
  at,       \* [space, window] of each session, or None
  page,     \* the page being read: its track, the items it has loaded, and
            \* the items as they were when it read its track's
  moves     \* moves since it began

vars == <<slots, at, page, moves>>

\* Hours from one to before another.
Window == {w \in Nat \X Nat : w[1] < w[2]}

GridAssumption ==
  /\ Session \subseteq Nat /\ IsFiniteSet(Session)
  /\ IsFiniteSet(Facilitator)
  /\ RunBy \in [Session -> SUBSET Facilitator]
  /\ Collective \subseteq Facilitator
  /\ DayLength \in Nat \ {0} /\ Days \in Nat \ {0}
  /\ \A p \in Places : p.space \in Space /\ p.window \in Window
  /\ \A o \in Openings : IsFiniteSet(o) /\ o \subseteq Window
  /\ \A s \in Session : IsFiniteSet(Prefers[s]) /\ Prefers[s] \subseteq Window

NoPage == [stage |-> "none", track |-> None, items |-> None, now |-> None]

Init ==
  /\ slots \in Openings
  /\ at = [s \in Session |-> None]
  /\ page = NoPage /\ moves = 0

-----------------------------------------------------------------------------
Overlap(v, w) == v[1] < w[2] /\ w[1] < v[2]
HoursOf(w) == w[1] .. w[2] - 1
Open(ws) == UNION {HoursOf(w) : w \in ws}
Placed(items) == {s \in Session : items[s] # None}

ByStart(v, w) == v[1] <= w[1]

\* What there is of S, each in front of those it is before; of two that may
\* come before each other, as two that start together, either is first.
InOrder(S, before(_, _)) ==
  CHOOSE q \in SetToSeqs(S) :
    \A i, j \in DOMAIN q : i < j => before(q[i], q[j])

Sorted(ws) == InOrder(ws, ByStart)

Day == 0 .. Days - 1
DayHours(d) == <<d * DayLength, (d + 1) * DayLength>>
Within(w, range) == <<Max({w[1], range[1]}), Min({w[2], range[2]})>>
Clip(w, d) == Within(w, DayHours(d))

\* slot_windows_by_local_date
Windows(d) == {Clip(w, d) : w \in {v \in slots : Overlap(v, DayHours(d))}}
Available == {d \in Day : Windows(d) # {}}

\* The dates to render: all (None), or one; a date without slots stands for the first.
Rendered(selected) ==
  IF selected = None \/ Available = {} THEN Available
  ELSE {IF selected \in Available THEN selected ELSE Min(Available)}

\* _shared_day_span and _day_range: every day shows the same hours.
DayRange(d, days) ==
  LET edges(i) == UNION {{c[i] - DayHours(e)[1] : c \in Windows(e)} : e \in days}
  IN <<DayHours(d)[1] + Min(edges(1)), DayHours(d)[1] + Max(edges(2))>>

-----------------------------------------------------------------------------
\* Mutant: the sweep goes on from the end of the last slot.
AfterLast(cursor, w) == w[2]

\* Slots may overlap, so the sweep carries the furthest end seen so far.
After(cursor, w) == Max({cursor, w[2]})

Sweep(acc, w) ==
  [gaps |-> IF w[1] > acc.cursor THEN acc.gaps \cup {<<acc.cursor, w[1]>>}
            ELSE acc.gaps,
   cursor |-> After(acc.cursor, w)]

\* _closed_ranges
Closed(d, range) ==
  LET last == FoldLeft(Sweep, [gaps |-> {}, cursor |-> range[1]], Sorted(Windows(d)))
  IN IF last.cursor < range[2] THEN last.gaps \cup {<<last.cursor, range[2]>>}
     ELSE last.gaps

Merge(acc, w) ==
  IF acc # <<>> /\ w[1] <= Last(acc)[2]
  THEN Front(acc) \o <<<<Last(acc)[1], Max({Last(acc)[2], w[2]})>>>>
  ELSE Append(acc, w)

\* _merged_slot_ranges
Merged(ws) == FoldLeft(Merge, <<>>, Sorted(ws))

Before(a, b) == ByStart(a.window, b.window)

Group(acc, a) ==
  IF acc = <<>> \/ a.window[1] >= Last(acc).end
  THEN Append(acc, [of |-> <<a>>, end |-> a.window[2]])
  ELSE Front(acc) \o <<[of |-> Append(Last(acc).of, a),
                        end |-> Max({Last(acc).end, a.window[2]})]>>

\* The items of a space that a page shows some of.
Shown(items, r, range) ==
  {[session |-> s, window |-> items[s].window] :
     s \in {t \in Placed(items) : items[t].space = r /\ Overlap(items[t].window, range)}}

\* _position_sessions: the items of a space on a day in the order of their
\* starts, in groups that end where all before have ended; each has a lane
\* of its own in its group's share of the column.
Cards(items, r, range) ==
  LET groups == FoldLeft(Group, <<>>, InOrder(Shown(items, r, range), Before))
  IN UNION {{[session |-> g.of[i].session, lane |-> i, lanes |-> Len(g.of),
              hours |-> Within(g.of[i].window, range)] :
                i \in 1 .. Len(g.of)} : g \in Range(groups)}

-----------------------------------------------------------------------------
\* What _detect finds: an item as it was read, against those loaded before.
\* The facilitators are those of the items loaded.
Detected(s, item, items) ==
  LET others == {t \in Placed(items) \ {s} : Overlap(item.window, items[t].window)}
      room == Capacity[item.space]
  IN {<<"space", s, t, None>> : t \in {u \in others : items[u].space = item.space}}
     \cup {<<"capacity", s, s, None>> :
             u \in {v \in {s} : room # None /\ room < Limit[s]}}
     \cup UNION {{<<"facilitator", s, t, f>> : f \in (RunBy[s] \cap RunBy[t]) \ Collective} :
                    t \in {u \in others : s \in Placed(items)}}

\* The track's items, or all that were loaded.
Subjects(p) ==
  Placed(p.now) \cap IF p.track = None THEN Session ELSE Track[p.track]

\* Mutant: a clash with a lower pk is left to the other session, always.
ToldOnceLow(s, other, subjects) == other >= s

\* A clash of two subjects is told by the one with the lower pk.
ToldBy(s, other, subjects) == other >= s \/ other \notin subjects

\* _conflicts
Conflicts(p) ==
  UNION {{c \in Detected(s, p.now[s], p.items) : ToldBy(s, c[3], Subjects(p))} :
           s \in Subjects(p)}

\* _violations
Violations(p) ==
  {s \in Subjects(p) :
     /\ Prefers[s] # {}
     /\ \A w \in Range(Merged(Prefers[s])) :
          ~(w[1] <= p.now[s].window[1] /\ w[2] >= p.now[s].window[2])}

\* _card_states: a clash marks both its sessions, and outranks a slot.
State(p, s) ==
  IF \E c \in Conflicts(p) : s \in {c[2], c[3]} THEN "conflict"
  ELSE IF s \in Violations(p) THEN "slot_violation" ELSE "normal"

-----------------------------------------------------------------------------
\* A session is put somewhere, clash or not, or taken off.
Move(s, p) ==
  /\ page.stage # "read" /\ at[s] # p
  /\ page.stage = "loaded" => moves < MaxMoves
  /\ at' = [at EXCEPT ![s] = p]
  /\ moves' = IF page.stage = "loaded" THEN moves + 1 ELSE 0
  /\ UNCHANGED <<slots, page>>

\* build_grid: the event's items.
Load(t) ==
  /\ page.stage = "none"
  /\ page' = [NoPage EXCEPT !.stage = "loaded", !.track = t, !.items = at]
  /\ UNCHANGED <<slots, at, moves>>

\* list_grid_warnings: the track's items, unless the page is of no track.
Warn ==
  /\ page.stage = "loaded"
  /\ page' = [page EXCEPT !.stage = "read",
                          !.now = IF page.track = None THEN page.items ELSE at]
  /\ UNCHANGED <<slots, at, moves>>

\* The next page is another one.
Leave ==
  /\ page.stage = "read"
  /\ page' = NoPage /\ moves' = 0
  /\ UNCHANGED <<slots, at>>

Next ==
  \/ \E s \in Session, p \in Places \cup {None} : Move(s, p)
  \/ \E t \in DOMAIN Track \cup {None} : Load(t)
  \/ Warn
  \/ Leave

Spec == Init /\ [][Next]_vars

-----------------------------------------------------------------------------
\* The clashes there are: what, between whom, and over whom.
Clashes(items) ==
  LET pairs == {x \in Placed(items) \X Placed(items) :
                  x[1] # x[2] /\ Overlap(items[x[1]].window, items[x[2]].window)}
  IN {<<"space", {x[1], x[2]}, None>> :
        x \in {y \in pairs : items[y[1]].space = items[y[2]].space}}
     \cup (UNION {{<<"facilitator", {x[1], x[2]}, f>> :
                     f \in (RunBy[x[1]] \cap RunBy[x[2]]) \ Collective} : x \in pairs})
     \cup {<<"capacity", {s}, None>> :
             s \in {t \in Placed(items) : Capacity[items[t].space] # None
                                          /\ Capacity[items[t].space] < Limit[t]}}

\* "Detection is symmetric, so a clash between two subjects is reported once":
\* a page tells every clash of its track, also with another track's session,
\* once, and none there is not.  Between the two reads a session may move:
\* a clash that stands before and after is told unless both of its sessions
\* did, and one that is told was there before or after.
EveryClashToldOnce ==
  page.stage = "read" =>
    LET told == {<<c[1], {c[2], c[3]}, c[4]>> : c \in Conflicts(page)}
        before == Clashes(page.items)
        after == Clashes(page.now)
        moved == {s \in Session : page.items[s] # page.now[s]}
        steady(c) == Cardinality(c[2] \cap moved) <= 1
    IN /\ Cardinality(told) = Cardinality(Conflicts(page))
       /\ \A c \in before \cap after :
            steady(c) /\ c[2] \cap Subjects(page) # {} => c \in told
       /\ \A c \in told : steady(c) => c \in before \cup after

\* The page shows the day as it is: two sessions of a room that overlap never
\* share a lane, and one that overlaps none has the whole column; an hour is
\* drawn closed when no slot is open then ("slots may overlap, so the sweep
\* carries the furthest end seen so far"); a session is drawn in the hours it
\* has, on every day it touches; and a card is left plain exactly when nothing
\* is wrong with it.
GridTellsTheDay ==
  page.stage = "read" /\ page.items = page.now =>
    /\ \A selected \in Day \cup {None} :
         LET days == Rendered(selected) IN \A d \in days :
           LET range == DayRange(d, days) IN
           /\ Open(Closed(d, range)) = HoursOf(range) \ Open(slots)
           /\ \A r \in Space :
                LET cards == Cards(page.items, r, range)
                    overlap(a, b) == Overlap(page.items[a.session].window,
                                             page.items[b.session].window)
                IN
                /\ \A a, b \in cards : a # b /\ overlap(a, b) =>
                     a.lanes = b.lanes /\ a.lane # b.lane
                /\ \A a \in cards :
                     (\A b \in cards \ {a} : ~overlap(a, b)) => a.lanes = 1
                /\ \A s \in Placed(page.items) : page.items[s].space = r =>
                     Open({c.hours : c \in {e \in cards : e.session = s}})
                       = HoursOf(page.items[s].window) \cap HoursOf(range)
    /\ page.track = None => \A s \in Placed(page.items) :
         State(page, s) = "normal" <=>
           /\ \A c \in Clashes(page.items) : s \notin c[2]
           /\ Prefers[s] = {}
              \/ HoursOf(page.items[s].window) \subseteq Open(Prefers[s])
=============================================================================
