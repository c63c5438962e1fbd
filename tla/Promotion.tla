----------------------------- MODULE Promotion -----------------------------
(***************************************************************************)
(* Which waiting parties a freed seat goes to: the rule behind             *)
(* specs/enrollment.py, stated without the loop.                           *)
(*                                                                         *)
(* A promotion state st (PromotionStateDTO) is a record:                   *)
(*   seats     the seats free in the session                               *)
(*   waiting   the people on its waiting list                              *)
(*   before    <<p, q>> when p's row was created before q's                *)
(*   eligible  the waiting people with no clash, ban or hosting role       *)
(*   group     the promotion group of each waiting person                  *)
(*   owner     who pays for each waiting person's seat                     *)
(*   slots     the passes left to each owner that has an allowance         *)
(*   seated    the people who hold some seat in the event already          *)
(*                                                                         *)
(* The walk in the code keeps its running totals in local variables.       *)
(* Here a selection sel of people is the outcome of the walk when it is    *)
(* exactly the parties that go, each judged by the seats and passes the    *)
(* parties ahead of it in sel leave.  PromotionWalk checks that the        *)
(* loop computes the only such selection.                                  *)
(***************************************************************************)
EXTENDS Integers, FiniteSets

Groups(st) == {st.group[p] : p \in st.waiting}

Party(st, g) == {p \in st.waiting : st.group[p] = g}

\* Parties queue by their earliest member, eligible or not.
Ahead(st, g) ==
  {h \in Groups(st) :
     \E p \in Party(st, h) : \A q \in Party(st, g) : <<p, q>> \in st.before}

Movers(st, g) == Party(st, g) \cap st.eligible

\* The people of sel whose parties stand ahead of g.
Taken(st, sel, g) == {p \in sel : st.group[p] \in Ahead(st, g)}

\* The people of S whose seat costs owner o a pass: a person already seated
\* somewhere in the event is counted in the allowance and costs nothing.
Charged(st, S, o) == {p \in S \ st.seated : st.owner[p] = o}

SlotsLeft(st, taken, o) == st.slots[o] - Cardinality(Charged(st, taken, o))

\* The owners of g's movers who lack passes for them.  An overdrawn owner
\* falls short even of a party that costs nothing.
Shortfall(st, taken, g) ==
  {o \in DOMAIN st.slots :
     /\ \E p \in Movers(st, g) : st.owner[p] = o
     /\ Cardinality(Charged(st, Movers(st, g), o)) > SlotsLeft(st, taken, o)}

\* A party that cannot be promoted now does not hold the line.
Skipped(st, taken, g) ==
  \/ Movers(st, g) = {}
  \/ /\ Shortfall(st, taken, g) # {}
     /\ \A o \in Shortfall(st, taken, g) : SlotsLeft(st, taken, o) <= 0

Fits(st, taken, g) ==
  /\ Shortfall(st, taken, g) = {}
  /\ Cardinality(Movers(st, g)) <= st.seats - Cardinality(taken)

\* The first party that could go but does not fit ends the walk.
Stops(st, taken, g) == ~Skipped(st, taken, g) /\ ~Fits(st, taken, g)

Goes(st, sel, g) ==
  /\ ~Skipped(st, Taken(st, sel, g), g)
  /\ Fits(st, Taken(st, sel, g), g)
  /\ \A h \in Ahead(st, g) : ~Stops(st, Taken(st, sel, h), h)

IsSelection(st, sel) ==
  sel = UNION {Movers(st, g) : g \in {h \in Groups(st) : Goes(st, sel, h)}}
=============================================================================
