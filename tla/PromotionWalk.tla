--------------------------- MODULE PromotionWalk ---------------------------
(***************************************************************************)
(* select_promotable_parties, the loop of specs/enrollment.py, step by     *)
(* step over the waiting parties, checked against the rule in Promotion.   *)
(* The variables are the locals of the loop.                               *)
(***************************************************************************)
EXTENDS Promotion, Sequences

CONSTANTS Owner, Key,           \* pass owners and promotion group keys
          MaxWaiting,           \* bound: the length of the waiting list
          MaxSeats, Passes      \* bounds: free seats, and the slot counts

ASSUME WalkAssumption ==
  /\ MaxWaiting \in Nat
  /\ MaxSeats \in Nat
  /\ Passes \subseteq Int

VARIABLES st,        \* the promotion state the loop was given
          row,       \* the waiting row _group_into_parties looks at next
          parties,   \* the group keys still to visit, in order
          seats,     \* seats_remaining
          slots,     \* slots_by_owner
          selected,  \* the people of the parties selected so far
          stopped    \* the loop took its break

vars == <<st, row, parties, seats, slots, selected, stopped>>

\* The states promotion can be given: any grouping, eligibility, payer and
\* allowance.  The waiters are numbered in the order of their rows, and an
\* overdrawn owner has a negative count.
Init ==
  \E n \in 0 .. MaxWaiting, room \in 0 .. MaxSeats, paying \in SUBSET Owner :
  \E E \in SUBSET (1 .. n), S \in SUBSET (1 .. n) :
  \E group \in [1 .. n -> Key], owner \in [1 .. n -> Owner] :
  \E left \in [paying -> Passes] :
    /\ st = [seats |-> room, waiting |-> 1 .. n,
             before |-> {ij \in (1 .. n) \X (1 .. n) : ij[1] < ij[2]},
             eligible |-> E, group |-> group, owner |-> owner,
             slots |-> left, seated |-> S]
    /\ row = 1
    /\ parties = <<>>
    /\ seats = room
    /\ slots = left
    /\ selected = {}
    /\ stopped = FALSE

\* _group_into_parties takes the rows one by one; the keys stand in the order
\* they first appear.
GroupRow ==
  /\ row \in st.waiting
  /\ parties' = IF \E i \in DOMAIN parties : parties[i] = st.group[row]
                THEN parties
                ELSE Append(parties, st.group[row])
  /\ row' = row + 1
  /\ UNCHANGED <<st, seats, slots, selected, stopped>>

Grouped == row \notin st.waiting

Eligible(g) == Party(st, g) \cap st.eligible

\* _slots_needed, over the owners of the movers that have an allowance.
Needed(g, o) ==
  Cardinality({p \in Eligible(g) : st.owner[p] = o /\ p \notin st.seated})

\* _membership_slot_action's shortfall list.
Short(g) ==
  {o \in {st.owner[p] : p \in Eligible(g)} \cap DOMAIN slots :
     Needed(g, o) > slots[o]}

\* Mutant: an owner who has just spent the last pass still holds the line.
BrokeWhenOverdrawn(g) == Short(g) # {} /\ \A o \in Short(g) : slots[o] < 0

Broke(g) == Short(g) # {} /\ \A o \in Short(g) : slots[o] <= 0

Visit(g) == /\ Grouped
            /\ ~stopped
            /\ parties # <<>>
            /\ g = Head(parties)

SkipParty ==
  \E g \in Key :
    /\ Visit(g)
    /\ Eligible(g) = {} \/ Broke(g)
    /\ parties' = Tail(parties)
    /\ UNCHANGED <<st, row, seats, slots, selected, stopped>>

\* Mutant: the walk goes on past a party that does not fit.
PassOver ==
  \E g \in Key :
    /\ Visit(g)
    /\ Eligible(g) # {} /\ ~Broke(g)
    /\ Short(g) # {} \/ Cardinality(Eligible(g)) > seats
    /\ parties' = Tail(parties)
    /\ UNCHANGED <<st, row, seats, slots, selected, stopped>>

StopWalk ==
  \E g \in Key :
    /\ Visit(g)
    /\ Eligible(g) # {} /\ ~Broke(g)
    /\ Short(g) # {} \/ Cardinality(Eligible(g)) > seats
    /\ stopped' = TRUE
    /\ UNCHANGED <<st, row, parties, seats, slots, selected>>

SelectParty ==
  \E g \in Key :
    /\ Visit(g)
    /\ Eligible(g) # {}
    /\ Short(g) = {}
    /\ Cardinality(Eligible(g)) <= seats
    /\ selected' = selected \cup Eligible(g)
    /\ seats' = seats - Cardinality(Eligible(g))
    /\ slots' = [o \in DOMAIN slots |-> slots[o] - Needed(g, o)]
    /\ parties' = Tail(parties)
    /\ UNCHANGED <<st, row, stopped>>

Next == GroupRow \/ SkipParty \/ StopWalk \/ SelectParty

Spec == Init /\ [][Next]_vars

Finished == Grouped /\ (stopped \/ parties = <<>>)

-----------------------------------------------------------------------------

\* When the walk of select_promotable_parties ends, its selection is the one
\* the promotion rule names, and no other selection satisfies the rule.
WalkMeetsRule ==
  Finished => \A sel \in SUBSET st.waiting :
                IsSelection(st, sel) <=> sel = selected

\* No leapfrogging: a party that goes leaves behind it only parties with
\* nobody to seat, or whose owner has run out of passes when the walk ends.
NoLeapfrog ==
  \A p \in selected : \A q \in st.eligible \ selected :
    st.group[q] \in Ahead(st, st.group[p])
      => \E o \in DOMAIN slots :
           /\ slots[o] <= 0
           /\ \E m \in Movers(st, st.group[q]) : st.owner[m] = o
=============================================================================
