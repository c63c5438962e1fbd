----------------------------- MODULE SeatLedger -----------------------------
(***************************************************************************)
(* What the enrollment of an event promises, seen from outside: a ledger   *)
(* of seats that changes one session at a time, each change a single step. *)
(* There are no requests, locks, offers or waiting lists here, only who    *)
(* has a seat.  Enrollment implements it.                                  *)
(***************************************************************************)
EXTENDS Integers, FiniteSets

CONSTANTS Session, Person, SlotClash

VARIABLES
  roster,    \* the people seated in each session
  guests,    \* the number of guests seated beside them
  ceiling,   \* the seats each session offers now
  slot,      \* its place on the timetable
  moved      \* whether the timetable has ever moved it

ledger == <<roster, guests, ceiling, slot, moved>>

Init ==
  /\ roster = [s \in Session |-> {}]
  /\ guests = [s \in Session |-> 0]
  /\ moved = [s \in Session |-> FALSE]

Newcomers(s) == roster'[s] \ roster[s]

Seats(people, others) == Cardinality(people) + others

\* Nobody is let in past the seats on offer; when a session has been lowered
\* below its occupancy, no more people are let in than leave.
Fits(s) ==
  Newcomers(s) # {} \/ guests'[s] > guests[s]
    => \/ Seats(roster'[s], guests'[s]) <= ceiling'[s]
       \/ Seats(roster'[s], guests'[s]) <= Seats(roster[s], guests[s])

\* Nobody is let in while seated in a session at the same time, unless the
\* timetable has put the two there.
StaysApart(s) ==
  \A t \in Session \ {s} :
    <<slot'[s], slot[t]>> \in SlotClash /\ ~moved'[s] /\ ~moved[t]
      => Newcomers(s) \cap roster[t] = {}

\* A decision about one session: who sits there, how many it offers, when it
\* runs.  The other sessions are left alone.
Decide(s) ==
  /\ \A t \in Session \ {s} :
       /\ roster'[t] = roster[t] /\ guests'[t] = guests[t]
       /\ ceiling'[t] = ceiling[t] /\ slot'[t] = slot[t]
       /\ moved'[t] = moved[t]
  /\ moved'[s] = (moved[s] \/ slot'[s] # slot[s])
  /\ Fits(s)
  /\ StaysApart(s)

Next == \E s \in Session : Decide(s)

Spec == Init /\ [][Next]_ledger
=============================================================================
