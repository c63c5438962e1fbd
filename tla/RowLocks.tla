------------------------------ MODULE RowLocks ------------------------------
(***************************************************************************)
(* The order in which transactions take row locks, one row at a time: the  *)
(* seat decisions, with a refill inside the request's transaction, the     *)
(* timetable, the edits of companions, and the confirmation of a schedule. *)
(*                                                                         *)
(* A statement names its rows when it starts and then takes them one by    *)
(* one, in the order of their pk when it says so and in any order          *)
(* otherwise; a row somebody else holds is waited for.  All are released   *)
(* at the end.  What the transactions decide is not here (Enrollment).     *)
(***************************************************************************)
EXTENDS Naturals, Sequences, FiniteSets, SequencesExt

CONSTANTS
  Session,     \* sessions that share a facilitator
  User,        \* their pks
  Owner,       \* who pays for each user: the manager of a companion
  Household,   \* the sets of users one batch may name
  Txn          \* transactions

RowLocksAssumption ==
  /\ User \subseteq Nat
  /\ IsFiniteSet(User) /\ IsFiniteSet(Session) /\ IsFiniteSet(Txn)
  /\ Owner \in [User -> User] /\ Household \subseteq SUBSET User

\* A lock is on a row of a table; a seat is a participation of a user.
SessionRow(s) == <<"session", s>>
UserRow(u) == <<"user", u>>
ItemRow(s) == <<"item", s>>
SpaceRow == <<"space", 0>>
SeatRow(s, u) == <<"seat", s, u>>

NotBegun == [op |-> "not begun"]

VARIABLES
  waits,       \* the users on each session's waiting list
  txn,         \* what each transaction does: its operation and arguments
  step,        \* how many of its statements it has begun
  todo,        \* the rows its statement has still to take, in order
  held         \* the rows it holds

vars == <<waits, txn, step, todo, held>>

Init ==
  /\ waits = [s \in Session |-> {}]
  /\ txn = [t \in Txn |-> NotBegun]
  /\ step = [t \in Txn |-> 0]
  /\ todo = [t \in Txn |-> <<>>]
  /\ held = [t \in Txn |-> {}]

-----------------------------------------------------------------------------
\* ORDER BY pk
ByPk(rows) == {q \in SetToSeqs(rows) :
                 \A i, j \in 1 .. Len(q) : i < j => q[i][2] < q[j][2]}

One(row) == {<<row>>}

\* Mutant: in the order the database comes upon them.
HoldersUnordered(people) ==
  SetToSeqs({UserRow(u) : u \in people \cup {Owner[u] : u \in people}})

\* lock_seat_holders: the people, who pays for them, and whoever else.
Holders(people) == ByPk({UserRow(u) : u \in people \cup {Owner[u] : u \in people}})

\* The waiters as the transaction sees them: its own writes with the others'.
Waiters(x) == (waits[x.s] \ x.people) \cup x.joins

\* The people a seat decision locks: the waiters too if it may refill.
Decides(x) == x.people \cup (IF x.frees THEN waits[x.s] ELSE {})

\* CompanionRepository.delete
PersonThenRows(u) ==
  <<One(UserRow(u)), SetToSeqs({SeatRow(s, u) : s \in Session})>>

\* Each statement of an operation: the orders it may take its rows in.
Refill(x) == <<One(SessionRow(x.s)), Holders(Waiters(x)),
               SetToSeqs({SeatRow(x.s, u) : u \in Waiters(x)})>>

Statements(x) ==
  CASE x.op = "seats" ->      \* enroll, cancel, claim, decline, expire
         <<One(SessionRow(x.s)), Holders(Decides(x)),
           SetToSeqs({SeatRow(x.s, u) : u \in x.people})>>
           \o (IF x.frees THEN Refill(x) ELSE <<>>)
    [] x.op = "fill" ->       \* a worker's refill, a changed limit
         Refill(x)
    [] x.op = "move" ->       \* assign_session and the refill after it
         <<One(SessionRow(x.s)), One(SpaceRow), One(ItemRow(x.s))>> \o Refill(x)
    [] x.op = "invite" ->     \* lock_owned_companions
         <<ByPk({UserRow(u) : u \in x.people})>>
    [] x.op = "remove" ->     \* one companion, with their seats
         PersonThenRows(x.u)
    [] x.op = "confirm" ->    \* set_session_confirmed
         <<One(SessionRow(x.s)), One(ItemRow(x.s))>>
    [] x.op = "bulk" ->       \* set_schedule_confirmed_for_facilitator
         <<SetToSeqs({ItemRow(s) : s \in Session}),
           SetToSeqs({SessionRow(s) : s \in Session})>>

-----------------------------------------------------------------------------
Managed == {v \in User : Owner[v] # v}

Companions(u) == {v \in Managed : Owner[v] = u}

Operations ==
  {[op |-> "seats", s |-> s, people |-> h, joins |-> j, frees |-> f] :
     s \in Session, h \in Household, j \in {{}} \cup Household, f \in BOOLEAN}
  \cup {[op |-> o, s |-> s, people |-> {}, joins |-> {}] :
          o \in {"fill", "move", "confirm"}, s \in Session}
  \cup {[op |-> "invite", people |-> Companions(u)] : u \in {Owner[v] : v \in Managed}}
  \cup {[op |-> "remove", u |-> u] : u \in Managed}
  \cup {[op |-> "bulk"]}

Begin(t, x) ==
  /\ txn[t] = NotBegun
  /\ x.op = "seats" => x.joins \subseteq x.people
  /\ txn' = [txn EXCEPT ![t] = x]
  /\ UNCHANGED <<waits, step, todo, held>>

\* The next statement names its rows and chooses their order.
Execute(t) ==
  /\ txn[t] # NotBegun /\ todo[t] = <<>>
  /\ step[t] < Len(Statements(txn[t]))
  /\ step' = [step EXCEPT ![t] = @ + 1]
  /\ \E q \in Statements(txn[t])[step'[t]] : todo' = [todo EXCEPT ![t] = q]
  /\ UNCHANGED <<waits, txn, held>>

Free(row, t) == \A v \in Txn \ {t} : row \notin held[v]

Take(t) ==
  /\ todo[t] # <<>> /\ Free(Head(todo[t]), t)
  /\ held' = [held EXCEPT ![t] = @ \cup {Head(todo[t])}]
  /\ todo' = [todo EXCEPT ![t] = Tail(@)]
  /\ UNCHANGED <<waits, txn, step>>

Ends(t) ==
  /\ txn' = [txn EXCEPT ![t] = NotBegun]
  /\ step' = [step EXCEPT ![t] = 0]
  /\ todo' = [todo EXCEPT ![t] = <<>>]
  /\ held' = [held EXCEPT ![t] = {}]

\* The commit: who waits now is seen by the others.
Commit(t) ==
  LET it == txn[t] IN
  /\ it # NotBegun /\ todo[t] = <<>> /\ step[t] = Len(Statements(it))
  /\ waits' =
       CASE it.op = "seats" -> [waits EXCEPT ![it.s] = Waiters(it)]
         [] it.op = "remove" -> [s \in Session |-> waits[s] \ {it.u}]
         [] OTHER -> waits
  /\ Ends(t)

\* Waiting for a row the other holds.
WaitsFor(t, v) == t # v /\ todo[t] # <<>> /\ Head(todo[t]) \in held[v]

Stuck(S) == S # {} /\ \A t \in S : \E v \in S : WaitsFor(t, v)

\* Postgres finds the cycle and rolls one of them back.
Abort(t) ==
  /\ \E S \in SUBSET Txn : t \in S /\ Stuck(S)
  /\ Ends(t)
  /\ UNCHANGED waits

Next ==
  \E t \in Txn :
    \/ \E x \in Operations : Begin(t, x)
    \/ Execute(t) \/ Take(t) \/ Commit(t) \/ Abort(t)

Spec == Init /\ [][Next]_vars

-----------------------------------------------------------------------------
\* "The order cannot deadlock": a cycle of waits always runs through a
\* facilitator's confirmation, which takes agenda items before sessions.
SeatsNeverDeadlock ==
  \A S \in SUBSET {t \in Txn : txn[t] # NotBegun /\ txn[t].op # "bulk"} : ~Stuck(S)
=============================================================================
