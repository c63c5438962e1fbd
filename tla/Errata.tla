------------------------------- MODULE Errata -------------------------------
(***************************************************************************)
(* The errata of a published agenda: the rows of the change log since the  *)
(* publication, a move being two rows that are read, starred and ticked    *)
(* off as one.  A mark first checks that it names whole errata, reading    *)
(* only the rows it names and their partners, and is written later; the    *)
(* publication may be set to another time in between.                      *)
(***************************************************************************)
EXTENDS Naturals, Sequences, FiniteSets

CONSTANTS
  Web,         \* marks between their check and their write
  Mark,        \* "important", "acknowledged": columns of their own
  MaxLog       \* bound: rows of the log

ErrataAssumption == MaxLog \in Nat

NotYet == 0
Idle == [op |-> "idle"]

VARIABLES
  log,         \* each row: the row its move left (0 for none), and its marks
  since,       \* the first row made after the publication, or NotYet
  marking,     \* each request: the rows it has checked, and the mark
  split        \* ghost: the moves the publication has ever fallen between

vars == <<log, since, marking, split>>

Init ==
  /\ log = <<>>
  /\ since = NotYet
  /\ marking = [w \in Web |-> Idle]
  /\ split = {}

-----------------------------------------------------------------------------
Rows == 1 .. Len(log)

\* list_since
Since == IF since = NotYet THEN {} ELSE {i \in Rows : i >= since}

\* _read_moves over some rows: a row that was left is read with the row it
\* landed on, never on its own.
LeftBehind(rows) == {log[i].from : i \in rows}

Errata(rows) ==
  {{i} \cup ({log[i].from} \cap rows) : i \in rows \ LeftBehind(rows)}

\* Mutant: only the row that was left is looked for, not the one landed on.
NamedOnly(named) == {i \in Since : i \in named \/ log[i].from \in named}

\* list_erratum_rows: the named rows, those that landed from them, and those
\* they left.
NamedRows(named) ==
  LET near == {i \in Since : i \in named \/ log[i].from \in named} IN
  near \cup (LeftBehind(near) \cap Since)

\* _check_whole_errata: nothing but a union of whole errata.
WholeErrata(named) ==
  /\ named # {}
  /\ named = UNION {e \in Errata(NamedRows(named)) : e \subseteq named}

-----------------------------------------------------------------------------
Row(from) == [from |-> from, marks |-> {}]

\* An assignment, a removal or an undo is one row ...
Change ==
  /\ Len(log) < MaxLog
  /\ log' = Append(log, Row(0))
  /\ UNCHANGED <<since, marking, split>>

\* ... and a move two, written together.
Move ==
  /\ Len(log) + 1 < MaxLog
  /\ log' = Append(Append(log, Row(0)), Row(Len(log) + 1))
  /\ UNCHANGED <<since, marking, split>>

\* The publication is set, to any time, or withdrawn.
Publish(k) ==
  /\ since' = k
  /\ split' = split \cup {i \in Rows : log[i].from # 0 /\ k \in log[i].from + 1 .. i}
  /\ UNCHANGED <<log, marking>>

\* set_important, set_acknowledged: the check ...
Check(w, named, mark, on) ==
  /\ marking[w] = Idle /\ WholeErrata(named)
  /\ marking' = [marking EXCEPT ![w] =
       [op |-> "mark", rows |-> named, mark |-> mark, on |-> on]]
  /\ UNCHANGED <<log, since, split>>

\* ... and the update of the named rows.
Write(w) ==
  LET m == marking[w] IN
  /\ m # Idle
  /\ log' = [i \in Rows |-> IF i \notin m.rows THEN log[i]
       ELSE [log[i] EXCEPT !.marks = IF m.on THEN @ \cup {m.mark} ELSE @ \ {m.mark}]]
  /\ marking' = [marking EXCEPT ![w] = Idle]
  /\ UNCHANGED <<since, split>>

Next ==
  \/ Change \/ Move
  \/ \E k \in NotYet .. Len(log) + 1 : Publish(k)
  \/ \E w \in Web : Write(w) \/ \E named \in SUBSET Rows, mark \in Mark, on \in BOOLEAN :
       Check(w, named, mark, on)

Spec == Init /\ [][Next]_vars

-----------------------------------------------------------------------------
\* "Half a move announces a cancellation that never happened": the two rows of
\* a move carry the same marks, however marks cross each other and changes of
\* the publication, unless the publication once fell between the two.
MoveMarkedWhole ==
  \A i \in Rows \ split :
    log[i].from # 0 => log[i].marks = log[log[i].from].marks
=============================================================================
