----------------------------- MODULE MCRequests -----------------------------
(***************************************************************************)
(* Small instances of the five parts.                                      *)
(***************************************************************************)
EXTENDS Requests, TLC

CONSTANTS ann, kid, bob, x, y

\* Ann's provider may say a verified address, and another it has not verified,
\* which is the one Bob's vouches for.  Only Ann changes her address.
MCClaims ==
  [u \in Account |-> IF u = ann THEN {<<x, TRUE>>, <<y, FALSE>>} ELSE {<<y, TRUE>>}]

MCWrites == [u \in Account |-> IF u = ann THEN 2 ELSE 0]

\* Users 1 and 3 are companions of 2, whose row lies between theirs.
MCOwner == <<2, 2, 2>>

\* Ann manages a companion, and Bob leads the party.
MCManager == [c \in Companion |-> ann]

\* Windows inside one another, that overlap, touch, or leave a gap.
MCWindow == {<<0, 1>>, <<0, 2>>, <<0, 3>>, <<1, 3>>, <<2, 3>>}

\* An event of an hour, which an organizer may move past its publication.
MCDates == [publication |-> 0, start |-> 1, end |-> 2]
MCEdits == {[publication |-> 1, start |-> 1, end |-> 3]}

\* A slot that overlaps the event's hour and goes beyond it.
MCImported == {<<1, 3>>}

Symmetry == Permutations(Txn) \cup Permutations(Web) \cup Permutations(Session)
=============================================================================
