------------------------------- MODULE MCPanel -------------------------------
(***************************************************************************)
(* Small instances of the four parts.                                      *)
(***************************************************************************)
EXTENDS Panel, TLC

CONSTANTS ann, f1, k1, k2, t1, t2, p1, p2, hall, cell, crew, larp

\* One facilitator has an account.
MCProfile == [f \in Facilitator |-> IF f = f1 THEN ann ELSE None]

\* Three responses: two of one title by namesakes with a key each, and one that
\* has the key of the second of them, but no facilitator key.
A == [key |-> k1, title |-> t1, name |-> ann, person |-> p1]
B == [key |-> k2, title |-> t1, name |-> ann, person |-> p2]
C == [key |-> k2, title |-> t2, name |-> ann, person |-> None]

\* Two rows, or one where both have gone.
MCSheets == {<<A, B>>, <<C>>}

\* Nothing but titles mapped, or everything.
MCRecipes ==
  {[keyed |-> b, peopleKeyed |-> b, mapped |-> b] : b \in BOOLEAN}

\* Ann runs two sessions, of which she shares one with a crew that has another.
MCRunBy == <<{ann}, {ann, crew}, {crew}>>
MCLimit == <<1, 2, 1>>
MCCapacity == [r \in Space |-> IF r = cell THEN 1 ELSE None]

\* Slots that touch, one inside another, and with a gap.
MCPrefers == <<{<<0, 1>>, <<1, 3>>}, {<<0, 3>>, <<1, 2>>}, {<<0, 1>>, <<2, 4>>}>>
MCTrack == [t \in {larp} |-> {1, 3}]

\* One slot inside another, or one that crosses midnight.
MCOpenings == {{<<0, 3>>, <<1, 2>>}, {<<1, 2>>, <<2, 4>>}}

\* Windows that overlap in a chain, and one that crosses midnight.
MCPlaces ==
  {[space |-> hall, window |-> w] : w \in {<<0, 3>>, <<1, 2>>, <<2, 4>>}}
  \cup {[space |-> cell, window |-> <<1, 3>>]}

Symmetry == Permutations(Web)
=============================================================================
