---------------------------- MODULE MCProgramme ----------------------------
(***************************************************************************)
(* A small programme: two proposals, one room, two hours that can be one   *)
(* session or two.  Either one request works against the panel's handlers  *)
(* and one session's changes are logged, or two accept on a timetable that *)
(* nobody else touches.                                                    *)
(***************************************************************************)
EXTENDS Programme, TLC

MCWindow == {<<9, 10>>, <<9, 11>>, <<10, 11>>}

Alone(w, s) ==
  [asks |-> [v \in Web |->
     IF v = w THEN {"accept", "confirm", "bulk"} \X Session ELSE {}],
   rows |-> [t \in Session |-> IF t = s THEN 3 ELSE 0]]

TwoAccepts ==
  [asks |-> [w \in Web |-> {"accept"} \X Session],
   rows |-> [s \in Session |-> 0]]

MCBounds == {TwoAccepts} \cup {Alone(w, s) : w \in Web, s \in Session}

Symmetry == Permutations(Session) \cup Permutations(Web)
=============================================================================
