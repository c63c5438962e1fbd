---------------------------- MODULE MCEnrollment ----------------------------
(***************************************************************************)
(* Small instances of Enrollment for TLC.                                  *)
(***************************************************************************)
EXTENDS Enrollment, TLC

CONSTANTS ann, kid, bob, cay,   \* people; kid is ann's companion
          s1, s2,               \* sessions
          early, late           \* slots

OwnerIs(p) == IF p = kid THEN ann ELSE p
MCOwner == [p \in Person |-> OwnerIs(p)]
MCRank == [p \in Person |-> CASE p = ann -> 1 [] p = kid -> 2 [] p = bob -> 3
                              [] OTHER -> 4]

NoPasses == <<>>
NobodyBarred == [s \in Session |-> {}]
AutoMode == [s \in Session |-> "AUTO"]
OfferMode == [s \in Session |-> "OFFER_CLAIM"]
NoMembers == <<>>
AnnHasPasses == [p \in {ann} |-> 1]
BobLeads == [l \in {bob} |-> Person \ {bob, kid}]

SameSlotClash == {<<t, t>> : t \in Slot}

OneSeatEach == {[s \in Session |-> 1]}
TwoSeatsEach == {[s \in Session |-> 2]}
AllEarly == {[s \in Session |-> early]}
OneEach == {[s \in Session |-> IF s = s1 THEN early ELSE late]}
AllFar == {[s \in Session |-> "far"]}
NoEdits == [k \in EditKind |-> 0]
OneMoveAndBack ==
  [k \in EditKind |-> IF k \in {"move", "revert"} THEN 1 ELSE 0]
OneLimitEdit == [k \in EditKind |-> IF k = "limit" THEN 1 ELSE 0]

Interchangeable == Permutations(Token) \cup Permutations(Web)
=============================================================================
