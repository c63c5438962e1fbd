-------------------------- MODULE MCPromotionWalk --------------------------
\* A small instance of PromotionWalk: an owner may be overdrawn, or have one
\* pass left, or not be limited at all.
EXTENDS PromotionWalk

OverdrawnOrOne == {-1, 1}
=============================================================================
