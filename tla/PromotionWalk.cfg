SPECIFICATION Spec
CONSTANTS
  Owner = {o1, o2}
  Key = {k1, k2, k3}
  MaxWaiting = 3
  MaxSeats = 2
  Passes <- OverdrawnOrOne
INVARIANTS
  WalkMeetsRule
  NoLeapfrog
CHECK_DEADLOCK FALSE
