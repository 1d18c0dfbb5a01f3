------------------------- MODULE MCMatterController -------------------------
(* Instances of MatterController for TLC. *)
EXTENDS MatterController

Bound(flip, loss, stop, pair, poll, drop, fail) ==
  [flip |-> flip, loss |-> loss, stop |-> stop, pair |-> pair, poll |-> poll,
   drop |-> drop, fail |-> fail]

\* Pairing against recovery; availability; the smallest that show a finding
PairingBudget == Bound(0, 1, 1, 1, 1, 1, 1)
AvailabilityBudget == Bound(2, 1, 0, 1, 0, 0, 1)
FlipBudget == Bound(1, 0, 0, 0, 0, 0, 0)
StopBudget == Bound(0, 0, 1, 1, 0, 0, 0)
PairBudget == Bound(0, 0, 0, 1, 0, 0, 0)
StaleBudget == Bound(1, 1, 0, 1, 0, 0, 0)
=============================================================================
