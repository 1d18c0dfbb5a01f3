--------------------------- MODULE MCMainParameter ---------------------------
(* Instances of MainParameter for TLC. *)
EXTENDS MainParameter

\* Toggles with a fallback and without, a write, a command
TapClusters ==
  {"WindowCovering", "RvcOperationalState", "OperationalState", "FanControl",
   "OnOff"}
=============================================================================
