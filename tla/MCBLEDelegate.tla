---------------------------- MODULE MCBLEDelegate ----------------------------
(* Instances of BLEDelegate for TLC. *)
EXTENDS BLEDelegate, TLC

LinkSymmetry == Permutations(Link) \cup Permutations(Source)
=============================================================================
