------------------------------ MODULE MCNetworks ------------------------------
(* The instance of Networks TLC checks.                                       *)
EXTENDS Networks
===============================================================================
