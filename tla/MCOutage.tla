------------------------------- MODULE MCOutage -------------------------------
(* The instance of Outage TLC checks: the durations of the code, in seconds.  *)
EXTENDS Outage
===============================================================================
