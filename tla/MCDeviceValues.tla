---------------------------- MODULE MCDeviceValues ----------------------------
(* The instance of DeviceValues TLC checks: two-bit integers, of which one-bit *)
(* ones are encoded narrower.                                                 *)
EXTENDS DeviceValues

MCTypeMin == -2
MCNarrowMin == -1
===============================================================================
