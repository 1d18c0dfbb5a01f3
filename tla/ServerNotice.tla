----------------------------- MODULE ServerNotice -----------------------------
(***************************************************************************)
(* What MatterController promises the user of matterjs-server: an outage   *)
(* is told once it has lasted, and not again until it was resolved; it is  *)
(* resolved when the devices are followed again, and not before; a Matter  *)
(* that broke says so; and what is over tells and resolves nothing more,   *)
(* until the next start.                                                   *)
(***************************************************************************)
VARIABLES
  matter,   \* "off", "starting", "following" the devices, or "away" from them
  lasting,  \* the outage is longer than is tolerated
  told,     \* the errors the user was told and that were not resolved
  heard     \* turns whenever the user is told one, or that one is resolved

vars == <<matter, lasting, told, heard>>

Init == matter = "off" /\ lasting = FALSE /\ told = {} /\ heard = FALSE

Begin ==
  /\ matter = "off"
  /\ matter' = "starting"
  /\ lasting' = FALSE
  /\ told' = {}
  /\ UNCHANGED heard

\* Time passes
Last ==
  /\ ~lasting
  /\ lasting' = TRUE
  /\ UNCHANGED <<matter, told, heard>>

\* What was told of an outage is resolved, once, and what else was told is not.
\* Where nothing was told, nothing is resolved.
Follow ==
  /\ matter \in {"starting", "away"}
  /\ matter' = "following"
  /\ told' = told \ {"server-unreachable"}
  /\ heard' = IF "server-unreachable" \in told THEN ~heard ELSE heard
  /\ UNCHANGED lasting

\* It may be the outage there was, or a new one
Lose ==
  /\ matter = "following"
  /\ matter' = "away"
  /\ lasting' \in {lasting, FALSE}
  /\ UNCHANGED <<told, heard>>

\* Not while what was told before is not resolved
Report ==
  /\ matter = "away"
  /\ lasting
  /\ "server-unreachable" \notin told
  /\ told' = told \cup {"server-unreachable"}
  /\ heard' = ~heard
  /\ UNCHANGED <<matter, lasting>>

\* A start that breaks is told by its caller
Break ==
  /\ matter = "away"
  /\ matter' = "off"
  /\ told' = told \cup {"crashed"}
  /\ heard' = ~heard
  /\ UNCHANGED lasting

\* stop(), or a start that did not succeed.  What was told stays told: neither a
\* stop nor a crash resolves it.
End ==
  /\ matter # "off"
  /\ matter' = "off"
  /\ UNCHANGED <<lasting, told, heard>>

Next == Begin \/ Last \/ Follow \/ Lose \/ Report \/ Break \/ End

Spec == Init /\ [][Next]_vars
===============================================================================
