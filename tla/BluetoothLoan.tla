---------------------------- MODULE BluetoothLoan ----------------------------
(***************************************************************************)
(* What MatterServerBLEDelegate promises the hub: it takes Bluetooth       *)
(* sources only while it has a WebSocket to matterjs-server, and gives     *)
(* back whatever it holds once it has none, except those it loses then.    *)
(***************************************************************************)
CONSTANT Link

VARIABLES
  open,     \* there is a WebSocket
  holding,  \* the connections that hold a source
  lost      \* those whose source nobody is going to give back

vars == <<open, holding, lost>>

Init == open = FALSE /\ holding = {} /\ lost = {}

Open ==
  /\ ~open
  /\ open' = TRUE
  /\ UNCHANGED <<holding, lost>>

\* Only the end of the WebSocket, or what follows it, loses a source
Close ==
  /\ open' = FALSE
  /\ \E ks \in SUBSET holding : lost' = lost \cup ks
  /\ UNCHANGED holding

Take(k) ==
  /\ open
  /\ k \notin holding
  /\ holding' = holding \cup {k}
  /\ UNCHANGED <<open, lost>>

GiveBack(k) ==
  /\ k \in holding
  /\ holding' = holding \ {k}
  /\ lost' = lost \ {k}
  /\ UNCHANGED open

Next == Open \/ Close \/ \E k \in Link : Take(k) \/ GiveBack(k)

Spec == Init /\ [][Next]_vars

FairSpec ==
  /\ Spec
  /\ \A k \in Link : WF_vars(~open /\ k \notin lost /\ GiveBack(k))
===============================================================================
