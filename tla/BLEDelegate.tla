----------------------------- MODULE BLEDelegate -----------------------------
(***************************************************************************)
(* majordom_matter.ble_delegate.MatterServerBLEDelegate: it lends the      *)
(* hub's Bluetooth sources to matterjs-server, one for each connection to  *)
(* a peripheral, and takes them back when the connection, or matterjs-     *)
(* server, is gone.                                                        *)
(*                                                                         *)
(* An action is the code between two awaits.  A task that was cancelled    *)
(* before it began never runs; one cancelled in an await goes through its  *)
(* finally blocks.  A lease is given back where its aclose begins.         *)
(*                                                                         *)
(* Left out: the delay between two attempts, the adverts, and what a GATT  *)
(* command or a notification carries.                                      *)
(***************************************************************************)
EXTENDS Naturals

CONSTANTS
  Link,         \* connections that may exist together; a free one is reused
  NoLink,       \* nothing under a handle
  Source,       \* the Bluetooth sources that hear the peripherals
  NoSource,     \* no lease
  MaxHandle     \* 0xFFFF: the handles are 1..MaxHandle

ASSUME LinkAssumption ==
  /\ NoLink \notin Link
  /\ NoSource \notin Source
  /\ MaxHandle \in Nat \ {0}

Handle == 1 .. MaxHandle

\* run(): outside of "serving" and "forwarding" it does not serve matterjs-server
RunPc == {"connecting", "hello", "serving", "forwarding", "leaving",
          "releasing", "backoff", "ended"}
Serving == {"serving", "forwarding"}

\* _connect: waiting for a lease, for the connection, made, closing its stack
TaskPc == {"none", "leasing", "connecting", "made", "unwinding"}

\* Spawned tasks that did not begin: lease.aclose(), _close(), _close() of
\* _release's gather
Closer == {"aclose", "close", "release"}

VARIABLES
  run,          \* where run() is
  cancelled,    \* stop() cancelled it
  forwarded,    \* the connection _forward writes a segment to
  peripherals,  \* _peripherals
  last,         \* _last_handle
  task,         \* the connect command of each connection
  handle,       \* its connection handle
  link,         \* whether the peripheral is connected
  lease,        \* the source leased for it
  writable,     \* the connections with a write_handle
  spawned,      \* <<connection, closer>> of the tasks that did not begin
  closing,      \* the connections a _close waits on the disconnect of
  releasing,    \* those _release waits for
  scanning,     \* _stop_scanning is set
  stranded,     \* history: the closer of a lease was cancelled before it began
  broken        \* history: a segment was not written

commands == <<last, task, handle, link, lease, writable>>
closers == <<spawned, closing, releasing>>
history == <<stranded, broken>>
vars == <<run, cancelled, forwarded, peripherals, last, task, handle, link,
          lease, writable, spawned, closing, releasing, scanning, stranded,
          broken>>

Recorded(k) == \E h \in Handle : peripherals[h] = k

\* Nothing is left of the connection that was k
Free(k) ==
  /\ task[k] = "none" /\ lease[k] = NoSource /\ link[k] = "down"
  /\ ~Recorded(k) /\ forwarded # k /\ k \notin closing
  /\ \A c \in Closer : <<k, c>> \notin spawned

Init ==
  /\ run = "connecting" /\ cancelled = FALSE
  /\ forwarded = NoLink
  /\ peripherals = [h \in Handle |-> NoLink]
  /\ last = 0
  /\ task = [k \in Link |-> "none"]
  /\ handle = [k \in Link |-> 1]
  /\ link = [k \in Link |-> "down"]
  /\ lease = [k \in Link |-> NoSource]
  /\ writable = {}
  /\ spawned = {} /\ closing = {} /\ releasing = {}
  /\ scanning = FALSE
  /\ stranded = {} /\ broken = {}

-------------------------------------------------------------------------------
\* run, _serve, _release

\* matterjs-server took the WebSocket; it accepted the hello
Opened ==
  /\ \/ run = "connecting" /\ run' = "hello"
     \/ run = "hello" /\ run' = "serving"
  /\ UNCHANGED <<cancelled, forwarded, peripherals, commands, closers, scanning,
                 history>>

\* The connections whose lease is nobody's any more once the closers in dropped
\* are cancelled before they began
Stranded(dropped) ==
  {k \in Link : /\ lease[k] # NoSource
                /\ k \notin closing /\ ~Recorded(k)
                /\ \E c \in Closer : <<k, c>> \in dropped}

\* Mutant: the connections are forgotten without being closed
ReleaseForgets ==
  /\ run \in {"connecting", "hello", "serving", "leaving"}
  /\ run' = "releasing"
  /\ task' = [k \in Link |-> IF task[k] \in {"connecting", "made"}
                               THEN "unwinding"
                             ELSE IF task[k] = "leasing" THEN "none"
                             ELSE task[k]]
  /\ stranded' = stranded \cup Stranded(spawned)
  /\ peripherals' = [h \in Handle |-> NoLink]
  /\ spawned' = {}
  /\ UNCHANGED <<cancelled, forwarded, last, handle, link, lease, writable,
                 closing, releasing, scanning, broken>>

\* Mutant: the commands go on
ReleaseKeepsCommands ==
  /\ run \in {"connecting", "hello", "serving", "leaving"}
  /\ run' = "releasing"
  /\ stranded' = stranded \cup Stranded(spawned)
  /\ scanning' = FALSE
  /\ releasing' = {k \in Link : Recorded(k)}
  /\ spawned' = {<<k, "release">> : k \in releasing'}
  /\ peripherals' = [h \in Handle |-> NoLink]
  /\ UNCHANGED <<cancelled, forwarded, last, task, handle, link, lease,
                 writable, closing, broken>>

\* matterjs-server refused, failed or closed the WebSocket, or run() was
\* cancelled and has closed it: every task is cancelled, the scan stops, and a
\* _close of each connection is about to begin
Release ==
  /\ run \in {"connecting", "hello", "serving", "leaving"}
  /\ run' = "releasing"
  /\ task' = [k \in Link |-> IF task[k] \in {"connecting", "made"}
                               THEN "unwinding"
                             ELSE IF task[k] = "leasing" THEN "none"
                             ELSE task[k]]
  /\ stranded' = stranded \cup Stranded(spawned)
  /\ scanning' = FALSE
  /\ releasing' = {k \in Link : Recorded(k)}
  /\ spawned' = {<<k, "release">> : k \in releasing'}
  /\ peripherals' = [h \in Handle |-> NoLink]
  /\ UNCHANGED <<cancelled, forwarded, last, handle, link, lease, writable,
                 closing, broken>>

\* Every _close of the gather ended
ReleaseDone ==
  /\ run = "releasing"
  /\ releasing = {}
  /\ run' = IF cancelled THEN "ended" ELSE "backoff"
  /\ UNCHANGED <<cancelled, forwarded, peripherals, commands, closers, scanning,
                 history>>

\* The delay is over
Retry ==
  /\ run = "backoff"
  /\ run' = "connecting"
  /\ UNCHANGED <<cancelled, forwarded, peripherals, commands, closers, scanning,
                 history>>

\* stop() of the controller cancels run(): a WebSocket is closed first, with the
\* commands going on; a _release under way passes the cancel on to its gather;
\* without either there is nothing to release
Cancel ==
  /\ ~cancelled
  /\ cancelled' = TRUE
  /\ forwarded' = NoLink
  /\ LET dropped == {t \in spawned : t[2] = "release"} IN
       \/ /\ run \in {"hello", "serving", "forwarding"}
          /\ run' = "leaving"
          /\ UNCHANGED <<closers, stranded>>
       \/ /\ run = "releasing"
          /\ spawned' = spawned \ dropped
          /\ releasing' = releasing \ {t[1] : t \in dropped}
          /\ stranded' = stranded \cup Stranded(dropped)
          /\ UNCHANGED <<run, closing>>
       \/ /\ run \in {"backoff", "connecting"}
          /\ run' = "ended"
          /\ UNCHANGED <<closers, stranded>>
  /\ UNCHANGED <<peripherals, commands, scanning, broken>>

-------------------------------------------------------------------------------
\* Commands: a task each, which begins while matterjs-server is served

\* start_scan and stop_scan
Scan ==
  /\ run \in Serving
  /\ scanning' = ~scanning
  /\ UNCHANGED <<run, cancelled, forwarded, peripherals, commands, closers,
                 history>>

\* Mutant: the handles do not wrap
ConnectNoWrap(k) ==
  /\ run \in Serving
  /\ Free(k)
  /\ \A j \in Link : Free(j) \/ handle[j] # (last % MaxHandle) + 1
  /\ last' = last + 1
  /\ handle' = [handle EXCEPT ![k] = last']
  /\ task' = [task EXCEPT ![k] = "leasing"]
  /\ writable' = writable \ {k}
  /\ broken' = broken \ {k}
  /\ UNCHANGED <<run, cancelled, forwarded, peripherals, link, lease, closers,
                 scanning, stranded>>

\* connect: the handle is taken at once, then a source is asked for.  A bound:
\* no connection outlives MaxHandle - 1 later connects, so no handle is in use.
Connect(k) ==
  /\ run \in Serving
  /\ Free(k)
  /\ \A j \in Link : Free(j) \/ handle[j] # (last % MaxHandle) + 1
  /\ last' = (last % MaxHandle) + 1
  /\ handle' = [handle EXCEPT ![k] = last']
  /\ task' = [task EXCEPT ![k] = "leasing"]
  /\ writable' = writable \ {k}
  /\ broken' = broken \ {k}
  /\ UNCHANGED <<run, cancelled, forwarded, peripherals, link, lease, closers,
                 scanning, stranded>>

\* The router leases a source, or none is free in time
Lease(k) ==
  /\ task[k] = "leasing"
  /\ \/ /\ \E s \in Source :
             /\ \A j \in Link : lease[j] # s
             /\ lease' = [lease EXCEPT ![k] = s]
        /\ task' = [task EXCEPT ![k] = "connecting"]
     \/ /\ task' = [task EXCEPT ![k] = "none"]
        /\ UNCHANGED lease
  /\ UNCHANGED <<run, cancelled, forwarded, peripherals, last, handle, link,
                 writable, closers, scanning, history>>

\* The source connected to the peripheral; the command does not know yet
Connected(k) ==
  /\ task[k] = "connecting"
  /\ task' = [task EXCEPT ![k] = "made"]
  /\ link' = [link EXCEPT ![k] = "up"]
  /\ UNCHANGED <<run, cancelled, forwarded, peripherals, last, handle, lease,
                 writable, closers, scanning, history>>

\* The connection is recorded, and answered
Record(k) ==
  /\ task[k] = "made"
  /\ peripherals' = [peripherals EXCEPT ![handle[k]] = k]
  /\ task' = [task EXCEPT ![k] = "none"]
  /\ UNCHANGED <<run, cancelled, forwarded, last, handle, link, lease, writable,
                 closers, scanning, history>>

\* The source fails to connect, or the timeout passes first
ConnectFails(k) ==
  /\ task[k] \in {"connecting", "made"}
  /\ task' = [task EXCEPT ![k] = "unwinding"]
  /\ UNCHANGED <<run, cancelled, forwarded, peripherals, last, handle, link,
                 lease, writable, closers, scanning, history>>

\* ... and the stack of the command gives the lease back; what connect did not
\* return, its source ends
Unwind(k) ==
  /\ task[k] = "unwinding"
  /\ task' = [task EXCEPT ![k] = "none"]
  /\ lease' = [lease EXCEPT ![k] = NoSource]
  /\ link' = [link EXCEPT ![k] = "down"]
  /\ UNCHANGED <<run, cancelled, forwarded, peripherals, last, handle, writable,
                 closers, scanning, history>>

\* Mutant: the handle is forgotten once the connection is closed
DisconnectKeeps(k) ==
  /\ run \in Serving
  /\ Recorded(k)
  /\ closing' = closing \cup {k}
  /\ UNCHANGED <<run, cancelled, forwarded, peripherals, commands, spawned,
                 releasing, scanning, history>>

\* disconnect
Disconnect(k) ==
  /\ run \in Serving
  /\ Recorded(k)
  /\ peripherals' = [h \in Handle |-> IF h = handle[k] THEN NoLink
                                      ELSE peripherals[h]]
  /\ closing' = closing \cup {k}
  /\ UNCHANGED <<run, cancelled, forwarded, commands, spawned, releasing,
                 scanning, history>>

\* write_characteristic (write_and_subscribe too): its characteristic is where
\* the segments go
WriteCharacteristic(k) ==
  /\ run \in Serving
  /\ Recorded(k)
  /\ writable' = writable \cup {k}
  /\ UNCHANGED <<run, cancelled, forwarded, peripherals, last, task, handle,
                 link, lease, closers, scanning, history>>

-------------------------------------------------------------------------------
\* Segments and lost links

\* _lost: the connection under the handle is forgotten and the closing of its
\* lease spawned, with the closers in also
Lost(h, also) ==
  /\ peripherals' = [peripherals EXCEPT ![h] = NoLink]
  /\ spawned' = spawned \cup also \cup
                  {<<k, "aclose">> : k \in {j \in Link : peripherals[h] = j}}

\* The link drops, and the source says so, whoever knows of it
LinkLost(k) ==
  /\ link[k] = "up"
  /\ link' = [link EXCEPT ![k] = "down"]
  /\ Lost(handle[k], {})
  /\ UNCHANGED <<run, cancelled, forwarded, last, task, handle, lease, writable,
                 closing, releasing, scanning, history>>

\* A segment of matterjs-server is read; nothing more is until it is written
Forward(k) ==
  /\ run = "serving"
  /\ Recorded(k)
  /\ k \in writable
  /\ run' = "forwarding"
  /\ forwarded' = k
  /\ UNCHANGED <<cancelled, peripherals, commands, closers, scanning, history>>

Forwarded ==
  /\ run = "forwarding"
  /\ link[forwarded] = "up"
  /\ run' = "serving"
  /\ forwarded' = NoLink
  /\ UNCHANGED <<cancelled, peripherals, commands, closers, scanning, history>>

\* Mutant: the connection is closed but stays recorded until it is
ForwardFailsRecorded ==
  /\ run = "forwarding"
  /\ run' = "serving"
  /\ forwarded' = NoLink
  /\ spawned' = spawned \cup {<<forwarded, "close">>}
  /\ broken' = broken \cup {forwarded}
  /\ UNCHANGED <<cancelled, peripherals, commands, closing, releasing, scanning,
                 stranded>>

\* It could not be written: the connection is lost, and closed
ForwardFails ==
  /\ run = "forwarding"
  /\ run' = "serving"
  /\ forwarded' = NoLink
  /\ Lost(handle[forwarded], {<<forwarded, "close">>})
  /\ broken' = broken \cup {forwarded}
  /\ UNCHANGED <<cancelled, commands, closing, releasing, scanning, stranded>>

-------------------------------------------------------------------------------
\* The closers

\* A spawned lease.aclose() runs
LeaseCloses(k) ==
  /\ <<k, "aclose">> \in spawned
  /\ spawned' = spawned \ {<<k, "aclose">>}
  /\ lease' = [lease EXCEPT ![k] = NoSource]
  /\ UNCHANGED <<run, cancelled, forwarded, peripherals, last, task, handle,
                 link, writable, closing, releasing, scanning, history>>

\* A _close begins: it asks for the disconnect
CloseBegins(k) ==
  /\ \E c \in {"close", "release"} :
       /\ <<k, c>> \in spawned
       /\ spawned' = spawned \ {<<k, c>>}
  /\ closing' = closing \cup {k}
  /\ UNCHANGED <<run, cancelled, forwarded, peripherals, commands, releasing,
                 scanning, history>>

\* Mutant: the lease is given back once the source said the link is gone
CloseAwaitsLoss(k) ==
  /\ k \in closing
  /\ link[k] = "down"
  /\ closing' = closing \ {k}
  /\ releasing' = releasing \ {k}
  /\ lease' = [lease EXCEPT ![k] = NoSource]
  /\ UNCHANGED <<run, cancelled, forwarded, peripherals, last, task, handle,
                 link, writable, spawned, scanning, history>>

\* The disconnect returned, failed or was cancelled: the lease is given back
CloseEnds(k) ==
  /\ k \in closing
  /\ closing' = closing \ {k}
  /\ releasing' = releasing \ {k}
  /\ lease' = [lease EXCEPT ![k] = NoSource]
  /\ link' = [link EXCEPT ![k] = "down"]
  /\ UNCHANGED <<run, cancelled, forwarded, peripherals, last, task, handle,
                 writable, spawned, scanning, history>>

\* The lease of a closer that never began is unreferenced: its finalizer may
\* close it, if the router's leases have one
Finalized(k) ==
  /\ k \in stranded
  /\ stranded' = stranded \ {k}
  /\ lease' = [lease EXCEPT ![k] = NoSource]
  /\ UNCHANGED <<run, cancelled, forwarded, peripherals, last, task, handle,
                 link, writable, closers, scanning, broken>>

-------------------------------------------------------------------------------
Command(k) ==
  \/ Connect(k) \/ Lease(k) \/ Connected(k) \/ Record(k) \/ ConnectFails(k)
  \/ Unwind(k) \/ Disconnect(k) \/ WriteCharacteristic(k)

Next ==
  \/ Opened \/ Release \/ ReleaseDone \/ Retry \/ Cancel \/ Scan
  \/ Forwarded \/ ForwardFails
  \/ \E k \in Link :
       \/ Command(k) \/ LinkLost(k) \/ Forward(k)
       \/ LeaseCloses(k) \/ CloseBegins(k) \/ CloseEnds(k)
       \/ Finalized(k)

Spec == Init /\ [][Next]_vars

\* Disconnects return (or are cancelled), stacks unwind, tasks begin, and the
\* WebSocket closes: matterjs-server, the peripherals and stop() owe nothing
Fairness ==
  /\ WF_vars(run = "leaving" /\ Release)
  /\ WF_vars(ReleaseDone)
  /\ \A k \in Link :
       /\ WF_vars(Unwind(k))
       /\ WF_vars(LeaseCloses(k))
       /\ WF_vars(CloseBegins(k))
       /\ WF_vars(CloseEnds(k))

FairSpec == Spec /\ Fairness

-------------------------------------------------------------------------------
(* Properties *)

\* The values of the variables (_peripherals, _last_handle, _tasks).
TypeOK ==
  /\ run \in RunPc
  /\ cancelled \in BOOLEAN
  /\ forwarded \in Link \cup {NoLink}
  /\ peripherals \in [Handle -> Link \cup {NoLink}]
  /\ last \in 0 .. MaxHandle
  /\ task \in [Link -> TaskPc]
  /\ handle \in [Link -> Handle]
  /\ link \in [Link -> {"up", "down"}]
  /\ lease \in [Link -> Source \cup {NoSource}]
  /\ writable \subseteq Link
  /\ spawned \subseteq Link \X Closer
  /\ closing \subseteq Link
  /\ releasing \subseteq Link
  /\ scanning \in BOOLEAN
  /\ stranded \subseteq Link
  /\ broken \subseteq Link

\* Somebody is going to give the lease of k back: the command that connects, the
\* entry that records it, or a closer
Owned(k) ==
  \/ task[k] \in {"connecting", "made", "unwinding"}
  \/ Recorded(k)
  \/ k \in closing
  \/ \E c \in Closer : <<k, c>> \in spawned

\* A Bluetooth source that is leased is somebody's to give back, whichever of
\* connect, disconnect, a lost link, a failed segment, a closed WebSocket and
\* stop() met; the ones whose closer was cancelled before it began are set apart
\* (_connect's stack, _lost, _close, _release).
LeaseOwned ==
  \A k \in Link : lease[k] # NoSource /\ k \notin stranded => Owned(k)

\* A connection that matterjs-server can still address has its source: none is
\* given back, or about to be, under a handle that is still recorded (_lost,
\* _disconnect and _release forget the handle first).
RecordedIsLeased ==
  \A k \in Link :
    Recorded(k) =>
      /\ lease[k] # NoSource
      /\ k \notin closing
      /\ \A c \in Closer : <<k, c>> \notin spawned

\* "BTP can't skip one" (_forward): no segment is written to a connection after
\* one that could not be.
NoSegmentSkipped ==
  run = "forwarding" => forwarded \notin broken

\* The connection k, or the WebSocket it serves, is gone
Over(k) ==
  \/ run \notin Serving
  \/ ~Recorded(k) /\ task[k] \notin {"connecting", "made"}

\* A connection that is over, or whose WebSocket is, gives its source back in
\* the end (_close: "whatever the disconnect does").
SourceGivenBack ==
  \A k \in Link :
    lease[k] # NoSource /\ Over(k) ~> lease[k] = NoSource \/ k \in stranded

\* A _close "ends the connection and gives its Bluetooth source back": when the
\* release of a dropped WebSocket is over, no peripheral stays connected that
\* nobody is about to disconnect.
NoLinkLeft ==
  run \in {"backoff", "ended"} =>
    \A k \in Link : link[k] = "up" => Owned(k)

\* What the hub is promised of its Bluetooth, whatever goes on here
Loan == INSTANCE BluetoothLoan
          WITH open <- run \in {"hello", "serving", "forwarding", "leaving"},
               holding <- {k \in Link : lease[k] # NoSource},
               lost <- stranded

\* The delegate keeps the promises of BluetoothLoan: it takes a source only while
\* it has a WebSocket to matterjs-server, and returns those it holds once it has
\* none (_release cancels the commands before they can take another).
LoanKept == Loan!FairSpec
===============================================================================
