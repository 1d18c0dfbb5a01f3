-------------------------- MODULE BLEDelegateProofs --------------------------
(***************************************************************************)
(* What MatterServerBLEDelegate keeps, for any numbers of connections,     *)
(* sources and handles: its types, that a leased source is somebody's to   *)
(* give back, that a recorded connection has its source, and that no       *)
(* segment is skipped.                                                     *)
(***************************************************************************)
EXTENDS BLEDelegate, TLAPS

Untouched(k) == \A c \in Closer : <<k, c>> \notin spawned

\* A connection a command or the peripherals know
InUse(k) == task[k] # "none" \/ Recorded(k)

\* A connection is recorded under its handle, and a handle is of one connection
Handles ==
  /\ \A h \in Handle : \A k \in Link : peripherals[h] = k => h = handle[k]
  /\ \A j, k \in Link : j # k /\ InUse(j) /\ InUse(k) => handle[j] # handle[k]

\* What a connect command works on is known to nobody else yet
Unknown(k) ==
  ~Recorded(k) /\ k \notin closing /\ k \notin stranded /\ Untouched(k)

Connecting == \A k \in Link : task[k] # "none" => Unknown(k)

\* ... and has a lease from the time it got one
Leasing ==
  \A k \in Link :
    /\ task[k] = "leasing" => lease[k] = NoSource
    /\ task[k] \in {"connecting", "made"} => lease[k] # NoSource

\* Nobody is going to close what is stranded, and it is not recorded
Abandoned(k) ==
  k \notin closing /\ Untouched(k) /\ ~Recorded(k) /\ lease[k] # NoSource

Left == \A k \in Link : k \in stranded => Abandoned(k)

\* Without a WebSocket no command goes on and no connection is known; while one
\* is released nothing else is closed
Releasing ==
  /\ run \notin {"hello", "serving", "forwarding", "leaving"} =>
       \A k \in Link : task[k] \in {"none", "unwinding"} /\ ~Recorded(k)
  /\ run = "releasing" => \A t \in spawned : t[2] = "release"

\* The connection a segment is written to is no other's yet
Forwarding ==
  /\ run = "forwarding" =>
       /\ forwarded \in Link /\ task[forwarded] = "none"
       /\ forwarded \notin stranded
  /\ \A k \in broken : task[k] = "none" /\ ~Recorded(k)

Inv ==
  /\ TypeOK /\ Handles /\ Connecting /\ Leasing /\ Left /\ Releasing
  /\ Forwarding /\ LeaseOwned /\ RecordedIsLeased /\ NoSegmentSkipped

USE LinkAssumption DEF Handle

\* The types are kept; ForwardFails addresses the connection of Forwarding.
LEMMA TypeStep == TypeOK /\ Forwarding /\ [Next]_vars => TypeOK'
<1> SUFFICES ASSUME TypeOK, Forwarding, [Next]_vars PROVE TypeOK'
  OBVIOUS
<1> USE DEF TypeOK
<1>1. CASE Opened
  BY <1>1 DEF Opened, RunPc, commands, closers, history
<1>2. CASE Release
  <2>1. releasing' \subseteq Link /\ spawned' \subseteq Link \X Closer
    BY <1>2 DEF Release, Closer
  <2>2. stranded' \subseteq Link
    BY <1>2 DEF Release, Stranded
  <2>3. task' \in [Link -> TaskPc]
    BY <1>2 DEF Release, TaskPc
  <2>4. peripherals' \in [Handle -> Link \cup {NoLink}]
    BY <1>2 DEF Release
  <2> QED
    BY <1>2, <2>1, <2>2, <2>3, <2>4 DEF Release, RunPc
<1>3. CASE ReleaseDone
  BY <1>3 DEF ReleaseDone, RunPc, commands, closers, history
<1>4. CASE Retry
  BY <1>4 DEF Retry, RunPc, commands, closers, history
<1>5. CASE Cancel
  BY <1>5 DEF Cancel, RunPc, Stranded, commands, closers, history
<1>6. CASE Scan
  BY <1>6 DEF Scan, commands, closers, history
<1>7. CASE Forwarded
  BY <1>7 DEF Forwarded, RunPc, commands, closers, history
<1>8. CASE ForwardFails
  BY <1>8
     DEF ForwardFails, Lost, Closer, Forwarding, RunPc, commands, closers,
         history
<1>9. ASSUME NEW k \in Link, Command(k) \/ LinkLost(k) \/ Forward(k) \/ LeaseCloses(k)
               \/ CloseBegins(k) \/ CloseEnds(k) \/ Finalized(k)
     PROVE TypeOK'
  <2>1. CASE Connect(k)
    BY <2>1 DEF Connect, TaskPc, commands, closers, history
  <2>2. CASE Lease(k)
    BY <2>2 DEF Lease, TaskPc, commands, closers, history
  <2>3. CASE Connected(k)
    BY <2>3 DEF Connected, TaskPc, commands, closers, history
  <2>4. CASE Record(k)
    BY <2>4 DEF Record, TaskPc, commands, closers, history
  <2>5. CASE ConnectFails(k)
    BY <2>5 DEF ConnectFails, TaskPc, commands, closers, history
  <2>6. CASE Unwind(k)
    BY <2>6 DEF Unwind, TaskPc, commands, closers, history
  <2>7. CASE Disconnect(k)
    BY <2>7 DEF Disconnect, commands, closers, history
  <2>8. CASE WriteCharacteristic(k)
    BY <2>8 DEF WriteCharacteristic, commands, closers, history
  <2>9. CASE LinkLost(k)
    BY <2>9 DEF LinkLost, Lost, Closer, commands, closers, history
  <2>10. CASE Forward(k)
    BY <2>10 DEF Forward, RunPc, commands, closers, history
  <2>11. CASE LeaseCloses(k)
    BY <2>11 DEF LeaseCloses, commands, closers, history
  <2>12. CASE CloseBegins(k)
    BY <2>12 DEF CloseBegins, commands, closers, history
  <2>13. CASE CloseEnds(k)
    BY <2>13 DEF CloseEnds, commands, closers, history
  <2>14. CASE Finalized(k)
    BY <2>14 DEF Finalized, commands, closers, history
  <2> QED
    BY <1>9, <2>1, <2>2, <2>3, <2>4, <2>5, <2>6, <2>7, <2>8, <2>9, <2>10,
       <2>11, <2>12, <2>13, <2>14
       DEF Command
<1>10. CASE UNCHANGED vars
  BY <1>10 DEF vars
<1> QED
  BY <1>1, <1>2, <1>3, <1>4, <1>5, <1>6, <1>7, <1>8, <1>9, <1>10 DEF Next

\* A connect takes a handle that no connection in use has, and every other step
\* only frees handles.
LEMMA HandlesStep ==
  TypeOK /\ Handles /\ Connecting /\ [Next]_vars => Handles'
<1> SUFFICES ASSUME TypeOK, Handles, Connecting, [Next]_vars
             PROVE  Handles'
  OBVIOUS
<1> USE DEF TypeOK, Handles, InUse, Recorded, Closer
<1>1. CASE Release
  BY <1>1 DEF Release, Stranded
<1>2. CASE ForwardFails
  BY <1>2 DEF ForwardFails, commands, Lost
<1>3. ASSUME NEW k \in Link, Connect(k)
     PROVE  Handles'
  <2> DEFINE new == (last % MaxHandle) + 1
  <2>1. new \in Handle /\ handle' = [handle EXCEPT ![k] = new]
    BY <1>3 DEF Connect
  <2>2. \A j \in Link : InUse(j) => handle[j] # new
    BY <1>3 DEF Connect, Free
  <2>3. ~Recorded(k) /\ peripherals' = peripherals
    BY <1>3 DEF Connect, Free
  <2>4. \A j \in Link \ {k} : InUse(j)' => InUse(j)
    BY <1>3, <2>3 DEF Connect
  <2> HIDE DEF new
  <2> QED
    BY <2>1, <2>2, <2>3, <2>4
<1>4. ASSUME NEW k \in Link, Lease(k)
     PROVE  Handles'
  BY <1>4 DEF Lease, closers, history
<1>5. ASSUME NEW k \in Link, Connected(k)
     PROVE  Handles'
  BY <1>5 DEF Connected, closers, history
<1>6. ASSUME NEW k \in Link, Record(k)
     PROVE  Handles'
  BY <1>6 DEF Record, closers, history, Connecting, Unknown
<1>7. ASSUME NEW k \in Link, ConnectFails(k)
     PROVE  Handles'
  BY <1>7 DEF ConnectFails, closers, history
<1>8. ASSUME NEW k \in Link, Unwind(k)
     PROVE  Handles'
  BY <1>8 DEF Unwind, closers, history
<1>9. ASSUME NEW k \in Link, Disconnect(k)
     PROVE  Handles'
  BY <1>9 DEF Disconnect, commands, history, Serving
<1>10. ASSUME NEW k \in Link, LinkLost(k)
     PROVE  Handles'
  BY <1>10 DEF LinkLost, history, Lost
<1>11. CASE UNCHANGED <<peripherals, handle, task>>
  BY <1>11
<1> QED
  BY <1>1, <1>2, <1>3, <1>4, <1>5, <1>6, <1>7, <1>8, <1>9, <1>10, <1>11
     DEF Next, Command, vars, Opened, ReleaseDone, Retry, Cancel, Scan,
         Forwarded, WriteCharacteristic, Forward, LeaseCloses, CloseBegins,
         CloseEnds, Finalized, closers, commands, history

\* Only a finished command hands its connection to the peripherals or a closer.
LEMMA ConnectingStep ==
  TypeOK /\ Connecting /\ Left /\ Forwarding /\ [Next]_vars => Connecting'
<1> SUFFICES ASSUME TypeOK, Connecting, Left, Forwarding, [Next]_vars
             PROVE  Connecting'
  OBVIOUS
<1> USE DEF TypeOK, Connecting, Unknown, Untouched, Recorded, Closer
<1> SUFFICES ASSUME NEW j \in Link, task'[j] # "none"
             PROVE  Unknown(j)'
  OBVIOUS
<1>1. CASE Release
  BY <1>1 DEF Release, Stranded
<1>2. CASE Cancel
  BY <1>2 DEF Cancel, commands, closers, Stranded
<1>3. CASE ForwardFails
  BY <1>3 DEF ForwardFails, commands, Lost, Forwarding
<1>4. ASSUME NEW k \in Link, Connect(k)
     PROVE  Unknown(j)'
  BY <1>4 DEF Connect, closers, Serving, Free, Left, Abandoned
<1>5. ASSUME NEW k \in Link, Lease(k)
     PROVE  Unknown(j)'
  BY <1>5 DEF Lease, closers, history
<1>6. ASSUME NEW k \in Link, Connected(k)
     PROVE  Unknown(j)'
  BY <1>6 DEF Connected, closers, history
<1>7. ASSUME NEW k \in Link, Record(k)
     PROVE  Unknown(j)'
  BY <1>7 DEF Record, closers, history
<1>8. ASSUME NEW k \in Link, ConnectFails(k)
     PROVE  Unknown(j)'
  BY <1>8 DEF ConnectFails, closers, history
<1>9. ASSUME NEW k \in Link, Unwind(k)
     PROVE  Unknown(j)'
  BY <1>9 DEF Unwind, closers, history
<1>10. ASSUME NEW k \in Link, Disconnect(k)
     PROVE  Unknown(j)'
  BY <1>10 DEF Disconnect, commands, history, Serving
<1>11. ASSUME NEW k \in Link, LinkLost(k)
     PROVE  Unknown(j)'
  BY <1>11 DEF LinkLost, history, Lost
<1>12. ASSUME NEW k \in Link, LeaseCloses(k)
     PROVE  Unknown(j)'
  BY <1>12 DEF LeaseCloses, history
<1>13. ASSUME NEW k \in Link, CloseBegins(k)
     PROVE  Unknown(j)'
  BY <1>13 DEF CloseBegins, commands, history
<1>14. ASSUME NEW k \in Link, CloseEnds(k)
     PROVE  Unknown(j)'
  BY <1>14 DEF CloseEnds, history
<1>15. ASSUME NEW k \in Link, Finalized(k)
     PROVE  Unknown(j)'
  BY <1>15 DEF Finalized, closers
<1>16. CASE UNCHANGED <<task, peripherals, closing, stranded, spawned>>
  BY <1>16
<1> QED
  BY <1>1, <1>2, <1>3, <1>4, <1>5, <1>6, <1>7, <1>8, <1>9, <1>10, <1>11, <1>12,
     <1>13, <1>14, <1>15, <1>16
     DEF Next, Command, vars, Opened, ReleaseDone, Retry, Scan, Forwarded,
         WriteCharacteristic, Forward, closers, commands, history

\* The lease of a command is given back by its own stack only.
LEMMA LeasingStep ==
  TypeOK /\ Leasing /\ Connecting /\ [Next]_vars => Leasing'
<1> SUFFICES ASSUME TypeOK, Leasing, Connecting, [Next]_vars
             PROVE  Leasing'
  OBVIOUS
<1> USE DEF TypeOK, Leasing, Untouched, Closer
<1>1. CASE Release
  BY <1>1 DEF Release, Recorded, Stranded
<1>2. ASSUME NEW k \in Link, Connect(k)
     PROVE  Leasing'
  BY <1>2 DEF Connect, closers, Serving, Free
<1>3. ASSUME NEW k \in Link, Lease(k)
     PROVE  Leasing'
  BY <1>3 DEF Lease, closers, history
<1>4. ASSUME NEW k \in Link, Connected(k)
     PROVE  Leasing'
  BY <1>4 DEF Connected, closers, history
<1>5. ASSUME NEW k \in Link, Record(k)
     PROVE  Leasing'
  BY <1>5 DEF Record, closers, history
<1>6. ASSUME NEW k \in Link, ConnectFails(k)
     PROVE  Leasing'
  BY <1>6 DEF ConnectFails, closers, history
<1>7. ASSUME NEW k \in Link, Unwind(k)
     PROVE  Leasing'
  BY <1>7 DEF Unwind, closers, history
<1>8. ASSUME NEW k \in Link, LeaseCloses(k)
     PROVE  Leasing'
  BY <1>8 DEF LeaseCloses, history, Connecting, Unknown
<1>9. ASSUME NEW k \in Link, CloseEnds(k)
     PROVE  Leasing'
  BY <1>9 DEF CloseEnds, history, Connecting, Unknown
<1>10. ASSUME NEW k \in Link, Finalized(k)
     PROVE  Leasing'
  BY <1>10 DEF Finalized, closers, Connecting, Unknown
<1>11. CASE UNCHANGED <<task, lease>>
  BY <1>11
<1> QED
  BY <1>1, <1>2, <1>3, <1>4, <1>5, <1>6, <1>7, <1>8, <1>9, <1>10, <1>11
     DEF Next, Command, vars, Opened, ReleaseDone, Retry, Cancel, Scan,
         Forwarded, ForwardFails, Disconnect, WriteCharacteristic, LinkLost,
         Forward, CloseBegins, closers, commands, history

\* A connection is stranded when its last closer is dropped, and no other comes.
LEMMA LeftStep ==
  /\ TypeOK /\ Left /\ Connecting /\ Releasing /\ Forwarding
  /\ [Next]_vars
  => Left'
<1> SUFFICES ASSUME TypeOK, Left, Connecting, Releasing, Forwarding, [Next]_vars
             PROVE  Left'
  OBVIOUS
<1> USE DEF TypeOK, Left, Abandoned, Untouched, Recorded, Closer
<1> SUFFICES ASSUME NEW j \in Link, j \in stranded'
             PROVE  Abandoned(j)'
  OBVIOUS
<1>1. CASE Release
  BY <1>1 DEF Release, Stranded, Connecting, Unknown
<1>2. CASE Cancel
  BY <1>2 DEF Cancel, commands, closers, Stranded, Connecting, Unknown, Releasing
<1>3. CASE ForwardFails
  BY <1>3 DEF ForwardFails, commands, Lost, Forwarding
<1>4. ASSUME NEW k \in Link, Lease(k)
     PROVE  Abandoned(j)'
  BY <1>4 DEF Lease, closers, history, Connecting, Unknown
<1>5. ASSUME NEW k \in Link, Record(k)
     PROVE  Abandoned(j)'
  BY <1>5 DEF Record, closers, history, Connecting, Unknown
<1>6. ASSUME NEW k \in Link, Unwind(k)
     PROVE  Abandoned(j)'
  BY <1>6 DEF Unwind, closers, history, Connecting, Unknown
<1>7. ASSUME NEW k \in Link, Disconnect(k)
     PROVE  Abandoned(j)'
  BY <1>7 DEF Disconnect, commands, history, Serving
<1>8. ASSUME NEW k \in Link, LinkLost(k)
     PROVE  Abandoned(j)'
  BY <1>8 DEF LinkLost, history, Lost
<1>9. ASSUME NEW k \in Link, LeaseCloses(k)
     PROVE  Abandoned(j)'
  BY <1>9 DEF LeaseCloses, history
<1>10. ASSUME NEW k \in Link, CloseBegins(k)
     PROVE  Abandoned(j)'
  BY <1>10 DEF CloseBegins, commands, history
<1>11. ASSUME NEW k \in Link, CloseEnds(k)
     PROVE  Abandoned(j)'
  BY <1>11 DEF CloseEnds, history
<1>12. ASSUME NEW k \in Link, Finalized(k)
     PROVE  Abandoned(j)'
  BY <1>12 DEF Finalized, closers
<1>13. CASE UNCHANGED <<stranded, closing, spawned, peripherals, lease>>
  BY <1>13
<1> QED
  BY <1>1, <1>2, <1>3, <1>4, <1>5, <1>6, <1>7, <1>8, <1>9, <1>10, <1>11, <1>12,
     <1>13
     DEF Next, Command, vars, Opened, ReleaseDone, Retry, Scan, Forwarded,
         Connect, Connected, ConnectFails, WriteCharacteristic, Forward,
         closers, commands, history

\* _release ends every command but the stacks, and forgets the connections.
LEMMA ReleasingStep ==
  TypeOK /\ Releasing /\ [Next]_vars => Releasing'
<1> SUFFICES ASSUME TypeOK, Releasing, [Next]_vars
             PROVE  Releasing'
  OBVIOUS
<1> USE DEF TypeOK, Releasing, Recorded, Closer
<1>1. CASE Opened
  BY <1>1 DEF Opened, commands, closers, history
<1>2. CASE Release
  <2>1. \A k \in Link : task'[k] \in {"none", "unwinding"}
    BY <1>2 DEF Release, TaskPc
  <2>2. \A k \in Link : ~Recorded(k)'
    BY <1>2, LinkAssumption DEF Release
  <2>3. \A t \in spawned' : t[2] = "release"
    BY <1>2 DEF Release
  <2> QED
    BY <2>1, <2>2, <2>3
<1>3. CASE ReleaseDone
  BY <1>3 DEF ReleaseDone, commands, closers, history
<1>4. CASE Retry
  BY <1>4 DEF Retry, commands, closers, history
<1>5. CASE Cancel
  BY <1>5 DEF Cancel, commands, closers, Stranded
<1>6. CASE Forwarded
  BY <1>6 DEF Forwarded, commands, closers, history
<1>7. CASE ForwardFails
  BY <1>7 DEF ForwardFails, commands, Lost
<1>8. ASSUME NEW k \in Link, Connect(k)
     PROVE  Releasing'
  BY <1>8 DEF Connect, closers, Serving, Free
<1>9. ASSUME NEW k \in Link, Lease(k)
     PROVE  Releasing'
  BY <1>9 DEF Lease, closers, history
<1>10. ASSUME NEW k \in Link, Connected(k)
     PROVE  Releasing'
  BY <1>10 DEF Connected, closers, history
<1>11. ASSUME NEW k \in Link, Record(k)
     PROVE  Releasing'
  BY <1>11 DEF Record, closers, history
<1>12. ASSUME NEW k \in Link, ConnectFails(k)
     PROVE  Releasing'
  BY <1>12 DEF ConnectFails, closers, history
<1>13. ASSUME NEW k \in Link, Unwind(k)
     PROVE  Releasing'
  BY <1>13 DEF Unwind, closers, history
<1>14. ASSUME NEW k \in Link, Disconnect(k)
     PROVE  Releasing'
  BY <1>14 DEF Disconnect, commands, history, Serving
<1>15. ASSUME NEW k \in Link, LinkLost(k)
     PROVE  Releasing'
  BY <1>15 DEF LinkLost, history, Lost
<1>16. ASSUME NEW k \in Link, Forward(k)
     PROVE  Releasing'
  BY <1>16 DEF Forward, commands, closers, history
<1>17. ASSUME NEW k \in Link, LeaseCloses(k)
     PROVE  Releasing'
  BY <1>17 DEF LeaseCloses, history
<1>18. ASSUME NEW k \in Link, CloseBegins(k)
     PROVE  Releasing'
  BY <1>18 DEF CloseBegins, commands, history
<1>19. CASE UNCHANGED <<run, task, peripherals, spawned>>
  BY <1>19
<1> QED
  BY <1>1, <1>2, <1>3, <1>4, <1>5, <1>6, <1>7, <1>8, <1>9, <1>10, <1>11, <1>12,
     <1>13, <1>14, <1>15, <1>16, <1>17, <1>18, <1>19
     DEF Next, Command, vars, Scan, WriteCharacteristic, CloseEnds, Finalized,
         closers, commands, history

\* The segment being written is of a connection that was recorded.
LEMMA ForwardingStep ==
  /\ TypeOK /\ Forwarding /\ Handles /\ Connecting /\ Left
  /\ NoSegmentSkipped /\ [Next]_vars
  => Forwarding'
<1> SUFFICES ASSUME TypeOK, Forwarding, Handles, Connecting, Left,
                    NoSegmentSkipped, [Next]_vars
             PROVE  Forwarding'
  OBVIOUS
<1> USE DEF TypeOK, Forwarding, Recorded, Closer
<1>1. CASE Opened
  BY <1>1 DEF Opened, commands, closers, history
<1>2. CASE Release
  BY <1>2 DEF Release, Stranded
<1>3. CASE ReleaseDone
  BY <1>3 DEF ReleaseDone, commands, closers, history
<1>4. CASE Retry
  BY <1>4 DEF Retry, commands, closers, history
<1>5. CASE Cancel
  BY <1>5 DEF Cancel, commands, closers, Stranded
<1>6. CASE Forwarded
  BY <1>6 DEF Forwarded, commands, closers, history
<1>7. CASE ForwardFails
  BY <1>7 DEF ForwardFails, commands, Lost, Handles, NoSegmentSkipped
<1>8. ASSUME NEW k \in Link, Connect(k)
     PROVE  Forwarding'
  BY <1>8 DEF Connect, closers, Serving, Free
<1>9. ASSUME NEW k \in Link, Lease(k)
     PROVE  Forwarding'
  BY <1>9 DEF Lease, closers, history
<1>10. ASSUME NEW k \in Link, Connected(k)
     PROVE  Forwarding'
  BY <1>10 DEF Connected, closers, history
<1>11. ASSUME NEW k \in Link, Record(k)
     PROVE  Forwarding'
  BY <1>11 DEF Record, closers, history, Connecting, Unknown
<1>12. ASSUME NEW k \in Link, ConnectFails(k)
     PROVE  Forwarding'
  BY <1>12 DEF ConnectFails, closers, history
<1>13. ASSUME NEW k \in Link, Unwind(k)
     PROVE  Forwarding'
  BY <1>13 DEF Unwind, closers, history
<1>14. ASSUME NEW k \in Link, Disconnect(k)
     PROVE  Forwarding'
  BY <1>14 DEF Disconnect, commands, history, Serving
<1>15. ASSUME NEW k \in Link, LinkLost(k)
     PROVE  Forwarding'
  BY <1>15 DEF LinkLost, history, Lost
<1>16. ASSUME NEW k \in Link, Forward(k)
     PROVE  Forwarding'
  BY <1>16 DEF Forward, commands, closers, history, Connecting, Unknown, Left, Abandoned
<1>17. ASSUME NEW k \in Link, Finalized(k)
     PROVE  Forwarding'
  BY <1>17 DEF Finalized, closers
<1>18. CASE UNCHANGED <<run, forwarded, task, stranded, broken, peripherals>>
  BY <1>18
<1> QED
  BY <1>1, <1>2, <1>3, <1>4, <1>5, <1>6, <1>7, <1>8, <1>9, <1>10, <1>11, <1>12,
     <1>13, <1>14, <1>15, <1>16, <1>17, <1>18
     DEF Next, Command, vars, Scan, WriteCharacteristic, LeaseCloses,
         CloseBegins, CloseEnds, closers, commands, history

\* A lease passes from the command to the peripherals to a closer.
LEMMA LeaseOwnedStep ==
  /\ TypeOK /\ LeaseOwned /\ Handles /\ Connecting /\ Leasing
  /\ Forwarding /\ [Next]_vars
  => LeaseOwned'
<1> SUFFICES ASSUME TypeOK, LeaseOwned, Handles, Connecting, Leasing,
                    Forwarding, [Next]_vars
             PROVE  LeaseOwned'
  OBVIOUS
<1> USE DEF TypeOK, LeaseOwned, Owned, Recorded, Closer
<1> SUFFICES ASSUME NEW j \in Link, lease'[j] # NoSource, j \notin stranded'
             PROVE  Owned(j)'
  OBVIOUS
<1>1. CASE Release
  BY <1>1 DEF Release, Stranded, Leasing
<1>2. CASE Cancel
  BY <1>2 DEF Cancel, commands, closers, Stranded
<1>3. CASE ForwardFails
  BY <1>3 DEF ForwardFails, commands, Lost, Handles, Forwarding
<1>4. ASSUME NEW k \in Link, Connect(k)
     PROVE  Owned(j)'
  BY <1>4 DEF Connect, closers, Serving, Free
<1>5. ASSUME NEW k \in Link, Lease(k)
     PROVE  Owned(j)'
  BY <1>5 DEF Lease, closers, history
<1>6. ASSUME NEW k \in Link, Connected(k)
     PROVE  Owned(j)'
  BY <1>6 DEF Connected, closers, history
<1>7. ASSUME NEW k \in Link, Record(k)
     PROVE  Owned(j)'
  <2>1. CASE j = k
    <3>1. handle[k] \in Handle /\ peripherals'[handle[k]] = k
      BY <1>7 DEF Record
    <3> QED
      BY <2>1, <3>1
  <2>2. CASE j # k /\ Recorded(j)
    <3>1. PICK h \in Handle : peripherals[h] = j
      BY <2>2
    <3>2. h # handle[k]
      BY <1>7, <2>2, <3>1 DEF Record, Handles, InUse
    <3> QED
      BY <1>7, <3>1, <3>2 DEF Record
  <2>3. CASE j # k /\ ~Recorded(j)
    BY <1>7, <2>3 DEF Record, closers, history
  <2> QED
    BY <2>1, <2>2, <2>3
<1>8. ASSUME NEW k \in Link, ConnectFails(k)
     PROVE  Owned(j)'
  BY <1>8 DEF ConnectFails, closers, history
<1>9. ASSUME NEW k \in Link, Unwind(k)
     PROVE  Owned(j)'
  BY <1>9 DEF Unwind, closers, history
<1>10. ASSUME NEW k \in Link, Disconnect(k)
     PROVE  Owned(j)'
  BY <1>10 DEF Disconnect, commands, history, Serving, Handles
<1>11. ASSUME NEW k \in Link, LinkLost(k)
     PROVE  Owned(j)'
  BY <1>11 DEF LinkLost, history, Lost
<1>12. ASSUME NEW k \in Link, LeaseCloses(k)
     PROVE  Owned(j)'
  BY <1>12 DEF LeaseCloses, history
<1>13. ASSUME NEW k \in Link, CloseBegins(k)
     PROVE  Owned(j)'
  BY <1>13 DEF CloseBegins, commands, history
<1>14. ASSUME NEW k \in Link, CloseEnds(k)
     PROVE  Owned(j)'
  BY <1>14 DEF CloseEnds, history
<1>15. ASSUME NEW k \in Link, Finalized(k)
     PROVE  Owned(j)'
  BY <1>15 DEF Finalized, closers
<1>16. CASE UNCHANGED <<lease, stranded, task, peripherals, closing, spawned>>
  BY <1>16
<1> QED
  BY <1>1, <1>2, <1>3, <1>4, <1>5, <1>6, <1>7, <1>8, <1>9, <1>10, <1>11, <1>12,
     <1>13, <1>14, <1>15, <1>16
     DEF Next, Command, vars, Opened, ReleaseDone, Retry, Scan, Forwarded,
         WriteCharacteristic, Forward, closers, commands, history

\* A handle is forgotten by the step that begins to close its lease.
LEMMA RecordedIsLeasedStep ==
  /\ TypeOK /\ RecordedIsLeased /\ Handles /\ Connecting
  /\ Leasing /\ Left /\ Forwarding /\ [Next]_vars
  => RecordedIsLeased'
<1> SUFFICES ASSUME TypeOK, RecordedIsLeased, Handles, Connecting, Leasing,
                    Left, Forwarding, [Next]_vars
             PROVE  RecordedIsLeased'
  OBVIOUS
<1> USE DEF TypeOK, RecordedIsLeased, Recorded, Closer
<1>1. CASE Release
  BY <1>1 DEF Release, Stranded
<1>2. CASE Cancel
  BY <1>2 DEF Cancel, commands, closers, Stranded
<1>3. CASE ForwardFails
  BY <1>3 DEF ForwardFails, commands, Lost, Handles, Forwarding
<1>4. ASSUME NEW k \in Link, Lease(k)
     PROVE  RecordedIsLeased'
  BY <1>4 DEF Lease, closers, history, Connecting, Unknown
<1>5. ASSUME NEW k \in Link, Record(k)
     PROVE  RecordedIsLeased'
  <2>1. \A j \in Link : Recorded(j)' => j = k \/ Recorded(j)
    BY <1>5 DEF Record
  <2>2. lease[k] # NoSource /\ k \notin closing /\ Untouched(k)
    BY <1>5 DEF Record, Connecting, Unknown, Leasing
  <2> QED
    BY <1>5, <2>1, <2>2 DEF Record, closers, Untouched
<1>6. ASSUME NEW k \in Link, Unwind(k)
     PROVE  RecordedIsLeased'
  BY <1>6 DEF Unwind, closers, history, Connecting, Unknown
<1>7. ASSUME NEW k \in Link, Disconnect(k)
     PROVE  RecordedIsLeased'
  BY <1>7 DEF Disconnect, commands, history, Serving, Handles
<1>8. ASSUME NEW k \in Link, LinkLost(k)
     PROVE  RecordedIsLeased'
  BY <1>8 DEF LinkLost, history, Lost, Handles
<1>9. ASSUME NEW k \in Link, LeaseCloses(k)
     PROVE  RecordedIsLeased'
  BY <1>9 DEF LeaseCloses, history
<1>10. ASSUME NEW k \in Link, CloseBegins(k)
     PROVE  RecordedIsLeased'
  BY <1>10 DEF CloseBegins, commands, history
<1>11. ASSUME NEW k \in Link, CloseEnds(k)
     PROVE  RecordedIsLeased'
  BY <1>11 DEF CloseEnds, history
<1>12. ASSUME NEW k \in Link, Finalized(k)
     PROVE  RecordedIsLeased'
  BY <1>12 DEF Finalized, closers, Left, Abandoned
<1>13. CASE UNCHANGED <<peripherals, lease, closing, spawned>>
  BY <1>13
<1> QED
  BY <1>1, <1>2, <1>3, <1>4, <1>5, <1>6, <1>7, <1>8, <1>9, <1>10, <1>11, <1>12,
     <1>13
     DEF Next, Command, vars, Opened, ReleaseDone, Retry, Scan, Forwarded,
         Connect, Connected, ConnectFails, WriteCharacteristic, Forward,
         closers, commands, history

\* A connection whose segment was not written is not recorded again.
LEMMA NoSegmentSkippedStep ==
  TypeOK /\ NoSegmentSkipped /\ Forwarding /\ [Next]_vars => NoSegmentSkipped'
<1> SUFFICES ASSUME TypeOK, NoSegmentSkipped, Forwarding, [Next]_vars
             PROVE  NoSegmentSkipped'
  OBVIOUS
<1> USE DEF TypeOK, NoSegmentSkipped, Recorded, Closer
<1>1. CASE Opened
  BY <1>1 DEF Opened, commands, closers, history
<1>2. CASE Release
  BY <1>2 DEF Release, Stranded
<1>3. CASE ReleaseDone
  BY <1>3 DEF ReleaseDone, commands, closers, history
<1>4. CASE Retry
  BY <1>4 DEF Retry, commands, closers, history
<1>5. CASE Cancel
  BY <1>5 DEF Cancel, commands, closers, Stranded
<1>6. CASE Forwarded
  BY <1>6 DEF Forwarded, commands, closers, history
<1>7. CASE ForwardFails
  BY <1>7 DEF ForwardFails, commands, Lost
<1>8. ASSUME NEW k \in Link, Connect(k)
     PROVE  NoSegmentSkipped'
  BY <1>8 DEF Connect, closers, Serving, Free
<1>9. ASSUME NEW k \in Link, Forward(k)
     PROVE  NoSegmentSkipped'
  BY <1>9 DEF Forward, commands, closers, history, Forwarding
<1>10. CASE UNCHANGED <<run, forwarded, broken>>
  BY <1>10
<1> QED
  BY <1>1, <1>2, <1>3, <1>4, <1>5, <1>6, <1>7, <1>8, <1>9, <1>10
     DEF Next, Command, vars, Scan, Lease, Connected, Record, ConnectFails,
         Unwind, Disconnect, WriteCharacteristic, LinkLost, LeaseCloses,
         CloseBegins, CloseEnds, Finalized, closers, commands, history
-------------------------------------------------------------------------------
\* Nothing is connected when run() begins.
LEMMA Initially == Init => Inv
<1> SUFFICES ASSUME Init PROVE Inv
  OBVIOUS
<1>1. \A k \in Link : ~Recorded(k)
  BY LinkAssumption DEF Init, Recorded
<1>2. TypeOK
  <2>1. 1 \in Handle /\ last \in 0 .. MaxHandle
    BY LinkAssumption DEF Init
  <2>2. /\ peripherals \in [Handle -> Link \cup {NoLink}]
        /\ task \in [Link -> TaskPc]
        /\ handle \in [Link -> Handle]
        /\ link \in [Link -> {"up", "down"}]
        /\ lease \in [Link -> Source \cup {NoSource}]
    BY <2>1 DEF Init, TaskPc
  <2> QED
    BY <2>1, <2>2 DEF Init, TypeOK, RunPc
<1>3. Handles /\ Connecting /\ Leasing /\ Left
  BY <1>1 DEF Init, Handles, Connecting, Unknown, Leasing, Left, Abandoned,
              InUse, Recorded
<1>4. Releasing /\ Forwarding /\ NoSegmentSkipped
  BY <1>1 DEF Init, Releasing, Forwarding, NoSegmentSkipped
<1>5. LeaseOwned /\ RecordedIsLeased
  BY <1>1 DEF Init, LeaseOwned, RecordedIsLeased
<1> QED
  BY <1>2, <1>3, <1>4, <1>5 DEF Inv

\* Inv is inductive: every step keeps every part of it.
THEOREM Invariance == Spec => []Inv
<1>1. Inv /\ [Next]_vars => Inv'
  BY TypeStep, HandlesStep, ConnectingStep, LeasingStep, LeftStep,
     ReleasingStep,
     ForwardingStep, LeaseOwnedStep, RecordedIsLeasedStep, NoSegmentSkippedStep
  DEF Inv
<1> QED
  BY <1>1, Initially, PTL DEF Spec

\* The variables keep their types: the handles stay in 1..0xFFFF (_connect).
THEOREM TypeCorrect == Spec => []TypeOK
<1>1. Inv => TypeOK
  BY DEF Inv
<1> QED
  BY <1>1, Invariance, PTL

\* Every leased Bluetooth source is somebody's to give back, but those whose
\* closer was cancelled before it began (_connect, _lost, _close, _release).
THEOREM EveryLeaseOwned == Spec => []LeaseOwned
<1>1. Inv => LeaseOwned
  BY DEF Inv
<1> QED
  BY <1>1, Invariance, PTL

\* A connection matterjs-server can address has its source (_lost, _disconnect and
\* _release forget a handle before its lease is given back).
THEOREM EveryRecordedLeased == Spec => []RecordedIsLeased
<1>1. Inv => RecordedIsLeased
  BY DEF Inv
<1> QED
  BY <1>1, Invariance, PTL

\* No segment follows one that was not written (_forward).
THEOREM SegmentsInOrder == Spec => []NoSegmentSkipped
<1>1. Inv => NoSegmentSkipped
  BY DEF Inv
<1> QED
  BY <1>1, Invariance, PTL

-------------------------------------------------------------------------------
\* A step that gives the lease of k back, if there is one, is a GiveBack
LEMMA Returns ==
  ASSUME TypeOK, NEW k \in Link, k \notin stranded,
         lease' = [lease EXCEPT ![k] = NoSource],
         UNCHANGED <<run, stranded>>
  PROVE  [Loan!Next]_(Loan!vars)
<1> DEFINE holding == {j \in Link : lease[j] # NoSource}
<1>1. holding' = holding \ {k}
  BY DEF TypeOK
<1>2. CASE k \in holding
  <2>1. Loan!GiveBack(k)
    BY <1>1, <1>2 DEF Loan!GiveBack
  <2> QED
    BY <2>1 DEF Loan!Next
<1>3. CASE k \notin holding
  BY <1>1, <1>3 DEF Loan!vars
<1> QED
  BY <1>2, <1>3

\* Every step of the delegate is one of BluetoothLoan, or none of its business:
\* a source is only taken with a WebSocket, which Releasing says.
LEMMA LoanStep == Inv /\ [Next]_vars => [Loan!Next]_(Loan!vars)
<1> SUFFICES ASSUME Inv, [Next]_vars PROVE [Loan!Next]_(Loan!vars)
  OBVIOUS
<1> DEFINE holding == {j \in Link : lease[j] # NoSource}
<1>0. TypeOK /\ Connecting /\ Left /\ Releasing
  BY DEF Inv
<1>1. CASE Opened
  <2>1. CASE run = "connecting"
    <3>1. Loan!Open
      BY <1>1, <2>1 DEF Opened, commands, history, Loan!Open
    <3> QED
      BY <3>1 DEF Loan!Next
  <2>2. CASE run = "hello"
    BY <1>1, <2>2 DEF Opened, commands, history, Loan!vars
  <2> QED
    BY <1>1, <2>1, <2>2 DEF Opened
<1>2. CASE Release
  <2>1. Stranded(spawned) \in SUBSET holding
    BY DEF Stranded
  <2>2. stranded' = stranded \cup Stranded(spawned)
    BY <1>2 DEF Release
  <2>3. \E ks \in SUBSET holding : stranded' = stranded \cup ks
    BY <2>1, <2>2
  <2>4. (run \in {"hello", "serving", "forwarding", "leaving"})' = FALSE
    BY <1>2 DEF Release
  <2>5. UNCHANGED lease
    BY <1>2 DEF Release
  <2>6. Loan!Close
    BY <2>3, <2>4, <2>5 DEF Loan!Close
  <2> QED
    BY <2>6 DEF Loan!Next
<1>3. CASE Cancel
  <2> DEFINE dropped == {t \in spawned : t[2] = "release"}
  <2>1. CASE run \in {"hello", "serving", "forwarding"}
    BY <1>3, <2>1 DEF Cancel, commands, closers, Loan!vars
  <2>2. CASE run = "releasing"
    <3>1. Stranded(dropped) \in SUBSET holding
      BY DEF Stranded
    <3>2. stranded' = stranded \cup Stranded(dropped)
      BY <1>3, <2>2 DEF Cancel
    <3>3. \E ks \in SUBSET holding : stranded' = stranded \cup ks
      BY <3>1, <3>2
    <3>4. Loan!Close
      BY <1>3, <2>2, <3>3 DEF Cancel, commands, Loan!Close
    <3> QED
      BY <3>4 DEF Loan!Next
  <2>3. CASE run \in {"backoff", "connecting"}
    BY <1>3, <2>3 DEF Cancel, commands, closers, Loan!vars
  <2> QED
    BY <1>3, <2>1, <2>2, <2>3 DEF Cancel
<1>4. ASSUME NEW k \in Link, Lease(k)
      PROVE  [Loan!Next]_(Loan!vars)
  <2>1. run \in {"hello", "serving", "forwarding", "leaving"}
    BY <1>0, <1>4 DEF Lease, Releasing
  <2>2. CASE lease' = lease
    BY <1>4, <2>2 DEF Lease, history, Loan!vars
  <2>3. ASSUME NEW s \in Source, lease' = [lease EXCEPT ![k] = s]
        PROVE  [Loan!Next]_(Loan!vars)
    <3>1. holding' = holding \cup {k}
      BY <1>0, <2>3 DEF TypeOK
    <3>2. CASE k \in holding
      BY <1>4, <3>1, <3>2 DEF Lease, history, Loan!vars
    <3>3. CASE k \notin holding
      <4>1. Loan!Take(k)
        BY <1>4, <2>1, <3>1, <3>3 DEF Lease, history, Loan!Take
      <4> QED
        BY <4>1 DEF Loan!Next
    <3> QED
      BY <3>2, <3>3
  <2> QED
    BY <1>4, <2>2, <2>3 DEF Lease
<1>5. ASSUME NEW k \in Link, Unwind(k)
      PROVE  [Loan!Next]_(Loan!vars)
  BY <1>0, <1>5, Returns DEF Unwind, history, Connecting, Unknown
<1>6. ASSUME NEW k \in Link, LeaseCloses(k) \/ CloseEnds(k)
      PROVE  [Loan!Next]_(Loan!vars)
  <2>1. k \notin stranded
    BY <1>0, <1>6 DEF LeaseCloses, CloseEnds, Left, Abandoned, Untouched, Closer
  <2> QED
    BY <1>0, <1>6, <2>1, Returns DEF LeaseCloses, CloseEnds, history
<1>7. ASSUME NEW k \in Link, Finalized(k)
      PROVE  [Loan!Next]_(Loan!vars)
  <2>1. k \in holding /\ holding' = holding \ {k}
    BY <1>0, <1>7 DEF Finalized, Left, Abandoned, TypeOK
  <2>2. Loan!GiveBack(k)
    BY <1>7, <2>1 DEF Finalized, Loan!GiveBack
  <2> QED
    BY <2>2 DEF Loan!Next
<1>8. CASE UNCHANGED <<run, lease, stranded>>
  BY <1>8 DEF Loan!vars
<1>9. CASE ReleaseDone \/ Retry \/ Forwarded \/ ForwardFails
  BY <1>9 DEF ReleaseDone, Retry, Forwarded, ForwardFails, commands, history,
              Loan!vars
<1>10. ASSUME NEW k \in Link, Forward(k)
       PROVE  [Loan!Next]_(Loan!vars)
  BY <1>10 DEF Forward, commands, history, Loan!vars
<1> QED
  BY <1>1, <1>2, <1>3, <1>4, <1>5, <1>6, <1>7, <1>8, <1>9, <1>10
  DEF Next, Command, vars, Scan, Connect, Connected, Record, ConnectFails,
      Disconnect, WriteCharacteristic, LinkLost, CloseBegins, closers, commands,
      history

\* The safety part of LoanKept: whatever the numbers of connections and sources,
\* the delegate takes a source only while it has a WebSocket to matterjs-server,
\* and loses one only when that ends (_release, run).
THEOREM LoanSafety == Spec => Loan!Spec
<1>1. Init => Loan!Init
  BY DEF Init, Loan!Init
<1> QED
  BY <1>1, LoanStep, Invariance, PTL DEF Spec, Loan!Spec
===============================================================================
