-------------------------- MODULE AvailabilityProofs --------------------------
(* What the Hub is shown of the devices' availability, for every value of the *)
(* constants of MatterController: AvailabilityIsCurrent and ReachableIsShown.  *)
EXTENDS NoOrphanProofs

-------------------------------------------------------------------------------
\* A connected client's node objects are as matterjs-server has the nodes, and
\* a device it follows has their availability, unless it was commissioned again
\* and its pairing is still to follow it, or one followed it with the node object
\* of a former client.
Objects == live # NoClient => object[live] = status

Known(n) == live # NoClient /\ n \in fabric

Following(n) ==
  \E p \in Call :
    call[p].pc \in {"saved", "reoffered", "connected"} /\ call[p].node = n

Stale(n) ==
  /\ Known(n)
  /\ rows[Dev(n)] = "saved"
  /\ n \in subs[live]
  /\ avail[n] # status[n]

StaleInv ==
  /\ OrphanInv
  /\ FollowInv
  /\ Objects
  /\ conn = "losing" => live = NoClient
  /\ \A n \in Node : Stale(n) => Following(n) \/ n \in outdated

\* Nothing is known yet, so nothing is stale.
LEMMA InitStaleInv == Init => StaleInv
  BY InitOrphanInv, InitFollowInv DEF StaleInv, Init, Objects, Stale, Known

\* The four that tell a live client what matterjs-server has
LEMMA ServerHasObjects ==
  ASSUME TypeInv, NEW k, NEW s \in [Node -> Status], ServerHas(k, s),
         UNCHANGED live
  PROVE  Objects' /\ status' = s /\ fabric' = k
  BY DEF TypeInv, TypeOK, Objects, ServerHas

\* A live client keeps the status that matterjs-server has of each of its nodes.
LEMMA ObjectsStep == ASSUME TypeInv, Objects, Next PROVE Objects'
  <1> USE DEF server, clients, syncing, polling, kept, shown
  <1>0. status \in [Node -> Status]
    BY DEF TypeInv, TypeOK
  <1>1. CASE Connection
    <2>1. CASE Start \/ StayReconnect
      BY <1>0, <2>1, ConnectFacts DEF Start, StayReconnect, Objects
    <2>2. CASE Stop \/ ServerLost \/ StayLost \/ StayLose
      BY <2>2 DEF Stop, ServerLost, StayLost, StayLose, Objects
    <2>3. QED
      BY <1>1, <2>1, <2>2 DEF Connection
  <1>2. CASE Sync
    BY <1>2 DEF Sync, SyncNodes, SyncRows, SyncCrash, SyncFollow, SyncFollowed,
                SyncOffer, SyncConnect, Objects
  <1>3. CASE Devices
    <2>1. ASSUME NEW n \in Node, NEW s \in Status, NodeUpdated(n, s)
          PROVE  Objects'
      <3>1. [status EXCEPT ![n] = s] \in [Node -> Status]
        BY <1>0
      <3>2. QED
        BY <2>1, <3>1, ServerHasObjects DEF NodeUpdated
    <2>2. ASSUME NEW n \in Node, Unpair(n) PROVE Objects'
      BY <1>0, <2>2, ServerHasObjects DEF Unpair
    <2>3. ASSUME NEW n \in Node, BleAdvert(n) \/ DeleteRow(n) \/ ServerReset(n)
          PROVE  Objects'
      BY <2>3 DEF BleAdvert, DeleteRow, ServerReset, Objects
    <2>4. CASE Deliver \/ LoopAsk \/ LoopAnswer \/ LoopReport
      BY <2>4 DEF Deliver, LoopAsk, LoopAnswer, LoopReport, Objects
    <2>5. QED
      BY <1>3, <2>1, <2>2, <2>3, <2>4 DEF Devices
  <1>4. ASSUME NEW p \in Call, Pairing(p) PROVE Objects'
    <2>1. CASE Commissioned(p)
      <3>1. PICK m \in Node \ fabric :
              ServerHas(fabric \cup {m}, [status EXCEPT ![m] = "up"])
        BY <2>1 DEF Commissioned
      <3>2. [status EXCEPT ![m] = "up"] \in [Node -> Status]
        BY <1>0 DEF Status
      <3>3. QED
        BY <2>1, <3>1, <3>2, ServerHasObjects DEF Commissioned
    <2>2. CASE CommissionLost(p)
      BY <2>2 DEF CommissionLost, Objects
    <2>3. CASE ~Commissioned(p) /\ ~CommissionLost(p)
      BY <1>4, <2>3 DEF Pairing, Pair, CommissionRefused, CommissionAnswered,
           PairSave, PairSaveFails, PairFailed, PairSaved, PairReoffered,
           PairFollow, Objects
    <2>4. QED
      BY <2>1, <2>2, <2>3
  <1>5. ASSUME NEW n \in Node, NEW s \in {"raw", "up"}, CommissionedLate(n, s)
        PROVE  Objects'
    <2>1. [status EXCEPT ![n] = s] \in [Node -> Status]
      BY <1>0 DEF Status
    <2>2. QED
      BY <1>5, <2>1, ServerHasObjects DEF CommissionedLate
  <1>6. QED
    BY <1>1, <1>2, <1>3, <1>4, <1>5 DEF Next

\* A subscription with the node objects of the current client: with a connection,
\* the devices followed have the availability matterjs-server knows, the others
\* keep theirs
LEMMA SubscribeCurrent ==
  ASSUME TypeInv, Current, Objects, client \in Client, NEW ns \in SUBSET Node,
         Subscribe(ns, client), live # NoClient, NEW n \in Node
  PROVE  /\ avail'[n] = IF n \in ns THEN status[n] ELSE avail[n]
         /\ n \in subs'[live] <=> n \in subs[live] \/ n \in ns
  BY DEF TypeInv, TypeOK, Current, Objects, Subscribe

\* A step that makes no device stale leaves the pairings where they are
LEMMA QuietStale ==
  ASSUME StaleInv, NEW n \in Node, Stale(n), UNCHANGED call,
         n \in outdated => n \in outdated'
  PROVE  Following(n)' \/ n \in outdated'
  BY DEF StaleInv, Following

\* A connection that comes or goes leaves nothing stale but what a pairing is
\* about to follow.
LEMMA ConnectionStale ==
  ASSUME StaleInv, Connection, NEW n \in Node, Stale(n)'
  PROVE  Following(n)' \/ n \in outdated'
  <1> USE DEF server, clients, syncing, polling, kept, shown
  <1>0. TypeInv /\ Current
    BY DEF StaleInv, FollowInv
  <1>1. CASE Start \/ StayReconnect
    <2>1. subs'[live'] = {}
      BY <1>0, <1>1, ConnectFacts DEF Start, StayReconnect, TypeInv, TypeOK
    <2>2. QED
      BY <2>1 DEF Stale
  <1>2. CASE Stop \/ ServerLost
    BY <1>2 DEF Stop, ServerLost, Stale, Known
  <1>3. CASE StayLost
    BY <1>0, <1>3 DEF StayLost, Current, Stale, Known
  <1>4. CASE StayLose
    BY <1>4 DEF StayLose, StaleInv, Stale, Known
  <1>5. QED
    BY <1>1, <1>2, <1>3, <1>4 DEF Connection

\* Devices are lost only after the connection was, so without a client.
LEMMA LosingStep ==
  ASSUME TypeInv, Current, conn = "losing" => live = NoClient, Next
  PROVE  conn' = "losing" => live' = NoClient
  <1> USE DEF server, clients, syncing, polling, kept, shown
  <1>1. CASE Connection
    <2>1. CASE Start \/ StayReconnect \/ Stop
      BY <2>1 DEF Start, StayReconnect, Stop
    <2>2. CASE ServerLost \/ StayLost \/ StayLose
      BY <2>2 DEF ServerLost, StayLost, StayLose, Current
    <2>3. QED
      BY <1>1, <2>1, <2>2 DEF Connection
  <1>2. CASE Sync
    <2>1. conn' # "losing"
      BY <1>2 DEF Sync, SyncNodes, SyncRows, SyncCrash, SyncFollow, SyncFollowed,
                  SyncOffer, SyncConnect, OfferNext, ConnectNext
    <2>2. QED
      BY <2>1
  <1>3. CASE Devices \/ \E p \in Call : Pairing(p)
    <2>1. UNCHANGED <<conn, live>>
      BY <1>3 DEF Devices, NodeUpdated, Deliver, LoopAsk, LoopAnswer, LoopReport,
           BleAdvert, Unpair, DeleteRow, ServerReset, Pairing, Pair, Commissioned,
           CommissionRefused, CommissionLost, CommissionAnswered, PairSave,
           PairSaveFails, PairFailed, PairSaved, PairReoffered, PairFollow
    <2>2. QED
      BY <2>1
  <1>4. CASE \E n \in Node, s \in {"raw", "up"} : CommissionedLate(n, s)
    BY <1>4 DEF CommissionedLate
  <1>5. QED
    BY <1>1, <1>2, <1>3, <1>4 DEF Next

\* A sync follows with the client that is current
LEMMA SyncStale ==
  ASSUME StaleInv, Sync, NEW n \in Node, Stale(n)'
  PROVE  Following(n)' \/ n \in outdated'
  <1> USE DEF server, clients, syncing, polling, kept, shown
  <1>0. TypeInv /\ Current /\ Objects
    BY DEF StaleInv, FollowInv
  <1>1. UNCHANGED <<fabric, status, rows, call>>
    BY DEF Sync, SyncNodes, SyncRows, SyncCrash, SyncFollow, SyncFollowed,
           SyncOffer, SyncConnect
  <1>2. CASE UNCHANGED <<subs, avail, outdated>>
    <2>1. live' \in {live, NoClient}
      BY DEF Sync, SyncNodes, SyncRows, SyncCrash, SyncFollow, SyncFollowed,
             SyncOffer, SyncConnect
    <2>2. Stale(n)
      BY <1>1, <1>2, <2>1 DEF Stale, Known
    <2>3. QED
      BY <1>1, <1>2, <2>2, QuietStale
  <1>3. CASE SyncFollow \/ SyncFollowed
    <2>1. client \in Client /\ live # NoClient /\ UNCHANGED live
      BY <1>0, <1>3 DEF SyncFollow, SyncFollowed, TypeInv, Shape, Stale, Known
    <2>2. PICK ns \in SUBSET Node : Follow(ns)
      BY <1>3 DEF SyncFollow, SyncFollowed
    <2>3. /\ avail'[n] = IF n \in ns THEN status[n] ELSE avail[n]
          /\ n \in subs'[live] <=> n \in subs[live] \/ n \in ns
      BY <1>0, <2>1, <2>2, SubscribeCurrent DEF Follow
    <2>4. Stale(n) /\ n \notin ns
      BY <1>1, <2>1, <2>3 DEF Stale, Known
    <2>5. n \in outdated => n \in outdated'
      BY <2>2, <2>4 DEF Follow
    <2>6. QED
      BY <1>1, <2>4, <2>5, QuietStale
  <1>4. QED
    BY <1>2, <1>3 DEF Sync, SyncNodes, SyncRows, SyncCrash, SyncOffer, SyncConnect

\* The callback of a followed device keeps up with matterjs-server
LEMMA DevicesStale ==
  ASSUME StaleInv, Devices, NEW n \in Node, Stale(n)'
  PROVE  Following(n)' \/ n \in outdated'
  <1> USE DEF server, clients, syncing, polling, kept, shown
  <1>0. TypeInv /\ Current /\ Objects
    BY DEF StaleInv, FollowInv
  <1>1. UNCHANGED <<live, subs, call>>
    BY DEF Devices, NodeUpdated, Deliver, LoopAsk, LoopAnswer, LoopReport,
           BleAdvert, Unpair, DeleteRow, ServerReset
  <1>2. ASSUME NEW m \in Node, NEW s \in Status, NodeUpdated(m, s)
        PROVE  Following(n)' \/ n \in outdated'
    <2>1. /\ fabric' = fabric
          /\ status' = [status EXCEPT ![m] = s]
          /\ UNCHANGED rows
      BY <1>2 DEF NodeUpdated, ServerHas
    <2>2. status \in [Node -> Status] /\ avail \in [Node -> Status \cup {"unset"}]
      BY <1>0 DEF TypeInv, TypeOK
    <2>3. CASE n = m
      BY <1>1, <1>2, <2>1, <2>2, <2>3 DEF NodeUpdated, Stale, Known
    <2>4. CASE n # m
      <3>1. /\ avail'[n] = avail[n] /\ status'[n] = status[n]
            /\ n \in outdated => n \in outdated'
        BY <1>2, <2>1, <2>2, <2>4 DEF NodeUpdated
      <3>2. QED
        BY <1>1, <2>1, <3>1, QuietStale DEF Stale, Known
    <2>5. QED
      BY <2>3, <2>4
  <1>3. ASSUME NEW m \in Node, DeleteRow(m)
        PROVE  Following(n)' \/ n \in outdated'
    <2>1. rows[Dev(n)] = "saved"
      BY <1>0, <1>3, IdFacts DEF DeleteRow, Stale, TypeInv, TypeOK
    <2>2. QED
      BY <1>1, <1>3, <2>1, QuietStale DEF DeleteRow, Stale, Known
  <1>4. ASSUME NEW m \in Node, Unpair(m) \/ ServerReset(m)
        PROVE  Following(n)' \/ n \in outdated'
    <2>1. n \in fabric /\ UNCHANGED <<status, avail, rows, outdated>>
      BY <1>4 DEF Unpair, ServerReset, ServerHas, Stale, Known
    <2>2. QED
      BY <1>1, <2>1, QuietStale DEF Stale, Known
  <1>5. CASE UNCHANGED <<fabric, status, avail, rows, outdated>>
    BY <1>1, <1>5, QuietStale DEF Stale, Known
  <1>6. QED
    BY <1>2, <1>3, <1>4, <1>5 DEF Devices, Deliver, LoopAsk, LoopAnswer,
       LoopReport, BleAdvert

\* A row gets saved by the pairing of its device only
LEMMA PairingSaves ==
  ASSUME TypeInv, NEW p \in Call, CallFacts(p), Pairing(p), NEW n \in Node,
         rows'[Dev(n)] = "saved"
  PROVE  rows[Dev(n)] = "saved" \/ (PairSave(p) /\ call[p].node = n)
  <1>0. /\ call[p] \in CallRec /\ CallShape(p)
        /\ rows \in [Id -> RowState]
    BY DEF TypeInv, TypeOK, CallRec, Shape, CallShape
  <1>1. CASE PairSave(p)
    BY <1>0, <1>1, IdFacts DEF PairSave, CallShape, CallRec
  <1>2. ASSUME NEW r, End(p, r) PROVE rows[Dev(n)] = "saved"
    BY <1>0, <1>2, IdFacts DEF End
  <1>3. ASSUME NEW id \in Id, Pair(p, id) PROVE rows[Dev(n)] = "saved"
    BY <1>0, <1>3, IdFacts DEF Pair
  <1>4. CASE UNCHANGED rows
    BY <1>4
  <1>5. QED
    BY <1>1, <1>2, <1>3, <1>4 DEF Pairing, Commissioned, CommissionRefused,
       CommissionLost, CommissionAnswered, PairSaveFails, PairFailed, PairSaved,
       PairReoffered, PairFollow, Fail

\* A device commissioned again is followed by the pairing that saves its row
LEMMA PairingStale ==
  ASSUME StaleInv, NEW p \in Call, Pairing(p), NEW n \in Node, Stale(n)'
  PROVE  Following(n)' \/ n \in outdated'
  <1> USE DEF server, clients, syncing, polling, kept, shown
  <1>0. /\ TypeInv /\ Current /\ Objects /\ CallFacts(p) /\ CallShape(p)
        /\ call \in [Call -> CallRec]
        /\ rows \in [Id -> RowState]
    BY DEF StaleInv, FollowInv, OrphanInv, TypeInv, TypeOK, CallRec, Shape, CallShape
  <1>1. UNCHANGED <<live, client>> /\ live = client /\ live \in Client
    <2>1. UNCHANGED <<live, client>>
      BY DEF Pairing, Pair, Commissioned, CommissionRefused, CommissionLost,
           CommissionAnswered, PairSave, PairSaveFails, PairFailed, PairSaved,
           PairReoffered, PairFollow
    <2>2. QED
      BY <1>0, <2>1 DEF Stale, Known, Current, TypeInv, TypeOK
  <1>2. \A q \in Call \ {p} : call'[q] = call[q]
    BY <1>0, OtherCalls
  <1> DEFINE following == {"saved", "reoffered", "connected"}
             By == call[p].pc \in following /\ call[p].node = n
  <1>02. outdated \subseteq outdated'
    BY DEF Pairing, Pair, Commissioned, CommissionRefused, CommissionLost,
           CommissionAnswered, PairSave, PairSaveFails, PairFailed, PairSaved,
           PairReoffered, PairFollow
  <1>3. ASSUME Stale(n), By => By' PROVE Following(n)' \/ n \in outdated'
    BY <1>02, <1>2, <1>3 DEF StaleInv, Following
  <1>4. CASE PairSave(p)
    <2>1. CASE n = call[p].node
      BY <1>0, <1>4, <2>1 DEF PairSave, Following, CallRec
    <2>2. CASE n # call[p].node
      <3>1. rows[Dev(n)] = "saved"
        BY <1>0, <1>4, <2>2, IdFacts DEF PairSave, Stale, CallShape, CallRec
      <3>2. QED
        BY <1>1, <1>3, <1>4, <3>1 DEF PairSave, Stale, Known
    <2>3. QED
      BY <2>1, <2>2
  <1>5. CASE ~PairSave(p)
    <2>1. rows[Dev(n)] = "saved"
      BY <1>0, <1>5, PairingSaves DEF Stale
    <2>2. CASE Commissioned(p)
      <3>1. PICK m \in Node \ fabric :
              /\ rows[Dev(m)] # "saved"
              /\ ServerHas(fabric \cup {m}, [status EXCEPT ![m] = "up"])
        BY <2>2 DEF Commissioned
      <3>2. n # m
        BY <2>1, <3>1
      <3>3. n \in fabric /\ status'[n] = status[n]
        BY <1>0, <3>1, <3>2 DEF ServerHas, Stale, Known, TypeInv, TypeOK
      <3>4. QED
        BY <1>1, <1>3, <2>1, <2>2, <3>3 DEF Commissioned, Stale, Known
    <2>3. CASE PairFollow(p)
      <3>1. /\ Subscribe({call[p].node}, call[p].from)
            /\ End(p, "device")
        BY <1>1, <2>3, ConstantsAssumption DEF PairFollow
      <3>2. call[p].node \in Node
        BY <1>0, <2>3 DEF PairFollow, CallShape
      <3>3. CASE n = call[p].node /\ call[p].from # client
        BY <1>1, <2>3, <3>3, ConstantsAssumption DEF PairFollow
      <3>4. CASE n = call[p].node /\ call[p].from = client
        BY <1>0, <1>1, <2>3, <3>1, <3>2, <3>4, ConstantsAssumption,
           SubscribeCurrent DEF PairFollow, Stale
      <3>5. CASE n # call[p].node
        <4>1. avail'[n] = avail[n] /\ (n \in subs'[live] <=> n \in subs[live])
          BY <1>0, <1>1, <3>1, <3>5 DEF Subscribe, TypeInv, TypeOK
        <4>2. Stale(n)
          BY <1>1, <2>1, <2>3, <4>1 DEF PairFollow, Stale, Known
        <4>3. QED
          BY <1>3, <3>5, <4>2
      <3>6. QED
        BY <3>3, <3>4, <3>5
    <2>4. CASE ~Commissioned(p) /\ ~PairFollow(p)
      <3>1. UNCHANGED <<fabric, status, subs, avail>>
        BY <1>1, <1>5, <2>4, ConstantsAssumption DEF Pairing, Pair,
           CommissionRefused, CommissionLost, CommissionAnswered, PairSaveFails,
           PairFailed, PairSaved, PairReoffered
      <3>2. Stale(n)
        BY <1>1, <2>1, <3>1 DEF Stale, Known
      <3>3. By => By'
        BY <1>0, <1>1, <1>5, <2>4, ConstantsAssumption DEF Pairing, Pair,
           CommissionRefused, CommissionLost, CommissionAnswered, PairSaveFails,
           PairFailed, PairSaved, PairReoffered, CallRec
      <3>4. QED
        BY <1>3, <3>2, <3>3
    <2>5. QED
      BY <2>2, <2>3, <2>4
  <1>6. QED
    BY <1>4, <1>5

\* A node commissioned late has no subscription
LEMMA LateStale ==
  ASSUME StaleInv, NEW m \in Node, NEW s \in {"raw", "up"},
         CommissionedLate(m, s), NEW n \in Node, Stale(n)'
  PROVE  Following(n)' \/ n \in outdated'
  <1> USE DEF server, clients, syncing, polling, kept, shown
  <1>1. TypeInv
    BY DEF StaleInv, FollowInv
  <1>2. UNCHANGED <<live, subs, avail, outdated, rows, call>>
    BY DEF CommissionedLate
  <1>3. n # m
    BY <1>1, <1>2 DEF CommissionedLate, Stale, Known, TypeInv, TypeOK
  <1>4. n \in fabric /\ status'[n] = status[n]
    BY <1>1, <1>3 DEF CommissionedLate, ServerHas, Stale, Known, TypeInv, TypeOK
  <1>5. Stale(n)
    BY <1>2, <1>4 DEF Stale, Known
  <1>6. QED
    BY <1>2, <1>5, QuietStale

\* Every step keeps the invariant.
LEMMA NextStaleInv == StaleInv /\ [Next]_vars => StaleInv'
  <1> SUFFICES ASSUME StaleInv, [Next]_vars PROVE StaleInv'
    OBVIOUS
  <1>0. TypeInv /\ Current /\ Objects /\ OrphanInv /\ FollowInv
    BY DEF StaleInv, FollowInv
  <1>1. OrphanInv' /\ FollowInv'
    BY <1>0, NextOrphanInv, NextFollowInv
  <1>2. CASE UNCHANGED vars
    BY <1>1, <1>2 DEF StaleInv, vars, Objects, Stale, Known, Following
  <1>3. CASE Next
    <2>1. Objects' /\ (conn' = "losing" => live' = NoClient)
      BY <1>0, <1>3, ObjectsStep, LosingStep DEF StaleInv
    <2>2. ASSUME NEW n \in Node, Stale(n)'
          PROVE  Following(n)' \/ n \in outdated'
      BY <1>3, <2>2, ConnectionStale, SyncStale, DevicesStale, PairingStale,
         LateStale DEF Next
    <2>3. QED
      BY <1>1, <2>1, <2>2 DEF StaleInv
  <1>4. QED
    BY <1>2, <1>3

\* Once all is settled the availability kept of each device the Hub has is what
\* matterjs-server says of its node, through every outage, sync, removal, repeated
\* or late commissioning and pairing, but for a device that a pairing followed with
\* a former client's node object, until its next output or sync.
THEOREM AvailabilityCurrent == Spec => []AvailabilityIsCurrent
  <1>1. Init => StaleInv
    BY InitStaleInv
  <1>2. StaleInv /\ [Next]_vars => StaleInv'
    BY NextStaleInv
  <1>3. StaleInv => AvailabilityIsCurrent
    <2> SUFFICES ASSUME StaleInv, NEW n \in SettledDevices, n \notin outdated
                 PROVE  avail[n] = status[n]
      BY DEF AvailabilityIsCurrent
    <2>1. Settled /\ n \in nodes[client] /\ rows[Dev(n)] = "saved"
      BY DEF SettledDevices
    <2>2. TypeInv /\ Current /\ FollowInv
      BY DEF StaleInv, FollowInv
    <2>3. client \in Client /\ live = client /\ n \in Node /\ n \in fabric
      BY <2>1, <2>2, ConstantsAssumption
         DEF Settled, TypeInv, TypeOK, Shape, Current
    <2>4. ~Pending(n) /\ ~Following(n)
      BY <2>1 DEF Settled, Pending, Following
    <2>5. n \in subs[client]
      BY <2>1, <2>2, <2>3, <2>4, ConstantsAssumption DEF FollowInv, Missed
    <2>6. QED
      BY <2>1, <2>3, <2>4, <2>5, ConstantsAssumption DEF StaleInv, Stale, Known
  <1>4. QED
    BY <1>1, <1>2, <1>3, PTL DEF Spec

-------------------------------------------------------------------------------
\* The output tasks of a device.  One that waits is of a device followed on this
\* connection, and the last of them tells what matterjs-server says; and a device
\* that was commissioned again and is stale is reachable.  Of an outdated one the
\* tasks tell what a former client would have said.
Last(i, n) ==
  /\ i \in DOMAIN spawned
  /\ spawned[i][2] = Dev(n)
  /\ \A j \in DOMAIN spawned : spawned[j][2] = Dev(n) => j <= i

Outputs(n) ==
  /\ Waiting(n) => n \in subs[live]
  /\ n \notin outdated =>
       /\ Waiting(n) => avail[n] = status[n]
       /\ \A i \in DOMAIN spawned : Last(i, n) => spawned[i][1] = status[n]
       /\ n \in subs[live] /\ avail[n] # status[n] => status[n] = "up"

OutputInv ==
  /\ conn = "stopped" => spawned = <<>>
  /\ \A n \in Node : Known(n) => Outputs(n)

\* A task spawned is the last of its device and of no other
LEMMA AppendOutputs ==
  ASSUME TypeInv, NEW s \in Status, NEW m \in Node,
         spawned' = Append(spawned, <<s, Dev(m)>>), NEW n \in Node
  PROVE  /\ n = m => Waiting(n)' /\ \A i \in DOMAIN spawned' :
                                     Last(i, n)' => spawned'[i][1] = s
         /\ n # m => /\ Waiting(n)' <=> Waiting(n)
                     /\ \A i \in DOMAIN spawned' :
                          Last(i, n)' => Last(i, n) /\ spawned'[i] = spawned[i]
  <1>1. spawned \in Seq(Status \X Id) /\ <<s, Dev(m)>> \in Status \X Id
    BY IdFacts DEF TypeInv, TypeOK
  <1>2. /\ Len(spawned) \in Nat
        /\ DOMAIN spawned = 1 .. Len(spawned)
        /\ DOMAIN spawned' = 1 .. Len(spawned) + 1
        /\ \A i \in 1 .. Len(spawned) : spawned'[i] = spawned[i]
        /\ spawned'[Len(spawned) + 1] = <<s, Dev(m)>>
    BY <1>1
  <1>3. ASSUME n = m
        PROVE  Waiting(n)' /\ \A i \in DOMAIN spawned' :
                                Last(i, n)' => spawned'[i][1] = s
    <2>1. Len(spawned) + 1 \in DOMAIN spawned'
      BY <1>2
    <2>2. spawned'[Len(spawned) + 1][2] = Dev(n)
      BY <1>2, <1>3
    <2>3. ASSUME NEW i \in DOMAIN spawned', Last(i, n)' PROVE i = Len(spawned) + 1
      BY <1>2, <2>1, <2>2, <2>3 DEF Last
    <2>4. QED
      BY <1>2, <2>1, <2>2, <2>3 DEF Waiting
  <1>4. ASSUME n # m
        PROVE  /\ Waiting(n)' <=> Waiting(n)
               /\ \A i \in DOMAIN spawned' :
                     Last(i, n)' => Last(i, n) /\ spawned'[i] = spawned[i]
    <2>1. spawned'[Len(spawned) + 1][2] # Dev(n)
      BY <1>2, <1>4, IdFacts
    <2>2. Waiting(n)' <=> Waiting(n)
      BY <1>2, <2>1 DEF Waiting
    <2>3. ASSUME NEW i \in DOMAIN spawned', Last(i, n)'
          PROVE  Last(i, n) /\ spawned'[i] = spawned[i]
      BY <1>2, <2>1, <2>3 DEF Last
    <2>4. QED
      BY <2>2, <2>3
  <1>5. QED
    BY <1>3, <1>4

\* The oldest task starts: it was the last of its device, or another one is
LEMMA TailOutputs ==
  ASSUME TypeInv, spawned # <<>>, spawned' = Tail(spawned), NEW n \in Node
  PROVE  /\ Waiting(n)' => Waiting(n)
         /\ \A i \in DOMAIN spawned' :
              Last(i, n)' => /\ i + 1 \in DOMAIN spawned
                             /\ Last(i + 1, n) /\ spawned'[i] = spawned[i + 1]
         /\ Waiting(n) /\ ~Waiting(n)' => 1 \in DOMAIN spawned /\ Last(1, n)
         /\ ~Waiting(n) => Head(spawned)[2] # Dev(n)
  <1>1. spawned \in Seq(Status \X Id)
    BY DEF TypeInv, TypeOK
  <1>2. /\ Len(spawned) \in Nat /\ Len(spawned) > 0
        /\ DOMAIN spawned = 1 .. Len(spawned)
        /\ DOMAIN spawned' = 1 .. Len(spawned) - 1
        /\ \A i \in 1 .. Len(spawned) - 1 : spawned'[i] = spawned[i + 1]
        /\ Head(spawned) = spawned[1]
    BY <1>1
  <1>3. Waiting(n)' => Waiting(n)
    BY <1>2 DEF Waiting
  <1>4. ASSUME NEW i \in DOMAIN spawned', Last(i, n)'
        PROVE  /\ i + 1 \in DOMAIN spawned
               /\ Last(i + 1, n) /\ spawned'[i] = spawned[i + 1]
    <2>1. i \in 1 .. Len(spawned) - 1 /\ i + 1 \in DOMAIN spawned
      BY <1>2
    <2>2. spawned[i + 1][2] = Dev(n)
      BY <1>2, <1>4, <2>1 DEF Last
    <2>3. ASSUME NEW j \in DOMAIN spawned, spawned[j][2] = Dev(n)
          PROVE  j <= i + 1
      <3>1. CASE j = 1
        BY <2>1, <3>1
      <3>2. CASE j # 1
        <4>1. j - 1 \in DOMAIN spawned' /\ spawned'[j - 1] = spawned[j]
          BY <1>2, <3>2
        <4>2. j - 1 <= i
          BY <1>4, <2>3, <4>1 DEF Last
        <4>3. QED
          BY <1>2, <2>1, <4>2
      <3>3. QED
        BY <3>1, <3>2
    <2>4. QED
      BY <1>2, <2>1, <2>2, <2>3 DEF Last
  <1>5. ASSUME Waiting(n), ~Waiting(n)'
        PROVE  1 \in DOMAIN spawned /\ Last(1, n)
    <2>1. ASSUME NEW j \in DOMAIN spawned, spawned[j][2] = Dev(n) PROVE j = 1
      <3> SUFFICES ASSUME j # 1 PROVE FALSE
        OBVIOUS
      <3>1. j - 1 \in DOMAIN spawned' /\ spawned'[j - 1] = spawned[j]
        BY <1>2
      <3>2. QED
        BY <1>5, <2>1, <3>1 DEF Waiting
    <2>2. QED
      BY <1>2, <1>5, <2>1 DEF Waiting, Last
  <1>6. ~Waiting(n) => Head(spawned)[2] # Dev(n)
    BY <1>2 DEF Waiting
  <1>7. QED
    BY <1>3, <1>4, <1>5, <1>6

\* What the steps that spawn nothing do to the outputs of a device
LEMMA OutputsKept ==
  ASSUME NEW n \in Node, Outputs(n), UNCHANGED spawned, status'[n] = status[n],
         \/ /\ avail'[n] = avail[n]
            /\ n \in subs'[live'] <=> n \in subs[live]
            /\ n \in outdated => n \in outdated'
         \/ /\ avail'[n] = status[n]
            /\ n \in subs'[live']
            /\ n \in outdated /\ Waiting(n) => n \in outdated'
         \/ n \in subs'[live'] /\ n \in outdated'
  PROVE  Outputs(n)'
  BY DEF Outputs, Waiting, Last

\* What a pairing does for the devices matterjs-server has, while connected
LEMMA PairingFollows ==
  ASSUME StaleInv, NEW p \in Call, Pairing(p), live # NoClient, NEW n \in Node
  PROVE  /\ UNCHANGED <<live, client, spawned, conn, todo, snap, gone>>
         /\ hub \subseteq hub' /\ hidden \subseteq hidden' \cup hub'
         /\ outdated \subseteq outdated'
         /\ \/ avail'[n] = avail[n] /\ (n \in subs'[live] <=> n \in subs[live])
            \/ avail'[n] = status[n] /\ n \in subs'[live]
            \/ n \in subs'[live] /\ n \in outdated'
         /\ \/ (n \in fabric' => n \in fabric) /\ status'[n] = status[n]
            \/ /\ status'[n] = "up" /\ UNCHANGED rows
               /\ rows[Dev(n)] # "saved" /\ ~Waiting(n) /\ ~Busy(n)
               /\ \A q \in Call : call'[q].pc = "connected" => call'[q] = call[q]
  <1> USE DEF server, clients, syncing, polling, kept, shown
  <1>0. /\ TypeInv /\ Current /\ Objects /\ CallShape(p)
        /\ call \in [Call -> CallRec]
    BY DEF StaleInv, FollowInv, TypeInv, TypeOK, CallRec, Shape, CallShape
  <1>1. UNCHANGED <<live, client, spawned, conn, todo, snap, gone>>
        /\ hub \subseteq hub' /\ hidden \subseteq hidden' \cup hub'
        /\ outdated \subseteq outdated'
    BY DEF ShowDevice, Pairing, Pair, Commissioned, CommissionRefused, CommissionLost,
           CommissionAnswered, PairSave, PairSaveFails, PairFailed, PairSaved,
           PairReoffered, PairFollow
  <1>2. live = client /\ client \in Client
    BY <1>0 DEF Current, TypeInv, TypeOK
  <1>3. \/ avail'[n] = avail[n] /\ (n \in subs'[live] <=> n \in subs[live])
        \/ avail'[n] = status[n] /\ n \in subs'[live]
        \/ n \in subs'[live] /\ n \in outdated'
    <2>1. CASE PairFollow(p)
      <3>1. Subscribe({call[p].node}, call[p].from)
        BY <1>2, <2>1, ConstantsAssumption DEF PairFollow
      <3>2. call[p].node \in Node
        BY <1>0, <2>1 DEF PairFollow, CallShape
      <3>3. CASE call[p].from = client
        BY <1>0, <1>2, <3>1, <3>2, <3>3, SubscribeCurrent
      <3>4. CASE call[p].from # client /\ n = call[p].node
        <4>1. n \in subs'[live]
          BY <1>0, <1>2, <3>1, <3>4 DEF Subscribe, TypeInv, TypeOK
        <4>2. n \in outdated'
          BY <1>2, <2>1, <3>4, ConstantsAssumption DEF PairFollow
        <4>3. QED
          BY <4>1, <4>2
      <3>5. CASE n # call[p].node
        BY <1>0, <1>2, <3>1, <3>5 DEF Subscribe, TypeInv, TypeOK
      <3>6. QED
        BY <3>3, <3>4, <3>5
    <2>2. CASE UNCHANGED <<subs, avail>>
      BY <2>2
    <2>3. QED
      BY <2>1, <2>2 DEF Pairing, Pair, Commissioned, CommissionRefused,
         CommissionLost, CommissionAnswered, PairSave, PairSaveFails, PairFailed,
         PairSaved, PairReoffered
  <1>4. CASE Commissioned(p)
    <2>1. PICK m \in Node \ fabric :
            /\ rows[Dev(m)] # "saved"
            /\ ~Busy(m)
            /\ ~Waiting(m)
            /\ ServerHas(fabric \cup {m}, [status EXCEPT ![m] = "up"])
            /\ call' = [call EXCEPT ![p].pc = "commissioned", ![p].node = m]
      BY <1>4 DEF Commissioned
    <2>2. status \in [Node -> Status]
      BY <1>0 DEF TypeInv, TypeOK
    <2>3. CASE n = m
      <3>1. \A q \in Call : call'[q].pc = "connected" => call'[q] = call[q]
        BY <1>0, <2>1 DEF CallRec
      <3>2. status'[n] = "up" /\ UNCHANGED rows
        BY <1>4, <2>1, <2>2, <2>3 DEF ServerHas, Commissioned
      <3>3. QED
        BY <1>1, <1>3, <2>1, <2>3, <3>1, <3>2 DEF Waiting
    <2>4. CASE n # m
      BY <1>1, <1>3, <2>1, <2>2, <2>4 DEF ServerHas
    <2>5. QED
      BY <2>3, <2>4
  <1>5. CASE ~Commissioned(p)
    <2>1. UNCHANGED <<fabric, status>>
      BY <1>5 DEF Pairing, Pair, CommissionRefused, CommissionLost,
         CommissionAnswered, PairSave, PairSaveFails, PairFailed, PairSaved,
         PairReoffered, PairFollow
    <2>2. QED
      BY <1>1, <1>3, <2>1
  <1>6. QED
    BY <1>4, <1>5

\* Every step keeps the last output task of a device the one of its status.
LEMMA OutputStep ==
  ASSUME StaleInv, OutputInv, Next PROVE OutputInv'
  <1> USE DEF server, clients, syncing, polling, kept, shown
  <1>0. /\ TypeInv /\ Current /\ Objects
        /\ \A n \in Node : Known(n) => Outputs(n)
    BY DEF StaleInv, FollowInv, OutputInv
  <1>1. CASE Connection
    <2>1. CASE Start \/ StayReconnect
      <3>1. subs'[live'] = {} /\ spawned' = <<>>
        BY <1>0, <2>1, ConnectFacts
           DEF Start, StayReconnect, TypeInv, TypeOK, OutputInv
      <3>2. QED
        BY <3>1 DEF OutputInv, Outputs, Waiting, Last
    <2>2. CASE Stop
      BY <2>2 DEF Stop, OutputInv, Known
    <2>3. CASE ServerLost
      BY <2>3 DEF ServerLost, OutputInv, Known
    <2>4. CASE StayLost \/ StayLose
      <3>1. live' = NoClient /\ conn' # "stopped"
        BY <1>0, <2>4 DEF StayLost, StayLose, LoseNext, Current, StaleInv
      <3>2. QED
        BY <3>1 DEF OutputInv, Known
    <2>5. QED
      BY <1>1, <2>1, <2>2, <2>3, <2>4 DEF Connection
  <1>2. CASE Sync
    <2>1. /\ conn' # "stopped"
          /\ UNCHANGED <<fabric, status, spawned, client>>
          /\ live' \in {live, NoClient}
      BY <1>2 DEF Sync, SyncNodes, SyncRows, SyncCrash, SyncFollow, SyncFollowed,
         SyncOffer, SyncConnect, OfferNext, ConnectNext
    <2>2. ASSUME NEW n \in Node, Known(n)' PROVE Outputs(n)'
      <3>1. Known(n) /\ UNCHANGED live
        BY <2>1, <2>2 DEF Known
      <3>2. CASE SyncFollow \/ SyncFollowed
        <4>1. client \in Client
          BY <1>0, <3>2 DEF SyncFollow, SyncFollowed, TypeInv, Shape
        <4>2. PICK ns \in SUBSET Node : Follow(ns)
          BY <3>2 DEF SyncFollow, SyncFollowed
        <4>3. /\ avail'[n] = IF n \in ns THEN status[n] ELSE avail[n]
              /\ n \in subs'[live] <=> n \in subs[live] \/ n \in ns
              /\ n \in outdated /\ (n \in ns => Waiting(n)) => n \in outdated'
          BY <1>0, <3>1, <4>1, <4>2, SubscribeCurrent DEF Known, Follow
        <4>4. QED
          BY <1>0, <2>1, <3>1, <4>3, OutputsKept
      <3>3. CASE UNCHANGED <<subs, avail, outdated>>
        BY <1>0, <2>1, <3>1, <3>3, OutputsKept
      <3>4. QED
        BY <1>2, <3>2, <3>3 DEF Sync, SyncNodes, SyncRows, SyncCrash, SyncOffer,
           SyncConnect
    <2>3. QED
      BY <2>1, <2>2 DEF OutputInv
  <1>3. CASE Devices
    <2>1. UNCHANGED <<live, subs, conn>>
      BY <1>3 DEF Devices, NodeUpdated, Deliver, LoopAsk, LoopAnswer, LoopReport,
         BleAdvert, Unpair, DeleteRow, ServerReset
    <2>2. ASSUME NEW m \in Node, NEW s \in Status, NodeUpdated(m, s)
          PROVE  OutputInv'
      <3>1. /\ fabric' = fabric
            /\ status' = [status EXCEPT ![m] = s]
            /\ s # status[m]
        BY <2>2 DEF NodeUpdated, ServerHas
      <3>2. /\ status \in [Node -> Status]
            /\ avail \in [Node -> Status \cup {"unset"}]
        BY <1>0 DEF TypeInv, TypeOK
      <3>3. conn' = "stopped" => spawned' = <<>>
        <4>1. conn = "stopped" => live = NoClient
          BY <1>0 DEF TypeInv, TypeOK, Shape, Current
        <4>2. QED
          BY <2>1, <2>2, <4>1 DEF NodeUpdated, OutputInv
      <3>4. ASSUME NEW n \in Node, Known(n)' PROVE Outputs(n)'
        <4>1. Known(n) /\ Outputs(n)
          BY <1>0, <2>1, <3>1, <3>4 DEF Known
        <4>2. CASE m \in subs[live] /\ avail[m] # s
          <5>1. /\ avail' = [avail EXCEPT ![m] = s]
                /\ spawned' = Append(spawned, <<s, Dev(m)>>)
            BY <2>2, <4>1, <4>2 DEF NodeUpdated, Known
          <5>2. CASE n = m
            <6>1. Waiting(n)' /\ \A i \in DOMAIN spawned' :
                                   Last(i, n)' => spawned'[i][1] = s
              BY <1>0, <5>1, <5>2, AppendOutputs
            <6>2. avail'[n] = s /\ status'[n] = s /\ n \in subs'[live']
              BY <2>1, <3>1, <3>2, <4>2, <5>1, <5>2
            <6>3. QED
              BY <6>1, <6>2 DEF Outputs
          <5>3. CASE n # m
            <6>1. /\ Waiting(n)' <=> Waiting(n)
                  /\ \A i \in DOMAIN spawned' :
                       Last(i, n)' => Last(i, n) /\ spawned'[i] = spawned[i]
              BY <1>0, <5>1, <5>3, AppendOutputs
            <6>2. avail'[n] = avail[n] /\ status'[n] = status[n]
              BY <3>1, <3>2, <5>1, <5>3
            <6>3. n \in outdated => n \in outdated'
              BY <2>2, <5>3 DEF NodeUpdated
            <6>4. QED
              BY <2>1, <4>1, <6>1, <6>2, <6>3 DEF Outputs, Last
          <5>4. QED
            BY <5>2, <5>3
        <4>3. CASE ~(m \in subs[live] /\ avail[m] # s)
          <5>1. UNCHANGED <<avail, outdated, spawned>>
            BY <2>2, <4>3 DEF NodeUpdated
          <5>02. CASE n = m /\ n \in outdated
            BY <2>1, <4>1, <5>1, <5>02 DEF Outputs, Waiting
          <5>2. CASE n = m /\ n \notin outdated
            <6>1. status'[n] = s
              BY <3>1, <3>2, <5>2
            <6>2. ~Waiting(n)
              BY <3>1, <4>1, <4>3, <5>2 DEF Outputs
            <6>3. ~Waiting(n)' /\ \A i \in DOMAIN spawned' : ~Last(i, n)'
              BY <5>1, <6>2 DEF Waiting, Last
            <6>4. n \in subs'[live'] => avail'[n] = s
              BY <2>1, <4>3, <5>1, <5>2
            <6>5. QED
              BY <6>1, <6>3, <6>4 DEF Outputs
          <5>3. CASE n # m
            <6>1. status'[n] = status[n]
              BY <3>1, <3>2, <5>3
            <6>2. QED
              BY <2>1, <4>1, <5>1, <6>1, OutputsKept
          <5>4. QED
            BY <5>02, <5>2, <5>3
        <4>4. QED
          BY <4>2, <4>3
      <3>5. QED
        BY <3>3, <3>4 DEF OutputInv
    <2>3. CASE Deliver
      <3>1. /\ UNCHANGED <<fabric, status, avail, outdated>>
            /\ spawned # <<>> /\ spawned' = Tail(spawned)
        BY <2>3 DEF Deliver
      <3>2. conn # "stopped"
        BY <3>1 DEF OutputInv
      <3>3. ASSUME NEW n \in Node, Known(n)' PROVE Outputs(n)'
        <4>1. Outputs(n)
          BY <1>0, <2>1, <3>1, <3>3 DEF Known
        <4>2. /\ Waiting(n)' => Waiting(n)
              /\ \A i \in DOMAIN spawned' :
                   Last(i, n)' => /\ i + 1 \in DOMAIN spawned
                                  /\ Last(i + 1, n)
                                  /\ spawned'[i] = spawned[i + 1]
          BY <1>0, <3>1, TailOutputs
        <4>3. QED
          BY <2>1, <3>1, <4>1, <4>2 DEF Outputs
      <3>4. QED
        BY <2>1, <3>2, <3>3 DEF OutputInv
    <2>4. CASE /\ UNCHANGED <<status, avail, outdated, spawned>>
               /\ fabric' \subseteq fabric
      <3>1. ASSUME NEW n \in Node, Known(n)' PROVE Outputs(n)'
        BY <1>0, <2>1, <2>4, <3>1, OutputsKept DEF Known
      <3>2. QED
        BY <2>1, <2>4, <3>1 DEF OutputInv
    <2>5. QED
      BY <1>3, <2>2, <2>3, <2>4 DEF Devices, LoopAsk, LoopAnswer, LoopReport,
         BleAdvert, Unpair, DeleteRow, ServerReset, ServerHas
  <1>4. ASSUME NEW p \in Call, Pairing(p) PROVE OutputInv'
    <2>1. UNCHANGED <<live, conn, spawned>>
      BY <1>4 DEF Pairing, Pair, Commissioned, CommissionRefused, CommissionLost,
         CommissionAnswered, PairSave, PairSaveFails, PairFailed, PairSaved,
         PairReoffered, PairFollow
    <2>2. ASSUME NEW n \in Node, Known(n)' PROVE Outputs(n)'
      <3>1. live # NoClient
        BY <2>1, <2>2 DEF Known
      <3>2. CASE (n \in fabric' => n \in fabric) /\ status'[n] = status[n]
        <4>1. Outputs(n)
          BY <1>0, <2>1, <2>2, <3>2 DEF Known
        <4>2. QED
          BY <1>4, <2>1, <3>1, <3>2, <4>1, OutputsKept, PairingFollows
      <3>3. CASE status'[n] = "up" /\ ~Waiting(n)
        <4>1. ~Waiting(n)' /\ \A i \in DOMAIN spawned' : ~Last(i, n)'
          BY <2>1, <3>3 DEF Waiting, Last
        <4>2. QED
          BY <3>3, <4>1 DEF Outputs
      <3>4. QED
        BY <1>4, <3>1, <3>2, <3>3, PairingFollows
    <2>3. QED
      BY <2>1, <2>2 DEF OutputInv
  <1>5. ASSUME NEW m \in Node, NEW s \in {"raw", "up"}, CommissionedLate(m, s)
        PROVE  OutputInv'
    <2>1. /\ UNCHANGED <<live, subs, avail, outdated, conn, spawned>>
          /\ fabric' = fabric \cup {m} /\ status' = [status EXCEPT ![m] = s]
      BY <1>5 DEF CommissionedLate, ServerHas
    <2>2. ASSUME NEW n \in Node, Known(n)' PROVE Outputs(n)'
      <3>1. CASE n = m
        <4>1. ~Waiting(n) /\ n \notin subs[live]
          BY <1>0, <1>5, <2>1, <2>2, <3>1
             DEF CommissionedLate, Known, TypeInv, TypeOK
        <4>2. ~Waiting(n)' /\ \A i \in DOMAIN spawned' : ~Last(i, n)'
          BY <2>1, <4>1 DEF Waiting, Last
        <4>3. QED
          BY <2>1, <4>1, <4>2 DEF Outputs
      <3>2. CASE n # m
        <4>1. Known(n) /\ status'[n] = status[n]
          BY <1>0, <2>1, <2>2, <3>2 DEF Known, TypeInv, TypeOK
        <4>2. QED
          BY <1>0, <2>1, <4>1, OutputsKept
      <3>3. QED
        BY <3>1, <3>2
    <2>3. QED
      BY <2>1, <2>2 DEF OutputInv
  <1>6. QED
    BY <1>1, <1>2, <1>3, <1>4, <1>5 DEF Next

-------------------------------------------------------------------------------
\* A reachable device the Hub does not show has somebody about to show it: an
\* output task, the pairing that saved it, the sync that will follow it, or the
\* one that followed it and connects what is available at its end; but for an
\* outdated one and one that a sync lost while it had its node (hidden).
Synced(n) ==
  \/ conn \notin {"rows", "follow", "offers", "connects", "listen"}
  \/ conn = "rows" /\ n \in snap
  \/ conn = "follow" /\ Dev(n) \in todo

Connected(n) == \E p \in Call : call[p].pc = "connected" /\ call[p].node = n

Saving(n) ==
  \E p \in Call : call[p].pc \in {"saved", "reoffered"} /\ call[p].node = n

Held(n) == Dev(n) \in hub \cup hidden \/ n \in subs[live] \/ Synced(n)

Wanted(n) ==
  /\ Known(n) /\ rows[Dev(n)] = "saved" /\ status[n] = "up"
  /\ n \notin outdated /\ Dev(n) \notin hidden

ShowPending(n) ==
  \/ Dev(n) \in hub
  \/ Waiting(n)
  \/ Saving(n)
  \/ Synced(n)
  \/ conn \in {"follow", "offers"} /\ n \in subs[live] /\ avail[n] = "up"
  \/ conn = "connects" /\ Dev(n) \in todo

ShownInv ==
  /\ StaleInv
  /\ OutputInv
  /\ \A n \in Node : Known(n) /\ Connected(n) => Held(n)
  /\ \A n \in Node : Wanted(n) => ShowPending(n)

\* Nothing is known yet, so nothing is to be shown.
LEMMA InitShownInv == Init => ShownInv
  BY InitStaleInv DEF ShownInv, Init, OutputInv, Known, Wanted

\* The connection has a sync to come, or none is connected
LEMMA ConnectionShows ==
  ASSUME ShownInv, Connection, NEW n \in Node, Known(n)' PROVE Synced(n)'
  <1> USE DEF server, clients, syncing, polling, kept, shown
  <1>1. CASE Start \/ StayReconnect \/ StayLost \/ StayLose
    <2>1. conn' \in {"handover", "losing", "backoff"}
      BY <1>1 DEF Start, StayReconnect, StayLost, StayLose, LoseNext
    <2>2. QED
      BY <2>1 DEF Synced
  <1>2. CASE Stop \/ ServerLost
    BY <1>2 DEF Stop, ServerLost, Known
  <1>3. QED
    BY <1>1, <1>2 DEF Connection

\* What is available when the offers end gets connected
LEMMA OfferNextConnects ==
  ASSUME NEW ids, NEW available, NEW id \in available, OfferNext(ids, available)
  PROVE  conn' = "offers" \/ (conn' = "connects" /\ id \in todo') \/ id \in hub'
  <1>1. CASE ConnectNext(available)
    BY <1>1 DEF ConnectNext, ShowDevice
  <1>2. CASE ~ConnectNext(available)
    BY <1>2 DEF OfferNext
  <1>3. QED
    BY <1>1, <1>2

\* A sync shows no less, but for the rows without a node it loses, and the one
\* whose node it has nevertheless
LEMMA SyncHub ==
  ASSUME TypeInv, Current, Sync, NEW n \in Node, Known(n), rows[Dev(n)] = "saved"
  PROVE  Dev(n) \in hub \cup hidden => Dev(n) \in hub' \cup hidden'
  <1> USE DEF server, clients, syncing, polling, kept, shown
  <1>1. CASE SyncFollow
    <2>1. n \in nodes[client]
      BY DEF Known, Current
    <2>2. PICK id \in gone :
            /\ hub' = hub \ {id}
            /\ hidden' = IF \E m \in nodes[client] :
                                  id = Dev(m) /\ rows[id] = "saved"
                            THEN hidden \cup {id} ELSE hidden
      BY <1>1 DEF SyncFollow
    <2>3. QED
      BY <2>1, <2>2
  <1>2. CASE SyncFollowed \/ SyncOffer
    <2>1. PICK a, ids : OfferNext(ids, a)
      BY <1>2 DEF SyncFollowed, SyncOffer
    <2>2. CASE ConnectNext(a)
      BY <2>2 DEF ConnectNext, ShowDevice
    <2>3. CASE ~ConnectNext(a)
      BY <2>1, <2>3 DEF OfferNext
    <2>4. QED
      BY <2>2, <2>3
  <1>3. CASE SyncConnect
    BY <1>3 DEF SyncConnect, ConnectNext, ShowDevice
  <1>4. CASE SyncNodes \/ SyncRows \/ SyncCrash
    BY <1>4 DEF SyncNodes, SyncRows, SyncCrash
  <1>5. QED
    BY <1>1, <1>2, <1>3, <1>4 DEF Sync

\* A device a sync is to follow stays so until the sync has followed it
LEMMA SyncSynced ==
  ASSUME StaleInv, Sync, NEW n \in Node, Known(n)', rows[Dev(n)] = "saved",
         Synced(n)
  PROVE  Synced(n)' \/ (/\ SyncFollow \/ SyncFollowed
                       /\ n \in subs'[live'] /\ avail'[n] = status[n])
  <1> USE DEF server, clients, syncing, polling, kept, shown
  <1>0. TypeInv /\ Current /\ Objects
    BY DEF StaleInv, FollowInv
  <1>1. CASE SyncNodes
    <2>1. n \in nodes[client]
      BY <1>0, <1>1 DEF SyncNodes, Known, Current
    <2>2. QED
      BY <1>1, <2>1 DEF SyncNodes, Synced
  <1>2. CASE SyncRows
    BY <1>2 DEF SyncRows, Synced
  <1>3. CASE SyncCrash
    BY <1>3 DEF SyncCrash, Synced
  <1>4. CASE SyncFollow \/ SyncFollowed
    <2>1. /\ client \in Client /\ live # NoClient /\ UNCHANGED live
          /\ conn = "follow"
      BY <1>0, <1>4 DEF SyncFollow, SyncFollowed, TypeInv, Shape, Known
    <2>2. PICK ns \in SUBSET Node :
            /\ Follow(ns)
            /\ \/ conn' = conn /\ todo' = todo \ {Dev(m) : m \in ns}
               \/ ns = {m \in Node : Dev(m) \in todo}
      BY <1>4 DEF SyncFollow, SyncFollowed
    <2>3. n \in ns => n \in subs'[live'] /\ avail'[n] = status[n]
      BY <1>0, <2>1, <2>2, SubscribeCurrent DEF Follow
    <2>4. n \notin ns => Synced(n)'
      BY <2>1, <2>2, IdFacts DEF Synced
    <2>5. QED
      BY <1>4, <2>3, <2>4
  <1>5. CASE SyncOffer \/ SyncConnect
    BY <1>5 DEF SyncOffer, SyncConnect, Synced
  <1>6. QED
    BY <1>1, <1>2, <1>3, <1>4, <1>5 DEF Sync

\* A sync's subscriptions come on top and are up to date
LEMMA SyncSubscribed ==
  ASSUME StaleInv, Sync, NEW n \in Node, Known(n)', n \in subs[live]
  PROVE  /\ n \in subs'[live']
         /\ avail'[n] \in {avail[n], status[n]}
  <1> USE DEF server, clients, syncing, polling, kept, shown
  <1>0. TypeInv /\ Current /\ Objects
    BY DEF StaleInv, FollowInv
  <1>1. UNCHANGED live /\ live # NoClient
    BY DEF Sync, SyncNodes, SyncRows, SyncCrash, SyncFollow, SyncFollowed,
           SyncOffer, SyncConnect, Known
  <1>2. CASE SyncFollow \/ SyncFollowed
    <2>1. client \in Client
      BY <1>0, <1>2 DEF SyncFollow, SyncFollowed, TypeInv, Shape
    <2>2. PICK ns \in SUBSET Node : Follow(ns)
      BY <1>2 DEF SyncFollow, SyncFollowed
    <2>3. QED
      BY <1>0, <1>1, <2>1, <2>2, SubscribeCurrent DEF Follow
  <1>3. CASE UNCHANGED <<subs, avail>>
    BY <1>1, <1>3
  <1>4. QED
    BY <1>2, <1>3 DEF Sync, SyncNodes, SyncRows, SyncCrash, SyncOffer, SyncConnect

\* A device that is outdated no more was followed by the sync
LEMMA SyncRefreshed ==
  ASSUME StaleInv, Sync, NEW n \in Node, Known(n)', n \in outdated,
         n \notin outdated'
  PROVE  /\ SyncFollow \/ SyncFollowed
         /\ n \in subs'[live'] /\ avail'[n] = status[n]
  <1> USE DEF server, clients, syncing, polling, kept, shown
  <1>1. TypeInv /\ Current /\ Objects
    BY DEF StaleInv, FollowInv
  <1>2. SyncFollow \/ SyncFollowed
    BY DEF Sync, SyncNodes, SyncRows, SyncCrash, SyncOffer, SyncConnect
  <1>3. client \in Client /\ UNCHANGED live /\ live # NoClient
    BY <1>1, <1>2 DEF SyncFollow, SyncFollowed, TypeInv, Shape, Known
  <1>4. PICK ns \in SUBSET Node : Follow(ns)
    BY <1>2 DEF SyncFollow, SyncFollowed
  <1>5. n \in ns
    BY <1>4 DEF Follow
  <1>6. QED
    BY <1>1, <1>2, <1>3, <1>4, <1>5, SubscribeCurrent DEF Follow

\* A sync holds and shows those it connects.
LEMMA SyncShows ==
  ASSUME ShownInv, Sync, NEW n \in Node, Known(n)'
  PROVE  /\ Connected(n)' => Held(n)'
         /\ Wanted(n)' => ShowPending(n)'
  <1> USE DEF server, clients, syncing, polling, kept, shown
  <1>0. /\ StaleInv /\ TypeInv /\ Current
        /\ Known(n) /\ Connected(n) => Held(n)
        /\ Wanted(n) => ShowPending(n)
        /\ \A p \in Call : CallFacts(p)
    BY DEF ShownInv, StaleInv, FollowInv, OrphanInv
  <1>1. /\ UNCHANGED <<fabric, status, rows, call, spawned, client>>
        /\ UNCHANGED live /\ Known(n)
    BY DEF Sync, SyncNodes, SyncRows, SyncCrash, SyncFollow, SyncFollowed,
           SyncOffer, SyncConnect, Known
  <1>2. ASSUME Connected(n)' PROVE Held(n)'
    <2>1. Held(n) /\ rows[Dev(n)] = "saved"
      BY <1>0, <1>1, <1>2 DEF Connected, CallFacts
    <2>2. QED
      BY <1>0, <1>1, <2>1, SyncHub, SyncSubscribed, SyncSynced DEF Held
  <1>3. ASSUME Wanted(n)' PROVE ShowPending(n)'
    <2>1. rows[Dev(n)] = "saved" /\ status[n] = "up" /\ Dev(n) \notin hidden'
      BY <1>1, <1>3 DEF Wanted
    <2>2. CASE Dev(n) \in hub \cup hidden
      BY <1>0, <1>1, <2>1, <2>2, SyncHub DEF ShowPending
    <2>3. CASE Waiting(n) \/ Saving(n)
      BY <1>1, <2>3 DEF ShowPending, Waiting, Saving
    \* n is followed and available
    <2> DEFINE ready == n \in subs'[live'] /\ avail'[n] = "up"
    <2>4. ASSUME ready, SyncFollow \/ SyncFollowed \/ SyncOffer
          PROVE  ShowPending(n)'
      <3>1. CASE SyncFollow
        BY <2>4, <3>1 DEF SyncFollow, ShowPending
      <3>2. CASE SyncFollowed
        <4>1. Dev(n) \in Available'
          BY <2>4 DEF Available
        <4>2. QED
          BY <2>4, <3>2, <4>1, OfferNextConnects DEF SyncFollowed, ShowPending
      <3>3. CASE SyncOffer
        <4>1. Dev(n) \in Available
          BY <2>4, <3>3 DEF Available, SyncOffer
        <4>2. QED
          BY <2>4, <3>3, <4>1, OfferNextConnects DEF SyncOffer, ShowPending
      <3>4. QED
        BY <2>4, <3>1, <3>2, <3>3
    <2>5. CASE Synced(n)
      BY <1>0, <2>1, <2>4, <2>5, SyncSynced DEF ShowPending
    <2>6. CASE conn \in {"follow", "offers"} /\ n \in subs[live] /\ avail[n] = "up"
      <3>1. ready
        BY <1>0, <2>1, <2>6, SyncSubscribed
      <3>2. SyncFollow \/ SyncFollowed \/ SyncOffer
        BY <2>6 DEF Sync, SyncNodes, SyncRows, SyncCrash, SyncConnect
      <3>3. QED
        BY <2>4, <3>1, <3>2
    <2>7. CASE conn = "connects" /\ Dev(n) \in todo
      BY <2>7 DEF Sync, SyncNodes, SyncRows, SyncCrash, SyncFollow, SyncFollowed,
         SyncOffer, SyncConnect, ConnectNext, ShowDevice, ShowPending
    <2>8. CASE n \in outdated
      <3>1. n \notin outdated'
        BY <1>3 DEF Wanted
      <3>2. ready /\ (SyncFollow \/ SyncFollowed)
        BY <1>0, <1>1, <2>1, <2>8, <3>1, SyncRefreshed DEF Known
      <3>3. QED
        BY <2>4, <3>2
    <2>9. CASE n \notin outdated /\ Dev(n) \notin hidden
      <3>1. ShowPending(n)
        BY <1>0, <1>1, <2>1, <2>9 DEF Wanted
      <3>2. QED
        BY <2>2, <2>3, <2>5, <2>6, <2>7, <3>1 DEF ShowPending
    <2>10. QED
      BY <2>2, <2>8, <2>9
  <1>4. QED
    BY <1>2, <1>3

\* A transition of a followed device is put out; one that is not has a follower
LEMMA UpdateShows ==
  ASSUME ShownInv, NEW n \in Node, NodeUpdated(n, "up"), Wanted(n)'
  PROVE  ShowPending(n)'
  <1> USE DEF server, clients, syncing, polling, kept, shown
  <1>0. /\ TypeInv /\ Current /\ FollowInv
        /\ Known(n) /\ Connected(n) => Held(n)
        /\ Known(n) => Outputs(n)
    BY DEF ShownInv, StaleInv, FollowInv, OutputInv
  <1>1. /\ UNCHANGED <<live, client, subs, rows, hub, hidden, conn, todo, snap,
                       call>>
        /\ n \in fabric /\ status[n] # "up"
    BY DEF NodeUpdated
  <1>2. Known(n) /\ live = client
    BY <1>0, <1>1 DEF Wanted, Known, Current
  <1>3. CASE n \in subs[live]
    <2>1. avail[n] # "up"
      <3>1. CASE n \in outdated
        BY <1>2, <1>3, <3>1 DEF NodeUpdated, Wanted
      <3>2. CASE n \notin outdated
        BY <1>0, <1>1, <1>2, <1>3, <3>2 DEF Outputs
      <3>3. QED
        BY <3>1, <3>2
    <2>2. spawned' = Append(spawned, <<"up", Dev(n)>>)
      BY <1>2, <1>3, <2>1 DEF NodeUpdated, Known
    <2>3. Waiting(n)'
      BY <1>0, <2>2, AppendOutputs DEF Status
    <2>4. QED
      BY <2>3 DEF ShowPending
  <1>4. CASE n \notin subs[live]
    <2>1. Missed(n)
      BY <1>0, <1>1, <1>2, <1>4 DEF Missed, Wanted, Known, Current
    <2>2. Pending(n)
      BY <1>0, <2>1 DEF FollowInv
    <2>3. Saving(n) \/ Connected(n) \/ Synced(n)
      BY <2>2 DEF Pending, Saving, Connected, Synced
    <2>4. Saving(n) \/ Dev(n) \in hub \/ Synced(n)
      BY <1>0, <1>1, <1>2, <1>4, <2>3 DEF Held, Wanted
    <2>5. QED
      BY <1>1, <2>4 DEF Saving, Synced, ShowPending
  <1>5. QED
    BY <1>3, <1>4

\* What matterjs-server reports of a device is shown, or an output is to show it.
LEMMA DevicesShow ==
  ASSUME ShownInv, Devices, NEW n \in Node, Known(n)'
  PROVE  /\ Connected(n)' => Held(n)'
         /\ Wanted(n)' => ShowPending(n)'
  <1> USE DEF server, clients, syncing, polling, kept, shown
  <1>0. /\ TypeInv /\ Current /\ FollowInv
        /\ Known(n) /\ Connected(n) => Held(n)
        /\ Wanted(n) => ShowPending(n)
        /\ Known(n) => Outputs(n)
    BY DEF ShownInv, StaleInv, FollowInv, OutputInv
  <1>1. UNCHANGED <<live, subs, conn, todo, snap, call>>
    BY DEF Devices, NodeUpdated, Deliver, LoopAsk, LoopAnswer, LoopReport,
           BleAdvert, Unpair, DeleteRow, ServerReset
  <1>2. fabric' \subseteq fabric /\ Known(n)
    <2>1. fabric' \subseteq fabric
      BY DEF Devices, NodeUpdated, Deliver, LoopAsk, LoopAnswer, LoopReport,
         BleAdvert, Unpair, DeleteRow, ServerReset, ServerHas
    <2>2. QED
      BY <1>1, <2>1 DEF Known
  <1>3. ASSUME Dev(n) \in hub \cup hidden => Dev(n) \in hub' \cup hidden'
        PROVE  Connected(n)' => Held(n)'
    BY <1>0, <1>1, <1>2, <1>3 DEF Connected, Held, Synced
  <1>4. ASSUME Wanted(n), Dev(n) \in hub => Dev(n) \in hub',
               Waiting(n) => Waiting(n)', avail'[n] = avail[n]
        PROVE  ShowPending(n)'
    BY <1>0, <1>1, <1>4 DEF ShowPending, Saving, Synced
  <1>5. ASSUME NEW m \in Node, NEW s \in Status, NodeUpdated(m, s)
        PROVE  /\ Connected(n)' => Held(n)'
               /\ Wanted(n)' => ShowPending(n)'
    <2>1. /\ UNCHANGED <<hub, hidden, rows>>
          /\ status' = [status EXCEPT ![m] = s]
      BY <1>5 DEF NodeUpdated, ServerHas
    <2>2. status \in [Node -> Status] /\ avail \in [Node -> Status \cup {"unset"}]
      BY <1>0 DEF TypeInv, TypeOK
    <2>3. CASE n = m
      <3>1. Wanted(n)' => s = "up"
        BY <2>1, <2>2, <2>3 DEF Wanted
      <3>2. QED
        BY <1>3, <1>5, <2>1, <2>3, <3>1, UpdateShows
    <2>4. CASE n # m
      <3>1. /\ status'[n] = status[n] /\ avail'[n] = avail[n]
            /\ n \in outdated => n \in outdated'
        BY <1>5, <2>1, <2>2, <2>4 DEF NodeUpdated
      <3>2. Waiting(n) => Waiting(n)'
        BY <1>0, <1>5, <2>4, AppendOutputs DEF NodeUpdated, Waiting
      <3>3. QED
        BY <1>2, <1>3, <1>4, <2>1, <3>1, <3>2 DEF Wanted
    <2>5. QED
      BY <2>3, <2>4
  <1>6. CASE Deliver
    <2>1. /\ UNCHANGED <<rows, status, avail, outdated>>
          /\ spawned # <<>> /\ spawned' = Tail(spawned)
          /\ hub' = IF Head(spawned)[1] = "up" THEN hub \cup {Head(spawned)[2]}
                    ELSE hub \ {Head(spawned)[2]}
          /\ hidden' = hidden \ {Head(spawned)[2]}
      BY <1>6 DEF Deliver, ShowDevice, LoseDevice
    <2>2. /\ Waiting(n) /\ ~Waiting(n)' => 1 \in DOMAIN spawned /\ Last(1, n)
          /\ ~Waiting(n) => Head(spawned)[2] # Dev(n)
      BY <1>0, <2>1, TailOutputs
    <2>3. CASE Waiting(n)
      <3>1. n \in subs[live]
        BY <1>0, <1>2, <2>3 DEF Outputs
      <3>2. Wanted(n)' => Waiting(n)' \/ Dev(n) \in hub'
        <4>1. SUFFICES ASSUME Wanted(n)', ~Waiting(n)' PROVE Dev(n) \in hub'
          OBVIOUS
        <4>2. spawned[1][1] = "up" /\ spawned[1][2] = Dev(n)
          BY <1>0, <1>2, <2>1, <2>2, <2>3, <4>1 DEF Outputs, Last, Wanted
        <4>3. Head(spawned) = spawned[1]
          OBVIOUS
        <4>4. QED
          BY <2>1, <4>2, <4>3
      <3>3. QED
        BY <1>1, <3>1, <3>2 DEF Held, ShowPending
    <2>4. CASE ~Waiting(n)
      <3>1. /\ Dev(n) \in hub => Dev(n) \in hub'
            /\ Dev(n) \in hidden <=> Dev(n) \in hidden'
        BY <2>1, <2>2, <2>4
      <3>2. QED
        BY <1>2, <1>3, <1>4, <2>1, <2>4, <3>1 DEF Wanted
    <2>5. QED
      BY <2>3, <2>4
  <1>7. ASSUME NEW m \in Node, DeleteRow(m)
        PROVE  /\ Connected(n)' => Held(n)'
               /\ Wanted(n)' => ShowPending(n)'
    <2>1. /\ UNCHANGED <<status, avail, outdated, spawned, call>>
          /\ hub' = hub \ {Dev(m)} /\ hidden' = hidden \ {Dev(m)}
          /\ rows' = [rows EXCEPT ![Dev(m)] = "none"]
          /\ ~Busy(m)
      BY <1>7 DEF DeleteRow, LoseDevice
    <2>2. CASE n = m
      <3>1. ~Connected(n)'
        BY <2>1, <2>2 DEF Connected, Busy
      <3>2. ~Wanted(n)'
        BY <1>0, <2>1, <2>2, IdFacts DEF Wanted, TypeInv, TypeOK
      <3>3. QED
        BY <3>1, <3>2
    <2>3. CASE n # m
      <3>1. /\ Dev(n) \in hub => Dev(n) \in hub'
            /\ Dev(n) \in hidden <=> Dev(n) \in hidden'
        BY <2>1, <2>3, IdFacts
      <3>2. Wanted(n)' => Wanted(n)
        BY <1>0, <1>2, <2>1, <2>3, <3>1, IdFacts DEF Wanted, TypeInv, TypeOK
      <3>3. Waiting(n) => Waiting(n)'
        BY <2>1 DEF Waiting
      <3>4. QED
        BY <1>3, <1>4, <2>1, <3>1, <3>2, <3>3
    <2>4. QED
      BY <2>2, <2>3
  <1>8. CASE UNCHANGED <<status, avail, outdated, rows, hub, hidden, spawned>>
    BY <1>2, <1>3, <1>4, <1>8 DEF Wanted, Waiting
  <1>9. QED
    BY <1>5, <1>6, <1>7, <1>8 DEF Devices, LoopAsk, LoopAnswer, LoopReport,
       BleAdvert, Unpair, ServerReset, ServerHas

\* The device of a row saved has its pairing to connect it, which it does before
\* it follows the device
LEMMA PairingShows ==
  ASSUME ShownInv, NEW p \in Call, Pairing(p), NEW n \in Node, Known(n)'
  PROVE  /\ Connected(n)' => Held(n)'
         /\ Wanted(n)' => ShowPending(n)'
  <1> USE DEF server, clients, syncing, polling, kept, shown
  <1>0. /\ StaleInv /\ TypeInv /\ Current /\ CallFacts(p) /\ CallShape(p)
        /\ Known(n) /\ Connected(n) => Held(n)
        /\ Wanted(n) => ShowPending(n)
        /\ call \in [Call -> CallRec]
        /\ rows \in [Id -> RowState]
    BY DEF ShownInv, StaleInv, FollowInv, OrphanInv, TypeInv, TypeOK, CallRec,
           Shape, CallShape
  <1>1. live # NoClient
    BY DEF Known, Pairing, Pair, Commissioned, CommissionRefused, CommissionLost,
           CommissionAnswered, PairSave, PairSaveFails, PairFailed, PairSaved,
           PairReoffered, PairFollow
  <1>2. /\ UNCHANGED <<live, client, spawned, conn, todo, snap, gone>>
        /\ hub \subseteq hub' /\ hidden \subseteq hidden' \cup hub'
        /\ outdated \subseteq outdated'
        /\ \/ avail'[n] = avail[n] /\ (n \in subs'[live] <=> n \in subs[live])
           \/ avail'[n] = status[n] /\ n \in subs'[live]
           \/ n \in subs'[live] /\ n \in outdated'
        /\ \/ (n \in fabric' => n \in fabric) /\ status'[n] = status[n]
           \/ /\ status'[n] = "up" /\ UNCHANGED rows
              /\ rows[Dev(n)] # "saved" /\ ~Waiting(n) /\ ~Busy(n)
              /\ \A q \in Call : call'[q].pc = "connected" => call'[q] = call[q]
    BY <1>0, <1>1, PairingFollows
  <1>3. client # NoClient
    BY <1>0, <1>1 DEF Current
  <1>4. \A q \in Call \ {p} : call'[q] = call[q]
    BY <1>0, OtherCalls
  \* The call connects n now
  <1>5. CASE /\ PairSaved(p) \/ PairReoffered(p)
             /\ call[p].node = n /\ call'[p].pc = "connected"
    <2>1. Dev(n) \in hub'
      BY <1>0, <1>3, <1>5 DEF PairSaved, PairReoffered, ShowDevice, CallRec
    <2>2. QED
      BY <2>1 DEF Held, ShowPending
  <1>6. CASE ~(/\ PairSaved(p) \/ PairReoffered(p)
               /\ call[p].node = n /\ call'[p].pc = "connected")
    <2>1. CASE (n \in fabric' => n \in fabric) /\ status'[n] = status[n]
      <3>1. Known(n)
        BY <1>1, <1>2, <2>1 DEF Known
      <3>2. Connected(n)' => Connected(n)
        <4>1. ASSUME call'[p].pc = "connected", call'[p].node = n
              PROVE  FALSE
          <5>1. CASE PairSaved(p) \/ PairReoffered(p)
            <6>1. call'[p].node = call[p].node
              BY <1>0, <4>1, <5>1
                 DEF PairSaved, PairReoffered, End, NoCall, CallRec
            <6>2. QED
              BY <1>6, <4>1, <5>1, <6>1
          <5>2. ASSUME NEW r, End(p, r) PROVE FALSE
            BY <1>0, <4>1, <5>2 DEF End, NoCall
          <5>3. CASE Fail(p)
            BY <1>0, <4>1, <5>2, <5>3 DEF Fail, CallRec
          <5>4. ASSUME NEW id \in Id, Pair(p, id) PROVE FALSE
            BY <1>0, <4>1, <5>4 DEF Pair
          <5>5. CASE Commissioned(p)
            BY <1>0, <4>1, <5>5 DEF Commissioned, CallRec
          <5>6. CASE CommissionAnswered(p) \/ PairSave(p)
            BY <1>0, <4>1, <5>6 DEF CommissionAnswered, PairSave, CallRec
          <5>7. QED
            BY <5>1, <5>2, <5>3, <5>4, <5>5, <5>6 DEF Pairing, CommissionRefused, CommissionLost,
               PairSaveFails, PairFailed, PairFollow
        <4>2. QED
          BY <1>4, <4>1 DEF Connected
      <3>3. Connected(n)' => Held(n)'
        BY <1>0, <1>2, <3>1, <3>2 DEF Held, Synced
      <3>4. ASSUME Wanted(n)' PROVE ShowPending(n)'
        <4>1. CASE PairSave(p) /\ call[p].node = n
          BY <1>0, <4>1 DEF PairSave, CallRec, ShowPending, Saving
        <4>2. CASE ~(PairSave(p) /\ call[p].node = n)
          <5>1. rows[Dev(n)] = "saved"
            BY <1>0, <3>4, <4>2, PairingSaves DEF Wanted
          <5>2. (ShowPending(n) /\ status[n] = "up") \/ Dev(n) \in hub'
            BY <1>0, <1>2, <2>1, <3>1, <3>4, <5>1 DEF Wanted
          <5>3. Saving(n) => Saving(n)'
            <6>1. ASSUME call[p].pc \in {"saved", "reoffered"}, call[p].node = n
                  PROVE  call'[p].pc \in {"saved", "reoffered"}
                         /\ call'[p].node = n
              BY <1>0, <1>3, <1>6, <6>1 DEF Pairing, Pair, Commissioned,
                 CommissionRefused, CommissionLost, CommissionAnswered, PairSave,
                 PairSaveFails, PairFailed, PairSaved, PairReoffered, PairFollow,
                 CallRec
            <6>2. QED
              BY <1>4, <6>1 DEF Saving
          <5>4. QED
            BY <1>2, <3>4, <5>2, <5>3 DEF ShowPending, Synced, Waiting, Wanted
        <4>3. QED
          BY <4>1, <4>2
      <3>5. QED
        BY <3>3, <3>4
    <2>2. CASE /\ status'[n] = "up" /\ UNCHANGED rows
               /\ rows[Dev(n)] # "saved" /\ ~Waiting(n) /\ ~Busy(n)
               /\ \A q \in Call : call'[q].pc = "connected" => call'[q] = call[q]
      <3>1. ~Connected(n)' /\ ~Wanted(n)'
        BY <2>2 DEF Connected, Busy, Wanted
      <3>2. QED
        BY <3>1
    <2>3. QED
      BY <1>2, <2>1, <2>2
  <1>7. QED
    BY <1>5, <1>6

\* A node commissioned late has no device, and the others stay as they are
LEMMA LateShows ==
  ASSUME ShownInv, NEW m \in Node, NEW s \in {"raw", "up"},
         CommissionedLate(m, s), NEW n \in Node, Known(n)'
  PROVE  /\ Connected(n)' => Held(n)'
         /\ Wanted(n)' => ShowPending(n)'
  <1> USE DEF server, clients, syncing, polling, kept, shown
  <1>1. /\ status \in [Node -> Status]
        /\ Known(n) /\ Connected(n) => Held(n)
        /\ Wanted(n) => ShowPending(n)
    BY DEF ShownInv, StaleInv, FollowInv, TypeInv, TypeOK
  <1>2. /\ UNCHANGED <<live, subs, avail, outdated, rows, hub, hidden, spawned,
                       conn, todo, snap, call>>
        /\ fabric' = fabric \cup {m} /\ status' = [status EXCEPT ![m] = s]
    BY DEF CommissionedLate, ServerHas
  <1>3. CASE n = m
    <2>1. ~Connected(n)' /\ ~Wanted(n)'
      BY <1>2, <1>3 DEF CommissionedLate, Connected, Busy, Wanted
    <2>2. QED
      BY <2>1
  <1>4. CASE n # m
    <2>1. Known(n) /\ status'[n] = status[n]
      BY <1>1, <1>2, <1>4 DEF Known
    <2>2. Connected(n)' => Held(n)'
      BY <1>1, <1>2, <2>1 DEF Connected, Held, Synced
    <2>3. Wanted(n)' => ShowPending(n)'
      BY <1>1, <1>2, <2>1 DEF Wanted, ShowPending, Saving, Synced, Waiting
    <2>4. QED
      BY <2>2, <2>3
  <1>5. QED
    BY <1>3, <1>4

\* Every step keeps the invariant.
LEMMA NextShownInv == ShownInv /\ [Next]_vars => ShownInv'
  <1> SUFFICES ASSUME ShownInv, [Next]_vars PROVE ShownInv'
    OBVIOUS
  <1>1. StaleInv'
    BY NextStaleInv DEF ShownInv
  <1>2. CASE UNCHANGED vars
    <2>1. OutputInv'
      BY <1>2 DEF ShownInv, vars, OutputInv, Known, Outputs, Waiting, Last
    <2>2. QED
      BY <1>1, <1>2, <2>1 DEF ShownInv, vars, Known, Connected, Held, Synced,
         Wanted, ShowPending, Saving, Waiting
  <1>3. CASE Next
    <2>1. OutputInv'
      BY <1>3, OutputStep DEF ShownInv
    <2>2. ASSUME NEW n \in Node, Known(n)'
          PROVE  /\ Connected(n)' => Held(n)'
                 /\ Wanted(n)' => ShowPending(n)'
      <3>1. CASE Connection
        BY <2>2, <3>1, ConnectionShows DEF Held, ShowPending
      <3>2. QED
        BY <1>3, <2>2, <3>1, SyncShows, DevicesShow, PairingShows, LateShows
           DEF Next
    <2>3. QED
      BY <1>1, <2>1, <2>2 DEF ShownInv, Wanted
  <1>4. QED
    BY <1>2, <1>3

\* Once all is settled the Hub shows every device that matterjs-server reaches: no
\* order of the syncs' outputs, the callbacks', the outages' and the pairings' ends
\* with a lose of it, but for the two of the code, which are named: a pairing that
\* followed the device with a former client's node object, and a sync that lost it
\* while it had its node, each until the device's next output.
THEOREM ReachableShown == Spec => []ReachableIsShown
  <1>1. Init => ShownInv
    BY InitShownInv
  <1>2. ShownInv /\ [Next]_vars => ShownInv'
    BY NextShownInv
  <1>3. ShownInv => ReachableIsShown
    <2> SUFFICES ASSUME ShownInv, NEW n \in SettledDevices, n \notin outdated,
                        status[n] = "up", Dev(n) \notin hidden
                 PROVE  Dev(n) \in hub
      BY DEF ReachableIsShown
    <2>1. Settled /\ n \in nodes[client] /\ rows[Dev(n)] = "saved"
      BY DEF SettledDevices
    <2>2. TypeInv /\ Current
      BY DEF ShownInv, StaleInv, FollowInv
    <2>3. client \in Client /\ live = client /\ n \in Node /\ n \in fabric
      BY <2>1, <2>2, ConstantsAssumption
         DEF Settled, TypeInv, TypeOK, Shape, Current
    <2>4. Wanted(n)
      BY <2>1, <2>3, ConstantsAssumption DEF Wanted, Known
    <2>5. ~Waiting(n) /\ ~Saving(n) /\ ~Synced(n) /\ conn = "listen"
      BY <2>1 DEF Settled, Waiting, Saving, Synced
    <2>6. QED
      BY <2>3, <2>4, <2>5 DEF ShownInv, ShowPending
  <1>4. QED
    BY <1>1, <1>2, <1>3, PTL DEF Spec
===============================================================================
