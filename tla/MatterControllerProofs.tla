------------------------ MODULE MatterControllerProofs ------------------------
(* What is proved of MatterController for every value of its constants. *)
EXTENDS MatterController, TLAPS

\* TypeOK is not inductive alone: that a subscription finds a node object, and a
\* pairing its node, takes what ties the program counters to the variables.
Shape ==
  /\ conn # "stopped" <=> client \in Client
  /\ asking # NoClient => conn # "stopped"
  /\ \A p \in Call :
       /\ call[p].pc # "idle" => call[p].from \in Client
       /\ call[p].pc \notin {"idle", "commissioning"} => call[p].node \in Node

TypeInv == TypeOK /\ Shape

\* The identifiers: which are Ids, and that a device's is its own
LEMMA IdFacts ==
  /\ ByCode \in Id
  /\ \A n \in Node : Dev(n) \in Id /\ Mdns(n) \in Id /\ Ble(n) \in Id
  /\ \A m, n \in Node : Dev(m) = Dev(n) => m = n
  BY DEF Id, Dev, Mdns, Ble, ByCode

\* Connect keeps the clients' variables typed
LEMMA ConnectType ==
  ASSUME TypeOK, Connect
  PROVE  /\ live' \in Client \cup {NoClient}
         /\ client' \in Client \cup {NoClient}
         /\ nodes' \in [Client -> SUBSET Node]
         /\ object' \in [Client -> [Node -> Status]]
         /\ subs' \in [Client -> SUBSET Node]
  BY DEF TypeOK, Connect, Status

\* The client of a connection was nobody's, and has the fabric's nodes
LEMMA ConnectFacts ==
  ASSUME Connect
  PROVE  \E c \in Client \ ({call[p].from : p \in Call} \cup {client, asking}) :
           /\ live' = c /\ client' = c
           /\ nodes' = [x \in Client |->
                 IF x = c THEN fabric
                 ELSE IF x \in {call[p].from : p \in Call} \cup {client, asking}
                   THEN nodes[x] ELSE {}]
           /\ object' = [x \in Client |->
                 IF x = c THEN status
                 ELSE IF x \in {call[p].from : p \in Call} \cup {client, asking}
                   THEN object[x]
                 ELSE [n \in Node |-> "down"]]
           /\ subs' = [x \in Client |->
                 IF x \in ({call[p].from : p \in Call} \cup {client, asking})
                            \ {c}
                   THEN subs[x] ELSE {}]
  <1> DEFINE held == {call[p].from : p \in Call} \cup {client, asking}
             c == CHOOSE x \in Client \ held : TRUE
  <1>1. c \in Client \ held
    BY DEF Connect
  <1>2. QED
    BY <1>1 DEF Connect

\* matterjs-server's nodes and their statuses keep their types.
LEMMA ServerHasType ==
  ASSUME TypeOK, NEW k \in SUBSET Node, NEW s \in [Node -> Status],
         ServerHas(k, s)
  PROVE  /\ fabric' \subseteq Node
         /\ status' \in [Node -> Status]
         /\ nodes' \in [Client -> SUBSET Node]
         /\ object' \in [Client -> [Node -> Status]]
  BY DEF TypeOK, ServerHas

\* The identifiers of any set of devices
LEMMA DevIds ==
  ASSUME NEW S, S \subseteq Node
  PROVE  {Dev(n) : n \in S} \subseteq Id
  BY IdFacts

\* A pair_device call, wherever it is
CallRec == [pc : CallPc, disc : Id, node : Node \cup {NoNode},
            from : Client \cup {NoClient}, commissioned : BOOLEAN,
            result : {"none", "device", "error"}]

\* A call that has ended is a call.
LEMMA NoCallType ==
  ASSUME NEW r \in {"none", "device", "error"}
  PROVE  NoCall(r) \in CallRec
  BY IdFacts DEF NoCall, CallRec, CallPc

\* What is heard of is an id.
LEMMA AvailableType == Available \subseteq Id
  BY DevIds DEF Available

\* The types hold before the start.
LEMMA InitTypeOK == Init => TypeOK
  <1> SUFFICES ASSUME Init PROVE TypeOK
    OBVIOUS
  <1>1. rows \in [Id -> RowState]
    BY DEF Init, RowState
  <1>2. call \in [Call -> CallRec]
    BY NoCallType DEF Init
  <1>3. budget \in [Event -> Nat]
    BY ConstantsAssumption DEF Init
  <1>4. status \in [Node -> Status] /\ object \in [Client -> [Node -> Status]]
    BY DEF Init, Status
  <1>5. spawned \in Seq(Status \X Id)
    BY DEF Init
  <1>6. QED
    BY <1>1, <1>2, <1>3, <1>4, <1>5 DEF Init, TypeOK, ConnPc, CallRec

\* Spending keeps the budget typed
LEMMA SpendType ==
  ASSUME TypeOK, NEW kind \in Event, Spend(kind)
  PROVE  budget' \in [Event -> Nat]
  BY DEF TypeOK, Spend

\* The loss of a device keeps the types.
LEMMA LoseNextType ==
  ASSUME TypeOK, NEW ids \in SUBSET Id, LoseNext(ids)
  PROVE  /\ avail' \in [Node -> Status \cup {"unset"}]
         /\ hub' \subseteq Id
         /\ hidden' \subseteq Id
         /\ todo' \subseteq Id
         /\ conn' \in ConnPc
  BY DEF TypeOK, LoseNext, LoseDevice, ConnPc, Status, shown

\* A subscription keeps the types.
LEMMA SubscribeType ==
  ASSUME TypeOK, NEW ns \in SUBSET Node, NEW c \in Client, Subscribe(ns, c)
  PROVE  /\ subs' \in [Client -> SUBSET Node]
         /\ avail' \in [Node -> Status \cup {"unset"}]
  <1>1. object[c] \in [Node -> Status]
    BY DEF TypeOK
  <1>2. avail' \in [Node -> Status \cup {"unset"}]
    BY <1>1 DEF TypeOK, Subscribe
  <1>3. subs' \in [Client -> SUBSET Node]
    BY DEF TypeOK, Subscribe
  <1>4. QED
    BY <1>2, <1>3

\* A connect of a sync keeps the types.
LEMMA ConnectNextType ==
  ASSUME TypeOK, NEW ids \in SUBSET Id, ConnectNext(ids)
  PROVE  /\ hub' \subseteq Id
         /\ hidden' \subseteq Id
         /\ todo' \subseteq Id
         /\ snap' \subseteq Node
         /\ devs' \subseteq Node
         /\ conn' \in ConnPc \ {"stopped"}
         /\ starting' \in BOOLEAN
  BY DEF TypeOK, ConnectNext, ShowDevice, ConnPc, SyncPc, shown

\* An offer of a sync keeps the types.
LEMMA OfferNextType ==
  ASSUME TypeOK, NEW ids \in SUBSET Id, NEW a \in SUBSET Id, OfferNext(ids, a)
  PROVE  /\ discoveries' \subseteq Id
         /\ unoffered' \subseteq Node
         /\ hub' \subseteq Id
         /\ hidden' \subseteq Id
         /\ todo' \subseteq Id
         /\ snap' \subseteq Node
         /\ devs' \subseteq Node
         /\ conn' \in ConnPc \ {"stopped"}
         /\ starting' \in BOOLEAN
  <1> DEFINE raw == {Dev(n) : n \in {m \in Node : object[client][m] = "raw"}}
  <1>1. PICK passed \in SUBSET (ids \cap raw) :
          /\ unoffered' = unoffered \cup {n \in Node : Dev(n) \in passed}
          /\ \/ /\ \E id \in ids \ raw :
                     /\ discoveries' = discoveries \cup {id}
                     /\ todo' = ids \ (passed \cup {id})
                /\ conn' = "offers"
                /\ UNCHANGED <<shown, starting, snap, devs>>
             \/ /\ ids = passed
                /\ ConnectNext(a)
                /\ UNCHANGED discoveries
    BY DEF OfferNext
  <1>2. CASE /\ \E id \in ids \ raw :
                  /\ discoveries' = discoveries \cup {id}
                  /\ todo' = ids \ (passed \cup {id})
             /\ conn' = "offers"
             /\ UNCHANGED <<shown, starting, snap, devs>>
    BY <1>1, <1>2 DEF TypeOK, ConnPc, SyncPc, shown
  <1>3. CASE ConnectNext(a) /\ UNCHANGED discoveries
    BY <1>1, <1>3, ConnectNextType DEF TypeOK
  <1>4. QED
    BY <1>1, <1>2, <1>3

-------------------------------------------------------------------------------
\* The typed invariant holds before the start.
LEMMA InitTypeInv == Init => TypeInv
  <1> SUFFICES ASSUME Init PROVE TypeInv
    OBVIOUS
  <1>1. \A p \in Call : call[p].pc = "idle"
    BY DEF Init, NoCall
  <1>2. Shape
    BY <1>1, ConstantsAssumption DEF Init, Shape
  <1>3. QED
    BY <1>2, InitTypeOK DEF TypeInv

\* The steps of the connection
LEMMA ConnectionType == ASSUME TypeInv, Connection PROVE TypeInv'
  <1> USE DEF server, clients, syncing, polling, kept, shown
  <1>0. TypeOK /\ Shape
    BY DEF TypeInv
  <1>1. CASE Start
    <2>1. client' \in Client
      BY <1>1 DEF Start, Connect
    <2>2. TypeOK'
      BY <1>0, <1>1, ConnectType, IdFacts DEF Start, TypeOK, ConnPc, SyncPc
    <2>3. QED
      BY <1>0, <1>1, <2>1, <2>2 DEF TypeInv, Shape, Start
  <1>2. CASE Stop
    <2>1. budget' \in [Event -> Nat]
      BY <1>0, <1>2, SpendType DEF Stop, Event
    <2>2. spawned' \in Seq(Status \X Id)
      BY <1>2 DEF Stop
    <2>3. TypeOK'
      BY <1>0, <1>2, <2>1, <2>2 DEF Stop, TypeOK, ConnPc
    <2>4. QED
      BY <1>0, <1>2, <2>3, ConstantsAssumption DEF TypeInv, Shape, Stop
  <1>3. CASE ServerLost
    <2>1. budget' \in [Event -> Nat]
      BY <1>0, <1>3, SpendType DEF ServerLost, Event
    <2>2. QED
      BY <1>0, <1>3, <2>1 DEF TypeInv, Shape, TypeOK, ServerLost
  <1>4. CASE StayLost
    <2>1. Available \in SUBSET Id
      BY AvailableType
    <2>2. /\ avail' \in [Node -> Status \cup {"unset"}]
          /\ hub' \subseteq Id
          /\ hidden' \subseteq Id
          /\ todo' \subseteq Id
          /\ conn' \in ConnPc
      BY <1>0, <1>4, <2>1, LoseNextType DEF StayLost
    <2>3. conn' # "stopped"
      BY <1>4 DEF StayLost, LoseNext
    <2>4. TypeOK'
      BY <1>0, <1>4, <2>2 DEF TypeOK, StayLost
    <2>5. QED
      BY <1>0, <1>4, <2>3, <2>4 DEF TypeInv, Shape, StayLost
  <1>5. CASE StayLose
    <2>1. todo \in SUBSET Id
      BY <1>0 DEF TypeOK
    <2>2. /\ avail' \in [Node -> Status \cup {"unset"}]
          /\ hub' \subseteq Id
          /\ hidden' \subseteq Id
          /\ todo' \subseteq Id
          /\ conn' \in ConnPc
      BY <1>0, <1>5, <2>1, LoseNextType DEF StayLose
    <2>3. conn' # "stopped"
      BY <1>5 DEF StayLose, LoseNext
    <2>4. TypeOK'
      BY <1>0, <1>5, <2>2 DEF TypeOK, StayLose
    <2>5. QED
      BY <1>0, <1>5, <2>3, <2>4 DEF TypeInv, Shape, StayLose
  <1>6. CASE StayReconnect
    <2>1. client' \in Client
      BY <1>6 DEF StayReconnect, Connect
    <2>2. TypeOK'
      BY <1>0, <1>6, ConnectType DEF StayReconnect, TypeOK, ConnPc, SyncPc
    <2>3. QED
      BY <1>0, <1>6, <2>1, <2>2 DEF TypeInv, Shape, StayReconnect
  <1>7. QED
    BY <1>1, <1>2, <1>3, <1>4, <1>5, <1>6 DEF Connection

\* The steps of a sync
LEMMA SyncType == ASSUME TypeInv, Sync PROVE TypeInv'
  <1> USE DEF server, clients, syncing, polling, kept, shown
  <1>0. TypeOK /\ Shape
    BY DEF TypeInv
  <1>1. CASE SyncNodes
    <2>1. snap' \subseteq Node
      BY <1>0, <1>1 DEF SyncNodes, TypeOK, Shape
    <2>2. TypeOK'
      BY <1>0, <1>1, <2>1 DEF SyncNodes, TypeOK, ConnPc, SyncPc
    <2>3. QED
      BY <1>0, <1>1, <2>2 DEF TypeInv, Shape, SyncNodes
  <1>2. CASE SyncRows
    <2> DEFINE followed == {Dev(n) : n \in {m \in snap : rows[Dev(m)] = "saved"}}
    <2>1. followed \subseteq Id
      BY <1>0, DevIds DEF TypeOK
    <2>2. todo' \subseteq Id /\ gone' \subseteq Id
      BY <1>2, <2>1 DEF SyncRows
    <2>3. TypeOK'
      BY <1>0, <1>2, <2>2 DEF SyncRows, TypeOK, ConnPc, SyncPc
    <2>4. QED
      BY <1>0, <1>2, <2>3 DEF TypeInv, Shape, SyncRows
  <1>3. CASE SyncCrash
    <2>1. budget' \in [Event -> Nat]
      BY <1>0, <1>3, SpendType DEF SyncCrash, Event
    <2>2. TypeOK'
      BY <1>0, <1>3, <2>1 DEF SyncCrash, TypeOK, ConnPc
    <2>3. QED
      BY <1>0, <1>3, <2>2 DEF TypeInv, Shape, SyncCrash
  <1>4. CASE SyncFollow
    <2>1. client \in Client
      BY <1>0, <1>4 DEF SyncFollow, Shape
    <2>2. PICK ns \in SUBSET {n \in Node : Dev(n) \in todo} :
            /\ Follow(ns)
            /\ devs' = devs \cup ns
            /\ todo' = todo \ {Dev(n) : n \in ns}
      BY <1>4 DEF SyncFollow
    <2>3. /\ subs' \in [Client -> SUBSET Node]
          /\ avail' \in [Node -> Status \cup {"unset"}]
          /\ outdated' \subseteq Node
      BY <1>0, <2>1, <2>2, SubscribeType DEF Follow, TypeOK
    <2>4. /\ devs' \subseteq Node /\ todo' \subseteq Id
      BY <1>0, <2>2 DEF TypeOK
    <2>5. hub' \subseteq Id /\ hidden' \subseteq Id /\ gone' \subseteq Id
      BY <1>0, <1>4 DEF SyncFollow, TypeOK
    <2>6. TypeOK'
      BY <1>0, <1>4, <2>3, <2>4, <2>5 DEF SyncFollow, TypeOK
    <2>7. QED
      BY <1>0, <1>4, <2>6 DEF TypeInv, Shape, SyncFollow
  <1>5. CASE SyncFollowed
    <2> DEFINE ns == {n \in Node : Dev(n) \in todo}
               new == {Dev(n) : n \in nodes[client] \ (devs \cup ns)}
    <2>1. client \in Client
      BY <1>0, <1>5 DEF SyncFollowed, Shape
    <2>2. Follow(ns) /\ OfferNext(new, Available')
      BY <1>5 DEF SyncFollowed
    <2>3. /\ subs' \in [Client -> SUBSET Node]
          /\ avail' \in [Node -> Status \cup {"unset"}]
          /\ outdated' \subseteq Node
      BY <1>0, <2>1, <2>2, SubscribeType DEF Follow, TypeOK
    <2>4. new \subseteq Id
      BY <1>0, <2>1, DevIds DEF TypeOK
    <2>5. Available' \subseteq Id
      BY DevIds DEF Available
    <2>6. /\ discoveries' \subseteq Id
          /\ unoffered' \subseteq Node
          /\ hub' \subseteq Id
          /\ hidden' \subseteq Id
          /\ todo' \subseteq Id
          /\ snap' \subseteq Node
          /\ devs' \subseteq Node
          /\ conn' \in ConnPc \ {"stopped"}
          /\ starting' \in BOOLEAN
      BY <1>0, <2>2, <2>4, <2>5, OfferNextType
    <2>7. TypeOK'
      BY <1>0, <1>5, <2>3, <2>6 DEF SyncFollowed, TypeOK
    <2>8. QED
      BY <1>0, <1>5, <2>1, <2>6, <2>7 DEF TypeInv, Shape, SyncFollowed
  <1>6. CASE SyncOffer
    <2>1. todo \subseteq Id /\ Available \subseteq Id
      BY <1>0, AvailableType DEF TypeOK
    <2>2. /\ discoveries' \subseteq Id
          /\ unoffered' \subseteq Node
          /\ hub' \subseteq Id
          /\ hidden' \subseteq Id
          /\ todo' \subseteq Id
          /\ snap' \subseteq Node
          /\ devs' \subseteq Node
          /\ conn' \in ConnPc \ {"stopped"}
          /\ starting' \in BOOLEAN
      BY <1>0, <1>6, <2>1, OfferNextType DEF SyncOffer
    <2>3. TypeOK'
      BY <1>0, <1>6, <2>2 DEF SyncOffer, TypeOK
    <2>4. QED
      BY <1>0, <1>6, <2>2, <2>3 DEF TypeInv, Shape, SyncOffer
  <1>7. CASE SyncConnect
    <2>1. todo \subseteq Id
      BY <1>0 DEF TypeOK
    <2>2. /\ hub' \subseteq Id
          /\ hidden' \subseteq Id
          /\ todo' \subseteq Id
          /\ snap' \subseteq Node
          /\ devs' \subseteq Node
          /\ conn' \in ConnPc \ {"stopped"}
          /\ starting' \in BOOLEAN
      BY <1>0, <1>7, <2>1, ConnectNextType DEF SyncConnect
    <2>3. TypeOK'
      BY <1>0, <1>7, <2>2 DEF SyncConnect, TypeOK
    <2>4. QED
      BY <1>0, <1>7, <2>2, <2>3 DEF TypeInv, Shape, SyncConnect
  <1>8. QED
    BY <1>1, <1>2, <1>3, <1>4, <1>5, <1>6, <1>7 DEF Sync

\* The steps of the nodes, the output tasks, the discoveries and the removals
LEMMA DevicesType == ASSUME TypeInv, Devices PROVE TypeInv'
  <1> USE DEF server, clients, syncing, polling, kept, shown
  <1>0. TypeOK /\ Shape
    BY DEF TypeInv
  <1>1. CASE \E n \in Node, s \in Status : NodeUpdated(n, s)
    <2>1. PICK n \in Node, s \in Status : NodeUpdated(n, s)
      BY <1>1
    <2>2. budget' \in [Event -> Nat]
      BY <1>0, <2>1, SpendType DEF NodeUpdated, Event
    <2>3. [status EXCEPT ![n] = s] \in [Node -> Status] /\ fabric \in SUBSET Node
      BY <1>0 DEF TypeOK
    <2>4. /\ fabric' \subseteq Node
          /\ status' \in [Node -> Status]
          /\ nodes' \in [Client -> SUBSET Node]
          /\ object' \in [Client -> [Node -> Status]]
      BY <1>0, <2>1, <2>3, ServerHasType DEF NodeUpdated
    <2>5. <<s, Dev(n)>> \in Status \X Id
      BY IdFacts
    <2>6. Append(spawned, <<s, Dev(n)>>) \in Seq(Status \X Id)
      BY <1>0, <2>5 DEF TypeOK
    <2>7. spawned' \in Seq(Status \X Id)
      BY <1>0, <2>1, <2>6 DEF NodeUpdated, TypeOK
    <2>8. avail' \in [Node -> Status \cup {"unset"}]
      BY <1>0, <2>1 DEF NodeUpdated, TypeOK
    <2>9. TypeOK'
      BY <1>0, <2>1, <2>2, <2>4, <2>7, <2>8 DEF NodeUpdated, TypeOK
    <2>10. QED
      BY <1>0, <2>1, <2>9 DEF TypeInv, Shape, NodeUpdated
  <1>2. CASE Deliver
    <2>1. Head(spawned) \in Status \X Id /\ Tail(spawned) \in Seq(Status \X Id)
      BY <1>0, <1>2 DEF Deliver, TypeOK
    <2>2. hub' \subseteq Id /\ hidden' \subseteq Id
      BY <1>0, <1>2, <2>1 DEF Deliver, ShowDevice, LoseDevice, TypeOK
    <2>3. TypeOK'
      BY <1>0, <1>2, <2>1, <2>2 DEF Deliver, TypeOK
    <2>4. QED
      BY <1>0, <1>2, <2>3 DEF TypeInv, Shape, Deliver
  <1>3. CASE LoopAsk
    <2>1. budget' \in [Event -> Nat]
      BY <1>0, <1>3, SpendType DEF LoopAsk, Event
    <2>2. TypeOK'
      BY <1>0, <1>3, <2>1 DEF LoopAsk, TypeOK
    <2>3. QED
      BY <1>0, <1>3, <2>2 DEF TypeInv, Shape, LoopAsk
  <1>4. CASE LoopAnswer
    <2>1. TypeOK'
      BY <1>0, <1>4 DEF LoopAnswer, TypeOK
    <2>2. QED
      BY <1>0, <1>4, <2>1 DEF TypeInv, Shape, LoopAnswer
  <1>5. CASE LoopReport
    <2>1. TypeOK'
      BY <1>0, <1>5, IdFacts DEF LoopReport, TypeOK
    <2>2. QED
      BY <1>0, <1>5, <2>1 DEF TypeInv, Shape, LoopReport
  <1>6. ASSUME NEW n \in Node, BleAdvert(n) PROVE TypeInv'
    <2>1. budget' \in [Event -> Nat]
      BY <1>0, <1>6, SpendType DEF BleAdvert, Event
    <2>2. TypeOK'
      BY <1>0, <1>6, <2>1, IdFacts DEF BleAdvert, TypeOK
    <2>3. QED
      BY <1>0, <1>6, <2>2 DEF TypeInv, Shape, BleAdvert
  <1>7. ASSUME NEW n \in Node, Unpair(n) PROVE TypeInv'
    <2>1. budget' \in [Event -> Nat]
      BY <1>0, <1>7, SpendType DEF Unpair, Event
    <2>2. fabric \ {n} \in SUBSET Node /\ status \in [Node -> Status]
      BY <1>0 DEF TypeOK
    <2>3. /\ fabric' \subseteq Node
          /\ status' \in [Node -> Status]
          /\ nodes' \in [Client -> SUBSET Node]
          /\ object' \in [Client -> [Node -> Status]]
      BY <1>0, <1>7, <2>2, ServerHasType DEF Unpair
    <2>4. TypeOK'
      BY <1>0, <1>7, <2>1, <2>3 DEF Unpair, TypeOK
    <2>5. QED
      BY <1>0, <1>7, <2>4 DEF TypeInv, Shape, Unpair
  <1>8. ASSUME NEW n \in Node, DeleteRow(n) PROVE TypeInv'
    <2>1. budget' \in [Event -> Nat]
      BY <1>0, <1>8, SpendType DEF DeleteRow, Event
    <2>2. rows' \in [Id -> RowState]
      BY <1>0, <1>8 DEF DeleteRow, TypeOK, RowState
    <2>3. TypeOK'
      BY <1>0, <1>8, <2>1, <2>2 DEF DeleteRow, LoseDevice, TypeOK
    <2>4. QED
      BY <1>0, <1>8, <2>3 DEF TypeInv, Shape, DeleteRow
  <1>9. ASSUME NEW n \in Node, ServerReset(n) PROVE TypeInv'
    <2>1. budget' \in [Event -> Nat]
      BY <1>0, <1>9, SpendType DEF ServerReset, Event
    <2>2. TypeOK'
      BY <1>0, <1>9, <2>1 DEF ServerReset, TypeOK
    <2>3. QED
      BY <1>0, <1>9, <2>2 DEF TypeInv, Shape, ServerReset
  <1>10. QED
    BY <1>1, <1>2, <1>3, <1>4, <1>5, <1>6, <1>7, <1>8, <1>9 DEF Devices

\* What Shape says of the calls, by itself
CallShape(p) ==
  /\ call[p].pc # "idle" => call[p].from \in Client
  /\ call[p].pc \notin {"idle", "commissioning"} => call[p].node \in Node

\* The end of a call keeps the types and the shape of the calls.
LEMMA EndType ==
  ASSUME TypeInv, NEW p \in Call, NEW r \in {"none", "device", "error"},
         End(p, r)
  PROVE  /\ call' \in [Call -> CallRec]
         /\ rows' \in [Id -> RowState]
         /\ \A q \in Call : CallShape(q)'
  <1>1. NoCall(r) \in CallRec /\ NoCall(r).pc = "idle"
    BY NoCallType DEF NoCall
  <1>2. call \in [Call -> CallRec] /\ rows \in [Id -> RowState]
    BY DEF TypeInv, TypeOK, CallRec
  <1>3. rows' \in [Id -> RowState]
    BY <1>2 DEF End, RowState
  <1>4. \A q \in Call : CallShape(q)'
    BY <1>1, <1>2 DEF End, CallShape, TypeInv, Shape
  <1>5. QED
    BY <1>1, <1>2, <1>3, <1>4 DEF End

\* The failure of a pairing keeps the types and the shape of the calls.
LEMMA FailType ==
  ASSUME TypeInv, NEW p \in Call, Fail(p),
         call[p].pc \notin {"idle", "commissioning"}
  PROVE  /\ call' \in [Call -> CallRec]
         /\ rows' \in [Id -> RowState]
         /\ discoveries' \subseteq Id
         /\ \A q \in Call : CallShape(q)'
  <1>1. call \in [Call -> CallRec] /\ rows \in [Id -> RowState]
        /\ discoveries \subseteq Id
    BY DEF TypeInv, TypeOK, CallRec
  <1>2. CASE call[p].commissioned
    <2>1. call' = [call EXCEPT ![p].pc = "failing"]
      BY <1>2 DEF Fail
    <2>2. call' \in [Call -> CallRec]
      BY <1>1, <2>1 DEF CallRec, CallPc
    <2>3. \A q \in Call : CallShape(q)'
      BY <1>1, <2>1 DEF CallShape, TypeInv, Shape, CallRec
    <2>4. QED
      BY <1>1, <1>2, <2>2, <2>3 DEF Fail
  <1>3. CASE ~call[p].commissioned
    BY <1>1, <1>3, EndType DEF Fail
  <1>4. QED
    BY <1>2, <1>3

\* A step of one call: its record stays typed and shaped
LEMMA CallSteps ==
  ASSUME TypeInv, NEW p \in Call, Pairing(p)
  PROVE  /\ call' \in [Call -> CallRec]
         /\ rows' \in [Id -> RowState]
         /\ \A q \in Call : CallShape(q)'
  <1>0. /\ call \in [Call -> CallRec] /\ rows \in [Id -> RowState]
        /\ \A q \in Call : CallShape(q)
    BY DEF TypeInv, TypeOK, Shape, CallShape, CallRec
  <1>1. ASSUME NEW id \in Id, Pair(p, id)
        PROVE  /\ call' \in [Call -> CallRec]
               /\ rows' \in [Id -> RowState]
               /\ \A q \in Call : CallShape(q)'
    <2>1. client \in Client
      BY <1>1 DEF Pair, TypeInv, TypeOK
    <2>2. rows' \in [Id -> RowState]
      BY <1>0, <1>1 DEF Pair, RowState
    <2>3. ASSUME NEW rec \in CallRec, rec.from \in Client,
                 rec.pc # "commissioning" => rec.node \in Node,
                 call' = [call EXCEPT ![p] = rec]
          PROVE  call' \in [Call -> CallRec] /\ \A q \in Call : CallShape(q)'
      BY <1>0, <2>3 DEF CallShape
    <2>4. call' \in [Call -> CallRec] /\ \A q \in Call : CallShape(q)'
      <3>1. ASSUME NEW n \in nodes[client],
                   call' = [call EXCEPT ![p] =
                              [pc |-> "adding", disc |-> id, node |-> n,
                               from |-> client, commissioned |-> FALSE,
                               result |-> "none"]]
            PROVE  call' \in [Call -> CallRec] /\ \A q \in Call : CallShape(q)'
        <4> DEFINE rec == [pc |-> "adding", disc |-> id, node |-> n,
                           from |-> client, commissioned |-> FALSE,
                           result |-> "none"]
        <4>1. n \in Node
          BY <2>1 DEF TypeInv, TypeOK
        <4>2. rec \in CallRec
          BY <2>1, <4>1 DEF CallRec, CallPc
        <4>3. rec.from \in Client /\ rec.node \in Node
          BY <2>1, <4>1
        <4>4. call' = [call EXCEPT ![p] = rec]
          BY <3>1
        <4> HIDE DEF rec
        <4>5. QED
          BY <2>3, <4>2, <4>3, <4>4
      <3>2. CASE call' = [call EXCEPT ![p] =
                            [pc |-> "commissioning", disc |-> id,
                             node |-> NoNode, from |-> client,
                             commissioned |-> TRUE, result |-> "none"]]
        <4> DEFINE rec == [pc |-> "commissioning", disc |-> id,
                           node |-> NoNode, from |-> client,
                           commissioned |-> TRUE, result |-> "none"]
        <4>1. rec \in CallRec
          BY <2>1 DEF CallRec, CallPc
        <4>2. rec.from \in Client /\ rec.pc = "commissioning"
          BY <2>1
        <4>3. call' = [call EXCEPT ![p] = rec]
          BY <3>2
        <4> HIDE DEF rec
        <4>4. QED
          BY <2>3, <4>1, <4>2, <4>3
      <3>3. QED
        BY <1>1, <3>1, <3>2 DEF Pair
    <2>5. QED
      BY <2>2, <2>4
  <1>2. CASE Commissioned(p)
    <2>1. PICK n \in Node : call' = [call EXCEPT ![p].pc = "commissioned",
                                                 ![p].node = n]
      BY <1>2 DEF Commissioned
    <2>2. call' \in [Call -> CallRec]
      <3> DEFINE rec == [call[p] EXCEPT !.pc = "commissioned", !.node = n]
      <3>1. call[p] \in CallRec
        BY <1>0
      <3>2. rec \in CallRec
        BY <3>1 DEF CallRec, CallPc
      <3>3. call' = [call EXCEPT ![p] = rec]
        BY <2>1
      <3> HIDE DEF rec
      <3>4. QED
        BY <1>0, <3>2, <3>3
    <2>3. \A q \in Call : CallShape(q)'
      BY <1>0, <1>2, <2>1 DEF CallShape, CallRec, Commissioned
    <2>4. QED
      BY <1>0, <1>2, <2>2, <2>3 DEF Commissioned
  <1>3. CASE CommissionRefused(p) \/ CommissionLost(p) \/ PairFailed(p)
    BY <1>3, EndType DEF CommissionRefused, CommissionLost, PairFailed
  <1>4. ASSUME NEW pc \in CallPc, call' = [call EXCEPT ![p].pc = pc],
               call[p].pc \notin {"idle", "commissioning"}
        PROVE  call' \in [Call -> CallRec] /\ \A q \in Call : CallShape(q)'
    <2>1. call' \in [Call -> CallRec]
      BY <1>0, <1>4 DEF CallRec
    <2>2. \A q \in Call : CallShape(q)'
      BY <1>0, <1>4 DEF CallShape, CallRec
    <2>3. QED
      BY <2>1, <2>2
  <1>5. CASE CommissionAnswered(p)
    BY <1>0, <1>4, <1>5 DEF CommissionAnswered, CallPc
  <1>6. CASE PairSave(p)
    <2>1. rows' \in [Id -> RowState]
      BY <1>0, <1>6 DEF PairSave, RowState
    <2>2. QED
      BY <1>4, <1>6, <2>1 DEF PairSave, CallPc
  <1>7. CASE PairSaveFails(p)
    BY <1>7, FailType DEF PairSaveFails
  <1>8. CASE PairSaved(p)
    BY <1>0, <1>4, <1>8, EndType DEF PairSaved, CallPc
  <1>9. CASE PairReoffered(p)
    BY <1>0, <1>4, <1>9 DEF PairReoffered, CallPc
  <1>10. CASE PairFollow(p)
    BY <1>10, EndType, FailType DEF PairFollow
  <1>11. QED
    BY <1>1, <1>2, <1>3, <1>5, <1>6, <1>7, <1>8, <1>9, <1>10 DEF Pairing

\* The steps of a pairing
LEMMA PairingType ==
  ASSUME TypeInv, NEW p \in Call, Pairing(p)
  PROVE  TypeInv'
  <1> USE DEF server, clients, syncing, polling, kept, shown
  <1>0. /\ TypeOK /\ Shape
        /\ call' \in [Call -> CallRec]
        /\ rows' \in [Id -> RowState]
        /\ \A q \in Call : CallShape(q)'
    BY CallSteps DEF TypeInv
  <1> USE DEF CallRec
  <1>1. TypeOK'
    <2>1. ASSUME NEW id \in Id, Pair(p, id) PROVE TypeOK'
      <3>1. budget' \in [Event -> Nat]
        BY <1>0, <2>1, SpendType DEF Pair, Event
      <3>2. QED
        BY <1>0, <2>1, <3>1 DEF TypeOK, Pair
    <2>2. CASE Commissioned(p)
      <3>1. PICK n \in Node \ fabric :
              ServerHas(fabric \cup {n}, [status EXCEPT ![n] = "up"])
        BY <2>2 DEF Commissioned
      <3>2. fabric \cup {n} \in SUBSET Node
            /\ [status EXCEPT ![n] = "up"] \in [Node -> Status]
        BY <1>0 DEF TypeOK, Status
      <3>3. /\ fabric' \subseteq Node
            /\ status' \in [Node -> Status]
            /\ nodes' \in [Client -> SUBSET Node]
            /\ object' \in [Client -> [Node -> Status]]
        BY <1>0, <3>1, <3>2, ServerHasType
      <3>4. QED
        BY <1>0, <2>2, <3>3 DEF TypeOK, Commissioned
    <2>3. CASE CommissionRefused(p)
      BY <1>0, <2>3 DEF TypeOK, CommissionRefused
    <2>4. CASE CommissionLost(p)
      <3>1. adrift' \subseteq Id
        BY <1>0, <2>4 DEF CommissionLost, TypeOK
      <3>2. QED
        BY <1>0, <2>4, <3>1 DEF TypeOK, CommissionLost
    <2>5. CASE CommissionAnswered(p)
      BY <1>0, <2>5 DEF TypeOK, CommissionAnswered
    <2>6. CASE PairSave(p)
      BY <1>0, <2>6 DEF TypeOK, PairSave
    <2>7. CASE PairSaveFails(p)
      <3>1. budget' \in [Event -> Nat]
        BY <1>0, <2>7, SpendType DEF PairSaveFails, Event
      <3>2. discoveries' \subseteq Id
        BY <2>7, FailType DEF PairSaveFails
      <3>3. QED
        BY <1>0, <2>7, <3>1, <3>2 DEF TypeOK, PairSaveFails
    <2>8. CASE PairFailed(p)
      <3>1. Dev(call[p].node) \in Id
        BY <1>0, <2>8, IdFacts DEF PairFailed, Shape
      <3>2. QED
        BY <1>0, <2>8, <3>1 DEF TypeOK, PairFailed
    <2>9. CASE PairSaved(p)
      <3>1. Dev(call[p].node) \in Id
        BY <1>0, <2>9, IdFacts DEF PairSaved, Shape
      <3>2. discoveries' \subseteq Id /\ hub' \subseteq Id
          /\ hidden' \subseteq Id
        BY <1>0, <2>9, <3>1, IdFacts
           DEF PairSaved, ShowDevice, TypeOK
      <3>3. QED
        BY <1>0, <2>9, <3>2 DEF TypeOK, PairSaved
    <2>10. CASE PairReoffered(p)
      <3>1. Dev(call[p].node) \in Id
        BY <1>0, <2>10, IdFacts DEF PairReoffered, Shape
      <3>2. QED
        BY <1>0, <2>10, <3>1 DEF TypeOK, PairReoffered, ShowDevice
    <2>11. CASE PairFollow(p)
      <3>1. call[p].node \in Node /\ call[p].from \in Client
        BY <1>0, <2>11 DEF PairFollow, Shape
      <3>2. {call[p].node} \in SUBSET Node
        BY <3>1
      <3>3. /\ subs' \in [Client -> SUBSET Node]
            /\ avail' \in [Node -> Status \cup {"unset"}]
            /\ outdated' \subseteq Node
            /\ discoveries' \subseteq Id
        <4>1. CASE /\ Subscribe({call[p].node}, call[p].from)
                   /\ outdated' = IF call[p].from = client THEN outdated
                                    ELSE outdated \cup {call[p].node}
                   /\ UNCHANGED discoveries
          BY <1>0, <3>1, <3>2, <4>1, SubscribeType DEF TypeOK
        <4>2. CASE Fail(p) /\ UNCHANGED <<subs, avail, outdated>>
          BY <1>0, <2>11, <4>2, FailType DEF TypeOK, PairFollow
        <4>3. QED
          BY <2>11, <4>1, <4>2 DEF PairFollow
      <3>4. QED
        BY <1>0, <2>11, <3>3 DEF TypeOK, PairFollow
    <2>12. QED
      BY <2>1, <2>2, <2>3, <2>4, <2>5, <2>6, <2>7, <2>8, <2>9, <2>10, <2>11
         DEF Pairing
  <1>2. UNCHANGED <<conn, client, asking>>
    BY DEF Pairing, Pair, Commissioned, CommissionRefused, CommissionLost,
           CommissionAnswered, PairSave, PairSaveFails, PairFailed, PairSaved,
           PairReoffered, PairFollow
  <1>3. Shape'
    BY <1>0, <1>2 DEF Shape, CallShape
  <1>4. QED
    BY <1>1, <1>3 DEF TypeInv

\* A commissioning that ends late keeps the typed invariant.
LEMMA LateType ==
  ASSUME TypeInv, NEW n \in Node, NEW s \in {"raw", "up"},
         CommissionedLate(n, s)
  PROVE  TypeInv'
  <1> USE DEF server, clients, syncing, polling, kept, shown
  <1>1. TypeOK /\ Shape
    BY DEF TypeInv
  <1>2. fabric \cup {n} \in SUBSET Node
        /\ [status EXCEPT ![n] = s] \in [Node -> Status]
    BY <1>1 DEF TypeOK, Status
  <1>3. /\ fabric' \subseteq Node
        /\ status' \in [Node -> Status]
        /\ nodes' \in [Client -> SUBSET Node]
        /\ object' \in [Client -> [Node -> Status]]
    BY <1>1, <1>2, ServerHasType DEF CommissionedLate
  <1>4. adrift' \subseteq Id /\ unoffered' \subseteq Node
    BY <1>1 DEF CommissionedLate, TypeOK
  <1>5. TypeOK'
    BY <1>1, <1>3, <1>4 DEF CommissionedLate, TypeOK
  <1>6. QED
    BY <1>1, <1>5 DEF CommissionedLate, TypeInv, Shape

\* Every step keeps the typed invariant.
LEMMA NextTypeInv == TypeInv /\ [Next]_vars => TypeInv'
  <1> SUFFICES ASSUME TypeInv, [Next]_vars PROVE TypeInv'
    OBVIOUS
  <1>1. CASE Next
    BY <1>1, ConnectionType, SyncType, DevicesType, PairingType, LateType
       DEF Next
  <1>2. CASE UNCHANGED vars
    BY <1>2 DEF vars, TypeInv, TypeOK, Shape
  <1>3. QED
    BY <1>1, <1>2

\* Every variable stays what it is declared to be, with every pairing, sync and
\* outage in progress at once: no call subscribes without a node, no sync works
\* without a client.
THEOREM TypeCorrect == Spec => []TypeOK
  <1>1. Init => TypeInv
    BY InitTypeInv
  <1>2. TypeInv /\ [Next]_vars => TypeInv'
    BY NextTypeInv
  <1>3. TypeInv => TypeOK
    BY DEF TypeInv
  <1>4. QED
    BY <1>1, <1>2, <1>3, PTL DEF Spec

-------------------------------------------------------------------------------
\* DevicesFollowed says nothing of a connection that is down or a sync that is
\* under way.  What holds then: a connected client is the current one and knows
\* the fabric, and a device without its subscription has somebody about to make
\* it - its pairing, the sync that will read its row or has, or the next one.
Current ==
  /\ live \in {client, NoClient}
  /\ live # NoClient => nodes[live] = fabric

Pending(n) ==
  \/ \E p \in Call :
       call[p].pc \in {"saved", "reoffered", "connected"} /\ call[p].node = n
  \/ conn \notin {"rows", "follow", "offers", "connects", "listen"}
  \/ conn = "rows" /\ n \in snap
  \/ conn = "follow" /\ Dev(n) \in todo

Missed(n) ==
  /\ rows[Dev(n)] = "saved"
  /\ client # NoClient
  /\ n \in nodes[client]
  /\ n \notin subs[client]

FollowInv ==
  /\ TypeInv
  /\ Current
  /\ \A n \in Node : Missed(n) => Pending(n)

\* No device is known before the start, so none is missed.
LEMMA InitFollowInv == Init => FollowInv
  BY InitTypeInv DEF FollowInv, Init, Current, Missed

\* The four that tell a live client matterjs-server's nodes
LEMMA ServerHasCurrent ==
  ASSUME TypeInv, Current, NEW k, NEW s, ServerHas(k, s), UNCHANGED <<live, client>>
  PROVE  /\ Current'
         /\ client \in Client => \/ nodes'[client] = nodes[client]
                                 \/ nodes[client] = fabric /\ nodes'[client] = k
  BY DEF TypeInv, TypeOK, Current, ServerHas

\* Every step keeps the current client the one that is live.
LEMMA CurrentStep == ASSUME TypeInv, Current, Next PROVE Current'
  <1> USE DEF server, clients, syncing, polling, kept, shown
  <1>1. CASE Connection
    <2>1. CASE Start \/ StayReconnect
      BY <2>1, ConnectFacts, ConstantsAssumption
         DEF Start, StayReconnect, Current, TypeInv, TypeOK
    <2>2. CASE Stop \/ ServerLost \/ StayLost \/ StayLose
      BY <2>2 DEF Stop, ServerLost, StayLost, StayLose, Current
    <2>3. QED
      BY <1>1, <2>1, <2>2 DEF Connection
  <1>2. CASE Sync
    BY <1>2 DEF Sync, SyncNodes, SyncRows, SyncCrash, SyncFollow, SyncFollowed,
                SyncOffer, SyncConnect, Current
  <1>3. CASE Devices
    <2>1. ASSUME NEW n \in Node, NEW s \in Status, NodeUpdated(n, s)
          PROVE  Current'
      BY <2>1, ServerHasCurrent DEF NodeUpdated
    <2>2. ASSUME NEW n \in Node, Unpair(n) PROVE Current'
      BY <2>2, ServerHasCurrent DEF Unpair
    <2>3. ASSUME NEW n \in Node, BleAdvert(n) \/ DeleteRow(n) \/ ServerReset(n)
          PROVE  Current'
      BY <2>3 DEF BleAdvert, DeleteRow, ServerReset, Current
    <2>4. CASE Deliver \/ LoopAsk \/ LoopAnswer \/ LoopReport
      BY <2>4 DEF Deliver, LoopAsk, LoopAnswer, LoopReport, Current
    <2>5. QED
      BY <1>3, <2>1, <2>2, <2>3, <2>4 DEF Devices
  <1>4. ASSUME NEW p \in Call, Pairing(p) PROVE Current'
    <2>1. CASE Commissioned(p)
      BY <2>1, ServerHasCurrent DEF Commissioned
    <2>2. CASE CommissionLost(p)
      BY <2>2 DEF CommissionLost, Current
    <2>3. CASE ~Commissioned(p) /\ ~CommissionLost(p)
      BY <1>4, <2>3 DEF Pairing, Pair, CommissionRefused, CommissionAnswered,
           PairSave, PairSaveFails, PairFailed, PairSaved, PairReoffered,
           PairFollow, Current
    <2>4. QED
      BY <2>1, <2>2, <2>3
  <1>5. ASSUME NEW n \in Node, NEW s \in {"raw", "up"}, CommissionedLate(n, s)
        PROVE  Current'
    BY <1>5, ServerHasCurrent DEF CommissionedLate
  <1>6. QED
    BY <1>1, <1>2, <1>3, <1>4, <1>5 DEF Next

\* A step that gives no device a row or its client a node, takes no subscription,
\* and leaves the calls and the sync where they are
LEMMA QuietStep ==
  ASSUME NEW n \in Node, Missed(n) => Pending(n), Missed(n)',
         rows[Dev(n)] = "saved",
         UNCHANGED <<client, call, conn, todo, snap>>,
         n \in nodes[client], n \notin subs[client]
  PROVE  Pending(n)'
  BY DEF Missed, Pending

\* The connection does not come to listen in one step, nor a sync to read rows
LEMMA ConnectionPending ==
  ASSUME TypeInv, Connection, NEW n \in Node, Missed(n) => Pending(n), Missed(n)'
  PROVE  Pending(n)'
  <1> USE DEF server, clients, syncing, polling, kept, shown
  <1>1. CASE Start \/ StayReconnect
    BY <1>1 DEF Start, StayReconnect, Pending
  <1>2. CASE Stop
    BY <1>2 DEF Stop, Missed
  <1>3. CASE ServerLost
    BY <1>3, QuietStep DEF ServerLost, Missed
  <1>4. CASE StayLost \/ StayLose
    BY <1>4 DEF StayLost, StayLose, LoseNext, Pending
  <1>5. QED
    BY <1>1, <1>2, <1>3, <1>4 DEF Connection

\* A device leaves the list of a sync with its subscription made
LEMMA SyncPending ==
  ASSUME TypeInv, Sync, NEW n \in Node, Missed(n) => Pending(n), Missed(n)'
  PROVE  Pending(n)'
  <1> USE DEF server, clients, syncing, polling, kept, shown
  <1>0. client \in Client => subs[client] \in SUBSET Node
    BY DEF TypeInv, TypeOK
  <1>1. CASE SyncNodes
    BY <1>1 DEF SyncNodes, Pending, Missed
  <1>2. CASE SyncRows
    BY <1>2 DEF SyncRows, Pending, Missed
  <1>3. CASE SyncCrash
    BY <1>3 DEF SyncCrash, Pending
  <1>4. CASE SyncFollow
    <2>1. client \in Client
      BY <1>4 DEF SyncFollow, TypeInv, Shape
    <2>2. PICK ns \in SUBSET {m \in Node : Dev(m) \in todo} :
            /\ subs' = [subs EXCEPT ![client] = @ \cup ns]
            /\ todo' = todo \ {Dev(m) : m \in ns}
      BY <1>4 DEF SyncFollow, Follow, Subscribe
    <2>3. UNCHANGED <<rows, client, nodes, call, conn, snap>>
      BY <1>4 DEF SyncFollow
    <2>4. n \notin subs[client] /\ n \notin ns
      BY <2>1, <2>2, <2>3 DEF Missed, TypeInv, TypeOK
    <2>5. Pending(n)
      BY <2>3, <2>4 DEF Missed
    <2>6. Dev(n) \in todo => Dev(n) \in todo'
      BY <2>2, <2>4, IdFacts
    <2>7. QED
      BY <2>3, <2>5, <2>6 DEF Pending
  <1>5. CASE SyncFollowed
    <2>1. client \in Client
      BY <1>5 DEF SyncFollowed, TypeInv, Shape
    <2>2. subs' = [subs EXCEPT ![client] =
                     @ \cup {m \in Node : Dev(m) \in todo}]
      BY <1>5 DEF SyncFollowed, Follow, Subscribe
    <2>3. UNCHANGED <<rows, client, nodes, call>> /\ conn = "follow"
      BY <1>5 DEF SyncFollowed
    <2>4. n \notin subs[client] /\ Dev(n) \notin todo
      BY <2>1, <2>2, <2>3 DEF Missed, TypeInv, TypeOK
    <2>5. Pending(n)
      BY <2>3, <2>4 DEF Missed
    <2>6. QED
      BY <2>3, <2>4, <2>5 DEF Pending
  <1>6. CASE SyncOffer \/ SyncConnect
    <2>1. UNCHANGED <<rows, client, nodes, subs, call>>
      BY <1>6 DEF SyncOffer, SyncConnect
    <2>2. Pending(n)
      BY <2>1 DEF Missed
    <2>3. QED
      BY <1>6, <2>1, <2>2 DEF SyncOffer, SyncConnect, Pending
  <1>7. QED
    BY <1>1, <1>2, <1>3, <1>4, <1>5, <1>6 DEF Sync

\* A node is announced before any device stands for it, and an announcement
\* leaves the nodes before it
LEMMA DevicesPending ==
  ASSUME TypeInv, Current, Devices, NEW n \in Node, Missed(n) => Pending(n),
         Missed(n)'
  PROVE  Pending(n)'
  <1> USE DEF server, clients, syncing, polling, kept, shown
  <1>0. UNCHANGED <<client, live, subs, call, conn, todo, snap>>
    BY DEF Devices, NodeUpdated, Deliver, LoopAsk, LoopAnswer, LoopReport,
           BleAdvert, Unpair, DeleteRow, ServerReset
  <1>1. client \in Client
    BY <1>0 DEF Missed, TypeInv, TypeOK
  <1>2. rows[Dev(n)] = "saved"
    <2>1. CASE \E m \in Node : DeleteRow(m)
      BY <2>1, IdFacts DEF DeleteRow, Missed, TypeInv, TypeOK
    <2>2. CASE UNCHANGED rows
      BY <2>2 DEF Missed
    <2>3. QED
      BY <2>1, <2>2 DEF Devices, NodeUpdated, Deliver, LoopAsk, LoopAnswer,
         LoopReport, BleAdvert, Unpair, ServerReset
  <1>3. n \in nodes[client]
    <2>1. ASSUME NEW m \in Node, NEW s \in Status, NodeUpdated(m, s)
          PROVE  n \in nodes[client]
      BY <1>0, <1>1, <2>1, ServerHasCurrent DEF NodeUpdated, Missed
    <2>2. ASSUME NEW m \in Node, Unpair(m) PROVE n \in nodes[client]
      BY <1>0, <1>1, <2>2, ServerHasCurrent DEF Unpair, Missed
    <2>3. CASE UNCHANGED nodes
      BY <1>0, <2>3 DEF Missed
    <2>4. QED
      BY <2>1, <2>2, <2>3 DEF Devices, Deliver, LoopAsk, LoopAnswer, LoopReport,
         BleAdvert, DeleteRow, ServerReset
  <1>4. QED
    BY <1>0, <1>2, <1>3, QuietStep DEF Missed

\* The pairing that saves a row is the one that follows its device
LEMMA PairingPending ==
  ASSUME TypeInv, Current, NEW p \in Call, Pairing(p), NEW n \in Node,
         Missed(n) => Pending(n), Missed(n)'
  PROVE  Pending(n)'
  <1> USE DEF server, clients, syncing, polling, kept, shown
  <1>0. /\ UNCHANGED <<client, conn, todo, snap>>
        /\ call \in [Call -> CallRec]
        /\ rows \in [Id -> RowState]
        /\ nodes \in [Client -> SUBSET Node]
        /\ subs \in [Client -> SUBSET Node]
    BY DEF Pairing, Pair, Commissioned, CommissionRefused, CommissionLost,
           CommissionAnswered, PairSave, PairSaveFails, PairFailed, PairSaved,
           PairReoffered, PairFollow, TypeInv, TypeOK, CallRec
  <1>1. client \in Client
    BY <1>0 DEF Missed, TypeInv, TypeOK
  <1> DEFINE following == {"saved", "reoffered", "connected"}
  \* The other calls stay where they are
  <1>2. \A q \in Call \ {p} : call'[q] = call[q]
    BY <1>0 DEF Pairing, Pair, Commissioned, CommissionRefused, CommissionLost,
           CommissionAnswered, PairSave, PairSaveFails, PairFailed, PairSaved,
           PairReoffered, PairFollow, End, Fail
  \* So a step that does not take n out of the hands of p is fine
  <1>3. ASSUME Missed(n),
               call[p].pc \in following /\ call[p].node = n
                 => call'[p].pc \in following /\ call'[p].node = n
        PROVE  Pending(n)'
    BY <1>0, <1>2, <1>3 DEF Pending
  <1>4. ASSUME NEW id \in Id, Pair(p, id) PROVE Pending(n)'
    <2>1. Missed(n)
      BY <1>0, <1>4, IdFacts DEF Pair, Missed
    <2>2. QED
      BY <1>3, <1>4, <2>1 DEF Pair
  <1>5. CASE Commissioned(p)
    <2>1. PICK m \in Node \ fabric :
            /\ rows[Dev(m)] # "saved"
            /\ ServerHas(fabric \cup {m}, [status EXCEPT ![m] = "up"])
      BY <1>5 DEF Commissioned
    <2>2. UNCHANGED <<rows, subs, live>>
      BY <1>5 DEF Commissioned
    <2>3. n \in nodes[client]
      BY <1>0, <1>1, <2>1, <2>2, ServerHasCurrent DEF Missed
    <2>4. QED
      BY <1>0, <1>3, <1>5, <2>2, <2>3 DEF Missed, Commissioned
  <1>6. ASSUME UNCHANGED <<nodes, subs>>, call[p].pc \notin following,
               \/ UNCHANGED rows
               \/ rows' = [rows EXCEPT ![call[p].disc] = "none"]
        PROVE  Pending(n)'
    <2>1. Missed(n)
      BY <1>0, <1>6, IdFacts DEF Missed
    <2>2. QED
      BY <1>3, <1>6, <2>1
  <1>7. CASE CommissionRefused(p) \/ CommissionLost(p) \/ PairFailed(p)
    BY <1>6, <1>7 DEF CommissionRefused, CommissionLost, PairFailed, End
  <1>8. CASE CommissionAnswered(p)
    BY <1>6, <1>8 DEF CommissionAnswered
  <1>9. CASE PairSaveFails(p)
    BY <1>6, <1>9 DEF PairSaveFails, Fail, End
  <1>10. CASE PairSave(p)
    <2>1. call[p].node \in Node /\ UNCHANGED <<nodes, subs>>
      BY <1>10 DEF PairSave, TypeInv, Shape
    <2>2. CASE n = call[p].node
      <3>1. call'[p].pc = "saved" /\ call'[p].node = n
        BY <1>0, <1>10, <2>2 DEF PairSave, CallRec
      <3>2. QED
        BY <3>1 DEF Pending
    <2>3. CASE n # call[p].node
      <3>1. Missed(n)
        BY <1>0, <1>10, <2>1, <2>3, IdFacts DEF PairSave, Missed
      <3>2. QED
        BY <1>3, <1>10, <3>1 DEF PairSave
    <2>4. QED
      BY <2>2, <2>3
  <1>11. CASE PairSaved(p) \/ PairReoffered(p)
    <2>1. /\ UNCHANGED <<rows, nodes, subs>>
          /\ call'[p].pc \in following
          /\ call'[p].node = call[p].node
      BY <1>0, <1>1, <1>11, ConstantsAssumption
         DEF PairSaved, PairReoffered, CallRec
    <2>2. QED
      BY <1>0, <1>3, <2>1 DEF Missed
  <1>12. CASE PairFollow(p)
    <2>1. /\ Subscribe({call[p].node}, call[p].from)
          /\ End(p, "device")
          /\ UNCHANGED nodes
      BY <1>1, <1>12, ConstantsAssumption DEF PairFollow
    <2>2. Missed(n) /\ n # call[p].node
      BY <1>0, <1>1, <2>1 DEF Missed, Subscribe, End
    <2>3. QED
      BY <1>3, <2>2
  <1>13. QED
    BY <1>4, <1>5, <1>7, <1>8, <1>9, <1>10, <1>11, <1>12 DEF Pairing

\* A node commissioned late has no device yet
LEMMA LatePending ==
  ASSUME TypeInv, Current, NEW m \in Node, NEW s \in {"raw", "up"},
         CommissionedLate(m, s), NEW n \in Node, Missed(n) => Pending(n),
         Missed(n)'
  PROVE  Pending(n)'
  <1> USE DEF server, clients, syncing, polling, kept, shown
  <1>1. UNCHANGED <<client, live, rows, subs, call, conn, todo, snap>>
    BY DEF CommissionedLate
  <1>2. client \in Client /\ rows[Dev(m)] # "saved"
    BY <1>1 DEF CommissionedLate, Missed, TypeInv, TypeOK
  <1>3. n # m
    BY <1>1, <1>2 DEF Missed
  <1>4. n \in nodes[client]
    BY <1>1, <1>2, <1>3, ServerHasCurrent DEF CommissionedLate, Missed
  <1>5. QED
    BY <1>1, <1>4, QuietStep DEF Missed

\* Every step keeps the invariant.
LEMMA NextFollowInv == FollowInv /\ [Next]_vars => FollowInv'
  <1> SUFFICES ASSUME FollowInv, [Next]_vars PROVE FollowInv'
    OBVIOUS
  <1>0. TypeInv /\ Current
    BY DEF FollowInv
  <1>1. CASE Next
    <2>1. TypeInv' /\ Current'
      BY <1>0, <1>1, NextTypeInv, CurrentStep
    <2>2. ASSUME NEW n \in Node, Missed(n)' PROVE Pending(n)'
      <3>1. Missed(n) => Pending(n)
        BY DEF FollowInv
      <3>2. QED
        BY <1>0, <1>1, <2>2, <3>1, ConnectionPending, SyncPending,
           DevicesPending, PairingPending, LatePending DEF Next
    <2>3. QED
      BY <2>1, <2>2 DEF FollowInv
  <1>2. CASE UNCHANGED vars
    <2>1. TypeInv' /\ Current'
      BY <1>0, <1>2, NextTypeInv DEF vars, Current
    <2>2. ASSUME NEW n \in Node, Missed(n)' PROVE Pending(n)'
      BY <1>2, <2>2 DEF FollowInv, vars, Missed, Pending
    <2>3. QED
      BY <2>1, <2>2 DEF FollowInv
  <1>3. QED
    BY <1>1, <1>2

\* Whatever pairings, syncs, outages, removals and failures overlapped: once the
\* connection listens, each device the Hub has whose node the client knows is
\* followed, unless the pairing that saved it is still at it.
THEOREM EveryDeviceFollowed == Spec => []DevicesFollowed
  <1>1. Init => FollowInv
    BY InitFollowInv
  <1>2. FollowInv /\ [Next]_vars => FollowInv'
    BY NextFollowInv
  <1>3. FollowInv => DevicesFollowed
    <2> SUFFICES ASSUME FollowInv, conn = "listen", NEW n \in nodes[client],
                        rows[Dev(n)] = "saved", ~Busy(n)
                 PROVE  n \in subs[client]
      BY DEF DevicesFollowed
    <2>1. client \in Client /\ n \in Node
      BY DEF FollowInv, TypeInv, TypeOK, Shape
    <2>2. ~Pending(n)
      BY DEF Pending, Busy
    <2>3. QED
      BY <2>1, <2>2, ConstantsAssumption DEF FollowInv, Missed
  <1>4. QED
    BY <1>1, <1>2, <1>3, PTL DEF Spec
===============================================================================
