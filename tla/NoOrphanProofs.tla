---------------------------- MODULE NoOrphanProofs ----------------------------
(* No commissioned node is left without a device or an offer: NoOrphanNode of  *)
(* MatterController, for every value of its constants.                         *)
EXTENDS MatterControllerProofs

\* NoOrphanNode says nothing before all is settled.  What holds on the way: a
\* node nobody stands for and nobody was offered has somebody about to see to it
\* - the next sync, the one under way, which has still to offer it, or the pairing
\* that commissioned it, which saves its row or offers it.
OfferPending(n) ==
  \/ conn \notin {"follow", "offers", "connects", "listen"}
  \/ live # client
  \/ \E p \in Call :
       /\ call[p].node = n
       /\ \/ call[p].pc = "commissioned" /\ call[p].from = live
          \/ call[p].pc = "adding" /\ call[p].commissioned
          \/ call[p].pc = "failing"
  \/ conn = "follow" /\ n \notin devs /\ Dev(n) \notin todo
  \/ conn = "offers" /\ Dev(n) \in todo

Orphan(n) ==
  /\ client # NoClient
  /\ n \in nodes[client]
  /\ rows[Dev(n)] # "saved"
  /\ n \notin unoffered
  /\ Dev(n) \notin discoveries

\* A call either commissions what a discovery id stands for or takes the node
\* whose own id it was given, and keeps the row it has saved
CallFacts(p) ==
  /\ call[p].pc # "idle" /\ call[p].commissioned
       => call[p].disc \notin {Dev(n) : n \in Node}
  /\ call[p].pc # "idle" /\ ~call[p].commissioned
       => call[p].disc = Dev(call[p].node)
  /\ call[p].pc \in {"commissioning", "commissioned", "failing"}
       => call[p].commissioned
  /\ call[p].pc \in {"saved", "reoffered", "connected"}
       => rows[Dev(call[p].node)] = "saved"

OrphanInv ==
  /\ TypeInv
  /\ Current
  /\ \A p \in Call : CallFacts(p)
  /\ conn = "rows" => devs = {}
  /\ \A n \in Node : Orphan(n) => OfferPending(n)

\* The client knows no node before the start.
LEMMA InitOrphanInv == Init => OrphanInv
  <1> SUFFICES ASSUME Init PROVE OrphanInv
    OBVIOUS
  <1>1. \A p \in Call : call[p].pc = "idle"
    BY DEF Init, NoCall
  <1>2. TypeInv /\ Current
    BY InitTypeInv DEF Init, Current
  <1>3. QED
    BY <1>1, <1>2 DEF OrphanInv, CallFacts, Orphan, Init

-------------------------------------------------------------------------------
\* The calls

\* A call that is not the one taking the step keeps its record
LEMMA OtherCalls ==
  ASSUME TypeInv, NEW p \in Call, Pairing(p), NEW q \in Call \ {p}
  PROVE  call'[q] = call[q]
  BY DEF TypeInv, TypeOK, Pairing, Pair, Commissioned, CommissionRefused,
         CommissionLost, CommissionAnswered, PairSave, PairSaveFails, PairFailed,
         PairSaved, PairReoffered, PairFollow, End, Fail

\* How a call changes the rows: it seeds one that is free, ends a seeded one, or
\* turns its own into its device's
LEMMA PairingRows ==
  ASSUME TypeInv, NEW p \in Call, CallFacts(p), Pairing(p), NEW n \in Node,
         rows[Dev(n)] = "saved"
  PROVE  rows'[Dev(n)] = "saved"
  <1>0. rows \in [Id -> RowState] /\ Dev(n) \in Id
    BY IdFacts DEF TypeInv, TypeOK
  <1>1. ASSUME NEW id \in Id, Pair(p, id) PROVE rows'[Dev(n)] = "saved"
    BY <1>0, <1>1 DEF Pair
  <1>2. ASSUME NEW r, End(p, r) PROVE rows'[Dev(n)] = "saved"
    BY <1>0, <1>2 DEF End
  <1>3. CASE PairSave(p)
    <2>1. call[p].node \in Node /\ call[p].disc \in Id
      BY <1>3 DEF PairSave, TypeInv, TypeOK, Shape
    <2>2. n # call[p].node => call[p].disc # Dev(n)
      BY <1>3, <2>1, IdFacts DEF PairSave, CallFacts
    <2>3. QED
      BY <1>0, <1>3, <2>1, <2>2, IdFacts DEF PairSave
  <1>4. QED
    BY <1>1, <1>2, <1>3 DEF Pairing, Commissioned, CommissionRefused,
       CommissionLost, CommissionAnswered, PairSaveFails, PairFailed, PairSaved,
       PairReoffered, PairFollow, Fail

\* The call that takes the step keeps CallFacts
LEMMA OwnCallFacts ==
  ASSUME TypeInv, NEW p \in Call, CallFacts(p), Pairing(p)
  PROVE  CallFacts(p)'
  <1>0. /\ call \in [Call -> CallRec] /\ rows \in [Id -> RowState]
        /\ CallShape(p)
    BY DEF TypeInv, TypeOK, CallRec, Shape, CallShape
  <1>1. ASSUME NEW id \in Id, Pair(p, id) PROVE CallFacts(p)'
    BY <1>0, <1>1 DEF Pair, CallFacts
  <1>2. CASE Commissioned(p)
    BY <1>0, <1>2 DEF Commissioned, CallFacts, CallRec
  <1>3. ASSUME NEW r, End(p, r) PROVE CallFacts(p)'
    BY <1>0, <1>3 DEF End, NoCall, CallFacts
  <1>4. CASE CommissionAnswered(p)
    BY <1>0, <1>4 DEF CommissionAnswered, CallFacts, CallRec
  <1>5. CASE PairSave(p)
    BY <1>0, <1>5, IdFacts DEF PairSave, CallFacts, CallRec, CallShape
  <1>6. CASE Fail(p) /\ call[p].pc # "idle"
    BY <1>0, <1>3, <1>6 DEF Fail, CallFacts, CallRec
  <1>7. CASE (PairSaved(p) \/ PairReoffered(p)) /\ call'[p].pc # "idle"
    BY <1>0, <1>7 DEF PairSaved, PairReoffered, CallFacts, CallRec, End, NoCall
  <1>8. CASE PairSaved(p) /\ call'[p].pc = "idle"
    BY <1>8 DEF CallFacts
  <1>9. CASE PairReoffered(p) /\ call'[p].pc = "idle"
    BY <1>9 DEF CallFacts
  <1>10. QED
    BY <1>1, <1>2, <1>3, <1>4, <1>5, <1>6, <1>7, <1>8, <1>9
       DEF Pairing, CommissionRefused, CommissionLost, PairSaveFails, PairFailed,
           PairFollow

\* Every step keeps what the phase of a call says of its node, device and row.
LEMMA CallFactsStep ==
  ASSUME OrphanInv, Next, NEW q \in Call
  PROVE  CallFacts(q)'
  <1> USE DEF server, clients, syncing, polling, kept, shown
  <1>0. TypeInv /\ CallFacts(q) /\ \A p \in Call : CallFacts(p)
    BY DEF OrphanInv
  <1>1. CASE Connection \/ Sync
    BY <1>0, <1>1 DEF Connection, Start, Stop, ServerLost, StayLost, StayLose,
       StayReconnect, Sync, SyncNodes, SyncRows, SyncCrash, SyncFollow,
       SyncFollowed, SyncOffer, SyncConnect, CallFacts
  <1>2. CASE Devices
    <2>1. ASSUME NEW n \in Node, DeleteRow(n) PROVE CallFacts(q)'
      BY <1>0, <2>1, IdFacts DEF DeleteRow, Busy, CallFacts, TypeInv, TypeOK, Shape
    <2>2. CASE UNCHANGED <<call, rows>>
      BY <1>0, <2>2 DEF CallFacts
    <2>3. QED
      BY <1>2, <2>1, <2>2 DEF Devices, NodeUpdated, Deliver, LoopAsk, LoopAnswer,
         LoopReport, BleAdvert, Unpair, ServerReset
  <1>3. ASSUME NEW p \in Call, Pairing(p) PROVE CallFacts(q)'
    <2>1. CASE p = q
      BY <1>0, <1>3, <2>1, OwnCallFacts
    <2>2. CASE p # q
      <3>1. call'[q] = call[q]
        BY <1>0, <1>3, <2>2, OtherCalls
      <3>2. call[q].pc \in {"saved", "reoffered", "connected"}
              => call[q].node \in Node
        BY <1>0 DEF TypeInv, Shape
      <3>3. QED
        BY <1>0, <1>3, <3>1, <3>2, PairingRows DEF CallFacts
    <2>3. QED
      BY <2>1, <2>2
  <1>4. ASSUME NEW n \in Node, NEW s \in {"raw", "up"}, CommissionedLate(n, s)
        PROVE  CallFacts(q)'
    BY <1>0, <1>4 DEF CommissionedLate, CallFacts
  <1>5. QED
    BY <1>1, <1>2, <1>3, <1>4 DEF Next

-------------------------------------------------------------------------------
\* The orphans

\* The connection comes to no state in which a sync is past its rows
LEMMA ConnectionOffers ==
  ASSUME OrphanInv, Connection, NEW n \in Node, Orphan(n)'
  PROVE  OfferPending(n)'
  <1> USE DEF server, clients, syncing, polling, kept, shown
  <1>1. CASE Start \/ StayReconnect
    BY <1>1 DEF Start, StayReconnect, OfferPending
  <1>2. CASE Stop
    BY <1>2 DEF Stop, Orphan
  <1>3. CASE ServerLost
    BY <1>3 DEF ServerLost, Orphan, OfferPending
  <1>4. CASE StayLost \/ StayLose
    BY <1>4 DEF StayLost, StayLose, LoseNext, OfferPending
  <1>5. QED
    BY <1>1, <1>2, <1>3, <1>4 DEF Connection

\* A node leaves the list of a sync offered, or as one of the raw ones
LEMMA OfferNextOffers ==
  ASSUME TypeInv, NEW ids, NEW available, NEW n \in Node, OfferNext(ids, available),
         Dev(n) \in ids, n \notin unoffered', Dev(n) \notin discoveries'
  PROVE  conn' = "offers" /\ Dev(n) \in todo'
  <1> DEFINE raw == {Dev(m) : m \in {k \in Node : object[client][k] = "raw"}}
  <1>1. PICK passed \in SUBSET (ids \cap raw) :
          /\ unoffered' = unoffered \cup {m \in Node : Dev(m) \in passed}
          /\ \/ /\ \E id \in ids \ raw :
                     /\ discoveries' = discoveries \cup {id}
                     /\ todo' = ids \ (passed \cup {id})
                /\ conn' = "offers"
             \/ ids = passed
    BY DEF OfferNext
  <1>2. Dev(n) \notin passed
    BY <1>1
  <1>3. QED
    BY <1>1, <1>2

\* A node that a sync leaves without a device is offered, or is still to be.
LEMMA SyncOffers ==
  ASSUME OrphanInv, Sync, NEW n \in Node, Orphan(n)'
  PROVE  OfferPending(n)'
  <1> USE DEF server, clients, syncing, polling, kept, shown
  <1>0. /\ TypeInv
        /\ conn = "rows" => devs = {}
        /\ Orphan(n) => OfferPending(n)
    BY DEF OrphanInv
  <1>00. UNCHANGED <<client, nodes, rows, call>>
    BY DEF Sync, SyncNodes, SyncRows, SyncCrash, SyncFollow, SyncFollowed,
           SyncOffer, SyncConnect
  <1>1. CASE SyncNodes \/ SyncCrash
    BY <1>1 DEF SyncNodes, SyncCrash, OfferPending
  <1>2. CASE SyncRows
    <2>1. rows[Dev(n)] # "saved"
      BY <1>00 DEF Orphan
    <2>2. Dev(n) \notin todo'
      BY <1>0, <1>2, <2>1, IdFacts DEF SyncRows, TypeInv, TypeOK
    <2>3. QED
      BY <1>0, <1>2, <2>2 DEF SyncRows, OfferPending
  <1>3. CASE SyncFollow
    <2>1. PICK ns \in SUBSET {m \in Node : Dev(m) \in todo} :
            /\ devs' = devs \cup ns
            /\ todo' = todo \ {Dev(m) : m \in ns}
      BY <1>3 DEF SyncFollow
    <2>2. UNCHANGED <<conn, live, discoveries, unoffered>> /\ conn = "follow"
      BY <1>3 DEF SyncFollow
    <2>3. OfferPending(n)
      BY <1>0, <1>00, <2>2 DEF Orphan
    <2>4. n \notin devs /\ Dev(n) \notin todo
            => n \notin devs' /\ Dev(n) \notin todo'
      BY <2>1
    <2>5. QED
      BY <1>00, <2>2, <2>3, <2>4 DEF OfferPending
  <1>4. CASE SyncFollowed
    <2> DEFINE ns == {m \in Node : Dev(m) \in todo}
               ids == {Dev(m) : m \in nodes[client] \ (devs \cup ns)}
    <2>1. OfferNext(ids, Available') /\ UNCHANGED live /\ conn = "follow"
      BY <1>4 DEF SyncFollowed
    <2>2. unoffered \subseteq unoffered' /\ discoveries \subseteq discoveries'
      BY <2>1 DEF OfferNext
    <2>3. OfferPending(n)
      BY <1>0, <1>00, <2>2 DEF Orphan
    <2>4. CASE n \notin devs /\ Dev(n) \notin todo
      <3>1. Dev(n) \in ids
        BY <1>00, <2>4 DEF Orphan
      <3>2. conn' = "offers" /\ Dev(n) \in todo'
        BY <1>0, <2>1, <3>1, OfferNextOffers DEF Orphan
      <3>3. QED
        BY <3>2 DEF OfferPending
    <2>5. CASE ~(n \notin devs /\ Dev(n) \notin todo)
      BY <1>00, <2>1, <2>3, <2>5 DEF OfferPending
    <2>6. QED
      BY <2>4, <2>5
  <1>5. CASE SyncOffer
    <2>1. OfferNext(todo, Available) /\ UNCHANGED live /\ conn = "offers"
      BY <1>5 DEF SyncOffer
    <2>2. unoffered \subseteq unoffered' /\ discoveries \subseteq discoveries'
      BY <2>1 DEF OfferNext
    <2>3. OfferPending(n)
      BY <1>0, <1>00, <2>2 DEF Orphan
    <2>4. CASE Dev(n) \in todo
      <3>1. conn' = "offers" /\ Dev(n) \in todo'
        BY <1>0, <2>1, <2>4, OfferNextOffers DEF Orphan
      <3>2. QED
        BY <3>1 DEF OfferPending
    <2>5. CASE Dev(n) \notin todo
      BY <1>00, <2>1, <2>3, <2>5 DEF OfferPending
    <2>6. QED
      BY <2>4, <2>5
  <1>6. CASE SyncConnect
    <2>1. UNCHANGED <<live, unoffered, discoveries>> /\ conn = "connects"
      BY <1>6 DEF SyncConnect
    <2>2. OfferPending(n)
      BY <1>0, <1>00, <2>1 DEF Orphan
    <2>3. QED
      BY <1>00, <2>1, <2>2 DEF OfferPending
  <1>7. QED
    BY <1>1, <1>2, <1>3, <1>4, <1>5, <1>6 DEF Sync

\* A step that makes no new orphan and leaves the calls and the sync where they are
LEMMA QuietOffers ==
  ASSUME OrphanInv, NEW n \in Node, Orphan(n),
         UNCHANGED <<client, live, call, conn, todo, devs>>
  PROVE  OfferPending(n)'
  BY DEF OrphanInv, OfferPending

\* The Hub deletes the row of a node on the fabric into unoffered, and a live
\* client knows no other
LEMMA DevicesOffers ==
  ASSUME OrphanInv, Devices, NEW n \in Node, Orphan(n)'
  PROVE  OfferPending(n)'
  <1> USE DEF server, clients, syncing, polling, kept, shown
  <1>0. TypeInv /\ Current
    BY DEF OrphanInv
  <1>1. UNCHANGED <<client, live, call, conn, todo, devs>>
    BY DEF Devices, NodeUpdated, Deliver, LoopAsk, LoopAnswer, LoopReport,
           BleAdvert, Unpair, DeleteRow, ServerReset
  <1>2. client \in Client
    BY <1>0, <1>1 DEF Orphan, TypeInv, TypeOK
  <1>3. CASE \E m \in Node : DeleteRow(m)
    <2>1. PICK m \in Node : DeleteRow(m)
      BY <1>3
    <2>2. UNCHANGED <<nodes, discoveries>>
      BY <2>1 DEF DeleteRow
    <2>3. CASE live # client
      BY <1>1, <2>3 DEF OfferPending
    <2>4. CASE live = client
      <3>1. n \in fabric
        BY <1>0, <1>1, <1>2, <2>2, <2>4, ConstantsAssumption DEF Current, Orphan
      <3>2. n # m /\ n \notin unoffered
        BY <2>1, <3>1 DEF DeleteRow, Orphan
      <3>3. rows[Dev(n)] # "saved"
        BY <1>0, <2>1, <3>2, IdFacts DEF DeleteRow, Orphan, TypeInv, TypeOK
      <3>4. Orphan(n)
        BY <1>1, <2>2, <3>2, <3>3 DEF Orphan
      <3>5. QED
        BY <1>1, <3>4, QuietOffers
    <2>5. QED
      BY <2>3, <2>4
  <1>4. CASE UNCHANGED <<rows, unoffered>> /\ discoveries \subseteq discoveries'
    <2>1. n \in nodes[client]
      <3>1. ASSUME NEW m \in Node, NEW s \in Status, NodeUpdated(m, s)
            PROVE  n \in nodes[client]
        BY <1>0, <1>1, <1>2, <3>1, ServerHasCurrent DEF NodeUpdated, Orphan
      <3>2. ASSUME NEW m \in Node, Unpair(m) PROVE n \in nodes[client]
        BY <1>0, <1>1, <1>2, <3>2, ServerHasCurrent DEF Unpair, Orphan
      <3>3. CASE UNCHANGED nodes
        BY <1>1, <3>3 DEF Orphan
      <3>4. QED
        BY <3>1, <3>2, <3>3 DEF Devices, Deliver, LoopAsk, LoopAnswer,
           LoopReport, BleAdvert, DeleteRow, ServerReset
    <2>2. Orphan(n)
      BY <1>1, <1>4, <2>1 DEF Orphan
    <2>3. QED
      BY <1>1, <2>2, QuietOffers
  <1>5. QED
    BY <1>3, <1>4 DEF Devices, NodeUpdated, Deliver, LoopAsk, LoopAnswer,
       LoopReport, BleAdvert, Unpair, ServerReset

\* The pairing that commissioned a node saves its row, offers it, or goes on
LEMMA PairingOffers ==
  ASSUME OrphanInv, NEW p \in Call, Pairing(p), NEW n \in Node, Orphan(n)'
  PROVE  OfferPending(n)'
  <1> USE DEF server, clients, syncing, polling, kept, shown
  <1>0. /\ TypeInv /\ Current /\ CallFacts(p)
        /\ Orphan(n) => OfferPending(n)
        /\ call \in [Call -> CallRec]
        /\ CallShape(p)
    BY DEF OrphanInv, TypeInv, TypeOK, CallRec, Shape, CallShape
  <1>1. UNCHANGED <<client, live, conn, todo, devs, unoffered>>
    BY DEF Pairing, Pair, Commissioned, CommissionRefused, CommissionLost,
           CommissionAnswered, PairSave, PairSaveFails, PairFailed, PairSaved,
           PairReoffered, PairFollow
  <1>2. client \in Client
    BY <1>0, <1>1 DEF Orphan, TypeInv, TypeOK
  <1> DEFINE Seeing(q) ==
               /\ call[q].node = n
               /\ \/ call[q].pc = "commissioned" /\ call[q].from = live
                  \/ call[q].pc = "adding" /\ call[q].commissioned
                  \/ call[q].pc = "failing"
  \* So a step that does not take n out of the hands of p is fine
  <1>3. ASSUME Orphan(n), Seeing(p) => Seeing(p)' PROVE OfferPending(n)'
    <2>1. OfferPending(n)
      BY <1>0, <1>3
    <2>2. \A q \in Call \ {p} : call'[q] = call[q]
      BY <1>0, OtherCalls
    <2>3. \A q \in Call : Seeing(q) => Seeing(q)'
      BY <1>1, <1>3, <2>2
    <2>4. QED
      BY <1>1, <2>1, <2>3 DEF OfferPending
  <1>4. rows[Dev(n)] # "saved"
    BY <1>0, PairingRows DEF Orphan
  <1>5. CASE ~Commissioned(p)
    <2>1. UNCHANGED nodes
      BY <1>5 DEF Pairing, Pair, CommissionRefused, CommissionLost,
           CommissionAnswered, PairSave, PairSaveFails, PairFailed, PairSaved,
           PairReoffered, PairFollow
    <2>2. Dev(n) \notin discoveries
      <3>1. CASE PairSaved(p)
        <4>1. call[p].node \in Node /\ call[p].disc # Dev(n)
          BY <1>0, <1>4, <3>1, IdFacts DEF PairSaved, CallFacts, CallShape
        <4>2. QED
          BY <3>1, <4>1 DEF PairSaved, Orphan
      <3>2. CASE Fail(p) /\ call[p].pc # "idle"
        BY <1>0, <3>2 DEF Fail, CallFacts, Orphan
      <3>3. CASE discoveries \subseteq discoveries'
        BY <3>3 DEF Orphan
      <3>4. QED
        BY <1>5, <3>1, <3>2, <3>3 DEF Pairing, Pair, CommissionRefused,
           CommissionLost, CommissionAnswered, PairSave, PairSaveFails,
           PairFailed, PairReoffered, PairFollow
    <2>3. Orphan(n)
      BY <1>1, <1>4, <2>1, <2>2 DEF Orphan
    <2>4. Seeing(p) => Seeing(p)'
      <3> SUFFICES ASSUME Seeing(p) PROVE Seeing(p)'
        OBVIOUS
      <3>1. CASE CommissionAnswered(p)
        BY <1>0, <3>1 DEF CommissionAnswered, CallFacts, CallRec
      <3>2. CASE PairSave(p)
        BY <1>0, <3>2, IdFacts DEF PairSave, Orphan, TypeInv, TypeOK, RowState
      <3>3. CASE PairSaveFails(p)
        BY <1>0, <3>3 DEF PairSaveFails, Fail, CallRec
      <3>4. CASE PairFailed(p)
        BY <3>4 DEF PairFailed, Orphan
      <3>5. QED
        BY <1>5, <3>1, <3>2, <3>3, <3>4 DEF Pairing, Pair, CommissionRefused,
           CommissionLost, PairSaved, PairReoffered, PairFollow
    <2>5. QED
      BY <1>3, <2>3, <2>4
  <1>6. CASE Commissioned(p)
    <2>1. PICK m \in Node \ fabric :
            /\ ServerHas(fabric \cup {m}, [status EXCEPT ![m] = "up"])
            /\ call' = [call EXCEPT ![p].pc = "commissioned", ![p].node = m]
      BY <1>6 DEF Commissioned
    <2>2. CASE n = m
      <3>1. call'[p].node = n /\ call'[p].pc = "commissioned"
            /\ call'[p].from = live
        BY <1>0, <1>6, <2>1, <2>2 DEF Commissioned, CallRec
      <3>2. QED
        BY <1>1, <3>1 DEF OfferPending
    <2>3. CASE n # m
      <3>1. n \in nodes[client]
        BY <1>0, <1>1, <1>2, <2>1, <2>3, ServerHasCurrent DEF Orphan
      <3>2. Orphan(n)
        BY <1>1, <1>4, <1>6, <3>1 DEF Orphan, Commissioned
      <3>3. ~Seeing(p)
        BY <1>6 DEF Commissioned
      <3>4. QED
        BY <1>3, <3>2, <3>3
    <2>4. QED
      BY <2>2, <2>3
  <1>7. QED
    BY <1>5, <1>6

\* A node commissioned late is one the sync under way has not come to, or one
\* that waits for the next (unoffered)
LEMMA LateOffers ==
  ASSUME OrphanInv, NEW m \in Node, NEW s \in {"raw", "up"},
         CommissionedLate(m, s), NEW n \in Node, Orphan(n)'
  PROVE  OfferPending(n)'
  <1> USE DEF server, clients, syncing, polling, kept, shown
  <1>0. TypeInv /\ Current
    BY DEF OrphanInv
  <1>1. UNCHANGED <<client, live, rows, discoveries, call, conn, todo, devs>>
    BY DEF CommissionedLate
  <1>2. client \in Client
    BY <1>0, <1>1 DEF Orphan, TypeInv, TypeOK
  <1>3. CASE n = m
    <2>1. n \notin devs /\ Dev(n) \notin todo
      BY <1>3 DEF CommissionedLate
    <2>2. live # NoClient => conn \notin {"offers", "connects", "listen"}
      BY <1>3 DEF CommissionedLate, Orphan
    <2>3. QED
      BY <1>1, <2>1, <2>2 DEF OfferPending, Orphan
  <1>4. CASE n # m
    <2>1. n \in nodes[client]
      BY <1>0, <1>1, <1>2, <1>4, ServerHasCurrent DEF CommissionedLate, Orphan
    <2>2. n \notin unoffered
      BY DEF CommissionedLate, Orphan
    <2>3. Orphan(n)
      BY <1>1, <2>1, <2>2 DEF Orphan
    <2>4. QED
      BY <1>1, <2>3, QuietOffers
  <1>5. QED
    BY <1>3, <1>4

\* Every step keeps the invariant.
LEMMA NextOrphanInv == OrphanInv /\ [Next]_vars => OrphanInv'
  <1> SUFFICES ASSUME OrphanInv, [Next]_vars PROVE OrphanInv'
    OBVIOUS
  <1>0. TypeInv /\ Current
    BY DEF OrphanInv
  <1>1. CASE Next
    <2>1. TypeInv' /\ Current'
      BY <1>0, <1>1, NextTypeInv, CurrentStep
    <2>2. \A q \in Call : CallFacts(q)'
      BY <1>1, CallFactsStep
    <2>3. conn' = "rows" => devs' = {}
      <3> USE DEF server, clients, syncing, polling, kept, shown
      <3>1. CASE UNCHANGED <<conn, devs>>
        BY <3>1 DEF OrphanInv
      <3>2. CASE conn' # "rows" \/ devs' = {}
        BY <3>2
      <3>3. QED
        BY <1>1, <3>1, <3>2 DEF Next, Connection, Start, Stop, ServerLost,
           StayLost, StayLose, StayReconnect, LoseNext, Sync, SyncNodes, SyncRows,
           SyncCrash, SyncFollow, SyncFollowed, SyncOffer, SyncConnect, OfferNext,
           ConnectNext, Devices, NodeUpdated, Deliver, LoopAsk, LoopAnswer,
           LoopReport, BleAdvert, Unpair, DeleteRow, ServerReset, Pairing, Pair,
           Commissioned, CommissionRefused, CommissionLost, CommissionAnswered,
           PairSave, PairSaveFails, PairFailed, PairSaved, PairReoffered,
           PairFollow, CommissionedLate
    <2>4. ASSUME NEW n \in Node, Orphan(n)' PROVE OfferPending(n)'
      BY <1>1, <2>4, ConnectionOffers, SyncOffers, DevicesOffers, PairingOffers,
         LateOffers DEF Next
    <2>5. QED
      BY <2>1, <2>2, <2>3, <2>4 DEF OrphanInv
  <1>2. CASE UNCHANGED vars
    <2>1. TypeInv' /\ Current'
      BY <1>0, <1>2, NextTypeInv DEF vars, Current
    <2>2. QED
      BY <1>2, <2>1 DEF OrphanInv, vars, CallFacts, Orphan, OfferPending
  <1>3. QED
    BY <1>1, <1>2

\* Whatever became of the pairings that brought them - answered, refused, cut off
\* by an outage, failed on the repository, overtaken by stop() or by a sync -, the
\* nodes on the fabric without a device are offered once all is settled.
THEOREM NoNodeOrphaned == Spec => []NoOrphanNode
  <1>1. Init => OrphanInv
    BY InitOrphanInv
  <1>2. OrphanInv /\ [Next]_vars => OrphanInv'
    BY NextOrphanInv
  <1>3. OrphanInv => NoOrphanNode
    <2> SUFFICES ASSUME OrphanInv, Settled, NEW n \in nodes[client],
                        rows[Dev(n)] # "saved", n \notin unoffered
                 PROVE  Dev(n) \in discoveries
      BY DEF NoOrphanNode
    <2>1. client \in Client /\ n \in Node
      BY DEF OrphanInv, Settled, TypeInv, TypeOK, Shape
    <2>2. ~OfferPending(n)
      BY DEF OfferPending, Settled
    <2>3. QED
      BY <2>1, <2>2, ConstantsAssumption DEF OrphanInv, Orphan
  <1>4. QED
    BY <1>1, <1>2, <1>3, PTL DEF Spec
===============================================================================
