--------------------------- MODULE MatterController ---------------------------
(***************************************************************************)
(* The life of majordom_matter.controller.MatterController: start, stop,   *)
(* the connection to matterjs-server and its recovery, the sync of every   *)
(* (re)connect, pairing, unpairing, availability and discoveries.          *)
(*                                                                         *)
(* Everything runs on one asyncio loop, so an action is the code between   *)
(* two awaits.  A call of the Hub takes effect when it is made; its await  *)
(* may last, which is where the other tasks get in.                        *)
(*                                                                         *)
(* A physical device is identified with the node it is (or becomes) on the *)
(* fabric: matterjs-server never gives a node id out twice, and the id of  *)
(* a device is a function of its node.                                     *)
(***************************************************************************)
EXTENDS Naturals, Sequences

CONSTANTS
  Node,       \* the devices, by the node id they have on the fabric
  Client,     \* MatterClient objects; one nobody holds any more is reused
  Call,       \* the pair_device calls that may be in progress together
  NoClient,   \* _matter_client is None
  NoNode,     \* a pairing that does not know its node yet
  Bluetooth,  \* "adapter": matterjs-server's own, "router": the hub's, "none"
  Budget,     \* how often each kind of outside event may happen (a bound)
  MaxSpawned  \* output tasks a callback may have waiting to run (a bound)

\* The outside events a run bounds: reachability changes, lost connections,
\* stops, pairings, discovery polls and adverts, removals, failing repository
\* calls.
Event == {"flip", "loss", "stop", "pair", "poll", "drop", "fail"}

ASSUME ConstantsAssumption ==
  /\ NoClient \notin Client
  /\ NoNode \notin Node
  /\ Bluetooth \in {"adapter", "router", "none"}
  /\ Budget \in [Event -> Nat]
  /\ MaxSpawned \in Nat

-------------------------------------------------------------------------------
\* Identifiers.  _node_device_id(node) is both the id of a node's device row
\* and the id under which a node without a device is offered; the others are
\* discovery ids, under which the Hub seeds a row while it pairs.

Dev(n) == <<"device", n>>
Mdns(n) == <<"mdns", n>>
Ble(n) == <<"ble", n>>
ByCode == <<"code", NoNode>>

Id == {Dev(n) : n \in Node} \cup {Mdns(n) : n \in Node}
        \cup {Ble(n) : n \in Node} \cup {ByCode}

\* "raw": not interviewed yet, so without device info and never available
Status == {"raw", "down", "up"}
RowState == {"none", "seeded", "saved"}

\* Where _stay_connected (or the sync of start()) is
SyncPc == {"handover", "rows", "follow", "offers", "connects"}
ConnPc == SyncPc \cup {"stopped", "listen", "losing", "backoff", "crashed"}

CallPc == {"idle", "commissioning", "commissioned", "adding", "saved",
           "reoffered", "connected", "failing"}

VARIABLES
  fabric,       \* the nodes on matterjs-server's fabric
  status,       \* the state matterjs-server knows of each
  adrift,       \* discovery ids of the commissionings whose answer was lost,
                \* which matterjs-server may still finish
  live,         \* the client whose WebSocket is up, or NoClient
  client,       \* _matter_client
  nodes,        \* the node cache of each client (stays after a disconnect)
  object,       \* the state of each client's node objects
  subs,         \* the nodes _subscription followed, of each client
  avail,        \* _node_availability
  discoveries,  \* _majordom_descoveries
  rows,         \* the Hub's device rows of this integration
  hub,          \* the devices the Hub shows as connected
  spawned,      \* output tasks of _make_availability_callback, in order
  conn,         \* where the connection task is
  starting,     \* its sync is start()'s
  todo,         \* what its loop has left
  gone,         \* the rows without a node its loop has left
  snap,         \* the nodes its sync took from the client
  devs,         \* device_nodes of its sync
  asking,       \* the client whose answer the discovery loop waits for
  found,        \* the nodes it has left to report
  call,         \* the pair_device calls
  unoffered,    \* nodes without a row that stay unoffered until the next sync
                \* (history: raw ones, those whose row the Hub deleted, and
                \* those commissioned behind the back of the last sync)
  outdated,     \* nodes whose availability is what a former client knew, with
                \* nothing put out of them since (history)
  hidden,       \* devices a sync lost although its client has their node, with
                \* nothing put out of them since (history)
  budget        \* what is left of Budget

server == <<fabric, status, adrift>>
clients == <<live, client, nodes, object>>
syncing == <<starting, todo, gone, snap, devs>>
polling == <<asking, found>>
kept == <<avail, outdated>>
shown == <<hub, hidden>>
vars == <<fabric, status, adrift, live, client, nodes, object, subs, avail,
          discoveries, rows, hub, spawned, conn, starting, todo, gone, snap,
          devs, asking, found, call, unoffered, outdated, hidden, budget>>

Spend(kind) ==
  /\ budget[kind] > 0
  /\ budget' = [budget EXCEPT ![kind] = @ - 1]

NoCall(result) ==
  [pc |-> "idle", disc |-> ByCode, node |-> NoNode, from |-> NoClient,
   commissioned |-> FALSE, result |-> result]

Busy(n) == \E p \in Call : call[p].pc # "idle" /\ call[p].node = n

Init ==
  /\ \E known, saved \in SUBSET Node :
       /\ fabric = known
       /\ rows = [id \in Id |->
                    IF id \in {Dev(n) : n \in saved} THEN "saved" ELSE "none"]
  /\ status \in [Node -> {"down", "up"}]
  /\ adrift = {}
  /\ live = NoClient
  /\ client = NoClient
  /\ nodes = [c \in Client |-> {}]
  /\ object = [c \in Client |-> [n \in Node |-> "down"]]
  /\ subs = [c \in Client |-> {}]
  /\ avail = [n \in Node |-> "unset"]
  /\ discoveries = {}
  /\ hub = {}
  /\ spawned = <<>>
  /\ conn = "stopped"
  /\ starting = FALSE
  /\ todo = {} /\ gone = {} /\ snap = {} /\ devs = {}
  /\ asking = NoClient /\ found = {}
  /\ call = [p \in Call |-> NoCall("none")]
  /\ unoffered = {} /\ outdated = {} /\ hidden = {}
  /\ budget = Budget

-------------------------------------------------------------------------------
\* The connection: _connect, start, stop, _stay_connected

\* matterjs-server's nodes are s, known k.  A live client is told at once: its
\* events and answers share one ordered WebSocket.
ServerHas(k, s) ==
  /\ fabric' = k
  /\ status' = s
  /\ IF live = NoClient
       THEN UNCHANGED <<nodes, object>>
       ELSE /\ nodes' = [nodes EXCEPT ![live] = k]
            /\ object' = [object EXCEPT ![live] = s]

\* controller_did_connect_device, controller_did_lose_device
ShowDevice(id) == hub' = hub \cup {id} /\ hidden' = hidden \ {id}
LoseDevice(id) == hub' = hub \ {id} /\ hidden' = hidden \ {id}

Available == {Dev(n) : n \in {m \in Node : avail[m] = "up"}}

\* _connect: a fresh client with matterjs-server's node list, current from now
\* on.  The clients nobody holds are forgotten, and any of them will do.
Connect ==
  LET held == {call[p].from : p \in Call} \cup {client, asking}
      c == CHOOSE x \in Client \ held : TRUE
  IN
    /\ Client \ held # {}
    /\ live' = c
    /\ client' = c
    /\ nodes' = [x \in Client |-> IF x = c THEN fabric
                                  ELSE IF x \in held THEN nodes[x] ELSE {}]
    /\ object' = [x \in Client |->
                    IF x = c THEN status
                    ELSE IF x \in held THEN object[x]
                    ELSE [n \in Node |-> "down"]]
    /\ subs' = [x \in Client |-> IF x \in held \ {c} THEN subs[x] ELSE {}]

\* start(), up to the hand-over of the networks (a connection refused raises and
\* leaves everything as it was).  The Hub marks the devices of an integration
\* unavailable when it stops, and at boot.
Start ==
  /\ conn = "stopped"
  /\ Connect
  /\ avail' = [n \in Node |-> "unset"]
  /\ hub' = {} /\ hidden' = {}
  /\ discoveries' = IF Bluetooth = "adapter"
                      THEN discoveries \cup {ByCode} ELSE discoveries
  /\ conn' = "handover"
  /\ starting' = TRUE
  /\ UNCHANGED <<server, outdated, rows, spawned, todo, gone, snap, devs,
                 polling, call, unoffered, budget>>

\* stop(): clears, cancels every background task (the output tasks too) and
\* disconnects; the pair_device calls are the Hub's and go on.  A start() that
\* is under way ends with it.
Stop ==
  /\ conn # "stopped"
  /\ Spend("stop")
  /\ discoveries' = {}
  /\ client' = NoClient
  /\ live' = NoClient
  /\ spawned' = <<>>
  /\ hub' = {} /\ hidden' = {}
  /\ conn' = "stopped"
  /\ starting' = FALSE
  /\ todo' = {} /\ gone' = {} /\ snap' = {} /\ devs' = {}
  /\ asking' = NoClient /\ found' = {}
  /\ UNCHANGED <<server, nodes, object, subs, kept, rows, call, unoffered>>

\* The connection ends: matterjs-server is gone, or dropped it
ServerLost ==
  /\ live # NoClient
  /\ Spend("loss")
  /\ live' = NoClient
  /\ UNCHANGED <<server, client, nodes, object, subs, kept, discoveries, rows,
                 shown, spawned, conn, syncing, polling, call, unoffered>>

\* Mutant: loops until no device is available instead of over a copy
LoseNextUntilNone(ids) ==
  \/ /\ \E id \in ids : LoseDevice(id) /\ todo' = ids \ {id}
     /\ conn' = "losing"
     /\ UNCHANGED avail
  \/ /\ ids = {} /\ Available = {}
     /\ todo' = {}
     /\ conn' = "backoff"
     /\ UNCHANGED <<avail, shown>>

\* The devices in ids are lost one by one, and then every availability is reset.
\* The delays and the report of the outage are the subject of module Outage.
LoseNext(ids) ==
  \/ /\ \E id \in ids : LoseDevice(id) /\ todo' = ids \ {id}
     /\ conn' = "losing"
     /\ UNCHANGED avail
  \/ /\ ids = {}
     /\ todo' = {}
     /\ avail' = [n \in Node |-> IF avail[n] = "unset" THEN "unset" ELSE "down"]
     /\ conn' = "backoff"
     /\ UNCHANGED shown

\* The listener ended: the devices that are available now (a copy) are lost
StayLost ==
  /\ conn = "listen"
  /\ live # client
  /\ LoseNext(Available)
  /\ UNCHANGED <<server, clients, subs, outdated, discoveries, rows, spawned,
                 starting, gone, snap, devs, polling, call, unoffered, budget>>

StayLose ==
  /\ conn = "losing"
  /\ LoseNext(todo)
  /\ UNCHANGED <<server, clients, subs, outdated, discoveries, rows, spawned,
                 starting, gone, snap, devs, polling, call, unoffered, budget>>

\* matterjs-server is back.  The sleep before lasts a second at least, and an
\* output task starts as soon as the loop turns: none is left.
StayReconnect ==
  /\ conn = "backoff"
  /\ spawned = <<>>
  /\ Connect
  /\ conn' = "handover"
  /\ UNCHANGED <<server, kept, discoveries, rows, shown, spawned, syncing,
                 polling, call, unoffered, budget>>

-------------------------------------------------------------------------------
\* _sync_with_server

\* The hand-over of the networks is over, whatever came of it; the nodes are
\* taken before the rows are read
SyncNodes ==
  /\ conn = "handover"
  /\ snap' = nodes[client]
  /\ devs' = {}
  /\ conn' = "rows"
  /\ UNCHANGED <<server, clients, subs, kept, discoveries, rows, shown, spawned,
                 starting, todo, gone, polling, call, unoffered, budget>>

\* The Hub's rows are read: those with a node on the fabric are to be followed,
\* the others (seeded ones too) are to be lost
SyncRows ==
  /\ conn = "rows"
  /\ LET followed == {Dev(n) : n \in {m \in snap : rows[Dev(m)] = "saved"}} IN
       /\ todo' = followed
       /\ gone' = {id \in Id : rows[id] # "none"} \ followed
  /\ unoffered' = {}
  /\ conn' = "follow"
  /\ UNCHANGED <<server, clients, subs, kept, discoveries, rows, shown, spawned,
                 starting, snap, devs, polling, call, budget>>

\* The repository fails: start() raises, or _stay_connected ends as crashed
SyncCrash ==
  /\ conn = "rows"
  /\ Spend("fail")
  /\ conn' = "crashed"
  /\ starting' = FALSE
  /\ live' = IF starting THEN live ELSE NoClient
  /\ UNCHANGED <<server, client, nodes, object, subs, kept, discoveries, rows,
                 shown, spawned, todo, gone, snap, devs, polling, call,
                 unoffered>>

\* Mutant: subscribes with the client the node was taken from
SubscribeOldClient(ns, c) ==
  /\ subs' = [subs EXCEPT ![c] = @ \cup ns]
  /\ avail' = [n \in Node |-> IF n \in ns THEN object[c][n] ELSE avail[n]]

\* Mutant: an availability already known is kept
SubscribeKeepsKnown(ns, c) ==
  /\ subs' = [subs EXCEPT ![client] = @ \cup ns]
  /\ avail' = [n \in Node |-> IF n \in ns /\ avail[n] = "unset"
                                THEN object[c][n] ELSE avail[n]]

\* _subscription of the devices of every node in ns, whose objects are of
\* client c; the subscriptions go to the current client
Subscribe(ns, c) ==
  /\ subs' = [subs EXCEPT ![client] = @ \cup ns]
  /\ avail' = [n \in Node |-> IF n \in ns THEN object[c][n] ELSE avail[n]]

\* Mutant: the devices already subscribed are taken for connected
ConnectNone(ids) ==
  /\ todo' = {} /\ snap' = {} /\ devs' = {}
  /\ conn' = "listen"
  /\ starting' = FALSE
  /\ UNCHANGED shown

\* Mutant: the loop returns after its first device
ConnectFirst(ids) ==
  /\ IF ids = {} THEN UNCHANGED shown
     ELSE \E id \in ids : ShowDevice(id)
  /\ todo' = {} /\ snap' = {} /\ devs' = {}
  /\ conn' = "listen"
  /\ starting' = FALSE

\* The devices in ids are connected one by one, and the sync is over
ConnectNext(ids) ==
  \/ /\ \E id \in ids : ShowDevice(id) /\ todo' = ids \ {id}
     /\ conn' = "connects"
     /\ UNCHANGED <<starting, snap, devs>>
  \/ /\ ids = {}
     /\ todo' = {}
     /\ conn' = "listen"
     /\ starting' = FALSE
     /\ snap' = {} /\ devs' = {}
     /\ UNCHANGED shown

\* The nodes without a device, with the ids in ids, are offered one by one.  On
\* the way to the next, raw ones are passed over and left for the next sync.  At
\* the end the devices available by then (a copy) are connected.
OfferNext(ids, available) ==
  LET raw == {Dev(n) : n \in {m \in Node : object[client][m] = "raw"}} IN
  \E passed \in SUBSET (ids \cap raw) :
    /\ unoffered' = unoffered \cup {n \in Node : Dev(n) \in passed}
    /\ \/ /\ \E id \in ids \ raw :
               /\ discoveries' = discoveries \cup {id}
               /\ todo' = ids \ (passed \cup {id})
          /\ conn' = "offers"
          /\ UNCHANGED <<shown, starting, snap, devs>>
       \/ /\ ids = passed
          /\ ConnectNext(available)
          /\ UNCHANGED discoveries

\* An output task of the node's device has not begun
Waiting(n) == \E i \in DOMAIN spawned : spawned[i][2] = Dev(n)

\* A sync follows the devices of ns (history: from then on they are up to date,
\* but for one whose older outputs are still to come)
Follow(ns) ==
  /\ Subscribe(ns, client)
  /\ outdated' = {n \in outdated : n \notin ns \/ Waiting(n)}

\* The devices up to the next one without a node are followed, and that one is
\* lost (a pairing may have saved it after the sync took the nodes)
SyncFollow ==
  /\ conn = "follow"
  /\ \E ns \in SUBSET {n \in Node : Dev(n) \in todo} :
       /\ Follow(ns)
       /\ devs' = devs \cup ns
       /\ todo' = todo \ {Dev(n) : n \in ns}
  /\ \E id \in gone :
       /\ hub' = hub \ {id}
       /\ hidden' = IF \E n \in nodes[client] :
                             id = Dev(n) /\ rows[id] = "saved"
                       THEN hidden \cup {id} ELSE hidden
       /\ gone' = gone \ {id}
  /\ UNCHANGED <<server, clients, discoveries, rows, spawned, conn, starting,
                 snap, polling, call, unoffered, budget>>

\* The last ones are followed
SyncFollowed ==
  /\ conn = "follow"
  /\ gone = {}
  /\ LET ns == {n \in Node : Dev(n) \in todo} IN
       /\ Follow(ns)
       /\ OfferNext({Dev(n) : n \in nodes[client] \ (devs \cup ns)}, Available')
  /\ UNCHANGED <<server, clients, rows, spawned, gone, polling, call, budget>>

SyncOffer ==
  /\ conn = "offers"
  /\ OfferNext(todo, Available)
  /\ UNCHANGED <<server, clients, subs, kept, rows, spawned, gone, polling,
                 call, budget>>

SyncConnect ==
  /\ conn = "connects"
  /\ ConnectNext(todo)
  /\ UNCHANGED <<server, clients, subs, kept, discoveries, rows, spawned, gone,
                 polling, call, unoffered, budget>>

-------------------------------------------------------------------------------
\* Availability: NODE_UPDATED and _make_availability_callback

\* A node gets reachable, unreachable or interviewed.  With a live client its
\* callback, when there is one, acts on a transition only and spawns the output.
NodeUpdated(n, s) ==
  /\ n \in fabric
  /\ s \in {"down", "up"} \ {status[n]}
  /\ Spend("flip")
  /\ ServerHas(fabric, [status EXCEPT ![n] = s])
  /\ IF live # NoClient /\ n \in subs[live] /\ avail[n] # s
       THEN /\ Len(spawned) < MaxSpawned
            /\ avail' = [avail EXCEPT ![n] = s]
            /\ outdated' = outdated \ {n}
            /\ spawned' = Append(spawned, <<s, Dev(n)>>)
       ELSE UNCHANGED <<kept, spawned>>
  /\ UNCHANGED <<adrift, live, client, subs, discoveries, rows, shown, conn,
                 syncing, polling, call, unoffered>>

\* The oldest spawned output task runs: the event loop starts them in order
Deliver ==
  /\ spawned # <<>>
  /\ LET output == Head(spawned) IN
       IF output[1] = "up" THEN ShowDevice(output[2]) ELSE LoseDevice(output[2])
  /\ spawned' = Tail(spawned)
  /\ UNCHANGED <<server, clients, subs, kept, discoveries, rows, conn, syncing,
                 polling, call, unoffered, budget>>

-------------------------------------------------------------------------------
\* Discoveries: _matter_discovery_loop and the Bluetooth router's adverts

\* The loop asks for the commissionable devices (a client without a connection
\* raises, and the loop sleeps on)
LoopAsk ==
  /\ conn # "stopped"
  /\ asking = NoClient /\ found = {}
  /\ live # NoClient /\ live = client
  /\ Spend("poll")
  /\ asking' = client
  /\ UNCHANGED <<server, clients, subs, kept, discoveries, rows, shown, spawned,
                 conn, syncing, found, call, unoffered>>

\* The answer, or the end of the connection, which ends the wait
LoopAnswer ==
  /\ asking # NoClient
  /\ asking' = NoClient
  /\ IF live = asking
       THEN found' \in SUBSET (Node \ fabric)
       ELSE UNCHANGED found
  /\ UNCHANGED <<server, clients, subs, kept, discoveries, rows, shown, spawned,
                 conn, syncing, call, unoffered, budget>>

\* _async_matter_did_discover, once per device of the answer
LoopReport ==
  /\ \E n \in found :
       /\ discoveries' = discoveries \cup {Mdns(n)}
       /\ found' = found \ {n}
  /\ UNCHANGED <<server, clients, subs, kept, rows, shown, spawned, conn,
                 syncing, asking, call, unoffered, budget>>

\* _matter_did_discover_ble: the router heard a device that can be commissioned
BleAdvert(n) ==
  /\ Bluetooth = "router"
  /\ conn # "stopped"
  /\ n \notin fabric
  /\ Ble(n) \notin discoveries
  /\ Spend("poll")
  /\ discoveries' = discoveries \cup {Ble(n)}
  /\ UNCHANGED <<server, clients, subs, kept, rows, shown, spawned, conn,
                 syncing, polling, call, unoffered>>

-------------------------------------------------------------------------------
\* pair_device and _add_device.  The Hub seeds a row under the discovery's id
\* before the call and drops it when the call raises.

\* The call ends; a row the call did not save goes with a failure
End(p, result) ==
  /\ call' = [call EXCEPT ![p] = NoCall(result)]
  /\ rows' = IF result = "error" /\ rows[call[p].disc] = "seeded"
               THEN [rows EXCEPT ![call[p].disc] = "none"] ELSE rows

\* pair_device of a discovery the Hub was given, up to its first await
Pair(p, id) ==
  /\ call[p].pc = "idle"
  /\ id \in discoveries
  /\ rows[id] = "none"
  /\ client # NoClient
  /\ Spend("pair")
  /\ \/ \* on the fabric: taken as it is
        \E n \in nodes[client] :
          /\ id = Dev(n)
          /\ object[client][n] # "raw"
          /\ call' = [call EXCEPT ![p] =
                        [pc |-> "adding", disc |-> id, node |-> n,
                         from |-> client, commissioned |-> FALSE,
                         result |-> "none"]]
     \/ \* commissioned with its code
        /\ id \notin {Dev(n) : n \in Node}
        /\ live = client
        /\ call' = [call EXCEPT ![p] =
                      [pc |-> "commissioning", disc |-> id, node |-> NoNode,
                       from |-> client, commissioned |-> TRUE,
                       result |-> "none"]]
  /\ rows' = [rows EXCEPT ![id] = "seeded"]
  /\ UNCHANGED <<server, clients, subs, kept, discoveries, shown, spawned, conn,
                 syncing, polling, unoffered>>

\* The device a discovery leads to; any commissionable one with its code
Reaches(id, n) == id \in {Mdns(n), Ble(n), ByCode}

\* matterjs-server commissioned the device and announced its node; the answer
\* is on its way.  A device commissioned again was removed before: no output
\* task of that time is still to start.
Commissioned(p) ==
  /\ call[p].pc = "commissioning"
  /\ live # NoClient /\ live = call[p].from
  /\ \E n \in Node \ fabric :
       /\ Reaches(call[p].disc, n)
       /\ rows[Dev(n)] # "saved"
       /\ ~Busy(n)
       /\ ~Waiting(n)
       /\ ServerHas(fabric \cup {n}, [status EXCEPT ![n] = "up"])
       /\ call' = [call EXCEPT ![p].pc = "commissioned", ![p].node = n]
  /\ UNCHANGED <<adrift, live, client, subs, kept, discoveries, rows, shown,
                 spawned, conn, syncing, polling, unoffered, budget>>

\* matterjs-server answers with an error (a wrong code, a device out of reach)
CommissionRefused(p) ==
  /\ call[p].pc = "commissioning"
  /\ live # NoClient /\ live = call[p].from
  /\ End(p, "error")
  /\ UNCHANGED <<server, clients, subs, kept, discoveries, shown, spawned, conn,
                 syncing, polling, unoffered, budget>>

\* The connection ended before the answer: MatterConnectionError.  What
\* matterjs-server had not finished by then it may still finish.
CommissionLost(p) ==
  /\ call[p].pc \in {"commissioning", "commissioned"}
  /\ live # call[p].from
  /\ End(p, "error")
  /\ adrift' = IF call[p].pc = "commissioning"
                 THEN adrift \cup {call[p].disc} ELSE adrift
  /\ UNCHANGED <<fabric, status, clients, subs, kept, discoveries, shown,
                 spawned, conn, syncing, polling, unoffered, budget>>

\* It does, before, after or while the next client connects, and the node's
\* interview (for a while "raw") is nobody's business either.  Its node id is
\* new: nothing on the way is about it.  A sync that is past its second
\* get_nodes() does not offer it, nor does anything until the next sync.
CommissionedLate(n, s) ==
  /\ n \notin fabric
  /\ \E id \in adrift : Reaches(id, n) /\ adrift' = adrift \ {id}
  /\ rows[Dev(n)] # "saved"
  /\ ~Busy(n) /\ ~Waiting(n)
  /\ n \notin devs /\ Dev(n) \notin todo
  /\ \A c \in Client : n \notin subs[c]
  /\ ServerHas(fabric \cup {n}, [status EXCEPT ![n] = s])
  /\ unoffered' = IF /\ live # NoClient
                      /\ conn \in {"offers", "connects", "listen"}
                    THEN unoffered \cup {n} ELSE unoffered
  /\ UNCHANGED <<live, client, subs, kept, discoveries, rows, shown, spawned,
                 conn, syncing, polling, call, budget>>

\* Mutant: the first event of the node is taken for the answer
CommissionAnsweredEarly(p) ==
  /\ call[p].pc \in {"commissioning", "commissioned"}
  /\ live = call[p].from
  /\ call' = [call EXCEPT ![p].pc = "adding"]
  /\ UNCHANGED <<server, clients, subs, kept, discoveries, rows, shown, spawned,
                 conn, syncing, polling, unoffered, budget>>

\* The answer: _add_device asks the repository for the seeded row
CommissionAnswered(p) ==
  /\ call[p].pc = "commissioned"
  /\ live = call[p].from
  /\ call' = [call EXCEPT ![p].pc = "adding"]
  /\ UNCHANGED <<server, clients, subs, kept, discoveries, rows, shown, spawned,
                 conn, syncing, polling, unoffered, budget>>

\* repository.save: the seeded row becomes the device's
PairSave(p) ==
  /\ call[p].pc = "adding"
  /\ rows' = [rows EXCEPT ![call[p].disc] = "none",
                          ![Dev(call[p].node)] = "saved"]
  /\ call' = [call EXCEPT ![p].pc = "saved"]
  /\ UNCHANGED <<server, clients, subs, kept, discoveries, shown, spawned, conn,
                 syncing, polling, unoffered, budget>>

\* Mutant: the error is raised on at once
FailAtOnce(p) ==
  /\ End(p, "error")
  /\ UNCHANGED discoveries

\* _add_device raises: the discovery of a device that was commissioned is gone
\* (the one by code stays), and its node is to be offered as it is
Fail(p) ==
  IF call[p].commissioned
    THEN /\ discoveries' = discoveries \ ({call[p].disc} \ {ByCode})
         /\ call' = [call EXCEPT ![p].pc = "failing"]
         /\ UNCHANGED rows
    ELSE /\ End(p, "error")
         /\ UNCHANGED discoveries

\* The repository or the mapping of the node fails
PairSaveFails(p) ==
  /\ call[p].pc = "adding"
  /\ Spend("fail")
  /\ Fail(p)
  /\ UNCHANGED <<server, clients, subs, kept, shown, spawned, conn, syncing,
                 polling, unoffered>>

\* ... offered, and the error raised on
PairFailed(p) ==
  /\ call[p].pc = "failing"
  /\ discoveries' = discoveries \cup {Dev(call[p].node)}
  /\ End(p, "error")
  /\ UNCHANGED <<server, clients, subs, kept, shown, spawned, conn, syncing,
                 polling, unoffered, budget>>

\* The row is saved: the discovery goes, and when Matter stopped meanwhile that
\* is all; the discovery by code is offered anew, any other device connected
PairSaved(p) ==
  /\ call[p].pc = "saved"
  /\ LET left == discoveries \ {call[p].disc} IN
       \/ /\ client = NoClient
          /\ discoveries' = left
          /\ End(p, "device")
          /\ UNCHANGED shown
       \/ /\ client # NoClient
          /\ call[p].disc = ByCode
          /\ discoveries' = left \cup {ByCode}
          /\ call' = [call EXCEPT ![p].pc = "reoffered"]
          /\ UNCHANGED <<rows, shown>>
       \/ /\ client # NoClient
          /\ call[p].disc # ByCode
          /\ discoveries' = left
          /\ ShowDevice(Dev(call[p].node))
          /\ call' = [call EXCEPT ![p].pc = "connected"]
          /\ UNCHANGED rows
  /\ UNCHANGED <<server, clients, subs, kept, spawned, conn, syncing, polling,
                 unoffered, budget>>

\* The Hub took the discovery by code: the device is connected
PairReoffered(p) ==
  /\ call[p].pc = "reoffered"
  /\ ShowDevice(Dev(call[p].node))
  /\ call' = [call EXCEPT ![p].pc = "connected"]
  /\ UNCHANGED <<server, clients, subs, kept, discoveries, rows, spawned, conn,
                 syncing, polling, unoffered, budget>>

\* The Hub took the device: it is followed, on the client that is current now
\* with the node object taken before; without a current client that raises
PairFollow(p) ==
  /\ call[p].pc = "connected"
  /\ \/ /\ client # NoClient
        /\ Subscribe({call[p].node}, call[p].from)
        /\ outdated' = IF call[p].from = client THEN outdated
                         ELSE outdated \cup {call[p].node}
        /\ End(p, "device")
        /\ UNCHANGED discoveries
     \/ /\ client = NoClient
        /\ Fail(p)
        /\ UNCHANGED <<subs, kept>>
  /\ UNCHANGED <<server, clients, shown, spawned, conn, syncing, polling,
                 unoffered, budget>>

-------------------------------------------------------------------------------
\* Removal: unpair, and the Hub's side of it

\* unpair of a device with a node: matterjs-server removes it and says so
Unpair(n) ==
  /\ rows[Dev(n)] = "saved"
  /\ client # NoClient /\ live = client
  /\ n \in nodes[client]
  /\ ~Busy(n)
  /\ Spend("drop")
  /\ ServerHas(fabric \ {n}, status)
  /\ UNCHANGED <<adrift, live, client, subs, kept, discoveries, rows, shown,
                 spawned, conn, syncing, polling, call, unoffered>>

\* The Hub deletes a device's row: after unpair, or while Matter is not there
DeleteRow(n) ==
  /\ rows[Dev(n)] = "saved"
  /\ ~Busy(n)
  /\ Spend("drop")
  /\ rows' = [rows EXCEPT ![Dev(n)] = "none"]
  /\ LoseDevice(Dev(n))
  /\ unoffered' = IF n \in fabric THEN unoffered \cup {n} ELSE unoffered
  /\ UNCHANGED <<server, clients, subs, kept, discoveries, spawned, conn,
                 syncing, polling, call>>

\* matterjs-server forgets a node while it is away (its data was reset)
ServerReset(n) ==
  /\ live = NoClient
  /\ n \in fabric
  /\ ~Busy(n)
  /\ Spend("drop")
  /\ fabric' = fabric \ {n}
  /\ UNCHANGED <<status, adrift, clients, subs, kept, discoveries, rows, shown,
                 spawned, conn, syncing, polling, call, unoffered>>

-------------------------------------------------------------------------------
Connection ==
  \/ Start \/ Stop \/ ServerLost
  \/ StayLost \/ StayLose \/ StayReconnect

Sync ==
  \/ SyncNodes \/ SyncRows \/ SyncCrash \/ SyncFollow \/ SyncFollowed
  \/ SyncOffer \/ SyncConnect

Pairing(p) ==
  \/ \E id \in Id : Pair(p, id)
  \/ Commissioned(p) \/ CommissionRefused(p) \/ CommissionLost(p)
  \/ CommissionAnswered(p)
  \/ PairSave(p) \/ PairSaveFails(p) \/ PairFailed(p)
  \/ PairSaved(p) \/ PairReoffered(p) \/ PairFollow(p)

Devices ==
  \/ \E n \in Node, s \in Status : NodeUpdated(n, s)
  \/ Deliver
  \/ LoopAsk \/ LoopAnswer \/ LoopReport
  \/ \E n \in Node : BleAdvert(n) \/ Unpair(n) \/ DeleteRow(n) \/ ServerReset(n)

Next ==
  \/ Connection \/ Sync \/ Devices
  \/ \E p \in Call : Pairing(p)
  \/ \E n \in Node, s \in {"raw", "up"} : CommissionedLate(n, s)

Spec == Init /\ [][Next]_vars

\* The event loop runs every task that can run; the Hub's calls, the repository
\* and the hand-over return; a lost matterjs-server is back some time; an answer
\* sent arrives or is lost.  Nothing is assumed of users, devices and failures,
\* nor that matterjs-server answers, or finishes what it was asked.
StayConnected ==
  \/ StayLost \/ StayLose \/ StayReconnect
  \/ SyncNodes \/ SyncRows \/ SyncFollow \/ SyncFollowed
  \/ SyncOffer \/ SyncConnect

PairingGoesOn(p) ==
  \/ CommissionLost(p) \/ CommissionAnswered(p)
  \/ PairSave(p) \/ PairFailed(p)
  \/ PairSaved(p) \/ PairReoffered(p) \/ PairFollow(p)

Fairness ==
  /\ WF_vars(StayConnected)
  /\ WF_vars(Deliver)
  /\ \A p \in Call : WF_vars(PairingGoesOn(p))

FairSpec == Spec /\ Fairness

-------------------------------------------------------------------------------
(* Properties *)

TypeOK ==
  /\ fabric \subseteq Node
  /\ status \in [Node -> Status]
  /\ adrift \subseteq Id
  /\ live \in Client \cup {NoClient}
  /\ client \in Client \cup {NoClient}
  /\ nodes \in [Client -> SUBSET Node]
  /\ object \in [Client -> [Node -> Status]]
  /\ subs \in [Client -> SUBSET Node]
  /\ avail \in [Node -> Status \cup {"unset"}]
  /\ discoveries \subseteq Id
  /\ rows \in [Id -> RowState]
  /\ hub \subseteq Id
  /\ spawned \in Seq(Status \X Id)
  /\ conn \in ConnPc
  /\ starting \in BOOLEAN
  /\ todo \subseteq Id
  /\ gone \subseteq Id
  /\ snap \subseteq Node
  /\ devs \subseteq Node
  /\ asking \in Client \cup {NoClient}
  /\ found \subseteq Node
  /\ call \in [Call -> [pc : CallPc, disc : Id, node : Node \cup {NoNode},
                        from : Client \cup {NoClient},
                        commissioned : BOOLEAN,
                        result : {"none", "device", "error"}]]
  /\ unoffered \subseteq Node
  /\ outdated \subseteq Node
  /\ hidden \subseteq Id
  /\ budget \in [Event -> Nat]

\* The connection is up and nothing is left to do
Settled ==
  /\ conn = "listen"
  /\ live = client
  /\ spawned = <<>>
  /\ \A p \in Call : call[p].pc = "idle"

\* A device the Hub has whose node the current client knows is followed: once a
\* sync is over, no row (saved before, during or after it, by this connection or
\* under an earlier one) misses its _subscription, except while the pairing that
\* saved it is still to make it (_sync_with_server, _add_device).
DevicesFollowed ==
  conn = "listen" /\ live = client =>
    \A n \in nodes[client] :
      rows[Dev(n)] = "saved" /\ ~Busy(n) => n \in subs[client]

\* No commissioned node is left that no device stands for and nobody can add:
\* whatever became of the pairing that brought it, it is offered as it is
\* (_offer_fabric_node in _sync_with_server and in pair_device).  What only the
\* next sync can offer is set apart (unoffered), as one commissioned behind the
\* back of the last sync.
NoOrphanNode ==
  Settled =>
    \A n \in nodes[client] :
      rows[Dev(n)] # "saved" /\ n \notin unoffered => Dev(n) \in discoveries

\* The devices the Hub has that are on the fabric, when all is settled
SettledDevices ==
  IF Settled THEN {n \in nodes[client] : rows[Dev(n)] = "saved"} ELSE {}

\* _node_availability, reset by an outage and rebuilt by a sync, is what
\* matterjs-server says of every device (_subscription,
\* _make_availability_callback, the reset in _stay_connected), but for one that
\* a pairing followed with a former client's node object.
AvailabilityIsCurrent ==
  \A n \in SettledDevices \ outdated : avail[n] = status[n]

\* Without the exception: what is tracked of a device is "the last known value",
\* so that its "real transition" is put out (_subscription).
AvailabilityIsTrue ==
  \A n \in SettledDevices : avail[n] = status[n]

\* A reachable device is shown as connected: no order of the syncs' outputs, the
\* callbacks' and the pairings' ends with a lose of it (_sync_with_server,
\* _make_availability_callback, _stay_connected, _add_device), but for the two
\* that outdated and hidden name.
ReachableIsShown ==
  \A n \in SettledDevices \ outdated :
    status[n] = "up" /\ Dev(n) \notin hidden => Dev(n) \in hub

\* Without the exceptions, which "`node.available` transitions emit the
\* framework's connect/lose callbacks" (readme.md) does not make.
ReachableIsAlwaysShown ==
  \A n \in SettledDevices : status[n] = "up" => Dev(n) \in hub

\* An unreachable device is not shown as connected: "`node.available`
\* transitions emit the framework's connect/lose callbacks" (readme.md).
UnreachableIsNotShown ==
  \A n \in SettledDevices : status[n] = "down" => Dev(n) \notin hub

\* The integration heals by itself: a lost connection does not keep it from
\* listening again, unless it is stopped or crashes (_stay_connected).
HealsItself ==
  live # client ~> (conn = "listen" /\ live = client)
                     \/ conn \in {"stopped", "crashed"}

\* A reachable device does not stay hidden from the Hub for good while Matter
\* runs, whatever outages, availability changes, syncs and pairings came before,
\* with the exceptions of ReachableIsShown.
ReachableGetsShown ==
  \A n \in Node :
    []<>(\/ conn \in {"stopped", "crashed"}
         \/ n \notin fabric \/ status[n] # "up" \/ rows[Dev(n)] # "saved"
         \/ n \in outdated \/ Dev(n) \in hidden \cup hub)

\* "a pairing landing after stop() keeps its device rather than failing: the
\* node is commissioned onto the fabric and its row saved already"
\* (_add_device): a call whose row is saved does not end with an error.
PairedDeviceKept ==
  [][\A p \in Call :
       call[p].pc \in {"saved", "reoffered", "connected"} =>
         call'[p].pc # "failing" /\ call'[p].result # "error"]_vars
===============================================================================
