# Verification of integration-matter

TLA+ models of `majordom_matter`, the MajorDom integration that bridges Matter
devices, with TLC runs and TLAPS proofs.  The modules are translated from the
code under `majordom_matter/`; what is outside of the repository (the Hub and its
repository, matterjs-server, the Matter client library, the Bluetooth router) is
modelled from how that code uses it.

Run a check with `tlc -config MCPairing.cfg MCMatterController`, a proof with
`tlapm MatterControllerProofs.tla`.

## The system

One asyncio event loop runs everything, so two tasks interleave only where one
awaits.  That is where the difficulty is: between two awaits nothing can happen,
and across one anything can.

| Part | State it keeps | Operations | Talks to |
|---|---|---|---|
| `controller.py`, connection | `_matter_client`, `_background_tasks`, the reconnect delay | `start`, `stop`, `_connect`, `_stay_connected` | matterjs-server by a WebSocket, the Hub (`output`) |
| `controller.py`, sync | what it took from the client and from the repository | `_sync_with_server`, `_offer_fabric_node`, `_hand_over_networks` | the repository's rows, the client's node cache, the Hub |
| `controller.py`, pairing | the calls in progress (the Hub's tasks, which `stop` does not cancel) | `pair_device`, `_commission*`, `_add_device`, `unpair` | matterjs-server, repository, Hub |
| `controller.py`, availability and events | `_node_availability`, the subscriptions of the client, spawned output tasks | `_subscription`, `_make_availability_callback`, `_make_callback`, `_spawn` | the client's events, the Hub |
| `controller.py`, discovery | `_majordom_descoveries` | `_matter_discovery_loop`, `_async_matter_did_discover`, `_matter_did_discover_ble` | matterjs-server, the Bluetooth router, the Hub |
| `controller.py`, commands | none of its own | `send_command`, `_state_toggle_command`, `_execute_cluster_command`, `_write_cluster_attribute`, `fetch`, `identify` | the client's node cache, matterjs-server, the repository |
| `ble_delegate.py` | `_peripherals`, `_last_handle`, `_tasks`, `_stop_scanning` | `run`, `_serve`, `_forward`, the commands, `_lost`, `_close`, `_release` | matterjs-server's `/ble` WebSocket, the Bluetooth router's leases |
| `client.py` | the library's node cache | one event handler | |
| `mapper.py` | none | node to parameters, values to and from Matter | |
| `matter_spec.py`, `matter_spec_ha.py` | tables | `classify_attribute` | |
| `config.py`, `model.py`, `exceptions.py`, `testing/`, `scripts/` | none | | |

What is hard, and the property that goes with it:

- *A device nobody follows.*  A sync takes the client's nodes, then reads the
  Hub's rows, then subscribes; a pairing saves its row, then waits for the Hub
  twice, then subscribes; the client may change in each await.  `DevicesFollowed`.
- *A node nobody can add.*  Commissioning is not undone by a lost answer, a failed
  save or a stop, and matterjs-server may finish it when nobody waits any more.
  `NoOrphanNode`.
- *Copies of the availability.*  `_node_availability`, the client's node and what
  the Hub shows change at different times, through spawned tasks and loops over
  copies, and two races leave one of them wrong.  `AvailabilityIsCurrent`,
  `ReachableIsShown`, `ReachableGetsShown`; violated: `AvailabilityIsTrue`,
  `ReachableIsAlwaysShown`, `UnreachableIsNotShown`.
- *Recovery.*  `HealsItself`, `Reconnects`.
- *One outage or several.*  Drops in a row are one outage with a growing delay and
  one report, which a `_connect` that fails late, a crash or a stop must not
  confuse.  `RarerInAnOutage`, `OutageIsReported`, `ReportIsOfAnOutage`,
  `ListenerIsFollowed`, `NoticeKept`.
- *Two networks, many hand-overs.*  `NetworksHandedOver`, `NetworksArrive`,
  `NodeListFirst`.
- *A value through four copies.*  Device, matterjs-server, the client's cache and
  the Hub's row, with a scale in between and messages and tasks on their way.
  `HubIsCurrent`, `SetIsShown`, `SentIsInLimits`, `ListensOn`.
- *A leased radio that is lost.*  Five ways end a Bluetooth connection, and may
  overlap; cancelling a task that did not begin runs none of its `finally`s.
  `LeaseOwned`, `RecordedIsLeased`, `SourceGivenBack`, `LoanKept`.
- *A stream with a hole.*  `NoSegmentSkipped`.
- *Tables that must agree.*  Three tables and two functions decide which
  parameter is tapped and what the tap sends.  `AcceptsTaps`, `TapsAct`,
  `NeverFromIdle`, `TapToggles`.

The hazards in `PROJECT.json` list these at their lines, with those no property
covers yet.

## Modules

| Module | Models |
|---|---|
| `MatterController` | connection, sync, pairing, unpairing, availability, discovery |
| `MatterControllerProofs` | its type invariant and `DevicesFollowed` proved |
| `NoOrphanProofs` | `NoOrphanNode` proved, from the lemmas of the former |
| `AvailabilityProofs` | `AvailabilityIsCurrent` and `ReachableIsShown` proved, from the lemmas of both |
| `BLEDelegate` | `MatterServerBLEDelegate` |
| `BluetoothLoan` | what the delegate promises the Hub: the abstract specification that `BLEDelegate` implements |
| `BLEDelegateProofs` | the safety of both proved |
| `MainParameter` | the one-tap main parameter: tables, choice, tap, command, and the three copies of its state |
| `Outage` | the connection in time: `_connect` await by await, the delays and the report of `_stay_connected`, `stop` |
| `ServerNotice` | what the user is promised to be told of it: the abstract specification that `Outage` implements |
| `Networks` | `_hand_over_networks` of a sync and of `platform_facts_did_change` |
| `DeviceValues` | an attribute's way from the device to the Hub and back: client cache, snapshot, subscriptions, output tasks, `fetch`, a set value, scale and bounds |
| `MainParameterProofs`, `OutageProofs`, `NetworksProofs`, `DeviceValuesProofs` | their safety proved |
| `MCMatterController`, `MCBLEDelegate`, `MCMainParameter`, `MCOutage`, `MCNetworks`, `MCDeviceValues` | the instances for TLC |

Operators named "Mutant" in a comment are plausible faults of the definition
below them; no specification uses them, and each is one that a property finds.

### MatterController

An action is the code between two awaits.  A physical device is identified with
the node it is, or becomes, on the fabric.  A call of the Hub or the repository
takes effect where it is made, and its await is the gap before the next action.

| Model | Code |
|---|---|
| `client`, `live`, `nodes`, `object` | `_matter_client`; the `MatterClient` with a WebSocket; the node cache of each client, which survives its connection |
| `subs` | the `_subscription`s, per client: a new client has none |
| `avail`, `discoveries` | `_node_availability`, `_majordom_descoveries` |
| `conn`, `todo`, `gone`, `snap`, `devs`, `starting` | the program counter and the locals of `_stay_connected` or `start` with its `_sync_with_server` |
| `call[p]` | the program counter and the locals of a `pair_device` |
| `spawned` | output tasks of callbacks that have not begun, in the order asyncio starts them |
| `rows`, `hub` | external: the repository's rows, and the devices the Hub shows as connected |
| `fabric`, `status` | external: matterjs-server's nodes and what it knows of each |
| `adrift` | external: the commissionings whose answer was lost, which matterjs-server may still finish, at any time |
| `unoffered` | a history variable: nodes without a row that no one offers until the next sync (not interviewed when the last one came to them, their row deleted since, or commissioned behind its back) |
| `outdated` | a history variable: devices that were followed with a former client's node object, with nothing put out of them since |
| `hidden` | a history variable: devices a sync lost although its client has their node, with nothing put out of them since |
| `budget` | a bound: how often each outside event still happens |

`Start`, `StayReconnect`, `SyncNodes` ... `SyncConnect`, `StayLost`, `StayLose`
follow the awaits of `start`, `_stay_connected` and `_sync_with_server`; `Pair`,
`Commissioned`, `CommissionAnswered`, `PairSave`, `PairSaved`, `PairReoffered`,
`PairFollow`, `PairFailed` those of `pair_device` and `_add_device`.  `_connect`
is one step (`Outage` has its awaits), and of the hand-over of the networks only
that it ends (`Networks` has the rest).  Each of the
loops over a copy (`list(self._node_availability.items())`, the sync's connects)
is a step for each element, from the copy.  A node that is commissioned again was
removed long before: `Commissioned` waits for the output tasks of its former device,
which asyncio starts the next time its loop turns.

A connection lost while matterjs-server commissions leaves the discovery `adrift`.
`CommissionedLate`, external, may end it at any time after: before the reconnect,
during its sync, or when the sync is over.  Nobody subscribes to `NODE_ADDED`, so in
the last case the node waits for the next sync (see what was observed, below);
`unoffered` tells these nodes from those the code has to offer.

The history variables `outdated` and `hidden` name the device that one of the two
races of the findings `stale` and `hidden` was about, from the step that goes wrong
to the next output of that device.  No action is taken out: pairings overlap syncs,
outages, stops and restarts in every order, and the properties with an exception are
checked and proved of all of them.  The properties without it are violated, each by
a run of its own.

A `stop()` may come in any await of a `start()`, which is taken to end with it, as the
Hub cancels it or the closed client makes it raise.  A `start()` that goes on behind a
`stop()` is not modelled, here or in `Outage`.

### BLEDelegate and BluetoothLoan

`run` is the program counter of `run()`; `task[k]` that of the connect command of
connection `k`; `spawned` holds the tasks created but not begun, which a cancel
drops without running any of their code; `closing` the `_close`s that wait for a
disconnect.  `lease` and `link` are the router's lease and the radio's
connection.  `Release` is one step although the code has awaits after it: the
cancels, the end of the scan and the emptying of `_peripherals` come before the
first.  `stranded` and `broken` are history variables.

`BluetoothLoan` knows three things: whether there is a WebSocket, which
connections hold a source, and which of those are lost to their closers.  A source
is taken only while there is a WebSocket, and given back eventually when there is
none.  `LoanKept` is the refinement under `Loan`'s substitution.

The Bluetooth router is not in this repository.  A lease that nobody refers to
may or may not be closed by a finalizer, so `Finalized` may happen and has no
fairness, and such a lease is set apart by `stranded` in the properties.

### MainParameter

The tables of `matter_spec.py` are written as data, an id as a name;
`GetMainParameter` is `_get_main_parameter` over the endpoints and clusters of a
node; `Tap` is `send_command` with the main parameter, up to the call of the
client; `state`, `cached` and `stored` are the state on the device, in the
client's node and at the Hub, brought together by `Reported`, `Delivered` and
`Reconnected`, which come late.  Which value a tap sends (`NextValue`) and what a
device does with a command (`Effect`) are external.

### Outage and ServerNotice

The connection of `MatterController` again, with a clock and without devices.  A
time the code keeps (`outage_since`, `connected_at`, `failed_at - outage_since`) is
an age here, in units of `_RECONNECT_DELAY`, counted up to where no comparison
tells it from a greater one; so the durations are those of the code and the state
space is finite all the same.

| Model | Code |
|---|---|
| `pc` | `opening`, `readying`, `ready`: the awaits of `_connect`; `syncing`; `listen`: `await listener`; `losing`; `sleep`; `crashed`; `failed`: a `start()` that raised; `stopping` |
| `running` | the listener task; there is never more than one |
| `since`, `held`, `failed`, `delay`, `reported` | `outage_since`, the age of `connected_at`, `failed_at - outage_since`, `delay`, `is_reported` |
| `errors` | external: what the Hub was told and not told resolved |
| `heard` | a history variable: turns with each error told and each one resolved, so that telling one twice is no stutter |
| `outage`, `noticed` | history variables: an outage as the comments define it, independent of `outage_since` |

`ServerNotice` knows whether Matter is off, starting, following its devices or away
from them, whether the outage has lasted, and what the user was told.  There an
outage is told only once it lasted, and not again before a sync resolved it; it is
resolved by following again and by nothing else, and only if it was told; only what
breaks away from the server adds `crashed`; and nothing is told or resolved while
Matter is off.  After a reconnect that did not hold, the same outage is told again:
its sync resolved it, and `test_controller_stub.py:710-721` asserts so.  What a stop
or a crash leaves unresolved stays so, in the code as in the model.
`NoticeKept` is the refinement under `Notice`'s
substitution; `lasting` is the age of `outage`, the history variable, and not of
`outage_since`.

### Networks

A hand-over is a task: the sync's, or one of those hooks spawned.  It reads the
Wi-Fi when it begins and the Thread network once the Wi-Fi was answered, so two
hand-overs may hold different networks.  `wire` is the calls matterjs-server has
not answered, in their order.  A network is a version number; matterjs-server may
refuse any of them, and may lose what it holds when its container is recreated.

### DeviceValues

One attribute of one device.  `value` is on the device, `cached` in the node of the
current client, `row` at the Hub; `wire` is matterjs-server's messages on their
way, `spawned` the output tasks.  `conn` is the part of the sync that reads the
rows and subscribes, `pair` a pairing from the commissioning to the subscription,
with the node it `object` holds, be it of a client replaced since.  Values on the
wire are integers, and the Hub's are integers in the finest decimals it may send,
`Scale` of which make one unit of the wire; `Rounded` is Python's `round`, half to
even.  An attribute with a scale of 1 or none is the instance `Scale = 1`; the
proofs are for any.
The floats' noise, which the code rounds off (`mapper.py:198-211`),
and the values too large for a float are not in the model.

External, and assumed: matterjs-server's messages keep their order; it announces a
commissioned node before it answers the commissioning; a client calls the
callbacks of an update after it cached it; integers are encoded in the narrowest
width; a device's value is within the limits `METADATA_SOURCES` names, or of its type
where it names none.  A write is another matter: a device may refuse any, one
within its limits too, as a thermostat enforces user limits that the table does not
name (`matter_spec.py:268`) and a fan's `PercentSetting`, a byte, ends at 100
(`matter_spec.py:320`).  `SentIsInLimits` is therefore about what is sent and the
limits the device names, not about what it accepts.

`stale` is a history variable: the value changed where the code tells nobody (see
the findings below), so that the Hub may be behind until it changes again or is
fetched.

## Runs

| Run | Expected | States | What it asks |
|---|---|---|---|
| `pairing` | holds | 2,497,074 | `TypeOK`, `DevicesFollowed`, `NoOrphanNode` with a pairing, also one that ends late, a removal, a poll or advert, a failing repository call, a lost connection, a stop and restart, in every order |
| `availability` | holds | 288,290 | `AvailabilityIsCurrent`, `ReachableIsShown`, `HealsItself`, `ReachableGetsShown` with two reachability changes, a loss, a pairing, a failure, in every order |
| `ble` | holds | 214,624 | `TypeOK`, `LeaseOwned`, `RecordedIsLeased`, `NoSegmentSkipped`, `SourceGivenBack`, `LoanKept`, without a bound on the number of events |
| `taps` | holds | 858,591 | `TypeOK`, `AcceptsTaps`, `NeverFromIdle`, `TapsAct`, `TapToggles` over every device with one or two of five clusters |
| `outage` | holds | 222,584 | `TypeOK`, `ReportIsOfAnOutage`, `OutageIsReported`, `ListenerIsFollowed`, `RarerInAnOutage`, `Reconnects`, `NoticeKept` with the code's durations and no bound on the number of events |
| `networks` | holds | 383,126 | `TypeOK`, `NetworksHandedOver`, `NodeListFirst`, `NetworksArrive` with two networks of each kind, two hooks, two losses |
| `values` | holds | 2,725,345 | `TypeOK`, `HubIsCurrent`, `SetIsShown`, `SentIsInLimits`, `ListensOn` with two changes, a set, a loss |
| `stale`, `hidden`, `unreachable`, `paired_kept` | violated | | findings in the controller |
| `ble_left` | violated | | a finding in the delegate |

### Bounds, and why they are enough

- Two nodes: one that a pairing is about and one that a sync is busy with, which
  is what it takes for a loop over devices to be overtaken.  Three clients: the
  current one, the one a pairing began with, and a fresh one; one that nobody holds
  any more is used again, so their number is no limit on the reconnects.
- One pairing at a time (`Call` has one element): the Hub pairs one device per
  discovery, and two calls share only what a call shares with a sync.  The proofs
  are for any number.
- `Budget` bounds the outside events.  One loss, one stop, one pairing and one
  failure already give every overlap of a pairing with the sync of a start, the
  sync of a recovery and the losses of an outage.  Two reachability changes are
  what it takes to be down and up again behind a copy.  `pairing` has the stop and
  no reachability change, `availability` the changes and no stop: what a stop adds
  there, a pairing that goes on through it and the next `start()`, is like one through
  a reconnect, and the theorems have it.
- `MaxSpawned = 2`: output tasks run as soon as the loop turns, so a queue of more
  than the nodes' last changes is not interesting.
- Two connections, two sources, three handles: handles wrap, and a connection
  competes with another for a source.  The code wraps at 0xFFFF; `Connect` is
  guarded by "the next handle is free", which stands for "no connection outlives
  65534 later ones".
- One endpoint, two clusters, one event on its way: the choice of a main parameter
  compares two candidates, and one late event makes the Hub and the client differ.
- `outage` needs no bound but the ages': it has the 1, 30, 15 and 300 seconds of
  the code, and events happen as often as they like.
- Two networks of a kind, two hooks and two losses: an old network that overtakes a
  new one takes two hand-overs that overlap, next to the sync's.
- `Scale = 4` has halves to round up and to round down, of either sign.  The types are
  signed integers of two bits, -2..1, and of one, -1..0: each has a value that takes
  the wider encoding on either side, and there are values between two limits.  Two changes and one loss give each of a pairing, a sync and a fetch a
  value before, between and after.

No run has a state or action constraint, or a symmetry set.

CHECK_DEADLOCK is off where the outside events run out (`pairing`, `availability`,
`values`), where a cancelled delegate is at its end, and where a device without a
main parameter has nothing to tap.

### Fairness

`FairSpec` of the controller assumes what asyncio and the peers owe: a task that
is ready runs, the calls to the Hub and the repository and the hand-over return, a
lost matterjs-server is back some time, an answer on its way arrives or is lost
with its connection.  It assumes nothing of users, devices, failures, or that
matterjs-server answers a commissioning.  `FairSpec` of the delegate assumes that
a disconnect returns, a stack that is unwound ends, a task that was created begins
(unless it is cancelled) and a cancelled `run` closes its WebSocket.  `FairSpec` of
`Outage` assumes that time passes, the loop runs what is ready, and a
matterjs-server that stays up answers; that of `Networks` that the tasks run and a
matterjs-server that is there answers.  All of it is weak fairness.

"A matterjs-server that stays up answers" is an assumption the code does not
enforce: `_connect` waits without a timeout, so one that accepts the connection
and neither sends its node list nor ends it is never reported.

## Proofs

All are for any values of the constants that satisfy the named assumptions of
their modules: that the "none" values are none of the others, that bounds are
naturals, durations and scales are positive, and that clusters are of the tables.

`MatterControllerProofs`:

- `TypeCorrect`: `Spec => []TypeOK`.  `TypeOK` is not inductive: that a
  subscription finds a node object and a pairing its node takes `Shape`, which ties
  the program counters to the client and to the calls' fields.
- `EveryDeviceFollowed`: `Spec => []DevicesFollowed`.  `DevicesFollowed` speaks of
  a connection that listens; for the inductive step one must say who is to
  subscribe while it does not.  `FollowInv` says: a live client is the current one
  and its cache is the fabric (`Current`), and whoever misses a subscription has
  somebody about to make it (`Missed(n) => Pending(n)`): the pairing that saved it,
  a sync that has not read the rows yet and has its node in its snapshot, or one
  that has it in its list.  The case that needs the order of the code is the row
  saved after the sync read the rows: the pairing is the one to subscribe, to the
  client that is current by then.

`NoOrphanProofs`:

- `NoNodeOrphaned`: `Spec => []NoOrphanNode`.  The property speaks of a state in
  which nothing is under way but perhaps a commissioning nobody waits for;
  `OrphanInv` says of every other state who is to see to a node without a device and an offer (`Orphan(n) =>
  OfferPending(n)`): the next sync; the one under way, while its copies have the
  node still to offer; the pairing that commissioned it, if the answer reaches the
  client that is live or if it fails, since then it offers what it commissioned.
  A node commissioned behind the back of a sync is no `Orphan`: it is `unoffered`
  until the next sync takes the nodes.
  `CallFacts` ties what a call holds to the rows: a call that has saved still has
  its row, which is why a node whose pairing is past that point is no orphan.

`AvailabilityProofs`, without a hypothesis on the steps: what the two races of the
code spoil is in the history variables `outdated` and `hidden`, and the theorems say
that nothing else is spoilt, and for how long.

- `AvailabilityCurrent`: `Spec => []AvailabilityIsCurrent`.
  `StaleInv` adds to the invariants above that a live client's node objects are
  matterjs-server's (`Objects`), and that a subscribed device whose kept
  availability is not its node's is one a pairing is about to follow, or is
  `outdated` (`Stale(n) => Following(n) \/ n \in outdated`).  The former was removed
  and commissioned again, and its subscription and its entry in `_node_availability`
  are those of its former life.
- `ReachableShown`: `Spec => []ReachableIsShown`.  `ShownInv`
  adds the order of the output tasks (`OutputInv`: the last one of a device tells
  what its node says, so that an older "unavailable" is never the last word), and
  who is to show a reachable device that is not shown (`Wanted(n) =>
  ShowPending(n)`): the last of its output tasks, the pairing that saved it, the
  sync that has still to subscribe to it, or the one that has and connects what is
  available at its end; or else it is `outdated` or `hidden`.

`MainParameterProofs`, for any clusters of the tables, any endpoints, any reports of
a device:

- `TypeCorrect`, `IdleLeftAlone`, `TapsAlwaysAct`: the invariants `TypeOK`,
  `NeverFromIdle` and `TapsAct` of run `taps`; `TapsToggle`: its action property.
- `TapsAccepted`: `AcceptsTaps`, for devices without a `ClosureControl`, which is sent
  commands it may not list (see what was observed, below).

The tables are taken row by row once: `TogglePairs` (each state toggle has two
states, and for each a command the cluster has, which leads there) and
`MainSpecKinds` (the cycle of each main parameter is the one that has commands, but
for a closure's and a fan's).  `FirstCandidate` says that the order in which
`_get_main_parameter` tries endpoints, clusters and fallbacks has a first; it rests
on `LeastNat`, from the library's well-founded ordering of finite sets.  `MainInv`
then has two parts: `Mapped` (the main parameter is one the device supports, and
the three copies of its state are states of its cluster) and `Sent` (a command on
its way is the one for a value of the cycle, other than the stored one).

`BLEDelegateProofs`, from one inductive invariant `Inv`:

- `TypeCorrect`, `EveryLeaseOwned`, `EveryRecordedLeased`, `SegmentsInOrder`: the
  four invariants of run `ble`.
- `LoanSafety`: `Spec => Loan!Spec`, the safety part of the refinement, a step of
  the delegate for a step of `BluetoothLoan` or a stutter.  That a source is taken
  only with a WebSocket is `Releasing`.

Besides the four invariants, `Inv` has `Handles` (a connection is recorded under
its own handle only, and no two in use share one: what makes "forget the handle"
forget the connection), `Connecting` (what a connect command works on is known to
nobody else: so its stack may give the lease back), `Leasing`, `Left` (nobody
closes a stranded lease twice), `Releasing` (without a WebSocket there is no
connect under way and no connection recorded) and `Forwarding` (the segment under
way is of a connection that was recorded, and what is broken is not recorded
again).

`OutageProofs`, from `Inv`, whose parts are `TypeOK`, `ListenerIsFollowed` and

- `Times`: `since` is the age of the outage and `failed` the one at which it was
  last noticed: what ties the code's arithmetic to what an outage is;
- `Reports`: `is_reported` is what the Hub was told, until a sync or `stop()`
  resolved it;
- `Delays`: no time has passed in an outage while the first delay is waited for, so
  only a new outage may shrink it.

It proves the four invariants of run `outage` (`TypeCorrect`, `ReportedAreOutages`,
`OutagesAreReported`, `ListenersAreFollowed`) and the action property
(`AttemptsGetRarer`), for any durations.  `NoticesAreKept` is `Spec => Notice!Spec`,
a step of `Outage` for a step of `ServerNotice` or a stutter: a sync resolves exactly
what was told, by `Reports`, and a report is of an outage that lasted, by `Times`.
By `heard` a second report, or a second resolution, would be a step that
`ServerNotice` has none for.

`NetworksProofs`, from `Inv`: `TypeOK`, `Current` (what a client is current for),
`Owned` (each call on the wire is of a hand-over of its own, which waits for it)
and `NothingForgotten`: on a live connection every network of the hub either is
held with no call on its way to replace it, or is what the last call of its kind
asks for, or will be read by a hand-over that begins or, for the Thread network, by
one whose Wi-Fi is about to be taken.  From it `TypeCorrect`,
`NetworksAreHandedOver` and `NodeListsComeFirst`.

`DeviceValuesProofs`, from `Inv`, whose parts are

- `Life`: which of the node, the cache, the row and the pairing go together;
- `Messages`: the messages end in the device's value, and where the client has not
  cached the node, its announcement is among them, once: what makes it right to
  drop an update of such a node;
- `Followed`: who has the row subscribed to, or is about to;
- `Told`: the last output task, or else the row, has the cached value, or `stale`;
- `Offered`: the Hub's bounds are the limits the device names, or the range its
  value had, scaled; and what it sets is within them.

`HubShowsTheValue` follows from `Told` and `Messages`, `SetsAreShown` and
`SentAreInLimits` from `Offered` and the lemmas on `Rounded` (a value is rounded to
at most half a unit away, and never out of bounds the wire can have), which need
the division algorithm.  `ShownIsTaken` states the same of the conversions alone:
`ToWire(AttributeValue(w)) = w`.  `ListeningGoesOn` is `ListensOn`.

Only model-checked: liveness, that is `HealsItself`, `ReachableGetsShown`,
`SourceGivenBack`, `Reconnects`, `NetworksArrive` and the fairness in `LoanKept`
(TLAPS has no ENABLED, and the first needs a measure by induction); and the
properties the code violates.  Every safety invariant and every action property
that a passing run checks is stated by a theorem, `AcceptsTaps` for devices without
closures, as the run has it.

## Findings

| Run | Where | What |
|---|---|---|
| `stale` | `controller.py:498` | A pairing that goes on through a reconnect follows its device with the node object of the former client, and `_node_availability` gets what that one knew. |
| `hidden` | `controller.py:167` | A device paired between the two reads of a sync has a row but no node in the sync's copy, and is lost by the sync after the pairing connected it. |
| `unreachable` | `controller.py:181` | A device that becomes unreachable while a sync connects the devices of its copy one by one is lost first and then connected from the copy, and stays shown. |
| `paired_kept` | `controller.py:498` | `stop()` after the one check of `_matter_client` in `_add_device` fails a pairing whose device is saved. |
| `ble_left` | `ble_delegate.py:263` | `_release` cancels a `_close` that did not begin: the peripheral is never disconnected. |

`PROJECT.json` quotes the comment, document or test each of them disagrees with.

Observed while modelling, without a run:

- `controller.py:178`: a sync that runs while a pairing is about to save its node
  offers that node; the pairing drops only the discovery it was called with (490),
  so the offer outlives it, against the docstring at 186.
- `controller.py:971`: the main parameter of a `ClosureControl` has no entry in
  `STATE_TOGGLE_COMMANDS`, so a closure needs no command to get a main parameter
  that sends `Stop` and `MoveTo`, against the comment at 970.
- `controller.py:62-71, 414-431`: a node that matterjs-server commissions after the
  reconnect's sync took the nodes, the answer having been lost before, is offered by
  nobody until the next sync: the comments at 414-416 and 430-431 count on one, and
  nothing subscribes to `NODE_ADDED`.
- `matter_spec.py:320`: a fan's `PercentSetting` names no limits, so the Hub is
  offered 0..255 of a value that ends at 100.
- `controller.py:959`: the loop over the endpoints is outside of the one over the
  priorities, so a lower endpoint's cluster wins over one that comes first in
  `MAIN_PARAMETER_BY_CLUSTER`, although `matter_spec.py:442` says that the first
  cluster present on the device wins.
- `ble_delegate.py:129`: after a failed segment the source is given back before the
  disconnect of its connection is asked for.
- `controller.py:261-264`: a Wi-Fi that matterjs-server refuses ends the hand-over,
  so the Thread network is not handed over, and no Thread device can be
  commissioned.  `NetworksHandedOver` and `NetworksArrive` are therefore stated for
  networks that are taken.
- `controller.py:290`: no timeout, as said under Fairness.
- `controller.py:172`: the sync after an outage subscribes but sends no values, and
  `_add_device` (`controller.py:498`) subscribes after two awaits to a node mapped
  before them: in both cases a change in between is not shown until the next one or
  a `fetch`.  Both may also subscribe the same device on one client, which tells
  the Hub each change twice.
- `mapper.py:506`: a parameter without limit attributes gets the range of the width
  its value at the pairing happened to be encoded in, for good.
- `matter_spec.py:268`: a thermostat's bounds are its absolute limits, not the user
  limits it enforces.
- `matter_spec.py:126,242`: humidity is a percentage in steps of 0.01, but has no
  entry in `ATTRIBUTE_SCALE`, so its hundredths are shown as per cents; pressure
  (`:183,243`) has a step of 10 Pa where a unit of the wire is 100 Pa.
- `controller.py:619-625`: a refused parameter is logged as one that will be
  removed, but the pruned copy of the device is not the one that is saved.

## What is not modelled

- `needed_peripheral_did_change` and a router lent later; a `stop()` on another
  event loop than `start()`'s, which leaves its tasks to that loop; a `start()` that
  goes on behind a `stop()`, which is taken to end with it.
- The arguments of commands and their fields' scales; the list of refused
  parameters (`controller.py` 599-626), whose races are between two saves of the
  repository, which is not here; `identify`, which keeps no state.
- Data types, names, steps, units, struct and byte values (`mapper.py`), and the
  harvest of `matter_spec_ha.py`: tables and formats.
- Adverts, notifications, and what read, discover and subscribe answer in the
  delegate: they keep no state but a subscription's.
- `config.py`, `model.py`, `exceptions.py`: declarations.  `testing/`, `scripts/`:
  not part of the running integration.

## Plan

Done: `MatterController`, then `BLEDelegate` with `BluetoothLoan`, then
`MainParameter`, the most interleaved parts first; then `Outage`, `Networks` and
`DeviceValues`, which take apart what the first module has as one step, with their
proofs.

Next, in this order:

1. When the violated properties hold: `UnreachableIsNotShown` where no reachability
   changes while a sync connects, `PairedDeviceKept` where no `stop()` comes between
   a save and its pairing's end, each with a history variable for the exception, as
   `outdated` and `hidden` are, and from the invariants there are.  That an offer
   never outlives its pairing, in the same way, once it has a property of its own.
2. An abstract specification of the whole integration, "a device is shown iff it is
   reachable, eventually", and its refinement by `MatterController`.
