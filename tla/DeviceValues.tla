----------------------------- MODULE DeviceValues -----------------------------
(***************************************************************************)
(* How an attribute of a device gets from its node to the Hub and back:    *)
(* the cache of MatterClient, the snapshot a pairing maps and saves, the   *)
(* subscriptions of a sync and of a pairing, the output tasks of           *)
(* _make_callback, fetch, and a value the Hub sets.  Wire values are       *)
(* integers; the Hub's are in its unit, and counted here in the finest     *)
(* decimals it may send, several of which make one unit of the wire.       *)
(*                                                                         *)
(* One attribute of one node: callbacks of different ones share nothing    *)
(* but the order they run in.  matterjs-server's messages keep theirs.     *)
(***************************************************************************)
EXTENDS Integers, Sequences

CONSTANTS
  Scale,      \* ATTRIBUTE_SCALE: the finest decimals in one unit of the wire
  TypeMin,    \* the range of the attribute's type
  TypeMax,
  NarrowMin,  \* that of the next smaller width
  NarrowMax,
  Null,       \* no value: NullValue on the wire, None on the Hub
  NoNode,     \* the client has not cached the node
  NoRow,      \* the Hub has no row of the device
  Changes,    \* how often the device may change its value (a bound)
  Sets,       \* how often the Hub may set it (a bound)
  Losses,     \* how often the connection may be lost (a bound)
  MaxSpawned  \* output tasks that may wait to run (a bound)

ASSUME ScaleAssumption == Scale \in Nat \ {0}
ASSUME ValuesAssumption ==
  /\ TypeMin \in Int /\ TypeMax \in Int
  /\ NarrowMin \in TypeMin..TypeMax /\ NarrowMax \in NarrowMin..TypeMax
  /\ Null \notin Int
  /\ NoNode \notin Int \cup {Null}
  /\ NoRow \notin Int \cup {Null}
  /\ Changes \in Nat /\ Sets \in Nat /\ Losses \in Nat /\ MaxSpawned \in Nat

-------------------------------------------------------------------------------
\* MatterMapper: between the wire and the Hub

\* Python's round(v / Scale): half to the even neighbour
Rounded(v) ==
  LET below == v \div Scale
      rest == v % Scale
  IN IF 2 * rest < Scale \/ (2 * rest = Scale /\ below % 2 = 0)
       THEN below ELSE below + 1

\* apply_attribute_scale and normalize_value
AttributeValue(w) == IF w = Null THEN Null ELSE w * Scale

\* Mutant: the value is cut off
ToWireCut(v) == IF v = Null THEN Null ELSE v \div Scale

\* parse_data_for_attribute
ToWire(v) == IF v = Null THEN Null ELSE Rounded(v)

\* The integers within the limits given, or, without one, of the type
Within(limit) ==
  (IF limit.min = Null THEN TypeMin ELSE limit.min)
    ..(IF limit.max = Null THEN TypeMax ELSE limit.max)

Wire == TypeMin..TypeMax
Value == Wire \cup {Null}
Shown == {AttributeValue(w) : w \in Value}
Settable == (TypeMin * Scale)..(TypeMax * Scale)
Message == [type : {"attribute", "node", "gone"}, value : Value]
Limits == [min : Value, max : Value]

VARIABLES
  value,    \* the attribute, as matterjs-server knows it
  limits,   \* the limit attributes of the device
  fabric,   \* "no", "joined", "announced" or "removed": the node
  live,     \* the connection is up
  cached,   \* the value in the node of the current client
  wire,     \* matterjs-server's messages on their way to it
  subs,     \* the callbacks registered for the attribute with it
  spawned,  \* the output tasks of the callbacks, in order
  conn,     \* the sync: "rows", "follow", and "listen" when it is over
  follow,   \* it found the device and its node
  pair,     \* the pairing
  object,   \* the value in the node it holds, once the client was replaced, or in
            \* what it made of the node
  row,      \* the value in the Hub's row
  bounds,   \* min_value and max_value in it
  setting,  \* the value a send_command waits to be answered for
  wanted,   \* the last one the device took, until it changes otherwise (history)
  stale,    \* the client learned of a value when nobody could be told (history)
  budget    \* what is left of Changes, Sets and Losses

server == <<value, limits, fabric>>
client == <<live, cached, wire, subs>>
sync == <<conn, follow>>
pairing == <<pair, object>>
hub == <<row, bounds>>
command == <<setting, wanted>>
vars == <<value, limits, fabric, live, cached, wire, subs, spawned, conn, follow,
          pair, object, row, bounds, setting, wanted, stale, budget>>

\* get_min_max_value: the range of the width the value at hand is encoded in
Narrow == NarrowMin..NarrowMax
WidthMin(v) == CASE v = Null -> Null [] v \in Narrow -> NarrowMin [] OTHER -> TypeMin
WidthMax(v) == CASE v = Null -> Null [] v \in Narrow -> NarrowMax [] OTHER -> TypeMax

\* resolve_runtime_bounds and the scale: the limit the device reports wins
MinValue(v) == AttributeValue(IF limits.min = Null THEN WidthMin(v) ELSE limits.min)
MaxValue(v) == AttributeValue(IF limits.max = Null THEN WidthMax(v) ELSE limits.max)

\* The values a device of these limits may have
Own == Within(limits) \cup {Null}

Spend(kind) ==
  /\ budget[kind] > 0
  /\ budget' = [budget EXCEPT ![kind] = @ - 1]

NoBounds == <<Null, Null>>

Init ==
  /\ limits \in {l \in Limits : Within(l) # {}}
  /\ value \in Own
  /\ fabric \in {"no", "announced"}
  /\ live = TRUE
  /\ cached = IF fabric = "announced" THEN value ELSE NoNode
  /\ wire = <<>>
  /\ subs = 0
  /\ spawned = <<>>
  /\ conn = "listen"
  /\ follow = FALSE
  /\ pair = "idle"
  /\ object = NoNode
  /\ row = NoRow
  /\ bounds = NoBounds
  /\ setting = NoRow
  /\ wanted = NoRow
  /\ stale = FALSE
  /\ budget = [change |-> Changes, set |-> Sets, loss |-> Losses]

-------------------------------------------------------------------------------
\* matterjs-server and the device

\* It reports the attribute of a node that is on its way to be announced, too
Report(v) ==
  wire' = IF live /\ fabric \in {"joined", "announced"}
            THEN Append(wire, [type |-> "attribute", value |-> v])
            ELSE wire

Change ==
  /\ Spend("change")
  /\ \E v \in Own \ {value} :
       /\ value' = v
       /\ Report(v)
  /\ wanted' = NoRow
  /\ UNCHANGED <<limits, fabric, live, cached, subs, spawned, sync, pairing, hub,
                 setting, stale>>

\* A commissioning brings the node onto the fabric
Join ==
  /\ fabric = "no"
  /\ pair = "commissioning"
  /\ fabric' = "joined"
  /\ UNCHANGED <<value, limits, client, spawned, sync, pairing, hub, command,
                 stale, budget>>

\* The announcement carries the attributes
Announce ==
  /\ fabric = "joined"
  /\ fabric' = "announced"
  /\ wire' = IF live THEN Append(wire, [type |-> "node", value |-> value]) ELSE wire
  /\ UNCHANGED <<value, limits, live, cached, subs, spawned, sync, pairing, hub,
                 command, stale, budget>>

-------------------------------------------------------------------------------
\* MatterClient

\* A device is not followed yet by who is about to: the callbacks of a new
\* client, or of a pairing that took its snapshot
Unfollowed == conn # "listen" \/ pair \in {"saving", "connecting"}

\* The callbacks of the attribute are called: each spawns its output task
Signal(v) ==
  /\ Len(spawned) + subs <= MaxSpawned
  /\ spawned' = spawned \o [i \in 1..subs |-> AttributeValue(v)]

\* Mutant: as upstream does it: a node it has not cached ends the listening
HandleAttributeUpstream(v) ==
  IF cached = NoNode
    THEN /\ live' = FALSE
         /\ UNCHANGED <<cached, spawned, stale>>
    ELSE /\ cached' = v
         /\ Signal(v)
         /\ stale' = Unfollowed
         /\ UNCHANGED live

\* An attribute update of a node it has not cached is dropped
HandleAttribute(v) ==
  IF cached = NoNode
    THEN UNCHANGED <<live, cached, spawned, stale>>
    ELSE /\ cached' = v
         /\ Signal(v)
         /\ stale' = Unfollowed
         /\ UNCHANGED live

Handle ==
  /\ live /\ wire # <<>>
  /\ wire' = Tail(wire)
  /\ \/ Head(wire).type = "attribute" /\ HandleAttribute(Head(wire).value)
     \/ /\ Head(wire).type = "node"
        /\ cached' = Head(wire).value
        /\ UNCHANGED <<live, spawned, stale>>
     \/ /\ Head(wire).type = "gone"
        /\ cached' = NoNode
        /\ UNCHANGED <<live, spawned, stale>>
  /\ UNCHANGED <<server, subs, sync, pairing, hub, command, budget>>

\* The oldest output task runs; the Hub knows its own devices only
Deliver ==
  /\ spawned # <<>>
  /\ row' = IF row = NoRow THEN NoRow ELSE Head(spawned)
  /\ spawned' = Tail(spawned)
  /\ UNCHANGED <<server, client, sync, pairing, bounds, command, stale, budget>>

Lose ==
  /\ live
  /\ Spend("loss")
  /\ live' = FALSE
  /\ wire' = <<>>
  /\ setting' = NoRow
  /\ pair' = IF pair = "commissioning" THEN "idle" ELSE pair
  /\ UNCHANGED <<server, cached, subs, spawned, sync, object, hub, wanted, stale>>

\* A fresh client, with the nodes on the fabric
Reconnect ==
  /\ ~live
  /\ conn = "listen"
  /\ live' = TRUE
  /\ fabric' = IF fabric = "joined" THEN "announced" ELSE fabric
  /\ cached' = IF fabric' = "announced" THEN value ELSE NoNode
  /\ subs' = 0
  /\ object' = IF pair # "idle" /\ object = NoNode THEN cached ELSE object
  /\ stale' = (stale \/ cached' # cached)
  /\ conn' = "rows"
  /\ UNCHANGED <<value, limits, wire, spawned, follow, pair, hub, command, budget>>

-------------------------------------------------------------------------------
\* _sync_with_server

SyncRows ==
  /\ conn = "rows"
  /\ follow' = (row # NoRow /\ cached # NoNode)
  /\ conn' = "follow"
  /\ UNCHANGED <<server, client, spawned, pairing, hub, command, stale, budget>>

\* Mutant: what a pairing subscribed to is not subscribed to again
SyncFollowNew ==
  /\ conn = "follow"
  /\ conn' = "listen"
  /\ UNCHANGED <<server, client, spawned, follow, pairing, hub, command, stale,
                 budget>>

\* _subscription of the device, and the rest of the sync
SyncFollow ==
  /\ conn = "follow"
  /\ subs' = IF follow THEN subs + 1 ELSE subs
  /\ conn' = "listen"
  /\ UNCHANGED <<server, live, cached, wire, spawned, follow, pairing, hub,
                 command, stale, budget>>

-------------------------------------------------------------------------------
\* pair_device and unpair

\* A node the client has is taken as it is, any other is commissioned.  (One that
\* is being removed is not paired.)
Pair ==
  /\ pair = "idle"
  /\ row = NoRow /\ fabric # "removed"
  /\ \/ cached # NoNode /\ pair' = "mapping"
     \/ cached = NoNode /\ fabric = "no" /\ live /\ pair' = "commissioning"
  /\ object' = NoNode
  /\ UNCHANGED <<server, client, spawned, sync, hub, command, stale, budget>>

\* The answer comes after what matterjs-server had to say of the node
Commissioned ==
  /\ pair = "commissioning"
  /\ live /\ wire = <<>>
  /\ cached # NoNode
  /\ pair' = "mapping"
  /\ UNCHANGED <<server, client, spawned, sync, object, hub, command, stale,
                 budget>>

\* Mutant: the least value is that of the type, whatever the device's limit
SnapshotTypeMin(v) ==
  /\ row' = AttributeValue(v)
  /\ bounds' = <<AttributeValue(WidthMin(v)), MaxValue(v)>>

\* Mutant: the value is stored as it is on the wire
SnapshotRaw(v) ==
  /\ row' = v
  /\ bounds' = <<MinValue(v), MaxValue(v)>>

\* What _add_device saves
Snapshot(v) ==
  /\ row' = AttributeValue(v)
  /\ bounds' = <<MinValue(v), MaxValue(v)>>

\* The seeded row is read: the node, be it of a client replaced since, is mapped
Map ==
  /\ pair = "mapping"
  /\ object' = IF object = NoNode THEN cached ELSE object
  /\ stale' = (object' # cached)
  /\ pair' = "saving"
  /\ UNCHANGED <<server, client, spawned, sync, hub, command, budget>>

\* The device is saved under its id, and the Hub told of it
Saved ==
  /\ pair = "saving"
  /\ Snapshot(object)
  /\ pair' = "connecting"
  /\ UNCHANGED <<server, client, spawned, sync, object, command, stale, budget>>

\* _subscription, with the client that is current by then
Subscribe ==
  /\ pair = "connecting"
  /\ subs' = subs + 1
  /\ pair' = "idle"
  /\ object' = NoNode
  /\ UNCHANGED <<server, live, cached, wire, spawned, sync, hub, command, stale,
                 budget>>

\* remove_node; the Hub deletes the row
Unpair ==
  /\ row # NoRow /\ pair = "idle"
  /\ live /\ cached # NoNode /\ fabric = "announced"
  /\ fabric' = "removed"
  /\ wire' = Append(wire, [type |-> "gone", value |-> Null])
  /\ row' = NoRow
  /\ bounds' = NoBounds
  /\ setting' = NoRow
  /\ UNCHANGED <<value, limits, live, cached, subs, spawned, sync, pairing,
                 wanted, stale, budget>>

-------------------------------------------------------------------------------
\* fetch and send_command

\* Every value of the client's node, in one call of the Hub.  What it was told of
\* before it is still shown after it.
Fetch ==
  /\ row # NoRow /\ pair = "idle"
  /\ cached # NoNode
  /\ row' = AttributeValue(cached)
  /\ stale' = (stale /\ spawned # <<>>)
  /\ UNCHANGED <<server, client, spawned, sync, pairing, bounds, command, budget>>

\* The Hub sets a value within the bounds it has; the call waits for its answer
Set ==
  /\ row # NoRow /\ pair = "idle"
  /\ setting = NoRow
  /\ live /\ cached # NoNode
  /\ Spend("set")
  /\ setting' \in {v \in Settable :
                    /\ bounds[1] # Null => bounds[1] <= v
                    /\ bounds[2] # Null => v <= bounds[2]} \cup {Null}
  /\ UNCHANGED <<server, client, spawned, sync, pairing, hub, wanted,
                 stale>>

\* The device takes the value and reports it, or refuses it, be it within the
\* bounds the Hub has: a thermostat has user limits besides the absolute ones, and
\* a fan's PercentSetting, of a byte, ends at 100
Write ==
  /\ setting # NoRow
  /\ fabric = "announced"
  /\ \/ /\ ToWire(setting) \in Own
        /\ value' = ToWire(setting)
        /\ Report(value')
        /\ wanted' = setting
     \/ UNCHANGED <<value, wire, wanted>>
  /\ setting' = NoRow
  /\ UNCHANGED <<limits, fabric, live, cached, subs, spawned, sync, pairing, hub,
                 stale, budget>>

-------------------------------------------------------------------------------
Next ==
  \/ Change \/ Join \/ Announce
  \/ Handle \/ Deliver \/ Lose \/ Reconnect
  \/ SyncRows \/ SyncFollow
  \/ Pair \/ Commissioned \/ Map \/ Saved \/ Subscribe \/ Unpair
  \/ Fetch \/ Set \/ Write

Spec == Init /\ [][Next]_vars

-------------------------------------------------------------------------------
TypeOK ==
  /\ value \in Value
  /\ limits \in Limits
  /\ fabric \in {"no", "joined", "announced", "removed"}
  /\ live \in BOOLEAN
  /\ cached \in Value \cup {NoNode}
  /\ wire \in Seq(Message)
  /\ subs \in 0..2
  /\ spawned \in Seq(Shown)
  /\ conn \in {"rows", "follow", "listen"}
  /\ follow \in BOOLEAN
  /\ pair \in {"idle", "commissioning", "mapping", "saving", "connecting"}
  /\ object \in Value \cup {NoNode}
  /\ row \in Shown \cup {NoRow}
  /\ bounds \in Shown \X Shown
  /\ setting \in Settable \cup {Null, NoRow}
  /\ wanted \in Settable \cup {Null, NoRow}
  /\ stale \in BOOLEAN
  /\ budget \in [change : 0..Changes, set : 0..Sets, loss : 0..Losses]

\* Nothing is on its way to the Hub
Quiet ==
  /\ live /\ conn = "listen" /\ pair = "idle"
  /\ wire = <<>> /\ spawned = <<>>

\* Once what is on its way has arrived, the Hub shows the device's value, through
\* pairings, losses and syncs at any time.  It may not if the value changed when
\* the connection was away, a sync had not got to the device, or a pairing was
\* between its snapshot and its subscription, and has not changed since.
HubIsCurrent ==
  Quiet /\ row # NoRow /\ ~stale => row = AttributeValue(value)

\* A value the Hub set is the one it shows then, to half a unit of the wire.
SetIsShown ==
  Quiet /\ row # NoRow /\ ~stale /\ wanted # NoRow =>
    IF wanted = Null THEN row = Null
    ELSE row # Null /\ 2 * row - Scale <= 2 * wanted /\ 2 * wanted <= 2 * row + Scale

\* What the Hub may set, divided by the scale and rounded, is sent within the
\* limits the device names, those of METADATA_SOURCES: at a limit, at zero and
\* between two units of the wire, too.
SentIsInLimits ==
  setting \notin {NoRow, Null} =>
    /\ limits.min # Null => limits.min <= ToWire(setting)
    /\ limits.max # Null => ToWire(setting) <= limits.max

\* Only a lost connection ends the listening: no update does, whatever order
\* matterjs-server reports a new node in.
ListensOn == budget.loss = Losses => live
===============================================================================
