-------------------------- MODULE DeviceValuesProofs --------------------------
(* What is proved of DeviceValues for every scale and range.                 *)
EXTENDS DeviceValues, SequenceTheorems, TLAPS

\* A value is its quotient by the scale and its remainder.
LEMMA DivMod ==
  ASSUME NEW v \in Int
  PROVE  /\ v \div Scale \in Int /\ v % Scale \in 0..(Scale - 1)
         /\ v = ((v \div Scale) * Scale) + (v % Scale)
  BY ScaleAssumption

\* Multiples of the scale are in the order of what they are multiples of
LEMMA Multiples ==
  ASSUME NEW a \in Int, NEW b \in Int
  PROVE  /\ a * Scale \in Int
         /\ a <= b => a * Scale <= b * Scale
         /\ (a + 1) * Scale = a * Scale + Scale
<1>1. a <= b => b * Scale = a * Scale + (b - a) * Scale /\ (b - a) * Scale \in Nat
  BY ScaleAssumption
<1>2. QED
  BY <1>1, ScaleAssumption

\* A value is rounded to a number of the wire that is at most half of its unit
\* away
LEMMA RoundedIsNear ==
  ASSUME NEW v \in Int
  PROVE  /\ Rounded(v) \in Int
         /\ 2 * v - Scale <= 2 * (Rounded(v) * Scale)
         /\ 2 * (Rounded(v) * Scale) <= 2 * v + Scale
<1> DEFINE below == v \div Scale
<1> DEFINE rest == v % Scale
<1>1. below \in Int /\ rest \in 0..(Scale - 1) /\ v = below * Scale + rest
  BY DivMod
<1>2. below * Scale \in Int /\ (below + 1) * Scale = below * Scale + Scale
  BY <1>1, Multiples
<1>3. \/ Rounded(v) = below /\ 2 * rest <= Scale
      \/ Rounded(v) = below + 1 /\ 2 * rest >= Scale
  BY <1>1, ScaleAssumption DEF Rounded
<1> HIDE DEF below, rest
<1>4. QED
  BY <1>1, <1>2, <1>3, ScaleAssumption

\* Rounding does not leave bounds the wire can have
LEMMA RoundedIsWithin ==
  ASSUME NEW v \in Int, NEW w \in Int
  PROVE  /\ w * Scale <= v => w <= Rounded(v)
         /\ v <= w * Scale => Rounded(v) <= w
<1> DEFINE below == v \div Scale
<1> DEFINE rest == v % Scale
<1>1. below \in Int /\ rest \in 0..(Scale - 1) /\ v = below * Scale + rest
  BY DivMod
<1>2. /\ below * Scale \in Int /\ (below + 1) * Scale = below * Scale + Scale
      /\ w * Scale \in Int
      /\ below + 1 <= w => (below + 1) * Scale <= w * Scale
      /\ w + 1 <= below => (w + 1) * Scale <= below * Scale
      /\ (w + 1) * Scale = w * Scale + Scale
  <2>1. below \in Int /\ below + 1 \in Int /\ w + 1 \in Int
    BY <1>1
  <2> HIDE DEF below
  <2>2. QED
    BY <2>1, Multiples
<1>3. /\ Rounded(v) \in {below, below + 1}
      /\ rest = 0 => Rounded(v) = below
  BY <1>1, ScaleAssumption DEF Rounded
<1> HIDE DEF below, rest
<1>4. ASSUME w * Scale <= v PROVE w <= Rounded(v)
  <2>1. ~(below + 1 <= w)
    BY <1>1, <1>2, <1>4, ScaleAssumption
  <2>2. QED
    BY <1>1, <1>3, <2>1
<1>5. ASSUME v <= w * Scale PROVE Rounded(v) <= w
  <2>1. ~(w + 1 <= below)
    BY <1>1, <1>2, <1>5, ScaleAssumption
  <2>2. CASE below = w
    BY <1>1, <1>2, <1>3, <1>5, <2>2
  <2>3. CASE below # w
    BY <1>1, <1>3, <2>1, <2>3
  <2>4. QED
    BY <2>2, <2>3
<1>6. QED
  BY <1>4, <1>5

\* What the Hub shows of a value, set again, is that value
THEOREM ShownIsTaken ==
  ASSUME NEW w \in Int \cup {Null}
  PROVE  ToWire(AttributeValue(w)) = w
<1>1. CASE w = Null
  BY <1>1 DEF ToWire, AttributeValue
<1>2. CASE w # Null
  <2>1. w \in Int /\ w * Scale \in Int
    BY <1>2, ScaleAssumption
  <2>2. w <= Rounded(w * Scale) /\ Rounded(w * Scale) <= w /\ Rounded(w * Scale) \in Int
    <3> DEFINE x == w * Scale
    <3>1. /\ w * Scale <= x => w <= Rounded(x)
          /\ x <= w * Scale => Rounded(x) <= w
      <4> x \in Int
        BY <2>1
      <4> HIDE DEF x
      <4> QED
        BY <2>1, RoundedIsWithin
    <3>2. x <= x /\ Rounded(x) \in Int
      <4>1. x \in Int
        BY <2>1
      <4> HIDE DEF x
      <4>2. QED
        BY <4>1, RoundedIsNear
    <3>3. QED
      BY <3>1, <3>2
  <2>3. w * Scale # Null
    BY <2>1, ValuesAssumption
  <2>4. QED
    BY <1>2, <2>1, <2>2, <2>3 DEF ToWire, AttributeValue
<1>3. QED
  BY <1>1, <1>2

-------------------------------------------------------------------------------
\* The node is paired while it is on the fabric and cached; it is removed once,
\* which ends all there is of it but its messages
Life ==
  /\ fabric \in {"no", "joined"} => cached = NoNode
  /\ fabric # "announced" => row = NoRow /\ pair \in {"idle", "commissioning"}
  /\ fabric = "removed" => pair = "idle"
  /\ row # NoRow \/ pair \in {"mapping", "saving", "connecting"} => cached # NoNode
  /\ pair \in {"commissioning", "mapping", "saving"} => row = NoRow
  /\ pair = "connecting" => row # NoRow
  /\ pair \in {"saving", "connecting"} => object # NoNode
  /\ ~live => wire = <<>> /\ pair # "commissioning" /\ budget.loss < Losses

\* The messages end in the value, with the node announced among them once if the
\* client has not cached it
Messages ==
  /\ fabric # "removed" => \A i \in 1..Len(wire) : wire[i].type # "gone"
  /\ fabric \in {"no", "joined"} \/ (fabric = "announced" /\ cached # NoNode) =>
       \A i \in 1..Len(wire) : wire[i].type = "attribute"
  /\ \A i, j \in 1..Len(wire) :
       wire[i].type = "node" /\ wire[j].type = "node" => i = j
  /\ live /\ fabric = "announced" /\ cached = NoNode =>
       \E i \in 1..Len(wire) : wire[i].type = "node"
  /\ live /\ fabric = "announced" =>
       IF wire = <<>> THEN cached = value ELSE wire[Len(wire)].value = value

\* A device is followed by who is not about to, once by the sync and once by the
\* pairing
Followed ==
  /\ row = NoRow /\ fabric # "removed" => subs = 0 /\ spawned = <<>> /\ ~follow
  /\ row # NoRow /\ pair = "idle" /\ conn = "listen" => subs > 0
  /\ row # NoRow /\ pair = "idle" /\ conn = "follow" => follow \/ subs > 0
  /\ conn # "listen" \/ pair = "connecting" => subs <= 1
  /\ conn # "listen" /\ pair = "connecting" => subs = 0

\* The last the Hub is told is what the client has cached
Told ==
  /\ row # NoRow =>
       \/ stale
       \/ (IF spawned = <<>> THEN row ELSE spawned[Len(spawned)]) = AttributeValue(cached)
  /\ pair = "saving" => stale \/ object = cached

\* What the Hub sets is within the limits of the device
Offered ==
  /\ row # NoRow =>
       /\ limits.min # Null => bounds[1] = limits.min * Scale
       /\ limits.max # Null => bounds[2] = limits.max * Scale
  /\ setting \notin {NoRow, Null} =>
       /\ limits.min # Null => limits.min * Scale <= setting
       /\ limits.max # Null => setting <= limits.max * Scale
  /\ wanted # NoRow => value = ToWire(wanted)

Inv == TypeOK /\ Life /\ Messages /\ Followed /\ Told /\ Offered

-------------------------------------------------------------------------------
\* The sets of values, and the values that stand for none.
LEMMA ValueFacts ==
  /\ Wire \subseteq Int /\ Narrow \subseteq Wire /\ Null \in Value
  /\ {TypeMin, TypeMax, NarrowMin, NarrowMax} \subseteq Wire
  /\ Null \notin Wire /\ NoNode \notin Value /\ NoRow \notin Shown /\ NoRow # Null
  /\ \A v \in Value : AttributeValue(v) \in Shown
<1>1. /\ Wire \subseteq Int /\ Narrow \subseteq Wire
      /\ {TypeMin, TypeMax, NarrowMin, NarrowMax} \subseteq Wire
  BY ValuesAssumption DEF Wire, Narrow
<1>2. \A w \in Wire : w * Scale \in Int
  BY <1>1, ScaleAssumption
<1>3. NoRow \notin Shown
  BY <1>1, <1>2, ValuesAssumption DEF Shown, Value, AttributeValue
<1>4. QED
  BY <1>1, <1>3, ValuesAssumption DEF Shown, Value

\* What is within the limits are values of the attribute
LEMMA OwnAreValues ==
  ASSUME TypeOK
  PROVE  Own \subseteq Value
<1>1. limits.min \in Value /\ limits.max \in Value
  BY DEF TypeOK, Limits
<1>2. Within(limits) \subseteq Wire
  BY <1>1, ValuesAssumption DEF Within, Value, Wire
<1>3. QED
  BY <1>2 DEF Own, Value

\* The bounds the Hub is given are those the device reports
LEMMA BoundsFacts ==
  ASSUME TypeOK, NEW v \in Value
  PROVE  /\ MinValue(v) \in Shown /\ MaxValue(v) \in Shown
         /\ limits.min # Null => MinValue(v) = limits.min * Scale
         /\ limits.max # Null => MaxValue(v) = limits.max * Scale
<1>1. limits.min \in Value /\ limits.max \in Value
  BY DEF TypeOK, Limits
<1>2. WidthMin(v) \in Value /\ WidthMax(v) \in Value
  BY ValueFacts DEF WidthMin, WidthMax, Value
<1>3. QED
  BY <1>1, <1>2, ValueFacts DEF MinValue, MaxValue, AttributeValue

\* The first message
LEMMA HeadMessage ==
  ASSUME TypeOK, wire # <<>>
  PROVE  /\ Head(wire) \in Message /\ Head(wire) = wire[1]
         /\ Tail(wire) \in Seq(Message) /\ Len(wire) \in Nat \ {0}
         /\ Len(Tail(wire)) = Len(wire) - 1
         /\ \A i \in 1..Len(Tail(wire)) : Tail(wire)[i] = wire[i + 1]
<1>1. wire \in Seq(Message)
  BY DEF TypeOK
<1>2. QED
  BY <1>1, HeadTailProperties, LenProperties, EmptySeq

\* One message more
LEMMA NextMessage ==
  ASSUME TypeOK, NEW m \in Message
  PROVE  /\ Append(wire, m) \in Seq(Message) /\ Append(wire, m) # <<>>
         /\ Len(Append(wire, m)) = Len(wire) + 1 /\ Len(wire) \in Nat
         /\ \A i \in 1..Len(wire) : Append(wire, m)[i] = wire[i]
         /\ Append(wire, m)[Len(wire) + 1] = m
<1>1. wire \in Seq(Message)
  BY DEF TypeOK
<1>2. QED
  BY <1>1, AppendProperties, LenProperties

\* The output tasks a callback spawns: the last is of the newest value
LEMMA Signalled ==
  ASSUME TypeOK, NEW v \in Value, Signal(v)
  PROVE  /\ spawned' \in Seq(Shown)
         /\ subs = 0 => spawned' = spawned
         /\ subs > 0 => spawned' # <<>> /\ spawned'[Len(spawned')] = AttributeValue(v)
<1> DEFINE new == [i \in 1..subs |-> AttributeValue(v)]
<1>1. subs \in Nat /\ spawned \in Seq(Shown) /\ AttributeValue(v) \in Shown
  BY ValueFacts DEF TypeOK
<1>2. new \in Seq(Shown) /\ Len(new) = subs /\ \A i \in 1..subs : new[i] = AttributeValue(v)
  BY <1>1, SeqDef, LenProperties
<1>3. spawned' = spawned \o new
  BY DEF Signal
<1> HIDE DEF new
<1>4. /\ spawned' \in Seq(Shown) /\ Len(spawned') = Len(spawned) + subs
      /\ \A i \in 1..Len(spawned) + subs :
           spawned'[i] = IF i <= Len(spawned) THEN spawned[i] ELSE new[i - Len(spawned)]
      /\ Len(spawned) \in Nat
  BY <1>1, <1>2, <1>3, ConcatProperties, LenProperties
<1>5. subs = 0 => spawned' = spawned
  BY <1>1, <1>4, SeqEqual
<1>6. ASSUME subs > 0
      PROVE  spawned' # <<>> /\ spawned'[Len(spawned')] = AttributeValue(v)
  <2>1. Len(spawned) + subs \in 1..(Len(spawned) + subs) /\ ~(Len(spawned) + subs <= Len(spawned))
        /\ Len(spawned) + subs - Len(spawned) = subs /\ subs \in 1..subs
    BY <1>1, <1>4, <1>6
  <2>2. spawned'[Len(spawned')] = new[subs]
    BY <1>4, <2>1
  <2>3. spawned' # <<>>
    BY <1>1, <1>4, <1>6, EmptySeq
  <2>4. QED
    BY <1>2, <2>1, <2>2, <2>3
<1>7. QED
  BY <1>4, <1>5, <1>6

\* The invariant holds before the device is paired.
LEMMA InitInv == Init => Inv
<1> SUFFICES ASSUME Init PROVE Inv
  OBVIOUS
<1> USE ValuesAssumption DEF Init
<1>1. limits \in Limits /\ value \in Value
  <2>1. limits \in Limits
    OBVIOUS
  <2>2. limits.min \in Value /\ limits.max \in Value
    BY <2>1 DEF Limits
  <2>3. Within(limits) \subseteq Wire
    BY <2>2 DEF Within, Value, Wire
  <2>4. QED
    BY <2>1, <2>3 DEF Own, Value
<1>2. TypeOK
  <2>1. AttributeValue(Null) = Null
    BY DEF AttributeValue
  <2>2. bounds \in Shown \X Shown
    BY <2>1, ValueFacts DEF NoBounds
  <2>3. wire \in Seq(Message) /\ spawned \in Seq(Shown)
    BY EmptySeq
  <2>4. cached \in Value \cup {NoNode}
    BY <1>1
  <2>5. budget \in [change : 0..Changes, set : 0..Sets, loss : 0..Losses]
    OBVIOUS
  <2>6. fabric \in {"no", "joined", "announced", "removed"} /\ subs \in 0..2
    OBVIOUS
  <2>7. /\ pair \in {"idle", "commissioning", "mapping", "saving", "connecting"}
        /\ conn \in {"rows", "follow", "listen"}
        /\ live \in BOOLEAN /\ follow \in BOOLEAN
        /\ stale \in BOOLEAN
    OBVIOUS
  <2>8. /\ object \in Value \cup {NoNode} /\ row \in Shown \cup {NoRow}
        /\ setting \in Settable \cup {Null, NoRow}
        /\ wanted \in Settable \cup {Null, NoRow}
    OBVIOUS
  <2> HIDE DEF Init
  <2>9. QED
    BY <1>1, <2>2, <2>3, <2>4, <2>5, <2>6, <2>7, <2>8 DEF TypeOK
<1>3. Life
  BY <1>1, ValueFacts DEF Life
<1>4. Messages
  BY <1>1, ValueFacts DEF Messages
<1>5. Followed /\ Told /\ Offered
  BY DEF Followed, Told, Offered
<1>6. QED
  BY <1>2, <1>3, <1>4, <1>5 DEF Inv

-------------------------------------------------------------------------------
\* A bound is used up one at a time
LEMMA Spent ==
  ASSUME TypeOK, NEW kind \in {"change", "set", "loss"}, Spend(kind)
  PROVE  /\ budget' \in [change : 0..Changes, set : 0..Sets, loss : 0..Losses]
         /\ kind = "loss" => budget'.loss < Losses
         /\ kind # "loss" => budget'.loss = budget.loss
BY ValuesAssumption DEF TypeOK, Spend

\* What the device reports
LEMMA Reported ==
  ASSUME TypeOK, NEW v \in Value, Report(v)
  PROVE  /\ wire' \in Seq(Message)
         /\ ~live \/ fabric \notin {"joined", "announced"} => wire' = wire
         /\ live /\ fabric \in {"joined", "announced"} =>
              wire' = Append(wire, [type |-> "attribute", value |-> v])
<1>1. [type |-> "attribute", value |-> v] \in Message
  BY DEF Message
<1>2. QED
  BY <1>1, NextMessage DEF Report, TypeOK

\* Every step keeps the types.
LEMMA TypeStep == Inv /\ Next => TypeOK'
<1> SUFFICES ASSUME Inv, Next PROVE TypeOK'
  OBVIOUS
<1> USE DEF server, client, sync, pairing, hub, command
<1>0. TypeOK /\ Life /\ Followed /\ Offered
  BY DEF Inv
<1>1. CASE Change
  <2>1. PICK v \in Own : value' = v /\ Report(v)
    BY <1>1 DEF Change
  <2>2. value' \in Value /\ wire' \in Seq(Message)
    BY <1>0, <2>1, OwnAreValues, Reported
  <2>3. budget' \in [change : 0..Changes, set : 0..Sets, loss : 0..Losses]
    BY <1>0, <1>1, Spent DEF Change
  <2>4. QED
    BY <1>0, <1>1, <2>2, <2>3 DEF TypeOK, Change
<1>2. CASE Join
  BY <1>0, <1>2 DEF TypeOK, Join
<1>3. CASE Announce
  <2>1. [type |-> "node", value |-> value] \in Message
    BY <1>0 DEF TypeOK, Message
  <2>2. wire' \in Seq(Message)
    BY <1>0, <1>3, <2>1, NextMessage DEF Announce, TypeOK
  <2>3. QED
    BY <1>0, <1>3, <2>2 DEF TypeOK, Announce
<1>4. CASE Handle
  <2>1. wire' \in Seq(Message) /\ Head(wire).value \in Value
    BY <1>0, <1>4, HeadMessage DEF Handle, Message
  <2>2. /\ live' \in BOOLEAN /\ cached' \in Value \cup {NoNode} /\ stale' \in BOOLEAN
        /\ spawned' \in Seq(Shown)
    <3>1. CASE HandleAttribute(Head(wire).value)
      <4>1. CASE cached = NoNode
        BY <1>0, <3>1, <4>1 DEF TypeOK, HandleAttribute
      <4>2. CASE cached # NoNode
        <5>1. spawned' \in Seq(Shown)
          BY <1>0, <2>1, <3>1, <4>2, Signalled DEF HandleAttribute
        <5>2. QED
          BY <1>0, <2>1, <3>1, <4>2, <5>1 DEF TypeOK, HandleAttribute, Unfollowed
      <4>3. QED
        BY <4>1, <4>2
    <3>2. CASE cached' \in {Head(wire).value, NoNode} /\ UNCHANGED <<live, spawned, stale>>
      BY <1>0, <2>1, <3>2 DEF TypeOK
    <3>3. QED
      BY <1>4, <3>1, <3>2 DEF Handle
  <2>3. QED
    BY <1>0, <1>4, <2>1, <2>2 DEF TypeOK, Handle
<1>5. CASE Deliver
  <2>1. spawned \in Seq(Shown) /\ spawned # <<>>
    BY <1>0, <1>5 DEF TypeOK, Deliver
  <2>2. Head(spawned) \in Shown /\ Tail(spawned) \in Seq(Shown)
    BY <2>1, HeadTailProperties
  <2>3. QED
    BY <1>0, <1>5, <2>2 DEF TypeOK, Deliver
<1>6. CASE Lose
  <2>1. budget' \in [change : 0..Changes, set : 0..Sets, loss : 0..Losses]
    BY <1>0, <1>6, Spent DEF Lose
  <2>2. wire' \in Seq(Message)
    BY <1>6, EmptySeq DEF Lose
  <2>3. /\ pair' \in {"idle", "commissioning", "mapping", "saving", "connecting"}
        /\ live' \in BOOLEAN
    BY <1>0, <1>6 DEF TypeOK, Lose
  <2>4. QED
    BY <1>0, <1>6, <2>1, <2>2, <2>3 DEF TypeOK, Lose
<1>7. CASE Reconnect
  <2>1. stale' \in BOOLEAN
    BY <1>0, <1>7 DEF Reconnect, TypeOK
  <2>2. cached' \in Value \cup {NoNode} /\ object' \in Value \cup {NoNode}
    BY <1>0, <1>7 DEF Reconnect, TypeOK
  <2>3. fabric' \in {"no", "joined", "announced", "removed"}
    BY <1>0, <1>7 DEF Reconnect, TypeOK
  <2>4. QED
    BY <1>0, <1>7, <2>1, <2>2, <2>3 DEF TypeOK, Reconnect
<1>8. CASE SyncRows
  <2>1. follow' \in BOOLEAN
    BY <1>8 DEF SyncRows
  <2>2. QED
    BY <1>0, <1>8, <2>1 DEF TypeOK, SyncRows
<1>9. CASE SyncFollow
  <2>1. subs' \in 0..2
    BY <1>0, <1>9 DEF TypeOK, Followed, SyncFollow
  <2>2. QED
    BY <1>0, <1>9, <2>1 DEF TypeOK, SyncFollow
<1>10. CASE Pair
  BY <1>0, <1>10 DEF TypeOK, Pair
<1>11. CASE Commissioned
  BY <1>0, <1>11 DEF TypeOK, Commissioned
<1>12. CASE Map
  <2>1. stale' \in BOOLEAN
    BY <1>12 DEF Map
  <2>2. QED
    BY <1>0, <1>12, <2>1 DEF TypeOK, Map
<1>13. CASE Saved
  <2>1. object \in Value
    BY <1>0, <1>13 DEF Life, Saved, TypeOK
  <2>2. row' \in Shown /\ bounds' \in Shown \X Shown
    BY <1>0, <1>13, <2>1, BoundsFacts, ValueFacts DEF Saved, Snapshot
  <2>3. QED
    BY <1>0, <1>13, <2>2 DEF TypeOK, Saved
<1>14. CASE Subscribe
  <2>1. subs' \in 0..2
    BY <1>0, <1>14 DEF TypeOK, Followed, Subscribe
  <2>2. QED
    BY <1>0, <1>14, <2>1 DEF TypeOK, Subscribe
<1>15. CASE Unpair
  <2>1. [type |-> "gone", value |-> Null] \in Message
    BY ValueFacts DEF Message
  <2>2. wire' \in Seq(Message)
    BY <1>0, <1>15, <2>1, NextMessage DEF Unpair
  <2>3. bounds' \in Shown \X Shown
    BY <1>15, ValueFacts DEF Unpair, NoBounds, AttributeValue
  <2>4. QED
    BY <1>0, <1>15, <2>2, <2>3 DEF TypeOK, Unpair
<1>16. CASE Fetch
  <2>1. row' \in Shown /\ stale' \in BOOLEAN
    BY <1>0, <1>16, ValueFacts DEF TypeOK, Fetch
  <2>2. QED
    BY <1>0, <1>16, <2>1 DEF TypeOK, Fetch
<1>17. CASE Set
  <2>1. budget' \in [change : 0..Changes, set : 0..Sets, loss : 0..Losses]
    BY <1>0, <1>17, Spent DEF Set
  <2>2. setting' \in Settable \cup {Null}
    BY <1>17 DEF Set
  <2>3. QED
    BY <1>0, <1>17, <2>1, <2>2 DEF TypeOK, Set
<1>18. CASE Write
  <2>1. value' \in Value /\ wire' \in Seq(Message)
    <3>1. CASE value' \in Own /\ Report(value')
      <4>1. value' \in Value
        BY <1>0, <3>1, OwnAreValues
      <4>2. QED
        BY <1>0, <3>1, <4>1, Reported DEF TypeOK
    <3>2. CASE UNCHANGED <<value, wire>>
      BY <1>0, <3>2 DEF TypeOK
    <3>3. QED
      BY <1>18, <3>1, <3>2 DEF Write
  <2>2. wanted' \in {setting, wanted}
    BY <1>18 DEF Write
  <2>3. setting' = NoRow
    BY <1>18 DEF Write
  <2>4. QED
    BY <1>0, <1>18, <2>1, <2>2, <2>3 DEF TypeOK, Write
<1>19. QED
  BY <1>1, <1>2, <1>3, <1>4, <1>5, <1>6, <1>7, <1>8, <1>9, <1>10, <1>11, <1>12,
     <1>13, <1>14, <1>15, <1>16, <1>17, <1>18 DEF Next

\* Every step keeps what the phases of the connection and of the pairing imply.
LEMMA LifeStep == Inv /\ Next => Life'
<1> SUFFICES ASSUME Inv, Next PROVE Life'
  OBVIOUS
<1> USE DEF server, client, sync, pairing, hub, command
<1>0. TypeOK /\ Life /\ Messages /\ Followed
  BY DEF Inv
<1>1. CASE Change
  <2>1. ~live => wire' = wire
    BY <1>1 DEF Change, Report
  <2>2. budget'.loss = budget.loss
    BY <1>0, <1>1, Spent DEF Change
  <2>3. QED
    BY <1>0, <1>1, <2>1, <2>2 DEF Life, Change
<1>2. CASE Join
  BY <1>0, <1>2 DEF Life, Join
<1>3. CASE Announce
  BY <1>0, <1>3 DEF Life, Announce
<1>4. CASE Handle
  <2>0. wire # <<>> /\ live /\ 1 \in 1..Len(wire) /\ Head(wire) = wire[1]
    BY <1>0, <1>4, HeadMessage DEF Handle
  <2>1. CASE Head(wire).type = "attribute" /\ HandleAttribute(Head(wire).value)
    <3>1. cached = NoNode => cached' = NoNode
      BY <2>1 DEF HandleAttribute
    <3>2. cached # NoNode => cached' = Head(wire).value
      BY <2>1 DEF HandleAttribute
    <3>3. live' = live
      BY <2>1 DEF HandleAttribute
    <3>4. Head(wire).value # NoNode
      BY <1>0, <2>0, HeadMessage, ValueFacts DEF Message
    <3>5. QED
      BY <1>0, <1>4, <2>0, <3>1, <3>2, <3>3, <3>4 DEF Life, Handle
  <2>2. CASE Head(wire).type = "node" /\ cached' = Head(wire).value /\ live' = live
    <3>1. fabric \notin {"no", "joined"}
      BY <1>0, <2>0, <2>2 DEF Messages
    <3>2. Head(wire).value # NoNode
      BY <1>0, <2>0, HeadMessage, ValueFacts DEF Message
    <3>3. QED
      BY <1>0, <1>4, <2>0, <2>2, <3>1, <3>2 DEF Life, Handle
  <2>3. CASE Head(wire).type = "gone" /\ cached' = NoNode /\ live' = live
    <3>1. fabric = "removed"
      BY <1>0, <2>0, <2>3 DEF Messages
    <3>2. QED
      BY <1>0, <1>4, <2>0, <2>3, <3>1 DEF Life, Handle
  <2>4. QED
    BY <1>4, <2>1, <2>2, <2>3 DEF Handle
<1>5. CASE Deliver
  <2>1. spawned \in Seq(Shown) /\ spawned # <<>>
    BY <1>0, <1>5 DEF TypeOK, Deliver
  <2>2. Head(spawned) # NoRow
    BY <2>1, HeadTailProperties, ValueFacts
  <2>3. row' = NoRow <=> row = NoRow
    BY <1>5, <2>2 DEF Deliver
  <2>4. QED
    BY <1>0, <1>5, <2>3 DEF Life, Deliver
<1>6. CASE Lose
  <2>1. budget'.loss < Losses
    BY <1>0, <1>6, Spent DEF Lose
  <2>2. QED
    BY <1>0, <1>6, <2>1 DEF Life, Lose
<1>7. CASE Reconnect
  <2>1. fabric = "removed" => row = NoRow /\ pair \in {"idle", "commissioning"}
    BY <1>0 DEF Life
  <2>2. value # NoNode
    BY <1>0, ValueFacts DEF TypeOK
  <2>3. fabric' \in {"no", "joined"} => cached' = NoNode
    BY <1>7 DEF Reconnect
  <2>4. fabric' # "announced" => fabric' = fabric /\ fabric # "announced"
    BY <1>7 DEF Reconnect
  <2>5. row # NoRow \/ pair \in {"mapping", "saving", "connecting"} =>
          fabric' = "announced" /\ cached' # NoNode
    BY <1>0, <1>7, <2>2 DEF Reconnect, Life
  <2>6. pair \in {"saving", "connecting"} => object' # NoNode
    BY <1>0, <1>7 DEF Reconnect, Life
  <2>7. QED
    BY <1>0, <1>7, <2>1, <2>3, <2>4, <2>5, <2>6 DEF Life, Reconnect
<1>8. CASE SyncRows
  BY <1>0, <1>8 DEF Life, SyncRows
<1>9. CASE SyncFollow
  BY <1>0, <1>9 DEF Life, SyncFollow
<1>10. CASE Pair
  BY <1>0, <1>10 DEF Life, Pair, TypeOK
<1>11. CASE Commissioned
  <2>1. fabric = "announced"
    BY <1>0, <1>11 DEF Life, Commissioned, TypeOK
  <2>2. QED
    BY <1>0, <1>11, <2>1 DEF Life, Commissioned
<1>12. CASE Map
  BY <1>0, <1>12 DEF Life, Map
<1>13. CASE Saved
  <2>1. object \in Value
    BY <1>0, <1>13 DEF Life, Saved, TypeOK
  <2>2. row' # NoRow
    BY <1>13, <2>1, ValueFacts DEF Saved, Snapshot
  <2>3. QED
    BY <1>0, <1>13, <2>2 DEF Life, Saved
<1>14. CASE Subscribe
  BY <1>0, <1>14 DEF Life, Subscribe
<1>15. CASE Unpair
  BY <1>0, <1>15 DEF Life, Unpair
<1>16. CASE Fetch
  BY <1>0, <1>16, ValueFacts DEF Life, Fetch, TypeOK
<1>17. CASE Set
  <2>1. budget'.loss = budget.loss
    BY <1>0, <1>17, Spent DEF Set
  <2>2. QED
    BY <1>0, <1>17, <2>1 DEF Life, Set
<1>18. CASE Write
  <2>1. ~live => wire' = wire
    BY <1>18 DEF Write, Report
  <2>2. QED
    BY <1>0, <1>18, <2>1 DEF Life, Write
<1>19. QED
  BY <1>1, <1>2, <1>3, <1>4, <1>5, <1>6, <1>7, <1>8, <1>9, <1>10, <1>11, <1>12,
     <1>13, <1>14, <1>15, <1>16, <1>17, <1>18 DEF Next

\* Every step keeps who is subscribed with which client.
LEMMA FollowedStep == Inv /\ Next => Followed'
<1> SUFFICES ASSUME Inv, Next PROVE Followed'
  OBVIOUS
<1> USE DEF server, client, sync, pairing, hub, command
<1>0. TypeOK /\ Life /\ Messages /\ Followed
  BY DEF Inv
<1>01. subs \in 0..2
  BY <1>0 DEF TypeOK
<1>1. CASE Change
  BY <1>0, <1>1 DEF Followed, Change
<1>2. CASE Join
  BY <1>0, <1>2 DEF Followed, Join
<1>3. CASE Announce
  BY <1>0, <1>3 DEF Followed, Announce
<1>4. CASE Handle
  <2>1. subs = 0 => spawned' = spawned
    <3>1. CASE cached # NoNode /\ HandleAttribute(Head(wire).value)
      <4>1. Head(wire).value \in Value
        BY <1>0, <1>4, HeadMessage DEF Handle, Message
      <4>2. Signal(Head(wire).value)
        BY <3>1 DEF HandleAttribute
      <4>3. QED
        BY <1>0, <4>1, <4>2, Signalled
    <3>2. CASE ~(cached # NoNode /\ HandleAttribute(Head(wire).value))
      BY <1>4, <3>2 DEF Handle, HandleAttribute
    <3>3. QED
      BY <3>1, <3>2
  <2>2. QED
    BY <1>0, <1>4, <2>1 DEF Followed, Handle
<1>5. CASE Deliver
  <2>1. spawned \in Seq(Shown) /\ spawned # <<>>
    BY <1>0, <1>5 DEF TypeOK, Deliver
  <2>2. Head(spawned) # NoRow
    BY <2>1, HeadTailProperties, ValueFacts
  <2>3. row' = NoRow <=> row = NoRow
    BY <1>5, <2>2 DEF Deliver
  <2>4. QED
    BY <1>0, <1>5, <2>1, <2>3 DEF Followed, Deliver
<1>6. CASE Lose
  BY <1>0, <1>6 DEF Followed, Life, Lose
<1>7. CASE Reconnect
  BY <1>0, <1>7 DEF Followed, Life, Reconnect
<1>8. CASE SyncRows
  BY <1>0, <1>01, <1>8 DEF Followed, Life, SyncRows
<1>9. CASE SyncFollow
  BY <1>0, <1>01, <1>9 DEF Followed, Life, SyncFollow
<1>10. CASE Pair
  BY <1>0, <1>10 DEF Followed, Pair
<1>11. CASE Commissioned
  BY <1>0, <1>11 DEF Followed, Commissioned
<1>12. CASE Map
  BY <1>0, <1>12 DEF Followed, Map
<1>13. CASE Saved
  <2>1. fabric = "announced" /\ row = NoRow /\ pair = "saving"
    BY <1>0, <1>13 DEF Life, Saved
  <2>2. subs = 0 /\ spawned = <<>> /\ follow = FALSE
    BY <1>0, <2>1 DEF Followed, TypeOK
  <2>3. /\ fabric' = fabric /\ subs' = subs /\ spawned' = spawned
        /\ follow' = follow /\ pair' = "connecting"
    BY <1>13 DEF Saved
  <2>4. QED
    BY <2>1, <2>2, <2>3 DEF Followed
<1>14. CASE Subscribe
  BY <1>0, <1>01, <1>14 DEF Followed, Life, Subscribe
<1>15. CASE Unpair
  BY <1>0, <1>15 DEF Followed, Unpair
<1>16. CASE Fetch
  BY <1>0, <1>16, ValueFacts DEF Followed, Fetch, TypeOK
<1>17. CASE Set
  BY <1>0, <1>17 DEF Followed, Set
<1>18. CASE Write
  BY <1>0, <1>18 DEF Followed, Write
<1>19. QED
  BY <1>1, <1>2, <1>3, <1>4, <1>5, <1>6, <1>7, <1>8, <1>9, <1>10, <1>11, <1>12,
     <1>13, <1>14, <1>15, <1>16, <1>17, <1>18 DEF Next

\* What the device reports of a value it took comes last
LEMMA ReportComesLast ==
  ASSUME TypeOK, Messages, NEW v \in Value, Report(v), value' = v,
         UNCHANGED <<fabric, live, cached>>
  PROVE  Messages'
<1>1. CASE ~live \/ fabric \notin {"joined", "announced"}
  BY <1>1, Reported DEF Messages
<1>2. CASE live /\ fabric \in {"joined", "announced"}
  <2> DEFINE m == [type |-> "attribute", value |-> v]
  <2>1. m \in Message /\ m.type = "attribute" /\ m.value = v
    BY DEF Message
  <2>2. wire' = Append(wire, m)
    BY <1>2, Reported
  <2> HIDE DEF m
  <2>3. /\ wire' # <<>> /\ Len(wire') = Len(wire) + 1 /\ Len(wire) \in Nat
        /\ \A i \in 1..Len(wire) : wire'[i] = wire[i]
        /\ wire'[Len(wire) + 1] = m
    BY <2>1, <2>2, NextMessage
  <2>4. /\ 1..Len(wire') = 1..Len(wire) \cup {Len(wire) + 1}
        /\ Len(wire) + 1 \notin 1..Len(wire)
    BY <2>3
  <2>5. QED
    BY <2>1, <2>3, <2>4 DEF Messages
<1>3. QED
  BY <1>1, <1>2

\* Every step keeps the messages on their way ending in the value.
LEMMA MessagesStep == Inv /\ Next => Messages'
<1> SUFFICES ASSUME Inv, Next PROVE Messages'
  OBVIOUS
<1> USE DEF server, client, sync, pairing, hub, command
<1>0. TypeOK /\ Life /\ Messages /\ Offered
  BY DEF Inv
<1>1. CASE Change
  <2>1. PICK v \in Own : value' = v /\ Report(v)
    BY <1>1 DEF Change
  <2>2. v \in Value
    BY <1>0, OwnAreValues
  <2>3. QED
    BY <1>0, <1>1, <2>1, <2>2, ReportComesLast DEF Change
<1>2. CASE Join
  BY <1>0, <1>2 DEF Messages, Join
<1>3. CASE Announce
  <2>1. cached = NoNode /\ cached' = cached /\ fabric' = "announced" /\ live' = live
        /\ \A i \in 1..Len(wire) : wire[i].type = "attribute"
    BY <1>0, <1>3 DEF Announce, Life, Messages
  <2>2. CASE ~live
    BY <1>3, <2>1, <2>2 DEF Announce, Messages
  <2>3. CASE live
    <3> DEFINE m == [type |-> "node", value |-> value]
    <3>1. m \in Message /\ m.type = "node" /\ m.value = value
      BY <1>0 DEF TypeOK, Message
    <3>2. wire' = Append(wire, m) /\ value' = value
      BY <1>3, <2>3 DEF Announce
    <3> HIDE DEF m
    <3>3. /\ wire' # <<>> /\ Len(wire') = Len(wire) + 1 /\ Len(wire) \in Nat
          /\ \A i \in 1..Len(wire) : wire'[i] = wire[i]
          /\ wire'[Len(wire) + 1] = m
      BY <1>0, <3>1, <3>2, NextMessage
    <3>4. 1..Len(wire') = 1..Len(wire) \cup {Len(wire) + 1}
      BY <3>3
    <3>5. QED
      BY <2>1, <3>1, <3>2, <3>3, <3>4 DEF Messages
  <2>4. QED
    BY <2>2, <2>3
<1>4. CASE Handle
  <2>0. /\ live /\ wire # <<>> /\ wire' = Tail(wire)
        /\ value' = value /\ fabric' = fabric
    BY <1>4 DEF Handle
  <2>1. /\ Head(wire) \in Message /\ Head(wire) = wire[1]
        /\ Len(wire) \in Nat \ {0} /\ Len(wire') = Len(wire) - 1
        /\ \A i \in 1..Len(wire') : wire'[i] = wire[i + 1]
        /\ wire' = <<>> => Len(wire) = 1
        /\ wire' # <<>> => Len(wire') >= 1
    <3>1. /\ Head(wire) \in Message /\ Head(wire) = wire[1]
          /\ Len(wire) \in Nat \ {0} /\ Len(wire') = Len(wire) - 1
          /\ \A i \in 1..Len(wire') : wire'[i] = wire[i + 1]
          /\ wire' \in Seq(Message)
      BY <1>0, <2>0, HeadMessage
    <3>2. wire' = <<>> <=> Len(wire') = 0
      BY <3>1, EmptySeq
    <3>3. QED
      BY <3>1, <3>2
  <2>2. /\ \A i \in 1..Len(wire') : i + 1 \in 1..Len(wire) /\ i + 1 # 1
        /\ \A i \in 1..Len(wire) : i = 1 \/ (i - 1 \in 1..Len(wire') /\ (i - 1) + 1 = i)
        /\ 1 \in 1..Len(wire) /\ Len(wire) \in 1..Len(wire)
        /\ \A i, j \in 1..Len(wire') : i + 1 = j + 1 => i = j
    BY <2>1
  <2>3. wire' # <<>> => wire'[Len(wire')] = wire[Len(wire)]
    BY <2>1
  <2>4. /\ fabric' # "removed" => \A i \in 1..Len(wire') : wire'[i].type # "gone"
        /\ \A i, j \in 1..Len(wire') :
             wire'[i].type = "node" /\ wire'[j].type = "node" => i = j
    BY <1>0, <2>0, <2>1, <2>2 DEF Messages
  <2>5. /\ fabric' \in {"no", "joined"} \/ (fabric' = "announced" /\ cached' # NoNode) =>
             \A i \in 1..Len(wire') : wire'[i].type = "attribute"
        /\ live' /\ fabric' = "announced" /\ cached' = NoNode =>
             \E i \in 1..Len(wire') : wire'[i].type = "node"
        /\ live' /\ fabric' = "announced" =>
             IF wire' = <<>> THEN cached' = value' ELSE wire'[Len(wire')].value = value'
    <3>1. CASE Head(wire).type = "attribute" /\ HandleAttribute(Head(wire).value)
      <4>0. wire[1].type = "attribute" /\ live' = live
        BY <2>1, <3>1 DEF HandleAttribute
      <4>1. CASE cached = NoNode
        <5>1. cached' = cached
          BY <3>1, <4>1 DEF HandleAttribute
        <5>2. fabric = "announced" =>
                /\ \E i \in 1..Len(wire') : wire'[i].type = "node"
                /\ wire' # <<>>
          <6> SUFFICES ASSUME fabric = "announced"
                       PROVE  /\ \E i \in 1..Len(wire') : wire'[i].type = "node"
                              /\ wire' # <<>>
            OBVIOUS
          <6>1. PICK i \in 1..Len(wire) : wire[i].type = "node"
            BY <1>0, <2>0, <4>1 DEF Messages
          <6>2. i # 1
            BY <4>0, <6>1
          <6>3. i - 1 \in 1..Len(wire') /\ wire'[i - 1].type = "node"
            BY <2>1, <2>2, <6>1, <6>2
          <6>4. wire' # <<>>
            BY <2>1, <2>2, <6>2
          <6>5. QED
            BY <6>3, <6>4
        <5>3. QED
          BY <1>0, <2>0, <2>1, <2>2, <2>3, <4>0, <4>1, <5>1, <5>2 DEF Messages
      <4>2. CASE cached # NoNode
        <5>1. cached' = wire[1].value /\ cached' # NoNode
          BY <2>1, <3>1, <4>2, ValueFacts DEF HandleAttribute, Message
        <5>2. QED
          BY <1>0, <2>0, <2>1, <2>2, <2>3, <4>0, <4>2, <5>1 DEF Messages
      <4>3. QED
        BY <4>1, <4>2
    <3>2. CASE Head(wire).type = "node" /\ cached' = Head(wire).value /\ live' = live
      <4>1. wire[1].type = "node" /\ cached' = wire[1].value /\ cached' # NoNode
        BY <2>1, <3>2, ValueFacts DEF Message
      <4>2. fabric \notin {"no", "joined"}
        BY <1>0, <2>2, <4>1 DEF Messages
      <4>3. fabric # "removed" =>
              \A i \in 1..Len(wire') : wire'[i].type \notin {"node", "gone"}
        BY <1>0, <2>0, <2>1, <2>2, <4>1 DEF Messages
      <4>4. \A i \in 1..Len(wire') : wire'[i].type \in {"attribute", "node", "gone"}
        <5>1. wire' \in Seq(Message)
          BY <1>0, <2>0, HeadMessage
        <5>2. \A i \in 1..Len(wire') : wire'[i] \in Message
          BY <5>1, ElementOfSeq
        <5>3. \A m \in Message : m.type \in {"attribute", "node", "gone"}
          BY DEF Message
        <5>4. QED
          BY <5>2, <5>3
      <4>5. fabric # "removed" => \A i \in 1..Len(wire') : wire'[i].type = "attribute"
        BY <4>3, <4>4
      <4>6. live' /\ fabric' = "announced" =>
              IF wire' = <<>> THEN cached' = value'
              ELSE wire'[Len(wire')].value = value'
        BY <1>0, <2>0, <2>1, <2>3, <4>1 DEF Messages
      <4>7. QED
        BY <2>0, <3>2, <4>1, <4>2, <4>5, <4>6
    <3>3. CASE Head(wire).type = "gone" /\ cached' = NoNode /\ live' = live
      <4>1. fabric = "removed"
        BY <1>0, <2>1, <2>2, <3>3 DEF Messages
      <4>2. QED
        BY <2>0, <4>1
    <3>4. QED
      BY <1>4, <3>1, <3>2, <3>3 DEF Handle
  <2>6. QED
    BY <2>4, <2>5 DEF Messages
<1>5. CASE Deliver
  BY <1>0, <1>5 DEF Messages, Deliver
<1>6. CASE Lose
  <2>1. wire' = <<>> /\ Len(wire') = 0 /\ ~live' /\ 1..0 = {}
    BY <1>6 DEF Lose
  <2>2. QED
    BY <2>1 DEF Messages
<1>7. CASE Reconnect
  <2>1. wire = <<>> /\ wire' = wire /\ value' = value
    BY <1>0, <1>7 DEF Life, Reconnect
  <2>2. Len(wire') = 0 /\ 1..0 = {}
    BY <2>1
  <2>3. value # NoNode
    BY <1>0, ValueFacts DEF TypeOK
  <2>4. fabric' = "announced" => cached' = value
    BY <1>7 DEF Reconnect
  <2>5. QED
    BY <2>1, <2>2, <2>3, <2>4 DEF Messages
<1>8. CASE SyncRows
  BY <1>0, <1>8 DEF Messages, SyncRows
<1>9. CASE SyncFollow
  BY <1>0, <1>9 DEF Messages, SyncFollow
<1>10. CASE Pair
  BY <1>0, <1>10 DEF Messages, Pair
<1>11. CASE Commissioned
  BY <1>0, <1>11 DEF Messages, Commissioned
<1>12. CASE Map
  BY <1>0, <1>12 DEF Messages, Map
<1>13. CASE Saved
  BY <1>0, <1>13 DEF Messages, Saved
<1>14. CASE Subscribe
  BY <1>0, <1>14 DEF Messages, Subscribe
<1>15. CASE Unpair
  <2> DEFINE m == [type |-> "gone", value |-> Null]
  <2>1. m \in Message /\ m.type = "gone"
    BY ValueFacts DEF Message
  <2>2. wire' = Append(wire, m) /\ fabric' = "removed"
    BY <1>15 DEF Unpair
  <2> HIDE DEF m
  <2>3. /\ Len(wire') = Len(wire) + 1 /\ Len(wire) \in Nat
        /\ \A i \in 1..Len(wire) : wire'[i] = wire[i]
        /\ wire'[Len(wire) + 1] = m
    BY <1>0, <2>1, <2>2, NextMessage
  <2>4. 1..Len(wire') = 1..Len(wire) \cup {Len(wire) + 1}
    BY <2>3
  <2>5. QED
    BY <1>0, <2>1, <2>2, <2>3, <2>4 DEF Messages
<1>16. CASE Fetch
  BY <1>0, <1>16 DEF Messages, Fetch
<1>17. CASE Set
  BY <1>0, <1>17 DEF Messages, Set
<1>18. CASE Write
  <2>1. CASE value' \in Own /\ Report(value')
    <3>1. UNCHANGED <<fabric, live, cached>>
      BY <1>18 DEF Write
    <3>2. value' \in Value
      BY <1>0, <2>1, OwnAreValues
    <3>3. QED
      BY <1>0, <2>1, <3>1, <3>2, ReportComesLast
  <2>2. CASE UNCHANGED <<value, wire>>
    BY <1>0, <1>18, <2>2 DEF Write, Messages
  <2>3. QED
    BY <1>18, <2>1, <2>2 DEF Write
<1>19. QED
  BY <1>1, <1>2, <1>3, <1>4, <1>5, <1>6, <1>7, <1>8, <1>9, <1>10, <1>11, <1>12,
     <1>13, <1>14, <1>15, <1>16, <1>17, <1>18 DEF Next

\* The task that runs is the last one, or the last one is left
LEMMA TaskDone ==
  ASSUME TypeOK, spawned # <<>>
  PROVE  /\ Head(spawned) \in Shown
         /\ Tail(spawned) = <<>> => Head(spawned) = spawned[Len(spawned)]
         /\ Tail(spawned) # <<>> =>
              Tail(spawned)[Len(Tail(spawned))] = spawned[Len(spawned)]
<1>1. spawned \in Seq(Shown)
  BY DEF TypeOK
<1>2. /\ Head(spawned) \in Shown /\ Head(spawned) = spawned[1]
      /\ Tail(spawned) \in Seq(Shown)
      /\ Len(spawned) \in Nat \ {0} /\ Len(Tail(spawned)) = Len(spawned) - 1
      /\ \A i \in 1..Len(Tail(spawned)) : Tail(spawned)[i] = spawned[i + 1]
  BY <1>1, HeadTailProperties, LenProperties, EmptySeq
<1>3. Tail(spawned) = <<>> <=> Len(Tail(spawned)) = 0
  BY <1>2, EmptySeq
<1>4. QED
  BY <1>2, <1>3

\* Every step keeps the value cached the last one that the Hub is told.
LEMMA ToldStep == Inv /\ Next => Told'
<1> SUFFICES ASSUME Inv, Next PROVE Told'
  OBVIOUS
<1> USE DEF server, client, sync, pairing, hub, command
<1>0. TypeOK /\ Life /\ Messages /\ Followed /\ Told
  BY DEF Inv
<1>1. CASE Change
  BY <1>0, <1>1 DEF Told, Change
<1>2. CASE Join
  BY <1>0, <1>2 DEF Told, Join
<1>3. CASE Announce
  BY <1>0, <1>3 DEF Told, Announce
<1>4. CASE Handle
  <2>0. /\ wire # <<>> /\ row' = row /\ pair' = pair /\ object' = object
        /\ UNCHANGED <<subs, conn>>
    BY <1>4 DEF Handle
  <2>1. Head(wire) \in Message /\ Head(wire) = wire[1] /\ 1 \in 1..Len(wire)
    BY <1>0, <2>0, HeadMessage
  <2>2. row # NoRow \/ pair = "saving" => wire[1].type = "attribute" /\ cached # NoNode
    BY <1>0, <2>1 DEF Life, Messages
  <2>3. CASE wire[1].type = "attribute" /\ cached # NoNode
    <3> DEFINE v == Head(wire).value
    <3>1. v \in Value /\ HandleAttribute(v)
      BY <1>4, <2>1, <2>3 DEF Handle, Message
    <3> HIDE DEF v
    <3>2. cached' = v /\ Signal(v) /\ stale' = Unfollowed
      BY <2>3, <3>1 DEF HandleAttribute
    <3>3. CASE Unfollowed
      BY <3>2, <3>3 DEF Told
    <3>4. CASE ~Unfollowed
      <4>1. conn = "listen" /\ pair \notin {"saving", "connecting"}
        BY <3>4 DEF Unfollowed
      <4>2. row # NoRow => subs > 0
        BY <1>0, <4>1 DEF Life, Followed, TypeOK
      <4>3. row # NoRow => spawned' # <<>> /\ spawned'[Len(spawned')] = AttributeValue(v)
        BY <1>0, <3>1, <3>2, <4>2, Signalled
      <4>4. QED
        BY <2>0, <3>2, <4>1, <4>3 DEF Told
    <3>5. QED
      BY <3>3, <3>4
  <2>4. CASE ~(wire[1].type = "attribute" /\ cached # NoNode)
    BY <2>0, <2>2, <2>4 DEF Told
  <2>5. QED
    BY <2>3, <2>4
<1>5. CASE Deliver
  <2>1. /\ spawned # <<>> /\ spawned' = Tail(spawned)
        /\ row' = IF row = NoRow THEN NoRow ELSE Head(spawned)
        /\ UNCHANGED <<stale, cached, pair, object>>
    BY <1>5 DEF Deliver
  <2>2. QED
    BY <1>0, <2>1, TaskDone DEF Told
<1>6. CASE Lose
  BY <1>0, <1>6 DEF Told, Lose
<1>7. CASE Reconnect
  <2>1. stale' = (stale \/ cached' # cached) /\ UNCHANGED <<row, spawned, pair>>
    BY <1>7 DEF Reconnect
  <2>2. pair = "saving" => object' = object
    BY <1>0, <1>7 DEF Reconnect, Life
  <2>3. QED
    BY <1>0, <2>1, <2>2 DEF Told
<1>8. CASE SyncRows
  BY <1>0, <1>8 DEF Told, SyncRows
<1>9. CASE SyncFollow
  BY <1>0, <1>9 DEF Told, SyncFollow
<1>10. CASE Pair
  BY <1>0, <1>10 DEF Told, Pair
<1>11. CASE Commissioned
  BY <1>0, <1>11 DEF Told, Commissioned
<1>12. CASE Map
  <2>1. row = NoRow /\ row' = row /\ cached' = cached /\ stale' = (object' # cached)
    BY <1>0, <1>12 DEF Life, Map
  <2>2. QED
    BY <2>1 DEF Told
<1>13. CASE Saved
  <2>1. fabric = "announced" /\ row = NoRow /\ pair = "saving"
    BY <1>0, <1>13 DEF Life, Saved
  <2>2. spawned = <<>> /\ (stale \/ object = cached)
    BY <1>0, <2>1 DEF Followed, Told
  <2>3. /\ row' = AttributeValue(object) /\ pair' = "connecting"
        /\ UNCHANGED <<spawned, stale, cached>>
    BY <1>13 DEF Saved, Snapshot
  <2>4. QED
    BY <2>2, <2>3 DEF Told
<1>14. CASE Subscribe
  BY <1>0, <1>14 DEF Told, Subscribe
<1>15. CASE Unpair
  BY <1>0, <1>15 DEF Told, Unpair
<1>16. CASE Fetch
  <2>1. /\ row # NoRow /\ row' = AttributeValue(cached)
        /\ stale' = (stale /\ spawned # <<>>)
        /\ UNCHANGED <<spawned, cached, pair, object>> /\ pair = "idle"
    BY <1>16 DEF Fetch
  <2>2. QED
    BY <1>0, <2>1 DEF Told
<1>17. CASE Set
  BY <1>0, <1>17 DEF Told, Set
<1>18. CASE Write
  BY <1>0, <1>18 DEF Told, Write
<1>19. QED
  BY <1>1, <1>2, <1>3, <1>4, <1>5, <1>6, <1>7, <1>8, <1>9, <1>10, <1>11, <1>12,
     <1>13, <1>14, <1>15, <1>16, <1>17, <1>18 DEF Next

\* What is sent of a value within the limits scaled is within the limits
LEMMA SettingIsInLimits ==
  ASSUME TypeOK, Offered
  PROVE  SentIsInLimits
<1> SUFFICES ASSUME setting \notin {NoRow, Null}
             PROVE  /\ limits.min # Null => limits.min <= ToWire(setting)
                    /\ limits.max # Null => ToWire(setting) <= limits.max
  BY DEF SentIsInLimits
<1>1. setting \in Int
  <2>1. TypeMin * Scale \in Int /\ TypeMax * Scale \in Int
    BY ValuesAssumption, ScaleAssumption
  <2>2. QED
    BY <2>1, ValuesAssumption DEF TypeOK, Settable
<1>2. ToWire(setting) = Rounded(setting)
  BY DEF ToWire
<1>3. limits.min \in Value /\ limits.max \in Value
  BY DEF TypeOK, Limits
<1>4. /\ limits.min # Null => limits.min \in Int /\ limits.min <= Rounded(setting)
      /\ limits.max # Null => limits.max \in Int /\ Rounded(setting) <= limits.max
  BY <1>1, <1>3, ValueFacts, RoundedIsWithin DEF Offered, Value
<1>5. QED
  BY <1>2, <1>4

\* Every step keeps the bounds, and what the Hub sets, within the limits.
LEMMA OfferedStep == Inv /\ Next => Offered'
<1> SUFFICES ASSUME Inv, Next PROVE Offered'
  OBVIOUS
<1> USE DEF server, client, sync, pairing, hub, command
<1>0. TypeOK /\ Life /\ Offered
  BY DEF Inv
<1>1. CASE Change
  BY <1>0, <1>1 DEF Offered, Change
<1>2. CASE Join
  BY <1>0, <1>2 DEF Offered, Join
<1>3. CASE Announce
  BY <1>0, <1>3 DEF Offered, Announce
<1>4. CASE Handle
  BY <1>0, <1>4 DEF Offered, Handle
<1>5. CASE Deliver
  <2>1. row' # NoRow => row # NoRow
    BY <1>5 DEF Deliver
  <2>2. QED
    BY <1>0, <1>5, <2>1 DEF Offered, Deliver
<1>6. CASE Lose
  BY <1>0, <1>6 DEF Offered, Lose
<1>7. CASE Reconnect
  BY <1>0, <1>7 DEF Offered, Reconnect
<1>8. CASE SyncRows
  BY <1>0, <1>8 DEF Offered, SyncRows
<1>9. CASE SyncFollow
  BY <1>0, <1>9 DEF Offered, SyncFollow
<1>10. CASE Pair
  BY <1>0, <1>10 DEF Offered, Pair
<1>11. CASE Commissioned
  BY <1>0, <1>11 DEF Offered, Commissioned
<1>12. CASE Map
  BY <1>0, <1>12 DEF Offered, Map
<1>13. CASE Saved
  <2>1. object \in Value
    BY <1>0, <1>13 DEF Life, Saved, TypeOK
  <2>2. /\ bounds' = <<MinValue(object), MaxValue(object)>>
        /\ UNCHANGED <<limits, setting, wanted, value>>
    BY <1>13 DEF Saved, Snapshot
  <2>3. /\ limits.min # Null => bounds'[1] = limits.min * Scale
        /\ limits.max # Null => bounds'[2] = limits.max * Scale
    BY <1>0, <2>1, <2>2, BoundsFacts
  <2>4. QED
    BY <1>0, <2>2, <2>3 DEF Offered
<1>14. CASE Subscribe
  BY <1>0, <1>14 DEF Offered, Subscribe
<1>15. CASE Unpair
  BY <1>0, <1>15 DEF Offered, Unpair
<1>16. CASE Fetch
  BY <1>0, <1>16 DEF Offered, Fetch
<1>17. CASE Set
  <2>1. limits.min \in Value /\ limits.max \in Value
    BY <1>0 DEF TypeOK, Limits
  <2>2. /\ limits.min # Null => limits.min * Scale # Null
        /\ limits.max # Null => limits.max * Scale # Null
    <3>1. \A w \in Wire : w * Scale \in Int
      BY ValueFacts, ScaleAssumption
    <3>2. QED
      BY <2>1, <3>1, ValuesAssumption DEF Value
  <2>3. /\ limits.min # Null => bounds[1] = limits.min * Scale
        /\ limits.max # Null => bounds[2] = limits.max * Scale
    BY <1>0, <1>17 DEF Offered, Set
  <2>4. setting' # Null =>
          /\ bounds[1] # Null => bounds[1] <= setting'
          /\ bounds[2] # Null => setting' <= bounds[2]
    BY <1>17 DEF Set
  <2>5. UNCHANGED <<limits, row, bounds, wanted, value>>
    BY <1>17 DEF Set
  <2>6. QED
    BY <1>0, <2>2, <2>3, <2>4, <2>5 DEF Offered
<1>18. CASE Write
  <2>1. setting' = NoRow /\ UNCHANGED <<limits, row, bounds>>
    BY <1>18 DEF Write
  <2>2. \/ value' = ToWire(setting) /\ wanted' = setting
        \/ UNCHANGED <<value, wanted>>
    BY <1>18 DEF Write
  <2>3. QED
    BY <1>0, <2>1, <2>2 DEF Offered
<1>19. QED
  BY <1>1, <1>2, <1>3, <1>4, <1>5, <1>6, <1>7, <1>8, <1>9, <1>10, <1>11, <1>12,
     <1>13, <1>14, <1>15, <1>16, <1>17, <1>18 DEF Next

-------------------------------------------------------------------------------
\* What the device, matterjs-server, the client and the Hub have of the value fits
\* together, at every step of a pairing, a sync, a loss and a set.
THEOREM InvHolds == Spec => []Inv
<1>1. Init => Inv
  BY InitInv
<1>2. Inv /\ [Next]_vars => Inv'
  <2>1. CASE Next
    BY <2>1, TypeStep, LifeStep, MessagesStep, FollowedStep, ToldStep, OfferedStep
    DEF Inv
  <2>2. CASE UNCHANGED vars
    BY <2>2 DEF vars, Inv, TypeOK, Life, Messages, Followed, Told, Offered
  <2>3. QED
    BY <2>1, <2>2
<1>3. QED
  BY <1>1, <1>2, PTL DEF Spec

\* The variables keep their types.
THEOREM TypeCorrect == Spec => []TypeOK
<1>1. Inv => TypeOK
  BY DEF Inv
<1>2. QED
  BY <1>1, InvHolds, PTL

\* With nothing on its way, the newest value is the one shown.
LEMMA CurrentAtRest == Inv => HubIsCurrent
<1> SUFFICES ASSUME Inv, Quiet, row # NoRow, ~stale
             PROVE  row = AttributeValue(value)
  BY DEF HubIsCurrent
<1>1. row = AttributeValue(cached)
  BY DEF Inv, Told, Quiet
<1>2. fabric = "announced"
  BY DEF Inv, Life
<1>3. cached = value
  BY <1>2 DEF Inv, Messages, Quiet
<1>4. QED
  BY <1>1, <1>3

\* Once what is on its way has arrived, the Hub shows the device's value, whatever
\* the scale, the range and the number of changes and losses.
THEOREM HubShowsTheValue == Spec => []HubIsCurrent
<1>1. QED
  BY CurrentAtRest, InvHolds, PTL

\* What the Hub set is what it shows, but for the rounding.
THEOREM SetsAreShown == Spec => []SetIsShown
<1>1. Inv => HubIsCurrent
  BY CurrentAtRest
<1>2. Inv => SetIsShown
  <2> SUFFICES ASSUME Inv, Quiet, row # NoRow, ~stale, wanted # NoRow
               PROVE  IF wanted = Null THEN row = Null
                      ELSE row # Null /\ 2 * row - Scale <= 2 * wanted
                           /\ 2 * wanted <= 2 * row + Scale
    BY DEF SetIsShown
  <2>1. row = AttributeValue(value) /\ value = ToWire(wanted)
    BY <1>1 DEF Inv, Offered, HubIsCurrent
  <2>2. CASE wanted = Null
    BY <2>1, <2>2 DEF AttributeValue, ToWire
  <2>3. CASE wanted # Null
    <3>1. wanted \in Int
      <4>1. TypeMin * Scale \in Int /\ TypeMax * Scale \in Int
        BY ValuesAssumption, ScaleAssumption
      <4>2. QED
        BY <2>3, <4>1 DEF Inv, TypeOK, Settable
    <3>2. /\ value = Rounded(wanted) /\ Rounded(wanted) \in Int
          /\ 2 * wanted - Scale <= 2 * (Rounded(wanted) * Scale)
          /\ 2 * (Rounded(wanted) * Scale) <= 2 * wanted + Scale
      BY <2>1, <2>3, <3>1, RoundedIsNear DEF ToWire
    <3>3. row = Rounded(wanted) * Scale /\ Rounded(wanted) * Scale \in Int
      BY <2>1, <3>2, ScaleAssumption, ValuesAssumption DEF AttributeValue
    <3>4. QED
      BY <2>3, <3>1, <3>2, <3>3, ScaleAssumption, ValuesAssumption
  <2>4. QED
    BY <2>2, <2>3
<1>3. QED
  BY <1>2, InvHolds, PTL

\* Within the bounds the Hub has, nothing outside of the limits the device names
\* is sent, whatever the scale and the limits.
THEOREM SentAreInLimits == Spec => []SentIsInLimits
<1>1. Inv => SentIsInLimits
  BY SettingIsInLimits DEF Inv
<1>2. QED
  BY <1>1, InvHolds, PTL

\* An update in whatever order does not end the listening.
THEOREM ListeningGoesOn == Spec => []ListensOn
<1>1. Inv => ListensOn
  BY ValuesAssumption DEF Inv, Life, ListensOn, TypeOK
<1>2. QED
  BY <1>1, InvHolds, PTL

===============================================================================
