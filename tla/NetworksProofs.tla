---------------------------- MODULE NetworksProofs ----------------------------
(* What is proved of Networks for any number of networks, hooks and losses.  *)
EXTENDS Networks, SequenceTheorems, TLAPS

\* Calls wait on a connection that is current, which is one that is synced or
\* listened to
Current ==
  /\ client = "live" => pc \in {"handover", "synced", "listen"}
  /\ wire # <<>> => client = "live"

\* Each is of a hand-over of its own, which waits for it
Owned ==
  /\ \A i \in 1..Len(wire) : task[wire[i].by] = wire[i].kind
  /\ \A i, j \in 1..Len(wire) : wire[i].by = wire[j].by => i = j

\* The last call for a kind asks to take the network the hub has
LastAsked(k) ==
  \E i \in 1..Len(wire) :
    /\ wire[i].kind = k /\ wire[i].network = facts[k]
    /\ \A j \in 1..Len(wire) : j > i => wire[j].kind # k

\* What will have the network of a kind handed over: a hand-over that begins, for
\* the Thread network a Wi-Fi's that is taken, or the last call for it; or it was
Pending(k) ==
  \/ \E t \in Task : task[t] = "begin"
  \/ /\ k = "thread"
     /\ \E i \in 1..Len(wire) :
          wire[i].kind = "wifi" /\ wire[i].network \notin bad["wifi"]
  \/ LastAsked(k)
  \/ held[k] = facts[k] /\ \A i \in 1..Len(wire) : wire[i].kind # k

NothingForgotten ==
  client = "live" /\ Taken =>
    \A k \in Kind : facts[k] # NoNetwork => Pending(k)

Inv == TypeOK /\ Current /\ Owned /\ NothingForgotten

\* A call that waits, and who waits for it
LEMMA WaitingCalls ==
  ASSUME NEW s \in Seq(Call)
  PROVE  /\ Len(s) \in Nat
         /\ \A i \in 1..Len(s) : s[i].by \in Task /\ s[i].kind \in Kind
<1>1. \A i \in 1..Len(s) : s[i] \in Call
  BY ElementOfSeq
<1>2. QED
  BY <1>1, LenProperties DEF Call

\* The invariant holds before the start.
LEMMA InitInv == Init => Inv
<1> SUFFICES ASSUME Init PROVE Inv
  OBVIOUS
<1> USE DEF Init
<1>1. TypeOK
  BY NetworksAssumption, EmptySeq
  DEF TypeOK, Kind, Task, Version, NoNetwork
<1>2. Current
  BY DEF Current
<1>3. Owned
  BY DEF Owned
<1>4. NothingForgotten
  BY DEF NothingForgotten
<1>5. QED
  BY <1>1, <1>2, <1>3, <1>4 DEF Inv

\* What Ask, HandThread and HandOver make of the calls that wait
LEMMA AskType ==
  ASSUME TypeOK, NEW t \in Task, NEW kind \in Kind, NEW rest \in Seq(Call),
         facts[kind] \in Version, Ask(t, kind, rest)
  PROVE  /\ task' \in [Task -> {"idle", "begin"} \cup Kind]
         /\ wire' \in Seq(Call)
         /\ pc' \in {pc, "synced"}
<1>1. [by |-> t, kind |-> kind, network |-> facts[kind]] \in Call
  BY DEF Call
<1>2. Append(rest, [by |-> t, kind |-> kind, network |-> facts[kind]]) \in Seq(Call)
  BY <1>1, AppendProperties
<1>3. QED
  BY <1>2 DEF Ask, Over, TypeOK

\* The second half of a hand-over keeps the types.
LEMMA HandThreadType ==
  ASSUME TypeOK, NEW t \in Task, NEW rest \in Seq(Call), HandThread(t, rest)
  PROVE  /\ task' \in [Task -> {"idle", "begin"} \cup Kind]
         /\ wire' \in Seq(Call)
         /\ pc' \in {pc, "synced"}
<1>1. "thread" \in Kind /\ facts["thread"] \in {NoNetwork} \cup Version
  BY DEF TypeOK, Kind
<1>2. CASE facts["thread"] # NoNetwork
  <2>1. Ask(t, "thread", rest)
    BY <1>2 DEF HandThread
  <2>2. QED
    BY <1>1, <1>2, <2>1, AskType
<1>3. CASE facts["thread"] = NoNetwork
  BY <1>3 DEF HandThread, Over, TypeOK
<1>4. QED
  BY <1>2, <1>3

\* The call at the head of those that wait
LEMMA HeadCall ==
  ASSUME TypeOK, wire # <<>>
  PROVE  /\ Head(wire) \in Call
         /\ Head(wire) = wire[1]
         /\ Tail(wire) \in Seq(Call)
         /\ Len(wire) \in Nat \ {0}
         /\ Len(Tail(wire)) = Len(wire) - 1
         /\ \A i \in 1..Len(Tail(wire)) : Tail(wire)[i] = wire[i + 1]
<1>1. wire \in Seq(Call)
  BY DEF TypeOK
<1>2. QED
  BY <1>1, HeadTailProperties, LenProperties, EmptySeq

\* A step keeps the types
LEMMA TypeStep == TypeOK /\ [Next]_vars => TypeOK'
<1> SUFFICES ASSUME TypeOK, [Next]_vars PROVE TypeOK'
  OBVIOUS
<1> USE DEF platform, matterjs
<1>1. ASSUME NEW t \in Task, HandOver(t) PROVE TypeOK'
  <2>1. wire \in Seq(Call) /\ "wifi" \in Kind /\ facts["wifi"] \in {NoNetwork} \cup Version
    BY DEF TypeOK, Kind
  <2>2. CASE client # "none" /\ facts["wifi"] # NoNetwork
    <3>1. Ask(t, "wifi", wire)
      BY <1>1, <2>2 DEF HandOver
    <3>2. QED
      BY <1>1, <2>1, <2>2, <3>1, AskType DEF HandOver, TypeOK
  <2>3. CASE ~(client # "none" /\ facts["wifi"] # NoNetwork)
    <3>1. HandThread(t, wire)
      BY <1>1, <2>3 DEF HandOver
    <3>2. QED
      BY <1>1, <2>1, <3>1, HandThreadType DEF HandOver, TypeOK
  <2>4. QED
    BY <2>2, <2>3
<1>2. CASE Serve
  <2> DEFINE call == Head(wire)
  <2>1. call \in Call /\ Tail(wire) \in Seq(Call)
    BY <1>2, HeadCall DEF Serve
  <2>2. call.by \in Task /\ call.kind \in Kind /\ call.network \in Version
    BY <2>1 DEF Call
  <2>3. CASE call.network \in bad[call.kind]
    BY <1>2, <2>1, <2>2, <2>3 DEF Serve, Over, TypeOK
  <2>4. CASE call.network \notin bad[call.kind] /\ call.kind = "wifi"
    <3>1. HandThread(call.by, Tail(wire))
      BY <1>2, <2>4 DEF Serve
    <3>2. QED
      BY <1>2, <2>1, <2>2, <2>4, <3>1, HandThreadType DEF Serve, TypeOK
  <2>5. CASE call.network \notin bad[call.kind] /\ call.kind # "wifi"
    BY <1>2, <2>1, <2>2, <2>5 DEF Serve, Over, TypeOK
  <2>6. QED
    BY <2>3, <2>4, <2>5
<1>3. ASSUME NEW k \in Kind, FactsChange(k) PROVE TypeOK'
  <2>1. facts' \in [Kind -> {NoNetwork} \cup Version] /\ latest' \in [Kind -> 0..Versions]
    <3>1. latest[k] \in 0..Versions
      BY DEF TypeOK
    <3>2. latest[k] < Versions => latest[k] + 1 \in Version /\ latest[k] + 1 \in 0..Versions
      BY <3>1, NetworksAssumption DEF Version
    <3>3. CASE latest[k] < Versions /\ latest' = [latest EXCEPT ![k] = @ + 1]
                 /\ facts' = [facts EXCEPT ![k] = latest'[k]]
      <4>1. latest'[k] = latest[k] + 1
        BY <3>3 DEF TypeOK
      <4>2. QED
        BY <3>2, <3>3, <4>1 DEF TypeOK
    <3>4. CASE facts' = [facts EXCEPT ![k] = NoNetwork] /\ UNCHANGED latest
      BY <3>4 DEF TypeOK
    <3>5. QED
      BY <1>3, <3>3, <3>4 DEF FactsChange, NewFacts
  <2>2. task' \in [Task -> {"idle", "begin"} \cup Kind]
    BY <1>3 DEF FactsChange, TypeOK, Task
  <2>3. QED
    BY <1>3, <2>1, <2>2 DEF FactsChange, TypeOK
<1>4. CASE Open
  BY <1>4 DEF Open, TypeOK
<1>5. CASE Ready
  BY <1>5 DEF Ready, TypeOK, Task
<1>6. CASE Synced
  BY <1>6 DEF Synced, TypeOK
<1>7. CASE Lost
  BY <1>7 DEF Lost, TypeOK
<1>8. CASE GoAway
  <2>1. held' \in [Kind -> {NoNetwork} \cup Version]
    BY <1>8 DEF GoAway, TypeOK
  <2>2. losses' \in 0..Losses
    BY <1>8, NetworksAssumption DEF GoAway, TypeOK
  <2>3. task' \in [Task -> {"idle", "begin"} \cup Kind] /\ wire' \in Seq(Call)
    BY <1>8, EmptySeq DEF GoAway, TypeOK
  <2>4. pc' \in {pc, "stopped", "away", "synced"} /\ client' \in {client, "lost"}
    BY <1>8 DEF GoAway
  <2>5. QED
    BY <1>8, <2>1, <2>2, <2>3, <2>4 DEF GoAway, TypeOK
<1>9. CASE ComeBack
  BY <1>9 DEF ComeBack, TypeOK
<1>10. CASE Stop
  BY <1>10, EmptySeq DEF Stop, TypeOK
<1>11. CASE UNCHANGED vars
  BY <1>11 DEF vars, TypeOK
<1>12. QED
  BY <1>1, <1>2, <1>3, <1>4, <1>5, <1>6, <1>7, <1>8, <1>9, <1>10, <1>11
  DEF Next, Connection

\* A step keeps calls to the connection that is current
LEMMA CurrentStep == TypeOK /\ Current /\ [Next]_vars => Current'
<1> SUFFICES ASSUME TypeOK, Current, [Next]_vars PROVE Current'
  OBVIOUS
<1> USE DEF Current, platform, matterjs
<1>1. ASSUME NEW t \in Task, HandOver(t) PROVE Current'
  BY <1>1 DEF HandOver, HandThread, Ask, Over
<1>2. CASE Serve
  <2>1. client = "live" /\ pc' \in {pc, "synced"}
    BY <1>2 DEF Serve, HandThread, Ask, Over
  <2>2. QED
    BY <1>2, <2>1 DEF Serve
<1>3. ASSUME NEW k \in Kind, FactsChange(k) PROVE Current'
  BY <1>3 DEF FactsChange
<1>4. CASE Open \/ Ready \/ Synced \/ Lost
  BY <1>4 DEF Open, Ready, Synced, Lost
<1>5. CASE GoAway
  BY <1>5 DEF GoAway
<1>6. CASE ComeBack \/ Stop
  BY <1>6 DEF ComeBack, Stop
<1>7. CASE UNCHANGED vars
  BY <1>7 DEF vars
<1>8. QED
  BY <1>1, <1>2, <1>3, <1>4, <1>5, <1>6, <1>7 DEF Next, Connection

\* The calls that wait once the hand-over t asks on a connection
LEMMA AskWire ==
  ASSUME TypeOK, NEW t \in Task, NEW kind \in Kind, NEW rest \in Seq(Call),
         facts[kind] \in Version, Ask(t, kind, rest), client = "live"
  PROVE  /\ Len(wire') = Len(rest) + 1 /\ Len(rest) \in Nat
         /\ \A i \in 1..Len(rest) : wire'[i] = rest[i] /\ rest[i] \in Call
         /\ wire'[Len(rest) + 1] =
              [by |-> t, kind |-> kind, network |-> facts[kind]]
         /\ task' = [task EXCEPT ![t] = kind]
<1> DEFINE e == [by |-> t, kind |-> kind, network |-> facts[kind]]
<1>1. e \in Call
  BY DEF Call
<1>2. wire' = Append(rest, e) /\ task' = [task EXCEPT ![t] = kind]
  BY DEF Ask
<1>3. QED
  BY <1>1, <1>2, AppendProperties, LenProperties, ElementOfSeq

\* They are owned if none was t's
LEMMA AskOwned ==
  ASSUME TypeOK, NEW t \in Task, NEW kind \in Kind, NEW rest \in Seq(Call),
         facts[kind] \in Version, Ask(t, kind, rest), client = "live",
         \A i \in 1..Len(rest) : rest[i].by # t /\ task[rest[i].by] = rest[i].kind,
         \A i, j \in 1..Len(rest) : rest[i].by = rest[j].by => i = j
  PROVE  Owned'
<1> DEFINE e == [by |-> t, kind |-> kind, network |-> facts[kind]]
<1>1. e.by = t /\ e.kind = kind
  OBVIOUS
<1>2. task' = [task EXCEPT ![t] = kind]
  BY AskWire
<1>3. /\ Len(wire') = Len(rest) + 1 /\ Len(rest) \in Nat
      /\ \A i \in 1..Len(rest) : wire'[i] = rest[i] /\ rest[i] \in Call
      /\ wire'[Len(rest) + 1] = e
  BY AskWire
<1>4. \A i \in 1..Len(wire') : i \in 1..Len(rest) \/ i = Len(rest) + 1
  BY <1>3
<1>5. \A i \in 1..Len(wire') : task'[wire'[i].by] = wire'[i].kind
  <2> SUFFICES ASSUME NEW i \in 1..Len(wire') PROVE task'[wire'[i].by] = wire'[i].kind
    OBVIOUS
  <2>1. CASE i \in 1..Len(rest)
    <3>1. rest[i].by \in Task
      BY <1>3, <2>1 DEF Call
    <3>2. QED
      BY <1>2, <1>3, <2>1, <3>1 DEF TypeOK
  <2>2. CASE i = Len(rest) + 1
    BY <1>1, <1>2, <1>3, <2>2 DEF TypeOK
  <2>3. QED
    BY <1>4, <2>1, <2>2
<1>6. \A i, j \in 1..Len(wire') : wire'[i].by = wire'[j].by => i = j
  BY <1>1, <1>3, <1>4
<1>7. QED
  BY <1>5, <1>6 DEF Owned

\* A step keeps each call with the hand-over that waits for it
LEMMA OwnedStep == TypeOK /\ Current /\ Owned /\ [Next]_vars => Owned'
<1> SUFFICES ASSUME TypeOK, Current, Owned, [Next]_vars PROVE Owned'
  OBVIOUS
<1> USE DEF platform, matterjs
<1>1. ASSUME NEW t \in Task, task[t] = "begin"
      PROVE  /\ wire \in Seq(Call)
             /\ \A i \in 1..Len(wire) : wire[i].by # t /\ task[wire[i].by] = wire[i].kind
             /\ \A i, j \in 1..Len(wire) : wire[i].by = wire[j].by => i = j
  <2>1. wire \in Seq(Call)
    BY DEF TypeOK
  <2>2. \A i \in 1..Len(wire) : wire[i].kind \in Kind
    BY <2>1, WaitingCalls
  <2>3. QED
    BY <1>1, <2>1, <2>2 DEF Owned, Kind
<1>2. ASSUME NEW t \in Task, HandOver(t) PROVE Owned'
  <2>1. task[t] = "begin"
    BY <1>2 DEF HandOver
  <2>2. "wifi" \in Kind /\ "thread" \in Kind
    BY DEF Kind
  <2>3. \A k \in Kind : facts[k] # NoNetwork => facts[k] \in Version
    BY DEF TypeOK
  <2>4. ASSUME NEW k \in Kind, facts[k] # NoNetwork, Ask(t, k, wire) PROVE Owned'
    <3>1. CASE client = "live"
      BY <1>1, <2>1, <2>3, <2>4, <3>1, AskOwned
    <3>2. CASE client # "live"
      BY <2>4, <3>2 DEF Ask, Current, Owned
    <3>3. QED
      BY <3>1, <3>2
  <2>5. CASE UNCHANGED wire /\ Over(t)
    <3>1. \A i \in 1..Len(wire) : wire[i].by # t
      BY <1>1, <2>1
    <3>2. \A i \in 1..Len(wire) : wire[i].by \in Task
      BY WaitingCalls DEF TypeOK
    <3>3. QED
      BY <2>5, <3>1, <3>2 DEF Over, Owned, TypeOK
  <2>6. QED
    BY <1>2, <2>2, <2>4, <2>5 DEF HandOver, HandThread
<1>3. CASE Serve
  <2> DEFINE call == Head(wire)
  <2>1. /\ wire # <<>> /\ client = "live"
        /\ call \in Call /\ call = wire[1]
        /\ Tail(wire) \in Seq(Call) /\ Len(wire) \in Nat \ {0}
        /\ Len(Tail(wire)) = Len(wire) - 1
        /\ \A i \in 1..Len(Tail(wire)) : Tail(wire)[i] = wire[i + 1]
    BY <1>3, HeadCall DEF Serve, Current
  <2>2. call.by \in Task
    BY <2>1 DEF Call
  <2>3. \A i \in 1..Len(Tail(wire)) :
          /\ i + 1 \in 1..Len(wire) /\ 1 \in 1..Len(wire) /\ i + 1 # 1
          /\ Tail(wire)[i] \in Call
    BY <2>1, ElementOfSeq
  <2>4. \A i \in 1..Len(Tail(wire)) :
          /\ Tail(wire)[i].by # call.by
          /\ task[Tail(wire)[i].by] = Tail(wire)[i].kind
    BY <2>1, <2>3 DEF Owned
  <2>5. \A i, j \in 1..Len(Tail(wire)) : Tail(wire)[i].by = Tail(wire)[j].by => i = j
    <3> SUFFICES ASSUME NEW i \in 1..Len(Tail(wire)), NEW j \in 1..Len(Tail(wire)),
                        Tail(wire)[i].by = Tail(wire)[j].by
                 PROVE  i = j
      OBVIOUS
    <3>1. i + 1 = j + 1
      BY <2>1, <2>3 DEF Owned
    <3>2. QED
      BY <3>1
  <2>6. CASE Over(call.by) /\ wire' = Tail(wire)
    <3>1. \A i \in 1..Len(Tail(wire)) : Tail(wire)[i].by \in Task
      BY <2>3 DEF Call
    <3>2. QED
      BY <2>2, <2>4, <2>5, <2>6, <3>1 DEF Over, Owned, TypeOK
  <2>7. CASE HandThread(call.by, Tail(wire))
    <3>1. CASE facts["thread"] # NoNetwork
      <4>1. facts["thread"] \in Version /\ "thread" \in Kind
        BY <3>1 DEF TypeOK, Kind
      <4>2. Ask(call.by, "thread", Tail(wire))
        BY <2>7, <3>1 DEF HandThread
      <4>3. QED
        BY <2>1, <2>2, <2>4, <2>5, <4>1, <4>2, AskOwned
    <3>2. CASE facts["thread"] = NoNetwork
      BY <2>6, <2>7, <3>2 DEF HandThread
    <3>3. QED
      BY <3>1, <3>2
  <2>8. QED
    BY <1>3, <2>6, <2>7 DEF Serve
<1>4. ASSUME NEW k \in Kind, FactsChange(k) PROVE Owned'
  <2>1. CASE UNCHANGED task
    BY <1>4, <2>1 DEF FactsChange, Owned
  <2>2. ASSUME NEW t \in Hook, task[t] = "idle", task' = [task EXCEPT ![t] = "begin"]
        PROVE  Owned'
    <3>1. \A i \in 1..Len(wire) : wire[i].kind \in Kind /\ wire[i].by \in Task
      BY WaitingCalls DEF TypeOK
    <3>2. \A i \in 1..Len(wire) : wire[i].by # t
      BY <2>2, <3>1 DEF Owned, Kind
    <3>3. QED
      BY <1>4, <2>2, <3>1, <3>2 DEF FactsChange, Owned, TypeOK
  <2>3. QED
    BY <1>4, <2>1, <2>2 DEF FactsChange
<1>5. CASE Open \/ Synced \/ Lost \/ ComeBack
  BY <1>5 DEF Open, Synced, Lost, ComeBack, Owned
<1>6. CASE Ready
  <2>1. wire = <<>>
    BY <1>6 DEF Ready, Current
  <2>2. QED
    BY <1>6, <2>1 DEF Ready, Owned
<1>7. CASE GoAway \/ Stop
  BY <1>7 DEF GoAway, Stop, Owned
<1>8. CASE UNCHANGED vars
  BY <1>8 DEF vars, Owned
<1>9. QED
  BY <1>2, <1>3, <1>4, <1>5, <1>6, <1>7, <1>8 DEF Next, Connection

\* What was asked last is asked for the network the hub has
LEMMA AskIsLast ==
  ASSUME TypeOK, NEW t \in Task, NEW kind \in Kind, NEW rest \in Seq(Call),
         facts[kind] \in Version, Ask(t, kind, rest), client = "live",
         UNCHANGED facts
  PROVE  LastAsked(kind)'
<1>1. /\ Len(rest) + 1 \in 1..Len(wire')
      /\ \A j \in 1..Len(wire') : ~(j > Len(rest) + 1)
      /\ wire'[Len(rest) + 1] =
           [by |-> t, kind |-> kind, network |-> facts[kind]]
  BY AskWire
<1>2. QED
  BY <1>1 DEF LastAsked

\* A step leaves no network of the hub without what hands it over
LEMMA ForgottenStep == Inv /\ [Next]_vars => NothingForgotten'
<1> SUFFICES ASSUME Inv, [Next]_vars, client' = "live", Taken',
                    NEW k \in Kind, facts'[k] # NoNetwork
             PROVE  Pending(k)'
  BY DEF NothingForgotten
<1> USE DEF Inv, platform, matterjs
<1>1. ASSUME NEW t \in Task, HandOver(t) PROVE Pending(k)'
  <2>1. /\ client = "live" /\ Taken /\ facts[k] # NoNetwork
        /\ UNCHANGED <<facts, bad, held>>
    BY <1>1 DEF HandOver, Taken
  <2>2. /\ wire \in Seq(Call) /\ "wifi" \in Kind /\ "thread" \in Kind
        /\ \A n \in Kind : facts[n] # NoNetwork => facts[n] \in Version
    BY DEF TypeOK, Kind
  <2>3. CASE facts["wifi"] # NoNetwork
    <3>1. Ask(t, "wifi", wire)
      BY <1>1, <2>1, <2>3 DEF HandOver
    <3>2. CASE k = "wifi"
      BY <2>1, <2>2, <2>3, <3>1, <3>2, AskIsLast DEF Pending
    <3>3. CASE k = "thread"
      <4>1. /\ Len(wire) + 1 \in 1..Len(wire')
            /\ wire'[Len(wire) + 1] =
                 [by |-> t, kind |-> "wifi", network |-> facts["wifi"]]
        BY <2>1, <2>2, <2>3, <3>1, AskWire
      <4>2. facts["wifi"] \notin bad'["wifi"]
        BY <2>1, <2>2 DEF Taken
      <4>3. QED
        BY <3>3, <4>1, <4>2 DEF Pending
    <3>4. QED
      BY <3>2, <3>3 DEF Kind
  <2>4. CASE facts["wifi"] = NoNetwork
    <3>1. k = "thread" /\ Ask(t, "thread", wire)
      BY <1>1, <2>1, <2>4 DEF HandOver, HandThread, Kind
    <3>2. QED
      BY <2>1, <2>2, <3>1, AskIsLast DEF Pending
  <2>5. QED
    BY <2>3, <2>4
<1>2. CASE Serve
  <2> DEFINE call == Head(wire)
  <2> DEFINE rest == Tail(wire)
  <2>1. /\ wire # <<>> /\ call = wire[1] /\ call \in Call
        /\ rest \in Seq(Call) /\ Len(wire) \in Nat \ {0}
        /\ Len(rest) = Len(wire) - 1
        /\ \A i \in 1..Len(rest) : rest[i] = wire[i + 1]
    BY <1>2, HeadCall DEF Serve
  <2>2. /\ client = "live" /\ Taken /\ facts[k] # NoNetwork
        /\ UNCHANGED <<facts, bad>>
    BY <1>2 DEF Serve, Taken
  <2>3. /\ call.by \in Task /\ call.kind \in Kind
        /\ "thread" \in Kind /\ facts["thread"] \in {NoNetwork} \cup Version
        /\ task[call.by] = call.kind
    BY <2>1 DEF Call, TypeOK, Kind, Owned
  <2>4. Pending(k)
    BY <2>2 DEF NothingForgotten
  <2>5. \/ Over(call.by) /\ wire' = rest
        \/ Ask(call.by, "thread", rest) /\ facts["thread"] # NoNetwork
    BY <1>2 DEF Serve, HandThread
  <2>6. CASE Ask(call.by, "thread", rest) /\ facts["thread"] # NoNetwork /\ k = "thread"
    BY <2>1, <2>2, <2>3, <2>6, AskIsLast DEF Pending
  <2>7. CASE ~(Ask(call.by, "thread", rest) /\ facts["thread"] # NoNetwork /\ k = "thread")
    <3>1. /\ \A i \in 1..Len(rest) : i \in 1..Len(wire') /\ wire'[i] = wire[i + 1]
          /\ \A i \in 1..Len(wire') :
               i \in 1..Len(rest) \/ (i = Len(rest) + 1 /\ wire'[i].kind # k)
          /\ \A t \in Task : t # call.by => task'[t] = task[t]
      <4>1. CASE Over(call.by) /\ wire' = rest
        BY <2>1, <4>1 DEF Over, TypeOK
      <4>2. CASE Ask(call.by, "thread", rest) /\ facts["thread"] # NoNetwork
        <5>1. /\ Len(wire') = Len(rest) + 1 /\ Len(rest) \in Nat
              /\ \A i \in 1..Len(rest) : wire'[i] = rest[i]
              /\ wire'[Len(rest) + 1] =
                   [by |-> call.by, kind |-> "thread", network |-> facts["thread"]]
              /\ task' = [task EXCEPT ![call.by] = "thread"]
          <6>1. /\ TypeOK /\ call.by \in Task /\ "thread" \in Kind
                /\ rest \in Seq(Call) /\ client = "live"
                /\ facts["thread"] \in Version /\ Ask(call.by, "thread", rest)
            BY <2>1, <2>2, <2>3, <4>2
          <6> HIDE DEF call, rest
          <6>2. QED
            BY <6>1, AskWire
        <5>2. wire'[Len(rest) + 1].kind # k
          BY <2>7, <4>2, <5>1
        <5>3. \A i \in 1..Len(rest) : i \in 1..Len(wire') /\ wire'[i] = wire[i + 1]
          BY <2>1, <5>1
        <5>4. \A i \in 1..Len(wire') :
                i \in 1..Len(rest) \/ (i = Len(rest) + 1 /\ wire'[i].kind # k)
          BY <5>1, <5>2
        <5>5. \A t \in Task : t # call.by => task'[t] = task[t]
          BY <5>1 DEF TypeOK
        <5>6. QED
          BY <5>3, <5>4, <5>5
      <4>3. QED
        BY <2>5, <4>1, <4>2
    <3>2. CASE \E t \in Task : task[t] = "begin"
      <4>1. PICK t \in Task : task[t] = "begin"
        BY <3>2
      <4>2. t # call.by
        BY <2>3, <4>1 DEF Kind
      <4>3. QED
        BY <3>1, <4>1, <4>2 DEF Pending
    <3>3. ASSUME k = "thread", NEW i \in 1..Len(wire), wire[i].kind = "wifi",
                 wire[i].network \notin bad["wifi"]
          PROVE  Pending(k)'
      <4>1. CASE i = 1
        BY <1>2, <2>1, <2>2, <2>7, <3>3, <4>1 DEF Serve, HandThread
      <4>2. CASE i # 1
        <5>1. i - 1 \in 1..Len(rest) /\ (i - 1) + 1 = i
          BY <2>1, <4>2
        <5>2. i - 1 \in 1..Len(wire') /\ wire'[i - 1] = wire[i]
          BY <3>1, <5>1
        <5>3. QED
          BY <2>2, <3>3, <5>2 DEF Pending
      <4>3. QED
        BY <4>1, <4>2
    <3>4. ASSUME NEW i \in 1..Len(wire), wire[i].kind = k, wire[i].network = facts[k],
                 \A j \in 1..Len(wire) : j > i => wire[j].kind # k
          PROVE  Pending(k)'
      <4>1. CASE i = 1
        <5>1. held'[k] = facts[k]
          BY <1>2, <2>1, <2>2, <3>4, <4>1 DEF Serve, Taken, TypeOK
        <5>2. \A j \in 1..Len(rest) : j + 1 \in 1..Len(wire) /\ j + 1 > 1
          BY <2>1
        <5>3. \A j \in 1..Len(wire') : wire'[j].kind # k
          BY <3>1, <3>4, <4>1, <5>2
        <5>4. QED
          BY <2>2, <5>1, <5>3 DEF Pending
      <4>2. CASE i # 1
        <5>1. i - 1 \in 1..Len(rest) /\ (i - 1) + 1 = i
          BY <2>1, <4>2
        <5>2. i - 1 \in 1..Len(wire') /\ wire'[i - 1] = wire[i]
          BY <3>1, <5>1
        <5>3. \A j \in 1..Len(wire') : j > i - 1 => wire'[j].kind # k
          <6> SUFFICES ASSUME NEW j \in 1..Len(wire'), j > i - 1
                       PROVE  wire'[j].kind # k
            OBVIOUS
          <6>1. CASE j \in 1..Len(rest)
            <7>1. j + 1 \in 1..Len(wire) /\ j + 1 > i
              BY <2>1, <6>1
            <7>2. QED
              BY <3>1, <3>4, <6>1, <7>1
          <6>2. QED
            BY <3>1, <6>1
        <5>4. QED
          BY <2>2, <3>4, <5>2, <5>3 DEF Pending, LastAsked
      <4>3. QED
        BY <4>1, <4>2
    <3>5. CASE held[k] = facts[k] /\ \A i \in 1..Len(wire) : wire[i].kind # k
      <4>1. 1 \in 1..Len(wire) /\ \A j \in 1..Len(rest) : j + 1 \in 1..Len(wire)
        BY <2>1
      <4>2. held'[k] = facts[k]
        BY <1>2, <2>1, <3>5, <4>1 DEF Serve, TypeOK
      <4>3. \A j \in 1..Len(wire') : wire'[j].kind # k
        BY <3>1, <3>5, <4>1
      <4>4. QED
        BY <2>2, <4>2, <4>3 DEF Pending
    <3>6. QED
      BY <2>4, <3>2, <3>3, <3>4, <3>5 DEF Pending, LastAsked
  <2>8. QED
    BY <2>6, <2>7
<1>3. ASSUME NEW n \in Kind, FactsChange(n) PROVE Pending(k)'
  <2>1. pc # "stopped"
    BY <1>3 DEF FactsChange, Current
  <2>2. PICK t \in Hook : task' = [task EXCEPT ![t] = "begin"]
    BY <1>3, <2>1 DEF FactsChange
  <2>3. QED
    BY <2>2 DEF Pending, TypeOK, Task
<1>4. CASE Open \/ Synced \/ Lost \/ ComeBack \/ UNCHANGED vars
  <2>1. UNCHANGED <<facts, bad, held, client, task, wire>>
    BY <1>4 DEF Open, Synced, Lost, ComeBack, vars
  <2>2. Pending(k)
    BY <2>1 DEF NothingForgotten, Taken
  <2>3. QED
    BY <2>1, <2>2 DEF Pending, LastAsked
<1>5. CASE Ready
  BY <1>5 DEF Ready, Pending, TypeOK, Task
<1>6. CASE GoAway \/ Stop
  BY <1>6 DEF GoAway, Stop
<1>7. QED
  BY <1>1, <1>2, <1>3, <1>4, <1>5, <1>6 DEF Next, Connection

\* The invariant holds of every reachable state, whatever the numbers of hooks,
\* networks and losses.
THEOREM InvHolds == Spec => []Inv
<1>1. Inv /\ [Next]_vars => Inv'
  BY TypeStep, CurrentStep, OwnedStep, ForgottenStep DEF Inv
<1>2. QED
  BY InitInv, <1>1, PTL DEF Spec

\* The types of the hand-overs' state
THEOREM TypeCorrect == Spec => []TypeOK
<1>1. Inv => TypeOK
  BY DEF Inv
<1>2. QED
  BY <1>1, InvHolds, PTL

\* No call is on a connection whose node list is awaited
THEOREM NodeListsComeFirst == Spec => []NodeListFirst
<1>1. Inv => NodeListFirst
  BY DEF Inv, Current, NodeListFirst
<1>2. QED
  BY <1>1, InvHolds, PTL

\* Once no hand-over is under way, matterjs-server holds the hub's networks
THEOREM NetworksAreHandedOver == Spec => []NetworksHandedOver
<1>1. Inv => NetworksHandedOver
  <2> SUFFICES ASSUME Inv, pc = "listen", client = "live",
                      \A t \in Task : task[t] = "idle", Taken,
                      NEW k \in Kind, facts[k] # NoNetwork
               PROVE  held[k] = facts[k]
    BY DEF NetworksHandedOver, Handed
  <2>1. \A i \in 1..Len(wire) : FALSE
    <3>1. \A i \in 1..Len(wire) : wire[i].by \in Task /\ wire[i].kind \in Kind
      BY WaitingCalls DEF Inv, TypeOK
    <3>2. QED
      BY <3>1 DEF Inv, Owned, Kind
  <2>2. Pending(k)
    BY DEF Inv, NothingForgotten
  <2>3. QED
    BY <2>1, <2>2 DEF Pending, LastAsked
<1>2. QED
  BY <1>1, InvHolds, PTL

===============================================================================
