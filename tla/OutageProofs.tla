----------------------------- MODULE OutageProofs -----------------------------
(* What is proved of Outage for all durations.                               *)
EXTENDS Outage, TLAPS

Unreachable == "server-unreachable"

\* The code's own times are those of the outage, which it is in whenever it
\* tries to get over one
Times ==
  /\ since = outage
  /\ failed = noticed
  /\ noticed <= outage
  /\ starting => pc \in Connecting \cup {"syncing"}
  /\ pc \in Connecting \cup {"syncing", "losing", "sleep"} /\ ~starting =>
       outage >= 0

\* is_reported is what the Hub was told, until a sync or stop() resolved it
Reports ==
  /\ Unreachable \in errors =>
       reported /\ outage > UnreachableAfter /\ pc # "listen"
  /\ reported /\ pc \notin {"listen", "stopping", "stopped"} =>
       Unreachable \in errors
  /\ OutageIsReported

\* The delay is the first one until time passed in the outage, and time passes
\* before the first sleep is over
Delays ==
  /\ outage <= 0 => delay = Delay
  /\ pc = "sleep" /\ outage <= 0 => left = delay

Inv == TypeOK /\ Times /\ Reports /\ Delays /\ ListenerIsFollowed

\* An age grows with time, and no further than to its cap
LEMMA OlderType ==
  ASSUME NEW cap \in Nat, NEW age \in {None} \cup 0..cap
  PROVE  /\ Older(age, cap) \in {None} \cup 0..cap
         /\ age <= Older(age, cap)
  BY DEF Older, None

\* The ages of what did not happen yet, and of what just did
LEMMA AgeFacts ==
  /\ None \in OutageAge /\ 0 \in OutageAge
  /\ None \in HeldAge /\ 0 \in HeldAge
<1>1. 0 \in 0..Stable /\ 0 \in 0..(UnreachableAfter + 1)
  BY DurationsAssumption
<1>2. QED
  BY <1>1 DEF OutageAge, HeldAge

\* So are the delays from the first one on
LEMMA DelayFacts ==
  /\ Delay \in 1..DelayMax
  /\ \A d \in 1..DelayMax : d \in 0..DelayMax
  /\ 0 \in 0..DelayMax
  BY DurationsAssumption DEF Delay

\* The wait for the next attempt keeps the types.
LEMMA BackOffType ==
  ASSUME TypeOK, NEW age, BackOff(age)
  PROVE  /\ errors' \subseteq {Unreachable, "crashed"}
         /\ heard' \in BOOLEAN
         /\ reported' \in BOOLEAN
         /\ left' \in 0..DelayMax
         /\ pc' = "sleep"
  BY DelayFacts DEF TypeOK, BackOff, told, Unreachable

\* The invariant holds before the start.
LEMMA InitInv == Init => Inv
<1> SUFFICES ASSUME Init PROVE Inv
  OBVIOUS
<1> USE DurationsAssumption DEF Init
<1>1. TypeOK
  BY DelayFacts, AgeFacts DEF TypeOK, Pc
<1>2. Times
  BY DEF Times, Connecting, None
<1>3. Reports
  BY DEF Reports, OutageIsReported, Unreachable
<1>4. Delays
  BY DEF Delays
<1>5. ListenerIsFollowed
  BY DEF ListenerIsFollowed
<1>6. QED
  BY <1>1, <1>2, <1>3, <1>4, <1>5 DEF Inv

\* A step keeps the types
LEMMA TypeStep == TypeOK /\ [Next]_vars => TypeOK'
<1> SUFFICES ASSUME TypeOK, [Next]_vars PROVE TypeOK'
  OBVIOUS
<1> USE AgeFacts
<1> USE DEF TypeOK, Pc, Connecting, code, told, history
<1>1. CASE Tick
  BY <1>1, OlderType, DurationsAssumption DEF Tick, Urgent, OutageAge, HeldAge, None
<1>2. CASE GoAway
  BY <1>2 DEF GoAway
<1>3. CASE ComeBack
  BY <1>3 DEF ComeBack
<1>4. CASE Start
  BY <1>4, DelayFacts DEF Start
<1>5. CASE Open
  BY <1>5 DEF Open
<1>6. CASE NodeList
  BY <1>6 DEF NodeList
<1>7. CASE Connected
  BY <1>7 DEF Connected
<1>8. CASE ConnectFails
  BY <1>8, BackOffType DEF ConnectFails, Unreachable
<1>9. CASE SyncDone
  BY <1>9 DEF SyncDone
<1>10. CASE Lost
  BY <1>10, DelayFacts DEF Lost, IsNewOutage
<1>11. CASE DevicesLost
  BY <1>11, BackOffType DEF DevicesLost, Unreachable
<1>12. CASE Wake
  BY <1>12, DurationsAssumption DEF Wake
<1>13. CASE Breaks
  BY <1>13 DEF Breaks, Crash
<1>14. CASE Stop
  BY <1>14 DEF Stop
<1>15. CASE Stopped
  BY <1>15 DEF Stopped
<1>16. CASE UNCHANGED vars
  BY <1>16 DEF vars
<1>17. QED
  BY <1>1, <1>2, <1>3, <1>4, <1>5, <1>6, <1>7, <1>8, <1>9,
     <1>10, <1>11, <1>12, <1>13, <1>14, <1>15, <1>16
  DEF Next, Connection

\* A listener is started by a _connect that has none, and taken over or ended wherever
\* the code goes on from there
LEMMA ListenerStep == ListenerIsFollowed /\ [Next]_vars => ListenerIsFollowed'
<1> SUFFICES ASSUME ListenerIsFollowed, [Next]_vars PROVE ListenerIsFollowed'
  OBVIOUS
<1> USE DEF ListenerIsFollowed
<1>1. CASE Tick
  BY <1>1 DEF Tick, Urgent
<1>2. CASE GoAway
  BY <1>2 DEF GoAway
<1>3. CASE ComeBack
  BY <1>3 DEF ComeBack
<1>4. CASE Start
  BY <1>4 DEF Start
<1>5. CASE Open
  BY <1>5 DEF Open
<1>6. CASE NodeList
  BY <1>6 DEF NodeList
<1>7. CASE Connected
  BY <1>7 DEF Connected
<1>8. CASE ConnectFails
  BY <1>8 DEF ConnectFails, BackOff
<1>9. CASE SyncDone
  BY <1>9 DEF SyncDone
<1>10. CASE Lost
  BY <1>10 DEF Lost, IsNewOutage
<1>11. CASE DevicesLost
  BY <1>11 DEF DevicesLost, BackOff
<1>12. CASE Wake
  BY <1>12 DEF Wake
<1>13. CASE Breaks
  BY <1>13 DEF Breaks, Crash
<1>14. CASE Stop
  BY <1>14 DEF Stop
<1>15. CASE Stopped
  BY <1>15 DEF Stopped
<1>16. CASE UNCHANGED vars
  BY <1>16 DEF vars
<1>17. QED
  BY <1>1, <1>2, <1>3, <1>4, <1>5, <1>6, <1>7, <1>8, <1>9,
     <1>10, <1>11, <1>12, <1>13, <1>14, <1>15, <1>16
  DEF Next, Connection

\* A step keeps the times in step
LEMMA TimesStep == TypeOK /\ Times /\ [Next]_vars => Times'
<1> SUFFICES ASSUME TypeOK /\ Times, [Next]_vars PROVE Times'
  OBVIOUS
<1> USE DurationsAssumption
<1> USE DEF TypeOK, Times, Pc, Connecting, OutageAge, None, code, told, history
<1>1. CASE Tick
  BY <1>1, OlderType DEF Tick, Urgent
<1>2. CASE GoAway
  BY <1>2 DEF GoAway
<1>3. CASE ComeBack
  BY <1>3 DEF ComeBack
<1>4. CASE Start
  BY <1>4 DEF Start
<1>5. CASE Open
  BY <1>5 DEF Open
<1>6. CASE NodeList
  BY <1>6 DEF NodeList
<1>7. CASE Connected
  BY <1>7 DEF Connected
<1>8. CASE ConnectFails
  BY <1>8 DEF ConnectFails, BackOff
<1>9. CASE SyncDone
  BY <1>9 DEF SyncDone
<1>10. CASE Lost
  BY <1>10 DEF Lost, IsNewOutage
<1>11. CASE DevicesLost
  BY <1>11 DEF DevicesLost, BackOff
<1>12. CASE Wake
  BY <1>12 DEF Wake
<1>13. CASE Breaks
  BY <1>13 DEF Breaks, Crash
<1>14. CASE Stop
  BY <1>14 DEF Stop
<1>15. CASE Stopped
  BY <1>15 DEF Stopped
<1>16. CASE UNCHANGED vars
  BY <1>16 DEF vars
<1>17. QED
  BY <1>1, <1>2, <1>3, <1>4, <1>5, <1>6, <1>7, <1>8, <1>9,
     <1>10, <1>11, <1>12, <1>13, <1>14, <1>15, <1>16
  DEF Next, Connection

\* A step keeps the report with the outage it is of
LEMMA ReportsStep == TypeOK /\ Times /\ Reports /\ [Next]_vars => Reports'
<1> SUFFICES ASSUME TypeOK /\ Times /\ Reports, [Next]_vars PROVE Reports'
  OBVIOUS
<1> USE DurationsAssumption
<1> USE DEF TypeOK, Times, Reports, OutageIsReported, Unreachable, Connecting, OutageAge, None, code, told, history
<1>1. CASE Tick
  BY <1>1, OlderType DEF Tick, Urgent
<1>2. CASE GoAway
  BY <1>2 DEF GoAway
<1>3. CASE ComeBack
  BY <1>3 DEF ComeBack
<1>4. CASE Start
  BY <1>4 DEF Start
<1>5. CASE Open
  BY <1>5 DEF Open
<1>6. CASE NodeList
  BY <1>6 DEF NodeList
<1>7. CASE Connected
  BY <1>7 DEF Connected
<1>8. CASE ConnectFails
  BY <1>8 DEF ConnectFails, BackOff
<1>9. CASE SyncDone
  BY <1>9 DEF SyncDone
<1>10. CASE Lost
  BY <1>10 DEF Lost, IsNewOutage
<1>11. CASE DevicesLost
  BY <1>11 DEF DevicesLost, BackOff
<1>12. CASE Wake
  BY <1>12 DEF Wake
<1>13. CASE Breaks
  BY <1>13 DEF Breaks, Crash
<1>14. CASE Stop
  BY <1>14 DEF Stop
<1>15. CASE Stopped
  BY <1>15 DEF Stopped
<1>16. CASE UNCHANGED vars
  BY <1>16 DEF vars
<1>17. QED
  BY <1>1, <1>2, <1>3, <1>4, <1>5, <1>6, <1>7, <1>8, <1>9,
     <1>10, <1>11, <1>12, <1>13, <1>14, <1>15, <1>16
  DEF Next, Connection

\* A step lets the delay grow only once time passed
LEMMA DelaysStep == TypeOK /\ Times /\ Delays /\ [Next]_vars => Delays'
<1> SUFFICES ASSUME TypeOK /\ Times /\ Delays, [Next]_vars PROVE Delays'
  OBVIOUS
<1> USE DurationsAssumption
<1> USE DEF TypeOK, Times, Delays, Connecting, OutageAge, None, Delay, code, told, history
<1>1. CASE Tick
  BY <1>1 DEF Tick, Urgent, Older
<1>2. CASE GoAway
  BY <1>2 DEF GoAway
<1>3. CASE ComeBack
  BY <1>3 DEF ComeBack
<1>4. CASE Start
  BY <1>4 DEF Start
<1>5. CASE Open
  BY <1>5 DEF Open
<1>6. CASE NodeList
  BY <1>6 DEF NodeList
<1>7. CASE Connected
  BY <1>7 DEF Connected
<1>8. CASE ConnectFails
  BY <1>8 DEF ConnectFails, BackOff
<1>9. CASE SyncDone
  BY <1>9 DEF SyncDone
<1>10. CASE Lost
  BY <1>10 DEF Lost, IsNewOutage
<1>11. CASE DevicesLost
  BY <1>11 DEF DevicesLost, BackOff
<1>12. CASE Wake
  BY <1>12 DEF Wake
<1>13. CASE Breaks
  BY <1>13 DEF Breaks, Crash
<1>14. CASE Stop
  BY <1>14 DEF Stop
<1>15. CASE Stopped
  BY <1>15 DEF Stopped
<1>16. CASE UNCHANGED vars
  BY <1>16 DEF vars
<1>17. QED
  BY <1>1, <1>2, <1>3, <1>4, <1>5, <1>6, <1>7, <1>8, <1>9,
     <1>10, <1>11, <1>12, <1>13, <1>14, <1>15, <1>16
  DEF Next, Connection

\* The invariant holds of every reachable state, whatever the durations.
THEOREM InvHolds == Spec => []Inv
<1>1. Inv /\ [Next]_vars => Inv'
  BY TypeStep, ListenerStep, TimesStep, ReportsStep, DelaysStep DEF Inv
<1>2. QED
  BY InitInv, <1>1, PTL DEF Spec

\* The types of the connection's state, for all durations
THEOREM TypeCorrect == Spec => []TypeOK
<1>1. Inv => TypeOK
  BY DEF Inv
<1>2. QED
  BY <1>1, InvHolds, PTL

\* The user hears of an unreachable server only in an outage longer than
\* _UNREACHABLE_AFTER, and of none that is over
THEOREM ReportedAreOutages == Spec => []ReportIsOfAnOutage
<1>1. Inv => ReportIsOfAnOutage
  BY DEF Inv, Reports, Unreachable, ReportIsOfAnOutage
<1>2. QED
  BY <1>1, InvHolds, PTL

\* An outage noticed to be longer than _UNREACHABLE_AFTER is reported before the
\* next attempt is waited for
THEOREM OutagesAreReported == Spec => []OutageIsReported
<1>1. Inv => OutageIsReported
  BY DEF Inv, Reports
<1>2. QED
  BY <1>1, InvHolds, PTL

\* No listener runs that neither _connect, the task nor stop() ends
THEOREM ListenersAreFollowed == Spec => []ListenerIsFollowed
<1>1. Inv => ListenerIsFollowed
  BY DEF Inv
<1>2. QED
  BY <1>1, InvHolds, PTL

\* Only an outage that begins shortens the delay: start() and Lost set it, to the
\* first delay, which it is already where no time passed in the outage before
THEOREM AttemptsGetRarer == Spec => RarerInAnOutage
<1> DEFINE Rarer ==
      delay' < delay => outage' # outage /\ outage' \in {None, 0}
<1>1. Inv /\ [Next]_vars => [Rarer]_vars
  <2> SUFFICES ASSUME Inv, Next PROVE Rarer
    OBVIOUS
  <2> USE DurationsAssumption
  <2> USE DEF Inv, TypeOK, Delays, OutageAge, None, Delay, code, told, history
  <2>1. CASE Start
    BY <2>1 DEF Start
  <2>2. CASE Lost
    BY <2>2 DEF Lost, IsNewOutage, Times
  <2>3. CASE Wake
    BY <2>3 DEF Wake
  <2>4. CASE Tick \/ GoAway \/ ComeBack \/ Open \/ NodeList \/ Connected
    BY <2>4 DEF Tick, GoAway, ComeBack, Open, NodeList, Connected
  <2>5. CASE ConnectFails \/ SyncDone \/ DevicesLost
    BY <2>5 DEF ConnectFails, SyncDone, DevicesLost
  <2>6. CASE Breaks \/ Stop \/ Stopped
    BY <2>6 DEF Breaks, Stop, Stopped
  <2>7. QED
    BY <2>1, <2>2, <2>3, <2>4, <2>5, <2>6 DEF Next, Connection
<1>2. QED
  BY <1>1, InvHolds, PTL DEF Spec, RarerInAnOutage, Rarer

-------------------------------------------------------------------------------
\* Matter is off at first, and nothing was told
LEMMA NoticeInit == Init => Notice!Init
BY DurationsAssumption DEF Init, Notice!Init, None

\* What the top of the inner loop tells is a report of ServerNotice, or nothing:
\* where is_reported is not set, the Hub was told of no outage it still knows
LEMMA BackOffReports ==
  ASSUME Inv, NEW age \in OutageAge, BackOff(age), age <= outage,
         pc \in {"opening", "readying", "losing"}, ~starting,
         starting' = starting, outage' = outage
  PROVE  [Notice!Next]_(Notice!vars)
<1>1. ~reported => Unreachable \notin errors
  BY DEF Inv, Reports
<1>2. CASE ~reported /\ age > UnreachableAfter
  <2>1. outage > UnreachableAfter
    BY <1>2, DurationsAssumption DEF Inv, TypeOK, OutageAge, None
  <2>2. Notice!Report
    BY <1>1, <1>2, <2>1 DEF BackOff, Notice!Report, Unreachable
  <2>3. QED
    BY <2>2 DEF Notice!Next
<1>3. CASE ~(~reported /\ age > UnreachableAfter)
  BY <1>3 DEF BackOff, told, Notice!vars
<1>4. QED
  BY <1>2, <1>3

\* Every step of the connection is one of ServerNotice, or tells the user nothing.
\* That a sync resolves what was told, no more and no less, takes Reports: what
\* is_reported says is what the Hub was told.
LEMMA NoticeStep == Inv /\ [Next]_vars => [Notice!Next]_(Notice!vars)
<1> SUFFICES ASSUME Inv, [Next]_vars PROVE [Notice!Next]_(Notice!vars)
  OBVIOUS
<1>0. TypeOK /\ Times /\ Reports
  BY DEF Inv
<1>1. CASE Tick
  <2>1. outage <= outage' /\ outage \in Int /\ outage' \in Int
    BY <1>0, <1>1, OlderType, DurationsAssumption DEF Tick, TypeOK, OutageAge, None
  <2>2. CASE outage > UnreachableAfter <=> outage' > UnreachableAfter
    BY <1>1, <2>2 DEF Tick, told, Notice!vars
  <2>3. CASE ~(outage > UnreachableAfter) /\ outage' > UnreachableAfter
    <3>1. Notice!Last
      BY <1>1, <2>3 DEF Tick, told, Notice!Last
    <3>2. QED
      BY <3>1 DEF Notice!Next
  <2>4. QED
    BY <2>1, <2>2, <2>3, DurationsAssumption
<1>2. CASE Start
  <2>1. Notice!Begin
    BY <1>2, DurationsAssumption DEF Start, None, Notice!Begin
  <2>2. QED
    BY <2>1 DEF Notice!Next
<1>3. CASE ConnectFails
  <2>1. CASE starting
    <3>1. Notice!End
      BY <1>3, <2>1 DEF ConnectFails, told, history, Notice!End
    <3>2. QED
      BY <3>1 DEF Notice!Next
  <2>2. CASE ~starting
    <3>1. BackOff(since) /\ outage' = outage /\ starting' = starting
          /\ pc \in {"opening", "readying", "losing"}
      BY <1>3, <2>2 DEF ConnectFails
    <3>2. since \in OutageAge /\ since <= outage
      BY <1>0, DurationsAssumption DEF Times, TypeOK, OutageAge, None
    <3>3. QED
      BY <2>2, <3>1, <3>2, BackOffReports
  <2>3. QED
    BY <2>1, <2>2
<1>4. CASE SyncDone
  <2>1. errors' = errors \ {"server-unreachable"}
    BY <1>0, <1>4 DEF SyncDone, told, Reports, Unreachable
  <2>2. Notice!Follow
    BY <1>0, <1>4, <2>1
    DEF Reports, Unreachable, told, SyncDone, history, Notice!Follow
  <2>3. QED
    BY <2>2 DEF Notice!Next
<1>5. CASE Lost
  <2>1. ~starting
    BY <1>0, <1>5 DEF Lost, Times, Connecting
  <2>2. outage' \in {outage, 0}
    BY <1>5 DEF Lost
  <2>3. (outage > UnreachableAfter)' \in {outage > UnreachableAfter, FALSE}
    <3>1. CASE outage' = outage
      BY <3>1
    <3>2. CASE outage' = 0
      <4>1. (outage > UnreachableAfter)' = FALSE
        BY <3>2, DurationsAssumption
      <4>2. QED
        BY <4>1
    <3>3. QED
      BY <2>2, <3>1, <3>2
  <2>4. Notice!Lose
    BY <1>5, <2>1, <2>3 DEF Lost, told, Notice!Lose
  <2>5. QED
    BY <2>4 DEF Notice!Next
<1>6. CASE DevicesLost
  <2>1. failed \in OutageAge /\ failed <= outage
    BY <1>0 DEF Times, TypeOK
  <2>2. ~starting
    BY <1>0, <1>6 DEF DevicesLost, Times, Connecting
  <2>3. BackOff(failed) /\ outage' = outage /\ starting' = starting /\ pc = "losing"
    BY <1>6 DEF DevicesLost, history
  <2>4. QED
    BY <2>1, <2>2, <2>3, BackOffReports
<1>7. CASE Breaks
  <2>1. CASE starting
    <3>1. Notice!End
      BY <1>7, <2>1 DEF Breaks, code, told, history, Notice!End
    <3>2. QED
      BY <3>1 DEF Notice!Next
  <2>2. CASE ~starting
    <3>1. Notice!Break
      BY <1>7, <2>2 DEF Breaks, Crash, code, history, Notice!Break
    <3>2. QED
      BY <3>1 DEF Notice!Next
  <2>3. QED
    BY <2>1, <2>2
<1>8. CASE Stop
  <2>1. CASE pc \in {"crashed", "failed"}
    BY <1>8, <2>1 DEF Stop, code, told, history, Notice!vars
  <2>2. CASE pc \notin {"crashed", "failed"}
    <3>1. Notice!End
      BY <1>8, <2>2 DEF Stop, code, told, history, Notice!End
    <3>2. QED
      BY <3>1 DEF Notice!Next
  <2>3. QED
    BY <2>1, <2>2
<1>9. CASE GoAway \/ ComeBack \/ Open \/ NodeList \/ Connected \/ Wake \/ Stopped
           \/ UNCHANGED vars
  BY <1>9 DEF GoAway, ComeBack, Open, NodeList, Connected, Wake, Stopped, vars,
              code, told, history, Notice!vars
<1>10. QED
  BY <1>1, <1>2, <1>3, <1>4, <1>5, <1>6, <1>7, <1>8, <1>9 DEF Next, Connection

\* For all durations, the user is told of outages and crashes as ServerNotice
\* promises: of none that is too short, of none again before a sync resolved it,
\* and of its end by the sync that connects again and by nothing else
THEOREM NoticesAreKept == Spec => NoticeKept
<1>1. Spec => Notice!Init /\ [][Notice!Next]_(Notice!vars)
  BY NoticeInit, NoticeStep, InvHolds, PTL DEF Spec
<1>2. QED
  BY <1>1, PTL DEF NoticeKept, Notice!Spec

===============================================================================
