------------------------- MODULE MainParameterProofs -------------------------
(***************************************************************************)
(* The main parameter, for every choice of clusters, of endpoints and of   *)
(* bounds: what _get_main_parameter picks is supported and tappable, and   *)
(* what a tap of it sends is accepted, leaves an idle appliance alone and  *)
(* toggles.                                                                *)
(***************************************************************************)
EXTENDS MainParameter, FiniteSetTheorems, WellFoundedInduction, TLAPS

-------------------------------------------------------------------------------
(* The tables *)

Specs(c) == {MainSpecs[c][i] : i \in DOMAIN MainSpecs[c]}

\* A cycle that is tapped through commands, each of which the cluster has and
\* leads to the state it is listed under
Toggles(c) == DOMAIN ToggleCommands[c]
IsTogglePair(c) ==
  /\ \E a, b \in Int : a < b /\ Toggles(c) = {a, b}
  /\ Toggles(c) \subseteq States(c)
  /\ \A v \in Toggles(c) :
       LET command == ToggleCommands[c][v] IN
         /\ command \in CommandsOf[c]
         /\ command \in DOMAIN Effect \cup {"Pause"}
         /\ EffectOf(c, command) = v

\* STATE_TOGGLE_COMMANDS lists for each of its clusters two states, and for each
\* of them a command of the cluster that leads to it.
LEMMA TogglePairs == \A c \in DOMAIN ToggleCommands : IsTogglePair(c)
<1>1. SUFFICES ASSUME NEW c \in DOMAIN ToggleCommands
               PROVE  IsTogglePair(c)
  OBVIOUS
<1>2. c \in {"DoorLock", "Valve", "WindowCovering", "MediaPlayback",
             "RvcOperationalState", "OperationalState"}
  BY DEF ToggleCommands
<1>3. CASE c = "DoorLock"
  <2>1. ToggleCommands[c] = Taps(1, "LockDoor", 2, "UnlockDoor")
    BY <1>3 DEF ToggleCommands
  <2>2. /\ Toggles(c) = {1, 2} /\ ToggleCommands[c][1] = "LockDoor"
        /\ ToggleCommands[c][2] = "UnlockDoor"
    BY <2>1 DEF Taps, Toggles
  <2>3. States(c) = {0, 1, 2} /\ CommandsOf[c] = {"LockDoor", "UnlockDoor"}
    BY <1>3 DEF States, CommandsOf
  <2>4. /\ EffectOf(c, "LockDoor") = 1 /\ EffectOf(c, "UnlockDoor") = 2
        /\ {"LockDoor", "UnlockDoor"} \subseteq DOMAIN Effect
    BY DEF EffectOf, Effect
  <2>5. QED
    BY <2>2, <2>3, <2>4 DEF IsTogglePair
<1>4. CASE c = "Valve"
  <2>1. ToggleCommands[c] = Taps(0, "Close", 1, "Open")
    BY <1>4 DEF ToggleCommands
  <2>2. /\ Toggles(c) = {0, 1} /\ ToggleCommands[c][0] = "Close"
        /\ ToggleCommands[c][1] = "Open"
    BY <2>1 DEF Taps, Toggles
  <2>3. States(c) = {0, 1, 2} /\ CommandsOf[c] = {"Open", "Close"}
    BY <1>4 DEF States, CommandsOf
  <2>4. /\ EffectOf(c, "Close") = 0 /\ EffectOf(c, "Open") = 1
        /\ {"Close", "Open"} \subseteq DOMAIN Effect
    BY DEF EffectOf, Effect
  <2>5. QED
    BY <2>2, <2>3, <2>4 DEF IsTogglePair
<1>5. CASE c = "WindowCovering"
  <2>1. ToggleCommands[c] = Taps(0, "UpOrOpen", 100, "DownOrClose")
    BY <1>5 DEF ToggleCommands
  <2>2. /\ Toggles(c) = {0, 100} /\ ToggleCommands[c][0] = "UpOrOpen"
        /\ ToggleCommands[c][100] = "DownOrClose"
    BY <2>1 DEF Taps, Toggles
  <2>3. States(c) = {0, 40, 100} /\ CommandsOf[c] = {"UpOrOpen", "DownOrClose"}
    BY <1>5 DEF States, CommandsOf
  <2>4. /\ EffectOf(c, "UpOrOpen") = 0 /\ EffectOf(c, "DownOrClose") = 100
        /\ {"UpOrOpen", "DownOrClose"} \subseteq DOMAIN Effect
    BY DEF EffectOf, Effect
  <2>5. QED
    BY <2>2, <2>3, <2>4 DEF IsTogglePair
<1>6. CASE c = "MediaPlayback"
  <2>1. ToggleCommands[c] = Taps(0, "Play", 1, "Pause")
    BY <1>6 DEF ToggleCommands
  <2>2. /\ Toggles(c) = {0, 1} /\ ToggleCommands[c][0] = "Play"
        /\ ToggleCommands[c][1] = "Pause"
    BY <2>1 DEF Taps, Toggles
  <2>3. States(c) = {0, 1, 2} /\ CommandsOf[c] = {"Play", "Pause"}
    BY <1>6 DEF States, CommandsOf
  <2>4. /\ EffectOf(c, "Play") = 0 /\ EffectOf(c, "Pause") = 1
        /\ "Play" \in DOMAIN Effect
    BY <1>6 DEF EffectOf, Effect
  <2>5. QED
    BY <2>2, <2>3, <2>4 DEF IsTogglePair
<1>7. CASE c \in {"RvcOperationalState", "OperationalState"}
  <2>1. ToggleCommands[c] = Taps(1, "Resume", 2, "Pause")
    BY <1>7 DEF ToggleCommands
  <2>2. /\ Toggles(c) = {1, 2} /\ ToggleCommands[c][1] = "Resume"
        /\ ToggleCommands[c][2] = "Pause"
    BY <2>1 DEF Taps, Toggles
  <2>3. States(c) = {0, 1, 2} /\ {"Resume", "Pause"} \subseteq CommandsOf[c]
    BY <1>7 DEF States, CommandsOf
  <2>4. /\ EffectOf(c, "Resume") = 1 /\ EffectOf(c, "Pause") = 2
        /\ "Resume" \in DOMAIN Effect
    BY <1>7 DEF EffectOf, Effect
  <2>5. QED
    BY <2>2, <2>3, <2>4 DEF IsTogglePair
<1>8. QED
  BY <1>2, <1>3, <1>4, <1>5, <1>6, <1>7

-------------------------------------------------------------------------------
\* What a parameter of MAIN_PARAMETER_BY_CLUSTER can be: of a closure, of a fan, a
\* state with toggle commands, or a command
IsTapCommand(c, k) ==
  /\ k \in CommandsOf[c] \ {"write", "Stop", "MoveTo"}
  /\ k \in DOMAIN Effect \cup {"Pause"} => EffectOf(c, k) \in States(c)
  /\ c \notin {"OperationalState", "ClosureControl"}
IsMainSpec(c, s) ==
  \/ c = "ClosureControl" /\ s = Attribute({1})
  \/ c = "FanControl" /\ s = Attribute({0, 4})
  \/ c \in DOMAIN ToggleCommands /\ s = Attribute(Toggles(c))
  \/ \E k \in CommandsOf[c] : s = Command(k) /\ IsTapCommand(c, k)

\* MAIN_PARAMETER_BY_CLUSTER and STATE_TOGGLE_COMMANDS agree: the cycle of every
\* state but a closure's and a fan's is the one that has commands.
LEMMA MainSpecKinds ==
  \A c \in DOMAIN MainSpecs : \A s \in Specs(c) : IsMainSpec(c, s)
<1>1. SUFFICES ASSUME NEW c \in DOMAIN MainSpecs, NEW s \in Specs(c)
               PROVE  IsMainSpec(c, s)
  OBVIOUS
<1>2. CASE c = "ClosureControl"
  BY <1>1, <1>2 DEF MainSpecs, Specs, IsMainSpec
<1>3. CASE c = "FanControl"
  BY <1>1, <1>3 DEF MainSpecs, Specs, IsMainSpec
<1>4. CASE c \in {"OnOff", "TemperatureControl", "ModeSelect", "Chime"}
  <2>1. PICK k \in CommandsOf[c] : MainSpecs[c] = <<Command(k)>>
    BY <1>4 DEF MainSpecs, CommandsOf
  <2>2. s = Command(k)
    BY <2>1 DEF Specs
  <2>3. /\ CommandsOf[c] \cap {"write", "Stop", "MoveTo", "Pause"} = {}
        /\ CommandsOf[c] \cap DOMAIN Effect = {}
    BY <1>4 DEF CommandsOf, Effect
  <2>4. IsTapCommand(c, k)
    BY <1>4, <2>1, <2>3 DEF IsTapCommand
  <2>5. QED
    BY <2>1, <2>2, <2>4 DEF IsMainSpec
<1>5. CASE c \in {"OperationalState", "DoorLock", "Valve"}
  <2>1. MainSpecs[c] = <<Attribute(Toggles(c))>> /\ c \in DOMAIN ToggleCommands
    BY <1>5 DEF MainSpecs, Toggles, ToggleCommands, Taps
  <2>2. QED
    BY <2>1 DEF Specs, IsMainSpec
<1>6. CASE c \in {"RvcOperationalState", "MediaPlayback", "WindowCovering"}
  <2> DEFINE k == IF c = "RvcOperationalState" THEN "Resume"
                  ELSE IF c = "MediaPlayback" THEN "Play" ELSE "UpOrOpen"
  <2>1. /\ MainSpecs[c] = <<Attribute(Toggles(c)), Command(k)>>
        /\ c \in DOMAIN ToggleCommands
    BY <1>6 DEF MainSpecs, Toggles, ToggleCommands, Taps
  <2>2. /\ k \in CommandsOf[c] /\ k \notin {"write", "Stop", "MoveTo"}
        /\ EffectOf(c, k) \in States(c)
    BY <1>6 DEF CommandsOf, EffectOf, Effect, States
  <2>3. IsTapCommand(c, k)
    BY <1>6, <2>2 DEF IsTapCommand
  <2>4. s = Attribute(Toggles(c)) \/ s = Command(k)
    BY <2>1 DEF Specs
  <2>5. QED
    BY <2>1, <2>2, <2>3, <2>4 DEF IsMainSpec
<1>7. c \in {"OnOff", "FanControl", "TemperatureControl", "OperationalState",
             "RvcOperationalState", "ModeSelect", "DoorLock", "MediaPlayback",
             "WindowCovering", "ClosureControl", "Chime", "Valve"}
  BY DEF MainSpecs
<1>8. QED
  BY <1>2, <1>3, <1>4, <1>5, <1>6, <1>7

\* The clusters of _get_main_parameter's order are those of the table.
LEMMA PriorityClusters ==
  /\ Len(Priority) = 12
  /\ \A i \in 1 .. Len(Priority) : Priority[i] \in DOMAIN MainSpecs
<1>1. Len(Priority) = 12
  BY DEF Priority
<1>2. ASSUME NEW i \in 1 .. 12
      PROVE  Priority[i] \in DOMAIN MainSpecs
  <2>1. DOMAIN MainSpecs =
          {"OnOff", "FanControl", "TemperatureControl", "OperationalState",
           "RvcOperationalState", "ModeSelect", "DoorLock", "MediaPlayback",
           "WindowCovering", "ClosureControl", "Chime", "Valve"}
    BY DEF MainSpecs
  <2>2. QED
    BY <2>1 DEF Priority
<1>3. QED
  BY <1>1, <1>2

-------------------------------------------------------------------------------
(* _get_main_parameter: the first of the candidates *)

\* Every set of natural numbers but the empty one has a least element: of the
\* intervals that end in one, one is the smallest.
LEMMA LeastNat ==
  ASSUME NEW S \in SUBSET Nat, S # {}
  PROVE  \E x \in S : \A y \in S : x <= y
<1> DEFINE T == {0 .. n : n \in S}
<1>1. \A n \in S : 0 .. n \subseteq Nat /\ IsFiniteSet(0 .. n)
  BY FS_Interval
<1>2. T \subseteq FiniteSubsetsOf(Nat) /\ T # {}
  BY <1>1 DEF FiniteSubsetsOf
<1>3. PICK t \in T : \A u \in T : ~ (<<u, t>> \in StrictSubsetOrdering(Nat))
  BY <1>2, FS_StrictSubsetOrderingWellFounded, WFMin, Zenon
<1>4. PICK x \in S : t = 0 .. x
  BY <1>3
<1>5. ASSUME NEW y \in S, y < x PROVE FALSE
  <2>1. <<0 .. y, 0 .. x>> \notin StrictSubsetOrdering(Nat)
    BY <1>3, <1>4, Zenon
  <2>2. 0 .. y \subseteq 0 .. x /\ x \notin 0 .. y /\ x \in 0 .. x
    BY <1>5
  <2>3. 0 .. y # 0 .. x /\ 0 .. x \in SUBSET Nat /\ 0 .. y \in SUBSET Nat
    BY <2>2
  <2>4. QED
    BY <2>1, <2>2, <2>3 DEF StrictSubsetOrdering
<1>6. QED
  BY <1>5

\* One candidate is tried before all the others, whichever endpoint, cluster and
\* fallback they are.
LEMMA FirstCandidate ==
  ASSUME NEW d, Candidates(d) # {}
  PROVE  \E p \in Candidates(d) :
            \A q \in Candidates(d) \ {p} : TriedBefore(p, q)
<1> DEFINE C == Candidates(d)
           Rank(p) == 26 * p[1] + 2 * p[2] + p[3]
           R == {Rank(p) : p \in C}
<1>1. \A p \in C : /\ p[1] \in Nat /\ p[2] \in 1 .. 12 /\ p[3] \in {1, 2}
                   /\ p = <<p[1], p[2], p[3]>>
  BY PriorityClusters, MainParameterAssumption DEF Candidates, Endpoint
<1>2. R \in SUBSET Nat /\ R # {}
  BY <1>1
<1> HIDE DEF C
<1>3. PICK x \in R : \A y \in R : x <= y
  BY <1>2, LeastNat
<1>4. PICK p \in C : x = Rank(p)
  BY <1>3
<1>5. ASSUME NEW q \in C, q # p
      PROVE  TriedBefore(p, q)
  <2>1. Rank(p) <= Rank(q)
    BY <1>3, <1>4
  <2>2. p[1] # q[1] \/ p[2] # q[2] \/ p[3] # q[3]
    BY <1>1, <1>5, Zenon
  <2>3. QED
    BY <1>1, <2>1, <2>2 DEF TriedBefore
<1>6. QED
  BY <1>5 DEF C

\* The parameter and its cluster are one of the device's, which supports it and
\* has a user parameter of it.
IsMain(d, m) ==
  LET report == d[<<m.endpoint, m.cluster>>] IN
    /\ <<m.endpoint, m.cluster>> \in DOMAIN d
    /\ m.cluster \in DOMAIN MainSpecs
    /\ m.spec \in Specs(m.cluster)
    /\ Supported(report, m.cluster, m.spec)
    /\ IF m.spec.attribute THEN IsUserState(report, m.cluster)
       ELSE IsUserCommand(report, m.spec.command)

\* What _get_main_parameter returns is such a parameter, or None.
LEMMA MainIsCandidate ==
  ASSUME NEW d, GetMainParameter(d) # None
  PROVE  IsMain(d, GetMainParameter(d))
<1>1. Candidates(d) # {}
  BY DEF GetMainParameter
<1> DEFINE p == CHOOSE p \in Candidates(d) :
                  \A q \in Candidates(d) \ {p} : TriedBefore(p, q)
           c == Priority[p[2]]
<1>2. p \in Candidates(d)
  BY <1>1, FirstCandidate
<1>3. GetMainParameter(d) =
        [endpoint |-> p[1], cluster |-> c, spec |-> MainSpecs[c][p[3]]]
  BY <1>1 DEF GetMainParameter
<1> HIDE DEF p
<1>4. /\ p[2] \in 1 .. Len(Priority) /\ <<p[1], c>> \in DOMAIN d
      /\ p[3] \in DOMAIN MainSpecs[c]
      /\ LET report == d[<<p[1], c>>]  spec == MainSpecs[c][p[3]] IN
           /\ Supported(report, c, spec)
           /\ IF spec.attribute THEN IsUserState(report, c)
              ELSE IsUserCommand(report, spec.command)
  BY <1>2 DEF Candidates
<1>5. c \in DOMAIN MainSpecs
  BY <1>4, PriorityClusters
<1>6. QED
  BY <1>3, <1>4, <1>5 DEF IsMain, Specs

-------------------------------------------------------------------------------
(* The inductive invariant *)

\* Before the device is mapped nothing is sent or taken; then its parameter is one
\* that it supports, and the copies of its state are states of its cluster
Mapped ==
  IF main = None
  THEN events = <<>> /\ call = None
  ELSE /\ IsMain(device, main)
       /\ {state, cached, stored} \subseteq States(Cluster)
       /\ events \in Seq(States(Cluster))

\* What is on its way is what the main parameter is tapped through: the value is
\* the cycle's other one, the command the one that leads to it
Sent ==
  call # None =>
    IF ~ main.spec.attribute THEN call.command = main.spec.command
    ELSE IF Cluster = "ClosureControl" THEN call.command \in {"Stop", "MoveTo"}
    ELSE /\ call.value \in main.spec.cycle
         /\ call.from \in main.spec.cycle => call.value # call.from
         /\ IF Cluster = "FanControl" THEN call.command = "write"
            ELSE /\ call.command = ToggleCommands[Cluster][call.value]
                 /\ Cluster = "OperationalState" => call.seen \in {1, 2}

MainInv ==
  /\ device \in Devices
  /\ subscribed \in BOOLEAN
  /\ Len(events) <= MaxEvents
  /\ error \in {None, "idle"}
  /\ Mapped
  /\ Sent

\* The states are numbers, as the cycles are.
LEMMA StatesAreNumbers == \A c \in DOMAIN MainSpecs : States(c) \subseteq Nat
BY DEF States

\* A cycle of two values is stepped within, and away from the value it is at.
LEMMA NextInCycle ==
  ASSUME NEW a \in Int, NEW b \in Int, a < b, stored \in Int
  PROVE  /\ NextValue({a, b}) \in {a, b}
         /\ stored \in {a, b} => NextValue({a, b}) # stored
<1>1. Least({a, b}) = a
  BY DEF Least
<1>2. {v \in {a, b} : v > stored} = IF stored < a THEN {a, b}
                                    ELSE IF stored < b THEN {b} ELSE {}
  OBVIOUS
<1>3. Least({b}) = b
  BY DEF Least
<1>4. CASE stored = a
  BY <1>1, <1>2, <1>3, <1>4 DEF NextValue
<1>5. CASE stored # a
  <2>1. stored = b => {v \in {a, b} : v > stored} = {}
    BY <1>2
  <2>2. NextValue({a, b}) = a
    BY <1>1, <1>5, <2>1 DEF NextValue
  <2>3. QED
    BY <1>5, <2>2
<1>6. QED
  BY <1>4, <1>5

\* The kinds of the main parameter of a mapped device.
LEMMA MainKind ==
  ASSUME Mapped, Paired
  PROVE  /\ IsMainSpec(Cluster, main.spec)
         /\ Cluster \in DOMAIN MainSpecs
         /\ {state, cached, stored} \subseteq Int
BY MainSpecKinds, StatesAreNumbers DEF Mapped, Paired, IsMain, Cluster

\* A device that is not mapped yet satisfies it.
LEMMA InitMainInv == Init => MainInv
<1>1. SUFFICES ASSUME Init PROVE MainInv
  OBVIOUS
<1>2. device \in Devices /\ subscribed \in BOOLEAN /\ error \in {None, "idle"}
  BY <1>1, Zenon DEF Init
<1>3. Len(events) <= MaxEvents
  BY <1>1, MainParameterAssumption DEF Init
<1>4. Mapped /\ Sent
  BY <1>1, Zenon DEF Init, Mapped, Sent
<1>5. QED
  BY <1>2, <1>3, <1>4 DEF MainInv

\* A tap sends nothing, or what the main parameter is tapped through, and raises
\* for an idle appliance only.
LEMMA TapSends ==
  ASSUME MainInv, Tap
  PROVE  Sent' /\ error' \in {None, "idle"} /\ Paired
<1>1. Paired /\ call = None /\ UNCHANGED <<main, stored, cached>> /\ Mapped
  BY DEF Tap, MainInv
<1>2. CASE \E k \in CommandsOf[Cluster] : main.spec = Command(k)
  <2>1. ~ main.spec.attribute /\ ExecuteCommand
    BY <1>2 DEF Tap, Command
  <2>2. QED
    BY <1>1, <2>1 DEF ExecuteCommand, Send, Sent
<1>3. CASE Cluster = "ClosureControl" /\ main.spec = Attribute({1})
  <2>1. main.spec.attribute /\ HasToggle(Cluster)
    BY <1>3 DEF Attribute, HasToggle
  <2>2. PICK k \in {"Stop", "MoveTo"}, v \in {0, Closed} : Send(k, v)
    BY <1>3, <2>1 DEF Tap, StateToggle
  <2>3. QED
    BY <1>1, <1>3, <2>1, <2>2 DEF Send, Sent, Cluster
<1>4. CASE Cluster = "FanControl" /\ main.spec = Attribute({0, 4})
  <2> DEFINE v == NextValue({0, 4})
  <2>1. /\ main.spec.attribute /\ main.spec.cycle = {0, 4}
        /\ ~ HasToggle(Cluster) /\ Role(Cluster) = "control"
    BY <1>4 DEF Attribute, HasToggle, ToggleCommands, Role, EverydayControls
  <2>2. v \in {0, 4} /\ (stored \in {0, 4} => v # stored)
    BY <1>1, NextInCycle, MainKind
  <2>3. Send("write", v) \/ Ignore
    BY <2>1 DEF Tap, WriteAttribute
  <2> HIDE DEF v
  <2>4. CASE Send("write", v)
    BY <1>1, <1>4, <2>1, <2>2, <2>4 DEF Send, Sent, Cluster
  <2>5. CASE Ignore
    BY <1>1, <2>5 DEF Ignore, Sent
  <2>6. QED
    BY <1>1, <2>3, <2>4, <2>5
<1>5. CASE /\ Cluster \in DOMAIN ToggleCommands
           /\ main.spec = Attribute(Toggles(Cluster))
  <2> DEFINE v == NextValue(Toggles(Cluster))
  <2>1. /\ main.spec.attribute /\ main.spec.cycle = Toggles(Cluster)
        /\ HasToggle(Cluster) /\ Cluster # "ClosureControl"
        /\ Cluster # "FanControl"
    BY <1>5 DEF Attribute, HasToggle, ToggleCommands
  <2>2. v \in Toggles(Cluster) /\ (stored \in Toggles(Cluster) => v # stored)
    <3>1. PICK a, b \in Int : a < b /\ Toggles(Cluster) = {a, b}
      BY <1>5, TogglePairs DEF IsTogglePair
    <3>2. QED
      BY <1>1, <3>1, NextInCycle, MainKind
  <2>3. \/ Cluster = "OperationalState" /\ cached \notin {1, 2} /\ Raise("idle")
        \/ /\ Send(ToggleCommands[Cluster][v], v)
           /\ Cluster = "OperationalState" => cached \in {1, 2}
    BY <2>1, <2>2 DEF Tap, StateToggle, Toggles
  <2> HIDE DEF v
  <2>4. CASE Raise("idle")
    BY <1>1, <2>4 DEF Raise, Sent
  <2>5. CASE /\ Send(ToggleCommands[Cluster][v], v)
             /\ Cluster = "OperationalState" => cached \in {1, 2}
    BY <1>1, <2>1, <2>2, <2>5 DEF Send, Sent, Cluster
  <2>6. QED
    BY <1>1, <2>3, <2>4, <2>5
<1>6. QED
  BY <1>1, <1>2, <1>3, <1>4, <1>5, MainKind DEF IsMainSpec

\* A command that is obeyed leads to a state of the cluster, and a state that is
\* toggled to the value that was tapped for.
LEMMA DoneLeads ==
  ASSUME MainInv, Done
  PROVE  /\ Paired /\ state' \in States(Cluster)
         /\ main.spec.attribute /\ Cluster # "ClosureControl" => state' = call.value
<1>1. call # None /\ Paired /\ Mapped /\ Sent
  BY DEF Done, MainInv, Mapped, Paired
<1>2. /\ IsMainSpec(Cluster, main.spec) /\ Cluster \in DOMAIN MainSpecs
      /\ state \in States(Cluster)
  BY <1>1, MainKind DEF Mapped, Paired
<1>3. DOMAIN Effect \cup {"Pause"} =
        {"LockDoor", "UnlockDoor", "Close", "Open", "UpOrOpen", "DownOrClose",
         "Play", "Resume", "Start", "Pause"}
  BY DEF Effect
<1>4. CASE \E k \in CommandsOf[Cluster] :
              main.spec = Command(k) /\ IsTapCommand(Cluster, k)
  <2>1. PICK k \in CommandsOf[Cluster] :
              main.spec = Command(k) /\ IsTapCommand(Cluster, k)
    BY <1>4
  <2>2. ~ main.spec.attribute /\ call.command = k
    BY <1>1, <2>1 DEF Command, Sent
  <2>3. state' = IF k \in DOMAIN Effect \cup {"Pause"}
                 THEN EffectOf(Cluster, k) ELSE state
    BY <2>1, <2>2 DEF Done, IsTapCommand
  <2>4. QED
    BY <1>1, <1>2, <2>1, <2>2, <2>3 DEF IsTapCommand
<1>5. CASE Cluster = "ClosureControl" /\ main.spec = Attribute({1})
  <2>1. main.spec.attribute /\ States(Cluster) = {0, 1, 2}
    BY <1>5 DEF Attribute, States
  <2>2. call.command \in {"Stop", "MoveTo"}
    BY <1>1, <1>5, <2>1 DEF Sent
  <2>3. state' \in {0, 1}
    BY <1>3, <2>2 DEF Done
  <2>4. QED
    BY <1>1, <1>5, <2>1, <2>3
<1>6. CASE Cluster = "FanControl" /\ main.spec = Attribute({0, 4})
  <2>1. /\ main.spec.attribute /\ main.spec.cycle = {0, 4}
        /\ States(Cluster) = {0, 3, 4}
    BY <1>6 DEF Attribute, States
  <2>2. call.command = "write" /\ call.value \in {0, 4}
    BY <1>1, <1>6, <2>1 DEF Sent
  <2>3. state' = call.value
    BY <2>2 DEF Done
  <2>4. QED
    BY <1>1, <2>1, <2>2, <2>3
<1>7. CASE /\ Cluster \in DOMAIN ToggleCommands
           /\ main.spec = Attribute(Toggles(Cluster))
  <2>1. /\ main.spec.attribute /\ main.spec.cycle = Toggles(Cluster)
        /\ Cluster # "ClosureControl" /\ Cluster # "FanControl"
    BY <1>7 DEF Attribute, ToggleCommands
  <2>2. /\ call.value \in Toggles(Cluster)
        /\ call.command = ToggleCommands[Cluster][call.value]
    BY <1>1, <2>1 DEF Sent
  <2>3. /\ call.command \in DOMAIN Effect \cup {"Pause"}
        /\ EffectOf(Cluster, call.command) = call.value
        /\ call.value \in States(Cluster)
    BY <1>7, <2>2, TogglePairs DEF IsTogglePair
  <2>4. call.command # "write"
    BY <1>3, <2>3
  <2>5. state' = call.value
    BY <2>3, <2>4 DEF Done
  <2>6. QED
    BY <1>1, <2>3, <2>5
<1>8. QED
  BY <1>2, <1>4, <1>5, <1>6, <1>7 DEF IsMainSpec

\* Every step keeps it.
LEMMA NextMainInv == MainInv /\ [Next]_vars => MainInv'
<1>1. SUFFICES ASSUME MainInv, [Next]_vars
               PROVE  MainInv'
  OBVIOUS
<1>2. /\ device \in Devices /\ subscribed \in BOOLEAN /\ Len(events) <= MaxEvents
      /\ error \in {None, "idle"} /\ Mapped /\ Sent
  BY <1>1 DEF MainInv
<1>3. Paired => /\ IsMain(device, main)
                /\ {state, cached, stored} \subseteq States(Cluster)
                /\ events \in Seq(States(Cluster))
  BY <1>2 DEF Mapped, Paired
<1>4. ~ Paired => events = <<>> /\ call = None
  BY <1>2 DEF Mapped, Paired
<1>5. CASE Map
  <2>1. /\ main' = GetMainParameter(device) /\ main' # None
        /\ {state', cached', stored'} \subseteq States(main'.cluster)
        /\ UNCHANGED <<device, subscribed, events, call, error>>
        /\ events = <<>> /\ call = None
    BY <1>4, <1>5 DEF Map
  <2>2. IsMain(device, main')
    BY <2>1, MainIsCandidate
  <2>3. Mapped'
    BY <2>1, <2>2 DEF Mapped, Cluster
  <2>4. QED
    BY <1>2, <2>1, <2>3 DEF MainInv, Sent
<1>6. CASE Subscribe
  BY <1>2, <1>6 DEF Subscribe, MainInv, Mapped, Sent, Cluster
<1>7. CASE Used
  <2>1. Mapped'
    BY <1>3, <1>7 DEF Used, Mapped, Paired, Cluster
  <2>2. QED
    BY <1>2, <1>7, <2>1 DEF Used, MainInv, Sent, Cluster
<1>8. CASE Reported
  <2>1. events' \in Seq(States(Cluster)) /\ Len(events') <= MaxEvents
    BY <1>2, <1>3, <1>8, MainParameterAssumption DEF Reported
  <2>2. Mapped'
    BY <1>3, <1>8, <2>1 DEF Reported, Mapped, Paired, Cluster
  <2>3. QED
    BY <1>2, <1>8, <2>1, <2>2 DEF Reported, MainInv, Sent, Cluster
<1>9. CASE Reconnected
  <2>1. Mapped'
    BY <1>3, <1>9 DEF Reconnected, Mapped, Paired, Cluster
  <2>2. QED
    BY <1>2, <1>9, <2>1 DEF Reconnected, MainInv, Sent, Cluster
<1>10. CASE Delivered
  <2>1. Paired
    BY <1>4, <1>10 DEF Delivered
  <2>2. /\ stored' \in States(Cluster) /\ events' \in Seq(States(Cluster))
        /\ Len(events') <= MaxEvents
    <3>1. events \in Seq(States(Cluster)) /\ events # <<>>
      BY <1>3, <1>10, <2>1 DEF Delivered
    <3>2. /\ Head(events) \in States(Cluster)
          /\ Tail(events) \in Seq(States(Cluster))
          /\ Len(Tail(events)) <= Len(events) /\ Len(events) \in Nat
          /\ Len(Tail(events)) \in Nat
      BY <3>1
    <3>3. QED
      BY <1>2, <1>10, <3>2, MainParameterAssumption DEF Delivered
  <2>3. Mapped'
    BY <1>3, <1>10, <2>1, <2>2 DEF Delivered, Mapped, Paired, Cluster
  <2>4. QED
    BY <1>2, <1>10, <2>2, <2>3 DEF Delivered, MainInv, Sent, Cluster
<1>11. CASE Tap
  <2>1. Sent' /\ error' \in {None, "idle"} /\ Paired
    BY <1>1, <1>11, TapSends
  <2>2. Mapped'
    BY <1>3, <1>11, <2>1 DEF Tap, Mapped, Paired, Cluster
  <2>3. QED
    BY <1>2, <1>11, <2>1, <2>2 DEF Tap, MainInv
<1>12. CASE Done
  <2>1. Paired /\ state' \in States(Cluster)
    BY <1>1, <1>12, DoneLeads
  <2>2. Mapped'
    BY <1>3, <1>12, <2>1 DEF Done, Mapped, Paired, Cluster
  <2>3. Sent'
    BY <1>12 DEF Done, Sent
  <2>4. QED
    BY <1>2, <1>12, <2>2, <2>3 DEF Done, MainInv
<1>13. CASE Refused
  <2>1. Mapped' /\ Sent'
    BY <1>3, <1>4, <1>13 DEF Refused, Mapped, Paired, Cluster, Sent
  <2>2. QED
    BY <1>2, <1>13, <2>1 DEF Refused, MainInv
<1>14. CASE UNCHANGED vars
  BY <1>2, <1>14 DEF vars, MainInv, Mapped, Sent, Cluster
<1>15. QED
  BY <1>1, <1>5, <1>6, <1>7, <1>8, <1>9, <1>10, <1>11, <1>12, <1>13, <1>14
     DEF Next

\* The invariant holds of every reachable state.
LEMMA MainInvariant == Spec => []MainInv
BY InitMainInv, NextMainInv, PTL DEF Spec

\* What is on its way is a command that the Matter cluster has, or a write.
LEMMA SentCommand ==
  ASSUME Mapped, Sent, Paired, call # None
  PROVE  call.command \in CommandsOf[Cluster] \cup {"write"}
<1>1. IsMainSpec(Cluster, main.spec)
  BY MainKind
<1>2. CASE \E k \in CommandsOf[Cluster] : main.spec = Command(k)
  BY <1>2 DEF Sent, Command
<1>3. CASE Cluster = "ClosureControl" /\ main.spec = Attribute({1})
  BY <1>3 DEF Sent, Attribute, CommandsOf
<1>4. CASE Cluster = "FanControl" /\ main.spec = Attribute({0, 4})
  BY <1>4 DEF Sent, Attribute
<1>5. CASE /\ Cluster \in DOMAIN ToggleCommands
           /\ main.spec = Attribute(Toggles(Cluster))
  <2>1. /\ main.spec.attribute /\ main.spec.cycle = Toggles(Cluster)
        /\ Cluster # "ClosureControl" /\ Cluster # "FanControl"
    BY <1>5 DEF Attribute, ToggleCommands
  <2>2. /\ call.value \in Toggles(Cluster)
        /\ call.command = ToggleCommands[Cluster][call.value]
    BY <2>1 DEF Sent
  <2>3. QED
    BY <1>5, <2>2, TogglePairs DEF IsTogglePair
<1>6. QED
  BY <1>1, <1>2, <1>3, <1>4, <1>5 DEF IsMainSpec

-------------------------------------------------------------------------------
(* The theorems *)

\* The device stays as it reported itself; its main parameter is one of its
\* clusters' and the three copies of its state are states of that cluster
\* (_add_device, _subscription, send_command).
THEOREM TypeCorrect == Spec => []TypeOK
<1>1. MainInv => TypeOK
  <2>1. SUFFICES ASSUME MainInv PROVE TypeOK
    OBVIOUS
  <2>2. /\ device \in Devices /\ subscribed \in BOOLEAN
        /\ Len(events) <= MaxEvents /\ Mapped /\ Sent
    BY <2>1 DEF MainInv
  <2>3. CASE ~ Paired
    BY <2>2, <2>3 DEF TypeOK, Mapped, Paired
  <2>4. CASE Paired
    <3>1. /\ IsMain(device, main) /\ {state, cached, stored} \subseteq States(Cluster)
          /\ events \in Seq(States(Cluster))
      BY <2>2, <2>4 DEF Mapped, Paired
    <3>2. \A i \in DOMAIN events : events[i] \in States(Cluster)
      BY <3>1
    <3>3. ASSUME call # None
          PROVE  call.command \in CommandsOf[Cluster] \cup {"write"}
      BY <2>2, <2>4, <3>3, SentCommand
    <3>4. QED
      BY <2>2, <3>1, <3>2, <3>3 DEF TypeOK, IsMain, Specs, Cluster
  <2>5. QED
    BY <2>3, <2>4
<1>2. QED
  BY <1>1, MainInvariant, PTL

\* No tap sends a command that the device does not list, nor writes an attribute
\* that it lacks: _get_main_parameter asks for every command that
\* _state_toggle_command can answer with.  A closure is the exception, and what it
\* may be sent is asked of no device.
THEOREM TapsAccepted ==
  ASSUME "ClosureControl" \notin Clusters
  PROVE  Spec => []AcceptsTaps
<1>1. MainInv => AcceptsTaps
  <2>1. SUFFICES ASSUME MainInv, call # None
                 PROVE  LET d == device[<<main.endpoint, Cluster>>] IN
                          IF call.command = "write"
                          THEN Listed(d.attributes, "state")
                          ELSE Listed(d.commands, call.command)
    BY DEF AcceptsTaps
  <2> DEFINE d == device[<<main.endpoint, Cluster>>]
  <2>2. Mapped /\ Sent /\ Paired /\ device \in Devices
    BY <2>1 DEF MainInv, Mapped, Paired
  <2>3. /\ <<main.endpoint, Cluster>> \in DOMAIN device
        /\ Supported(d, Cluster, main.spec)
        /\ IsMainSpec(Cluster, main.spec)
    BY <2>2, MainKind DEF Mapped, Paired, IsMain, Cluster
  <2>4. Cluster # "ClosureControl"
    <3>1. DOMAIN device \subseteq Endpoint \X Clusters
      BY <2>2 DEF Devices
    <3>2. QED
      BY <2>3, <3>1
  <2>5. CASE \E k \in CommandsOf[Cluster] :
                main.spec = Command(k) /\ IsTapCommand(Cluster, k)
    <3>1. PICK k \in CommandsOf[Cluster] :
                main.spec = Command(k) /\ IsTapCommand(Cluster, k)
      BY <2>5
    <3>2. ~ main.spec.attribute /\ main.spec.command = k /\ k # "write"
      BY <3>1 DEF Command, IsTapCommand
    <3>3. call.command = k /\ Listed(d.commands, k)
      BY <2>1, <2>2, <2>3, <3>2 DEF Sent, Supported
    <3>4. QED
      BY <3>2, <3>3
  <2>6. CASE Cluster = "FanControl" /\ main.spec = Attribute({0, 4})
    <3>1. main.spec.attribute
      BY <2>6 DEF Attribute
    <3>2. call.command = "write" /\ Listed(d.attributes, "state")
      BY <2>1, <2>2, <2>3, <2>6, <3>1 DEF Sent, Supported
    <3>3. QED
      BY <3>2
  <2>7. CASE /\ Cluster \in DOMAIN ToggleCommands
             /\ main.spec = Attribute(Toggles(Cluster))
    <3>1. /\ main.spec.attribute /\ main.spec.cycle = Toggles(Cluster)
          /\ Cluster # "FanControl"
      BY <2>7 DEF Attribute, ToggleCommands
    <3>2. /\ call.value \in Toggles(Cluster)
          /\ call.command = ToggleCommands[Cluster][call.value]
      BY <2>1, <2>2, <2>4, <3>1 DEF Sent
    <3>3. call.command # "write"
      BY <2>7, <3>2, TogglePairs DEF IsTogglePair, Effect
    <3>4. d.commands = {} \/ Needed(Cluster) \subseteq d.commands
      BY <2>3, <3>1 DEF Supported
    <3>5. call.command \in Needed(Cluster)
      BY <2>7, <3>2 DEF Needed, Toggles
    <3>6. QED
      BY <3>3, <3>4, <3>5 DEF Listed
  <2>8. QED
    BY <2>3, <2>4, <2>5, <2>6, <2>7 DEF IsMainSpec
<1>2. QED
  BY <1>1, MainInvariant, PTL

\* What an oven or a washing machine is sent pauses or resumes a cycle that the
\* last report said there is: _state_toggle_command looks at the cached state, and
\* STATE_TOGGLE_COMMANDS has no Start for it.
THEOREM IdleLeftAlone == Spec => []NeverFromIdle
<1>1. MainInv => NeverFromIdle
  <2>1. SUFFICES ASSUME MainInv, call # None, Cluster = "OperationalState"
                 PROVE  call.command \in {"Pause", "Resume"} /\ call.seen \in {1, 2}
    BY DEF NeverFromIdle
  <2>2. Mapped /\ Sent /\ Paired
    BY <2>1 DEF MainInv, Mapped, Paired
  <2>3. main.spec = Attribute(Toggles(Cluster))
    BY <2>1, <2>2, MainKind DEF IsMainSpec, IsTapCommand
  <2>4. Toggles(Cluster) = {1, 2}
    BY <2>1 DEF Toggles, ToggleCommands, Taps
  <2>5. /\ call.value \in Toggles(Cluster) /\ call.seen \in {1, 2}
        /\ call.command = ToggleCommands[Cluster][call.value]
    BY <2>1, <2>2, <2>3 DEF Sent, Attribute
  <2>6. QED
    BY <2>1, <2>4, <2>5 DEF ToggleCommands, Taps
<1>2. QED
  BY <1>1, MainInvariant, PTL

\* A state that is a main parameter has the role of a control, and its taps raise
\* for nothing but an idle appliance: the value that the Hub sends is one that
\* _state_toggle_command has a command for, or that may be written.
THEOREM TapsAlwaysAct == Spec => []TapsAct
<1>1. MainInv => TapsAct
  <2>1. SUFFICES ASSUME MainInv PROVE TapsAct
    OBVIOUS
  <2>2. error \in {None, "idle"} /\ Mapped
    BY <2>1 DEF MainInv
  <2>3. ASSUME Paired, main.spec.attribute
        PROVE  Role(Cluster) = "control"
    <3>1. IsMainSpec(Cluster, main.spec)
      BY <2>2, <2>3, MainKind
    <3>2. \/ Cluster = "FanControl"
          \/ Cluster \in DOMAIN ToggleCommands \cup {"ClosureControl"}
      <4>1. \A k : ~ Command(k).attribute
        BY DEF Command
      <4>2. QED
        BY <2>3, <3>1, <4>1, Zenon DEF IsMainSpec
    <3>3. QED
      BY <3>2 DEF Role, HasToggle, EverydayControls
  <2>4. QED
    BY <2>2, <2>3 DEF TapsAct
<1>2. QED
  BY <1>1, MainInvariant, PTL

\* A tap that is obeyed while the device still is in the state the Hub knew leaves
\* it in the other state of the cycle (STATE_TOGGLE_COMMANDS against the cycles of
\* MAIN_PARAMETER_BY_CLUSTER).
THEOREM TapsToggle == Spec => TapToggles
<1>1. MainInv /\ [Next]_vars =>
        [Done /\ main.spec.attribute /\ Cluster # "ClosureControl"
           /\ call.from = state /\ state \in main.spec.cycle
         => state' \in main.spec.cycle \ {state}]_vars
  <2>1. SUFFICES ASSUME MainInv, Done, main.spec.attribute,
                        Cluster # "ClosureControl", call.from = state,
                        state \in main.spec.cycle
                 PROVE  state' \in main.spec.cycle \ {state}
    OBVIOUS
  <2>2. state' = call.value
    BY <2>1, DoneLeads
  <2>3. call.value \in main.spec.cycle /\ call.value # call.from
    BY <2>1 DEF MainInv, Sent, Done
  <2>4. QED
    BY <2>1, <2>2, <2>3
<1>2. QED
  BY <1>1, MainInvariant, PTL DEF Spec, TapToggles
===============================================================================
