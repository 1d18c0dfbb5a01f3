---------------------------- MODULE MainParameter ----------------------------
(***************************************************************************)
(* The one-tap main parameter of a paired device: how _add_device and      *)
(* _get_main_parameter pick it from what the node says it supports, how    *)
(* the Hub's tap of it becomes a command (send_command), and the device    *)
(* state, its cache in the Matter client and the Hub's value, which are    *)
(* three copies that change at different times.                            *)
(*                                                                         *)
(* A cluster has one state attribute and the commands the tables name; an  *)
(* id is a name.  Left out: the other parameters, argument values, timed   *)
(* invokes, and what a refused command leads to.                           *)
(***************************************************************************)
EXTENDS Integers, Sequences, FiniteSets

CONSTANTS
  Clusters,     \* those a device may have, names of MainSpecs
  MaxEndpoint,  \* the endpoints are 1..MaxEndpoint
  MaxClusters,  \* a bound on the clusters of a device
  MaxEvents,    \* a bound on the events on their way to the Hub
  None          \* no main parameter, no call, no error

Endpoint == 1 .. MaxEndpoint

-------------------------------------------------------------------------------
(* matter_spec.py *)

Attribute(cycle) == [attribute |-> TRUE, command |-> "write", cycle |-> cycle]
Command(name) == [attribute |-> FALSE, command |-> name, cycle |-> {}]

\* MAIN_PARAMETER_BY_CLUSTER: its order, and for each cluster a parameter and its
\* fallbacks
Priority ==
  <<"OnOff", "FanControl", "TemperatureControl", "OperationalState",
    "RvcOperationalState", "ModeSelect", "DoorLock", "MediaPlayback",
    "WindowCovering", "ClosureControl", "Chime", "Valve">>

MainSpecs ==
  [OnOff               |-> <<Command("Toggle")>>,
   FanControl          |-> <<Attribute({0, 4})>>,
   TemperatureControl  |-> <<Command("SetTemperature")>>,
   OperationalState    |-> <<Attribute({1, 2})>>,
   RvcOperationalState |-> <<Attribute({1, 2}), Command("Resume")>>,
   ModeSelect          |-> <<Command("ChangeToMode")>>,
   DoorLock            |-> <<Attribute({1, 2})>>,
   MediaPlayback       |-> <<Attribute({0, 1}), Command("Play")>>,
   WindowCovering      |-> <<Attribute({0, 100}), Command("UpOrOpen")>>,
   ClosureControl      |-> <<Attribute({1})>>,
   Chime               |-> <<Command("PlayChimeSound")>>,
   Valve               |-> <<Attribute({0, 1})>>]

ASSUME MainParameterAssumption ==
  /\ Clusters \subseteq DOMAIN MainSpecs
  /\ MaxEndpoint \in Nat /\ MaxClusters \in Nat /\ MaxEvents \in Nat

\* Two states and the command that sets each
Taps(state1, command1, state2, command2) ==
  [v \in {state1, state2} |-> IF v = state1 THEN command1 ELSE command2]

\* Mutant: a cover's percentage is taken for how far it is open
ToggleCommandsOpenness ==
  [DoorLock            |-> Taps(1, "LockDoor", 2, "UnlockDoor"),
   Valve               |-> Taps(0, "Close", 1, "Open"),
   WindowCovering      |-> Taps(0, "DownOrClose", 100, "UpOrOpen"),
   MediaPlayback       |-> Taps(0, "Play", 1, "Pause"),
   RvcOperationalState |-> Taps(1, "Resume", 2, "Pause"),
   OperationalState    |-> Taps(1, "Resume", 2, "Pause")]

\* Mutant: a vacuum is started, which its cluster has no command for
ToggleCommandsStart ==
  [DoorLock            |-> Taps(1, "LockDoor", 2, "UnlockDoor"),
   Valve               |-> Taps(0, "Close", 1, "Open"),
   WindowCovering      |-> Taps(0, "UpOrOpen", 100, "DownOrClose"),
   MediaPlayback       |-> Taps(0, "Play", 1, "Pause"),
   RvcOperationalState |-> Taps(1, "Start", 2, "Pause"),
   OperationalState    |-> Taps(1, "Resume", 2, "Pause")]

\* STATE_TOGGLE_COMMANDS: the command that sets a state
ToggleCommands ==
  [DoorLock            |-> Taps(1, "LockDoor", 2, "UnlockDoor"),
   Valve               |-> Taps(0, "Close", 1, "Open"),
   WindowCovering      |-> Taps(0, "UpOrOpen", 100, "DownOrClose"),
   MediaPlayback       |-> Taps(0, "Play", 1, "Pause"),
   RvcOperationalState |-> Taps(1, "Resume", 2, "Pause"),
   OperationalState    |-> Taps(1, "Resume", 2, "Pause")]

HasToggle(c) == c \in DOMAIN ToggleCommands \cup {"ClosureControl"}

\* USER_READINGS, EVERYDAY_CONTROL_ATTRIBUTES, EVERYDAY_COMMANDS: of the clusters
\* above
UserReadings == {"OnOff", "DoorLock", "WindowCovering", "OperationalState",
                 "RvcOperationalState", "ModeSelect"}
EverydayControls == {"FanControl", "TemperatureControl"}
EverydayCommands ==
  {"Toggle", "SetTemperature", "Pause", "Start", "Resume", "ChangeToMode",
   "LockDoor", "UnlockDoor", "Play", "UpOrOpen", "DownOrClose", "Stop", "MoveTo",
   "PlayChimeSound", "Open", "Close"}

\* Mutant: a state that is a reading too keeps the role of a reading
RoleReadingFirst(c) ==
  IF c \in UserReadings THEN "sensor"
  ELSE IF HasToggle(c) \/ c \in EverydayControls THEN "control"
  ELSE "hidden"

\* _our_attribute_ux and classify_attribute: the role of a state as a user
\* parameter; the other states are no main parameter and hidden here
Role(c) ==
  IF HasToggle(c) \/ c \in EverydayControls THEN "control"
  ELSE IF c \in UserReadings THEN "sensor"
  ELSE "hidden"

-------------------------------------------------------------------------------
(* The Matter clusters, as the tables and the tests use them *)

CommandsOf ==
  [OnOff               |-> {"Toggle"},
   FanControl          |-> {},
   TemperatureControl  |-> {"SetTemperature"},
   OperationalState    |-> {"Pause", "Start", "Resume"},
   RvcOperationalState |-> {"Pause", "Resume"},
   ModeSelect          |-> {"ChangeToMode"},
   DoorLock            |-> {"LockDoor", "UnlockDoor"},
   MediaPlayback       |-> {"Play", "Pause"},
   WindowCovering      |-> {"UpOrOpen", "DownOrClose"},
   ClosureControl      |-> {"Stop", "MoveTo"},
   Chime               |-> {"PlayChimeSound"},
   Valve               |-> {"Open", "Close"}]

\* The states of a device: those of the cycle, and one that is not.  A closure is
\* 1 while it moves or is about to, Closed at rest and fully closed, 0 at rest
\* otherwise.
Closed == 2
States(c) ==
  CASE c \in {"OperationalState", "RvcOperationalState", "DoorLock"} -> {0, 1, 2}
    [] c = "WindowCovering" -> {0, 40, 100}
    [] c \in {"MediaPlayback", "Valve", "ClosureControl"} -> {0, 1, 2}
    [] c = "FanControl" -> {0, 3, 4}
    [] OTHER -> {0}

\* The state a command leads to
Effect ==
  [LockDoor |-> 1, UnlockDoor |-> 2, Close |-> 0, Open |-> 1, UpOrOpen |-> 0,
   DownOrClose |-> 100, Play |-> 0, Resume |-> 1, Start |-> 1]

EffectOf(c, command) ==
  IF command = "Pause" THEN IF c = "MediaPlayback" THEN 1 ELSE 2
  ELSE Effect[command]

\* An endpoint's cluster, as the node reports it; an empty list was not reported
Report(c) ==
  [attributes : {{}, {"state"}, {"other"}}, commands : SUBSET CommandsOf[c]]

Devices ==
  UNION {{d \in [at -> UNION {Report(c) : c \in Clusters}] :
            \A ec \in at : d[ec] \in Report(ec[2])} :
           at \in {s \in SUBSET (Endpoint \X Clusters) :
                     Cardinality(s) \in 1 .. MaxClusters}}

-------------------------------------------------------------------------------
(* _get_main_parameter *)

\* "An empty list means the device didn't report it: assume supported"
Listed(list, x) == list = {} \/ x \in list

\* The commands a state toggle taps through
Needed(c) ==
  IF c \in DOMAIN ToggleCommands
  THEN {ToggleCommands[c][v] : v \in DOMAIN ToggleCommands[c]}
  ELSE {}

\* Mutant: a toggle is picked whatever commands the device has
SupportedAttribute(d, c, spec) ==
  IF spec.attribute
  THEN Listed(d.attributes, "state")
  ELSE Listed(d.commands, spec.command)

\* The node supports the parameter
Supported(d, c, spec) ==
  IF spec.attribute
  THEN /\ Listed(d.attributes, "state")
       /\ d.commands = {} \/ Needed(c) \subseteq d.commands
  ELSE Listed(d.commands, spec.command)

\* parse_attributes, parse_commands made a user parameter of it
IsUserState(d, c) == Listed(d.attributes, "state") /\ Role(c) # "hidden"
IsUserCommand(d, command) ==
  Listed(d.commands, command) /\ command \in EverydayCommands

\* Endpoint, place in Priority, place in MainSpecs: in the order they are tried
Candidates(device) ==
  {p \in Endpoint \X (1 .. Len(Priority)) \X {1, 2} :
     LET c == Priority[p[2]] IN
       /\ <<p[1], c>> \in DOMAIN device
       /\ p[3] \in DOMAIN MainSpecs[c]
       /\ LET d == device[<<p[1], c>>]  spec == MainSpecs[c][p[3]] IN
            /\ Supported(d, c, spec)
            /\ IF spec.attribute THEN IsUserState(d, c)
               ELSE IsUserCommand(d, spec.command)}

TriedBefore(p, q) ==
  \/ p[1] < q[1]
  \/ p[1] = q[1] /\ p[2] < q[2]
  \/ p[1] = q[1] /\ p[2] = q[2] /\ p[3] < q[3]

GetMainParameter(device) ==
  IF Candidates(device) = {} THEN None
  ELSE LET p == CHOOSE p \in Candidates(device) :
                  \A q \in Candidates(device) \ {p} : TriedBefore(p, q)
           c == Priority[p[2]]
       IN [endpoint |-> p[1], cluster |-> c, spec |-> MainSpecs[c][p[3]]]

-------------------------------------------------------------------------------
VARIABLES
  device,      \* the node, as it reports itself
  main,        \* main_parameter of the device, once it is mapped
  subscribed,  \* _subscription is in place
  state,       \* the state attribute of the main parameter's cluster
  cached,      \* ... in the client's node
  stored,      \* ... at the Hub
  events,      \* attribute events on their way to the Hub
  call,        \* the command that is on its way to the device
  error        \* why the last tap raised

vars == <<device, main, subscribed, state, cached, stored, events, call, error>>

Paired == main # None
Cluster == main.cluster

Init ==
  /\ device \in Devices
  /\ main = None
  /\ subscribed = FALSE
  /\ state = 0 /\ cached = 0 /\ stored = 0
  /\ events = <<>>
  /\ call = None
  /\ error = None

\* _add_device maps the node and saves the row
Map ==
  /\ ~Paired
  /\ main' = GetMainParameter(device)
  /\ main' # None
  /\ state' \in States(main'.cluster)
  /\ cached' = state' /\ stored' = state'
  /\ UNCHANGED <<device, subscribed, events, call, error>>

\* ... and subscribes, once the Hub took the device
Subscribe ==
  /\ Paired /\ ~subscribed
  /\ subscribed' = TRUE
  /\ UNCHANGED <<device, main, state, cached, stored, events, call, error>>

\* Somebody uses the device
Used ==
  /\ Paired
  /\ state' \in States(Cluster) \ {state}
  /\ UNCHANGED <<device, main, subscribed, cached, stored, events, call, error>>

\* matterjs-server reports the state; the callback makes an event of it
Reported ==
  /\ Paired
  /\ cached # state
  /\ Len(events) < MaxEvents
  /\ cached' = state
  /\ events' = IF subscribed THEN Append(events, state) ELSE events
  /\ UNCHANGED <<device, main, subscribed, state, stored, call, error>>

\* A new client after an outage: its node is up to date, no event says so
Reconnected ==
  /\ Paired /\ subscribed
  /\ cached' = state
  /\ UNCHANGED <<device, main, subscribed, state, stored, events, call, error>>

\* The Hub takes the events in turn
Delivered ==
  /\ events # <<>>
  /\ stored' = Head(events)
  /\ events' = Tail(events)
  /\ UNCHANGED <<device, main, subscribed, state, cached, call, error>>

-------------------------------------------------------------------------------
(* A tap *)

Least(S) == CHOOSE x \in S : \A y \in S : x <= y

\* What the Hub sends for a tap: the cycle's next value after the stored one
NextValue(cycle) ==
  IF cycle = {} THEN None
  ELSE LET later == {v \in cycle : v > stored} IN
         IF stored \in cycle /\ later # {} THEN Least(later) ELSE Least(cycle)

Send(command, value) ==
  /\ call' = [command |-> command, value |-> value, from |-> stored,
              seen |-> cached]
  /\ error' = None

Raise(why) ==
  /\ error' = why
  /\ UNCHANGED call

\* Mutant: an appliance that is idle is resumed as well
StateToggleAnyState(value) ==
  IF Cluster = "ClosureControl"
  THEN Send(IF cached = 1 THEN "Stop" ELSE "MoveTo",
            IF cached = Closed THEN 0 ELSE Closed)
  ELSE IF value \notin DOMAIN ToggleCommands[Cluster]
  THEN Raise("cannot be set")
  ELSE Send(ToggleCommands[Cluster][value], value)

\* _state_toggle_command: by the cached state
StateToggle(value) ==
  IF Cluster = "ClosureControl"
  THEN Send(IF cached = 1 THEN "Stop" ELSE "MoveTo",
            IF cached = Closed THEN 0 ELSE Closed)
  ELSE IF Cluster = "OperationalState" /\ cached \notin {1, 2}
  THEN Raise("idle")
  ELSE IF value \notin DOMAIN ToggleCommands[Cluster]
  THEN Raise("cannot be set")
  ELSE Send(ToggleCommands[Cluster][value], value)

\* _execute_cluster_command: with the default arguments
ExecuteCommand == Send(main.spec.command, None)

Ignore ==
  /\ error' = None
  /\ UNCHANGED call

\* _write_cluster_attribute: nothing is said where the node has no such attribute
WriteAttribute(value) ==
  IF Role(Cluster) # "control" THEN Raise("not writable")
  ELSE IF ~Listed(device[<<main.endpoint, Cluster>>].attributes, "state")
  THEN Ignore
  ELSE Send("write", value)

\* send_command; a bound: one at a time
Tap ==
  /\ Paired
  /\ call = None
  /\ IF ~main.spec.attribute THEN ExecuteCommand
     ELSE LET value == NextValue(main.spec.cycle) IN
            IF HasToggle(Cluster) THEN StateToggle(value)
            ELSE WriteAttribute(value)
  /\ UNCHANGED <<device, main, subscribed, state, cached, stored, events>>

\* The device obeys
Done ==
  /\ call # None
  /\ call' = None
  /\ state' = IF call.command = "write" THEN call.value
              ELSE IF call.command \in DOMAIN Effect \cup {"Pause"}
              THEN EffectOf(Cluster, call.command)
              ELSE IF call.command = "Stop" THEN 0
              ELSE IF call.command = "MoveTo" THEN 1
              ELSE state
  /\ UNCHANGED <<device, main, subscribed, cached, stored, events, error>>

\* It refuses, or the connection is lost
Refused ==
  /\ call # None
  /\ call' = None
  /\ UNCHANGED <<device, main, subscribed, state, cached, stored, events, error>>

Next ==
  \/ Map \/ Subscribe \/ Used \/ Reported \/ Reconnected \/ Delivered
  \/ Tap \/ Done \/ Refused

Spec == Init /\ [][Next]_vars

-------------------------------------------------------------------------------
(* Properties *)

\* The values of the variables.
TypeOK ==
  /\ device \in Devices
  /\ \/ main = None
     \/ /\ <<main.endpoint, main.cluster>> \in DOMAIN device
        /\ main.spec \in {MainSpecs[Cluster][i] : i \in DOMAIN MainSpecs[Cluster]}
        /\ {state, cached, stored} \subseteq States(Cluster)
        /\ \A i \in DOMAIN events : events[i] \in States(Cluster)
  /\ subscribed \in BOOLEAN
  /\ Len(events) <= MaxEvents
  /\ \/ call = None
     \/ call.command \in CommandsOf[Cluster] \cup {"write"}

\* "A state toggle also needs every command it taps through": the command that a
\* tap sends is one the device says it accepts, and a write goes to an attribute
\* it has (_get_main_parameter against _state_toggle_command).
AcceptsTaps ==
  call # None =>
    LET d == device[<<main.endpoint, Cluster>>] IN
      IF call.command = "write" THEN Listed(d.attributes, "state")
      ELSE Listed(d.commands, call.command)

\* An oven "must not start in one tap": what is sent to an appliance pauses or
\* resumes a cycle, and only if the last report said that there is one.
NeverFromIdle ==
  call # None /\ Cluster = "OperationalState" =>
    call.command \in {"Pause", "Resume"} /\ call.seen \in {1, 2}

\* A main parameter is one that a tap can set: the tables of its cycles, of its
\* commands and of its role agree, so that the Hub forwards a tap ("for control
\* parameters only") and one raises for an idle appliance only.
TapsAct ==
  /\ error \in {None, "idle"}
  /\ Paired /\ main.spec.attribute => Role(Cluster) = "control"

\* A tap toggles: if the device still is in the state that the Hub knew at the tap,
\* and obeys, it ends up in the cycle's other state.
TapToggles ==
  [][Done /\ main.spec.attribute /\ Cluster # "ClosureControl"
       /\ call.from = state /\ state \in main.spec.cycle
     => state' \in main.spec.cycle \ {state}]_vars
===============================================================================
