-------------------------------- MODULE Outage --------------------------------
(***************************************************************************)
(* The connection of MatterController to matterjs-server in time: _connect *)
(* step by step, the delays and the report of _stay_connected, a start     *)
(* that fails, a task that crashes, and what stop() leaves behind.  What a *)
(* sync does to devices and offers is the subject of MatterController, and *)
(* here a step that ends or fails.                                         *)
(*                                                                         *)
(* A moment of the code is an age: the time since it, in units of          *)
(* _RECONNECT_DELAY, counted no further than it is ever compared with.     *)
(***************************************************************************)
EXTENDS Integers

CONSTANTS
  DelayMax,          \* _RECONNECT_DELAY_MAX
  UnreachableAfter,  \* _UNREACHABLE_AFTER
  Stable             \* _STABLE_CONNECTION

ASSUME DurationsAssumption ==
  /\ DelayMax \in Nat \ {0}
  /\ UnreachableAfter \in Nat
  /\ Stable \in Nat \ {0}

Delay == 1   \* _RECONNECT_DELAY
None == -1   \* the age of what did not happen yet

OutageAge == {None} \cup 0..(UnreachableAfter + 1)
HeldAge == {None} \cup 0..Stable

\* _connect awaits: the WebSocket, its node list, the turn after init_ready
Connecting == {"opening", "readying", "ready"}
Pc == Connecting \cup {"stopped", "syncing", "listen", "losing", "sleep",
                       "crashed", "failed", "stopping"}

VARIABLES
  server,    \* matterjs-server accepts and keeps connections
  pc,        \* where start(), _stay_connected or stop() is
  starting,  \* it is start()
  running,   \* a listener task runs (there is never more than one)
  session,   \* _matter_client_session is open
  since,     \* age of outage_since
  held,      \* age of connected_at, while it is waited for the listener
  failed,    \* failed_at - outage_since
  delay,     \* delay
  left,      \* what is left of the sleep
  reported,  \* is_reported
  errors,    \* what the Hub was told and not told resolved, in this run
  heard,     \* turns with every error told or resolved (history), so that the
             \* same error told again is a step too
  outage,    \* age of the outage (history): began with the first loss after a
             \* connection that held, or the first of all
  noticed    \* its age when the last loss or failed attempt was noticed

code == <<since, held, failed, delay, left, reported>>
told == <<errors, heard>>
history == <<outage, noticed>>
vars == <<server, pc, starting, running, session, since, held, failed,
          delay, left, reported, errors, heard, outage, noticed>>

Init ==
  /\ server \in BOOLEAN
  /\ pc = "stopped"
  /\ starting = FALSE
  /\ running = FALSE
  /\ session = FALSE
  /\ since = None /\ held = None /\ failed = None
  /\ delay = Delay /\ left = 0
  /\ reported = FALSE
  /\ errors = {} /\ heard = FALSE
  /\ outage = None /\ noticed = None

-------------------------------------------------------------------------------
\* Time and matterjs-server

\* The age after one more unit of time
Older(age, cap) == IF age \in {None, cap} THEN age ELSE age + 1

\* The loop has something to do at once, so that no time passes
Urgent ==
  \/ pc = "ready"
  \/ pc = "sleep" /\ left = 0
  \/ pc \in {"readying", "listen"} /\ ~running

Tick ==
  /\ ~Urgent
  /\ since' = Older(since, UnreachableAfter + 1)
  /\ outage' = Older(outage, UnreachableAfter + 1)
  /\ held' = IF pc = "listen" THEN Older(held, Stable) ELSE held
  /\ left' = IF pc = "sleep" THEN left - 1 ELSE left
  /\ UNCHANGED <<server, pc, starting, running, session, failed, delay,
                 reported, told, noticed>>

\* Its container goes away, with every connection; or it drops them
GoAway ==
  /\ server
  /\ server' = FALSE
  /\ running' = FALSE
  /\ UNCHANGED <<pc, starting, session, code, told, history>>

ComeBack ==
  /\ ~server
  /\ server' = TRUE
  /\ UNCHANGED <<pc, starting, running, session, code, told, history>>

-------------------------------------------------------------------------------
\* _connect, of start() and of _stay_connected

\* start() opens the session and connects
Start ==
  /\ pc = "stopped"
  /\ session' = TRUE
  /\ pc' = "opening"
  /\ starting' = TRUE
  /\ since' = None /\ held' = None /\ failed' = None
  /\ delay' = Delay /\ left' = 0
  /\ reported' = FALSE
  /\ errors' = {}
  /\ outage' = None /\ noticed' = None
  /\ UNCHANGED <<server, running, heard>>

\* client.connect() is through: the listener runs until the connection ends
Open ==
  /\ pc = "opening"
  /\ server
  /\ running' = TRUE
  /\ pc' = "readying"
  /\ UNCHANGED <<server, starting, session, code, told, history>>

\* matterjs-server sent its node list: init_ready is set
NodeList ==
  /\ pc = "readying"
  /\ running
  /\ pc' = "ready"
  /\ UNCHANGED <<server, starting, running, session, code, told,
                 history>>

\* init_ready was set, be the connection lost again by now: the sync begins
Connected ==
  /\ pc = "ready"
  /\ pc' = "syncing"
  /\ UNCHANGED <<server, starting, running, session, code, told, history>>

\* Mutant: an outage is not looked at where the loop sleeps
BackOffTold(age) ==
  /\ UNCHANGED <<told, reported>>
  /\ left' = delay
  /\ pc' = "sleep"

\* Mutant: reported again at every failed attempt
BackOffRepeats(age) ==
  /\ IF age > UnreachableAfter
       THEN /\ errors' = errors \cup {"server-unreachable"}
            /\ heard' = ~heard
            /\ reported' = TRUE
       ELSE UNCHANGED <<told, reported>>
  /\ left' = delay
  /\ pc' = "sleep"

\* The top of the inner loop: an outage of the age given is reported when it is
\* old enough, once for this loop, and the sleep begins
BackOff(age) ==
  /\ IF ~reported /\ age > UnreachableAfter
       THEN /\ errors' = errors \cup {"server-unreachable"}
            /\ heard' = ~heard
            /\ reported' = TRUE
       ELSE UNCHANGED <<told, reported>>
  /\ left' = delay
  /\ pc' = "sleep"

\* Mutant: nobody sees a connection that ends before the node list
ConnectFailsOpening ==
  /\ pc = "opening" /\ ~server
  /\ IF starting
       THEN /\ pc' = "failed"
            /\ starting' = FALSE
            /\ UNCHANGED <<code, told, history>>
       ELSE /\ failed' = since
            /\ noticed' = outage
            /\ BackOff(since)
            /\ UNCHANGED <<starting, since, held, delay, outage>>
  /\ UNCHANGED <<server, running, session>>

\* matterjs-server refuses the connection, or ends it before its node list
ConnectFails ==
  /\ \/ pc = "opening" /\ ~server
     \/ pc = "readying" /\ ~running
  /\ IF starting
       THEN /\ pc' = "failed"
            /\ starting' = FALSE
            /\ UNCHANGED <<code, told, history>>
       ELSE /\ failed' = since
            /\ noticed' = outage
            /\ BackOff(since)
            /\ UNCHANGED <<starting, since, held, delay, outage>>
  /\ UNCHANGED <<server, running, session>>

-------------------------------------------------------------------------------
\* _stay_connected

\* The sync is over.  What was reported is resolved and the next turn of the
\* loop takes the time; start() creates the task, which does the same.
SyncDone ==
  /\ pc = "syncing"
  /\ IF reported
       THEN /\ errors' = errors \ {"server-unreachable"}
            /\ heard' = ~heard
       ELSE UNCHANGED told
  /\ held' = 0
  /\ pc' = "listen"
  /\ starting' = FALSE
  /\ UNCHANGED <<server, running, session, since, failed, delay, left,
                 reported, history>>

\* Mutant: every lost connection begins an outage of its own
IsNewOutageEach == TRUE

\* Mutant: an outage goes on for ever
IsNewOutageFirst == since = None

\* The connection that ended held long enough, or none was lost before
IsNewOutage == since = None \/ held = Stable

\* The listener ended.  is_reported is reset where the inner loop begins; nothing
\* reads it before.
Lost ==
  /\ pc = "listen"
  /\ ~running
  /\ IF IsNewOutage
       THEN since' = 0 /\ delay' = Delay
       ELSE UNCHANGED <<since, delay>>
  /\ failed' = since'
  /\ held' = None
  /\ reported' = FALSE
  /\ outage' = IF outage = None \/ held = Stable THEN 0 ELSE outage
  /\ noticed' = outage'
  /\ pc' = "losing"
  /\ UNCHANGED <<server, starting, running, session, left, told>>

\* The devices are lost: each is a call of the Hub
DevicesLost ==
  /\ pc = "losing"
  /\ BackOff(failed)
  /\ UNCHANGED <<server, starting, running, session, since, held,
                 failed, delay, history>>

\* Mutant: the delay has no limit
WakeUncapped ==
  /\ pc = "sleep"
  /\ left = 0
  /\ delay' = 2 * delay
  /\ pc' = "opening"
  /\ UNCHANGED <<server, starting, running, session, since, held,
                 failed, left, reported, told, history>>

\* The sleep is over, and the next one twice as long
Wake ==
  /\ pc = "sleep"
  /\ left = 0
  /\ delay' = IF 2 * delay < DelayMax THEN 2 * delay ELSE DelayMax
  /\ pc' = "opening"
  /\ UNCHANGED <<server, starting, running, session, since, held,
                 failed, left, reported, told, history>>

\* Mutant: nobody cancels the listener
CrashKeepsListener ==
  /\ errors' = errors \cup {"crashed"}
  /\ heard' = ~heard
  /\ pc' = "crashed"
  /\ UNCHANGED <<running, starting>>

\* What ends the task is told to the Hub; finally: listener.cancel()
Crash ==
  /\ errors' = errors \cup {"crashed"}
  /\ heard' = ~heard
  /\ pc' = "crashed"
  /\ running' = FALSE
  /\ UNCHANGED starting

\* What is no connection error: a server of another version, the repository or a
\* call of the Hub fails.  A start() that fails leaves its listener to stop().
Breaks ==
  /\ pc \in {"opening", "syncing", "losing"} \/ (pc = "sleep" /\ reported)
  /\ IF starting
       THEN /\ pc' = "failed"
            /\ starting' = FALSE
            /\ UNCHANGED <<told, running>>
       ELSE Crash
  /\ UNCHANGED <<server, session, code, history>>

-------------------------------------------------------------------------------
\* stop()

\* The tasks are cancelled, and a start() that is under way ends with them.  A
\* _connect that is cancelled when init_ready is set does not cancel its
\* listener, and has not returned it yet.
Stop ==
  /\ pc \notin {"stopped", "stopping"}
  /\ running' = (running /\ pc = "ready")
  /\ pc' = "stopping"
  /\ starting' = FALSE
  /\ UNCHANGED <<server, session, code, told, history>>

\* The tasks are over, the client is disconnected, and the session is closed,
\* which ends every connection made with it, the listener nobody holds too
Stopped ==
  /\ pc = "stopping"
  /\ pc' = "stopped"
  /\ session' = FALSE
  /\ running' = FALSE
  /\ UNCHANGED <<server, starting, code, told, history>>

-------------------------------------------------------------------------------
Connection ==
  Open \/ NodeList \/ Connected \/ ConnectFails \/ SyncDone \/ Lost
    \/ DevicesLost \/ Wake

Next ==
  \/ Tick \/ GoAway \/ ComeBack
  \/ Start \/ Connection \/ Breaks \/ Stop \/ Stopped

Spec == Init /\ [][Next]_vars

\* The loop runs what is ready, time passes, and a matterjs-server that stays
\* up answers
FairSpec ==
  /\ Spec
  /\ WF_vars(Connection)
  /\ WF_vars(Stopped)
  /\ WF_vars(Tick)

-------------------------------------------------------------------------------
TypeOK ==
  /\ server \in BOOLEAN
  /\ pc \in Pc
  /\ starting \in BOOLEAN
  /\ running \in BOOLEAN
  /\ session \in BOOLEAN
  /\ since \in OutageAge
  /\ held \in HeldAge
  /\ failed \in OutageAge
  /\ delay \in 1..DelayMax
  /\ left \in 0..DelayMax
  /\ reported \in BOOLEAN
  /\ errors \subseteq {"server-unreachable", "crashed"}
  /\ heard \in BOOLEAN
  /\ outage \in OutageAge
  /\ noticed \in OutageAge

\* The user hears of an unreachable server only in an outage that lasted longer
\* than _UNREACHABLE_AFTER, however often it came back for a moment, and never
\* while its connection is listened to.
ReportIsOfAnOutage ==
  "server-unreachable" \in errors =>
    outage > UnreachableAfter /\ pc # "listen"

\* An outage that was that old when a loss or a failed attempt was noticed is
\* reported by the time the next attempt is waited for: a server that sends its
\* node list and drops every time is, too.
OutageIsReported ==
  pc = "sleep" /\ noticed > UnreachableAfter => "server-unreachable" \in errors

\* A listener that runs is somebody's: _connect's, the task's, or, after a start
\* that failed, stop()'s.  None runs on after a crash, or after stop().
ListenerIsFollowed ==
  running => pc \in {"readying", "ready", "syncing", "listen", "failed", "stopping"}

\* Attempts get rarer for as long as one outage lasts: the delay shrinks only
\* where an outage begins.
RarerInAnOutage ==
  [][delay' < delay => outage' # outage /\ outage' \in {None, 0}]_vars

\* With a matterjs-server that stays up, the reconnecting does not go on for
\* ever: it is listened to again, or the task was crashed, failed or stopped.
Reconnects ==
  <>[]server => []<>(pc \in {"listen", "crashed", "failed", "stopped"})

\* What the user is told of it all
Notice == INSTANCE ServerNotice
            WITH matter <- CASE pc \in {"stopped", "stopping", "crashed", "failed"} -> "off"
                             [] pc = "listen" -> "following"
                             [] OTHER -> IF starting THEN "starting" ELSE "away",
                 lasting <- outage > UnreachableAfter,
                 told <- errors,
                 heard <- heard

\* The errors keep the promises of ServerNotice, whatever fails where: what was
\* told of an outage is not told again before a sync resolved it, is resolved by
\* the sync that connects again and by nothing else, and what crashed or was
\* stopped neither tells nor resolves any more (_stay_connected, stop).  The same
\* outage is told again after a reconnect that did not hold.
NoticeKept == Notice!Spec
===============================================================================
