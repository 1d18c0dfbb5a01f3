------------------------------- MODULE Networks -------------------------------
(***************************************************************************)
(* The hand-over of the hub's networks to matterjs-server: a sync hands    *)
(* them over first of all, platform_facts_did_change in a task of its own, *)
(* and any number of hand-overs may be under way.  The connection is that  *)
(* of Outage without its times.                                            *)
(*                                                                         *)
(* A hand-over reads the Wi-Fi when it begins and the Thread network once  *)
(* the Wi-Fi was answered.  matterjs-server answers in the order asked.    *)
(***************************************************************************)
EXTENDS Naturals, Sequences

CONSTANTS
  Versions, \* how many networks of a kind the hub may have had (a bound)
  Hook,     \* the hand-overs of hooks that may be under way together (a bound)
  Sync,     \* the hand-over of the sync
  Losses    \* how often matterjs-server may go away (a bound)

ASSUME NetworksAssumption ==
  /\ Versions \in Nat \ {0}
  /\ Sync \notin Hook
  /\ Losses \in Nat

Kind == {"wifi", "thread"}
NoNetwork == 0
Version == 1..Versions
Task == Hook \cup {Sync}
Call == [by : Task, kind : Kind, network : Version]

VARIABLES
  facts,   \* self.platform's network of each kind, or NoNetwork
  latest,  \* the newest network of each kind so far
  bad,     \* the networks matterjs-server refuses, by kind
  held,    \* the networks it holds
  up,      \* it is there
  losses,  \* how often it may still go away
  pc,      \* where the connection is
  client,  \* _matter_client: "none", one with a "lost" or a "live" connection
  task,    \* where each hand-over is
  wire     \* the calls that wait for an answer

platform == <<facts, latest>>
matterjs == <<bad, held, up, losses>>
vars == <<facts, latest, bad, held, up, losses, pc, client, task, wire>>

Init ==
  /\ facts \in [Kind -> {NoNetwork, 1}]
  /\ latest = facts
  /\ bad \in [Kind -> SUBSET Version]
  /\ held = [k \in Kind |-> NoNetwork]
  /\ up = TRUE
  /\ losses = Losses
  /\ pc = "stopped"
  /\ client = "none"
  /\ task = [t \in Task |-> "idle"]
  /\ wire = <<>>

-------------------------------------------------------------------------------
\* _hand_over_networks

Over(t) ==
  /\ task' = [task EXCEPT ![t] = "idle"]
  /\ pc' = IF t = Sync THEN "synced" ELSE pc

\* Asks matterjs-server to take a network; without a connection that raises, and
\* the hand-over is over
Ask(t, kind, rest) ==
  IF client = "live"
    THEN /\ task' = [task EXCEPT ![t] = kind]
         /\ wire' = Append(rest, [by |-> t, kind |-> kind, network |-> facts[kind]])
         /\ UNCHANGED pc
    ELSE Over(t) /\ wire' = rest

\* Mutant: a Thread network is handed over when there is none
HandThreadAlways(t, rest) == Ask(t, "thread", rest)

\* The Thread network, when there is one; then the hand-over is over
HandThread(t, rest) ==
  IF facts["thread"] # NoNetwork
    THEN Ask(t, "thread", rest)
    ELSE Over(t) /\ wire' = rest

\* A hand-over begins; without a client it is over
HandOver(t) ==
  /\ task[t] = "begin"
  /\ IF client # "none" /\ facts["wifi"] # NoNetwork
       THEN Ask(t, "wifi", wire)
       ELSE HandThread(t, wire)
  /\ UNCHANGED <<platform, matterjs, client>>

\* Mutant: the answer to the Wi-Fi ends the hand-over
ServeWifiOnly ==
  /\ wire # <<>>
  /\ LET call == Head(wire) IN
       /\ held' = IF call.network \in bad[call.kind] THEN held
                  ELSE [held EXCEPT ![call.kind] = call.network]
       /\ Over(call.by)
       /\ wire' = Tail(wire)
  /\ UNCHANGED <<platform, bad, up, losses, client>>

\* matterjs-server takes the network and the hand-over goes on, or refuses it and
\* the hand-over is over
Serve ==
  /\ wire # <<>>
  /\ LET call == Head(wire) IN
       IF call.network \in bad[call.kind]
         THEN /\ Over(call.by)
              /\ wire' = Tail(wire)
              /\ UNCHANGED held
         ELSE /\ held' = [held EXCEPT ![call.kind] = call.network]
              /\ IF call.kind = "wifi"
                   THEN HandThread(call.by, Tail(wire))
                   ELSE Over(call.by) /\ wire' = Tail(wire)
  /\ UNCHANGED <<platform, bad, up, losses, client>>

\* The hub gets or changes the network of a kind, or loses it
NewFacts(k) ==
  \/ /\ latest[k] < Versions
     /\ latest' = [latest EXCEPT ![k] = @ + 1]
     /\ facts' = [facts EXCEPT ![k] = latest'[k]]
  \/ /\ facts[k] # NoNetwork
     /\ facts' = [facts EXCEPT ![k] = NoNetwork]
     /\ UNCHANGED latest

\* Mutant: a hook's hand-over waits for the next sync
FactsChangeQuietly(k) ==
  /\ NewFacts(k)
  /\ UNCHANGED <<matterjs, pc, client, task, wire>>

\* platform_facts_did_change of a Matter that runs spawns a hand-over
FactsChange(k) ==
  /\ NewFacts(k)
  /\ IF pc = "stopped"
       THEN UNCHANGED task
       ELSE \E t \in Hook :
              /\ task[t] = "idle"
              /\ task' = [task EXCEPT ![t] = "begin"]
  /\ UNCHANGED <<matterjs, pc, client, wire>>

-------------------------------------------------------------------------------
\* The connection

\* Mutant: the client is current as soon as it is connected
OpenCurrent ==
  /\ pc \in {"stopped", "away"}
  /\ up
  /\ pc' = "readying"
  /\ client' = "live"
  /\ UNCHANGED <<platform, matterjs, task, wire>>

\* start() or _stay_connected connects, and waits for the node list
Open ==
  /\ pc \in {"stopped", "away"}
  /\ up
  /\ pc' = "readying"
  /\ UNCHANGED <<platform, matterjs, client, task, wire>>

\* It came: the client is current from now on, and the sync begins
Ready ==
  /\ pc = "readying"
  /\ up
  /\ client' = "live"
  /\ pc' = "handover"
  /\ task' = [task EXCEPT ![Sync] = "begin"]
  /\ UNCHANGED <<platform, matterjs, wire>>

\* The rest of the sync, which begins when its hand-over is over
Synced ==
  /\ pc = "synced"
  /\ pc' = "listen"
  /\ UNCHANGED <<platform, matterjs, client, task, wire>>

\* matterjs-server goes away, and its networks with it when its storage is new.
\* Every call that waits is cancelled: its hand-over is over.
GoAway ==
  /\ up
  /\ losses > 0
  /\ losses' = losses - 1
  /\ up' = FALSE
  /\ \/ UNCHANGED held
     \/ held' = [k \in Kind |-> NoNetwork]
  /\ client' = IF client = "live" THEN "lost" ELSE client
  /\ task' = [t \in Task |-> IF task[t] \in Kind THEN "idle" ELSE task[t]]
  /\ wire' = <<>>
  /\ pc' = CASE pc = "readying" -> IF client = "none" THEN "stopped" ELSE "away"
             [] pc = "handover" /\ task[Sync] \in Kind -> "synced"
             [] OTHER -> pc
  /\ UNCHANGED <<platform, bad>>

ComeBack ==
  /\ ~up
  /\ up' = TRUE
  /\ UNCHANGED <<platform, bad, held, losses, pc, client, task, wire>>

\* The listener ended
Lost ==
  /\ pc = "listen"
  /\ client = "lost"
  /\ pc' = "away"
  /\ UNCHANGED <<platform, matterjs, client, task, wire>>

\* stop() cancels the hand-overs
Stop ==
  /\ pc # "stopped"
  /\ client # "none"
  /\ pc' = "stopped"
  /\ client' = "none"
  /\ task' = [t \in Task |-> "idle"]
  /\ wire' = <<>>
  /\ UNCHANGED <<platform, matterjs>>

-------------------------------------------------------------------------------
Connection == Open \/ Ready \/ Synced \/ Lost

Next ==
  \/ Connection \/ GoAway \/ ComeBack \/ Stop \/ Serve
  \/ \E t \in Task : HandOver(t)
  \/ \E k \in Kind : FactsChange(k)

Spec == Init /\ [][Next]_vars

\* The tasks run, and a matterjs-server that is there answers
FairSpec ==
  /\ Spec
  /\ WF_vars(Connection)
  /\ WF_vars(Serve)
  /\ \A t \in Task : WF_vars(HandOver(t))

-------------------------------------------------------------------------------
TypeOK ==
  /\ facts \in [Kind -> {NoNetwork} \cup Version]
  /\ latest \in [Kind -> 0..Versions]
  /\ bad \in [Kind -> SUBSET Version]
  /\ held \in [Kind -> {NoNetwork} \cup Version]
  /\ up \in BOOLEAN
  /\ losses \in 0..Losses
  /\ pc \in {"stopped", "readying", "handover", "synced", "listen", "away"}
  /\ client \in {"none", "lost", "live"}
  /\ task \in [Task -> {"idle", "begin"} \cup Kind]
  /\ wire \in Seq(Call)

\* Every network the hub has is one matterjs-server takes
Taken == \A k \in Kind : facts[k] \notin bad[k]

Handed(k) == facts[k] # NoNetwork => held[k] = facts[k]

\* Once connected and with no hand-over under way, matterjs-server holds the
\* networks the hub has by then, whatever order they changed, were handed over
\* and the connection was lost in.  (A Wi-Fi it refuses keeps the Thread network
\* from it, so this is for networks it takes.)
NetworksHandedOver ==
  pc = "listen" /\ client = "live" /\ (\A t \in Task : task[t] = "idle") /\ Taken
    => \A k \in Kind : Handed(k)

\* Nothing is asked on a connection whose node list is still awaited: its answer
\* would be taken for the node list.
NodeListFirst == pc = "readying" => wire = <<>> /\ client # "live"

\* With a matterjs-server that stays and a Matter that is not stopped, the
\* networks of the hub arrive in the end, and stay.
NetworksArrive ==
  <>[](up /\ pc # "stopped" /\ Taken) => <>[](\A k \in Kind : Handed(k))
===============================================================================
