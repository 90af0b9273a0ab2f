-------------------------------- MODULE Relay --------------------------------
(***************************************************************************)
(* The poll (polling.py) and the events that the bridge relays             *)
(* (DoorfastEventView, process_event and EventGate), over the registry of  *)
(* stations.  Both refresh the client, then the registry, then the         *)
(* coordinators; the poll goes on when one of these fails, an event does   *)
(* not.  Events arrive in any order, late or again.                        *)
(*                                                                         *)
(* Of the client's status the model keeps the runtime and the generation   *)
(* of the call, and of a monitor its revision: generations are Monitor's    *)
(* matter.  The ids of relay events are left out: what has been seen of a  *)
(* station's monitor is also behind its revision.                          *)
(***************************************************************************)
EXTENDS StationRegistry

CONSTANTS
  Timer,           \* the poll task
  Handlers,        \* relay events being handled
  CallEvents,      \* names of call events
  Capacity,        \* of the gate: 128 in the code
  MaxRuntimes,
  Budgets          \* what a run may spend: changes of the stations, restarts, call events and
                   \* monitor moves of the bridge, deliveries, requests and closes that fail, unloads

Kinds == {"changes", "restarts", "calls", "moves", "deliveries", "errors", "stuck", "unloads"}
ASSUME TasksAssumption == Refreshers = {Timer} \cup Handlers /\ Timer \notin Handlers
ASSUME BudgetsAssumption ==
  /\ MaxRuntimes \in Nat
  /\ Budgets \subseteq [Kinds -> Nat]
  /\ \A b \in Budgets : b["restarts"] < MaxRuntimes
\* More keys fit in the gate than one generation has.
ASSUME CapacityAssumption == Capacity \in Nat /\ IsFiniteSet(CallEvents) /\ Cardinality(CallEvents) <= Capacity

Runtimes == 1..MaxRuntimes

VARIABLES
  call, media,             \* the bridge: generation of its call, revision of each monitor
  sent,                    \* the events that it relayed
  status, online, newest,  \* client.status and client.online; whose refresh began last
  step, answer, event,     \* of each task: what it is at; the status it was given; its event
  known,                   \* of each station's coordinator: the revision that it was given
  gate, monitorGate,       \* EventGate: of calls, and of the monitor of each runtime and station
  dispatched,              \* the call events dispatched, with the runtime of the gate
  left

source == <<call, media, sent>>
client == <<status, online, newest>>
gates == <<gate, monitorGate>>
tasks == <<task, step, answer, event>>
vars == <<bridge, registry, shut, tasks, source, client, known, gates, dispatched, left>>

Spend(what) == left[what] > 0 /\ left' = [left EXCEPT ![what] = @ - 1]

Unknown == [serial |-> 0, revision |-> 0]
NoStatus == [runtime |-> 0, call |-> 0]

Init ==
  /\ RegistryInit
  /\ bridge = [runtime |-> 1, revision |-> 1, stations |-> [x \in Names |-> 1]]
  /\ call = 0 /\ media = [x \in Names |-> 1] /\ sent = {}
  /\ status = NoStatus /\ online = FALSE /\ newest = Timer
  /\ step = [t \in Refreshers |-> "idle"] /\ answer = [t \in Refreshers |-> NoStatus]
  /\ event = [t \in Refreshers |-> None]
  /\ known = [x \in Names |-> Unknown]
  /\ gate = [runtime |-> 0, highest |-> 0, order |-> <<>>]
  /\ monitorGate = [r \in Runtimes |-> [x \in Names |-> 0]]
  /\ dispatched = <<>>
  /\ left \in Budgets

-----------------------------------------------------------------------------
(* The bridge (external)                                                   *)

Change(x) ==
  /\ Spend("changes")
  /\ \E content \in {0, bridge.revision + 1} :
       /\ content # bridge.stations[x]
       /\ bridge' = [bridge EXCEPT !.revision = @ + 1, !.stations[x] = content]
  /\ UNCHANGED <<registry, shut, tasks, source, client, known, gates, dispatched>>

Restart ==
  /\ Spend("restarts")
  /\ \E enabled \in SUBSET Names :
       bridge' = [runtime |-> bridge.runtime + 1, revision |-> 1,
                  stations |-> [x \in Names |-> IF x \in enabled THEN 1 ELSE 0]]
  /\ call' = 0 /\ media' = [x \in Names |-> 1]
  /\ UNCHANGED <<sent, registry, shut, tasks, client, known, gates, dispatched>>

\* A call rings, or something else happens to the present one.
Ring ==
  /\ Spend("calls")
  /\ \E generation \in {call, call + 1} \ {0}, name \in CallEvents :
       /\ call' = generation
       /\ sent' = sent \cup {[kind |-> "call", runtime |-> bridge.runtime, name |-> name,
                             generation |-> generation]}
  /\ UNCHANGED <<bridge, registry, shut, tasks, media, client, known, gates, dispatched>>

Move(x) ==
  /\ Spend("moves") /\ bridge.stations[x] # 0
  /\ media' = [media EXCEPT ![x] = @ + 1]
  /\ sent' = sent \cup {[kind |-> "monitor", runtime |-> bridge.runtime, station |-> x,
                         revision |-> media[x] + 1, listed |-> FALSE]}
  /\ UNCHANGED <<bridge, registry, shut, tasks, call, client, known, gates, dispatched>>

-----------------------------------------------------------------------------
(* client.refresh, as far as the poll and the events need it               *)

BeginRefresh(t) ==
  /\ newest' = t
  /\ step' = [step EXCEPT ![t] = "asked"]
  /\ UNCHANGED <<bridge, registry, shut, task, source, status, online, answer, known, gates, dispatched>>

ServeStatus(t) ==
  /\ step[t] = "asked"
  /\ answer' = [answer EXCEPT ![t] = [runtime |-> bridge.runtime, call |-> call]]
  /\ step' = [step EXCEPT ![t] = "status"]
  /\ UNCHANGED <<bridge, registry, shut, task, source, client, event, known, gates, dispatched, left>>

\* A superseded refresh publishes nothing.
Published(t) == IF newest = t THEN answer[t] ELSE status
OnlineAfter(t) == online \/ newest = t

-----------------------------------------------------------------------------
(* async_poll                                                              *)

BeginPoll ==
  /\ step[Timer] = "idle" /\ closed # "yes"
  /\ BeginRefresh(Timer)
  /\ UNCHANGED <<event, left>>

PollRefreshed ==
  /\ step[Timer] = "status"
  /\ status' = Published(Timer) /\ online' = OnlineAfter(Timer)
  /\ step' = [step EXCEPT ![Timer] = "stations"]
  /\ answer' = [answer EXCEPT ![Timer] = NoStatus]
  /\ UNCHANGED <<bridge, registry, shut, task, source, newest, event, known, gates, dispatched, left>>

\* The status request is the connectivity probe: without it the poll is over.
PollOffline ==
  /\ step[Timer] = "asked" /\ Spend("errors")
  /\ online' = FALSE
  /\ step' = [step EXCEPT ![Timer] = "idle"]
  /\ UNCHANGED <<bridge, registry, shut, answer, task, source, status, newest, event, known, gates, dispatched>>

\* Whether the stations came or not, the coordinators are next.
PollStations ==
  /\ step[Timer] = "stations" /\ task[Timer].pc \in {"done", "raised"}
  /\ task' = [task EXCEPT ![Timer] = Rest]
  /\ step' = [step EXCEPT ![Timer] = "sync"]
  /\ UNCHANGED <<bridge, registry, shut, answer, source, client, event, known, gates, dispatched, left>>

\* What a coordinator was given belongs to that coordinator.
Given(x) == IF known[x].serial = monitors[x] THEN known[x] ELSE [Unknown EXCEPT !.serial = monitors[x]]
Works(x, runtime) == monitors[x] # 0 /\ coordinators[x][monitors[x]] = [runtime |-> runtime, open |-> TRUE]
Give(x, revision) == [Given(x) EXCEPT !.revision = IF revision > @ THEN revision ELSE @]

\* sync_monitor_state gives coordinators what the bridge has, if the status is of its runtime.
Synced(x) ==
  IF status.runtime = bridge.runtime /\ Works(x, bridge.runtime) THEN Give(x, media[x]) ELSE Given(x)

PollSynced ==
  /\ step[Timer] = "sync"
  /\ \/ known' = [x \in Names |-> Synced(x)]
        /\ UNCHANGED left
     \/ Spend("errors") /\ UNCHANGED known
  /\ step' = [step EXCEPT ![Timer] = "idle"]
  /\ UNCHANGED <<bridge, registry, shut, answer, task, source, client, event, gates, dispatched>>

-----------------------------------------------------------------------------
(* process_event                                                           *)

BeginEvent(h) ==
  /\ step[h] = "idle" /\ h = AnyOf({g \in Handlers : step[g] = "idle"})
  /\ Spend("deliveries")
  /\ closed # "yes"
  /\ \E e \in sent :
       event' = [event EXCEPT ![h] =
         IF e.kind = "call" THEN e ELSE [e EXCEPT !.listed = e.station \in Registered]]
  /\ BeginRefresh(h)

Answer(h) == step' = [step EXCEPT ![h] = "idle"] /\ event' = [event EXCEPT ![h] = None]

EventOffline(h) ==
  /\ step[h] = "asked" /\ Spend("errors")
  /\ online' = FALSE
  /\ Answer(h)
  /\ UNCHANGED <<bridge, registry, shut, answer, task, source, status, newest, known, gates, dispatched>>

\* EventGate.accept forgets everything with the runtime, and then takes what is not behind.
Fresh(runtime) ==
  IF gate.runtime = runtime THEN gate ELSE [runtime |-> runtime, highest |-> 0, order |-> <<>>]
KeyOf(e) == <<e.generation, e.name>>

\* A bug: what was seen is not remembered.
BehindGeneration(g, e, floor) == e.generation < g.highest \/ e.generation < floor

Behind(g, e, floor) ==
  \/ \E i \in DOMAIN g.order : g.order[i] = KeyOf(e)
  \/ e.generation < g.highest \/ e.generation < floor
Higher(a, b) == IF a > b THEN a ELSE b
Noted(g, e) ==
  LET order == Append(g.order, KeyOf(e))
  IN [g EXCEPT !.highest = Higher(@, e.generation),
               !.order = IF Len(order) > Capacity THEN Tail(order) ELSE order]

\* A call event is gated and dispatched at once, against the status just published.
CallEvent(h) ==
  /\ step[h] = "status" /\ event[h].kind = "call"
  /\ LET now == Published(h)
         g == Fresh(now.runtime)
         e == event[h]
     IN /\ status' = now /\ online' = OnlineAfter(h)
        /\ IF Behind(g, e, now.call)
           THEN gate' = g /\ UNCHANGED dispatched
           ELSE /\ gate' = Noted(g, e)
                /\ dispatched' = Append(dispatched, [runtime |-> now.runtime, generation |-> e.generation,
                                                     name |-> e.name])
  /\ Answer(h)
  /\ answer' = [answer EXCEPT ![h] = NoStatus]
  /\ UNCHANGED <<bridge, registry, shut, task, source, newest, known, monitorGate, left>>

\* accept_monitor: nothing of a station unknown when the event came, of another runtime, or at a
\* revision that was passed.
Admitted(e, now) ==
  LET x == e.station
  IN /\ e.listed /\ monitors[x] # 0
     /\ coordinators[x][monitors[x]].runtime = now.runtime /\ e.runtime = now.runtime
     /\ e.revision >= Given(x).revision
     /\ e.revision > monitorGate[e.runtime][x]

\* An accepted event goes on to the registry and the coordinator; the gate has noted it already.
MonitorEvent(h) ==
  /\ step[h] = "status" /\ event[h].kind = "monitor"
  /\ LET now == Published(h)
         e == event[h]
     IN /\ status' = now /\ online' = OnlineAfter(h)
        /\ IF Admitted(e, now)
           THEN /\ monitorGate' = [monitorGate EXCEPT ![e.runtime][e.station] = e.revision]
                /\ step' = [step EXCEPT ![h] = "stations"] /\ UNCHANGED event
           ELSE Answer(h) /\ UNCHANGED monitorGate
  /\ answer' = [answer EXCEPT ![h] = NoStatus]
  /\ UNCHANGED <<bridge, registry, shut, task, source, newest, known, gate, dispatched, left>>

\* 503: the registry or the coordinators failed.  The client is marked offline.
EventStations(h) ==
  /\ step[h] = "stations" /\ task[h].pc \in {"done", "raised"}
  /\ task' = [task EXCEPT ![h] = Rest]
  /\ IF task[h].pc = "done"
     THEN step' = [step EXCEPT ![h] = "sync"] /\ UNCHANGED <<online, event>>
     ELSE Answer(h) /\ online' = FALSE
  /\ UNCHANGED <<bridge, registry, shut, answer, source, status, newest, known, gates, dispatched, left>>

\* The bridge's own state of the station first, or of all when the station is gone, then the
\* event; a coordinator of another runtime than the status raises.
EventSynced(h) ==
  /\ step[h] = "sync"
  /\ LET e == event[h]
         x == e.station
         current == status.runtime = bridge.runtime
         foreign == monitors[x] # 0 /\ coordinators[x][monitors[x]].runtime # status.runtime
     IN \/ /\ ~(current /\ foreign)
           /\ known' = IF monitors[x] = 0 THEN [y \in Names |-> Synced(y)]
                       ELSE [known EXCEPT ![x] =
                         IF current /\ Works(x, e.runtime) THEN Give(x, Higher(media[x], e.revision)) ELSE @]
           /\ UNCHANGED <<online, left>>
        \/ current /\ foreign /\ online' = FALSE /\ UNCHANGED <<known, left>>
        \/ Spend("errors") /\ online' = FALSE /\ UNCHANGED known
  /\ Answer(h)
  /\ UNCHANGED <<bridge, registry, shut, answer, task, source, status, newest, gates, dispatched>>

-----------------------------------------------------------------------------

\* The calls of the registry that the tasks make.
Stations(t) ==
  /\ step[t] = "stations"
  /\ \/ BeginStations(t) /\ UNCHANGED left
     \/ ServeStations(t) /\ UNCHANGED left
     \/ EndStations(t) /\ UNCHANGED left
     \/ EndRemove(t) /\ UNCHANGED left
     \/ FailStations(t) /\ Spend("errors")
     \/ FailRemove(t) /\ Spend("stuck")
  /\ UNCHANGED <<source, client, step, answer, event, known, gates, dispatched>>

Unload ==
  /\ \/ CloseRegistry /\ Spend("unloads")
     \/ CloseOne /\ UNCHANGED left
     \/ EndClose /\ UNCHANGED left
  /\ UNCHANGED <<source, client, step, answer, event, known, gates, dispatched>>

PollStep == ServeStatus(Timer) \/ PollRefreshed \/ PollStations \/ PollSynced \/ Stations(Timer)
EventStep(h) == ServeStatus(h) \/ CallEvent(h) \/ MonitorEvent(h) \/ EventStations(h) \/ EventSynced(h) \/ Stations(h)

Next ==
  \/ \E x \in Names : Change(x) \/ Move(x)
  \/ Restart \/ Ring \/ Unload
  \/ BeginPoll \/ PollOffline \/ PollStep
  \/ \E h \in Handlers : BeginEvent(h) \/ EventOffline(h) \/ EventStep(h)

Spec == Init /\ [][Next]_vars

\* The timer polls on, and every request and close of the client ends.
FairSpec == Spec /\ WF_vars(BeginPoll) /\ WF_vars(PollStep) /\ \A h \in Handlers : WF_vars(EventStep(h))

-----------------------------------------------------------------------------
(* Properties                                                              *)

\* Call events of a runtime are dispatched once each and by increasing generation, however often
\* and late they arrive and though the gate forgets its oldest keys.
CallsInOrder ==
  \A i, j \in DOMAIN dispatched :
    i < j /\ dispatched[i].runtime = dispatched[j].runtime =>
      /\ dispatched[i] # dispatched[j]
      /\ dispatched[i].generation <= dispatched[j].generation

\* When the bridge rests, the registry comes to follow it, after failed requests, removals and
\* restarts, unless the entry was unloaded.
RegistryFollows == <>[](closed # "no" \/ Followed)
=============================================================================
