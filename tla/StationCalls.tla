---------------------------- MODULE StationCalls ----------------------------
(***************************************************************************)
(* The client's shared observation of the bridge and what is decided from  *)
(* it: status refreshes that overlap, unlock replies merged between them,  *)
(* the cached video frame, and the outbound calls of each station, asked   *)
(* for by the coordinator of the station and confirmed by later polls.     *)
(*                                                                         *)
(* An observation is the whole state of the bridge when it served the      *)
(* request.  Media generations are left out: the operation of a call has   *)
(* one media session, so its id names both.                                *)
(***************************************************************************)
EXTENDS Integers

CONSTANTS
  Stations,
  Elsewhere,       \* a station whose calls this entry does not ask for
  Timer,           \* the poll task of the entry
  Others,          \* relay events, audio consumers and services that refresh as well
  Controls,        \* tasks of async_call and async_hangup
  Unlocks,         \* tasks of unlock_station
  None,
  Budgets          \* what a run may spend: moves of the bridge, restarts of it, station requests,
                   \* unlocks, refreshes of the others, video requests, requests that fail

Kinds == {"moves", "restarts", "requests", "unlocks", "others", "frames", "errors"}
ASSUME BudgetsAssumption == Budgets \subseteq [Kinds -> Nat]
ASSUME TasksAssumption == Timer \notin Others /\ None \notin Stations \cup {Elsewhere}

Pollers == {Timer} \cup Others

VARIABLES
  bridge,                                  \* the bridge's state
  status, statusEpochs,                    \* client.status, _status_control_epochs
  controlEpochs, unlockEpochs, acceptances,\* _station_control_epochs, _unlock_epochs,
                                           \* _unlock_acceptance_epochs
  newest,                                  \* whose refresh took the last _refresh_sequence
  poll,                                    \* of each poller: where it waits, its locals
  unlock, control,                         \* of each unlock; of each call or hangup
  mon,                                     \* the coordinator of each station: its call state
  cache, fetch,                            \* _video_generation and _video_frame; the video request
  left

epochs == <<controlEpochs, unlockEpochs, acceptances>>
video == <<cache, fetch>>
vars == <<bridge, status, statusEpochs, epochs, newest, poll, unlock, control, mon, video, left>>

\* Tasks of a kind are interchangeable: an idle one is as good as another.
AnyOf(set) == CHOOSE e \in set : TRUE
Spend(what) == left[what] > 0 /\ left' = [left EXCEPT ![what] = @ - 1]

-----------------------------------------------------------------------------
(* Observations                                                            *)

StageOrder == [idle |-> 0, preparing |-> 1, calling |-> 2, talking |-> 3, ending |-> 4, ended |-> 5]
NoOperation == [id |-> 0, station |-> None, stage |-> "idle", generation |-> 0]
NoNative == [generation |-> 0, station |-> None, session |-> "none"]
NoRow == [request |-> 0, phase |-> 0]
Boot(r) == [runtime |-> r, operation |-> NoOperation, native |-> NoNative, last |-> 0,
            unlock |-> [x \in Stations |-> NoRow], asked |-> [x \in Stations |-> 0]]

ActiveCall(s) == s.operation.stage \in {"preparing", "calling", "talking", "ending"}
Live(native) == native.session # "none"

\* station_call_phase = "in_call": the native call of the station talks, and when an operation
\* is active it is this station's and it made that call.
InCall(s, x) ==
  /\ s.native.session = "talking" /\ s.native.station = x
  /\ ActiveCall(s) =>
       /\ s.operation.station = x /\ s.operation.stage = "talking"
       /\ s.operation.generation = s.native.generation

\* A video generation is current while its call has video.
VideoGeneration(s) ==
  IF s.native.session \in {"preview", "ringing", "talking"} THEN s.native.generation ELSE 0

Newer(row, old) ==
  \/ row.request > old.request
  \/ row.request = old.request /\ row.phase > old.phase

-----------------------------------------------------------------------------
(* The bridge (external)                                                   *)

\* `asked' records which station requests had begun when an observation was served; `last' is
\* the number of the last unlock request.
Observation == [bridge EXCEPT !.asked = controlEpochs]

Advance ==
  /\ Spend("moves")
  /\ LET op == bridge.operation
         native == bridge.native
         Stage(s) == [op EXCEPT !.stage = s]
         Session(s) == [native EXCEPT !.session = s]
         Mine == native.generation = op.generation
         Move(o, n) == bridge' = [bridge EXCEPT !.operation = o, !.native = n]
     IN \/ op.stage = "preparing" /\ ~Live(native)
           /\ Move([Stage("calling") EXCEPT !.generation = native.generation + 1],
                   [generation |-> native.generation + 1, station |-> op.station, session |-> "preview"])
        \/ op.stage = "calling" /\ Move(Stage("talking"), native)
        \/ op.stage = "talking" /\ Mine /\ native.session = "preview" /\ Move(op, Session("talking"))
        \/ ActiveCall(bridge) /\ Move(Stage("ended"), IF Mine THEN Session("none") ELSE native)
        \/ ~ActiveCall(bridge) /\ ~Live(native)
           /\ \E x \in Stations \cup {Elsewhere} :
                Move(op, [generation |-> native.generation + 1, station |-> x, session |-> "ringing"])
        \/ ~ActiveCall(bridge) /\ ~Live(native)
           /\ Move([id |-> op.id + 1, station |-> Elsewhere, stage |-> "preparing", generation |-> 0],
                   native)
        \/ ~ActiveCall(bridge) /\ native.session = "ringing" /\ Move(op, Session("talking"))
        \/ ~ActiveCall(bridge) /\ Live(native) /\ Move(op, Session("none"))
  /\ UNCHANGED <<status, statusEpochs, epochs, newest, poll, unlock, control, mon, video>>

AdvanceUnlock(x) ==
  /\ bridge.unlock[x].request # 0 /\ bridge.unlock[x].phase < 2
  /\ Spend("moves")
  /\ bridge' = [bridge EXCEPT !.unlock[x].phase = @ + 1]
  /\ UNCHANGED <<status, statusEpochs, epochs, newest, poll, unlock, control, mon, video>>

Restart ==
  /\ Spend("restarts")
  /\ bridge' = Boot(bridge.runtime + 1)
  /\ UNCHANGED <<status, statusEpochs, epochs, newest, poll, unlock, control, mon, video>>

-----------------------------------------------------------------------------
(* DoorfastClient.refresh                                                  *)

\* As if a row that the observation lacks were not kept either.
FencedRows(reply, accepted) ==
  IF reply.runtime # status.runtime THEN reply
  ELSE [reply EXCEPT !.unlock = [x \in Stations |->
         IF @[x] # NoRow /\ Newer(status.unlock[x], @[x]) THEN status.unlock[x] ELSE @[x]]]

\* _fence_unlock_status: what the client knows of an unlock survives an older observation.
Fenced(reply, accepted) ==
  IF reply.runtime # status.runtime THEN reply
  ELSE [reply EXCEPT !.unlock = [x \in Stations |->
         IF \/ @[x] = NoRow /\ x \in accepted
            \/ @[x] # NoRow /\ Newer(status.unlock[x], @[x])
         THEN status.unlock[x] ELSE @[x]]]

NoLocals == [pc |-> "idle", epochs |-> None, unlocks |-> None, acceptances |-> None, seen |-> None,
             todo |-> {}]

BeginRefresh(p) ==
  /\ poll[p].pc = "idle"
  /\ IF p = Timer THEN UNCHANGED left ELSE Spend("others")
  /\ newest' = p
  /\ poll' = [poll EXCEPT ![p] = [NoLocals EXCEPT !.pc = "asked", !.epochs = controlEpochs,
                                                  !.unlocks = unlockEpochs, !.acceptances = acceptances]]
  /\ UNCHANGED <<bridge, status, statusEpochs, epochs, unlock, control, mon, video>>

ServeStatus(p) ==
  /\ poll[p].pc = "asked"
  /\ poll' = [poll EXCEPT ![p].pc = "served", ![p].seen = Observation]
  /\ UNCHANGED <<bridge, status, statusEpochs, epochs, newest, unlock, control, mon, video, left>>

\* A refresh that fails ends its poll.
FailRefresh(p) ==
  /\ poll[p].pc \in {"asked", "served"}
  /\ Spend("errors")
  /\ poll' = [poll EXCEPT ![p] = NoLocals]
  /\ UNCHANGED <<bridge, status, statusEpochs, epochs, newest, unlock, control, mon, video>>

Superseded(p, reply) ==
  \/ newest # p
  \/ poll[p].unlocks # unlockEpochs
  \/ poll[p].epochs # controlEpochs /\ reply.runtime = status.runtime

Older(reply) ==
  /\ reply.runtime = status.runtime
  /\ \/ reply.operation.id < status.operation.id
     \/ /\ reply.operation.id = status.operation.id
        /\ StageOrder[reply.operation.stage] < StageOrder[status.operation.stage]

\* A cached frame belongs to one call of one runtime.
CacheAfter(reply) ==
  IF \/ reply.runtime # status.runtime
     \/ cache # None /\ VideoGeneration(reply) # cache.generation
  THEN None ELSE cache

EndRefresh(p) ==
  /\ poll[p].pc = "served"
  /\ LET reply == Fenced(poll[p].seen, {x \in Stations : acceptances[x] # poll[p].acceptances[x]})
     IN IF Superseded(p, reply) \/ Older(reply)
        THEN UNCHANGED <<status, statusEpochs, cache>>
        ELSE /\ status' = reply
             /\ statusEpochs' = poll[p].epochs
             /\ cache' = CacheAfter(reply)
  /\ poll' = [poll EXCEPT ![p] = [NoLocals EXCEPT !.pc = "ready"]]
  /\ UNCHANGED <<bridge, epochs, newest, unlock, control, mon, fetch, left>>

\* An audio consumer only wanted the observation.
Leave(p) ==
  /\ p # Timer /\ poll[p].pc = "ready"
  /\ poll' = [poll EXCEPT ![p] = NoLocals]
  /\ UNCHANGED <<bridge, status, statusEpochs, epochs, newest, unlock, control, mon, video, left>>

-----------------------------------------------------------------------------
(* sync_monitor_state and async_apply_call_status                          *)

\* As if a new coordinator counted its requests from zero.
NewMonitorFromZero(r, e) ==
  [runtime |-> r, epoch |-> 0, state |-> "idle", operation |-> NoOperation, native |-> 0,
   accepted |-> FALSE]

NewMonitor(r, e) ==
  [runtime |-> r, epoch |-> e, state |-> "idle", operation |-> NoOperation, native |-> 0,
   accepted |-> FALSE]

\* The registry follows the runtime; a new coordinator goes on counting where the last one was.
ReplaceMonitor(x) ==
  /\ mon[x].runtime # bridge.runtime
  /\ mon' = [mon EXCEPT ![x] = NewMonitor(bridge.runtime, controlEpochs[x])]
  /\ UNCHANGED <<bridge, status, statusEpochs, epochs, newest, poll, unlock, control, video, left>>

\* A task holds _call_lock of the coordinator that it entered.
Locked(x) ==
  \E c \in Controls : control[c].pc # "idle" /\ control[c].station = x
                      /\ control[c].runtime = mon[x].runtime

\* call_snapshot and call_epochs are taken before the monitor status is asked for.
BeginSync(p) ==
  /\ poll[p].pc = "ready"
  /\ poll' = [poll EXCEPT ![p].pc = "syncing", ![p].seen = status, ![p].epochs = statusEpochs]
  /\ UNCHANGED <<bridge, status, statusEpochs, epochs, newest, unlock, control, mon, video, left>>

EndMonitorStatus(p) ==
  /\ poll[p].pc = "syncing"
  /\ \/ status.runtime = poll[p].seen.runtime
        /\ poll' = [poll EXCEPT ![p].pc = "applying", ![p].todo = Stations]
        /\ UNCHANGED left
     \/ status.runtime # poll[p].seen.runtime
        /\ poll' = [poll EXCEPT ![p] = NoLocals]
        /\ UNCHANGED left
     \/ Spend("errors")
        /\ poll' = [poll EXCEPT ![p] = NoLocals]
  /\ UNCHANGED <<bridge, status, statusEpochs, epochs, newest, unlock, control, mon, video>>

\* As if an observation were admitted whatever was asked of the station since.
AdmitsAnyEpoch(x, seen, epoch) ==
  ~Locked(x) /\ seen.runtime = mon[x].runtime /\ status.runtime = mon[x].runtime

Admits(x, seen, epoch) ==
  /\ ~Locked(x)
  /\ seen.runtime = mon[x].runtime /\ status.runtime = mon[x].runtime
  /\ epoch = mon[x].epoch

\* As if operations were told apart by their ids alone.
OutrunById(m, op, x) == op.id < m.operation.id

\* The operation that the coordinator holds is newer than the one observed.
Outrun(m, op, x) ==
  \/ op.id < m.operation.id
  \/ /\ op.station = x /\ op.id = m.operation.id
     /\ StageOrder[op.stage] < StageOrder[m.operation.stage]

CallStates == {"preparing", "calling", "talking"}

Shown(m, x, seen) ==
  LET op == seen.operation
      target == op.station = x
      matching == Live(seen.native) /\ seen.native.station = x
      state ==
        IF InCall(seen, x) THEN "talking"
        ELSE IF matching /\ (~target \/ op.stage = "ended") THEN seen.native.session
        ELSE IF ~target THEN "idle"
        ELSE IF op.stage = "talking" THEN "calling" ELSE op.stage
  IN [m EXCEPT
        !.operation = IF target THEN op ELSE @,
        !.state = state,
        !.native =
          IF \/ InCall(seen, x)
             \/ matching /\ (~target \/ op.stage = "ended" \/ op.generation = seen.native.generation)
          THEN seen.native.generation ELSE 0,
        !.accepted = state \in CallStates /\ (target \/ @)]

ApplyStatus(p, x) ==
  /\ poll[p].pc = "applying" /\ x \in poll[p].todo /\ x = AnyOf(poll[p].todo)
  /\ mon' = [mon EXCEPT ![x] =
       IF Admits(x, poll[p].seen, poll[p].epochs[x]) /\ ~Outrun(@, poll[p].seen.operation, x)
       THEN Shown(@, x, poll[p].seen) ELSE @]
  /\ poll' = [poll EXCEPT ![p] =
       IF @.todo = {x} THEN NoLocals ELSE [poll[p] EXCEPT !.todo = @ \ {x}]]
  /\ UNCHANGED <<bridge, status, statusEpochs, epochs, newest, unlock, control, video, left>>

-----------------------------------------------------------------------------
(* async_call and async_hangup                                             *)

NoRequest == [pc |-> "idle", kind |-> "none", station |-> None, runtime |-> 0, condition |-> 0,
              generation |-> 0, reply |-> "none"]
Current(c) == mon[control[c].station].runtime = control[c].runtime /\ status.runtime = control[c].runtime
Replaced(c) == mon[control[c].station].runtime # control[c].runtime

\* _begin_call_request, and the check of the runtime before the bridge is asked.
BeginRequest(c, x, m, request) ==
  /\ control[c].pc = "idle" /\ c = AnyOf({d \in Controls : control[d].pc = "idle"})
  /\ ~Locked(x)
  /\ Spend("requests")
  /\ controlEpochs' = [controlEpochs EXCEPT ![x] = mon[x].epoch + 1]
  /\ mon' = [mon EXCEPT ![x] = [m EXCEPT !.epoch = m.epoch + 1]]
  /\ control' = [control EXCEPT ![c] = IF status.runtime = mon[x].runtime THEN request ELSE NoRequest]
  /\ UNCHANGED <<bridge, status, statusEpochs, unlockEpochs, acceptances, newest, poll, unlock, video>>

\* A coordinator whose call was accepted and still runs asks for no second one.
BeginCall(c, x) ==
  /\ ~(mon[x].state \in CallStates /\ mon[x].accepted)
  /\ BeginRequest(c, x,
       [mon[x] EXCEPT !.operation = NoOperation, !.native = 0, !.accepted = FALSE, !.state = "calling"],
       [NoRequest EXCEPT !.pc = "posted", !.kind = "call", !.station = x, !.runtime = mon[x].runtime])

\* The operation that a hangup names: the one that the coordinator holds, unless its native call
\* is another one.
Condition(m) ==
  IF m.operation # NoOperation
     /\ (m.state \in {"ended", "failed"} \/ m.native = 0 \/ m.operation.generation = m.native)
  THEN m.operation.id ELSE 0

\* The native call whose audio a hangup releases, as the shared observation has it.
ControlGeneration(x, runtime, condition) ==
  IF /\ status.runtime = runtime /\ InCall(status, x)
     /\ condition # 0 =>
          /\ status.operation.station = x /\ status.operation.id = condition
          /\ status.operation.generation = status.native.generation
  THEN status.native.generation ELSE 0

BeginHangup(c, x) ==
  LET condition == Condition(mon[x])
  IN BeginRequest(c, x, mon[x],
       [NoRequest EXCEPT !.pc = "posted", !.kind = "hangup", !.station = x, !.runtime = mon[x].runtime,
                         !.condition = condition,
                         !.generation = ControlGeneration(x, mon[x].runtime, condition)])

\* The bridge answers a call: with a new operation, or busy.
ServeCall(c) ==
  /\ control[c].pc = "posted" /\ control[c].kind = "call"
  /\ IF bridge.runtime = control[c].runtime /\ ~ActiveCall(bridge) /\ ~Live(bridge.native)
     THEN LET op == [NoOperation EXCEPT !.id = bridge.operation.id + 1, !.station = control[c].station,
                                        !.stage = "preparing"]
          IN /\ bridge' = [bridge EXCEPT !.operation = op]
             /\ control' = [control EXCEPT ![c].pc = "answered", ![c].reply = "accepted",
                                           ![c].condition = op.id]
     ELSE /\ control' = [control EXCEPT ![c].pc = "answered", ![c].reply = "refused"]
          /\ UNCHANGED bridge
  /\ UNCHANGED <<status, statusEpochs, epochs, newest, poll, unlock, mon, video, left>>

\* The bridge answers a hangup: it ends the operation named, or whatever the station has.
ServeHangup(c) ==
  /\ control[c].pc = "posted" /\ control[c].kind = "hangup"
  /\ LET op == bridge.operation
         native == bridge.native
         named == control[c].condition
         calls == ActiveCall(bridge) /\ op.station = control[c].station
                  /\ (named # 0 => named = op.id)
         speaks == named = 0 /\ Live(native) /\ native.station = control[c].station
         reply ==
           IF bridge.runtime # control[c].runtime \/ (named # 0 /\ named # op.id) THEN "refused"
           ELSE IF calls \/ speaks THEN "ending" ELSE IF named # 0 THEN "ended" ELSE "idle"
     IN /\ control' = [control EXCEPT ![c].pc = "answered", ![c].reply = reply]
        /\ bridge' =
             IF reply # "ending" THEN bridge
             ELSE [bridge EXCEPT
                     !.operation.stage = IF calls THEN "ending" ELSE @,
                     !.native.session =
                       IF Live(native) /\ (speaks \/ native.generation = op.generation)
                       THEN "ending" ELSE @]
  /\ UNCHANGED <<status, statusEpochs, epochs, newest, poll, unlock, mon, video, left>>

LoseRequest(c) ==
  /\ control[c].pc \in {"posted", "answered"} /\ control[c].reply # "lost"
  /\ Spend("errors")
  /\ control' = [control EXCEPT ![c].pc = "answered", ![c].reply = "lost"]
  /\ UNCHANGED <<bridge, status, statusEpochs, epochs, newest, poll, unlock, mon, video>>

Failed(c) == control[c].reply \in {"refused", "lost"}

EndCall(c) ==
  /\ control[c].pc = "answered" /\ control[c].kind = "call"
  /\ control' = [control EXCEPT ![c] = NoRequest]
  /\ LET x == control[c].station
     IN mon' = [mon EXCEPT ![x] =
          IF ~Current(c) THEN @
          ELSE IF Failed(c) THEN [@ EXCEPT !.state = "failed"]
          ELSE [@ EXCEPT !.accepted = TRUE, !.state = "calling",
                         !.operation = [NoOperation EXCEPT !.id = control[c].condition, !.station = x,
                                                           !.stage = "preparing"]]]
  /\ UNCHANGED <<bridge, status, statusEpochs, epochs, newest, poll, unlock, video, left>>

HungUp(c) ==
  LET x == control[c].station
      m == mon[x]
      operation == IF m.operation # NoOperation /\ control[c].condition # 0
                   THEN [m.operation EXCEPT !.stage = control[c].reply] ELSE m.operation
  IN IF Replaced(c) THEN mon
     ELSE [mon EXCEPT ![x] = [m EXCEPT !.state = control[c].reply, !.operation = operation]]

\* As if the native call to release were looked up when the answer is there.
EndHangupLate(c) ==
  /\ control[c].pc = "answered" /\ control[c].kind = "hangup"
  /\ LET generation == ControlGeneration(control[c].station, control[c].runtime, control[c].condition)
     IN IF Current(c) /\ ~Failed(c) /\ generation # 0
        THEN control' = [control EXCEPT ![c].pc = "releasing", ![c].generation = generation] /\ UNCHANGED mon
        ELSE /\ control' = [control EXCEPT ![c] = NoRequest]
             /\ mon' = IF Current(c) /\ ~Failed(c) THEN HungUp(c) ELSE mon
  /\ UNCHANGED <<bridge, status, statusEpochs, epochs, newest, poll, unlock, video, left>>

\* With a native call to release, the hangup waits for the audio captures to go first.
EndHangup(c) ==
  /\ control[c].pc = "answered" /\ control[c].kind = "hangup"
  /\ IF Current(c) /\ ~Failed(c) /\ control[c].generation # 0
     THEN control' = [control EXCEPT ![c].pc = "releasing"] /\ UNCHANGED mon
     ELSE /\ control' = [control EXCEPT ![c] = NoRequest]
          /\ mon' = IF Current(c) /\ ~Failed(c) THEN HungUp(c) ELSE mon
  /\ UNCHANGED <<bridge, status, statusEpochs, epochs, newest, poll, unlock, video, left>>

EndRelease(c) ==
  /\ control[c].pc = "releasing"
  /\ control' = [control EXCEPT ![c] = NoRequest]
  /\ \/ mon' = HungUp(c) /\ UNCHANGED left
     \/ Spend("errors") /\ UNCHANGED mon
  /\ UNCHANGED <<bridge, status, statusEpochs, epochs, newest, poll, unlock, video>>

-----------------------------------------------------------------------------
(* unlock_station                                                          *)

NoUnlock == [pc |-> "idle", station |-> None, runtime |-> 0, epoch |-> 0, row |-> NoRow]

BeginUnlock(u, x) ==
  /\ unlock[u].pc = "idle" /\ u = AnyOf({v \in Unlocks : unlock[v].pc = "idle"})
  /\ Spend("unlocks")
  /\ unlockEpochs' = [unlockEpochs EXCEPT ![x] = @ + 1]
  /\ unlock' = [unlock EXCEPT ![u] = [NoUnlock EXCEPT !.pc = "posted", !.station = x,
                                                      !.runtime = status.runtime,
                                                      !.epoch = unlockEpochs[x] + 1]]
  /\ UNCHANGED <<bridge, status, statusEpochs, controlEpochs, acceptances, newest, poll, control, mon, video>>

\* The bridge takes the request up, or answers with the one that is pending.
ServeUnlock(u) ==
  /\ unlock[u].pc = "posted"
  /\ LET x == unlock[u].station
         old == bridge.unlock[x]
         row == IF old.request # 0 /\ old.phase < 2 THEN old
                ELSE [request |-> bridge.last + 1, phase |-> 0]
     IN /\ bridge' = [bridge EXCEPT !.unlock[x] = row, !.last = IF row = old THEN @ ELSE @ + 1]
        \* validate_unlock_reply refuses the answer of another runtime.
        /\ unlock' = [unlock EXCEPT ![u] =
             IF bridge.runtime = @.runtime THEN [@ EXCEPT !.pc = "answered", !.row = row] ELSE NoUnlock]
  /\ UNCHANGED <<status, statusEpochs, epochs, newest, poll, control, mon, video, left>>

LoseUnlock(u) ==
  /\ unlock[u].pc # "idle"
  /\ Spend("errors")
  /\ unlock' = [unlock EXCEPT ![u] = NoUnlock]
  /\ UNCHANGED <<bridge, status, statusEpochs, epochs, newest, poll, control, mon, video>>

\* The reply of the newest unlock is merged into the observation, unless that is ahead of it.
EndUnlock(u) ==
  /\ unlock[u].pc = "answered"
  /\ LET x == unlock[u].station
         row == unlock[u].row
         old == status.unlock[x]
     IN IF /\ unlockEpochs[x] = unlock[u].epoch
           /\ status.runtime = unlock[u].runtime
           /\ Newer(row, old) \/ row.request = old.request
        THEN /\ status' = [status EXCEPT !.unlock[x] = IF Newer(row, old) THEN row ELSE old]
             /\ acceptances' = [acceptances EXCEPT ![x] = @ + 1]
        ELSE UNCHANGED <<status, acceptances>>
  /\ unlock' = [unlock EXCEPT ![u] = NoUnlock]
  /\ UNCHANGED <<bridge, statusEpochs, controlEpochs, unlockEpochs, newest, poll, control, mon, video, left>>

-----------------------------------------------------------------------------
(* latest_video_frame                                                      *)

NoFetch == [pc |-> "idle", runtime |-> 0, generation |-> 0, etag |-> None, reply |-> "none", frame |-> None]

BeginFrame ==
  /\ fetch.pc = "idle"
  /\ Spend("frames")
  /\ LET generation == VideoGeneration(status)
         cached == cache # None /\ cache.generation = generation
     IN IF generation = 0
        THEN cache' = None /\ UNCHANGED fetch
        ELSE /\ fetch' = [NoFetch EXCEPT !.pc = "asked", !.runtime = status.runtime,
                                         !.generation = generation, !.etag = IF cached THEN cache ELSE None]
             /\ UNCHANGED cache
  /\ UNCHANGED <<bridge, status, statusEpochs, epochs, newest, poll, unlock, control, mon>>

\* The request names a generation and no runtime: the bridge gives the frame of its own call of
\* that number, says that the one named is the latest, that there is none yet, or that it is gone.
ServeFrame ==
  /\ fetch.pc = "asked"
  /\ LET frame == [runtime |-> bridge.runtime, generation |-> fetch.generation]
     IN \E reply \in IF VideoGeneration(bridge) # fetch.generation THEN {"gone"}
                     ELSE {"frame", "busy"} \cup (IF fetch.etag = frame THEN {"same"} ELSE {}) :
          fetch' = [fetch EXCEPT !.pc = "answered", !.reply = reply, !.frame = frame]
  /\ UNCHANGED <<bridge, status, statusEpochs, epochs, newest, poll, unlock, control, mon, cache, left>>

\* As if a request were current whenever the number of its call is.
FetchGenerationIsCurrent == VideoGeneration(status) = fetch.generation

\* _video_request_is_current
FetchIsCurrent == status.runtime = fetch.runtime /\ VideoGeneration(status) = fetch.generation

EndFrame ==
  /\ fetch.pc = "answered"
  /\ cache' = IF ~FetchIsCurrent \/ fetch.reply \in {"busy", "same"} THEN cache
              ELSE IF fetch.reply = "frame" THEN fetch.frame ELSE None
  /\ fetch' = NoFetch
  /\ UNCHANGED <<bridge, status, statusEpochs, epochs, newest, poll, unlock, control, mon, left>>

-----------------------------------------------------------------------------

Init ==
  /\ bridge = Boot(1) /\ status = Boot(1)
  /\ controlEpochs = [x \in Stations |-> 0] /\ statusEpochs = controlEpochs
  /\ unlockEpochs = [x \in Stations |-> 0] /\ acceptances = unlockEpochs
  /\ newest = Timer /\ poll = [p \in Pollers |-> NoLocals]
  /\ unlock = [u \in Unlocks |-> NoUnlock] /\ control = [c \in Controls |-> NoRequest]
  /\ mon = [x \in Stations |-> NewMonitor(1, 0)]
  /\ cache = None /\ fetch = NoFetch /\ left \in Budgets

PollStep(p) ==
  \/ ServeStatus(p) \/ EndRefresh(p) \/ BeginSync(p) \/ EndMonitorStatus(p)
  \/ \E x \in Stations : ApplyStatus(p, x)
ControlStep(c) == ServeCall(c) \/ ServeHangup(c) \/ EndCall(c) \/ EndHangup(c) \/ EndRelease(c)
UnlockStep(u) == ServeUnlock(u) \/ EndUnlock(u)

Next ==
  \/ Advance \/ Restart
  \/ \E x \in Stations : AdvanceUnlock(x) \/ ReplaceMonitor(x)
  \/ \E p \in Pollers : BeginRefresh(p) \/ PollStep(p) \/ FailRefresh(p) \/ Leave(p)
  \/ \E c \in Controls : ControlStep(c) \/ LoseRequest(c)
                         \/ \E x \in Stations : BeginCall(c, x) \/ BeginHangup(c, x)
  \/ \E u \in Unlocks : UnlockStep(u) \/ LoseUnlock(u) \/ \E x \in Stations : BeginUnlock(u, x)
  \/ BeginFrame \/ ServeFrame \/ EndFrame

Spec == Init /\ [][Next]_vars

\* Every request of the client has a time limit, and the poll timer goes on.
FairSpec ==
  /\ Spec
  /\ WF_vars(BeginRefresh(Timer))
  /\ \A p \in Pollers : WF_vars(PollStep(p))
  /\ \A c \in Controls : WF_vars(ControlStep(c))
  /\ \A u \in Unlocks : WF_vars(UnlockStep(u))
  /\ \A x \in Stations : WF_vars(ReplaceMonitor(x))

-----------------------------------------------------------------------------
(* Properties                                                              *)

\* What is published of a station's unlock never goes back while the runtime lasts: not by an
\* observation older than the reply merged, nor by the reply of an older request.
RecordForward ==
  [][\A x \in Stations :
       status'.runtime = status.runtime =>
         status'.unlock[x] = status.unlock[x] \/ Newer(status'.unlock[x], status.unlock[x])]_vars

\* The cached frame belongs to the published call, and to no earlier runtime: a frame that comes
\* late, or a runtime that counts its calls from one again, never brings back an old picture.
FrameOfCall ==
  cache # None => cache.generation = VideoGeneration(status) /\ cache.runtime >= status.runtime

\* The operation that a coordinator holds never goes back to an earlier one, nor to an earlier
\* stage: two polls may apply their observations in either order.
OperationForward ==
  [][\A x \in Stations :
       mon'[x].runtime = mon[x].runtime /\ mon'[x].operation # NoOperation
         => \/ mon'[x].operation.id > mon[x].operation.id
            \/ /\ mon'[x].operation.id = mon[x].operation.id
               /\ StageOrder[mon'[x].operation.stage] >= StageOrder[mon[x].operation.stage]]_vars

\* An observation that changes a station's call state was served after its last request began.
AppliedIsCurrent ==
  [][\A p \in Pollers, x \in Stations :
       ApplyStatus(p, x) /\ mon'[x] # mon[x] => poll[p].seen.asked[x] = controlEpochs[x]]_vars

\* A hangup releases the audio of a call that is over, never of the one that came after it.
ReleaseOwner ==
  \A c \in Controls :
    control[c].pc = "releasing" =>
      ~(/\ bridge.runtime = control[c].runtime
        /\ bridge.native.session = "talking" /\ bridge.native.generation = control[c].generation)

\* When the bridge and the users rest, every station comes to show what the bridge has: after
\* lost replies, restarts and observations dropped on the way.
CallConverges ==
  \A x \in Stations :
    <>[](/\ mon[x].runtime = bridge.runtime
         /\ mon[x].state = Shown(NewMonitor(bridge.runtime, 0), x, bridge).state)
=============================================================================
