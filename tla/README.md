# Verification of the Doorfast integration for Home Assistant

TLA+ models, TLC runs and TLAPS proofs about `custom_components/doorfast`, the
Home Assistant integration that drives a Doorfast bridge (door stations, video
preview, call audio). Source paths below are relative to that directory.

## 1. The system

Everything runs on one asyncio event loop. A task keeps the loop from one await
that suspends to the next; the hard behaviour is what other tasks, polls, relay
events and cancellations do at those awaits, and what the bridge has done by the
time a reply arrives.

| Component | State it keeps | Operations | Talks to | What makes it correct |
|---|---|---|---|---|
| Monitor coordinator (`monitor.py`) | preview generation, state, revision, publisher flag, recoverable marker, terminal epoch, viewer leases, pending acquires and the generation started for them, grace-stop task, lifecycle and admission locks | acquire/release of a viewer, start button, stop, preempt, unload, recovery, grace stop, application of a status row or relay event | HTTP client; called by the WebRTC provider, the entities and status synchronisation | one lifecycle request at a time; leases belong to live holders; terminated requests get nothing; a preview is stopped when its last viewer is gone; status never goes back |
| Station call (`monitor.py`) | call state, operation, control epoch | call, hang up, application of a call row | HTTP client | an observation asked for before a request changes nothing; operations and their stages never go back; a hangup releases its own call only |
| Status synchronisation (`setup_lifecycle.py`, `polling.py`) | marker taken before a poll | `sync_monitor_state`, periodic poll | client, coordinators | a row that was overtaken is not applied |
| HTTP client (`client.py`) | last status, refresh sequence, stop fences, control and unlock epochs, acceptances, cached frame | refresh, start/stop/viewer, call, unlock, video, audio, PCM requests | the bridge | only the newest refresh is published; an unlock that was accepted is not forgotten; no picture of another call |
| PCM producer (`pcm.py`) | producer lease: runtime, generation, token, sequence | start, submit, stop | client | a frame is delivered at most once, in order; the lease is dropped when in doubt |
| Relay events (`events.py`) | seen event ids, generation and revision floors | `accept`, `accept_monitor`, `process_event` | client, registry, dispatcher | duplicates and stale events are not dispatched; a newer one is not lost |
| Audio hub (`audio.py`) | per-listener cursors, four cached chunks, fetch lock, epoch, retry deadline | add, remove, read, close | client | each listener gets chunks in order, once, with a mark at every gap |
| WebRTC provider (`webrtc.py`) | session per id, with its monitor lease | offer, answer, candidates, retry, cleanup | coordinator, go2rtc | a session's lease is released once, and never another session's |
| Audio websocket (`websocket.py`) | listeners, captures, pending starts | listen/talk start, read, submit, stop, reconcile | hub, PCM producer, client | a connection that is gone owns nothing |
| Station registry (`stations.py`) | snapshot, stations, coordinators | refresh, close | client, coordinators | one open coordinator per enabled station |
| Entry setup (`__init__.py`, `routing.py`), entities, projections, config flow, frontend card, acceptance runner | little or none | wiring, presentation | all | see "Not modelled" |

The hard behaviours are listed with their lines as hazards in `PROJECT.json`.

## 2. Plan

Done, in the order of the plan: the preview of a station (`Monitor`, with proofs in
`MonitorProofs` and `MonitorStepProofs`); the microphone (`PcmProducer`, `PcmCapture`
over it, the abstract `PcmDelivery`, proofs in `PcmProofs`); signalling (`WebRtc`, proofs in
`WebRtcProofs`); listening (`AudioHub` and the abstract `AudioDelivery` that it implements, proofs
in `AudioHubProofs`); the shared observation with calls, unlocks and video (`StationCalls`, proofs
in `StationCallsProofs` and `CallOrderProofs`); the registry, the poll and relay events
(`StationRegistry`, and `Relay` over it, proofs in `RelayProofs`). The `MC*` modules hold what a run
may spend and its symmetry.

Left: the listen commands of the audio websocket over the hub, the order of setup and unload of an
entry, and proofs of what section 10 lists as only model-checked.

## 3. Module `Monitor`

One station, its coordinator, any number of callers, the poll, and the bridge's one
session slot. Generation 0 is `None`.

**Tasks and atomicity.** `Clients` call `async_acquire_viewer`, `async_release_viewer`
and `async_start`; `Stoppers` call `async_stop`, `async_preempt` and `async_unload`;
`Graces` are the `_stop_after_grace` tasks. `pc[t]` names the await (or, for a task
that owns the loop, the synchronous code) where a task is; `running` is the task that
owns the loop, and every step of another task needs `Quiet`. `coordinator._lock` is
never held across a suspension, so it is the atomicity of the steps. `lifecycle`
and `ahead` are `_lifecycle_lock`: `ahead[t]` holds the waiters that arrived before
`t`, which is the first-in-first-out order of `asyncio.Lock`, and a free lock is taken
without suspending (`Takes`).

**Actions and code.** `PROJECT.json` "map" gives the lines of each definition.

| Code | Definitions |
|---|---|
| `async_acquire_viewer` | `CallAcquire`, `Admit`, `Top`, `Gen`, `Wake`, `WaitFail`, `Fail`, `Retry` |
| `async_start` | `CallStart` |
| `_start_generation`, `_await_start_response` | `StartGrant`, `StartReply`, `Adopt`, `UndoReply`, `CancelledStartReply` |
| `_recover_generation` | `RecoverGrant`, `RecoverStopped`, `RestartReply` |
| `_register_provisional_lease`, `_register_lease`, rollback | `ProvisionalGrant`, `RegisterGrant`, `Grant`, `ViewerOnReply`, `RollOffReply`, `RegisterUndone` |
| `_cleanup_cancelled_acquire` | `CleanStart`, `CleanGrant`, `CleanReply` |
| `async_release_viewer`, `_stop_after_grace` | `CallRelease`, `ReleaseGrant`, `ViewerOffReply`, `Schedule`, `GraceExpires` |
| `_stop_generation`, `async_stop`/`preempt`/`unload` | `CallStop`, `StopGrant`, `StopReply` |
| `async_apply_status`, `_set_response_locked` | `ApplyStatus` and its parts, `SetResponse` |
| `sync_monitor_state`, the client's stop fence | `SyncBegin`, `SyncStatus`, `SyncFails`, `SyncRow`, `Acknowledged` |
| `process_event` and its gate, the relay event after the poll | `EventIgnored`, `Accepted`, `Newer`, `SyncEvent`, `Message` |
| `CancelledError` at an await | `Cancel` |
| the bridge (external) | `Serve*`, `Refuse`, `BridgeMove` |

**The bridge** is modelled from how `client.py` and `monitor.py` use it: a start joins
a live session or makes the next generation; a stop names its generation and is
refused with 409 for any other; a viewer flag needs a publishing session. The
session moves by itself (`BridgeMove`) and may or may not relay an event, which
stays in `mail` and is delivered late, out of order or never: the three events that end a preview, and the
four of its progress, of which `monitor_requested`, `monitor_confirmed` and `monitor_media_ready` are one
(`"requested"`: a preview that starts). `limits.relayed` names the ones a behaviour relays. A request may fail
before it reaches the bridge, or be served and lose its answer (`limits.errors`).

**Abstractions, by name.**
- A call is cancelled at most once, at the awaits in `CancelPcs`; a second
  cancellation while the first one is being undone (`cancel_undo`, `roll_*`,
  `croll_*`, `reg_stop`, `clean_*`) is not modelled. An HTTP request whose
  caller is cancelled may or may not have been served.
- The wait for readiness has no limit (`MONITOR_READY_TIMEOUT` is `None`).
- One `sync_monitor_state` call at a time, of the poll or of a relay event; polls go on after an unload.
  In the code the timer, a relay event and the start and stop services may poll at the same time; overlapping
  observations are in `StationCalls`, and overlapping refreshes of the registry in `Relay`.
- Of the gate for monitor events: its comparison with the coordinator and its floor (`Accepted`, `Newer`). The
  ids of events, and a coordinator replaced with its runtime, are left out here; `Relay` has the gate over
  restarts.
- State `unavailable`, runtime replacement (the registry replaces coordinators), and
  raises of the aggregate revision by other stations are not modelled.
- `bState = "ending"` is a session whose stop was requested; it reports "stopping".
- Tasks that are ready at the same time run in any order, except for the lock.

## 4. Modules `PcmProducer` and `PcmCapture`

The microphone of one config entry, from the worklet's frames to what the bridge plays.

`PcmProducer` is `pcm.py` for several producers and the bridge's one audio session with
its lease, cursor and call. `op[p]` holds the producer's lock, `phase[p]` is the request
it awaits, and `running` is the producer whose operation has just returned: its caller
goes on before anything else happens (`Quiet`). `SubmitReply` has one disjunct per reply
class; `RecheckReply` is `_recover_identity` with the three ways on after it (`after`).
A call of the bridge is its generation, 0 is none, and stands for runtime, station and
generation; a token is a number, 0 is `None`.

`PcmCapture` adds the `PcmWebSocketManager` for captures and the card. A producer, the
start command that made it and the card's session share one identity, used once.

| Code | Definitions |
|---|---|
| `PcmProducer.start`, `_fresh_identity`, `_open` | `BeginStart`, `StatusReply`, `OpenReply` |
| `PcmProducer.submit`, `_recover_identity` | `BeginSubmit`, `SubmitReply`, `RecheckReply`, `OpenReply` |
| `PcmProducer.stop`, `CancelledError` at any await | `BeginStop`, `EndReply`, `CancelCall` |
| websocket `start`, before and after `producer.start()` | `Start`, `StartReturns` |
| websocket `submit`, before and after `producer.submit()` | `Submit`, `SubmitReturns` |
| websocket `stop`, connection cleanup, `_stop_producers` | `Stop`, `Disconnect`, `Close`, `StopCancelled` |
| `release_entry`, `close_entry`, `admit_entry`, `reconcile`, `release_call` | `ReleaseEntry`, `Admit`, `Poll` and `Reconcile`, `Hangup` and `ReleaseCall` |
| `PcmBatchSender.enqueue`, pump; the card's `_stop` | `Record`, `Submit`, `LetGo` |
| the bridge (external) | `Serve*`, `Expire`, `CallBegins`, `CallEnds` |
| requests that fail or were given up | `Lose`, `Arrive` |

**The bridge** accepts a submit at its cursor only, for its lease and its call. A submit
may be accepted in part, the bridge may fail to keep the cursor it reports, an
answer may be lost, and a submit that was given up may still arrive later (`wire`). An
accepted hangup (`Hangup`) does not end the call at once: the code treats a queued one alike.
`doubt` holds leases that a failed or cancelled request may leave without an owner.

**Abstractions, by name.** Listeners and hubs, and the binding of a capture to a listener
(`expected` keeps the generation that a request asks for). `_operation_allows_audio` and
the phases of an outbound station call. The station or generation in a submit message.
The card's permission, worklet and AudioContext. Frames are numbers in the order of
their capture, five per batch become `MaxBatchFrames`. A validation that fails is the reply
class "refused". A failure or cancellation (`MaxErrors`, `MaxCancels`) may hit any request.

## 5. Module `WebRtc`

The provider for one session id: the offers made under it (`Offers`), the session object and
the reader task of each attempt (`Objects`), and the tasks that clean up (`Sweepers` for
`async_close_session` and `async_reconcile_monitor`, `Unload` for `async_close_entry`). Ids
share nothing but the coordinator, so one id is enough. The coordinator is reduced to the lease of
each offer (owned, released, lost, or stranded when its release failed) and to whether its
publisher runs.

| Code | Definitions |
|---|---|
| `async_handle_async_webrtc_offer` | `Begin`, `PreviousEnds`, `OldCleaned`, `Acquired`, `Connected`, `Sent`, `Answered`, `Undone`, `SleepEnds`, and the failures `ConnectFails`, `SendFails`, `Aborted`, `Released` |
| `_cleanup_session` | `Enter`, `EnterJoined`, `SocketClosed`, `ViewerReleased`, `CleanupCancelled` |
| `_read_loop` | `ReadAnswer`, `ReadEnds`, `ReadCancelled`; `Remote` is what go2rtc does |
| `async_close_session`, `async_reconcile_monitor`, `async_close_entry` | `CloseSession`, `Reconcile`, `CloseEntry`, `Gathered`, `Start`, `Resumed` |
| `async_on_webrtc_candidate` | `Candidate` |

`running` is the task whose cleanup has just returned, whose caller goes on at once. `job[t]` is
the call of `_cleanup_session` that a task is in. `SlowClose` is whether closing a socket may
take longer than the delay before a retry; every passing run says no, because with yes
`CleanupExact` fails (`SessionReuse`).
Left out: the content of offers, answers and candidates, the choice of the stream,
the messages of errors, and the registration of the stream at go2rtc.

## 6. Modules `AudioHub` and `AudioDelivery`

`AudioHub` is `audio.py` with its lock as a queue, so that the order of the waiting reads is that
of `asyncio.Lock`. `Read`, `Woken` and `Reply` are the three pieces of `read` between its awaits;
their parts are functions of the hub record (`Cached`, `Resync`, `Store`, `Retried`, ...), applied
in the order of the code. Time goes in ticks of one chunk; the request, the retry deadline and the
cool-down of the code keep their order, not their ratio. The bridge keeps its last `Window`
chunks, and answers with the next chunk, nothing, a resynchronisation or an invalid reply.

`AudioDelivery` is the promise: a listener hears no chunk twice or out of order, and is told of
every gap. `Delivered` states that the hub implements it, with `heard` and `spoken` as they are.
The run `Microphone` does the same for `PcmDelivery`.
Left out: WAV headers, sizes, the wire format of a chunk, and the cache limit in bytes.

## 7. Module `StationCalls`

The observation that all parts share, and what is decided from it. An observation is the whole
state of the bridge when it served the request (`Observation`), so that "served before" and
"published after" are compared exactly. `bridge.last`, and `asked` in an observation, are the only
history: the number of the last unlock request, and which requests had begun.

| Code | Definitions |
|---|---|
| `refresh`, `_fence_unlock_status` | `BeginRefresh`, `ServeStatus` (external), `EndRefresh` with `Superseded`, `Older`, `Fenced`, `CacheAfter`; `FailRefresh` |
| `sync_monitor_state` for calls | `BeginSync`, `EndMonitorStatus`, `ApplyStatus` |
| `async_apply_call_status`, `session_diagnostics.py` | `Admits`, `Outrun`, `Shown`, `InCall` |
| `async_call`, `async_hangup`, `call_station`, `hangup_station` | `BeginRequest`, `BeginCall`, `BeginHangup`, `EndCall`, `EndHangup`, `EndRelease` |
| `unlock_station` | `BeginUnlock`, `EndUnlock` |
| `latest_video_frame` | `BeginFrame`, `EndFrame`, `FetchIsCurrent` |
| `_replace_runtime` | `ReplaceMonitor` |
| the bridge (external) | `Advance`, `AdvanceUnlock`, `Restart`, `Serve*` |

**Abstractions, by name.** A call operation has one media session, so its id stands for the media
generation as well. Bridges without operation ids (the legacy rows) are left out. The preview
of a station and a call never run together here, because `Monitor` has the preview. The wait of a
hangup for the captures (`EndHangup` to `EndRelease`) is one await; `PcmCapture` has its inside.
The elevator, and answer and hangup of a native call, only forward a request.

## 8. Modules `StationRegistry` and `Relay`

`StationRegistry` is `stations.py`: `task[r]` is a call of `async_refresh`, suspended while it asks
for the stations or closes a coordinator (`_remove`), and several may be under way. Each coordinator
ever made has a number, and is open or closed.

`Relay` adds the poll (`async_poll`: `BeginPoll`, `PollRefreshed`, `PollStations`, `PollSynced`)
and relay events (`DoorfastEventView.post` and `process_event`: `BeginEvent`, `CallEvent`,
`MonitorEvent`, `EventStations`, `EventSynced`) over one registry and one client, with both gates of
`EventGate` (`Behind`, `Noted`, `Admitted`). The bridge changes its stations, restarts, rings and
moves its monitors; `sent` holds what it relayed, delivered late, again or out of order.
Left out: the validation of payloads, the ids of events (a repeated monitor event is behind its
revision), authentication, and the dispatcher signals.

## 9. Runs

`CHECK_DEADLOCK FALSE` where a run really ends when its budget is spent or its entry is unloaded.

| Run | Instance | Properties | Shows |
|---|---|---|---|
| `Ownership` | 1 or 2 callers of every kind, by budgets: an unload and a cancelled acquire; a stop and every bridge move and relay event, lost and late; a stop, a grace period and one failed or cancelled request | `TypeOK`, `GenerationBinding`, `HttpExclusive`, `LeasesLive`, `UnloadStops`, `RevisionForward`, `TerminalFence`, `OnlyEventsReadopt` | requests never overlap; no phantom viewer; state, generation, marker and revision stay bound together and never go back; terminated calls get nothing; no poll and no reply takes up a stopped preview; nothing runs on the bridge after an unload |
| `Live` | 1 or 2 callers, a stop, an unload, grace periods or a cancelled acquire, by budgets, fairness | `NoOrphan`, `EdgeLowered`, `AcquireReturns`, `UnusedStops` | every acquire call returns; an unused preview is stopped; one started for a cancelled call is stopped or held by another; the flag is down without viewers |
| `LateProgress` | 1 caller, a stop, the event that the preview publishes | violation of `NoReadopt` | see below |
| `Microphone` | 1 producer with 3 frames, 2 failures, a cancellation; or 2 producers without these (`OneSpends`) | `TypeOK`, `LeaseOwned`, `OneCapture`, `Delivered` | the bridge plays the frames in order and never twice; its lease has an owner or is in doubt; a revoked start that goes on opening never becomes a second capture |
| `CaptureEnds` | 1 producer, 2 calls, a cancellation, fairness | `HangupRevokes`, `CaptureFollowsCall` | a hangup revokes every start command and capture of its call; no capture outlives its call |
| `Signalling` | 2 offers, 2 sweepers and the unload, by budgets | `TypeOK`, `ReleaseOnce`, `CandidatesInOrder`, `NoCircle`, `CleanupExact`, `ViewersLeave` | no lease is given back twice; candidates arrive once and in order over retries; nobody waits in a circle; a viewer that left loses its lease |
| `Listening` | 2 listeners, 4 chunks, a bridge that forgets and fails | `TypeOK`, `Delivered`, `MembersOnly`, `LostLate`, `Settled`, `NewestFetched` | the hub implements `AudioDelivery`; a hub in doubt recovers or gives up |
| `Calls` | 1 station, 2 pollers, 2 controls, 2 unlocks, by budgets | `FrameOfCall`, `ReleaseOwner`, `RecordForward`, `OperationForward`, `AppliedIsCurrent`, `CallConverges` | what is published never goes back; old observations change nothing; every station comes to show what the bridge has |
| `Relay` | 2 stations, the poll and 2 handlers, by budgets | `CallsInOrder`, `RegistryFollows` | call events are dispatched once and in order; the registry follows the bridge |
| `SessionReuse` | an offer tried twice, a slow close | violation of `CleanupExact` | see below |
| `LeaseStranded` | an offer tried twice, a sweep and one failed request | violation of `LeaseHeld` | see below |
| `StationLost` | the poll and one event over a restart | violation of `RegistryFollows` | see below |

**Bounds.** Two generations are the least in which one replaces another, and three
revisions (`limits.rev` counts only moves the bridge makes by itself; starts and stops are
bounded by generations and calls) let a session publish, stop and end. `Live` has
revisions enough that the bound never blocks a fair move. Two callers make every
pairwise race of registrations, releases, followers and the cleanup; a third adds
only longer queues at a lock whose exclusion is proved for any number. One grace task
per run suffices, since a schedule needs a last edge and the calls are few.
What a behaviour of `Monitor` may do and spend is its budget (`limits`, from the sets of `MCMonitor`). The
budgets keep some things apart on purpose, and each of these is code that violates the property (see "Other
behaviour"): those of `UnloadStops` with an unload have no failed request, no grace period and no relay event; those
of `Live` relay no events, leave out the moves stopping and resume, cancel acquires only, and have either a
cancellation or grace periods.
For the microphone, batches of up to two frames have a proper part that may be accepted,
three frames give a successor to every batch, `MaxSequence = 2` is passed by the batch
that would overflow, and two failures let a request be lost while the next is accepted in
part. Two producers are the least that overlap; two with frames on the way are beyond
these runs, and a submit with the token of an earlier lease is covered by one
producer that opens its lease again.
The later modules have budgets instead of one bound per counter: a behaviour starts with one of the
budgets of its `MC` module, each of them a combination of events that meet (two attempts and a
closing viewer, a restart and two unlocks, ...), so that no product of unrelated bounds is explored.
Two offers, two sweepers, two refreshers and two handlers are the pairs that overlap; in
`Listening` a lag of one and a window of one make every fourth chunk late or lost. One station is
enough in `Calls` because stations share only the operation and the native call, and those of
another station (`Elsewhere`) are moves of the bridge.

**Fairness** (`FairSpec`). Monitor: weak fairness of the tasks together and of the poll, because the
loop never idles while something is ready, every HTTP request has a time limit, a grace
sleep ends and the poll repeats; and of the bridge's moves to publish a starting
session and to end a stopping one, which is the device's promise. Nothing is
assumed of calls, releases, cancellations or other bridge moves, and no order between tasks.
Microphone: weak fairness of the event loop with the requests it awaits (all have
a time limit of ten seconds), and strong fairness of a successful poll and of its
reconciliation, because the poll repeats and each reconciliation runs at the first moment
the loop is free; while the bridge stays offline no status is reconciled (`__init__.py` 148-151).
Signalling: weak fairness of every await of a handler, a cleanup and a reader except the wait for
the remote side, which may say nothing for ever; strong fairness of the reconciliation, which comes with
every poll. Listening: time goes on, and a card reads as long as it listens. Calls and Relay: the
timer polls on and every request ends; other refreshes happen or not.

**Disagreements between documentation and code** (details and quotations under "findings"):
- `LateProgress`: a `monitor_publishing` event is accepted, and the status request it causes is on its way, when a stop
  ends the preview. The row is skipped, but the event is applied after it (`setup_lifecycle.py` 115-121), past the
  marker (97-100) and the fence of the client (`client.py` 434-463); the stop ignored its reply
  (`monitor.py` 964-983), so the event is newer than the coordinator's status, and 1151 takes the stopped generation up again.
  `OnlyEventsReadopt` says, and its theorem proves, that a progress event is the only way. With progress events in
  their budgets `NoOrphan` and `UnloadStops` fail as well.
- `LeaseStranded`: `viewer_released` belongs to the handler and is never reset between attempts (`webrtc.py` 278-281).
  The answer of an attempt times out while a sweep closes its socket: the flag is set, because the sweep has set
  `lease_released`. If that close raises, the sweep takes `lease_released` back (484) and the handler tries again;
  when the second attempt fails too, 322-343 skip the release, and the lease stays with no owner, though the
  recovery plan (`docs/superpowers/plans/2026-09-27-ha-preview-generation-recovery.md:25`) says that every exit path
  releases. The budgets of `Signalling` have no failure together with a second attempt.
- `SessionReuse`: a sweep whose `websocket.close()` outlasts the retry delay pops the session
  of the next attempt (`webrtc.py` 490), though the recovery design says a cleanup must carry its identity.
- `StationLost`: two refreshes that overlap over a restart of the bridge. `_remove` pops what the
  other has just added, or raises `KeyError`; the snapshot is new already, so later polls return at
  once and the station stays away until its revision changes (`stations.py` 74-101).

**Other behaviour met while modelling**, not turned into runs.

Monitor:
- A viewer that comes back within the grace period loses the preview when the period ends.
- A preemption whose row is polled first does not terminate the pending requests (`setup_lifecycle.py` 106).
- A release queued behind a registration lowers the flag of the new viewer although `viewer_count` is 1 (921).
- A caller that does not wait goes round the retry loop without suspending when the shared generation is stopping (689).
- A release cancelled in its viewer request loses its lease and schedules no stop (925); that is why
  `Live` cancels acquires only.
- A preview goes to stopping and back to publishing while a caller that does not wait queues for the lock: the
  next viewer raises the flag, the first caller then gets a provisional lease, which does not count for it
  (`viewer_edge` false), and if it leaves last nobody lowers the flag until the grace stop (`EdgeLowered`
  fails with two calls and the moves publish, stopping and resume).
- A recovery whose new generation was reported by a poll first does not record
  `_pending_owned_generation` (603-609, 631-632), so its later cancellation cleans up nothing.
- A start or a release cancels a grace stop whose request is under way; the local state is then
  idle while the bridge may run on, and a later unload finds nothing to stop
  (`UnloadStops` fails with a grace period beside the unload).
- A generation replaced through a start reply (458-487) keeps its old leases in the ledger; they count for nothing.
- A poll that is answered late can take up a generation whose start was just undone; later rows
  of another generation then raise in every poll, and a waiting caller waits for ever
  (`AcquireReturns` fails with a stopper and the moves stopping and stopped).
- A cancellation during the stop of an unwanted start leaves the remote preview running; `async_stop`
  clears the local state even if the request failed.

WebRTC:
- An error in the first cleanup makes the pop of a newer session possible with a fast close too; a cancellation
  during the cleanup before a retry leaves a session that nobody closes.
- A failing outer release strands the lease (331, 343). A close while a replaced offer is being waited for is lost.
- Pending candidates are made again after the negotiation ended (433); an offer registered after the unload
  has gathered the handlers is not cancelled (494); with three offers of one id, two may wait for the same
  handler, and `LeaseHeld`, `CleanupExact` and `CandidatesInOrder` fail. Home Assistant makes a new id for every offer, so the runs stop at two.

Calls:
- Refreshes that always overlap are all superseded and none publishes, which is why only the timer is fair.
- An observation asked for after the epoch was raised but served before the hangup was handled shows the
  call once more, until the next poll.

Relay and registry:
- The gate accepts an event before the synchronisation is awaited; after a 503 the retry of the relay, which the
  README of the repository asks for, is refused as a duplicate.
- Call events carry no runtime: a late one of the old runtime raises `highest_generation` and silences new ones.
- Monitor events may be dispatched out of order; a hangup releases the captures even if its event was refused.
- An event whose secondary synchronisation fails marks the client offline (`events.py` 299-305), though
  `polling.py` 19-24 says that secondary failures must not.
- A removal that failed after the coordinator was unloaded, followed by the station's return, keeps a dead
  coordinator; a refresh in flight at the unload makes coordinators after `async_close`; refreshes that overlap
  can pop a coordinator that is still open (`stations.py` 74-79 pops whatever is registered after the close): one restart
  and one relay event suffice, the instance of `StationLost`. The budgets of `Relay` leave these out.

## 10. Proofs

For every set of tasks, listeners, stations and offers, and for every bound and budget, from the
assumptions that the modules state of their constants:
- `MonitorProofs`, `MonitorStepProofs`: `TasksAssumption`, `ParametersAssumption`, `BoundsAssumption`;
- `PcmProofs`: `ProducersAssumption`, `QueueAssumption`, `LimitsAssumption`;
- `WebRtcProofs`: `TasksAssumption`, `BoundsAssumption` (at least one attempt, which the loop of the code makes);
- `AudioHubProofs`: `ConstantsAssumption`;
- `RelayProofs`: `TasksAssumption`, `CapacityAssumption` (the gate has room for the call events of one generation);
- `StationCallsProofs`, `CallOrderProofs`: none.

Each proof has the same form: an invariant that is inductive, one lemma for each action (or for each
effect that several actions share), and a last step in temporal logic. The column "Argument" says what
the invariant adds to the property, and why it is needed.

| Theorem | Statement | Argument |
|---|---|---|
| `Exclusion` | `Spec => []HttpExclusive` | `LockInv`: the task that `lifecycle` names is the only one in an HTTP request, and it is in one; grace tasks stay at their three places. The exclusion alone is not inductive: it says nothing of who may take the lock, nor that cancelling a grace task leaves its request in place. |
| `TypeCorrect` | `Spec => []TypeOK` | part of `BindingInv` |
| `Binding` | `Spec => []GenerationBinding` | `BindingInv`: types, the lock, a positive generation and a live state in every start reply in flight (`ReplyOK`), and a generation in every polled row and bridge state that is not off (`RowOK`). Without what is in flight, adopting it could break the binding. |
| `NoPhantom` | `Spec => []LeasesLive` | `LeaseInv`: the leases with the types and the lock. A holder leaves "leased" only in a release, which takes its lease out of the ledger first; a failed viewer request puts back that lease only, with its holder. |
| `Fenced` | `Spec => TerminalFence` | each grant tests `Terminated` in the step that sends or registers |
| `Forward` | `Spec => RevisionForward` | from `BindingInv`: each of the writers of `revision` keeps a known newer one |
| `ReadoptedByEventsOnly` | `Spec => OnlyEventsReadopt` | `FenceInv`, on top of `BindingInv`: the fenced generation is over at the bridge for good, and so is the target of every stop that was acknowledged (`Past`), while no start reply on its way names the fence. A stop that is acknowledged while a start is answered would break it; the lifecycle lock keeps the two apart. What takes up a fenced generation is then neither a reply nor a row, and an event of the end of a preview takes up nothing. |
| `TypeCorrect` (`PcmProofs`) | `Spec => []TypeOK` | part of `MicInv` |
| `LeaseHasOwner` | `Spec => []LeaseOwned` | part of `MicInv`: while nothing is in doubt somebody knows the lease of the bridge, for its call, and no answer on its way makes him drop it (`LeaseInv`); no two producers know one token, in what they keep or in what is on its way to them (`Distinct`) |
| `PlayedInOrder` | `Spec => Delivered` | `MicInv`: what a capture has queued is ahead of all that was taken from queues before (`AheadInv`), and what the present lease may still bring, by a submit under way or one that was given up, is ahead of what was played (`DueInv`). A submit that was given up may arrive late only under a lease that nobody submits with any more (`WireInv`). A step that plays is a step of `PcmDelivery`, any other a stutter or `Capture`. |
| `SingleCapture` | `Spec => []OneCapture` | `PcmInv`: while a start command holds the reservation the entry has no capture, so that the one that publishes is the first |
| `Revoked` | `Spec => []HangupRevokes` | `PcmInv`: whoever a release reached has lost the reservation, is marked with that call, or asked for another (`Bound`, `Unlearned`). This needs that a producer learns a call from its first status only (`Learns`), which rests on the agreement of the lease, the locals of the operation and `call_identity` (`Agrees`). |
| `TypeCorrect` (`AudioHubProofs`) | `Spec => []TypeOK` | part of the `IInv` of the hub: the lock knows exactly the reads that wait or ask, one of which asks |
| `HubDelivers` | `Spec => Delivered` | `IInv`: the cache is in the order of the bridge and within what it has, and whatever is cached ahead of a listener's cursor is ahead of what the listener heard; a cursor that is elsewhere than at the last chunk heard is marked as broken (`CursorOK`). A step that gives a chunk is `Hear` of `AudioDelivery`, any other a stutter or `Speak`. |
| `MembersHear` | `Spec => MembersOnly` | a step that gives a chunk looks for the reader among the members in the same step |
| `LostAfterPatience` | `Spec => LostLate` | `IInv`: no failure counts for longer than there has been no valid reply, because the request that fails began after the last valid one (`ClockOK`) |
| `NobodyInCircle` | `Spec => []NoCircle` | part of `WInv`: a task that begins to wait waits for one that does not wait itself, or is waited for by nobody (`Circles`). This needs that nobody waits for an offer that has not come or an unload that has not begun (`Begun`), that a session names as its cleaner a task at the close or release of that cleanup (`ObjectOK`), and that a handler cleans only at the three places that call it (`OfferOK`). |
| `TypeCorrect` (`WebRtcProofs`) | `Spec => []TypeOK` | part of `WInv` |
| `CandidatesArrive` | `AtMostTwo /\ Spec => []CandidatesInOrder` | `CandInv`: the queue of the registered negotiation ends with every candidate since it began, and while its handler sends, its socket has the offer and exactly what was taken from the queue; a session that was sent its offer belongs to an attempt that has begun. It rests on `SoleInv`: a handler past its registration is the registered one. `AtMostTwo` (no three offers of one id) is needed for that: of two that wait for the same handler both would register, and the end of one would close the negotiation and drop its queue while the other still sends. |
| `CallsDispatchedInOrder` | `Spec => []CallsInOrder` | the `IInv` of `Relay`: whatever was dispatched is behind the gate, by its runtime, by its generation or as a key that is remembered (`Remembered`). The gate forgets keys, but only of earlier generations (`Crowded`), and its runtime is never ahead of the status (`RuntimesOK`). |
| `Invariance` | `Spec => []IInv` (`StationCalls`) | `Shapes`; `Epochs`: the request epochs read before an observation are at most those it was served under, and these at most the present ones; `Runtimes`: nothing in flight is of a runtime later than the bridge's; `Records`: an unlock record that was published, observed or answered is one that the bridge has |
| `FrameFollowsCall` | `Spec => []FrameOfCall` | part of `IInv`: needs `Runtimes` for a frame in flight, since the request names no runtime and a restarted bridge counts from one again |
| `AppliesCurrent` | `Spec => AppliedIsCurrent` | `Admits` compares the epochs of the poll with the coordinator's, which are the client's; `Epochs` puts the observation between the two |
| `RecordsForward` | `Spec => RecordForward` | a refresh keeps the newer of two rows; where the observation has no row, `Records` says that the newest refresh either saw every record that is published or counts it as accepted since |
| `CallsForward` | `Spec => OperationForward` | `CInv`, on top of `IInv`: what was observed of a call in the present runtime has come to pass (`Observed`); one request at a time holds the lock of a coordinator (`Alone`); a coordinator has no operation while its call is asked for, and keeps the one its hangup names, so that the answer is ahead of what it shows (`Held`). The property alone says nothing of an answer in flight. |
| `ReleasesOwn` | `Spec => []ReleaseOwner` | `RInv`, on top of `CInv`: an observation follows the moves of the bridge (`Follows`), a hangup that was posted names the native call that was then the last, and the call of one that was answered is over (`Releases`) |

Model-checked only:
- Liveness: `AcquireReturns`, `UnusedStops`, `CaptureFollowsCall`, `ViewersLeave`, `Settled`, `NewestFetched`,
  `CallConverges`, `RegistryFollows`. Fairness and `ENABLED` are out of the prover's reach.
- `UnloadStops`, `NoOrphan` and `EdgeLowered`, which the code does not keep in general: a request that fails, a
  grace stop that is cut off in its request, a poll that is answered after its session was undone and a late progress
  event each leave a preview behind (section 9). `Ownership` and `Live` check them where these do not meet.
- `ReleaseOnce` and `CleanupExact` do not hold for every bound either: a slow close, a failed close with a second
  attempt and a third offer violate the second; after a failed close, or a slow one, a second release may be
  made, which finds no lease and does nothing. `Signalling` checks both, with a cleanup that fails of an offer that is
  tried once. `LeaseHeld` is violated by the code (`LeaseStranded`).
- `RegistryFollows` beside a restart and a monitor event at once (`StationLost`).

## 11. Not modelled

Entities, projections and the configuration flow hold no state of their own. The
frontend cards' rendering, Web Audio and playback run in the browser. The acceptance runner is
test tooling. Header and size checks, WAV decoding and validation of documents are data
conversions that no property here depends on. Of `websocket.py` the listen commands (225-297, 307-460) only
bind a hub to a connection; the hub is modelled, the binding is not. Of `__init__.py` the order of
setup and unload, the rollback of a failed setup, services and panels are not modelled.
