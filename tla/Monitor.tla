------------------------------ MODULE Monitor ------------------------------
(***************************************************************************)
(* MonitorCoordinator (monitor.py): the owner of one station's preview     *)
(* generation and of the viewer leases that Home Assistant sessions hold   *)
(* on it, together with the Doorfast bridge it drives over HTTP.           *)
(*                                                                         *)
(* Everything runs on one asyncio loop, so a step lasts from one await     *)
(* that really suspends to the next.  An await on a free asyncio.Lock does *)
(* not suspend: `running' names the task that still owns the loop, and     *)
(* every other step waits until it is NoTask.  coordinator._lock is never  *)
(* held across a suspension, so it is the atomicity of these steps.        *)
(*                                                                         *)
(* Generation 0 stands for None.                                           *)
(***************************************************************************)
EXTENDS Integers

CONSTANTS
  Clients,      \* callers of async_acquire_viewer / async_release_viewer / async_start
  Stoppers,     \* callers of async_stop, async_preempt and async_unload
  Graces,       \* identities for _stop_after_grace tasks
  NoTask,
  Sync,         \* the poll and relay-event handler (sync_monitor_state)
  Budgets       \* what a behaviour of a run may do and spend: see BudgetsAssumption

Tasks == Clients \cup Stoppers \cup Graces
AllModes == {"wait", "nowait", "button"}
CancelPcs == {"admit", "start_lock", "recover_lock", "prov_lock", "reg_lock", "ready",
              "start_http", "restart_http", "start_undo", "recover_stop", "viewer_on",
              "rel_lock", "viewer_off"}
AllMoves == {"progress", "publish", "stopping", "resume", "stopped", "preempt", "fail"}
TerminalEvents == {"stopped", "preempted", "failed"}
\* "requested" stands for monitor_requested, monitor_confirmed and monitor_media_ready.
ProgressEvents == {"requested", "publishing"}

ASSUME TasksAssumption ==
  /\ Clients \cap Stoppers = {} /\ Clients \cap Graces = {} /\ Stoppers \cap Graces = {}
  /\ NoTask \notin Tasks \cup {Sync} /\ Sync \notin Tasks
\* How clients call, what stoppers do, what the bridge does by itself and which events of it
\* arrive, the awaits at which a client call may be cancelled, whether a start reply carries
\* status_revision and encoder_running, and how much there is of everything.
ASSUME BudgetsAssumption ==
  Budgets \subseteq [modes : SUBSET AllModes, stops : SUBSET {"stop", "unload"},
                    moves : SUBSET AllMoves, relayed : SUBSET (TerminalEvents \cup ProgressEvents),
                    cancelAt : SUBSET CancelPcs, full : BOOLEAN,
                    clients : SUBSET Clients, gen : Nat, rev : Nat, calls : Nat,
                    expiries : Nat, cancels : Nat, errors : Nat]

VARIABLES
  \* the coordinator's fields
  generation, state, publisher, recoverable, revision, epoch, unloaded,
  leases, nextLease, pendingOwned, stopTask,
  \* asyncio: the owner of the lifecycle lock, who waits for it ahead of each task, the
  \* task that owns the loop, the waiters of _status_event that run again
  lifecycle, ahead, running, woken,
  \* locals of the tasks
  pc, mode, req, old, gen, target, lease, reply,
  \* the sync_monitor_state call in progress and the client's stop fence
  sync, fence,
  \* the bridge: its one session slot of this station and the relay events in flight
  bGen, bState, bViewer, bRev, mail,
  \* the budget of the behaviour and what is spent of it
  limits, calls, expiries, cancels, errors

owner  == <<generation, state, publisher, recoverable, revision>>
ledger == <<epoch, unloaded, leases, nextLease, pendingOwned>>
loop   == <<lifecycle, ahead, running, woken>>
locals == <<mode, req, old, gen, target, lease>>
bridge == <<bGen, bState, bViewer, bRev>>
budget == <<limits, calls, expiries, cancels, errors>>
vars == <<owner, ledger, stopTask, loop, pc, locals, reply, sync, fence,
          bridge, mail, budget>>

IdleStates == {"idle", "failed"}               \* of _IDLE_STATES, those the coordinator keeps
LiveStates == {"starting", "publishing", "stopping"}
\* "ending" is a session whose stop was requested, reported as "stopping".
BridgeStates == LiveStates \cup {"ending", "off", "stopped", "failed"}

\* An await on the lifecycle lock.
LockPcs == {"start_lock", "recover_lock", "prov_lock", "reg_lock", "rel_lock",
            "clean_lock", "stop_lock"}
\* An HTTP request in flight, by what is asked of the bridge.
StartPcs == {"start_http", "restart_http", "start_cancelled"}
StopPcs  == {"start_undo", "cancel_undo", "recover_stop", "reg_stop", "roll_stop",
             "croll_stop", "clean_stop", "stop_http"}
ViewerOnPcs  == {"viewer_on"}
ViewerOffPcs == {"roll_off", "croll_off", "viewer_off"}
HttpPcs == StartPcs \cup StopPcs \cup ViewerOnPcs \cup ViewerOffPcs
\* Synchronous code between two awaits, run while the task owns the loop.
InnerPcs == {"top", "gen", "waitfail", "fail"}
\* A call of async_acquire_viewer that is in _pending_acquires.
AcquirePcs == InnerPcs \cup {"start_lock", "recover_lock", "prov_lock", "reg_lock", "ready",
               "start_http", "restart_http", "start_cancelled", "start_undo", "cancel_undo",
               "recover_stop", "viewer_on", "reg_stop", "roll_off", "roll_stop",
               "croll_off", "croll_stop"}
AllPcs == LockPcs \cup HttpPcs \cup InnerPcs
            \cup {"idle", "admit", "ready", "leased", "clean", "sleep", "done"}

NoLease == [id |-> 0, gen |-> 0, epoch |-> 0, edge |-> FALSE]
NoReply == [kind |-> "none", gen |-> 0, state |-> "off", rev |-> 0, encoder |-> "absent"]
Failure == [NoReply EXCEPT !.kind = "error"]
Conflict == [NoReply EXCEPT !.kind = "conflict"]
Nobody  == [epoch |-> 0, gen |-> 0]
NoEvent == [event |-> "none", gen |-> 0, rev |-> 0]
NoSync  == [phase |-> "idle", event |-> NoEvent, marker |-> <<0, 0>>, row |-> NoReply]

-----------------------------------------------------------------------------
(* The coordinator's predicates.                                           *)

Ready == state = "publishing"
HasViewers == \E l \in leases : l.gen = generation       \* viewer_count != 0
Unloaded(t) == unloaded
Terminated(t) == unloaded \/ req[t] # epoch
Current == IF generation # 0 THEN generation ELSE recoverable
StartInflight == lifecycle # NoTask /\ pc[lifecycle] \in StartPcs \cup {"cancel_undo"}
AdmissionHeld == \E t \in Clients : pc[t] = "clean_stop"
Pending(t) == pc[t] \in AcquirePcs /\ mode[t] # "button"

\* What a task may do with the event loop.
Quiet == running = NoTask
Goto(t, label) == pc' = [pc EXCEPT ![t] = label]
Continue(t, label) == Goto(t, label) /\ running' = t
Suspend(t, label) == Goto(t, label) /\ running' = NoTask

\* asyncio.Lock.acquire of the lifecycle lock: at once when nobody holds or awaits
\* it, in the order of arrival otherwise.  A cleanup also waits for the acquire
\* calls that are ahead of it at the admission lock.
Waiting == {t \in Tasks : pc[t] \in LockPcs /\ running # t}
Without(S) == [t \in Tasks |-> IF t \in S THEN {} ELSE ahead[t] \ S]
TakesHeld(t) == running = t \/ (Quiet /\ ahead[t] = {})
Takes(t) ==
  /\ lifecycle = NoTask
  /\ pc[t] = "clean_lock" => \A u \in Clients : pc[u] # "admit"
  /\ \/ running = t /\ Waiting = {}
     \/ Quiet /\ ahead[t] = {}

Block(t) ==
  /\ running = t /\ pc[t] \in LockPcs /\ ~Takes(t)
  /\ running' = NoTask
  /\ ahead' = [ahead EXCEPT ![t] = Waiting]
  /\ UNCHANGED <<owner, ledger, stopTask, lifecycle, woken, pc, locals, reply, sync, fence,
                 bridge, mail, budget>>

\* _status_event.set(): every waiter runs again, after the current step.
EventLost == UNCHANGED woken
SetEvent == woken' = {t \in Clients : pc[t] = "ready"}

\* _cancel_grace_locked called by task t: what it does to the program counters
\* and replies of the grace task.  Cancelled in its HTTP call, the task still
\* runs the finally clause of _stop_generation, without a response.
GraceCancelled(t) == IF stopTask \in {NoTask, t} THEN {} ELSE {stopTask}
PcWithoutGrace(t) ==
  [u \in Tasks |-> IF u \in GraceCancelled(t) /\ pc[u] # "stop_http" THEN "idle" ELSE pc[u]]
ReplyWithoutGrace(t) ==
  [u \in Tasks |-> IF u \in GraceCancelled(t) /\ pc[u] = "stop_http" THEN Failure ELSE reply[u]]
AheadWithoutGrace(t) == Without(GraceCancelled(t))
StopTaskAfterCancel(t) == IF stopTask = t THEN stopTask ELSE NoTask

\* The local end of a generation: every lease goes with it.
DropGeneration(final) ==
  /\ generation' = 0 /\ state' = final /\ publisher' = FALSE /\ leases' = {}
  /\ SetEvent

\* _set_response_locked: a reply or a status row becomes the coordinator's state.
RevisionOf(r) == IF r.rev = 0 THEN revision ELSE r.rev
SetResponseKeeping(r) ==
  /\ generation' = r.gen /\ state' = r.state /\ revision' = RevisionOf(r)
  /\ publisher' = IF r.encoder = "absent" THEN publisher ELSE r.encoder = "on"
  /\ recoverable' = IF r.state = "stopping" THEN r.gen ELSE recoverable
  /\ SetEvent
RecoverableOf(r) == IF r.state = "stopping" THEN r.gen ELSE 0
SetResponse(r) ==
  /\ generation' = r.gen /\ state' = r.state /\ revision' = RevisionOf(r)
  /\ publisher' = IF r.encoder = "absent" THEN publisher ELSE r.encoder = "on"
  /\ recoverable' = RecoverableOf(r)
  /\ SetEvent

-----------------------------------------------------------------------------
Init ==
  /\ generation = 0 /\ state = "idle" /\ publisher = FALSE /\ recoverable = 0 /\ revision = 0
  /\ epoch = 0 /\ unloaded = FALSE /\ leases = {} /\ nextLease = 0 /\ pendingOwned = Nobody
  /\ stopTask = NoTask /\ lifecycle = NoTask /\ ahead = [t \in Tasks |-> {}]
  /\ running = NoTask /\ woken = {}
  /\ pc = [t \in Tasks |-> "idle"]
  /\ mode = [t \in Clients |-> "nowait"]
  /\ req = [t \in Tasks |-> 0]
  /\ old = [t \in Clients |-> 0]
  /\ gen = [t \in Tasks |-> 0]
  /\ target = [t \in Tasks |-> 0]
  /\ lease = [t \in Clients |-> NoLease]
  /\ reply = [t \in Tasks |-> NoReply]
  /\ sync = NoSync /\ fence = 0
  /\ bGen = 0 /\ bState = "off" /\ bViewer = FALSE /\ bRev = 0 /\ mail = {}
  /\ limits \in Budgets /\ calls = 0 /\ expiries = 0 /\ cancels = 0 /\ errors = 0

-----------------------------------------------------------------------------
(* async_acquire_viewer: admission, the head of the loop, the choice of    *)
(* what to wait for, and the except clause.                                *)

CallAcquire(t) ==
  /\ Quiet /\ pc[t] = "idle" /\ t \in limits.clients /\ calls < limits.calls
  /\ calls' = calls + 1
  /\ \E m \in limits.modes \ {"button"} : mode' = [mode EXCEPT ![t] = m]
  /\ req' = [req EXCEPT ![t] = epoch]
  /\ gen' = [gen EXCEPT ![t] = 0]
  /\ IF AdmissionHeld THEN Suspend(t, "admit") ELSE Continue(t, "admit")
  /\ UNCHANGED <<owner, ledger, stopTask, lifecycle, ahead, woken, old, target, lease, reply,
                 sync, fence, bridge, mail, limits, expiries, cancels, errors>>

Admit(t) ==
  /\ pc[t] = "admit" /\ running \in {t, NoTask} /\ ~AdmissionHeld
  /\ IF Terminated(t) THEN Suspend(t, "idle") /\ UNCHANGED old
     ELSE /\ old' = [old EXCEPT ![t] = Current]
          /\ Continue(t, "top")
  /\ UNCHANGED <<owner, ledger, stopTask, lifecycle, ahead, woken, mode, req, gen, target, lease,
                 reply, sync, fence, bridge, mail, budget>>

\* async_start up to its await of _start_generation.
CallStart(t) ==
  /\ Quiet /\ pc[t] = "idle" /\ t \in limits.clients /\ calls < limits.calls /\ "button" \in limits.modes
  /\ generation = 0 \/ state \in IdleStates
  /\ calls' = calls + 1
  /\ mode' = [mode EXCEPT ![t] = "button"]
  /\ req' = [req EXCEPT ![t] = epoch]
  /\ gen' = [gen EXCEPT ![t] = 0]
  /\ old' = [old EXCEPT ![t] = generation]
  /\ Continue(t, "start_lock")
  /\ UNCHANGED <<owner, ledger, stopTask, lifecycle, ahead, woken, target, lease, reply,
                 sync, fence, bridge, mail, limits, expiries, cancels, errors>>

Top(t) ==
  /\ running = t /\ pc[t] = "top"
  /\ IF Terminated(t) THEN Continue(t, "fail") /\ UNCHANGED gen
     ELSE /\ gen' = [gen EXCEPT ![t] = generation]
          /\ Continue(t, IF generation = 0 \/ state \in IdleStates
                           THEN IF recoverable # 0 THEN "recover_lock" ELSE "start_lock"
                         ELSE IF state = "stopping" THEN "recover_lock" ELSE "gen")
  /\ UNCHANGED <<owner, ledger, stopTask, lifecycle, ahead, woken, mode, req, old, target, lease,
                 reply, sync, fence, bridge, mail, budget>>

\* _wait_ready's verdict on the generation the caller waits for.
NoLongerReady(t) ==
  \/ generation # gen[t] \/ state \in IdleStates \/ unloaded
  \/ state = "stopping" /\ ~publisher /\ ~HasViewers

\* One turn of the loop in _wait_ready.
WaitReady(t) ==
  IF NoLongerReady(t) THEN Continue(t, "waitfail")
  ELSE IF Ready THEN Continue(t, "reg_lock")
  ELSE Suspend(t, "ready")

\* A generation is known.  A caller that does not wait takes a provisional
\* lease while the generation is not ready, everybody else waits first.
Gen(t) ==
  /\ running = t /\ pc[t] = "gen"
  /\ IF mode[t] = "button" THEN Suspend(t, "idle")
     ELSE IF mode[t] = "nowait" /\ ~Ready THEN Continue(t, "prov_lock")
     ELSE IF generation = gen[t] /\ Ready THEN Continue(t, "reg_lock")
     ELSE WaitReady(t)
  /\ UNCHANGED <<owner, ledger, stopTask, lifecycle, ahead, woken, locals, reply, sync, fence,
                 bridge, mail, budget>>

Wake(t) ==
  /\ Quiet /\ pc[t] = "ready" /\ t \in woken
  /\ woken' = woken \ {t}
  /\ WaitReady(t)
  /\ UNCHANGED <<owner, ledger, stopTask, lifecycle, ahead, locals, reply, sync, fence,
                 bridge, mail, budget>>

\* The except RuntimeError clause around async_wait_ready.
Larger(a, b) == IF a > b THEN a ELSE b
WaitFail(t) ==
  /\ running = t /\ pc[t] = "waitfail"
  /\ IF Terminated(t) THEN Continue(t, "fail") /\ UNCHANGED <<gen, old>>
     ELSE IF generation > gen[t]
       THEN Continue(t, "top") /\ gen' = [gen EXCEPT ![t] = generation] /\ UNCHANGED old
     ELSE IF /\ recoverable \in {0, gen[t]}
             /\ state = "stopping" \/ generation = 0
       THEN /\ Continue(t, "top")
            /\ old' = [old EXCEPT ![t] = Larger(@, gen[t])]
            /\ UNCHANGED gen
     ELSE Continue(t, "fail") /\ UNCHANGED <<gen, old>>
  /\ UNCHANGED <<owner, ledger, stopTask, lifecycle, ahead, woken, mode, req, target, lease,
                 reply, sync, fence, bridge, mail, budget>>

\* The call ends with an exception.  The last pending caller of its epoch
\* cleans up a generation that was started for these callers.
NeverClean(t) == FALSE
MustClean(t) ==
  /\ mode[t] # "button" /\ gen[t] # 0
  /\ pendingOwned = [epoch |-> req[t], gen |-> gen[t]]
  /\ ~\E u \in Clients \ {t} : Pending(u) /\ req[u] = req[t]
Fail(t) ==
  /\ running = t /\ pc[t] = "fail"
  /\ Suspend(t, IF MustClean(t) THEN "clean" ELSE "idle")
  /\ UNCHANGED <<owner, ledger, stopTask, lifecycle, ahead, woken, locals, reply, sync, fence,
                 bridge, mail, budget>>

-----------------------------------------------------------------------------
(* _start_generation.                                                      *)

\* Nothing to start: terminated, or another caller's newer generation to follow.
Follow(t) == generation > old[t]
StartGrant(t) ==
  /\ pc[t] = "start_lock" /\ Takes(t)
  /\ ahead' = IF Terminated(t) \/ Follow(t) THEN Without({t})
                ELSE Without({t} \cup GraceCancelled(t))
  /\ \/ /\ Terminated(t)
        /\ Continue(t, "fail")
        /\ UNCHANGED <<gen, stopTask, lifecycle, reply>>
     \/ /\ ~Terminated(t) /\ Follow(t)
        /\ gen' = [gen EXCEPT ![t] = generation]
        /\ Continue(t, "gen")
        /\ UNCHANGED <<stopTask, lifecycle, reply>>
     \/ /\ ~Terminated(t) /\ ~Follow(t)
        /\ lifecycle' = t /\ running' = NoTask
        /\ pc' = [PcWithoutGrace(t) EXCEPT ![t] = "start_http"]
        /\ reply' = ReplyWithoutGrace(t)
        /\ stopTask' = StopTaskAfterCancel(t)
        /\ UNCHANGED gen
  /\ UNCHANGED <<owner, ledger, woken, mode, req, old, target, lease,
                 sync, fence, bridge, mail, budget>>

\* pending_acquire: the caller started this generation for the pending ones.
OwnPending(t, g) ==
  IF mode[t] = "button" THEN UNCHANGED pendingOwned
  ELSE pendingOwned' = [epoch |-> req[t], gen |-> g]

\* The status already known is newer than the reply to the start.
NeverKnown(r) == FALSE
AlreadyKnown(r) == generation = r.gen /\ revision > 0 /\ r.rev <= revision

\* A generation nobody wants any more is stopped before the request fails.
ForgetStarted(t, r) ==
  lifecycle' = NoTask /\ Continue(t, "fail") /\ UNCHANGED target
StopStarted(t, r) ==
  /\ target' = [target EXCEPT ![t] = r.gen]
  /\ Suspend(t, "start_undo") /\ UNCHANGED lifecycle

\* A start reply arrived: adopt it, follow the generation that replaced it, or
\* stop what a terminated request has started.
Adopt(t, r, adoptable, keep) ==
  \/ /\ ~Terminated(t) /\ adoptable
     /\ OwnPending(t, r.gen)
     /\ IF keep THEN UNCHANGED <<owner, woken>> ELSE SetResponse(r)
     /\ gen' = [gen EXCEPT ![t] = r.gen]
     /\ lifecycle' = NoTask /\ Continue(t, "gen")
     /\ UNCHANGED target
  \/ /\ ~Terminated(t) /\ ~adoptable /\ generation # 0
     /\ gen' = [gen EXCEPT ![t] = generation]
     /\ lifecycle' = NoTask /\ Continue(t, "gen")
     /\ UNCHANGED <<owner, woken, pendingOwned, target>>
  \/ /\ Terminated(t) \/ (~adoptable /\ generation = 0)
     /\ StopStarted(t, r)
     /\ UNCHANGED <<owner, woken, pendingOwned, gen>>

StartReply(t) ==
  LET r == reply[t]
      adoptable == \/ generation = 0 /\ recoverable # r.gen
                   \/ generation # 0 /\ generation \in {old[t], r.gen}
      keep == AlreadyKnown(r) \/ (generation = r.gen /\ state = "stopping") IN
  /\ Quiet /\ pc[t] = "start_http" /\ r.kind \in {"ok", "error"}
  /\ reply' = [reply EXCEPT ![t] = NoReply]
  /\ IF r.kind = "ok" THEN Adopt(t, r, adoptable, keep)
     ELSE /\ lifecycle' = NoTask /\ Continue(t, "fail")
          /\ UNCHANGED <<owner, woken, pendingOwned, gen, target>>
  /\ UNCHANGED <<epoch, unloaded, leases, nextLease, stopTask, ahead, mode, req, old, lease,
                 sync, fence, bridge, mail, budget>>

\* A stop of this generation was acknowledged: client.py hides the stopped
\* preview from later monitor status replies.
Acknowledged(t) == fence' = IF reply[t].kind = "ok" THEN target[t] ELSE fence

\* Leaving a lifecycle section that failed.
FailFrom(t) ==
  /\ lifecycle' = NoTask /\ Continue(t, "fail")
  /\ reply' = [reply EXCEPT ![t] = NoReply]

\* The unwanted generation is stopped, then the request fails.
UndoReply(t) ==
  /\ Quiet /\ pc[t] \in {"start_undo", "cancel_undo"} /\ reply[t] # NoReply
  /\ FailFrom(t) /\ Acknowledged(t)
  /\ UNCHANGED <<owner, ledger, stopTask, woken, ahead, locals, sync, bridge, mail, budget>>

\* _await_start_response after a cancellation: the accepted start is stopped.
CancelledStartReply(t) ==
  /\ Quiet /\ pc[t] = "start_cancelled" /\ reply[t] # NoReply
  /\ IF reply[t].kind = "ok"
       THEN /\ target' = [target EXCEPT ![t] = reply[t].gen]
            /\ reply' = [reply EXCEPT ![t] = NoReply]
            /\ Suspend(t, "cancel_undo") /\ UNCHANGED lifecycle
       ELSE FailFrom(t) /\ UNCHANGED target
  /\ UNCHANGED <<owner, ledger, stopTask, woken, ahead, mode, req, old, gen, lease,
                 sync, fence, bridge, mail, budget>>

-----------------------------------------------------------------------------
(* _recover_generation.                                                    *)

RecoverGrant(t) ==
  /\ pc[t] = "recover_lock" /\ Takes(t) /\ ahead' = Without({t})
  /\ \/ /\ Terminated(t)
        /\ Continue(t, "fail") /\ UNCHANGED <<gen, target, lifecycle>>
     \/ /\ ~Terminated(t)
        /\ generation # 0 /\ (publisher \/ HasViewers \/ Follow(t))
        /\ gen' = [gen EXCEPT ![t] = generation]
        /\ Continue(t, "gen") /\ UNCHANGED <<target, lifecycle>>
     \/ /\ ~Terminated(t)
        /\ generation = 0 \/ ~(publisher \/ HasViewers \/ Follow(t))
        /\ lifecycle' = t
        /\ IF generation # 0 /\ generation = old[t] /\ state = "stopping"
             THEN target' = [target EXCEPT ![t] = generation] /\ Suspend(t, "recover_stop")
             ELSE UNCHANGED target /\ Suspend(t, "restart_http")
        /\ UNCHANGED gen
  /\ UNCHANGED <<owner, ledger, stopTask, woken, mode, req, old, lease, reply,
                 sync, fence, bridge, mail, budget>>

\* The stop of the old generation returned: forget it, unless someone already
\* moved on, and start the next one.
RecoverStopped(t) ==
  LET same == generation = target[t] IN
  /\ Quiet /\ pc[t] = "recover_stop" /\ reply[t] # NoReply
  /\ Acknowledged(t)
  /\ \/ /\ reply[t].kind = "error" \/ Terminated(t)
        /\ FailFrom(t)
        /\ UNCHANGED <<owner, leases, woken, gen>>
     \/ /\ reply[t].kind # "error" /\ ~Terminated(t)
        /\ reply' = [reply EXCEPT ![t] = NoReply]
        /\ IF same THEN DropGeneration("idle") /\ UNCHANGED <<recoverable, revision>>
                   ELSE UNCHANGED <<owner, leases, woken>>
        /\ IF ~same /\ Follow(t)
             THEN /\ gen' = [gen EXCEPT ![t] = generation]
                  /\ lifecycle' = NoTask /\ Continue(t, "gen")
             ELSE UNCHANGED <<gen, lifecycle>> /\ Suspend(t, "restart_http")
  /\ UNCHANGED <<epoch, unloaded, nextLease, pendingOwned, stopTask, ahead, mode, req, old,
                 target, lease, sync, bridge, mail, budget>>

RestartReply(t) ==
  LET r == reply[t]
      adoptable == \/ generation = 0 /\ recoverable # r.gen
                   \/ generation # 0 /\ generation = old[t] IN
  /\ Quiet /\ pc[t] = "restart_http" /\ r.kind \in {"ok", "error"}
  /\ reply' = [reply EXCEPT ![t] = NoReply]
  /\ IF r.kind = "ok" THEN Adopt(t, r, adoptable, AlreadyKnown(r))
     ELSE /\ lifecycle' = NoTask /\ Continue(t, "fail")
          /\ UNCHANGED <<owner, woken, pendingOwned, gen, target>>
  /\ UNCHANGED <<epoch, unloaded, leases, nextLease, stopTask, ahead, mode, req, old, lease,
                 sync, fence, bridge, mail, budget>>

-----------------------------------------------------------------------------
(* _register_provisional_lease and _register_lease.                        *)

\* The lease is recorded and the acquire call returns it.
GrantWithoutEdge(t, edge) ==
  LET l == [id |-> nextLease + 1, gen |-> gen[t], epoch |-> epoch, edge |-> FALSE] IN
  /\ nextLease' = nextLease + 1
  /\ leases' = leases \cup {l}
  /\ lease' = [lease EXCEPT ![t] = l]
  /\ pendingOwned' = Nobody
  /\ Suspend(t, "leased")
Grant(t, edge) ==
  LET l == [id |-> nextLease + 1, gen |-> gen[t], epoch |-> epoch, edge |-> edge] IN
  /\ nextLease' = nextLease + 1
  /\ leases' = leases \cup {l}
  /\ lease' = [lease EXCEPT ![t] = l]
  /\ pendingOwned' = IF pendingOwned = [epoch |-> req[t], gen |-> gen[t]]
                       THEN Nobody ELSE pendingOwned
  /\ Suspend(t, "leased")

\* _RetryAcquire: the caller goes round the loop again.
Retry(t) ==
  /\ old' = [old EXCEPT ![t] = Larger(@, gen[t])]
  /\ Continue(t, "top")

ProvisionalGrant(t) ==
  /\ pc[t] = "prov_lock" /\ Takes(t) /\ ahead' = Without({t})
  /\ IF ~Terminated(t) /\ generation = gen[t] /\ state \notin IdleStates \cup {"stopping"}
       THEN Grant(t, FALSE) /\ UNCHANGED old
       ELSE Retry(t) /\ UNCHANGED <<leases, nextLease, pendingOwned, lease>>
  /\ UNCHANGED <<owner, epoch, unloaded, stopTask, lifecycle, woken, mode, req, gen, target,
                 reply, sync, fence, bridge, mail, budget>>

RegisterGrant(t) ==
  /\ pc[t] = "reg_lock" /\ Takes(t) /\ ahead' = Without({t})
  /\ \/ /\ Terminated(t)
        /\ Continue(t, "fail")
        /\ UNCHANGED <<leases, nextLease, pendingOwned, lease, old, target, lifecycle>>
     \/ /\ ~Terminated(t) /\ (generation # gen[t] \/ ~Ready)
        /\ Retry(t)
        /\ UNCHANGED <<leases, nextLease, pendingOwned, lease, target, lifecycle>>
     \/ /\ ~Terminated(t) /\ generation = gen[t] /\ Ready /\ HasViewers
        /\ Grant(t, TRUE)
        /\ UNCHANGED <<old, target, lifecycle>>
     \/ /\ ~Terminated(t) /\ generation = gen[t] /\ Ready /\ ~HasViewers
        /\ lifecycle' = t
        /\ target' = [target EXCEPT ![t] = gen[t]]
        /\ Suspend(t, "viewer_on")
        /\ UNCHANGED <<leases, nextLease, pendingOwned, lease, old>>
  /\ UNCHANGED <<owner, epoch, unloaded, stopTask, woken, mode, req, gen,
                 reply, sync, fence, bridge, mail, budget>>

\* The bridge answered the first viewer edge: register the lease if the
\* generation is still the one that was asked for, take the edge back if not.
ViewerOnReply(t) ==
  /\ Quiet /\ pc[t] = "viewer_on" /\ reply[t] # NoReply
  /\ reply' = [reply EXCEPT ![t] = NoReply]
  /\ \/ /\ reply[t].kind # "ok"
        /\ Suspend(t, "reg_stop")
        /\ UNCHANGED <<leases, nextLease, pendingOwned, lease, lifecycle>>
     \/ /\ reply[t].kind = "ok" /\ ~Terminated(t) /\ generation = gen[t] /\ Ready
        /\ lifecycle' = NoTask
        /\ Grant(t, TRUE)
     \/ /\ reply[t].kind = "ok" /\ (Terminated(t) \/ generation # gen[t] \/ ~Ready)
        /\ Suspend(t, "roll_off")
        /\ UNCHANGED <<leases, nextLease, pendingOwned, lease, lifecycle>>
  /\ UNCHANGED <<owner, epoch, unloaded, stopTask, woken, ahead, mode, req, old, gen, target,
                 sync, fence, bridge, mail, budget>>

\* rollback_viewer_edge: the edge is lowered, then the generation is stopped;
\* the second call is made even if the first one fails.
RollOffReply(t) ==
  /\ Quiet /\ pc[t] \in {"roll_off", "croll_off"} /\ reply[t] # NoReply
  /\ reply' = [reply EXCEPT ![t] = NoReply]
  /\ Suspend(t, IF pc[t] = "roll_off" /\ reply[t].kind = "ok" THEN "roll_stop" ELSE "croll_stop")
  /\ UNCHANGED <<owner, ledger, stopTask, lifecycle, ahead, woken, locals, sync, fence,
                 bridge, mail, budget>>

\* The end of a failed registration.  After a refused viewer edge (reg_stop)
\* the recoverable marker stays, after a rollback it goes.  A rollback without
\* an exception retries unless the request was terminated.
RegisterUndone(t) ==
  /\ Quiet /\ pc[t] \in {"reg_stop", "roll_stop", "croll_stop"} /\ reply[t] # NoReply
  /\ Acknowledged(t)
  /\ reply' = [reply EXCEPT ![t] = NoReply]
  /\ lifecycle' = NoTask
  /\ IF generation = gen[t]
       THEN /\ DropGeneration("idle")
            /\ recoverable' = IF pc[t] = "reg_stop" THEN recoverable ELSE 0
       ELSE UNCHANGED <<generation, state, publisher, leases, woken, recoverable>>
  /\ IF pc[t] = "roll_stop" /\ reply[t].kind # "error" /\ ~Terminated(t)
       THEN Retry(t)
       ELSE Continue(t, "fail") /\ UNCHANGED old
  /\ UNCHANGED <<revision, epoch, unloaded, nextLease, pendingOwned, stopTask, ahead,
                 mode, req, gen, target, lease, sync, bridge, mail, budget>>

-----------------------------------------------------------------------------
(* _cleanup_cancelled_acquire, a task of its own shielded from its caller.  *)

Unclaimed(t) ==
  /\ generation = gen[t] /\ req[t] = epoch
  /\ pendingOwned = [epoch |-> req[t], gen |-> gen[t]]
  /\ ~HasViewers
CleanStart(t) ==
  /\ Quiet /\ pc[t] = "clean" /\ Continue(t, "clean_lock")
  /\ UNCHANGED <<owner, ledger, stopTask, lifecycle, ahead, woken, locals, reply, sync, fence,
                 bridge, mail, budget>>

CleanGrant(t) ==
  /\ pc[t] = "clean_lock" /\ Takes(t) /\ ahead' = Without({t})
  /\ IF Unclaimed(t) /\ ~\E u \in Clients \ {t} : Pending(u) /\ req[u] = req[t]
       THEN /\ lifecycle' = t
            /\ target' = [target EXCEPT ![t] = gen[t]]
            /\ Suspend(t, "clean_stop")
       ELSE Suspend(t, "idle") /\ UNCHANGED <<lifecycle, target>>
  /\ UNCHANGED <<owner, ledger, stopTask, woken, mode, req, old, gen, lease, reply,
                 sync, fence, bridge, mail, budget>>

CleanReply(t) ==
  /\ Quiet /\ pc[t] = "clean_stop" /\ reply[t] # NoReply
  /\ Acknowledged(t)
  /\ reply' = [reply EXCEPT ![t] = NoReply]
  /\ lifecycle' = NoTask /\ Suspend(t, "idle")
  /\ IF reply[t].kind # "error" /\ generation = gen[t] /\ req[t] = epoch /\ ~HasViewers
       THEN /\ generation' = 0 /\ state' = "idle" /\ publisher' = FALSE
            /\ recoverable' = 0 /\ pendingOwned' = Nobody /\ SetEvent
       ELSE UNCHANGED <<generation, state, publisher, recoverable, pendingOwned, woken>>
  /\ UNCHANGED <<revision, epoch, unloaded, leases, nextLease, stopTask, ahead, locals, sync,
                 bridge, mail, budget>>

-----------------------------------------------------------------------------
(* async_release_viewer, _stop_after_grace and _stop_generation.           *)

\* create_task(_stop_after_grace(generation)), given the program counters before it.
NoStop(t, pcs) == pc' = [pcs EXCEPT ![t] = "idle"] /\ UNCHANGED <<gen, stopTask>>
Schedule(t, pcs) ==
  \E s \in Graces :
    /\ pc[s] = "idle"
    /\ pc' = [pcs EXCEPT ![t] = "idle", ![s] = "sleep"]
    /\ gen' = [gen EXCEPT ![s] = generation]
    /\ stopTask' = s

\* The ledger without the caller's lease.
LeftAtLastEdge(t) ==
  IF lease[t].gen = generation /\ \E l \in leases \ {lease[t]} : l.gen = generation
    THEN leases ELSE leases \ {lease[t]}
Left(t) == leases \ {lease[t]}

\* Only the exact registered lease counts; a lease that was revoked is a no-op.
\* The last one of the current generation lowers the viewer edge and then
\* schedules the stop.
CallRelease(t) ==
  LET last == /\ generation # 0 /\ lease[t].gen = generation
              /\ ~\E l \in Left(t) : l.gen = generation IN
  /\ Quiet /\ pc[t] = "leased"
  /\ \/ /\ lease[t] \notin leases
        /\ Suspend(t, "idle") /\ lease' = [lease EXCEPT ![t] = NoLease]
        /\ UNCHANGED <<leases, stopTask, gen, reply, ahead>>
     \/ /\ lease[t] \in leases /\ ~last
        /\ leases' = Left(t)
        /\ Suspend(t, "idle") /\ lease' = [lease EXCEPT ![t] = NoLease]
        /\ UNCHANGED <<stopTask, gen, reply, ahead>>
     \/ /\ lease[t] \in leases /\ last
        /\ leases' = Left(t) /\ reply' = ReplyWithoutGrace(t) /\ ahead' = AheadWithoutGrace(t)
        /\ IF lease[t].edge
             THEN /\ pc' = [PcWithoutGrace(t) EXCEPT ![t] = "rel_lock"] /\ running' = t
                  /\ stopTask' = StopTaskAfterCancel(t)
                  /\ gen' = [gen EXCEPT ![t] = generation]
                  /\ UNCHANGED lease
             ELSE /\ Schedule(t, PcWithoutGrace(t)) /\ running' = NoTask
                  /\ lease' = [lease EXCEPT ![t] = NoLease]
  /\ UNCHANGED <<owner, epoch, unloaded, nextLease, pendingOwned, lifecycle, woken, mode,
                 req, old, target, sync, fence, bridge, mail, budget>>

ReleaseGrant(t) ==
  /\ pc[t] = "rel_lock" /\ Takes(t) /\ ahead' = Without({t})
  /\ lifecycle' = t
  /\ target' = [target EXCEPT ![t] = gen[t]]
  /\ Suspend(t, "viewer_off")
  /\ UNCHANGED <<owner, ledger, stopTask, woken, mode, req, old, gen, lease, reply,
                 sync, fence, bridge, mail, budget>>

\* A failed viewer call gives the lease back to its caller, who retries.
ViewerOffReply(t) ==
  /\ Quiet /\ pc[t] = "viewer_off" /\ reply[t] # NoReply
  /\ reply' = [reply EXCEPT ![t] = NoReply]
  /\ lifecycle' = NoTask /\ running' = NoTask
  /\ \/ /\ reply[t].kind # "ok"
        /\ leases' = IF generation = gen[t] THEN leases \cup {lease[t]} ELSE leases
        /\ Goto(t, "leased")
        /\ UNCHANGED <<lease, stopTask, gen>>
     \/ /\ reply[t].kind = "ok"
        /\ lease' = [lease EXCEPT ![t] = NoLease]
        /\ IF generation = gen[t] /\ ~HasViewers
             THEN Schedule(t, pc)
             ELSE Goto(t, "idle") /\ UNCHANGED <<stopTask, gen>>
        /\ UNCHANGED leases
  /\ UNCHANGED <<owner, epoch, unloaded, nextLease, pendingOwned, woken, ahead, mode, req, old,
                 target, sync, fence, bridge, mail, budget>>

\* The grace period is over.
GraceExpires(s) ==
  /\ Quiet /\ pc[s] = "sleep" /\ expiries < limits.expiries
  /\ expiries' = expiries + 1
  /\ Continue(s, "stop_lock")
  /\ UNCHANGED <<owner, ledger, stopTask, lifecycle, ahead, woken, locals, reply, sync, fence,
                 bridge, mail, limits, calls, cancels, errors>>

\* async_stop, async_preempt and async_unload up to their first await.
CallStop(s) ==
  /\ Quiet /\ pc[s] = "idle"
  /\ \E kind \in limits.stops :
       /\ unloaded' = (unloaded \/ kind = "unload")
       /\ IF kind = "unload" /\ unloaded
            THEN Suspend(s, "done") /\ UNCHANGED <<epoch, gen, publisher, recoverable>>
            ELSE /\ epoch' = epoch + 1 /\ recoverable' = 0 /\ publisher' = FALSE
                 /\ gen' = [gen EXCEPT ![s] = Current]
                 /\ IF kind = "unload" /\ Current = 0 THEN Suspend(s, "done")
                    ELSE Continue(s, "stop_lock")
  /\ UNCHANGED <<generation, state, revision, leases, nextLease, pendingOwned, stopTask,
                 lifecycle, ahead, woken, mode, req, old, target, lease, reply, sync, fence,
                 bridge, mail, budget>>

\* A stopper is a one-shot call; a grace task clears its own registration.
StopEnds(s, pcs) ==
  /\ pc' = [pcs EXCEPT ![s] = IF s \in Graces THEN "idle" ELSE "done"]
  /\ running' = NoTask

StopGrant(s) ==
  /\ pc[s] = "stop_lock" /\ Takes(s)
  /\ ahead' = IF generation # 0 /\ gen[s] \in {0, generation}
                  THEN Without({s} \cup GraceCancelled(s)) ELSE Without({s})
  /\ \/ /\ generation = 0
        /\ DropGeneration("idle") /\ StopEnds(s, pc)
        /\ stopTask' = IF stopTask = s THEN NoTask ELSE stopTask
        /\ UNCHANGED <<recoverable, revision, lifecycle, req, target, reply>>
     \/ /\ generation # 0 /\ gen[s] \notin {0, generation}
        /\ StopEnds(s, pc)
        /\ stopTask' = IF stopTask = s THEN NoTask ELSE stopTask
        /\ UNCHANGED <<owner, leases, woken, lifecycle, req, target, reply>>
     \/ /\ generation # 0 /\ gen[s] \in {0, generation}
        /\ lifecycle' = s /\ running' = NoTask
        /\ pc' = [PcWithoutGrace(s) EXCEPT ![s] = "stop_http"]
        /\ reply' = ReplyWithoutGrace(s)
        /\ stopTask' = StopTaskAfterCancel(s)
        /\ req' = [req EXCEPT ![s] = epoch]
        /\ target' = [target EXCEPT ![s] = generation]
        /\ UNCHANGED <<owner, leases, woken>>
  /\ UNCHANGED <<epoch, unloaded, nextLease, pendingOwned, mode, old, gen, lease,
                 sync, fence, bridge, mail, budget>>

\* The finally clause: whatever the bridge answered, the generation is gone.  A
\* grace stop records the reply first, so a stopping reply leaves its marker.
StopReply(s) ==
  LET records == s \in Graces /\ req[s] = epoch /\ reply[s].kind = "ok" IN
  /\ Quiet /\ pc[s] = "stop_http" /\ reply[s] # NoReply
  /\ Acknowledged(s)
  /\ reply' = [reply EXCEPT ![s] = NoReply]
  /\ lifecycle' = NoTask /\ StopEnds(s, pc)
  /\ stopTask' = IF stopTask = s THEN NoTask ELSE stopTask
  /\ IF generation = target[s]
       THEN /\ DropGeneration("idle")
            /\ recoverable' = IF records THEN RecoverableOf(reply[s]) ELSE recoverable
            /\ revision' = IF records THEN RevisionOf(reply[s]) ELSE revision
       ELSE UNCHANGED <<owner, leases, woken>>
  /\ UNCHANGED <<epoch, unloaded, nextLease, ahead, pendingOwned, locals, sync,
                 bridge, mail, budget>>

-----------------------------------------------------------------------------
(* async_apply_status and its caller sync_monitor_state.  A message is a   *)
(* status row (event "none") or a relay event.                             *)

Stale(m) == m.rev <= revision
Mismatch(m) == Current # 0 /\ m.gen \notin {0, Current}

\* Terminal facts about the current generation, or about the one whose start
\* the bridge may already have accepted, end every request that is under way.
TerminalFor(m) ==
  /\ m.event \in {"preempted", "failed"} \/ m.state = "failed"
  /\ Current # 0 \/ (StartInflight /\ m.gen # 0)
EndsUnlessStopped(m) == m.event \in TerminalEvents \/ m.state \in {"off", "failed"}
Ends(m) == m.event \in TerminalEvents \/ m.state \in {"off", "stopped", "failed"}
SaysStopped(m) == m.event = "stopped" \/ (m.event = "none" /\ m.state = "stopped")
SaysFailed(m)  == m.event = "failed" \/ (m.event = "none" /\ m.state = "failed")

ApplyStatus(m) ==
  /\ epoch' = IF TerminalFor(m) THEN epoch + 1 ELSE epoch
  /\ IF Ends(m)
       THEN /\ DropGeneration(IF SaysFailed(m) THEN "failed" ELSE "idle")
            /\ recoverable' = IF SaysStopped(m) /\ ~TerminalFor(m) THEN Current ELSE 0
            /\ revision' = m.rev
            /\ pc' = PcWithoutGrace(Sync) /\ reply' = ReplyWithoutGrace(Sync)
            /\ stopTask' = NoTask /\ ahead' = AheadWithoutGrace(Sync)
       ELSE SetResponse(m) /\ UNCHANGED <<leases, pc, reply, stopTask, ahead>>

Reported(s) == IF s = "ending" THEN "stopping" ELSE s
Row(encoder) ==
  [kind |-> "ok", gen |-> IF bState = "off" THEN 0 ELSE bGen, state |-> Reported(bState),
   rev |-> bRev, encoder |-> encoder]
Encoders == CASE bState = "publishing" -> {"on"}
              [] bState \in {"stopping", "ending"} -> {"on", "off"}
              [] OTHER                 -> {"off"}

\* process_event and its EventGate: an event of another generation than the present one or
\* of an older status is ignored, and after one that was accepted only newer ones are.
Accepted(e) == generation \in {0, e.gen} /\ (generation = e.gen => e.rev >= revision)
Newer(e, than) == e.gen > than.gen \/ (e.gen = than.gen /\ e.rev > than.rev)
EventIgnored ==
  /\ Quiet
  /\ \E e \in mail : ~Accepted(e) /\ mail' = mail \ {e}
  /\ UNCHANGED <<owner, ledger, stopTask, loop, pc, locals, reply, sync, fence, bridge, budget>>

\* A poll, or an accepted relay event, which first polls: the marker is taken, the
\* request leaves, and the bridge answers with its present row.  A poll that would
\* only bring a row already known changes nothing and is left out.
SyncBegin ==
  /\ Quiet /\ sync.phase = "idle"
  /\ \E e \in mail \cup {NoEvent}, encoder \in Encoders :
       /\ IF e = NoEvent THEN bRev > revision ELSE Accepted(e)
       /\ sync' = [phase |-> "polling", event |-> e, marker |-> <<generation, revision>>,
                   row |-> Row(encoder)]
       /\ mail' = {m \in mail : Newer(m, e)}
  /\ UNCHANGED <<owner, ledger, stopTask, loop, pc, locals, reply, fence, bridge, budget>>

UnfencedRow ==
  [event |-> "none", gen |-> sync.row.gen, state |-> sync.row.state, rev |-> sync.row.rev,
   encoder |-> sync.row.encoder]
\* What monitor_status lets through: nothing of a generation whose stop was
\* acknowledged.  A station without a row is idle.
SyncRow ==
  LET r == sync.row
      hidden == r.gen # 0 /\ r.gen = fence IN
  [event |-> "none", gen |-> IF hidden THEN 0 ELSE r.gen,
   state |-> IF hidden THEN "off" ELSE r.state, rev |-> r.rev, encoder |-> r.encoder]

ToEvent ==
  IF sync.event = NoEvent
    THEN sync' = NoSync /\ running' = NoTask
    ELSE sync' = [sync EXCEPT !.phase = "event"] /\ running' = Sync

\* The answer: a row is skipped when the coordinator moved on meanwhile, a row of
\* another generation raises and drops the relay event with it.
SyncStatus ==
  LET moved == sync.marker # <<generation, revision>> IN
  /\ Quiet /\ sync.phase = "polling"
  /\ \/ /\ moved \/ Stale(SyncRow)
        /\ ToEvent
        /\ UNCHANGED <<owner, epoch, leases, woken, pc, reply, stopTask, ahead>>
     \/ /\ ~moved /\ ~Stale(SyncRow) /\ Mismatch(SyncRow)
        /\ sync' = NoSync /\ running' = NoTask
        /\ UNCHANGED <<owner, epoch, leases, woken, pc, reply, stopTask, ahead>>
     \/ /\ ~moved /\ ~Stale(SyncRow) /\ ~Mismatch(SyncRow)
        /\ ApplyStatus(SyncRow) /\ ToEvent
  /\ UNCHANGED <<unloaded, nextLease, pendingOwned, lifecycle, locals, fence,
                 bridge, mail, budget>>

\* The relay event is applied after the poll, whatever became of the poll: the marker is
\* not compared again, and the client's fence is only for rows.
Message(e) ==
  [event |-> e.event, gen |-> e.gen, rev |-> e.rev,
   state |-> CASE e.event = "requested" -> "starting" [] e.event = "publishing" -> "publishing"
               [] OTHER -> "off",
   encoder |-> CASE e.event = "requested" -> "off" [] e.event = "publishing" -> "on"
                 [] OTHER -> "absent"]
SyncEvent ==
  LET m == Message(sync.event) IN
  /\ running = Sync /\ sync.phase = "event"
  /\ sync' = NoSync /\ running' = NoTask
  /\ IF Stale(m) \/ Mismatch(m)
       THEN UNCHANGED <<owner, epoch, leases, woken, pc, reply, stopTask, ahead>>
       ELSE ApplyStatus(m)
  /\ UNCHANGED <<unloaded, nextLease, pendingOwned, lifecycle, locals, fence,
                 bridge, mail, budget>>

\* The status request fails; the relay event is not applied.
SyncFails ==
  /\ Quiet /\ sync.phase = "polling" /\ errors < limits.errors
  /\ errors' = errors + 1 /\ sync' = NoSync
  /\ UNCHANGED <<owner, ledger, stopTask, loop, pc, locals, reply, fence, bridge, mail,
                 limits, calls, expiries, cancels>>

-----------------------------------------------------------------------------
(* Cancellation of a client call at its present await.                     *)

Cancel(t) ==
  /\ Quiet /\ pc[t] \in limits.cancelAt /\ cancels < limits.cancels
  /\ cancels' = cancels + 1
  /\ woken' = woken \ {t} /\ ahead' = Without({t})
  /\ \/ /\ pc[t] = "admit"
        /\ Suspend(t, "idle")
        /\ UNCHANGED <<owner, leases, lifecycle, reply, lease>>
     \/ /\ pc[t] \in {"start_lock", "recover_lock", "prov_lock", "reg_lock", "ready"}
        /\ Continue(t, "fail")
        /\ UNCHANGED <<owner, leases, lifecycle, reply, lease>>
     \/ /\ pc[t] \in {"start_http", "restart_http"}    \* shielded
        /\ Suspend(t, "start_cancelled")
        /\ UNCHANGED <<owner, leases, lifecycle, reply, lease>>
     \/ /\ pc[t] \in {"start_undo", "recover_stop"}
        /\ FailFrom(t)
        /\ UNCHANGED <<owner, leases, lease>>
     \/ /\ pc[t] = "viewer_on"
        /\ Suspend(t, "croll_off")
        /\ reply' = [reply EXCEPT ![t] = NoReply]
        /\ UNCHANGED <<owner, leases, lifecycle, lease>>
     \/ /\ pc[t] \in {"rel_lock", "viewer_off"}        \* the lease is already gone
        /\ Suspend(t, "idle") /\ lease' = [lease EXCEPT ![t] = NoLease]
        /\ lifecycle' = IF pc[t] = "viewer_off" THEN NoTask ELSE lifecycle
        /\ reply' = [reply EXCEPT ![t] = NoReply]
        /\ UNCHANGED <<owner, leases>>
  /\ UNCHANGED <<epoch, unloaded, nextLease, pendingOwned, stopTask, mode, req, old, gen,
                 target, sync, fence, bridge, mail, limits, calls, expiries, errors>>

-----------------------------------------------------------------------------
(* External: the Doorfast bridge, as monitor.py and client.py use it.      *)

\* The bridge's answer to a request, and what the request does to its session.
\* A start is idempotent while a session is live; a stop names its generation
\* and is refused (409) for any other; a viewer flag needs a publishing session.
ServeStart(t, answered) ==
  /\ pc[t] \in StartPcs
  /\ IF bState \in {"starting", "publishing"}
       THEN UNCHANGED bridge
       ELSE /\ bGen < limits.gen
            /\ bGen' = bGen + 1 /\ bRev' = bRev + 1 /\ bViewer' = FALSE
            /\ bState' \in {"starting", "publishing"}
  /\ reply' = [reply EXCEPT ![t] = IF ~answered THEN Failure ELSE
       [kind |-> "ok", gen |-> bGen', state |-> bState',
        rev |-> IF limits.full THEN bRev' ELSE 0,
        encoder |-> IF ~limits.full THEN "absent"
                    ELSE IF bState' = "publishing" THEN "on" ELSE "off"]]

ServeStop(t, answered) ==
  /\ pc[t] \in StopPcs
  /\ IF bState \in LiveStates \cup {"ending"} /\ bGen = target[t]
       THEN /\ bState' = "ending"
            /\ bRev' = IF Reported(bState) = "stopping" THEN bRev ELSE bRev + 1
            /\ reply' = [reply EXCEPT ![t] = IF ~answered THEN Failure ELSE
                 [kind |-> "ok", gen |-> bGen, state |-> "stopping",
                  rev |-> IF limits.full THEN bRev' ELSE 0, encoder |-> "absent"]]
       ELSE /\ UNCHANGED <<bState, bRev>>
            /\ reply' = [reply EXCEPT ![t] = IF ~answered THEN Failure ELSE Conflict]
  /\ UNCHANGED <<bGen, bViewer>>

ServeViewer(t, answered) ==
  LET live == bState = "publishing" /\ bGen = target[t] IN
  /\ pc[t] \in ViewerOnPcs \cup ViewerOffPcs
  /\ bViewer' = IF live THEN pc[t] \in ViewerOnPcs ELSE bViewer
  /\ reply' = [reply EXCEPT ![t] = IF live /\ answered THEN [NoReply EXCEPT !.kind = "ok"]
                                   ELSE Failure]
  /\ UNCHANGED <<bGen, bState, bRev>>

Serve(t) ==
  /\ Quiet /\ pc[t] \in HttpPcs /\ reply[t] = NoReply
  /\ \E answered \in {TRUE} \cup IF errors < limits.errors THEN {FALSE} ELSE {} :
       /\ errors' = IF answered THEN errors ELSE errors + 1
       /\ ServeStart(t, answered) \/ ServeStop(t, answered) \/ ServeViewer(t, answered)
  /\ UNCHANGED <<owner, ledger, stopTask, loop, pc, locals, sync, fence, mail,
                 limits, calls, expiries, cancels>>

\* The request never reached the bridge, or the bridge cannot start another generation.
Refuse(t) ==
  /\ Quiet /\ pc[t] \in HttpPcs /\ reply[t] = NoReply
  /\ \/ errors < limits.errors /\ errors' = errors + 1
     \/ /\ pc[t] \in StartPcs /\ bGen = limits.gen /\ bState \notin {"starting", "publishing"}
        /\ UNCHANGED errors
  /\ reply' = [reply EXCEPT ![t] = Failure]
  /\ UNCHANGED <<owner, ledger, stopTask, loop, pc, locals, sync, fence, bridge, mail,
                 limits, calls, expiries, cancels>>

\* What the session does without being asked, and the event of it that may arrive.
Relay(name) ==
  mail' \in {mail} \cup (IF name \in limits.relayed
                        THEN {mail \cup {[event |-> name, gen |-> bGen, rev |-> bRev']}} ELSE {})
BridgeMove(move) ==
  /\ Quiet /\ move \in limits.moves /\ bRev < limits.rev
  /\ bRev' = bRev + 1
  /\ \/ move = "progress" /\ bState = "starting" /\ UNCHANGED bState /\ Relay("requested")
     \/ move = "publish" /\ bState = "starting" /\ bState' = "publishing" /\ Relay("publishing")
     \/ move = "stopping" /\ bState \in {"starting", "publishing"} /\ bState' = "stopping"
        /\ UNCHANGED mail
     \/ move = "resume" /\ bState = "stopping" /\ bState' = "publishing" /\ Relay("publishing")
     \/ move = "stopped" /\ bState \in {"stopping", "ending"} /\ bState' \in {"off", "stopped"}
        /\ Relay("stopped")
     \/ move = "preempt" /\ bState \in LiveStates \cup {"ending"} /\ bState' = "off"
        /\ Relay("preempted")
     \/ move = "fail" /\ bState \in LiveStates \cup {"ending"} /\ bState' \in {"off", "failed"}
        /\ Relay("failed")
  /\ bViewer' = IF bState' \in LiveStates \cup {"ending"} THEN bViewer ELSE FALSE
  /\ UNCHANGED <<owner, ledger, stopTask, loop, pc, locals, reply, sync, fence, bGen, budget>>

-----------------------------------------------------------------------------
ClientStep(t) ==
  \/ Admit(t) \/ Top(t) \/ Gen(t) \/ Wake(t) \/ WaitFail(t) \/ Fail(t)
  \/ StartGrant(t) \/ StartReply(t) \/ UndoReply(t) \/ CancelledStartReply(t)
  \/ RecoverGrant(t) \/ RecoverStopped(t) \/ RestartReply(t)
  \/ ProvisionalGrant(t) \/ RegisterGrant(t) \/ ViewerOnReply(t) \/ RollOffReply(t)
  \/ RegisterUndone(t) \/ CleanStart(t) \/ CleanGrant(t) \/ CleanReply(t)
  \/ ReleaseGrant(t) \/ ViewerOffReply(t)
StopStep(s) == StopGrant(s) \/ StopReply(s)
SyncStep == SyncBegin \/ SyncStatus \/ SyncEvent \/ EventIgnored

Next ==
  \/ \E t \in Clients : \/ ClientStep(t) \/ CallAcquire(t) \/ CallStart(t)
                       \/ CallRelease(t) \/ Cancel(t)
  \/ \E s \in Stoppers : CallStop(s)
  \/ \E s \in Graces : GraceExpires(s)
  \/ \E s \in Stoppers \cup Graces : StopStep(s)
  \/ \E t \in Tasks : Block(t) \/ Serve(t) \/ Refuse(t)
  \/ SyncStep \/ SyncFails
  \/ \E move \in AllMoves : BridgeMove(move)

Spec == Init /\ [][Next]_vars

\* The event loop never idles while a task can go on: the one it runs, one that
\* can be woken, one whose HTTP request is answered or times out, a grace period
\* that is over.  Polling never ends, a preview that starts gets to publish and
\* one that stops comes to its end.  Nothing is assumed of the order, and nothing
\* of the calls, the cancellations and what else the bridge does.
TaskStep ==
  \/ \E t \in Clients : ClientStep(t)
  \/ \E s \in Stoppers \cup Graces : StopStep(s)
  \/ \E s \in Graces : GraceExpires(s)
  \/ \E t \in Tasks : Block(t) \/ Serve(t) \/ Refuse(t)
  \/ SyncEvent
Fairness ==
  /\ WF_vars(TaskStep) /\ WF_vars(SyncStep)
  /\ WF_vars(BridgeMove("publish")) /\ WF_vars(BridgeMove("stopped"))
FairSpec == Spec /\ Fairness

-----------------------------------------------------------------------------
(* What the coordinator promises.                                          *)

EndedPcs == {"idle", "done", "sleep"}
\* Nothing is under way, and a poll would tell nothing new.
Settled ==
  /\ Quiet /\ sync.phase = "idle" /\ mail = {} /\ revision >= bRev
  /\ \A t \in Tasks : pc[t] \in EndedPcs \cup {"leased"}

Leases == [id : Nat, gen : Nat, epoch : Nat, edge : BOOLEAN]
Replies == [kind : {"none", "ok", "error", "conflict"}, gen : Nat,
            state : BridgeStates \ {"ending"}, rev : Nat, encoder : {"on", "off", "absent"}]
Events == [event : {"none"} \cup TerminalEvents \cup ProgressEvents, gen : Nat, rev : Nat]
Syncs == [phase : {"idle", "polling", "event"}, event : Events, marker : Nat \X Nat, row : Replies]

OwnerOK ==
  /\ generation \in Nat /\ state \in IdleStates \cup LiveStates /\ publisher \in BOOLEAN
  /\ recoverable \in Nat /\ revision \in Nat
LedgerOK ==
  /\ epoch \in Nat /\ unloaded \in BOOLEAN /\ leases \subseteq Leases /\ nextLease \in Nat
  /\ pendingOwned \in [epoch : Nat, gen : Nat]
LoopOK ==
  /\ stopTask \in Graces \cup {NoTask}
  /\ lifecycle \in Tasks \cup {NoTask} /\ ahead \in [Tasks -> SUBSET Tasks]
  /\ running \in Tasks \cup {NoTask, Sync}
  /\ woken \subseteq Clients
LocalsOK ==
  /\ pc \in [Tasks -> AllPcs] /\ mode \in [Clients -> AllModes]
  /\ req \in [Tasks -> Nat] /\ old \in [Clients -> Nat] /\ gen \in [Tasks -> Nat]
  /\ target \in [Tasks -> Nat] /\ lease \in [Clients -> Leases] /\ reply \in [Tasks -> Replies]
SyncOK ==
  /\ sync \in Syncs
  /\ fence \in Nat /\ mail \subseteq Events
BridgeOK == bGen \in Nat /\ bState \in BridgeStates /\ bViewer \in BOOLEAN /\ bRev \in Nat
BudgetOK ==
  limits \in Budgets /\ calls \in Nat /\ expiries \in Nat /\ cancels \in Nat /\ errors \in Nat

\* Types of all variables; the state is one that the coordinator keeps, never
\* one that ends a generation (monitor.py 57-85, 1125-1151).
TypeOK ==
  OwnerOK /\ LedgerOK /\ LoopOK /\ LocalsOK /\ SyncOK /\ BridgeOK /\ BudgetOK

\* The lifecycle calls of one station never overlap: two tasks never have a start,
\* stop or viewer request in flight together, through every await, failure and
\* cancellation (the sections under _lifecycle_lock).
HttpExclusive == \A t, u \in Tasks : pc[t] \in HttpPcs /\ pc[u] \in HttpPcs => t = u

\* No phantom viewer: a lease in the ledger is held by a caller that can still
\* release it, whatever failed or was cancelled on the way (_leases, which
\* viewer_count is counted from).
LeasesLive == \A l \in leases : \E t \in Clients : lease[t] = l /\ pc[t] = "leased"

\* The coordinator knows one generation at a time: a live state has one, an idle
\* state has none, and the recoverable marker never names another one.
GenerationBinding ==
  /\ generation = 0 <=> state \in IdleStates
  /\ recoverable # 0 => generation \in {0, recoverable}

\* While the coordinator stays on a generation its status never goes back to an
\* older revision, whichever of replies, polls and events comes late.
RevisionForward ==
  [][generation # 0 /\ generation' = generation => revision' >= revision]_vars

\* A preview whose stop the bridge acknowledged is not taken up again (client.py 434-438).
NoReadopt == [][generation' \notin {0, generation} => generation' # fence]_vars

\* A poll that still lists a preview whose stop the bridge acknowledged, a late reply and a
\* request never take it up again; a relay event that was under way may.
OnlyEventsReadopt ==
  [][generation' \notin {0, generation} /\ generation' = fence =>
       running = Sync /\ sync.event.event \in ProgressEvents]_vars

\* A terminated request sends no start and gets no lease, however long it waited
\* for a lock, a reply or a poll since it was last checked.
TerminalFence ==
  [][\A t \in Clients :
       (\/ pc[t] \notin StartPcs /\ pc'[t] \in StartPcs
        \/ pc[t] \in AcquirePcs /\ pc'[t] = "leased") => ~unloaded /\ req[t] = epoch]_vars

\* When nothing is under way, a live preview has a viewer or a stop scheduled.
NoOrphan ==
  Settled /\ state \in {"starting", "publishing"} =>
    HasViewers \/ \E s \in Graces : pc[s] = "sleep"

\* When nothing is under way after the unload, the bridge runs no preview, the
\* ones whose start was still in flight included.
UnloadStops == Settled /\ unloaded => bState \notin {"starting", "publishing"}

\* When nothing is under way and no viewer is left, the viewer flag is down.
EdgeLowered == Settled /\ bState = "publishing" /\ leases = {} => ~bViewer

\* Every acquire call ends, with a lease or with an exception.
AcquireReturns == \A t \in Clients : Pending(t) ~> ~Pending(t)

\* A preview that nobody uses any more, and whose grace period is not running, is stopped in
\* the end (_stop_after_grace, _cleanup_cancelled_acquire).
Unused ==
  /\ state \in {"starting", "publishing"} /\ \A t \in Clients : pc[t] = "idle"
  /\ \A s \in Graces : pc[s] # "sleep"
UnusedStops == Unused ~> ~Unused
=============================================================================
