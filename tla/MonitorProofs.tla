--------------------------- MODULE MonitorProofs ---------------------------
(***************************************************************************)
(* Theorems about Monitor for any number of callers, stop calls, grace     *)
(* tasks and generations.  First the lifecycle lock: a task has an HTTP    *)
(* request in flight exactly when it owns the lock.  Then the types and    *)
(* the binding of state to generation, which rest on what a reply in       *)
(* flight and a polled row can say.                                        *)
(***************************************************************************)
EXTENDS Monitor, TLAPS

USE DEF Goto, Continue, Suspend, Quiet
USE TasksAssumption DEF Tasks

(***************************************************************************)
(* The lifecycle lock.                                                     *)
(***************************************************************************)

\* A grace task sleeps, waits for the lock, or stops the preview.
GracePcs == {"idle", "sleep", "stop_lock", "stop_http"}
PcOK ==
  /\ pc \in [Tasks -> AllPcs]
  /\ stopTask \in Graces \cup {NoTask}
  /\ \A s \in Graces : pc[s] \in GracePcs
LockOK ==
  /\ lifecycle \in Tasks \cup {NoTask}
  /\ \A t \in Tasks : pc[t] \in HttpPcs <=> lifecycle = t
LockInv == PcOK /\ LockOK


LEMMA GraceCancel ==
  ASSUME PcOK, NEW t
  PROVE  /\ StopTaskAfterCancel(t) \in Graces \cup {NoTask}
         /\ PcWithoutGrace(t) \in [Tasks -> AllPcs]
         /\ \A u \in Tasks : \/ PcWithoutGrace(t)[u] = pc[u]
                             \/ /\ u \in Graces /\ pc[u] # "stop_http"
                                /\ PcWithoutGrace(t)[u] = "idle"
  BY DEF PcOK, GraceCancelled, PcWithoutGrace, StopTaskAfterCancel, AllPcs

LEMMA LockInit == Init => LockInv
  BY DEF Init, LockInv, PcOK, LockOK, AllPcs, HttpPcs, StartPcs, StopPcs, ViewerOnPcs,
     ViewerOffPcs, GracePcs

LEMMA LockStep == LockInv /\ [Next]_vars => LockInv'
<1> SUFFICES ASSUME LockInv, [Next]_vars PROVE LockInv'
  OBVIOUS
<1> USE DEF LockInv, PcOK, LockOK, AllPcs, HttpPcs, StartPcs, StopPcs, ViewerOnPcs,
   ViewerOffPcs, GracePcs, LockPcs, InnerPcs
<1>1. ASSUME NEW t \in Clients, CallAcquire(t) PROVE LockInv'
  BY <1>1 DEF CallAcquire
<1>2. ASSUME NEW t \in Clients, Admit(t) PROVE LockInv'
  BY <1>2 DEF Admit
<1>3. ASSUME NEW t \in Clients, CallStart(t) PROVE LockInv'
  BY <1>3 DEF CallStart
<1>4. ASSUME NEW t \in Clients, Top(t) PROVE LockInv'
  BY <1>4 DEF Top
<1>5. ASSUME NEW t \in Clients, Gen(t) PROVE LockInv'
  BY <1>5 DEF Gen, WaitReady
<1>6. ASSUME NEW t \in Clients, Wake(t) PROVE LockInv'
  BY <1>6 DEF Wake, WaitReady
<1>7. ASSUME NEW t \in Clients, WaitFail(t) PROVE LockInv'
  BY <1>7 DEF WaitFail
<1>8. ASSUME NEW t \in Clients, Fail(t) PROVE LockInv'
  BY <1>8 DEF Fail
<1>9. ASSUME NEW t \in Clients, StartReply(t) PROVE LockInv'
  BY <1>9 DEF StartReply, Adopt, StopStarted
<1>10. ASSUME NEW t \in Clients, UndoReply(t) PROVE LockInv'
  BY <1>10 DEF UndoReply, FailFrom
<1>11. ASSUME NEW t \in Clients, CancelledStartReply(t) PROVE LockInv'
  BY <1>11 DEF CancelledStartReply, FailFrom
<1>12. ASSUME NEW t \in Clients, RecoverGrant(t) PROVE LockInv'
  BY <1>12 DEF RecoverGrant, Takes
<1>13. ASSUME NEW t \in Clients, RecoverStopped(t) PROVE LockInv'
  BY <1>13 DEF RecoverStopped, FailFrom
<1>14. ASSUME NEW t \in Clients, RestartReply(t) PROVE LockInv'
  BY <1>14 DEF RestartReply, Adopt, StopStarted
<1>15. ASSUME NEW t \in Clients, ProvisionalGrant(t) PROVE LockInv'
  BY <1>15 DEF ProvisionalGrant, Grant, Retry
<1>16. ASSUME NEW t \in Clients, RegisterGrant(t) PROVE LockInv'
  BY <1>16 DEF RegisterGrant, Grant, Retry, Takes
<1>17. ASSUME NEW t \in Clients, ViewerOnReply(t) PROVE LockInv'
  BY <1>17 DEF ViewerOnReply, Grant
<1>18. ASSUME NEW t \in Clients, RollOffReply(t) PROVE LockInv'
  BY <1>18 DEF RollOffReply
<1>19. ASSUME NEW t \in Clients, RegisterUndone(t) PROVE LockInv'
  BY <1>19 DEF RegisterUndone, Retry
<1>20. ASSUME NEW t \in Clients, CleanStart(t) PROVE LockInv'
  BY <1>20 DEF CleanStart
<1>21. ASSUME NEW t \in Clients, CleanGrant(t) PROVE LockInv'
  BY <1>21 DEF CleanGrant, Takes
<1>22. ASSUME NEW t \in Clients, CleanReply(t) PROVE LockInv'
  BY <1>22 DEF CleanReply
<1>23. ASSUME NEW t \in Clients, ReleaseGrant(t) PROVE LockInv'
  BY <1>23 DEF ReleaseGrant, Takes
<1>24. ASSUME NEW t \in Clients, ViewerOffReply(t) PROVE LockInv'
  BY <1>24 DEF ViewerOffReply, Schedule
<1>25. ASSUME NEW t \in Clients, Cancel(t) PROVE LockInv'
  BY <1>25 DEF Cancel, FailFrom
<1>26. ASSUME NEW t \in Clients, StartGrant(t) PROVE LockInv'
  <2>1. CASE UNCHANGED <<stopTask, lifecycle>>
    BY <1>26, <2>1 DEF StartGrant
  <2>2. CASE lifecycle' = t
    BY <1>26, <2>2, GraceCancel DEF StartGrant, Takes
  <2> QED
    BY <1>26, <2>1, <2>2 DEF StartGrant
<1>27. ASSUME NEW t \in Clients, CallRelease(t) PROVE LockInv'
  BY <1>27, GraceCancel DEF CallRelease, Schedule
<1>28. ASSUME NEW s \in Stoppers, CallStop(s) PROVE LockInv'
  BY <1>28 DEF CallStop
<1>29. ASSUME NEW s \in Graces, GraceExpires(s) PROVE LockInv'
  BY <1>29 DEF GraceExpires
<1>30. ASSUME NEW s \in Stoppers \cup Graces, StopGrant(s) PROVE LockInv'
  <2>1. CASE UNCHANGED lifecycle
    BY <1>30, <2>1 DEF StopGrant, StopEnds
  <2>2. CASE lifecycle' = s
    BY <1>30, <2>2, GraceCancel DEF StopGrant, StopEnds, Takes
  <2> QED
    BY <1>30, <2>1, <2>2 DEF StopGrant
<1>31. ASSUME NEW s \in Stoppers \cup Graces, StopReply(s) PROVE LockInv'
  BY <1>31 DEF StopReply, StopEnds
<1>32. ASSUME NEW t \in Tasks, Block(t) PROVE LockInv'
  BY <1>32 DEF Block
<1>33. ASSUME NEW t \in Tasks, Serve(t) PROVE LockInv'
  BY <1>33 DEF Serve, loop
<1>34. ASSUME NEW t \in Tasks, Refuse(t) PROVE LockInv'
  BY <1>34 DEF Refuse, loop
<1>35. ASSUME SyncBegin \/ SyncFails \/ EventIgnored PROVE LockInv'
  BY <1>35 DEF SyncBegin, SyncFails, EventIgnored, loop
<1>36. ASSUME SyncStatus \/ SyncEvent PROVE LockInv'
  BY <1>36, GraceCancel DEF SyncStatus, SyncEvent, ApplyStatus
<1>37. ASSUME NEW move \in AllMoves, BridgeMove(move) PROVE LockInv'
  BY <1>37 DEF BridgeMove, loop
<1>38. CASE UNCHANGED vars
  BY <1>38 DEF vars, loop
<1> QED
  BY <1>1, <1>2, <1>3, <1>4, <1>5, <1>6, <1>7, <1>8, <1>9, <1>10, <1>11, <1>12, <1>13, <1>14,
     <1>15, <1>16, <1>17, <1>18, <1>19, <1>20, <1>21, <1>22, <1>23, <1>24, <1>25, <1>26, <1>27,
     <1>28, <1>29, <1>30, <1>31, <1>32, <1>33, <1>34, <1>35, <1>36, <1>37, <1>38
     DEF Next, ClientStep, StopStep, SyncStep

\* The lifecycle calls of one station never overlap (HttpExclusive): the sections under
\* _lifecycle_lock keep it through every await, failure and cancellation.
THEOREM Exclusion == Spec => []HttpExclusive
<1>1. LockInv => HttpExclusive
  BY DEF LockInv, LockOK, HttpExclusive
<1> QED
  BY <1>1, LockInit, LockStep, PTL DEF Spec

(***************************************************************************)
(* Types, and the binding of state to generation.                          *)
(***************************************************************************)

\* What a start reply in flight says, who has a reply at all, what a row says and whose an
\* event is.
StartOK(r) == r.state \in {"starting", "publishing"} /\ r.gen # 0
ReplyOK ==
  \A t \in Tasks : /\ pc[t] \notin HttpPcs => reply[t] = NoReply
                   /\ pc[t] \in StartPcs /\ reply[t].kind = "ok" => StartOK(reply[t])
RowOK ==
  /\ bState # "off" => bGen # 0
  /\ sync.phase = "polling" => (sync.row.state # "off" => sync.row.gen # 0)
  /\ \A e \in mail : e.gen # 0
  /\ sync.event # NoEvent => sync.event.gen # 0

\* The inductive invariant: the binding is kept because a reply that is adopted and a row
\* that is applied name a generation whenever they carry a live state.
BindingInv == TypeOK /\ LockInv /\ ReplyOK /\ RowOK /\ GenerationBinding

LEMMA ReplyTypes ==
  /\ NoReply \in Replies /\ Failure \in Replies /\ Conflict \in Replies
  /\ NoLease \in Leases /\ Nobody \in [epoch : Nat, gen : Nat]
  BY DEF NoReply, Failure, Conflict, Replies, BridgeStates, LiveStates, NoLease, Leases, Nobody

LEMMA SetResponseType ==
  ASSUME OwnerOK, NEW r, r.gen \in Nat, r.rev \in Nat, r.state \in LiveStates, SetResponse(r)
  PROVE  OwnerOK' /\ woken' \subseteq Clients
<1>1. publisher' \in BOOLEAN
  <2>1. CASE r.encoder = "absent"
    BY <2>1 DEF SetResponse, OwnerOK
  <2>2. CASE r.encoder # "absent"
    BY <2>2 DEF SetResponse
  <2> QED
    BY <2>1, <2>2
<1>2. generation' \in Nat /\ revision' \in Nat /\ recoverable' \in Nat
      /\ state' \in IdleStates \cup LiveStates
  BY DEF SetResponse, OwnerOK, RevisionOf, RecoverableOf
<1>3. woken' \subseteq Clients
  BY DEF SetResponse, SetEvent
<1> QED
  BY <1>1, <1>2, <1>3 DEF OwnerOK

LEMMA DropType ==
  ASSUME NEW final \in IdleStates, DropGeneration(final)
  PROVE  /\ generation' \in Nat /\ state' \in IdleStates \cup LiveStates /\ publisher' \in BOOLEAN
         /\ leases' \subseteq Leases /\ woken' \subseteq Clients
  BY DEF DropGeneration, SetEvent

LEMMA GraceTypes ==
  ASSUME TypeOK, NEW t
  PROVE  /\ ReplyWithoutGrace(t) \in [Tasks -> Replies]
         /\ AheadWithoutGrace(t) \in [Tasks -> SUBSET Tasks]
         /\ StopTaskAfterCancel(t) \in Graces \cup {NoTask}
  BY ReplyTypes DEF TypeOK, LocalsOK, LoopOK, ReplyWithoutGrace, AheadWithoutGrace, Without,
     StopTaskAfterCancel

LEMMA WithoutType ==
  ASSUME TypeOK, NEW S
  PROVE  Without(S) \in [Tasks -> SUBSET Tasks]
  BY DEF TypeOK, LoopOK, Without

LEMMA GrantType ==
  ASSUME LedgerOK, NEW t \in Clients, gen[t] \in Nat, req[t] \in Nat,
         Grant(t, TRUE) \/ Grant(t, FALSE), lease \in [Clients -> Leases]
  PROVE  /\ running' = NoTask /\ nextLease' \in Nat
         /\ leases' \subseteq Leases /\ lease' \in [Clients -> Leases]
         /\ pendingOwned' \in [epoch : Nat, gen : Nat]
<1> DEFINE granted(edge) == [id |-> nextLease + 1, gen |-> gen[t], epoch |-> epoch, edge |-> edge]
<1>1. PICK l \in {granted(TRUE), granted(FALSE)} :
         leases' = leases \cup {l} /\ lease' = [lease EXCEPT ![t] = l]
  BY DEF Grant
<1>2. granted(TRUE) \in Leases /\ granted(FALSE) \in Leases
  BY DEF LedgerOK, Leases
<1> HIDE DEF granted
<1>3. leases' \subseteq Leases /\ lease' \in [Clients -> Leases]
  BY <1>1, <1>2 DEF LedgerOK
<1>4. running' = NoTask /\ nextLease' \in Nat /\ pendingOwned' \in [epoch : Nat, gen : Nat]
  BY ReplyTypes DEF Grant, LedgerOK
<1> QED
  BY <1>3, <1>4


LEMMA ReplyFields ==
  ASSUME LocalsOK, NEW t \in Tasks
  PROVE  /\ reply[t].gen \in Nat /\ reply[t].rev \in Nat
         /\ reply[t].state \in BridgeStates \ {"ending"}
  BY DEF LocalsOK, Replies

LEMMA AdoptType ==
  ASSUME TypeOK, ReplyOK, NEW t \in Clients, pc[t] \in StartPcs, reply[t].kind = "ok",
         NEW adoptable, NEW keep, Adopt(t, reply[t], adoptable, keep)
  PROVE  /\ OwnerOK' /\ woken' \subseteq Clients
         /\ pendingOwned' \in [epoch : Nat, gen : Nat]
         /\ gen' \in [Tasks -> Nat] /\ target' \in [Tasks -> Nat]
         /\ running' = NoTask \/ running' = t
<1>1. reply[t].gen \in Nat /\ reply[t].rev \in Nat /\ reply[t].state \in LiveStates
  BY ReplyFields DEF TypeOK, ReplyOK, StartOK, LiveStates
<1>2. OwnerOK' /\ woken' \subseteq Clients
  BY <1>1, SetResponseType DEF Adopt, TypeOK, OwnerOK, LoopOK, owner
<1>3. pendingOwned' \in [epoch : Nat, gen : Nat] /\ gen' \in [Tasks -> Nat]
      /\ target' \in [Tasks -> Nat]
  BY <1>1 DEF Adopt, StopStarted, OwnPending, TypeOK, LocalsOK, LedgerOK, OwnerOK
<1>4. running' = NoTask \/ running' = t
  BY DEF Adopt, StopStarted
<1> QED
  BY <1>2, <1>3, <1>4

LEMMA RowType ==
  TypeOK => SyncRow \in [event : {"none"}, gen : Nat, state : BridgeStates \ {"ending"}, rev : Nat,
                         encoder : {"on", "off", "absent"}]
  BY DEF TypeOK, SyncOK, Syncs, SyncRow, Replies, BridgeStates

LEMMA ApplyType ==
  ASSUME TypeOK, NEW m, m.gen \in Nat, m.rev \in Nat, m.state \in BridgeStates \ {"ending"},
         ApplyStatus(m)
  PROVE  /\ OwnerOK' /\ epoch' \in Nat /\ leases' \subseteq Leases /\ woken' \subseteq Clients
         /\ reply' \in [Tasks -> Replies] /\ ahead' \in [Tasks -> SUBSET Tasks]
<1>1. CASE Ends(m)
  <2>1. generation' \in Nat /\ state' \in IdleStates \cup LiveStates /\ publisher' \in BOOLEAN
        /\ leases' \subseteq Leases /\ woken' \subseteq Clients
    BY <1>1, DropType DEF ApplyStatus, IdleStates
  <2>2. recoverable' \in Nat /\ revision' \in Nat /\ epoch' \in Nat
    BY <1>1 DEF ApplyStatus, TypeOK, OwnerOK, LedgerOK, Current
  <2>3. reply' \in [Tasks -> Replies] /\ ahead' \in [Tasks -> SUBSET Tasks]
    BY <1>1, GraceTypes DEF ApplyStatus
  <2> QED
    BY <2>1, <2>2, <2>3 DEF OwnerOK
<1>2. CASE ~Ends(m)
  <2>1. m.state \in LiveStates
    BY <1>2 DEF Ends, BridgeStates, LiveStates
  <2>2. OwnerOK' /\ woken' \subseteq Clients
    BY <1>2, <2>1, SetResponseType DEF ApplyStatus, TypeOK
  <2> QED
    BY <1>2, <2>2 DEF ApplyStatus, TypeOK, LedgerOK, LocalsOK, LoopOK
<1> QED
  BY <1>1, <1>2

LEMMA ServeType ==
  ASSUME TypeOK, NEW t \in Tasks, NEW answered,
         ServeStart(t, answered) \/ ServeStop(t, answered) \/ ServeViewer(t, answered)
  PROVE  BridgeOK' /\ reply' \in [Tasks -> Replies]
<1> USE ReplyTypes DEF TypeOK, BridgeOK, LocalsOK
<1>1. CASE ServeStart(t, answered)
  <2>1. BridgeOK'
    <3>1. CASE UNCHANGED bridge
      BY <3>1 DEF bridge
    <3>2. CASE bGen' = bGen + 1 /\ bRev' = bRev + 1 /\ bViewer' = FALSE
               /\ bState' \in {"starting", "publishing"}
      <4>1. bViewer' \in BOOLEAN
        BY <3>2
      <4>2. bGen' \in Nat /\ bState' \in BridgeStates /\ bRev' \in Nat
        BY <3>2 DEF BridgeStates, LiveStates
      <4> QED
        BY <4>1, <4>2
    <3> QED
      BY <1>1, <3>1, <3>2 DEF ServeStart
  <2>2. bState' \in {"starting", "publishing"}
    BY <1>1 DEF ServeStart, bridge
  <2> QED
    BY <1>1, <2>1, <2>2 DEF ServeStart, Replies, BridgeStates, LiveStates
<1>2. CASE ServeStop(t, answered)
  <2>1. BridgeOK'
    BY <1>2 DEF ServeStop, BridgeStates, LiveStates
  <2>2. \A rev \in Nat : [kind |-> "ok", gen |-> bGen, state |-> "stopping", rev |-> rev,
                          encoder |-> "absent"] \in Replies
    BY DEF Replies, BridgeStates, LiveStates
  <2>3. (IF limits.full THEN bRev' ELSE 0) \in Nat
    BY <2>1
  <2> QED
    BY <1>2, <2>1, <2>2, <2>3 DEF ServeStop
<1>3. CASE ServeViewer(t, answered)
  <2>1. bViewer' \in BOOLEAN
    <3>1. CASE bState = "publishing" /\ bGen = target[t]
      BY <1>3, <3>1 DEF ServeViewer
    <3>2. CASE ~(bState = "publishing" /\ bGen = target[t])
      BY <1>3, <3>2 DEF ServeViewer
    <3> QED
      BY <3>1, <3>2
  <2>2. [NoReply EXCEPT !.kind = "ok"] \in Replies
    BY DEF NoReply, Replies, BridgeStates, LiveStates
  <2> QED
    BY <1>3, <2>1, <2>2 DEF ServeViewer
<1> QED
  BY <1>1, <1>2, <1>3

LEMMA BridgeMoveType ==
  ASSUME TypeOK, NEW move \in AllMoves, BridgeMove(move)
  PROVE  BridgeOK' /\ mail' \subseteq Events
<1> USE DEF TypeOK, BridgeOK, SyncOK, Syncs, BridgeMove
<1>1. bState' \in BridgeStates /\ bRev' \in Nat /\ bGen' \in Nat
  BY DEF BridgeStates, LiveStates
<1>2. mail' \subseteq Events
  <2>1. ASSUME NEW name \in TerminalEvents \cup ProgressEvents, Relay(name)
        PROVE  mail' \subseteq Events
    BY <1>1, <2>1 DEF Relay, Events
  <2> QED
    BY <2>1 DEF TerminalEvents, ProgressEvents
<1>3. bViewer' \in BOOLEAN
  BY DEF BridgeMove
<1> QED
  BY <1>1, <1>2, <1>3

LEMMA CallStopType ==
  ASSUME TypeOK, NEW s \in Stoppers, CallStop(s)
  PROVE  /\ unloaded' \in BOOLEAN /\ epoch' \in Nat /\ recoverable' \in Nat
         /\ publisher' \in BOOLEAN /\ gen' \in [Tasks -> Nat]
         /\ running' = NoTask \/ running' = s
<1> USE DEF CallStop, TypeOK, OwnerOK, LedgerOK, LocalsOK
<1>1. unloaded' \in BOOLEAN
  OBVIOUS
<1>2. epoch' \in Nat /\ recoverable' \in Nat
  OBVIOUS
<1>3. publisher' \in BOOLEAN
  OBVIOUS
<1>4. gen' \in [Tasks -> Nat]
  BY DEF Current
<1>5. running' = NoTask \/ running' = s
  OBVIOUS
<1> QED
  BY <1>1, <1>2, <1>3, <1>4, <1>5

LEMMA BeginType ==
  ASSUME TypeOK, SyncBegin
  PROVE  SyncOK'
<1> USE DEF TypeOK, SyncOK, Syncs, BridgeOK, OwnerOK
<1>1. \A encoder \in Encoders : Row(encoder) \in Replies
  BY DEF Row, Encoders, Reported, Replies, BridgeStates, LiveStates
<1>2. NoEvent \in Events
  BY DEF NoEvent, Events
<1> QED
  BY <1>1, <1>2 DEF SyncBegin

LEMMA SyncType ==
  ASSUME TypeOK
  PROVE  /\ NoSync \in Syncs
         /\ [sync EXCEPT !.phase = "event"] \in Syncs
  BY ReplyTypes DEF TypeOK, SyncOK, Syncs, NoSync, NoEvent, Events

LEMMA BudgetTypes ==
  ASSUME TypeOK
  PROVE  limits.modes \subseteq AllModes /\ limits.full \in BOOLEAN
  BY BudgetsAssumption DEF TypeOK, BudgetOK

LEMMA MessageType ==
  ASSUME NEW e \in Events
  PROVE  Message(e).gen \in Nat /\ Message(e).rev \in Nat /\ Message(e).state \in BridgeStates \ {"ending"}
  BY DEF Message, Events, BridgeStates, LiveStates

LEMMA TypeStep == BindingInv /\ [Next]_vars => TypeOK'
<1> SUFFICES ASSUME BindingInv, [Next]_vars PROVE TypeOK'
  OBVIOUS
<1> USE ReplyTypes DEF BindingInv, TypeOK, OwnerOK, LedgerOK, LoopOK, LocalsOK, SyncOK, Syncs,
   BridgeOK, BudgetOK, owner, ledger, loop, locals, bridge, budget
<1>0. pc' \in [Tasks -> AllPcs] /\ lifecycle' \in Tasks \cup {NoTask}
      /\ stopTask' \in Graces \cup {NoTask}
  BY LockStep DEF LockInv, PcOK, LockOK
<1>1. ASSUME NEW t \in Clients, CallAcquire(t) PROVE TypeOK'
  BY <1>0, <1>1, BudgetTypes DEF CallAcquire
<1>2. ASSUME NEW t \in Clients, Admit(t) PROVE TypeOK'
  BY <1>0, <1>2 DEF Admit, Current
<1>3. ASSUME NEW t \in Clients, CallStart(t) PROVE TypeOK'
  BY <1>0, <1>3 DEF CallStart, AllModes
<1>4. ASSUME NEW t \in Clients, Top(t) PROVE TypeOK'
  BY <1>0, <1>4 DEF Top
<1>5. ASSUME NEW t \in Clients, Gen(t) PROVE TypeOK'
  BY <1>0, <1>5 DEF Gen, WaitReady
<1>6. ASSUME NEW t \in Clients, Wake(t) PROVE TypeOK'
  BY <1>0, <1>6 DEF Wake, WaitReady
<1>7. ASSUME NEW t \in Clients, WaitFail(t) PROVE TypeOK'
  BY <1>0, <1>7 DEF WaitFail, Larger
<1>8. ASSUME NEW t \in Clients, Fail(t) PROVE TypeOK'
  BY <1>0, <1>8 DEF Fail
<1>9. ASSUME NEW t \in Clients, StartGrant(t) PROVE TypeOK'
  BY <1>0, <1>9, GraceTypes, WithoutType DEF StartGrant
<1>10. ASSUME NEW t \in Clients, StartReply(t) PROVE TypeOK'
  <2>1. reply' \in [Tasks -> Replies]
    BY <1>10 DEF StartReply
  <2>2. OwnerOK' /\ woken' \subseteq Clients /\ pendingOwned' \in [epoch : Nat, gen : Nat]
        /\ gen' \in [Tasks -> Nat] /\ target' \in [Tasks -> Nat] /\ running' \in {NoTask, t}
    BY <1>10, AdoptType DEF StartReply, StartPcs
  <2> QED
    BY <1>0, <1>10, <2>1, <2>2 DEF StartReply
<1>11. ASSUME NEW t \in Clients, UndoReply(t) PROVE TypeOK'
  BY <1>0, <1>11 DEF UndoReply, FailFrom, Acknowledged
<1>12. ASSUME NEW t \in Clients, CancelledStartReply(t) PROVE TypeOK'
  BY <1>0, <1>12, ReplyFields, SMTT(30) DEF CancelledStartReply, FailFrom
<1>13. ASSUME NEW t \in Clients, RecoverGrant(t) PROVE TypeOK'
  BY <1>0, <1>13, WithoutType DEF RecoverGrant, Takes
<1>14. ASSUME NEW t \in Clients, RecoverStopped(t) PROVE TypeOK'
  BY <1>0, <1>14, DropType DEF RecoverStopped, FailFrom, Acknowledged, IdleStates
<1>15. ASSUME NEW t \in Clients, RestartReply(t) PROVE TypeOK'
  <2>1. reply' \in [Tasks -> Replies]
    BY <1>15 DEF RestartReply
  <2>2. OwnerOK' /\ woken' \subseteq Clients /\ pendingOwned' \in [epoch : Nat, gen : Nat]
        /\ gen' \in [Tasks -> Nat] /\ target' \in [Tasks -> Nat] /\ running' \in {NoTask, t}
    BY <1>15, AdoptType DEF RestartReply, StartPcs
  <2> QED
    BY <1>0, <1>15, <2>1, <2>2 DEF RestartReply
<1>16. ASSUME NEW t \in Clients, ProvisionalGrant(t) PROVE TypeOK'
  <2>1. running' \in {NoTask, t}
    BY <1>16 DEF ProvisionalGrant, Retry, Grant
  <2>2. old' \in [Clients -> Nat]
    BY <1>16, ZenonT(60) DEF ProvisionalGrant, Retry, Larger
  <2>3. target' \in [Tasks -> Nat]
    BY <1>16 DEF ProvisionalGrant
  <2>4. nextLease' \in Nat /\ leases' \subseteq Leases /\ lease' \in [Clients -> Leases]
        /\ pendingOwned' \in [epoch : Nat, gen : Nat]
    BY <1>16, GrantType DEF ProvisionalGrant
  <2> QED
    BY <1>0, <1>16, <2>1, <2>2, <2>3, <2>4, WithoutType DEF ProvisionalGrant
<1>17. ASSUME NEW t \in Clients, RegisterGrant(t) PROVE TypeOK'
  <2>1. running' \in {NoTask, t}
    BY <1>17 DEF RegisterGrant, Retry, Grant
  <2>2. old' \in [Clients -> Nat]
    BY <1>17, ZenonT(60) DEF RegisterGrant, Retry, Larger
  <2>3. target' \in [Tasks -> Nat]
    BY <1>17 DEF RegisterGrant
  <2>4. nextLease' \in Nat /\ leases' \subseteq Leases /\ lease' \in [Clients -> Leases]
        /\ pendingOwned' \in [epoch : Nat, gen : Nat]
    BY <1>17, GrantType, ZenonT(60) DEF RegisterGrant
  <2> QED
    BY <1>0, <1>17, <2>1, <2>2, <2>3, <2>4, WithoutType DEF RegisterGrant
<1>18. ASSUME NEW t \in Clients, ViewerOnReply(t) PROVE TypeOK'
  BY <1>0, <1>18, GrantType, ZenonT(60) DEF ViewerOnReply
<1>19. ASSUME NEW t \in Clients, RollOffReply(t) PROVE TypeOK'
  BY <1>0, <1>19 DEF RollOffReply
<1>20. ASSUME NEW t \in Clients, RegisterUndone(t) PROVE TypeOK'
  BY <1>0, <1>20, DropType DEF RegisterUndone, Retry, Larger, Acknowledged, IdleStates
<1>21. ASSUME NEW t \in Clients, CleanStart(t) PROVE TypeOK'
  BY <1>0, <1>21 DEF CleanStart
<1>22. ASSUME NEW t \in Clients, CleanGrant(t) PROVE TypeOK'
  BY <1>0, <1>22, WithoutType DEF CleanGrant, Takes
<1>23. ASSUME NEW t \in Clients, CleanReply(t) PROVE TypeOK'
  BY <1>0, <1>23, ZenonT(60) DEF CleanReply, Acknowledged, SetEvent, IdleStates, Nobody
<1>24. ASSUME NEW t \in Clients, ReleaseGrant(t) PROVE TypeOK'
  BY <1>0, <1>24, WithoutType DEF ReleaseGrant, Takes
<1>25. ASSUME NEW t \in Clients, ViewerOffReply(t) PROVE TypeOK'
  <2>1. /\ leases' \subseteq Leases /\ lease' \in [Clients -> Leases]
        /\ reply' \in [Tasks -> Replies]
    BY <1>25 DEF ViewerOffReply
  <2>2. gen' \in [Tasks -> Nat]
    BY <1>25, SMTT(30) DEF ViewerOffReply, Schedule
  <2>3. /\ running' = NoTask
        /\ UNCHANGED <<owner, epoch, unloaded, nextLease, pendingOwned, woken, ahead, mode, req,
                       old, target, sync, fence, bridge, mail, budget>>
    BY <1>25 DEF ViewerOffReply
  <2> QED
    BY <1>0, <2>1, <2>2, <2>3
<1>26. ASSUME NEW t \in Clients, Cancel(t) PROVE TypeOK'
  BY <1>0, <1>26, WithoutType DEF Cancel, FailFrom
<1>27. ASSUME NEW t \in Clients, CallRelease(t) PROVE TypeOK'
  BY <1>0, <1>27, GraceTypes DEF CallRelease, Schedule, Left
<1>28. ASSUME NEW s \in Stoppers, CallStop(s) PROVE TypeOK'
  BY <1>0, <1>28, CallStopType DEF CallStop
<1>29. ASSUME NEW s \in Graces, GraceExpires(s) PROVE TypeOK'
  BY <1>0, <1>29 DEF GraceExpires
<1>30. ASSUME NEW s \in Stoppers \cup Graces, StopGrant(s) PROVE TypeOK'
  BY <1>0, <1>30, DropType, GraceTypes, WithoutType, SMTT(30) DEF StopGrant, StopEnds, IdleStates
<1>31. ASSUME NEW s \in Stoppers \cup Graces, StopReply(s) PROVE TypeOK'
  BY <1>0, <1>31, DropType DEF StopReply, StopEnds, Acknowledged, IdleStates, RecoverableOf,
     RevisionOf, Replies
<1>32. ASSUME NEW t \in Tasks, Block(t) PROVE TypeOK'
  BY <1>0, <1>32 DEF Block, Waiting
<1>33. ASSUME NEW t \in Tasks, Serve(t) PROVE TypeOK'
  BY <1>0, <1>33, ServeType DEF Serve
<1>34. ASSUME NEW t \in Tasks, Refuse(t) PROVE TypeOK'
  BY <1>0, <1>34 DEF Refuse
<1>35. ASSUME SyncBegin \/ SyncFails PROVE TypeOK'
  <2>1. CASE SyncBegin
    BY <1>0, <2>1, BeginType DEF SyncBegin
  <2>2. CASE SyncFails
    <3>1. NoSync \in Syncs
      BY DEF NoSync, NoEvent, Events
    <3> QED
      BY <1>0, <2>2, <3>1 DEF SyncFails
  <2> QED
    BY <1>35, <2>1, <2>2
<1>36. ASSUME SyncStatus PROVE TypeOK'
  <2>1. sync' \in Syncs
        /\ running' \in {NoTask, Sync}
    BY <1>36, SyncType DEF SyncStatus, ToEvent
  <2>2. OwnerOK' /\ epoch' \in Nat /\ leases' \subseteq Leases /\ woken' \subseteq Clients
        /\ reply' \in [Tasks -> Replies] /\ ahead' \in [Tasks -> SUBSET Tasks]
    BY <1>36, ApplyType, RowType DEF SyncStatus
  <2> QED
    BY <1>0, <1>36, <2>1, <2>2 DEF SyncStatus
<1>37. ASSUME SyncEvent PROVE TypeOK'
  <2> DEFINE m == Message(sync.event)
  <2>1. m.gen \in Nat /\ m.rev \in Nat /\ m.state \in BridgeStates \ {"ending"}
    BY MessageType
  <2>2. ApplyStatus(m) \/ UNCHANGED <<owner, epoch, leases, woken, pc, reply, stopTask, ahead>>
    BY <1>37 DEF SyncEvent
  <2> HIDE DEF m
  <2>3. OwnerOK' /\ epoch' \in Nat /\ leases' \subseteq Leases /\ woken' \subseteq Clients
        /\ reply' \in [Tasks -> Replies] /\ ahead' \in [Tasks -> SUBSET Tasks]
    BY <2>1, <2>2, ApplyType
  <2> QED
    BY <1>0, <1>37, <2>3, SyncType DEF SyncEvent
<1>38. ASSUME NEW move \in AllMoves, BridgeMove(move) PROVE TypeOK'
  BY <1>0, <1>38, BridgeMoveType DEF BridgeMove
<1>39. ASSUME EventIgnored PROVE TypeOK'
  BY <1>0, <1>39 DEF EventIgnored
<1>40. CASE UNCHANGED vars
  BY <1>40 DEF vars
<1> QED
  BY <1>1, <1>2, <1>3, <1>4, <1>5, <1>6, <1>7, <1>8, <1>9, <1>10, <1>11, <1>12, <1>13, <1>14,
     <1>15, <1>16, <1>17, <1>18, <1>19, <1>20, <1>21, <1>22, <1>23, <1>24, <1>25, <1>26, <1>27,
     <1>28, <1>29, <1>30, <1>31, <1>32, <1>33, <1>34, <1>35, <1>36, <1>37, <1>38, <1>39, <1>40
     DEF Next, ClientStep, StopStep, SyncStep

LEMMA GraceReplies ==
  ASSUME TypeOK, LockInv, ReplyOK, NEW t
  PROVE  \A u \in Tasks :
           /\ PcWithoutGrace(t)[u] \notin HttpPcs => ReplyWithoutGrace(t)[u] = NoReply
           /\ PcWithoutGrace(t)[u] \in StartPcs =>
                pc[u] \in StartPcs /\ ReplyWithoutGrace(t)[u] = reply[u]
           /\ u = t => PcWithoutGrace(t)[u] = pc[u]
           /\ PcWithoutGrace(t) \in [Tasks -> AllPcs]
           /\ ReplyWithoutGrace(t) \in [Tasks -> Replies]
<1>1. PcWithoutGrace(t) \in [Tasks -> AllPcs] /\ ReplyWithoutGrace(t) \in [Tasks -> Replies]
  BY GraceCancel, GraceTypes DEF LockInv
<1>2. ASSUME NEW u \in Tasks PROVE u = t => PcWithoutGrace(t)[u] = pc[u]
  BY <1>2 DEF PcWithoutGrace, GraceCancelled
<1>3. ASSUME NEW u \in Tasks, u \notin GraceCancelled(t)
      PROVE  PcWithoutGrace(t)[u] = pc[u] /\ ReplyWithoutGrace(t)[u] = reply[u]
  BY <1>3 DEF PcWithoutGrace, ReplyWithoutGrace
<1>4. ASSUME NEW u \in Tasks, u \in GraceCancelled(t)
      PROVE  \/ /\ PcWithoutGrace(t)[u] = "idle" /\ pc[u] \notin HttpPcs
                /\ ReplyWithoutGrace(t)[u] = reply[u]
             \/ PcWithoutGrace(t)[u] = "stop_http"
  <2>1. u \in Graces
    BY <1>4 DEF GraceCancelled, LockInv, PcOK
  <2>2. pc[u] \in GracePcs
    BY <2>1 DEF LockInv, PcOK
  <2> QED
    BY <1>4, <2>2 DEF PcWithoutGrace, ReplyWithoutGrace, GracePcs, HttpPcs, StartPcs, StopPcs,
       ViewerOnPcs, ViewerOffPcs
<1>5. ASSUME NEW u \in Tasks
      PROVE  /\ PcWithoutGrace(t)[u] \notin HttpPcs => ReplyWithoutGrace(t)[u] = NoReply
             /\ PcWithoutGrace(t)[u] \in StartPcs =>
                  pc[u] \in StartPcs /\ ReplyWithoutGrace(t)[u] = reply[u]
  <2>1. CASE u \notin GraceCancelled(t)
    BY <1>3, <2>1 DEF ReplyOK
  <2>2. CASE u \in GraceCancelled(t)
    BY <1>4, <2>2 DEF ReplyOK, HttpPcs, StartPcs, StopPcs
  <2> QED
    BY <2>1, <2>2
<1> QED
  BY <1>1, <1>2, <1>5

LEMMA ServeReply ==
  ASSUME TypeOK, ReplyOK, RowOK, NEW t \in Tasks, NEW answered,
         ServeStart(t, answered) \/ ServeStop(t, answered) \/ ServeViewer(t, answered)
  PROVE  /\ bState' # "off" => bGen' # 0
         /\ \A u \in Tasks \ {t} : reply'[u] = reply[u]
         /\ pc[t] \in StartPcs /\ reply'[t].kind = "ok" => StartOK(reply'[t])
<1> USE DEF TypeOK, BridgeOK, LocalsOK, RowOK
<1>1. CASE ServeStart(t, answered)
  <2>1. bState' \in {"starting", "publishing"} /\ bGen' # 0
    BY <1>1 DEF ServeStart, bridge, LiveStates
  <2> QED
    BY <1>1, <2>1 DEF ServeStart, StartOK, Failure
<1>2. CASE ServeStop(t, answered)
  BY <1>2 DEF ServeStop, StopPcs, StartPcs, LiveStates
<1>3. CASE ServeViewer(t, answered)
  BY <1>3 DEF ServeViewer, ViewerOnPcs, ViewerOffPcs, StartPcs
<1> QED
  BY <1>1, <1>2, <1>3

LEMMA RowStep == BindingInv /\ [Next]_vars => RowOK'
<1> SUFFICES ASSUME BindingInv, [Next]_vars PROVE RowOK'
  OBVIOUS
<1> USE DEF BindingInv, RowOK
<1>1. CASE UNCHANGED <<bGen, bState, sync, mail>>
  BY <1>1
<1>2. ASSUME NEW t \in Tasks, Serve(t) PROVE RowOK'
  BY <1>2, ServeReply DEF Serve
<1>3. ASSUME NEW move \in AllMoves, BridgeMove(move) PROVE RowOK'
  <2>1. bGen # 0 /\ bGen' = bGen /\ sync' = sync
    BY <1>3 DEF BridgeMove, LiveStates
  <2>2. ASSUME NEW e \in mail' PROVE e.gen # 0
    BY <1>3, <2>1, <2>2 DEF BridgeMove, Relay
  <2> QED
    BY <2>1, <2>2
<1>4. ASSUME SyncBegin PROVE RowOK'
  BY <1>4 DEF SyncBegin, Row, Reported, bridge
<1>12. ASSUME EventIgnored PROVE RowOK'
  BY <1>12 DEF EventIgnored, bridge
<1>5. ASSUME SyncStatus \/ SyncEvent \/ SyncFails PROVE RowOK'
  BY <1>5, SyncType DEF SyncStatus, SyncEvent, SyncFails, ToEvent, NoSync, bridge, TypeOK, SyncOK, Syncs
<1>6. ASSUME NEW t \in Tasks, Block(t) \/ Refuse(t) PROVE UNCHANGED <<bGen, bState, sync, mail>>
  BY <1>6 DEF Block, Refuse, bridge
<1>7. ASSUME NEW s \in Stoppers \cup Graces, StopStep(s) PROVE UNCHANGED <<bGen, bState, sync, mail>>
  BY <1>7 DEF StopStep, StopGrant, StopReply, bridge
<1>8. ASSUME NEW s \in Tasks, CallStop(s) \/ GraceExpires(s) PROVE UNCHANGED <<bGen, bState, sync, mail>>
  BY <1>8 DEF CallStop, GraceExpires, bridge
<1>9. ASSUME NEW t \in Clients, ClientStep(t) PROVE UNCHANGED <<bGen, bState, sync, mail>>
  BY <1>9 DEF ClientStep, Admit, Top, Gen, Wake, WaitFail, Fail, StartGrant, StartReply,
     UndoReply, CancelledStartReply, RecoverGrant, RecoverStopped, RestartReply,
     ProvisionalGrant, RegisterGrant, ViewerOnReply, RollOffReply, RegisterUndone, CleanStart,
     CleanGrant, CleanReply, ReleaseGrant, ViewerOffReply, bridge
<1>10. ASSUME NEW t \in Clients, CallAcquire(t) \/ CallStart(t) \/ CallRelease(t) \/ Cancel(t)
       PROVE  UNCHANGED <<bGen, bState, sync, mail>>
  BY <1>10 DEF CallAcquire, CallStart, CallRelease, Cancel, bridge
<1>11. CASE UNCHANGED vars
  BY <1>1, <1>11 DEF vars, bridge
<1> QED
  BY <1>1, <1>2, <1>3, <1>4, <1>5, <1>6, <1>7, <1>8, <1>9, <1>10, <1>11, <1>12 DEF Next, SyncStep


LEMMA SetBinds ==
  ASSUME NEW r, r.gen # 0, r.state \in LiveStates, SetResponse(r)
  PROVE  GenerationBinding'
  BY DEF SetResponse, RecoverableOf, GenerationBinding, IdleStates, LiveStates

LEMMA DropBinds ==
  ASSUME NEW final \in IdleStates, DropGeneration(final)
  PROVE  GenerationBinding'
  BY DEF DropGeneration, GenerationBinding

LEMMA AdoptBinds ==
  ASSUME TypeOK, ReplyOK, GenerationBinding, NEW t \in Clients, pc[t] \in StartPcs,
         reply[t].kind = "ok", NEW adoptable, NEW keep, Adopt(t, reply[t], adoptable, keep)
  PROVE  GenerationBinding'
<1>1. reply[t].gen # 0 /\ reply[t].state \in LiveStates
  BY DEF ReplyOK, StartOK, LiveStates
<1>2. SetResponse(reply[t]) \/ UNCHANGED owner
  BY DEF Adopt
<1> QED
  BY <1>1, <1>2, SetBinds DEF GenerationBinding, owner

LEMMA ApplyBinds ==
  ASSUME TypeOK, NEW m, m.state \in BridgeStates \ {"ending"}, Ends(m) \/ m.gen # 0, ApplyStatus(m)
  PROVE  GenerationBinding'
<1>1. CASE Ends(m)
  BY <1>1, DropBinds DEF ApplyStatus, IdleStates
<1>2. CASE ~Ends(m)
  BY <1>2, SetBinds DEF ApplyStatus, Ends, BridgeStates, LiveStates
<1> QED
  BY <1>1, <1>2

LEMMA BindStep == BindingInv /\ [Next]_vars => GenerationBinding'
<1> SUFFICES ASSUME BindingInv, [Next]_vars PROVE GenerationBinding'
  OBVIOUS
<1> USE DEF BindingInv
<1>1. CASE UNCHANGED owner
  BY <1>1 DEF owner, GenerationBinding
<1>2. ASSUME NEW t \in Clients, StartReply(t) \/ RestartReply(t) PROVE GenerationBinding'
  BY <1>1, <1>2, AdoptBinds DEF StartReply, RestartReply, StartPcs, owner
<1>3. ASSUME NEW t \in Clients, RecoverStopped(t) PROVE GenerationBinding'
  BY <1>1, <1>3, DropBinds DEF RecoverStopped, IdleStates
<1>4. ASSUME NEW t \in Clients, RegisterUndone(t) PROVE GenerationBinding'
  BY <1>1, <1>4, DropBinds DEF RegisterUndone, IdleStates, owner
<1>5. ASSUME NEW t \in Clients, CleanReply(t) PROVE GenerationBinding'
  BY <1>1, <1>5 DEF CleanReply, GenerationBinding, IdleStates, owner
<1>6. ASSUME NEW s \in Stoppers, CallStop(s) PROVE GenerationBinding'
  BY <1>6 DEF CallStop, GenerationBinding
<1>7. ASSUME NEW s \in Stoppers \cup Graces, StopStep(s) PROVE GenerationBinding'
  BY <1>1, <1>7, DropBinds DEF StopStep, StopGrant, StopReply, IdleStates
<1>8. ASSUME SyncStatus PROVE GenerationBinding'
  <2>1. Ends(SyncRow) \/ SyncRow.gen # 0
    BY <1>8 DEF SyncStatus, SyncRow, Ends, RowOK
  <2> QED
    BY <1>1, <1>8, <2>1, ApplyBinds, RowType DEF SyncStatus
<1>9. ASSUME SyncEvent PROVE GenerationBinding'
  <2> DEFINE m == Message(sync.event)
  <2>1. Ends(m) \/ m.gen # 0
    BY DEF RowOK, Message, NoEvent, Ends
  <2>2. m.state \in BridgeStates \ {"ending"}
    BY MessageType DEF TypeOK, SyncOK, Syncs
  <2>3. ApplyStatus(m) \/ UNCHANGED owner
    BY <1>9 DEF SyncEvent
  <2> HIDE DEF m
  <2> QED
    BY <1>1, <2>1, <2>2, <2>3, ApplyBinds
<1>10. ASSUME SyncBegin \/ SyncFails \/ EventIgnored PROVE UNCHANGED owner
  BY <1>10 DEF SyncBegin, SyncFails, EventIgnored
<1>11. ASSUME NEW t \in Clients,
              \/ Admit(t) \/ Top(t) \/ Gen(t) \/ Wake(t) \/ WaitFail(t) \/ Fail(t)
              \/ StartGrant(t) \/ UndoReply(t) \/ CancelledStartReply(t) \/ RecoverGrant(t)
              \/ ProvisionalGrant(t) \/ RegisterGrant(t) \/ ViewerOnReply(t) \/ RollOffReply(t)
              \/ CleanStart(t) \/ CleanGrant(t) \/ ReleaseGrant(t) \/ ViewerOffReply(t)
       PROVE  UNCHANGED owner
  BY <1>11 DEF Admit, Top, Gen, Wake, WaitFail, Fail, StartGrant, UndoReply,
     CancelledStartReply, RecoverGrant, ProvisionalGrant, RegisterGrant, ViewerOnReply,
     RollOffReply, CleanStart, CleanGrant, ReleaseGrant, ViewerOffReply
<1>12. ASSUME NEW t \in Clients, CallAcquire(t) \/ CallStart(t) \/ CallRelease(t) \/ Cancel(t)
       PROVE  UNCHANGED owner
  BY <1>12 DEF CallAcquire, CallStart, CallRelease, Cancel
<1>13. ASSUME NEW t \in Tasks, GraceExpires(t) \/ Block(t) \/ Serve(t) \/ Refuse(t)
       PROVE  UNCHANGED owner
  BY <1>13 DEF GraceExpires, Block, Serve, Refuse
<1>14. ASSUME NEW move \in AllMoves, BridgeMove(move) PROVE UNCHANGED owner
  BY <1>14 DEF BridgeMove
<1>15. CASE UNCHANGED vars
  BY <1>1, <1>15 DEF vars
<1> QED
  BY <1>1, <1>2, <1>3, <1>4, <1>5, <1>6, <1>7, <1>8, <1>9, <1>10, <1>11, <1>12, <1>13, <1>14,
     <1>15
     DEF Next, ClientStep, SyncStep

LEMMA ReplyStep == BindingInv /\ [Next]_vars => ReplyOK'
<1> SUFFICES ASSUME BindingInv, [Next]_vars PROVE ReplyOK'
  OBVIOUS
<1> USE DEF BindingInv, TypeOK, LocalsOK, LockInv, PcOK, ReplyOK, HttpPcs, StartPcs, StopPcs,
   ViewerOnPcs, ViewerOffPcs, GracePcs, LockPcs, InnerPcs
<1>1. ASSUME NEW t \in Clients, CallAcquire(t) PROVE ReplyOK'
  BY <1>1 DEF CallAcquire
<1>2. ASSUME NEW t \in Clients, CallStart(t) PROVE ReplyOK'
  BY <1>2 DEF CallStart
<1>3. ASSUME NEW t \in Clients, Cancel(t) PROVE ReplyOK'
  BY <1>3 DEF Cancel, FailFrom
<1>4. ASSUME NEW t \in Clients, Admit(t) PROVE ReplyOK'
  BY <1>4 DEF Admit
<1>5. ASSUME NEW t \in Clients, Top(t) PROVE ReplyOK'
  BY <1>5 DEF Top
<1>6. ASSUME NEW t \in Clients, Gen(t) PROVE ReplyOK'
  BY <1>6 DEF Gen, WaitReady
<1>7. ASSUME NEW t \in Clients, Wake(t) PROVE ReplyOK'
  BY <1>7 DEF Wake, WaitReady
<1>8. ASSUME NEW t \in Clients, WaitFail(t) PROVE ReplyOK'
  BY <1>8 DEF WaitFail
<1>9. ASSUME NEW t \in Clients, Fail(t) PROVE ReplyOK'
  BY <1>9 DEF Fail
<1>10. ASSUME NEW t \in Clients, StartGrant(t) PROVE ReplyOK'
  BY <1>10, GraceReplies DEF StartGrant, NoReply
<1>11. ASSUME NEW t \in Clients, StartReply(t) PROVE ReplyOK'
  BY <1>11 DEF StartReply, Adopt, StopStarted
<1>12. ASSUME NEW t \in Clients, UndoReply(t) PROVE ReplyOK'
  BY <1>12 DEF UndoReply, FailFrom
<1>13. ASSUME NEW t \in Clients, CancelledStartReply(t) PROVE ReplyOK'
  BY <1>13 DEF CancelledStartReply, FailFrom
<1>14. ASSUME NEW t \in Clients, RecoverGrant(t) PROVE ReplyOK'
  BY <1>14 DEF RecoverGrant, NoReply
<1>15. ASSUME NEW t \in Clients, RecoverStopped(t) PROVE ReplyOK'
  BY <1>15 DEF RecoverStopped, FailFrom, NoReply
<1>16. ASSUME NEW t \in Clients, RestartReply(t) PROVE ReplyOK'
  BY <1>16 DEF RestartReply, Adopt, StopStarted
<1>17. ASSUME NEW t \in Clients, ProvisionalGrant(t) PROVE ReplyOK'
  BY <1>17 DEF ProvisionalGrant, Grant, Retry
<1>18. ASSUME NEW t \in Clients, RegisterGrant(t) PROVE ReplyOK'
  BY <1>18 DEF RegisterGrant, Grant, Retry
<1>19. ASSUME NEW t \in Clients, ViewerOnReply(t) PROVE ReplyOK'
  BY <1>19 DEF ViewerOnReply, Grant
<1>20. ASSUME NEW t \in Clients, RollOffReply(t) PROVE ReplyOK'
  BY <1>20 DEF RollOffReply
<1>21. ASSUME NEW t \in Clients, RegisterUndone(t) PROVE ReplyOK'
  BY <1>21 DEF RegisterUndone, Retry
<1>22. ASSUME NEW t \in Clients, CleanStart(t) PROVE ReplyOK'
  BY <1>22 DEF CleanStart
<1>23. ASSUME NEW t \in Clients, CleanGrant(t) PROVE ReplyOK'
  BY <1>23 DEF CleanGrant
<1>24. ASSUME NEW t \in Clients, CleanReply(t) PROVE ReplyOK'
  BY <1>24 DEF CleanReply
<1>25. ASSUME NEW t \in Clients, ReleaseGrant(t) PROVE ReplyOK'
  BY <1>25 DEF ReleaseGrant
<1>26. ASSUME NEW t \in Clients, ViewerOffReply(t) PROVE ReplyOK'
  BY <1>26 DEF ViewerOffReply, Schedule
<1>27. ASSUME NEW s \in Stoppers, CallStop(s) PROVE ReplyOK'
  BY <1>27 DEF CallStop
<1>28. ASSUME NEW s \in Graces, GraceExpires(s) PROVE ReplyOK'
  BY <1>28 DEF GraceExpires
<1>29. ASSUME NEW s \in Stoppers \cup Graces, StopGrant(s) PROVE ReplyOK'
  BY <1>29, GraceReplies DEF StopGrant, StopEnds, NoReply
<1>30. ASSUME NEW s \in Stoppers \cup Graces, StopReply(s) PROVE ReplyOK'
  BY <1>30 DEF StopReply, StopEnds
<1>31. ASSUME NEW t \in Tasks, Block(t) PROVE ReplyOK'
  BY <1>31 DEF Block
<1>32. ASSUME NEW t \in Tasks, Serve(t) PROVE ReplyOK'
  BY <1>32, ServeReply DEF Serve
<1>33. ASSUME NEW t \in Tasks, Refuse(t) PROVE ReplyOK'
  BY <1>33 DEF Refuse, Failure
<1>34. ASSUME NEW t \in Clients, CallRelease(t) PROVE ReplyOK'
  <2>0. pc[t] = "leased" /\ t \in Tasks
    BY <1>34 DEF CallRelease
  <2>1. CASE pc' = [pc EXCEPT ![t] = "idle"] /\ UNCHANGED reply
    BY <2>0, <2>1
  <2>2. CASE pc' = [PcWithoutGrace(t) EXCEPT ![t] = "rel_lock"] /\ reply' = ReplyWithoutGrace(t)
    BY <2>0, <2>2, GraceReplies
  <2>3. CASE Schedule(t, PcWithoutGrace(t)) /\ reply' = ReplyWithoutGrace(t)
    <3>1. PICK s \in Graces : pc[s] = "idle"
          /\ pc' = [PcWithoutGrace(t) EXCEPT ![t] = "idle", ![s] = "sleep"]
      BY <2>3 DEF Schedule
    <3>2. reply[t] = NoReply /\ reply[s] = NoReply
      BY <2>0, <3>1
    <3>3. PcWithoutGrace(t)[s] \notin HttpPcs /\ ReplyWithoutGrace(t)[s] = NoReply
      BY <3>1, <3>2, GraceReplies DEF PcWithoutGrace, ReplyWithoutGrace
    <3>4. ReplyWithoutGrace(t)[t] = NoReply
      BY <2>0, GraceReplies
    <3>5. ASSUME NEW u \in Tasks \ {s, t} PROVE pc'[u] = PcWithoutGrace(t)[u]
      BY <3>1, GraceReplies
    <3> QED
      BY <2>3, <3>1, <3>3, <3>4, <3>5, GraceReplies
  <2> QED
    BY <1>34, <2>1, <2>2, <2>3 DEF CallRelease
<1>35. ASSUME SyncBegin \/ SyncFails \/ EventIgnored PROVE ReplyOK'
  BY <1>35 DEF SyncBegin, SyncFails, EventIgnored
<1>36. ASSUME SyncStatus \/ SyncEvent PROVE ReplyOK'
  BY <1>36, GraceReplies DEF SyncStatus, SyncEvent, ApplyStatus
<1>37. ASSUME NEW move \in AllMoves, BridgeMove(move) PROVE ReplyOK'
  BY <1>37 DEF BridgeMove
<1>38. CASE UNCHANGED vars
  BY <1>38 DEF vars
<1> QED
  BY <1>1, <1>2, <1>3, <1>4, <1>5, <1>6, <1>7, <1>8, <1>9, <1>10, <1>11, <1>12, <1>13, <1>14,
     <1>15, <1>16, <1>17, <1>18, <1>19, <1>20, <1>21, <1>22, <1>23, <1>24, <1>25, <1>26, <1>27,
     <1>28, <1>29, <1>30, <1>31, <1>32, <1>33, <1>34, <1>35, <1>36, <1>37, <1>38
     DEF Next, ClientStep, StopStep, SyncStep

LEMMA BindingInit == Init => BindingInv
<1> SUFFICES ASSUME Init PROVE BindingInv
  OBVIOUS
<1> USE ReplyTypes DEF Init
<1>1. OwnerOK /\ BudgetOK
  BY DEF OwnerOK, BudgetOK, IdleStates, LiveStates
<1>2. LedgerOK
  BY DEF LedgerOK
<1>3. LoopOK
  BY DEF LoopOK
<1>4. LocalsOK
  BY DEF LocalsOK, AllPcs, AllModes
<1>5. SyncOK
  BY DEF SyncOK, Syncs, NoSync, NoEvent, Events
<1>6. BridgeOK
  BY DEF BridgeOK, BridgeStates, LiveStates
<1>7. ReplyOK
  BY DEF ReplyOK, NoReply
<1>8. RowOK
  BY DEF RowOK, NoSync
<1>9. GenerationBinding
  BY DEF GenerationBinding, IdleStates
<1> QED
  BY <1>1, <1>2, <1>3, <1>4, <1>5, <1>6, <1>7, <1>8, <1>9, LockInit DEF BindingInv, TypeOK

LEMMA BindingStep == BindingInv /\ [Next]_vars => BindingInv'
<1> SUFFICES ASSUME BindingInv, [Next]_vars PROVE BindingInv'
  OBVIOUS
<1>1. TypeOK' /\ ReplyOK' /\ RowOK' /\ GenerationBinding'
  BY TypeStep, ReplyStep, RowStep, BindStep
<1>2. LockInv'
  BY LockStep DEF BindingInv
<1> QED
  BY <1>1, <1>2 DEF BindingInv

LEMMA BindingAlways == Spec => []BindingInv
  BY BindingInit, BindingStep, PTL DEF Spec

\* Every variable keeps its type; the coordinator never keeps a state that ends a
\* generation (TypeOK).
THEOREM TypeCorrect == Spec => []TypeOK
<1>1. BindingInv => TypeOK
  BY DEF BindingInv
<1> QED
  BY <1>1, BindingAlways, PTL

\* A live state has a generation, an idle one has none, and the recoverable marker
\* names no other generation (GenerationBinding), whatever reply, poll or event came last.
THEOREM Binding == Spec => []GenerationBinding
<1>1. BindingInv => GenerationBinding
  BY DEF BindingInv
<1> QED
  BY <1>1, BindingAlways, PTL
=============================================================================
