------------------------- MODULE MonitorStepProofs -------------------------
(***************************************************************************)
(* Theorems about Monitor that rest on the types and the lifecycle lock:   *)
(* no lease without its holder, no grant to a terminated request, no       *)
(* status that goes back in time, and no generation that is taken up again *)
(* after its stop was acknowledged but by a relay event of its progress.   *)
(***************************************************************************)
EXTENDS MonitorProofs

USE DEF Goto, Continue, Suspend, Quiet
USE TasksAssumption DEF Tasks

\* What the lease property rests on: types and the lock, nothing of generations.
LeaseInv == TypeOK /\ LockInv /\ LeasesLive

LEMMA GrantLive ==
  ASSUME LeaseInv, NEW t \in Clients, pc[t] # "leased", \A p \in Tasks \ {t} : pc'[p] = pc[p],
         Grant(t, TRUE) \/ Grant(t, FALSE) \/ UNCHANGED <<leases, lease>>
  PROVE  LeasesLive'
<1>1. CASE UNCHANGED <<leases, lease>>
  BY <1>1 DEF LeaseInv, LeasesLive
<1>2. ASSUME NEW edge, Grant(t, edge) PROVE LeasesLive'
  <2>1. PICK l : leases' = leases \cup {l} /\ lease' = [lease EXCEPT ![t] = l]
        /\ pc' = [pc EXCEPT ![t] = "leased"]
    BY <1>2 DEF Grant
  <2> QED
    BY <2>1 DEF LeaseInv, LeasesLive, TypeOK, LocalsOK
<1> QED
  BY <1>1, <1>2

LEMMA PhantomStep == LeaseInv /\ [Next]_vars => LeasesLive'
<1> SUFFICES ASSUME LeaseInv, [Next]_vars PROVE LeasesLive'
  OBVIOUS
<1> USE DEF LeaseInv, LockInv, PcOK, LeasesLive, ledger, locals, LocalsOK, TypeOK
<1>1. ASSUME NEW t \in Clients, CallAcquire(t) PROVE LeasesLive'
  BY <1>1 DEF CallAcquire
<1>2. ASSUME NEW t \in Clients, CallStart(t) PROVE LeasesLive'
  BY <1>2 DEF CallStart
<1>3. ASSUME NEW t \in Clients, CallRelease(t) PROVE LeasesLive'
  BY <1>3, GraceCancel DEF CallRelease, Schedule, Left
<1>4. ASSUME NEW t \in Clients, Cancel(t) PROVE LeasesLive'
  BY <1>4 DEF Cancel, FailFrom, CancelPcs
<1>5. ASSUME NEW t \in Clients, Admit(t) PROVE LeasesLive'
  BY <1>5 DEF Admit
<1>6. ASSUME NEW t \in Clients, Top(t) PROVE LeasesLive'
  BY <1>6 DEF Top
<1>7. ASSUME NEW t \in Clients, Gen(t) PROVE LeasesLive'
  BY <1>7 DEF Gen, WaitReady
<1>8. ASSUME NEW t \in Clients, Wake(t) PROVE LeasesLive'
  BY <1>8 DEF Wake, WaitReady
<1>9. ASSUME NEW t \in Clients, WaitFail(t) PROVE LeasesLive'
  BY <1>9 DEF WaitFail
<1>10. ASSUME NEW t \in Clients, Fail(t) PROVE LeasesLive'
  BY <1>10 DEF Fail
<1>11. ASSUME NEW t \in Clients, StartGrant(t) PROVE LeasesLive'
  BY <1>11, GraceCancel DEF StartGrant
<1>12. ASSUME NEW t \in Clients, StartReply(t) PROVE LeasesLive'
  BY <1>12 DEF StartReply, Adopt, StopStarted
<1>13. ASSUME NEW t \in Clients, UndoReply(t) PROVE LeasesLive'
  BY <1>13 DEF UndoReply, FailFrom
<1>14. ASSUME NEW t \in Clients, CancelledStartReply(t) PROVE LeasesLive'
  BY <1>14 DEF CancelledStartReply, FailFrom
<1>15. ASSUME NEW t \in Clients, RecoverGrant(t) PROVE LeasesLive'
  BY <1>15 DEF RecoverGrant
<1>16. ASSUME NEW t \in Clients, RecoverStopped(t) PROVE LeasesLive'
  BY <1>16 DEF RecoverStopped, FailFrom, DropGeneration
<1>17. ASSUME NEW t \in Clients, RestartReply(t) PROVE LeasesLive'
  BY <1>17 DEF RestartReply, Adopt, StopStarted
<1>18. ASSUME NEW t \in Clients, ProvisionalGrant(t) PROVE LeasesLive'
  <2>1. (Grant(t, TRUE) \/ Grant(t, FALSE)) \/ UNCHANGED <<leases, lease>>
    BY <1>18 DEF ProvisionalGrant
  <2>2. pc[t] # "leased" /\ \A p \in Tasks \ {t} : pc'[p] = pc[p]
    BY <1>18 DEF ProvisionalGrant, Grant, Retry
  <2> QED
    BY <2>1, <2>2, GrantLive
<1>19. ASSUME NEW t \in Clients, RegisterGrant(t) PROVE LeasesLive'
  <2>1. (Grant(t, TRUE) \/ Grant(t, FALSE)) \/ UNCHANGED <<leases, lease>>
    BY <1>19 DEF RegisterGrant
  <2>2. pc[t] # "leased" /\ \A p \in Tasks \ {t} : pc'[p] = pc[p]
    BY <1>19 DEF RegisterGrant, Grant, Retry
  <2> QED
    BY <2>1, <2>2, GrantLive
<1>20. ASSUME NEW t \in Clients, ViewerOnReply(t) PROVE LeasesLive'
  <2>1. (Grant(t, TRUE) \/ Grant(t, FALSE)) \/ UNCHANGED <<leases, lease>>
    BY <1>20 DEF ViewerOnReply
  <2>2. pc[t] # "leased" /\ \A p \in Tasks \ {t} : pc'[p] = pc[p]
    BY <1>20 DEF ViewerOnReply, Grant, Retry
  <2> QED
    BY <2>1, <2>2, GrantLive
<1>21. ASSUME NEW t \in Clients, RollOffReply(t) PROVE LeasesLive'
  BY <1>21 DEF RollOffReply
<1>22. ASSUME NEW t \in Clients, RegisterUndone(t) PROVE LeasesLive'
  BY <1>22 DEF RegisterUndone, Retry, DropGeneration
<1>23. ASSUME NEW t \in Clients, CleanStart(t) PROVE LeasesLive'
  BY <1>23 DEF CleanStart
<1>24. ASSUME NEW t \in Clients, CleanGrant(t) PROVE LeasesLive'
  BY <1>24 DEF CleanGrant
<1>25. ASSUME NEW t \in Clients, CleanReply(t) PROVE LeasesLive'
  BY <1>25 DEF CleanReply
<1>26. ASSUME NEW t \in Clients, ReleaseGrant(t) PROVE LeasesLive'
  BY <1>26 DEF ReleaseGrant
<1>27. ASSUME NEW t \in Clients, ViewerOffReply(t) PROVE LeasesLive'
  BY <1>27 DEF ViewerOffReply, Schedule
<1>28. ASSUME NEW s \in Stoppers, CallStop(s) PROVE LeasesLive'
  BY <1>28 DEF CallStop
<1>29. ASSUME NEW s \in Graces, GraceExpires(s) PROVE LeasesLive'
  BY <1>29 DEF GraceExpires
<1>30. ASSUME NEW s \in Stoppers \cup Graces, StopGrant(s) PROVE LeasesLive'
  BY <1>30, GraceCancel DEF StopGrant, StopEnds, DropGeneration
<1>31. ASSUME NEW s \in Stoppers \cup Graces, StopReply(s) PROVE LeasesLive'
  BY <1>31 DEF StopReply, StopEnds, DropGeneration
<1>32. ASSUME NEW t \in Tasks, Block(t) PROVE LeasesLive'
  BY <1>32 DEF Block, loop
<1>33. ASSUME NEW t \in Tasks, Serve(t) PROVE LeasesLive'
  BY <1>33 DEF Serve, loop
<1>34. ASSUME NEW t \in Tasks, Refuse(t) PROVE LeasesLive'
  BY <1>34 DEF Refuse, loop
<1>35. ASSUME SyncBegin \/ SyncFails \/ EventIgnored PROVE LeasesLive'
  BY <1>35 DEF SyncBegin, SyncFails, EventIgnored, loop
<1>36. ASSUME SyncStatus \/ SyncEvent PROVE LeasesLive'
  BY <1>36, GraceCancel DEF SyncStatus, SyncEvent, ApplyStatus, SetResponse, DropGeneration
<1>37. ASSUME NEW move \in AllMoves, BridgeMove(move) PROVE LeasesLive'
  BY <1>37 DEF BridgeMove, loop
<1>38. ASSUME UNCHANGED vars PROVE LeasesLive'
  BY <1>38 DEF vars, loop
<1> QED
  BY <1>1, <1>2, <1>3, <1>4, <1>5, <1>6, <1>7, <1>8, <1>9, <1>10, <1>11, <1>12, <1>13, <1>14,
     <1>15, <1>16, <1>17, <1>18, <1>19, <1>20, <1>21, <1>22, <1>23, <1>24, <1>25, <1>26, <1>27,
     <1>28, <1>29, <1>30, <1>31, <1>32, <1>33, <1>34, <1>35, <1>36, <1>37, <1>38
     DEF Next, ClientStep, StopStep, SyncStep

LEMMA FenceStep ==
  ASSUME LockInv, [Next]_vars, NEW u \in Clients,
         \/ pc[u] \notin StartPcs /\ pc'[u] \in StartPcs
         \/ pc[u] \in AcquirePcs /\ pc'[u] = "leased"
  PROVE  ~Terminated(u)
<1> USE DEF LockInv, PcOK, StartPcs, AcquirePcs, InnerPcs, LockPcs
<1>1. ASSUME NEW p \in Clients, CallAcquire(p) PROVE ~Terminated(u)
  BY <1>1 DEF CallAcquire
<1>2. ASSUME NEW p \in Clients, CallStart(p) PROVE ~Terminated(u)
  BY <1>2 DEF CallStart
<1>3. ASSUME NEW p \in Clients, CallRelease(p) PROVE ~Terminated(u)
  BY <1>3, GraceCancel DEF CallRelease, Schedule, Left
<1>4. ASSUME NEW p \in Clients, Cancel(p) PROVE ~Terminated(u)
  BY <1>4 DEF Cancel, FailFrom, CancelPcs
<1>5. ASSUME NEW p \in Clients, Admit(p) PROVE ~Terminated(u)
  BY <1>5 DEF Admit
<1>6. ASSUME NEW p \in Clients, Top(p) PROVE ~Terminated(u)
  BY <1>6 DEF Top
<1>7. ASSUME NEW p \in Clients, Gen(p) PROVE ~Terminated(u)
  BY <1>7 DEF Gen, WaitReady
<1>8. ASSUME NEW p \in Clients, Wake(p) PROVE ~Terminated(u)
  BY <1>8 DEF Wake, WaitReady
<1>9. ASSUME NEW p \in Clients, WaitFail(p) PROVE ~Terminated(u)
  BY <1>9 DEF WaitFail
<1>10. ASSUME NEW p \in Clients, Fail(p) PROVE ~Terminated(u)
  BY <1>10 DEF Fail
<1>11. ASSUME NEW p \in Clients, StartGrant(p) PROVE ~Terminated(u)
  BY <1>11, GraceCancel DEF StartGrant
<1>12. ASSUME NEW p \in Clients, StartReply(p) PROVE ~Terminated(u)
  BY <1>12 DEF StartReply, Adopt, StopStarted
<1>13. ASSUME NEW p \in Clients, UndoReply(p) PROVE ~Terminated(u)
  BY <1>13 DEF UndoReply, FailFrom
<1>14. ASSUME NEW p \in Clients, CancelledStartReply(p) PROVE ~Terminated(u)
  BY <1>14 DEF CancelledStartReply, FailFrom
<1>15. ASSUME NEW p \in Clients, RecoverGrant(p) PROVE ~Terminated(u)
  BY <1>15 DEF RecoverGrant
<1>16. ASSUME NEW p \in Clients, RecoverStopped(p) PROVE ~Terminated(u)
  BY <1>16 DEF RecoverStopped, FailFrom, DropGeneration
<1>17. ASSUME NEW p \in Clients, RestartReply(p) PROVE ~Terminated(u)
  BY <1>17 DEF RestartReply, Adopt, StopStarted
<1>18. ASSUME NEW p \in Clients, ProvisionalGrant(p) PROVE ~Terminated(u)
  BY <1>18 DEF ProvisionalGrant, Grant, Retry
<1>19. ASSUME NEW p \in Clients, RegisterGrant(p) PROVE ~Terminated(u)
  BY <1>19 DEF RegisterGrant, Grant, Retry
<1>20. ASSUME NEW p \in Clients, ViewerOnReply(p) PROVE ~Terminated(u)
  BY <1>20 DEF ViewerOnReply, Grant
<1>21. ASSUME NEW p \in Clients, RollOffReply(p) PROVE ~Terminated(u)
  BY <1>21 DEF RollOffReply
<1>22. ASSUME NEW p \in Clients, RegisterUndone(p) PROVE ~Terminated(u)
  BY <1>22 DEF RegisterUndone, Retry, DropGeneration
<1>23. ASSUME NEW p \in Clients, CleanStart(p) PROVE ~Terminated(u)
  BY <1>23 DEF CleanStart
<1>24. ASSUME NEW p \in Clients, CleanGrant(p) PROVE ~Terminated(u)
  BY <1>24 DEF CleanGrant
<1>25. ASSUME NEW p \in Clients, CleanReply(p) PROVE ~Terminated(u)
  BY <1>25 DEF CleanReply
<1>26. ASSUME NEW p \in Clients, ReleaseGrant(p) PROVE ~Terminated(u)
  BY <1>26 DEF ReleaseGrant
<1>27. ASSUME NEW p \in Clients, ViewerOffReply(p) PROVE ~Terminated(u)
  BY <1>27 DEF ViewerOffReply, Schedule
<1>28. ASSUME NEW s \in Stoppers, CallStop(s) PROVE ~Terminated(u)
  BY <1>28 DEF CallStop
<1>29. ASSUME NEW s \in Graces, GraceExpires(s) PROVE ~Terminated(u)
  BY <1>29 DEF GraceExpires
<1>30. ASSUME NEW s \in Stoppers \cup Graces, StopGrant(s) PROVE ~Terminated(u)
  BY <1>30, GraceCancel DEF StopGrant, StopEnds, DropGeneration
<1>31. ASSUME NEW s \in Stoppers \cup Graces, StopReply(s) PROVE ~Terminated(u)
  BY <1>31 DEF StopReply, StopEnds, DropGeneration
<1>32. ASSUME NEW p \in Tasks, Block(p) PROVE ~Terminated(u)
  BY <1>32 DEF Block, loop
<1>33. ASSUME NEW p \in Tasks, Serve(p) PROVE ~Terminated(u)
  BY <1>33 DEF Serve, loop
<1>34. ASSUME NEW p \in Tasks, Refuse(p) PROVE ~Terminated(u)
  BY <1>34 DEF Refuse, loop
<1>35. ASSUME SyncBegin \/ SyncFails \/ EventIgnored PROVE ~Terminated(u)
  BY <1>35 DEF SyncBegin, SyncFails, EventIgnored, loop
<1>36. ASSUME SyncStatus \/ SyncEvent PROVE ~Terminated(u)
  BY <1>36, GraceCancel DEF SyncStatus, SyncEvent, ApplyStatus
<1>37. ASSUME NEW move \in AllMoves, BridgeMove(move) PROVE ~Terminated(u)
  BY <1>37 DEF BridgeMove, loop
<1>38. ASSUME UNCHANGED vars PROVE ~Terminated(u)
  BY <1>38 DEF vars, loop
<1> QED
  BY <1>1, <1>2, <1>3, <1>4, <1>5, <1>6, <1>7, <1>8, <1>9, <1>10, <1>11, <1>12, <1>13, <1>14,
     <1>15, <1>16, <1>17, <1>18, <1>19, <1>20, <1>21, <1>22, <1>23, <1>24, <1>25, <1>26, <1>27,
     <1>28, <1>29, <1>30, <1>31, <1>32, <1>33, <1>34, <1>35, <1>36, <1>37, <1>38
     DEF Next, ClientStep, StopStep, SyncStep

LEMMA AdoptForward ==
  ASSUME BindingInv, NEW t \in Clients, NEW adoptable, NEW keep, AlreadyKnown(reply[t]) => keep,
         generation # 0, generation' = generation, Adopt(t, reply[t], adoptable, keep)
  PROVE  revision' >= revision
<1>1. reply[t].rev \in Nat /\ revision \in Nat
  BY ReplyFields DEF BindingInv, TypeOK, OwnerOK
<1>2. CASE UNCHANGED owner
  BY <1>1, <1>2 DEF owner
<1>3. CASE SetResponse(reply[t]) /\ ~keep
  BY <1>1, <1>3 DEF SetResponse, RevisionOf, AlreadyKnown
<1> QED
  BY <1>2, <1>3 DEF Adopt

LEMMA SyncForward ==
  ASSUME BindingInv, SyncStatus \/ SyncEvent
  PROVE  revision' >= revision
<1> USE DEF BindingInv, TypeOK, OwnerOK, owner
<1>1. ASSUME NEW m, m.rev \in Nat, ~Stale(m), ApplyStatus(m) PROVE revision' >= revision
  BY <1>1 DEF ApplyStatus, SetResponse, RevisionOf, Stale
<1>2. CASE SyncStatus
  BY <1>1, <1>2, RowType DEF SyncStatus
<1>3. CASE SyncEvent
  <2> DEFINE m == Message(sync.event)
  <2>1. m.rev \in Nat
    BY MessageType DEF SyncOK, Syncs
  <2>2. (~Stale(m) /\ ApplyStatus(m)) \/ UNCHANGED owner
    BY <1>3 DEF SyncEvent
  <2> HIDE DEF m
  <2> QED
    BY <1>1, <2>1, <2>2
<1> QED
  BY <1>2, <1>3

LEMMA ForwardStep ==
  ASSUME BindingInv, [Next]_vars, generation # 0, generation' = generation
  PROVE  revision' >= revision
<1> USE DEF BindingInv, TypeOK, OwnerOK, LedgerOK, owner
<1>1. ASSUME NEW t \in Clients, CallAcquire(t) PROVE revision' >= revision
  BY <1>1 DEF CallAcquire
<1>2. ASSUME NEW t \in Clients, CallStart(t) PROVE revision' >= revision
  BY <1>2 DEF CallStart
<1>3. ASSUME NEW t \in Clients, CallRelease(t) PROVE revision' >= revision
  BY <1>3, GraceCancel DEF CallRelease, Schedule, Left
<1>4. ASSUME NEW t \in Clients, Cancel(t) PROVE revision' >= revision
  BY <1>4 DEF Cancel, FailFrom, CancelPcs
<1>5. ASSUME NEW t \in Clients, Admit(t) PROVE revision' >= revision
  BY <1>5 DEF Admit
<1>6. ASSUME NEW t \in Clients, Top(t) PROVE revision' >= revision
  BY <1>6 DEF Top
<1>7. ASSUME NEW t \in Clients, Gen(t) PROVE revision' >= revision
  BY <1>7 DEF Gen, WaitReady
<1>8. ASSUME NEW t \in Clients, Wake(t) PROVE revision' >= revision
  BY <1>8 DEF Wake, WaitReady
<1>9. ASSUME NEW t \in Clients, WaitFail(t) PROVE revision' >= revision
  BY <1>9 DEF WaitFail
<1>10. ASSUME NEW t \in Clients, Fail(t) PROVE revision' >= revision
  BY <1>10 DEF Fail
<1>11. ASSUME NEW t \in Clients, StartGrant(t) PROVE revision' >= revision
  BY <1>11, GraceCancel DEF StartGrant
<1>12. ASSUME NEW t \in Clients, StartReply(t) PROVE revision' >= revision
  <2> DEFINE keep == AlreadyKnown(reply[t]) \/ (generation = reply[t].gen /\ state = "stopping")
             adoptable == \/ generation = 0 /\ recoverable # reply[t].gen
                          \/ generation # 0 /\ generation \in {old[t], reply[t].gen}
  <2>1. Adopt(t, reply[t], adoptable, keep) \/ UNCHANGED owner
    BY <1>12 DEF StartReply
  <2>2. AlreadyKnown(reply[t]) => keep
    OBVIOUS
  <2>3. UNCHANGED owner => revision' >= revision
    OBVIOUS
  <2> HIDE DEF keep, adoptable, BindingInv, TypeOK, OwnerOK, LedgerOK, owner
  <2>4. Adopt(t, reply[t], adoptable, keep) => revision' >= revision
    BY <2>2, AdoptForward
  <2> QED
    BY <2>1, <2>3, <2>4
<1>13. ASSUME NEW t \in Clients, UndoReply(t) PROVE revision' >= revision
  BY <1>13 DEF UndoReply, FailFrom
<1>14. ASSUME NEW t \in Clients, CancelledStartReply(t) PROVE revision' >= revision
  BY <1>14 DEF CancelledStartReply, FailFrom
<1>15. ASSUME NEW t \in Clients, RecoverGrant(t) PROVE revision' >= revision
  BY <1>15 DEF RecoverGrant
<1>16. ASSUME NEW t \in Clients, RecoverStopped(t) PROVE revision' >= revision
  BY <1>16 DEF RecoverStopped, FailFrom, DropGeneration
<1>17. ASSUME NEW t \in Clients, RestartReply(t) PROVE revision' >= revision
  <2> DEFINE keep == AlreadyKnown(reply[t])
             adoptable == \/ generation = 0 /\ recoverable # reply[t].gen
                          \/ generation # 0 /\ generation = old[t]
  <2>1. Adopt(t, reply[t], adoptable, keep) \/ UNCHANGED owner
    BY <1>17 DEF RestartReply
  <2>2. AlreadyKnown(reply[t]) => keep
    OBVIOUS
  <2>3. UNCHANGED owner => revision' >= revision
    OBVIOUS
  <2> HIDE DEF keep, adoptable, BindingInv, TypeOK, OwnerOK, LedgerOK, owner
  <2>4. Adopt(t, reply[t], adoptable, keep) => revision' >= revision
    BY <2>2, AdoptForward
  <2> QED
    BY <2>1, <2>3, <2>4
<1>18. ASSUME NEW t \in Clients, ProvisionalGrant(t) PROVE revision' >= revision
  BY <1>18 DEF ProvisionalGrant, Grant, Retry
<1>19. ASSUME NEW t \in Clients, RegisterGrant(t) PROVE revision' >= revision
  BY <1>19 DEF RegisterGrant, Grant, Retry
<1>20. ASSUME NEW t \in Clients, ViewerOnReply(t) PROVE revision' >= revision
  BY <1>20 DEF ViewerOnReply, Grant
<1>21. ASSUME NEW t \in Clients, RollOffReply(t) PROVE revision' >= revision
  BY <1>21 DEF RollOffReply
<1>22. ASSUME NEW t \in Clients, RegisterUndone(t) PROVE revision' >= revision
  BY <1>22 DEF RegisterUndone, Retry, DropGeneration
<1>23. ASSUME NEW t \in Clients, CleanStart(t) PROVE revision' >= revision
  BY <1>23 DEF CleanStart
<1>24. ASSUME NEW t \in Clients, CleanGrant(t) PROVE revision' >= revision
  BY <1>24 DEF CleanGrant
<1>25. ASSUME NEW t \in Clients, CleanReply(t) PROVE revision' >= revision
  BY <1>25 DEF CleanReply
<1>26. ASSUME NEW t \in Clients, ReleaseGrant(t) PROVE revision' >= revision
  BY <1>26 DEF ReleaseGrant
<1>27. ASSUME NEW t \in Clients, ViewerOffReply(t) PROVE revision' >= revision
  BY <1>27 DEF ViewerOffReply, Schedule
<1>28. ASSUME NEW s \in Stoppers, CallStop(s) PROVE revision' >= revision
  BY <1>28 DEF CallStop
<1>29. ASSUME NEW s \in Graces, GraceExpires(s) PROVE revision' >= revision
  BY <1>29 DEF GraceExpires
<1>30. ASSUME NEW s \in Stoppers \cup Graces, StopGrant(s) PROVE revision' >= revision
  BY <1>30, GraceCancel DEF StopGrant, StopEnds, DropGeneration
<1>31. ASSUME NEW s \in Stoppers \cup Graces, StopReply(s) PROVE revision' >= revision
  BY <1>31 DEF StopReply, StopEnds, DropGeneration
<1>32. ASSUME NEW t \in Tasks, Block(t) PROVE revision' >= revision
  BY <1>32 DEF Block, loop
<1>33. ASSUME NEW t \in Tasks, Serve(t) PROVE revision' >= revision
  BY <1>33 DEF Serve, loop
<1>34. ASSUME NEW t \in Tasks, Refuse(t) PROVE revision' >= revision
  BY <1>34 DEF Refuse, loop
<1>35. ASSUME SyncBegin \/ SyncFails \/ EventIgnored PROVE revision' >= revision
  BY <1>35 DEF SyncBegin, SyncFails, EventIgnored, loop
<1>36. ASSUME SyncStatus \/ SyncEvent PROVE revision' >= revision
  BY <1>36, SyncForward
<1>37. ASSUME NEW move \in AllMoves, BridgeMove(move) PROVE revision' >= revision
  BY <1>37 DEF BridgeMove, loop
<1>38. ASSUME UNCHANGED vars PROVE revision' >= revision
  BY <1>38 DEF vars, loop
<1> QED
  BY <1>1, <1>2, <1>3, <1>4, <1>5, <1>6, <1>7, <1>8, <1>9, <1>10, <1>11, <1>12, <1>13, <1>14,
     <1>15, <1>16, <1>17, <1>18, <1>19, <1>20, <1>21, <1>22, <1>23, <1>24, <1>25, <1>26, <1>27,
     <1>28, <1>29, <1>30, <1>31, <1>32, <1>33, <1>34, <1>35, <1>36, <1>37, <1>38
     DEF Next, ClientStep, StopStep, SyncStep

\* No phantom viewer: every lease in the ledger is held by a caller that can release it
\* (LeasesLive), so that viewer_count can come back to zero.
THEOREM NoPhantom == Spec => []LeasesLive
<1>1. Init => LeaseInv
  BY BindingInit DEF Init, BindingInv, LeaseInv, LeasesLive
<1>2. BindingInv /\ LeaseInv /\ [Next]_vars => LeaseInv'
  BY PhantomStep, BindingStep DEF LeaseInv, BindingInv
<1>3. LeaseInv => LeasesLive
  BY DEF LeaseInv
<1> QED
  BY <1>1, <1>2, <1>3, BindingAlways, PTL DEF Spec

\* A terminated request sends no start and gets no lease (TerminalFence): every path
\* through async_acquire_viewer tests the epoch after its last suspension.
THEOREM Fenced == Spec => TerminalFence
<1>1. LockInv /\ [Next]_vars =>
        [\A t \in Clients :
           (\/ pc[t] \notin StartPcs /\ pc'[t] \in StartPcs
            \/ pc[t] \in AcquirePcs /\ pc'[t] = "leased") => ~unloaded /\ req[t] = epoch]_vars
  BY FenceStep DEF Terminated
<1> QED
  BY <1>1, LockInit, LockStep, PTL DEF Spec, TerminalFence

\* While the coordinator stays on a generation its status never goes back to an older
\* revision (RevisionForward), in whatever order replies, polls and events arrive.
THEOREM Forward == Spec => RevisionForward
<1>1. BindingInv /\ [Next]_vars =>
        [generation # 0 /\ generation' = generation => revision' >= revision]_vars
  BY ForwardStep
<1> QED
  BY <1>1, BindingAlways, PTL DEF Spec, RevisionForward

(***************************************************************************)
(* A preview whose stop was acknowledged.  It is over at the bridge for    *)
(* good, so no start can be answered with it; and while a start is in      *)
(* flight no stop is, which keeps the fence where it was when the start    *)
(* was served.                                                             *)
(***************************************************************************)

OverStates == {"ending", "off", "stopped", "failed"}
Past(g) == g < bGen \/ (g = bGen /\ bState \in OverStates)
FenceInv ==
  /\ Past(fence)
  /\ \A t \in Tasks : pc[t] \in StopPcs /\ reply[t].kind = "ok" => Past(target[t])
  /\ \A t \in Tasks : pc[t] \in StartPcs /\ reply[t].kind = "ok" => reply[t].gen # fence

\* What a step that asks nothing of the bridge does to answers in flight, and to the fence.
Carried ==
  \A u \in Tasks : reply'[u].kind = "ok" =>
    /\ pc'[u] \in StartPcs => pc[u] \in StartPcs /\ reply'[u] = reply[u]
    /\ pc'[u] \in StopPcs => /\ pc[u] \in StopPcs /\ reply'[u].kind = reply[u].kind
                             /\ target'[u] = target[u]
FenceMoves ==
  \/ UNCHANGED fence
  \/ \E t \in Tasks : pc[t] \in StopPcs /\ reply[t].kind = "ok" /\ fence' = target[t]

LEMMA GraceAnswers ==
  ASSUME TypeOK, LockInv, ReplyOK, NEW t
  PROVE  \A u \in Tasks :
           /\ PcWithoutGrace(t)[u] \in StartPcs =>
                pc[u] \in StartPcs /\ ReplyWithoutGrace(t)[u] = reply[u]
           /\ PcWithoutGrace(t)[u] \in StopPcs /\ ReplyWithoutGrace(t)[u].kind = "ok" =>
                pc[u] \in StopPcs /\ ReplyWithoutGrace(t)[u] = reply[u]
           /\ PcWithoutGrace(t) \in [Tasks -> AllPcs]
           /\ ReplyWithoutGrace(t) \in [Tasks -> Replies]
<1>1. ASSUME NEW u \in Tasks
      PROVE  PcWithoutGrace(t)[u] \in StopPcs /\ ReplyWithoutGrace(t)[u].kind = "ok" =>
               pc[u] \in StopPcs /\ ReplyWithoutGrace(t)[u] = reply[u]
  BY DEF PcWithoutGrace, ReplyWithoutGrace, Failure, StopPcs
<1> QED
  BY <1>1, GraceReplies

LEMMA CarriedStep ==
  ASSUME BindingInv, [Next]_vars, ~(\E t \in Tasks : Serve(t)),
         ~(\E move \in AllMoves : BridgeMove(move))
  PROVE  Carried /\ FenceMoves /\ UNCHANGED <<bGen, bState>>
<1> DEFINE Goal == Carried /\ FenceMoves /\ UNCHANGED <<bGen, bState>>
<1> USE DEF BindingInv, TypeOK, LocalsOK, LoopOK, ReplyOK, locals, bridge, Carried, FenceMoves,
   NoReply, StartPcs, StopPcs, HttpPcs, ViewerOnPcs, ViewerOffPcs, LockPcs, InnerPcs
<1>1. ASSUME NEW t \in Clients, CallAcquire(t) PROVE Goal
  BY <1>1 DEF CallAcquire
<1>2. ASSUME NEW t \in Clients, CallStart(t) PROVE Goal
  BY <1>2 DEF CallStart
<1>3. ASSUME NEW t \in Clients, CallRelease(t) PROVE Goal
  BY <1>3, GraceAnswers DEF CallRelease, Schedule, Left
<1>4. ASSUME NEW t \in Clients, Cancel(t) PROVE Goal
  BY <1>4 DEF Cancel, FailFrom, CancelPcs
<1>5. ASSUME NEW t \in Clients, Admit(t) PROVE Goal
  BY <1>5 DEF Admit
<1>6. ASSUME NEW t \in Clients, Top(t) PROVE Goal
  BY <1>6 DEF Top
<1>7. ASSUME NEW t \in Clients, Gen(t) PROVE Goal
  BY <1>7 DEF Gen, WaitReady
<1>8. ASSUME NEW t \in Clients, Wake(t) PROVE Goal
  BY <1>8 DEF Wake, WaitReady
<1>9. ASSUME NEW t \in Clients, WaitFail(t) PROVE Goal
  BY <1>9 DEF WaitFail
<1>10. ASSUME NEW t \in Clients, Fail(t) PROVE Goal
  BY <1>10 DEF Fail
<1>11. ASSUME NEW t \in Clients, StartGrant(t) PROVE Goal
  <2>1. UNCHANGED <<bGen, bState, fence>>
    BY <1>11 DEF StartGrant
  <2>2. CASE lifecycle' = t
    <3>1. pc' = [PcWithoutGrace(t) EXCEPT ![t] = "start_http"] /\ reply' = ReplyWithoutGrace(t)
          /\ \A u \in Tasks \ {t} : target'[u] = target[u]
      BY <1>11, <2>2 DEF StartGrant, Takes
    <3>2. PcWithoutGrace(t) \in [Tasks -> AllPcs] /\ reply'[t] = NoReply
      BY <1>11, <3>1, GraceReplies DEF StartGrant
    <3> QED
      BY <2>1, <3>1, <3>2, GraceAnswers
  <2>3. CASE lifecycle' # t
    BY <1>11, <2>1, <2>3 DEF StartGrant
  <2> QED
    BY <2>2, <2>3
<1>12. ASSUME NEW t \in Clients, StartReply(t) PROVE Goal
  BY <1>12 DEF StartReply, Adopt, StopStarted
<1>13. ASSUME NEW t \in Clients, UndoReply(t) PROVE Goal
  BY <1>13 DEF UndoReply, FailFrom, Acknowledged
<1>14. ASSUME NEW t \in Clients, CancelledStartReply(t) PROVE Goal
  BY <1>14 DEF CancelledStartReply, FailFrom
<1>15. ASSUME NEW t \in Clients, RecoverGrant(t) PROVE Goal
  BY <1>15 DEF RecoverGrant
<1>16. ASSUME NEW t \in Clients, RecoverStopped(t) PROVE Goal
  BY <1>16 DEF RecoverStopped, FailFrom, Acknowledged
<1>17. ASSUME NEW t \in Clients, RestartReply(t) PROVE Goal
  BY <1>17 DEF RestartReply, Adopt, StopStarted
<1>18. ASSUME NEW t \in Clients, ProvisionalGrant(t) PROVE Goal
  BY <1>18 DEF ProvisionalGrant, Grant, Retry
<1>19. ASSUME NEW t \in Clients, RegisterGrant(t) PROVE Goal
  BY <1>19 DEF RegisterGrant, Grant, Retry
<1>20. ASSUME NEW t \in Clients, ViewerOnReply(t) PROVE Goal
  BY <1>20 DEF ViewerOnReply, Grant
<1>21. ASSUME NEW t \in Clients, RollOffReply(t) PROVE Goal
  BY <1>21 DEF RollOffReply
<1>22. ASSUME NEW t \in Clients, RegisterUndone(t) PROVE Goal
  BY <1>22 DEF RegisterUndone, Retry, Acknowledged
<1>23. ASSUME NEW t \in Clients, CleanStart(t) PROVE Goal
  BY <1>23 DEF CleanStart
<1>24. ASSUME NEW t \in Clients, CleanGrant(t) PROVE Goal
  BY <1>24 DEF CleanGrant
<1>25. ASSUME NEW t \in Clients, CleanReply(t) PROVE Goal
  BY <1>25 DEF CleanReply, Acknowledged
<1>26. ASSUME NEW t \in Clients, ReleaseGrant(t) PROVE Goal
  BY <1>26 DEF ReleaseGrant
<1>27. ASSUME NEW t \in Clients, ViewerOffReply(t) PROVE Goal
  BY <1>27 DEF ViewerOffReply, Schedule
<1>28. ASSUME NEW s \in Stoppers, CallStop(s) PROVE Goal
  BY <1>28 DEF CallStop
<1>29. ASSUME NEW s \in Graces, GraceExpires(s) PROVE Goal
  BY <1>29 DEF GraceExpires
<1>30. ASSUME NEW s \in Stoppers \cup Graces, StopGrant(s) PROVE Goal
  <2>1. UNCHANGED <<bGen, bState, fence>>
    BY <1>30 DEF StopGrant
  <2>2. CASE lifecycle' = s
    <3>1. pc' = [PcWithoutGrace(s) EXCEPT ![s] = "stop_http"] /\ reply' = ReplyWithoutGrace(s)
          /\ \A u \in Tasks \ {s} : target'[u] = target[u]
      BY <1>30, <2>2 DEF StopGrant, StopEnds, Takes
    <3>2. PcWithoutGrace(s) \in [Tasks -> AllPcs] /\ reply'[s] = NoReply
      BY <1>30, <3>1, GraceReplies DEF StopGrant
    <3> QED
      BY <2>1, <3>1, <3>2, GraceAnswers
  <2>3. CASE lifecycle' # s
    BY <1>30, <2>1, <2>3 DEF StopGrant, StopEnds
  <2> QED
    BY <2>2, <2>3
<1>31. ASSUME NEW s \in Stoppers \cup Graces, StopReply(s) PROVE Goal
  BY <1>31 DEF StopReply, StopEnds, Acknowledged
<1>32. ASSUME NEW t \in Tasks, Block(t) PROVE Goal
  BY <1>32 DEF Block, loop
<1>33. ASSUME NEW t \in Tasks, Refuse(t) PROVE Goal
  BY <1>33 DEF Refuse, Failure, loop
<1>34. ASSUME SyncBegin \/ SyncFails \/ EventIgnored PROVE Goal
  BY <1>34 DEF SyncBegin, SyncFails, EventIgnored, loop
<1>35. ASSUME SyncStatus \/ SyncEvent PROVE Goal
  BY <1>35, GraceAnswers DEF SyncStatus, SyncEvent, ApplyStatus
<1>36. ASSUME UNCHANGED vars PROVE Goal
  BY <1>36 DEF vars, loop
<1> QED
  BY <1>1, <1>2, <1>3, <1>4, <1>5, <1>6, <1>7, <1>8, <1>9, <1>10, <1>11, <1>12, <1>13, <1>14,
     <1>15, <1>16, <1>17, <1>18, <1>19, <1>20, <1>21, <1>22, <1>23, <1>24, <1>25, <1>26, <1>27,
     <1>28, <1>29, <1>30, <1>31, <1>32, <1>33, <1>34, <1>35, <1>36
     DEF Next, ClientStep, StopStep, SyncStep

LEMMA ServeFenced ==
  ASSUME BindingInv, FenceInv, NEW t \in Tasks, Serve(t)
  PROVE  FenceInv'
<1> USE DEF BindingInv, TypeOK, BridgeOK, LocalsOK, SyncOK, Past, OverStates
<1>1. \A u \in Tasks \ {t} : pc'[u] \notin StartPcs \cup StopPcs
  BY DEF Serve, LockInv, LockOK, HttpPcs, loop
<1>2. pc'[t] = pc[t] /\ target'[t] = target[t] /\ fence' = fence
  BY DEF Serve, locals
<1>3. PICK answered : \/ ServeStart(t, answered) \/ ServeStop(t, answered)
                      \/ ServeViewer(t, answered)
  BY DEF Serve
<1>4. CASE ServeStart(t, answered)
  <2>1. bState' \in {"starting", "publishing"}
    BY <1>4 DEF ServeStart, bridge
  <2>2. Past(fence)' /\ fence < bGen'
    <3>1. CASE UNCHANGED bridge
      BY <1>2, <2>1, <3>1 DEF bridge, FenceInv
    <3>2. CASE bGen' = bGen + 1
      BY <1>2, <3>2 DEF FenceInv
    <3> QED
      BY <1>4, <3>1, <3>2 DEF ServeStart
  <2>3. reply'[t].kind = "ok" => reply'[t].gen = bGen'
    BY <1>4 DEF ServeStart, Failure, NoReply
  <2>4. pc'[t] \notin StopPcs
    BY <1>2, <1>4 DEF ServeStart, StartPcs, StopPcs
  <2> QED
    BY <1>1, <1>2, <2>2, <2>3, <2>4 DEF FenceInv
<1>5. CASE ServeStop(t, answered)
  <2>1. Past(fence)'
    BY <1>2, <1>5 DEF ServeStop, FenceInv
  <2>2. reply'[t].kind = "ok" => Past(target[t])'
    BY <1>2, <1>5 DEF ServeStop, Failure, Conflict, NoReply
  <2>3. pc'[t] \notin StartPcs
    BY <1>2, <1>5 DEF ServeStop, StartPcs, StopPcs
  <2> QED
    BY <1>1, <1>2, <2>1, <2>2, <2>3 DEF FenceInv
<1>6. CASE ServeViewer(t, answered)
  BY <1>1, <1>2, <1>6 DEF ServeViewer, FenceInv, StartPcs, StopPcs, ViewerOnPcs, ViewerOffPcs
<1> QED
  BY <1>3, <1>4, <1>5, <1>6

LEMMA FencedStep == BindingInv /\ FenceInv /\ [Next]_vars => FenceInv'
<1> SUFFICES ASSUME BindingInv, FenceInv, [Next]_vars PROVE FenceInv'
  OBVIOUS
<1>1. CASE \E t \in Tasks : Serve(t)
  BY <1>1, ServeFenced
<1>2. ASSUME NEW move \in AllMoves, BridgeMove(move) PROVE FenceInv'
  BY <1>2 DEF BridgeMove, FenceInv, Past, OverStates, LiveStates, loop, locals
<1>3. CASE Carried /\ FenceMoves /\ UNCHANGED <<bGen, bState>>
  <2>1. CASE UNCHANGED fence
    BY <1>3, <2>1 DEF Carried, FenceInv, Past
  <2>2. ASSUME NEW t \in Tasks, pc[t] \in StopPcs, reply[t].kind = "ok", fence' = target[t]
        PROVE  FenceInv'
    <3>1. \A u \in Tasks : pc[u] \notin StartPcs
      BY <2>2 DEF BindingInv, LockInv, LockOK, HttpPcs, StartPcs, StopPcs
    <3> QED
      BY <1>3, <2>2, <3>1 DEF Carried, FenceInv, Past
  <2> QED
    BY <1>3, <2>1, <2>2 DEF FenceMoves
<1> QED
  BY <1>1, <1>2, <1>3, CarriedStep

LEMMA AdoptFenced ==
  ASSUME BindingInv, FenceInv, NEW t \in Clients, pc[t] \in StartPcs, reply[t].kind = "ok",
         NEW adoptable, NEW keep, Adopt(t, reply[t], adoptable, keep)
  PROVE  generation' \in {generation, reply[t].gen} /\ reply[t].gen # fence
  BY DEF FenceInv, Adopt, SetResponse, owner

LEMMA RowFenced ==
  ASSUME SyncStatus \/ SyncEvent, generation' \notin {0, generation}, generation' = fence
  PROVE  running = Sync /\ sync.event.event \in ProgressEvents
<1>1. ASSUME NEW m, ApplyStatus(m) PROVE ~Ends(m) /\ generation' = m.gen
  BY <1>1 DEF ApplyStatus, DropGeneration, SetResponse
<1>2. CASE SyncStatus
  <2>1. SyncRow.gen # fence \/ SyncRow.gen = 0
    BY DEF SyncRow
  <2> QED
    BY <1>1, <1>2, <2>1 DEF SyncStatus, owner
<1>3. CASE SyncEvent
  <2>1. ~Ends(Message(sync.event))
    BY <1>1, <1>3 DEF SyncEvent, owner
  <2> QED
    BY <1>3, <2>1 DEF SyncEvent, Message, Ends, ProgressEvents
<1> QED
  BY <1>2, <1>3

LEMMA ReadoptStep ==
  ASSUME BindingInv, FenceInv, [Next]_vars, generation' \notin {0, generation},
         generation' = fence
  PROVE  running = Sync /\ sync.event.event \in ProgressEvents
<1> DEFINE ByEvent == running = Sync /\ sync.event.event \in ProgressEvents
<1> USE DEF owner
<1>1. ASSUME NEW t \in Clients, CallAcquire(t) PROVE ByEvent
  BY <1>1 DEF CallAcquire
<1>2. ASSUME NEW t \in Clients, CallStart(t) PROVE ByEvent
  BY <1>2 DEF CallStart
<1>3. ASSUME NEW t \in Clients, CallRelease(t) PROVE ByEvent
  BY <1>3 DEF CallRelease
<1>4. ASSUME NEW t \in Clients, Cancel(t) PROVE ByEvent
  BY <1>4 DEF Cancel, FailFrom
<1>5. ASSUME NEW t \in Clients, Admit(t) PROVE ByEvent
  BY <1>5 DEF Admit
<1>6. ASSUME NEW t \in Clients, Top(t) PROVE ByEvent
  BY <1>6 DEF Top
<1>7. ASSUME NEW t \in Clients, Gen(t) PROVE ByEvent
  BY <1>7 DEF Gen
<1>8. ASSUME NEW t \in Clients, Wake(t) PROVE ByEvent
  BY <1>8 DEF Wake
<1>9. ASSUME NEW t \in Clients, WaitFail(t) PROVE ByEvent
  BY <1>9 DEF WaitFail
<1>10. ASSUME NEW t \in Clients, Fail(t) PROVE ByEvent
  BY <1>10 DEF Fail
<1>11. ASSUME NEW t \in Clients, StartGrant(t) PROVE ByEvent
  BY <1>11 DEF StartGrant
<1>12. ASSUME NEW t \in Clients, StartReply(t) PROVE ByEvent
  <2>1. PICK adoptable, keep :
          UNCHANGED generation \/ (reply[t].kind = "ok" /\ Adopt(t, reply[t], adoptable, keep))
    BY <1>12 DEF StartReply
  <2> QED
    BY <1>12, <2>1, AdoptFenced DEF StartReply, StartPcs
<1>13. ASSUME NEW t \in Clients, UndoReply(t) PROVE ByEvent
  BY <1>13 DEF UndoReply, FailFrom
<1>14. ASSUME NEW t \in Clients, CancelledStartReply(t) PROVE ByEvent
  BY <1>14 DEF CancelledStartReply, FailFrom
<1>15. ASSUME NEW t \in Clients, RecoverGrant(t) PROVE ByEvent
  BY <1>15 DEF RecoverGrant
<1>16. ASSUME NEW t \in Clients, RecoverStopped(t) PROVE ByEvent
  BY <1>16 DEF RecoverStopped, FailFrom, DropGeneration
<1>17. ASSUME NEW t \in Clients, RestartReply(t) PROVE ByEvent
  <2>1. PICK adoptable, keep :
          UNCHANGED generation \/ (reply[t].kind = "ok" /\ Adopt(t, reply[t], adoptable, keep))
    BY <1>17 DEF RestartReply
  <2> QED
    BY <1>17, <2>1, AdoptFenced DEF RestartReply, StartPcs
<1>18. ASSUME NEW t \in Clients, ProvisionalGrant(t) PROVE ByEvent
  BY <1>18 DEF ProvisionalGrant
<1>19. ASSUME NEW t \in Clients, RegisterGrant(t) PROVE ByEvent
  BY <1>19 DEF RegisterGrant
<1>20. ASSUME NEW t \in Clients, ViewerOnReply(t) PROVE ByEvent
  BY <1>20 DEF ViewerOnReply
<1>21. ASSUME NEW t \in Clients, RollOffReply(t) PROVE ByEvent
  BY <1>21 DEF RollOffReply
<1>22. ASSUME NEW t \in Clients, RegisterUndone(t) PROVE ByEvent
  BY <1>22 DEF RegisterUndone, DropGeneration
<1>23. ASSUME NEW t \in Clients, CleanStart(t) PROVE ByEvent
  BY <1>23 DEF CleanStart
<1>24. ASSUME NEW t \in Clients, CleanGrant(t) PROVE ByEvent
  BY <1>24 DEF CleanGrant
<1>25. ASSUME NEW t \in Clients, CleanReply(t) PROVE ByEvent
  BY <1>25 DEF CleanReply
<1>26. ASSUME NEW t \in Clients, ReleaseGrant(t) PROVE ByEvent
  BY <1>26 DEF ReleaseGrant
<1>27. ASSUME NEW t \in Clients, ViewerOffReply(t) PROVE ByEvent
  BY <1>27 DEF ViewerOffReply
<1>28. ASSUME NEW s \in Stoppers, CallStop(s) PROVE ByEvent
  BY <1>28 DEF CallStop
<1>29. ASSUME NEW s \in Graces, GraceExpires(s) PROVE ByEvent
  BY <1>29 DEF GraceExpires
<1>30. ASSUME NEW s \in Stoppers \cup Graces, StopGrant(s) PROVE ByEvent
  BY <1>30 DEF StopGrant, DropGeneration
<1>31. ASSUME NEW s \in Stoppers \cup Graces, StopReply(s) PROVE ByEvent
  BY <1>31 DEF StopReply, DropGeneration
<1>32. ASSUME NEW t \in Tasks, Block(t) PROVE ByEvent
  BY <1>32 DEF Block
<1>33. ASSUME NEW t \in Tasks, Refuse(t) PROVE ByEvent
  BY <1>33 DEF Refuse
<1>34. ASSUME SyncBegin \/ SyncFails \/ EventIgnored PROVE ByEvent
  BY <1>34 DEF SyncBegin, SyncFails, EventIgnored
<1>35. ASSUME SyncStatus \/ SyncEvent PROVE ByEvent
  BY <1>35, RowFenced
<1>36. ASSUME UNCHANGED vars PROVE ByEvent
  BY <1>36 DEF vars
<1>37. ASSUME NEW t \in Tasks, Serve(t) PROVE ByEvent
  BY <1>37 DEF Serve
<1>38. ASSUME NEW move \in AllMoves, BridgeMove(move) PROVE ByEvent
  BY <1>38 DEF BridgeMove
<1> QED
  BY <1>1, <1>2, <1>3, <1>4, <1>5, <1>6, <1>7, <1>8, <1>9, <1>10, <1>11, <1>12, <1>13, <1>14,
     <1>15, <1>16, <1>17, <1>18, <1>19, <1>20, <1>21, <1>22, <1>23, <1>24, <1>25, <1>26, <1>27,
     <1>28, <1>29, <1>30, <1>31, <1>32, <1>33, <1>34, <1>35, <1>36, <1>37, <1>38
     DEF Next, ClientStep, StopStep, SyncStep

\* A poll, a request and a reply that was under way never take up a preview whose stop the
\* bridge acknowledged, for any number of callers and of stops under way; only a relay event
\* of its progress does (OnlyEventsReadopt).
THEOREM ReadoptedByEventsOnly == Spec => OnlyEventsReadopt
<1>1. Init => FenceInv
  BY DEF Init, FenceInv, Past, OverStates, StartPcs, StopPcs
<1>2. BindingInv /\ FenceInv /\ [Next]_vars =>
        [generation' \notin {0, generation} /\ generation' = fence =>
           running = Sync /\ sync.event.event \in ProgressEvents]_vars
  BY ReadoptStep
<1> QED
  BY <1>1, <1>2, FencedStep, BindingAlways, PTL DEF Spec, OnlyEventsReadopt
=============================================================================
