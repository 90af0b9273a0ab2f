------------------------- MODULE StationCallsProofs -------------------------
(***************************************************************************)
(* What StationCalls keeps for any number of stations, pollers, controls,  *)
(* unlocks and restarts.                                                   *)
(***************************************************************************)
EXTENDS StationCalls, TLAPS

-----------------------------------------------------------------------------
(* The inductive invariant                                                 *)

\* A function with the given domain.
Has(f, domain) == f = [n \in domain |-> f[n]]

Row == [request : Nat, phase : Nat]

IsObservation(s) ==
  /\ Has(s, {"runtime", "operation", "native", "last", "unlock", "asked"})
  /\ s.runtime \in Nat /\ s.last \in Nat
  /\ s.unlock \in [Stations -> Row] /\ s.asked \in [Stations -> Nat]

IsMonitor(m) == Has(m, {"runtime", "epoch", "state", "operation", "native", "accepted"})

IsPoll(l) ==
  /\ Has(l, {"pc", "epochs", "unlocks", "acceptances", "seen", "todo"})
  /\ l.pc \in {"asked", "served"} => l.acceptances \in [Stations -> Nat]
  /\ l.pc \in {"asked", "served", "syncing", "applying"} => l.epochs \in [Stations -> Nat]
  /\ l.pc \in {"served", "syncing", "applying"} => IsObservation(l.seen)

IsUnlock(l) ==
  /\ Has(l, {"pc", "station", "runtime", "epoch", "row"})
  /\ l.pc # "idle" => l.station \in Stations /\ l.runtime \in Nat
  /\ l.pc = "answered" => l.row \in Row

IsFetch(f) == Has(f, {"pc", "runtime", "generation", "etag", "reply", "frame"})


ObsShapes == IsObservation(bridge) /\ IsObservation(status)
EpochShapes == {controlEpochs, statusEpochs, acceptances} \subseteq [Stations -> Nat]
MonShapes == Has(mon, Stations) /\ \A x \in Stations : IsMonitor(mon[x])
PollShapes == Has(poll, Pollers) /\ \A p \in Pollers : IsPoll(poll[p])
UnlockShapes == Has(unlock, Unlocks) /\ \A u \in Unlocks : IsUnlock(unlock[u])
FetchShape == IsFetch(fetch)
Shapes == ObsShapes /\ EpochShapes /\ MonShapes /\ PollShapes /\ UnlockShapes /\ FetchShape

\* An observation carries the requests that had begun when it was asked for at the latest.
PollEpochs(l) ==
  \A x \in Stations :
    /\ l.pc = "asked" => l.epochs[x] <= controlEpochs[x]
    /\ l.pc \in {"served", "syncing", "applying"} =>
         l.epochs[x] <= l.seen.asked[x] /\ l.seen.asked[x] <= controlEpochs[x]
Epochs ==
  /\ \A x \in Stations : mon[x].epoch = controlEpochs[x]
  /\ \A x \in Stations : statusEpochs[x] <= status.asked[x] /\ status.asked[x] <= controlEpochs[x]
  /\ \A p \in Pollers : PollEpochs(poll[p])

\* Nothing is ahead of the runtime of the bridge.
Runtimes ==
  /\ status.runtime <= bridge.runtime
  /\ \A p \in Pollers : poll[p].pc = "served" => poll[p].seen.runtime <= bridge.runtime
  /\ \A u \in Unlocks : unlock[u].pc # "idle" => unlock[u].runtime <= bridge.runtime
  /\ fetch.pc # "idle" => fetch.runtime \in Nat /\ fetch.runtime <= bridge.runtime
  /\ fetch.pc = "answered" =>
       fetch.frame.generation = fetch.generation /\ fetch.frame.runtime >= fetch.runtime

\* A record that was published, observed or answered is one that the bridge has, and the newest
\* refresh has seen it unless it was accepted since.
Known(runtime, rows) ==
  runtime = bridge.runtime => \A x \in Stations : rows[x] # NoRow => bridge.unlock[x] # NoRow
UnlockRecords(l) ==
  l.pc = "answered" =>
    l.row # NoRow /\ (l.runtime = bridge.runtime => bridge.unlock[l.station] # NoRow)
PollRecords(p) ==
  /\ poll[p].pc \in {"asked", "served"} =>
       \A x \in Stations : poll[p].acceptances[x] <= acceptances[x]
  /\ poll[p].pc = "served" => Known(poll[p].seen.runtime, poll[p].seen.unlock)
  /\ newest = p /\ poll[p].pc = "served" /\ poll[p].seen.runtime = status.runtime =>
       \A x \in Stations :
         poll[p].acceptances[x] = acceptances[x] /\ status.unlock[x] # NoRow
           => poll[p].seen.unlock[x] # NoRow
Records ==
  /\ Known(status.runtime, status.unlock)
  /\ \A u \in Unlocks : UnlockRecords(unlock[u])
  /\ \A p \in Pollers : PollRecords(p)

IInv == Shapes /\ Epochs /\ Runtimes /\ Records /\ FrameOfCall

-----------------------------------------------------------------------------
(* What the helpers return                                                 *)

LEMMA BridgeMoves ==
  ASSUME IsObservation(bridge), Advance
  PROVE  /\ IsObservation(bridge')
         /\ bridge'.runtime = bridge.runtime /\ bridge'.last = bridge.last
         /\ bridge'.unlock = bridge.unlock /\ bridge'.asked = bridge.asked
<1>1. PICK o, n : bridge' = [bridge EXCEPT !.operation = o, !.native = n]
  BY DEF Advance
<1> QED
  BY <1>1 DEF IsObservation, Has

LEMMA FencedRecords ==
  ASSUME NEW reply, IsObservation(reply), ObsShapes, NEW accepted
  PROVE  LET f == Fenced(reply, accepted)
         IN /\ IsObservation(f)
            /\ f.runtime = reply.runtime /\ f.asked = reply.asked
            /\ f.native = reply.native /\ f.operation = reply.operation
            /\ reply.runtime # status.runtime => f.unlock = reply.unlock
            /\ reply.runtime = status.runtime =>
                 \A x \in Stations :
                   f.unlock[x] = IF \/ reply.unlock[x] = NoRow /\ x \in accepted
                                    \/ reply.unlock[x] # NoRow /\ Newer(status.unlock[x], reply.unlock[x])
                                 THEN status.unlock[x] ELSE reply.unlock[x]
<1>1. CASE reply.runtime # status.runtime
  BY <1>1 DEF Fenced
<1>2. CASE reply.runtime = status.runtime
  <2> DEFINE Kept(x) == \/ reply.unlock[x] = NoRow /\ x \in accepted
                        \/ reply.unlock[x] # NoRow /\ Newer(status.unlock[x], reply.unlock[x])
             rows == [x \in Stations |-> IF Kept(x) THEN status.unlock[x] ELSE reply.unlock[x]]
             f == [reply EXCEPT !.unlock = rows]
  <2>1. Fenced(reply, accepted) = f
    BY <1>2 DEF Fenced
  <2>2. rows \in [Stations -> Row]
    BY DEF ObsShapes, IsObservation
  <2> HIDE DEF Kept
  <2>3. \A x \in Stations : rows[x] = IF Kept(x) THEN status.unlock[x] ELSE reply.unlock[x]
    OBVIOUS
  <2> HIDE DEF rows
  <2>4. /\ IsObservation(f) /\ f.unlock = rows
        /\ f.runtime = reply.runtime /\ f.asked = reply.asked
        /\ f.native = reply.native /\ f.operation = reply.operation
    BY <2>2 DEF IsObservation, Has
  <2> QED
    BY <1>2, <2>1, <2>3, <2>4 DEF Kept
<1> QED
  BY <1>1, <1>2

LEMMA MonitorKept ==
  ASSUME NEW m, IsMonitor(m), NEW o, NEW st, NEW n, NEW a
  PROVE  LET over == [m EXCEPT !.operation = o, !.state = st, !.native = n, !.accepted = a]
         IN IsMonitor(over) /\ over.epoch = m.epoch
  BY DEF IsMonitor, Has

LEMMA ShownMonitor ==
  ASSUME NEW m, IsMonitor(m), NEW x, NEW s
  PROVE  IsMonitor(Shown(m, x, s)) /\ Shown(m, x, s).epoch = m.epoch
  BY DEF Shown, IsMonitor, Has

\* Only the call state of a coordinator changes, at most.
Kept(monitors) ==
  /\ Has(monitors, Stations)
  /\ \A x \in Stations : IsMonitor(monitors[x]) /\ monitors[x].epoch = mon[x].epoch

LEMMA OneKept ==
  ASSUME MonShapes, NEW x, NEW m, x \in Stations => IsMonitor(m) /\ m.epoch = mon[x].epoch
  PROVE  Kept([mon EXCEPT ![x] = m])
<1> DEFINE monitors == [mon EXCEPT ![x] = m]
<1>1. Has(monitors, Stations)
  BY DEF MonShapes, Has
<1>2. ASSUME NEW y \in Stations PROVE IsMonitor(monitors[y]) /\ monitors[y].epoch = mon[y].epoch
  <2>1. monitors[y] = IF y = x THEN m ELSE mon[y]
    BY DEF MonShapes, Has
  <2> QED
    BY <2>1 DEF MonShapes
<1> QED
  BY <1>1, <1>2 DEF Kept

LEMMA HungUpMonitors ==
  ASSUME MonShapes, NEW c
  PROVE  Kept(HungUp(c))
<1> DEFINE x == control[c].station
           m == mon[x]
<1>1. CASE Replaced(c)
  BY <1>1 DEF HungUp, Kept, MonShapes
<1>2. CASE ~Replaced(c)
  <2>1. PICK st, o : HungUp(c) = [mon EXCEPT ![x] = [m EXCEPT !.state = st, !.operation = o]]
    BY <1>2 DEF HungUp
  <2> DEFINE over == [m EXCEPT !.state = st, !.operation = o]
  <2>2. x \in Stations => IsMonitor(m)
    BY DEF MonShapes
  <2>3. x \in Stations => IsMonitor(over) /\ over.epoch = m.epoch
    <3> HIDE DEF m
    <3> QED
      BY <2>2 DEF IsMonitor, Has
  <2> HIDE DEF over
  <2>4. Kept([mon EXCEPT ![x] = over])
    <3> HIDE DEF x
    <3> QED
      BY <2>3, OneKept
  <2> QED
    BY <2>1, <2>4 DEF over
<1> QED
  BY <1>1, <1>2

-----------------------------------------------------------------------------
(* It holds at first and every step keeps it                               *)

LEMMA IInit == Init => IInv
<1> SUFFICES ASSUME Init PROVE IInv
  OBVIOUS
<1>1. NoRow \in Row
  BY DEF NoRow, Row
<1>2. ObsShapes /\ EpochShapes
  BY <1>1 DEF Init, ObsShapes, EpochShapes, IsObservation, Has, Boot
<1>3. MonShapes
  BY DEF Init, MonShapes, IsMonitor, Has, NewMonitor
<1>4. PollShapes
  BY DEF Init, PollShapes, IsPoll, Has, NoLocals
<1>5. UnlockShapes /\ FetchShape
  BY DEF Init, UnlockShapes, FetchShape, IsUnlock, IsFetch, Has, NoUnlock, NoFetch
<1>6. Epochs
  BY DEF Init, Epochs, PollEpochs, Boot, NewMonitor, NoLocals
<1>7. Runtimes
  BY DEF Init, Runtimes, Boot, NoLocals, NoUnlock, NoFetch
<1>8. Records
  BY DEF Init, Records, Known, UnlockRecords, PollRecords, Boot, NoLocals, NoUnlock
<1> QED
  BY <1>2, <1>3, <1>4, <1>5, <1>6, <1>7, <1>8 DEF IInv, Shapes, Init, FrameOfCall

LEMMA AdvanceKeeps ==
  ASSUME IInv, Advance
  PROVE  IInv'
<1> USE DEF IInv, Shapes
<1>1. (EpochShapes /\ MonShapes /\ PollShapes /\ UnlockShapes /\ FetchShape /\ Epochs /\ FrameOfCall)'
  BY DEF Advance, EpochShapes, MonShapes, PollShapes, UnlockShapes, FetchShape, Epochs, PollEpochs,
         FrameOfCall, epochs, video
<1>b. /\ IsObservation(bridge') /\ bridge'.runtime = bridge.runtime /\ bridge'.unlock = bridge.unlock
      /\ UNCHANGED <<status, poll, unlock, acceptances, newest, fetch>>
  BY BridgeMoves DEF ObsShapes, Advance, epochs, video
<1>2. ObsShapes'
  BY <1>b DEF ObsShapes
<1>3. Runtimes'
  BY <1>b DEF Runtimes
<1>4. Records'
  BY <1>b DEF Records, Known, UnlockRecords, PollRecords
<1> QED
  BY <1>1, <1>2, <1>3, <1>4

LEMMA RestartKeeps ==
  ASSUME IInv, Restart
  PROVE  IInv'
<1> USE DEF IInv, Shapes
<1>1. (EpochShapes /\ MonShapes /\ PollShapes /\ UnlockShapes /\ FetchShape /\ Epochs /\ FrameOfCall)'
  BY DEF Restart, EpochShapes, MonShapes, PollShapes, UnlockShapes, FetchShape, Epochs, PollEpochs,
         FrameOfCall, epochs, video
<1>b. /\ bridge' = Boot(bridge.runtime + 1) /\ bridge'.runtime = bridge.runtime + 1
      /\ bridge.runtime \in Nat /\ status.runtime \in Nat
      /\ UNCHANGED <<status, poll, unlock, acceptances, newest, fetch>>
  BY DEF Restart, Boot, epochs, video, ObsShapes, IsObservation
<1>2. ObsShapes'
  <2>1. NoRow \in Row
    BY DEF NoRow, Row
  <2>2. IsObservation(bridge')
    BY <1>b, <2>1 DEF Boot, IsObservation, Has
  <2> QED
    BY <1>b, <2>2 DEF ObsShapes
<1>3. Runtimes'
  <2>1. \A p \in Pollers : poll[p].pc = "served" => poll[p].seen.runtime \in Nat
    BY DEF PollShapes, IsPoll, IsObservation
  <2>2. \A u \in Unlocks : unlock[u].pc # "idle" => unlock[u].runtime \in Nat
    BY DEF UnlockShapes, IsUnlock
  <2> QED
    BY <1>b, <2>1, <2>2 DEF Runtimes
<1>4. Records'
  <2>1. \A p \in Pollers : poll[p].pc = "served" => poll[p].seen.runtime \in Nat
    BY DEF PollShapes, IsPoll, IsObservation
  <2>2. \A u \in Unlocks : unlock[u].pc # "idle" => unlock[u].runtime \in Nat
    BY DEF UnlockShapes, IsUnlock
  <2> QED
    BY <1>b, <2>1, <2>2 DEF Records, Known, UnlockRecords, PollRecords, Runtimes
<1> QED
  BY <1>1, <1>2, <1>3, <1>4

LEMMA AdvanceUnlockKeeps ==
  ASSUME IInv, NEW x \in Stations, AdvanceUnlock(x)
  PROVE  IInv'
<1> USE DEF IInv, Shapes
<1>1. (EpochShapes /\ MonShapes /\ PollShapes /\ UnlockShapes /\ FetchShape /\ Epochs /\ FrameOfCall)'
  BY DEF AdvanceUnlock, EpochShapes, MonShapes, PollShapes, UnlockShapes, FetchShape, Epochs,
         PollEpochs, FrameOfCall, epochs, video
<1> DEFINE row == [bridge.unlock[x] EXCEPT !.phase = @ + 1]
<1>b. /\ bridge' = [bridge EXCEPT !.unlock = [bridge.unlock EXCEPT ![x] = row]]
      /\ bridge.unlock[x] \in Row /\ bridge.unlock[x].request # 0
      /\ UNCHANGED <<status, poll, unlock, acceptances, newest, fetch>>
  BY DEF AdvanceUnlock, epochs, video, ObsShapes, IsObservation, Has
<1>r. row \in Row /\ row # NoRow
  BY <1>b DEF Row, NoRow
<1> HIDE DEF row
<1>s. /\ bridge'.runtime = bridge.runtime
      /\ \A y \in Stations : bridge'.unlock[y] = IF y = x THEN row ELSE bridge.unlock[y]
  BY <1>b DEF ObsShapes, IsObservation, Has
<1>2. ObsShapes'
  BY <1>b, <1>r DEF ObsShapes, IsObservation, Has
<1>3. Runtimes'
  BY DEF AdvanceUnlock, Runtimes, epochs, video
<1>4. Records'
  BY <1>b, <1>r, <1>s DEF Records, Known, UnlockRecords, PollRecords
<1> QED
  BY <1>1, <1>2, <1>3, <1>4

LEMMA ReplaceMonitorKeeps ==
  ASSUME IInv, NEW x \in Stations, ReplaceMonitor(x)
  PROVE  IInv'
<1> USE DEF IInv, Shapes
<1>1. (ObsShapes /\ EpochShapes /\ PollShapes /\ UnlockShapes /\ FetchShape /\ Runtimes /\ Records /\ FrameOfCall)'
  BY DEF ReplaceMonitor, ObsShapes, EpochShapes, PollShapes, UnlockShapes, FetchShape, Runtimes,
         Records, Known, UnlockRecords, PollRecords, FrameOfCall, epochs, video
<1>2. MonShapes'
  BY DEF ReplaceMonitor, NewMonitor, MonShapes, IsMonitor, Has, epochs, video
<1>3. Epochs'
  BY DEF ReplaceMonitor, NewMonitor, Epochs, PollEpochs, epochs, video
<1> QED
  BY <1>1, <1>2, <1>3

LEMMA BeginRefreshKeeps ==
  ASSUME IInv, NEW p \in Pollers, BeginRefresh(p)
  PROVE  IInv'
<1> USE DEF IInv, Shapes
<1>1. (ObsShapes /\ EpochShapes /\ MonShapes /\ UnlockShapes /\ FetchShape /\ FrameOfCall)'
  BY DEF BeginRefresh, ObsShapes, EpochShapes, MonShapes, UnlockShapes, FetchShape, FrameOfCall,
         epochs, video
<1>b. /\ Has(poll', Pollers) /\ \A q \in Pollers : q # p => poll'[q] = poll[q]
      /\ poll'[p] = [NoLocals EXCEPT !.pc = "asked", !.epochs = controlEpochs,
                                     !.unlocks = unlockEpochs, !.acceptances = acceptances]
      /\ newest' = p
      /\ UNCHANGED <<status, statusEpochs, controlEpochs, acceptances, bridge, mon, unlock, fetch>>
  BY DEF BeginRefresh, PollShapes, Has, epochs, video
<1>l. /\ Has(poll'[p], {"pc", "epochs", "unlocks", "acceptances", "seen", "todo"})
      /\ poll'[p].pc = "asked" /\ poll'[p].epochs = controlEpochs /\ poll'[p].acceptances = acceptances
  BY <1>b DEF NoLocals, Has
<1>2. PollShapes'
  BY <1>b, <1>l DEF PollShapes, IsPoll, EpochShapes
<1>3. Epochs'
  <2>1. PollEpochs(poll[p])'
    BY <1>b, <1>l DEF Epochs, PollEpochs, EpochShapes
  <2>2. ASSUME NEW q \in Pollers, q # p PROVE PollEpochs(poll[q])'
    BY <1>b, <1>l, <2>2 DEF Epochs, PollEpochs
  <2> QED
    BY <1>b, <1>l, <2>1, <2>2 DEF Epochs
<1>4. Runtimes'
  BY <1>b, <1>l DEF Runtimes
<1>5. Records'
  <2>1. PollRecords(p)'
    BY <1>b, <1>l DEF Records, PollRecords, Known, EpochShapes
  <2>2. ASSUME NEW q \in Pollers, q # p PROVE PollRecords(q)'
    BY <1>b, <1>l, <2>2 DEF Records, PollRecords, Known
  <2> QED
    BY <1>b, <1>l, <2>1, <2>2 DEF Records, Known, UnlockRecords
<1> QED
  BY <1>1, <1>2, <1>3, <1>4, <1>5

LEMMA ServeStatusKeeps ==
  ASSUME IInv, NEW p \in Pollers, ServeStatus(p)
  PROVE  IInv'
<1> USE DEF IInv, Shapes
<1>1. (ObsShapes /\ EpochShapes /\ MonShapes /\ UnlockShapes /\ FetchShape /\ FrameOfCall)'
  BY DEF ServeStatus, ObsShapes, EpochShapes, MonShapes, UnlockShapes, FetchShape, FrameOfCall,
         epochs, video
<1>o. IsObservation(Observation) /\ Observation.asked = controlEpochs
      /\ Observation.runtime = bridge.runtime /\ Observation.unlock = bridge.unlock
  BY DEF Observation, ObsShapes, EpochShapes, IsObservation, Has
<1>b. /\ poll[p].pc = "asked" /\ IsPoll(poll[p])
      /\ Has(poll', Pollers) /\ \A q \in Pollers : q # p => poll'[q] = poll[q]
      /\ poll'[p] = [poll[p] EXCEPT !.pc = "served", !.seen = Observation]
      /\ UNCHANGED <<status, statusEpochs, controlEpochs, acceptances, newest, bridge, mon, unlock, fetch>>
  BY DEF ServeStatus, PollShapes, Has, epochs, video
<1>l. /\ Has(poll'[p], {"pc", "epochs", "unlocks", "acceptances", "seen", "todo"})
      /\ poll'[p].pc = "served" /\ poll'[p].seen = Observation
      /\ poll'[p].epochs = poll[p].epochs /\ poll'[p].acceptances = poll[p].acceptances
  BY <1>b DEF IsPoll, Has
<1> HIDE DEF IInv
<1>2. PollShapes'
  BY <1>o, <1>b, <1>l DEF IInv, PollShapes, IsPoll
<1>3. Epochs'
  <2>1. PollEpochs(poll[p])'
    BY <1>o, <1>b, <1>l DEF IInv, Epochs, PollEpochs, EpochShapes
  <2>2. ASSUME NEW q \in Pollers, q # p PROVE PollEpochs(poll[q])'
    BY <1>o, <1>b, <1>l, <2>2 DEF IInv, Epochs, PollEpochs
  <2> QED
    BY <1>o, <1>b, <1>l, <2>1, <2>2 DEF IInv, Epochs
<1>4. Runtimes'
  <2>1. bridge.runtime \in Nat
    BY DEF IInv, ObsShapes, IsObservation
  <2>2. poll'[p].seen.runtime <= bridge'.runtime
    BY <1>o, <1>b, <1>l, <2>1
  <2> QED
    BY <1>b, <2>2 DEF IInv, Runtimes
<1>5. Records'
  <2>1. PollRecords(p)'
    BY <1>o, <1>b, <1>l DEF IInv, Records, PollRecords, Known, EpochShapes
  <2>2. ASSUME NEW q \in Pollers, q # p PROVE PollRecords(q)'
    BY <1>o, <1>b, <1>l, <2>2 DEF IInv, Records, PollRecords, Known
  <2> QED
    BY <1>o, <1>b, <1>l, <2>1, <2>2 DEF IInv, Records, Known, UnlockRecords
<1> QED
  BY <1>1, <1>2, <1>3, <1>4, <1>5 DEF IInv, Shapes

LEMMA EndRefreshKeeps ==
  ASSUME IInv, NEW p \in Pollers, EndRefresh(p)
  PROVE  IInv'
<1> USE DEF IInv, Shapes
<1>1. (MonShapes /\ UnlockShapes /\ FetchShape)'
  BY DEF EndRefresh, MonShapes, UnlockShapes, FetchShape, video
<1> DEFINE seen == poll[p].seen
           accepted == {x \in Stations : acceptances[x] # poll[p].acceptances[x]}
           reply == Fenced(seen, accepted)
           ready == [NoLocals EXCEPT !.pc = "ready"]
<1>b. /\ Has(poll', Pollers) /\ \A q \in Pollers : q # p => poll'[q] = poll[q]
      /\ IsPoll(poll[p]) /\ poll[p].pc = "served" /\ poll'[p] = ready
      /\ UNCHANGED <<controlEpochs, acceptances, newest, bridge, mon, unlock, fetch>>
      /\ \/ UNCHANGED <<status, statusEpochs, cache>>
         \/ /\ newest = p
            /\ status' = reply /\ statusEpochs' = poll[p].epochs /\ cache' = CacheAfter(reply)
  BY DEF EndRefresh, Superseded, PollShapes, Has, epochs, video
<1>l. Has(ready, {"pc", "epochs", "unlocks", "acceptances", "seen", "todo"}) /\ ready.pc = "ready"
  BY DEF NoLocals, Has
<1>o. IsObservation(seen)
  BY <1>b DEF IsPoll
<1>f. /\ IsObservation(reply) /\ reply.runtime = seen.runtime /\ reply.asked = seen.asked
      /\ reply.native = seen.native
      /\ \A x \in Stations :
           \/ reply.unlock[x] = seen.unlock[x]
           \/ reply.runtime = status.runtime /\ reply.unlock[x] = status.unlock[x]
  <2> HIDE DEF seen, accepted
  <2>1. ObsShapes
    OBVIOUS
  <2> HIDE DEF IInv
  <2>2. /\ IsObservation(reply) /\ reply.runtime = seen.runtime /\ reply.asked = seen.asked
        /\ reply.native = seen.native
    BY <1>o, <2>1, FencedRecords
  <2>3. reply.runtime # status.runtime => reply.unlock = seen.unlock
    BY <1>o, <2>1, FencedRecords
  <2>4. reply.runtime = status.runtime =>
          \A x \in Stations : reply.unlock[x] = seen.unlock[x] \/ reply.unlock[x] = status.unlock[x]
    BY <1>o, <2>1, FencedRecords
  <2> HIDE DEF reply
  <2> QED
    BY <2>2, <2>3, <2>4
<1> HIDE DEF reply, ready
<1>2. ObsShapes'
  BY <1>b, <1>f DEF ObsShapes
<1>3. EpochShapes'
  BY <1>b DEF IsPoll, EpochShapes
<1>4. PollShapes'
  BY <1>b, <1>l DEF PollShapes, IsPoll
<1>5. Epochs'
  <2>1. PollEpochs(poll[p])
    BY <1>b DEF Epochs
  <2> QED
    BY <1>b, <1>l, <1>f DEF Epochs, PollEpochs
<1>6. Runtimes'
  BY <1>b, <1>l, <1>f DEF Runtimes
<1>7. Records'
  <2>1. Known(seen.runtime, seen.unlock) /\ Known(status.runtime, status.unlock)
    BY <1>b DEF Records, PollRecords
  <2>2. Known(status.runtime, status.unlock)'
    BY <1>b, <1>f, <2>1 DEF Known
  <2>3. ASSUME NEW q \in Pollers PROVE PollRecords(q)'
    BY <1>b, <1>l DEF Records, PollRecords, Known
  <2> QED
    BY <1>b, <2>2, <2>3 DEF Records, UnlockRecords
<1>8. FrameOfCall'
  <2>1. CASE UNCHANGED <<status, cache>>
    BY <2>1 DEF FrameOfCall
  <2>2. CASE status' = reply /\ cache' = CacheAfter(reply)
    BY <2>2 DEF FrameOfCall, CacheAfter
  <2> QED
    BY <1>b, <2>1, <2>2
<1> QED
  BY <1>1, <1>2, <1>3, <1>4, <1>5, <1>6, <1>7, <1>8 DEF IInv, Shapes

LEMMA BeginSyncKeeps ==
  ASSUME IInv, NEW p \in Pollers, BeginSync(p)
  PROVE  IInv'
<1> USE DEF IInv, Shapes
<1>1. (ObsShapes /\ EpochShapes /\ MonShapes /\ UnlockShapes /\ FetchShape /\ FrameOfCall)'
  BY DEF BeginSync, ObsShapes, EpochShapes, MonShapes, UnlockShapes, FetchShape, FrameOfCall,
         epochs, video
<1>b. /\ Has(poll', Pollers) /\ \A q \in Pollers : q # p => poll'[q] = poll[q]
      /\ IsPoll(poll[p])
      /\ poll'[p] = [poll[p] EXCEPT !.pc = "syncing", !.seen = status, !.epochs = statusEpochs]
      /\ UNCHANGED <<status, statusEpochs, controlEpochs, acceptances, newest, bridge, mon, unlock, fetch>>
  BY DEF BeginSync, PollShapes, Has, epochs, video
<1>l. /\ Has(poll'[p], {"pc", "epochs", "unlocks", "acceptances", "seen", "todo"})
      /\ poll'[p].pc = "syncing" /\ poll'[p].seen = status /\ poll'[p].epochs = statusEpochs
  BY <1>b DEF IsPoll, Has
<1>2. PollShapes'
  BY <1>b, <1>l DEF PollShapes, IsPoll, EpochShapes, ObsShapes
<1>3. Epochs'
  <2>1. PollEpochs(poll[p])'
    BY <1>b, <1>l DEF Epochs, PollEpochs, EpochShapes
  <2>2. ASSUME NEW q \in Pollers, q # p PROVE PollEpochs(poll[q])'
    BY <1>b, <1>l, <2>2 DEF Epochs, PollEpochs
  <2> QED
    BY <1>b, <1>l, <2>1, <2>2 DEF Epochs
<1>4. Runtimes'
  BY <1>b, <1>l DEF Runtimes
<1>5. Records'
  <2>1. PollRecords(p)'
    BY <1>b, <1>l DEF Records, PollRecords, Known, EpochShapes
  <2>2. ASSUME NEW q \in Pollers, q # p PROVE PollRecords(q)'
    BY <1>b, <1>l, <2>2 DEF Records, PollRecords, Known
  <2> QED
    BY <1>b, <1>l, <2>1, <2>2 DEF Records, Known, UnlockRecords
<1> QED
  BY <1>1, <1>2, <1>3, <1>4, <1>5

LEMMA EndMonitorStatusKeeps ==
  ASSUME IInv, NEW p \in Pollers, EndMonitorStatus(p)
  PROVE  IInv'
<1> USE DEF IInv, Shapes
<1>1. (ObsShapes /\ EpochShapes /\ MonShapes /\ UnlockShapes /\ FetchShape /\ FrameOfCall)'
  BY DEF EndMonitorStatus, ObsShapes, EpochShapes, MonShapes, UnlockShapes, FetchShape, FrameOfCall,
         epochs, video
<1>b. /\ Has(poll', Pollers) /\ \A q \in Pollers : q # p => poll'[q] = poll[q]
      /\ IsPoll(poll[p]) /\ poll[p].pc = "syncing"
      /\ \/ poll'[p] = NoLocals
         \/ poll'[p] = [poll[p] EXCEPT !.pc = "applying", !.todo = Stations]
      /\ UNCHANGED <<status, statusEpochs, controlEpochs, acceptances, newest, bridge, mon, unlock, fetch>>
  BY DEF EndMonitorStatus, PollShapes, Has, epochs, video
<1>l. /\ Has(poll'[p], {"pc", "epochs", "unlocks", "acceptances", "seen", "todo"})
      /\ \/ poll'[p].pc = "idle"
         \/ poll'[p].pc = "applying" /\ poll'[p].seen = poll[p].seen /\ poll'[p].epochs = poll[p].epochs
  <2>1. CASE poll'[p] = NoLocals
    BY <2>1 DEF Has, NoLocals
  <2>2. CASE poll'[p] = [poll[p] EXCEPT !.pc = "applying", !.todo = Stations]
    BY <1>b, <2>2 DEF IsPoll, Has
  <2> QED
    BY <1>b, <2>1, <2>2
<1>2. PollShapes'
  BY <1>b, <1>l DEF PollShapes, IsPoll
<1>3. Epochs'
  BY <1>b, <1>l DEF Epochs, PollEpochs
<1>4. Runtimes'
  BY <1>b, <1>l DEF Runtimes
<1>5. Records'
  BY <1>b, <1>l DEF Records, Known, UnlockRecords, PollRecords
<1> QED
  BY <1>1, <1>2, <1>3, <1>4, <1>5

LEMMA ApplyStatusKeeps ==
  ASSUME IInv, NEW p \in Pollers, NEW x \in Stations, ApplyStatus(p, x)
  PROVE  IInv'
<1> USE DEF IInv, Shapes
<1>1. (ObsShapes /\ EpochShapes /\ UnlockShapes /\ FetchShape /\ FrameOfCall)'
  BY DEF ApplyStatus, ObsShapes, EpochShapes, UnlockShapes, FetchShape, FrameOfCall, epochs, video
<1>b. /\ Has(poll', Pollers) /\ \A q \in Pollers : q # p => poll'[q] = poll[q]
      /\ IsPoll(poll[p]) /\ poll[p].pc = "applying"
      /\ \/ poll'[p] = NoLocals
         \/ poll'[p] = [poll[p] EXCEPT !.todo = @ \ {x}]
      /\ UNCHANGED <<status, statusEpochs, controlEpochs, acceptances, newest, bridge, unlock, fetch>>
  BY DEF ApplyStatus, PollShapes, Has, epochs, video
<1>l. /\ Has(poll'[p], {"pc", "epochs", "unlocks", "acceptances", "seen", "todo"})
      /\ \/ poll'[p].pc = "idle"
         \/ poll'[p].pc = "applying" /\ poll'[p].seen = poll[p].seen /\ poll'[p].epochs = poll[p].epochs
  BY <1>b DEF IsPoll, Has, NoLocals
<1>k. Kept(mon')
  <2>1. IsMonitor(mon[x])
    BY DEF MonShapes
  <2>2. PICK m : mon' = [mon EXCEPT ![x] = m] /\ (m = mon[x] \/ m = Shown(mon[x], x, poll[p].seen))
    BY DEF ApplyStatus
  <2>3. IsMonitor(m) /\ m.epoch = mon[x].epoch
    BY <2>1, <2>2, ShownMonitor
  <2> QED
    BY <2>2, <2>3, OneKept
<1>2. MonShapes'
  BY <1>k DEF Kept, MonShapes
<1>3. PollShapes'
  BY <1>b, <1>l DEF PollShapes, IsPoll
<1>4. Epochs'
  BY <1>b, <1>l, <1>k DEF Epochs, PollEpochs, Kept
<1>5. Runtimes'
  BY <1>b, <1>l DEF Runtimes
<1>6. Records'
  BY <1>b, <1>l DEF Records, Known, UnlockRecords, PollRecords
<1> QED
  BY <1>1, <1>2, <1>3, <1>4, <1>5, <1>6

LEMMA FailRefreshKeeps ==
  ASSUME IInv, NEW p \in Pollers, FailRefresh(p)
  PROVE  IInv'
<1> USE DEF IInv, Shapes
<1>1. (ObsShapes /\ EpochShapes /\ MonShapes /\ UnlockShapes /\ FetchShape /\ FrameOfCall)'
  BY DEF FailRefresh, ObsShapes, EpochShapes, MonShapes, UnlockShapes, FetchShape, FrameOfCall,
         epochs, video
<1>2. PollShapes'
  BY DEF FailRefresh, NoLocals, PollShapes, IsPoll, Has, epochs, video
<1>3. Epochs'
  BY DEF FailRefresh, NoLocals, Epochs, PollEpochs, epochs, video
<1>4. Runtimes'
  BY DEF FailRefresh, NoLocals, Runtimes, epochs, video
<1>5. Records'
  BY DEF FailRefresh, NoLocals, Records, Known, UnlockRecords, PollRecords, epochs, video
<1> QED
  BY <1>1, <1>2, <1>3, <1>4, <1>5

LEMMA LeaveKeeps ==
  ASSUME IInv, NEW p \in Pollers, Leave(p)
  PROVE  IInv'
<1> USE DEF IInv, Shapes
<1>1. (ObsShapes /\ EpochShapes /\ MonShapes /\ UnlockShapes /\ FetchShape /\ FrameOfCall)'
  BY DEF Leave, ObsShapes, EpochShapes, MonShapes, UnlockShapes, FetchShape, FrameOfCall, epochs,
         video
<1>2. PollShapes'
  BY DEF Leave, NoLocals, PollShapes, IsPoll, Has, epochs, video
<1>3. Epochs'
  BY DEF Leave, NoLocals, Epochs, PollEpochs, epochs, video
<1>4. Runtimes'
  BY DEF Leave, NoLocals, Runtimes, epochs, video
<1>5. Records'
  BY DEF Leave, NoLocals, Records, Known, UnlockRecords, PollRecords, epochs, video
<1> QED
  BY <1>1, <1>2, <1>3, <1>4, <1>5

LEMMA ServeCallKeeps ==
  ASSUME IInv, NEW c \in Controls, ServeCall(c)
  PROVE  IInv'
<1> USE DEF IInv, Shapes
<1>1. (EpochShapes /\ MonShapes /\ PollShapes /\ UnlockShapes /\ FetchShape /\ Epochs /\ FrameOfCall)'
  BY DEF ServeCall, EpochShapes, MonShapes, PollShapes, UnlockShapes, FetchShape, Epochs,
         PollEpochs, FrameOfCall, epochs, video
<1>b. /\ bridge'.runtime = bridge.runtime /\ bridge'.unlock = bridge.unlock
      /\ UNCHANGED <<status, poll, unlock, acceptances, newest, fetch>>
  BY DEF ServeCall, ObsShapes, IsObservation, Has, epochs, video
<1>2. ObsShapes'
  BY DEF ServeCall, ObsShapes, IsObservation, Has, Row, epochs, video
<1>3. Runtimes'
  BY <1>b DEF Runtimes
<1>4. Records'
  BY <1>b DEF Records, Known, UnlockRecords, PollRecords
<1> QED
  BY <1>1, <1>2, <1>3, <1>4

LEMMA ServeHangupKeeps ==
  ASSUME IInv, NEW c \in Controls, ServeHangup(c)
  PROVE  IInv'
<1> USE DEF IInv, Shapes
<1>1. (EpochShapes /\ MonShapes /\ PollShapes /\ UnlockShapes /\ FetchShape /\ Epochs /\ FrameOfCall)'
  BY DEF ServeHangup, EpochShapes, MonShapes, PollShapes, UnlockShapes, FetchShape, Epochs,
         PollEpochs, FrameOfCall, epochs, video
<1>b. /\ IsObservation(bridge') /\ bridge'.runtime = bridge.runtime /\ bridge'.unlock = bridge.unlock
      /\ UNCHANGED <<status, poll, unlock, acceptances, newest, fetch>>
  <2>1. \/ UNCHANGED bridge
        \/ \E o, n : bridge' = [bridge EXCEPT !.operation = o, !.native = n]
    BY DEF ServeHangup
  <2>2. ASSUME NEW o, NEW n, bridge' = [bridge EXCEPT !.operation = o, !.native = n]
        PROVE  IsObservation(bridge') /\ bridge'.runtime = bridge.runtime /\ bridge'.unlock = bridge.unlock
    BY <2>2 DEF ObsShapes, IsObservation, Has
  <2> QED
    BY <2>1, <2>2 DEF ServeHangup, ObsShapes, epochs, video
<1>2. ObsShapes'
  BY <1>b DEF ObsShapes
<1>3. Runtimes'
  BY <1>b DEF Runtimes
<1>4. Records'
  BY <1>b DEF Records, Known, UnlockRecords, PollRecords
<1> QED
  BY <1>1, <1>2, <1>3, <1>4

LEMMA EndCallKeeps ==
  ASSUME IInv, NEW c \in Controls, EndCall(c)
  PROVE  IInv'
<1> USE DEF IInv, Shapes
<1>1. (ObsShapes /\ EpochShapes /\ PollShapes /\ UnlockShapes /\ FetchShape /\ Runtimes /\ Records /\ FrameOfCall)'
  BY DEF EndCall, ObsShapes, EpochShapes, PollShapes, UnlockShapes, FetchShape, Runtimes, Records,
         Known, UnlockRecords, PollRecords, FrameOfCall, epochs, video
<1>k. Kept(mon')
  <2> DEFINE k == control[c].station
             o == [NoOperation EXCEPT !.id = control[c].condition, !.station = k, !.stage = "preparing"]
  <2>1. ASSUME NEW l, IsMonitor(l) PROVE /\ IsMonitor([l EXCEPT !.state = "failed"])
                                         /\ [l EXCEPT !.state = "failed"].epoch = l.epoch
    BY <2>1 DEF IsMonitor, Has
  <2>2. ASSUME NEW l, IsMonitor(l), NEW a
        PROVE  /\ IsMonitor([l EXCEPT !.accepted = TRUE, !.state = "calling", !.operation = a])
               /\ [l EXCEPT !.accepted = TRUE, !.state = "calling", !.operation = a].epoch = l.epoch
    BY <2>2 DEF IsMonitor, Has
  <2>3. \/ mon' = [mon EXCEPT ![k] = mon[k]] \/ mon' = [mon EXCEPT ![k] = [mon[k] EXCEPT !.state = "failed"]]
        \/ mon' = [mon EXCEPT ![k] = [mon[k] EXCEPT !.accepted = TRUE, !.state = "calling", !.operation = o]]
    BY DEF EndCall
  <2>4. k \in Stations => IsMonitor(mon[k])
    BY DEF MonShapes
  <2> HIDE DEF k, o
  <2>5. CASE mon' = [mon EXCEPT ![k] = mon[k]]
    BY <2>4, <2>5, OneKept
  <2>6. CASE mon' = [mon EXCEPT ![k] = [mon[k] EXCEPT !.state = "failed"]]
    BY <2>1, <2>4, <2>6, OneKept
  <2>7. CASE mon' = [mon EXCEPT ![k] = [mon[k] EXCEPT !.accepted = TRUE, !.state = "calling", !.operation = o]]
    BY <2>2, <2>4, <2>7, OneKept
  <2> QED
    BY <2>3, <2>5, <2>6, <2>7
<1>2. MonShapes'
  BY <1>k DEF Kept, MonShapes
<1>3. Epochs'
  BY <1>k DEF EndCall, Kept, Epochs, PollEpochs, epochs
<1> QED
  BY <1>1, <1>2, <1>3

LEMMA EndHangupKeeps ==
  ASSUME IInv, NEW c \in Controls, EndHangup(c)
  PROVE  IInv'
<1> USE DEF IInv, Shapes
<1>1. (ObsShapes /\ EpochShapes /\ PollShapes /\ UnlockShapes /\ FetchShape /\ Runtimes /\ Records /\ FrameOfCall)'
  BY DEF EndHangup, ObsShapes, EpochShapes, PollShapes, UnlockShapes, FetchShape, Runtimes, Records,
         Known, UnlockRecords, PollRecords, FrameOfCall, epochs, video
<1>k. Kept(mon')
  BY HungUpMonitors DEF EndHangup, Kept, MonShapes
<1>2. MonShapes'
  BY <1>k DEF Kept, MonShapes
<1>3. Epochs'
  BY <1>k DEF EndHangup, Kept, Epochs, PollEpochs, epochs
<1> QED
  BY <1>1, <1>2, <1>3

LEMMA EndReleaseKeeps ==
  ASSUME IInv, NEW c \in Controls, EndRelease(c)
  PROVE  IInv'
<1> USE DEF IInv, Shapes
<1>1. (ObsShapes /\ EpochShapes /\ PollShapes /\ UnlockShapes /\ FetchShape /\ Runtimes /\ Records /\ FrameOfCall)'
  BY DEF EndRelease, ObsShapes, EpochShapes, PollShapes, UnlockShapes, FetchShape, Runtimes,
         Records, Known, UnlockRecords, PollRecords, FrameOfCall, epochs, video
<1>k. Kept(mon')
  BY HungUpMonitors DEF EndRelease, Kept, MonShapes
<1>2. MonShapes'
  BY <1>k DEF Kept, MonShapes
<1>3. Epochs'
  BY <1>k DEF EndRelease, Kept, Epochs, PollEpochs, epochs
<1> QED
  BY <1>1, <1>2, <1>3

LEMMA LoseRequestKeeps ==
  ASSUME IInv, NEW c \in Controls, LoseRequest(c)
  PROVE  IInv'
  BY DEF IInv, Shapes, ObsShapes, EpochShapes, MonShapes, PollShapes, UnlockShapes, FetchShape,
         Epochs, Runtimes, Records, FrameOfCall, PollEpochs, Known, UnlockRecords, PollRecords,
         LoseRequest, epochs, video

LEMMA BeginCallKeeps ==
  ASSUME IInv, NEW c \in Controls, NEW x \in Stations, BeginCall(c, x)
  PROVE  IInv'
<1> USE DEF IInv, Shapes
<1>1. (ObsShapes /\ PollShapes /\ UnlockShapes /\ FetchShape /\ Runtimes /\ Records /\ FrameOfCall)'
  BY DEF BeginCall, ObsShapes, PollShapes, UnlockShapes, FetchShape, Runtimes, Records, Known,
         UnlockRecords, PollRecords, FrameOfCall, epochs, video, BeginRequest
<1>m. /\ Has(mon', Stations) /\ IsMonitor(mon'[x]) /\ mon'[x].epoch = mon[x].epoch + 1
      /\ \A y \in Stations : y # x => mon'[y] = mon[y]
  <2>1. IsMonitor(mon[x])
    BY DEF MonShapes
  <2> DEFINE m == [mon[x] EXCEPT !.operation = NoOperation, !.native = 0, !.accepted = FALSE, !.state = "calling"]
             next == [m EXCEPT !.epoch = m.epoch + 1]
  <2>2. IsMonitor(m) /\ m.epoch = mon[x].epoch
    BY <2>1 DEF IsMonitor, Has
  <2> HIDE DEF m
  <2>3. IsMonitor(next) /\ next.epoch = mon[x].epoch + 1
    BY <2>2 DEF IsMonitor, Has
  <2>4. mon' = [mon EXCEPT ![x] = next]
    BY DEF m, BeginCall, BeginRequest
  <2> HIDE DEF next
  <2> QED
    BY <2>3, <2>4 DEF MonShapes, Has
<1>e. /\ controlEpochs' = [controlEpochs EXCEPT ![x] = mon[x].epoch + 1]
      /\ mon[x].epoch = controlEpochs[x] /\ controlEpochs \in [Stations -> Nat]
      /\ UNCHANGED <<status, statusEpochs, acceptances, poll>>
  BY DEF BeginCall, BeginRequest, Epochs, EpochShapes
<1>2. EpochShapes'
  BY <1>e DEF EpochShapes
<1>3. MonShapes'
  BY <1>m DEF MonShapes
<1>4. Epochs'
  <2>1. \A y \in Stations : controlEpochs[y] <= controlEpochs'[y]
    BY <1>e
  <2>2. \A y \in Stations : mon'[y].epoch = controlEpochs'[y]
    BY <1>m, <1>e DEF Epochs
  <2>3. \A y \in Stations : status.asked[y] <= controlEpochs'[y]
    BY <1>e, <2>1 DEF Epochs, ObsShapes, IsObservation
  <2>4. ASSUME NEW q \in Pollers PROVE PollEpochs(poll[q])'
    <3>1. PollEpochs(poll[q]) /\ IsPoll(poll[q])
      BY DEF Epochs, PollShapes
    <3> QED
      BY <1>e, <2>1, <3>1 DEF PollEpochs, IsPoll, IsObservation
  <2> QED
    BY <1>e, <2>2, <2>3, <2>4 DEF Epochs
<1> QED
  BY <1>1, <1>2, <1>3, <1>4

LEMMA BeginHangupKeeps ==
  ASSUME IInv, NEW c \in Controls, NEW x \in Stations, BeginHangup(c, x)
  PROVE  IInv'
<1> USE DEF IInv, Shapes
<1>1. (ObsShapes /\ PollShapes /\ UnlockShapes /\ FetchShape /\ Runtimes /\ Records /\ FrameOfCall)'
  BY DEF BeginHangup, ObsShapes, PollShapes, UnlockShapes, FetchShape, Runtimes, Records, Known,
         UnlockRecords, PollRecords, FrameOfCall, epochs, video, BeginRequest
<1>m. /\ Has(mon', Stations) /\ IsMonitor(mon'[x]) /\ mon'[x].epoch = mon[x].epoch + 1
      /\ \A y \in Stations : y # x => mon'[y] = mon[y]
  <2>1. IsMonitor(mon[x])
    BY DEF MonShapes
  <2> DEFINE m == mon[x]
             next == [m EXCEPT !.epoch = m.epoch + 1]
  <2>2. IsMonitor(m) /\ m.epoch = mon[x].epoch
    BY <2>1 DEF IsMonitor, Has
  <2> HIDE DEF m
  <2>3. IsMonitor(next) /\ next.epoch = mon[x].epoch + 1
    BY <2>2 DEF IsMonitor, Has
  <2>4. mon' = [mon EXCEPT ![x] = next]
    BY DEF m, BeginHangup, BeginRequest
  <2> HIDE DEF next
  <2> QED
    BY <2>3, <2>4 DEF MonShapes, Has
<1>e. /\ controlEpochs' = [controlEpochs EXCEPT ![x] = mon[x].epoch + 1]
      /\ mon[x].epoch = controlEpochs[x] /\ controlEpochs \in [Stations -> Nat]
      /\ UNCHANGED <<status, statusEpochs, acceptances, poll>>
  BY DEF BeginHangup, BeginRequest, Epochs, EpochShapes
<1>2. EpochShapes'
  BY <1>e DEF EpochShapes
<1>3. MonShapes'
  BY <1>m DEF MonShapes
<1>4. Epochs'
  <2>1. \A y \in Stations : controlEpochs[y] <= controlEpochs'[y]
    BY <1>e
  <2>2. \A y \in Stations : mon'[y].epoch = controlEpochs'[y]
    BY <1>m, <1>e DEF Epochs
  <2>3. \A y \in Stations : status.asked[y] <= controlEpochs'[y]
    BY <1>e, <2>1 DEF Epochs, ObsShapes, IsObservation
  <2>4. ASSUME NEW q \in Pollers PROVE PollEpochs(poll[q])'
    <3>1. PollEpochs(poll[q]) /\ IsPoll(poll[q])
      BY DEF Epochs, PollShapes
    <3> QED
      BY <1>e, <2>1, <3>1 DEF PollEpochs, IsPoll, IsObservation
  <2> QED
    BY <1>e, <2>2, <2>3, <2>4 DEF Epochs
<1> QED
  BY <1>1, <1>2, <1>3, <1>4

LEMMA ServeUnlockKeeps ==
  ASSUME IInv, NEW u \in Unlocks, ServeUnlock(u)
  PROVE  IInv'
<1> USE DEF IInv, Shapes
<1>1. (EpochShapes /\ MonShapes /\ PollShapes /\ FetchShape /\ Epochs /\ FrameOfCall)'
  BY DEF ServeUnlock, EpochShapes, MonShapes, PollShapes, FetchShape, Epochs, PollEpochs,
         FrameOfCall, epochs, video
<1> DEFINE x == unlock[u].station
           old == bridge.unlock[x]
           row == IF old.request # 0 /\ old.phase < 2 THEN old ELSE [request |-> bridge.last + 1, phase |-> 0]
           last == IF row = old THEN bridge.last ELSE bridge.last + 1
           answer == [unlock[u] EXCEPT !.pc = "answered", !.row = row]
<1>x. x \in Stations /\ IsUnlock(unlock[u]) /\ unlock[u].pc = "posted"
  BY DEF ServeUnlock, UnlockShapes, IsUnlock
<1>r. row \in Row /\ row # NoRow /\ last \in Nat
  BY <1>x DEF ObsShapes, IsObservation, Row, NoRow
<1>b. /\ bridge' = [bridge EXCEPT !.unlock[x] = row, !.last = last]
      /\ unlock' = [unlock EXCEPT ![u] = IF bridge.runtime = unlock[u].runtime THEN answer ELSE NoUnlock]
      /\ UNCHANGED <<status, poll, acceptances, newest, fetch>>
  BY DEF ServeUnlock, epochs, video
<1> HIDE DEF x, row, last
<1>s. /\ IsObservation(bridge') /\ bridge'.runtime = bridge.runtime
      /\ \A y \in Stations : bridge'.unlock[y] = IF y = x THEN row ELSE bridge.unlock[y]
  BY <1>x, <1>r, <1>b DEF ObsShapes, IsObservation, Has
<1>a. /\ IsUnlock(answer) /\ answer.pc = "answered" /\ answer.row = row
      /\ answer.station = unlock[u].station /\ answer.runtime = unlock[u].runtime
  BY <1>x, <1>r DEF IsUnlock, Has
<1>n. IsUnlock(NoUnlock) /\ NoUnlock.pc = "idle"
  BY DEF NoUnlock, IsUnlock, Has
<1> HIDE DEF answer
<1>u. /\ Has(unlock', Unlocks) /\ \A v \in Unlocks : v # u => unlock'[v] = unlock[v]
      /\ \/ unlock'[u] = NoUnlock
         \/ unlock'[u] = answer /\ bridge.runtime = unlock[u].runtime
  BY <1>b DEF UnlockShapes, Has
<1>2. ObsShapes'
  BY <1>b, <1>s DEF ObsShapes
<1>3. UnlockShapes'
  BY <1>u, <1>a, <1>n DEF UnlockShapes
<1>4. Runtimes'
  BY <1>b, <1>s, <1>u, <1>a, <1>n, <1>x DEF Runtimes
<1>5. Records'
  <2>1. \A y \in Stations : bridge.unlock[y] # NoRow => bridge'.unlock[y] # NoRow
    BY <1>s, <1>r
  <2>2. Known(status.runtime, status.unlock)' /\ \A p \in Pollers : PollRecords(p)'
    BY <1>b, <1>s, <2>1 DEF Records, Known, PollRecords
  <2>3. ASSUME NEW v \in Unlocks, v # u PROVE UnlockRecords(unlock[v])'
    <3>1. unlock[v].pc = "answered" => unlock[v].station \in Stations
      BY DEF UnlockShapes, IsUnlock
    <3> QED
      BY <1>s, <1>u, <2>1, <2>3, <3>1 DEF Records, UnlockRecords
  <2>4. UnlockRecords(unlock[u])'
    BY <1>s, <1>u, <1>a, <1>n, <1>r, <1>x DEF UnlockRecords, x
  <2> QED
    BY <2>2, <2>3, <2>4 DEF Records
<1> QED
  BY <1>1, <1>2, <1>3, <1>4, <1>5

LEMMA EndUnlockKeeps ==
  ASSUME IInv, NEW u \in Unlocks, EndUnlock(u)
  PROVE  IInv'
<1> USE DEF IInv, Shapes
<1>1. (MonShapes /\ PollShapes /\ FetchShape)'
  BY DEF EndUnlock, MonShapes, PollShapes, FetchShape, video
<1> DEFINE x == unlock[u].station
           row == unlock[u].row
           old == status.unlock[x]
           merged == IF Newer(row, old) THEN row ELSE old
<1>x. /\ x \in Stations /\ row \in Row /\ old \in Row /\ unlock[u].pc = "answered"
      /\ row # NoRow /\ (unlock[u].runtime = bridge.runtime => bridge.unlock[x] # NoRow)
  BY DEF EndUnlock, UnlockShapes, IsUnlock, ObsShapes, IsObservation, Records, UnlockRecords
<1>b. /\ Has(unlock', Unlocks) /\ \A v \in Unlocks : v # u => unlock'[v] = unlock[v]
      /\ unlock'[u] = NoUnlock
      /\ UNCHANGED <<bridge, statusEpochs, controlEpochs, unlockEpochs, newest, poll, mon, cache, fetch>>
  BY DEF EndUnlock, UnlockShapes, Has, video
<1>n. IsUnlock(NoUnlock) /\ NoUnlock.pc = "idle"
  BY DEF NoUnlock, IsUnlock, Has
<1>m. \/ UNCHANGED <<status, acceptances>>
      \/ /\ status' = [status EXCEPT !.unlock[x] = merged]
         /\ acceptances' = [acceptances EXCEPT ![x] = @ + 1]
         /\ status.runtime = unlock[u].runtime
  BY DEF EndUnlock
<1> HIDE DEF x, merged
<1>r. merged \in Row
  BY <1>x DEF merged
<1>s. /\ IsObservation(status') /\ status'.runtime = status.runtime /\ status'.asked = status.asked
      /\ status'.native = status.native
      /\ \A y \in Stations : acceptances[y] <= acceptances'[y]
      /\ \A y \in Stations : \/ status'.unlock[y] = status.unlock[y]
                             \/ /\ y = x /\ status.runtime = unlock[u].runtime
                                /\ acceptances[y] < acceptances'[y]
      /\ acceptances' \in [Stations -> Nat]
  <2>1. CASE UNCHANGED <<status, acceptances>>
    BY <2>1 DEF ObsShapes, EpochShapes
  <2>2. CASE /\ status' = [status EXCEPT !.unlock[x] = merged]
             /\ acceptances' = [acceptances EXCEPT ![x] = @ + 1]
             /\ status.runtime = unlock[u].runtime
    <3>1. /\ acceptances' \in [Stations -> Nat] /\ acceptances[x] < acceptances'[x]
          /\ \A y \in Stations : acceptances[y] <= acceptances'[y]
      BY <1>x, <2>2 DEF EpochShapes
    <3>2. /\ IsObservation(status') /\ status'.runtime = status.runtime /\ status'.asked = status.asked
          /\ status'.native = status.native
          /\ \A y \in Stations : y # x => status'.unlock[y] = status.unlock[y]
      BY <1>x, <1>r, <2>2 DEF ObsShapes, IsObservation, Has
    <3> QED
      BY <2>2, <3>1, <3>2
  <2> QED
    BY <1>m, <2>1, <2>2
<1>2. ObsShapes'
  BY <1>b, <1>s DEF ObsShapes
<1>3. EpochShapes'
  BY <1>b, <1>s DEF EpochShapes
<1>4. UnlockShapes'
  BY <1>b, <1>n DEF UnlockShapes
<1>5. Epochs'
  BY <1>b, <1>s DEF Epochs, PollEpochs
<1>6. Runtimes'
  BY <1>b, <1>s, <1>n DEF Runtimes
<1>7. Records'
  <2>1. Known(status.runtime, status.unlock)'
    BY <1>b, <1>x, <1>s DEF Records, Known
  <2>2. \A v \in Unlocks : UnlockRecords(unlock[v])'
    BY <1>b, <1>n DEF Records, UnlockRecords
  <2>3. ASSUME NEW q \in Pollers PROVE PollRecords(q)'
    <3>1. PollRecords(q) /\ (poll[q].pc \in {"asked", "served"} => poll[q].acceptances \in [Stations -> Nat])
      BY DEF Records, PollShapes, IsPoll
    <3>2. acceptances \in [Stations -> Nat]
      BY DEF EpochShapes
    <3> QED
      BY <1>b, <1>s, <3>1, <3>2 DEF PollRecords, Known
  <2> QED
    BY <2>1, <2>2, <2>3 DEF Records
<1>8. FrameOfCall'
  BY <1>b, <1>s DEF FrameOfCall, VideoGeneration
<1> QED
  BY <1>1, <1>2, <1>3, <1>4, <1>5, <1>6, <1>7, <1>8

LEMMA LoseUnlockKeeps ==
  ASSUME IInv, NEW u \in Unlocks, LoseUnlock(u)
  PROVE  IInv'
<1> USE DEF IInv, Shapes
<1>1. (ObsShapes /\ EpochShapes /\ MonShapes /\ PollShapes /\ FetchShape /\ Epochs /\ FrameOfCall)'
  BY DEF LoseUnlock, ObsShapes, EpochShapes, MonShapes, PollShapes, FetchShape, Epochs, PollEpochs,
         FrameOfCall, epochs, video
<1>2. UnlockShapes'
  BY DEF LoseUnlock, NoUnlock, UnlockShapes, IsUnlock, Has, epochs, video
<1>3. Runtimes'
  BY DEF LoseUnlock, NoUnlock, Runtimes, epochs, video
<1>4. Records'
  BY DEF LoseUnlock, NoUnlock, Records, Known, UnlockRecords, PollRecords, epochs, video
<1> QED
  BY <1>1, <1>2, <1>3, <1>4

LEMMA BeginUnlockKeeps ==
  ASSUME IInv, NEW u \in Unlocks, NEW x \in Stations, BeginUnlock(u, x)
  PROVE  IInv'
<1> USE DEF IInv, Shapes
<1>1. (ObsShapes /\ EpochShapes /\ MonShapes /\ PollShapes /\ FetchShape /\ Epochs /\ FrameOfCall)'
  BY DEF BeginUnlock, ObsShapes, EpochShapes, MonShapes, PollShapes, FetchShape, Epochs, PollEpochs,
         FrameOfCall, epochs, video
<1> DEFINE l == [NoUnlock EXCEPT !.pc = "posted", !.station = x, !.runtime = status.runtime,
                                 !.epoch = unlockEpochs[x] + 1]
<1>b. /\ Has(unlock', Unlocks) /\ \A v \in Unlocks : v # u => unlock'[v] = unlock[v]
      /\ unlock'[u] = l
      /\ UNCHANGED <<bridge, status, acceptances, newest, poll, fetch>>
  BY DEF BeginUnlock, UnlockShapes, Has, video
<1>l. IsUnlock(l) /\ l.pc = "posted" /\ l.runtime = status.runtime
  BY DEF NoUnlock, IsUnlock, Has, ObsShapes, IsObservation
<1> HIDE DEF l
<1>2. UnlockShapes'
  BY <1>b, <1>l DEF UnlockShapes
<1>3. Runtimes'
  BY <1>b, <1>l DEF Runtimes
<1>4. Records'
  BY <1>b, <1>l DEF Records, UnlockRecords, Known, PollRecords
<1> QED
  BY <1>1, <1>2, <1>3, <1>4

LEMMA BeginFrameKeeps ==
  ASSUME IInv, BeginFrame
  PROVE  IInv'
<1> USE DEF IInv, Shapes
<1>1. (ObsShapes /\ EpochShapes /\ MonShapes /\ PollShapes /\ UnlockShapes /\ Epochs /\ Records)'
  BY DEF BeginFrame, ObsShapes, EpochShapes, MonShapes, PollShapes, UnlockShapes, Epochs,
         PollEpochs, Records, Known, UnlockRecords, PollRecords, epochs
<1>b. /\ UNCHANGED <<bridge, status, poll, unlock>>
      /\ \/ UNCHANGED fetch
         \/ fetch'.pc = "asked" /\ fetch'.runtime = status.runtime
  BY DEF BeginFrame, NoFetch, epochs
<1>2. FetchShape'
  BY DEF BeginFrame, NoFetch, FetchShape, IsFetch, Has, epochs, video
<1>3. Runtimes'
  BY <1>b DEF Runtimes, ObsShapes, IsObservation
<1>4. FrameOfCall'
  BY DEF BeginFrame, NoFetch, FrameOfCall, epochs, video
<1> QED
  BY <1>1, <1>2, <1>3, <1>4

LEMMA ServeFrameKeeps ==
  ASSUME IInv, ServeFrame
  PROVE  IInv'
<1> USE DEF IInv, Shapes
<1>1. (ObsShapes /\ EpochShapes /\ MonShapes /\ PollShapes /\ UnlockShapes /\ Epochs /\ Records /\ FrameOfCall)'
  BY DEF ServeFrame, ObsShapes, EpochShapes, MonShapes, PollShapes, UnlockShapes, Epochs,
         PollEpochs, Records, Known, UnlockRecords, PollRecords, FrameOfCall, epochs, video
<1>2. FetchShape'
  BY DEF ServeFrame, NoFetch, FetchShape, IsFetch, Has, epochs, video
<1>3. Runtimes'
  BY DEF ServeFrame, NoFetch, Runtimes, epochs, video
<1> QED
  BY <1>1, <1>2, <1>3

LEMMA EndFrameKeeps ==
  ASSUME IInv, EndFrame
  PROVE  IInv'
<1> USE DEF IInv, Shapes
<1>1. (ObsShapes /\ EpochShapes /\ MonShapes /\ PollShapes /\ UnlockShapes /\ Epochs /\ Records)'
  BY DEF EndFrame, ObsShapes, EpochShapes, MonShapes, PollShapes, UnlockShapes, Epochs, PollEpochs,
         Records, Known, UnlockRecords, PollRecords, epochs
<1>2. FetchShape'
  BY DEF EndFrame, NoFetch, FetchShape, IsFetch, Has, epochs, video
<1>3. Runtimes'
  BY DEF EndFrame, NoFetch, Runtimes, epochs, video
<1>4. FrameOfCall'
  <2>1. CASE UNCHANGED cache
    BY <2>1 DEF EndFrame, FrameOfCall, VideoGeneration
  <2>2. CASE cache' = None
    BY <2>2 DEF FrameOfCall
  <2>3. CASE cache' = fetch.frame /\ FetchIsCurrent
    BY <2>3 DEF EndFrame, FetchIsCurrent, FrameOfCall, Runtimes, VideoGeneration
  <2> QED
    BY <2>1, <2>2, <2>3 DEF EndFrame
<1> QED
  BY <1>1, <1>2, <1>3, <1>4

LEMMA IStep == IInv /\ [Next]_vars => IInv'
<1> SUFFICES ASSUME IInv, [Next]_vars PROVE IInv'
  OBVIOUS
<1>1. CASE UNCHANGED vars
  BY <1>1 DEF vars, epochs, video, IInv, Shapes, ObsShapes, EpochShapes, MonShapes, PollShapes,
     UnlockShapes, FetchShape, Epochs, PollEpochs, Runtimes, Records, Known, UnlockRecords,
     PollRecords, FrameOfCall
<1> QED
  BY <1>1, AdvanceKeeps, RestartKeeps, AdvanceUnlockKeeps, ReplaceMonitorKeeps, BeginRefreshKeeps,
     ServeStatusKeeps, EndRefreshKeeps, BeginSyncKeeps, EndMonitorStatusKeeps, ApplyStatusKeeps,
     FailRefreshKeeps, LeaveKeeps, ServeCallKeeps, ServeHangupKeeps, EndCallKeeps, EndHangupKeeps,
     EndReleaseKeeps, LoseRequestKeeps, BeginCallKeeps, BeginHangupKeeps, ServeUnlockKeeps,
     EndUnlockKeeps, LoseUnlockKeeps, BeginUnlockKeeps, BeginFrameKeeps, ServeFrameKeeps,
     EndFrameKeeps
     DEF Next, PollStep, ControlStep, UnlockStep

-----------------------------------------------------------------------------
(* Theorems                                                                *)

\* The shapes, epochs, runtimes and records above hold in every state, whatever the bridge, the
\* users and the order of the requests do.
THEOREM Invariance == Spec => []IInv
<1>1. IInv /\ [Next]_vars => IInv'
  BY IStep
<1> QED
  BY IInit, <1>1, PTL DEF Spec

\* The cached picture belongs to the published call (latest_video_frame and the refresh that
\* clears it), for any number of requests and restarts of the bridge.
THEOREM FrameFollowsCall == Spec => []FrameOfCall
<1>1. IInv => FrameOfCall
  BY DEF IInv
<1> QED
  BY Invariance, <1>1, PTL

\* An observation that changes what a coordinator shows was served after the last request of its
\* station began: async_apply_call_status compares the epochs, and those of an observation were
\* read before it was asked for.
THEOREM AppliesCurrent == Spec => AppliedIsCurrent
<1>1. ASSUME IInv, NEW p \in Pollers, NEW x \in Stations, ApplyStatus(p, x), mon'[x] # mon[x]
      PROVE  poll[p].seen.asked[x] = controlEpochs[x]
  <2>1. Admits(x, poll[p].seen, poll[p].epochs[x])
    BY <1>1 DEF ApplyStatus, IInv, Shapes, MonShapes, Has
  <2>2. poll[p].epochs[x] = controlEpochs[x]
    BY <1>1, <2>1 DEF Admits, IInv, Epochs
  <2>3. PollEpochs(poll[p]) /\ IsPoll(poll[p]) /\ poll[p].pc = "applying"
    BY <1>1 DEF ApplyStatus, IInv, Shapes, PollShapes, Epochs
  <2>4. controlEpochs[x] \in Nat /\ poll[p].seen.asked[x] \in Nat
    BY <1>1, <2>3 DEF IInv, Shapes, EpochShapes, IsPoll, IsObservation
  <2> QED
    BY <2>2, <2>3, <2>4 DEF PollEpochs
<1>2. IInv => [\A p \in Pollers, x \in Stations :
         ApplyStatus(p, x) /\ mon'[x] # mon[x] => poll[p].seen.asked[x] = controlEpochs[x]]_vars
  BY <1>1
<1> QED
  BY Invariance, <1>2, PTL DEF AppliedIsCurrent

LEMMA NewerOrEqual ==
  ASSUME NEW row \in Row, NEW old \in Row
  PROVE  row = old \/ Newer(row, old) \/ Newer(old, row)
  BY DEF Newer, Row

\* What is published of a station's unlock never goes back in one runtime of the bridge: the
\* fence keeps a record accepted after an observation was asked for, and a reply is merged only
\* when it is the newest.
THEOREM RecordsForward == Spec => RecordForward
<1> DEFINE Forward(x) == status'.runtime = status.runtime =>
             status'.unlock[x] = status.unlock[x] \/ Newer(status'.unlock[x], status.unlock[x])
<1>1. ASSUME IInv, NEW x \in Stations, NEW p \in Pollers, EndRefresh(p) PROVE Forward(x)
  <2> DEFINE seen == poll[p].seen
             accepted == {y \in Stations : acceptances[y] # poll[p].acceptances[y]}
             reply == Fenced(seen, accepted)
  <2>1. CASE UNCHANGED status
    BY <2>1
  <2>2. CASE newest = p /\ status' = reply /\ reply.runtime = status.runtime
    <3>1. IsObservation(seen) /\ ObsShapes /\ poll[p].pc = "served" /\ PollRecords(p)
      BY <1>1 DEF EndRefresh, IInv, Shapes, PollShapes, IsPoll, Records
    <3>2. reply.runtime = seen.runtime
      BY <3>1, FencedRecords
    <3>3. reply.unlock[x] = IF \/ seen.unlock[x] = NoRow /\ x \in accepted
                               \/ seen.unlock[x] # NoRow /\ Newer(status.unlock[x], seen.unlock[x])
                            THEN status.unlock[x] ELSE seen.unlock[x]
      BY <2>2, <3>1, <3>2, FencedRecords
    <3>4. seen.unlock[x] \in Row /\ status.unlock[x] \in Row
      BY <3>1 DEF ObsShapes, IsObservation
    <3>5. CASE seen.unlock[x] = NoRow
      <4>1. x \notin accepted => status.unlock[x] = NoRow
        BY <2>2, <3>1, <3>2, <3>5 DEF PollRecords
      <4> QED
        BY <2>2, <3>3, <3>5, <4>1
    <3>6. CASE seen.unlock[x] # NoRow
      BY <2>2, <3>3, <3>4, <3>6, NewerOrEqual
    <3> QED
      BY <3>5, <3>6
  <2>3. \/ UNCHANGED status
        \/ newest = p /\ status' = reply
    BY <1>1 DEF EndRefresh, Superseded
  <2> QED
    BY <2>1, <2>2, <2>3
<1>2. ASSUME IInv, NEW x \in Stations, NEW u \in Unlocks, EndUnlock(u) PROVE Forward(x)
  <2> DEFINE y == unlock[u].station
             merged == IF Newer(unlock[u].row, status.unlock[y]) THEN unlock[u].row ELSE status.unlock[y]
  <2>1. UNCHANGED status \/ status' = [status EXCEPT !.unlock[y] = merged]
    BY <1>2 DEF EndUnlock
  <2>2. CASE status' = [status EXCEPT !.unlock[y] = merged]
    <3> HIDE DEF y, merged
    <3>1. status'.unlock[x] = IF x = y THEN merged ELSE status.unlock[x]
      BY <1>2, <2>2 DEF IInv, Shapes, ObsShapes, IsObservation, Has
    <3> QED
      BY <3>1 DEF merged, y
  <2> QED
    BY <2>1, <2>2
<1>3. ASSUME IInv, NEW x \in Stations, [Next]_vars PROVE Forward(x)
  <2>1. \/ UNCHANGED status
        \/ \E p \in Pollers : EndRefresh(p)
        \/ \E u \in Unlocks : EndUnlock(u)
    BY <1>3, ZenonT(60) DEF Next, vars, PollStep, ControlStep, UnlockStep, Advance, Restart, AdvanceUnlock,
       ReplaceMonitor, BeginRefresh, ServeStatus, FailRefresh, BeginSync, EndMonitorStatus,
       ApplyStatus, Leave, ServeCall, ServeHangup, EndCall, EndHangup, EndRelease, LoseRequest,
       BeginCall, BeginHangup, BeginRequest, ServeUnlock, LoseUnlock, BeginUnlock, BeginFrame,
       ServeFrame, EndFrame
  <2> QED
    BY <1>1, <1>2, <1>3, <2>1
<1>4. IInv /\ [Next]_vars => [\A x \in Stations : Forward(x)]_vars
  BY <1>3
<1> QED
  BY Invariance, <1>4, PTL DEF Spec, RecordForward
=============================================================================
