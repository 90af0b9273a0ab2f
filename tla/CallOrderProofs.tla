-------------------------- MODULE CallOrderProofs --------------------------
(***************************************************************************)
(* The calls of StationCalls, for any number of stations, requests and     *)
(* overlapping polls: a coordinator never goes back to an earlier          *)
(* operation or stage, and a hangup releases the audio of no call that     *)
(* still goes on.                                                          *)
(***************************************************************************)
EXTENDS StationCallsProofs

-----------------------------------------------------------------------------
(* The inductive invariant                                                 *)

IsOperation(o) ==
  /\ Has(o, {"id", "station", "stage", "generation"})
  /\ o.id \in Nat /\ o.stage \in DOMAIN StageOrder

\* An operation as it is, or was before.
Precedes(o, next) ==
  \/ o.id < next.id
  \/ o.id = next.id /\ o.station = next.station /\ StageOrder[o.stage] <= StageOrder[next.stage]

Busy(c) == control[c].pc # "idle"
Observing(p) == poll[p].pc \in {"served", "syncing", "applying"}

\* What was observed of calls in the runtime that the bridge is still in has come to pass.
Past(runtime, o, b) ==
  /\ IsOperation(o) /\ runtime \in Nat /\ runtime <= b.runtime
  /\ runtime = b.runtime => Precedes(o, b.operation)

IsCall(o) ==
  /\ IsOperation(o)
  /\ o = NoOperation \/ (o.id # 0 /\ o.stage # "idle")
ObservedPolls == \A p \in Pollers : Observing(p) => Past(poll[p].seen.runtime, poll[p].seen.operation, bridge)
ObservedMonitors ==
  \A x \in Stations :
    /\ Past(mon[x].runtime, mon[x].operation, bridge)
    /\ mon[x].operation # NoOperation => mon[x].operation.station = x
Observed ==
  /\ IsCall(bridge.operation)
  /\ Past(status.runtime, status.operation, bridge)
  /\ ObservedPolls /\ ObservedMonitors

\* One request at a time holds the lock of a coordinator.
Alone ==
  /\ Has(control, Controls)
  /\ \A c \in Controls : Busy(c) =>
       /\ Has(control[c], DOMAIN NoRequest)
       /\ control[c].station \in Stations
       /\ control[c].runtime \in Nat /\ control[c].runtime <= mon[control[c].station].runtime
  /\ \A c, d \in Controls :
       Busy(c) /\ Busy(d) /\ control[c].station = control[d].station
         /\ control[c].runtime = control[d].runtime => c = d

\* The coordinator has no operation while its call is asked for, and it keeps the one that its
\* hangup names; the answer comes after what it shows.
CallHeld(c) ==
  LET m == mon[control[c].station]
      new == [NoOperation EXCEPT !.id = control[c].condition, !.station = control[c].station,
                                 !.stage = "preparing"]
  IN /\ m.operation = NoOperation
     /\ control[c].pc = "answered" /\ ~Failed(c) =>
          control[c].condition \in Nat \ {0} /\ Past(control[c].runtime, new, bridge)
HangupHeld(c) ==
  LET o == mon[control[c].station].operation
      ended == [o EXCEPT !.stage = control[c].reply]
  IN control[c].condition # 0 =>
       /\ o # NoOperation /\ o.id = control[c].condition
       /\ control[c].pc \in {"answered", "releasing"} /\ ~Failed(c) =>
            /\ control[c].reply \in {"ending", "ended"}
            /\ StageOrder[o.stage] <= StageOrder[control[c].reply]
            /\ Past(control[c].runtime, ended, bridge)
HeldBy(c) ==
  Busy(c) /\ ~Replaced(c) =>
    /\ control[c].pc \in {"posted", "answered", "releasing"}
    /\ control[c].pc = "releasing" => control[c].kind = "hangup" /\ ~Failed(c)
    /\ control[c].kind = "call" => CallHeld(c)
    /\ control[c].kind = "hangup" => HangupHeld(c)
Held == \A c \in Controls : HeldBy(c)

CInv == IInv /\ Observed /\ Alone /\ Held

\* What OperationForward says of one coordinator.
Forward(m, next) ==
  next.runtime = m.runtime /\ next.operation # NoOperation
    => \/ next.operation.id > m.operation.id
       \/ /\ next.operation.id = m.operation.id
          /\ StageOrder[next.operation.stage] >= StageOrder[m.operation.stage]

-----------------------------------------------------------------------------
(* Facts about operations                                                  *)

LEMMA Stages == \A s \in DOMAIN StageOrder : StageOrder[s] \in 0..5
  BY DEF StageOrder

LEMMA EarliestOperation == IsCall(NoOperation) /\ \A o : IsCall(o) => Precedes(NoOperation, o)
<1>1. IsOperation(NoOperation)
  BY DEF IsOperation, Has, NoOperation, StageOrder
<1>2. ASSUME NEW o, IsCall(o) PROVE Precedes(NoOperation, o)
  <2>1. CASE o = NoOperation
    BY <2>1, Stages, <1>1 DEF Precedes, IsOperation
  <2>2. CASE o.id # 0
    BY <1>2, <2>2 DEF Precedes, IsCall, IsOperation, NoOperation
  <2> QED
    BY <1>2, <2>1, <2>2 DEF IsCall
<1>3. IsCall(NoOperation)
  BY <1>1 DEF IsCall
<1> QED
  BY <1>2, <1>3

LEMMA PrecedesItself == ASSUME NEW o, IsOperation(o) PROVE Precedes(o, o)
  BY Stages DEF Precedes, IsOperation

LEMMA PrecedesChain ==
  ASSUME NEW a, NEW b, NEW c, IsOperation(a), IsOperation(b), IsOperation(c),
         Precedes(a, b), Precedes(b, c)
  PROVE  Precedes(a, c)
  BY Stages DEF Precedes, IsOperation

\* The bridge goes on, or starts again in a later runtime.
Moves(b, next) ==
  /\ b.runtime \in Nat /\ next.runtime \in Nat
  /\ IsOperation(b.operation) /\ IsOperation(next.operation)
  /\ \/ b.runtime < next.runtime
     \/ b.runtime = next.runtime /\ Precedes(b.operation, next.operation)

LEMMA PastStays ==
  ASSUME NEW b, NEW next, Moves(b, next), NEW runtime, NEW o, Past(runtime, o, b)
  PROVE  Past(runtime, o, next)
<1>1. CASE runtime = next.runtime
  <2>1. runtime = b.runtime /\ Precedes(b.operation, next.operation)
    BY <1>1 DEF Past, Moves
  <2> QED
    BY <1>1, <2>1, PrecedesChain DEF Past, Moves
<1>2. CASE runtime # next.runtime
  BY <1>2 DEF Past, Moves
<1> QED
  BY <1>1, <1>2

LEMMA PastNone ==
  ASSUME NEW b, IsCall(b.operation), b.runtime \in Nat, NEW runtime \in Nat, runtime <= b.runtime
  PROVE  Past(runtime, NoOperation, b)
  BY EarliestOperation DEF Past, IsCall

-----------------------------------------------------------------------------
(* Steps that leave the coordinators and their requests alone              *)

\* The bridge moves.
LEMMA BridgeStep ==
  ASSUME CInv, Moves(bridge, bridge'), IsCall(bridge'.operation), UNCHANGED <<status, poll, mon, control>>
  PROVE  (Observed /\ Alone /\ Held)'
<1>1. Observed'
  BY PastStays DEF CInv, Observed, ObservedPolls, ObservedMonitors, Observing
<1>2. Alone'
  BY DEF CInv, Alone, Busy
<1>3. ASSUME NEW c \in Controls PROVE HeldBy(c)'
  <2>1. HeldBy(c)
    BY DEF CInv, Held
  <2> QED
    BY <2>1, PastStays DEF HeldBy, Busy, Replaced, CallHeld, HangupHeld, Failed
<1> QED
  BY <1>1, <1>2, <1>3 DEF Held

\* Something is observed or published.
LEMMA ObservationStep ==
  ASSUME CInv, UNCHANGED <<bridge, mon, control>>,
         Past(status'.runtime, status'.operation, bridge), ObservedPolls'
  PROVE  (Observed /\ Alone /\ Held)'
<1>1. Observed'
  BY DEF CInv, Observed, ObservedMonitors
<1>2. Alone'
  BY DEF CInv, Alone, Busy
<1>3. Held'
  BY DEF CInv, Held, HeldBy, Busy, Replaced, CallHeld, HangupHeld, Failed
<1> QED
  BY <1>1, <1>2, <1>3

-----------------------------------------------------------------------------
(* The steps of the bridge                                                 *)

LEMMA AdvanceHolds == CInv /\ Advance => (Observed /\ Alone /\ Held)'
<1> SUFFICES ASSUME CInv, Advance PROVE (Observed /\ Alone /\ Held)'
  OBVIOUS
<1> DEFINE op == bridge.operation
<1>1. IsCall(op) /\ IsObservation(bridge)
  BY DEF CInv, Observed, IInv, Shapes, ObsShapes
<1> DEFINE Stage(s) == [op EXCEPT !.stage = s]
           Called(o) == op.stage = "preparing" /\ \E g : o = [Stage("calling") EXCEPT !.generation = g]
           Answered(o) == op.stage = "calling" /\ o = Stage("talking")
           Ended(o) == ActiveCall(bridge) /\ o = Stage("ended")
           Elsewise(o) ==
             o = [id |-> op.id + 1, station |-> Elsewhere, stage |-> "preparing", generation |-> 0]
<1>2. PICK o, n :
        /\ bridge' = [bridge EXCEPT !.operation = o, !.native = n]
        /\ o = op \/ Called(o) \/ Answered(o) \/ Ended(o) \/ Elsewise(o)
  <2> DEFINE Move(o, n) == bridge' = [bridge EXCEPT !.operation = o, !.native = n]
  <2>1. \/ \E n : Move(op, n)
        \/ op.stage = "preparing" /\ \E g, n : Move([Stage("calling") EXCEPT !.generation = g], n)
        \/ op.stage = "calling" /\ \E n : Move(Stage("talking"), n)
        \/ ActiveCall(bridge) /\ \E n : Move(Stage("ended"), n)
        \/ \E n : Move([id |-> op.id + 1, station |-> Elsewhere, stage |-> "preparing",
                        generation |-> 0], n)
    BY DEF Advance
  <2>2. CASE \E n : Move(op, n)
    BY <2>2
  <2>3. CASE op.stage = "preparing" /\ \E g, n : Move([Stage("calling") EXCEPT !.generation = g], n)
    <3>1. PICK g, n : Move([Stage("calling") EXCEPT !.generation = g], n)
      BY <2>3
    <3>2. Called([Stage("calling") EXCEPT !.generation = g])
      BY <2>3
    <3> QED
      BY <3>1, <3>2
  <2>4. CASE op.stage = "calling" /\ \E n : Move(Stage("talking"), n)
    BY <2>4
  <2>5. CASE ActiveCall(bridge) /\ \E n : Move(Stage("ended"), n)
    BY <2>5
  <2>6. CASE \E n : Move([id |-> op.id + 1, station |-> Elsewhere, stage |-> "preparing",
                        generation |-> 0], n)
    BY <2>6
  <2> QED
    BY <2>1, <2>2, <2>3, <2>4, <2>5, <2>6
<1>3. IsCall(o) /\ Precedes(op, o)
  <2>1. CASE o = op
    BY <1>1, <2>1, PrecedesItself DEF IsCall
  <2>2. CASE Elsewise(o)
    <3>1. op.id \in Nat
      BY <1>1 DEF IsCall, IsOperation
    <3> QED
      BY <3>1, <2>2 DEF IsCall, IsOperation, Precedes, Has, StageOrder
  <2>3. ASSUME NEW s \in {"calling", "talking", "ended"}, o.id = op.id, o.station = op.station,
               o.stage = s, Has(o, {"id", "station", "stage", "generation"}),
               ActiveCall(bridge), StageOrder[op.stage] <= StageOrder[s]
        PROVE  IsCall(o) /\ Precedes(op, o)
    <3>1. op # NoOperation
      BY <2>3 DEF ActiveCall, NoOperation
    <3>2. op.id \in Nat /\ op.id # 0
      BY <1>1, <3>1 DEF IsCall, IsOperation
    <3> QED
      BY <2>3, <3>2 DEF IsCall, IsOperation, Precedes, StageOrder
  <2>4. Has(op, {"id", "station", "stage", "generation"})
    BY <1>1 DEF IsCall, IsOperation
  <2>5. CASE Called(o)
    <3>1. /\ o.id = op.id /\ o.station = op.station /\ o.stage = "calling"
          /\ Has(o, {"id", "station", "stage", "generation"})
      BY <2>4, <2>5 DEF Has
    <3> QED
      BY <2>3, <2>5, <3>1 DEF ActiveCall, StageOrder
  <2>6. CASE Answered(o)
    <3>1. /\ o.id = op.id /\ o.station = op.station /\ o.stage = "talking"
          /\ Has(o, {"id", "station", "stage", "generation"})
      BY <2>4, <2>6 DEF Has
    <3> QED
      BY <2>3, <2>6, <3>1 DEF ActiveCall, StageOrder
  <2>7. CASE Ended(o)
    <3>1. /\ o.id = op.id /\ o.station = op.station /\ o.stage = "ended"
          /\ Has(o, {"id", "station", "stage", "generation"})
      BY <2>4, <2>7 DEF Has
    <3> QED
      BY <2>3, <2>7, <3>1 DEF ActiveCall, StageOrder
  <2> QED
    BY <1>2, <2>1, <2>2, <2>5, <2>6, <2>7
<1>4. bridge'.operation = o /\ bridge'.runtime = bridge.runtime
  BY <1>1, <1>2 DEF IsObservation, Has
<1> QED
  BY <1>1, <1>3, <1>4, BridgeStep DEF Advance, Moves, IsCall, IsObservation

LEMMA RestartHolds == CInv /\ Restart => (Observed /\ Alone /\ Held)'
<1> SUFFICES ASSUME CInv, Restart PROVE (Observed /\ Alone /\ Held)'
  OBVIOUS
<1>1. IsCall(bridge.operation) /\ bridge.runtime \in Nat
  BY DEF CInv, Observed, IInv, Shapes, ObsShapes, IsObservation
<1>2. bridge'.operation = NoOperation /\ bridge'.runtime = bridge.runtime + 1
  BY DEF Restart, Boot
<1> QED
  BY <1>1, <1>2, BridgeStep, EarliestOperation DEF Restart, Moves, IsCall

\* Unlocks move the bridge without touching its call.
LEMMA UnlockMoves ==
  ASSUME CInv, bridge'.operation = bridge.operation, bridge'.runtime = bridge.runtime
  PROVE  Moves(bridge, bridge') /\ IsCall(bridge'.operation)
  BY PrecedesItself DEF CInv, Observed, Moves, IsCall, IInv, Shapes, ObsShapes, IsObservation

LEMMA AdvanceUnlockHolds ==
  ASSUME CInv, NEW x \in Stations, AdvanceUnlock(x) PROVE (Observed /\ Alone /\ Held)'
<1>1. bridge'.operation = bridge.operation /\ bridge'.runtime = bridge.runtime
  BY DEF AdvanceUnlock, CInv, IInv, Shapes, ObsShapes, IsObservation, Has
<1> QED
  BY <1>1, UnlockMoves, BridgeStep DEF AdvanceUnlock

LEMMA ServeUnlockHolds ==
  ASSUME CInv, NEW u \in Unlocks, ServeUnlock(u) PROVE (Observed /\ Alone /\ Held)'
<1>1. PICK row, k, l : bridge' = [bridge EXCEPT !.unlock[k] = row, !.last = l]
  BY DEF ServeUnlock
<1>2. bridge'.operation = bridge.operation /\ bridge'.runtime = bridge.runtime
  BY <1>1 DEF CInv, IInv, Shapes, ObsShapes, IsObservation, Has
<1> QED
  BY <1>2, UnlockMoves, BridgeStep DEF ServeUnlock

-----------------------------------------------------------------------------
(* The steps of the pollers                                                *)

\* One poller observes something, or nothing.
LEMMA PollerStep ==
  ASSUME CInv, UNCHANGED <<bridge, mon, control>>,
         Past(status'.runtime, status'.operation, bridge),
         NEW p \in Pollers, \A q \in Pollers : q # p => poll'[q] = poll[q],
         \/ poll'[p].pc \in {"idle", "asked", "ready"}
         \/ Past(poll'[p].seen.runtime, poll'[p].seen.operation, bridge)
  PROVE  (Observed /\ Alone /\ Held)'
<1>1. ObservedPolls'
  BY DEF CInv, Observed, ObservedPolls, Observing
<1> QED
  BY <1>1, ObservationStep

LEMMA StatusIsPast == CInv => Past(status.runtime, status.operation, bridge)
  BY DEF CInv, Observed

LEMMA OtherPollers ==
  ASSUME CInv, NEW p \in Pollers, NEW l, poll' = [poll EXCEPT ![p] = l]
  PROVE  poll'[p] = l /\ \A q \in Pollers : q # p => poll'[q] = poll[q]
  BY DEF CInv, IInv, Shapes, PollShapes, Has

LEMMA IdleHolds ==
  ASSUME CInv, NEW p \in Pollers, BeginRefresh(p) \/ FailRefresh(p) \/ Leave(p)
  PROVE  (Observed /\ Alone /\ Held)'
<1>1. PICK l : poll' = [poll EXCEPT ![p] = l] /\ l.pc \in {"idle", "asked"}
  <2>1. CASE BeginRefresh(p)
    <3>1. [NoLocals EXCEPT !.pc = "asked", !.epochs = controlEpochs, !.unlocks = unlockEpochs,
                           !.acceptances = acceptances].pc = "asked"
      BY DEF NoLocals
    <3> QED
      BY <2>1, <3>1 DEF BeginRefresh
  <2>2. NoLocals.pc = "idle"
    BY DEF NoLocals
  <2>3. CASE FailRefresh(p)
    BY <2>2, <2>3 DEF FailRefresh
  <2>4. CASE Leave(p)
    BY <2>2, <2>4 DEF Leave
  <2> QED
    BY <2>1, <2>3, <2>4
<1>2. UNCHANGED <<bridge, status, mon, control>>
  BY DEF BeginRefresh, FailRefresh, Leave
<1> QED
  BY <1>1, <1>2, StatusIsPast, OtherPollers, PollerStep

LEMMA ServeStatusHolds ==
  ASSUME CInv, NEW p \in Pollers, ServeStatus(p) PROVE (Observed /\ Alone /\ Held)'
<1> DEFINE l == [poll[p] EXCEPT !.pc = "served", !.seen = Observation]
<1>1. poll' = [poll EXCEPT ![p] = l]
  BY DEF ServeStatus, CInv, IInv, Shapes, PollShapes, Has
<1>2. l.seen.runtime = bridge.runtime /\ l.seen.operation = bridge.operation
  BY DEF Observation, CInv, IInv, Shapes, ObsShapes, PollShapes, IsPoll, IsObservation, Has
<1>3. Past(bridge.runtime, bridge.operation, bridge)
  BY PrecedesItself DEF Past, CInv, Observed, IsCall, IInv, Shapes, ObsShapes, IsObservation
<1>4. UNCHANGED <<bridge, status, mon, control>>
  BY DEF ServeStatus
<1> HIDE DEF l
<1>5. poll'[p] = l /\ \A q \in Pollers : q # p => poll'[q] = poll[q]
  BY <1>1, OtherPollers
<1> QED
  BY <1>2, <1>3, <1>4, <1>5, StatusIsPast, PollerStep

LEMMA EndRefreshHolds ==
  ASSUME CInv, NEW p \in Pollers, EndRefresh(p) PROVE (Observed /\ Alone /\ Held)'
<1> DEFINE seen == poll[p].seen
           accepted == {x \in Stations : acceptances[x] # poll[p].acceptances[x]}
           reply == Fenced(seen, accepted)
           l == [NoLocals EXCEPT !.pc = "ready"]
<1>1. IsObservation(seen) /\ ObsShapes /\ Past(seen.runtime, seen.operation, bridge)
  BY DEF EndRefresh, CInv, Observed, ObservedPolls, Observing, IInv, Shapes, PollShapes, IsPoll
<1>2. reply.runtime = seen.runtime /\ reply.operation = seen.operation
  <2> HIDE DEF seen, accepted
  <2> QED
    BY <1>1, FencedRecords
<1>3. /\ status' = status \/ status' = reply
      /\ poll' = [poll EXCEPT ![p] = l] /\ l.pc = "ready"
      /\ UNCHANGED <<bridge, mon, control>>
  BY DEF EndRefresh, NoLocals
<1> HIDE DEF reply, l
<1>4. Past(status'.runtime, status'.operation, bridge)
  BY <1>1, <1>2, <1>3, StatusIsPast
<1> QED
  BY <1>3, <1>4, OtherPollers, PollerStep

LEMMA BeginSyncHolds ==
  ASSUME CInv, NEW p \in Pollers, BeginSync(p) PROVE (Observed /\ Alone /\ Held)'
<1> DEFINE l == [poll[p] EXCEPT !.pc = "syncing", !.seen = status, !.epochs = statusEpochs]
<1>1. poll' = [poll EXCEPT ![p] = l]
  BY DEF BeginSync, CInv, IInv, Shapes, PollShapes, Has
<1>2. l.seen = status
  BY DEF CInv, IInv, Shapes, PollShapes, IsPoll, Has
<1>3. UNCHANGED <<bridge, status, mon, control>>
  BY DEF BeginSync
<1> HIDE DEF l
<1>4. poll'[p] = l /\ \A q \in Pollers : q # p => poll'[q] = poll[q]
  BY <1>1, OtherPollers
<1>5. Past(l.seen.runtime, l.seen.operation, bridge) /\ Past(status.runtime, status.operation, bridge)
  BY <1>2, StatusIsPast
<1> QED
  BY <1>3, <1>4, <1>5, PollerStep

LEMMA EndMonitorStatusHolds ==
  ASSUME CInv, NEW p \in Pollers, EndMonitorStatus(p) PROVE (Observed /\ Alone /\ Held)'
<1> DEFINE l == [poll[p] EXCEPT !.pc = "applying", !.todo = Stations]
<1>1. poll' = [poll EXCEPT ![p] = l] \/ poll' = [poll EXCEPT ![p] = NoLocals]
  BY DEF EndMonitorStatus, CInv, IInv, Shapes, PollShapes, Has
<1>2. l.seen = poll[p].seen /\ NoLocals.pc = "idle"
  BY DEF CInv, IInv, Shapes, PollShapes, IsPoll, Has, NoLocals
<1>3. Past(poll[p].seen.runtime, poll[p].seen.operation, bridge)
  BY DEF EndMonitorStatus, CInv, Observed, ObservedPolls, Observing
<1>4. UNCHANGED <<bridge, status, mon, control>>
  BY DEF EndMonitorStatus
<1> HIDE DEF l
<1>5. /\ poll'[p] = l \/ poll'[p] = NoLocals
      /\ \A q \in Pollers : q # p => poll'[q] = poll[q]
  BY <1>1, OtherPollers
<1>6. poll'[p].pc = "idle" \/ Past(poll'[p].seen.runtime, poll'[p].seen.operation, bridge)
  BY <1>2, <1>3, <1>5
<1> QED
  BY <1>4, <1>5, <1>6, StatusIsPast, PollerStep

\* Unlocks and video requests leave the calls of the observation alone.
LEMMA ElsewhereHolds ==
  ASSUME CInv, UNCHANGED <<bridge, poll, mon, control>>,
         status'.runtime = status.runtime, status'.operation = status.operation
  PROVE  (Observed /\ Alone /\ Held)'
  BY StatusIsPast, ObservationStep DEF CInv, Observed, ObservedPolls, Observing

LEMMA EndUnlockHolds ==
  ASSUME CInv, NEW u \in Unlocks, EndUnlock(u) PROVE (Observed /\ Alone /\ Held)'
<1>1. PICK row, k : status' = status \/ status' = [status EXCEPT !.unlock[k] = row]
  BY DEF EndUnlock
<1>2. status'.runtime = status.runtime /\ status'.operation = status.operation
  BY <1>1 DEF CInv, IInv, Shapes, ObsShapes, IsObservation, Has
<1> QED
  BY <1>2, ElsewhereHolds DEF EndUnlock

-----------------------------------------------------------------------------
(* The steps of the coordinators and of their requests                     *)

LEMMA BridgeStays == CInv => Moves(bridge, bridge)
  BY PrecedesItself DEF CInv, Observed, IsCall, Moves, IInv, Shapes, ObsShapes, IsObservation

\* A request that nothing touches keeps what it holds.
LEMMA OtherHeld ==
  ASSUME CInv, Moves(bridge, bridge'), NEW d \in Controls, control'[d] = control[d],
         Busy(d) /\ ~Replaced(d)'
           => ~Replaced(d) /\ mon'[control[d].station].operation = mon[control[d].station].operation
  PROVE  HeldBy(d)'
<1>1. HeldBy(d)
  BY DEF CInv, Held
<1>2. CASE Busy(d) /\ ~Replaced(d)'
  <2> QED
    BY <1>1, <1>2, PastStays DEF HeldBy, Busy, Replaced, CallHeld, HangupHeld, Failed
<1>3. CASE ~(Busy(d) /\ ~Replaced(d)')
  BY <1>3 DEF HeldBy, Busy, Replaced
<1> QED
  BY <1>2, <1>3

\* The coordinator of one station changes.
LEMMA MonitorStep ==
  ASSUME CInv, UNCHANGED <<bridge, status>>, ObservedPolls', NEW x \in Stations, NEW m,
         mon' = [mon EXCEPT ![x] = m], Past(m.runtime, m.operation, bridge),
         m.operation # NoOperation => m.operation.station = x, Forward(mon[x], m)
  PROVE  /\ Observed' /\ \A y \in Stations : Forward(mon[y], mon'[y])
         /\ mon'[x] = m /\ \A y \in Stations : y # x => mon'[y] = mon[y]
<1>1. mon'[x] = m /\ \A y \in Stations : y # x => mon'[y] = mon[y]
  BY DEF CInv, IInv, Shapes, MonShapes, Has
<1>2. \A y \in Stations : Forward(mon[y], mon[y])
  BY Stages DEF CInv, Observed, ObservedMonitors, Past, IsOperation, Forward
<1>3. Observed'
  BY <1>1 DEF CInv, Observed, ObservedMonitors
<1> QED
  BY <1>1, <1>2, <1>3

LEMMA OtherControls ==
  ASSUME CInv, NEW c \in Controls, NEW l, control' = [control EXCEPT ![c] = l]
  PROVE  Has(control', Controls) /\ control'[c] = l /\ \A d \in Controls : d # c => control'[d] = control[d]
  BY DEF CInv, Alone, Has

LEMMA ReplaceMonitorHolds ==
  ASSUME CInv, NEW x \in Stations, ReplaceMonitor(x)
  PROVE  (Observed /\ Alone /\ Held)' /\ \A y \in Stations : Forward(mon[y], mon'[y])
<1> DEFINE m == NewMonitor(bridge.runtime, controlEpochs[x])
<1>1. m.runtime = bridge.runtime /\ m.operation = NoOperation
  BY DEF NewMonitor
<1>2. bridge.runtime \in Nat /\ mon[x].runtime \in Nat /\ mon[x].runtime < bridge.runtime
  BY DEF ReplaceMonitor, CInv, Observed, ObservedMonitors, Past, IInv, Shapes, ObsShapes, IsObservation
<1>3. mon' = [mon EXCEPT ![x] = m] /\ UNCHANGED <<bridge, status, poll, control>>
  BY DEF ReplaceMonitor
<1> HIDE DEF m
<1>4. Past(m.runtime, m.operation, bridge)
  BY <1>1, <1>2, PastNone DEF CInv, Observed
<1>5. ObservedPolls'
  BY <1>3 DEF CInv, Observed, ObservedPolls, Observing
<1>6. /\ Observed' /\ \A y \in Stations : Forward(mon[y], mon'[y])
      /\ mon'[x] = m /\ \A y \in Stations : y # x => mon'[y] = mon[y]
  BY <1>1, <1>3, <1>4, <1>5, MonitorStep DEF Forward
<1>7. Alone'
  BY <1>1, <1>2, <1>3, <1>6 DEF CInv, Alone, Busy
<1>8. ASSUME NEW d \in Controls PROVE HeldBy(d)'
  <2>1. Busy(d) => control[d].station \in Stations /\ control[d].runtime \in Nat
                   /\ control[d].runtime <= mon[control[d].station].runtime
    BY DEF CInv, Alone
  <2>2. Busy(d) /\ ~Replaced(d)'
          => ~Replaced(d) /\ mon'[control[d].station].operation = mon[control[d].station].operation
    BY <1>1, <1>2, <1>3, <1>6, <2>1 DEF Replaced
  <2> QED
    BY <1>3, <2>2, OtherHeld, BridgeStays
<1> QED
  BY <1>6, <1>7, <1>8 DEF Held

LEMMA ApplyStatusHolds ==
  ASSUME CInv, NEW p \in Pollers, NEW x \in Stations, ApplyStatus(p, x)
  PROVE  (Observed /\ Alone /\ Held)' /\ \A y \in Stations : Forward(mon[y], mon'[y])
<1> DEFINE seen == poll[p].seen
           Taken == Admits(x, seen, poll[p].epochs[x]) /\ ~Outrun(mon[x], seen.operation, x)
           m == IF Taken THEN Shown(mon[x], x, seen) ELSE mon[x]
           op == IF Taken /\ seen.operation.station = x THEN seen.operation ELSE mon[x].operation
<1>1. mon' = [mon EXCEPT ![x] = m] /\ UNCHANGED <<bridge, status, control>>
  BY DEF ApplyStatus, CInv, IInv, Shapes, MonShapes, Has
<1>2. m.runtime = mon[x].runtime /\ m.operation = op
  <2>1. IsMonitor(mon[x])
    BY DEF CInv, IInv, Shapes, MonShapes
  <2>2. ASSUME NEW l, IsMonitor(l), NEW s
        PROVE  /\ Shown(l, x, s).runtime = l.runtime
               /\ Shown(l, x, s).operation = IF s.operation.station = x THEN s.operation ELSE l.operation
    BY <2>2 DEF Shown, IsMonitor, Has
  <2> HIDE DEF seen, Taken
  <2> QED
    BY <2>1, <2>2
<1>3. /\ Past(seen.runtime, seen.operation, bridge)
      /\ Past(mon[x].runtime, mon[x].operation, bridge)
      /\ mon[x].operation # NoOperation => mon[x].operation.station = x
  BY DEF ApplyStatus, CInv, Observed, ObservedPolls, ObservedMonitors, Observing
<1>4. Taken => /\ seen.runtime = mon[x].runtime /\ ~Locked(x)
               /\ ~Outrun(mon[x], seen.operation, x)
  BY DEF Admits
<1>5. ObservedPolls'
  <2>1. /\ \A q \in Pollers : q # p => poll'[q] = poll[q]
        /\ poll'[p].pc = "idle" \/ (poll'[p].pc = "applying" /\ poll'[p].seen = seen)
    <3>1. \/ poll' = [poll EXCEPT ![p] = NoLocals]
          \/ poll' = [poll EXCEPT ![p] = [poll[p] EXCEPT !.todo = poll[p].todo \ {x}]]
      BY DEF ApplyStatus, CInv, IInv, Shapes, PollShapes, Has
    <3>2. NoLocals.pc = "idle"
      BY DEF NoLocals
    <3>3. poll[p].pc = "applying" /\ IsPoll(poll[p]) /\ Has(poll, Pollers)
      BY DEF ApplyStatus, CInv, IInv, Shapes, PollShapes
    <3>4. /\ [poll[p] EXCEPT !.todo = poll[p].todo \ {x}].pc = "applying"
          /\ [poll[p] EXCEPT !.todo = poll[p].todo \ {x}].seen = seen
      BY <3>3 DEF IsPoll, Has
    <3> QED
      BY <3>1, <3>2, <3>3, <3>4 DEF Has
  <2> QED
    BY <1>1, <1>3, <2>1 DEF CInv, Observed, ObservedPolls, Observing
<1> HIDE DEF m, Taken, seen
<1>6. Past(m.runtime, m.operation, bridge) /\ (m.operation # NoOperation => m.operation.station = x)
  BY <1>2, <1>3, <1>4
<1>7. Forward(mon[x], m)
  <2>1. CASE m.operation = mon[x].operation
    BY <1>3, <2>1, Stages DEF Past, IsOperation, Forward
  <2>2. CASE Taken /\ seen.operation.station = x
    BY <1>2, <1>3, <1>4, <2>2, Stages DEF Past, IsOperation, Forward, Outrun
  <2> QED
    BY <1>2, <2>1, <2>2
<1>8. /\ Observed' /\ \A y \in Stations : Forward(mon[y], mon'[y])
      /\ mon'[x] = m /\ \A y \in Stations : y # x => mon'[y] = mon[y]
  BY <1>1, <1>5, <1>6, <1>7, MonitorStep
<1>9. Alone'
  BY <1>1, <1>2, <1>8 DEF CInv, Alone, Busy
<1>10. ASSUME NEW d \in Controls PROVE HeldBy(d)'
  <2>1. Busy(d) => control[d].station \in Stations
    BY DEF CInv, Alone
  <2>2. Busy(d) /\ ~Replaced(d)'
          => ~Replaced(d) /\ mon'[control[d].station].operation = mon[control[d].station].operation
    BY <1>1, <1>2, <1>4, <1>8, <2>1 DEF Replaced, Locked, Busy
  <2> QED
    BY <1>1, <2>2, OtherHeld, BridgeStays
<1> QED
  BY <1>8, <1>9, <1>10 DEF Held

\* A request begins: the coordinator keeps its operation, or drops it for a call.
LEMMA BeginRequestHolds ==
  ASSUME CInv, NEW c \in Controls, NEW x \in Stations, NEW m, NEW request,
         BeginRequest(c, x, m, request), IsMonitor(m), m.runtime = mon[x].runtime,
         m.operation \in {NoOperation, mon[x].operation},
         Has(request, DOMAIN NoRequest), request.pc = "posted",
         request.station = x, request.runtime = mon[x].runtime,
         request.kind = "call" => m.operation = NoOperation,
         request.kind = "hangup" /\ request.condition # 0
           => m.operation # NoOperation /\ m.operation.id = request.condition
  PROVE  (Observed /\ Alone /\ Held)' /\ \A y \in Stations : Forward(mon[y], mon'[y])
<1> DEFINE next == [m EXCEPT !.epoch = m.epoch + 1]
           l == IF status.runtime = mon[x].runtime THEN request ELSE NoRequest
<1>1. /\ mon' = [mon EXCEPT ![x] = next] /\ control' = [control EXCEPT ![c] = l]
      /\ ~Busy(c) /\ ~Locked(x) /\ UNCHANGED <<bridge, status, poll>>
  BY DEF BeginRequest, Busy
<1>2. next.runtime = mon[x].runtime /\ next.operation = m.operation
  BY DEF IsMonitor, Has
<1>3. l.pc = "idle" \/ l = request
  BY DEF NoRequest
<1> HIDE DEF next, l
<1>4. /\ Past(mon[x].runtime, mon[x].operation, bridge)
      /\ mon[x].operation # NoOperation => mon[x].operation.station = x
      /\ IsCall(bridge.operation) /\ bridge.runtime \in Nat
  BY DEF CInv, Observed, ObservedMonitors, IInv, Shapes, ObsShapes, IsObservation
<1>5. Past(mon[x].runtime, NoOperation, bridge)
  BY <1>4, PastNone DEF Past
<1>6. Forward(mon[x], next)
  BY <1>2, <1>4, Stages DEF Forward, Past, IsOperation
<1>7. ObservedPolls'
  BY <1>1 DEF CInv, Observed, ObservedPolls, Observing
<1>8. /\ Observed' /\ \A y \in Stations : Forward(mon[y], mon'[y])
      /\ mon'[x] = next /\ \A y \in Stations : y # x => mon'[y] = mon[y]
  <2>1. /\ Past(next.runtime, next.operation, bridge)
        /\ next.operation # NoOperation => next.operation.station = x
    BY <1>2, <1>4, <1>5
  <2> QED
    BY <1>1, <1>6, <1>7, <2>1, MonitorStep
<1>9. Has(control', Controls) /\ control'[c] = l /\ \A d \in Controls : d # c => control'[d] = control[d]
  BY <1>1, OtherControls
<1>10. \A d \in Controls : Busy(d) => ~(control[d].station = x /\ control[d].runtime = mon[x].runtime)
  BY <1>1 DEF Locked, Busy
<1>11. Alone'
  <2>1. ASSUME NEW d \in Controls, Busy(d)'
        PROVE  /\ Has(control'[d], DOMAIN NoRequest) /\ control'[d].station \in Stations
               /\ control'[d].runtime \in Nat
               /\ control'[d].runtime <= mon'[control'[d].station].runtime
    <3>1. CASE d = c
      BY <1>2, <1>3, <1>4, <1>8, <1>9, <2>1, <3>1 DEF Busy, Past
    <3>2. CASE d # c
      BY <1>2, <1>8, <1>9, <2>1, <3>2 DEF Busy, CInv, Alone
    <3> QED
      BY <3>1, <3>2
  <2>2. ASSUME NEW d \in Controls, NEW e \in Controls, Busy(d)', Busy(e)',
               control'[d].station = control'[e].station, control'[d].runtime = control'[e].runtime
        PROVE  d = e
    <3>1. CASE d # c /\ e # c
      BY <1>9, <2>2, <3>1 DEF Busy, CInv, Alone
    <3>2. CASE d = c \/ e = c
      BY <1>3, <1>9, <1>10, <2>2, <3>2 DEF Busy
    <3> QED
      BY <3>1, <3>2
  <2> QED
    BY <1>9, <2>1, <2>2 DEF Alone
<1>12. ASSUME NEW d \in Controls, d # c PROVE HeldBy(d)'
  <2>1. Busy(d) => control[d].station \in Stations
    BY DEF CInv, Alone
  <2>2. Busy(d) /\ ~Replaced(d)'
          => ~Replaced(d) /\ mon'[control[d].station].operation = mon[control[d].station].operation
    BY <1>2, <1>8, <1>9, <1>10, <1>12, <2>1 DEF Replaced
  <2> QED
    BY <1>1, <1>9, <1>12, <2>2, OtherHeld, BridgeStays
<1>13. HeldBy(c)'
  BY <1>2, <1>3, <1>8, <1>9 DEF HeldBy, Busy, Replaced, CallHeld, HangupHeld, Failed
<1> QED
  BY <1>8, <1>11, <1>12, <1>13 DEF Held

LEMMA BeginCallHolds ==
  ASSUME CInv, NEW c \in Controls, NEW x \in Stations, BeginCall(c, x)
  PROVE  (Observed /\ Alone /\ Held)' /\ \A y \in Stations : Forward(mon[y], mon'[y])
<1> DEFINE m == [mon[x] EXCEPT !.operation = NoOperation, !.native = 0, !.accepted = FALSE,
                               !.state = "calling"]
           request == [NoRequest EXCEPT !.pc = "posted", !.kind = "call", !.station = x,
                                        !.runtime = mon[x].runtime]
<1>1. BeginRequest(c, x, m, request)
  BY DEF BeginCall
<1>2. IsMonitor(m) /\ m.runtime = mon[x].runtime /\ m.operation = NoOperation
  <2>1. IsMonitor(mon[x])
    BY DEF CInv, IInv, Shapes, MonShapes
  <2> QED
    BY <2>1 DEF IsMonitor, Has
<1>3. /\ Has(request, DOMAIN NoRequest) /\ request.pc = "posted" /\ request.kind = "call"
      /\ request.station = x /\ request.runtime = mon[x].runtime
  BY DEF NoRequest, Has
<1> HIDE DEF m, request
<1> QED
  BY <1>1, <1>2, <1>3, BeginRequestHolds

LEMMA BeginHangupHolds ==
  ASSUME CInv, NEW c \in Controls, NEW x \in Stations, BeginHangup(c, x)
  PROVE  (Observed /\ Alone /\ Held)' /\ \A y \in Stations : Forward(mon[y], mon'[y])
<1> DEFINE condition == Condition(mon[x])
           generation == ControlGeneration(x, mon[x].runtime, condition)
           request == [NoRequest EXCEPT !.pc = "posted", !.kind = "hangup", !.station = x,
                                        !.runtime = mon[x].runtime, !.condition = condition,
                                        !.generation = generation]
<1>1. BeginRequest(c, x, mon[x], request)
  BY DEF BeginHangup
<1>2. condition # 0 => mon[x].operation # NoOperation /\ mon[x].operation.id = condition
  BY DEF Condition
<1> HIDE DEF condition, generation
<1>3. /\ Has(request, DOMAIN NoRequest) /\ request.pc = "posted" /\ request.kind = "hangup"
      /\ request.station = x /\ request.runtime = mon[x].runtime /\ request.condition = condition
  BY DEF NoRequest, Has
<1>4. IsMonitor(mon[x])
  BY DEF CInv, IInv, Shapes, MonShapes
<1> HIDE DEF request
<1> QED
  BY <1>1, <1>2, <1>3, <1>4, BeginRequestHolds

\* A request is answered, or its answer is dealt with in part.
LEMMA AnswerHolds ==
  ASSUME CInv, Moves(bridge, bridge'), IsCall(bridge'.operation), UNCHANGED <<status, poll, mon>>,
         NEW c \in Controls, NEW l, control' = [control EXCEPT ![c] = l], Busy(c),
         Has(l, DOMAIN NoRequest), l.station = control[c].station, l.runtime = control[c].runtime,
         HeldBy(c)'
  PROVE  (Observed /\ Alone /\ Held)'
<1>1. Observed'
  BY PastStays DEF CInv, Observed, ObservedPolls, ObservedMonitors, Observing
<1>2. Has(control', Controls) /\ control'[c] = l /\ \A d \in Controls : d # c => control'[d] = control[d]
  BY OtherControls
<1>3. \A d \in Controls : /\ Busy(d)' => Busy(d)
                          /\ control'[d].station = control[d].station
                          /\ control'[d].runtime = control[d].runtime
                          /\ Busy(d)' => Has(control'[d], DOMAIN NoRequest)
  BY <1>2 DEF CInv, Alone, Busy
<1>4. Alone'
  <2>1. Alone
    BY DEF CInv
  <2> QED
    BY <1>2, <1>3, <2>1 DEF Alone
<1>5. ASSUME NEW d \in Controls, d # c PROVE HeldBy(d)'
  <2>1. Busy(d) /\ ~Replaced(d)'
          => ~Replaced(d) /\ mon'[control[d].station].operation = mon[control[d].station].operation
    BY <1>2, <1>5 DEF Replaced
  <2> QED
    BY <1>2, <1>5, <2>1, OtherHeld
<1> QED
  BY <1>1, <1>4, <1>5 DEF Held

LEMMA LoseRequestHolds ==
  ASSUME CInv, NEW c \in Controls, LoseRequest(c)
  PROVE  (Observed /\ Alone /\ Held)'
<1> DEFINE l == [control[c] EXCEPT !.pc = "answered", !.reply = "lost"]
<1>1. /\ control' = [control EXCEPT ![c] = l] /\ UNCHANGED <<bridge, status, poll, mon>>
      /\ Busy(c) /\ Has(control[c], DOMAIN NoRequest) /\ HeldBy(c)
  BY DEF LoseRequest, CInv, Alone, Held, Has, Busy
<1>2. /\ Has(l, DOMAIN NoRequest) /\ l.station = control[c].station /\ l.runtime = control[c].runtime
      /\ l.kind = control[c].kind /\ l.condition = control[c].condition
      /\ l.pc = "answered" /\ l.reply = "lost"
  BY <1>1 DEF Has, NoRequest
<1>3. control'[c] = l
  BY <1>1, OtherControls
<1> HIDE DEF l
<1>4. HeldBy(c)'
  BY <1>1, <1>2, <1>3 DEF HeldBy, Busy, Replaced, CallHeld, HangupHeld, Failed
<1>5. IsCall(bridge.operation)
  BY DEF CInv, Observed
<1> QED
  BY <1>1, <1>2, <1>4, <1>5, BridgeStays, AnswerHolds

LEMMA ServeCallHolds ==
  ASSUME CInv, NEW c \in Controls, ServeCall(c)
  PROVE  (Observed /\ Alone /\ Held)'
<1> DEFINE op == [NoOperation EXCEPT !.id = bridge.operation.id + 1, !.station = control[c].station,
                                     !.stage = "preparing"]
           accepted == [control[c] EXCEPT !.pc = "answered", !.reply = "accepted", !.condition = op.id]
           refused == [control[c] EXCEPT !.pc = "answered", !.reply = "refused"]
<1>1. /\ Busy(c) /\ Has(control[c], DOMAIN NoRequest) /\ HeldBy(c) /\ control[c].kind = "call"
      /\ IsCall(bridge.operation) /\ IsObservation(bridge) /\ UNCHANGED <<status, poll, mon>>
      /\ Has(control, Controls)
  BY DEF ServeCall, CInv, Alone, Held, Observed, Busy, IInv, Shapes, ObsShapes
<1>2. CASE /\ control' = [control EXCEPT ![c] = accepted] /\ bridge' = [bridge EXCEPT !.operation = op]
           /\ bridge.runtime = control[c].runtime
  <2>1. bridge.operation.id \in Nat /\ StageOrder["preparing"] = 1 /\ "preparing" \in DOMAIN StageOrder
    BY <1>1 DEF IsCall, IsOperation, StageOrder
  <2>2. /\ Has(op, {"id", "station", "stage", "generation"}) /\ op.id = bridge.operation.id + 1
        /\ op.station = control[c].station /\ op.stage = "preparing"
    BY DEF Has, NoOperation
  <2> HIDE DEF op
  <2>3. /\ Has(accepted, DOMAIN NoRequest) /\ accepted.station = control[c].station
        /\ accepted.runtime = control[c].runtime /\ accepted.kind = "call" /\ accepted.pc = "answered"
        /\ accepted.condition = op.id
    BY <1>1 DEF Has, NoRequest
  <2>4. control'[c] = accepted
    BY <1>2, OtherControls
  <2>5. op = [NoOperation EXCEPT !.id = op.id, !.station = control[c].station, !.stage = "preparing"]
    BY DEF op
  <2> HIDE DEF accepted
  <2>6. bridge'.operation = op /\ bridge'.runtime = bridge.runtime
    BY <1>1, <1>2 DEF IsObservation, Has
  <2>7. IsCall(op) /\ op.id \in Nat \ {0} /\ Precedes(bridge.operation, op)
    BY <2>1, <2>2 DEF IsCall, IsOperation, Precedes
  <2>8. Moves(bridge, bridge')
    BY <1>1, <2>6, <2>7 DEF Moves, IsObservation, IsCall
  <2>9. Past(bridge.runtime, op, bridge')
    BY <1>1, <2>6, <2>7, PrecedesItself DEF Past, IsCall, IsObservation
  <2>10. HeldBy(c)'
    <3>1. ~Replaced(c)' => CallHeld(c)
      BY <1>1, <2>3, <2>4 DEF HeldBy, Replaced
    <3>2. ~Replaced(c)' => CallHeld(c)'
      <4>1. /\ control'[c].station = control[c].station /\ control'[c].runtime = bridge.runtime
            /\ control'[c].condition = op.id
        BY <1>2, <2>3, <2>4
      <4>2. Past(control'[c].runtime,
                 [NoOperation EXCEPT !.id = control'[c].condition, !.station = control'[c].station,
                                     !.stage = "preparing"], bridge')
        BY <2>5, <2>9, <4>1
      <4>3. CallHeld(c) => mon'[control'[c].station].operation = NoOperation
        BY <1>1, <4>1 DEF CallHeld
      <4> QED
        BY <2>7, <3>1, <4>1, <4>2, <4>3 DEF CallHeld
    <3> QED
      BY <2>3, <2>4, <3>2 DEF HeldBy
  <2> QED
    BY <1>1, <1>2, <2>3, <2>6, <2>7, <2>8, <2>10, AnswerHolds
<1>3. CASE control' = [control EXCEPT ![c] = refused] /\ UNCHANGED bridge
  <2>1. /\ Has(refused, DOMAIN NoRequest) /\ refused.station = control[c].station
        /\ refused.runtime = control[c].runtime /\ refused.kind = "call" /\ refused.pc = "answered"
        /\ refused.reply = "refused"
    BY <1>1 DEF Has, NoRequest
  <2>2. control'[c] = refused
    BY <1>3, OtherControls
  <2> HIDE DEF refused
  <2>3. HeldBy(c)'
    BY <1>1, <2>1, <2>2 DEF HeldBy, Busy, Replaced, CallHeld, Failed
  <2> QED
    BY <1>1, <1>3, <2>1, <2>3, BridgeStays, AnswerHolds
<1>4. \/ /\ control' = [control EXCEPT ![c] = accepted] /\ bridge' = [bridge EXCEPT !.operation = op]
         /\ bridge.runtime = control[c].runtime
      \/ control' = [control EXCEPT ![c] = refused] /\ UNCHANGED bridge
  BY <1>1 DEF ServeCall, Has
<1> QED
  BY <1>2, <1>3, <1>4

LEMMA ServeHangupHolds ==
  ASSUME CInv, NEW c \in Controls, ServeHangup(c)
  PROVE  (Observed /\ Alone /\ Held)'
<1> DEFINE op == bridge.operation
           x == control[c].station
           named == control[c].condition
           calls == ActiveCall(bridge) /\ op.station = x /\ (named # 0 => named = op.id)
           speaks == named = 0 /\ Live(bridge.native) /\ bridge.native.station = x
           reply ==
             IF bridge.runtime # control[c].runtime \/ (named # 0 /\ named # op.id) THEN "refused"
             ELSE IF calls \/ speaks THEN "ending" ELSE IF named # 0 THEN "ended" ELSE "idle"
           l == [control[c] EXCEPT !.pc = "answered", !.reply = reply]
           next == IF reply = "ending" /\ calls THEN [op EXCEPT !.stage = "ending"] ELSE op
<1>1. /\ Busy(c) /\ Has(control[c], DOMAIN NoRequest) /\ HeldBy(c) /\ control[c].kind = "hangup"
      /\ x \in Stations /\ IsCall(op) /\ IsObservation(bridge) /\ UNCHANGED <<status, poll, mon>>
      /\ Has(control, Controls) /\ control[c].pc = "posted"
  BY DEF ServeHangup, CInv, Alone, Held, Observed, Busy, IInv, Shapes, ObsShapes
<1>2. control' = [control EXCEPT ![c] = l]
  BY <1>1 DEF ServeHangup, Has
<1>3. Has(op, {"id", "station", "stage", "generation"}) /\ op.id \in Nat /\ op.stage \in DOMAIN StageOrder
  BY <1>1 DEF IsCall, IsOperation
<1>4. bridge'.operation = next /\ bridge'.runtime = bridge.runtime
  <2>1. CASE reply # "ending"
    <3>1. bridge' = bridge
      BY <2>1 DEF ServeHangup
    <3> QED
      BY <2>1, <3>1
  <2>2. CASE reply = "ending"
    <3>1. PICK s, n : /\ bridge' = [bridge EXCEPT !.operation.stage = s, !.native.session = n]
                      /\ s = IF calls THEN "ending" ELSE op.stage
      BY <2>2 DEF ServeHangup
    <3>2. bridge'.operation = [op EXCEPT !.stage = s] /\ bridge'.runtime = bridge.runtime
      BY <1>1, <3>1 DEF IsObservation, Has
    <3>3. [op EXCEPT !.stage = op.stage] = op
      BY <1>3 DEF Has
    <3> QED
      BY <2>2, <3>1, <3>2, <3>3
  <2> QED
    BY <2>1, <2>2
<1> HIDE DEF reply
<1>5. /\ Has(l, DOMAIN NoRequest) /\ l.station = x /\ l.runtime = control[c].runtime
      /\ l.kind = "hangup" /\ l.condition = named /\ l.pc = "answered" /\ l.reply = reply
  BY <1>1 DEF Has, NoRequest
<1>6. control'[c] = l
  BY <1>2, OtherControls
<1> HIDE DEF l
<1>7. ActiveCall(bridge) => op.id # 0
  BY <1>1 DEF ActiveCall, IsCall, NoOperation
<1>8. IsCall(next) /\ Precedes(op, next)
  <2>1. CASE next = op
    BY <1>1, <2>1, PrecedesItself DEF IsCall
  <2>2. CASE calls /\ next = [op EXCEPT !.stage = "ending"]
    <3>1. /\ Has(next, {"id", "station", "stage", "generation"})
          /\ next.id = op.id /\ next.station = op.station /\ next.stage = "ending"
      BY <1>3, <2>2 DEF Has
    <3> HIDE DEF next
    <3> QED
      BY <1>3, <1>7, <2>2, <3>1 DEF IsCall, IsOperation, Precedes, ActiveCall, StageOrder
  <2> QED
    BY <2>1, <2>2
<1>9. Moves(bridge, bridge') /\ IsCall(bridge'.operation)
  BY <1>1, <1>4, <1>8 DEF Moves, IsCall, IsObservation
<1>10. ASSUME ~Replaced(c), named # 0
       PROVE  LET o == mon[x].operation
                  ended == [o EXCEPT !.stage = reply]
              IN /\ o # NoOperation /\ o.id = named
                 /\ reply # "refused" =>
                      /\ reply \in {"ending", "ended"} /\ StageOrder[o.stage] <= StageOrder[reply]
                      /\ Past(control[c].runtime, ended, bridge')
  <2> DEFINE o == mon[x].operation
             ended == [o EXCEPT !.stage = reply]
  <2>1. o # NoOperation /\ o.id = named
    BY <1>1, <1>10 DEF HeldBy, HangupHeld
  <2>2. Past(control[c].runtime, o, bridge) /\ o.station = x
    BY <1>1, <1>10, <2>1 DEF CInv, Observed, ObservedMonitors, Replaced
  <2> HIDE DEF o
  <2>3. ASSUME reply # "refused"
        PROVE  /\ bridge.runtime = control[c].runtime /\ named = op.id
               /\ reply = IF calls THEN "ending" ELSE "ended"
    BY <1>10, <2>3 DEF reply
  <2>4. ASSUME reply # "refused"
        PROVE  /\ StageOrder[o.stage] <= StageOrder[reply] /\ next.stage = reply
               /\ next.id = named /\ next.station = x
    <3>1. /\ o.id \in Nat /\ o.stage \in DOMAIN StageOrder
          /\ op.station = x /\ StageOrder[o.stage] <= StageOrder[op.stage]
      BY <2>1, <2>2, <2>3, <2>4 DEF Past, Precedes, IsOperation
    <3>2. CASE calls
      <4>1. next.stage = "ending" /\ next.id = op.id /\ next.station = op.station
        BY <1>3, <2>3, <2>4, <3>2 DEF Has
      <4> QED
        BY <2>3, <2>4, <3>1, <3>2, <4>1 DEF ActiveCall, StageOrder
    <3>3. CASE ~calls
      <4>1. ~ActiveCall(bridge) /\ next = op
        BY <2>3, <2>4, <3>1, <3>3
      <4>2. op.stage # "idle"
        BY <1>1, <1>10, <2>3, <2>4 DEF IsCall, NoOperation
      <4>3. op.stage = "ended"
        BY <1>3, <4>1, <4>2 DEF ActiveCall, StageOrder
      <4> QED
        BY <2>3, <2>4, <3>1, <3>3, <4>1, <4>3 DEF StageOrder
    <3> QED
      BY <3>2, <3>3
  <2>5. /\ Has(ended, {"id", "station", "stage", "generation"}) /\ ended.id = o.id
        /\ ended.station = o.station /\ ended.stage = reply
    BY <2>2 DEF Past, IsOperation, Has
  <2> HIDE DEF ended, next
  <2>6. reply # "refused" => Past(control[c].runtime, ended, bridge')
    <3>1. reply # "refused" => reply \in DOMAIN StageOrder
      BY <2>3 DEF StageOrder
    <3> QED
      BY <1>1, <1>4, <2>1, <2>2, <2>3, <2>4, <2>5, <3>1, Stages
         DEF Past, Precedes, IsOperation, IsObservation
  <2> QED
    BY <2>1, <2>3, <2>4, <2>6 DEF ended, o
<1> HIDE DEF named, x
<1>11. HeldBy(c)'
  <2>1. ~Replaced(c)' => ~Replaced(c)
    BY <1>1, <1>5, <1>6 DEF Replaced, x
  <2>2. ~Replaced(c)' => HangupHeld(c)'
    BY <1>1, <1>5, <1>6, <1>10, <2>1 DEF HangupHeld, Failed, x, named
  <2> QED
    BY <1>5, <1>6, <2>2 DEF HeldBy
<1> QED
  BY <1>1, <1>2, <1>5, <1>9, <1>11, AnswerHolds DEF x, named

\* A request is over: the coordinator takes the answer up, when it was not replaced.
LEMMA EndHolds ==
  ASSUME CInv, UNCHANGED <<bridge, status, poll>>, NEW c \in Controls, Busy(c),
         control' = [control EXCEPT ![c] = NoRequest],
         NEW m, mon' = [mon EXCEPT ![control[c].station] = m],
         m.runtime = mon[control[c].station].runtime,
         m.operation # mon[control[c].station].operation
           => /\ ~Replaced(c)
              /\ Past(m.runtime, m.operation, bridge) /\ m.operation.station = control[c].station
              /\ Forward(mon[control[c].station], m)
  PROVE  (Observed /\ Alone /\ Held)' /\ \A y \in Stations : Forward(mon[y], mon'[y])
<1> DEFINE x == control[c].station
<1>1. x \in Stations
  BY DEF CInv, Alone
<1>2. /\ Past(mon[x].runtime, mon[x].operation, bridge)
      /\ mon[x].operation # NoOperation => mon[x].operation.station = x
  BY <1>1 DEF CInv, Observed, ObservedMonitors
<1>3. ObservedPolls'
  BY DEF CInv, Observed, ObservedPolls, Observing
<1>4. Forward(mon[x], m)
  BY <1>2, Stages DEF Forward, Past, IsOperation
<1>5. Past(m.runtime, m.operation, bridge) /\ (m.operation # NoOperation => m.operation.station = x)
  BY <1>2
<1>6. mon' = [mon EXCEPT ![x] = m] /\ m.runtime = mon[x].runtime
      /\ (m.operation # mon[x].operation => ~Replaced(c))
  OBVIOUS
<1> HIDE DEF x
<1>7. /\ Observed' /\ \A y \in Stations : Forward(mon[y], mon'[y])
      /\ mon'[x] = m /\ \A y \in Stations : y # x => mon'[y] = mon[y]
  BY <1>1, <1>3, <1>4, <1>5, <1>6, MonitorStep
<1>8. /\ Has(control', Controls) /\ control'[c] = NoRequest
      /\ \A d \in Controls : d # c => control'[d] = control[d]
  BY OtherControls
<1>9. NoRequest.pc = "idle"
  BY DEF NoRequest
<1>10. Alone'
  <2>1. \A d \in Controls : Busy(d)' => d # c /\ Busy(d) /\ control'[d] = control[d]
    BY <1>8, <1>9 DEF Busy
  <2>2. \A y \in Stations : mon'[y].runtime = mon[y].runtime
    BY <1>6, <1>7
  <2>3. Alone
    BY DEF CInv
  <2> QED
    BY <1>8, <2>1, <2>2, <2>3 DEF Alone
<1>11. ASSUME NEW d \in Controls, d # c PROVE HeldBy(d)'
  <2>1. Alone
    BY DEF CInv
  <2>2. Busy(d) /\ ~Replaced(d)'
          => ~Replaced(d) /\ mon'[control[d].station].operation = mon[control[d].station].operation
    BY <1>6, <1>7, <1>8, <1>11, <2>1 DEF Replaced, Alone, x
  <2> QED
    BY <1>8, <1>11, <2>2, OtherHeld, BridgeStays
<1>12. HeldBy(c)'
  BY <1>8, <1>9 DEF HeldBy, Busy
<1> QED
  BY <1>7, <1>10, <1>11, <1>12 DEF Held

LEMMA EndCallHolds ==
  ASSUME CInv, NEW c \in Controls, EndCall(c)
  PROVE  (Observed /\ Alone /\ Held)' /\ \A y \in Stations : Forward(mon[y], mon'[y])
<1> DEFINE x == control[c].station
           o == [NoOperation EXCEPT !.id = control[c].condition, !.station = x, !.stage = "preparing"]
           failed == [mon[x] EXCEPT !.state = "failed"]
           called == [mon[x] EXCEPT !.accepted = TRUE, !.state = "calling", !.operation = o]
<1>1. /\ Busy(c) /\ HeldBy(c) /\ control[c].pc = "answered" /\ control[c].kind = "call"
      /\ control' = [control EXCEPT ![c] = NoRequest] /\ UNCHANGED <<bridge, status, poll>>
      /\ x \in Stations
  BY DEF EndCall, CInv, Alone, Held, Busy
<1>2. IsMonitor(mon[x])
  BY <1>1 DEF CInv, IInv, Shapes, MonShapes
<1>3. \/ mon' = [mon EXCEPT ![x] = mon[x]]
      \/ mon' = [mon EXCEPT ![x] = failed]
      \/ Current(c) /\ ~Failed(c) /\ mon' = [mon EXCEPT ![x] = called]
  BY DEF EndCall
<1>4. o.id = control[c].condition /\ o.station = x
  BY DEF NoOperation
<1> HIDE DEF o
<1>5. /\ failed.runtime = mon[x].runtime /\ failed.operation = mon[x].operation
      /\ called.runtime = mon[x].runtime /\ called.operation = o
  BY <1>2 DEF IsMonitor, Has
<1> HIDE DEF failed, called
<1>6. CASE mon' = [mon EXCEPT ![x] = mon[x]]
  BY <1>1, <1>6, EndHolds
<1>7. CASE mon' = [mon EXCEPT ![x] = failed]
  BY <1>1, <1>5, <1>7, EndHolds
<1>8. CASE Current(c) /\ ~Failed(c) /\ mon' = [mon EXCEPT ![x] = called]
  <2>1. ~Replaced(c) /\ control[c].runtime = mon[x].runtime
    BY <1>8 DEF Current, Replaced
  <2>2. CallHeld(c)
    BY <1>1, <2>1 DEF HeldBy
  <2>3. /\ mon[x].operation = NoOperation /\ control[c].condition \in Nat \ {0}
        /\ Past(mon[x].runtime, o, bridge)
    BY <1>1, <1>8, <2>1, <2>2 DEF CallHeld, o
  <2>4. Forward(mon[x], called)
    BY <1>4, <1>5, <2>3 DEF Forward, NoOperation
  <2> QED
    BY <1>1, <1>4, <1>5, <1>8, <2>1, <2>3, <2>4, EndHolds
<1> QED
  BY <1>3, <1>6, <1>7, <1>8

\* A hangup that is taken up.
LEMMA HungUpHolds ==
  ASSUME CInv, NEW c \in Controls, control[c].kind = "hangup", control[c].pc \in {"answered", "releasing"},
         ~Failed(c), control' = [control EXCEPT ![c] = NoRequest], mon' = HungUp(c),
         UNCHANGED <<bridge, status, poll>>
  PROVE  (Observed /\ Alone /\ Held)' /\ \A y \in Stations : Forward(mon[y], mon'[y])
<1> DEFINE x == control[c].station
           old == mon[x].operation
           o == IF old # NoOperation /\ control[c].condition # 0
                THEN [old EXCEPT !.stage = control[c].reply] ELSE old
           m == [mon[x] EXCEPT !.state = control[c].reply, !.operation = o]
<1>1. Busy(c) /\ HeldBy(c) /\ x \in Stations
  BY DEF CInv, Alone, Held, Busy
<1>2. IsMonitor(mon[x]) /\ Has(mon, Stations)
  BY <1>1 DEF CInv, IInv, Shapes, MonShapes
<1>3. CASE Replaced(c)
  <2>1. mon' = [mon EXCEPT ![x] = mon[x]]
    BY <1>2, <1>3 DEF HungUp, Has
  <2> QED
    BY <1>1, <2>1, EndHolds
<1>4. CASE ~Replaced(c)
  <2>1. mon' = [mon EXCEPT ![x] = m]
    BY <1>4 DEF HungUp
  <2> HIDE DEF o
  <2>2. m.runtime = mon[x].runtime /\ m.operation = o
    BY <1>2 DEF IsMonitor, Has
  <2> HIDE DEF m
  <2>3. CASE o = old
    BY <1>1, <2>1, <2>2, <2>3, EndHolds
  <2>4. CASE old # NoOperation /\ control[c].condition # 0
    <3>1. /\ control[c].runtime = mon[x].runtime
          /\ StageOrder[old.stage] <= StageOrder[control[c].reply]
          /\ Past(mon[x].runtime, o, bridge)
          /\ o = [old EXCEPT !.stage = control[c].reply]
      BY <1>1, <1>4, <2>4 DEF HeldBy, HangupHeld, Replaced, o
    <3>2. old.station = x /\ IsOperation(old) /\ Past(mon[x].runtime, old, bridge)
      BY <1>1, <2>4 DEF CInv, Observed, ObservedMonitors, Past
    <3>3. o.station = old.station /\ o.id = old.id /\ o.stage = control[c].reply
      BY <3>1, <3>2 DEF IsOperation, Has
    <3>4. IsOperation(o)
      BY <3>1 DEF Past
    <3>5. Forward(mon[x], m)
      BY <2>2, <3>1, <3>2, <3>3, <3>4, Stages DEF Forward, IsOperation
    <3>6. Past(m.runtime, m.operation, bridge) /\ m.operation.station = x
      BY <2>2, <3>1, <3>2, <3>3
    <3> QED
      BY <1>1, <1>4, <2>1, <2>2, <3>5, <3>6, EndHolds
  <2> QED
    BY <2>3, <2>4 DEF o
<1> QED
  BY <1>3, <1>4

LEMMA EndHangupHolds ==
  ASSUME CInv, NEW c \in Controls, EndHangup(c)
  PROVE  (Observed /\ Alone /\ Held)' /\ \A y \in Stations : Forward(mon[y], mon'[y])
<1> DEFINE l == [control[c] EXCEPT !.pc = "releasing"]
           x == control[c].station
<1>1. /\ Busy(c) /\ Has(control[c], DOMAIN NoRequest) /\ HeldBy(c) /\ x \in Stations
      /\ control[c].kind = "hangup" /\ control[c].pc = "answered" /\ Has(control, Controls)
      /\ Has(mon, Stations) /\ UNCHANGED <<bridge, status, poll>> /\ IsCall(bridge.operation)
  BY DEF EndHangup, CInv, Alone, Held, Observed, Busy, IInv, Shapes, MonShapes
<1>2. CASE control' = [control EXCEPT ![c] = l] /\ UNCHANGED mon /\ ~Failed(c)
  <2>1. /\ Has(l, DOMAIN NoRequest) /\ l.station = x /\ l.runtime = control[c].runtime
        /\ l.kind = "hangup" /\ l.condition = control[c].condition /\ l.pc = "releasing"
        /\ l.reply = control[c].reply
    BY <1>1 DEF Has, NoRequest
  <2>2. control'[c] = l
    BY <1>2, OtherControls
  <2> HIDE DEF l
  <2>3. HeldBy(c)'
    BY <1>1, <1>2, <2>1, <2>2 DEF HeldBy, Busy, Replaced, HangupHeld, Failed
  <2>4. \A y \in Stations : Forward(mon[y], mon'[y])
    BY <1>2, Stages DEF CInv, Observed, ObservedMonitors, Past, IsOperation, Forward
  <2> QED
    BY <1>1, <1>2, <2>1, <2>3, <2>4, BridgeStays, AnswerHolds
<1>3. CASE control' = [control EXCEPT ![c] = NoRequest] /\ UNCHANGED mon
  <2>1. mon' = [mon EXCEPT ![x] = mon[x]]
    BY <1>1, <1>3 DEF Has
  <2> QED
    BY <1>1, <1>3, <2>1, EndHolds
<1>4. CASE control' = [control EXCEPT ![c] = NoRequest] /\ mon' = HungUp(c) /\ ~Failed(c)
  BY <1>1, <1>4, HungUpHolds
<1>5. \/ control' = [control EXCEPT ![c] = l] /\ UNCHANGED mon /\ ~Failed(c)
      \/ control' = [control EXCEPT ![c] = NoRequest] /\ UNCHANGED mon
      \/ control' = [control EXCEPT ![c] = NoRequest] /\ mon' = HungUp(c) /\ ~Failed(c)
  BY <1>1 DEF EndHangup, Has
<1> QED
  BY <1>2, <1>3, <1>4, <1>5

LEMMA EndReleaseHolds ==
  ASSUME CInv, NEW c \in Controls, EndRelease(c)
  PROVE  (Observed /\ Alone /\ Held)' /\ \A y \in Stations : Forward(mon[y], mon'[y])
<1> DEFINE x == control[c].station
<1>1. /\ Busy(c) /\ HeldBy(c) /\ control[c].pc = "releasing" /\ x \in Stations /\ Has(mon, Stations)
      /\ control' = [control EXCEPT ![c] = NoRequest] /\ UNCHANGED <<bridge, status, poll>>
      /\ UNCHANGED mon \/ mon' = HungUp(c)
  BY DEF EndRelease, CInv, Alone, Held, Busy, IInv, Shapes, MonShapes
<1>2. CASE UNCHANGED mon \/ Replaced(c)
  <2>1. mon' = [mon EXCEPT ![x] = mon[x]]
    BY <1>1, <1>2 DEF Has, HungUp
  <2> QED
    BY <1>1, <2>1, EndHolds
<1>3. CASE mon' = HungUp(c) /\ ~Replaced(c)
  <2>1. control[c].kind = "hangup" /\ ~Failed(c)
    BY <1>1, <1>3 DEF HeldBy
  <2> QED
    BY <1>1, <1>3, <2>1, HungUpHolds
<1> QED
  BY <1>1, <1>2, <1>3

-----------------------------------------------------------------------------
(* The invariant, and what it is for                                       *)

LEMMA CInit == Init => CInv
<1> SUFFICES ASSUME Init PROVE CInv
  OBVIOUS
<1>1. IsCall(NoOperation) /\ Precedes(NoOperation, NoOperation)
  BY EarliestOperation
<1>2. bridge.operation = NoOperation /\ bridge.runtime = 1 /\ status.operation = NoOperation
      /\ status.runtime = 1
  BY DEF Init, Boot
<1>3. Past(1, NoOperation, bridge)
  BY <1>1, <1>2 DEF Past, IsCall
<1>4. Observed
  <2>1. \A p \in Pollers : ~Observing(p)
    BY DEF Init, Observing, NoLocals
  <2>2. \A x \in Stations : mon[x].runtime = 1 /\ mon[x].operation = NoOperation
    BY DEF Init, NewMonitor
  <2> QED
    BY <1>1, <1>2, <1>3, <2>1, <2>2 DEF Observed, ObservedPolls, ObservedMonitors
<1>5. Has(control, Controls) /\ \A c \in Controls : ~Busy(c)
  BY DEF Init, Has, Busy, NoRequest
<1> QED
  BY <1>4, <1>5, IInit DEF CInv, Alone, Held, HeldBy

LEMMA CStep == CInv /\ [Next]_vars => CInv' /\ \A y \in Stations : Forward(mon[y], mon'[y])
<1> SUFFICES ASSUME CInv, [Next]_vars
             PROVE  CInv' /\ \A y \in Stations : Forward(mon[y], mon'[y])
  OBVIOUS
<1>1. IInv'
  BY IStep DEF CInv
<1>2. UNCHANGED mon => \A y \in Stations : Forward(mon[y], mon'[y])
  BY Stages DEF CInv, Observed, ObservedMonitors, Past, IsOperation, Forward
<1> DEFINE Persists == (Observed /\ Alone /\ Held)' /\ \A y \in Stations : Forward(mon[y], mon'[y])
<1>3. ASSUME Advance \/ Restart PROVE Persists
  BY <1>2, <1>3, AdvanceHolds, RestartHolds DEF Advance, Restart
<1>4. ASSUME NEW x \in Stations, AdvanceUnlock(x) \/ ReplaceMonitor(x) PROVE Persists
  BY <1>2, <1>4, AdvanceUnlockHolds, ReplaceMonitorHolds DEF AdvanceUnlock
<1>5. ASSUME NEW p \in Pollers, BeginRefresh(p) \/ PollStep(p) \/ FailRefresh(p) \/ Leave(p) PROVE Persists
  <2>1. CASE BeginRefresh(p) \/ FailRefresh(p) \/ Leave(p)
    <3>1. UNCHANGED mon
      BY <2>1 DEF BeginRefresh, FailRefresh, Leave
    <3> QED
      BY <1>2, <2>1, <3>1, IdleHolds
  <2>2. CASE ServeStatus(p)
    BY <1>2, <2>2, ServeStatusHolds DEF ServeStatus
  <2>3. CASE EndRefresh(p)
    BY <1>2, <2>3, EndRefreshHolds DEF EndRefresh
  <2>4. CASE BeginSync(p)
    BY <1>2, <2>4, BeginSyncHolds DEF BeginSync
  <2>5. CASE EndMonitorStatus(p)
    BY <1>2, <2>5, EndMonitorStatusHolds DEF EndMonitorStatus
  <2>6. ASSUME NEW x \in Stations, ApplyStatus(p, x) PROVE Persists
    BY <2>6, ApplyStatusHolds
  <2> QED
    BY <1>5, <2>1, <2>2, <2>3, <2>4, <2>5, <2>6 DEF PollStep
<1>6. ASSUME NEW c \in Controls, ControlStep(c) \/ LoseRequest(c) PROVE Persists
  <2>1. CASE ServeCall(c)
    BY <1>2, <2>1, ServeCallHolds DEF ServeCall
  <2>2. CASE ServeHangup(c)
    BY <1>2, <2>2, ServeHangupHolds DEF ServeHangup
  <2>3. CASE LoseRequest(c)
    BY <1>2, <2>3, LoseRequestHolds DEF LoseRequest
  <2> QED
    BY <1>6, <2>1, <2>2, <2>3, EndCallHolds, EndHangupHolds, EndReleaseHolds DEF ControlStep
<1>7. ASSUME NEW c \in Controls, NEW x \in Stations, BeginCall(c, x) \/ BeginHangup(c, x) PROVE Persists
  BY <1>7, BeginCallHolds, BeginHangupHolds
<1>8. ASSUME NEW u \in Unlocks, UnlockStep(u) PROVE Persists
  <2>1. CASE ServeUnlock(u)
    BY <1>2, <2>1, ServeUnlockHolds DEF ServeUnlock
  <2>2. CASE EndUnlock(u)
    BY <1>2, <2>2, EndUnlockHolds DEF EndUnlock
  <2> QED
    BY <1>8, <2>1, <2>2 DEF UnlockStep
<1>9. ASSUME UNCHANGED <<bridge, status, poll, mon, control>> PROVE Persists
  BY <1>2, <1>9, ElsewhereHolds
<1>10. \/ UNCHANGED vars \/ BeginFrame \/ ServeFrame \/ EndFrame
       \/ \E u \in Unlocks : LoseUnlock(u) \/ \E x \in Stations : BeginUnlock(u, x)
       => UNCHANGED <<bridge, status, poll, mon, control>>
  BY DEF vars, BeginFrame, ServeFrame, EndFrame, LoseUnlock, BeginUnlock
<1> HIDE DEF Persists
<1>11. Persists
  BY <1>3, <1>4, <1>5, <1>6, <1>7, <1>8, <1>9, <1>10 DEF Next, Persists
<1> QED
  BY <1>1, <1>11 DEF Persists, CInv

\* A coordinator never goes back to an earlier operation of its call, nor to an earlier stage of
\* it: async_apply_call_status refuses what is behind the operation held, and the answers that
\* async_call and async_hangup take up are ahead of it, because one request at a time holds
\* _call_lock and an observation is applied only while none does.
THEOREM CallsForward == Spec => OperationForward
<1>1. CInv /\ [Next]_vars => CInv'
  BY CStep
<1>2. CInv /\ [Next]_vars =>
        [\A x \in Stations :
           mon'[x].runtime = mon[x].runtime /\ mon'[x].operation # NoOperation
             => \/ mon'[x].operation.id > mon[x].operation.id
                \/ /\ mon'[x].operation.id = mon[x].operation.id
                   /\ StageOrder[mon'[x].operation.stage] >= StageOrder[mon[x].operation.stage]]_vars
  BY CStep DEF Forward
<1> QED
  BY CInit, <1>1, <1>2, PTL DEF Spec, OperationForward

-----------------------------------------------------------------------------
(* What a hangup releases                                                  *)

\* A native call as it is, or was before.
After(n, next) ==
  n.generation < next.generation \/ (n.generation = next.generation /\ n.station = next.station)

\* An operation goes on to its one native call, or gives way to a later operation.
Made(o, next) ==
  \/ o.id < next.id
  \/ o.id = next.id /\ o.station = next.station /\ (o.generation # 0 => next.generation = o.generation)

\* The native call of that number is over, or about to be.
Over(g, b) ==
  b.native.generation > g \/ (b.native.generation = g /\ b.native.session \in {"none", "ending"})

IsNative(n) ==
  /\ Has(n, {"generation", "station", "session"})
  /\ n.generation \in Nat
  /\ n.session \in {"none", "preview", "ringing", "talking", "ending"}

\* No operation is ahead of the native calls, and the native call of an ended one is over.
WellFormed(b) ==
  LET op == b.operation
  IN /\ IsNative(b.native) /\ op.generation \in Nat /\ op.generation <= b.native.generation
     /\ op.stage = "preparing" => op.generation = 0
     /\ op.stage = "ended" /\ op.generation = b.native.generation => b.native.session = "none"

\* What was observed of calls in the runtime that the bridge is still in has come to pass.
Follows(s, b) ==
  /\ s.native.generation \in Nat /\ s.operation.generation \in Nat
  /\ s.runtime = b.runtime => Made(s.operation, b.operation) /\ After(s.native, b.native)

\* A hangup that is on its way names the native call it would end, while that is the last one.
Names(r, b) ==
  /\ r.generation <= b.native.generation
  /\ r.generation = b.native.generation => b.native.station = r.station
  /\ r.condition # 0 =>
       /\ r.condition \in Nat /\ r.condition <= b.operation.id
       /\ r.condition = b.operation.id =>
            b.operation.station = r.station /\ b.operation.generation = r.generation

\* Once the hangup is answered, the call whose audio it releases is over.
Releases(r, b) ==
  LET kept == r.reply \notin {"refused", "lost"}
  IN r.pc # "idle" =>
       /\ r.generation \in Nat
       /\ r.pc = "releasing" => r.generation # 0 /\ kept
       /\ r.generation # 0 =>
            /\ r.kind = "hangup"
            /\ r.runtime = b.runtime =>
                 /\ r.pc = "posted" => Names(r, b)
                 /\ r.pc \in {"answered", "releasing"} /\ kept => Over(r.generation, b)

RInv ==
  /\ CInv
  /\ WellFormed(bridge) /\ Follows(status, bridge)
  /\ \A p \in Pollers : Observing(p) => Follows(poll[p].seen, bridge)
  /\ \A c \in Controls : Releases(control[c], bridge)

\* The calls of the bridge go on, or it starts again in a later runtime.
Onward(b, next) ==
  \/ b.runtime < next.runtime
  \/ /\ b.runtime = next.runtime
     /\ Made(b.operation, next.operation) /\ After(b.native, next.native)
     /\ \A g \in Nat : Over(g, b) => Over(g, next)

LEMMA FollowsOn ==
  ASSUME NEW b, NEW next, NEW s, WellFormed(b), WellFormed(next), Onward(b, next),
         IsOperation(b.operation), IsOperation(next.operation), b.runtime \in Nat, next.runtime \in Nat,
         Past(s.runtime, s.operation, b), Follows(s, b)
  PROVE  Follows(s, next)
<1>1. CASE b.runtime < next.runtime
  <2>1. s.runtime # next.runtime
    BY <1>1 DEF Past
  <2> QED
    BY <2>1 DEF Follows
<1>2. CASE b.runtime = next.runtime
  <2>1. Made(b.operation, next.operation) /\ After(b.native, next.native)
    BY <1>2 DEF Onward
  <2>2. /\ s.operation.id \in Nat /\ b.operation.id \in Nat /\ next.operation.id \in Nat
        /\ s.native.generation \in Nat /\ b.native.generation \in Nat /\ next.native.generation \in Nat
    BY DEF Past, IsOperation, Follows, WellFormed, IsNative
  <2>3. s.runtime = next.runtime => Made(s.operation, next.operation)
    BY <1>2, <2>1, <2>2 DEF Follows, Made
  <2>4. s.runtime = next.runtime => After(s.native, next.native)
    BY <1>2, <2>1, <2>2 DEF Follows, After
  <2> QED
    BY <2>3, <2>4 DEF Follows
<1> QED
  BY <1>1, <1>2 DEF Onward

LEMMA ReleasesOn ==
  ASSUME NEW b, NEW next, NEW r, WellFormed(b), WellFormed(next), Onward(b, next),
         IsOperation(b.operation), IsOperation(next.operation), b.runtime \in Nat, next.runtime \in Nat,
         r.pc # "idle" => r.runtime \in Nat /\ r.runtime <= b.runtime, Releases(r, b)
  PROVE  Releases(r, next)
<1> SUFFICES ASSUME r.pc # "idle", r.generation # 0, r.runtime = next.runtime
             PROVE  /\ r.pc = "posted" => Names(r, next)
                    /\ r.pc \in {"answered", "releasing"} /\ r.reply \notin {"refused", "lost"}
                         => Over(r.generation, next)
  BY DEF Releases
<1>1. r.runtime = b.runtime /\ b.runtime = next.runtime
  BY DEF Onward
<1>2. /\ Made(b.operation, next.operation) /\ After(b.native, next.native)
      /\ \A g \in Nat : Over(g, b) => Over(g, next)
  BY <1>1 DEF Onward
<1>3. r.generation \in Nat
  BY DEF Releases
<1>4. /\ b.operation.id \in Nat /\ next.operation.id \in Nat
      /\ b.native.generation \in Nat /\ next.native.generation \in Nat
  BY DEF IsOperation, WellFormed, IsNative
<1>5. ASSUME r.pc = "posted" PROVE Names(r, next)
  <2>1. Names(r, b)
    BY <1>1, <1>5 DEF Releases
  <2>2. r.generation <= next.native.generation
    BY <1>2, <1>3, <1>4, <2>1 DEF Names, After
  <2>3. r.generation = next.native.generation => next.native.station = r.station
    BY <1>2, <1>3, <1>4, <2>1 DEF Names, After
  <2>4. ASSUME r.condition # 0
        PROVE  /\ r.condition \in Nat /\ r.condition <= next.operation.id
               /\ r.condition = next.operation.id =>
                    next.operation.station = r.station /\ next.operation.generation = r.generation
    BY <1>2, <1>3, <1>4, <2>1, <2>4 DEF Names, Made
  <2> QED
    BY <2>2, <2>3, <2>4 DEF Names
<1>6. r.pc \in {"answered", "releasing"} /\ r.reply \notin {"refused", "lost"} => Over(r.generation, next)
  BY <1>1, <1>2, <1>3 DEF Releases
<1> QED
  BY <1>5, <1>6

-----------------------------------------------------------------------------
(* The steps of the bridge, of the pollers and of the hangups              *)

LEMMA CallFacts ==
  ASSUME CInv
  PROVE  /\ IsObservation(bridge) /\ IsCall(bridge.operation) /\ IsOperation(bridge.operation)
         /\ bridge.runtime \in Nat
         /\ \A c \in Controls : control[c].pc # "idle" =>
              control[c].runtime \in Nat /\ control[c].runtime <= bridge.runtime
<1>1. IsObservation(bridge) /\ IsCall(bridge.operation) /\ bridge.runtime \in Nat
  BY DEF CInv, IInv, Shapes, ObsShapes, Observed, IsObservation
<1>2. ASSUME NEW c \in Controls, control[c].pc # "idle"
      PROVE  control[c].runtime \in Nat /\ control[c].runtime <= bridge.runtime
  <2>1. /\ control[c].station \in Stations /\ control[c].runtime \in Nat
        /\ control[c].runtime <= mon[control[c].station].runtime
    BY <1>2 DEF CInv, Alone, Busy
  <2>2. mon[control[c].station].runtime \in Nat /\ mon[control[c].station].runtime <= bridge.runtime
    BY <2>1 DEF CInv, Observed, ObservedMonitors, Past
  <2> QED
    BY <1>1, <2>1, <2>2
<1> QED
  BY <1>1, <1>2 DEF IsCall

\* The bridge moves, and requests are served or dealt with.
LEMMA RequestStep ==
  ASSUME RInv, CInv', WellFormed(bridge'), Onward(bridge, bridge'), UNCHANGED <<status, poll>>,
         \A c \in Controls : control'[c] = control[c] \/ Releases(control'[c], bridge')
  PROVE  RInv'
<1>1. CInv /\ WellFormed(bridge)
  BY DEF RInv
<1>2. /\ IsOperation(bridge.operation) /\ bridge.runtime \in Nat
      /\ IsOperation(bridge'.operation) /\ bridge'.runtime \in Nat
      /\ \A c \in Controls : control[c].pc # "idle" =>
           control[c].runtime \in Nat /\ control[c].runtime <= bridge.runtime
  <2>1. IsOperation(bridge'.operation) /\ bridge'.runtime \in Nat
    BY DEF CInv, IInv, Shapes, ObsShapes, Observed, IsObservation, IsCall
  <2> QED
    BY <1>1, <2>1, CallFacts
<1>3. Follows(status', bridge')
  <2>1. Follows(status, bridge) /\ Past(status.runtime, status.operation, bridge)
    BY DEF RInv, CInv, Observed
  <2> QED
    BY <1>1, <1>2, <2>1, FollowsOn
<1>4. ASSUME NEW p \in Pollers, Observing(p)' PROVE Follows(poll'[p].seen, bridge')
  <2>1. Observing(p)
    BY <1>4 DEF Observing
  <2>2. Follows(poll[p].seen, bridge) /\ Past(poll[p].seen.runtime, poll[p].seen.operation, bridge)
    BY <2>1 DEF RInv, CInv, Observed, ObservedPolls
  <2> QED
    BY <1>1, <1>2, <2>2, FollowsOn
<1>5. ASSUME NEW c \in Controls PROVE Releases(control'[c], bridge')
  <2>1. Releases(control[c], bridge)
    BY DEF RInv
  <2>2. Releases(control[c], bridge')
    BY <1>1, <1>2, <2>1, ReleasesOn
  <2> QED
    BY <2>2
<1> QED
  BY <1>3, <1>4, <1>5 DEF RInv

LEMMA StaysOnward == ASSUME WellFormed(bridge), NEW next, next.runtime = bridge.runtime,
                            next.operation = bridge.operation, next.native = bridge.native
                     PROVE  WellFormed(next) /\ Onward(bridge, next)
  BY DEF WellFormed, Onward, Made, After, Over

\* Something is observed or published.
LEMMA ObserveStep ==
  ASSUME RInv, CInv', UNCHANGED <<bridge, control>>, Follows(status', bridge),
         NEW p \in Pollers, \A q \in Pollers : q # p => poll'[q] = poll[q],
         Observing(p)' => Follows(poll'[p].seen, bridge)
  PROVE  RInv'
<1>1. ASSUME NEW q \in Pollers, Observing(q)' PROVE Follows(poll'[q].seen, bridge')
  <2>1. CASE q = p
    BY <1>1, <2>1
  <2>2. CASE q # p
    <3>1. poll'[q] = poll[q]
      BY <2>2
    <3>2. Observing(q)
      BY <1>1, <3>1 DEF Observing
    <3> QED
      BY <3>1, <3>2 DEF RInv
  <2> QED
    BY <2>1, <2>2
<1>2. WellFormed(bridge') /\ Follows(status', bridge') /\ \A c \in Controls : Releases(control'[c], bridge')
  BY DEF RInv
<1> QED
  BY <1>1, <1>2 DEF RInv

LEMMA AdvanceOnward ==
  ASSUME IsObservation(bridge), IsCall(bridge.operation), WellFormed(bridge), Advance
  PROVE  WellFormed(bridge') /\ Onward(bridge, bridge')
<1> DEFINE op == bridge.operation
           native == bridge.native
           Stage(s) == [op EXCEPT !.stage = s]
           Session(s) == [native EXCEPT !.session = s]
           Mine == native.generation = op.generation
           Idle == ~ActiveCall(bridge) /\ ~Live(native)
           Called(o, n) ==
             /\ op.stage = "preparing" /\ ~Live(native)
             /\ o = [Stage("calling") EXCEPT !.generation = native.generation + 1]
             /\ n = [generation |-> native.generation + 1, station |-> op.station, session |-> "preview"]
           Answered(o, n) == op.stage = "calling" /\ o = Stage("talking") /\ n = native
           Talking(o, n) ==
             /\ o = op /\ n = Session("talking")
             /\ \/ op.stage = "talking" /\ native.session = "preview"
                \/ ~ActiveCall(bridge) /\ native.session = "ringing"
           Ended(o, n) ==
             ActiveCall(bridge) /\ o = Stage("ended") /\ n = IF Mine THEN Session("none") ELSE native
           Rung(o, n) ==
             /\ Idle /\ o = op
             /\ \E x : n = [generation |-> native.generation + 1, station |-> x, session |-> "ringing"]
           Elsewise(o, n) ==
             /\ Idle /\ n = native
             /\ o = [id |-> op.id + 1, station |-> Elsewhere, stage |-> "preparing", generation |-> 0]
           Closed(o, n) == o = op /\ n = Session("none")
           Move(o, n) == bridge' = [bridge EXCEPT !.operation = o, !.native = n]
<1>1. PICK o, n :
        /\ Move(o, n)
        /\ \/ Called(o, n) \/ Answered(o, n) \/ Talking(o, n) \/ Ended(o, n) \/ Rung(o, n)
           \/ Elsewise(o, n) \/ Closed(o, n)
  <2>1. CASE op.stage = "preparing" /\ ~Live(native)
             /\ Move([Stage("calling") EXCEPT !.generation = native.generation + 1],
                     [generation |-> native.generation + 1, station |-> op.station, session |-> "preview"])
    BY <2>1
  <2>2. CASE op.stage = "calling" /\ Move(Stage("talking"), native)
    BY <2>2
  <2>3. CASE op.stage = "talking" /\ native.session = "preview" /\ Move(op, Session("talking"))
    BY <2>3
  <2>4. CASE ActiveCall(bridge) /\ Move(Stage("ended"), IF Mine THEN Session("none") ELSE native)
    BY <2>4
  <2>5. CASE Idle /\ \E x : Move(op, [generation |-> native.generation + 1, station |-> x,
                                      session |-> "ringing"])
    BY <2>5
  <2>6. CASE Idle /\ Move([id |-> op.id + 1, station |-> Elsewhere, stage |-> "preparing",
                           generation |-> 0], native)
    BY <2>6
  <2>7. CASE ~ActiveCall(bridge) /\ native.session = "ringing" /\ Move(op, Session("talking"))
    BY <2>7
  <2>8. CASE Move(op, Session("none"))
    BY <2>8
  <2> QED
    BY <2>1, <2>2, <2>3, <2>4, <2>5, <2>6, <2>7, <2>8 DEF Advance
<1>2. bridge'.operation = o /\ bridge'.native = n /\ bridge'.runtime = bridge.runtime
  BY <1>1 DEF IsObservation, Has
<1>3. /\ Has(op, {"id", "station", "stage", "generation"}) /\ op.id \in Nat
      /\ op.generation \in Nat /\ op.generation <= native.generation
      /\ op.stage = "preparing" => op.generation = 0
      /\ op.stage = "ended" /\ op.generation = native.generation => native.session = "none"
      /\ IsNative(native) /\ native.generation \in Nat
  BY DEF IsCall, IsOperation, WellFormed, IsNative
<1> HIDE DEF op, native
<1> DEFINE Sound ==
             /\ IsNative(n) /\ o.generation \in Nat /\ o.generation <= n.generation
             /\ o.stage = "preparing" => o.generation = 0
             /\ o.stage = "ended" /\ o.generation = n.generation => n.session = "none"
             /\ Made(op, o) /\ After(native, n)
             /\ \/ n.generation > native.generation
                \/ n.generation = native.generation
                   /\ (native.session \in {"none", "ending"} => n.session \in {"none", "ending"})
<1>4. ASSUME NEW s \in {"none", "talking"}
      PROVE  /\ IsNative(Session(s)) /\ Session(s).generation = native.generation
             /\ Session(s).station = native.station /\ Session(s).session = s
  BY <1>3 DEF IsNative, Has
<1>5. ASSUME NEW s
      PROVE  /\ Stage(s).id = op.id /\ Stage(s).station = op.station /\ Stage(s).stage = s
             /\ Stage(s).generation = op.generation
             /\ Has(Stage(s), {"id", "station", "stage", "generation"})
  BY <1>3 DEF Has
<1>6. ASSUME Called(o, n) PROVE Sound
  <2>1. /\ o.id = op.id /\ o.station = op.station /\ o.stage = "calling"
        /\ o.generation = native.generation + 1
    BY <1>5, <1>6 DEF Has
  <2>2. IsNative(n) /\ n.generation = native.generation + 1
    BY <1>3, <1>6 DEF IsNative, Has
  <2> QED
    BY <1>3, <1>6, <2>1, <2>2 DEF Made, After
<1>7. ASSUME Answered(o, n) PROVE Sound
  BY <1>3, <1>5, <1>7 DEF Made, After
<1>8. ASSUME Talking(o, n) PROVE Sound
  <2>1. /\ IsNative(n) /\ n.generation = native.generation /\ n.station = native.station
        /\ n.session = "talking" /\ o = op /\ native.session \in {"preview", "ringing"}
    BY <1>4, <1>8
  <2> QED
    BY <1>3, <2>1 DEF Made, After
<1>9. ASSUME Ended(o, n) PROVE Sound
  <2>1. /\ IsNative(n) /\ n.generation = native.generation /\ n.station = native.station
        /\ n.session = IF Mine THEN "none" ELSE native.session
    BY <1>3, <1>4, <1>9
  <2> QED
    BY <1>3, <1>5, <1>9, <2>1 DEF Made, After
<1>10. ASSUME Rung(o, n) PROVE Sound
  <2>1. IsNative(n) /\ n.generation = native.generation + 1
    BY <1>3, <1>10 DEF IsNative, Has
  <2> QED
    BY <1>3, <1>10, <2>1 DEF Made, After
<1>11. ASSUME Elsewise(o, n) PROVE Sound
  BY <1>3, <1>11 DEF Made, After
<1>12. ASSUME Closed(o, n) PROVE Sound
  BY <1>3, <1>4, <1>12 DEF Made, After
<1>13. Sound
  BY <1>1, <1>6, <1>7, <1>8, <1>9, <1>10, <1>11, <1>12
<1>14. WellFormed(bridge')
  BY <1>2, <1>13 DEF WellFormed
<1>15. Onward(bridge, bridge')
  <2>1. n.generation \in Nat
    BY <1>13 DEF IsNative
  <2>2. ASSUME NEW g \in Nat, Over(g, bridge) PROVE Over(g, bridge')
    BY <1>2, <1>3, <1>13, <2>1, <2>2 DEF Over, native
  <2> QED
    BY <1>2, <1>13, <2>2 DEF Onward, op, native
<1> QED
  BY <1>14, <1>15

LEMMA RestartOnward ==
  ASSUME IsObservation(bridge), Restart
  PROVE  WellFormed(bridge') /\ Onward(bridge, bridge')
<1>1. bridge.runtime \in Nat /\ bridge' = Boot(bridge.runtime + 1)
  BY DEF IsObservation, Restart
<1>2. /\ bridge'.runtime = bridge.runtime + 1 /\ bridge'.operation = NoOperation
      /\ bridge'.native = NoNative
  BY <1>1 DEF Boot
<1> QED
  BY <1>1, <1>2 DEF WellFormed, Onward, IsNative, Has, NoOperation, NoNative

LEMMA UnlocksOnward ==
  ASSUME IsObservation(bridge), WellFormed(bridge),
         \/ \E x \in Stations : AdvanceUnlock(x)
         \/ \E u \in Unlocks : ServeUnlock(u)
  PROVE  WellFormed(bridge') /\ Onward(bridge, bridge')
<1>1. \/ \E x, row : bridge' = [bridge EXCEPT !.unlock[x].phase = row]
      \/ \E k, row, l : bridge' = [bridge EXCEPT !.unlock[k] = row, !.last = l]
  <2>1. ASSUME NEW x \in Stations, AdvanceUnlock(x)
        PROVE  \E row : bridge' = [bridge EXCEPT !.unlock[x].phase = row]
    BY <2>1 DEF AdvanceUnlock
  <2>2. ASSUME NEW u \in Unlocks, ServeUnlock(u)
        PROVE  \E k, row, l : bridge' = [bridge EXCEPT !.unlock[k] = row, !.last = l]
    BY <2>2 DEF ServeUnlock
  <2> QED
    BY <2>1, <2>2
<1>2. /\ bridge'.runtime = bridge.runtime /\ bridge'.operation = bridge.operation
      /\ bridge'.native = bridge.native
  BY <1>1 DEF IsObservation, Has
<1> QED
  BY <1>2, StaysOnward

LEMMA PollerReleases ==
  ASSUME RInv, CInv', NEW p \in Pollers, BeginRefresh(p) \/ PollStep(p) \/ FailRefresh(p) \/ Leave(p)
  PROVE  RInv'
<1>1. CInv /\ UNCHANGED <<bridge, control>> /\ Follows(status, bridge)
  BY DEF RInv, BeginRefresh, PollStep, FailRefresh, Leave, ServeStatus, EndRefresh, BeginSync,
         EndMonitorStatus, ApplyStatus
<1>2. IsPoll(poll[p])
  BY <1>1 DEF CInv, IInv, Shapes, PollShapes
<1>3. Observing(p) => Follows(poll[p].seen, bridge)
  BY DEF RInv
<1>4. ASSUME NEW l, poll' = [poll EXCEPT ![p] = l], l.pc \in {"served", "syncing", "applying"}
               => Follows(l.seen, bridge), Follows(status', bridge)
      PROVE  RInv'
  <2>1. poll'[p] = l /\ \A q \in Pollers : q # p => poll'[q] = poll[q]
    BY <1>1, <1>4, OtherPollers
  <2>2. Observing(p)' => Follows(poll'[p].seen, bridge)
    BY <1>4, <2>1 DEF Observing
  <2> QED
    BY <1>1, <1>4, <2>1, <2>2, ObserveStep
<1>5. CASE BeginRefresh(p) \/ FailRefresh(p) \/ Leave(p)
  <2>1. PICK l : poll' = [poll EXCEPT ![p] = l] /\ l.pc \in {"idle", "asked"}
    <3>1. NoLocals.pc = "idle"
      BY DEF NoLocals
    <3>2. [NoLocals EXCEPT !.pc = "asked", !.epochs = controlEpochs, !.unlocks = unlockEpochs,
                           !.acceptances = acceptances].pc = "asked"
      BY DEF NoLocals
    <3> QED
      BY <1>5, <3>1, <3>2 DEF BeginRefresh, FailRefresh, Leave
  <2>2. UNCHANGED status
    BY <1>5 DEF BeginRefresh, FailRefresh, Leave
  <2> QED
    BY <1>1, <1>4, <2>1, <2>2
<1>6. CASE ServeStatus(p)
  <2> DEFINE l == [poll[p] EXCEPT !.pc = "served", !.seen = Observation]
  <2>1. poll' = [poll EXCEPT ![p] = l] /\ UNCHANGED status
    BY <1>1, <1>6 DEF ServeStatus, CInv, IInv, Shapes, PollShapes, Has
  <2>2. IsObservation(bridge) /\ WellFormed(bridge) /\ bridge.native.generation \in Nat
    BY <1>1, CallFacts DEF RInv, WellFormed, IsNative
  <2>3. /\ l.seen.runtime = bridge.runtime /\ l.seen.operation = bridge.operation
        /\ l.seen.native = bridge.native
    BY <1>2, <2>2 DEF Observation, IsPoll, IsObservation, Has
  <2> HIDE DEF l
  <2>4. Follows(l.seen, bridge)
    BY <2>2, <2>3 DEF Follows, WellFormed, Made, After
  <2> QED
    BY <1>1, <1>4, <2>1, <2>4
<1>7. CASE EndRefresh(p)
  <2> DEFINE seen == poll[p].seen
             accepted == {x \in Stations : acceptances[x] # poll[p].acceptances[x]}
             reply == Fenced(seen, accepted)
             l == [NoLocals EXCEPT !.pc = "ready"]
  <2>1. Observing(p)
    BY <1>7 DEF EndRefresh, Observing
  <2>2. IsObservation(seen) /\ ObsShapes /\ Follows(seen, bridge)
    BY <1>1, <1>2, <1>3, <2>1 DEF CInv, IInv, Shapes, IsPoll, Observing
  <2>3. /\ reply.runtime = seen.runtime /\ reply.operation = seen.operation
        /\ reply.native = seen.native
    <3> HIDE DEF seen, accepted
    <3> QED
      BY <2>2, FencedRecords
  <2>4. /\ status' = status \/ status' = reply
        /\ poll' = [poll EXCEPT ![p] = l] /\ l.pc = "ready"
    BY <1>7 DEF EndRefresh, NoLocals
  <2> HIDE DEF reply, l
  <2>5. Follows(status', bridge)
    BY <1>1, <2>2, <2>3, <2>4 DEF Follows
  <2> QED
    BY <1>4, <2>4, <2>5
<1>8. CASE BeginSync(p)
  <2> DEFINE l == [poll[p] EXCEPT !.pc = "syncing", !.seen = status, !.epochs = statusEpochs]
  <2>1. poll' = [poll EXCEPT ![p] = l] /\ UNCHANGED status
    BY <1>1, <1>8 DEF BeginSync, CInv, IInv, Shapes, PollShapes, Has
  <2>2. l.seen = status
    BY <1>2 DEF IsPoll, Has
  <2> HIDE DEF l
  <2> QED
    BY <1>1, <1>4, <2>1, <2>2
<1>9. CASE EndMonitorStatus(p)
  <2> DEFINE l == [poll[p] EXCEPT !.pc = "applying", !.todo = Stations]
  <2>1. (poll' = [poll EXCEPT ![p] = l] \/ poll' = [poll EXCEPT ![p] = NoLocals]) /\ UNCHANGED status
    BY <1>1, <1>9 DEF EndMonitorStatus, CInv, IInv, Shapes, PollShapes, Has
  <2>2. l.seen = poll[p].seen /\ NoLocals.pc = "idle" /\ Observing(p)
    BY <1>2, <1>9 DEF IsPoll, Has, NoLocals, EndMonitorStatus, Observing
  <2> HIDE DEF l
  <2> QED
    BY <1>1, <1>3, <1>4, <2>1, <2>2
<1>10. ASSUME NEW x \in Stations, ApplyStatus(p, x) PROVE RInv'
  <2> DEFINE l == [poll[p] EXCEPT !.todo = poll[p].todo \ {x}]
  <2>1. (poll' = [poll EXCEPT ![p] = l] \/ poll' = [poll EXCEPT ![p] = NoLocals]) /\ UNCHANGED status
    BY <1>1, <1>10 DEF ApplyStatus, CInv, IInv, Shapes, PollShapes, Has
  <2>2. l.seen = poll[p].seen /\ NoLocals.pc = "idle" /\ Observing(p)
    BY <1>2, <1>10 DEF IsPoll, Has, NoLocals, ApplyStatus, Observing
  <2> HIDE DEF l
  <2> QED
    BY <1>1, <1>3, <1>4, <2>1, <2>2
<1> QED
  BY <1>5, <1>6, <1>7, <1>8, <1>9, <1>10 DEF PollStep

LEMMA RequestReleases ==
  ASSUME RInv, CInv', WellFormed(bridge'), Onward(bridge, bridge'), UNCHANGED <<status, poll>>,
         NEW c \in Controls, NEW l, control' = [control EXCEPT ![c] = l], Releases(l, bridge')
  PROVE  RInv'
<1>1. control'[c] = l /\ \A d \in Controls : d # c => control'[d] = control[d]
  BY OtherControls DEF RInv
<1>2. ASSUME NEW d \in Controls PROVE control'[d] = control[d] \/ Releases(control'[d], bridge')
  BY <1>1
<1> QED
  BY <1>2, RequestStep

\* An idle request releases nothing.
LEMMA NoRelease == \A b : Releases(NoRequest, b)
  BY DEF Releases, NoRequest

LEMMA BeginReleases ==
  ASSUME RInv, CInv', NEW c \in Controls, NEW x \in Stations, BeginCall(c, x) \/ BeginHangup(c, x)
  PROVE  RInv'
<1>1. /\ CInv /\ WellFormed(bridge) /\ Follows(status, bridge)
      /\ Past(status.runtime, status.operation, bridge)
      /\ IsObservation(bridge) /\ IsOperation(bridge.operation)
  BY CallFacts DEF RInv, CInv, Observed
<1>2. ASSUME NEW m, NEW request, BeginRequest(c, x, m, request), Releases(request, bridge)
      PROVE  RInv'
  <2> DEFINE l == IF status.runtime = mon[x].runtime THEN request ELSE NoRequest
  <2>1. control' = [control EXCEPT ![c] = l] /\ UNCHANGED <<bridge, status, poll>>
    BY <1>2 DEF BeginRequest
  <2>2. Releases(l, bridge)
    BY <1>2, NoRelease
  <2> HIDE DEF l
  <2>3. WellFormed(bridge') /\ Onward(bridge, bridge')
    BY <1>1, <2>1, StaysOnward
  <2> QED
    BY <2>1, <2>2, <2>3, RequestReleases
<1>3. CASE BeginCall(c, x)
  <2> DEFINE m == [mon[x] EXCEPT !.operation = NoOperation, !.native = 0, !.accepted = FALSE,
                                 !.state = "calling"]
             request == [NoRequest EXCEPT !.pc = "posted", !.kind = "call", !.station = x,
                                          !.runtime = mon[x].runtime]
  <2>1. BeginRequest(c, x, m, request)
    BY <1>3 DEF BeginCall
  <2>2. request.generation = 0 /\ request.pc = "posted"
    BY DEF NoRequest
  <2> HIDE DEF m, request
  <2>3. Releases(request, bridge)
    BY <2>2 DEF Releases
  <2> QED
    BY <1>2, <2>1, <2>3
<1>4. CASE BeginHangup(c, x)
  <2> DEFINE condition == Condition(mon[x])
             generation == ControlGeneration(x, mon[x].runtime, condition)
             request == [NoRequest EXCEPT !.pc = "posted", !.kind = "hangup", !.station = x,
                                          !.runtime = mon[x].runtime, !.condition = condition,
                                          !.generation = generation]
  <2>1. BeginRequest(c, x, mon[x], request)
    BY <1>4 DEF BeginHangup
  <2>2. generation # 0 =>
          /\ status.runtime = mon[x].runtime /\ status.native.station = x
          /\ generation = status.native.generation
          /\ condition # 0 =>
               /\ status.operation.station = x /\ status.operation.id = condition
               /\ status.operation.generation = status.native.generation
    BY DEF ControlGeneration, InCall
  <2>3. generation \in Nat
    BY <1>1 DEF ControlGeneration, Follows
  <2> HIDE DEF condition, generation
  <2>4. /\ request.pc = "posted" /\ request.kind = "hangup" /\ request.station = x
        /\ request.runtime = mon[x].runtime /\ request.condition = condition
        /\ request.generation = generation
    BY DEF NoRequest
  <2> HIDE DEF request
  <2>5. ASSUME generation # 0, mon[x].runtime = bridge.runtime PROVE Names(request, bridge)
    <3>1. Made(status.operation, bridge.operation) /\ After(status.native, bridge.native)
      BY <1>1, <2>2, <2>5 DEF Follows
    <3>2. /\ status.operation.id \in Nat /\ bridge.operation.id \in Nat
          /\ status.native.generation \in Nat /\ bridge.native.generation \in Nat
      BY <1>1 DEF Past, IsOperation, Follows, WellFormed, IsNative
    <3> QED
      BY <2>2, <2>4, <2>5, <3>1, <3>2 DEF Names, Made, After
  <2>6. Releases(request, bridge)
    BY <2>3, <2>4, <2>5 DEF Releases
  <2> QED
    BY <1>2, <2>1, <2>6
<1> QED
  BY <1>3, <1>4

LEMMA ServeCallReleases ==
  ASSUME RInv, CInv', NEW c \in Controls, ServeCall(c)
  PROVE  RInv'
<1> DEFINE op == [NoOperation EXCEPT !.id = bridge.operation.id + 1, !.station = control[c].station,
                                     !.stage = "preparing"]
           accepted == [control[c] EXCEPT !.pc = "answered", !.reply = "accepted", !.condition = op.id]
           refused == [control[c] EXCEPT !.pc = "answered", !.reply = "refused"]
<1>1. /\ CInv /\ WellFormed(bridge) /\ Releases(control[c], bridge)
      /\ Has(control[c], DOMAIN NoRequest) /\ control[c].kind = "call" /\ control[c].pc = "posted"
      /\ IsObservation(bridge) /\ IsOperation(bridge.operation) /\ UNCHANGED <<status, poll>>
  BY CallFacts DEF ServeCall, RInv, CInv, Alone, Busy
<1>2. control[c].generation = 0
  BY <1>1 DEF Releases
<1>3. \/ control' = [control EXCEPT ![c] = accepted] /\ bridge' = [bridge EXCEPT !.operation = op]
      \/ control' = [control EXCEPT ![c] = refused] /\ UNCHANGED bridge
  BY <1>1 DEF ServeCall, CInv, Alone, Has
<1>4. /\ accepted.generation = 0 /\ accepted.pc = "answered"
      /\ refused.generation = 0 /\ refused.pc = "answered"
  BY <1>1, <1>2 DEF Has, NoRequest
<1>5. op.id = bridge.operation.id + 1 /\ op.generation = 0 /\ op.stage = "preparing"
  BY DEF NoOperation
<1> HIDE DEF op, accepted, refused
<1>6. \A b : Releases(accepted, b) /\ Releases(refused, b)
  BY <1>4 DEF Releases
<1>7. CASE control' = [control EXCEPT ![c] = refused] /\ UNCHANGED bridge
  BY <1>1, <1>6, <1>7, StaysOnward, RequestReleases
<1>8. CASE control' = [control EXCEPT ![c] = accepted] /\ bridge' = [bridge EXCEPT !.operation = op]
  <2>1. bridge'.operation = op /\ bridge'.native = bridge.native /\ bridge'.runtime = bridge.runtime
    BY <1>1, <1>8 DEF IsObservation, Has
  <2>2. bridge.operation.id \in Nat /\ IsNative(bridge.native) /\ bridge.native.generation \in Nat
    BY <1>1 DEF IsOperation, WellFormed, IsNative
  <2>3. WellFormed(bridge')
    BY <1>5, <2>1, <2>2 DEF WellFormed
  <2>4. Onward(bridge, bridge')
    BY <1>5, <2>1, <2>2 DEF Onward, Made, After, Over
  <2> QED
    BY <1>1, <1>6, <1>8, <2>3, <2>4, RequestReleases
<1> QED
  BY <1>3, <1>7, <1>8

LEMMA ServeHangupReleases ==
  ASSUME RInv, CInv', NEW c \in Controls, ServeHangup(c)
  PROVE  RInv'
<1> DEFINE op == bridge.operation
           native == bridge.native
           x == control[c].station
           g == control[c].generation
           named == control[c].condition
           calls == ActiveCall(bridge) /\ op.station = x /\ (named # 0 => named = op.id)
           speaks == named = 0 /\ Live(native) /\ native.station = x
           reply ==
             IF bridge.runtime # control[c].runtime \/ (named # 0 /\ named # op.id) THEN "refused"
             ELSE IF calls \/ speaks THEN "ending" ELSE IF named # 0 THEN "ended" ELSE "idle"
           l == [control[c] EXCEPT !.pc = "answered", !.reply = reply]
           o == IF reply = "ending" /\ calls THEN [op EXCEPT !.stage = "ending"] ELSE op
           n == IF reply = "ending" /\ Live(native) /\ (speaks \/ native.generation = op.generation)
                THEN [native EXCEPT !.session = "ending"] ELSE native
<1>1. /\ CInv /\ WellFormed(bridge) /\ Releases(control[c], bridge)
      /\ Has(control[c], DOMAIN NoRequest) /\ control[c].kind = "hangup" /\ control[c].pc = "posted"
      /\ IsObservation(bridge) /\ IsCall(op) /\ IsOperation(op) /\ UNCHANGED <<status, poll>>
  BY CallFacts DEF ServeHangup, RInv, CInv, Alone, Busy
<1>2. control' = [control EXCEPT ![c] = l]
  BY <1>1 DEF ServeHangup, CInv, Alone, Has
<1>3. /\ Has(op, {"id", "station", "stage", "generation"}) /\ op.id \in Nat
      /\ op.stage \in DOMAIN StageOrder /\ op.generation \in Nat /\ op.generation <= native.generation
      /\ IsNative(native) /\ Has(native, {"generation", "station", "session"})
      /\ native.generation \in Nat
      /\ native.session \in {"none", "preview", "ringing", "talking", "ending"}
  BY <1>1 DEF IsOperation, WellFormed, IsNative
<1>4. bridge'.operation = o /\ bridge'.native = n /\ bridge'.runtime = bridge.runtime
  <2>1. CASE reply # "ending"
    <3>1. bridge' = bridge
      BY <2>1 DEF ServeHangup
    <3> QED
      BY <2>1, <3>1
  <2>2. CASE reply = "ending"
    <3>1. PICK s, t : /\ bridge' = [bridge EXCEPT !.operation.stage = s, !.native.session = t]
                      /\ s = IF calls THEN "ending" ELSE op.stage
                      /\ t = IF Live(native) /\ (speaks \/ native.generation = op.generation)
                             THEN "ending" ELSE native.session
      BY <2>2 DEF ServeHangup
    <3>2. /\ bridge'.operation = [op EXCEPT !.stage = s] /\ bridge'.native = [native EXCEPT !.session = t]
          /\ bridge'.runtime = bridge.runtime
      BY <1>1, <3>1 DEF IsObservation, Has
    <3>3. [op EXCEPT !.stage = op.stage] = op /\ [native EXCEPT !.session = native.session] = native
      BY <1>3 DEF Has
    <3> QED
      BY <2>2, <3>1, <3>2, <3>3
  <2> QED
    BY <2>1, <2>2
<1>5. /\ l.pc = "answered" /\ l.generation = g /\ l.kind = "hangup"
      /\ l.runtime = control[c].runtime /\ l.reply = reply
  <2> HIDE DEF reply
  <2> QED
    BY <1>1 DEF Has, NoRequest
<1> HIDE DEF l
<1>6. /\ o.id = op.id /\ o.station = op.station /\ o.generation = op.generation
      /\ o.stage \in {op.stage, "ending"}
  BY <1>3 DEF Has
<1>7. /\ n.generation = native.generation /\ n.station = native.station
      /\ n.session \in {native.session, "ending"} /\ (native.session = "none" => n.session = "none")
      /\ IsNative(n)
  <2>1. CASE n = native
    BY <1>3, <2>1
  <2>2. CASE Live(native) /\ n = [native EXCEPT !.session = "ending"]
    <3>1. n.generation = native.generation /\ n.station = native.station /\ n.session = "ending"
      BY <1>3, <2>2 DEF Has
    <3>2. Has(n, {"generation", "station", "session"})
      BY <1>3, <2>2 DEF Has
    <3> QED
      BY <1>3, <2>2, <3>1, <3>2 DEF IsNative, Live
  <2> QED
    BY <2>1, <2>2
<1>8. ASSUME g # 0, bridge.runtime = control[c].runtime, reply # "refused"
      PROVE  n.generation > g \/ (n.generation = g /\ n.session \in {"none", "ending"})
  <2>1. Names(control[c], bridge) /\ g \in Nat
    BY <1>1, <1>8 DEF Releases
  <2>2. g <= native.generation /\ (g = native.generation => native.station = x)
    BY <2>1 DEF Names
  <2>3. CASE g = native.generation
    <3>1. CASE named = 0
      <4>1. Live(native) => speaks
        BY <2>2, <2>3, <3>1
      <4> QED
        BY <1>3, <1>7, <1>8, <2>3, <4>1 DEF Live
    <3>2. CASE named # 0
      <4>1. named = op.id /\ op.station = x /\ op.generation = g
        BY <1>8, <2>1, <3>2 DEF Names
      <4>2. CASE ActiveCall(bridge)
        BY <1>3, <1>7, <1>8, <2>3, <4>1, <4>2 DEF Live
      <4>3. CASE ~ActiveCall(bridge)
        <5>1. op.stage = "ended"
          BY <1>1, <1>3, <3>2, <4>1, <4>3 DEF ActiveCall, IsCall, NoOperation, StageOrder
        <5> QED
          BY <1>1, <1>7, <2>3, <4>1, <5>1 DEF WellFormed
      <4> QED
        BY <4>2, <4>3
    <3> QED
      BY <3>1, <3>2
  <2> QED
    BY <1>3, <1>7, <2>1, <2>2, <2>3
<1> HIDE DEF o, n
<1>9. WellFormed(bridge')
  BY <1>1, <1>3, <1>4, <1>6, <1>7 DEF WellFormed
<1>10. Onward(bridge, bridge')
  BY <1>3, <1>4, <1>6, <1>7 DEF Onward, Made, After, Over
<1>11. Releases(l, bridge')
  <2>1. g \in Nat
    BY <1>1 DEF Releases
  <2> HIDE DEF g, reply
  <2>2. g # 0 /\ bridge.runtime = control[c].runtime /\ reply # "refused" => Over(g, bridge')
    BY <1>4, <1>8 DEF Over
  <2> QED
    BY <1>4, <1>5, <2>1, <2>2 DEF Releases
<1> QED
  BY <1>1, <1>2, <1>9, <1>10, <1>11, RequestReleases

LEMMA EndReleases ==
  ASSUME RInv, CInv', NEW c \in Controls,
         EndCall(c) \/ EndHangup(c) \/ EndRelease(c) \/ LoseRequest(c)
  PROVE  RInv'
<1>1. /\ CInv /\ WellFormed(bridge) /\ Releases(control[c], bridge) /\ UNCHANGED <<bridge, status, poll>>
      /\ control[c].pc # "idle"
  BY DEF RInv, EndCall, EndHangup, EndRelease, LoseRequest
<1>2. Has(control, Controls) /\ Has(control[c], DOMAIN NoRequest)
  BY <1>1 DEF CInv, Alone, Busy
<1>3. WellFormed(bridge') /\ Onward(bridge, bridge')
  BY <1>1, StaysOnward
<1> DEFINE lost == [control[c] EXCEPT !.pc = "answered", !.reply = "lost"]
           releasing == [control[c] EXCEPT !.pc = "releasing"]
<1>4. \/ control' = [control EXCEPT ![c] = NoRequest]
      \/ control' = [control EXCEPT ![c] = lost]
      \/ /\ control' = [control EXCEPT ![c] = releasing]
         /\ control[c].pc = "answered" /\ ~Failed(c) /\ control[c].generation # 0
  BY <1>2 DEF EndCall, EndHangup, EndRelease, LoseRequest, Has
<1>5. CASE control' = [control EXCEPT ![c] = NoRequest]
  BY <1>1, <1>3, <1>5, NoRelease, RequestReleases
<1>6. CASE control' = [control EXCEPT ![c] = lost]
  <2>1. /\ lost.pc = "answered" /\ lost.reply = "lost" /\ lost.generation = control[c].generation
        /\ lost.kind = control[c].kind /\ lost.runtime = control[c].runtime
    BY <1>2 DEF Has, NoRequest
  <2> HIDE DEF lost
  <2>2. Releases(lost, bridge)
    BY <1>1, <2>1 DEF Releases
  <2> QED
    BY <1>1, <1>3, <1>6, <2>2, RequestReleases
<1>7. CASE /\ control' = [control EXCEPT ![c] = releasing]
           /\ control[c].pc = "answered" /\ ~Failed(c) /\ control[c].generation # 0
  <2>1. /\ releasing.pc = "releasing" /\ releasing.reply = control[c].reply
        /\ releasing.generation = control[c].generation
        /\ releasing.kind = control[c].kind /\ releasing.runtime = control[c].runtime
    BY <1>2 DEF Has, NoRequest
  <2> HIDE DEF releasing
  <2>2. Releases(releasing, bridge)
    BY <1>1, <1>7, <2>1 DEF Releases, Failed
  <2> QED
    BY <1>1, <1>3, <1>7, <2>2, RequestReleases
<1> QED
  BY <1>4, <1>5, <1>6, <1>7

-----------------------------------------------------------------------------
(* That invariant, and what it is for                                      *)

LEMMA RInit == Init => RInv
<1> SUFFICES ASSUME Init PROVE RInv
  OBVIOUS
<1>1. /\ bridge.operation = NoOperation /\ bridge.native = NoNative
      /\ status.operation = NoOperation /\ status.native = NoNative
  BY DEF Init, Boot
<1>2. WellFormed(bridge) /\ Follows(status, bridge)
  BY <1>1 DEF WellFormed, Follows, IsNative, Has, NoOperation, NoNative, Made, After
<1>3. \A p \in Pollers : ~Observing(p)
  BY DEF Init, Observing, NoLocals
<1>4. \A c \in Controls : Releases(control[c], bridge)
  BY NoRelease DEF Init
<1> QED
  BY <1>2, <1>3, <1>4, CInit DEF RInv

LEMMA RStep == RInv /\ [Next]_vars => RInv'
<1> SUFFICES ASSUME RInv, [Next]_vars PROVE RInv'
  OBVIOUS
<1>1. CInv /\ CInv' /\ WellFormed(bridge) /\ IsObservation(bridge) /\ IsCall(bridge.operation)
  BY CStep, CallFacts DEF RInv
<1>2. ASSUME WellFormed(bridge') /\ Onward(bridge, bridge'), UNCHANGED <<status, poll, control>>
      PROVE  RInv'
  BY <1>1, <1>2, RequestStep
<1>3. ASSUME Advance \/ Restart PROVE RInv'
  <2>1. UNCHANGED <<status, poll, control>>
    BY <1>3 DEF Advance, Restart
  <2> QED
    BY <1>1, <1>2, <1>3, <2>1, AdvanceOnward, RestartOnward
<1>4. ASSUME NEW x \in Stations, AdvanceUnlock(x) PROVE RInv'
  <2>1. UNCHANGED <<status, poll, control>>
    BY <1>4 DEF AdvanceUnlock
  <2> QED
    BY <1>1, <1>2, <1>4, <2>1, UnlocksOnward
<1>5. ASSUME NEW u \in Unlocks, ServeUnlock(u) PROVE RInv'
  <2>1. UNCHANGED <<status, poll, control>>
    BY <1>5 DEF ServeUnlock
  <2> QED
    BY <1>1, <1>2, <1>5, <2>1, UnlocksOnward
<1>6. ASSUME NEW c \in Controls, ControlStep(c) \/ LoseRequest(c) PROVE RInv'
  BY <1>1, <1>6, ServeCallReleases, ServeHangupReleases, EndReleases DEF ControlStep
<1>7. ASSUME NEW c \in Controls, NEW x \in Stations, BeginCall(c, x) \/ BeginHangup(c, x) PROVE RInv'
  BY <1>1, <1>7, BeginReleases
<1>8. ASSUME NEW p \in Pollers, BeginRefresh(p) \/ PollStep(p) \/ FailRefresh(p) \/ Leave(p) PROVE RInv'
  BY <1>1, <1>8, PollerReleases
<1>9. ASSUME UNCHANGED <<bridge, poll, control>>, status'.runtime = status.runtime,
             status'.operation = status.operation, status'.native = status.native
      PROVE  RInv'
  <2>1. Follows(status, bridge) /\ \A p \in Pollers : Observing(p) => Follows(poll[p].seen, bridge)
    BY DEF RInv
  <2>2. Follows(status', bridge')
    BY <1>9, <2>1 DEF Follows
  <2>3. \A p \in Pollers : Observing(p)' => Follows(poll'[p].seen, bridge')
    BY <1>9, <2>1 DEF Observing
  <2> QED
    BY <1>1, <1>9, <2>2, <2>3 DEF RInv
<1>10. ASSUME NEW u \in Unlocks, EndUnlock(u) PROVE RInv'
  <2>1. PICK row, k : status' = status \/ status' = [status EXCEPT !.unlock[k] = row]
    BY <1>10 DEF EndUnlock
  <2>2. /\ status'.runtime = status.runtime /\ status'.operation = status.operation
        /\ status'.native = status.native
    BY <1>1, <2>1 DEF CInv, IInv, Shapes, ObsShapes, IsObservation, Has
  <2> QED
    BY <1>9, <1>10, <2>2 DEF EndUnlock
<1>11. \/ UNCHANGED vars \/ BeginFrame \/ ServeFrame \/ EndFrame
       \/ \E x \in Stations : ReplaceMonitor(x)
       \/ \E u \in Unlocks : LoseUnlock(u) \/ \E x \in Stations : BeginUnlock(u, x)
       => UNCHANGED <<bridge, status, poll, control>>
  BY DEF vars, BeginFrame, ServeFrame, EndFrame, ReplaceMonitor, LoseUnlock, BeginUnlock
<1> QED
  BY <1>3, <1>4, <1>5, <1>6, <1>7, <1>8, <1>9, <1>10, <1>11 DEF Next, UnlockStep

\* The captures that a hangup waits for, before it is taken up, are those of a native call that is
\* over at the bridge or is ending: async_hangup reads the number of the call from the shared
\* observation before it asks the bridge, and neither a call that came meanwhile nor one that an
\* older observation hides can be the one that still talks under that number.
THEOREM ReleasesOwn == Spec => []ReleaseOwner
<1>1. RInv => ReleaseOwner
  <2> SUFFICES ASSUME RInv, NEW c \in Controls, control[c].pc = "releasing",
                      bridge.runtime = control[c].runtime, bridge.native.session = "talking",
                      bridge.native.generation = control[c].generation
               PROVE  FALSE
    BY DEF ReleaseOwner
  <2>1. Releases(control[c], bridge)
    BY DEF RInv
  <2>2. control[c].generation \in Nat /\ Over(control[c].generation, bridge)
    BY <2>1 DEF Releases
  <2> QED
    BY <2>2 DEF Over
<1> QED
  BY <1>1, RInit, RStep, PTL DEF Spec
=============================================================================
