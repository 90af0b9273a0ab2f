----------------------------- MODULE PcmProofs -----------------------------
(***************************************************************************)
(* Proofs about PcmCapture, for any set of producers and any bounds.  An   *)
(* entry has one capture at most, and a hangup revokes every capture and   *)
(* start command of its call (PcmInv).  Types, the owner of the bridge's   *)
(* lease and the order in which frames are played follow from MicInv, the  *)
(* inductive invariant at the end, which is put together from: what a      *)
(* producer knows of its lease (Alive), whom it belongs to (Kept), who has *)
(* the lease of the bridge (LeaseInv), sequence numbers (NumberInv), one   *)
(* holder per token (Distinct), requests that were given up (WireInv), and *)
(* frames still ahead of what was heard (FrameInv).                        *)
(***************************************************************************)
EXTENDS PcmCapture, SequenceTheorems, TLAPS

-----------------------------------------------------------------------------
(* A producer's operation: where it is, and the call that it works for.    *)

FieldTypes ==
  /\ pstate \in [Producers -> States] /\ gen \in [Producers -> Nat]
  /\ identity \in [Producers -> Nat] /\ expected \in [Producers -> Nat]
  /\ local \in [Producers -> Nat] /\ bCall \in Nat /\ bGeneration \in Nat
  /\ \A p \in Producers : reply[p].gen \in Nat
  /\ reply = [p \in Producers |-> reply[p]]
  /\ op \in [Producers -> {"none", "start", "submit", "stop"}]
  /\ phase \in [Producers -> Requests \cup {"none"}]

Course(p) ==
  \/ op[p] = "none" /\ phase[p] = "none"
  \/ op[p] = "start" /\ phase[p] \in {"status", "open"} /\ pstate[p] = "opening"
  \/ /\ op[p] = "submit" /\ phase[p] \in {"submit", "recheck", "reopen"}
     /\ pstate[p] \in {"active", "recovering"}
  \/ op[p] = "stop" /\ phase[p] = "end"
Agrees(p) ==
  /\ pstate[p] \in {"active", "recovering"} => gen[p] = identity[p]
  /\ pstate[p] = "idle" \/ phase[p] = "status" => identity[p] = 0
  /\ op[p] = "submit" \/ phase[p] = "open" => local[p] = identity[p]

ProducerInv ==
  /\ FieldTypes
  /\ running # NoProducer => running \in Producers /\ op[running] = "none"
  /\ \A p \in Producers : Course(p) /\ Agrees(p)

-----------------------------------------------------------------------------
(* Who owns what, and what a release leaves behind.                        *)

OwnerTypes ==
  /\ captures \subseteq Producers /\ launching \subseteq Producers
  /\ starting \in Producers \cup {NoProducer} /\ byEntry \in Producers \cup {NoProducer}
  /\ marker \in [Producers -> Nat] /\ card \in [Producers -> {"off", "starting", "talking", "closed"}]
  /\ hanging \subseteq Nat \ {0} /\ released \subseteq Producers \X (Nat \ {0})

Reservation ==
  starting # NoProducer => byEntry = NoProducer /\ starting \in pending

\* A card asks once, and its command is over before it has a capture.
Fresh(p) ==
  /\ card[p] = "off" => p \notin launching \cup captures /\ \A g \in Nat : <<p, g>> \notin released
  /\ p \in launching => p \notin captures
  /\ op[p] = "start" => p \in launching

\* The release of g reached p: p lost its reservation, or is marked with g, or asked for
\* another call.
Barred(p, g) == starting # p \/ marker[p] = g
Bound(p) == <<p, identity[p]>> \in released => p \notin captures /\ Barred(p, identity[p])
Unlearned(p) ==
  phase[p] = "status" =>
    \A g \in Nat : <<p, g>> \in released => Barred(p, g) \/ expected[p] \notin {0, g}

OwnerInv ==
  /\ OwnerTypes /\ OneCapture /\ Reservation
  /\ \A p \in Producers : Fresh(p) /\ Bound(p) /\ Unlearned(p)

PcmInv == ProducerInv /\ OwnerInv

-----------------------------------------------------------------------------
(* The operations of a producer.  They keep ProducerInv, and for the owner *)
(* they only learn a call, from a status, or forget it.                    *)

Learns(p) ==
  \/ identity'[p] \in {identity[p], 0}
  \/ op[p] = "start" /\ phase[p] = "status" /\ expected[p] \in {0, identity'[p]}
Frame ==
  /\ expected' = expected /\ identity' \in [Producers -> Nat]
  /\ \A p \in Producers : /\ op'[p] = "start" => op[p] = "start"
                          /\ phase'[p] = "status" => phase[p] = "status"
                          /\ Learns(p)

LEMMA StatusReplyStep ==
  ASSUME ProducerInv, NEW p \in Producers, StatusReply(p) PROVE ProducerInv' /\ Frame
<1>1. CASE Ready(p) /\ identity' = [identity EXCEPT ![p] = reply[p].gen]
           /\ local' = [local EXCEPT ![p] = reply[p].gen] /\ Await(p, "open")
           /\ UNCHANGED <<pstate, gen, token, sequence>>
  BY <1>1 DEF ProducerInv, FieldTypes, Course, Agrees, Frame, Learns, StatusReply, Ready, Await,
     Consume, Answered, NoReply, Requests, Quiet, bridge
<1>2. CASE ~Ready(p) /\ Raise(p) /\ UNCHANGED local
  BY <1>2, ProducersAssumption DEF ProducerInv, FieldTypes, Course, Agrees, Frame, Learns, StatusReply,
     Raise, Clear, Return, Consume, Answered, NoReply, Requests, States, Quiet, bridge
<1> QED BY <1>1, <1>2 DEF StatusReply

LEMMA OpenReplyStep ==
  ASSUME ProducerInv, NEW p \in Producers, OpenReply(p) PROVE ProducerInv' /\ Frame
<1>1. CASE Opened(p) /\ Return(p, IF op[p] = "start" THEN "ok" ELSE "outcome")
  BY <1>1, ProducersAssumption DEF ProducerInv, FieldTypes, Course, Agrees, Frame, Learns, OpenReply,
     Opened, Enter, Return, Consume, Answered, NoReply, Requests, States, Quiet, bridge
<1>2. CASE Raise(p)
  BY <1>2, ProducersAssumption DEF ProducerInv, FieldTypes, Course, Agrees, Frame, Learns, OpenReply,
     Raise, Clear, Return, Consume, Answered, NoReply, Requests, States, Quiet, bridge
<1> QED BY <1>1, <1>2 DEF OpenReply

LEMMA SubmitReplyStep ==
  ASSUME ProducerInv, NEW p \in Producers, SubmitReply(p) PROVE ProducerInv' /\ Frame
<1>1. CASE Return(p, "outcome") /\ UNCHANGED <<pstate, gen, token, identity, after>>
  BY <1>1, ProducersAssumption DEF ProducerInv, FieldTypes, Course, Agrees, Frame, Learns, SubmitReply,
     Return, Consume, Answered, NoReply, Requests, States, Quiet, bridge
<1>2. ASSUME NEW next, NEW then, Recheck(p, next, then) PROVE ProducerInv' /\ Frame
  <2>1. FieldTypes'
    BY <1>2 DEF ProducerInv, FieldTypes, SubmitReply, Recheck, Enter, Await, Consume, NoReply,
       Requests, States, bridge
  <2>2. op' = op /\ identity' = identity /\ gen' = gen /\ local' = local /\ running' = running
    BY <1>2 DEF SubmitReply, Recheck, Enter, Await
  <2>3. phase' = [phase EXCEPT ![p] = "recheck"] /\ pstate' = [pstate EXCEPT ![p] = "recovering"]
        /\ op[p] = "submit" /\ gen[p] = identity[p]
    <3>1. Course(p) /\ Agrees(p) BY DEF ProducerInv
    <3>2. phase[p] = "submit" BY DEF SubmitReply, Answered
    <3>3. op[p] = "submit" BY <3>1, <3>2 DEF Course
    <3>4. gen[p] = identity[p] BY <3>1, <3>3 DEF Course, Agrees
    <3> QED BY <3>3, <3>4, <1>2 DEF SubmitReply, Recheck, Enter, Await
  <2>4. \A q \in Producers : Course(q)' /\ Agrees(q)'
    BY <2>2, <2>3 DEF ProducerInv, FieldTypes, Course, Agrees
  <2>5. Frame
    BY <2>1, <2>2, <2>3 DEF Frame, Learns, FieldTypes, ProducerInv, SubmitReply
  <2> QED BY <2>1, <2>2, <2>4, <2>5 DEF ProducerInv
<1>3. CASE Raise(p)
  BY <1>3, ProducersAssumption DEF ProducerInv, FieldTypes, Course, Agrees, Frame, Learns, SubmitReply,
     Raise, Clear, Return, Consume, Answered, NoReply, Requests, States, Quiet, bridge
<1> QED BY <1>1, <1>2, <1>3 DEF SubmitReply

LEMMA RecheckReplyStep ==
  ASSUME ProducerInv, NEW p \in Producers, RecheckReply(p) PROVE ProducerInv' /\ Frame
<1>1. CASE ~SameCall(p) /\ Raise(p)
  BY <1>1, ProducersAssumption DEF ProducerInv, FieldTypes, Course, Agrees, Frame, Learns, RecheckReply,
     Raise, Clear, Return, Consume, Answered, NoReply, Requests, States, Quiet, bridge
<1>2. CASE SameCall(p) /\ Await(p, "reopen") /\ identity' = [identity EXCEPT ![p] = reply[p].gen]
           /\ UNCHANGED <<pstate, gen, token, sequence>>
  BY <1>2 DEF ProducerInv, FieldTypes, Course, Agrees, Frame, Learns, RecheckReply, SameCall, Await,
     Consume, Answered, NoReply, Requests, States, Quiet, bridge
<1>3. CASE SameCall(p) /\ Enter(p, "active")
           /\ Return(p, IF after[p] = "lost" THEN "raised" ELSE "outcome")
           /\ identity' = [identity EXCEPT ![p] = reply[p].gen]
           /\ UNCHANGED <<gen, token, sequence>>
  <2>1. FieldTypes'
    BY <1>3 DEF ProducerInv, FieldTypes, RecheckReply, Enter, Return, Consume, NoReply, Requests,
       States, bridge
  <2>2. op[p] = "submit" /\ local[p] = identity[p] /\ reply[p].gen = identity[p]
    <3>1. Course(p) /\ Agrees(p) BY DEF ProducerInv
    <3>2. phase[p] = "recheck" BY DEF RecheckReply, Answered
    <3> QED BY <3>1, <3>2, <1>3 DEF Course, Agrees, SameCall
  <2>3. identity' = identity /\ gen' = gen /\ local' = local /\ expected' = expected
    BY <2>2, <1>3 DEF ProducerInv, FieldTypes, RecheckReply
  <2>4. /\ op' = [op EXCEPT ![p] = "none"] /\ phase' = [phase EXCEPT ![p] = "none"]
        /\ pstate' = [pstate EXCEPT ![p] = "active"] /\ running' = p
    BY <1>3 DEF Return, Enter
  <2>5. gen[p] = identity[p]
    <3>1. Course(p) /\ Agrees(p) BY DEF ProducerInv
    <3> QED BY <2>2, <3>1 DEF Course, Agrees
  <2> QED BY <2>1, <2>2, <2>3, <2>4, <2>5 DEF ProducerInv, FieldTypes, Course, Agrees, Frame, Learns
<1> QED BY <1>1, <1>2, <1>3 DEF RecheckReply

LEMMA EndReplyStep ==
  ASSUME ProducerInv, NEW p \in Producers, EndReply(p) PROVE ProducerInv' /\ Frame
BY DEF ProducerInv, FieldTypes, Course, Agrees, Frame, Learns, EndReply, Clear, Consume, Answered,
   NoReply, Requests, States, Quiet, bridge

LEMMA CancelCallStep ==
  ASSUME ProducerInv, NEW p \in Producers, CancelCall(p) PROVE ProducerInv' /\ Frame
BY ProducersAssumption DEF ProducerInv, FieldTypes, Course, Agrees, Frame, Learns, CancelCall, Clear,
   Return, Consume, NoReply, Requests, States, Quiet

LEMMA ServeStep ==
  ASSUME ProducerInv, NEW p \in Producers, Serve(p) PROVE ProducerInv' /\ Frame
<1> DEFINE Made == /\ reply' = [q \in Producers |-> reply'[q]]
                   /\ \A q \in Producers : reply'[q].gen \in Nat
<1>1. ASSUME NEW kind, NEW g \in {bCall, 0}, NEW t, NEW k, NEW n, Reply(p, kind, g, t, k, n) PROVE Made
  BY <1>1 DEF ProducerInv, FieldTypes, Reply
<1>2. Made
  <2>1. CASE ServeStatus(p) BY <2>1, <1>1 DEF ServeStatus
  <2>2. CASE ServeOpen(p) BY <2>2, <1>1 DEF ServeOpen
  <2>3. CASE ServeSubmit(p)
    <3>1. CASE ~Accepts(Late(p)) BY <3>1, <2>3, <1>1 DEF ServeSubmit
    <3>2. CASE Accepts(Late(p)) BY <3>2, <2>3, <1>1 DEF ServeSubmit
    <3> QED BY <3>1, <3>2
  <2>4. CASE ServeEnd(p) BY <2>4, <1>1 DEF ServeEnd
  <2> QED BY <2>1, <2>2, <2>3, <2>4 DEF Serve
<1> QED BY <1>2 DEF ProducerInv, FieldTypes, Course, Agrees, Frame, Learns, Serve, fields, call

LEMMA BridgeSteps ==
  ASSUME ProducerInv, Arrive \/ Expire \/ CallBegins \/ CallEnds \/ \E p \in Producers : Lose(p)
  PROVE ProducerInv' /\ Frame
<1>1. CASE Arrive \/ Expire \/ CallBegins \/ CallEnds
  BY <1>1 DEF ProducerInv, FieldTypes, Course, Agrees, Frame, Learns, Arrive, Expire, CallBegins,
     CallEnds, fields, call
<1>2. CASE \E p \in Producers : Lose(p)
  BY <1>2 DEF ProducerInv, FieldTypes, Course, Agrees, Frame, Learns, Lose, Failed, NoReply, fields, call
<1> QED BY <1>1, <1>2

-----------------------------------------------------------------------------
(* Steps of the manager and of the cards that only take ownership away.    *)

Shrinks ==
  /\ OneCapture' /\ Reservation'
  /\ captures' \subseteq captures /\ starting' \in {starting, NoProducer}
  /\ byEntry' \in {byEntry, NoProducer}
  /\ card' \in [Producers -> {"off", "starting", "talking", "closed"}]
  /\ \A p \in Producers : card'[p] = "off" => card[p] = "off"
  /\ hanging' \subseteq Nat \ {0}
  /\ UNCHANGED <<launching, marker, released>>

LEMMA OwnerStep == ASSUME OwnerInv, Frame, Shrinks PROVE OwnerInv'
<1>1. OwnerTypes'
  BY DEF OwnerInv, OwnerTypes, Shrinks
<1>2. SUFFICES ASSUME NEW p \in Producers PROVE Fresh(p)' /\ Bound(p)' /\ Unlearned(p)'
  BY <1>1, <1>2 DEF OwnerInv, Shrinks
<1>3. Fresh(p) /\ Bound(p) /\ Unlearned(p)
  BY DEF OwnerInv
<1>4. \A g \in Nat : Barred(p, g) => Barred(p, g)'
  BY ProducersAssumption DEF Barred, Shrinks
<1>5. Fresh(p)'
  BY <1>3 DEF Fresh, Shrinks, Frame
<1>6. Bound(p)'
  <2>1. identity'[p] \in Nat BY DEF Frame
  <2>2. CASE identity'[p] = identity[p]
    BY <1>3, <1>4, <2>1, <2>2 DEF Bound, Shrinks
  <2>3. CASE identity'[p] = 0
    BY <2>3 DEF Bound, Shrinks, OwnerInv, OwnerTypes
  <2>4. CASE op[p] = "start" /\ phase[p] = "status" /\ expected[p] \in {0, identity'[p]}
    BY <1>3, <1>4, <2>1, <2>4 DEF Bound, Unlearned, Fresh, Shrinks
  <2> QED BY <2>2, <2>3, <2>4 DEF Frame, Learns
<1>7. Unlearned(p)'
  BY <1>3, <1>4 DEF Unlearned, Shrinks, Frame
<1> QED BY <1>5, <1>6, <1>7

\* A step that changes nothing of the producers.
LEMMA StillProducers ==
  ASSUME ProducerInv, UNCHANGED <<fields, expected, op, phase, local, reply, bCall, bGeneration>>,
         running' \in {running, NoProducer}
  PROVE  ProducerInv' /\ Frame
BY DEF ProducerInv, FieldTypes, Course, Agrees, Frame, Learns, fields

LEMMA StillOwners == ASSUME OwnerInv, UNCHANGED captureVars PROVE Shrinks
BY DEF OwnerInv, OwnerTypes, OneCapture, EntryCapture, Reservation, Shrinks, captureVars, manager,
   cards, observed

LEMMA Revocation ==
  ASSUME OwnerInv, NEW S, NEW C, Revoke(S, C)
  PROVE  /\ OneCapture' /\ Reservation'
         /\ captures' \subseteq captures /\ starting' \in {starting, NoProducer}
         /\ byEntry' \in {byEntry, NoProducer}
BY ProducersAssumption DEF Revoke, OwnerInv, OwnerTypes, OneCapture, EntryCapture, Reservation

LEMMA LetGoStep ==
  ASSUME PcmInv, NEW p \in Producers, Record(p) \/ LetGo(p) PROVE PcmInv'
<1>1. ProducerInv' /\ Frame
  BY StillProducers DEF PcmInv, Record, LetGo, producerVars, bridge, call
<1>2. Shrinks
  BY DEF PcmInv, OwnerInv, OwnerTypes, OneCapture, EntryCapture, Reservation, Shrinks, Record, LetGo,
     manager, observed
<1> QED BY <1>1, <1>2, OwnerStep DEF PcmInv

LEMMA RevokingStep ==
  ASSUME PcmInv, Reconcile \/ ReleaseEntry \/ \E p \in Producers : Stop(p) \/ Disconnect(p)
  PROVE  PcmInv'
<1>1. UNCHANGED producerVars /\ UNCHANGED <<launching, marker, hanging, released>>
  BY DEF Reconcile, ReleaseEntry, Stop, Disconnect, cards, observed
<1>2. ProducerInv' /\ Frame
  BY <1>1, StillProducers DEF PcmInv, producerVars, bridge, call
<1>3. \E S, C : Revoke(S, C)
  BY DEF Reconcile, ReleaseEntry, Stop, Disconnect
<1>4. /\ card' \in [Producers -> {"off", "starting", "talking", "closed"}]
      /\ \A p \in Producers : card'[p] = "off" => card[p] = "off"
  BY DEF PcmInv, OwnerInv, OwnerTypes, Reconcile, ReleaseEntry, Stop, Disconnect, cards
<1>5. Shrinks
  BY <1>1, <1>3, <1>4, Revocation DEF PcmInv, OwnerInv, OwnerTypes, Shrinks
<1> QED BY <1>2, <1>5, OwnerStep DEF PcmInv

LEMMA ObservingStep ==
  ASSUME PcmInv, Admit \/ Poll \/ Hangup PROVE PcmInv'
<1>1. ProducerInv' /\ Frame
  BY StillProducers DEF PcmInv, Admit, Poll, Hangup, producerVars, bridge, call
<1>2. Shrinks
  BY DEF PcmInv, ProducerInv, FieldTypes, OwnerInv, OwnerTypes, OneCapture, EntryCapture, Reservation,
     Shrinks, Admit, Poll, Hangup, manager, cards, observed
<1> QED BY <1>1, <1>2, OwnerStep DEF PcmInv

-----------------------------------------------------------------------------
(* Submits and stops: a producer's operation begins or has ended.          *)

LEMMA SubmitStep ==
  ASSUME PcmInv, NEW p \in Producers, Submit(p) PROVE PcmInv'
<1>1. Shrinks
  BY ProducersAssumption DEF PcmInv, OwnerInv, OwnerTypes, OneCapture, EntryCapture, Reservation,
     Shrinks, Submit, observed
<1>2. CASE UNCHANGED producerVars
  <2>1. ProducerInv' /\ Frame
    BY <1>2, StillProducers DEF PcmInv, producerVars, bridge, call
  <2> QED BY <1>1, <2>1, OwnerStep DEF PcmInv
<1>3. CASE BeginSubmit(p, Front(queue[p]))
  <2>1. ProducerInv' /\ Frame
    <3>1. CASE Return(p, "raised") /\ UNCHANGED <<local, batch>>
      BY <1>3, <3>1, ProducersAssumption DEF PcmInv, ProducerInv, FieldTypes, Course, Agrees, Frame,
         Learns, BeginSubmit, Return, fields, bridge, Requests
    <3>2. CASE /\ pstate[p] = "active" /\ op' = [op EXCEPT ![p] = "submit"]
               /\ phase' = [phase EXCEPT ![p] = "submit"]
               /\ local' = [local EXCEPT ![p] = gen[p]] /\ UNCHANGED <<result, running>>
      BY <1>3, <3>2 DEF PcmInv, ProducerInv, FieldTypes, Course, Agrees, Frame, Learns,
         BeginSubmit, Submit, Quiet, fields, bridge, Requests
    <3> QED BY <1>3, <3>1, <3>2 DEF BeginSubmit
  <2> QED BY <1>1, <2>1, OwnerStep DEF PcmInv
<1> QED BY <1>2, <1>3 DEF Submit

\* What a step that ends the turn of a producer does to it.
LEMMA TurnEnds ==
  ASSUME ProducerInv, NEW p \in Producers, running = p, running' = NoProducer,
         local' = local \/ local' = [local EXCEPT ![p] = 0],
         UNCHANGED <<fields, expected, op, phase, reply, bridge>>
  PROVE  ProducerInv' /\ Frame
<1>1. op[p] = "none" /\ phase[p] = "none"
  BY ProducersAssumption DEF ProducerInv, Course
<1> QED BY <1>1 DEF ProducerInv, FieldTypes, Course, Agrees, Frame, Learns, fields, bridge

LEMMA SubmitReturnsStep ==
  ASSUME PcmInv, NEW p \in Producers, SubmitReturns(p) PROVE PcmInv'
<1>1. ProducerInv' /\ Frame
  BY TurnEnds DEF PcmInv, SubmitReturns
<1>2. Shrinks
  BY ProducersAssumption DEF PcmInv, OwnerInv, OwnerTypes, OneCapture, EntryCapture, Reservation,
     Shrinks, SubmitReturns, observed
<1> QED BY <1>1, <1>2, OwnerStep DEF PcmInv

LEMMA CloseStep ==
  ASSUME PcmInv, NEW p \in Producers, Close(p) \/ StopCancelled(p) PROVE PcmInv'
<1>1. Shrinks
  BY DEF PcmInv, OwnerInv, OwnerTypes, OneCapture, EntryCapture, Reservation, Shrinks, Close,
     StopCancelled, captureVars, manager, cards, observed
<1>2. CASE Close(p) /\ UNCHANGED producerVars
  <2>1. ProducerInv' /\ Frame
    BY <1>2, StillProducers DEF PcmInv, producerVars, bridge, call
  <2> QED BY <1>1, <2>1, OwnerStep DEF PcmInv
<1>3. CASE Close(p) /\ BeginStop(p)
  <2>1. ProducerInv' /\ Frame
    BY <1>3 DEF PcmInv, ProducerInv, FieldTypes, Course, Agrees, Frame, Learns, Close, BeginStop,
       Enter, Quiet, bridge, Requests, States
  <2> QED BY <1>1, <2>1, OwnerStep DEF PcmInv
<1>4. CASE StopCancelled(p)
  <2>1. ProducerInv' /\ Frame
    BY <1>4, TurnEnds DEF PcmInv, StopCancelled
  <2> QED BY <1>1, <2>1, OwnerStep DEF PcmInv
<1> QED BY <1>2, <1>3, <1>4 DEF Close

-----------------------------------------------------------------------------
(* Starts, and the release of a call.                                      *)

LEMMA StartStep ==
  ASSUME PcmInv, NEW p \in Producers, Start(p) PROVE PcmInv'
<1>1. ProducerInv'
  BY DEF PcmInv, ProducerInv, FieldTypes, Course, Agrees, Start, BeginStart, Enter, Quiet, bridge,
     Requests, States
<1>2. OwnerTypes' /\ OneCapture' /\ Reservation'
  BY ProducersAssumption DEF PcmInv, OwnerInv, OwnerTypes, OneCapture, EntryCapture, Reservation,
     Start, observed
<1>3. \A g \in Nat : <<p, g>> \notin released
  BY DEF PcmInv, OwnerInv, Fresh, Start
<1>4. ASSUME NEW q \in Producers PROVE Fresh(q)' /\ Bound(q)' /\ Unlearned(q)'
  <2>1. Fresh(q) /\ Bound(q) /\ Unlearned(q)
    BY DEF PcmInv, OwnerInv
  <2>2. identity' = identity /\ released' = released /\ captures' = captures /\ marker' = marker
        /\ identity[q] \in Nat
    BY DEF Start, BeginStart, observed, PcmInv, ProducerInv, FieldTypes
  <2>3. CASE q = p
    BY <1>3, <2>1, <2>2, <2>3 DEF Fresh, Bound, Unlearned, Start, PcmInv, OwnerInv, OwnerTypes
  <2>4. CASE q # p
    BY <2>1, <2>2, <2>4 DEF Fresh, Bound, Unlearned, Barred, Start, BeginStart, PcmInv, OwnerInv,
       OwnerTypes, ProducerInv, FieldTypes
  <2> QED BY <2>3, <2>4
<1> QED BY <1>1, <1>2, <1>4 DEF PcmInv, OwnerInv

LEMMA StartReturnsStep ==
  ASSUME PcmInv, NEW p \in Producers, StartReturns(p) PROVE PcmInv'
<1>1. ProducerInv' /\ Frame
  BY TurnEnds DEF PcmInv, StartReturns
<1>2. /\ identity' = identity /\ phase' = phase /\ op' = op /\ expected' = expected
      /\ UNCHANGED <<marker, hanging, released>>
      /\ starting' = IF starting = p THEN NoProducer ELSE starting
      /\ launching' = launching \ {p} /\ pending' = pending \ {p} /\ p \in launching
      /\ op[p] = "none"
  BY ProducersAssumption DEF StartReturns, fields, observed, PcmInv, ProducerInv
<1>3. CASE ~Publishable(p)
  <2>1. captures' = captures /\ byEntry' = byEntry
        /\ card' \in [Producers -> {"off", "starting", "talking", "closed"}]
        /\ \A q \in Producers : card'[q] = "off" => card[q] = "off"
    BY <1>3 DEF StartReturns, PcmInv, OwnerInv, OwnerTypes
  <2>2. OwnerTypes' /\ OneCapture' /\ Reservation'
    BY <1>2, <2>1 DEF PcmInv, OwnerInv, OwnerTypes, OneCapture, EntryCapture, Reservation
  <2>3. ASSUME NEW q \in Producers PROVE Fresh(q)' /\ Bound(q)' /\ Unlearned(q)'
    BY <1>2, <2>1, ProducersAssumption DEF PcmInv, OwnerInv, Fresh, Bound, Unlearned, Barred
  <2> QED BY <1>1, <2>2, <2>3 DEF PcmInv, OwnerInv
<1>4. CASE Publishable(p)
  <2>1. /\ captures' = captures \cup {p} /\ byEntry' = p /\ starting = p
        /\ card' \in [Producers -> {"off", "starting", "talking", "closed"}]
        /\ \A q \in Producers : card'[q] = "off" => card[q] = "off"
        /\ marker[p] = 0 \/ identity[p] \notin {0, marker[p]}
    BY <1>4 DEF StartReturns, Publishable, Reserved, Unmarked, PcmInv, OwnerInv, OwnerTypes
  <2>2. OwnerTypes' /\ OneCapture' /\ Reservation'
    BY <1>2, <2>1, ProducersAssumption DEF PcmInv, OwnerInv, OwnerTypes, OneCapture, EntryCapture,
       Reservation
  <2>3. <<p, identity[p]>> \notin released
    BY <2>1 DEF PcmInv, OwnerInv, OwnerTypes, Bound, Barred
  <2>4. ASSUME NEW q \in Producers PROVE Fresh(q)' /\ Bound(q)' /\ Unlearned(q)'
    BY <1>2, <2>1, <2>3, ProducersAssumption DEF PcmInv, OwnerInv, Fresh, Bound, Unlearned, Barred
  <2> QED BY <1>1, <2>2, <2>4 DEF PcmInv, OwnerInv
<1> QED BY <1>3, <1>4

LEMMA ReleaseCallStep == ASSUME PcmInv, ReleaseCall PROVE PcmInv'
<1>1. PICK g \in hanging :
        /\ hanging' = hanging \ {g}
        /\ released' = released \cup ((launching \cup captures) \X {g})
        /\ Revoke({p \in pending : identity[p] = g} \cup {p \in Unbound(g) : marker[p] \notin {0, g}},
                  {p \in EntryCapture : identity[p] = g})
        /\ marker' = [p \in Producers |-> IF p \in Unbound(g) /\ marker[p] = 0 THEN g ELSE marker[p]]
  BY Zenon DEF ReleaseCall
<1>2. UNCHANGED <<producerVars, launching, cards>>
  BY DEF ReleaseCall
<1>3. ProducerInv' /\ Frame
  BY <1>2, StillProducers DEF PcmInv, producerVars, bridge, call
<1>4. g \in Nat \ {0}
  BY <1>1 DEF PcmInv, OwnerInv, OwnerTypes
<1>5. /\ OneCapture' /\ Reservation'
      /\ captures' \subseteq captures /\ starting' \in {starting, NoProducer}
      /\ byEntry' \in {byEntry, NoProducer}
  BY <1>1, Revocation DEF PcmInv
<1>6. OwnerTypes'
  BY <1>1, <1>2, <1>4, <1>5 DEF PcmInv, OwnerInv, OwnerTypes, cards
<1>7. ASSUME NEW p \in Producers PROVE Fresh(p)' /\ Bound(p)' /\ Unlearned(p)'
  <2>1. Fresh(p) /\ Bound(p) /\ Unlearned(p) /\ OwnerTypes /\ OneCapture /\ Reservation
    BY DEF PcmInv, OwnerInv
  <2>2. identity' = identity /\ phase' = phase /\ op' = op /\ expected' = expected /\ card' = card
        /\ launching' = launching /\ identity[p] \in Nat
    BY <1>2 DEF producerVars, fields, call, cards, PcmInv, ProducerInv, FieldTypes
  <2>3. Fresh(p)'
    BY <1>1, <1>5, <2>1, <2>2 DEF Fresh
  \* What was released before stays barred: a mark is only set where there is none.
  <2>4. ASSUME NEW h \in Nat \ {0}, Barred(p, h) PROVE Barred(p, h)'
    BY <1>1, <1>5, <2>4, ProducersAssumption DEF Barred
  <2>5. identity[p] = g => p \notin captures' /\ starting' # p
    <3>1. p \in captures => p \in EntryCapture BY <2>1 DEF OneCapture
    <3>2. starting = p => p \in pending BY <2>1, ProducersAssumption DEF Reservation
    <3> QED BY <1>1, <1>5, <3>1, <3>2, ProducersAssumption DEF Revoke
  <2>6. Bound(p)'
    <3>1. CASE <<p, identity[p]>> \in released
      BY <1>5, <2>1, <2>2, <2>4, <3>1 DEF Bound, OwnerTypes
    <3>2. CASE identity[p] = g
      BY <2>2, <2>5, <3>2 DEF Bound, Barred
    <3> QED BY <1>1, <2>2, <3>1, <3>2 DEF Bound
  <2>7. Unlearned(p)'
    <3>1. SUFFICES ASSUME phase[p] = "status", NEW h \in Nat, <<p, h>> \in released', expected[p] \in {0, h}
                   PROVE  Barred(p, h)'
      BY <2>2 DEF Unlearned
    <3>2. CASE <<p, h>> \in released
      BY <2>1, <2>4, <3>1, <3>2 DEF Unlearned, OwnerTypes
    <3>3. CASE h = g
      <4>1. starting = p => p \in pending BY <2>1, ProducersAssumption DEF Reservation
      <4>2. CASE identity[p] = g BY <2>5, <4>2 DEF Barred
      <4>3. CASE p \in Unbound(g) /\ marker[p] \notin {0, g}
        BY <1>1, <1>5, <4>3, ProducersAssumption DEF Revoke, Barred
      <4>4. CASE p \in Unbound(g) /\ marker[p] \in {0, g}
        BY <1>1, <3>3, <4>4 DEF Barred
      <4>5. CASE p \notin Unbound(g) /\ identity[p] # g
        BY <1>5, <3>1, <3>3, <4>1, <4>5, ProducersAssumption
           DEF Unbound, Barred, PcmInv, ProducerInv, Agrees
      <4> QED BY <4>2, <4>3, <4>4, <4>5
    <3> QED BY <1>1, <3>1, <3>2, <3>3
  <2> QED BY <2>3, <2>6, <2>7
<1> QED BY <1>3, <1>5, <1>6, <1>7 DEF PcmInv, OwnerInv

-----------------------------------------------------------------------------
(* Every step keeps the invariant.                                         *)

LEMMA ServedStep ==
  ASSUME PcmInv, NEW p \in Producers, Served(p) PROVE PcmInv'
<1>1. ProducerInv' /\ Frame
  BY StatusReplyStep, OpenReplyStep, SubmitReplyStep, RecheckReplyStep, EndReplyStep, ServeStep
     DEF PcmInv, Served, ProducerStep
<1>2. Shrinks
  BY StillOwners DEF PcmInv, Served
<1> QED BY <1>1, <1>2, OwnerStep DEF PcmInv

LEMMA BridgeStepStep ==
  ASSUME PcmInv, BridgeStep, UNCHANGED captureVars PROVE PcmInv'
<1>1. ProducerInv' /\ Frame
  BY BridgeSteps, CancelCallStep DEF PcmInv, BridgeStep
<1>2. Shrinks
  BY StillOwners DEF PcmInv
<1> QED BY <1>1, <1>2, OwnerStep DEF PcmInv

LEMMA Initially == Init => PcmInv
BY DEF Init, ProducerInit, PcmInv, ProducerInv, FieldTypes, Course, Agrees, OwnerInv, OwnerTypes,
   OneCapture, EntryCapture, Reservation, Fresh, Bound, Unlearned, NoReply, States, Requests

LEMMA Inductive == PcmInv /\ [Next]_vars => PcmInv'
<1> SUFFICES ASSUME PcmInv, [Next]_vars PROVE PcmInv'
  OBVIOUS
<1>1. CASE UNCHANGED vars
  <2>1. ProducerInv' /\ Frame
    BY <1>1, StillProducers DEF PcmInv, vars, producerVars, bridge, call
  <2>2. Shrinks
    BY <1>1, StillOwners DEF PcmInv, vars
  <2> QED BY <2>1, <2>2, OwnerStep DEF PcmInv
<1>2. ASSUME NEW p \in Producers, Served(p) \/ CommandStep(p) \/ CardStep(p) PROVE PcmInv'
  <2>1. CASE Served(p) BY <2>1, ServedStep
  <2>2. CASE CommandStep(p)
    BY <2>2, StartReturnsStep, SubmitReturnsStep, CloseStep DEF CommandStep
  <2>3. CASE CardStep(p)
    BY <2>3, StartStep, LetGoStep, SubmitStep, RevokingStep DEF CardStep
  <2> QED BY <1>2, <2>1, <2>2, <2>3
<1>3. CASE BridgeStep /\ UNCHANGED captureVars
  BY <1>3, BridgeStepStep
<1>4. CASE Poll \/ Reconcile \/ Hangup \/ ReleaseCall \/ ReleaseEntry \/ Admit
  BY <1>4, RevokingStep, ObservingStep, ReleaseCallStep
<1> QED BY <1>1, <1>2, <1>3, <1>4 DEF Next

\* An entry has at most one capture, the one that _by_entry names (websocket.py 462-555),
\* for any number of start commands that overlap.
THEOREM SingleCapture == Spec => []OneCapture
<1>1. PcmInv => OneCapture BY DEF PcmInv, OwnerInv
<1> QED BY <1>1, Initially, Inductive, PTL DEF Spec

\* A capture, or a start command, that was there when the audio of a call was released
\* (release_call, websocket.py 652-686) never speaks for that call afterwards.
THEOREM Revoked == Spec => []HangupRevokes
<1>1. PcmInv => HangupRevokes
  BY DEF PcmInv, OwnerInv, OwnerTypes, HangupRevokes, Bound
<1> QED BY <1>1, Initially, Inductive, PTL DEF Spec

-----------------------------------------------------------------------------
(* What is queued, submitted and answered: the types.                      *)

Kinds == {"none", "error", "ok", "refused", "expired", "cursor", "partial", "unknown"}
Replies == [kind : Kinds, gen : Nat, token : Nat, accepted : Nat, next : Nat]
Lates == [gen : Nat, token : Nat, sequence : Nat, frames : Seq(Nat)]
Outcomes == {"none", "ok", "outcome", "raised", "cancelled"}

LeaseTypes ==
  /\ token \in [Producers -> Nat] /\ sequence \in [Producers -> Nat]
  /\ batch \in [Producers -> Seq(Nat)] /\ after \in [Producers -> Afterwards]
  /\ result \in [Producers -> Outcomes] /\ reply \in [Producers -> Replies]
  /\ bToken \in Nat /\ bTokens \in Nat /\ bNext \in Nat
  /\ heard \in Seq(Nat) /\ wire \subseteq Lates /\ doubt \subseteq Nat

QueueTypes ==
  /\ queue \in [Producers -> Seq(Nat)] /\ flight \in [Producers -> BOOLEAN] /\ made \in Nat
  /\ closing \subseteq Producers /\ pending \subseteq launching
  /\ admission \in BOOLEAN /\ seen \in Nat \cup {Unseen}
  /\ \A p \in Producers : Len(queue[p]) <= MaxQueuedFrames

MicTypes == LeaseTypes /\ QueueTypes

\* Queues and batches are made of pieces of one another.
LEMMA Pieces ==
  ASSUME NEW q \in Seq(Nat)
  PROVE  /\ Front(q) \in Seq(Nat) /\ Rest(q) \in Seq(Nat)
         /\ Len(Front(q)) \in Nat /\ Len(Front(q)) <= Len(q) /\ Len(Rest(q)) = Len(q) - Len(Front(q))
         /\ \A i \in DOMAIN Front(q) : i \in DOMAIN q /\ Front(q)[i] = q[i]
         /\ \A i \in DOMAIN Rest(q) : i + Len(Front(q)) \in DOMAIN q /\ Rest(q)[i] = q[i + Len(Front(q))]
         /\ DOMAIN Front(q) = 1..Len(Front(q)) /\ DOMAIN Rest(q) = 1..Len(Rest(q))
         /\ q # <<>> => Len(Front(q)) > 0
<1> DEFINE n == IF Len(q) < MaxBatchFrames THEN Len(q) ELSE MaxBatchFrames
           k == Len(Front(q))
<1>1. Len(q) \in Nat /\ DOMAIN q = 1..Len(q) /\ \A i \in 1..Len(q) : q[i] \in Nat
  BY LenProperties
<1>2. MaxBatchFrames \in Nat /\ MaxBatchFrames > 0
  BY QueueAssumption
<1>3. n \in Nat /\ n <= Len(q) /\ n \in Int /\ 1 \in Int /\ n - 1 + 1 = n
  BY <1>1, <1>2
<1>4. \A i \in 1..n : q[i] \in Nat
  BY <1>1, <1>3
<1>5. Front(q) = SubSeq(q, 1, n)
  BY DEF Front
<1> HIDE DEF n
<1>6. /\ SubSeq(q, 1, n) \in Seq(Nat)
      /\ Len(SubSeq(q, 1, n)) = IF 1 <= n THEN n - 1 + 1 ELSE 0
      /\ \A i \in 1..(n - 1 + 1) : SubSeq(q, 1, n)[i] = q[1 + i - 1]
  BY <1>3, <1>4, SubSeqProperties
<1>7. Front(q) \in Seq(Nat) /\ k = n /\ \A i \in 1..n : Front(q)[i] = q[i]
  <2>1. k = n
    BY <1>3, <1>5, <1>6
  <2>2. \A i \in 1..n : Front(q)[i] = q[1 + i - 1] /\ 1 + i - 1 = i
    BY <1>3, <1>5, <1>6
  <2> QED
    BY <2>1, <2>2, <1>5, <1>6
<1>8. Rest(q) = SubSeq(q, k + 1, Len(q))
  BY DEF Rest
<1> HIDE DEF k
<1>9. k \in Nat /\ k <= Len(q) /\ k + 1 \in Int /\ Len(q) \in Int
  BY <1>1, <1>3, <1>7
<1>10. \A i \in (k + 1)..Len(q) : q[i] \in Nat
  BY <1>1, <1>9
<1>11. /\ SubSeq(q, k + 1, Len(q)) \in Seq(Nat)
       /\ Len(SubSeq(q, k + 1, Len(q))) = IF k + 1 <= Len(q) THEN Len(q) - (k + 1) + 1 ELSE 0
       /\ \A i \in 1..(Len(q) - (k + 1) + 1) : SubSeq(q, k + 1, Len(q))[i] = q[k + 1 + i - 1]
  BY <1>9, <1>10, SubSeqProperties
<1>12. Rest(q) \in Seq(Nat) /\ Len(Rest(q)) = Len(q) - k
  BY <1>8, <1>9, <1>11
<1>13. \A i \in 1..(Len(q) - k) : Rest(q)[i] = q[i + k]
  <2>1. TAKE i \in 1..(Len(q) - k)
  <2>2. i \in 1..(Len(q) - (k + 1) + 1) /\ k + 1 + i - 1 = i + k
    BY <1>9
  <2> QED
    BY <2>2, <1>8, <1>11
<1>14. DOMAIN Front(q) = 1..k /\ DOMAIN Rest(q) = 1..(Len(q) - k)
  BY <1>7, <1>12, LenProperties DEF k
<1>15. \A i \in DOMAIN Front(q) : i \in DOMAIN q
  BY <1>1, <1>9, <1>14
<1>16. \A i \in DOMAIN Rest(q) : i + k \in DOMAIN q
  BY <1>1, <1>9, <1>14
<1>17. q # <<>> => k > 0
  <2>1. q # <<>> => Len(q) # 0
    BY EmptySeq
  <2> QED
    BY <2>1, <1>1, <1>2, <1>7 DEF n
<1> QED
  BY <1>7, <1>9, <1>12, <1>13, <1>14, <1>15, <1>16, <1>17 DEF k

\* A frame joins the queue: the oldest ones make room.
Recorded(q, f) == IF Len(q) = MaxQueuedFrames THEN Newest(Append(q, f)) ELSE Append(q, f)
LEMMA Records ==
  ASSUME NEW q \in Seq(Nat), NEW f \in Nat, Len(q) <= MaxQueuedFrames
  PROVE  /\ Recorded(q, f) \in Seq(Nat) /\ Len(Recorded(q, f)) <= MaxQueuedFrames
         /\ \E d \in {0, 1} : \A i \in DOMAIN Recorded(q, f) :
              /\ i + d \in 1..(Len(q) + 1)
              /\ Recorded(q, f)[i] = IF i + d = Len(q) + 1 THEN f ELSE q[i + d]
<1> DEFINE a == Append(q, f)
           m == MaxQueuedFrames
<1>1. Len(q) \in Nat /\ DOMAIN q = 1..Len(q) /\ m \in Nat /\ m > 0 /\ Len(q) <= m
  BY LenProperties, QueueAssumption
<1>2. /\ a \in Seq(Nat) /\ Len(a) = Len(q) + 1
      /\ \A i \in 1..Len(q) : a[i] = q[i]
      /\ a[Len(q) + 1] = f
  BY AppendProperties
<1>3. DOMAIN a = 1..(Len(q) + 1) /\ \A i \in 1..(Len(q) + 1) : a[i] \in Nat
  BY <1>2, LenProperties
<1>4. \A i \in 1..(Len(q) + 1) : a[i] = IF i = Len(q) + 1 THEN f ELSE q[i]
  BY <1>1, <1>2
<1>5. Recorded(q, f) = IF Len(q) = m THEN SubSeq(a, Len(a) - m + 1, Len(a)) ELSE a
  BY DEF Recorded, Newest
<1> HIDE DEF a, m
<1>6. CASE Len(q) = m
  <2>1. Len(a) - m + 1 = 2 /\ Len(a) = m + 1
    BY <1>1, <1>2, <1>6
  <2> DEFINE top == m + 1
             s == SubSeq(a, 2, top)
  <2>2. Recorded(q, f) = s
    BY <1>5, <1>6, <2>1
  <2>3. 2 \in Int /\ top \in Int /\ \A i \in 2..top : a[i] \in Nat
    BY <1>1, <1>3, <1>6
  <2> HIDE DEF top
  <2>4. /\ s \in Seq(Nat)
        /\ Len(s) = IF 2 <= top THEN top - 2 + 1 ELSE 0
        /\ \A i \in 1..(top - 2 + 1) : s[i] = a[2 + i - 1]
    BY <2>3, SubSeqProperties
  <2> HIDE DEF s
  <2>5. Len(s) = m /\ top - 2 + 1 = m
    BY <2>4, <1>1 DEF top
  <2>6. DOMAIN s = 1..m
    BY <2>4, <2>5, LenProperties
  <2>7. \A i \in DOMAIN s : i + 1 \in 1..(Len(q) + 1) /\ s[i] = a[i + 1]
    <3>1. TAKE i \in DOMAIN s
    <3>2. i \in 1..(top - 2 + 1) /\ 2 + i - 1 = i + 1
      BY <2>5, <2>6, <1>1
    <3>3. i + 1 \in 1..(Len(q) + 1)
      BY <2>6, <1>1, <1>6
    <3> QED
      BY <3>2, <3>3, <2>4
  <2>8. \A i \in DOMAIN s : i + 1 \in 1..(Len(q) + 1) /\ s[i] = IF i + 1 = Len(q) + 1 THEN f ELSE q[i + 1]
    BY <2>7, <1>4
  <2>9. Len(s) <= m
    BY <2>5, <1>1
  <2> QED
    BY <2>2, <2>4, <2>8, <2>9 DEF m
<1>7. CASE Len(q) # m
  <2>1. Recorded(q, f) = a
    BY <1>5, <1>7
  <2>2. Len(a) <= m
    <3> DEFINE n == Len(q)
    <3>0. n \in Nat /\ m \in Nat /\ n <= m /\ n # m
      BY <1>1, <1>7
    <3> HIDE DEF n
    <3>1. n + 1 <= m
      BY <3>0
    <3> QED
      BY <3>1, <1>2 DEF n
  <2>3. \A i \in DOMAIN a : i + 0 = i /\ i + 0 \in 1..(Len(q) + 1) /\ a[i] = IF i + 0 = Len(q) + 1 THEN f ELSE q[i + 0]
    BY <1>1, <1>3, <1>4
  <2> QED
    BY <2>1, <2>2, <2>3, <1>2 DEF m
<1> QED
  BY <1>6, <1>7

-----------------------------------------------------------------------------
(* The kinds of step, by what they do to the producers.                    *)

\* The producer that ran gives the turn back.
TurnOver(p) ==
  /\ running = p /\ op[p] = "none" /\ phase[p] = "none"
  /\ running' = NoProducer /\ result' = [result EXCEPT ![p] = "none"]
  /\ local' \in {local, [local EXCEPT ![p] = 0]}
  /\ batch' \in {batch, [batch EXCEPT ![p] = <<>>]}
  /\ after' \in {after, [after EXCEPT ![p] = "outcome"]}
  /\ UNCHANGED <<fields, expected, op, phase, reply, bridge, doubt, errors, cancels>>

LEMMA TurnsOver ==
  ASSUME PcmInv, NEW p \in Producers, StartReturns(p) \/ SubmitReturns(p) \/ StopCancelled(p)
  PROVE  TurnOver(p)
<1>1. running = p
  BY DEF StartReturns, SubmitReturns, StopCancelled
<1>2. op[p] = "none" /\ phase[p] = "none"
  BY <1>1, ProducersAssumption DEF PcmInv, ProducerInv, Course
<1>3. CASE StartReturns(p)
  BY <1>1, <1>2, <1>3 DEF StartReturns, TurnOver
<1>4. CASE SubmitReturns(p)
  BY <1>1, <1>2, <1>4 DEF SubmitReturns, TurnOver
<1>5. CASE StopCancelled(p)
  BY <1>1, <1>2, <1>5 DEF StopCancelled, TurnOver
<1> QED
  BY <1>3, <1>4, <1>5

\* What a step of the manager or of a card may do to the producers.
Delegates(p) ==
  \/ UNCHANGED producerVars
  \/ TurnOver(p)
  \/ Start(p)
  \/ Submit(p) /\ BeginSubmit(p, Front(queue[p]))
  \/ Close(p) /\ BeginStop(p)

LEMMA Delegated ==
  ASSUME PcmInv, NEW p \in Producers, CommandStep(p) \/ CardStep(p)
  PROVE  Delegates(p)
<1>1. CASE StartReturns(p) \/ SubmitReturns(p) \/ StopCancelled(p)
  BY <1>1, TurnsOver DEF Delegates
<1>2. CASE Close(p)
  BY <1>2 DEF Close, Delegates
<1>3. CASE Start(p)
  BY <1>3 DEF Delegates
<1>4. CASE Submit(p)
  BY <1>4 DEF Submit, Delegates
<1>5. CASE Record(p) \/ LetGo(p) \/ Stop(p) \/ Disconnect(p)
  BY <1>5 DEF Record, LetGo, Stop, Disconnect, Delegates
<1> QED
  BY <1>1, <1>2, <1>3, <1>4, <1>5 DEF CommandStep, CardStep

Manages == Poll \/ Reconcile \/ Hangup \/ ReleaseCall \/ ReleaseEntry \/ Admit
LEMMA Managed == ASSUME Manages PROVE UNCHANGED producerVars
BY DEF Manages, Poll, Reconcile, Hangup, ReleaseCall, ReleaseEntry, Admit

-----------------------------------------------------------------------------
(* The types of the leases.                                                *)

LEMMA LateType ==
  ASSUME ProducerInv, LeaseTypes, NEW p \in Producers
  PROVE  Late(p) \in Lates /\ Late(p).token = token[p] /\ Late(p).frames = batch[p]
         /\ Late(p).sequence = sequence[p] /\ Late(p).gen = local[p]
BY DEF ProducerInv, FieldTypes, LeaseTypes, Late, Lates

LEMMA NothingTyped == NoReply \in Replies /\ Failed \in Replies
BY DEF NoReply, Failed, Replies, Kinds

LEMMA TurnTypes ==
  ASSUME LeaseTypes, NEW p \in Producers, TurnOver(p)
  PROVE  LeaseTypes'
<1>1. result' \in [Producers -> Outcomes]
  BY DEF LeaseTypes, TurnOver, Outcomes
<1>2. after' \in [Producers -> Afterwards]
  BY DEF LeaseTypes, TurnOver, Afterwards
<1>3. <<>> \in Seq(Nat)
  BY EmptySeq
<1>4. batch' \in [Producers -> Seq(Nat)]
  BY <1>3 DEF LeaseTypes, TurnOver
<1> QED
  BY <1>1, <1>2, <1>4 DEF LeaseTypes, TurnOver, fields, bridge, lease

LEMMA SubmitTypes ==
  ASSUME LeaseTypes, QueueTypes, NEW p \in Producers, BeginSubmit(p, Front(queue[p]))
  PROVE  LeaseTypes'
<1>1. Front(queue[p]) \in Seq(Nat)
  BY Pieces DEF QueueTypes
<1> DEFINE f == Front(queue[p])
<1> HIDE DEF f
<1>2. CASE Return(p, "raised") /\ UNCHANGED <<local, batch>>
  BY <1>2 DEF LeaseTypes, BeginSubmit, fields, bridge, lease, Outcomes, Return
<1>3. CASE batch' = [batch EXCEPT ![p] = f] /\ UNCHANGED <<result, running>>
  BY <1>1, <1>3 DEF f, LeaseTypes, BeginSubmit, fields, bridge, lease, Outcomes
<1> QED
  BY <1>2, <1>3 DEF BeginSubmit, f

LEMMA DelegatedTypes ==
  ASSUME LeaseTypes, QueueTypes, NEW p \in Producers, Delegates(p)
  PROVE  LeaseTypes'
<1>1. CASE UNCHANGED producerVars
  BY <1>1 DEF LeaseTypes, producerVars, fields, bridge, lease, call
<1>2. CASE Start(p)
  BY <1>2 DEF LeaseTypes, Start, BeginStart, bridge, lease
<1>3. CASE Close(p) /\ BeginStop(p)
  BY <1>3 DEF LeaseTypes, BeginStop, bridge, lease
<1> QED
  BY <1>1, <1>2, <1>3, TurnTypes, SubmitTypes DEF Delegates

LEMMA ReplyTypes ==
  ASSUME LeaseTypes, NEW p \in Producers, ProducerStep(p)
  PROVE  LeaseTypes'
<1>0. reply[p] \in Replies /\ reply[p].next \in Nat /\ reply[p].token \in Nat
  BY DEF LeaseTypes, Replies
<1>1. reply' \in [Producers -> Replies]
  BY NothingTyped DEF ProducerStep, StatusReply, OpenReply, SubmitReply, RecheckReply, EndReply, Consume, LeaseTypes
<1>2. UNCHANGED <<batch, bridge, doubt>>
  BY DEF ProducerStep, StatusReply, OpenReply, SubmitReply, RecheckReply, EndReply
<1>3. ASSUME Raise(p) PROVE token' \in [Producers -> Nat] /\ sequence' \in [Producers -> Nat] /\ result' \in [Producers -> Outcomes]
  BY <1>3 DEF Raise, Clear, Return, LeaseTypes, Outcomes
<1>4. /\ token' \in [Producers -> Nat] /\ sequence' \in [Producers -> Nat]
      /\ result' \in [Producers -> Outcomes] /\ after' \in [Producers -> Afterwards]
  <2>1. CASE StatusReply(p)
    BY <1>3, <2>1 DEF StatusReply, LeaseTypes, Await
  <2>2. CASE OpenReply(p)
    BY <1>0, <1>3, <2>2 DEF OpenReply, LeaseTypes, Opened, Return, Outcomes
  <2>3. CASE SubmitReply(p)
    <3>1. ASSUME NEW n \in Nat, NEW a \in Afterwards, Recheck(p, n, a)
          PROVE  /\ token' \in [Producers -> Nat] /\ sequence' \in [Producers -> Nat]
                 /\ result' \in [Producers -> Outcomes] /\ after' \in [Producers -> Afterwards]
      BY <3>1 DEF Recheck, Await, LeaseTypes
    <3>2. {"outcome", "reopen", "lost"} \subseteq Afterwards /\ sequence[p] \in Nat
      BY DEF Afterwards, LeaseTypes
    <3>3. CASE \E n \in Nat, a \in Afterwards : Recheck(p, n, a)
      BY <3>1, <3>3
    <3>4. CASE Raise(p) /\ UNCHANGED after
      BY <1>3, <3>4 DEF LeaseTypes
    <3>5. CASE /\ sequence' = [sequence EXCEPT ![p] = reply[p].next] /\ Return(p, "outcome")
               /\ UNCHANGED <<pstate, gen, token, identity, after>>
      BY <1>0, <3>5 DEF LeaseTypes, Return, Outcomes
    <3> QED
      BY <1>0, <2>3, <3>2, <3>3, <3>4, <3>5 DEF SubmitReply
  <2>4. CASE RecheckReply(p)
    BY <1>3, <2>4 DEF RecheckReply, LeaseTypes, Await, Return, Outcomes
  <2>5. CASE EndReply(p)
    BY <2>5 DEF EndReply, LeaseTypes, Clear
  <2> QED
    BY <2>1, <2>2, <2>3, <2>4, <2>5 DEF ProducerStep
<1> QED
  BY <1>1, <1>2, <1>4 DEF LeaseTypes, bridge, lease

LEMMA CancelTypes ==
  ASSUME ProducerInv, LeaseTypes, NEW p \in Producers, CancelCall(p)
  PROVE  LeaseTypes'
<1>1. wire' \subseteq Lates
  BY LateType DEF CancelCall, LeaseTypes
<1> QED
  BY <1>1, NothingTyped DEF CancelCall, LeaseTypes, Consume, Clear, Return, lease, Outcomes

LEMMA LoseTypes ==
  ASSUME ProducerInv, LeaseTypes, NEW p \in Producers, Lose(p)
  PROVE  LeaseTypes'
<1>1. wire' \subseteq Lates
  BY LateType DEF Lose, LeaseTypes
<1> QED
  BY <1>1, NothingTyped DEF Lose, LeaseTypes, fields, call, lease

\* What is accepted is heard after what was heard before.
LEMMA HeardTypes ==
  ASSUME NEW s \in Seq(Nat), NEW t \in Seq(Nat)
  PROVE  /\ s \o t \in Seq(Nat) /\ Len(s \o t) = Len(s) + Len(t) /\ Len(s) \in Nat /\ Len(t) \in Nat
         /\ DOMAIN s = 1..Len(s) /\ DOMAIN t = 1..Len(t) /\ DOMAIN (s \o t) = 1..(Len(s) + Len(t))
         /\ \A i \in 1..(Len(s) + Len(t)) : (s \o t)[i] = IF i <= Len(s) THEN s[i] ELSE t[i - Len(s)]
BY ConcatProperties, LenProperties

LEMMA PartTypes ==
  ASSUME NEW s \in Seq(Nat), NEW k \in 0..(Len(s) - 1)
  PROVE  /\ SubSeq(s, 1, k) \in Seq(Nat) /\ Len(SubSeq(s, 1, k)) = k /\ DOMAIN SubSeq(s, 1, k) = 1..k
         /\ \A i \in 1..k : i \in DOMAIN s /\ SubSeq(s, 1, k)[i] = s[i]
<1>1. Len(s) \in Nat /\ DOMAIN s = 1..Len(s) /\ \A i \in 1..Len(s) : s[i] \in Nat
  BY LenProperties
<1>2. k \in Nat /\ k <= Len(s) /\ k \in Int /\ 1 \in Int /\ k - 1 + 1 = k
  BY <1>1
<1>3. \A i \in 1..k : s[i] \in Nat /\ i \in DOMAIN s
  BY <1>1, <1>2
<1> DEFINE u == SubSeq(s, 1, k)
<1>4. /\ u \in Seq(Nat)
      /\ Len(u) = IF 1 <= k THEN k - 1 + 1 ELSE 0
      /\ \A i \in 1..(k - 1 + 1) : u[i] = s[1 + i - 1]
  BY <1>2, <1>3, SubSeqProperties
<1> HIDE DEF u
<1>5. Len(u) = k
  BY <1>2, <1>4
<1>6. \A i \in 1..k : u[i] = s[1 + i - 1] /\ 1 + i - 1 = i
  BY <1>2, <1>4
<1>7. DOMAIN u = 1..k
  BY <1>4, <1>5, LenProperties
<1> QED
  BY <1>3, <1>4, <1>5, <1>6, <1>7 DEF u

\* The bridge answers the submit of p with a, and hears u of its batch.
PartOf(u, s) == u \in Seq(Nat) /\ Len(u) <= Len(s) /\ \A i \in 1..Len(u) : i \in DOMAIN s /\ u[i] = s[i]
Hears(p, u, a) ==
  /\ reply' = [reply EXCEPT ![p] = a] /\ a \in Replies /\ a.token = 0
  /\ a.kind \in {"ok", "refused", "expired", "cursor", "partial", "unknown"}
  /\ a.kind \in {"refused", "expired"} => bToken = 0 \/ bToken # token[p] \/ bCall # local[p]
  /\ PartOf(u, batch[p]) /\ heard' = heard \o u
  /\ u # <<>> => Accepts(Late(p))
  /\ bNext' \in {bNext, bNext + Len(u)} /\ a.next \in {0, bNext, bNext + Len(u)}
  /\ UNCHANGED <<bToken, bTokens>>

LEMMA HearsNothing ==
  ASSUME NEW s \in Seq(Nat), NEW t \in Seq(Nat)
  PROVE  PartOf(<<>>, s) /\ t \o <<>> = t /\ Len(<<>>) = 0
<1>1. <<>> \in Seq(Nat) /\ Len(<<>>) = 0 /\ Len(s) \in Nat
  BY EmptySeq, LenProperties
<1>2. 1..0 = {}
  OBVIOUS
<1> QED
  BY <1>1, <1>2, ConcatEmptySeq DEF PartOf

LEMMA Whole == ASSUME NEW s \in Seq(Nat) PROVE PartOf(s, s)
BY LenProperties DEF PartOf

LEMMA Answers ==
  ASSUME NEW kind \in Kinds, NEW g \in Nat, NEW t \in Nat, NEW k \in Nat, NEW n \in Nat,
         NEW p \in Producers, Reply(p, kind, g, t, k, n)
  PROVE  \E a \in Replies : /\ reply' = [reply EXCEPT ![p] = a]
                            /\ a.kind = kind /\ a.gen = g /\ a.token = t /\ a.next = n
<1> DEFINE a == [kind |-> kind, gen |-> g, token |-> t, accepted |-> k, next |-> n]
<1>1. a \in Replies /\ a.kind = kind /\ a.gen = g /\ a.token = t /\ a.next = n
  BY DEF Replies
<1>2. reply' = [reply EXCEPT ![p] = a]
  BY DEF Reply
<1> HIDE DEF a
<1> QED
  BY <1>1, <1>2

LEMMA SubmitHeard ==
  ASSUME ProducerInv, LeaseTypes, NEW p \in Producers, ServeSubmit(p)
  PROVE  \E u, a : Hears(p, u, a)
<1> DEFINE r == Late(p)
           n == Len(r.frames)
<1>1. /\ r.frames = batch[p] /\ r.token = token[p] /\ r.gen = local[p]
      /\ batch[p] \in Seq(Nat) /\ heard \in Seq(Nat) /\ bNext \in Nat /\ bCall \in Nat
      /\ n = Len(batch[p]) /\ n \in Nat
  BY LateType, LenProperties DEF LeaseTypes, ProducerInv, FieldTypes
<1>2. UNCHANGED <<bToken, bTokens>>
  BY DEF ServeSubmit
<1>3. {"ok", "refused", "expired", "cursor", "partial", "unknown"} \subseteq Kinds
  BY DEF Kinds
<1>4. CASE ~Accepts(r) /\ UNCHANGED <<bNext, heard, errors>>
  <2>1. ASSUME NEW kind \in {"refused", "expired", "cursor"}, NEW x \in {0, bNext},
               Reply(p, kind, bCall, 0, 0, x),
               kind \in {"refused", "expired"} => bToken = 0 \/ bToken # token[p] \/ bCall # local[p]
        PROVE  \E u, a : Hears(p, u, a)
    <3>0. kind \in Kinds /\ x \in Nat /\ bCall \in Nat
      BY <1>1, <1>3
    <3>1. PICK a \in Replies : reply' = [reply EXCEPT ![p] = a] /\ a.kind = kind /\ a.token = 0 /\ a.next = x
      BY <2>1, <3>0, Answers
    <3>2. PartOf(<<>>, batch[p]) /\ heard \o <<>> = heard
      BY <1>1, HearsNothing
    <3>3. Hears(p, <<>>, a)
      BY <1>2, <1>4, <2>1, <3>1, <3>2 DEF Hears
    <3> QED
      BY <3>3
  <2>2. CASE (r.gen # bCall \/ bToken \notin {0, r.token}) /\ Reply(p, "refused", bCall, 0, 0, 0)
    BY <1>1, <2>1, <2>2
  <2>3. CASE bToken = 0 /\ r.gen = bCall /\ Reply(p, "expired", bCall, 0, 0, 0)
    BY <2>1, <2>3
  <2>4. CASE Reply(p, "cursor", bCall, 0, 0, bNext)
    BY <2>1, <2>4
  <2> QED
    BY <1>4, <2>2, <2>3, <2>4, Zenon DEF ServeSubmit
<1>5. CASE Accepts(r) /\ heard' = heard \o r.frames /\ bNext' = bNext + n /\ Reply(p, "ok", bCall, 0, n, bNext + n)
  <2> DEFINE x == bNext + n
             m == n
  <2>0. x \in Nat /\ m \in Nat /\ bCall \in Nat /\ "ok" \in Kinds /\ Reply(p, "ok", bCall, 0, m, x)
    BY <1>1, <1>3, <1>5
  <2> HIDE DEF x, m
  <2>4. PICK a \in Replies : reply' = [reply EXCEPT ![p] = a] /\ a.kind = "ok" /\ a.token = 0 /\ a.next = x
    BY <2>0, Answers
  <2>1. /\ reply' = [reply EXCEPT ![p] = a] /\ a \in Replies /\ a.kind = "ok" /\ a.token = 0
        /\ a.next = bNext + Len(batch[p])
    BY <1>1, <2>4 DEF x
  <2>2. PartOf(batch[p], batch[p])
    BY <1>1, Whole
  <2>3. Hears(p, batch[p], a)
    BY <1>1, <1>2, <1>5, <2>1, <2>2 DEF Hears
  <2> QED
    BY <2>3
<1>6. CASE /\ Accepts(r)
           /\ \E k \in 0..(n - 1), durable \in BOOLEAN :
                /\ heard' = heard \o SubSeq(r.frames, 1, k)
                /\ bNext' = IF durable THEN bNext + k ELSE bNext
                /\ Reply(p, "partial", bCall, 0, k, bNext + k)
  <2>1. PICK k \in 0..(n - 1), durable \in BOOLEAN :
          /\ heard' = heard \o SubSeq(r.frames, 1, k)
          /\ bNext' = IF durable THEN bNext + k ELSE bNext
          /\ Reply(p, "partial", bCall, 0, k, bNext + k)
    BY <1>6
  <2>2. k \in Nat /\ k <= n /\ k \in 0..(Len(batch[p]) - 1)
    BY <1>1
  <2> DEFINE u == SubSeq(batch[p], 1, k)
  <2>3. u \in Seq(Nat) /\ Len(u) = k /\ \A i \in 1..k : i \in DOMAIN batch[p] /\ u[i] = batch[p][i]
    BY <1>1, <2>2, PartTypes
  <2>4. heard' = heard \o u
    BY <1>1, <2>1
  <2> HIDE DEF u
  <2>5. PartOf(u, batch[p])
    BY <1>1, <2>2, <2>3 DEF PartOf
  <2> DEFINE x == bNext + k
  <2>0. x \in Nat /\ k \in Nat /\ bCall \in Nat /\ "partial" \in Kinds /\ Reply(p, "partial", bCall, 0, k, x)
    BY <1>1, <1>3, <2>1, <2>2
  <2> HIDE DEF x
  <2>8. PICK a \in Replies : reply' = [reply EXCEPT ![p] = a] /\ a.kind = "partial" /\ a.token = 0 /\ a.next = x
    BY <2>0, Answers
  <2>6. reply' = [reply EXCEPT ![p] = a] /\ a \in Replies /\ a.kind = "partial" /\ a.token = 0 /\ a.next = bNext + k
    BY <2>8 DEF x
  <2>7. Hears(p, u, a)
    BY <1>2, <1>6, <2>1, <2>3, <2>4, <2>5, <2>6 DEF Hears
  <2> QED
    BY <2>7
<1>7. CASE Accepts(r) /\ Reply(p, "unknown", 0, 0, 0, 0) /\ UNCHANGED <<bNext, heard>>
  <2>1. PICK a \in Replies : reply' = [reply EXCEPT ![p] = a] /\ a.kind = "unknown" /\ a.token = 0 /\ a.next = 0
    BY <1>3, <1>7, Answers
  <2>2. PartOf(<<>>, batch[p]) /\ heard \o <<>> = heard
    BY <1>1, HearsNothing
  <2>3. Hears(p, <<>>, a)
    BY <1>2, <1>7, <2>1, <2>2 DEF Hears
  <2> QED
    BY <2>3
<1> QED
  BY <1>4, <1>5, <1>6, <1>7, Zenon DEF ServeSubmit

\* The other answers of the bridge.
Grants(p, a) ==
  /\ phase[p] \in {"open", "reopen"} /\ local[p] = bCall /\ bToken = 0
  /\ bTokens' = bTokens + 1 /\ bToken' = bTokens + 1 /\ bNext' = 0
  /\ a.kind = "ok" /\ a.token = bTokens + 1 /\ a.next = 0
Tells(p, a) ==
  /\ UNCHANGED lease /\ a.token = 0 /\ a.next = 0
  /\ \/ phase[p] \in {"status", "recheck"} /\ a.kind = "ok" /\ a.gen = bCall
     \/ phase[p] \in {"open", "reopen"} /\ a.kind = "refused" /\ ~(local[p] = bCall /\ bToken = 0)
     \/ phase[p] = "end" /\ a.kind = "refused" /\ ~(token[p] = bToken /\ gen[p] = bCall)
Ends(p, a) ==
  /\ phase[p] = "end" /\ token[p] = bToken /\ gen[p] = bCall
  /\ bToken' = 0 /\ UNCHANGED <<bTokens, bNext>>
  /\ a.kind = "ok" /\ a.token = 0 /\ a.next = sequence[p]

LEMMA OtherServed ==
  ASSUME ProducerInv, LeaseTypes, NEW p \in Producers, ServeStatus(p) \/ ServeOpen(p) \/ ServeEnd(p)
  PROVE  /\ heard' = heard
         /\ \E a \in Replies : reply' = [reply EXCEPT ![p] = a] /\ (Grants(p, a) \/ Tells(p, a) \/ Ends(p, a))
<1>1. bCall \in Nat /\ bTokens + 1 \in Nat /\ sequence[p] \in Nat /\ {"ok", "refused"} \subseteq Kinds
  BY DEF LeaseTypes, ProducerInv, FieldTypes, Kinds
<1>2. heard' = heard
  BY DEF ServeStatus, ServeOpen, ServeEnd
<1>3. CASE ServeStatus(p)
  <2>1. Reply(p, "ok", bCall, 0, 0, 0)
    BY <1>3 DEF ServeStatus
  <2>2. PICK a \in Replies : reply' = [reply EXCEPT ![p] = a] /\ a.kind = "ok" /\ a.gen = bCall /\ a.token = 0 /\ a.next = 0
    BY <1>1, <2>1, Answers
  <2> QED
    BY <1>2, <1>3, <2>2 DEF ServeStatus, Tells
<1>4. CASE ServeOpen(p) /\ local[p] = bCall /\ bToken = 0
  <2>1. Reply(p, "ok", bCall, bTokens + 1, 0, 0)
    BY <1>4 DEF ServeOpen
  <2>2. PICK a \in Replies : /\ reply' = [reply EXCEPT ![p] = a] /\ a.kind = "ok" /\ a.token = bTokens + 1
                             /\ a.next = 0
    BY <1>1, <2>1, Answers
  <2> QED
    BY <1>2, <1>4, <2>2 DEF ServeOpen, Grants
<1>5. CASE ServeOpen(p) /\ ~(local[p] = bCall /\ bToken = 0)
  <2>1. Reply(p, "refused", bCall, 0, 0, 0)
    BY <1>5 DEF ServeOpen
  <2>2. PICK a \in Replies : reply' = [reply EXCEPT ![p] = a] /\ a.kind = "refused" /\ a.token = 0 /\ a.next = 0
    BY <1>1, <2>1, Answers
  <2> QED
    BY <1>2, <1>5, <2>2 DEF ServeOpen, Tells
<1>6. CASE ServeEnd(p) /\ token[p] = bToken /\ gen[p] = bCall
  <2>1. Reply(p, "ok", bCall, 0, 0, sequence[p])
    BY <1>6 DEF ServeEnd
  <2>2. PICK a \in Replies : reply' = [reply EXCEPT ![p] = a] /\ a.kind = "ok" /\ a.token = 0 /\ a.next = sequence[p]
    BY <1>1, <2>1, Answers
  <2> QED
    BY <1>2, <1>6, <2>2 DEF ServeEnd, Ends
<1>7. CASE ServeEnd(p) /\ ~(token[p] = bToken /\ gen[p] = bCall)
  <2>1. Reply(p, "refused", bCall, 0, 0, 0)
    BY <1>7 DEF ServeEnd
  <2>2. PICK a \in Replies : reply' = [reply EXCEPT ![p] = a] /\ a.kind = "refused" /\ a.token = 0 /\ a.next = 0
    BY <1>1, <2>1, Answers
  <2> QED
    BY <1>2, <1>7, <2>2 DEF ServeEnd, Tells, lease
<1> QED
  BY <1>3, <1>4, <1>5, <1>6, <1>7

\* An answer of the bridge: to a submit, or to another request.
Responds(p, a) ==
  /\ Quiet /\ phase[p] # "none" /\ reply[p] = NoReply
  /\ reply' = [reply EXCEPT ![p] = a] /\ a \in Replies
  /\ \/ phase[p] = "submit" /\ \E u : Hears(p, u, a)
     \/ heard' = heard /\ (Grants(p, a) \/ Tells(p, a) \/ Ends(p, a))
  /\ UNCHANGED <<fields, expected, call, bCall, bGeneration, wire, doubt, cancels>>
LEMMA Serves ==
  ASSUME ProducerInv, LeaseTypes, NEW p \in Producers, Serve(p)
  PROVE  \E a : Responds(p, a)
<1>1. CASE ServeSubmit(p)
  <2>1. PICK u, a : Hears(p, u, a)
    BY <1>1, SubmitHeard
  <2>2. phase[p] = "submit"
    BY <1>1 DEF ServeSubmit
  <2>3. reply' = [reply EXCEPT ![p] = a] /\ a \in Replies
    BY <2>1 DEF Hears
  <2> QED
    BY <2>1, <2>2, <2>3 DEF Serve, Responds
<1>2. CASE ServeStatus(p) \/ ServeOpen(p) \/ ServeEnd(p)
  <2>1. heard' = heard
    BY <1>2, OtherServed
  <2>2. PICK a \in Replies : reply' = [reply EXCEPT ![p] = a] /\ (Grants(p, a) \/ Tells(p, a) \/ Ends(p, a))
    BY <1>2, OtherServed
  <2> QED
    BY <2>1, <2>2 DEF Serve, Responds
<1> QED
  BY <1>1, <1>2 DEF Serve

LEMMA ServeTypes ==
  ASSUME LeaseTypes, NEW p \in Producers, NEW a, Responds(p, a)
  PROVE  LeaseTypes'
<1>1. reply' \in [Producers -> Replies]
  BY DEF Responds, LeaseTypes
<1>2. bToken' \in Nat /\ bTokens' \in Nat /\ bNext' \in Nat /\ heard' \in Seq(Nat)
  <2>1. CASE heard' = heard /\ (Grants(p, a) \/ Tells(p, a) \/ Ends(p, a))
    BY <2>1 DEF LeaseTypes, Grants, Tells, Ends, lease
  <2>2. ASSUME NEW u, Hears(p, u, a) PROVE bToken' \in Nat /\ bTokens' \in Nat /\ bNext' \in Nat /\ heard' \in Seq(Nat)
    <3>1. u \in Seq(Nat) /\ heard \in Seq(Nat)
      BY <2>2 DEF Hears, PartOf, LeaseTypes
    <3>2. Len(u) \in Nat /\ heard \o u \in Seq(Nat)
      BY <3>1, HeardTypes
    <3> QED
      BY <2>2, <3>2 DEF Hears, LeaseTypes
  <2> QED
    BY <2>1, <2>2 DEF Responds
<1> QED
  BY <1>1, <1>2 DEF Responds, LeaseTypes, fields, call

LEMMA ArriveTypes ==
  ASSUME LeaseTypes, Arrive
  PROVE  LeaseTypes'
<1>1. PICK r \in wire :
         /\ wire' = wire \ {r}
         /\ IF Accepts(r) THEN heard' = heard \o r.frames /\ bNext' = bNext + Len(r.frames)
                          ELSE UNCHANGED <<heard, bNext>>
  BY DEF Arrive
<1>2. r.frames \in Seq(Nat) /\ heard \in Seq(Nat) /\ bNext \in Nat
  BY DEF LeaseTypes, Lates
<1>3. heard \o r.frames \in Seq(Nat) /\ bNext + Len(r.frames) \in Nat
  <2>1. heard \o r.frames \in Seq(Nat) /\ Len(r.frames) \in Nat
    BY <1>2, HeardTypes
  <2> QED
    BY <1>2, <2>1
<1>4. heard' \in Seq(Nat) /\ bNext' \in Nat
  <2>1. CASE Accepts(r)
    BY <1>1, <1>3, <2>1
  <2>2. CASE ~Accepts(r)
    BY <1>1, <1>2, <2>2
  <2> QED
    BY <2>1, <2>2
<1>5. wire' \subseteq Lates
  BY <1>1 DEF LeaseTypes
<1> QED
  BY <1>4, <1>5 DEF Arrive, LeaseTypes, fields, call

LEMMA LeaseTypesStep ==
  ASSUME PcmInv, LeaseTypes, QueueTypes, [Next]_vars
  PROVE  LeaseTypes'
<1>0. ProducerInv
  BY DEF PcmInv
<1>1. CASE UNCHANGED vars \/ Manages
  <2>1. UNCHANGED producerVars
    BY <1>1, Managed DEF vars
  <2> QED
    BY <2>1 DEF LeaseTypes, producerVars, fields, bridge, lease, call
<1>2. ASSUME NEW p \in Producers, CommandStep(p) \/ CardStep(p) PROVE LeaseTypes'
  BY <1>2, Delegated, DelegatedTypes
<1>3. ASSUME NEW p \in Producers, Served(p) PROVE LeaseTypes'
  BY <1>0, <1>3, ReplyTypes, Serves, ServeTypes DEF Served
<1>4. ASSUME NEW p \in Producers, Lose(p) \/ CancelCall(p) PROVE LeaseTypes'
  BY <1>0, <1>4, LoseTypes, CancelTypes
<1>5. CASE Expire \/ CallBegins \/ CallEnds
  <2>1. bToken' \in Nat
    BY <1>5 DEF Expire, CallBegins, CallEnds, LeaseTypes, lease
  <2>2. UNCHANGED <<fields, call, reply, bTokens, bNext, heard, wire, doubt>>
    BY <1>5 DEF Expire, CallBegins, CallEnds, lease
  <2> QED
    BY <2>1, <2>2 DEF LeaseTypes, fields, call
<1> QED
  BY <1>1, <1>2, <1>3, <1>4, <1>5, ArriveTypes DEF Next, BridgeStep, Manages

-----------------------------------------------------------------------------
(* The types of the queues and of the manager's sets.                      *)

Queues(q) == q \in [Producers -> Seq(Nat)] /\ \A p \in Producers : Len(q[p]) <= MaxQueuedFrames
Cuts(p) == queue' \in {queue, [queue EXCEPT ![p] = <<>>]}

LEMMA CutTypes == ASSUME Queues(queue), NEW p \in Producers, Cuts(p) PROVE Queues(queue)'
<1>1. <<>> \in Seq(Nat) /\ Len(<<>>) = 0 /\ 0 <= MaxQueuedFrames
  BY EmptySeq, QueueAssumption
<1>2. CASE queue' = queue
  BY <1>2 DEF Queues
<1>3. CASE queue' = [queue EXCEPT ![p] = <<>>]
  BY <1>1, <1>3 DEF Queues
<1> QED
  BY <1>2, <1>3 DEF Cuts

LEMMA RestTypes ==
  ASSUME Queues(queue), NEW p \in Producers, queue' = [queue EXCEPT ![p] = Rest(@)]
  PROVE  Queues(queue)'
<1> DEFINE r == Rest(queue[p])
<1>1. queue[p] \in Seq(Nat) /\ Len(queue[p]) <= MaxQueuedFrames /\ Len(queue[p]) \in Nat
  BY LenProperties DEF Queues
<1>2. r \in Seq(Nat) /\ Len(r) <= MaxQueuedFrames
  <2>1. r \in Seq(Nat) /\ Len(Front(queue[p])) \in Nat /\ Len(r) = Len(queue[p]) - Len(Front(queue[p]))
    BY <1>1, Pieces
  <2>2. MaxQueuedFrames \in Nat
    BY QueueAssumption
  <2> DEFINE a == Len(queue[p])
             b == Len(Front(queue[p]))
             c == Len(r)
  <2>3. a \in Nat /\ b \in Nat /\ c = a - b /\ a <= MaxQueuedFrames
    BY <1>1, <2>1
  <2> HIDE DEF a, b, c
  <2>4. c <= MaxQueuedFrames
    BY <2>2, <2>3
  <2> QED
    BY <2>1, <2>4 DEF c
<1>3. queue' = [queue EXCEPT ![p] = r]
  OBVIOUS
<1> HIDE DEF r
<1> QED
  BY <1>2, <1>3 DEF Queues

LEMMA RecordTypes ==
  ASSUME Queues(queue), made \in Nat, NEW p \in Producers, Record(p)
  PROVE  Queues(queue)' /\ made' \in Nat /\ queue' = [queue EXCEPT ![p] = Recorded(queue[p], made + 1)]
<1> DEFINE f == made + 1
           r == Recorded(queue[p], f)
<1>1. f \in Nat /\ queue[p] \in Seq(Nat) /\ Len(queue[p]) <= MaxQueuedFrames /\ made' = f
  BY DEF Queues, Record
<1>2. queue' = [queue EXCEPT ![p] = r]
  BY DEF Record, Recorded
<1> HIDE DEF f
<1>3. r \in Seq(Nat) /\ Len(r) <= MaxQueuedFrames
  BY <1>1, Records
<1> HIDE DEF r
<1>4. Queues(queue)'
  BY <1>2, <1>3 DEF Queues
<1> QED
  BY <1>1, <1>2, <1>4 DEF r, f

\* What becomes of the queues in a step.
QueueStep(p) ==
  \/ Cuts(p) /\ made' = made
  \/ Record(p)
  \/ /\ Submit(p) /\ p \in captures /\ admission
     /\ queue' = [queue EXCEPT ![p] = Rest(@)] /\ BeginSubmit(p, Front(queue[p])) /\ made' = made

LEMMA QueueSteps ==
  ASSUME QueueTypes, NEW p \in Producers, CommandStep(p) \/ CardStep(p) \/ UNCHANGED <<queue, made>>
  PROVE  QueueStep(p)
<1>1. [queue EXCEPT ![p] = queue[p]] = queue
  BY DEF QueueTypes
<1>2. CASE StartReturns(p)
  BY <1>2 DEF StartReturns, QueueStep, Cuts
<1>3. CASE SubmitReturns(p)
  BY <1>1, <1>3 DEF SubmitReturns, Unsent, QueueStep, Cuts
<1>4. CASE StopCancelled(p) \/ Close(p) \/ Stop(p) \/ Start(p) \/ UNCHANGED <<queue, made>>
  BY <1>4 DEF StopCancelled, Close, Stop, Start, QueueStep, Cuts, captureVars, cards
<1>5. CASE LetGo(p) \/ Disconnect(p)
  BY <1>5 DEF LetGo, Disconnect, QueueStep, Cuts
<1>6. CASE Submit(p)
  BY <1>6 DEF Submit, QueueStep, Cuts
<1> QED
  BY <1>2, <1>3, <1>4, <1>5, <1>6 DEF CommandStep, CardStep, QueueStep

LEMMA QueueStepTypes ==
  ASSUME QueueTypes, NEW p \in Producers, QueueStep(p)
  PROVE  Queues(queue)' /\ made' \in Nat
<1>1. Queues(queue) /\ made \in Nat
  BY DEF QueueTypes, Queues
<1> QED
  BY <1>1, CutTypes, RestTypes, RecordTypes DEF QueueStep

LEMMA SetTypes ==
  ASSUME OwnerInv, QueueTypes, NEW p \in Producers, CommandStep(p) \/ CardStep(p)
  PROVE  /\ flight' \in [Producers -> BOOLEAN] /\ closing' \subseteq Producers
         /\ pending' \subseteq launching' /\ admission' \in BOOLEAN /\ seen' \in Nat \cup {Unseen}
<1> USE DEF QueueTypes, OwnerInv, OwnerTypes
<1>1. CASE StartReturns(p)
  BY <1>1 DEF StartReturns, StopUnpublished, observed
<1>2. CASE SubmitReturns(p)
  <2>1. flight' \in [Producers -> BOOLEAN]
    BY <1>2 DEF SubmitReturns
  <2> QED
    BY <1>2, <2>1 DEF SubmitReturns, observed
<1>3. CASE StopCancelled(p) \/ Close(p) \/ Start(p) \/ LetGo(p) \/ Record(p)
  BY <1>3 DEF StopCancelled, Close, Start, LetGo, Record, captureVars, manager, cards, observed
<1>4. CASE Stop(p) \/ Disconnect(p)
  BY <1>4 DEF Stop, Disconnect, Revoke, cards, observed
<1>5. CASE Submit(p)
  BY <1>5 DEF Submit, observed
<1> QED
  BY <1>1, <1>2, <1>3, <1>4, <1>5 DEF CommandStep, CardStep

LEMMA QueueTypesStep ==
  ASSUME PcmInv, QueueTypes, [Next]_vars
  PROVE  QueueTypes'
<1>0. ProducerInv /\ OwnerInv
  BY DEF PcmInv
<1>1. ASSUME NEW p \in Producers, CommandStep(p) \/ CardStep(p) PROVE QueueTypes'
  <2>1. Queues(queue)' /\ made' \in Nat
    BY <1>1, QueueSteps, QueueStepTypes
  <2> QED
    BY <1>0, <1>1, <2>1, SetTypes DEF QueueTypes, Queues
<1>2. CASE UNCHANGED captureVars
  BY <1>2 DEF captureVars, manager, cards, observed, QueueTypes
<1>3. CASE Manages
  <2>1. UNCHANGED cards /\ closing' \subseteq Producers /\ pending' \subseteq launching' /\ admission' \in BOOLEAN
    BY <1>0, <1>3 DEF Manages, Poll, Reconcile, Hangup, ReleaseCall, ReleaseEntry, Admit, Revoke, QueueTypes, OwnerInv,
       OwnerTypes, manager, cards, observed
  <2>2. seen' \in Nat \cup {Unseen}
    BY <1>0, <1>3 DEF Manages, Poll, Reconcile, Hangup, ReleaseCall, ReleaseEntry, Admit, QueueTypes, ProducerInv,
       FieldTypes, observed
  <2> QED
    BY <2>1, <2>2 DEF QueueTypes, cards
<1>4. UNCHANGED vars => UNCHANGED captureVars
  BY DEF vars
<1> QED
  BY <1>1, <1>2, <1>3, <1>4 DEF Next, Served, Manages

LEMMA TypesInitially == Init => MicTypes
<1>1. <<>> \in Seq(Nat) /\ Len(<<>>) = 0 /\ 0 <= MaxQueuedFrames
  BY EmptySeq, QueueAssumption
<1>2. Init => LeaseTypes
  BY <1>1, NothingTyped DEF Init, ProducerInit, LeaseTypes, Afterwards, Outcomes
<1>3. Init => QueueTypes
  BY <1>1 DEF Init, QueueTypes
<1> QED
  BY <1>2, <1>3 DEF MicTypes

-----------------------------------------------------------------------------
(* What a producer knows of its lease.                                     *)

Alive(p) ==
  /\ token[p] <= bTokens /\ reply[p].token <= bTokens
  /\ pstate[p] \in {"idle", "opening"} => token[p] = 0
  /\ pstate[p] \in {"active", "recovering"} => token[p] # 0 /\ gen[p] # 0 /\ expected[p] \in {0, gen[p]}
  /\ phase[p] = "open" => local[p] # 0 /\ expected[p] \in {0, local[p]}
  /\ phase[p] = "none" => reply[p] = NoReply
  /\ reply[p].token # 0 => phase[p] \in {"open", "reopen"} /\ reply[p].kind = "ok"
  /\ phase[p] \in {"open", "reopen"} /\ reply[p].kind = "ok" => reply[p].token # 0

\* A step of one producer leaves the others alone.
Elsewhere(p) ==
  \A q \in Producers : q # p =>
    /\ pstate'[q] = pstate[q] /\ gen'[q] = gen[q] /\ token'[q] = token[q] /\ sequence'[q] = sequence[q]
    /\ expected'[q] = expected[q] /\ op'[q] = op[q] /\ phase'[q] = phase[q] /\ local'[q] = local[q]
    /\ batch'[q] = batch[q] /\ after'[q] = after[q] /\ reply'[q] = reply[q] /\ result'[q] = result[q]

Typed == ProducerInv /\ LeaseTypes
LEMMA Alone == ASSUME Typed, NEW p \in Producers, ProducerStep(p) \/ CancelCall(p) \/ Lose(p) PROVE Elsewhere(p)
<1> USE DEF Typed, ProducerInv, FieldTypes, LeaseTypes, Elsewhere
<1>1. CASE StatusReply(p)
  BY <1>1 DEF StatusReply, Consume, Await, Raise, Clear, Return
<1>2. CASE OpenReply(p)
  BY <1>2 DEF OpenReply, Consume, Opened, Enter, Raise, Clear, Return
<1>3. CASE SubmitReply(p)
  BY <1>3 DEF SubmitReply, Consume, Recheck, Enter, Await, Raise, Clear, Return
<1>4. CASE RecheckReply(p)
  BY <1>4 DEF RecheckReply, Consume, Enter, Await, Raise, Clear, Return
<1>5. CASE EndReply(p)
  BY <1>5 DEF EndReply, Consume, Clear
<1>6. CASE CancelCall(p)
  BY <1>6 DEF CancelCall, Consume, Clear, Return
<1>7. CASE Lose(p)
  BY <1>7 DEF Lose, fields, call
<1> QED
  BY <1>1, <1>2, <1>3, <1>4, <1>5, <1>6, <1>7 DEF ProducerStep

LEMMA AloneServed == ASSUME Typed, NEW p \in Producers, NEW a, Responds(p, a) PROVE Elsewhere(p)
BY DEF Typed, ProducerInv, FieldTypes, LeaseTypes, Elsewhere, Responds, fields, call

LEMMA AloneDelegated == ASSUME Typed, NEW p \in Producers, Delegates(p) PROVE Elsewhere(p)
<1> USE DEF Typed, ProducerInv, FieldTypes, LeaseTypes, Elsewhere
<1>1. CASE UNCHANGED producerVars
  BY <1>1 DEF producerVars, fields, call
<1>2. CASE TurnOver(p)
  <2>1. \A q \in Producers : q # p => local'[q] = local[q] /\ batch'[q] = batch[q] /\ after'[q] = after[q] /\ result'[q] = result[q]
    BY <1>2 DEF TurnOver
  <2> QED
    BY <1>2, <2>1 DEF TurnOver, fields
<1>3. CASE Start(p)
  BY <1>3 DEF Start, BeginStart, Enter
<1>4. CASE BeginSubmit(p, Front(queue[p]))
  BY <1>4 DEF BeginSubmit, Return, fields
<1>5. CASE BeginStop(p)
  BY <1>5 DEF BeginStop, Enter
<1> QED
  BY <1>1, <1>2, <1>3, <1>4, <1>5 DEF Delegates

LEMMA AliveElsewhere ==
  ASSUME Typed, NEW p \in Producers, Elsewhere(p), bTokens' \in Nat, bTokens <= bTokens',
         \A q \in Producers : Alive(q), Alive(p)'
  PROVE  \A q \in Producers : Alive(q)'
<1>1. TAKE q \in Producers
<1>2. CASE q = p
  BY <1>2
<1>3. CASE q # p
  <2>1. token[q] \in Nat /\ reply[q].token \in Nat /\ bTokens \in Nat
    BY DEF Typed, LeaseTypes, Replies
  <2>2. token'[q] = token[q] /\ reply'[q] = reply[q] /\ pstate'[q] = pstate[q] /\ gen'[q] = gen[q]
        /\ expected'[q] = expected[q] /\ phase'[q] = phase[q] /\ local'[q] = local[q]
    BY <1>3 DEF Elsewhere
  <2>3. Alive(q)
    OBVIOUS
  <2>4. token[q] <= bTokens' /\ reply[q].token <= bTokens'
    BY <2>1, <2>3 DEF Alive
  <2> QED
    BY <2>2, <2>3, <2>4 DEF Alive
<1> QED
  BY <1>2, <1>3

LEMMA AliveReplies ==
  ASSUME Typed, NEW p \in Producers, ProducerStep(p) \/ CancelCall(p) \/ Lose(p), Alive(p)
  PROVE  Alive(p)' /\ bTokens' = bTokens
<1>0. /\ reply[p] \in Replies /\ token[p] \in Nat /\ bTokens \in Nat /\ Course(p) /\ Agrees(p) /\ reply[p].token \in Nat
      /\ NoReply.token = 0 /\ Failed.token = 0 /\ Failed.kind = "error" /\ NoReply.kind = "none"
  BY DEF Typed, LeaseTypes, ProducerInv, Replies, NoReply, Failed
<1>1. bTokens' = bTokens
  BY DEF ProducerStep, StatusReply, OpenReply, SubmitReply, RecheckReply, EndReply, CancelCall, Lose, bridge, lease
<1>2. ASSUME Clear(p), phase'[p] = "none", reply'[p] = NoReply PROVE Alive(p)'
  BY <1>0, <1>1, <1>2 DEF Clear, Alive, Typed, ProducerInv, FieldTypes, LeaseTypes
<1>3. ASSUME Consume(p) PROVE reply'[p] = NoReply
  BY <1>3 DEF Consume, Typed, LeaseTypes
<1>4. ASSUME Return(p, result'[p]) PROVE phase'[p] = "none"
  BY <1>4 DEF Return, Typed, ProducerInv, FieldTypes
<1>5. ASSUME Raise(p), Consume(p) PROVE Alive(p)'
  <2>1. phase'[p] = "none"
    BY <1>5 DEF Raise, Return, Typed, ProducerInv, FieldTypes
  <2> QED
    BY <1>2, <1>3, <1>5, <2>1 DEF Raise
<1>6. CASE StatusReply(p) /\ ~Raise(p)
  <2>1. Ready(p) /\ local'[p] = reply[p].gen /\ phase'[p] = "open" /\ reply'[p] = NoReply /\ phase[p] = "status"
        /\ UNCHANGED <<pstate, gen, token, expected>>
    BY <1>3, <1>6 DEF StatusReply, Await, Answered, Typed, ProducerInv, FieldTypes
  <2>2. local'[p] # 0 /\ expected[p] \in {0, local'[p]}
    BY <2>1 DEF Ready
  <2> QED
    BY <1>0, <1>1, <2>1, <2>2 DEF Alive
<1>7. CASE OpenReply(p) /\ ~Raise(p)
  <2>1. /\ reply[p].kind = "ok" /\ phase[p] \in {"open", "reopen"} /\ gen'[p] = local[p] /\ token'[p] = reply[p].token
        /\ pstate'[p] = "active" /\ phase'[p] = "none" /\ reply'[p] = NoReply /\ expected' = expected
    BY <1>3, <1>7 DEF OpenReply, Opened, Enter, Return, Answered, Typed, ProducerInv, FieldTypes, LeaseTypes
  <2>2. local[p] # 0 /\ expected[p] \in {0, local[p]}
    BY <1>0, <2>1 DEF Alive, Course, Agrees
  <2> QED
    BY <1>0, <1>1, <2>1, <2>2 DEF Alive
<1>8. CASE SubmitReply(p) /\ ~Raise(p)
  <2>1. /\ phase[p] = "submit" /\ phase'[p] \in {"none", "recheck"} /\ reply'[p] = NoReply
        /\ pstate'[p] \in {pstate[p], "recovering"} /\ UNCHANGED <<gen, token, expected, local>>
    BY <1>3, <1>8 DEF SubmitReply, Recheck, Enter, Await, Return, Answered, Typed, ProducerInv, FieldTypes
  <2>2. pstate[p] \in {"active", "recovering"}
    BY <1>0, <2>1 DEF Course
  <2> QED
    BY <1>0, <1>1, <2>1, <2>2 DEF Alive
<1>9. CASE RecheckReply(p) /\ ~Raise(p)
  <2>1. /\ phase[p] = "recheck" /\ phase'[p] \in {"none", "reopen"} /\ reply'[p] = NoReply
        /\ pstate'[p] \in {pstate[p], "active"} /\ UNCHANGED <<gen, token, expected, local>>
    BY <1>3, <1>9 DEF RecheckReply, Enter, Await, Return, Answered, Typed, ProducerInv, FieldTypes
  <2>2. pstate[p] \in {"active", "recovering"}
    BY <1>0, <2>1 DEF Course
  <2> QED
    BY <1>0, <1>1, <2>1, <2>2 DEF Alive
<1>10. CASE EndReply(p)
  <2>1. Clear(p) /\ phase'[p] = "none" /\ Consume(p)
    BY <1>10 DEF EndReply, Typed, ProducerInv, FieldTypes
  <2>2. reply'[p] = NoReply
    BY <1>3, <2>1
  <2> QED
    BY <1>1, <1>2, <2>1, <2>2
<1>11. CASE CancelCall(p)
  <2>1. Clear(p) /\ phase'[p] = "none" /\ Consume(p)
    BY <1>11 DEF CancelCall, Return, Typed, ProducerInv, FieldTypes
  <2>2. reply'[p] = NoReply
    BY <1>3, <2>1
  <2> QED
    BY <1>1, <1>2, <2>1, <2>2
<1>12. CASE Lose(p)
  <2>1. reply'[p] = Failed /\ phase[p] # "none" /\ UNCHANGED <<fields, expected, call>>
    BY <1>12 DEF Lose, Typed, LeaseTypes
  <2> QED
    BY <1>0, <1>1, <2>1 DEF Alive, fields, call
<1>13. Consume(p) \/ EndReply(p) \/ CancelCall(p) \/ Lose(p)
  BY DEF ProducerStep, StatusReply, OpenReply, SubmitReply, RecheckReply
<1> QED
  BY <1>1, <1>5, <1>6, <1>7, <1>8, <1>9, <1>10, <1>11, <1>12, <1>13 DEF ProducerStep

LEMMA AliveServed ==
  ASSUME Typed, NEW p \in Producers, NEW a, Responds(p, a), Alive(p)
  PROVE  Alive(p)' /\ bTokens <= bTokens' /\ bTokens' \in Nat
<1>1. /\ reply'[p] = a /\ a \in Replies /\ phase[p] # "none" /\ UNCHANGED <<fields, expected, call>>
      /\ token[p] \in Nat /\ bTokens \in Nat /\ a.token \in Nat
  BY DEF Responds, Typed, LeaseTypes, Replies
<1>2. /\ bTokens' \in {bTokens, bTokens + 1} /\ a.token \in {0, bTokens + 1} /\ (a.token # 0 => bTokens' = bTokens + 1)
      /\ a.token # 0 => phase[p] \in {"open", "reopen"} /\ a.kind = "ok"
      /\ phase[p] \in {"open", "reopen"} /\ a.kind = "ok" => a.token # 0
  <2>1. CASE phase[p] = "submit" /\ \E u : Hears(p, u, a)
    BY <1>1, <2>1 DEF Hears
  <2>2. CASE Grants(p, a)
    BY <1>1, <2>2 DEF Grants
  <2>3. CASE Tells(p, a)
    BY <1>1, <2>3 DEF Tells, lease
  <2>4. CASE Ends(p, a)
    BY <1>1, <2>4 DEF Ends
  <2> QED
    BY <2>1, <2>2, <2>3, <2>4 DEF Responds
<1>3. bTokens <= bTokens' /\ bTokens' \in Nat /\ a.token <= bTokens'
  BY <1>1, <1>2
<1>4. token[p] <= bTokens'
  BY <1>1, <1>3 DEF Alive
<1> QED
  BY <1>1, <1>2, <1>3, <1>4 DEF Alive, fields, call

LEMMA AliveDelegated ==
  ASSUME Typed, NEW p \in Producers, Delegates(p), Alive(p)
  PROVE  Alive(p)' /\ bTokens' = bTokens
<1>1. CASE UNCHANGED producerVars
  BY <1>1 DEF Alive, producerVars, fields, call, bridge, lease
<1>2. CASE TurnOver(p)
  BY <1>2 DEF Alive, TurnOver, fields, bridge, lease
<1>3. CASE Start(p)
  <2>1. pstate'[p] = "opening" /\ phase'[p] = "status" /\ pstate[p] = "idle" /\ phase[p] = "none"
        /\ UNCHANGED <<gen, token, local, reply, bridge>>
    BY <1>3 DEF Start, BeginStart, Enter, Typed, ProducerInv, FieldTypes, Course
  <2>2. NoReply.token = 0
    BY DEF NoReply
  <2> QED
    BY <2>1, <2>2 DEF Alive, bridge, lease
<1>4. CASE BeginSubmit(p, Front(queue[p]))
  <2>1. UNCHANGED <<fields, expected, reply, bridge>> /\ phase[p] = "none" /\ phase'[p] \in {"none", "submit"}
    BY <1>4 DEF BeginSubmit, Return, Typed, ProducerInv, FieldTypes, Course
  <2>2. NoReply.token = 0
    BY DEF NoReply
  <2> QED
    BY <2>1, <2>2 DEF Alive, fields, bridge, lease
<1>5. CASE BeginStop(p)
  <2>1. UNCHANGED <<gen, token, expected, local, reply, bridge>> /\ phase[p] = "none" /\ phase'[p] = "end" /\ pstate'[p] = "stopping"
    BY <1>5 DEF BeginStop, Enter, Typed, ProducerInv, FieldTypes, Course
  <2>2. NoReply.token = 0
    BY DEF NoReply
  <2> QED
    BY <2>1, <2>2 DEF Alive, bridge, lease
<1> QED
  BY <1>1, <1>2, <1>3, <1>4, <1>5 DEF Delegates

LEMMA AliveStep ==
  ASSUME PcmInv, MicTypes, \A p \in Producers : Alive(p), [Next]_vars
  PROVE  \A p \in Producers : Alive(p)'
<1>0. Typed /\ bTokens \in Nat /\ bTokens <= bTokens
  BY DEF PcmInv, MicTypes, Typed, LeaseTypes
<1>1. ASSUME UNCHANGED <<fields, expected, phase, local, reply, bTokens>> PROVE \A p \in Producers : Alive(p)'
  BY <1>1 DEF Alive, fields
<1>2. CASE UNCHANGED producerVars \/ Arrive \/ Expire \/ CallBegins \/ CallEnds
  BY <1>1, <1>2 DEF Arrive, Expire, CallBegins, CallEnds, producerVars, call, bridge, lease
<1>3. ASSUME NEW p \in Producers, CommandStep(p) \/ CardStep(p) PROVE \A q \in Producers : Alive(q)'
  <2>1. Delegates(p)
    BY <1>3, Delegated
  <2> QED
    BY <1>0, <2>1, AloneDelegated, AliveDelegated, AliveElsewhere
<1>4. ASSUME NEW p \in Producers, ProducerStep(p) \/ CancelCall(p) \/ Lose(p) PROVE \A q \in Producers : Alive(q)'
  BY <1>0, <1>4, Alone, AliveReplies, AliveElsewhere
<1>5. ASSUME NEW p \in Producers, Serve(p) PROVE \A q \in Producers : Alive(q)'
  <2>1. PICK a : Responds(p, a)
    BY <1>0, <1>5, Serves DEF Typed
  <2> QED
    BY <1>0, <2>1, AloneServed, AliveServed, AliveElsewhere
<1>6. UNCHANGED vars \/ Manages => UNCHANGED producerVars
  BY Managed DEF vars
<1> QED
  BY <1>2, <1>3, <1>4, <1>5, <1>6 DEF Next, Served, BridgeStep, Manages

-----------------------------------------------------------------------------
(* Somebody owns the lease of the bridge.                                  *)

\* A producer that is not idle belongs to somebody who will stop it.
Kept(p) == pstate[p] # "idle" => p \in captures \cup closing \cup launching \/ op[p] = "stop"

LEMMA KeptStep ==
  ASSUME PcmInv, MicTypes, \A p \in Producers : Kept(p), [Next]_vars
  PROVE  \A p \in Producers : Kept(p)'
<1>0. Typed /\ OwnerInv /\ QueueTypes
  BY DEF PcmInv, MicTypes, Typed
<1>1. ASSUME NEW p \in Producers, NEW q \in Producers, ProducerStep(p) \/ CancelCall(p) \/ Lose(p),
             UNCHANGED captureVars
      PROVE  Kept(q)'
  <2>1. CASE q # p
    <3>1. pstate'[q] = pstate[q] /\ op'[q] = op[q]
      BY <1>0, <1>1, <2>1, Alone DEF Elsewhere
    <3> QED
      BY <1>1, <3>1 DEF Kept, captureVars, manager
  <2>2. CASE q = p
    <3>1. ASSUME Raise(p) PROVE pstate'[p] = "idle"
      BY <1>0, <3>1 DEF Raise, Clear, Typed, ProducerInv, FieldTypes
    <3>2. \/ pstate'[p] = "idle"
          \/ pstate[p] # "idle" /\ op[p] # "stop"
          \/ UNCHANGED <<pstate, op>>
      <4>1. Course(p)
        BY <1>0 DEF Typed, ProducerInv
      <4>2. CASE StatusReply(p) \/ OpenReply(p) \/ SubmitReply(p) \/ RecheckReply(p)
        <5>1. phase[p] \in {"status", "open", "reopen", "submit", "recheck"}
          BY <4>2 DEF StatusReply, OpenReply, SubmitReply, RecheckReply, Answered
        <5> QED
          BY <4>1, <5>1 DEF Course
      <4>3. CASE EndReply(p) \/ CancelCall(p)
        BY <1>0, <4>3 DEF EndReply, CancelCall, Clear, Typed, ProducerInv, FieldTypes
      <4>4. CASE Lose(p)
        BY <4>4 DEF Lose, fields, call
      <4> QED
        BY <1>1, <4>2, <4>3, <4>4 DEF ProducerStep
    <3>3. Kept(p)
      OBVIOUS
    <3> QED
      BY <1>1, <2>2, <3>2, <3>3 DEF Kept, captureVars, manager
  <2> QED
    BY <2>1, <2>2
<1>2. ASSUME UNCHANGED <<pstate, op>>, captures \cup closing \cup launching \subseteq captures' \cup closing' \cup launching'
      PROVE  \A q \in Producers : Kept(q)'
  BY <1>2 DEF Kept
<1>3. CASE UNCHANGED captureVars /\ (UNCHANGED producerVars \/ Arrive \/ Expire \/ CallBegins \/ CallEnds \/ \E p \in Producers : Serve(p))
  <2>1. UNCHANGED <<pstate, op>>
    BY <1>3 DEF Arrive, Expire, CallBegins, CallEnds, Serve, producerVars, fields, call
  <2> QED
    BY <1>2, <1>3, <2>1 DEF captureVars, manager
<1>4. ASSUME NEW S, NEW C, Revoke(S, C), UNCHANGED <<pstate, op, launching>>
      PROVE  \A q \in Producers : Kept(q)'
  BY <1>2, <1>4 DEF Revoke
<1>5. CASE Manages
  <2>1. UNCHANGED <<pstate, op, launching>>
    BY <1>5 DEF Manages, Poll, Reconcile, Hangup, ReleaseCall, ReleaseEntry, Admit, producerVars, fields, call, manager
  <2>2. CASE Poll \/ Hangup \/ Admit
    <3>1. UNCHANGED <<captures, closing>>
      BY <2>2 DEF Poll, Hangup, Admit, manager
    <3> QED
      BY <1>2, <2>1, <3>1
  <2>3. CASE Reconcile \/ ReleaseCall \/ ReleaseEntry
    <3>1. \E S, C : Revoke(S, C)
      BY <2>3 DEF Reconcile, ReleaseCall, ReleaseEntry
    <3> QED
      BY <1>4, <2>1, <3>1
  <2> QED
    BY <1>5, <2>2, <2>3 DEF Manages
<1>6. ASSUME NEW p \in Producers, CommandStep(p) \/ CardStep(p) PROVE \A q \in Producers : Kept(q)'
  <2>1. CASE StartReturns(p)
    BY <1>2, <2>1 DEF StartReturns, StopUnpublished, fields
  <2>2. CASE SubmitReturns(p)
    BY <1>2, <2>2 DEF SubmitReturns, fields
  <2>3. CASE StopCancelled(p)
    BY <1>2, <2>3 DEF StopCancelled, fields, captureVars, manager
  <2>4. CASE Close(p)
    <3>1. captures' = captures /\ launching' = launching /\ closing' = closing \ {p}
      BY <2>4 DEF Close
    <3>2. CASE pstate[p] = "idle" /\ UNCHANGED producerVars
      BY <3>1, <3>2 DEF Kept, producerVars, fields, call
    <3>3. CASE BeginStop(p)
      BY <1>0, <3>1, <3>3 DEF Kept, BeginStop, Enter, Typed, ProducerInv, FieldTypes
    <3> QED
      BY <2>4, <3>2, <3>3 DEF Close
  <2>5. CASE Start(p)
    BY <1>0, <2>5 DEF Kept, Start, BeginStart, Enter, Typed, ProducerInv, FieldTypes
  <2>6. CASE Record(p) \/ LetGo(p)
    BY <1>2, <2>6 DEF Record, LetGo, producerVars, fields, call, manager
  <2>7. CASE Stop(p) \/ Disconnect(p)
    <3>1. \E S, C : Revoke(S, C)
      BY <2>7 DEF Stop, Disconnect
    <3>2. UNCHANGED <<pstate, op, launching>>
      BY <2>7 DEF Stop, Disconnect, producerVars, fields, call
    <3> QED
      BY <1>4, <3>1, <3>2
  <2>8. CASE Submit(p)
    <3>1. captures \cup closing \cup launching \subseteq captures' \cup closing' \cup launching'
      BY <2>8 DEF Submit
    <3>2. CASE UNCHANGED producerVars
      BY <1>2, <3>1, <3>2 DEF producerVars, fields, call
    <3>3. CASE BeginSubmit(p, Front(queue[p])) /\ UNCHANGED <<captures, closing>>
      <4>1. UNCHANGED <<pstate, captures, closing, launching>> /\ op[p] = "none"
            /\ \A q \in Producers : q # p => op'[q] = op[q]
        BY <1>0, <2>8, <3>3 DEF Submit, BeginSubmit, Return, fields, Typed, ProducerInv, FieldTypes
      <4> QED
        BY <4>1 DEF Kept
    <3> QED
      BY <2>8, <3>2, <3>3 DEF Submit
  <2> QED
    BY <1>6, <2>1, <2>2, <2>3, <2>4, <2>5, <2>6, <2>7, <2>8 DEF CommandStep, CardStep
<1>7. CASE UNCHANGED vars
  BY <1>3, <1>7 DEF vars
<1> QED
  BY <1>1, <1>3, <1>5, <1>6, <1>7 DEF Next, Served, BridgeStep, Manages

Certain == bToken \notin doubt \cup {0}

\* Who has the lease of the bridge has it for its call, and is not about to lose it to an
\* answer, unless a request is in doubt.
Holds(p) ==
  /\ bToken # 0 /\ token[p] = bToken => gen[p] = bCall
  /\ bToken # 0 /\ reply[p].token = bToken => local[p] = bCall
  /\ Certain /\ token[p] = bToken =>
       /\ phase[p] # "reopen"
       /\ phase[p] = "submit" => reply[p].kind \notin {"refused", "expired", "error"}
       /\ phase[p] = "recheck" => after[p] # "reopen" /\ (reply[p] = NoReply \/ SameCall(p))
       /\ phase[p] = "end" => reply[p] = NoReply
Has(p) == token[p] = bToken \/ reply[p].token = bToken
LeaseInv ==
  /\ bToken # 0 => bCall # 0
  /\ \A p \in Producers : Holds(p)
  /\ Certain => \E p \in Producers : Has(p)

LEMMA LeaseEnds == ASSUME bToken' = 0 PROVE LeaseInv'
BY DEF LeaseInv, Holds, Certain

LEMMA LeaseElsewhere ==
  ASSUME LeaseInv, NEW p \in Producers, Elsewhere(p), bToken' = bToken, bCall' = bCall, doubt \subseteq doubt',
         bToken # 0 => Holds(p)', Certain' /\ Has(p) => Has(p)'
  PROVE  LeaseInv'
<1>1. CASE bToken = 0
  BY <1>1, LeaseEnds
<1>2. CASE bToken # 0
  <2>1. Certain' => Certain
    BY DEF Certain
  <2>2. ASSUME NEW q \in Producers, q # p PROVE Holds(q)' /\ (Has(q) => Has(q)')
    <3>1. /\ token'[q] = token[q] /\ gen'[q] = gen[q] /\ reply'[q] = reply[q] /\ local'[q] = local[q]
          /\ phase'[q] = phase[q] /\ after'[q] = after[q] /\ expected'[q] = expected[q]
      BY <2>2 DEF Elsewhere
    <3>2. Holds(q)
      BY DEF LeaseInv
    <3>3. SameCall(q)' <=> SameCall(q)
      BY <3>1 DEF SameCall, Ready
    <3> QED
      BY <2>1, <3>1, <3>2, <3>3 DEF Holds, Has
  <2>3. \A q \in Producers : Holds(q)'
    BY <1>2, <2>2
  <2>4. ASSUME Certain' PROVE \E q \in Producers : Has(q)'
    <3>1. PICK q \in Producers : Has(q)
      BY <2>1, <2>4 DEF LeaseInv
    <3>2. Has(q)'
      BY <2>2, <2>4, <3>1
    <3> QED
      BY <3>2
  <2>5. bToken' # 0 => bCall' # 0
    BY DEF LeaseInv
  <2> QED
    BY <2>3, <2>4, <2>5 DEF LeaseInv
<1> QED
  BY <1>1, <1>2

LEMMA NoTokens == NoReply.token = 0 /\ Failed.token = 0 /\ NoReply.kind = "none" /\ Failed.kind = "error" /\ NoReply # Failed
BY DEF NoReply, Failed

LEMMA LeaseDelegated ==
  ASSUME Typed, NEW p \in Producers, Delegates(p), Alive(p), LeaseInv
  PROVE  LeaseInv'
<1>0. Holds(p) /\ Course(p) /\ Agrees(p)
  BY DEF LeaseInv, Typed, ProducerInv
<1>1. UNCHANGED <<token, gen, reply, expected, bToken, bCall, doubt>> \/ Start(p)
  BY DEF Delegates, TurnOver, Submit, Close, BeginSubmit, BeginStop, producerVars, fields, bridge, lease
<1>2. Elsewhere(p)
  BY AloneDelegated
<1>3. UNCHANGED <<token, gen, reply, bToken, bCall, doubt>>
  BY <1>1 DEF Start, BeginStart, bridge, lease
<1>4. CASE UNCHANGED producerVars
  <2>1. UNCHANGED <<after, phase, local, expected>>
    BY <1>4 DEF producerVars, call
  <2>2. Holds(p)'
    BY <1>0, <1>3, <2>1 DEF Holds, SameCall, Ready, Certain
  <2> QED
    BY <1>2, <1>3, <2>2, LeaseElsewhere DEF Has
<1>5. CASE ~UNCHANGED producerVars
  <2>1. phase[p] = "none" /\ phase'[p] \in {"none", "status", "submit", "end"}
    BY <1>0, <1>5 DEF Delegates, TurnOver, Start, BeginStart, BeginSubmit, BeginStop, Return, Course, Typed, ProducerInv, FieldTypes
  <2>2. reply[p] = NoReply
    BY <2>1 DEF Alive
  <2>3. bToken # 0 => Holds(p)'
    BY <1>0, <1>3, <2>1, <2>2, NoTokens DEF Holds
  <2> QED
    BY <1>2, <1>3, <2>3, LeaseElsewhere DEF Has
<1> QED
  BY <1>4, <1>5

LEMMA LeaseServed ==
  ASSUME Typed, NEW p \in Producers, NEW a, Responds(p, a), \A q \in Producers : Alive(q), LeaseInv
  PROVE  LeaseInv'
<1>0. /\ Holds(p) /\ Course(p) /\ Agrees(p) /\ Alive(p) /\ Elsewhere(p)
      /\ UNCHANGED <<token, gen, local, expected, phase, after, bCall, doubt>>
      /\ reply'[p] = a /\ reply[p] = NoReply
      /\ NoReply.token = 0
  BY AloneServed, NoTokens DEF LeaseInv, Typed, ProducerInv, Responds, fields, call, LeaseTypes
<1>1. ASSUME a.token = 0, bToken' = bToken, bToken # 0 => Holds(p)' PROVE LeaseInv'
  BY <1>0, <1>1, LeaseElsewhere DEF Has
<1>2. phase[p] \in {"submit", "recheck", "reopen"} => local[p] = gen[p] /\ gen[p] # 0 /\ expected[p] \in {0, gen[p]}
  BY <1>0 DEF Course, Agrees, Alive
<1>3. ASSUME NEW u, phase[p] = "submit", Hears(p, u, a) PROVE LeaseInv'
  <2>1. a.token = 0 /\ bToken' = bToken
    BY <1>3 DEF Hears
  <2>2. ASSUME bToken # 0, token[p] = bToken PROVE a.kind \notin {"refused", "expired", "error"}
    <3>1. local[p] = bCall
      BY <1>0, <1>2, <1>3, <2>2 DEF Holds
    <3> QED
      BY <1>3, <2>2, <3>1 DEF Hears
  <2>3. bToken # 0 => Holds(p)'
    BY <1>0, <1>3, <2>1, <2>2 DEF Holds
  <2> QED
    BY <1>1, <2>1, <2>3
<1>4. CASE Grants(p, a)
  <2>1. /\ bToken' = bTokens + 1 /\ a.token = bTokens + 1 /\ local[p] = bCall /\ phase[p] \in {"open", "reopen"}
        /\ bTokens \in Nat
    BY <1>4 DEF Grants, Typed, LeaseTypes
  <2>2. bCall # 0
    BY <1>0, <1>2, <2>1 DEF Alive
  <2>3. ASSUME NEW q \in Producers PROVE token'[q] # bToken'
    BY <1>0, <2>1 DEF Alive, Typed, LeaseTypes
  <2>4. ASSUME NEW q \in Producers, q # p PROVE reply'[q].token # bToken'
    <3>1. reply'[q] = reply[q] /\ reply[q].token <= bTokens /\ reply[q].token \in Nat
      BY <1>0, <2>4 DEF Alive, Elsewhere, Typed, LeaseTypes, Replies
    <3> QED
      BY <2>1, <3>1
  <2>5. \A q \in Producers : Holds(q)'
    BY <1>0, <2>1, <2>3, <2>4 DEF Holds
  <2>6. Has(p)'
    BY <1>0, <2>1 DEF Has
  <2> QED
    BY <1>0, <2>2, <2>5, <2>6 DEF LeaseInv
<1>5. CASE Tells(p, a)
  <2>1. a.token = 0 /\ bToken' = bToken
    BY <1>5 DEF Tells, lease
  <2>2. ASSUME bToken # 0, token[p] = bToken, phase[p] = "recheck" PROVE SameCall(p)'
    <3>1. a.kind = "ok" /\ a.gen = bCall /\ gen[p] = bCall
      BY <1>0, <1>5, <2>2 DEF Tells, Holds
    <3> QED
      BY <1>0, <1>2, <2>2, <3>1 DEF SameCall, Ready
  <2>3. ASSUME bToken # 0, token[p] = bToken PROVE phase[p] # "end" /\ phase[p] # "submit"
    BY <1>0, <1>5, <2>3 DEF Tells, Holds
  <2>4. bToken # 0 => Holds(p)'
    <3>1. Certain' <=> Certain
      BY <1>0, <2>1 DEF Certain
    <3> QED
      BY <1>0, <2>1, <2>2, <2>3, <3>1 DEF Holds
  <2> QED
    BY <1>1, <2>1, <2>4
<1>6. CASE Ends(p, a)
  BY <1>6, LeaseEnds DEF Ends
<1> QED
  BY <1>3, <1>4, <1>5, <1>6 DEF Responds

LEMMA LeaseReplies ==
  ASSUME Typed, NEW p \in Producers, ProducerStep(p), Alive(p), LeaseInv
  PROVE  LeaseInv'
<1>0. /\ Holds(p) /\ Course(p) /\ Agrees(p) /\ Elsewhere(p) /\ NoReply.token = 0
      /\ UNCHANGED <<bToken, bCall, doubt>>
  BY Alone, NoTokens DEF LeaseInv, Typed, ProducerInv, ProducerStep, StatusReply, OpenReply, SubmitReply, RecheckReply,
     EndReply, bridge, lease
<1>1. reply'[p] = NoReply /\ reply[p] # NoReply
  BY DEF ProducerStep, StatusReply, OpenReply, SubmitReply, RecheckReply, EndReply, Consume, Answered, Typed, LeaseTypes
<1>2. Certain' <=> Certain
  BY <1>0 DEF Certain
<1>3. ASSUME token'[p] = 0, bToken # 0 => ~(Certain /\ token[p] = bToken) /\ reply[p].token # bToken PROVE LeaseInv'
  <2>1. bToken # 0 => Holds(p)'
    BY <1>0, <1>1, <1>3 DEF Holds
  <2>2. Certain' /\ Has(p) => Has(p)'
    BY <1>2, <1>3 DEF Has, Certain
  <2> QED
    BY <1>0, <2>1, <2>2, LeaseElsewhere
<1>4. ASSUME Clear(p) PROVE token'[p] = 0
  BY <1>4 DEF Clear, Typed, LeaseTypes
<1>5. CASE StatusReply(p)
  <2>1. phase[p] = "status" /\ token'[p] \in {token[p], 0}
    BY <1>4, <1>5 DEF StatusReply, Answered, Raise
  <2>2. token[p] = 0 /\ reply[p].token = 0
    BY <1>0, <2>1 DEF Course, Alive
  <2> QED
    BY <1>3, <2>1, <2>2
<1>6. CASE OpenReply(p)
  <2>1. phase[p] \in {"open", "reopen"}
    BY <1>6 DEF OpenReply, Answered
  <2>2. bToken # 0 => ~(Certain /\ token[p] = bToken)
    BY <1>0, <2>1 DEF Holds, Course, Alive
  <2>3. CASE Raise(p) /\ reply[p].kind # "ok"
    <3>1. reply[p].token = 0
      BY <2>3 DEF Alive
    <3> QED
      BY <1>3, <1>4, <2>2, <2>3, <3>1 DEF Raise
  <2>4. CASE Opened(p) /\ Return(p, IF op[p] = "start" THEN "ok" ELSE "outcome")
    <3>1. token'[p] = reply[p].token /\ gen'[p] = local[p] /\ phase'[p] = "none" /\ bToken' = bToken /\ bCall' = bCall
      BY <1>0, <2>4 DEF Opened, Return, Typed, LeaseTypes, ProducerInv, FieldTypes
    <3>2. bToken # 0 => Holds(p)'
      BY <1>0, <1>1, <3>1 DEF Holds
    <3>3. Certain' /\ Has(p) => Has(p)'
      BY <1>2, <2>2, <3>1 DEF Has, Certain
    <3> QED
      BY <1>0, <3>2, <3>3, LeaseElsewhere
  <2> QED
    BY <1>6, <2>3, <2>4 DEF OpenReply
<1>7. ASSUME token'[p] = token[p], gen'[p] = gen[p], phase'[p] \in {"none", "recheck"} \/ ~(Certain /\ token[p] = bToken),
             Certain /\ token[p] = bToken /\ phase'[p] = "recheck" => after'[p] # "reopen", phase[p] \notin {"open", "reopen"}
      PROVE  LeaseInv'
  <2>1. reply[p].token = 0
    BY <1>7 DEF Alive
  <2>2. bToken # 0 => Holds(p)'
    BY <1>0, <1>1, <1>2, <1>7 DEF Holds
  <2>3. Certain' /\ Has(p) => Has(p)'
    BY <1>0, <1>7, <2>1 DEF Has, Certain
  <2> QED
    BY <1>0, <2>2, <2>3, LeaseElsewhere
<1>8. CASE SubmitReply(p)
  <2>1. phase[p] = "submit"
    BY <1>8 DEF SubmitReply, Answered
  <2>2. CASE Raise(p) /\ reply[p].kind = "refused"
    <3>1. reply[p].token = 0
      BY <2>1 DEF Alive
    <3> QED
      BY <1>0, <1>3, <1>4, <2>1, <2>2, <3>1 DEF Raise, Holds
  <2>3. CASE Return(p, "outcome") /\ UNCHANGED <<pstate, gen, token, identity, after>>
    <3>1. phase'[p] = "none"
      BY <2>3 DEF Return, Typed, ProducerInv, FieldTypes
    <3> QED
      BY <1>7, <2>1, <2>3, <3>1
  <2>4. ASSUME NEW n, NEW t, Recheck(p, n, t), t = "reopen" => reply[p].kind = "expired" PROVE LeaseInv'
    <3>1. phase'[p] = "recheck" /\ after'[p] = t /\ token' = token /\ gen' = gen
      BY <2>4 DEF Recheck, Await, Typed, ProducerInv, FieldTypes, LeaseTypes
    <3>2. Certain /\ token[p] = bToken => t # "reopen"
      BY <1>0, <2>1, <2>4 DEF Holds
    <3> QED
      BY <1>7, <2>1, <3>1, <3>2
  <2> QED
    BY <1>8, <2>2, <2>3, <2>4 DEF SubmitReply
<1>9. CASE RecheckReply(p)
  <2>1. phase[p] = "recheck"
    BY <1>9 DEF RecheckReply, Answered
  <2>2. reply[p].token = 0
    BY <2>1 DEF Alive
  <2>3. CASE ~SameCall(p) /\ Raise(p)
    BY <1>0, <1>1, <1>3, <1>4, <2>1, <2>2, <2>3 DEF Raise, Holds
  <2>4. CASE after[p] = "reopen" /\ UNCHANGED <<pstate, gen, token, sequence>>
    <3>1. ~(Certain /\ token[p] = bToken)
      BY <1>0, <2>1, <2>4 DEF Holds
    <3> QED
      BY <1>7, <2>1, <2>4, <3>1
  <2>5. CASE Return(p, IF after[p] = "lost" THEN "raised" ELSE "outcome") /\ UNCHANGED <<gen, token, sequence>>
    <3>1. phase'[p] = "none"
      BY <2>5 DEF Return, Typed, ProducerInv, FieldTypes
    <3> QED
      BY <1>7, <2>1, <2>5, <3>1
  <2> QED
    BY <1>9, <2>3, <2>4, <2>5 DEF RecheckReply
<1>10. CASE EndReply(p)
  <2>1. phase[p] = "end" /\ Clear(p)
    BY <1>10 DEF EndReply, Answered
  <2>2. reply[p].token = 0
    BY <2>1 DEF Alive
  <2> QED
    BY <1>0, <1>1, <1>3, <1>4, <2>1, <2>2 DEF Holds
<1> QED
  BY <1>5, <1>6, <1>8, <1>9, <1>10 DEF ProducerStep

LEMMA LeaseInDoubt ==
  ASSUME Typed, NEW p \in Producers, CancelCall(p) \/ Lose(p), LeaseInv
  PROVE  LeaseInv'
<1>0. Holds(p) /\ Elsewhere(p)
  BY Alone DEF LeaseInv
<1>1. bToken' = bToken /\ bCall' = bCall /\ doubt' = doubt \cup {bToken}
  BY DEF CancelCall, Lose, lease
<1>2. ~Certain'
  BY <1>1 DEF Certain
<1>3. reply'[p].token = 0
  BY NoTokens DEF CancelCall, Lose, Consume, Typed, LeaseTypes
<1>5. token'[p] = 0 \/ (token' = token /\ gen' = gen)
  BY DEF CancelCall, Lose, Clear, Typed, LeaseTypes, fields
<1>4. bToken # 0 => Holds(p)'
  BY <1>0, <1>1, <1>2, <1>3, <1>5 DEF Holds
<1> QED
  BY <1>0, <1>1, <1>2, <1>4, LeaseElsewhere

LEMMA LeaseStep ==
  ASSUME PcmInv, MicTypes, \A p \in Producers : Alive(p), LeaseInv, [Next]_vars
  PROVE  LeaseInv'
<1>0. Typed
  BY DEF PcmInv, MicTypes, Typed
<1>1. CASE UNCHANGED <<token, gen, reply, local, phase, after, expected, bToken, bCall, doubt>>
  BY <1>1 DEF LeaseInv, Holds, Has, Certain, SameCall, Ready
<1>2. CASE Expire \/ CallEnds
  BY <1>2, LeaseEnds DEF Expire, CallEnds
<1>3. CASE CallBegins
  <2>1. bToken' = 0
    BY <1>3 DEF CallBegins, LeaseInv, lease
  <2> QED
    BY <2>1, LeaseEnds
<1>4. CASE UNCHANGED vars \/ Manages \/ Arrive
  <2>1. UNCHANGED producerVars \/ Arrive
    BY <1>4, Managed DEF vars
  <2>2. UNCHANGED <<token, gen, reply, local, phase, after, expected, bToken, bCall, doubt>>
    BY <2>1 DEF Arrive, producerVars, fields, call, bridge, lease
  <2> QED
    BY <1>1, <2>2
<1>5. ASSUME NEW p \in Producers, CommandStep(p) \/ CardStep(p) PROVE LeaseInv'
  <2>1. Delegates(p)
    BY <1>5, Delegated
  <2> QED
    BY <1>0, <2>1, LeaseDelegated
<1>6. ASSUME NEW p \in Producers, Served(p) PROVE LeaseInv'
  <2>1. CASE ProducerStep(p)
    BY <1>0, <2>1, LeaseReplies
  <2>2. CASE Serve(p)
    <3>1. PICK a : Responds(p, a)
      BY <1>0, <2>2, Serves DEF Typed
    <3> QED
      BY <1>0, <3>1, LeaseServed
  <2> QED
    BY <1>6, <2>1, <2>2 DEF Served
<1>7. ASSUME NEW p \in Producers, CancelCall(p) \/ Lose(p) PROVE LeaseInv'
  BY <1>0, <1>7, LeaseInDoubt
<1> QED
  BY <1>2, <1>3, <1>4, <1>5, <1>6, <1>7 DEF Next, BridgeStep, Manages

-----------------------------------------------------------------------------
(* Sequence numbers keep their limit.                                      *)

Numbered(p) ==
  /\ sequence[p] <= MaxSequence /\ reply[p].next <= MaxSequence
  /\ phase[p] = "submit" => sequence[p] + Len(batch[p]) <= MaxSequence
NumberInv ==
  /\ bNext <= MaxSequence
  /\ \A r \in wire : r.sequence + Len(r.frames) <= MaxSequence
  /\ \A p \in Producers : Numbered(p)

LEMMA NumberElsewhere ==
  ASSUME NumberInv, NEW p \in Producers, Elsewhere(p), Numbered(p)', bNext' <= MaxSequence,
         \A r \in wire' : r \in wire \/ (phase[p] = "submit" /\ r.sequence = sequence[p] /\ r.frames = batch[p])
  PROVE  NumberInv'
<1>1. Numbered(p)
  BY DEF NumberInv
<1>2. \A r \in wire' : r.sequence + Len(r.frames) <= MaxSequence
  BY <1>1 DEF NumberInv, Numbered
<1>3. ASSUME NEW q \in Producers, q # p PROVE Numbered(q)'
  <2>1. sequence'[q] = sequence[q] /\ reply'[q] = reply[q] /\ phase'[q] = phase[q] /\ batch'[q] = batch[q]
    BY <1>3 DEF Elsewhere
  <2> QED
    BY <2>1 DEF NumberInv, Numbered
<1> QED
  BY <1>2, <1>3 DEF NumberInv

LEMMA NoNumbers == NoReply.next = 0 /\ Failed.next = 0 /\ MaxSequence \in Nat /\ 0 <= MaxSequence
BY LimitsAssumption DEF NoReply, Failed

LEMMA NumberReplies ==
  ASSUME Typed, NEW p \in Producers, ProducerStep(p) \/ CancelCall(p) \/ Lose(p), NumberInv
  PROVE  NumberInv'
<1>0. Numbered(p) /\ Elsewhere(p)
  BY Alone DEF NumberInv
<1>1. bNext' = bNext
  BY DEF ProducerStep, StatusReply, OpenReply, SubmitReply, RecheckReply, EndReply, CancelCall, Lose, bridge, lease
<1>2. reply'[p].next = 0
  BY NoNumbers DEF ProducerStep, StatusReply, OpenReply, SubmitReply, RecheckReply, EndReply, CancelCall, Lose, Consume,
     Typed, LeaseTypes
<1>3. \A r \in wire' : r \in wire \/ (phase[p] = "submit" /\ r.sequence = sequence[p] /\ r.frames = batch[p])
  <2>1. CASE ProducerStep(p)
    BY <2>1 DEF ProducerStep, StatusReply, OpenReply, SubmitReply, RecheckReply, EndReply, bridge
  <2>2. CASE CancelCall(p) \/ Lose(p)
    BY <2>2, LateType DEF CancelCall, Lose, Typed
  <2> QED
    BY <2>1, <2>2
<1>4. ASSUME Clear(p) PROVE sequence'[p] = 0
  BY <1>4 DEF Clear, Typed, LeaseTypes
<1>5. ASSUME NEW r, Return(p, r) PROVE phase'[p] = "none"
  BY <1>5 DEF Return, Typed, ProducerInv, FieldTypes
<1>6. ASSUME NEW w, w # "submit", Await(p, w) PROVE phase'[p] # "submit"
  BY <1>6 DEF Await, Typed, ProducerInv, FieldTypes
<1>7. ASSUME Raise(p) PROVE sequence'[p] = 0 /\ phase'[p] # "submit"
  BY <1>4, <1>5, <1>7 DEF Raise
<1>8. ASSUME NEW n, NEW t, Recheck(p, n, t) PROVE sequence'[p] = n /\ phase'[p] # "submit"
  BY <1>6, <1>8 DEF Recheck, Typed, LeaseTypes
<1>9. sequence'[p] \in {sequence[p], reply[p].next, 0}
  <2>1. CASE StatusReply(p)
    BY <1>7, <2>1 DEF StatusReply
  <2>2. CASE OpenReply(p)
    BY <1>7, <2>2 DEF OpenReply, Opened, Typed, LeaseTypes
  <2>3. CASE SubmitReply(p)
    BY <1>7, <1>8, <2>3 DEF SubmitReply, Typed, LeaseTypes
  <2>4. CASE RecheckReply(p)
    BY <1>7, <2>4 DEF RecheckReply
  <2>5. CASE EndReply(p) \/ CancelCall(p)
    BY <1>4, <2>5 DEF EndReply, CancelCall
  <2>6. CASE Lose(p)
    BY <2>6 DEF Lose, fields
  <2> QED
    BY <2>1, <2>2, <2>3, <2>4, <2>5, <2>6 DEF ProducerStep
<1>10. phase'[p] = "submit" => UNCHANGED <<phase, sequence, batch>>
  <2>1. CASE StatusReply(p)
    BY <1>6, <1>7, <2>1 DEF StatusReply
  <2>2. CASE OpenReply(p)
    BY <1>5, <1>7, <2>2 DEF OpenReply
  <2>3. CASE SubmitReply(p)
    BY <1>5, <1>7, <1>8, <2>3 DEF SubmitReply
  <2>4. CASE RecheckReply(p)
    BY <1>5, <1>6, <1>7, <2>4 DEF RecheckReply
  <2>5. CASE EndReply(p) \/ CancelCall(p)
    BY <1>5, <2>5 DEF EndReply, CancelCall, Typed, ProducerInv, FieldTypes
  <2>6. CASE Lose(p)
    BY <2>6 DEF Lose, fields, call
  <2> QED
    BY <2>1, <2>2, <2>3, <2>4, <2>5, <2>6 DEF ProducerStep
<1>11. Numbered(p)'
  BY <1>0, <1>2, <1>9, <1>10, NoNumbers DEF Numbered
<1> QED
  BY <1>0, <1>1, <1>3, <1>11, NumberElsewhere DEF NumberInv

\* A part of what fits fits.
LEMMA FitsPart ==
  ASSUME NEW b \in Nat, NEW n \in Nat, NEW k \in Nat, NEW m \in Nat, b + n <= m, k <= n
  PROVE  b + k <= m
OBVIOUS

LEMMA NumberServed ==
  ASSUME Typed, NEW p \in Producers, NEW a, Responds(p, a), NumberInv
  PROVE  NumberInv'
<1>0. Numbered(p) /\ Elsewhere(p) /\ wire' = wire /\ UNCHANGED <<sequence, phase, batch>> /\ reply'[p] = a
      /\ bNext \in Nat /\ sequence[p] \in Nat /\ batch[p] \in Seq(Nat) /\ bNext <= MaxSequence
  BY AloneServed DEF NumberInv, Responds, fields, call, Typed, LeaseTypes
<1>1. ASSUME NEW u, phase[p] = "submit", Hears(p, u, a) PROVE bNext' <= MaxSequence /\ a.next <= MaxSequence
  <2>1. u \in Seq(Nat) /\ Len(u) <= Len(batch[p]) /\ Len(u) \in Nat /\ Len(batch[p]) \in Nat
    BY <1>0, <1>1, LenProperties DEF Hears, PartOf
  <2>2. CASE u # <<>>
    <3> DEFINE n == Len(u)
               m == Len(batch[p])
    <3>1. sequence[p] = bNext
      BY <1>1, <2>2, LateType DEF Hears, Accepts, Typed
    <3>2. bNext + m <= MaxSequence /\ n \in Nat /\ m \in Nat /\ n <= m
      BY <1>0, <1>1, <2>1, <3>1 DEF Numbered
    <3>3. bNext' \in {bNext, bNext + n} /\ a.next \in {0, bNext, bNext + n}
      BY <1>1 DEF Hears
    <3> HIDE DEF n, m
    <3>4. bNext + n <= MaxSequence
      BY <1>0, <3>2, FitsPart, NoNumbers
    <3> QED
      BY <1>0, <3>3, <3>4, NoNumbers
  <2>3. CASE u = <<>>
    <3>1. Len(u) = 0
      BY <2>3, EmptySeq
    <3>2. bNext + Len(u) = bNext
      BY <1>0, <3>1
    <3> QED
      BY <1>0, <1>1, <3>2, NoNumbers DEF Hears
  <2> QED
    BY <2>2, <2>3
<1>2. bNext' <= MaxSequence /\ a.next <= MaxSequence
  <2>1. CASE Grants(p, a)
    BY <2>1, NoNumbers DEF Grants
  <2>2. CASE Tells(p, a)
    BY <1>0, <2>2, NoNumbers DEF Tells, lease
  <2>3. CASE Ends(p, a)
    BY <1>0, <2>3 DEF Ends, Numbered
  <2> QED
    BY <1>1, <2>1, <2>2, <2>3 DEF Responds
<1>3. Numbered(p)'
  BY <1>0, <1>2 DEF Numbered
<1> QED
  BY <1>0, <1>2, <1>3, NumberElsewhere

LEMMA NumberDelegated ==
  ASSUME Typed, QueueTypes, NEW p \in Producers, Delegates(p), NumberInv
  PROVE  NumberInv'
<1>0. Numbered(p) /\ Elsewhere(p) /\ Course(p)
  BY AloneDelegated DEF NumberInv, Typed, ProducerInv
<1>1. UNCHANGED <<sequence, reply, wire, bNext>>
  BY DEF Delegates, TurnOver, Start, BeginStart, BeginSubmit, BeginStop, producerVars, fields, bridge, lease
<1>2. phase'[p] = "submit" => sequence[p] + Len(batch'[p]) <= MaxSequence
  <2>1. CASE UNCHANGED producerVars
    BY <1>0, <2>1 DEF Numbered, producerVars, call
  <2>2. CASE TurnOver(p) \/ Start(p) \/ BeginStop(p)
    BY <2>2 DEF TurnOver, Start, BeginStart, BeginStop, Typed, ProducerInv, FieldTypes
  <2>3. CASE BeginSubmit(p, Front(queue[p]))
    <3> DEFINE f == Front(queue[p])
               n == Len(f)
    <3>1. n \in Nat
      BY Pieces DEF QueueTypes
    <3>2. CASE Return(p, "raised")
      BY <3>2 DEF Return, Typed, ProducerInv, FieldTypes
    <3>3. CASE ~Overflows(p, n) /\ batch' = [batch EXCEPT ![p] = f]
      <4>1. batch'[p] = f
        BY <3>3 DEF Typed, LeaseTypes
      <4>2. Len(batch'[p]) = n
        BY <4>1
      <4>3. ~(sequence[p] > MaxSequence - n)
        BY <3>3 DEF Overflows
      <4>4. sequence[p] \in Nat /\ MaxSequence \in Nat
        BY NoNumbers DEF Typed, LeaseTypes
      <4> HIDE DEF n, f
      <4> QED
        BY <3>1, <4>2, <4>3, <4>4
    <3> QED
      BY <2>3, <3>2, <3>3 DEF BeginSubmit
  <2> QED
    BY <2>1, <2>2, <2>3 DEF Delegates
<1>3. Numbered(p)'
  BY <1>0, <1>1, <1>2 DEF Numbered
<1> QED
  BY <1>0, <1>1, <1>3, NumberElsewhere DEF NumberInv

LEMMA NumberStep ==
  ASSUME PcmInv, MicTypes, NumberInv, [Next]_vars
  PROVE  NumberInv'
<1>0. Typed /\ QueueTypes
  BY DEF PcmInv, MicTypes, Typed
<1>1. CASE UNCHANGED <<sequence, reply, phase, batch, wire, bNext>>
  BY <1>1 DEF NumberInv, Numbered
<1>2. CASE Arrive
  <2>1. PICK r \in wire :
          /\ wire' = wire \ {r}
          /\ IF Accepts(r) THEN heard' = heard \o r.frames /\ bNext' = bNext + Len(r.frames)
                           ELSE UNCHANGED <<heard, bNext>>
    BY <1>2 DEF Arrive
  <2>2. bNext' <= MaxSequence
    BY <2>1 DEF Accepts, NumberInv
  <2>3. UNCHANGED <<sequence, reply, phase, batch>>
    BY <1>2 DEF Arrive, fields, call
  <2> QED
    BY <2>1, <2>2, <2>3 DEF NumberInv, Numbered
<1>3. CASE UNCHANGED vars \/ Manages \/ Expire \/ CallBegins \/ CallEnds
  <2>1. UNCHANGED producerVars \/ Expire \/ CallBegins \/ CallEnds
    BY <1>3, Managed DEF vars
  <2>2. UNCHANGED <<sequence, reply, phase, batch, wire, bNext>>
    BY <2>1 DEF Expire, CallBegins, CallEnds, producerVars, fields, call, bridge, lease
  <2> QED
    BY <1>1, <2>2
<1>4. ASSUME NEW p \in Producers, CommandStep(p) \/ CardStep(p) PROVE NumberInv'
  <2>1. Delegates(p)
    BY <1>4, Delegated
  <2> QED
    BY <1>0, <2>1, NumberDelegated
<1>5. ASSUME NEW p \in Producers, Serve(p) PROVE NumberInv'
  <2>1. PICK a : Responds(p, a)
    BY <1>0, <1>5, Serves DEF Typed
  <2> QED
    BY <1>0, <2>1, NumberServed
<1>6. ASSUME NEW p \in Producers, ProducerStep(p) \/ CancelCall(p) \/ Lose(p) PROVE NumberInv'
  BY <1>0, <1>6, NumberReplies
<1> QED
  BY <1>2, <1>3, <1>4, <1>5, <1>6 DEF Next, Served, BridgeStep, Manages

-----------------------------------------------------------------------------
(* Frames: what pieces of sequences contain, and in which order.           *)

Frames(s) == {s[i] : i \in DOMAIN s}
Rising(s) == \A i, j \in DOMAIN s : i < j => s[i] < s[j]
Above(S, T) == \A x \in S, y \in T : x > y

LEMMA EmptyFrames == Frames(<<>>) = {} /\ Rising(<<>>)
BY DEF Frames, Rising

LEMMA FramesTyped == ASSUME NEW s \in Seq(Nat) PROVE Frames(s) \subseteq Nat
BY LenProperties DEF Frames

LEMMA FramesApart ==
  ASSUME NEW q \in Seq(Nat), Rising(q)
  PROVE  /\ Frames(Front(q)) \subseteq Frames(q) /\ Frames(Rest(q)) \subseteq Frames(q)
         /\ Rising(Front(q)) /\ Rising(Rest(q))
         /\ Above(Frames(Rest(q)), Frames(Front(q)))
<1> DEFINE a == Front(q)
           b == Rest(q)
           n == Len(a)
           m == Len(b)
<1>1. /\ a \in Seq(Nat) /\ b \in Seq(Nat) /\ n \in Nat /\ m \in Nat
      /\ DOMAIN a = 1..n /\ DOMAIN b = 1..m
      /\ \A i \in 1..n : i \in DOMAIN q /\ a[i] = q[i]
      /\ \A i \in 1..m : i + n \in DOMAIN q /\ b[i] = q[i + n]
  BY Pieces, LenProperties
<1>2. DOMAIN q \subseteq Nat
  BY LenProperties
<1> HIDE DEF n, m, a, b
<1>3. Frames(a) \subseteq Frames(q) /\ Frames(b) \subseteq Frames(q)
  BY <1>1 DEF Frames
<1>4. Rising(a)
  BY <1>1 DEF Rising
<1>5. Rising(b)
  <2>1. SUFFICES ASSUME NEW i \in 1..m, NEW j \in 1..m, i < j PROVE b[i] < b[j]
    BY <1>1 DEF Rising
  <2>0. i + n \in DOMAIN q /\ j + n \in DOMAIN q
    BY <1>1
  <2>4. i \in Nat /\ j \in Nat /\ n \in Nat
    BY <1>1
  <2>5. i + n < j + n
    BY <2>1, <2>4
  <2>2. i + n \in DOMAIN q /\ j + n \in DOMAIN q /\ i + n < j + n
    BY <2>0, <2>5
  <2>3. q[i + n] < q[j + n]
    BY <2>2 DEF Rising
  <2> QED
    BY <1>1, <2>3
<1>6. ASSUME NEW i \in 1..m, NEW j \in 1..n PROVE b[i] > a[j]
  <2>1. i + n \in DOMAIN q /\ j \in DOMAIN q /\ j < i + n
    BY <1>1
  <2>2. q[j] < q[i + n]
    BY <2>1 DEF Rising
  <2>3. q[j] \in Nat /\ q[i + n] \in Nat
    BY <2>1, LenProperties
  <2> QED
    BY <1>1, <2>2, <2>3
<1>7. Above(Frames(b), Frames(a))
  BY <1>1, <1>6 DEF Above, Frames
<1> QED
  BY <1>3, <1>4, <1>5, <1>7 DEF a, b

LEMMA FramesRecorded ==
  ASSUME NEW q \in Seq(Nat), NEW f \in Nat, Len(q) <= MaxQueuedFrames, Rising(q), \A x \in Frames(q) : x < f
  PROVE  Frames(Recorded(q, f)) \subseteq Frames(q) \cup {f} /\ Rising(Recorded(q, f))
<1> DEFINE r == Recorded(q, f)
           n == Len(q)
<1>0. r \in Seq(Nat) /\ n \in Nat /\ DOMAIN q = 1..n
  BY Records, LenProperties
<1>1. /\ r \in Seq(Nat) /\ n \in Nat /\ DOMAIN q = 1..n
      /\ \E d \in {0, 1} : \A i \in DOMAIN r : i + d \in 1..(n + 1) /\ r[i] = IF i + d = n + 1 THEN f ELSE q[i + d]
  BY <1>0, Records
<1> HIDE DEF r, n
<1>7. DOMAIN r \subseteq Nat
  BY <1>0, LenProperties
<1>2. PICK d \in {0, 1} : \A i \in DOMAIN r : i + d \in 1..(n + 1) /\ r[i] = IF i + d = n + 1 THEN f ELSE q[i + d]
  BY <1>1
<1>3. ASSUME NEW i \in DOMAIN r PROVE r[i] \in Frames(q) \cup {f}
  <2>1. i + d = n + 1 \/ i + d \in DOMAIN q
    BY <1>1, <1>2
  <2> QED
    BY <1>2, <2>1 DEF Frames
<1>4. ASSUME NEW i \in DOMAIN r, NEW j \in DOMAIN r, i < j PROVE r[i] < r[j]
  <2> DEFINE k == i + d
             l == j + d
  <2>0. i \in Nat /\ j \in Nat /\ k < l
    BY <1>4, <1>7
  <2>1. k \in 1..(n + 1) /\ l \in 1..(n + 1) /\ k < l
    BY <1>2, <2>0
  <2>5. r[i] = (IF k = n + 1 THEN f ELSE q[k]) /\ r[j] = (IF l = n + 1 THEN f ELSE q[l])
    BY <1>2
  <2> HIDE DEF k, l
  <2>6. k \in 1..n /\ k # n + 1 /\ (l # n + 1 => l \in 1..n)
    BY <1>0, <2>1
  <2>2. k \in DOMAIN q /\ r[i] = q[k]
    BY <1>0, <2>5, <2>6
  <2>3. CASE l = n + 1
    BY <2>2, <2>3, <2>5 DEF Frames
  <2>4. CASE l # n + 1
    BY <1>0, <2>1, <2>2, <2>4, <2>5, <2>6 DEF Rising
  <2> QED
    BY <2>3, <2>4
<1>5. Frames(r) \subseteq Frames(q) \cup {f}
  BY <1>3 DEF Frames
<1>6. Rising(r)
  BY <1>4 DEF Rising
<1> QED
  BY <1>5, <1>6 DEF r

LEMMA FramesPart ==
  ASSUME NEW s \in Seq(Nat), NEW u, PartOf(u, s), Rising(s)
  PROVE  Frames(u) \subseteq Frames(s) /\ Rising(u)
<1>1. u \in Seq(Nat) /\ DOMAIN u = 1..Len(u) /\ \A i \in 1..Len(u) : i \in DOMAIN s /\ u[i] = s[i]
  BY LenProperties DEF PartOf
<1>2. Frames(u) \subseteq Frames(s)
  BY <1>1 DEF Frames
<1>3. Rising(u)
  BY <1>1 DEF Rising
<1> QED
  BY <1>2, <1>3

LEMMA FramesJoined ==
  ASSUME NEW s \in Seq(Nat), NEW t \in Seq(Nat), Rising(s), Rising(t), Above(Frames(t), Frames(s))
  PROVE  Frames(s \o t) \subseteq Frames(s) \cup Frames(t) /\ Rising(s \o t)
<1> DEFINE c == s \o t
           n == Len(s)
           m == Len(t)
<1>1. /\ c \in Seq(Nat) /\ n \in Nat /\ m \in Nat /\ DOMAIN s = 1..n /\ DOMAIN t = 1..m /\ DOMAIN c = 1..(n + m)
      /\ \A i \in 1..(n + m) : c[i] = IF i <= n THEN s[i] ELSE t[i - n]
  BY HeardTypes
<1> HIDE DEF c, n, m
<1>2. ASSUME NEW i \in 1..(n + m) PROVE i \in 1..n \/ (i - n \in 1..m /\ i > n)
  BY <1>1
<1>3. Frames(c) \subseteq Frames(s) \cup Frames(t)
  <2>1. ASSUME NEW i \in DOMAIN c PROVE c[i] \in Frames(s) \cup Frames(t)
    <3>1. CASE i \in 1..n
      <4>1. i <= n /\ c[i] = s[i]
        BY <1>1, <2>1, <3>1
      <4> QED
        BY <1>1, <3>1, <4>1 DEF Frames
    <3>2. CASE i - n \in 1..m /\ i > n
      <4>1. c[i] = t[i - n]
        BY <1>1, <2>1, <3>2
      <4> QED
        BY <1>1, <3>2, <4>1 DEF Frames
    <3> QED
      BY <1>1, <1>2, <3>1, <3>2
  <2> QED
    BY <2>1 DEF Frames
<1>4. ASSUME NEW i \in DOMAIN c, NEW j \in DOMAIN c, i < j PROVE c[i] < c[j]
  <2>1. CASE j <= n
    <3>1. i \in 1..n /\ j \in 1..n /\ c[i] = s[i] /\ c[j] = s[j]
      BY <1>1, <1>4, <2>1
    <3> QED
      BY <1>1, <1>4, <3>1 DEF Rising
  <2>2. CASE i > n
    <3>2. i \in 1..(n + m) /\ j \in 1..(n + m) /\ ~(i <= n) /\ ~(j <= n)
      BY <1>1, <1>4, <2>2
    <3>3. c[i] = t[i - n] /\ c[j] = t[j - n]
      BY <1>1, <3>2
    <3>4. i - n \in 1..m /\ j - n \in 1..m /\ i - n < j - n
      BY <1>1, <1>4, <3>2
    <3>1. i - n \in 1..m /\ j - n \in 1..m /\ i - n < j - n /\ c[i] = t[i - n] /\ c[j] = t[j - n]
      BY <3>3, <3>4
    <3> QED
      BY <1>1, <3>1 DEF Rising
  <2>3. CASE i <= n /\ j > n
    <3>4. i \in 1..(n + m) /\ j \in 1..(n + m) /\ ~(j <= n)
      BY <1>1, <1>4, <2>3
    <3>5. i \in 1..n /\ j - n \in 1..m
      BY <1>1, <2>3, <3>4, SMTT(30)
    <3>1. i \in 1..n /\ j - n \in 1..m /\ c[i] = s[i] /\ c[j] = t[j - n]
      BY <1>1, <2>3, <3>4, <3>5
    <3>2. c[i] \in Frames(s) /\ c[j] \in Frames(t)
      BY <1>1, <3>1 DEF Frames
    <3>3. c[i] \in Nat /\ c[j] \in Nat /\ c[j] > c[i]
      BY <3>2, FramesTyped DEF Above
    <3> QED
      BY <3>3
  <2> QED
    BY <1>1, <2>1, <2>2, <2>3
<1>5. Rising(c)
  BY <1>4 DEF Rising
<1> QED
  BY <1>3, <1>5 DEF c

LEMMA AboveParts == ASSUME NEW S, NEW T, NEW U, NEW V, Above(S, T), U \subseteq S, V \subseteq T PROVE Above(U, V)
BY DEF Above

LEMMA AboveBoth == ASSUME NEW S, NEW T, NEW U, Above(S, T), Above(S, U) PROVE Above(S, T \cup U)
BY DEF Above

-----------------------------------------------------------------------------
(* Every lease has its own token, and one producer that it was given to.   *)

Names(p) == {token[p], reply[p].token} \ {0}
Distinct == \A p, q \in Producers : p # q => Names(p) \cap Names(q) = {}

LEMMA NamesReplies ==
  ASSUME Typed, NEW p \in Producers, ProducerStep(p) \/ CancelCall(p) \/ Lose(p)
  PROVE  Names(p)' \subseteq Names(p)
<1>1. reply'[p].token = 0
  BY NoTokens DEF ProducerStep, StatusReply, OpenReply, SubmitReply, RecheckReply, EndReply, CancelCall, Lose, Consume,
     Typed, LeaseTypes
<1>2. ASSUME Clear(p) PROVE token'[p] = 0
  BY <1>2 DEF Clear, Typed, LeaseTypes
<1>3. token'[p] \in {token[p], reply[p].token, 0}
  <2>1. CASE StatusReply(p)
    BY <1>2, <2>1 DEF StatusReply, Raise
  <2>2. CASE OpenReply(p)
    BY <1>2, <2>2 DEF OpenReply, Opened, Raise, Typed, LeaseTypes
  <2>3. CASE SubmitReply(p)
    BY <1>2, <2>3 DEF SubmitReply, Recheck, Raise
  <2>4. CASE RecheckReply(p)
    BY <1>2, <2>4 DEF RecheckReply, Raise
  <2>5. CASE EndReply(p) \/ CancelCall(p)
    BY <1>2, <2>5 DEF EndReply, CancelCall
  <2>6. CASE Lose(p)
    BY <2>6 DEF Lose, fields
  <2> QED
    BY <2>1, <2>2, <2>3, <2>4, <2>5, <2>6 DEF ProducerStep
<1> QED
  BY <1>1, <1>3 DEF Names

LEMMA NamesDelegated == ASSUME Typed, NEW p \in Producers, Delegates(p) PROVE UNCHANGED <<token, reply, bToken, bTokens, bCall, heard, wire, doubt>>
BY DEF Delegates, TurnOver, Start, BeginStart, BeginSubmit, BeginStop, producerVars, fields, bridge, lease

LEMMA NamesServed ==
  ASSUME Typed, NEW p \in Producers, NEW a, Responds(p, a)
  PROVE  a.token \in {0, bTokens + 1} /\ token' = token /\ reply'[p] = a /\ wire' = wire /\ bTokens' \in {bTokens, bTokens + 1}
<1>1. token' = token /\ reply'[p] = a /\ wire' = wire
  BY DEF Responds, fields, Typed, LeaseTypes
<1>2. a.token \in {0, bTokens + 1} /\ bTokens' \in {bTokens, bTokens + 1}
  BY DEF Responds, Hears, Grants, Tells, Ends, lease
<1> QED
  BY <1>1, <1>2

LEMMA DistinctElsewhere ==
  ASSUME NEW p \in Producers, Elsewhere(p), Distinct, NEW extra, Names(p)' \subseteq Names(p) \cup extra,
         \A q \in Producers : extra \cap Names(q) = {}
  PROVE  Distinct'
<1>1. \A q \in Producers : q # p => Names(q)' = Names(q)
  BY DEF Elsewhere, Names
<1>2. SUFFICES ASSUME NEW u \in Producers, NEW v \in Producers, u # v PROVE Names(u)' \cap Names(v)' = {}
  BY DEF Distinct
<1>3. Names(u) \cap Names(v) = {}
  BY <1>2 DEF Distinct
<1>4. CASE u = p
  BY <1>1, <1>2, <1>3, <1>4
<1>5. CASE v = p
  BY <1>1, <1>2, <1>3, <1>5
<1>6. CASE u # p /\ v # p
  BY <1>1, <1>3, <1>6
<1> QED
  BY <1>4, <1>5, <1>6

LEMMA DistinctStep ==
  ASSUME PcmInv, MicTypes, \A p \in Producers : Alive(p), Distinct, [Next]_vars
  PROVE  Distinct'
<1>0. Typed
  BY DEF PcmInv, MicTypes, Typed
<1>1. CASE UNCHANGED <<token, reply>>
  BY <1>1 DEF Distinct, Names
<1>2. CASE UNCHANGED vars \/ Manages \/ Arrive \/ Expire \/ CallBegins \/ CallEnds
  <2>1. UNCHANGED producerVars \/ Arrive \/ Expire \/ CallBegins \/ CallEnds
    BY <1>2, Managed DEF vars
  <2>2. UNCHANGED <<token, reply>>
    BY <2>1 DEF Arrive, Expire, CallBegins, CallEnds, producerVars, fields
  <2> QED
    BY <1>1, <2>2
<1>3. ASSUME NEW p \in Producers, CommandStep(p) \/ CardStep(p) PROVE Distinct'
  BY <1>0, <1>1, <1>3, Delegated, NamesDelegated
<1>4. ASSUME NEW p \in Producers, ProducerStep(p) \/ CancelCall(p) \/ Lose(p) PROVE Distinct'
  <2>1. Elsewhere(p) /\ Names(p)' \subseteq Names(p) \cup {}
    BY <1>0, <1>4, Alone, NamesReplies
  <2>2. \A q \in Producers : {} \cap Names(q) = {}
    OBVIOUS
  <2> QED
    BY <2>1, <2>2, DistinctElsewhere
<1>5. ASSUME NEW p \in Producers, Serve(p) PROVE Distinct'
  <2>1. PICK a : Responds(p, a)
    BY <1>0, <1>5, Serves DEF Typed
  <2>2. Elsewhere(p) /\ Names(p)' \subseteq Names(p) \cup {bTokens + 1}
    BY <1>0, <2>1, AloneServed, NamesServed DEF Names
  <2>3. ASSUME NEW q \in Producers PROVE {bTokens + 1} \cap Names(q) = {}
    <3>1. token[q] \in Nat /\ reply[q].token \in Nat /\ bTokens \in Nat /\ token[q] <= bTokens /\ reply[q].token <= bTokens
      BY <1>0 DEF Alive, Typed, LeaseTypes, Replies
    <3> QED
      BY <3>1 DEF Names
  <2> QED
    BY <2>2, <2>3, DistinctElsewhere
<1> QED
  BY <1>2, <1>3, <1>4, <1>5 DEF Next, Served, BridgeStep, Manages

-----------------------------------------------------------------------------
(* A submit is under way on behalf of its card.                            *)

Flying(p) ==
  /\ op[p] = "submit" => flight[p] /\ p \notin launching
  /\ running = p /\ result[p] = "raised" => p \in launching \/ flight[p]

LEMMA FlyingReplies ==
  ASSUME Typed, OwnerInv, NEW p \in Producers, ProducerStep(p) \/ CancelCall(p) \/ Lose(p), Flying(p), flight' = flight, launching' = launching
  PROVE  Flying(p)'
<1>0. Course(p) /\ Fresh(p)
  BY DEF Typed, ProducerInv, OwnerInv
<1>1. ASSUME NEW r, Return(p, r) PROVE op'[p] = "none" /\ running' = p /\ result'[p] = r
  BY <1>1 DEF Return, Typed, ProducerInv, FieldTypes, LeaseTypes
<1>2. ASSUME UNCHANGED <<op, result, running>> PROVE Flying(p)'
  BY <1>2 DEF Flying
<1>3. ASSUME NEW w, Await(p, w) PROVE Flying(p)'
  BY <1>2, <1>3 DEF Await
<1>4. ASSUME NEW r, Return(p, r), op[p] \in {"start", "submit"} \/ r # "raised" PROVE Flying(p)'
  <2>1. op'[p] = "none" /\ running' = p /\ result'[p] = r
    BY <1>1, <1>4
  <2> QED
    BY <1>0, <1>4, <2>1 DEF Flying, Fresh
<1>5. CASE StatusReply(p) \/ OpenReply(p) \/ SubmitReply(p) \/ RecheckReply(p)
  <2>1. op[p] \in {"start", "submit"}
    <3>1. phase[p] \in {"status", "open", "reopen", "submit", "recheck"}
      BY <1>5 DEF StatusReply, OpenReply, SubmitReply, RecheckReply, Answered
    <3> QED
      BY <1>0, <3>1 DEF Course
  <2>2. (\E w : Await(p, w)) \/ (\E r : Return(p, r))
    BY <1>5 DEF StatusReply, OpenReply, SubmitReply, RecheckReply, Recheck, Raise
  <2> QED
    BY <1>3, <1>4, <2>1, <2>2
<1>6. CASE EndReply(p)
  <2>1. op'[p] = "none" /\ UNCHANGED <<result, running>>
    BY <1>6 DEF EndReply, Typed, ProducerInv, FieldTypes
  <2> QED
    BY <2>1 DEF Flying
<1>7. CASE CancelCall(p)
  BY <1>4, <1>7 DEF CancelCall
<1>8. CASE Lose(p)
  BY <1>2, <1>8 DEF Lose, call
<1> QED
  BY <1>5, <1>6, <1>7, <1>8 DEF ProducerStep

LEMMA FlyingElsewhere ==
  ASSUME Typed, NEW p \in Producers, Elsewhere(p), \A q \in Producers : Flying(q), Flying(p)',
         running' \in {running, p, NoProducer},
         \A q \in Producers : q # p => flight'[q] = flight[q] /\ (q \in launching' <=> q \in launching)
  PROVE  \A q \in Producers : Flying(q)'
<1>1. ASSUME NEW q \in Producers, q # p PROVE Flying(q)'
  <2>1. op'[q] = op[q] /\ result'[q] = result[q] /\ (running' = q => running = q)
    BY <1>1, ProducersAssumption DEF Elsewhere
  <2> QED
    BY <1>1, <2>1 DEF Flying
<1> QED
  BY <1>1

LEMMA FlyingDelegated ==
  ASSUME PcmInv, MicTypes, NEW p \in Producers, CommandStep(p) \/ CardStep(p), \A q \in Producers : Flying(q)
  PROVE  \A q \in Producers : Flying(q)'
<1>0. Typed /\ Flying(p) /\ Fresh(p) /\ QueueTypes
  BY DEF PcmInv, MicTypes, Typed, OwnerInv
<1>1. Elsewhere(p)
  BY <1>0, Delegated, AloneDelegated
<1>2. CASE StartReturns(p) \/ SubmitReturns(p) \/ StopCancelled(p)
  <2>1. running' = NoProducer /\ op' = op /\ op[p] = "none"
    BY <1>2, TurnsOver DEF TurnOver
  <2>2. Flying(p)'
    BY <2>1, ProducersAssumption DEF Flying
  <2>3. \A q \in Producers : q # p => flight'[q] = flight[q] /\ (q \in launching' <=> q \in launching)
    BY <1>0, <1>2 DEF StartReturns, SubmitReturns, StopCancelled, captureVars, manager, cards, QueueTypes
  <2> QED
    BY <1>0, <1>1, <2>1, <2>2, <2>3, FlyingElsewhere
<1>3. CASE Start(p)
  <2>1. op'[p] = "start" /\ running' = running /\ flight' = flight /\ launching' = launching \cup {p}
    BY <1>0, <1>3 DEF Start, BeginStart, Typed, ProducerInv, FieldTypes
  <2>2. Flying(p)'
    BY <2>1 DEF Flying
  <2> QED
    BY <1>0, <1>1, <2>1, <2>2, FlyingElsewhere
<1>4. CASE Submit(p) /\ UNCHANGED producerVars
  <2>1. UNCHANGED <<op, result, running, flight, launching>> \/ (BeginSubmit(p, Front(queue[p])) /\ p \in captures)
    BY <1>4 DEF Submit, producerVars, call
  <2>2. CASE UNCHANGED <<op, result, running, flight, launching>>
    BY <2>2 DEF Flying
  <2>3. CASE BeginSubmit(p, Front(queue[p])) /\ p \in captures
    <3>1. running = NoProducer /\ running' = running /\ op' = op /\ op[p] = "none"
      BY <1>4, <2>3 DEF Submit, Quiet, BeginSubmit, producerVars, call
    <3>2. launching' = launching /\ \A q \in Producers : q # p => flight'[q] = flight[q]
      BY <1>0, <1>4 DEF Submit, QueueTypes
    <3>3. Flying(p)'
      BY <3>1, ProducersAssumption DEF Flying
    <3> QED
      BY <1>0, <1>1, <3>1, <3>2, <3>3, FlyingElsewhere
  <2> QED
    BY <2>1, <2>2, <2>3
<1>5. CASE Submit(p) /\ BeginSubmit(p, Front(queue[p])) /\ p \in captures /\ flight' = [flight EXCEPT ![p] = TRUE]
  <2>1. flight'[p] = TRUE /\ launching' = launching /\ p \notin launching /\ (\A q \in Producers : q # p => flight'[q] = flight[q])
    BY <1>0, <1>5 DEF Submit, QueueTypes, Fresh
  <2>2. running' \in {running, p}
    BY <1>5 DEF BeginSubmit, Return
  <2>3. Flying(p)'
    BY <2>1 DEF Flying
  <2> QED
    BY <1>0, <1>1, <2>1, <2>2, <2>3, FlyingElsewhere
<1>6. CASE Record(p) \/ LetGo(p) \/ Stop(p) \/ Disconnect(p)
  <2>1. UNCHANGED <<op, result, running, flight, launching>>
    BY <1>6 DEF Record, LetGo, Stop, Disconnect, producerVars, call, manager, cards
  <2> QED
    BY <2>1 DEF Flying
<1>7. CASE Close(p)
  <2>1. UNCHANGED <<result, running, flight, launching>> /\ running = NoProducer
    BY <1>7 DEF Close, BeginStop, Quiet, producerVars, call, cards
  <2>2. op'[p] \in {"none", "stop"}
    BY <1>0, <1>7 DEF Close, BeginStop, producerVars, call, Typed, ProducerInv, FieldTypes
  <2>3. Flying(p)'
    BY <2>1, <2>2, ProducersAssumption DEF Flying
  <2> QED
    BY <1>0, <1>1, <2>1, <2>3, FlyingElsewhere
<1> QED
  BY <1>2, <1>3, <1>4, <1>5, <1>6, <1>7 DEF CommandStep, CardStep, Submit

LEMMA FlyingStep ==
  ASSUME PcmInv, MicTypes, \A p \in Producers : Flying(p), [Next]_vars
  PROVE  \A p \in Producers : Flying(p)'
<1>0. Typed /\ OwnerInv
  BY DEF PcmInv, MicTypes, Typed
<1>1. CASE UNCHANGED <<op, result, running, flight, launching>>
  BY <1>1 DEF Flying
<1>2. CASE UNCHANGED vars \/ Manages \/ ((Arrive \/ Expire \/ CallBegins \/ CallEnds \/ \E p \in Producers : Serve(p)) /\ UNCHANGED captureVars)
  <2>1. UNCHANGED <<op, result, running>>
    BY <1>2, Managed DEF vars, Arrive, Expire, CallBegins, CallEnds, Serve, producerVars, call
  <2>2. UNCHANGED <<flight, launching>>
    BY <1>2 DEF vars, captureVars, manager, cards, Manages, Poll, Reconcile, Hangup, ReleaseCall, ReleaseEntry, Admit
  <2> QED
    BY <1>1, <2>1, <2>2
<1>3. ASSUME NEW p \in Producers, ProducerStep(p) \/ CancelCall(p) \/ Lose(p), UNCHANGED captureVars
      PROVE  \A q \in Producers : Flying(q)'
  <2>1. flight' = flight /\ launching' = launching
    BY <1>3 DEF captureVars, manager, cards
  <2>2. running' \in {running, p}
    BY <1>3 DEF ProducerStep, StatusReply, OpenReply, SubmitReply, RecheckReply, EndReply, CancelCall, Lose, Raise, Return,
       Recheck, Await, call
  <2>3. Elsewhere(p) /\ Flying(p)'
    BY <1>0, <1>3, <2>1, Alone, FlyingReplies
  <2> QED
    BY <1>0, <2>1, <2>2, <2>3, FlyingElsewhere
<1> QED
  BY <1>2, <1>3, FlyingDelegated DEF Next, Served, BridgeStep, Manages

-----------------------------------------------------------------------------
(* A card that does not talk has nothing queued.                           *)

Silent(p) == (card[p] # "talking" => queue[p] = <<>>) /\ (p \in launching => card[p] # "talking")

LEMMA SilentStep ==
  ASSUME PcmInv, MicTypes, \A p \in Producers : Silent(p), [Next]_vars
  PROVE  \A p \in Producers : Silent(p)'
<1>0. card \in [Producers -> {"off", "starting", "talking", "closed"}] /\ queue \in [Producers -> Seq(Nat)]
  BY DEF PcmInv, OwnerInv, OwnerTypes, MicTypes, QueueTypes
<1>1. CASE UNCHANGED <<card, queue, launching>>
  BY <1>1 DEF Silent
<1>2. CASE UNCHANGED captureVars \/ Manages
  BY <1>1, <1>2 DEF captureVars, manager, cards, Manages, Poll, Reconcile, Hangup, ReleaseCall, ReleaseEntry, Admit
<1>3. ASSUME NEW p \in Producers, launching' \subseteq launching,
             card' = [card EXCEPT ![p] = "closed"] /\ queue' = [queue EXCEPT ![p] = <<>>]
      PROVE  \A q \in Producers : Silent(q)'
  BY <1>0, <1>3 DEF Silent
<1>4. ASSUME NEW p \in Producers, CommandStep(p) \/ CardStep(p) PROVE \A q \in Producers : Silent(q)'
  <2>1. CASE StartReturns(p)
    <3>1. CASE Publishable(p)
      BY <1>0, <2>1, <3>1 DEF StartReturns, Silent
    <3>2. CASE ~Publishable(p)
      BY <1>0, <2>1, <3>2 DEF StartReturns, Silent
    <3> QED
      BY <3>1, <3>2
  <2>2. CASE SubmitReturns(p)
    <3>1. launching' = launching
      BY <2>2 DEF SubmitReturns
    <3>2. CASE card' = [card EXCEPT ![p] = "closed"] /\ queue' = [queue EXCEPT ![p] = <<>>]
      BY <1>3, <3>1, <3>2
    <3>3. CASE UNCHANGED <<card, queue>>
      BY <1>1, <3>1, <3>3
    <3>4. CASE card' = card /\ queue' = [queue EXCEPT ![p] = IF card[p] = "talking" THEN Unsent(p) ELSE <<>>]
      BY <1>0, <3>1, <3>4 DEF Silent, Unsent
    <3> QED
      BY <2>2, <3>2, <3>3, <3>4 DEF SubmitReturns
  <2>3. CASE StopCancelled(p) \/ Close(p) \/ Stop(p)
    BY <1>1, <2>3 DEF StopCancelled, Close, Stop, captureVars, manager, cards
  <2>4. CASE Start(p)
    BY <1>0, <2>4 DEF Start, Silent
  <2>5. CASE Record(p)
    BY <1>0, <2>5 DEF Record, Silent, manager
  <2>6. CASE LetGo(p) \/ Disconnect(p)
    BY <1>3, <2>6 DEF LetGo, Disconnect, manager
  <2>7. CASE Submit(p)
    <3>1. launching' = launching /\ card[p] = "talking"
      BY <2>7 DEF Submit
    <3>2. CASE card' = card /\ queue' = [queue EXCEPT ![p] = Rest(@)]
      BY <1>0, <3>1, <3>2 DEF Silent
    <3>3. CASE card' = [card EXCEPT ![p] = "closed"] /\ queue' = [queue EXCEPT ![p] = <<>>]
      BY <1>3, <3>1, <3>3
    <3> QED
      BY <2>7, <3>2, <3>3 DEF Submit
  <2> QED
    BY <1>4, <2>1, <2>2, <2>3, <2>4, <2>5, <2>6, <2>7 DEF CommandStep, CardStep
<1>5. CASE UNCHANGED vars
  BY <1>2, <1>5 DEF vars
<1> QED
  BY <1>2, <1>4, <1>5 DEF Next, Served, BridgeStep, Manages

-----------------------------------------------------------------------------
(* A submit that was given up and may still arrive: its producer never     *)
(* submits under that token again.                                         *)

Shipped(p) == phase[p] = "submit" /\ reply[p] = NoReply
Spoiled(p) ==
  /\ p \notin launching
  /\ \/ p \notin captures
     \/ phase[p] = "submit" /\ reply[p].kind = "error"
     \/ phase[p] = "recheck" /\ after[p] = "lost"
     \/ running = p /\ result[p] = "raised"
GivenUp(p) == Spoiled(p) /\ ~Shipped(p)
Gone(t) == \A p \in Producers : reply[p].token # t /\ (token[p] = t => GivenUp(p))
WireInv ==
  /\ \A r \in wire : r.token \in 1..bTokens /\ Gone(r.token)
  /\ \A r, s \in wire : r.token = s.token => r = s

LEMMA GivenUpElsewhere ==
  ASSUME NEW p \in Producers, NEW q \in Producers, q # p, Elsewhere(p), GivenUp(q),
         running # q, captures' \subseteq captures \cup {p}, launching' \subseteq launching \cup {p}
  PROVE  GivenUp(q)'
BY DEF GivenUp, Spoiled, Shipped, Elsewhere

LEMMA GivenUpReplies ==
  ASSUME Typed, NEW p \in Producers, ProducerStep(p), GivenUp(p), token'[p] = token[p], token[p] # 0,
         reply[p].token # token[p], captures' = captures, launching' = launching
  PROVE  GivenUp(p)'
<1>0. p \notin launching /\ Quiet /\ running # p
  BY ProducersAssumption DEF GivenUp, Spoiled, ProducerStep, StatusReply, OpenReply, SubmitReply, RecheckReply, EndReply,
     Answered, Quiet
<1>1. ASSUME phase'[p] # "submit" PROVE ~Shipped(p)'
  BY <1>1 DEF Shipped
<1>2. ASSUME Clear(p) PROVE token'[p] = 0
  BY <1>2 DEF Clear, Typed, LeaseTypes
<1>3. ~Clear(p) /\ ~Raise(p)
  BY <1>2 DEF Raise
<1>4. ASSUME NEW r, Return(p, r) PROVE phase'[p] = "none" /\ running' = p /\ result'[p] = r
  BY <1>4 DEF Return, Typed, ProducerInv, FieldTypes, LeaseTypes
<1>5. ASSUME NEW w, Await(p, w) PROVE phase'[p] = w
  BY <1>5 DEF Await, Typed, ProducerInv, FieldTypes
<1>6. CASE p \notin captures
  <2>1. phase'[p] # "submit"
    BY <1>3, <1>4, <1>5 DEF ProducerStep, StatusReply, OpenReply, SubmitReply, RecheckReply, EndReply, Recheck
  <2> QED
    BY <1>0, <1>1, <1>6, <2>1 DEF GivenUp, Spoiled
<1>7. CASE phase[p] = "submit" /\ reply[p].kind = "error"
  <2>1. SubmitReply(p)
    BY <1>7 DEF ProducerStep, StatusReply, OpenReply, SubmitReply, RecheckReply, EndReply, Answered
  <2>2. Recheck(p, sequence[p], "lost")
    BY <1>7, <2>1 DEF SubmitReply
  <2>3. phase'[p] = "recheck" /\ after'[p] = "lost"
    BY <1>5, <2>2 DEF Recheck, Typed, LeaseTypes
  <2> QED
    BY <1>0, <1>1, <2>3 DEF GivenUp, Spoiled
<1>8. CASE phase[p] = "recheck" /\ after[p] = "lost"
  <2>1. RecheckReply(p)
    BY <1>8 DEF ProducerStep, StatusReply, OpenReply, SubmitReply, RecheckReply, EndReply, Answered
  <2>2. Return(p, "raised")
    BY <1>3, <1>8, <2>1 DEF RecheckReply
  <2>3. phase'[p] = "none" /\ running' = p /\ result'[p] = "raised"
    BY <1>4, <2>2
  <2> QED
    BY <1>0, <1>1, <2>3 DEF GivenUp, Spoiled
<1> QED
  BY <1>0, <1>6, <1>7, <1>8 DEF GivenUp, Spoiled

\* A step in which p only replies, loses or is served, for a token t in use before.
LEMMA GoneElsewhere ==
  ASSUME NEW p \in Producers, Elsewhere(p), NEW t, Gone(t), running \notin Producers \ {p},
         captures' \subseteq captures \cup {p}, launching' \subseteq launching \cup {p},
         reply'[p].token # t, token'[p] = t => GivenUp(p)'
  PROVE  Gone(t)'
<1>1. ASSUME NEW q \in Producers, q # p PROVE reply'[q].token # t /\ (token'[q] = t => GivenUp(q)')
  <2>1. reply'[q] = reply[q] /\ token'[q] = token[q]
    BY <1>1 DEF Elsewhere
  <2>2. running # q
    BY <1>1
  <2> QED
    BY <1>1, <2>1, <2>2, GivenUpElsewhere DEF Gone
<1> QED
  BY <1>1 DEF Gone

LEMMA GoneReplies ==
  ASSUME Typed, NEW p \in Producers, ProducerStep(p) \/ CancelCall(p) \/ Lose(p), Alive(p), UNCHANGED captureVars,
         NEW t \in Nat \ {0}, Gone(t)
  PROVE  Gone(t)'
<1>0. captures' = captures /\ launching' = launching /\ Elsewhere(p) /\ running = NoProducer
  BY Alone DEF captureVars, manager, ProducerStep, StatusReply, OpenReply, SubmitReply, RecheckReply, EndReply,
     CancelCall, Lose, Answered, Quiet
<1>1. reply'[p].token = 0
  BY NoTokens DEF ProducerStep, StatusReply, OpenReply, SubmitReply, RecheckReply, EndReply, CancelCall, Lose, Consume,
     Typed, LeaseTypes
<1>2. Names(p)' \subseteq Names(p)
  BY NamesReplies
<1>3. ASSUME token'[p] = t PROVE token[p] = t /\ GivenUp(p)
  BY <1>2, <1>3 DEF Names, Gone
<1>4. ASSUME token'[p] = t PROVE GivenUp(p)'
  <2>1. token[p] = t /\ GivenUp(p) /\ reply[p].token # t
    BY <1>3, <1>4 DEF Gone
  <2>2. CASE ProducerStep(p)
    BY <1>0, <1>4, <2>1, <2>2, GivenUpReplies
  <2>3. CASE CancelCall(p)
    BY <1>4, <2>3 DEF CancelCall, Clear, Typed, LeaseTypes
  <2>4. CASE Lose(p)
    <3>1. reply'[p] = Failed /\ UNCHANGED <<phase, after, running, result>>
      BY <2>4 DEF Lose, call, Typed, LeaseTypes
    <3> QED
      BY <1>0, <2>1, <3>1, NoTokens DEF GivenUp, Spoiled, Shipped
  <2> QED
    BY <2>2, <2>3, <2>4
<1> QED
  BY <1>0, <1>1, <1>4, GoneElsewhere, ProducersAssumption

\* The submit that p gives up.
LEMMA GoneNow ==
  ASSUME Typed, NEW p \in Producers, CancelCall(p) \/ Lose(p), \A q \in Producers : Alive(q), Flying(p), Distinct,
         UNCHANGED captureVars, Shipped(p), NEW t, t = token[p]
  PROVE  Late(p).token = t /\ t \in 1..bTokens /\ Gone(t)'
<1>0. /\ captures' = captures /\ launching' = launching /\ Elsewhere(p) /\ Course(p) /\ Alive(p)
      /\ Late(p).token = token[p] /\ token[p] \in Nat /\ bTokens \in Nat
  BY Alone, LateType DEF captureVars, manager, Typed, LeaseTypes, ProducerInv
<1>1. token[p] # 0 /\ op[p] = "submit"
  BY <1>0 DEF Shipped, Course, Alive
<1>2. token[p] \in 1..bTokens
  BY <1>0, <1>1 DEF Alive
<1>3. ASSUME NEW q \in Producers, q # p PROVE reply'[q].token # token[p] /\ token'[q] # token[p]
  <2>1. reply'[q] = reply[q] /\ token'[q] = token[q]
    BY <1>0, <1>3 DEF Elsewhere
  <2> QED
    BY <1>1, <1>3, <2>1 DEF Distinct, Names
<1>4. reply'[p].token # token[p] /\ (token'[p] = token[p] => GivenUp(p)')
  <2>1. CASE CancelCall(p)
    <3>1. reply'[p].token = 0 /\ token'[p] = 0
      BY <2>1, NoTokens DEF CancelCall, Consume, Clear, Typed, LeaseTypes
    <3> QED
      BY <1>1, <3>1
  <2>2. CASE Lose(p)
    <3>1. reply'[p] = Failed /\ phase'[p] = "submit"
      BY <2>2 DEF Lose, call, Typed, LeaseTypes, Shipped
    <3>2. p \notin launching'
      BY <1>0, <1>1 DEF Flying
    <3> QED
      BY <1>1, <3>1, <3>2, NoTokens DEF GivenUp, Spoiled, Shipped
  <2> QED
    BY <2>1, <2>2
<1>5. Gone(t)'
  <2>1. \A q \in Producers : reply'[q].token # t /\ (token'[q] = t => GivenUp(q)')
    BY <1>3, <1>4
  <2> QED
    BY <2>1 DEF Gone
<1> QED
  BY <1>0, <1>2, <1>5

LEMMA GoneServed ==
  ASSUME Typed, NEW p \in Producers, NEW a, Responds(p, a), UNCHANGED captureVars, NEW t \in 1..bTokens, Gone(t)
  PROVE  Gone(t)'
<1>0. /\ captures' = captures /\ launching' = launching /\ Elsewhere(p) /\ running = NoProducer
      /\ UNCHANGED <<phase, after, running, result>> /\ reply[p] = NoReply /\ bTokens \in Nat
  BY AloneServed DEF captureVars, manager, Responds, Quiet, call, Typed, LeaseTypes
<1>1. a.token # t /\ token' = token /\ reply'[p] = a
  BY <1>0, NamesServed
<1>2. ASSUME token'[p] = t PROVE GivenUp(p)'
  <2>1. GivenUp(p)
    BY <1>1, <1>2 DEF Gone
  <2>2. phase[p] # "submit"
    BY <1>0, <2>1 DEF GivenUp, Shipped
  <2> QED
    BY <1>0, <1>1, <2>1, <2>2 DEF GivenUp, Spoiled, Shipped
<1> QED
  BY <1>0, <1>1, <1>2, GoneElsewhere, ProducersAssumption

LEMMA GoneCommands ==
  ASSUME PcmInv, MicTypes, NEW p \in Producers, CommandStep(p) \/ CardStep(p), \A q \in Producers : Flying(q) /\ Alive(q),
         NEW t \in Nat \ {0}, Gone(t)
  PROVE  Gone(t)'
<1>0. /\ Typed /\ OwnerInv /\ Flying(p) /\ Delegates(p) /\ Elsewhere(p) /\ Fresh(p) /\ Course(p) /\ Alive(p) /\ Agrees(p)
      /\ UNCHANGED <<token, reply>>
  BY Delegated, AloneDelegated, NamesDelegated DEF PcmInv, MicTypes, Typed, OwnerInv, ProducerInv
<1>1. reply'[p].token # t
  BY <1>0 DEF Gone
<1>2. ASSUME token[p] = t PROVE GivenUp(p) /\ token[p] # 0
  BY <1>2 DEF Gone
<1>3. ASSUME running \in {p, NoProducer}, captures' \subseteq captures \cup {p}, launching' \subseteq launching \cup {p},
             token[p] = t => GivenUp(p)'
      PROVE  Gone(t)'
  BY <1>0, <1>1, <1>3, GoneElsewhere, ProducersAssumption
<1>4. CASE StartReturns(p)
  <2>1. running = p /\ p \in launching /\ captures' \subseteq captures \cup {p} /\ launching' \subseteq launching
    BY <1>4 DEF StartReturns
  <2>2. token[p] # t
    BY <1>2, <2>1 DEF GivenUp, Spoiled
  <2> QED
    BY <1>3, <2>1, <2>2
<1>5. CASE SubmitReturns(p)
  <2>1. running = p /\ captures' \subseteq captures /\ launching' = launching /\ phase[p] = "none" /\ phase' = phase
    BY <1>0, <1>5, TurnsOver DEF SubmitReturns, TurnOver, PcmInv
  <2>2. result[p] = "raised" => p \notin captures'
    BY <1>5 DEF SubmitReturns
  <2>3. token[p] = t => GivenUp(p)'
    BY <1>2, <2>1, <2>2 DEF GivenUp, Spoiled, Shipped
  <2> QED
    BY <1>3, <2>1, <2>3
<1>6. CASE StopCancelled(p)
  <2>1. running = p /\ captures' = captures /\ launching' = launching /\ phase[p] = "none" /\ phase' = phase /\ ~flight[p]
        /\ p \notin launching
    BY <1>0, <1>6, TurnsOver DEF StopCancelled, TurnOver, captureVars, manager
  <2>2. token[p] = t => GivenUp(p)'
    BY <1>0, <1>2, <2>1 DEF GivenUp, Spoiled, Shipped, Flying
  <2> QED
    BY <1>3, <2>1, <2>2
<1>7. ASSUME running = NoProducer, captures' \subseteq captures, launching' = launching,
             UNCHANGED <<phase, after>> \/ p \notin captures, phase'[p] = "submit" => phase[p] = "submit"
      PROVE  Gone(t)'
  <2>1. token[p] = t => GivenUp(p)'
    BY <1>0, <1>2, <1>7, ProducersAssumption DEF GivenUp, Spoiled, Shipped
  <2> QED
    BY <1>3, <1>7, <2>1
<1>8. CASE Close(p)
  <2>1. running = NoProducer /\ captures' = captures /\ launching' = launching /\ after' = after
        /\ (phase' = phase \/ (phase'[p] = "end" /\ phase[p] = "none"))
    BY <1>0, <1>8 DEF Close, Quiet, BeginStop, producerVars, call, Typed, ProducerInv, FieldTypes, Course
  <2>2. token[p] = t => GivenUp(p)'
    BY <1>0, <1>2, <2>1, ProducersAssumption DEF GivenUp, Spoiled, Shipped
  <2> QED
    BY <1>3, <2>1, <2>2
<1>9. CASE Start(p)
  <2>1. running = NoProducer /\ captures' = captures /\ launching' = launching \cup {p} /\ pstate[p] = "idle"
    BY <1>9 DEF Start, Quiet, BeginStart
  <2>2. token[p] # t
    BY <1>0, <2>1 DEF Alive
  <2> QED
    BY <1>3, <2>1, <2>2
<1>10. CASE Record(p) \/ LetGo(p) \/ Stop(p) \/ Disconnect(p)
  <2>1. running = NoProducer /\ captures' \subseteq captures /\ launching' = launching /\ UNCHANGED <<phase, after>>
    BY <1>10 DEF Record, LetGo, Stop, Disconnect, Quiet, Revoke, manager, producerVars, call
  <2> QED
    BY <1>7, <2>1
<1>11. CASE Submit(p) /\ p \in captures /\ BeginSubmit(p, Front(queue[p])) /\ UNCHANGED captures
  <2>1. running = NoProducer /\ launching' = launching /\ phase[p] = "none"
    BY <1>0, <1>11 DEF Submit, Quiet, BeginSubmit, Course
  <2>2. token[p] # t
    BY <1>2, <1>11, <2>1, ProducersAssumption DEF GivenUp, Spoiled
  <2> QED
    BY <1>3, <1>11, <2>1, <2>2
<1>12. CASE Submit(p) /\ UNCHANGED producerVars
  <2>1. running = NoProducer /\ captures' \subseteq captures /\ launching' = launching /\ UNCHANGED <<phase, after>>
    BY <1>12 DEF Submit, Quiet, producerVars, call
  <2> QED
    BY <1>7, <2>1
<1> QED
  BY <1>4, <1>5, <1>6, <1>8, <1>9, <1>10, <1>11, <1>12 DEF CommandStep, CardStep, Submit

LEMMA WireStep ==
  ASSUME PcmInv, MicTypes, \A p \in Producers : Flying(p) /\ Alive(p), Distinct, WireInv, [Next]_vars
  PROVE  WireInv'
<1>0. Typed /\ bTokens \in Nat
  BY DEF PcmInv, MicTypes, Typed, LeaseTypes
<1>1. ASSUME wire' \subseteq wire, bTokens' \in Nat, bTokens <= bTokens', \A t \in 1..bTokens : Gone(t) => Gone(t)' PROVE WireInv'
  BY <1>0, <1>1 DEF WireInv
<1>2. ASSUME UNCHANGED <<token, reply, phase, after, running, result, launching>>, captures' \subseteq captures
      PROVE  \A t \in 1..bTokens : Gone(t) => Gone(t)'
  BY <1>2 DEF Gone, GivenUp, Spoiled, Shipped
<1>3. CASE UNCHANGED vars \/ Manages
  <2>1. UNCHANGED producerVars /\ launching' = launching /\ captures' \subseteq captures
    BY <1>3, Managed DEF vars, captureVars, manager, Manages, Poll, Reconcile, Hangup, ReleaseCall, ReleaseEntry, Admit, Revoke
  <2> QED
    BY <1>0, <1>1, <1>2, <2>1 DEF producerVars, fields, call, bridge, lease
<1>4. CASE (Arrive \/ Expire \/ CallBegins \/ CallEnds) /\ UNCHANGED captureVars
  <2>1. UNCHANGED <<token, reply, phase, after, running, result, launching, captures, bTokens>> /\ wire' \subseteq wire
    BY <1>4 DEF Arrive, Expire, CallBegins, CallEnds, fields, call, lease, captureVars, manager
  <2> QED
    BY <1>0, <1>1, <1>2, <2>1
<1>5. ASSUME NEW p \in Producers, CommandStep(p) \/ CardStep(p) PROVE WireInv'
  <2>1. wire' = wire /\ bTokens' = bTokens
    BY <1>0, <1>5, Delegated, NamesDelegated
  <2>2. \A t \in 1..bTokens : Gone(t) => Gone(t)'
    BY <1>0, <1>5, GoneCommands
  <2> QED
    BY <1>0, <1>1, <2>1, <2>2
<1>6. ASSUME NEW p \in Producers, Serve(p), UNCHANGED captureVars PROVE WireInv'
  <2>1. PICK a : Responds(p, a)
    BY <1>0, <1>6, Serves DEF Typed
  <2>2. wire' = wire /\ bTokens' \in Nat /\ bTokens <= bTokens'
    BY <1>0, <2>1, NamesServed
  <2>3. \A t \in 1..bTokens : Gone(t) => Gone(t)'
    BY <1>0, <1>6, <2>1, GoneServed
  <2> QED
    BY <1>1, <2>2, <2>3
<1>7. ASSUME NEW p \in Producers, ProducerStep(p) \/ CancelCall(p) \/ Lose(p), UNCHANGED captureVars PROVE WireInv'
  <2>1. \A t \in 1..bTokens : Gone(t) => Gone(t)'
    BY <1>0, <1>7, GoneReplies
  <2>2. bTokens' = bTokens
    BY <1>0, <1>7, AliveReplies
  <2>3. CASE wire' = wire
    BY <1>0, <1>1, <2>1, <2>2, <2>3
  <2>4. CASE (CancelCall(p) \/ Lose(p)) /\ Shipped(p) /\ wire' = wire \cup {Late(p)}
    <3>1. PICK t : t = token[p]
      OBVIOUS
    <3>2. Late(p).token = t /\ t \in 1..bTokens /\ Gone(t)'
      BY <1>0, <1>7, <2>4, <3>1, GoneNow
    <3>3. \A r \in wire : r.token # t
      BY <2>4, <3>1 DEF WireInv, Gone, GivenUp
    <3>4. \A r \in wire' : r.token \in 1..bTokens' /\ Gone(r.token)'
      BY <2>1, <2>2, <2>4, <3>2 DEF WireInv
    <3>5. \A r, s \in wire' : r.token = s.token => r = s
      BY <2>4, <3>2, <3>3 DEF WireInv
    <3> QED
      BY <3>4, <3>5 DEF WireInv
  <2>5. wire' = wire \/ ((CancelCall(p) \/ Lose(p)) /\ Shipped(p) /\ wire' = wire \cup {Late(p)})
    BY <1>7 DEF ProducerStep, StatusReply, OpenReply, SubmitReply, RecheckReply, EndReply, bridge, CancelCall, Lose, Shipped
  <2> QED
    BY <2>3, <2>4, <2>5
<1> QED
  BY <1>3, <1>4, <1>5, <1>6, <1>7 DEF Next, Served, BridgeStep, Manages

-----------------------------------------------------------------------------
(* What may still be heard comes after what was heard.                     *)

Old(s) == Rising(s) /\ Frames(s) \subseteq 1..made
OldInv ==
  /\ Old(heard) /\ \A p \in Producers : Old(queue[p]) /\ Old(batch[p])
  /\ \A r \in wire : Old(r.frames)

\* The queue of a capture is ahead of all that was taken from queues before.
Ahead(p) ==
  /\ Above(Frames(queue[p]), Frames(heard))
  /\ \A q \in Producers : Above(Frames(queue[p]), Frames(batch[q]))
  /\ \A r \in wire : Above(Frames(queue[p]), Frames(r.frames))
AheadInv == \A p \in captures : Ahead(p)

\* What the lease of the bridge may still bring is ahead of what was heard.
DueInv ==
  /\ \A p \in Producers : Shipped(p) /\ token[p] = bToken => Above(Frames(batch[p]), Frames(heard))
  /\ \A r \in wire : r.token = bToken => Above(Frames(r.frames), Frames(heard))
FrameInv == OldInv /\ AheadInv /\ DueInv

AllTyped == PcmInv /\ MicTypes
Apart == (\A p \in Producers : Alive(p) /\ Flying(p) /\ Silent(p)) /\ Distinct /\ WireInv

LEMMA Unpack == ASSUME AllTyped PROVE Typed /\ OwnerInv /\ QueueTypes /\ made \in Nat /\ captures \subseteq Producers
BY DEF AllTyped, PcmInv, MicTypes, Typed, OwnerInv, OwnerTypes, QueueTypes

LEMMA ShippedToken ==
  ASSUME Typed, NEW p \in Producers, Alive(p), Shipped(p)
  PROVE  token[p] \in 1..bTokens /\ bTokens \in Nat
<1>1. pstate[p] \in {"active", "recovering"}
  BY DEF Typed, ProducerInv, Course, Shipped
<1> QED
  BY <1>1 DEF Alive, Typed, LeaseTypes

LEMMA OldEmpty == Old(<<>>) /\ \A S : Above(Frames(<<>>), S) /\ Above(S, Frames(<<>>))
BY EmptyFrames DEF Old, Above

-----------------------------------------------------------------------------
(* Steps in which nothing is heard.                                        *)

\* The submits under way and the wire: nothing new is due.
Tame ==
  /\ heard' = heard
  /\ \A p \in Producers : batch'[p] \in {batch[p], <<>>}
  /\ \A p \in Producers : Shipped(p)' => Shipped(p) /\ batch'[p] = batch[p] /\ token'[p] = token[p]
  /\ \A r \in wire' : r \in wire \/ \E p \in Producers : Shipped(p) /\ r.frames = batch[p] /\ r.token = token[p]
  /\ bToken' \in {bToken, 0} \/ bToken' = bTokens + 1

LEMMA TameDue ==
  ASSUME AllTyped, Apart, FrameInv, Tame PROVE DueInv'
<1>0. Typed /\ bTokens \in Nat
  BY Unpack DEF Typed, LeaseTypes
<1>1. ASSUME NEW p \in Producers, Shipped(p)', token'[p] = bToken' PROVE Above(Frames(batch'[p]), Frames(heard'))
  <2>1. Shipped(p) /\ batch'[p] = batch[p] /\ token'[p] = token[p] /\ heard' = heard
    BY <1>1 DEF Tame
  <2>2. token[p] \in 1..bTokens
    BY <1>0, <2>1, ShippedToken DEF Apart
  <2>3. bToken' = bToken
    BY <1>0, <1>1, <2>1, <2>2 DEF Tame
  <2> QED
    BY <1>1, <2>1, <2>3 DEF FrameInv, DueInv
<1>2. ASSUME NEW r \in wire', r.token = bToken' PROVE Above(Frames(r.frames), Frames(heard'))
  <2>1. CASE r \in wire
    <3>1. r.token \in 1..bTokens
      BY <2>1 DEF Apart, WireInv
    <3>2. bToken' = bToken
      BY <1>0, <1>2, <3>1 DEF Tame
    <3> QED
      BY <1>2, <2>1, <3>2 DEF FrameInv, DueInv, Tame
  <2>2. ASSUME NEW p \in Producers, Shipped(p), r.frames = batch[p], r.token = token[p] PROVE Above(Frames(r.frames), Frames(heard'))
    <3>1. token[p] \in 1..bTokens
      BY <1>0, <2>2, ShippedToken DEF Apart
    <3>2. bToken' = bToken
      BY <1>0, <1>2, <2>2, <3>1 DEF Tame
    <3> QED
      BY <1>2, <2>2, <3>2 DEF FrameInv, DueInv, Tame
  <2> QED
    BY <2>1, <2>2 DEF Tame
<1>3. \A p \in Producers : Shipped(p)' /\ token'[p] = bToken' => Above(Frames(batch'[p]), Frames(heard'))
  BY <1>1
<1>4. \A r \in wire' : r.token = bToken' => Above(Frames(r.frames), Frames(heard'))
  BY <1>2
<1> QED
  BY <1>3, <1>4 DEF DueInv

LEMMA TameRest ==
  ASSUME AllTyped, FrameInv, Tame, made' = made,
         \A p \in Producers : queue'[p] \in {queue[p], <<>>},
         \A p \in captures' : p \in captures \/ queue'[p] = <<>>,
         captures' \subseteq Producers
  PROVE  OldInv' /\ AheadInv'
<1>1. \A s : Old(s) => Old(s)'
  BY DEF Old
<1>2. ASSUME NEW p \in Producers PROVE Old(queue'[p]) /\ Old(batch'[p])
  BY OldEmpty DEF Tame, FrameInv, OldInv
<1>3. ASSUME NEW r \in wire' PROVE Old(r.frames)
  BY DEF Tame, FrameInv, OldInv
<1>4. OldInv'
  <2>1. Old(heard)
    BY DEF FrameInv, OldInv
  <2>2. Old(heard)' /\ \A p \in Producers : Old(queue[p])' /\ Old(batch[p])'
    BY <1>2, <2>1 DEF Tame, Old
  <2>3. \A r \in wire' : Old(r.frames)'
    BY <1>1, <1>3
  <2> QED
    BY <2>2, <2>3 DEF OldInv
<1>5. ASSUME NEW p \in captures' PROVE Ahead(p)'
  <2>1. CASE queue'[p] = <<>>
    BY <2>1, OldEmpty DEF Ahead
  <2>2. CASE queue'[p] # <<>>
    <3>1. p \in captures /\ queue'[p] = queue[p] /\ Ahead(p)
      BY <1>5, <2>2 DEF FrameInv, AheadInv
    <3>2. \A q \in Producers : Above(Frames(queue[p]), Frames(batch'[q]))
      BY <3>1, OldEmpty DEF Ahead, Tame
    <3>3. \A r \in wire' : Above(Frames(queue[p]), Frames(r.frames))
      BY <3>1 DEF Ahead, Tame
    <3> QED
      BY <3>1, <3>2, <3>3 DEF Ahead, Tame
  <2> QED
    BY <2>1, <2>2
<1>6. AheadInv'
  BY <1>5 DEF AheadInv
<1> QED
  BY <1>4, <1>6

LEMMA TameStep ==
  ASSUME AllTyped, Apart, FrameInv, Tame, made' = made,
         \A p \in Producers : queue'[p] \in {queue[p], <<>>},
         \A p \in captures' : p \in captures \/ queue'[p] = <<>>,
         captures' \subseteq Producers
  PROVE  FrameInv'
BY TameDue, TameRest DEF FrameInv

LEMMA TameReplies ==
  ASSUME Typed, NEW p \in Producers, ProducerStep(p) \/ CancelCall(p) \/ Lose(p)
  PROVE  Tame
<1>1. heard' = heard /\ batch' = batch /\ bToken' = bToken
  BY DEF ProducerStep, StatusReply, OpenReply, SubmitReply, RecheckReply, EndReply, CancelCall, Lose, bridge, lease, call
<1>2. Elsewhere(p)
  BY Alone
<1>3. reply'[p] = NoReply => ~(phase'[p] = "submit")
  <2>1. CASE Lose(p)
    BY <2>1, NoTokens DEF Lose, Typed, LeaseTypes
  <2>2. ASSUME NEW r, Return(p, r) PROVE phase'[p] = "none"
    BY <2>2 DEF Return, Typed, ProducerInv, FieldTypes
  <2>3. ASSUME NEW w, Await(p, w) PROVE phase'[p] = w
    BY <2>3 DEF Await, Typed, ProducerInv, FieldTypes
  <2>4. CASE ProducerStep(p) \/ CancelCall(p)
    BY <2>2, <2>3, <2>4 DEF ProducerStep, StatusReply, OpenReply, SubmitReply, RecheckReply, EndReply, CancelCall, Raise,
       Recheck, Typed, ProducerInv, FieldTypes
  <2> QED
    BY <2>1, <2>4
<1>4. \A q \in Producers : Shipped(q)' => Shipped(q) /\ batch'[q] = batch[q] /\ token'[q] = token[q]
  <2>1. ~Shipped(p)'
    BY <1>3 DEF Shipped
  <2> QED
    BY <1>2, <2>1 DEF Shipped, Elsewhere
<1>5. \A r \in wire' : r \in wire \/ (Shipped(p) /\ r.frames = batch[p] /\ r.token = token[p])
  <2>1. CASE ProducerStep(p)
    BY <2>1 DEF ProducerStep, StatusReply, OpenReply, SubmitReply, RecheckReply, EndReply, bridge
  <2>2. CASE CancelCall(p) \/ Lose(p)
    BY <2>2, LateType DEF CancelCall, Lose, Shipped, Typed
  <2> QED
    BY <2>1, <2>2
<1> QED
  BY <1>1, <1>4, <1>5 DEF Tame

LEMMA TameServed ==
  ASSUME Typed, NEW p \in Producers, NEW a, Responds(p, a), heard' = heard
  PROVE  Tame
<1>1. /\ UNCHANGED <<token, batch, phase, wire>> /\ Elsewhere(p) /\ reply[p] = NoReply
      /\ (bToken' \in {bToken, 0} \/ bToken' = bTokens + 1)
  BY AloneServed DEF Responds, fields, call, Hears, Grants, Tells, Ends, lease
<1>2. \A q \in Producers : Shipped(q)' => Shipped(q)
  BY <1>1 DEF Shipped, Elsewhere
<1> QED
  BY <1>1, <1>2 DEF Tame

LEMMA TameBridge ==
  ASSUME Expire \/ CallBegins \/ CallEnds PROVE Tame
<1>1. UNCHANGED <<heard, batch, phase, reply, token, wire>> /\ bToken' \in {bToken, 0}
  BY DEF Expire, CallBegins, CallEnds, fields, call, lease
<1> QED
  BY <1>1 DEF Tame, Shipped

\* A submit that reaches the producer.
Submits(p) ==
  /\ Quiet /\ p \in captures /\ UNCHANGED <<captures, made>>
  /\ queue' = [queue EXCEPT ![p] = Rest(@)] /\ BeginSubmit(p, Front(queue[p]))
LEMMA Submitted ==
  ASSUME Typed, NEW p \in Producers, Submit(p), BeginSubmit(p, Front(queue[p]))
  PROVE  Submits(p)
<1>1. CASE UNCHANGED producerVars
  <2>1. running' = NoProducer /\ op'[p] = "none"
    BY <1>1 DEF producerVars, call, Submit, Quiet, BeginSubmit
  <2>2. running' # p
    BY <2>1, ProducersAssumption
  <2> QED
    BY <2>1, <2>2 DEF BeginSubmit, Return, Typed, ProducerInv, FieldTypes
<1>2. CASE ~UNCHANGED producerVars
  BY <1>2 DEF Submit, Submits
<1> QED
  BY <1>1, <1>2

\* Everything that a card or a command does, but such a submit.
LEMMA TameDelegated ==
  ASSUME Typed, NEW p \in Producers, Delegates(p), ~Submits(p)
  PROVE  Tame
<1>0. ~(Submit(p) /\ BeginSubmit(p, Front(queue[p])))
  BY Submitted
<1>1. UNCHANGED <<heard, token, reply, wire, bToken>> /\ Elsewhere(p)
  BY NamesDelegated, AloneDelegated
<1>2. batch'[p] \in {batch[p], <<>>}
  BY <1>0 DEF Delegates, TurnOver, Start, BeginStart, BeginStop, producerVars, call, Typed, LeaseTypes
<1>3. Shipped(p)' => Shipped(p) /\ batch'[p] = batch[p]
  BY <1>0, <1>1 DEF Shipped, Delegates, TurnOver, Start, BeginStart, BeginStop, producerVars, call, Typed, ProducerInv, FieldTypes
<1>4. \A q \in Producers : q # p => batch'[q] = batch[q] /\ (Shipped(q)' => Shipped(q))
  BY <1>1 DEF Shipped, Elsewhere
<1> QED
  BY <1>1, <1>2, <1>3, <1>4 DEF Tame

LEMMA FrameCuts ==
  ASSUME AllTyped, Apart, FrameInv, NEW p \in Producers, CommandStep(p) \/ CardStep(p), ~Record(p), ~Submits(p)
  PROVE  FrameInv'
<1>0. Typed /\ OwnerInv /\ QueueTypes /\ made \in Nat /\ captures \subseteq Producers /\ PcmInv /\ Silent(p)
  BY Unpack DEF AllTyped, Apart
<1>1. Tame
  BY <1>0, Delegated, TameDelegated
<1>2. Cuts(p) /\ made' = made
  BY <1>0, QueueSteps, Submitted DEF QueueStep
<1>3. \A q \in Producers : queue'[q] \in {queue[q], <<>>}
  BY <1>0, <1>2 DEF Cuts, QueueTypes
<1>4. captures' \subseteq captures \cup (launching \cap {p})
  <2>1. CASE StartReturns(p)
    BY <2>1 DEF StartReturns
  <2>2. CASE SubmitReturns(p) \/ StopCancelled(p) \/ Close(p) \/ Start(p) \/ LetGo(p)
    BY <2>2 DEF SubmitReturns, StopCancelled, Close, Start, LetGo, captureVars, manager
  <2>3. CASE Submit(p) \/ Stop(p) \/ Disconnect(p)
    BY <2>3 DEF Submit, Stop, Disconnect, Revoke
  <2> QED
    BY <2>1, <2>2, <2>3 DEF CommandStep, CardStep
<1>5. p \in launching => queue'[p] = <<>>
  BY <1>0, <1>3 DEF Silent
<1>6. captures' \subseteq Producers /\ \A q \in captures' : q \in captures \/ queue'[q] = <<>>
  BY <1>0, <1>4, <1>5
<1> QED
  BY <1>1, <1>2, <1>3, <1>6, TameStep

\* A new frame is ahead of everything.
LEMMA FrameRecord ==
  ASSUME AllTyped, FrameInv, NEW p \in Producers, Record(p)
  PROVE  FrameInv'
<1>f. PICK f : f = made + 1
  OBVIOUS
<1>r. PICK r : r = Recorded(queue[p], f)
  OBVIOUS
<1>0. /\ QueueTypes /\ made \in Nat /\ queue \in [Producers -> Seq(Nat)] /\ Len(queue[p]) <= MaxQueuedFrames
      /\ Queues(queue) /\ captures \subseteq Producers
  BY Unpack DEF QueueTypes, Queues
<1>1. queue' = [queue EXCEPT ![p] = r]
  BY <1>0, <1>f, <1>r, RecordTypes
<1>2. made' = f /\ f \in Nat /\ f = made + 1 /\ UNCHANGED <<heard, batch, wire, captures, phase, reply, token, bToken>>
  BY <1>0, <1>f DEF Record, producerVars, fields, call, bridge, lease, manager
<1>3. Rising(queue[p]) /\ Frames(queue[p]) \subseteq 1..made /\ \A x \in 1..made : x < f
  BY <1>0, <1>2 DEF FrameInv, OldInv, Old
<1>4. Frames(r) \subseteq Frames(queue[p]) \cup {f} /\ Rising(r)
  BY <1>0, <1>2, <1>3, <1>r, FramesRecorded
<1>5. \A s : Old(s) => Old(s)'
  BY <1>0, <1>2 DEF Old
<1>6. Old(r)'
  <2>1. 1..made \subseteq 1..f /\ f \in 1..f
    BY <1>0, <1>2
  <2> QED
    BY <1>2, <1>3, <1>4, <2>1 DEF Old
<1>7. OldInv'
  <2>1. \A q \in Producers : queue'[q] = queue[q] \/ queue'[q] = r
    BY <1>0, <1>1
  <2>2. ASSUME NEW q \in Producers PROVE Old(queue[q])'
    <3>1. CASE queue'[q] = r
      BY <1>6, <3>1 DEF Old
    <3>2. CASE queue'[q] = queue[q]
      BY <1>5, <3>2 DEF FrameInv, OldInv, Old
    <3> QED
      BY <2>1, <3>1, <3>2
  <2>3. Old(heard)' /\ (\A q \in Producers : Old(batch[q])') /\ \A x \in wire' : Old(x.frames)'
    BY <1>2, <1>5 DEF FrameInv, OldInv, Old
  <2> QED
    BY <2>2, <2>3 DEF OldInv
<1>8. ASSUME NEW S, S \subseteq 1..made, Above(Frames(queue[p]), S) PROVE Above(Frames(r), S)
  <2>1. ASSUME NEW x \in Frames(queue[p]) \cup {f}, NEW y \in S PROVE x > y
    BY <1>2, <1>3, <1>8 DEF Above
  <2> QED
    BY <1>4, <2>1 DEF Above
<1>9. ASSUME NEW q \in captures PROVE Ahead(q)'
  <2>1. Ahead(q)
    BY <1>9 DEF FrameInv, AheadInv
  <2>2. CASE q # p
    BY <1>0, <1>1, <1>2, <2>1, <2>2 DEF Ahead
  <2>3. CASE q = p
    <3>1. queue'[p] = r
      BY <1>0, <1>1
    <3>2. Above(Frames(r), Frames(heard))
      BY <1>8, <2>1, <2>3 DEF Ahead, FrameInv, OldInv, Old
    <3>3. \A x \in Producers : Above(Frames(r), Frames(batch[x]))
      BY <1>8, <2>1, <2>3 DEF Ahead, FrameInv, OldInv, Old
    <3>4. \A x \in wire : Above(Frames(r), Frames(x.frames))
      BY <1>8, <2>1, <2>3 DEF Ahead, FrameInv, OldInv, Old
    <3> QED
      BY <1>2, <2>3, <3>1, <3>2, <3>3, <3>4 DEF Ahead
  <2> QED
    BY <2>2, <2>3
<1>10. AheadInv' /\ DueInv'
  BY <1>2, <1>9 DEF AheadInv, FrameInv, DueInv, Shipped
<1> QED
  BY <1>7, <1>10 DEF FrameInv

\* The front of a queue goes under way, its rest stays ahead of it.
LEMMA FrameSubmit ==
  ASSUME AllTyped, FrameInv, NEW p \in Producers, Submits(p)
  PROVE  FrameInv'
<1>a. PICK a : a = Front(queue[p])
  OBVIOUS
<1>b. PICK b : b = Rest(queue[p])
  OBVIOUS
<1>0. Typed /\ QueueTypes /\ made \in Nat /\ queue \in [Producers -> Seq(Nat)] /\ OneCapture /\ captures \subseteq Producers
  BY Unpack DEF QueueTypes, OwnerInv
<1>1. Rising(queue[p]) /\ Frames(queue[p]) \subseteq 1..made
  BY DEF FrameInv, OldInv, Old
<1>2. /\ Frames(a) \subseteq Frames(queue[p]) /\ Frames(b) \subseteq Frames(queue[p])
      /\ Rising(a) /\ Rising(b) /\ Above(Frames(b), Frames(a))
  BY <1>0, <1>1, <1>a, <1>b, FramesApart
<1>3. /\ queue' = [queue EXCEPT ![p] = b] /\ captures' = captures /\ made' = made /\ p \in captures
      /\ UNCHANGED <<heard, token, reply, wire, bToken>>
      /\ \/ batch' = batch /\ phase' = [phase EXCEPT ![p] = "none"]
         \/ batch' = [batch EXCEPT ![p] = a] /\ phase' = [phase EXCEPT ![p] = "submit"]
  BY <1>a, <1>b DEF Submits, BeginSubmit, Return, fields, bridge, lease
<1>4. Old(a)' /\ Old(b)' /\ \A s : Old(s) => Old(s)'
  BY <1>1, <1>2, <1>3 DEF Old
<1>5. \A q \in Producers : queue'[q] = (IF q = p THEN b ELSE queue[q])
  BY <1>0, <1>3
<1>6. batch \in [Producers -> Seq(Nat)] /\ phase \in [Producers -> Requests \cup {"none"}]
  BY <1>0 DEF Typed, LeaseTypes, ProducerInv, FieldTypes
<1>7. \A q \in Producers : batch'[q] = batch[q] \/ (q = p /\ batch'[q] = a)
  BY <1>3, <1>6
<1>8. OldInv'
  <2>1. ASSUME NEW q \in Producers PROVE Old(queue[q])' /\ Old(batch[q])'
    <3>1. Old(queue[q]) /\ Old(batch[q])
      BY DEF FrameInv, OldInv
    <3> QED
      BY <1>4, <1>5, <1>7, <3>1 DEF Old
  <2>2. Old(heard)' /\ \A x \in wire' : Old(x.frames)'
    BY <1>3, <1>4 DEF FrameInv, OldInv, Old
  <2> QED
    BY <2>1, <2>2 DEF OldInv
<1>9. Ahead(p)
  BY <1>3 DEF FrameInv, AheadInv
<1>10. Ahead(p)'
  <2>1. Above(Frames(b), Frames(heard)) /\ \A x \in wire : Above(Frames(b), Frames(x.frames))
    BY <1>2, <1>9, AboveParts DEF Ahead
  <2>2. \A x \in Producers : Above(Frames(b), Frames(batch'[x]))
    BY <1>2, <1>7, <1>9, AboveParts DEF Ahead
  <2> QED
    BY <1>3, <1>5, <2>1, <2>2 DEF Ahead
<1>11. AheadInv'
  BY <1>0, <1>3, <1>10 DEF AheadInv, OneCapture, EntryCapture
<1>12. DueInv'
  <2>1. ASSUME NEW q \in Producers, Shipped(q)', token'[q] = bToken' PROVE Above(Frames(batch'[q]), Frames(heard'))
    <3>1. CASE batch'[q] = batch[q] /\ (q # p \/ phase' = [phase EXCEPT ![p] = "none"])
      <4>1. Shipped(q)
        BY <1>3, <1>6, <2>1, <3>1 DEF Shipped
      <4> QED
        BY <1>3, <2>1, <3>1, <4>1 DEF FrameInv, DueInv
    <3>2. CASE q = p /\ batch' = [batch EXCEPT ![p] = a]
      <4>1. Above(Frames(a), Frames(heard))
        BY <1>2, <1>9, AboveParts DEF Ahead
      <4> QED
        BY <1>3, <1>6, <3>2, <4>1
    <3> QED
      BY <1>3, <1>6, <1>7, <3>1, <3>2
  <2>2. \A r \in wire' : r.token = bToken' => Above(Frames(r.frames), Frames(heard'))
    BY <1>3 DEF FrameInv, DueInv
  <2> QED
    BY <2>1, <2>2 DEF DueInv
<1> QED
  BY <1>8, <1>11, <1>12 DEF FrameInv

-----------------------------------------------------------------------------
(* Steps in which the bridge hears more.                                   *)

Plays(u) ==
  /\ u \in Seq(Nat) /\ heard' = heard \o u /\ Old(u) /\ made' = made
  /\ Above(Frames(u), Frames(heard))

\* After it nothing else is due.
LEMMA FramePlays ==
  ASSUME AllTyped, FrameInv, NEW u, Plays(u), \A p \in captures : Above(Frames(queue[p]), Frames(u)),
         UNCHANGED <<queue, captures, batch>>, wire' \subseteq wire,
         \A p \in Producers : Shipped(p)' => token'[p] # bToken', \A r \in wire' : r.token # bToken'
  PROVE  FrameInv'
<1>0. heard \in Seq(Nat) /\ made \in Nat
  BY Unpack DEF Typed, LeaseTypes
<1>1. Frames(heard') \subseteq Frames(heard) \cup Frames(u) /\ Rising(heard')
  BY <1>0, FramesJoined DEF Plays, FrameInv, OldInv, Old
<1>2. \A s : Old(s) => Old(s)'
  BY DEF Plays, Old
<1>3. OldInv'
  <2>1. Old(heard)'
    BY <1>1 DEF Plays, FrameInv, OldInv, Old
  <2>2. \A p \in Producers : Old(queue[p])' /\ Old(batch[p])'
    BY <1>2 DEF FrameInv, OldInv, Old
  <2>3. \A r \in wire' : Old(r.frames)'
    BY <1>2 DEF FrameInv, OldInv
  <2> QED
    BY <2>1, <2>2, <2>3 DEF OldInv
<1>4. ASSUME NEW p \in captures PROVE Ahead(p)'
  <2>1. Ahead(p)
    BY DEF FrameInv, AheadInv
  <2>2. Above(Frames(queue[p]), Frames(heard) \cup Frames(u))
    BY <2>1, AboveBoth DEF Ahead
  <2>3. Above(Frames(queue[p]), Frames(heard'))
    BY <1>1, <2>2, AboveParts
  <2> QED
    BY <2>1, <2>3 DEF Ahead
<1>5. AheadInv' /\ DueInv'
  BY <1>4 DEF AheadInv, DueInv
<1> QED
  BY <1>3, <1>5 DEF FrameInv

\* A submit that is answered: what is heard of it is new.
LEMMA ServedPlays ==
  ASSUME Typed, NEW p \in Producers, NEW a, Responds(p, a), made' = made, FrameInv,
         NEW u, phase[p] = "submit", Hears(p, u, a), u # <<>>
  PROVE  Plays(u) /\ token[p] = bToken /\ Shipped(p) /\ Frames(u) \subseteq Frames(batch[p])
<1>0. batch[p] \in Seq(Nat)
  BY DEF Typed, LeaseTypes
<1>1. Shipped(p) /\ token[p] = bToken
  BY LateType DEF Responds, Hears, Shipped, Accepts, Typed
<1>2. Old(batch[p]) /\ Above(Frames(batch[p]), Frames(heard))
  BY <1>1 DEF FrameInv, OldInv, DueInv
<1>3. Frames(u) \subseteq Frames(batch[p]) /\ Rising(u) /\ u \in Seq(Nat) /\ heard' = heard \o u
  BY <1>0, <1>2, FramesPart DEF Hears, PartOf, Old
<1>4. Above(Frames(u), Frames(heard))
  BY <1>2, <1>3, AboveParts
<1> QED
  BY <1>1, <1>2, <1>3, <1>4 DEF Plays, Old

LEMMA FrameServed ==
  ASSUME AllTyped, Apart, FrameInv, NEW p \in Producers, NEW a, Responds(p, a), UNCHANGED captureVars
  PROVE  FrameInv'
<1>0. Typed /\ captures \subseteq Producers /\ UNCHANGED <<queue, captures, made>>
  BY Unpack DEF captureVars, manager, cards
<1>1. CASE heard' = heard
  BY <1>0, <1>1, TameServed, TameStep
<1>2. CASE heard' # heard
  <2>1. PICK u : phase[p] = "submit" /\ Hears(p, u, a)
    BY <1>2 DEF Responds
  <2>2. u # <<>>
    BY <1>0, <1>2, <2>1, HearsNothing DEF Hears, Typed, LeaseTypes
  <2>3. Plays(u) /\ token[p] = bToken /\ Shipped(p) /\ Frames(u) \subseteq Frames(batch[p])
    BY <1>0, <2>1, <2>2, ServedPlays
  <2>4. \A q \in captures : Above(Frames(queue[q]), Frames(u))
    <3>1. ASSUME NEW q \in captures PROVE Above(Frames(queue[q]), Frames(u))
      <4>1. Above(Frames(queue[q]), Frames(batch[p]))
        BY DEF FrameInv, AheadInv, Ahead
      <4> QED
        BY <2>3, <4>1, AboveParts
    <3> QED
      BY <3>1
  <2>5. token[p] # 0
    BY <1>0, <2>3, ShippedToken DEF Apart
  <2>6. /\ UNCHANGED <<token, batch, phase, wire, bToken>> /\ Elsewhere(p) /\ reply'[p] = a /\ a # NoReply
    BY <1>0, <2>1, AloneServed, NamesServed, NoTokens DEF Responds, Hears, fields, call
  <2>7. ASSUME NEW q \in Producers, Shipped(q)' PROVE token'[q] # bToken'
    <3>1. q # p
      BY <2>6, <2>7 DEF Shipped
    <3>2. Names(p) \cap Names(q) = {}
      BY <3>1 DEF Apart, Distinct
    <3> QED
      BY <2>3, <2>5, <2>6, <3>2 DEF Names
  <2>8. ASSUME NEW r \in wire' PROVE r.token # bToken'
    <3>1. Gone(r.token)
      BY <2>6, <2>8 DEF Apart, WireInv
    <3>2. CASE token[p] = r.token
      BY <2>3, <3>1, <3>2 DEF Gone, GivenUp
    <3> QED
      BY <2>3, <2>6, <3>2
  <2> QED
    BY <1>0, <2>3, <2>4, <2>6, <2>7, <2>8, FramePlays
<1> QED
  BY <1>1, <1>2

\* The steps of Arrive.
Comes(r) ==
  /\ r \in wire /\ wire' = wire \ {r}
  /\ UNCHANGED <<token, batch, phase, reply, bToken, bTokens>>
  /\ \/ heard' = heard
     \/ r.token = bToken /\ heard' = heard \o r.frames
LEMMA Arrives == ASSUME Arrive PROVE \E r : Comes(r)
<1>1. PICK r \in wire :
         /\ wire' = wire \ {r}
         /\ IF Accepts(r) THEN heard' = heard \o r.frames /\ bNext' = bNext + Len(r.frames)
                          ELSE UNCHANGED <<heard, bNext>>
  BY DEF Arrive
<1>2. heard' = heard \/ (r.token = bToken /\ heard' = heard \o r.frames)
  BY <1>1 DEF Accepts
<1>3. Comes(r)
  BY <1>1, <1>2 DEF Arrive, Comes, fields, call
<1> QED
  BY <1>3

LEMMA ArrivedPlays ==
  ASSUME Typed, NEW r, Comes(r), r.token = bToken, heard' = heard \o r.frames, made' = made, FrameInv
  PROVE  Plays(r.frames)
BY DEF Typed, LeaseTypes, Lates, Comes, Plays, FrameInv, OldInv, DueInv

LEMMA FrameArrives ==
  ASSUME AllTyped, Apart, FrameInv, Arrive, UNCHANGED captureVars
  PROVE  FrameInv'
<1>0. Typed /\ captures \subseteq Producers /\ UNCHANGED <<queue, captures, made>>
  BY Unpack DEF captureVars, manager, cards
<1>1. PICK r : Comes(r)
  BY Arrives
<1>2. CASE heard' = heard
  <2>1. Tame
    BY <1>1, <1>2 DEF Comes, Tame, Shipped
  <2> QED
    BY <1>0, <2>1, TameStep
<1>3. CASE r.token = bToken /\ heard' = heard \o r.frames
  <2>1. Plays(r.frames)
    BY <1>0, <1>1, <1>3, ArrivedPlays
  <2>2. \A q \in captures : Above(Frames(queue[q]), Frames(r.frames))
    BY <1>1 DEF FrameInv, AheadInv, Ahead, Comes
  <2>3. Gone(r.token) /\ \A s \in wire : s.token = r.token => s = r
    BY <1>1 DEF Apart, WireInv, Comes
  <2>4. \A p \in Producers : Shipped(p)' => token'[p] # bToken'
    BY <1>1, <1>3, <2>3 DEF Gone, GivenUp, Shipped, Comes
  <2>5. \A s \in wire' : s.token # bToken'
    BY <1>1, <1>3, <2>3 DEF Comes
  <2>6. UNCHANGED <<queue, captures, batch>> /\ wire' \subseteq wire
    BY <1>0, <1>1 DEF Comes
  <2> QED
    BY <2>1, <2>2, <2>4, <2>5, <2>6, FramePlays
<1> QED
  BY <1>1, <1>2, <1>3 DEF Comes

LEMMA FrameStep ==
  ASSUME AllTyped, Apart, FrameInv, [Next]_vars
  PROVE  FrameInv'
<1>0. Typed /\ captures \subseteq Producers
  BY Unpack
<1>1. CASE UNCHANGED vars \/ Manages
  <2>1. UNCHANGED <<producerVars, cards>> /\ captures' \subseteq captures
    BY <1>1, Managed DEF vars, captureVars, manager, Manages, Poll, Reconcile, Hangup, ReleaseCall, ReleaseEntry, Admit, Revoke
  <2>2. Tame /\ made' = made /\ queue' = queue
    BY <2>1 DEF Tame, Shipped, producerVars, fields, call, bridge, lease, cards
  <2> QED
    BY <1>0, <2>1, <2>2, TameStep
<1>2. ASSUME NEW p \in Producers, CommandStep(p) \/ CardStep(p) PROVE FrameInv'
  BY <1>2, FrameCuts, FrameRecord, FrameSubmit
<1>3. ASSUME NEW p \in Producers, Serve(p), UNCHANGED captureVars PROVE FrameInv'
  <2>1. PICK a : Responds(p, a)
    BY <1>0, <1>3, Serves DEF Typed
  <2> QED
    BY <1>3, <2>1, FrameServed
<1>4. ASSUME Tame, UNCHANGED captureVars PROVE FrameInv'
  <2>1. captures' = captures /\ queue' = queue /\ made' = made
    BY <1>4 DEF captureVars, manager, cards
  <2> QED
    BY <1>0, <1>4, <2>1, TameStep
<1>5. ASSUME NEW p \in Producers, ProducerStep(p) \/ CancelCall(p) \/ Lose(p), UNCHANGED captureVars PROVE FrameInv'
  BY <1>0, <1>4, <1>5, TameReplies
<1>6. CASE (Expire \/ CallBegins \/ CallEnds) /\ UNCHANGED captureVars
  BY <1>4, <1>6, TameBridge
<1> QED
  BY <1>1, <1>2, <1>3, <1>5, <1>6, FrameArrives DEF Next, Served, BridgeStep, Manages

-----------------------------------------------------------------------------
(* Every step is one of PcmDelivery.                                       *)

LEMMA Slice ==
  ASSUME NEW c \in Seq(Nat), NEW k \in Int, NEW l \in Int, 1 <= k, l <= Len(c)
  PROVE  /\ SubSeq(c, k, l) \in Seq(Nat)
         /\ Len(SubSeq(c, k, l)) = IF k <= l THEN l - k + 1 ELSE 0
         /\ \A i \in 1..(l - k + 1) : SubSeq(c, k, l)[i] = c[k + i - 1]
<1>1. Len(c) \in Nat /\ \A i \in 1..Len(c) : c[i] \in Nat
  BY LenProperties
<1>2. \A i \in k..l : c[i] \in Nat
  BY <1>1
<1> QED
  BY <1>2, SubSeqProperties

LEMMA JoinedAgain ==
  ASSUME NEW s \in Seq(Nat), NEW t \in Seq(Nat), NEW c, c = s \o t
  PROVE  SubSeq(c, 1, Len(s)) = s /\ SubSeq(c, Len(s) + 1, Len(c)) = t
<1> DEFINE n == Len(s)
           m == Len(t)
           x == SubSeq(c, 1, n)
           l == n + m
           k == n + 1
           y == SubSeq(c, k, l)
<1>1. /\ c \in Seq(Nat) /\ n \in Nat /\ m \in Nat /\ Len(c) = n + m
      /\ \A i \in 1..(n + m) : c[i] = IF i <= n THEN s[i] ELSE t[i - n]
  BY HeardTypes
<1>3. x \in Seq(Nat) /\ Len(x) = n /\ \A i \in 1..n : x[i] = s[i]
  <2> HIDE DEF n, m
  <2>1. 1 \in Int /\ n \in Int /\ n <= Len(c)
    BY <1>1
  <2>a. /\ SubSeq(c, 1, n) \in Seq(Nat)
        /\ Len(SubSeq(c, 1, n)) = IF 1 <= n THEN n - 1 + 1 ELSE 0
        /\ \A i \in 1..(n - 1 + 1) : SubSeq(c, 1, n)[i] = c[1 + i - 1]
    BY <1>1, <2>1, Slice
  <2>2. /\ x \in Seq(Nat) /\ Len(x) = IF 1 <= n THEN n - 1 + 1 ELSE 0
        /\ \A i \in 1..(n - 1 + 1) : x[i] = c[1 + i - 1]
    BY <2>a
  <2> HIDE DEF x
  <2>3. \A i \in 1..n : i \in 1..(n - 1 + 1) /\ 1 + i - 1 = i /\ i \in 1..(n + m) /\ i <= n
    BY <1>1
  <2>4. \A i \in 1..n : x[i] = s[i]
    BY <1>1, <2>2, <2>3
  <2>5. Len(x) = n
    BY <1>1, <2>2
  <2> QED
    BY <2>2, <2>4, <2>5
<1>4. y \in Seq(Nat) /\ Len(y) = m /\ \A i \in 1..m : y[i] = t[i]
  <2> HIDE DEF n, m
  <2>1. k \in Int /\ l \in Int /\ 1 <= k /\ l <= Len(c)
    BY <1>1
  <2> HIDE DEF k, l
  <2>a. /\ SubSeq(c, k, l) \in Seq(Nat)
        /\ Len(SubSeq(c, k, l)) = IF k <= l THEN l - k + 1 ELSE 0
        /\ \A i \in 1..(l - k + 1) : SubSeq(c, k, l)[i] = c[k + i - 1]
    BY <1>1, <2>1, Slice
  <2>2. /\ y \in Seq(Nat) /\ Len(y) = IF k <= l THEN l - k + 1 ELSE 0
        /\ \A i \in 1..(l - k + 1) : y[i] = c[k + i - 1]
    BY <2>a
  <2> HIDE DEF y
  <2>3. ASSUME NEW i \in 1..m PROVE y[i] = t[i]
    <3>1. i \in 1..(l - k + 1) /\ k + i - 1 = n + i
      BY <1>1 DEF k, l
    <3>2. n + i \in 1..(n + m) /\ ~(n + i <= n) /\ (n + i) - n = i
      BY <1>1
    <3>3. c[n + i] = t[(n + i) - n]
      BY <1>1, <3>2
    <3> QED
      BY <2>2, <3>1, <3>2, <3>3
  <2>5. Len(y) = m
    BY <1>1, <2>2 DEF k, l
  <2> QED
    BY <2>2, <2>3, <2>5
<1> HIDE DEF x, y
<1>5. x = s
  BY <1>1, <1>3, SeqEqual
<1>6. y = t
  BY <1>1, <1>4, SeqEqual
<1> QED
  BY <1>1, <1>5, <1>6 DEF x, y, k, l

LEMMA PlayStep ==
  ASSUME heard \in Seq(Nat), made \in Nat, NEW u, Plays(u), u # <<>>, Old(heard)
  PROVE  Delivery!Play
<1>1. /\ u \in Seq(Nat) /\ heard' = heard \o u /\ made' = made
      /\ Rising(u) /\ Frames(u) \subseteq 1..made /\ Above(Frames(u), Frames(heard))
  BY DEF Plays, Old
<1>2. /\ Len(heard') = Len(heard) + Len(u) /\ Len(heard) \in Nat /\ Len(u) \in Nat /\ heard' \in Seq(Nat)
      /\ DOMAIN heard = 1..Len(heard) /\ DOMAIN u = 1..Len(u) /\ DOMAIN heard' = 1..Len(heard')
  BY <1>1, HeardTypes
<1>3. Len(heard') > Len(heard)
  <2>1. Len(u) # 0
    BY <1>1, EmptySeq
  <2> QED
    BY <1>2, <2>1
<1>4. SubSeq(heard', 1, Len(heard)) = heard /\ SubSeq(heard', Len(heard) + 1, Len(heard')) = u
  BY <1>1, JoinedAgain
<1>5. Delivery!Later(u, Delivery!Newest)
  <2>1. \A i, j \in 1..Len(u) : i < j => u[i] < u[j]
    BY <1>1, <1>2 DEF Rising
  <2>2. ASSUME NEW i \in 1..Len(u) PROVE u[i] > Delivery!Newest
    <3>1. u[i] \in Frames(u)
      BY <1>2 DEF Frames
    <3>2. CASE heard = <<>>
      BY <1>1, <3>1, <3>2 DEF Delivery!Newest
    <3>3. CASE heard # <<>>
      <4>1. Len(heard) # 0
        BY <3>3, EmptySeq
      <4>3. Len(heard) \in DOMAIN heard
        BY <1>2, <4>1
      <4>2. heard[Len(heard)] \in Frames(heard)
        BY <4>3 DEF Frames
      <4> QED
        BY <1>1, <3>1, <3>3, <4>2 DEF Delivery!Newest, Above
    <3> QED
      BY <3>2, <3>3
  <2> QED
    BY <2>1, <2>2 DEF Delivery!Later
<1>6. \A i \in 1..Len(heard') : heard'[i] <= made
  <2>1. Frames(heard') \subseteq Frames(heard) \cup Frames(u)
    BY <1>1, FramesJoined DEF Old
  <2>2. \A i \in 1..Len(heard') : heard'[i] \in 1..made
    BY <1>1, <1>2, <2>1 DEF Old, Frames
  <2> QED
    BY <2>2
<1> QED
  BY <1>1, <1>3, <1>4, <1>5, <1>6 DEF Delivery!Play

\* A frame is made, or more is heard.
LEMMA Moves ==
  ASSUME AllTyped, Apart, FrameInv, [Next]_vars
  PROVE  (heard' = heard /\ made' \in {made, made + 1}) \/ \E u : Plays(u)
<1>0. Typed /\ QueueTypes
  BY Unpack
<1>1. CASE UNCHANGED vars \/ Manages
  <2>1. UNCHANGED <<producerVars, cards>>
    BY <1>1, Managed DEF vars, captureVars, Manages, Poll, Reconcile, Hangup, ReleaseCall, ReleaseEntry, Admit
  <2> QED
    BY <2>1 DEF producerVars, bridge, cards
<1>2. ASSUME NEW p \in Producers, CommandStep(p) \/ CardStep(p) PROVE heard' = heard /\ made' \in {made, made + 1}
  <2>1. heard' = heard
    BY <1>0, <1>2, Delegated, NamesDelegated DEF AllTyped
  <2>2. made' \in {made, made + 1}
    BY <1>0, <1>2, QueueSteps DEF QueueStep, Record
  <2> QED
    BY <2>1, <2>2
<1>3. ASSUME UNCHANGED captureVars PROVE made' = made
  BY <1>3 DEF captureVars, cards
<1>4. ASSUME NEW p \in Producers, Serve(p), UNCHANGED captureVars PROVE heard' = heard \/ \E u : Plays(u)
  <2>1. PICK a : Responds(p, a)
    BY <1>0, <1>4, Serves DEF Typed
  <2>2. CASE heard' # heard
    <3>1. PICK u : phase[p] = "submit" /\ Hears(p, u, a)
      BY <2>1, <2>2 DEF Responds
    <3>2. u # <<>>
      BY <1>0, <2>2, <3>1, HearsNothing DEF Hears, Typed, LeaseTypes
    <3> QED
      BY <1>0, <1>3, <1>4, <2>1, <3>1, <3>2, ServedPlays
  <2> QED
    BY <2>2
<1>5. ASSUME NEW p \in Producers, ProducerStep(p) \/ CancelCall(p) \/ Lose(p) PROVE heard' = heard
  BY <1>0, <1>5, TameReplies DEF Tame
<1>7. CASE Arrive /\ UNCHANGED captureVars
  <2>1. PICK r : Comes(r)
    BY <1>7, Arrives
  <2> QED
    BY <1>0, <1>3, <1>7, <2>1, ArrivedPlays DEF Comes
<1>8. ASSUME UNCHANGED captureVars, heard' = heard PROVE heard' = heard /\ made' \in {made, made + 1}
  BY <1>3, <1>8
<1>9. ASSUME NEW p \in Producers, Served(p) PROVE UNCHANGED captureVars /\ (heard' = heard \/ \E u : Plays(u))
  BY <1>4, <1>5, <1>9 DEF Served
<1>10. CASE BridgeStep /\ UNCHANGED captureVars
  <2>1. CASE Expire \/ CallBegins \/ CallEnds
    BY <1>8, <1>10, <2>1, TameBridge DEF Tame
  <2>2. CASE \E p \in Producers : Lose(p) \/ CancelCall(p)
    BY <1>5, <1>8, <1>10, <2>2
  <2> QED
    BY <1>7, <1>10, <2>1, <2>2 DEF BridgeStep
<1> QED
  BY <1>1, <1>2, <1>8, <1>9, <1>10 DEF Next, Manages

LEMMA DeliveryStep ==
  ASSUME AllTyped, Apart, FrameInv, [Next]_vars
  PROVE  [Delivery!Capture \/ Delivery!Play]_(Delivery!delivery)
<1>0. heard \in Seq(Nat) /\ made \in Nat /\ Old(heard)
  BY Unpack DEF Typed, LeaseTypes, FrameInv, OldInv
<1>1. CASE heard' = heard /\ made' \in {made, made + 1}
  BY <1>1 DEF Delivery!Capture, Delivery!delivery
<1>2. ASSUME NEW u, Plays(u) PROVE Delivery!Play \/ UNCHANGED Delivery!delivery
  <2>1. CASE u = <<>>
    <3>1. heard' = heard /\ made' = made
      BY <1>0, <1>2, <2>1, HearsNothing DEF Plays
    <3> QED
      BY <3>1 DEF Delivery!delivery
  <2>2. CASE u # <<>>
    BY <1>0, <1>2, <2>2, PlayStep
  <2> QED
    BY <2>1, <2>2
<1> QED
  BY <1>1, <1>2, Moves

-----------------------------------------------------------------------------
(* The inductive invariant and what follows from it.                       *)

MicInv ==
  /\ AllTyped /\ Apart /\ FrameInv /\ LeaseInv /\ NumberInv
  /\ \A p \in Producers : Kept(p)

LEMMA MicInitially == Init => MicInv
<1> SUFFICES ASSUME Init PROVE MicInv
  OBVIOUS
<1>1. AllTyped
  BY Initially, TypesInitially DEF AllTyped
<1>2. Len(<<>>) = 0 /\ Frames(<<>>) = {} /\ Rising(<<>>) /\ 0 <= MaxSequence /\ NoReply.token = 0 /\ NoReply.next = 0
  BY EmptySeq, EmptyFrames, LimitsAssumption DEF NoReply
<1>3. /\ wire = {} /\ bToken = 0 /\ bTokens = 0 /\ bNext = 0 /\ heard = <<>> /\ made = 0 /\ captures = {} /\ launching = {}
      /\ \A p \in Producers :
           /\ pstate[p] = "idle" /\ token[p] = 0 /\ sequence[p] = 0 /\ op[p] = "none" /\ phase[p] = "none"
           /\ reply[p] = NoReply /\ result[p] = "none" /\ card[p] = "off" /\ queue[p] = <<>> /\ batch[p] = <<>>
  BY DEF Init, ProducerInit
<1>4. \A p \in Producers : Alive(p) /\ Flying(p) /\ Silent(p) /\ Kept(p) /\ Numbered(p) /\ ~Shipped(p)
  <2>1. TAKE p \in Producers
  <2>2. Alive(p)
    BY <1>2, <1>3 DEF Alive
  <2>3. Flying(p) /\ Silent(p) /\ Kept(p) /\ ~Shipped(p)
    BY <1>3 DEF Flying, Silent, Kept, Shipped
  <2>4. Numbered(p)
    BY <1>2, <1>3 DEF Numbered
  <2> QED
    BY <2>2, <2>3, <2>4
<1>5. Distinct /\ WireInv /\ NumberInv /\ LeaseInv
  BY <1>2, <1>3, <1>4 DEF Distinct, Names, WireInv, NumberInv, LeaseInv, Certain, Holds
<1>6. FrameInv
  <2>1. Old(<<>>)
    BY <1>2 DEF Old
  <2>2. OldInv
    BY <1>3, <2>1 DEF OldInv
  <2> QED
    BY <1>3, <1>4, <2>2 DEF FrameInv, AheadInv, DueInv
<1> QED
  BY <1>1, <1>4, <1>5, <1>6 DEF MicInv, Apart

LEMMA MicStep == MicInv /\ [Next]_vars => MicInv'
<1> SUFFICES ASSUME MicInv, [Next]_vars PROVE MicInv'
  OBVIOUS
<1>1. PcmInv /\ MicTypes /\ LeaseTypes /\ QueueTypes /\ Distinct /\ WireInv /\ LeaseInv /\ NumberInv /\ FrameInv /\ AllTyped /\ Apart
  BY DEF MicInv, AllTyped, MicTypes, Apart
<1>2. (\A p \in Producers : Alive(p)) /\ (\A p \in Producers : Flying(p)) /\ (\A p \in Producers : Silent(p))
      /\ (\A p \in Producers : Kept(p)) /\ \A p \in Producers : Flying(p) /\ Alive(p)
  BY DEF MicInv, Apart
<1>3. PcmInv' /\ LeaseTypes' /\ QueueTypes'
  BY <1>1, Inductive, LeaseTypesStep, QueueTypesStep
<1>4. AllTyped'
  BY <1>3 DEF AllTyped, MicTypes
<1>5. (\A p \in Producers : Alive(p)') /\ (\A p \in Producers : Flying(p)') /\ \A p \in Producers : Silent(p)'
  BY <1>1, <1>2, AliveStep, FlyingStep, SilentStep
<1>6. Distinct' /\ WireInv'
  BY <1>1, <1>2, DistinctStep, WireStep
<1>7. Apart'
  BY <1>5, <1>6 DEF Apart
<1>8. LeaseInv' /\ NumberInv' /\ FrameInv' /\ \A p \in Producers : Kept(p)'
  BY <1>1, <1>2, LeaseStep, NumberStep, FrameStep, KeptStep
<1> QED
  BY <1>4, <1>7, <1>8 DEF MicInv

\* The producers, the manager, the cards and the bridge keep MicInv, whatever fails, for
\* any number of captures, cards, calls and leases.
THEOREM Invariant == Spec => []MicInv
BY MicInitially, MicStep, PTL DEF Spec

\* Every field keeps its type; a queue of the card never exceeds its limit, and no sequence
\* number the limit of the protocol (pcm.py, websocket.py, audio-stream.mjs).
THEOREM TypeCorrect == Spec => []TypeOK
<1>1. MicInv => TypeOK
  <2> SUFFICES ASSUME MicInv PROVE TypeOK
    OBVIOUS
  <2>1. FieldTypes /\ OwnerTypes /\ LeaseTypes /\ QueueTypes /\ running \in Producers \cup {NoProducer}
    BY DEF MicInv, AllTyped, PcmInv, MicTypes, ProducerInv, OwnerInv
  <2>2. sequence \in [Producers -> 0..MaxSequence]
    <3>1. \A p \in Producers : sequence[p] \in Nat /\ sequence[p] <= MaxSequence
      BY <2>1 DEF LeaseTypes, MicInv, NumberInv, Numbered
    <3>2. \A i \in Nat : i <= MaxSequence => i \in 0..MaxSequence
      BY NoNumbers
    <3>3. \A p \in Producers : sequence[p] \in 0..MaxSequence
      BY <3>1, <3>2
    <3> QED
      BY <2>1, <3>3 DEF LeaseTypes
  <2> QED
    BY <2>1, <2>2 DEF TypeOK, FieldTypes, OwnerTypes, LeaseTypes, QueueTypes
<1> QED
  BY <1>1, Invariant, PTL

\* While no request is in doubt the lease of the bridge has an owner who will end it: a
\* capture, a start command, a producer that stops, or an answer on its way (pcm.py 328-332).
THEOREM LeaseHasOwner == Spec => []LeaseOwned
<1>1. MicInv => LeaseOwned
  <2> SUFFICES ASSUME MicInv, Certain PROVE \E p \in Producers : \/ token[p] = bToken /\ p \in captures \cup closing \cup launching
                                                                 \/ token[p] = bToken /\ op[p] = "stop"
                                                                 \/ reply[p].token = bToken
    BY DEF LeaseOwned, Certain
  <2>1. PICK p \in Producers : Has(p)
    BY DEF MicInv, LeaseInv
  <2>2. CASE token[p] = bToken
    <3>1. pstate[p] # "idle"
      BY <2>2 DEF MicInv, Apart, Alive, Certain
    <3> QED
      BY <2>2, <3>1 DEF MicInv, Kept
  <2> QED
    BY <2>1, <2>2 DEF Has
<1> QED
  BY <1>1, Invariant, PTL

\* The microphone path implements PcmDelivery: what the bridge accepts is what was captured,
\* in that order and no frame twice, although a submit that was given up may arrive later.
THEOREM PlayedInOrder == Spec => Delivered
<1>1. Init => Delivery!Init
  BY DEF Init, ProducerInit, Delivery!Init
<1>2. MicInv /\ [Next]_vars => [Delivery!Capture \/ Delivery!Play]_(Delivery!delivery)
  BY DeliveryStep DEF MicInv
<1> QED
  BY <1>1, <1>2, Invariant, PTL DEF Spec, Delivered, Delivery!Spec
=============================================================================
