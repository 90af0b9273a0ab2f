---------------------------- MODULE PcmCapture -----------------------------
(***************************************************************************)
(* The microphone of one config entry from the browser to the bridge: the  *)
(* card's batch sender (audio-stream.mjs), the start, submit and stop      *)
(* commands with the ownership of captures (PcmWebSocketManager,           *)
(* websocket.py), and the producers of PcmProducer.  A producer, the start *)
(* command that made it and the card that asked for it share one identity. *)
(***************************************************************************)
EXTENDS PcmProducer

CONSTANTS
  MaxQueuedFrames,   \* 5 in the card
  MaxBatchFrames,    \* 5 in the card and in the producer
  MaxFrames          \* bound of a run: frames captured in all

ASSUME QueueAssumption == {MaxQueuedFrames, MaxBatchFrames} \subseteq Nat \ {0} /\ MaxFrames \in Nat

VARIABLES
  \* the manager: is the entry admitted, the start command that holds the reservation,
  \* start commands under way, those in _pending_cleanups with a marker of a released
  \* call, the captures, the one of the entry, producers that a task is to stop
  admission, starting, launching, pending, marker, captures, byEntry, closing,
  \* the cards: what they do, their queues, a submit under way, the frames made so far
  card, queue, flight, made,
  \* the status observation in progress, hangups accepted by the bridge, and who was there
  \* when the audio of a call was released
  seen, hanging, released

manager == <<admission, starting, launching, pending, marker, captures, byEntry, closing>>
cards == <<card, queue, flight, made>>
observed == <<seen, hanging, released>>
captureVars == <<manager, cards, observed>>
vars == <<producerVars, captureVars>>

Unseen == -1

Init ==
  /\ ProducerInit
  /\ admission = TRUE /\ starting = NoProducer /\ launching = {} /\ pending = {}
  /\ marker = [p \in Producers |-> 0] /\ captures = {} /\ byEntry = NoProducer /\ closing = {}
  /\ card = [p \in Producers |-> "off"] /\ queue = [p \in Producers |-> <<>>]
  /\ flight = [p \in Producers |-> FALSE] /\ made = 0
  /\ seen = Unseen /\ hanging = {} /\ released = {}

-----------------------------------------------------------------------------
(* Revocation: of start commands under way, and of captures.               *)

\* Start commands S and captures C lose what they own; the producers of C are stopped.
Revoke(S, C) ==
  /\ pending' = pending \ S
  /\ starting' = IF starting \in S THEN NoProducer ELSE starting
  /\ captures' = captures \ C
  /\ byEntry' = IF byEntry \in C THEN NoProducer ELSE byEntry
  /\ closing' = closing \cup (C \cap captures)
EntryCapture == {byEntry} \ {NoProducer}

-----------------------------------------------------------------------------
(* start                                                                   *)

\* The card asks for a capture, of a certain call or of the present one.
Start(p) ==
  /\ Quiet /\ card[p] = "off"
  /\ admission /\ byEntry = NoProducer /\ starting = NoProducer
  /\ card' = [card EXCEPT ![p] = "starting"]
  /\ \E g \in {0, bCall} : expected' = [expected EXCEPT ![p] = g]
  /\ starting' = p /\ pending' = pending \cup {p} /\ launching' = launching \cup {p}
  /\ BeginStart(p)
  /\ UNCHANGED <<admission, marker, captures, byEntry, closing, queue, flight, made, observed>>

\* Nothing revoked the command while the producer opened its lease.
AnyReservation(p) == TRUE
Reserved(p) == starting = p
Unmarked(p) == marker[p] = 0 \/ identity[p] \notin {0, marker[p]}
Publishable(p) == result[p] = "ok" /\ Reserved(p) /\ admission /\ Unmarked(p)

KeepUnpublished(p) == UNCHANGED closing
StopUnpublished(p) == closing' = closing \cup {p}
StartReturns(p) ==
  /\ running = p /\ p \in launching
  /\ running' = NoProducer /\ result' = [result EXCEPT ![p] = "none"]
  /\ local' = [local EXCEPT ![p] = 0]
  /\ launching' = launching \ {p} /\ pending' = pending \ {p}
  /\ starting' = IF starting = p THEN NoProducer ELSE starting
  /\ \/ /\ Publishable(p)
        /\ captures' = captures \cup {p} /\ byEntry' = p
        /\ card' = [card EXCEPT ![p] = IF @ = "starting" THEN "talking" ELSE @]
        /\ UNCHANGED <<closing, queue>>
     \/ /\ ~Publishable(p)
        /\ StopUnpublished(p)
        /\ card' = [card EXCEPT ![p] = IF result[p] = "cancelled" THEN @ ELSE "closed"]
        /\ queue' = [queue EXCEPT ![p] = <<>>]
        /\ UNCHANGED <<captures, byEntry>>
  /\ UNCHANGED <<fields, expected, op, phase, batch, after, reply, bridge, doubt, errors,
                 cancels, admission, marker, flight, made, observed>>

-----------------------------------------------------------------------------
(* submit, from the card's queue                                           *)

\* A frame of the worklet; the oldest one that was not sent makes room.
Newest(q) == SubSeq(q, Len(q) - MaxQueuedFrames + 1, Len(q))
Record(p) ==
  /\ Quiet /\ card[p] = "talking" /\ made < MaxFrames
  /\ made' = made + 1
  /\ queue' = [queue EXCEPT ![p] =
       IF Len(@) = MaxQueuedFrames THEN Newest(Append(@, made + 1)) ELSE Append(@, made + 1)]
  /\ UNCHANGED <<producerVars, manager, card, flight, observed>>

Front(q) == SubSeq(q, 1, IF Len(q) < MaxBatchFrames THEN Len(q) ELSE MaxBatchFrames)
Rest(q) == SubSeq(q, Len(Front(q)) + 1, Len(q))

\* One batch at a time.  A capture that was invalidated is not found, and the card stops.
Submit(p) ==
  /\ Quiet /\ card[p] = "talking" /\ ~flight[p] /\ queue[p] # <<>>
  /\ \/ /\ p \in captures /\ admission
        /\ queue' = [queue EXCEPT ![p] = Rest(@)]
        /\ flight' = [flight EXCEPT ![p] = TRUE]
        /\ BeginSubmit(p, Front(queue[p]))
        /\ UNCHANGED <<card, captures, byEntry, closing>>
     \/ /\ ~(p \in captures /\ admission)
        /\ card' = [card EXCEPT ![p] = "closed"] /\ queue' = [queue EXCEPT ![p] = <<>>]
        /\ captures' = captures \ {p}
        /\ byEntry' = IF byEntry = p THEN NoProducer ELSE byEntry
        /\ closing' = closing \cup ({p} \cap captures)
        /\ UNCHANGED <<flight, producerVars>>
  /\ UNCHANGED <<admission, starting, launching, pending, marker, made, observed>>

\* The frames of a batch are never sent again, whatever became of them.
UnsentAgain(p) == IF result[p] = "outcome" THEN batch[p] \o queue[p] ELSE queue[p]
Unsent(p) == queue[p]

\* The result goes to the card; an error releases the capture and stops the card.  After
\* a cancellation nobody answers and the capture stays.
SubmitReturns(p) ==
  /\ running = p /\ p \notin launching /\ flight[p]
  /\ running' = NoProducer /\ result' = [result EXCEPT ![p] = "none"]
  /\ batch' = [batch EXCEPT ![p] = <<>>] /\ local' = [local EXCEPT ![p] = 0]
  /\ after' = [after EXCEPT ![p] = "outcome"]
  /\ flight' = [flight EXCEPT ![p] = (result[p] = "cancelled")]
  /\ \/ /\ result[p] = "outcome" /\ p \in captures /\ admission
        /\ queue' = [queue EXCEPT ![p] = IF card[p] = "talking" THEN Unsent(p) ELSE <<>>]
        /\ UNCHANGED <<card, captures, byEntry, closing>>
     \/ /\ result[p] = "cancelled"
        /\ UNCHANGED <<card, queue, captures, byEntry, closing>>
     \/ /\ result[p] # "cancelled" /\ ~(result[p] = "outcome" /\ p \in captures /\ admission)
        /\ card' = [card EXCEPT ![p] = "closed"] /\ queue' = [queue EXCEPT ![p] = <<>>]
        /\ captures' = captures \ {p}
        /\ byEntry' = IF byEntry = p THEN NoProducer ELSE byEntry
        /\ closing' = closing \cup ({p} \cap captures)
  /\ UNCHANGED <<fields, expected, op, phase, reply, bridge, doubt, errors, cancels,
                 admission, starting, launching, pending, marker, made, observed>>

-----------------------------------------------------------------------------
(* stop, and everything else that takes ownership away                     *)

\* The user lets go: local media stop at once.
LetGo(p) ==
  /\ Quiet /\ card[p] \in {"starting", "talking"}
  /\ card' = [card EXCEPT ![p] = "closed"] /\ queue' = [queue EXCEPT ![p] = <<>>]
  /\ UNCHANGED <<producerVars, manager, flight, made, observed>>

\* The stop command, once the card knows its capture.
Stop(p) ==
  /\ Quiet /\ card[p] = "closed" /\ p \in captures
  /\ Revoke({}, {p})
  /\ UNCHANGED <<producerVars, admission, launching, marker, cards, observed>>

\* The browser's connection is gone.
Disconnect(p) ==
  /\ Quiet /\ card[p] # "off" /\ p \in pending \cup captures
  /\ Revoke({p} \cap pending, {p} \cap captures)
  /\ card' = [card EXCEPT ![p] = "closed"] /\ queue' = [queue EXCEPT ![p] = <<>>]
  /\ UNCHANGED <<producerVars, admission, launching, marker, flight, made, observed>>

\* PcmProducer.stop waits for the lock of the producer.
Close(p) ==
  /\ Quiet /\ p \in closing /\ op[p] = "none"
  /\ closing' = closing \ {p}
  /\ IF pstate[p] = "idle" THEN UNCHANGED producerVars ELSE BeginStop(p)
  /\ UNCHANGED <<admission, starting, launching, pending, marker, captures, byEntry, cards, observed>>
StopCancelled(p) ==
  /\ running = p /\ p \notin launching /\ ~flight[p]
  /\ running' = NoProducer /\ result' = [result EXCEPT ![p] = "none"]
  /\ UNCHANGED <<fields, expected, op, phase, local, batch, after, reply, bridge, doubt, errors,
                 cancels, captureVars>>

\* close_entry at the unload; release_entry leaves the entry admitted.
ReleaseEntry ==
  /\ Quiet /\ admission' \in {admission, FALSE}
  /\ pending # {} \/ captures # {} \/ admission' # admission
  /\ Revoke(pending, EntryCapture)
  /\ UNCHANGED <<producerVars, launching, marker, cards, observed>>
Admit ==
  /\ Quiet /\ ~admission /\ admission' = TRUE
  /\ UNCHANGED <<producerVars, starting, launching, pending, marker, captures, byEntry, closing,
                 cards, observed>>

\* Every status observation is compared with what is owned.
Poll ==
  /\ Quiet /\ seen = Unseen /\ seen' = bCall
  /\ UNCHANGED <<producerVars, manager, cards, hanging, released>>
OutlivedIdle == {p \in EntryCapture : seen = 0}
Outlived == {p \in EntryCapture : seen = 0 \/ seen # gen[p]}
Reconcile ==
  /\ Quiet /\ seen # Unseen /\ seen' = Unseen
  /\ Revoke({p \in pending : identity[p] = 0 \/ seen # identity[p]}, Outlived)
  /\ UNCHANGED <<producerVars, admission, launching, marker, cards, hanging, released>>

\* A hangup that the bridge accepted: the call itself may go on for a while.
Hangup ==
  /\ Quiet /\ bCall # 0
  /\ hanging' = hanging \cup {bCall}
  /\ UNCHANGED <<producerVars, manager, cards, seen, released>>

\* The release of that call's audio.  A start command that has not yet learned its call
\* is marked, or revoked by a second mark.
NobodyUnbound(g) == {}
Unbound(g) == {p \in pending : identity[p] = 0 /\ expected[p] \in {0, g}}
ReleaseCall ==
  /\ Quiet
  /\ \E g \in hanging :
       /\ hanging' = hanging \ {g}
       /\ released' = released \cup ((launching \cup captures) \X {g})
       /\ Revoke({p \in pending : identity[p] = g} \cup {p \in Unbound(g) : marker[p] \notin {0, g}},
                 {p \in EntryCapture : identity[p] = g})
       /\ marker' = [p \in Producers |-> IF p \in Unbound(g) /\ marker[p] = 0 THEN g ELSE marker[p]]
  /\ UNCHANGED <<producerVars, admission, launching, cards, seen>>

-----------------------------------------------------------------------------
BridgeStep == \/ Arrive \/ Expire \/ CallBegins \/ CallEnds
              \/ \E p \in Producers : Lose(p) \/ CancelCall(p)
CommandStep(p) ==
  StartReturns(p) \/ SubmitReturns(p) \/ StopCancelled(p) \/ Close(p)
CardStep(p) == Start(p) \/ Record(p) \/ Submit(p) \/ LetGo(p) \/ Stop(p) \/ Disconnect(p)
Served(p) == (ProducerStep(p) \/ Serve(p)) /\ UNCHANGED captureVars

Next ==
  \/ \E p \in Producers : Served(p) \/ CommandStep(p) \/ CardStep(p)
  \/ BridgeStep /\ UNCHANGED captureVars
  \/ Poll \/ Reconcile \/ Hangup \/ ReleaseCall \/ ReleaseEntry \/ Admit

Spec == Init /\ [][Next]_vars

\* The event loop runs what can run, requests are answered, and the status is polled
\* again and again.  Nothing is assumed of users, calls and failures.
TaskStep == \E p \in Producers : Served(p) \/ CommandStep(p)
Fairness == WF_vars(TaskStep) /\ SF_vars(Poll) /\ SF_vars(Reconcile)
FairSpec == Spec /\ Fairness

-----------------------------------------------------------------------------
TypeOK ==
  /\ pstate \in [Producers -> States] /\ gen \in [Producers -> Nat]
  /\ token \in [Producers -> Nat] /\ sequence \in [Producers -> 0..MaxSequence]
  /\ identity \in [Producers -> Nat] /\ expected \in [Producers -> Nat]
  /\ op \in [Producers -> {"none", "start", "submit", "stop"}]
  /\ phase \in [Producers -> Requests \cup {"none"}]
  /\ after \in [Producers -> Afterwards] /\ running \in Producers \cup {NoProducer}
  /\ starting \in Producers \cup {NoProducer} /\ byEntry \in Producers \cup {NoProducer}
  /\ launching \subseteq Producers /\ pending \subseteq launching /\ captures \subseteq Producers
  /\ closing \subseteq Producers /\ marker \in [Producers -> Nat] /\ admission \in BOOLEAN
  /\ card \in [Producers -> {"off", "starting", "talking", "closed"}]
  /\ \A p \in Producers : Len(queue[p]) <= MaxQueuedFrames
  /\ flight \in [Producers -> BOOLEAN] /\ made \in Nat /\ seen \in Nat \cup {Unseen}

\* An entry has one capture at most, and it is the one of _by_entry, although a start
\* command that was revoked goes on opening its lease while the next one starts.
OneCapture == captures = EntryCapture

\* The bridge's lease has an owner that can end it, unless a failed or cancelled request
\* leaves that in doubt: then it ends by itself (pcm.py 328-332).
LeaseOwned ==
  bToken \notin doubt \cup {0} =>
    \E p \in Producers : \/ token[p] = bToken /\ p \in captures \cup closing \cup launching
                         \/ token[p] = bToken /\ op[p] = "stop"
                         \/ reply[p].token = bToken

\* A capture or a start command that was there when the audio of a call was released
\* does not speak for that call afterwards, even if the start command did not know its
\* call then and the bridge goes on with it for a while.
HangupRevokes == \A p \in captures : <<p, identity[p]>> \notin released

\* A capture does not outlive its call.
CaptureFollowsCall ==
  \A p \in Producers : p \in captures /\ (bCall = 0 \/ gen[p] # bCall) ~> p \notin captures

\* Frames are played in the order of their capture and never twice.
Delivery == INSTANCE PcmDelivery
Delivered == Delivery!Spec
=============================================================================
