---------------------------- MODULE PcmProducer ----------------------------
(***************************************************************************)
(* PcmProducer (pcm.py): the owner of one microphone lease of the Doorfast *)
(* bridge, for several producers that exist side by side while an old one  *)
(* is being stopped, and the bridge with its single lease.                 *)
(*                                                                         *)
(* The operations of a producer run under its lock; op[p] is the one that  *)
(* holds it.  `running' is the producer whose call has just returned: its  *)
(* caller goes on before anything else happens on the event loop.          *)
(*                                                                         *)
(* A call of the bridge is named by its generation, which stands for       *)
(* runtime, station and generation; 0 is no call.  Token 0 is None.        *)
(***************************************************************************)
EXTENDS Integers, Sequences

CONSTANTS
  Producers,
  NoProducer,
  MaxSequence,    \* the largest sequence number, 2^64 - 1 in the code
  MaxGeneration, MaxErrors, MaxCancels   \* bounds of a run

ASSUME ProducersAssumption == NoProducer \notin Producers
ASSUME LimitsAssumption == {MaxSequence, MaxGeneration, MaxErrors, MaxCancels} \subseteq Nat

VARIABLES
  \* the fields of the producers
  pstate, gen, token, sequence, identity, expected,
  \* the call that holds the lock: what it is, what it awaits, its locals and its outcome
  op, phase, local, batch, after, reply, result, running,
  \* the bridge: its call, its lease with the cursor, the frames it accepted, requests
  \* that the client gave up and that may still arrive, leases that nobody may know of
  bCall, bGeneration, bToken, bTokens, bNext, heard, wire, doubt,
  \* what a run still may spend
  errors, cancels

fields == <<pstate, gen, token, sequence, identity>>
call   == <<op, phase, local, batch, after, result, running>>
lease  == <<bToken, bTokens, bNext>>
bridge == <<bCall, bGeneration, lease, heard, wire>>
producerVars == <<fields, expected, call, reply, bridge, doubt, errors, cancels>>

States == {"idle", "opening", "active", "recovering", "stopping"}
Requests == {"status", "open", "submit", "recheck", "reopen", "end"}
Afterwards == {"lost", "outcome", "reopen"}

NoReply == [kind |-> "none", gen |-> 0, token |-> 0, accepted |-> 0, next |-> 0]
Failed == [NoReply EXCEPT !.kind = "error"]
Quiet == running = NoProducer

-----------------------------------------------------------------------------
Await(p, request) == phase' = [phase EXCEPT ![p] = request] /\ UNCHANGED <<op, result, running>>
Return(p, r) ==
  /\ op' = [op EXCEPT ![p] = "none"]
  /\ phase' = [phase EXCEPT ![p] = "none"]
  /\ result' = [result EXCEPT ![p] = r]
  /\ running' = p
Clear(p) ==
  /\ pstate' = [pstate EXCEPT ![p] = "idle"]
  /\ gen' = [gen EXCEPT ![p] = 0]
  /\ token' = [token EXCEPT ![p] = 0]
  /\ sequence' = [sequence EXCEPT ![p] = 0]
  /\ identity' = [identity EXCEPT ![p] = 0]
Raise(p) == Clear(p) /\ Return(p, "raised")
Enter(p, s) == pstate' = [pstate EXCEPT ![p] = s]
Consume(p) == reply' = [reply EXCEPT ![p] = NoReply]
Answered(p, request) == Quiet /\ phase[p] = request /\ reply[p] # NoReply

ProducerInit ==
  /\ pstate = [p \in Producers |-> "idle"]
  /\ gen = [p \in Producers |-> 0] /\ token = [p \in Producers |-> 0]
  /\ sequence = [p \in Producers |-> 0] /\ identity = [p \in Producers |-> 0]
  /\ expected = [p \in Producers |-> 0]
  /\ op = [p \in Producers |-> "none"] /\ phase = [p \in Producers |-> "none"]
  /\ local = [p \in Producers |-> 0] /\ batch = [p \in Producers |-> <<>>]
  /\ after = [p \in Producers |-> "outcome"]
  /\ reply = [p \in Producers |-> NoReply] /\ result = [p \in Producers |-> "none"]
  /\ running = NoProducer
  /\ bCall = 0 /\ bGeneration = 0 /\ bToken = 0 /\ bTokens = 0 /\ bNext = 0
  /\ heard = <<>> /\ wire = {} /\ doubt = {}
  /\ errors = 0 /\ cancels = 0

-----------------------------------------------------------------------------
(* start                                                                   *)

BeginStart(p) ==
  /\ op[p] = "none" /\ pstate[p] = "idle"
  /\ op' = [op EXCEPT ![p] = "start"]
  /\ phase' = [phase EXCEPT ![p] = "status"]
  /\ Enter(p, "opening")
  /\ UNCHANGED <<gen, token, sequence, identity, local, batch, after, reply, result, running,
                 bridge, doubt, errors, cancels>>

\* _fresh_identity accepts the call that the status names.
Ready(p) ==
  /\ reply[p].kind = "ok" /\ reply[p].gen # 0
  /\ expected[p] \in {0, reply[p].gen}

StatusReply(p) ==
  /\ Answered(p, "status")
  /\ Consume(p)
  /\ \/ /\ Ready(p)
        /\ identity' = [identity EXCEPT ![p] = reply[p].gen]
        /\ local' = [local EXCEPT ![p] = reply[p].gen]
        /\ Await(p, "open")
        /\ UNCHANGED <<pstate, gen, token, sequence>>
     \/ /\ ~Ready(p) /\ Raise(p) /\ UNCHANGED local
  /\ UNCHANGED <<expected, batch, after, bridge, doubt, errors, cancels>>

\* _open, from start and from a submit whose lease has expired.
Opened(p) ==
  /\ gen' = [gen EXCEPT ![p] = local[p]]
  /\ token' = [token EXCEPT ![p] = reply[p].token]
  /\ sequence' = [sequence EXCEPT ![p] = reply[p].next]
  /\ Enter(p, "active")
  /\ UNCHANGED identity
OpenReply(p) ==
  /\ Answered(p, "open") \/ Answered(p, "reopen")
  /\ Consume(p)
  /\ \/ reply[p].kind = "ok" /\ Opened(p) /\ Return(p, IF op[p] = "start" THEN "ok" ELSE "outcome")
     \/ reply[p].kind # "ok" /\ Raise(p)
  /\ UNCHANGED <<expected, local, batch, after, bridge, doubt, errors, cancels>>

-----------------------------------------------------------------------------
(* submit                                                                  *)

OverflowsLate(p, n) == sequence[p] > MaxSequence
Overflows(p, n) == sequence[p] > MaxSequence - n
BeginSubmit(p, frames) ==
  /\ op[p] = "none"
  /\ \/ /\ pstate[p] # "active" \/ Overflows(p, Len(frames))
        /\ Return(p, "raised") /\ UNCHANGED <<local, batch>>
     \/ /\ pstate[p] = "active" /\ ~Overflows(p, Len(frames))
        /\ op' = [op EXCEPT ![p] = "submit"]
        /\ phase' = [phase EXCEPT ![p] = "submit"]
        /\ local' = [local EXCEPT ![p] = gen[p]]
        /\ batch' = [batch EXCEPT ![p] = frames]
        /\ UNCHANGED <<result, running>>
  /\ UNCHANGED <<fields, expected, after, reply, bridge, doubt, errors, cancels>>

\* Look again at the identity of the call, then go on.
Recheck(p, next, then) ==
  /\ sequence' = [sequence EXCEPT ![p] = next]
  /\ after' = [after EXCEPT ![p] = then]
  /\ Enter(p, "recovering")
  /\ Await(p, "recheck")
  /\ UNCHANGED <<gen, token, identity>>

\* The reply to a submit by its class: all frames accepted, some accepted (503 with a
\* cursor), none accepted and a cursor to adopt (duplicate, gap), no identity (503), lease
\* expired, anything else, or no reply at all.
SubmitReply(p) ==
  LET r == reply[p] IN
  /\ Answered(p, "submit")
  /\ Consume(p)
  /\ \/ /\ r.kind = "ok"
        /\ sequence' = [sequence EXCEPT ![p] = r.next]
        /\ Return(p, "outcome")
        /\ UNCHANGED <<pstate, gen, token, identity, after>>
     \/ r.kind \in {"partial", "cursor"} /\ Recheck(p, r.next, "outcome")
     \/ r.kind = "unknown" /\ Recheck(p, sequence[p], "outcome")
     \/ r.kind = "expired" /\ Recheck(p, sequence[p], "reopen")
     \/ r.kind = "error" /\ Recheck(p, sequence[p], "lost")
     \/ r.kind = "refused" /\ Raise(p) /\ UNCHANGED after
  /\ UNCHANGED <<expected, local, batch, bridge, doubt, errors, cancels>>

\* _recover_identity: the call is still the one of the lease.  A lost response keeps the
\* lease and is reported to the caller as an error.
SameCall(p) == Ready(p) /\ reply[p].gen = local[p]
RecheckReply(p) ==
  /\ Answered(p, "recheck")
  /\ Consume(p)
  /\ \/ ~SameCall(p) /\ Raise(p)
     \/ /\ SameCall(p) /\ after[p] = "reopen" /\ Await(p, "reopen")
        /\ identity' = [identity EXCEPT ![p] = reply[p].gen]
        /\ UNCHANGED <<pstate, gen, token, sequence>>
     \/ /\ SameCall(p) /\ after[p] # "reopen"
        /\ Enter(p, "active")
        /\ Return(p, IF after[p] = "lost" THEN "raised" ELSE "outcome")
        /\ identity' = [identity EXCEPT ![p] = reply[p].gen]
        /\ UNCHANGED <<gen, token, sequence>>
  /\ UNCHANGED <<expected, local, batch, after, bridge, doubt, errors, cancels>>

-----------------------------------------------------------------------------
(* stop                                                                    *)

BeginStop(p) ==
  /\ op[p] = "none" /\ pstate[p] # "idle"
  /\ op' = [op EXCEPT ![p] = "stop"]
  /\ phase' = [phase EXCEPT ![p] = "end"]
  /\ Enter(p, "stopping")
  /\ UNCHANGED <<gen, token, sequence, identity, expected, local, batch, after, reply, result,
                 running, bridge, doubt, errors, cancels>>

\* Whatever the bridge answered, the producer forgets the lease.
EndReply(p) ==
  /\ Answered(p, "end")
  /\ Consume(p) /\ Clear(p)
  /\ op' = [op EXCEPT ![p] = "none"] /\ phase' = [phase EXCEPT ![p] = "none"]
  /\ UNCHANGED <<expected, local, batch, after, result, running, bridge, doubt, errors, cancels>>

\* The awaiting call is cancelled: every operation clears the producer.  A submit that is
\* cancelled may still arrive.
Late(p) == [gen |-> local[p], token |-> token[p], sequence |-> sequence[p], frames |-> batch[p]]
CancelCall(p) ==
  /\ Quiet /\ phase[p] # "none" /\ cancels < MaxCancels
  /\ cancels' = cancels + 1
  /\ Consume(p) /\ Clear(p) /\ Return(p, "cancelled")
  /\ wire' = IF phase[p] = "submit" /\ reply[p] = NoReply THEN wire \cup {Late(p)} ELSE wire
  /\ doubt' = doubt \cup {bToken}
  /\ UNCHANGED <<expected, local, batch, after, bCall, bGeneration, lease, heard, errors>>

ProducerStep(p) ==
  StatusReply(p) \/ OpenReply(p) \/ SubmitReply(p) \/ RecheckReply(p) \/ EndReply(p)

-----------------------------------------------------------------------------
(* External: the Doorfast bridge, as pcm.py and client.py use it.          *)

Reply(p, kind, g, t, k, next) ==
  reply' = [reply EXCEPT ![p] = [kind |-> kind, gen |-> g, token |-> t, accepted |-> k, next |-> next]]

ServeStatus(p) ==
  /\ phase[p] \in {"status", "recheck"}
  /\ Reply(p, "ok", bCall, 0, 0, 0)
  /\ UNCHANGED <<lease, heard, errors>>

\* One lease at a time, for the call that is talking.
ServeOpen(p) ==
  /\ phase[p] \in {"open", "reopen"}
  /\ IF local[p] = bCall /\ bToken = 0
       THEN /\ bTokens' = bTokens + 1 /\ bToken' = bTokens + 1 /\ bNext' = 0
            /\ Reply(p, "ok", bCall, bTokens + 1, 0, 0)
       ELSE UNCHANGED lease /\ Reply(p, "refused", bCall, 0, 0, 0)
  /\ UNCHANGED <<heard, errors>>

\* A submit is accepted at the bridge's cursor only.  It may fail part of the way, and the
\* cursor after it may fail to be kept.
Accepts(r) == r.gen = bCall /\ r.token = bToken /\ r.sequence = bNext
ServeSubmit(p) ==
  LET r == Late(p)
      n == Len(r.frames) IN
  /\ phase[p] = "submit"
  /\ UNCHANGED <<bToken, bTokens>>
  /\ \/ /\ ~Accepts(r)
        /\ IF r.gen # bCall \/ bToken \notin {0, r.token} THEN Reply(p, "refused", bCall, 0, 0, 0)
           ELSE IF bToken = 0 THEN Reply(p, "expired", bCall, 0, 0, 0)
           ELSE Reply(p, "cursor", bCall, 0, 0, bNext)
        /\ UNCHANGED <<bNext, heard, errors>>
     \/ /\ Accepts(r)
        /\ heard' = heard \o r.frames /\ bNext' = bNext + n
        /\ Reply(p, "ok", bCall, 0, n, bNext + n)
        /\ UNCHANGED errors
     \/ /\ Accepts(r) /\ errors < MaxErrors /\ errors' = errors + 1
        /\ \E k \in 0..(n - 1), durable \in BOOLEAN :
             /\ heard' = heard \o SubSeq(r.frames, 1, k)
             /\ bNext' = IF durable THEN bNext + k ELSE bNext
             /\ Reply(p, "partial", bCall, 0, k, bNext + k)
     \/ /\ Accepts(r) /\ errors < MaxErrors /\ errors' = errors + 1
        /\ Reply(p, "unknown", 0, 0, 0, 0)
        /\ UNCHANGED <<bNext, heard>>

ServeEnd(p) ==
  /\ phase[p] = "end"
  /\ IF token[p] = bToken /\ gen[p] = bCall
       THEN bToken' = 0 /\ Reply(p, "ok", bCall, 0, 0, sequence[p])
       ELSE UNCHANGED bToken /\ Reply(p, "refused", bCall, 0, 0, 0)
  /\ UNCHANGED <<bTokens, bNext, heard, errors>>

Serve(p) ==
  /\ Quiet /\ phase[p] # "none" /\ reply[p] = NoReply
  /\ ServeStatus(p) \/ ServeOpen(p) \/ ServeSubmit(p) \/ ServeEnd(p)
  /\ UNCHANGED <<fields, expected, call, bCall, bGeneration, wire, doubt, cancels>>

\* The client gives a request up: its answer is lost, or it has not reached the bridge.
\* A submit may then still arrive.
Lose(p) ==
  /\ Quiet /\ phase[p] # "none" /\ reply[p].kind # "error"
  /\ errors < MaxErrors /\ errors' = errors + 1
  /\ reply' = [reply EXCEPT ![p] = Failed]
  /\ wire' \in IF phase[p] = "submit" /\ reply[p] = NoReply THEN {wire, wire \cup {Late(p)}} ELSE {wire}
  /\ doubt' = doubt \cup {bToken}
  /\ UNCHANGED <<fields, expected, call, bCall, bGeneration, lease, heard, cancels>>

\* A request that was given up arrives.
Arrive ==
  /\ Quiet
  /\ \E r \in wire :
       /\ wire' = wire \ {r}
       /\ IF Accepts(r) THEN heard' = heard \o r.frames /\ bNext' = bNext + Len(r.frames)
                        ELSE UNCHANGED <<heard, bNext>>
  /\ UNCHANGED <<fields, expected, call, reply, bCall, bGeneration, bToken, bTokens, doubt,
                 errors, cancels>>

\* The lease ends two seconds after its last use, or with its call.
Expire ==
  /\ Quiet /\ bToken # 0 /\ bToken' = 0
  /\ UNCHANGED <<fields, expected, call, reply, bCall, bGeneration, bTokens, bNext, heard, wire,
                 doubt, errors, cancels>>

CallBegins ==
  /\ Quiet /\ bCall = 0 /\ bGeneration < MaxGeneration
  /\ bGeneration' = bGeneration + 1 /\ bCall' = bGeneration + 1
  /\ UNCHANGED <<fields, expected, call, reply, lease, heard, wire, doubt, errors, cancels>>

CallEnds ==
  /\ Quiet /\ bCall # 0
  /\ bCall' = 0 /\ bToken' = 0
  /\ UNCHANGED <<fields, expected, call, reply, bGeneration, bTokens, bNext, heard, wire, doubt,
                 errors, cancels>>
=============================================================================
