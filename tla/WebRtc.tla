------------------------------- MODULE WebRtc -------------------------------
(***************************************************************************)
(* DoorfastWebRTCProvider (webrtc.py) for one session id: the offers that  *)
(* Home Assistant makes under it, the go2rtc sockets that they try, the    *)
(* reader of each socket, and everybody who cleans a session up.           *)
(*                                                                         *)
(* A session object (_Session) is named by the offer that made it and the  *)
(* number of the attempt, and so is its reader task.  Other session ids    *)
(* share nothing with this one but the coordinator.  `running' is the task *)
(* whose cleanup has just returned: its caller goes on before anything     *)
(* else happens on the event loop.                                         *)
(***************************************************************************)
EXTENDS Integers, Sequences, FiniteSets

CONSTANTS
  Offers,          \* tasks of async_handle_async_webrtc_offer
  Sweepers,        \* tasks of async_close_session and async_reconcile_monitor
  Unload,          \* the task of async_close_entry
  None,
  SlowClose,       \* whether closing a socket may outlast the delay before a retry
  Budgets,         \* what a run may spend: offers, attempts of each, tasks that sweep at once,
                   \* candidates, requests that fail, closed sessions, moves of the coordinator,
                   \* unloads of the entry
  MaxAttempts

Objects == Offers \X (1..MaxAttempts)
Cleaners == Sweepers \cup {Unload}
Tasks == Offers \cup Objects \cup Cleaners

ASSUME SlowCloseAssumption == SlowClose \in BOOLEAN
ASSUME TasksAssumption ==
  /\ Unload \notin Sweepers /\ Offers \cap Cleaners = {} /\ Objects \cap (Offers \cup Cleaners) = {}
  /\ None \notin Tasks
ASSUME BoundsAssumption ==
  /\ MaxAttempts \in Nat \ {0}
  /\ Budgets \subseteq [offers : Nat, attempts : 0..MaxAttempts, sweepers : Nat, candidates : Nat,
                        errors : Nat, closes : Nat, moves : Nat, unloads : Nat]

VARIABLES
  session, negotiation, pending,   \* _sessions, _negotiations, _pending_candidates of the id
  pc, local, attempt, cancelled,   \* of each offer: where it waits, its local variables
  obj, wire,                       \* of each session object: its fields; what its socket carried
  job,                             \* of each task: its call of _cleanup_session
  running,
  lease, publisher,                \* the coordinator: the lease of each offer; publisher_running
  releases, since,                 \* per offer: calls of async_release_viewer that did not fail;
                                   \* the candidates that came before its registration
  candidates, left                 \* the candidates that came; what is left to spend

provider == <<session, negotiation, pending>>
coordinator == <<lease, releases>>
spent == <<candidates, left>>
vars == <<provider, pc, local, attempt, cancelled, obj, wire, job, running, coordinator, publisher, since, spent>>

Quiet == running = None
\* Offers and sweepers are interchangeable: an idle one is as good as another.
AnyOf(set) == CHOOSE x \in set : TRUE
Spend(what) == left[what] > 0 /\ left' = [left EXCEPT ![what] = @ - 1]
Owner(s) == s[1]
Owned(o) == lease[o] = "owned"

NoJob == [stage |-> "none", of |-> None, release |-> FALSE, on |-> None]
Fresh == [reader |-> "reading", stop |-> FALSE, open |-> TRUE, answer |-> "pending",
          negotiating |-> TRUE, offerSent |-> FALSE, released |-> FALSE,
          leaseReleased |-> FALSE, failed |-> FALSE, cleaner |-> None]
NoLocals == [previous |-> None, state |-> None, failure |-> "none", viewerReleased |-> FALSE,
             index |-> 0]

Init ==
  /\ session = None /\ negotiation = None /\ pending = <<>>
  /\ pc = [o \in Offers |-> "idle"] /\ local = [o \in Offers |-> NoLocals]
  /\ attempt = [o \in Offers |-> 0] /\ cancelled = [o \in Offers |-> FALSE]
  /\ obj = [s \in Objects |-> [Fresh EXCEPT !.reader = "none", !.open = FALSE]]
  /\ wire = [s \in Objects |-> <<>>]
  /\ job = [t \in Tasks |-> NoJob] /\ running = None
  /\ lease = [o \in Offers |-> "none"] /\ publisher = TRUE
  /\ releases = [o \in Offers |-> 0] /\ since = [o \in Offers |-> 0]
  /\ candidates = 0 /\ left \in Budgets

-----------------------------------------------------------------------------
(* _cleanup_session                                                        *)

\* asyncio.shield(cleanup_task): whoever waits for task c is resumed when it ends.
Wake(j, c, how) ==
  [t \in Tasks |-> IF j[t].stage = "wait" /\ j[t].on = c THEN [j[t] EXCEPT !.stage = how] ELSE j[t]]

\* The call returns: to the caller, or the task ends with it.
Return(t, how) ==
  IF t \in Cleaners
  THEN /\ job' = Wake([job EXCEPT ![t] = [NoJob EXCEPT !.stage =
                         IF t = Unload THEN "ended" ELSE "none"]], t, how)
       /\ running' = None
  ELSE job' = [job EXCEPT ![t].stage = how] /\ running' = t

\* async_release_viewer takes the lease from the ledger before it first suspends, and a
\* request that fails puts it back (monitor.py 910-929).
CallRelease(o) ==
  /\ Owned(o) /\ lease' = [lease EXCEPT ![o] = "released"]
  /\ UNCHANGED releases
Given(o) ==
  /\ releases' = [releases EXCEPT ![o] = @ + 1]
  /\ UNCHANGED lease
Refused(o, back) ==
  /\ lease' = [lease EXCEPT ![o] = IF @ = "released" THEN back ELSE @]
  /\ UNCHANGED releases

Idle(x) == x.cleaner = None /\ x.released /\ ~x.failed

\* A cleanup that also waits for the reader it has cancelled.
EnterJoined(t, s, release, objects) ==
  LET x == objects[s] IN
  \/ /\ session # s \/ Idle(x)
     /\ obj' = objects
     /\ Return(t, "ok")
  \/ /\ session = s /\ x.cleaner # None
     /\ obj' = objects
     /\ job' = [job EXCEPT ![t] = [NoJob EXCEPT !.stage = "wait", !.of = s, !.on = x.cleaner]]
     /\ running' = None
  \/ /\ session = s /\ x.cleaner = None /\ ~Idle(x)
     /\ obj' = [objects EXCEPT ![s].cleaner = t, ![s].released = TRUE,
                               ![s].leaseReleased = @ \/ release,
                               ![s].stop = @ \/ (x.reader = "reading" /\ t # s)]
     /\ job' = [job EXCEPT ![t] = [NoJob EXCEPT !.stage = "wait", !.of = s, !.on = s]]
     /\ running' = None
\* Task t calls _cleanup_session for s; `objects' is what the fields are at that point.
Enter(t, s, release, objects) ==
  LET x == objects[s] IN
  \/ /\ session # s \/ Idle(x)
     /\ obj' = objects
     /\ Return(t, "ok")
  \/ /\ session = s /\ x.cleaner # None
     /\ obj' = objects
     /\ job' = [job EXCEPT ![t] = [NoJob EXCEPT !.stage = "wait", !.of = s, !.on = x.cleaner]]
     /\ running' = None
  \/ /\ session = s /\ x.cleaner = None /\ ~Idle(x)
     /\ obj' = [objects EXCEPT ![s].cleaner = t, ![s].released = TRUE,
                               ![s].leaseReleased = @ \/ release,
                               ![s].stop = @ \/ (x.reader = "reading" /\ t # s)]
     /\ job' = [job EXCEPT ![t] = [NoJob EXCEPT !.stage = "close", !.of = s,
                                                !.release = release /\ ~x.leaseReleased]]
     /\ running' = None

\* The else branch: the id is popped, whatever it holds by now.
Succeed(t, objects) ==
  /\ session' = None
  /\ obj' = [objects EXCEPT ![job[t].of].cleaner = None, ![job[t].of].failed = FALSE]
  /\ Return(t, "ok")

\* The except branch.
Break(t, objects) ==
  LET again == job[t].release IN
  /\ obj' = [objects EXCEPT ![job[t].of].cleaner = None,
                            ![job[t].of].leaseReleased = @ /\ ~again,
                            ![job[t].of].failed = @ \/ again,
                            ![job[t].of].released = @ /\ ~again]
  /\ Return(t, "raised")

\* The finally branch around the close of the socket.
Answerless(s, stillOpen) ==
  [obj EXCEPT ![s].open = stillOpen,
              ![s].answer = IF @ # "pending" THEN @
                            ELSE IF obj[s].negotiating THEN "cancelled" ELSE "fatal"]

SocketClosed(t) ==
  LET s == job[t].of IN
  /\ Quiet /\ job[t].stage = "close" /\ ~(t \in Offers /\ cancelled[t])
  /\ \/ /\ job[t].release /\ Owned(Owner(s))
        /\ CallRelease(Owner(s))
        /\ obj' = Answerless(s, FALSE)
        /\ job' = [job EXCEPT ![t].stage = "release"]
        /\ UNCHANGED <<session, running, left>>
     \/ /\ job[t].release /\ ~Owned(Owner(s))
        /\ Given(Owner(s)) /\ Succeed(t, Answerless(s, FALSE))
        /\ UNCHANGED left
     \/ /\ ~job[t].release
        /\ Succeed(t, Answerless(s, FALSE))
        /\ UNCHANGED <<coordinator, left>>
     \/ /\ Spend("errors")
        /\ Break(t, Answerless(s, TRUE))
        /\ UNCHANGED <<session, coordinator>>
  /\ UNCHANGED <<negotiation, pending, pc, local, attempt, cancelled, wire, publisher, since, candidates>>

ViewerReleased(t) ==
  /\ Quiet /\ job[t].stage = "release" /\ ~(t \in Offers /\ cancelled[t])
  /\ \/ Given(Owner(job[t].of)) /\ Succeed(t, obj) /\ UNCHANGED left
     \/ /\ Spend("errors")
        /\ Refused(Owner(job[t].of), "owned") /\ Break(t, obj)
        /\ UNCHANGED session
  /\ UNCHANGED <<negotiation, pending, pc, local, attempt, cancelled, wire, publisher, since, candidates>>

-----------------------------------------------------------------------------
(* async_handle_async_webrtc_offer                                         *)

Goto(o, place) == pc' = [pc EXCEPT ![o] = place]

\* The end of the handler, its finally branch included.
Finish(o, how) ==
  /\ Goto(o, "done") /\ local' = [local EXCEPT ![o] = NoLocals]
  /\ negotiation' = IF negotiation = o THEN None ELSE negotiation
  /\ pending' = IF negotiation = o THEN <<>> ELSE pending
  /\ cancelled' = [cancelled EXCEPT ![o] = FALSE]
  /\ job' = Wake([job EXCEPT ![o] = NoJob], o, how)
  /\ running' = None

\* The flag of a released lease forgotten.
ClaimedByFailure(o) ==
  LET s == local[o].state IN s # None /\ obj[s].failed
\* The except branches around the loop: the lease is released unless a session took care of it.
Claimed(o) ==
  LET s == local[o].state IN s # None /\ (obj[s].leaseReleased \/ obj[s].failed)
Leave(o, already) ==
  \/ /\ lease[o] # "none" /\ ~already /\ ~Claimed(o)
     /\ CallRelease(o)
     /\ Goto(o, "release")
     /\ job' = [job EXCEPT ![o] = NoJob] /\ running' = None
     /\ cancelled' = [cancelled EXCEPT ![o] = FALSE]
     /\ UNCHANGED <<negotiation, pending, local>>
  \/ /\ lease[o] # "none" /\ ~already /\ ~Claimed(o) /\ ~Owned(o)
     /\ Given(o)
     /\ Finish(o, "raised")
  \/ /\ lease[o] = "none" \/ already \/ Claimed(o)
     /\ Finish(o, "raised")
     /\ UNCHANGED coordinator

Register(o) ==
  /\ Goto(o, "acquire") /\ negotiation' = o
  /\ since' = [since EXCEPT ![o] = candidates]
  /\ running' = None
\* An offer that does not wait for the cleanup of the session before it.
ReplaceOldAtOnce(o) == Register(o) /\ UNCHANGED <<obj, job>>
\* Lines 182-192: a session that is left from an earlier offer goes first.
ReplaceOld(o) ==
  \/ /\ session # None
     /\ Goto(o, "old") /\ Enter(o, session, TRUE, obj)
     /\ UNCHANGED <<negotiation, since>>
  \/ /\ session = None
     /\ Register(o)
     /\ UNCHANGED <<obj, job>>

Begin(o) ==
  /\ Quiet /\ job[Unload].stage = "none" /\ Spend("offers")
  /\ pc[o] = "idle" /\ o = AnyOf({p \in Offers : pc[p] = "idle"})
  /\ \/ /\ negotiation # None
        /\ cancelled' = [cancelled EXCEPT ![negotiation] = TRUE]
        /\ local' = [local EXCEPT ![o].previous = negotiation]
        /\ Goto(o, "previous")
        /\ UNCHANGED <<negotiation, obj, job, running, since>>
     \/ /\ negotiation = None /\ ReplaceOld(o)
        /\ UNCHANGED <<local, cancelled>>
  /\ UNCHANGED <<session, pending, attempt, wire, coordinator, publisher, candidates>>

PreviousEnds(o) ==
  /\ Quiet /\ pc[o] = "previous" /\ pc[local[o].previous] = "done"
  /\ ReplaceOld(o)
  /\ local' = [local EXCEPT ![o] = NoLocals]
  /\ UNCHANGED <<session, pending, attempt, cancelled, wire, coordinator, publisher, spent>>

OldCleaned(o) ==
  /\ running \in {None, o} /\ pc[o] = "old"
  /\ \/ /\ job[o].stage = "ok"
        /\ Register(o)
        /\ job' = [job EXCEPT ![o] = NoJob]
        /\ UNCHANGED <<pending, local, cancelled>>
     \/ job[o].stage = "raised" /\ Finish(o, "raised") /\ UNCHANGED since
  /\ UNCHANGED <<session, attempt, obj, wire, coordinator, publisher, spent>>

Acquired(o) ==
  /\ Quiet /\ pc[o] = "acquire" /\ ~cancelled[o]
  /\ \/ /\ lease' = [lease EXCEPT ![o] = "owned"]
        /\ Goto(o, "connect")
        /\ UNCHANGED <<negotiation, pending, local, cancelled, job, running, left>>
     \/ /\ Spend("errors")
        /\ Finish(o, "raised") /\ UNCHANGED lease
  /\ UNCHANGED <<session, attempt, obj, wire, releases, publisher, since, candidates>>

\* A retry that takes the session of the attempt before.
ConnectedAgain(o) ==
  LET s == <<o, attempt[o] + 1>> IN
  /\ Quiet /\ pc[o] = "connect" /\ ~cancelled[o]
  /\ session' = s
  /\ local' = [local EXCEPT ![o].state = s, ![o].index = 0]
  /\ obj' = [obj EXCEPT ![s] = Fresh]
  /\ wire' = [wire EXCEPT ![s] = <<0>>]
  /\ Goto(o, "send")
  /\ UNCHANGED <<negotiation, pending, attempt, cancelled, job, running, coordinator, publisher, since, spent>>
\* The socket is there: the session is registered, its reader starts, the offer is written.
Connected(o) ==
  LET s == <<o, attempt[o] + 1>> IN
  /\ Quiet /\ pc[o] = "connect" /\ ~cancelled[o]
  /\ attempt' = [attempt EXCEPT ![o] = @ + 1]
  /\ session' = s
  /\ local' = [local EXCEPT ![o].state = s, ![o].index = 0]
  /\ obj' = [obj EXCEPT ![s] = Fresh]
  /\ wire' = [wire EXCEPT ![s] = <<0>>]
  /\ Goto(o, "send")
  /\ UNCHANGED <<negotiation, pending, cancelled, job, running, coordinator, publisher, since, spent>>

\* Candidates go straight out as soon as the offer is written.
SentEarly(o) ==
  LET s == local[o].state  i == local[o].index + 1 IN
  /\ Quiet /\ pc[o] = "send" /\ ~cancelled[o] /\ obj[s].open
  /\ obj' = [obj EXCEPT ![s].offerSent = TRUE]
  /\ \/ /\ i <= Len(pending)
        /\ local' = [local EXCEPT ![o].index = i]
        /\ wire' = [wire EXCEPT ![s] = Append(@, pending[i])]
        /\ UNCHANGED pc
     \/ /\ i > Len(pending)
        /\ Goto(o, "answer")
        /\ UNCHANGED <<local, wire>>
  /\ UNCHANGED <<provider, attempt, cancelled, job, running, coordinator, publisher, since, spent>>
\* A send returns: the next waiting candidate is written, or candidates now go straight out.
Sent(o) ==
  LET s == local[o].state  i == local[o].index + 1 IN
  /\ Quiet /\ pc[o] = "send" /\ ~cancelled[o] /\ obj[s].open
  /\ \/ /\ i <= Len(pending)
        /\ local' = [local EXCEPT ![o].index = i]
        /\ wire' = [wire EXCEPT ![s] = Append(@, pending[i])]
        /\ UNCHANGED <<pc, obj>>
     \/ /\ i > Len(pending)
        /\ obj' = [obj EXCEPT ![s].offerSent = TRUE]
        /\ Goto(o, "answer")
        /\ UNCHANGED <<local, wire>>
  /\ UNCHANGED <<provider, attempt, cancelled, job, running, coordinator, publisher, since, spent>>

\* except Exception: the session is cleaned up, the handler keeps the lease.  The last attempt
\* that a run allows is not tried again.
Fail(o, kind) ==
  LET s == local[o].state IN
  /\ local' = [local EXCEPT ![o].failure = IF attempt[o] < left.attempts THEN kind ELSE "fatal"]
  /\ Goto(o, "undo")
  /\ \/ /\ s # None /\ ~obj[s].released /\ Enter(o, s, FALSE, obj)
     \/ /\ ~(s # None /\ ~obj[s].released)
        /\ job' = [job EXCEPT ![o].stage = "ok"] /\ running' = o
        /\ UNCHANGED obj

ConnectFails(o, kind) ==
  /\ Quiet /\ pc[o] = "connect" /\ ~cancelled[o]
  /\ Spend("errors")
  /\ Fail(o, kind)
  /\ UNCHANGED <<provider, attempt, cancelled, wire, coordinator, publisher, since, candidates>>
SendFails(o) ==
  /\ Quiet /\ pc[o] = "send" /\ ~cancelled[o]
  /\ \/ ~obj[local[o].state].open /\ UNCHANGED left
     \/ Spend("errors")
  /\ Fail(o, "fatal")
  /\ UNCHANGED <<provider, attempt, cancelled, wire, coordinator, publisher, since, candidates>>

\* The future of the answer is set, or ten seconds are over.
Answered(o) ==
  LET s == local[o].state IN
  /\ Quiet /\ pc[o] = "answer" /\ ~cancelled[o]
  /\ \/ /\ obj[s].answer = "ok"
        /\ obj' = [obj EXCEPT ![s].negotiating = FALSE]
        /\ Finish(o, "ok")
     \/ /\ obj[s].answer \in {"retry", "fatal"}
        /\ Fail(o, obj[s].answer)
        /\ UNCHANGED <<negotiation, pending, cancelled>>
     \/ /\ obj[s].answer = "pending"
        /\ Fail(o, "retry")
        /\ UNCHANGED <<negotiation, pending, cancelled>>
  /\ UNCHANGED <<session, attempt, wire, coordinator, publisher, since, spent>>

\* After the cleanup of a failed attempt: once more after a second, or out.
Undone(o) ==
  LET already == local[o].viewerReleased \/ Claimed(o)
      again == Owned(o) /\ local[o].failure = "retry"
  IN
  /\ running \in {None, o} /\ pc[o] = "undo" /\ ~(cancelled[o] /\ Quiet)
  /\ \/ /\ job[o].stage = "ok" /\ again
        /\ local' = [local EXCEPT ![o].viewerReleased = already, ![o].failure = "none"]
        /\ Goto(o, "sleep")
        /\ job' = [job EXCEPT ![o] = NoJob] /\ running' = None
        /\ UNCHANGED <<negotiation, pending, cancelled, coordinator>>
     \/ job[o].stage = "ok" /\ ~again /\ Leave(o, already)
     \/ job[o].stage = "raised" /\ Leave(o, local[o].viewerReleased)
  /\ UNCHANGED <<session, attempt, obj, wire, publisher, since, spent>>

\* After the delay: the lease is checked again (line 199) before the next attempt.
SleepEnds(o) ==
  LET s == local[o].state IN
  /\ Quiet /\ pc[o] = "sleep" /\ ~cancelled[o]
  /\ SlowClose \/ (s # None => obj[s].cleaner = None)
  /\ \/ /\ Owned(o)
        /\ local' = [local EXCEPT ![o].state = None]
        /\ Goto(o, "connect")
        /\ UNCHANGED <<negotiation, pending, cancelled, job, running, coordinator>>
     \/ ~Owned(o) /\ Leave(o, local[o].viewerReleased)
  /\ UNCHANGED <<session, attempt, obj, wire, publisher, since, spent>>

\* CancelledError at an await: the task was cancelled, or the answer was.
Cancelled(o) ==
  LET s == local[o].state IN
  /\ Quiet
  /\ \/ /\ cancelled[o] /\ pc[o] \in {"acquire", "release"}
        /\ Finish(o, "raised")
        /\ UNCHANGED <<obj, coordinator>>
     \/ /\ cancelled[o] /\ pc[o] \in {"connect", "sleep"}
        /\ Leave(o, local[o].viewerReleased)
        /\ UNCHANGED obj
     \/ /\ \/ cancelled[o] /\ pc[o] \in {"send", "answer"}
           \/ pc[o] = "answer" /\ obj[s].answer = "cancelled"
        /\ \/ /\ ~obj[s].released /\ ~obj[s].failed
              /\ Goto(o, "abort") /\ Enter(o, s, TRUE, obj)
              /\ cancelled' = [cancelled EXCEPT ![o] = FALSE]
              /\ UNCHANGED <<negotiation, pending, local, coordinator>>
           \/ /\ obj[s].released \/ obj[s].failed
              /\ Leave(o, local[o].viewerReleased)
              /\ UNCHANGED obj
  /\ UNCHANGED <<session, attempt, wire, publisher, since, spent>>

\* CancelledError inside _cleanup_session: in a request of its own, or waiting for another task.
CleanupCancelled(o) ==
  /\ Quiet /\ cancelled[o] /\ pc[o] \in {"undo", "abort"}
  /\ cancelled' = [cancelled EXCEPT ![o] = FALSE]
  /\ \/ job[o].stage = "close" /\ Break(o, Answerless(job[o].of, TRUE))
     \/ job[o].stage = "release" /\ Break(o, obj)
     \/ /\ job[o].stage \in {"wait", "ok", "raised"}
        /\ job' = [job EXCEPT ![o].stage = "raised"] /\ running' = o
        /\ UNCHANGED obj
  /\ UNCHANGED <<provider, pc, local, attempt, wire, coordinator, publisher, since, spent>>

Aborted(o) ==
  /\ running \in {None, o} /\ pc[o] = "abort" /\ ~(cancelled[o] /\ Quiet)
  /\ job[o].stage \in {"ok", "raised"}
  /\ Leave(o, local[o].viewerReleased \/ job[o].stage = "ok")
  /\ UNCHANGED <<session, attempt, obj, wire, publisher, since, spent>>

\* The release of a handler that has no session any more.  If it fails, nobody tries again:
\* the lease is stranded in the ledger until its generation ends.
Released(o) ==
  /\ Quiet /\ pc[o] = "release" /\ ~cancelled[o]
  /\ Finish(o, "raised")
  /\ \/ Given(o) /\ UNCHANGED left
     \/ Spend("errors") /\ Refused(o, "stranded")
  /\ UNCHANGED <<session, attempt, obj, wire, publisher, since, candidates>>

-----------------------------------------------------------------------------
(* _read_loop of the socket of s                                           *)

\* The end of the loop and its finally branch.
Unread(s, x) ==
  \/ /\ x.negotiating
     /\ obj' = [obj EXCEPT ![s] = [x EXCEPT !.reader = "done"]]
     /\ UNCHANGED <<job, running>>
  \/ /\ ~x.negotiating
     /\ Enter(s, s, TRUE, [obj EXCEPT ![s] = [x EXCEPT !.reader = "cleaning"]])

ReadAnswer(s) ==
  /\ Quiet /\ obj[s].reader = "reading" /\ ~obj[s].stop /\ obj[s].open /\ Len(wire[s]) > 0
  /\ obj[s].negotiating
  /\ obj' = [obj EXCEPT ![s].negotiating = FALSE,
                        ![s].answer = IF @ = "pending" THEN "ok" ELSE @]
  /\ UNCHANGED <<provider, pc, local, attempt, cancelled, wire, job, running, coordinator, publisher, since, spent>>

\* An error message ("not ready" is tried again), a closed socket or an invalid message.
ReadEnds(s, kind) ==
  LET x == obj[s] IN
  /\ Quiet /\ x.reader = "reading" /\ ~x.stop
  /\ Unread(s, [x EXCEPT !.answer = IF @ = "pending" THEN kind ELSE @])
  /\ UNCHANGED <<provider, pc, local, attempt, cancelled, wire, coordinator, publisher, since, spent>>

ReadCancelled(s) ==
  /\ Quiet /\ obj[s].reader = "reading" /\ obj[s].stop
  /\ Unread(s, obj[s])
  /\ UNCHANGED <<provider, pc, local, attempt, cancelled, wire, coordinator, publisher, since, spent>>

ReaderEnds(s) ==
  /\ running \in {None, s} /\ obj[s].reader = "cleaning" /\ job[s].stage \in {"ok", "raised"}
  /\ obj' = [obj EXCEPT ![s].reader = "done"]
  /\ job' = Wake([job EXCEPT ![s] = NoJob], s, job[s].stage)
  /\ running' = None
  /\ UNCHANGED <<provider, pc, local, attempt, cancelled, wire, coordinator, publisher, since, spent>>

-----------------------------------------------------------------------------
(* Whoever else cleans up                                                  *)

\* async_close_session, async_reconcile_monitor, async_close_entry: the cleanup is a new task.
Free(k) ==
  LET idle == {j \in Sweepers : job[j].stage = "none"} IN
  /\ k \in idle /\ k = AnyOf(idle)
  /\ Cardinality(Sweepers \ idle) < left.sweepers
Spawn(k, s) == job' = [job EXCEPT ![k] = [NoJob EXCEPT !.stage = "start", !.of = s]]

CloseSession(k) ==
  /\ Quiet /\ Free(k) /\ Spend("closes")
  /\ {session, negotiation} # {None}
  /\ cancelled' = [o \in Offers |-> cancelled[o] \/ o = negotiation]
  /\ \/ session # None /\ Spawn(k, session)
     \/ session = None /\ UNCHANGED job
  /\ UNCHANGED <<provider, pc, local, attempt, obj, wire, running, coordinator, publisher, since,
                 candidates>>

StaleUnlessFailed(s) == ~Owned(Owner(s)) \/ ~publisher
Stale(s) == obj[s].failed \/ ~Owned(Owner(s)) \/ ~publisher

\* It runs after every poll and relay event (setup_lifecycle.py 122).
Reconcile(k) ==
  /\ Quiet /\ Free(k) /\ job[Unload].stage # "ended"
  /\ session # None /\ Stale(session)
  /\ Spawn(k, session)
  /\ UNCHANGED <<provider, pc, local, attempt, cancelled, obj, wire, running, coordinator, publisher, since, spent>>

CloseEntry ==
  /\ Quiet /\ job[Unload].stage = "none" /\ Spend("unloads")
  /\ cancelled' = [o \in Offers |-> cancelled[o] \/ o = negotiation]
  /\ job' = [job EXCEPT ![Unload] = [NoJob EXCEPT !.stage = "gather", !.on = negotiation]]
  /\ UNCHANGED <<provider, pc, local, attempt, obj, wire, running, coordinator, publisher, since, candidates>>

Gathered ==
  /\ Quiet /\ job[Unload].stage = "gather"
  /\ job[Unload].on # None => pc[job[Unload].on] = "done"
  /\ \/ session # None /\ Spawn(Unload, session)
     \/ session = None /\ job' = [job EXCEPT ![Unload] = [NoJob EXCEPT !.stage = "ended"]]
  /\ UNCHANGED <<provider, pc, local, attempt, cancelled, obj, wire, running, coordinator, publisher, since, spent>>

Start(k) ==
  /\ Quiet /\ job[k].stage = "start"
  /\ Enter(k, job[k].of, TRUE, obj)
  /\ UNCHANGED <<provider, pc, local, attempt, cancelled, wire, coordinator, publisher, since, spent>>

\* A cleanup that waited for another task returns or raises with it.
Resumed(k) ==
  /\ Quiet /\ job[k].stage \in {"ok", "raised"}
  /\ Return(k, job[k].stage)
  /\ UNCHANGED <<provider, pc, local, attempt, cancelled, obj, wire, coordinator, publisher, since, spent>>

\* async_on_webrtc_candidate
Candidate ==
  /\ Quiet /\ Spend("candidates")
  /\ candidates' = candidates + 1
  /\ LET live == session # None /\ ~obj[session].released /\ obj[session].offerSent IN
     /\ pending' = IF live \/ negotiation # None THEN Append(pending, candidates + 1) ELSE pending
     /\ wire' = [s \in Objects |-> IF live /\ s = session THEN Append(wire[s], candidates + 1)
                                   ELSE wire[s]]
  /\ UNCHANGED <<session, negotiation, pc, local, attempt, cancelled, obj, job, running, coordinator,
                 publisher, since>>

\* The coordinator: the generation of a lease ends, the publication goes and comes.
LoseLease(o) ==
  /\ Quiet /\ Spend("moves")
  /\ lease[o] \in {"owned", "stranded"}
  /\ lease' = [lease EXCEPT ![o] = "lost"]
  /\ UNCHANGED <<provider, pc, local, attempt, cancelled, obj, wire, job, running, releases, publisher, since,
                 candidates>>
Publication ==
  /\ Quiet /\ Spend("moves")
  /\ publisher' = ~publisher
  /\ UNCHANGED <<provider, pc, local, attempt, cancelled, obj, wire, job, running, coordinator,
                 since, candidates>>

-----------------------------------------------------------------------------
OfferStep(o) ==
  \/ PreviousEnds(o) \/ OldCleaned(o) \/ Acquired(o) \/ Connected(o) \/ Sent(o) \/ SendFails(o)
  \/ \E kind \in {"retry", "fatal"} : ConnectFails(o, kind)
  \/ Answered(o) \/ Undone(o) \/ SleepEnds(o) \/ Cancelled(o) \/ CleanupCancelled(o)
  \/ Aborted(o) \/ Released(o)
CleanupStep(t) == SocketClosed(t) \/ ViewerReleased(t)
ReaderStep(s) == ReadCancelled(s) \/ ReaderEnds(s)
Remote(s) == ReadAnswer(s) \/ \E kind \in {"retry", "fatal"} : ReadEnds(s, kind)

Next ==
  \/ \E o \in Offers : Begin(o) \/ OfferStep(o) \/ LoseLease(o)
  \/ \E t \in Tasks : CleanupStep(t)
  \/ \E s \in Objects : ReaderStep(s) \/ Remote(s)
  \/ \E k \in Sweepers : CloseSession(k) \/ Reconcile(k)
  \/ \E k \in Cleaners : Start(k) \/ Resumed(k)
  \/ CloseEntry \/ Gathered \/ Candidate \/ Publication

Spec == Init /\ [][Next]_vars

\* Every await of a task ends: the requests have a timeout of the HTTP client, the answer one of
\* ten seconds.  The reader may wait for the remote side for ever.  Reconciliations come with
\* every poll.
Fairness ==
  /\ \A o \in Offers : WF_vars(OfferStep(o))
  /\ \A t \in Tasks : WF_vars(CleanupStep(t))
  /\ \A s \in Objects : WF_vars(ReaderStep(s))
  /\ \A k \in Cleaners : WF_vars(Start(k) \/ Resumed(k))
  /\ WF_vars(Gathered)
  /\ SF_vars(\E k \in Sweepers : Reconcile(k))
FairSpec == Spec /\ Fairness

-----------------------------------------------------------------------------
TypeOK ==
  /\ session \in Objects \cup {None} /\ negotiation \in Offers \cup {None}
  /\ pending \in Seq(1..candidates) /\ candidates \in Nat
  /\ pc \in [Offers -> {"idle", "previous", "old", "acquire", "connect", "send", "answer", "undo",
                        "sleep", "abort", "release", "done"}]
  /\ \A o \in Offers : local[o].state \in {None} \cup ({o} \X (1..attempt[o]))
  /\ attempt \in [Offers -> 0..MaxAttempts] /\ cancelled \in [Offers -> BOOLEAN]
  /\ lease \in [Offers -> {"none", "owned", "released", "stranded", "lost"}]
  /\ running \in Tasks \cup {None}
  /\ \A s \in Objects : obj[s].cleaner \in Tasks \cup {None}
  /\ \A t \in Tasks : job[t].stage \in {"none", "start", "gather", "close", "release", "wait", "ok",
                                         "raised", "ended"}

\* A viewer lease always has somebody who will give it back: its handler, a cleanup that
\* claimed it, or the registered session, which every reconciliation looks at.  The code does
\* not keep this when a sweep's cleanup fails between two attempts (webrtc.py 278-281).
LeaseHeld ==
  \A o \in Offers : Owned(o) =>
    \/ pc[o] # "done"
    \/ session # None /\ Owner(session) = o /\ ~Idle(obj[session])
    \/ \E t \in Tasks : job[t].stage = "close" /\ job[t].release /\ Owner(job[t].of) = o

\* However many tasks clean up, one release of the lease is made that does not fail.
ReleaseOnce == \A o \in Offers : releases[o] <= 1

\* A queue of candidates ends with all those after the first ones, up to the last.
Since(queue, first, last) ==
  LET older == Len(queue) - (last - first)
  IN /\ older >= 0
     /\ \A i \in 1..Len(queue) : IF i <= older THEN queue[i] <= first ELSE queue[i] = first + i - older

\* A socket carries the offer first, then every candidate that came since its negotiation
\* began, once and in order, however its arrival races the sends and the retries.
CandidatesInOrder ==
  session # None /\ obj[session].offerSent /\ ~obj[session].released /\ ~obj[session].failed =>
    /\ wire[session] # <<>> /\ Head(wire[session]) = 0
    /\ Since(wire[session], since[Owner(session)], candidates)

\* Tasks that wait for other tasks (a replaced handler, a cleanup under way, the handlers an
\* unload has cancelled) never wait in a circle.
WaitsOn(t) ==
  IF t \in Offers /\ pc[t] = "previous" THEN local[t].previous
  ELSE IF job[t].stage \in {"wait", "gather"} THEN job[t].on ELSE None
NoCircle ==
  LET waiting == {t \in Tasks : WaitsOn(t) # None} IN
  \A circle \in (SUBSET waiting) \ {{}} : \E t \in circle : WaitsOn(t) \notin circle

\* A cleanup takes away the session it was called for, and no later one under its id.
CleanupExact ==
  [][session # None /\ session' = None =>
       \E t \in Tasks : job[t].of = session /\ job'[t] # job[t]]_vars

\* Whoever leaves gets rid of the lease, at whichever await of its handler it goes (or the
\* whole entry goes, and its coordinator with it).
ViewersLeave == \A o \in Offers : cancelled[o] ~> ~Owned(o) \/ job[Unload].stage = "ended"
=============================================================================
