------------------------------ MODULE AudioHub ------------------------------
(***************************************************************************)
(* AudioListenerHub (audio.py): up to MaxListeners listeners of one call   *)
(* read its speech through one cursor at the bridge, one small cache and   *)
(* one request at a time.  The bridge numbers the chunks of speech it      *)
(* records and keeps the last Window of them.                              *)
(*                                                                         *)
(* Time goes in ticks.  A chunk is one tick long, so its number is also    *)
(* its timestamp; what is 50 ms in the code is a tick here.                *)
(***************************************************************************)
EXTENDS Integers, Sequences, FiniteSets, SequencesExt

CONSTANTS
  Listeners,      \* the ids of listeners, never used twice
  MaxListeners,   \* 4 in the code
  CacheSize,      \* 4 in the code
  MaxLag,         \* 300 ms in the code
  Patience,       \* 5 seconds in the code
  Window,         \* of the bridge
  MaxSpoken       \* bound of a run

ASSUME ConstantsAssumption ==
  {MaxListeners, CacheSize, Patience, Window} \subseteq Nat \ {0} /\ {MaxLag, MaxSpoken} \subseteq Nat

VARIABLES
  spoken,     \* the bridge: number of the newest chunk
  hub,        \* the fields of the hub, with the cursor of each listener
  pc,         \* of the read of each listener
  queue,      \* fetch_lock: who holds it or is about to, then who waits, in their order
  asked,      \* the age of the request under way
  heard,      \* what each listener got last
  quiet       \* ticks since the hub last had a valid reply, or was made

vars == <<spoken, hub, pc, queue, asked, heard, quiet>>

Init ==
  /\ spoken = 0 /\ asked = 0 /\ quiet = 0 /\ queue = <<>>
  /\ hub = [open |-> TRUE, members |-> {}, cursor |-> [l \in Listeners |-> 0],
            broken |-> [l \in Listeners |-> FALSE], cache |-> <<>>, after |-> 0, high |-> 0,
            discarded |-> 0, latest |-> 0, failing |-> FALSE, invalid |-> 0, cooldown |-> 0,
            reply |-> "empty", lost |-> FALSE]
  /\ pc = [l \in Listeners |-> "new"]
  /\ heard = [l \in Listeners |-> [revision |-> 0, gap |-> FALSE]]

-----------------------------------------------------------------------------
(* Pieces of read.  A number that is None in the code is 0.                *)

Closed(h) ==
  [h EXCEPT !.open = FALSE, !.members = {}, !.cache = <<>>, !.after = 0, !.high = 0,
            !.discarded = 0, !.latest = 0, !.failing = FALSE, !.invalid = 0, !.cooldown = 0,
            !.reply = "empty"]

Lost(h) == [Closed(h) EXCEPT !.lost = TRUE]

\* _check_open and _check_listener: what they raise, or "ok".
Expired(h) == h.failing /\ h.invalid >= Patience
Check(h, l) ==
  IF ~h.open THEN "closed" ELSE IF Expired(h) THEN "lost"
  ELSE IF l \notin h.members THEN "gone" ELSE "ok"

Late(h, c) == c.age + h.latest - c.revision > MaxLag

\* _cached: the hub after it and the chunk it returns, if any.
Nothing == [revision |-> 0, gap |-> FALSE]
ForwardedSilently(h, l) ==
  IF h.cursor[l] < h.discarded THEN [h EXCEPT !.cursor[l] = h.discarded] ELSE h
Forwarded(h, l) ==
  IF h.cursor[l] < h.discarded
  THEN [h EXCEPT !.cursor[l] = h.discarded, !.broken[l] = TRUE] ELSE h
Consume(h, l, c, gap) ==
  [hub |-> [h EXCEPT !.cursor[l] = c.revision, !.broken[l] = FALSE],
   chunk |-> [revision |-> c.revision, gap |-> gap]]
Cached(before, l) ==
  LET h == Forwarded(before, l)
      previous == h.cursor[l]
      unseen == {i \in DOMAIN h.cache : h.cache[i].revision > previous}
      first == h.cache[Min(unseen)]
      newest == Last(h.cache)
  IN CASE unseen = {} -> [hub |-> h, chunk |-> Nothing]
       [] unseen # {} /\ ~Late(h, first) ->
            Consume(h, l, first, h.broken[l] \/ (previous # 0 /\ first.previous # previous))
       [] unseen # {} /\ Late(h, first) /\ ~Late(h, newest) -> Consume(h, l, newest, TRUE)
       [] unseen # {} /\ Late(h, first) /\ Late(h, newest) ->
            [hub |-> [h EXCEPT !.cursor[l] = newest.revision, !.broken[l] = TRUE],
             chunk |-> Nothing]

Cooldown(h, reply) == [h EXCEPT !.cooldown = 1, !.reply = reply]

\* The read of l ends, with chunk c if that is something.
Return(l, h, c) ==
  /\ hub' = h
  /\ pc' = [pc EXCEPT ![l] = "idle"]
  /\ queue' = RemoveFirst(queue, l)
  /\ heard' = IF c = Nothing THEN heard ELSE [heard EXCEPT ![l] = c]
Raise(l, h) == Return(l, h, Nothing)

\* With the lock: the checks again, then a request unless the last reply is recent.
Locked(l, h) ==
  LET found == Cached(h, l) IN
  \/ /\ Check(h, l) # "ok"
     /\ Raise(l, IF Check(h, l) = "lost" THEN Lost(h) ELSE h)
     /\ UNCHANGED asked
  \/ /\ Check(h, l) = "ok" /\ (found.chunk # Nothing \/ h.cooldown > 0)
     /\ Return(l, found.hub, found.chunk)
     /\ UNCHANGED asked
  \/ /\ Check(h, l) = "ok" /\ found.chunk = Nothing /\ h.cooldown = 0
     /\ hub' = found.hub
     /\ pc' = [pc EXCEPT ![l] = "request"] /\ asked' = 0
     /\ queue' = IF queue # <<>> /\ Head(queue) = l THEN queue ELSE <<l>>
     /\ UNCHANGED heard

-----------------------------------------------------------------------------
(* add, remove, close                                                      *)

Add(l) ==
  /\ pc[l] = "new" /\ hub.open
  /\ \/ /\ ~Expired(hub) /\ Cardinality(hub.members) < MaxListeners
        /\ hub' = [hub EXCEPT !.members = @ \cup {l}]
        /\ pc' = [pc EXCEPT ![l] = "idle"]
     \/ Expired(hub) /\ hub' = Lost(hub) /\ UNCHANGED pc
  /\ UNCHANGED <<spoken, queue, asked, heard, quiet>>

Without(l) ==
  LET h == [hub EXCEPT !.members = @ \ {l}] IN IF h.members = {} THEN Closed(h) ELSE h

\* Its owner stops it, or is gone.
Leave(l) ==
  /\ l \in hub.members
  /\ hub' = Without(l)
  /\ UNCHANGED <<spoken, pc, queue, asked, heard, quiet>>

\* A cancelled read takes its listener along (websocket.py 439-442).
Cancelled(l) ==
  /\ pc[l] \in {"wait", "request"} /\ l \in hub.members
  /\ Raise(l, Without(l))
  /\ UNCHANGED <<spoken, asked, quiet>>

Close ==
  /\ hub.open /\ hub.members # {} /\ hub' = Closed(hub)
  /\ UNCHANGED <<spoken, pc, queue, asked, heard, quiet>>

-----------------------------------------------------------------------------
(* read                                                                    *)

Read(l) ==
  /\ pc[l] = "idle" /\ l \in hub.members
  /\ LET found == Cached(hub, l) IN
     \/ /\ Check(hub, l) = "lost"
        /\ Raise(l, Lost(hub)) /\ UNCHANGED asked
     \/ /\ Check(hub, l) = "ok" /\ found.chunk # Nothing
        /\ Return(l, found.hub, found.chunk) /\ UNCHANGED asked
     \/ /\ Check(hub, l) = "ok" /\ found.chunk = Nothing /\ queue # <<>>
        /\ hub' = found.hub
        /\ pc' = [pc EXCEPT ![l] = "wait"] /\ queue' = Append(queue, l)
        /\ UNCHANGED <<asked, heard>>
     \/ /\ Check(hub, l) = "ok" /\ found.chunk = Nothing /\ queue = <<>>
        /\ Locked(l, found.hub)
  /\ UNCHANGED <<spoken, quiet>>

Woken(l) ==
  /\ pc[l] = "wait" /\ Head(queue) = l
  /\ Locked(l, hub)
  /\ UNCHANGED <<spoken, quiet>>

\* Every failure starts the deadline again.
RetriedAfresh(l) ==
  /\ pc[l] = "request"
  /\ LET h == [hub EXCEPT !.failing = TRUE, !.invalid = asked] IN
     \/ Check(hub, l) # "ok" /\ Raise(l, IF Check(hub, l) = "lost" THEN Lost(hub) ELSE hub)
     \/ /\ Check(hub, l) = "ok"
        /\ Raise(l, IF Expired(h) THEN Lost(h) ELSE Cooldown(h, "retry"))
  /\ UNCHANGED <<spoken, asked, quiet>>
\* A reply that does not count: an invalid or busy bridge, a request that fails.
Retried(l) ==
  /\ pc[l] = "request"
  /\ LET h == [hub EXCEPT !.failing = TRUE, !.invalid = IF hub.failing THEN @ ELSE asked] IN
     \/ Check(hub, l) # "ok" /\ Raise(l, IF Check(hub, l) = "lost" THEN Lost(hub) ELSE hub)
     \/ /\ Check(hub, l) = "ok"
        /\ Raise(l, IF Expired(h) THEN Lost(h) ELSE Cooldown(h, "retry"))
  /\ UNCHANGED <<spoken, asked, quiet>>

\* The bridge no longer has this call: every listener is told.
Refused(l) ==
  /\ pc[l] = "request"
  /\ Raise(l, IF ~hub.open THEN hub ELSE IF Expired(hub) THEN Lost(hub) ELSE Closed(hub))
  /\ UNCHANGED <<spoken, asked, quiet>>

\* A valid reply, unless the hub was closed or has given up meanwhile.
Valid(l) ==
  /\ pc[l] = "request" /\ hub.open /\ ~Expired(hub)
  /\ quiet' = 0
  /\ UNCHANGED <<spoken, asked>>
\* A valid reply that leaves the deadline of earlier failures running.
StillFailing == hub
Renewed == [hub EXCEPT !.failing = FALSE, !.invalid = 0]

\* A resynchronisation that keeps the expired cursor.
ResyncInPlace(l) ==
  /\ Valid(l) /\ hub.after # 0 /\ hub.after < spoken - Window
  /\ Raise(l, [Renewed EXCEPT !.cache = <<>>,
                 !.cursor = [m \in Listeners |-> IF m \in hub.members THEN 0 ELSE @[m]],
                 !.broken = [m \in Listeners |-> m \in hub.members \/ @[m]]])
Resync(l) ==
  /\ Valid(l) /\ hub.after # 0 /\ hub.after < spoken - Window
  /\ Raise(l, [Renewed EXCEPT !.cache = <<>>, !.after = 0,
                 !.cursor = [m \in Listeners |-> IF m \in hub.members THEN 0 ELSE @[m]],
                 !.broken = [m \in Listeners |-> m \in hub.members \/ @[m]]])

Empty(l) ==
  /\ Valid(l) /\ hub.after = spoken
  /\ Raise(l, IF l \in hub.members THEN Cooldown(Renewed, "empty") ELSE Renewed)

\* Without a cursor the bridge answers with its newest chunk, otherwise with the next one.
Fetched ==
  LET r == IF hub.after = 0 THEN spoken ELSE hub.after + 1 IN
  [revision |-> r, previous |-> r - 1, age |-> 0]
\* A cache without its limit.
StoreAll(h, c) ==
  IF c.revision <= h.high THEN h
  ELSE [h EXCEPT !.high = c.revision, !.latest = IF spoken > @ THEN spoken ELSE @,
                 !.cache = Append(@, c)]
Store(h, c) ==
  IF c.revision <= h.high THEN h
  ELSE [h EXCEPT !.high = c.revision,
                 !.latest = IF spoken > @ THEN spoken ELSE @,
                 !.discarded = IF Len(h.cache) = CacheSize THEN Head(h.cache).revision ELSE @,
                 !.cache = Append(IF Len(@) = CacheSize THEN Tail(@) ELSE @, c)]
\* The reply goes to whoever asked, a listener or not.
ChunkAnyway(l) ==
  /\ Valid(l) /\ hub.after < spoken /\ (hub.after # 0 => hub.after >= spoken - Window)
  /\ LET h == Store([Renewed EXCEPT !.after = IF spoken - Fetched.revision > MaxLag THEN 0
                                              ELSE Fetched.revision], Fetched)
         found == Cached(h, l)
     IN \/ found.chunk # Nothing /\ Return(l, found.hub, found.chunk)
        \/ found.chunk = Nothing /\ Raise(l, Cooldown(found.hub, "empty"))
Chunk(l) ==
  /\ Valid(l) /\ hub.after < spoken /\ (hub.after # 0 => hub.after >= spoken - Window)
  /\ LET h == Store([Renewed EXCEPT !.after = IF spoken - Fetched.revision > MaxLag THEN 0
                                              ELSE Fetched.revision], Fetched)
         found == Cached(h, l)
     IN \/ l \notin hub.members /\ Raise(l, h)
        \/ l \in hub.members /\ found.chunk # Nothing /\ Return(l, found.hub, found.chunk)
        \/ l \in hub.members /\ found.chunk = Nothing /\ Raise(l, Cooldown(found.hub, "empty"))

\* Any reply, and the hub was closed or gives up.
TooLate(l) ==
  /\ pc[l] = "request" /\ (~hub.open \/ Expired(hub))
  /\ Raise(l, IF hub.open THEN Lost(hub) ELSE hub)
  /\ UNCHANGED <<spoken, asked, quiet>>

-----------------------------------------------------------------------------
Speak ==
  /\ spoken < MaxSpoken /\ spoken' = spoken + 1
  /\ UNCHANGED <<hub, pc, queue, asked, heard, quiet>>

UpTo(limit, n) == IF n < limit THEN n + 1 ELSE n
Older(c) == [c EXCEPT !.age = UpTo(MaxLag + 1, @)]
Tick ==
  /\ hub' = [hub EXCEPT !.cooldown = 0, !.invalid = IF hub.failing THEN UpTo(Patience, @) ELSE @,
               !.cache = [i \in DOMAIN @ |-> Older(@[i])]]
  /\ asked' = IF \E l \in Listeners : pc[l] = "request" THEN UpTo(Patience, asked) ELSE 0
  /\ quiet' = UpTo(Patience, quiet)
  /\ UNCHANGED <<spoken, pc, queue, heard>>

Reply(l) == Retried(l) \/ Refused(l) \/ Resync(l) \/ Empty(l) \/ Chunk(l) \/ TooLate(l)

Next ==
  \/ \E l \in Listeners : Add(l) \/ Leave(l) \/ Cancelled(l) \/ Read(l) \/ Woken(l) \/ Reply(l)
  \/ Close \/ Speak \/ Tick

Spec == Init /\ [][Next]_vars

\* Every request ends after two seconds at the latest, and a card reads as long as it listens.
FairSpec ==
  /\ Spec /\ WF_vars(Tick)
  /\ \A l \in Listeners : WF_vars(Read(l) \/ Woken(l) \/ Reply(l))

-----------------------------------------------------------------------------
\* The states of the hub, and the lock with its waiting reads.
TypeOK ==
  /\ spoken \in 0..MaxSpoken
  /\ asked \in 0..Patience /\ quiet \in 0..Patience
  /\ hub.members \subseteq Listeners /\ Cardinality(hub.members) <= MaxListeners
  /\ hub.cursor \in [Listeners -> 0..spoken] /\ hub.broken \in [Listeners -> BOOLEAN]
  /\ {hub.after, hub.high, hub.discarded, hub.latest} \subseteq 0..spoken
  /\ Len(hub.cache) <= CacheSize
  /\ pc \in [Listeners -> {"new", "idle", "wait", "request"}]
  /\ {l \in Listeners : pc[l] \in {"wait", "request"}} = ToSet(queue)
  /\ heard \in [Listeners -> [revision : 0..spoken, gap : BOOLEAN]]

\* Through the shared cursor, cache and request each listener gets what AudioDelivery promises,
\* across evictions, lagging readers and resynchronisations.
Delivery == INSTANCE AudioDelivery WITH spoken <- spoken, heard <- heard
Delivered == Delivery!Spec

\* Who has left the hub by the time the reply arrives hears nothing of it.
MembersOnly == [][\A l \in Listeners : heard'[l] # heard[l] => l \in hub.members]_vars

\* The connection counts as lost only after Patience without any valid reply.
LostLate == [][hub'.lost /\ ~hub.lost => quiet >= Patience]_vars

\* A hub whose listeners go on reading does not stay in doubt: the bridge is back or it gives up.
Settled == hub.failing ~> ~hub.failing

\* The newest chunk is asked for in the end, however the cursor was set back.
NewestFetched == spoken = MaxSpoken ~> hub.high = MaxSpoken \/ hub.members = {}
=============================================================================
