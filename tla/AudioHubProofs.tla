---------------------------- MODULE AudioHubProofs ----------------------------
(***************************************************************************)
(* Proofs about AudioHub, for any number of listeners and any sizes of the *)
(* cache, the lag, the patience and the window: the hub delivers what      *)
(* AudioDelivery promises.                                                 *)
(***************************************************************************)
EXTENDS AudioHub, FiniteSetTheorems, WellFoundedInduction, SequenceTheorems, TLAPS

-----------------------------------------------------------------------------
(* The inductive invariant                                                 *)

Chunks == [revision : Nat, previous : Int, age : Nat]
Hub ==
  [open : BOOLEAN, members : SUBSET Listeners, cursor : [Listeners -> Nat],
   broken : [Listeners -> BOOLEAN], cache : Seq(Chunks), after : Nat, high : Nat,
   discarded : Nat, latest : Nat, failing : BOOLEAN, invalid : Nat, cooldown : Nat,
   reply : {"empty", "retry"}, lost : BOOLEAN]
Hearings == [Listeners -> [revision : Nat, gap : BOOLEAN]]

\* The cache is in the order of the recording, after what was discarded, and within what the
\* bridge has.
CacheOK(h, s) ==
  /\ Len(h.cache) <= CacheSize
  /\ \A i \in DOMAIN h.cache :
       /\ h.cache[i].previous = h.cache[i].revision - 1
       /\ h.discarded < h.cache[i].revision /\ h.cache[i].revision <= h.high
  /\ \A i, j \in DOMAIN h.cache : i < j => h.cache[i].revision < h.cache[j].revision
  /\ h.discarded <= h.high /\ h.high <= s /\ h.after <= s /\ h.latest <= s
  /\ ~h.open => h.cache = <<>>

\* What the cursor of a listener, wherever it was set, means for what the listener has heard.
CursorOK(h, hd, s, l) ==
  /\ h.open => hd[l].revision <= h.high
  /\ \A i \in DOMAIN h.cache :
       h.cache[i].revision > h.cursor[l] => h.cache[i].revision > hd[l].revision
  /\ ~h.broken[l] => h.cursor[l] = hd[l].revision
  /\ h.cursor[l] <= s /\ hd[l].revision <= s

HubOK(h, hd, s) ==
  /\ h \in Hub /\ hd \in Hearings /\ s \in Nat
  /\ CacheOK(h, s)
  /\ \A l \in Listeners : CursorOK(h, hd, s, l)

\* What a read of the cache leaves alone.
Keeps(h, g) ==
  /\ g.open = h.open /\ g.members = h.members /\ g.cache = h.cache /\ g.after = h.after
  /\ g.high = h.high /\ g.discarded = h.discarded /\ g.latest = h.latest
  /\ g.failing = h.failing /\ g.invalid = h.invalid /\ g.cooldown = h.cooldown
  /\ g.reply = h.reply /\ g.lost = h.lost

\* A chunk that AudioDelivery lets a listener hear.
Promised(hd, s, l, c) ==
  /\ c \in [revision : 1..s, gap : BOOLEAN]
  /\ hd[l].revision < c.revision
  /\ hd[l].revision # 0 /\ c.revision # hd[l].revision + 1 => c.gap

\* What a listener has heard after a read that returned c.
After(hd, l, c) == IF c = Nothing THEN hd ELSE [hd EXCEPT ![l] = c]

\* The hub after the cursor of a listener moved.
Moved(h, l, n, b) == [h EXCEPT !.cursor[l] = n, !.broken[l] = b]

\* What a read of the cache does.
Serves(h, hd, s, l, found) ==
  /\ HubOK(found.hub, After(hd, l, found.chunk), s)
  /\ Keeps(h, found.hub)
  /\ found.chunk # Nothing => Promised(hd, s, l, found.chunk)

-----------------------------------------------------------------------------
(* Operators                                                               *)

\* Any nonempty set of numbers has a least one.
LEMMA LeastNumber ==
  ASSUME NEW S \in SUBSET Nat, S # {}
  PROVE  Min(S) \in S /\ \A n \in S : Min(S) <= n
<1> DEFINE Below == {pair \in Nat \X Nat : pair[1] < pair[2]}
<1>1. IsWellFoundedOn(Below, Nat)
  <2>1. Below = OpToRel(<, Nat)
    BY DEF OpToRel
  <2> QED BY <2>1, NatLessThanWellFounded
<1>2. PICK m \in S : \A n \in S : ~ (<<n, m>> \in Below)
  <2> HIDE DEF Below
  <2> QED BY <1>1, WFMin
<1>3. ASSUME NEW n \in S PROVE m <= n
  <2>1. n \in Nat /\ m \in Nat
    OBVIOUS
  <2>2. n < m => <<n, m>> \in Below
    BY <2>1
  <2> QED BY <1>2, <2>1, <2>2
<1> QED BY <1>2, <1>3 DEF Min

\* A listener's cursor moves.
LEMMA CursorMoved ==
  ASSUME NEW h \in Hub, NEW l \in Listeners, NEW n \in Nat, NEW b \in BOOLEAN
  PROVE  /\ Moved(h, l, n, b) \in Hub /\ Keeps(h, Moved(h, l, n, b))
         /\ Moved(h, l, n, b).cursor = [h.cursor EXCEPT ![l] = n]
         /\ Moved(h, l, n, b).broken = [h.broken EXCEPT ![l] = b]
<1> DEFINE g == [h EXCEPT !.cursor[l] = n, !.broken[l] = b]
<1>1. g \in Hub
  BY DEF Hub
<1>2. Keeps(h, g)
  BY DEF Hub, Keeps
<1>3. g.cursor = [h.cursor EXCEPT ![l] = n]
  BY DEF Hub
<1>4. g.broken = [h.broken EXCEPT ![l] = b]
  BY DEF Hub
<1> QED BY <1>1, <1>2, <1>3, <1>4 DEF Moved

LEMMA HubMoved ==
  ASSUME NEW h, NEW hd, NEW s, NEW l \in Listeners, HubOK(h, hd, s),
         NEW n \in Nat, NEW b \in BOOLEAN, NEW g \in Hub, Keeps(h, g),
         g.cursor = [h.cursor EXCEPT ![l] = n], g.broken = [h.broken EXCEPT ![l] = b],
         NEW hd2 \in Hearings, \A m \in Listeners \ {l} : hd2[m] = hd[m],
         CursorOK(g, hd2, s, l)
  PROVE  HubOK(g, hd2, s)
<1>1. CacheOK(g, s)
  BY DEF HubOK, CacheOK, Keeps
<1>2. ASSUME NEW m \in Listeners, m # l PROVE CursorOK(g, hd2, s, m)
  <2>1. g.cursor[m] = h.cursor[m] /\ g.broken[m] = h.broken[m] /\ hd2[m] = hd[m]
    BY <1>2 DEF HubOK, Hub
  <2> QED BY <2>1 DEF HubOK, CursorOK, Keeps
<1> QED BY <1>1, <1>2 DEF HubOK

LEMMA ForwardedOK ==
  ASSUME NEW h, NEW hd, NEW s, NEW l \in Listeners, HubOK(h, hd, s)
  PROVE  HubOK(Forwarded(h, l), hd, s) /\ Keeps(h, Forwarded(h, l))
<1>1. CASE ~(h.cursor[l] < h.discarded)
  BY <1>1 DEF Forwarded, Keeps
<1>2. CASE h.cursor[l] < h.discarded
  <2> DEFINE g == Moved(h, l, h.discarded, TRUE)
  <2>1. h \in Hub /\ hd \in Hearings /\ h.discarded \in Nat /\ s \in Nat
    BY DEF HubOK, Hub
  <2>2. /\ g \in Hub /\ Keeps(h, g)
        /\ g.cursor = [h.cursor EXCEPT ![l] = h.discarded]
        /\ g.broken = [h.broken EXCEPT ![l] = TRUE]
    <3>1. ASSUME NEW n \in Nat, NEW b \in BOOLEAN
          PROVE  /\ Moved(h, l, n, b) \in Hub /\ Keeps(h, Moved(h, l, n, b))
                 /\ Moved(h, l, n, b).cursor = [h.cursor EXCEPT ![l] = n]
                 /\ Moved(h, l, n, b).broken = [h.broken EXCEPT ![l] = b]
      BY <2>1, CursorMoved
    <3> QED BY <2>1, <3>1
  <2> HIDE DEF g
  <2>3. g.cursor[l] = h.discarded /\ g.broken[l] = TRUE
    BY <2>1, <2>2 DEF Hub
  <2>4. CursorOK(g, hd, s, l)
    <3>1. h.high \in Nat /\ \A i \in DOMAIN h.cache : h.cache[i] \in Chunks
      BY <2>1 DEF Hub
    <3>2. h.cursor[l] \in Nat /\ hd[l].revision \in Nat
      BY <2>1 DEF Hub, Hearings
    <3> QED BY <1>2, <2>1, <2>2, <2>3, <3>1, <3>2 DEF HubOK, CursorOK, CacheOK, Keeps, Chunks
  <2>5. HubOK(g, hd, s)
    BY <2>1, <2>2, <2>4, HubMoved
  <2>6. Forwarded(h, l) = g
    BY <1>2 DEF Forwarded, Moved, g
  <2> QED BY <2>2, <2>5, <2>6
<1> QED BY <1>1, <1>2

\* The cursor moves to an entry of the cache that the listener has not seen.
LEMMA Unseen ==
  ASSUME NEW h, NEW hd, NEW s, NEW l \in Listeners, HubOK(h, hd, s),
         NEW i \in DOMAIN h.cache, h.cache[i].revision > h.cursor[l],
         NEW r, r = h.cache[i].revision, NEW b \in BOOLEAN, NEW gap \in BOOLEAN
  PROVE  /\ Keeps(h, Moved(h, l, r, b))
         /\ b = TRUE => HubOK(Moved(h, l, r, b), hd, s)
         /\ b = FALSE => HubOK(Moved(h, l, r, b), [hd EXCEPT ![l] = [revision |-> r, gap |-> gap]], s)
         /\ r \in 1..s /\ hd[l].revision < r
<1> DEFINE g == Moved(h, l, r, b)
           c == [revision |-> r, gap |-> gap]
           after == [hd EXCEPT ![l] = c]
<1>1. /\ h \in Hub /\ hd \in Hearings /\ s \in Nat /\ h.cursor[l] \in Nat /\ h.high \in Nat
      /\ hd[l].revision \in Nat
  BY DEF HubOK, Hub, Hearings
<1>2. \A k \in DOMAIN h.cache : h.cache[k] \in Chunks
  BY <1>1 DEF Hub
<1>3. r \in Nat /\ r \in 1..s /\ hd[l].revision < r /\ r <= h.high
  <2>1. r \in Nat /\ r <= h.high /\ h.high <= s
    BY <1>1, <1>2 DEF HubOK, CacheOK, Chunks
  <2>2. hd[l].revision < r
    BY <2>1, <1>1 DEF HubOK, CursorOK
  <2> QED BY <1>1, <2>1, <2>2
<1>4. /\ g \in Hub /\ Keeps(h, g)
      /\ g.cursor = [h.cursor EXCEPT ![l] = r]
      /\ g.broken = [h.broken EXCEPT ![l] = b]
  BY <1>1, <1>3, CursorMoved
<1> HIDE DEF g
<1>5. g.cursor[l] = r /\ g.broken[l] = b
  BY <1>1, <1>4 DEF Hub
<1>6. ASSUME b = TRUE PROVE HubOK(g, hd, s)
  <2>1. CursorOK(g, hd, s, l)
    <3>1. \A k \in DOMAIN h.cache : h.cache[k].revision \in Nat
      BY <1>2 DEF Chunks
    <3>2. g.cache = h.cache /\ g.open = h.open /\ g.high = h.high
      BY <1>4 DEF Keeps
    <3>3. ASSUME NEW k \in DOMAIN g.cache, g.cache[k].revision > g.cursor[l]
          PROVE  g.cache[k].revision > hd[l].revision
      BY <1>1, <1>3, <1>5, <3>1, <3>2, <3>3
    <3>4. h.open => hd[l].revision <= h.high
      BY DEF HubOK, CursorOK
    <3> QED BY <1>1, <1>3, <1>5, <1>6, <3>2, <3>3, <3>4 DEF CursorOK
  <2> QED BY <1>1, <1>3, <1>4, <2>1, HubMoved
<1>7. ASSUME b = FALSE PROVE HubOK(g, after, s)
  <2>1. after \in Hearings /\ after[l].revision = r /\ \A m \in Listeners \ {l} : after[m] = hd[m]
    BY <1>1, <1>3 DEF Hearings
  <2> HIDE DEF after
  <2>2. CursorOK(g, after, s, l)
    BY <2>1, <1>1, <1>2, <1>3, <1>4, <1>5, <1>7 DEF HubOK, CursorOK, Keeps, Chunks
  <2> QED BY <1>1, <1>3, <1>4, <2>1, <2>2, HubMoved
<1> QED BY <1>3, <1>4, <1>6, <1>7 DEF g

\* What a read of the cache returns is what the listener is promised, and the hub stays in order.
LEMMA CachedOK ==
  ASSUME NEW before, NEW hd, NEW s, NEW l \in Listeners, HubOK(before, hd, s)
  PROVE  Serves(before, hd, s, l, Cached(before, l))
<1> DEFINE h == Forwarded(before, l)
           previous == h.cursor[l]
           unseen == {i \in DOMAIN h.cache : h.cache[i].revision > previous}
           first == h.cache[Min(unseen)]
           newest == Last(h.cache)
           gap == h.broken[l] \/ (previous # 0 /\ first.previous # previous)
           found == Cached(before, l)
<1>1. HubOK(h, hd, s) /\ Keeps(before, h)
  BY ForwardedOK
<1>0. found = CASE unseen = {} -> [hub |-> h, chunk |-> Nothing]
       [] unseen # {} /\ ~Late(h, first) -> Consume(h, l, first, gap)
       [] unseen # {} /\ Late(h, first) /\ ~Late(h, newest) -> Consume(h, l, newest, TRUE)
       [] unseen # {} /\ Late(h, first) /\ Late(h, newest) ->
            [hub |-> [h EXCEPT !.cursor[l] = newest.revision, !.broken[l] = TRUE],
             chunk |-> Nothing]
  BY DEF Cached
<1> HIDE DEF found, h
<1>2. /\ h \in Hub /\ h.cache \in Seq(Chunks) /\ previous \in Nat /\ h.broken[l] \in BOOLEAN
      /\ hd \in Hearings /\ hd[l].revision \in Nat
  BY <1>1 DEF HubOK, Hub, Hearings
<1>3. CASE unseen = {}
  <2>1. found.hub = h /\ found.chunk = Nothing
    BY <1>0, <1>3
  <2> QED BY <1>1, <2>1 DEF After, Serves, found
<1>4. ASSUME unseen # {}
      PROVE  /\ Min(unseen) \in DOMAIN h.cache /\ first.revision > previous
             /\ Len(h.cache) \in DOMAIN h.cache /\ newest = h.cache[Len(h.cache)]
             /\ newest.revision > previous
  <2>1. unseen \in SUBSET Nat
    BY <1>2
  <2>2. Min(unseen) \in unseen
    <3> HIDE DEF unseen
    <3> QED BY <1>4, <2>1, LeastNumber
  <2>3. Min(unseen) \in DOMAIN h.cache /\ first.revision > previous
    BY <2>2
  <2> DEFINE k == Min(unseen)
  <2> HIDE DEF k
  <2>4. k \in 1..Len(h.cache) /\ h.cache[k].revision > previous
    BY <2>3, <1>2 DEF k
  <2>5. Len(h.cache) \in DOMAIN h.cache /\ newest = h.cache[Len(h.cache)]
    BY <2>4, <1>2 DEF Last
  <2>6. h.cache[Len(h.cache)].revision > previous
    <3>1. \A n \in DOMAIN h.cache : h.cache[n].revision \in Nat
      <4>1. \A n \in DOMAIN h.cache : h.cache[n] \in Chunks
        BY <1>2
      <4> QED BY <4>1 DEF Chunks
    <3>2. k < Len(h.cache) => h.cache[k].revision < h.cache[Len(h.cache)].revision
      BY <1>1, <2>4, <2>5, <1>2 DEF HubOK, CacheOK
    <3>3. Len(h.cache) \in Nat /\ DOMAIN h.cache = 1..Len(h.cache)
      BY <1>2
    <3> QED BY <1>2, <2>4, <2>5, <3>1, <3>2, <3>3
  <2> QED BY <2>3, <2>5, <2>6
<1>5. ASSUME NEW i \in DOMAIN h.cache, h.cache[i].revision > previous, NEW told \in BOOLEAN,
             found = Consume(h, l, h.cache[i], told),
             hd[l].revision # 0 /\ h.cache[i].revision # hd[l].revision + 1 => told
      PROVE  Serves(before, hd, s, l, found)
  <2> DEFINE r == h.cache[i].revision
             g == Moved(h, l, r, FALSE)
             c == [revision |-> r, gap |-> told]
  <2>1. /\ Keeps(h, g) /\ HubOK(g, [hd EXCEPT ![l] = c], s)
        /\ r \in 1..s /\ hd[l].revision < r
    <3> HIDE DEF r
    <3> QED BY <1>1, <1>5, Unseen DEF r
  <2>2. found.hub = g /\ found.chunk = c
    BY <1>5 DEF Consume, Moved
  <2>3. c # Nothing
    <3>1. c.revision = r /\ Nothing.revision = 0
      BY DEF Nothing
    <3>2. r # 0
      BY <2>1, <1>2
    <3> QED BY <3>1, <3>2
  <2>4. Promised(hd, s, l, c)
    <3>1. c.revision = r /\ c.gap = told
      OBVIOUS
    <3>2. c \in [revision : 1..s, gap : BOOLEAN]
      BY <2>1
    <3> HIDE DEF c
    <3> QED BY <3>1, <3>2, <2>1, <1>5 DEF Promised
  <2>5. After(hd, l, c) = [hd EXCEPT ![l] = c]
    BY <2>3 DEF After
  <2>6. Keeps(before, g)
    <3> HIDE DEF g
    <3> QED BY <1>1, <2>1 DEF Keeps
  <2> HIDE DEF g, c
  <2> QED BY <2>1, <2>2, <2>4, <2>5, <2>6 DEF Serves
<1>6. CASE unseen # {} /\ ~Late(h, first)
  <2>1. found = Consume(h, l, first, gap)
    BY <1>0, <1>6
  <2>2. hd[l].revision # 0 /\ first.revision # hd[l].revision + 1 => gap
    <3>1. ~h.broken[l] => previous = hd[l].revision
      BY <1>1 DEF HubOK, CursorOK
    <3>2. first.previous = first.revision - 1 /\ first.revision \in Nat
      <4>1. Min(unseen) \in DOMAIN h.cache
        BY <1>4, <1>6
      <4>2. \A i \in DOMAIN h.cache : h.cache[i].previous = h.cache[i].revision - 1
        BY <1>1 DEF HubOK, CacheOK
      <4>3. \A i \in DOMAIN h.cache : h.cache[i].revision \in Nat
        <5>1. \A i \in DOMAIN h.cache : h.cache[i] \in Chunks
          BY <1>2
        <5> QED BY <5>1 DEF Chunks
      <4> QED BY <4>1, <4>2, <4>3
    <3> HIDE DEF first
    <3> QED BY <1>2, <3>1, <3>2
  <2>3. gap \in BOOLEAN
    BY <1>2
  <2> HIDE DEF gap
  <2>4. Min(unseen) \in DOMAIN h.cache /\ first.revision > previous
    BY <1>4, <1>6
  <2>5. Serves(before, hd, s, l, found)
    <3> HIDE DEF unseen
    <3> QED BY <1>5, <2>1, <2>2, <2>3, <2>4
  <2> QED BY <2>5 DEF found
<1>7. CASE unseen # {} /\ Late(h, first) /\ ~Late(h, newest)
  <2>1. found = Consume(h, l, newest, TRUE)
    BY <1>0, <1>7
  <2>2. Len(h.cache) \in DOMAIN h.cache /\ newest = h.cache[Len(h.cache)] /\ newest.revision > previous
    BY <1>4, <1>7
  <2>3. Serves(before, hd, s, l, found)
    <3> HIDE DEF newest
    <3> QED BY <1>5, <2>1, <2>2
  <2> QED BY <2>3 DEF found
<1>8. CASE unseen # {} /\ Late(h, first) /\ Late(h, newest)
  <2> DEFINE g == Moved(h, l, newest.revision, TRUE)
  <2>1. found = [hub |-> g, chunk |-> Nothing]
    BY <1>0, <1>8 DEF Moved
  <2>2. Keeps(h, g) /\ HubOK(g, hd, s)
    <3> HIDE DEF unseen, newest
    <3> QED BY <1>1, <1>4, <1>8, Unseen
  <2>3. found.hub = g /\ found.chunk = Nothing
    BY <2>1
  <2> HIDE DEF g
  <2>4. Keeps(before, g)
    BY <1>1, <2>2 DEF Keeps
  <2> QED BY <2>2, <2>3, <2>4 DEF After, Serves, found
<1> QED BY <1>3, <1>6, <1>7, <1>8 DEF found
-----------------------------------------------------------------------------
(* The lock                                                                *)

\* A read leaves the lock: the others keep their order.
LEMMA Removed ==
  ASSUME NEW S, NEW q \in Seq(S), NEW e,
         \A i, j \in DOMAIN q : q[i] = q[j] => i = j
  PROVE  /\ RemoveFirst(q, e) \in Seq(S)
         /\ \A i, j \in DOMAIN RemoveFirst(q, e) :
              RemoveFirst(q, e)[i] = RemoveFirst(q, e)[j] => i = j
         /\ \A x : (\E i \in DOMAIN RemoveFirst(q, e) : RemoveFirst(q, e)[i] = x)
                     <=> x # e /\ \E i \in DOMAIN q : q[i] = x
         /\ q # <<>> /\ q[1] # e => RemoveFirst(q, e)[1] = q[1]
<1> DEFINE r == RemoveFirst(q, e)
           n == Len(q)
<1>1. n \in Nat /\ DOMAIN q = 1..n
  OBVIOUS
<1>2. CASE ~ \E i \in 1..n : q[i] = e
  <2>1. r = q
    BY <1>2 DEF RemoveFirst
  <2> HIDE DEF r
  <2> QED BY <1>1, <1>2, <2>1 DEF r
<1>3. CASE \E i \in 1..n : q[i] = e
  <2> DEFINE I == {i \in 1..n : q[i] = e}
             k == Min(I)
  <2>1. k \in I
    <3>1. I \in SUBSET Nat /\ I # {}
      BY <1>1, <1>3
    <3> HIDE DEF I
    <3> QED BY <3>1, LeastNumber
  <2>2. r = RemoveAt(q, k)
    <3>1. SelectInSeq(q, LAMBDA v : v = e) = k
      BY <1>3 DEF SelectInSeq
    <3> HIDE DEF k
    <3> QED BY <1>3, <3>1 DEF RemoveFirst
  <2>3. k \in 1..n /\ q[k] = e
    BY <2>1
  <2> HIDE DEF k, r
  <2>4. r = SubSeq(q, 1, k - 1) \o SubSeq(q, k + 1, n)
    BY <2>2 DEF RemoveAt
  <2> DEFINE left == SubSeq(q, 1, k - 1)
             right == SubSeq(q, k + 1, n)
  <2>5. /\ left \in Seq(S) /\ Len(left) = k - 1 /\ \A i \in 1..(k - 1) : left[i] = q[i]
        /\ right \in Seq(S) /\ Len(right) = n - k /\ \A i \in 1..(n - k) : right[i] = q[k + i]
    <3>1. k - 1 \in Int /\ k + 1 \in Int /\ n \in Int
      BY <1>1, <2>3
    <3>2. (\A i \in 1..(k - 1) : q[i] \in S) /\ \A i \in (k + 1)..n : q[i] \in S
      BY <1>1, <2>3, ElementOfSeq
    <3>3. /\ left \in Seq(S)
          /\ Len(left) = IF 1 <= k - 1 THEN k - 1 - 1 + 1 ELSE 0
          /\ \A i \in 1..(k - 1 - 1 + 1) : left[i] = q[1 + i - 1]
      BY <3>1, <3>2, SubSeqProperties
    <3>4. /\ right \in Seq(S)
          /\ Len(right) = IF k + 1 <= n THEN n - (k + 1) + 1 ELSE 0
          /\ \A i \in 1..(n - (k + 1) + 1) : right[i] = q[k + 1 + i - 1]
      BY <3>1, <3>2, SubSeqProperties
    <3> HIDE DEF left, right
    <3>0. k \in Int /\ n \in Int /\ 1 <= k /\ k <= n
      BY <1>1, <2>3
    <3>5. Len(left) = k - 1 /\ Len(right) = n - k
      <4>1. Len(left) = k - 1
        <5>1. CASE 1 <= k - 1
          BY <3>0, <3>3, <5>1
        <5>2. CASE ~(1 <= k - 1)
          BY <3>0, <3>3, <5>2
        <5> QED BY <5>1, <5>2
      <4>2. Len(right) = n - k
        <5>1. CASE k + 1 <= n
          BY <3>0, <3>4, <5>1
        <5>2. CASE ~(k + 1 <= n)
          BY <3>0, <3>4, <5>2
        <5> QED BY <5>1, <5>2
      <4> QED BY <4>1, <4>2
    <3>6. ASSUME NEW i \in 1..(k - 1) PROVE left[i] = q[i]
      BY <1>1, <2>3, <3>3, 1 + i - 1 = i
    <3>7. ASSUME NEW i \in 1..(n - k) PROVE right[i] = q[k + i]
      <4>1. k + 1 + i - 1 = k + i /\ i \in 1..(n - (k + 1) + 1)
        BY <3>0
      <4> QED BY <3>4, <4>1
    <3> QED BY <3>3, <3>4, <3>5, <3>6, <3>7
  <2>6. r = left \o right
    BY <2>4
  <2> HIDE DEF left, right
  <2>7. left \o right \in Seq(S) /\ Len(left \o right) = Len(left) + Len(right)
         /\ \A i \in 1..(Len(left) + Len(right)) :
              (left \o right)[i] = IF i <= Len(left) THEN left[i] ELSE right[i - Len(left)]
    BY <2>5, ConcatProperties, ZenonT(60)
  <2>8. r \in Seq(S) /\ Len(r) = n - 1
    BY <1>1, <2>3, <2>5, <2>6, <2>7
  <2>9. \A i \in 1..(n - 1) : r[i] = q[IF i < k THEN i ELSE i + 1]
    <3>1. TAKE i \in 1..(n - 1)
    <3>3. CASE i < k
      <4>1. r[i] = left[i]
        BY <1>1, <2>3, <2>5, <2>6, <2>7, <3>3
      <4> QED BY <1>1, <2>3, <2>5, <3>3, <4>1
    <3>4. CASE ~(i < k)
      <4>1. r[i] = right[i - (k - 1)] /\ i - (k - 1) \in 1..(n - k)
        BY <1>1, <2>3, <2>5, <2>6, <2>7, <3>4
      <4>2. right[i - (k - 1)] = q[k + (i - (k - 1))]
        BY <2>5, <4>1
      <4>3. k + (i - (k - 1)) = i + 1
        BY <1>1, <2>3
      <4> QED BY <3>4, <4>1, <4>2, <4>3
    <3> QED BY <3>3, <3>4
  <2>10. DOMAIN r = 1..(n - 1)
    BY <1>1, <2>3, <2>8
  <2>11. \A i, j \in DOMAIN r : r[i] = r[j] => i = j
    BY <1>1, <2>3, <2>9, <2>10
  <2>12. ASSUME NEW x PROVE (\E i \in DOMAIN r : r[i] = x) <=> x # e /\ \E i \in DOMAIN q : q[i] = x
    <3>1. ASSUME NEW i \in DOMAIN r, r[i] = x PROVE x # e /\ \E j \in DOMAIN q : q[j] = x
      BY <1>1, <2>3, <2>9, <2>10, <3>1
    <3>2. ASSUME x # e, NEW j \in DOMAIN q, q[j] = x PROVE \E i \in DOMAIN r : r[i] = x
      <4> DEFINE i == IF j < k THEN j ELSE j - 1
      <4>1. j # k
        BY <2>3, <3>2
      <4>2. i \in DOMAIN r /\ r[i] = q[j]
        BY <1>1, <2>3, <2>9, <2>10, <4>1
      <4> QED BY <3>2, <4>2
    <3> QED BY <3>1, <3>2
  <2>13. q # <<>> /\ q[1] # e => r[1] = q[1]
    BY <1>1, <2>3, <2>9
  <2> QED BY <2>8, <2>11, <2>12, <2>13 DEF r
<1> QED BY <1>2, <1>3
-----------------------------------------------------------------------------
(* What becomes of the hub                                                 *)

\* The listeners fit, and no failure counts for longer than no valid reply has come.
MembersOK == IsFiniteSet(hub.members) /\ Cardinality(hub.members) <= MaxListeners
ClockOK ==
  /\ asked \in 0..Patience /\ quiet \in 0..Patience
  /\ hub.invalid <= Patience /\ (hub.failing => hub.invalid <= quiet)
  /\ \A l \in Listeners : pc[l] = "request" => asked <= quiet

\* Waiting and asking are what the lock knows of; who asks is at its head.
LockOK ==
  /\ pc \in [Listeners -> {"new", "idle", "wait", "request"}]
  /\ queue \in Seq(Listeners)
  /\ \A i, j \in DOMAIN queue : queue[i] = queue[j] => i = j
  /\ \A l \in Listeners : pc[l] \in {"wait", "request"} <=> \E i \in DOMAIN queue : queue[i] = l
  /\ \A l \in Listeners : pc[l] = "request" => queue[1] = l

IInv ==
  /\ HubOK(hub, heard, spoken) /\ spoken \in 0..MaxSpoken
  /\ MembersOK /\ ClockOK /\ LockOK

\* A hub that may take the place of the present one, with what was heard by then and the time
\* since a valid reply.
Sound(h, hd, q) ==
  /\ HubOK(h, hd, spoken)
  /\ h.members \subseteq hub.members
  /\ h.invalid <= Patience /\ (h.failing => h.invalid <= q)
  /\ h.lost => hub.lost \/ quiet >= Patience

LEMMA SoundSelf ==
  ASSUME IInv
  PROVE  Sound(hub, heard, quiet)
BY DEF IInv, ClockOK, Sound

\* The fields that the order of the cache and the cursors depend on.
LEMMA HubSame ==
  ASSUME NEW h, NEW hd, NEW s, HubOK(h, hd, s), NEW g \in Hub,
         g.open = h.open, g.cache = h.cache, g.high = h.high, g.discarded = h.discarded,
         g.latest = h.latest, g.cursor = h.cursor, g.broken = h.broken, g.after <= s
  PROVE  HubOK(g, hd, s)
<1>1. CacheOK(g, s)
  BY DEF HubOK, CacheOK
<1>2. \A l \in Listeners : CursorOK(g, hd, s, l)
  BY DEF HubOK, CursorOK
<1> QED BY <1>1, <1>2 DEF HubOK

\* An empty cache leaves nothing to hear twice.
LEMMA HubEmptied ==
  ASSUME NEW h, NEW hd, NEW s, HubOK(h, hd, s), NEW g \in Hub,
         g.cache = <<>>, g.high <= s, g.discarded <= g.high, g.latest <= s, g.after <= s,
         \A l \in Listeners : /\ g.open => hd[l].revision <= g.high
                              /\ g.cursor[l] <= s
                              /\ ~g.broken[l] => g.cursor[l] = hd[l].revision
  PROVE  HubOK(g, hd, s)
<1>1. CacheOK(g, s)
  <2>1. Len(<<>>) = 0 /\ DOMAIN <<>> = {} /\ CacheSize \in Nat
    BY ConstantsAssumption
  <2> QED BY <2>1 DEF CacheOK
<1>2. \A l \in Listeners : CursorOK(g, hd, s, l)
  <2>1. DOMAIN <<>> = {}
    OBVIOUS
  <2> QED BY <2>1 DEF HubOK, CursorOK
<1> QED BY <1>1, <1>2 DEF HubOK

LEMMA ClosedSound ==
  ASSUME NEW h, NEW hd, NEW q \in Nat, Sound(h, hd, q)
  PROVE  Sound(Closed(h), hd, q)
<1> DEFINE g == Closed(h)
<1>0. h \in Hub /\ hd \in Hearings /\ spoken \in Nat /\ <<>> \in Seq(Chunks)
  BY DEF Sound, HubOK
<1>1. g \in Hub
  BY <1>0 DEF Hub, Closed
<1>2. /\ g.cache = <<>> /\ g.high = 0 /\ g.discarded = 0 /\ g.latest = 0 /\ g.after = 0
      /\ g.open = FALSE /\ g.cursor = h.cursor /\ g.broken = h.broken
  BY <1>0 DEF Hub, Closed
<1>3. g.members = {} /\ g.failing = FALSE /\ g.invalid = 0 /\ g.lost = h.lost
  BY <1>0 DEF Hub, Closed
<1> HIDE DEF g
<1>4. HubOK(g, hd, spoken)
  <2>1. \A l \in Listeners : h.cursor[l] <= spoken /\ (~h.broken[l] => h.cursor[l] = hd[l].revision)
    BY DEF Sound, HubOK, CursorOK
  <2>2. HubOK(h, hd, spoken)
    BY DEF Sound
  <2> QED BY <1>0, <1>1, <1>2, <2>1, <2>2, HubEmptied
<1>5. 0 <= Patience
  BY ConstantsAssumption
<1> QED BY <1>3, <1>4, <1>5 DEF Sound, g

LEMMA LostSound ==
  ASSUME IInv, NEW h, NEW hd, NEW q \in Nat, Sound(h, hd, q), Expired(h), q <= quiet
  PROVE  Sound(Lost(h), hd, q)
<1> DEFINE c == Closed(h)
           g == Lost(h)
<1>1. Sound(c, hd, q)
  BY ClosedSound
<1> HIDE DEF c
<1>2. c \in Hub
  BY <1>1 DEF Sound, HubOK
<1>3. g = [c EXCEPT !.lost = TRUE]
  BY DEF Lost, c
<1>4. g \in Hub
  BY <1>2, <1>3 DEF Hub
<1>5. /\ g.open = c.open /\ g.cache = c.cache /\ g.high = c.high /\ g.discarded = c.discarded
      /\ g.latest = c.latest /\ g.cursor = c.cursor /\ g.broken = c.broken /\ g.after = c.after
      /\ g.members = c.members /\ g.invalid = c.invalid /\ g.failing = c.failing
  BY <1>2, <1>3 DEF Hub
<1> HIDE DEF g
<1>6. HubOK(g, hd, spoken)
  <2>1. HubOK(c, hd, spoken) /\ c.after <= spoken
    BY <1>1 DEF Sound, HubOK, CacheOK
  <2> QED BY <1>4, <1>5, <2>1, HubSame
<1>7. quiet >= Patience
  <2>1. h.invalid >= Patience /\ h.invalid <= q
    BY DEF Expired, Sound
  <2>2. h.invalid \in Nat /\ Patience \in Nat /\ quiet \in Nat
    BY ConstantsAssumption DEF Sound, HubOK, Hub, IInv, ClockOK
  <2> QED BY <2>1, <2>2
<1> QED BY <1>1, <1>5, <1>6, <1>7 DEF Sound, g

LEMMA CooldownSound ==
  ASSUME NEW h, NEW hd, NEW q, Sound(h, hd, q), NEW reply \in {"empty", "retry"}
  PROVE  Sound(Cooldown(h, reply), hd, q)
<1> DEFINE g == Cooldown(h, reply)
<1>1. h \in Hub /\ HubOK(h, hd, spoken) /\ h.after <= spoken
  BY DEF Sound, HubOK, CacheOK
<1>2. g \in Hub
  BY <1>1 DEF Hub, Cooldown
<1>3. /\ g.open = h.open /\ g.cache = h.cache /\ g.high = h.high /\ g.discarded = h.discarded
      /\ g.latest = h.latest /\ g.cursor = h.cursor /\ g.broken = h.broken /\ g.after = h.after
      /\ g.members = h.members /\ g.invalid = h.invalid /\ g.failing = h.failing /\ g.lost = h.lost
  BY <1>1 DEF Hub, Cooldown
<1> HIDE DEF g
<1>4. HubOK(g, hd, spoken)
  BY <1>1, <1>2, <1>3, HubSame
<1> QED BY <1>3, <1>4 DEF Sound, g

\* What a read of the cache makes of a sound hub.
LEMMA CachedSound ==
  ASSUME NEW h, NEW hd, NEW q, Sound(h, hd, q), NEW l \in Listeners
  PROVE  LET found == Cached(h, l)
         IN /\ Sound(found.hub, After(hd, l, found.chunk), q)
            /\ found.chunk # Nothing => Promised(hd, spoken, l, found.chunk)
<1> DEFINE found == Cached(h, l)
<1>1. Serves(h, hd, spoken, l, found)
  BY CachedOK DEF Sound
<1> HIDE DEF found
<1>2. Sound(found.hub, After(hd, l, found.chunk), q)
  BY <1>1 DEF Sound, Serves, Keeps
<1> QED BY <1>1, <1>2 DEF Serves, found
-----------------------------------------------------------------------------
(* The steps of a read                                                     *)

\* A step of the read of l lets nobody but l hear, and that what l was promised.
Serving(l) ==
  /\ Sound(hub', heard', quiet') /\ spoken' = spoken
  /\ \/ heard' = heard
     \/ \E c : /\ Promised(heard, spoken, l, c) /\ l \in hub.members
               /\ heard' = [heard EXCEPT ![l] = c]

LEMMA ReturnServes ==
  ASSUME NEW l \in Listeners, NEW h, NEW c, Return(l, h, c), spoken' = spoken,
         Sound(h, After(heard, l, c), quiet'),
         c # Nothing => Promised(heard, spoken, l, c) /\ l \in hub.members
  PROVE  Serving(l)
<1>1. hub' = h /\ heard' = After(heard, l, c)
  BY DEF Return, After
<1>2. CASE c = Nothing
  <2>1. heard' = heard
    BY <1>1, <1>2 DEF After
  <2> QED BY <1>1, <2>1 DEF Serving
<1>3. CASE c # Nothing
  <2>1. heard' = [heard EXCEPT ![l] = c]
    BY <1>1, <1>3 DEF After
  <2> QED BY <1>1, <1>3, <2>1 DEF Serving
<1> QED BY <1>2, <1>3

LEMMA RaiseServes ==
  ASSUME NEW l \in Listeners, NEW h, Raise(l, h), spoken' = spoken, Sound(h, heard, quiet')
  PROVE  Serving(l)
<1>1. After(heard, l, Nothing) = heard
  BY DEF After
<1> QED BY <1>1, ReturnServes DEF Raise

LEMMA FoundServes ==
  ASSUME NEW l \in Listeners, NEW h, Sound(h, heard, quiet'), l \in hub.members, spoken' = spoken,
         Return(l, Cached(h, l).hub, Cached(h, l).chunk)
  PROVE  Serving(l)
<1> DEFINE found == Cached(h, l)
<1>1. /\ Sound(found.hub, After(heard, l, found.chunk), quiet')
      /\ found.chunk # Nothing => Promised(heard, spoken, l, found.chunk)
  BY CachedSound
<1> HIDE DEF found
<1> QED BY <1>1, ReturnServes DEF found

LEMMA NothingFound ==
  ASSUME NEW l \in Listeners, NEW h, NEW q, Sound(h, heard, q), Cached(h, l).chunk = Nothing
  PROVE  Sound(Cached(h, l).hub, heard, q)
<1> DEFINE found == Cached(h, l)
<1>1. Sound(found.hub, After(heard, l, found.chunk), q)
  BY CachedSound
<1> HIDE DEF found
<1> QED BY <1>1 DEF After, found

LEMMA LostServes ==
  ASSUME IInv, NEW l \in Listeners, NEW h, Sound(h, heard, quiet), Expired(h), Raise(l, Lost(h)),
         spoken' = spoken, quiet' = quiet
  PROVE  Serving(l)
<1>1. quiet \in Nat /\ quiet <= quiet
  BY ConstantsAssumption DEF IInv, ClockOK
<1>2. Sound(Lost(h), heard, quiet)
  BY <1>1, LostSound
<1> HIDE DEF Lost
<1> QED BY <1>2, RaiseServes

LEMMA LockedServes ==
  ASSUME IInv, NEW l \in Listeners, NEW h, Sound(h, heard, quiet), Locked(l, h),
         spoken' = spoken, quiet' = quiet
  PROVE  Serving(l)
<1> DEFINE found == Cached(h, l)
<1>1. ASSUME Check(h, l) # "ok", Raise(l, IF Check(h, l) = "lost" THEN Lost(h) ELSE h)
      PROVE  Serving(l)
  <2>1. CASE Check(h, l) = "lost"
    <3>1. Expired(h)
      BY <2>1 DEF Check
    <3> QED BY <1>1, <2>1, <3>1, LostServes
  <2>2. CASE Check(h, l) # "lost"
    BY <1>1, <2>2, RaiseServes
  <2> QED BY <2>1, <2>2
<1>2. ASSUME Check(h, l) = "ok", Return(l, found.hub, found.chunk)
      PROVE  Serving(l)
  <2>1. l \in hub.members
    BY <1>2 DEF Check, Sound
  <2> QED BY <1>2, <2>1, FoundServes
<1>3. ASSUME found.chunk = Nothing, hub' = found.hub, heard' = heard
      PROVE  Serving(l)
  <2>1. Sound(found.hub, heard, quiet)
    BY <1>3, NothingFound
  <2> QED BY <1>3, <2>1 DEF Serving
<1> HIDE DEF found
<1> QED BY <1>1, <1>2, <1>3 DEF Locked, found

LEMMA ReadServes ==
  ASSUME IInv, NEW l \in Listeners, Read(l)
  PROVE  Serving(l)
<1> DEFINE found == Cached(hub, l)
<1>1. spoken' = spoken /\ quiet' = quiet /\ l \in hub.members
  BY DEF Read
<1>2. Sound(hub, heard, quiet)
  BY SoundSelf
<1>3. ASSUME Check(hub, l) = "lost", Raise(l, Lost(hub)) PROVE Serving(l)
  <2>1. Expired(hub)
    BY <1>3 DEF Check
  <2> QED BY <1>1, <1>2, <1>3, <2>1, LostServes
<1>4. ASSUME Return(l, found.hub, found.chunk) PROVE Serving(l)
  BY <1>1, <1>2, <1>4, FoundServes
<1>5. found.chunk = Nothing => Sound(found.hub, heard, quiet)
  BY <1>2, NothingFound
<1> HIDE DEF found
<1>6. ASSUME found.chunk = Nothing, hub' = found.hub, heard' = heard PROVE Serving(l)
  BY <1>1, <1>5, <1>6 DEF Serving
<1>7. ASSUME found.chunk = Nothing, Locked(l, found.hub) PROVE Serving(l)
  BY <1>1, <1>5, <1>7, LockedServes
<1> QED BY <1>3, <1>4, <1>6, <1>7 DEF Read, found

LEMMA WokenServes ==
  ASSUME IInv, NEW l \in Listeners, Woken(l)
  PROVE  Serving(l)
<1>1. spoken' = spoken /\ quiet' = quiet /\ Locked(l, hub)
  BY DEF Woken
<1> QED BY <1>1, SoundSelf, LockedServes

LEMMA WithoutSound ==
  ASSUME IInv, NEW l \in Listeners
  PROVE  Sound(Without(l), heard, quiet)
<1> DEFINE g == [hub EXCEPT !.members = @ \ {l}]
<1>1. hub \in Hub /\ HubOK(hub, heard, spoken) /\ hub.after <= spoken /\ Sound(hub, heard, quiet)
      /\ quiet \in Nat
  BY SoundSelf, ConstantsAssumption DEF IInv, HubOK, CacheOK, ClockOK
<1>2. g \in Hub
  BY <1>1 DEF Hub
<1>3. /\ g.open = hub.open /\ g.cache = hub.cache /\ g.high = hub.high
      /\ g.discarded = hub.discarded /\ g.latest = hub.latest /\ g.cursor = hub.cursor
      /\ g.broken = hub.broken /\ g.after = hub.after /\ g.members = hub.members \ {l}
      /\ g.invalid = hub.invalid /\ g.failing = hub.failing /\ g.lost = hub.lost
  BY <1>1 DEF Hub
<1>4. Without(l) = IF g.members = {} THEN Closed(g) ELSE g
  BY DEF Without
<1> HIDE DEF g
<1>5. HubOK(g, heard, spoken)
  BY <1>1, <1>2, <1>3, HubSame
<1>6. Sound(g, heard, quiet)
  BY <1>1, <1>3, <1>5 DEF Sound
<1>7. Sound(Closed(g), heard, quiet)
  BY <1>1, <1>6, ClosedSound
<1> QED BY <1>4, <1>6, <1>7

LEMMA CancelledServes ==
  ASSUME IInv, NEW l \in Listeners, Cancelled(l)
  PROVE  Serving(l)
<1>1. spoken' = spoken /\ quiet' = quiet /\ Raise(l, Without(l))
  BY DEF Cancelled
<1> QED BY <1>1, WithoutSound, RaiseServes

\* A failure counts from the request under way, which is not older than the last valid reply.
LEMMA RetriedServes ==
  ASSUME IInv, NEW l \in Listeners, Retried(l)
  PROVE  Serving(l)
<1> DEFINE h == [hub EXCEPT !.failing = TRUE, !.invalid = IF hub.failing THEN @ ELSE asked]
<1>1. /\ spoken' = spoken /\ quiet' = quiet /\ pc[l] = "request"
      /\ hub \in Hub /\ HubOK(hub, heard, spoken) /\ hub.after <= spoken /\ Sound(hub, heard, quiet)
      /\ asked \in Nat /\ asked <= quiet /\ asked <= Patience
  BY SoundSelf, ConstantsAssumption DEF IInv, HubOK, CacheOK, ClockOK, Retried
<1>2. h \in Hub
  BY <1>1 DEF Hub
<1>3. /\ h.open = hub.open /\ h.cache = hub.cache /\ h.high = hub.high
      /\ h.discarded = hub.discarded /\ h.latest = hub.latest /\ h.cursor = hub.cursor
      /\ h.broken = hub.broken /\ h.after = hub.after /\ h.members = hub.members
      /\ h.failing = TRUE /\ h.lost = hub.lost
      /\ h.invalid = IF hub.failing THEN hub.invalid ELSE asked
  BY <1>1 DEF Hub
<1>4. \/ /\ Check(hub, l) # "ok"
         /\ Raise(l, IF Check(hub, l) = "lost" THEN Lost(hub) ELSE hub)
      \/ Raise(l, IF Expired(h) THEN Lost(h) ELSE Cooldown(h, "retry"))
  BY DEF Retried
<1> HIDE DEF h
<1>5. Sound(h, heard, quiet)
  <2>1. HubOK(h, heard, spoken)
    BY <1>1, <1>2, <1>3, HubSame
  <2>2. h.invalid <= Patience /\ h.invalid <= quiet
    BY <1>1, <1>3 DEF Sound
  <2> QED BY <1>1, <1>3, <2>1, <2>2 DEF Sound
<1>6. CASE Check(hub, l) # "ok" /\ Raise(l, IF Check(hub, l) = "lost" THEN Lost(hub) ELSE hub)
  <2>1. CASE Check(hub, l) = "lost"
    <3>1. Expired(hub)
      BY <2>1 DEF Check
    <3> QED BY <1>1, <1>6, <2>1, <3>1, LostServes
  <2>2. CASE Check(hub, l) # "lost"
    BY <1>1, <1>6, <2>2, RaiseServes
  <2> QED BY <2>1, <2>2
<1>7. CASE Raise(l, IF Expired(h) THEN Lost(h) ELSE Cooldown(h, "retry"))
  <2>1. CASE Expired(h)
    BY <1>1, <1>5, <1>7, <2>1, LostServes
  <2>2. CASE ~Expired(h)
    <3>1. Sound(Cooldown(h, "retry"), heard, quiet)
      BY <1>5, CooldownSound
    <3> QED BY <1>1, <1>7, <2>2, <3>1, RaiseServes
  <2> QED BY <2>1, <2>2
<1> QED BY <1>4, <1>6, <1>7

LEMMA RefusedServes ==
  ASSUME IInv, NEW l \in Listeners, Refused(l)
  PROVE  Serving(l)
<1>1. /\ spoken' = spoken /\ quiet' = quiet /\ Sound(hub, heard, quiet) /\ quiet \in Nat
      /\ Raise(l, IF ~hub.open THEN hub ELSE IF Expired(hub) THEN Lost(hub) ELSE Closed(hub))
  BY SoundSelf, ConstantsAssumption DEF Refused, IInv, ClockOK
<1>2. CASE ~hub.open
  BY <1>1, <1>2, RaiseServes
<1>3. CASE hub.open /\ Expired(hub)
  BY <1>1, <1>3, LostServes
<1>4. CASE hub.open /\ ~Expired(hub)
  <2>1. Sound(Closed(hub), heard, quiet)
    BY <1>1, ClosedSound
  <2> QED BY <1>1, <1>4, <2>1, RaiseServes
<1> QED BY <1>2, <1>3, <1>4

LEMMA TooLateServes ==
  ASSUME IInv, NEW l \in Listeners, TooLate(l)
  PROVE  Serving(l)
<1>1. /\ spoken' = spoken /\ quiet' = quiet /\ Sound(hub, heard, quiet)
      /\ Raise(l, IF hub.open THEN Lost(hub) ELSE hub) /\ (~hub.open \/ Expired(hub))
  BY SoundSelf DEF TooLate
<1>2. CASE hub.open
  BY <1>1, <1>2, LostServes
<1>3. CASE ~hub.open
  BY <1>1, <1>3, RaiseServes
<1> QED BY <1>2, <1>3
-----------------------------------------------------------------------------
(* Valid replies                                                           *)

\* A valid reply settles the failures: nothing has to have been waited for.
LEMMA RenewedSound ==
  ASSUME IInv
  PROVE  /\ Sound(Renewed, heard, 0)
         /\ Renewed \in Hub /\ Renewed.failing = FALSE /\ Renewed.invalid = 0
         /\ Renewed.open = hub.open /\ Renewed.cache = hub.cache /\ Renewed.high = hub.high
         /\ Renewed.discarded = hub.discarded /\ Renewed.latest = hub.latest
         /\ Renewed.cursor = hub.cursor /\ Renewed.broken = hub.broken /\ Renewed.after = hub.after
         /\ Renewed.members = hub.members /\ Renewed.lost = hub.lost
<1>1. hub \in Hub /\ HubOK(hub, heard, spoken) /\ hub.after <= spoken /\ Sound(hub, heard, quiet)
  BY SoundSelf DEF IInv, HubOK, CacheOK
<1>2. Renewed \in Hub
  BY <1>1 DEF Hub, Renewed
<1>3. /\ Renewed.open = hub.open /\ Renewed.cache = hub.cache /\ Renewed.high = hub.high
      /\ Renewed.discarded = hub.discarded /\ Renewed.latest = hub.latest
      /\ Renewed.cursor = hub.cursor /\ Renewed.broken = hub.broken /\ Renewed.after = hub.after
      /\ Renewed.members = hub.members /\ Renewed.lost = hub.lost
      /\ Renewed.failing = FALSE /\ Renewed.invalid = 0
  BY <1>1 DEF Hub, Renewed
<1>4. HubOK(Renewed, heard, spoken)
  BY <1>1, <1>2, <1>3, HubSame
<1>5. 0 <= Patience
  BY ConstantsAssumption
<1>6. Sound(Renewed, heard, 0)
  BY <1>1, <1>3, <1>4, <1>5 DEF Sound
<1> QED BY <1>2, <1>3, <1>6

LEMMA EmptyServes ==
  ASSUME IInv, NEW l \in Listeners, Empty(l)
  PROVE  Serving(l)
<1>1. /\ spoken' = spoken /\ quiet' = 0
      /\ Raise(l, IF l \in hub.members THEN Cooldown(Renewed, "empty") ELSE Renewed)
  BY DEF Empty, Valid
<1>2. Sound(Renewed, heard, quiet')
  BY <1>1, RenewedSound
<1>3. Sound(Cooldown(Renewed, "empty"), heard, quiet')
  BY <1>2, CooldownSound
<1> HIDE DEF Renewed
<1>4. CASE l \in hub.members
  BY <1>1, <1>3, <1>4, RaiseServes
<1>5. CASE l \notin hub.members
  BY <1>1, <1>2, <1>5, RaiseServes
<1> QED BY <1>4, <1>5

\* After a resynchronisation every cursor is at nothing, and so is the cache.
LEMMA ResyncServes ==
  ASSUME IInv, NEW l \in Listeners, Resync(l)
  PROVE  Serving(l)
<1> DEFINE r == Renewed
           cursors == [m \in Listeners |-> IF m \in hub.members THEN 0 ELSE r.cursor[m]]
           breaks == [m \in Listeners |-> m \in hub.members \/ r.broken[m]]
           g == [r EXCEPT !.cache = <<>>, !.after = 0, !.cursor = cursors, !.broken = breaks]
<1>1. spoken' = spoken /\ quiet' = 0 /\ Raise(l, g)
  BY DEF Resync, Valid
<1>2. /\ Sound(r, heard, 0) /\ r \in Hub /\ HubOK(r, heard, spoken) /\ spoken \in Nat
  BY RenewedSound DEF Sound, HubOK
<1> HIDE DEF r
<1>3. cursors \in [Listeners -> Nat] /\ breaks \in [Listeners -> BOOLEAN] /\ <<>> \in Seq(Chunks)
  BY <1>2 DEF Hub
<1>4. \A m \in Listeners : /\ cursors[m] = IF m \in hub.members THEN 0 ELSE r.cursor[m]
                           /\ breaks[m] = (m \in hub.members \/ r.broken[m])
  OBVIOUS
<1> HIDE DEF cursors, breaks
<1>5. g \in Hub
  BY <1>2, <1>3 DEF Hub
<1>6. /\ g.open = r.open /\ g.cache = <<>> /\ g.high = r.high /\ g.discarded = r.discarded
      /\ g.latest = r.latest /\ g.cursor = cursors /\ g.broken = breaks /\ g.after = 0
      /\ g.members = r.members /\ g.invalid = r.invalid /\ g.failing = r.failing /\ g.lost = r.lost
  BY <1>2, <1>3 DEF Hub
<1> HIDE DEF g
<1>7. HubOK(g, heard, spoken)
  <2>1. g.high <= spoken /\ g.discarded <= g.high /\ g.latest <= spoken /\ g.after <= spoken
    BY <1>2, <1>6 DEF HubOK, CacheOK
  <2>2. ASSUME NEW m \in Listeners
        PROVE  /\ g.open => heard[m].revision <= g.high
               /\ g.cursor[m] <= spoken
               /\ ~g.broken[m] => g.cursor[m] = heard[m].revision
    <3>1. /\ r.open => heard[m].revision <= r.high
          /\ r.cursor[m] <= spoken
          /\ ~r.broken[m] => r.cursor[m] = heard[m].revision
      BY <1>2 DEF HubOK, CursorOK
    <3>2. CASE m \in hub.members
      <4>1. g.cursor[m] = 0 /\ g.broken[m]
        BY <1>4, <1>6, <3>2
      <4> QED BY <1>2, <1>6, <3>1, <4>1
    <3>3. CASE m \notin hub.members
      <4>1. g.cursor[m] = r.cursor[m] /\ (g.broken[m] <=> r.broken[m])
        BY <1>4, <1>6, <3>3
      <4> QED BY <1>6, <3>1, <4>1
    <3> QED BY <3>2, <3>3
  <2> QED BY <1>2, <1>5, <1>6, <2>1, <2>2, HubEmptied
<1>8. Sound(g, heard, quiet')
  BY <1>1, <1>2, <1>6, <1>7 DEF Sound
<1> QED BY <1>1, <1>8, RaiseServes

\* A newer chunk goes to the end of the cache, and the oldest one may have to go.
LEMMA StoreSound ==
  ASSUME NEW h, NEW hd, NEW q, Sound(h, hd, q), h.open, NEW c \in Chunks,
         c.revision <= spoken, c.previous = c.revision - 1
  PROVE  Sound(Store(h, c), hd, q)
<1> DEFINE full == Len(h.cache) = CacheSize
           rest == IF full THEN Tail(h.cache) ELSE h.cache
           cache == Append(rest, c)
           discarded == IF full THEN Head(h.cache).revision ELSE h.discarded
           latest == IF spoken > h.latest THEN spoken ELSE h.latest
           g == [h EXCEPT !.high = c.revision, !.latest = latest,
                          !.discarded = discarded, !.cache = cache]
<1>1. CASE c.revision <= h.high
  BY <1>1 DEF Store
<1>2. CASE ~(c.revision <= h.high)
  <2>1. Store(h, c) = g
    BY <1>2 DEF Store
  <2>2. /\ h \in Hub /\ hd \in Hearings /\ spoken \in Nat /\ h.cache \in Seq(Chunks)
        /\ Len(h.cache) \in Nat /\ DOMAIN h.cache = 1..Len(h.cache)
        /\ HubOK(h, hd, spoken) /\ CacheOK(h, spoken) /\ CacheSize \in Nat /\ CacheSize # 0
        /\ h.high \in Nat /\ h.discarded \in Nat /\ h.latest \in Nat /\ c.revision \in Nat
    <3>1. h \in Hub /\ hd \in Hearings /\ spoken \in Nat /\ HubOK(h, hd, spoken) /\ CacheOK(h, spoken)
      BY DEF Sound, HubOK
    <3>2. /\ h.cache \in Seq(Chunks)
          /\ h.high \in Nat /\ h.discarded \in Nat /\ h.latest \in Nat
      BY <3>1 DEF Hub
    <3>3. Len(h.cache) \in Nat /\ DOMAIN h.cache = 1..Len(h.cache)
      BY <3>2, LenProperties
    <3>4. c.revision \in Nat /\ CacheSize \in Nat /\ CacheSize # 0
      BY ConstantsAssumption DEF Chunks
    <3> QED BY <3>1, <3>2, <3>3, <3>4
  <2>3. \A i \in DOMAIN h.cache : h.cache[i] \in Chunks /\ h.cache[i].revision \in Nat
    <3>1. \A i \in DOMAIN h.cache : h.cache[i] \in Chunks
      BY <2>2
    <3> QED BY <3>1 DEF Chunks
  <2> DEFINE shift == IF full THEN 1 ELSE 0
  <2>4. /\ rest \in Seq(Chunks) /\ Len(rest) = Len(h.cache) - shift
        /\ \A i \in 1..Len(rest) : rest[i] = h.cache[i + shift]
    <3>1. CASE full
      <4>1. h.cache # <<>>
        BY <2>2, <3>1
      <4>2. /\ Tail(h.cache) \in Seq(Chunks) /\ Len(Tail(h.cache)) = Len(h.cache) - 1
            /\ \A i \in 1..Len(Tail(h.cache)) : Tail(h.cache)[i] = h.cache[i + 1]
        BY <2>2, <4>1, HeadTailProperties
      <4> QED BY <3>1, <4>2
    <3>2. CASE ~full
      <4>1. \A i \in 1..Len(h.cache) : h.cache[i] = h.cache[i + 0]
        BY <2>2
      <4> QED BY <2>2, <3>2, <4>1
    <3> QED BY <3>1, <3>2
  <2>5. discarded \in Nat /\ discarded <= h.high
        /\ \A i \in DOMAIN h.cache : i > shift => discarded < h.cache[i].revision
    <3>1. CASE full
      <4>1. 1 \in DOMAIN h.cache /\ Head(h.cache) = h.cache[1]
        BY <2>2, <3>1
      <4>2. h.cache[1].revision \in Nat /\ h.cache[1].revision <= h.high
        BY <2>2, <2>3, <4>1 DEF CacheOK
      <4>3. \A i \in DOMAIN h.cache : i > 1 => h.cache[1].revision < h.cache[i].revision
        BY <2>2, <4>1 DEF CacheOK
      <4> QED BY <3>1, <4>1, <4>2, <4>3
    <3>2. CASE ~full
      BY <2>2, <3>2 DEF CacheOK
    <3> QED BY <3>1, <3>2
  <2>6. latest \in Nat /\ latest <= spoken
    BY <2>2 DEF CacheOK
  <2>7. /\ cache \in Seq(Chunks) /\ Len(cache) = Len(rest) + 1
        /\ \A i \in 1..Len(rest) : cache[i] = rest[i]
        /\ cache[Len(rest) + 1] = c
    <3>1. rest \in Seq(Chunks)
      BY <2>4
    <3> HIDE DEF rest
    <3> QED BY <3>1, AppendProperties
  <2> HIDE DEF rest, cache, discarded, latest
  <2>8. g \in Hub
    BY <2>2, <2>5, <2>6, <2>7 DEF Hub
  <2>9. /\ g.open = h.open /\ g.cache = cache /\ g.high = c.revision /\ g.discarded = discarded
        /\ g.latest = latest /\ g.cursor = h.cursor /\ g.broken = h.broken /\ g.after = h.after
        /\ g.members = h.members /\ g.invalid = h.invalid /\ g.failing = h.failing /\ g.lost = h.lost
    BY <2>2 DEF Hub
  <2> HIDE DEF g
  <2>10. Len(rest) \in Nat /\ DOMAIN cache = 1..(Len(rest) + 1) /\ Len(rest) + 1 <= CacheSize
    <3>1. Len(rest) \in Nat /\ Len(cache) = Len(rest) + 1
      BY <2>4, <2>7, LenProperties
    <3>2. DOMAIN cache = 1..(Len(rest) + 1)
      BY <2>7, <3>1, LenProperties
    <3>3. Len(h.cache) <= CacheSize /\ (full <=> Len(h.cache) = CacheSize)
      BY <2>2 DEF CacheOK
    <3>4. Len(rest) + 1 <= CacheSize
      <4>1. Len(rest) = Len(h.cache) - shift
        BY <2>4
      <4>2. CASE full
        <5>1. Len(rest) = CacheSize - 1
          BY <4>1, <4>2
        <5> QED BY <2>2, <5>1
      <4>3. CASE ~full
        <5>1. Len(rest) = Len(h.cache) - 0 /\ Len(h.cache) # CacheSize
          BY <4>1, <4>3
        <5> QED BY <2>2, <3>3, <5>1
      <4> QED BY <4>2, <4>3
    <3> QED BY <3>1, <3>2, <3>4
  <2>11. ASSUME NEW i \in 1..Len(rest)
         PROVE  cache[i] = h.cache[i + shift] /\ i + shift \in DOMAIN h.cache /\ i + shift > shift
    BY <2>2, <2>4, <2>7, <2>10
  <2>12. ASSUME NEW i \in DOMAIN cache
         PROVE  /\ cache[i].previous = cache[i].revision - 1
                /\ discarded < cache[i].revision /\ cache[i].revision <= c.revision
    <3>1. CASE i \in 1..Len(rest)
      <4> DEFINE k == i + shift
      <4>1. cache[i] = h.cache[k] /\ k \in DOMAIN h.cache /\ k > shift
        BY <2>11, <3>1
      <4> HIDE DEF k
      <4>2. h.cache[k].revision <= h.high /\ h.cache[k].previous = h.cache[k].revision - 1
            /\ h.cache[k].revision \in Nat
        BY <2>2, <2>3, <4>1 DEF CacheOK
      <4> QED BY <1>2, <2>2, <2>5, <4>1, <4>2
    <3>2. CASE i = Len(rest) + 1
      BY <1>2, <2>2, <2>5, <2>7, <3>2
    <3> QED BY <2>10, <3>1, <3>2
  <2>13. ASSUME NEW i \in DOMAIN cache, NEW j \in DOMAIN cache, i < j
         PROVE  cache[i].revision < cache[j].revision
    <3>1. i \in 1..Len(rest)
      BY <2>10, <2>13
    <3>2. cache[i] = h.cache[i + shift] /\ i + shift \in DOMAIN h.cache
      BY <2>11, <3>1
    <3>3. CASE j \in 1..Len(rest)
      <4>1. cache[j] = h.cache[j + shift] /\ j + shift \in DOMAIN h.cache
        BY <2>11, <3>3
      <4>2. i + shift < j + shift
        BY <2>10, <2>13
      <4> QED BY <2>2, <3>2, <4>1, <4>2 DEF CacheOK
    <3>4. CASE j = Len(rest) + 1
      <4>1. cache[i].revision \in Nat /\ cache[i].revision <= h.high
        BY <2>2, <2>3, <3>2 DEF CacheOK
      <4> QED BY <1>2, <2>2, <2>7, <3>4, <4>1
    <3> QED BY <2>10, <3>3, <3>4
  <2>14. CacheOK(g, spoken)
    <3>1. discarded <= c.revision /\ c.revision <= spoken /\ h.after <= spoken
      BY <1>2, <2>2, <2>5 DEF CacheOK
    <3> QED BY <2>6, <2>7, <2>9, <2>10, <2>12, <2>13, <3>1 DEF CacheOK
  <2>15. ASSUME NEW l \in Listeners PROVE CursorOK(g, hd, spoken, l)
    <3>1. /\ hd[l].revision <= h.high /\ h.cursor[l] <= spoken /\ hd[l].revision <= spoken
          /\ \A i \in DOMAIN h.cache : h.cache[i].revision > h.cursor[l] => h.cache[i].revision > hd[l].revision
          /\ ~h.broken[l] => h.cursor[l] = hd[l].revision
      BY <2>2 DEF HubOK, CursorOK
    <3>2. hd[l].revision \in Nat
      BY <2>2 DEF Hearings
    <3>3. hd[l].revision < c.revision
      BY <1>2, <2>2, <3>1, <3>2
    <3>4. ASSUME NEW i \in DOMAIN cache, cache[i].revision > h.cursor[l]
          PROVE  cache[i].revision > hd[l].revision
      <4>1. CASE i \in 1..Len(rest)
        <5>1. cache[i] = h.cache[i + shift] /\ i + shift \in DOMAIN h.cache
          BY <2>11, <4>1
        <5> QED BY <3>1, <3>4, <5>1
      <4>2. CASE i = Len(rest) + 1
        BY <2>2, <2>7, <3>2, <3>3, <4>2
      <4> QED BY <2>10, <4>1, <4>2
    <3> QED BY <2>2, <2>9, <3>1, <3>2, <3>3, <3>4 DEF CursorOK
  <2>16. HubOK(g, hd, spoken)
    BY <2>2, <2>8, <2>14, <2>15 DEF HubOK
  <2>17. Sound(g, hd, q)
    BY <2>9, <2>16 DEF Sound
  <2> QED BY <2>1, <2>17
<1> QED BY <1>1, <1>2

LEMMA ChunkServes ==
  ASSUME IInv, NEW l \in Listeners, Chunk(l)
  PROVE  Serving(l)
<1> DEFINE after == IF spoken - Fetched.revision > MaxLag THEN 0 ELSE Fetched.revision
           r == Renewed
           base == [r EXCEPT !.after = after]
           h == Store(base, Fetched)
           found == Cached(h, l)
<1>1. /\ spoken' = spoken /\ quiet' = 0 /\ hub.open /\ hub.after < spoken
      /\ \/ l \notin hub.members /\ Raise(l, h)
         \/ l \in hub.members /\ Return(l, found.hub, found.chunk)
         \/ l \in hub.members /\ found.chunk = Nothing /\ Raise(l, Cooldown(found.hub, "empty"))
  BY DEF Chunk, Valid
<1>2. /\ Sound(r, heard, 0) /\ r \in Hub /\ HubOK(r, heard, spoken) /\ spoken \in Nat
      /\ r.open = hub.open /\ hub.after \in Nat
  BY RenewedSound DEF Sound, HubOK, IInv, Hub
<1>3. /\ Fetched \in Chunks /\ Fetched.revision <= spoken
      /\ Fetched.previous = Fetched.revision - 1
  <2> DEFINE n == IF hub.after = 0 THEN spoken ELSE hub.after + 1
  <2>1. n \in Nat /\ n <= spoken
    BY <1>1, <1>2
  <2>2. Fetched = [revision |-> n, previous |-> n - 1, age |-> 0]
    BY DEF Fetched
  <2> HIDE DEF n
  <2> QED BY <2>1, <2>2 DEF Chunks
<1>4. after \in Nat /\ after <= spoken
  BY <1>2, <1>3 DEF Chunks
<1> HIDE DEF after, r
<1>5. base \in Hub
  BY <1>2, <1>4 DEF Hub
<1>6. /\ base.open = r.open /\ base.cache = r.cache /\ base.high = r.high
      /\ base.discarded = r.discarded /\ base.latest = r.latest /\ base.cursor = r.cursor
      /\ base.broken = r.broken /\ base.after = after /\ base.members = r.members
      /\ base.invalid = r.invalid /\ base.failing = r.failing /\ base.lost = r.lost
  BY <1>2, <1>4 DEF Hub
<1> HIDE DEF base
<1>7. HubOK(base, heard, spoken)
  BY <1>2, <1>4, <1>5, <1>6, HubSame
<1>8. Sound(base, heard, 0) /\ base.open
  BY <1>1, <1>2, <1>6, <1>7 DEF Sound
<1>9. Sound(h, heard, quiet')
  BY <1>1, <1>3, <1>8, StoreSound
<1> HIDE DEF h
<1>10. CASE l \notin hub.members /\ Raise(l, h)
  BY <1>1, <1>9, <1>10, RaiseServes
<1>11. CASE l \in hub.members /\ Return(l, found.hub, found.chunk)
  BY <1>1, <1>9, <1>11, FoundServes
<1>12. CASE found.chunk = Nothing /\ Raise(l, Cooldown(found.hub, "empty"))
  <2>1. Sound(found.hub, heard, quiet')
    BY <1>9, <1>12, NothingFound
  <2> HIDE DEF found
  <2>2. Sound(Cooldown(found.hub, "empty"), heard, quiet')
    BY <2>1, CooldownSound
  <2> QED BY <1>1, <1>12, <2>2, RaiseServes
<1> HIDE DEF found
<1> QED BY <1>1, <1>10, <1>11, <1>12
-----------------------------------------------------------------------------
(* The lock and the clocks                                                 *)

\* What a step of the read of l does to the lock: it leaves, it asks, or it waits.
Leaves(l) ==
  /\ pc' = [pc EXCEPT ![l] = "idle"] /\ queue' = RemoveFirst(queue, l) /\ asked' = asked
  /\ quiet' = quiet \/ (quiet' = 0 /\ pc[l] = "request")
Asks(l) ==
  /\ (pc[l] = "idle" /\ queue = <<>>) \/ (pc[l] = "wait" /\ Head(queue) = l)
  /\ pc' = [pc EXCEPT ![l] = "request"] /\ asked' = 0 /\ quiet' = quiet
  /\ queue' = IF queue # <<>> /\ Head(queue) = l THEN queue ELSE <<l>>
Waits(l) ==
  /\ pc[l] = "idle" /\ pc' = [pc EXCEPT ![l] = "wait"] /\ queue' = Append(queue, l)
  /\ UNCHANGED <<asked, quiet>>

ReadStep(l) == Cancelled(l) \/ Read(l) \/ Woken(l) \/ Reply(l)

LEMMA Turns ==
  ASSUME NEW l \in Listeners, ReadStep(l)
  PROVE  Leaves(l) \/ Asks(l) \/ Waits(l)
<1>1. ASSUME NEW h, NEW c, Return(l, h, c), asked' = asked,
             quiet' = quiet \/ (quiet' = 0 /\ pc[l] = "request")
      PROVE  Leaves(l)
  BY <1>1 DEF Return, Leaves
<1>2. ASSUME NEW h, Raise(l, h), asked' = asked,
             quiet' = quiet \/ (quiet' = 0 /\ pc[l] = "request")
      PROVE  Leaves(l)
  BY <1>1, <1>2 DEF Raise
<1>3. ASSUME NEW h, Locked(l, h), quiet' = quiet,
             (pc[l] = "idle" /\ queue = <<>>) \/ (pc[l] = "wait" /\ Head(queue) = l)
      PROVE  Leaves(l) \/ Asks(l)
  <2>1. CASE \E g, c : Return(l, g, c) /\ asked' = asked
    BY <1>1, <1>3, <2>1
  <2>2. CASE /\ pc' = [pc EXCEPT ![l] = "request"] /\ asked' = 0
             /\ queue' = IF queue # <<>> /\ Head(queue) = l THEN queue ELSE <<l>>
    BY <1>3, <2>2 DEF Asks
  <2>3. CASE \E g : Raise(l, g) /\ asked' = asked
    BY <1>2, <1>3, <2>3
  <2> QED
    <3>1. \/ \E g : Raise(l, g) /\ asked' = asked
          \/ \E g, c : Return(l, g, c) /\ asked' = asked
          \/ /\ pc' = [pc EXCEPT ![l] = "request"] /\ asked' = 0
             /\ queue' = IF queue # <<>> /\ Head(queue) = l THEN queue ELSE <<l>>
      BY <1>3, Zenon DEF Locked
    <3> QED BY <2>1, <2>2, <2>3, <3>1
<1>4. CASE Read(l)
  <2>1. pc[l] = "idle" /\ quiet' = quiet
    BY <1>4 DEF Read
  <2>2. \/ \E g : Raise(l, g) /\ asked' = asked
        \/ \E g, c : Return(l, g, c) /\ asked' = asked
        \/ pc' = [pc EXCEPT ![l] = "wait"] /\ queue' = Append(queue, l) /\ asked' = asked
        \/ \E g : Locked(l, g) /\ queue = <<>>
    BY <1>4, Zenon DEF Read
  <2>3. CASE \E g : Raise(l, g) /\ asked' = asked
    BY <1>2, <2>1, <2>3
  <2>4. CASE \E g, c : Return(l, g, c) /\ asked' = asked
    BY <1>1, <2>1, <2>4
  <2>5. CASE pc' = [pc EXCEPT ![l] = "wait"] /\ queue' = Append(queue, l) /\ asked' = asked
    BY <2>1, <2>5 DEF Waits
  <2>6. CASE \E g : Locked(l, g) /\ queue = <<>>
    <3>1. PICK g : Locked(l, g) /\ queue = <<>>
      BY <2>6
    <3>2. (pc[l] = "idle" /\ queue = <<>>) \/ (pc[l] = "wait" /\ Head(queue) = l)
      BY <2>1, <3>1
    <3> QED BY <1>3, <2>1, <3>1, <3>2
  <2> QED BY <2>2, <2>3, <2>4, <2>5, <2>6
<1>5. CASE Woken(l)
  BY <1>3, <1>5 DEF Woken
<1>6. CASE Cancelled(l)
  BY <1>2, <1>6 DEF Cancelled
<1>7. CASE Retried(l)
  <2>1. (\E g : Raise(l, g)) /\ asked' = asked /\ quiet' = quiet
    BY <1>7, Zenon DEF Retried
  <2> QED BY <1>2, <2>1
<1>8. CASE Refused(l)
  BY <1>2, <1>8 DEF Refused
<1>9. CASE Resync(l)
  <2>1. (\E g : Raise(l, g)) /\ Valid(l)
    BY <1>9, Zenon DEF Resync
  <2> QED BY <1>2, <2>1 DEF Valid
<1>10. CASE Empty(l)
  BY <1>2, <1>10 DEF Empty, Valid
<1>11. CASE Chunk(l)
  <2>1. ((\E g : Raise(l, g)) \/ \E g, c : Return(l, g, c)) /\ Valid(l)
    BY <1>11, Zenon DEF Chunk
  <2> QED BY <1>1, <1>2, <2>1 DEF Valid
<1>12. CASE TooLate(l)
  BY <1>2, <1>12 DEF TooLate
<1> QED BY <1>4, <1>5, <1>6, <1>7, <1>8, <1>9, <1>10, <1>11, <1>12 DEF ReadStep, Reply

\* The lock serves one request at a time, in the order in which the reads came.
LEMMA LockKept ==
  ASSUME LockOK, NEW l \in Listeners, Leaves(l) \/ Asks(l) \/ Waits(l)
  PROVE  LockOK'
<1>1. /\ pc \in [Listeners -> {"new", "idle", "wait", "request"}]
      /\ queue \in Seq(Listeners)
      /\ \A i, j \in DOMAIN queue : queue[i] = queue[j] => i = j
      /\ \A m \in Listeners : pc[m] \in {"wait", "request"} <=> \E i \in DOMAIN queue : queue[i] = m
      /\ \A m \in Listeners : pc[m] = "request" => queue[1] = m
      /\ Len(queue) \in Nat /\ DOMAIN queue = 1..Len(queue)
  BY LenProperties DEF LockOK
<1>2. CASE Leaves(l)
  <2>1. pc' = [pc EXCEPT ![l] = "idle"] /\ queue' = RemoveFirst(queue, l)
    BY <1>2 DEF Leaves
  <2>2. /\ queue' \in Seq(Listeners)
        /\ \A i, j \in DOMAIN queue' : queue'[i] = queue'[j] => i = j
        /\ \A m \in Listeners : (\E i \in DOMAIN queue' : queue'[i] = m)
                                  <=> m # l /\ \E i \in DOMAIN queue : queue[i] = m
        /\ queue # <<>> /\ queue[1] # l => queue'[1] = queue[1]
    <3> DEFINE q == RemoveFirst(queue, l)
    <3>1. /\ q \in Seq(Listeners)
          /\ \A i, j \in DOMAIN q : q[i] = q[j] => i = j
          /\ \A x : (\E i \in DOMAIN q : q[i] = x) <=> x # l /\ \E i \in DOMAIN queue : queue[i] = x
          /\ queue # <<>> /\ queue[1] # l => q[1] = queue[1]
      BY <1>1, Removed
    <3>2. queue' = q
      BY <2>1
    <3> HIDE DEF q
    <3> QED BY <3>1, <3>2
  <2>3. ASSUME NEW m \in Listeners
        PROVE  pc'[m] \in {"wait", "request"} <=> \E i \in DOMAIN queue' : queue'[i] = m
    <3>1. pc'[m] = IF m = l THEN "idle" ELSE pc[m]
      BY <1>1, <2>1
    <3> QED BY <1>1, <2>2, <3>1
  <2>4. ASSUME NEW m \in Listeners, pc'[m] = "request" PROVE queue'[1] = m
    <3>1. m # l /\ pc[m] = "request"
      BY <1>1, <2>1, <2>4
    <3>2. queue # <<>>
      BY <1>1, <3>1
    <3> QED BY <1>1, <2>2, <3>1, <3>2
  <2>5. pc' \in [Listeners -> {"new", "idle", "wait", "request"}]
    BY <1>1, <2>1
  <2> QED BY <2>2, <2>3, <2>4, <2>5 DEF LockOK
<1>3. CASE Asks(l)
  <2>1. pc' = [pc EXCEPT ![l] = "request"]
    BY <1>3 DEF Asks
  <2>2. pc' \in [Listeners -> {"new", "idle", "wait", "request"}]
    BY <1>1, <2>1
  <2>3. \A m \in Listeners : pc'[m] = IF m = l THEN "request" ELSE pc[m]
    BY <1>1, <2>1
  <2>4. CASE pc[l] = "idle" /\ queue = <<>>
    <3>1. queue' = <<l>>
      BY <1>3, <2>4 DEF Asks
    <3>2. queue' \in Seq(Listeners) /\ DOMAIN queue' = {1} /\ queue'[1] = l
      BY <3>1
    <3>3. \A m \in Listeners : pc[m] \notin {"wait", "request"}
      BY <1>1, <2>4
    <3> QED BY <2>2, <2>3, <3>2, <3>3 DEF LockOK
  <2>5. CASE pc[l] = "wait" /\ Head(queue) = l
    <3>1. \E i \in DOMAIN queue : queue[i] = l
      BY <1>1, <2>5
    <3>2. queue # <<>> /\ queue[1] = l
      BY <1>1, <2>5, <3>1
    <3>3. queue' = queue
      BY <1>3, <2>5, <3>2 DEF Asks
    <3>4. \A m \in Listeners : m # l => pc[m] # "request"
      BY <1>1, <3>2
    <3> QED BY <1>1, <2>2, <2>3, <3>1, <3>2, <3>3, <3>4 DEF LockOK
  <2> QED BY <1>3, <2>4, <2>5 DEF Asks
<1>4. CASE Waits(l)
  <2>1. pc[l] = "idle" /\ pc' = [pc EXCEPT ![l] = "wait"] /\ queue' = Append(queue, l)
    BY <1>4 DEF Waits
  <2>2. pc' \in [Listeners -> {"new", "idle", "wait", "request"}]
    BY <1>1, <2>1
  <2>3. \A m \in Listeners : pc'[m] = IF m = l THEN "wait" ELSE pc[m]
    BY <1>1, <2>1
  <2>4. /\ queue' \in Seq(Listeners) /\ Len(queue') = Len(queue) + 1
        /\ \A i \in 1..Len(queue) : queue'[i] = queue[i]
        /\ queue'[Len(queue) + 1] = l
    BY <1>1, <2>1, AppendProperties
  <2>5. DOMAIN queue' = 1..(Len(queue) + 1)
    BY <2>4, LenProperties
  <2>6. ~ \E i \in DOMAIN queue : queue[i] = l
    BY <1>1, <2>1
  <2>7. \A i, j \in DOMAIN queue' : queue'[i] = queue'[j] => i = j
    BY <1>1, <2>4, <2>5, <2>6
  <2>8. ASSUME NEW m \in Listeners
        PROVE  pc'[m] \in {"wait", "request"} <=> \E i \in DOMAIN queue' : queue'[i] = m
    <3>1. CASE m = l
      <4>1. Len(queue) + 1 \in DOMAIN queue'
        BY <1>1, <2>5
      <4> QED BY <2>3, <2>4, <3>1, <4>1
    <3>2. CASE m # l
      <4>1. (\E i \in DOMAIN queue' : queue'[i] = m) <=> \E i \in DOMAIN queue : queue[i] = m
        <5>1. ASSUME NEW i \in DOMAIN queue', queue'[i] = m PROVE \E j \in DOMAIN queue : queue[j] = m
          BY <1>1, <2>4, <2>5, <3>2, <5>1
        <5>2. ASSUME NEW i \in DOMAIN queue, queue[i] = m PROVE \E j \in DOMAIN queue' : queue'[j] = m
          <6>1. i \in DOMAIN queue' /\ queue'[i] = m
            BY <1>1, <2>4, <2>5, <5>2
          <6> QED BY <6>1
        <5> QED BY <5>1, <5>2
      <4> QED BY <1>1, <2>3, <3>2, <4>1
    <3> QED BY <3>1, <3>2
  <2>9. ASSUME NEW m \in Listeners, pc'[m] = "request" PROVE queue'[1] = m
    <3>1. pc[m] = "request" /\ m # l
      BY <2>3, <2>9
    <3>2. queue[1] = m /\ \E i \in DOMAIN queue : queue[i] = m
      BY <1>1, <3>1
    <3>3. 1 \in 1..Len(queue)
      BY <1>1, <3>2
    <3> QED BY <2>4, <3>2, <3>3
  <2> QED BY <2>2, <2>4, <2>7, <2>8, <2>9 DEF LockOK
<1> QED BY <1>2, <1>3, <1>4

\* A request is not older than the last valid reply: there is one request at a time.
LEMMA AskedKept ==
  ASSUME LockOK, ClockOK, NEW l \in Listeners, Leaves(l) \/ Asks(l) \/ Waits(l)
  PROVE  /\ asked' \in 0..Patience /\ quiet' \in 0..Patience
         /\ \A m \in Listeners : pc'[m] = "request" => asked' <= quiet'
<1>1. /\ pc \in [Listeners -> {"new", "idle", "wait", "request"}]
      /\ \A m \in Listeners : pc[m] = "request" => queue[1] = m
      /\ asked \in 0..Patience /\ quiet \in 0..Patience /\ Patience \in Nat
      /\ \A m \in Listeners : pc[m] = "request" => asked <= quiet
  BY ConstantsAssumption DEF LockOK, ClockOK
<1>2. CASE Leaves(l)
  <2>1. /\ pc' = [pc EXCEPT ![l] = "idle"] /\ asked' = asked
        /\ quiet' = quiet \/ (quiet' = 0 /\ pc[l] = "request")
    BY <1>2 DEF Leaves
  <2>2. ASSUME NEW m \in Listeners, pc'[m] = "request" PROVE asked' <= quiet'
    <3>1. m # l /\ pc[m] = "request"
      BY <1>1, <2>1, <2>2
    <3>2. pc[l] # "request"
      BY <1>1, <3>1
    <3> QED BY <1>1, <2>1, <3>1, <3>2
  <2> QED BY <1>1, <2>1, <2>2
<1>3. CASE Asks(l)
  BY <1>1, <1>3 DEF Asks
<1>4. CASE Waits(l)
  <2>1. pc' = [pc EXCEPT ![l] = "wait"] /\ asked' = asked /\ quiet' = quiet
    BY <1>4 DEF Waits
  <2>2. \A m \in Listeners : pc'[m] = "request" => pc[m] = "request"
    BY <1>1, <2>1
  <2> QED BY <1>1, <2>1, <2>2
<1> QED BY <1>2, <1>3, <1>4
-----------------------------------------------------------------------------
(* The steps                                                               *)

\* The hub that takes the place of the present one may have lost members, and has forgotten no
\* more than it should.
LEMMA SoundKept ==
  ASSUME IInv, Sound(hub', heard', quiet'), spoken' = spoken
  PROVE  /\ HubOK(hub', heard', spoken') /\ spoken' \in 0..MaxSpoken /\ MembersOK'
         /\ hub'.invalid <= Patience /\ (hub'.failing => hub'.invalid <= quiet')
<1>1. HubOK(hub', heard', spoken') /\ spoken' \in 0..MaxSpoken
  BY DEF Sound, IInv
<1>2. MembersOK'
  <2>1. hub'.members \subseteq hub.members /\ IsFiniteSet(hub.members)
        /\ Cardinality(hub.members) <= MaxListeners
    BY DEF Sound, IInv, MembersOK
  <2>2. IsFiniteSet(hub'.members) /\ Cardinality(hub'.members) <= Cardinality(hub.members)
    BY <2>1, FS_Subset
  <2>3. Cardinality(hub'.members) \in Nat /\ Cardinality(hub.members) \in Nat /\ MaxListeners \in Nat
    BY <2>1, <2>2, FS_CardinalityType, ConstantsAssumption
  <2> QED BY <2>1, <2>2, <2>3 DEF MembersOK
<1> QED BY <1>1, <1>2 DEF Sound

LEMMA ReadStepServes ==
  ASSUME IInv, NEW l \in Listeners, ReadStep(l)
  PROVE  Serving(l)
BY ReadServes, WokenServes, CancelledServes, RetriedServes, RefusedServes, ResyncServes,
   EmptyServes, ChunkServes, TooLateServes DEF ReadStep, Reply

LEMMA ReadStepKept ==
  ASSUME IInv, NEW l \in Listeners, ReadStep(l)
  PROVE  IInv'
<1>1. Sound(hub', heard', quiet') /\ spoken' = spoken
  BY ReadStepServes DEF Serving
<1>2. Leaves(l) \/ Asks(l) \/ Waits(l)
  BY Turns
<1>3. LockOK'
  BY <1>2, LockKept DEF IInv
<1>4. /\ asked' \in 0..Patience /\ quiet' \in 0..Patience
      /\ \A m \in Listeners : pc'[m] = "request" => asked' <= quiet'
  BY <1>2, AskedKept DEF IInv
<1>5. /\ HubOK(hub', heard', spoken') /\ spoken' \in 0..MaxSpoken /\ MembersOK'
      /\ hub'.invalid <= Patience /\ (hub'.failing => hub'.invalid <= quiet')
  BY <1>1, SoundKept
<1>6. ClockOK'
  BY <1>4, <1>5 DEF ClockOK
<1> QED BY <1>3, <1>5, <1>6 DEF IInv

\* What closes the hub, or takes a listener out, leaves the rest alone.
LEMMA LeftAlone ==
  ASSUME IInv, Sound(hub', heard', quiet'), UNCHANGED <<spoken, pc, queue, asked, heard, quiet>>
  PROVE  IInv'
<1>1. /\ HubOK(hub', heard', spoken') /\ spoken' \in 0..MaxSpoken /\ MembersOK'
      /\ hub'.invalid <= Patience /\ (hub'.failing => hub'.invalid <= quiet')
  BY SoundKept
<1>2. LockOK'
  BY DEF IInv, LockOK
<1>3. ClockOK'
  BY <1>1 DEF IInv, ClockOK
<1> QED BY <1>1, <1>2, <1>3 DEF IInv

LEMMA LeaveSound ==
  ASSUME IInv, NEW l \in Listeners, Leave(l)
  PROVE  Sound(hub', heard', quiet')
<1>1. hub' = Without(l) /\ heard' = heard /\ quiet' = quiet
  BY DEF Leave
<1> QED BY <1>1, WithoutSound

LEMMA CloseSound ==
  ASSUME IInv, Close
  PROVE  Sound(hub', heard', quiet')
<1>1. hub' = Closed(hub) /\ heard' = heard /\ quiet' = quiet /\ quiet \in Nat
  BY ConstantsAssumption DEF Close, IInv, ClockOK
<1> QED BY <1>1, SoundSelf, ClosedSound

\* A new listener has a cursor of its own, at nothing.
LEMMA AddKept ==
  ASSUME IInv, NEW l \in Listeners, Add(l)
  PROVE  IInv'
<1>1. UNCHANGED <<spoken, queue, asked, heard, quiet>> /\ pc[l] = "new"
  BY DEF Add
<1>2. CASE Expired(hub) /\ hub' = Lost(hub) /\ UNCHANGED pc
  <2>1. quiet \in Nat /\ quiet <= quiet
    BY ConstantsAssumption DEF IInv, ClockOK
  <2>2. Sound(Lost(hub), heard, quiet)
    BY <1>2, <2>1, SoundSelf, LostSound
  <2>3. Sound(hub', heard', quiet')
    BY <1>1, <1>2, <2>2
  <2> QED BY <1>1, <1>2, <2>3, LeftAlone
<1>3. CASE /\ Cardinality(hub.members) < MaxListeners
           /\ hub' = [hub EXCEPT !.members = @ \cup {l}]
           /\ pc' = [pc EXCEPT ![l] = "idle"]
  <2> DEFINE g == [hub EXCEPT !.members = @ \cup {l}]
  <2>1. hub \in Hub /\ HubOK(hub, heard, spoken) /\ hub.after <= spoken
    BY DEF IInv, HubOK, CacheOK
  <2>2. g \in Hub
    BY <2>1 DEF Hub
  <2>3. /\ g.open = hub.open /\ g.cache = hub.cache /\ g.high = hub.high
        /\ g.discarded = hub.discarded /\ g.latest = hub.latest /\ g.cursor = hub.cursor
        /\ g.broken = hub.broken /\ g.after = hub.after /\ g.members = hub.members \cup {l}
        /\ g.invalid = hub.invalid /\ g.failing = hub.failing
    BY <2>1 DEF Hub
  <2>4. hub' = g
    BY <1>3
  <2> HIDE DEF g
  <2>5. HubOK(g, heard, spoken)
    BY <2>1, <2>2, <2>3, HubSame
  <2>6. MembersOK'
    <3>1. IsFiniteSet(hub.members)
      BY DEF IInv, MembersOK
    <3>2. /\ IsFiniteSet(hub.members \cup {l})
          /\ Cardinality(hub.members \cup {l}) =
               IF l \in hub.members THEN Cardinality(hub.members) ELSE Cardinality(hub.members) + 1
      BY <3>1, FS_AddElement
    <3>3. Cardinality(hub.members) \in Nat /\ MaxListeners \in Nat
      BY <3>1, FS_CardinalityType, ConstantsAssumption
    <3>4. Cardinality(hub.members \cup {l}) <= MaxListeners
      BY <1>3, <3>2, <3>3
    <3> QED BY <2>3, <2>4, <3>2, <3>4 DEF MembersOK
  <2>7. /\ pc \in [Listeners -> {"new", "idle", "wait", "request"}]
        /\ \A m \in Listeners : pc'[m] = IF m = l THEN "idle" ELSE pc[m]
        /\ pc' \in [Listeners -> {"new", "idle", "wait", "request"}]
    BY <1>3 DEF IInv, LockOK
  <2>8. LockOK'
    BY <1>1, <2>7 DEF IInv, LockOK
  <2>9. ClockOK'
    BY <1>1, <2>3, <2>4, <2>7 DEF IInv, ClockOK
  <2> QED BY <1>1, <2>4, <2>5, <2>6, <2>8, <2>9 DEF IInv
<1> QED BY <1>2, <1>3 DEF Add

LEMMA SpeakKept ==
  ASSUME IInv, Speak
  PROVE  IInv'
<1>1. UNCHANGED <<hub, pc, queue, asked, heard, quiet>> /\ spoken' = spoken + 1 /\ spoken < MaxSpoken
  BY DEF Speak
<1>2. spoken \in Nat /\ spoken' \in Nat /\ spoken' \in 0..MaxSpoken
  BY <1>1, ConstantsAssumption DEF IInv, HubOK
<1>3. hub \in Hub /\ heard \in Hearings /\ CacheOK(hub, spoken)
      /\ \A l \in Listeners : CursorOK(hub, heard, spoken, l)
  BY DEF IInv, HubOK
<1>4. CacheOK(hub, spoken')
  <2>1. {hub.high, hub.after, hub.latest} \subseteq Nat
    BY <1>3 DEF Hub
  <2> QED BY <1>1, <1>2, <1>3, <2>1 DEF CacheOK
<1>5. ASSUME NEW l \in Listeners PROVE CursorOK(hub, heard, spoken', l)
  <2>1. hub.cursor[l] \in Nat /\ heard[l].revision \in Nat
    BY <1>3 DEF Hub, Hearings
  <2>2. hub.cursor[l] <= spoken' /\ heard[l].revision <= spoken'
    BY <1>1, <1>2, <1>3, <2>1 DEF CursorOK
  <2> QED BY <1>3, <2>2 DEF CursorOK
<1>6. HubOK(hub', heard', spoken')
  BY <1>1, <1>2, <1>3, <1>4, <1>5 DEF HubOK
<1>7. MembersOK' /\ ClockOK' /\ LockOK'
  BY <1>1 DEF IInv, MembersOK, ClockOK, LockOK
<1> QED BY <1>2, <1>6, <1>7 DEF IInv

\* Failures and silence grow older together.
LEMMA TickKept ==
  ASSUME IInv, Tick
  PROVE  IInv'
<1> DEFINE cache == [i \in DOMAIN hub.cache |-> Older(hub.cache[i])]
           invalid == IF hub.failing THEN UpTo(Patience, hub.invalid) ELSE hub.invalid
           g == [hub EXCEPT !.cooldown = 0, !.invalid = invalid, !.cache = cache]
<1>1. /\ hub' = g /\ quiet' = UpTo(Patience, quiet)
      /\ asked' = IF \E l \in Listeners : pc[l] = "request" THEN UpTo(Patience, asked) ELSE 0
      /\ UNCHANGED <<spoken, pc, queue, heard>>
  BY DEF Tick
<1>2. /\ hub \in Hub /\ heard \in Hearings /\ spoken \in Nat /\ CacheOK(hub, spoken)
      /\ \A l \in Listeners : CursorOK(hub, heard, spoken, l)
      /\ Patience \in Nat /\ MaxLag \in Nat
      /\ asked \in 0..Patience /\ quiet \in 0..Patience
      /\ hub.invalid <= Patience /\ (hub.failing => hub.invalid <= quiet)
      /\ \A l \in Listeners : pc[l] = "request" => asked <= quiet
  BY ConstantsAssumption DEF IInv, HubOK, ClockOK
<1>3. /\ hub.cache \in Seq(Chunks) /\ Len(hub.cache) \in Nat /\ DOMAIN hub.cache = 1..Len(hub.cache)
      /\ \A i \in DOMAIN hub.cache : hub.cache[i] \in Chunks
  BY <1>2, LenProperties DEF Hub
<1>4. ASSUME NEW c \in Chunks
      PROVE  Older(c) \in Chunks /\ Older(c).revision = c.revision /\ Older(c).previous = c.previous
  <2>1. UpTo(MaxLag + 1, c.age) \in Nat
    BY <1>2 DEF UpTo, Chunks
  <2>2. Older(c) = [c EXCEPT !.age = UpTo(MaxLag + 1, c.age)]
    BY DEF Older
  <2> DEFINE n == UpTo(MaxLag + 1, c.age)
  <2> HIDE DEF n
  <2>3. [c EXCEPT !.age = n] \in Chunks /\ [c EXCEPT !.age = n].revision = c.revision
        /\ [c EXCEPT !.age = n].previous = c.previous
    BY <2>1 DEF Chunks, n
  <2> QED BY <2>2, <2>3 DEF n
<1>5. /\ cache \in Seq(Chunks) /\ Len(cache) = Len(hub.cache) /\ DOMAIN cache = DOMAIN hub.cache
      /\ \A i \in DOMAIN cache : cache[i].revision = hub.cache[i].revision
                                 /\ cache[i].previous = hub.cache[i].previous
  <2>1. \A i \in DOMAIN hub.cache : cache[i] = Older(hub.cache[i]) /\ cache[i] \in Chunks
    BY <1>3, <1>4
  <2>2. cache \in [1..Len(hub.cache) -> Chunks]
    BY <1>3, <1>4
  <2>3. DOMAIN cache = DOMAIN hub.cache
    OBVIOUS
  <2> HIDE DEF cache
  <2>4. cache \in Seq(Chunks)
    BY <1>3, <2>2, SeqDef
  <2>5. Len(cache) = Len(hub.cache)
    <3>1. Len(cache) \in Nat /\ DOMAIN cache = 1..Len(cache)
      BY <2>4, LenProperties
    <3> QED BY <1>3, <2>3, <3>1
  <2> QED BY <1>3, <1>4, <2>1, <2>3, <2>4, <2>5
<1>6. /\ invalid \in Nat /\ invalid <= Patience
      /\ hub.failing => invalid <= UpTo(Patience, quiet)
  <2>1. hub.invalid \in Nat
    BY <1>2 DEF Hub
  <2> QED BY <1>2, <2>1 DEF UpTo
<1> HIDE DEF cache, invalid
<1>7. g \in Hub
  BY <1>2, <1>5, <1>6 DEF Hub
<1>8. /\ g.open = hub.open /\ g.cache = cache /\ g.high = hub.high
      /\ g.discarded = hub.discarded /\ g.latest = hub.latest /\ g.cursor = hub.cursor
      /\ g.broken = hub.broken /\ g.after = hub.after /\ g.members = hub.members
      /\ g.invalid = invalid /\ g.failing = hub.failing
  BY <1>2, <1>5, <1>6 DEF Hub
<1> HIDE DEF g
<1>9. CacheOK(g, spoken)
  <2>1. hub.cache = <<>> => cache = <<>>
    BY <1>3, <1>5
  <2> QED BY <1>2, <1>5, <1>8, <2>1 DEF CacheOK
<1>10. \A l \in Listeners : CursorOK(g, heard, spoken, l)
  BY <1>2, <1>5, <1>8 DEF CursorOK
<1>11. HubOK(hub', heard', spoken')
  BY <1>1, <1>2, <1>7, <1>9, <1>10 DEF HubOK
<1>12. MembersOK' /\ LockOK' /\ spoken' \in 0..MaxSpoken
  BY <1>1, <1>8 DEF IInv, MembersOK, LockOK
<1>13. ClockOK'
  <2>1. asked' \in 0..Patience /\ quiet' \in 0..Patience
    BY <1>1, <1>2 DEF UpTo
  <2>2. \A l \in Listeners : pc'[l] = "request" => asked' <= quiet'
    BY <1>1, <1>2 DEF UpTo
  <2> QED BY <1>1, <1>6, <1>8, <2>1, <2>2 DEF ClockOK
<1> QED BY <1>11, <1>12, <1>13 DEF IInv

LEMMA InitIInv ==
  ASSUME Init
  PROVE  IInv
<1>1. hub \in Hub /\ heard \in Hearings /\ spoken = 0
  BY DEF Init, Hub, Hearings
<1>2. /\ hub.cache = <<>> /\ hub.high = 0 /\ hub.discarded = 0 /\ hub.latest = 0 /\ hub.after = 0
      /\ hub.open = TRUE /\ hub.members = {} /\ hub.invalid = 0 /\ hub.failing = FALSE
      /\ \A l \in Listeners : hub.cursor[l] = 0 /\ heard[l].revision = 0
  BY DEF Init
<1>3. HubOK(hub, heard, spoken)
  <2>1. CacheOK(hub, spoken)
    <3>1. Len(<<>>) = 0 /\ DOMAIN <<>> = {} /\ CacheSize \in Nat
      BY ConstantsAssumption
    <3> QED BY <1>1, <1>2, <3>1 DEF CacheOK
  <2>2. \A l \in Listeners : CursorOK(hub, heard, spoken, l)
    BY <1>1, <1>2 DEF CursorOK
  <2> QED BY <1>1, <2>1, <2>2 DEF HubOK
<1>4. MembersOK
  BY <1>2, FS_EmptySet, ConstantsAssumption DEF MembersOK
<1>5. ClockOK
  BY <1>2, ConstantsAssumption DEF Init, ClockOK
<1>6. LockOK
  BY DEF Init, LockOK
<1> QED BY <1>1, <1>3, <1>4, <1>5, <1>6, ConstantsAssumption DEF IInv

LEMMA StepKept ==
  ASSUME IInv, [Next]_vars
  PROVE  IInv'
<1>1. ASSUME NEW l \in Listeners, Add(l) PROVE IInv'
  BY <1>1, AddKept
<1>2. ASSUME NEW l \in Listeners, Leave(l) PROVE IInv'
  BY <1>2, LeaveSound, LeftAlone DEF Leave
<1>3. ASSUME NEW l \in Listeners, ReadStep(l) PROVE IInv'
  BY <1>3, ReadStepKept
<1>4. CASE Close
  BY <1>4, CloseSound, LeftAlone DEF Close
<1>5. CASE Speak
  BY <1>5, SpeakKept
<1>6. CASE Tick
  BY <1>6, TickKept
<1>7. CASE UNCHANGED vars
  BY <1>7 DEF vars, IInv, MembersOK, ClockOK, LockOK
<1> QED BY <1>1, <1>2, <1>3, <1>4, <1>5, <1>6, <1>7 DEF Next, ReadStep

\* Behind the theorems below, in every reachable state: the readers, the lock, the cache and the
\* clocks of the hub (add, remove, read and _cached) agree with what the bridge has replied.
THEOREM Invariant == Spec => []IInv
<1>1. Init => IInv
  BY InitIInv
<1>2. IInv /\ [Next]_vars => IInv'
  BY StepKept
<1> QED BY <1>1, <1>2, PTL DEF Spec
-----------------------------------------------------------------------------
(* What the hub guarantees                                                 *)

\* The hub, its readers and its lock stay in their ranges: the cache has its bound, the listeners
\* theirs, and the lock knows of every read that waits or asks.
THEOREM TypeCorrect == Spec => []TypeOK
<1>1. IInv => TypeOK
  <2> SUFFICES ASSUME IInv PROVE TypeOK
    OBVIOUS
  <2>1. /\ hub \in Hub /\ heard \in Hearings /\ spoken \in Nat /\ spoken \in 0..MaxSpoken
        /\ CacheOK(hub, spoken) /\ \A l \in Listeners : CursorOK(hub, heard, spoken, l)
        /\ MembersOK /\ ClockOK /\ LockOK
    BY DEF IInv, HubOK
  <2>2. asked \in 0..Patience /\ quiet \in 0..Patience /\ Cardinality(hub.members) <= MaxListeners
    BY <2>1 DEF ClockOK, MembersOK
  <2>3. /\ hub.members \subseteq Listeners /\ hub.broken \in [Listeners -> BOOLEAN]
        /\ hub.cursor \in [Listeners -> Nat]
        /\ {hub.after, hub.high, hub.discarded, hub.latest} \subseteq Nat
    BY <2>1 DEF Hub
  <2>4. hub.cursor \in [Listeners -> 0..spoken]
    BY <2>1, <2>3 DEF CursorOK
  <2>5. {hub.after, hub.high, hub.discarded, hub.latest} \subseteq 0..spoken
    BY <2>1, <2>3 DEF CacheOK
  <2>6. Len(hub.cache) <= CacheSize
    BY <2>1 DEF CacheOK
  <2>7. pc \in [Listeners -> {"new", "idle", "wait", "request"}]
    BY <2>1 DEF LockOK
  <2>8. {l \in Listeners : pc[l] \in {"wait", "request"}} = ToSet(queue)
    <3>1. queue \in Seq(Listeners)
          /\ \A l \in Listeners : pc[l] \in {"wait", "request"} <=> \E i \in DOMAIN queue : queue[i] = l
      BY <2>1 DEF LockOK
    <3>2. \A i \in DOMAIN queue : queue[i] \in Listeners
      BY <3>1
    <3> QED BY <3>1, <3>2 DEF ToSet
  <2>9. heard \in [Listeners -> [revision : 0..spoken, gap : BOOLEAN]]
    <3>1. ASSUME NEW l \in Listeners PROVE heard[l] \in [revision : 0..spoken, gap : BOOLEAN]
      <4>1. heard[l] \in [revision : Nat, gap : BOOLEAN] /\ heard[l].revision <= spoken
        BY <2>1 DEF Hearings, CursorOK
      <4> QED BY <2>1, <4>1
    <3> QED BY <2>1, <3>1 DEF Hearings
  <2> QED BY <2>1, <2>2, <2>3, <2>4, <2>5, <2>6, <2>7, <2>8, <2>9 DEF TypeOK
<1> QED BY <1>1, Invariant, PTL

\* Everybody but the reader hears nothing in a step; nobody does in a step that is no read's.
LEMMA HeardBy ==
  ASSUME IInv, [Next]_vars
  PROVE  \/ UNCHANGED <<spoken, heard>>
         \/ spoken' = spoken + 1 /\ heard' = heard
         \/ \E l \in Listeners : ReadStep(l)
<1>1. ASSUME NEW l \in Listeners, Add(l) PROVE UNCHANGED <<spoken, heard>>
  BY <1>1 DEF Add
<1>2. ASSUME NEW l \in Listeners, Leave(l) PROVE UNCHANGED <<spoken, heard>>
  BY <1>2 DEF Leave
<1>3. CASE Close
  BY <1>3 DEF Close
<1>4. CASE Speak
  BY <1>4 DEF Speak
<1>5. CASE Tick
  BY <1>5 DEF Tick
<1>6. CASE UNCHANGED vars
  BY <1>6 DEF vars
<1> QED BY <1>1, <1>2, <1>3, <1>4, <1>5, <1>6 DEF Next, ReadStep

\* Every step of the hub is one of AudioDelivery, or none.
LEMMA DeliveryStep ==
  ASSUME IInv, [Next]_vars
  PROVE  [Delivery!Next]_(Delivery!delivery)
<1>1. CASE UNCHANGED <<spoken, heard>>
  BY <1>1 DEF Delivery!delivery
<1>2. CASE spoken' = spoken + 1 /\ heard' = heard
  BY <1>2 DEF Delivery!Next, Delivery!Speak
<1>3. ASSUME NEW l \in Listeners, ReadStep(l)
      PROVE  [Delivery!Next]_(Delivery!delivery)
  <2>1. /\ spoken' = spoken
        /\ \/ heard' = heard
           \/ \E c : Promised(heard, spoken, l, c) /\ heard' = [heard EXCEPT ![l] = c]
    BY <1>3, ReadStepServes DEF Serving
  <2>2. CASE heard' = heard
    BY <2>1, <2>2 DEF Delivery!delivery
  <2>3. ASSUME NEW c, Promised(heard, spoken, l, c), heard' = [heard EXCEPT ![l] = c]
        PROVE  Delivery!Next
    <3>1. c.revision \in 1..spoken /\ c.gap \in BOOLEAN
          /\ c = [revision |-> c.revision, gap |-> c.gap]
      BY <2>3 DEF Promised
    <3>2. Delivery!Hear(l, c.revision, c.gap)
      BY <2>1, <2>3, <3>1 DEF Delivery!Hear, Promised
    <3> QED BY <3>1, <3>2 DEF Delivery!Next
  <2> QED BY <2>1, <2>2, <2>3
<1> QED BY <1>1, <1>2, <1>3, HeardBy

\* Through the shared cursor, cache and request each listener gets what AudioDelivery promises:
\* nothing twice, nothing out of order, and no gap untold.
THEOREM HubDelivers == Spec => Delivered
<1>1. Init => Delivery!Init
  BY DEF Init, Delivery!Init
<1>2. IInv /\ [Next]_vars => [Delivery!Next]_(Delivery!delivery)
  BY DeliveryStep
<1> QED BY <1>1, <1>2, Invariant, PTL DEF Spec, Delivered, Delivery!Spec

\* Who has left the hub by the time the reply arrives hears nothing of it.
THEOREM MembersHear == Spec => MembersOnly
<1>1. IInv /\ [Next]_vars => [\A l \in Listeners : heard'[l] # heard[l] => l \in hub.members]_vars
  <2> SUFFICES ASSUME IInv, [Next]_vars
               PROVE  \A l \in Listeners : heard'[l] # heard[l] => l \in hub.members
    OBVIOUS
  <2>1. CASE heard' = heard
    BY <2>1
  <2>2. ASSUME NEW m \in Listeners, ReadStep(m)
        PROVE  \A l \in Listeners : heard'[l] # heard[l] => l \in hub.members
    <3>1. \/ heard' = heard
          \/ m \in hub.members /\ \E c : heard' = [heard EXCEPT ![m] = c]
      BY <2>2, ReadStepServes DEF Serving
    <3>2. heard \in Hearings
      BY DEF IInv, HubOK
    <3> QED BY <3>1, <3>2 DEF Hearings
  <2> QED BY <2>1, <2>2, HeardBy
<1> QED BY <1>1, Invariant, PTL DEF Spec, MembersOnly

\* The connection counts as lost only after Patience without any valid reply.
THEOREM LostAfterPatience == Spec => LostLate
<1>1. IInv /\ [Next]_vars => [hub'.lost /\ ~hub.lost => quiet >= Patience]_vars
  <2> SUFFICES ASSUME IInv, [Next]_vars, hub'.lost, ~hub.lost
               PROVE  quiet >= Patience
    OBVIOUS
  <2>1. ASSUME Sound(hub', heard', quiet') PROVE quiet >= Patience
    BY <2>1 DEF Sound
  <2>2. ASSUME NEW l \in Listeners, Add(l) PROVE quiet >= Patience
    <3>1. CASE Expired(hub)
      <4>1. hub.invalid >= Patience /\ hub.invalid <= quiet
        BY <3>1 DEF Expired, IInv, ClockOK
      <4>2. hub.invalid \in Nat /\ Patience \in Nat /\ quiet \in Nat
        BY ConstantsAssumption DEF IInv, HubOK, Hub, ClockOK
      <4> QED BY <4>1, <4>2
    <3>2. CASE hub' = [hub EXCEPT !.members = @ \cup {l}]
      <4>1. hub'.lost = hub.lost
        BY <3>2 DEF IInv, HubOK, Hub
      <4> QED BY <4>1
    <3> QED BY <2>2, <3>1, <3>2 DEF Add
  <2>3. ASSUME NEW l \in Listeners, Leave(l) PROVE quiet >= Patience
    BY <2>1, <2>3, LeaveSound
  <2>4. ASSUME NEW l \in Listeners, ReadStep(l) PROVE quiet >= Patience
    BY <2>1, <2>4, ReadStepServes DEF Serving
  <2>5. CASE Close
    BY <2>1, <2>5, CloseSound
  <2>6. CASE hub' = hub
    BY <2>6
  <2>7. CASE Tick
    <3>1. hub'.lost = hub.lost
      BY <2>7 DEF Tick, IInv, HubOK, Hub
    <3> QED BY <3>1
  <2> QED BY <2>2, <2>3, <2>4, <2>5, <2>6, <2>7 DEF Next, ReadStep, Speak, vars
<1> QED BY <1>1, Invariant, PTL DEF Spec, LostLate
=============================================================================
