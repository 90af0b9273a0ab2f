---------------------------- MODULE WebRtcProofs ----------------------------
(***************************************************************************)
(* What WebRtc keeps for any number of offers, attempts and cleaning       *)
(* tasks: the types of its state, that no tasks wait for each other in a   *)
(* circle and, when no three offers share an id, that candidates arrive in *)
(* order.                                                                  *)
(***************************************************************************)
EXTENDS WebRtc, TLAPS

-----------------------------------------------------------------------------
(* The inductive invariant                                                 *)

\* A function with the given domain.
Has(f, domain) == f = [n \in domain |-> f[n]]

Acting == {"close", "release"}
Stages == {"none", "start", "gather", "wait", "ok", "raised", "ended"} \cup Acting
Places == {"idle", "previous", "old", "acquire", "connect", "send", "answer", "undo", "sleep",
           "abort", "release", "done"}
Leases == {"none", "owned", "released", "stranded", "lost"}

IsJob(j) ==
  /\ Has(j, {"stage", "of", "release", "on"}) /\ j.stage \in Stages
  /\ j.stage \in Acting \cup {"start"} => j.of \in Objects
IsSession(x) ==
  /\ Has(x, {"reader", "stop", "open", "answer", "negotiating", "offerSent", "released",
             "leaseReleased", "failed", "cleaner"})
  /\ x.cleaner \in Tasks \cup {None}
IsLocal(l) == Has(l, {"previous", "state", "failure", "viewerReleased", "index"})
IsLeft(l) ==
  /\ Has(l, {"offers", "attempts", "sweepers", "candidates", "errors", "closes", "moves", "unloads"})
  /\ l.attempts \in 0..MaxAttempts

ProviderTyped ==
  /\ session \in Objects \cup {None} /\ negotiation \in Offers \cup {None}
  /\ pending \in Seq(1..candidates) /\ candidates \in Nat
OffersTyped ==
  /\ pc \in [Offers -> Places] /\ Has(local, Offers)
  /\ attempt \in [Offers -> 0..MaxAttempts] /\ cancelled \in [Offers -> BOOLEAN]
OthersTyped == lease \in [Offers -> Leases] /\ running \in Tasks \cup {None} /\ IsLeft(left)
Typed == ProviderTyped /\ OffersTyped /\ OthersTyped

\* An offer has made no attempt before it connects, goes back only while attempts are left, and
\* calls _cleanup_session in three places.
OfferOK(o) ==
  LET l == local[o]
  IN /\ IsLocal(l)
     /\ l.state \in {None} \cup ({o} \X (1..attempt[o]))
     /\ pc[o] \in {"send", "answer"} => l.state # None
     /\ pc[o] \in {"idle", "previous", "old", "acquire"} => attempt[o] = 0
     /\ pc[o] = "connect" => attempt[o] = 0 \/ attempt[o] < left.attempts
     /\ pc[o] = "sleep" \/ (pc[o] = "undo" /\ l.failure = "retry") => attempt[o] < left.attempts
     /\ job[o].stage # "none" => pc[o] \in {"old", "undo", "abort"}

\* A reader cleans up when its loop has ended; the task that a session names as its cleaner is at
\* one of the two requests of its cleanup.
ObjectOK(s) ==
  LET x == obj[s]
  IN /\ IsSession(x)
     /\ x.reader # "none" => s[2] <= attempt[s[1]]
     /\ job[s].stage # "none" => x.reader = "cleaning"
     /\ x.cleaner # None => job[x.cleaner].stage \in Acting /\ job[x.cleaner].of = s

\* Nobody waits for an offer that has not come, or for an unload that has not begun.
Begun(t) ==
  /\ WaitsOn(t) \in Offers => pc[WaitsOn(t)] # "idle"
  /\ WaitsOn(t) = Unload => job[Unload].stage # "none"

WInv ==
  /\ Typed
  /\ Has(job, Tasks) /\ \A t \in Tasks : IsJob(job[t]) /\ Begun(t)
  /\ Has(obj, Objects) /\ \A s \in Objects : ObjectOK(s)
  /\ \A o \in Offers : OfferOK(o)
  /\ negotiation # None => pc[negotiation] # "idle"
  /\ NoCircle

-----------------------------------------------------------------------------
(* Facts about the values                                                  *)

LEMMA Blank ==
  /\ IsJob(NoJob) /\ NoJob.stage = "none" /\ IsLocal(NoLocals) /\ NoLocals.state = None
  /\ NoLocals.failure = "none"
  /\ IsSession(Fresh) /\ Fresh.cleaner = None /\ Fresh.reader = "reading"
  BY DEF IsJob, Has, NoJob, Stages, Acting, IsLocal, NoLocals, IsSession, Fresh

LEMMA Kinds ==
  /\ Offers \subseteq Tasks /\ Objects \subseteq Tasks /\ Cleaners \subseteq Tasks
  /\ \A o \in Offers : o \notin Cleaners /\ o \notin Objects
  /\ \A s \in Objects : s \notin Cleaners /\ s \notin Offers
  /\ \A k \in Cleaners : k \notin Offers /\ k \notin Objects
  /\ Unload \in Cleaners /\ Sweepers \subseteq Cleaners /\ Unload \notin Sweepers
  /\ None \notin Offers /\ None \notin Objects /\ None \notin Tasks
  BY TasksAssumption DEF Tasks, Cleaners

LEMMA SpendKeeps ==
  ASSUME IsLeft(left),
         NEW what \in {"offers", "sweepers", "candidates", "errors", "closes", "moves", "unloads"},
         Spend(what)
  PROVE  IsLeft(left') /\ left'.attempts = left.attempts
<1>1. left' = [left EXCEPT ![what] = left[what] - 1]
  BY DEF Spend, IsLeft, Has
<1> QED
  BY <1>1 DEF IsLeft, Has

\* A set that waits only for itself, after one task has begun to wait, did so before.
LEMMA Circles ==
  ASSUME NEW T, NEW f, NEW g, NEW t \in T, NEW none, none \notin T,
         \A C \in SUBSET T : C # {} => \E u \in C : f[u] \notin C,
         \A u \in T : u # t => g[u] \in {f[u], none},
         \/ g[t] \in {f[t], none}
         \/ g[t] # t /\ (g[t] \in T => g[g[t]] = none)
         \/ g[t] # t /\ \A u \in T : f[u] # t
  PROVE  \A C \in SUBSET T : C # {} => \E u \in C : g[u] \notin C
<1> SUFFICES ASSUME NEW C \in SUBSET T, C # {}, \A u \in C : g[u] \in C
             PROVE  FALSE
  OBVIOUS
<1>1. \A u \in C : u # t => g[u] = f[u]
  OBVIOUS
<1>2. CASE t \notin C \/ g[t] = f[t]
  BY <1>1, <1>2
<1>3. CASE t \in C /\ g[t] # f[t]
  <2>1. g[t] \in C /\ g[t] # none
    BY <1>3
  <2>2. g[t] # t /\ \A u \in T : f[u] # t
    BY <2>1, <1>3
  <2>3. C \ {t} # {} /\ C \ {t} \in SUBSET T
    BY <2>1, <2>2
  <2>4. \A u \in C \ {t} : f[u] \in C \ {t}
    BY <1>1, <2>2
  <2> QED
    BY <2>3, <2>4
<1> QED
  BY <1>2, <1>3

\* Only those who wait can be in a circle.
LEMMA CircleFree ==
  ASSUME NEW T, NEW f, NEW none, none \notin T
  PROVE  (\A C \in (SUBSET {u \in T : f[u] # none}) \ {{}} : \E u \in C : f[u] \notin C)
           <=> \A C \in SUBSET T : C # {} => \E u \in C : f[u] \notin C
<1> DEFINE W == {u \in T : f[u] # none}
<1>1. ASSUME \A C \in (SUBSET W) \ {{}} : \E u \in C : f[u] \notin C,
             NEW C \in SUBSET T, C # {}
      PROVE  \E u \in C : f[u] \notin C
  <2>1. CASE \E u \in C : f[u] = none
    BY <2>1
  <2>2. CASE \A u \in C : f[u] # none
    <3>1. \A u \in C : u \in W
      BY <2>2
    <3>2. C \in SUBSET W
      BY <3>1
    <3>3. C \in (SUBSET W) \ {{}}
      BY <3>2, <1>1
    <3> QED
      BY <1>1, <3>3
  <2> QED
    BY <2>1, <2>2
<1>2. ASSUME \A C \in SUBSET T : C # {} => \E u \in C : f[u] \notin C,
             NEW C \in (SUBSET W) \ {{}}
      PROVE  \E u \in C : f[u] \notin C
  <2>1. C \in SUBSET W /\ C # {}
    OBVIOUS
  <2>2. C \in SUBSET T
    BY <2>1
  <2> QED
    BY <1>2, <2>1, <2>2
<1> QED
  BY <1>1, <1>2

-----------------------------------------------------------------------------
(* What a step of one task does to the jobs and to the sessions            *)

\* Task t acts; whoever waits for it may be resumed.
Tended(t) ==
  /\ Has(job', Tasks) /\ IsJob(job'[t])
  /\ \A u \in Tasks : u # t =>
       \/ job'[u] = job[u]
       \/ job[u].stage = "wait" /\ job'[u].stage \in {"ok", "raised"} /\ IsJob(job'[u])
  /\ Has(obj', Objects)
  /\ \A s \in Objects :
       /\ IsSession(obj'[s]) /\ obj'[s].cleaner \in {None, t, obj[s].cleaner}
       /\ obj'[s].cleaner = t => job'[t].stage \in Acting /\ job'[t].of = s

SameReaders == \A s \in Objects : obj'[s].reader = obj[s].reader

\* It begins to wait for a cleanup under way.
Hangs(t) ==
  /\ job'[t].stage = "wait"
  /\ \E c \in Tasks : c # t /\ job'[t].on = c /\ job[c].stage \in Acting /\ job'[c] = job[c]
\* The unload begins to wait for a handler.
Gathers(t) ==
  t = Unload /\ job[t].stage = "none" /\ job'[t].stage = "gather" /\ job'[t].on = negotiation
Waits(t) == job'[t].stage \in {"wait", "gather"} => job'[t] = job[t] \/ Hangs(t) \/ Gathers(t)
\* A new offer waits for the handler that it has cancelled.
Follows(t) ==
  t \in Offers /\ pc'[t] = "previous" =>
    /\ pc[t] = "idle" /\ job'[t].stage = "none"
    /\ negotiation \in Offers /\ local'[t].previous = negotiation

LEMMA StepHolds ==
  ASSUME WInv, NEW t \in Tasks, Tended(t), Typed', Waits(t), Follows(t),
         \A o \in Offers : o # t => /\ pc'[o] = pc[o] /\ local'[o] = local[o]
                                    /\ attempt'[o] = attempt[o],
         left'.attempts = left.attempts,
         t \in Offers => OfferOK(t)' /\ pc'[t] # "idle" /\ attempt[t] <= attempt'[t],
         t \in Objects => (job'[t].stage # "none" => obj'[t].reader = "cleaning"),
         t = Unload => job'[t].stage # "none",
         \A s \in Objects : s # t => obj'[s].reader = obj[s].reader \/ obj[s].reader = "none",
         \A s \in Objects :
           obj'[s].reader # "none" => obj[s].reader # "none" \/ s[2] <= attempt'[s[1]],
         negotiation' \in {None, negotiation} \/ (negotiation' = t /\ t \in Offers)
  PROVE  WInv'
<1> USE Kinds
<1>1. ASSUME NEW u \in Tasks PROVE IsJob(job'[u])
  BY DEF Tended, WInv
<1>2. ASSUME NEW o \in Offers PROVE OfferOK(o)'
  <2>1. CASE o = t
    BY <2>1
  <2>2. CASE o # t
    <3>1. OfferOK(o) /\ (job'[o].stage # "none" => job[o].stage # "none")
      BY <2>2 DEF WInv, Tended
    <3> QED
      BY <2>2, <3>1 DEF OfferOK
  <2> QED
    BY <2>1, <2>2
<1>3. ASSUME NEW s \in Objects PROVE ObjectOK(s)'
  <2>1. ObjectOK(s) /\ IsSession(obj'[s])
    BY DEF WInv, Tended
  <2>2. obj'[s].reader # "none" => s[2] <= attempt'[s[1]]
    <3>1. s[1] \in Offers /\ s[2] \in 1..MaxAttempts
      BY DEF Objects
    <3>2. attempt[s[1]] <= attempt'[s[1]] /\ attempt[s[1]] \in Nat /\ attempt'[s[1]] \in Nat
      BY <3>1, BoundsAssumption DEF WInv, Typed, OffersTyped
    <3> QED
      BY <2>1, <3>1, <3>2 DEF ObjectOK
  <2>3. job'[s].stage # "none" => obj'[s].reader = "cleaning"
    <3>1. CASE s = t
      BY <3>1
    <3>2. CASE s # t
      <4>1. job'[s].stage # "none" => job[s].stage # "none"
        BY <3>2 DEF Tended
      <4> QED
        BY <2>1, <3>2, <4>1 DEF ObjectOK
    <3> QED
      BY <3>1, <3>2
  <2>4. ASSUME obj'[s].cleaner # None
        PROVE  job'[obj'[s].cleaner].stage \in Acting /\ job'[obj'[s].cleaner].of = s
    <3>1. CASE obj'[s].cleaner = t
      BY <3>1 DEF Tended
    <3>2. CASE obj'[s].cleaner # t
      <4>1. obj'[s].cleaner = obj[s].cleaner /\ obj[s].cleaner \in Tasks
        BY <2>1, <2>4, <3>2 DEF Tended, ObjectOK, IsSession
      <4>2. job[obj[s].cleaner].stage \in Acting /\ job[obj[s].cleaner].of = s
        BY <2>1, <2>4, <4>1 DEF ObjectOK
      <4>3. job'[obj[s].cleaner] = job[obj[s].cleaner]
        BY <3>2, <4>1, <4>2 DEF Tended, Acting
      <4> QED
        BY <4>1, <4>2, <4>3
    <3> QED
      BY <3>1, <3>2
  <2> QED
    BY <2>1, <2>2, <2>3, <2>4 DEF ObjectOK
<1>4. ASSUME NEW u \in Tasks, u # t PROVE WaitsOn(u)' \in {WaitsOn(u), None}
  <2>1. u \in Offers => pc'[u] = pc[u] /\ local'[u] = local[u]
    BY <1>4
  <2>2. job'[u] = job[u] \/ (job[u].stage = "wait" /\ job'[u].stage \in {"ok", "raised"})
    BY <1>4 DEF Tended
  <2> QED
    BY <2>1, <2>2 DEF WaitsOn
\* The task that acts waits for nobody new, for somebody who does not wait, or is new itself.
<1>5. \/ WaitsOn(t)' \in {WaitsOn(t), None}
      \/ \E c \in Tasks : /\ WaitsOn(t)' = c /\ c # t /\ WaitsOn(c)' = None
                          /\ job[c].stage \in Acting /\ job'[c] = job[c]
      \/ /\ WaitsOn(t)' = negotiation /\ negotiation \in Offers /\ negotiation # t
         /\ \A u \in Tasks : WaitsOn(u) # t
  <2>1. ASSUME t \in Offers, pc'[t] = "previous"
        PROVE  /\ WaitsOn(t)' = negotiation /\ negotiation \in Offers /\ negotiation # t
               /\ \A u \in Tasks : WaitsOn(u) # t
    <3>1. pc[t] = "idle" /\ negotiation \in Offers /\ local'[t].previous = negotiation
      BY <2>1 DEF Follows
    <3>2. pc[negotiation] # "idle"
      BY <3>1 DEF WInv
    <3>3. \A u \in Tasks : WaitsOn(u) # t
      BY <2>1, <3>1 DEF WInv, Begun
    <3> QED
      BY <2>1, <3>1, <3>2, <3>3 DEF WaitsOn
  <2>2. ASSUME ~(t \in Offers /\ pc'[t] = "previous"), job'[t].stage \notin {"wait", "gather"}
        PROVE  WaitsOn(t)' = None
    BY <2>2 DEF WaitsOn
  <2>3. ASSUME ~(t \in Offers /\ pc'[t] = "previous"), job'[t].stage \in {"wait", "gather"}, job'[t] = job[t]
        PROVE  WaitsOn(t)' = WaitsOn(t)
    <3>1. t \in Offers => pc[t] # "previous"
      BY <2>3 DEF WInv, OfferOK
    <3> QED
      BY <2>3, <3>1 DEF WaitsOn
  <2>4. ASSUME ~(t \in Offers /\ pc'[t] = "previous"), Hangs(t)
        PROVE  \E c \in Tasks : /\ WaitsOn(t)' = c /\ c # t /\ WaitsOn(c)' = None
                                /\ job[c].stage \in Acting /\ job'[c] = job[c]
    <3>1. PICK c \in Tasks : c # t /\ job'[t].on = c /\ job[c].stage \in Acting /\ job'[c] = job[c]
      BY <2>4 DEF Hangs
    <3>2. c \in Offers => pc'[c] # "previous"
      <4>1. c \in Offers => job[c].stage # "none" /\ OfferOK(c) /\ pc'[c] = pc[c]
        BY <3>1 DEF WInv, Acting
      <4> QED
        BY <4>1 DEF OfferOK
    <3>3. WaitsOn(c)' = None
      BY <3>1, <3>2 DEF WaitsOn, Acting
    <3>4. WaitsOn(t)' = c
      BY <2>4, <3>1 DEF WaitsOn, Hangs
    <3> QED
      BY <3>1, <3>3, <3>4
  <2>5. ASSUME Gathers(t)
        PROVE  \/ WaitsOn(t)' = None
               \/ /\ WaitsOn(t)' = negotiation /\ negotiation \in Offers /\ negotiation # t
                  /\ \A u \in Tasks : WaitsOn(u) # t
    <3>1. t = Unload /\ WaitsOn(t)' = negotiation
      BY <2>5 DEF Gathers, WaitsOn
    <3>2. \A u \in Tasks : WaitsOn(u) # t
      BY <2>5, <3>1 DEF Gathers, WInv, Begun
    <3>3. negotiation \in Offers \cup {None}
      BY DEF WInv, Typed, ProviderTyped
    <3> QED
      BY <3>1, <3>2, <3>3
  <2> QED
    BY <2>1, <2>2, <2>3, <2>4, <2>5 DEF Waits
<1>6. NoCircle'
  <2> DEFINE f == [u \in Tasks |-> WaitsOn(u)]
             g == [u \in Tasks |-> WaitsOn(u)']
  <2>1. (\A C \in (SUBSET {u \in Tasks : f[u] # None}) \ {{}} : \E u \in C : f[u] \notin C)
    <3>1. {u \in Tasks : f[u] # None} = {u \in Tasks : WaitsOn(u) # None}
      OBVIOUS
    <3>2. ASSUME NEW C \in (SUBSET {u \in Tasks : WaitsOn(u) # None}) \ {{}}
          PROVE  \E u \in C : f[u] \notin C
      <4>1. PICK u \in C : WaitsOn(u) \notin C
        BY <3>2 DEF WInv, NoCircle
      <4> QED
        BY <3>2, <4>1
    <3> QED
      BY <3>1, <3>2
  <2>2. \A u \in Tasks : u # t => g[u] \in {f[u], None}
    BY <1>4
  <2>3. \/ g[t] \in {f[t], None}
        \/ g[t] # t /\ (g[t] \in Tasks => g[g[t]] = None)
        \/ g[t] # t /\ \A u \in Tasks : f[u] # t
    BY <1>5
  <2>4. \A u \in Tasks : g[u] = WaitsOn(u)'
    OBVIOUS
  <2> HIDE DEF f, g
  <2>5. \A C \in SUBSET Tasks : C # {} => \E u \in C : f[u] \notin C
    BY <2>1, CircleFree
  <2>6. \A C \in SUBSET Tasks : C # {} => \E u \in C : g[u] \notin C
    <3>1. None \notin Tasks
      OBVIOUS
    <3> HIDE <1>1, <1>2, <1>3, <1>4, <1>5
    <3> QED
      BY ONLY <2>2, <2>3, <2>5, <3>1, t \in Tasks, Circles, SMTT(30)
  <2>7. ASSUME NEW C \in (SUBSET {u \in Tasks : WaitsOn(u)' # None}) \ {{}}
        PROVE  \E u \in C : WaitsOn(u)' \notin C
    <3>1. C \in SUBSET Tasks /\ C # {}
      OBVIOUS
    <3>2. PICK u \in C : g[u] \notin C
      BY <2>6, <3>1
    <3> QED
      BY <2>4, <3>1, <3>2
  <2> QED
    BY <2>7 DEF NoCircle
<1>7. ASSUME NEW o \in Offers, pc[o] # "idle" PROVE pc'[o] # "idle"
  BY <1>7
<1>8. job[Unload].stage # "none" => job'[Unload].stage # "none"
  BY DEF Tended
<1>9. negotiation' # None => pc'[negotiation'] # "idle"
  <2>1. negotiation \in Offers \cup {None} /\ (negotiation # None => pc[negotiation] # "idle")
    BY DEF WInv, Typed, ProviderTyped
  <2> QED
    BY <1>7, <2>1
<1>10. ASSUME NEW u \in Tasks PROVE Begun(u)'
  <2>1. Begun(u)
    BY DEF WInv
  <2>2. CASE WaitsOn(u)' \in {WaitsOn(u), None}
    BY <1>7, <1>8, <2>1, <2>2 DEF Begun
  <2>3. ASSUME NEW c \in Tasks, WaitsOn(u)' = c, job[c].stage \in Acting, job'[c] = job[c]
        PROVE  Begun(u)'
    <3>1. job'[c].stage # "none"
      BY <2>3 DEF Acting
    <3>2. c \in Offers => pc'[c] # "idle"
      BY <1>2, <3>1 DEF OfferOK
    <3> QED
      BY <2>3, <3>1, <3>2 DEF Begun
  <2>4. CASE WaitsOn(u)' = negotiation /\ negotiation \in Offers
    <3>1. pc'[negotiation] # "idle" /\ negotiation # Unload
      BY <1>7, <2>4 DEF WInv
    <3> QED
      BY <2>4, <3>1 DEF Begun
  <2> QED
    BY <1>4, <1>5, <2>2, <2>3, <2>4
<1>11. Has(job', Tasks) /\ Has(obj', Objects)
  BY DEF Tended
<1> QED
  BY <1>1, <1>2, <1>3, <1>6, <1>9, <1>10, <1>11 DEF WInv

-----------------------------------------------------------------------------
(* The pieces that actions are made of                                     *)

\* The parts of Tended.
Jobs(t) ==
  /\ Has(job', Tasks) /\ IsJob(job'[t])
  /\ \A u \in Tasks : u # t =>
       \/ job'[u] = job[u]
       \/ job[u].stage = "wait" /\ job'[u].stage \in {"ok", "raised"} /\ IsJob(job'[u])
Sessions(t) ==
  /\ Has(obj', Objects)
  /\ \A s \in Objects :
       /\ IsSession(obj'[s]) /\ obj'[s].cleaner \in {None, t, obj[s].cleaner}
       /\ obj'[s].cleaner = t => job'[t].stage \in Acting /\ job'[t].of = s

LEMMA JobPut ==
  ASSUME WInv, NEW t \in Tasks, NEW j, IsJob(j), job' = [job EXCEPT ![t] = j]
  PROVE  Jobs(t) /\ job'[t] = j
  BY DEF WInv, Jobs, Has

LEMMA Stays ==
  ASSUME WInv, NEW t \in Tasks, job' = job
  PROVE  Jobs(t) /\ job'[t] = job[t]
  BY DEF WInv, Jobs

LEMMA JobWoken ==
  ASSUME WInv, NEW t \in Tasks, NEW j, IsJob(j), j.stage # "wait", NEW how \in {"ok", "raised"},
         job' = Wake([job EXCEPT ![t] = j], t, how)
  PROVE  Jobs(t) /\ job'[t] = j
<1> DEFINE k == [job EXCEPT ![t] = j]
<1>1. Has(k, Tasks) /\ k[t] = j /\ \A u \in Tasks : u # t => k[u] = job[u]
  BY DEF WInv, Has
<1>2. \A u \in Tasks : IsJob(job[u])
  BY DEF WInv
<1>3. job' = [u \in Tasks |-> IF k[u].stage = "wait" /\ k[u].on = t THEN [k[u] EXCEPT !.stage = how]
                              ELSE k[u]]
  BY DEF Wake
<1> HIDE DEF k
<1>4. ASSUME NEW u \in Tasks, k[u].stage = "wait", IsJob(k[u])
      PROVE  [k[u] EXCEPT !.stage = how].stage = how /\ IsJob([k[u] EXCEPT !.stage = how])
  BY <1>4 DEF IsJob, Has, Stages, Acting
<1>5. ASSUME NEW u \in Tasks, u # t
      PROVE  \/ job'[u] = job[u]
             \/ job[u].stage = "wait" /\ job'[u].stage \in {"ok", "raised"} /\ IsJob(job'[u])
  BY <1>1, <1>2, <1>3, <1>4, <1>5
<1> QED
  BY <1>1, <1>3, <1>5 DEF Jobs, Has

LEMMA StageSet ==
  ASSUME WInv, NEW t \in Tasks, NEW how \in {"ok", "raised"}
  PROVE  /\ IsJob([job[t] EXCEPT !.stage = how]) /\ [job[t] EXCEPT !.stage = how].stage = how
         /\ [job EXCEPT ![t].stage = how] = [job EXCEPT ![t] = [job[t] EXCEPT !.stage = how]]
<1>1. IsJob(job[t])
  BY DEF WInv
<1> QED
  BY <1>1 DEF WInv, IsJob, Has, Stages, Acting

\* A task that is at neither request of a cleanup is named by no session.
LEMMA NotNamed ==
  ASSUME WInv, NEW t \in Tasks, job[t].stage \notin Acting, NEW s \in Objects
  PROVE  obj[s].cleaner # t
  BY Kinds DEF WInv, ObjectOK

LEMMA SessionsStay ==
  ASSUME WInv, NEW t \in Tasks, job[t].stage \notin Acting, Has(obj', Objects),
         \A s \in Objects : IsSession(obj'[s]) /\ obj'[s].cleaner = obj[s].cleaner
  PROVE  Sessions(t)
  BY NotNamed DEF Sessions

LEMMA Tends == ASSUME NEW t, Jobs(t), Sessions(t) PROVE Tended(t)
  BY DEF Jobs, Sessions, Tended

\* A call of _cleanup_session returns.
LEMMA ReturnTends ==
  ASSUME WInv, NEW t \in Tasks, NEW how \in {"ok", "raised"}, Return(t, how)
  PROVE  /\ Jobs(t) /\ running' \in Tasks \cup {None}
         /\ job'[t].stage \in {how, "none", "ended"}
         /\ t \notin Cleaners => job'[t].stage = how
         /\ t = Unload => job'[t].stage # "none"
<1>1. CASE t \in Cleaners
  <2> DEFINE j == [NoJob EXCEPT !.stage = IF t = Unload THEN "ended" ELSE "none"]
  <2>1. IsJob(j) /\ j.stage = IF t = Unload THEN "ended" ELSE "none"
    BY DEF IsJob, Has, NoJob, Stages, Acting
  <2>2. job' = Wake([job EXCEPT ![t] = j], t, how) /\ running' = None
    BY <1>1 DEF Return
  <2> HIDE DEF j
  <2>3. Jobs(t) /\ job'[t] = j
    BY <2>1, <2>2, JobWoken
  <2> QED
    BY <1>1, <2>1, <2>2, <2>3
<1>2. CASE t \notin Cleaners
  <2>1. job' = [job EXCEPT ![t] = [job[t] EXCEPT !.stage = how]] /\ running' = t
    BY <1>2, StageSet DEF Return
  <2>2. IsJob([job[t] EXCEPT !.stage = how]) /\ [job[t] EXCEPT !.stage = how].stage = how
    BY StageSet
  <2>3. Jobs(t) /\ job'[t] = [job[t] EXCEPT !.stage = how]
    BY <2>1, <2>2, JobPut
  <2> QED
    BY <1>2, <2>1, <2>2, <2>3, Kinds
<1> QED
  BY <1>1, <1>2

\* A task calls _cleanup_session: it returns at once, waits for the cleanup under way or begins one.
LEMMA EnterTends ==
  ASSUME WInv, NEW t \in Tasks, NEW s \in Objects, NEW release \in BOOLEAN, NEW objects,
         Has(objects, Objects),
         \A r \in Objects : IsSession(objects[r]) /\ objects[r].cleaner = obj[r].cleaner,
         job[t].stage \notin Acting, Enter(t, s, release, objects)
  PROVE  /\ Tended(t) /\ Waits(t) /\ running' \in Tasks \cup {None}
         /\ \A r \in Objects : obj'[r].reader = objects[r].reader
         /\ job'[t].stage \in {"ok", "wait", "close", "none", "ended"}
         /\ t \notin Cleaners => job'[t].stage # "none"
         /\ t = Unload => job'[t].stage # "none"
<1> DEFINE x == objects[s]
<1>1. CASE (session # s \/ Idle(x)) /\ obj' = objects /\ Return(t, "ok")
  <2>1. Jobs(t) /\ running' \in Tasks \cup {None} /\ job'[t].stage \in {"ok", "none", "ended"}
        /\ (t \notin Cleaners => job'[t].stage = "ok") /\ (t = Unload => job'[t].stage # "none")
    <3>1. Return(t, "ok")
      BY <1>1
    <3>2. "ok" \in {"ok", "raised"}
      OBVIOUS
    <3> QED
      BY ONLY <3>1, <3>2, WInv, t \in Tasks, ReturnTends
  <2>2. Sessions(t)
    BY <1>1, SessionsStay
  <2>3. job'[t].stage \in {"ok", "none", "ended"}
    BY <2>1
  <2> QED
    BY <1>1, <2>1, <2>2, <2>3, Tends DEF Waits
<1>2. CASE /\ session = s /\ x.cleaner # None /\ obj' = objects /\ running' = None
           /\ job' = [job EXCEPT ![t] = [NoJob EXCEPT !.stage = "wait", !.of = s, !.on = x.cleaner]]
  <2> DEFINE j == [NoJob EXCEPT !.stage = "wait", !.of = s, !.on = x.cleaner]
  <2>1. IsJob(j) /\ j.stage = "wait" /\ j.on = x.cleaner
    BY DEF IsJob, Has, NoJob, Stages, Acting
  <2>2. job' = [job EXCEPT ![t] = j]
    BY <1>2
  <2> HIDE DEF j
  <2>3. Jobs(t) /\ job'[t] = j
    BY <2>1, <2>2, JobPut
  <2>4. Sessions(t)
    BY <1>2, SessionsStay
  <2>5. x.cleaner \in Tasks /\ job[x.cleaner].stage \in Acting
    BY <1>2 DEF WInv, ObjectOK, IsSession
  <2>6. x.cleaner # t /\ job'[x.cleaner] = job[x.cleaner]
    BY <2>2, <2>5 DEF WInv, Has
  <2>7. Hangs(t)
    BY <2>1, <2>3, <2>5, <2>6 DEF Hangs
  <2>8. job'[t].stage = "wait"
    BY <2>1, <2>3
  <2> QED
    BY <1>2, <2>3, <2>4, <2>7, <2>8, Tends DEF Waits
<1>3. CASE /\ session = s /\ x.cleaner = None /\ running' = None
           /\ obj' = [objects EXCEPT ![s].cleaner = t, ![s].released = TRUE,
                               ![s].leaseReleased = @ \/ release,
                               ![s].stop = @ \/ (x.reader = "reading" /\ t # s)]
           /\ job' = [job EXCEPT ![t] = [NoJob EXCEPT !.stage = "close", !.of = s,
                                                !.release = release /\ ~x.leaseReleased]]
  <2> DEFINE j == [NoJob EXCEPT !.stage = "close", !.of = s, !.release = release /\ ~x.leaseReleased]
  <2>1. IsJob(j) /\ j.stage = "close" /\ j.of = s
    BY DEF IsJob, Has, NoJob, Stages, Acting
  <2>2. job' = [job EXCEPT ![t] = j]
    BY <1>3
  <2> HIDE DEF j
  <2>3. Jobs(t) /\ job'[t] = j
    BY <2>1, <2>2, JobPut
  <2>4. /\ Has(obj', Objects) /\ \A r \in Objects : r # s => obj'[r] = objects[r]
        /\ IsSession(obj'[s]) /\ obj'[s].cleaner = t /\ obj'[s].reader = objects[s].reader
    <3> DEFINE y == [objects[s] EXCEPT !.cleaner = t, !.released = TRUE,
                                       !.leaseReleased = @ \/ release,
                                       !.stop = @ \/ (x.reader = "reading" /\ t # s)]
    <3>1. Has(objects[s], {"reader", "stop", "open", "answer", "negotiating", "offerSent", "released",
                           "leaseReleased", "failed", "cleaner"})
      BY DEF IsSession
    <3>2. IsSession(y) /\ y.cleaner = t /\ y.reader = objects[s].reader
      BY <3>1 DEF Has, IsSession
    <3>3. obj' = [objects EXCEPT ![s] = y]
      BY <1>3
    <3> HIDE DEF y
    <3> QED
      BY <3>2, <3>3 DEF Has
  <2>5. Sessions(t)
    BY <2>1, <2>3, <2>4, NotNamed DEF Sessions, Acting
  <2>6. \A r \in Objects : obj'[r].reader = objects[r].reader
    BY <2>4
  <2>7. job'[t].stage = "close"
    BY <2>1, <2>3
  <2> QED
    BY <1>3, <2>3, <2>5, <2>6, <2>7, Tends DEF Waits
<1> QED
  BY <1>1, <1>2, <1>3 DEF Enter

\* What a cleanup writes in the session when its socket has been closed, or was not.
LEMMA AnswerlessKeeps ==
  ASSUME WInv, NEW s \in Objects, NEW open \in BOOLEAN
  PROVE  /\ Has(Answerless(s, open), Objects)
         /\ \A r \in Objects : /\ IsSession(Answerless(s, open)[r])
                               /\ Answerless(s, open)[r].cleaner = obj[r].cleaner
                               /\ Answerless(s, open)[r].reader = obj[r].reader
<1> DEFINE y == [obj[s] EXCEPT !.open = open,
                               !.answer = IF @ # "pending" THEN @
                                          ELSE IF obj[s].negotiating THEN "cancelled" ELSE "fatal"]
<1>1. Has(obj, Objects) /\ \A r \in Objects : IsSession(obj[r])
  BY DEF WInv, ObjectOK
<1>2. IsSession(y) /\ y.cleaner = obj[s].cleaner /\ y.reader = obj[s].reader
  BY <1>1 DEF IsSession, Has
<1>3. Answerless(s, open) = [obj EXCEPT ![s] = y]
  BY <1>1 DEF Answerless
<1> HIDE DEF y
<1> QED
  BY <1>1, <1>2, <1>3 DEF Has

\* A cleanup ends: its session names no cleaner any more.
LEMMA Cleaned ==
  ASSUME WInv, NEW t \in Tasks, job[t].stage \in Acting, NEW objects, Has(objects, Objects),
         \A r \in Objects : /\ IsSession(objects[r]) /\ objects[r].cleaner = obj[r].cleaner
                            /\ objects[r].reader = obj[r].reader,
         NEW y, IsSession(y), y.cleaner = None, y.reader = objects[job[t].of].reader,
         obj' = [objects EXCEPT ![job[t].of] = y],
         NEW how \in {"ok", "raised"}, Return(t, how)
  PROVE  /\ Jobs(t) /\ Sessions(t) /\ SameReaders /\ running' \in Tasks \cup {None}
         /\ job'[t].stage \in {how, "none", "ended"}
         /\ t \notin Cleaners => job'[t].stage = how
         /\ t = Unload => job'[t].stage # "none"
<1>1. /\ Jobs(t) /\ running' \in Tasks \cup {None} /\ job'[t].stage \in {how, "none", "ended"}
      /\ t \notin Cleaners => job'[t].stage = how
      /\ t = Unload => job'[t].stage # "none"
  BY ReturnTends
<1>2. job[t].of \in Objects
  BY DEF WInv, IsJob
<1>3. obj'[job[t].of] = y /\ Has(obj', Objects) /\ \A r \in Objects : r # job[t].of => obj'[r] = objects[r]
  BY <1>2 DEF Has
<1>4. \A r \in Objects : r # job[t].of => obj[r].cleaner # t
  BY Kinds DEF WInv, ObjectOK
<1>5. Sessions(t)
  BY <1>2, <1>3, <1>4, Kinds DEF Sessions
<1>6. SameReaders
  BY <1>2, <1>3 DEF SameReaders
<1> QED
  BY <1>1, <1>5, <1>6

LEMMA SucceedDoes ==
  ASSUME WInv, NEW t \in Tasks, job[t].stage \in Acting, NEW objects, Has(objects, Objects),
         \A r \in Objects : /\ IsSession(objects[r]) /\ objects[r].cleaner = obj[r].cleaner
                            /\ objects[r].reader = obj[r].reader,
         Succeed(t, objects)
  PROVE  /\ Jobs(t) /\ Sessions(t) /\ SameReaders /\ running' \in Tasks \cup {None}
         /\ job'[t].stage \in {"ok", "none", "ended"} /\ (t = Unload => job'[t].stage # "none")
         /\ session' = None
<1> DEFINE y == [objects[job[t].of] EXCEPT !.cleaner = None, !.failed = FALSE]
<1>1. job[t].of \in Objects
  BY DEF WInv, IsJob
<1>2. IsSession(objects[job[t].of])
  BY <1>1
<1>3. IsSession(y) /\ y.cleaner = None /\ y.reader = objects[job[t].of].reader
  BY <1>2 DEF IsSession, Has
<1>4. obj' = [objects EXCEPT ![job[t].of] = y]
  BY <1>1 DEF Succeed, Has
<1>5. Return(t, "ok") /\ session' = None
  BY DEF Succeed
<1> HIDE DEF y
<1> QED
  BY <1>3, <1>4, <1>5, Cleaned

LEMMA BreakDoes ==
  ASSUME WInv, NEW t \in Tasks, job[t].stage \in Acting, NEW objects, Has(objects, Objects),
         \A r \in Objects : /\ IsSession(objects[r]) /\ objects[r].cleaner = obj[r].cleaner
                            /\ objects[r].reader = obj[r].reader,
         Break(t, objects)
  PROVE  /\ Jobs(t) /\ Sessions(t) /\ SameReaders /\ running' \in Tasks \cup {None}
         /\ job'[t].stage \in {"raised", "none", "ended"} /\ (t = Unload => job'[t].stage # "none")
         /\ t \notin Cleaners => job'[t].stage = "raised"
<1> DEFINE y == [objects[job[t].of] EXCEPT !.cleaner = None,
                                           !.leaseReleased = @ /\ ~job[t].release,
                                           !.failed = @ \/ job[t].release,
                                           !.released = @ /\ ~job[t].release]
<1>1. job[t].of \in Objects
  BY DEF WInv, IsJob
<1>2. IsSession(objects[job[t].of])
  BY <1>1
<1>3. IsSession(y) /\ y.cleaner = None /\ y.reader = objects[job[t].of].reader
  BY <1>2 DEF IsSession, Has
<1>4. obj' = [objects EXCEPT ![job[t].of] = y]
  BY <1>1 DEF Break, Has
<1>5. Return(t, "raised")
  BY DEF Break
<1> HIDE DEF y
<1> QED
  BY <1>3, <1>4, <1>5, Cleaned

LEMMA Leased ==
  ASSUME WInv, NEW o
  PROVE  /\ CallRelease(o) => lease' \in [Offers -> Leases]
         /\ Given(o) => lease' \in [Offers -> Leases]
         /\ \A back \in Leases : Refused(o, back) => lease' \in [Offers -> Leases]
  BY DEF WInv, Typed, OthersTyped, CallRelease, Given, Refused, Leases

-----------------------------------------------------------------------------
(* A step that no handler takes, one that a handler takes, one of neither  *)

LEMMA TaskStep ==
  ASSUME WInv, NEW t \in Tasks, Jobs(t), Sessions(t), Waits(t),
         session' \in Objects \cup {None}, pending' \in Seq(1..candidates'), candidates' \in Nat,
         negotiation' = negotiation, pc' = pc, local' = local, attempt' = attempt,
         cancelled' \in [Offers -> BOOLEAN], lease' \in [Offers -> Leases],
         running' \in Tasks \cup {None}, IsLeft(left'), left'.attempts = left.attempts,
         t \in Offers => job[t].stage # "none",
         t \in Objects => (job'[t].stage # "none" => obj'[t].reader = "cleaning"),
         t = Unload => job'[t].stage # "none",
         \A s \in Objects : s # t => obj'[s].reader = obj[s].reader,
         \A s \in Objects : obj'[s].reader # "none" => obj[s].reader # "none"
  PROVE  WInv'
<1>1. Typed'
  BY DEF WInv, Typed, ProviderTyped, OffersTyped, OthersTyped
<1>2. t \in Offers => pc[t] \in {"old", "undo", "abort"} /\ OfferOK(t)
  BY DEF WInv, OfferOK
<1>3. t \in Offers => OfferOK(t)'
  BY <1>2 DEF OfferOK
<1>4. Follows(t)
  BY <1>2 DEF Follows
<1>5. t \in Offers => attempt[t] <= attempt'[t]
  BY BoundsAssumption DEF WInv, Typed, OffersTyped
<1>6. Tended(t)
  BY Tends
<1>7. t \in Offers => OfferOK(t)' /\ pc'[t] # "idle" /\ attempt[t] <= attempt'[t]
  BY <1>2, <1>3, <1>5
<1>8. \A o \in Offers : o # t => pc'[o] = pc[o] /\ local'[o] = local[o] /\ attempt'[o] = attempt[o]
  OBVIOUS
<1>9. negotiation' \in {None, negotiation} \/ (negotiation' = t /\ t \in Offers)
  OBVIOUS
<1>10. \A s \in Objects : s # t => obj'[s].reader = obj[s].reader \/ obj[s].reader = "none"
  OBVIOUS
<1>11. \A s \in Objects : obj'[s].reader # "none" => obj[s].reader # "none" \/ s[2] <= attempt'[s[1]]
  OBVIOUS
<1> QED
  BY <1>1, <1>4, <1>6, <1>7, <1>8, <1>9, <1>10, <1>11, StepHolds

LEMMA HandlerStep ==
  ASSUME WInv, NEW o \in Offers, Jobs(o), Sessions(o), SameReaders, Waits(o), Follows(o),
         session' \in Objects \cup {None}, negotiation' \in {None, negotiation, o},
         pending' \in {pending, <<>>}, candidates' = candidates,
         NEW place \in Places, pc' = [pc EXCEPT ![o] = place], place # "idle",
         Has(local', Offers), \A p \in Offers : p # o => local'[p] = local[p],
         attempt' = attempt, cancelled' \in [Offers -> BOOLEAN], lease' \in [Offers -> Leases],
         running' \in Tasks \cup {None}, IsLeft(left'), left'.attempts = left.attempts,
         OfferOK(o)'
  PROVE  WInv'
<1> USE Kinds
<1>1. Typed'
  <2>1. ProviderTyped'
    <3>1. pending \in Seq(1..candidates) /\ candidates \in Nat /\ negotiation \in Offers \cup {None}
      BY DEF WInv, Typed, ProviderTyped
    <3>2. <<>> \in Seq(1..candidates)
      OBVIOUS
    <3>3. pending' \in Seq(1..candidates) /\ candidates' = candidates
      BY <3>1, <3>2
    <3> QED
      BY <3>1, <3>3 DEF ProviderTyped
  <2>2. OffersTyped'
    BY DEF WInv, Typed, OffersTyped
  <2>3. OthersTyped'
    BY DEF OthersTyped
  <2> QED
    BY <2>1, <2>2, <2>3 DEF Typed
<1>2. Tended(o)
  BY Tends
<1>3. pc \in [Offers -> Places] /\ attempt \in [Offers -> 0..MaxAttempts]
  BY DEF WInv, Typed, OffersTyped
<1>4. pc'[o] # "idle" /\ attempt[o] <= attempt'[o] /\ \A p \in Offers : p # o => pc'[p] = pc[p]
  BY <1>3, BoundsAssumption
<1>5. \A p \in Offers : p # o => pc'[p] = pc[p] /\ local'[p] = local[p] /\ attempt'[p] = attempt[p]
  BY <1>4
<1>6. \A s \in Objects : s # o => obj'[s].reader = obj[s].reader \/ obj[s].reader = "none"
  BY DEF SameReaders
<1>7. \A s \in Objects : obj'[s].reader # "none" => obj[s].reader # "none" \/ s[2] <= attempt'[s[1]]
  BY DEF SameReaders
<1>8. negotiation' \in {None, negotiation} \/ (negotiation' = o /\ o \in Offers)
  OBVIOUS
<1>9. o \in Tasks /\ o \notin Objects /\ o # Unload
  OBVIOUS
<1>10. o \in Offers => OfferOK(o)' /\ pc'[o] # "idle" /\ attempt[o] <= attempt'[o]
  BY <1>4
<1>11. /\ o \in Objects => (job'[o].stage # "none" => obj'[o].reader = "cleaning")
       /\ o = Unload => job'[o].stage # "none"
  BY <1>9
<1> QED
  BY <1>1, <1>2, <1>5, <1>6, <1>7, <1>8, <1>9, <1>10, <1>11, StepHolds

\* Nothing that the invariant speaks of changes but types.
LEMMA OtherStep ==
  ASSUME WInv, Typed', UNCHANGED <<negotiation, pc, local, attempt, obj, job>>,
         left'.attempts = left.attempts
  PROVE  WInv'
<1>1. \A t \in Tasks : WaitsOn(t)' = WaitsOn(t)
  BY DEF WaitsOn
<1>2. NoCircle'
  <2>1. {t \in Tasks : WaitsOn(t)' # None} = {t \in Tasks : WaitsOn(t) # None}
    BY <1>1
  <2> QED
    BY <1>1, <2>1 DEF WInv, NoCircle
<1>3. \A t \in Tasks : IsJob(job[t])' /\ Begun(t)'
  BY <1>1 DEF WInv, Begun
<1>4. \A s \in Objects : ObjectOK(s)'
  BY DEF WInv, ObjectOK
<1>5. \A o \in Offers : OfferOK(o)'
  BY DEF WInv, OfferOK
<1> QED
  BY <1>2, <1>3, <1>4, <1>5 DEF WInv

-----------------------------------------------------------------------------
(* The handler of an offer                                                 *)

\* Sessions change, but neither their readers nor who cleans them up.
SessionsKept ==
  /\ Has(obj', Objects)
  /\ \A s \in Objects : /\ IsSession(obj'[s]) /\ obj'[s].cleaner = obj[s].cleaner
                        /\ obj'[s].reader = obj[s].reader

LEMMA Unchanged ==
  ASSUME WInv, obj' = obj
  PROVE  SessionsKept
  BY DEF WInv, ObjectOK, SessionsKept

LEMMA Kept ==
  ASSUME WInv, SessionsKept, NEW t \in Tasks, job[t].stage \notin Acting
  PROVE  Sessions(t) /\ SameReaders
  BY SessionsStay DEF SessionsKept, SameReaders

LEMMA OneSession ==
  ASSUME WInv, NEW s \in Objects, NEW y, IsSession(y), y.cleaner = obj[s].cleaner,
         y.reader = obj[s].reader, obj' = [obj EXCEPT ![s] = y]
  PROVE  SessionsKept
  BY DEF WInv, ObjectOK, SessionsKept, Has

LEMMA Handler ==
  ASSUME WInv, NEW o \in Offers
  PROVE  /\ o \in Tasks /\ o \notin Cleaners /\ o \notin Objects /\ o # Unload
         /\ IsJob(job[o]) /\ OfferOK(o) /\ IsLocal(local[o]) /\ attempt[o] \in 0..MaxAttempts
         /\ session \in Objects \cup {None} /\ negotiation \in Offers \cup {None}
         /\ pc \in [Offers -> Places] /\ Has(local, Offers) /\ cancelled \in [Offers -> BOOLEAN]
         /\ lease \in [Offers -> Leases] /\ running \in Tasks \cup {None} /\ IsLeft(left)
         /\ left.attempts \in 0..MaxAttempts
  BY Kinds DEF WInv, OfferOK, Typed, ProviderTyped, OffersTyped, OthersTyped, IsLeft

LEMMA FinishHolds ==
  ASSUME WInv, NEW o \in Offers, NEW how \in {"ok", "raised"}, Finish(o, how), SessionsKept,
         job[o].stage \notin Acting, session' \in Objects \cup {None}, candidates' = candidates,
         attempt' = attempt, lease' \in [Offers -> Leases], IsLeft(left'),
         left'.attempts = left.attempts
  PROVE  WInv'
<1>1. Jobs(o) /\ job'[o] = NoJob
  BY JobWoken, Blank, Handler DEF Finish
<1>2. Sessions(o) /\ SameReaders
  BY Kept, Handler
<1>3. /\ Has(local', Offers) /\ local'[o] = NoLocals
      /\ \A p \in Offers : p # o => local'[p] = local[p]
  BY Handler DEF Finish, Has
<1>4. pc' = [pc EXCEPT ![o] = "done"] /\ pc'[o] = "done"
  BY Handler DEF Finish, Goto
<1>5. cancelled' \in [Offers -> BOOLEAN] /\ running' = None
  BY Handler DEF Finish
<1>6. negotiation' \in {None, negotiation, o} /\ pending' \in {pending, <<>>}
  BY DEF Finish
<1>7. OfferOK(o)'
  BY <1>1, <1>3, <1>4, Blank DEF OfferOK
<1>8. Waits(o) /\ Follows(o)
  BY <1>1, <1>4, Blank DEF Waits, Follows
<1>9. "done" \in Places /\ "done" # "idle"
  BY DEF Places
<1>10. running' \in Tasks \cup {None}
  BY <1>5
<1> QED
  BY <1>1, <1>2, <1>3, <1>4, <1>5, <1>6, <1>7, <1>8, <1>9, <1>10, HandlerStep

LEMMA LeaveHolds ==
  ASSUME WInv, NEW o \in Offers, NEW already, Leave(o, already), obj' = obj,
         job[o].stage \notin Acting, session' = session, candidates' = candidates,
         attempt' = attempt, left' = left
  PROVE  WInv'
<1>1. SessionsKept /\ IsLeft(left') /\ left'.attempts = left.attempts
      /\ session' \in Objects \cup {None}
  BY Unchanged, Handler
<1>2. CASE lease[o] # "none" /\ ~already /\ ~Claimed(o) /\ ~Owned(o) /\ Given(o) /\ Finish(o, "raised")
  <2>1. lease' \in [Offers -> Leases]
    BY <1>2, Leased
  <2> QED
    BY <1>1, <1>2, <2>1, FinishHolds
<1>3. CASE Finish(o, "raised") /\ UNCHANGED coordinator
  <2>1. lease' \in [Offers -> Leases]
    BY <1>3, Handler DEF coordinator
  <2> QED
    BY <1>1, <1>3, <2>1, FinishHolds
<1>4. CASE /\ CallRelease(o) /\ Goto(o, "release")
           /\ job' = [job EXCEPT ![o] = NoJob] /\ running' = None
           /\ cancelled' = [cancelled EXCEPT ![o] = FALSE]
           /\ UNCHANGED <<negotiation, pending, local>>
  <2>1. Jobs(o) /\ job'[o] = NoJob
    BY <1>4, JobPut, Blank, Handler
  <2>2. Sessions(o) /\ SameReaders
    BY <1>1, Kept, Handler
  <2>3. pc' = [pc EXCEPT ![o] = "release"] /\ pc'[o] = "release"
    BY <1>4, Handler DEF Goto
  <2>4. OfferOK(o)'
    BY <1>4, <2>1, <2>3, Handler, Blank DEF OfferOK
  <2>5. Waits(o) /\ Follows(o)
    BY <2>1, <2>3, Blank DEF Waits, Follows
  <2>6. lease' \in [Offers -> Leases] /\ cancelled' \in [Offers -> BOOLEAN] /\ Has(local', Offers)
    BY <1>4, Leased, Handler
  <2>7. "release" \in Places /\ "release" # "idle"
    BY DEF Places
  <2>8. negotiation' \in {None, negotiation, o} /\ pending' \in {pending, <<>>}
        /\ (\A p \in Offers : p # o => local'[p] = local[p]) /\ running' \in Tasks \cup {None}
    BY <1>4
  <2> QED
    BY <1>1, <2>1, <2>2, <2>3, <2>4, <2>5, <2>6, <2>7, <2>8, HandlerStep
<1> QED
  BY <1>2, <1>3, <1>4 DEF Leave

\* The handler goes on to acquire, or calls the cleanup of the session before it.
LEMMA ReplaceHolds ==
  ASSUME WInv, NEW o \in Offers, ReplaceOld(o), pc[o] \in {"idle", "previous"},
         session' = session, pending' = pending, candidates' = candidates, attempt' = attempt,
         Has(local', Offers), \A p \in Offers : p # o => local'[p] = local[p],
         local'[o] \in {local[o], NoLocals}, cancelled' = cancelled, lease' = lease,
         IsLeft(left'), left'.attempts = left.attempts
  PROVE  WInv'
<1>1. OfferOK(o) /\ attempt[o] = 0 /\ job[o].stage = "none"
  BY Handler DEF OfferOK
<1>2. IsLocal(local'[o]) /\ local'[o].state \in {None} \cup ({o} \X (1..attempt[o]))
  BY <1>1, Blank DEF OfferOK
<1>3. ASSUME NEW place \in {"old", "acquire"}, pc' = [pc EXCEPT ![o] = place],
             Jobs(o), Sessions(o), SameReaders, Waits(o), running' \in Tasks \cup {None},
             place = "acquire" => job'[o].stage = "none", negotiation' \in {None, negotiation, o}
      PROVE  WInv'
  <2>1. pc'[o] = place
    BY <1>3, Handler
  <2>2. OfferOK(o)' /\ Follows(o)
    BY <1>1, <1>2, <1>3, <2>1 DEF OfferOK, Follows
  <2>3. place \in Places /\ place # "idle"
    BY <1>3 DEF Places
  <2>4. cancelled' \in [Offers -> BOOLEAN] /\ lease' \in [Offers -> Leases] /\ session' \in Objects \cup {None}
    BY Handler
  <2>5. pending' \in {pending, <<>>}
    OBVIOUS
  <2> QED
    BY <1>3, <2>2, <2>3, <2>4, <2>5, HandlerStep
<1>4. CASE session # None /\ Goto(o, "old") /\ Enter(o, session, TRUE, obj) /\ UNCHANGED negotiation
  <2>1. session \in Objects /\ TRUE \in BOOLEAN /\ o \in Tasks /\ job[o].stage \notin Acting
    BY <1>1, <1>4, Handler DEF Acting
  <2>2. Has(obj, Objects) /\ \A r \in Objects : IsSession(obj[r]) /\ obj[r].cleaner = obj[r].cleaner
    BY DEF WInv, ObjectOK
  <2>3. /\ Tended(o) /\ Waits(o) /\ running' \in Tasks \cup {None}
        /\ \A r \in Objects : obj'[r].reader = obj[r].reader
    BY <1>4, <2>1, <2>2, EnterTends, ZenonT(60)
  <2>4. Jobs(o) /\ Sessions(o) /\ SameReaders
    BY <2>3 DEF Tended, Jobs, Sessions, SameReaders
  <2>5. pc' = [pc EXCEPT ![o] = "old"] /\ negotiation' \in {None, negotiation, o}
    BY <1>4 DEF Goto
  <2> QED
    BY <1>3, <2>3, <2>4, <2>5
<1>5. CASE Register(o) /\ UNCHANGED <<obj, job>>
  <2>1. Jobs(o) /\ job'[o].stage = "none"
    BY <1>1, <1>5, Stays, Handler
  <2>2. Sessions(o) /\ SameReaders
    BY <1>1, <1>5, Unchanged, Kept, Handler DEF Acting
  <2>3. Waits(o)
    BY <2>1 DEF Waits
  <2>4. pc' = [pc EXCEPT ![o] = "acquire"] /\ negotiation' \in {None, negotiation, o} /\ running' = None
    BY <1>5 DEF Register, Goto
  <2> QED
    BY <1>3, <2>1, <2>2, <2>3, <2>4
<1> QED
  BY <1>4, <1>5 DEF ReplaceOld

LEMMA Attempted ==
  ASSUME WInv, NEW o \in Offers, local[o].state # None
  PROVE  local[o].state \in Objects
<1>1. local[o].state \in {o} \X (1..attempt[o]) /\ attempt[o] \in 0..MaxAttempts
  BY Handler DEF OfferOK
<1>2. 1..attempt[o] \subseteq 1..MaxAttempts
  BY <1>1, BoundsAssumption
<1> QED
  BY <1>1, <1>2 DEF Objects

\* A handler calls _cleanup_session and waits for it at the given place.
LEMMA EntersHolds ==
  ASSUME WInv, NEW o \in Offers, NEW s \in Objects, NEW release \in BOOLEAN,
         Enter(o, s, release, obj), job[o].stage \notin Acting,
         NEW place \in {"undo", "abort"}, pc' = [pc EXCEPT ![o] = place],
         Has(local', Offers), \A p \in Offers : p # o => local'[p] = local[p],
         IsLocal(local'[o]), local'[o].state = local[o].state,
         place = "undo" /\ local'[o].failure = "retry" => attempt[o] < left.attempts,
         session' = session, negotiation' = negotiation, pending' = pending,
         candidates' = candidates, attempt' = attempt, cancelled' \in [Offers -> BOOLEAN],
         lease' = lease, IsLeft(left'), left'.attempts = left.attempts
  PROVE  WInv'
<1>1. Has(obj, Objects) /\ \A r \in Objects : IsSession(obj[r]) /\ obj[r].cleaner = obj[r].cleaner
  BY DEF WInv, ObjectOK
<1>2. /\ Tended(o) /\ Waits(o) /\ running' \in Tasks \cup {None}
      /\ \A r \in Objects : obj'[r].reader = obj[r].reader
  BY <1>1, EnterTends, Handler
<1>3. Jobs(o) /\ Sessions(o) /\ SameReaders
  BY <1>2 DEF Tended, Jobs, Sessions, SameReaders
<1>4. pc'[o] = place
  BY Handler
<1>5. OfferOK(o)' /\ Follows(o)
  BY <1>4, Handler DEF OfferOK, Follows
<1>6. place \in Places /\ place # "idle"
  BY DEF Places
<1>7. lease' \in [Offers -> Leases] /\ session' \in Objects \cup {None}
  BY Handler
<1>8. pending' \in {pending, <<>>} /\ negotiation' \in {None, negotiation, o}
  OBVIOUS
<1> QED
  BY <1>2, <1>3, <1>5, <1>6, <1>7, <1>8, HandlerStep

LEMMA FailHolds ==
  ASSUME WInv, NEW o \in Offers, NEW kind, Fail(o, kind), pc[o] \in {"connect", "send", "answer"},
         session' = session, negotiation' = negotiation, pending' = pending,
         candidates' = candidates, attempt' = attempt, cancelled' = cancelled, lease' = lease,
         IsLeft(left'), left'.attempts = left.attempts
  PROVE  WInv'
<1>1. OfferOK(o) /\ job[o].stage = "none"
  BY Handler DEF OfferOK
<1> DEFINE l == [local[o] EXCEPT !.failure = IF attempt[o] < left.attempts THEN kind ELSE "fatal"]
<1>2. /\ IsLocal(l) /\ l.state = local[o].state
      /\ l.failure = IF attempt[o] < left.attempts THEN kind ELSE "fatal"
  BY Handler DEF IsLocal, Has
<1>3. local' = [local EXCEPT ![o] = l]
  BY Handler DEF Fail, Has
<1> HIDE DEF l
<1>4. Has(local', Offers) /\ local'[o] = l /\ \A p \in Offers : p # o => local'[p] = local[p]
  BY <1>3, Handler DEF Has
<1>5. pc' = [pc EXCEPT ![o] = "undo"] /\ cancelled' \in [Offers -> BOOLEAN]
  BY Handler DEF Fail, Goto
<1>6. l.failure = "retry" => attempt[o] < left.attempts
  BY <1>2
<1>7. CASE local[o].state # None /\ Enter(o, local[o].state, FALSE, obj)
  <2>1. local[o].state \in Objects /\ FALSE \in BOOLEAN /\ job[o].stage \notin Acting
        /\ "undo" \in {"undo", "abort"}
    BY <1>1, <1>7, Attempted DEF Acting
  <2> QED
    BY <1>2, <1>4, <1>5, <1>6, <1>7, <2>1, EntersHolds
<1>8. CASE job' = [job EXCEPT ![o].stage = "ok"] /\ running' = o /\ UNCHANGED obj
  <2>1. Jobs(o) /\ job'[o].stage = "ok"
    <3> DEFINE j == [job[o] EXCEPT !.stage = "ok"]
    <3>1. job' = [job EXCEPT ![o] = j] /\ IsJob(j) /\ j.stage = "ok"
      BY <1>8, StageSet, Handler
    <3> HIDE DEF j
    <3> QED
      BY <3>1, JobPut, Handler
  <2>2. Sessions(o) /\ SameReaders
    BY <1>1, <1>8, Unchanged, Kept, Handler DEF Acting
  <2>3. pc'[o] = "undo"
    BY <1>5, Handler
  <2>4. OfferOK(o)' /\ Follows(o)
    BY <1>1, <1>2, <1>4, <1>6, <2>1, <2>3 DEF OfferOK, Follows
  <2>5. Waits(o)
    BY <2>1 DEF Waits
  <2>6. "undo" \in Places /\ "undo" # "idle"
    BY DEF Places
  <2>7. /\ lease' \in [Offers -> Leases] /\ session' \in Objects \cup {None} /\ running' \in Tasks \cup {None}
        /\ pending' \in {pending, <<>>} /\ negotiation' \in {None, negotiation, o}
    BY <1>8, Handler
  <2> QED
    BY <1>4, <1>5, <2>1, <2>2, <2>4, <2>5, <2>6, <2>7, HandlerStep
<1> QED
  BY <1>7, <1>8 DEF Fail

-----------------------------------------------------------------------------
(* Every action keeps the invariant: the handler                           *)

LEMMA BeginHolds == ASSUME WInv, NEW o \in Offers, Begin(o) PROVE WInv'
<1>1. IsLeft(left') /\ left'.attempts = left.attempts
  BY SpendKeeps, Handler DEF Begin
<1>2. pc[o] = "idle"
  BY DEF Begin
<1>3. session' = session /\ pending' = pending /\ candidates' = candidates /\ attempt' = attempt
      /\ lease' = lease
  BY DEF Begin, coordinator
<1>4. CASE negotiation = None /\ ReplaceOld(o) /\ UNCHANGED <<local, cancelled>>
  <2>1. /\ Has(local', Offers) /\ (\A p \in Offers : p # o => local'[p] = local[p])
        /\ local'[o] \in {local[o], NoLocals} /\ cancelled' = cancelled
    BY <1>4, Handler
  <2> QED
    BY <1>1, <1>2, <1>3, <1>4, <2>1, ReplaceHolds
<1>5. CASE /\ negotiation # None
           /\ cancelled' = [cancelled EXCEPT ![negotiation] = TRUE]
           /\ local' = [local EXCEPT ![o].previous = negotiation]
           /\ Goto(o, "previous")
           /\ UNCHANGED <<negotiation, obj, job, running, since>>
  <2>1. OfferOK(o) /\ job[o].stage = "none" /\ attempt[o] = 0
    BY <1>2, Handler DEF OfferOK
  <2>2. Jobs(o) /\ job'[o].stage = "none"
    BY <1>5, <2>1, Stays, Handler
  <2>3. Sessions(o) /\ SameReaders
    BY <1>5, <2>1, Unchanged, Kept, Handler DEF Acting
  <2>4. /\ Has(local', Offers) /\ (\A p \in Offers : p # o => local'[p] = local[p])
        /\ IsLocal(local'[o]) /\ local'[o].state = local[o].state /\ local'[o].previous = negotiation
    BY <1>5, Handler DEF Has, IsLocal
  <2>5. pc' = [pc EXCEPT ![o] = "previous"] /\ pc'[o] = "previous"
    BY <1>5, Handler DEF Goto
  <2>6. OfferOK(o)'
    BY <1>3, <2>1, <2>2, <2>4, <2>5 DEF OfferOK
  <2>7. Waits(o) /\ Follows(o)
    BY <1>2, <1>5, <2>2, <2>4, Handler DEF Waits, Follows
  <2>8. /\ lease' \in [Offers -> Leases] /\ session' \in Objects \cup {None}
        /\ running' \in Tasks \cup {None} /\ cancelled' \in [Offers -> BOOLEAN]
        /\ pending' \in {pending, <<>>} /\ negotiation' \in {None, negotiation, o}
    BY <1>3, <1>5, Handler
  <2>9. "previous" \in Places /\ "previous" # "idle"
    BY DEF Places
  <2> QED
    BY <1>1, <1>3, <2>2, <2>3, <2>4, <2>5, <2>6, <2>7, <2>8, <2>9, HandlerStep
<1> QED
  BY <1>4, <1>5 DEF Begin

LEMMA PreviousEndsHolds == ASSUME WInv, NEW o \in Offers, PreviousEnds(o) PROVE WInv'
<1>1. /\ ReplaceOld(o) /\ pc[o] \in {"idle", "previous"} /\ session' = session /\ pending' = pending
      /\ candidates' = candidates /\ attempt' = attempt /\ cancelled' = cancelled /\ lease' = lease
      /\ left' = left
  BY DEF PreviousEnds, coordinator, spent
<1>2. /\ Has(local', Offers) /\ (\A p \in Offers : p # o => local'[p] = local[p])
      /\ local'[o] \in {local[o], NoLocals}
  BY Handler DEF PreviousEnds, Has
<1>3. IsLeft(left') /\ left'.attempts = left.attempts
  BY <1>1, Handler
<1> QED
  BY <1>1, <1>2, <1>3, ReplaceHolds

LEMMA OldCleanedHolds == ASSUME WInv, NEW o \in Offers, OldCleaned(o) PROVE WInv'
<1>1. session' = session /\ attempt' = attempt /\ obj' = obj /\ lease' = lease
      /\ candidates' = candidates /\ left' = left /\ pc[o] = "old"
  BY DEF OldCleaned, coordinator, spent
<1>2. job[o].stage \notin Acting
  BY DEF OldCleaned, Acting
<1>3. /\ IsLeft(left') /\ left'.attempts = left.attempts /\ lease' \in [Offers -> Leases]
      /\ session' \in Objects \cup {None} /\ SessionsKept
  BY <1>1, Handler, Unchanged
<1>4. CASE Finish(o, "raised")
  BY <1>1, <1>2, <1>3, <1>4, FinishHolds
<1>5. CASE Register(o) /\ job' = [job EXCEPT ![o] = NoJob] /\ UNCHANGED <<pending, local, cancelled>>
  <2>1. Jobs(o) /\ job'[o] = NoJob
    BY <1>5, JobPut, Blank, Handler
  <2>2. Sessions(o) /\ SameReaders
    BY <1>2, <1>3, Kept, Handler
  <2>3. pc' = [pc EXCEPT ![o] = "acquire"] /\ pc'[o] = "acquire"
    BY <1>5, Handler DEF Register, Goto
  <2>4. OfferOK(o)'
    BY <1>1, <1>5, <2>1, <2>3, Handler, Blank DEF OfferOK
  <2>5. Waits(o) /\ Follows(o)
    BY <2>1, <2>3, Blank DEF Waits, Follows
  <2>6. /\ cancelled' \in [Offers -> BOOLEAN] /\ Has(local', Offers)
        /\ (\A p \in Offers : p # o => local'[p] = local[p]) /\ running' \in Tasks \cup {None}
        /\ pending' \in {pending, <<>>} /\ negotiation' \in {None, negotiation, o}
    BY <1>5, Handler DEF Register
  <2>7. "acquire" \in Places /\ "acquire" # "idle"
    BY DEF Places
  <2> QED
    BY <1>1, <1>3, <2>1, <2>2, <2>3, <2>4, <2>5, <2>6, <2>7, HandlerStep
<1> QED
  BY <1>4, <1>5 DEF OldCleaned

\* A step of a handler at which no task but its own changes, and that one is not in a cleanup.
LEMMA MovesHolds ==
  ASSUME WInv, NEW o \in Offers, job' = job, job[o].stage = "none", SessionsKept,
         session' = session, negotiation' = negotiation, pending' = pending,
         candidates' = candidates, attempt' = attempt, cancelled' = cancelled,
         lease' \in [Offers -> Leases], running' = running, left' = left,
         NEW place \in Places \ {"idle", "previous"}, pc' = [pc EXCEPT ![o] = place],
         Has(local', Offers), \A p \in Offers : p # o => local'[p] = local[p], OfferOK(o)'
  PROVE  WInv'
<1>1. Jobs(o) /\ job'[o].stage = "none"
  BY Stays, Handler
<1>2. Sessions(o) /\ SameReaders
  BY Kept, Handler DEF Acting
<1>3. pc'[o] = place
  BY Handler
<1>4. Waits(o) /\ Follows(o)
  BY <1>1, <1>3 DEF Waits, Follows
<1>5. /\ IsLeft(left') /\ left'.attempts = left.attempts /\ session' \in Objects \cup {None}
      /\ running' \in Tasks \cup {None} /\ cancelled' \in [Offers -> BOOLEAN]
      /\ pending' \in {pending, <<>>} /\ negotiation' \in {None, negotiation, o}
      /\ place \in Places /\ place # "idle"
  BY Handler
<1> QED
  BY <1>1, <1>2, <1>4, <1>5, HandlerStep

LEMMA AcquiredHolds == ASSUME WInv, NEW o \in Offers, Acquired(o) PROVE WInv'
<1>1. session' = session /\ attempt' = attempt /\ obj' = obj /\ candidates' = candidates
  BY DEF Acquired
<1>2. OfferOK(o) /\ pc[o] = "acquire" /\ job[o].stage = "none" /\ attempt[o] = 0
  BY Handler DEF Acquired, OfferOK
<1>3. SessionsKept
  BY <1>1, Unchanged
<1>4. CASE Spend("errors") /\ Finish(o, "raised") /\ lease' = lease
  <2>1. IsLeft(left') /\ left'.attempts = left.attempts
    BY <1>4, SpendKeeps, Handler
  <2> QED
    BY <1>1, <1>2, <1>3, <1>4, <2>1, FinishHolds, Handler DEF Acting
<1>5. CASE /\ lease' = [lease EXCEPT ![o] = "owned"] /\ Goto(o, "connect")
           /\ UNCHANGED <<negotiation, pending, local, cancelled, job, running, left>>
  <2>1. lease' \in [Offers -> Leases]
    BY <1>5, Handler DEF Leases
  <2>2. pc' = [pc EXCEPT ![o] = "connect"] /\ pc'[o] = "connect"
    BY <1>5, Handler DEF Goto
  <2>3. OfferOK(o)'
    BY <1>1, <1>2, <1>5, <2>2 DEF OfferOK
  <2>4. "connect" \in Places \ {"idle", "previous"} /\ Has(local', Offers)
    BY <1>5, Handler DEF Places
  <2> QED
    BY <1>1, <1>2, <1>3, <1>5, <2>1, <2>2, <2>3, <2>4, MovesHolds
<1> QED
  BY <1>4, <1>5 DEF Acquired

LEMMA SentHolds == ASSUME WInv, NEW o \in Offers, Sent(o) PROVE WInv'
<1> DEFINE st == local[o].state
<1>1. OfferOK(o) /\ pc[o] = "send" /\ job[o].stage = "none" /\ st # None
  BY Handler DEF Sent, OfferOK
<1>2. st \in Objects
  BY <1>1, Attempted
<1>3. /\ job' = job /\ session' = session /\ negotiation' = negotiation /\ pending' = pending
      /\ candidates' = candidates /\ attempt' = attempt /\ cancelled' = cancelled
      /\ lease' \in [Offers -> Leases] /\ running' = running /\ left' = left
  BY Handler DEF Sent, provider, coordinator, spent
<1>4. CASE local' = [local EXCEPT ![o].index = local[o].index + 1] /\ UNCHANGED <<pc, obj>>
  <2>1. /\ Has(local', Offers) /\ (\A p \in Offers : p # o => local'[p] = local[p])
        /\ IsLocal(local'[o]) /\ local'[o].state = st /\ local'[o].failure = local[o].failure
    BY <1>4, Handler, ZenonT(60) DEF Has, IsLocal
  <2>2. pc' = [pc EXCEPT ![o] = "send"] /\ "send" \in Places \ {"idle", "previous"}
    BY <1>1, <1>4, Handler DEF Places
  <2>3. OfferOK(o)'
    BY <1>1, <1>3, <1>4, <2>1 DEF OfferOK
  <2>4. SessionsKept
    BY <1>4, Unchanged
  <2> QED
    BY <1>1, <1>3, <2>1, <2>2, <2>3, <2>4, MovesHolds
<1>5. CASE obj' = [obj EXCEPT ![st].offerSent = TRUE] /\ Goto(o, "answer") /\ UNCHANGED local
  <2> DEFINE y == [obj[st] EXCEPT !.offerSent = TRUE]
  <2>1. IsSession(obj[st])
    BY <1>2 DEF WInv, ObjectOK
  <2>2. IsSession(y) /\ y.cleaner = obj[st].cleaner /\ y.reader = obj[st].reader
    BY <2>1 DEF IsSession, Has
  <2>3. obj' = [obj EXCEPT ![st] = y]
    BY <1>5
  <2> HIDE DEF y, st
  <2>4. SessionsKept
    BY <1>2, <2>2, <2>3, OneSession
  <2>5. pc' = [pc EXCEPT ![o] = "answer"] /\ pc'[o] = "answer" /\ "answer" \in Places \ {"idle", "previous"}
    BY <1>5, Handler DEF Places, Goto
  <2>6. OfferOK(o)'
    BY <1>1, <1>3, <1>5, <2>5 DEF OfferOK, st
  <2>7. Has(local', Offers) /\ \A p \in Offers : p # o => local'[p] = local[p]
    BY <1>5, Handler
  <2> QED
    BY <1>1, <1>3, <2>4, <2>5, <2>6, <2>7, MovesHolds
<1> QED
  BY <1>4, <1>5 DEF Sent

LEMMA ConnectedHolds == ASSUME WInv, NEW o \in Offers, Connected(o) PROVE WInv'
<1> DEFINE s == <<o, attempt[o] + 1>>
<1>1. /\ OfferOK(o) /\ pc[o] = "connect" /\ job[o].stage = "none"
      /\ (attempt[o] = 0 \/ attempt[o] < left.attempts)
  BY Handler DEF Connected, OfferOK
<1>2. attempt[o] \in Nat /\ attempt[o] + 1 \in 1..MaxAttempts /\ attempt[o] + 1 \in 0..MaxAttempts
  BY <1>1, Handler, BoundsAssumption
<1>3. s \in Objects
  BY <1>2 DEF Objects
<1>4. /\ session' = s /\ obj' = [obj EXCEPT ![s] = Fresh] /\ Goto(o, "send")
      /\ attempt' = [attempt EXCEPT ![o] = attempt[o] + 1]
      /\ local' = [local EXCEPT ![o].state = s, ![o].index = 0]
      /\ negotiation' = negotiation /\ pending' = pending /\ cancelled' = cancelled /\ job' = job
      /\ running' = running /\ lease' = lease /\ left' = left /\ candidates' = candidates
  BY DEF Connected, coordinator, spent
<1>5. obj[s].reader = "none"
  <2>1. ObjectOK(s) /\ s[1] = o /\ s[2] = attempt[o] + 1
    BY <1>3 DEF WInv
  <2> QED
    BY <1>2, <2>1 DEF ObjectOK
<1>6. /\ attempt' \in [Offers -> 0..MaxAttempts] /\ attempt'[o] = attempt[o] + 1
      /\ \A p \in Offers : p # o => attempt'[p] = attempt[p]
  BY <1>2, <1>4 DEF WInv, Typed, OffersTyped
<1>7. /\ Has(local', Offers) /\ (\A p \in Offers : p # o => local'[p] = local[p])
      /\ IsLocal(local'[o]) /\ local'[o].state = s
  BY <1>4, Handler, ZenonT(60) DEF Has, IsLocal
<1>8. /\ pc' \in [Offers -> Places] /\ pc'[o] = "send" /\ \A p \in Offers : p # o => pc'[p] = pc[p]
  BY <1>4, Handler DEF Goto, Places
<1>9. Typed'
  <2>1. ProviderTyped'
    BY <1>3, <1>4 DEF WInv, Typed, ProviderTyped
  <2>2. OffersTyped'
    BY <1>4, <1>6, <1>7, <1>8, Handler DEF OffersTyped
  <2>3. OthersTyped'
    BY <1>4 DEF WInv, Typed, OthersTyped
  <2> QED
    BY <2>1, <2>2, <2>3 DEF Typed
<1>10. Jobs(o) /\ job'[o].stage = "none"
  BY <1>1, <1>4, Stays, Handler
<1>11. obj'[s] = Fresh /\ Has(obj', Objects) /\ \A r \in Objects : r # s => obj'[r] = obj[r]
  BY <1>3, <1>4 DEF WInv, Has
<1>12. Sessions(o)
  <2>1. \A r \in Objects : IsSession(obj[r])
    BY DEF WInv, ObjectOK
  <2>2. \A r \in Objects : obj[r].cleaner # o
    BY <1>1, NotNamed, Handler DEF Acting
  <2>3. None # o
    BY Handler, Kinds
  <2> HIDE DEF s
  <2> QED
    BY <1>3, <1>11, <2>1, <2>2, <2>3, Blank DEF Sessions
<1>13. OfferOK(o)'
  <2>1. attempt'[o] \in 1..attempt'[o] /\ s = <<o, attempt'[o]>>
    BY <1>2, <1>6
  <2>2. s \in {o} \X (1..attempt'[o]) /\ s # None
    BY <1>3, <2>1, Kinds
  <2> QED
    BY <1>7, <1>8, <1>10, <2>2 DEF OfferOK
<1>14. Waits(o) /\ Follows(o)
  BY <1>8, <1>10 DEF Waits, Follows
<1>15. \A r \in Objects : obj'[r].reader = obj[r].reader \/ obj[r].reader = "none"
  <2> HIDE DEF s
  <2> QED
    BY <1>5, <1>11
<1>16. \A r \in Objects : obj'[r].reader # "none" => obj[r].reader # "none" \/ r[2] <= attempt'[r[1]]
  <2>1. s[2] <= attempt'[s[1]]
    BY <1>2, <1>6
  <2> HIDE DEF s
  <2> QED
    BY <1>11, <2>1
<1>17. attempt[o] <= attempt'[o]
  BY <1>2, <1>6
<1> HIDE DEF s
<1>18. Tended(o) /\ left'.attempts = left.attempts /\ o \in Tasks /\ pc'[o] # "idle"
       /\ negotiation' \in {None, negotiation}
  BY <1>4, <1>8, <1>10, <1>12, Tends, Handler
<1>19. \A p \in Offers : p # o => pc'[p] = pc[p] /\ local'[p] = local[p] /\ attempt'[p] = attempt[p]
  BY <1>6, <1>7, <1>8
<1>20. /\ o \in Objects => (job'[o].stage # "none" => obj'[o].reader = "cleaning")
       /\ o = Unload => job'[o].stage # "none"
  BY Handler
<1> QED
  BY <1>9, <1>13, <1>14, <1>15, <1>16, <1>17, <1>18, <1>19, <1>20, StepHolds

LEMMA FailuresHold ==
  ASSUME WInv, NEW o \in Offers,
         SendFails(o) \/ \E kind \in {"retry", "fatal"} : ConnectFails(o, kind)
  PROVE  WInv'
<1>1. PICK kind : Fail(o, kind)
  BY DEF SendFails, ConnectFails
<1>2. /\ session' = session /\ negotiation' = negotiation /\ pending' = pending
      /\ candidates' = candidates /\ attempt' = attempt /\ cancelled' = cancelled /\ lease' = lease
      /\ pc[o] \in {"connect", "send", "answer"}
  BY DEF SendFails, ConnectFails, provider, coordinator
<1>3. IsLeft(left') /\ left'.attempts = left.attempts
  <2>1. left' = left \/ Spend("errors")
    BY DEF SendFails, ConnectFails
  <2> QED
    BY <2>1, SpendKeeps, Handler
<1> QED
  BY <1>1, <1>2, <1>3, FailHolds

LEMMA AnsweredHolds == ASSUME WInv, NEW o \in Offers, Answered(o) PROVE WInv'
<1> DEFINE st == local[o].state
<1>1. OfferOK(o) /\ pc[o] = "answer" /\ job[o].stage = "none" /\ st # None
  BY Handler DEF Answered, OfferOK
<1>2. st \in Objects
  BY <1>1, Attempted
<1>3. /\ session' = session /\ candidates' = candidates /\ attempt' = attempt /\ lease' = lease
      /\ left' = left
  BY DEF Answered, coordinator, spent
<1>4. /\ IsLeft(left') /\ left'.attempts = left.attempts /\ lease' \in [Offers -> Leases]
      /\ session' \in Objects \cup {None}
  BY <1>3, Handler
<1>5. CASE obj' = [obj EXCEPT ![st].negotiating = FALSE] /\ Finish(o, "ok")
  <2> DEFINE y == [obj[st] EXCEPT !.negotiating = FALSE]
  <2>1. IsSession(obj[st])
    BY <1>2 DEF WInv, ObjectOK
  <2>2. IsSession(y) /\ y.cleaner = obj[st].cleaner /\ y.reader = obj[st].reader
    BY <2>1 DEF IsSession, Has
  <2>3. obj' = [obj EXCEPT ![st] = y]
    BY <1>5
  <2> HIDE DEF y, st
  <2>4. SessionsKept
    BY <1>2, <2>2, <2>3, OneSession
  <2>5. job[o].stage \notin Acting
    BY <1>1 DEF Acting
  <2> QED
    BY <1>3, <1>4, <1>5, <2>4, <2>5, FinishHolds
<1>6. ASSUME NEW kind, Fail(o, kind), UNCHANGED <<negotiation, pending, cancelled>>
      PROVE  WInv'
  <2>1. pc[o] \in {"connect", "send", "answer"}
    BY <1>1
  <2>2. negotiation' = negotiation /\ pending' = pending /\ cancelled' = cancelled
    BY <1>6
  <2> QED
    BY <1>3, <1>4, <1>6, <2>1, <2>2, FailHolds
<1> QED
  BY <1>5, <1>6 DEF Answered

LEMMA UndoneHolds == ASSUME WInv, NEW o \in Offers, Undone(o) PROVE WInv'
<1>1. /\ session' = session /\ candidates' = candidates /\ attempt' = attempt /\ obj' = obj
      /\ left' = left /\ pc[o] = "undo" /\ job[o].stage \in {"ok", "raised"}
  BY DEF Undone, spent
<1>2. job[o].stage \notin Acting
  BY <1>1 DEF Acting
<1>3. ASSUME NEW already, Leave(o, already) PROVE WInv'
  BY <1>1, <1>2, <1>3, LeaveHolds
<1>4. ASSUME NEW already, local[o].failure = "retry",
             local' = [local EXCEPT ![o].viewerReleased = already, ![o].failure = "none"],
             Goto(o, "sleep"), job' = [job EXCEPT ![o] = NoJob], running' = None,
             UNCHANGED <<negotiation, pending, cancelled, coordinator>>
      PROVE  WInv'
  <2>1. OfferOK(o) /\ attempt[o] < left.attempts
    BY <1>1, <1>4, Handler DEF OfferOK
  <2>2. Jobs(o) /\ job'[o] = NoJob
    BY <1>4, JobPut, Blank, Handler
  <2>3. Sessions(o) /\ SameReaders
    BY <1>1, <1>2, Unchanged, Kept, Handler
  <2>4. /\ Has(local', Offers) /\ (\A p \in Offers : p # o => local'[p] = local[p])
        /\ IsLocal(local'[o]) /\ local'[o].state = local[o].state
    BY <1>4, Handler, ZenonT(60) DEF Has, IsLocal
  <2>5. pc' = [pc EXCEPT ![o] = "sleep"] /\ pc'[o] = "sleep"
    BY <1>4, Handler DEF Goto
  <2>6. OfferOK(o)'
    BY <1>1, <2>1, <2>2, <2>4, <2>5, Blank DEF OfferOK
  <2>7. Waits(o) /\ Follows(o)
    BY <2>2, <2>5, Blank DEF Waits, Follows
  <2>8. /\ lease' \in [Offers -> Leases] /\ session' \in Objects \cup {None}
        /\ running' \in Tasks \cup {None} /\ cancelled' \in [Offers -> BOOLEAN]
        /\ pending' \in {pending, <<>>} /\ negotiation' \in {None, negotiation, o}
        /\ IsLeft(left') /\ left'.attempts = left.attempts
    BY <1>1, <1>4, Handler DEF coordinator
  <2>9. "sleep" \in Places /\ "sleep" # "idle"
    BY DEF Places
  <2> QED
    BY <1>1, <2>2, <2>3, <2>4, <2>5, <2>6, <2>7, <2>8, <2>9, HandlerStep
<1> QED
  BY <1>3, <1>4 DEF Undone

LEMMA SleepEndsHolds == ASSUME WInv, NEW o \in Offers, SleepEnds(o) PROVE WInv'
<1>1. /\ session' = session /\ candidates' = candidates /\ attempt' = attempt /\ obj' = obj
      /\ left' = left /\ pc[o] = "sleep"
  BY DEF SleepEnds, spent
<1>2. OfferOK(o) /\ job[o].stage = "none" /\ attempt[o] < left.attempts
  BY <1>1, Handler DEF OfferOK
<1>3. ASSUME NEW already, Leave(o, already) PROVE WInv'
  BY <1>1, <1>2, <1>3, LeaveHolds DEF Acting
<1>4. CASE /\ local' = [local EXCEPT ![o].state = None] /\ Goto(o, "connect")
           /\ UNCHANGED <<negotiation, pending, cancelled, job, running, coordinator>>
  <2>1. /\ Has(local', Offers) /\ (\A p \in Offers : p # o => local'[p] = local[p])
        /\ IsLocal(local'[o]) /\ local'[o].state = None
    BY <1>4, Handler DEF Has, IsLocal
  <2>2. pc' = [pc EXCEPT ![o] = "connect"] /\ pc'[o] = "connect"
        /\ "connect" \in Places \ {"idle", "previous"}
    BY <1>4, Handler DEF Goto, Places
  <2>3. OfferOK(o)'
    BY <1>1, <1>2, <1>4, <2>1, <2>2 DEF OfferOK
  <2>4. SessionsKept /\ lease' \in [Offers -> Leases]
    BY <1>1, <1>4, Unchanged, Handler DEF coordinator
  <2> QED
    BY <1>1, <1>2, <1>4, <2>1, <2>2, <2>3, <2>4, MovesHolds
<1> QED
  BY <1>3, <1>4 DEF SleepEnds

LEMMA CancelledHolds == ASSUME WInv, NEW o \in Offers, Cancelled(o) PROVE WInv'
<1>1. /\ session' = session /\ candidates' = candidates /\ attempt' = attempt /\ left' = left
      /\ IsLeft(left') /\ left'.attempts = left.attempts /\ session' \in Objects \cup {None}
  BY Handler DEF Cancelled, spent
<1>2. OfferOK(o) /\ pc[o] \notin {"old", "undo", "abort"}
  BY Handler DEF Cancelled
<1>3. job[o].stage = "none" /\ job[o].stage \notin Acting
  BY <1>2 DEF OfferOK, Acting
<1>4. ASSUME NEW already, Leave(o, already), obj' = obj PROVE WInv'
  BY <1>1, <1>3, <1>4, LeaveHolds
<1>5. CASE Finish(o, "raised") /\ UNCHANGED <<obj, coordinator>>
  <2>1. SessionsKept /\ lease' \in [Offers -> Leases]
    BY <1>5, Unchanged, Handler DEF coordinator
  <2> QED
    BY <1>1, <1>3, <1>5, <2>1, FinishHolds
<1>6. CASE /\ pc[o] \in {"send", "answer"} /\ Goto(o, "abort")
           /\ Enter(o, local[o].state, TRUE, obj)
           /\ cancelled' = [cancelled EXCEPT ![o] = FALSE]
           /\ UNCHANGED <<negotiation, pending, local, coordinator>>
  <2>1. local[o].state \in Objects
    BY <1>2, <1>6, Attempted DEF OfferOK
  <2>2. TRUE \in BOOLEAN /\ "abort" \in {"undo", "abort"} /\ "abort" # "undo"
    OBVIOUS
  <2>3. /\ pc' = [pc EXCEPT ![o] = "abort"] /\ cancelled' \in [Offers -> BOOLEAN]
        /\ Has(local', Offers) /\ (\A p \in Offers : p # o => local'[p] = local[p])
        /\ IsLocal(local'[o]) /\ local'[o].state = local[o].state
        /\ negotiation' = negotiation /\ pending' = pending /\ lease' = lease
    BY <1>6, Handler DEF Goto, coordinator
  <2>4. Enter(o, local[o].state, TRUE, obj)
    BY <1>6
  <2> HIDE <1>6
  <2> QED
    BY <1>1, <1>3, <2>1, <2>2, <2>3, <2>4, EntersHolds
<1> QED
  BY <1>4, <1>5, <1>6 DEF Cancelled

LEMMA AbortedHolds == ASSUME WInv, NEW o \in Offers, Aborted(o) PROVE WInv'
<1>1. /\ session' = session /\ candidates' = candidates /\ attempt' = attempt /\ obj' = obj
      /\ left' = left /\ job[o].stage \notin Acting
  BY DEF Aborted, spent, Acting
<1>2. PICK already : Leave(o, already)
  BY DEF Aborted
<1> QED
  BY <1>1, <1>2, LeaveHolds

LEMMA ReleasedHolds == ASSUME WInv, NEW o \in Offers, Released(o) PROVE WInv'
<1>1. /\ session' = session /\ candidates' = candidates /\ attempt' = attempt /\ obj' = obj
      /\ Finish(o, "raised") /\ pc[o] = "release"
  BY DEF Released
<1>2. job[o].stage \notin Acting
  BY <1>1, Handler DEF OfferOK, Acting
<1>3. SessionsKept /\ session' \in Objects \cup {None}
  BY <1>1, Unchanged, Handler
<1>4. lease' \in [Offers -> Leases] /\ IsLeft(left') /\ left'.attempts = left.attempts
  <2>1. CASE Given(o) /\ left' = left
    BY <2>1, Leased, Handler
  <2>2. CASE Spend("errors") /\ Refused(o, "stranded")
    BY <2>2, Leased, SpendKeeps, Handler DEF Leases
  <2> QED
    BY <2>1, <2>2 DEF Released
<1> QED
  BY <1>1, <1>2, <1>3, <1>4, FinishHolds

LEMMA Everybody ==
  ASSUME WInv
  PROVE  /\ session \in Objects \cup {None} /\ pending \in Seq(1..candidates) /\ candidates \in Nat
         /\ cancelled \in [Offers -> BOOLEAN] /\ lease \in [Offers -> Leases]
         /\ running \in Tasks \cup {None} /\ IsLeft(left) /\ Has(obj, Objects)
         /\ \A s \in Objects : IsSession(obj[s]) /\ ObjectOK(s)
         /\ \A t \in Tasks : IsJob(job[t])
  BY DEF WInv, ObjectOK, Typed, ProviderTyped, OffersTyped, OthersTyped

LEMMA CleanupCancelledHolds == ASSUME WInv, NEW o \in Offers, CleanupCancelled(o) PROVE WInv'
<1>1. /\ session' \in Objects \cup {None} /\ pending' \in Seq(1..candidates') /\ candidates' \in Nat
      /\ negotiation' = negotiation /\ pc' = pc /\ local' = local /\ attempt' = attempt
      /\ cancelled' \in [Offers -> BOOLEAN] /\ lease' \in [Offers -> Leases]
      /\ IsLeft(left') /\ left'.attempts = left.attempts
  BY Everybody DEF CleanupCancelled, provider, coordinator, spent
<1>2. o \in Tasks /\ o \notin Objects /\ o # Unload /\ o \notin Cleaners
  BY Handler
<1>3. ASSUME Jobs(o), Sessions(o), SameReaders, running' \in Tasks \cup {None},
             job'[o].stage = "raised", job[o].stage # "none"
      PROVE  WInv'
  <2>1. Waits(o)
    BY <1>3 DEF Waits
  <2>2. /\ \A s \in Objects : s # o => obj'[s].reader = obj[s].reader
        /\ \A s \in Objects : obj'[s].reader # "none" => obj[s].reader # "none"
    BY <1>3 DEF SameReaders
  <2> QED
    BY <1>1, <1>2, <1>3, <2>1, <2>2, TaskStep
<1>4. ASSUME NEW objects, Has(objects, Objects), job[o].stage \in Acting,
             \A r \in Objects : /\ IsSession(objects[r]) /\ objects[r].cleaner = obj[r].cleaner
                                /\ objects[r].reader = obj[r].reader,
             Break(o, objects)
      PROVE  WInv'
  <2>1. /\ Jobs(o) /\ Sessions(o) /\ SameReaders /\ running' \in Tasks \cup {None}
        /\ job'[o].stage = "raised"
    BY <1>2, <1>4, BreakDoes
  <2>2. job[o].stage # "none"
    BY <1>4 DEF Acting
  <2> QED
    BY <1>3, <2>1, <2>2
<1>5. CASE job[o].stage = "close" /\ Break(o, Answerless(job[o].of, TRUE))
  <2>1. job[o].of \in Objects /\ job[o].stage \in Acting
    BY <1>2, <1>5, Everybody DEF IsJob, Acting
  <2> QED
    BY <1>4, <1>5, <2>1, AnswerlessKeeps
<1>6. CASE job[o].stage = "release" /\ Break(o, obj)
  BY <1>4, <1>6, Everybody DEF Acting
<1>7. CASE /\ job[o].stage \in {"wait", "ok", "raised"}
           /\ job' = [job EXCEPT ![o].stage = "raised"] /\ running' = o
           /\ UNCHANGED obj
  <2> DEFINE j == [job[o] EXCEPT !.stage = "raised"]
  <2>1. job' = [job EXCEPT ![o] = j] /\ IsJob(j) /\ j.stage = "raised"
    BY <1>2, <1>7, StageSet
  <2> HIDE DEF j
  <2>2. Jobs(o) /\ job'[o].stage = "raised"
    BY <1>2, <2>1, JobPut
  <2>3. Sessions(o) /\ SameReaders
    BY <1>2, <1>7, Unchanged, Kept DEF Acting
  <2> QED
    BY <1>2, <1>3, <1>7, <2>2, <2>3
<1> QED
  BY <1>5, <1>6, <1>7 DEF CleanupCancelled

-----------------------------------------------------------------------------
(* Cleanups, readers, sweepers                                             *)

LEMMA CleanupHolds ==
  ASSUME WInv, NEW t \in Tasks, job[t].stage \in Acting, Jobs(t), Sessions(t), SameReaders,
         job'[t].stage \notin {"wait", "gather"}, t = Unload => job'[t].stage # "none",
         session' \in Objects \cup {None}, lease' \in [Offers -> Leases],
         running' \in Tasks \cup {None}, IsLeft(left'), left'.attempts = left.attempts,
         UNCHANGED <<negotiation, pending, pc, local, attempt, cancelled, candidates>>
  PROVE  WInv'
<1>1. Waits(t)
  BY DEF Waits
<1>2. /\ \A s \in Objects : s # t => obj'[s].reader = obj[s].reader
      /\ \A s \in Objects : obj'[s].reader # "none" => obj[s].reader # "none"
  BY DEF SameReaders
<1>3. t \in Offers => job[t].stage # "none"
  BY DEF Acting
<1>4. t \in Objects => (job'[t].stage # "none" => obj'[t].reader = "cleaning")
  <2>1. t \in Objects => obj[t].reader = "cleaning"
    BY Everybody DEF ObjectOK, Acting
  <2> QED
    BY <2>1 DEF SameReaders
<1>5. /\ pending' \in Seq(1..candidates') /\ candidates' \in Nat /\ cancelled' \in [Offers -> BOOLEAN]
      /\ negotiation' = negotiation /\ pc' = pc /\ local' = local /\ attempt' = attempt
  BY Everybody
<1> QED
  BY <1>1, <1>2, <1>3, <1>4, <1>5, TaskStep

LEMMA SocketClosedHolds == ASSUME WInv, NEW t \in Tasks, SocketClosed(t) PROVE WInv'
<1>1. job[t].stage \in Acting /\ job[t].of \in Objects
  BY Everybody DEF SocketClosed, IsJob, Acting
<1>2. UNCHANGED <<negotiation, pending, pc, local, attempt, cancelled, candidates>>
  BY DEF SocketClosed
<1>3. session \in Objects \cup {None} /\ IsLeft(left)
  BY Everybody
<1>4. ASSUME NEW objects, Has(objects, Objects), Succeed(t, objects),
             \A r \in Objects : /\ IsSession(objects[r]) /\ objects[r].cleaner = obj[r].cleaner
                                /\ objects[r].reader = obj[r].reader,
             lease' \in [Offers -> Leases], left' = left
      PROVE  WInv'
  <2>1. /\ Jobs(t) /\ Sessions(t) /\ SameReaders /\ running' \in Tasks \cup {None}
        /\ job'[t].stage \notin {"wait", "gather"} /\ (t = Unload => job'[t].stage # "none")
        /\ session' = None
    BY <1>1, <1>4, SucceedDoes
  <2> QED
    BY <1>1, <1>2, <1>3, <1>4, <2>1, CleanupHolds
<1>5. CASE /\ CallRelease(Owner(job[t].of)) /\ obj' = Answerless(job[t].of, FALSE)
           /\ job' = [job EXCEPT ![t].stage = "release"]
           /\ UNCHANGED <<session, running, left>>
  <2> DEFINE j == [job[t] EXCEPT !.stage = "release"]
  <2>1. /\ job' = [job EXCEPT ![t] = j] /\ IsJob(j) /\ j.stage = "release" /\ j.of = job[t].of
    BY <1>1, <1>5, Everybody DEF IsJob, Has, Stages, Acting, WInv
  <2> HIDE DEF j
  <2>2. Jobs(t) /\ job'[t] = j
    BY <2>1, JobPut
  <2>3. Has(obj', Objects) /\ SameReaders
        /\ \A r \in Objects : IsSession(obj'[r]) /\ obj'[r].cleaner = obj[r].cleaner
    BY <1>1, <1>5, AnswerlessKeeps DEF SameReaders
  <2>4. Sessions(t)
    BY <1>1, <2>1, <2>2, <2>3, Everybody, Kinds DEF Sessions, ObjectOK, Acting
  <2>5. lease' \in [Offers -> Leases] /\ running' \in Tasks \cup {None}
    BY <1>5, Leased, Everybody
  <2>6. job'[t].stage \notin {"wait", "gather"} /\ job'[t].stage # "none"
    BY <2>1, <2>2
  <2> QED
    BY <1>1, <1>2, <1>3, <1>5, <2>2, <2>3, <2>4, <2>5, <2>6, CleanupHolds
<1> DEFINE A == Answerless(job[t].of, FALSE)
<1>9. /\ Has(A, Objects)
      /\ \A r \in Objects : /\ IsSession(A[r]) /\ A[r].cleaner = obj[r].cleaner
                            /\ A[r].reader = obj[r].reader
  BY <1>1, AnswerlessKeeps
<1> HIDE DEF A
<1>6. CASE Given(Owner(job[t].of)) /\ Succeed(t, A) /\ UNCHANGED left
  <2>1. lease' \in [Offers -> Leases]
    BY <1>6, Leased
  <2> QED
    BY <1>4, <1>6, <1>9, <2>1
<1>7. CASE Succeed(t, A) /\ UNCHANGED <<coordinator, left>>
  <2>1. lease' \in [Offers -> Leases]
    BY <1>7, Everybody DEF coordinator
  <2> QED
    BY <1>4, <1>7, <1>9, <2>1
<1>8. CASE /\ Spend("errors") /\ Break(t, Answerless(job[t].of, TRUE))
           /\ UNCHANGED <<session, coordinator>>
  <2>1. /\ Jobs(t) /\ Sessions(t) /\ SameReaders /\ running' \in Tasks \cup {None}
        /\ job'[t].stage \notin {"wait", "gather"} /\ (t = Unload => job'[t].stage # "none")
    BY <1>1, <1>8, AnswerlessKeeps, BreakDoes
  <2>2. IsLeft(left') /\ left'.attempts = left.attempts
    BY <1>3, <1>8, SpendKeeps
  <2>3. lease' \in [Offers -> Leases] /\ session' \in Objects \cup {None}
    BY <1>8, Everybody DEF coordinator
  <2> QED
    BY <1>1, <1>2, <2>1, <2>2, <2>3, CleanupHolds
<1> QED
  BY <1>5, <1>6, <1>7, <1>8 DEF SocketClosed, A

LEMMA ViewerReleasedHolds == ASSUME WInv, NEW t \in Tasks, ViewerReleased(t) PROVE WInv'
<1>1. job[t].stage \in Acting
  BY DEF ViewerReleased, Acting
<1>2. UNCHANGED <<negotiation, pending, pc, local, attempt, cancelled, candidates>>
  BY DEF ViewerReleased
<1>3. /\ session \in Objects \cup {None} /\ IsLeft(left) /\ Has(obj, Objects)
      /\ \A r \in Objects : /\ IsSession(obj[r]) /\ obj[r].cleaner = obj[r].cleaner
                            /\ obj[r].reader = obj[r].reader
  BY Everybody
<1>4. CASE Given(Owner(job[t].of)) /\ Succeed(t, obj) /\ UNCHANGED left
  <2>1. /\ Jobs(t) /\ Sessions(t) /\ SameReaders /\ running' \in Tasks \cup {None}
        /\ job'[t].stage \notin {"wait", "gather"} /\ (t = Unload => job'[t].stage # "none")
        /\ session' = None
    BY <1>1, <1>3, <1>4, SucceedDoes
  <2>2. lease' \in [Offers -> Leases]
    BY <1>4, Leased
  <2> QED
    BY <1>1, <1>2, <1>3, <1>4, <2>1, <2>2, CleanupHolds
<1>5. CASE /\ Spend("errors") /\ Refused(Owner(job[t].of), "owned") /\ Break(t, obj)
           /\ UNCHANGED session
  <2>1. /\ Jobs(t) /\ Sessions(t) /\ SameReaders /\ running' \in Tasks \cup {None}
        /\ job'[t].stage \notin {"wait", "gather"} /\ (t = Unload => job'[t].stage # "none")
    BY <1>1, <1>3, <1>5, BreakDoes
  <2>2. lease' \in [Offers -> Leases] /\ IsLeft(left') /\ left'.attempts = left.attempts
    BY <1>3, <1>5, Leased, SpendKeeps DEF Leases
  <2> QED
    BY <1>1, <1>2, <1>3, <1>5, <2>1, <2>2, CleanupHolds
<1> QED
  BY <1>4, <1>5 DEF ViewerReleased

\* The end of a reader's loop, with what it leaves in its session.
LEMMA UnreadHolds ==
  ASSUME WInv, NEW s \in Objects, obj[s].reader = "reading", NEW x, IsSession(x),
         x.cleaner = obj[s].cleaner, x.reader = "reading", Unread(s, x),
         UNCHANGED <<provider, pc, local, attempt, cancelled, wire, coordinator, publisher, since, spent>>
  PROVE  WInv'
<1>1. /\ session' \in Objects \cup {None} /\ pending' \in Seq(1..candidates') /\ candidates' \in Nat
      /\ negotiation' = negotiation /\ pc' = pc /\ local' = local /\ attempt' = attempt
      /\ cancelled' \in [Offers -> BOOLEAN] /\ lease' \in [Offers -> Leases]
      /\ IsLeft(left') /\ left'.attempts = left.attempts
  BY Everybody DEF provider, coordinator, spent
<1>2. s \in Tasks /\ s \notin Offers /\ s # Unload /\ s \notin Cleaners
  BY Kinds
<1>3. job[s].stage = "none" /\ job[s].stage \notin Acting
  BY Everybody DEF ObjectOK, Acting
<1>4. ASSUME Jobs(s), Sessions(s), Waits(s), running' \in Tasks \cup {None},
             job'[s].stage # "none" => obj'[s].reader = "cleaning",
             \A r \in Objects : r # s => obj'[r].reader = obj[r].reader
      PROVE  WInv'
  <2>1. \A r \in Objects : obj'[r].reader # "none" => obj[r].reader # "none"
    BY <1>4
  <2> QED
    BY <1>1, <1>2, <1>4, <2>1, TaskStep
<1> DEFINE y(end) == [x EXCEPT !.reader = end]
<1>5. ASSUME NEW end
      PROVE  IsSession(y(end)) /\ y(end).cleaner = obj[s].cleaner /\ y(end).reader = end
  BY DEF IsSession, Has
<1>6. CASE obj' = [obj EXCEPT ![s] = y("done")] /\ UNCHANGED <<job, running>>
  <2> HIDE DEF y
  <2>1. Jobs(s) /\ job'[s] = job[s]
    BY <1>2, <1>6, Stays
  <2>2. /\ Has(obj', Objects) /\ \A r \in Objects : r # s => obj'[r] = obj[r]
        /\ obj'[s] = y("done")
    BY <1>6, Everybody DEF Has
  <2>3. Sessions(s)
    BY <1>2, <1>3, <1>5, <2>2, Everybody, SessionsStay, SMTT(30)
  <2>4. Waits(s) /\ running' \in Tasks \cup {None}
    BY <1>3, <1>6, <2>1, Everybody DEF Waits
  <2> QED
    BY <1>3, <1>4, <2>1, <2>2, <2>3, <2>4
<1>7. CASE Enter(s, s, TRUE, [obj EXCEPT ![s] = y("cleaning")])
  <2> DEFINE objects == [obj EXCEPT ![s] = y("cleaning")]
  <2> HIDE DEF y
  <2>1. /\ Has(objects, Objects) /\ objects[s] = y("cleaning")
        /\ \A r \in Objects : r # s => objects[r] = obj[r]
    BY Everybody DEF Has
  <2>2. Enter(s, s, TRUE, objects) /\ TRUE \in BOOLEAN
    BY <1>7
  <2> HIDE DEF objects
  <2>3. \A r \in Objects : IsSession(objects[r]) /\ objects[r].cleaner = obj[r].cleaner
    BY <1>5, <2>1, Everybody, SMTT(30)
  <2>4. /\ Tended(s) /\ Waits(s) /\ running' \in Tasks \cup {None}
        /\ \A r \in Objects : obj'[r].reader = objects[r].reader
    <3>1. PICK release \in BOOLEAN : Enter(s, s, release, objects)
      BY <2>2
    <3> QED
      BY <1>2, <1>3, <2>1, <2>3, <3>1, EnterTends
  <2>5. Jobs(s) /\ Sessions(s)
    BY <2>4 DEF Tended, Jobs, Sessions
  <2>6. obj'[s].reader = "cleaning" /\ \A r \in Objects : r # s => obj'[r].reader = obj[r].reader
    BY <1>5, <2>1, <2>4
  <2> QED
    BY <1>4, <2>4, <2>5, <2>6
<1> QED
  BY <1>6, <1>7 DEF Unread

LEMMA ReadersHold ==
  ASSUME WInv, NEW s \in Objects,
         ReadCancelled(s) \/ \E kind \in {"retry", "fatal"} : ReadEnds(s, kind)
  PROVE  WInv'
<1>1. IsSession(obj[s]) /\ obj[s].reader = "reading"
      /\ UNCHANGED <<provider, pc, local, attempt, cancelled, wire, coordinator, publisher, since, spent>>
  BY Everybody DEF ReadCancelled, ReadEnds
<1>2. CASE ReadCancelled(s)
  <2>1. Unread(s, obj[s])
    BY <1>2 DEF ReadCancelled
  <2> QED
    BY <1>1, <2>1, UnreadHolds
<1>3. ASSUME NEW kind, ReadEnds(s, kind) PROVE WInv'
  <2> DEFINE x == [obj[s] EXCEPT !.answer = IF obj[s].answer = "pending" THEN kind ELSE obj[s].answer]
  <2>1. Unread(s, x)
    BY <1>3 DEF ReadEnds
  <2>2. IsSession(x) /\ x.cleaner = obj[s].cleaner /\ x.reader = "reading"
    BY <1>1 DEF IsSession, Has
  <2> HIDE DEF x
  <2> QED
    BY <1>1, <2>1, <2>2, UnreadHolds
<1> QED
  BY <1>2, <1>3

LEMMA ReadAnswerHolds == ASSUME WInv, NEW s \in Objects, ReadAnswer(s) PROVE WInv'
<1> DEFINE y == [obj[s] EXCEPT !.negotiating = FALSE,
                               !.answer = IF obj[s].answer = "pending" THEN "ok" ELSE obj[s].answer]
<1>1. IsSession(obj[s]) /\ obj[s].reader = "reading" /\ job[s].stage = "none"
  BY Everybody, Kinds DEF ReadAnswer, ObjectOK
<1>2. IsSession(y) /\ y.cleaner = obj[s].cleaner /\ y.reader = obj[s].reader
  BY <1>1 DEF IsSession, Has
<1>3. obj' = [obj EXCEPT ![s] = y]
  BY Everybody DEF ReadAnswer, Has
<1> HIDE DEF y
<1>4. SessionsKept
  BY <1>2, <1>3, OneSession
<1>5. /\ session' \in Objects \cup {None} /\ pending' \in Seq(1..candidates') /\ candidates' \in Nat
      /\ negotiation' = negotiation /\ pc' = pc /\ local' = local /\ attempt' = attempt
      /\ cancelled' \in [Offers -> BOOLEAN] /\ lease' \in [Offers -> Leases]
      /\ running' \in Tasks \cup {None} /\ IsLeft(left') /\ left'.attempts = left.attempts /\ job' = job
  BY Everybody DEF ReadAnswer, provider, coordinator, spent
<1>6. s \in Tasks /\ s \notin Offers /\ s # Unload
  BY Kinds
<1>7. Jobs(s) /\ job'[s] = job[s] /\ Sessions(s) /\ SameReaders
  BY <1>1, <1>4, <1>5, <1>6, Stays, Kept DEF Acting
<1>8. Waits(s)
  BY <1>7 DEF Waits
<1>9. /\ \A r \in Objects : r # s => obj'[r].reader = obj[r].reader
      /\ \A r \in Objects : obj'[r].reader # "none" => obj[r].reader # "none"
  BY <1>7 DEF SameReaders
<1> QED
  BY <1>1, <1>5, <1>6, <1>7, <1>8, <1>9, TaskStep

LEMMA ReaderEndsHolds == ASSUME WInv, NEW s \in Objects, ReaderEnds(s) PROVE WInv'
<1>1. /\ session' \in Objects \cup {None} /\ pending' \in Seq(1..candidates') /\ candidates' \in Nat
      /\ negotiation' = negotiation /\ pc' = pc /\ local' = local /\ attempt' = attempt
      /\ cancelled' \in [Offers -> BOOLEAN] /\ lease' \in [Offers -> Leases]
      /\ running' \in Tasks \cup {None} /\ IsLeft(left') /\ left'.attempts = left.attempts
  BY Everybody DEF ReaderEnds, provider, coordinator, spent
<1>2. s \in Tasks /\ s \notin Offers /\ s # Unload
  BY Kinds
<1>3. Jobs(s) /\ job'[s] = NoJob
  <2>1. job[s].stage \in {"ok", "raised"} /\ job' = Wake([job EXCEPT ![s] = NoJob], s, job[s].stage)
    BY DEF ReaderEnds
  <2> QED
    BY <1>2, <2>1, JobWoken, Blank
<1> DEFINE y == [obj[s] EXCEPT !.reader = "done"]
<1>4. IsSession(obj[s]) /\ obj[s].reader = "cleaning" /\ job[s].stage \notin Acting
  BY Everybody DEF ReaderEnds, Acting
<1>5. IsSession(y) /\ y.cleaner = obj[s].cleaner /\ y.reader = "done"
  BY <1>4 DEF IsSession, Has
<1>6. obj' = [obj EXCEPT ![s] = y]
  BY DEF ReaderEnds
<1> HIDE DEF y
<1>7. /\ Has(obj', Objects) /\ obj'[s] = y /\ \A r \in Objects : r # s => obj'[r] = obj[r]
  BY <1>6, Everybody DEF Has
<1>8. Sessions(s)
  BY <1>2, <1>4, <1>5, <1>7, Everybody, SessionsStay
<1>9. Waits(s) /\ job'[s].stage = "none"
  BY <1>3, Blank DEF Waits
<1>10. /\ \A r \in Objects : r # s => obj'[r].reader = obj[r].reader
       /\ \A r \in Objects : obj'[r].reader # "none" => obj[r].reader # "none"
  BY <1>4, <1>7
<1> QED
  BY <1>1, <1>2, <1>3, <1>8, <1>9, <1>10, TaskStep

\* A step of a task that is no handler and no reader, and that leaves the sessions alone.
LEMMA SweeperStep ==
  ASSUME WInv, NEW k \in Cleaners, job[k].stage \notin Acting, Jobs(k), Waits(k), obj' = obj,
         k = Unload => job'[k].stage # "none", cancelled' \in [Offers -> BOOLEAN],
         UNCHANGED <<provider, pc, local, attempt, lease, candidates>>,
         running' \in Tasks \cup {None}, IsLeft(left'), left'.attempts = left.attempts
  PROVE  WInv'
<1>1. k \in Tasks /\ k \notin Offers /\ k \notin Objects
  BY Kinds
<1>2. Sessions(k) /\ SameReaders
  BY <1>1, Unchanged, Kept
<1>3. /\ session' \in Objects \cup {None} /\ pending' \in Seq(1..candidates') /\ candidates' \in Nat
      /\ negotiation' = negotiation /\ pc' = pc /\ local' = local /\ attempt' = attempt
      /\ lease' \in [Offers -> Leases]
  BY Everybody DEF provider
<1>4. /\ \A r \in Objects : r # k => obj'[r].reader = obj[r].reader
      /\ \A r \in Objects : obj'[r].reader # "none" => obj[r].reader # "none"
  OBVIOUS
<1> QED
  BY <1>1, <1>2, <1>3, <1>4, TaskStep

LEMMA SpawnDoes ==
  ASSUME WInv, NEW k \in Cleaners, NEW s \in Objects, Spawn(k, s)
  PROVE  Jobs(k) /\ Waits(k) /\ job'[k].stage = "start"
<1> DEFINE j == [NoJob EXCEPT !.stage = "start", !.of = s]
<1>1. IsJob(j) /\ j.stage = "start"
  BY DEF IsJob, Has, NoJob, Stages, Acting
<1>2. job' = [job EXCEPT ![k] = j] /\ k \in Tasks
  BY Kinds DEF Spawn
<1> HIDE DEF j
<1>3. Jobs(k) /\ job'[k] = j
  BY <1>1, <1>2, JobPut
<1> QED
  BY <1>1, <1>3 DEF Waits

LEMMA SweepersHold ==
  ASSUME WInv, NEW k \in Sweepers, CloseSession(k) \/ Reconcile(k)
  PROVE  WInv'
<1>1. k \in Cleaners /\ k # Unload /\ k \in Tasks /\ job[k].stage = "none" /\ job[k].stage \notin Acting
  BY Kinds DEF CloseSession, Reconcile, Free, Acting
<1>2. /\ obj' = obj /\ UNCHANGED <<provider, pc, local, attempt, lease, candidates>>
      /\ cancelled' \in [Offers -> BOOLEAN] /\ running' \in Tasks \cup {None}
  <2>1. \A o \in Offers : (cancelled[o] \/ o = negotiation) \in BOOLEAN
    BY Everybody
  <2> QED
    BY <2>1, Everybody DEF CloseSession, Reconcile, coordinator, spent
<1>3. IsLeft(left') /\ left'.attempts = left.attempts
  BY SpendKeeps, Everybody DEF CloseSession, Reconcile, spent
<1>4. CASE session # None /\ Spawn(k, session)
  <2>1. session \in Objects
    BY <1>4, Everybody
  <2>2. Jobs(k) /\ Waits(k)
    BY <1>1, <1>4, <2>1, SpawnDoes
  <2> QED
    BY <1>1, <1>2, <1>3, <2>2, SweeperStep
<1>5. CASE job' = job
  <2>1. Jobs(k) /\ job'[k] = job[k]
    BY <1>1, <1>5, Stays
  <2>2. Waits(k)
    BY <2>1 DEF Waits
  <2> QED
    BY <1>1, <1>2, <1>3, <2>1, <2>2, SweeperStep
<1> QED
  BY <1>4, <1>5 DEF CloseSession, Reconcile

LEMMA CloseEntryHolds == ASSUME WInv, CloseEntry PROVE WInv'
<1> DEFINE j == [NoJob EXCEPT !.stage = "gather", !.on = negotiation]
<1>1. Unload \in Cleaners /\ Unload \in Tasks /\ job[Unload].stage = "none" /\ job[Unload].stage \notin Acting
  BY Kinds DEF CloseEntry, Acting
<1>2. /\ obj' = obj /\ UNCHANGED <<provider, pc, local, attempt, lease, candidates>>
      /\ cancelled' \in [Offers -> BOOLEAN] /\ running' \in Tasks \cup {None}
  BY Everybody DEF CloseEntry, coordinator
<1>3. IsLeft(left') /\ left'.attempts = left.attempts
  BY SpendKeeps, Everybody DEF CloseEntry
<1>4. IsJob(j) /\ j.stage = "gather" /\ j.on = negotiation
  BY DEF IsJob, Has, NoJob, Stages, Acting
<1>5. job' = [job EXCEPT ![Unload] = j]
  BY DEF CloseEntry
<1> HIDE DEF j
<1>6. Jobs(Unload) /\ job'[Unload] = j
  BY <1>1, <1>4, <1>5, JobPut
<1>7. Waits(Unload)
  BY <1>1, <1>4, <1>6 DEF Waits, Gathers
<1>8. Unload = Unload => job'[Unload].stage # "none"
  BY <1>4, <1>6
<1> QED
  BY <1>1, <1>2, <1>3, <1>6, <1>7, <1>8, SweeperStep

LEMMA GatheredHolds == ASSUME WInv, Gathered PROVE WInv'
<1>1. Unload \in Cleaners /\ Unload \in Tasks /\ job[Unload].stage \notin Acting
  BY Kinds DEF Gathered, Acting
<1>2. /\ obj' = obj /\ UNCHANGED <<provider, pc, local, attempt, lease, candidates>>
      /\ cancelled' \in [Offers -> BOOLEAN] /\ running' \in Tasks \cup {None}
      /\ IsLeft(left') /\ left'.attempts = left.attempts
  BY Everybody DEF Gathered, coordinator, spent
<1>3. CASE session # None /\ Spawn(Unload, session)
  <2>1. session \in Objects
    BY <1>3, Everybody
  <2>2. Jobs(Unload) /\ Waits(Unload) /\ job'[Unload].stage # "none"
    BY <1>1, <1>3, <2>1, SpawnDoes
  <2> QED
    BY <1>1, <1>2, <2>2, SweeperStep
<1>4. CASE job' = [job EXCEPT ![Unload] = [NoJob EXCEPT !.stage = "ended"]]
  <2> DEFINE j == [NoJob EXCEPT !.stage = "ended"]
  <2>1. IsJob(j) /\ j.stage = "ended"
    BY DEF IsJob, Has, NoJob, Stages, Acting
  <2>2. job' = [job EXCEPT ![Unload] = j]
    BY <1>4
  <2> HIDE DEF j
  <2>3. Jobs(Unload) /\ job'[Unload] = j
    BY <1>1, <2>1, <2>2, JobPut
  <2>4. Waits(Unload) /\ job'[Unload].stage # "none"
    BY <2>1, <2>3 DEF Waits
  <2> QED
    BY <1>1, <1>2, <2>3, <2>4, SweeperStep
<1> QED
  BY <1>3, <1>4 DEF Gathered

LEMMA StartHolds == ASSUME WInv, NEW k \in Cleaners, Start(k) PROVE WInv'
<1>1. k \in Tasks /\ k \notin Offers /\ k \notin Objects /\ job[k].stage = "start"
      /\ job[k].stage \notin Acting
  BY Kinds DEF Start, Acting
<1>2. job[k].of \in Objects /\ TRUE \in BOOLEAN
  BY <1>1, Everybody DEF IsJob
<1>3. Has(obj, Objects) /\ \A r \in Objects : IsSession(obj[r]) /\ obj[r].cleaner = obj[r].cleaner
  BY Everybody
<1>4. Enter(k, job[k].of, TRUE, obj)
  BY DEF Start
<1>5. /\ Tended(k) /\ Waits(k) /\ running' \in Tasks \cup {None}
      /\ (\A r \in Objects : obj'[r].reader = obj[r].reader) /\ (k = Unload => job'[k].stage # "none")
  <2>1. PICK release \in BOOLEAN : Enter(k, job[k].of, release, obj)
    BY <1>2, <1>4
  <2> QED
    BY <1>1, <1>2, <1>3, <2>1, EnterTends
<1>6. Jobs(k) /\ Sessions(k)
  BY <1>5 DEF Tended, Jobs, Sessions
<1>7. /\ session' \in Objects \cup {None} /\ pending' \in Seq(1..candidates') /\ candidates' \in Nat
      /\ negotiation' = negotiation /\ pc' = pc /\ local' = local /\ attempt' = attempt
      /\ cancelled' \in [Offers -> BOOLEAN] /\ lease' \in [Offers -> Leases]
      /\ IsLeft(left') /\ left'.attempts = left.attempts
  BY Everybody DEF Start, provider, coordinator, spent
<1>8. /\ \A r \in Objects : r # k => obj'[r].reader = obj[r].reader
      /\ \A r \in Objects : obj'[r].reader # "none" => obj[r].reader # "none"
  BY <1>5
<1> QED
  BY <1>1, <1>5, <1>6, <1>7, <1>8, TaskStep

LEMMA ResumedHolds == ASSUME WInv, NEW k \in Cleaners, Resumed(k) PROVE WInv'
<1>1. k \in Tasks /\ job[k].stage \notin Acting /\ job[k].stage \in {"ok", "raised"}
  BY Kinds DEF Resumed, Acting
<1>2. Return(k, job[k].stage)
  BY DEF Resumed
<1>3. /\ Jobs(k) /\ running' \in Tasks \cup {None}
      /\ job'[k].stage \in {job[k].stage, "none", "ended"} /\ (k = Unload => job'[k].stage # "none")
  BY <1>1, <1>2, ReturnTends
<1>4. Waits(k)
  BY <1>1, <1>3 DEF Waits
<1>5. /\ obj' = obj /\ UNCHANGED <<provider, pc, local, attempt, lease, candidates>>
      /\ cancelled' \in [Offers -> BOOLEAN] /\ IsLeft(left') /\ left'.attempts = left.attempts
  BY Everybody DEF Resumed, coordinator, spent
<1> QED
  BY <1>1, <1>3, <1>4, <1>5, SweeperStep

-----------------------------------------------------------------------------
(* What happens outside                                                    *)

LEMMA Longer ==
  ASSUME NEW n \in Nat, NEW q \in Seq(1..n)
  PROVE  q \in Seq(1..(n + 1)) /\ Append(q, n + 1) \in Seq(1..(n + 1))
<1>1. q \in [1..Len(q) -> 1..n] /\ Len(q) \in Nat
  OBVIOUS
<1>2. q \in [1..Len(q) -> 1..(n + 1)]
  BY <1>1
<1>3. q \in Seq(1..(n + 1))
  BY <1>1, <1>2
<1>4. n + 1 \in 1..(n + 1)
  OBVIOUS
<1> QED
  BY <1>3, <1>4

LEMMA OutsideHolds ==
  ASSUME WInv, Candidate \/ Publication \/ \E o \in Offers : LoseLease(o)
  PROVE  WInv'
<1>1. /\ UNCHANGED <<negotiation, pc, local, attempt, obj, job, session, running, cancelled>>
      /\ IsLeft(left') /\ left'.attempts = left.attempts
  BY Everybody, SpendKeeps DEF Candidate, Publication, LoseLease, provider
<1>2. lease' \in [Offers -> Leases]
  BY Everybody DEF Candidate, Publication, LoseLease, coordinator, Leases
<1>3. pending' \in Seq(1..candidates') /\ candidates' \in Nat
  <2>1. CASE Candidate
    <3>1. candidates' = candidates + 1 /\ pending' \in {pending, Append(pending, candidates + 1)}
      BY <2>1 DEF Candidate
    <3>2. candidates \in Nat /\ pending \in Seq(1..candidates)
      BY Everybody
    <3>3. pending \in Seq(1..(candidates + 1)) /\ Append(pending, candidates + 1) \in Seq(1..(candidates + 1))
      BY <3>2, Longer
    <3>4. pending' \in Seq(1..candidates')
      BY <3>1, <3>3
    <3> QED
      BY <3>1, <3>2, <3>4
  <2>2. CASE Publication \/ \E o \in Offers : LoseLease(o)
    BY <2>2, Everybody DEF Publication, LoseLease, provider
  <2> QED
    BY <2>1, <2>2
<1>4. Typed'
  BY <1>1, <1>2, <1>3 DEF WInv, Typed, ProviderTyped, OffersTyped, OthersTyped
<1> QED
  BY <1>1, <1>4, OtherStep

-----------------------------------------------------------------------------
(* The theorems                                                            *)

LEMMA WInit == Init => WInv
<1> SUFFICES ASSUME Init PROVE WInv
  OBVIOUS
<1> USE Kinds
<1>1. Typed
  <2>1. left \in [offers : Nat, attempts : 0..MaxAttempts, sweepers : Nat, candidates : Nat,
                  errors : Nat, closes : Nat, moves : Nat, unloads : Nat]
    BY BoundsAssumption DEF Init
  <2>2. IsLeft(left)
    BY <2>1 DEF IsLeft, Has
  <2>3. ProviderTyped
    BY DEF Init, ProviderTyped
  <2>4. OffersTyped
    BY BoundsAssumption DEF Init, OffersTyped, Places, Has
  <2>5. OthersTyped
    BY <2>2 DEF Init, OthersTyped, Leases
  <2> QED
    BY <2>2, <2>3, <2>4, <2>5 DEF Typed
<1>2. \A t \in Tasks : job[t] = NoJob /\ WaitsOn(t) = None
  BY DEF Init, WaitsOn, NoJob
<1>3. \A t \in Tasks : IsJob(job[t]) /\ Begun(t)
  BY <1>2, Blank DEF Begun
<1>4. ASSUME NEW s \in Objects PROVE ObjectOK(s)
  <2>1. obj[s] = [Fresh EXCEPT !.reader = "none", !.open = FALSE]
    BY DEF Init
  <2>2. IsSession(obj[s]) /\ obj[s].reader = "none" /\ obj[s].cleaner = None
    BY <2>1, Blank DEF IsSession, Has
  <2>3. job[s].stage = "none"
    BY <1>2, Blank
  <2> QED
    BY <2>2, <2>3 DEF ObjectOK
<1>5. ASSUME NEW o \in Offers PROVE OfferOK(o)
  <2>1. local[o] = NoLocals /\ pc[o] = "idle" /\ attempt[o] = 0 /\ job[o].stage = "none"
    BY <1>2, Blank DEF Init
  <2> QED
    BY <2>1, Blank DEF OfferOK
<1>6. NoCircle
  BY <1>2 DEF NoCircle
<1>7. Has(job, Tasks) /\ Has(obj, Objects) /\ negotiation = None
  BY DEF Init, Has
<1> QED
  BY <1>1, <1>3, <1>4, <1>5, <1>6, <1>7 DEF WInv

LEMMA WStep == WInv /\ [Next]_vars => WInv'
<1> SUFFICES ASSUME WInv, [Next]_vars PROVE WInv'
  OBVIOUS
<1>1. ASSUME NEW o \in Offers, Begin(o) \/ OfferStep(o) PROVE WInv'
  BY <1>1, BeginHolds, PreviousEndsHolds, OldCleanedHolds, AcquiredHolds, ConnectedHolds, SentHolds,
     FailuresHold, AnsweredHolds, UndoneHolds, SleepEndsHolds, CancelledHolds, CleanupCancelledHolds,
     AbortedHolds, ReleasedHolds DEF OfferStep
<1>2. ASSUME NEW t \in Tasks, CleanupStep(t) PROVE WInv'
  BY <1>2, SocketClosedHolds, ViewerReleasedHolds DEF CleanupStep
<1>3. ASSUME NEW s \in Objects, ReaderStep(s) \/ Remote(s) PROVE WInv'
  BY <1>3, ReadersHold, ReadAnswerHolds, ReaderEndsHolds DEF ReaderStep, Remote
<1>4. CASE Candidate \/ Publication \/ \E o \in Offers : LoseLease(o)
  BY <1>4, OutsideHolds
<1>5. ASSUME NEW k \in Cleaners, Start(k) \/ Resumed(k) PROVE WInv'
  BY <1>5, StartHolds, ResumedHolds
<1>6. CASE UNCHANGED vars
  <2>1. Typed' /\ UNCHANGED <<negotiation, pc, local, attempt, obj, job>> /\ left'.attempts = left.attempts
    BY <1>6 DEF vars, provider, coordinator, spent, WInv, Typed, ProviderTyped, OffersTyped, OthersTyped
  <2> QED
    BY <2>1, OtherStep
<1> QED
  BY <1>1, <1>2, <1>3, <1>4, <1>5, <1>6, SweepersHold, CloseEntryHolds, GatheredHolds DEF Next

\* However offers, attempts, readers and cleanups overlap, every field, stage and place of a task
\* is one that the code knows, a session is cleaned up by the task that it names and a handler is
\* in _cleanup_session only where its code calls it.
THEOREM Invariant == Spec => []WInv
  BY WInit, WStep, PTL DEF Spec

\* The types of the provider, for any number of offers, attempts and sweepers.
THEOREM TypeCorrect == Spec => []TypeOK
<1>1. WInv => TypeOK
  BY DEF WInv, Typed, ProviderTyped, OffersTyped, OthersTyped, IsJob, Stages, Acting, ObjectOK,
         IsSession, OfferOK, Places, Leases, TypeOK
<1> QED
  BY <1>1, Invariant, PTL

\* Replaced handlers, cleanups under way and the unload of the entry never wait for each other in a
\* circle (the gather and the shields of webrtc.py), whatever their number.
THEOREM NobodyInCircle == Spec => []NoCircle
<1>1. WInv => NoCircle
  BY DEF WInv
<1> QED
  BY <1>1, Invariant, PTL
-----------------------------------------------------------------------------
(* Candidates.  A handler that runs is the one that is registered; its queue, and then its     *)
(* socket, have every candidate that came since.                                               *)

\* What Home Assistant keeps to by a new id for each offer.
AtMostTwo == \A a, b, c \in Offers : a = b \/ b = c \/ a = c

Registered == {"acquire", "connect", "send", "answer", "undo", "sleep", "abort", "release"}
Sole == \A o \in Offers : pc[o] \in Registered => negotiation = o
SoleInv ==
  /\ Sole
  /\ negotiation # None => pc[negotiation] \in Registered
  /\ session # None => session[2] <= attempt[session[1]]
  /\ \A o \in Offers : pc[o] = "previous" => local[o].previous \in Offers \ {o}
  /\ \A o \in Offers : pc[o] = "old" => \A p \in Offers \ {o} : pc[p] = "done"

\* While a handler sends, its socket has the offer and what it has taken from the queue.
SendOK(o) ==
  pc[o] = "send" =>
    LET s == local[o].state
    IN /\ local[o].index \in 0..Len(pending) /\ Len(wire[s]) = local[o].index + 1
       /\ wire[s][1] = 0 /\ \A i \in 1..local[o].index : wire[s][i + 1] = pending[i]
       /\ ~obj[s].offerSent
CandInv ==
  /\ negotiation # None => Since(pending, since[negotiation], candidates)
  /\ Has(since, Offers) /\ Has(wire, Objects)
  /\ \A o \in Offers : SendOK(o) /\ since[o] \in 0..candidates
  /\ \A s \in Objects : wire[s] \in Seq(Nat) /\ (obj[s].offerSent => s[2] <= attempt[s[1]])
  /\ CandidatesInOrder

\* The steps of a handler: on, to its end, to its registration, or to a wait before that.
Goes(o) ==
  /\ pc[o] \in Registered /\ UNCHANGED <<negotiation, pending, since>>
  /\ \E place \in Registered : pc' = [pc EXCEPT ![o] = place]
Ends(o) ==
  /\ pc' = [pc EXCEPT ![o] = "done"] /\ UNCHANGED since
  /\ negotiation' = IF negotiation = o THEN None ELSE negotiation
  /\ pending' = IF negotiation = o THEN <<>> ELSE pending
Before(o) ==
  \/ pc[o] = "idle" /\ negotiation = None
  \/ pc[o] = "previous" /\ pc[local[o].previous] = "done"
Registers(o) ==
  /\ Before(o) \/ pc[o] = "old"
  /\ pc' = [pc EXCEPT ![o] = "acquire"] /\ negotiation' = o
  /\ since' = [since EXCEPT ![o] = candidates]
  /\ UNCHANGED <<session, pending, candidates, obj, wire, attempt>>
Joins(o) ==
  /\ pc[o] = "idle" /\ negotiation # None /\ local'[o].previous = negotiation
  /\ pc' = [pc EXCEPT ![o] = "previous"] /\ UNCHANGED <<negotiation, pending, since>>
Replaces(o) ==
  /\ Before(o) /\ session # None
  /\ pc' = [pc EXCEPT ![o] = "old"] /\ UNCHANGED <<negotiation, pending, since>>
Moves(o) == Goes(o) \/ Ends(o) \/ Registers(o) \/ Joins(o) \/ Replaces(o)

LEMMA HandlerMoves ==
  ASSUME WInv, NEW o \in Offers, Begin(o) \/ OfferStep(o)
  PROVE  Moves(o) \/ UNCHANGED <<pc, negotiation, pending, since>>
<1> USE DEF Moves, Goto, Finish, Registered
<1>0. negotiation \in Offers \cup {None} /\ Has(local, Offers) /\ IsLocal(local[o])
  BY DEF WInv, Typed, ProviderTyped, OffersTyped, OfferOK
<1>1. CASE Begin(o)
  <2>1. CASE negotiation # None
    <3>1. local'[o].previous = negotiation
      BY <1>0, <1>1, <2>1 DEF Begin, IsLocal, Has
    <3> QED
      BY <1>1, <2>1, <3>1 DEF Begin, Joins
  <2>2. CASE negotiation = None
    BY <1>1, <2>2 DEF Begin, ReplaceOld, Register, Registers, Replaces, Before
  <2> QED
    BY <2>1, <2>2
<1>2. CASE PreviousEnds(o)
  BY <1>2 DEF PreviousEnds, ReplaceOld, Register, Registers, Replaces, Before, spent
<1>3. CASE OldCleaned(o)
  BY <1>3 DEF OldCleaned, Register, Registers, Ends, spent
<1>4. CASE Acquired(o)
  BY <1>4 DEF Acquired, Goes, Ends
<1>5. CASE Connected(o)
  BY <1>5 DEF Connected, Goes
<1>6. CASE Sent(o)
  BY <1>6 DEF Sent, Goes, provider
<1>7. CASE SendFails(o)
  BY <1>7 DEF SendFails, Fail, Goes, provider
<1>8. ASSUME NEW kind, ConnectFails(o, kind) PROVE Goes(o)
  BY <1>8 DEF ConnectFails, Fail, Goes, provider
<1>9. CASE Answered(o)
  BY <1>9 DEF Answered, Fail, Goes, Ends
<1>10. CASE Undone(o)
  BY <1>10 DEF Undone, Leave, Goes, Ends
<1>11. CASE SleepEnds(o)
  BY <1>11 DEF SleepEnds, Leave, Goes, Ends
<1>12. CASE Cancelled(o)
  BY <1>12 DEF Cancelled, Leave, Goes, Ends
<1>13. CASE CleanupCancelled(o)
  BY <1>13 DEF CleanupCancelled, provider
<1>14. CASE Aborted(o)
  BY <1>14 DEF Aborted, Leave, Goes, Ends
<1>15. CASE Released(o)
  BY <1>15 DEF Released, Ends
<1> QED
  BY <1>1, <1>2, <1>3, <1>4, <1>5, <1>6, <1>7, <1>8, <1>9, <1>10, <1>11, <1>12, <1>13, <1>14,
     <1>15 DEF OfferStep

\* What each step does to the registered session, to the attempts and to who waits for whom.
LEMMA SessionMoves ==
  ASSUME WInv, [Next]_vars
  PROVE  \/ UNCHANGED attempt /\ session' \in {None, session}
         \/ \E o \in Offers : Connected(o)
<1> DEFINE Goal == UNCHANGED attempt /\ session' \in {None, session}
<1> USE DEF provider
<1>1. ASSUME NEW o \in Offers, Begin(o) \/ LoseLease(o) PROVE Goal
  BY <1>1 DEF Begin, LoseLease
<1>2. ASSUME NEW o \in Offers, OfferStep(o), ~Connected(o) PROVE Goal
  BY <1>2 DEF OfferStep, PreviousEnds, OldCleaned, Acquired, Sent, SendFails, ConnectFails,
     Answered, Undone, SleepEnds, Cancelled, CleanupCancelled, Aborted, Released
<1>3. ASSUME NEW t \in Tasks, CleanupStep(t) PROVE Goal
  BY <1>3 DEF CleanupStep, SocketClosed, ViewerReleased, Succeed
<1>4. ASSUME NEW s \in Objects, ReaderStep(s) \/ Remote(s) PROVE Goal
  BY <1>4 DEF ReaderStep, Remote, ReadCancelled, ReaderEnds, ReadAnswer, ReadEnds
<1>5. ASSUME NEW k \in Cleaners, CloseSession(k) \/ Reconcile(k) \/ Start(k) \/ Resumed(k)
      PROVE  Goal
  BY <1>5 DEF CloseSession, Reconcile, Start, Resumed
<1>6. CASE CloseEntry \/ Gathered \/ Candidate \/ Publication
  BY <1>6 DEF CloseEntry, Gathered, Candidate, Publication
<1>7. CASE UNCHANGED vars
  BY <1>7 DEF vars
<1> HIDE DEF Goal
<1> QED
  BY <1>1, <1>2, <1>3, <1>4, <1>5, <1>6, <1>7 DEF Next, Cleaners, Goal

LEMMA OthersStay ==
  ASSUME [Next]_vars, ~(\E o \in Offers : Begin(o) \/ OfferStep(o))
  PROVE  UNCHANGED <<negotiation, pc, local, attempt, since>>
<1> USE DEF provider
<1>1. ASSUME NEW o \in Offers, LoseLease(o) PROVE UNCHANGED <<negotiation, pc, local, attempt, since>>
  BY <1>1 DEF LoseLease
<1>2. ASSUME NEW t \in Tasks, CleanupStep(t) PROVE UNCHANGED <<negotiation, pc, local, attempt, since>>
  BY <1>2 DEF CleanupStep, SocketClosed, ViewerReleased
<1>3. ASSUME NEW s \in Objects, ReaderStep(s) \/ Remote(s)
      PROVE  UNCHANGED <<negotiation, pc, local, attempt, since>>
  BY <1>3 DEF ReaderStep, Remote, ReadCancelled, ReaderEnds, ReadAnswer, ReadEnds
<1>4. ASSUME NEW k \in Cleaners, CloseSession(k) \/ Reconcile(k) \/ Start(k) \/ Resumed(k)
      PROVE  UNCHANGED <<negotiation, pc, local, attempt, since>>
  BY <1>4 DEF CloseSession, Reconcile, Start, Resumed
<1>5. CASE CloseEntry \/ Gathered \/ Candidate \/ Publication
  BY <1>5 DEF CloseEntry, Gathered, Candidate, Publication
<1>6. CASE UNCHANGED vars
  BY <1>6 DEF vars
<1> QED
  BY <1>1, <1>2, <1>3, <1>4, <1>5, <1>6 DEF Next, Cleaners

\* Nobody else is on the way when a handler registers, or when it finds a session to replace.
LEMMA Lone ==
  ASSUME WInv, SoleInv, AtMostTwo, NEW o \in Offers, Before(o), NEW p \in Offers \ {o}
  PROVE  pc[p] \notin Registered
<1>1. CASE pc[o] = "idle" /\ negotiation = None
  BY <1>1, Kinds DEF SoleInv, Sole
<1>2. CASE pc[o] = "previous" /\ pc[local[o].previous] = "done"
  <2>1. local[o].previous \in Offers \ {o}
    BY <1>2 DEF SoleInv
  <2>2. local[o].previous = p
    BY <2>1 DEF AtMostTwo
  <2> QED
    BY <1>2, <2>2 DEF Registered
<1> QED
  BY <1>1, <1>2 DEF Before

LEMMA SoleStep == AtMostTwo /\ WInv /\ SoleInv /\ [Next]_vars => SoleInv'
<1> SUFFICES ASSUME AtMostTwo, WInv, SoleInv, [Next]_vars PROVE SoleInv'
  OBVIOUS
<1>0. /\ pc \in [Offers -> Places] /\ attempt \in [Offers -> Nat] /\ Has(local, Offers)
      /\ negotiation \in Offers \cup {None} /\ session \in Objects \cup {None}
  BY BoundsAssumption DEF WInv, Typed, ProviderTyped, OffersTyped
<1>1. session' # None => session'[2] <= attempt'[session'[1]]
  <2>1. CASE UNCHANGED attempt /\ session' \in {None, session}
    BY <2>1 DEF SoleInv
  <2>2. ASSUME NEW o \in Offers, Connected(o) PROVE session'[2] <= attempt'[session'[1]]
    <3>1. session' = <<o, attempt[o] + 1>> /\ attempt'[o] = attempt[o] + 1 /\ attempt[o] \in Nat
      BY <1>0, <2>2 DEF Connected
    <3> QED
      BY <3>1
  <2> QED
    BY <2>1, <2>2, SessionMoves
<1>2. ASSUME UNCHANGED <<negotiation, pc>>, \A o \in Offers : pc[o] = "previous" => local'[o] = local[o]
      PROVE  SoleInv'
  BY <1>1, <1>2 DEF SoleInv, Sole
<1>3. CASE ~(\E o \in Offers : Begin(o) \/ OfferStep(o))
  BY <1>2, <1>3, OthersStay
<1>4. ASSUME NEW o \in Offers, Begin(o) \/ OfferStep(o) PROVE SoleInv'
  <2>0. \A p \in Offers \ {o} : local'[p] = local[p]
    BY <1>0, <1>4 DEF Begin, OfferStep, PreviousEnds, OldCleaned, Acquired, Connected, Sent, SendFails,
       ConnectFails, Fail, Answered, Undone, SleepEnds, Cancelled, CleanupCancelled, Aborted,
       Released, Leave, Finish, Has
  <2>1. CASE Goes(o)
    <3>1. pc[o] \in Registered /\ pc'[o] \in Registered /\ negotiation' = negotiation
          /\ \A p \in Offers \ {o} : pc'[p] = pc[p]
      BY <1>0, <2>1 DEF Goes
    <3> QED
      BY <1>1, <2>0, <3>1 DEF SoleInv, Sole, Registered
  <2>2. CASE Ends(o)
    <3>1. pc'[o] = "done" /\ \A p \in Offers \ {o} : pc'[p] = pc[p]
      BY <1>0, <2>2 DEF Ends
    <3>2. negotiation' \in {None, negotiation} /\ negotiation' # o
      BY <2>2, Kinds DEF Ends
    <3>3. \A p \in Offers \ {o} : negotiation = p => negotiation' = p
      BY <2>2 DEF Ends
    <3> QED
      BY <1>0, <1>1, <2>0, <3>1, <3>2, <3>3 DEF SoleInv, Sole, Registered
  <2>3. CASE Registers(o)
    <3>1. pc'[o] = "acquire" /\ negotiation' = o /\ \A p \in Offers \ {o} : pc'[p] = pc[p]
      BY <1>0, <2>3 DEF Registers
    <3>2. ASSUME NEW p \in Offers \ {o} PROVE pc[p] \notin Registered /\ pc[p] # "old"
      <4>1. pc[p] \notin Registered
        BY <2>3, Lone DEF Registers, SoleInv, Registered
      <4>2. pc[o] # "done"
        BY <2>3 DEF Registers, Before
      <4> QED
        BY <4>1, <4>2 DEF SoleInv
    <3> QED
      BY <1>1, <2>0, <3>1, <3>2 DEF SoleInv, Sole, Registered
  <2>4. CASE Joins(o)
    <3>1. pc[o] = "idle" /\ pc'[o] = "previous" /\ negotiation' = negotiation
          /\ local'[o].previous = negotiation /\ negotiation \in Offers
          /\ \A p \in Offers \ {o} : pc'[p] = pc[p]
      BY <1>0, <2>4 DEF Joins
    <3>2. negotiation # o
      BY <3>1, Kinds DEF SoleInv, Registered
    <3> QED
      BY <1>1, <2>0, <3>1, <3>2 DEF SoleInv, Sole, Registered
  <2>5. CASE Replaces(o)
    <3>1. pc[o] \in {"idle", "previous"} /\ pc'[o] = "old" /\ negotiation' = negotiation
          /\ \A p \in Offers \ {o} : pc'[p] = pc[p]
      BY <1>0, <2>5 DEF Replaces, Before
    <3>2. ASSUME NEW p \in Offers \ {o} PROVE pc[p] = "done"
      <4>1. pc[p] \notin Registered
        BY <2>5, Lone DEF Replaces
      <4>2. session[1] \in Offers /\ session[2] \in 1..MaxAttempts /\ session[2] <= attempt[session[1]]
        BY <1>0, <2>5 DEF Replaces, SoleInv, Objects
      <4>3. attempt[session[1]] # 0
        BY <1>0, <4>2, BoundsAssumption
      <4>4. pc[session[1]] \notin {"idle", "previous", "old", "acquire"}
        BY <4>2, <4>3 DEF WInv, OfferOK
      <4>5. session[1] = p
        BY <3>1, <4>2, <4>4 DEF AtMostTwo
      <4> QED
        BY <1>0, <4>1, <4>4, <4>5 DEF Places, Registered
    <3>3. negotiation # o
      BY <3>1, Kinds DEF SoleInv, Registered
    <3> QED
      BY <1>0, <1>1, <2>0, <3>1, <3>2, <3>3 DEF SoleInv, Sole, Registered
  <2>6. CASE UNCHANGED <<pc, negotiation, pending, since>>
    <3>1. ASSUME pc[o] = "previous" PROVE local'[o] = local[o]
      BY <1>0, <1>4, <2>6, <3>1 DEF Begin, OfferStep, PreviousEnds, ReplaceOld, Register, Goto, OldCleaned, Acquired, Connected,
         Sent, SendFails, ConnectFails, Answered, Undone, SleepEnds, Cancelled, CleanupCancelled,
         Aborted, Released
    <3> QED
      BY <1>2, <2>0, <2>6, <3>1
  <2> QED
    BY <1>4, <2>1, <2>2, <2>3, <2>4, <2>5, <2>6, HandlerMoves DEF Moves
<1> QED
  BY <1>3, <1>4

-----------------------------------------------------------------------------
\* A session takes candidates while it is neither released nor failed.
Live(x) == x.offerSent /\ ~x.released /\ ~x.failed
\* No session becomes live, but for one that is popped.
Dims ==
  /\ \A s \in Objects : obj'[s].offerSent => obj[s].offerSent
  /\ session' # None => \A s \in Objects : Live(obj'[s]) => Live(obj[s])

LEMMA EnterDims ==
  ASSUME WInv, NEW t, NEW s \in Objects, NEW release, NEW objects, Has(objects, Objects),
         \A r \in Objects : /\ IsSession(objects[r]) /\ objects[r].offerSent = obj[r].offerSent
                            /\ objects[r].released = obj[r].released
                            /\ objects[r].failed = obj[r].failed,
         Enter(t, s, release, objects)
  PROVE  Dims
<1>1. CASE obj' = objects
  BY <1>1 DEF Dims, Live
<1>2. CASE obj' = [objects EXCEPT ![s].cleaner = t, ![s].released = TRUE,
                               ![s].leaseReleased = @ \/ release,
                               ![s].stop = @ \/ (objects[s].reader = "reading" /\ t # s)]
  <2>1. \A r \in Objects \ {s} : obj'[r] = objects[r]
    BY <1>2 DEF Has
  <2>2. obj'[s].released /\ obj'[s].offerSent = obj[s].offerSent
    BY <1>2 DEF Has, IsSession
  <2> QED
    BY <2>1, <2>2 DEF Dims, Live
<1> QED
  BY <1>1, <1>2 DEF Enter

\* The fields that decide whether a session is live stay when its socket is closed.
LEMMA AnswerlessDims ==
  ASSUME WInv, NEW s \in Objects, NEW open \in BOOLEAN, NEW r \in Objects
  PROVE  /\ Answerless(s, open)[r].offerSent = obj[r].offerSent
         /\ Answerless(s, open)[r].released = obj[r].released
         /\ Answerless(s, open)[r].failed = obj[r].failed
<1>1. Has(obj, Objects) /\ IsSession(obj[r])
  BY DEF WInv, ObjectOK
<1> QED
  BY <1>1 DEF Answerless, Has, IsSession

LEMMA EndDims ==
  ASSUME WInv, NEW t \in Tasks, job[t].stage \in Acting, NEW objects, Has(objects, Objects),
         \A r \in Objects : /\ IsSession(objects[r]) /\ objects[r].offerSent = obj[r].offerSent
                            /\ objects[r].released = obj[r].released
                            /\ objects[r].failed = obj[r].failed,
         Succeed(t, objects) \/ Break(t, objects)
  PROVE  Dims
<1>0. job[t].of \in Objects
  BY DEF WInv, IsJob
<1>1. CASE Succeed(t, objects)
  <2>1. session' = None /\ \A r \in Objects : obj'[r].offerSent = objects[r].offerSent
    BY <1>0, <1>1 DEF Succeed, Has, IsSession
  <2> QED
    BY <2>1 DEF Dims
<1>2. CASE Break(t, objects)
  <2> DEFINE s == job[t].of
             l == objects[s].leaseReleased /\ ~job[t].release
             f == objects[s].failed \/ job[t].release
             d == objects[s].released /\ ~job[t].release
             y == [objects[s] EXCEPT !.cleaner = None, !.leaseReleased = l, !.failed = f,
                                     !.released = d]
  <2>1. obj' = [objects EXCEPT ![s] = y]
    BY <1>0, <1>2 DEF Break, Has
  <2>2. /\ y.offerSent = objects[s].offerSent
        /\ Live(y) => Live(objects[s])
    <3> HIDE DEF l, f, d
    <3>1. y.offerSent = objects[s].offerSent /\ y.failed = f /\ y.released = d
      BY <1>0 DEF Has, IsSession
    <3> QED
      BY <3>1 DEF Live, f, d
  <2> HIDE DEF y
  <2>3. \A r \in Objects : obj'[r].offerSent = objects[r].offerSent /\ (Live(obj'[r]) => Live(objects[r]))
    BY <1>0, <2>1, <2>2 DEF Has
  <2>4. \A r \in Objects : Live(objects[r]) <=> Live(obj[r])
    BY DEF Live
  <2>5. \A r \in Objects : obj'[r].offerSent = obj[r].offerSent
    BY <2>3
  <2>6. \A r \in Objects : Live(obj'[r]) => Live(obj[r])
    BY <2>3, <2>4
  <2> QED
    BY <2>5, <2>6 DEF Dims
<1> QED
  BY <1>1, <1>2

LEMMA SameDims == ASSUME obj' = obj PROVE Dims
  BY DEF Dims

LEMMA SessionFacts ==
  ASSUME WInv
  PROVE  /\ Has(obj, Objects) /\ \A r \in Objects : IsSession(obj[r])
         /\ session \in Objects \cup {None}
         /\ \A t \in Tasks : job[t].stage \in Acting \cup {"start"} => job[t].of \in Objects
         /\ \A o \in Offers : local[o].state \in {None} \cup Objects
         /\ Offers \subseteq Tasks /\ Cleaners \subseteq Tasks /\ Objects \subseteq Tasks
<1>1. \A o \in Offers : local[o].state \in {None} \cup ({o} \X (1..attempt[o])) /\ attempt[o] \in 0..MaxAttempts
  BY DEF WInv, OfferOK, Typed, OffersTyped
<1>2. \A o \in Offers : local[o].state \in {None} \cup Objects
  BY <1>1, BoundsAssumption DEF Objects
<1> QED
  BY <1>2, Kinds DEF WInv, ObjectOK, Typed, ProviderTyped, IsJob

\* A step of a handler that does not register and writes nothing.
LEMMA HandlerDims ==
  ASSUME WInv, NEW o \in Offers, Begin(o) \/ OfferStep(o), ~Connected(o), ~Sent(o)
  PROVE  Dims
<1> USE SessionFacts
<1>1. ASSUME NEW s \in Objects, NEW release, Enter(o, s, release, obj) PROVE Dims
  BY <1>1, EnterDims
<1>2. ASSUME ReplaceOld(o) PROVE Dims
  <2>1. CASE session # None /\ Enter(o, session, TRUE, obj)
    BY <1>1, <2>1
  <2>2. CASE UNCHANGED obj
    BY <2>2, SameDims
  <2> QED
    BY <1>2, <2>1, <2>2 DEF ReplaceOld
<1>3. CASE Begin(o)
  BY <1>2, <1>3, SameDims DEF Begin
<1>4. CASE PreviousEnds(o)
  BY <1>2, <1>4 DEF PreviousEnds
<1>5. ASSUME NEW kind, Fail(o, kind) PROVE Dims
  <2>1. CASE local[o].state # None /\ Enter(o, local[o].state, FALSE, obj)
    BY <1>1, <2>1
  <2>2. CASE UNCHANGED obj
    BY <2>2, SameDims
  <2> QED
    BY <1>5, <2>1, <2>2 DEF Fail
<1>6. CASE SendFails(o) \/ \E kind \in {"retry", "fatal"} : ConnectFails(o, kind)
  BY <1>5, <1>6 DEF SendFails, ConnectFails
<1>7. CASE Answered(o)
  <2>1. CASE obj' = [obj EXCEPT ![local[o].state].negotiating = FALSE]
    <3>1. \A r \in Objects : obj'[r].offerSent = obj[r].offerSent /\ obj'[r].released = obj[r].released
                            /\ obj'[r].failed = obj[r].failed
      BY <2>1 DEF Has, IsSession
    <3> QED
      BY <3>1 DEF Dims, Live
  <2> QED
    BY <1>5, <1>7, <2>1 DEF Answered
<1>8. CASE Cancelled(o)
  <2>1. CASE UNCHANGED obj
    BY <2>1, SameDims
  <2>2. CASE pc[o] \in {"send", "answer"} /\ Enter(o, local[o].state, TRUE, obj)
    <3>1. local[o].state # None
      BY <2>2 DEF WInv, OfferOK
    <3> QED
      BY <1>1, <2>2, <3>1
  <2> QED
    BY <1>8, <2>1, <2>2 DEF Cancelled
<1>9. CASE CleanupCancelled(o)
  <2>1. CASE UNCHANGED obj
    BY <2>1, SameDims
  <2>2. CASE job[o].stage = "close" /\ Break(o, Answerless(job[o].of, TRUE))
    <3> DEFINE objects == Answerless(job[o].of, TRUE)
    <3>1. job[o].of \in Objects /\ job[o].stage \in Acting /\ o \in Tasks
      BY <2>2 DEF Acting
    <3>2. /\ Has(objects, Objects)
          /\ \A r \in Objects : /\ IsSession(objects[r]) /\ objects[r].offerSent = obj[r].offerSent
                                 /\ objects[r].released = obj[r].released
                                 /\ objects[r].failed = obj[r].failed
      BY <3>1, AnswerlessKeeps, AnswerlessDims
    <3> HIDE DEF objects
    <3>3. Break(o, objects)
      BY <2>2 DEF objects
    <3> QED
      BY <3>1, <3>2, <3>3, EndDims
  <2>3. CASE job[o].stage = "release" /\ Break(o, obj)
    BY <2>3, EndDims DEF Acting
  <2> QED
    BY <1>9, <2>1, <2>2, <2>3 DEF CleanupCancelled
<1>10. CASE OldCleaned(o) \/ Acquired(o) \/ Undone(o) \/ SleepEnds(o) \/ Aborted(o) \/ Released(o)
  BY <1>10, SameDims DEF OldCleaned, Acquired, Undone, SleepEnds, Aborted, Released, provider
<1> QED
  BY <1>3, <1>4, <1>6, <1>7, <1>8, <1>9, <1>10 DEF OfferStep

LEMMA OtherDims ==
  ASSUME WInv, [Next]_vars, ~(\E o \in Offers : Begin(o) \/ OfferStep(o))
  PROVE  Dims
<1> USE SessionFacts
<1>1. ASSUME NEW t \in Tasks, CleanupStep(t) PROVE Dims
  <2>1. CASE SocketClosed(t)
    <3>0. job[t].stage \in Acting /\ job[t].of \in Objects
      BY <2>1 DEF SocketClosed, Acting
    <3>1. ASSUME NEW open \in BOOLEAN, \/ obj' = Answerless(job[t].of, open)
                                       \/ Succeed(t, Answerless(job[t].of, open))
                                       \/ Break(t, Answerless(job[t].of, open))
          PROVE  Dims
      <4>1. CASE obj' = Answerless(job[t].of, open)
        BY <3>0, <4>1, AnswerlessDims DEF Dims, Live
      <4> QED
        BY <3>0, <3>1, <4>1, AnswerlessKeeps, AnswerlessDims, EndDims
    <3> QED
      BY <2>1, <3>1 DEF SocketClosed
  <2>2. CASE ViewerReleased(t)
    BY <2>2, EndDims DEF ViewerReleased, Acting
  <2> QED
    BY <1>1, <2>1, <2>2 DEF CleanupStep
<1>2. ASSUME NEW s \in Objects, NEW answer, NEW x, x = [obj[s] EXCEPT !.answer = answer] \/ x = obj[s],
             Unread(s, x)
      PROVE  Dims
  <2>1. /\ IsSession(x) /\ x.offerSent = obj[s].offerSent /\ x.released = obj[s].released
        /\ x.failed = obj[s].failed
    BY <1>2 DEF IsSession, Has
  <2>2. ASSUME NEW reader, NEW y, y = [x EXCEPT !.reader = reader]
        PROVE  /\ IsSession(y) /\ y.offerSent = obj[s].offerSent /\ y.released = obj[s].released
               /\ y.failed = obj[s].failed
    BY <2>1, <2>2 DEF IsSession, Has
  <2>3. ASSUME NEW y, IsSession(y), y.offerSent = obj[s].offerSent, y.released = obj[s].released,
               y.failed = obj[s].failed, NEW objects, objects = [obj EXCEPT ![s] = y]
        PROVE  /\ Has(objects, Objects)
               /\ \A r \in Objects : /\ IsSession(objects[r]) /\ objects[r].offerSent = obj[r].offerSent
                                      /\ objects[r].released = obj[r].released
                                      /\ objects[r].failed = obj[r].failed
    BY <2>3 DEF Has
  <2>4. CASE obj' = [obj EXCEPT ![s] = [x EXCEPT !.reader = "done"]]
    <3> DEFINE y == [x EXCEPT !.reader = "done"]
    <3>0. /\ IsSession(y) /\ y.offerSent = obj[s].offerSent /\ y.released = obj[s].released
          /\ y.failed = obj[s].failed
      BY <2>2
    <3> HIDE DEF y
    <3>1. \A r \in Objects : /\ obj'[r].offerSent = obj[r].offerSent
                             /\ obj'[r].released = obj[r].released /\ obj'[r].failed = obj[r].failed
      BY <2>3, <2>4, <3>0 DEF y
    <3> QED
      BY <3>1 DEF Dims, Live
  <2>5. CASE Enter(s, s, TRUE, [obj EXCEPT ![s] = [x EXCEPT !.reader = "cleaning"]])
    <3> DEFINE y == [x EXCEPT !.reader = "cleaning"]
               objects == [obj EXCEPT ![s] = y]
    <3>1. /\ IsSession(y) /\ y.offerSent = obj[s].offerSent /\ y.released = obj[s].released
          /\ y.failed = obj[s].failed
      BY <2>2
    <3>2. Enter(s, s, TRUE, objects)
      BY <2>5
    <3> HIDE DEF y
    <3>3. /\ Has(objects, Objects)
          /\ \A r \in Objects : /\ IsSession(objects[r]) /\ objects[r].offerSent = obj[r].offerSent
                                 /\ objects[r].released = obj[r].released
                                 /\ objects[r].failed = obj[r].failed
      BY <2>3, <3>1
    <3> HIDE DEF objects
    <3> QED
      BY <3>2, <3>3, EnterDims
  <2> QED
    BY <1>2, <2>4, <2>5 DEF Unread
<1>3. ASSUME NEW s \in Objects, ReaderStep(s) \/ Remote(s) PROVE Dims
  <2>1. CASE ReadCancelled(s) \/ \E kind \in {"retry", "fatal"} : ReadEnds(s, kind)
    BY <1>2, <2>1 DEF ReadCancelled, ReadEnds
  <2>2. CASE ReaderEnds(s) \/ ReadAnswer(s)
    <3>1. \A r \in Objects : /\ obj'[r].offerSent = obj[r].offerSent
                             /\ obj'[r].released = obj[r].released /\ obj'[r].failed = obj[r].failed
      BY <2>2 DEF ReaderEnds, ReadAnswer, IsSession, Has
    <3> QED
      BY <3>1 DEF Dims, Live
  <2> QED
    BY <1>3, <2>1, <2>2 DEF ReaderStep, Remote
<1>4. ASSUME NEW k \in Cleaners, CloseSession(k) \/ Reconcile(k) \/ Start(k) \/ Resumed(k)
      PROVE  Dims
  <2>1. CASE Start(k)
    <3>1. job[k].of \in Objects
      BY <2>1 DEF Start
    <3> QED
      BY <2>1, <3>1, EnterDims DEF Start
  <2> QED
    BY <1>4, <2>1, SameDims DEF CloseSession, Reconcile, Resumed
<1>5. CASE CloseEntry \/ Gathered \/ Candidate \/ Publication \/ UNCHANGED vars
           \/ \E o \in Offers : LoseLease(o)
  BY <1>5, SameDims DEF CloseEntry, Gathered, Candidate, Publication, LoseLease, vars
<1> QED
  BY <1>1, <1>3, <1>4, <1>5 DEF Next, Cleaners

\* A step that writes nothing to a socket, registers nobody and begins no attempt.
Quieter ==
  /\ UNCHANGED <<wire, since, candidates, attempt>> /\ session' \in {None, session} /\ Dims
  /\ \A o \in Offers : pc'[o] = "send" => pc[o] = "send" /\ local'[o] = local[o]
  /\ UNCHANGED <<pending, negotiation>> \/ negotiation' = None

LEMMA QuieterKeeps == ASSUME WInv, CandInv, Sole', Quieter PROVE CandInv'
<1>1. negotiation' # None => Since(pending, since[negotiation], candidates)'
  BY DEF Quieter, CandInv, Since
<1>2. ASSUME NEW o \in Offers PROVE SendOK(o)' /\ (since[o] \in 0..candidates)'
  <2>1. ASSUME pc'[o] = "send"
        PROVE  pc[o] = "send" /\ local'[o] = local[o] /\ pending' = pending
    BY <2>1, Kinds DEF Quieter, Sole, Registered
  <2>2. pc[o] = "send" => local[o].state \in Objects
    BY SessionFacts DEF WInv, OfferOK
  <2>3. (since[o] \in 0..candidates)'
    BY DEF Quieter, CandInv
  <2>4. ASSUME pc'[o] = "send" PROVE SendOK(o)'
    <3>1. /\ pc[o] = "send" /\ local'[o] = local[o] /\ pending' = pending /\ wire' = wire
          /\ local[o].state \in Objects /\ SendOK(o)
      BY <2>1, <2>2, <2>4 DEF Quieter, CandInv
    <3>2. ~obj[local[o].state].offerSent
      BY <3>1 DEF SendOK
    <3>3. ~obj'[local[o].state].offerSent
      BY <3>1, <3>2 DEF Quieter, Dims
    <3> QED
      BY <3>1, <3>3 DEF SendOK
  <2> QED
    BY <2>3, <2>4 DEF SendOK
<1>3. CandidatesInOrder'
  BY SessionFacts DEF Quieter, CandInv, CandidatesInOrder, Dims, Live, Since, Owner
<1> QED
  BY <1>1, <1>2, <1>3 DEF Quieter, CandInv, Dims

LEMMA HandlersQuiet ==
  ASSUME WInv, NEW o \in Offers, Begin(o) \/ OfferStep(o), ~Connected(o), ~Sent(o), ~Registers(o)
  PROVE  Quieter
<1> USE DEF provider, spent
<1>0. pc \in [Offers -> Places] /\ Has(local, Offers)
  BY DEF WInv, Typed, OffersTyped
<1>1. UNCHANGED <<wire, candidates, attempt>> /\ session' \in {None, session}
  BY DEF Begin, OfferStep, PreviousEnds, OldCleaned, Acquired, SendFails, ConnectFails, Answered,
     Undone, SleepEnds, Cancelled, CleanupCancelled, Aborted, Released
<1>2. UNCHANGED since /\ (UNCHANGED <<pending, negotiation>> \/ negotiation' = None)
  BY HandlerMoves DEF Moves, Goes, Ends, Joins, Replaces
<1>3. pc'[o] # "send" \/ (UNCHANGED <<pc, local>>)
  BY <1>0 DEF Begin, OfferStep, PreviousEnds, ReplaceOld, Register, OldCleaned, Acquired, SendFails,
     ConnectFails, Fail, Answered, Undone, SleepEnds, Cancelled, CleanupCancelled, Aborted,
     Released, Leave, Finish, Goto
<1>4. \A p \in Offers \ {o} : local'[p] = local[p] /\ pc'[p] = pc[p]
  BY <1>0 DEF Begin, OfferStep, PreviousEnds, ReplaceOld, Register, OldCleaned, Acquired, SendFails,
     ConnectFails, Fail, Answered, Undone, SleepEnds, Cancelled, CleanupCancelled, Aborted,
     Released, Leave, Finish, Goto, Has
<1>5. Dims
  BY HandlerDims
<1> QED
  BY <1>1, <1>2, <1>3, <1>4, <1>5 DEF Quieter

LEMMA OthersQuiet ==
  ASSUME WInv, [Next]_vars, ~(\E o \in Offers : Begin(o) \/ OfferStep(o)), ~Candidate
  PROVE  Quieter
<1> DEFINE Same == UNCHANGED <<wire, candidates, pending>>
<1> USE DEF provider, spent
<1>1. ASSUME NEW o \in Offers, LoseLease(o) PROVE Same
  BY <1>1 DEF LoseLease
<1>2. ASSUME NEW t \in Tasks, CleanupStep(t) PROVE Same
  BY <1>2 DEF CleanupStep, SocketClosed, ViewerReleased
<1>3. ASSUME NEW s \in Objects, ReaderStep(s) \/ Remote(s)
      PROVE  Same
  BY <1>3 DEF ReaderStep, Remote, ReadCancelled, ReaderEnds, ReadAnswer, ReadEnds
<1>4. ASSUME NEW k \in Cleaners, CloseSession(k) \/ Reconcile(k) \/ Start(k) \/ Resumed(k)
      PROVE  Same
  BY <1>4 DEF CloseSession, Reconcile, Start, Resumed
<1>5. ASSUME CloseEntry \/ Gathered \/ Publication \/ UNCHANGED vars PROVE Same
  BY <1>5 DEF CloseEntry, Gathered, Publication, vars
<1> HIDE DEF Same
<1>6. Same
  BY <1>1, <1>2, <1>3, <1>4, <1>5 DEF Next, Cleaners
<1>7. UNCHANGED <<negotiation, pc, local, attempt, since>>
  BY OthersStay
<1>8. session' \in {None, session}
  BY SessionMoves DEF OfferStep
<1> QED
  BY <1>6, <1>7, <1>8, OtherDims DEF Quieter, Same

LEMMA RegistersKeeps == ASSUME WInv, CandInv, Sole', NEW o \in Offers, Registers(o) PROVE CandInv'
<1> USE DEF Registers
<1>0. /\ pending \in Seq(1..candidates) /\ candidates \in Nat /\ pc \in [Offers -> Places]
      /\ attempt[o] = 0 /\ Has(since, Offers)
  BY DEF WInv, Typed, ProviderTyped, OffersTyped, OfferOK, Before, CandInv
<1>1. since'[o] = candidates /\ \A p \in Offers \ {o} : since'[p] = since[p]
  BY <1>0 DEF Has
<1>2. Since(pending, since[negotiation], candidates)'
  BY <1>0, <1>1 DEF Since
<1>3. ASSUME NEW p \in Offers PROVE SendOK(p)' /\ (since[p] \in 0..candidates)'
  <2>1. pc'[p] # "send"
    BY <1>0 DEF Sole, Registered
  <2> QED
    BY <1>0, <1>1, <2>1 DEF SendOK, CandInv
<1>4. CandidatesInOrder'
  <2>1. ASSUME session # None, obj[session].offerSent PROVE Owner(session) \in Offers \ {o}
    <3>1. session[1] \in Offers /\ session[2] \in 1..MaxAttempts /\ session[2] <= attempt[session[1]]
      BY <2>1, SessionFacts DEF CandInv, Objects
    <3> QED
      BY <1>0, <3>1, BoundsAssumption DEF Owner
  <2> QED
    BY <1>1, <2>1 DEF CandidatesInOrder, CandInv, Since, Owner
<1> QED
  BY <1>0, <1>2, <1>3, <1>4 DEF CandInv, Has

LEMMA ConnectedKeeps == ASSUME WInv, CandInv, Sole, Sole', NEW o \in Offers, Connected(o) PROVE CandInv'
<1> DEFINE s == <<o, attempt[o] + 1>>
<1>0. /\ pc[o] = "connect" /\ pc' = [pc EXCEPT ![o] = "send"] /\ session' = s
      /\ attempt' = [attempt EXCEPT ![o] = attempt[o] + 1]
      /\ local' = [local EXCEPT ![o].state = s, ![o].index = 0]
      /\ obj' = [obj EXCEPT ![s] = Fresh] /\ wire' = [wire EXCEPT ![s] = <<0>>]
      /\ UNCHANGED <<negotiation, pending, since, candidates>>
  BY DEF Connected, Goto, spent
<1>1. /\ pc \in [Offers -> Places] /\ attempt \in [Offers -> 0..MaxAttempts] /\ Has(local, Offers)
      /\ IsLocal(local[o]) /\ Has(obj, Objects) /\ Has(wire, Objects) /\ pending \in Seq(1..candidates)
  BY SessionFacts DEF WInv, Typed, ProviderTyped, OffersTyped, OfferOK, CandInv
<1>2. s \in Objects
  <2>1. attempt[o] = 0 \/ attempt[o] < left.attempts
    BY <1>0 DEF WInv, OfferOK
  <2>2. left.attempts \in 0..MaxAttempts
    BY DEF WInv, Typed, OthersTyped, IsLeft
  <2>3. attempt[o] + 1 \in 1..MaxAttempts
    BY <1>1, <2>1, <2>2, BoundsAssumption
  <2> QED
    BY <2>3 DEF Objects
<1>3. /\ local'[o].state = s /\ local'[o].index = 0
      /\ obj'[s] = Fresh /\ wire'[s] = <<0>> /\ Has(wire', Objects)
      /\ \A r \in Objects \ {s} : obj'[r] = obj[r] /\ wire'[r] = wire[r]
      /\ attempt'[o] = attempt[o] + 1 /\ \A p \in Offers \ {o} : attempt'[p] = attempt[p]
  BY <1>0, <1>1, <1>2 DEF IsLocal, Has
<1>4. ~Fresh.offerSent /\ s[2] = attempt'[s[1]]
  BY <1>3 DEF Fresh
<1> HIDE DEF s
<1>5. ASSUME NEW p \in Offers PROVE SendOK(p)'
  <2>1. CASE p = o
    <3>1. <<0>> \in Seq(Nat) /\ Len(<<0>>) = 1 /\ <<0>>[1] = 0 /\ Len(pending') \in Nat
      BY <1>0, <1>1
    <3>2. /\ local'[o].index \in 0..Len(pending') /\ Len(wire'[s]) = local'[o].index + 1
          /\ wire'[s][1] = 0 /\ 1..local'[o].index = {} /\ ~obj'[s].offerSent
      BY <1>3, <1>4, <3>1
    <3> QED
      BY <1>3, <2>1, <3>2 DEF SendOK
  <2>2. CASE p # o
    <3>1. negotiation = o
      BY <1>0 DEF Sole, Registered
    <3>2. pc'[p] # "send"
      BY <1>0, <2>2, <3>1 DEF Sole, Registered
    <3> QED
      BY <3>2 DEF SendOK
  <2> QED
    BY <2>1, <2>2
<1>6. ASSUME NEW r \in Objects PROVE wire'[r] \in Seq(Nat) /\ (obj'[r].offerSent => r[2] <= attempt'[r[1]])
  <2>1. CASE r = s
    <3>1. <<0>> \in Seq(Nat)
      OBVIOUS
    <3> QED
      BY <1>3, <1>4, <2>1, <3>1
  <2>2. CASE r # s
    <3>1. r[1] \in Offers /\ r[2] \in 1..MaxAttempts /\ attempt[r[1]] \in Nat /\ attempt[r[1]] <= attempt'[r[1]]
          /\ attempt'[r[1]] \in Nat
      BY <1>1, <1>3, BoundsAssumption DEF Objects
    <3> QED
      BY <1>3, <2>2, <3>1, BoundsAssumption DEF CandInv
  <2> QED
    BY <2>1, <2>2
<1>7. CandidatesInOrder'
  BY <1>0, <1>3, <1>4 DEF CandidatesInOrder
<1>8. negotiation' # None => Since(pending, since[negotiation], candidates)'
  BY <1>0 DEF CandInv, Since
<1>9. \A p \in Offers : (since[p] \in 0..candidates)'
  BY <1>0 DEF CandInv
<1> QED
  BY <1>0, <1>3, <1>5, <1>6, <1>7, <1>8, <1>9 DEF CandInv

LEMMA Numbers == ASSUME NEW n \in Nat, NEW q \in Seq(1..n) PROVE q \in Seq(Nat) /\ Len(q) \in Nat
<1>1. \A j \in 1..Len(q) : q[j] \in Nat
  OBVIOUS
<1> QED
  BY <1>1

\* Queues: one more candidate at the end of a queue, one more of a queue on its socket, and a
\* socket that has taken all of its queue after the offer.
LEMMA OneMore ==
  ASSUME NEW last \in Nat, NEW first \in 0..last, NEW q \in Seq(Nat), Since(q, first, last)
  PROVE  /\ Append(q, last + 1) \in Seq(Nat) /\ Append(q, last + 1) # <<>>
         /\ q # <<>> => Head(Append(q, last + 1)) = Head(q)
         /\ Since(Append(q, last + 1), first, last + 1)
<1> DEFINE older == Len(q) - (last - first)
           p == Append(q, last + 1)
<1>1. /\ p \in Seq(Nat) /\ Len(p) = Len(q) + 1 /\ Len(q) \in Nat /\ p[Len(q) + 1] = last + 1
      /\ p # <<>> /\ \A i \in 1..Len(q) : p[i] = q[i]
  OBVIOUS
<1>2. older >= 0 /\ \A i \in 1..Len(q) : IF i <= older THEN q[i] <= first ELSE q[i] = first + i - older
  BY DEF Since
<1>3. Len(p) - (last + 1 - first) = older
  BY <1>1
<1>4. older \in Nat /\ first + (Len(q) + 1) - older = last + 1 /\ older <= Len(q)
  BY <1>1, <1>2
<1>5. q # <<>> => Head(p) = Head(q)
  OBVIOUS
<1> HIDE DEF older, p
<1>6. ASSUME NEW i \in 1..Len(p)
      PROVE  IF i <= older THEN p[i] <= first ELSE p[i] = first + i - older
  <2>1. CASE i = Len(q) + 1
    BY <1>1, <1>4, <2>1, SMTT(30)
  <2>2. CASE i # Len(q) + 1
    <3>1. i \in 1..Len(q)
      BY <1>1, <2>2
    <3> QED
      BY <1>1, <1>2, <3>1
  <2> QED
    BY <2>1, <2>2
<1>7. Since(p, first, last + 1)
  BY <1>2, <1>3, <1>6 DEF Since
<1> QED
  BY <1>1, <1>5, <1>7 DEF p

LEMMA OneTaken ==
  ASSUME NEW q \in Seq(Nat), NEW w \in Seq(Nat), NEW n \in Nat, n + 1 <= Len(q), Len(w) = n + 1,
         w[1] = 0, \A j \in 1..n : w[j + 1] = q[j]
  PROVE  LET v == Append(w, q[n + 1])
         IN /\ v \in Seq(Nat) /\ Len(v) = n + 2 /\ v[1] = 0
            /\ \A j \in 1..(n + 1) : v[j + 1] = q[j]
<1> DEFINE v == Append(w, q[n + 1])
<1>1. n + 1 \in 1..Len(q)
  OBVIOUS
<1>2. q[n + 1] \in Nat
  BY <1>1
<1>3. v \in Seq(Nat) /\ Len(v) = n + 2 /\ v[n + 2] = q[n + 1] /\ \A j \in 1..(n + 1) : v[j] = w[j]
  BY <1>2
<1> HIDE DEF v
<1>4. ASSUME NEW j \in 1..(n + 1) PROVE v[j + 1] = q[j]
  <2>1. CASE j = n + 1
    BY <1>3, <2>1
  <2>2. CASE j # n + 1
    <3>1. j \in 1..n /\ j + 1 \in 1..(n + 1)
      BY <2>2
    <3> QED
      BY <1>3, <3>1
  <2> QED
    BY <2>1, <2>2
<1>5. v[1] = 0
  <2>1. 1 \in 1..(n + 1)
    OBVIOUS
  <2> QED
    BY <1>3, <2>1
<1>6. v \in Seq(Nat) /\ Len(v) = n + 2
  BY <1>3
<1> QED
  BY ONLY <1>4, <1>5, <1>6 DEF v

LEMMA AllTaken ==
  ASSUME NEW last \in Nat, NEW first \in 0..last, NEW q \in Seq(Nat), NEW w \in Seq(Nat),
         Since(q, first, last), Len(w) = Len(q) + 1, w[1] = 0, \A j \in 1..Len(q) : w[j + 1] = q[j]
  PROVE  w # <<>> /\ Head(w) = 0 /\ Since(w, first, last)
<1> DEFINE older == Len(q) - (last - first)
<1>1. Len(q) \in Nat /\ w # <<>> /\ Head(w) = 0
  OBVIOUS
<1>2. older \in Nat /\ \A j \in 1..Len(q) : IF j <= older THEN q[j] <= first ELSE q[j] = first + j - older
  BY <1>1 DEF Since
<1>3. Len(w) - (last - first) = older + 1
  BY <1>1
<1> HIDE DEF older
<1>4. ASSUME NEW j \in 1..Len(w)
      PROVE  IF j <= older + 1 THEN w[j] <= first ELSE w[j] = first + j - (older + 1)
  <2>1. CASE j = 1
    BY <1>2, <2>1
  <2>2. CASE j # 1
    <3>1. PICK i \in 1..Len(q) : j = i + 1
      <4>1. j - 1 \in 1..Len(q) /\ j = (j - 1) + 1
        BY <1>1, <2>2
      <4> QED
        BY <4>1
    <3>2. w[j] = q[i] /\ q[i] \in Nat
      BY <3>1, SMTT(30)
    <3>3. CASE i <= older
      <4>1. q[i] <= first
        BY <1>2, <3>3
      <4>2. j <= older + 1
        BY <1>1, <1>2, <3>1, <3>3
      <4> QED
        BY <3>2, <4>1, <4>2
    <3>4. CASE ~(i <= older)
      <4>1. q[i] = first + i - older
        BY <1>2, <3>4
      <4>2. ~(j <= older + 1) /\ first + j - (older + 1) = first + i - older
        BY <1>1, <1>2, <3>1, <3>4
      <4> QED
        BY <3>2, <4>1, <4>2
    <3> QED
      BY <3>3, <3>4
  <2> QED
    BY <2>1, <2>2
<1>5. Since(w, first, last)
  <2> DEFINE after == older + 1
  <2>1. after >= 0 /\ Len(w) - (last - first) = after
    BY <1>2, <1>3
  <2>2. \A j \in 1..Len(w) : IF j <= after THEN w[j] <= first ELSE w[j] = first + j - after
    BY <1>4
  <2> HIDE DEF after
  <2> QED
    BY <2>1, <2>2 DEF Since
<1> QED
  BY <1>1, <1>5

LEMMA SentKeeps == ASSUME WInv, CandInv, Sole, NEW o \in Offers, Sent(o) PROVE CandInv'
<1> DEFINE s == local[o].state
           i == local[o].index + 1
<1>0. /\ pc[o] = "send" /\ SendOK(o) /\ s \in Objects /\ s[1] = o /\ negotiation = o /\ o # None
  BY SessionFacts, Kinds DEF Sent, CandInv, WInv, OfferOK, Sole, Registered
<1>1. /\ pc \in [Offers -> Places] /\ Has(local, Offers) /\ IsLocal(local[o]) /\ Has(obj, Objects)
      /\ IsSession(obj[s]) /\ Has(wire, Objects) /\ wire[s] \in Seq(Nat)
      /\ pending \in Seq(1..candidates) /\ candidates \in Nat /\ since[o] \in 0..candidates
      /\ s[2] <= attempt[s[1]]
  <2>1. s \in {o} \X (1..attempt[o])
    BY <1>0, Kinds DEF WInv, OfferOK
  <2> QED
    BY <1>0, <2>1, SessionFacts DEF WInv, Typed, ProviderTyped, OffersTyped, OfferOK, CandInv
<1>2. UNCHANGED <<session, negotiation, pending, attempt, since, candidates>>
  BY DEF Sent, provider, spent
<1>3. \A p \in Offers \ {o} : pc[p] # "send"
  BY <1>0 DEF Sole, Registered
<1>4. negotiation' # None => Since(pending, since[negotiation], candidates)'
  BY <1>2 DEF CandInv, Since
<1>5. /\ local[o].index \in 0..Len(pending) /\ Len(wire[s]) = local[o].index + 1 /\ Len(pending) \in Nat
      /\ wire[s][1] = 0 /\ (\A j \in 1..local[o].index : wire[s][j + 1] = pending[j]) /\ ~obj[s].offerSent
  BY <1>0, <1>1 DEF SendOK
<1>6. CASE /\ i <= Len(pending) /\ local' = [local EXCEPT ![o].index = i]
           /\ wire' = [wire EXCEPT ![s] = Append(wire[s], pending[i])] /\ UNCHANGED <<pc, obj>>
  <2>1. /\ local'[o].state = s /\ local'[o].index = i
        /\ wire'[s] = Append(wire[s], pending[i]) /\ Has(wire', Objects)
        /\ \A r \in Objects \ {s} : wire'[r] = wire[r]
    BY <1>0, <1>1, <1>6 DEF IsLocal, Has
  <2>2. pending \in Seq(Nat) /\ local[o].index \in Nat /\ i = local[o].index + 1
    BY <1>1, <1>5, Numbers
  <2>3. /\ wire'[s] \in Seq(Nat) /\ Len(wire'[s]) = i + 1 /\ wire'[s][1] = 0
        /\ \A j \in 1..i : wire'[s][j + 1] = pending[j]
    <3> DEFINE n == local[o].index
               w == wire[s]
    <3>1. /\ n \in Nat /\ n + 1 <= Len(pending) /\ Len(w) = n + 1 /\ w \in Seq(Nat) /\ w[1] = 0
          /\ \A j \in 1..n : w[j + 1] = pending[j]
      BY <1>1, <1>5, <1>6, <2>2
    <3>2. wire'[s] = Append(w, pending[n + 1])
      BY <2>1
    <3>3. i = n + 1
      OBVIOUS
    <3> DEFINE v == Append(w, pending[n + 1])
    <3> HIDE DEF s, n, w, i
    <3>4. /\ v \in Seq(Nat) /\ Len(v) = n + 2 /\ v[1] = 0
          /\ \A j \in 1..(n + 1) : v[j + 1] = pending[j]
      BY <2>2, <3>1, OneTaken
    <3>5. wire'[s] = v
      BY <3>2
    <3> HIDE DEF v
    <3>6. i + 1 = n + 2
      BY <3>1, <3>3
    <3> QED
      BY <3>3, <3>4, <3>5, <3>6
  <2> HIDE DEF s, i
  <2>4. SendOK(o)'
    <3>1. i \in 0..Len(pending)
      BY <1>5, <1>6, <2>2
    <3> QED
      BY <1>2, <1>5, <1>6, <2>1, <2>3, <3>1 DEF SendOK
  <2>5. CandidatesInOrder'
    <3>1. session # None /\ obj[session].offerSent => session # s /\ wire'[session] = wire[session]
      BY <1>5, <2>1, SessionFacts
    <3> QED
      BY <1>2, <1>6, <3>1 DEF CandidatesInOrder, CandInv, Since
  <2> QED
    BY <1>2, <1>3, <1>4, <1>6, <2>1, <2>3, <2>4, <2>5 DEF CandInv, SendOK
<1>7. CASE /\ i > Len(pending) /\ obj' = [obj EXCEPT ![s].offerSent = TRUE]
           /\ pc' = [pc EXCEPT ![o] = "answer"] /\ UNCHANGED <<local, wire>>
  <2>1. \A r \in Objects \ {s} : obj'[r] = obj[r]
    BY <1>1, <1>7 DEF Has
  <2>2. \A p \in Offers : pc'[p] # "send"
    BY <1>1, <1>3, <1>7
  <2>3. wire[s] # <<>> /\ Head(wire[s]) = 0 /\ Since(wire[s], since[o], candidates)
    <3> HIDE DEF s
    <3>1. local[o].index = Len(pending) /\ pending \in Seq(Nat)
      BY <1>1, <1>5, <1>7, Numbers DEF i
    <3>2. Since(pending, since[o], candidates)
      BY <1>0 DEF CandInv
    <3> QED
      BY <1>1, <1>5, <3>1, <3>2, AllTaken
  <2>4. CandidatesInOrder'
    <3>1. CASE session = s
      BY <1>0, <1>2, <1>7, <2>3, <3>1 DEF CandidatesInOrder, Since, Owner
    <3>2. CASE session # s
      <4>1. session # None => obj'[session] = obj[session]
        BY <2>1, <3>2, SessionFacts
      <4> QED
        BY <1>2, <1>7, <4>1 DEF CandidatesInOrder, CandInv, Since
    <3> QED
      BY <3>1, <3>2
  <2>5. \A p \in Offers : SendOK(p)'
    BY <2>2 DEF SendOK
  <2>6. \A r \in Objects : obj'[r].offerSent => r[2] <= attempt'[r[1]]
    BY <1>1, <1>2, <2>1 DEF CandInv
  <2> QED
    BY <1>2, <1>4, <1>7, <2>4, <2>5, <2>6 DEF CandInv
<1> QED
  BY <1>6, <1>7 DEF Sent, Goto

LEMMA CandidateKeeps == ASSUME WInv, CandInv, Sole, Candidate PROVE CandInv'
<1> DEFINE c == candidates + 1
           live == session # None /\ ~obj[session].released /\ obj[session].offerSent
<1>0. /\ candidates' = c /\ UNCHANGED <<session, negotiation, pc, local, attempt, obj, since>>
      /\ pending' = IF live \/ negotiation # None THEN Append(pending, c) ELSE pending
      /\ wire' = [r \in Objects |-> IF live /\ r = session THEN Append(wire[r], c) ELSE wire[r]]
  BY DEF Candidate
<1>1. /\ candidates \in Nat /\ pending \in Seq(1..candidates) /\ Has(wire, Objects) /\ Has(since, Offers)
      /\ negotiation \in Offers \cup {None} /\ session \in Objects \cup {None}
      /\ \A o \in Offers : since[o] \in 0..candidates
      /\ \A r \in Objects : wire[r] \in Seq(Nat)
  BY DEF WInv, Typed, ProviderTyped, CandInv
<1>2. pending \in Seq(Nat) /\ Len(pending) \in Nat
  BY <1>1, Numbers
<1>3. negotiation' # None => Since(pending', since'[negotiation'], candidates')
  <2> SUFFICES ASSUME negotiation # None
               PROVE  Since(Append(pending, c), since[negotiation], c)
    BY <1>0
  <2>1. Since(pending, since[negotiation], candidates) /\ since[negotiation] \in 0..candidates
    BY <1>1 DEF CandInv
  <2> QED
    BY <1>1, <1>2, <2>1, OneMore
<1>4. CandidatesInOrder'
  <2> SUFFICES ASSUME session # None, obj[session].offerSent, ~obj[session].released, ~obj[session].failed
               PROVE  /\ wire'[session] # <<>> /\ Head(wire'[session]) = 0
                      /\ Since(wire'[session], since[Owner(session)], c)
    BY <1>0 DEF CandidatesInOrder, Owner
  <2> DEFINE w == wire[session]
  <2>1. w # <<>> /\ Head(w) = 0 /\ Since(w, since[Owner(session)], candidates)
    BY DEF CandInv, CandidatesInOrder
  <2>2. w \in Seq(Nat) /\ since[Owner(session)] \in 0..candidates
    BY <1>1 DEF Owner, Objects
  <2>3. wire'[session] = Append(w, candidates + 1)
    BY <1>0, <1>1
  <2> HIDE DEF w
  <2> QED
    BY <1>1, <2>1, <2>2, <2>3, OneMore, SMTT(30)
<1>5. ASSUME NEW o \in Offers, pc[o] = "send" PROVE SendOK(o)'
  <2> DEFINE s == local[o].state
  <2>1. negotiation = o /\ o # None
    BY <1>5, Kinds DEF Sole, Registered
  <2>2. s \in Objects /\ SendOK(o)
    BY <1>5, SessionFacts DEF CandInv, WInv, OfferOK
  <2>3. wire'[s] = wire[s]
    BY <1>0, <1>5, <2>2 DEF SendOK
  <2>4. Len(pending') = Len(pending) + 1 /\ \A j \in 1..Len(pending) : pending'[j] = pending[j]
    BY <1>0, <1>1, <1>2, <2>1
  <2>5. local[o].index \in 0..Len(pending') /\ \A j \in 1..local[o].index : pending'[j] = pending[j]
    BY <1>2, <1>5, <2>2, <2>4 DEF SendOK
  <2> QED
    BY <1>0, <1>5, <2>2, <2>3, <2>5 DEF SendOK
<1>6. \A o \in Offers : SendOK(o)'
  BY <1>0, <1>5 DEF SendOK
<1>7. \A r \in Objects : wire'[r] \in Seq(Nat)
  BY <1>0, <1>1
<1>8. \A o \in Offers : since'[o] \in 0..candidates'
  BY <1>0, <1>1
<1>9. Has(wire', Objects)
  BY <1>0 DEF Has
<1> QED
  BY <1>0, <1>3, <1>4, <1>6, <1>7, <1>8, <1>9 DEF CandInv

LEMMA CandStep == WInv /\ CandInv /\ Sole /\ Sole' /\ [Next]_vars => CandInv'
<1> SUFFICES ASSUME WInv, CandInv, Sole, Sole', [Next]_vars PROVE CandInv'
  OBVIOUS
<1>1. ASSUME NEW o \in Offers, Begin(o) \/ OfferStep(o) PROVE CandInv'
  BY <1>1, HandlersQuiet, QuieterKeeps, RegistersKeeps, ConnectedKeeps, SentKeeps
<1>2. CASE ~(\E o \in Offers : Begin(o) \/ OfferStep(o))
  BY <1>2, OthersQuiet, QuieterKeeps, CandidateKeeps
<1> QED
  BY <1>1, <1>2

\* Each socket gets the offer and then every candidate that came since its negotiation began,
\* once and in order (async_on_webrtc_candidate and the flush of a handler), for any number of
\* candidates, attempts and cleanups, and offers of an id that are not three at a time.
THEOREM CandidatesArrive == AtMostTwo /\ Spec => []CandidatesInOrder
<1> SUFFICES ASSUME AtMostTwo PROVE Spec => []CandidatesInOrder
  OBVIOUS
<1>1. Init => SoleInv
  BY Kinds DEF Init, SoleInv, Sole, Registered
<1>2. Init => CandInv
  <2> SUFFICES ASSUME Init PROVE CandInv
    OBVIOUS
  <2>1. \A s \in Objects : ~obj[s].offerSent
    BY DEF Init, Fresh
  <2> QED
    BY <2>1 DEF Init, CandInv, SendOK, CandidatesInOrder, Has
<1>3. WInv /\ SoleInv /\ [Next]_vars => SoleInv'
  BY SoleStep
<1>4. WInv /\ CandInv /\ SoleInv /\ SoleInv' /\ [Next]_vars => CandInv'
  BY CandStep DEF SoleInv
<1>5. CandInv => CandidatesInOrder
  BY DEF CandInv
<1> QED
  BY <1>1, <1>2, <1>3, <1>4, <1>5, Invariant, PTL DEF Spec
=============================================================================
