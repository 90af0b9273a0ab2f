----------------------------- MODULE RelayProofs -----------------------------
(***************************************************************************)
(* Theorems about the relayed events, for any number of stations, of       *)
(* handlers, of deliveries and of restarts.                                *)
(*                                                                         *)
(* The calls that EventGate lets through are dispatched once each and by   *)
(* increasing generation, however late and often they arrive.  The gate    *)
(* remembers a bounded number of keys; the argument is that it only        *)
(* forgets keys of a generation that it rejects by number, because a       *)
(* generation has no more call events than the gate has places.            *)
(***************************************************************************)
EXTENDS Relay, FiniteSetTheorems, SequenceTheorems, TLAPS

Steps == {"idle", "asked", "status", "stations", "sync"}
Statuses == [runtime : Nat, call : Nat]
CallsSent == [kind : {"call"}, runtime : Nat, name : CallEvents, generation : Nat]
MovesSent == [kind : {"monitor"}, runtime : Nat, station : Names, revision : Nat, listed : BOOLEAN]
Keys == Nat \X CallEvents
Gates == [runtime : Nat, highest : Nat, order : Seq(Keys)]
Calls == [runtime : Nat, generation : Nat, name : CallEvents]

\* What the bridge has and what it relayed.
BridgeTypes ==
  /\ bridge \in [runtime : Nat, revision : Nat, stations : [Names -> Nat]]
  /\ call \in Nat /\ media \in [Names -> Nat]
  /\ sent \subseteq CallsSent \cup MovesSent

\* What the tasks hold: one that handles an event has it.
TaskTypes ==
  /\ step \in [Refreshers -> Steps]
  /\ answer \in [Refreshers -> Statuses]
  /\ event = [t \in Refreshers |-> event[t]]
  /\ \A h \in Handlers : step[h] # "idle" => event[h] \in CallsSent \cup MovesSent
  /\ newest \in Refreshers /\ status \in Statuses

\* The runtimes that are seen: the gate is not ahead of the status, nor that of the bridge, and
\* the refresh that may publish does not take the status back.
RuntimesOK ==
  /\ status.runtime <= bridge.runtime
  /\ \A t \in Refreshers : step[t] = "status" => answer[t].runtime <= bridge.runtime
  /\ step[newest] = "status" => status.runtime <= answer[newest].runtime

\* The keys of the gate: no more than fit, each once, by generation.
KeysOK(g) ==
  /\ Len(g.order) <= Capacity
  /\ \A i, j \in DOMAIN g.order : i < j => g.order[i] # g.order[j]
  /\ \A i, j \in DOMAIN g.order : i < j => g.order[i][1] <= g.order[j][1]
  /\ \A i \in DOMAIN g.order : g.order[i][1] <= g.highest

Passed(c) == <<c.generation, c.name>>

\* A call that was dispatched is behind the gate: of an earlier runtime, of an earlier
\* generation, or with its key among those remembered.
Remembered(g, c) ==
  /\ c.runtime <= g.runtime
  /\ c.runtime = g.runtime =>
       /\ c.generation <= g.highest
       /\ c.generation = g.highest => \E k \in DOMAIN g.order : g.order[k] = Passed(c)

InOrder(d) ==
  \A i, j \in DOMAIN d :
    i < j /\ d[i].runtime = d[j].runtime => d[i] # d[j] /\ d[i].generation <= d[j].generation

GateSound(g, d) ==
  /\ g \in Gates /\ KeysOK(g)
  /\ d \in Seq(Calls)
  /\ \A i \in DOMAIN d : Remembered(g, d[i])
  /\ InOrder(d)

GateOK == gate.runtime <= status.runtime /\ GateSound(gate, dispatched)

IInv == BridgeTypes /\ TaskTypes /\ RuntimesOK /\ GateOK

-----------------------------------------------------------------------------
(* The gate                                                                *)

\* A gate with one key too many has keys of two generations: one generation has no more call
\* events than the gate has places.
LEMMA Crowded ==
  ASSUME NEW s \in Seq(Keys), Len(s) = Capacity + 1,
         \A i, j \in DOMAIN s : i < j => s[i] # s[j],
         \A i, j \in DOMAIN s : i < j => s[i][1] <= s[j][1]
  PROVE  s[1][1] < s[Len(s)][1]
<1>1. Capacity \in Nat /\ IsFiniteSet(CallEvents) /\ Cardinality(CallEvents) <= Capacity
  BY CapacityAssumption
<1>2. /\ DOMAIN s = 1..Len(s) /\ Len(s) \in Nat
      /\ s \in [1..Len(s) -> Keys]
  BY LenProperties
<1>3. 1 \in 1..Len(s) /\ Len(s) \in 1..Len(s)
  BY <1>1
<1>4. \A i \in 1..Len(s) : s[i][1] \in Nat /\ s[i][2] \in CallEvents /\ s[i] = <<s[i][1], s[i][2]>>
  BY <1>2 DEF Keys
<1>5. SUFFICES ASSUME s[1][1] >= s[Len(s)][1] PROVE FALSE
  BY <1>3, <1>4
<1> DEFINE f == [i \in 1..Len(s) |-> s[i][2]]
<1>6. \A i \in 1..Len(s) : s[i][1] = s[1][1]
  <2>1. TAKE i \in 1..Len(s)
  <2>2. s[1][1] <= s[i][1]
    <3>1. CASE i = 1
      BY <3>1, <1>4
    <3>2. CASE i # 1
      <4>1. 1 < i
        BY <3>2, <1>2
      <4> QED
        BY <4>1, <1>2, <1>3
    <3> QED
      BY <3>1, <3>2
  <2>3. s[i][1] <= s[Len(s)][1]
    <3>1. CASE i = Len(s)
      BY <3>1, <1>4
    <3>2. CASE i # Len(s)
      <4>1. i < Len(s)
        BY <3>2, <1>2
      <4> QED
        BY <4>1, <1>2, <1>3
    <3> QED
      BY <3>1, <3>2
  <2> QED
    BY <2>2, <2>3, <1>3, <1>4, <1>5
<1>7. IsFiniteSet(1..Len(s)) /\ Cardinality(1..Len(s)) = Capacity + 1
  <2>1. 1 \in Int /\ Len(s) \in Int /\ ~(1 > Len(s)) /\ Len(s) - 1 + 1 = Capacity + 1
    BY <1>1, <1>2
  <2> QED
    BY <2>1, FS_Interval
<1>8. f \in [1..Len(s) -> CallEvents]
  BY <1>4
<1>9. Cardinality(CallEvents) < Cardinality(1..Len(s))
  <2>1. Cardinality(CallEvents) \in Nat
    BY <1>1, FS_CardinalityType
  <2> QED
    BY <2>1, <1>1, <1>7
<1> HIDE DEF f
<1>10. PICK x, y \in 1..Len(s) : x # y /\ f[x] = f[y]
  BY <1>1, <1>7, <1>8, <1>9, FS_PigeonHole
<1>11. s[x][2] = s[y][2]
  BY <1>10 DEF f
<1>12. s[x] = s[y]
  BY <1>4, <1>6, <1>11
<1>13. x < y \/ y < x
  BY <1>10, <1>2
<1> QED
  BY <1>12, <1>13, <1>2

\* The gate of another runtime has nothing to remember, and the calls that were dispatched are
\* of earlier ones.
LEMMA Forgets ==
  ASSUME NEW runtime \in Nat, GateSound(gate, dispatched), gate.runtime <= runtime
  PROVE  GateSound(Fresh(runtime), dispatched) /\ Fresh(runtime).runtime = runtime
<1>1. CASE gate.runtime = runtime
  BY <1>1 DEF Fresh
<1>2. CASE gate.runtime # runtime
  <2> DEFINE g == [runtime |-> runtime, highest |-> 0, order |-> <<>>]
  <2>1. Fresh(runtime) = g
    BY <1>2 DEF Fresh
  <2>2. <<>> \in Seq(Keys) /\ Len(<<>>) = 0 /\ DOMAIN <<>> = {}
    BY EmptySeq
  <2>3. g \in Gates /\ g.runtime = runtime /\ g.order = <<>>
    BY <2>2 DEF Gates
  <2>4. KeysOK(g)
    <3>1. Capacity \in Nat
      BY CapacityAssumption
    <3> QED
      BY <3>1, <2>2 DEF KeysOK
  <2>5. \A i \in DOMAIN dispatched : Remembered(g, dispatched[i])
    <3>1. TAKE i \in DOMAIN dispatched
    <3>2. dispatched[i].runtime <= gate.runtime /\ dispatched[i].runtime \in Nat /\ gate.runtime \in Nat
      <4>1. dispatched[i] \in Calls
        BY LenProperties DEF GateSound
      <4> QED
        BY <4>1 DEF GateSound, Remembered, Calls, Gates
    <3>3. dispatched[i].runtime < runtime
      BY <3>2, <1>2
    <3> QED
      BY <3>2, <3>3 DEF Remembered
  <2> QED
    BY <2>1, <2>3, <2>4, <2>5 DEF GateSound
<1> QED
  BY <1>1, <1>2

\* A key that is added: the gate stays in order, drops at most a key of an earlier generation
\* than the highest, and has the new one.
LEMMA Notes ==
  ASSUME NEW g \in Gates, KeysOK(g), NEW e \in CallsSent, NEW floor \in Nat, ~Behind(g, e, floor)
  PROVE  /\ Noted(g, e) \in Gates /\ KeysOK(Noted(g, e))
         /\ Noted(g, e).runtime = g.runtime /\ Noted(g, e).highest = e.generation
         /\ \E k \in DOMAIN Noted(g, e).order : Noted(g, e).order[k] = KeyOf(e)
         /\ \A i \in DOMAIN g.order : g.order[i][1] = e.generation =>
              \E k \in DOMAIN Noted(g, e).order : Noted(g, e).order[k] = g.order[i]
<1> DEFINE key == KeyOf(e)
           old == g.order
           new == Append(old, key)
           n == Noted(g, e)
<1>1. /\ e.generation \in Nat /\ g.highest \in Nat /\ g.highest <= e.generation
      /\ key \in Keys /\ key[1] = e.generation
      /\ old \in Seq(Keys)
      /\ \A i \in DOMAIN old : old[i] # key
  BY SMTT(30) DEF CallsSent, Gates, Behind, KeyOf, Keys
<1>2. Capacity \in Nat
  BY CapacityAssumption
<1>3. /\ Len(old) \in Nat /\ DOMAIN old = 1..Len(old)
      /\ \A i \in 1..Len(old) : old[i] \in Keys
  BY <1>1, LenProperties
<1> HIDE DEF key, old
<1>4. /\ new \in Seq(Keys) /\ Len(new) = Len(old) + 1
      /\ \A i \in 1..Len(old) : new[i] = old[i]
      /\ new[Len(old) + 1] = key
  BY <1>1, AppendProperties
<1>5. /\ DOMAIN new = 1..(Len(old) + 1)
      /\ \A i \in 1..(Len(old) + 1) : new[i] \in Keys
  BY <1>4, LenProperties
<1> HIDE DEF new
<1>6. \A i \in 1..Len(old) : old[i][1] \in Nat /\ old[i][1] <= e.generation
  <2>1. TAKE i \in 1..Len(old)
  <2>2. old[i][1] \in Nat
    BY <1>3 DEF Keys
  <2>3. old[i][1] <= g.highest
    BY <1>3 DEF KeysOK, old
  <2> QED
    BY <2>2, <2>3, <1>1
<1>7. \A i, j \in DOMAIN new : i < j => new[i] # new[j] /\ new[i][1] <= new[j][1]
  <2>1. SUFFICES ASSUME NEW i \in DOMAIN new, NEW j \in DOMAIN new, i < j
        PROVE  new[i] # new[j] /\ new[i][1] <= new[j][1]
    OBVIOUS
  <2>2. i \in 1..Len(old)
    BY <2>1, <1>3, <1>5
  <2>3. CASE j = Len(old) + 1
    BY <2>2, <2>3, <1>1, <1>3, <1>4, <1>6
  <2>4. CASE j # Len(old) + 1
    <3>1. j \in 1..Len(old)
      BY <2>4, <1>3, <1>5
    <3>2. old[i] # old[j] /\ old[i][1] <= old[j][1]
      BY <2>1, <2>2, <3>1, <1>3 DEF KeysOK, old
    <3> QED
      BY <2>2, <3>1, <3>2, <1>4
  <2> QED
    BY <2>3, <2>4
<1>8. \A i \in DOMAIN new : new[i][1] <= e.generation
  <2>1. TAKE i \in DOMAIN new
  <2>2. CASE i = Len(old) + 1
    BY <2>2, <1>1, <1>4
  <2>3. CASE i # Len(old) + 1
    <3>1. i \in 1..Len(old)
      BY <2>3, <1>3, <1>5
    <3> QED
      BY <3>1, <1>4, <1>6
  <2> QED
    BY <2>2, <2>3
<1>9. Len(old) <= Capacity
  BY DEF KeysOK, old
<1>10. /\ n = [g EXCEPT !.highest = Higher(@, e.generation),
                        !.order = IF Len(new) > Capacity THEN Tail(new) ELSE new]
       /\ Higher(g.highest, e.generation) = e.generation
  <2>1. n = [g EXCEPT !.highest = Higher(@, e.generation),
                      !.order = IF Len(new) > Capacity THEN Tail(new) ELSE new]
    BY DEF Noted, new, old, key
  <2>2. Higher(g.highest, e.generation) = e.generation
    BY <1>1 DEF Higher
  <2> QED
    BY <2>1, <2>2
<1>11. /\ n.runtime = g.runtime /\ n.highest = e.generation
       /\ n.order = IF Len(new) > Capacity THEN Tail(new) ELSE new
       /\ n = [runtime |-> n.runtime, highest |-> n.highest, order |-> n.order]
  BY <1>10 DEF Gates
<1> HIDE DEF n
<1>12. CASE Len(new) <= Capacity
  <2>1. n.order = new
    BY <1>11, <1>12, <1>2, <1>3, <1>4
  <2>2. n \in Gates
    BY <1>1, <1>4, <1>11, <2>1 DEF Gates
  <2>3. KeysOK(n)
    BY <1>7, <1>8, <1>11, <1>12, <2>1 DEF KeysOK
  <2>4. Len(old) + 1 \in DOMAIN n.order /\ n.order[Len(old) + 1] = key
    BY <1>3, <1>4, <1>5, <2>1
  <2>5. \A i \in DOMAIN old : i \in DOMAIN n.order /\ n.order[i] = old[i]
    BY <1>3, <1>4, <1>5, <2>1
  <2> QED
    BY <1>11, <2>2, <2>3, <2>4, <2>5 DEF key, old, n
<1>13. CASE ~(Len(new) <= Capacity)
  <2>1. Len(new) = Capacity + 1 /\ Len(new) > Capacity
    BY <1>13, <1>2, <1>3, <1>4, <1>9
  <2>2. new[1][1] < e.generation
    BY <2>1, <1>1, <1>4, <1>7, Crowded
  <2>3. n.order = Tail(new)
    BY <1>11, <2>1
  <2>4. new # <<>>
    BY <2>1, <1>2, EmptySeq
  <2> DEFINE t == Tail(new)
  <2>5. /\ t \in Seq(Keys) /\ Len(t) = Len(old)
        /\ \A i \in 1..Len(t) : t[i] = new[i + 1]
    <3>1. Len(new) - 1 = Len(old)
      BY <1>3, <1>4
    <3> QED
      BY <1>4, <2>4, <3>1, HeadTailProperties
  <2>6. DOMAIN t = 1..Len(old)
    BY <2>5, LenProperties
  <2> HIDE DEF t
  <2>7. \A i \in DOMAIN t : i + 1 \in DOMAIN new /\ t[i] = new[i + 1]
    BY <2>5, <2>6, <1>3, <1>5
  <2>8. n \in Gates
    BY <1>1, <1>11, <2>3, <2>5 DEF Gates, t
  <2>9. KeysOK(n)
    <3>1. \A i, j \in DOMAIN t : i < j => t[i] # t[j] /\ t[i][1] <= t[j][1]
      <4>1. SUFFICES ASSUME NEW i \in DOMAIN t, NEW j \in DOMAIN t, i < j
            PROVE  t[i] # t[j] /\ t[i][1] <= t[j][1]
        OBVIOUS
      <4>2. i + 1 < j + 1
        BY <4>1, <2>6, <1>3
      <4> QED
        BY <4>2, <1>7, <2>7
    <3>2. \A i \in DOMAIN t : t[i][1] <= e.generation
      BY <1>8, <2>7
    <3>3. n.order = t /\ n.highest = e.generation
      BY <1>11, <2>3 DEF t
    <3> QED
      BY <3>1, <3>2, <3>3, <2>5, <1>9 DEF KeysOK
  <2>10. 0 < Len(old)
    <3>1. CASE Len(old) = 0
      <4>1. new[1] = key
        BY <3>1, <1>4
      <4> QED
        BY <4>1, <2>2, <1>1
    <3> QED
      BY <3>1, <1>3
  <2>11. Len(old) \in DOMAIN t /\ t[Len(old)] = key
    BY <2>6, <2>7, <2>10, <1>3, <1>4
  <2>12. \A i \in DOMAIN old : old[i][1] = e.generation => i - 1 \in DOMAIN t /\ t[i - 1] = old[i]
    <3>1. SUFFICES ASSUME NEW i \in DOMAIN old, old[i][1] = e.generation
          PROVE  i - 1 \in DOMAIN t /\ t[i - 1] = old[i]
      OBVIOUS
    <3>2. i # 1
      BY <3>1, <2>2, <1>1, <1>3, <1>4
    <3>3. i - 1 \in DOMAIN t /\ (i - 1) + 1 = i
      BY <3>2, <2>6, <1>3
    <3> QED
      BY <3>3, <2>7, <1>3, <1>4
  <2>13. \E k \in DOMAIN n.order : n.order[k] = key
    BY <2>3, <2>11 DEF t
  <2>14. \A i \in DOMAIN old : old[i][1] = e.generation => \E k \in DOMAIN n.order : n.order[k] = old[i]
    BY <2>3, <2>12 DEF t
  <2> QED
    BY <1>11, <2>8, <2>9, <2>13, <2>14 DEF key, old, n
<1> QED
  BY <1>12, <1>13

\* A call that the gate lets through joins those dispatched: none of them is that call, or of a
\* later generation of the same runtime.
LEMMA Passes ==
  ASSUME NEW g, NEW d, GateSound(g, d), NEW e \in CallsSent, NEW floor \in Nat, ~Behind(g, e, floor),
         NEW c, c = [runtime |-> g.runtime, generation |-> e.generation, name |-> e.name]
  PROVE  GateSound(Noted(g, e), Append(d, c))
<1> DEFINE n == Noted(g, e)
           a == Append(d, c)
<1>1. /\ g \in Gates /\ KeysOK(g) /\ d \in Seq(Calls) /\ InOrder(d)
      /\ \A i \in DOMAIN d : Remembered(g, d[i])
  BY DEF GateSound
<1>2. /\ n \in Gates /\ KeysOK(n)
      /\ n.runtime = g.runtime /\ n.highest = e.generation
      /\ \E k \in DOMAIN n.order : n.order[k] = KeyOf(e)
      /\ \A i \in DOMAIN g.order : g.order[i][1] = e.generation =>
           \E k \in DOMAIN n.order : n.order[k] = g.order[i]
  BY <1>1, Notes
<1>3. /\ c \in Calls /\ c.runtime = g.runtime /\ c.generation = e.generation
      /\ Passed(c) = KeyOf(e) /\ Passed(c)[1] = e.generation
      /\ e.generation \in Nat /\ g.runtime \in Nat /\ g.highest \in Nat
  BY <1>1 DEF Calls, CallsSent, Gates, Passed, KeyOf
<1>4. /\ ~(e.generation < g.highest)
      /\ \A k \in DOMAIN g.order : g.order[k] # Passed(c)
  BY <1>3 DEF Behind
<1> HIDE DEF n
<1>5. /\ Len(d) \in Nat /\ DOMAIN d = 1..Len(d)
      /\ \A i \in 1..Len(d) : d[i] \in Calls
  BY <1>1, LenProperties
<1>6. /\ a \in Seq(Calls) /\ Len(a) = Len(d) + 1
      /\ \A i \in 1..Len(d) : a[i] = d[i]
      /\ a[Len(d) + 1] = c
  BY <1>1, <1>3, AppendProperties
<1>7. DOMAIN a = 1..(Len(d) + 1)
  BY <1>6, LenProperties
<1> HIDE DEF a
<1>8. \A i \in DOMAIN d : Remembered(n, d[i]) /\
        (d[i].runtime = c.runtime => d[i] # c /\ d[i].generation <= c.generation)
  <2>1. TAKE i \in DOMAIN d
  <2>2. d[i].runtime \in Nat /\ d[i].generation \in Nat
    BY <1>5 DEF Calls
  <2>3. Remembered(g, d[i])
    BY <1>1
  <2>4. CASE d[i].runtime # g.runtime
    BY <2>3, <2>4, <1>2, <1>3 DEF Remembered
  <2>5. CASE d[i].runtime = g.runtime
    <3>1. /\ d[i].generation <= g.highest
          /\ d[i].generation = g.highest => \E k \in DOMAIN g.order : g.order[k] = Passed(d[i])
      BY <2>3, <2>5 DEF Remembered
    <3>2. d[i].generation <= e.generation
      BY <2>2, <3>1, <1>3, <1>4
    <3>3. CASE d[i].generation = e.generation
      <4>1. d[i].generation = g.highest
        BY <2>2, <3>1, <3>3, <1>3, <1>4
      <4>2. PICK k \in DOMAIN g.order : g.order[k] = Passed(d[i])
        BY <3>1, <4>1
      <4>3. g.order[k][1] = e.generation
        BY <4>2, <3>3 DEF Passed
      <4>4. \E l \in DOMAIN n.order : n.order[l] = Passed(d[i])
        BY <4>2, <4>3, <1>2
      <4>5. d[i] # c
        BY <4>2, <1>4
      <4>6. Remembered(n, d[i])
        BY <4>4, <3>2, <2>5, <1>2, <1>3 DEF Remembered
      <4> QED
        BY <4>5, <4>6, <3>2, <1>3
    <3>4. CASE d[i].generation # e.generation
      <4>1. Remembered(n, d[i])
        BY <3>2, <3>4, <2>5, <1>2, <1>3 DEF Remembered
      <4>2. d[i] # c
        BY <3>4, <1>3
      <4> QED
        BY <4>1, <4>2, <3>2, <1>3
    <3> QED
      BY <3>3, <3>4
  <2> QED
    BY <2>4, <2>5
<1>9. Remembered(n, c)
  BY <1>2, <1>3 DEF Remembered
<1>10. \A i \in DOMAIN a : Remembered(n, a[i])
  <2>1. TAKE i \in DOMAIN a
  <2>2. CASE i = Len(d) + 1
    BY <2>2, <1>6, <1>9
  <2>3. CASE i # Len(d) + 1
    <3>1. i \in 1..Len(d)
      BY <2>3, <1>5, <1>7
    <3> QED
      BY <3>1, <1>5, <1>6, <1>8
  <2> QED
    BY <2>2, <2>3
<1>11. InOrder(a)
  <2>1. SUFFICES ASSUME NEW i \in DOMAIN a, NEW j \in DOMAIN a, i < j, a[i].runtime = a[j].runtime
        PROVE  a[i] # a[j] /\ a[i].generation <= a[j].generation
    BY DEF InOrder
  <2>2. i \in 1..Len(d) /\ a[i] = d[i]
    BY <2>1, <1>5, <1>6, <1>7
  <2>3. CASE j = Len(d) + 1
    BY <2>1, <2>2, <2>3, <1>5, <1>6, <1>8
  <2>4. CASE j # Len(d) + 1
    <3>1. j \in 1..Len(d) /\ a[j] = d[j]
      BY <2>4, <1>5, <1>6, <1>7
    <3> QED
      BY <2>1, <2>2, <3>1, <1>1, <1>5 DEF InOrder
  <2> QED
    BY <2>3, <2>4
<1> QED
  BY <1>2, <1>6, <1>10, <1>11 DEF GateSound, n, a

-----------------------------------------------------------------------------
(* The steps                                                               *)

LEMMA Initially == Init => IInv
<1> SUFFICES ASSUME Init PROVE IInv
  OBVIOUS
<1>1. BridgeTypes
  BY DEF Init, BridgeTypes
<1>2. Timer \in Refreshers
  BY TasksAssumption
<1>3. NoStatus \in Statuses /\ NoStatus.runtime = 0
  BY DEF NoStatus, Statuses
<1>4. TaskTypes
  <2>1. step \in [Refreshers -> Steps] /\ answer \in [Refreshers -> Statuses]
        /\ newest \in Refreshers /\ status \in Statuses
    BY <1>2, <1>3 DEF Init, Steps
  <2>2. event = [t \in Refreshers |-> event[t]]
    BY DEF Init
  <2>3. \A h \in Handlers : step[h] = "idle"
    BY TasksAssumption DEF Init
  <2> QED
    BY <2>1, <2>2, <2>3 DEF TaskTypes
<1>5. RuntimesOK
  <2>1. \A t \in Refreshers : step[t] # "status"
    BY DEF Init
  <2>2. status.runtime = 0 /\ bridge.runtime = 1 /\ newest \in Refreshers
    BY <1>2, <1>3 DEF Init
  <2> QED
    BY <2>1, <2>2 DEF RuntimesOK
<1>6. GateOK
  <2>1. /\ gate.runtime = 0 /\ gate.highest = 0 /\ gate.order = <<>> /\ dispatched = <<>> /\ status.runtime = 0
        /\ gate = [runtime |-> 0, highest |-> 0, order |-> <<>>]
    BY <1>3 DEF Init
  <2>2. <<>> \in Seq(Keys) /\ <<>> \in Seq(Calls) /\ Len(<<>>) = 0 /\ DOMAIN <<>> = {}
    BY EmptySeq
  <2>3. Capacity \in Nat
    BY CapacityAssumption
  <2>4. gate \in Gates
    BY <2>1, <2>2 DEF Gates
  <2>5. KeysOK(gate)
    BY <2>1, <2>2, <2>3 DEF KeysOK
  <2> QED
    BY <2>1, <2>2, <2>4, <2>5 DEF GateOK, GateSound, InOrder
<1> QED
  BY <1>1, <1>4, <1>5, <1>6 DEF IInv

\* The gate is as it was and the status is not taken back.
LEMMA GateKept ==
  ASSUME IInv, UNCHANGED <<gate, dispatched>>, status'.runtime \in Nat,
         status.runtime <= status'.runtime
  PROVE  GateOK'
<1>1. gate.runtime <= status.runtime /\ gate.runtime \in Nat /\ status.runtime \in Nat
      /\ GateSound(gate, dispatched)
  BY DEF IInv, GateOK, GateSound, Gates, TaskTypes, Statuses
<1>2. gate' = gate /\ dispatched' = dispatched
  OBVIOUS
<1>3. gate.runtime <= status'.runtime
  BY <1>1
<1> QED
  BY <1>1, <1>2, <1>3 DEF GateOK

LEMMA Ranges ==
  ASSUME IInv
  PROVE  /\ status.runtime \in Nat /\ bridge.runtime \in Nat
         /\ \A t \in Refreshers : answer[t].runtime \in Nat /\ answer[t].call \in Nat
BY DEF IInv, BridgeTypes, TaskTypes, Statuses

\* What happens at the bridge: its runtime does not go back.
LEMMA BridgeSteps ==
  ASSUME IInv, (\E x \in Names : Change(x) \/ Move(x)) \/ Restart \/ Ring
  PROVE  IInv'
<1>1. UNCHANGED <<registry, shut, tasks, client, gates, dispatched>>
  BY DEF Change, Move, Restart, Ring, source
<1>2. /\ step' = step /\ answer' = answer /\ event' = event
      /\ status' = status /\ newest' = newest /\ gate' = gate /\ dispatched' = dispatched
  BY <1>1 DEF tasks, client, gates
<1>3. /\ bridge \in [runtime : Nat, revision : Nat, stations : [Names -> Nat]]
      /\ call \in Nat /\ media \in [Names -> Nat] /\ sent \subseteq CallsSent \cup MovesSent
      /\ bridge.runtime \in Nat /\ bridge.revision \in Nat /\ bridge.stations \in [Names -> Nat]
  BY DEF IInv, BridgeTypes
<1>4. BridgeTypes' /\ bridge.runtime <= bridge'.runtime
  <2>1. ASSUME NEW x \in Names, Change(x) PROVE BridgeTypes' /\ bridge.runtime <= bridge'.runtime
    <3>1. PICK content \in {0, bridge.revision + 1} :
            bridge' = [bridge EXCEPT !.revision = @ + 1, !.stations[x] = content]
      BY <2>1 DEF Change
    <3>2. content \in Nat
      BY <1>3
    <3>3. [bridge.stations EXCEPT ![x] = content] \in [Names -> Nat]
      BY <3>2, <1>3
    <3>4. bridge' = [bridge EXCEPT !.revision = bridge.revision + 1,
                                   !.stations = [bridge.stations EXCEPT ![x] = content]]
      BY <3>1, <1>3
    <3> DEFINE listed == [bridge.stations EXCEPT ![x] = content]
    <3>5. bridge' \in [runtime : Nat, revision : Nat, stations : [Names -> Nat]] /\ bridge'.runtime = bridge.runtime
      <4>1. bridge' = [bridge EXCEPT !.revision = bridge.revision + 1, !.stations = listed]
        BY <3>4
      <4>2. listed \in [Names -> Nat] /\ bridge.revision + 1 \in Nat
        BY <3>3, <1>3
      <4> HIDE DEF listed
      <4> QED
        BY <4>1, <4>2, <1>3
    <3>6. call' = call /\ media' = media /\ sent' = sent
      BY <2>1 DEF Change, source
    <3> QED
      BY <3>5, <3>6, <1>3 DEF BridgeTypes
  <2>2. ASSUME NEW x \in Names, Move(x) PROVE BridgeTypes' /\ bridge.runtime <= bridge'.runtime
    <3> DEFINE e == [kind |-> "monitor", runtime |-> bridge.runtime, station |-> x,
                     revision |-> media[x] + 1, listed |-> FALSE]
    <3>1. /\ media' = [media EXCEPT ![x] = @ + 1]
          /\ sent' = sent \cup {e}
          /\ bridge' = bridge /\ call' = call
      BY <2>2 DEF Move
    <3>2. media[x] + 1 \in Nat
      BY <1>3
    <3>3. media' \in [Names -> Nat]
      BY <3>1, <3>2, <1>3
    <3>4. e \in MovesSent
      BY <3>2, <1>3 DEF MovesSent
    <3> HIDE DEF e
    <3>5. sent' \subseteq CallsSent \cup MovesSent
      BY <3>1, <3>4, <1>3
    <3> QED
      BY <3>1, <3>3, <3>5, <1>3 DEF BridgeTypes
  <2>3. CASE Restart
    <3>1. PICK enabled \in SUBSET Names :
            bridge' = [runtime |-> bridge.runtime + 1, revision |-> 1,
                       stations |-> [x \in Names |-> IF x \in enabled THEN 1 ELSE 0]]
      BY <2>3 DEF Restart
    <3>2. [x \in Names |-> IF x \in enabled THEN 1 ELSE 0] \in [Names -> Nat]
      OBVIOUS
    <3>3. bridge' \in [runtime : Nat, revision : Nat, stations : [Names -> Nat]]
          /\ bridge'.runtime = bridge.runtime + 1
      BY <3>1, <3>2, <1>3
    <3>4. call' = 0 /\ media' = [x \in Names |-> 1] /\ sent' = sent
      BY <2>3 DEF Restart
    <3> QED
      BY <3>3, <3>4, <1>3 DEF BridgeTypes
  <2>4. CASE Ring
    <3>1. PICK generation \in {call, call + 1} \ {0}, name \in CallEvents :
            /\ call' = generation
            /\ sent' = sent \cup {[kind |-> "call", runtime |-> bridge.runtime, name |-> name,
                                   generation |-> generation]}
      BY <2>4 DEF Ring
    <3>2. generation \in Nat
      BY <1>3
    <3>3. [kind |-> "call", runtime |-> bridge.runtime, name |-> name, generation |-> generation] \in CallsSent
      BY <3>2, <1>3 DEF CallsSent
    <3>4. bridge' = bridge /\ media' = media
      BY <2>4 DEF Ring
    <3> QED
      BY <3>1, <3>2, <3>3, <3>4, <1>3 DEF BridgeTypes
  <2> QED
    BY <2>1, <2>2, <2>3, <2>4
<1>5. TaskTypes'
  BY <1>2 DEF IInv, TaskTypes
<1>6. RuntimesOK'
  <2>1. bridge'.runtime \in Nat
    BY <1>4 DEF BridgeTypes
  <2>2. /\ status.runtime <= bridge.runtime
        /\ \A t \in Refreshers : step[t] = "status" => answer[t].runtime <= bridge.runtime
        /\ step[newest] = "status" => status.runtime <= answer[newest].runtime
    BY DEF IInv, RuntimesOK
  <2>3. status.runtime <= bridge'.runtime
    BY <2>1, <2>2, <1>4, Ranges
  <2>4. \A t \in Refreshers : step[t] = "status" => answer[t].runtime <= bridge'.runtime
    BY <2>1, <2>2, <1>4, Ranges
  <2> QED
    BY <2>2, <2>3, <2>4, <1>2 DEF RuntimesOK
<1>7. GateOK'
  BY <1>2, Ranges, GateKept
<1> QED
  BY <1>4, <1>5, <1>6, <1>7 DEF IInv

\* A step of a task after its status was published, or that gives up: nobody has an answer more.
LEMMA Elsewhere ==
  ASSUME IInv, UNCHANGED <<bridge, source, status, newest, answer, gate, dispatched>>,
         step' \in [Refreshers -> Steps], event' = [t \in Refreshers |-> event'[t]],
         \A t \in Refreshers : step'[t] = "status" => step[t] = "status",
         \A h \in Handlers : step'[h] # "idle" => step[h] # "idle" /\ event'[h] = event[h]
  PROVE  IInv'
<1>1. BridgeTypes'
  BY DEF IInv, BridgeTypes, source
<1>2. TaskTypes'
  BY DEF IInv, TaskTypes
<1>3. RuntimesOK'
  BY DEF IInv, RuntimesOK, TaskTypes
<1>4. GateOK'
  BY Ranges, GateKept
<1> QED
  BY <1>1, <1>2, <1>3, <1>4 DEF IInv

\* A refresh that begins supersedes those before it.
LEMMA Begins ==
  ASSUME IInv, NEW t \in Refreshers, BeginRefresh(t), event' = [u \in Refreshers |-> event'[u]],
         \A h \in Handlers : (event'[h] = event[h] /\ h # t) \/ event'[h] \in CallsSent \cup MovesSent
  PROVE  IInv'
<1>1. /\ newest' = t /\ step' = [step EXCEPT ![t] = "asked"]
      /\ bridge' = bridge /\ status' = status /\ answer' = answer /\ gate' = gate /\ dispatched' = dispatched
      /\ call' = call /\ media' = media /\ sent' = sent
  BY DEF BeginRefresh, source, gates
<1>2. step \in [Refreshers -> Steps]
  BY DEF IInv, TaskTypes
<1>3. /\ step' \in [Refreshers -> Steps] /\ step'[t] = "asked"
      /\ \A u \in Refreshers : u # t => step'[u] = step[u]
  BY <1>1, <1>2 DEF Steps
<1>4. BridgeTypes'
  BY <1>1 DEF IInv, BridgeTypes
<1>5. TaskTypes'
  <2>1. \A h \in Handlers : step'[h] # "idle" => event'[h] \in CallsSent \cup MovesSent
    <3>1. TAKE h \in Handlers
    <3>2. h \in Refreshers
      BY TasksAssumption
    <3>3. CASE event'[h] = event[h] /\ h # t
      BY <3>2, <3>3, <1>3 DEF IInv, TaskTypes
    <3> QED
      BY <3>3
  <2> QED
    BY <2>1, <1>1, <1>3 DEF IInv, TaskTypes
<1>6. RuntimesOK'
  BY <1>1, <1>3 DEF IInv, RuntimesOK
<1>7. GateOK'
  BY <1>1, Ranges, GateKept
<1> QED
  BY <1>4, <1>5, <1>6, <1>7 DEF IInv

\* The bridge answers with its present runtime.
LEMMA Serves ==
  ASSUME IInv, NEW t \in Refreshers, ServeStatus(t)
  PROVE  IInv'
<1>1. /\ step[t] = "asked"
      /\ answer' = [answer EXCEPT ![t] = [runtime |-> bridge.runtime, call |-> call]]
      /\ step' = [step EXCEPT ![t] = "status"]
      /\ bridge' = bridge /\ call' = call /\ media' = media /\ sent' = sent
      /\ status' = status /\ newest' = newest /\ event' = event /\ gate' = gate /\ dispatched' = dispatched
  BY DEF ServeStatus, source, client, gates
<1>2. /\ step \in [Refreshers -> Steps] /\ answer \in [Refreshers -> Statuses]
      /\ bridge.runtime \in Nat /\ call \in Nat /\ newest \in Refreshers
  BY DEF IInv, TaskTypes, BridgeTypes
<1>3. [runtime |-> bridge.runtime, call |-> call] \in Statuses
  BY <1>2 DEF Statuses
<1>4. /\ step' \in [Refreshers -> Steps] /\ answer' \in [Refreshers -> Statuses]
      /\ answer'[t].runtime = bridge.runtime
      /\ \A u \in Refreshers : u # t => step'[u] = step[u] /\ answer'[u] = answer[u]
  BY <1>1, <1>2, <1>3 DEF Steps
<1>5. BridgeTypes'
  BY <1>1 DEF IInv, BridgeTypes
<1>6. TaskTypes'
  <2>1. \A h \in Handlers : step'[h] # "idle" => step[h] # "idle"
    <3>1. TAKE h \in Handlers
    <3>2. h \in Refreshers
      BY TasksAssumption
    <3> QED
      BY <3>2, <1>1, <1>4
  <2> QED
    BY <2>1, <1>1, <1>4 DEF IInv, TaskTypes
<1>7. RuntimesOK'
  <2>1. \A u \in Refreshers : step'[u] = "status" => answer'[u].runtime <= bridge.runtime
    <3>1. TAKE u \in Refreshers
    <3>2. CASE u = t
      BY <3>2, <1>2, <1>4
    <3>3. CASE u # t
      BY <3>3, <1>4 DEF IInv, RuntimesOK
    <3> QED
      BY <3>2, <3>3
  <2>2. step'[newest] = "status" => status.runtime <= answer'[newest].runtime
    <3>1. CASE newest = t
      BY <3>1, <1>4 DEF IInv, RuntimesOK
    <3>2. CASE newest # t
      BY <3>2, <1>2, <1>4 DEF IInv, RuntimesOK
    <3> QED
      BY <3>1, <3>2
  <2> QED
    BY <2>1, <2>2, <1>1 DEF IInv, RuntimesOK
<1>8. GateOK'
  BY <1>1, Ranges, GateKept
<1> QED
  BY <1>5, <1>6, <1>7, <1>8 DEF IInv

\* What a refresh leaves as the status is neither behind the one before nor ahead of the bridge.
LEMMA Publishes ==
  ASSUME IInv, NEW t \in Refreshers, step[t] = "status"
  PROVE  /\ Published(t) \in Statuses /\ Published(t).runtime \in Nat /\ Published(t).call \in Nat
         /\ status.runtime <= Published(t).runtime /\ Published(t).runtime <= bridge.runtime
<1>1. Published(t) \in Statuses
  BY DEF IInv, TaskTypes, Published
<1>2. status.runtime <= Published(t).runtime /\ Published(t).runtime <= bridge.runtime
  <2>1. CASE newest = t
    BY <2>1 DEF IInv, RuntimesOK, Published
  <2>2. CASE newest # t
    BY <2>2, Ranges DEF IInv, RuntimesOK, Published
  <2> QED
    BY <2>1, <2>2
<1> QED
  BY <1>1, <1>2 DEF Statuses

\* A task that publishes its answer has none any more.
LEMMA Publication ==
  ASSUME IInv, NEW t \in Refreshers, step[t] = "status", status' = Published(t),
         NEW s \in {"idle", "stations"}, step' = [step EXCEPT ![t] = s],
         answer' = [answer EXCEPT ![t] = NoStatus],
         UNCHANGED <<bridge, source, newest>>,
         event' = event \/ (s = "idle" /\ event' = [event EXCEPT ![t] = None])
  PROVE  BridgeTypes' /\ TaskTypes' /\ RuntimesOK'
<1>1. BridgeTypes'
  BY DEF IInv, BridgeTypes, source
<1>2. /\ step \in [Refreshers -> Steps] /\ answer \in [Refreshers -> Statuses]
      /\ event = [u \in Refreshers |-> event[u]]
  BY DEF IInv, TaskTypes
<1>3. NoStatus \in Statuses
  BY DEF NoStatus, Statuses
<1>4. /\ step' \in [Refreshers -> Steps] /\ answer' \in [Refreshers -> Statuses]
      /\ step'[t] = s
      /\ \A u \in Refreshers : u # t => step'[u] = step[u] /\ answer'[u] = answer[u]
  BY <1>2, <1>3 DEF Steps
<1>5. /\ event' = [u \in Refreshers |-> event'[u]]
      /\ \A u \in Refreshers : event'[u] = event[u] \/ (u = t /\ s = "idle")
  BY <1>2
<1>6. TaskTypes'
  <2>1. \A h \in Handlers : step'[h] # "idle" => event'[h] \in CallsSent \cup MovesSent
    <3>1. SUFFICES ASSUME NEW h \in Handlers, step'[h] # "idle"
          PROVE  event'[h] \in CallsSent \cup MovesSent
      OBVIOUS
    <3>2. h \in Refreshers
      BY TasksAssumption
    <3>3. event'[h] = event[h] /\ step[h] # "idle"
      BY <3>1, <3>2, <1>4, <1>5
    <3> QED
      BY <3>3 DEF IInv, TaskTypes
  <2>2. newest' \in Refreshers /\ status' \in Statuses
    BY Publishes DEF IInv, TaskTypes
  <2> QED
    BY <2>1, <2>2, <1>4, <1>5 DEF TaskTypes
<1>7. RuntimesOK'
  <2>1. newest \in Refreshers /\ newest' = newest /\ bridge' = bridge
    BY DEF IInv, TaskTypes
  <2>2. \A u \in Refreshers : step'[u] = "status" => u # t
    BY <1>4
  <2>3. \A u \in Refreshers : step'[u] = "status" => answer'[u].runtime <= bridge.runtime
    BY <2>2, <1>4 DEF IInv, RuntimesOK
  <2>4. step'[newest] = "status" => status' = status /\ answer'[newest] = answer[newest] /\ step[newest] = "status"
    BY <2>1, <2>2, <1>4 DEF Published
  <2>5. status'.runtime <= bridge.runtime
    BY Publishes
  <2> QED
    BY <2>1, <2>3, <2>4, <2>5 DEF IInv, RuntimesOK
<1> QED
  BY <1>1, <1>6, <1>7

\* A call event is gated by the status just published.
LEMMA GatesCall ==
  ASSUME IInv, NEW h \in Handlers, CallEvent(h)
  PROVE  IInv'
<1>1. h \in Refreshers
  BY TasksAssumption
<1>2. /\ step[h] = "status" /\ event[h].kind = "call"
      /\ status' = Published(h) /\ answer' = [answer EXCEPT ![h] = NoStatus]
      /\ step' = [step EXCEPT ![h] = "idle"] /\ event' = [event EXCEPT ![h] = None]
      /\ UNCHANGED <<bridge, source, newest>>
  BY DEF CallEvent, Answer
<1>3. BridgeTypes' /\ TaskTypes' /\ RuntimesOK'
  BY <1>1, <1>2, Publication
<1> DEFINE now == Published(h)
           g == Fresh(now.runtime)
           e == event[h]
           c == [runtime |-> now.runtime, generation |-> e.generation, name |-> e.name]
<1>4. now.runtime \in Nat /\ now.call \in Nat /\ status.runtime <= now.runtime
  BY <1>1, <1>2, Publishes
<1>5. GateSound(gate, dispatched) /\ gate.runtime <= now.runtime
  BY <1>4, Ranges DEF IInv, GateOK, GateSound, Gates
<1>6. GateSound(g, dispatched) /\ g.runtime = now.runtime
  BY <1>4, <1>5, Forgets
<1>7. e \in CallsSent
  <2>1. e \in CallsSent \cup MovesSent
    BY <1>1, <1>2 DEF IInv, TaskTypes
  <2>2. e \notin MovesSent
    BY <1>2 DEF MovesSent
  <2> QED
    BY <2>1, <2>2
<1>8. IF Behind(g, e, now.call)
      THEN gate' = g /\ UNCHANGED dispatched
      ELSE /\ gate' = Noted(g, e)
           /\ dispatched' = Append(dispatched, c)
  BY DEF CallEvent
<1>9. status'.runtime = now.runtime /\ now.runtime <= now.runtime
  BY <1>2, <1>4
<1> HIDE DEF now, g, e, c
<1>10. CASE Behind(g, e, now.call)
  <2>1. GateOK'
    BY <1>6, <1>8, <1>9, <1>10 DEF GateOK
  <2> QED
    BY <2>1, <1>3 DEF IInv
<1>11. CASE ~Behind(g, e, now.call)
  <2>1. c = [runtime |-> g.runtime, generation |-> e.generation, name |-> e.name]
    BY <1>6 DEF c
  <2>2. GateSound(Noted(g, e), Append(dispatched, c))
    BY <2>1, <1>4, <1>6, <1>7, <1>11, Passes
  <2>3. Noted(g, e).runtime = now.runtime
    <3>1. g \in Gates /\ KeysOK(g)
      BY <1>6 DEF GateSound
    <3> QED
      BY <3>1, <1>4, <1>6, <1>7, <1>11, Notes
  <2>4. GateOK'
    BY <2>2, <2>3, <1>8, <1>9, <1>11 DEF GateOK
  <2> QED
    BY <2>4, <1>3 DEF IInv
<1> QED
  BY <1>10, <1>11

\* A monitor event, and the poll, publish and leave the gate of calls alone.
LEMMA Leaves ==
  ASSUME IInv, PollRefreshed \/ \E h \in Handlers : MonitorEvent(h)
  PROVE  IInv'
<1>1. CASE PollRefreshed
  <2>1. Timer \in Refreshers /\ step[Timer] = "status" /\ status' = Published(Timer)
        /\ step' = [step EXCEPT ![Timer] = "stations"] /\ answer' = [answer EXCEPT ![Timer] = NoStatus]
        /\ UNCHANGED <<bridge, source, newest, event, gate, dispatched>>
    BY <1>1, TasksAssumption DEF PollRefreshed, gates
  <2>2. BridgeTypes' /\ TaskTypes' /\ RuntimesOK'
    BY <2>1, Publication
  <2>3. GateOK'
    BY <2>1, Publishes, GateKept
  <2> QED
    BY <2>2, <2>3 DEF IInv
<1>2. ASSUME NEW h \in Handlers, MonitorEvent(h) PROVE IInv'
  <2>1. h \in Refreshers /\ step[h] = "status" /\ status' = Published(h)
        /\ answer' = [answer EXCEPT ![h] = NoStatus]
        /\ UNCHANGED <<bridge, source, newest, gate, dispatched>>
    BY <1>2, TasksAssumption DEF MonitorEvent
  <2>2. \/ step' = [step EXCEPT ![h] = "stations"] /\ event' = event
        \/ step' = [step EXCEPT ![h] = "idle"] /\ event' = [event EXCEPT ![h] = None]
    BY <1>2 DEF MonitorEvent, Answer
  <2>3. BridgeTypes' /\ TaskTypes' /\ RuntimesOK'
    <3>1. CASE step' = [step EXCEPT ![h] = "stations"] /\ event' = event
      BY <2>1, <3>1, Publication
    <3>2. CASE step' = [step EXCEPT ![h] = "idle"] /\ event' = [event EXCEPT ![h] = None]
      BY <2>1, <3>2, Publication
    <3> QED
      BY <2>2, <3>1, <3>2
  <2>4. GateOK'
    BY <2>1, Publishes, GateKept
  <2> QED
    BY <2>3, <2>4 DEF IInv
<1> QED
  BY <1>1, <1>2

\* The steps of a task with the registry and the coordinators, the unload, and a refresh that
\* gives up.
Later(t) == PollStations \/ PollSynced \/ PollOffline \/ Stations(t) \/ Unload
LaterEvent(h) == EventOffline(h) \/ EventStations(h) \/ EventSynced(h)

LEMMA LaterSteps ==
  ASSUME IInv, NEW t \in Refreshers, Later(t) \/ (t \in Handlers /\ LaterEvent(t)) \/ UNCHANGED vars
  PROVE  IInv'
<1>1. UNCHANGED <<bridge, source, status, newest, answer, gate, dispatched>>
  <2>1. CASE Later(t)
    BY <2>1 DEF Later, PollStations, PollSynced, PollOffline, Stations, Unload, BeginStations, ServeStations,
       EndStations, EndRemove, FailStations, FailRemove, CloseRegistry, CloseOne, EndClose, client, gates
  <2>2. CASE LaterEvent(t)
    BY <2>2 DEF LaterEvent, EventOffline, EventStations, EventSynced, client, gates
  <2>3. CASE UNCHANGED vars
    BY <2>3 DEF vars, client, gates, tasks
  <2> QED
    BY <2>1, <2>2, <2>3
<1>2. /\ step \in [Refreshers -> Steps] /\ event = [u \in Refreshers |-> event[u]]
      /\ Timer \in Refreshers /\ Timer \notin Handlers /\ Handlers \subseteq Refreshers
  BY TasksAssumption DEF IInv, TaskTypes
<1>3. \/ step' = step /\ event' = event
      \/ \E s \in {"idle", "sync"} : step[Timer] # "idle" /\ step' = [step EXCEPT ![Timer] = s] /\ event' = event
      \/ t \in Handlers /\ step[t] # "idle" /\ step' = [step EXCEPT ![t] = "sync"] /\ event' = event
      \/ t \in Handlers /\ step' = [step EXCEPT ![t] = "idle"] /\ event' = [event EXCEPT ![t] = None]
  <2>1. CASE PollStations \/ PollSynced \/ PollOffline
    BY <2>1 DEF PollStations, PollSynced, PollOffline
  <2>2. CASE Stations(t) \/ Unload
    BY <2>2 DEF Stations, Unload
  <2>3. CASE t \in Handlers /\ LaterEvent(t)
    BY <2>3 DEF LaterEvent, EventOffline, EventStations, EventSynced, Answer
  <2>4. CASE UNCHANGED vars
    BY <2>4 DEF vars, tasks
  <2> QED
    BY <2>1, <2>2, <2>3, <2>4 DEF Later
<1>4. /\ step' \in [Refreshers -> Steps] /\ event' = [u \in Refreshers |-> event'[u]]
      /\ \A u \in Refreshers : step'[u] = "status" => step[u] = "status"
      /\ \A h \in Handlers : step'[h] # "idle" => step[h] # "idle" /\ event'[h] = event[h]
  <2>1. CASE step' = step /\ event' = event
    BY <2>1, <1>2
  <2>2. ASSUME NEW s \in {"idle", "sync"}, NEW u \in Refreshers, step[u] # "idle",
               step' = [step EXCEPT ![u] = s], event' = event
        PROVE  <1>4!:
    BY <2>2, <1>2 DEF Steps
  <2>3. CASE t \in Handlers /\ step' = [step EXCEPT ![t] = "idle"] /\ event' = [event EXCEPT ![t] = None]
    BY <2>3, <1>2 DEF Steps
  <2> QED
    BY <2>1, <2>2, <2>3, <1>2, <1>3
<1> QED
  BY <1>1, <1>4, Elsewhere

LEMMA Step == IInv /\ [Next]_vars => IInv'
<1> SUFFICES ASSUME IInv, [Next]_vars PROVE IInv'
  OBVIOUS
<1>1. Timer \in Refreshers /\ Handlers \subseteq Refreshers /\ Timer \notin Handlers
  BY TasksAssumption
<1>2. \/ (\E x \in Names : Change(x) \/ Move(x)) \/ Restart \/ Ring
      \/ BeginPoll \/ \E h \in Handlers : BeginEvent(h)
      \/ \E t \in Refreshers : ServeStatus(t)
      \/ \E h \in Handlers : CallEvent(h)
      \/ PollRefreshed \/ \E h \in Handlers : MonitorEvent(h)
      \/ \E t \in Refreshers : Later(t) \/ (t \in Handlers /\ LaterEvent(t)) \/ UNCHANGED vars
  BY <1>1, Zenon DEF Next, PollStep, EventStep, Later, LaterEvent
<1>3. ASSUME BeginPoll PROVE IInv'
  <2>1. BeginRefresh(Timer) /\ event' = event
    BY <1>3 DEF BeginPoll
  <2>2. event' = [u \in Refreshers |-> event'[u]]
    BY <2>1 DEF IInv, TaskTypes
  <2>3. \A h \in Handlers : event'[h] = event[h] /\ h # Timer
    BY <2>1, <1>1
  <2> QED
    BY <2>1, <2>2, <2>3, <1>1, Begins
<1>4. ASSUME NEW h \in Handlers, BeginEvent(h) PROVE IInv'
  <2>1. PICK e \in sent :
          event' = [event EXCEPT ![h] = IF e.kind = "call" THEN e ELSE [e EXCEPT !.listed = e.station \in Registered]]
    BY <1>4 DEF BeginEvent
  <2>2. BeginRefresh(h)
    BY <1>4 DEF BeginEvent
  <2> DEFINE taken == IF e.kind = "call" THEN e ELSE [e EXCEPT !.listed = e.station \in Registered]
  <2>3. taken \in CallsSent \cup MovesSent
    <3>1. e \in CallsSent \/ e \in MovesSent
      BY DEF IInv, BridgeTypes
    <3>2. CASE e \in CallsSent
      BY <3>2 DEF CallsSent
    <3>3. CASE e \in MovesSent
      <4>1. e.kind = "monitor"
        BY <3>3 DEF MovesSent
      <4>2. (e.station \in Registered) \in BOOLEAN
        OBVIOUS
      <4>3. [e EXCEPT !.listed = e.station \in Registered] \in MovesSent
        BY <3>3, <4>2 DEF MovesSent
      <4> QED
        BY <4>1, <4>3
    <3> QED
      BY <3>1, <3>2, <3>3
  <2> HIDE DEF taken
  <2>4. event' = [event EXCEPT ![h] = taken] /\ event = [u \in Refreshers |-> event[u]]
    BY <2>1 DEF taken, IInv, TaskTypes
  <2>5. event' = [u \in Refreshers |-> event'[u]] /\ event'[h] = taken
        /\ \A g \in Handlers : g # h => event'[g] = event[g]
    BY <2>4, <1>1
  <2> QED
    BY <2>2, <2>3, <2>5, <1>1, Begins
<1> QED
  BY <1>2, <1>3, <1>4, BridgeSteps, Serves, GatesCall, Leaves, LaterSteps

\* Behind CallsInOrder, in every reachable state: what a task has read, noted and may dispatch
\* agrees with the generations that the bridge has had and with what the gate keeps of them.
THEOREM Invariant == Spec => []IInv
<1>1. IInv /\ [Next]_vars => IInv'
  BY Step
<1> QED
  BY <1>1, Initially, PTL DEF Spec

\* Call events of a runtime are dispatched once each and by increasing generation, though they
\* come late, again and out of order, and the gate forgets its oldest keys (process_event and
\* EventGate.accept): whatever the capacity of the gate, if it holds the call events of one
\* generation.
THEOREM CallsDispatchedInOrder == Spec => []CallsInOrder
<1>1. IInv => CallsInOrder
  BY DEF IInv, GateOK, GateSound, InOrder, CallsInOrder
<1> QED
  BY <1>1, Invariant, PTL
=============================================================================
