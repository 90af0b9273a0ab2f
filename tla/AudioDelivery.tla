---------------------------- MODULE AudioDelivery ----------------------------
(***************************************************************************)
(* What the listeners of a call are promised: none hears a chunk of speech *)
(* twice or out of order, and when a chunk does not follow the last one    *)
(* that it heard, it is told so.                                           *)
(***************************************************************************)
EXTENDS Naturals

CONSTANT Listeners

VARIABLES
  spoken,   \* how many chunks the door station has recorded; they are numbered from 1
  heard     \* what each listener got last: the number of the chunk, and whether it came
            \* with the announcement of a gap

delivery == <<spoken, heard>>

Init ==
  /\ spoken = 0
  /\ heard = [l \in Listeners |-> [revision |-> 0, gap |-> FALSE]]

Speak == spoken' = spoken + 1 /\ UNCHANGED heard

\* The first chunk of a listener follows nothing.
Hear(l, revision, gap) ==
  LET last == heard[l].revision IN
  /\ last < revision
  /\ last # 0 /\ revision # last + 1 => gap
  /\ heard' = [heard EXCEPT ![l] = [revision |-> revision, gap |-> gap]]
  /\ UNCHANGED spoken

Next ==
  Speak \/ \E l \in Listeners, revision \in 1..spoken, gap \in BOOLEAN : Hear(l, revision, gap)

Spec == Init /\ [][Next]_delivery
=============================================================================
