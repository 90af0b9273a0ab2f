---------------------------- MODULE PcmDelivery ----------------------------
(***************************************************************************)
(* What the microphone path promises about audio: the bridge plays the     *)
(* captured frames in the order of their capture and no frame twice.       *)
(* Frames may be lost at any point; they are numbered as they are made.    *)
(***************************************************************************)
EXTENDS Naturals, Sequences

VARIABLES
  made,    \* number of the last frame captured
  heard    \* frames the bridge accepted

delivery == <<made, heard>>

Later(s, last) ==
  /\ \A i \in 1..Len(s) : s[i] > last
  /\ \A i, j \in 1..Len(s) : i < j => s[i] < s[j]
Newest == IF heard = <<>> THEN 0 ELSE heard[Len(heard)]

Init == made = 0 /\ heard = <<>>

Capture == made' = made + 1 /\ UNCHANGED heard

\* A batch, or what is accepted of it.
Play ==
  /\ Len(heard') > Len(heard)
  /\ SubSeq(heard', 1, Len(heard)) = heard
  /\ Later(SubSeq(heard', Len(heard) + 1, Len(heard')), Newest)
  /\ \A i \in 1..Len(heard') : heard'[i] <= made
  /\ UNCHANGED made

Spec == Init /\ [][Capture \/ Play]_delivery
=============================================================================
