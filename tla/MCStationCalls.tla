--------------------------- MODULE MCStationCalls ---------------------------
(***************************************************************************)
(* Small instances of StationCalls: what each behaviour of a run may       *)
(* spend.                                                                  *)
(***************************************************************************)
EXTENDS StationCalls, TLC

Budget(m, b, r, u, o, f, e) ==
  [moves |-> m, restarts |-> b, requests |-> r, unlocks |-> u, others |-> o, frames |-> f, errors |-> e]

\* A call placed, answered, hung up; beside a second refresher; over a restart; with a request
\* lost; two unlocks beside a second refresher, over a restart; video over a restart.
Calls ==
  {Budget(3, 0, 2, 0, 0, 0, 0), Budget(2, 0, 1, 0, 1, 0, 0), Budget(1, 1, 2, 0, 0, 0, 0),
   Budget(2, 0, 2, 0, 0, 0, 1), Budget(1, 0, 0, 2, 1, 0, 0), Budget(1, 1, 0, 2, 0, 0, 1),
   Budget(2, 1, 0, 0, 0, 2, 0)}
=============================================================================
