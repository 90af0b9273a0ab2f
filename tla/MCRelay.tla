------------------------------ MODULE MCRelay ------------------------------
(***************************************************************************)
(* Small instances of Relay: what each behaviour of a run may spend.       *)
(***************************************************************************)
EXTENDS Relay, TLC

Budget(c, b, r, m, d, e, s, u) ==
  [changes |-> c, restarts |-> b, calls |-> r, moves |-> m, deliveries |-> d, errors |-> e, stuck |-> s, unloads |-> u]

\* The poll alone, over changes, restarts, failures and an unload; beside one event; two events
\* of monitors or up to three of calls, that overlap each other and the poll.  A restart comes
\* with the poll alone or with events of calls, which do not refresh the registry: the refresh of
\* an event of a monitor that meets a restart is below.
Relaying ==
  {Budget(3, 0, 0, 0, 0, 1, 0, 0), Budget(1, 1, 0, 0, 0, 0, 0, 0), Budget(1, 0, 0, 0, 0, 1, 1, 1),
   Budget(1, 0, 0, 1, 1, 1, 0, 0), Budget(0, 0, 0, 2, 2, 1, 0, 0), Budget(0, 0, 2, 0, 3, 0, 0, 0),
   Budget(0, 1, 1, 0, 2, 0, 0, 0), Budget(0, 0, 0, 1, 1, 0, 0, 1)}

\* An event of a monitor that is handled while the poll meets a restarted bridge.
Overlapping == {Budget(0, 1, 0, 1, 1, 0, 0, 0)}
=============================================================================
