----------------------------- MODULE MCMonitor -----------------------------
(***************************************************************************)
(* Small instances of Monitor: what each behaviour of a run may do.        *)
(***************************************************************************)
EXTENDS Monitor, FiniteSets, TLC

Symmetry == Permutations(Clients) \cup Permutations(Stoppers) \cup Permutations(Graces)

OneClient == {C \in SUBSET Clients : Cardinality(C) = 1}
First == CHOOSE C \in OneClient : TRUE
AcquireAwaits == CancelPcs \ {"start_undo", "rel_lock", "viewer_off"}

\* Two viewers that wait for the first picture, and a stop.
Plain ==
  [modes |-> {"wait"}, stops |-> {"stop"}, moves |-> {"publish"}, relayed |-> {}, cancelAt |-> {},
   full |-> TRUE, clients |-> Clients, gen |-> 2, rev |-> 3, calls |-> 2, expiries |-> 0,
   cancels |-> 0, errors |-> 0]

\* An unload with one cancelled acquire: two calls of either kind, three of callers that wait,
\* three of either kind by one viewer.
Unloads ==
  LET Unload == [Plain EXCEPT !.stops = {"unload"}, !.cancelAt = AcquireAwaits, !.full = FALSE,
                              !.cancels = 1] IN
  {[Unload EXCEPT !.modes = {"wait", "nowait"}], [Unload EXCEPT !.calls = 3]}
    \cup {[Unload EXCEPT !.modes = {"wait", "nowait"}, !.calls = 3, !.clients = C] : C \in OneClient}

\* What the bridge does by itself, and the events of it that arrive, some lost, some late: all
\* of it with one viewer, a preemption and a stop with two.
Outages ==
  {[Plain EXCEPT !.moves = AllMoves, !.relayed = TerminalEvents \cup ProgressEvents,
                 !.clients = C] : C \in OneClient}
    \cup {[Plain EXCEPT !.moves = {"publish", "preempt"}, !.relayed = {"preempted"}],
          [Plain EXCEPT !.moves = {"publish", "stopped"}, !.relayed = {"publishing", "stopped"}]}

\* One viewer with the button, and one request that fails or one call that is cancelled.
Failures ==
  {[Plain EXCEPT !.modes = AllModes, !.moves = {"publish", "stopped"}, !.relayed = {"publishing"},
                 !.cancelAt = CancelPcs, !.clients = C, !.expiries = 1,
                 !.cancels = 1 - n, !.errors = n] : C \in OneClient, n \in {0, 1}}

Ownership == Unloads \cup Outages \cup Failures

\* Without the symmetry: a stop and grace periods; one cancelled acquire of two, and of three
\* of one viewer with an unload; callers that do not wait.
Uses ==
  {[Plain EXCEPT !.rev = 9, !.expiries = 2],
   [Plain EXCEPT !.rev = 9, !.stops = {}, !.moves = {"publish", "stopped"},
                 !.cancelAt = AcquireAwaits, !.cancels = 1],
   [Plain EXCEPT !.rev = 9, !.stops = {"unload"}, !.moves = {"publish", "stopped"}, !.full = FALSE,
                 !.cancelAt = AcquireAwaits, !.cancels = 1, !.calls = 3, !.clients = First],
   [Plain EXCEPT !.rev = 9, !.expiries = 2, !.stops = {}, !.modes = {"wait", "nowait"}]}

\* One viewer, a stop, and the event that the preview has begun to publish.
LateProgress == {[Plain EXCEPT !.relayed = {"publishing"}, !.clients = C, !.gen = 1] : C \in OneClient}
=============================================================================
