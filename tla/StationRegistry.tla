--------------------------- MODULE StationRegistry ---------------------------
(***************************************************************************)
(* StationRegistryCoordinator (stations.py): the stations of one entry and *)
(* the monitor coordinator of each, followed by revision.  Several tasks   *)
(* may be in async_refresh at once, each suspended while it asks for the   *)
(* stations or closes a coordinator.                                       *)
(*                                                                         *)
(* A coordinator is named by its station and its number among those made   *)
(* for it.  Of a station the model keeps whether it is enabled (not 0) and *)
(* a number that stands for its other attributes.                          *)
(***************************************************************************)
EXTENDS Integers, Sequences, FiniteSets

CONSTANTS
  Names,
  Refreshers,      \* tasks that call async_refresh
  None

VARIABLES
  bridge,                          \* what GET /api/v1/stations would answer
  snapshot, stations, monitors,    \* the registry: _snapshot, _stations, _monitors
  closed, closing,                 \* _closed; what async_close has still to close
  coordinators,                    \* every coordinator made: its runtime, whether it is open
  task                             \* of each task: its call of async_refresh

shut == <<closed, closing>>
registry == <<snapshot, stations, monitors, coordinators>>

AnyOf(set) == CHOOSE e \in set : TRUE
Registered == {x \in Names : stations[x] # 0}
Rest == [pc |-> "idle", reply |-> None, mode |-> "none", todo |-> {}, target |-> None]
Ended(r, outcome) == task' = [task EXCEPT ![r] = [Rest EXCEPT !.pc = outcome]]

RegistryInit ==
  /\ snapshot = None
  /\ stations = [x \in Names |-> 0] /\ monitors = [x \in Names |-> 0]
  /\ coordinators = [x \in Names |-> <<>>]
  /\ closed = "no" /\ closing = {}
  /\ task = [r \in Refreshers |-> Rest]

\* A closed registry raises at once.
BeginStations(r) ==
  /\ task[r].pc = "idle"
  /\ IF closed # "no" THEN Ended(r, "raised") ELSE task' = [task EXCEPT ![r].pc = "asked"]
  /\ UNCHANGED <<bridge, registry, shut>>

ServeStations(r) ==
  /\ task[r].pc = "asked"
  /\ task' = [task EXCEPT ![r].pc = "served", ![r].reply = bridge]
  /\ UNCHANGED <<bridge, registry, shut>>

FailStations(r) ==
  /\ task[r].pc = "asked"
  /\ Ended(r, "raised")
  /\ UNCHANGED <<bridge, registry, shut>>

\* What the last loop of a refresh does: stations that are new get a coordinator, and with
\* another runtime all of them do.
Install(r, reply, mode, stn, mons, made) ==
  LET added == {x \in Names : reply.stations[x] # 0 /\ (mode = "replace" \/ stn[x] = 0)}
  IN /\ stations' = [x \in Names |-> IF reply.stations[x] # 0 THEN reply.stations[x] ELSE stn[x]]
     /\ coordinators' = [x \in Names |->
          IF x \in added THEN Append(made[x], [runtime |-> reply.runtime, open |-> TRUE]) ELSE made[x]]
     /\ monitors' = [x \in Names |-> IF x \in added THEN Len(made[x]) + 1 ELSE mons[x]]
     /\ snapshot' = [runtime |-> reply.runtime, revision |-> reply.revision]
     /\ Ended(r, "done")

\* _remove of the next station: its coordinator is closed from here on, and awaited; a station
\* that another refresh took away meanwhile raises KeyError.
Shut(made, x, n) == [made EXCEPT ![x][n].open = FALSE]

Continue(r, reply, mode, todo, stn, mons, made) ==
  IF todo = {} THEN Install(r, reply, mode, stn, mons, made)
  ELSE LET x == AnyOf(todo)
       IN /\ stations' = stn /\ monitors' = mons /\ UNCHANGED snapshot
          /\ IF mons[x] = 0
             THEN coordinators' = made /\ Ended(r, "raised")
             ELSE /\ coordinators' = Shut(made, x, mons[x])
                  /\ task' = [task EXCEPT ![r] = [pc |-> "removing", reply |-> reply, mode |-> mode,
                                                  todo |-> todo \ {x}, target |-> x]]

\* A bug: revisions are compared across runtimes.
UnchangedRevision(reply) == snapshot # None /\ snapshot.revision = reply.revision

Unchanged(reply) == snapshot = [runtime |-> reply.runtime, revision |-> reply.revision]

\* The reply is compared with the snapshot that the registry has by now.
EndStations(r) ==
  /\ task[r].pc = "served"
  /\ LET reply == task[r].reply
     IN IF Unchanged(reply)
        THEN Ended(r, "done") /\ UNCHANGED registry
        ELSE IF snapshot = None \/ (snapshot # None /\ snapshot.runtime # reply.runtime)
        THEN Continue(r, reply, "replace", Registered, stations, monitors, coordinators)
        ELSE Continue(r, reply, "merge", {x \in Registered : reply.stations[x] = 0},
                      stations, monitors, coordinators)
  /\ UNCHANGED <<bridge, shut>>

\* The close of a coordinator returns: whatever coordinator the station has now is taken out.
EndRemove(r) ==
  /\ task[r].pc = "removing"
  /\ LET x == task[r].target
     IN IF monitors[x] = 0
        THEN Ended(r, "raised") /\ UNCHANGED registry
        ELSE Continue(r, task[r].reply, task[r].mode, task[r].todo,
                      [stations EXCEPT ![x] = 0], [monitors EXCEPT ![x] = 0], coordinators)
  /\ UNCHANGED <<bridge, shut>>

\* A close that raises ends the refresh; the station stays, for the next one.
FailRemove(r) ==
  /\ task[r].pc = "removing"
  /\ Ended(r, "raised")
  /\ UNCHANGED <<bridge, registry, shut>>

\* async_close: the coordinators that are registered are closed one after the other, errors or
\* not, and then the registry is emptied.
CloseRegistry ==
  /\ closed = "no"
  /\ closed' = "closing" /\ closing' = Registered
  /\ UNCHANGED <<bridge, registry, task>>

CloseOne ==
  /\ closing # {}
  /\ LET x == AnyOf(closing)
     IN /\ closing' = closing \ {x}
        /\ coordinators' = IF monitors[x] = 0 THEN coordinators ELSE Shut(coordinators, x, monitors[x])
  /\ UNCHANGED <<bridge, snapshot, stations, monitors, closed, task>>

EndClose ==
  /\ closed = "closing" /\ closing = {}
  /\ closed' = "yes"
  /\ snapshot' = None
  /\ stations' = [x \in Names |-> 0] /\ monitors' = [x \in Names |-> 0]
  /\ UNCHANGED <<bridge, coordinators, closing, task>>

-----------------------------------------------------------------------------

\* The registry is what the bridge has, and every coordinator belongs to the present runtime and
\* is in working order.
Followed ==
  /\ stations = bridge.stations
  /\ \A x \in Registered :
       /\ monitors[x] # 0
       /\ coordinators[x][monitors[x]] = [runtime |-> bridge.runtime, open |-> TRUE]
=============================================================================
