------------------------------ MODULE MCWebRtc ------------------------------
(***************************************************************************)
(* Small instances of WebRtc: what each behaviour of a run may spend.      *)
(***************************************************************************)
EXTENDS WebRtc, TLC

Budget(o, a, s, c, e, x, m, u) ==
  [offers |-> o, attempts |-> a, sweepers |-> s, candidates |-> c, errors |-> e, closes |-> x,
   moves |-> m, unloads |-> u]

\* One offer that is tried twice, closed by its viewer or with the entry, or cleaned up by two
\* sweepers; requests that fail, of an offer that is tried once; two offers of the id, one after
\* or during the other.
Signalling ==
  {Budget(1, 2, 1, 1, 0, 1, 0, 1), Budget(1, 2, 2, 0, 0, 1, 1, 0), Budget(1, 2, 0, 2, 0, 0, 0, 0),
   Budget(1, 1, 2, 0, 1, 1, 0, 1), Budget(2, 1, 1, 0, 1, 0, 0, 0), Budget(2, 1, 1, 1, 0, 0, 0, 0),
   Budget(2, 1, 0, 0, 0, 0, 0, 1)}

\* One offer that is tried twice while a sweeper closes its socket.
SessionReuse == {Budget(1, 2, 1, 0, 0, 0, 1, 0)}

\* The same, and one request that fails.
LeaseStranded == {Budget(1, 2, 1, 0, 1, 0, 1, 0)}
=============================================================================
