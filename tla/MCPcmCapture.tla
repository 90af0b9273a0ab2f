---------------------------- MODULE MCPcmCapture ----------------------------
(* Small instances of PcmCapture. *)
EXTENDS PcmCapture, TLC

Interchangeable == Permutations(Producers)

\* Where two start commands meet, nothing fails, nothing is cancelled and nothing captured.
OneSpends == (\E p \in Producers : card[p] = "off") \/ errors + cancels + made = 0
=============================================================================
