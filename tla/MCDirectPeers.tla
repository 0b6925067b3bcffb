--------------------------- MODULE MCDirectPeers ----------------------------
(* Instances of DirectPeers: what goes wrong. *)
EXTENDS DirectPeers

Budget(b, r, n, f, k) ==
  [breaks |-> b, restarts |-> r, refreshes |-> n, failures |-> f, probes |-> k, calm |-> b + r + f = 0]
ConnectorFirst == {[p \in Peers |-> IF p = "connector" THEN 1 ELSE 2]}
\* One fault of each kind, a refresh beside a lost link; two probes where nothing
\* fails.
OneFault == {Budget(0, 0, 0, 0, 2), Budget(1, 0, 1, 0, 0), Budget(0, 1, 0, 0, 0), Budget(0, 0, 0, 1, 0)}
TwoBreaks == {Budget(2, 0, 0, 0, 0)}
BreakThenProbe == {Budget(1, 0, 0, 0, 2)}
RestartThenProbe == {Budget(0, 1, 0, 0, 1)}
=============================================================================
