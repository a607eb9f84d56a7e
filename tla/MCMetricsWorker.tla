--------------------------- MODULE MCMetricsWorker ---------------------------
(* MetricsWorker on two messages, one with two rows and one with a valid and *)
(* an invalid row; a batch of two rows, one retry and one crash.             *)
EXTENDS MetricsWorker

CONSTANTS m1, m2, r1, r2, r3, bad

MCMessages == {m1, m2}
MCRowsOf == [m \in MCMessages |-> IF m = m1 THEN {r1, r2} ELSE {r3, bad}]
=============================================================================
