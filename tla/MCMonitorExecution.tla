------------------------- MODULE MCMonitorExecution -------------------------
(* Instances of MonitorExecution for model checking. *)
EXTENDS MonitorExecution, TLC

CONSTANTS t1, h1, m1, m2, w1, w2

OneTaskHousehold == t1 :> h1

WorkerSymmetry == Permutations(Workers)
=============================================================================
