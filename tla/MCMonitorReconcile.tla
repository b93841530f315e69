------------------------- MODULE MCMonitorReconcile -------------------------
(* Instances of MonitorReconcile for model checking. *)
EXTENDS MonitorReconcile

CONSTANTS e1, p1, l1
=============================================================================
