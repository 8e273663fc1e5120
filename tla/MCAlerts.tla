------------------------------ MODULE MCAlerts ------------------------------
(* Alerts as the runs instantiate it. *)
EXTENDS Alerts
=============================================================================
