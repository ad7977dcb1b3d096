----------------------------- MODULE MCEventMonitor -----------------------------
(***************************************************************************)
(* Instances of EventMonitor for TLC: which faults each run lets happen.   *)
(***************************************************************************)
EXTENDS EventMonitor

OnlyDisconnect == {"driver"}
Outage         == {"driver", "endpoint"}
================================================================================
