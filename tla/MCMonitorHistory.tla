-------------------------- MODULE MCMonitorHistory --------------------------
(***************************************************************************)
(* Two endpoints, whose tasks can be in each other's way, and enough runs  *)
(* for a snapshot to leave the Keep newest ones with another after it.     *)
(***************************************************************************)
EXTENDS MonitorHistory
=============================================================================
