---------------------------- MODULE MCWatchdog ------------------------------
(* A timeout of ten heartbeats, and a worker that may oversleep by three.     *)
EXTENDS Watchdog
=============================================================================
