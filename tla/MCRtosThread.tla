---------------------------- MODULE MCRtosThread ----------------------------
(* Two producers besides the worker's own handlers, a message of high         *)
(* priority, one whose handler exits the thread, and two lives of the thread, *)
(* on every kernel.  One place per lane, where every second message waits, is *)
(* combined with each policy; two places are needed for an order in a lane.   *)
EXTENDS RtosThread

MCConstructions ==
  {[size |-> 1, policy |-> "TIMEOUT", watchdog |-> TRUE],
   [size |-> 2, policy |-> "TIMEOUT", watchdog |-> FALSE],
   [size |-> 1, policy |-> "DROP", watchdog |-> FALSE],
   [size |-> 1, policy |-> "FAULT", watchdog |-> TRUE]}
=============================================================================
