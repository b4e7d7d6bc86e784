--------------------------- MODULE MCStdlibThread ---------------------------
(* Two producers besides the worker's own handlers, one message of high       *)
(* priority, one whose handler exits the thread, and every queue limit and    *)
(* policy that three messages can tell apart.                                 *)
EXTENDS StdlibThread
=============================================================================
