---------------------------- MODULE MCSelfTests -----------------------------
(* The three machines with the program's own target speed.  The runs differ   *)
(* in what main() and the other client do: see the .cfg files.                *)
EXTENDS SelfTests
=============================================================================
