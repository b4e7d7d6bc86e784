----------------------------- MODULE BlockingCall -----------------------------
(***************************************************************************)
(* What a blocking delegate promises of each call, whatever the threads,   *)
(* queues, semaphores and locks below do: the function is invoked at most  *)
(* once; it begins only while the call lasts, and the call does not end    *)
(* before the function does; and a call that reports success has invoked   *)
(* its function to the end.                                                *)
(*                                                                         *)
(* A call may fail at any time, also when its function has returned: a     *)
(* timeout is not an answer.                                               *)
(***************************************************************************)
CONSTANT Calls

VARIABLES
  call,      \* each call is "new", "open", or over: "succeeded" or "failed"
  function   \* its function is "unused", "running", "returned" or "thrown"

callVars == <<call, function>>

Init ==
  /\ call = [c \in Calls |-> "new"]
  /\ function = [c \in Calls |-> "unused"]

Open(c) ==
  /\ call[c] = "new"
  /\ call' = [call EXCEPT ![c] = "open"]
  /\ UNCHANGED function

Start(c) ==
  /\ call[c] = "open"
  /\ function[c] = "unused"
  /\ function' = [function EXCEPT ![c] = "running"]
  /\ UNCHANGED call

End(c, how) ==
  /\ call[c] = "open"
  /\ function[c] = "running"
  /\ function' = [function EXCEPT ![c] = how]
  /\ UNCHANGED call

Succeed(c) ==
  /\ call[c] = "open"
  /\ function[c] = "returned"
  /\ call' = [call EXCEPT ![c] = "succeeded"]
  /\ UNCHANGED function

Fail(c) ==
  /\ call[c] = "open"
  /\ function[c] # "running"
  /\ call' = [call EXCEPT ![c] = "failed"]
  /\ UNCHANGED function

Next ==
  \E c \in Calls :
    \/ Open(c)
    \/ Start(c)
    \/ \E how \in {"returned", "thrown"} : End(c, how)
    \/ Succeed(c)
    \/ Fail(c)

Spec == Init /\ [][Next]_callVars
=============================================================================
