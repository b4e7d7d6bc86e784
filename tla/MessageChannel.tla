--------------------------- MODULE MessageChannel ---------------------------
(***************************************************************************)
(* What a worker thread promises to those who dispatch to it, without the  *)
(* lock, the condition variables, the exit message and the thread itself:  *)
(*   - an accepted message is started at most once, and one at a time;     *)
(*   - messages of one priority start in the order they were accepted, and *)
(*     no NORMAL message starts while a HIGH one is pending;               *)
(*   - a closed channel accepts nothing, and it reopens only after every   *)
(*     message it had accepted was finished;                               *)
(*   - accepted messages are given up only when a handler closed the       *)
(*     channel it was started by.                                          *)
(***************************************************************************)
EXTENDS Naturals, Sequences

CONSTANTS
  Message,       \* the messages; each is offered at most once
  HighPriority,  \* those of high priority
  SelfExiting,   \* those whose handler may close the channel
  None           \* no message

VARIABLES
  open,      \* messages are accepted
  pending,   \* the accepted messages that have not started, by priority
  current,   \* the message being handled
  finished,  \* the messages that were handled
  lost       \* the messages that were given up

channelVars == <<open, pending, current, finished, lost>>

Lane == {"HIGH", "NORMAL"}
LaneOf(m) == IF m \in HighPriority THEN "HIGH" ELSE "NORMAL"
Waiting(l) == {pending[l][i] : i \in 1..Len(pending[l])}
Known == Waiting("HIGH") \cup Waiting("NORMAL") \cup {current} \cup finished \cup lost
NothingPending == \A l \in Lane : pending[l] = <<>>

Init ==
  /\ open = TRUE
  /\ pending = [l \in Lane |-> <<>>]
  /\ current = None
  /\ finished = {}
  /\ lost = {}

Accept(m) ==
  /\ open
  /\ m \notin Known
  /\ pending' = [pending EXCEPT ![LaneOf(m)] = Append(@, m)]
  /\ UNCHANGED <<open, current, finished, lost>>

Start(l) ==
  /\ current = None
  /\ pending[l] # <<>>
  /\ l = "NORMAL" => pending["HIGH"] = <<>>
  /\ current' = Head(pending[l])
  /\ pending' = [pending EXCEPT ![l] = Tail(@)]
  /\ UNCHANGED <<open, finished, lost>>

Finish ==
  /\ current # None
  /\ finished' = finished \cup {current}
  /\ current' = None
  /\ UNCHANGED <<open, pending, lost>>

Close ==
  /\ open
  /\ open' = FALSE
  /\ UNCHANGED <<pending, current, finished, lost>>

Reopen ==
  /\ ~open
  /\ NothingPending
  /\ current = None
  /\ open' = TRUE
  /\ UNCHANGED <<pending, current, finished, lost>>

GiveUp ==
  /\ ~open
  /\ current \in SelfExiting
  /\ finished' = finished \cup {current}
  /\ current' = None
  /\ lost' = lost \cup Waiting("HIGH") \cup Waiting("NORMAL")
  /\ pending' = [l \in Lane |-> <<>>]
  /\ UNCHANGED open

Next ==
  \/ \E m \in Message : Accept(m)
  \/ \E l \in Lane : Start(l)
  \/ Finish
  \/ Close
  \/ Reopen
  \/ GiveUp

Spec == Init /\ [][Next]_channelVars
=============================================================================
