-------------------------- MODULE PriorityChannel --------------------------
(***************************************************************************)
(* What the threads of the real-time kernels (and of Windows) promise to   *)
(* those who dispatch to them.  It is less than MessageChannel:            *)
(*   - an accepted message starts at most once, one at a time, in the      *)
(*     order of acceptance within its priority;                            *)
(*   - before a NORMAL message starts there was a moment, since the last   *)
(*     start, at which no HIGH message was pending;                        *)
(*   - messages are given up only when the channel closes, and only while  *)
(*     nothing runs or the handler that runs is the one that closes it.    *)
(* A closed channel may reopen with what it still holds.                   *)
(***************************************************************************)
EXTENDS Naturals, Sequences

CONSTANTS
  Message,       \* the messages; each is offered at most once
  HighPriority,  \* those of high priority
  SelfExiting,   \* those whose handler may close the channel
  None           \* no message

VARIABLES
  open,      \* messages are accepted
  pending,   \* the accepted messages that have not started, by priority
  scanned,   \* no HIGH message was pending at some moment since the last start
  current,   \* the message being handled
  finished,  \* the messages that were handled
  lost       \* the messages that were given up

channelVars == <<open, pending, scanned, current, finished, lost>>

Lane == {"HIGH", "NORMAL"}
LaneOf(m) == IF m \in HighPriority THEN "HIGH" ELSE "NORMAL"
Waiting(l) == {pending[l][i] : i \in 1..Len(pending[l])}
Known == Waiting("HIGH") \cup Waiting("NORMAL") \cup {current} \cup finished \cup lost

Init ==
  /\ open = FALSE
  /\ pending = [l \in Lane |-> <<>>]
  /\ scanned = FALSE
  /\ current = None
  /\ finished = {}
  /\ lost = {}

Accept(m) ==
  /\ open
  /\ m \notin Known
  /\ pending' = [pending EXCEPT ![LaneOf(m)] = Append(@, m)]
  /\ UNCHANGED <<open, scanned, current, finished, lost>>

Scan ==
  /\ current = None
  /\ pending["HIGH"] = <<>>
  /\ scanned' = TRUE
  /\ UNCHANGED <<open, pending, current, finished, lost>>

Forget ==
  /\ scanned' = FALSE
  /\ UNCHANGED <<open, pending, current, finished, lost>>

Start(l) ==
  /\ current = None
  /\ pending[l] # <<>>
  /\ l = "NORMAL" => scanned \/ pending["HIGH"] = <<>>
  /\ current' = Head(pending[l])
  /\ pending' = [pending EXCEPT ![l] = Tail(@)]
  /\ scanned' = FALSE
  /\ UNCHANGED <<open, finished, lost>>

Finish ==
  /\ current # None
  /\ finished' = finished \cup {current}
  /\ current' = None
  /\ UNCHANGED <<open, pending, scanned, lost>>

Close ==
  /\ open
  /\ open' = FALSE
  /\ UNCHANGED <<pending, scanned, current, finished, lost>>

CloseAndDiscard ==
  /\ open
  /\ current \in SelfExiting \cup {None}
  /\ open' = FALSE
  /\ lost' = lost \cup Waiting("HIGH") \cup Waiting("NORMAL")
  /\ pending' = [l \in Lane |-> <<>>]
  /\ UNCHANGED <<scanned, current, finished>>

Reopen ==
  /\ ~open
  /\ open' = TRUE
  /\ UNCHANGED <<pending, scanned, current, finished, lost>>

Next ==
  \/ \E m \in Message : Accept(m)
  \/ Scan \/ Forget
  \/ \E l \in Lane : Start(l)
  \/ Finish
  \/ Close \/ CloseAndDiscard \/ Reopen

Spec == Init /\ [][Next]_channelVars
=============================================================================
