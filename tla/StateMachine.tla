---------------------------- MODULE StateMachine ----------------------------
(***************************************************************************)
(* StateMachine, the base class of every state machine of the program      *)
(* (StateMachine/StateMachine.cpp): the pending event, the current state   *)
(* and the loop of StateEngine() that runs until no event is pending.      *)
(*                                                                         *)
(* Nothing in the class takes a lock, so the pending event of a machine is *)
(* shared by all calls of its StateEngine().  calls[t] is the stack of     *)
(* those that thread t is in: a state action may generate the event of     *)
(* another machine, which runs to its end before the action returns.  An   *)
(* entry is at "loop", the test at the head of the loop, or at the state   *)
(* whose action it is about to invoke, which the call has read beforehand. *)
(***************************************************************************)
EXTENDS Integers, Sequences

CONSTANTS
  Machine,  \* the state machine objects
  Thread    \* the threads that generate events

VARIABLES
  currentState,    \* m_currentState of each machine
  newState,        \* m_newState
  eventGenerated,  \* m_eventGenerated
  calls            \* for each thread, its calls of StateEngine()

machineVars == <<currentState, newState, eventGenerated, calls>>

EVENT_IGNORED == "EVENT_IGNORED"
CANNOT_HAPPEN == "CANNOT_HAPPEN"

AtLoop(m) == [machine |-> m, at |-> "loop"]
AtAction(m, s) == [machine |-> m, at |-> s]
Replace(stack, frame) == [stack EXCEPT ![Len(stack)] = frame]
Pop(stack) == SubSeq(stack, 1, Len(stack) - 1)
Active(t, frame) == calls[t] # <<>> /\ calls[t][Len(calls[t])] = frame

StateMachineInit ==
  /\ currentState = [m \in Machine |-> "IDLE"]
  /\ newState = [m \in Machine |-> "IDLE"]
  /\ eventGenerated = [m \in Machine |-> FALSE]
  /\ calls = [t \in Thread |-> <<>>]

\* One event is pending at most: a second one replaces it.
InternalEvent(m, s) ==
  /\ newState' = [newState EXCEPT ![m] = s]
  /\ eventGenerated' = [eventGenerated EXCEPT ![m] = TRUE]

\* The entry of a transition map, for thread t whose stack has become stack.
ExternalEvent(t, stack, m, s) ==
  IF s = EVENT_IGNORED
  THEN /\ calls' = [calls EXCEPT ![t] = stack]
       /\ UNCHANGED <<newState, eventGenerated>>
  ELSE /\ calls' = [calls EXCEPT ![t] = Append(stack, AtLoop(m))]
       /\ InternalEvent(m, s)

(***************************************************************************)
(* One turn of the loop of StateEngine().                                  *)
(***************************************************************************)
HasEvent(t, m) == Active(t, AtLoop(m)) /\ eventGenerated[m]

\* ASSERT_TRUE(m_newState < MAX_STATES) fails.
StateEngineAsserts(m) == newState[m] = CANNOT_HAPPEN

\* With a guard that fails the event is dropped.  Otherwise the machine is in the
\* new state and the state's action is next.  What the exit action of the old
\* state changes is added by the caller, who knows the state map.
StateEngine(t, m, guard) ==
  /\ eventGenerated' = [eventGenerated EXCEPT ![m] = FALSE]
  /\ IF guard
     THEN /\ currentState' = [currentState EXCEPT ![m] = newState[m]]
          /\ calls' = [calls EXCEPT ![t] = Replace(@, AtAction(m, newState[m]))]
     ELSE UNCHANGED <<currentState, calls>>
  /\ UNCHANGED newState

StateEngineReturn(t, m) ==
  /\ Active(t, AtLoop(m))
  /\ ~eventGenerated[m]
  /\ calls' = [calls EXCEPT ![t] = Pop(@)]
  /\ UNCHANGED <<currentState, newState, eventGenerated>>

(***************************************************************************)
(* How a state action ends: with an internal event, or with none.          *)
(***************************************************************************)
ReturnWithEvent(t, m, s) ==
  /\ InternalEvent(m, s)
  /\ calls' = [calls EXCEPT ![t] = Replace(@, AtLoop(m))]
  /\ UNCHANGED currentState

ReturnWithoutEvent(t, m) ==
  /\ calls' = [calls EXCEPT ![t] = Replace(@, AtLoop(m))]
  /\ UNCHANGED <<currentState, newState, eventGenerated>>
=============================================================================
