----------------------------- MODULE SelfTests ------------------------------
(***************************************************************************)
(* The self-test subsystem (SelfTest/*.cpp) as main.cpp runs it.           *)
(*                                                                         *)
(* SelfTestEngine, CentrifugeTest and PressureTest are state machines that *)
(* run on the engine's worker thread, which takes one message at a time:   *)
(*   Start     SelfTestEngine::Start() reinvoked on the thread;            *)
(*   Complete  a sub-test's OnCompleted signal, connected asynchronously;  *)
(*   Cancel    SelfTest::Cancel(), a sub-test's OnFailed or a client;      *)
(*   Poll      CentrifugeTest::Poll(), from the poll timer's OnExpired.    *)
(* Beside it run the timer thread, the user interface thread, main() and   *)
(* another client of the engine.  The worker threads are the channels that *)
(* StdlibThread implements: first in first out, closed by ExitThread().    *)
(***************************************************************************)
EXTENDS StateMachine

CONSTANTS
  TargetSpeed,  \* the speed at which acceleration ends, 5 in the code
  Runs,         \* how many runs main() starts, one after the other; 1 in main.cpp
  ClientCalls,  \* what the other client may call, in any order:
                \* "Start", "Cancel" on the engine's thread, "CancelDirect" on its own
  ClientBound,  \* bound: the calls that the client makes
  QueueBound    \* bound: Poll is not dispatched to a longer queue

ASSUME ParameterAssumption ==
  /\ TargetSpeed \in Nat \ {0}
  /\ Runs \in Nat \ {0}
  /\ ClientCalls \subseteq {"Start", "Cancel", "CancelDirect"}
  /\ ClientBound \in Nat
  /\ QueueBound \in Nat \ {0}
ASSUME MachineAssumption == Machine = {"Engine", "Centrifuge", "Pressure"}
ASSUME ThreadAssumption == Thread = {"SelfTestEngine", "Client"}

VARIABLES
  m_speed,        \* CentrifugeTest::m_speed
  pollEnabled,    \* m_pollTimer is started
  pollConnected,  \* m_pollTimerConn
  expired,        \* ProcessTimers() holds a snapshot of OnExpired with Poll in it
  m_thread,       \* the engine thread's queue
  m_threadOpen,   \* ~m_exit of the engine thread
  uiQueue,        \* OnSelfTestEngineComplete messages in userInterfaceThread's queue
  uiOpen,         \* main() is connected to OnCompleted and userInterfaceThread runs
  selfTestEngineCompleted,
  main, runs,     \* where main() is, and the runs it has started
  made,           \* how many calls the client has made
  fault,          \* an assertion has ended the program
  passed, reported,  \* history: the tests passed in this run, and its report
  cancelling,     \* history: a Cancel event has been generated and not yet acted on
  own             \* history: this run began with no completion of another one queued

timer == <<pollEnabled, pollConnected, expired>>
interface == <<uiQueue, uiOpen, selfTestEngineCompleted>>
program == <<main, runs, made>>
history == <<passed, reported, cancelling, own>>
vars == <<machineVars, m_speed, timer, m_thread, m_threadOpen, interface, program,
          fault, history>>

Engine == "SelfTestEngine"
Busy(t) == calls[t] # <<>>

Init ==
  /\ StateMachineInit
  /\ m_speed = 0
  /\ pollEnabled = FALSE
  /\ pollConnected = FALSE
  /\ expired = FALSE
  /\ m_thread = <<>>
  /\ m_threadOpen = TRUE
  /\ uiQueue = 0
  /\ uiOpen = TRUE
  /\ selfTestEngineCompleted = FALSE
  /\ main = "start"
  /\ runs = 0
  /\ made = 0
  /\ fault = FALSE
  /\ passed = {}
  /\ reported = FALSE
  /\ cancelling = FALSE
  /\ own = TRUE

\* A message to the engine thread, which an exiting thread refuses.
Dispatched(message) == IF m_threadOpen THEN Append(m_thread, message) ELSE m_thread
Dispatch(message) == m_thread' = Dispatched(message)
Queued(message) == \E i \in DOMAIN m_thread : m_thread[i] = message

(***************************************************************************)
(* The transition maps: the state that follows an event in each state.     *)
(***************************************************************************)
\* Mutant: a start while the tests run is declared impossible.
StartEngineOnce(s) == IF s = "IDLE" THEN "START_CENTRIFUGE_TEST" ELSE CANNOT_HAPPEN

StartEngine(s) ==
  CASE s = "IDLE" -> "START_CENTRIFUGE_TEST"
    [] s \in {"COMPLETED", "FAILED"} -> CANNOT_HAPPEN
    [] OTHER -> EVENT_IGNORED

\* Mutant: a map without the row of the pressure test.
CompleteSkipsPressure(s) ==
  CASE s = "IDLE" -> EVENT_IGNORED
    [] s \in {"COMPLETED", "FAILED"} -> CANNOT_HAPPEN
    [] OTHER -> "COMPLETED"

Complete(s) ==
  CASE s = "IDLE" -> EVENT_IGNORED
    [] s \in {"COMPLETED", "FAILED"} -> CANNOT_HAPPEN
    [] s = "START_CENTRIFUGE_TEST" -> "START_PRESSURE_TEST"
    [] s = "START_PRESSURE_TEST" -> "COMPLETED"

\* Not a map: Cancel() is shared by all self-tests and tests for ST_IDLE.
Cancel(s) == IF s = "IDLE" THEN EVENT_IGNORED ELSE "FAILED"

\* Mutant: the row of ST_DECELERATION ignores the event.
PollMissesDeceleration(s) ==
  CASE s \in {"ACCELERATION", "WAIT_FOR_ACCELERATION"} -> "WAIT_FOR_ACCELERATION"
    [] s = "WAIT_FOR_DECELERATION" -> "WAIT_FOR_DECELERATION"
    [] OTHER -> EVENT_IGNORED

Poll(s) ==
  CASE s \in {"ACCELERATION", "WAIT_FOR_ACCELERATION"} -> "WAIT_FOR_ACCELERATION"
    [] s \in {"DECELERATION", "WAIT_FOR_DECELERATION"} -> "WAIT_FOR_DECELERATION"
    [] OTHER -> EVENT_IGNORED

\* CentrifugeTest::Start() and PressureTest::Start().
StartSubTest(s) ==
  CASE s = "IDLE" -> "START_TEST"
    [] s \in {"COMPLETED", "FAILED"} -> CANNOT_HAPPEN
    [] OTHER -> EVENT_IGNORED

MachineOf(message) == IF message = "Poll" THEN "Centrifuge" ELSE "Engine"

Transition(message) ==
  LET s == currentState[MachineOf(message)]
  IN  CASE message = "Start" -> StartEngine(s)
        [] message = "Complete" -> Complete(s)
        [] message = "Cancel" -> Cancel(s)
        [] message = "Poll" -> Poll(s)

\* The engine thread takes a message and enters its transition map.
HandleMessage ==
  /\ ~Busy(Engine)
  /\ m_thread # <<>>
  /\ LET message == Head(m_thread)
     IN  /\ ExternalEvent(Engine, <<>>, MachineOf(message), Transition(message))
         /\ cancelling' = (cancelling \/ (message = "Cancel" /\ Transition(message) = "FAILED"))
  /\ m_thread' = Tail(m_thread)
  /\ UNCHANGED <<currentState, m_speed, timer, m_threadOpen, interface, program, fault,
                 passed, reported, own>>

(***************************************************************************)
(* StateEngine() with the state maps of the three machines.                *)
(***************************************************************************)
GuardStartTest == m_speed = 0

Guard(m) == m = "Centrifuge" /\ newState[m] = "START_TEST" => GuardStartTest

\* ExitWaitForAcceleration and ExitWaitForDeceleration stop the poll timer.
ExitStopsPolling(m) ==
  /\ m = "Centrifuge"
  /\ currentState[m] \in {"WAIT_FOR_ACCELERATION", "WAIT_FOR_DECELERATION"}
  /\ newState[m] # currentState[m]

\* A run begins when the engine enters ST_START_CENTRIFUGE_TEST.
Begins(m) == m = "Engine" /\ newState[m] = "START_CENTRIFUGE_TEST"

Turn(t, m) ==
  /\ HasEvent(t, m)
  /\ IF StateEngineAsserts(m)
     THEN /\ fault' = TRUE
          /\ UNCHANGED <<machineVars, pollEnabled, history>>
     ELSE /\ StateEngine(t, m, Guard(m))
          /\ pollEnabled' = (pollEnabled /\ ~ExitStopsPolling(m))
          /\ passed' = IF Begins(m) THEN {} ELSE passed
          /\ reported' = (reported /\ ~Begins(m))
          /\ cancelling' = (cancelling /\ ~(m = "Engine" /\ newState[m] = "FAILED"))
          /\ own' = IF Begins(m) THEN ~Queued("Complete") ELSE own
          /\ UNCHANGED fault
  /\ UNCHANGED <<m_speed, pollConnected, expired, m_thread, m_threadOpen, interface, program>>

Leave(t, m) ==
  /\ StateEngineReturn(t, m)
  /\ UNCHANGED <<m_speed, timer, m_thread, m_threadOpen, interface, program, fault, history>>

(***************************************************************************)
(* The state actions.                                                      *)
(***************************************************************************)
\* Mutant: CentrifugeTest inherits ST_Idle, which leaves the timer connected.
IdleInherited(t, m) ==
  /\ Active(t, AtAction(m, "IDLE"))
  /\ ReturnWithoutEvent(t, m)
  /\ UNCHANGED <<m_speed, timer, m_thread, m_threadOpen, interface, program, fault, history>>

\* SelfTest::Idle, which CentrifugeTest overrides to disconnect and stop its timer.
Idle(t, m) ==
  /\ Active(t, AtAction(m, "IDLE"))
  /\ ReturnWithoutEvent(t, m)
  /\ pollConnected' = (pollConnected /\ m # "Centrifuge")
  /\ pollEnabled' = (pollEnabled /\ m # "Centrifuge")
  /\ UNCHANGED <<m_speed, expired, m_thread, m_threadOpen, interface, program, fault, history>>

\* Mutant: the engine connects OnCompleted without a thread, so it runs at once.
CompletedSynchronous(t, m) ==
  /\ Active(t, AtAction(m, "COMPLETED"))
  /\ IF m = "Engine"
     THEN /\ ReturnWithEvent(t, m, "IDLE")
          /\ uiQueue' = IF uiOpen THEN uiQueue + 1 ELSE uiQueue
          /\ reported' = TRUE
          /\ UNCHANGED passed
     ELSE /\ newState' = [newState EXCEPT ![m] = "IDLE",
                                         !["Engine"] = Complete(currentState["Engine"])]
          /\ eventGenerated' = [eventGenerated EXCEPT ![m] = TRUE, !["Engine"] = TRUE]
          /\ calls' = [calls EXCEPT ![t] = Append(Replace(@, AtLoop(m)), AtLoop("Engine"))]
          /\ passed' = passed \cup {m}
          /\ UNCHANGED <<currentState, uiQueue, reported>>
  /\ UNCHANGED <<m_speed, timer, m_thread, m_threadOpen, uiOpen, selfTestEngineCompleted,
                 program, fault, cancelling, own>>

\* OnCompleted of a sub-test is connected to the engine, that of the engine to main().
Completed(t, m) ==
  /\ Active(t, AtAction(m, "COMPLETED"))
  /\ ReturnWithEvent(t, m, "IDLE")
  /\ IF m = "Engine"
     THEN /\ uiQueue' = IF uiOpen THEN uiQueue + 1 ELSE uiQueue
          /\ reported' = TRUE
          /\ UNCHANGED <<m_thread, passed>>
     ELSE /\ Dispatch("Complete")
          /\ passed' = passed \cup {m}
          /\ UNCHANGED <<uiQueue, reported>>
  /\ UNCHANGED <<m_speed, timer, m_threadOpen, uiOpen, selfTestEngineCompleted, program,
                 fault, cancelling, own>>

\* Nobody is connected to OnFailed of the engine.
Failed(t, m) ==
  /\ Active(t, AtAction(m, "FAILED"))
  /\ ReturnWithEvent(t, m, "IDLE")
  /\ IF m = "Engine" THEN UNCHANGED m_thread ELSE Dispatch("Cancel")
  /\ UNCHANGED <<m_speed, timer, m_threadOpen, interface, program, fault, history>>

\* SelfTestEngine's own states call Start() of a sub-test, which runs to its end
\* before the state action returns.
StartSubTestFrom(t, s, test) ==
  /\ Active(t, AtAction("Engine", s))
  /\ ExternalEvent(t, Replace(calls[t], AtLoop("Engine")), test, StartSubTest(currentState[test]))
  /\ UNCHANGED <<currentState, m_speed, timer, m_thread, m_threadOpen, interface, program,
                 fault, history>>

StartCentrifugeTest(t) == StartSubTestFrom(t, "START_CENTRIFUGE_TEST", "Centrifuge")
StartPressureTest(t) == StartSubTestFrom(t, "START_PRESSURE_TEST", "Pressure")

PressureStartTest(t) ==
  /\ Active(t, AtAction("Pressure", "START_TEST"))
  /\ ReturnWithEvent(t, "Pressure", "COMPLETED")
  /\ UNCHANGED <<m_speed, timer, m_thread, m_threadOpen, interface, program, fault, history>>

CentrifugeStartTest(t) ==
  /\ Active(t, AtAction("Centrifuge", "START_TEST"))
  /\ ReturnWithEvent(t, "Centrifuge", "ACCELERATION")
  /\ pollConnected' = TRUE
  /\ UNCHANGED <<m_speed, pollEnabled, expired, m_thread, m_threadOpen, interface, program,
                 fault, history>>

\* Acceleration and Deceleration start the poll timer.
StartPolling(t, s) ==
  /\ Active(t, AtAction("Centrifuge", s))
  /\ ReturnWithoutEvent(t, "Centrifuge")
  /\ pollEnabled' = TRUE
  /\ UNCHANGED <<m_speed, pollConnected, expired, m_thread, m_threadOpen, interface, program,
                 fault, history>>

Acceleration(t) == StartPolling(t, "ACCELERATION")
Deceleration(t) == StartPolling(t, "DECELERATION")

WaitForAcceleration(t) ==
  /\ Active(t, AtAction("Centrifuge", "WAIT_FOR_ACCELERATION"))
  /\ m_speed' = m_speed + 1
  /\ IF m_speed' >= TargetSpeed
     THEN ReturnWithEvent(t, "Centrifuge", "DECELERATION")
     ELSE ReturnWithoutEvent(t, "Centrifuge")
  /\ UNCHANGED <<timer, m_thread, m_threadOpen, interface, program, fault, history>>

\* Mutant: the test of the speed is inverted.
WaitForDecelerationInverted(t) ==
  /\ Active(t, AtAction("Centrifuge", "WAIT_FOR_DECELERATION"))
  /\ m_speed' = m_speed - 1
  /\ IF m_speed # 0
     THEN ReturnWithEvent(t, "Centrifuge", "COMPLETED")
     ELSE ReturnWithoutEvent(t, "Centrifuge")
  /\ UNCHANGED <<timer, m_thread, m_threadOpen, interface, program, fault, history>>

\* if (m_speed-- == 0): the speed that is tested is the one before the decrement.
WaitForDeceleration(t) ==
  /\ Active(t, AtAction("Centrifuge", "WAIT_FOR_DECELERATION"))
  /\ m_speed' = m_speed - 1
  /\ IF m_speed = 0
     THEN ReturnWithEvent(t, "Centrifuge", "COMPLETED")
     ELSE ReturnWithoutEvent(t, "Centrifuge")
  /\ UNCHANGED <<timer, m_thread, m_threadOpen, interface, program, fault, history>>

StateAction(t) ==
  \/ \E m \in Machine : Idle(t, m)
  \/ \E m \in Machine : Completed(t, m)
  \/ \E m \in Machine : Failed(t, m)
  \/ StartCentrifugeTest(t)
  \/ StartPressureTest(t)
  \/ PressureStartTest(t)
  \/ CentrifugeStartTest(t)
  \/ Acceleration(t)
  \/ Deceleration(t)
  \/ WaitForAcceleration(t)
  \/ WaitForDeceleration(t)

Execute(t) ==
  \/ \E m \in Machine : Turn(t, m)
  \/ \E m \in Machine : Leave(t, m)
  \/ StateAction(t)

(***************************************************************************)
(* The timer thread: ProcessTimers() takes a snapshot of the subscribers   *)
(* of an expired timer under its lock, and invokes them after releasing it.*)
(***************************************************************************)
TimerExpires ==
  /\ pollEnabled
  /\ ~expired
  /\ expired' = pollConnected
  /\ UNCHANGED <<machineVars, m_speed, pollEnabled, pollConnected, m_thread, m_threadOpen,
                 interface, program, fault, history>>

TimerInvokes ==
  /\ expired
  /\ Len(m_thread) < QueueBound
  /\ expired' = FALSE
  /\ Dispatch("Poll")
  /\ UNCHANGED <<machineVars, m_speed, pollEnabled, pollConnected, m_threadOpen, interface,
                 program, fault, history>>

(***************************************************************************)
(* The user interface thread, main() and the client.                       *)
(***************************************************************************)
OnSelfTestEngineComplete ==
  /\ uiQueue > 0
  /\ uiQueue' = uiQueue - 1
  /\ selfTestEngineCompleted' = TRUE
  /\ UNCHANGED <<machineVars, m_speed, timer, m_thread, m_threadOpen, uiOpen, program, fault,
                 history>>

MainStarts ==
  /\ main = "start"
  /\ main' = "waiting"
  /\ runs' = runs + 1
  /\ Dispatch("Start")
  /\ UNCHANGED <<machineVars, m_speed, timer, m_threadOpen, interface, made, fault, history>>

\* The loop that waits for the flag, with what follows it: another run, or the
\* disconnection and ExitThread() of the user interface thread.
MainWaits ==
  /\ main = "waiting"
  /\ CASE ~selfTestEngineCompleted ->
            UNCHANGED <<main, uiOpen, selfTestEngineCompleted>>
       [] selfTestEngineCompleted /\ runs < Runs ->
            main' = "start" /\ selfTestEngineCompleted' = FALSE /\ UNCHANGED uiOpen
       [] selfTestEngineCompleted /\ runs = Runs ->
            main' = "exitUI" /\ uiOpen' = FALSE /\ UNCHANGED selfTestEngineCompleted
  /\ UNCHANGED <<machineVars, m_speed, timer, m_thread, m_threadOpen, uiQueue, runs, made,
                 fault, history>>

\* userInterfaceThread has drained its queue; the engine thread is next.
MainExitsEngine ==
  /\ main = "exitUI"
  /\ uiQueue = 0
  /\ main' = "exitEngine"
  /\ m_threadOpen' = FALSE
  /\ UNCHANGED <<machineVars, m_speed, timer, m_thread, interface, runs, made, fault, history>>

MainReturns ==
  /\ main = "exitEngine"
  /\ m_thread = <<>>
  /\ ~Busy(Engine)
  /\ main' = "done"
  /\ UNCHANGED <<machineVars, m_speed, timer, m_thread, m_threadOpen, interface, runs, made,
                 fault, history>>

\* The client acts once main() has started a run.
ClientMay(call) ==
  /\ call \in ClientCalls
  /\ made < ClientBound
  /\ runs > 0
  /\ made' = made + 1

ClientStart ==
  /\ ClientMay("Start")
  /\ Dispatch("Start")
  /\ UNCHANGED <<machineVars, m_speed, timer, m_threadOpen, interface, main, runs, fault,
                 history>>

\* Cancel() through the engine's thread, as the engine itself connects it, or
\* called on the client's own thread.
ClientCancel(call) ==
  /\ ClientMay(call)
  /\ IF call = "CancelDirect"
     THEN /\ ExternalEvent("Client", <<>>, "Engine", Cancel(currentState["Engine"]))
          /\ cancelling' = (cancelling \/ currentState["Engine"] # "IDLE")
          /\ UNCHANGED <<currentState, m_thread>>
     ELSE /\ Dispatch("Cancel")
          /\ UNCHANGED <<machineVars, cancelling>>
  /\ UNCHANGED <<m_speed, timer, m_threadOpen, interface, main, runs, fault, passed, reported,
                 own>>

-----------------------------------------------------------------------------
EngineThread == HandleMessage \/ Execute(Engine)
TimerThread == TimerExpires \/ TimerInvokes
MainThread == MainStarts \/ MainWaits \/ MainExitsEngine \/ MainReturns
ClientThread ==
  \/ ClientStart
  \/ \E call \in {"Cancel", "CancelDirect"} : ClientCancel(call)

Step ==
  \/ HandleMessage
  \/ \E t \in Thread : Execute(t)
  \/ TimerThread
  \/ OnSelfTestEngineComplete
  \/ MainThread
  \/ ClientThread

\* The program has faulted, or main() has returned.
Ended == fault \/ main = "done"

Next ==
  \/ ~Ended /\ Step
  \/ Ended /\ UNCHANGED vars

\* Every thread runs when it can; the client need not call anything.
Fairness ==
  /\ WF_vars(~Ended /\ EngineThread)
  /\ WF_vars(~Ended /\ Execute("Client"))
  /\ WF_vars(~Ended /\ TimerThread)
  /\ WF_vars(~Ended /\ OnSelfTestEngineComplete)
  /\ WF_vars(~Ended /\ MainThread)

Spec == Init /\ [][Next]_vars /\ Fairness

-----------------------------------------------------------------------------
SubTestStates == {"IDLE", "COMPLETED", "FAILED", "START_TEST"}
CentrifugePolls == {"ACCELERATION", "WAIT_FOR_ACCELERATION", "DECELERATION",
                    "WAIT_FOR_DECELERATION"}
StatesOf(m) ==
  CASE m = "Engine" -> {"IDLE", "COMPLETED", "FAILED", "START_CENTRIFUGE_TEST",
                        "START_PRESSURE_TEST"}
    [] m = "Centrifuge" -> SubTestStates \cup CentrifugePolls
    [] m = "Pressure" -> SubTestStates

Frames == UNION {{AtAction(m, s) : s \in StatesOf(m) \cup {"loop"}} : m \in Machine}

TypeOK ==
  /\ \A m \in Machine : currentState[m] \in StatesOf(m)
  /\ \A m \in Machine : newState[m] \in StatesOf(m) \cup {CANNOT_HAPPEN}
  /\ eventGenerated \in [Machine -> BOOLEAN]
  /\ calls \in [Thread -> Seq(Frames)]
  /\ m_speed \in -1..TargetSpeed
  /\ pollEnabled \in BOOLEAN
  /\ pollConnected \in BOOLEAN
  /\ expired \in BOOLEAN
  /\ m_thread \in Seq({"Start", "Complete", "Cancel", "Poll"})
  /\ m_threadOpen \in BOOLEAN
  /\ uiQueue \in 0..Runs
  /\ uiOpen \in BOOLEAN
  /\ selfTestEngineCompleted \in BOOLEAN
  /\ main \in {"start", "waiting", "exitUI", "exitEngine", "done"}
  /\ runs \in 0..Runs
  /\ made \in 0..ClientBound
  /\ fault \in BOOLEAN
  /\ passed \subseteq {"Centrifuge", "Pressure"}
  /\ reported \in BOOLEAN
  /\ cancelling \in BOOLEAN
  /\ own \in BOOLEAN

\* StateEngine() is not reentrant: while a state action of a machine runs, no
\* call, nested or of another thread, enters the same machine.
OneCallPerMachine ==
  \A m \in Machine : \A t1, t2 \in Thread :
    \A i \in DOMAIN calls[t1] : \A j \in DOMAIN calls[t2] :
      calls[t1][i].machine = m /\ calls[t2][j].machine = m => t1 = t2 /\ i = j

\* Between messages the poll timer runs, and is connected, exactly in the states
\* that need a poll to be left: the exit action that stops it and the state action
\* that starts it again never leave it stopped, and an idle centrifuge is not polled.
PollTimerMatchesState ==
  ~Busy(Engine) =>
    /\ pollEnabled <=> currentState["Centrifuge"] \in CentrifugePolls
    /\ pollConnected <=> currentState["Centrifuge"] \in CentrifugePolls

\* The pressure test runs only after the centrifuge has been spun down and is no
\* longer polled, although polls dispatched before may still be queued.
PressureTestOnStoppedCentrifuge ==
  currentState["Pressure"] # "IDLE" \/ newState["Pressure"] # "IDLE" =>
    m_speed <= 0 /\ ~pollEnabled /\ currentState["Centrifuge"] = "IDLE"

\* The machines, signals, queues and threads together do what SelfTestSequence says.
Sequence == INSTANCE SelfTestSequence WITH
  phase <- CASE currentState["Engine"] = "START_CENTRIFUGE_TEST" -> "Centrifuge"
             [] currentState["Engine"] = "START_PRESSURE_TEST" -> "Pressure"
             [] currentState["Engine"] = "COMPLETED" /\ ~reported -> "Pressure"
             [] OTHER -> "idle",
  passed <- passed,
  reported <- reported,
  own <- own,
  answer <- Queued("Complete")

\* With starts, cancels and stale polls in any order, a start after a cancel included:
\* centrifuge before pressure, a run is reported once, and with its own pressure test
\* passed in it.  Its centrifuge test has passed in it too when no completion of a
\* cancelled run was still queued as it began; when one was, Complete() takes it for
\* the centrifuge's of this run, and that is all it can change (see OwnTestsOnly).
ImplementsSequence == Sequence!Spec

\* What README.md:106 promises of every run, "After all of the tests are done, the
\* state machine transitions to Completed".  The engine does not keep it when a run is
\* started after a cancel: MCSelfTestsRestart.cfg has the counterexample.
OwnTestsOnly == reported => passed = {"Centrifuge", "Pressure"}

\* main() returns: the tests complete, their completion crosses both queues, and
\* both worker threads exit, unless a cancel ends the run and main() waits for ever.
\* On the way, and after it, no event reaches a state whose transition map says
\* CANNOT_HAPPEN: the engine is never left in Completed or Failed when the next message
\* is taken, whatever polls, starts and cancels are queued meanwhile.
ProgramEnds == []~fault /\ <>(main = "done" \/ currentState["Engine"] = "FAILED")

\* The wait of main() for the completion of a run it has started ends.
RunsComplete == main = "waiting" ~> main # "waiting"

\* A Cancel event generated while a test executes takes the engine to Failed.
CancelFails == cancelling ~> ~cancelling
=============================================================================
