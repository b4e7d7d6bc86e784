---------------------------- MODULE SelfTestsProofs ----------------------------
(***************************************************************************)
(* Theorems about SelfTests: the machines of the self-test program never   *)
(* overlap, never meet an event that cannot happen, and implement          *)
(* SelfTestSequence, for every target speed, number of runs, length of the *)
(* queue, and calls of the client on the engine's thread.                  *)
(***************************************************************************)
EXTENDS SelfTests, SequenceTheorems, TLAPS

\* Cancel() is called on the engine's thread, as the engine connects it.  A call on
\* another thread is a second caller of StateEngine(): see CancelFails.
Confined == "CancelDirect" \notin ClientCalls

-----------------------------------------------------------------------------
(* The innermost call of StateEngine() on the engine's thread.             *)

Stack == calls[Engine]
Frame(m, s) == [machine |-> m, at |-> s]

who == IF Stack = <<>> THEN "none" ELSE Stack[Len(Stack)].machine
at  == IF Stack = <<>> THEN "none" ELSE Stack[Len(Stack)].at

InAction(m) == who = m /\ at # "loop"
Event(m, s) == eventGenerated[m] /\ newState[m] = s

engine     == currentState["Engine"]
centrifuge == currentState["Centrifuge"]
pressure   == currentState["Pressure"]

\* One call, of the engine or for a poll, or a call that a state of the engine makes.
StackOK ==
  /\ calls["Client"] = <<>>
  /\ \/ Stack = <<>>
     \/ \E m \in {"Engine", "Centrifuge"} : \E s \in StatesOf(m) \cup {"loop"} :
          Stack = <<Frame(m, s)>>
     \/ /\ engine = "START_CENTRIFUGE_TEST"
        /\ \E s \in StatesOf("Centrifuge") \cup {"loop"} :
             Stack = <<AtLoop("Engine"), Frame("Centrifuge", s)>>
     \/ /\ engine = "START_PRESSURE_TEST"
        /\ \E s \in StatesOf("Pressure") \cup {"loop"} :
             Stack = <<AtLoop("Engine"), Frame("Pressure", s)>>

\* Only the machine of the innermost call has an event pending, at the head of its loop.
EventsOK ==
  \A m \in Machine : /\ eventGenerated[m] => who = m /\ at = "loop"
                     /\ InAction(m) => currentState[m] = at

-----------------------------------------------------------------------------
(* The machines.  At rest: no event and no action.                         *)

AtRest(m) == ~eventGenerated[m] /\ ~InAction(m)

EngineOK ==
  /\ AtRest("Engine") => engine \in {"IDLE", "START_CENTRIFUGE_TEST", "START_PRESSURE_TEST"}
  /\ eventGenerated["Engine"] =>
       \/ engine = "IDLE" /\ newState["Engine"] = "START_CENTRIFUGE_TEST"
       \/ engine = "START_CENTRIFUGE_TEST" /\ newState["Engine"] = "START_PRESSURE_TEST"
       \/ engine = "START_PRESSURE_TEST" /\ newState["Engine"] = "COMPLETED"
       \/ /\ engine \in {"START_CENTRIFUGE_TEST", "START_PRESSURE_TEST"}
          /\ newState["Engine"] = "FAILED"
       \/ engine \in {"COMPLETED", "FAILED"} /\ newState["Engine"] = "IDLE"

PressureOK ==
  /\ AtRest("Pressure") => pressure = "IDLE" /\ newState["Pressure"] = "IDLE"
  /\ InAction("Pressure") => /\ pressure \in {"START_TEST", "COMPLETED", "IDLE"}
                             /\ newState["Pressure"] = pressure
  /\ eventGenerated["Pressure"] =>
       \/ pressure = "IDLE" /\ newState["Pressure"] = "START_TEST"
       \/ pressure = "START_TEST" /\ newState["Pressure"] = "COMPLETED"
       \/ pressure = "COMPLETED" /\ newState["Pressure"] = "IDLE"

\* The poll timer between a start and a stop, before it is connected, and when it is
\* connected but stopped.
Polled   == pollEnabled /\ pollConnected
Unpolled == ~pollEnabled /\ ~pollConnected
Paused   == ~pollEnabled /\ pollConnected

CentrifugeAtRest ==
  \/ centrifuge = "IDLE" /\ Unpolled /\ m_speed \in {0, -1}
  \/ centrifuge = "ACCELERATION" /\ Polled /\ m_speed = 0
  \/ centrifuge = "WAIT_FOR_ACCELERATION" /\ Polled /\ m_speed \in 1 .. TargetSpeed - 1
  \/ centrifuge = "DECELERATION" /\ Polled /\ m_speed = TargetSpeed
  \/ centrifuge = "WAIT_FOR_DECELERATION" /\ Polled /\ m_speed \in 0 .. TargetSpeed - 1

CentrifugeInAction ==
  \/ centrifuge = "START_TEST" /\ Unpolled /\ m_speed = 0
  \/ centrifuge = "ACCELERATION" /\ Paused /\ m_speed = 0
  \/ centrifuge = "WAIT_FOR_ACCELERATION" /\ Polled /\ m_speed \in 0 .. TargetSpeed - 1
  \/ centrifuge = "DECELERATION" /\ Paused /\ m_speed = TargetSpeed
  \/ centrifuge = "WAIT_FOR_DECELERATION" /\ Polled /\ m_speed \in 0 .. TargetSpeed
  \/ centrifuge \in {"COMPLETED", "IDLE"} /\ Paused /\ m_speed = -1

CentrifugeAtEvent(s) ==
  \/ centrifuge = "IDLE" /\ s = "START_TEST" /\ Unpolled /\ m_speed \in {0, -1}
  \/ centrifuge = "START_TEST" /\ s = "ACCELERATION" /\ Paused /\ m_speed = 0
  \/ centrifuge = "ACCELERATION" /\ s = "WAIT_FOR_ACCELERATION" /\ Polled /\ m_speed = 0
  \/ /\ centrifuge = "WAIT_FOR_ACCELERATION" /\ s = "WAIT_FOR_ACCELERATION" /\ Polled
     /\ m_speed \in 1 .. TargetSpeed - 1
  \/ /\ centrifuge = "WAIT_FOR_ACCELERATION" /\ s = "DECELERATION" /\ Polled
     /\ m_speed = TargetSpeed
  \/ /\ centrifuge = "DECELERATION" /\ s = "WAIT_FOR_DECELERATION" /\ Polled
     /\ m_speed = TargetSpeed
  \/ /\ centrifuge = "WAIT_FOR_DECELERATION" /\ s = "WAIT_FOR_DECELERATION" /\ Polled
     /\ m_speed \in 0 .. TargetSpeed - 1
  \/ centrifuge = "WAIT_FOR_DECELERATION" /\ s = "COMPLETED" /\ Polled /\ m_speed = -1
  \/ centrifuge = "COMPLETED" /\ s = "IDLE" /\ Paused /\ m_speed = -1

CentrifugeOK ==
  /\ AtRest("Centrifuge") => CentrifugeAtRest
  /\ InAction("Centrifuge") => CentrifugeInAction /\ newState["Centrifuge"] = centrifuge
  /\ eventGenerated["Centrifuge"] => CentrifugeAtEvent(newState["Centrifuge"])

-----------------------------------------------------------------------------
(* The runs.                                                               *)

Messages == {"Start", "Complete", "Cancel", "Poll"}

\* The centrifuge test has passed, once and for all: the speed stays at -1, and the
\* guard of another start fails.
SpunDown == /\ m_speed = -1
            /\ centrifuge = "IDLE" \/ (centrifuge = "COMPLETED" /\ eventGenerated["Centrifuge"])

\* main() has been told of a completed run, or will be.
ReportedToMain ==
  \/ uiQueue > 0 \/ selfTestEngineCompleted
  \/ runs > 1 \/ (runs = 1 /\ main = "start")

\* The state of the engine from the first completion to the report.
EnginePasses ==
  \/ engine = "START_PRESSURE_TEST"
  \/ Event("Engine", "START_PRESSURE_TEST") \/ Event("Engine", "COMPLETED")
  \/ engine = "COMPLETED" /\ InAction("Engine")

\* The pressure test has been started and has not yet passed.
PressureRuns ==
  \/ Event("Engine", "START_PRESSURE_TEST")
  \/ engine = "START_PRESSURE_TEST" /\ InAction("Engine")
  \/ Event("Pressure", "START_TEST") \/ Event("Pressure", "COMPLETED")
  \/ InAction("Pressure") /\ pressure \in {"START_TEST", "COMPLETED"}

MainOK ==
  /\ runs \in 0 .. Runs /\ (main = "start" => runs < Runs)
  /\ main \in {"start", "waiting", "exitUI", "exitEngine", "done"}
  /\ main # "start" => runs > 0
  /\ main \in {"exitUI", "exitEngine", "done"} => selfTestEngineCompleted
  /\ (~uiOpen \/ ~m_threadOpen) => main \in {"exitUI", "exitEngine", "done"}
  /\ uiQueue \in {0, 1}

\* Before the centrifuge has passed, and after main() has been told.
BeforeOK ==
  ~SpunDown => passed = {} /\ ~reported /\ ~ReportedToMain /\ ~Queued("Complete")
               /\ ~EnginePasses
AfterOK ==
  ReportedToMain => ~Queued("Complete") /\ ~EnginePasses

\* One completion is queued at most.  Only a run that began while one was queued, and
\* so is not its own, can go on without the centrifuge having passed in it.
OneComplete ==
  \A i, j \in DOMAIN m_thread :
    m_thread[i] = "Complete" /\ m_thread[j] = "Complete" => i = j
OwnPassed == own => "Centrifuge" \in passed
CompleteOK ==
  /\ OneComplete
  /\ Queued("Complete") => /\ OwnPassed
                           /\ engine = "START_PRESSURE_TEST" => "Pressure" \in passed

PassedOK ==
  /\ EnginePasses => OwnPassed
  /\ PressureRuns => "Pressure" \notin passed /\ ~Queued("Complete")
  /\ Event("Engine", "COMPLETED") \/ (engine = "COMPLETED" /\ InAction("Engine"))
       => "Pressure" \in passed /\ ~Queued("Complete")
  /\ engine \in {"START_CENTRIFUGE_TEST", "START_PRESSURE_TEST"} => ~reported
  /\ engine = "START_CENTRIFUGE_TEST" => "Pressure" \notin passed
  /\ engine = "COMPLETED" => (reported <=> eventGenerated["Engine"])
  /\ engine = "COMPLETED" /\ reported => ReportedToMain

States == UNION {StatesOf(m) : m \in Machine}
CallsTotal == DOMAIN calls = Thread /\ calls = [t \in Thread |-> calls[t]]
Plain ==
  /\ eventGenerated \in [Machine -> BOOLEAN]
  /\ currentState \in [Machine -> States] /\ newState \in [Machine -> States]
  /\ CallsTotal
  /\ \A m \in Machine : currentState[m] \in StatesOf(m) /\ newState[m] \in StatesOf(m)
  /\ m_speed \in Int
  /\ pollEnabled \in BOOLEAN /\ pollConnected \in BOOLEAN /\ expired \in BOOLEAN
  /\ m_thread \in Seq(Messages)
  /\ m_threadOpen \in BOOLEAN /\ uiOpen \in BOOLEAN
  /\ selfTestEngineCompleted \in BOOLEAN
  /\ made \in 0 .. ClientBound
  /\ fault = FALSE
  /\ passed \subseteq {"Centrifuge", "Pressure"} /\ reported \in BOOLEAN
  /\ cancelling \in BOOLEAN /\ own \in BOOLEAN

Inv == /\ Plain /\ StackOK /\ EventsOK
       /\ EngineOK /\ PressureOK /\ CentrifugeOK
       /\ MainOK /\ BeforeOK /\ AfterOK /\ CompleteOK /\ PassedOK
-----------------------------------------------------------------------------
(* The stack.                                                              *)

Places(m) == StatesOf(m) \cup {"loop"}

LEMMA OneFrame ==
  ASSUME NEW f, NEW g
  PROVE  /\ <<f>> # <<>> /\ Len(<<f>>) = 1 /\ <<f>>[1] = f
         /\ Replace(<<f>>, g) = <<g>> /\ Pop(<<f>>) = <<>>
         /\ Append(<<>>, f) = <<f>> /\ Append(<<f>>, g) = <<f, g>>
<1> DEFINE S == {f, g}
<1>1. <<f>> \in Seq(S) /\ Len(<<f>>) = 1 /\ <<f>>[1] = f /\ <<f>> # <<>>
  OBVIOUS
<1>2. Replace(<<f>>, g) = <<g>>
  BY DEF Replace
<1>3. Pop(<<f>>) = <<>>
  BY DEF Pop
<1>4. Append(<<>>, f) = <<>> \o <<f>> /\ Append(<<f>>, g) = <<f>> \o <<g>>
  BY AppendIsConcat, EmptySeq, <1>1
<1>5. Append(<<>>, f) = <<f>>
  BY ConcatEmptySeq, <1>1, <1>4
<1>6. Append(<<f>>, g) = <<f, g>>
  <2>1. /\ Append(<<f>>, g) \in Seq(S) /\ Len(Append(<<f>>, g)) = 2
        /\ Append(<<f>>, g)[1] = f /\ Append(<<f>>, g)[2] = g
    BY AppendProperties, <1>1
  <2>2. <<f, g>> \in Seq(S) /\ Len(<<f, g>>) = 2 /\ <<f, g>>[1] = f /\ <<f, g>>[2] = g
    OBVIOUS
  <2>3. \A i \in 1 .. Len(<<f, g>>) : <<f, g>>[i] = Append(<<f>>, g)[i]
    BY <2>1, <2>2
  <2> HIDE DEF S
  <2> QED
    BY SeqEqual, <2>1, <2>2, <2>3
<1> QED
  BY <1>1, <1>2, <1>3, <1>5, <1>6

LEMMA TwoFrames ==
  ASSUME NEW e, NEW f, NEW g
  PROVE  /\ <<e, f>> # <<>> /\ Len(<<e, f>>) = 2 /\ <<e, f>>[2] = f
         /\ Replace(<<e, f>>, g) = <<e, g>> /\ Pop(<<e, f>>) = <<e>>
<1> DEFINE S == {e, f}
<1>1. /\ <<e, f>> \in Seq(S) /\ Len(<<e, f>>) = 2
      /\ <<e, f>>[1] = e /\ <<e, f>>[2] = f /\ <<e, f>> # <<>>
  OBVIOUS
<1>2. Replace(<<e, f>>, g) = <<e, g>>
  BY DEF Replace
<1>3. Pop(<<e, f>>) = <<e>>
  <2>1. Pop(<<e, f>>) = SubSeq(<<e, f>>, 1, 1)
    BY <1>1 DEF Pop
  <2>2. \A i \in 1 .. 1 : <<e, f>>[i] \in S
    BY <1>1
  <2>3. /\ SubSeq(<<e, f>>, 1, 1) \in Seq(S) /\ Len(SubSeq(<<e, f>>, 1, 1)) = 1
        /\ SubSeq(<<e, f>>, 1, 1)[1] = e
    BY <1>1, <2>2, SubSeqProperties
  <2>4. <<e>> \in Seq(S) /\ Len(<<e>>) = 1 /\ <<e>>[1] = e
    OBVIOUS
  <2> QED
    BY <2>1, <2>3, <2>4, SeqEqual
<1> QED
  BY <1>1, <1>2, <1>3

\* The innermost call, from the stack.
LEMMA Innermost ==
  ASSUME NEW e, NEW f
  PROVE  /\ Stack = <<>> => who = "none" /\ at = "none"
         /\ Stack = <<f>> => who = f.machine /\ at = f.at
         /\ Stack = <<e, f>> => who = f.machine /\ at = f.at
  BY OneFrame, TwoFrames DEF who, at

LEMMA InnermostNext ==
  ASSUME NEW e, NEW f
  PROVE  /\ Stack' = <<>> => who' = "none" /\ at' = "none"
         /\ Stack' = <<f>> => who' = f.machine /\ at' = f.at
         /\ Stack' = <<e, f>> => who' = f.machine /\ at' = f.at
  BY OneFrame, TwoFrames DEF who, at

\* The client is in no call, and the place of the engine's thread is that of the one
\* action that can be taken.
LEMMA ActiveIs ==
  ASSUME NEW t \in Thread, NEW m, NEW s, StackOK, Active(t, Frame(m, s))
  PROVE  t = Engine /\ who = m /\ at = s
<1>1. t = Engine
  BY ThreadAssumption DEF Active, StackOK, Engine
<1>2. Stack # <<>> /\ Stack[Len(Stack)] = Frame(m, s)
  BY <1>1 DEF Active, Stack
<1> QED
  BY <1>1, <1>2 DEF who, at, Frame

\* The three shapes of a stack that is not empty, by its innermost call.
LEMMA Shapes ==
  ASSUME StackOK, Stack # <<>>
  PROVE  \/ /\ who \in {"Engine", "Centrifuge"} /\ at \in Places(who)
            /\ Stack = <<Frame(who, at)>>
         \/ /\ who = "Centrifuge" /\ engine = "START_CENTRIFUGE_TEST" /\ at \in Places(who)
            /\ Stack = <<AtLoop("Engine"), Frame(who, at)>>
         \/ /\ who = "Pressure" /\ engine = "START_PRESSURE_TEST" /\ at \in Places(who)
            /\ Stack = <<AtLoop("Engine"), Frame(who, at)>>
<1>1. CASE \E m \in {"Engine", "Centrifuge"} : \E s \in StatesOf(m) \cup {"loop"} :
             Stack = <<Frame(m, s)>>
  <2>1. PICK m \in {"Engine", "Centrifuge"} :
               \E s \in StatesOf(m) \cup {"loop"} : Stack = <<Frame(m, s)>>
    BY <1>1
  <2>3. PICK s \in StatesOf(m) \cup {"loop"} : Stack = <<Frame(m, s)>>
    BY <2>1
  <2>2. who = m /\ at = s
    BY <2>3, Innermost DEF Frame
  <2> QED
    BY <2>3, <2>2 DEF Places
<1>2. ASSUME NEW m, NEW s \in StatesOf(m) \cup {"loop"},
             Stack = <<AtLoop("Engine"), Frame(m, s)>>
      PROVE  who = m /\ at = s
  BY <1>2, Innermost DEF Frame
<1> QED
  BY <1>1, <1>2 DEF StackOK, Places

-----------------------------------------------------------------------------
(* What the ends and the calls of StateEngine() do to the stack.           *)

LEMMA OneCallNext ==
  ASSUME NEW m \in {"Engine", "Centrifuge"}, NEW s \in Places(m),
         calls'["Client"] = <<>>, Stack' = <<Frame(m, s)>>
  PROVE  StackOK' /\ who' = m /\ at' = s
<1>1. Frame(m, s).machine = m /\ Frame(m, s).at = s
  BY DEF Frame
<1>2. who' = m /\ at' = s
  BY <1>1, InnermostNext
<1>3. StackOK'
  BY DEF StackOK, Places
<1> QED
  BY <1>2, <1>3

LEMMA TwoCallsNext ==
  ASSUME NEW m, NEW s \in Places(m),
         calls'["Client"] = <<>>, Stack' = <<AtLoop("Engine"), Frame(m, s)>>,
         \/ m = "Centrifuge" /\ engine' = "START_CENTRIFUGE_TEST"
         \/ m = "Pressure" /\ engine' = "START_PRESSURE_TEST"
  PROVE  StackOK' /\ who' = m /\ at' = s
<1>1. Frame(m, s).machine = m /\ Frame(m, s).at = s
  BY DEF Frame
<1>2. who' = m /\ at' = s
  BY <1>1, InnermostNext
<1>3. StackOK'
  BY DEF StackOK, Places
<1> QED
  BY <1>2, <1>3

\* The innermost call goes on at another place.
LEMMA Replaced ==
  ASSUME NEW m \in Machine, NEW s \in Places(m), StackOK, CallsTotal, who = m,
         calls' = [calls EXCEPT ![Engine] = Replace(@, Frame(m, s))],
         m # "Engine" => engine' = engine
  PROVE  StackOK' /\ who' = m /\ at' = s /\ CallsTotal'
<1>1. Stack # <<>>
  BY MachineAssumption DEF who
<1>2. Stack' = Replace(Stack, Frame(m, s)) /\ calls'["Client"] = <<>> /\ CallsTotal'
  BY ThreadAssumption DEF Stack, Engine, StackOK, CallsTotal
<1>3. CASE m \in {"Engine", "Centrifuge"} /\ Stack = <<Frame(who, at)>>
  <2>1. Stack' = <<Frame(m, s)>>
    BY <1>2, <1>3, OneFrame
  <2> QED
    BY <1>2, <1>3, <2>1, OneCallNext
<1>4. CASE m = "Centrifuge" /\ engine = "START_CENTRIFUGE_TEST"
           /\ Stack = <<AtLoop("Engine"), Frame(who, at)>>
  <2>1. Stack' = <<AtLoop("Engine"), Frame(m, s)>>
    BY <1>2, <1>4, TwoFrames
  <2> QED
    BY <1>2, <1>4, <2>1, TwoCallsNext
<1>5. CASE m = "Pressure" /\ engine = "START_PRESSURE_TEST"
           /\ Stack = <<AtLoop("Engine"), Frame(who, at)>>
  <2>1. Stack' = <<AtLoop("Engine"), Frame(m, s)>>
    BY <1>2, <1>5, TwoFrames
  <2> QED
    BY <1>2, <1>5, <2>1, TwoCallsNext
<1> QED
  BY <1>1, <1>3, <1>4, <1>5, Shapes

\* The innermost call returns, to the engine's if there is one.
LEMMA Popped ==
  ASSUME StackOK, CallsTotal, Stack # <<>>, engine' = engine,
         calls' = [calls EXCEPT ![Engine] = Pop(@)]
  PROVE  /\ StackOK' /\ CallsTotal'
         /\ \/ who' = "none" /\ at' = "none"
            \/ who # "Engine" /\ who' = "Engine" /\ at' = "loop"
<1>1. Stack' = Pop(Stack) /\ calls'["Client"] = <<>> /\ CallsTotal'
  BY ThreadAssumption DEF Stack, Engine, StackOK, CallsTotal
<1>2. CASE Stack = <<Frame(who, at)>>
  <2>1. Stack' = <<>>
    BY <1>1, <1>2, OneFrame
  <2> QED
    BY <1>1, <2>1, InnermostNext DEF StackOK
<1>3. CASE who # "Engine" /\ Stack = <<AtLoop("Engine"), Frame(who, at)>>
  <2>1. Stack' = <<Frame("Engine", "loop")>>
    BY <1>1, <1>3, TwoFrames DEF AtLoop, Frame
  <2> QED
    BY <1>1, <1>3, <2>1, OneCallNext DEF Places
<1> QED
  BY <1>2, <1>3, Shapes

\* A message begins a call, or is ignored.
LEMMA Called ==
  ASSUME NEW m \in {"Engine", "Centrifuge"}, StackOK, CallsTotal,
         calls' = [calls EXCEPT ![Engine] = Append(<<>>, AtLoop(m))]
  PROVE  StackOK' /\ who' = m /\ at' = "loop" /\ CallsTotal'
<1>1. Stack' = <<Frame(m, "loop")>> /\ calls'["Client"] = <<>> /\ CallsTotal'
  BY ThreadAssumption, OneFrame DEF Stack, Engine, StackOK, AtLoop, Frame, CallsTotal
<1> QED
  BY <1>1, OneCallNext DEF Places

LEMMA NotCalled ==
  ASSUME StackOK, CallsTotal,
         calls' = [calls EXCEPT ![Engine] = <<>>]
  PROVE  StackOK' /\ who' = "none" /\ at' = "none" /\ CallsTotal'
<1>1. Stack' = <<>> /\ calls'["Client"] = <<>> /\ CallsTotal'
  BY ThreadAssumption DEF Stack, Engine, StackOK, CallsTotal
<1> QED
  BY <1>1, InnermostNext DEF StackOK

\* A state of the engine calls Start() of its test.
LEMMA CalledFromEngine ==
  ASSUME NEW m \in Machine,
         StackOK, CallsTotal, who = "Engine", engine' = engine,
         \/ m = "Centrifuge" /\ engine = "START_CENTRIFUGE_TEST"
         \/ m = "Pressure" /\ engine = "START_PRESSURE_TEST",
         calls' = [calls EXCEPT ![Engine] =
                     Append(Replace(calls[Engine], AtLoop("Engine")), AtLoop(m))]
  PROVE  StackOK' /\ who' = m /\ at' = "loop" /\ CallsTotal'
<1>1. Stack = <<Frame(who, at)>>
  BY Shapes DEF who
<1>2. Stack' = Append(Replace(Stack, AtLoop("Engine")), AtLoop(m))
      /\ calls'["Client"] = <<>> /\ CallsTotal'
  BY ThreadAssumption DEF Stack, Engine, StackOK, CallsTotal
<1>3. Replace(Stack, AtLoop("Engine")) = <<AtLoop("Engine")>>
  BY <1>1, OneFrame
<1>4. AtLoop(m) = Frame(m, "loop")
  BY DEF AtLoop, Frame
<1>5. Stack' = <<AtLoop("Engine"), Frame(m, "loop")>>
  BY <1>2, <1>3, <1>4, OneFrame
<1> QED
  BY <1>2, <1>5, TwoCallsNext DEF Places

LEMMA SameCalls ==
  ASSUME calls' = calls
  PROVE  /\ Stack' = Stack /\ who' = who /\ at' = at
         /\ StackOK /\ engine' = engine => StackOK'
<1>1. Stack' = Stack
  BY DEF Stack
<1>2. who' = who /\ at' = at
  BY <1>1 DEF who, at
<1> QED
  BY <1>1, <1>2 DEF StackOK
-----------------------------------------------------------------------------
(* The queue.                                                              *)

LEMMA AppendQueue ==
  ASSUME NEW message \in Messages, m_thread \in Seq(Messages), Dispatch(message)
  PROVE  /\ m_thread' \in Seq(Messages)
         /\ \A y : Queued(y)' => Queued(y) \/ y = message
         /\ OneComplete /\ (message = "Complete" => ~Queued("Complete")) => OneComplete'
<1>1. CASE m_thread' = m_thread
  BY <1>1 DEF Queued, OneComplete
<1>2. CASE m_thread' = Append(m_thread, message)
  <2>1. /\ m_thread' \in Seq(Messages) /\ Len(m_thread') = Len(m_thread) + 1
        /\ \A i \in 1 .. Len(m_thread) : m_thread'[i] = m_thread[i]
        /\ m_thread'[Len(m_thread) + 1] = message
    BY <1>2, AppendProperties
  <2>2. /\ Len(m_thread) \in Nat /\ DOMAIN m_thread = 1 .. Len(m_thread)
        /\ DOMAIN m_thread' = 1 .. Len(m_thread) + 1
    BY <2>1, LenProperties
  <2>3. \A i \in DOMAIN m_thread' : \/ i \in DOMAIN m_thread /\ m_thread'[i] = m_thread[i]
                                    \/ i = Len(m_thread) + 1 /\ m_thread'[i] = message
    BY <2>1, <2>2
  <2>4. \A y : Queued(y)' => Queued(y) \/ y = message
    BY <2>3 DEF Queued
  <2>5. OneComplete /\ (message = "Complete" => ~Queued("Complete")) => OneComplete'
    BY <2>2, <2>3 DEF Queued, OneComplete
  <2> QED
    BY <2>1, <2>4, <2>5
<1> QED
  BY <1>1, <1>2 DEF Dispatch, Dispatched

LEMMA TailQueue ==
  ASSUME m_thread \in Seq(Messages), m_thread # <<>>, m_thread' = Tail(m_thread)
  PROVE  /\ m_thread' \in Seq(Messages)
         /\ Head(m_thread) \in Messages /\ Queued(Head(m_thread))
         /\ \A y : Queued(y)' => Queued(y)
         /\ OneComplete => OneComplete'
         /\ OneComplete /\ Head(m_thread) = "Complete" => ~Queued("Complete")'
<1>1. /\ m_thread' \in Seq(Messages) /\ Len(m_thread') = Len(m_thread) - 1
      /\ \A i \in 1 .. Len(m_thread') : m_thread'[i] = m_thread[i + 1]
      /\ Head(m_thread) \in Messages
  BY HeadTailProperties
<1>2. /\ Len(m_thread) \in Nat \ {0} /\ DOMAIN m_thread = 1 .. Len(m_thread)
      /\ DOMAIN m_thread' = 1 .. Len(m_thread) - 1
  BY <1>1, LenProperties, EmptySeq
<1>3. Head(m_thread) = m_thread[1] /\ 1 \in DOMAIN m_thread
  BY <1>2
<1>4. \A i \in DOMAIN m_thread' : /\ i + 1 \in DOMAIN m_thread /\ 1 < i + 1
                                  /\ m_thread'[i] = m_thread[i + 1]
  BY <1>1, <1>2
<1>5. Queued(Head(m_thread)) /\ \A y : Queued(y)' => Queued(y)
  BY <1>3, <1>4 DEF Queued
<1>6. OneComplete => OneComplete' /\ (Head(m_thread) = "Complete" => ~Queued("Complete")')
  BY <1>2, <1>3, <1>4 DEF Queued, OneComplete
<1> QED
  BY <1>1, <1>5, <1>6

LEMMA SameQueue ==
  ASSUME m_thread' = m_thread
  PROVE  /\ \A y : Queued(y)' <=> Queued(y)
         /\ OneComplete' <=> OneComplete
  BY DEF Queued, OneComplete

-----------------------------------------------------------------------------
(* The steps of the other threads.                                         *)

LEMMA InitInv ==
  ASSUME Init
  PROVE  Inv
<1> USE DEF Init, StateMachineInit
<1>1. Stack = <<>> /\ who = "none" /\ at = "none" /\ calls["Client"] = <<>>
  BY ThreadAssumption, Innermost DEF Stack, Engine
<1>2. StackOK
  BY <1>1 DEF StackOK
<1>3. ~Queued("Complete") /\ m_thread \in Seq(Messages) /\ OneComplete
  BY EmptySeq DEF Queued, OneComplete
<1>4. \A m \in Machine : "IDLE" \in StatesOf(m)
  BY MachineAssumption DEF StatesOf, SubTestStates
<1>9. /\ currentState \in [Machine -> States] /\ newState \in [Machine -> States]
      /\ \A m \in Machine : currentState[m] \in StatesOf(m) /\ newState[m] \in StatesOf(m)
  BY <1>4 DEF States
<1>10. eventGenerated \in [Machine -> BOOLEAN] /\ CallsTotal /\ m_speed \in Int
  BY DEF CallsTotal
<1>11. made \in 0 .. ClientBound
  BY ParameterAssumption
<1>5. Plain
  BY <1>3, <1>9, <1>10, <1>11 DEF Plain
<1>6. EventsOK /\ EngineOK /\ PressureOK /\ CentrifugeOK
  BY <1>1, MachineAssumption DEF EventsOK, EngineOK, PressureOK, CentrifugeOK, InAction,
     CentrifugeAtRest, AtRest, engine, pressure, centrifuge, Unpolled
<1>7. MainOK
  BY <1>3, ParameterAssumption DEF MainOK
<1>8. BeforeOK /\ AfterOK /\ CompleteOK /\ PassedOK
  BY <1>1, <1>3, MachineAssumption DEF BeforeOK, AfterOK, CompleteOK, PassedOK,
     SpunDown, ReportedToMain, EnginePasses, PressureRuns, Event, InAction, engine, pressure,
     centrifuge
<1> QED
  BY <1>2, <1>5, <1>6, <1>7, <1>8 DEF Inv

MachinesInv == StackOK /\ EventsOK /\ EngineOK /\ PressureOK /\ CentrifugeOK

LEMMA SameMachines ==
  ASSUME UNCHANGED machineVars, UNCHANGED <<m_speed, pollEnabled, pollConnected>>
  PROVE  /\ MachinesInv => MachinesInv'
         /\ \A m, s : Event(m, s)' <=> Event(m, s)
         /\ \A m : InAction(m)' <=> InAction(m)
         /\ engine' = engine /\ pressure' = pressure /\ centrifuge' = centrifuge
         /\ (SpunDown' <=> SpunDown) /\ (EnginePasses' <=> EnginePasses)
         /\ (PressureRuns' <=> PressureRuns)
<1>1. /\ calls' = calls /\ currentState' = currentState /\ newState' = newState
      /\ eventGenerated' = eventGenerated
  BY DEF machineVars
<1>2. engine' = engine /\ pressure' = pressure /\ centrifuge' = centrifuge
  BY <1>1 DEF engine, pressure, centrifuge
<1>3. who' = who /\ at' = at /\ (StackOK => StackOK')
  BY <1>1, <1>2, SameCalls
<1>4. \A m : InAction(m)' <=> InAction(m)
  BY <1>3 DEF InAction
<1>5. \A m, s : Event(m, s)' <=> Event(m, s)
  BY <1>1 DEF Event
<1>6. EventsOK => EventsOK'
  BY <1>1, <1>3, <1>4 DEF EventsOK
<1>7. EngineOK /\ PressureOK /\ CentrifugeOK => (EngineOK /\ PressureOK /\ CentrifugeOK)'
  BY <1>1, <1>2, <1>4 DEF EngineOK, PressureOK, CentrifugeOK, AtRest, CentrifugeAtRest,
     CentrifugeInAction, CentrifugeAtEvent, Polled, Unpolled, Paused
<1>8. (SpunDown' <=> SpunDown) /\ (EnginePasses' <=> EnginePasses)
      /\ (PressureRuns' <=> PressureRuns)
  BY <1>1, <1>2, <1>4, <1>5 DEF SpunDown, EnginePasses, PressureRuns
<1> QED
  BY <1>2, <1>3, <1>4, <1>5, <1>6, <1>7, <1>8 DEF MachinesInv

RunsInv == MainOK /\ BeforeOK /\ AfterOK /\ CompleteOK /\ PassedOK

\* A message of another thread, and what the other threads do to the flags of main().
LEMMA OtherSteps ==
  ASSUME Inv, Confined,
         UNCHANGED <<machineVars, m_speed, pollEnabled, pollConnected, fault, history>>,
         m_thread' \in Seq(Messages), m_threadOpen' \in BOOLEAN, uiOpen' \in BOOLEAN,
         selfTestEngineCompleted' \in BOOLEAN, expired' \in BOOLEAN, made' \in 0 .. ClientBound,
         MainOK', ReportedToMain' <=> ReportedToMain,
         Queued("Complete")' => Queued("Complete"), OneComplete'
  PROVE  Inv'
<1>1. MachinesInv'
  BY SameMachines DEF Inv, MachinesInv
<1>2. Plain'
  BY DEF Inv, Plain, machineVars, history, CallsTotal
<1>3. BeforeOK' /\ AfterOK' /\ CompleteOK'
  BY SameMachines DEF Inv, BeforeOK, AfterOK, CompleteOK, OwnPassed, history
<1>4. PassedOK'
  <2>1. eventGenerated' = eventGenerated
    BY DEF machineVars
  <2> QED
    BY <2>1, SameMachines DEF Inv, PassedOK, OwnPassed, history
<1> QED
  BY <1>1, <1>2, <1>3, <1>4 DEF Inv, MachinesInv

LEMMA TimerSteps ==
  ASSUME Inv, Confined, TimerThread
  PROVE  Inv'
<1> USE DEF Inv, Plain, MainOK, interface, program
<1>1. CASE TimerExpires
  <2>1. MainOK' /\ (ReportedToMain' <=> ReportedToMain)
    BY <1>1, SameQueue DEF TimerExpires, ReportedToMain
  <2> QED
    BY <1>1, <2>1, SameQueue, OtherSteps DEF TimerExpires, CompleteOK
<1>2. CASE TimerInvokes
  <2>1. /\ m_thread' \in Seq(Messages) /\ \A y : Queued(y)' => Queued(y) \/ y = "Poll"
        /\ OneComplete'
    BY <1>2, AppendQueue DEF TimerInvokes, Messages, CompleteOK
  <2>2. MainOK' /\ (ReportedToMain' <=> ReportedToMain)
    BY <1>2, <2>1 DEF TimerInvokes, ReportedToMain
  <2> QED
    BY <1>2, <2>1, <2>2, OtherSteps DEF TimerInvokes
<1> QED
  BY <1>1, <1>2 DEF TimerThread

LEMMA MainSteps ==
  ASSUME Inv, Confined, MainThread \/ OnSelfTestEngineComplete
  PROVE  Inv'
<1> USE DEF Inv, Plain, MainOK, interface, program, timer
<1>1. CASE OnSelfTestEngineComplete
  <2>1. MainOK' /\ (ReportedToMain' <=> ReportedToMain)
    BY <1>1, SameQueue DEF OnSelfTestEngineComplete, ReportedToMain
  <2> QED
    BY <1>1, <2>1, SameQueue, OtherSteps
       DEF OnSelfTestEngineComplete, CompleteOK
<1>2. CASE MainStarts
  <2>1. /\ m_thread' \in Seq(Messages) /\ \A y : Queued(y)' => Queued(y) \/ y = "Start"
        /\ OneComplete'
    BY <1>2, AppendQueue DEF MainStarts, Messages, CompleteOK
  <2>2. MainOK' /\ (ReportedToMain' <=> ReportedToMain)
    BY <1>2, <2>1, ParameterAssumption DEF MainStarts, ReportedToMain
  <2> QED
    BY <1>2, <2>1, <2>2, OtherSteps DEF MainStarts
<1>3. CASE MainWaits
  <2>1. CASE ~selfTestEngineCompleted
    <3>0. /\ UNCHANGED <<main, uiOpen, selfTestEngineCompleted, runs>>
          /\ UNCHANGED <<uiQueue, m_thread, m_threadOpen, made>>
      BY <1>3, <2>1 DEF MainWaits
    <3>1. MainOK' /\ (ReportedToMain' <=> ReportedToMain)
      BY <3>0, SameQueue DEF ReportedToMain
    <3> QED
      BY <1>3, <3>0, <3>1, SameQueue, OtherSteps DEF MainWaits, CompleteOK
  <2>2. CASE selfTestEngineCompleted /\ runs < Runs
    <3>3. ~(~selfTestEngineCompleted) /\ runs # Runs
      BY <2>2, ParameterAssumption
    <3>1. /\ main' = "start" /\ selfTestEngineCompleted' = FALSE /\ runs' = runs
          /\ UNCHANGED <<uiOpen, uiQueue, m_thread, m_threadOpen, made>>
      BY <1>3, <2>2, <3>3 DEF MainWaits
    <3>2. MainOK' /\ (ReportedToMain' <=> ReportedToMain)
      BY <1>3, <2>2, <3>1, SameQueue, ParameterAssumption DEF MainWaits, ReportedToMain
    <3> QED
      BY <1>3, <3>1, <3>2, SameQueue, OtherSteps DEF MainWaits, CompleteOK
  <2>3. CASE selfTestEngineCompleted /\ runs = Runs
    <3>1. /\ main' = "exitUI" /\ uiOpen' = FALSE /\ runs' = runs
          /\ UNCHANGED <<selfTestEngineCompleted, uiQueue, m_thread, m_threadOpen, made>>
      BY <1>3, <2>3, ParameterAssumption DEF MainWaits
    <3>2. MainOK' /\ (ReportedToMain' <=> ReportedToMain)
      BY <1>3, <2>3, <3>1, SameQueue, ParameterAssumption DEF MainWaits, ReportedToMain
    <3> QED
      BY <1>3, <3>1, <3>2, SameQueue, OtherSteps DEF MainWaits, CompleteOK
  <2>4. ~selfTestEngineCompleted \/ runs < Runs \/ runs = Runs
    BY ParameterAssumption
  <2> QED
    BY <2>1, <2>2, <2>3, <2>4
<1>4. CASE MainExitsEngine
  <2>1. MainOK' /\ (ReportedToMain' <=> ReportedToMain)
    BY <1>4, SameQueue DEF MainExitsEngine, ReportedToMain
  <2> QED
    BY <1>4, <2>1, SameQueue, OtherSteps DEF MainExitsEngine, CompleteOK
<1>5. CASE MainReturns
  <2>1. MainOK' /\ (ReportedToMain' <=> ReportedToMain)
    BY <1>5, SameQueue DEF MainReturns, ReportedToMain
  <2> QED
    BY <1>5, <2>1, SameQueue, OtherSteps DEF MainReturns, CompleteOK
<1> QED
  BY <1>1, <1>2, <1>3, <1>4, <1>5 DEF MainThread

LEMMA ClientSteps ==
  ASSUME Inv, Confined, ClientThread
  PROVE  Inv'
<1> USE DEF Inv, Plain, MainOK, interface, program, timer
<1>0. ASSUME NEW call, ClientMay(call)
      PROVE  made' \in 0 .. ClientBound
  BY <1>0, ParameterAssumption DEF ClientMay
<1>1. CASE ClientStart
  <2>3. made' \in 0 .. ClientBound
    BY <1>0, <1>1 DEF ClientStart
  <2>1. /\ m_thread' \in Seq(Messages) /\ \A y : Queued(y)' => Queued(y) \/ y = "Start"
        /\ OneComplete'
    BY <1>1, AppendQueue DEF ClientStart, Messages, CompleteOK
  <2>2. MainOK' /\ (ReportedToMain' <=> ReportedToMain)
    BY <1>1, <2>1 DEF ClientStart, ReportedToMain
  <2> QED
    BY <1>1, <2>1, <2>2, <2>3, OtherSteps DEF ClientStart
<1>2. CASE ClientCancel("Cancel")
  <2>0. Dispatch("Cancel") /\ UNCHANGED <<machineVars, cancelling>>
    BY <1>2 DEF ClientCancel
  <2>3. made' \in 0 .. ClientBound
    BY <1>0, <1>2 DEF ClientCancel
  <2>1. /\ m_thread' \in Seq(Messages) /\ \A y : Queued(y)' => Queued(y) \/ y = "Cancel"
        /\ OneComplete'
    BY <2>0, AppendQueue DEF Messages, CompleteOK
  <2>2. MainOK' /\ (ReportedToMain' <=> ReportedToMain)
    BY <1>2, <2>1 DEF ClientCancel, ReportedToMain
  <2> QED
    BY <1>2, <2>0, <2>1, <2>2, <2>3, OtherSteps DEF ClientCancel, history
<1>3. CASE ClientCancel("CancelDirect")
  BY <1>3 DEF ClientCancel, ClientMay, Confined
<1> QED
  BY <1>1, <1>2, <1>3 DEF ClientThread

-----------------------------------------------------------------------------
(* Messages, and the end of a call of StateEngine().                       *)

LEMMA SameProgram ==
  ASSUME UNCHANGED <<m_threadOpen, interface, program>>
  PROVE  /\ ReportedToMain' <=> ReportedToMain
         /\ MainOK => MainOK'
  BY DEF interface, program, ReportedToMain, MainOK

LEMMA Idling ==
  ASSUME Inv, ~Busy(Engine)
  PROVE  /\ Stack = <<>> /\ who = "none" /\ at = "none"
         /\ \A m \in Machine : ~eventGenerated[m] /\ ~InAction(m) /\ AtRest(m)
         /\ engine \in {"IDLE", "START_CENTRIFUGE_TEST", "START_PRESSURE_TEST"}
         /\ pressure = "IDLE" /\ CentrifugeAtRest
<1>1. Stack = <<>> /\ who = "none" /\ at = "none"
  BY Innermost DEF Busy, Stack
<1>2. \A m \in Machine : ~eventGenerated[m] /\ ~InAction(m) /\ AtRest(m)
  BY <1>1, MachineAssumption DEF Inv, EventsOK, InAction, AtRest
<1> QED
  BY <1>1, <1>2, MachineAssumption DEF Inv, EngineOK, PressureOK, CentrifugeOK

LEMMA Leaves ==
  ASSUME NEW t \in Thread, NEW m \in Machine, Inv, Leave(t, m)
  PROVE  Inv'
<1>1. t = Engine /\ who = m /\ at = "loop" /\ ~eventGenerated[m]
  BY ActiveIs DEF Leave, StateEngineReturn, AtLoop, Frame, Inv
<1>2. /\ UNCHANGED <<currentState, newState, eventGenerated, m_speed, timer, m_thread>>
      /\ UNCHANGED <<m_threadOpen, interface, program, fault, history>>
      /\ calls' = [calls EXCEPT ![Engine] = Pop(@)]
  BY <1>1 DEF Leave, StateEngineReturn
<1>3. engine' = engine /\ centrifuge' = centrifuge /\ pressure' = pressure
  BY <1>2 DEF engine, centrifuge, pressure
<1>4. /\ StackOK' /\ CallsTotal'
      /\ (who' = "none" /\ at' = "none") \/ (who' = "Engine" /\ at' = "loop")
  BY <1>1, <1>2, <1>3, Popped, MachineAssumption DEF Inv, Plain, who
<1>5. \A k \in Machine : /\ ~eventGenerated[k] /\ ~eventGenerated'[k]
                         /\ ~InAction(k) /\ ~InAction(k)'
  BY <1>1, <1>2, <1>4, MachineAssumption DEF Inv, EventsOK, InAction
<1>6. EventsOK'
  BY <1>5 DEF EventsOK
<1>7. EngineOK' /\ PressureOK'
  BY <1>2, <1>3, <1>5, MachineAssumption DEF Inv, EngineOK, PressureOK, AtRest
<1>8. CentrifugeOK'
  BY <1>2, <1>3, <1>5, MachineAssumption DEF Inv, CentrifugeOK, AtRest, CentrifugeAtRest,
     timer, Polled, Unpolled
<1>9. Plain'
  BY <1>2, <1>4 DEF Inv, Plain, timer, interface, program, history
<1>10. MainOK' /\ (ReportedToMain' <=> ReportedToMain)
  BY <1>2, SameProgram, SameQueue DEF Inv
<1>11. /\ SpunDown' <=> SpunDown
       /\ EnginePasses' <=> EnginePasses
       /\ PressureRuns' <=> PressureRuns
  BY <1>2, <1>3, <1>5, MachineAssumption DEF SpunDown, EnginePasses, PressureRuns, Event
<1>12. BeforeOK' /\ AfterOK' /\ CompleteOK'
  BY <1>2, <1>3, <1>10, <1>11, SameQueue DEF Inv, BeforeOK, AfterOK, CompleteOK, OwnPassed,
     history
<1>13. PassedOK'
  BY <1>2, <1>3, <1>5, <1>10, <1>11, SameQueue, MachineAssumption
     DEF Inv, PassedOK, OwnPassed, Event, history, program
<1> QED
  BY <1>4, <1>6, <1>7, <1>8, <1>9, <1>10, <1>12, <1>13 DEF Inv

\* A message is ignored in the state that its machine is in.
LEMMA Ignored ==
  ASSUME Inv, HandleMessage, Transition(Head(m_thread)) = EVENT_IGNORED
  PROVE  Inv'
<1>1. /\ ~Busy(Engine) /\ m_thread # <<>> /\ m_thread' = Tail(m_thread)
      /\ UNCHANGED <<currentState, newState, eventGenerated, m_speed, timer, m_threadOpen>>
      /\ UNCHANGED <<interface, program, fault, passed, reported, own>>
      /\ calls' = [calls EXCEPT ![Engine] = <<>>] /\ cancelling' = cancelling
  BY DEF HandleMessage, ExternalEvent, EVENT_IGNORED, Inv, Plain
<1>2. engine' = engine /\ centrifuge' = centrifuge /\ pressure' = pressure
  BY <1>1 DEF engine, centrifuge, pressure
<1>3. StackOK' /\ who' = "none" /\ at' = "none" /\ CallsTotal'
  BY <1>1, NotCalled DEF Inv, Plain
<1>4. \A k \in Machine : /\ ~eventGenerated[k] /\ ~eventGenerated'[k]
                         /\ ~InAction(k) /\ ~InAction(k)'
  BY <1>1, <1>3, Idling, MachineAssumption DEF InAction
<1>5. EventsOK'
  BY <1>4 DEF EventsOK
<1>6. EngineOK' /\ PressureOK'
  BY <1>1, <1>2, <1>4, MachineAssumption DEF Inv, EngineOK, PressureOK, AtRest
<1>7. CentrifugeOK'
  BY <1>1, <1>2, <1>4, MachineAssumption DEF Inv, CentrifugeOK, AtRest, CentrifugeAtRest,
     timer, Polled, Unpolled
<1>8. /\ m_thread' \in Seq(Messages) /\ \A y : Queued(y)' => Queued(y)
      /\ OneComplete => OneComplete'
  BY <1>1, TailQueue DEF Inv, Plain
<1>9. Plain'
  BY <1>1, <1>3, <1>8 DEF Inv, Plain, timer, interface, program
<1>10. MainOK' /\ (ReportedToMain' <=> ReportedToMain)
  BY <1>1, <1>8, SameProgram DEF Inv
<1>11. /\ SpunDown' <=> SpunDown
       /\ EnginePasses' <=> EnginePasses
       /\ PressureRuns' <=> PressureRuns
  BY <1>1, <1>2, <1>4, MachineAssumption DEF SpunDown, EnginePasses, PressureRuns, Event
<1>12. BeforeOK' /\ AfterOK' /\ CompleteOK'
  BY <1>1, <1>2, <1>8, <1>10, <1>11 DEF Inv, BeforeOK, AfterOK, CompleteOK, OwnPassed
<1>13. PassedOK'
  BY <1>1, <1>2, <1>4, <1>8, <1>10, <1>11, MachineAssumption
     DEF Inv, PassedOK, OwnPassed, Event, program
<1> QED
  BY <1>3, <1>5, <1>6, <1>7, <1>9, <1>10, <1>12, <1>13 DEF Inv

\* What a message means to a machine at rest.
LEMMA Transitions ==
  ASSUME Inv, ~Busy(Engine), m_thread # <<>>, Transition(Head(m_thread)) # EVENT_IGNORED
  PROVE  \/ /\ Head(m_thread) = "Start" /\ engine = "IDLE"
            /\ Transition(Head(m_thread)) = "START_CENTRIFUGE_TEST"
         \/ /\ Head(m_thread) = "Complete" /\ engine = "START_CENTRIFUGE_TEST"
            /\ Transition(Head(m_thread)) = "START_PRESSURE_TEST"
         \/ /\ Head(m_thread) = "Complete" /\ engine = "START_PRESSURE_TEST"
            /\ Transition(Head(m_thread)) = "COMPLETED"
         \/ /\ Head(m_thread) = "Cancel"
            /\ engine \in {"START_CENTRIFUGE_TEST", "START_PRESSURE_TEST"}
            /\ Transition(Head(m_thread)) = "FAILED"
         \/ /\ Head(m_thread) = "Poll"
            /\ \/ /\ centrifuge \in {"ACCELERATION", "WAIT_FOR_ACCELERATION"}
                  /\ Transition(Head(m_thread)) = "WAIT_FOR_ACCELERATION"
               \/ /\ centrifuge \in {"DECELERATION", "WAIT_FOR_DECELERATION"}
                  /\ Transition(Head(m_thread)) = "WAIT_FOR_DECELERATION"
<1>1. Head(m_thread) \in Messages
  BY HeadTailProperties DEF Inv, Plain
<1>2. engine \in {"IDLE", "START_CENTRIFUGE_TEST", "START_PRESSURE_TEST"} /\ CentrifugeAtRest
  BY Idling
<1>3. CASE Head(m_thread) = "Start"
  BY <1>2, <1>3 DEF Transition, MachineOf, StartEngine, engine
<1>4. CASE Head(m_thread) = "Complete"
  BY <1>2, <1>4 DEF Transition, MachineOf, Complete, engine
<1>5. CASE Head(m_thread) = "Cancel"
  BY <1>2, <1>5 DEF Transition, MachineOf, Cancel, engine
<1>6. CASE Head(m_thread) = "Poll"
  <2>1. Transition("Poll") = Poll(centrifuge)
    BY DEF Transition, MachineOf, centrifuge
  <2> QED
    BY <1>2, <1>6, <2>1 DEF Poll, CentrifugeAtRest
<1> QED
  BY <1>1, <1>3, <1>4, <1>5, <1>6 DEF Messages

LEMMA MessageSteps ==
  ASSUME Inv, HandleMessage, Transition(Head(m_thread)) # EVENT_IGNORED
  PROVE  Inv'
<1> DEFINE message == Head(m_thread)
           m == MachineOf(message)
           s == Transition(message)
<1>1. /\ ~Busy(Engine) /\ m_thread # <<>> /\ m_thread' = Tail(m_thread)
      /\ UNCHANGED <<currentState, m_speed, timer, m_threadOpen>>
      /\ UNCHANGED <<interface, program, fault, passed, reported, own>>
      /\ calls' = [calls EXCEPT ![Engine] = Append(<<>>, AtLoop(m))]
      /\ newState' = [newState EXCEPT ![m] = s]
      /\ eventGenerated' = [eventGenerated EXCEPT ![m] = TRUE]
      /\ cancelling' \in BOOLEAN
  BY DEF HandleMessage, ExternalEvent, InternalEvent, Inv, Plain
<1>2. engine' = engine /\ centrifuge' = centrifuge /\ pressure' = pressure
  BY <1>1 DEF engine, centrifuge, pressure
<1>3. m \in {"Engine", "Centrifuge"} /\ (m = "Centrifuge" <=> message = "Poll")
  BY DEF MachineOf
<1>4. \/ message = "Start" /\ engine = "IDLE" /\ s = "START_CENTRIFUGE_TEST"
      \/ message = "Complete" /\ engine = "START_CENTRIFUGE_TEST" /\ s = "START_PRESSURE_TEST"
      \/ message = "Complete" /\ engine = "START_PRESSURE_TEST" /\ s = "COMPLETED"
      \/ /\ message = "Cancel" /\ engine \in {"START_CENTRIFUGE_TEST", "START_PRESSURE_TEST"}
         /\ s = "FAILED"
      \/ /\ message = "Poll"
         /\ \/ /\ centrifuge \in {"ACCELERATION", "WAIT_FOR_ACCELERATION"}
               /\ s = "WAIT_FOR_ACCELERATION"
            \/ /\ centrifuge \in {"DECELERATION", "WAIT_FOR_DECELERATION"}
               /\ s = "WAIT_FOR_DECELERATION"
  BY <1>1, Transitions
<1>5. /\ m_thread' \in Seq(Messages) /\ Queued(message) /\ \A y : Queued(y)' => Queued(y)
      /\ OneComplete' /\ (message = "Complete" => ~Queued("Complete")')
  BY <1>1, TailQueue DEF Inv, Plain, CompleteOK
<1> HIDE DEF message, m, s
<1>6. StackOK' /\ who' = m /\ at' = "loop" /\ CallsTotal'
  BY <1>1, <1>3, Called DEF Inv, Plain
<1>7. \A k \in Machine : /\ ~eventGenerated[k] /\ (eventGenerated'[k] <=> k = m)
                         /\ ~InAction(k) /\ ~InAction(k)'
                         /\ newState'[k] = IF k = m THEN s ELSE newState[k]
  BY <1>1, <1>6, Idling, MachineAssumption DEF InAction, Inv, Plain
<1>8. EventsOK'
  BY <1>6, <1>7 DEF EventsOK
<1>9. EngineOK' /\ PressureOK'
  BY <1>1, <1>2, <1>3, <1>4, <1>7, MachineAssumption DEF Inv, EngineOK, PressureOK, AtRest
<1>10. CentrifugeOK'
  <2>1. CentrifugeAtRest /\ UNCHANGED <<m_speed, pollEnabled, pollConnected>>
    BY <1>1, Idling DEF timer
  <2>2. CASE m = "Centrifuge"
    <3>1. newState'["Centrifuge"] = s /\ ~AtRest("Centrifuge")' /\ ~InAction("Centrifuge")'
      BY <1>7, <2>2, MachineAssumption DEF AtRest
    <3>2. CentrifugeAtEvent(newState["Centrifuge"])'
      BY <1>2, <1>3, <1>4, <2>1, <2>2, <3>1, ParameterAssumption
         DEF CentrifugeAtRest, CentrifugeAtEvent, Polled, Unpolled
    <3> QED
      BY <3>1, <3>2 DEF CentrifugeOK
  <2>3. CASE m # "Centrifuge"
    <3>1. ~eventGenerated'["Centrifuge"] /\ ~InAction("Centrifuge")'
      BY <1>7, <2>3, MachineAssumption
    <3>2. CentrifugeAtRest'
      BY <1>2, <2>1 DEF CentrifugeAtRest, Polled, Unpolled
    <3> QED
      BY <3>1, <3>2 DEF CentrifugeOK
  <2> QED
    BY <2>2, <2>3
<1>11. Plain'
  <2>1. s \in StatesOf(m)
    BY <1>3, <1>4 DEF StatesOf, SubTestStates, CentrifugePolls
  <2>2. /\ newState' \in [Machine -> States]
        /\ \A k \in Machine : newState'[k] \in StatesOf(k)
    BY <1>1, <1>3, <2>1, MachineAssumption DEF Inv, Plain, States
  <2>3. eventGenerated' \in [Machine -> BOOLEAN]
    BY <1>1 DEF Inv, Plain
  <2> QED
    BY <1>1, <1>5, <1>6, <2>2, <2>3 DEF Inv, Plain, timer, interface, program
<1>12. MainOK' /\ (ReportedToMain' <=> ReportedToMain)
  BY <1>1, <1>5, SameProgram DEF Inv
<1>13. SpunDown' <=> SpunDown
  BY <1>1, <1>2, <1>3, <1>4, <1>7, MachineAssumption DEF SpunDown
<1>14. /\ \A k, y : k \in Machine => (Event(k, y)' <=> (k = m /\ y = s))
       /\ \A k, y : k \in Machine => ~Event(k, y)
  BY <1>7 DEF Event
<1>15. BeforeOK' /\ AfterOK' /\ CompleteOK'
  BY <1>1, <1>2, <1>3, <1>4, <1>5, <1>7, <1>12, <1>13, <1>14, MachineAssumption
     DEF Inv, BeforeOK, AfterOK, CompleteOK, EnginePasses, OwnPassed
<1>16. PassedOK'
  <2>1. EnginePasses' => OwnPassed'
    BY <1>1, <1>2, <1>3, <1>4, <1>5, <1>7, <1>14, MachineAssumption
       DEF Inv, PassedOK, CompleteOK, EnginePasses, OwnPassed
  <2>2. PressureRuns' => Event("Engine", "START_PRESSURE_TEST")'
    BY <1>3, <1>4, <1>7, <1>14, MachineAssumption DEF PressureRuns
  <2>3. PressureRuns' => "Pressure" \notin passed' /\ ~Queued("Complete")'
    BY <1>1, <1>3, <1>4, <1>5, <1>14, <2>2, MachineAssumption DEF Inv, PassedOK
  <2>4. Event("Engine", "COMPLETED")' => "Pressure" \in passed' /\ ~Queued("Complete")'
    <3> SUFFICES ASSUME Event("Engine", "COMPLETED")'
                 PROVE  "Pressure" \in passed' /\ ~Queued("Complete")'
      OBVIOUS
    <3>1. message = "Complete" /\ engine = "START_PRESSURE_TEST"
      BY <1>3, <1>4, <1>14, MachineAssumption
    <3>2. "Pressure" \in passed
      BY <1>5, <3>1 DEF Inv, CompleteOK
    <3> QED
      BY <1>1, <1>5, <3>1, <3>2
  <2>5. engine' # "COMPLETED" /\ ~InAction("Engine")'
    BY <1>2, <1>4, <1>7, <1>1, Idling, MachineAssumption
  <2> QED
    BY <1>1, <1>2, <2>1, <2>3, <2>4, <2>5 DEF Inv, PassedOK
<1> QED
  BY <1>6, <1>8, <1>9, <1>10, <1>11, <1>12, <1>15, <1>16 DEF Inv

-----------------------------------------------------------------------------
(* A turn of the loop.                                                     *)

\* What is common to the machines: no assertion fails.
LEMMA TurnIs ==
  ASSUME NEW t \in Thread, NEW m \in Machine, Inv, Turn(t, m)
  PROVE  /\ who = m /\ at = "loop" /\ eventGenerated[m] /\ newState[m] \in StatesOf(m)
         /\ \A k \in Machine : ~InAction(k) /\ (eventGenerated[k] <=> k = m)
         /\ \A k \in Machine : ~eventGenerated'[k]
         /\ UNCHANGED <<newState, m_speed, pollConnected, expired, m_thread, m_threadOpen>>
         /\ UNCHANGED <<interface, program, fault>>
         /\ Guard(m) => /\ currentState' = [currentState EXCEPT ![m] = newState[m]]
                        /\ StackOK' /\ who' = m /\ at' = newState[m] /\ CallsTotal'
                        /\ \A k \in Machine : InAction(k)' <=> k = m
         /\ ~Guard(m) => /\ currentState' = currentState
                         /\ StackOK' /\ who' = who /\ at' = at /\ CallsTotal'
                         /\ \A k \in Machine : ~InAction(k)'
         /\ pollEnabled' = (pollEnabled /\ ~ExitStopsPolling(m))
         /\ passed' = (IF Begins(m) THEN {} ELSE passed)
         /\ reported' = (reported /\ ~Begins(m))
         /\ own' = (IF Begins(m) THEN ~Queued("Complete") ELSE own)
         /\ cancelling' \in BOOLEAN
         /\ eventGenerated' \in [Machine -> BOOLEAN]
<1>1. t = Engine /\ who = m /\ at = "loop" /\ eventGenerated[m]
  BY ActiveIs DEF Turn, HasEvent, AtLoop, Frame, Inv
<1>2. newState[m] \in StatesOf(m) /\ newState[m] # CANNOT_HAPPEN
  BY MachineAssumption DEF Inv, Plain, StatesOf, SubTestStates, CentrifugePolls, CANNOT_HAPPEN
<1>3. \A k \in Machine : ~InAction(k) /\ (eventGenerated[k] <=> k = m)
  BY <1>1 DEF Inv, EventsOK, InAction
<1>4. /\ StateEngine(t, m, Guard(m))
      /\ pollEnabled' = (pollEnabled /\ ~ExitStopsPolling(m))
      /\ passed' = (IF Begins(m) THEN {} ELSE passed)
      /\ reported' = (reported /\ ~Begins(m))
      /\ own' = (IF Begins(m) THEN ~Queued("Complete") ELSE own)
      /\ cancelling' \in BOOLEAN
      /\ UNCHANGED <<m_speed, pollConnected, expired, m_thread, m_threadOpen>>
      /\ UNCHANGED <<interface, program, fault>>
  BY <1>2 DEF Turn, StateEngineAsserts, Inv, Plain
<1>5. /\ \A k \in Machine : ~eventGenerated'[k] /\ newState' = newState
      /\ eventGenerated' \in [Machine -> BOOLEAN]
  BY <1>3, <1>4 DEF StateEngine, Inv, Plain
<1>6. CASE Guard(m)
  <2>1. /\ currentState' = [currentState EXCEPT ![m] = newState[m]]
        /\ calls' = [calls EXCEPT ![Engine] = Replace(@, Frame(m, newState[m]))]
    BY <1>1, <1>4, <1>6 DEF StateEngine, AtAction, Frame
  <2>2. m # "Engine" => engine' = engine
    BY <2>1, MachineAssumption DEF engine, Inv, Plain
  <2>3. newState[m] \in Places(m) /\ newState[m] # "loop"
    BY <1>2, MachineAssumption DEF Places, StatesOf, SubTestStates, CentrifugePolls
  <2>4. StackOK' /\ who' = m /\ at' = newState[m] /\ CallsTotal'
    BY <1>1, <2>1, <2>2, <2>3, Replaced DEF Inv, Plain
  <2> QED
    BY <1>1, <1>2, <1>3, <1>4, <1>5, <1>6, <2>1, <2>3, <2>4 DEF InAction
<1>7. CASE ~Guard(m)
  <2>1. currentState' = currentState /\ calls' = calls
    BY <1>4, <1>7 DEF StateEngine
  <2>2. StackOK' /\ who' = who /\ at' = at /\ CallsTotal'
    BY <2>1, SameCalls DEF engine, Inv, Plain, CallsTotal
  <2> QED
    BY <1>1, <1>2, <1>3, <1>4, <1>5, <1>7, <2>1, <2>2 DEF InAction
<1> QED
  BY <1>6, <1>7

LEMMA TurnOfEngine ==
  ASSUME NEW t \in Thread, Inv, Turn(t, "Engine")
  PROVE  Inv'
<1> DEFINE s == newState["Engine"]
<1>1. "Engine" \in Machine /\ "Centrifuge" \in Machine /\ "Pressure" \in Machine
  BY MachineAssumption
<1>2. Guard("Engine") /\ ~ExitStopsPolling("Engine")
      /\ (Begins("Engine") <=> s = "START_CENTRIFUGE_TEST")
  BY DEF Guard, ExitStopsPolling, Begins
<1>3. /\ \A k \in Machine : /\ ~InAction(k) /\ (eventGenerated[k] <=> k = "Engine")
                            /\ ~eventGenerated'[k] /\ (InAction(k)' <=> k = "Engine")
      /\ UNCHANGED <<newState, m_speed, pollConnected, expired, m_thread, m_threadOpen>>
      /\ UNCHANGED <<interface, program, fault, pollEnabled>>
      /\ currentState' = [currentState EXCEPT !["Engine"] = s]
      /\ StackOK' /\ who' = "Engine" /\ at' = s /\ CallsTotal'
      /\ passed' = (IF s = "START_CENTRIFUGE_TEST" THEN {} ELSE passed)
      /\ reported' = (reported /\ s # "START_CENTRIFUGE_TEST")
      /\ own' = (IF s = "START_CENTRIFUGE_TEST" THEN ~Queued("Complete") ELSE own)
      /\ cancelling' \in BOOLEAN /\ eventGenerated' \in [Machine -> BOOLEAN]
      /\ s \in StatesOf("Engine")
  BY <1>1, <1>2, TurnIs DEF Inv, Plain
<1>4. engine' = s /\ centrifuge' = centrifuge /\ pressure' = pressure
  BY <1>1, <1>3 DEF engine, centrifuge, pressure, Inv, Plain
<1>5. \/ engine = "IDLE" /\ s = "START_CENTRIFUGE_TEST"
      \/ engine = "START_CENTRIFUGE_TEST" /\ s = "START_PRESSURE_TEST"
      \/ engine = "START_PRESSURE_TEST" /\ s = "COMPLETED"
      \/ engine \in {"START_CENTRIFUGE_TEST", "START_PRESSURE_TEST"} /\ s = "FAILED"
      \/ engine \in {"COMPLETED", "FAILED"} /\ s = "IDLE"
  BY <1>1, <1>3 DEF Inv, EngineOK
<1>6. EventsOK'
  BY <1>1, <1>3, <1>4 DEF EventsOK, engine
<1>7. EngineOK' /\ PressureOK'
  BY <1>1, <1>3, <1>4, MachineAssumption DEF Inv, EngineOK, PressureOK, AtRest
<1>8. CentrifugeOK'
  BY <1>1, <1>3, <1>4, MachineAssumption DEF Inv, CentrifugeOK, AtRest, CentrifugeAtRest,
     Polled, Unpolled
<1>9. Plain'
  <2>1. /\ currentState' \in [Machine -> States]
        /\ \A k \in Machine : currentState'[k] \in StatesOf(k)
    BY <1>1, <1>3 DEF Inv, Plain, States
  <2> QED
    BY <1>3, <2>1 DEF Inv, Plain, interface, program
<1>10. MainOK' /\ (ReportedToMain' <=> ReportedToMain)
  BY <1>3, SameProgram, SameQueue DEF Inv
<1>11. \A y : Queued(y)' <=> Queued(y)
  BY <1>3, SameQueue
<1>12. /\ SpunDown' <=> SpunDown
       /\ \A k, y : k \in Machine =>
            ~Event(k, y)' /\ (Event(k, y) <=> (k = "Engine" /\ y = s))
  BY <1>1, <1>3, <1>4 DEF SpunDown, Event
<1> HIDE DEF s
<1>17. EnginePasses' => EnginePasses
  BY <1>1, <1>3, <1>4, <1>5, <1>12 DEF EnginePasses
<1>14. BeforeOK' /\ AfterOK' /\ CompleteOK'
  <2>1. BeforeOK' /\ AfterOK'
    BY <1>3, <1>10, <1>11, <1>12, <1>17 DEF Inv, BeforeOK, AfterOK
  <2>2. CompleteOK'
    <3>1. s = "START_PRESSURE_TEST" => ~Queued("Complete")
      BY <1>1, <1>12 DEF Inv, PassedOK, PressureRuns
    <3> QED
      BY <1>3, <1>4, <1>5, <1>11, <3>1, SameQueue DEF Inv, CompleteOK, OwnPassed
  <2> QED
    BY <2>1, <2>2
<1>15. PassedOK'
  <2>1. EnginePasses' => OwnPassed'
    BY <1>1, <1>3, <1>4, <1>5, <1>12 DEF Inv, PassedOK, EnginePasses, OwnPassed
  <2>2. PressureRuns' => "Pressure" \notin passed' /\ ~Queued("Complete")'
    BY <1>1, <1>3, <1>4, <1>5, <1>11, <1>12 DEF Inv, PassedOK, PressureRuns
  <2>3. engine' = "COMPLETED" => "Pressure" \in passed' /\ ~Queued("Complete")'
    BY <1>1, <1>3, <1>4, <1>5, <1>11, <1>12 DEF Inv, PassedOK
  <2>4. /\ engine' \in {"START_CENTRIFUGE_TEST", "START_PRESSURE_TEST"} => ~reported'
        /\ engine' = "START_CENTRIFUGE_TEST" => "Pressure" \notin passed'
        /\ engine' = "COMPLETED" => ~reported' /\ ~eventGenerated'["Engine"]
    BY <1>1, <1>3, <1>4, <1>5 DEF Inv, PassedOK
  <2> QED
    BY <1>1, <1>12, <2>1, <2>2, <2>3, <2>4 DEF PassedOK
<1> QED
  BY <1>3, <1>6, <1>7, <1>8, <1>9, <1>10, <1>14, <1>15 DEF Inv

LEMMA TurnOfTest ==
  ASSUME NEW t \in Thread, NEW m \in {"Centrifuge", "Pressure"}, Inv, Turn(t, m)
  PROVE  Inv'
<1> DEFINE s == newState[m]
<1>1. "Engine" \in Machine /\ "Centrifuge" \in Machine /\ "Pressure" \in Machine /\ m \in Machine
  BY MachineAssumption
<1>2. ~Begins(m)
  BY DEF Begins
<1>3. /\ \A k \in Machine : /\ ~InAction(k) /\ (eventGenerated[k] <=> k = m)
                            /\ ~eventGenerated'[k] /\ (InAction(k)' <=> Guard(m) /\ k = m)
      /\ UNCHANGED <<newState, m_speed, pollConnected, expired, m_thread, m_threadOpen>>
      /\ UNCHANGED <<interface, program, fault, passed, reported, own>>
      /\ currentState' = IF Guard(m) THEN [currentState EXCEPT ![m] = s] ELSE currentState
      /\ StackOK' /\ who' = m /\ at' = (IF Guard(m) THEN s ELSE "loop") /\ CallsTotal'
      /\ pollEnabled' = (pollEnabled /\ ~ExitStopsPolling(m))
      /\ cancelling' \in BOOLEAN /\ eventGenerated' \in [Machine -> BOOLEAN]
      /\ s \in StatesOf(m)
  BY <1>1, <1>2, TurnIs DEF Inv, Plain
<1>4. /\ engine' = engine /\ currentState'[m] = IF Guard(m) THEN s ELSE currentState[m]
      /\ m # "Centrifuge" => centrifuge' = centrifuge
      /\ m # "Pressure" => pressure' = pressure
  BY <1>1, <1>3 DEF engine, centrifuge, pressure, Inv, Plain
<1>5. m # "Centrifuge" => Guard(m) /\ ~ExitStopsPolling(m)
  BY DEF Guard, ExitStopsPolling
<1>6. EventsOK'
  BY <1>1, <1>3, <1>4 DEF EventsOK
<1>7. EngineOK' /\ PressureOK'
  BY <1>1, <1>3, <1>4, <1>5 DEF Inv, EngineOK, PressureOK, AtRest, pressure
<1>8. /\ CentrifugeOK'
      /\ SpunDown' <=> SpunDown
  <2>1. CASE m = "Pressure"
    BY <1>1, <1>3, <1>4, <1>5, <2>1 DEF Inv, CentrifugeOK, AtRest, CentrifugeAtRest, SpunDown,
       Polled, Unpolled
  <2>2. CASE m = "Centrifuge"
    <3>1. CentrifugeAtEvent(s)
      BY <1>1, <1>3, <2>2 DEF Inv, CentrifugeOK
    <3>2. /\ Guard(m) <=> (s = "START_TEST" => m_speed = 0)
          /\ ExitStopsPolling(m) <=> /\ centrifuge \in {"WAIT_FOR_ACCELERATION", "WAIT_FOR_DECELERATION"}
                                     /\ s # centrifuge
      BY <2>2 DEF Guard, GuardStartTest, ExitStopsPolling, centrifuge
    <3>3. centrifuge' = IF Guard(m) THEN s ELSE centrifuge
      BY <1>4, <2>2 DEF centrifuge
    <3>4. CASE Guard(m)
      <4>0. InAction("Centrifuge")' /\ ~AtRest("Centrifuge")'
        BY <1>1, <1>3, <2>2, <3>4 DEF AtRest
      <4>4. /\ centrifuge' = s /\ m_speed' = m_speed /\ pollConnected' = pollConnected
            /\ pollEnabled' = (pollEnabled /\ ~ExitStopsPolling(m))
        BY <1>3, <3>3, <3>4
      <4>5. CentrifugeInAction'
        <5>1. /\ Polled /\ ~ExitStopsPolling(m) => Polled'
              /\ Polled /\ ExitStopsPolling(m) => Paused'
              /\ (Unpolled => Unpolled') /\ (Paused => Paused')
          BY <4>4 DEF Polled, Unpolled, Paused
        <5>2. m_speed' \in Int /\ TargetSpeed \in Nat \ {0}
          BY <4>4, ParameterAssumption DEF Inv, Plain
        <5> HIDE DEF s
        <5>3. CASE centrifuge \in {"IDLE", "START_TEST", "ACCELERATION", "DECELERATION"}
          BY <3>1, <3>2, <3>4, <4>4, <5>1, <5>2, <5>3 DEF CentrifugeAtEvent, CentrifugeInAction
        <5>4. CASE centrifuge = "WAIT_FOR_ACCELERATION"
          BY <3>1, <3>2, <3>4, <4>4, <5>1, <5>2, <5>4 DEF CentrifugeAtEvent, CentrifugeInAction
        <5>5. CASE centrifuge = "WAIT_FOR_DECELERATION"
          BY <3>1, <3>2, <3>4, <4>4, <5>1, <5>2, <5>5 DEF CentrifugeAtEvent, CentrifugeInAction
        <5>6. CASE centrifuge = "COMPLETED"
          BY <3>1, <3>2, <3>4, <4>4, <5>1, <5>2, <5>6 DEF CentrifugeAtEvent, CentrifugeInAction
        <5> QED
          BY <3>1, <5>3, <5>4, <5>5, <5>6 DEF CentrifugeAtEvent
      <4>1. CentrifugeInAction' /\ InAction("Centrifuge")' /\ ~AtRest("Centrifuge")'
        BY <4>0, <4>5
      <4>2. newState'["Centrifuge"] = centrifuge' /\ ~eventGenerated'["Centrifuge"]
        BY <1>1, <1>3, <2>2, <3>3, <3>4
      <4>3. SpunDown' <=> SpunDown
        BY <1>1, <1>3, <2>2, <3>1, <3>2, <3>3, <3>4, ParameterAssumption
           DEF CentrifugeAtEvent, SpunDown
      <4> QED
        BY <2>2, <4>1, <4>2, <4>3 DEF CentrifugeOK
    <3>5. CASE ~Guard(m)
      <4>1. centrifuge' = "IDLE" /\ centrifuge = "IDLE" /\ m_speed = -1 /\ CentrifugeAtRest'
        BY <1>3, <3>1, <3>2, <3>3, <3>5 DEF CentrifugeAtEvent, CentrifugeAtRest, Unpolled
      <4> QED
        BY <1>1, <1>3, <2>2, <3>5, <4>1 DEF CentrifugeOK, AtRest, SpunDown
    <3> QED
      BY <3>4, <3>5
  <2> QED
    BY <2>1, <2>2
<1>9. Plain'
  <2>1. /\ currentState' \in [Machine -> States]
        /\ \A k \in Machine : currentState'[k] \in StatesOf(k)
    BY <1>1, <1>3 DEF Inv, Plain, States
  <2>2. pollEnabled' \in BOOLEAN
    BY <1>3 DEF Inv, Plain
  <2> QED
    BY <1>3, <2>1, <2>2 DEF Inv, Plain, interface, program
<1>10. MainOK' /\ (ReportedToMain' <=> ReportedToMain)
  BY <1>3, SameProgram, SameQueue DEF Inv
<1>11. \A y : Queued(y)' <=> Queued(y)
  BY <1>3, SameQueue
<1>12. \A k, y : k \in Machine => ~Event(k, y)' /\ (Event(k, y) <=> (k = m /\ y = s))
  BY <1>1, <1>3 DEF Event
<1>13. engine \in {"IDLE", "START_CENTRIFUGE_TEST", "START_PRESSURE_TEST"}
  BY <1>1, <1>3 DEF Inv, EngineOK, AtRest
<1> HIDE DEF s
<1>14. BeforeOK' /\ AfterOK' /\ CompleteOK'
  BY <1>1, <1>3, <1>4, <1>8, <1>10, <1>11, <1>12, SameQueue
     DEF Inv, BeforeOK, AfterOK, CompleteOK, EnginePasses, OwnPassed
<1>15. PassedOK'
  <2>1. EnginePasses' => EnginePasses
    BY <1>1, <1>3, <1>4, <1>12 DEF EnginePasses
  <2>2. PressureRuns' => PressureRuns
    BY <1>1, <1>3, <1>4, <1>5, <1>12 DEF PressureRuns, pressure, Inv, PressureOK
  <2> QED
    BY <1>1, <1>3, <1>4, <1>11, <1>12, <1>13, <2>1, <2>2 DEF Inv, PassedOK, OwnPassed
<1> QED
  BY <1>3, <1>6, <1>7, <1>8, <1>9, <1>10, <1>14, <1>15 DEF Inv

-----------------------------------------------------------------------------
(* The ends of the state actions.                                          *)

\* Where the program is when the action of a state is next.
LEMMA InState ==
  ASSUME NEW t \in Thread, NEW m \in Machine, NEW s, s # "loop",
         Inv, Active(t, AtAction(m, s))
  PROVE  /\ t = Engine /\ who = m /\ at = s /\ currentState[m] = s
         /\ \A k \in Machine : ~eventGenerated[k] /\ (InAction(k) <=> k = m)
         /\ \A k \in Machine : k # m => AtRest(k)
<1>1. t = Engine /\ who = m /\ at = s
  BY ActiveIs DEF AtAction, Frame, Inv
<1>2. \A k \in Machine : ~eventGenerated[k] /\ (InAction(k) <=> k = m)
  BY <1>1 DEF Inv, EventsOK, InAction
<1>3. currentState[m] = s
  BY <1>1, <1>2 DEF Inv, EventsOK
<1> QED
  BY <1>1, <1>2, <1>3 DEF AtRest

\* The parts of Plain that only the calls of StateEngine() change.
MachineTypes ==
  /\ eventGenerated \in [Machine -> BOOLEAN]
  /\ currentState \in [Machine -> States] /\ newState \in [Machine -> States]
  /\ CallsTotal
  /\ \A m \in Machine : currentState[m] \in StatesOf(m) /\ newState[m] \in StatesOf(m)

LEMMA Returns ==
  ASSUME NEW t \in Thread, NEW m \in Machine, NEW s, s # "loop",
         Inv, Active(t, AtAction(m, s)), ReturnWithoutEvent(t, m)
  PROVE  /\ UNCHANGED <<currentState, newState, eventGenerated>>
         /\ engine' = engine /\ centrifuge' = centrifuge /\ pressure' = pressure
         /\ StackOK' /\ EventsOK' /\ MachineTypes'
         /\ \A k \in Machine : ~eventGenerated'[k] /\ ~InAction(k)' /\ AtRest(k)'
         /\ \A k, y : k \in Machine => ~Event(k, y) /\ ~Event(k, y)'
<1>1. t = Engine /\ who = m /\ \A k \in Machine : ~eventGenerated[k]
  BY InState
<1>2. /\ UNCHANGED <<currentState, newState, eventGenerated>>
      /\ calls' = [calls EXCEPT ![Engine] = Replace(@, Frame(m, "loop"))]
  BY <1>1 DEF ReturnWithoutEvent, AtLoop, Frame
<1>3. engine' = engine /\ centrifuge' = centrifuge /\ pressure' = pressure
  BY <1>2 DEF engine, centrifuge, pressure
<1>4. StackOK' /\ who' = m /\ at' = "loop" /\ CallsTotal'
  BY <1>1, <1>2, <1>3, Replaced DEF Places, Inv, Plain
<1>5. \A k \in Machine : ~eventGenerated'[k] /\ ~InAction(k)' /\ AtRest(k)'
  BY <1>1, <1>2, <1>4 DEF InAction, AtRest
<1>6. EventsOK' /\ MachineTypes'
  BY <1>2, <1>4, <1>5 DEF EventsOK, MachineTypes, Inv, Plain
<1> QED
  BY <1>1, <1>2, <1>3, <1>4, <1>5, <1>6 DEF Event

LEMMA Raises ==
  ASSUME NEW t \in Thread, NEW m \in Machine, NEW s, NEW e \in StatesOf(m), s # "loop",
         Inv, Active(t, AtAction(m, s)), ReturnWithEvent(t, m, e)
  PROVE  /\ currentState' = currentState
         /\ engine' = engine /\ centrifuge' = centrifuge /\ pressure' = pressure
         /\ StackOK' /\ EventsOK' /\ MachineTypes'
         /\ \A k \in Machine : /\ (eventGenerated'[k] <=> k = m) /\ ~InAction(k)'
                               /\ newState'[k] = (IF k = m THEN e ELSE newState[k])
                               /\ k # m => AtRest(k)'
         /\ \A k, y : k \in Machine => ~Event(k, y) /\ (Event(k, y)' <=> (k = m /\ y = e))
<1>1. t = Engine /\ who = m /\ \A k \in Machine : ~eventGenerated[k]
  BY InState
<1>2. /\ currentState' = currentState
      /\ newState' = [newState EXCEPT ![m] = e]
      /\ eventGenerated' = [eventGenerated EXCEPT ![m] = TRUE]
      /\ calls' = [calls EXCEPT ![Engine] = Replace(@, Frame(m, "loop"))]
  BY <1>1 DEF ReturnWithEvent, InternalEvent, AtLoop, Frame
<1>3. engine' = engine /\ centrifuge' = centrifuge /\ pressure' = pressure
  BY <1>2 DEF engine, centrifuge, pressure
<1>4. StackOK' /\ who' = m /\ at' = "loop" /\ CallsTotal'
  BY <1>1, <1>2, <1>3, Replaced DEF Places, Inv, Plain
<1>5. \A k \in Machine : /\ (eventGenerated'[k] <=> k = m) /\ ~InAction(k)'
                         /\ newState'[k] = (IF k = m THEN e ELSE newState[k])
                         /\ k # m => AtRest(k)'
  BY <1>1, <1>2, <1>4 DEF InAction, AtRest, Inv, Plain
<1>6. EventsOK'
  BY <1>4, <1>5 DEF EventsOK
<1>7. MachineTypes'
  <2>1. newState' \in [Machine -> States] /\ eventGenerated' \in [Machine -> BOOLEAN]
    BY <1>2 DEF Inv, Plain, States
  <2> QED
    BY <1>2, <1>4, <1>5, <2>1 DEF MachineTypes, Inv, Plain
<1> QED
  BY <1>1, <1>2, <1>3, <1>4, <1>5, <1>6, <1>7 DEF Event

\* A machine that is at rest, and stays so.
LEMMA Rests ==
  ASSUME NEW k \in Machine, Inv, AtRest(k), AtRest(k)',
         currentState'[k] = currentState[k], newState'[k] = newState[k],
         k = "Centrifuge" => UNCHANGED <<m_speed, pollEnabled, pollConnected>>
  PROVE  /\ k = "Engine" => EngineOK'
         /\ k = "Pressure" => PressureOK'
         /\ k = "Centrifuge" => CentrifugeOK'
<1>1. CASE k = "Engine"
  BY <1>1 DEF Inv, EngineOK, AtRest, engine
<1>2. CASE k = "Pressure"
  BY <1>2 DEF Inv, PressureOK, AtRest, pressure
<1>3. CASE k = "Centrifuge"
  BY <1>3 DEF Inv, CentrifugeOK, CentrifugeAtRest, AtRest, centrifuge, Polled, Unpolled
<1> QED
  BY <1>1, <1>2, <1>3, MachineAssumption

\* An action that leaves the queues, main() and the results of the tests alone.
LEMMA SameRuns ==
  ASSUME Inv,
         UNCHANGED <<m_thread, m_threadOpen, interface, program, passed, reported, own>>,
         engine' = engine, SpunDown' <=> SpunDown,
         EnginePasses' => EnginePasses, PressureRuns' => PressureRuns,
         InAction("Engine")' => InAction("Engine"),
         \A y \in {"COMPLETED", "FAILED", "START_CENTRIFUGE_TEST"} : ~Event("Engine", y)',
         engine = "COMPLETED" => (eventGenerated'["Engine"] <=> eventGenerated["Engine"])
  PROVE  RunsInv'
<1>1. MainOK' /\ (ReportedToMain' <=> ReportedToMain)
  BY SameProgram, SameQueue DEF Inv
<1>2. \A y : Queued(y)' <=> Queued(y)
  BY SameQueue
<1>3. BeforeOK' /\ AfterOK' /\ CompleteOK'
  BY <1>1, <1>2, SameQueue DEF Inv, BeforeOK, AfterOK, CompleteOK, OwnPassed
<1>4. PassedOK'
  BY <1>1, <1>2 DEF Inv, PassedOK, OwnPassed
<1> QED
  BY <1>1, <1>3, <1>4 DEF RunsInv

-----------------------------------------------------------------------------
(* The state actions.                                                      *)

LEMMA Names ==
  /\ "Engine" \in Machine /\ "Centrifuge" \in Machine /\ "Pressure" \in Machine
  /\ \A m \in Machine : "IDLE" \in StatesOf(m) /\ "COMPLETED" \in StatesOf(m)
                        /\ "FAILED" \in StatesOf(m)
  /\ {"START_TEST", "ACCELERATION", "DECELERATION"} \subseteq StatesOf("Centrifuge")
  /\ "START_TEST" \in StatesOf("Pressure")
  BY MachineAssumption DEF StatesOf, SubTestStates, CentrifugePolls

LEMMA IdleStep ==
  ASSUME NEW t \in Thread, NEW m \in Machine, Inv, Idle(t, m)
  PROVE  Inv'
<1>1. /\ currentState[m] = "IDLE"
      /\ \A k \in Machine : ~eventGenerated[k] /\ (InAction(k) <=> k = m)
                            /\ (k # m => AtRest(k))
  BY InState DEF Idle
<1>2. /\ UNCHANGED <<currentState, newState, eventGenerated>>
      /\ engine' = engine /\ centrifuge' = centrifuge /\ pressure' = pressure
      /\ StackOK' /\ EventsOK' /\ MachineTypes'
      /\ \A k \in Machine : ~eventGenerated'[k] /\ ~InAction(k)' /\ AtRest(k)'
      /\ \A k, y : k \in Machine => ~Event(k, y) /\ ~Event(k, y)'
  BY Returns DEF Idle
<1>3. /\ UNCHANGED <<m_speed, expired, m_thread, m_threadOpen>>
      /\ UNCHANGED <<interface, program, fault, history>>
      /\ pollConnected' = (pollConnected /\ m # "Centrifuge")
      /\ pollEnabled' = (pollEnabled /\ m # "Centrifuge")
  BY DEF Idle
<1>4. EngineOK'
  BY <1>1, <1>2, <1>3, Names, Rests DEF EngineOK, engine
<1>5. PressureOK'
  <2>1. CASE m = "Pressure"
    BY <1>1, <1>2, <2>1, Names DEF Inv, PressureOK, AtRest, pressure
  <2> QED
    BY <1>1, <1>2, <1>3, <2>1, Names, Rests
<1>6. CentrifugeOK'
  <2>1. CASE m = "Centrifuge"
    <3>1. centrifuge = "IDLE" /\ m_speed = -1
      BY <1>1, <2>1, Names DEF Inv, CentrifugeOK, CentrifugeInAction, centrifuge
    <3>2. CentrifugeAtRest'
      BY <1>2, <1>3, <2>1, <3>1 DEF CentrifugeAtRest, Unpolled
    <3> QED
      BY <1>2, <3>2, Names DEF CentrifugeOK
  <2>2. CASE m # "Centrifuge"
    <3>1. UNCHANGED <<m_speed, pollEnabled, pollConnected>>
      BY <1>3, <2>2 DEF Inv, Plain
    <3> QED
      BY <1>1, <1>2, <2>2, <3>1, Names, Rests
  <2> QED
    BY <2>1, <2>2
<1>7. Plain'
  <2>1. pollEnabled' \in BOOLEAN /\ pollConnected' \in BOOLEAN
    BY <1>3 DEF Inv, Plain
  <2> QED
    BY <1>2, <1>3, <2>1 DEF Inv, Plain, MachineTypes, interface, program, history
<1>8. RunsInv'
  <2>1. SpunDown' <=> SpunDown
    BY <1>2, <1>3 DEF SpunDown
  <2>2. EnginePasses' => EnginePasses
    BY <1>2, Names DEF EnginePasses
  <2>3. PressureRuns' => PressureRuns
    BY <1>2, Names DEF PressureRuns
  <2> QED
    BY <1>2, <1>3, <2>1, <2>2, <2>3, Names, SameRuns DEF history
<1> QED
  BY <1>2, <1>4, <1>5, <1>6, <1>7, <1>8 DEF Inv, RunsInv

\* A state action of the centrifuge that generates no event, and leaves it as it
\* may be between two messages.
LEMMA CentrifugeReturns ==
  ASSUME NEW t \in Thread, NEW s, s \in CentrifugePolls, Inv,
         Active(t, AtAction("Centrifuge", s)), ReturnWithoutEvent(t, "Centrifuge"),
         UNCHANGED <<expired, m_thread, m_threadOpen, interface, program, fault, history>>,
         m_speed' \in Int, pollEnabled' \in BOOLEAN, pollConnected' \in BOOLEAN,
         CentrifugeInAction => CentrifugeAtRest'
  PROVE  Inv'
<1>1. /\ centrifuge = s /\ s # "loop" /\ s # "IDLE" /\ s # "COMPLETED"
      /\ \A k \in Machine : ~eventGenerated[k] /\ (InAction(k) <=> k = "Centrifuge")
                            /\ (k # "Centrifuge" => AtRest(k))
  BY InState, Names DEF CentrifugePolls, centrifuge
<1>2. /\ UNCHANGED <<currentState, newState, eventGenerated>>
      /\ engine' = engine /\ centrifuge' = centrifuge /\ pressure' = pressure
      /\ StackOK' /\ EventsOK' /\ MachineTypes'
      /\ \A k \in Machine : ~eventGenerated'[k] /\ ~InAction(k)' /\ AtRest(k)'
      /\ \A k, y : k \in Machine => ~Event(k, y) /\ ~Event(k, y)'
  BY <1>1, Names, Returns
<1>3. EngineOK' /\ PressureOK'
  BY <1>1, <1>2, Names, Rests
<1>4. CentrifugeOK'
  BY <1>1, <1>2, Names DEF CentrifugeOK, Inv
<1>5. Plain'
  BY <1>2 DEF Inv, Plain, MachineTypes, interface, program, history
<1>6. RunsInv'
  <2>1. SpunDown' <=> SpunDown
    BY <1>1, <1>2 DEF SpunDown
  <2>2. EnginePasses' => EnginePasses
    BY <1>2, Names DEF EnginePasses
  <2>3. PressureRuns' => PressureRuns
    BY <1>2, Names DEF PressureRuns
  <2> QED
    BY <1>1, <1>2, <2>1, <2>2, <2>3, Names, SameRuns DEF history
<1> QED
  BY <1>2, <1>3, <1>4, <1>5, <1>6 DEF Inv, RunsInv

\* A state action of the centrifuge that generates an event, save the last one.
LEMMA CentrifugeRaises ==
  ASSUME NEW t \in Thread, NEW s, NEW e \in StatesOf("Centrifuge"),
         s \in CentrifugePolls \cup {"START_TEST"}, e # "START_TEST", Inv,
         Active(t, AtAction("Centrifuge", s)), ReturnWithEvent(t, "Centrifuge", e),
         UNCHANGED <<expired, m_thread, m_threadOpen, interface, program, fault, history>>,
         m_speed' \in Int, pollEnabled' \in BOOLEAN, pollConnected' \in BOOLEAN,
         CentrifugeInAction => CentrifugeAtEvent(e)'
  PROVE  Inv'
<1>1. /\ centrifuge = s /\ s # "loop" /\ s # "IDLE" /\ s # "COMPLETED"
      /\ \A k \in Machine : ~eventGenerated[k] /\ (InAction(k) <=> k = "Centrifuge")
                            /\ (k # "Centrifuge" => AtRest(k))
  BY InState, Names DEF CentrifugePolls, centrifuge
<1>2. /\ currentState' = currentState
      /\ engine' = engine /\ centrifuge' = centrifuge /\ pressure' = pressure
      /\ StackOK' /\ EventsOK' /\ MachineTypes'
      /\ \A k \in Machine : /\ (eventGenerated'[k] <=> k = "Centrifuge") /\ ~InAction(k)'
                            /\ newState'[k] = (IF k = "Centrifuge" THEN e ELSE newState[k])
                            /\ (k # "Centrifuge" => AtRest(k)')
      /\ \A k, y : k \in Machine =>
           ~Event(k, y) /\ (Event(k, y)' <=> (k = "Centrifuge" /\ y = e))
  BY <1>1, Names, Raises
<1>3. EngineOK' /\ PressureOK'
  BY <1>1, <1>2, Names, Rests
<1>4. CentrifugeOK'
  BY <1>1, <1>2, Names DEF CentrifugeOK, Inv, AtRest
<1>5. Plain'
  BY <1>2 DEF Inv, Plain, MachineTypes, interface, program, history
<1>6. RunsInv'
  <2>1. SpunDown' <=> SpunDown
    BY <1>1, <1>2 DEF SpunDown
  <2>2. EnginePasses' => EnginePasses
    BY <1>2, Names DEF EnginePasses
  <2>3. PressureRuns' => PressureRuns
    BY <1>2, Names DEF PressureRuns
  <2> QED
    BY <1>1, <1>2, <2>1, <2>2, <2>3, Names, SameRuns DEF history
<1> QED
  BY <1>2, <1>3, <1>4, <1>5, <1>6 DEF Inv, RunsInv

LEMMA CentrifugeSteps ==
  ASSUME NEW t \in Thread, Inv,
         CentrifugeStartTest(t) \/ Acceleration(t) \/ Deceleration(t)
           \/ WaitForAcceleration(t) \/ WaitForDeceleration(t)
  PROVE  Inv'
<1> USE ParameterAssumption
<1>1. CASE CentrifugeStartTest(t)
  <2>1. /\ Active(t, AtAction("Centrifuge", "START_TEST"))
        /\ ReturnWithEvent(t, "Centrifuge", "ACCELERATION")
        /\ pollConnected' = TRUE /\ UNCHANGED <<m_speed, pollEnabled>>
        /\ UNCHANGED <<expired, m_thread, m_threadOpen, interface, program, fault, history>>
    BY <1>1 DEF CentrifugeStartTest
  <2>2. centrifuge = "START_TEST" /\ centrifuge' = "START_TEST"
    BY <2>1, InState, Names DEF centrifuge, ReturnWithEvent
  <2>3. CentrifugeInAction => CentrifugeAtEvent("ACCELERATION")'
    BY <2>1, <2>2 DEF CentrifugeInAction, CentrifugeAtEvent, Paused, Unpolled
  <2> QED
    BY <2>1, <2>3, Names, CentrifugeRaises DEF Inv, Plain
<1>2. ASSUME NEW s \in {"ACCELERATION", "DECELERATION"}, StartPolling(t, s)
      PROVE  Inv'
  <2>1. /\ Active(t, AtAction("Centrifuge", s)) /\ ReturnWithoutEvent(t, "Centrifuge")
        /\ pollEnabled' = TRUE /\ UNCHANGED <<m_speed, pollConnected>>
        /\ UNCHANGED <<expired, m_thread, m_threadOpen, interface, program, fault, history>>
    BY <1>2 DEF StartPolling
  <2>2. centrifuge = s /\ centrifuge' = s
    BY <2>1, InState, Names DEF centrifuge, ReturnWithoutEvent
  <2>3. CentrifugeInAction => CentrifugeAtRest'
    BY <2>1, <2>2 DEF CentrifugeInAction, CentrifugeAtRest, Polled, Paused
  <2> QED
    BY <2>1, <2>3, CentrifugeReturns DEF Inv, Plain, CentrifugePolls
<1>3. CASE WaitForAcceleration(t)
  <2>1. /\ Active(t, AtAction("Centrifuge", "WAIT_FOR_ACCELERATION"))
        /\ m_speed' = m_speed + 1 /\ UNCHANGED timer
        /\ m_speed' >= TargetSpeed => ReturnWithEvent(t, "Centrifuge", "DECELERATION")
        /\ ~(m_speed' >= TargetSpeed) => ReturnWithoutEvent(t, "Centrifuge")
        /\ UNCHANGED <<m_thread, m_threadOpen, interface, program, fault, history>>
    BY <1>3 DEF WaitForAcceleration
  <2>2. centrifuge = "WAIT_FOR_ACCELERATION" /\ centrifuge' = "WAIT_FOR_ACCELERATION"
    BY <2>1, InState, Names DEF centrifuge, ReturnWithoutEvent, ReturnWithEvent
  <2>3. UNCHANGED <<expired, pollEnabled, pollConnected>> /\ (Polled' <=> Polled)
        /\ m_speed \in Int /\ m_speed' \in Int
    BY <2>1 DEF timer, Polled, Inv, Plain
  <2>4. CentrifugeInAction => Polled /\ m_speed \in 0 .. TargetSpeed - 1
    BY <2>2 DEF CentrifugeInAction
  <2>5. CASE m_speed' >= TargetSpeed
    <3>1. CentrifugeInAction => CentrifugeAtEvent("DECELERATION")'
      BY <2>1, <2>2, <2>3, <2>4, <2>5 DEF CentrifugeAtEvent
    <3> QED
      BY <2>1, <2>3, <2>5, <3>1, Names, CentrifugeRaises DEF Inv, Plain, CentrifugePolls
  <2>6. CASE ~(m_speed' >= TargetSpeed)
    <3>1. CentrifugeInAction => CentrifugeAtRest'
      BY <2>1, <2>2, <2>3, <2>4, <2>6 DEF CentrifugeAtRest
    <3> QED
      BY <2>1, <2>3, <2>6, <3>1, CentrifugeReturns DEF Inv, Plain, CentrifugePolls
  <2> QED
    BY <2>5, <2>6
<1>4. CASE WaitForDeceleration(t)
  <2>1. /\ Active(t, AtAction("Centrifuge", "WAIT_FOR_DECELERATION"))
        /\ m_speed' = m_speed - 1 /\ UNCHANGED timer
        /\ m_speed = 0 => ReturnWithEvent(t, "Centrifuge", "COMPLETED")
        /\ m_speed # 0 => ReturnWithoutEvent(t, "Centrifuge")
        /\ UNCHANGED <<m_thread, m_threadOpen, interface, program, fault, history>>
    BY <1>4 DEF WaitForDeceleration
  <2>2. centrifuge = "WAIT_FOR_DECELERATION" /\ centrifuge' = "WAIT_FOR_DECELERATION"
    BY <2>1, InState, Names DEF centrifuge, ReturnWithoutEvent, ReturnWithEvent
  <2>3. UNCHANGED <<expired, pollEnabled, pollConnected>> /\ (Polled' <=> Polled)
        /\ m_speed \in Int /\ m_speed' \in Int
    BY <2>1 DEF timer, Polled, Inv, Plain
  <2>4. CentrifugeInAction => Polled /\ m_speed \in 0 .. TargetSpeed
    BY <2>2 DEF CentrifugeInAction
  <2>5. CASE m_speed = 0
    <3>1. CentrifugeInAction => CentrifugeAtEvent("COMPLETED")'
      BY <2>1, <2>2, <2>3, <2>4, <2>5 DEF CentrifugeAtEvent
    <3> QED
      BY <2>1, <2>3, <2>5, <3>1, Names, CentrifugeRaises DEF Inv, Plain, CentrifugePolls
  <2>6. CASE m_speed # 0
    <3>1. CentrifugeInAction => CentrifugeAtRest'
      BY <2>1, <2>2, <2>3, <2>4, <2>6 DEF CentrifugeAtRest
    <3> QED
      BY <2>1, <2>3, <2>6, <3>1, CentrifugeReturns DEF Inv, Plain, CentrifugePolls
  <2> QED
    BY <2>5, <2>6
<1> QED
  BY <1>1, <1>2, <1>3, <1>4 DEF Acceleration, Deceleration

LEMMA PressureStep ==
  ASSUME NEW t \in Thread, Inv, PressureStartTest(t)
  PROVE  Inv'
<1>1. /\ pressure = "START_TEST"
      /\ \A k \in Machine : ~eventGenerated[k] /\ (InAction(k) <=> k = "Pressure")
                            /\ (k # "Pressure" => AtRest(k))
  BY InState, Names DEF PressureStartTest, pressure
<1>2. /\ currentState' = currentState
      /\ engine' = engine /\ centrifuge' = centrifuge /\ pressure' = pressure
      /\ StackOK' /\ EventsOK' /\ MachineTypes'
      /\ \A k \in Machine : /\ (eventGenerated'[k] <=> k = "Pressure") /\ ~InAction(k)'
                            /\ newState'[k] = (IF k = "Pressure" THEN "COMPLETED" ELSE newState[k])
                            /\ (k # "Pressure" => AtRest(k)')
      /\ \A k, y : k \in Machine =>
           ~Event(k, y) /\ (Event(k, y)' <=> (k = "Pressure" /\ y = "COMPLETED"))
  BY Names, Raises DEF PressureStartTest
<1>3. UNCHANGED <<m_speed, timer, m_thread, m_threadOpen, interface, program, fault, history>>
  BY DEF PressureStartTest
<1>4. EngineOK' /\ CentrifugeOK'
  BY <1>1, <1>2, <1>3, Names, Rests DEF timer
<1>5. PressureOK'
  BY <1>1, <1>2, Names DEF PressureOK, AtRest
<1>6. Plain'
  BY <1>2, <1>3 DEF Inv, Plain, MachineTypes, interface, program, history, timer
<1>7. RunsInv'
  <2>1. SpunDown' <=> SpunDown
    BY <1>1, <1>2, <1>3, Names DEF SpunDown
  <2>2. EnginePasses' => EnginePasses
    BY <1>2, Names DEF EnginePasses
  <2>3. PressureRuns' => PressureRuns
    BY <1>1, <1>2, Names DEF PressureRuns
  <2> QED
    BY <1>1, <1>2, <1>3, <2>1, <2>2, <2>3, Names, SameRuns DEF history
<1> QED
  BY <1>2, <1>4, <1>5, <1>6, <1>7 DEF Inv, RunsInv

\* Only the engine fails: no test ends in ST_FAILED.
LEMMA FailedStep ==
  ASSUME NEW t \in Thread, NEW m \in Machine, Inv, Failed(t, m)
  PROVE  Inv'
<1>1. /\ currentState[m] = "FAILED"
      /\ \A k \in Machine : ~eventGenerated[k] /\ (InAction(k) <=> k = m)
                            /\ (k # m => AtRest(k))
  BY InState DEF Failed
<1>2. m = "Engine" /\ engine = "FAILED"
  BY <1>1, MachineAssumption
     DEF Inv, PressureOK, CentrifugeOK, CentrifugeInAction, pressure, centrifuge, engine
<1>3. /\ currentState' = currentState
      /\ engine' = engine /\ centrifuge' = centrifuge /\ pressure' = pressure
      /\ StackOK' /\ EventsOK' /\ MachineTypes'
      /\ \A k \in Machine : /\ (eventGenerated'[k] <=> k = m) /\ ~InAction(k)'
                            /\ newState'[k] = (IF k = m THEN "IDLE" ELSE newState[k])
                            /\ (k # m => AtRest(k)')
      /\ \A k, y : k \in Machine =>
           ~Event(k, y) /\ (Event(k, y)' <=> (k = m /\ y = "IDLE"))
  BY Names, Raises DEF Failed
<1>4. UNCHANGED <<m_speed, timer, m_thread, m_threadOpen, interface, program, fault, history>>
  BY <1>2 DEF Failed
<1>5. PressureOK' /\ CentrifugeOK'
  BY <1>1, <1>2, <1>3, <1>4, Names, Rests DEF timer
<1>6. EngineOK'
  BY <1>2, <1>3, Names DEF EngineOK, AtRest
<1>7. Plain'
  BY <1>3, <1>4 DEF Inv, Plain, MachineTypes, interface, program, history, timer
<1>8. RunsInv'
  <2>1. SpunDown' <=> SpunDown
    BY <1>1, <1>2, <1>3, <1>4, Names DEF SpunDown
  <2>2. EnginePasses' => EnginePasses
    BY <1>2, <1>3, Names DEF EnginePasses
  <2>3. PressureRuns' => PressureRuns
    BY <1>2, <1>3, Names DEF PressureRuns
  <2> QED
    BY <1>1, <1>2, <1>3, <1>4, <2>1, <2>2, <2>3, Names, SameRuns DEF history
<1> QED
  BY <1>3, <1>5, <1>6, <1>7, <1>8 DEF Inv, RunsInv

\* A state of the engine starts its test, unless a cancelled run has left it running.
LEMMA StartStep ==
  ASSUME NEW t \in Thread, NEW s, NEW m, Inv, StartSubTestFrom(t, s, m),
         \/ s = "START_CENTRIFUGE_TEST" /\ m = "Centrifuge"
         \/ s = "START_PRESSURE_TEST" /\ m = "Pressure"
  PROVE  Inv'
<1>1. /\ t = Engine /\ who = "Engine" /\ engine = s
      /\ \A k \in Machine : ~eventGenerated[k] /\ (InAction(k) <=> k = "Engine")
                            /\ (k # "Engine" => AtRest(k))
  BY InState, Names DEF StartSubTestFrom, engine
<1>2. m \in Machine /\ m # "Engine"
  BY Names
<1>3. UNCHANGED <<currentState, m_speed, timer, m_thread, m_threadOpen, interface, program,
                  fault, history>>
  BY DEF StartSubTestFrom
<1>4. engine' = engine /\ centrifuge' = centrifuge /\ pressure' = pressure
  BY <1>3 DEF engine, centrifuge, pressure
<1>5. \/ currentState[m] = "IDLE" /\ StartSubTest(currentState[m]) = "START_TEST"
      \/ m = "Centrifuge" /\ StartSubTest(currentState[m]) = EVENT_IGNORED
  BY <1>1, <1>2 DEF Inv, PressureOK, CentrifugeOK, CentrifugeAtRest, StartSubTest, pressure,
     centrifuge
<1>6. CASE StartSubTest(currentState[m]) = EVENT_IGNORED
  <2>1. /\ UNCHANGED <<newState, eventGenerated>>
        /\ calls' = [calls EXCEPT ![Engine] = Replace(@, Frame("Engine", "loop"))]
    BY <1>1, <1>6 DEF StartSubTestFrom, ExternalEvent, AtLoop, Frame
  <2>2. StackOK' /\ who' = "Engine" /\ at' = "loop" /\ CallsTotal'
    BY <1>1, <2>1, Names, Replaced DEF Places, Inv, Plain
  <2>3. \A k \in Machine : ~eventGenerated'[k] /\ ~InAction(k)' /\ AtRest(k)'
    BY <1>1, <2>1, <2>2 DEF InAction, AtRest
  <2>4. EventsOK' /\ MachineTypes'
    BY <1>3, <2>1, <2>2, <2>3 DEF EventsOK, MachineTypes, Inv, Plain
  <2>5. PressureOK' /\ CentrifugeOK'
    BY <1>1, <1>3, <2>1, <2>3, Names, Rests DEF timer
  <2>6. EngineOK'
    BY <1>1, <1>4, <2>3, Names DEF EngineOK
  <2>7. Plain'
    BY <1>3, <2>4 DEF Inv, Plain, MachineTypes, interface, program, history, timer
  <2>8. \A k, y : k \in Machine => ~Event(k, y) /\ ~Event(k, y)'
    BY <1>1, <2>3 DEF Event
  <2>9. RunsInv'
    <3>1. SpunDown' <=> SpunDown
      BY <1>1, <1>3, <1>4, <2>3, Names DEF SpunDown
    <3>2. EnginePasses' => EnginePasses
      BY <1>1, <1>4, <2>8, Names DEF EnginePasses
    <3>3. PressureRuns' => PressureRuns
      BY <1>1, <1>4, <2>3, <2>8, Names DEF PressureRuns
    <3> QED
      BY <1>1, <1>3, <1>4, <2>3, <2>8, <3>1, <3>2, <3>3, Names, SameRuns DEF history
  <2> QED
    BY <2>2, <2>4, <2>5, <2>6, <2>7, <2>9 DEF Inv, RunsInv
<1>7. CASE currentState[m] = "IDLE" /\ StartSubTest(currentState[m]) = "START_TEST"
  <2>1. /\ newState' = [newState EXCEPT ![m] = "START_TEST"]
        /\ eventGenerated' = [eventGenerated EXCEPT ![m] = TRUE]
        /\ calls' = [calls EXCEPT ![Engine] =
                       Append(Replace(calls[Engine], AtLoop("Engine")), AtLoop(m))]
    BY <1>1, <1>7 DEF StartSubTestFrom, ExternalEvent, InternalEvent, EVENT_IGNORED
  <2>2. StackOK' /\ who' = m /\ at' = "loop" /\ CallsTotal'
    BY <1>1, <1>2, <1>4, <2>1, CalledFromEngine DEF Inv, Plain
  <2>3. \A k \in Machine : /\ (eventGenerated'[k] <=> k = m) /\ ~InAction(k)'
                           /\ newState'[k] = (IF k = m THEN "START_TEST" ELSE newState[k])
                           /\ (k # m => AtRest(k)')
    BY <1>1, <2>1, <2>2 DEF InAction, AtRest, Inv, Plain
  <2>4. EventsOK'
    BY <2>2, <2>3 DEF EventsOK
  <2>5. MachineTypes'
    <3>1. "START_TEST" \in StatesOf(m)
      BY Names
    <3>2. newState' \in [Machine -> States] /\ eventGenerated' \in [Machine -> BOOLEAN]
      BY <1>2, <2>1, <3>1 DEF Inv, Plain, States
    <3> QED
      BY <1>3, <2>2, <2>3, <3>1, <3>2 DEF MachineTypes, Inv, Plain
  <2>6. EngineOK'
    BY <1>1, <1>2, <1>4, <2>3, Names DEF EngineOK
  <2>7. PressureOK'
    <3>1. CASE m = "Pressure"
      BY <1>4, <1>7, <2>3, <3>1, Names DEF PressureOK, AtRest, pressure
    <3> QED
      BY <1>1, <1>2, <1>3, <2>3, <3>1, Names, Rests
  <2>8. CentrifugeOK'
    <3>1. CASE m = "Centrifuge"
      <4>1. CentrifugeAtRest /\ centrifuge = "IDLE"
        BY <1>1, <1>2, <1>7, <3>1 DEF Inv, CentrifugeOK, centrifuge
      <4>2. CentrifugeAtEvent("START_TEST")'
        BY <1>3, <1>4, <4>1 DEF CentrifugeAtRest, CentrifugeAtEvent, Unpolled, timer
      <4> QED
        BY <2>3, <3>1, <4>2, Names DEF CentrifugeOK, AtRest
    <3> QED
      BY <1>1, <1>2, <1>3, <2>3, <3>1, Names, Rests DEF timer
  <2>9. Plain'
    BY <1>3, <2>5 DEF Inv, Plain, MachineTypes, interface, program, history, timer
  <2>10. \A k, y : k \in Machine =>
           ~Event(k, y) /\ (Event(k, y)' <=> (k = m /\ y = "START_TEST"))
    BY <1>1, <2>3 DEF Event
  <2>11. RunsInv'
    <3>1. SpunDown' <=> SpunDown
      BY <1>1, <1>3, <1>4, <1>7, <2>3, Names DEF SpunDown, centrifuge
    <3>2. EnginePasses' => EnginePasses
      BY <1>1, <1>4, <2>3, <2>10, Names DEF EnginePasses
    <3>3. PressureRuns' => PressureRuns
      BY <1>1, <1>4, <2>3, <2>10, Names DEF PressureRuns
    <3> QED
      BY <1>1, <1>2, <1>3, <1>4, <2>3, <2>10, <3>1, <3>2, <3>3, Names, SameRuns DEF history
  <2> QED
    BY <2>2, <2>4, <2>6, <2>7, <2>8, <2>9, <2>11 DEF Inv, RunsInv
<1> QED
  BY <1>5, <1>6, <1>7

\* What is common to the completions.
LEMMA CompletedIs ==
  ASSUME NEW t \in Thread, NEW m \in Machine, Inv, Completed(t, m)
  PROVE  /\ t = Engine /\ who = m /\ currentState[m] = "COMPLETED"
         /\ \A k \in Machine : ~eventGenerated[k] /\ (InAction(k) <=> k = m)
                               /\ (k # m => AtRest(k))
         /\ currentState' = currentState
         /\ engine' = engine /\ centrifuge' = centrifuge /\ pressure' = pressure
         /\ StackOK' /\ EventsOK' /\ MachineTypes'
         /\ \A k \in Machine : /\ (eventGenerated'[k] <=> k = m) /\ ~InAction(k)'
                               /\ newState'[k] = (IF k = m THEN "IDLE" ELSE newState[k])
                               /\ (k # m => AtRest(k)')
         /\ \A k, y : k \in Machine => ~Event(k, y) /\ (Event(k, y)' <=> (k = m /\ y = "IDLE"))
         /\ UNCHANGED <<m_speed, timer, m_threadOpen, uiOpen, selfTestEngineCompleted>>
         /\ UNCHANGED <<program, fault, cancelling, own>>
         /\ EngineOK' /\ PressureOK' /\ CentrifugeOK'
<1>1. /\ t = Engine /\ who = m /\ currentState[m] = "COMPLETED"
      /\ \A k \in Machine : ~eventGenerated[k] /\ (InAction(k) <=> k = m)
                            /\ (k # m => AtRest(k))
  BY InState DEF Completed
<1>2. /\ currentState' = currentState
      /\ engine' = engine /\ centrifuge' = centrifuge /\ pressure' = pressure
      /\ StackOK' /\ EventsOK' /\ MachineTypes'
      /\ \A k \in Machine : /\ (eventGenerated'[k] <=> k = m) /\ ~InAction(k)'
                            /\ newState'[k] = (IF k = m THEN "IDLE" ELSE newState[k])
                            /\ (k # m => AtRest(k)')
      /\ \A k, y : k \in Machine => ~Event(k, y) /\ (Event(k, y)' <=> (k = m /\ y = "IDLE"))
  BY Names, Raises DEF Completed
<1>3. /\ UNCHANGED <<m_speed, timer, m_threadOpen, uiOpen, selfTestEngineCompleted>>
      /\ UNCHANGED <<program, fault, cancelling, own>>
  BY DEF Completed
<1>4. EngineOK'
  <2>1. CASE m = "Engine"
    BY <1>1, <1>2, <2>1, Names DEF EngineOK, AtRest, engine
  <2> QED
    BY <1>1, <1>2, <2>1, Names, Rests
<1>5. PressureOK'
  <2>1. CASE m = "Pressure"
    BY <1>1, <1>2, <2>1, Names DEF PressureOK, AtRest, pressure
  <2> QED
    BY <1>1, <1>2, <2>1, Names, Rests
<1>6. CentrifugeOK'
  <2>1. CASE m = "Centrifuge"
    <3>1. centrifuge = "COMPLETED" /\ CentrifugeInAction
      BY <1>1, <2>1 DEF Inv, CentrifugeOK, centrifuge
    <3>2. CentrifugeAtEvent("IDLE")'
      BY <1>2, <1>3, <3>1 DEF CentrifugeInAction, CentrifugeAtEvent, Paused, timer
    <3> QED
      BY <1>2, <2>1, <3>2, Names DEF CentrifugeOK, AtRest
  <2> QED
    BY <1>1, <1>2, <1>3, <2>1, Names, Rests DEF timer
<1> QED
  BY <1>1, <1>2, <1>3, <1>4, <1>5, <1>6

\* The end of the engine's run: main() is connected, for it has been told of none.
LEMMA EngineCompleted ==
  ASSUME NEW t \in Thread, Inv, Completed(t, "Engine")
  PROVE  Inv' /\ uiOpen /\ uiQueue' = 1
<1> USE CompletedIs, Names
<1>1. engine = "COMPLETED" /\ InAction("Engine")
  BY DEF engine
<1>2. EnginePasses
  BY <1>1 DEF EnginePasses
<1>3. ~ReportedToMain /\ SpunDown /\ ~Queued("Complete")
  BY <1>1, <1>2 DEF Inv, BeforeOK, AfterOK, PassedOK
<1>4. uiOpen /\ uiQueue = 0
  BY <1>3 DEF ReportedToMain, Inv, MainOK
<1>5. uiQueue' = 1 /\ reported' = TRUE /\ UNCHANGED <<m_thread, passed>>
  BY <1>4 DEF Completed
<1>6. Plain'
  BY <1>5 DEF Inv, Plain, MachineTypes, program, timer
<1>7. MainOK' /\ ReportedToMain'
  BY <1>5, SameQueue DEF Inv, MainOK, ReportedToMain, program
<1>8. ~EnginePasses' /\ SpunDown'
  <2>1. SpunDown'
    BY <1>3 DEF SpunDown
  <2>2. engine' = "COMPLETED" /\ ~InAction("Engine")' /\ ~Event("Engine", "START_PRESSURE_TEST")'
        /\ ~Event("Engine", "COMPLETED")'
    BY <1>1
  <2> QED
    BY <2>1, <2>2 DEF EnginePasses
<1>9. ~PressureRuns' /\ ~Event("Engine", "COMPLETED")' /\ ~InAction("Engine")'
      /\ engine' = "COMPLETED" /\ eventGenerated'["Engine"]
  BY <1>1 DEF PressureRuns
<1>10. BeforeOK' /\ AfterOK' /\ CompleteOK'
  BY <1>3, <1>5, <1>7, <1>8, SameQueue DEF BeforeOK, AfterOK, CompleteOK, Inv
<1>11. PassedOK'
  BY <1>5, <1>7, <1>8, <1>9 DEF PassedOK
<1> QED
  BY <1>4, <1>5, <1>6, <1>7, <1>10, <1>11 DEF Inv

\* The end of a test: its completion is queued for the engine.
LEMMA TestCompleted ==
  ASSUME NEW t \in Thread, NEW m \in {"Centrifuge", "Pressure"}, Inv, Completed(t, m)
  PROVE  Inv'
<1> USE CompletedIs, Names
<1>1. /\ Dispatch("Complete") /\ passed' = passed \cup {m} /\ UNCHANGED <<uiQueue, reported>>
  BY DEF Completed
<1>2. ~Queued("Complete") /\ ~ReportedToMain
  <2>1. CASE m = "Centrifuge"
    <3>1. ~SpunDown
      BY <2>1 DEF SpunDown, centrifuge
    <3> QED
      BY <3>1 DEF Inv, BeforeOK
  <2>2. CASE m = "Pressure"
    <3>1. PressureRuns
      BY <2>2 DEF PressureRuns, pressure
    <3>2. engine = "START_PRESSURE_TEST"
      BY <2>2, Shapes DEF Inv, who
    <3>3. EnginePasses
      BY <3>2 DEF EnginePasses
    <3> QED
      BY <3>1, <3>3 DEF Inv, PassedOK, AfterOK
  <2> QED
    BY <2>1, <2>2
<1>3. /\ m_thread' \in Seq(Messages) /\ OneComplete'
      /\ \A y : Queued(y)' => Queued(y) \/ y = "Complete"
  BY <1>1, <1>2, AppendQueue DEF Inv, Plain, Messages, CompleteOK
<1>4. Plain'
  <2>1. passed' \subseteq {"Centrifuge", "Pressure"}
    BY <1>1 DEF Inv, Plain
  <2>2. /\ m_speed' \in Int /\ pollEnabled' \in BOOLEAN /\ pollConnected' \in BOOLEAN
        /\ expired' \in BOOLEAN /\ m_threadOpen' \in BOOLEAN /\ uiOpen' \in BOOLEAN
        /\ selfTestEngineCompleted' \in BOOLEAN /\ made' \in 0 .. ClientBound
        /\ fault' = FALSE /\ cancelling' \in BOOLEAN /\ own' \in BOOLEAN
        /\ reported' \in BOOLEAN
    <3>1. /\ UNCHANGED <<m_speed, pollEnabled, pollConnected, expired, m_threadOpen, uiOpen>>
          /\ UNCHANGED <<selfTestEngineCompleted, made, fault, cancelling, own, reported>>
      BY <1>1 DEF program, timer
    <3> QED
      BY ONLY <3>1, Inv DEF Inv, Plain
  <2> QED
    BY <1>3, <2>1, <2>2 DEF Inv, Plain, MachineTypes
<1>5. MainOK' /\ ~ReportedToMain'
  BY <1>1, <1>2, <1>3 DEF Inv, MainOK, ReportedToMain, program
<1>6. ~Event("Engine", "COMPLETED")' /\ ~Event("Engine", "FAILED")' /\ ~InAction("Engine")'
      /\ ~Event("Engine", "START_CENTRIFUGE_TEST")' /\ ~Event("Centrifuge", "START_TEST")'
      /\ ~eventGenerated'["Engine"] /\ ~eventGenerated["Engine"] /\ m # "Engine"
  OBVIOUS
<1>7. ~PressureRuns'
  BY <1>6 DEF PressureRuns
<1>8. /\ SpunDown' /\ OwnPassed'
      /\ engine = "START_PRESSURE_TEST" => "Pressure" \in passed'
      /\ engine = "START_CENTRIFUGE_TEST" => "Pressure" \notin passed'
  <2>1. CASE m = "Centrifuge"
    <3>1. centrifuge = "COMPLETED" /\ CentrifugeInAction /\ ~SpunDown
      BY <2>1 DEF Inv, CentrifugeOK, centrifuge, SpunDown
    <3>2. SpunDown'
      BY <2>1, <3>1 DEF CentrifugeInAction, SpunDown
    <3>3. ~EnginePasses /\ passed = {}
      BY <3>1 DEF Inv, BeforeOK
    <3> QED
      BY <1>1, <2>1, <3>2, <3>3 DEF EnginePasses, OwnPassed
  <2>2. CASE m = "Pressure"
    <3>1. engine = "START_PRESSURE_TEST"
      BY <2>2, Shapes DEF Inv, who
    <3>2. EnginePasses
      BY <3>1 DEF EnginePasses
    <3>3. SpunDown /\ OwnPassed
      BY <3>2 DEF Inv, BeforeOK, PassedOK
    <3>4. SpunDown'
      BY <2>2, <3>3 DEF SpunDown
    <3> QED
      BY <1>1, <2>2, <3>1, <3>3, <3>4 DEF OwnPassed
  <2> QED
    BY <2>1, <2>2
<1>9. BeforeOK' /\ AfterOK'
  BY <1>5, <1>8 DEF BeforeOK, AfterOK
<1>10. CompleteOK'
  BY <1>3, <1>8 DEF CompleteOK
<1>11. PassedOK'
  <2>1. engine # "COMPLETED"
    BY <1>6 DEF Inv, EngineOK, AtRest
  <2> QED
    BY <1>1, <1>6, <1>7, <1>8, <2>1 DEF PassedOK, Inv
<1> QED
  BY <1>4, <1>5, <1>9, <1>10, <1>11 DEF Inv

-----------------------------------------------------------------------------
(* The steps together.                                                     *)

LEMMA NextInv ==
  ASSUME Confined, Inv, [Next]_vars
  PROVE  Inv'
<1>1. ASSUME NEW t \in Thread, Execute(t)
      PROVE  Inv'
  <2>1. ASSUME NEW m \in Machine, Turn(t, m)
        PROVE  Inv'
    BY <2>1, TurnOfEngine, TurnOfTest, MachineAssumption
  <2>2. ASSUME NEW m \in Machine, Leave(t, m)
        PROVE  Inv'
    BY <2>2, Leaves
  <2>3. ASSUME NEW m \in Machine, Idle(t, m)
        PROVE  Inv'
    BY <2>3, IdleStep
  <2>4. ASSUME NEW m \in Machine, Completed(t, m)
        PROVE  Inv'
    BY <2>4, EngineCompleted, TestCompleted, MachineAssumption
  <2>5. ASSUME NEW m \in Machine, Failed(t, m)
        PROVE  Inv'
    BY <2>5, FailedStep
  <2>6. CASE StartCentrifugeTest(t) \/ StartPressureTest(t)
    BY <2>6, StartStep DEF StartCentrifugeTest, StartPressureTest
  <2>7. CASE PressureStartTest(t)
    BY <2>7, PressureStep
  <2>8. CASE CentrifugeStartTest(t) \/ Acceleration(t) \/ Deceleration(t)
               \/ WaitForAcceleration(t) \/ WaitForDeceleration(t)
    BY <2>8, CentrifugeSteps
  <2> QED
    BY <1>1, <2>1, <2>2, <2>3, <2>4, <2>5, <2>6, <2>7, <2>8 DEF Execute, StateAction
<1>2. CASE HandleMessage
  BY <1>2, Ignored, MessageSteps
<1>3. CASE TimerThread \/ OnSelfTestEngineComplete \/ MainThread \/ ClientThread
  BY <1>3, TimerSteps, MainSteps, ClientSteps
<1>4. CASE UNCHANGED vars
  <2>1. UNCHANGED <<machineVars, m_speed, timer, m_thread, m_threadOpen, interface, program,
                    fault, history>>
    BY <1>4 DEF vars
  <2>2. MainOK' /\ (ReportedToMain' <=> ReportedToMain)
    BY <2>1, SameProgram, SameQueue DEF Inv
  <2> QED
    BY <2>1, <2>2, SameQueue, OtherSteps
       DEF Inv, Plain, CompleteOK, timer, interface, program
<1> QED
  BY <1>1, <1>2, <1>3, <1>4 DEF Next, Step

LEMMA Invariance ==
  ASSUME Confined
  PROVE  Init /\ [][Next]_vars => []Inv
<1>1. Init => Inv
  BY InitInv
<1>2. Inv /\ [Next]_vars => Inv'
  BY NextInv
<1> QED
  BY <1>1, <1>2, PTL

-----------------------------------------------------------------------------
(* What the invariant means.                                               *)

LEMMA ShortSeqs ==
  ASSUME NEW S, NEW e \in S, NEW f \in S
  PROVE  <<f>> \in Seq(S) /\ <<e, f>> \in Seq(S)
  OBVIOUS

LEMMA InvTypeOK ==
  ASSUME Inv
  PROVE  TypeOK
<1>1. calls \in [Thread -> Seq(Frames)]
  <2>1. \A m \in Machine : \A s \in Places(m) : Frame(m, s) \in Frames
    BY DEF Places, Frame, Frames, AtAction
  <2>2. AtLoop("Engine") \in Frames
    BY <2>1, Names DEF Places, Frame, AtLoop
  <2>3. Stack \in Seq(Frames)
    <3>1. CASE Stack = <<>>
      BY <3>1
    <3>2. CASE Stack # <<>>
      <4>1. who \in Machine /\ at \in Places(who)
        BY <3>2, Shapes, Names DEF Inv
      <4>2. Frame(who, at) \in Frames
        BY <2>1, <4>1
      <4>3. Stack = <<Frame(who, at)>> \/ Stack = <<AtLoop("Engine"), Frame(who, at)>>
        BY <3>2, Shapes DEF Inv
      <4> QED
        BY <2>2, <4>2, <4>3, ShortSeqs
    <3> QED
      BY <3>1, <3>2
  <2>4. calls["Client"] = <<>> /\ <<>> \in Seq(Frames)
    BY DEF Inv, StackOK
  <2>5. \A t \in Thread : calls[t] \in Seq(Frames)
    BY <2>3, <2>4, ThreadAssumption DEF Stack, Engine
  <2> QED
    BY <2>5 DEF Inv, Plain, CallsTotal
<1>2. m_speed \in -1 .. TargetSpeed
  BY ParameterAssumption
     DEF Inv, Plain, CentrifugeOK, CentrifugeAtRest, CentrifugeInAction, CentrifugeAtEvent, AtRest
<1>3. uiQueue \in 0 .. Runs
  BY ParameterAssumption DEF Inv, MainOK
<1>4. fault \in BOOLEAN /\ \A m \in Machine : newState[m] \in StatesOf(m) \cup {CANNOT_HAPPEN}
  BY DEF Inv, Plain
<1> QED
  BY <1>1, <1>2, <1>3, <1>4 DEF Inv, Plain, MainOK, TypeOK, Messages

LEMMA InvOneCall ==
  ASSUME Inv
  PROVE  OneCallPerMachine
<1>1. \A t \in Thread : t = Engine \/ calls[t] = <<>>
  BY ThreadAssumption DEF Inv, StackOK, Engine
<1>2. \A i, j \in DOMAIN Stack : Stack[i].machine = Stack[j].machine => i = j
  <2>1. CASE Stack = <<>>
    BY <2>1
  <2>2. CASE Stack = <<Frame(who, at)>>
    BY <2>2
  <2>3. CASE who # "Engine" /\ Stack = <<AtLoop("Engine"), Frame(who, at)>>
    <3>1. DOMAIN Stack = {1, 2} /\ Stack[1].machine = "Engine" /\ Stack[2].machine = who
      BY <2>3 DEF AtLoop, Frame
    <3> QED
      BY <2>3, <3>1
  <2> QED
    BY <2>1, <2>2, <2>3, Shapes DEF Inv
<1>3. \A t \in Thread : \A i \in DOMAIN calls[t] : t = Engine
  BY <1>1
<1> QED
  BY <1>2, <1>3 DEF OneCallPerMachine, Stack

LEMMA InvPollTimer ==
  ASSUME Inv
  PROVE  PollTimerMatchesState
<1> SUFFICES ASSUME ~Busy(Engine)
             PROVE  /\ pollEnabled <=> centrifuge \in CentrifugePolls
                    /\ pollConnected <=> centrifuge \in CentrifugePolls
  BY DEF PollTimerMatchesState, centrifuge
<1>1. CentrifugeAtRest
  BY Idling
<1> QED
  BY <1>1 DEF CentrifugeAtRest, CentrifugePolls, Polled, Unpolled

LEMMA InvPressure ==
  ASSUME Inv
  PROVE  PressureTestOnStoppedCentrifuge
<1> SUFFICES ASSUME pressure # "IDLE" \/ newState["Pressure"] # "IDLE"
             PROVE  m_speed <= 0 /\ ~pollEnabled /\ centrifuge = "IDLE"
  BY DEF PressureTestOnStoppedCentrifuge, pressure, centrifuge
<1>1. ~AtRest("Pressure")
  BY DEF Inv, PressureOK
<1>2. who = "Pressure"
  BY <1>1, Names DEF AtRest, InAction, Inv, EventsOK
<1>3. EnginePasses
  BY <1>2, Shapes DEF Inv, who, EnginePasses
<1>4. SpunDown
  BY <1>3 DEF Inv, BeforeOK
<1>5. AtRest("Centrifuge") /\ ~eventGenerated["Centrifuge"]
  BY <1>2, Names DEF AtRest, InAction, Inv, EventsOK
<1>6. centrifuge = "IDLE" /\ m_speed = -1 /\ CentrifugeAtRest
  BY <1>4, <1>5 DEF SpunDown, Inv, CentrifugeOK
<1> QED
  BY <1>6 DEF CentrifugeAtRest, Unpolled

-----------------------------------------------------------------------------
(* The theorems.                                                           *)

\* Every variable of the self-test program keeps its type: the speed of the centrifuge
\* stays between -1 and the target, and one completion at most waits for main().
THEOREM TypeCorrect ==
  ASSUME Confined
  PROVE  Spec => []TypeOK
<1>1. Inv => TypeOK
  BY InvTypeOK
<1> QED
  BY <1>1, Invariance, PTL DEF Spec

\* StateEngine() is never reentered for a machine: the tests and the engine call one
\* another through signals and queues, on one thread, without meeting themselves.
THEOREM StateEngineNotReentered ==
  ASSUME Confined
  PROVE  Spec => []OneCallPerMachine
<1>1. Inv => OneCallPerMachine
  BY InvOneCall
<1> QED
  BY <1>1, Invariance, PTL DEF Spec

\* The poll timer of CentrifugeTest is connected and enabled between two messages
\* exactly when the state of the machine needs a poll to be left.
THEOREM PollTimerFollowsState ==
  ASSUME Confined
  PROVE  Spec => []PollTimerMatchesState
<1>1. Inv => PollTimerMatchesState
  BY InvPollTimer
<1> QED
  BY <1>1, Invariance, PTL DEF Spec

\* The pressure test runs on a centrifuge that has been spun down and is not polled,
\* whatever is queued: starts, also after a cancel, cancels, late polls, and the completion
\* of a cancelled run, which the next run takes for its own.  That completion is of a
\* centrifuge that has stopped: there is none before the speed is at -1, and it stays so.
THEOREM PressureAfterSpinDown ==
  ASSUME Confined
  PROVE  Spec => []PressureTestOnStoppedCentrifuge
<1>1. Inv => PressureTestOnStoppedCentrifuge
  BY InvPressure
<1> QED
  BY <1>1, Invariance, PTL DEF Spec

\* No event reaches a state whose transition map says CANNOT_HAPPEN, so that no assertion
\* of StateEngine() ends the program: the safety half of ProgramEnds.
THEOREM NoEventCannotHappen ==
  ASSUME Confined
  PROVE  Spec => []~fault
<1>1. Inv => ~fault
  BY DEF Inv, Plain
<1> QED
  BY <1>1, Invariance, PTL DEF Spec

-----------------------------------------------------------------------------
(* SelfTests implements SelfTestSequence.                                  *)

phase == CASE engine = "START_CENTRIFUGE_TEST" -> "Centrifuge"
           [] engine = "START_PRESSURE_TEST" -> "Pressure"
           [] engine = "COMPLETED" /\ ~reported -> "Pressure"
           [] OTHER -> "idle"

LEMMA PhaseIs ==
  /\ engine = "START_CENTRIFUGE_TEST" => phase = "Centrifuge"
  /\ engine = "START_PRESSURE_TEST" => phase = "Pressure"
  /\ engine = "COMPLETED" /\ ~reported => phase = "Pressure"
  /\ engine = "COMPLETED" /\ reported => phase = "idle"
  /\ engine \notin {"START_CENTRIFUGE_TEST", "START_PRESSURE_TEST", "COMPLETED"} => phase = "idle"
  BY DEF phase

LEMMA PhaseNext ==
  /\ engine' = "START_CENTRIFUGE_TEST" => phase' = "Centrifuge"
  /\ engine' = "START_PRESSURE_TEST" => phase' = "Pressure"
  /\ engine' = "COMPLETED" /\ ~reported' => phase' = "Pressure"
  /\ engine' = "COMPLETED" /\ reported' => phase' = "idle"
  /\ engine' \notin {"START_CENTRIFUGE_TEST", "START_PRESSURE_TEST", "COMPLETED"} => phase' = "idle"
  BY DEF phase

\* The steps of SelfTestSequence, with the phase and the answer by their names.
answer == Queued("Complete")

Sequenced ==
  \/ UNCHANGED <<phase, passed, reported, own, answer>>
  \/ /\ phase = "idle" /\ phase' = "Centrifuge" /\ passed' = {} /\ reported' = FALSE
     /\ own' = ~answer /\ answer' = answer
  \/ \E test \in {"Centrifuge", "Pressure"} :
       /\ test \notin passed /\ (phase = test \/ (phase = "idle" /\ ~reported))
       /\ passed' = passed \cup {test} /\ answer' \in {answer, TRUE}
       /\ UNCHANGED <<phase, reported, own>>
  \/ answer /\ answer' = FALSE /\ UNCHANGED <<phase, passed, reported, own>>
  \/ /\ phase = "Centrifuge" /\ ~answer /\ (own => "Centrifuge" \in passed)
     /\ phase' = "Pressure" /\ UNCHANGED <<passed, reported, own, answer>>
  \/ /\ phase = "Pressure" /\ ~answer /\ "Pressure" \in passed
     /\ own => passed = {"Centrifuge", "Pressure"}
     /\ phase' = "idle" /\ reported' = TRUE /\ UNCHANGED <<passed, own, answer>>
  \/ phase # "idle" /\ phase' = "idle" /\ UNCHANGED <<passed, reported, own, answer>>

LEMMA SequencedIs == Sequenced => [Sequence!Next]_(Sequence!sequenceVars)
  BY DEF Sequenced, phase, answer, engine, Sequence!Next, Sequence!Begin, Sequence!Pass,
     Sequence!Deliver, Sequence!Advance, Sequence!Report, Sequence!Cancel, Sequence!Tests,
     Sequence!sequenceVars

\* A step that changes neither the state of the engine nor the results: it stutters, or
\* takes the completion from the queue.
LEMMA SequenceStutters ==
  ASSUME engine' = engine, UNCHANGED <<passed, reported, own>>, answer' => answer
  PROVE  Sequenced
<1>1. phase' = phase
  BY DEF phase
<1>2. answer \in BOOLEAN /\ answer' \in BOOLEAN
  BY DEF answer, Queued
<1> QED
  BY <1>1, <1>2 DEF Sequenced

\* A message that is not a completion leaves the answer as it is.
LEMMA OtherMessages ==
  ASSUME NEW message \in Messages \ {"Complete"}, m_thread \in Seq(Messages), Dispatch(message)
  PROVE  answer' => answer
  BY AppendQueue DEF answer

LEMMA TurnSequenced ==
  ASSUME NEW t \in Thread, NEW m \in Machine, Inv, Turn(t, m)
  PROVE  Sequenced
<1>1. CASE m # "Engine"
  <2>1. ~Begins(m)
    BY <1>1 DEF Begins
  <2>2. UNCHANGED <<passed, reported, own>> /\ answer' = answer
    BY <2>1, TurnIs DEF Inv, Plain, answer, Queued
  <2>3. engine' = engine
    <3>1. CASE Guard(m)
      BY <1>1, <3>1, TurnIs, Names DEF engine, Inv, Plain
    <3>2. CASE ~Guard(m)
      BY <3>2, TurnIs DEF engine
    <3> QED
      BY <3>1, <3>2
  <2> QED
    BY <2>2, <2>3, SequenceStutters
<1>2. CASE m = "Engine"
  <2> DEFINE s == newState["Engine"]
  <2>1. Guard(m) /\ (Begins(m) <=> s = "START_CENTRIFUGE_TEST")
    BY <1>2 DEF Guard, Begins
  <2>2. /\ engine' = s /\ eventGenerated["Engine"] /\ ~InAction("Engine")
        /\ passed' = (IF s = "START_CENTRIFUGE_TEST" THEN {} ELSE passed)
        /\ reported' = (reported /\ s # "START_CENTRIFUGE_TEST")
        /\ own' = (IF s = "START_CENTRIFUGE_TEST" THEN ~answer ELSE own)
        /\ \A y : Event("Engine", y) <=> y = s
    BY <1>2, <2>1, TurnIs, Names DEF engine, Event, Inv, Plain, answer
  <2>10. answer' = answer
    BY TurnIs DEF answer, Queued
  <2>3. \/ engine = "IDLE" /\ s = "START_CENTRIFUGE_TEST"
        \/ engine = "START_CENTRIFUGE_TEST" /\ s = "START_PRESSURE_TEST"
        \/ engine = "START_PRESSURE_TEST" /\ s = "COMPLETED"
        \/ engine \in {"START_CENTRIFUGE_TEST", "START_PRESSURE_TEST"} /\ s = "FAILED"
        \/ engine \in {"COMPLETED", "FAILED"} /\ s = "IDLE"
    BY <2>2 DEF Inv, EngineOK
  <2>4. reported \in BOOLEAN /\ reported' \in BOOLEAN
    BY <2>2 DEF Inv, Plain
  <2> HIDE DEF s
  <2>5. CASE engine = "IDLE" /\ s = "START_CENTRIFUGE_TEST"
    BY <2>2, <2>4, <2>5, <2>10, PhaseIs, PhaseNext DEF Sequenced
  <2>6. CASE engine = "START_CENTRIFUGE_TEST" /\ s = "START_PRESSURE_TEST"
    <3>1. ~answer /\ (own => "Centrifuge" \in passed)
      BY <2>2, <2>6 DEF Inv, PassedOK, EnginePasses, PressureRuns, OwnPassed, answer
    <3>2. UNCHANGED <<passed, reported, own>> /\ phase = "Centrifuge" /\ phase' = "Pressure"
      BY <2>2, <2>4, <2>6, PhaseIs, PhaseNext
    <3> QED
      BY <3>1, <3>2, <2>10 DEF Sequenced
  <2>7. CASE engine = "START_PRESSURE_TEST" /\ s = "COMPLETED"
    <3>1. ~reported
      BY <2>7 DEF Inv, PassedOK
    <3>2. UNCHANGED <<passed, reported, own>> /\ phase = "Pressure" /\ phase' = "Pressure"
      BY <2>2, <2>4, <2>7, <3>1, PhaseIs, PhaseNext
    <3> QED
      BY <3>2, <2>10 DEF Sequenced
  <2>8. CASE engine \in {"START_CENTRIFUGE_TEST", "START_PRESSURE_TEST"} /\ s = "FAILED"
    <3>1. UNCHANGED <<passed, reported, own>> /\ phase # "idle" /\ phase' = "idle"
      BY <2>2, <2>4, <2>8, PhaseIs, PhaseNext
    <3> QED
      BY <3>1, <2>10 DEF Sequenced
  <2>9. CASE engine \in {"COMPLETED", "FAILED"} /\ s = "IDLE"
    <3>1. engine = "COMPLETED" => reported
      BY <2>2 DEF Inv, PassedOK
    <3>2. UNCHANGED <<passed, reported, own>> /\ phase = "idle" /\ phase' = "idle"
      BY <2>2, <2>4, <2>9, <3>1, PhaseIs, PhaseNext
    <3> QED
      BY <3>2, <2>10 DEF Sequenced
  <2> QED
    BY <2>3, <2>5, <2>6, <2>7, <2>8, <2>9
<1> QED
  BY <1>1, <1>2

LEMMA CompletedSequenced ==
  ASSUME NEW t \in Thread, NEW m \in Machine, Inv, Completed(t, m)
  PROVE  Sequenced
<1> USE CompletedIs, Names
<1>1. CASE m = "Engine"
  <2>1. engine = "COMPLETED" /\ engine' = "COMPLETED" /\ InAction("Engine")
        /\ ~eventGenerated["Engine"]
    BY <1>1 DEF engine
  <2>2. EnginePasses
    BY <2>1 DEF EnginePasses
  <2>5. "Pressure" \in passed /\ (own => "Centrifuge" \in passed) /\ ~reported /\ ~answer
    BY <2>1, <2>2 DEF Inv, PassedOK, OwnPassed, answer
  <2>6. own => passed = {"Centrifuge", "Pressure"}
    BY <2>5 DEF Inv, Plain
  <2>3. reported' = TRUE /\ passed' = passed /\ own' = own /\ answer' = answer
    BY <1>1 DEF Completed, answer, Queued
  <2>4. phase = "Pressure" /\ phase' = "idle"
    BY <2>1, <2>5, <2>3, PhaseIs, PhaseNext
  <2> QED
    BY <2>3, <2>4, <2>5, <2>6 DEF Sequenced
<1>2. CASE m # "Engine"
  <2>1. passed' = passed \cup {m} /\ reported' = reported /\ own' = own
    BY <1>2 DEF Completed
  <2>2. phase' = phase
    BY <2>1 DEF phase
  <2>5. answer' \in {answer, TRUE}
    <3>1. Dispatch("Complete")
      BY <1>2 DEF Completed
    <3>2. CASE m_thread' = m_thread
      BY <3>2 DEF answer, Queued
    <3>3. CASE m_thread' = Append(m_thread, "Complete")
      <4>1. m_thread \in Seq(Messages) /\ "Complete" \in Messages
        BY DEF Inv, Plain, Messages
      <4>2. /\ m_thread' \in Seq(Messages) /\ Len(m_thread') = Len(m_thread) + 1
            /\ m_thread'[Len(m_thread) + 1] = "Complete"
        BY <3>3, <4>1, AppendProperties
      <4>3. Len(m_thread) + 1 \in DOMAIN m_thread'
        BY <4>1, <4>2, LenProperties
      <4> QED
        BY <4>2, <4>3 DEF answer, Queued
    <3> QED
      BY <3>1, <3>2, <3>3 DEF Dispatch, Dispatched
  <2>3. m \notin passed /\ (phase = m \/ (phase = "idle" /\ ~reported))
    <3>1. CASE m = "Centrifuge"
      <4>1. ~SpunDown
        BY <3>1 DEF SpunDown, centrifuge
      <4>2. passed = {} /\ ~reported /\ ~EnginePasses
        BY <4>1 DEF Inv, BeforeOK
      <4>3. engine \in {"IDLE", "START_CENTRIFUGE_TEST", "START_PRESSURE_TEST"}
        BY <3>1 DEF Inv, EngineOK
      <4>4. engine # "START_PRESSURE_TEST"
        BY <4>2 DEF EnginePasses
      <4> QED
        BY <3>1, <4>2, <4>3, <4>4, PhaseIs
    <3>2. CASE m = "Pressure"
      <4>1. engine = "START_PRESSURE_TEST" /\ PressureRuns
        BY <3>2, Shapes DEF Inv, who, PressureRuns, pressure
      <4> QED
        BY <3>2, <4>1, PhaseIs DEF Inv, PassedOK
    <3> QED
      BY <1>2, <3>1, <3>2, MachineAssumption
  <2>4. m \in {"Centrifuge", "Pressure"}
    BY <1>2, MachineAssumption
  <2> QED
    BY <2>1, <2>2, <2>3, <2>4, <2>5 DEF Sequenced
<1> QED
  BY <1>1, <1>2

LEMMA StepImplements ==
  ASSUME Confined, Inv, [Next]_vars
  PROVE  [Sequence!Next]_(Sequence!sequenceVars)
<1>1. CASE \E t \in Thread : \E m \in Machine : Turn(t, m) \/ Completed(t, m)
  BY <1>1, TurnSequenced, CompletedSequenced, SequencedIs
<1>2. ASSUME UNCHANGED <<currentState, passed, reported, own>>, answer' => answer
      PROVE  Sequenced
  BY <1>2, SequenceStutters DEF engine
<1>0. m_thread' = m_thread => (answer' => answer)
  BY DEF answer, Queued
<1>3. ASSUME NEW t \in Thread, NEW m \in Machine, Leave(t, m) \/ Idle(t, m) \/ Failed(t, m)
      PROVE  Sequenced
  <2>1. UNCHANGED <<currentState, passed, reported, own>>
    BY <1>3 DEF Leave, Idle, Failed, history, StateEngineReturn, ReturnWithoutEvent,
       ReturnWithEvent
  <2>2. m_thread' = m_thread \/ Dispatch("Cancel")
    BY <1>3 DEF Leave, Idle, Failed
  <2> QED
    BY <1>0, <1>2, <2>1, <2>2, OtherMessages DEF Messages, Inv, Plain
<1>4. ASSUME NEW t \in Thread,
             \/ StartCentrifugeTest(t) \/ StartPressureTest(t) \/ PressureStartTest(t)
             \/ CentrifugeStartTest(t) \/ Acceleration(t) \/ Deceleration(t)
             \/ WaitForAcceleration(t) \/ WaitForDeceleration(t)
      PROVE  Sequenced
  <2>1. UNCHANGED <<currentState, passed, reported, own, m_thread>>
    BY <1>4 DEF StartCentrifugeTest, StartPressureTest, StartSubTestFrom, PressureStartTest,
       CentrifugeStartTest, Acceleration, Deceleration, StartPolling, WaitForAcceleration,
       WaitForDeceleration, history, ReturnWithoutEvent, ReturnWithEvent
  <2> QED
    BY <1>0, <1>2, <2>1
<1>5. CASE HandleMessage
  <2>1. m_thread' = Tail(m_thread) /\ m_thread # <<>> /\ m_thread \in Seq(Messages)
    BY <1>5 DEF HandleMessage, Inv, Plain
  <2>2. answer' => answer
    BY <2>1, TailQueue DEF answer
  <2> QED
    BY <1>2, <1>5, <2>2, SequencedIs DEF HandleMessage
<1>10. ASSUME NEW message \in Messages \ {"Complete"},
              UNCHANGED <<machineVars, history>>,
              m_thread' = m_thread \/ Dispatch(message)
       PROVE  Sequenced
  BY <1>0, <1>2, <1>10, OtherMessages DEF machineVars, history, Inv, Plain
<1>6. CASE TimerThread \/ OnSelfTestEngineComplete
  <2>1. UNCHANGED <<machineVars, history>> /\ (m_thread' = m_thread \/ Dispatch("Poll"))
    BY <1>6 DEF TimerThread, TimerExpires, TimerInvokes, OnSelfTestEngineComplete
  <2> QED
    BY <1>10, <2>1, SequencedIs DEF Messages
<1>7. CASE MainThread \/ ClientStart
  <2>1. UNCHANGED <<machineVars, history>> /\ (m_thread' = m_thread \/ Dispatch("Start"))
    BY <1>7 DEF MainThread, MainStarts, MainWaits, MainExitsEngine, MainReturns, ClientStart
  <2> QED
    BY <1>10, <2>1, SequencedIs DEF Messages
<1>11. CASE ClientCancel("Cancel")
  <2>1. UNCHANGED <<machineVars, history>> /\ Dispatch("Cancel")
    BY <1>11 DEF ClientCancel, history
  <2> QED
    BY <1>10, <2>1, SequencedIs DEF Messages
<1>12. ~ClientCancel("CancelDirect")
  BY DEF ClientCancel, ClientMay, Confined
<1>8. CASE UNCHANGED vars
  BY <1>0, <1>2, <1>8, SequencedIs DEF vars, machineVars, history
<1>9. CASE \E t \in Thread : Execute(t)
  BY <1>1, <1>3, <1>4, <1>9, SequencedIs DEF Execute, StateAction
<1> QED
  BY <1>5, <1>6, <1>7, <1>8, <1>9, <1>11, <1>12, SequencedIs DEF Next, Step, ClientThread

LEMMA InitImplements ==
  ASSUME Init
  PROVE  Sequence!Init
<1>1. ~Queued("Complete")
  BY EmptySeq DEF Init, Queued
<1> QED
  BY <1>1, Names DEF Init, StateMachineInit, Sequence!Init

\* The program implements SelfTestSequence, whatever starts, cancels, polls and
\* completions the queue holds, a start after a cancel included: the centrifuge before the
\* pressure test, every run reported once and with its own pressure test passed in it, and
\* with its own centrifuge test unless a cancelled run's completion was still queued when
\* it began.
THEOREM EngineImplementsSequence ==
  ASSUME Confined
  PROVE  Spec => ImplementsSequence
<1>1. Init => Sequence!Init
  BY InitImplements
<1>2. Inv /\ [Next]_vars => [Sequence!Next]_(Sequence!sequenceVars)
  BY StepImplements
<1> QED
  BY <1>1, <1>2, Invariance, PTL DEF Spec, ImplementsSequence, Sequence!Spec
=============================================================================
