----------------------------- MODULE WaitProofs -----------------------------
(***************************************************************************)
(* Proofs about the two waits with a time limit.                           *)
(*                                                                         *)
(* Watchdog, whose worker waits for a message or its heartbeat, for every  *)
(* timeout and every latency that leaves room for one heartbeat.           *)
(*                                                                         *)
(* AsyncWait, whose callers wait for the function they have sent, for any  *)
(* clients, workers, calls and timeouts: a function never runs after its   *)
(* caller has left, a call succeeds only if its function has returned, and *)
(* callers and workers together implement BlockingCall.                    *)
(***************************************************************************)
EXTENDS AsyncWait, Watchdog, SequenceTheorems, TLAPS

\* A thread that waits with a time limit was last seen alive when the wait began:
\* its age is at most what the wait has lasted, which is bounded.
AgeInv ==
  /\ worker = "waiting" /\ watchdogTimeout => age <= slept + late
  /\ worker = "none" => ~watchdogTimeout

WDInv == WDTypeOK /\ AgeInv /\ IdleKeepsAlive

\* A heartbeat is a number of ticks, and with the latency no longer than the timeout.
LEMMA HeartbeatLemma ==
  /\ Heartbeat \in Nat /\ Timeout \in Nat /\ Latency \in Nat
  /\ Heartbeat + Latency <= Timeout
<1>1. Timeout \in Nat \ {0} /\ Latency \in Nat /\ (Timeout \div 10) + Latency <= Timeout
  BY TimingAssumption
<1>2. Timeout \div 10 \in Nat
  BY <1>1, SMT
<1> QED
  BY <1>1, <1>2 DEF Heartbeat

LEMMA WDInitInv == WDInit => WDInv
<1> SUFFICES ASSUME WDInit PROVE WDInv
  OBVIOUS
<1>1. age \in 0..(Timeout + 1) /\ slept \in 0..Heartbeat /\ late \in 0..Latency
  BY HeartbeatLemma DEF WDInit
<1>2. AgeInv /\ IdleKeepsAlive
  BY DEF WDInit, AgeInv, IdleKeepsAlive
<1>3. WDTypeOK
  BY <1>1 DEF WDInit, WDTypeOK
<1> QED
  BY <1>2, <1>3 DEF WDInv

\* A step of CreateThread(), ExitThread() or the destructor.
LEMMA OwnerInv ==
  ASSUME WDInv, ~alarm, OwnerStep \/ ExitThread \/ Destructor
  PROVE  WDInv'
<1> USE HeartbeatLemma DEF WDInv, WDTypeOK, AgeInv, IdleKeepsAlive, threadVars
<1>1. CASE CreateThread
  BY <1>1 DEF CreateThread
<1>2. CASE CreateThreadAlive
  BY <1>2 DEF CreateThreadAlive
<1>3. CASE CreateThreadTimeout
  BY <1>3 DEF CreateThreadTimeout
<1>4. CASE CreateThreadRegister
  BY <1>4 DEF CreateThreadRegister
<1>5. CASE ExitThread
  BY <1>5 DEF ExitThread
<1>6. CASE ExitThreadDone
  BY <1>6 DEF ExitThreadDone
<1>7. CASE Destructor
  BY <1>7 DEF Destructor
<1> QED
  BY <1>1, <1>2, <1>3, <1>4, <1>5, <1>6, <1>7 DEF OwnerStep

\* A step of Process() or of a handler.
LEMMA ProcessInv ==
  ASSUME WDInv, ~alarm, ProcessStep \/ ThreadCheck \/ HandlerReturns \/ HandlerHangs
  PROVE  WDInv'
<1> USE HeartbeatLemma DEF WDInv, WDTypeOK, AgeInv, IdleKeepsAlive, ownerVars, threadVars
<1>1. CASE WorkerStart
  BY <1>1 DEF WorkerStart
<1>2. CASE WorkerLoop
  BY <1>2 DEF WorkerLoop, LoopHead
<1>3. CASE WorkerWake
  <2>1. CASE pending
    <3>1. /\ worker' = "handler" /\ pending' = FALSE /\ age' = 0
          /\ UNCHANGED <<watchdogTimeout, slept, late, ownerVars, hung, alarm>>
      BY <1>3, <2>1 DEF WorkerWake
    <3>2. age' \in 0..(Timeout + 1)
      BY <3>1
    <3>3. WDTypeOK'
      BY <3>1, <3>2
    <3>4. AgeInv' /\ IdleKeepsAlive'
      BY <3>1
    <3> QED
      BY <3>3, <3>4
  <2>2. CASE ~pending /\ m_exit
    BY <1>3, <2>2 DEF WorkerWake
  <2>3. CASE ~pending /\ ~m_exit
    BY <1>3, <2>3 DEF WorkerWake, LoopHead
  <2> QED
    BY <2>1, <2>2, <2>3
<1>4. CASE ThreadCheck
  BY <1>4 DEF ThreadCheck
<1>5. CASE HandlerReturns
  BY <1>5 DEF HandlerReturns, LoopHead
<1>6. CASE HandlerHangs
  BY <1>6 DEF HandlerHangs
<1> QED
  BY <1>1, <1>2, <1>3, <1>4, <1>5, <1>6 DEF ProcessStep

\* A new message, a check of the watchdogs, or the passing of time.
LEMMA OthersInv ==
  ASSUME WDInv, ~alarm, DispatchDelegate \/ WatchdogCheckAll \/ Tick
  PROVE  WDInv'
<1> USE HeartbeatLemma DEF WDInv, WDTypeOK, AgeInv, IdleKeepsAlive, ownerVars, threadVars
<1>1. CASE DispatchDelegate
  BY <1>1 DEF DispatchDelegate
<1>2. CASE WatchdogCheckAll
  <2>1. age > Timeout /\ alarm' /\ UNCHANGED <<threadVars, ownerVars, age, pending>>
    BY <1>2 DEF WatchdogCheckAll, WatchdogCheck
  \* A wait within its limits is younger than the timeout.
  <2>2. watchdogTimeout => worker # "waiting" /\ worker # "none"
    BY <2>1
  <2> QED
    BY <1>2, <2>1, <2>2 DEF WatchdogCheckAll
<1>3. CASE Tick
  <2>1. /\ WaitIsOver => late < Latency /\ late' = late + 1
        /\ ~WaitIsOver => late' = late
        /\ age' <= age + 1 /\ age' \in 0..(Timeout + 1)
        /\ UNCHANGED <<worker, watchdogTimeout, hung, ownerVars, pending, alarm>>
    BY <1>3 DEF Tick
  <2>2. slept' \in 0..Heartbeat /\ slept' >= slept
    BY <1>3 DEF Tick
  \* A wait that goes on gets longer.
  <2>3. worker = "waiting" /\ watchdogTimeout => slept' + late' >= slept + late + 1
    BY <1>3, <2>1, <2>2 DEF Tick, WaitIsOver, Due
  <2> QED
    BY <2>1, <2>2, <2>3
<1> QED
  BY <1>1, <1>2, <1>3

LEMMA WDNextInv == WDInv /\ [WDNext]_WDvars => WDInv'
<1> SUFFICES ASSUME WDInv, [WDNext]_WDvars PROVE WDInv'
  OBVIOUS
<1>1. CASE ~alarm /\ Step
  BY <1>1, OwnerInv, ProcessInv, OthersInv DEF Step
<1>2. CASE UNCHANGED WDvars
  BY <1>2 DEF WDvars, threadVars, ownerVars, WDInv, WDTypeOK, AgeInv, IdleKeepsAlive
<1> QED
  BY <1>1, <1>2 DEF WDNext

LEMMA WDInvariance == WDSpec => []WDInv
BY WDInitInv, WDNextInv, PTL DEF WDSpec

\* The types of the watchdog's variables: no wait outlasts its time limit and no
\* wake-up its latency, in every behaviour of Process() and its environment.
THEOREM WDTypeCorrect == WDSpec => []WDTypeOK
<1>1. WDInv => WDTypeOK
  BY DEF WDInv
<1> QED
  BY <1>1, WDInvariance, PTL

\* While Process() waits for work with the timeout it was given, WatchdogCheckAll()
\* never raises the alarm, however messages and the exit of the thread interleave
\* with the heartbeats.
THEOREM IdleThreadKeepsAlive == WDSpec => []IdleKeepsAlive
<1>1. WDInv => IdleKeepsAlive
  BY DEF WDInv
<1> QED
  BY <1>1, WDInvariance, PTL

(***************************************************************************)
(* The blocking delegates.                                                 *)
(***************************************************************************)

\* A worker that is in Invoke() has a message.
JobTaken == \A w \in Workers : step[w] # "idle" => job[w] \in Calls

\* The flag is set only while the caller is in DispatchAsyncWait().
FlagMeansCalling == \A c \in m_invokerWaiting : phase[c] \in {"waiting", "awake"}

\* The second flag is set by a function that has returned.
SucceededMeansRan == m_invokeSucceeded \subseteq ran

\* The strengthening: the worker may invoke because of the flag, and the caller
\* may leave because of the lock.
Inv ==
  /\ TypeOK
  /\ JobTaken
  /\ FlagMeansCalling
  /\ SucceededMeansRan
  /\ ArgumentsOutliveFunction
  /\ SuccessMeansReturned

-----------------------------------------------------------------------------
LEMMA InitInv == Init => Inv
<1> SUFFICES ASSUME Init PROVE Inv
  OBVIOUS
<1>1. queue \in [Workers -> Seq(Calls)]
  BY EmptySeq DEF Init
<1>2. TypeOK
  <2>1. calling \in [Threads -> Calls \cup {None}] /\ job \in [Workers -> Calls \cup {None}]
    BY DEF Init
  <2>2. phase \in [Calls -> {"new", "waiting", "awake", "returned"}]
    BY DEF Init
  <2>3. step \in [Workers -> {"idle", "taken", "running", "signaled", "thrown", "caught"}]
    BY DEF Init
  <2>4. /\ waited \subseteq Calls /\ success \subseteq Calls /\ closed \subseteq Workers
        /\ m_invokerWaiting \subseteq Calls /\ m_invokeSucceeded \subseteq Calls
        /\ m_signaled \subseteq Calls /\ ran \subseteq Calls /\ fault \in BOOLEAN
    BY DEF Init
  <2> QED BY <1>1, <2>1, <2>2, <2>3, <2>4 DEF TypeOK
<1>3. \A w \in Workers : step[w] = "idle"
  BY DEF Init
<1>4. JobTaken /\ ArgumentsOutliveFunction
  BY <1>3, SMT DEF JobTaken, ArgumentsOutliveFunction
<1>5. FlagMeansCalling /\ SucceededMeansRan /\ SuccessMeansReturned
  BY SMT DEF Init, FlagMeansCalling, SucceededMeansRan, SuccessMeansReturned
<1> QED BY <1>2, <1>4, <1>5 DEF Inv

\* Dispatching puts the message of a call that is new at the end of a queue.
LEMMA DispatchInv ==
  ASSUME Inv, NEW t \in Threads, NEW c \in Calls, NEW w \in Workers, Dispatch(t, c, w)
  PROVE  Inv'
<1> USE DEF Dispatch, Begin
<1>1. TypeOK'
  <2>1. queue' \in [Workers -> Seq(Calls)]
    BY AppendProperties, SMT DEF Inv, TypeOK
  <2> QED BY <2>1, SMT DEF Inv, TypeOK
<1>2. JobTaken'
  BY SMT DEF Inv, TypeOK, JobTaken
<1>3. FlagMeansCalling'
  BY SMT DEF Inv, TypeOK, FlagMeansCalling
<1>4. SucceededMeansRan' /\ SuccessMeansReturned'
  BY SMT DEF Inv, SucceededMeansRan, SuccessMeansReturned
<1>5. ArgumentsOutliveFunction'
  BY SMT DEF Inv, TypeOK, JobTaken, ArgumentsOutliveFunction
<1> QED BY <1>1, <1>2, <1>3, <1>4, <1>5 DEF Inv

LEMMA DispatchRefusedInv ==
  ASSUME Inv, NEW t \in Threads, NEW c \in Calls, DispatchRefused(t, c)
  PROVE  Inv'
<1> USE DEF DispatchRefused, Begin, workerVars
<1>1. TypeOK'
  BY SMT DEF Inv, TypeOK
<1>2. JobTaken'
  BY SMT DEF Inv, TypeOK, JobTaken
<1>3. FlagMeansCalling'
  BY SMT DEF Inv, TypeOK, FlagMeansCalling
<1>4. SucceededMeansRan' /\ SuccessMeansReturned'
  BY SMT DEF Inv, SucceededMeansRan, SuccessMeansReturned
<1>5. ArgumentsOutliveFunction'
  BY SMT DEF Inv, TypeOK, JobTaken, ArgumentsOutliveFunction
<1> QED BY <1>1, <1>2, <1>3, <1>4, <1>5 DEF Inv

\* The end of a wait, by the semaphore or the timeout, leaves the caller where the
\* flag and the function allow it to be.
LEMMA WaitInv ==
  ASSUME Inv, NEW c \in Calls, Wait(c) \/ WaitTimesOut(c)
  PROVE  Inv'
<1> USE DEF Wait, WaitTimesOut, workerVars, messageVars
<1>1. TypeOK'
  <2>1. CASE Wait(c)
    BY <2>1, SMT DEF Inv, TypeOK
  <2>2. CASE WaitTimesOut(c)
    BY <2>2, SMT DEF Inv, TypeOK
  <2> QED BY <2>1, <2>2
<1>2. JobTaken'
  BY SMT DEF Inv, TypeOK, JobTaken
<1>3. FlagMeansCalling'
  BY SMT DEF Inv, TypeOK, FlagMeansCalling
<1>4. SucceededMeansRan' /\ SuccessMeansReturned'
  BY SMT DEF Inv, SucceededMeansRan, SuccessMeansReturned
<1>5. ArgumentsOutliveFunction'
  BY SMT DEF Inv, TypeOK, JobTaken, ArgumentsOutliveFunction
<1> QED BY <1>1, <1>2, <1>3, <1>4, <1>5 DEF Inv

\* The caller leaves with the lock: no worker is in the function of its message.
LEMMA ReturnInv ==
  ASSUME Inv, NEW t \in Threads, Return(t)
  PROVE  Inv'
<1> DEFINE c == calling[t]
<1> USE DEF workerVars
<1>1. /\ c \in Calls
      /\ LockIsFree(c)
      /\ success' = IF Succeeded(c) THEN success \cup {c} ELSE success
      /\ m_invokerWaiting' = m_invokerWaiting \ {c}
      /\ phase' = [phase EXCEPT ![c] = "returned"]
      /\ calling' = [calling EXCEPT ![t] = None]
      /\ UNCHANGED <<waited, workerVars, m_invokeSucceeded, m_signaled, ran, fault>>
  BY SMT DEF Return, Inv, TypeOK
<1> HIDE DEF c
<1>2. TypeOK'
  BY <1>1, SMT DEF Inv, TypeOK
<1>3. JobTaken'
  BY <1>1, SMT DEF Inv, TypeOK, JobTaken
<1>4. FlagMeansCalling'
  BY <1>1, SMT DEF Inv, TypeOK, FlagMeansCalling
<1>5. SucceededMeansRan'
  BY <1>1 DEF Inv, SucceededMeansRan
<1>6. SuccessMeansReturned'
  BY <1>1, SMT DEF Inv, SucceededMeansRan, SuccessMeansReturned, Succeeded
<1>7. ArgumentsOutliveFunction'
  <2> SUFFICES ASSUME NEW w \in Workers, step[w] = "running"
               PROVE  phase'[job[w]] \in {"waiting", "awake"}
    BY <1>1 DEF ArgumentsOutliveFunction
  <2>1. job[w] # c
    BY <1>1 DEF LockIsFree
  <2>2. job[w] \in Calls /\ phase[job[w]] \in {"waiting", "awake"}
    BY DEF Inv, JobTaken, ArgumentsOutliveFunction
  <2> QED BY <1>1, <2>1, <2>2, SMT DEF Inv, TypeOK
<1> QED BY <1>2, <1>3, <1>4, <1>5, <1>6, <1>7 DEF Inv

-----------------------------------------------------------------------------
LEMMA TakeInv ==
  ASSUME Inv, NEW w \in Workers, Take(w)
  PROVE  Inv'
<1> USE DEF Take, callerVars, messageVars
<1>1. queue[w] \in Seq(Calls) /\ queue[w] # <<>>
  BY DEF Inv, TypeOK
<1>2. Head(queue[w]) \in Calls /\ Tail(queue[w]) \in Seq(Calls)
  BY <1>1, HeadTailProperties
<1>3. TypeOK'
  BY <1>2, SMT DEF Inv, TypeOK
<1>4. JobTaken'
  BY <1>2, SMT DEF Inv, TypeOK, JobTaken
<1>5. FlagMeansCalling' /\ SucceededMeansRan' /\ SuccessMeansReturned'
  BY SMT DEF Inv, FlagMeansCalling, SucceededMeansRan, SuccessMeansReturned
<1>6. ArgumentsOutliveFunction'
  BY SMT DEF Inv, TypeOK, ArgumentsOutliveFunction
<1> QED BY <1>3, <1>4, <1>5, <1>6 DEF Inv

\* The worker invokes the function with the flag set, so with a caller that waits.
LEMMA InvokeInv ==
  ASSUME Inv, NEW w \in Workers, Invoke(w)
  PROVE  Inv'
<1>1. UNCHANGED <<callerVars, queue, closed, messageVars, ran, fault>>
  BY DEF Invoke
<1>2. FlagMeansCalling' /\ SucceededMeansRan' /\ SuccessMeansReturned'
  BY <1>1, SMT DEF Inv, FlagMeansCalling, SucceededMeansRan, SuccessMeansReturned,
     callerVars, messageVars
<1>3. CASE job[w] \in m_invokerWaiting
  <2>1. step' = [step EXCEPT ![w] = "running"] /\ job' = job
    BY <1>3 DEF Invoke
  <2>2. TypeOK'
    BY <1>1, <2>1, SMT DEF Inv, TypeOK, callerVars, messageVars
  <2>3. JobTaken'
    BY <1>3, <2>1, SMT DEF Inv, TypeOK, JobTaken
  <2>4. ArgumentsOutliveFunction'
    BY <1>1, <1>3, <2>1, SMT DEF Inv, TypeOK, FlagMeansCalling, ArgumentsOutliveFunction,
       callerVars
  <2> QED BY <1>2, <2>2, <2>3, <2>4 DEF Inv
<1>4. CASE job[w] \notin m_invokerWaiting
  <2>1. step' = [step EXCEPT ![w] = "idle"] /\ job' = [job EXCEPT ![w] = None]
    BY <1>4 DEF Invoke, Idle
  <2>2. TypeOK'
    BY <1>1, <2>1, SMT DEF Inv, TypeOK, callerVars, messageVars
  <2>3. JobTaken'
    BY <2>1, SMT DEF Inv, TypeOK, JobTaken
  <2>4. ArgumentsOutliveFunction'
    BY <1>1, <2>1, SMT DEF Inv, TypeOK, ArgumentsOutliveFunction, callerVars
  <2> QED BY <1>2, <2>2, <2>3, <2>4 DEF Inv
<1> QED BY <1>3, <1>4

\* The function ends.
LEMMA TargetEndsInv ==
  ASSUME Inv, NEW w \in Workers, TargetReturns(w) \/ TargetThrows(w)
  PROVE  Inv'
<1> USE DEF TargetReturns, TargetThrows, callerVars
<1>1. job[w] \in Calls
  BY DEF Inv, JobTaken
<1>2. TypeOK'
  <2>1. CASE TargetReturns(w)
    BY <1>1, <2>1, SMT DEF Inv, TypeOK
  <2>2. CASE TargetThrows(w)
    BY <1>1, <2>2, SMT DEF Inv, TypeOK
  <2> QED BY <2>1, <2>2
<1>3. JobTaken'
  BY <1>1, SMT DEF Inv, TypeOK, JobTaken
<1>4. FlagMeansCalling' /\ SucceededMeansRan' /\ SuccessMeansReturned'
  BY SMT DEF Inv, FlagMeansCalling, SucceededMeansRan, SuccessMeansReturned
<1>5. ArgumentsOutliveFunction'
  BY SMT DEF Inv, TypeOK, ArgumentsOutliveFunction
<1> QED BY <1>2, <1>3, <1>4, <1>5 DEF Inv

\* The worker leaves Invoke(), and may end, or assert after an exception.
LEMMA ReleaseInv ==
  ASSUME Inv, NEW w \in Workers,
         Release(w) \/ ReleaseAndEnd(w) \/ ReleaseThrown(w) \/ Fault(w)
  PROVE  Inv'
<1> USE DEF Release, ReleaseAndEnd, ReleaseThrown, Fault, Idle, callerVars,
        workerVars,
        messageVars
<1>1. TypeOK'
  <2>1. CASE Release(w)
    BY <2>1, SMT DEF Inv, TypeOK
  <2>2. CASE ReleaseAndEnd(w)
    <3>1. queue' \in [Workers -> Seq(Calls)]
      BY <2>2, EmptySeq DEF Inv, TypeOK
    <3> QED BY <2>2, <3>1, SMT DEF Inv, TypeOK
  <2>3. CASE ReleaseThrown(w)
    BY <2>3, SMT DEF Inv, TypeOK
  <2>4. CASE Fault(w)
    BY <2>4, SMT DEF Inv, TypeOK
  <2> QED BY <2>1, <2>2, <2>3, <2>4
<1>2. JobTaken'
  BY SMT DEF Inv, TypeOK, JobTaken
<1>3. FlagMeansCalling' /\ SucceededMeansRan' /\ SuccessMeansReturned'
  BY SMT DEF Inv, FlagMeansCalling, SucceededMeansRan, SuccessMeansReturned
<1>4. ArgumentsOutliveFunction'
  BY SMT DEF Inv, TypeOK, ArgumentsOutliveFunction
<1> QED BY <1>1, <1>2, <1>3, <1>4 DEF Inv

-----------------------------------------------------------------------------
LEMMA NextInv == Inv /\ [Next]_vars => Inv'
<1> SUFFICES ASSUME Inv, [Next]_vars PROVE Inv'
  OBVIOUS
<1>1. CASE NewCall
  BY <1>1, DispatchInv, DispatchRefusedInv DEF NewCall
<1>2. CASE CallerStep
  BY <1>2, WaitInv, ReturnInv DEF CallerStep
<1>3. ASSUME NEW w \in Workers, WorkerStep(w) PROVE Inv'
  BY <1>3, TakeInv, InvokeInv, TargetEndsInv, ReleaseInv DEF WorkerStep
<1>4. CASE UNCHANGED vars
  BY <1>4 DEF vars, callerVars, workerVars, messageVars, Inv, TypeOK, JobTaken,
     FlagMeansCalling, SucceededMeansRan, ArgumentsOutliveFunction, SuccessMeansReturned
<1> QED BY <1>1, <1>2, <1>3, <1>4 DEF Next

LEMMA AlwaysInv == Spec => []Inv
  BY InitInv, NextInv, PTL DEF Spec

\* Every reachable state has its types.
THEOREM TypeCorrect == Spec => []TypeOK
  BY AlwaysInv, PTL DEF Inv

\* However calls, timeouts, refusals, exceptions and exits of the worker interleave,
\* a function runs only while its caller is in DispatchAsyncWait() (its arguments,
\* held by reference, are alive).
THEOREM ArgumentsAreAlive == Spec => []ArgumentsOutliveFunction
  BY AlwaysInv, PTL DEF Inv

\* DispatchAsyncWait() returns true only for a function that has returned.
THEOREM SuccessIsTrue == Spec => []SuccessMeansReturned
  BY AlwaysInv, PTL DEF Inv

(***************************************************************************)
(* AsyncWait implements BlockingCall.                                      *)
(***************************************************************************)

\* A message is in one place: one entry of one queue, or one worker.  A function that
\* has returned, or a call that is still to be made, has no message there.
QueuedOnce ==
  /\ \A w \in Workers : \A i \in 1 .. Len(queue[w]) :
       phase[queue[w][i]] # "new" /\ queue[w][i] \notin ran
  /\ \A v, w \in Workers : \A i \in 1 .. Len(queue[v]), j \in 1 .. Len(queue[w]) :
       queue[v][i] = queue[w][j] => v = w /\ i = j

TakenOnce ==
  /\ \A w \in Workers : step[w] # "idle" =>
       /\ phase[job[w]] # "new"
       /\ \A v \in Workers : \A i \in 1 .. Len(queue[v]) : queue[v][i] # job[w]
  /\ \A w \in Workers : step[w] \notin {"idle", "signaled"} => job[w] \notin ran
  /\ \A v, w \in Workers : step[v] # "idle" /\ step[w] # "idle" /\ job[v] = job[w] => v = w

RanOnce == \A c \in ran : phase[c] # "new"

OnceInv == QueuedOnce /\ TakenOnce /\ RanOnce

LEMMA InitOnce == Init => OnceInv
<1> SUFFICES ASSUME Init PROVE OnceInv
  OBVIOUS
<1>1. \A w \in Workers : queue[w] = <<>> /\ step[w] = "idle"
  BY DEF Init
<1>2. \A w \in Workers : \A i \in 1 .. Len(queue[w]) : FALSE
  BY <1>1
<1>3. QueuedOnce
  BY <1>2 DEF QueuedOnce
<1>4. TakenOnce /\ RanOnce
  BY <1>1 DEF Init, TakenOnce, RanOnce
<1> QED
  BY <1>3, <1>4 DEF OnceInv

\* Steps that leave the queues, the workers and the calls that are made where they are.
LEMMA OnceKept ==
  ASSUME OnceInv, UNCHANGED <<queue, job, step, ran>>,
         \A c \in Calls : phase'[c] = "new" => phase[c] = "new",
         Inv, ran \subseteq Calls
  PROVE  OnceInv'
<1>1. \A w \in Workers : \A i \in 1 .. Len(queue[w]) : queue[w][i] \in Calls
  BY ElementOfSeq DEF Inv, TypeOK
<1>2. QueuedOnce'
  BY <1>1 DEF OnceInv, QueuedOnce
<1>3. TakenOnce'
  BY DEF OnceInv, TakenOnce, Inv, JobTaken
<1>4. RanOnce'
  BY DEF OnceInv, RanOnce
<1> QED
  BY <1>2, <1>3, <1>4 DEF OnceInv

\* A call that is new has no message anywhere, and so the one that it puts in is alone.
LEMMA DispatchOnce ==
  ASSUME Inv, OnceInv, NEW t \in Threads, NEW c \in Calls, NEW w \in Workers, Dispatch(t, c, w)
  PROVE  OnceInv'
<1>1. /\ phase[c] = "new" /\ phase' = [phase EXCEPT ![c] = "waiting"]
      /\ queue' = [queue EXCEPT ![w] = Append(@, c)]
      /\ UNCHANGED <<job, step, ran>>
  BY DEF Dispatch, Begin
<1>2. \A v \in Workers : queue[v] \in Seq(Calls) /\ Len(queue[v]) \in Nat
  BY LenProperties DEF Inv, TypeOK
<1>3. \A v \in Workers : \A i \in 1 .. Len(queue[v]) : queue[v][i] \in Calls
  BY <1>2, ElementOfSeq
<1>4. /\ phase \in [Calls -> {"new", "waiting", "awake", "returned"}] /\ ran \subseteq Calls
      /\ \A v \in Workers : step[v] # "idle" => job[v] \in Calls
  BY DEF Inv, TypeOK, JobTaken
\* An entry of a queue is an old one, or the last of w's.
<1>5. \A v \in Workers : \A i \in 1 .. Len(queue'[v]) :
        \/ i \in 1 .. Len(queue[v]) /\ queue'[v][i] = queue[v][i]
        \/ v = w /\ i = Len(queue[w]) + 1 /\ queue'[v][i] = c
  <2> TAKE v \in Workers
  <2> TAKE i \in 1 .. Len(queue'[v])
  <2>1. CASE v # w
    <3>1. queue'[v] = queue[v]
      BY <1>1, <2>1 DEF Inv, TypeOK
    <3> QED
      BY <3>1
  <2>2. CASE v = w
    <3>1. queue'[w] = Append(queue[w], c)
      BY <1>1 DEF Inv, TypeOK
    <3> QED
      BY <1>2, <2>2, <3>1, AppendProperties
  <2> QED
    BY <2>1, <2>2
<1>6. \A d \in Calls : phase'[d] # "new" <=> phase[d] # "new" \/ d = c
  BY <1>1, <1>4
<1>7. c \notin ran /\ \A v \in Workers : step[v] # "idle" => job[v] # c
  BY <1>1 DEF OnceInv, RanOnce, TakenOnce
<1>8. \A v \in Workers : \A i \in 1 .. Len(queue[v]) : queue[v][i] # c
  BY <1>1 DEF OnceInv, QueuedOnce
<1>9. QueuedOnce'
  <2>1. ASSUME NEW v \in Workers, NEW i \in 1 .. Len(queue'[v])
        PROVE  phase'[queue'[v][i]] # "new" /\ queue'[v][i] \notin ran
    BY <1>3, <1>5, <1>6, <1>7 DEF OnceInv, QueuedOnce
  <2>2. ASSUME NEW u \in Workers, NEW v \in Workers,
               NEW i \in 1 .. Len(queue'[u]), NEW j \in 1 .. Len(queue'[v]),
               queue'[u][i] = queue'[v][j]
        PROVE  u = v /\ i = j
    BY <1>5, <1>8, <2>2 DEF OnceInv, QueuedOnce
  <2> QED
    BY <1>1, <2>1, <2>2 DEF QueuedOnce
<1>10. TakenOnce'
  <2>1. ASSUME NEW v \in Workers, step[v] # "idle"
        PROVE  /\ phase'[job[v]] # "new"
               /\ \A u \in Workers : \A i \in 1 .. Len(queue'[u]) : queue'[u][i] # job[v]
    BY <1>4, <1>5, <1>6, <1>7, <2>1 DEF OnceInv, TakenOnce
  <2> QED
    BY <1>1, <2>1 DEF OnceInv, TakenOnce
<1>11. RanOnce'
  BY <1>1, <1>4, <1>6 DEF OnceInv, RanOnce
<1> QED
  BY <1>9, <1>10, <1>11 DEF OnceInv

LEMMA TakeOnce ==
  ASSUME Inv, OnceInv, NEW w \in Workers, Take(w)
  PROVE  OnceInv'
<1>1. /\ step[w] = "idle" /\ queue[w] # <<>>
      /\ job' = [job EXCEPT ![w] = Head(queue[w])]
      /\ queue' = [queue EXCEPT ![w] = Tail(@)]
      /\ step' = [step EXCEPT ![w] = "taken"]
      /\ UNCHANGED <<phase, ran>>
  BY DEF Take, callerVars
<1>2. \A v \in Workers : queue[v] \in Seq(Calls) /\ Len(queue[v]) \in Nat
  BY LenProperties DEF Inv, TypeOK
<1>3. 1 \in 1 .. Len(queue[w]) /\ Head(queue[w]) = queue[w][1]
  BY <1>1, <1>2, EmptySeq
<1>4. job'[w] = queue[w][1] /\ step'[w] = "taken"
  BY <1>1, <1>3 DEF Inv, TypeOK
<1>5. \A v \in Workers \ {w} : job'[v] = job[v] /\ step'[v] = step[v] /\ queue'[v] = queue[v]
  BY <1>1 DEF Inv, TypeOK
<1>6. \A i \in 1 .. Len(queue'[w]) : i + 1 \in 1 .. Len(queue[w]) /\ queue'[w][i] = queue[w][i + 1]
  <2>1. queue'[w] = Tail(queue[w])
    BY <1>1 DEF Inv, TypeOK
  <2>2. /\ Len(Tail(queue[w])) = Len(queue[w]) - 1
        /\ \A i \in 1 .. Len(Tail(queue[w])) : Tail(queue[w])[i] = queue[w][i + 1]
    BY <1>1, <1>2, HeadTailProperties
  <2> QED
    BY <1>2, <2>1, <2>2
\* Every entry was one before, and not the first of w's.
<1>7. \A v \in Workers : \A i \in 1 .. Len(queue'[v]) :
        \E k \in 1 .. Len(queue[v]) :
          k = (IF v = w THEN i + 1 ELSE i) /\ queue'[v][i] = queue[v][k]
  BY <1>5, <1>6
<1>8. QueuedOnce'
  <2>1. ASSUME NEW v \in Workers, NEW i \in 1 .. Len(queue'[v])
        PROVE  phase'[queue'[v][i]] # "new" /\ queue'[v][i] \notin ran'
    BY <1>1, <1>7 DEF OnceInv, QueuedOnce
  <2>2. ASSUME NEW u \in Workers, NEW v \in Workers,
               NEW i \in 1 .. Len(queue'[u]), NEW j \in 1 .. Len(queue'[v]),
               queue'[u][i] = queue'[v][j]
        PROVE  u = v /\ i = j
    <3>1. PICK k \in 1 .. Len(queue[u]) :
            k = (IF u = w THEN i + 1 ELSE i) /\ queue'[u][i] = queue[u][k]
      BY <1>7
    <3>2. PICK l \in 1 .. Len(queue[v]) :
            l = (IF v = w THEN j + 1 ELSE j) /\ queue'[v][j] = queue[v][l]
      BY <1>7
    <3>3. queue[u][k] = queue[v][l]
      BY <2>2, <3>1, <3>2
    <3>4. u = v /\ k = l
      BY <3>3 DEF OnceInv, QueuedOnce
    <3>5. i \in Int /\ j \in Int
      OBVIOUS
    <3> QED
      BY <3>1, <3>2, <3>4, <3>5
  <2> QED
    BY <2>1, <2>2 DEF QueuedOnce
<1>9. \A v \in Workers : \A i \in 1 .. Len(queue'[v]) : queue'[v][i] # queue[w][1]
  <2> TAKE v \in Workers
  <2> TAKE i \in 1 .. Len(queue'[v])
  <2>1. PICK k \in 1 .. Len(queue[v]) :
          k = (IF v = w THEN i + 1 ELSE i) /\ queue'[v][i] = queue[v][k]
    BY <1>7
  <2>2. queue[v][k] = queue[w][1] => v = w /\ k = 1
    BY <1>3 DEF OnceInv, QueuedOnce
  <2> QED
    BY <2>1, <2>2
<1>10. TakenOnce'
  <2>1. ASSUME NEW v \in Workers, step'[v] # "idle"
        PROVE  /\ phase[job'[v]] # "new"
               /\ \A u \in Workers : \A i \in 1 .. Len(queue'[u]) : queue'[u][i] # job'[v]
    <3>1. CASE v = w
      BY <1>3, <1>4, <1>9, <3>1 DEF OnceInv, QueuedOnce
    <3>2. CASE v # w
      <4>1. step[v] # "idle" /\ job'[v] = job[v]
        BY <1>5, <2>1, <3>2
      <4> QED
        BY <1>7, <4>1 DEF OnceInv, TakenOnce
    <3> QED
      BY <3>1, <3>2
  <2>2. ASSUME NEW v \in Workers, step'[v] \notin {"idle", "signaled"} PROVE job'[v] \notin ran
    <3>1. CASE v = w
      BY <1>3, <1>4, <3>1 DEF OnceInv, QueuedOnce
    <3>2. CASE v # w
      BY <1>5, <2>2, <3>2 DEF OnceInv, TakenOnce
    <3> QED
      BY <3>1, <3>2
  <2>3. \A v \in Workers \ {w} : step[v] # "idle" => job[v] # queue[w][1]
    BY <1>3 DEF OnceInv, TakenOnce
  <2>4. ASSUME NEW u \in Workers, NEW v \in Workers, step'[u] # "idle", step'[v] # "idle",
               job'[u] = job'[v]
        PROVE  u = v
    BY <1>4, <1>5, <2>3, <2>4 DEF OnceInv, TakenOnce
  <2> QED
    BY <1>1, <2>1, <2>2, <2>4 DEF TakenOnce
<1>11. RanOnce'
  BY <1>1 DEF OnceInv, RanOnce
<1> QED
  BY <1>8, <1>10, <1>11 DEF OnceInv

\* A worker that goes on with its message, leaves it, or has invoked its function.
LEMMA WorkerOnce ==
  ASSUME Inv, OnceInv, NEW w \in Workers, UNCHANGED phase,
         \A v \in Workers \ {w} : job'[v] = job[v] /\ step'[v] = step[v],
         \A v \in Workers : queue'[v] = queue[v] \/ queue'[v] = <<>>,
         step[w] # "idle",
         step'[w] = "idle" \/ job'[w] = job[w],
         \/ UNCHANGED ran /\ (step[w] = "signaled" => step'[w] = "idle")
         \/ ran' = ran \cup {job[w]} /\ step'[w] = "signaled"
  PROVE  OnceInv'
<1>1. \A v \in Workers : \A i \in 1 .. Len(queue'[v]) :
        i \in 1 .. Len(queue[v]) /\ queue'[v][i] = queue[v][i]
  <2> TAKE v \in Workers
  <2>1. CASE queue'[v] = queue[v]
    BY <2>1
  <2>2. CASE queue'[v] = <<>>
    BY <2>2
  <2> QED
    BY <2>1, <2>2
<1>2. \A v \in Workers : step'[v] # "idle" => step[v] # "idle" /\ job'[v] = job[v]
  OBVIOUS
<1>3. \A v \in Workers : \A i \in 1 .. Len(queue[v]) : queue[v][i] # job[w]
  BY DEF OnceInv, TakenOnce
<1>4. QueuedOnce'
  <2>1. ASSUME NEW v \in Workers, NEW i \in 1 .. Len(queue'[v])
        PROVE  phase'[queue'[v][i]] # "new" /\ queue'[v][i] \notin ran'
    BY <1>1, <1>3 DEF OnceInv, QueuedOnce
  <2>2. ASSUME NEW u \in Workers, NEW v \in Workers,
               NEW i \in 1 .. Len(queue'[u]), NEW j \in 1 .. Len(queue'[v]),
               queue'[u][i] = queue'[v][j]
        PROVE  u = v /\ i = j
    BY <1>1, <2>2 DEF OnceInv, QueuedOnce
  <2> QED
    BY <2>1, <2>2 DEF QueuedOnce
<1>5. TakenOnce'
  <2>1. ASSUME NEW v \in Workers, step'[v] # "idle"
        PROVE  /\ phase'[job'[v]] # "new"
               /\ \A u \in Workers : \A i \in 1 .. Len(queue'[u]) : queue'[u][i] # job'[v]
    BY <1>1, <1>2, <2>1 DEF OnceInv, TakenOnce
  <2>2. ASSUME NEW v \in Workers, step'[v] \notin {"idle", "signaled"}
        PROVE  job'[v] \notin ran'
    <3>1. CASE v = w
      BY <1>2, <2>2, <3>1 DEF OnceInv, TakenOnce
    <3>2. CASE v # w
      <4>1. step[v] \notin {"idle", "signaled"} /\ job'[v] = job[v] /\ job[v] # job[w]
        BY <2>2, <3>2 DEF OnceInv, TakenOnce
      <4> QED
        BY <4>1 DEF OnceInv, TakenOnce
    <3> QED
      BY <3>1, <3>2
  <2>3. ASSUME NEW u \in Workers, NEW v \in Workers, step'[u] # "idle", step'[v] # "idle",
               job'[u] = job'[v]
        PROVE  u = v
    BY <1>2, <2>3 DEF OnceInv, TakenOnce
  <2> QED
    BY <2>1, <2>2, <2>3 DEF TakenOnce
<1>6. RanOnce'
  BY DEF OnceInv, RanOnce, TakenOnce
<1> QED
  BY <1>4, <1>5, <1>6 DEF OnceInv

LEMMA WorkerStepOnce ==
  ASSUME Inv, OnceInv, NEW w \in Workers, WorkerStep(w)
  PROVE  OnceInv'
<1>1. CASE Take(w)
  BY <1>1, TakeOnce
<1>2. /\ job \in [Workers -> Calls \cup {None}] /\ queue \in [Workers -> Seq(Calls)]
      /\ step \in [Workers -> {"idle", "taken", "running", "signaled", "thrown", "caught"}]
  BY DEF Inv, TypeOK
<1>3. CASE ~Take(w)
  <2>1. UNCHANGED phase /\ step[w] # "idle"
    BY <1>3 DEF WorkerStep, Invoke, TargetReturns, Release, ReleaseAndEnd, TargetThrows,
       ReleaseThrown, Fault, callerVars
  <2>2. \A v \in Workers \ {w} : job'[v] = job[v] /\ step'[v] = step[v]
    BY <1>2, <1>3 DEF WorkerStep, Invoke, TargetReturns, Release, ReleaseAndEnd, TargetThrows,
       ReleaseThrown, Fault, workerVars, Idle
  <2>3. \A v \in Workers : queue'[v] = queue[v] \/ queue'[v] = <<>>
    BY <1>2, <1>3 DEF WorkerStep, Invoke, TargetReturns, Release, ReleaseAndEnd, TargetThrows,
       ReleaseThrown, Fault, workerVars
  <2>4. step'[w] = "idle" \/ job'[w] = job[w]
    BY <1>2, <1>3 DEF WorkerStep, Invoke, TargetReturns, Release, ReleaseAndEnd, TargetThrows,
       ReleaseThrown, Fault, workerVars, Idle
  <2>5. \/ UNCHANGED ran /\ (step[w] = "signaled" => step'[w] = "idle")
        \/ ran' = ran \cup {job[w]} /\ step'[w] = "signaled"
    BY <1>2, <1>3 DEF WorkerStep, Invoke, TargetReturns, Release, ReleaseAndEnd, TargetThrows,
       ReleaseThrown, Fault, workerVars, Idle
  <2> QED
    BY <2>1, <2>2, <2>3, <2>4, <2>5, WorkerOnce
<1> QED
  BY <1>1, <1>3

LEMMA NextOnce == Inv /\ OnceInv /\ [Next]_vars => OnceInv'
<1> SUFFICES ASSUME Inv, OnceInv, [Next]_vars PROVE OnceInv'
  OBVIOUS
<1>1. phase \in [Calls -> {"new", "waiting", "awake", "returned"}] /\ ran \subseteq Calls
  BY DEF Inv, TypeOK
<1>2. ASSUME NEW t \in Threads, NEW c \in Calls, DispatchRefused(t, c) PROVE OnceInv'
  <2>1. phase' = [phase EXCEPT ![c] = "awake"] /\ UNCHANGED <<queue, job, step, ran>>
    BY <1>2 DEF DispatchRefused, workerVars
  <2> QED
    BY <1>1, <2>1, OnceKept
<1>3. ASSUME NEW c \in Calls, Wait(c) \/ WaitTimesOut(c) PROVE OnceInv'
  <2>1. phase' = [phase EXCEPT ![c] = "awake"] /\ UNCHANGED <<queue, job, step, ran>>
    BY <1>3 DEF Wait, WaitTimesOut, workerVars
  <2> QED
    BY <1>1, <2>1, OnceKept
<1>4. ASSUME NEW t \in Threads, Return(t) PROVE OnceInv'
  <2>1. PICK c : phase' = [phase EXCEPT ![c] = "returned"] /\ UNCHANGED <<queue, job, step, ran>>
    BY <1>4 DEF Return, workerVars
  <2> QED
    BY <1>1, <2>1, OnceKept
<1>5. ASSUME NEW w \in Workers, WorkerStep(w) PROVE OnceInv'
  BY <1>5, WorkerStepOnce
<1>6. CASE UNCHANGED vars
  BY <1>1, <1>6, OnceKept DEF vars, callerVars, workerVars
<1> QED
  BY <1>2, <1>3, <1>4, <1>5, <1>6, DispatchOnce DEF Next, NewCall, CallerStep

LEMMA AlwaysOnce == Spec => []OnceInv
  BY InitOnce, NextOnce, AlwaysInv, PTL DEF Spec

-----------------------------------------------------------------------------
\* What a step does to the call c and its function, as BlockingCall sees them.
CallKept(c) == CallStatus(c)' = CallStatus(c)
FunctionKept(c) == FunctionStatus(c)' = FunctionStatus(c)

Opens(c)  == CallStatus(c) = "new" /\ CallStatus(c)' = "open" /\ FunctionKept(c)
Starts(c) == /\ CallStatus(c) = "open" /\ FunctionStatus(c) = "unused"
             /\ FunctionStatus(c)' = "running" /\ CallKept(c)
Ends(c)   == /\ CallStatus(c) = "open" /\ FunctionStatus(c) = "running"
             /\ FunctionStatus(c)' \in {"returned", "thrown"} /\ CallKept(c)
Leaves(c) == /\ CallStatus(c) = "open" /\ FunctionKept(c)
             /\ \/ FunctionStatus(c) = "returned" /\ CallStatus(c)' = "succeeded"
                \/ FunctionStatus(c) # "running" /\ CallStatus(c)' = "failed"

LEMMA BlockingSteps ==
  ASSUME NEW c \in Calls, \A d \in Calls \ {c} : CallKept(d) /\ FunctionKept(d),
         Opens(c) \/ Starts(c) \/ Ends(c) \/ Leaves(c)
  PROVE  Blocking!Next
<1> DEFINE call == [d \in Calls |-> CallStatus(d)]
           function == [d \in Calls |-> FunctionStatus(d)]
<1>1. /\ \A d \in Calls : call[d] = CallStatus(d) /\ function[d] = FunctionStatus(d)
      /\ FunctionKept(c) => function' = function
      /\ CallKept(c) => call' = call
      /\ call' = [call EXCEPT ![c] = CallStatus(c)']
      /\ function' = [function EXCEPT ![c] = FunctionStatus(c)']
  BY DEF CallKept, FunctionKept
<1>2. CASE Opens(c)
  <2>1. Blocking!Open(c)
    BY <1>1, <1>2 DEF Opens, Blocking!Open
  <2> QED
    BY <2>1 DEF Blocking!Next
<1>3. CASE Starts(c)
  <2>1. Blocking!Start(c)
    BY <1>1, <1>3 DEF Starts, Blocking!Start
  <2> QED
    BY <2>1 DEF Blocking!Next
<1>4. CASE Ends(c)
  <2>1. PICK how \in {"returned", "thrown"} : FunctionStatus(c)' = how
    BY <1>4 DEF Ends
  <2>2. Blocking!End(c, how)
    BY <1>1, <1>4, <2>1 DEF Ends, Blocking!End
  <2> QED
    BY <2>2 DEF Blocking!Next
<1>5. CASE Leaves(c)
  <2>1. Blocking!Succeed(c) \/ Blocking!Fail(c)
    BY <1>1, <1>5 DEF Leaves, Blocking!Succeed, Blocking!Fail
  <2> QED
    BY <2>1 DEF Blocking!Next
<1> QED
  BY <1>2, <1>3, <1>4, <1>5

LEMMA BlockingStutters ==
  ASSUME \A d \in Calls : CallKept(d) /\ FunctionKept(d)
  PROVE  UNCHANGED Blocking!callVars
  BY DEF CallKept, FunctionKept, Blocking!callVars

LEMMA CallStatusIs ==
  ASSUME NEW c \in Calls
  PROVE  /\ phase[c] = "new" => CallStatus(c) = "new"
         /\ phase[c] \in {"waiting", "awake"} => CallStatus(c) = "open"
         /\ phase[c] = "returned" =>
              CallStatus(c) = IF c \in success THEN "succeeded" ELSE "failed"
  BY DEF CallStatus

LEMMA CallStatusNext ==
  ASSUME NEW c \in Calls
  PROVE  /\ phase'[c] = "new" => CallStatus(c)' = "new"
         /\ phase'[c] \in {"waiting", "awake"} => CallStatus(c)' = "open"
         /\ phase'[c] = "returned" =>
              CallStatus(c)' = IF c \in success' THEN "succeeded" ELSE "failed"
  BY DEF CallStatus

LEMMA FunctionStatusIs ==
  ASSUME NEW c \in Calls
  PROVE  /\ Runs(c) => FunctionStatus(c) = "running"
         /\ ~Runs(c) /\ c \in ran => FunctionStatus(c) = "returned"
         /\ ~Runs(c) /\ c \notin ran => FunctionStatus(c) = IF Threw(c) THEN "thrown" ELSE "unused"
  BY DEF FunctionStatus

LEMMA FunctionStatusNext ==
  ASSUME NEW c \in Calls
  PROVE  /\ Runs(c)' => FunctionStatus(c)' = "running"
         /\ ~Runs(c)' /\ c \in ran' => FunctionStatus(c)' = "returned"
         /\ ~Runs(c)' /\ c \notin ran' =>
              FunctionStatus(c)' = IF Threw(c)' THEN "thrown" ELSE "unused"
  BY DEF FunctionStatus

LEMMA CallIsKept ==
  ASSUME Inv, NEW c \in Calls,
         \/ phase'[c] = phase[c]
         \/ phase[c] \in {"waiting", "awake"} /\ phase'[c] \in {"waiting", "awake"},
         phase[c] = "returned" => (c \in success' <=> c \in success)
  PROVE  CallKept(c)
<1>1. phase[c] \in {"new", "waiting", "awake", "returned"}
  BY DEF Inv, TypeOK
<1> QED
  BY <1>1, CallStatusIs, CallStatusNext DEF CallKept

\* What a worker has of the function of c: it runs it, or has caught what it threw.
LEMMA FunctionIsKept ==
  ASSUME NEW c \in Calls, c \in ran' <=> c \in ran,
         \A w \in Workers : (step'[w] = "running" /\ job'[w] = c) <=> (step[w] = "running" /\ job[w] = c),
         \A w \in Workers : (step'[w] \in {"thrown", "caught"} /\ job'[w] = c)
                              <=> (step[w] \in {"thrown", "caught"} /\ job[w] = c)
  PROVE  FunctionKept(c)
<1>1. (Runs(c)' <=> Runs(c)) /\ (Threw(c)' <=> Threw(c))
  BY DEF Runs, Threw
<1> QED
  BY <1>1, FunctionStatusIs, FunctionStatusNext DEF FunctionKept

LEMMA CallerImplements ==
  ASSUME Inv, NewCall \/ CallerStep
  PROVE  [Blocking!Next]_(Blocking!callVars)
<1>1. UNCHANGED <<job, step, ran>>
  BY DEF NewCall, CallerStep, Dispatch, DispatchRefused, Wait, WaitTimesOut, Return, workerVars
<1>2. \A c \in Calls : FunctionKept(c)
  BY <1>1, FunctionIsKept
<1>3. /\ phase \in [Calls -> {"new", "waiting", "awake", "returned"}]
      /\ calling \in [Threads -> Calls \cup {None}]
  BY DEF Inv, TypeOK
<1>4. ASSUME NEW t \in Threads, NEW c \in Calls,
             DispatchRefused(t, c) \/ \E w \in Workers : Dispatch(t, c, w)
      PROVE  Blocking!Next
  <2>1. /\ phase[c] = "new" /\ UNCHANGED success
        /\ phase' = [phase EXCEPT ![c] = "waiting"] \/ phase' = [phase EXCEPT ![c] = "awake"]
    BY <1>4 DEF DispatchRefused, Dispatch, Begin
  <2>2. phase'[c] \in {"waiting", "awake"} /\ \A d \in Calls \ {c} : phase'[d] = phase[d]
    BY <1>3, <2>1
  <2>3. Opens(c)
    BY <1>2, <2>1, <2>2, CallStatusIs, CallStatusNext DEF Opens
  <2>4. \A d \in Calls \ {c} : CallKept(d)
    BY <2>1, <2>2, CallIsKept
  <2> QED
    BY <1>2, <2>3, <2>4, BlockingSteps
<1>5. ASSUME NEW c \in Calls, Wait(c) \/ WaitTimesOut(c)
      PROVE  UNCHANGED Blocking!callVars
  <2>1. phase[c] = "waiting" /\ UNCHANGED success /\ phase' = [phase EXCEPT ![c] = "awake"]
    BY <1>5 DEF Wait, WaitTimesOut
  <2>2. phase'[c] = "awake" /\ \A d \in Calls \ {c} : phase'[d] = phase[d]
    BY <1>3, <2>1
  <2>3. \A d \in Calls : CallKept(d)
    BY <2>1, <2>2, CallIsKept
  <2> QED
    BY <1>2, <2>3, BlockingStutters
\* The lock that the caller takes is the worker's for as long as the function runs.
<1>6. ASSUME NEW t \in Threads, Return(t) PROVE Blocking!Next
  <2>1. PICK c : c = calling[t]
    OBVIOUS
  <2>2. /\ c \in Calls /\ phase[c] = "awake" /\ LockIsFree(c)
        /\ success' = IF Succeeded(c) THEN success \cup {c} ELSE success
        /\ phase' = [phase EXCEPT ![c] = "returned"]
    BY <1>3, <1>6, <2>1 DEF Return
  <2>3. phase'[c] = "returned" /\ \A d \in Calls \ {c} : phase'[d] = phase[d]
    BY <1>3, <2>2
  <2>4. ~Runs(c) /\ CallStatus(c) = "open"
    BY <2>2, CallStatusIs DEF Runs, LockIsFree
  <2>5. FunctionStatus(c) # "running"
    BY <2>2, <2>4, FunctionStatusIs
  <2>6. Leaves(c)
    <3>1. CASE c \in success'
      <4>1. c \in ran
        BY <2>2, <3>1 DEF Succeeded, Inv, SucceededMeansRan, SuccessMeansReturned
      <4>2. FunctionStatus(c) = "returned"
        BY <2>2, <2>4, <4>1, FunctionStatusIs
      <4>3. CallStatus(c)' = "succeeded"
        BY <2>2, <2>3, <3>1, CallStatusNext
      <4> QED
        BY <1>2, <2>2, <2>4, <4>2, <4>3 DEF Leaves
    <3>2. CASE c \notin success'
      <4>1. CallStatus(c)' = "failed"
        BY <2>2, <2>3, <3>2, CallStatusNext
      <4> QED
        BY <1>2, <2>2, <2>4, <2>5, <4>1 DEF Leaves
    <3> QED
      BY <3>1, <3>2
  <2>7. \A d \in Calls \ {c} : CallKept(d)
    BY <2>2, <2>3, CallIsKept
  <2> QED
    BY <1>2, <2>2, <2>6, <2>7, BlockingSteps
<1> QED
  BY <1>4, <1>5, <1>6 DEF NewCall, CallerStep

LEMMA WorkerImplements ==
  ASSUME Inv, OnceInv, NEW w \in Workers, WorkerStep(w)
  PROVE  [Blocking!Next]_(Blocking!callVars)
<1>1. /\ job \in [Workers -> Calls \cup {None}] /\ None \notin Calls
      /\ step \in [Workers -> {"idle", "taken", "running", "signaled", "thrown", "caught"}]
  BY CallAssumption DEF Inv, TypeOK
<1>2. UNCHANGED <<phase, success>>
  BY DEF WorkerStep, Take, Invoke, TargetReturns, Release, ReleaseAndEnd, TargetThrows,
     ReleaseThrown, Fault, callerVars
<1>3. \A c \in Calls : CallKept(c)
  BY <1>2, CallIsKept
<1>4. PICK c : c = job[w]
  OBVIOUS
<1>5. \A v \in Workers \ {w} : job'[v] = job[v] /\ step'[v] = step[v]
  BY <1>1 DEF WorkerStep, Take, Invoke, TargetReturns, Release, ReleaseAndEnd, TargetThrows,
     ReleaseThrown, Fault, workerVars, Idle
\* No other worker has the message.
<1>6. step[w] # "idle" => /\ c \in Calls
                          /\ \A v \in Workers \ {w} : step[v] # "idle" => job[v] # c
  BY <1>4 DEF Inv, JobTaken, OnceInv, TakenOnce
<1>7. CASE /\ step[w] \in {"idle", "taken", "signaled"} /\ step'[w] \in {"idle", "taken"}
           /\ UNCHANGED ran
  <2>1. \A d \in Calls : FunctionKept(d)
    BY <1>5, <1>7, FunctionIsKept
  <2> QED
    BY <1>3, <2>1, BlockingStutters
<1>8. CASE ReleaseThrown(w) \/ Fault(w)
  <2>1. /\ step[w] \in {"thrown", "caught"} /\ step'[w] \in {"thrown", "caught"}
        /\ job'[w] = job[w] /\ UNCHANGED ran
    BY <1>1, <1>8 DEF ReleaseThrown, Fault, workerVars
  <2>2. \A d \in Calls : FunctionKept(d)
    BY <1>5, <2>1, FunctionIsKept
  <2> QED
    BY <1>3, <2>2, BlockingStutters
<1>9. ASSUME step[w] \in {"taken", "running"}, job'[w] = c, step'[w] \in {"running", "signaled", "thrown"},
             ran' = ran \/ ran' = ran \cup {c}
      PROVE  /\ \A d \in Calls \ {c} : FunctionKept(d)
             /\ Runs(c)' <=> step'[w] = "running"
             /\ Threw(c)' <=> step'[w] = "thrown"
             /\ Runs(c) <=> step[w] = "running"
             /\ ~Threw(c) /\ c \in Calls
  <2>1. \A d \in Calls \ {c} : FunctionKept(d)
    BY <1>4, <1>5, <1>9, FunctionIsKept
  <2>2. \A v \in Workers \ {w} : step[v] # "idle" => job[v] # c
    BY <1>6, <1>9
  <2> QED
    BY <1>4, <1>5, <1>6, <1>9, <2>1, <2>2 DEF Runs, Threw
<1>10. CASE Invoke(w) /\ c \in m_invokerWaiting
  <2>1. /\ step[w] = "taken" /\ step'[w] = "running" /\ job'[w] = c /\ ran' = ran
    BY <1>1, <1>4, <1>10 DEF Invoke
  <2>2. c \in Calls /\ c \notin ran /\ CallStatus(c) = "open"
    <3>1. phase[c] \in {"waiting", "awake"}
      BY <1>10 DEF Inv, FlagMeansCalling
    <3> QED
      BY <1>4, <1>6, <2>1, <3>1, CallStatusIs DEF OnceInv, TakenOnce
  <2>3. FunctionStatus(c) = "unused" /\ FunctionStatus(c)' = "running"
    BY <1>9, <2>1, <2>2, FunctionStatusIs, FunctionStatusNext
  <2>4. Starts(c)
    BY <1>3, <2>2, <2>3 DEF Starts
  <2> QED
    BY <1>3, <1>9, <2>1, <2>4, BlockingSteps
<1>11. CASE TargetReturns(w) \/ TargetThrows(w)
  <2>1. /\ step[w] = "running" /\ job'[w] = c
        /\ \/ step'[w] = "signaled" /\ ran' = ran \cup {c}
           \/ step'[w] = "thrown" /\ ran' = ran
    BY <1>1, <1>4, <1>11 DEF TargetReturns, TargetThrows
  <2>2. c \in Calls /\ c \notin ran /\ CallStatus(c) = "open"
    <3>1. phase[c] \in {"waiting", "awake"}
      BY <1>4, <2>1 DEF Inv, ArgumentsOutliveFunction
    <3> QED
      BY <1>4, <1>6, <2>1, <3>1, CallStatusIs DEF OnceInv, TakenOnce
  <2>3. FunctionStatus(c) = "running"
    BY <1>9, <2>1, <2>2, FunctionStatusIs
  <2>4. FunctionStatus(c)' \in {"returned", "thrown"}
    BY <1>9, <2>1, <2>2, FunctionStatusNext
  <2>5. Ends(c)
    BY <1>3, <2>2, <2>3, <2>4 DEF Ends
  <2> QED
    BY <1>3, <1>9, <2>1, <2>5, BlockingSteps
<1>12. CASE Take(w) \/ Release(w) \/ ReleaseAndEnd(w) \/ (Invoke(w) /\ c \notin m_invokerWaiting)
  <2>1. /\ step[w] \in {"idle", "taken", "signaled"} /\ step'[w] \in {"idle", "taken"}
        /\ UNCHANGED ran
    BY <1>1, <1>4, <1>12 DEF Take, Release, ReleaseAndEnd, Invoke, Idle
  <2> QED
    BY <1>7, <2>1
<1> QED
  BY <1>8, <1>10, <1>11, <1>12 DEF WorkerStep

LEMMA InitBlocking == Init => Blocking!Init
<1> SUFFICES ASSUME Init PROVE Blocking!Init
  OBVIOUS
<1>1. ASSUME NEW c \in Calls PROVE CallStatus(c) = "new" /\ FunctionStatus(c) = "unused"
  <2>1. phase[c] = "new" /\ c \notin ran /\ ~Runs(c) /\ ~Threw(c)
    BY DEF Init, Runs, Threw
  <2> QED
    BY <2>1, CallStatusIs, FunctionStatusIs
<1> QED
  BY <1>1 DEF Blocking!Init

\* For any threads, workers, calls and timeouts, callers and workers together implement
\* BlockingCall: every step is a step of one call or its function, or a stutter. So a
\* function is invoked at most once and lies within its call.
THEOREM DelegateImplementsBlockingCall == Spec => ImplementsBlockingCall
<1>1. Inv /\ OnceInv /\ [Next]_vars => [Blocking!Next]_(Blocking!callVars)
  <2> SUFFICES ASSUME Inv, OnceInv, [Next]_vars
               PROVE  [Blocking!Next]_(Blocking!callVars)
    OBVIOUS
  <2>1. CASE UNCHANGED vars
    <3>1. UNCHANGED <<phase, success, job, step, ran>>
      BY <2>1 DEF vars, callerVars, workerVars
    <3>2. \A c \in Calls : CallKept(c) /\ FunctionKept(c)
      BY <3>1, CallIsKept, FunctionIsKept
    <3> QED
      BY <3>2, BlockingStutters
  <2> QED
    BY <2>1, CallerImplements, WorkerImplements DEF Next
<1> QED
  BY <1>1, InitBlocking, AlwaysInv, AlwaysOnce, PTL DEF Spec, ImplementsBlockingCall, Blocking!Spec
=============================================================================
