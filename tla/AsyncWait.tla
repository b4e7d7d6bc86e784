------------------------------ MODULE AsyncWait ------------------------------
(***************************************************************************)
(* The blocking delegates: a thread sends a message with references to its *)
(* own arguments to a worker thread and waits on the message's semaphore,  *)
(* for at most its timeout, until the worker has invoked the function.     *)
(* The message's lock decides between a caller that has given up and a     *)
(* worker that is about to invoke.                                         *)
(*                                                                         *)
(* The functions that workers invoke may make blocking calls themselves,   *)
(* to any worker.  A worker's queue is reduced to a sequence, what else it *)
(* does being the subject of StdlibThread: it may refuse a message, and    *)
(* lose those that it has accepted when a function exits its own thread.   *)
(***************************************************************************)
EXTENDS Naturals, Sequences, FiniteSets

CONSTANTS
  Clients,   \* threads that only call
  Workers,   \* threads that also invoke what is dispatched to them
  Calls,     \* the calls, of which each is made at most once, with its message
  Infinite,  \* the calls that wait for WAIT_INFINITE
  None       \* no call

ASSUME CallAssumption ==
  /\ Infinite \subseteq Calls
  /\ None \notin Calls
  /\ Clients \cap Workers = {}

Threads == Clients \cup Workers

VARIABLES
  calling,            \* the blocking call that each thread is in
  phase,              \* where the caller is in DispatchAsyncWait()
  waited,             \* the calls whose Wait() has returned true
  success,            \* the calls that have returned true
  queue,              \* the messages that each worker has accepted
  closed,             \* the workers that have exited themselves
  job,                \* the message that each worker has taken
  step,               \* where it is in Invoke()
  m_invokerWaiting,   \* the calls with this flag set
  m_invokeSucceeded,
  m_signaled,         \* the calls whose semaphore is signaled
  ran,                \* history: the calls whose function has returned
  fault               \* an exception in a worker has ended the program

callerVars == <<calling, phase, waited, success>>
workerVars == <<queue, closed, job, step>>
messageVars == <<m_invokerWaiting, m_invokeSucceeded, m_signaled>>
vars == <<callerVars, workerVars, messageVars, ran, fault>>

Init ==
  /\ calling = [t \in Threads |-> None]
  /\ phase = [c \in Calls |-> "new"]
  /\ waited = {}
  /\ success = {}
  /\ queue = [w \in Workers |-> <<>>]
  /\ closed = {}
  /\ job = [w \in Workers |-> None]
  /\ step = [w \in Workers |-> "idle"]
  /\ m_invokerWaiting = {}
  /\ m_invokeSucceeded = {}
  /\ m_signaled = {}
  /\ ran = {}
  /\ fault = FALSE

\* Invoke() holds the lock of its message from the test of the flag to its end.
LockIsFree(c) == \A w \in Workers : job[w] = c => step[w] \notin {"running", "signaled", "thrown"}

(***************************************************************************)
(* The caller: operator() and DispatchAsyncWait().                         *)
(***************************************************************************)
MayCall(t) == calling[t] = None /\ (t \in Workers => step[t] = "running")

Begin(t, c) ==
  /\ MayCall(t)
  /\ phase[c] = "new"
  /\ calling' = [calling EXCEPT ![t] = c]
  /\ m_invokerWaiting' = m_invokerWaiting \cup {c}

Dispatch(t, c, w) ==
  /\ Begin(t, c)
  /\ w \notin closed
  /\ queue' = [queue EXCEPT ![w] = Append(@, c)]
  /\ phase' = [phase EXCEPT ![c] = "waiting"]
  /\ UNCHANGED <<waited, success, closed, job, step, m_invokeSucceeded, m_signaled, ran, fault>>

\* The delegate has no thread, or DispatchDelegate() returns false.
DispatchRefused(t, c) ==
  /\ Begin(t, c)
  /\ phase' = [phase EXCEPT ![c] = "awake"]
  /\ UNCHANGED <<waited, success, workerVars, m_invokeSucceeded, m_signaled, ran, fault>>

Wait(c) ==
  /\ phase[c] = "waiting"
  /\ c \in m_signaled
  /\ m_signaled' = m_signaled \ {c}
  /\ waited' = waited \cup {c}
  /\ phase' = [phase EXCEPT ![c] = "awake"]
  /\ UNCHANGED <<calling, success, workerVars, m_invokerWaiting, m_invokeSucceeded, ran, fault>>

\* Mutant: the comparison with WAIT_INFINITE is inverted.
WaitTimesOutInverted(c) ==
  /\ phase[c] = "waiting"
  /\ c \notin m_signaled
  /\ c \in Infinite
  /\ phase' = [phase EXCEPT ![c] = "awake"]
  /\ UNCHANGED <<calling, waited, success, workerVars, messageVars, ran, fault>>

WaitTimesOut(c) ==
  /\ phase[c] = "waiting"
  /\ c \notin m_signaled
  /\ c \notin Infinite
  /\ phase' = [phase EXCEPT ![c] = "awake"]
  /\ UNCHANGED <<calling, waited, success, workerVars, messageVars, ran, fault>>

Succeeded(c) == c \in waited /\ c \in m_invokeSucceeded

\* Mutant: the caller leaves without the message's lock.
ReturnUnlocked(t) ==
  /\ calling[t] # None
  /\ LET c == calling[t]
     IN /\ phase[c] = "awake"
        /\ success' = IF Succeeded(c) THEN success \cup {c} ELSE success
        /\ m_invokerWaiting' = m_invokerWaiting \ {c}
        /\ phase' = [phase EXCEPT ![c] = "returned"]
  /\ calling' = [calling EXCEPT ![t] = None]
  /\ UNCHANGED <<waited, workerVars, m_invokeSucceeded, m_signaled, ran, fault>>

Return(t) ==
  /\ calling[t] # None
  /\ LET c == calling[t]
     IN /\ phase[c] = "awake"
        /\ LockIsFree(c)
        /\ success' = IF Succeeded(c) THEN success \cup {c} ELSE success
        /\ m_invokerWaiting' = m_invokerWaiting \ {c}
        /\ phase' = [phase EXCEPT ![c] = "returned"]
  /\ calling' = [calling EXCEPT ![t] = None]
  /\ UNCHANGED <<waited, workerVars, m_invokeSucceeded, m_signaled, ran, fault>>

(***************************************************************************)
(* The worker: Process() and Invoke().                                     *)
(***************************************************************************)
Take(w) ==
  /\ step[w] = "idle"
  /\ queue[w] # <<>>
  /\ job' = [job EXCEPT ![w] = Head(queue[w])]
  /\ queue' = [queue EXCEPT ![w] = Tail(@)]
  /\ step' = [step EXCEPT ![w] = "taken"]
  /\ UNCHANGED <<callerVars, closed, messageVars, ran, fault>>

Idle(w) ==
  /\ job' = [job EXCEPT ![w] = None]
  /\ step' = [step EXCEPT ![w] = "idle"]

Invoke(w) ==
  /\ step[w] = "taken"
  /\ IF job[w] \in m_invokerWaiting
     THEN step' = [step EXCEPT ![w] = "running"] /\ UNCHANGED job
     ELSE Idle(w)
  /\ UNCHANGED <<callerVars, queue, closed, messageVars, ran, fault>>

\* The function returns, and the semaphore is signaled while the lock is held.
TargetReturns(w) ==
  /\ step[w] = "running"
  /\ calling[w] = None
  /\ ran' = ran \cup {job[w]}
  /\ m_invokeSucceeded' = m_invokeSucceeded \cup {job[w]}
  /\ m_signaled' = m_signaled \cup {job[w]}
  /\ step' = [step EXCEPT ![w] = "signaled"]
  /\ UNCHANGED <<callerVars, queue, closed, job, m_invokerWaiting, fault>>

Release(w) ==
  /\ step[w] = "signaled"
  /\ Idle(w)
  /\ UNCHANGED <<callerVars, queue, closed, messageVars, ran, fault>>

\* The function has exited its own thread: the worker ends without its queue.
ReleaseAndEnd(w) ==
  /\ step[w] = "signaled"
  /\ Idle(w)
  /\ closed' = closed \cup {w}
  /\ queue' = [queue EXCEPT ![w] = <<>>]
  /\ UNCHANGED <<callerVars, messageVars, ran, fault>>

TargetThrows(w) ==
  /\ step[w] = "running"
  /\ calling[w] = None
  /\ m_signaled' = m_signaled \cup {job[w]}
  /\ step' = [step EXCEPT ![w] = "thrown"]
  /\ UNCHANGED <<callerVars, queue, closed, job, m_invokerWaiting, m_invokeSucceeded, ran, fault>>

ReleaseThrown(w) ==
  /\ step[w] = "thrown"
  /\ step' = [step EXCEPT ![w] = "caught"]
  /\ UNCHANGED <<callerVars, queue, closed, job, messageVars, ran, fault>>

\* Process() has caught what the function threw, and asserts.
Fault(w) ==
  /\ step[w] = "caught"
  /\ fault' = TRUE
  /\ UNCHANGED <<callerVars, workerVars, messageVars, ran>>

-----------------------------------------------------------------------------
CallerStep ==
  \/ \E c \in Calls : Wait(c) \/ WaitTimesOut(c)
  \/ \E t \in Threads : Return(t)

WorkerStep(w) ==
  \/ Take(w)
  \/ Invoke(w)
  \/ TargetReturns(w)
  \/ Release(w)
  \/ ReleaseAndEnd(w)
  \/ TargetThrows(w)
  \/ ReleaseThrown(w)
  \/ Fault(w)

NewCall ==
  \E t \in Threads, c \in Calls :
    DispatchRefused(t, c) \/ \E w \in Workers : Dispatch(t, c, w)

Next == ~fault /\ (NewCall \/ CallerStep \/ \E w \in Workers : WorkerStep(w))

\* Waits end, locks are passed on, workers run, and functions that are not in a
\* call of their own end.
Fairness ==
  /\ \A c \in Calls : WF_vars(~fault /\ (Wait(c) \/ WaitTimesOut(c)))
  /\ \A t \in Threads : WF_vars(~fault /\ Return(t))
  /\ \A w \in Workers : WF_vars(~fault /\ WorkerStep(w))

Spec == Init /\ [][Next]_vars /\ Fairness

-----------------------------------------------------------------------------
TypeOK ==
  /\ calling \in [Threads -> Calls \cup {None}]
  /\ phase \in [Calls -> {"new", "waiting", "awake", "returned"}]
  /\ waited \subseteq Calls
  /\ success \subseteq Calls
  /\ queue \in [Workers -> Seq(Calls)]
  /\ closed \subseteq Workers
  /\ job \in [Workers -> Calls \cup {None}]
  /\ step \in [Workers -> {"idle", "taken", "running", "signaled", "thrown", "caught"}]
  /\ m_invokerWaiting \subseteq Calls
  /\ m_invokeSucceeded \subseteq Calls
  /\ m_signaled \subseteq Calls
  /\ ran \subseteq Calls
  /\ fault \in BOOLEAN

\* While a function runs, the caller is in DispatchAsyncWait(): the arguments, of
\* which the message has only references, are still there.
ArgumentsOutliveFunction ==
  \A w \in Workers : step[w] = "running" => phase[job[w]] \in {"waiting", "awake"}

\* A call succeeds only if its function has returned, and not if it has thrown or
\* was never invoked: the return value that the caller goes on to read is there.
SuccessMeansReturned == success \subseteq ran

\* The refinement: a call as its caller sees it, and its function as the program does.
\* An exception is the last thing a worker sees.
Runs(c) == \E w \in Workers : step[w] = "running" /\ job[w] = c
Threw(c) == \E w \in Workers : step[w] \in {"thrown", "caught"} /\ job[w] = c

CallStatus(c) ==
  CASE phase[c] = "new" -> "new"
    [] phase[c] \in {"waiting", "awake"} -> "open"
    [] phase[c] = "returned" -> IF c \in success THEN "succeeded" ELSE "failed"

FunctionStatus(c) ==
  CASE Runs(c) -> "running"
    [] ~Runs(c) /\ c \in ran -> "returned"
    [] ~Runs(c) /\ c \notin ran -> IF Threw(c) THEN "thrown" ELSE "unused"

Blocking == INSTANCE BlockingCall WITH
  call <- [c \in Calls |-> CallStatus(c)],
  function <- [c \in Calls |-> FunctionStatus(c)]

\* Callers, messages, semaphores, locks and workers together do what BlockingCall says:
\* whatever times out, is refused, thrown away or throws, a function is invoked once at
\* most and within its call, so ArgumentsOutliveFunction, and only the call of a function
\* that has returned succeeds, so SuccessMeansReturned.
ImplementsBlockingCall == Blocking!Spec

\* However the threads call each other, and themselves, every blocking call returns
\* in the end if each has a timeout, or else an exception has ended the program.
CallsReturn ==
  \A c \in Calls : phase[c] = "waiting" ~> phase[c] = "returned" \/ fault

\* A call with a timeout returns, whatever the timeouts of the others are.
TimedCallsReturn ==
  \A c \in Calls \ Infinite : phase[c] = "waiting" ~> phase[c] = "returned" \/ fault
=============================================================================
