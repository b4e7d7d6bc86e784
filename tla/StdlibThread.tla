---------------------------- MODULE StdlibThread ----------------------------
(***************************************************************************)
(* dmq::os::StdlibThread, the worker thread with a message queue that every *)
(* asynchronous delegate is dispatched to (port/os/stdlib/StdlibThread.cpp). *)
(*                                                                         *)
(* Three kinds of threads share one object:                                *)
(*   - callers run DispatchDelegate(); the worker itself is one of them, a *)
(*     handler may dispatch to its own queue;                              *)
(*   - the worker runs Process();                                          *)
(*   - the owner runs CreateThread() and ExitThread().                     *)
(* A critical section of m_mutex is one step.  What the code reads before  *)
(* it takes the lock (m_exit, m_thread) is a step of its own, and so is    *)
(* each wake-up of a condition variable.                                   *)
(***************************************************************************)
EXTENDS Integers, Sequences, FiniteSets

CONSTANTS
  Producer,      \* the threads, other than the worker, that dispatch messages
  Worker,        \* the worker thread
  Message,       \* the delegate messages; each is one call of DispatchDelegate
  HighPriority,  \* the messages whose delegate has Priority::HIGH
  SelfExiting,   \* the messages whose handler calls ExitThread() on its own thread
  ExitMsg,       \* the MSG_EXIT_THREAD message
  None,          \* no message
  QueueSizes,    \* the values of the constructor's maxQueueSize; 0 is unlimited
  Policies       \* the values of the constructor's fullPolicy

ASSUME ThreadAssumption == Worker \notin Producer /\ IsFiniteSet(Producer)
ASSUME MessageAssumption ==
  /\ HighPriority \subseteq Message
  /\ SelfExiting \subseteq Message
  /\ ExitMsg \notin Message
  /\ None \notin Message \cup {ExitMsg}
ASSUME ConstructorAssumption ==
  /\ QueueSizes \subseteq Nat
  /\ Policies \subseteq {"DROP", "FAULT", "TIMEOUT"}

VARIABLES
  MAX_QUEUE_SIZE, FULL_POLICY,  \* const members, chosen by the constructor
  m_thread,    \* m_thread.has_value()
  m_exit,
  queue,       \* m_highQueue and m_normalQueue, by lane
  worker,      \* where the worker is in Process()
  job,         \* the message the worker has taken
  pc, arg,     \* where each caller is in DispatchDelegate(), and its message
  notified,    \* the callers m_cvNotFull has notified that have not run since
  owner,       \* where the owner is in CreateThread() or ExitThread()
  fault,       \* FaultHandler has ended the program
  refused, executed, discarded  \* history: what became of each message

config == <<MAX_QUEUE_SIZE, FULL_POLICY>>
lifecycle == <<m_thread, m_exit, owner>>
callers == <<pc, arg>>
outcome == <<refused, executed, discarded>>
vars == <<config, lifecycle, queue, worker, job, callers, notified, fault, outcome>>

Lane == {"HIGH", "NORMAL"}
Caller == Producer \cup {Worker}
AnyMessage == Message \cup {ExitMsg}

LaneOf(m) == IF m \in HighPriority THEN "HIGH" ELSE "NORMAL"
Depth == Len(queue["HIGH"]) + Len(queue["NORMAL"])
Empty == queue["HIGH"] = <<>> /\ queue["NORMAL"] = <<>>
Full == MAX_QUEUE_SIZE > 0 /\ Depth >= MAX_QUEUE_SIZE
Elements(s) == {s[i] : i \in 1..Len(s)}
Queued == Elements(queue["HIGH"]) \cup Elements(queue["NORMAL"])
Blocked == {p \in Caller : pc[p] = "blocked"}
Sent == {arg[p] : p \in Caller} \cup refused \cup executed \cup discarded
          \cup Queued \cup {job}

Init ==
  /\ MAX_QUEUE_SIZE \in QueueSizes
  /\ FULL_POLICY \in Policies
  /\ m_thread = FALSE
  /\ m_exit = FALSE
  /\ queue = [l \in Lane |-> <<>>]
  /\ worker = "none"
  /\ job = None
  /\ pc = [p \in Caller |-> "idle"]
  /\ arg = [p \in Caller |-> None]
  /\ notified = {}
  /\ owner = "idle"
  /\ fault = FALSE
  /\ refused = {}
  /\ executed = {}
  /\ discarded = {}

(***************************************************************************)
(* The lanes and the condition variables.                                  *)
(***************************************************************************)
PushBack(l, m) == queue' = [queue EXCEPT ![l] = Append(@, m)]

ClearLanes ==
  /\ queue' = [l \in Lane |-> <<>>]
  /\ discarded' = discarded \cup (Queued \ {ExitMsg})

\* Mutant: nobody notifies m_cv.
NotifyNobody == UNCHANGED worker

\* m_cv.notify_one(): only the worker waits on m_cv, and a notification is lost
\* when it does not wait.
NotifyWorker == worker' = IF worker = "asleep" THEN "notified" ELSE worker

\* Mutant: only the take that empties the queue notifies.
NotifyOneCallerWhenDrained ==
  IF MAX_QUEUE_SIZE > 0 /\ Depth = 1 /\ Blocked \ notified # {}
  THEN \E p \in Blocked \ notified : notified' = notified \cup {p}
  ELSE UNCHANGED notified

\* m_cvNotFull.notify_one() takes one waiter, if there is one, off the wait set.
NotifyOneCaller ==
  IF MAX_QUEUE_SIZE > 0 /\ Blocked \ notified # {}
  THEN \E p \in Blocked \ notified : notified' = notified \cup {p}
  ELSE UNCHANGED notified

NotifyAllCallers == notified' = Blocked

(***************************************************************************)
(* DispatchDelegate().                                                     *)
(***************************************************************************)
Return(p) ==
  /\ pc' = [pc EXCEPT ![p] = "idle"]
  /\ arg' = [arg EXCEPT ![p] = None]
  /\ notified' = notified \ {p}

Refuse(p) ==
  /\ Return(p)
  /\ refused' = refused \cup {arg[p]}
  /\ UNCHANGED <<queue, worker, executed, discarded, fault>>

Push(p) ==
  /\ PushBack(LaneOf(arg[p]), arg[p])
  /\ NotifyWorker
  /\ Return(p)
  /\ UNCHANGED <<outcome, fault>>

\* Only the worker's handlers run on the worker, so it calls while it runs one.
MayCall(p) == p = Worker => worker = "running" /\ job \in Message

\* The call, up to the early test of m_exit outside the lock.
DispatchDelegate(p, m) ==
  /\ pc[p] = "idle"
  /\ m \notin Sent
  /\ MayCall(p)
  /\ IF m_exit
     THEN /\ refused' = refused \cup {m}
          /\ UNCHANGED callers
     ELSE /\ pc' = [pc EXCEPT ![p] = "checked"]
          /\ arg' = [arg EXCEPT ![p] = m]
          /\ UNCHANGED refused
  /\ UNCHANGED <<config, lifecycle, queue, worker, job, notified, fault, executed, discarded>>

\* m_thread.has_value(), also outside the lock; throws when there is no thread.
DispatchCheckThread(p) ==
  /\ pc[p] = "checked"
  /\ IF m_thread
     THEN /\ pc' = [pc EXCEPT ![p] = "lock"]
          /\ UNCHANGED <<arg, notified, queue, worker, outcome, fault>>
     ELSE Refuse(p)
  /\ UNCHANGED <<config, lifecycle, job>>

\* Mutant: m_exit is not tested again under the lock.
DispatchPushUnchecked(p) ==
  /\ pc[p] = "lock"
  /\ ~Full
  /\ Push(p)
  /\ UNCHANGED <<config, lifecycle, job>>

\* The critical section of a call that need not wait for space.
DispatchPush(p) ==
  /\ pc[p] = "lock"
  /\ ~Full
  /\ IF m_exit THEN Refuse(p) ELSE Push(p)
  /\ UNCHANGED <<config, lifecycle, job>>

DispatchDrop(p) ==
  /\ pc[p] = "lock"
  /\ Full
  /\ FULL_POLICY = "DROP"
  /\ Refuse(p)
  /\ UNCHANGED <<config, lifecycle, job>>

DispatchFault(p) ==
  /\ pc[p] = "lock"
  /\ Full
  /\ FULL_POLICY = "FAULT"
  /\ fault' = TRUE
  /\ UNCHANGED <<config, lifecycle, queue, worker, job, callers, notified, outcome>>

\* wait_for() tests its predicate before it waits.
DispatchWait(p) ==
  /\ pc[p] = "lock"
  /\ Full
  /\ FULL_POLICY = "TIMEOUT"
  /\ IF m_exit
     THEN Refuse(p)
     ELSE /\ pc' = [pc EXCEPT ![p] = "blocked"]
          /\ UNCHANGED <<arg, notified, queue, worker, outcome, fault>>
  /\ UNCHANGED <<config, lifecycle, job>>

\* Mutant: wait_for() without a predicate; a notified caller takes space for granted.
DispatchResumeUnchecked(p) ==
  /\ p \in notified
  /\ IF m_exit THEN Refuse(p) ELSE Push(p)
  /\ UNCHANGED <<config, lifecycle, job>>

\* wait_for() returns true: the caller runs, because it was notified, because
\* its time is up or for no reason, and finds space or m_exit.
DispatchResume(p) ==
  /\ pc[p] = "blocked"
  /\ ~Full \/ m_exit
  /\ IF m_exit THEN Refuse(p) ELSE Push(p)
  /\ UNCHANGED <<config, lifecycle, job>>

\* A notified caller finds that another one took the space, and waits again.
DispatchWaitAgain(p) ==
  /\ p \in notified
  /\ Full /\ ~m_exit
  /\ notified' = notified \ {p}
  /\ UNCHANGED <<config, lifecycle, queue, worker, job, callers, fault, outcome>>

\* wait_for() returns false: m_dispatchTimeout has passed.
DispatchTimeout(p) ==
  /\ pc[p] = "blocked"
  /\ Full /\ ~m_exit
  /\ Refuse(p)
  /\ UNCHANGED <<config, lifecycle, job>>

(***************************************************************************)
(* Process().                                                              *)
(***************************************************************************)
AtWait == worker \in {"ready", "notified"}

WorkerStart ==
  /\ worker = "starting"
  /\ worker' = "ready"
  /\ UNCHANGED <<config, lifecycle, queue, job, callers, notified, fault, outcome>>

\* The wait predicate is false: the worker waits on m_cv, without a time limit
\* when no watchdog is set.  An empty queue with m_exit set would end Process().
WorkerWait ==
  /\ AtWait
  /\ Empty
  /\ worker' = IF m_exit THEN "done" ELSE "asleep"
  /\ UNCHANGED <<config, lifecycle, queue, job, callers, notified, fault, outcome>>

\* Mutant: the lanes are looked at in the wrong order.
WorkerTakeNormalFirst ==
  /\ AtWait
  /\ ~Empty
  /\ LET l == IF queue["NORMAL"] # <<>> THEN "NORMAL" ELSE "HIGH"
     IN  /\ job' = Head(queue[l])
         /\ queue' = [queue EXCEPT ![l] = Tail(@)]
  /\ worker' = "running"
  /\ NotifyOneCaller
  /\ UNCHANGED <<config, lifecycle, callers, fault, outcome>>

WorkerTake ==
  /\ AtWait
  /\ ~Empty
  /\ LET l == IF queue["HIGH"] # <<>> THEN "HIGH" ELSE "NORMAL"
     IN  /\ job' = Head(queue[l])
         /\ queue' = [queue EXCEPT ![l] = Tail(@)]
  /\ worker' = "running"
  /\ NotifyOneCaller
  /\ UNCHANGED <<config, lifecycle, callers, fault, outcome>>

\* The handler returns.  One that would exit the thread does not when it is already
\* exiting: ExitThread() is not made for two callers at once.
WorkerFinish ==
  /\ worker = "running"
  /\ job \in Message
  /\ job \in SelfExiting => m_exit
  /\ pc[Worker] = "idle"
  /\ executed' = executed \cup {job}
  /\ job' = None
  /\ worker' = "ready"
  /\ UNCHANGED <<config, lifecycle, queue, callers, notified, fault, refused, discarded>>

WorkerExit ==
  /\ worker = "running"
  /\ job = ExitMsg
  /\ job' = None
  /\ worker' = "done"
  /\ UNCHANGED <<config, lifecycle, queue, callers, notified, fault, outcome>>

(***************************************************************************)
(* ExitThread(): its first critical section, and its last.                 *)
(***************************************************************************)
RequestExit ==
  /\ m_exit' = TRUE
  /\ PushBack("NORMAL", ExitMsg)
  /\ NotifyAllCallers
  /\ UNCHANGED <<m_thread, config, job, callers, fault, outcome>>

Cleanup ==
  /\ m_thread' = FALSE
  /\ ClearLanes
  /\ NotifyAllCallers
  /\ UNCHANGED <<m_exit, config, callers, fault, refused>>

\* Called by a handler: the thread is detached, and the handler returns into a
\* Process() that ends without another look at the object.
SelfExit ==
  /\ worker = "running"
  /\ job \in SelfExiting
  /\ ~m_exit
  /\ pc[Worker] = "idle"
  /\ RequestExit
  /\ worker' = "exiting"
  /\ UNCHANGED owner

SelfCleanup ==
  /\ worker = "exiting"
  /\ Cleanup
  /\ executed' = executed \cup {job}
  /\ job' = None
  /\ worker' = "done"
  /\ UNCHANGED owner

\* Mutant: ExitThread() notifies the callers only.
ExitThreadSilently ==
  /\ owner = "idle"
  /\ m_thread
  /\ ~m_exit
  /\ RequestExit
  /\ owner' = "joining"
  /\ UNCHANGED worker

\* Called by the owner, once (a second concurrent call is outside its contract).
ExitThread ==
  /\ owner = "idle"
  /\ m_thread
  /\ ~m_exit
  /\ RequestExit
  /\ NotifyWorker
  /\ owner' = "joining"

\* join() has returned.
ExitThreadDone ==
  /\ owner = "joining"
  /\ worker = "done"
  /\ Cleanup
  /\ owner' = "idle"
  /\ UNCHANGED <<worker, job, executed>>

(***************************************************************************)
(* CreateThread(), which may run again after ExitThread(): m_exit is reset *)
(* outside the lock, then the thread is made, then its start is awaited.   *)
(***************************************************************************)
CreateThread ==
  /\ owner = "idle"
  /\ ~m_thread
  /\ m_exit' = FALSE
  /\ owner' = "creating"
  /\ UNCHANGED <<m_thread, config, queue, worker, job, callers, notified, fault, outcome>>

CreateThreadSpawn ==
  /\ owner = "creating"
  /\ m_thread' = TRUE
  /\ worker' = "starting"
  /\ owner' = "starting"
  /\ UNCHANGED <<m_exit, config, queue, job, callers, notified, fault, outcome>>

CreateThreadDone ==
  /\ owner = "starting"
  /\ worker # "starting"
  /\ owner' = "idle"
  /\ UNCHANGED <<m_thread, m_exit, config, queue, worker, job, callers, notified, fault, outcome>>

-----------------------------------------------------------------------------
CallerStep(p) ==
  \/ DispatchCheckThread(p)
  \/ DispatchPush(p)
  \/ DispatchDrop(p)
  \/ DispatchFault(p)
  \/ DispatchWait(p)
  \/ DispatchResume(p)
  \/ DispatchTimeout(p)

WorkerStep ==
  \/ WorkerStart
  \/ WorkerWait
  \/ WorkerTake
  \/ WorkerFinish
  \/ WorkerExit
  \/ SelfExit
  \/ SelfCleanup

OwnerStep ==
  \/ ExitThreadDone
  \/ CreateThreadSpawn
  \/ CreateThreadDone

Step ==
  \/ \E p \in Caller : \E m \in Message : DispatchDelegate(p, m)
  \/ \E p \in Caller : CallerStep(p) \/ DispatchWaitAgain(p)
  \/ WorkerStep
  \/ OwnerStep
  \/ ExitThread
  \/ CreateThread

\* FaultHandler() ends the program: nothing runs after it.
Next ==
  \/ ~fault /\ Step
  \/ fault /\ UNCHANGED vars

\* Threads that can run do run, handlers return, and a wait with a time limit
\* ends.  Nobody has to dispatch, to create the thread or to ask it to exit.
Fairness ==
  /\ \A p \in Caller : WF_vars(~fault /\ CallerStep(p))
  /\ WF_vars(~fault /\ WorkerStep)
  /\ WF_vars(~fault /\ OwnerStep)

Spec == Init /\ [][Next]_vars /\ Fairness

-----------------------------------------------------------------------------
TypeOK ==
  /\ MAX_QUEUE_SIZE \in QueueSizes
  /\ FULL_POLICY \in Policies
  /\ m_thread \in BOOLEAN
  /\ m_exit \in BOOLEAN
  /\ queue \in [Lane -> Seq(AnyMessage)]
  /\ worker \in {"none", "starting", "ready", "asleep", "notified", "running",
                 "exiting", "done"}
  /\ job \in AnyMessage \cup {None}
  /\ pc \in [Caller -> {"idle", "checked", "lock", "blocked"}]
  /\ arg \in [Caller -> Message \cup {None}]
  /\ notified \subseteq Caller
  /\ owner \in {"idle", "creating", "starting", "joining"}
  /\ fault \in BOOLEAN
  /\ refused \subseteq Message
  /\ executed \subseteq Message
  /\ discarded \subseteq Message

\* The queue never holds more than MAX_QUEUE_SIZE messages, except for the one
\* MSG_EXIT_THREAD that ExitThread() lets bypass the limit: no interleaving of
\* callers that saw space, waited for it or timed out overfills it.
QueueBounded ==
  MAX_QUEUE_SIZE > 0 => Depth <= MAX_QUEUE_SIZE + IF m_exit THEN 1 ELSE 0

\* When join() returns in ExitThread() the lanes are empty: the messages that
\* DispatchDelegate() accepted before were all executed, and the clear() that
\* follows throws nothing away.
ExitDrains == owner = "joining" /\ worker = "done" => Empty

\* No notification is lost.  A worker that sleeps has nothing to do, callers
\* wait for space only while as many others as there are free places have been
\* notified and are about to run, and nobody waits unnotified on an exiting thread.
NoLostWakeup ==
  /\ worker = "asleep" => Empty /\ ~m_exit
  /\ Blocked \ notified # {} =>
       /\ MAX_QUEUE_SIZE - Depth <= Cardinality(notified)
       /\ ~m_exit

\* Every message that was accepted is executed, unless the program faults or a
\* handler exits the thread before its turn.
Delivered ==
  \A m \in Message : m \in Queued ~> m \in executed \cup discarded \/ fault

\* ExitThread() and every call of DispatchDelegate() return, whatever the others
\* do: the exit message cannot be blocked by a full queue, nor a caller by an
\* exiting thread or by its own handler's queue.
CallsReturn ==
  /\ owner = "joining" ~> owner = "idle" \/ fault
  /\ \A p \in Caller : pc[p] # "idle" ~> pc[p] = "idle" \/ fault

\* The thread implements the channel its clients rely on.
WithoutExit(s) ==
  IF s # <<>> /\ s[Len(s)] = ExitMsg THEN SubSeq(s, 1, Len(s) - 1) ELSE s

Channel == INSTANCE MessageChannel WITH
  open <- ~m_exit,
  pending <- [l \in Lane |-> WithoutExit(queue[l])],
  current <- IF job \in Message THEN job ELSE None,
  finished <- executed,
  lost <- discarded

\* Whatever callers, worker and owner do, what happens to the messages is what
\* MessageChannel allows: order by priority then arrival, exactly one start, no
\* acceptance after ExitThread(), nothing given up but by a handler's own exit.
ImplementsChannel == Channel!Spec
=============================================================================
