----------------------------- MODULE RtosThread -----------------------------
(***************************************************************************)
(* dmq::os::Thread on the kernels that are not the C++ standard library:   *)
(* FreeRTOS, ThreadX, Zephyr, CMSIS-RTOS2 and Windows (port/os/<kernel>).  *)
(* One object is used by callers of DispatchDelegate() (the worker's own   *)
(* handlers among them), by the worker in Run() or Process(), and by the   *)
(* owner in CreateThread() and ExitThread().                               *)
(*                                                                         *)
(* A call of the kernel is one step, and so is a critical section of       *)
(* Windows' m_cs.  FreeRTOS and ThreadX keep two queues and a counting     *)
(* semaphore, the doorbell; Zephyr polls two queues; CMSIS-RTOS2 has one   *)
(* queue with priorities; Windows has two deques under a lock.             *)
(*                                                                         *)
(* The kernels are external: their queues are sequences with a capacity,   *)
(* their semaphores are numbers, and a wait ends when it can or, when it   *)
(* has a time limit, at any moment.  What a kernel does with a call that   *)
(* is inside a queue when the queue is deleted is undefined; the model     *)
(* stops there (undefined).                                                *)
(***************************************************************************)
EXTENDS Integers, Sequences, FiniteSets

CONSTANTS
  Ports,         \* the kernels
  Producer,      \* the threads, other than the worker, that dispatch messages
  Worker,        \* the worker thread
  Message,       \* the delegate messages; each is one call of DispatchDelegate
  HighPriority,  \* the messages whose delegate has Priority::HIGH
  SelfExiting,   \* the messages whose handler calls ExitThread() on its own thread
  ExitMsg,       \* the MSG_EXIT_THREAD message
  None,          \* no message
  Constructions, \* how the owner makes and starts the thread: the constructor's size
                 \* and policy, and whether CreateThread() is given a watchdog timeout
  MaxLives       \* bound: how often the owner calls CreateThread()

KernelPorts == {"FreeRTOS", "ThreadX", "Zephyr", "CMSIS"}
DoorbellPorts == {"FreeRTOS", "ThreadX"}

ASSUME PortAssumption == Ports \subseteq KernelPorts \cup {"Win32"}
ASSUME ThreadAssumption == Worker \notin Producer /\ IsFiniteSet(Producer)
ASSUME MessageAssumption ==
  /\ HighPriority \subseteq Message
  /\ SelfExiting \subseteq Message
  /\ ExitMsg \notin Message
  /\ None \notin Message \cup {ExitMsg}
ASSUME ConstructorAssumption ==
  /\ Constructions \subseteq [size : Nat \ {0}, policy : {"DROP", "FAULT", "TIMEOUT"},
                              watchdog : BOOLEAN]
  /\ MaxLives \in Nat

VARIABLES
  port, m_queueSize, FULL_POLICY,  \* fixed by the build and by the constructor
  watchdog,    \* the worker's waits have a time limit
  created,     \* m_queue.IsCreated(), m_stackMemory != nullptr, m_hThread != NULL
  m_exit,
  m_selfExited,  \* Zephyr: a handler has exited the thread
  lanes,       \* the queue or queues, by priority
  countSem,    \* the doorbell: m_countSem
  exitSem,     \* m_exitSem
  worker,      \* where the worker is in Run()
  job,         \* the message the worker has received
  pc, arg,     \* where each caller is in DispatchDelegate(), and its message
  owner,       \* where the owner is in ExitThread()
  lives,       \* the calls of CreateThread() so far
  fault,       \* an assertion has ended the program
  undefined,   \* the queue was deleted under a caller
  refused, executed, discarded  \* history: what became of each message

config == <<port, m_queueSize, FULL_POLICY, watchdog>>
lifecycle == <<created, m_exit, m_selfExited, owner, lives>>
queue == <<lanes, countSem>>
callers == <<pc, arg>>
outcome == <<refused, executed, discarded>>
stopped == <<fault, undefined>>
vars == <<config, lifecycle, queue, exitSem, worker, job, callers, stopped, outcome>>

Lane == {"HIGH", "NORMAL"}
Caller == Producer \cup {Worker}
AnyMessage == Message \cup {ExitMsg}

LaneOf(m) == IF m \in HighPriority THEN "HIGH" ELSE "NORMAL"
Depth == Len(lanes["HIGH"]) + Len(lanes["NORMAL"])
Empty == lanes["HIGH"] = <<>> /\ lanes["NORMAL"] = <<>>
Elements(s) == {s[i] : i \in 1..Len(s)}
Queued == (Elements(lanes["HIGH"]) \cup Elements(lanes["NORMAL"])) \ {ExitMsg}
InFlight == \E p \in Producer : pc[p] \in {"send", "blocked", "ring"}
Known == {arg[p] : p \in Caller} \cup refused \cup executed \cup discarded
           \cup Queued \cup {job}

\* Each lane has a capacity of its own where it is a queue of its own.
Room(l) ==
  IF port \in DoorbellPorts \cup {"Zephyr"}
  THEN Len(lanes[l]) < m_queueSize
  ELSE Depth < m_queueSize

Init ==
  /\ port \in Ports
  /\ \E c \in Constructions :
       m_queueSize = c.size /\ FULL_POLICY = c.policy /\ watchdog = c.watchdog
  /\ created = FALSE
  /\ m_exit = FALSE
  /\ m_selfExited = FALSE
  /\ lanes = [l \in Lane |-> <<>>]
  /\ countSem = 0
  /\ exitSem = 0
  /\ worker = "none"
  /\ job = None
  /\ pc = [p \in Caller |-> "idle"]
  /\ arg = [p \in Caller |-> None]
  /\ owner = "idle"
  /\ lives = 0
  /\ fault = FALSE
  /\ undefined = FALSE
  /\ refused = {}
  /\ executed = {}
  /\ discarded = {}

(***************************************************************************)
(* DispatchDelegate(), and Send() of the queue.                            *)
(***************************************************************************)
Return(p) ==
  /\ pc' = [pc EXCEPT ![p] = "idle"]
  /\ arg' = [arg EXCEPT ![p] = None]

Refuse(p) ==
  /\ Return(p)
  /\ refused' = refused \cup {arg[p]}
  /\ UNCHANGED <<queue, executed, discarded, stopped>>

FaultStops ==
  /\ fault' = TRUE
  /\ UNCHANGED <<undefined, queue, callers, outcome>>

\* Only the worker's handlers run on the worker, so it calls while it runs one.
MayCall(p) == p = Worker => worker = "running" /\ job \in Message

Call(p, m) ==
  /\ pc[p] = "idle"
  /\ m \notin Known
  /\ MayCall(p)

BeginDispatch(p, m) ==
  /\ pc' = [pc EXCEPT ![p] = "send"]
  /\ arg' = [arg EXCEPT ![p] = m]
  /\ UNCHANGED <<queue, outcome, stopped>>

RefuseAtOnce(m) ==
  /\ refused' = refused \cup {m}
  /\ UNCHANGED <<queue, callers, executed, discarded, stopped>>

DispatchIfCreated(p, m) ==
  /\ Call(p, m)
  /\ IF created THEN BeginDispatch(p, m) ELSE RefuseAtOnce(m)

DispatchAssertCreated(p, m) ==
  /\ Call(p, m)
  /\ IF created THEN BeginDispatch(p, m) ELSE FaultStops

\* The queue is full: wait for room, give up, or fault.
SendFails(p) ==
  /\ pc[p] = "send"
  /\ ~Room(LaneOf(arg[p]))
  /\ CASE FULL_POLICY = "DROP" -> Refuse(p)
       [] FULL_POLICY = "FAULT" -> FaultStops
       [] OTHER -> /\ pc' = [pc EXCEPT ![p] = "blocked"]
                   /\ UNCHANGED <<arg, queue, outcome, stopped>>

SendTimesOut(p) ==
  /\ pc[p] = "blocked"
  /\ ~Room(LaneOf(arg[p]))
  /\ Refuse(p)

PushBack(l, m) == lanes' = [lanes EXCEPT ![l] = Append(@, m)]

\* Mutant: the message goes to the front, where HIGH messages overtake each other.
PutAtFront(p, after) ==
  /\ pc[p] \in {"send", "blocked"}
  /\ Room(LaneOf(arg[p]))
  /\ lanes' = [lanes EXCEPT ![LaneOf(arg[p])] = <<arg[p]>> \o @]
  /\ pc' = [pc EXCEPT ![p] = after]
  /\ arg' = [arg EXCEPT ![p] = None]
  /\ UNCHANGED <<countSem, outcome, stopped>>

\* The push of Send(), with what remains to be done after it.
Put(p, after) ==
  /\ pc[p] \in {"send", "blocked"}
  /\ Room(LaneOf(arg[p]))
  /\ PushBack(LaneOf(arg[p]), arg[p])
  /\ pc' = [pc EXCEPT ![p] = after]
  /\ arg' = [arg EXCEPT ![p] = None]
  /\ UNCHANGED <<countSem, outcome, stopped>>

\* Mutant: nobody gives the doorbell semaphore.
RingNot(p) ==
  /\ pc[p] = "ring"
  /\ pc' = [pc EXCEPT ![p] = "idle"]
  /\ UNCHANGED <<countSem, lanes, arg, outcome, stopped>>

Ring(p) ==
  /\ pc[p] = "ring"
  /\ countSem' = countSem + 1
  /\ pc' = [pc EXCEPT ![p] = "idle"]
  /\ UNCHANGED <<lanes, arg, outcome, stopped>>

FreeRTOSSend(p) == port = "FreeRTOS" /\ (Put(p, "ring") \/ Ring(p))
ThreadXSend(p) == port = "ThreadX" /\ (Put(p, "ring") \/ Ring(p))
ZephyrSend(p) == port = "Zephyr" /\ Put(p, "idle")
CmsisSend(p) == port = "CMSIS" /\ Put(p, "idle")

FreeRTOSDispatchDelegate(p) ==
  /\ port = "FreeRTOS"
  /\ \/ \E m \in Message : DispatchIfCreated(p, m)
     \/ SendFails(p)
     \/ SendTimesOut(p)

ThreadXDispatchDelegate(p) ==
  /\ port = "ThreadX"
  /\ \/ \E m \in Message : DispatchIfCreated(p, m)
     \/ SendFails(p)
     \/ SendTimesOut(p)

ZephyrDispatchDelegate(p) ==
  /\ port = "Zephyr"
  /\ \/ \E m \in Message : DispatchAssertCreated(p, m)
     \/ SendFails(p)
     \/ SendTimesOut(p)

CmsisDispatchDelegate(p) ==
  /\ port = "CMSIS"
  /\ \/ \E m \in Message : DispatchAssertCreated(p, m)
     \/ SendFails(p)
     \/ SendTimesOut(p)

\* Windows: the test of m_exit and m_hThread outside the lock, then the critical
\* section, which a wait for room leaves.  That wait may end although there is room.
Win32DispatchDelegate(p) ==
  /\ port = "Win32"
  /\ \/ \E m \in Message :
          /\ Call(p, m)
          /\ IF m_exit \/ ~created THEN RefuseAtOnce(m) ELSE BeginDispatch(p, m)
     \/ ~m_exit /\ Put(p, "idle")
     \/ /\ pc[p] = "send"
        /\ m_exit
        /\ Room(LaneOf(arg[p])) \/ FULL_POLICY = "TIMEOUT"
        /\ Refuse(p)
     \/ ~(m_exit /\ FULL_POLICY = "TIMEOUT") /\ SendFails(p)
     \/ pc[p] = "blocked" /\ Refuse(p)

DispatchDelegate(p) ==
  /\ \/ FreeRTOSDispatchDelegate(p) \/ FreeRTOSSend(p)
     \/ ThreadXDispatchDelegate(p) \/ ThreadXSend(p)
     \/ ZephyrDispatchDelegate(p) \/ ZephyrSend(p)
     \/ CmsisDispatchDelegate(p) \/ CmsisSend(p)
     \/ Win32DispatchDelegate(p)
  /\ UNCHANGED <<config, lifecycle, exitSem, worker, job>>

(***************************************************************************)
(* Receive() of the queue, and Run().                                      *)
(***************************************************************************)
TakeFrom(l) ==
  /\ job' = Head(lanes[l])
  /\ lanes' = [lanes EXCEPT ![l] = Tail(@)]
  /\ worker' = "running"

PopHigh ==
  /\ worker = "high"
  /\ IF lanes["HIGH"] # <<>>
     THEN TakeFrom("HIGH")
     ELSE worker' = "normal" /\ UNCHANGED <<job, lanes>>
  /\ UNCHANGED countSem

PopNormal(otherwise) ==
  /\ worker = "normal"
  /\ IF lanes["NORMAL"] # <<>>
     THEN TakeFrom("NORMAL")
     ELSE worker' = otherwise /\ UNCHANGED <<job, lanes>>
  /\ UNCHANGED countSem

TakeToken ==
  /\ worker = "wait"
  /\ countSem > 0
  /\ countSem' = countSem - 1
  /\ worker' = "high"
  /\ UNCHANGED <<job, lanes>>

\* A wait with a time limit ends without a message when there is nothing to take.
WaitTimesOut ==
  /\ worker \in {"wait", "poll"}
  /\ IF port \in DoorbellPorts THEN countSem = 0 ELSE Empty
  /\ watchdog
  /\ worker' = "head"
  /\ UNCHANGED <<job, queue>>

TakeFirst ==
  /\ worker = "wait"
  /\ ~Empty
  /\ TakeFrom(IF lanes["HIGH"] # <<>> THEN "HIGH" ELSE "NORMAL")
  /\ UNCHANGED countSem

FreeRTOSReceive ==
  /\ port = "FreeRTOS"
  /\ TakeToken \/ PopHigh \/ PopNormal("head") \/ WaitTimesOut

ThreadXReceive ==
  /\ port = "ThreadX"
  /\ TakeToken \/ PopHigh \/ PopNormal("head") \/ WaitTimesOut

\* k_poll() returns when one of the queues has data; Receive() then looks again.
ZephyrReceive ==
  /\ port = "Zephyr"
  /\ \/ PopHigh
     \/ PopNormal("poll")
     \/ worker = "poll" /\ ~Empty /\ worker' = "high" /\ UNCHANGED <<job, queue>>
     \/ WaitTimesOut

CmsisReceive == port = "CMSIS" /\ (TakeFirst \/ WaitTimesOut)

\* Mutant: a worker that leaves its loop because of m_exit does not tell ExitThread().
LeaveSilently ==
  /\ worker' = "done"
  /\ UNCHANGED exitSem

\* The end of Run().
Leave ==
  /\ exitSem' = 1
  /\ worker' = "done"

LoopHead(receive) ==
  /\ worker = "head"
  /\ IF m_exit THEN Leave ELSE worker' = receive /\ UNCHANGED exitSem
  /\ UNCHANGED <<job, executed>>

\* The handler returns.  One that would exit the thread does not while the owner
\* does: ExitThread() is not made for two callers at once.
HandlerReturns(next) ==
  /\ worker = "running"
  /\ job \in Message
  /\ job \in SelfExiting => owner # "idle"
  /\ pc[Worker] = "idle"
  /\ executed' = executed \cup {job}
  /\ job' = None
  /\ worker' = next
  /\ UNCHANGED exitSem

ExitReceived ==
  /\ worker = "running"
  /\ job = ExitMsg
  /\ job' = None
  /\ UNCHANGED executed

\* The handler that called ExitThread() returns: Run() ends without another look
\* at the object.
SelfExitReturns ==
  /\ worker = "exited"
  /\ executed' = executed \cup {job}
  /\ job' = None
  /\ worker' = "done"
  /\ UNCHANGED exitSem

FreeRTOSRun ==
  /\ port = "FreeRTOS"
  /\ LoopHead("wait") \/ HandlerReturns("head") \/ (ExitReceived /\ Leave) \/ SelfExitReturns

ThreadXRun ==
  /\ port = "ThreadX"
  /\ LoopHead("wait") \/ HandlerReturns("head") \/ (ExitReceived /\ Leave) \/ SelfExitReturns

ZephyrRun ==
  /\ port = "Zephyr"
  /\ LoopHead("high") \/ HandlerReturns("head") \/ (ExitReceived /\ Leave) \/ SelfExitReturns

CmsisRun ==
  /\ port = "CMSIS"
  /\ LoopHead("wait") \/ HandlerReturns("head") \/ (ExitReceived /\ Leave) \/ SelfExitReturns

\* Process() of Windows ends on m_exit only when the deques are empty.
Win32Process ==
  /\ port = "Win32"
  /\ \/ HandlerReturns("wait") \/ SelfExitReturns
     \/ ExitReceived /\ worker' = "done" /\ UNCHANGED exitSem
     \/ /\ worker = "wait" /\ Empty /\ m_exit
        /\ worker' = "done"
        /\ UNCHANGED <<job, executed, exitSem>>

Win32Take == port = "Win32" /\ TakeFirst

WorkerStep ==
  /\ \/ /\ FreeRTOSReceive \/ ThreadXReceive \/ ZephyrReceive \/ CmsisReceive \/ Win32Take
        /\ UNCHANGED <<exitSem, executed>>
     \/ /\ FreeRTOSRun \/ ThreadXRun \/ ZephyrRun \/ CmsisRun \/ Win32Process
        /\ UNCHANGED queue
  /\ UNCHANGED <<config, lifecycle, callers, stopped, refused, discarded>>

(***************************************************************************)
(* ExitThread() and CreateThread().                                        *)
(***************************************************************************)
\* DrainAndDelete() and Destroy().
DrainAndDestroy ==
  /\ discarded' = discarded \cup Queued
  /\ lanes' = [l \in Lane |-> <<>>]
  /\ countSem' = 0
  /\ created' = FALSE
  /\ undefined' = InFlight

RequestExit(next) ==
  /\ owner = "idle"
  /\ created
  /\ worker # "exited"
  /\ m_exit' = TRUE
  /\ owner' = next
  /\ UNCHANGED <<created, m_selfExited, queue, exitSem, undefined, discarded>>

\* The exit message is sent to the NORMAL lane, waiting for room without a limit.
SendExit(next) ==
  /\ owner = "sending"
  /\ Room("NORMAL")
  /\ PushBack("NORMAL", ExitMsg)
  /\ owner' = next
  /\ UNCHANGED <<created, m_exit, m_selfExited, countSem, exitSem, undefined, discarded>>

RingExit ==
  /\ owner = "ringing"
  /\ countSem' = countSem + 1
  /\ owner' = "joining"
  /\ UNCHANGED <<created, m_exit, m_selfExited, lanes, exitSem, undefined, discarded>>

TakeExitSem ==
  /\ owner = "joining"
  /\ exitSem = 1
  /\ exitSem' = 0
  /\ owner' = "cleanup"
  /\ UNCHANGED <<created, m_exit, m_selfExited, queue, undefined, discarded>>

Cleanup ==
  /\ owner = "cleanup"
  /\ DrainAndDestroy
  /\ owner' = "idle"
  /\ UNCHANGED <<m_exit, exitSem>>

FreeRTOSExitThread ==
  /\ port = "FreeRTOS"
  /\ \/ RequestExit("sending")
     \/ SendExit("ringing")
     \/ RingExit
     \/ TakeExitSem
     \/ Cleanup /\ UNCHANGED m_selfExited

ThreadXExitThread ==
  /\ port = "ThreadX"
  /\ \/ RequestExit("sending")
     \/ SendExit("ringing")
     \/ RingExit
     \/ TakeExitSem
     \/ Cleanup /\ UNCHANGED m_selfExited

\* Zephyr joins the thread, and leaves what a handler's exit must not do to a
\* later call by another thread.
ZephyrExitThread ==
  /\ port = "Zephyr"
  /\ \/ RequestExit(IF m_selfExited THEN "cleanup" ELSE "sending")
     \/ SendExit("joining")
     \/ TakeExitSem
     \/ worker = "done" /\ Cleanup /\ m_selfExited' = FALSE

CmsisExitThread ==
  /\ port = "CMSIS"
  /\ \/ RequestExit("sending")
     \/ SendExit("joining")
     \/ TakeExitSem
     \/ Cleanup /\ UNCHANGED m_selfExited

\* Windows: the exit message goes to the HIGH lane, over the limit, and what the
\* lanes still hold when the thread has ended stays there.
Win32ExitThread ==
  /\ port = "Win32"
  /\ \/ /\ owner = "idle"
        /\ created
        /\ m_exit' = TRUE
        /\ PushBack("HIGH", ExitMsg)
        /\ owner' = "joining"
        /\ UNCHANGED created
     \/ /\ owner = "joining"
        /\ worker = "done"
        /\ created' = FALSE
        /\ owner' = "idle"
        /\ UNCHANGED <<m_exit, lanes>>
  /\ UNCHANGED <<m_selfExited, countSem, exitSem, undefined, discarded>>

\* ExitThread() called by a handler.
HandlerExits ==
  /\ worker = "running"
  /\ job \in SelfExiting
  /\ pc[Worker] = "idle"
  /\ owner = "idle"
  /\ worker' = "exited"
  /\ m_exit' = TRUE

FreeRTOSSelfExit == port = "FreeRTOS" /\ HandlerExits /\ DrainAndDestroy /\ UNCHANGED m_selfExited
ThreadXSelfExit == port = "ThreadX" /\ HandlerExits /\ DrainAndDestroy /\ UNCHANGED m_selfExited
CmsisSelfExit == port = "CMSIS" /\ HandlerExits /\ DrainAndDestroy /\ UNCHANGED m_selfExited

ZephyrSelfExit ==
  /\ port = "Zephyr"
  /\ HandlerExits
  /\ m_selfExited' = TRUE
  /\ UNCHANGED <<created, queue, undefined, discarded>>

Win32SelfExit ==
  /\ port = "Win32"
  /\ HandlerExits
  /\ PushBack("HIGH", ExitMsg)
  /\ created' = FALSE
  /\ UNCHANGED <<m_selfExited, countSem, undefined, discarded>>

SelfExit ==
  /\ \/ FreeRTOSSelfExit \/ ThreadXSelfExit \/ CmsisSelfExit \/ ZephyrSelfExit \/ Win32SelfExit
  /\ UNCHANGED <<config, owner, lives, exitSem, job, callers, fault, refused, executed>>

ExitThread ==
  /\ \/ FreeRTOSExitThread \/ ThreadXExitThread \/ ZephyrExitThread \/ CmsisExitThread
     \/ Win32ExitThread
  /\ UNCHANGED <<config, lives, worker, job, callers, fault, refused, executed>>

\* A thread is created when none exists, and not before the last one has ended.
\* m_exit is reset on Windows only.
Create(first) ==
  /\ owner = "idle"
  /\ ~created
  /\ worker \in {"none", "done"}
  /\ lives < MaxLives
  /\ created' = TRUE
  /\ worker' = first
  /\ lives' = lives + 1

FreeRTOSCreateThread == port = "FreeRTOS" /\ Create("head") /\ UNCHANGED <<m_exit, exitSem>>
ThreadXCreateThread == port = "ThreadX" /\ Create("head") /\ UNCHANGED <<m_exit, exitSem>>
ZephyrCreateThread == port = "Zephyr" /\ Create("head") /\ UNCHANGED <<m_exit, exitSem>>

\* CMSIS-RTOS2 makes a new semaphore for every thread.
CmsisCreateThread ==
  /\ port = "CMSIS"
  /\ Create("head")
  /\ exitSem' = 0
  /\ UNCHANGED m_exit

Win32CreateThread ==
  /\ port = "Win32"
  /\ Create("wait")
  /\ m_exit' = FALSE
  /\ UNCHANGED exitSem

CreateThread ==
  /\ \/ FreeRTOSCreateThread \/ ThreadXCreateThread \/ ZephyrCreateThread \/ CmsisCreateThread
     \/ Win32CreateThread
  /\ UNCHANGED <<config, m_selfExited, owner, queue, job, callers, stopped, outcome>>

-----------------------------------------------------------------------------
Step ==
  \/ \E p \in Caller : DispatchDelegate(p)
  \/ WorkerStep
  \/ SelfExit
  \/ ExitThread
  \/ CreateThread

Running == ~fault /\ ~undefined

\* A failed assertion ends the program: nothing runs after it.
Next ==
  \/ Running /\ Step
  \/ ~Running /\ UNCHANGED vars

\* Threads that can run do run, handlers return, and a wait with a time limit
\* ends.  Nobody has to dispatch, to create the thread or to ask it to exit.
Fairness ==
  /\ \A p \in Caller : WF_vars(Running /\ pc[p] # "idle" /\ DispatchDelegate(p))
  /\ WF_vars(Running /\ (WorkerStep \/ SelfExit))
  /\ WF_vars(Running /\ owner # "idle" /\ ExitThread)

Spec == Init /\ [][Next]_vars /\ Fairness

-----------------------------------------------------------------------------
TypeOK ==
  /\ port \in Ports
  /\ [size |-> m_queueSize, policy |-> FULL_POLICY, watchdog |-> watchdog] \in Constructions
  /\ created \in BOOLEAN
  /\ m_exit \in BOOLEAN
  /\ m_selfExited \in BOOLEAN
  /\ lanes \in [Lane -> Seq(AnyMessage)]
  /\ countSem \in Nat
  /\ exitSem \in {0, 1}
  /\ worker \in {"none", "head", "wait", "high", "normal", "poll", "running", "exited", "done"}
  /\ job \in AnyMessage \cup {None}
  /\ pc \in [Caller -> {"idle", "send", "blocked", "ring"}]
  /\ arg \in [Caller -> Message \cup {None}]
  /\ owner \in {"idle", "sending", "ringing", "joining", "cleanup"}
  /\ lives \in 0..MaxLives
  /\ fault \in BOOLEAN
  /\ undefined \in BOOLEAN
  /\ refused \subseteq Message
  /\ executed \subseteq Message
  /\ discarded \subseteq Message

\* FreeRTOS and ThreadX: the doorbell semaphore counts the messages that wait in
\* the two lanes, but for those whose sender has not given it yet and for the one
\* whose token the worker has taken.  So a worker that got through the semaphore
\* finds a message, none is left behind unannounced, and the count stays within
\* the 2 * capacity it was created with.
Pending(b) == IF b THEN 1 ELSE 0

DoorbellCounts ==
  port \in DoorbellPorts /\ ~undefined =>
    /\ Depth = countSem + Cardinality({p \in Caller : pc[p] = "ring"})
               + Pending(owner = "ringing") + Pending(worker \in {"high", "normal"})
    /\ worker = "normal" /\ lanes["HIGH"] = <<>> => lanes["NORMAL"] # <<>>
    /\ countSem <= 2 * m_queueSize

\* ExitThread() has left its exit message waiting for room in the NORMAL lane of a
\* thread whose loop has already ended on m_exit.
StuckOnFullLane == owner = "sending" /\ worker = "done" /\ ~Room("NORMAL")

\* What a live worker accepted it executes, every call of DispatchDelegate() comes
\* back, and ExitThread() returns, except from the full lane it waits for in vain.
Progress ==
  /\ \A m \in Message : m \in Queued ~> m \notin Queued \/ worker = "done" \/ ~Running
  /\ \A p \in Caller : pc[p] # "idle" ~> pc[p] = "idle" \/ ~Running
  /\ owner # "idle" ~> owner = "idle" \/ StuckOnFullLane \/ ~Running

\* ExitThread() returns: "Block until message is sent. This ensures the thread WILL
\* receive it."
ExitReturns == owner # "idle" ~> owner = "idle" \/ ~Running

\* The thread implements the channel its clients rely on.
WithoutExit(s) ==
  LET Kept[n \in 0 .. Len(s)] ==
        IF n = 0 THEN <<>>
        ELSE IF s[n] = ExitMsg THEN Kept[n - 1] ELSE Append(Kept[n - 1], s[n])
  IN  Kept[Len(s)]

Channel == INSTANCE PriorityChannel WITH
  open <- created /\ (port = "Win32" => ~m_exit),
  pending <- [l \in Lane |-> WithoutExit(lanes[l])],
  scanned <- worker = "normal",
  current <- IF job \in Message THEN job ELSE None,
  finished <- executed,
  lost <- discarded

\* Whatever callers, worker and owner do on whichever kernel, what happens to the
\* messages is what PriorityChannel allows: order within a priority, at most one
\* start, none given up but when the thread is exited.
ImplementsChannel == Channel!Spec
=============================================================================
