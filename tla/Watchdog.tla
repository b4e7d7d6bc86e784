------------------------------ MODULE Watchdog ------------------------------
(***************************************************************************)
(* The watchdog of a StdlibThread: the worker stores the time at which it  *)
(* was last seen alive, and WatchdogCheckAll(), called from elsewhere,     *)
(* raises the alarm for a registered thread whose heartbeat is too old.    *)
(*                                                                         *)
(* Time is counted in ticks and kept as ages.  The queue is reduced to     *)
(* whether a message is in it: what the worker does with its messages is   *)
(* the subject of StdlibThread.                                            *)
(*                                                                         *)
(* The names of the specification begin with WD, for modules that extend   *)
(* this one and another.                                                   *)
(***************************************************************************)
EXTENDS Integers

CONSTANTS
  Timeout,  \* watchdogTimeout, in ticks
  Latency,  \* bound: how late a worker that is due to wake up may run, in ticks
  MayExit   \* the owner calls ExitThread(), and then CreateThread() again or the destructor

ASSUME TimingAssumption ==
  /\ Timeout \in Nat \ {0}
  /\ Latency \in Nat
  /\ (Timeout \div 10) + Latency <= Timeout
  /\ MayExit \in BOOLEAN

VARIABLES
  owner,              \* where the owner is in CreateThread() or ExitThread()
  worker,             \* where the worker is in Process()
  m_watchdogTimeout,  \* it has been set to Timeout, else it is zero
  registered,         \* the thread is in the watchdog list
  age,                \* the time since m_lastAliveTime, counted to Timeout + 1
  watchdogTimeout,    \* what the worker loaded before it waits: TRUE is Timeout
  slept,              \* how long the worker has waited, counted to its time limit
  late,               \* how long the wait has been over
  pending,            \* a message is queued
  m_exit,
  hung,               \* the handler will never return
  alarm               \* WatchdogHandler() has ended the program

threadVars == <<worker, watchdogTimeout, slept, late, hung>>
ownerVars == <<owner, m_watchdogTimeout, registered, m_exit>>
WDvars == <<threadVars, ownerVars, age, pending, alarm>>

\* Mutant: the wait lasts the whole timeout.
HeartbeatAtTimeout == Timeout

\* The worker wakes up frequently, to keep the heartbeat up while it is idle.
Heartbeat == Timeout \div 10

WDInit ==
  /\ owner = "idle"
  /\ worker = "none"
  /\ m_watchdogTimeout = FALSE
  /\ registered = FALSE
  /\ age = 0
  /\ watchdogTimeout = FALSE
  /\ slept = 0
  /\ late = 0
  /\ pending = FALSE
  /\ m_exit = FALSE
  /\ hung = FALSE
  /\ alarm = FALSE

(***************************************************************************)
(* CreateThread() and ExitThread().                                        *)
(***************************************************************************)
CreateThread ==
  /\ owner = "idle"
  /\ worker' = "starting"
  /\ m_exit' = FALSE
  /\ owner' = "starting"
  /\ UNCHANGED <<m_watchdogTimeout, registered, age, watchdogTimeout, slept, late, pending, hung,
                 alarm>>

\* The worker has kept the promise that the owner waits for.
CreateThreadAlive ==
  /\ owner = "starting"
  /\ worker # "starting"
  /\ age' = 0
  /\ owner' = "alive"
  /\ UNCHANGED <<threadVars, m_watchdogTimeout, registered, m_exit, pending, alarm>>

CreateThreadTimeout ==
  /\ owner = "alive"
  /\ m_watchdogTimeout' = TRUE
  /\ owner' = "registering"
  /\ UNCHANGED <<threadVars, registered, m_exit, age, pending, alarm>>

\* Mutant: the search of the list reports every thread as found.
CreateThreadSkipsRegister ==
  /\ owner = "registering"
  /\ owner' = "created"
  /\ UNCHANGED <<threadVars, m_watchdogTimeout, registered, m_exit, age, pending, alarm>>

CreateThreadRegister ==
  /\ owner = "registering"
  /\ registered' = TRUE
  /\ owner' = "created"
  /\ UNCHANGED <<threadVars, m_watchdogTimeout, m_exit, age, pending, alarm>>

\* The exit message is queued behind the others, and join() waits for the worker.
ExitThread ==
  /\ MayExit
  /\ owner = "created"
  /\ m_exit' = TRUE
  /\ owner' = "joining"
  /\ UNCHANGED <<threadVars, m_watchdogTimeout, registered, age, pending, alarm>>

\* Nothing here takes the thread off the watchdog list.
ExitThreadDone ==
  /\ owner = "joining"
  /\ worker = "done"
  /\ pending' = FALSE
  /\ owner' = "idle"
  /\ UNCHANGED <<threadVars, m_watchdogTimeout, registered, m_exit, age, alarm>>

\* The destructor, after its own ExitThread(), takes the thread off the list.
Destructor ==
  /\ MayExit
  /\ owner = "idle"
  /\ registered' = FALSE
  /\ owner' = "destroyed"
  /\ UNCHANGED <<threadVars, m_watchdogTimeout, m_exit, age, pending, alarm>>

(***************************************************************************)
(* Process().                                                              *)
(***************************************************************************)
WorkerStart ==
  /\ worker = "starting"
  /\ worker' = "started"
  /\ UNCHANGED <<ownerVars, age, watchdogTimeout, slept, late, pending, hung, alarm>>

\* The head of the loop, which decides how long the worker will wait.
LoopHead ==
  /\ age' = 0
  /\ watchdogTimeout' = m_watchdogTimeout
  /\ slept' = 0
  /\ late' = 0
  /\ worker' = "waiting"

WorkerLoop ==
  /\ worker = "started"
  /\ LoopHead
  /\ UNCHANGED <<ownerVars, pending, hung, alarm>>

\* wait_for() ends by its time limit, wait() only when there is something to do.
Due == pending \/ m_exit \/ (watchdogTimeout /\ slept >= Heartbeat)

WorkerWake ==
  /\ worker = "waiting"
  /\ Due
  /\ age' = 0
  /\ IF pending
     THEN /\ worker' = "handler"
          /\ pending' = FALSE
          /\ UNCHANGED <<watchdogTimeout, slept, late>>
     ELSE IF m_exit
          THEN worker' = "done" /\ UNCHANGED <<pending, watchdogTimeout, slept, late>>
          ELSE LoopHead /\ UNCHANGED pending
  /\ UNCHANGED <<ownerVars, hung, alarm>>

ThreadCheck ==
  /\ worker = "handler"
  /\ ~hung
  /\ age' = 0
  /\ UNCHANGED <<threadVars, ownerVars, pending, alarm>>

HandlerReturns ==
  /\ worker = "handler"
  /\ ~hung
  /\ LoopHead
  /\ UNCHANGED <<ownerVars, pending, hung, alarm>>

HandlerHangs ==
  /\ worker = "handler"
  /\ ~hung
  /\ hung' = TRUE
  /\ UNCHANGED <<worker, watchdogTimeout, slept, late, ownerVars, age, pending, alarm>>

(***************************************************************************)
(* The others: clients, whoever checks the watchdogs, and time.            *)
(***************************************************************************)
DispatchDelegate ==
  /\ owner \notin {"idle", "destroyed"}
  /\ ~m_exit
  /\ pending' = TRUE
  /\ UNCHANGED <<threadVars, ownerVars, age, alarm>>

WatchdogCheck == m_watchdogTimeout /\ age > Timeout

WatchdogCheckAll ==
  /\ registered
  /\ WatchdogCheck
  /\ alarm' = TRUE
  /\ UNCHANGED <<threadVars, ownerVars, age, pending>>

WaitIsOver == worker = "waiting" /\ Due

\* A worker whose wait is over runs at most Latency later.
Tick ==
  /\ WaitIsOver => late < Latency
  /\ late' = IF WaitIsOver THEN late + 1 ELSE late
  /\ age' = IF age > Timeout THEN age ELSE age + 1
  /\ slept' = IF worker = "waiting" /\ slept < Heartbeat THEN slept + 1 ELSE slept
  /\ UNCHANGED <<worker, watchdogTimeout, hung, ownerVars, pending, alarm>>

-----------------------------------------------------------------------------
OwnerStep ==
  \/ CreateThread
  \/ CreateThreadAlive
  \/ CreateThreadTimeout
  \/ CreateThreadRegister
  \/ ExitThreadDone

ProcessStep == WorkerStart \/ WorkerLoop \/ WorkerWake

Step ==
  \/ OwnerStep
  \/ ExitThread
  \/ Destructor
  \/ ProcessStep
  \/ ThreadCheck
  \/ HandlerReturns
  \/ HandlerHangs
  \/ DispatchDelegate
  \/ WatchdogCheckAll
  \/ Tick

WDNext ==
  \/ ~alarm /\ Step
  \/ alarm /\ UNCHANGED WDvars

\* Time passes, both threads run, and somebody keeps checking the watchdogs.
WDFairness ==
  /\ WF_WDvars(~alarm /\ OwnerStep)
  /\ WF_WDvars(~alarm /\ ProcessStep)
  /\ WF_WDvars(~alarm /\ WatchdogCheckAll)
  /\ WF_WDvars(~alarm /\ Tick)

WDSpec == WDInit /\ [][WDNext]_WDvars /\ WDFairness

-----------------------------------------------------------------------------
WDTypeOK ==
  /\ owner \in {"idle", "starting", "alive", "registering", "created", "joining", "destroyed"}
  /\ worker \in {"none", "starting", "started", "waiting", "handler", "done"}
  /\ m_watchdogTimeout \in BOOLEAN
  /\ registered \in BOOLEAN
  /\ age \in 0..(Timeout + 1)
  /\ watchdogTimeout \in BOOLEAN
  /\ slept \in 0..Heartbeat
  /\ late \in 0..Latency
  /\ pending \in BOOLEAN
  /\ m_exit \in BOOLEAN
  /\ hung \in BOOLEAN
  /\ alarm \in BOOLEAN

\* A worker that waits for work with the timeout it has been given is not reported,
\* however late it wakes up and however close to the end of its wait messages and an
\* exit arrive.  It says nothing of a handler, which may run for too long, nor of a
\* thread that is not running: see ExitRaisesNoAlarm.
IdleKeepsAlive == alarm /\ watchdogTimeout => worker # "waiting"

\* A thread that has been exited raises no alarm.  The code does not have this property:
\* ExitThread() leaves the thread on the watchdog list, with a heartbeat that ages.
ExitRaisesNoAlarm == alarm => worker # "done"

\* A handler that never returns is reported, even if it was started before
\* CreateThread() had set the timeout, and while ExitThread() waits for it.
HangDetected == hung ~> alarm

\* An idle thread raises no alarm: the heartbeat is kept up while it waits.
NoFalseAlarm == alarm => worker # "waiting"
=============================================================================
