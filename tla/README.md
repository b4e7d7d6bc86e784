# Verification of cpp-signal-slot-fsm in TLA+

The program runs state-based self-tests on worker threads that talk to each
other through asynchronous delegates and signals (DelegateMQ). Its difficult
parts are the places where threads meet: message queues with a limit, a
priority lane and a shutdown protocol, on six kernels; a timer that invokes
callbacks after it has released its lock; containers of delegates that change
while they are invoked; state machines that take no lock at all; a blocking call
whose caller may give up while its target runs; retries that race
acknowledgements over a lossy network; a data bus that connects, caches and
sends in separate critical sections. This directory models those parts in TLA+,
checks the models with TLC, and proves the most important invariants with TLAPS
for every number of threads and messages, every queue limit and every timeout.

Paths below are relative to the repository root, with its files under `src/`.

## 1. The system

What the self-test program builds is decided by `src/CMakeLists.txt`: the standard
library thread port, no serializer, no transport, no allocator. The rest of
DelegateMQ, which is most of the code, is a library for other programs; it is
modelled as such a program would use it.

| Component | State it keeps | Operations | Interacts with |
|---|---|---|---|
| `StdlibThread` (port/os/stdlib) | `m_thread`, `m_exit`, two lanes, two condition variables, full-queue policy | `CreateThread`, `DispatchDelegate`, `Process`, `ExitThread` | every asynchronous delegate; handlers run on it and call it |
| its watchdog | `m_lastAliveTime`, `m_watchdogTimeout`, the list of watched threads | heartbeat in `Process`, `ThreadCheck`, `WatchdogCheckAll`, destructor | whoever checks the watchdogs; the fault handler |
| `StateMachine` | `m_currentState`, `m_newState`, `m_eventGenerated` | `ExternalEvent`, `InternalEvent`, `StateEngine` | base class of every test; state actions generate events of other machines |
| `SelfTest`, `SelfTestEngine`, `CentrifugeTest`, `PressureTest` | their states, `m_speed`, the poll timer and its connection | `Start`, `Complete`, `Cancel`, `Poll`, state, guard and exit actions | signals `OnCompleted`/`OnFailed` back to the engine's thread, `OnExpired` of the timer |
| `main.cpp` | `selfTestEngineCompleted`, connections | start, wait, disconnect, exit threads | the engine, the user interface thread, the timer thread |
| `Timer` | list of timers, deadline, enabled | `Start`, `Stop`, `CheckExpired`, `ProcessTimers` | one thread calls `ProcessTimers`, others start and stop |
| delegates (four kinds of target; synchronous, asynchronous, blocking, remote, timer) | function, object, thread, priority | `Clone`, `Equal`, `operator()`, `Invoke` | containers hold clones, worker threads invoke them |
| `MulticastDelegate`, `UnicastDelegate`, their `Safe` forms, `Signal`, `ScopedConnection` | list of delegates, broadcast depth, clean-up flag, connections | insert, remove, clear, copy, move, connect, disconnect, invoke | targets change the container that calls them |
| `DelegateAsyncWait`, `Semaphore` | message with lock, waiting flag, result | invoke and wait with a timeout | caller's and target's thread |
| thread ports of FreeRTOS, ThreadX, Zephyr, CMSIS-RTOS2, Win32 | lanes, doorbell semaphore, exit semaphore, `m_exit` | `CreateThread`, `DispatchDelegate`, `Run`, `ExitThread` | the kernel's queues, semaphores and threads |
| `Dispatcher`, `RemoteChannel`, `DelegateRemote` | stream, sequence number, error handler, last error | send, receive | serializer, transport |
| `RetryMonitor`, `TransportMonitor`, `ReliableTransport` | store of unacknowledged packets, pending map | send, acknowledge, time out, retry | a lossy transport; three threads |
| `NetworkEngine`, `NetworkNode`, transports | sockets, roles, receive thread | initialize, connect, send, receive, `RemoteInvokeWait`, stop | monitors, dispatcher, the peer |
| `DataBus`, `Participant` | topics, signals, last values, participants, latched errors, duplicate history | subscribe, publish, attach, remove, relay, reset | threads, remote participants |
| `serialize`, `Serializer` | stream, stack of end positions | write and read of every kind of argument | remote channels; peers of other versions |
| `Allocator`, `xmalloc` | table of allocators, free lists, counts | `xmalloc`, `xrealloc`, `xfree`, class `new` and `delete` | any thread; the heap |
| Qt thread port, adapters of other serializers, logging, `DeadlineSubscription`, `ThreadMonitor` | | | see section 6 |

### What is hard, and what makes each component correct

`PROJECT.json` lists the hazards one by one, each at its line. In short:

- **Thread queue.** `DispatchDelegate` reads `m_exit` and `m_thread` before it
  locks; callers wait for space and are woken one at a time; the exit message
  bypasses the limit; a handler may dispatch to its own queue or exit its own
  thread; the thread may be created again. Correct means: bounded, ordered,
  nothing accepted is lost, nobody sleeps for ever.
- **State machines.** One pending event per machine, no lock; tests call back
  into the engine that called them; late polls and cancels arrive in any state.
  Correct means: no assertion fails, the tests go in order, the poll timer
  runs exactly when it is needed.
- **Watchdog.** The timeout is published after the worker has started; the
  heartbeat depends on a wait that may end late. Correct means: no idle thread
  is reported, every hung one is.
- **Timer.** Callbacks are invoked from a snapshot after the lock is released;
  a flag says whether disabled timers have to be unlinked; a pass may come late.
  Correct means: the list stays fit to be walked, no timer expires too often, a
  stopped one calls back a bounded number of times, an expired one is noticed.
- **Blocking delegates.** The message holds references to the caller's
  arguments; the wait may time out at any moment of the invocation. Correct
  means: a function never outlives its caller's arguments, success is only
  claimed for a function that has returned, calls among threads end.
- **Containers.** A target may insert, remove or clear the list that is calling it,
  in nested broadcasts; an object may be destroyed between the insertion, the
  dispatch and the invocation of its delegate. Correct means: iterators stay in
  the list, no destroyed object is called, a paced timer goes on firing.
- **Other kernels.** Two queues and a semaphore are not one critical section; each
  kernel decides priority, exit and re-creation in its own order. Correct means:
  the doorbell counts the messages, and clients see the same channel.
- **Reliable transport.** An acknowledgement, a time-out and a retry meet in two
  monitors with a lock each; numbers wrap; the send may take longer than its
  time-out. Correct means: success is true, retries are bounded, a failed message
  stays failed, duplicates are dropped within the window, tracking ends.
- **DataBus.** Connecting, reading the cache, delivering and publishing are
  separate; participants come and go during a dispatch. Correct means: no value is
  missed, no follower ends with an old one, relays do not echo.
- **Serializer.** Sender and receiver may know different versions of a class, have
  different byte orders, and lose the end of a message. Correct means: nothing
  that both know is lost, and a cut is noticed.
- **Allocator.** One `xmalloc` is several critical sections around `new`. Correct
  means: one allocator per size, each block in one place.

## 2. Modules

| Module | What it is |
|---|---|
| `StdlibThread` | the worker thread and its queue, one action per critical section and per unlocked read |
| `MessageChannel` | abstract: what a worker thread promises to its clients |
| `StdlibThreadProofs` | theorems about `StdlibThread`, of which one says that it implements `MessageChannel` |
| `Watchdog` | the heartbeat and its check, in discrete time |
| `StateMachine` | the base class: pending event, current state, the loop of `StateEngine` as a stack of calls per thread |
| `SelfTests` | the three machines of the program with the engine's thread, the timer thread, the user interface thread, `main()` and another client; extends `StateMachine` |
| `SelfTestSequence` | abstract: tests in order, a run reported once, and what a completion that a cancelled run left queued may change |
| `SelfTestsProofs` | theorems about `SelfTests`, of which one says that it implements `SelfTestSequence` |
| `Timer` | the list of timers, its clients, and `ProcessTimers()` step by step with the clock running |
| `AsyncWait` | blocking delegates among clients and workers that call each other |
| `BlockingCall` | abstract: what a blocking delegate promises of each call |
| `WaitProofs` | theorems about `Watchdog` and `AsyncWait`, and extends both; one says that `AsyncWait` implements `BlockingCall` |
| `RtosThread` | the threads and delegate queues of five other kernels, one step per call of the kernel |
| `PriorityChannel` | abstract: what those threads promise, which is less than `MessageChannel` |
| `RtosThreadProofs` | theorems about `RtosThread`, of which one says that it implements `PriorityChannel` |
| `Delegates` | the delegate classes: `Clone`, `Equal`, `operator()`, `Invoke` as operators |
| `RemoteDelegates` | the remote classes, their errors, and the state of a channel's stream; extends `Delegates` |
| `Containers` | the five containers with those delegates in them, a worker and callbacks; extends `RemoteDelegates` |
| `TimerContainersProofs` | theorems about `Timer` and `Containers`, and extends both |
| `DataBus` | bus, participants and channels, by lock phases; extends `RemoteDelegates` |
| `DataBusProofs` | theorems about `DataBus` |
| `Transports` | sixteen transports, as what `Create`, `Send` and `Receive` decide |
| `ReliableLink` | a node, the medium and a peer: dispatcher, both monitors, engine or participant; extends `Transports` |
| `ReliableLinkProofs` | theorems about `ReliableLink` |
| `Serialize` | `msg_serialize.h` and `Serializer`, byte by byte, with recursive operators |
| `XAllocator` | `Allocator` and the functions of `xallocator.cpp` |
| `XAllocatorProofs` | theorems about `XAllocator` |
| `MC...` | the instances that TLC checks |

### StdlibThread

The names of variables and actions are those of the code; `"map"` in
`PROJECT.json` gives the lines of each definition. A critical section of
`m_mutex` is one action. `DispatchDelegate` is split where the code can be
interrupted: the read of `m_exit` (`DispatchDelegate`), the read of `m_thread`
(`DispatchCheckThread`), then the critical section, one action per outcome
(`DispatchPush`, `DispatchDrop`, `DispatchFault`, `DispatchWait`). A caller that
waits on `m_cvNotFull` is `"blocked"`; `notified` holds the callers that
`notify_one` or `notify_all` has taken off the wait set. Both waits are modelled
with their predicates: `wait_for` tests before it waits, again whenever it
wakes (`DispatchResume`, `DispatchWaitAgain`), and returns false when its time
is up and the predicate is still false (`DispatchTimeout`). Spurious wake-ups
are included: `DispatchResume` does not require a notification. `Process` is
`WorkerStart`, `WorkerWait`, `WorkerTake`, `WorkerFinish`, `WorkerExit`;
`ExitThread` is `ExitThread` and `ExitThreadDone` for the owner (the join lies
between them), `SelfExit` and `SelfCleanup` for a handler. The worker is also a
caller: its handlers dispatch to their own queue.

Abstractions: a message is a value with a lane; each is dispatched at most once,
so that its fate can be followed (`refused`, `executed`, `discarded` are history).
A handler that has exited its own thread counts as finished at the end of
`ExitThread()`. `ExitThread()` is called by one thread at a time, which is its
documented contract.

### StateMachine and SelfTests

`calls[t]` is the stack of `StateEngine()` calls thread `t` is in. Its top is
either at the head of the loop or at a state action, so another thread may run
between the switch of the state and the action, and between two events. The
transition maps are operators from a state to the next one. `m_thread` is the
engine's queue as `StdlibThread` provides it: first in first out, closed by
`ExitThread()`, drained before the thread ends. `TimerExpires` and
`TimerInvokes` are the two halves of `ProcessTimers()`: the snapshot under the
lock, the invocation after it. `OnCompleted` of the sub-tests is connected to
the engine's thread, that of the engine to the user interface thread, `OnFailed`
of the engine to nobody. The other client makes up to `ClientBound` calls, starts and
cancels in any order, so a run may begin while the sub-test of a cancelled run goes
on, or while its completion is queued (`own` is history and says which). Status
messages and event data are left out.

### Watchdog

Times are ages in ticks. `Tick` may happen at any moment, but not when a worker
whose wait is over has been late for `Latency` ticks: that is the only
assumption on scheduling, and `TimingAssumption` relates it to the timeout. The
queue is reduced to "a message is pending".

### Timer

`Construct`, `Destructor`, `Start` and `Stop` are one critical section each.
`ProcessTimers()` is several actions: `BeginPass` takes the lock, `Unlink` and
`Unlinked` are its first loop, `CheckExpired`, `MaxTimerExpired` and `Checked` its
second, `InvokeSnapshot` the callbacks after the lock is released. Time is the
variable `now`, which `Tick` advances at any moment, during a pass too, and
`ExpirePeriodic` reads twice more as `CheckExpired()` does; a tick between
these readings changes the next deadline (`NextExpireTime`). The linked list is
a sequence with its head first, and `cursor` the place of the walk. A client's
action may happen between any two callbacks, so it also stands for a callback
that calls `Start()`, `Stop()` or the destructor. `started`, `fired`,
`stopped` and `late` are history. `MAX_TIMER_EXPIRED` is chosen in `Init`.

### AsyncWait

A call `c` stands for its message too. `Begin` with `Dispatch` or
`DispatchRefused` is the first part of `DispatchAsyncWait()`, `Wait` and
`WaitTimesOut` are the ends of `Semaphore::Wait()`, `Return` is the critical
section after it. `Invoke` tests the waiting flag with the lock taken and
either leaves or begins the function; `TargetReturns` and `TargetThrows` signal
the semaphore, `Release...` gives the lock back. So `LockIsFree(c)` is false while
the function of `c` runs, and a caller that has timed out waits for it in
`Return`. A worker that runs a function may call in turn (`MayCall`), its own
thread included. The worker's queue is a sequence: `StdlibThread` is the
subject of another module, and what matters here is that it may refuse a
message, and throws its messages away when a handler exits its own thread
(`ReleaseAndEnd`). A thread that has exited is not created again.

### RtosThread

`port` is chosen in `Init`, with the size, policy and watchdog of the constructor.
What the ports share is written once (`BeginDispatch`, `Put`, `HandlerReturns`,
`DrainAndDestroy`), and each port's `DispatchDelegate`, `Send`, `Receive`, `Run`
and `ExitThread` has an action of its own, in the order of its code. A call of
the kernel is one step: FreeRTOS and ThreadX put a message into a lane and then
give the doorbell (`Put`, `Ring`), and take the doorbell and then look at the
lanes (`TakeToken`, `PopHigh`, `PopNormal`); Zephyr polls two queues; CMSIS-RTOS2
has one queue with priorities; Win32 has two deques under a lock. The kernels are
external. Where the owner deletes a queue while a caller is inside it, the
kernels promise nothing, and the model stops (`undefined`).

### Delegates, RemoteDelegates, Containers

A delegate is a record of what decides whether and where its target is called.
Operators give each class's `Clone`, `Equal` and call: a call yields "run here",
"dispatch this clone to that thread" or nothing, and `Invoke` what the worker
does with it. In `Containers` a stored delegate lives in a slot (a heap block)
that is freed when no list, connection, snapshot or frame refers to it. `stack[t]`
holds the invocations a thread is in: over the live list (`MulticastDelegate`),
over a snapshot (`MulticastDelegateSafe`, `Signal`), or of a message. Every
operation on the container may happen inside a target. Two references do not own
what they point to, as in the code: the one of a running `UnicastDelegate`
and the `this` in the message of a `TimerDelegate`. When one is used after its
slot was freed the code's behaviour is undefined, and the model stops
(`Dangling`); `NoCallOnDeadObject` speaks of the states before that. The message of a
`TimerDelegate` enters `InvokeTarget()` whether or not the delegate is bound, and
its token expires either way. A `TimerDelegate` has the class of the delegate that it was
made from (`TimerClasses`: a free function, a closure, a member of a bare or of a shared
pointer); comparison and call go through that one, and a message to a weak
member whose object is gone calls nothing.

### ReliableLink and Transports

`sender`, `timer` and `receiver` are the three threads of a node; each action is a
critical section of one of the monitors or a call out of it: `Dispatch`,
`AddPending`, `SendSucceeds` or `SendFails`, `EraseEntry`, `MarkSent` for a send;
`Expire`, `OnTimeout`, `RetryAdd`, `Resend`, `RetryDropped`, `Reregister` for the
timer; `TakeAck`, `OnSuccess` for the receiver. `Reconcile` and `WaitReturns` are
`RemoteInvokeWait`, which is the engine's (`Waits`) and goes on while the engine stops. `net` and `acks` only grow, and any member may arrive at any
time, again or never: that is loss, delay, reordering and duplication at once.
`Transports` decides which of a node's objects can send, receive and acknowledge;
its sixteen classes are combined with the wirings of `NetworkNode`,
`NetworkEngine` and a program of its own (`wiring`). A message is a number, and a
key of the monitors is its value modulo `SeqMod`.

### DataBus

Each thread runs a program, a sequence of calls from `setup`. A call is one action
per lock phase: `Subscribe`, `Connect`, `ReadCache`, `DeliverCached`; `Publish`,
`PublishLocked`, `DispatchMonitor`, `Snapshot`, `CallSlot`, `DispatchIfInterested`,
`Published`. One topic is modelled; topics share nothing but the lock. What a
serializer and a transport do to a value is a parameter of the setup, and the
stream of each channel keeps its state, as it does in the code. Sequence numbers
wrap at `Width`, and `IsNewer` is `MonotonicGuard`.

### Serialize

A type is a record, an object a sequence of fields. `Write` and `Read` follow the
overloads of `serialize`, with the type bytes, size fields, byte swaps, limits
and the stack of end positions. Byte, size field and parse stack are scaled down
by constants. The reader's classes may have more or fewer fields than the
sender's at every level, and the bytes may end anywhere.

### XAllocator

A block is an address, `<<Heap, n>>` or the n-th of a pool. `xmalloc` is
`Requests` (find under the lock), `InsertAllocator`, `PopBlock`, `NewBlock`
(outside the lock), `AccountNew` and `SetHeader`; `xfree` and `xrealloc` read the
header outside the lock, and `Deallocate` is its critical section. `live` and
`memory` are what clients keep in the blocks they own.

## 3. What is checked

| Run | Result | Question |
|---|---|---|
| `stdlibthread` | pass, 44,725 states | Is the queue bounded and ordered, are the messages and wake-ups kept, does every call return? |
| `selftests` | pass, 72,125 states | Does the program run its tests in order, without a failed assertion, and end? |
| `watchdog` | pass, 5,331 states | Is an idle thread kept alive and a hung one reported? |
| `timer` | pass, 303,346 states | Is the list consistent, is no timer too often or for ever late, and does a stopped one fall silent? |
| `asyncwait` | pass, 23,920 states | Do blocking calls among threads end, with their arguments alive and their result true? |
| `rtosthread` | pass, 139,531 states | Does the doorbell count the messages, and do five kernels give clients the same channel? |
| `network` | pass, 299,171 states | Is success true, are retries bounded, are duplicates dropped, does tracking end, on every transport? |
| `delegates` | pass, 135,416 states | Do containers survive what their targets do to them, and is no destroyed object called? |
| `databus` | pass, 129,299 states | Does every follower get every value and end with the newest, and every participant its share? |
| `databus_channel` | violation | Does a channel recover from a value that cannot be serialized? |
| `allocator` | pass, 432,180 states | Is every block in one place, and are the counts right? |
| `serialize` | pass, 107,034 states | Is nothing lost between versions and byte orders, and is a cut noticed? |

Properties of `stdlibthread`:
- `QueueBounded`: at most `MAX_QUEUE_SIZE` messages, plus the exit message.
- `ExitDrains`: when `join()` returns the lanes are empty, so the `clear()` that
  follows throws nothing away.
- `NoLostWakeup`: a sleeping worker has nothing to do; a caller waits unnotified
  only while the notified ones are enough to take every free place; nobody waits
  unnotified on an exiting thread.
- `ImplementsChannel`: refinement of `MessageChannel`. `open` is `~m_exit`, the
  exit message is hidden, `current` is the job in hand. It rules out reordering,
  double execution, acceptance after `ExitThread()`, and any loss except the one
  a handler causes that exits its own thread.
- `Delivered`, `CallsReturn`: every accepted message is executed, every call
  ends, unless the FAULT policy ends the program.

Properties of `selftests`: `OneCallPerMachine` (`StateEngine` is not re-entered), `PollTimerMatchesState`,
`PressureTestOnStoppedCentrifuge`, `ImplementsSequence` (refinement of
`SelfTestSequence`) and `ProgramEnds` (the program ends, and no event hits a
`CANNOT_HAPPEN` entry on the way). `ImplementsSequence` says of every run, those that
start after a cancel included: centrifuge before pressure, one report, and the pressure
test passed in the run that reports it. It says the same of the centrifuge test of a run
that began with no completion queued. `Complete()` cannot tell the completion of a
cancelled run from one of the current run (`SelfTestEngine.cpp:76`), so a run that
began with one queued may skip its own centrifuge test; `MCSelfTestsRestart.cfg` shows
it. The pressure test then still runs beside a stopped centrifuge, because a
completion is sent only after the spin-down.

Properties of `watchdog`: `IdleKeepsAlive` (an alarm never comes while the worker waits
with its timeout; a thread that has exited is another matter, see
`MCWatchdogExit.cfg`) and `HangDetected`.

Properties of `timer`:
- `ListConsistent`: no timer is linked twice, none is destroyed, each enabled one
  is linked, and a disabled one is due to be unlinked.
- `RateBounded`: `fired[t] * m_timeout[t]` never exceeds the time
  since `Start()`, however the passes lag. It bounds the number of expirations, not
  their distance: after a delay a timer may expire at two passes in a row.
- `LateCallsBounded`: after `Stop()` or the destructor the callbacks begin at most
  once more on each thread that processes timers.
- `Serviced`: an expired timer is noticed, unless the program is ended by its
  assertion.

Properties of `asyncwait`:
- `ImplementsBlockingCall`: refinement of `BlockingCall`. The call is open from
  `DispatchAsyncWait()` to its return; its function begins once at most, only while
  the call is open, and the call does not end, by timeout either, before the function
  (`ArgumentsOutliveFunction`); and it succeeds only if the function has returned
  (`SuccessMeansReturned`). These two are consequences, and are proved by themselves too.
- `CallsReturn`: if every call has a timeout each returns, though threads call each
  other in a circle, refuse, exit with messages in their queue, or throw (which
  ends the program).

Properties of `rtosthread`:
- `DoorbellCounts`: on FreeRTOS and ThreadX the semaphore is the number of queued
  messages, but for those on either side of it, and stays within its maximum.
- `ImplementsChannel`: refinement of `PriorityChannel`, on all five kernels. It is
  weaker than `MessageChannel` in two places where the code is: a HIGH message may
  be overtaken by a NORMAL one that was chosen before it came, and an exit may give
  messages up.
- `Progress`: accepted messages start while the worker lives, calls return, and so
  does `ExitThread()`, except from one state, `StuckOnFullLane`.

Properties of `network`:
- `SuccessMeansReceived`: `Status::SUCCESS` and a true `RemoteInvokeWait()` only for
  a number of a message that the peer's transport took in.
- `RetriesBounded`: at most `1 + MaxRetries` transmissions of a message.
- `FailedIsFinal`: a message whose sender was told that it failed is not
  transmitted again.
- `DuplicateOnlyBeyondWindow`: a number is executed again only after `HistorySize`
  others.
- `TrackingEnds`: in the end nothing is pending.

Properties of `delegates`:
- `ListFitsBroadcasts`: iterators of running broadcasts stay within the list, and
  after the last one no reset entry is left.
- `EntriesKeepTheirPlace`: while a `MulticastDelegate` is walked no step moves an entry;
  what is removed is reset in its place, so no target is called twice or passed over.
- `NoCallOnDeadObject`: no target runs on an object that was destroyed before.
- `GateOpens`: the gate of a `TimerDelegate` is shut only while its message exists.

Properties of `databus`:
- `NoUpdateMissed`, `FreshestWins`: at rest a follower has the cached value and all
  values published since it connected; with a guard the one it keeps is the newest.
- `NoEcho`: a value that came in is not sent out.
- `NoPeerSkipped`: a participant that stays attached is reached, whoever leaves.
- `ChannelRecovers` (violated): no value is refused for the state that another one
  left the stream in.

Properties of `allocator`: `OneAllocatorPerSize`, `BlockHasOneOwner`,
`StatisticsBalance`.

Properties of `serialize`: `NothingLost` (a message that the writer accepts and that
arrives whole is read to its end without an error, and each field that both sides
know as it was sent) and `TruncationDetected` (a message that does not arrive whole
sets `failbit`). `NothingLost` makes an exception of objects nested deeper than the
parse stack. And it promises what was sent only for values that the wire can carry
(`Carried`), as the writer accepts two kinds that it cannot: a `char*` whose length with
its terminator does not fit into 16 bits (cut at `msg_serialize.h:573`), and a wide
character above 16 bits where `wchar_t` has four bytes (`WCHAR_SIZE`, lines 540
and 1470). For these too the rest of the message must be read to its end.

Every property has a mutant: an operator beside the one it replaces, marked
`Mutant` in the module and listed in `PROJECT.json`, that breaks the property
the way a plausible error in the code would.

### Findings

`databus_channel`: **a channel does not recover from a value that cannot be
serialized.** The value leaves `failbit` set in the channel's stream;
`Serializer::Write()` empties the stream but does not clear its state, and
`SendSerialized()` (`delegate/DelegateRemote.h:281`) refuses a stream that is not
good before it calls the `Dispatcher`, which is the only one to clear it. Every
later value of the channel is refused, and the error latch of `Participant`
reports it once per topic.

Eight more configurations are kept beside the runs. Each checks one property that
a document or comment suggests and the code does not have; TLC finds the
counterexample in seconds.

| Configuration | Property | What TLC shows |
|---|---|---|
| `MCSelfTestsRepeat.cfg` | `RunsComplete` | `m_speed-- == 0` (`SelfTest/CentrifugeTest.cpp:149`) leaves the speed at -1, and the guard of the next start wants 0: a second run never completes. The program itself starts one. |
| `MCSelfTestsCancel.cfg` | `CancelFails` | `Cancel()` runs on its caller's thread, unlike `Start()`, and its event can be overwritten, although `SelfTestEngine.h:15` says the class is thread-safe. |
| `MCSelfTestsRestart.cfg` | `OwnTestsOnly` | "After all of the tests are done, the state machine transitions to `Completed`" (`README.md:106`). A start after a cancel, while the completion of the cancelled run's centrifuge test is queued: `Complete()` takes it for the new run's, which goes on to the pressure test and to `Completed` without its own centrifuge test. |
| `MCWatchdogExit.cfg` | `ExitRaisesNoAlarm` | `ExitThread()` (`StdlibThread.cpp:174-228`) does not take the thread off the watchdog's list: its heartbeat ages, and the exited thread is reported. |
| `MCWatchdogStart.cfg` | `NoFalseAlarm` | The watchdog timeout is stored after the worker has started; one that was faster waits without a limit and is reported while idle. |
| `MCTimerLimit.cfg` | `FaultOnlyWhenExceeded` | When exactly `MAX_TIMER_EXPIRED` timers have expired and one that has not follows in the list, `ProcessTimers()` ends the program, although all of them fit. |
| `MCAsyncWaitTimed.cfg` | `TimedCallsReturn` | A caller that has timed out takes the message's lock, which the target's thread holds for as long as the function runs. |
| `MCRtosThreadExit.cfg` | `ExitReturns` | `ExitThread()` waits for room in the NORMAL lane without a limit ("This ensures the thread WILL receive it", `FreeRTOSThread.cpp:191`); a worker that sees `m_exit` first leaves the lane full for ever. |

Seen while modelling, not stated as properties:
- kernels but Win32 never reset `m_exit`: a thread created again executes nothing,
  while comments in the Zephyr and ThreadX ports promise reuse;
- `NetworkEngine` over Linux or Windows UDP is answered at a socket it never reads,
  and `NetworkNode` over Zephyr or Netconn UDP never answers: every reliable
  message is retried and times out; remote calls without arguments are
  acknowledged but not executed by the engine;
- `RemoteInvokeWait()` takes the time-out of a first attempt for the end;
- a time-out during a first send whose re-registration is refused leaves its entry
  in the retry store; a wrapped number overwrites and then erases an older entry;
- `std::function` delegates compare by type of target, and two weak delegates of
  destroyed objects are equal, so `-=` may remove another subscriber;
- assigning to a `UnicastDelegate` from its own target, and destroying a
  `TimerDelegate` whose message is queued, use freed memory;
- a subscriber caught by `Reset()` between its lock phases is connected to a signal
  that no publisher uses;
- objects nested deeper than the parse stack are written without an error and end
  the reader; a `char*` of 65,535 bytes or more has its length cut to 16 bits, a
  wide character its value;
- an exhausted static pool in a build with exceptions leaves the allocator's mutex
  locked.

### Bounds

- `stdlibthread`: two producers and the worker as a third caller, three
  messages, limits 0, 1 and 2 and all policies, chosen in `Init`. Two callers
  compete for the place a third frees, a HIGH message overtakes, one handler
  exits the thread, and the thread is created again, as often as anyone likes:
  the messages are the only bound, since each is dispatched once. A limit of 3
  would be reached only by callers that then have nothing left to send. With a
  fourth message the same properties hold for a limit of 2 and the TIMEOUT
  policy, where two callers wait for two places; that instance takes as long as
  all of the others together and is not kept as a run.
- `selftests`: one run as in `main.cpp`, the code's target speed of 5, and up to four
  more starts and cancels at any time in any order: enough for a cancel, a start that
  finds the completion of the cancelled run queued, and the same once more.
  `QueueBound = 2` keeps the timer from
  dispatching to a queue of two or more: one poll waiting while another is
  handled is enough for every stale poll, and the queue itself is unbounded in
  the code.
- `watchdog`: a timeout of ten ticks is one heartbeat per tick; a latency of
  three. `age` is counted to one past the timeout, which is all that a comparison
  with it can tell.
- `timer`: two timers, so that one precedes the other in the list when it is
  unlinked, expires or faults the pass; limits 1 and 2, so that the limit is met
  with timers still to come, and is never met; timeouts of 1 and 2 ticks.
  `MaxTime = 3` lets a timer of one tick fall behind by two deadlines and expire
  again. The run has one processing thread, as the program has. With two of them
  (590,641 states, safety only) and with three timers (1,423,239 states, safety
  only) the properties hold as well; these take too long to be kept.
- `asyncwait`: a client and two workers with three calls: a chain from the client
  through both workers, a circle between the workers, a worker that calls itself,
  two messages in one queue. `MCAsyncWaitTimed.cfg` needs two calls, one without a
  timeout.
- `rtosthread`: two producers and the worker's handlers, one message of high
  priority and one whose handler exits the thread, `MaxLives = 2` since the second
  life is the one that differs. One place per lane, where every second message
  waits, with each policy; two places for an order within a lane.
- `network`: numbers modulo 2. Two messages on all sixteen transports, three on
  Linux UDP under `NetworkNode` (`LongSetups`), where the third has the number of
  the first, which may still be stored or pending, or whose acknowledgement may
  still be under way. One retry, one place in the pending map and in the batch of
  `Process()`, so that both caps are met; a history of one. One message has no
  arguments. `MaxDeliveries = 3` bounds what the peer records.
- `delegates`: fifteen setups, a container and one or two delegates each, timer
  delegates of a closure, a member, a weak member and one that is unbound among them;
  lists of
  two, three slots, two nested calls on a thread, a queue of one. Slots are
  symmetric: nothing orders them.
- `databus`: twelve programs of two threads with up to six calls each; three
  consecutive numbers around the wrap of three bits; two participants' places for
  three participants. `databus_channel` is one of them with a value that the
  serializer refuses.
- `allocator`: two threads and four calls, requests of 1, 3 and 7 bytes with an
  overhead of 2 (three sizes for two places in the table), heap blocks and pools of
  two.
- `serialize`: bytes of 32 values and size fields of one byte; strings to 3,
  containers to 2 and a parse stack of 2, each limit met and exceeded; a `char*` of
  lengths around the one that a size field can hold, alone and inside an object;
  `wchar_t` of one and two bytes with one byte on the wire; every kind of type,
  versions that differ at the outer and the inner level, all pairs of byte orders.

### Fairness

- `stdlibthread`: each caller inside a call, the worker and the owner inside a
  call are weakly fair: threads are scheduled, `m_mutex` is released, handlers
  return, timed waits end. `DispatchWaitAgain` is not fair, and nobody is obliged
  to dispatch, create or exit.
- `selftests`: every thread of the program is weakly fair; the client is only
  inside a call.
- `watchdog`: worker, owner and time are weakly fair, and so is the check:
  `StdlibThread.h:144-147` leaves it to the thread that processes the timers,
  which runs for ever. A handler is not fair: it may hang.
- `timer`: `ProcessTimers()` goes on and is called again and again (the loop of
  the timer thread), and callbacks return. Clients and time are not fair.
- `asyncwait`: waits end when the semaphore is signaled or the timeout is over,
  a caller gets a lock that is free, workers take their messages, and functions
  that are not in a call of their own end. Nobody is obliged to call.

- `rtosthread`: callers inside a call, the worker and the owner inside a call run;
  handlers return; waits with a limit end. Nobody has to dispatch, create or exit.
- `network`: the sending thread inside a send, the timer's thread and the
  receiver's callback run. Nothing is assumed of medium or peer.

`delegates`, `databus`, `allocator` and `serialize` check safety only.

Deadlock is checked in `stdlibthread`, `selftests`, `watchdog` and `timer`, where a
faulted or ended program stutters, which the specifications say explicitly. In
the other runs calls, messages or programs are made once each, and when all are
done nothing is left to do; what must happen before that is a liveness property
there, or a property of the states at rest.

## 4. What is proved

Proofs cover all values of the constants. The assumptions are the `ASSUME`s of the
modules, and three that a theorem states itself. For the worker threads: finitely
many producers, the worker is not one of them, the exit message is not a
delegate's, limits are natural numbers. For the watchdog: a tenth of the timeout
plus the latency fits into the timeout. For the timers: timeouts and limits are
positive and the processing threads finitely many. For the link: its bounds are
positive, and its wirings and transports those of the code. For the data bus: the
calls of the programs have arguments of their types. For the containers: `Fresh` says
of the program's delegates what `MakeDelegate()` returns (bound to an object only if
its class, or the one that a timer delegate is made from, is a member's, gate open, equal to its copy). For the allocator: a header
holds a pointer, the sizes asked for have a power of two above them in `size_t`, and the
static pools differ in size; a second assumption, that powers of two are numbers, only
tells the provers what `^` is.
TLC evaluates each of them in the runs. `Confined`, `Close` and `IncomingOnly`
are explained with the theorems that need them; they hold of the instances that the
runs check.

- `StdlibThreadProofs!TypeCorrect`, `QueueIsBounded`, `ExitThreadDrains`.
  `QueueBounded` and `ExitDrains` are not inductive alone. The inductive
  invariant is `TypeOK /\ CallInv /\ WorkerInv /\ ExitInv /\ ExitDrains /\
  QueueBounded`: a caller past its early test holds a message (`CallInv`); which message
  the worker has in each place, and in which life of the thread it can be there
  (`WorkerInv`); and where the exit message is (`ExitInv`): once `m_exit` is set
  it is the last of the NORMAL lane, or in the worker's hand, or has been taken,
  and nothing is pushed behind it, because the second test of `m_exit` and the
  push are in one critical section. Draining follows: a worker that has taken
  the exit message, or has found the queue empty with `m_exit` set, leaves empty
  lanes. The HIGH lane is empty when the exit message is taken, because the
  worker looks at it first.
- `StdlibThreadProofs!NoWakeupIsLost`: `NoLostWakeup` counts, so its proof does.
  `WakeInv` adds that only blocked callers are notified and that a caller
  blocks only under a limit. Each take frees one place and notifies one more
  caller, while there is one; each push by a notified caller uses up a place
  and its notification together. The cardinalities are those of
  finite sets, hence the assumption on the producers.
- `StdlibThreadProofs!ThreadImplementsChannel`: `Init` maps to the initial
  states of `MessageChannel` and every step to one of its steps or to a stutter.
  To the invariant above it needs that a message is in one place only: callers
  hold different messages (`CallsAreDistinct`) and what is queued, in hand,
  executed, refused or discarded is held by no caller (`OfferedOnce`).
- `WaitProofs!WDTypeCorrect`, `IdleThreadKeepsAlive`. The inductive part is
  `AgeInv`: in a wait with a time limit the heartbeat is no older than the wait
  has lasted plus the lateness of its end, which is at most
  `Heartbeat + Latency`, hence at most the timeout.
- `TimerContainersProofs!TypeCorrect`, `RateIsBounded`, `ListIsConsistent`, for any number of
  timers and of threads that process them. `RateInv` is stronger than
  `RateBounded`: the deadline of an enabled timer is no earlier than `started +
  (fired + 1) * m_timeout`, which holds again after a late pass because the next
  deadline is the old one plus the timeout, or a time after that. `ListInv` adds
  to `ListConsistent` that one thread at a time is in a pass (`OnePass`) and
  that the timers before the cursor of the first loop are enabled
  (`PassedEnabled`), so that `m_timerStopped` may be cleared at its end. The
  lemmas on `RemoveAt` and on pushing at the head carry these through the walk.
- `TimerContainersProofs!LateCallsAreBounded`. `LateInv` says that a pass takes a timer into
  its snapshot once (`OnceEach`), and that the late callbacks of a stopped timer
  and the threads that still owe it one are together no more than the processing
  threads (`LateOf`): a callback turns one into the other, and nothing adds to
  either, since a stopped timer is not taken into a snapshot.
- `WaitProofs!TypeCorrect`, `ArgumentsAreAlive`, `SuccessIsTrue`, for any
  threads and calls. `ArgumentsOutliveFunction` is not inductive: the worker may
  begin the function because the flag is set only while the caller is in the call
  (`FlagMeansCalling`), and the caller may leave because it holds the lock, which
  excludes every worker in the function; `JobTaken` says that a worker in
  `Invoke()` has a message.
- `WaitProofs!DelegateImplementsBlockingCall`. The refinement needs `OnceInv`: a message
  is in one place, once in one queue or in the hands of one worker (`QueuedOnce`,
  `TakenOnce`), and one that is still to be invoked has not run (`RanOnce`). So a
  function that begins has been "unused", and one that ends is nobody else's.
  The abstract call is a function of the caller's phase and its result, the abstract
  function one of the workers' steps; `Return` is a step of the call because the lock
  that it takes keeps the function from running.
- `SelfTestsProofs!TypeCorrect`, `StateEngineNotReentered`, `PollTimerFollowsState`,
  `PressureAfterSpinDown`, `NoEventCannotHappen`, `EngineImplementsSequence`, for any
  target speed, any queue limit and any calls of a client that are `Confined`:
  `Cancel()` is called on the engine's thread, as `main.cpp` and the engine call
  everything. A `Cancel()` on another thread is a second, unlocked caller of
  `StateEngine()`; `MCSelfTestsCancel.cfg` shows what it breaks. One invariant, `Inv`,
  carries all six. `StackOK` lists the few stacks of calls that the engine's thread
  can have, and `EventsOK` says that only the machine of the innermost call has an event
  pending. `EngineOK`, `PressureOK` and `CentrifugeOK` give for each state of a machine
  the event that may be pending, the speed, and whether the poll timer runs and is
  connected. The rest is about runs: `CompleteOK` (one completion is queued at
  most; `OwnPassed`: a run that is its own has passed the centrifuge by then),
  `PassedOK`, `BeforeOK` and `AfterOK` (before the centrifuge has spun down nothing has
  passed and no completion is queued; the speed stays at -1 afterwards, so that the
  centrifuge passes once) and `MainOK`. None of them depends on the order of starts and
  cancels. That no transition map meets CANNOT_HAPPEN then follows state by
  state. In the refinement the passed tests are those since the run began, `answer` is
  the queued completion, and the phase is a function of the states and the queue; each
  action is a step of `SelfTestSequence` or a stutter.
- `RtosThreadProofs!TypeCorrect`, `DoorbellIsExact`, `ThreadImplementsChannel`, on
  all kernels at once.
  `DoorbellInv` has two parts. `Balanced`: the messages in the lanes are the count
  of the semaphore, the callers between putting and giving, and the tokens that
  the worker has taken and not yet used; so a worker that has a token and found
  HIGH empty finds a NORMAL message, and lanes stay within `m_queueSize`.
  `Ended`: the owner deletes the objects only after the worker has given the exit
  semaphore, and a live worker's objects exist.
  The refinement needs two more. `OnceInv`: a message is in one call only and not also in
  the thread, so that the channel has not seen what a caller puts in. `Alive`:
  whoever relies on the thread finds it there (a caller, the worker in its loop, the
  owner in `ExitThread()`), and the owner destroys the queue when the worker has ended or
  is in the handler that asked for it; this is what lets an exit give messages
  up. It holds up to the moment at which the queue is deleted under a caller
  (`undefined`). The channel sees the lanes without exit messages. `WithoutExit` is a
  function by recursion on the place in the lane; what it does to the last and
  to the first message are lemmas, shown for all lengths by the least place at
  which they would fail (`UpTo`). `WorkerSteps` and `ExitSteps` say once for the
  five kernels what a step of the worker and of the owner is.
- `ReliableLinkProofs!TypeCorrect`, `RetriesAreBounded`, `FailedStaysFailed`,
  `DuplicatesAreFarApart`, `SuccessIsReceived`, for any number of messages, any
  width of the sequence number, any limits, and every medium.
  `Budget`: the transmissions of a message, the one that a thread has in its hands
  and the retries left in the store's entry are at most `1 + MaxRetries`. A wrapped
  number overwrites an older entry, which can only lower that message's sum, and
  `Fresh` says that a message that is still to be dispatched has no entry.
  `FinalInv`: a failed message is neither in the store nor in the hands of the
  timer's thread, because a first send that fails erases the entry before it reports, and
  the timer's thread reads only entries whose first send has succeeded.
  `WindowInv`: each slot of the ring holds the number that its age gives, so that
  a number that is not in the ring was last executed `HistorySize` numbers ago.
  `SuccessInv`: what the waiting call and its status are told rests on an
  acknowledgement, and an acknowledgement on a message that the peer has taken in.
  `TypeInv` adds to `Budget` the objects of the transports, through every `Create`, wiring
  and `Close` (`ObjectTypes`), and the cap of the pending map (`LimitTypes`), which holds
  because each of the three places that track a number goes through the same test.
- `DataBusProofs!ShapeHolds`, `NothingMissed`, `FreshestStays`, `PeersAreReached`,
  `NothingEchoes`, for any number of threads, subscribers and participants and any
  programs. `Shape` is what records of several shapes have for a type: which
  fields of a thread are used where it is in its call, and that the Signals,
  channels and participants it names are there. `FollowInv` is the heart of
  `NothingMissed`. Each value published since a subscriber connected, and the cached
  one, is on its way: received, queued for the subscriber's thread (`Has`), in the
  hands of a publisher that has read the Signal and will find the subscriber on
  it (`Coming`), or, for the cached value, in the hands of a thread that is
  connected and is to read the cache (`Caching`). At rest only the first is left. It
  holds because `Subscribe` connects before it reads the cache, and `Publish` stores
  the value before it reads the Signal. `PeersInv`: a publisher walks its own copy of the
  array from the start, so that no removal moves a participant past it.
  `GuardInv`: the guard is the greatest number that came. It needs `Close`: no two
  numbers are half the width apart, which is what the comparison of
  `MonotonicGuard` can tell. `EchoInv`: only values the program makes itself reach
  the outbox. It needs `IncomingOnly`: a process that takes a topic in with
  `AddIncomingTopic` does not relay it (with `AddRelay` sending what came in is
  the point) and publishes values of its own, since the model tells values, not
  messages, apart. That the first entry equal to what is removed is found at all
  is an induction over its place, by the least element of a set of numbers. An
  operation changes of the bus only what `Calm` allows, unless its lemma says
  otherwise: the dispatch, the handlers and the error latches need no case of their own.
- `XAllocatorProofs!OneAllocator`, `OneOwnerEach`, `StatisticsAreRight`, for any
  threads, calls, sizes and pools. `BlockHasOneOwner` and `StatisticsBalance` are not
  inductive. `OneOwner` and `AllOwned` say it once for the four kinds of owner (a free
  list, the program, and the two places in a call), so that each step is a
  change of one block's owner, or of two for the end of `xrealloc()`. A free list is
  found through a header that was read outside the lock: `ThreadOk` says that the
  header of a block in a call does not change, and `HeaderInv` that a block has one
  only while a client or such a call has the block, so that a new block has none. `SizeInv`
  says that the blocks of an Allocator have its size, and `CountInv` that
  `m_blocksInUse` is the number of blocks that carry its id or are about to,
  which makes the count that `Deallocate` lowers positive.
- `TimerContainersProofs!ContainersInvariant`, `WalksStayInTheList`, `BroadcastsMissNoTarget`,
  `TargetsOutliveTheirCalls`, `ClosedGatesOpen`, for any delegates, objects and slots,
  any length of the lists, depth of calls and size of the queue. One invariant,
  `ContainersInv`, carries the four properties.
  `HeapInv`: a slot that something refers to holds a delegate, and the object of a
  delegate that owns one lives. `StackInv` says what an invocation that runs a target
  rests on: a weak pointer is locked, a message owns its clone, and any other target is
  that of the slot in use, which still holds a delegate for the same object. It would
  fail if a slot were used again under an invocation, so `FreeSlots` leaves out what is
  in use without an owner (`Bare`), and once such a slot has been freed the state is
  `Dangling`. `WalkInv`: the nesting count is the number of
  invocations of the thread that the container is confined to, and a reset entry
  implies that the clean-up is due. With it `BroadcastsMissNoTarget` is a look at each
  operation on the list: a step that erases or replaces entries needs the count to be
  zero, or leaves it zero. `UnicastInv` says that an `operator()` of a `UnicastDelegate` that
  has not yet called is the innermost invocation and its list is unchanged.
  `QueueInv`: a caller that waits has one message queued at most, so that the return of
  another's message does not wake it, and a message is sound (`MessageOK`): it owns its
  clone, or it is a timer's and has the target of the `TimerDelegate` in its slot. `SettleStep` says once what the release of slots and
  objects at the end of every step does to all of this; each action then only has to
  say what it refers to and whom it calls.
Each proof has a step per action, and each inductive invariant was first checked
by TLC on the instances above.

Only model-checked:
- all liveness (`Delivered`, `CallsReturn`, `ProgramEnds`, `HangDetected`,
  `Serviced`, `Progress`, `TrackingEnds`): proofs under fairness and about ENABLED
  are out of the prover's reach;
- `NothingLost` and `TruncationDetected`: the reader and the writer of `Serialize`
  are recursive over the type, with RECURSIVE operators, and a proof would be an
  induction over data.

## 5. Plan

What is left, in this order:

1. `DeadlineSubscription`: its timer against the updates of its topic, as a
   composition of `Timer` and `DataBus`.
2. `NetworkEngine::Stop()` against its receive thread and a blocked
   `RemoteInvokeWait()`.
3. The watchdogs of the other kernels' ports, whose checks differ from
   `StdlibThread`'s, and the Qt port, whose queue is Qt's event loop.
4. `xalloc_destroy()` against calls that are still under way.

## 6. Not modelled, and why

- Exceptions in handlers and failed invocations end the program by design;
  `AsyncWait` models what their callers see until then.
- Statistics under `DMQ_DATABUS_TOOLS`, status texts, thread names and priorities,
  logging: no property is about them.
- Memory: lifetimes of event data, and of an object destroyed by its own handler.
  Hazards that rest on them are listed with a note.
- Of the delegates: copies of arguments and return values, which the compiler
  makes; the properties tell apart only whose function runs, where and when.
- The Qt thread port: its queue and its exit are Qt's. The watchdogs of the
  ports in `RtosThread`: the watchdog there only gives waits a time limit.
- Of the transports: framing, CRC, addresses and socket options, and the system
  calls themselves. What reaches `Dispatcher` and the monitors is in `Transports`.
- The adapters of other serializers (MessagePack, cereal, bitsery, RapidJSON,
  nlohmann): calls of libraries that are not in the repository.
- `DeadlineSubscription` and `ThreadMonitor`, which are small users of `Timer`,
  `DataBus` and `Thread`. The first is planned.
- `xalloc_destroy()`, which runs at static destruction when no other thread is
  left, and the guard words of the allocator, which correct clients never
  damage.
- The destructor of `StdlibThread` is `ExitThread()` followed by removal from the
  watchdog list: the first is in `StdlibThread`, the second in `Watchdog`.

To check a module, run TLC on `MC*.tla` with one of the configurations, for
example `tlc -config MCSelfTests.cfg MCSelfTests.tla`; to check the proofs,
`tlapm StdlibThreadProofs.tla`.
