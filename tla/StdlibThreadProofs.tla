------------------------- MODULE StdlibThreadProofs -------------------------
(***************************************************************************)
(* Proofs about StdlibThread, for every number of callers and messages,    *)
(* every queue limit and every policy.                                     *)
(***************************************************************************)
EXTENDS StdlibThread, SequenceTheorems, FiniteSetTheorems, TLAPS

(***************************************************************************)
(* The inductive invariant.                                                *)
(***************************************************************************)
Lanes == queue \in [Lane -> Seq(AnyMessage)]
Size(l) == Len(queue[l])

NoExitMsg(l) == \A i \in 1..Size(l) : queue[l][i] # ExitMsg
ExitMsgLast == \A i \in 1..Size("NORMAL") :
                 queue["NORMAL"][i] = ExitMsg => i = Size("NORMAL")
ExitMsgQueued == \E i \in 1..Size("NORMAL") : queue["NORMAL"][i] = ExitMsg

\* A call in progress has a message.
CallInv == \A p \in Caller : pc[p] # "idle" => arg[p] \in Message

\* Where the worker may be, given its message and its thread.
WorkerInv ==
  /\ job # None <=> worker \in {"running", "exiting"}
  /\ worker = "exiting" => job \in SelfExiting /\ m_exit /\ owner # "joining"
  /\ owner = "creating" => ~m_thread
  /\ ~m_thread => worker \in {"none", "done"}
  /\ m_thread /\ ~m_exit => worker # "done"

\* There is no exit message before ExitThread() is called, and then nothing is
\* queued behind it; while the owner waits, it is queued, or taken last of all.
ExitInv ==
  /\ NoExitMsg("HIGH")
  /\ ExitMsgLast
  /\ ~m_exit => NoExitMsg("NORMAL") /\ job # ExitMsg
  /\ job = ExitMsg => Empty
  /\ ~m_thread /\ m_exit => Empty
  /\ owner = "joining" => m_exit /\ m_thread
  /\ owner = "joining" /\ worker # "done" => ExitMsgQueued \/ job = ExitMsg

Inv == TypeOK /\ CallInv /\ WorkerInv /\ ExitInv /\ ExitDrains /\ QueueBounded

-----------------------------------------------------------------------------
(***************************************************************************)
(* What the operations on the lanes do.                                    *)
(***************************************************************************)
\* The depth of the queue is the sum of two natural numbers.
LEMMA DepthLemma ==
  ASSUME Lanes
  PROVE  /\ \A l \in Lane : Size(l) \in Nat
         /\ \A l \in Lane : queue[l] = <<>> <=> Size(l) = 0
         /\ Depth = Size("HIGH") + Size("NORMAL")
         /\ Depth \in Nat
         /\ Empty <=> Depth = 0
<1>1. \A l \in Lane : Size(l) \in Nat /\ (queue[l] = <<>> <=> Size(l) = 0)
  BY EmptySeq, LenProperties DEF Lanes, Size
<1>2. Depth = Size("HIGH") + Size("NORMAL")
  BY DEF Depth, Size
<1>3. Empty <=> Size("HIGH") = 0 /\ Size("NORMAL") = 0
  BY <1>1 DEF Empty, Lane
<1>4. Size("HIGH") \in Nat /\ Size("NORMAL") \in Nat
  BY <1>1 DEF Lane
<1>5. Depth \in Nat /\ (Empty <=> Depth = 0)
  BY <1>2, <1>3, <1>4
<1> QED
  BY <1>1, <1>2, <1>5

\* push_back() adds one message at the end of one lane.
LEMMA PushBackLemma ==
  ASSUME Lanes, NEW l \in Lane, NEW m \in AnyMessage, PushBack(l, m)
  PROVE  /\ Lanes'
         /\ \A k \in Lane : k # l => queue'[k] = queue[k]
         /\ Size(l)' = Size(l) + 1
         /\ \A i \in 1..Size(l) : queue'[l][i] = queue[l][i]
         /\ queue'[l][Size(l) + 1] = m
         /\ Depth' = Depth + 1
<1>1. /\ queue[l] \in Seq(AnyMessage)
      /\ queue' = [queue EXCEPT ![l] = Append(queue[l], m)]
  BY DEF Lanes, PushBack
<1>2. /\ Append(queue[l], m) \in Seq(AnyMessage)
      /\ Len(Append(queue[l], m)) = Len(queue[l]) + 1
      /\ \A i \in 1..Len(queue[l]) : Append(queue[l], m)[i] = queue[l][i]
      /\ Append(queue[l], m)[Len(queue[l]) + 1] = m
  BY <1>1, AppendProperties
<1>3. /\ queue'[l] = Append(queue[l], m)
      /\ \A k \in Lane : k # l => queue'[k] = queue[k]
      /\ Lanes'
  BY <1>1, <1>2 DEF Lanes
<1>4. /\ Size(l)' = Size(l) + 1
      /\ \A k \in Lane : k # l => Size(k)' = Size(k)
  BY <1>2, <1>3 DEF Size
<1>5. Depth' = Depth + 1
  <2>1. /\ Depth = Size("HIGH") + Size("NORMAL")
        /\ Depth' = Size("HIGH")' + Size("NORMAL")'
        /\ Size("HIGH") \in Nat /\ Size("NORMAL") \in Nat
    BY <1>3, DepthLemma DEF Depth, Size, Lane
  <2> QED
    BY <1>4, <2>1 DEF Lane
<1> QED
  BY <1>2, <1>3, <1>4, <1>5 DEF Size

\* pop_front() takes the first message of one lane off it.
LEMMA PopFrontLemma ==
  ASSUME Lanes, NEW l \in Lane, queue[l] # <<>>,
         queue' = [queue EXCEPT ![l] = Tail(@)]
  PROVE  /\ Lanes'
         /\ \A k \in Lane : k # l => queue'[k] = queue[k]
         /\ Head(queue[l]) = queue[l][1]
         /\ Head(queue[l]) \in AnyMessage
         /\ Size(l) \in Nat \ {0}
         /\ Size(l)' = Size(l) - 1
         /\ \A i \in 1..Size(l)' : queue'[l][i] = queue[l][i + 1]
         /\ Depth' = Depth - 1
<1>1. /\ queue[l] \in Seq(AnyMessage)
      /\ queue' = [queue EXCEPT ![l] = Tail(queue[l])]
  BY DEF Lanes
<1>2. /\ Head(queue[l]) \in AnyMessage
      /\ Tail(queue[l]) \in Seq(AnyMessage)
      /\ Len(Tail(queue[l])) = Len(queue[l]) - 1
      /\ \A i \in 1..Len(Tail(queue[l])) : Tail(queue[l])[i] = queue[l][i + 1]
  BY <1>1, HeadTailProperties
<1>3. /\ Head(queue[l]) = queue[l][1]
      /\ Size(l) \in Nat \ {0}
  BY <1>1, EmptySeq, LenProperties DEF Size
<1>4. /\ queue'[l] = Tail(queue[l])
      /\ \A k \in Lane : k # l => queue'[k] = queue[k]
      /\ Lanes'
  BY <1>1, <1>2 DEF Lanes
<1>5. /\ Size(l)' = Size(l) - 1
      /\ \A k \in Lane : k # l => Size(k)' = Size(k)
      /\ \A i \in 1..Size(l)' : queue'[l][i] = queue[l][i + 1]
  BY <1>2, <1>4 DEF Size
<1>6. Depth' = Depth - 1
  <2>1. /\ Depth = Size("HIGH") + Size("NORMAL")
        /\ Depth' = Size("HIGH")' + Size("NORMAL")'
        /\ Size("HIGH") \in Nat /\ Size("NORMAL") \in Nat
    BY <1>4, DepthLemma DEF Depth, Size, Lane
  <2> QED
    BY <1>5, <2>1 DEF Lane
<1> QED
  BY <1>2, <1>3, <1>4, <1>5, <1>6

\* clear() empties both lanes.
LEMMA ClearLemma ==
  ASSUME Lanes, ClearLanes
  PROVE  /\ Lanes' /\ Empty' /\ Queued \subseteq AnyMessage
         /\ \A l \in Lane : Size(l)' = 0
         /\ Depth' = 0
<1>1. queue' = [l \in Lane |-> <<>>]
  BY DEF ClearLanes
<1>2. <<>> \in Seq(AnyMessage)
  OBVIOUS
<1>3. Lanes' /\ Empty'
  BY <1>1, <1>2 DEF Lanes, Empty, Lane
<1>4. \A l \in Lane : Elements(queue[l]) \subseteq AnyMessage
  BY ElementOfSeq DEF Elements, Lanes
<1>5. \A l \in Lane : Size(l)' = 0
  BY <1>1 DEF Size
<1>6. Depth' = 0
  <2>1. Depth' = Size("HIGH")' + Size("NORMAL")'
    BY DEF Depth, Size
  <2> QED
    BY <1>5, <2>1 DEF Lane
<1> QED
  BY <1>3, <1>4, <1>5, <1>6 DEF Queued, Lane

-----------------------------------------------------------------------------
(***************************************************************************)
(* What the parts that several actions share preserve.                     *)
(***************************************************************************)
queueState == <<m_thread, m_exit, owner, queue, worker, job, MAX_QUEUE_SIZE>>

\* The parts of the invariant that speak of the queue and its worker depend on
\* nothing else.
LEMMA QueueStateLemma ==
  ASSUME WorkerInv, ExitInv, ExitDrains, QueueBounded, UNCHANGED queueState
  PROVE  WorkerInv' /\ ExitInv' /\ ExitDrains' /\ QueueBounded'
BY DEF queueState, WorkerInv, ExitInv, ExitDrains, QueueBounded, NoExitMsg, ExitMsgLast,
       ExitMsgQueued, Size, Empty, Depth

\* A call that returns keeps the types of the callers' variables.
LEMMA ReturnLemma ==
  ASSUME TypeOK, CallInv, NEW p \in Caller, Return(p)
  PROVE  /\ pc' \in [Caller -> {"idle", "checked", "lock", "blocked"}]
         /\ arg' \in [Caller -> Message \cup {None}]
         /\ notified' \subseteq Caller
         /\ CallInv'
BY DEF TypeOK, CallInv, Return

LEMMA RefuseLemma ==
  ASSUME Inv, NEW p \in Caller, pc[p] # "idle", Refuse(p),
         UNCHANGED <<config, lifecycle, job>>
  PROVE  Inv'
<1> USE DEF Inv
<1>1. arg[p] \in Message
  BY DEF CallInv
<1>2. TypeOK' /\ CallInv'
  BY <1>1, ReturnLemma DEF TypeOK, Refuse, config, lifecycle
<1>3. UNCHANGED queueState
  BY DEF queueState, Refuse, config, lifecycle
<1> QED
  BY <1>2, <1>3, QueueStateLemma

\* A push is safe: there is room, nobody exits, and the worker is not done.
LEMMA PushLemma ==
  ASSUME Inv, NEW p \in Caller, pc[p] # "idle", ~m_exit, ~Full, Push(p),
         UNCHANGED <<config, lifecycle, job>>
  PROVE  Inv'
<1> USE DEF Inv
<1>1. PICK m \in Message, l \in Lane : m = arg[p] /\ l = LaneOf(m)
  BY DEF CallInv, LaneOf, Lane
<1>2. m \in AnyMessage /\ m # ExitMsg /\ Lanes
  BY MessageAssumption DEF AnyMessage, Lanes, TypeOK
<1>3. PushBack(l, m) /\ Return(p) /\ NotifyWorker /\ UNCHANGED <<outcome, fault>>
  BY <1>1 DEF Push
<1>4. /\ Lanes'
      /\ \A k \in Lane : k # l => queue'[k] = queue[k]
      /\ Size(l)' = Size(l) + 1
      /\ \A i \in 1..Size(l) : queue'[l][i] = queue[l][i]
      /\ queue'[l][Size(l) + 1] = m
      /\ Depth' = Depth + 1
  BY <1>2, <1>3, PushBackLemma
<1>5. worker' = (IF worker = "asleep" THEN "notified" ELSE worker)
  BY <1>3 DEF NotifyWorker
<1>6. TypeOK' /\ CallInv'
  BY <1>4, <1>5, <1>3, ReturnLemma DEF TypeOK, Lanes, config, lifecycle, outcome
<1>7. WorkerInv'
  BY <1>5 DEF WorkerInv, lifecycle
<1>8. \A k \in Lane : NoExitMsg(k)'
  <2>1. \A k \in Lane : NoExitMsg(k) /\ Size(k) \in Nat
    BY <1>2, DepthLemma DEF ExitInv, Lane
  <2>2. \A k \in Lane : k # l => NoExitMsg(k)'
    BY <1>4, <2>1 DEF NoExitMsg, Size
  <2>3. NoExitMsg(l)'
    BY <1>2, <1>4, <2>1 DEF NoExitMsg
  <2> QED
    BY <2>2, <2>3
<1>9. ExitInv'
  BY <1>5, <1>8 DEF ExitInv, ExitMsgLast, NoExitMsg, Lane, lifecycle
<1>10. ExitDrains'
  BY DEF ExitDrains, ExitInv, lifecycle
<1>11. QueueBounded'
  <2>1. MAX_QUEUE_SIZE > 0 => Depth < MAX_QUEUE_SIZE
    BY <1>2, DepthLemma, ConstructorAssumption DEF Full, TypeOK
  <2> QED
    BY <1>2, <1>4, <2>1, DepthLemma, ConstructorAssumption
       DEF QueueBounded, TypeOK, config, lifecycle
<1> QED
  BY <1>6, <1>7, <1>9, <1>10, <1>11

\* ExitThread() queues the exit message behind all others, and once.
LEMMA RequestExitLemma ==
  ASSUME Inv, ~m_exit, RequestExit
  PROVE  /\ Lanes' /\ m_exit' /\ notified' \subseteq Caller
         /\ NoExitMsg("HIGH")' /\ ExitMsgLast' /\ ExitMsgQueued'
         /\ QueueBounded'
<1> USE DEF Inv
<1>1. Lanes /\ ExitMsg \in AnyMessage /\ "NORMAL" \in Lane
  BY DEF Lanes, AnyMessage, Lane, TypeOK
<1>2. PushBack("NORMAL", ExitMsg)
  BY DEF RequestExit
<1>3. /\ Lanes'
      /\ \A k \in Lane : k # "NORMAL" => queue'[k] = queue[k]
      /\ Size("NORMAL")' = Size("NORMAL") + 1
      /\ \A i \in 1..Size("NORMAL") : queue'["NORMAL"][i] = queue["NORMAL"][i]
      /\ queue'["NORMAL"][Size("NORMAL") + 1] = ExitMsg
      /\ Depth' = Depth + 1
  BY <1>1, <1>2, PushBackLemma
<1>4. \A k \in Lane : Size(k) \in Nat
  BY <1>1, DepthLemma
<1>5. NoExitMsg("HIGH")'
  BY <1>3 DEF ExitInv, NoExitMsg, Size, Lane
<1>6. ExitMsgLast' /\ ExitMsgQueued'
  <2>1. NoExitMsg("NORMAL") /\ Size("NORMAL") \in Nat
    BY <1>4 DEF ExitInv, Lane
  <2> QED
    BY <1>3, <2>1 DEF ExitMsgLast, ExitMsgQueued, NoExitMsg
<1>7. QueueBounded'
  BY <1>1, <1>3, DepthLemma, ConstructorAssumption
     DEF QueueBounded, TypeOK, RequestExit, config
<1>8. notified' \subseteq Caller
  BY DEF RequestExit, NotifyAllCallers, Blocked
<1> QED
  BY <1>3, <1>5, <1>6, <1>7, <1>8 DEF RequestExit

\* The last critical section of ExitThread() leaves no thread and no message.
LEMMA CleanupLemma ==
  ASSUME Inv, Cleanup
  PROVE  /\ Lanes' /\ ~m_thread' /\ Empty' /\ discarded' \subseteq Message
         /\ notified' \subseteq Caller
         /\ NoExitMsg("HIGH")' /\ NoExitMsg("NORMAL")' /\ ExitMsgLast'
         /\ QueueBounded'
<1> USE DEF Inv
<1>1. Lanes /\ ClearLanes
  BY DEF Lanes, TypeOK, Cleanup
<1>2. /\ Lanes' /\ Empty' /\ Queued \subseteq AnyMessage
      /\ Size("HIGH")' = 0 /\ Size("NORMAL")' = 0
      /\ Depth' = 0
  BY <1>1, ClearLemma DEF Lane
<1>3. discarded' \subseteq Message
  BY <1>2 DEF Cleanup, ClearLanes, AnyMessage, TypeOK
<1>4. NoExitMsg("HIGH")' /\ NoExitMsg("NORMAL")' /\ ExitMsgLast'
  BY <1>2 DEF NoExitMsg, ExitMsgLast
<1>5. QueueBounded'
  BY <1>2, ConstructorAssumption DEF QueueBounded, TypeOK, Cleanup, config
<1>6. notified' \subseteq Caller
  BY DEF Cleanup, NotifyAllCallers, Blocked
<1> QED
  BY <1>2, <1>3, <1>4, <1>5, <1>6 DEF Cleanup

\* notify_one() notifies a caller.
LEMMA NotifyOneCallerLemma ==
  ASSUME TypeOK, NotifyOneCaller
  PROVE  notified' \subseteq Caller
BY DEF TypeOK, NotifyOneCaller, Blocked

LEMMA WorkerTakeLemma ==
  ASSUME Inv, WorkerTake
  PROVE  Inv'
<1> USE DEF Inv
<1>1. PICK l \in Lane :
        /\ l = IF queue["HIGH"] # <<>> THEN "HIGH" ELSE "NORMAL"
        /\ queue[l] # <<>>
        /\ job' = Head(queue[l])
        /\ queue' = [queue EXCEPT ![l] = Tail(@)]
  BY DEF WorkerTake, Empty, Lane
<1>2. /\ Lanes /\ AtWait /\ worker' = "running"
      /\ UNCHANGED <<config, lifecycle, callers, fault, outcome>>
      /\ job = None
      /\ m_thread
  BY DEF WorkerTake, Lanes, TypeOK, AtWait, WorkerInv
<1>3. /\ Lanes'
      /\ \A k \in Lane : k # l => queue'[k] = queue[k]
      /\ job' = queue[l][1]
      /\ job' \in AnyMessage
      /\ Size(l) \in Nat \ {0}
      /\ Size(l)' = Size(l) - 1
      /\ \A i \in 1..Size(l)' : queue'[l][i] = queue[l][i + 1]
      /\ Depth' = Depth - 1
  BY <1>1, <1>2, PopFrontLemma
<1>4. TypeOK' /\ CallInv'
  BY <1>2, <1>3, NotifyOneCallerLemma
     DEF WorkerTake, TypeOK, CallInv, Lanes, config, lifecycle, callers, outcome
<1>5. job' # None
  BY <1>3, MessageAssumption DEF AnyMessage
<1>6. WorkerInv'
  BY <1>2, <1>5 DEF WorkerInv, lifecycle
<1>7. \A k \in Lane : NoExitMsg(k) => NoExitMsg(k)'
  <2>1. \A k \in Lane : k # l => (NoExitMsg(k) => NoExitMsg(k)')
    BY <1>3 DEF NoExitMsg, Size
  <2>2. NoExitMsg(l) => NoExitMsg(l)'
    BY <1>3 DEF NoExitMsg
  <2> QED
    BY <2>1, <2>2
<1>8. NoExitMsg(l) => job' # ExitMsg
  BY <1>3 DEF NoExitMsg
<1>9. /\ ExitMsgLast'
      /\ ExitMsgQueued => ExitMsgQueued' \/ job' = ExitMsg
      /\ job' = ExitMsg => Empty'
  <2>1. CASE l = "HIGH"
    <3>1. queue'["NORMAL"] = queue["NORMAL"] /\ job' # ExitMsg
      BY <1>3, <1>8, <2>1 DEF ExitInv, Lane
    <3> QED
      BY <3>1 DEF ExitInv, ExitMsgLast, ExitMsgQueued, Size
  <2>2. CASE l = "NORMAL"
    <3>1. queue["HIGH"] = <<>> /\ queue'["HIGH"] = queue["HIGH"]
      BY <1>1, <1>3, <2>2 DEF Lane
    <3>2. ExitMsgLast'
      BY <1>3, <2>2 DEF ExitInv, ExitMsgLast
    <3>3. ExitMsgQueued => ExitMsgQueued' \/ job' = ExitMsg
      <4>1. SUFFICES ASSUME NEW i \in 1..Size("NORMAL"), queue["NORMAL"][i] = ExitMsg, i # 1
                     PROVE  ExitMsgQueued'
        BY <1>3, <2>2 DEF ExitMsgQueued
      <4>2. i - 1 \in 1..Size("NORMAL")' /\ queue'["NORMAL"][i - 1] = ExitMsg
        BY <1>3, <2>2, <4>1
      <4> QED
        BY <4>2 DEF ExitMsgQueued
    <3>4. job' = ExitMsg => Size("NORMAL")' = 0
      BY <1>3, <2>2 DEF ExitInv, ExitMsgLast
    <3>5. Size("NORMAL")' = 0 => queue'["NORMAL"] = <<>>
      BY <1>3, EmptySeq, LenProperties DEF Lanes, Size, Lane
    <3> QED
      BY <3>1, <3>2, <3>3, <3>4, <3>5 DEF Empty
  <2> QED
    BY <1>1, <2>1, <2>2 DEF Lane
<1>10. ExitInv'
  BY <1>2, <1>3, <1>5, <1>7, <1>8, <1>9, MessageAssumption DEF ExitInv, Lane, lifecycle, AtWait
<1>11. ExitDrains' /\ QueueBounded'
  BY <1>2, <1>3, DepthLemma, ConstructorAssumption
     DEF ExitDrains, QueueBounded, TypeOK, config, lifecycle
<1> QED
  BY <1>4, <1>6, <1>10, <1>11

-----------------------------------------------------------------------------
(***************************************************************************)
(* The invariant holds initially, and every step preserves it.             *)
(***************************************************************************)
LEMMA InitInv == Init => Inv
<1> SUFFICES ASSUME Init PROVE Inv
  OBVIOUS
<1>1. Lanes /\ queue["HIGH"] = <<>> /\ queue["NORMAL"] = <<>>
  BY DEF Init, Lanes, Lane
<1>2. Size("HIGH") = 0 /\ Size("NORMAL") = 0 /\ Depth = 0
  BY <1>1, DepthLemma DEF Empty, Lane
<1>3. TypeOK /\ CallInv
  BY <1>1 DEF Init, TypeOK, CallInv, Lanes
<1>4. WorkerInv /\ ExitDrains
  BY DEF Init, WorkerInv, ExitDrains
<1>5. ExitInv
  BY <1>1, <1>2, MessageAssumption
     DEF Init, ExitInv, NoExitMsg, ExitMsgLast, Empty
<1>6. QueueBounded
  BY <1>2, ConstructorAssumption DEF Init, QueueBounded
<1> QED
  BY <1>3, <1>4, <1>5, <1>6 DEF Inv

\* A step of a caller.
LEMMA CallerInv ==
  ASSUME Inv, NEW p \in Caller,
         \/ \E m \in Message : DispatchDelegate(p, m)
         \/ CallerStep(p)
         \/ DispatchWaitAgain(p)
  PROVE  Inv'
<1> USE DEF Inv
<1>1. CASE \E m \in Message : DispatchDelegate(p, m)
  <2>1. PICK m \in Message : DispatchDelegate(p, m)
    BY <1>1
  <2>2. TypeOK' /\ CallInv'
    BY <2>1 DEF DispatchDelegate, TypeOK, CallInv, config, lifecycle, callers
  <2>3. UNCHANGED queueState
    BY <2>1 DEF DispatchDelegate, queueState, config, lifecycle
  <2> QED
    BY <2>2, <2>3, QueueStateLemma
<1>2. CASE DispatchCheckThread(p)
  <2>1. CASE m_thread
    <3>1. TypeOK' /\ CallInv'
      BY <1>2, <2>1 DEF DispatchCheckThread, TypeOK, CallInv, config, lifecycle, outcome
    <3>2. UNCHANGED queueState
      BY <1>2, <2>1 DEF DispatchCheckThread, queueState, config, lifecycle
    <3> QED
      BY <3>1, <3>2, QueueStateLemma
  <2>2. CASE ~m_thread
    BY <1>2, <2>2, RefuseLemma DEF DispatchCheckThread
  <2> QED
    BY <2>1, <2>2
<1>3. CASE DispatchPush(p)
  BY <1>3, RefuseLemma, PushLemma DEF DispatchPush
<1>4. CASE DispatchDrop(p)
  BY <1>4, RefuseLemma DEF DispatchDrop
<1>5. CASE DispatchFault(p)
  <2>1. TypeOK' /\ CallInv'
    BY <1>5 DEF DispatchFault, TypeOK, CallInv, config, lifecycle, callers, outcome
  <2>2. UNCHANGED queueState
    BY <1>5 DEF DispatchFault, queueState, config, lifecycle
  <2> QED
    BY <2>1, <2>2, QueueStateLemma
<1>6. CASE DispatchWait(p)
  <2>1. CASE m_exit
    BY <1>6, <2>1, RefuseLemma DEF DispatchWait
  <2>2. CASE ~m_exit
    <3>1. TypeOK' /\ CallInv'
      BY <1>6, <2>2 DEF DispatchWait, TypeOK, CallInv, config, lifecycle, outcome
    <3>2. UNCHANGED queueState
      BY <1>6, <2>2 DEF DispatchWait, queueState, config, lifecycle
    <3> QED
      BY <3>1, <3>2, QueueStateLemma
  <2> QED
    BY <2>1, <2>2
<1>7. CASE DispatchResume(p)
  BY <1>7, RefuseLemma, PushLemma DEF DispatchResume
<1>8. CASE DispatchTimeout(p)
  BY <1>8, RefuseLemma DEF DispatchTimeout
<1>9. CASE DispatchWaitAgain(p)
  <2>1. TypeOK' /\ CallInv'
    BY <1>9 DEF DispatchWaitAgain, TypeOK, CallInv, config, lifecycle, callers, outcome
  <2>2. UNCHANGED queueState
    BY <1>9 DEF DispatchWaitAgain, queueState, config, lifecycle
  <2> QED
    BY <2>1, <2>2, QueueStateLemma
<1> QED
  BY <1>1, <1>2, <1>3, <1>4, <1>5, <1>6, <1>7, <1>8, <1>9 DEF CallerStep

\* A step of the worker.
LEMMA WorkerStepInv ==
  ASSUME Inv, WorkerStep
  PROVE  Inv'
<1> USE DEF Inv
<1>1. CASE WorkerStart
  <2> USE <1>1 DEF WorkerStart
  <2>1. TypeOK' /\ CallInv'
    BY DEF TypeOK, CallInv, config, lifecycle, callers, outcome
  <2>2. WorkerInv' /\ ExitInv' /\ ExitDrains' /\ QueueBounded'
    BY DEF WorkerInv, ExitInv, ExitDrains, QueueBounded, NoExitMsg, ExitMsgLast, ExitMsgQueued,
           Size, Empty, Depth, config, lifecycle
  <2> QED
    BY <2>1, <2>2
<1>2. CASE WorkerWait
  <2> USE <1>2 DEF WorkerWait
  <2>1. TypeOK' /\ CallInv'
    BY DEF TypeOK, CallInv, config, lifecycle, callers, outcome
  <2>2. WorkerInv' /\ ExitInv' /\ ExitDrains' /\ QueueBounded'
    BY DEF WorkerInv, ExitInv, ExitDrains, QueueBounded, NoExitMsg, ExitMsgLast, ExitMsgQueued,
           Size, Empty, Depth, config, lifecycle, AtWait
  <2> QED
    BY <2>1, <2>2
<1>3. CASE WorkerTake
  BY <1>3, WorkerTakeLemma
<1>4. CASE WorkerFinish
  <2> USE <1>4 DEF WorkerFinish
  <2>1. TypeOK' /\ CallInv'
    BY DEF TypeOK, CallInv, config, lifecycle, callers
  <2>2. WorkerInv' /\ ExitInv' /\ ExitDrains' /\ QueueBounded'
    BY MessageAssumption
       DEF WorkerInv, ExitInv, ExitDrains, QueueBounded, NoExitMsg, ExitMsgLast, ExitMsgQueued,
           Size, Empty, Depth, config, lifecycle
  <2> QED
    BY <2>1, <2>2
<1>5. CASE WorkerExit
  <2> USE <1>5 DEF WorkerExit
  <2>1. TypeOK' /\ CallInv'
    BY DEF TypeOK, CallInv, config, lifecycle, callers, outcome
  <2>2. WorkerInv' /\ ExitInv' /\ ExitDrains' /\ QueueBounded'
    BY MessageAssumption
       DEF WorkerInv, ExitInv, ExitDrains, QueueBounded, NoExitMsg, ExitMsgLast, ExitMsgQueued,
           Size, Empty, Depth, config, lifecycle
  <2> QED
    BY <2>1, <2>2
<1>6. CASE SelfExit
  <2>1. /\ ~m_exit /\ RequestExit
        /\ worker = "running" /\ worker' = "exiting" /\ job \in SelfExiting
        /\ owner' = owner
    BY <1>6 DEF SelfExit
  <2>2. /\ Lanes' /\ m_exit' /\ notified' \subseteq Caller
        /\ NoExitMsg("HIGH")' /\ ExitMsgLast' /\ ExitMsgQueued'
        /\ QueueBounded'
    BY <2>1, RequestExitLemma
  <2>3. UNCHANGED <<m_thread, job, config, callers, fault, outcome>>
    BY <2>1 DEF RequestExit
  <2>4. TypeOK' /\ CallInv'
    BY <2>1, <2>2, <2>3 DEF RequestExit, TypeOK, CallInv, Lanes, config, callers, outcome
  <2>5. WorkerInv' /\ ExitInv' /\ ExitDrains'
    BY <2>1, <2>2, <2>3, MessageAssumption DEF WorkerInv, ExitInv, ExitDrains
  <2> QED
    BY <2>2, <2>4, <2>5
<1>7. CASE SelfCleanup
  <2>1. /\ Cleanup /\ worker = "exiting" /\ worker' = "done" /\ job' = None
        /\ executed' = executed \cup {job} /\ owner' = owner
    BY <1>7 DEF SelfCleanup
  <2>2. /\ Lanes' /\ ~m_thread' /\ Empty' /\ discarded' \subseteq Message
        /\ notified' \subseteq Caller
        /\ NoExitMsg("HIGH")' /\ NoExitMsg("NORMAL")' /\ ExitMsgLast'
        /\ QueueBounded'
    BY <2>1, CleanupLemma
  <2>3. m_thread' = FALSE /\ UNCHANGED <<m_exit, config, callers, fault, refused>>
    BY <2>1 DEF Cleanup
  <2>4. TypeOK' /\ CallInv'
    BY <2>1, <2>2, <2>3, MessageAssumption
       DEF TypeOK, CallInv, Lanes, config, callers, WorkerInv
  <2>5. WorkerInv' /\ ExitInv' /\ ExitDrains'
    BY <2>1, <2>2, <2>3, MessageAssumption DEF WorkerInv, ExitInv, ExitDrains
  <2> QED
    BY <2>2, <2>4, <2>5
<1> QED
  BY <1>1, <1>2, <1>3, <1>4, <1>5, <1>6, <1>7 DEF WorkerStep

\* A step of the owner.
LEMMA OwnerStepInv ==
  ASSUME Inv, OwnerStep \/ ExitThread \/ CreateThread
  PROVE  Inv'
<1> USE DEF Inv
<1>1. CASE ExitThread
  <2>1. /\ ~m_exit /\ m_thread /\ RequestExit /\ NotifyWorker
        /\ owner = "idle" /\ owner' = "joining"
    BY <1>1 DEF ExitThread
  <2>2. /\ Lanes' /\ m_exit' /\ notified' \subseteq Caller
        /\ NoExitMsg("HIGH")' /\ ExitMsgLast' /\ ExitMsgQueued'
        /\ QueueBounded'
    BY <2>1, RequestExitLemma
  <2>3. /\ UNCHANGED <<m_thread, job, config, callers, fault, outcome>>
        /\ worker' = (IF worker = "asleep" THEN "notified" ELSE worker)
    BY <2>1 DEF RequestExit, NotifyWorker
  <2>4. TypeOK' /\ CallInv'
    BY <2>1, <2>2, <2>3 DEF RequestExit, TypeOK, CallInv, Lanes, config, callers, outcome
  <2>5. WorkerInv' /\ ExitInv' /\ ExitDrains'
    BY <2>1, <2>2, <2>3, MessageAssumption DEF WorkerInv, ExitInv, ExitDrains
  <2> QED
    BY <2>2, <2>4, <2>5
<1>2. CASE ExitThreadDone
  <2>1. /\ Cleanup /\ worker = "done" /\ owner' = "idle"
        /\ UNCHANGED <<worker, job, executed>>
    BY <1>2 DEF ExitThreadDone
  <2>2. /\ Lanes' /\ ~m_thread' /\ Empty' /\ discarded' \subseteq Message
        /\ notified' \subseteq Caller
        /\ NoExitMsg("HIGH")' /\ NoExitMsg("NORMAL")' /\ ExitMsgLast'
        /\ QueueBounded'
    BY <2>1, CleanupLemma
  <2>3. m_thread' = FALSE /\ UNCHANGED <<m_exit, config, callers, fault, refused>>
    BY <2>1 DEF Cleanup
  <2>4. TypeOK' /\ CallInv'
    BY <2>1, <2>2, <2>3 DEF TypeOK, CallInv, Lanes, config, callers
  <2>5. WorkerInv' /\ ExitInv' /\ ExitDrains'
    BY <2>1, <2>2, <2>3, MessageAssumption DEF WorkerInv, ExitInv, ExitDrains
  <2> QED
    BY <2>2, <2>4, <2>5
<1>3. CASE CreateThread
  <2> USE <1>3 DEF CreateThread
  <2>1. TypeOK' /\ CallInv'
    BY DEF TypeOK, CallInv, config, callers, outcome
  <2>2. WorkerInv' /\ ExitDrains'
    BY DEF WorkerInv, ExitDrains
  <2>3. NoExitMsg("NORMAL") /\ Depth \in Nat /\ (Empty <=> Depth = 0) /\ job # ExitMsg
    <3>1. Lanes
      BY DEF Lanes, TypeOK
    <3>2. Depth \in Nat /\ (Empty <=> Depth = 0) /\ (Empty => Size("NORMAL") = 0)
      BY <3>1, DepthLemma DEF Empty, Lane
    <3> QED
      BY <3>2, MessageAssumption DEF WorkerInv, ExitInv, NoExitMsg
  <2>4. ExitInv'
    BY <2>3 DEF ExitInv, NoExitMsg, ExitMsgLast, ExitMsgQueued, Size, Empty
  <2>5. QueueBounded'
    <3>1. MAX_QUEUE_SIZE \in Nat /\ Depth' = Depth /\ UNCHANGED MAX_QUEUE_SIZE
      BY ConstructorAssumption DEF TypeOK, Depth, config
    <3>2. CASE m_exit
      <4>1. Depth = 0
        BY <2>3, <3>2 DEF ExitInv
      <4> QED
        BY <3>1, <4>1 DEF QueueBounded
    <3>3. CASE ~m_exit
      BY <3>1, <3>3 DEF QueueBounded
    <3> QED
      BY <3>2, <3>3
  <2> QED
    BY <2>1, <2>2, <2>4, <2>5
<1>4. CASE CreateThreadSpawn
  <2> USE <1>4 DEF CreateThreadSpawn
  <2>1. TypeOK' /\ CallInv'
    BY DEF TypeOK, CallInv, config, callers, outcome
  <2>2. WorkerInv' /\ ExitInv' /\ ExitDrains' /\ QueueBounded'
    BY DEF WorkerInv, ExitInv, ExitDrains, QueueBounded, NoExitMsg, ExitMsgLast, ExitMsgQueued,
           Size, Empty, Depth, config
  <2> QED
    BY <2>1, <2>2
<1>5. CASE CreateThreadDone
  <2> USE <1>5 DEF CreateThreadDone
  <2>1. TypeOK' /\ CallInv'
    BY DEF TypeOK, CallInv, config, callers, outcome
  <2>2. WorkerInv' /\ ExitInv' /\ ExitDrains' /\ QueueBounded'
    BY DEF WorkerInv, ExitInv, ExitDrains, QueueBounded, NoExitMsg, ExitMsgLast, ExitMsgQueued,
           Size, Empty, Depth, config
  <2> QED
    BY <2>1, <2>2
<1> QED
  BY <1>1, <1>2, <1>3, <1>4, <1>5 DEF OwnerStep

LEMMA NextInv == Inv /\ [Next]_vars => Inv'
<1> SUFFICES ASSUME Inv, [Next]_vars PROVE Inv'
  OBVIOUS
<1>1. CASE Step
  BY <1>1, CallerInv, WorkerStepInv, OwnerStepInv DEF Step
<1>2. CASE UNCHANGED vars
  <2>1. TypeOK' /\ CallInv'
    BY <1>2 DEF Inv, TypeOK, CallInv, vars, config, lifecycle, callers, outcome
  <2>2. UNCHANGED queueState
    BY <1>2 DEF queueState, vars, config, lifecycle
  <2> QED
    BY <2>1, <2>2, QueueStateLemma DEF Inv
<1> QED
  BY <1>1, <1>2 DEF Next

\* Inv is an invariant of the thread.
LEMMA Invariance == Spec => []Inv
BY InitInv, NextInv, PTL DEF Spec

-----------------------------------------------------------------------------
\* Every variable keeps its type, whatever the callers, the worker and the owner of
\* a StdlibThread do.
THEOREM TypeCorrect == Spec => []TypeOK
<1>1. Inv => TypeOK
  BY DEF Inv
<1> QED
  BY <1>1, Invariance, PTL

\* The queue limit holds for every number of callers, every limit and every policy:
\* only the one exit message of ExitThread() exceeds it.
THEOREM QueueIsBounded == Spec => []QueueBounded
<1>1. Inv => QueueBounded
  BY DEF Inv
<1> QED
  BY <1>1, Invariance, PTL

\* ExitThread() finds the lanes empty once the worker has ended, so that it throws
\* away none of the messages that DispatchDelegate() accepted.
THEOREM ExitThreadDrains == Spec => []ExitDrains
<1>1. Inv => ExitDrains
  BY DEF Inv
<1> QED
  BY <1>1, Invariance, PTL

-----------------------------------------------------------------------------
(***************************************************************************)
(* No notification is lost.  A caller counts as notified only while it is  *)
(* blocked, and callers block on a bounded queue only.                     *)
(***************************************************************************)
WakeInv ==
  /\ notified \subseteq Blocked
  /\ Blocked # {} => MAX_QUEUE_SIZE > 0
  /\ NoLostWakeup

\* The callers that m_cvNotFull has notified can be counted.
LEMMA NotifiedIsFinite ==
  ASSUME TypeOK
  PROVE  /\ IsFiniteSet(notified) /\ Cardinality(notified) \in Nat
         /\ Depth \in Nat /\ MAX_QUEUE_SIZE \in Nat
<1>1. IsFiniteSet(Caller)
  BY ThreadAssumption, FS_AddElement DEF Caller
<1>2. IsFiniteSet(notified)
  BY <1>1, FS_Subset DEF TypeOK
<1>3. Depth \in Nat
  BY DepthLemma DEF TypeOK, Lanes
<1> QED
  BY <1>2, <1>3, FS_CardinalityType, ConstructorAssumption DEF TypeOK

\* A caller that is done waits no more, notified or not.
LEMMA ReturnWakes ==
  ASSUME TypeOK, WakeInv, NEW p \in Caller, Return(p)
  PROVE  /\ Blocked' = Blocked \ {p}
         /\ notified' = notified \ {p}
         /\ notified' \subseteq Blocked'
         /\ Cardinality(notified') >= Cardinality(notified) - 1
         /\ p \notin notified => Cardinality(notified') = Cardinality(notified)
<1>1. pc' = [pc EXCEPT ![p] = "idle"] /\ notified' = notified \ {p}
  BY DEF Return
<1>2. Blocked' = Blocked \ {p}
  BY <1>1 DEF Blocked, TypeOK
<1>3. /\ Cardinality(notified') >= Cardinality(notified) - 1
      /\ p \notin notified => Cardinality(notified') = Cardinality(notified)
  <2>1. Cardinality(notified \ {p}) =
          IF p \in notified THEN Cardinality(notified) - 1 ELSE Cardinality(notified)
    BY NotifiedIsFinite, FS_RemoveElement
  <2>2. Cardinality(notified) \in Nat
    BY NotifiedIsFinite
  <2> QED
    BY <1>1, <2>1, <2>2
<1> QED
  BY <1>1, <1>2, <1>3 DEF WakeInv

\* A call is refused on a full queue, on an exiting thread, or before it waited.
LEMMA RefuseWakes ==
  ASSUME TypeOK, WakeInv, NEW p \in Caller, Refuse(p), UNCHANGED <<config, lifecycle>>,
         Full \/ m_exit \/ pc[p] # "blocked"
  PROVE  WakeInv'
<1>1. UNCHANGED <<queue, worker, m_exit, MAX_QUEUE_SIZE>>
  BY DEF Refuse, config, lifecycle
<1>2. /\ Blocked' = Blocked \ {p} /\ notified' = notified \ {p} /\ notified' \subseteq Blocked'
      /\ p \notin notified => Cardinality(notified') = Cardinality(notified)
  BY ReturnWakes DEF Refuse
<1>3. Depth' = Depth /\ (Empty' <=> Empty)
  BY <1>1 DEF Depth, Empty
<1>4. /\ Cardinality(notified) \in Nat /\ Depth \in Nat /\ MAX_QUEUE_SIZE \in Nat
      /\ Cardinality(notified') \in Nat
  BY <1>2, NotifiedIsFinite, FS_RemoveElement, FS_CardinalityType
<1>5. Blocked' \ notified' \subseteq Blocked \ notified
  BY <1>2
<1>6. CASE pc[p] # "blocked"
  <2>1. p \notin Blocked /\ p \notin notified
    BY <1>6 DEF Blocked, WakeInv
  <2> QED
    BY <1>1, <1>2, <1>3, <1>5, <2>1 DEF WakeInv, NoLostWakeup
<1>7. CASE Full
  <2>1. MAX_QUEUE_SIZE - Depth <= 0
    BY <1>4, <1>7 DEF Full
  <2> QED
    BY <1>1, <1>2, <1>3, <1>4, <1>5, <2>1 DEF WakeInv, NoLostWakeup
<1>8. CASE m_exit
  BY <1>1, <1>2, <1>3, <1>5, <1>8 DEF WakeInv, NoLostWakeup
<1> QED
  BY <1>6, <1>7, <1>8

\* A push takes a free place, and its caller off the notified ones, if it was one.
LEMMA PushWakes ==
  ASSUME Inv, WakeInv, NEW p \in Caller, Push(p), pc[p] # "idle", UNCHANGED <<config, lifecycle>>
  PROVE  WakeInv'
<1>1. PICK m \in Message, l \in Lane : m = arg[p] /\ l = LaneOf(m)
  BY DEF Inv, CallInv, LaneOf, Lane
<1>2. Lanes /\ m \in AnyMessage /\ PushBack(l, m) /\ NotifyWorker /\ Return(p)
  BY <1>1 DEF Inv, TypeOK, Lanes, AnyMessage, Push
<1>3. Depth' = Depth + 1
  BY <1>2, PushBackLemma
<1>4. /\ Blocked' = Blocked \ {p} /\ notified' = notified \ {p} /\ notified' \subseteq Blocked'
      /\ Cardinality(notified') >= Cardinality(notified) - 1
  BY <1>2, ReturnWakes DEF Inv
<1>5. /\ Cardinality(notified) \in Nat /\ Depth \in Nat /\ MAX_QUEUE_SIZE \in Nat
      /\ Cardinality(notified') \in Nat
  BY <1>4, NotifiedIsFinite, FS_RemoveElement, FS_CardinalityType DEF Inv
<1>6. worker' # "asleep" /\ UNCHANGED <<m_exit, MAX_QUEUE_SIZE>>
  BY <1>2 DEF NotifyWorker, config, lifecycle
<1>7. Blocked' \ notified' # {} =>
        /\ MAX_QUEUE_SIZE - Depth <= Cardinality(notified)
        /\ ~m_exit
  BY <1>4 DEF WakeInv, NoLostWakeup
<1>8. NoLostWakeup'
  BY <1>3, <1>4, <1>5, <1>6, <1>7 DEF NoLostWakeup
<1> QED
  BY <1>4, <1>6, <1>8 DEF WakeInv

\* A step that moves no message, no caller that waits and no thread.
LEMMA NothingWakes ==
  ASSUME WakeInv, UNCHANGED <<config, m_exit, queue, notified>>, Blocked' = Blocked,
         worker' = "asleep" => worker = "asleep"
  PROVE  WakeInv'
<1>1. Depth' = Depth /\ (Empty' <=> Empty) /\ UNCHANGED MAX_QUEUE_SIZE
  BY DEF Depth, Empty, config
<1> QED
  BY <1>1 DEF WakeInv, NoLostWakeup

\* notify_all() leaves no caller that waits unnotified.
LEMMA AllWake ==
  ASSUME WakeInv, NotifyAllCallers, UNCHANGED <<config, callers>>, worker' # "asleep"
  PROVE  WakeInv'
<1>1. Blocked' = Blocked /\ notified' = Blocked /\ UNCHANGED MAX_QUEUE_SIZE
  BY DEF NotifyAllCallers, Blocked, callers, config
<1> QED
  BY <1>1 DEF WakeInv, NoLostWakeup

LEMMA CallerWakes ==
  ASSUME Inv, WakeInv, NEW p \in Caller,
         \/ \E m \in Message : DispatchDelegate(p, m)
         \/ CallerStep(p)
         \/ DispatchWaitAgain(p)
  PROVE  WakeInv'
<1>1. ASSUME Refuse(p), UNCHANGED <<config, lifecycle>>, Full \/ m_exit \/ pc[p] # "blocked"
      PROVE  WakeInv'
  BY <1>1, RefuseWakes DEF Inv
<1>2. ASSUME Push(p), pc[p] # "idle", UNCHANGED <<config, lifecycle>>
      PROVE  WakeInv'
  BY <1>2, PushWakes
<1>3. ASSUME UNCHANGED <<config, lifecycle, queue, worker, notified>>, Blocked' = Blocked
      PROVE  WakeInv'
  BY <1>3, NothingWakes DEF lifecycle
<1>4. CASE \E m \in Message : DispatchDelegate(p, m)
  <2>1. Blocked' = Blocked
    BY <1>4 DEF DispatchDelegate, Blocked, callers, Inv, TypeOK
  <2> QED
    BY <1>3, <1>4, <2>1 DEF DispatchDelegate
<1>5. CASE DispatchCheckThread(p)
  <2>1. CASE m_thread
    <3>1. Blocked' = Blocked
      BY <1>5, <2>1 DEF DispatchCheckThread, Blocked, Inv, TypeOK
    <3> QED
      BY <1>3, <1>5, <2>1, <3>1 DEF DispatchCheckThread
  <2>2. CASE ~m_thread
    BY <1>1, <1>5, <2>2 DEF DispatchCheckThread
  <2> QED
    BY <2>1, <2>2
<1>6. CASE DispatchPush(p)
  BY <1>1, <1>2, <1>6 DEF DispatchPush
<1>7. CASE DispatchDrop(p)
  BY <1>1, <1>7 DEF DispatchDrop
<1>8. CASE DispatchFault(p)
  <2>1. Blocked' = Blocked
    BY <1>8 DEF DispatchFault, Blocked, callers
  <2> QED
    BY <1>3, <1>8, <2>1 DEF DispatchFault
<1>9. CASE DispatchWait(p)
  <2>1. CASE m_exit
    BY <1>1, <1>9, <2>1 DEF DispatchWait
  <2>2. CASE ~m_exit
    <3>1. /\ Full /\ UNCHANGED <<config, lifecycle, queue, worker, notified>>
          /\ Blocked \subseteq Blocked'
      BY <1>9, <2>2 DEF DispatchWait, Blocked, Inv, TypeOK
    <3>2. /\ Cardinality(notified) \in Nat /\ Depth \in Nat /\ MAX_QUEUE_SIZE \in Nat
          /\ Depth' = Depth /\ (Empty' <=> Empty) /\ UNCHANGED <<MAX_QUEUE_SIZE, m_exit>>
      BY <3>1, NotifiedIsFinite DEF Inv, Depth, Empty, config, lifecycle
    <3>3. MAX_QUEUE_SIZE - Depth <= 0 /\ MAX_QUEUE_SIZE > 0
      BY <3>1, <3>2 DEF Full
    <3> QED
      BY <2>2, <3>1, <3>2, <3>3 DEF WakeInv, NoLostWakeup
  <2> QED
    BY <2>1, <2>2
<1>10. CASE DispatchResume(p)
  BY <1>1, <1>2, <1>10 DEF DispatchResume
<1>11. CASE DispatchTimeout(p)
  BY <1>1, <1>11 DEF DispatchTimeout
<1>12. CASE DispatchWaitAgain(p)
  <2>1. /\ Full /\ ~m_exit /\ UNCHANGED <<config, lifecycle, queue, worker>>
        /\ Blocked' = Blocked /\ notified' = notified \ {p}
    BY <1>12 DEF DispatchWaitAgain, Blocked, callers
  <2>2. /\ Cardinality(notified') \in Nat /\ Depth \in Nat /\ MAX_QUEUE_SIZE \in Nat
        /\ Depth' = Depth /\ (Empty' <=> Empty) /\ UNCHANGED <<MAX_QUEUE_SIZE, m_exit>>
    BY <2>1, NotifiedIsFinite, FS_RemoveElement, FS_CardinalityType
       DEF Inv, Depth, Empty, config, lifecycle
  <2>3. MAX_QUEUE_SIZE - Depth <= 0
    BY <2>1, <2>2 DEF Full
  <2> QED
    BY <2>1, <2>2, <2>3 DEF WakeInv, NoLostWakeup
<1> QED
  BY <1>4, <1>5, <1>6, <1>7, <1>8, <1>9, <1>10, <1>11, <1>12 DEF CallerStep

\* A take frees one place and notifies one caller, if one waits unnotified.
LEMMA TakeWakes ==
  ASSUME Inv, WakeInv, WorkerTake
  PROVE  WakeInv'
<1>1. PICK l \in Lane : queue[l] # <<>> /\ queue' = [queue EXCEPT ![l] = Tail(@)]
  BY DEF WorkerTake, Empty, Lane
<1>2. Depth' = Depth - 1
  BY <1>1, PopFrontLemma DEF Inv, TypeOK, Lanes
<1>3. /\ Blocked' = Blocked /\ worker' # "asleep" /\ NotifyOneCaller
      /\ UNCHANGED <<MAX_QUEUE_SIZE, m_exit>>
  BY DEF WorkerTake, Blocked, callers, config, lifecycle
<1>4. Cardinality(notified) \in Nat /\ Depth \in Nat /\ MAX_QUEUE_SIZE \in Nat
  BY NotifiedIsFinite DEF Inv
<1>5. CASE MAX_QUEUE_SIZE > 0 /\ Blocked \ notified # {}
  <2>1. PICK p \in Blocked \ notified : notified' = notified \cup {p}
    BY <1>3, <1>5 DEF NotifyOneCaller
  <2>2. Cardinality(notified') = Cardinality(notified) + 1
    BY <2>1, NotifiedIsFinite, FS_AddElement DEF Inv
  <2>3. MAX_QUEUE_SIZE - Depth <= Cardinality(notified) /\ ~m_exit
    BY <1>5 DEF WakeInv, NoLostWakeup
  <2> QED
    BY <1>2, <1>3, <1>4, <1>5, <2>1, <2>2, <2>3 DEF WakeInv, NoLostWakeup
<1>6. CASE ~(MAX_QUEUE_SIZE > 0 /\ Blocked \ notified # {})
  <2>1. notified' = notified
    BY <1>3, <1>6 DEF NotifyOneCaller
  <2>2. Blocked' \ notified' = {}
    BY <1>3, <1>6, <2>1 DEF WakeInv
  <2> QED
    BY <1>3, <2>1, <2>2 DEF WakeInv, NoLostWakeup
<1> QED
  BY <1>5, <1>6

LEMMA WorkerWakes ==
  ASSUME Inv, WakeInv, WorkerStep
  PROVE  WakeInv'
<1>1. CASE WorkerStart \/ WorkerFinish \/ WorkerExit
  BY <1>1, NothingWakes
     DEF WorkerStart, WorkerFinish, WorkerExit, Blocked, callers, lifecycle
<1>2. CASE WorkerWait
  <2>1. /\ Empty /\ (worker' = "asleep" => ~m_exit)
        /\ UNCHANGED <<queue, notified, m_exit, MAX_QUEUE_SIZE, pc>>
    BY <1>2 DEF WorkerWait, config, lifecycle, callers
  <2>2. Depth' = Depth /\ Empty' /\ Blocked' = Blocked
    BY <2>1 DEF Depth, Empty, Blocked
  <2> QED
    BY <2>1, <2>2 DEF WakeInv, NoLostWakeup
<1>3. CASE WorkerTake
  BY <1>3, TakeWakes
<1>4. CASE SelfExit
  BY <1>4, AllWake DEF SelfExit, RequestExit
<1>5. CASE SelfCleanup
  BY <1>5, AllWake DEF SelfCleanup, Cleanup
<1> QED
  BY <1>1, <1>2, <1>3, <1>4, <1>5 DEF WorkerStep

LEMMA OwnerWakes ==
  ASSUME Inv, WakeInv, OwnerStep \/ ExitThread \/ CreateThread
  PROVE  WakeInv'
<1>1. CASE ExitThread
  BY <1>1, AllWake DEF ExitThread, RequestExit, NotifyWorker
<1>2. CASE ExitThreadDone
  BY <1>2, AllWake DEF ExitThreadDone, Cleanup
<1>3. CASE CreateThread
  <2>1. /\ worker # "asleep" /\ worker' = worker /\ ~m_exit'
        /\ UNCHANGED <<queue, notified, MAX_QUEUE_SIZE, pc>>
    BY <1>3 DEF CreateThread, config, callers, Inv, WorkerInv
  <2>2. Depth' = Depth /\ Blocked' = Blocked
    BY <2>1 DEF Depth, Blocked
  <2> QED
    BY <2>1, <2>2 DEF WakeInv, NoLostWakeup
<1>4. CASE CreateThreadSpawn \/ CreateThreadDone
  BY <1>4, NothingWakes DEF CreateThreadSpawn, CreateThreadDone, Blocked, callers
<1> QED
  BY <1>1, <1>2, <1>3, <1>4 DEF OwnerStep

LEMMA NextWakes == Inv /\ WakeInv /\ [Next]_vars => WakeInv'
<1> SUFFICES ASSUME Inv, WakeInv, [Next]_vars PROVE WakeInv'
  OBVIOUS
<1>1. CASE Step
  BY <1>1, CallerWakes, WorkerWakes, OwnerWakes DEF Step
<1>2. CASE UNCHANGED vars
  BY <1>2, NothingWakes DEF vars, lifecycle, callers, Blocked
<1> QED
  BY <1>1, <1>2 DEF Next

\* No wake-up of the worker or of a caller is lost, for every number of callers: a
\* worker sleeps on an empty queue only, and callers wait for space only while as many
\* others as there are free places are about to take them.
THEOREM NoWakeupIsLost == Spec => []NoLostWakeup
<1>1. Init => WakeInv
  BY DEF Init, WakeInv, NoLostWakeup, Blocked
<1>2. WakeInv => NoLostWakeup
  BY DEF WakeInv
<1> QED
  BY <1>1, <1>2, Invariance, NextWakes, PTL DEF Spec

-----------------------------------------------------------------------------
(***************************************************************************)
(* StdlibThread implements MessageChannel, for every number of callers and *)
(* messages, every queue limit and every policy.                           *)
(***************************************************************************)
\* The messages that have got past DispatchDelegate().
Accepted == Queued \cup {job} \cup executed \cup discarded

\* A message that is still in a call of DispatchDelegate() is in no other call, and
\* has not been accepted.
CallsAreDistinct ==
  \A p, q \in Caller : p # q /\ arg[p] # None => arg[p] # arg[q]
OfferedOnce == \A p \in Caller : arg[p] # None => arg[p] \notin Accepted

RefinementInv == Inv /\ CallsAreDistinct /\ OfferedOnce

\* The state of the channel.
Pending(l) == WithoutExit(queue[l])
Current == IF job \in Message THEN job ELSE None

-----------------------------------------------------------------------------
(***************************************************************************)
(* What WithoutExit() makes of a lane: the exit message is its last, or is *)
(* not in it.                                                              *)
(***************************************************************************)
ExitLast(s) == \A i \in 1..Len(s) : s[i] = ExitMsg => i = Len(s)
ExitFree(s) == \A i \in 1..Len(s) : s[i] # ExitMsg

LEMMA Prefix ==
  ASSUME NEW s \in Seq(AnyMessage), NEW n \in Nat, n <= Len(s)
  PROVE  /\ SubSeq(s, 1, n) \in Seq(AnyMessage)
         /\ Len(SubSeq(s, 1, n)) = n
         /\ \A i \in 1..n : SubSeq(s, 1, n)[i] = s[i]
<1>1. \A i \in 1..n : s[i] \in AnyMessage
  BY LenProperties, ElementOfSeq
<1>2. /\ SubSeq(s, 1, n) \in Seq(AnyMessage)
      /\ Len(SubSeq(s, 1, n)) = IF 1 <= n THEN n - 1 + 1 ELSE 0
      /\ \A i \in 1..(n - 1 + 1) : SubSeq(s, 1, n)[i] = s[1 + i - 1]
  BY <1>1, SubSeqProperties
<1>3. n - 1 + 1 = n /\ \A i \in 1..n : 1 + i - 1 = i
  OBVIOUS
<1> QED
  BY <1>2, <1>3

LEMMA WithoutNoExit ==
  ASSUME NEW s \in Seq(AnyMessage), ExitFree(s)
  PROVE  WithoutExit(s) = s
<1>1. s # <<>> => Len(s) \in Nat \ {0}
  BY EmptySeq
<1>2. s # <<>> => s[Len(s)] # ExitMsg
  BY <1>1 DEF ExitFree
<1> QED
  BY <1>2 DEF WithoutExit

LEMMA WithoutAppendedExit ==
  ASSUME NEW s \in Seq(AnyMessage), ExitFree(s)
  PROVE  WithoutExit(Append(s, ExitMsg)) = s
<1> DEFINE t == Append(s, ExitMsg)
<1>1. ExitMsg \in AnyMessage /\ Len(s) \in Nat
  BY LenProperties DEF AnyMessage
<1>2. /\ t \in Seq(AnyMessage)
      /\ Len(t) = Len(s) + 1
      /\ \A i \in 1..Len(s) : t[i] = s[i]
      /\ t[Len(s) + 1] = ExitMsg
  BY <1>1, AppendProperties
<1>3. t # <<>>
  BY <1>1, <1>2, EmptySeq
<1>4. WithoutExit(t) = SubSeq(t, 1, Len(s))
  BY <1>1, <1>2, <1>3 DEF WithoutExit
<1>6. /\ SubSeq(t, 1, Len(s)) \in Seq(AnyMessage)
      /\ Len(SubSeq(t, 1, Len(s))) = Len(s)
      /\ \A i \in 1..Len(s) : SubSeq(t, 1, Len(s))[i] = t[i]
  <2> HIDE DEF t
  <2> QED
    BY <1>1, <1>2, Prefix
<1>7. SubSeq(t, 1, Len(s)) = s
  <2> HIDE DEF t
  <2> QED
    BY <1>2, <1>6, SeqEqual
<1> QED
  BY <1>4, <1>7

\* The elements and the length of a lane without its exit message.
LEMMA WithoutExitProperties ==
  ASSUME NEW s \in Seq(AnyMessage), ExitLast(s)
  PROVE  /\ WithoutExit(s) \in Seq(AnyMessage)
         /\ Len(WithoutExit(s)) \in Nat
         /\ Len(WithoutExit(s)) =
              IF s # <<>> /\ s[Len(s)] = ExitMsg THEN Len(s) - 1 ELSE Len(s)
         /\ \A i \in 1..Len(WithoutExit(s)) : WithoutExit(s)[i] = s[i] /\ s[i] # ExitMsg
         /\ Elements(WithoutExit(s)) = Elements(s) \ {ExitMsg}
<1>1. Len(s) \in Nat /\ (s # <<>> => Len(s) \in Nat \ {0})
  BY EmptySeq, LenProperties
<1>2. \A i \in 1..Len(s) : s[i] \in AnyMessage
  BY ElementOfSeq
<1>3. CASE s # <<>> /\ s[Len(s)] = ExitMsg
  <2>1. WithoutExit(s) = SubSeq(s, 1, Len(s) - 1)
    BY <1>3 DEF WithoutExit
  <2>2. \A i \in 1..(Len(s) - 1) : s[i] \in AnyMessage /\ s[i] # ExitMsg
    BY <1>1, <1>2 DEF ExitLast
  <2>3. Len(s) - 1 \in Nat
    BY <1>1, <1>3
  <2>4. /\ WithoutExit(s) \in Seq(AnyMessage)
        /\ Len(WithoutExit(s)) = Len(s) - 1
        /\ \A i \in 1..(Len(s) - 1) : WithoutExit(s)[i] = s[i]
    <3>1. Len(s) - 1 <= Len(s)
      BY <1>1
    <3>2. /\ SubSeq(s, 1, Len(s) - 1) \in Seq(AnyMessage)
          /\ Len(SubSeq(s, 1, Len(s) - 1)) = Len(s) - 1
          /\ \A i \in 1..(Len(s) - 1) : SubSeq(s, 1, Len(s) - 1)[i] = s[i]
      BY <2>3, <3>1, Prefix
    <3> QED
      BY <2>1, <3>2
  <2>5. Elements(WithoutExit(s)) = Elements(s) \ {ExitMsg}
    <3>1. Elements(WithoutExit(s)) = {s[i] : i \in 1..(Len(s) - 1)}
      BY <2>4 DEF Elements
    <3>2. Elements(s) = {s[i] : i \in 1..(Len(s) - 1)} \cup {s[Len(s)]}
      BY <2>3 DEF Elements
    <3> QED
      BY <1>3, <2>2, <3>1, <3>2
  <2> QED
    BY <1>3, <2>2, <2>3, <2>4, <2>5
<1>4. CASE ~(s # <<>> /\ s[Len(s)] = ExitMsg)
  <2>1. WithoutExit(s) = s
    BY <1>4 DEF WithoutExit
  <2>2. \A i \in 1..Len(s) : s[i] # ExitMsg
    BY <1>1, <1>4, EmptySeq DEF ExitLast
  <2>3. Elements(s) = Elements(s) \ {ExitMsg}
    BY <2>2 DEF Elements
  <2> QED
    BY <1>1, <1>4, <2>1, <2>2, <2>3
<1> QED
  BY <1>3, <1>4

\* Taking the exit message off a lane leaves nothing; it was not pending before.
LEMMA WithoutExitTaken ==
  ASSUME NEW s \in Seq(AnyMessage), ExitLast(s), s # <<>>, s[1] = ExitMsg
  PROVE  WithoutExit(s) = <<>> /\ WithoutExit(Tail(s)) = <<>>
<1>1. Len(s) = 1
  <2>1. Len(s) \in Nat \ {0}
    BY EmptySeq
  <2>2. 1 \in 1..Len(s)
    BY <2>1
  <2> QED
    BY <2>2 DEF ExitLast
<1>2. Len(WithoutExit(s)) = 0 /\ WithoutExit(s) \in Seq(AnyMessage)
  BY <1>1, WithoutExitProperties
<1>3. Len(Tail(s)) = 0 /\ Tail(s) \in Seq(AnyMessage)
  BY <1>1, HeadTailProperties
<1>4. Tail(s) = <<>>
  BY <1>3, EmptySeq
<1> QED
  BY <1>2, <1>4, EmptySeq DEF WithoutExit

\* Taking a message off a lane takes it off what is pending.
LEMMA WithoutMessageTaken ==
  ASSUME NEW s \in Seq(AnyMessage), ExitLast(s), s # <<>>, s[1] # ExitMsg
  PROVE  /\ WithoutExit(s) # <<>>
         /\ Head(WithoutExit(s)) = s[1]
         /\ WithoutExit(Tail(s)) = Tail(WithoutExit(s))
<1> DEFINE w == WithoutExit(s)
           t == Tail(s)
<1>1. Len(s) \in Nat \ {0}
  BY EmptySeq
<1>2. /\ t \in Seq(AnyMessage)
      /\ Len(t) = Len(s) - 1
      /\ \A i \in 1..Len(t) : t[i] = s[i + 1]
  BY HeadTailProperties
<1> HIDE DEF t
<1>3. ExitLast(t)
  <2> SUFFICES ASSUME NEW i \in 1..Len(t), t[i] = ExitMsg
               PROVE  i = Len(t)
    BY DEF ExitLast
  <2>1. i + 1 \in 1..Len(s) /\ s[i + 1] = ExitMsg
    BY <1>1, <1>2
  <2>2. i + 1 = Len(s)
    BY <2>1 DEF ExitLast
  <2> QED
    BY <1>1, <1>2, <2>2
<1>4. /\ w \in Seq(AnyMessage)
      /\ Len(w) = IF s[Len(s)] = ExitMsg THEN Len(s) - 1 ELSE Len(s)
      /\ \A i \in 1..Len(w) : w[i] = s[i]
  BY WithoutExitProperties
<1>5. /\ WithoutExit(t) \in Seq(AnyMessage)
      /\ Len(WithoutExit(t)) =
           IF t # <<>> /\ t[Len(t)] = ExitMsg THEN Len(t) - 1 ELSE Len(t)
      /\ \A i \in 1..Len(WithoutExit(t)) : WithoutExit(t)[i] = t[i]
  BY <1>2, <1>3, WithoutExitProperties
<1>6. Len(w) \in Nat \ {0}
  BY <1>1, <1>4
<1>7. w # <<>>
  BY <1>6, EmptySeq
<1>8. Head(w) = s[1]
  BY <1>4, <1>6
<1>9. /\ Tail(w) \in Seq(AnyMessage)
      /\ Len(Tail(w)) = Len(w) - 1
      /\ \A i \in 1..Len(Tail(w)) : Tail(w)[i] = w[i + 1]
  <2> HIDE DEF w
  <2> QED
    BY <1>4, <1>7, HeadTailProperties
<1>10. Len(WithoutExit(t)) = Len(w) - 1
  <2>1. CASE Len(t) = 0
    <3>1. t = <<>> /\ Len(s) = 1
      BY <1>1, <1>2, <2>1, EmptySeq
    <3> QED
      BY <1>4, <1>5, <2>1, <3>1
  <2>2. CASE Len(t) # 0
    <3>1. t # <<>> /\ t[Len(t)] = s[Len(s)]
      BY <1>1, <1>2, <2>2, EmptySeq
    <3> QED
      BY <1>1, <1>2, <1>4, <1>5, <3>1
  <2> QED
    BY <2>1, <2>2
<1>11. \A i \in 1..Len(WithoutExit(t)) : WithoutExit(t)[i] = Tail(w)[i]
  <2> SUFFICES ASSUME NEW i \in 1..Len(WithoutExit(t))
               PROVE  WithoutExit(t)[i] = Tail(w)[i]
    OBVIOUS
  <2>1. i \in 1..Len(t) /\ i \in 1..Len(Tail(w)) /\ i + 1 \in 1..Len(w)
    <3> HIDE DEF w
    <3>1. Len(t) \in Nat /\ (i <= Len(t))
      BY <1>1, <1>2, <1>5, EmptySeq
    <3> QED
      BY <1>6, <1>9, <1>10, <3>1
  <2> QED
    BY <1>2, <1>4, <1>5, <1>9, <2>1
<1> HIDE DEF w
<1>12. WithoutExit(t) = Tail(w)
  BY <1>5, <1>9, <1>10, <1>11, SeqEqual
<1> QED
  BY <1>7, <1>8, <1>12 DEF w, t

-----------------------------------------------------------------------------
(***************************************************************************)
(* The invariant of the refinement.                                        *)
(***************************************************************************)
\* The lanes and what the channel sees of them.
LEMMA PendingLemma ==
  ASSUME Inv
  PROVE  /\ \A l \in Lane : queue[l] \in Seq(AnyMessage) /\ ExitLast(queue[l])
         /\ ExitFree(queue["HIGH"]) /\ Pending("HIGH") = queue["HIGH"]
         /\ \A l \in Lane : Elements(Pending(l)) = Elements(queue[l]) \ {ExitMsg}
<1>1. \A l \in Lane : queue[l] \in Seq(AnyMessage)
  BY DEF Inv, TypeOK
<1>2. ExitFree(queue["HIGH"]) /\ ExitLast(queue["HIGH"]) /\ ExitLast(queue["NORMAL"])
  BY DEF Inv, ExitInv, NoExitMsg, ExitMsgLast, ExitFree, ExitLast, Size
<1>3. Pending("HIGH") = queue["HIGH"]
  BY <1>1, <1>2, WithoutNoExit DEF Lane, Pending
<1>4. \A l \in Lane : Elements(Pending(l)) = Elements(queue[l]) \ {ExitMsg}
  BY <1>1, <1>2, WithoutExitProperties DEF Lane, Pending
<1> QED
  BY <1>1, <1>2, <1>3, <1>4 DEF Lane

\* What is appended to a lane, and what is taken from it.
LEMMA ElementsAppend ==
  ASSUME NEW s \in Seq(AnyMessage), NEW m \in AnyMessage
  PROVE  Elements(Append(s, m)) = Elements(s) \cup {m}
<1>1. /\ Len(s) \in Nat
      /\ Len(Append(s, m)) = Len(s) + 1
      /\ \A i \in 1..Len(s) : Append(s, m)[i] = s[i]
      /\ Append(s, m)[Len(s) + 1] = m
  BY AppendProperties, LenProperties
<1> QED
  BY <1>1 DEF Elements

LEMMA ElementsTail ==
  ASSUME NEW s \in Seq(AnyMessage), s # <<>>
  PROVE  Elements(s) = Elements(Tail(s)) \cup {Head(s)}
<1>1. /\ Len(s) \in Nat \ {0}
      /\ Len(Tail(s)) = Len(s) - 1
      /\ \A i \in 1..(Len(s) - 1) : Tail(s)[i] = s[i + 1]
      /\ Head(s) = s[1]
  BY HeadTailProperties, EmptySeq
<1>2. Elements(Tail(s)) = {s[i + 1] : i \in 1..(Len(s) - 1)}
  BY <1>1 DEF Elements
<1>3. \A i \in 1..Len(s) : i = 1 \/ \E j \in 1..(Len(s) - 1) : i = j + 1
  <2> SUFFICES ASSUME NEW i \in 1..Len(s), i # 1
               PROVE  \E j \in 1..(Len(s) - 1) : i = j + 1
    OBVIOUS
  <2> WITNESS i - 1 \in 1..(Len(s) - 1)
  <2> QED
    BY <1>1
<1>4. \A j \in 1..(Len(s) - 1) : j + 1 \in 1..Len(s)
  BY <1>1
<1>5. Elements(s) \subseteq Elements(Tail(s)) \cup {Head(s)}
  BY <1>1, <1>2, <1>3 DEF Elements
<1>6. Elements(Tail(s)) \subseteq Elements(s)
  BY <1>2, <1>4 DEF Elements
<1>7. Head(s) \in Elements(s)
  BY <1>1 DEF Elements
<1> QED
  BY <1>5, <1>6, <1>7

\* A call that returns gives its message back.
LEMMA ReturnDistinct ==
  ASSUME Inv, CallsAreDistinct, NEW p \in Caller, Return(p)
  PROVE  /\ CallsAreDistinct'
         /\ \A q \in Caller : arg'[q] = IF q = p THEN None ELSE arg[q]
BY DEF Inv, TypeOK, CallsAreDistinct, Return

LEMMA UnchangedRefinement ==
  ASSUME RefinementInv, UNCHANGED <<arg, queue, job, executed, discarded>>
  PROVE  CallsAreDistinct' /\ OfferedOnce'
BY DEF RefinementInv, CallsAreDistinct, OfferedOnce, Accepted, Queued, Elements

LEMMA RefuseRefinement ==
  ASSUME RefinementInv, NEW p \in Caller, Refuse(p), UNCHANGED job
  PROVE  CallsAreDistinct' /\ OfferedOnce'
<1>1. /\ CallsAreDistinct'
      /\ \A q \in Caller : arg'[q] = IF q = p THEN None ELSE arg[q]
  BY ReturnDistinct DEF RefinementInv, Refuse
<1>2. Accepted' = Accepted
  BY DEF Refuse, Accepted, Queued, Elements
<1> QED
  BY <1>1, <1>2 DEF RefinementInv, OfferedOnce

\* A push accepts a message that was not accepted before.
LEMMA PushRefinement ==
  ASSUME RefinementInv, NEW p \in Caller, pc[p] # "idle", Push(p), UNCHANGED job
  PROVE  /\ CallsAreDistinct' /\ OfferedOnce'
         /\ arg[p] \in Message /\ arg[p] \notin Accepted
<1>1. PICK m \in Message, l \in Lane : m = arg[p] /\ l = LaneOf(m)
  BY DEF RefinementInv, Inv, CallInv, LaneOf, Lane
<1>2. m \notin Accepted
  BY <1>1, MessageAssumption DEF RefinementInv, OfferedOnce
<1>3. /\ CallsAreDistinct'
      /\ \A q \in Caller : arg'[q] = IF q = p THEN None ELSE arg[q]
  BY ReturnDistinct DEF RefinementInv, Push
<1>4. Accepted' = Accepted \cup {m}
  <2>1. queue[l] \in Seq(AnyMessage) /\ queue' = [queue EXCEPT ![l] = Append(queue[l], m)]
    BY <1>1, PendingLemma DEF RefinementInv, Push, PushBack
  <2>2. queue \in [Lane -> Seq(AnyMessage)] /\ m \in AnyMessage
    BY DEF RefinementInv, Inv, TypeOK, AnyMessage
  <2>3. Elements(queue'[l]) = Elements(queue[l]) \cup {m}
    BY <2>1, <2>2, ElementsAppend
  <2>4. \A k \in Lane : k # l => queue'[k] = queue[k]
    BY <2>1, <2>2
  <2>5. Queued' = Queued \cup {m}
    BY <2>3, <2>4 DEF Queued, Lane
  <2> QED
    BY <2>5 DEF Push, outcome, Accepted
<1>5. OfferedOnce'
  BY <1>1, <1>3, <1>4 DEF RefinementInv, OfferedOnce, CallsAreDistinct
<1> QED
  BY <1>1, <1>2, <1>3, <1>5

\* The worker takes a message; it is accepted as before.
LEMMA TakeRefinement ==
  ASSUME RefinementInv, WorkerTake
  PROVE  CallsAreDistinct' /\ OfferedOnce'
<1>1. PICK l \in Lane :
        /\ l = IF queue["HIGH"] # <<>> THEN "HIGH" ELSE "NORMAL"
        /\ queue[l] # <<>>
        /\ job' = Head(queue[l])
        /\ queue' = [queue EXCEPT ![l] = Tail(queue[l])]
  BY DEF WorkerTake, Empty, Lane
<1>2. /\ queue \in [Lane -> Seq(AnyMessage)]
      /\ UNCHANGED <<arg, executed, discarded>>
      /\ job = None
  BY DEF RefinementInv, Inv, TypeOK, WorkerTake, WorkerInv, AtWait, callers, outcome
<1>3. /\ Elements(queue[l]) = Elements(queue'[l]) \cup {job'}
      /\ \A k \in Lane : k # l => queue'[k] = queue[k]
  BY <1>1, <1>2, ElementsTail
<1>4. Queued = Queued' \cup {job'}
  BY <1>3 DEF Queued, Lane
<1>5. Accepted' \subseteq Accepted
  BY <1>2, <1>4 DEF Accepted
<1> QED
  BY <1>2, <1>5 DEF RefinementInv, CallsAreDistinct, OfferedOnce

\* A step that accepts nothing and leaves the calls alone preserves both.
LEMMA AcceptNothing ==
  ASSUME RefinementInv, UNCHANGED arg, Accepted' \subseteq Accepted \cup {ExitMsg, None}
  PROVE  CallsAreDistinct' /\ OfferedOnce'
<1>1. \A p \in Caller : arg[p] # None => arg[p] # ExitMsg
  BY MessageAssumption DEF RefinementInv, Inv, TypeOK
<1> QED
  BY <1>1 DEF RefinementInv, CallsAreDistinct, OfferedOnce

\* The exit message is the only one that ExitThread() queues.
LEMMA RequestExitRefinement ==
  ASSUME RefinementInv, RequestExit
  PROVE  CallsAreDistinct' /\ OfferedOnce'
<1>1. /\ queue \in [Lane -> Seq(AnyMessage)] /\ ExitMsg \in AnyMessage
      /\ UNCHANGED <<arg, job, executed, discarded>>
      /\ queue' = [queue EXCEPT !["NORMAL"] = Append(queue["NORMAL"], ExitMsg)]
  BY DEF RefinementInv, Inv, TypeOK, AnyMessage, RequestExit, PushBack, callers, outcome
<1>2. Elements(queue'["NORMAL"]) = Elements(queue["NORMAL"]) \cup {ExitMsg}
  BY <1>1, ElementsAppend DEF Lane
<1>3. queue'["HIGH"] = queue["HIGH"]
  BY <1>1 DEF Lane
<1>4. Queued' = Queued \cup {ExitMsg}
  BY <1>2, <1>3 DEF Queued
<1>5. Accepted' \subseteq Accepted \cup {ExitMsg, None}
  BY <1>1, <1>4 DEF Accepted
<1> QED
  BY <1>1, <1>5, AcceptNothing

\* What ExitThread() throws away was accepted.
LEMMA CleanupRefinement ==
  ASSUME RefinementInv, Cleanup, job' \in {job, None}, executed' \subseteq executed \cup {job}
  PROVE  CallsAreDistinct' /\ OfferedOnce'
<1>1. UNCHANGED arg /\ discarded' \subseteq discarded \cup Queued
  BY DEF Cleanup, ClearLanes, callers
<1>2. Queued' = {}
  BY DEF Cleanup, ClearLanes, Queued, Elements, Lane
<1>3. Accepted' \subseteq Accepted \cup {ExitMsg, None}
  BY <1>1, <1>2 DEF Accepted
<1> QED
  BY <1>1, <1>3, AcceptNothing

LEMMA InitRefinement == Init => RefinementInv
<1> SUFFICES ASSUME Init PROVE RefinementInv
  OBVIOUS
<1>1. CallsAreDistinct /\ OfferedOnce
  BY DEF Init, CallsAreDistinct, OfferedOnce
<1> QED
  BY <1>1, InitInv DEF RefinementInv

LEMMA CallerRefinement ==
  ASSUME RefinementInv, NEW p \in Caller,
         \/ \E m \in Message : DispatchDelegate(p, m)
         \/ CallerStep(p)
         \/ DispatchWaitAgain(p)
  PROVE  CallsAreDistinct' /\ OfferedOnce'
<1>1. ASSUME NEW m \in Message, DispatchDelegate(p, m)
      PROVE  CallsAreDistinct' /\ OfferedOnce'
  <2>1. CASE m_exit
    BY <1>1, <2>1, UnchangedRefinement DEF DispatchDelegate, callers
  <2>2. CASE ~m_exit
    <3>1. /\ m \notin Accepted
          /\ \A q \in Caller : arg[q] # m
          /\ arg' = [arg EXCEPT ![p] = m]
          /\ UNCHANGED <<queue, job, executed, discarded>>
      BY <1>1, <2>2 DEF DispatchDelegate, Sent, Accepted
    <3>2. \A q \in Caller : arg'[q] = IF q = p THEN m ELSE arg[q]
      BY <3>1 DEF RefinementInv, Inv, TypeOK
    <3>3. Accepted' = Accepted
      BY <3>1 DEF Accepted, Queued, Elements
    <3> QED
      BY <3>1, <3>2, <3>3 DEF RefinementInv, CallsAreDistinct, OfferedOnce
  <2> QED
    BY <2>1, <2>2
<1>2. ASSUME UNCHANGED <<arg, queue, job, executed, discarded>>
      PROVE  CallsAreDistinct' /\ OfferedOnce'
  BY <1>2, UnchangedRefinement
<1>3. ASSUME Refuse(p), UNCHANGED job
      PROVE  CallsAreDistinct' /\ OfferedOnce'
  BY <1>3, RefuseRefinement
<1>4. ASSUME Push(p), UNCHANGED job, pc[p] # "idle"
      PROVE  CallsAreDistinct' /\ OfferedOnce'
  BY <1>4, PushRefinement
<1>5. CASE DispatchCheckThread(p)
  BY <1>5, <1>2, <1>3 DEF DispatchCheckThread, outcome
<1>6. CASE DispatchPush(p)
  BY <1>6, <1>3, <1>4 DEF DispatchPush
<1>7. CASE DispatchDrop(p)
  BY <1>7, <1>3 DEF DispatchDrop
<1>8. CASE DispatchFault(p)
  BY <1>8, <1>2 DEF DispatchFault, callers, outcome
<1>9. CASE DispatchWait(p)
  BY <1>9, <1>2, <1>3 DEF DispatchWait, outcome
<1>10. CASE DispatchResume(p)
  BY <1>10, <1>3, <1>4 DEF DispatchResume
<1>11. CASE DispatchTimeout(p)
  BY <1>11, <1>3 DEF DispatchTimeout
<1>12. CASE DispatchWaitAgain(p)
  BY <1>12, <1>2 DEF DispatchWaitAgain, callers, outcome
<1> QED
  BY <1>1, <1>5, <1>6, <1>7, <1>8, <1>9, <1>10, <1>11, <1>12 DEF CallerStep

LEMMA WorkerRefinement ==
  ASSUME RefinementInv, WorkerStep
  PROVE  CallsAreDistinct' /\ OfferedOnce'
<1>1. CASE WorkerStart \/ WorkerWait
  BY <1>1, UnchangedRefinement DEF WorkerStart, WorkerWait, callers, outcome
<1>2. CASE WorkerTake
  BY <1>2, TakeRefinement
<1>3. CASE WorkerFinish \/ WorkerExit
  <2>1. /\ UNCHANGED <<arg, queue, discarded>> /\ job' = None
        /\ executed' \subseteq executed \cup {job}
    BY <1>3 DEF WorkerFinish, WorkerExit, callers, outcome
  <2>2. Accepted' \subseteq Accepted \cup {ExitMsg, None}
    BY <2>1 DEF Accepted, Queued, Elements
  <2> QED
    BY <2>1, <2>2, AcceptNothing
<1>4. CASE SelfExit
  BY <1>4, RequestExitRefinement DEF SelfExit
<1>5. CASE SelfCleanup
  BY <1>5, CleanupRefinement DEF SelfCleanup
<1> QED
  BY <1>1, <1>2, <1>3, <1>4, <1>5 DEF WorkerStep

LEMMA OwnerRefinement ==
  ASSUME RefinementInv, OwnerStep \/ ExitThread \/ CreateThread
  PROVE  CallsAreDistinct' /\ OfferedOnce'
<1>1. CASE ExitThread
  BY <1>1, RequestExitRefinement DEF ExitThread
<1>2. CASE ExitThreadDone
  BY <1>2, CleanupRefinement DEF ExitThreadDone
<1>3. CASE CreateThread \/ CreateThreadSpawn \/ CreateThreadDone
  BY <1>3, UnchangedRefinement
     DEF CreateThread, CreateThreadSpawn, CreateThreadDone, callers, outcome
<1> QED
  BY <1>1, <1>2, <1>3 DEF OwnerStep

LEMMA NextRefinement == RefinementInv /\ [Next]_vars => RefinementInv'
<1> SUFFICES ASSUME RefinementInv, [Next]_vars PROVE RefinementInv'
  OBVIOUS
<1>1. Inv'
  BY NextInv DEF RefinementInv
<1>2. CASE Step
  BY <1>1, <1>2, CallerRefinement, WorkerRefinement, OwnerRefinement DEF Step, RefinementInv
<1>3. CASE UNCHANGED vars
  BY <1>1, <1>3, UnchangedRefinement DEF vars, callers, outcome, RefinementInv
<1> QED
  BY <1>2, <1>3 DEF Next

-----------------------------------------------------------------------------
(***************************************************************************)
(* Every step of the thread is a step of the channel, or leaves it alone.  *)
(***************************************************************************)
\* What is in the channel, in the variables of the thread.
LEMMA ChannelKnown ==
  ASSUME RefinementInv
  PROVE  Channel!Known \subseteq Accepted \cup {None}
<1>1. /\ Channel!Waiting("HIGH") = Elements(Pending("HIGH"))
      /\ Channel!Waiting("NORMAL") = Elements(Pending("NORMAL"))
  BY DEF Channel!Waiting, Pending, Elements, Lane
<1>2. \A l \in Lane : Elements(Pending(l)) \subseteq Elements(queue[l])
  BY PendingLemma DEF RefinementInv
<1> QED
  BY <1>1, <1>2 DEF Channel!Known, Accepted, Queued, Lane

LEMMA Stutter ==
  ASSUME UNCHANGED <<m_exit, executed, discarded>>,
         \A l \in Lane : Pending(l)' = Pending(l),
         Current' = Current
  PROVE  UNCHANGED Channel!channelVars
BY DEF Channel!channelVars, Pending, Current

LEMMA QueueStutter ==
  ASSUME UNCHANGED <<m_exit, queue, job, executed, discarded>>
  PROVE  UNCHANGED Channel!channelVars
BY Stutter DEF Pending, Current, WithoutExit

LEMMA RefuseStutter ==
  ASSUME NEW p \in Caller, Refuse(p), UNCHANGED <<lifecycle, job>>
  PROVE  UNCHANGED Channel!channelVars
BY QueueStutter DEF Refuse, lifecycle

\* The push of DispatchDelegate() accepts the message.
LEMMA PushAccepts ==
  ASSUME RefinementInv, NEW p \in Caller, pc[p] # "idle", ~m_exit, Push(p),
         UNCHANGED <<lifecycle, job>>
  PROVE  Channel!Next
<1>1. PICK m \in Message, l \in Lane : m = arg[p] /\ l = LaneOf(m) /\ m \notin Accepted
  BY PushRefinement DEF LaneOf, Lane
<1>2. m \in AnyMessage /\ m # ExitMsg /\ m # None
  BY <1>1, MessageAssumption DEF AnyMessage
<1>3. queue' = [queue EXCEPT ![l] = Append(queue[l], m)] /\ queue \in [Lane -> Seq(AnyMessage)]
  BY <1>1 DEF Push, PushBack, RefinementInv, Inv, TypeOK
<1>4. ExitFree(queue[l])
  BY <1>2 DEF RefinementInv, Inv, ExitInv, ExitFree, NoExitMsg, Size, Lane
<1>5. Pending(l) = queue[l]
  BY <1>2, <1>3, <1>4, WithoutNoExit DEF Pending
<1>6. Pending(l)' = Append(queue[l], m)
  <2> DEFINE s == Append(queue[l], m)
  <2>1. /\ queue[l] \in Seq(AnyMessage)
        /\ s \in Seq(AnyMessage)
        /\ Len(queue[l]) \in Nat
        /\ Len(s) = Len(queue[l]) + 1
        /\ \A i \in 1..Len(queue[l]) : s[i] = queue[l][i]
        /\ s[Len(queue[l]) + 1] = m
    BY <1>2, <1>3, AppendProperties, LenProperties
  <2>2. queue'[l] = s
    BY <1>2, <1>3
  <2> HIDE DEF s
  <2>3. ExitFree(s)
    BY <1>2, <1>4, <2>1 DEF ExitFree
  <2>4. WithoutExit(s) = s
    BY <2>1, <2>3, WithoutNoExit
  <2> QED
    BY <2>2, <2>4 DEF Pending, s
<1>7. \A k \in Lane : k # l => Pending(k)' = Pending(k)
  BY <1>3 DEF Pending
<1>8. m \notin Channel!Known
  BY <1>1, <1>2, ChannelKnown
<1>9. UNCHANGED <<m_exit, job, executed, discarded>>
  BY DEF Push, lifecycle, outcome
<1>10. [k \in Lane |-> WithoutExit(queue[k])]'
         = [[k \in Lane |-> WithoutExit(queue[k])] EXCEPT ![l] = Append(@, m)]
  BY <1>2, <1>5, <1>6, <1>7 DEF Pending
<1>11. l = Channel!LaneOf(m)
  BY <1>1 DEF LaneOf, Channel!LaneOf
<1>12. Channel!Accept(m)
  BY <1>8, <1>9, <1>10, <1>11 DEF Channel!Accept, Channel!Lane, Lane
<1> QED
  BY <1>1, <1>12 DEF Channel!Next

\* A step of a caller accepts its message, or nothing.
LEMMA CallerImplements ==
  ASSUME RefinementInv, NEW p \in Caller,
         \/ \E m \in Message : DispatchDelegate(p, m)
         \/ CallerStep(p)
         \/ DispatchWaitAgain(p)
  PROVE  [Channel!Next]_Channel!channelVars
<1>1. ASSUME UNCHANGED <<m_exit, queue, job, executed, discarded>>
      PROVE  UNCHANGED Channel!channelVars
  BY <1>1, QueueStutter
<1>2. ASSUME Refuse(p), UNCHANGED <<lifecycle, job>>
      PROVE  UNCHANGED Channel!channelVars
  BY <1>2, RefuseStutter
<1>3. ASSUME Push(p), pc[p] # "idle", ~m_exit, UNCHANGED <<lifecycle, job>>
      PROVE  Channel!Next
  BY <1>3, PushAccepts
<1>4. CASE \E m \in Message : DispatchDelegate(p, m)
  BY <1>4, <1>1 DEF DispatchDelegate, lifecycle
<1>5. CASE DispatchCheckThread(p)
  BY <1>5, <1>1, <1>2 DEF DispatchCheckThread, lifecycle, outcome
<1>6. CASE DispatchPush(p)
  BY <1>6, <1>2, <1>3 DEF DispatchPush
<1>7. CASE DispatchDrop(p)
  BY <1>7, <1>2 DEF DispatchDrop
<1>8. CASE DispatchFault(p)
  BY <1>8, <1>1 DEF DispatchFault, lifecycle, outcome
<1>9. CASE DispatchWait(p)
  BY <1>9, <1>1, <1>2 DEF DispatchWait, lifecycle, outcome
<1>10. CASE DispatchResume(p)
  BY <1>10, <1>2, <1>3 DEF DispatchResume
<1>11. CASE DispatchTimeout(p)
  BY <1>11, <1>2 DEF DispatchTimeout
<1>12. CASE DispatchWaitAgain(p)
  BY <1>12, <1>1 DEF DispatchWaitAgain, lifecycle, outcome
<1> QED
  BY <1>4, <1>5, <1>6, <1>7, <1>8, <1>9, <1>10, <1>11, <1>12 DEF CallerStep

\* The worker starts the first message of a lane, or takes the exit message.
LEMMA TakeImplements ==
  ASSUME RefinementInv, WorkerTake
  PROVE  [Channel!Next]_Channel!channelVars
<1>1. PICK l \in Lane :
        /\ l = IF queue["HIGH"] # <<>> THEN "HIGH" ELSE "NORMAL"
        /\ queue[l] # <<>>
        /\ job' = Head(queue[l])
        /\ queue' = [queue EXCEPT ![l] = Tail(queue[l])]
  BY DEF WorkerTake, Empty, Lane
<1>2. /\ queue \in [Lane -> Seq(AnyMessage)]
      /\ UNCHANGED <<m_exit, executed, discarded>>
      /\ job = None
  BY DEF RefinementInv, Inv, TypeOK, WorkerTake, WorkerInv, AtWait, lifecycle, outcome
<1> DEFINE s == queue[l]
<1>3. s \in Seq(AnyMessage) /\ ExitLast(s) /\ s # <<>>
  BY <1>1, PendingLemma DEF RefinementInv
<1>4. job' = s[1] /\ s[1] \in AnyMessage
  BY <1>1, <1>2, PopFrontLemma DEF Lanes
<1>5. Pending(l) = WithoutExit(s) /\ Pending(l)' = WithoutExit(Tail(s))
  BY <1>1, <1>2 DEF Pending
<1>6. \A k \in Lane : k # l => Pending(k)' = Pending(k)
  BY <1>1, <1>2 DEF Pending
<1>7. Current = None
  BY <1>2, MessageAssumption DEF Current
<1> HIDE DEF s
<1>8. CASE s[1] = ExitMsg
  <2>1. Pending(l)' = Pending(l)
    BY <1>3, <1>5, <1>8, WithoutExitTaken
  <2>2. Current' = Current
    BY <1>4, <1>7, <1>8, MessageAssumption DEF Current
  <2> QED
    BY <1>2, <1>6, <2>1, <2>2, Stutter
<1>9. CASE s[1] # ExitMsg
  <2>1. /\ Pending(l) # <<>>
        /\ Current' = Head(Pending(l))
        /\ Pending(l)' = Tail(Pending(l))
    <3>1. s[1] \in Message
      BY <1>4, <1>9 DEF AnyMessage
    <3> QED
      BY <1>3, <1>4, <1>5, <1>9, <3>1, WithoutMessageTaken DEF Current
  <2>2. l = "NORMAL" => Pending("HIGH") = <<>>
    BY <1>1, PendingLemma DEF RefinementInv
  <2>3. [k \in Lane |-> WithoutExit(queue[k])]'
          = [[k \in Lane |-> WithoutExit(queue[k])] EXCEPT ![l] = Tail(@)]
    BY <1>6, <2>1 DEF Pending
  <2>4. Channel!Start(l)
    BY <1>2, <1>7, <2>1, <2>2, <2>3 DEF Channel!Start, Pending, Current, Lane
  <2> QED
    BY <2>4 DEF Channel!Next, Channel!Lane, Lane
<1> QED
  BY <1>8, <1>9

\* ExitThread() closes the channel, whoever calls it.
LEMMA RequestExitCloses ==
  ASSUME RefinementInv, ~m_exit, RequestExit
  PROVE  Channel!Next
<1>1. /\ queue \in [Lane -> Seq(AnyMessage)]
      /\ UNCHANGED <<job, executed, discarded>>
      /\ m_exit'
      /\ queue' = [queue EXCEPT !["NORMAL"] = Append(queue["NORMAL"], ExitMsg)]
  BY DEF RefinementInv, Inv, TypeOK, RequestExit, PushBack, outcome
<1>2. ExitFree(queue["NORMAL"])
  BY DEF RefinementInv, Inv, ExitInv, ExitFree, NoExitMsg, Size
<1>3. Pending("NORMAL")' = Pending("NORMAL")
  BY <1>1, <1>2, WithoutNoExit, WithoutAppendedExit DEF Pending, Lane
<1>4. Pending("HIGH")' = Pending("HIGH")
  BY <1>1 DEF Pending, Lane
<1>5. [k \in Lane |-> WithoutExit(queue[k])]' = [k \in Lane |-> WithoutExit(queue[k])]
  BY <1>3, <1>4 DEF Pending, Lane
<1>6. Channel!Close
  BY <1>1, <1>5 DEF Channel!Close
<1> QED
  BY <1>6 DEF Channel!Next

\* After clear() nothing is pending.
LEMMA ClearedPending ==
  ASSUME ClearLanes
  PROVE  [k \in Lane |-> WithoutExit(queue[k])]' = [k \in Lane |-> <<>>]
<1>1. \A k \in Lane : queue'[k] = <<>>
  BY DEF ClearLanes
<1>2. WithoutExit(<<>>) = <<>>
  BY DEF WithoutExit
<1> QED
  BY <1>1, <1>2

LEMMA WorkerImplements ==
  ASSUME RefinementInv, WorkerStep
  PROVE  [Channel!Next]_Channel!channelVars
<1>1. CASE WorkerStart \/ WorkerWait
  BY <1>1, QueueStutter DEF WorkerStart, WorkerWait, lifecycle, outcome
<1>2. CASE WorkerTake
  BY <1>2, TakeImplements
<1>3. CASE WorkerFinish
  <2>1. Current = job /\ Current # None /\ Current' = None
    BY <1>3, MessageAssumption DEF WorkerFinish, Current
  <2>2. /\ executed' = executed \cup {job}
        /\ UNCHANGED <<m_exit, queue, discarded>>
    BY <1>3 DEF WorkerFinish, lifecycle
  <2>3. [k \in Lane |-> WithoutExit(queue[k])]' = [k \in Lane |-> WithoutExit(queue[k])]
    BY <2>2 DEF WithoutExit
  <2>4. Channel!Finish
    BY <2>1, <2>2, <2>3 DEF Channel!Finish, Current
  <2> QED
    BY <2>4 DEF Channel!Next
<1>4. CASE WorkerExit
  <2>1. Current' = Current
    BY <1>4, MessageAssumption DEF WorkerExit, Current
  <2>2. UNCHANGED <<m_exit, queue, executed, discarded>>
    BY <1>4 DEF WorkerExit, lifecycle, outcome
  <2>3. \A l \in Lane : Pending(l)' = Pending(l)
    BY <2>2 DEF Pending, WithoutExit
  <2> QED
    BY <2>1, <2>2, <2>3, Stutter
<1>5. CASE SelfExit
  BY <1>5, RequestExitCloses DEF SelfExit
<1>6. CASE SelfCleanup
  <2>1. /\ m_exit /\ m_exit' = m_exit
        /\ job \in SelfExiting
        /\ Cleanup /\ job' = None /\ executed' = executed \cup {job}
    BY <1>6 DEF SelfCleanup, Cleanup, RefinementInv, Inv, WorkerInv
  <2>2. Current = job /\ Current' = None
    BY <2>1, MessageAssumption DEF Current
  <2>3. [k \in Lane |-> WithoutExit(queue[k])]' = [k \in Lane |-> <<>>]
    BY <2>1, ClearedPending DEF Cleanup
  <2>4. discarded' = discarded \cup Elements(Pending("HIGH")) \cup Elements(Pending("NORMAL"))
    <3>1. Queued \ {ExitMsg} = Elements(Pending("HIGH")) \cup Elements(Pending("NORMAL"))
      BY PendingLemma DEF RefinementInv, Queued, Lane
    <3> QED
      BY <2>1, <3>1 DEF Cleanup, ClearLanes
  <2>5. /\ Channel!Waiting("HIGH") = Elements(Pending("HIGH"))
        /\ Channel!Waiting("NORMAL") = Elements(Pending("NORMAL"))
    BY DEF Channel!Waiting, Pending, Elements, Lane
  <2>6. Channel!GiveUp
    BY <2>1, <2>2, <2>3, <2>4, <2>5 DEF Channel!GiveUp, Channel!Lane, Current, Lane
  <2> QED
    BY <2>6 DEF Channel!Next
<1> QED
  BY <1>1, <1>2, <1>3, <1>4, <1>5, <1>6 DEF WorkerStep

\* What is pending when both lanes are empty.
LEMMA EmptyPending ==
  ASSUME Empty
  PROVE  \A l \in Lane : Pending(l) = <<>>
BY DEF Empty, Pending, WithoutExit, Lane

LEMMA OwnerImplements ==
  ASSUME RefinementInv, OwnerStep \/ ExitThread \/ CreateThread
  PROVE  [Channel!Next]_Channel!channelVars
<1>1. CASE ExitThread
  BY <1>1, RequestExitCloses DEF ExitThread
<1>2. CASE ExitThreadDone
  <2>1. Empty /\ Cleanup /\ UNCHANGED <<m_exit, job, executed>>
    BY <1>2 DEF ExitThreadDone, RefinementInv, Inv, ExitDrains, Cleanup
  <2>2. discarded' = discarded
    <3>1. Queued = {}
      BY <2>1 DEF Empty, Queued, Elements
    <3> QED
      BY <2>1, <3>1 DEF Cleanup, ClearLanes
  <2>3. Empty'
    BY <2>1 DEF Cleanup, ClearLanes, Empty, Lane
  <2>4. \A l \in Lane : Pending(l)' = Pending(l)
    BY <2>1, <2>3, EmptyPending DEF Empty, Pending, WithoutExit, Lane
  <2> QED
    BY <2>1, <2>2, <2>4, Stutter DEF Current
<1>3. CASE CreateThread
  <2>1. ~m_thread /\ ~m_exit' /\ UNCHANGED <<queue, job, executed, discarded>>
    BY <1>3 DEF CreateThread, outcome
  <2>2. CASE m_exit
    <3>1. Empty /\ job = None
      BY <2>1, <2>2 DEF RefinementInv, Inv, ExitInv, WorkerInv
    <3>2. \A l \in Lane : Pending(l) = <<>>
      BY <3>1, EmptyPending
    <3>3. Current = None /\ Current' = None
      BY <2>1, <3>1, MessageAssumption DEF Current
    <3>4. [k \in Lane |-> WithoutExit(queue[k])]' = [k \in Lane |-> WithoutExit(queue[k])]
      BY <2>1 DEF WithoutExit
    <3>5. Channel!NothingPending
      BY <3>2 DEF Channel!NothingPending, Channel!Lane, Pending, Lane
    <3>6. Channel!Reopen
      BY <2>1, <2>2, <3>3, <3>4, <3>5 DEF Channel!Reopen, Current
    <3> QED
      BY <3>6 DEF Channel!Next
  <2>3. CASE ~m_exit
    <3>1. m_exit' = m_exit
      BY <1>3, <2>3 DEF CreateThread, RefinementInv, Inv, TypeOK
    <3> QED
      BY <2>1, <3>1, QueueStutter
  <2> QED
    BY <2>2, <2>3
<1>4. CASE CreateThreadSpawn \/ CreateThreadDone
  BY <1>4, QueueStutter DEF CreateThreadSpawn, CreateThreadDone, outcome
<1> QED
  BY <1>1, <1>2, <1>3, <1>4 DEF OwnerStep

LEMMA StepImplements ==
  RefinementInv /\ [Next]_vars => [Channel!Next]_Channel!channelVars
<1> SUFFICES ASSUME RefinementInv, [Next]_vars
             PROVE  [Channel!Next]_Channel!channelVars
  OBVIOUS
<1>1. CASE Step
  BY <1>1, CallerImplements, WorkerImplements, OwnerImplements DEF Step
<1>2. CASE UNCHANGED vars
  BY <1>2, QueueStutter DEF vars, lifecycle, outcome
<1> QED
  BY <1>1, <1>2 DEF Next

LEMMA InitImplements == Init => Channel!Init
<1> SUFFICES ASSUME Init PROVE Channel!Init
  OBVIOUS
<1>1. \A l \in Lane : Pending(l) = <<>>
  BY EmptyPending DEF Init, Empty, Lane
<1> QED
  BY <1>1, MessageAssumption DEF Init, Channel!Init, Channel!Lane, Pending, Lane

\* StdlibThread implements MessageChannel, whatever the callers, the worker and the owner
\* do: each accepted message starts once, by priority and then in the order of acceptance,
\* ExitThread() closes the channel at once, and nothing accepted is given up but by a
\* handler that exits its own thread.
THEOREM ThreadImplementsChannel == Spec => ImplementsChannel
<1>1. Init /\ [][Next]_vars => []RefinementInv
  BY InitRefinement, NextRefinement, PTL
<1> QED
  BY <1>1, InitImplements, StepImplements, PTL DEF Spec, ImplementsChannel, Channel!Spec
=============================================================================
