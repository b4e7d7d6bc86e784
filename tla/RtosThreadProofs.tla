-------------------------- MODULE RtosThreadProofs --------------------------
(***************************************************************************)
(* Proofs about RtosThread, for every number of callers and messages,      *)
(* every capacity, policy and number of lives, on every kernel.            *)
(***************************************************************************)
EXTENDS RtosThread, SequenceTheorems, FiniteSetTheorems, WellFoundedInduction, TLAPS

(***************************************************************************)
(* The inductive invariant.                                                *)
(***************************************************************************)
Lanes == lanes \in [Lane -> Seq(AnyMessage)]
Size(l) == Len(lanes[l])
Ringing == {p \in Caller : pc[p] = "ring"}

\* What is being sent, and what a handler that exits its thread handles, is a
\* delegate message.
Args == \A p \in Caller : pc[p] \in {"send", "blocked"} => arg[p] \in Message
ExitedJob == worker = "exited" => job \in Message

TypeInv == TypeOK /\ Args /\ ExitedJob

\* The doorbell counts what waits, and the worker's second look is not in vain.
Balanced ==
  /\ Depth = countSem + Cardinality(Ringing)
             + Pending(owner = "ringing") + Pending(worker \in {"high", "normal"})
  /\ worker = "normal" => lanes["NORMAL"] # <<>>
  /\ \A l \in Lane : Size(l) <= m_queueSize

\* Only an ended worker gives its exit semaphore, and the owner deletes the queue
\* of such a worker only; a handler that dispatches keeps its worker running.
Ended ==
  /\ owner = "cleanup" => worker = "done" /\ exitSem = 0
  /\ exitSem = 1 => worker = "done" /\ created
  /\ worker \notin {"none", "exited", "done"} => created
  /\ pc[Worker] # "idle" => worker = "running" /\ job \in Message

Doorbell == port \in DoorbellPorts /\ ~undefined
DoorbellInv == Doorbell => Balanced /\ Ended

-----------------------------------------------------------------------------
(***************************************************************************)
(* What the operations on the lanes do.                                    *)
(***************************************************************************)
\* The lanes have sizes, which add up to the depth.
LEMMA SizeLemma ==
  ASSUME Lanes
  PROVE  /\ \A l \in Lane : Size(l) \in Nat
         /\ \A l \in Lane : lanes[l] = <<>> <=> Size(l) = 0
         /\ Depth = Size("HIGH") + Size("NORMAL")
         /\ Depth \in Nat
<1>1. \A l \in Lane : Size(l) \in Nat /\ (lanes[l] = <<>> <=> Size(l) = 0)
  BY EmptySeq, LenProperties DEF Lanes, Size
<1>2. Depth = Size("HIGH") + Size("NORMAL")
  BY DEF Depth, Size
<1>3. Depth \in Nat
  BY <1>1, <1>2 DEF Lane
<1> QED
  BY <1>1, <1>2, <1>3

\* A message put at the end of a lane.
LEMMA PushLemma ==
  ASSUME Lanes, NEW l \in Lane, NEW m \in AnyMessage, PushBack(l, m)
  PROVE  /\ Lanes'
         /\ \A k \in Lane : k # l => lanes'[k] = lanes[k]
         /\ lanes'[l] # <<>>
         /\ Size(l)' = Size(l) + 1
         /\ \A k \in Lane : k # l => Size(k)' = Size(k)
         /\ Depth' = Depth + 1
<1>1. lanes' = [lanes EXCEPT ![l] = Append(@, m)]
  BY DEF PushBack
<1>2. lanes'[l] = Append(lanes[l], m) /\ lanes[l] \in Seq(AnyMessage)
  BY <1>1 DEF Lanes
<1>3. lanes'[l] \in Seq(AnyMessage) /\ Len(lanes'[l]) = Len(lanes[l]) + 1 /\ lanes'[l] # <<>>
  BY <1>2, AppendProperties
<1>4. \A k \in Lane : k # l => lanes'[k] = lanes[k]
  BY <1>1 DEF Lanes
<1>5. Lanes'
  BY <1>1, <1>2, <1>3, <1>4 DEF Lanes
<1>6. Size(l)' = Size(l) + 1 /\ \A k \in Lane : k # l => Size(k)' = Size(k)
  BY <1>3, <1>4 DEF Size
<1>7. Depth' = Depth + 1
  <2>1. Depth' = Size("HIGH")' + Size("NORMAL")'
    BY DEF Depth, Size
  <2>2. l = "HIGH" \/ l = "NORMAL"
    BY DEF Lane
  <2> QED
    BY <2>1, <2>2, <1>6, SizeLemma DEF Lane
<1> QED
  BY <1>3, <1>4, <1>5, <1>6, <1>7

\* The worker takes the first message of a lane.
LEMMA TakeLemma ==
  ASSUME Lanes, NEW l \in Lane, lanes[l] # <<>>, TakeFrom(l)
  PROVE  /\ Lanes'
         /\ job' \in AnyMessage
         /\ worker' = "running"
         /\ Size(l)' = Size(l) - 1
         /\ \A k \in Lane : k # l => Size(k)' = Size(k)
         /\ Depth' = Depth - 1
<1>1. lanes' = [lanes EXCEPT ![l] = Tail(@)] /\ job' = Head(lanes[l]) /\ worker' = "running"
  BY DEF TakeFrom
<1>2. lanes'[l] = Tail(lanes[l]) /\ lanes[l] \in Seq(AnyMessage)
  BY <1>1 DEF Lanes
<1>3. /\ lanes'[l] \in Seq(AnyMessage)
      /\ Len(lanes'[l]) = Len(lanes[l]) - 1
      /\ Head(lanes[l]) \in AnyMessage
  BY <1>2, HeadTailProperties
<1>4. \A k \in Lane : k # l => lanes'[k] = lanes[k]
  BY <1>1 DEF Lanes
<1>5. Lanes'
  BY <1>1, <1>2, <1>3, <1>4 DEF Lanes
<1>6. Size(l)' = Size(l) - 1 /\ \A k \in Lane : k # l => Size(k)' = Size(k)
  BY <1>3, <1>4 DEF Size
<1>7. Depth' = Depth - 1
  <2>1. Depth' = Size("HIGH")' + Size("NORMAL")'
    BY DEF Depth, Size
  <2>2. l = "HIGH" \/ l = "NORMAL"
    BY DEF Lane
  <2> QED
    BY <2>1, <2>2, <1>6, SizeLemma DEF Lane
<1> QED
  BY <1>1, <1>3, <1>5, <1>6, <1>7

\* The lanes emptied.
LEMMA ClearLemma ==
  ASSUME lanes' = [l \in Lane |-> <<>>]
  PROVE  Lanes' /\ Depth' = 0 /\ \A l \in Lane : Size(l)' = 0
<1>1. \A l \in Lane : lanes'[l] = <<>>
  OBVIOUS
<1>2. Lanes'
  BY <1>1, EmptySeq DEF Lanes
<1>3. \A l \in Lane : Size(l)' = 0
  BY <1>1, EmptySeq DEF Size
<1>4. Depth' = 0
  <2>1. Depth' = Size("HIGH")' + Size("NORMAL")'
    BY DEF Depth, Size
  <2> QED
    BY <2>1, <1>3 DEF Lane
<1> QED
  BY <1>2, <1>3, <1>4

\* What is thrown away are delegate messages.
LEMMA QueuedLemma ==
  ASSUME Lanes
  PROVE  Queued \subseteq Message
<1>1. ASSUME NEW l \in Lane
      PROVE  Elements(lanes[l]) \subseteq AnyMessage
  <2>1. lanes[l] \in Seq(AnyMessage)
    BY DEF Lanes
  <2> QED
    BY <2>1, ElementOfSeq DEF Elements
<1>2. Elements(lanes["HIGH"]) \subseteq AnyMessage /\ Elements(lanes["NORMAL"]) \subseteq AnyMessage
  BY <1>1 DEF Lane
<1> QED
  BY <1>2 DEF Queued, AnyMessage

-----------------------------------------------------------------------------
(***************************************************************************)
(* The callers that have yet to give the doorbell.                         *)
(***************************************************************************)
LEMMA RingingIsFinite ==
  IsFiniteSet(Ringing) /\ Cardinality(Ringing) \in Nat
<1>1. IsFiniteSet(Caller)
  BY ThreadAssumption, FS_AddElement DEF Caller
<1>2. Ringing \in SUBSET Caller
  BY DEF Ringing
<1> QED
  BY <1>1, <1>2, FS_Subset, FS_CardinalityType

CallerMoves(p, s) ==
  pc \in [Caller -> {"idle", "send", "blocked", "ring"}] /\ pc' = [pc EXCEPT ![p] = s]

\* A caller that moves changes the set by itself, if at all.
LEMMA StartsRinging ==
  ASSUME NEW p \in Caller, CallerMoves(p, "ring"), pc[p] # "ring"
  PROVE  Cardinality(Ringing') = Cardinality(Ringing) + 1
<1>1. Ringing' = Ringing \cup {p} /\ p \notin Ringing
  BY DEF CallerMoves, Ringing
<1> QED
  BY <1>1, RingingIsFinite, FS_AddElement

LEMMA StopsRinging ==
  ASSUME NEW p \in Caller, CallerMoves(p, "idle"), pc[p] = "ring"
  PROVE  Cardinality(Ringing') = Cardinality(Ringing) - 1
<1>1. Ringing' = Ringing \ {p} /\ p \in Ringing
  BY DEF CallerMoves, Ringing
<1> QED
  BY <1>1, RingingIsFinite, FS_RemoveElement

LEMMA RingsNot ==
  ASSUME NEW p \in Caller, NEW s \in {"idle", "send", "blocked"}, CallerMoves(p, s),
         pc[p] # "ring"
  PROVE  Ringing' = Ringing
BY DEF CallerMoves, Ringing

-----------------------------------------------------------------------------
(***************************************************************************)
(* What a step of a caller is, on any kernel.                              *)
(***************************************************************************)
Blocks(p) ==
  /\ pc[p] = "send"
  /\ pc' = [pc EXCEPT ![p] = "blocked"]
  /\ UNCHANGED <<arg, queue, outcome, stopped>>

CallerStep(p) ==
  \/ \E m \in Message : Call(p, m) /\ (BeginDispatch(p, m) \/ RefuseAtOnce(m))
  \/ FaultStops
  \/ pc[p] \in {"send", "blocked"} /\ Refuse(p)
  \/ Blocks(p)
  \/ \E after \in {"idle", "ring"} : Put(p, after) /\ (port \in DoorbellPorts => after = "ring")
  \/ Ring(p)

\* Every kernel's DispatchDelegate() is one of these.
LEMMA CallerSteps ==
  ASSUME NEW p \in Caller, DispatchDelegate(p)
  PROVE  CallerStep(p) /\ UNCHANGED <<config, lifecycle, exitSem, worker, job>>
<1>1. UNCHANGED <<config, lifecycle, exitSem, worker, job>>
  BY DEF DispatchDelegate
<1> SUFFICES CallerStep(p)
  BY <1>1
<1>2. ASSUME NEW m \in Message, DispatchIfCreated(p, m) \/ DispatchAssertCreated(p, m)
      PROVE  CallerStep(p)
  BY <1>2 DEF DispatchIfCreated, DispatchAssertCreated, CallerStep
<1>3. ASSUME SendFails(p)
      PROVE  CallerStep(p)
  BY <1>3 DEF SendFails, CallerStep, Blocks
<1>4. ASSUME SendTimesOut(p)
      PROVE  CallerStep(p)
  BY <1>4 DEF SendTimesOut, CallerStep
<1>5. CASE FreeRTOSDispatchDelegate(p)
  BY <1>2, <1>3, <1>4, <1>5 DEF FreeRTOSDispatchDelegate
<1>6. CASE ThreadXDispatchDelegate(p)
  BY <1>2, <1>3, <1>4, <1>6 DEF ThreadXDispatchDelegate
<1>7. CASE ZephyrDispatchDelegate(p)
  BY <1>2, <1>3, <1>4, <1>7 DEF ZephyrDispatchDelegate
<1>8. CASE CmsisDispatchDelegate(p)
  BY <1>2, <1>3, <1>4, <1>8 DEF CmsisDispatchDelegate
<1>9. CASE Win32DispatchDelegate(p)
  <2>1. port \notin DoorbellPorts
    BY <1>9 DEF Win32DispatchDelegate, DoorbellPorts
  <2>2. CASE \E m \in Message : Call(p, m) /\ (BeginDispatch(p, m) \/ RefuseAtOnce(m))
    BY <2>2 DEF CallerStep
  <2>3. CASE Put(p, "idle")
    BY <2>1, <2>3 DEF CallerStep
  <2>4. CASE pc[p] \in {"send", "blocked"} /\ Refuse(p)
    BY <2>4 DEF CallerStep
  <2> QED
    BY <1>3, <1>9, <2>2, <2>3, <2>4 DEF Win32DispatchDelegate
<1>10. CASE FreeRTOSSend(p) \/ ThreadXSend(p)
  BY <1>10 DEF FreeRTOSSend, ThreadXSend, CallerStep
<1>11. CASE ZephyrSend(p) \/ CmsisSend(p)
  BY <1>11 DEF ZephyrSend, CmsisSend, CallerStep, DoorbellPorts
<1> QED
  BY <1>5, <1>6, <1>7, <1>8, <1>9, <1>10, <1>11 DEF DispatchDelegate

\* A message that is put is one, and there was room for it where lanes are queues.
LEMMA PutLemma ==
  ASSUME TypeInv, NEW p \in Caller, NEW after, Put(p, after)
  PROVE  /\ LaneOf(arg[p]) \in Lane
         /\ arg[p] \in AnyMessage
         /\ PushBack(LaneOf(arg[p]), arg[p])
         /\ port \in DoorbellPorts => Size(LaneOf(arg[p])) < m_queueSize
<1>1. arg[p] \in Message
  BY DEF TypeInv, Args, Put
<1>2. LaneOf(arg[p]) \in Lane
  BY DEF LaneOf, Lane
<1> QED
  BY <1>1, <1>2 DEF Put, AnyMessage, Room, Size

-----------------------------------------------------------------------------
(***************************************************************************)
(* The type invariant.                                                     *)
(***************************************************************************)
LEMMA TypeInvInit ==
  Init => TypeInv
<1> SUFFICES ASSUME Init PROVE TypeInv
  OBVIOUS
<1>1. [size |-> m_queueSize, policy |-> FULL_POLICY, watchdog |-> watchdog] \in Constructions
  <2>1. PICK c \in Constructions :
          m_queueSize = c.size /\ FULL_POLICY = c.policy /\ watchdog = c.watchdog
    BY DEF Init
  <2>2. c \in [size : Nat \ {0}, policy : {"DROP", "FAULT", "TIMEOUT"}, watchdog : BOOLEAN]
    BY ConstructorAssumption
  <2>3. c = [size |-> c.size, policy |-> c.policy, watchdog |-> c.watchdog]
    BY <2>2
  <2> QED
    BY <2>1, <2>3
<1>2. lanes \in [Lane -> Seq(AnyMessage)]
  BY EmptySeq DEF Init
<1>3. lives \in 0..MaxLives
  BY ConstructorAssumption DEF Init
<1>4. TypeOK
  BY <1>1, <1>2, <1>3 DEF Init, TypeOK
<1> QED
  BY <1>4 DEF Init, TypeInv, Args, ExitedJob

LEMMA TypeInvCaller ==
  ASSUME TypeInv, NEW p \in Caller, DispatchDelegate(p)
  PROVE  TypeInv'
<1>1. CallerStep(p) /\ UNCHANGED <<config, lifecycle, exitSem, worker, job>>
  BY CallerSteps
<1> USE DEF TypeInv, Args, ExitedJob, config, lifecycle
<1>2. CASE \E m \in Message : Call(p, m) /\ (BeginDispatch(p, m) \/ RefuseAtOnce(m))
  <2>1. PICK m \in Message : BeginDispatch(p, m) \/ RefuseAtOnce(m)
    BY <1>2
  <2>2. CASE BeginDispatch(p, m)
    BY <1>1, <2>2 DEF BeginDispatch, TypeOK, queue, outcome, stopped
  <2>3. CASE RefuseAtOnce(m)
    BY <1>1, <2>3 DEF RefuseAtOnce, TypeOK, queue, callers, stopped
  <2> QED
    BY <2>1, <2>2, <2>3
<1>3. CASE FaultStops
  BY <1>1, <1>3 DEF FaultStops, TypeOK, queue, callers, outcome
<1>4. CASE pc[p] \in {"send", "blocked"} /\ Refuse(p)
  BY <1>1, <1>4 DEF Refuse, Return, TypeOK, queue, stopped
<1>5. CASE Blocks(p)
  BY <1>1, <1>5 DEF Blocks, TypeOK, queue, outcome, stopped
<1>6. CASE \E after \in {"idle", "ring"} : Put(p, after)
  <2>1. PICK after \in {"idle", "ring"} : Put(p, after)
    BY <1>6
  <2>2. Lanes'
    BY <2>1, PutLemma, PushLemma DEF Lanes, TypeOK
  <2> QED
    BY <1>1, <2>1, <2>2 DEF Put, TypeOK, Lanes, outcome, stopped
<1>7. CASE Ring(p)
  BY <1>1, <1>7 DEF Ring, TypeOK, outcome, stopped
<1> QED
  BY <1>1, <1>2, <1>3, <1>4, <1>5, <1>6, <1>7 DEF CallerStep

LEMMA TypeInvWorker ==
  ASSUME TypeInv, WorkerStep
  PROVE  TypeInv'
<1>1. UNCHANGED <<config, lifecycle, callers, stopped, refused, discarded>>
  BY DEF WorkerStep
<1> USE DEF TypeInv, Args, ExitedJob, config, lifecycle, callers, stopped
<1>2. ASSUME NEW l \in Lane, lanes[l] # <<>>, TakeFrom(l),
             UNCHANGED <<countSem, exitSem, executed>>
      PROVE  TypeInv'
  <2>1. Lanes' /\ job' \in AnyMessage /\ worker' = "running"
    BY <1>2, TakeLemma DEF Lanes, TypeOK
  <2> QED
    BY <1>1, <1>2, <2>1 DEF TypeOK, Lanes
<1>3. ASSUME NEW next \in {"head", "wait", "high", "normal", "poll"}, worker' = next,
             UNCHANGED <<job, lanes, exitSem, executed>>, countSem' \in Nat
      PROVE  TypeInv'
  BY <1>1, <1>3 DEF TypeOK
<1>4. CASE (\/ FreeRTOSReceive \/ ThreadXReceive \/ ZephyrReceive \/ CmsisReceive \/ Win32Take)
           /\ UNCHANGED <<exitSem, executed>>
  <2>1. ASSUME PopHigh
        PROVE  TypeInv'
    <3>1. CASE lanes["HIGH"] # <<>>
      BY <1>2, <1>4, <2>1, <3>1 DEF PopHigh, Lane
    <3>2. CASE lanes["HIGH"] = <<>>
      BY <1>3, <1>4, <2>1, <3>2 DEF PopHigh, TypeOK
    <3> QED
      BY <3>1, <3>2
  <2>2. ASSUME NEW otherwise \in {"head", "poll"}, PopNormal(otherwise)
        PROVE  TypeInv'
    <3>1. CASE lanes["NORMAL"] # <<>>
      BY <1>2, <1>4, <2>2, <3>1 DEF PopNormal, Lane
    <3>2. CASE lanes["NORMAL"] = <<>>
      BY <1>3, <1>4, <2>2, <3>2 DEF PopNormal, TypeOK
    <3> QED
      BY <3>1, <3>2
  <2>3. ASSUME TakeToken
        PROVE  TypeInv'
    BY <1>3, <1>4, <2>3 DEF TakeToken, TypeOK
  <2>4. ASSUME WaitTimesOut
        PROVE  TypeInv'
    BY <1>3, <1>4, <2>4 DEF WaitTimesOut, TypeOK, queue
  <2>5. ASSUME TakeFirst
        PROVE  TypeInv'
    <3>1. CASE lanes["HIGH"] # <<>>
      BY <1>2, <1>4, <2>5, <3>1 DEF TakeFirst, Lane
    <3>2. CASE lanes["HIGH"] = <<>>
      BY <1>2, <1>4, <2>5, <3>2 DEF TakeFirst, Empty, Lane
    <3> QED
      BY <3>1, <3>2
  <2>6. CASE FreeRTOSReceive
    BY <2>1, <2>2, <2>3, <2>4, <2>6 DEF FreeRTOSReceive
  <2>7. CASE ThreadXReceive
    BY <2>1, <2>2, <2>3, <2>4, <2>7 DEF ThreadXReceive
  <2>8. CASE ZephyrReceive
    <3>1. CASE worker = "poll" /\ ~Empty /\ worker' = "high" /\ UNCHANGED <<job, queue>>
      BY <1>3, <1>4, <3>1 DEF queue, TypeOK
    <3> QED
      BY <2>1, <2>2, <2>4, <2>8, <3>1 DEF ZephyrReceive
  <2>9. CASE CmsisReceive \/ Win32Take
    BY <2>4, <2>5, <2>9 DEF CmsisReceive, Win32Take
  <2> QED
    BY <1>4, <2>6, <2>7, <2>8, <2>9
<1>5. CASE (\/ FreeRTOSRun \/ ThreadXRun \/ ZephyrRun \/ CmsisRun \/ Win32Process)
           /\ UNCHANGED queue
  <2> USE DEF queue
  <2>1. ASSUME NEW receive \in {"wait", "high"}, LoopHead(receive)
        PROVE  TypeInv'
    BY <1>1, <1>5, <2>1 DEF LoopHead, Leave, TypeOK
  <2>2. ASSUME NEW next \in {"head", "wait"}, HandlerReturns(next)
        PROVE  TypeInv'
    BY <1>1, <1>5, <2>2 DEF HandlerReturns, TypeOK
  <2>3. ASSUME ExitReceived, worker' = "done", exitSem' \in {0, 1}
        PROVE  TypeInv'
    BY <1>1, <1>5, <2>3 DEF ExitReceived, TypeOK
  <2>4. ASSUME SelfExitReturns
        PROVE  TypeInv'
    BY <1>1, <1>5, <2>4 DEF SelfExitReturns, TypeOK
  <2>5. ASSUME ExitReceived, Leave
        PROVE  TypeInv'
    BY <2>3, <2>5 DEF Leave
  <2>6. CASE FreeRTOSRun
    BY <2>1, <2>2, <2>4, <2>5, <2>6 DEF FreeRTOSRun
  <2>7. CASE ThreadXRun
    BY <2>1, <2>2, <2>4, <2>5, <2>7 DEF ThreadXRun
  <2>8. CASE ZephyrRun
    BY <2>1, <2>2, <2>4, <2>5, <2>8 DEF ZephyrRun
  <2>9. CASE CmsisRun
    BY <2>1, <2>2, <2>4, <2>5, <2>9 DEF CmsisRun
  <2>10. CASE Win32Process
    <3>1. CASE ExitReceived /\ worker' = "done" /\ UNCHANGED exitSem
      BY <2>3, <3>1 DEF TypeOK
    <3>2. CASE worker' = "done" /\ UNCHANGED <<job, executed, exitSem>>
      BY <1>1, <1>5, <3>2 DEF TypeOK
    <3> QED
      BY <2>2, <2>4, <2>10, <3>1, <3>2 DEF Win32Process
  <2> QED
    BY <1>5, <2>6, <2>7, <2>8, <2>9, <2>10
<1> QED
  BY <1>4, <1>5 DEF WorkerStep

LEMMA TypeInvSelfExit ==
  ASSUME TypeInv, SelfExit
  PROVE  TypeInv'
<1>1. UNCHANGED <<config, owner, lives, exitSem, job, callers, fault, refused, executed>>
  BY DEF SelfExit
<1>2. HandlerExits
  BY DEF SelfExit, FreeRTOSSelfExit, ThreadXSelfExit, CmsisSelfExit, ZephyrSelfExit, Win32SelfExit
<1>3. job' \in Message /\ m_exit' = TRUE /\ worker' = "exited"
  BY <1>1, <1>2, MessageAssumption DEF HandlerExits
<1> USE DEF TypeInv, Args, ExitedJob, config, callers
<1>4. CASE DrainAndDestroy /\ UNCHANGED m_selfExited
  <2>1. Lanes' /\ discarded' \subseteq Message
    BY <1>4, ClearLemma, QueuedLemma DEF DrainAndDestroy, TypeOK, Lanes
  <2>2. created' \in BOOLEAN /\ countSem' \in Nat /\ undefined' \in BOOLEAN
    BY <1>4 DEF DrainAndDestroy, InFlight
  <2> QED
    BY <1>1, <1>3, <1>4, <2>1, <2>2 DEF TypeOK, Lanes
<1>5. CASE m_selfExited' = TRUE /\ UNCHANGED <<created, queue, undefined, discarded>>
  BY <1>1, <1>3, <1>5 DEF TypeOK, queue
<1>6. CASE /\ PushBack("HIGH", ExitMsg)
           /\ created' = FALSE
           /\ UNCHANGED <<m_selfExited, countSem, undefined, discarded>>
  <2>1. Lanes'
    BY <1>6, PushLemma DEF TypeOK, Lanes, Lane, AnyMessage
  <2> QED
    BY <1>1, <1>3, <1>6, <2>1 DEF TypeOK, Lanes
<1> QED
  BY <1>4, <1>5, <1>6
  DEF SelfExit, FreeRTOSSelfExit, ThreadXSelfExit, CmsisSelfExit, ZephyrSelfExit, Win32SelfExit

LEMMA TypeInvExit ==
  ASSUME TypeInv, ExitThread
  PROVE  TypeInv'
<1>1. UNCHANGED <<config, lives, worker, job, callers, fault, refused, executed>>
  BY DEF ExitThread
<1> USE DEF TypeInv, Args, ExitedJob, config, callers
<1>2. ASSUME NEW next \in {"sending", "cleanup"}, RequestExit(next)
      PROVE  TypeInv'
  BY <1>1, <1>2 DEF RequestExit, TypeOK, queue
<1>3. ASSUME NEW next \in {"ringing", "joining"}, SendExit(next)
      PROVE  TypeInv'
  <2>1. Lanes'
    BY <1>3, PushLemma DEF SendExit, TypeOK, Lanes, Lane, AnyMessage
  <2> QED
    BY <1>1, <1>3, <2>1 DEF SendExit, TypeOK, Lanes
<1>4. ASSUME RingExit
      PROVE  TypeInv'
  BY <1>1, <1>4 DEF RingExit, TypeOK
<1>5. ASSUME TakeExitSem
      PROVE  TypeInv'
  BY <1>1, <1>5 DEF TakeExitSem, TypeOK, queue
<1>6. ASSUME Cleanup, m_selfExited' \in BOOLEAN
      PROVE  TypeInv'
  <2>1. DrainAndDestroy
    BY <1>6 DEF Cleanup
  <2>2. Lanes' /\ discarded' \subseteq Message
    BY <2>1, ClearLemma, QueuedLemma DEF DrainAndDestroy, TypeOK, Lanes
  <2>3. created' \in BOOLEAN /\ countSem' \in Nat /\ undefined' \in BOOLEAN
    BY <2>1 DEF DrainAndDestroy, InFlight
  <2> QED
    BY <1>1, <1>6, <2>2, <2>3 DEF Cleanup, TypeOK, Lanes
<1>7. CASE FreeRTOSExitThread \/ ThreadXExitThread
  BY <1>2, <1>3, <1>4, <1>5, <1>6, <1>7 DEF FreeRTOSExitThread, ThreadXExitThread, TypeOK
<1>8. CASE ZephyrExitThread
  BY <1>2, <1>3, <1>5, <1>6, <1>8 DEF ZephyrExitThread
<1>9. CASE CmsisExitThread
  BY <1>2, <1>3, <1>5, <1>6, <1>9 DEF CmsisExitThread, TypeOK
<1>10. CASE Win32ExitThread
  <2>1. CASE PushBack("HIGH", ExitMsg) /\ m_exit' = TRUE /\ owner' = "joining" /\ UNCHANGED created
    <3>1. Lanes'
      BY <2>1, PushLemma DEF TypeOK, Lanes, Lane, AnyMessage
    <3> QED
      BY <1>1, <1>10, <2>1, <3>1 DEF Win32ExitThread, TypeOK, Lanes
  <2>2. CASE created' = FALSE /\ owner' = "idle" /\ UNCHANGED <<m_exit, lanes>>
    BY <1>1, <1>10, <2>2 DEF Win32ExitThread, TypeOK
  <2> QED
    BY <1>10, <2>1, <2>2 DEF Win32ExitThread
<1> QED
  BY <1>7, <1>8, <1>9, <1>10 DEF ExitThread

LEMMA TypeInvCreate ==
  ASSUME TypeInv, CreateThread
  PROVE  TypeInv'
<1>1. UNCHANGED <<config, m_selfExited, owner, queue, job, callers, stopped, outcome>>
  BY DEF CreateThread
<1>2. \E first \in {"head", "wait"} : Create(first)
  BY DEF CreateThread, FreeRTOSCreateThread, ThreadXCreateThread, ZephyrCreateThread,
         CmsisCreateThread, Win32CreateThread
<1>3. m_exit' \in BOOLEAN /\ exitSem' \in {0, 1}
  BY DEF CreateThread, FreeRTOSCreateThread, ThreadXCreateThread, ZephyrCreateThread,
         CmsisCreateThread, Win32CreateThread, TypeInv, TypeOK
<1>4. created' = TRUE /\ worker' \in {"head", "wait"} /\ lives' \in 0..MaxLives
  BY <1>2, ConstructorAssumption DEF Create, TypeInv, TypeOK
<1> QED
  BY <1>1, <1>3, <1>4
  DEF TypeInv, TypeOK, Args, ExitedJob, config, queue, callers, stopped, outcome

LEMMA TypeInvNext ==
  TypeInv /\ [Next]_vars => TypeInv'
<1> SUFFICES ASSUME TypeInv, [Next]_vars PROVE TypeInv'
  OBVIOUS
<1>1. CASE UNCHANGED vars
  BY <1>1 DEF vars, config, lifecycle, queue, callers, stopped, outcome,
              TypeInv, TypeOK, Args, ExitedJob
<1>2. CASE Step
  BY <1>2, TypeInvCaller, TypeInvWorker, TypeInvSelfExit, TypeInvExit, TypeInvCreate DEF Step
<1> QED
  BY <1>1, <1>2 DEF Next

\* Every reachable state of the thread has its types.
THEOREM TypeCorrect == Spec => []TypeOK
<1>1. TypeInv => TypeOK
  BY DEF TypeInv
<1> QED
  BY <1>1, TypeInvInit, TypeInvNext, PTL DEF Spec

-----------------------------------------------------------------------------
(***************************************************************************)
(* The doorbell of FreeRTOS and ThreadX.                                   *)
(***************************************************************************)
LEMMA DoorbellInit ==
  Init => DoorbellInv
<1> SUFFICES ASSUME Init PROVE Balanced /\ Ended
  BY DEF DoorbellInv
<1>1. Ringing = {}
  BY DEF Init, Ringing
<1>2. lanes = [l \in Lane |-> <<>>] /\ m_queueSize \in Nat
  <2>1. PICK c \in Constructions : m_queueSize = c.size
    BY DEF Init
  <2> QED
    BY <2>1, ConstructorAssumption DEF Init
<1>3. Depth = 0 /\ \A l \in Lane : Size(l) = 0
  BY <1>2, EmptySeq DEF Depth, Size, Lane
<1>4. Balanced
  BY <1>1, <1>2, <1>3, FS_EmptySet DEF Init, Balanced, Pending
<1>5. Ended
  BY DEF Init, Ended, Caller
<1> QED
  BY <1>4, <1>5

LEMMA DoorbellCaller ==
  ASSUME TypeInv, DoorbellInv, Doorbell, Doorbell', NEW p \in Caller, DispatchDelegate(p)
  PROVE  Balanced' /\ Ended'
<1>1. CallerStep(p) /\ UNCHANGED <<config, lifecycle, exitSem, worker, job>>
  BY CallerSteps
<1>2. Balanced /\ Ended
  BY DEF DoorbellInv
<1>3. pc \in [Caller -> {"idle", "send", "blocked", "ring"}] /\ Worker \in Caller /\ Lanes
  BY DEF TypeInv, TypeOK, Lanes, Caller
<1>4. countSem \in Nat /\ m_queueSize \in Nat
  BY ConstructorAssumption DEF TypeInv, TypeOK
<1> USE DEF config, lifecycle
<1>5. UNCHANGED queue /\ Cardinality(Ringing') = Cardinality(Ringing) => Balanced'
  BY <1>1, <1>2 DEF Balanced, queue, Depth, Size, Pending
<1>6. (pc'[Worker] # "idle" => pc[Worker] # "idle" \/ (worker = "running" /\ job \in Message))
        => Ended'
  BY <1>1, <1>2 DEF Ended
<1>7. CASE \E m \in Message : Call(p, m) /\ (BeginDispatch(p, m) \/ RefuseAtOnce(m))
  <2>1. PICK m \in Message : Call(p, m) /\ (BeginDispatch(p, m) \/ RefuseAtOnce(m))
    BY <1>7
  <2>2. CASE BeginDispatch(p, m)
    <3>1. pc' = [pc EXCEPT ![p] = "send"] /\ pc[p] = "idle" /\ UNCHANGED queue /\ MayCall(p)
      BY <2>1, <2>2 DEF BeginDispatch, Call
    <3>2. Balanced'
      BY <1>3, <1>5, <3>1, RingsNot DEF CallerMoves
    <3>3. Ended'
      BY <1>3, <1>6, <3>1 DEF MayCall
    <3> QED
      BY <3>2, <3>3
  <2>3. CASE RefuseAtOnce(m)
    <3>1. UNCHANGED <<queue, pc>>
      BY <2>3 DEF RefuseAtOnce, callers
    <3> QED
      BY <1>5, <1>6, <3>1 DEF Ringing
  <2> QED
    BY <2>1, <2>2, <2>3
<1>8. CASE FaultStops
  <2>1. UNCHANGED <<queue, pc>>
    BY <1>8 DEF FaultStops, callers
  <2> QED
    BY <1>5, <1>6, <2>1 DEF Ringing
<1>9. CASE pc[p] \in {"send", "blocked"} /\ Refuse(p)
  <2>1. pc' = [pc EXCEPT ![p] = "idle"] /\ pc[p] # "ring" /\ UNCHANGED queue
    BY <1>9 DEF Refuse, Return
  <2>2. Balanced'
    BY <1>3, <1>5, <2>1, RingsNot DEF CallerMoves
  <2>3. Ended'
    BY <1>3, <1>6, <2>1
  <2> QED
    BY <2>2, <2>3
<1>10. CASE Blocks(p)
  <2>1. pc' = [pc EXCEPT ![p] = "blocked"] /\ pc[p] = "send" /\ UNCHANGED queue
    BY <1>10 DEF Blocks
  <2>2. Balanced'
    BY <1>3, <1>5, <2>1, RingsNot DEF CallerMoves
  <2>3. pc'[Worker] # "idle" => pc[Worker] # "idle"
    BY <1>3, <2>1
  <2>4. Ended'
    BY <1>6, <2>3
  <2> QED
    BY <2>2, <2>4
<1>11. CASE Put(p, "ring")
  <2>1. /\ pc[p] # "ring" /\ pc[p] # "idle"
        /\ pc' = [pc EXCEPT ![p] = "ring"]
        /\ UNCHANGED countSem
    BY <1>11 DEF Put
  <2>2. Cardinality(Ringing') = Cardinality(Ringing) + 1
    BY <1>3, <2>1, StartsRinging DEF CallerMoves
  <2>3. PICK l \in Lane : PushBack(l, arg[p]) /\ arg[p] \in AnyMessage /\ Size(l) < m_queueSize
    BY <1>11, PutLemma DEF Doorbell
  <2>4. /\ Depth' = Depth + 1
        /\ lanes'[l] # <<>>
        /\ Size(l)' = Size(l) + 1
        /\ \A k \in Lane : k # l => lanes'[k] = lanes[k] /\ Size(k)' = Size(k)
    BY <1>3, <2>3, PushLemma
  <2>5. \A k \in Lane : Size(k)' <= m_queueSize'
    BY <1>1, <1>2, <1>3, <1>4, <2>3, <2>4, SizeLemma DEF Balanced
  <2>6. worker' = "normal" => lanes'["NORMAL"] # <<>>
    BY <1>1, <1>2, <2>4 DEF Balanced, Lane
  <2>7. Balanced'
    BY <1>1, <1>2, <1>3, <1>4, <2>1, <2>2, <2>4, <2>5, <2>6, SizeLemma, RingingIsFinite
    DEF Balanced, Pending
  <2>8. Ended'
    BY <1>3, <1>6, <2>1
  <2> QED
    BY <2>7, <2>8
<1>12. CASE Ring(p)
  <2>1. /\ pc[p] = "ring"
        /\ pc' = [pc EXCEPT ![p] = "idle"]
        /\ countSem' = countSem + 1
        /\ UNCHANGED lanes
    BY <1>12 DEF Ring
  <2>2. Cardinality(Ringing') = Cardinality(Ringing) - 1
    BY <1>3, <2>1, StopsRinging DEF CallerMoves
  <2>3. Depth' = Depth /\ \A l \in Lane : Size(l)' = Size(l)
    BY <2>1 DEF Depth, Size
  <2>4. Balanced'
    BY <1>1, <1>2, <1>3, <1>4, <2>1, <2>2, <2>3, SizeLemma, RingingIsFinite
    DEF Balanced, Pending
  <2>5. Ended'
    BY <1>3, <1>6, <2>1
  <2> QED
    BY <2>4, <2>5
<1> QED
  BY <1>1, <1>7, <1>8, <1>9, <1>10, <1>11, <1>12 DEF CallerStep, Doorbell

LEMMA DoorbellWorker ==
  ASSUME TypeInv, DoorbellInv, Doorbell, WorkerStep
  PROVE  Balanced' /\ Ended'
<1>1. UNCHANGED <<config, lifecycle, callers, stopped, refused, discarded>>
  BY DEF WorkerStep
<1>2. Balanced /\ Ended
  BY DEF DoorbellInv
<1>3. Lanes /\ countSem \in Nat /\ m_queueSize \in Nat /\ exitSem \in {0, 1}
  BY ConstructorAssumption DEF TypeInv, TypeOK, Lanes
<1>4. Ringing' = Ringing
  BY <1>1 DEF callers, Ringing
<1>5. ASSUME port \notin DoorbellPorts
      PROVE  FALSE
  BY <1>5 DEF Doorbell
<1> USE DEF config, lifecycle, callers
<1>6. ASSUME NEW l \in Lane, lanes[l] # <<>>, TakeFrom(l), worker \in {"high", "normal"},
             UNCHANGED <<countSem, exitSem>>
      PROVE  Balanced' /\ Ended'
  <2>1. /\ Depth' = Depth - 1
        /\ worker' = "running"
        /\ Size(l)' = Size(l) - 1
        /\ \A k \in Lane : k # l => Size(k)' = Size(k)
    BY <1>3, <1>6, TakeLemma
  <2>2. Pending(worker \in {"high", "normal"}) = 1 /\ Pending(worker' \in {"high", "normal"}) = 0
    BY <1>6, <2>1 DEF Pending
  <2>3. \A k \in Lane : Size(k)' <= m_queueSize'
    BY <1>1, <1>2, <1>3, <2>1, SizeLemma DEF Balanced
  <2>4. Pending(owner = "ringing") \in Nat
    BY DEF Pending
  <2>5. Balanced'
    BY <1>1, <1>2, <1>3, <1>4, <1>6, <2>1, <2>2, <2>3, <2>4, SizeLemma, RingingIsFinite
    DEF Balanced
  <2>6. Ended'
    BY <1>1, <1>2, <1>6, <2>1 DEF Ended
  <2> QED
    BY <2>5, <2>6
<1>7. ASSUME UNCHANGED queue, worker \notin {"high", "normal"}, worker' \notin {"high", "normal"}
      PROVE  Balanced'
  <2>1. Depth' = Depth /\ \A k \in Lane : Size(k)' = Size(k)
    BY <1>7 DEF queue, Depth, Size
  <2> QED
    BY <1>1, <1>2, <1>4, <1>7, <2>1 DEF Balanced, Pending, queue
<1>8. CASE (FreeRTOSReceive \/ ThreadXReceive) /\ UNCHANGED exitSem
  <2>1. UNCHANGED exitSem
    BY <1>8
  <2>2. CASE TakeToken
    <3>1. /\ worker = "wait" /\ worker' = "high"
          /\ countSem' = countSem - 1 /\ countSem > 0
          /\ UNCHANGED <<job, lanes>>
      BY <2>2 DEF TakeToken
    <3>2. Depth' = Depth /\ \A k \in Lane : Size(k)' = Size(k)
      BY <3>1 DEF Depth, Size
    <3>3. Balanced'
      BY <1>1, <1>2, <1>3, <1>4, <3>1, <3>2, SizeLemma, RingingIsFinite DEF Balanced, Pending
    <3>4. Ended'
      BY <1>1, <1>2, <2>1, <3>1 DEF Ended
    <3> QED
      BY <3>3, <3>4
  <2>3. CASE PopHigh
    <3>1. CASE lanes["HIGH"] # <<>>
      BY <1>6, <2>1, <2>3, <3>1 DEF PopHigh, Lane
    <3>2. CASE lanes["HIGH"] = <<>>
      <4>1. worker = "high" /\ worker' = "normal" /\ UNCHANGED <<job, lanes, countSem>>
        BY <2>3, <3>2 DEF PopHigh
      <4>2. lanes["NORMAL"] # <<>>
        <5>1. Pending(worker \in {"high", "normal"}) = 1 /\ Pending(owner = "ringing") \in Nat
          BY <4>1 DEF Pending
        <5>2. Size("HIGH") + Size("NORMAL") > 0
          BY <1>2, <1>3, <5>1, SizeLemma, RingingIsFinite DEF Balanced
        <5>3. Size("HIGH") = 0
          BY <1>3, <3>2, SizeLemma DEF Lane
        <5> QED
          BY <1>3, <5>2, <5>3, SizeLemma DEF Lane
      <4>3. Depth' = Depth /\ \A k \in Lane : Size(k)' = Size(k)
        BY <4>1 DEF Depth, Size
      <4>4. Balanced'
        BY <1>1, <1>2, <1>4, <4>1, <4>2, <4>3 DEF Balanced, Pending
      <4>5. Ended'
        BY <1>1, <1>2, <2>1, <4>1 DEF Ended
      <4> QED
        BY <4>4, <4>5
    <3> QED
      BY <3>1, <3>2
  <2>4. CASE PopNormal("head")
    <3>1. worker = "normal" /\ lanes["NORMAL"] # <<>>
      BY <1>2, <2>4 DEF PopNormal, Balanced
    <3> QED
      BY <1>6, <2>1, <2>4, <3>1 DEF PopNormal, Lane
  <2>5. CASE WaitTimesOut
    <3>1. worker \in {"wait", "poll"} /\ worker' = "head" /\ UNCHANGED <<job, queue>>
      BY <2>5 DEF WaitTimesOut
    <3>2. Balanced'
      BY <1>7, <3>1
    <3>3. Ended'
      BY <1>1, <1>2, <2>1, <3>1 DEF Ended
    <3> QED
      BY <3>2, <3>3
  <2> QED
    BY <1>8, <2>2, <2>3, <2>4, <2>5 DEF FreeRTOSReceive, ThreadXReceive
<1>9. CASE (FreeRTOSRun \/ ThreadXRun) /\ UNCHANGED queue
  <2>1. CASE LoopHead("wait")
    <3>1. worker = "head" /\ worker' \in {"wait", "done"}
          /\ (exitSem' = exitSem \/ (exitSem' = 1 /\ worker' = "done"))
          /\ (worker' = "wait" => exitSem' = exitSem)
          /\ UNCHANGED job
      BY <2>1 DEF LoopHead, Leave
    <3>2. Balanced'
      BY <1>7, <1>9, <3>1
    <3>3. Ended'
      BY <1>1, <1>2, <3>1 DEF Ended
    <3> QED
      BY <3>2, <3>3
  <2>2. CASE HandlerReturns("head")
    <3>1. worker = "running" /\ worker' = "head" /\ pc[Worker] = "idle" /\ UNCHANGED exitSem
      BY <2>2 DEF HandlerReturns
    <3>2. Balanced'
      BY <1>7, <1>9, <3>1
    <3>3. Ended'
      BY <1>1, <1>2, <3>1 DEF Ended
    <3> QED
      BY <3>2, <3>3
  <2>3. CASE ExitReceived /\ Leave
    <3>1. worker = "running" /\ job = ExitMsg /\ worker' = "done" /\ exitSem' = 1
      BY <2>3 DEF ExitReceived, Leave
    <3>2. Balanced'
      BY <1>7, <1>9, <3>1
    <3>3. Ended'
      BY <1>1, <1>2, <3>1, MessageAssumption DEF Ended
    <3> QED
      BY <3>2, <3>3
  <2>4. CASE SelfExitReturns
    <3>1. worker = "exited" /\ worker' = "done" /\ UNCHANGED exitSem
      BY <2>4 DEF SelfExitReturns
    <3>2. Balanced'
      BY <1>7, <1>9, <3>1
    <3>3. Ended'
      BY <1>1, <1>2, <3>1 DEF Ended
    <3> QED
      BY <3>2, <3>3
  <2> QED
    BY <1>9, <2>1, <2>2, <2>3, <2>4 DEF FreeRTOSRun, ThreadXRun
<1>10. \/ (FreeRTOSReceive \/ ThreadXReceive) /\ UNCHANGED exitSem
       \/ (FreeRTOSRun \/ ThreadXRun) /\ UNCHANGED queue
  BY <1>5 DEF WorkerStep, ZephyrReceive, CmsisReceive, Win32Take, ZephyrRun, CmsisRun, Win32Process,
              Doorbell, DoorbellPorts
<1> QED
  BY <1>8, <1>9, <1>10

LEMMA DoorbellDestroy ==
  ASSUME TypeInv, Ended, Doorbell', DrainAndDestroy, UNCHANGED <<config, callers>>,
         pc[Worker] = "idle", owner' = "idle", worker' \in {"exited", "done"}
  PROVE  Balanced'
<1>1. /\ Depth' = 0
      /\ \A l \in Lane : Size(l)' = 0
      /\ countSem' = 0
      /\ ~InFlight
  BY ClearLemma DEF DrainAndDestroy, Doorbell
<1>2. Ringing' = {}
  BY <1>1 DEF callers, Ringing, InFlight, Caller
<1>3. m_queueSize' \in Nat
  BY ConstructorAssumption DEF TypeInv, TypeOK, config
<1> QED
  BY <1>1, <1>2, <1>3, FS_EmptySet DEF Balanced, Pending

LEMMA DoorbellSelfExit ==
  ASSUME TypeInv, DoorbellInv, Doorbell, Doorbell', SelfExit
  PROVE  Balanced' /\ Ended'
<1>1. UNCHANGED <<config, owner, lives, exitSem, job, callers, fault, refused, executed>>
  BY DEF SelfExit
<1>2. Balanced /\ Ended
  BY DEF DoorbellInv
<1>3. HandlerExits /\ DrainAndDestroy
  BY DEF SelfExit, FreeRTOSSelfExit, ThreadXSelfExit, CmsisSelfExit, ZephyrSelfExit, Win32SelfExit,
         Doorbell, DoorbellPorts
<1>4. worker = "running" /\ worker' = "exited" /\ pc[Worker] = "idle" /\ owner = "idle"
  BY <1>3 DEF HandlerExits
<1>5. Balanced'
  BY <1>1, <1>2, <1>3, <1>4, DoorbellDestroy
<1>6. Ended'
  BY <1>1, <1>2, <1>4 DEF Ended, callers
<1> QED
  BY <1>5, <1>6

LEMMA DoorbellExit ==
  ASSUME TypeInv, DoorbellInv, Doorbell, Doorbell', ExitThread
  PROVE  Balanced' /\ Ended'
<1>1. UNCHANGED <<config, lives, worker, job, callers, fault, refused, executed>>
  BY DEF ExitThread
<1>2. Balanced /\ Ended
  BY DEF DoorbellInv
<1>3. Lanes /\ countSem \in Nat /\ m_queueSize \in Nat /\ exitSem \in {0, 1}
  BY ConstructorAssumption DEF TypeInv, TypeOK, Lanes
<1>4. Ringing' = Ringing
  BY <1>1 DEF callers, Ringing
<1> USE DEF config, callers
<1>5. ASSUME UNCHANGED queue, owner # "ringing", owner' # "ringing"
      PROVE  Balanced'
  <2>1. Depth' = Depth /\ \A k \in Lane : Size(k)' = Size(k)
    BY <1>5 DEF queue, Depth, Size
  <2> QED
    BY <1>1, <1>2, <1>4, <1>5, <2>1 DEF Balanced, Pending, queue
<1>6. CASE RequestExit("sending")
  <2>1. owner = "idle" /\ owner' = "sending" /\ UNCHANGED <<created, queue, exitSem>>
    BY <1>6 DEF RequestExit
  <2>2. Balanced'
    BY <1>5, <2>1
  <2>3. Ended'
    BY <1>1, <1>2, <2>1 DEF Ended
  <2> QED
    BY <2>2, <2>3
<1>7. CASE SendExit("ringing")
  <2>1. /\ owner = "sending" /\ owner' = "ringing"
        /\ Size("NORMAL") < m_queueSize
        /\ PushBack("NORMAL", ExitMsg)
        /\ UNCHANGED <<created, countSem, exitSem>>
    BY <1>7 DEF SendExit, Room, Doorbell, Size
  <2>2. /\ Depth' = Depth + 1
        /\ lanes'["NORMAL"] # <<>>
        /\ Size("NORMAL")' = Size("NORMAL") + 1
        /\ \A k \in Lane : k # "NORMAL" => Size(k)' = Size(k)
    BY <1>3, <2>1, PushLemma DEF Lane, AnyMessage
  <2>3. \A k \in Lane : Size(k)' <= m_queueSize'
    BY <1>1, <1>2, <1>3, <2>1, <2>2, SizeLemma DEF Balanced, Lane
  <2>4. Balanced'
    BY <1>1, <1>2, <1>3, <1>4, <2>1, <2>2, <2>3, SizeLemma, RingingIsFinite DEF Balanced, Pending
  <2>5. Ended'
    BY <1>1, <1>2, <2>1 DEF Ended
  <2> QED
    BY <2>4, <2>5
<1>8. CASE RingExit
  <2>1. /\ owner = "ringing" /\ owner' = "joining"
        /\ countSem' = countSem + 1
        /\ UNCHANGED <<created, lanes, exitSem>>
    BY <1>8 DEF RingExit
  <2>2. Depth' = Depth /\ \A k \in Lane : Size(k)' = Size(k)
    BY <2>1 DEF Depth, Size
  <2>3. Balanced'
    BY <1>1, <1>2, <1>3, <1>4, <2>1, <2>2, SizeLemma, RingingIsFinite DEF Balanced, Pending
  <2>4. Ended'
    BY <1>1, <1>2, <2>1 DEF Ended
  <2> QED
    BY <2>3, <2>4
<1>9. CASE TakeExitSem
  <2>1. /\ owner = "joining" /\ owner' = "cleanup"
        /\ exitSem = 1 /\ exitSem' = 0
        /\ UNCHANGED <<created, queue>>
    BY <1>9 DEF TakeExitSem
  <2>2. Balanced'
    BY <1>5, <2>1
  <2>3. Ended'
    BY <1>1, <1>2, <2>1 DEF Ended
  <2> QED
    BY <2>2, <2>3
<1>10. CASE Cleanup
  <2>1. /\ owner = "cleanup" /\ owner' = "idle"
        /\ DrainAndDestroy
        /\ UNCHANGED exitSem
    BY <1>10 DEF Cleanup
  <2>2. worker = "done" /\ exitSem = 0 /\ pc[Worker] = "idle"
    BY <1>2, <2>1 DEF Ended
  <2>3. Balanced'
    BY <1>1, <1>2, <2>1, <2>2, DoorbellDestroy
  <2>4. Ended'
    BY <1>1, <1>2, <2>1, <2>2 DEF Ended
  <2> QED
    BY <2>3, <2>4
<1>11. FreeRTOSExitThread \/ ThreadXExitThread
  BY DEF ExitThread, ZephyrExitThread, CmsisExitThread, Win32ExitThread, Doorbell, DoorbellPorts
<1> QED
  BY <1>6, <1>7, <1>8, <1>9, <1>10, <1>11 DEF FreeRTOSExitThread, ThreadXExitThread

LEMMA DoorbellCreate ==
  ASSUME TypeInv, DoorbellInv, Doorbell, CreateThread
  PROVE  Balanced' /\ Ended'
<1>1. UNCHANGED <<config, m_selfExited, owner, queue, job, callers, stopped, outcome>>
  BY DEF CreateThread
<1>2. Balanced /\ Ended
  BY DEF DoorbellInv
<1>3. Create("head") /\ UNCHANGED exitSem
  BY DEF CreateThread, FreeRTOSCreateThread, ThreadXCreateThread, ZephyrCreateThread,
         CmsisCreateThread, Win32CreateThread, Doorbell, DoorbellPorts
<1>4. /\ owner = "idle" /\ ~created /\ worker \in {"none", "done"}
      /\ created' /\ worker' = "head"
  BY <1>3 DEF Create
<1>5. Depth' = Depth /\ \A k \in Lane : Size(k)' = Size(k)
  BY <1>1 DEF queue, Depth, Size
<1>6. Balanced'
  BY <1>1, <1>2, <1>4, <1>5 DEF Balanced, Pending, config, queue, callers, Ringing
<1>7. exitSem # 1
  BY <1>2, <1>4 DEF Ended
<1>8. Ended'
  BY <1>1, <1>2, <1>3, <1>4, <1>7 DEF Ended, callers
<1> QED
  BY <1>6, <1>8

LEMMA DoorbellNext ==
  TypeInv /\ DoorbellInv /\ [Next]_vars => DoorbellInv'
<1> SUFFICES ASSUME TypeInv, DoorbellInv, [Next]_vars PROVE DoorbellInv'
  OBVIOUS
<1>1. CASE UNCHANGED vars
  BY <1>1 DEF vars, config, lifecycle, queue, callers, stopped, DoorbellInv, Doorbell, Balanced,
              Ended, Ringing, Depth, Size
<1>2. CASE Running /\ Step
  <2>1. UNCHANGED port
    BY <1>2, CallerSteps
    DEF Step, WorkerStep, SelfExit, ExitThread, CreateThread, config
  <2>2. Doorbell' => Doorbell
    BY <1>2, <2>1 DEF Running, Doorbell
  <2>3. ASSUME Doorbell, Doorbell'
        PROVE  Balanced' /\ Ended'
    BY <1>2, <2>3, DoorbellCaller, DoorbellWorker, DoorbellSelfExit, DoorbellExit, DoorbellCreate
    DEF Step
  <2> QED
    BY <2>2, <2>3 DEF DoorbellInv
<1> QED
  BY <1>1, <1>2 DEF Next

\* However many threads dispatch, the doorbell of FreeRTOS and ThreadX counts what
\* waits in the lanes, and never more than it was created for.
THEOREM DoorbellIsExact == Spec => []DoorbellCounts
<1>1. TypeInv /\ DoorbellInv => DoorbellCounts
  <2> SUFFICES ASSUME TypeInv, DoorbellInv, port \in DoorbellPorts, ~undefined
               PROVE  /\ Depth = countSem + Cardinality(Ringing)
                                 + Pending(owner = "ringing")
                                 + Pending(worker \in {"high", "normal"})
                      /\ worker = "normal" /\ lanes["HIGH"] = <<>> => lanes["NORMAL"] # <<>>
                      /\ countSem <= 2 * m_queueSize
    BY DEF DoorbellCounts, Ringing
  <2>1. Balanced
    BY DEF DoorbellInv, Doorbell
  <2>2. countSem \in Nat /\ m_queueSize \in Nat /\ Lanes
    BY ConstructorAssumption DEF TypeInv, TypeOK, Lanes
  <2>3. countSem <= Size("HIGH") + Size("NORMAL")
    BY <2>1, <2>2, SizeLemma, RingingIsFinite DEF Balanced, Pending
  <2>4. Size("HIGH") <= m_queueSize /\ Size("NORMAL") <= m_queueSize
    BY <2>1 DEF Balanced, Lane
  <2>5. countSem <= 2 * m_queueSize
    BY <2>2, <2>3, <2>4, SizeLemma DEF Lane
  <2> QED
    BY <2>1, <2>5 DEF Balanced
<1>2. Init => TypeInv /\ DoorbellInv
  BY TypeInvInit, DoorbellInit
<1>3. TypeInv /\ DoorbellInv /\ [Next]_vars => (TypeInv /\ DoorbellInv)'
  BY TypeInvNext, DoorbellNext
<1> QED
  BY <1>1, <1>2, <1>3, PTL DEF Spec

-----------------------------------------------------------------------------
(***************************************************************************)
(* What WithoutExit() keeps of a queue.                                    *)
(***************************************************************************)
\* Induction on the numbers up to n, for a set.
LEMMA UpTo ==
  ASSUME NEW n \in Nat, NEW T, 0 \in T, \A k \in 0 .. n - 1 : k \in T => k + 1 \in T
  PROVE  \A k \in 0 .. n : k \in T
<1> DEFINE R == OpToRel(<, Nat)
           Out == {k \in 0 .. n : k \notin T}
<1>1. IsWellFoundedOn(R, Nat)
  BY NatLessThanWellFounded
<1>2. \A x, y \in Nat : <<y, x>> \in R <=> y < x
  BY DEF OpToRel
<1>3. Out \subseteq Nat
  OBVIOUS
<1> SUFFICES ASSUME Out # {} PROVE FALSE
  OBVIOUS
<1> HIDE DEF R
<1>4. PICK x \in Out : \A y \in Out : ~ (<<y, x>> \in R)
  BY <1>1, <1>3, WFMin
<1>5. x # 0 /\ x \in 0 .. n /\ x \notin T
  OBVIOUS
<1>6. x - 1 \in 0 .. n - 1 /\ (x - 1) + 1 = x /\ x - 1 < x /\ x - 1 \in 0 .. n /\ x - 1 \in Nat /\ x \in Nat
  BY <1>5
<1>7. x - 1 \notin T
  BY <1>5, <1>6
<1>8. x - 1 \in Out
  BY <1>6, <1>7
<1>9. <<x - 1, x>> \in R
  BY <1>2, <1>6, Zenon
<1> QED
  BY <1>4, <1>8, <1>9

\* The recursion of WithoutExit, on the first n messages.
Keeps(s, n, f) ==
  f = [k \in 0 .. n |-> IF k = 0 THEN <<>>
                        ELSE IF s[k] = ExitMsg THEN f[k - 1] ELSE Append(f[k - 1], s[k])]
Kept(s) == CHOOSE f : Keeps(s, Len(s), f)

LEMMA KeptExists ==
  ASSUME NEW s, NEW n \in Nat
  PROVE  \E f : Keeps(s, n, f)
<1> DEFINE T == {k \in Nat : \E f : Keeps(s, k, f)}
<1>1. 0 \in T
  <2> DEFINE f == [k \in 0 .. 0 |-> <<>>]
  <2>1. Keeps(s, 0, f)
    BY DEF Keeps
  <2> QED
    BY <2>1
<1>2. ASSUME NEW k \in 0 .. n - 1, k \in T
      PROVE  k + 1 \in T
  <2>1. PICK f : Keeps(s, k, f)
    BY <1>2
  <2>2. k \in Nat /\ k + 1 \in Nat /\ (k + 1) - 1 = k
    OBVIOUS
  <2>3. f = [j \in 0 .. k |-> IF j = 0 THEN <<>>
                        ELSE IF s[j] = ExitMsg THEN f[j - 1] ELSE Append(f[j - 1], s[j])]
    BY <2>1 DEF Keeps
  <2> DEFINE new == IF s[k + 1] = ExitMsg THEN f[k] ELSE Append(f[k], s[k + 1])
             g   == [j \in 0 .. k + 1 |-> IF j = k + 1 THEN new ELSE f[j]]
  <2>4. ASSUME NEW j \in 0 .. k + 1
        PROVE  g[j] = IF j = 0 THEN <<>>
                      ELSE IF s[j] = ExitMsg THEN g[j - 1] ELSE Append(g[j - 1], s[j])
    <3>1. CASE j = k + 1
      <4>1. j # 0 /\ j - 1 = k /\ k \in 0 .. k + 1 /\ k # k + 1
        BY <2>2, <3>1
      <4>2. g[j - 1] = f[k]
        BY <4>1
      <4>3. g[j] = new
        BY <3>1
      <4> HIDE DEF g
      <4> QED
        BY <3>1, <4>1, <4>2, <4>3
    <3>2. CASE j # k + 1
      <4>1. j \in 0 .. k
        BY <2>2, <3>2
      <4>2. g[j] = f[j]
        BY <3>2
      <4>3. j # 0 => j - 1 \in 0 .. k /\ g[j - 1] = f[j - 1]
        BY <2>2, <4>1
      <4>4. f[j] = IF j = 0 THEN <<>>
                   ELSE IF s[j] = ExitMsg THEN f[j - 1] ELSE Append(f[j - 1], s[j])
        BY <2>3, <4>1
      <4> HIDE DEF g
      <4> QED
        BY <4>2, <4>3, <4>4
    <3> QED
      BY <3>1, <3>2
  <2>5. Keeps(s, k + 1, g)
    <3>1. g = [j \in 0 .. k + 1 |-> g[j]]
      OBVIOUS
    <3> HIDE DEF g
    <3> QED
      BY <2>4, <3>1 DEF Keeps
  <2> QED
    BY <2>2, <2>5
<1> HIDE DEF T
<1>3. n \in T
  BY <1>1, <1>2, UpTo
<1> QED
  BY <1>3 DEF T

LEMMA KeptIs ==
  ASSUME NEW s, Len(s) \in Nat
  PROVE  /\ WithoutExit(s) = Kept(s)[Len(s)]
         /\ Kept(s)[0] = <<>>
         /\ \A k \in 1 .. Len(s) :
              Kept(s)[k] = IF s[k] = ExitMsg THEN Kept(s)[k - 1] ELSE Append(Kept(s)[k - 1], s[k])
<1>1. Keeps(s, Len(s), Kept(s))
  BY KeptExists DEF Kept
<1>2. WithoutExit(s) = Kept(s)[Len(s)]
  BY DEF WithoutExit, Kept, Keeps
<1> DEFINE f == Kept(s)
<1> HIDE DEF f
<1>3. f = [k \in 0 .. Len(s) |->
             IF k = 0 THEN <<>>
             ELSE IF s[k] = ExitMsg THEN f[k - 1] ELSE Append(f[k - 1], s[k])]
  BY <1>1 DEF Keeps, f
<1>4. \A k \in 0 .. Len(s) :
        f[k] = IF k = 0 THEN <<>>
               ELSE IF s[k] = ExitMsg THEN f[k - 1] ELSE Append(f[k - 1], s[k])
  BY <1>3
<1>5. /\ 0 \in 0 .. Len(s)
      /\ \A k \in 1 .. Len(s) : k \in 0 .. Len(s) /\ k # 0
  OBVIOUS
<1>6. f[0] = <<>>
  BY <1>4, <1>5
<1>7. \A k \in 1 .. Len(s) : f[k] = IF s[k] = ExitMsg THEN f[k - 1] ELSE Append(f[k - 1], s[k])
  BY <1>4, <1>5
<1> QED
  BY <1>2, <1>6, <1>7 DEF f

LEMMA KeptNext ==
  ASSUME NEW s, Len(s) \in Nat, NEW k \in Nat, k + 1 \in 1 .. Len(s)
  PROVE  Kept(s)[k + 1] = IF s[k + 1] = ExitMsg THEN Kept(s)[k] ELSE Append(Kept(s)[k], s[k + 1])
<1>1. (k + 1) - 1 = k
  OBVIOUS
<1> QED
  BY <1>1, KeptIs

LEMMA ElementsAppend ==
  ASSUME NEW M, NEW t \in Seq(M), NEW m \in M
  PROVE  Append(t, m) \in Seq(M) /\ Elements(Append(t, m)) = Elements(t) \cup {m}
<1>1. /\ Append(t, m) \in Seq(M) /\ Len(Append(t, m)) = Len(t) + 1 /\ Len(t) \in Nat
      /\ Append(t, m)[Len(t) + 1] = m /\ \A i \in 1 .. Len(t) : Append(t, m)[i] = t[i]
  BY AppendProperties, LenProperties
<1>2. 1 .. Len(t) + 1 = (1 .. Len(t)) \cup {Len(t) + 1}
  BY <1>1
<1>3. Elements(Append(t, m)) = {Append(t, m)[i] : i \in (1 .. Len(t)) \cup {Len(t) + 1}}
  BY <1>1, <1>2 DEF Elements
<1>4. Elements(t) = {Append(t, m)[i] : i \in 1 .. Len(t)}
  BY <1>1 DEF Elements
<1> QED
  BY <1>1, <1>3, <1>4

LEMMA AppendBehind ==
  ASSUME NEW M, NEW t \in Seq(M), NEW m \in M, NEW x \in M
  PROVE  Append(<<x>> \o t, m) = <<x>> \o Append(t, m)
<1>1. <<x>> \in Seq(M) /\ <<m>> \in Seq(M)
  OBVIOUS
<1>2. <<x>> \o t \in Seq(M)
  BY <1>1, ConcatProperties
<1>3. Append(<<x>> \o t, m) = (<<x>> \o t) \o <<m>> /\ Append(t, m) = t \o <<m>>
  BY <1>2, AppendIsConcat
<1>4. (<<x>> \o t) \o <<m>> = <<x>> \o (t \o <<m>>)
  BY <1>1, ConcatAssociative
<1> QED
  BY <1>3, <1>4

\* What is kept are the delegate messages among the first k.
LEMMA KeptMessages ==
  ASSUME NEW s \in Seq(AnyMessage), NEW n \in 0 .. Len(s)
  PROVE  /\ Kept(s)[n] \in Seq(Message)
         /\ Elements(Kept(s)[n]) = {s[i] : i \in 1 .. n} \ {ExitMsg}
<1> DEFINE P(k) == /\ Kept(s)[k] \in Seq(Message)
                   /\ Elements(Kept(s)[k]) = {s[i] : i \in 1 .. k} \ {ExitMsg}
           T == {k \in 0 .. Len(s) : P(k)}
<1>1. Len(s) \in Nat /\ \A k \in 1 .. Len(s) : s[k] \in AnyMessage
  BY LenProperties, ElementOfSeq
<1>2. 0 \in T
  <2>1. Kept(s)[0] = <<>> /\ 0 \in 0 .. Len(s)
    BY <1>1, KeptIs
  <2>2. Elements(<<>>) = {}
    BY EmptySeq DEF Elements
  <2>3. {s[i] : i \in 1 .. 0} = {}
    OBVIOUS
  <2> QED
    BY <2>1, <2>2, <2>3, EmptySeq
<1>3. ASSUME NEW k \in 0 .. Len(s) - 1, k \in T
      PROVE  k + 1 \in T
  <2>1. k + 1 \in 1 .. Len(s) /\ k + 1 \in 0 .. Len(s) /\ (k + 1) - 1 = k
    BY <1>1
  <2>2. Kept(s)[k + 1] = IF s[k + 1] = ExitMsg THEN Kept(s)[k] ELSE Append(Kept(s)[k], s[k + 1])
    BY <1>1, <2>1, KeptNext
  <2>3. {s[i] : i \in 1 .. k + 1} = {s[i] : i \in 1 .. k} \cup {s[k + 1]}
    <3>1. 1 .. k + 1 = (1 .. k) \cup {k + 1}
      BY <2>1
    <3> QED
      BY <3>1
  <2>4. P(k)
    BY <1>3
  <2>5. CASE s[k + 1] = ExitMsg
    <3>1. Kept(s)[k + 1] = Kept(s)[k]
      BY <2>2, <2>5
    <3>2. P(k + 1)
      BY <2>3, <2>4, <2>5, <3>1
    <3> QED
      BY <2>1, <3>2
  <2>6. CASE s[k + 1] # ExitMsg
    <3> DEFINE t == Kept(s)[k]
               m == s[k + 1]
    <3>1. t \in Seq(Message) /\ m \in Message /\ Kept(s)[k + 1] = Append(t, m)
      BY <1>1, <2>1, <2>2, <2>4, <2>6 DEF AnyMessage
    <3>2. Append(t, m) \in Seq(Message) /\ Elements(Append(t, m)) = Elements(t) \cup {m}
      BY <3>1, ElementsAppend
    <3>3. P(k + 1)
      BY <2>3, <2>4, <2>6, <3>1, <3>2
    <3> QED
      BY <2>1, <3>3
  <2> QED
    BY <2>5, <2>6
<1> HIDE DEF T
<1>4. n \in T
  BY <1>1, <1>2, <1>3, UpTo
<1> QED
  BY <1>4 DEF T

LEMMA WithoutExitMessages ==
  ASSUME NEW s \in Seq(AnyMessage)
  PROVE  /\ WithoutExit(s) \in Seq(Message)
         /\ Elements(WithoutExit(s)) = Elements(s) \ {ExitMsg}
<1>1. Len(s) \in Nat /\ Len(s) \in 0 .. Len(s)
  BY LenProperties
<1>2. WithoutExit(s) = Kept(s)[Len(s)]
  BY <1>1, KeptIs
<1>3. /\ Kept(s)[Len(s)] \in Seq(Message)
      /\ Elements(Kept(s)[Len(s)]) = {s[i] : i \in 1 .. Len(s)} \ {ExitMsg}
  BY <1>1, KeptMessages
<1> QED
  BY <1>2, <1>3 DEF Elements

LEMMA WithoutExitAppend ==
  ASSUME NEW s \in Seq(AnyMessage), NEW m \in AnyMessage
  PROVE  WithoutExit(Append(s, m)) = IF m = ExitMsg THEN WithoutExit(s)
                                     ELSE Append(WithoutExit(s), m)
<1> DEFINE u == Append(s, m)
           T == {k \in 0 .. Len(s) : Kept(u)[k] = Kept(s)[k]}
<1>1. Len(s) \in Nat
  BY LenProperties
<1>2. /\ u \in Seq(AnyMessage) /\ Len(u) = Len(s) + 1 /\ u[Len(s) + 1] = m
      /\ \A k \in 1 .. Len(s) : u[k] = s[k]
  BY AppendProperties
<1> HIDE DEF u
<1>3. 0 \in T
  BY <1>1, <1>2, KeptIs
<1>4. ASSUME NEW k \in 0 .. Len(s) - 1, k \in T
      PROVE  k + 1 \in T
  <2>1. /\ k \in Nat /\ k + 1 \in 1 .. Len(s) /\ k + 1 \in 0 .. Len(s)
        /\ Len(u) \in Nat /\ k + 1 \in 1 .. Len(u)
    BY <1>1, <1>2
  <2>2. Kept(s)[k + 1] = IF s[k + 1] = ExitMsg THEN Kept(s)[k] ELSE Append(Kept(s)[k], s[k + 1])
    BY <1>1, <2>1, KeptNext
  <2>3. Kept(u)[k + 1] = IF u[k + 1] = ExitMsg THEN Kept(u)[k] ELSE Append(Kept(u)[k], u[k + 1])
    BY <1>1, <1>2, <2>1, KeptNext
  <2> QED
    BY <1>2, <1>4, <2>1, <2>2, <2>3
<1> HIDE DEF T
<1>5. Len(s) \in T
  <2>1. Len(s) \in 0 .. Len(s)
    BY <1>1
  <2> QED
    BY <1>1, <1>3, <1>4, <2>1, UpTo
<1>6. Kept(u)[Len(s)] = WithoutExit(s)
  BY <1>1, <1>5, KeptIs DEF T
<1>7. Len(s) + 1 \in 1 .. Len(u) /\ (Len(s) + 1) - 1 = Len(s) /\ Len(u) \in Nat
  BY <1>1, <1>2
<1>8. Kept(u)[Len(s) + 1] = IF u[Len(s) + 1] = ExitMsg THEN Kept(u)[Len(s)]
                            ELSE Append(Kept(u)[Len(s)], u[Len(s) + 1])
  BY <1>1, <1>7, KeptNext
<1>9. WithoutExit(u) = Kept(u)[Len(s) + 1]
  BY <1>2, <1>7, KeptIs
<1> QED
  BY <1>2, <1>6, <1>8, <1>9 DEF u

\* The first message, if it is not the exit message, is the first that is kept.
LEMMA WithoutExitTail ==
  ASSUME NEW s \in Seq(AnyMessage), s # <<>>
  PROVE  WithoutExit(s) = IF Head(s) = ExitMsg THEN WithoutExit(Tail(s))
                          ELSE <<Head(s)>> \o WithoutExit(Tail(s))
<1> DEFINE u == Tail(s)
           With(t) == IF s[1] = ExitMsg THEN t ELSE <<s[1]>> \o t
           T == {k \in 0 .. Len(u) : Kept(s)[k + 1] = With(Kept(u)[k])}
<1>1. /\ u \in Seq(AnyMessage) /\ Len(u) = Len(s) - 1 /\ Len(s) \in Nat \ {0} /\ Len(u) \in Nat
      /\ Head(s) = s[1] /\ \A k \in 1 .. Len(u) : u[k] = s[k + 1]
  BY EmptySeq, LenProperties, HeadTailProperties
<1>0. \A k \in 1 .. Len(s) : s[k] \in AnyMessage
  BY ElementOfSeq
<1> HIDE DEF u
<1>2. 0 \in T
  <2>1. 0 \in Nat /\ 0 + 1 = 1 /\ 0 + 1 \in 1 .. Len(s) /\ 1 \in 1 .. Len(s) /\ 0 \in 0 .. Len(u)
    BY <1>1
  <2>2. Kept(s)[1] = IF s[1] = ExitMsg THEN <<>> ELSE Append(<<>>, s[1])
    <3>1. Kept(s)[0 + 1] = IF s[0 + 1] = ExitMsg THEN Kept(s)[0] ELSE Append(Kept(s)[0], s[0 + 1])
      BY <1>1, <2>1, KeptNext
    <3>2. Kept(s)[0] = <<>>
      BY <1>1, KeptIs
    <3> QED
      BY <2>1, <3>1, <3>2
  <2>3. Kept(u)[0] = <<>>
    BY <1>1, KeptIs
  <2>4. s[1] # ExitMsg => s[1] \in Message
    BY <1>0, <2>1 DEF AnyMessage
  <2>5. s[1] # ExitMsg => Append(<<>>, s[1]) = <<s[1]>> \o <<>>
    BY <2>4, EmptySeq, ConcatEmptySeq
  <2> QED
    BY <2>1, <2>2, <2>3, <2>5
<1>3. ASSUME NEW k \in 0 .. Len(u) - 1, k \in T
      PROVE  k + 1 \in T
  <2>1. /\ k + 1 \in 1 .. Len(u) /\ k + 1 \in 0 .. Len(u) /\ (k + 1) - 1 = k
        /\ (k + 1) + 1 \in 1 .. Len(s) /\ k \in Nat /\ k + 1 \in Nat /\ k \in 0 .. Len(u)
    BY <1>1
  <2> DEFINE m == u[k + 1]
             t == Kept(u)[k]
  <2>2. Kept(u)[k + 1] = IF m = ExitMsg THEN t ELSE Append(t, m)
    BY <1>1, <2>1, KeptNext
  <2>3. m = s[(k + 1) + 1]
    BY <1>1, <2>1
  <2>4. Kept(s)[(k + 1) + 1] = IF m = ExitMsg THEN Kept(s)[k + 1] ELSE Append(Kept(s)[k + 1], m)
    BY <1>1, <2>1, <2>3, KeptNext
  <2>5. Kept(s)[k + 1] = With(t)
    BY <1>3
  <2>6. t \in Seq(Message) /\ m \in AnyMessage /\ s[1] \in AnyMessage
    BY <1>0, <1>1, <2>1, <2>3, KeptMessages
  <2> HIDE DEF m, t
  <2>7. m # ExitMsg => Append(With(t), m) = With(Append(t, m))
    <3>1. CASE s[1] = ExitMsg
      BY <3>1
    <3>2. CASE s[1] # ExitMsg
      <4>1. m # ExitMsg => m \in Message
        BY <2>6 DEF AnyMessage
      <4>2. s[1] \in Message
        BY <2>6, <3>2 DEF AnyMessage
      <4>3. m # ExitMsg => Append(<<s[1]>> \o t, m) = <<s[1]>> \o Append(t, m)
        BY <2>6, <4>1, <4>2, AppendBehind
      <4> QED
        BY <3>2, <4>3
    <3> QED
      BY <3>1, <3>2
  <2>8. Kept(s)[(k + 1) + 1] = With(Kept(u)[k + 1])
    BY <2>2, <2>4, <2>5, <2>7
  <2> QED
    BY <2>1, <2>8
<1> HIDE DEF T
<1>4. Len(u) \in T
  <2>1. Len(u) \in 0 .. Len(u)
    BY <1>1
  <2> QED
    BY <1>1, <1>2, <1>3, <2>1, UpTo
<1>5. Kept(s)[Len(u) + 1] = With(Kept(u)[Len(u)])
  BY <1>4 DEF T
<1>6. Len(u) + 1 = Len(s)
  BY <1>1
<1>7. WithoutExit(s) = Kept(s)[Len(s)] /\ WithoutExit(u) = Kept(u)[Len(u)]
  BY <1>1, KeptIs
<1> QED
  BY <1>1, <1>5, <1>6, <1>7 DEF u

LEMMA WithoutExitEmpty == WithoutExit(<<>>) = <<>>
<1>1. <<>> \in Seq(AnyMessage)
  OBVIOUS
<1>2. Elements(<<>>) = {}
  BY EmptySeq DEF Elements
<1>3. WithoutExit(<<>>) \in Seq(Message) /\ Elements(WithoutExit(<<>>)) = {}
  BY <1>1, <1>2, WithoutExitMessages
<1>4. \A t \in Seq(Message) : Elements(t) = {} => t = <<>>
  <2> SUFFICES ASSUME NEW t \in Seq(Message), Elements(t) = {} PROVE t = <<>>
    OBVIOUS
  <2>1. Len(t) \in Nat /\ \A i \in 1 .. Len(t) : t[i] \in Elements(t)
    BY LenProperties DEF Elements
  <2>2. Len(t) = 0
    BY <2>1
  <2> QED
    BY <2>2, EmptySeq
<1> QED
  BY <1>3, <1>4
-----------------------------------------------------------------------------
(***************************************************************************)
(* What a step of the worker and of the owner is, on any kernel.           *)
(***************************************************************************)
Loop == {"head", "wait", "high", "normal", "poll"}

\* The worker takes a message, moves on, or is done with the one it has.
Takes(l) ==
  /\ lanes[l] # <<>>
  /\ TakeFrom(l)
  /\ worker \in {"wait", "high", "normal"}
  /\ l = "NORMAL" => worker = "normal" \/ lanes["HIGH"] = <<>>
  /\ UNCHANGED <<exitSem, executed>>

Moves ==
  /\ worker \in Loop /\ worker' \in Loop \cup {"done"}
  /\ worker' = "normal" => lanes["HIGH"] = <<>>
  /\ exitSem' = exitSem \/ (exitSem' = 1 /\ worker' = "done")
  /\ UNCHANGED <<lanes, job, executed>>

Returns ==
  /\ \/ worker = "running" /\ worker' \in {"head", "wait"}
     \/ worker = "exited" /\ worker' = "done"
  /\ pc[Worker] = "idle" \/ worker = "exited"
  /\ job \in Message /\ executed' = executed \cup {job} /\ job' = None
  /\ UNCHANGED <<lanes, exitSem>>

Exits ==
  /\ worker = "running" /\ worker' = "done"
  /\ job = ExitMsg /\ job' = None
  /\ exitSem' = exitSem \/ exitSem' = 1
  /\ UNCHANGED <<lanes, executed>>

LEMMA WorkerSteps ==
  ASSUME TypeInv, WorkerStep
  PROVE  /\ (\E l \in Lane : Takes(l)) \/ Moves \/ Returns \/ Exits
         /\ UNCHANGED <<config, lifecycle, callers, stopped, refused, discarded>>
<1> DEFINE Goal == (\E l \in Lane : Takes(l)) \/ Moves \/ Returns \/ Exits
<1>1. UNCHANGED <<config, lifecycle, callers, stopped, refused, discarded>>
  BY DEF WorkerStep
<1> SUFFICES Goal
  BY <1>1
<1>2. "HIGH" \in Lane /\ "NORMAL" \in Lane
  BY DEF Lane
<1>3. CASE (\/ FreeRTOSReceive \/ ThreadXReceive \/ ZephyrReceive \/ CmsisReceive \/ Win32Take)
           /\ UNCHANGED <<exitSem, executed>>
  <2>1. ASSUME PopHigh PROVE Goal
    <3>1. CASE lanes["HIGH"] # <<>>
      <4>1. Takes("HIGH")
        BY <1>3, <2>1, <3>1 DEF PopHigh, Takes
      <4> QED
        BY <1>2, <4>1
    <3>2. CASE lanes["HIGH"] = <<>>
      <4>1. Moves
        BY <1>3, <2>1, <3>2 DEF PopHigh, Moves, Loop
      <4> QED
        BY <4>1
    <3> QED
      BY <3>1, <3>2
  <2>2. ASSUME NEW otherwise \in {"head", "poll"}, PopNormal(otherwise) PROVE Goal
    <3>1. CASE lanes["NORMAL"] # <<>>
      <4>1. Takes("NORMAL")
        BY <1>3, <2>2, <3>1 DEF PopNormal, Takes
      <4> QED
        BY <1>2, <4>1
    <3>2. CASE lanes["NORMAL"] = <<>>
      <4>1. Moves
        BY <1>3, <2>2, <3>2 DEF PopNormal, Moves, Loop
      <4> QED
        BY <4>1
    <3> QED
      BY <3>1, <3>2
  <2>3. ASSUME TakeToken \/ WaitTimesOut PROVE Goal
    <3>1. worker \in {"wait", "poll"} /\ worker' \in {"high", "head"} /\ UNCHANGED <<job, lanes>>
      BY <2>3 DEF TakeToken, WaitTimesOut, queue
    <3>2. Moves
      BY <1>3, <3>1 DEF Moves, Loop
    <3> QED
      BY <3>2
  <2>4. ASSUME TakeFirst PROVE Goal
    <3>1. CASE lanes["HIGH"] # <<>>
      <4>1. Takes("HIGH")
        BY <1>3, <2>4, <3>1 DEF TakeFirst, Takes
      <4> QED
        BY <1>2, <4>1
    <3>2. CASE lanes["HIGH"] = <<>>
      <4>1. Takes("NORMAL")
        BY <1>3, <2>4, <3>2 DEF TakeFirst, Empty, Takes
      <4> QED
        BY <1>2, <4>1
    <3> QED
      BY <3>1, <3>2
  <2>5. CASE FreeRTOSReceive \/ ThreadXReceive
    BY <2>1, <2>2, <2>3, <2>5 DEF FreeRTOSReceive, ThreadXReceive
  <2>6. CASE ZephyrReceive
    <3>1. CASE worker = "poll" /\ ~Empty /\ worker' = "high" /\ UNCHANGED <<job, queue>>
      <4>1. Moves
        BY <1>3, <3>1 DEF Moves, Loop, queue
      <4> QED
        BY <4>1
    <3> QED
      BY <2>1, <2>2, <2>3, <2>6, <3>1 DEF ZephyrReceive
  <2>7. CASE CmsisReceive \/ Win32Take
    BY <2>3, <2>4, <2>7 DEF CmsisReceive, Win32Take
  <2> QED
    BY <1>3, <2>5, <2>6, <2>7
<1>4. CASE (\/ FreeRTOSRun \/ ThreadXRun \/ ZephyrRun \/ CmsisRun \/ Win32Process)
           /\ UNCHANGED queue
  <2>1. ASSUME NEW receive \in {"wait", "high"}, LoopHead(receive) PROVE Goal
    <3>1. Moves
      BY <1>4, <2>1 DEF LoopHead, Leave, Moves, Loop, queue
    <3> QED
      BY <3>1
  <2>2. ASSUME NEW next \in {"head", "wait"}, HandlerReturns(next) PROVE Goal
    <3>1. Returns
      BY <1>4, <2>2 DEF HandlerReturns, Returns, queue
    <3> QED
      BY <3>1
  <2>3. ASSUME ExitReceived, Leave \/ (worker' = "done" /\ UNCHANGED exitSem) PROVE Goal
    <3>1. Exits
      BY <1>4, <2>3 DEF ExitReceived, Leave, Exits, queue
    <3> QED
      BY <3>1
  <2>4. ASSUME SelfExitReturns PROVE Goal
    <3>1. Returns
      BY <1>4, <2>4 DEF SelfExitReturns, Returns, queue, TypeInv, ExitedJob
    <3> QED
      BY <3>1
  <2>5. CASE FreeRTOSRun \/ ThreadXRun
    BY <2>1, <2>2, <2>3, <2>4, <2>5 DEF FreeRTOSRun, ThreadXRun
  <2>6. CASE ZephyrRun \/ CmsisRun
    BY <2>1, <2>2, <2>3, <2>4, <2>6 DEF ZephyrRun, CmsisRun
  <2>7. CASE Win32Process
    <3>1. CASE /\ worker = "wait" /\ Empty /\ m_exit
               /\ worker' = "done"
               /\ UNCHANGED <<job, executed, exitSem>>
      <4>1. Moves
        BY <1>4, <3>1 DEF Moves, Loop, queue
      <4> QED
        BY <4>1
    <3> QED
      BY <2>2, <2>3, <2>4, <2>7, <3>1 DEF Win32Process
  <2> QED
    BY <1>4, <2>5, <2>6, <2>7
<1> QED
  BY <1>3, <1>4 DEF WorkerStep

\* The owner destroys the thread, for itself or in a handler.
Destroys ==
  /\ port # "Win32"
  /\ DrainAndDestroy
  /\ \/ /\ HandlerExits
        /\ UNCHANGED <<m_selfExited, owner, exitSem>>
     \/ /\ owner = "cleanup" /\ owner' = "idle"
        /\ m_selfExited' = FALSE \/ (m_selfExited' = m_selfExited /\ port # "Zephyr")
        /\ UNCHANGED <<m_exit, worker, exitSem>>

\* The owner moves on in ExitThread(), where the exit message may be put in a lane.
Asks ==
  /\ owner = "idle" /\ created
  /\ m_exit'
  /\ owner' \in {"sending", "joining", "cleanup"}
  /\ owner' = "cleanup" => m_selfExited /\ worker # "exited"
  /\ UNCHANGED exitSem

Waits ==
  /\ owner \in {"sending", "ringing", "joining"}
  /\ \/ owner' \in {"ringing", "joining"} /\ UNCHANGED exitSem
     \/ owner' = "cleanup" /\ exitSem = 1 /\ exitSem' = 0
  /\ UNCHANGED m_exit

OwnerMoves ==
  /\ Asks \/ (Waits /\ port # "Win32")
  /\ port = "Win32" => owner' = "joining"
  /\ UNCHANGED <<created, m_selfExited, worker, undefined, discarded>>
  /\ lanes' = lanes \/ \E l \in Lane : PushBack(l, ExitMsg)

Joins ==
  /\ port = "Win32"
  /\ owner = "joining" /\ owner' = "idle"
  /\ worker = "done" /\ created' = FALSE
  /\ UNCHANGED <<m_exit, m_selfExited, lanes, exitSem, undefined, discarded, worker>>

\* A handler that exits the thread but leaves its queue.
Deserts ==
  /\ HandlerExits
  /\ \/ /\ port = "Zephyr"
        /\ m_selfExited'
        /\ UNCHANGED <<created, lanes>>
     \/ /\ port = "Win32"
        /\ created' = FALSE
        /\ PushBack("HIGH", ExitMsg)
        /\ UNCHANGED m_selfExited
  /\ UNCHANGED <<owner, exitSem, undefined, discarded>>

LEMMA ExitSteps ==
  ASSUME SelfExit \/ ExitThread
  PROVE  /\ Destroys \/ OwnerMoves \/ Joins \/ Deserts
         /\ UNCHANGED <<config, lives, job, callers, fault, refused, executed>>
<1> DEFINE Goal == Destroys \/ OwnerMoves \/ Joins \/ Deserts
<1>1. "HIGH" \in Lane /\ "NORMAL" \in Lane
  BY DEF Lane
<1>0. UNCHANGED <<config, lives, job, callers, fault, refused, executed>>
  BY DEF SelfExit, ExitThread
<1> SUFFICES Goal
  BY <1>0
<1>2. CASE SelfExit
  <2>1. UNCHANGED <<config, owner, lives, exitSem, job, callers, fault, refused, executed>>
    BY <1>2 DEF SelfExit
  <2>2. CASE FreeRTOSSelfExit \/ ThreadXSelfExit \/ CmsisSelfExit
    <3>1. Destroys
      BY <2>1, <2>2 DEF FreeRTOSSelfExit, ThreadXSelfExit, CmsisSelfExit, Destroys
    <3> QED
      BY <3>1
  <2>3. CASE ZephyrSelfExit
    <3>1. Deserts
      BY <2>1, <2>3 DEF ZephyrSelfExit, Deserts, queue
    <3> QED
      BY <3>1
  <2>4. CASE Win32SelfExit
    <3>1. Deserts
      BY <2>1, <2>4 DEF Win32SelfExit, Deserts
    <3> QED
      BY <3>1
  <2> QED
    BY <1>2, <2>2, <2>3, <2>4 DEF SelfExit
<1>3. CASE ExitThread
  <2>1. UNCHANGED <<config, lives, worker, job, callers, fault, refused, executed>>
    BY <1>3 DEF ExitThread
  <2>2. ASSUME port # "Win32", RequestExit("sending") PROVE Goal
    <3>1. OwnerMoves
      BY <2>1, <2>2 DEF RequestExit, OwnerMoves, Asks, queue
    <3> QED
      BY <3>1
  <2>3. ASSUME port # "Win32", NEW next \in {"ringing", "joining"}, SendExit(next) PROVE Goal
    <3>1. OwnerMoves
      BY <1>1, <2>1, <2>3 DEF SendExit, OwnerMoves, Waits
    <3> QED
      BY <3>1
  <2>4. ASSUME port # "Win32", RingExit \/ TakeExitSem PROVE Goal
    <3>1. OwnerMoves
      BY <2>1, <2>4 DEF RingExit, TakeExitSem, OwnerMoves, Waits, queue
    <3> QED
      BY <3>1
  <2>5. ASSUME port \notin {"Win32", "Zephyr"}, Cleanup, UNCHANGED m_selfExited PROVE Goal
    <3>1. Destroys
      BY <2>1, <2>5 DEF Cleanup, Destroys
    <3> QED
      BY <3>1
  <2>6. CASE FreeRTOSExitThread
    BY <2>2, <2>3, <2>4, <2>5, <2>6 DEF FreeRTOSExitThread
  <2>7. CASE ThreadXExitThread
    BY <2>2, <2>3, <2>4, <2>5, <2>7 DEF ThreadXExitThread
  <2>8. CASE CmsisExitThread
    BY <2>2, <2>3, <2>4, <2>5, <2>8 DEF CmsisExitThread
  <2>9. CASE ZephyrExitThread
    <3>1. CASE RequestExit(IF m_selfExited THEN "cleanup" ELSE "sending")
      <4>1. OwnerMoves
        BY <2>1, <2>9, <3>1 DEF RequestExit, OwnerMoves, Asks, queue, ZephyrExitThread
      <4> QED
        BY <4>1
    <3>2. CASE worker = "done" /\ Cleanup /\ m_selfExited' = FALSE
      <4>1. Destroys
        BY <2>1, <2>9, <3>2 DEF Cleanup, Destroys, ZephyrExitThread
      <4> QED
        BY <4>1
    <3> QED
      BY <2>3, <2>4, <2>9, <3>1, <3>2 DEF ZephyrExitThread
  <2>10. CASE Win32ExitThread
    <3>1. CASE owner = "idle"
      <4>1. OwnerMoves
        BY <1>1, <2>1, <2>10, <3>1 DEF Win32ExitThread, OwnerMoves, Asks
      <4> QED
        BY <4>1
    <3>2. CASE owner = "joining"
      <4>1. Joins
        BY <2>1, <2>10, <3>2 DEF Win32ExitThread, Joins
      <4> QED
        BY <4>1
    <3> QED
      BY <2>10, <3>1, <3>2 DEF Win32ExitThread
  <2> QED
    BY <1>3, <2>6, <2>7, <2>8, <2>9, <2>10 DEF ExitThread
<1> QED
  BY <1>2, <1>3

-----------------------------------------------------------------------------
(***************************************************************************)
(* RtosThread implements PriorityChannel.                                  *)
(***************************************************************************)
Begun == Queued \cup {job} \cup executed \cup discarded

\* A message is in one call only, and not also in the thread.
CallsAreDistinct == \A p, q \in Caller : arg[p] \in Message /\ arg[p] = arg[q] => p = q
OfferedOnce == \A p \in Caller : arg[p] \in Message => arg[p] \notin Begun

\* Who relies on the thread finds it there: callers, the worker in its loop, the owner
\* in ExitThread().  A worker that has told the owner that it ends has ended.
Alive ==
  /\ \A p \in Caller : pc[p] # "idle" => created \/ (port = "Win32" /\ m_exit)
  /\ pc[Worker] # "idle" => worker = "running" /\ job \in Message
  /\ worker \notin {"none", "exited", "done"} => created
  /\ job # None => worker \in {"running", "exited"}
  /\ owner # "idle" => created /\ (port = "Win32" => m_exit)
  /\ port # "Win32" /\ exitSem = 1 => worker = "done" /\ created
  /\ owner = "cleanup" => port # "Win32" /\ exitSem = 0 /\ worker = "done"
  /\ m_selfExited => /\ port = "Zephyr" /\ created /\ exitSem = 0
                     /\ worker \in {"exited", "done"}

OnceInv == CallsAreDistinct /\ OfferedOnce
AliveInv == ~undefined => Alive

LEMMA RefinementInit == Init => OnceInv /\ AliveInv
<1> SUFFICES ASSUME Init PROVE OnceInv /\ AliveInv
  OBVIOUS
<1>1. None \notin Message /\ Worker \in Caller
  BY MessageAssumption DEF Caller
<1>2. OnceInv
  BY <1>1 DEF Init, OnceInv, CallsAreDistinct, OfferedOnce
<1>3. Alive
  BY <1>1 DEF Init, Alive
<1> QED
  BY <1>2, <1>3 DEF AliveInv

\* The set of what is queued grows and shrinks with the lanes.
LEMMA QueuedPush ==
  ASSUME Lanes, NEW l \in Lane, NEW m \in AnyMessage, PushBack(l, m)
  PROVE  Queued' \subseteq Queued \cup {m}
<1>1. lanes' = [lanes EXCEPT ![l] = Append(@, m)]
  BY DEF PushBack
<1>2. Elements(lanes'[l]) = Elements(lanes[l]) \cup {m}
  BY <1>1, ElementsAppend DEF Lanes
<1>3. \A k \in Lane : k # l => lanes'[k] = lanes[k]
  BY <1>1 DEF Lanes
<1>4. \A k \in Lane : Elements(lanes'[k]) \subseteq Elements(lanes[k]) \cup {m}
  BY <1>2, <1>3
<1> QED
  BY <1>4 DEF Queued, Lane

LEMMA QueuedTake ==
  ASSUME Lanes, NEW l \in Lane, lanes[l] # <<>>, TakeFrom(l)
  PROVE  Queued' \subseteq Queued /\ (job' \in Message => job' \in Queued)
<1>1. lanes' = [lanes EXCEPT ![l] = Tail(@)] /\ job' = Head(lanes[l])
  BY DEF TakeFrom
<1> DEFINE s == lanes[l]
<1>2. s \in Seq(AnyMessage) /\ s # <<>>
  BY DEF Lanes
<1> HIDE DEF s
<1>3. /\ Len(s) \in Nat \ {0} /\ Head(s) = s[1] /\ Len(Tail(s)) = Len(s) - 1
      /\ \A i \in 1 .. Len(Tail(s)) : Tail(s)[i] = s[i + 1]
  BY <1>2, EmptySeq, LenProperties, HeadTailProperties
<1>4. \A i \in 1 .. Len(Tail(s)) : i + 1 \in 1 .. Len(s)
  BY <1>3
<1>5. Elements(Tail(s)) \subseteq Elements(s)
  BY <1>3, <1>4 DEF Elements
<1>6. Head(s) \in Elements(s)
  <2>1. 1 \in 1 .. Len(s)
    BY <1>3
  <2> QED
    BY <1>3, <2>1 DEF Elements
<1>7. lanes'[l] = Tail(s) /\ \A k \in Lane : k # l => lanes'[k] = lanes[k]
  BY <1>1 DEF Lanes, s
<1>8. \A k \in Lane : Elements(lanes'[k]) \subseteq Elements(lanes[k])
  BY <1>5, <1>7 DEF s
<1>9. Queued' \subseteq Queued
  BY <1>8 DEF Queued, Lane
<1>10. job' \in Message => job' \in Queued
  BY <1>1, <1>6, MessageAssumption DEF Queued, Lane, s
<1> QED
  BY <1>9, <1>10

LEMMA QueuedDestroy ==
  ASSUME DrainAndDestroy
  PROVE  Queued' = {} /\ discarded' = discarded \cup Queued
<1>1. lanes'["HIGH"] = <<>> /\ lanes'["NORMAL"] = <<>>
  BY DEF DrainAndDestroy, Lane
<1> QED
  BY <1>1 DEF DrainAndDestroy, Queued, Elements

\* What is in the thread stays there, but for a message that a caller puts in.
LEMMA OnceCaller ==
  ASSUME TypeInv, OnceInv, NEW p \in Caller, DispatchDelegate(p)
  PROVE  OnceInv'
<1>1. CallerStep(p) /\ UNCHANGED <<config, lifecycle, exitSem, worker, job>>
  BY CallerSteps
<1>2. arg \in [Caller -> Message \cup {None}] /\ None \notin Message /\ Lanes
  BY MessageAssumption DEF TypeInv, TypeOK, Lanes
<1>3. ASSUME arg' = [arg EXCEPT ![p] = None], Begun' \subseteq Begun \cup {arg[p]}
      PROVE  OnceInv'
  BY <1>2, <1>3 DEF OnceInv, CallsAreDistinct, OfferedOnce
<1>4. ASSUME UNCHANGED <<arg, Begun>>
      PROVE  OnceInv'
  BY <1>4 DEF OnceInv, CallsAreDistinct, OfferedOnce
<1>5. UNCHANGED <<lanes, executed, discarded>> => UNCHANGED Begun
  BY <1>1 DEF Begun, Queued
<1>6. CASE \E m \in Message : Call(p, m) /\ (BeginDispatch(p, m) \/ RefuseAtOnce(m))
  <2>1. PICK m \in Message : Call(p, m) /\ (BeginDispatch(p, m) \/ RefuseAtOnce(m))
    BY <1>6
  <2>2. CASE BeginDispatch(p, m)
    <3>1. arg' = [arg EXCEPT ![p] = m] /\ UNCHANGED Begun
      BY <1>5, <2>2 DEF BeginDispatch, queue, outcome
    <3>2. m \notin Begun /\ \A q \in Caller : arg[q] # m
      BY <2>1 DEF Call, Known, Begun
    <3> QED
      BY <1>2, <3>1, <3>2 DEF OnceInv, CallsAreDistinct, OfferedOnce
  <2>3. CASE RefuseAtOnce(m)
    BY <1>4, <1>5, <2>3 DEF RefuseAtOnce, queue, callers
  <2> QED
    BY <2>1, <2>2, <2>3
<1>7. CASE FaultStops
  BY <1>4, <1>5, <1>7 DEF FaultStops, queue, callers, outcome
<1>8. CASE Refuse(p)
  BY <1>3, <1>5, <1>8 DEF Refuse, Return, queue
<1>9. CASE Blocks(p) \/ Ring(p)
  BY <1>4, <1>5, <1>9 DEF Blocks, Ring, queue, outcome
<1>10. CASE \E after \in {"idle", "ring"} : Put(p, after)
  <2>1. PICK after \in {"idle", "ring"} : Put(p, after)
    BY <1>10
  <2>2. Queued' \subseteq Queued \cup {arg[p]}
    BY <1>2, <2>1, PutLemma, QueuedPush
  <2>3. Begun' \subseteq Begun \cup {arg[p]}
    BY <1>1, <2>1, <2>2 DEF Begun, Put, outcome
  <2> QED
    BY <1>3, <2>1, <2>3 DEF Put
<1> QED
  BY <1>1, <1>6, <1>7, <1>8, <1>9, <1>10 DEF CallerStep

LEMMA OnceOthers ==
  ASSUME TypeInv, OnceInv, UNCHANGED arg,
         (Begun' \cap Message) \subseteq Begun
  PROVE  OnceInv'
BY DEF OnceInv, CallsAreDistinct, OfferedOnce

LEMMA OnceNext ==
  ASSUME TypeInv, OnceInv, Step
  PROVE  OnceInv'
<1>1. Lanes /\ None \notin Message
  BY MessageAssumption DEF TypeInv, TypeOK, Lanes
<1>2. CASE \E p \in Caller : DispatchDelegate(p)
  BY <1>2, OnceCaller
<1>3. CASE WorkerStep
  <2>1. UNCHANGED <<callers, refused, discarded>>
    BY <1>3, WorkerSteps
  <2>2. CASE \E l \in Lane : Takes(l)
    <3>1. PICK l \in Lane : Takes(l)
      BY <2>2
    <3>2. Queued' \subseteq Queued /\ (job' \in Message => job' \in Queued) /\ UNCHANGED executed
      BY <1>1, <3>1, QueuedTake DEF Takes
    <3> QED
      BY <2>1, <3>2, OnceOthers DEF Begun, callers
  <2>3. CASE Moves \/ Returns \/ Exits
    <3>1. UNCHANGED Queued
      BY <2>3 DEF Moves, Returns, Exits, Queued
    <3>2. executed' \subseteq executed \cup {job} /\ job' \in {job, None}
      BY <2>3 DEF Moves, Returns, Exits
    <3> QED
      BY <1>1, <2>1, <3>1, <3>2, OnceOthers DEF Begun, callers
  <2> QED
    BY <1>3, <2>2, <2>3, WorkerSteps
<1>4. CASE SelfExit \/ ExitThread
  <2>1. UNCHANGED <<job, callers, executed>>
    BY <1>4, ExitSteps
  <2>2. CASE Destroys
    BY <2>1, <2>2, QueuedDestroy, OnceOthers DEF Destroys, Begun, callers
  <2>3. CASE OwnerMoves \/ Joins \/ Deserts
    <3>1. UNCHANGED discarded /\ (lanes' = lanes \/ \E l \in Lane : PushBack(l, ExitMsg))
      BY <2>3 DEF OwnerMoves, Joins, Deserts, Lane
    <3>2. Queued' \subseteq Queued \cup {ExitMsg}
      BY <1>1, <3>1, QueuedPush DEF Queued, AnyMessage
    <3> QED
      BY <2>1, <3>1, <3>2, OnceOthers, MessageAssumption DEF Begun, callers
  <2> QED
    BY <1>4, <2>2, <2>3, ExitSteps
<1>5. CASE CreateThread
  BY <1>5, OnceOthers DEF CreateThread, Begun, Queued, queue, callers, outcome
<1> QED
  BY <1>2, <1>3, <1>4, <1>5 DEF Step

-----------------------------------------------------------------------------
\* A call begins only in a thread that exists.
LEMMA CreatedWhenBegun ==
  ASSUME NEW p \in Caller, DispatchDelegate(p), ~ UNCHANGED pc, pc[p] = "idle"
  PROVE  created
<1>1. ASSUME NEW m \in Message, DispatchIfCreated(p, m) \/ DispatchAssertCreated(p, m)
      PROVE  created
  BY <1>1 DEF DispatchIfCreated, DispatchAssertCreated, RefuseAtOnce, FaultStops, callers
<1>2. ~SendFails(p) /\ ~SendTimesOut(p) /\ ~Ring(p) /\ \A s : ~Put(p, s)
  BY DEF SendFails, SendTimesOut, Ring, Put
<1>3. CASE FreeRTOSDispatchDelegate(p) \/ ThreadXDispatchDelegate(p)
  BY <1>1, <1>2, <1>3 DEF FreeRTOSDispatchDelegate, ThreadXDispatchDelegate
<1>4. CASE ZephyrDispatchDelegate(p) \/ CmsisDispatchDelegate(p)
  BY <1>1, <1>2, <1>4 DEF ZephyrDispatchDelegate, CmsisDispatchDelegate
<1>5. CASE Win32DispatchDelegate(p)
  <2>1. PICK m \in Message :
          Call(p, m) /\ IF m_exit \/ ~created THEN RefuseAtOnce(m) ELSE BeginDispatch(p, m)
    BY <1>2, <1>5 DEF Win32DispatchDelegate
  <2> QED
    BY <2>1 DEF RefuseAtOnce, callers
<1>6. ~FreeRTOSSend(p) /\ ~ThreadXSend(p) /\ ~ZephyrSend(p) /\ ~CmsisSend(p)
  BY <1>2 DEF FreeRTOSSend, ThreadXSend, ZephyrSend, CmsisSend
<1> QED
  BY <1>3, <1>4, <1>5, <1>6 DEF DispatchDelegate

LEMMA AliveCaller ==
  ASSUME TypeInv, Alive, NEW p \in Caller, DispatchDelegate(p)
  PROVE  Alive'
<1>1. CallerStep(p) /\ UNCHANGED <<config, lifecycle, exitSem, worker, job>>
  BY CallerSteps
<1>2. pc \in [Caller -> {"idle", "send", "blocked", "ring"}] /\ Worker \in Caller
  BY DEF TypeInv, TypeOK, Caller
<1> USE DEF config, lifecycle
<1>3. ASSUME NEW s, pc' = [pc EXCEPT ![p] = s], s = "idle" \/ pc[p] # "idle"
      PROVE  Alive'
  <2>1. \A q \in Caller : pc'[q] # "idle" => pc[q] # "idle"
    BY <1>2, <1>3
  <2> QED
    BY <1>1, <1>2, <2>1 DEF Alive
<1>4. ASSUME UNCHANGED pc
      PROVE  Alive'
  BY <1>1, <1>4 DEF Alive
<1>5. CASE \E m \in Message : Call(p, m) /\ (BeginDispatch(p, m) \/ RefuseAtOnce(m))
  <2>1. CASE UNCHANGED pc
    BY <1>4, <2>1
  <2>2. CASE ~ UNCHANGED pc
    <3>1. pc' = [pc EXCEPT ![p] = "send"] /\ MayCall(p)
      BY <1>5, <2>2 DEF BeginDispatch, RefuseAtOnce, Call, callers
    <3>2. created
      BY <1>5, <2>2, CreatedWhenBegun DEF Call
    <3>3. pc'[Worker] # "idle" => worker = "running" /\ job \in Message
      BY <1>2, <3>1 DEF MayCall, Alive
    <3>4. \A q \in Caller : created' \/ (port' = "Win32" /\ m_exit')
      BY <1>1, <3>2
    <3> QED
      BY <1>1, <3>3, <3>4 DEF Alive
  <2> QED
    BY <2>1, <2>2
<1>6. CASE FaultStops
  BY <1>4, <1>6 DEF FaultStops, callers
<1>7. CASE Refuse(p)
  BY <1>3, <1>7 DEF Refuse, Return
<1>8. CASE Blocks(p)
  BY <1>3, <1>8 DEF Blocks
<1>9. CASE Ring(p)
  BY <1>3, <1>9 DEF Ring
<1>10. CASE \E after \in {"idle", "ring"} : Put(p, after)
  <2>1. PICK after \in {"idle", "ring"} : Put(p, after)
    BY <1>10
  <2>2. pc[p] # "idle" /\ pc' = [pc EXCEPT ![p] = after]
    BY <2>1 DEF Put
  <2> QED
    BY <1>3, <2>2
<1> QED
  BY <1>1, <1>5, <1>6, <1>7, <1>8, <1>9, <1>10 DEF CallerStep

LEMMA AliveWorker ==
  ASSUME TypeInv, Alive, WorkerStep
  PROVE  Alive'
<1>1. /\ (\E l \in Lane : Takes(l)) \/ Moves \/ Returns \/ Exits
      /\ UNCHANGED <<config, lifecycle, callers, stopped, refused, discarded>>
  BY WorkerSteps
<1>2. None \notin Message /\ ExitMsg \notin Message /\ exitSem \in {0, 1}
  BY MessageAssumption DEF TypeInv, TypeOK
<1> USE DEF config, lifecycle, callers
<1>3. CASE \E l \in Lane : Takes(l)
  <2>1. worker \in {"wait", "high", "normal"} /\ worker' = "running" /\ UNCHANGED exitSem
    BY <1>3 DEF Takes, TakeFrom
  <2> QED
    BY <1>1, <2>1 DEF Alive
<1>4. CASE Moves
  BY <1>1, <1>2, <1>4 DEF Moves, Loop, Alive
<1>5. CASE Returns
  BY <1>1, <1>5 DEF Returns, Alive
<1>6. CASE Exits
  BY <1>1, <1>2, <1>6 DEF Exits, Alive
<1> QED
  BY <1>1, <1>3, <1>4, <1>5, <1>6

LEMMA AliveExit ==
  ASSUME TypeInv, Alive, ~undefined', SelfExit \/ ExitThread
  PROVE  Alive'
<1>1. /\ Destroys \/ OwnerMoves \/ Joins \/ Deserts
      /\ UNCHANGED <<config, lives, job, callers, fault, refused, executed>>
  BY ExitSteps
<1> USE DEF config, callers
<1>2. CASE Destroys
  <2>1. port # "Win32" /\ created' = FALSE /\ UNCHANGED exitSem
    BY <1>2 DEF Destroys, DrainAndDestroy
  <2>2. pc[Worker] = "idle" /\ owner' = "idle" /\ worker' \in {"exited", "done"}
        /\ ~m_selfExited' /\ exitSem # 1 /\ (job # None => worker' = "exited")
    BY <1>2, <2>1 DEF Destroys, HandlerExits, Alive
  <2>3. \A p \in Caller : pc[p] = "idle"
    <3>1. ~InFlight
      BY <1>2 DEF Destroys, DrainAndDestroy
    <3>2. \A p \in Producer : pc[p] \notin {"send", "blocked", "ring"}
      BY <3>1 DEF InFlight
    <3> QED
      BY <2>2, <3>2 DEF Caller, TypeInv, TypeOK
  <2> QED
    BY <1>1, <2>1, <2>2, <2>3 DEF Alive
<1>3. CASE OwnerMoves
  <2>1. UNCHANGED <<created, m_selfExited, worker>> /\ (port = "Win32" => owner' = "joining")
    BY <1>3 DEF OwnerMoves
  <2>2. CASE Asks
    BY <1>1, <2>1, <2>2 DEF Asks, Alive
  <2>3. CASE Waits /\ port # "Win32"
    BY <1>1, <2>1, <2>3 DEF Waits, Alive
  <2> QED
    BY <1>3, <2>2, <2>3 DEF OwnerMoves
<1>4. CASE Joins
  BY <1>1, <1>4 DEF Joins, Alive
<1>5. CASE Deserts
  <2>1. /\ worker = "running" /\ owner = "idle" /\ pc[Worker] = "idle" /\ created
        /\ worker' = "exited" /\ m_exit' /\ ~m_selfExited
        /\ port # "Win32" => exitSem # 1
        /\ UNCHANGED <<owner, exitSem>>
    BY <1>5 DEF Deserts, HandlerExits, Alive
  <2>2. exitSem \in {0, 1}
    BY DEF TypeInv, TypeOK
  <2>3. CASE port = "Zephyr"
    <3>1. UNCHANGED created
      BY <1>5, <2>3 DEF Deserts
    <3> QED
      BY <1>1, <2>1, <2>2, <2>3, <3>1 DEF Alive
  <2>4. CASE port = "Win32"
    <3>1. UNCHANGED m_selfExited
      BY <1>5, <2>4 DEF Deserts
    <3> QED
      BY <1>1, <2>1, <2>4, <3>1 DEF Alive
  <2> QED
    BY <1>5, <2>3, <2>4 DEF Deserts
<1> QED
  BY <1>1, <1>2, <1>3, <1>4, <1>5

LEMMA Creates ==
  ASSUME CreateThread
  PROVE  /\ owner = "idle" /\ ~created /\ created'
         /\ worker \in {"none", "done"} /\ worker' \in {"head", "wait"}
         /\ IF port = "Win32" THEN m_exit' = FALSE ELSE UNCHANGED m_exit
         /\ port # "Win32" => exitSem' \in {0, exitSem}
         /\ UNCHANGED <<config, m_selfExited, owner, queue, job, callers, stopped, outcome>>
BY DEF CreateThread, Create, FreeRTOSCreateThread, ThreadXCreateThread, ZephyrCreateThread,
       CmsisCreateThread, Win32CreateThread

LEMMA AliveCreate ==
  ASSUME TypeInv, Alive, CreateThread
  PROVE  Alive'
BY Creates DEF Alive, config, callers

LEMMA AliveNext ==
  ASSUME TypeInv, AliveInv, Running, Step
  PROVE  AliveInv'
<1>1. Alive
  BY DEF AliveInv, Running
<1>2. CASE \E p \in Caller : DispatchDelegate(p)
  BY <1>1, <1>2, AliveCaller DEF AliveInv
<1>3. CASE WorkerStep
  BY <1>1, <1>3, AliveWorker DEF AliveInv
<1>4. CASE SelfExit \/ ExitThread
  BY <1>1, <1>4, AliveExit DEF AliveInv
<1>5. CASE CreateThread
  BY <1>1, <1>5, AliveCreate DEF AliveInv
<1> QED
  BY <1>2, <1>3, <1>4, <1>5 DEF Step

-----------------------------------------------------------------------------
(***************************************************************************)
(* The steps, in the variables of PriorityChannel.                         *)
(***************************************************************************)
ChannelOpen == created /\ (port = "Win32" => ~m_exit)
ChannelPending == [l \in Lane |-> WithoutExit(lanes[l])]
ChannelCurrent == IF job \in Message THEN job ELSE None

LEMMA ChannelLanes ==
  /\ Channel!Lane = Lane
  /\ \A m : Channel!LaneOf(m) = LaneOf(m)
BY DEF Channel!Lane, Lane, Channel!LaneOf, LaneOf

\* The channel knows what the thread has begun with.
LEMMA ChannelWaiting ==
  ASSUME Lanes
  PROVE  /\ \A l \in Lane : Channel!Waiting(l) = Elements(lanes[l]) \ {ExitMsg}
         /\ Channel!Waiting("HIGH") \cup Channel!Waiting("NORMAL") = Queued
<1>1. \A l \in Lane : Channel!Waiting(l) = Elements(WithoutExit(lanes[l]))
  BY DEF Channel!Waiting, Elements
<1>2. \A l \in Lane : Elements(WithoutExit(lanes[l])) = Elements(lanes[l]) \ {ExitMsg}
  BY WithoutExitMessages DEF Lanes
<1>3. "HIGH" \in Lane /\ "NORMAL" \in Lane
  BY DEF Lane
<1> QED
  BY <1>1, <1>2, <1>3 DEF Queued

LEMMA ChannelKnown ==
  ASSUME Lanes
  PROVE  Channel!Known \subseteq Begun \cup {None}
BY ChannelWaiting DEF Channel!Known, Begun

\* The exit message is no message of the channel.
LEMMA PendingExit ==
  ASSUME Lanes, lanes' = lanes \/ \E l \in Lane : PushBack(l, ExitMsg)
  PROVE  ChannelPending' = ChannelPending
<1>1. CASE lanes' = lanes
  BY <1>1 DEF ChannelPending
<1>2. CASE \E l \in Lane : PushBack(l, ExitMsg)
  <2>1. PICK l \in Lane : lanes' = [lanes EXCEPT ![l] = Append(@, ExitMsg)]
    BY <1>2 DEF PushBack
  <2>2. WithoutExit(Append(lanes[l], ExitMsg)) = WithoutExit(lanes[l])
    BY WithoutExitAppend DEF Lanes, AnyMessage
  <2>3. \A k \in Lane : WithoutExit(lanes'[k]) = WithoutExit(lanes[k])
    BY <2>1, <2>2 DEF Lanes
  <2> QED
    BY <2>3 DEF ChannelPending
<1> QED
  BY <1>1, <1>2

-----------------------------------------------------------------------------
\* The deques of Windows take a message while the thread has not been asked to exit.
LEMMA PutOpen ==
  ASSUME NEW p \in Caller, DispatchDelegate(p), port = "Win32", lanes' # lanes
  PROVE  ~m_exit
<1>1. Win32DispatchDelegate(p)
  BY DEF DispatchDelegate, FreeRTOSDispatchDelegate, ThreadXDispatchDelegate,
         ZephyrDispatchDelegate, CmsisDispatchDelegate, FreeRTOSSend, ThreadXSend,
         ZephyrSend, CmsisSend
<1>2. ~Refuse(p) /\ ~SendFails(p) /\ \A m \in Message : ~RefuseAtOnce(m) /\ ~BeginDispatch(p, m)
  BY DEF Refuse, SendFails, FaultStops, RefuseAtOnce, BeginDispatch, queue
<1> QED
  BY <1>1, <1>2 DEF Win32DispatchDelegate

LEMMA CallerImplements ==
  ASSUME TypeInv, OnceInv, Alive, NEW p \in Caller, DispatchDelegate(p)
  PROVE  (\E m \in Message : Channel!Accept(m)) \/ UNCHANGED Channel!channelVars
<1>1. CallerStep(p) /\ UNCHANGED <<config, lifecycle, exitSem, worker, job>>
  BY CallerSteps
<1>2. Lanes /\ None \notin Message /\ ExitMsg \notin Message
  BY MessageAssumption DEF TypeInv, TypeOK, Lanes
<1>3. UNCHANGED <<created, m_exit, port, worker, job>>
  BY <1>1 DEF config, lifecycle
<1>4. CASE UNCHANGED <<lanes, executed, discarded>>
  BY <1>3, <1>4 DEF Channel!channelVars
<1>5. CASE \E after \in {"idle", "ring"} : Put(p, after) /\ lanes' # lanes
  <2>1. PICK after \in {"idle", "ring"} : Put(p, after) /\ lanes' # lanes
    BY <1>5
  <2> DEFINE m == arg[p]
             l == LaneOf(m)
  <2>2. m \in Message /\ l \in Lane /\ UNCHANGED <<executed, discarded>>
    BY <2>1 DEF Put, outcome, TypeInv, Args, LaneOf, Lane
  <2>3. lanes' = [lanes EXCEPT ![l] = Append(@, m)]
    BY <2>1 DEF Put, PushBack
  <2>4. created /\ (port = "Win32" => ~m_exit)
    BY <2>1, PutOpen DEF Put, Alive
  <2>5. m \notin Channel!Known
    BY <1>2, <2>2, ChannelKnown DEF OnceInv, OfferedOnce
  <2> HIDE DEF m, l
  <2>6. WithoutExit(Append(lanes[l], m)) = Append(WithoutExit(lanes[l]), m)
    BY <1>2, <2>2, WithoutExitAppend DEF Lanes, AnyMessage
  <2>7. [k \in Lane |-> WithoutExit(lanes'[k])]
          = [ChannelPending EXCEPT ![l] = Append(@, m)]
    BY <1>2, <2>2, <2>3, <2>6 DEF Lanes, ChannelPending
  <2>8. l = Channel!LaneOf(m)
    BY ChannelLanes DEF l
  <2>9. Channel!Accept(m)
    BY <1>3, <2>2, <2>4, <2>5, <2>7, <2>8, ChannelLanes DEF Channel!Accept, ChannelPending
  <2> QED
    BY <2>2, <2>9
<1>6. UNCHANGED <<lanes, executed, discarded>>
      \/ \E after \in {"idle", "ring"} : Put(p, after) /\ lanes' # lanes
  BY <1>1 DEF CallerStep, BeginDispatch, RefuseAtOnce, FaultStops, Refuse, Blocks, Ring, Put,
              queue, outcome
<1> QED
  BY <1>4, <1>5, <1>6

LEMMA TakeImplements ==
  ASSUME TypeInv, Alive, NEW l \in Lane, Takes(l),
         UNCHANGED <<created, m_exit, port, discarded>>
  PROVE  Channel!Start(l) \/ Channel!Forget
<1>1. Lanes /\ None \notin Message /\ ExitMsg \notin Message
  BY MessageAssumption DEF TypeInv, TypeOK, Lanes
<1> DEFINE s == lanes[l]
<1>2. s \in Seq(AnyMessage) /\ s # <<>>
  BY <1>1 DEF Lanes, Takes
<1>3. lanes' = [lanes EXCEPT ![l] = Tail(s)] /\ job' = Head(s) /\ worker' = "running"
  BY DEF Takes, TakeFrom
<1>4. job = None /\ worker \in {"wait", "high", "normal"} /\ UNCHANGED executed
  BY DEF Takes, Alive
<1>5. l = "NORMAL" => worker = "normal" \/ lanes["HIGH"] = <<>>
  BY DEF Takes
<1> HIDE DEF s
<1>6. Head(s) \in AnyMessage /\ Tail(s) \in Seq(AnyMessage)
  BY <1>2
<1>7. CASE Head(s) = ExitMsg
  <2>1. WithoutExit(Tail(s)) = WithoutExit(s)
    BY <1>2, <1>7, WithoutExitTail
  <2>2. [k \in Lane |-> WithoutExit(lanes'[k])] = [k \in Lane |-> WithoutExit(lanes[k])]
    BY <1>1, <1>3, <2>1 DEF Lanes, s
  <2>3. Channel!Forget
    BY <1>1, <1>3, <1>4, <1>7, <2>2, ChannelLanes DEF Channel!Forget
  <2> QED
    BY <2>3
<1>8. CASE Head(s) # ExitMsg
  <2>1. Head(s) \in Message
    BY <1>6, <1>8 DEF AnyMessage
  <2> DEFINE t == WithoutExit(Tail(s))
  <2>2. WithoutExit(s) = <<Head(s)>> \o t /\ t \in Seq(Message)
    BY <1>2, <1>6, <1>8, WithoutExitTail, WithoutExitMessages
  <2> HIDE DEF t
  <2>3. Head(WithoutExit(s)) = Head(s) /\ Tail(WithoutExit(s)) = t /\ WithoutExit(s) # <<>>
    BY <2>1, <2>2
  <2>4. [k \in Lane |-> WithoutExit(lanes'[k])] = [ChannelPending EXCEPT ![l] = Tail(@)]
    BY <1>1, <1>3, <2>3 DEF Lanes, ChannelPending, s, t
  <2>5. l = "NORMAL" => worker = "normal" \/ WithoutExit(lanes["HIGH"]) = <<>>
    BY <1>5, WithoutExitEmpty
  <2>6. "HIGH" \in Lane
    BY DEF Lane
  <2>7. ChannelPending[l] = WithoutExit(s) /\ ChannelPending["HIGH"] = WithoutExit(lanes["HIGH"])
    BY <2>6 DEF ChannelPending, s
  <2>8. Channel!Start(l)
    BY <1>1, <1>3, <1>4, <2>1, <2>3, <2>4, <2>5, <2>7, ChannelLanes
       DEF Channel!Start, ChannelPending
  <2> QED
    BY <2>8
<1> QED
  BY <1>7, <1>8

LEMMA WorkerImplements ==
  ASSUME TypeInv, Alive, WorkerStep
  PROVE  Channel!Next \/ UNCHANGED Channel!channelVars
<1>1. /\ (\E l \in Lane : Takes(l)) \/ Moves \/ Returns \/ Exits
      /\ UNCHANGED <<config, lifecycle, callers, stopped, refused, discarded>>
  BY WorkerSteps
<1>2. None \notin Message /\ ExitMsg \notin Message
  BY MessageAssumption
<1>3. UNCHANGED <<created, m_exit, port, discarded>>
  BY <1>1 DEF config, lifecycle
<1>4. CASE \E l \in Lane : Takes(l)
  <2>1. PICK l \in Lane : Takes(l)
    BY <1>4
  <2>2. Channel!Start(l) \/ Channel!Forget
    BY <1>3, <2>1, TakeImplements
  <2> QED
    BY <2>2, ChannelLanes DEF Channel!Next
<1>5. CASE Moves
  <2>1. job = None /\ UNCHANGED <<lanes, job, executed>>
    BY <1>5 DEF Moves, Loop, Alive
  <2>2. CASE worker' = "normal"
    <3>1. WithoutExit(lanes["HIGH"]) = <<>>
      BY <1>5, <2>2, WithoutExitEmpty DEF Moves
    <3>2. Channel!Scan
      BY <1>2, <1>3, <2>1, <2>2, <3>1, ChannelLanes DEF Channel!Scan, Lane
    <3> QED
      BY <3>2 DEF Channel!Next
  <2>3. CASE worker' # "normal"
    <3>1. Channel!Forget
      BY <1>3, <2>1, <2>3 DEF Channel!Forget
    <3> QED
      BY <3>1 DEF Channel!Next
  <2> QED
    BY <2>2, <2>3
<1>6. CASE Returns
  <2>1. /\ job \in Message /\ executed' = executed \cup {job} /\ job' = None
        /\ worker # "normal" /\ worker' # "normal" /\ UNCHANGED lanes
    BY <1>6 DEF Returns
  <2>2. Channel!Finish
    BY <1>2, <1>3, <2>1 DEF Channel!Finish
  <2> QED
    BY <2>2 DEF Channel!Next
<1>7. CASE Exits
  <2>1. /\ job = ExitMsg /\ job' = None /\ UNCHANGED <<lanes, executed>>
        /\ worker # "normal" /\ worker' # "normal"
    BY <1>7 DEF Exits
  <2> QED
    BY <1>2, <1>3, <2>1 DEF Channel!channelVars
<1> QED
  BY <1>1, <1>4, <1>5, <1>6, <1>7

LEMMA ExitImplements ==
  ASSUME TypeInv, Alive, SelfExit \/ ExitThread
  PROVE  Channel!Next \/ UNCHANGED Channel!channelVars
<1>1. /\ Destroys \/ OwnerMoves \/ Joins \/ Deserts
      /\ UNCHANGED <<config, lives, job, callers, fault, refused, executed>>
  BY ExitSteps
<1>2. Lanes /\ None \notin Message
  BY MessageAssumption DEF TypeInv, TypeOK, Lanes
<1>3. UNCHANGED <<port, job, executed>>
  BY <1>1 DEF config
<1>4. ASSUME ~ChannelOpen' \/ ChannelOpen, UNCHANGED discarded,
             worker # "normal" \/ UNCHANGED worker, worker' # "normal" \/ UNCHANGED worker,
             lanes' = lanes \/ \E l \in Lane : PushBack(l, ExitMsg)
      PROVE  Channel!Close \/ UNCHANGED Channel!channelVars
  <2>1. ChannelPending' = ChannelPending
    BY <1>2, <1>4, PendingExit
  <2>2. (worker = "normal")' = (worker = "normal") /\ ChannelCurrent' = ChannelCurrent
    BY <1>3, <1>4 DEF ChannelCurrent
  <2>3. CASE ChannelOpen /\ ~ChannelOpen'
    BY <1>3, <1>4, <2>1, <2>2, <2>3, ChannelLanes
       DEF Channel!Close, ChannelOpen, ChannelPending, ChannelCurrent
  <2>4. CASE ChannelOpen' = ChannelOpen
    BY <1>3, <1>4, <2>1, <2>2, <2>4, ChannelLanes
       DEF Channel!channelVars, ChannelOpen, ChannelPending, ChannelCurrent
  <2>5. ChannelOpen \in BOOLEAN /\ ChannelOpen' \in BOOLEAN
    BY DEF ChannelOpen
  <2> QED
    BY <1>4, <2>3, <2>4, <2>5
<1>5. CASE Destroys
  <2>1. /\ port # "Win32" /\ created /\ created' = FALSE
        /\ worker # "normal" /\ worker' # "normal"
        /\ job \in SelfExiting \cup {None}
    BY <1>5 DEF Destroys, DrainAndDestroy, HandlerExits, Alive
  <2>2. /\ discarded' = discarded \cup (Channel!Waiting("HIGH") \cup Channel!Waiting("NORMAL"))
        /\ lanes' = [l \in Lane |-> <<>>]
    BY <1>2, <1>5, ChannelWaiting DEF Destroys, DrainAndDestroy
  <2>3. [l \in Lane |-> WithoutExit(lanes'[l])] = [l \in Lane |-> <<>>]
    BY <2>2, WithoutExitEmpty
  <2>4. ChannelCurrent \in SelfExiting \cup {None} /\ ChannelCurrent' = ChannelCurrent
    BY <1>3, <2>1 DEF ChannelCurrent
  <2>5. Channel!CloseAndDiscard
    BY <1>3, <2>1, <2>2, <2>3, <2>4, ChannelLanes DEF Channel!CloseAndDiscard, ChannelCurrent
  <2> QED
    BY <2>5 DEF Channel!Next
<1>6. CASE OwnerMoves
  <2>1. /\ UNCHANGED <<created, worker, discarded>>
        /\ lanes' = lanes \/ \E l \in Lane : PushBack(l, ExitMsg)
    BY <1>6 DEF OwnerMoves
  <2>2. port = "Win32" => m_exit'
    BY <1>6 DEF OwnerMoves, Asks
  <2>3. ~ChannelOpen' \/ ChannelOpen
    BY <1>3, <2>1, <2>2 DEF ChannelOpen
  <2> QED
    BY <1>4, <2>1, <2>3 DEF Channel!Next
<1>7. CASE Joins
  <2>1. ~created' /\ UNCHANGED <<lanes, discarded, worker>>
    BY <1>7 DEF Joins
  <2> QED
    BY <1>4, <2>1 DEF Channel!Next, ChannelOpen
<1>8. CASE Deserts
  <2>1. /\ worker = "running" /\ worker' = "exited" /\ UNCHANGED discarded
        /\ lanes' = lanes \/ \E l \in Lane : PushBack(l, ExitMsg)
    BY <1>8 DEF Deserts, HandlerExits, Lane
  <2>2. ~ChannelOpen' \/ ChannelOpen
    BY <1>3, <1>8 DEF Deserts, ChannelOpen
  <2> QED
    BY <1>4, <2>1, <2>2 DEF Channel!Next
<1> QED
  BY <1>1, <1>5, <1>6, <1>7, <1>8

LEMMA CreateImplements ==
  ASSUME TypeInv, Alive, CreateThread
  PROVE  Channel!Reopen
<1>1. /\ ~created /\ created' /\ (port = "Win32" => m_exit' = FALSE)
      /\ worker # "normal" /\ worker' # "normal"
      /\ UNCHANGED <<port, lanes, job, executed, discarded>>
  BY Creates DEF config, queue, outcome
<1> QED
  BY <1>1 DEF Channel!Reopen

LEMMA StepImplements ==
  ASSUME TypeInv, OnceInv, AliveInv, [Next]_vars
  PROVE  [Channel!Next]_(Channel!channelVars)
<1>1. CASE Running /\ Step
  <2>1. Alive
    BY <1>1 DEF AliveInv, Running
  <2>2. CASE \E p \in Caller : DispatchDelegate(p)
    BY <2>1, <2>2, CallerImplements DEF Channel!Next
  <2>3. CASE WorkerStep
    BY <2>1, <2>3, WorkerImplements
  <2>4. CASE SelfExit \/ ExitThread
    BY <2>1, <2>4, ExitImplements
  <2>5. CASE CreateThread
    BY <2>1, <2>5, CreateImplements DEF Channel!Next
  <2> QED
    BY <1>1, <2>2, <2>3, <2>4, <2>5 DEF Step
<1>2. CASE UNCHANGED vars
  BY <1>2 DEF vars, config, lifecycle, queue, callers, stopped, outcome, Channel!channelVars
<1> QED
  BY <1>1, <1>2 DEF Next

LEMMA RefinementNext ==
  ASSUME TypeInv, OnceInv, AliveInv, [Next]_vars
  PROVE  TypeInv' /\ OnceInv' /\ AliveInv'
<1>1. TypeInv'
  BY TypeInvNext
<1>2. CASE Running /\ Step
  BY <1>1, <1>2, OnceNext, AliveNext
<1>3. CASE UNCHANGED vars
  <2>1. UNCHANGED <<config, lifecycle, queue, exitSem, worker, job, callers, stopped, outcome>>
    BY <1>3 DEF vars
  <2>2. OnceInv'
    BY <2>1 DEF queue, callers, outcome, OnceInv, CallsAreDistinct, OfferedOnce, Begun, Queued
  <2>3. AliveInv'
    BY <2>1 DEF config, lifecycle, callers, stopped, AliveInv, Alive
  <2> QED
    BY <1>1, <2>2, <2>3
<1> QED
  BY <1>2, <1>3 DEF Next

LEMMA InitImplements == Init => Channel!Init
<1> SUFFICES ASSUME Init PROVE Channel!Init
  OBVIOUS
<1>1. [l \in Lane |-> WithoutExit(lanes[l])] = [l \in Lane |-> <<>>]
  BY WithoutExitEmpty DEF Init
<1>2. None \notin Message
  BY MessageAssumption
<1> QED
  BY <1>1, <1>2, ChannelLanes DEF Init, Channel!Init

\* What happens to the messages on whichever kernel is what PriorityChannel allows,
\* for any callers, messages, capacities and policies: an accepted message starts at
\* most once, in its order within its priority, a NORMAL one after a look at the HIGH
\* lane, and messages are given up only by a destruction of the queue that no other
\* handler is in the middle of.
THEOREM ThreadImplementsChannel == Spec => ImplementsChannel
<1>1. Init => TypeInv /\ OnceInv /\ AliveInv /\ Channel!Init
  BY TypeInvInit, RefinementInit, InitImplements
<1>2. TypeInv /\ OnceInv /\ AliveInv /\ [Next]_vars => (TypeInv /\ OnceInv /\ AliveInv)'
  BY RefinementNext
<1>3. TypeInv /\ OnceInv /\ AliveInv /\ [Next]_vars => [Channel!Next]_(Channel!channelVars)
  BY StepImplements
<1> QED
  BY <1>1, <1>2, <1>3, PTL DEF Spec, ImplementsChannel, Channel!Spec
=============================================================================
