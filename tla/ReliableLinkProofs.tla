------------------------- MODULE ReliableLinkProofs -------------------------
(***************************************************************************)
(* Proofs about ReliableLink, for every number of messages, every width of *)
(* the sequence number, every limit of the monitors, every wiring and      *)
(* class of transport, and whatever the medium does.                       *)
(***************************************************************************)
EXTENDS ReliableLink, SequenceTheorems, FiniteSetTheorems, TLAPS

LEMMA Numbers ==
  /\ MaxMessages \in Nat \ {0} /\ SeqMod \in Nat \ {0} /\ HistorySize \in Nat \ {0}
  /\ MaxRetries \in Nat
  /\ 0 \in Message /\ Message \subseteq Nat /\ 0 \in SeqNum
  /\ \A m \in Message : SeqOf(m) \in SeqNum
<1>1. /\ MaxMessages \in Nat \ {0} /\ SeqMod \in Nat \ {0} /\ HistorySize \in Nat \ {0}
      /\ MaxRetries \in Nat
  BY BoundsAssumption
<1>2. \A m \in Message : SeqOf(m) \in SeqNum
  BY <1>1 DEF Message, SeqOf, SeqNum
<1> QED
  BY <1>1, <1>2 DEF Message, SeqNum

(***************************************************************************)
(* The types of what the three threads of the node share.                  *)
(***************************************************************************)
SenderType ==
  sender \in [pc : {"idle", "add", "send", "sendRaw", "erase", "mark", "reconcile",
                    "failed", "waiting"}, msg : Message]
TimerType ==
  timer \in [pc : {"idle", "report", "retry", "resend", "drop", "reregister"},
             key : SeqNum, msg : Message, report : SUBSET SeqNum]
ReceiverType == receiver \in [pc : {"idle", "success", "done"}, key : SeqNum]
StoreType ==
  /\ DOMAIN retryStore \subseteq SeqNum
  /\ \A k \in DOMAIN retryStore :
       /\ retryStore[k] \in [msg : Message, attemptsRemaining : 0 .. MaxRetries, isSent : BOOLEAN]
       /\ SeqOf(retryStore[k].msg) = k

NodeTypes ==
  /\ next \in 0 .. MaxMessages
  /\ SenderType /\ TimerType /\ ReceiverType /\ StoreType
  /\ pending \subseteq SeqNum
  /\ net \subseteq Message
  /\ transmitted \in [Message -> Nat]

\* What the store holds after an erase(), and after an entry was written.
LEMMA WithoutLemma ==
  ASSUME NEW k
  PROVE  /\ DOMAIN Without(k) = DOMAIN retryStore \ {k}
         /\ \A j \in DOMAIN Without(k) : Without(k)[j] = retryStore[j]
BY DEF Without, Restrict

LEMMA PutLemma ==
  ASSUME NEW m, NEW k, NEW v
  PROVE  /\ DOMAIN Put(m, k, v) = DOMAIN m \cup {k}
         /\ Put(m, k, v)[k] = v
         /\ \A j \in DOMAIN m \ {k} : Put(m, k, v)[j] = m[j]
BY DEF Put

Entry == [msg : Message, attemptsRemaining : 0 .. MaxRetries, isSent : BOOLEAN]

LEMMA StorePut ==
  ASSUME StoreType, NEW k \in SeqNum, NEW e \in Entry, SeqOf(e.msg) = k,
         retryStore' = Put(retryStore, k, e)
  PROVE  StoreType'
<1>1. /\ DOMAIN retryStore' = DOMAIN retryStore \cup {k}
      /\ retryStore'[k] = e
      /\ \A j \in DOMAIN retryStore \ {k} : retryStore'[j] = retryStore[j]
  BY DEF Put
<1> QED
  BY <1>1 DEF StoreType, Entry

LEMMA StoreWithout ==
  ASSUME StoreType, NEW k, retryStore' = Without(k)
  PROVE  StoreType'
<1>1. /\ DOMAIN retryStore' = DOMAIN retryStore \ {k}
      /\ \A j \in DOMAIN retryStore' : retryStore'[j] = retryStore[j]
  BY WithoutLemma
<1> QED
  BY <1>1 DEF StoreType

-----------------------------------------------------------------------------
Wiring == AddPeer \/ Initialize \/ InitializeDuplex \/ Connect \/ Stop \/ StopOnThread
Peer == ProcessIncoming \/ RecvThread

\* Wiring and the peer leave the node alone.
LEMMA WiringLeaves ==
  ASSUME Wiring
  PROVE  UNCHANGED <<next, node, net, acks, peer, transmitted, confirmed, result>>
BY DEF Wiring, AddPeer, Initialize, InitializeDuplex, Connect, Stop, StopOnThread, Wired

LEMMA PeerLeaves ==
  ASSUME Peer
  PROVE  UNCHANGED <<wiring, next, node, net, transmitted, confirmed, result>>
BY DEF Peer, ProcessIncoming, RecvThread

LEMMA NodeTypesInit == Init => NodeTypes
BY Numbers DEF Init, NodeTypes, SenderType, TimerType, ReceiverType, StoreType

LEMMA NodeTypesSame ==
  ASSUME NodeTypes, UNCHANGED <<next, sender, timer, receiver, retryStore, pending, net, transmitted>>
  PROVE  NodeTypes'
BY DEF NodeTypes, SenderType, TimerType, ReceiverType, StoreType

LEMMA NodeTypesSend ==
  ASSUME NodeTypes, Send
  PROVE  NodeTypes'
<1> USE DEF NodeTypes
<1>1. CASE Dispatch
  <2> DEFINE e == [msg |-> next, attemptsRemaining |-> MaxRetries, isSent |-> FALSE]
  <2>1. next \in Message /\ next' \in 0 .. MaxMessages
    BY <1>1, Numbers DEF Dispatch, Message
  <2>2. SenderType'
    BY <1>1, <2>1 DEF Dispatch, SenderType
  <2>3. StoreType'
    <3>1. CASE Unreliable(next)
      BY <1>1, <3>1 DEF Dispatch, StoreType
    <3>2. CASE ~Unreliable(next)
      <4>1. retryStore' = Put(retryStore, SeqOf(next), e)
        BY <1>1, <3>2 DEF Dispatch
      <4>2. e \in Entry
        BY <2>1, Numbers DEF Entry
      <4>3. SeqOf(next) \in SeqNum /\ e.msg = next
        BY <2>1, Numbers
      <4> HIDE DEF e
      <4> QED
        BY <4>1, <4>2, <4>3, StorePut
    <3> QED
      BY <3>1, <3>2
  <2> QED
    BY <1>1, <2>1, <2>2, <2>3 DEF Dispatch, TimerType, ReceiverType
<1>2. CASE AddPending
  <2>1. SeqOf(sender.msg) \in SeqNum
    BY Numbers DEF SenderType
  <2> QED
    BY <1>2, <2>1 DEF AddPending, SenderAt, SenderType, TimerType, ReceiverType, StoreType
<1>3. CASE SendSucceeds
  <2>1. sender.msg \in Message
    BY DEF SenderType
  <2>2. net' \subseteq Message /\ transmitted' \in [Message -> Nat]
    BY <1>3, <2>1 DEF SendSucceeds, Transmit
  <2> QED
    BY <1>3, <2>2 DEF SendSucceeds, SenderAt, SenderType, TimerType, ReceiverType, StoreType
<1>4. CASE SendFails
  BY <1>4 DEF SendFails, SenderAt, SenderType, TimerType, ReceiverType, StoreType
<1>5. CASE EraseEntry
  <2>1. StoreType'
    BY <1>5, StoreWithout DEF EraseEntry
  <2> QED
    BY <1>5, <2>1 DEF EraseEntry, SenderAt, SenderType, TimerType, ReceiverType
<1>6. CASE MarkSent
  <2>1. StoreType'
    BY <1>6 DEF MarkSent, StoreType
  <2> QED
    BY <1>6, <2>1 DEF MarkSent, SenderAt, SenderType, TimerType, ReceiverType
<1>7. CASE Reconcile \/ SendReturnsError \/ WaitReturns
  <2>1. SenderType' /\ UNCHANGED <<next, timer, receiver, retryStore, pending, net, transmitted>>
    BY <1>7 DEF Reconcile, SendReturnsError, WaitReturns, SenderAt, SenderType
  <2> QED
    BY <2>1 DEF TimerType, ReceiverType, StoreType
<1> QED
  BY <1>1, <1>2, <1>3, <1>4, <1>5, <1>6, <1>7 DEF Send

LEMMA NodeTypesProcess ==
  ASSUME NodeTypes, Process
  PROVE  NodeTypes'
<1> USE DEF NodeTypes
<1>1. CASE Expire
  <2>1. TimerType' /\ pending' \subseteq SeqNum
    BY <1>1 DEF Expire, TimerType
  <2> QED
    BY <1>1, <2>1 DEF Expire, SenderType, ReceiverType, StoreType
<1>2. CASE OnTimeout
  <2>1. PICK k \in timer.report :
          \/ /\ timer' = NextReport([timer EXCEPT !.report = @ \ {k}])
             /\ retryStore' = retryStore \/ retryStore' = Without(k)
          \/ /\ k \in DOMAIN retryStore
             /\ timer' = [pc |-> "retry", key |-> k, msg |-> retryStore[k].msg,
                          report |-> timer.report \ {k}]
             /\ retryStore[k].attemptsRemaining # 0
             /\ retryStore' = Spent(k)
          \/ /\ k \in DOMAIN retryStore
             /\ timer' = [pc |-> "reregister", key |-> k, msg |-> retryStore[k].msg,
                          report |-> timer.report \ {k}]
             /\ retryStore' = retryStore
    BY <1>2 DEF OnTimeout
  <2>2. k \in SeqNum
    BY DEF TimerType
  <2>3. TimerType'
    <3>1. timer.report \in SUBSET SeqNum
      BY DEF TimerType
    <3>2. k \in DOMAIN retryStore => retryStore[k].msg \in Message
      BY DEF StoreType
    <3>3. timer' = NextReport([timer EXCEPT !.report = @ \ {k}]) => TimerType'
      BY <3>1 DEF TimerType, NextReport
    <3> QED
      BY <2>1, <2>2, <3>1, <3>2, <3>3 DEF TimerType
  <2>4. k \in DOMAIN retryStore /\ retryStore[k].attemptsRemaining # 0 /\ retryStore' = Spent(k)
          => StoreType'
    BY Numbers DEF Spent, StoreType
  <2>5. retryStore' = Without(k) => StoreType'
    BY StoreWithout
  <2>6. retryStore' = retryStore => StoreType'
    BY DEF StoreType
  <2>7. StoreType'
    BY <2>1, <2>4, <2>5, <2>6
  <2> QED
    BY <1>2, <2>3, <2>7 DEF OnTimeout, SenderType, ReceiverType
<1>3. CASE RetryAdd
  <2>1. TimerType' /\ pending' \subseteq SeqNum
    BY <1>3 DEF RetryAdd, TimerType
  <2> QED
    BY <1>3, <2>1 DEF RetryAdd, SenderType, ReceiverType, StoreType
<1>4. CASE Resend
  <2>1. TimerType' /\ timer.msg \in Message
    BY <1>4 DEF Resend, TimerType, NextReport
  <2>2. net' \subseteq Message /\ transmitted' \in [Message -> Nat]
    <3>1. CASE Transmit(timer.msg)
      BY <2>1, <3>1 DEF Transmit
    <3>2. CASE UNCHANGED <<net, transmitted>>
      BY <3>2
    <3> QED
      BY <1>4, <3>1, <3>2 DEF Resend
  <2> QED
    BY <1>4, <2>1, <2>2 DEF Resend, SenderType, ReceiverType, StoreType
<1>5. CASE RetryDropped
  <2>1. TimerType' /\ StoreType'
    BY <1>5, StoreWithout DEF RetryDropped, TimerType, NextReport
  <2> QED
    BY <1>5, <2>1 DEF RetryDropped, SenderType, ReceiverType
<1>6. CASE Reregister
  <2>1. TimerType' /\ pending' \subseteq SeqNum
    BY <1>6 DEF Reregister, TimerType, NextReport
  <2> QED
    BY <1>6, <2>1 DEF Reregister, SenderType, ReceiverType, StoreType
<1> QED
  BY <1>1, <1>2, <1>3, <1>4, <1>5, <1>6 DEF Process

LEMMA NodeTypesReceive ==
  ASSUME NodeTypes, Receive \/ ReceiverLeaves
  PROVE  NodeTypes'
<1> USE DEF NodeTypes
<1>1. CASE TakeAck
  <2>1. ReceiverType' /\ pending' \subseteq SeqNum
    BY <1>1 DEF TakeAck, ReceiverType, Removed
  <2> QED
    BY <1>1, <2>1 DEF TakeAck, SenderType, TimerType, StoreType
<1>2. CASE OnSuccess
  <2>1. ReceiverType' /\ StoreType'
    BY <1>2, StoreWithout DEF OnSuccess, ReceiverType
  <2> QED
    BY <1>2, <2>1 DEF OnSuccess, SenderType, TimerType
<1>3. CASE ReceiverLeaves
  BY <1>3 DEF ReceiverLeaves, ReceiverType, SenderType, TimerType, StoreType
<1> QED
  BY <1>1, <1>2, <1>3 DEF Receive

LEMMA NodeTypesKept == NodeTypes /\ [Next]_vars => NodeTypes'
<1> SUFFICES ASSUME NodeTypes, [Next]_vars PROVE NodeTypes'
  OBVIOUS
<1>1. CASE Wiring
  BY <1>1, WiringLeaves, NodeTypesSame DEF node
<1>2. CASE Peer
  BY <1>2, PeerLeaves, NodeTypesSame DEF node
<1>3. CASE UNCHANGED vars
  BY <1>3, NodeTypesSame DEF vars, node
<1> QED
  BY <1>1, <1>2, <1>3, NodeTypesSend, NodeTypesProcess, NodeTypesReceive DEF Next, Wiring, Peer

-----------------------------------------------------------------------------
(***************************************************************************)
(* The budget of a message.                                                *)
(***************************************************************************)
Unsent(m)   == IF m >= next \/ (sender.msg = m /\ sender.pc \in {"add", "send", "sendRaw"})
               THEN 1 ELSE 0
InFlight(m) == IF timer.msg = m /\ timer.pc \in {"retry", "resend"} THEN 1 ELSE 0
HasEntry(m) == SeqOf(m) \in DOMAIN retryStore /\ retryStore[SeqOf(m)].msg = m
Left(m)     == IF HasEntry(m) THEN retryStore[SeqOf(m)].attemptsRemaining ELSE 0

\* What can still be handed to the medium never exceeds what may.
Budget == \A m \in Message : transmitted[m] + Unsent(m) + InFlight(m) + Left(m) <= 1 + MaxRetries

\* Nothing is known of a message that was not dispatched.
Fresh ==
  /\ sender.pc # "idle" => sender.msg < next
  /\ timer.pc \in {"retry", "resend"} => timer.msg < next
  /\ \A m \in Message : m >= next => transmitted[m] = 0 /\ ~HasEntry(m)

BudgetInv == NodeTypes /\ Fresh /\ Budget

LEMMA BudgetInit == Init => BudgetInv
<1> SUFFICES ASSUME Init PROVE BudgetInv
  OBVIOUS
<1>1. NodeTypes
  BY NodeTypesInit
<1>2. \A m \in Message : transmitted[m] = 0 /\ ~HasEntry(m) /\ InFlight(m) = 0 /\ Unsent(m) = 1
  BY Numbers DEF Init, HasEntry, InFlight, Unsent
<1>3. Fresh
  BY <1>2 DEF Init, Fresh
<1>4. Budget
  BY <1>2, Numbers DEF Budget, Left
<1> QED
  BY <1>1, <1>3, <1>4 DEF BudgetInv

LEMMA BudgetNumbers ==
  NodeTypes => \A m \in Message :
    transmitted[m] \in Nat /\ Unsent(m) \in Nat /\ InFlight(m) \in Nat /\ Left(m) \in Nat
<1> SUFFICES ASSUME NodeTypes, NEW m \in Message
             PROVE transmitted[m] \in Nat /\ Unsent(m) \in Nat /\ InFlight(m) \in Nat /\ Left(m) \in Nat
  OBVIOUS
<1>1. transmitted[m] \in Nat /\ Unsent(m) \in Nat /\ InFlight(m) \in Nat
  BY DEF NodeTypes, Unsent, InFlight
<1>2. Left(m) \in Nat
  BY Numbers DEF NodeTypes, StoreType, Left, HasEntry
<1> QED
  BY <1>1, <1>2

\* A step that keeps what the budget is made of, or spends of it.
LEMMA BudgetOf ==
  ASSUME BudgetInv, NodeTypes', Fresh',
         \A m \in Message : (transmitted[m] + Unsent(m) + InFlight(m) + Left(m))'
                            <= transmitted[m] + Unsent(m) + InFlight(m) + Left(m)
  PROVE  BudgetInv'
<1>1. \A m \in Message :
        transmitted[m] \in Nat /\ Unsent(m) \in Nat /\ InFlight(m) \in Nat /\ Left(m) \in Nat
  BY BudgetNumbers DEF BudgetInv
<1>2. (\A m \in Message :
         transmitted[m] \in Nat /\ Unsent(m) \in Nat /\ InFlight(m) \in Nat /\ Left(m) \in Nat)'
  BY BudgetNumbers, PTL
<1>3. SUFFICES ASSUME NEW m \in Message
               PROVE  (transmitted[m] + Unsent(m) + InFlight(m) + Left(m) <= 1 + MaxRetries)'
  BY DEF BudgetInv, Budget
<1>4. transmitted[m] + Unsent(m) + InFlight(m) + Left(m) <= 1 + MaxRetries
  BY DEF BudgetInv, Budget
<1> QED
  BY <1>1, <1>2, <1>4, Numbers

LEMMA BudgetSame ==
  ASSUME BudgetInv, NodeTypes', UNCHANGED <<next, sender, timer, retryStore, transmitted>>
  PROVE  BudgetInv'
BY DEF BudgetInv, Fresh, Budget, Unsent, InFlight, Left, HasEntry

LEMMA LeftWithout ==
  ASSUME NodeTypes, NEW k, retryStore' = Without(k)
  PROVE  \A m \in Message : Left(m)' <= Left(m) /\ (HasEntry(m)' => HasEntry(m))
<1>1. /\ DOMAIN retryStore' = DOMAIN retryStore \ {k}
      /\ \A j \in DOMAIN retryStore' : retryStore'[j] = retryStore[j]
  BY WithoutLemma
<1>2. \A m \in Message : Left(m) \in Nat
  BY BudgetNumbers
<1> QED
  BY <1>1, <1>2 DEF Left, HasEntry

LEMMA BudgetDispatch ==
  ASSUME BudgetInv, Dispatch
  PROVE  BudgetInv'
<1>1. NodeTypes'
  BY NodeTypesSend DEF BudgetInv, Send
<1>2. \A m \in Message :
        transmitted[m] \in Nat /\ Unsent(m) \in Nat /\ InFlight(m) \in Nat /\ Left(m) \in Nat
  BY BudgetNumbers DEF BudgetInv
<1>3. (\A m \in Message :
         transmitted[m] \in Nat /\ Unsent(m) \in Nat /\ InFlight(m) \in Nat /\ Left(m) \in Nat)'
  BY <1>1, BudgetNumbers, PTL
<1>4. next \in Message
  BY Numbers DEF Dispatch, Message, BudgetInv, NodeTypes
<1>5. PICK n \in Message : n = next
  BY <1>4
<1>6. /\ next' = n + 1 /\ sender.pc = "idle" /\ n \in Nat
      /\ sender'.msg = n /\ sender'.pc \in {"add", "sendRaw"}
      /\ UNCHANGED <<timer, transmitted>>
  BY <1>5, Numbers DEF Dispatch
<1>7. ~HasEntry(n) /\ transmitted[n] = 0 /\ InFlight(n) = 0 /\ timer.msg \in Nat
  <2>1. ~HasEntry(n) /\ transmitted[n] = 0
    BY <1>5, <1>6 DEF BudgetInv, Fresh
  <2>2. timer.msg \in Nat
    BY Numbers DEF BudgetInv, NodeTypes, TimerType
  <2>3. InFlight(n) = 0
    BY <1>5, <1>6, <2>2 DEF BudgetInv, Fresh, InFlight
  <2> QED
    BY <2>1, <2>2, <2>3
<1>8. /\ \A m \in Message \ {n} : Left(m)' <= Left(m) /\ (HasEntry(m)' => HasEntry(m))
      /\ Left(n)' <= MaxRetries
  <2>1. PICK e \in Entry : /\ e.msg = n /\ e.attemptsRemaining = MaxRetries
                           /\ \/ retryStore' = retryStore
                              \/ retryStore' = Put(retryStore, SeqOf(n), e)
    <3>1. [msg |-> n, attemptsRemaining |-> MaxRetries, isSent |-> FALSE] \in Entry
      BY Numbers DEF Entry
    <3> QED
      BY <1>5, <3>1 DEF Dispatch
  <2>2. CASE retryStore' = retryStore
    <3>1. \A m \in Message : Left(m)' = Left(m) /\ HasEntry(m)' = HasEntry(m)
      BY <2>2 DEF Left, HasEntry
    <3>2. Left(n) = 0
      BY <1>7 DEF Left
    <3> QED
      BY <1>2, <3>1, <3>2, Numbers
  <2>3. CASE retryStore' = Put(retryStore, SeqOf(n), e)
    <3>1. /\ DOMAIN retryStore' = DOMAIN retryStore \cup {SeqOf(n)}
          /\ retryStore'[SeqOf(n)] = e
          /\ \A j \in DOMAIN retryStore \ {SeqOf(n)} : retryStore'[j] = retryStore[j]
      BY <2>3 DEF Put
    <3>2. Left(n)' <= MaxRetries
      BY <2>1, <3>1, Numbers DEF Left, HasEntry
    <3>3. ASSUME NEW m \in Message \ {n} PROVE Left(m)' <= Left(m) /\ (HasEntry(m)' => HasEntry(m))
      BY <1>2, <2>1, <3>1, <3>3 DEF Left, HasEntry
    <3> QED
      BY <3>2, <3>3
  <2> QED
    BY <2>1, <2>2, <2>3
<1>9. \A m \in Message : InFlight(m)' = InFlight(m) /\ Unsent(m)' = Unsent(m)
  BY <1>5, <1>6, Numbers DEF InFlight, Unsent
<1>10. Fresh'
  <2>1. \A m \in Message : m >= next' => transmitted'[m] = 0 /\ ~HasEntry(m)'
    BY <1>5, <1>6, <1>8, Numbers DEF BudgetInv, Fresh
  <2>2. timer'.pc \in {"retry", "resend"} => timer'.msg < next'
    BY <1>5, <1>6, <1>7 DEF BudgetInv, Fresh
  <2> QED
    BY <1>6, <2>1, <2>2 DEF Fresh
<1>11. \A m \in Message \ {n} : transmitted'[m] + Unsent(m)' + InFlight(m)' + Left(m)'
                               <= transmitted[m] + Unsent(m) + InFlight(m) + Left(m)
  BY <1>2, <1>3, <1>6, <1>8, <1>9
<1>12. transmitted'[n] + Unsent(n)' + InFlight(n)' + Left(n)' <= 1 + MaxRetries
  <2>1. Unsent(n) = 1
    BY <1>5, <1>6 DEF Unsent
  <2> QED
    BY <1>3, <1>6, <1>7, <1>8, <1>9, <2>1, Numbers
<1>13. Budget'
  <2>1. SUFFICES ASSUME NEW m \in Message
                 PROVE  transmitted'[m] + Unsent(m)' + InFlight(m)' + Left(m)' <= 1 + MaxRetries
    BY DEF Budget
  <2>2. transmitted[m] + Unsent(m) + InFlight(m) + Left(m) <= 1 + MaxRetries
    BY DEF BudgetInv, Budget
  <2> QED
    BY <1>2, <1>3, <1>11, <1>12, <2>2, Numbers
<1> QED
  BY <1>1, <1>10, <1>13 DEF BudgetInv

LEMMA BudgetSend ==
  ASSUME BudgetInv, Send
  PROVE  BudgetInv'
<1>1. NodeTypes'
  BY NodeTypesSend DEF BudgetInv
<1>2. /\ next \in Nat /\ sender.msg \in Message /\ sender.msg \in Nat
      /\ \A m \in Message :
           transmitted[m] \in Nat /\ Unsent(m) \in Nat /\ InFlight(m) \in Nat /\ Left(m) \in Nat
  <2>1. next \in Nat /\ sender.msg \in Message
    BY Numbers DEF BudgetInv, NodeTypes, SenderType
  <2> QED
    BY <2>1, BudgetNumbers, Numbers DEF BudgetInv
<1>3. CASE AddPending \/ SendFails
  <2>1. /\ sender'.msg = sender.msg /\ sender.pc # "idle" /\ next' = next
        /\ sender'.pc \in {"add", "send", "sendRaw"} => sender.pc \in {"add", "send", "sendRaw"}
        /\ UNCHANGED <<timer, retryStore, transmitted>>
    BY <1>3 DEF AddPending, SendFails, SenderAt, BudgetInv, NodeTypes, SenderType
  <2>2. Fresh'
    BY <2>1 DEF BudgetInv, Fresh, HasEntry
  <2>3. \A m \in Message : /\ Left(m)' = Left(m) /\ InFlight(m)' = InFlight(m)
                           /\ Unsent(m)' <= Unsent(m) /\ Unsent(m)' \in Nat
    BY <2>1, <1>2 DEF Left, HasEntry, InFlight, Unsent
  <2>4. \A m \in Message : (transmitted[m] + Unsent(m) + InFlight(m) + Left(m))'
                           <= transmitted[m] + Unsent(m) + InFlight(m) + Left(m)
    BY <1>2, <2>1, <2>3
  <2> QED
    BY <1>1, <2>2, <2>4, BudgetOf
<1>4. CASE SendSucceeds
  <2>1. PICK n \in Message : n = sender.msg
    BY <1>2
  <2>2. /\ sender'.msg = n /\ sender.pc \in {"send", "sendRaw"} /\ next' = next /\ n < next
        /\ sender'.pc \in {"mark", "reconcile"}
        /\ UNCHANGED <<timer, retryStore>>
        /\ transmitted' = [transmitted EXCEPT ![n] = @ + 1]
    BY <1>4, <2>1 DEF SendSucceeds, Transmit, SenderAt, BudgetInv, NodeTypes, SenderType, Fresh
  <2>3. Fresh'
    BY <1>2, <2>1, <2>2 DEF BudgetInv, Fresh, HasEntry, NodeTypes
  <2>4. \A m \in Message : /\ Left(m)' = Left(m) /\ InFlight(m)' = InFlight(m)
                           /\ m # n => Unsent(m)' = Unsent(m) /\ transmitted'[m] = transmitted[m]
    BY <1>2, <2>1, <2>2 DEF Left, HasEntry, InFlight, Unsent
  <2>5. Unsent(n) = 1 /\ Unsent(n)' = 0 /\ transmitted'[n] = transmitted[n] + 1
    BY <1>2, <2>1, <2>2, Numbers DEF Unsent, BudgetInv, NodeTypes
  <2>6. \A m \in Message : (transmitted[m] + Unsent(m) + InFlight(m) + Left(m))'
                           <= transmitted[m] + Unsent(m) + InFlight(m) + Left(m)
    BY <1>2, <2>4, <2>5
  <2> QED
    BY <1>1, <2>3, <2>6, BudgetOf
<1>5. CASE EraseEntry
  <2>1. /\ sender'.msg = sender.msg /\ sender.pc = "erase" /\ sender'.pc = "failed" /\ next' = next
        /\ UNCHANGED <<timer, transmitted>>
    BY <1>5 DEF EraseEntry, SenderAt, BudgetInv, NodeTypes, SenderType
  <2>2. \A m \in Message : Left(m)' <= Left(m) /\ (HasEntry(m)' => HasEntry(m))
    BY <1>5, LeftWithout DEF EraseEntry, BudgetInv
  <2>3. \A m \in Message : Left(m)' \in Nat
    <3>1. (\A m \in Message :
             transmitted[m] \in Nat /\ Unsent(m) \in Nat /\ InFlight(m) \in Nat /\ Left(m) \in Nat)'
      BY <1>1, BudgetNumbers, PTL
    <3> QED
      BY <3>1
  <2>4. Fresh'
    BY <2>1, <2>2 DEF BudgetInv, Fresh
  <2>5. \A m \in Message : InFlight(m)' = InFlight(m) /\ Unsent(m)' = Unsent(m)
    BY <2>1 DEF InFlight, Unsent
  <2>6. \A m \in Message : (transmitted[m] + Unsent(m) + InFlight(m) + Left(m))'
                           <= transmitted[m] + Unsent(m) + InFlight(m) + Left(m)
    BY <1>2, <2>1, <2>2, <2>3, <2>5
  <2> QED
    BY <1>1, <2>4, <2>6, BudgetOf
<1>6. CASE MarkSent
  <2>1. /\ sender'.msg = sender.msg /\ sender.pc = "mark" /\ sender'.pc = "reconcile" /\ next' = next
        /\ UNCHANGED <<timer, transmitted>>
    BY <1>6 DEF MarkSent, SenderAt, BudgetInv, NodeTypes, SenderType
  <2>2. /\ DOMAIN retryStore' = DOMAIN retryStore
        /\ \A k \in DOMAIN retryStore :
             /\ retryStore'[k].msg = retryStore[k].msg
             /\ retryStore'[k].attemptsRemaining = retryStore[k].attemptsRemaining
    BY <1>6 DEF MarkSent, BudgetInv, NodeTypes, StoreType
  <2>3. \A m \in Message : /\ HasEntry(m)' = HasEntry(m) /\ Left(m)' = Left(m)
                           /\ InFlight(m)' = InFlight(m) /\ Unsent(m)' = Unsent(m)
    BY <2>1, <2>2 DEF Left, HasEntry, InFlight, Unsent
  <2>4. Fresh'
    BY <2>1, <2>3 DEF BudgetInv, Fresh
  <2>5. \A m \in Message : (transmitted[m] + Unsent(m) + InFlight(m) + Left(m))'
                           <= transmitted[m] + Unsent(m) + InFlight(m) + Left(m)
    BY <1>2, <2>1, <2>3
  <2> QED
    BY <1>1, <2>4, <2>5, BudgetOf
<1>7. CASE Reconcile \/ SendReturnsError \/ WaitReturns
  <2>1. /\ sender'.msg = sender.msg /\ sender.pc # "idle" /\ next' = next
        /\ sender.pc \notin {"add", "send", "sendRaw"} /\ sender'.pc \in {"idle", "waiting"}
        /\ UNCHANGED <<timer, retryStore, transmitted>>
    BY <1>7 DEF Reconcile, SendReturnsError, WaitReturns, SenderAt, BudgetInv, NodeTypes, SenderType
  <2>2. Fresh'
    BY <2>1 DEF BudgetInv, Fresh, HasEntry
  <2>3. \A m \in Message : /\ Left(m)' = Left(m) /\ InFlight(m)' = InFlight(m)
                           /\ Unsent(m)' = Unsent(m)
    BY <2>1 DEF Left, HasEntry, InFlight, Unsent
  <2>4. \A m \in Message : (transmitted[m] + Unsent(m) + InFlight(m) + Left(m))'
                           <= transmitted[m] + Unsent(m) + InFlight(m) + Left(m)
    BY <1>2, <2>1, <2>3
  <2> QED
    BY <1>1, <2>2, <2>4, BudgetOf
<1> QED
  BY <1>3, <1>4, <1>5, <1>6, <1>7, BudgetDispatch DEF Send

\* What a pass over the expired entries decides for one of them.
LEMMA OnTimeoutCases ==
  ASSUME OnTimeout, NodeTypes
  PROVE  \E k \in timer.report :
           /\ timer'.report = timer.report \ {k} /\ timer.pc = "report" /\ k \in SeqNum
           /\ \/ /\ timer'.pc \in {"idle", "report"}
                 /\ retryStore' = retryStore \/ retryStore' = Without(k)
              \/ /\ k \in DOMAIN retryStore
                 /\ timer'.pc = "retry" /\ timer'.key = k /\ timer'.msg = retryStore[k].msg
                 /\ retryStore[k].attemptsRemaining # 0 /\ retryStore[k].isSent
                 /\ retryStore' = Spent(k)
              \/ timer'.pc = "reregister" /\ retryStore' = retryStore
<1>1. timer.report \in SUBSET SeqNum
  BY DEF NodeTypes, TimerType
<1>2. PICK k \in timer.report :
        \/ /\ timer' = NextReport([timer EXCEPT !.report = @ \ {k}])
           /\ retryStore' = retryStore \/ retryStore' = Without(k)
        \/ /\ k \in DOMAIN retryStore
           /\ timer' = [pc |-> "retry", key |-> k, msg |-> retryStore[k].msg,
                        report |-> timer.report \ {k}]
           /\ retryStore[k].attemptsRemaining # 0 /\ retryStore[k].isSent
           /\ retryStore' = Spent(k)
        \/ /\ timer' = [pc |-> "reregister", key |-> k, msg |-> retryStore[k].msg,
                        report |-> timer.report \ {k}]
           /\ retryStore' = retryStore
  BY DEF OnTimeout, isSent
<1>3. timer' = NextReport([timer EXCEPT !.report = @ \ {k}])
        => timer'.pc \in {"idle", "report"} /\ timer'.report = timer.report \ {k}
  BY DEF NextReport, NodeTypes, TimerType
<1>4. timer'.report = timer.report \ {k}
  BY <1>2, <1>3
<1> QED
  BY <1>1, <1>2, <1>3, <1>4 DEF OnTimeout

LEMMA BudgetProcess ==
  ASSUME BudgetInv, Process
  PROVE  BudgetInv'
<1>1. NodeTypes'
  BY NodeTypesProcess DEF BudgetInv
<1>2. \A m \in Message :
        transmitted[m] \in Nat /\ Unsent(m) \in Nat /\ InFlight(m) \in Nat /\ Left(m) \in Nat
  BY BudgetNumbers DEF BudgetInv
<1>3. (\A m \in Message :
         transmitted[m] \in Nat /\ Unsent(m) \in Nat /\ InFlight(m) \in Nat /\ Left(m) \in Nat)'
  BY <1>1, BudgetNumbers, PTL
<1>4. UNCHANGED <<next, sender>> /\ \A m \in Message : Unsent(m)' = Unsent(m)
  BY DEF Process, Expire, OnTimeout, RetryAdd, Resend, RetryDropped, Reregister, Unsent
<1>5. CASE Expire \/ RetryAdd \/ Reregister
  <2>1. /\ UNCHANGED <<retryStore, transmitted>> /\ timer'.msg = timer.msg
        /\ timer'.pc \in {"retry", "resend"} => timer.pc \in {"retry", "resend"}
    BY <1>5 DEF Expire, RetryAdd, Reregister, NextReport, BudgetInv, NodeTypes, TimerType
  <2>2. \A m \in Message : /\ Left(m)' = Left(m) /\ HasEntry(m)' = HasEntry(m)
                           /\ InFlight(m)' <= InFlight(m)
    BY <2>1, <1>2, <1>3 DEF Left, HasEntry, InFlight
  <2>3. Fresh'
    BY <1>4, <2>1, <2>2 DEF BudgetInv, Fresh
  <2>4. \A m \in Message : (transmitted[m] + Unsent(m) + InFlight(m) + Left(m))'
                           <= transmitted[m] + Unsent(m) + InFlight(m) + Left(m)
    BY <1>2, <1>3, <1>4, <2>1, <2>2
  <2> QED
    BY <1>1, <2>3, <2>4, BudgetOf
<1>6. CASE RetryDropped
  <2>1. /\ transmitted' = transmitted /\ timer'.pc \in {"idle", "report"}
        /\ retryStore' = Without(timer.key)
    BY <1>6 DEF RetryDropped, NextReport, BudgetInv, NodeTypes, TimerType
  <2>2. \A m \in Message : Left(m)' <= Left(m) /\ (HasEntry(m)' => HasEntry(m))
    BY <2>1, LeftWithout DEF BudgetInv
  <2>3. \A m \in Message : InFlight(m)' = 0
    BY <2>1 DEF InFlight
  <2>4. Fresh'
    BY <1>4, <2>1, <2>2 DEF BudgetInv, Fresh
  <2>5. \A m \in Message : (transmitted[m] + Unsent(m) + InFlight(m) + Left(m))'
                           <= transmitted[m] + Unsent(m) + InFlight(m) + Left(m)
    BY <1>2, <1>3, <1>4, <2>1, <2>2, <2>3
  <2> QED
    BY <1>1, <2>4, <2>5, BudgetOf
<1>7. CASE Resend
  <2>1. PICK n \in Message : n = timer.msg
    BY DEF BudgetInv, NodeTypes, TimerType
  <2>2. /\ timer.pc = "resend" /\ timer'.pc \in {"idle", "report"} /\ retryStore' = retryStore
        /\ n < next
        /\ transmitted' = transmitted \/ transmitted' = [transmitted EXCEPT ![n] = @ + 1]
    BY <1>7, <2>1 DEF Resend, Transmit, NextReport, BudgetInv, NodeTypes, TimerType, Fresh
  <2>3. \A m \in Message : /\ Left(m)' = Left(m) /\ HasEntry(m)' = HasEntry(m)
                           /\ InFlight(m)' = 0
                           /\ m # n => transmitted'[m] = transmitted[m]
    <3>1. \A m \in Message : m # n => transmitted'[m] = transmitted[m]
      BY <2>2 DEF BudgetInv, NodeTypes
    <3>2. \A m \in Message : Left(m)' = Left(m) /\ HasEntry(m)' = HasEntry(m) /\ InFlight(m)' = 0
      BY <2>2 DEF Left, HasEntry, InFlight
    <3> QED
      BY <3>1, <3>2
  <2>4. InFlight(n) = 1 /\ transmitted'[n] <= transmitted[n] + 1
    BY <1>2, <2>1, <2>2 DEF InFlight, BudgetInv, NodeTypes
  <2>5. Fresh'
    <3>1. \A m \in Message : m >= next => transmitted'[m] = transmitted[m]
      BY <2>2, <2>3, Numbers DEF BudgetInv, NodeTypes
    <3> QED
      BY <1>4, <2>2, <2>3, <3>1 DEF BudgetInv, Fresh
  <2>6. \A m \in Message : (transmitted[m] + Unsent(m) + InFlight(m) + Left(m))'
                           <= transmitted[m] + Unsent(m) + InFlight(m) + Left(m)
    BY <1>2, <1>3, <1>4, <2>3, <2>4
  <2> QED
    BY <1>1, <2>5, <2>6, BudgetOf
<1>8. CASE OnTimeout
  <2>1. transmitted' = transmitted /\ timer.pc = "report" /\ \A m \in Message : InFlight(m) = 0
    BY <1>8 DEF OnTimeout, InFlight
  <2>2. PICK k \in SeqNum :
          \/ /\ timer'.pc \in {"idle", "report"}
             /\ retryStore' = retryStore \/ retryStore' = Without(k)
          \/ /\ k \in DOMAIN retryStore
             /\ timer'.pc = "retry" /\ timer'.key = k /\ timer'.msg = retryStore[k].msg
             /\ retryStore[k].attemptsRemaining # 0 /\ retryStore[k].isSent
             /\ retryStore' = Spent(k)
          \/ timer'.pc = "reregister" /\ retryStore' = retryStore
    BY <1>8, OnTimeoutCases DEF BudgetInv
  <2>3. CASE timer'.pc # "retry"
    <3>1. \A m \in Message : Left(m)' <= Left(m) /\ (HasEntry(m)' => HasEntry(m))
      <4>1. CASE retryStore' = Without(k)
        BY <4>1, LeftWithout DEF BudgetInv
      <4>2. CASE retryStore' = retryStore
        <5>1. \A m \in Message : Left(m)' = Left(m) /\ HasEntry(m)' = HasEntry(m)
          BY <4>2 DEF Left, HasEntry
        <5> QED
          BY <1>2, <5>1
      <4> QED
        BY <2>2, <2>3, <4>1, <4>2
    <3>2. timer'.pc # "resend"
      BY <2>2
    <3>3. \A m \in Message : InFlight(m)' = 0
      BY <2>3, <3>2 DEF InFlight
    <3>4. Fresh'
      BY <1>4, <2>1, <2>3, <3>1, <3>2 DEF BudgetInv, Fresh
    <3>5. \A m \in Message : (transmitted[m] + Unsent(m) + InFlight(m) + Left(m))'
                             <= transmitted[m] + Unsent(m) + InFlight(m) + Left(m)
      BY <1>2, <1>3, <1>4, <2>1, <3>1, <3>3
    <3> QED
      BY <1>1, <3>4, <3>5, BudgetOf
  <2>4. CASE timer'.pc = "retry"
    <3>1. /\ k \in DOMAIN retryStore /\ timer'.msg = retryStore[k].msg
          /\ retryStore[k].attemptsRemaining # 0 /\ retryStore' = Spent(k)
      BY <2>2, <2>4
    <3>2. PICK n \in Message : n = retryStore[k].msg /\ SeqOf(n) = k
      BY <3>1 DEF BudgetInv, NodeTypes, StoreType
    <3>3. /\ DOMAIN retryStore' = DOMAIN retryStore
          /\ \A j \in DOMAIN retryStore : retryStore'[j].msg = retryStore[j].msg
          /\ \A j \in DOMAIN retryStore \ {k} : retryStore'[j] = retryStore[j]
          /\ retryStore'[k].attemptsRemaining = retryStore[k].attemptsRemaining - 1
      BY <3>1 DEF Spent, BudgetInv, NodeTypes, StoreType
    <3>4. \A m \in Message : HasEntry(m)' = HasEntry(m)
      BY <3>3 DEF HasEntry
    <3>5. HasEntry(n)
      BY <3>1, <3>2 DEF HasEntry
    <3>6. Left(n)' = Left(n) - 1
      BY <3>2, <3>3, <3>4, <3>5 DEF Left
    <3>7. \A m \in Message \ {n} : Left(m)' = Left(m) /\ InFlight(m)' = 0
      BY <2>4, <3>1, <3>2, <3>3, <3>4 DEF Left, HasEntry, InFlight
    <3>8. InFlight(n)' = 1
      BY <2>4, <3>1, <3>2 DEF InFlight
    <3>9. Fresh'
      <4>1. n < next
        BY <3>5, Numbers DEF BudgetInv, Fresh, NodeTypes
      <4> QED
        BY <1>4, <2>1, <2>4, <3>1, <3>2, <3>4, <4>1 DEF BudgetInv, Fresh
    <3>10. \A m \in Message : (transmitted[m] + Unsent(m) + InFlight(m) + Left(m))'
                             <= transmitted[m] + Unsent(m) + InFlight(m) + Left(m)
      BY <1>2, <1>3, <1>4, <2>1, <3>6, <3>7, <3>8
    <3> QED
      BY <1>1, <3>9, <3>10, BudgetOf
  <2> QED
    BY <2>3, <2>4
<1> QED
  BY <1>5, <1>6, <1>7, <1>8 DEF Process

LEMMA BudgetReceive ==
  ASSUME BudgetInv, Receive \/ ReceiverLeaves
  PROVE  BudgetInv'
<1>1. NodeTypes'
  BY NodeTypesReceive DEF BudgetInv
<1>2. CASE TakeAck \/ ReceiverLeaves
  BY <1>1, <1>2, BudgetSame DEF TakeAck, ReceiverLeaves
<1>3. CASE OnSuccess
  <2>1. UNCHANGED <<next, sender, timer, transmitted>> /\ retryStore' = Without(receiver.key)
    BY <1>3 DEF OnSuccess
  <2>2. \A m \in Message : Left(m)' <= Left(m) /\ (HasEntry(m)' => HasEntry(m))
    BY <2>1, LeftWithout DEF BudgetInv
  <2>3. \A m \in Message : InFlight(m)' = InFlight(m) /\ Unsent(m)' = Unsent(m)
    BY <2>1 DEF InFlight, Unsent
  <2>4. Fresh'
    BY <2>1, <2>2 DEF BudgetInv, Fresh
  <2>5. \A m \in Message :
          /\ transmitted[m] \in Nat /\ Unsent(m) \in Nat /\ InFlight(m) \in Nat /\ Left(m) \in Nat
    BY BudgetNumbers DEF BudgetInv
  <2>6. (\A m \in Message :
           transmitted[m] \in Nat /\ Unsent(m) \in Nat /\ InFlight(m) \in Nat /\ Left(m) \in Nat)'
    BY <1>1, BudgetNumbers, PTL
  <2>7. \A m \in Message : (transmitted[m] + Unsent(m) + InFlight(m) + Left(m))'
                           <= transmitted[m] + Unsent(m) + InFlight(m) + Left(m)
    BY <2>1, <2>2, <2>3, <2>5, <2>6
  <2> QED
    BY <1>1, <2>4, <2>7, BudgetOf
<1> QED
  BY <1>2, <1>3 DEF Receive

LEMMA BudgetKept == BudgetInv /\ [Next]_vars => BudgetInv'
<1> SUFFICES ASSUME BudgetInv, [Next]_vars PROVE BudgetInv'
  OBVIOUS
<1>1. CASE Wiring
  BY <1>1, WiringLeaves, NodeTypesSame, BudgetSame DEF node, BudgetInv
<1>2. CASE Peer
  BY <1>2, PeerLeaves, NodeTypesSame, BudgetSame DEF node, BudgetInv
<1>3. CASE UNCHANGED vars
  BY <1>3, NodeTypesSame, BudgetSame DEF vars, node, BudgetInv
<1> QED
  BY <1>1, <1>2, <1>3, BudgetSend, BudgetProcess, BudgetReceive DEF Next, Wiring, Peer

\* A message is handed to the medium at most 1 + maxRetries times, whatever the timer, the
\* sender and the ACK do to each other.
THEOREM RetriesAreBounded == Spec => []RetriesBounded
<1>1. BudgetInv => RetriesBounded
  <2> SUFFICES ASSUME BudgetInv, NEW m \in Message PROVE transmitted[m] <= 1 + MaxRetries
    BY DEF RetriesBounded
  <2>1. transmitted[m] \in Nat /\ Unsent(m) \in Nat /\ InFlight(m) \in Nat /\ Left(m) \in Nat
    BY BudgetNumbers DEF BudgetInv
  <2>2. transmitted[m] + Unsent(m) + InFlight(m) + Left(m) <= 1 + MaxRetries
    BY DEF BudgetInv, Budget
  <2> QED
    BY <2>1, <2>2, Numbers
<1> QED
  BY <1>1, BudgetInit, BudgetKept, PTL DEF Spec

-----------------------------------------------------------------------------
(***************************************************************************)
(* A failed send is not repeated.                                          *)
(***************************************************************************)
Unfinished == {"add", "send", "sendRaw", "erase", "failed"}

\* The store holds nothing that has failed or is about to be reported so, and nothing is
\* marked as sent before its first Send() has succeeded.
StoreIsLive ==
  \A k \in DOMAIN retryStore :
    /\ result[retryStore[k].msg] # "failed"
    /\ retryStore[k].msg = sender.msg => sender.pc \notin {"failed", "sendRaw"}
    /\ retryStore[k].isSent /\ retryStore[k].msg = sender.msg => sender.pc \notin Unfinished

\* Nor does the timer's thread, which reads an entry and sends it after the unlock.
RetryIsLive ==
  timer.pc \in {"retry", "resend"} =>
    /\ result[timer.msg] # "failed"
    /\ timer.msg = sender.msg => sender.pc \notin Unfinished

\* No answer is given before the send is over.
NoAnswerYet ==
  /\ result \in [Message -> {"none", "sent", "true", "false", "failed"}]
  /\ \A m \in Message : m >= next => result[m] = "none"
  /\ sender.pc # "idle" => result[sender.msg] = "none"

FinalInv == BudgetInv /\ StoreIsLive /\ RetryIsLive /\ NoAnswerYet

LEMMA FinalInit == Init => FinalInv
<1> SUFFICES ASSUME Init PROVE FinalInv
  OBVIOUS
<1>1. StoreIsLive /\ RetryIsLive /\ NoAnswerYet
  BY DEF Init, StoreIsLive, RetryIsLive, NoAnswerYet
<1> QED
  BY <1>1, BudgetInit DEF FinalInv

LEMMA FinalSame ==
  ASSUME FinalInv, BudgetInv', UNCHANGED <<next, sender, timer, retryStore, result>>
  PROVE  FinalInv'
BY DEF FinalInv, StoreIsLive, RetryIsLive, NoAnswerYet

LEMMA FinalDispatch ==
  ASSUME FinalInv, Dispatch
  PROVE  StoreIsLive' /\ RetryIsLive' /\ NoAnswerYet'
<1>1. PICK n \in Message : n = next /\ n \in Nat
  BY Numbers DEF Dispatch, Message, FinalInv, BudgetInv, NodeTypes
<1>2. /\ next' = n + 1 /\ sender'.msg = n /\ sender'.pc \in {"add", "sendRaw"}
      /\ UNCHANGED <<timer, result>> /\ result[n] = "none"
  BY <1>1 DEF Dispatch, FinalInv, NoAnswerYet
<1>3. \A k \in DOMAIN retryStore : retryStore[k].msg \in Message /\ retryStore[k].msg # n
  BY <1>1 DEF FinalInv, BudgetInv, NodeTypes, StoreType, Fresh, HasEntry
<1>4. StoreIsLive'
  <2>1. CASE retryStore' = retryStore
    BY <1>2, <1>3, <2>1 DEF FinalInv, StoreIsLive
  <2>2. CASE retryStore' # retryStore
    <3>1. PICK e \in Entry : /\ e.msg = n /\ ~e.isSent /\ sender'.pc = "add"
                             /\ retryStore' = Put(retryStore, SeqOf(n), e)
      <4>1. [msg |-> n, attemptsRemaining |-> MaxRetries, isSent |-> FALSE] \in Entry
        BY Numbers DEF Entry
      <4> QED
        BY <1>1, <2>2, <4>1 DEF Dispatch
    <3>2. /\ DOMAIN retryStore' = DOMAIN retryStore \cup {SeqOf(n)}
          /\ retryStore'[SeqOf(n)] = e
          /\ \A j \in DOMAIN retryStore \ {SeqOf(n)} : retryStore'[j] = retryStore[j]
      BY <3>1 DEF Put
    <3> QED
      BY <1>2, <1>3, <3>1, <3>2 DEF FinalInv, StoreIsLive
  <2> QED
    BY <2>1, <2>2
<1>5. RetryIsLive'
  BY <1>1, <1>2 DEF FinalInv, RetryIsLive, BudgetInv, Fresh
<1>6. NoAnswerYet'
  BY <1>1, <1>2, Numbers DEF FinalInv, NoAnswerYet
<1> QED
  BY <1>4, <1>5, <1>6

LEMMA FinalSend ==
  ASSUME FinalInv, Send
  PROVE  FinalInv'
<1>1. BudgetInv'
  BY BudgetSend DEF FinalInv
<1>2. /\ SenderType /\ StoreType /\ next \in Nat /\ sender.msg \in Message /\ sender.msg \in Nat
      /\ sender.pc # "idle" => sender.msg < next
  <2>1. SenderType /\ StoreType /\ next \in Nat /\ (sender.pc # "idle" => sender.msg < next)
    BY Numbers DEF FinalInv, BudgetInv, NodeTypes, Fresh
  <2> QED
    BY <2>1, Numbers DEF SenderType
<1>3. CASE AddPending \/ SendFails \/ SendSucceeds
  <2>1. /\ sender'.msg = sender.msg /\ sender.pc \in {"add", "send", "sendRaw"}
        /\ sender'.pc \in {"failed", "sendRaw"} => sender.pc = "sendRaw"
        /\ sender'.pc # "idle"
        /\ UNCHANGED <<next, timer, retryStore, result>>
    BY <1>2, <1>3 DEF AddPending, SendFails, SendSucceeds, SenderAt, SenderType
  <2>2. StoreIsLive' /\ RetryIsLive' /\ NoAnswerYet'
    BY <2>1 DEF FinalInv, StoreIsLive, RetryIsLive, NoAnswerYet, Unfinished
  <2> QED
    BY <1>1, <2>2 DEF FinalInv
<1>4. CASE EraseEntry
  <2>1. /\ sender'.msg = sender.msg /\ sender.pc = "erase" /\ sender'.pc = "failed"
        /\ UNCHANGED <<next, timer, result>> /\ retryStore' = Without(SeqOf(sender.msg))
    BY <1>2, <1>4 DEF EraseEntry, SenderAt, SenderType
  <2>2. /\ DOMAIN retryStore' = DOMAIN retryStore \ {SeqOf(sender.msg)}
        /\ \A k \in DOMAIN retryStore' : retryStore'[k] = retryStore[k] /\ retryStore[k].msg # sender.msg
    <3>1. PICK j \in SeqNum : j = SeqOf(sender.msg)
      BY <1>2, Numbers
    <3>2. /\ DOMAIN retryStore' = DOMAIN retryStore \ {j}
          /\ \A k \in DOMAIN retryStore' : retryStore'[k] = retryStore[k]
      BY <2>1, <3>1, WithoutLemma
    <3>3. \A k \in DOMAIN retryStore : SeqOf(retryStore[k].msg) = k
      BY <1>2 DEF StoreType
    <3>4. ASSUME NEW k \in DOMAIN retryStore' PROVE retryStore[k].msg # sender.msg
      BY <3>1, <3>2, <3>3
    <3> QED
      BY <3>1, <3>2, <3>4
  <2>3. StoreIsLive' /\ RetryIsLive' /\ NoAnswerYet'
    BY <2>1, <2>2 DEF FinalInv, StoreIsLive, RetryIsLive, NoAnswerYet, Unfinished
  <2> QED
    BY <1>1, <2>3 DEF FinalInv
<1>5. CASE MarkSent
  <2>1. /\ sender'.msg = sender.msg /\ sender.pc = "mark" /\ sender'.pc = "reconcile"
        /\ UNCHANGED <<next, timer, result>>
    BY <1>2, <1>5 DEF MarkSent, SenderAt, SenderType
  <2>2. /\ DOMAIN retryStore' = DOMAIN retryStore
        /\ \A k \in DOMAIN retryStore : retryStore'[k].msg = retryStore[k].msg
    BY <1>2, <1>5 DEF MarkSent, StoreType
  <2>3. StoreIsLive' /\ RetryIsLive' /\ NoAnswerYet'
    BY <2>1, <2>2 DEF FinalInv, StoreIsLive, RetryIsLive, NoAnswerYet, Unfinished
  <2> QED
    BY <1>1, <2>3 DEF FinalInv
<1>6. CASE Reconcile \/ SendReturnsError \/ WaitReturns
  <2>1. PICK n \in Message : n = sender.msg /\ n < next
    BY <1>2, <1>6 DEF Reconcile, SendReturnsError, WaitReturns
  <2>2. /\ sender'.msg = n /\ sender'.pc \in {"idle", "waiting"}
        /\ UNCHANGED <<next, timer, retryStore>>
        /\ \/ result' = result
           \/ sender'.pc = "idle" /\ \E a \in {"sent", "true", "false", "failed"} :
                /\ a = "failed" => sender.pc = "failed"
                /\ result' = [result EXCEPT ![n] = a]
    BY <1>2, <1>6, <2>1 DEF Reconcile, SendReturnsError, WaitReturns, SenderAt, SenderType, Told
  <2>3. CASE result' = result
    <3>1. NoAnswerYet'
      <4>1. result[n] = "none"
        BY <1>6, <2>1 DEF Reconcile, SendReturnsError, WaitReturns, FinalInv, NoAnswerYet
      <4> QED
        BY <2>2, <2>3, <4>1 DEF FinalInv, NoAnswerYet
    <3>2. StoreIsLive' /\ RetryIsLive'
      BY <2>1, <2>2, <2>3 DEF FinalInv, StoreIsLive, RetryIsLive, Unfinished
    <3> QED
      BY <1>1, <3>1, <3>2 DEF FinalInv
  <2>4. CASE result' # result
    <3>1. PICK a \in {"sent", "true", "false", "failed"} :
            /\ a = "failed" => sender.pc = "failed"
            /\ result' = [result EXCEPT ![n] = a] /\ sender'.pc = "idle"
      BY <2>2, <2>4
    <3>2. /\ result' \in [Message -> {"none", "sent", "true", "false", "failed"}]
          /\ result'[n] = a /\ \A m \in Message \ {n} : result'[m] = result[m]
      BY <3>1 DEF FinalInv, NoAnswerYet
    <3>3. NoAnswerYet'
      BY <1>2, <2>1, <2>2, <3>1, <3>2, Numbers DEF FinalInv, NoAnswerYet
    <3>4. StoreIsLive'
      <4>1. \A k \in DOMAIN retryStore : retryStore[k].msg \in Message
        BY <1>2 DEF StoreType
      <4> QED
        BY <2>1, <2>2, <3>1, <3>2, <4>1 DEF FinalInv, StoreIsLive, Unfinished
    <3>5. RetryIsLive'
      <4>1. timer.msg \in Message
        BY DEF FinalInv, BudgetInv, NodeTypes, TimerType
      <4> QED
        BY <2>1, <2>2, <3>1, <3>2, <4>1 DEF FinalInv, RetryIsLive, Unfinished
    <3> QED
      BY <1>1, <3>3, <3>4, <3>5 DEF FinalInv
  <2> QED
    BY <2>3, <2>4
<1>7. CASE Dispatch
  BY <1>1, <1>7, FinalDispatch DEF FinalInv
<1> QED
  BY <1>3, <1>4, <1>5, <1>6, <1>7 DEF Send

LEMMA FinalProcess ==
  ASSUME FinalInv, Process
  PROVE  FinalInv'
<1>1. BudgetInv'
  BY BudgetProcess DEF FinalInv
<1>2. UNCHANGED <<next, sender, result>>
  BY DEF Process, Expire, OnTimeout, RetryAdd, Resend, RetryDropped, Reregister
<1>3. NoAnswerYet'
  BY <1>2 DEF FinalInv, NoAnswerYet
<1>4. CASE Expire \/ RetryAdd \/ Reregister \/ Resend
  <2>1. /\ retryStore' = retryStore /\ timer'.msg = timer.msg
        /\ timer'.pc \in {"retry", "resend"} => timer.pc \in {"retry", "resend"}
    BY <1>4 DEF Expire, RetryAdd, Reregister, Resend, NextReport, FinalInv, BudgetInv, NodeTypes,
                TimerType
  <2>2. StoreIsLive' /\ RetryIsLive'
    BY <1>2, <2>1 DEF FinalInv, StoreIsLive, RetryIsLive
  <2> QED
    BY <1>1, <1>3, <2>2 DEF FinalInv
<1>5. CASE RetryDropped
  <2>1. retryStore' = Without(timer.key) /\ timer'.pc \in {"idle", "report"}
    BY <1>5 DEF RetryDropped, NextReport, FinalInv, BudgetInv, NodeTypes, TimerType
  <2>2. StoreIsLive' /\ RetryIsLive'
    BY <1>2, <2>1, WithoutLemma DEF FinalInv, StoreIsLive, RetryIsLive
  <2> QED
    BY <1>1, <1>3, <2>2 DEF FinalInv
<1>6. CASE OnTimeout
  <2>1. PICK k \in SeqNum :
          \/ /\ timer'.pc \in {"idle", "report"}
             /\ retryStore' = retryStore \/ retryStore' = Without(k)
          \/ /\ k \in DOMAIN retryStore
             /\ timer'.pc = "retry" /\ timer'.key = k /\ timer'.msg = retryStore[k].msg
             /\ retryStore[k].attemptsRemaining # 0 /\ retryStore[k].isSent
             /\ retryStore' = Spent(k)
          \/ timer'.pc = "reregister" /\ retryStore' = retryStore
    BY <1>6, OnTimeoutCases DEF FinalInv, BudgetInv
  <2>2. \/ /\ DOMAIN retryStore' \subseteq DOMAIN retryStore
           /\ \A j \in DOMAIN retryStore' : retryStore'[j] = retryStore[j]
        \/ retryStore' = Spent(k) /\ k \in DOMAIN retryStore
    BY <2>1, WithoutLemma
  <2>3. /\ DOMAIN retryStore' \subseteq DOMAIN retryStore
        /\ \A j \in DOMAIN retryStore' : /\ retryStore'[j].msg = retryStore[j].msg
                                         /\ retryStore'[j].isSent = retryStore[j].isSent
    <3>1. retryStore' = Spent(k) /\ k \in DOMAIN retryStore =>
            /\ DOMAIN retryStore' = DOMAIN retryStore
            /\ \A j \in DOMAIN retryStore : /\ retryStore'[j].msg = retryStore[j].msg
                                            /\ retryStore'[j].isSent = retryStore[j].isSent
      BY DEF Spent, FinalInv, BudgetInv, NodeTypes, StoreType
    <3> QED
      BY <2>2, <3>1
  <2>4. StoreIsLive'
    BY <1>2, <2>3 DEF FinalInv, StoreIsLive
  <2>5. RetryIsLive'
    BY <1>2, <2>1 DEF FinalInv, StoreIsLive, RetryIsLive, Unfinished
  <2> QED
    BY <1>1, <1>3, <2>4, <2>5 DEF FinalInv
<1> QED
  BY <1>4, <1>5, <1>6 DEF Process

LEMMA FinalReceive ==
  ASSUME FinalInv, Receive \/ ReceiverLeaves
  PROVE  FinalInv'
<1>1. BudgetInv'
  BY BudgetReceive DEF FinalInv
<1>2. CASE TakeAck \/ ReceiverLeaves
  BY <1>1, <1>2, FinalSame DEF TakeAck, ReceiverLeaves
<1>3. CASE OnSuccess
  <2>1. UNCHANGED <<next, sender, timer, result>> /\ retryStore' = Without(receiver.key)
    BY <1>3 DEF OnSuccess
  <2>2. StoreIsLive' /\ RetryIsLive' /\ NoAnswerYet'
    BY <2>1, WithoutLemma DEF FinalInv, StoreIsLive, RetryIsLive, NoAnswerYet
  <2> QED
    BY <1>1, <2>2 DEF FinalInv
<1> QED
  BY <1>2, <1>3 DEF Receive

LEMMA FinalKept == FinalInv /\ [Next]_vars => FinalInv'
<1> SUFFICES ASSUME FinalInv, [Next]_vars PROVE FinalInv'
  OBVIOUS
<1>1. BudgetInv'
  BY BudgetKept DEF FinalInv
<1>2. CASE Wiring
  BY <1>1, <1>2, WiringLeaves, FinalSame DEF node
<1>3. CASE Peer
  BY <1>1, <1>3, PeerLeaves, FinalSame DEF node
<1>4. CASE UNCHANGED vars
  BY <1>1, <1>4, FinalSame DEF vars, node
<1> QED
  BY <1>2, <1>3, <1>4, FinalSend, FinalProcess, FinalReceive DEF Next, Wiring, Peer

\* A step transmits only what has not failed.
LEMMA FailedIsNotSent ==
  ASSUME FinalInv, [Next]_vars, NEW m \in Message, result[m] = "failed"
  PROVE  transmitted'[m] = transmitted[m]
<1>1. transmitted \in [Message -> Nat]
  BY DEF FinalInv, BudgetInv, NodeTypes
<1>2. CASE Wiring
  BY <1>2, WiringLeaves
<1>3. CASE Peer
  BY <1>3, PeerLeaves
<1>4. CASE SendSucceeds
  BY <1>1, <1>4 DEF SendSucceeds, Transmit, FinalInv, NoAnswerYet
<1>5. CASE Resend
  BY <1>1, <1>5 DEF Resend, Transmit, FinalInv, RetryIsLive
<1>6. CASE Dispatch \/ AddPending \/ SendFails \/ EraseEntry \/ MarkSent
           \/ Reconcile \/ SendReturnsError \/ WaitReturns
  BY <1>6 DEF Dispatch, AddPending, SendFails, EraseEntry, MarkSent, Reconcile, SendReturnsError,
              WaitReturns
<1>7. CASE Expire \/ OnTimeout \/ RetryAdd \/ RetryDropped \/ Reregister
           \/ Receive \/ ReceiverLeaves
  BY <1>7 DEF Expire, OnTimeout, RetryAdd, RetryDropped, Reregister, Receive, TakeAck, OnSuccess,
              ReceiverLeaves
<1>8. CASE UNCHANGED vars
  BY <1>8 DEF vars
<1> QED
  BY <1>2, <1>3, <1>4, <1>5, <1>6, <1>7, <1>8 DEF Next, Wiring, Peer, Send, Process

\* What was reported as failed is not transmitted any more, whatever the timer had read
\* before: the entry that it sends again is one whose first send has succeeded.
THEOREM FailedStaysFailed == Spec => FailedIsFinal
<1>1. FinalInv /\ [Next]_vars
        => [\A m \in Message : result[m] = "failed" => transmitted'[m] = transmitted[m]]_vars
  BY FailedIsNotSent
<1> QED
  BY <1>1, FinalInit, FinalKept, PTL DEF Spec, FailedIsFinal

-----------------------------------------------------------------------------
(***************************************************************************)
(* The idempotency window of the peer.                                     *)
(***************************************************************************)
Slot == 0 .. HistorySize - 1

\* How many numbers were written to the ring after the one in slot j, when h is its head.
Age(h, j) == IF j < h THEN h - 1 - j ELSE h - 1 - j + HistorySize

\* As long as only ProcessIncoming() executes, the ring holds the last numbers executed,
\* each in the slot that its age gives.
Windowed == wiring \in {"new", "node", "direct"}

RingIsRecent ==
  /\ history.head \in Slot
  /\ history = [buffer |-> history.buffer, head |-> history.head]
  /\ history.buffer \in [Slot -> Nat]
  /\ delivered \in Seq(SeqNum)
  /\ \A j \in Slot : Age(history.head, j) < Len(delivered) =>
       history.buffer[j] = delivered[Len(delivered) - Age(history.head, j)]

FarApart ==
  \A i, j \in 1 .. Len(delivered) : i < j /\ delivered[i] = delivered[j] => j - i > HistorySize

WindowInv == Windowed => RingIsRecent /\ FarApart

LEMMA WindowInit == Init => WindowInv
<1> SUFFICES ASSUME Init PROVE RingIsRecent /\ FarApart
  BY DEF WindowInv
<1>1. /\ delivered = <<>>
      /\ history = [buffer |-> [i \in Slot |-> SeqMod], head |-> 0]
  BY DEF Init, Slot
<1>2. Slot \subseteq Nat /\ 0 \in Slot /\ Len(delivered) = 0
  BY <1>1, Numbers DEF Slot
<1>3. \A j \in Slot : ~(Age(0, j) < 0)
  BY <1>2, Numbers DEF Age, Slot
<1> QED
  BY <1>1, <1>2, <1>3, Numbers DEF RingIsRecent, FarApart

LEMMA WindowKept == WindowInv /\ [Next]_vars => WindowInv'
<1> SUFFICES ASSUME WindowInv, [Next]_vars, Windowed'
             PROVE  RingIsRecent' /\ FarApart'
  BY DEF WindowInv
<1>1. CASE ProcessIncoming
  <2>1. RingIsRecent /\ FarApart
    BY <1>1 DEF ProcessIncoming, WindowInv, Windowed
  <2>2. CASE UNCHANGED <<history, delivered>>
    BY <2>1, <2>2 DEF RingIsRecent, FarApart
  <2>3. CASE ~UNCHANGED <<history, delivered>>
    <3>1. PICK k \in SeqNum : /\ k \notin Range(history.buffer) /\ history' = Remembered(k)
                              /\ delivered' = Append(delivered, k)
      BY <1>1, <2>3, Numbers DEF ProcessIncoming, is_duplicate, Execute
    <3>2. PICK h \in Slot : h = history.head
      BY <2>1 DEF RingIsRecent
    <3>3. PICK n \in Nat : n = Len(delivered)
      BY <2>1, LenProperties DEF RingIsRecent
    <3>4. /\ delivered' \in Seq(SeqNum) /\ Len(delivered') = n + 1
          /\ delivered'[n + 1] = k
          /\ \A i \in 1 .. n : delivered'[i] = delivered[i]
      BY <2>1, <3>1, <3>3, AppendProperties DEF RingIsRecent
    <3>5. PICK g \in Slot : /\ g = (h + 1) % HistorySize
                            /\ g = IF h + 1 = HistorySize THEN 0 ELSE h + 1
      BY Numbers DEF Slot
    <3>6. /\ history'.head = g /\ history'.buffer[h] = k /\ history'.buffer \in [Slot -> Nat]
          /\ \A j \in Slot \ {h} : history'.buffer[j] = history.buffer[j]
          /\ history' = [buffer |-> history'.buffer, head |-> history'.head]
      BY <2>1, <3>1, <3>2, <3>5 DEF Remembered, RingIsRecent, SeqNum
    <3>7. Age(g, h) = 0 /\ \A j \in Slot \ {h} : Age(g, j) = Age(h, j) + 1
      BY <3>5, Numbers DEF Age, Slot
    <3>8. \A j \in Slot : Age(h, j) \in Nat
      BY Numbers DEF Age, Slot
    <3>9. \A j \in Slot : Age(g, j) < n + 1 => history'.buffer[j] = delivered'[n + 1 - Age(g, j)]
      <4> SUFFICES ASSUME NEW j \in Slot, Age(g, j) < n + 1
                   PROVE  history'.buffer[j] = delivered'[n + 1 - Age(g, j)]
        OBVIOUS
      <4>1. CASE j = h
        <5>1. n + 1 - Age(g, j) = n + 1
          BY <3>7, <4>1
        <5> QED
          BY <3>4, <3>6, <4>1, <5>1
      <4>2. CASE j # h
        <5>1. /\ Age(h, j) < n /\ n + 1 - Age(g, j) = n - Age(h, j)
              /\ n - Age(h, j) \in 1 .. n
          BY <3>7, <3>8, <4>2
        <5>2. history.buffer[j] = delivered[n - Age(h, j)]
          BY <2>1, <3>2, <3>3, <5>1 DEF RingIsRecent
        <5> QED
          BY <3>4, <3>6, <4>2, <5>1, <5>2
      <4> QED
        BY <4>1, <4>2
    <3>10. RingIsRecent'
      <4>1. Len(delivered') = n + 1 /\ \A j \in Slot : Age(history'.head, j) = Age(g, j)
        BY <3>4, <3>6
      <4>2. \A j \in Slot : Age(history'.head, j) < Len(delivered') =>
              history'.buffer[j] = delivered'[Len(delivered') - Age(history'.head, j)]
        <5> SUFFICES ASSUME NEW j \in Slot, Age(history'.head, j) < Len(delivered')
                     PROVE  history'.buffer[j] = delivered'[Len(delivered') - Age(history'.head, j)]
          OBVIOUS
        <5>1. PICK a \in Nat : a = Age(g, j)
          BY <3>7, <3>8
        <5>2. history'.buffer[j] = delivered'[n + 1 - a]
          BY <3>9, <4>1, <5>1
        <5> QED
          BY <4>1, <5>1, <5>2
      <4>3. history'.head \in Slot
        BY <3>6
      <4> QED
        BY <3>4, <3>6, <4>2, <4>3 DEF RingIsRecent
    <3>11. \A i \in 1 .. n : delivered[i] = k => n + 1 - i > HistorySize
      <4>1. SUFFICES ASSUME NEW i \in 1 .. n, delivered[i] = k, ~(n + 1 - i > HistorySize)
                     PROVE  FALSE
        OBVIOUS
      <4>2. PICK j \in Slot : Age(h, j) = n - i
        <5>1. n - i \in Slot
          BY <4>1, Numbers DEF Slot
        <5>2. CASE n - i < h
          <6>1. h - 1 - (n - i) \in Slot /\ Age(h, h - 1 - (n - i)) = n - i
            BY <5>1, <5>2, Numbers DEF Slot, Age
          <6> QED
            BY <6>1
        <5>3. CASE ~(n - i < h)
          <6>1. h - 1 - (n - i) + HistorySize \in Slot
                /\ Age(h, h - 1 - (n - i) + HistorySize) = n - i
            BY <5>1, <5>3, Numbers DEF Slot, Age
          <6> QED
            BY <6>1
        <5> QED
          BY <5>2, <5>3
      <4>3. Age(h, j) < n /\ n - Age(h, j) = i
        BY <4>1, <4>2
      <4>4. history.buffer[j] = k
        BY <2>1, <3>2, <3>3, <4>1, <4>3 DEF RingIsRecent
      <4> QED
        BY <2>1, <3>1, <4>4 DEF RingIsRecent, Range
    <3>12. FarApart'
      <4>1. SUFFICES ASSUME NEW i \in 1 .. n + 1, NEW j \in 1 .. n + 1, i < j,
                            delivered'[i] = delivered'[j]
                     PROVE  j - i > HistorySize
        BY <3>4 DEF FarApart
      <4>2. CASE j = n + 1
        <5>1. i \in 1 .. n
          BY <4>1, <4>2
        <5> QED
          BY <3>4, <3>11, <4>1, <4>2, <5>1
      <4>3. CASE j # n + 1
        <5>1. i \in 1 .. n /\ j \in 1 .. n
          BY <4>1, <4>3
        <5>2. delivered[i] = delivered[j]
          BY <3>4, <4>1, <5>1
        <5> QED
          BY <2>1, <3>3, <4>1, <5>1, <5>2 DEF FarApart
      <4> QED
        BY <4>2, <4>3
    <3> QED
      BY <3>10, <3>12
  <2> QED
    BY <2>2, <2>3
<1>2. CASE Wiring \/ Send \/ Process \/ Receive \/ ReceiverLeaves \/ UNCHANGED vars
  <2>1. UNCHANGED <<history, delivered>>
    <3>1. Wiring => UNCHANGED <<history, delivered>>
      BY WiringLeaves DEF peer
    <3>2. Send \/ Process \/ Receive \/ ReceiverLeaves \/ UNCHANGED vars
            => UNCHANGED <<history, delivered>>
      BY DEF Send, Dispatch, AddPending, SendSucceeds, SendFails, EraseEntry, MarkSent, Reconcile,
             SendReturnsError, WaitReturns, Process, Expire, OnTimeout, RetryAdd, Resend,
             RetryDropped, Reregister, Receive, TakeAck, OnSuccess, ReceiverLeaves, vars, peer
    <3> QED
      BY <1>2, <3>1, <3>2
  <2>2. Windowed
    <3>1. Wiring => Windowed
      BY DEF Wiring, AddPeer, Initialize, InitializeDuplex, Connect, Stop, StopOnThread, Wired,
             Windowed
    <3>2. Send \/ Process \/ Receive \/ ReceiverLeaves \/ UNCHANGED vars => wiring' = wiring
      BY DEF Send, Dispatch, AddPending, SendSucceeds, SendFails, EraseEntry, MarkSent, Reconcile,
             SendReturnsError, WaitReturns, Process, Expire, OnTimeout, RetryAdd, Resend,
             RetryDropped, Reregister, Receive, TakeAck, OnSuccess, ReceiverLeaves, vars
    <3> QED
      BY <1>2, <3>1, <3>2 DEF Windowed
  <2> QED
    BY <2>1, <2>2 DEF WindowInv, RingIsRecent, FarApart
<1>3. CASE RecvThread
  BY <1>3 DEF RecvThread, Windowed
<1> QED
  BY <1>1, <1>2, <1>3 DEF Next, Wiring

\* Between two executions of one number lie HistorySize others, for every size of the
\* history: no duplicate gets through the window, whatever the medium repeats.
THEOREM DuplicatesAreFarApart == Spec => []DuplicateOnlyBeyondWindow
<1>1. WindowInv => DuplicateOnlyBeyondWindow
  BY DEF WindowInv, Windowed, FarApart, DuplicateOnlyBeyondWindow
<1> QED
  BY <1>1, WindowInit, WindowKept, PTL DEF Spec

-----------------------------------------------------------------------------
(***************************************************************************)
(* A success comes from an ACK, and an ACK from the peer's transport.      *)
(***************************************************************************)
Heard(k) == \E m \in received : SeqOf(m) = k

HeardOnly ==
  /\ \A a \in acks : Heard(a.seq)
  /\ \A k \in confirmed : Heard(k)
  /\ receiver.pc = "success" => receiver.key \in confirmed

WaitShape ==
  /\ wait = [seqSet |-> wait.seqSet, expectedSeq |-> wait.expectedSeq,
             complete |-> wait.complete, success |-> wait.success, early |-> wait.early]
  /\ wait.seqSet \in BOOLEAN /\ wait.complete \in BOOLEAN /\ wait.success \in BOOLEAN
  /\ \A k \in DOMAIN wait.early : wait.early[k] \in BOOLEAN

\* What the RemoteInvokeWait() under way believes of its own number.
WaitIsTrue ==
  /\ wait.seqSet => sender.pc = "waiting" /\ wait.expectedSeq = SeqOf(sender.msg)
  /\ wait.success => wait.seqSet /\ wait.expectedSeq \in confirmed
  /\ \A k \in DOMAIN wait.early : wait.early[k] = TRUE => k \in confirmed

AnswerIsTrue == \A m \in Message : result[m] = "true" => SeqOf(m) \in confirmed

SuccessInv == /\ NodeTypes /\ HeardOnly /\ WaitShape /\ WaitIsTrue /\ AnswerIsTrue
              /\ result \in [Message -> {"none", "sent", "true", "false", "failed"}]

LEMMA SuccessInit == Init => SuccessInv
<1> SUFFICES ASSUME Init PROVE SuccessInv
  OBVIOUS
<1>1. HeardOnly /\ AnswerIsTrue
      /\ result \in [Message -> {"none", "sent", "true", "false", "failed"}]
  BY DEF Init, HeardOnly, AnswerIsTrue
<1>2. WaitShape /\ WaitIsTrue
  BY DEF Init, None, WaitShape, WaitIsTrue
<1> QED
  BY <1>1, <1>2, NodeTypesInit DEF SuccessInv

LEMMA SuccessSame ==
  ASSUME SuccessInv, NodeTypes', UNCHANGED <<sender, receiver, wait, acks, received, confirmed, result>>
  PROVE  SuccessInv'
BY DEF SuccessInv, HeardOnly, Heard, WaitShape, WaitIsTrue, AnswerIsTrue

LEMMA WaitOfNone ==
  ASSUME wait' = None
  PROVE  WaitShape' /\ WaitIsTrue'
BY DEF None, WaitShape, WaitIsTrue

\* A status that reaches the wait is one that was confirmed, or says nothing.
LEMMA NotifyIsTrue ==
  ASSUME WaitShape, WaitIsTrue, NEW k, NEW ok \in BOOLEAN, ok => k \in confirmed,
         Notify(k, ok), UNCHANGED <<sender, confirmed>>
  PROVE  WaitShape' /\ WaitIsTrue'
<1>1. CASE wait' = wait
  BY <1>1 DEF WaitShape, WaitIsTrue
<1>2. CASE ~wait.seqSet /\ wait' = [wait EXCEPT !.early = Put(@, k, ok)]
  <2>1. PICK early : /\ early = Put(wait.early, k, ok)
                     /\ \A j \in DOMAIN early : early[j] = TRUE => j \in confirmed
                     /\ \A j \in DOMAIN early : early[j] \in BOOLEAN
    <3>1. \A j \in DOMAIN Put(wait.early, k, ok) :
            Put(wait.early, k, ok)[j] = TRUE => j \in confirmed
      BY DEF Put, WaitIsTrue
    <3>2. \A j \in DOMAIN Put(wait.early, k, ok) : Put(wait.early, k, ok)[j] \in BOOLEAN
      BY DEF Put, WaitShape
    <3> QED
      BY <3>1, <3>2
  <2>2. /\ wait' = [seqSet |-> wait.seqSet, expectedSeq |-> wait.expectedSeq,
                    complete |-> wait.complete, success |-> wait.success, early |-> early]
        /\ wait'.seqSet = wait.seqSet /\ wait'.expectedSeq = wait.expectedSeq
        /\ wait'.complete = wait.complete /\ wait'.success = wait.success /\ wait'.early = early
    BY <1>2, <2>1 DEF WaitShape
  <2> QED
    BY <1>2, <2>1, <2>2 DEF WaitShape, WaitIsTrue
<1>3. CASE wait.seqSet /\ k = wait.expectedSeq
           /\ wait' = [wait EXCEPT !.complete = TRUE, !.success = ok]
  <2>1. /\ wait' = [seqSet |-> wait.seqSet, expectedSeq |-> wait.expectedSeq,
                    complete |-> TRUE, success |-> ok, early |-> wait.early]
        /\ wait'.seqSet = wait.seqSet /\ wait'.expectedSeq = wait.expectedSeq
        /\ wait'.complete = TRUE /\ wait'.success = ok /\ wait'.early = wait.early
    BY <1>3 DEF WaitShape
  <2> QED
    BY <1>3, <2>1 DEF WaitShape, WaitIsTrue
<1> QED
  BY <1>1, <1>2, <1>3 DEF Notify, Notified

LEMMA SuccessSend ==
  ASSUME SuccessInv, Send
  PROVE  SuccessInv'
<1>1. NodeTypes'
  BY NodeTypesSend DEF SuccessInv
<1>2. /\ UNCHANGED <<receiver, acks, received, confirmed>>
      /\ HeardOnly'
  <2>1. UNCHANGED <<receiver, acks, received, confirmed>>
    BY DEF Send, Dispatch, AddPending, SendSucceeds, SendFails, EraseEntry, MarkSent, Reconcile,
           SendReturnsError, WaitReturns, peer
  <2> QED
    BY <2>1 DEF SuccessInv, HeardOnly, Heard
<1>3. sender \in [pc : {"idle", "add", "send", "sendRaw", "erase", "mark", "reconcile",
                       "failed", "waiting"}, msg : Message]
  BY DEF SuccessInv, NodeTypes, SenderType
<1>4. CASE Dispatch
  <2>1. wait' = None /\ result' = result
    BY <1>4 DEF Dispatch
  <2>2. WaitShape' /\ WaitIsTrue'
    BY <2>1, WaitOfNone
  <2> QED
    BY <1>1, <1>2, <2>1, <2>2 DEF SuccessInv, AnswerIsTrue
<1>5. CASE AddPending \/ SendSucceeds \/ SendFails \/ EraseEntry \/ MarkSent
  <2>1. sender.pc # "waiting" /\ UNCHANGED <<wait, result>>
    BY <1>5 DEF AddPending, SendSucceeds, SendFails, EraseEntry, MarkSent
  <2>2. WaitShape' /\ WaitIsTrue'
    BY <1>2, <2>1 DEF SuccessInv, WaitShape, WaitIsTrue
  <2> QED
    BY <1>1, <1>2, <2>1, <2>2 DEF SuccessInv, AnswerIsTrue
<1>6. CASE Reconcile
  <2>1. CASE ~Waits
    <3>1. wait' = None /\ result' = [result EXCEPT ![sender.msg] = "sent"]
      BY <1>6, <2>1 DEF Reconcile, Told
    <3>2. WaitShape' /\ WaitIsTrue'
      BY <3>1, WaitOfNone
    <3> QED
      BY <1>1, <1>2, <1>3, <3>1, <3>2 DEF SuccessInv, AnswerIsTrue
  <2>2. CASE Waits
    <3>1. PICK k \in SeqNum : k = SeqOf(sender.msg)
      BY <1>3, Numbers
    <3>2. PICK none : none = None.early /\ \A j \in DOMAIN none : FALSE
      BY DEF None
    <3>3. /\ sender' = [sender EXCEPT !.pc = "waiting"] /\ result' = result
          /\ \/ /\ k \in DOMAIN wait.early
                /\ wait' = [[wait EXCEPT !.seqSet = TRUE, !.expectedSeq = k, !.early = none]
                              EXCEPT !.complete = TRUE, !.success = wait.early[k]]
             \/ wait' = [wait EXCEPT !.seqSet = TRUE, !.expectedSeq = k, !.early = none]
      BY <1>6, <2>2, <3>1, <3>2 DEF Reconcile, SenderAt
    <3>4. sender.pc = "reconcile" /\ ~wait.seqSet /\ ~wait.success
      BY <1>6 DEF Reconcile, SuccessInv, WaitIsTrue
    <3>5. sender'.pc = "waiting" /\ SeqOf(sender'.msg) = k
      BY <1>3, <3>1, <3>3
    <3>6. CASE k \in DOMAIN wait.early
               /\ wait' = [[wait EXCEPT !.seqSet = TRUE, !.expectedSeq = k, !.early = none]
                            EXCEPT !.complete = TRUE, !.success = wait.early[k]]
      <4>1. /\ wait' = [seqSet |-> TRUE, expectedSeq |-> k, complete |-> TRUE,
                        success |-> wait.early[k], early |-> none]
            /\ wait'.seqSet = TRUE /\ wait'.expectedSeq = k /\ wait'.complete = TRUE
            /\ wait'.success = wait.early[k] /\ wait'.early = none
        BY <3>6 DEF SuccessInv, WaitShape
      <4>2. wait.early[k] \in BOOLEAN /\ (wait.early[k] = TRUE => k \in confirmed)
        BY <3>6 DEF SuccessInv, WaitShape, WaitIsTrue
      <4>3. WaitShape' /\ WaitIsTrue'
        BY <1>2, <3>2, <3>5, <4>1, <4>2 DEF WaitShape, WaitIsTrue
      <4> QED
        BY <1>1, <1>2, <3>3, <4>3 DEF SuccessInv, AnswerIsTrue
    <3>7. CASE wait' = [wait EXCEPT !.seqSet = TRUE, !.expectedSeq = k, !.early = none]
      <4>1. /\ wait' = [seqSet |-> TRUE, expectedSeq |-> k, complete |-> wait.complete,
                        success |-> wait.success, early |-> none]
            /\ wait'.seqSet = TRUE /\ wait'.expectedSeq = k /\ wait'.complete = wait.complete
            /\ wait'.success = wait.success /\ wait'.early = none
        BY <3>7 DEF SuccessInv, WaitShape
      <4>2. WaitShape' /\ WaitIsTrue'
        BY <1>2, <3>2, <3>4, <3>5, <4>1 DEF SuccessInv, WaitShape, WaitIsTrue
      <4> QED
        BY <1>1, <1>2, <3>3, <4>2 DEF SuccessInv, AnswerIsTrue
    <3> QED
      BY <3>3, <3>6, <3>7
  <2> QED
    BY <2>1, <2>2
<1>7. CASE SendReturnsError \/ WaitReturns
  <2>1. PICK n \in Message : n = sender.msg
    BY <1>3
  <2>2. PICK a \in {"true", "false", "failed"} :
          /\ result' = [result EXCEPT ![n] = a]
          /\ a = "true" => SeqOf(n) \in confirmed
    <3>1. CASE SendReturnsError
      <4>1. CASE SeqOf(n) \in DOMAIN wait.early /\ wait.early[SeqOf(n)]
        <5>1. result' = [result EXCEPT ![n] = "true"]
          BY <2>1, <3>1, <4>1 DEF SendReturnsError, Told
        <5>2. SeqOf(n) \in confirmed
          BY <4>1 DEF SuccessInv, WaitIsTrue, WaitShape
        <5> QED
          BY <5>1, <5>2
      <4>2. CASE ~(SeqOf(n) \in DOMAIN wait.early /\ wait.early[SeqOf(n)])
        BY <2>1, <3>1, <4>2 DEF SendReturnsError, Told
      <4> QED
        BY <4>1, <4>2
    <3>2. CASE WaitReturns
      <4>1. wait.success => SeqOf(n) \in confirmed
        BY <2>1 DEF SuccessInv, WaitIsTrue
      <4> QED
        BY <2>1, <3>2, <4>1 DEF WaitReturns, Told
    <3> QED
      BY <1>7, <3>1, <3>2
  <2>3. wait' = None
    BY <1>7 DEF SendReturnsError, WaitReturns
  <2>4. AnswerIsTrue' /\ result' \in [Message -> {"none", "sent", "true", "false", "failed"}]
    BY <1>2, <2>2 DEF SuccessInv, AnswerIsTrue
  <2>5. WaitShape' /\ WaitIsTrue'
    BY <2>3, WaitOfNone
  <2> QED
    BY <1>1, <1>2, <2>4, <2>5 DEF SuccessInv
<1> QED
  BY <1>4, <1>5, <1>6, <1>7 DEF Send

LEMMA SuccessReceive ==
  ASSUME SuccessInv, Receive \/ ReceiverLeaves
  PROVE  SuccessInv'
<1>1. NodeTypes'
  BY NodeTypesReceive DEF SuccessInv
<1>2. CASE TakeAck
  <2>1. PICK k \in SeqNum : /\ \E at : [seq |-> k, at |-> at] \in acks
                            /\ receiver' = [pc |-> "success", key |-> k]
                            /\ confirmed' = confirmed \cup {k}
                            /\ UNCHANGED <<sender, wait, acks, received, result>>
    BY <1>2 DEF TakeAck, peer
  <2>2. Heard(k)
    BY <2>1 DEF SuccessInv, HeardOnly
  <2>3. HeardOnly'
    BY <2>1, <2>2 DEF SuccessInv, HeardOnly, Heard
  <2>4. WaitShape' /\ WaitIsTrue' /\ AnswerIsTrue'
    BY <2>1 DEF SuccessInv, WaitShape, WaitIsTrue, AnswerIsTrue
  <2> QED
    BY <1>1, <2>1, <2>3, <2>4 DEF SuccessInv
<1>3. CASE OnSuccess
  <2>1. /\ receiver.pc = "success" /\ receiver'.pc = "idle" /\ Notify(receiver.key, TRUE)
        /\ UNCHANGED <<sender, acks, received, confirmed, result>>
    BY <1>3 DEF OnSuccess, peer, SuccessInv, NodeTypes, ReceiverType
  <2>2. WaitShape' /\ WaitIsTrue'
    BY <2>1, NotifyIsTrue DEF SuccessInv, HeardOnly
  <2>3. HeardOnly' /\ AnswerIsTrue'
    BY <2>1 DEF SuccessInv, HeardOnly, Heard, AnswerIsTrue
  <2> QED
    BY <1>1, <2>1, <2>2, <2>3 DEF SuccessInv
<1>4. CASE ReceiverLeaves
  <2>1. receiver'.pc = "done" /\ UNCHANGED <<sender, wait, acks, received, confirmed, result>>
    BY <1>4 DEF ReceiverLeaves, peer, SuccessInv, NodeTypes, ReceiverType
  <2> QED
    BY <1>1, <2>1 DEF SuccessInv, HeardOnly, Heard, WaitShape, WaitIsTrue, AnswerIsTrue
<1> QED
  BY <1>2, <1>3, <1>4 DEF Receive

LEMMA SuccessProcess ==
  ASSUME SuccessInv, Process
  PROVE  SuccessInv'
<1>1. NodeTypes'
  BY NodeTypesProcess DEF SuccessInv
<1>2. CASE OnTimeout
  <2>1. PICK k \in timer.report : Notify(k, FALSE)
    BY <1>2 DEF OnTimeout
  <2>2. UNCHANGED <<sender, receiver, acks, received, confirmed, result>>
    BY <1>2 DEF OnTimeout, peer
  <2>3. WaitShape' /\ WaitIsTrue'
    BY <2>1, <2>2, NotifyIsTrue DEF SuccessInv
  <2> QED
    BY <1>1, <2>2, <2>3 DEF SuccessInv, HeardOnly, Heard, AnswerIsTrue
<1>3. CASE Expire \/ RetryAdd \/ Resend \/ RetryDropped \/ Reregister
  BY <1>1, <1>3, SuccessSame DEF Expire, RetryAdd, Resend, RetryDropped, Reregister, peer
<1> QED
  BY <1>2, <1>3 DEF Process

LEMMA SuccessPeer ==
  ASSUME SuccessInv, Peer
  PROVE  SuccessInv'
<1>1. NodeTypes'
  BY PeerLeaves, NodeTypesSame DEF SuccessInv, node
<1>2. UNCHANGED <<sender, receiver, wait, confirmed, result>>
  BY PeerLeaves DEF node
<1>3. PICK m : PeerReceives(m)
  BY DEF Peer, ProcessIncoming, RecvThread
<1>4. received' = received \cup {m} /\ \A a \in acks' : a \in acks \/ a.seq = SeqOf(m)
  <2>1. \/ acks' = acks
        \/ \E where : acks' = acks \cup {[seq |-> SeqOf(m), at |-> where]}
    BY <1>3 DEF PeerReceives
  <2> QED
    BY <1>3, <2>1 DEF PeerReceives
<1>5. HeardOnly'
  BY <1>2, <1>4 DEF SuccessInv, HeardOnly, Heard
<1> QED
  BY <1>1, <1>2, <1>5 DEF SuccessInv, WaitShape, WaitIsTrue, AnswerIsTrue

LEMMA SuccessKept == SuccessInv /\ [Next]_vars => SuccessInv'
<1> SUFFICES ASSUME SuccessInv, [Next]_vars PROVE SuccessInv'
  OBVIOUS
<1>1. NodeTypes'
  BY NodeTypesKept DEF SuccessInv
<1>2. CASE Wiring
  BY <1>1, <1>2, WiringLeaves, SuccessSame DEF node, peer
<1>3. CASE UNCHANGED vars
  BY <1>1, <1>3, SuccessSame DEF vars, node, peer
<1> QED
  BY <1>2, <1>3, SuccessSend, SuccessProcess, SuccessReceive, SuccessPeer DEF Next, Wiring, Peer

\* Whatever is lost, repeated or late: a status SUCCESS, and a RemoteInvokeWait() that
\* returns true, have a message with that number that the peer's transport took in.
THEOREM SuccessIsReceived == Spec => []SuccessMeansReceived
<1>1. SuccessInv => SuccessMeansReceived
  BY DEF SuccessInv, HeardOnly, Heard, AnswerIsTrue, SuccessMeansReceived
<1> QED
  BY <1>1, SuccessInit, SuccessKept, PTL DEF Spec

-----------------------------------------------------------------------------
(***************************************************************************)
(* The types of everything: the transports' objects through Create, their  *)
(* wiring and Close, and the cap of m_pending.                             *)
(***************************************************************************)
Object == {"tx", "rx", "peerTx", "peerRx"}

ObjectTypes == /\ wiring \in {"new", "node", "engine", "direct", "stopping", "stoppingEngine",
                             "stopped"}
               /\ objects \in [Object -> Transport]

\* Both caps of the monitors' state, the acknowledgements under way, and the ring's head.
LimitTypes == /\ Cardinality(pending) <= MaxPending
              /\ timer.pc = "report" => timer.report # {}
              /\ acks \subseteq [seq : SeqNum, at : {"tx", "rx"}]
              /\ history.head \in 0 .. HistorySize - 1

LEMMA NewTransportType ==
  ASSUME NEW k \in Kinds, NEW role \in Sending \cup Listening
  PROVE  NewTransport(k, role) \in Transport
BY DEF NewTransport, Transport

LEMMA SettersType ==
  ASSUME NEW t \in Transport
  PROVE  /\ SetTransportMonitor(t) \in Transport
         /\ \A o \in {"self", "other"} : /\ SetSendTransport(t, o) \in Transport
                                         /\ SetRecvTransport(t, o) \in Transport
BY DEF SetTransportMonitor, SetSendTransport, SetRecvTransport, Transport

LEMMA SocketsType ==
  ASSUME NEW t \in Transport
  PROVE  Opened(t) \in Transport /\ Closed(t) \in Transport /\ Deaf(t) \in Transport
BY DEF Opened, Closed, Deaf, Transport

LEMMA CreateType ==
  ASSUME NEW t \in Transport, NEW u \in Create(t)
  PROVE  u \in Transport
<1>1. Create(t) \subseteq {Opened(t), Closed(t), Deaf(t)}
  <2>1. t.kind \in Kinds
    BY DEF Transport
  <2> QED
    BY <2>1 DEF Kinds, Create, OpenUnless, LinuxUdpCreate, Win32UdpCreate, ZephyrUdpCreate,
       NetconnUdpCreate, ArmLwipUdpCreate, NetXUdpCreate, LinuxMulticastCreate,
       Win32MulticastCreate, LinuxTcpCreate, Win32TcpCreate, ZeroMqCreate, NngCreate,
       MqttCreate, SerialCreate, Stm32UartCreate, Win32PipeCreate
<1> QED
  BY <1>1, SocketsType

LEMMA CloseType ==
  ASSUME NEW t \in Transport
  PROVE  Close(t) \in Transport
<1>1. Close(t) \in {t, Closed(t)}
  <2>1. t.kind \in Kinds
    BY DEF Transport
  <2> QED
    BY <2>1 DEF Kinds, Close, LinuxUdpClose, Win32UdpClose, ZephyrUdpClose, NetconnUdpClose,
       ArmLwipUdpClose, NetXUdpClose, LinuxMulticastClose, Win32MulticastClose, LinuxTcpClose,
       Win32TcpClose, ZeroMqClose, NngClose, MqttClose, SerialClose, Stm32UartClose,
       Win32PipeClose
<1> QED
  BY <1>1, SocketsType

LEMMA ObjectTypesInit == Init => ObjectTypes
<1> SUFFICES ASSUME Init PROVE ObjectTypes
  OBVIOUS
<1>1. PICK s \in Setups : LET t == NewTransport(s[1], "PUB")
                          IN objects = [tx |-> t, rx |-> t, peerTx |-> t, peerRx |-> t]
  BY DEF Init
<1>2. s[1] \in Kinds
  BY BoundsAssumption
<1>3. NewTransport(s[1], "PUB") \in Transport
  BY <1>2, NewTransportType DEF Sending
<1> QED
  BY <1>1, <1>3 DEF Init, ObjectTypes, Object

\* A wiring of objects that have their type.
LEMMA WiredType ==
  ASSUME ObjectTypes, NEW how \in {"node", "engine", "direct", "stopped"},
         NEW tx \in Transport, NEW rx \in Transport,
         NEW peerTx \in Transport, NEW peerRx \in Transport,
         Wired(how, [tx |-> tx, rx |-> rx, peerTx |-> peerTx, peerRx |-> peerRx])
  PROVE  ObjectTypes'
BY DEF Wired, ObjectTypes, Object

LEMMA RolesOfKinds ==
  ASSUME NEW k
  PROVE  SendRole(k) \in Sending \cup Listening /\ ListenRole(k) \in Sending \cup Listening
BY DEF SendRole, ListenRole, Sending, Listening

LEMMA ObjectTypesWiring ==
  ASSUME ObjectTypes, Wiring
  PROVE  ObjectTypes'
<1>1. \A o \in Object : objects[o] \in Transport
  BY DEF ObjectTypes
<1>2. Kind \in Kinds
  BY <1>1 DEF Kind, Object, Transport
<1>3. \A role \in Sending \cup Listening : NewTransport(Kind, role) \in Transport
  BY <1>2, NewTransportType
<1>4. {"PUB", "SUB", "PAIR_CLIENT", "PAIR_SERVER"} \subseteq Sending \cup Listening
  BY DEF Sending, Listening
<1>5. SendRole(Kind) \in Sending \cup Listening /\ ListenRole(Kind) \in Sending \cup Listening
  BY RolesOfKinds
<1>6. CASE AddPeer
  <2>1. PICK tx \in Create(NewTransport(Kind, "PUB")) :
          Wired(IF tx.socket = "open" THEN "node" ELSE "stopped",
                [objects EXCEPT !.tx = SetRecvTransport(SetTransportMonitor(tx), "self"),
                   !.peerRx = SetSendTransport(Opened(NewTransport(Kind, "SUB")), "self")])
    BY <1>6 DEF AddPeer
  <2>2. tx \in Transport
    BY <1>3, <1>4, CreateType
  <2>3. SetRecvTransport(SetTransportMonitor(tx), "self") \in Transport
    BY <2>2, SettersType
  <2>4. SetSendTransport(Opened(NewTransport(Kind, "SUB")), "self") \in Transport
    BY <1>3, <1>4, SocketsType, SettersType
  <2> QED
    BY <2>1, <2>3, <2>4 DEF Wired, ObjectTypes, Object
<1>7. CASE Initialize
  <2> DEFINE Sends(t)    == SetRecvTransport(SetTransportMonitor(t), "other")
             Receives(t) == SetSendTransport(SetTransportMonitor(t), "other")
  <2> DEFINE Opening(recvRole, peerRole) ==
               \E tx \in Create(NewTransport(Kind, SendRole(Kind))),
                  rx \in Create(NewTransport(Kind, recvRole)) :
                 Wired("engine", [tx |-> Sends(tx), rx |-> Receives(rx),
                                  peerTx |-> Sends(Opened(NewTransport(Kind, peerRole))),
                                  peerRx |-> Receives(Opened(NewTransport(Kind, ListenRole(Kind))))])
  <2>0. PICK recvRole \in {"PAIR_CLIENT", "SUB"}, peerRole \in {"PAIR_SERVER", "PUB"} :
          Opening(recvRole, peerRole)
    BY <1>7 DEF Initialize
  <2>1. PICK tx \in Create(NewTransport(Kind, SendRole(Kind))),
             rx \in Create(NewTransport(Kind, recvRole)) :
          Wired("engine", [tx |-> Sends(tx), rx |-> Receives(rx),
                           peerTx |-> Sends(Opened(NewTransport(Kind, peerRole))),
                           peerRx |-> Receives(Opened(NewTransport(Kind, ListenRole(Kind))))])
    BY <2>0
  <2>2. tx \in Transport /\ rx \in Transport
    BY <1>3, <1>4, <1>5, CreateType
  <2>3. /\ Opened(NewTransport(Kind, peerRole)) \in Transport
        /\ Opened(NewTransport(Kind, ListenRole(Kind))) \in Transport
    BY <1>3, <1>4, <1>5, SocketsType
  <2>4. \A t \in Transport : Sends(t) \in Transport /\ Receives(t) \in Transport
    BY SettersType
  <2>5. /\ Sends(tx) \in Transport /\ Receives(rx) \in Transport
        /\ Sends(Opened(NewTransport(Kind, peerRole))) \in Transport
        /\ Receives(Opened(NewTransport(Kind, ListenRole(Kind)))) \in Transport
    BY <2>2, <2>3, <2>4
  <2> QED
    BY <2>1, <2>5, WiredType
<1>8. CASE InitializeDuplex
  <2> DEFINE Both(t) == SetSendTransport(SetRecvTransport(SetTransportMonitor(t), "self"), "self")
             peerObject == Both(Opened(NewTransport(Kind, "PUB")))
  <2>1. PICK how \in {"stopped", "engine"}, t \in Create(NewTransport(Kind, "PUB")) :
          Wired(how, [tx |-> Both(t), rx |-> Both(t), peerTx |-> peerObject, peerRx |-> peerObject])
    BY <1>8 DEF InitializeDuplex
  <2>2. t \in Transport /\ Opened(NewTransport(Kind, "PUB")) \in Transport
    BY <1>3, <1>4, CreateType, SocketsType
  <2>3. \A u \in Transport : Both(u) \in Transport
    BY SettersType
  <2>4. Both(t) \in Transport /\ peerObject \in Transport
    BY <2>2, <2>3
  <2> QED
    BY <2>1, <2>4, WiredType
<1>9. CASE Connect
  <2> DEFINE peerObject == SetTransportMonitor(Opened(NewTransport(Kind, ListenRole(Kind))))
  <2>1. PICK t \in Create(NewTransport(Kind, SendRole(Kind))) :
          Wired("direct", [tx |-> SetTransportMonitor(t), rx |-> SetTransportMonitor(t),
                           peerTx |-> peerObject, peerRx |-> peerObject])
    BY <1>9 DEF Connect
  <2>2. t \in Transport /\ Opened(NewTransport(Kind, ListenRole(Kind))) \in Transport
    BY <1>3, <1>5, CreateType, SocketsType
  <2>3. SetTransportMonitor(t) \in Transport /\ peerObject \in Transport
    BY <2>2, SettersType
  <2> QED
    BY <2>1, <2>3, WiredType
<1>10. CASE Stop
  <2>1. Close(objects.tx) \in Transport /\ Close(objects.rx) \in Transport
    BY <1>1, CloseType DEF Object
  <2> QED
    BY <1>10, <2>1 DEF Stop, ObjectTypes, Object
<1>11. CASE StopOnThread
  BY <1>11 DEF StopOnThread, ObjectTypes
<1> QED
  BY <1>6, <1>7, <1>8, <1>9, <1>10, <1>11 DEF Wiring

LEMMA ObjectTypesKept == ObjectTypes /\ [Next]_vars => ObjectTypes'
<1> SUFFICES ASSUME ObjectTypes, [Next]_vars PROVE ObjectTypes'
  OBVIOUS
<1>1. CASE UNCHANGED <<wiring, objects>>
  BY <1>1 DEF ObjectTypes
<1>2. CASE Send
  <2>1. UNCHANGED <<wiring, objects>>
    BY <1>2 DEF Send, Dispatch, AddPending, SendSucceeds, SendFails, EraseEntry, MarkSent,
       Reconcile, SendReturnsError, WaitReturns
  <2> QED
    BY <1>1, <2>1
<1>3. CASE Process
  <2>1. UNCHANGED <<wiring, objects>>
    BY <1>3 DEF Process, Expire, OnTimeout, RetryAdd, Resend, RetryDropped, Reregister
  <2> QED
    BY <1>1, <2>1
<1>4. CASE Receive \/ ReceiverLeaves \/ Peer \/ UNCHANGED vars
  <2>1. UNCHANGED <<wiring, objects>>
    BY <1>4 DEF Receive, TakeAck, OnSuccess, ReceiverLeaves, Peer, ProcessIncoming, RecvThread,
       vars
  <2> QED
    BY <1>1, <2>1
<1> QED
  BY <1>2, <1>3, <1>4, ObjectTypesWiring DEF Next, Wiring, Peer

LEMMA PendingIsFinite ==
  ASSUME NodeTypes
  PROVE  IsFiniteSet(pending) /\ Cardinality(pending) \in Nat
<1>1. IsFiniteSet(SeqNum)
  <2>1. 0 \in Int /\ SeqMod - 1 \in Int
    BY Numbers
  <2> QED
    BY <2>1, FS_Interval DEF SeqNum
<1>2. IsFiniteSet(pending)
  BY <1>1, FS_Subset DEF NodeTypes
<1> QED
  BY <1>2, FS_CardinalityType

\* Add() is refused when it would exceed the cap; everything else takes entries out.
LEMMA PendingIsCapped ==
  ASSUME NodeTypes, Cardinality(pending) <= MaxPending,
         \/ pending' \subseteq pending
         \/ \E k \in SeqNum : ~AddRefused(k) /\ pending' = pending \cup {k}
  PROVE  (Cardinality(pending) <= MaxPending)'
<1>1. /\ IsFiniteSet(pending) /\ Cardinality(pending) \in Nat /\ MaxPending \in Nat
  BY PendingIsFinite, BoundsAssumption
<1>2. CASE pending' \subseteq pending
  <2>1. IsFiniteSet(pending') /\ Cardinality(pending') <= Cardinality(pending)
    BY <1>1, <1>2, FS_Subset
  <2>2. Cardinality(pending') \in Nat
    BY <2>1, FS_CardinalityType
  <2> QED
    BY <1>1, <2>1, <2>2
<1>3. CASE \E k \in SeqNum : ~AddRefused(k) /\ pending' = pending \cup {k}
  <2>1. PICK k \in SeqNum : ~AddRefused(k) /\ pending' = pending \cup {k}
    BY <1>3
  <2>2. Cardinality(pending') = Cardinality(pending) + 1 /\ ~(Cardinality(pending) >= MaxPending)
    BY <1>1, <2>1, FS_AddElement DEF AddRefused
  <2> QED
    BY <1>1, <2>2
<1> QED
  BY <1>2, <1>3

LEMMA LimitTypesKept == NodeTypes /\ LimitTypes /\ [Next]_vars => LimitTypes'
<1> SUFFICES ASSUME NodeTypes, LimitTypes, [Next]_vars PROVE LimitTypes'
  OBVIOUS
<1>1. \/ pending' \subseteq pending
      \/ \E k \in SeqNum : ~AddRefused(k) /\ pending' = pending \cup {k}
  <2>1. CASE Send
    <3>1. CASE AddPending
      <4>1. SeqOf(sender.msg) \in SeqNum
        BY Numbers DEF NodeTypes, SenderType
      <4> QED
        BY <3>1, <4>1 DEF AddPending
    <3>2. CASE Send /\ ~AddPending
      BY <3>2 DEF Send, Dispatch, SendSucceeds, SendFails, EraseEntry, MarkSent,
         Reconcile, SendReturnsError, WaitReturns
    <3> QED
      BY <2>1, <3>1, <3>2
  <2>2. CASE Process
    <3>1. timer.key \in SeqNum
      BY DEF NodeTypes, TimerType
    <3> QED
      BY <2>2, <3>1 DEF Process, Expire, OnTimeout, RetryAdd, Resend, RetryDropped, Reregister
  <2>3. CASE Receive \/ ReceiverLeaves \/ Peer \/ UNCHANGED vars
    BY <2>3 DEF Receive, TakeAck, Removed, OnSuccess, ReceiverLeaves, Peer, ProcessIncoming,
       RecvThread, vars, node
  <2>4. CASE Wiring
    BY <2>4, WiringLeaves DEF node
  <2> QED
    BY <2>1, <2>2, <2>3, <2>4 DEF Next, Wiring, Peer
<1>2. (Cardinality(pending) <= MaxPending)'
  BY <1>1, PendingIsCapped DEF LimitTypes
<1>3. (timer.pc = "report" => timer.report # {})'
  <2>1. CASE Process
    <3>1. CASE Expire
      <4>1. PICK due \in (SUBSET pending) \ {{}} : timer' = [timer EXCEPT !.pc = "report", !.report = due]
        BY <3>1 DEF Expire
      <4>2. timer'.report = due
        BY <4>1 DEF NodeTypes, TimerType
      <4> QED
        BY <4>1, <4>2
    <3>2. CASE OnTimeout
      <4>1. PICK k \in timer.report :
              \/ timer' = NextReport([timer EXCEPT !.report = @ \ {k}])
              \/ timer'.pc \in {"retry", "reregister"}
        BY <3>2 DEF OnTimeout
      <4> QED
        BY <4>1 DEF NextReport, NodeTypes, TimerType
    <3>3. CASE RetryAdd
      BY <3>3 DEF RetryAdd, NodeTypes, TimerType
    <3>4. CASE Resend \/ RetryDropped \/ Reregister
      <4>1. timer' = NextReport(timer)
        BY <3>4 DEF Resend, RetryDropped, Reregister
      <4> QED
        BY <4>1 DEF NextReport, NodeTypes, TimerType
    <3> QED
      BY <2>1, <3>1, <3>2, <3>3, <3>4 DEF Process
  <2>2. CASE Send
    BY <2>2 DEF LimitTypes, Send, Dispatch, AddPending, SendSucceeds, SendFails, EraseEntry,
       MarkSent, Reconcile, SendReturnsError, WaitReturns
  <2>3. CASE Receive \/ ReceiverLeaves \/ Peer \/ UNCHANGED vars
    BY <2>3 DEF LimitTypes, Receive, TakeAck, OnSuccess, ReceiverLeaves, Peer, ProcessIncoming,
       RecvThread, vars, node
  <2>4. CASE Wiring
    BY <2>4, WiringLeaves DEF LimitTypes, node
  <2> QED
    BY <2>1, <2>2, <2>3, <2>4 DEF Next, Wiring, Peer
<1>4. CASE Peer
  <2>1. PICK m \in Message : PeerReceives(m) /\ (UNCHANGED history \/ history' = Remembered(SeqOf(m)))
    BY <1>4 DEF Peer, ProcessIncoming, RecvThread
  <2>2. acks' \subseteq acks \cup [seq : SeqNum, at : {"tx", "rx"}]
    <3>1. \A where \in {"tx", "rx"} : [seq |-> SeqOf(m), at |-> where] \in [seq : SeqNum, at : {"tx", "rx"}]
      BY Numbers
    <3>2. \/ acks' = acks
          \/ \E where \in {"tx", "rx"} : acks' = acks \cup {[seq |-> SeqOf(m), at |-> where]}
      BY <2>1, Zenon DEF PeerReceives
    <3> QED
      BY <3>1, <3>2
  <2>3. history'.head \in 0 .. HistorySize - 1
    BY <2>1, Numbers DEF LimitTypes, Remembered
  <2> QED
    BY <1>2, <1>3, <2>2, <2>3 DEF LimitTypes
<1>5. CASE UNCHANGED <<acks, history>>
  BY <1>2, <1>3, <1>5 DEF LimitTypes
<1>6. CASE Send
  <2>1. UNCHANGED <<acks, history>>
    BY <1>6 DEF Send, Dispatch, AddPending, SendSucceeds, SendFails, EraseEntry, MarkSent,
       Reconcile, SendReturnsError, WaitReturns, peer
  <2> QED
    BY <1>5, <2>1
<1>7. CASE Process
  <2>1. UNCHANGED <<acks, history>>
    BY <1>7 DEF Process, Expire, OnTimeout, RetryAdd, Resend, RetryDropped, Reregister, peer
  <2> QED
    BY <1>5, <2>1
<1>8. CASE Receive \/ ReceiverLeaves \/ UNCHANGED vars
  <2>1. UNCHANGED <<acks, history>>
    BY <1>8 DEF Receive, TakeAck, OnSuccess, ReceiverLeaves, vars, peer
  <2> QED
    BY <1>5, <2>1
<1>9. CASE Wiring
  BY <1>5, <1>9, WiringLeaves DEF peer
<1> QED
  BY <1>4, <1>6, <1>7, <1>8, <1>9 DEF Next, Wiring, Peer

TypeInv == BudgetInv /\ ObjectTypes /\ LimitTypes

LEMMA TypeInvInit == Init => TypeInv
<1> SUFFICES ASSUME Init PROVE TypeInv
  OBVIOUS
<1>1. Cardinality(pending) <= MaxPending
  BY FS_EmptySet, BoundsAssumption DEF Init
<1>2. LimitTypes
  BY <1>1, Numbers DEF Init, LimitTypes
<1> QED
  BY <1>2, BudgetInit, ObjectTypesInit DEF TypeInv

\* Every reachable state has its types, on every transport: the transports' objects
\* however they are created, wired and closed, the store's entries under the key of their
\* own message, m_pending within MAX_TRANSPORT_MONITOR_PENDING.
THEOREM TypeCorrect == Spec => []TypeOK
<1>1. TypeInv /\ [Next]_vars => TypeInv'
  BY BudgetKept, ObjectTypesKept, LimitTypesKept DEF TypeInv, BudgetInv
<1>2. TypeInv => TypeOK
  <2> SUFFICES ASSUME TypeInv PROVE TypeOK
    OBVIOUS
  <2>1. NodeTypes /\ ObjectTypes /\ LimitTypes
    BY DEF TypeInv, BudgetInv
  <2>2. transmitted \in [Message -> 0 .. MaxRetries + 1]
    <3>1. SUFFICES ASSUME NEW m \in Message PROVE transmitted[m] \in 0 .. MaxRetries + 1
      BY <2>1 DEF NodeTypes
    <3>2. transmitted[m] \in Nat /\ Unsent(m) \in Nat /\ InFlight(m) \in Nat /\ Left(m) \in Nat
      BY <2>1, BudgetNumbers
    <3>3. transmitted[m] + Unsent(m) + InFlight(m) + Left(m) <= 1 + MaxRetries
      BY DEF TypeInv, BudgetInv, Budget
    <3> QED
      BY <3>2, <3>3, Numbers
  <2>3. ASSUME NEW k \in DOMAIN retryStore
        PROVE  retryStore[k] \in [msg : {m \in Message : SeqOf(m) = k},
                                  attemptsRemaining : 0 .. MaxRetries, isSent : BOOLEAN]
    BY <2>1 DEF NodeTypes, StoreType
  <2> QED
    BY <2>1, <2>2, <2>3 DEF TypeOK, NodeTypes, ObjectTypes, LimitTypes, Object, SenderType,
       TimerType, ReceiverType, StoreType
<1> QED
  BY <1>1, <1>2, TypeInvInit, PTL DEF Spec
=============================================================================
