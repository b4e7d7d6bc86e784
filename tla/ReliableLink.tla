----------------------------- MODULE ReliableLink ---------------------------
(***************************************************************************)
(* One direction of a remote connection: a node that sends, over the       *)
(* Dispatcher, the ReliableTransport with its RetryMonitor and             *)
(* TransportMonitor, and a transport; the medium; and a peer that          *)
(* acknowledges in its transport and executes in its Participant (or in    *)
(* its NetworkEngine).  The peer's own sends are another instance of the   *)
(* same thing.                                                             *)
(*                                                                         *)
(* Three threads of the node meet in the two monitors: the one that sends, *)
(* the one whose timer calls Process(), and the one that receives.  Every  *)
(* action is one critical section of m_lock, or one call out of it; the    *)
(* order of the sections, and that the locks are released between them, is *)
(* the code's.                                                             *)
(*                                                                         *)
(* The medium loses, delays, reorders and duplicates: net and acks only    *)
(* grow, and any member may arrive at any time, again or never.            *)
(*                                                                         *)
(* All messages carry one remote id, so a key of the monitors is the       *)
(* sequence number.                                                        *)
(***************************************************************************)
EXTENDS Naturals, Sequences, FiniteSets, Functions, Transports

CONSTANTS Setups,        \* pairs <<kind, wiring>>: which program this is
          MaxMessages,   \* messages that a node dispatches (bound of the model)
          LongSetups,    \* those that dispatch them all; the others, one less (bound)
          Empty,         \* the messages without arguments
          Raw,           \* the messages of unreliable topics
          SeqMod,        \* values of the 16-bit sequence number
          MaxPending,    \* MAX_TRANSPORT_MONITOR_PENDING
          MaxExpired,    \* MAX_TIMER_EXPIRED: the size of one batch of Process()
          MaxRetries,    \* RETRY_MONITOR_MAX_RETRIES
          HistorySize,   \* DMQ_SEQ_HISTORY_SIZE
          MaxDeliveries  \* executions recorded at the peer (bound of the model)

ASSUME BoundsAssumption ==
  /\ LongSetups \subseteq Setups /\ Setups \subseteq Kinds \X {"node", "engine", "direct"}
  /\ MaxRetries \in Nat /\ MaxDeliveries \in Nat
  /\ {MaxMessages, SeqMod, MaxPending, MaxExpired, HistorySize} \subseteq Nat \ {0}

Message == 0 .. MaxMessages - 1
SeqNum  == 0 .. SeqMod - 1

VARIABLES
  wiring,      \* "new", then how the objects were connected; "stopped" after Stop()
  objects,     \* tx, rx: the node's transports; peerTx, peerRx: the peer's
  next,        \* Dispatcher::m_seqNum, not yet reduced to its width
  sender,      \* [pc, msg]: the thread inside Dispatch()
  timer,       \* [pc, key, msg, report]: the thread inside TransportMonitor::Process()
  receiver,    \* [pc, key]: the thread inside ITransport::Receive()
  retryStore,  \* RetryMonitor::m_retryStore: [msg, attemptsRemaining, isSent] by key
  pending,     \* TransportMonitor::m_pending: its keys
  wait,        \* InvokeWaitState of the RemoteInvokeWait() under way
  net, acks,   \* what the medium holds
  history,     \* SeqHistory: [buffer, head] of the peer
  delivered,   \* sequence numbers executed at the peer, in order
  transmitted, \* how often each message was handed to the medium
  received,    \* messages that the peer's transport took in
  confirmed,   \* messages reported with Status::SUCCESS
  result       \* what Dispatch() and RemoteInvokeWait() told the caller

node  == <<sender, timer, receiver, retryStore, pending, wait>>
peer  == <<history, delivered, received>>
vars  == <<wiring, objects, next, node, net, acks, peer, transmitted, confirmed, result>>

None == [seqSet |-> FALSE, expectedSeq |-> 0, complete |-> FALSE, success |-> FALSE,
         early |-> [k \in {} |-> FALSE]]

Init ==
  /\ wiring = "new"
  /\ objects \in {[tx |-> t, rx |-> t, peerTx |-> t, peerRx |-> t] :
                    t \in {NewTransport(s[1], "PUB") : s \in Setups}}
  /\ next = 0
  /\ sender = [pc |-> "idle", msg |-> 0]
  /\ timer = [pc |-> "idle", key |-> 0, msg |-> 0, report |-> {}]
  /\ receiver = [pc |-> "idle", key |-> 0]
  /\ retryStore = [k \in {} |-> 0] /\ pending = {}
  /\ wait = None
  /\ net = {} /\ acks = {}
  /\ history = [buffer |-> [i \in 0 .. HistorySize - 1 |-> SeqMod], head |-> 0]
  /\ delivered = <<>> /\ received = {}
  /\ transmitted = [m \in Message |-> 0]
  /\ confirmed = {}
  /\ result = [m \in Message |-> "none"]

-----------------------------------------------------------------------------
(* Wiring the transports.                                                  *)

Kind == objects.tx.kind

SendRole(k)   == CASE k \in {"LinuxTcp", "Win32Tcp"} -> "CLIENT"
                   [] k \in {"ZeroMq", "Nng"} -> "PAIR_CLIENT"
                   [] OTHER -> "PUB"
ListenRole(k) == CASE k \in {"LinuxTcp", "Win32Tcp"} -> "SERVER"
                   [] k \in {"ZeroMq", "Nng"} -> "PAIR_SERVER"
                   [] OTHER -> "SUB"

Wired(how, objs) ==
  /\ wiring = "new" /\ <<Kind, how>> \in Setups
  /\ wiring' = how /\ objects' = objs
  /\ UNCHANGED <<next, node, net, acks, peer, transmitted, confirmed, result>>

\* NetworkNode::AddPeer() on this node.  A peer that cannot be opened is not added.
AddPeer ==
  \E tx \in Create(NewTransport(Kind, "PUB")) :
    Wired(IF tx.socket = "open" THEN "node" ELSE "stopped",
          [objects EXCEPT !.tx = SetRecvTransport(SetTransportMonitor(tx), "self"),
                          !.peerRx = SetSendTransport(Opened(NewTransport(Kind, "SUB")), "self")])

\* NetworkEngine::Initialize(): two sockets, each naming the other one; a failure
\* is counted and the wiring goes on.
Initialize ==
  /\ Kind \in {"ZeroMq", "LinuxUdp", "Win32Udp"}
  /\ LET Sends(t)    == SetRecvTransport(SetTransportMonitor(t), "other")
         Receives(t) == SetSendTransport(SetTransportMonitor(t), "other")
         recvRole    == IF Kind = "ZeroMq" THEN "PAIR_CLIENT" ELSE "SUB"
         peerRole    == IF Kind = "ZeroMq" THEN "PAIR_SERVER" ELSE "PUB"
     IN  \E tx \in Create(NewTransport(Kind, SendRole(Kind))),
            rx \in Create(NewTransport(Kind, recvRole)) :
           Wired("engine",
                 [tx |-> Sends(tx), rx |-> Receives(rx),
                  peerTx |-> Sends(Opened(NewTransport(Kind, peerRole))),
                  peerRx |-> Receives(Opened(NewTransport(Kind, ListenRole(Kind))))])

\* NetworkEngine::Initialize() of the builds with one object for both directions.
InitializeDuplex ==
  /\ Kind \in {"Stm32Uart", "Serial"}
  /\ LET Both(t) == SetSendTransport(SetRecvTransport(SetTransportMonitor(t), "self"), "self")
         peerObject == Both(Opened(NewTransport(Kind, "PUB")))
     IN  \E t \in Create(NewTransport(Kind, "PUB")) :
           Wired(IF Kind = "Serial" /\ t.socket = "none" THEN "stopped" ELSE "engine",
                 [tx |-> Both(t), rx |-> Both(t), peerTx |-> peerObject, peerRx |-> peerObject])

\* A program that gives one object per side to a Participant, as the constructors
\* leave it, with a monitor.
Connect ==
  \E t \in Create(NewTransport(Kind, SendRole(Kind))) :
    LET Both(u)    == SetTransportMonitor(u)
        peerObject == Both(Opened(NewTransport(Kind, ListenRole(Kind))))
    IN  Wired("direct", [tx |-> Both(t), rx |-> Both(t),
                         peerTx |-> peerObject, peerRx |-> peerObject])

Up       == wiring \in {"node", "engine", "direct"}
Stopping == wiring \in {"stopping", "stoppingEngine"}

\* RemoteInvokeWait() is the engine's: what it sent before Stop() it still waits for.
Waits == wiring \in {"engine", "stoppingEngine"}

\* Stop() of NetworkEngine, on a thread of the program: the transports are closed under
\* the receiving thread, which is then joined ...
Stop ==
  /\ Up /\ wiring' = IF wiring = "engine" THEN "stoppingEngine" ELSE "stopping"
  /\ objects' = [objects EXCEPT !.tx = Close(objects.tx), !.rx = Close(objects.rx)]
  /\ UNCHANGED <<next, node, net, acks, peer, transmitted, confirmed, result>>

\* RecvThread() leaves its loop when its Receive returns.
ReceiverLeaves ==
  /\ Stopping /\ receiver.pc = "idle" /\ ~ReceiveMayHang(objects.rx)
  /\ receiver' = [receiver EXCEPT !.pc = "done"]
  /\ UNCHANGED <<wiring, objects, next, sender, timer, retryStore, pending, wait, net, acks,
                 peer, transmitted, confirmed, result>>

\* ... and the rest runs on the network thread, when that thread is free: the timer
\* stops, what the monitors hold stays in them.
StopOnThread ==
  /\ Stopping /\ receiver.pc = "done" /\ timer.pc = "idle"
  /\ sender.pc \in {"idle", "waiting"}
  /\ wiring' = "stopped"
  /\ UNCHANGED <<objects, next, node, net, acks, peer, transmitted, confirmed, result>>

-----------------------------------------------------------------------------
(* TransportMonitor                                                        *)

\* m[k] = v of a std::map.
Put(m, k, v) == [x \in DOMAIN m \cup {k} |-> IF x = k THEN v ELSE m[x]]

AddRefused(k) == Cardinality(pending) >= MaxPending \/ k \in pending

\* Remove(): an ACK names no remote id, the first entry with its number is taken.
Removed(k) == pending \ {k}

\* Mutant: the status of another message counts.
NotifiedAny(w, k, success) ==
  IF ~w.seqSet THEN [w EXCEPT !.early = Put(@, k, success)]
  ELSE IF w.complete THEN w ELSE [w EXCEPT !.complete = TRUE, !.success = success]

\* A status reaches RetryMonitor::OnStatusChanged and, when a RemoteInvokeWait() is
\* under way, its callback: kept until the number of the message is known, and after
\* that the first one decides.
Notified(w, k, success) ==
  IF ~w.seqSet THEN [w EXCEPT !.early = Put(@, k, success)]
  ELSE IF w.complete \/ k # w.expectedSeq THEN w
  ELSE [w EXCEPT !.complete = TRUE, !.success = success]

Notify(k, success) ==
  wait' = IF ~Waits \/ sender.pc = "idle" THEN wait ELSE Notified(wait, k, success)

-----------------------------------------------------------------------------
(* The sending thread: Dispatch(), SendWithRetry(), RemoteInvokeWait().    *)

SeqOf(m) == m % SeqMod

SenderAt(pc) == sender' = [sender EXCEPT !.pc = pc]

\* Only the engine over ZeroMQ, and a topic that is not reliable, bypass the RetryMonitor.
Unreliable(m) == m \in Raw \/ (wiring = "engine" /\ Kind = "ZeroMq")

\* fetch_add, and the copy of the packet under m_lock, whatever entry has that key.
Dispatch ==
  /\ Up /\ sender.pc = "idle"
  /\ next < IF <<Kind, wiring>> \in LongSetups THEN MaxMessages ELSE MaxMessages - 1
  /\ next' = next + 1
  /\ wait' = None
  /\ sender' = [pc |-> IF Unreliable(next) THEN "sendRaw" ELSE "add", msg |-> next]
  /\ retryStore' = IF Unreliable(next) THEN retryStore
                   ELSE Put(retryStore, SeqOf(next),
                            [msg |-> next, attemptsRemaining |-> MaxRetries, isSent |-> FALSE])
  /\ UNCHANGED <<wiring, objects, timer, receiver, pending, net, acks, peer, transmitted,
                 confirmed, result>>

AddPending ==
  /\ sender.pc = "add"
  /\ IF AddRefused(SeqOf(sender.msg))
     THEN SenderAt("erase") /\ UNCHANGED pending
     ELSE SenderAt("send") /\ pending' = pending \cup {SeqOf(sender.msg)}
  /\ UNCHANGED <<wiring, objects, next, timer, receiver, retryStore, wait, net, acks, peer,
                 transmitted, confirmed, result>>

\* ITransport::Send(): the checks of the class, and the medium's own failures.
Transmit(m) == /\ MaySend(objects.tx, FALSE)
               /\ net' = IF objects.tx.socket = "none" THEN net ELSE net \cup {m}
               /\ transmitted' = [transmitted EXCEPT ![m] = @ + 1]

SendSucceeds ==
  /\ sender.pc \in {"send", "sendRaw"} /\ Transmit(sender.msg)
  /\ SenderAt(IF sender.pc = "send" THEN "mark" ELSE "reconcile")
  /\ UNCHANGED <<wiring, objects, next, timer, receiver, retryStore, pending, wait, acks, peer,
                 confirmed, result>>

SendFails ==
  /\ sender.pc \in {"send", "sendRaw"}
  /\ SenderAt(IF sender.pc = "send" THEN "erase" ELSE "failed")
  /\ UNCHANGED <<wiring, objects, next, timer, receiver, retryStore, pending, wait, net, acks,
                 peer, transmitted, confirmed, result>>

Without(k) == Restrict(retryStore, DOMAIN retryStore \ {k})

\* A refused or failed send: the entry of its key goes, what m_pending holds stays.
EraseEntry ==
  /\ sender.pc = "erase"
  /\ retryStore' = Without(SeqOf(sender.msg)) /\ SenderAt("failed")
  /\ UNCHANGED <<wiring, objects, next, timer, receiver, pending, wait, net, acks, peer,
                 transmitted, confirmed, result>>

\* Mutant: the flag is not set.
MarkSentNever ==
  /\ sender.pc = "mark" /\ SenderAt("reconcile")
  /\ UNCHANGED <<wiring, objects, next, timer, receiver, retryStore, pending, wait, net, acks,
                 peer, transmitted, confirmed, result>>

\* isSent, unless the ACK was faster.
MarkSent ==
  /\ sender.pc = "mark"
  /\ retryStore' = IF SeqOf(sender.msg) \notin DOMAIN retryStore THEN retryStore
                   ELSE [retryStore EXCEPT ![SeqOf(sender.msg)].isSent = TRUE]
  /\ SenderAt("reconcile")
  /\ UNCHANGED <<wiring, objects, next, timer, receiver, pending, wait, net, acks, peer,
                 transmitted, confirmed, result>>

Told(m, what) == result' = [result EXCEPT ![m] = what]

\* On the network thread, after the call: the number is known now, and a status that
\* came before it counts.  Participants do not wait.
Reconcile ==
  LET k == SeqOf(sender.msg)
      w == [wait EXCEPT !.seqSet = TRUE, !.expectedSeq = k, !.early = None.early]
  IN /\ sender.pc = "reconcile"
     /\ IF ~Waits
        THEN SenderAt("idle") /\ Told(sender.msg, "sent") /\ wait' = None
        ELSE /\ SenderAt("waiting")
             /\ wait' = IF k \in DOMAIN wait.early
                        THEN [w EXCEPT !.complete = TRUE, !.success = wait.early[k]] ELSE w
             /\ UNCHANGED result
     /\ UNCHANGED <<wiring, objects, next, timer, receiver, retryStore, pending, net, acks,
                    peer, transmitted, confirmed>>

\* A send that failed is an error of the endpoint; nothing is waited for.
SendReturnsError ==
  /\ sender.pc = "failed"
  /\ SenderAt("idle") /\ wait' = None
  /\ Told(sender.msg, IF SeqOf(sender.msg) \in DOMAIN wait.early /\ wait.early[SeqOf(sender.msg)]
                      THEN "true" ELSE "failed")
  /\ UNCHANGED <<wiring, objects, next, timer, receiver, retryStore, pending, net, acks, peer,
                 transmitted, confirmed>>

\* wait_for(): the status came, or RECV_TIMEOUT passed.
WaitReturns ==
  /\ sender.pc = "waiting"
  /\ SenderAt("idle") /\ wait' = None
  /\ Told(sender.msg, IF wait.success THEN "true" ELSE "false")
  /\ UNCHANGED <<wiring, objects, next, timer, receiver, retryStore, pending, net, acks, peer,
                 transmitted, confirmed>>

-----------------------------------------------------------------------------
(* The timer's thread: Process(), and OnStatusChanged() with TIMEOUT.      *)

\* One pass under the lock: up to MaxExpired entries whose time is up leave the map.
Expire ==
  /\ Up \/ Stopping
  /\ timer.pc = "idle"
  /\ \E due \in (SUBSET pending) \ {{}} :
       /\ Cardinality(due) <= MaxExpired
       /\ pending' = pending \ due
       /\ timer' = [timer EXCEPT !.pc = "report", !.report = due]
  /\ UNCHANGED <<wiring, objects, next, sender, receiver, retryStore, wait, net, acks, peer,
                 transmitted, confirmed, result>>

NextReport(t) == [t EXCEPT !.pc = IF t.report = {} THEN "idle" ELSE "report"]

\* Mutants: a retry costs nothing; a retry does not wait for the first send.
SpentNothing(k) == retryStore
SentOrNot(k) == TRUE

Spent(k)  == [retryStore EXCEPT ![k].attemptsRemaining = @ - 1]
isSent(k) == retryStore[k].isSent

\* What OnStatusChanged() decides under m_lock for the next expired entry.
OnTimeout ==
  /\ timer.pc = "report" /\ timer.report # {}
  /\ \E k \in timer.report :
       LET After(pc) == timer' = [pc |-> pc, key |-> k, msg |-> retryStore[k].msg,
                                  report |-> timer.report \ {k}]
           Done      == timer' = NextReport([timer EXCEPT !.report = @ \ {k}])
       IN /\ Notify(k, FALSE)
          /\ IF k \notin DOMAIN retryStore THEN Done /\ UNCHANGED retryStore
             ELSE IF retryStore[k].attemptsRemaining = 0
                  THEN Done /\ retryStore' = Without(k)
             ELSE IF isSent(k) THEN After("retry") /\ retryStore' = Spent(k)
             ELSE After("reregister") /\ UNCHANGED retryStore
  /\ UNCHANGED <<wiring, objects, next, sender, receiver, pending, net, acks, peer,
                 transmitted, confirmed, result>>

\* The number is tracked again before the packet is sent again ...
RetryAdd ==
  /\ timer.pc = "retry"
  /\ IF AddRefused(timer.key)
     THEN timer' = [timer EXCEPT !.pc = "drop"] /\ UNCHANGED pending
     ELSE timer' = [timer EXCEPT !.pc = "resend"] /\ pending' = pending \cup {timer.key}
  /\ UNCHANGED <<wiring, objects, next, sender, receiver, retryStore, wait, net, acks, peer,
                 transmitted, confirmed, result>>

\* ... and what Send() answers is not looked at.
Resend ==
  /\ timer.pc = "resend"
  /\ Transmit(timer.msg) \/ UNCHANGED <<net, transmitted>>
  /\ timer' = NextReport(timer)
  /\ UNCHANGED <<wiring, objects, next, sender, receiver, retryStore, pending, wait, acks, peer,
                 confirmed, result>>

\* A retry that the monitor refuses ends the message.
RetryDropped ==
  /\ timer.pc = "drop"
  /\ retryStore' = Without(timer.key) /\ timer' = NextReport(timer)
  /\ UNCHANGED <<wiring, objects, next, sender, receiver, pending, wait, net, acks, peer,
                 transmitted, confirmed, result>>

\* The first send is still under way: tracked again; what Add() answers is not looked at.
Reregister ==
  /\ timer.pc = "reregister"
  /\ pending' = IF AddRefused(timer.key) THEN pending ELSE pending \cup {timer.key}
  /\ timer' = NextReport(timer)
  /\ UNCHANGED <<wiring, objects, next, sender, receiver, retryStore, wait, net, acks, peer,
                 transmitted, confirmed, result>>

-----------------------------------------------------------------------------
(* The receiving thread: an ACK, and OnStatusChanged() with SUCCESS.       *)

\* A NetworkNode drains the socket it sends with; the engine's RecvThread() reads
\* m_recvTransport.
TwoObjects == wiring = "engine" /\ Kind \notin {"Stm32Uart", "Serial"}
ReadsAcksOf == IF TwoObjects THEN "rx" ELSE "tx"

TakeAck ==
  /\ Up /\ receiver.pc = "idle"
  /\ MayReceive(objects[ReadsAcksOf]) /\ TakesAck(objects[ReadsAcksOf])
  /\ \E k \in SeqNum :
       /\ [seq |-> k, at |-> ReadsAcksOf] \in acks /\ k \in pending
       /\ pending' = Removed(k)
       /\ receiver' = [pc |-> "success", key |-> k]
       /\ confirmed' = confirmed \cup {k}
  /\ UNCHANGED <<wiring, objects, next, sender, timer, retryStore, wait, net, acks, peer,
                 transmitted, result>>

OnSuccess ==
  /\ receiver.pc = "success"
  /\ receiver' = [receiver EXCEPT !.pc = "idle"]
  /\ retryStore' = Without(receiver.key) /\ Notify(receiver.key, TRUE)
  /\ UNCHANGED <<wiring, objects, next, sender, timer, pending, net, acks, peer, transmitted,
                 confirmed, result>>

-----------------------------------------------------------------------------
(* The peer.                                                               *)

\* Its transport takes a message in and answers it, before anything is executed.
PeerReceives(m) ==
  LET o == objects.peerRx
      Acked(where) == acks' = acks \cup {[seq |-> SeqOf(m), at |-> where]}
  IN /\ m \in net /\ MayReceive(o)
     /\ received' = received \cup {m}
     /\ IF Answer(o) = "reply" \/ (Answer(o) = "send" /\ o.sendT = "self" /\ MaySend(o, TRUE))
        THEN Acked("tx")
        ELSE IF Answer(o) = "send" /\ o.sendT = "other" /\ MaySend(objects.peerTx, TRUE)
             THEN Acked("rx") ELSE UNCHANGED acks

Execute(m) == delivered' = Append(delivered, SeqOf(m))

is_duplicate(k) == k \in Range(history.buffer)

\* Mutant: the number is not written to the history.
RememberedNot(k) == history
Remembered(k) == [buffer |-> [history.buffer EXCEPT ![history.head] = k],
                  head |-> (history.head + 1) % HistorySize]

\* Participant::ProcessIncoming() of a known remote id: a number among the last
\* HistorySize ones is dropped.
ProcessIncoming ==
  /\ Len(delivered) < MaxDeliveries /\ wiring \in {"node", "direct"}
  /\ \E m \in Message :
       /\ PeerReceives(m)
       /\ IF is_duplicate(SeqOf(m)) THEN UNCHANGED <<history, delivered>>
          ELSE history' = Remembered(SeqOf(m)) /\ Execute(m)
  /\ UNCHANGED <<wiring, objects, next, node, net, transmitted, confirmed, result>>

\* NetworkEngine::RecvThread() and Incoming(): no history; a message without arguments
\* is not passed on, and one that the network thread's full queue drops is lost.
RecvThread ==
  /\ Len(delivered) < MaxDeliveries /\ wiring = "engine"
  /\ \E m \in Message :
       /\ PeerReceives(m)
       /\ (m \notin Empty /\ Execute(m)) \/ UNCHANGED delivered
  /\ UNCHANGED <<wiring, objects, next, node, net, history, transmitted, confirmed, result>>

-----------------------------------------------------------------------------
Send == Dispatch \/ AddPending \/ SendSucceeds \/ SendFails \/ EraseEntry \/ MarkSent
        \/ Reconcile \/ SendReturnsError \/ WaitReturns
Process == Expire \/ OnTimeout \/ RetryAdd \/ Resend \/ RetryDropped \/ Reregister
Receive == TakeAck \/ OnSuccess

Next == \/ AddPeer \/ Initialize \/ InitializeDuplex \/ Connect
        \/ Stop \/ ReceiverLeaves \/ StopOnThread
        \/ Send \/ Process \/ Receive
        \/ ProcessIncoming \/ RecvThread

\* The threads run and the timer keeps calling Process(); nothing is assumed of the
\* medium, of the peer, or of a program that might go on sending.
Fairness ==
  /\ WF_vars(Send /\ sender.pc # "idle")
  /\ WF_vars(Process)
  /\ WF_vars(OnSuccess)

Spec == Init /\ [][Next]_vars /\ Fairness

-----------------------------------------------------------------------------
TypeOK ==
  /\ wiring \in {"new", "node", "engine", "direct", "stopping", "stoppingEngine",
              "stopped"}
  /\ objects \in [{"tx", "rx", "peerTx", "peerRx"} -> Transport]
  /\ next \in 0 .. MaxMessages
  /\ sender \in [pc : {"idle", "add", "send", "sendRaw", "erase", "mark", "reconcile",
                       "failed", "waiting"}, msg : Message]
  /\ timer \in [pc : {"idle", "report", "retry", "resend", "drop", "reregister"},
                key : SeqNum, msg : Message, report : SUBSET SeqNum]
  /\ timer.pc = "report" => timer.report # {}
  /\ receiver \in [pc : {"idle", "success", "done"}, key : SeqNum]
  /\ DOMAIN retryStore \subseteq SeqNum
  /\ \A k \in DOMAIN retryStore :
       retryStore[k] \in [msg : {m \in Message : SeqOf(m) = k},
                         attemptsRemaining : 0 .. MaxRetries, isSent : BOOLEAN]
  /\ pending \subseteq SeqNum /\ Cardinality(pending) <= MaxPending
  /\ net \subseteq Message /\ acks \subseteq [seq : SeqNum, at : {"tx", "rx"}]
  /\ history.head \in 0 .. HistorySize - 1
  /\ transmitted \in [Message -> 0 .. MaxRetries + 1]

\* No status and no return value says that the peer has a message which its transport
\* never took in (SUCCESS is "Message received by remote").  A status names a number, and
\* when numbers wrap while an ACK of the first use is still under way, it is the message of
\* that use that was received.
SuccessMeansReceived ==
  \A k \in confirmed \cup {SeqOf(m) : m \in {n \in Message : result[n] = "true"}} :
    \E m \in received : SeqOf(m) = k

\* A message that the caller was told has failed is not transmitted behind his back:
\* whatever the timer decided while the send was under way, the retry budget of a failed
\* send is never used.
FailedIsFinal ==
  [][\A m \in Message : result[m] = "failed" => transmitted'[m] = transmitted[m]]_vars

\* A message is handed to the medium at most 1 + maxRetries times, however the timer's
\* pass, the re-registration during a slow send and the ACK interleave.
RetriesBounded == \A m \in Message : transmitted[m] <= 1 + MaxRetries

\* The idempotency window: a number is executed again only after HistorySize others were
\* executed in between.
DuplicateOnlyBeyondWindow ==
  wiring \in {"node", "direct"} =>
    \A i, j \in 1 .. Len(delivered) :
      i < j /\ delivered[i] = delivered[j] => j - i > HistorySize

\* Tracking ends: a node that is not stopped has, in the end, nothing pending, whether
\* ACKs come or not.
TrackingEnds == <>[](pending = {} \/ ~Up)
=============================================================================
