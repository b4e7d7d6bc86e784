------------------------------- MODULE DataBus -------------------------------
(***************************************************************************)
(* The DataBus of one process, with its Participants and their             *)
(* RemoteChannels, seen through one topic.  Several threads use it; each   *)
(* runs a program, a sequence of calls.  A call that leaves m_mutex        *)
(* between its parts is one action per part: InternalSubscribe() and       *)
(* InternalPublish() connect, deliver and send outside the lock.           *)
(*                                                                         *)
(* A value is a natural number, the sequence number its publisher gave it; *)
(* a subscriber sees it modulo Width, and keeps the freshest with a        *)
(* MonotonicGuard.  write, read and dispatch are as in RemoteDelegates.    *)
(* A Signal of the topic is a number, its place in slots; 0 is none.       *)
(*                                                                         *)
(* Not modelled: what the monitor prints, and a subscriber or error        *)
(* handler that calls the bus again.  A subscriber with a minimum          *)
(* separation is called by one thread; a subscriber has one connection to  *)
(* a Signal, and a participant is in the array once.                       *)
(***************************************************************************)
EXTENDS RemoteDelegates, SequencesExt

CONSTANTS Setups,      \* the programs, with what their surroundings are
          Values,
          Threads, Subscribers, Parties,
          RemoteIds,
          Capacity,    \* MAX_PARTICIPANTS
          HistorySize, \* DMQ_SEQ_HISTORY_SIZE
          Width        \* values of a sequence number, 2^w

ASSUME WidthAssumption == Width \in Nat /\ Width % 2 = 0 /\ Width > 0

\* The calls of all programs: each names what it is about.
Calls == UNION {Range(s.program[t]) : s \in Setups, t \in Threads}

ASSUME ProgramsAssumption ==
  /\ \A s \in Setups : s.program \in [Threads -> Seq(Calls)]
  /\ \A c \in Calls :
       /\ c.op \in {"subscribe", "unsubscribe"} => c.s \in Subscribers
       /\ c.op \in {"attach", "detach", "remote", "handler", "incoming"} => c.p \in Parties
       /\ c.op \in {"remote", "handler", "incoming"} => c.id \in RemoteIds
       /\ c.op \in {"publish", "publishLocal", "incoming", "own"} => c.v \in Values
  /\ Values \subseteq Nat /\ Null \notin Values \cup RemoteIds

VARIABLES
  setup,     \* [program, qos, write, dispatch, sendThread, ticks]
  left,      \* calls each thread has still to make
  th,        \* where each thread is in its call, with the call's locals
  bus,       \* the members of DataBus, and the Participants in party
  slots,     \* the connections of each Signal, in order: subscribers
  worker,    \* <<subscriber, value>> queued for the subscribers' thread
  outbox,    \* <<participant, id, value>> queued for the send thread
  subs,      \* last: RateLimiter; received: calls; guard: the newest value accepted
  own,       \* the stream of the program's own RemoteChannel
  now,
  halted,    \* ASSERT() failed
  published, \* values, in the order of the lock
  since,     \* what had been published when a subscriber connected
  sent,      \* <<participant, value>> that a transport took
  arrived,   \* values that came in by AddIncomingTopic()
  refused    \* values that no serializer had trouble with, yet the stream refused

ghosts  == <<published, since, sent, arrived, refused>>
devices == <<worker, outbox, subs, own, now>>
vars    == <<setup, left, th, bus, slots, devices, halted, ghosts>>

Idle == [at |-> "idle", s |-> Null, v |-> 0, type |-> Null, localOnly |-> FALSE, ts |-> 0,
         signal |-> 0, todo |-> <<>>, i |-> 1, parties |-> <<>>, serializer |-> FALSE,
         interested |-> FALSE, cached |-> Null, party |-> Null,
         id |-> Null, through |-> {}, reached |-> {}]

NewParty == [m_topicToRemoteId |-> Null, m_channels |-> [id \in {} |-> 0],
             m_history |-> [id \in RemoteIds |-> <<>>], m_reportedErrors |-> {},
             m_continuousErrors |-> FALSE, connected |-> FALSE]

NewBus == [m_typeIndices |-> Null, m_signals |-> 0, m_topicQos |-> FALSE, m_lastValues |-> Null,
           m_serializers |-> FALSE, m_stringifiers |-> FALSE, m_monitorSignal |-> FALSE,
           m_participants |-> <<>>, m_reportedErrors |-> {}, m_continuousErrors |-> FALSE,
           party |-> [p \in Parties |-> NewParty]]

Init ==
  /\ setup \in Setups
  /\ left = setup.program
  /\ th = [t \in Threads |-> Idle]
  /\ bus = NewBus
  /\ slots = <<>> /\ worker = <<>> /\ outbox = <<>>
  /\ subs = [s \in Subscribers |-> [last |-> 0, received |-> <<>>, guard |-> Null]]
  /\ own = "good" /\ now = 0 /\ halted = FALSE
  /\ published = <<>> /\ since = [s \in Subscribers |-> 0]
  /\ sent = {} /\ arrived = {} /\ refused = {}

-----------------------------------------------------------------------------
(* Errors.  A participant and the bus each report an error once per topic, *)
(* unless continuous errors are enabled.                                   *)

InternalReportLatchedError(b, topic, error) ==
  [b EXCEPT !.m_reportedErrors = @ \cup {<<topic, error>>}]

OnChannelError(b, p, id, error) ==
  LET q     == b.party[p]
      topic == IF q.m_topicToRemoteId = id THEN "topic" ELSE "unknown"
      fire  == <<topic, error>> \notin q.m_reportedErrors \/ q.m_continuousErrors
      told  == [b EXCEPT !.party[p].m_reportedErrors = @ \cup {<<topic, error>>}]
  IN IF error = "SUCCESS" THEN b
     ELSE IF fire /\ q.connected THEN InternalReportLatchedError(told, topic, error) ELSE told

-----------------------------------------------------------------------------
(* Subscribers.                                                            *)

\* Mutant: whatever arrives is taken.
IsNewerAlways(guard, v) == TRUE
\* MonotonicGuard: the signed difference of two numbers of the same width.
IsNewer(guard, v) ==
  guard = Null \/ LET diff == (v - guard) % Width IN 0 < diff /\ diff < Width \div 2

\* The RateLimiter's and Filter's Invoke(), and the subscriber's function.
RateLimiterPasses(s) ==
  setup.qos[s].minSeparation = Null \/ now - subs[s].last >= setup.qos[s].minSeparation
FilterPasses(s, v) == v \in setup.qos[s].filter
Called(s, v) ==
  IF ~RateLimiterPasses(s) THEN subs
  ELSE IF ~FilterPasses(s, v) THEN [subs EXCEPT ![s].last = now]
  ELSE [subs EXCEPT ![s].last = now, ![s].received = Append(@, v),
                    ![s].guard = IF IsNewer(@, v) THEN v ELSE @]

\* A subscriber with a thread gets the value there.
Deliver(s, v) ==
  IF setup.qos[s].thread
  THEN worker' = Append(worker, <<s, v>>) /\ UNCHANGED subs
  ELSE subs' = Called(s, v) /\ UNCHANGED worker

WorkerTakes ==
  /\ worker # <<>>
  /\ subs' = Called(worker[1][1], worker[1][2])
  /\ worker' = Tail(worker)
  /\ UNCHANGED <<setup, left, th, bus, slots, outbox, own, now, halted, ghosts>>

-----------------------------------------------------------------------------
(* Calls that are one critical section.                                    *)

Starts(t, op) == /\ th[t].at = "idle" /\ left[t] # <<>> /\ left[t][1].op = op
                 /\ left' = [left EXCEPT ![t] = Tail(@)]
Op(t) == left[t][1]

\* Look up the topic's type; if there is none yet, it is this one.
Mismatch(b, type) == b.m_typeIndices \notin {Null, type}
Establish(b, type) == [b EXCEPT !.m_typeIndices = type]
\* The error is reported, then ASSERT() ends the program.
TypeFault(b) == /\ bus' = InternalReportLatchedError(b, "topic", "ERR_TYPE_MISMATCH")
                /\ halted' = TRUE

\* A registration checks the type and then writes one entry.
Register(t, op, written(_)) ==
  /\ Starts(t, op)
  /\ \/ Mismatch(bus, Op(t).type) /\ TypeFault(bus)
     \/ /\ ~Mismatch(bus, Op(t).type)
        /\ bus' = written(Establish(bus, Op(t).type))
        /\ UNCHANGED halted
  /\ UNCHANGED <<setup, th, slots, devices, ghosts>>

RegisterSerializer(t) ==
  LET written(b) == [b EXCEPT !.m_serializers = TRUE] IN Register(t, "serializer", written)
RegisterStringifier(t) ==
  LET written(b) == [b EXCEPT !.m_stringifiers = TRUE] IN Register(t, "stringifier", written)

\* A call that only assigns.
Assigns(t, op, b) == Starts(t, op) /\ bus' = b
                     /\ UNCHANGED <<setup, th, slots, devices, halted, ghosts>>

LastValueCache(t) == Assigns(t, "cache", [bus EXCEPT !.m_topicQos = Op(t).enabled])
Monitor(t)        == Assigns(t, "monitor", [bus EXCEPT !.m_monitorSignal = TRUE])
EnableContinuousErrors(t) ==
  Assigns(t, "continuous",
          [bus EXCEPT !.m_continuousErrors = Op(t).enabled,
                      !.party = [p \in Parties |-> IF p \in Range(bus.m_participants)
                                   THEN [@[p] EXCEPT !.m_continuousErrors = Op(t).enabled]
                                   ELSE @[p]]])
AddRemoteTopic(t) ==
  Assigns(t, "remote", [bus EXCEPT !.party[Op(t).p].m_topicToRemoteId = Op(t).id])

\* ResetForTesting(): the connections of m_signals stay, of a Signal that nobody finds again.
Reset(t) ==
  Assigns(t, "reset",
          [NewBus EXCEPT !.m_continuousErrors = bus.m_continuousErrors,
             !.party = [p \in Parties |-> IF p \in Range(bus.m_participants)
                          THEN [bus.party[p] EXCEPT !.m_reportedErrors = {}, !.connected = FALSE]
                          ELSE bus.party[p]]])

\* The first entry, if there is one; its error connection goes with it.
RemoveParticipant(t) ==
  Assigns(t, "detach", IF ~Contains(bus.m_participants, Op(t).p) THEN bus
                       ELSE [bus EXCEPT !.m_participants = RemoveFirst(@, Op(t).p),
                                        !.party[Op(t).p].connected = FALSE])

\* ~ScopedConnection() of every connection that the subscriber has.
Unsubscribe(t) ==
  /\ Starts(t, "unsubscribe")
  /\ slots' = [g \in DOMAIN slots |-> RemoveFirst(slots[g], Op(t).s)]
  /\ UNCHANGED <<setup, th, bus, devices, halted, ghosts>>

\* The error connection is made before the lock is taken.
AddParticipant(t) ==
  /\ Starts(t, "attach")
  /\ bus' = [bus EXCEPT !.party[Op(t).p].connected = TRUE]
  /\ th' = [th EXCEPT ![t].at = "attach", ![t].party = Op(t).p]
  /\ UNCHANGED <<setup, slots, devices, halted, ghosts>>
AddParticipantLocked(t) ==
  /\ th[t].at = "attach"
  /\ \/ Len(bus.m_participants) >= Capacity /\ halted' = TRUE /\ UNCHANGED bus
     \/ /\ Len(bus.m_participants) < Capacity
        /\ bus' = [bus EXCEPT !.m_participants = Append(@, th[t].party),
                              !.party[th[t].party].m_continuousErrors = bus.m_continuousErrors]
        /\ UNCHANGED halted
  /\ th' = [th EXCEPT ![t] = Idle]
  /\ UNCHANGED <<setup, left, slots, devices, ghosts>>

-----------------------------------------------------------------------------
(* InternalSubscribe().                                                    *)

\* Mutant: the cache is read first.
CacheFirst == [connect |-> "deliver", cache |-> "connect", deliver |-> "idle", start |-> "cache"]
\* The parts of the call, each with the one that follows it.
SubscribeOrder ==
  [start |-> "connect", connect |-> "cache", cache |-> "deliver", deliver |-> "idle"]

\* The cache is enabled even for a type that turns out to be wrong.
Subscribe(t) ==
  /\ Starts(t, "subscribe")
  /\ LET s == Op(t).s
         b == [bus EXCEPT !.m_topicQos = @ \/ setup.qos[s].lastValueCache]
     IN IF Mismatch(b, Op(t).type) THEN TypeFault(b) /\ UNCHANGED <<th, slots>>
        ELSE /\ IF b.m_signals # 0 THEN bus' = b /\ UNCHANGED slots
                ELSE /\ bus' = [Establish(b, Op(t).type) EXCEPT !.m_signals = Len(slots) + 1]
                     /\ slots' = Append(slots, <<>>)
             /\ th' = [th EXCEPT ![t].at = SubscribeOrder.start, ![t].s = s,
                                 ![t].signal = bus'.m_signals]
             /\ UNCHANGED halted
  /\ UNCHANGED <<setup, devices, ghosts>>

Connect(t) ==
  /\ th[t].at = "connect"
  /\ slots' = [slots EXCEPT ![th[t].signal] = Append(@, th[t].s)]
  /\ since' = [since EXCEPT ![th[t].s] = Len(published)]
  /\ th' = [th EXCEPT ![t].at = SubscribeOrder[@]]
  /\ UNCHANGED <<setup, left, bus, devices, halted, published, sent, arrived, refused>>

Expired(s) == /\ setup.qos[s].lifespan # Null
              /\ now - bus.m_lastValues.timestamp > setup.qos[s].lifespan

ReadCache(t) ==
  /\ th[t].at = "cache"
  /\ LET s == th[t].s
     IN th' = [th EXCEPT ![t].at = SubscribeOrder[@],
                         ![t].cached = IF /\ setup.qos[s].lastValueCache
                                          /\ bus.m_lastValues # Null /\ ~Expired(s)
                                       THEN bus.m_lastValues.value ELSE Null]
  /\ UNCHANGED <<setup, left, bus, slots, devices, halted, ghosts>>

DeliverCached(t) ==
  /\ th[t].at = "deliver"
  /\ IF th[t].cached = Null THEN UNCHANGED <<subs, worker>> ELSE Deliver(th[t].s, th[t].cached)
  /\ th' = [th EXCEPT ![t] = IF SubscribeOrder[@.at] = "idle" THEN Idle
                             ELSE [@ EXCEPT !.at = SubscribeOrder[@.at]]]
  /\ UNCHANGED <<setup, left, bus, slots, outbox, own, now, halted, ghosts>>

-----------------------------------------------------------------------------
(* Participant: the channels.                                              *)

NewChannel(id, type) ==
  [del |-> [Wired(RemoteDelegate("FunctionRemote", Null, Null, id)) EXCEPT !.handler = TRUE],
   type |-> type, stream |-> "good"]

HasChannel(b, p, id) == id \in DOMAIN b.party[p].m_channels
ChannelMismatch(b, p, id, type) ==
  HasChannel(b, p, id) /\ b.party[p].m_channels[id].type # type
GetOrCreateChannelLocked(b, p, id, type) ==
  IF HasChannel(b, p, id) THEN b
  ELSE [b EXCEPT !.party[p].m_channels =
          [k \in DOMAIN @ \cup {id} |-> IF k = id THEN NewChannel(id, type) ELSE @[k]]]

ChannelFault(b, p, id) == /\ bus' = OnChannelError(b, p, id, "ERR_TYPE_MISMATCH")
                          /\ halted' = TRUE

\* RemoteChannel's operator(), under m_sendMutex.
ChannelSend(b, p, id, v) ==
  LET c == b.party[p].m_channels[id]
  IN \E d \in setup.dispatch :
       LET r == Send(c.del, c.stream, setup.write[v], d)
           o == [b EXCEPT !.party[p].m_channels[id].stream = r.stream,
                          !.party[p].m_channels[id].del = RaiseError(@, r.error)]
       IN /\ bus' = OnChannelError(o, p, id, r.error)
          /\ sent' = IF r.sent THEN sent \cup {<<p, v>>} ELSE sent
          /\ refused' = IF r.error = "ERR_STREAM_NOT_GOOD" /\ setup.write[v] = "ok"
                        THEN refused \cup {<<p, v>>} ELSE refused

SenderTakes ==
  /\ outbox # <<>>
  /\ ChannelSend(bus, outbox[1][1], outbox[1][2], outbox[1][3])
  /\ outbox' = Tail(outbox)
  /\ UNCHANGED <<setup, left, th, slots, worker, subs, own, now, halted, published, since,
                 arrived>>

\* The handler is a closure: "incoming" publishes locally, "relay" to all.
RegisterHandler(t) ==
  /\ Starts(t, "handler")
  /\ LET o == Op(t)
     IN IF ChannelMismatch(bus, o.p, o.id, o.type) THEN ChannelFault(bus, o.p, o.id)
        ELSE /\ bus' = [GetOrCreateChannelLocked(bus, o.p, o.id, o.type)
                          EXCEPT !.party[o.p].m_channels[o.id].del.func = o.func]
             /\ UNCHANGED halted
  /\ UNCHANGED <<setup, th, slots, devices, ghosts>>

-----------------------------------------------------------------------------
(* InternalPublish().                                                      *)

\* The time is taken before the lock.
Publishing(t, v, type, localOnly) ==
  [th EXCEPT ![t] = [Idle EXCEPT !.at = "publish", !.v = v, !.type = type, !.ts = now,
                                 !.localOnly = localOnly]]
Publish(t) == /\ Starts(t, "publish") /\ th' = Publishing(t, Op(t).v, Op(t).type, FALSE)
              /\ UNCHANGED <<setup, bus, slots, devices, halted, ghosts>>
PublishLocal(t) == /\ Starts(t, "publishLocal") /\ th' = Publishing(t, Op(t).v, Op(t).type, TRUE)
                   /\ UNCHANGED <<setup, bus, slots, devices, halted, ghosts>>

Interested(p) == bus.party[p].m_topicToRemoteId # Null

\* The type is checked, the cache updated and everything the rest needs copied under the lock.
PublishLocked(t) ==
  /\ th[t].at = "publish"
  /\ \/ Mismatch(bus, th[t].type) /\ TypeFault(bus) /\ UNCHANGED <<th, published>>
     \/ /\ ~Mismatch(bus, th[t].type)
        /\ bus' = [Establish(bus, th[t].type) EXCEPT
                     !.m_lastValues = IF ~bus.m_topicQos THEN @
                                      ELSE [value |-> th[t].v, timestamp |-> th[t].ts]]
        /\ th' = [th EXCEPT ![t].at = IF bus.m_monitorSignal THEN "monitor" ELSE "local",
                            ![t].signal = bus.m_signals, ![t].serializer = bus.m_serializers,
                            ![t].parties = bus.m_participants,
                            ![t].through = {p \in Range(bus.m_participants) : Interested(p)}]
        /\ published' = Append(published, th[t].v)
        /\ UNCHANGED halted
  /\ UNCHANGED <<setup, left, slots, devices, since, sent, arrived, refused>>

DispatchMonitor(t) ==
  /\ th[t].at = "monitor"
  /\ th' = [th EXCEPT ![t].at = "local"]
  /\ UNCHANGED <<setup, left, bus, slots, devices, halted, ghosts>>

\* Signal::operator() calls a copy of the connections.
Snapshot(t) ==
  /\ th[t].at = "local"
  /\ LET todo == IF th[t].signal = 0 THEN <<>> ELSE slots[th[t].signal]
     IN th' = [th EXCEPT ![t].at = IF todo = <<>> THEN "remote" ELSE "slots", ![t].todo = todo]
  /\ UNCHANGED <<setup, left, bus, slots, devices, halted, ghosts>>

CallSlot(t) ==
  /\ th[t].at = "slots"
  /\ Deliver(th[t].todo[1], th[t].v)
  /\ th' = [th EXCEPT ![t].at = IF Len(th[t].todo) = 1 THEN "remote" ELSE @,
                      ![t].todo = Tail(@)]
  /\ UNCHANGED <<setup, left, bus, slots, outbox, own, now, halted, ghosts>>

\* Mutant: the loop goes over the live list.
LiveList(t) == bus.m_participants
\* participantsSnapshot.
Peers(t) == th[t].parties

\* Mutant: localOnly is forgotten.
SkipsNone(t) == th[t].i > Len(Peers(t))
\* There is no participant left to send to.
SkipsRemote(t) == th[t].localOnly \/ th[t].i > Len(Peers(t))

\* Participant::DispatchIfInterested().
DispatchIfInterested(t) ==
  /\ th[t].at = "remote" /\ ~SkipsRemote(t)
  /\ LET p  == Peers(t)[th[t].i]
         id == bus.party[p].m_topicToRemoteId
         b  == GetOrCreateChannelLocked(bus, p, id, th[t].type)
     IN /\ th' = [th EXCEPT ![t].i = @ + 1, ![t].interested = @ \/ Interested(p),
                            ![t].reached = IF Interested(p) THEN @ \cup {p} ELSE @]
        /\ IF ~Interested(p) \/ ~th[t].serializer
           THEN UNCHANGED <<bus, outbox, halted, sent, refused>>
           ELSE IF ChannelMismatch(bus, p, id, th[t].type)
           THEN ChannelFault(bus, p, id) /\ UNCHANGED <<outbox, sent, refused>>
           ELSE IF setup.sendThread
           THEN /\ outbox' = Append(outbox, <<p, id, th[t].v>>) /\ bus' = b
                /\ UNCHANGED <<halted, sent, refused>>
           ELSE ChannelSend(b, p, id, th[t].v) /\ UNCHANGED <<outbox, halted>>
  /\ UNCHANGED <<setup, left, slots, worker, subs, own, now, published, since, arrived>>

\* Nothing is done of the unhandled signal but to call it.
Published(t) ==
  /\ th[t].at = "remote" /\ SkipsRemote(t)
  /\ bus' = IF th[t].interested /\ ~th[t].serializer
            THEN InternalReportLatchedError(bus, "topic", "ERR_NO_SERIALIZER") ELSE bus
  /\ th' = [th EXCEPT ![t] = Idle]
  /\ UNCHANGED <<setup, left, slots, devices, halted, ghosts>>

-----------------------------------------------------------------------------
(* ProcessIncoming().                                                      *)

\* SeqHistory keeps the last numbers; id is not ACK_REMOTE_ID.
Duplicate(p, id, seq) == seq \in Range(bus.party[p].m_history[id])
Remember(h, seq) == IF Len(h) < HistorySize THEN Append(h, seq) ELSE Append(Tail(h), seq)

\* The transport's result, the marker, the channel and the history, in this order.
ProcessIncoming(t) ==
  /\ Starts(t, "incoming")
  /\ LET o == Op(t)
     IN IF o.result # 0 \/ ~o.marker THEN UNCHANGED <<bus, th>>
        ELSE IF ~HasChannel(bus, o.p, o.id)
        THEN bus' = OnChannelError(bus, o.p, o.id, "ERR_NO_DISPATCHER") /\ UNCHANGED th
        ELSE IF Duplicate(o.p, o.id, o.seq) THEN UNCHANGED <<bus, th>>
        ELSE /\ bus' = [bus EXCEPT !.party[o.p].m_history[o.id] = Remember(@, o.seq)]
             /\ th' = [th EXCEPT ![t] = [Idle EXCEPT !.at = "invoke", !.party = o.p, !.id = o.id,
                                                     !.v = o.v, !.cached = o.read]]
  /\ UNCHANGED <<setup, slots, devices, halted, ghosts>>

\* The handler runs outside the lock, and publishes.
InvokeHandler(t) ==
  /\ th[t].at = "invoke"
  /\ LET c == bus.party[th[t].party].m_channels[th[t].id]
         r == InvokeRemote(c.del, th[t].cached)
     IN /\ bus' = IF r \in {"run", "skip"} THEN bus
                  ELSE OnChannelError([bus EXCEPT !.party[th[t].party].m_channels[th[t].id].del =
                                                    RaiseError(@, r)],
                                      th[t].party, th[t].id, r)
        /\ th' = IF r = "run" THEN Publishing(t, th[t].v, c.type, c.del.func = "incoming")
                 ELSE [th EXCEPT ![t] = Idle]
        /\ arrived' = IF r = "run" /\ c.del.func = "incoming"
                      THEN arrived \cup {th[t].v} ELSE arrived
  /\ UNCHANGED <<setup, left, slots, devices, halted, published, since, sent, refused>>

-----------------------------------------------------------------------------
(* A RemoteChannel and a remote delegate of the program's own, made with   *)
(* MakeDelegate(), which has no error handler.                             *)

OwnDelegate(class) == Wired(RemoteDelegate(class, "f", "o", "own"))

OwnSend(t) ==
  /\ Starts(t, "own")
  /\ \E d \in setup.dispatch :
       LET r == Send(OwnDelegate(Op(t).class), own, setup.write[Op(t).v], d)
       IN /\ own' = r.stream
          /\ sent' = IF r.sent THEN sent \cup {<<"own", Op(t).v>>} ELSE sent
          /\ refused' = IF r.error = "ERR_STREAM_NOT_GOOD" /\ setup.write[Op(t).v] = "ok"
                        THEN refused \cup {<<"own", Op(t).v>>} ELSE refused
          /\ halted' = (Throws(OwnDelegate(Op(t).class), r.error) /\ ~Op(t).catches)
  /\ UNCHANGED <<setup, th, bus, slots, worker, outbox, subs, now, published, since, arrived>>

-----------------------------------------------------------------------------
Tick == /\ now < setup.ticks /\ now' = now + 1
        /\ UNCHANGED <<setup, left, th, bus, slots, worker, outbox, subs, own, halted, ghosts>>

Step(t) ==
  \/ RegisterSerializer(t) \/ RegisterStringifier(t) \/ LastValueCache(t) \/ Monitor(t)
  \/ EnableContinuousErrors(t) \/ AddRemoteTopic(t) \/ Reset(t) \/ RemoveParticipant(t)
  \/ Unsubscribe(t) \/ AddParticipant(t) \/ AddParticipantLocked(t) \/ Subscribe(t)
  \/ Connect(t) \/ ReadCache(t) \/ DeliverCached(t) \/ RegisterHandler(t) \/ Publish(t)
  \/ PublishLocal(t) \/ PublishLocked(t) \/ DispatchMonitor(t) \/ Snapshot(t) \/ CallSlot(t)
  \/ DispatchIfInterested(t) \/ Published(t) \/ ProcessIncoming(t) \/ InvokeHandler(t)
  \/ OwnSend(t)

Next == /\ ~halted
        /\ (\E t \in Threads : Step(t)) \/ WorkerTakes \/ SenderTakes \/ Tick

Spec == Init /\ [][Next]_vars

-----------------------------------------------------------------------------
(* Properties.                                                             *)

Quiet == worker = <<>> /\ \A t \in Threads : th[t].at = "idle"

\* A subscriber that asked for the cached value and for nothing that drops values, on the
\* Signal that publishers use.
Follows(s) == /\ setup.qos[s].lastValueCache /\ setup.qos[s].lifespan = Null
              /\ setup.qos[s].minSeparation = Null /\ setup.qos[s].filter = Values
              /\ bus.m_signals # 0 /\ Contains(slots[bus.m_signals], s)

\* DataBus.h, Subscribe(): "Signal connection is established before LVC delivery to ensure no
\* messages are missed."  At rest a follower has received the value that the cache holds,
\* published before or while it subscribed, and every value published since it connected.
NoUpdateMissed ==
  Quiet => \A s \in Subscribers : Follows(s) =>
    /\ bus.m_lastValues # Null => Contains(subs[s].received, bus.m_lastValues.value)
    /\ \A k \in since[s] + 1 .. Len(published) : Contains(subs[s].received, published[k])

\* InternalSubscribe(), step 5: the cached value may arrive after a fresher one, and the
\* MonotonicGuard is "the correct fix".  At rest a follower with a guard is left with a value
\* no older than the cache's and than any it received, though the sequence numbers wrap.
FreshestWins ==
  Quiet => \A s \in Subscribers : Follows(s) =>
    /\ bus.m_lastValues # Null => subs[s].guard # Null /\ subs[s].guard >= bus.m_lastValues.value
    /\ \A v \in Range(subs[s].received) : subs[s].guard >= v

\* AddIncomingTopic() republishes to the local bus only, "to prevent relay loops when a topic
\* is both incoming and outgoing": no value that came in so is sent to any participant.
NoEcho == \A x \in sent : x[2] \notin arrived

\* A participant that was attached and interested when a value was published, and still is
\* attached when the publisher is done, has been given the value, whoever else was removed.
NoPeerSkipped ==
  \A t \in Threads :
    th[t].at = "remote" /\ SkipsRemote(t) /\ ~th[t].localOnly
      => th[t].through \cap Range(bus.m_participants) \subseteq th[t].reached

\* Dispatcher.h: "Reset the stream content and error state for the next use."  No value that
\* can be serialized is refused for the state that an earlier one left the stream in.
ChannelRecovers == refused = {}
=============================================================================
