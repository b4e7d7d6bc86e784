---------------------------- MODULE DataBusProofs ----------------------------
(***************************************************************************)
(* Theorems about DataBus, for any threads, programs, subscribers,         *)
(* participants and surroundings: no update is missed, the freshest value  *)
(* wins, no participant is skipped, and nothing echoes.                    *)
(***************************************************************************)
EXTENDS DataBus, SequenceTheorems, WellFoundedInduction, TLAPS

-----------------------------------------------------------------------------
(* Sequences.                                                              *)

LEMMA LeastNumber ==
  ASSUME NEW T, T \subseteq Nat, T # {}
  PROVE  \E x \in T : \A y \in T : x <= y
<1> DEFINE R == OpToRel(<, Nat)
<1>1. IsWellFoundedOn(R, Nat)
  BY NatLessThanWellFounded
<1>2. \A x, y \in Nat : <<y, x>> \in R <=> y < x
  BY DEF OpToRel
<1> HIDE DEF R
<1>3. PICK x \in T : \A y \in T : ~ (<<y, x>> \in R)
  BY <1>1, WFMin
<1>4. ASSUME NEW y \in T PROVE x <= y
  <2>1. x \in Nat /\ y \in Nat
    OBVIOUS
  <2>2. ~ (<<y, x>> \in R)
    BY <1>3
  <2>3. ~ (y < x)
    BY <1>2, <2>1, <2>2, Zenon
  <2> QED
    BY <2>1, <2>3, SMT
<1> QED
  BY <1>4

LEMMA RangeOf ==
  ASSUME NEW S, NEW s \in Seq(S)
  PROVE  /\ Range(s) = {s[k] : k \in 1 .. Len(s)}
         /\ Range(s) \subseteq S
  BY DEF Range

LEMMA AppendRange ==
  ASSUME NEW S, NEW s \in Seq(S), NEW e \in S
  PROVE  /\ Append(s, e) \in Seq(S)
         /\ Len(Append(s, e)) = Len(s) + 1
         /\ \A k \in 1 .. Len(s) : Append(s, e)[k] = s[k]
         /\ Append(s, e)[Len(s) + 1] = e
         /\ Range(Append(s, e)) = Range(s) \cup {e}
<1>1. /\ Append(s, e) \in Seq(S)
      /\ Len(Append(s, e)) = Len(s) + 1
      /\ \A k \in 1 .. Len(s) : Append(s, e)[k] = s[k]
      /\ Append(s, e)[Len(s) + 1] = e
  BY AppendProperties
<1>2. 1 .. Len(s) + 1 = (1 .. Len(s)) \cup {Len(s) + 1}
  BY LenProperties
<1>3. Range(Append(s, e)) = {Append(s, e)[k] : k \in 1 .. Len(s) + 1}
  BY <1>1, RangeOf
<1>4. Range(s) = {s[k] : k \in 1 .. Len(s)}
  BY RangeOf
<1>5. ASSUME NEW x PROVE x \in Range(Append(s, e)) <=> x \in Range(s) \cup {e}
  BY <1>1, <1>2, <1>3, <1>4
<1> QED
  BY <1>1, <1>5

LEMMA TailRange ==
  ASSUME NEW S, NEW s \in Seq(S), s # <<>>
  PROVE  /\ Tail(s) \in Seq(S) /\ s[1] \in S
         /\ Len(Tail(s)) = Len(s) - 1 /\ Len(s) \in Nat \ {0}
         /\ \A k \in 1 .. Len(s) - 1 : Tail(s)[k] = s[k + 1]
         /\ Range(s) = {s[1]} \cup Range(Tail(s))
<1>1. /\ Tail(s) \in Seq(S) /\ s[1] \in S
      /\ Len(Tail(s)) = Len(s) - 1 /\ Len(s) \in Nat \ {0}
      /\ \A k \in 1 .. Len(s) - 1 : Tail(s)[k] = s[k + 1]
  BY HeadTailProperties, EmptySeq
<1>2. Range(s) = {s[k] : k \in 1 .. Len(s)}
  BY RangeOf
<1>3. Range(Tail(s)) = {Tail(s)[k] : k \in 1 .. Len(s) - 1}
  BY <1>1, RangeOf
<1>4. ASSUME NEW x \in Range(s) PROVE x \in {s[1]} \cup Range(Tail(s))
  <2>1. PICK k \in 1 .. Len(s) : x = s[k]
    BY <1>2
  <2>2. CASE k = 1
    BY <2>1, <2>2
  <2>3. CASE k # 1
    <3>1. k - 1 \in 1 .. Len(s) - 1 /\ Tail(s)[k - 1] = x
      BY <1>1, <2>1, <2>3
    <3> QED
      BY <1>3, <3>1
  <2> QED
    BY <2>2, <2>3
<1>5. ASSUME NEW x \in {s[1]} \cup Range(Tail(s)) PROVE x \in Range(s)
  <2>1. CASE x = s[1]
    BY <1>1, <1>2, <2>1
  <2>2. CASE x \in Range(Tail(s))
    <3>1. PICK k \in 1 .. Len(s) - 1 : x = Tail(s)[k]
      BY <1>3, <2>2
    <3>2. k + 1 \in 1 .. Len(s) /\ s[k + 1] = x
      BY <1>1, <3>1
    <3> QED
      BY <1>2, <3>2
  <2> QED
    BY <2>1, <2>2
<1> QED
  BY <1>1, <1>4, <1>5

LEMMA RemoveFirstRange ==
  ASSUME NEW S, NEW s \in Seq(S), NEW e
  PROVE  /\ RemoveFirst(s, e) \in Seq(S)
         /\ Range(RemoveFirst(s, e)) \subseteq Range(s)
<1>1. CASE ~ \E i \in 1 .. Len(s) : s[i] = e
  BY <1>1 DEF RemoveFirst
<1>2. CASE \E i \in 1 .. Len(s) : s[i] = e
  <2> DEFINE I == {i \in 1 .. Len(s) : s[i] = e}
             n == SelectInSeq(s, LAMBDA v : v = e)
             front == SubSeq(s, 1, n - 1)
             back  == SubSeq(s, n + 1, Len(s))
  <2>1. n \in 1 .. Len(s)
    <3>1. I # {} /\ I \subseteq Nat
      BY <1>2
    <3>2. \E i \in I : \A j \in I : i <= j
      BY <3>1, LeastNumber
    <3>3. n = CHOOSE i \in I : \A j \in I : i <= j
      BY <3>1 DEF SelectInSeq, Min
    <3>4. n \in I
      BY <3>2, <3>3
    <3> QED
      BY <3>4
  <2>2. RemoveFirst(s, e) = front \o back
    BY <1>2 DEF RemoveFirst, RemoveAt
  <2> HIDE DEF n
  <2>3. /\ front \in Seq(S) /\ back \in Seq(S)
        /\ Len(front) = n - 1 /\ Len(back) = Len(s) - n
        /\ \A j \in 1 .. n - 1 : front[j] = s[j]
        /\ \A j \in 1 .. Len(s) - n : back[j] = s[n + j]
    BY <2>1, SubSeqProperties, LenProperties
  <2> HIDE DEF front, back, I
  <2>4. n \in Int /\ Len(s) \in Nat /\ 1 <= n /\ n <= Len(s)
    BY <2>1, LenProperties
  <2>5. front \o back \in Seq(S) /\ Len(front \o back) = Len(s) - 1
    <3>1. front \o back \in Seq(S) /\ Len(front \o back) = Len(front) + Len(back)
      BY <2>3, ConcatProperties
    <3>2. Len(front) + Len(back) = Len(s) - 1
      BY <2>3, <2>4
    <3> QED
      BY <3>1, <3>2
  <2>6. \A j \in 1 .. Len(s) - 1 :
          (front \o back)[j] = IF j <= n - 1 THEN front[j] ELSE back[j - (n - 1)]
    BY <2>3, <2>4, ConcatProperties
  <2>7. Range(s) = {s[k] : k \in 1 .. Len(s)}
    BY RangeOf
  <2>8. ASSUME NEW j \in 1 .. Len(s) - 1 PROVE (front \o back)[j] \in Range(s)
    <3>1. CASE j <= n - 1
      <4>1. (front \o back)[j] = s[j] /\ j \in 1 .. Len(s)
        BY <2>3, <2>4, <2>6, <3>1
      <4> QED
        BY <2>7, <4>1
    <3>2. CASE ~(j <= n - 1)
      <4>1. j - (n - 1) \in 1 .. Len(s) - n /\ n + (j - (n - 1)) = j + 1 /\ j + 1 \in 1 .. Len(s)
        BY <2>4, <3>2
      <4>2. (front \o back)[j] = s[j + 1]
        BY <2>3, <2>6, <3>2, <4>1
      <4> QED
        BY <2>7, <4>1, <4>2
    <3> QED
      BY <3>1, <3>2
  <2>9. Range(front \o back) = {(front \o back)[j] : j \in 1 .. Len(s) - 1}
    BY <2>5, RangeOf
  <2> QED
    BY <2>2, <2>5, <2>8, <2>9
<1> QED
  BY <1>1, <1>2

-----------------------------------------------------------------------------
(* What every step keeps: the shape of the variables.                      *)

\* What the programs of this behaviour call.
CallsOf(s)   == UNION {Range(s.program[t]) : t \in Threads}
ProgramCalls == CallsOf(setup)

RestOK ==
  /\ setup \in Setups
  /\ left \in [Threads -> Seq(ProgramCalls)]
  /\ slots \in Seq(Seq(Subscribers))
  /\ worker \in Seq(Subscribers \X Values)
  /\ outbox \in Seq(Parties \X RemoteIds \X Values)
  /\ published \in Seq(Values)
  /\ since \in [Subscribers -> Nat]

SubsOK ==
  /\ DOMAIN subs = Subscribers
  /\ \A s \in Subscribers :
       /\ DOMAIN subs[s] = {"last", "received", "guard"}
       /\ subs[s].received \in Seq(Values)
       /\ subs[s].guard \in Values \cup {Null}

ChannelOK(c) == /\ DOMAIN c = {"del", "type", "stream"}
                /\ {"class", "func", "error"} \subseteq DOMAIN c.del
                /\ c.del.class = "FunctionRemote"

PartyOK(q) ==
  /\ DOMAIN q = DOMAIN NewParty
  /\ q.m_topicToRemoteId \in RemoteIds \cup {Null}
  /\ DOMAIN q.m_channels \subseteq RemoteIds
  /\ \A id \in DOMAIN q.m_channels : ChannelOK(q.m_channels[id])

BusShape(b) ==
  /\ DOMAIN b = DOMAIN NewBus
  /\ b.m_signals \in Nat
  /\ b.m_lastValues = Null \/ b.m_lastValues.value \in Values
  /\ b.m_participants \in Seq(Parties)
  /\ DOMAIN b.party = Parties
  /\ \A p \in Parties : PartyOK(b.party[p])

Publisher == {"publish", "monitor", "local", "slots", "remote"}

ThreadOK(r) ==
  /\ DOMAIN r = DOMAIN Idle
  /\ r.signal \in Nat
  /\ r.todo \in Seq(Subscribers)
  /\ r.parties \in Seq(Parties)
  /\ r.i \in Nat \ {0}
  /\ r.at \in {"connect", "cache", "deliver"} => r.s \in Subscribers
  /\ r.at \in Publisher \cup {"invoke"} => r.v \in Values
  /\ r.at \in {"attach", "invoke"} => r.party \in Parties
  /\ r.at = "connect" => r.signal # 0
  /\ r.at = "deliver" => r.cached \in Values \cup {Null}
  /\ r.at = "slots" => r.todo # <<>>

\* Where a thread is in its call, the bus and the Signals have what it needs.
Fits(b, g, r) ==
  /\ ThreadOK(r)
  /\ r.signal <= Len(g)
  /\ r.at = "invoke" => r.id \in DOMAIN b.party[r.party].m_channels

Shape ==
  /\ RestOK /\ SubsOK
  /\ BusShape(bus) /\ bus.m_signals <= Len(slots)
  /\ DOMAIN th = Threads /\ \A t \in Threads : Fits(bus, slots, th[t])
  /\ \A x \in Range(outbox) : x[2] \in DOMAIN bus.party[x[1]].m_channels

-----------------------------------------------------------------------------
(* The inductive invariants.                                               *)

\* A publisher walks its snapshot of the participants from the beginning.
PeersOK(b, r) ==
  /\ r.at \in {"publish", "monitor", "local", "slots"} => r.i = 1
  /\ r.at \in {"monitor", "local", "slots", "remote"}
       => \A p \in r.through : p \in Range(r.parties) /\ b.party[p].m_topicToRemoteId # Null
  /\ r.at = "remote"
       => \A k \in 1 .. Len(r.parties) :
            k < r.i /\ r.parties[k] \in r.through => r.parties[k] \in r.reached

PeersInv == \A t \in Threads : PeersOK(bus, th[t])

\* No number is half a turn ahead of another.
Close == \A v, w \in Values : v - w < Width \div 2

\* The guard is the greatest number that came.
GuardInv == Close =>
  \A s \in Subscribers : \A v \in Range(subs[s].received) :
    subs[s].guard # Null /\ subs[s].guard >= v

Keeps(s) == /\ setup.qos[s].lastValueCache /\ setup.qos[s].lifespan = Null
            /\ setup.qos[s].minSeparation = Null /\ setup.qos[s].filter = Values

\* The subscriber got the value, or its thread will.
Has(s, v) == v \in Range(subs[s].received) \/ <<s, v>> \in Range(worker)

\* A publisher is going to call the subscriber, if it is on the Signal.
Brings(r, g, s, v) == /\ r.v = v /\ r.signal = g
                      /\ \/ r.at \in {"monitor", "local"}
                         \/ r.at = "slots" /\ s \in Range(r.todo)
Coming(s, v) == \E t \in Threads : Brings(th[t], bus.m_signals, s, v)

\* The subscriber is going to read the cache, or has read the value there.
Reads(r, s, v) == /\ r.s = s
                  /\ r.at = "cache" \/ (r.at = "deliver" /\ r.cached = v)
Caching(s, v)  == \E t \in Threads : Reads(th[t], s, v)

FollowInv ==
  \A s \in Subscribers :
    Keeps(s) /\ bus.m_signals # 0 /\ s \in Range(slots[bus.m_signals]) =>
      /\ \A k \in 1 .. Len(published) :
           k > since[s] => Has(s, published[k]) \/ Coming(s, published[k])
      /\ bus.m_lastValues # Null =>
           LET v == bus.m_lastValues.value IN Has(s, v) \/ Coming(s, v) \/ Caching(s, v)

\* What the programs send, what they receive, and what they do with it.
Funcs    == {c.func : c \in {d \in ProgramCalls : d.op = "handler"}}
Received == {c.v : c \in {d \in ProgramCalls : d.op = "incoming"}}
Made     == {c.v : c \in {d \in ProgramCalls : d.op \in {"publish", "publishLocal", "own"}}}

\* A process with an incoming topic relays nothing, and what it publishes is its own.
IncomingOnly ==
  \A s \in Setups :
    (\E c \in CallsOf(s) : c.op = "handler" /\ c.func = "incoming") =>
      \A c \in CallsOf(s) :
        /\ c.op = "handler" => c.func = "incoming"
        /\ c.op \in {"publish", "publishLocal", "own"} =>
             \A d \in CallsOf(s) : d.op = "incoming" => d.v # c.v

EchoOK(r) ==
  /\ r.at = "invoke" => r.v \in Received
  /\ Funcs = {"incoming"} /\ r.at \in Publisher /\ ~r.localOnly => r.v \in Made

EchoData ==
  /\ "incoming" \notin Funcs => arrived = {}
  /\ arrived \subseteq Received
  /\ Funcs = {"incoming"} => /\ \A x \in sent : x[2] \in Made
                             /\ \A x \in Range(outbox) : x[3] \in Made

EchoInv ==
  /\ \A p \in Parties : \A id \in DOMAIN bus.party[p].m_channels :
       bus.party[p].m_channels[id].del.func \in Funcs \cup {Null}
  /\ EchoData
  /\ \A t \in Threads : EchoOK(th[t])

Inv == Shape /\ PeersInv /\ GuardInv /\ FollowInv /\ EchoInv
-----------------------------------------------------------------------------
(* What the operations on the bus leave alone.                             *)

\* No channel goes away or gets another handler, and a new one has none.
ChannelsKept(m, n) ==
  /\ \A id \in DOMAIN m : id \in DOMAIN n /\ n[id].del.func = m[id].del.func
  /\ \A id \in DOMAIN n : id \in DOMAIN m \/ n[id].del.func = Null

PartyKept(q, r) == /\ r.m_topicToRemoteId = q.m_topicToRemoteId
                   /\ ChannelsKept(q.m_channels, r.m_channels)

\* A change of the bus that only errors, new channels and the state of channels show.
Calm(b, c) ==
  /\ BusShape(c)
  /\ c.m_signals = b.m_signals /\ c.m_lastValues = b.m_lastValues
  /\ c.m_participants = b.m_participants
  /\ \A p \in Parties : PartyKept(b.party[p], c.party[p])

LEMMA CalmRefl == ASSUME NEW b, BusShape(b) PROVE Calm(b, b)
  BY DEF Calm, PartyKept, ChannelsKept

LEMMA CalmTrans ==
  ASSUME NEW a, NEW b, NEW c, Calm(a, b), Calm(b, c) PROVE Calm(a, c)
<1>1. ASSUME NEW p \in Parties PROVE PartyKept(a.party[p], c.party[p])
  BY DEF Calm, PartyKept, ChannelsKept
<1> QED
  BY <1>1 DEF Calm

LEMMA NewBusFields ==
  DOMAIN NewBus = {"m_typeIndices", "m_signals", "m_topicQos", "m_lastValues", "m_serializers",
                   "m_stringifiers", "m_monitorSignal", "m_participants", "m_reportedErrors",
                   "m_continuousErrors", "party"}
  BY DEF NewBus

LEMMA NewPartyFields ==
  DOMAIN NewParty = {"m_topicToRemoteId", "m_channels", "m_history", "m_reportedErrors",
                     "m_continuousErrors", "connected"}
  BY DEF NewParty

LEMMA LatchCalm ==
  ASSUME NEW b, BusShape(b), NEW topic, NEW error
  PROVE  Calm(b, InternalReportLatchedError(b, topic, error))
  BY NewBusFields DEF Calm, BusShape, PartyKept, ChannelsKept, InternalReportLatchedError

\* One participant is changed.
LEMMA PartyCalm ==
  ASSUME NEW b, BusShape(b), NEW p \in Parties, NEW q, PartyOK(q), PartyKept(b.party[p], q)
  PROVE  Calm(b, [b EXCEPT !.party[p] = q])
<1> DEFINE c == [b EXCEPT !.party[p] = q]
<1>1. /\ DOMAIN c = DOMAIN b
      /\ c.party = [b.party EXCEPT ![p] = q]
      /\ c.m_signals = b.m_signals /\ c.m_lastValues = b.m_lastValues
      /\ c.m_participants = b.m_participants
  BY NewBusFields DEF BusShape
<1> HIDE DEF c
<1>2. /\ DOMAIN c.party = Parties /\ c.party[p] = q
      /\ \A r \in Parties : r # p => c.party[r] = b.party[r]
  BY <1>1 DEF BusShape
<1>3. ASSUME NEW r \in Parties PROVE PartyOK(c.party[r]) /\ PartyKept(b.party[r], c.party[r])
  <2>1. CASE r = p
    BY <1>2, <2>1
  <2>2. CASE r # p
    BY <1>2, <2>2 DEF BusShape, PartyKept, ChannelsKept
  <2> QED
    BY <2>1, <2>2
<1> QED
  BY <1>1, <1>2, <1>3 DEF Calm, BusShape, c

LEMMA OnChannelErrorCalm ==
  ASSUME NEW b, BusShape(b), NEW p \in Parties, NEW id, NEW error
  PROVE  Calm(b, OnChannelError(b, p, id, error))
<1> DEFINE q     == b.party[p]
           topic == IF q.m_topicToRemoteId = id THEN "topic" ELSE "unknown"
           r     == [q EXCEPT !.m_reportedErrors = @ \cup {<<topic, error>>}]
           told  == [b EXCEPT !.party[p] = r]
<1>1. PartyOK(q)
  BY DEF BusShape
<1>2. PartyOK(r) /\ PartyKept(q, r)
  <2> HIDE DEF q, topic
  <2> QED
    BY <1>1, NewPartyFields DEF PartyOK, PartyKept, ChannelsKept
<1>3. Calm(b, told)
  <2> HIDE DEF r
  <2> QED
    BY <1>2, PartyCalm
<1>4. told = [b EXCEPT !.party[p].m_reportedErrors = @ \cup {<<topic, error>>}]
  BY NewBusFields DEF BusShape
<1>5. \/ OnChannelError(b, p, id, error) = b
      \/ OnChannelError(b, p, id, error) = told
      \/ OnChannelError(b, p, id, error) = InternalReportLatchedError(told, topic, error)
  <2> HIDE DEF told
  <2> QED
    BY <1>4 DEF OnChannelError
<1> HIDE DEF told, topic
<1>6. Calm(told, InternalReportLatchedError(told, topic, error))
  BY <1>3, LatchCalm DEF Calm
<1>7. Calm(b, InternalReportLatchedError(told, topic, error))
  BY <1>3, <1>6, CalmTrans
<1> QED
  BY <1>3, <1>5, <1>7, CalmRefl

LEMMA NewChannelOK ==
  ASSUME NEW id, NEW type
  PROVE  ChannelOK(NewChannel(id, type)) /\ NewChannel(id, type).del.func = Null
<1>1. RemoteDelegate("FunctionRemote", Null, Null, id).class = "FunctionRemote"
  BY DEF RemoteDelegate
<1> QED
  BY <1>1 DEF ChannelOK, NewChannel, Wired, RemoteDelegate

LEMMA GetOrCreateCalm ==
  ASSUME NEW b, BusShape(b), NEW p \in Parties, NEW id \in RemoteIds, NEW type
  PROVE  /\ Calm(b, GetOrCreateChannelLocked(b, p, id, type))
         /\ id \in DOMAIN GetOrCreateChannelLocked(b, p, id, type).party[p].m_channels
<1>1. CASE HasChannel(b, p, id)
  BY <1>1, CalmRefl DEF GetOrCreateChannelLocked, HasChannel
<1>2. CASE ~HasChannel(b, p, id)
  <2> DEFINE q == b.party[p]
             m == [k \in DOMAIN q.m_channels \cup {id} |->
                    IF k = id THEN NewChannel(id, type) ELSE q.m_channels[k]]
             r == [q EXCEPT !.m_channels = m]
             c == [b EXCEPT !.party[p] = r]
  <2>1. PartyOK(q) /\ id \notin DOMAIN q.m_channels
    BY <1>2 DEF BusShape, HasChannel
  <2> HIDE DEF q
  <2>2. /\ DOMAIN m = DOMAIN q.m_channels \cup {id}
        /\ m[id] = NewChannel(id, type)
        /\ \A k \in DOMAIN q.m_channels : m[k] = q.m_channels[k]
    <3> HIDE DEF NewChannel
    <3> QED
      BY <2>1
  <2>3. ChannelOK(m[id]) /\ m[id].del.func = Null
    BY <2>2, NewChannelOK
  <2> HIDE DEF m
  <2>4. /\ DOMAIN r = DOMAIN q /\ r.m_channels = m
        /\ r.m_topicToRemoteId = q.m_topicToRemoteId
    BY <2>1, NewPartyFields DEF PartyOK
  <2> HIDE DEF r
  <2>5. PartyOK(r)
    BY <2>1, <2>2, <2>3, <2>4 DEF PartyOK
  <2>6. PartyKept(q, r)
    BY <2>1, <2>2, <2>3, <2>4 DEF PartyKept, ChannelsKept
  <2>7. Calm(b, c)
    BY <2>5, <2>6, PartyCalm DEF q
  <2>8. c = GetOrCreateChannelLocked(b, p, id, type)
    BY <1>2, NewBusFields DEF GetOrCreateChannelLocked, BusShape, q, r, m
  <2>9. c.party[p] = r
    BY NewBusFields DEF BusShape
  <2> QED
    BY <2>2, <2>4, <2>7, <2>8, <2>9
<1> QED
  BY <1>1, <1>2

\* A send or an error of a channel.
LEMMA ChannelCalm ==
  ASSUME NEW b, BusShape(b), NEW p \in Parties, NEW id \in DOMAIN b.party[p].m_channels,
         NEW stream, NEW error
  PROVE  /\ Calm(b, [b EXCEPT !.party[p].m_channels[id].stream = stream,
                              !.party[p].m_channels[id].del = RaiseError(@, error)])
         /\ Calm(b, [b EXCEPT !.party[p].m_channels[id].del = RaiseError(@, error)])
<1> DEFINE q == b.party[p]
           c == q.m_channels[id]
           d == [c EXCEPT !.stream = stream, !.del = RaiseError(@, error)]
           e == [c EXCEPT !.del = RaiseError(@, error)]
           With(x) == [q EXCEPT !.m_channels = [@ EXCEPT ![id] = x]]
<1>1. PartyOK(q) /\ ChannelOK(c) /\ id \in DOMAIN q.m_channels
  BY DEF BusShape, PartyOK
<1>2. /\ ChannelOK(d) /\ d.del.func = c.del.func
      /\ ChannelOK(e) /\ e.del.func = c.del.func
  <2> HIDE DEF c
  <2> QED
    BY <1>1 DEF ChannelOK, RaiseError
<1>3. ASSUME NEW x, ChannelOK(x), x.del.func = c.del.func
      PROVE  Calm(b, [b EXCEPT !.party[p] = With(x)])
  <2>1. /\ DOMAIN With(x) = DOMAIN q /\ With(x).m_topicToRemoteId = q.m_topicToRemoteId
        /\ With(x).m_channels = [q.m_channels EXCEPT ![id] = x]
    <3> HIDE DEF q
    <3> QED
      BY <1>1, NewPartyFields DEF PartyOK
  <2> HIDE DEF With
  <2>2. PartyOK(With(x)) /\ PartyKept(q, With(x))
    <3> HIDE DEF q
    <3> QED
      BY <1>1, <1>3, <2>1 DEF PartyOK, PartyKept, ChannelsKept, c
  <2> QED
    BY <2>2, PartyCalm
<1>4. Calm(b, [b EXCEPT !.party[p] = With(d)]) /\ Calm(b, [b EXCEPT !.party[p] = With(e)])
  <2> HIDE DEF d, e, c, With
  <2> QED
    BY <1>2, <1>3
<1>5. /\ [b EXCEPT !.party[p] = With(d)]
           = [b EXCEPT !.party[p].m_channels[id].stream = stream,
                       !.party[p].m_channels[id].del = RaiseError(@, error)]
      /\ [b EXCEPT !.party[p] = With(e)]
           = [b EXCEPT !.party[p].m_channels[id].del = RaiseError(@, error)]
  BY <1>1, NewBusFields, NewPartyFields DEF BusShape, PartyOK, ChannelOK
<1> QED
  BY <1>4, <1>5

-----------------------------------------------------------------------------
(* The steps.                                                              *)

LEMMA IdleFields ==
  DOMAIN Idle = {"at", "s", "v", "type", "localOnly", "ts", "signal", "todo", "i", "parties",
                 "serializer", "interested", "cached", "party", "id", "through", "reached"}
  BY DEF Idle

LEMMA IdleOK == ThreadOK(Idle)
<1>1. <<>> \in Seq(Subscribers) /\ <<>> \in Seq(Parties)
  BY EmptySeq
<1> QED
  BY <1>1 DEF ThreadOK, Idle, Publisher

LEMMA NewBusOK == BusShape(NewBus)
<1>1. <<>> \in Seq(Parties)
  BY EmptySeq
<1>2. PartyOK(NewParty)
  BY DEF PartyOK, NewParty
<1> QED
  BY <1>1, <1>2 DEF BusShape, NewBus

LEMMA InitShape == Init => Shape
<1> SUFFICES ASSUME Init PROVE Shape
  OBVIOUS
<1>1. left \in [Threads -> Seq(ProgramCalls)]
  <2>1. setup \in Setups /\ left = setup.program
    BY DEF Init
  <2>2. setup.program \in [Threads -> Seq(Calls)]
    BY <2>1, ProgramsAssumption
  <2>3. ASSUME NEW t \in Threads PROVE setup.program[t] \in Seq(ProgramCalls)
    <3>1. setup.program[t] \in Seq(Calls)
      BY <2>2
    <3>2. setup.program[t] \in Seq(Range(setup.program[t]))
      BY <3>1, SeqOfRange DEF Range
    <3>3. Range(setup.program[t]) \subseteq ProgramCalls
      BY DEF ProgramCalls, CallsOf
    <3> QED
      BY <3>2, <3>3, SeqMonotonic
  <2> QED
    BY <2>1, <2>2, <2>3
<1>2. /\ <<>> \in Seq(Seq(Subscribers)) /\ <<>> \in Seq(Subscribers \X Values)
      /\ <<>> \in Seq(Parties \X RemoteIds \X Values) /\ <<>> \in Seq(Values)
      /\ Len(<<>>) = 0
  BY EmptySeq
<1>3. RestOK
  BY <1>1, <1>2 DEF Init, RestOK
<1>4. SubsOK
  BY <1>2 DEF Init, SubsOK
<1>5. BusShape(bus) /\ bus.m_signals <= Len(slots)
  BY <1>2, NewBusOK DEF Init, NewBus
<1>6. \A t \in Threads : th[t] = Idle /\ Idle.signal = 0 /\ Idle.at = "idle"
  BY DEF Init, Idle
<1>7. DOMAIN th = Threads /\ slots = <<>>
  BY DEF Init
<1>8. Range(outbox) = {}
  BY DEF Init, Range
<1> QED
  BY <1>2, <1>3, <1>4, <1>5, <1>6, <1>7, <1>8, IdleOK DEF Shape, Fits

\* What a call starts with.
LEMMA Starting ==
  ASSUME Shape, NEW t \in Threads, NEW op, Starts(t, op)
  PROVE  /\ Op(t) \in ProgramCalls /\ Op(t) \in Calls /\ Op(t).op = op
         /\ th[t].at = "idle"
         /\ left' \in [Threads -> Seq(ProgramCalls)]
<1>1. left[t] \in Seq(ProgramCalls) /\ left[t] # <<>> /\ left' = [left EXCEPT ![t] = Tail(@)]
  BY DEF Shape, RestOK, Starts
<1>2. left[t][1] \in ProgramCalls /\ Tail(left[t]) \in Seq(ProgramCalls)
  BY <1>1, TailRange
<1>3. left[t][1] \in Calls
  BY <1>2 DEF ProgramCalls, CallsOf, Calls, Shape, RestOK
<1>4. left' \in [Threads -> Seq(ProgramCalls)]
  BY <1>1, <1>2 DEF Shape, RestOK
<1> QED
  BY <1>2, <1>3, <1>4 DEF Starts, Op

\* The parties and their channels in every step.
PartiesOrdered(b, c) ==
  \A p \in Parties :
    /\ b.party[p].m_topicToRemoteId # Null => c.party[p].m_topicToRemoteId # Null
    /\ DOMAIN b.party[p].m_channels \subseteq DOMAIN c.party[p].m_channels
    /\ \A id \in DOMAIN c.party[p].m_channels :
         \/ /\ id \in DOMAIN b.party[p].m_channels
            /\ c.party[p].m_channels[id].del.func = b.party[p].m_channels[id].del.func
         \/ c.party[p].m_channels[id].del.func \in Funcs \cup {Null}

\* The Signal and the cache in most steps.
SignalsOrdered(b, c) == \/ c.m_signals = b.m_signals /\ c.m_lastValues = b.m_lastValues
                        \/ c.m_signals = 0

BusOrdered == BusShape(bus') /\ PartiesOrdered(bus, bus') /\ SignalsOrdered(bus, bus')

LEMMA CalmOrdered ==
  ASSUME NEW b, NEW c, Calm(b, c)
  PROVE  BusShape(c) /\ PartiesOrdered(b, c) /\ SignalsOrdered(b, c)
  BY DEF Calm, PartiesOrdered, PartyKept, ChannelsKept, SignalsOrdered

\* What most steps do: nothing to the subscribers and their Signal.
Quietly ==
  /\ BusOrdered
  /\ left' \in [Threads -> Seq(ProgramCalls)]
  /\ UNCHANGED <<setup, slots, worker, subs, published, since>>
  /\ outbox' \in Seq(Parties \X RemoteIds \X Values)
  /\ \A x \in Range(outbox') \ Range(outbox) : x[2] \in DOMAIN bus'.party[x[1]].m_channels
  /\ EchoData => EchoData'

\* The bus alone changes.
BusStep ==
  /\ BusOrdered
  /\ left' \in [Threads -> Seq(ProgramCalls)]
  /\ UNCHANGED <<setup, th, slots, devices, ghosts>>

LEMMA SameCalls == ASSUME setup' = setup PROVE ProgramCalls' = ProgramCalls
  BY DEF ProgramCalls, CallsOf

LEMMA SameRest ==
  ASSUME Shape, UNCHANGED <<setup, slots, worker, subs, published, since>>,
         left' \in [Threads -> Seq(ProgramCalls)],
         outbox' \in Seq(Parties \X RemoteIds \X Values)
  PROVE  RestOK' /\ SubsOK'
<1>1. RestOK'
  BY SameCalls DEF Shape, RestOK
<1>2. SubsOK'
  BY DEF Shape, SubsOK
<1> QED
  BY <1>1, <1>2

LEMMA ShapeStep ==
  ASSUME Shape, RestOK', SubsOK', BusShape(bus'), bus'.m_signals <= Len(slots'),
         Len(slots) <= Len(slots'), PartiesOrdered(bus, bus'), DOMAIN th' = Threads,
         \A t \in Threads : th'[t] = th[t] \/ Fits(bus', slots', th'[t]),
         \A x \in Range(outbox') \ Range(outbox) : x[2] \in DOMAIN bus'.party[x[1]].m_channels
  PROVE  Shape'
<1>1. Len(slots) \in Nat /\ Len(slots') \in Nat
  BY LenProperties DEF Shape, RestOK
<1>2. ASSUME NEW t \in Threads PROVE Fits(bus', slots', th'[t])
  <2>1. CASE th'[t] = th[t]
    <3>1. ThreadOK(th[t]) /\ th[t].signal <= Len(slots) /\ th[t].signal \in Nat
      BY DEF Shape, Fits, ThreadOK
    <3>2. th[t].at = "invoke" => /\ th[t].party \in Parties
                                 /\ th[t].id \in DOMAIN bus.party[th[t].party].m_channels
      BY DEF Shape, Fits, ThreadOK
    <3> QED
      BY <1>1, <2>1, <3>1, <3>2 DEF Fits, PartiesOrdered
  <2> QED
    BY <2>1
<1>3. ASSUME NEW x \in Range(outbox') PROVE x[2] \in DOMAIN bus'.party[x[1]].m_channels
  <2>1. CASE x \in Range(outbox)
    <3>1. x \in Parties \X RemoteIds \X Values
      BY <2>1, RangeOf DEF Shape, RestOK
    <3>2. x[1] \in Parties
      BY <3>1
    <3> QED
      BY <2>1, <3>2 DEF Shape, PartiesOrdered
  <2> QED
    BY <2>1
<1>4. BusShape(bus)' /\ \A t \in Threads : Fits(bus, slots, th[t])'
  BY <1>2 DEF BusShape, Fits, ThreadOK
<1>5. \A x \in Range(outbox)' : x[2] \in DOMAIN bus'.party[x[1]].m_channels
  BY <1>3 DEF Range
<1> QED
  BY <1>4, <1>5 DEF Shape

\* A Signal that nobody replaced is still there.
LEMMA SignalsStay ==
  ASSUME Shape, SignalsOrdered(bus, bus'), Len(slots) <= Len(slots'), slots' \in Seq(Seq(Subscribers))
  PROVE  bus'.m_signals <= Len(slots')
<1>1. Len(slots) \in Nat /\ Len(slots') \in Nat /\ bus.m_signals \in Nat
  BY LenProperties DEF Shape, RestOK, BusShape
<1> QED
  BY <1>1 DEF SignalsOrdered, Shape

LEMMA PeersStep ==
  ASSUME Shape, PeersInv, PartiesOrdered(bus, bus'),
         \A t \in Threads : th'[t] = th[t] \/ PeersOK(bus', th'[t])
  PROVE  PeersInv'
<1>1. ASSUME NEW t \in Threads PROVE PeersOK(bus', th'[t])
  <2>1. CASE th'[t] = th[t]
    <3>1. th[t].parties \in Seq(Parties)
      BY DEF Shape, Fits, ThreadOK
    <3>2. Range(th[t].parties) \subseteq Parties
      BY <3>1, RangeOf
    <3> QED
      BY <2>1, <3>2 DEF PeersInv, PeersOK, PartiesOrdered
  <2> QED
    BY <2>1
<1> QED
  BY <1>1 DEF PeersInv, PeersOK

LEMMA EchoStep ==
  ASSUME Shape, EchoInv, setup' = setup, PartiesOrdered(bus, bus'), DOMAIN bus'.party = Parties,
         EchoData',
         \A t \in Threads : th'[t] = th[t] \/ EchoOK(th'[t])
  PROVE  EchoInv'
<1>1. Funcs' = Funcs /\ Received' = Received /\ Made' = Made
  BY SameCalls DEF Funcs, Received, Made
<1>2. ASSUME NEW p \in Parties, NEW id \in DOMAIN bus'.party[p].m_channels
      PROVE  bus'.party[p].m_channels[id].del.func \in Funcs \cup {Null}
  BY DEF EchoInv, PartiesOrdered
<1>3. \A t \in Threads : EchoOK(th'[t])
  BY DEF EchoInv
<1>4. \A t \in Threads : EchoOK(th[t])'
  BY <1>1, <1>3 DEF EchoOK
<1> QED
  BY <1>1, <1>2, <1>4 DEF EchoInv

LEMMA SameEcho ==
  ASSUME EchoInv, UNCHANGED <<setup, arrived, sent, outbox>> PROVE EchoData'
<1>1. Funcs' = Funcs /\ Received' = Received /\ Made' = Made
  BY SameCalls DEF Funcs, Received, Made
<1> QED
  BY <1>1 DEF EchoInv, EchoData

\* What was on its way to a subscriber still is, or is there.
LEMMA FollowStep ==
  ASSUME Shape, Shape', FollowInv, UNCHANGED <<setup, published, since>>,
         SignalsOrdered(bus, bus'),
         \A g \in 1 .. Len(slots) : Range(slots'[g]) \subseteq Range(slots[g]),
         \A s \in Subscribers, v \in Values : Keeps(s) /\ Has(s, v) => Has(s, v)',
         \A s \in Subscribers, v \in Values, t \in Threads :
           Keeps(s) /\ bus.m_signals # 0 /\ s \in Range(slots[bus.m_signals]) =>
             /\ Brings(th[t], bus.m_signals, s, v)
                  => Has(s, v)' \/ Brings(th'[t], bus.m_signals, s, v)
             /\ Reads(th[t], s, v) /\ bus.m_lastValues # Null /\ v = bus.m_lastValues.value
                  => Has(s, v)' \/ Reads(th'[t], s, v)
  PROVE  FollowInv'
<1> DEFINE Goes(s, v) == Has(s, v) \/ Coming(s, v)
<1>1. ASSUME NEW s \in Subscribers, Keeps(s)', bus'.m_signals # 0,
             s \in Range(slots'[bus'.m_signals])
      PROVE  /\ \A k \in 1 .. Len(published) : k > since[s] => Goes(s, published[k])'
             /\ bus'.m_lastValues # Null =>
                  \A v : v = bus'.m_lastValues.value => Goes(s, v)' \/ Caching(s, v)'
  <2>1. Keeps(s)
    BY <1>1 DEF Keeps
  <2>2. bus'.m_signals = bus.m_signals /\ bus'.m_lastValues = bus.m_lastValues
    BY <1>1 DEF SignalsOrdered
  <2>3. bus.m_signals \in 1 .. Len(slots)
    <3>1. bus.m_signals \in Nat /\ Len(slots) \in Nat /\ bus.m_signals <= Len(slots)
      BY LenProperties DEF Shape, RestOK, BusShape
    <3> QED
      BY <1>1, <2>2, <3>1
  <2>4. s \in Range(slots[bus.m_signals]) /\ bus.m_signals # 0
    BY <1>1, <2>2, <2>3
  <2>5. ASSUME NEW v \in Values, Goes(s, v) PROVE Goes(s, v)'
    <3>1. CASE Has(s, v)
      BY <2>1, <3>1
    <3>2. CASE Coming(s, v)
      <4>1. PICK t \in Threads : Brings(th[t], bus.m_signals, s, v)
        BY <3>2 DEF Coming
      <4>2. CASE Has(s, v)'
        BY <4>2
      <4>3. CASE Brings(th'[t], bus'.m_signals, s, v)
        BY <4>3 DEF Coming, Brings, Range
      <4> QED
        BY <2>1, <2>2, <2>4, <4>1, <4>2, <4>3
    <3> QED
      BY <2>5, <3>1, <3>2
  <2>6. ASSUME NEW k \in 1 .. Len(published), k > since[s] PROVE Goes(s, published[k])'
    <3>1. published[k] \in Values /\ published' = published
      BY ElementOfSeq DEF Shape, RestOK
    <3>2. Goes(s, published[k])
      BY <2>1, <2>4, <2>6 DEF FollowInv
    <3>3. PICK v \in Values : v = published[k]
      BY <3>1
    <3>4. Goes(s, v)'
      BY <2>5, <3>2, <3>3
    <3> QED
      BY <3>1, <3>3, <3>4
  <2>7. ASSUME bus'.m_lastValues # Null, NEW v, v = bus'.m_lastValues.value
        PROVE  Goes(s, v)' \/ Caching(s, v)'
    <3>1. v \in Values
      BY <2>2, <2>7 DEF Shape, BusShape
    <3>2. Has(s, v) \/ Coming(s, v) \/ Caching(s, v)
      BY <2>1, <2>2, <2>4, <2>7 DEF FollowInv
    <3>3. CASE Caching(s, v)
      <4>1. PICK t \in Threads : Reads(th[t], s, v)
        BY <3>3 DEF Caching
      <4>2. Has(s, v)' \/ Reads(th'[t], s, v)
        BY <2>1, <2>2, <2>4, <2>7, <3>1, <4>1
      <4>3. CASE Reads(th'[t], s, v)
        BY <4>3 DEF Caching, Reads
      <4> QED
        BY <4>2, <4>3
    <3> QED
      BY <2>5, <3>1, <3>2, <3>3
  <2> QED
    BY <2>6, <2>7
<1>2. published' = published /\ since' = since
  OBVIOUS
<1>3. ASSUME NEW s \in Subscribers, Keeps(s)', bus'.m_signals # 0,
             (s \in Range(slots[bus.m_signals]))'
      PROVE  /\ (\A k \in 1 .. Len(published) : k > since[s] => Goes(s, published[k]))'
             /\ (bus.m_lastValues # Null =>
                   LET v == bus.m_lastValues.value IN Goes(s, v) \/ Caching(s, v))'
  <2>1. s \in Range(slots'[bus'.m_signals])
    BY <1>3 DEF Range
  <2>2. bus'.m_lastValues # Null =>
          \A v : v = bus'.m_lastValues.value => Goes(s, v)' \/ Caching(s, v)'
    BY <1>1, <1>3, <2>1
  <2>3. \A k \in 1 .. Len(published) : k > since[s] => Goes(s, published[k])'
    BY <1>1, <1>3, <2>1
  <2>4. (bus.m_lastValues # Null =>
           LET v == bus.m_lastValues.value IN Goes(s, v) \/ Caching(s, v))'
    BY <2>2 DEF Has, Coming, Caching, Brings, Reads, Range
  <2>5. (\A k \in 1 .. Len(published) : k > since[s] => Goes(s, published[k]))'
    BY <1>2, <2>3 DEF Has, Coming, Brings, Range
  <2> QED
    BY <2>4, <2>5
<1> QED
  BY <1>3 DEF FollowInv

\* The subscribers have what they had.
LEMMA SameSubs ==
  ASSUME UNCHANGED <<setup, subs>>, GuardInv PROVE GuardInv'
  BY DEF GuardInv, Range

LEMMA SameHas ==
  ASSUME UNCHANGED <<subs, worker>>
  PROVE  \A s, v : Has(s, v)' <=> Has(s, v)
  BY DEF Has, Range

\* Where a thread is that calls no subscriber and reads no cache.
Still == {"idle", "attach", "connect", "publish", "remote", "invoke"}

LEMMA QuietInv ==
  ASSUME Inv, Quietly, DOMAIN th' = Threads,
         \A t \in Threads :
           \/ th'[t] = th[t]
           \/ /\ th[t].at \in Still
              /\ Fits(bus', slots', th'[t]) /\ PeersOK(bus', th'[t]) /\ EchoOK(th'[t])
  PROVE  Inv'
<1>1. /\ Shape /\ PeersInv /\ GuardInv /\ FollowInv /\ EchoInv
      /\ BusShape(bus') /\ PartiesOrdered(bus, bus') /\ SignalsOrdered(bus, bus')
      /\ UNCHANGED <<setup, slots, worker, subs, published, since>>
  BY DEF Inv, Quietly, BusOrdered
<1>2. /\ slots' \in Seq(Seq(Subscribers)) /\ Len(slots) <= Len(slots')
      /\ DOMAIN bus'.party = Parties
  BY <1>1, LenProperties DEF Shape, RestOK, BusShape
<1>3. Shape'
  <2>1. RestOK' /\ SubsOK'
    BY <1>1, SameRest DEF Quietly
  <2>2. bus'.m_signals <= Len(slots')
    BY <1>1, <1>2, SignalsStay
  <2> QED
    BY <1>1, <1>2, <2>1, <2>2, ShapeStep DEF Quietly
<1>4. PeersInv'
  BY <1>1, PeersStep
<1>5. EchoInv'
  <2>1. EchoData'
    BY <1>1 DEF EchoInv, Quietly
  <2> QED
    BY <1>1, <1>2, <2>1, EchoStep
<1>6. FollowInv'
  <2>1. \A s, v : Has(s, v)' <=> Has(s, v)
    BY <1>1, SameHas
  <2>2. ASSUME NEW s, NEW v, NEW t \in Threads
        PROVE  /\ Brings(th[t], bus.m_signals, s, v) => Brings(th'[t], bus.m_signals, s, v)
               /\ Reads(th[t], s, v) => Reads(th'[t], s, v)
    BY DEF Still, Brings, Reads
  <2> QED
    BY <1>1, <1>3, <2>1, <2>2, FollowStep
<1>7. GuardInv'
  BY <1>1, SameSubs
<1> QED
  BY <1>3, <1>4, <1>5, <1>6, <1>7 DEF Inv

LEMMA BusStepInv ==
  ASSUME Inv, BusStep PROVE Inv'
<1>1. /\ BusOrdered /\ left' \in [Threads -> Seq(ProgramCalls)]
      /\ UNCHANGED <<setup, th, slots, worker, subs, published, since, outbox, arrived, sent>>
  BY DEF BusStep, devices, ghosts
<1>2. /\ outbox \in Seq(Parties \X RemoteIds \X Values) /\ DOMAIN th = Threads /\ EchoInv
  BY DEF Inv, Shape, RestOK
<1>3. EchoData'
  BY <1>1, <1>2, SameEcho
<1>4. Quietly
  BY <1>1, <1>2, <1>3 DEF Quietly
<1> QED
  BY <1>1, <1>2, <1>4, QuietInv

\* One thread changes, and the bus.
LEMMA StillInv ==
  ASSUME Inv, NEW t \in Threads, NEW r, th' = [th EXCEPT ![t] = r], th[t].at \in Still,
         left' \in [Threads -> Seq(ProgramCalls)], BusOrdered,
         UNCHANGED <<setup, slots, worker, subs, published, since, outbox>>, EchoData',
         Fits(bus', slots, r), PeersOK(bus', r), EchoOK(r)
  PROVE  Inv'
<1>1. Shape
  BY DEF Inv
<1>2. /\ DOMAIN th' = Threads /\ th'[t] = r /\ slots' = slots
      /\ \A u \in Threads : u # t => th'[u] = th[u]
  BY <1>1 DEF Shape
<1>3. Quietly
  BY <1>1 DEF Quietly, Shape, RestOK
<1> QED
  BY <1>2, <1>3, QuietInv

LEMMA RestInIdle ==
  ASSUME Shape, NEW b PROVE Fits(b, slots, Idle) /\ PeersOK(b, Idle) /\ EchoOK(Idle)
<1>1. ThreadOK(Idle) /\ Len(slots) \in Nat
  BY IdleOK, LenProperties DEF Shape, RestOK
<1>2. Idle.at = "idle" /\ Idle.signal = 0
  BY DEF Idle
<1> QED
  BY <1>1, <1>2 DEF Fits, PeersOK, EchoOK, Publisher

-----------------------------------------------------------------------------
(* Registrations and settings.                                             *)

LEMMA CallIs ==
  ASSUME NEW c \in Calls
  PROVE  /\ c.op \in {"subscribe", "unsubscribe"} => c.s \in Subscribers
         /\ c.op \in {"attach", "detach", "remote", "handler", "incoming"} => c.p \in Parties
         /\ c.op \in {"remote", "handler", "incoming"} => c.id \in RemoteIds
         /\ c.op \in {"publish", "publishLocal", "incoming", "own"} => c.v \in Values
  BY ProgramsAssumption

LEMMA RegisterSerializerStep ==
  ASSUME Shape, NEW t \in Threads, RegisterSerializer(t)
  PROVE  BusStep
<1>1. Starts(t, "serializer") /\ UNCHANGED <<setup, th, slots, devices, ghosts>>
  BY DEF RegisterSerializer, Register
<1>2. left' \in [Threads -> Seq(ProgramCalls)] /\ BusShape(bus)
  BY <1>1, Starting DEF Shape
<1>3. CASE TypeFault(bus)
  BY <1>1, <1>2, <1>3, LatchCalm, CalmOrdered DEF TypeFault, BusStep, BusOrdered
<1>4. CASE bus' = [Establish(bus, Op(t).type) EXCEPT !.m_serializers = TRUE]
  <2>1. Calm(bus, bus')
    BY <1>2, <1>4, NewBusFields DEF Establish, Calm, BusShape, PartyKept, ChannelsKept
  <2> QED
    BY <1>1, <1>2, <2>1, CalmOrdered DEF BusStep, BusOrdered
<1> QED
  BY <1>3, <1>4 DEF RegisterSerializer, Register

LEMMA RegisterStringifierStep ==
  ASSUME Shape, NEW t \in Threads, RegisterStringifier(t)
  PROVE  BusStep
<1>1. Starts(t, "stringifier") /\ UNCHANGED <<setup, th, slots, devices, ghosts>>
  BY DEF RegisterStringifier, Register
<1>2. left' \in [Threads -> Seq(ProgramCalls)] /\ BusShape(bus)
  BY <1>1, Starting DEF Shape
<1>3. CASE TypeFault(bus)
  BY <1>1, <1>2, <1>3, LatchCalm, CalmOrdered DEF TypeFault, BusStep, BusOrdered
<1>4. CASE bus' = [Establish(bus, Op(t).type) EXCEPT !.m_stringifiers = TRUE]
  <2>1. Calm(bus, bus')
    BY <1>2, <1>4, NewBusFields DEF Establish, Calm, BusShape, PartyKept, ChannelsKept
  <2> QED
    BY <1>1, <1>2, <2>1, CalmOrdered DEF BusStep, BusOrdered
<1> QED
  BY <1>3, <1>4 DEF RegisterStringifier, Register

LEMMA SettingStep ==
  ASSUME Shape, NEW t \in Threads, LastValueCache(t) \/ Monitor(t) \/ EnableContinuousErrors(t)
  PROVE  BusStep
<1>1. PICK op : Starts(t, op) /\ UNCHANGED <<setup, th, slots, devices, ghosts>>
  BY DEF LastValueCache, Monitor, EnableContinuousErrors, Assigns
<1>2. left' \in [Threads -> Seq(ProgramCalls)] /\ BusShape(bus)
  BY <1>1, Starting DEF Shape
<1>3. Calm(bus, bus')
  <2>1. CASE LastValueCache(t)
    <3>1. bus' = [bus EXCEPT !.m_topicQos = Op(t).enabled]
      BY <2>1 DEF LastValueCache, Assigns
    <3> QED
      BY <1>2, <3>1, NewBusFields DEF Calm, BusShape, PartyKept, ChannelsKept
  <2>2. CASE Monitor(t)
    <3>1. bus' = [bus EXCEPT !.m_monitorSignal = TRUE]
      BY <2>2 DEF Monitor, Assigns
    <3> QED
      BY <1>2, <3>1, NewBusFields DEF Calm, BusShape, PartyKept, ChannelsKept
  <2>3. CASE EnableContinuousErrors(t)
    <3>1. bus' = [bus EXCEPT !.m_continuousErrors = Op(t).enabled,
                    !.party = [p \in Parties |-> IF p \in Range(bus.m_participants)
                                 THEN [@[p] EXCEPT !.m_continuousErrors = Op(t).enabled] ELSE @[p]]]
      BY <2>3 DEF EnableContinuousErrors, Assigns
    <3>2. /\ DOMAIN bus' = DOMAIN bus /\ DOMAIN bus'.party = Parties
          /\ bus'.m_signals = bus.m_signals /\ bus'.m_lastValues = bus.m_lastValues
          /\ bus'.m_participants = bus.m_participants
          /\ \A p \in Parties : \/ bus'.party[p] = bus.party[p]
                                \/ bus'.party[p] =
                                     [bus.party[p] EXCEPT !.m_continuousErrors = Op(t).enabled]
      BY <1>2, <3>1, NewBusFields DEF BusShape
    <3>3. ASSUME NEW p \in Parties
          PROVE  PartyOK(bus'.party[p]) /\ PartyKept(bus.party[p], bus'.party[p])
      <4>1. PartyOK(bus.party[p])
        BY <1>2 DEF BusShape
      <4> QED
        BY <3>2, <4>1, NewPartyFields DEF PartyOK, PartyKept, ChannelsKept
    <3> QED
      BY <1>2, <3>2, <3>3 DEF Calm, BusShape
  <2> QED
    BY <2>1, <2>2, <2>3
<1> QED
  BY <1>1, <1>2, <1>3, CalmOrdered DEF BusStep, BusOrdered

LEMMA AddRemoteTopicStep ==
  ASSUME Shape, NEW t \in Threads, AddRemoteTopic(t)
  PROVE  BusStep
<1> DEFINE p == Op(t).p
           q == [bus.party[p] EXCEPT !.m_topicToRemoteId = Op(t).id]
<1>1. /\ Starts(t, "remote") /\ UNCHANGED <<setup, th, slots, devices, ghosts>>
      /\ bus' = [bus EXCEPT !.party[p].m_topicToRemoteId = Op(t).id]
  BY DEF AddRemoteTopic, Assigns
<1>2. left' \in [Threads -> Seq(ProgramCalls)] /\ BusShape(bus) /\ p \in Parties
      /\ Op(t).id \in RemoteIds
  BY <1>1, Starting, CallIs DEF Shape
<1>3. PartyOK(bus.party[p]) /\ Null \notin RemoteIds
  BY <1>2, ProgramsAssumption DEF BusShape
<1> HIDE DEF p
<1>4. /\ PartyOK(q) /\ q.m_topicToRemoteId # Null
      /\ q.m_channels = bus.party[p].m_channels
  BY <1>2, <1>3, NewPartyFields DEF PartyOK
<1>5. /\ DOMAIN bus' = DOMAIN bus /\ bus'.party = [bus.party EXCEPT ![p] = q]
      /\ bus'.m_signals = bus.m_signals /\ bus'.m_lastValues = bus.m_lastValues
      /\ bus'.m_participants = bus.m_participants
  BY <1>1, <1>2, NewBusFields DEF BusShape
<1> HIDE DEF q
<1>6. BusShape(bus')
  BY <1>2, <1>4, <1>5 DEF BusShape
<1>7. PartiesOrdered(bus, bus')
  BY <1>2, <1>4, <1>5 DEF BusShape, PartiesOrdered
<1> QED
  BY <1>1, <1>2, <1>5, <1>6, <1>7 DEF BusStep, BusOrdered, SignalsOrdered

LEMMA ResetStep ==
  ASSUME Shape, NEW t \in Threads, Reset(t)
  PROVE  BusStep
<1>1. /\ Starts(t, "reset") /\ UNCHANGED <<setup, th, slots, devices, ghosts>>
      /\ bus' = [NewBus EXCEPT !.m_continuousErrors = bus.m_continuousErrors,
                   !.party = [p \in Parties |-> IF p \in Range(bus.m_participants)
                                THEN [bus.party[p] EXCEPT !.m_reportedErrors = {},
                                                          !.connected = FALSE]
                                ELSE bus.party[p]]]
  BY DEF Reset, Assigns
<1>2. left' \in [Threads -> Seq(ProgramCalls)] /\ BusShape(bus)
  BY <1>1, Starting DEF Shape
<1>3. /\ DOMAIN bus' = DOMAIN NewBus /\ DOMAIN bus'.party = Parties
      /\ bus'.m_signals = NewBus.m_signals /\ bus'.m_lastValues = NewBus.m_lastValues
      /\ bus'.m_participants = NewBus.m_participants
      /\ \A p \in Parties : \/ bus'.party[p] = bus.party[p]
                            \/ bus'.party[p] = [bus.party[p] EXCEPT !.m_reportedErrors = {},
                                                                   !.connected = FALSE]
  BY <1>1, NewBusFields
<1>4. ASSUME NEW p \in Parties
      PROVE  PartyOK(bus'.party[p]) /\ PartyKept(bus.party[p], bus'.party[p])
  <2>1. PartyOK(bus.party[p])
    BY <1>2 DEF BusShape
  <2> QED
    BY <1>3, <2>1, NewPartyFields DEF PartyOK, PartyKept, ChannelsKept
<1>5. BusShape(bus')
  BY <1>3, <1>4, NewBusOK DEF BusShape
<1>6. PartiesOrdered(bus, bus')
  BY <1>4 DEF PartiesOrdered, PartyKept, ChannelsKept
<1>7. bus'.m_signals = 0
  BY <1>3 DEF NewBus
<1> QED
  BY <1>1, <1>2, <1>5, <1>6, <1>7 DEF BusStep, BusOrdered, SignalsOrdered

LEMMA RemoveParticipantStep ==
  ASSUME Shape, NEW t \in Threads, RemoveParticipant(t)
  PROVE  BusStep
<1> DEFINE p == Op(t).p
           q == [bus.party[p] EXCEPT !.connected = FALSE]
           l == RemoveFirst(bus.m_participants, p)
<1>1. /\ Starts(t, "detach") /\ UNCHANGED <<setup, th, slots, devices, ghosts>>
      /\ \/ bus' = bus
         \/ bus' = [bus EXCEPT !.m_participants = l, !.party[p].connected = FALSE]
  BY DEF RemoveParticipant, Assigns
<1>2. left' \in [Threads -> Seq(ProgramCalls)] /\ BusShape(bus) /\ p \in Parties
  BY <1>1, Starting, CallIs DEF Shape
<1>3. PartyOK(bus.party[p]) /\ l \in Seq(Parties)
  BY <1>2, RemoveFirstRange DEF BusShape
<1> HIDE DEF p, l
<1>4. PartyOK(q) /\ PartyKept(bus.party[p], q)
  BY <1>2, <1>3, NewPartyFields DEF PartyOK, PartyKept, ChannelsKept
<1>5. CASE bus' = [bus EXCEPT !.m_participants = l, !.party[p].connected = FALSE]
  <2>1. /\ DOMAIN bus' = DOMAIN bus /\ bus'.party = [bus.party EXCEPT ![p] = q]
        /\ bus'.m_signals = bus.m_signals /\ bus'.m_lastValues = bus.m_lastValues
        /\ bus'.m_participants = l
    BY <1>5, <1>2, NewBusFields DEF BusShape
  <2> HIDE DEF q
  <2>2. BusShape(bus')
    BY <1>2, <1>3, <1>4, <2>1 DEF BusShape
  <2>3. PartiesOrdered(bus, bus')
    BY <1>2, <1>4, <2>1 DEF BusShape, PartiesOrdered, PartyKept, ChannelsKept
  <2> QED
    BY <1>1, <1>2, <2>1, <2>2, <2>3 DEF BusStep, BusOrdered, SignalsOrdered
<1>6. CASE bus' = bus
  BY <1>1, <1>2, <1>6, CalmRefl, CalmOrdered DEF BusStep, BusOrdered
<1> QED
  BY <1>1, <1>5, <1>6

LEMMA RegisterHandlerStep ==
  ASSUME Shape, NEW t \in Threads, RegisterHandler(t)
  PROVE  BusStep
<1> DEFINE o == Op(t)
           p == o.p
           id == o.id
           c == GetOrCreateChannelLocked(bus, p, id, o.type)
<1>1. /\ Starts(t, "handler") /\ UNCHANGED <<setup, th, slots, devices, ghosts>>
      /\ \/ bus' = OnChannelError(bus, p, id, "ERR_TYPE_MISMATCH")
         \/ bus' = [c EXCEPT !.party[p].m_channels[id].del.func = o.func]
  BY DEF RegisterHandler, ChannelFault
<1>2. /\ left' \in [Threads -> Seq(ProgramCalls)] /\ BusShape(bus) /\ p \in Parties
      /\ id \in RemoteIds /\ o.op = "handler" /\ o \in ProgramCalls
  BY <1>1, Starting, CallIs DEF Shape
<1>3. CASE bus' = OnChannelError(bus, p, id, "ERR_TYPE_MISMATCH")
  <2>1. Calm(bus, bus')
    BY <1>2, <1>3, OnChannelErrorCalm
  <2> QED
    BY <1>1, <1>2, <2>1, CalmOrdered DEF BusStep, BusOrdered
<1>4. CASE bus' = [c EXCEPT !.party[p].m_channels[id].del.func = o.func]
  <2> DEFINE q == c.party[p]
             x == [q.m_channels[id] EXCEPT !.del.func = o.func]
             r == [q EXCEPT !.m_channels = [@ EXCEPT ![id] = x]]
  <2>1. Calm(bus, c) /\ id \in DOMAIN q.m_channels
    BY <1>2, GetOrCreateCalm
  <2>2. o.func \in Funcs
    BY <1>2 DEF Funcs
  <2> HIDE DEF o, p, id, c
  <2>3. BusShape(c) /\ PartyOK(q) /\ ChannelOK(q.m_channels[id])
    BY <1>2, <2>1 DEF Calm, BusShape, PartyOK
  <2>4. ChannelOK(x) /\ x.del.func = o.func
    BY <2>3 DEF ChannelOK
  <2>5. bus' = [c EXCEPT !.party[p] = r]
    BY <1>2, <1>4, <2>1, <2>3, NewBusFields, NewPartyFields DEF BusShape, PartyOK, ChannelOK
  <2> HIDE DEF x
  <2>6. /\ DOMAIN r = DOMAIN q /\ r.m_topicToRemoteId = q.m_topicToRemoteId
        /\ r.m_channels = [q.m_channels EXCEPT ![id] = x]
    BY <2>3, NewPartyFields DEF PartyOK
  <2> HIDE DEF r
  <2>7. PartyOK(r)
    BY <2>1, <2>3, <2>4, <2>6 DEF PartyOK
  <2>8. /\ DOMAIN bus' = DOMAIN c /\ bus'.party = [c.party EXCEPT ![p] = r]
        /\ bus'.m_signals = c.m_signals /\ bus'.m_lastValues = c.m_lastValues
        /\ bus'.m_participants = c.m_participants
    BY <2>3, <2>5, NewBusFields DEF BusShape
  <2>9. BusShape(bus')
    BY <2>3, <2>7, <2>8 DEF BusShape
  <2>10. ASSUME NEW u \in Parties
         PROVE  /\ bus.party[u].m_topicToRemoteId # Null => bus'.party[u].m_topicToRemoteId # Null
                /\ DOMAIN bus.party[u].m_channels \subseteq DOMAIN bus'.party[u].m_channels
                /\ \A k \in DOMAIN bus'.party[u].m_channels :
                     \/ /\ k \in DOMAIN bus.party[u].m_channels
                        /\ bus'.party[u].m_channels[k].del.func = bus.party[u].m_channels[k].del.func
                     \/ bus'.party[u].m_channels[k].del.func \in Funcs \cup {Null}
    <3>1. PartyKept(bus.party[u], c.party[u])
      BY <2>1 DEF Calm
    <3>2. CASE u = p
      <4>1. bus'.party[u] = r
        BY <2>3, <2>8, <3>2 DEF BusShape
      <4> QED
        BY <2>1, <2>2, <2>4, <2>6, <3>1, <3>2, <4>1 DEF PartyKept, ChannelsKept
    <3>3. CASE u # p
      <4>1. bus'.party[u] = c.party[u]
        BY <2>3, <2>8, <3>3 DEF BusShape
      <4> QED
        BY <3>1, <4>1 DEF PartyKept, ChannelsKept
    <3> QED
      BY <3>2, <3>3
  <2>11. SignalsOrdered(bus, bus')
    BY <2>1, <2>8 DEF Calm, SignalsOrdered
  <2>12. PartiesOrdered(bus, bus')
    BY <2>10 DEF PartiesOrdered
  <2> QED
    BY <1>1, <1>2, <2>9, <2>11, <2>12 DEF BusStep, BusOrdered
<1> QED
  BY <1>1, <1>3, <1>4

-----------------------------------------------------------------------------
(* Attaching a participant.                                                *)

LEMMA AddParticipantInv ==
  ASSUME Inv, NEW t \in Threads, AddParticipant(t)
  PROVE  Inv'
<1> DEFINE p == Op(t).p
           q == [bus.party[p] EXCEPT !.connected = TRUE]
           r == [th[t] EXCEPT !.at = "attach", !.party = p]
<1>1. /\ Starts(t, "attach") /\ UNCHANGED <<setup, slots, devices, ghosts>>
      /\ bus' = [bus EXCEPT !.party[p].connected = TRUE]
      /\ th' = [th EXCEPT ![t].at = "attach", ![t].party = p]
  BY DEF AddParticipant
<1>2. Shape /\ BusShape(bus) /\ EchoInv /\ DOMAIN th = Threads /\ Fits(bus, slots, th[t])
  BY DEF Inv, Shape
<1>3. /\ left' \in [Threads -> Seq(ProgramCalls)] /\ p \in Parties /\ th[t].at = "idle"
  BY <1>1, <1>2, Starting, CallIs
<1> HIDE DEF p
<1>4. Calm(bus, bus')
  <2>1. PartyOK(bus.party[p]) /\ bus' = [bus EXCEPT !.party[p] = q]
    BY <1>1, <1>2, <1>3, NewBusFields DEF BusShape
  <2>2. PartyOK(q) /\ PartyKept(bus.party[p], q)
    BY <2>1, NewPartyFields DEF PartyOK, PartyKept, ChannelsKept
  <2> HIDE DEF q
  <2> QED
    BY <1>2, <1>3, <2>1, <2>2, PartyCalm
<1>5. th' = [th EXCEPT ![t] = r]
  BY <1>1, <1>2, IdleFields DEF Fits, ThreadOK
<1>6. Fits(bus', slots, r) /\ PeersOK(bus', r) /\ EchoOK(r)
  <2>1. /\ DOMAIN r = DOMAIN Idle /\ r.at = "attach" /\ r.party = p /\ r.signal = th[t].signal
        /\ r.todo = th[t].todo /\ r.parties = th[t].parties /\ r.i = th[t].i
    BY <1>2, IdleFields DEF Fits, ThreadOK
  <2> HIDE DEF r
  <2> QED
    BY <1>2, <1>3, <2>1 DEF Fits, ThreadOK, PeersOK, EchoOK, Publisher
<1> HIDE DEF r
<1>7. EchoData'
  BY <1>1, <1>2, SameEcho DEF devices, ghosts
<1> QED
  BY <1>1, <1>3, <1>4, <1>5, <1>6, <1>7, StillInv, CalmOrdered DEF Still, BusOrdered, devices, ghosts

LEMMA AddParticipantLockedInv ==
  ASSUME Inv, NEW t \in Threads, AddParticipantLocked(t)
  PROVE  Inv'
<1> DEFINE p == th[t].party
           l == Append(bus.m_participants, p)
           q == [bus.party[p] EXCEPT !.m_continuousErrors = bus.m_continuousErrors]
<1>1. /\ th[t].at = "attach" /\ UNCHANGED <<setup, left, slots, devices, ghosts>>
      /\ th' = [th EXCEPT ![t] = Idle]
      /\ \/ bus' = bus
         \/ bus' = [bus EXCEPT !.m_participants = l,
                               !.party[p].m_continuousErrors = bus.m_continuousErrors]
  BY DEF AddParticipantLocked
<1>2. /\ Shape /\ BusShape(bus) /\ EchoInv /\ p \in Parties
      /\ left \in [Threads -> Seq(ProgramCalls)]
  BY <1>1 DEF Inv, Shape, RestOK, Fits, ThreadOK
<1>3. PartyOK(bus.party[p]) /\ l \in Seq(Parties)
  BY <1>2, AppendRange DEF BusShape
<1> HIDE DEF p, l
<1>4. BusOrdered
  <2>1. CASE bus' = bus
    BY <1>2, <2>1, CalmRefl, CalmOrdered DEF BusOrdered
  <2>2. CASE bus' = [bus EXCEPT !.m_participants = l,
                                !.party[p].m_continuousErrors = bus.m_continuousErrors]
    <3>1. PartyOK(q) /\ PartyKept(bus.party[p], q)
      BY <1>3, NewPartyFields DEF PartyOK, PartyKept, ChannelsKept
    <3>2. /\ DOMAIN bus' = DOMAIN bus /\ bus'.party = [bus.party EXCEPT ![p] = q]
          /\ bus'.m_signals = bus.m_signals /\ bus'.m_lastValues = bus.m_lastValues
          /\ bus'.m_participants = l
      BY <1>2, <2>2, NewBusFields DEF BusShape
    <3> HIDE DEF q
    <3>3. BusShape(bus')
      BY <1>2, <1>3, <3>1, <3>2 DEF BusShape
    <3>4. PartiesOrdered(bus, bus')
      BY <1>2, <3>1, <3>2 DEF BusShape, PartiesOrdered, PartyKept, ChannelsKept
    <3> QED
      BY <3>2, <3>3, <3>4 DEF BusOrdered, SignalsOrdered
  <2> QED
    BY <1>1, <2>1, <2>2
<1>5. EchoData'
  BY <1>1, <1>2, SameEcho DEF devices, ghosts
<1>6. Fits(bus', slots, Idle) /\ PeersOK(bus', Idle) /\ EchoOK(Idle)
  BY <1>2, RestInIdle
<1> QED
  BY <1>1, <1>2, <1>4, <1>5, <1>6, StillInv DEF Still, devices, ghosts

-----------------------------------------------------------------------------
(* Publishing.                                                             *)

\* What a publisher begins with.
LEMMA BeginsToPublish ==
  ASSUME Shape, NEW t \in Threads, NEW v \in Values, NEW type, NEW localOnly \in BOOLEAN,
         Funcs = {"incoming"} /\ ~localOnly => v \in Made
  PROVE  \E r : /\ Publishing(t, v, type, localOnly) = [th EXCEPT ![t] = r]
                /\ \A b : Fits(b, slots, r) /\ PeersOK(b, r) /\ EchoOK(r)
<1> DEFINE r == [Idle EXCEPT !.at = "publish", !.v = v, !.type = type, !.ts = now,
                             !.localOnly = localOnly]
<1>1. /\ DOMAIN r = DOMAIN Idle /\ r.at = "publish" /\ r.v = v /\ r.localOnly = localOnly
      /\ r.signal = 0 /\ r.todo = <<>> /\ r.i = 1 /\ r.parties = <<>>
  BY DEF Idle
<1>2. Publishing(t, v, type, localOnly) = [th EXCEPT ![t] = r]
  BY DEF Publishing
<1> HIDE DEF r
<1>3. <<>> \in Seq(Subscribers) /\ <<>> \in Seq(Parties) /\ Len(slots) \in Nat
  BY EmptySeq, LenProperties DEF Shape, RestOK
<1>4. \A b : Fits(b, slots, r) /\ PeersOK(b, r) /\ EchoOK(r)
  BY <1>1, <1>3 DEF Fits, ThreadOK, PeersOK, EchoOK, Publisher
<1> QED
  BY <1>2, <1>4

LEMMA PublishInv ==
  ASSUME Inv, NEW t \in Threads, Publish(t) \/ PublishLocal(t)
  PROVE  Inv'
<1>1. PICK localOnly \in BOOLEAN, op \in {"publish", "publishLocal"} :
        /\ Starts(t, op) /\ UNCHANGED <<setup, bus, slots, devices, ghosts>>
        /\ th' = Publishing(t, Op(t).v, Op(t).type, localOnly)
  BY DEF Publish, PublishLocal
<1>2. Shape /\ BusShape(bus) /\ EchoInv
  BY DEF Inv, Shape
<1>3. /\ left' \in [Threads -> Seq(ProgramCalls)] /\ Op(t).v \in Values /\ th[t].at = "idle"
      /\ Op(t).v \in Made
  <2>1. Op(t) \in ProgramCalls /\ Op(t) \in Calls /\ Op(t).op = op /\ th[t].at = "idle"
        /\ left' \in [Threads -> Seq(ProgramCalls)]
    BY <1>1, <1>2, Starting
  <2> QED
    BY <2>1, CallIs DEF Made
<1>4. PICK r : /\ th' = [th EXCEPT ![t] = r]
               /\ \A b : Fits(b, slots, r) /\ PeersOK(b, r) /\ EchoOK(r)
  BY <1>1, <1>2, <1>3, BeginsToPublish
<1>5. EchoData' /\ BusOrdered
  BY <1>1, <1>2, SameEcho, CalmRefl, CalmOrdered DEF devices, ghosts, BusOrdered
<1> QED
  BY <1>1, <1>3, <1>4, <1>5, StillInv DEF Still, devices, ghosts

LEMMA PublishedInv ==
  ASSUME Inv, NEW t \in Threads, Published(t)
  PROVE  Inv'
<1>1. /\ th[t].at = "remote" /\ th' = [th EXCEPT ![t] = Idle]
      /\ UNCHANGED <<setup, left, slots, devices, ghosts>>
      /\ \/ bus' = bus
         \/ bus' = InternalReportLatchedError(bus, "topic", "ERR_NO_SERIALIZER")
  BY DEF Published
<1>2. Shape /\ BusShape(bus) /\ EchoInv /\ left \in [Threads -> Seq(ProgramCalls)]
  BY DEF Inv, Shape, RestOK
<1>3. BusOrdered
  BY <1>1, <1>2, CalmRefl, LatchCalm, CalmOrdered DEF BusOrdered
<1>4. EchoData'
  BY <1>1, <1>2, SameEcho DEF devices, ghosts
<1>5. Fits(bus', slots, Idle) /\ PeersOK(bus', Idle) /\ EchoOK(Idle)
  BY <1>2, RestInIdle
<1> QED
  BY <1>1, <1>2, <1>3, <1>4, <1>5, StillInv DEF Still, devices, ghosts

-----------------------------------------------------------------------------
(* What is sent and received.                                              *)

LEMMA SendCalm ==
  ASSUME NEW b, BusShape(b), NEW p \in Parties, NEW id \in DOMAIN b.party[p].m_channels, NEW v,
         ChannelSend(b, p, id, v)
  PROVE  Calm(b, bus') /\ sent' \subseteq sent \cup {<<p, v>>}
<1> DEFINE del == b.party[p].m_channels[id].del
<1>1. PICK d \in setup.dispatch :
        LET r == Send(del, b.party[p].m_channels[id].stream, setup.write[v], d)
            o == [b EXCEPT !.party[p].m_channels[id].stream = r.stream,
                           !.party[p].m_channels[id].del = RaiseError(@, r.error)]
        IN /\ bus' = OnChannelError(o, p, id, r.error)
           /\ sent' = IF r.sent THEN sent \cup {<<p, v>>} ELSE sent
  BY DEF ChannelSend
<1> DEFINE r == Send(del, b.party[p].m_channels[id].stream, setup.write[v], d)
           o == [b EXCEPT !.party[p].m_channels[id].stream = r.stream,
                          !.party[p].m_channels[id].del = RaiseError(@, r.error)]
<1>2. bus' = OnChannelError(o, p, id, r.error) /\ sent' \subseteq sent \cup {<<p, v>>}
  BY <1>1
<1> HIDE DEF r
<1>3. Calm(b, o)
  BY ChannelCalm
<1> HIDE DEF o
<1>4. Calm(o, bus')
  BY <1>2, <1>3, OnChannelErrorCalm DEF Calm
<1> QED
  BY <1>2, <1>3, <1>4, CalmTrans

\* A value is sent, or put into the outbox.
LEMMA SendEcho ==
  ASSUME EchoData, UNCHANGED <<setup, arrived>>, NEW p, NEW id, NEW v,
         Funcs = {"incoming"} => v \in Made,
         sent' \subseteq sent \cup {<<p, v>>}, Range(outbox') \subseteq Range(outbox) \cup {<<p, id, v>>}
  PROVE  EchoData'
<1>1. Funcs' = Funcs /\ Received' = Received /\ Made' = Made
  BY SameCalls DEF Funcs, Received, Made
<1>2. Range(outbox)' = Range(outbox')
  BY DEF Range
<1> QED
  BY <1>1, <1>2 DEF EchoData

LEMMA SenderTakesInv ==
  ASSUME Inv, SenderTakes
  PROVE  Inv'
<1> DEFINE x == outbox[1]
<1>1. /\ outbox # <<>> /\ outbox' = Tail(outbox) /\ ChannelSend(bus, x[1], x[2], x[3])
      /\ UNCHANGED <<setup, left, th, slots, worker, subs, published, since, arrived>>
  BY DEF SenderTakes
<1>2. /\ Shape /\ BusShape(bus) /\ EchoData /\ left \in [Threads -> Seq(ProgramCalls)]
      /\ outbox \in Seq(Parties \X RemoteIds \X Values) /\ DOMAIN th = Threads
  BY DEF Inv, Shape, RestOK, EchoInv
<1>3. /\ x \in Parties \X RemoteIds \X Values /\ x \in Range(outbox)
      /\ outbox' \in Seq(Parties \X RemoteIds \X Values) /\ Range(outbox') \subseteq Range(outbox)
  BY <1>1, <1>2, TailRange
<1> HIDE DEF x
<1>4. x[1] \in Parties /\ x[2] \in DOMAIN bus.party[x[1]].m_channels
  BY <1>2, <1>3 DEF Shape
<1>5. Calm(bus, bus') /\ sent' \subseteq sent \cup {<<x[1], x[3]>>}
  BY <1>1, <1>2, <1>4, SendCalm
<1>6. EchoData'
  <2>1. Funcs = {"incoming"} => x[3] \in Made
    BY <1>2, <1>3 DEF EchoData
  <2>2. Range(outbox') \subseteq Range(outbox) \cup {<<x[1], x[2], x[3]>>}
    BY <1>3
  <2> QED
    BY <1>1, <1>2, <1>5, <2>1, <2>2, SendEcho
<1>7. Quietly
  BY <1>1, <1>2, <1>3, <1>5, <1>6, CalmOrdered DEF Quietly, BusOrdered
<1> QED
  BY <1>1, <1>2, <1>7, QuietInv

LEMMA OwnSendInv ==
  ASSUME Inv, NEW t \in Threads, OwnSend(t)
  PROVE  Inv'
<1>1. /\ Starts(t, "own")
      /\ sent' \subseteq sent \cup {<<"own", Op(t).v>>}
      /\ UNCHANGED <<setup, th, bus, slots, worker, outbox, subs, published, since, arrived>>
  <2>1. PICK d \in setup.dispatch :
          LET r == Send(OwnDelegate(Op(t).class), own, setup.write[Op(t).v], d)
          IN sent' = IF r.sent THEN sent \cup {<<"own", Op(t).v>>} ELSE sent
    BY DEF OwnSend
  <2>2. sent' \subseteq sent \cup {<<"own", Op(t).v>>}
    BY <2>1
  <2> QED
    BY <2>2 DEF OwnSend
<1>2. /\ Shape /\ BusShape(bus) /\ EchoData /\ DOMAIN th = Threads
      /\ outbox \in Seq(Parties \X RemoteIds \X Values)
  BY DEF Inv, Shape, RestOK, EchoInv
<1>3. left' \in [Threads -> Seq(ProgramCalls)] /\ Op(t).v \in Made
  BY <1>1, <1>2, Starting DEF Made
<1>4. EchoData'
  <2>1. Range(outbox') \subseteq Range(outbox) \cup {<<"own", Null, Op(t).v>>}
    BY <1>1
  <2> QED
    BY <1>1, <1>2, <1>3, <2>1, SendEcho
<1>5. Quietly
  BY <1>1, <1>2, <1>3, <1>4, CalmRefl, CalmOrdered DEF Quietly, BusOrdered
<1> QED
  BY <1>1, <1>2, <1>5, QuietInv

LEMMA TickInv ==
  ASSUME Inv, Tick
  PROVE  Inv'
<1>1. UNCHANGED <<setup, left, th, bus, slots, worker, outbox, subs, published, since, arrived, sent>>
  BY DEF Tick, ghosts
<1>2. /\ Shape /\ BusShape(bus) /\ EchoInv /\ DOMAIN th = Threads
      /\ outbox \in Seq(Parties \X RemoteIds \X Values) /\ left \in [Threads -> Seq(ProgramCalls)]
  BY DEF Inv, Shape, RestOK
<1>3. EchoData'
  BY <1>1, <1>2, SameEcho
<1>4. Quietly
  <2>1. left' \in [Threads -> Seq(ProgramCalls)] /\ outbox' \in Seq(Parties \X RemoteIds \X Values)
    BY <1>1, <1>2
  <2>2. BusOrdered
    BY <1>1, <1>2, CalmRefl, CalmOrdered DEF BusOrdered
  <2> QED
    BY <1>1, <1>3, <2>1, <2>2 DEF Quietly
<1> QED
  BY <1>1, <1>2, <1>4, QuietInv

LEMMA ProcessIncomingInv ==
  ASSUME Inv, NEW t \in Threads, ProcessIncoming(t)
  PROVE  Inv'
<1> DEFINE o == Op(t)
           q == bus.party[o.p]
           h == Remember(q.m_history[o.id], o.seq)
           n == [q EXCEPT !.m_history[o.id] = h]
           r == [Idle EXCEPT !.at = "invoke", !.party = o.p, !.id = o.id, !.v = o.v,
                             !.cached = o.read]
<1>1. /\ Starts(t, "incoming") /\ UNCHANGED <<setup, slots, devices, halted, ghosts>>
      /\ \/ bus' = bus /\ th' = th
         \/ bus' = OnChannelError(bus, o.p, o.id, "ERR_NO_DISPATCHER") /\ th' = th
         \/ /\ HasChannel(bus, o.p, o.id)
            /\ bus' = [bus EXCEPT !.party[o.p].m_history[o.id] = h]
            /\ th' = [th EXCEPT ![t] = r]
  BY DEF ProcessIncoming
<1>2. Shape /\ BusShape(bus) /\ EchoInv
  BY DEF Inv, Shape
<1>3. /\ left' \in [Threads -> Seq(ProgramCalls)] /\ o.p \in Parties /\ o.id \in RemoteIds
      /\ o.v \in Values /\ o.v \in Received /\ th[t].at = "idle"
  <2>1. o \in ProgramCalls /\ o \in Calls /\ o.op = "incoming" /\ th[t].at = "idle"
        /\ left' \in [Threads -> Seq(ProgramCalls)]
    BY <1>1, <1>2, Starting
  <2> QED
    BY <2>1, CallIs DEF Received
<1>4. CASE bus' = bus /\ th' = th
  <2>1. BusStep
    BY <1>1, <1>2, <1>3, <1>4, CalmRefl, CalmOrdered DEF BusStep, BusOrdered
  <2> QED
    BY <2>1, BusStepInv
<1>5. CASE bus' = OnChannelError(bus, o.p, o.id, "ERR_NO_DISPATCHER") /\ th' = th
  <2>1. Calm(bus, bus')
    BY <1>2, <1>3, <1>5, OnChannelErrorCalm
  <2>2. BusStep
    BY <1>1, <1>3, <1>5, <2>1, CalmOrdered DEF BusStep, BusOrdered
  <2> QED
    BY <2>2, BusStepInv
<1>6. CASE /\ HasChannel(bus, o.p, o.id)
           /\ bus' = [bus EXCEPT !.party[o.p].m_history[o.id] = h]
           /\ th' = [th EXCEPT ![t] = r]
  <2>1. PartyOK(q) /\ PartyOK(n) /\ PartyKept(q, n)
    <3>1. PartyOK(q)
      BY <1>2, <1>3 DEF BusShape
    <3> HIDE DEF q, h, o
    <3> QED
      BY <3>1, NewPartyFields DEF PartyOK, PartyKept, ChannelsKept
  <2>2. bus' = [bus EXCEPT !.party[o.p] = n]
    <3> HIDE DEF h
    <3> QED
      BY <1>2, <1>3, <1>6, <2>1, NewBusFields, NewPartyFields DEF BusShape, PartyOK
  <2>3. Calm(bus, bus')
    <3> HIDE DEF n, o
    <3> QED
      BY <1>2, <1>3, <2>1, <2>2, PartyCalm
  <2>4. Fits(bus', slots, r) /\ PeersOK(bus', r) /\ EchoOK(r)
    <3>1. /\ DOMAIN r = DOMAIN Idle /\ r.at = "invoke" /\ r.party = o.p /\ r.id = o.id
          /\ r.v = o.v /\ r.signal = 0 /\ r.todo = <<>> /\ r.i = 1 /\ r.parties = <<>>
      BY DEF Idle
    <3>2. <<>> \in Seq(Subscribers) /\ <<>> \in Seq(Parties) /\ Len(slots) \in Nat
      BY <1>2, EmptySeq, LenProperties DEF Shape, RestOK
    <3>3. o.id \in DOMAIN bus'.party[o.p].m_channels
      BY <1>3, <1>6, <2>3 DEF HasChannel, Calm, PartyKept, ChannelsKept
    <3> HIDE DEF r, o
    <3> QED
      BY <1>3, <3>1, <3>2, <3>3 DEF Fits, ThreadOK, PeersOK, EchoOK, Publisher
  <2>5. EchoData' /\ BusOrdered
    BY <1>1, <1>2, <2>3, SameEcho, CalmOrdered DEF devices, ghosts, BusOrdered
  <2> HIDE DEF r, o
  <2> QED
    BY <1>1, <1>3, <1>6, <2>4, <2>5, StillInv DEF Still, devices, ghosts
<1> QED
  BY <1>1, <1>4, <1>5, <1>6

LEMMA InvokeHandlerInv ==
  ASSUME Inv, NEW t \in Threads, InvokeHandler(t)
  PROVE  Inv'
<1> DEFINE p == th[t].party
           id == th[t].id
           c == bus.party[p].m_channels[id]
           x == InvokeRemote(c.del, th[t].cached)
           local == c.del.func = "incoming"
<1>1. /\ th[t].at = "invoke"
      /\ UNCHANGED <<setup, left, slots, devices, halted, published, since, sent, refused>>
      /\ bus' = IF x \in {"run", "skip"} THEN bus
                ELSE OnChannelError([bus EXCEPT !.party[p].m_channels[id].del = RaiseError(@, x)],
                                    p, id, x)
      /\ th' = IF x = "run" THEN Publishing(t, th[t].v, c.type, local)
               ELSE [th EXCEPT ![t] = Idle]
      /\ arrived' = IF x = "run" /\ local THEN arrived \cup {th[t].v} ELSE arrived
  BY DEF InvokeHandler
<1>2. /\ Shape /\ BusShape(bus) /\ EchoInv /\ left \in [Threads -> Seq(ProgramCalls)]
      /\ p \in Parties /\ id \in DOMAIN bus.party[p].m_channels /\ th[t].v \in Values
      /\ th[t].v \in Received
  BY <1>1 DEF Inv, Shape, RestOK, Fits, ThreadOK, EchoInv, EchoOK
<1>3. ChannelOK(c) /\ c.del.func \in Funcs \cup {Null}
  BY <1>2 DEF BusShape, PartyOK, EchoInv
<1>4. x = "run" => c.del.func # Null
  <2>1. x = FunctionRemoteInvoke(c.del, th[t].cached)
    BY <1>3 DEF ChannelOK, InvokeRemote
  <2> QED
    BY <2>1 DEF FunctionRemoteInvoke, RemoteInvoke, FunctionCall
<1>5. BusOrdered
  <2> DEFINE o == [bus EXCEPT !.party[p].m_channels[id].del = RaiseError(@, x)]
  <2>1. bus' = bus \/ bus' = OnChannelError(o, p, id, x)
    BY <1>1
  <2> HIDE DEF x
  <2>2. Calm(bus, o)
    BY <1>2, ChannelCalm
  <2> HIDE DEF o
  <2>3. Calm(o, OnChannelError(o, p, id, x))
    BY <1>2, <2>2, OnChannelErrorCalm DEF Calm
  <2>4. Calm(bus, OnChannelError(o, p, id, x))
    BY <2>2, <2>3, CalmTrans
  <2> QED
    BY <1>2, <2>1, <2>4, CalmRefl, CalmOrdered DEF BusOrdered
<1>6. EchoData'
  <2>1. Funcs' = Funcs /\ Received' = Received /\ Made' = Made
    BY <1>1, SameCalls DEF Funcs, Received, Made
  <2>2. /\ arrived' \subseteq arrived \cup {th[t].v}
        /\ arrived' # arrived => "incoming" \in Funcs
    <3>1. CASE x = "run" /\ local
      BY <1>1, <1>3, <1>4, <3>1
    <3>2. CASE ~(x = "run" /\ local)
      BY <1>1, <3>2
    <3> QED
      BY <3>1, <3>2
  <2>3. UNCHANGED <<sent, outbox>> /\ Range(outbox)' = Range(outbox)
    BY <1>1 DEF devices, Range
  <2> HIDE DEF x, local
  <2> QED
    BY <1>2, <2>1, <2>2, <2>3 DEF EchoInv, EchoData
<1>7. \E r : /\ th' = [th EXCEPT ![t] = r]
             /\ Fits(bus', slots, r) /\ PeersOK(bus', r) /\ EchoOK(r)
  <2>1. CASE x = "run"
    <3>1. Funcs = {"incoming"} /\ ~local => th[t].v \in Made
      BY <1>3, <1>4, <2>1
    <3>2. th' = Publishing(t, th[t].v, c.type, local)
      BY <1>1, <2>1
    <3>3. local \in BOOLEAN
      OBVIOUS
    <3> HIDE DEF local, c, x
    <3>4. PICK r : /\ th' = [th EXCEPT ![t] = r]
                   /\ \A b : Fits(b, slots, r) /\ PeersOK(b, r) /\ EchoOK(r)
      BY <1>2, <3>1, <3>2, <3>3, BeginsToPublish
    <3> QED
      BY <3>4
  <2>2. CASE x # "run"
    <3>1. th' = [th EXCEPT ![t] = Idle]
      BY <1>1, <2>2
    <3> QED
      BY <1>2, <3>1, RestInIdle
  <2> QED
    BY <2>1, <2>2
<1> HIDE DEF x, local, c, p, id
<1>8. PICK r : /\ th' = [th EXCEPT ![t] = r]
               /\ Fits(bus', slots, r) /\ PeersOK(bus', r) /\ EchoOK(r)
  BY <1>7
<1> QED
  BY <1>1, <1>2, <1>5, <1>6, <1>8, StillInv DEF Still, devices

LEMMA DispatchIfInterestedInv ==
  ASSUME Inv, NEW t \in Threads, DispatchIfInterested(t)
  PROVE  Inv'
<1> DEFINE p  == th[t].parties[th[t].i]
           id == bus.party[p].m_topicToRemoteId
           v  == th[t].v
           b  == GetOrCreateChannelLocked(bus, p, id, th[t].type)
           r  == [th[t] EXCEPT !.i = @ + 1, !.interested = @ \/ Interested(p),
                               !.reached = IF Interested(p) THEN @ \cup {p} ELSE @]
<1>1. /\ th[t].at = "remote" /\ ~th[t].localOnly /\ ~(th[t].i > Len(th[t].parties))
      /\ UNCHANGED <<setup, left, slots, worker, subs, own, now, published, since, arrived>>
      /\ th' = [th EXCEPT ![t].i = @ + 1, ![t].interested = @ \/ Interested(p),
                          ![t].reached = IF Interested(p) THEN @ \cup {p} ELSE @]
      /\ \/ UNCHANGED <<bus, outbox, sent>>
         \/ Interested(p) /\ bus' = OnChannelError(bus, p, id, "ERR_TYPE_MISMATCH")
                          /\ UNCHANGED <<outbox, sent>>
         \/ Interested(p) /\ outbox' = Append(outbox, <<p, id, v>>) /\ bus' = b /\ UNCHANGED sent
         \/ Interested(p) /\ ChannelSend(b, p, id, v) /\ UNCHANGED outbox
  BY DEF DispatchIfInterested, SkipsRemote, Peers, ChannelFault
<1>2. /\ Shape /\ BusShape(bus) /\ EchoData /\ left \in [Threads -> Seq(ProgramCalls)]
      /\ outbox \in Seq(Parties \X RemoteIds \X Values) /\ DOMAIN th = Threads
      /\ Fits(bus, slots, th[t]) /\ PeersOK(bus, th[t]) /\ EchoOK(th[t])
  BY DEF Inv, Shape, RestOK, EchoInv, PeersInv
<1>3. /\ th[t].i \in 1 .. Len(th[t].parties) /\ p \in Parties /\ v \in Values
      /\ Funcs = {"incoming"} => v \in Made
  <2>1. th[t].parties \in Seq(Parties) /\ th[t].i \in Nat \ {0} /\ v \in Values
    BY <1>1, <1>2 DEF Fits, ThreadOK, Publisher
  <2>2. th[t].i \in 1 .. Len(th[t].parties)
    <3>1. Len(th[t].parties) \in Nat /\ ~(th[t].i > Len(th[t].parties))
      BY <1>1, <2>1, LenProperties
    <3> QED
      BY <2>1, <3>1
  <2>3. p \in Parties
    BY <2>1, <2>2, ElementOfSeq
  <2>4. Funcs = {"incoming"} => v \in Made
    BY <1>1, <1>2 DEF EchoOK, Publisher
  <2> QED
    BY <2>1, <2>2, <2>3, <2>4
<1>4. Interested(p) => id \in RemoteIds
  BY <1>2, <1>3 DEF Interested, BusShape, PartyOK
<1>5. r.at = "remote" /\ th' = [th EXCEPT ![t] = r]
  BY <1>1, <1>2, IdleFields DEF Fits, ThreadOK
<1>6. /\ DOMAIN r = DOMAIN Idle /\ r.signal = th[t].signal /\ r.todo = th[t].todo
      /\ r.parties = th[t].parties /\ r.i = th[t].i + 1 /\ r.v = v /\ r.through = th[t].through
      /\ r.localOnly = th[t].localOnly
      /\ r.reached = IF Interested(p) THEN th[t].reached \cup {p} ELSE th[t].reached
  BY <1>2, IdleFields DEF Fits, ThreadOK
<1> HIDE DEF r, id, b, v
<1>7. \A c : Fits(c, slots, r) /\ EchoOK(r)
  <2>1. r.i \in Nat \ {0}
    BY <1>3, <1>6, LenProperties DEF Fits, ThreadOK
  <2> QED
    BY <1>2, <1>3, <1>5, <1>6, <2>1 DEF Fits, ThreadOK, EchoOK, Publisher, v
<1>8. ASSUME Interested(p)
      PROVE  Calm(bus, b) /\ id \in DOMAIN b.party[p].m_channels
  BY <1>2, <1>3, <1>4, <1>8, GetOrCreateCalm DEF b
<1>9. Calm(bus, bus') /\ sent' \subseteq sent \cup {<<p, v>>}
  <2>1. CASE UNCHANGED <<bus, outbox, sent>>
    BY <1>2, <2>1, CalmRefl
  <2>2. CASE Interested(p) /\ bus' = OnChannelError(bus, p, id, "ERR_TYPE_MISMATCH") /\ sent' = sent
    BY <1>2, <1>3, <2>2, OnChannelErrorCalm
  <2>3. CASE Interested(p) /\ bus' = b /\ sent' = sent
    BY <1>8, <2>3
  <2>4. CASE Interested(p) /\ ChannelSend(b, p, id, v)
    <3>1. Calm(bus, b) /\ BusShape(b) /\ id \in DOMAIN b.party[p].m_channels
      BY <1>8, <2>4 DEF Calm
    <3>2. Calm(b, bus') /\ sent' \subseteq sent \cup {<<p, v>>}
      BY <1>3, <2>4, <3>1, SendCalm
    <3> QED
      BY <3>1, <3>2, CalmTrans
  <2> QED
    BY <1>1, <2>1, <2>2, <2>3, <2>4
<1>10. /\ outbox' \in Seq(Parties \X RemoteIds \X Values)
       /\ Range(outbox') \subseteq Range(outbox) \cup {<<p, id, v>>}
       /\ \A x \in Range(outbox') \ Range(outbox) : x[2] \in DOMAIN bus'.party[x[1]].m_channels
  <2>1. CASE outbox' = outbox
    BY <1>2, <2>1
  <2>2. CASE Interested(p) /\ outbox' = Append(outbox, <<p, id, v>>) /\ bus' = b
    <3> DEFINE e == <<p, id, v>>
    <3>1. e \in Parties \X RemoteIds \X Values
      BY <1>3, <1>4, <2>2
    <3>2. /\ outbox' \in Seq(Parties \X RemoteIds \X Values)
          /\ Range(outbox') = Range(outbox) \cup {e}
      <4>1. outbox' = Append(outbox, e)
        BY <2>2
      <4> HIDE DEF e
      <4> QED
        BY <1>2, <3>1, <4>1, AppendRange
    <3>3. ASSUME NEW x, x = <<p, id, v>> PROVE x[2] \in DOMAIN bus'.party[x[1]].m_channels
      BY <1>8, <2>2, <3>3
    <3> QED
      BY <3>2, <3>3
  <2> QED
    BY <1>1, <2>1, <2>2
<1>11. EchoData'
  BY <1>1, <1>2, <1>3, <1>9, <1>10, SendEcho
<1>12. PeersOK(bus', r)
  <2>1. th[t].parties \in Seq(Parties) /\ Range(th[t].parties) \subseteq Parties
    BY <1>2, RangeOf DEF Fits, ThreadOK
  <2>2. PartiesOrdered(bus, bus')
    BY <1>9, CalmOrdered
  <2>3. ASSUME NEW u \in r.through
        PROVE  u \in Range(r.parties) /\ bus'.party[u].m_topicToRemoteId # Null
    BY <1>1, <1>2, <1>6, <2>1, <2>2 DEF PeersOK, PartiesOrdered
  <2>4. ASSUME NEW k \in 1 .. Len(r.parties), k < r.i, r.parties[k] \in r.through
        PROVE  r.parties[k] \in r.reached
    <3>1. CASE k < th[t].i
      BY <1>1, <1>2, <1>6, <2>4, <3>1 DEF PeersOK
    <3>2. CASE k = th[t].i
      <4>1. r.parties[k] = p /\ p \in th[t].through
        BY <1>6, <2>4, <3>2
      <4>2. Interested(p)
        BY <1>1, <1>2, <4>1 DEF PeersOK, Interested
      <4> QED
        BY <1>6, <4>1, <4>2
    <3>3. k < th[t].i \/ k = th[t].i
      BY <1>3, <1>6, <2>1, <2>4, LenProperties
    <3> QED
      BY <3>1, <3>2, <3>3
  <2> QED
    BY <1>5, <2>3, <2>4 DEF PeersOK
<1> HIDE DEF p
<1>13. Quietly
  <2>1. BusOrdered /\ left' \in [Threads -> Seq(ProgramCalls)]
    BY <1>1, <1>2, <1>9, CalmOrdered DEF BusOrdered
  <2> QED
    BY <1>1, <1>10, <1>11, <2>1 DEF Quietly
<1>14. /\ DOMAIN th' = Threads /\ th'[t] = r /\ slots' = slots
       /\ \A u \in Threads : u # t => th'[u] = th[u]
  BY <1>1, <1>2, <1>5
<1> QED
  BY <1>1, <1>7, <1>12, <1>13, <1>14, QuietInv DEF Still

-----------------------------------------------------------------------------
(* Delivering.                                                             *)

\* Only one thread moves.
LEMMA MoveInv ==
  ASSUME Inv, NEW t \in Threads, NEW r, th' = [th EXCEPT ![t] = r],
         UNCHANGED <<setup, left, bus, slots, devices, ghosts>>,
         Fits(bus, slots, r), PeersOK(bus, r), EchoOK(r),
         \A s \in Subscribers, v \in Values :
           Keeps(s) /\ bus.m_signals # 0 /\ s \in Range(slots[bus.m_signals]) =>
             /\ Brings(th[t], bus.m_signals, s, v) => Brings(r, bus.m_signals, s, v)
             /\ Reads(th[t], s, v) /\ bus.m_lastValues # Null /\ v = bus.m_lastValues.value
                  => Reads(r, s, v)
  PROVE  Inv'
<1>1. /\ Shape /\ PeersInv /\ GuardInv /\ FollowInv /\ EchoInv
      /\ UNCHANGED <<setup, left, bus, slots, worker, outbox, subs, published, since, sent, arrived>>
  BY DEF Inv, devices, ghosts
<1>2. /\ BusShape(bus) /\ DOMAIN bus.party = Parties /\ left \in [Threads -> Seq(ProgramCalls)]
      /\ outbox \in Seq(Parties \X RemoteIds \X Values) /\ bus.m_signals <= Len(slots)
      /\ Len(slots) <= Len(slots) /\ DOMAIN th' = Threads /\ th'[t] = r
      /\ \A u \in Threads : u # t => th'[u] = th[u]
  BY <1>1, LenProperties DEF Shape, RestOK, BusShape
<1>3. PartiesOrdered(bus, bus') /\ SignalsOrdered(bus, bus')
  BY <1>1, <1>2, CalmRefl, CalmOrdered
<1>4. Shape'
  <2>1. RestOK' /\ SubsOK'
    BY <1>1, <1>2, SameRest
  <2> QED
    BY <1>1, <1>2, <1>3, <2>1, ShapeStep
<1>5. PeersInv'
  BY <1>1, <1>2, <1>3, PeersStep
<1>6. EchoInv'
  BY <1>1, <1>2, <1>3, SameEcho, EchoStep
<1>7. FollowInv'
  <2>1. \A s, v : Has(s, v)' <=> Has(s, v)
    BY <1>1, SameHas
  <2>2. ASSUME NEW s \in Subscribers, NEW v \in Values, NEW u \in Threads, Keeps(s),
               bus.m_signals # 0, s \in Range(slots[bus.m_signals])
        PROVE  /\ Brings(th[u], bus.m_signals, s, v) => Brings(th'[u], bus.m_signals, s, v)
               /\ Reads(th[u], s, v) /\ bus.m_lastValues # Null /\ v = bus.m_lastValues.value
                    => Reads(th'[u], s, v)
    BY <1>2, <2>2
  <2> QED
    BY <1>1, <1>3, <1>4, <2>1, <2>2, FollowStep
<1>8. GuardInv'
  BY <1>1, SameSubs
<1> QED
  BY <1>4, <1>5, <1>6, <1>7, <1>8 DEF Inv

LEMMA DispatchMonitorInv ==
  ASSUME Inv, NEW t \in Threads, DispatchMonitor(t)
  PROVE  Inv'
<1> DEFINE r == [th[t] EXCEPT !.at = "local"]
<1>1. /\ th[t].at = "monitor" /\ UNCHANGED <<setup, left, bus, slots, devices, ghosts>>
      /\ Fits(bus, slots, th[t]) /\ PeersOK(bus, th[t]) /\ EchoOK(th[t]) /\ DOMAIN th = Threads
  BY DEF DispatchMonitor, Inv, Shape, PeersInv, EchoInv
<1>2. th' = [th EXCEPT ![t] = r]
  BY <1>1 DEF DispatchMonitor
<1>3. /\ DOMAIN r = DOMAIN Idle /\ r.at = "local"
      /\ \A f \in DOMAIN Idle : f # "at" => r[f] = th[t][f]
  BY <1>1, IdleFields DEF Fits, ThreadOK
<1>4. /\ r.s = th[t].s /\ r.v = th[t].v /\ r.signal = th[t].signal /\ r.todo = th[t].todo
      /\ r.i = th[t].i /\ r.parties = th[t].parties /\ r.through = th[t].through
      /\ r.localOnly = th[t].localOnly
  BY <1>1, IdleFields DEF Fits, ThreadOK
<1> HIDE DEF r
<1>5. Fits(bus, slots, r) /\ PeersOK(bus, r) /\ EchoOK(r)
  BY <1>1, <1>3, <1>4 DEF Fits, ThreadOK, PeersOK, EchoOK, Publisher
<1>6. \A s, v, g : (Brings(th[t], g, s, v) => Brings(r, g, s, v)) /\ ~Reads(th[t], s, v)
  BY <1>1, <1>3, <1>4 DEF Brings, Reads
<1> QED
  BY <1>1, <1>2, <1>5, <1>6, MoveInv

LEMMA SnapshotInv ==
  ASSUME Inv, NEW t \in Threads, Snapshot(t)
  PROVE  Inv'
<1> DEFINE todo == IF th[t].signal = 0 THEN <<>> ELSE slots[th[t].signal]
           at   == IF todo = <<>> THEN "remote" ELSE "slots"
           r    == [th[t] EXCEPT !.at = at, !.todo = todo]
<1>1. /\ th[t].at = "local" /\ UNCHANGED <<setup, left, bus, slots, devices, ghosts>>
      /\ Fits(bus, slots, th[t]) /\ PeersOK(bus, th[t]) /\ EchoOK(th[t]) /\ DOMAIN th = Threads
      /\ slots \in Seq(Seq(Subscribers)) /\ bus.m_signals \in Nat
  BY DEF Snapshot, Inv, Shape, RestOK, BusShape, PeersInv, EchoInv
<1>2. th' = [th EXCEPT ![t] = r]
  BY <1>1 DEF Snapshot
<1>3. todo \in Seq(Subscribers)
  <2>1. CASE th[t].signal = 0
    BY <2>1, EmptySeq
  <2>2. CASE th[t].signal # 0
    <3>1. th[t].signal \in Nat /\ th[t].signal <= Len(slots) /\ Len(slots) \in Nat
      BY <1>1, LenProperties DEF Fits, ThreadOK
    <3>2. th[t].signal \in 1 .. Len(slots)
      BY <2>2, <3>1
    <3> QED
      BY <1>1, <2>2, <3>2, ElementOfSeq
  <2> QED
    BY <2>1, <2>2
<1>4. /\ \/ todo = <<>> /\ at = "remote"
         \/ todo # <<>> /\ at = "slots"
      /\ th[t].signal # 0 => todo = slots[th[t].signal]
  OBVIOUS
<1> HIDE DEF at, todo
<1>5. /\ DOMAIN r = DOMAIN Idle /\ r.at = at /\ r.todo = todo
      /\ r.s = th[t].s /\ r.v = th[t].v /\ r.signal = th[t].signal
      /\ r.i = th[t].i /\ r.parties = th[t].parties /\ r.through = th[t].through
      /\ r.localOnly = th[t].localOnly
  BY <1>1, IdleFields DEF Fits, ThreadOK
<1> HIDE DEF r
<1>6. Fits(bus, slots, r) /\ EchoOK(r)
  BY <1>1, <1>3, <1>4, <1>5 DEF Fits, ThreadOK, EchoOK, Publisher
<1>7. PeersOK(bus, r)
  <2>1. \A k \in 1 .. Len(r.parties) : ~(k < r.i)
    BY <1>1, <1>5 DEF PeersOK
  <2> QED
    BY <1>1, <1>4, <1>5, <2>1 DEF PeersOK
<1>8. ASSUME NEW s, NEW v, bus.m_signals # 0, s \in Range(slots[bus.m_signals])
      PROVE  /\ Brings(th[t], bus.m_signals, s, v) => Brings(r, bus.m_signals, s, v)
             /\ ~Reads(th[t], s, v)
  <2>1. ~Reads(th[t], s, v)
    BY <1>1 DEF Reads
  <2>2. ASSUME Brings(th[t], bus.m_signals, s, v) PROVE Brings(r, bus.m_signals, s, v)
    <3>1. th[t].signal = bus.m_signals /\ todo = slots[bus.m_signals]
      BY <1>4, <1>8, <2>2 DEF Brings
    <3>2. todo # <<>>
      <4>1. Range(<<>>) = {}
        BY DEF Range
      <4> QED
        BY <1>8, <3>1, <4>1
    <3> QED
      BY <1>4, <1>5, <1>8, <2>2, <3>1, <3>2 DEF Brings
  <2> QED
    BY <2>1, <2>2
<1> QED
  BY <1>1, <1>2, <1>6, <1>7, <1>8, MoveInv

LEMMA ReadCacheInv ==
  ASSUME Inv, NEW t \in Threads, ReadCache(t)
  PROVE  Inv'
<1> DEFINE s == th[t].s
           cached == IF setup.qos[s].lastValueCache /\ bus.m_lastValues # Null /\ ~Expired(s)
                     THEN bus.m_lastValues.value ELSE Null
           r == [th[t] EXCEPT !.at = "deliver", !.cached = cached]
<1>1. /\ th[t].at = "cache" /\ UNCHANGED <<setup, left, bus, slots, devices, ghosts>>
      /\ Fits(bus, slots, th[t]) /\ PeersOK(bus, th[t]) /\ EchoOK(th[t]) /\ DOMAIN th = Threads
      /\ BusShape(bus)
  BY DEF ReadCache, Inv, Shape, RestOK, PeersInv, EchoInv
<1>2. th' = [th EXCEPT ![t] = r]
  <2>1. SubscribeOrder["cache"] = "deliver"
    BY DEF SubscribeOrder
  <2>2. th' = [th EXCEPT ![t].at = SubscribeOrder[@], ![t].cached = cached]
    BY DEF ReadCache
  <2> HIDE DEF cached
  <2> QED
    BY <1>1, <2>1, <2>2, IdleFields DEF Fits, ThreadOK
<1>3. cached \in Values \cup {Null}
  BY <1>1 DEF BusShape
<1>4. Keeps(s) /\ bus.m_lastValues # Null => cached = bus.m_lastValues.value
  BY DEF Keeps, Expired
<1> HIDE DEF cached
<1>5. /\ DOMAIN r = DOMAIN Idle /\ r.at = "deliver" /\ r.cached = cached
      /\ r.s = th[t].s /\ r.v = th[t].v /\ r.signal = th[t].signal /\ r.todo = th[t].todo
      /\ r.i = th[t].i /\ r.parties = th[t].parties
  BY <1>1, IdleFields DEF Fits, ThreadOK
<1> HIDE DEF r
<1>6. Fits(bus, slots, r) /\ PeersOK(bus, r) /\ EchoOK(r)
  BY <1>1, <1>3, <1>5 DEF Fits, ThreadOK, PeersOK, EchoOK, Publisher
<1>7. ASSUME NEW u, NEW v, Keeps(u)
      PROVE  /\ ~Brings(th[t], bus.m_signals, u, v)
             /\ Reads(th[t], u, v) /\ bus.m_lastValues # Null /\ v = bus.m_lastValues.value
                  => Reads(r, u, v)
  BY <1>1, <1>4, <1>5, <1>7 DEF Brings, Reads
<1> QED
  BY <1>1, <1>2, <1>6, <1>7, MoveInv

LEMMA UnsubscribeInv ==
  ASSUME Inv, NEW t \in Threads, Unsubscribe(t)
  PROVE  Inv'
<1>1. /\ Starts(t, "unsubscribe") /\ UNCHANGED <<setup, th, bus, devices, ghosts>>
      /\ slots' = [g \in DOMAIN slots |-> RemoveFirst(slots[g], Op(t).s)]
  BY DEF Unsubscribe
<1>2. /\ Shape /\ PeersInv /\ GuardInv /\ FollowInv /\ EchoInv /\ BusShape(bus)
      /\ slots \in Seq(Seq(Subscribers)) /\ DOMAIN th = Threads
      /\ DOMAIN bus'.party = Parties
      /\ UNCHANGED <<setup, th, bus, worker, outbox, subs, published, since, sent, arrived>>
  BY <1>1 DEF Inv, Shape, RestOK, BusShape, devices, ghosts
<1>3. left' \in [Threads -> Seq(ProgramCalls)]
  BY <1>1, <1>2, Starting
<1>4. ASSUME NEW g \in 1 .. Len(slots)
      PROVE  slots'[g] \in Seq(Subscribers) /\ Range(slots'[g]) \subseteq Range(slots[g])
  <2>1. slots[g] \in Seq(Subscribers) /\ DOMAIN slots = 1 .. Len(slots)
    BY <1>2, ElementOfSeq, LenProperties
  <2>2. slots'[g] = RemoveFirst(slots[g], Op(t).s)
    BY <1>1, <2>1
  <2> QED
    BY <2>1, <2>2, RemoveFirstRange
<1>5. slots' \in Seq(Seq(Subscribers)) /\ Len(slots') = Len(slots)
  <2>1. DOMAIN slots' = 1 .. Len(slots) /\ Len(slots) \in Nat
    BY <1>1, <1>2, LenProperties
  <2>2. slots' = [g \in 1 .. Len(slots) |-> slots'[g]]
    BY <1>1, <2>1
  <2>3. slots' \in Seq(Seq(Subscribers))
    BY <1>4, <2>1, <2>2, IsASeq
  <2> QED
    BY <2>1, <2>3, LenProperties
<1>6. PartiesOrdered(bus, bus') /\ SignalsOrdered(bus, bus')
  BY <1>2, CalmRefl, CalmOrdered
<1>7. Shape'
  <2>1. RestOK'
    BY <1>2, <1>3, <1>5, SameCalls DEF Shape, RestOK
  <2>2. SubsOK'
    BY <1>2 DEF Shape, SubsOK
  <2>3. Len(slots) <= Len(slots') /\ bus'.m_signals <= Len(slots')
    BY <1>2, <1>5, LenProperties DEF Shape
  <2> QED
    BY <1>2, <1>6, <2>1, <2>2, <2>3, ShapeStep
<1>8. PeersInv' /\ EchoInv'
  BY <1>2, <1>6, SameEcho, PeersStep, EchoStep
<1>9. FollowInv'
  <2>1. \A s, v : Has(s, v)' <=> Has(s, v)
    BY <1>2, SameHas
  <2> QED
    BY <1>2, <1>4, <1>6, <1>7, <2>1, FollowStep
<1>10. GuardInv'
  BY <1>2, SameSubs
<1> QED
  BY <1>7, <1>8, <1>9, <1>10 DEF Inv

-----------------------------------------------------------------------------
(* Subscribing.                                                            *)

LEMMA SubscribeInv ==
  ASSUME Inv, NEW t \in Threads, Subscribe(t)
  PROVE  Inv'
<1> DEFINE s == Op(t).s
           b == [bus EXCEPT !.m_topicQos = @ \/ setup.qos[s].lastValueCache]
           e == [Establish(b, Op(t).type) EXCEPT !.m_signals = Len(slots) + 1]
           r == [th[t] EXCEPT !.at = "connect", !.s = s, !.signal = bus'.m_signals]
<1>1. /\ Starts(t, "subscribe") /\ UNCHANGED <<setup, devices, ghosts>>
      /\ \/ TypeFault(b) /\ UNCHANGED <<th, slots>>
         \/ /\ b.m_signals # 0 /\ bus' = b /\ UNCHANGED slots
            /\ th' = [th EXCEPT ![t].at = SubscribeOrder.start, ![t].s = s,
                                ![t].signal = bus'.m_signals]
         \/ /\ bus' = e /\ slots' = Append(slots, <<>>)
            /\ th' = [th EXCEPT ![t].at = SubscribeOrder.start, ![t].s = s,
                                ![t].signal = bus'.m_signals]
  BY DEF Subscribe
<1>2. /\ Shape /\ PeersInv /\ GuardInv /\ FollowInv /\ EchoInv /\ BusShape(bus)
      /\ slots \in Seq(Seq(Subscribers)) /\ DOMAIN th = Threads /\ Len(slots) \in Nat
      /\ UNCHANGED <<setup, worker, outbox, subs, published, since, sent, arrived>>
      /\ outbox \in Seq(Parties \X RemoteIds \X Values)
      /\ Fits(bus, slots, th[t]) /\ PeersOK(bus, th[t]) /\ EchoOK(th[t])
  BY <1>1, LenProperties DEF Inv, Shape, RestOK, PeersInv, EchoInv, devices, ghosts
<1>3. left' \in [Threads -> Seq(ProgramCalls)] /\ s \in Subscribers /\ th[t].at = "idle"
  BY <1>1, <1>2, Starting, CallIs
<1> HIDE DEF s
<1>4. Calm(bus, b) /\ b.m_signals = bus.m_signals
  BY <1>2, NewBusFields DEF Calm, BusShape, PartyKept, ChannelsKept
<1>5. EchoData'
  BY <1>2, SameEcho
<1>6. CASE TypeFault(b) /\ UNCHANGED <<th, slots>>
  <2> HIDE DEF b
  <2>1. Calm(b, bus')
    BY <1>4, <1>6, LatchCalm DEF TypeFault, Calm
  <2>2. Calm(bus, bus')
    BY <1>4, <2>1, CalmTrans
  <2>3. BusStep
    BY <1>1, <1>3, <1>6, <2>2, CalmOrdered DEF BusStep, BusOrdered
  <2> QED
    BY <2>3, BusStepInv
<1>7. ASSUME th' = [th EXCEPT ![t].at = SubscribeOrder.start, ![t].s = s, ![t].signal = bus'.m_signals],
             bus'.m_signals \in Nat \ {0}, bus'.m_signals <= Len(slots'), slots' \in Seq(Seq(Subscribers))
      PROVE  /\ th' = [th EXCEPT ![t] = r]
             /\ Fits(bus', slots', r) /\ PeersOK(bus', r) /\ EchoOK(r)
  <2>1. SubscribeOrder.start = "connect"
    BY DEF SubscribeOrder
  <2>2. th' = [th EXCEPT ![t] = r]
    BY <1>2, <1>7, <2>1, IdleFields DEF Fits, ThreadOK
  <2>3. /\ DOMAIN r = DOMAIN Idle /\ r.at = "connect" /\ r.s = s /\ r.signal = bus'.m_signals
        /\ r.todo = th[t].todo /\ r.i = th[t].i /\ r.parties = th[t].parties
    BY <1>2, IdleFields DEF Fits, ThreadOK
  <2> HIDE DEF r
  <2> QED
    BY <1>2, <1>3, <1>7, <2>2, <2>3 DEF Fits, ThreadOK, PeersOK, EchoOK, Publisher
<1>8. CASE /\ b.m_signals # 0 /\ bus' = b /\ UNCHANGED slots
           /\ th' = [th EXCEPT ![t].at = SubscribeOrder.start, ![t].s = s,
                               ![t].signal = bus'.m_signals]
  <2> HIDE DEF b
  <2>1. bus'.m_signals \in Nat \ {0} /\ bus'.m_signals <= Len(slots')
    BY <1>2, <1>4, <1>8 DEF BusShape, Shape
  <2>2. /\ th' = [th EXCEPT ![t] = r]
        /\ Fits(bus', slots, r) /\ PeersOK(bus', r) /\ EchoOK(r)
    BY <1>2, <1>7, <1>8, <2>1
  <2>3. BusOrdered
    BY <1>4, <1>8, CalmOrdered DEF BusOrdered
  <2> HIDE DEF r
  <2> QED
    BY <1>2, <1>3, <1>5, <1>8, <2>2, <2>3, StillInv DEF Still
<1>9. CASE /\ bus' = e /\ slots' = Append(slots, <<>>)
           /\ th' = [th EXCEPT ![t].at = SubscribeOrder.start, ![t].s = s,
                               ![t].signal = bus'.m_signals]
  <2>1. BusShape(b)
    BY <1>4 DEF Calm
  <2>2. /\ DOMAIN bus' = DOMAIN b /\ bus'.m_signals = Len(slots) + 1
        /\ bus'.m_lastValues = b.m_lastValues /\ bus'.m_participants = b.m_participants
        /\ bus'.party = b.party
    <3> HIDE DEF b
    <3> QED
      BY <1>9, <2>1, NewBusFields DEF BusShape, Establish
  <2> HIDE DEF b, e
  <2>3. BusShape(bus')
    BY <1>2, <2>1, <2>2 DEF BusShape
  <2>4. PartiesOrdered(bus, bus')
    BY <1>4, <2>2, CalmOrdered DEF PartiesOrdered
  <2>5. <<>> \in Seq(Subscribers) /\ Range(<<>>) = {}
    BY EmptySeq DEF Range
  <2>6. /\ slots' \in Seq(Seq(Subscribers)) /\ Len(slots') = Len(slots) + 1
        /\ slots'[Len(slots) + 1] = <<>>
    BY <1>2, <1>9, <2>5, AppendRange
  <2>7. /\ bus'.m_signals \in Nat \ {0} /\ bus'.m_signals <= Len(slots') /\ Len(slots) <= Len(slots')
    BY <1>2, <2>2, <2>6
  <2>8. /\ th' = [th EXCEPT ![t] = r]
        /\ Fits(bus', slots', r) /\ PeersOK(bus', r) /\ EchoOK(r)
    BY <1>7, <1>9, <2>6, <2>7
  <2> HIDE DEF r
  <2>9. /\ DOMAIN th' = Threads /\ th'[t] = r
        /\ \A u \in Threads : u # t => th'[u] = th[u]
    BY <1>2, <2>8
  <2>10. Shape'
    <3>1. RestOK'
      BY <1>2, <1>3, <2>6, SameCalls DEF Shape, RestOK
    <3>2. SubsOK'
      BY <1>2 DEF Shape, SubsOK
    <3> QED
      BY <1>2, <2>3, <2>4, <2>7, <2>8, <2>9, <3>1, <3>2, ShapeStep
  <2>11. PeersInv'
    BY <1>2, <2>4, <2>8, <2>9, PeersStep
  <2>12. EchoInv'
    BY <1>2, <1>5, <2>3, <2>4, <2>8, <2>9, EchoStep DEF BusShape
  <2>13. FollowInv'
    <3>1. Range(slots'[bus'.m_signals]) = {}
      BY <2>2, <2>5, <2>6
    <3>2. Range(slots[bus.m_signals])' = {}
      BY <3>1 DEF Range
    <3> QED
      BY <3>2 DEF FollowInv
  <2>14. GuardInv'
    BY <1>2, SameSubs
  <2> QED
    BY <2>10, <2>11, <2>12, <2>13, <2>14 DEF Inv
<1> QED
  BY <1>1, <1>6, <1>8, <1>9

LEMMA ConnectInv ==
  ASSUME Inv, NEW t \in Threads, Connect(t)
  PROVE  Inv'
<1> DEFINE s == th[t].s
           g == th[t].signal
           r == [th[t] EXCEPT !.at = "cache"]
<1>1. /\ th[t].at = "connect"
      /\ UNCHANGED <<setup, left, bus, devices, halted, published, sent, arrived, refused>>
      /\ slots' = [slots EXCEPT ![g] = Append(@, s)]
      /\ since' = [since EXCEPT ![s] = Len(published)]
      /\ th' = [th EXCEPT ![t].at = SubscribeOrder[@]]
  BY DEF Connect
<1>2. /\ Shape /\ PeersInv /\ GuardInv /\ FollowInv /\ EchoInv /\ BusShape(bus)
      /\ slots \in Seq(Seq(Subscribers)) /\ DOMAIN th = Threads
      /\ Len(slots) \in Nat /\ Len(published) \in Nat
      /\ UNCHANGED <<setup, left, bus, worker, outbox, subs, published, sent, arrived>>
      /\ outbox \in Seq(Parties \X RemoteIds \X Values) /\ left \in [Threads -> Seq(ProgramCalls)]
      /\ published \in Seq(Values) /\ since \in [Subscribers -> Nat]
      /\ Fits(bus, slots, th[t]) /\ PeersOK(bus, th[t]) /\ EchoOK(th[t])
  BY <1>1, LenProperties DEF Inv, Shape, RestOK, PeersInv, EchoInv, devices
<1>3. s \in Subscribers /\ g \in 1 .. Len(slots)
  BY <1>1, <1>2 DEF Fits, ThreadOK
<1>4. th' = [th EXCEPT ![t] = r]
  <2>1. SubscribeOrder["connect"] = "cache"
    BY DEF SubscribeOrder
  <2> QED
    BY <1>1, <1>2, <2>1, IdleFields DEF Fits, ThreadOK
<1>5. /\ DOMAIN r = DOMAIN Idle /\ r.at = "cache" /\ r.s = s
      /\ r.v = th[t].v /\ r.signal = th[t].signal /\ r.todo = th[t].todo
      /\ r.i = th[t].i /\ r.parties = th[t].parties
  BY <1>2, IdleFields DEF Fits, ThreadOK
<1> HIDE DEF r, s, g
<1>6. slots[g] \in Seq(Subscribers) /\ DOMAIN slots = 1 .. Len(slots)
  BY <1>2, <1>3, ElementOfSeq, LenProperties
<1>7. Append(slots[g], s) \in Seq(Subscribers) /\ Range(Append(slots[g], s)) = Range(slots[g]) \cup {s}
  BY <1>3, <1>6, AppendRange
<1>8. /\ slots' \in Seq(Seq(Subscribers)) /\ Len(slots') = Len(slots)
      /\ slots'[g] = Append(slots[g], s) /\ \A k \in 1 .. Len(slots) : k # g => slots'[k] = slots[k]
  BY <1>1, <1>2, <1>3, <1>7, ExceptSeq
<1>9. since' \in [Subscribers -> Nat]
  BY <1>1, <1>2, <1>3
<1>10. Fits(bus, slots', r) /\ PeersOK(bus, r) /\ EchoOK(r)
  BY <1>2, <1>3, <1>5, <1>8 DEF Fits, ThreadOK, PeersOK, EchoOK, Publisher
<1>11. /\ DOMAIN th' = Threads /\ th'[t] = r
       /\ \A u \in Threads : u # t => th'[u] = th[u]
  BY <1>2, <1>4
<1>12. PartiesOrdered(bus, bus') /\ DOMAIN bus'.party = Parties
  BY <1>2, CalmRefl, CalmOrdered DEF BusShape
<1>13. Shape'
  <2>1. RestOK'
    BY <1>2, <1>8, <1>9, SameCalls DEF Shape, RestOK
  <2>2. SubsOK'
    BY <1>2 DEF Shape, SubsOK
  <2>3. Len(slots) <= Len(slots') /\ bus'.m_signals <= Len(slots') /\ BusShape(bus')
    BY <1>2, <1>8 DEF Shape
  <2>4. \A u \in Threads : th'[u] = th[u] \/ Fits(bus', slots', th'[u])
    BY <1>2, <1>10, <1>11
  <2> QED
    BY <1>2, <1>11, <1>12, <2>1, <2>2, <2>3, <2>4, ShapeStep
<1>14. PeersInv'
  BY <1>2, <1>10, <1>11, <1>12, PeersStep
<1>15. EchoInv'
  BY <1>2, <1>10, <1>11, <1>12, SameEcho, EchoStep
<1>16. GuardInv'
  BY <1>2, SameSubs
<1>17. FollowInv'
  <2>1. \A u, v : Has(u, v)' <=> Has(u, v)
    BY <1>2, SameHas
  <2>2. ASSUME NEW u \in Subscribers, NEW v
        PROVE  /\ Coming(u, v) => Coming(u, v)'
               /\ Caching(u, v) => Caching(u, v)'
               /\ u = s => Caching(u, v)'
    <3>1. \A k \in Threads :
            /\ Brings(th[k], bus.m_signals, u, v) => Brings(th'[k], bus.m_signals, u, v)
            /\ Reads(th[k], u, v) => Reads(th'[k], u, v)
      BY <1>1, <1>11 DEF Brings, Reads
    <3>2. u = s => Reads(th'[t], u, v)
      BY <1>5, <1>11 DEF Reads
    <3>3. Coming(u, v) => Coming(u, v)'
      BY <1>2, <3>1 DEF Coming, Brings, Range
    <3>4. (Caching(u, v) => Caching(u, v)') /\ (u = s => Caching(u, v)')
      BY <3>1, <3>2 DEF Caching, Reads
    <3> QED
      BY <3>3, <3>4
  <2>3. ASSUME NEW u \in Subscribers, Keeps(u), bus.m_signals # 0,
               u \in Range(slots'[bus.m_signals])
        PROVE  /\ \A k \in 1 .. Len(published) :
                    k > since'[u] => Has(u, published[k]) \/ Coming(u, published[k])
               /\ bus.m_lastValues # Null =>
                    LET v == bus.m_lastValues.value
                    IN  Has(u, v) \/ Coming(u, v) \/ Caching(u, v) \/ u = s
    <3>1. CASE u = s
      <4>1. since'[u] = Len(published)
        BY <1>1, <1>2, <1>3, <3>1
      <4> QED
        BY <1>2, <3>1, <4>1
    <3>2. CASE u # s
      <4>1. since'[u] = since[u]
        BY <1>1, <1>2, <1>3, <3>2
      <4>2. bus.m_signals \in 1 .. Len(slots)
        BY <1>2, <2>3 DEF Shape, BusShape
      <4>3. u \in Range(slots[bus.m_signals])
        BY <1>7, <1>8, <2>3, <3>2, <4>2
      <4> QED
        BY <1>2, <2>3, <4>1, <4>3 DEF FollowInv
    <3> QED
      BY <3>1, <3>2
  <2>4. ASSUME NEW u \in Subscribers, Keeps(u)', bus'.m_signals # 0,
               (u \in Range(slots[bus.m_signals]))'
        PROVE  /\ (\A k \in 1 .. Len(published) :
                     k > since[u] => Has(u, published[k]) \/ Coming(u, published[k]))'
               /\ (bus.m_lastValues # Null =>
                     LET v == bus.m_lastValues.value
                     IN  Has(u, v) \/ Coming(u, v) \/ Caching(u, v))'
    <3>1. Keeps(u) /\ bus.m_signals # 0 /\ u \in Range(slots'[bus.m_signals])
      BY <1>2, <2>4 DEF Keeps, Range
    <3>2. \A k \in 1 .. Len(published) :
            k > since'[u] => Has(u, published[k])' \/ Coming(u, published[k])'
      BY <1>2, <2>1, <2>2, <2>3, <3>1
    <3>3. bus.m_lastValues # Null =>
            \A v : v = bus.m_lastValues.value => Has(u, v)' \/ Coming(u, v)' \/ Caching(u, v)'
      BY <2>1, <2>2, <2>3, <3>1
    <3>4. (\A k \in 1 .. Len(published) :
             k > since[u] => Has(u, published[k]) \/ Coming(u, published[k]))'
      BY <1>2, <3>2 DEF Has, Coming, Brings, Range
    <3>5. (bus.m_lastValues # Null =>
             LET v == bus.m_lastValues.value
             IN  Has(u, v) \/ Coming(u, v) \/ Caching(u, v))'
      BY <1>2, <3>3 DEF Has, Coming, Caching, Brings, Reads, Range
    <3> QED
      BY <3>4, <3>5
  <2> QED
    BY <2>4 DEF FollowInv
<1> QED
  BY <1>13, <1>14, <1>15, <1>16, <1>17 DEF Inv

-----------------------------------------------------------------------------
(* What a subscriber does with a value.                                    *)

\* The signed difference tells the order of two numbers that are close.
LEMMA NewerIsGreater ==
  ASSUME NEW g \in Values, NEW v \in Values, Close
  PROVE  IsNewer(g, v) <=> v > g
<1>1. g \in Nat /\ v \in Nat /\ g # Null
  BY ProgramsAssumption
<1>2. Width \in Nat /\ Width > 0 /\ Width \div 2 \in Nat /\ 2 * (Width \div 2) = Width
  BY WidthAssumption
<1> DEFINE x == v - g
           h == Width \div 2
<1>3. x \in Int /\ -h < x /\ x < h /\ h \in Nat /\ 2 * h = Width
  BY <1>1, <1>2 DEF Close
<1>4. IsNewer(g, v) <=> 0 < x % Width /\ x % Width < h
  BY <1>1 DEF IsNewer
<1>5. v > g <=> x > 0
  BY <1>1
<1> HIDE DEF x, h
<1>6. x % Width = IF x >= 0 THEN x ELSE x + Width
  <2>1. -Width < x /\ x < Width
    BY <1>2, <1>3
  <2> QED
    BY <1>2, <1>3, <2>1, Z3
<1> HIDE DEF IsNewer
<1>7. 0 < x % Width /\ x % Width < h <=> x > 0
  BY <1>2, <1>3, <1>6
<1> QED
  BY <1>4, <1>5, <1>7

LEMMA CalledStep ==
  ASSUME Shape, NEW s \in Subscribers, NEW v \in Values, subs' = Called(s, v), setup' = setup
  PROVE  /\ SubsOK'
         /\ GuardInv => GuardInv'
         /\ \A u \in Subscribers : Range(subs[u].received) \subseteq Range(subs'[u].received)
         /\ Keeps(s) => v \in Range(subs'[s].received)
<1> DEFINE a == [subs EXCEPT ![s].last = now]
           b == [subs EXCEPT ![s].last = now, ![s].received = Append(@, v),
                             ![s].guard = IF IsNewer(@, v) THEN v ELSE @]
           guard == IF IsNewer(subs[s].guard, v) THEN v ELSE subs[s].guard
<1>1. SubsOK /\ subs[s].received \in Seq(Values) /\ subs[s].guard \in Values \cup {Null}
  BY DEF Shape, SubsOK
<1>2. /\ Append(subs[s].received, v) \in Seq(Values)
      /\ Range(Append(subs[s].received, v)) = Range(subs[s].received) \cup {v}
  BY <1>1, AppendRange
<1>3. /\ subs' \in {subs, a, b}
      /\ Keeps(s) => subs' = b
  BY DEF Called, Keeps, RateLimiterPasses, FilterPasses
<1>4. CASE subs' = subs
  BY <1>1, <1>3, <1>4 DEF SubsOK, GuardInv, Range
<1>5. ASSUME NEW received \in Seq(Values), NEW g \in Values \cup {Null}, DOMAIN subs' = Subscribers,
             DOMAIN subs'[s] = DOMAIN subs[s],
             subs'[s].received = received, subs'[s].guard = g,
             \A u \in Subscribers : u # s => subs'[u] = subs[u],
             Range(subs[s].received) \subseteq Range(received),
             GuardInv /\ Close => \A x \in Range(received) : g # Null /\ g >= x
      PROVE  /\ SubsOK'
             /\ GuardInv => GuardInv'
             /\ \A u \in Subscribers : Range(subs[u].received) \subseteq Range(subs'[u].received)
  <2>1. SubsOK'
    BY <1>1, <1>5 DEF SubsOK
  <2>2. \A u \in Subscribers : Range(subs[u].received)' = Range(subs'[u].received)
    BY DEF Range
  <2>3. GuardInv => GuardInv'
    BY <1>5, <2>2 DEF GuardInv
  <2> QED
    BY <1>5, <2>1, <2>3
<1>6. CASE subs' = a
  <2>1. /\ DOMAIN subs' = Subscribers /\ DOMAIN subs'[s] = DOMAIN subs[s]
        /\ subs'[s].received = subs[s].received /\ subs'[s].guard = subs[s].guard
        /\ \A u \in Subscribers : u # s => subs'[u] = subs[u]
    BY <1>1, <1>6 DEF SubsOK
  <2>2. GuardInv /\ Close => \A x \in Range(subs[s].received) : subs[s].guard # Null /\ subs[s].guard >= x
    BY DEF GuardInv
  <2>3. /\ SubsOK' /\ (GuardInv => GuardInv')
        /\ \A u \in Subscribers : Range(subs[u].received) \subseteq Range(subs'[u].received)
    BY <1>1, <1>5, <2>1, <2>2
  <2>4. CASE subs' = b
    <3>1. subs'[s].received = Append(subs[s].received, v)
      BY <1>1, <2>4 DEF SubsOK
    <3> QED
      BY <1>2, <2>3, <3>1
  <2> HIDE DEF a, b
  <2> QED
    BY <1>3, <2>3, <2>4
<1>7. CASE subs' = b
  <2>1. /\ DOMAIN subs' = Subscribers /\ DOMAIN subs'[s] = DOMAIN subs[s]
        /\ subs'[s].received = Append(subs[s].received, v) /\ subs'[s].guard = guard
        /\ \A u \in Subscribers : u # s => subs'[u] = subs[u]
    BY <1>1, <1>7 DEF SubsOK
  <2>2. guard \in Values \cup {Null}
    BY <1>1
  <2>3. ASSUME GuardInv, Close, NEW x \in Range(subs[s].received) \cup {v}
        PROVE  guard # Null /\ guard >= x
    <3>1. x \in Values /\ v \in Nat /\ v # Null /\ Values \subseteq Nat
      <4>1. Range(subs[s].received) \subseteq Values
        BY <1>1, RangeOf
      <4> QED
        BY <2>3, <4>1, ProgramsAssumption
    <3>2. CASE subs[s].guard = Null
      <4>1. guard = v
        BY <3>2 DEF IsNewer
      <4>2. x = v
        BY <2>3, <3>2 DEF GuardInv
      <4> QED
        BY <3>1, <4>1, <4>2
    <3>3. CASE subs[s].guard # Null
      <4> DEFINE o == subs[s].guard
      <4>1. o \in Values /\ o \in Nat /\ o # Null
        BY <1>1, <3>1, <3>3
      <4>2. IsNewer(o, v) <=> v > o
        BY <2>3, <4>1, NewerIsGreater
      <4>3. x = v \/ o >= x
        BY <2>3 DEF GuardInv
      <4> HIDE DEF o
      <4>4. guard = IF IsNewer(o, v) THEN v ELSE o
        BY DEF o
      <4> HIDE DEF guard
      <4>5. x \in Nat
        BY <3>1
      <4> QED
        BY <3>1, <4>1, <4>2, <4>3, <4>4, <4>5
    <3> QED
      BY <3>2, <3>3
  <2> HIDE DEF guard
  <2>4. /\ SubsOK' /\ (GuardInv => GuardInv')
        /\ \A u \in Subscribers : Range(subs[u].received) \subseteq Range(subs'[u].received)
    BY <1>2, <1>5, <2>1, <2>2, <2>3
  <2> QED
    BY <1>2, <2>1, <2>4
<1> QED
  BY <1>3, <1>4, <1>6, <1>7


LEMMA DeliverStep ==
  ASSUME Shape, NEW s \in Subscribers, NEW v \in Values, Deliver(s, v), setup' = setup
  PROVE  /\ SubsOK' /\ worker' \in Seq(Subscribers \X Values)
         /\ GuardInv => GuardInv'
         /\ \A u \in Subscribers, w \in Values : Has(u, w) => Has(u, w)'
         /\ Keeps(s) => Has(s, v)'
<1>1. worker \in Seq(Subscribers \X Values)
  BY DEF Shape, RestOK
<1>2. CASE worker' = Append(worker, <<s, v>>) /\ UNCHANGED subs
  <2> DEFINE e == <<s, v>>
  <2>1. e \in Subscribers \X Values /\ worker' = Append(worker, e)
    BY <1>2
  <2>2. worker' \in Seq(Subscribers \X Values) /\ Range(worker') = Range(worker) \cup {e}
    <3> HIDE DEF e
    <3> QED
      BY <1>1, <2>1, AppendRange
  <2>3. SubsOK' /\ (GuardInv => GuardInv')
    BY <1>2, SameSubs DEF Shape, SubsOK
  <2>4. \A u, w : Has(u, w)' <=> w \in Range(subs[u].received) \/ <<u, w>> \in Range(worker) \cup {e}
    BY <1>2, <2>2 DEF Has, Range
  <2> QED
    BY <2>2, <2>3, <2>4 DEF Has
<1>3. CASE subs' = Called(s, v) /\ UNCHANGED worker
  <2>1. /\ SubsOK' /\ (GuardInv => GuardInv')
        /\ \A u \in Subscribers : Range(subs[u].received) \subseteq Range(subs'[u].received)
        /\ Keeps(s) => v \in Range(subs'[s].received)
    BY <1>3, CalledStep
  <2>2. \A u, w : Has(u, w)' <=> w \in Range(subs'[u].received) \/ <<u, w>> \in Range(worker)
    BY <1>3 DEF Has, Range
  <2> QED
    BY <1>1, <1>3, <2>1, <2>2 DEF Has
<1> QED
  BY <1>2, <1>3 DEF Deliver

\* Subscribers are called, by a publisher, by their thread or with the cached value.
LEMMA DeliveryInv ==
  ASSUME Inv, UNCHANGED <<setup, left, bus, slots, outbox, published, since, sent, arrived>>,
         SubsOK', worker' \in Seq(Subscribers \X Values), GuardInv => GuardInv',
         \A s \in Subscribers, v \in Values : Keeps(s) /\ Has(s, v) => Has(s, v)',
         DOMAIN th' = Threads,
         \A t \in Threads :
           \/ th'[t] = th[t]
           \/ /\ Fits(bus, slots, th'[t]) /\ PeersOK(bus, th'[t]) /\ EchoOK(th'[t])
              /\ \A s \in Subscribers, v \in Values : Keeps(s) =>
                   /\ Brings(th[t], bus.m_signals, s, v)
                        => Has(s, v)' \/ Brings(th'[t], bus.m_signals, s, v)
                   /\ Reads(th[t], s, v) => Has(s, v)' \/ Reads(th'[t], s, v)
  PROVE  Inv'
<1>1. /\ Shape /\ PeersInv /\ GuardInv /\ FollowInv /\ EchoInv
      /\ BusShape(bus) /\ DOMAIN bus.party = Parties /\ bus.m_signals <= Len(slots)
      /\ Len(slots) <= Len(slots)
  BY LenProperties DEF Inv, Shape, RestOK, BusShape
<1>2. PartiesOrdered(bus, bus') /\ SignalsOrdered(bus, bus')
  BY <1>1, CalmRefl, CalmOrdered
<1>3. Shape'
  <2>1. RestOK'
    BY <1>1, SameCalls DEF Shape, RestOK
  <2> QED
    BY <1>1, <1>2, <2>1, ShapeStep
<1>4. PeersInv'
  BY <1>1, <1>2, PeersStep
<1>5. EchoInv'
  BY <1>1, <1>2, SameEcho, EchoStep
<1>6. FollowInv'
  <2>1. ASSUME NEW s \in Subscribers, NEW v \in Values, NEW t \in Threads, Keeps(s)
        PROVE  /\ Brings(th[t], bus.m_signals, s, v)
                    => Has(s, v)' \/ Brings(th'[t], bus.m_signals, s, v)
               /\ Reads(th[t], s, v) => Has(s, v)' \/ Reads(th'[t], s, v)
    BY <2>1
  <2> QED
    BY <1>1, <1>2, <1>3, <2>1, FollowStep
<1> QED
  BY <1>1, <1>3, <1>4, <1>5, <1>6 DEF Inv

LEMMA WorkerTakesInv ==
  ASSUME Inv, WorkerTakes
  PROVE  Inv'
<1> DEFINE e == worker[1]
<1>1. /\ worker # <<>> /\ subs' = Called(e[1], e[2]) /\ worker' = Tail(worker)
      /\ UNCHANGED <<setup, left, th, bus, slots, outbox, published, since, sent, arrived>>
  BY DEF WorkerTakes, ghosts
<1>2. Shape /\ worker \in Seq(Subscribers \X Values) /\ DOMAIN th = Threads
  BY DEF Inv, Shape, RestOK
<1>3. /\ e \in Subscribers \X Values /\ worker' \in Seq(Subscribers \X Values)
      /\ Range(worker) = {e} \cup Range(worker')
  BY <1>1, <1>2, TailRange
<1> HIDE DEF e
<1>4. e[1] \in Subscribers /\ e[2] \in Values /\ e = <<e[1], e[2]>>
  BY <1>3
<1>5. /\ SubsOK' /\ (GuardInv => GuardInv')
      /\ \A u \in Subscribers : Range(subs[u].received) \subseteq Range(subs'[u].received)
      /\ Keeps(e[1]) => e[2] \in Range(subs'[e[1]].received)
  BY <1>1, <1>2, <1>4, CalledStep
<1>6. ASSUME NEW s \in Subscribers, NEW v \in Values, Keeps(s), Has(s, v)
      PROVE  Has(s, v)'
  <2>1. Has(s, v)' <=> v \in Range(subs'[s].received) \/ <<s, v>> \in Range(worker')
    BY DEF Has, Range
  <2>2. CASE v \in Range(subs[s].received)
    BY <1>5, <2>1, <2>2
  <2>3. CASE <<s, v>> \in Range(worker)
    <3>1. CASE <<s, v>> \in Range(worker')
      BY <2>1, <3>1
    <3>2. CASE <<s, v>> = e
      <4>1. s = e[1] /\ v = e[2]
        BY <3>2
      <4> QED
        BY <1>5, <1>6, <2>1, <4>1
    <3> QED
      BY <1>3, <2>3, <3>1, <3>2
  <2> QED
    BY <1>6, <2>2, <2>3 DEF Has
<1> QED
  BY <1>1, <1>2, <1>3, <1>5, <1>6, DeliveryInv

LEMMA DeliverCachedInv ==
  ASSUME Inv, NEW t \in Threads, DeliverCached(t)
  PROVE  Inv'
<1>a. th[t].at = "deliver"
  BY DEF DeliverCached
<1>b. th[t].s \in Subscribers /\ th[t].cached \in Values \cup {Null}
  BY <1>a DEF Inv, Shape, Fits, ThreadOK
<1>c. PICK s \in Subscribers, c \in Values \cup {Null} : s = th[t].s /\ c = th[t].cached
  BY <1>b
<1>1. /\ th[t].at = "deliver"
      /\ \/ c = Null /\ UNCHANGED <<subs, worker>>
         \/ c # Null /\ Deliver(s, c)
      /\ UNCHANGED <<setup, left, bus, slots, outbox, published, since, sent, arrived>>
  BY <1>c DEF DeliverCached, ghosts
<1>2. th' = [th EXCEPT ![t] = Idle]
  <2>1. SubscribeOrder["deliver"] = "idle"
    BY DEF SubscribeOrder
  <2> QED
    BY <1>1, <2>1 DEF DeliverCached, Inv, Shape
<1>3. /\ Shape /\ GuardInv /\ DOMAIN th = Threads
      /\ worker \in Seq(Subscribers \X Values) /\ SubsOK
  BY DEF Inv, Shape, RestOK
<1>4. /\ SubsOK' /\ worker' \in Seq(Subscribers \X Values) /\ (GuardInv => GuardInv')
      /\ \A u \in Subscribers, w \in Values : Has(u, w) => Has(u, w)'
      /\ Keeps(s) /\ c # Null => Has(s, c)'
  <2>1. CASE c = Null /\ UNCHANGED <<subs, worker>>
    <3>1. SubsOK' /\ (GuardInv => GuardInv') /\ \A u, w : Has(u, w)' <=> Has(u, w)
      BY <1>1, <1>3, <2>1, SameSubs, SameHas DEF SubsOK
    <3> QED
      BY <1>3, <2>1, <3>1
  <2>2. CASE c # Null /\ Deliver(s, c)
    BY <1>1, <1>3, <2>2, DeliverStep
  <2> QED
    BY <1>1, <2>1, <2>2
<1>5. /\ DOMAIN th' = Threads /\ th'[t] = Idle
      /\ \A u \in Threads : u # t => th'[u] = th[u]
  BY <1>2, <1>3
<1>6. Fits(bus, slots, Idle) /\ PeersOK(bus, Idle) /\ EchoOK(Idle)
  BY <1>3, RestInIdle
<1>7. ASSUME NEW u \in Subscribers, NEW v \in Values, Keeps(u)
      PROVE  /\ ~Brings(th[t], bus.m_signals, u, v)
             /\ Reads(th[t], u, v) => Has(u, v)'
  <2>1. ~Brings(th[t], bus.m_signals, u, v)
    BY <1>1 DEF Brings
  <2>2. Reads(th[t], u, v) => s = u /\ c = v /\ c # Null
    BY <1>c, <1>1, ProgramsAssumption DEF Reads
  <2> QED
    BY <1>4, <1>7, <2>1, <2>2
<1> QED
  BY <1>1, <1>4, <1>5, <1>6, <1>7, DeliveryInv

LEMMA CallSlotInv ==
  ASSUME Inv, NEW t \in Threads, CallSlot(t)
  PROVE  Inv'
<1>a. th[t].at = "slots"
  BY DEF CallSlot
<1>b. th[t].v \in Values /\ th[t].todo[1] \in Subscribers
  <2>1. th[t].v \in Values /\ th[t].todo \in Seq(Subscribers) /\ th[t].todo # <<>>
    BY <1>a DEF Inv, Shape, Fits, ThreadOK, Publisher
  <2> QED
    BY <2>1, TailRange
<1>c. PICK s \in Subscribers, v \in Values : s = th[t].todo[1] /\ v = th[t].v
  BY <1>b
<1> DEFINE at == IF Len(th[t].todo) = 1 THEN "remote" ELSE "slots"
           r == [th[t] EXCEPT !.at = at, !.todo = Tail(@)]
<1>1. /\ th[t].at = "slots" /\ Deliver(s, v)
      /\ UNCHANGED <<setup, left, bus, slots, outbox, published, since, sent, arrived>>
  BY <1>c DEF CallSlot, ghosts
<1>2. /\ Shape /\ GuardInv /\ DOMAIN th = Threads
      /\ Fits(bus, slots, th[t]) /\ PeersOK(bus, th[t]) /\ EchoOK(th[t])
  BY DEF Inv, Shape, PeersInv, EchoInv
<1>3. th' = [th EXCEPT ![t] = r]
  BY <1>1, <1>2, IdleFields DEF CallSlot, Fits, ThreadOK
<1>4. th[t].todo \in Seq(Subscribers) /\ th[t].todo # <<>>
  BY <1>1, <1>2 DEF Fits, ThreadOK, Publisher
<1>5. /\ Tail(th[t].todo) \in Seq(Subscribers)
      /\ Len(Tail(th[t].todo)) = Len(th[t].todo) - 1 /\ Len(th[t].todo) \in Nat \ {0}
      /\ Range(th[t].todo) = {s} \cup Range(Tail(th[t].todo))
  BY <1>4, <1>c, TailRange
<1>6. \/ at = "remote" /\ Range(Tail(th[t].todo)) = {}
      \/ at = "slots" /\ Tail(th[t].todo) # <<>>
  <2>1. CASE Len(th[t].todo) = 1
    <3>1. Tail(th[t].todo) = <<>>
      <4>1. Len(Tail(th[t].todo)) = 0
        BY <1>5, <2>1
      <4> QED
        BY <1>5, <4>1, EmptySeq
    <3> QED
      BY <2>1, <3>1 DEF Range
  <2>2. CASE Len(th[t].todo) # 1
    <3>1. Len(Tail(th[t].todo)) # 0
      BY <1>5, <2>2
    <3> QED
      BY <1>5, <2>2, <3>1, EmptySeq
  <2> QED
    BY <2>1, <2>2
<1> HIDE DEF at
<1>7. /\ DOMAIN r = DOMAIN Idle /\ r.at = at /\ r.todo = Tail(th[t].todo)
      /\ r.s = th[t].s /\ r.v = v /\ r.signal = th[t].signal
      /\ r.i = th[t].i /\ r.parties = th[t].parties /\ r.through = th[t].through
      /\ r.localOnly = th[t].localOnly
  BY <1>2, <1>c, IdleFields DEF Fits, ThreadOK
<1> HIDE DEF r
<1>8. Fits(bus, slots, r) /\ EchoOK(r)
  BY <1>1, <1>2, <1>4, <1>5, <1>6, <1>7, <1>c DEF Fits, ThreadOK, EchoOK, Publisher
<1>9. PeersOK(bus, r)
  <2>1. \A k \in 1 .. Len(r.parties) : ~(k < r.i)
    BY <1>1, <1>2, <1>7 DEF PeersOK
  <2> QED
    BY <1>1, <1>2, <1>6, <1>7, <2>1 DEF PeersOK
<1>10. /\ SubsOK' /\ worker' \in Seq(Subscribers \X Values) /\ (GuardInv => GuardInv')
       /\ \A u \in Subscribers, w \in Values : Has(u, w) => Has(u, w)'
       /\ Keeps(s) => Has(s, v)'
  BY <1>1, <1>2, <1>4, <1>5, DeliverStep
<1>11. ASSUME NEW u \in Subscribers, NEW w \in Values, Keeps(u)
       PROVE  /\ Brings(th[t], bus.m_signals, u, w) => Has(u, w)' \/ Brings(r, bus.m_signals, u, w)
              /\ ~Reads(th[t], u, w)
  <2>1. ~Reads(th[t], u, w)
    BY <1>1 DEF Reads
  <2>2. ASSUME Brings(th[t], bus.m_signals, u, w)
        PROVE  Has(u, w)' \/ Brings(r, bus.m_signals, u, w)
    <3>1. v = w /\ th[t].signal = bus.m_signals /\ u \in {s} \cup Range(Tail(th[t].todo))
      BY <1>1, <1>5, <1>c, <2>2 DEF Brings
    <3>2. CASE u = s
      BY <1>10, <1>11, <3>1, <3>2
    <3>3. CASE u \in Range(Tail(th[t].todo))
      BY <1>6, <1>7, <3>1, <3>3 DEF Brings
    <3> QED
      BY <3>1, <3>2, <3>3
  <2> QED
    BY <2>1, <2>2
<1>12. /\ DOMAIN th' = Threads /\ th'[t] = r
       /\ \A u \in Threads : u # t => th'[u] = th[u]
  BY <1>2, <1>3
<1> QED
  BY <1>1, <1>2, <1>8, <1>9, <1>10, <1>11, <1>12, DeliveryInv

-----------------------------------------------------------------------------
(* Publishing under the lock.                                              *)

LEMMA PublishLockedInv ==
  ASSUME Inv, NEW t \in Threads, PublishLocked(t)
  PROVE  Inv'
<1>1. th[t].at = "publish" /\ th[t].v \in Values
  BY DEF PublishLocked, Inv, Shape, Fits, ThreadOK, Publisher
<1>2. PICK n \in Values : n = th[t].v
  BY <1>1
<1> DEFINE at      == IF bus.m_monitorSignal THEN "monitor" ELSE "local"
           through == {p \in Range(bus.m_participants) : Interested(p)}
           e       == Establish(bus, th[t].type)
           cache   == IF ~bus.m_topicQos THEN e.m_lastValues
                      ELSE [value |-> n, timestamp |-> th[t].ts]
           b       == [e EXCEPT !.m_lastValues = cache]
           r       == [th[t] EXCEPT !.at = at, !.signal = bus.m_signals,
                                    !.serializer = bus.m_serializers,
                                    !.parties = bus.m_participants, !.through = through]
<1>3. /\ Shape /\ PeersInv /\ GuardInv /\ FollowInv /\ EchoInv /\ BusShape(bus)
      /\ left \in [Threads -> Seq(ProgramCalls)] /\ DOMAIN th = Threads
      /\ slots \in Seq(Seq(Subscribers)) /\ published \in Seq(Values)
      /\ Fits(bus, slots, th[t]) /\ PeersOK(bus, th[t]) /\ EchoOK(th[t])
  BY DEF Inv, Shape, RestOK, PeersInv, EchoInv
<1>4. /\ UNCHANGED <<setup, left, slots, devices, since, sent, arrived, refused>>
      /\ \/ TypeFault(bus) /\ UNCHANGED <<th, published>>
         \/ /\ bus' = b /\ th' = [th EXCEPT ![t] = r] /\ published' = Append(published, n)
  <2>1. CASE Mismatch(bus, th[t].type) /\ TypeFault(bus) /\ UNCHANGED <<th, published>>
    BY <2>1 DEF PublishLocked
  <2>2. CASE ~Mismatch(bus, th[t].type)
    <3>1. /\ UNCHANGED <<setup, left, slots, devices, since, sent, arrived, refused>>
          /\ bus' = [Establish(bus, th[t].type) EXCEPT
                       !.m_lastValues = IF ~bus.m_topicQos THEN @
                                        ELSE [value |-> th[t].v, timestamp |-> th[t].ts]]
          /\ th' = [th EXCEPT ![t].at = IF bus.m_monitorSignal THEN "monitor" ELSE "local",
                              ![t].signal = bus.m_signals, ![t].serializer = bus.m_serializers,
                              ![t].parties = bus.m_participants,
                              ![t].through = {p \in Range(bus.m_participants) : Interested(p)}]
          /\ published' = Append(published, th[t].v)
      BY <2>2, Zenon DEF PublishLocked
    <3>2. /\ UNCHANGED <<setup, left, slots, devices, since, sent, arrived, refused>>
          /\ bus' = b /\ published' = Append(published, n)
          /\ th' = [th EXCEPT ![t].at = at, ![t].signal = bus.m_signals,
                              ![t].serializer = bus.m_serializers,
                              ![t].parties = bus.m_participants, ![t].through = through]
      BY <1>2, <3>1
    <3> HIDE DEF at, through, b
    <3>3. th' = [th EXCEPT ![t] = r]
      BY <1>3, <3>2, IdleFields DEF Fits, ThreadOK
    <3> HIDE DEF r
    <3> QED
      BY <3>2, <3>3
  <2> QED
    BY <2>1, <2>2 DEF PublishLocked
<1>5. CASE TypeFault(bus) /\ UNCHANGED <<th, published>>
  <2>1. Calm(bus, bus')
    BY <1>3, <1>5, LatchCalm DEF TypeFault
  <2>2. BusStep
    BY <1>3, <1>4, <1>5, <2>1, CalmOrdered DEF BusStep, BusOrdered, ghosts
  <2> QED
    BY <2>2, BusStepInv
<1>6. CASE bus' = b /\ th' = [th EXCEPT ![t] = r] /\ published' = Append(published, n)
  <2>1. at \in {"monitor", "local"}
    OBVIOUS
  <2>2. /\ cache = bus.m_lastValues \/ cache.value = n
        /\ cache = Null \/ cache.value \in Values
    <3>1. [value |-> n, timestamp |-> th[t].ts].value = n
      OBVIOUS
    <3>2. CASE ~bus.m_topicQos
      BY <1>3, <3>2, NewBusFields DEF BusShape, Establish
    <3>3. CASE bus.m_topicQos
      BY <3>1, <3>3
    <3> QED
      BY <3>2, <3>3
  <2> HIDE DEF at, cache, e
  <2>3. /\ DOMAIN bus' = DOMAIN bus /\ bus'.m_signals = bus.m_signals
        /\ bus'.m_lastValues = cache /\ bus'.m_participants = bus.m_participants
        /\ bus'.party = bus.party
    BY <1>3, <1>6, NewBusFields DEF BusShape, Establish, e
  <2> HIDE DEF b
  <2>4. BusShape(bus')
    BY <1>3, <2>2, <2>3 DEF BusShape
  <2>5. PartiesOrdered(bus, bus') /\ DOMAIN bus'.party = Parties
    BY <1>3, <2>3 DEF PartiesOrdered, BusShape
  <2>6. /\ published' \in Seq(Values) /\ Len(published') = Len(published) + 1
        /\ \A k \in 1 .. Len(published) : published'[k] = published[k]
        /\ published'[Len(published) + 1] = n /\ Len(published) \in Nat
    BY <1>3, <1>6, AppendRange, LenProperties
  <2>7. /\ DOMAIN r = DOMAIN Idle /\ r.at = at /\ r.signal = bus.m_signals
        /\ r.parties = bus.m_participants /\ r.through = through
        /\ r.s = th[t].s /\ r.v = n /\ r.todo = th[t].todo /\ r.i = th[t].i
        /\ r.localOnly = th[t].localOnly
    <3> HIDE DEF through
    <3> QED
      BY <1>2, <1>3, IdleFields DEF Fits, ThreadOK
  <2> HIDE DEF r
  <2>8. Fits(bus', slots, r) /\ EchoOK(r)
    BY <1>1, <1>2, <1>3, <2>1, <2>7 DEF Fits, ThreadOK, EchoOK, Publisher, Shape, BusShape
  <2>9. PeersOK(bus', r)
    <3>1. \A p \in through : p \in Range(r.parties) /\ bus'.party[p].m_topicToRemoteId # Null
      BY <2>3, <2>7 DEF Interested
    <3> QED
      BY <1>1, <1>3, <2>1, <2>7, <3>1 DEF PeersOK
  <2>10. /\ DOMAIN th' = Threads /\ th'[t] = r
         /\ \A u \in Threads : u # t => th'[u] = th[u]
    BY <1>3, <1>6
  <2>11. UNCHANGED <<setup, slots, worker, outbox, subs, since, sent, arrived>>
    BY <1>4 DEF devices
  <2>12. Shape'
    <3>1. RestOK'
      BY <1>3, <1>4, <2>6, <2>11, SameCalls DEF Shape, RestOK
    <3>2. SubsOK'
      BY <1>3, <2>11 DEF Shape, SubsOK
    <3>3. Len(slots) <= Len(slots') /\ bus'.m_signals <= Len(slots')
      BY <1>3, <2>3, <2>11, LenProperties DEF Shape
    <3>4. \A u \in Threads : th'[u] = th[u] \/ Fits(bus', slots', th'[u])
      BY <2>8, <2>10, <2>11
    <3> QED
      BY <1>3, <2>4, <2>5, <2>10, <2>11, <3>1, <3>2, <3>3, <3>4, ShapeStep
  <2>13. PeersInv'
    BY <1>3, <2>5, <2>9, <2>10, PeersStep
  <2>14. EchoInv'
    BY <1>3, <2>5, <2>8, <2>10, <2>11, SameEcho, EchoStep
  <2>15. GuardInv'
    BY <1>3, <2>11, SameSubs
  <2>16. FollowInv'
    <3>1. \A u, v : Has(u, v)' <=> Has(u, v)
      BY <2>11, SameHas
    <3>2. ASSUME NEW s, NEW v
          PROVE  /\ Coming(s, v) => Coming(s, v)'
                 /\ Caching(s, v) => Caching(s, v)'
                 /\ v = n => Coming(s, v)'
      <4>1. \A k \in Threads :
              /\ Brings(th[k], bus.m_signals, s, v) => Brings(th'[k], bus.m_signals, s, v)
              /\ Reads(th[k], s, v) => Reads(th'[k], s, v)
        BY <1>1, <2>10 DEF Brings, Reads
      <4>2. v = n => Brings(th'[t], bus.m_signals, s, v)
        BY <2>1, <2>7, <2>10 DEF Brings
      <4>3. (Coming(s, v) => Coming(s, v)') /\ (v = n => Coming(s, v)')
        BY <2>3, <4>1, <4>2 DEF Coming, Brings, Range
      <4>4. Caching(s, v) => Caching(s, v)'
        BY <4>1 DEF Caching, Reads
      <4> QED
        BY <4>3, <4>4
    <3>3. ASSUME NEW s \in Subscribers, Keeps(s)', bus'.m_signals # 0,
                 (s \in Range(slots[bus.m_signals]))'
          PROVE  /\ (\A k \in 1 .. Len(published) :
                       k > since[s] => Has(s, published[k]) \/ Coming(s, published[k]))'
                 /\ (bus.m_lastValues # Null =>
                       LET v == bus.m_lastValues.value
                       IN  Has(s, v) \/ Coming(s, v) \/ Caching(s, v))'
      <4>1. /\ Keeps(s) /\ bus.m_signals # 0 /\ s \in Range(slots[bus.m_signals])
        BY <2>3, <2>11, <3>3 DEF Keeps, Range
      <4>2. /\ \A k \in 1 .. Len(published) :
                 k > since[s] => Has(s, published[k]) \/ Coming(s, published[k])
            /\ bus.m_lastValues # Null =>
                 \A v : v = bus.m_lastValues.value => Has(s, v) \/ Coming(s, v) \/ Caching(s, v)
        BY <1>3, <4>1 DEF FollowInv
      <4>3. \A k \in 1 .. Len(published') : \A v :
              k > since[s] /\ v = published'[k] => Has(s, v)' \/ Coming(s, v)'
        <5>1. TAKE k \in 1 .. Len(published')
        <5>2. k \in 1 .. Len(published) \/ k = Len(published) + 1
          BY <2>6
        <5> QED
          BY <2>6, <3>1, <3>2, <4>2, <5>2
      <4>4. bus'.m_lastValues # Null =>
              \A v : v = bus'.m_lastValues.value => Has(s, v)' \/ Coming(s, v)' \/ Caching(s, v)'
        BY <2>2, <2>3, <3>1, <3>2, <4>2
      <4>5. (\A k \in 1 .. Len(published) :
               k > since[s] => Has(s, published[k]) \/ Coming(s, published[k]))'
        BY <2>11, <4>3 DEF Has, Coming, Brings, Range
      <4>6. (bus.m_lastValues # Null =>
               LET v == bus.m_lastValues.value
               IN  Has(s, v) \/ Coming(s, v) \/ Caching(s, v))'
        BY <4>4 DEF Has, Coming, Caching, Brings, Reads, Range
      <4> QED
        BY <4>5, <4>6
    <3> QED
      BY <3>3 DEF FollowInv
  <2> QED
    BY <2>12, <2>13, <2>14, <2>15, <2>16 DEF Inv
<1> QED
  BY <1>4, <1>5, <1>6

-----------------------------------------------------------------------------
(* The inductive invariant.                                                *)

LEMMA InitInv == Init => Inv
<1> SUFFICES ASSUME Init PROVE Inv
  OBVIOUS
<1>1. Shape
  BY InitShape
<1>2. /\ \A t \in Threads : th[t] = Idle
      /\ Idle.at = "idle"
  BY DEF Init, Idle
<1>3. /\ bus.m_signals = 0 /\ \A p \in Parties : DOMAIN bus.party[p].m_channels = {}
      /\ \A s \in Subscribers : Range(subs[s].received) = {}
      /\ arrived = {} /\ sent = {} /\ Range(outbox) = {}
  BY DEF Init, NewBus, NewParty, Range
<1>4. PeersInv /\ FollowInv
  BY <1>2, <1>3 DEF PeersInv, PeersOK, FollowInv
<1>5. GuardInv
  BY <1>3 DEF GuardInv
<1>6. EchoInv
  BY <1>2, <1>3 DEF EchoInv, EchoData, EchoOK, Publisher
<1> QED
  BY <1>1, <1>4, <1>5, <1>6 DEF Inv

LEMMA StepInv ==
  ASSUME Inv, NEW t \in Threads, Step(t)
  PROVE  Inv'
<1>1. Shape
  BY DEF Inv
<1>2. CASE \/ RegisterSerializer(t) \/ RegisterStringifier(t) \/ LastValueCache(t) \/ Monitor(t)
           \/ EnableContinuousErrors(t) \/ AddRemoteTopic(t) \/ Reset(t) \/ RemoveParticipant(t)
           \/ RegisterHandler(t)
  <2>1. BusStep
    BY <1>1, <1>2, RegisterSerializerStep, RegisterStringifierStep, SettingStep,
       AddRemoteTopicStep, ResetStep, RemoveParticipantStep, RegisterHandlerStep
  <2> QED
    BY <2>1, BusStepInv
<1>3. CASE Unsubscribe(t) \/ AddParticipant(t) \/ AddParticipantLocked(t) \/ Subscribe(t)
  BY <1>3, UnsubscribeInv, AddParticipantInv, AddParticipantLockedInv, SubscribeInv
<1>4. CASE Connect(t) \/ ReadCache(t) \/ DeliverCached(t) \/ Publish(t) \/ PublishLocal(t)
  BY <1>4, ConnectInv, ReadCacheInv, DeliverCachedInv, PublishInv
<1>5. CASE PublishLocked(t) \/ DispatchMonitor(t) \/ Snapshot(t) \/ CallSlot(t)
  BY <1>5, PublishLockedInv, DispatchMonitorInv, SnapshotInv, CallSlotInv
<1>6. CASE \/ DispatchIfInterested(t) \/ Published(t) \/ ProcessIncoming(t) \/ InvokeHandler(t)
           \/ OwnSend(t)
  BY <1>6, DispatchIfInterestedInv, PublishedInv, ProcessIncomingInv, InvokeHandlerInv, OwnSendInv
<1> QED
  BY <1>2, <1>3, <1>4, <1>5, <1>6 DEF Step

LEMMA StutterInv == ASSUME Inv, UNCHANGED vars PROVE Inv'
<1>1. UNCHANGED <<setup, left, th, bus, slots, worker, outbox, subs, published, since, arrived, sent>>
  BY DEF vars, devices, ghosts
<1>2. /\ Shape /\ BusShape(bus) /\ EchoInv /\ DOMAIN th = Threads
      /\ left \in [Threads -> Seq(ProgramCalls)]
  BY DEF Inv, Shape, RestOK
<1>3. BusStep
  <2>1. BusOrdered
    BY <1>1, <1>2, CalmRefl, CalmOrdered DEF BusOrdered
  <2> QED
    BY <1>1, <1>2, <2>1 DEF BusStep, vars
<1> QED
  BY <1>3, BusStepInv

LEMMA NextInv == Inv /\ [Next]_vars => Inv'
<1> SUFFICES ASSUME Inv, [Next]_vars PROVE Inv'
  OBVIOUS
<1>1. CASE \E t \in Threads : Step(t)
  BY <1>1, StepInv
<1>2. CASE WorkerTakes \/ SenderTakes \/ Tick
  BY <1>2, WorkerTakesInv, SenderTakesInv, TickInv
<1>3. CASE UNCHANGED vars
  BY <1>3, StutterInv
<1> QED
  BY <1>1, <1>2, <1>3 DEF Next

LEMMA InvHolds == Spec => []Inv
  BY InitInv, NextInv, PTL DEF Spec

-----------------------------------------------------------------------------
(* The theorems.                                                           *)

\* Every variable keeps the shape that the code's types and its structure give it: a thread in
\* a call has the Signal, the channel and the values that the rest of the call uses.
THEOREM ShapeHolds == Spec => []Shape
<1>1. Inv => Shape
  BY DEF Inv
<1> QED
  BY <1>1, InvHolds, PTL

LEMMA ContainsRange ==
  ASSUME NEW S, NEW l \in Seq(S), NEW e
  PROVE  Contains(l, e) <=> e \in Range(l)
  BY RangeOf DEF Contains

\* At rest nothing is on its way: what FollowInv promises has come.
LEMMA RestReached ==
  ASSUME Inv, Quiet, NEW s \in Subscribers, Follows(s)
  PROVE  /\ bus.m_lastValues # Null => bus.m_lastValues.value \in Range(subs[s].received)
         /\ \A k \in 1 .. Len(published) :
              k > since[s] => published[k] \in Range(subs[s].received)
<1>1. Shape /\ FollowInv /\ Keeps(s) /\ bus.m_signals # 0 /\ Contains(slots[bus.m_signals], s)
  BY DEF Inv, Follows, Keeps
<1>2. slots[bus.m_signals] \in Seq(Subscribers)
  <2>1. bus.m_signals \in 1 .. Len(slots)
    BY <1>1, LenProperties DEF Shape, RestOK, BusShape
  <2> QED
    BY <1>1, <2>1, ElementOfSeq DEF Shape, RestOK
<1>3. s \in Range(slots[bus.m_signals])
  BY <1>1, <1>2, ContainsRange
<1>4. Range(worker) = {} /\ \A t \in Threads : th[t].at = "idle"
  BY DEF Quiet, Range
<1>5. \A v : (Has(s, v) <=> v \in Range(subs[s].received)) /\ ~Coming(s, v) /\ ~Caching(s, v)
  BY <1>4 DEF Has, Coming, Caching, Brings, Reads
<1> QED
  BY <1>1, <1>3, <1>5 DEF FollowInv

\* However subscriptions, publications, delivery by another thread, a switched cache and resets
\* interleave, a subscriber that connected before it read the cache misses nothing.
THEOREM NothingMissed == Spec => []NoUpdateMissed
<1>1. Inv => NoUpdateMissed
  <2> SUFFICES ASSUME Inv, Quiet, NEW s \in Subscribers, Follows(s)
               PROVE  /\ bus.m_lastValues # Null =>
                           Contains(subs[s].received, bus.m_lastValues.value)
                      /\ \A k \in since[s] + 1 .. Len(published) :
                           Contains(subs[s].received, published[k])
    BY DEF NoUpdateMissed
  <2>1. subs[s].received \in Seq(Values) /\ since[s] \in Nat /\ Len(published) \in Nat
    BY LenProperties DEF Inv, Shape, RestOK, SubsOK
  <2>2. \A k \in since[s] + 1 .. Len(published) : k \in 1 .. Len(published) /\ k > since[s]
    BY <2>1
  <2> QED
    BY <2>1, <2>2, RestReached, ContainsRange
<1> QED
  BY <1>1, InvHolds, PTL

\* A guarded subscriber is left with the freshest value, though the cached one may arrive
\* after it and the numbers wrap, as long as no two are half a turn apart.
THEOREM FreshestStays == ASSUME Close PROVE Spec => []FreshestWins
<1>1. Inv => FreshestWins
  <2> SUFFICES ASSUME Inv, Quiet, NEW s \in Subscribers, Follows(s)
               PROVE  /\ bus.m_lastValues # Null =>
                           subs[s].guard # Null /\ subs[s].guard >= bus.m_lastValues.value
                      /\ \A v \in Range(subs[s].received) : subs[s].guard >= v
    BY DEF FreshestWins
  <2> QED
    BY RestReached DEF Inv, GuardInv
<1> QED
  BY <1>1, InvHolds, PTL

\* A publisher that is done has gone past everyone who was interested when it began, whoever
\* attached or detached meanwhile.
THEOREM PeersAreReached == Spec => []NoPeerSkipped
<1>1. Inv => NoPeerSkipped
  <2> SUFFICES ASSUME Inv, NEW t \in Threads, th[t].at = "remote", SkipsRemote(t),
                      ~th[t].localOnly, NEW p \in th[t].through
               PROVE  p \in th[t].reached
    BY DEF NoPeerSkipped
  <2>1. /\ th[t].i > Len(th[t].parties) /\ th[t].parties \in Seq(Parties)
        /\ th[t].i \in Nat /\ PeersOK(bus, th[t])
    BY DEF SkipsRemote, Peers, Inv, Shape, Fits, ThreadOK, PeersInv
  <2>2. p \in Range(th[t].parties)
    BY <2>1 DEF PeersOK
  <2>3. PICK k \in 1 .. Len(th[t].parties) : p = th[t].parties[k]
    BY <2>1, <2>2, RangeOf
  <2>4. k < th[t].i
    BY <2>1, LenProperties
  <2> QED
    BY <2>1, <2>3, <2>4 DEF PeersOK
<1> QED
  BY <1>1, InvHolds, PTL

\* A process whose incoming topics are not relayed sends nothing that came in, if others do
\* not send it what it publishes itself.
THEOREM NothingEchoes == ASSUME IncomingOnly PROVE Spec => []NoEcho
<1>1. Inv => NoEcho
  <2> SUFFICES ASSUME Inv, NEW x \in sent, x[2] \in arrived
               PROVE  FALSE
    BY DEF NoEcho
  <2>1. Shape /\ EchoData
    BY DEF Inv, EchoInv
  <2>2. "incoming" \in Funcs /\ x[2] \in Received
    BY <2>1 DEF EchoData
  <2>3. setup \in Setups
    BY <2>1 DEF Shape, RestOK
  <2>4. PICK c \in ProgramCalls : c.op = "handler" /\ c.func = "incoming"
    BY <2>2 DEF Funcs
  <2>5. \A d \in ProgramCalls :
          /\ d.op = "handler" => d.func = "incoming"
          /\ d.op \in {"publish", "publishLocal", "own"} =>
               \A e \in ProgramCalls : e.op = "incoming" => e.v # d.v
    BY <2>3, <2>4 DEF IncomingOnly, ProgramCalls
  <2>6. Funcs = {"incoming"}
    BY <2>2, <2>5 DEF Funcs
  <2>7. x[2] \in Made
    BY <2>1, <2>6 DEF EchoData
  <2> QED
    BY <2>2, <2>5, <2>7 DEF Received, Made
<1> QED
  BY <1>1, InvHolds, PTL

=============================================================================
