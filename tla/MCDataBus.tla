------------------------------ MODULE MCDataBus ------------------------------
EXTENDS DataBus

\* Three consecutive sequence numbers of three bits: 7, 0 and 1.
MCValues == 7 .. 9

MCSubscribe(s)   == [op |-> "subscribe", s |-> s, type |-> "T"]
MCPublish(v)     == [op |-> "publish", v |-> v, type |-> "T"]
MCOf(op, p)      == [op |-> op, p |-> p]
MCRemote(p)      == [op |-> "remote", p |-> p, id |-> 1]
MCTyped(op, T)   == [op |-> op, type |-> T]
MCHandler(p, f)  == [op |-> "handler", p |-> p, id |-> 1, type |-> "T", func |-> f]
MCIncoming(seq, v, read) == [op |-> "incoming", p |-> "p", id |-> 1, seq |-> seq, v |-> v,
                             read |-> read, marker |-> TRUE, result |-> 0]
MCOwn(class, v)  == [op |-> "own", class |-> class, v |-> v, catches |-> class # "FreeRemote"]
MCPlain(op)      == [op |-> op]
MCCache(e)       == [op |-> "cache", enabled |-> e]
MCContinuous(e)  == [op |-> "continuous", enabled |-> e]

MCQos(thread) == [lastValueCache |-> TRUE, lifespan |-> Null, minSeparation |-> Null,
                  filter |-> Values, thread |-> thread]
MCPlainQos    == [s \in Subscribers |-> MCQos(s = "s2")]

MCSetup(a, b) == [program |-> [t \in Threads |-> IF t = "t1" THEN a ELSE b],
                  qos |-> MCPlainQos, write |-> [v \in Values |-> "ok"], dispatch |-> {0},
                  sendThread |-> FALSE, ticks |-> 0]

\* What every sending program does first.
MCOutgoing == <<MCTyped("serializer", "T"), MCRemote("p"), MCOf("attach", "p")>>

MCSetups == {
  \* the last value cache against a publisher
  MCSetup(<<MCCache(TRUE), MCPublish(7), MCPublish(8), MCPublish(9)>>,
          <<MCSubscribe("s1"), MCSubscribe("s2")>>),
  MCSetup(<<MCSubscribe("s2"), MCPublish(7), MCPublish(8)>>,
          <<MCPublish(9), MCSubscribe("s1"), [op |-> "unsubscribe", s |-> "s2"]>>),
  \* the cache switched off and on, and a reset
  MCSetup(<<MCSubscribe("s1"), MCPublish(7), MCCache(FALSE), MCPublish(8), MCCache(TRUE)>>,
          <<MCSubscribe("s2"), MCPlain("reset"), MCSubscribe("s1")>>),
  \* lifespan, minimum separation and filter
  [MCSetup(<<MCCache(TRUE), MCPublish(7), MCPublish(8), MCPublish(9)>>,
           <<MCSubscribe("s1"), MCSubscribe("s2")>>)
     EXCEPT !.qos["s1"].lifespan = 1, !.qos["s2"].minSeparation = 1,
            !.qos["s2"].filter = {8, 9}, !.ticks = 2],
  \* participants that come and go, with and without a send thread
  MCSetup(MCOutgoing \o <<MCPublish(7), MCPublish(8)>>,
          <<MCRemote("q"), MCOf("attach", "q"), MCOf("detach", "p"), MCOf("detach", "q")>>),
  [MCSetup(MCOutgoing \o <<MCPublish(7), MCOf("detach", "p")>>,
           <<MCRemote("q"), MCOf("attach", "q"), MCPublish(8), MCPlain("monitor"),
             MCPublish(9)>>)
     EXCEPT !.sendThread = TRUE, !.dispatch = {0, -1}],
  \* no serializer, a third participant, continuous errors
  MCSetup(<<MCContinuous(TRUE), MCRemote("p"), MCOf("attach", "p"), MCPublish(7),
            MCTyped("serializer", "T"), MCPublish(8)>>,
          <<MCOf("attach", "q"), MCTyped("stringifier", "T"), MCContinuous(FALSE),
            MCOf("attach", "r")>>),
  \* a topic that is both incoming and outgoing
  MCSetup(MCOutgoing \o <<MCRemote("q"), MCOf("attach", "q"), MCPublish(7)>>,
          <<MCHandler("p", "incoming"), MCIncoming(1, 8, "ok"), MCIncoming(1, 8, "ok"),
            [MCIncoming(2, 9, "ok") EXCEPT !.marker = FALSE], MCIncoming(2, 9, "fails"),
            MCIncoming(3, 9, "bad")>>),
  \* AddRelayTopic(): RegisterHandler(), then AddRemoteTopic()
  MCSetup(MCOutgoing \o <<MCSubscribe("s1"), MCIncoming(1, 7, "ok")>>,
          <<MCHandler("p", "relay"), MCRemote("p"), MCIncoming(2, 8, "ok"),
            MCIncoming(3, 9, "throws"), [op |-> "publishLocal", v |-> 9, type |-> "T"]>>),
  \* a topic and a channel used with another type
  MCSetup(<<MCSubscribe("s1"), MCPublish(7), MCTyped("stringifier", "U")>>,
          <<[op |-> "publish", v |-> 8, type |-> "U"]>>),
  MCSetup(MCOutgoing \o <<MCPublish(7)>>,
          <<[MCHandler("p", "incoming") EXCEPT !.type = "U"], MCTyped("serializer", "U")>>),
  \* delegates of the program's own
  [MCSetup(<<MCOwn("MemberRemote", 7), MCOwn("FunctionRemote", 8)>>, <<MCOwn("FreeRemote", 9)>>)
     EXCEPT !.write[8] = "throws", !.dispatch = {0, -1}]}

\* A value that the serializer refuses is followed by one that it takes.
MCRefusingSetups == {
  [MCSetup(MCOutgoing \o <<MCPublish(7), MCPublish(8), MCPublish(9)>>, <<>>)
     EXCEPT !.write[8] = "fails"]}
=============================================================================
