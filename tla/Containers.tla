------------------------------ MODULE Containers ------------------------------
(***************************************************************************)
(* The containers of delegates - MulticastDelegate, MulticastDelegateSafe, *)
(* UnicastDelegate, UnicastDelegateSafe and Signal - with the delegates of *)
(* Delegates in them, used by a thread of the program and by the callbacks *)
(* that run on it and on a worker thread.                                  *)
(*                                                                         *)
(* A delegate in a container is a clone on the heap, held by shared_ptr:   *)
(* "stored" maps the heap's slots to delegates, and a slot is free when    *)
(* nothing refers to it.  Two things refer without owning: the iterator of *)
(* a MulticastDelegate's broadcast, which walks the live list, and the     *)
(* message of a TimerDelegate, which carries its bare "this".              *)
(*                                                                         *)
(* Objects are owned by shared_ptr.  A delegate bound to a bare pointer is *)
(* one whose object the program keeps.                                     *)
(***************************************************************************)
EXTENDS Naturals, Sequences, SequencesExt, RemoteDelegates

CONSTANTS Setups,     \* the containers to model: [container, samples], where container is
                      \* one of the five classes and samples are the delegates that the
                      \* program inserts and removes
          Objects,    \* the objects that delegates are bound to
          Slots,      \* heap blocks for stored delegates (bound of the model)
          Empty,      \* an entry of a list whose shared_ptr has been reset
          MaxList,    \* entries of a container's list (bound of the model)
          MaxDepth,   \* nested calls on one thread (bound of the model)
          QueueSize   \* messages in the worker's queue before one is refused

ASSUME BoundsAssumption ==
  /\ Empty \notin Slots
  /\ {MaxList, MaxDepth, QueueSize} \subseteq Nat

Strong    == {"Member", "MemberAsync", "MemberAsyncWait", "MemberRemote", "TimerMember"}
Weak      == {"MemberSp", "MemberAsyncSp", "MemberAsyncWaitSp", "TimerMemberSp"}
Multicast == {"MulticastDelegate", "MulticastDelegateSafe"}
Unicast   == {"UnicastDelegate", "UnicastDelegateSafe"}

\* A delegate as MakeDelegate() returns it: only one of a member class is bound to an
\* object, and a copy of it has the same members.
Fresh(d) ==
  /\ {"class", "func", "object", "how", "gate"} \subseteq DOMAIN d
  /\ d = [x \in DOMAIN d |-> d[x]] /\ d.gate = FALSE
  /\ d.class \in Classes \cup RemoteClasses
  /\ d.object # Null => d.object \in Objects /\ d.class \in Strong \cup Weak
  /\ AnyClone(d) = d

\* With its gate open or closed.
Gated(d) == {[d EXCEPT !.gate = b] : b \in BOOLEAN}

ASSUME SetupsAssumption ==
  /\ Null \notin Objects
  /\ \A c \in Setups :
       /\ c.container \in Multicast \cup Unicast \cup {"Signal"}
       /\ \A d \in c.samples : Fresh(d) /\ Null \notin Gated(d)

Threads == {"main", "worker"}

VARIABLES
  setup,           \* the container of this behaviour and its delegates
  stored,          \* the delegate in each slot, or Null
  m_delegates,     \* the container's list: slots, or Empty
  other,           \* the list of a second container of the class, not invoked
  broadcastCount,  \* m_broadcastCount
  cleanup,         \* m_cleanup
  connections,     \* slots whose connection handle the program keeps (Signal)
  stack,           \* each thread's invocations, the innermost first
  queue,           \* the worker's messages: [d, from, timer]
  released,        \* objects that the program no longer owns
  dead             \* objects that have been destroyed

lists          == <<m_delegates, other, broadcastCount, cleanup, connections>>
containersVars == <<setup, stored, lists, stack, queue, released, dead>>

Container == setup.container
Samples   == setup.samples

\* An invocation: of a container (over its live list, or over a snapshot of it), or
\* Invoke() of a message.  "pos" is the next entry, "at" the one in use, and "runs" the
\* delegate whose target is running, or Null.
LiveFrame     == [over |-> "list", snapshot |-> <<>>, pos |-> 1, at |-> Empty,
                  runs |-> Null, waits |-> FALSE]
CopyFrame(s)  == [LiveFrame EXCEPT !.over = "copy", !.snapshot = s]
MessageFrame(m, d) == [LiveFrame EXCEPT !.over = "message", !.at = m.timer, !.runs = d]

ContainersInit ==
  /\ setup \in Setups
  /\ stored = [s \in Slots |-> Null]
  /\ m_delegates = <<>> /\ other = <<>>
  /\ broadcastCount = 0 /\ cleanup = FALSE
  /\ connections = {}
  /\ stack = [t \in Threads |-> <<>>]
  /\ queue = <<>>
  /\ released = {} /\ dead = {}

-----------------------------------------------------------------------------
(* References.                                                             *)

Frames  == UNION {Range(stack[t]) : t \in Threads}
Entries == (Range(m_delegates) \cup Range(other)) \ {Empty}

\* What an invocation holds: the copy of the entry that it calls, and its snapshot, which
\* MulticastDelegateSafe releases entry by entry.  operator() of a UnicastDelegate holds
\* nothing.
Held(f) ==
  IF f.over = "message" \/ Container = "UnicastDelegate" THEN {}
  ELSE {f.at} \cup {f.snapshot[i] : i \in {j \in DOMAIN f.snapshot :
                                            Container = "Signal" \/ j >= f.pos}}

\* The slots that a shared_ptr keeps.
Referenced == (Entries \cup connections \cup UNION {Held(f) : f \in Frames}) \ {Empty}

\* The slots that are used without one.
Bare == {m.timer : m \in Range(queue)} \cup {f.at : f \in Frames}

\* A destroyed delegate is being called: what follows is undefined.
Dangling == \E f \in Frames : f.at # Empty /\ stored[f.at] = Null

\* Slots for n new clones; an address that a message still carries is not used again.
FreeSlots(n) == LET free == Slots \ (Referenced \cup Bare)
                IN  {s \in [1 .. n -> free] : \A i, j \in 1 .. n : s[i] = s[j] => i = j}

\* The owners of an object: a member delegate bound by shared_ptr, in a container or in a
\* message, of which a TimerDelegate's carries none, and the lock on a weak pointer while
\* its target runs.
Owners(o) ==
  LET held   == {stored[s] : s \in Referenced}
                  \cup {m.d : m \in {n \in Range(queue) : n.timer = Empty}}
                  \cup {f.runs : f \in {g \in Frames : g.over = "message" /\ g.at = Empty}}
      locked == {f.runs : f \in Frames}
  IN  {d \in held : d # Null /\ d.object = o
                    /\ d.class \in Strong}
      \cup {d \in locked : d # Null /\ d.object = o /\ d.class \in Weak}

\* The rest of every step: slots without an owner are freed, objects without one die.
Settle(heap) ==
  /\ UNCHANGED setup
  /\ stored' = [s \in Slots |-> IF s \in Referenced' THEN heap[s] ELSE Null]
  /\ dead' = dead \cup {o \in released' : Owners(o)' = {}}

-----------------------------------------------------------------------------
(* The lists.                                                              *)

\* A thread may use the container when it runs the program's code: outside any call, or
\* in a target.  The classes that are not thread-safe stay on one thread.
Idle(t) == IF stack[t] = <<>> THEN t = "main"
           ELSE Head(stack[t]).runs # Null /\ ~Head(stack[t]).waits
MayUse(t) == /\ ~Dangling /\ Idle(t)
             /\ Container \in {"MulticastDelegate", "UnicastDelegate"} => t = "main"

Usable(d) == d.object \notin released

Filled(slots, ds) == [s \in Slots |-> IF s \in Range(slots)
                                      THEN AnyClone(ds[CHOOSE i \in DOMAIN slots : slots[i] = s])
                                      ELSE stored[s]]

\* MulticastPushBack().
MulticastPushBack(d) ==
  \E s \in FreeSlots(1) :
    /\ Len(m_delegates) < MaxList
    /\ m_delegates' = m_delegates \o s
    /\ UNCHANGED <<other, broadcastCount, cleanup, connections, stack, queue, released>>
    /\ Settle(Filled(s, <<d>>))

PushBack(t, d) == Container \in Multicast /\ MayUse(t) /\ Usable(d) /\ MulticastPushBack(d)

\* Mutant: a reset entry is not remembered.
ClearMarksNot == cleanup
ClearMarks == cleanup \/ broadcastCount > 0

\* Mutant: the entry is erased under a broadcast.
ErasedAtOnce(it) == RemoveAt(m_delegates, it)
\* What the removal of an entry leaves: it is only reset when a broadcast walks the list.
Erased(it) ==
  IF broadcastCount > 0 THEN [m_delegates EXCEPT ![it] = Empty] ELSE RemoveAt(m_delegates, it)

\* The first equal entry is removed.
MulticastRemove(d) ==
  LET same == {i \in DOMAIN m_delegates :
                 m_delegates[i] # Empty /\ AnyEqual(stored[m_delegates[i]], d, dead)}
      it   == CHOOSE i \in same : \A j \in same : i <= j
  IN /\ same # {}
     /\ m_delegates' = Erased(it) /\ cleanup' = ClearMarks
     /\ UNCHANGED <<other, broadcastCount, connections, stack, queue, released>>
     /\ Settle(stored)

RemoveDelegate(t, d) == /\ Container \in Multicast /\ MayUse(t)
                        /\ Usable(d) \/ d.class \in Weak
                        /\ MulticastRemove(d)

\* Mutant: the list is emptied under a broadcast.
MulticastClearAll == <<>>
\* MulticastClear(): what it leaves of the list.
MulticastClear == IF broadcastCount > 0 THEN [i \in DOMAIN m_delegates |-> Empty] ELSE <<>>

ClearContainer(t) ==
  /\ Container \in Multicast /\ MayUse(t)
  /\ m_delegates' = MulticastClear /\ cleanup' = ClearMarks
  /\ UNCHANGED <<other, broadcastCount, connections, stack, queue, released>>
  /\ Settle(stored)

\* What a list keeps when every entry s is taken out.
Without(list, s) ==
  LET Kept[n \in 0 .. Len(list)] ==
        IF n = 0 THEN <<>>
        ELSE IF list[n] = s THEN Kept[n - 1] ELSE Append(Kept[n - 1], list[n])
  IN  Kept[Len(list)]

Present(list) == Without(list, Empty)

\* MulticastCopyFrom(), into the second container: clones of the entries that are there.
CopyFrom(t) ==
  /\ Container \in Multicast /\ MayUse(t)
  /\ LET src == Present(m_delegates)
     IN \E s \in FreeSlots(Len(src)) :
          /\ other' = s
          /\ UNCHANGED <<m_delegates, broadcastCount, cleanup, connections, stack, queue,
                         released>>
          /\ Settle(Filled(s, [i \in DOMAIN src |-> stored[src[i]]]))

\* The move assignment from it: under a broadcast the entries are appended to the reset
\* ones, and otherwise they are the list.
MoveFrom(t) ==
  /\ Container \in Multicast /\ MayUse(t) /\ other # <<>>
  /\ Len(MulticastClear) + Len(other) <= MaxList
  /\ m_delegates' = MulticastClear \o other /\ cleanup' = ClearMarks /\ other' = <<>>
  /\ UNCHANGED <<broadcastCount, connections, stack, queue, released>>
  /\ Settle(stored)

\* The copy assignment from a container that holds d.
CopyAssign(t, d) ==
  /\ Container \in Multicast /\ MayUse(t) /\ Usable(d)
  /\ Len(MulticastClear) < MaxList
  /\ \E s \in FreeSlots(1) :
       /\ m_delegates' = MulticastClear \o s /\ cleanup' = ClearMarks
       /\ UNCHANGED <<other, broadcastCount, connections, stack, queue, released>>
       /\ Settle(Filled(s, <<d>>))

\* UnicastDelegate: the one delegate is replaced, or dropped.
UnicastAssign(t, d) ==
  /\ Container \in Unicast /\ MayUse(t) /\ Usable(d)
  /\ \E s \in FreeSlots(1) :
       /\ m_delegates' = s
       /\ UNCHANGED <<other, broadcastCount, cleanup, connections, stack, queue, released>>
       /\ Settle(Filled(s, <<d>>))

UnicastClear(t) ==
  /\ Container \in Unicast /\ MayUse(t) /\ m_delegates # <<>>
  /\ m_delegates' = <<>>
  /\ UNCHANGED <<other, broadcastCount, cleanup, connections, stack, queue, released>>
  /\ Settle(stored)

\* Signal: the entry and its handle share the clone, which is the entry's identity.
SignalConnect(t, d) ==
  /\ Container = "Signal" /\ MayUse(t) /\ Usable(d) /\ Len(m_delegates) < MaxList
  /\ \E s \in FreeSlots(1) :
       /\ m_delegates' = m_delegates \o s
       /\ connections' = connections \cup Range(s)
       /\ UNCHANGED <<other, broadcastCount, cleanup, stack, queue, released>>
       /\ Settle(Filled(s, <<d>>))

Disconnect(t) ==
  /\ Container = "Signal" /\ MayUse(t)
  /\ \E s \in connections :
       /\ connections' = connections \ {s}
       /\ m_delegates' = Without(m_delegates, s)
  /\ UNCHANGED <<other, broadcastCount, cleanup, stack, queue, released>>
  /\ Settle(stored)

\* Clear(), and the destructor: the handles outlive the list that they were in.
SignalClear(t) ==
  /\ Container = "Signal" /\ MayUse(t) /\ m_delegates # <<>>
  /\ m_delegates' = <<>>
  /\ UNCHANGED <<other, broadcastCount, cleanup, connections, stack, queue, released>>
  /\ Settle(stored)

Release(o) ==
  /\ ~Dangling /\ o \notin released /\ released' = released \cup {o}
  /\ UNCHANGED <<lists, stack, queue>>
  /\ Settle(stored)

-----------------------------------------------------------------------------
(* operator() of the containers.                                           *)

Push(t, f)    == stack' = [stack EXCEPT ![t] = <<f>> \o @]
Pop(t)        == stack' = [stack EXCEPT ![t] = Tail(@)]
Replace(t, f) == stack' = [stack EXCEPT ![t] = <<f>> \o Tail(@)]

\* BroadcastGuard counts the walks over the live list; the others take a snapshot under
\* their lock and call without it.
Broadcast(t) ==
  /\ MayUse(t) /\ Len(stack[t]) < MaxDepth /\ m_delegates # <<>>
  /\ IF Container = "MulticastDelegate"
     THEN broadcastCount' = broadcastCount + 1 /\ Push(t, LiveFrame)
     ELSE Push(t, CopyFrame(m_delegates)) /\ UNCHANGED broadcastCount
  /\ UNCHANGED <<m_delegates, other, cleanup, connections, queue, released>>
  /\ Settle(stored)

Between(t) == /\ ~Dangling /\ stack[t] # <<>> /\ Head(stack[t]).over # "message"
              /\ Head(stack[t]).runs = Null /\ ~Head(stack[t]).waits

Walked(f) == IF f.over = "list" THEN m_delegates ELSE f.snapshot

AtEnd(f) == f.pos > Len(Walked(f))

\* The slot of a TimerDelegate's message is its "this", and d what "this" is there.
Message(d, from, timer) == [d |-> d, from |-> from, timer |-> timer]

\* DispatchDelegate(): a full queue refuses.
Dispatched(m) == IF Len(queue) < QueueSize THEN Append(queue, m) ELSE queue

\* The next entry is called.
CallNext(t) ==
  LET f == Head(stack[t])
      s == Walked(f)[f.pos]
      g == [f EXCEPT !.pos = @ + 1, !.at = s]
      d == stored[s]
      what == IF s = Empty THEN "skip" ELSE AnyCall(d, dead)
      m == CASE what = "fire" -> Message(d, "async", s)
             [] what = "wait" -> Message(Clone(d), t, Empty)
             [] OTHER -> Message(Clone(d), "async", Empty)
  IN /\ Between(t) /\ ~AtEnd(f)
     /\ queue' = IF what \in {"dispatch", "wait", "fire"} THEN Dispatched(m) ELSE queue
     /\ Replace(t, CASE what = "run" -> [g EXCEPT !.runs = d]
                     [] what = "wait" /\ queue' # queue -> [g EXCEPT !.waits = TRUE]
                     [] OTHER -> [g EXCEPT !.at = Empty])
     /\ UNCHANGED <<lists, released>>
     /\ Settle(IF what = "fire" /\ queue' # queue
               THEN [stored EXCEPT ![s].gate = TRUE] ELSE stored)

\* A target that ran on this thread has returned.
TargetReturns(t) ==
  /\ ~Dangling /\ stack[t] # <<>> /\ Head(stack[t]).over # "message"
  /\ Head(stack[t]).runs # Null
  /\ Replace(t, [Head(stack[t]) EXCEPT !.runs = Null, !.at = Empty])
  /\ UNCHANGED <<lists, queue, released>>
  /\ Settle(stored)

\* The wait of a blocking delegate times out: its message, if it is still queued, will
\* not be invoked.  (An invocation that has begun is waited for: AsyncWait.)
Abandoned(t) == [i \in DOMAIN queue |->
                   IF queue[i].from = t THEN [queue[i] EXCEPT !.from = "gone"] ELSE queue[i]]

WaitTimesOut(t) ==
  /\ ~Dangling /\ stack[t] # <<>> /\ Head(stack[t]).waits
  /\ \E m \in Range(queue) : m.from = t
  /\ queue' = Abandoned(t)
  /\ Replace(t, [Head(stack[t]) EXCEPT !.waits = FALSE, !.at = Empty])
  /\ UNCHANGED <<lists, released>>
  /\ Settle(stored)

\* The end of the walk.  ~BroadcastGuard() of the outermost one takes the reset entries out.
Leave(t) ==
  /\ Between(t) /\ AtEnd(Head(stack[t]))
  /\ Pop(t)
  /\ IF Head(stack[t]).over # "list" THEN UNCHANGED <<m_delegates, broadcastCount, cleanup>>
     ELSE /\ broadcastCount' = broadcastCount - 1
          /\ IF broadcastCount' = 0 /\ cleanup
             THEN m_delegates' = Present(m_delegates) /\ cleanup' = FALSE
             ELSE UNCHANGED <<m_delegates, cleanup>>
  /\ UNCHANGED <<other, connections, queue, released>>
  /\ Settle(stored)

-----------------------------------------------------------------------------
(* The worker thread.                                                      *)

Wakes(from) == IF from \in Threads /\ Head(stack[from]).waits
               THEN [stack EXCEPT ![from] = <<[Head(@) EXCEPT !.waits = FALSE, !.at = Empty]>>
                                            \o Tail(@)]
               ELSE stack

\* Invoke() of the next message.  One that is not invoked is destroyed at once, and its
\* caller, if it waits, goes on.  The function of a TimerDelegate's message is
\* InvokeTarget(), whether the delegate is bound or not.
Take ==
  LET m == Head(queue)
      runs == Invoke(m.d, dead) = "run"
  IN /\ ~Dangling /\ stack["worker"] = <<>> /\ queue # <<>>
     /\ queue' = Tail(queue) /\ UNCHANGED <<lists, released>>
     /\ IF m.from # "gone" /\ (runs \/ m.timer # Empty)
        THEN Push("worker", MessageFrame(m, IF runs THEN m.d ELSE Null))
        ELSE stack' = Wakes(m.from)
     /\ Settle(stored)

\* The target of a message has returned, and the message is destroyed: the token of a
\* TimerDelegate expires, and the caller of a blocking delegate wakes up.
InvokeReturns ==
  LET f == stack["worker"][1]
  IN /\ ~Dangling /\ stack["worker"] # <<>> /\ Len(stack["worker"]) = 1
     /\ f.over = "message"
     /\ stack' = [t \in Threads |->
                    IF t = "worker" THEN <<>>
                    ELSE IF stack[t] # <<>> /\ Head(stack[t]).waits
                            /\ ~ \E m \in Range(queue) : m.from = t
                         THEN <<[Head(stack[t]) EXCEPT !.waits = FALSE, !.at = Empty]>>
                              \o Tail(stack[t])
                    ELSE stack[t]]
     /\ UNCHANGED <<lists, queue, released>>
     /\ Settle(IF f.at = Empty THEN stored ELSE [stored EXCEPT ![f.at].gate = FALSE])

-----------------------------------------------------------------------------
Modify(t) ==
  \/ \E d \in Samples : PushBack(t, d) \/ RemoveDelegate(t, d) \/ UnicastAssign(t, d)
                        \/ SignalConnect(t, d) \/ CopyAssign(t, d)
  \/ ClearContainer(t) \/ CopyFrom(t) \/ MoveFrom(t)
  \/ UnicastClear(t) \/ Disconnect(t) \/ SignalClear(t)

Invocation(t) == Broadcast(t) \/ CallNext(t) \/ TargetReturns(t) \/ WaitTimesOut(t) \/ Leave(t)

ContainersNext ==
  \/ \E t \in Threads : Modify(t) \/ Invocation(t)
  \/ \E o \in Objects : Release(o)
  \/ Take \/ InvokeReturns

ContainersSpec == ContainersInit /\ [][ContainersNext]_containersVars

-----------------------------------------------------------------------------
\* The reentrancy of MulticastDelegate.  While a target changes the list under it, an
\* iterator stays within the list, at most one past its end; and when the last walk is
\* over, no entry is left without a delegate, so that Size() and Empty() tell the truth.
ListFitsBroadcasts ==
  /\ \A t \in Threads : \A i \in DOMAIN stack[t] :
       stack[t][i].over = "list" => stack[t][i].pos <= Len(m_delegates) + 1
  /\ broadcastCount = 0 => Empty \notin Range(m_delegates)

\* Nor is a target called twice or left out because another one changed the list: from
\* the beginning of the outermost walk to its end an entry keeps its place, or is reset,
\* and what is inserted comes after all of them.
EntriesKeepTheirPlace ==
  [][broadcastCount > 0 /\ broadcastCount' > 0 =>
       \A i \in DOMAIN m_delegates : /\ i \in DOMAIN m_delegates'
                                     /\ m_delegates'[i] \in {m_delegates[i], Empty}]_containersVars

\* A target is never run on an object that was destroyed before the call, at whatever time
\* between the insertion, the dispatch and the invocation the program lets go of it.
NoCallOnDeadObject ==
  ~Dangling => \A t \in Threads : \A i \in DOMAIN stack[t] :
    stack[t][i].runs # Null => stack[t][i].runs.object \notin dead

\* PacedDispatch: the gate of a TimerDelegate is closed only while a message of it exists,
\* queued or running.  One that stayed closed would never fire again.
GateOpens ==
  \A s \in Slots :
    stored[s] # Null /\ stored[s].gate => \/ \E i \in DOMAIN queue : queue[i].timer = s
                                          \/ \E f \in Frames : f.over = "message" /\ f.at = s
=============================================================================
