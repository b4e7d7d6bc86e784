-------------------------------- MODULE Timer --------------------------------
(***************************************************************************)
(* The timers of DelegateMQ: a list of timers behind one lock, threads     *)
(* that start, stop and destroy them, and threads that run                 *)
(* ProcessTimers(), which takes a snapshot of the expired timers' signals  *)
(* under the lock and invokes it after the lock is released.               *)
(*                                                                         *)
(* Start(), Stop(), the constructor and the destructor are one critical    *)
(* section each, and any thread, a callback included, may call them.       *)
(* ProcessTimers() is modelled step by step, as time passes while it holds *)
(* the lock.  The linked list is a sequence, its head first; a callback is *)
(* the timer whose signal it belongs to.                                   *)
(***************************************************************************)
EXTENDS Integers, FiniteSets, SequencesExt

CONSTANTS
  Timers,      \* the timer objects
  Processors,  \* the threads that call ProcessTimers()
  Timeouts,    \* the timeouts that clients use, in ticks; Start() throws for others
  Limits,      \* the values of MAX_TIMER_EXPIRED to consider
  MaxTime      \* bound: the clock stops there

ASSUME TimerAssumption ==
  /\ IsFiniteSet(Processors)
  /\ Timeouts \subseteq Nat \ {0}
  /\ Limits \subseteq Nat \ {0}
  /\ MaxTime \in Nat

VARIABLES
  maxExpired,      \* MAX_TIMER_EXPIRED, which the build fixes
  now,             \* what GetNow() returns
  alive,           \* the timers that have been constructed and not destroyed
  timers,          \* the list
  m_timeout,
  m_once,
  m_expireTime,
  m_enabled,
  m_timerStopped,  \* a timer of the list may be disabled
  pc,              \* where each processor is in ProcessTimers()
  cursor,          \* the position in the list of the one that holds the lock
  snapshots,       \* for each processor, the snapshots it has yet to invoke
  fault,           \* ASSERT_TRUE() has ended the program
  started,         \* history: when Start() was last called
  fired,           \* history: how often the timer has expired since
  stopped,         \* history: Stop() or the destructor was called since
  late             \* history: how many callbacks have begun after that

timerVars == <<m_timeout, m_once, m_expireTime, m_enabled>>
passVars == <<maxExpired, pc, cursor, snapshots>>
historyVars == <<started, fired, stopped, late>>
vars == <<now, alive, timers, timerVars, m_timerStopped, passVars, fault, historyVars>>

Init ==
  /\ maxExpired \in Limits
  /\ now = 0
  /\ alive = {}
  /\ timers = <<>>
  /\ m_timeout = [t \in Timers |-> 0]
  /\ m_once = [t \in Timers |-> FALSE]
  /\ m_expireTime = [t \in Timers |-> 0]
  /\ m_enabled = [t \in Timers |-> FALSE]
  /\ m_timerStopped = FALSE
  /\ pc = [p \in Processors |-> "idle"]
  /\ cursor = 1
  /\ snapshots = [p \in Processors |-> <<>>]
  /\ fault = FALSE
  /\ started = [t \in Timers |-> 0]
  /\ fired = [t \in Timers |-> 0]
  /\ stopped = {}
  /\ late = [t \in Timers |-> 0]

LockIsFree == \A p \in Processors : pc[p] = "idle"

Listed(t) == \E i \in 1..Len(timers) : timers[i] = t

(***************************************************************************)
(* The clients.                                                            *)
(***************************************************************************)
Construct(t) ==
  /\ LockIsFree
  /\ t \notin alive
  /\ alive' = alive \cup {t}
  /\ UNCHANGED <<now, timers, timerVars, m_timerStopped, passVars, fault, historyVars>>

\* Nothing is left of the fields: a new timer at this place starts anew.
ResetFields(t) ==
  /\ m_timeout' = [m_timeout EXCEPT ![t] = 0]
  /\ m_once' = [m_once EXCEPT ![t] = FALSE]
  /\ m_expireTime' = [m_expireTime EXCEPT ![t] = 0]
  /\ m_enabled' = [m_enabled EXCEPT ![t] = FALSE]
  /\ started' = [started EXCEPT ![t] = 0]
  /\ fired' = [fired EXCEPT ![t] = 0]

Destructor(t) ==
  /\ LockIsFree
  /\ t \in alive
  /\ alive' = alive \ {t}
  /\ \/ ~Listed(t) /\ UNCHANGED timers
     \/ \E i \in 1..Len(timers) : timers[i] = t /\ timers' = RemoveAt(timers, i)
  /\ ResetFields(t)
  /\ stopped' = stopped \cup {t}
  /\ UNCHANGED <<now, m_timerStopped, passVars, fault, late>>

\* Mutant: only the first call of Start() links the timer.
StartLinksOnce(t, timeout, once) ==
  /\ LockIsFree
  /\ t \in alive
  /\ m_timeout' = [m_timeout EXCEPT ![t] = timeout]
  /\ m_once' = [m_once EXCEPT ![t] = once]
  /\ m_expireTime' = [m_expireTime EXCEPT ![t] = now + timeout]
  /\ m_enabled' = [m_enabled EXCEPT ![t] = TRUE]
  /\ timers' = IF m_timeout[t] # 0 THEN timers ELSE <<t>> \o timers
  /\ started' = [started EXCEPT ![t] = now]
  /\ fired' = [fired EXCEPT ![t] = 0]
  /\ stopped' = stopped \ {t}
  /\ late' = [late EXCEPT ![t] = 0]
  /\ UNCHANGED <<now, alive, m_timerStopped, passVars, fault>>

Start(t, timeout, once) ==
  /\ LockIsFree
  /\ t \in alive
  /\ m_timeout' = [m_timeout EXCEPT ![t] = timeout]
  /\ m_once' = [m_once EXCEPT ![t] = once]
  /\ m_expireTime' = [m_expireTime EXCEPT ![t] = now + timeout]
  /\ m_enabled' = [m_enabled EXCEPT ![t] = TRUE]
  /\ timers' = IF Listed(t) THEN timers ELSE <<t>> \o timers
  /\ started' = [started EXCEPT ![t] = now]
  /\ fired' = [fired EXCEPT ![t] = 0]
  /\ stopped' = stopped \ {t}
  /\ late' = [late EXCEPT ![t] = 0]
  /\ UNCHANGED <<now, alive, m_timerStopped, passVars, fault>>

\* Mutant: the request to unlink the timer is left without its condition.
StopLeavesEnabled(t) ==
  /\ LockIsFree
  /\ t \in alive
  /\ m_timerStopped' = TRUE
  /\ stopped' = stopped \cup {t}
  /\ UNCHANGED <<now, alive, timers, timerVars, passVars, fault, started, fired, late>>

Stop(t) ==
  /\ LockIsFree
  /\ t \in alive
  /\ m_enabled' = [m_enabled EXCEPT ![t] = FALSE]
  /\ m_timerStopped' = TRUE
  /\ stopped' = stopped \cup {t}
  /\ UNCHANGED <<now, alive, timers, m_timeout, m_once, m_expireTime, passVars, fault,
                 started, fired, late>>

(***************************************************************************)
(* ProcessTimers().                                                        *)
(***************************************************************************)
BeginPass(p) ==
  /\ LockIsFree
  /\ snapshots[p] = <<>>
  /\ pc' = [pc EXCEPT ![p] = IF m_timerStopped THEN "unlinking" ELSE "checking"]
  /\ cursor' = 1
  /\ UNCHANGED <<now, alive, timers, timerVars, m_timerStopped, snapshots, maxExpired, fault,
                 historyVars>>

Unlink(p) ==
  /\ pc[p] = "unlinking"
  /\ cursor <= Len(timers)
  /\ IF m_enabled[timers[cursor]]
     THEN cursor' = cursor + 1 /\ UNCHANGED timers
     ELSE timers' = RemoveAt(timers, cursor) /\ UNCHANGED cursor
  /\ UNCHANGED <<now, alive, timerVars, m_timerStopped, pc, snapshots, maxExpired, fault,
                 historyVars>>

Unlinked(p) ==
  /\ pc[p] = "unlinking"
  /\ cursor > Len(timers)
  /\ m_timerStopped' = FALSE
  /\ pc' = [pc EXCEPT ![p] = "checking"]
  /\ cursor' = 1
  /\ UNCHANGED <<now, alive, timers, timerVars, snapshots, maxExpired, fault,
                 historyVars>>

\* Mutant: a timer that has fallen behind keeps the time of the pass, whether
\* its next deadline is over or not.
NextExpireTimeIsNow(t, later, latest) == latest

\* The next deadline of a periodic timer, by two more readings of the clock.
NextExpireTime(t, later, latest) ==
  LET next == m_expireTime[t] + m_timeout[t]
  IN IF later > next THEN latest ELSE next

\* Mutant: m_timerStopped is left as it is.
ExpireOnceWithoutFlag(t) ==
  /\ m_once[t]
  /\ m_enabled' = [m_enabled EXCEPT ![t] = FALSE]
  /\ UNCHANGED <<m_expireTime, m_timerStopped, now>>

ExpireOnce(t) ==
  /\ m_once[t]
  /\ m_enabled' = [m_enabled EXCEPT ![t] = FALSE]
  /\ m_timerStopped' = TRUE
  /\ UNCHANGED <<m_expireTime, now>>

ExpirePeriodic(t) ==
  /\ ~m_once[t]
  /\ \E later \in now..(now + 1) : \E latest \in later..(later + 1) :
       /\ latest <= MaxTime
       /\ m_expireTime' = [m_expireTime EXCEPT ![t] = NextExpireTime(t, later, latest)]
       /\ now' = latest
  /\ UNCHANGED <<m_enabled, m_timerStopped>>

HasExpired(t) == m_enabled[t] /\ now >= m_expireTime[t]

CheckExpired(p) ==
  /\ pc[p] = "checking"
  /\ cursor <= Len(timers)
  /\ Len(snapshots[p]) < maxExpired
  /\ LET t == timers[cursor]
     IN \/ /\ ~HasExpired(t)
           /\ UNCHANGED <<now, m_expireTime, m_enabled, m_timerStopped, snapshots, fired>>
        \/ /\ HasExpired(t)
           /\ ExpireOnce(t) \/ ExpirePeriodic(t)
           /\ snapshots' = [snapshots EXCEPT ![p] = Append(@, t)]
           /\ fired' = [fired EXCEPT ![t] = @ + 1]
  /\ cursor' = cursor + 1
  /\ UNCHANGED <<alive, timers, m_timeout, m_once, pc, maxExpired, fault, started, stopped, late>>

\* The test comes before the timer is looked at.
MaxTimerExpired(p) ==
  /\ pc[p] = "checking"
  /\ cursor <= Len(timers)
  /\ Len(snapshots[p]) >= maxExpired
  /\ fault' = TRUE
  /\ UNCHANGED <<now, alive, timers, timerVars, m_timerStopped, passVars, historyVars>>

Checked(p) ==
  /\ pc[p] = "checking"
  /\ cursor > Len(timers)
  /\ pc' = [pc EXCEPT ![p] = "idle"]
  /\ cursor' = 1
  /\ UNCHANGED <<now, alive, timers, timerVars, m_timerStopped, snapshots, maxExpired, fault,
                 historyVars>>

\* The callbacks of one timer; what they call is left to the clients' actions.
InvokeSnapshot(p) ==
  /\ pc[p] = "idle"
  /\ snapshots[p] # <<>>
  /\ snapshots' = [snapshots EXCEPT ![p] = Tail(@)]
  /\ LET t == Head(snapshots[p])
     IN late' = IF t \in stopped THEN [late EXCEPT ![t] = @ + 1] ELSE late
  /\ UNCHANGED <<now, alive, timers, timerVars, m_timerStopped, pc, cursor, maxExpired, fault,
                 started, fired, stopped>>

Tick ==
  /\ now < MaxTime
  /\ now' = now + 1
  /\ UNCHANGED <<alive, timers, timerVars, m_timerStopped, passVars, fault, historyVars>>

-----------------------------------------------------------------------------
ClientStep ==
  \E t \in Timers :
    \/ Construct(t)
    \/ Destructor(t)
    \/ \E timeout \in Timeouts, once \in BOOLEAN : Start(t, timeout, once)
    \/ Stop(t)

ProcessTimers(p) ==
  \/ BeginPass(p)
  \/ Unlink(p)
  \/ Unlinked(p)
  \/ CheckExpired(p)
  \/ MaxTimerExpired(p)
  \/ Checked(p)
  \/ InvokeSnapshot(p)

Next ==
  \/ ~fault /\ (ClientStep \/ Tick \/ \E p \in Processors : ProcessTimers(p))
  \/ fault /\ UNCHANGED vars

\* ProcessTimers() is called again and again, and the callbacks return.
Fairness == \A p \in Processors : WF_vars(~fault /\ ProcessTimers(p))

Spec == Init /\ [][Next]_vars /\ Fairness

-----------------------------------------------------------------------------
TypeOK ==
  /\ maxExpired \in Limits
  /\ now \in 0..MaxTime
  /\ alive \subseteq Timers
  /\ timers \in Seq(Timers)
  /\ m_timeout \in [Timers -> Timeouts \cup {0}]
  /\ m_once \in [Timers -> BOOLEAN]
  /\ m_expireTime \in [Timers -> Nat]
  /\ m_enabled \in [Timers -> BOOLEAN]
  /\ m_timerStopped \in BOOLEAN
  /\ pc \in [Processors -> {"idle", "unlinking", "checking"}]
  /\ cursor \in Nat \ {0}
  /\ snapshots \in [Processors -> Seq(Timers)]
  /\ fault \in BOOLEAN
  /\ started \in [Timers -> 0..MaxTime]
  /\ fired \in [Timers -> Nat]
  /\ stopped \subseteq Timers
  /\ late \in [Timers -> Nat]

\* The list is fit for the walks through it: no timer is linked twice, which
\* would make it a loop, none has been destroyed, every enabled timer is in it,
\* and a disabled one is in it only as long as a pass is due to unlink it.
ListConsistent ==
  /\ \A i, j \in 1..Len(timers) : timers[i] = timers[j] => i = j
  /\ \A i \in 1..Len(timers) :
       /\ timers[i] \in alive
       /\ m_enabled[timers[i]] \/ m_timerStopped
  /\ \A t \in Timers : m_enabled[t] => Listed(t)

\* However late the passes run, and however many threads run them, a timer has at no
\* moment expired more often than the time since Start() allows.  This bounds the rate
\* from Start() on, and no more: a timer that has fallen behind may fire twice in a row,
\* as its next deadline is set to now.
RateBounded == \A t \in Timers : fired[t] * m_timeout[t] <= now - started[t]

\* A one-shot timer expires once for each Start().
OneShotOnce == \A t \in Timers : m_once[t] => fired[t] <= 1

\* After Stop() or the destructor has returned, the callbacks of the timer begin
\* at most once more on each thread that runs ProcessTimers(): those of the
\* snapshot it had taken before.
LateCallsBounded == \A t \in Timers : late[t] <= Cardinality(Processors)

\* An expired timer is noticed, whatever clients do to it and to the others: once
\* the clock is at its bound, no timer stays expired for ever, unless the program
\* is ended by its assertion.
Serviced == \A t \in Timers : HasExpired(t) ~> ~HasExpired(t) \/ fault

\* The program is ended for too many expired timers only if a pass has found more
\* of them than MAX_TIMER_EXPIRED: the last, not yet counted, is in the list.
FaultOnlyWhenExceeded ==
  fault => \E p \in Processors, i \in 1..Len(timers) :
             /\ Len(snapshots[p]) >= maxExpired
             /\ i >= cursor
             /\ HasExpired(timers[i])
=============================================================================
