------------------------ MODULE TimerContainersProofs ------------------------
(***************************************************************************)
(* Theorems about Timer, for any timers, timeouts, limits and numbers of   *)
(* threads that run ProcessTimers(), and about Containers, for any         *)
(* delegates, objects, slots, list lengths, call depths and queue sizes.   *)
(***************************************************************************)
EXTENDS Timer, Containers, SequenceTheorems, FiniteSetTheorems, WellFoundedInduction, TLAPS

\* What is left of a sequence without one of its elements.
LEMMA RemoveAtIsSeq ==
  ASSUME NEW S, NEW s \in Seq(S), NEW i \in 1..Len(s)
  PROVE  /\ RemoveAt(s, i) \in Seq(S)
         /\ Len(RemoveAt(s, i)) = Len(s) - 1
         /\ \A j \in 1..(Len(s) - 1) :
              RemoveAt(s, i)[j] = IF j < i THEN s[j] ELSE s[j + 1]
<1> DEFINE front == SubSeq(s, 1, i - 1)
           back == SubSeq(s, i + 1, Len(s))
<1>1. front \in Seq(S) /\ Len(front) = i - 1
  OBVIOUS
<1>2. back \in Seq(S) /\ Len(back) = Len(s) - i
  OBVIOUS
<1>3. \A j \in 1..(i - 1) : front[j] = s[j]
  OBVIOUS
<1>4. \A j \in 1..(Len(s) - i) : back[j] = s[i + j]
  OBVIOUS
<1>5. RemoveAt(s, i) = front \o back
  BY DEF RemoveAt
<1>6. i \in Int /\ Len(s) \in Nat /\ 1 <= i /\ i <= Len(s)
  OBVIOUS
<1> HIDE DEF front, back
<1>7. /\ front \o back \in Seq(S)
      /\ Len(front \o back) = Len(front) + Len(back)
      /\ \A j \in 1..(Len(front) + Len(back)) :
           (front \o back)[j] = IF j <= Len(front) THEN front[j] ELSE back[j - Len(front)]
  BY <1>1, <1>2, ConcatProperties
<1>8. Len(front) + Len(back) = Len(s) - 1
  BY <1>1, <1>2, <1>6
<1>9. ASSUME NEW j \in 1..(Len(s) - 1)
      PROVE  (front \o back)[j] = IF j < i THEN s[j] ELSE s[j + 1]
  <2>1. CASE j < i
    BY <2>1, <1>1, <1>3, <1>6, <1>7, <1>8
  <2>2. CASE j >= i
    <3>1. (front \o back)[j] = back[j - Len(front)]
      BY <2>2, <1>1, <1>6, <1>7, <1>8
    <3>2. j - Len(front) \in 1..(Len(s) - i) /\ i + (j - Len(front)) = j + 1
      BY <2>2, <1>1, <1>6
    <3>3. back[j - Len(front)] = s[i + (j - Len(front))]
      BY <3>2, <1>4
    <3>4. s[i + (j - Len(front))] = s[j + 1] /\ ~ (j < i)
      BY <2>2, <3>2, <1>6
    <3> QED
      BY <3>1, <3>3, <3>4
  <2>3. j < i \/ j >= i
    BY <1>6
  <2> QED
    BY <2>1, <2>2, <2>3
<1> QED
  BY <1>5, <1>7, <1>8, <1>9

-----------------------------------------------------------------------------
\* The type invariant in three parts: the list and where a pass is in it, the
\* fields of the timers with their history, and the rest.
ListTypes ==
  /\ timers \in Seq(Timers)
  /\ cursor \in Nat \ {0}
  /\ snapshots \in [Processors -> Seq(Timers)]
  /\ maxExpired \in Limits

FieldTypes ==
  /\ now \in 0..MaxTime
  /\ m_timeout \in [Timers -> Timeouts \cup {0}]
  /\ m_expireTime \in [Timers -> Nat]
  /\ started \in [Timers -> 0..MaxTime]
  /\ fired \in [Timers -> Nat]
  /\ late \in [Timers -> Nat]

FlagTypes ==
  /\ alive \subseteq Timers
  /\ m_once \in [Timers -> BOOLEAN]
  /\ m_enabled \in [Timers -> BOOLEAN]
  /\ m_timerStopped \in BOOLEAN
  /\ pc \in [Processors -> {"idle", "unlinking", "checking"}]
  /\ fault \in BOOLEAN
  /\ stopped \subseteq Timers

LEMMA TypeParts == TypeOK <=> ListTypes /\ FieldTypes /\ FlagTypes
BY DEF TypeOK, ListTypes, FieldTypes, FlagTypes

\* The constants that are numbers.
LEMMA Numbers == Timeouts \subseteq Nat /\ Limits \subseteq Nat /\ MaxTime \in Nat
BY TimerAssumption

LEMMA ListTypesKept == ListTypes /\ FlagTypes /\ [Next]_vars => ListTypes'
<1> SUFFICES ASSUME ListTypes, FlagTypes, [Next]_vars PROVE ListTypes'
  OBVIOUS
<1> USE DEF ListTypes
<1>1. ASSUME NEW t \in Timers, Construct(t) \/ Stop(t) PROVE ListTypes'
  BY <1>1 DEF Construct, Stop, passVars
<1>2. ASSUME NEW t \in Timers, Destructor(t) PROVE ListTypes'
  BY <1>2, RemoveAtIsSeq DEF Destructor, passVars
<1>3. ASSUME NEW t \in Timers, NEW timeout, NEW once, Start(t, timeout, once)
      PROVE  ListTypes'
  <2>1. <<t>> \o timers \in Seq(Timers)
    BY ConcatProperties
  <2> QED
    BY <1>3, <2>1 DEF Start, passVars
<1>4. ASSUME NEW p \in Processors,
             BeginPass(p) \/ Unlinked(p) \/ MaxTimerExpired(p) \/ Checked(p)
      PROVE  ListTypes'
  BY <1>4 DEF BeginPass, Unlinked, MaxTimerExpired, Checked, passVars
<1>5. ASSUME NEW p \in Processors, Unlink(p) PROVE ListTypes'
  <2>1. cursor \in 1..Len(timers)
    BY <1>5, LenProperties DEF Unlink
  <2>2. CASE m_enabled[timers[cursor]]
    BY <1>5, <2>2 DEF Unlink, passVars
  <2>3. CASE ~m_enabled[timers[cursor]]
    BY <1>5, <2>1, <2>3, RemoveAtIsSeq DEF Unlink, passVars
  <2> QED
    BY <2>2, <2>3
<1>6. ASSUME NEW p \in Processors, CheckExpired(p) PROVE ListTypes'
  <2>1. timers[cursor] \in Timers
    BY <1>6, LenProperties, ElementOfSeq DEF CheckExpired
  <2>2. Append(snapshots[p], timers[cursor]) \in Seq(Timers)
    BY <2>1, AppendProperties
  <2>3. snapshots' \in [Processors -> Seq(Timers)]
    BY <1>6, <2>2 DEF CheckExpired
  <2>4. cursor' = cursor + 1 /\ UNCHANGED <<timers, maxExpired>>
    BY <1>6 DEF CheckExpired
  <2> QED
    BY <2>3, <2>4
<1>7. ASSUME NEW p \in Processors, InvokeSnapshot(p) PROVE ListTypes'
  <2>1. Tail(snapshots[p]) \in Seq(Timers)
    BY <1>7, HeadTailProperties DEF InvokeSnapshot
  <2> QED
    BY <1>7, <2>1 DEF InvokeSnapshot
<1>8. CASE Tick \/ UNCHANGED vars
  BY <1>8 DEF Tick, vars, passVars
<1> QED
  BY <1>1, <1>2, <1>3, <1>4, <1>5, <1>6, <1>7, <1>8 DEF Next, ClientStep, ProcessTimers

LEMMA FlagTypesKept == ListTypes /\ FlagTypes /\ [Next]_vars => FlagTypes'
<1> SUFFICES ASSUME ListTypes, FlagTypes, [Next]_vars PROVE FlagTypes'
  OBVIOUS
<1> USE DEF FlagTypes, timerVars, passVars, historyVars
<1>1. ASSUME NEW t \in Timers, Construct(t) \/ Destructor(t) \/ Stop(t) PROVE FlagTypes'
  BY <1>1 DEF Construct, Destructor, ResetFields, Stop
<1>2. ASSUME NEW t \in Timers, NEW timeout, NEW once \in BOOLEAN, Start(t, timeout, once)
      PROVE  FlagTypes'
  BY <1>2 DEF Start
<1>3. ASSUME NEW p \in Processors,
             BeginPass(p) \/ Unlink(p) \/ MaxTimerExpired(p) \/ InvokeSnapshot(p)
      PROVE  FlagTypes'
  BY <1>3 DEF BeginPass, Unlink, MaxTimerExpired, InvokeSnapshot
<1>4. ASSUME NEW p \in Processors, Unlinked(p) \/ Checked(p) PROVE FlagTypes'
  BY <1>4, Zenon DEF Unlinked, Checked
<1>5. ASSUME NEW p \in Processors, CheckExpired(p) PROVE FlagTypes'
  BY <1>5 DEF CheckExpired, ExpireOnce, ExpirePeriodic
<1>6. CASE Tick \/ UNCHANGED vars
  BY <1>6 DEF Tick, vars
<1> QED
  BY <1>1, <1>2, <1>3, <1>4, <1>5, <1>6 DEF Next, ClientStep, ProcessTimers

\* A pass that looks at a timer: it has expired or it is left alone.
LEMMA CheckExpiredLemma ==
  ASSUME ListTypes, NEW p \in Processors, CheckExpired(p)
  PROVE  \E t \in Timers :
           /\ t = timers[cursor]
           /\ \/ ~HasExpired(t) /\ UNCHANGED <<now, timerVars, m_timerStopped, fired>>
              \/ /\ HasExpired(t)
                 /\ fired' = [fired EXCEPT ![t] = @ + 1]
                 /\ ExpireOnce(t) \/ ExpirePeriodic(t)
                 /\ UNCHANGED <<m_timeout, m_once>>
<1>1. timers[cursor] \in Timers
  BY LenProperties, ElementOfSeq DEF CheckExpired, ListTypes
<1> QED
  BY <1>1 DEF CheckExpired, timerVars

LEMMA FieldTypesKept == ListTypes /\ FieldTypes /\ FlagTypes /\ [Next]_vars => FieldTypes'
<1> SUFFICES ASSUME ListTypes, FieldTypes, FlagTypes, [Next]_vars PROVE FieldTypes'
  OBVIOUS
<1> USE Numbers DEF FieldTypes, timerVars, passVars, historyVars
<1>1. ASSUME NEW t \in Timers, Construct(t) \/ Stop(t) PROVE FieldTypes'
  BY <1>1 DEF Construct, Stop
<1>2. ASSUME NEW t \in Timers, Destructor(t) PROVE FieldTypes'
  BY <1>2 DEF Destructor, ResetFields
<1>3. ASSUME NEW t \in Timers, NEW timeout \in Timeouts, NEW once, Start(t, timeout, once)
      PROVE  FieldTypes'
  BY <1>3 DEF Start
<1>4. ASSUME NEW p \in Processors,
             BeginPass(p) \/ Unlink(p) \/ Unlinked(p) \/ MaxTimerExpired(p) \/ Checked(p)
      PROVE  FieldTypes'
  BY <1>4 DEF BeginPass, Unlink, Unlinked, MaxTimerExpired, Checked
<1>5. ASSUME NEW p \in Processors, CheckExpired(p) PROVE FieldTypes'
  <2>1. PICK t \in Timers :
          \/ UNCHANGED <<now, timerVars, fired>>
          \/ /\ fired' = [fired EXCEPT ![t] = @ + 1]
             /\ ExpireOnce(t) \/ ExpirePeriodic(t)
             /\ UNCHANGED m_timeout
    BY <1>5, CheckExpiredLemma
  <2>2. UNCHANGED <<started, late>>
    BY <1>5 DEF CheckExpired
  <2>3. CASE UNCHANGED <<now, timerVars, fired>>
    BY <2>2, <2>3
  <2>4. CASE fired' = [fired EXCEPT ![t] = @ + 1] /\ UNCHANGED m_timeout /\ ExpireOnce(t)
    BY <2>2, <2>4 DEF ExpireOnce
  <2>5. CASE fired' = [fired EXCEPT ![t] = @ + 1] /\ UNCHANGED m_timeout /\ ExpirePeriodic(t)
    <3>1. PICK later \in now..(now + 1) : \E latest \in later..(later + 1) :
            /\ latest <= MaxTime
            /\ m_expireTime' = [m_expireTime EXCEPT ![t] = NextExpireTime(t, later, latest)]
            /\ now' = latest
      BY <2>5 DEF ExpirePeriodic
    <3>2. PICK latest \in later..(later + 1) :
            /\ latest <= MaxTime
            /\ m_expireTime' = [m_expireTime EXCEPT ![t] = NextExpireTime(t, later, latest)]
            /\ now' = latest
      BY <3>1
    <3>3. latest \in 0..MaxTime
      BY <3>2
    <3>4. m_timeout[t] \in Nat /\ m_expireTime[t] \in Nat
      <4>1. m_timeout[t] \in Timeouts \cup {0} /\ Timeouts \cup {0} \subseteq Nat
        BY Numbers
      <4>2. m_expireTime[t] \in Nat
        BY DEF FieldTypes
      <4> QED
        BY <4>1, <4>2
    <3>5. NextExpireTime(t, later, latest) \in Nat
      BY <3>3, <3>4 DEF NextExpireTime
    <3> QED
      BY <2>2, <2>5, <3>2, <3>3, <3>5
  <2> QED
    BY <2>1, <2>3, <2>4, <2>5
<1>6. ASSUME NEW p \in Processors, InvokeSnapshot(p) PROVE FieldTypes'
  <2>1. late' \in [Timers -> Nat]
    <3>1. \/ late' = late
          \/ late' = [late EXCEPT ![Head(snapshots[p])] = @ + 1]
      BY <1>6 DEF InvokeSnapshot
    <3> QED
      BY <3>1
  <2> QED
    BY <1>6, <2>1 DEF InvokeSnapshot
<1>7. CASE Tick
  BY <1>7 DEF Tick
<1>8. CASE UNCHANGED vars
  BY <1>8 DEF vars
<1> QED
  BY <1>1, <1>2, <1>3, <1>4, <1>5, <1>6, <1>7, <1>8 DEF Next, ClientStep, ProcessTimers

\* Every reachable state of the timers has its types.
THEOREM TypeCorrect == Spec => []TypeOK
<1>1. Init => TypeOK
  <2> SUFFICES ASSUME Init PROVE ListTypes /\ FieldTypes /\ FlagTypes
    BY TypeParts
  <2>1. ListTypes
    BY EmptySeq DEF Init, ListTypes
  <2>2. FieldTypes
    BY Numbers DEF Init, FieldTypes
  <2>3. FlagTypes
    BY DEF Init, FlagTypes
  <2> QED
    BY <2>1, <2>2, <2>3
<1>2. TypeOK /\ [Next]_vars => TypeOK'
  <2>1. TypeOK' <=> ListTypes' /\ FieldTypes' /\ FlagTypes'
    BY DEF TypeOK, ListTypes, FieldTypes, FlagTypes
  <2> QED
    BY <2>1, TypeParts, ListTypesKept, FieldTypesKept, FlagTypesKept
<1> QED
  BY <1>1, <1>2, PTL DEF Spec
-----------------------------------------------------------------------------
(***************************************************************************)
(* The rate of a timer's expirations.                                      *)
(***************************************************************************)
\* When the latest expiration was due at the earliest.
Due(t) == started[t] + fired[t] * m_timeout[t]

\* The deadline of an enabled timer is a whole timeout after that.
RateOf(t) ==
  /\ Due(t) <= now
  /\ m_enabled[t] => Due(t) + m_timeout[t] <= m_expireTime[t]
  /\ m_once[t] => fired[t] <= 1
  /\ m_once[t] /\ m_enabled[t] => fired[t] = 0

RateInv == \A t \in Timers : RateOf(t)

\* The numbers of one timer.
LEMMA FieldNumbers ==
  ASSUME FieldTypes, NEW t \in Timers
  PROVE  /\ now \in Nat /\ started[t] \in Nat /\ fired[t] \in Nat
         /\ m_timeout[t] \in Nat /\ m_expireTime[t] \in Nat
         /\ Due(t) \in Nat
<1>1. now \in Nat /\ started[t] \in Nat
  BY Numbers DEF FieldTypes
<1>2. fired[t] \in Nat /\ m_expireTime[t] \in Nat
  BY DEF FieldTypes
<1>3. m_timeout[t] \in Nat
  <2>1. m_timeout[t] \in Timeouts \cup {0} /\ Timeouts \cup {0} \subseteq Nat
    BY Numbers DEF FieldTypes
  <2> QED
    BY <2>1
<1>4. fired[t] * m_timeout[t] \in Nat
  BY <1>2, <1>3
<1> QED
  BY <1>1, <1>2, <1>3, <1>4 DEF Due

LEMMA OneMore ==
  ASSUME NEW n \in Nat, NEW d \in Nat
  PROVE  (n + 1) * d = n * d + d
OBVIOUS

\* A timer whose fields a step leaves alone keeps its rate as time passes.
LEMMA RateKept ==
  ASSUME FieldTypes, FieldTypes', NEW t \in Timers, RateOf(t),
         now <= now', started'[t] = started[t], fired'[t] = fired[t],
         m_timeout'[t] = m_timeout[t], m_expireTime'[t] = m_expireTime[t],
         m_once'[t] = m_once[t], m_enabled'[t] = m_enabled[t] \/ ~m_enabled'[t]
  PROVE  RateOf(t)'
<1>1. Due(t)' = Due(t) /\ Due(t) \in Nat /\ now \in Nat /\ now' \in Nat
  BY FieldNumbers, Numbers DEF Due, FieldTypes
<1>2. Due(t)' <= now'
  BY <1>1 DEF RateOf
<1> QED
  BY <1>1, <1>2 DEF RateOf

\* An expiration: the deadline that was due has passed, and the next one is a
\* whole timeout later, or is now.
LEMMA RateOfExpired ==
  ASSUME FieldTypes, FlagTypes, FieldTypes', NEW t \in Timers, RateOf(t), HasExpired(t),
         fired' = [fired EXCEPT ![t] = @ + 1],
         UNCHANGED <<started, m_timeout, m_once>>,
         ExpireOnce(t) \/ ExpirePeriodic(t)
  PROVE  RateOf(t)' /\ now <= now'
<1>1. /\ now \in Nat /\ fired[t] \in Nat /\ m_timeout[t] \in Nat
      /\ m_expireTime[t] \in Nat /\ started[t] \in Nat /\ Due(t) \in Nat
  BY FieldNumbers
<1>2. fired'[t] = fired[t] + 1
  BY DEF FieldTypes
<1>3. Due(t)' = started[t] + (fired[t] + 1) * m_timeout[t]
  BY <1>2 DEF Due
<1>4. Due(t)' = Due(t) + m_timeout[t]
  BY <1>1, <1>3, OneMore DEF Due
<1>5. Due(t)' <= m_expireTime[t] /\ Due(t)' <= now
  BY <1>1, <1>4 DEF RateOf, HasExpired
<1>6. CASE ExpireOnce(t)
  <2>1. m_once[t] /\ ~m_enabled'[t] /\ now' = now
    BY <1>6 DEF ExpireOnce, FlagTypes
  <2>2. fired[t] = 0
    BY <2>1 DEF RateOf, HasExpired
  <2> QED
    BY <1>1, <1>2, <1>5, <2>1, <2>2 DEF RateOf
<1>7. CASE ExpirePeriodic(t)
  <2>1. PICK later \in now..(now + 1) : \E latest \in later..(later + 1) :
          /\ m_expireTime' = [m_expireTime EXCEPT ![t] = NextExpireTime(t, later, latest)]
          /\ now' = latest
    BY <1>7 DEF ExpirePeriodic
  <2>2. PICK latest \in later..(later + 1) :
          /\ m_expireTime' = [m_expireTime EXCEPT ![t] = NextExpireTime(t, later, latest)]
          /\ now' = latest
    BY <2>1
  <2>3. now <= later /\ later <= latest /\ later \in Int /\ latest \in Int
    BY <1>1, <2>1, <2>2
  <2>4. m_expireTime'[t] = NextExpireTime(t, later, latest)
    BY <2>2 DEF FieldTypes
  <2>5. m_expireTime[t] + m_timeout[t] <= m_expireTime'[t]
    BY <1>1, <2>3, <2>4 DEF NextExpireTime
  <2>6. m_timeout'[t] = m_timeout[t] /\ ~m_once'[t]
    BY <1>7 DEF ExpirePeriodic
  <2>7. Due(t)' <= now' /\ Due(t)' + m_timeout'[t] <= m_expireTime'[t] /\ now <= now'
    <3>1. Due(t)' \in Nat
      BY <1>1, <1>4
    <3>2. m_expireTime'[t] \in Int
      BY <2>3, <2>4, <1>1 DEF NextExpireTime
    <3> QED
      BY <1>1, <1>5, <2>2, <2>3, <2>5, <2>6, <3>1, <3>2
  <2> QED
    BY <2>6, <2>7 DEF RateOf
<1> QED
  BY <1>6, <1>7
LEMMA InitRateInv == Init => RateInv
<1> SUFFICES ASSUME Init, NEW t \in Timers PROVE RateOf(t)
  BY DEF RateInv
<1>1. /\ started[t] = 0 /\ fired[t] = 0 /\ m_timeout[t] = 0 /\ now = 0
      /\ ~m_enabled[t] /\ ~m_once[t]
  BY DEF Init
<1>2. Due(t) = 0
  BY <1>1 DEF Due
<1> QED
  BY <1>1, <1>2 DEF RateOf

LEMMA RateInvKept == TypeOK /\ TypeOK' /\ RateInv /\ [Next]_vars => RateInv'
<1> SUFFICES ASSUME TypeOK, TypeOK', RateInv, [Next]_vars, NEW u \in Timers
             PROVE  RateOf(u)'
  BY DEF RateInv
<1>0. /\ ListTypes /\ FieldTypes /\ FlagTypes /\ FieldTypes'
      /\ RateOf(u)
  BY TypeParts DEF TypeOK, FieldTypes, RateInv
<1>n. now \in Nat
  BY <1>0, Numbers DEF FieldTypes
<1> USE DEF timerVars, passVars, historyVars
<1>1. ASSUME NEW t \in Timers, Construct(t) PROVE RateOf(u)'
  BY <1>0, <1>n, <1>1, RateKept DEF Construct
<1>2. ASSUME NEW t \in Timers, Stop(t) PROVE RateOf(u)'
  <2>1. /\ UNCHANGED <<now, started, fired, m_timeout, m_expireTime, m_once>>
        /\ m_enabled'[u] = m_enabled[u] \/ ~m_enabled'[u]
    BY <1>0, <1>2 DEF Stop, FlagTypes
  <2> QED
    BY <1>0, <1>n, <2>1, RateKept
<1>3. ASSUME NEW t \in Timers, Destructor(t) PROVE RateOf(u)'
  <2>1. CASE u = t
    <3>1. /\ started'[u] = 0 /\ fired'[u] = 0 /\ m_timeout'[u] = 0 /\ now' = now
          /\ ~m_enabled'[u] /\ ~m_once'[u]
      BY <1>0, <1>3, <2>1 DEF Destructor, ResetFields, FieldTypes, FlagTypes
    <3>2. Due(u)' = 0
      BY <3>1 DEF Due
    <3> QED
      BY <1>n, <3>1, <3>2 DEF RateOf
  <2>2. CASE u # t
    <3>1. /\ started'[u] = started[u] /\ fired'[u] = fired[u] /\ now' = now
          /\ m_timeout'[u] = m_timeout[u] /\ m_expireTime'[u] = m_expireTime[u]
          /\ m_enabled'[u] = m_enabled[u] /\ m_once'[u] = m_once[u]
      BY <1>0, <1>3, <2>2 DEF Destructor, ResetFields, FieldTypes, FlagTypes
    <3> QED
      BY <1>0, <1>n, <3>1, RateKept
  <2> QED
    BY <2>1, <2>2
<1>4. ASSUME NEW t \in Timers, NEW timeout \in Timeouts, NEW once \in BOOLEAN,
             Start(t, timeout, once)
      PROVE  RateOf(u)'
  <2>1. CASE u = t
    <3>1. /\ started'[u] = now /\ fired'[u] = 0 /\ now' = now
          /\ m_timeout'[u] = timeout /\ m_expireTime'[u] = now + timeout
      BY <1>0, <1>4, <2>1 DEF Start, FieldTypes
    <3>2. timeout \in Nat
      BY Numbers
    <3>3. Due(u)' = now
      BY <1>n, <3>1, <3>2 DEF Due
    <3> QED
      BY <1>n, <3>1, <3>2, <3>3 DEF RateOf
  <2>2. CASE u # t
    <3>1. /\ started'[u] = started[u] /\ fired'[u] = fired[u] /\ now' = now
          /\ m_timeout'[u] = m_timeout[u] /\ m_expireTime'[u] = m_expireTime[u]
          /\ m_enabled'[u] = m_enabled[u] /\ m_once'[u] = m_once[u]
      BY <1>0, <1>4, <2>2 DEF Start, FieldTypes, FlagTypes
    <3> QED
      BY <1>0, <1>n, <3>1, RateKept
  <2> QED
    BY <2>1, <2>2
<1>5. ASSUME NEW p \in Processors,
             \/ BeginPass(p) \/ Unlink(p) \/ Unlinked(p)
             \/ MaxTimerExpired(p) \/ Checked(p) \/ InvokeSnapshot(p)
      PROVE  RateOf(u)'
  <2>1. UNCHANGED <<now, started, fired, timerVars>>
    BY <1>5 DEF BeginPass, Unlink, Unlinked, MaxTimerExpired, Checked, InvokeSnapshot
  <2> QED
    BY <1>0, <1>n, <2>1, RateKept
<1>6. ASSUME NEW p \in Processors, CheckExpired(p) PROVE RateOf(u)'
  <2>1. PICK t \in Timers :
          \/ ~HasExpired(t) /\ UNCHANGED <<now, timerVars, fired>>
          \/ /\ HasExpired(t)
             /\ fired' = [fired EXCEPT ![t] = @ + 1]
             /\ ExpireOnce(t) \/ ExpirePeriodic(t)
             /\ UNCHANGED <<m_timeout, m_once>>
    BY <1>0, <1>6, CheckExpiredLemma
  <2>2. UNCHANGED started
    BY <1>6 DEF CheckExpired
  <2>3. CASE ~HasExpired(t) /\ UNCHANGED <<now, timerVars, fired>>
    BY <1>0, <1>n, <2>2, <2>3, RateKept
  <2>4. CASE /\ HasExpired(t)
             /\ fired' = [fired EXCEPT ![t] = @ + 1]
             /\ ExpireOnce(t) \/ ExpirePeriodic(t)
             /\ UNCHANGED <<m_timeout, m_once>>
    <3>1. RateOf(t)' /\ now <= now'
      BY <1>0, <2>2, <2>4, RateOfExpired DEF RateInv
    <3>2. CASE u = t
      BY <3>1, <3>2
    <3>3. CASE u # t
      <4>1. /\ fired'[u] = fired[u] /\ m_expireTime'[u] = m_expireTime[u]
            /\ m_enabled'[u] = m_enabled[u]
        BY <1>0, <2>4, <3>3 DEF ExpireOnce, ExpirePeriodic, FieldTypes, FlagTypes
      <4> QED
        BY <1>0, <2>2, <2>4, <3>1, <4>1, RateKept
    <3> QED
      BY <3>2, <3>3
  <2> QED
    BY <2>1, <2>3, <2>4
<1>7. CASE Tick
  BY <1>0, <1>n, <1>7, RateKept DEF Tick
<1>8. CASE UNCHANGED vars
  BY <1>0, <1>n, <1>8, RateKept DEF vars
<1> QED
  BY <1>1, <1>2, <1>3, <1>4, <1>5, <1>6, <1>7, <1>8 DEF Next, ClientStep, ProcessTimers

\* However late and by however many threads ProcessTimers() is called, a timer has at no
\* moment expired more often than the time since Start() allows, and a one-shot timer
\* expires only once.
THEOREM RateIsBounded == Spec => [](RateBounded /\ OneShotOnce)
<1>1. Init => RateInv
  BY InitRateInv
<1>2. TypeOK /\ TypeOK' /\ RateInv /\ [Next]_vars => RateInv'
  BY RateInvKept
<1>3. TypeOK /\ RateInv => RateBounded /\ OneShotOnce
  <2> SUFFICES ASSUME TypeOK, RateInv, NEW t \in Timers
               PROVE  /\ fired[t] * m_timeout[t] <= now - started[t]
                      /\ m_once[t] => fired[t] <= 1
    BY DEF RateBounded, OneShotOnce
  <2>1. /\ now \in Nat /\ started[t] \in Nat
        /\ fired[t] \in Nat /\ m_timeout[t] \in Nat
    BY TypeParts, FieldNumbers
  <2>2. fired[t] * m_timeout[t] \in Nat
    BY <2>1
  <2>3. started[t] + fired[t] * m_timeout[t] <= now /\ (m_once[t] => fired[t] <= 1)
    BY DEF RateInv, RateOf, Due
  <2> QED
    BY <2>1, <2>2, <2>3
<1> QED
  BY <1>1, <1>2, <1>3, TypeCorrect, PTL DEF Spec
-----------------------------------------------------------------------------
(***************************************************************************)
(* The list.                                                               *)
(***************************************************************************)
Distinct == \A i, j \in 1..Len(timers) : timers[i] = timers[j] => i = j

ListedAlive ==
  \A i \in 1..Len(timers) : timers[i] \in alive /\ (m_enabled[timers[i]] \/ m_timerStopped)

EnabledListed == \A t \in Timers : m_enabled[t] => Listed(t)

\* One pass at a time holds the lock, and while it unlinks, the timers that it has
\* gone past are enabled.
OnePass == \A p, q \in Processors : pc[p] # "idle" /\ pc[q] # "idle" => p = q

PassedEnabled ==
  (\E p \in Processors : pc[p] = "unlinking") =>
    \A i \in 1..Len(timers) : i < cursor => m_enabled[timers[i]]

ListInv == Distinct /\ ListedAlive /\ EnabledListed /\ OnePass /\ PassedEnabled

LEMMA ListParts == ListConsistent <=> Distinct /\ ListedAlive /\ EnabledListed
BY DEF ListConsistent, Distinct, ListedAlive, EnabledListed

\* Without one of its elements, a list of distinct timers has the others, in order.
LEMMA RemovedLemma ==
  ASSUME ListTypes, Distinct, NEW i \in 1..Len(timers), timers' = RemoveAt(timers, i)
  PROVE  /\ Len(timers') = Len(timers) - 1
         /\ \A j \in 1..Len(timers') :
              /\ j < i => j \in 1..Len(timers) /\ timers'[j] = timers[j]
              /\ j >= i => j + 1 \in 1..Len(timers) /\ timers'[j] = timers[j + 1]
              /\ timers'[j] # timers[i]
         /\ Distinct'
         /\ \A t : Listed(t) /\ t # timers[i] => Listed(t)'
<1>1. /\ timers' \in Seq(Timers)
      /\ Len(timers') = Len(timers) - 1
      /\ \A j \in 1..(Len(timers) - 1) :
           timers'[j] = IF j < i THEN timers[j] ELSE timers[j + 1]
  BY RemoveAtIsSeq DEF ListTypes
<1>2. Len(timers) \in Nat /\ i \in Int /\ 1 <= i /\ i <= Len(timers)
  BY LenProperties DEF ListTypes
<1>3. ASSUME NEW j \in 1..Len(timers')
      PROVE  /\ j < i => j \in 1..Len(timers) /\ timers'[j] = timers[j]
             /\ j >= i => j + 1 \in 1..Len(timers) /\ timers'[j] = timers[j + 1]
  BY <1>1, <1>2
<1>4. ASSUME NEW j \in 1..Len(timers') PROVE timers'[j] # timers[i]
  <2>1. CASE j < i
    BY <1>2, <1>3, <2>1 DEF Distinct
  <2>2. CASE j >= i
    BY <1>2, <1>3, <2>2 DEF Distinct
  <2> QED
    BY <1>1, <1>2, <2>1, <2>2
<1>5. ASSUME NEW j \in 1..Len(timers'), NEW k \in 1..Len(timers'), timers'[j] = timers'[k]
      PROVE  j = k
  <2>1. CASE j < i /\ k < i
    BY <1>3, <1>5, <2>1 DEF Distinct
  <2>2. CASE j < i /\ k >= i
    <3>1. j = k + 1
      BY <1>3, <1>5, <2>2 DEF Distinct
    <3> QED
      BY <1>1, <1>2, <2>2, <3>1
  <2>3. CASE j >= i /\ k < i
    <3>1. j + 1 = k
      BY <1>3, <1>5, <2>3 DEF Distinct
    <3> QED
      BY <1>1, <1>2, <2>3, <3>1
  <2>4. CASE j >= i /\ k >= i
    <3>1. j + 1 = k + 1
      BY <1>3, <1>5, <2>4 DEF Distinct
    <3> QED
      BY <1>1, <1>2, <3>1
  <2> QED
    BY <1>1, <1>2, <2>1, <2>2, <2>3, <2>4
<1>6. ASSUME NEW t, Listed(t), t # timers[i] PROVE Listed(t)'
  <2>1. PICK j \in 1..Len(timers) : timers[j] = t
    BY <1>6 DEF Listed
  <2>2. j # i
    BY <1>6, <2>1
  <2>3. CASE j < i
    <3>1. j \in 1..Len(timers') /\ timers'[j] = t
      BY <1>1, <1>2, <1>3, <2>1, <2>3
    <3> QED
      BY <3>1 DEF Listed
  <2>4. CASE j > i
    <3>1. j - 1 \in 1..Len(timers') /\ j - 1 >= i /\ (j - 1) + 1 = j
      BY <1>1, <1>2, <2>1, <2>4
    <3>2. timers'[j - 1] = t
      BY <1>3, <2>1, <3>1
    <3> QED
      BY <3>1, <3>2 DEF Listed
  <2> QED
    BY <1>2, <2>2, <2>3, <2>4
<1> QED
  BY <1>1, <1>3, <1>4, <1>5, <1>6 DEF Distinct

\* A new head of the list.
LEMMA PushedLemma ==
  ASSUME ListTypes, Distinct, NEW t \in Timers, ~Listed(t), timers' = <<t>> \o timers
  PROVE  /\ Len(timers') = Len(timers) + 1
         /\ timers'[1] = t
         /\ \A j \in 2..Len(timers') :
              j - 1 \in 1..Len(timers) /\ timers'[j] = timers[j - 1]
         /\ Distinct'
         /\ \A u : Listed(u) \/ u = t => Listed(u)'
<1>1. Len(timers) \in Nat /\ <<t>> \in Seq(Timers) /\ Len(<<t>>) = 1 /\ <<t>>[1] = t
  BY LenProperties DEF ListTypes
<1>2. /\ Len(timers') = 1 + Len(timers)
      /\ \A j \in 1..(1 + Len(timers)) :
           timers'[j] = IF j <= 1 THEN <<t>>[j] ELSE timers[j - 1]
  <2> HIDE DEF ListTypes
  <2>1. timers \in Seq(Timers)
    BY DEF ListTypes
  <2> QED
    BY <1>1, <2>1, ConcatProperties
<1>3. Len(timers') = Len(timers) + 1 /\ timers'[1] = t
  BY <1>1, <1>2
<1>4. ASSUME NEW j \in 2..Len(timers')
      PROVE  j - 1 \in 1..Len(timers) /\ timers'[j] = timers[j - 1]
  BY <1>1, <1>2
<1>5. ASSUME NEW j \in 1..Len(timers'), NEW k \in 1..Len(timers'), timers'[j] = timers'[k]
      PROVE  j = k
  <2>1. ASSUME NEW n \in 2..Len(timers') PROVE timers'[n] # t
    BY <1>4 DEF Listed
  <2>2. CASE j = 1 \/ k = 1
    BY <1>1, <1>3, <1>5, <2>1, <2>2
  <2>3. CASE j # 1 /\ k # 1
    <3>1. j \in 2..Len(timers') /\ k \in 2..Len(timers')
      BY <1>1, <1>3, <2>3
    <3>2. j - 1 = k - 1
      BY <1>4, <1>5, <3>1 DEF Distinct
    <3> QED
      BY <3>1, <3>2
  <2> QED
    BY <2>2, <2>3
<1>6. ASSUME NEW u, Listed(u) \/ u = t PROVE Listed(u)'
  <2>1. CASE u = t
    BY <1>1, <1>3, <2>1 DEF Listed
  <2>2. CASE Listed(u)
    <3>1. PICK j \in 1..Len(timers) : timers[j] = u
      BY <2>2 DEF Listed
    <3>2. j + 1 \in 2..Len(timers') /\ (j + 1) - 1 = j /\ j + 1 \in 1..Len(timers')
      BY <1>1, <1>3
    <3>3. timers'[j + 1] = u
      BY <1>4, <3>1, <3>2
    <3> QED
      BY <3>2, <3>3 DEF Listed
  <2> QED
    BY <1>6, <2>1, <2>2
<1> QED
  BY <1>3, <1>4, <1>5, <1>6 DEF Distinct
LEMMA InitListInv == Init => ListInv
<1> SUFFICES ASSUME Init PROVE ListInv
  OBVIOUS
<1>1. Len(timers) = 0 /\ 1..0 = {}
  BY EmptySeq DEF Init
<1>2. Distinct /\ ListedAlive
  BY <1>1 DEF Distinct, ListedAlive
<1>3. EnabledListed /\ OnePass /\ PassedEnabled
  BY DEF Init, EnabledListed, OnePass, PassedEnabled
<1> QED
  BY <1>2, <1>3 DEF ListInv

\* A client's critical section: no pass holds the lock.
LEMMA ClientListInv ==
  ASSUME ListTypes, FlagTypes, ListInv, NEW t \in Timers,
         \/ Construct(t) \/ Destructor(t) \/ Stop(t)
         \/ \E timeout \in Timeouts, once \in BOOLEAN : Start(t, timeout, once)
  PROVE  ListInv'
<1> USE DEF timerVars, passVars, historyVars
<1>0. OnePass' /\ PassedEnabled'
  <2>1. LockIsFree /\ pc' = pc
    BY DEF Construct, Destructor, Stop, Start
  <2> QED
    BY <2>1 DEF LockIsFree, OnePass, PassedEnabled
<1>1. CASE Construct(t)
  <2>1. UNCHANGED <<timers, m_enabled, m_timerStopped>> /\ alive \subseteq alive'
    BY <1>1 DEF Construct
  <2>2. Distinct' /\ ListedAlive' /\ EnabledListed'
    BY <2>1 DEF ListInv, Distinct, ListedAlive, EnabledListed, Listed
  <2> QED
    BY <1>0, <2>2 DEF ListInv
<1>2. CASE Stop(t)
  <2>1. /\ UNCHANGED <<timers, alive>> /\ m_timerStopped'
        /\ \A u \in Timers : m_enabled'[u] => m_enabled[u]
    BY <1>2 DEF Stop, FlagTypes
  <2>2. Distinct' /\ ListedAlive' /\ EnabledListed'
    BY <2>1 DEF ListInv, Distinct, ListedAlive, EnabledListed, Listed
  <2> QED
    BY <1>0, <2>2 DEF ListInv
<1>3. CASE Destructor(t)
  <2>1. /\ alive' = alive \ {t} /\ m_timerStopped' = m_timerStopped
        /\ ~m_enabled'[t]
        /\ \A u \in Timers : u # t => m_enabled'[u] = m_enabled[u]
    BY <1>3 DEF Destructor, ResetFields, FlagTypes
  <2>2. CASE ~Listed(t) /\ UNCHANGED timers
    <3>1. Distinct' /\ EnabledListed'
      BY <2>1, <2>2 DEF ListInv, Distinct, EnabledListed, Listed
    <3>2. ASSUME NEW i \in 1..Len(timers')
          PROVE  timers'[i] \in alive' /\ (m_enabled'[timers'[i]] \/ m_timerStopped')
      <4>1. timers'[i] = timers[i] /\ i \in 1..Len(timers) /\ timers[i] # t
        BY <2>2 DEF Listed
      <4>2. timers[i] \in Timers
        BY <4>1, LenProperties, ElementOfSeq DEF ListTypes
      <4> QED
        BY <2>1, <4>1, <4>2 DEF ListInv, ListedAlive
    <3> QED
      BY <1>0, <3>1, <3>2 DEF ListInv, ListedAlive
  <2>3. CASE \E i \in 1..Len(timers) : timers[i] = t /\ timers' = RemoveAt(timers, i)
    <3>1. PICK i \in 1..Len(timers) : timers[i] = t /\ timers' = RemoveAt(timers, i)
      BY <2>3
    <3>2. /\ \A j \in 1..Len(timers') :
               /\ timers'[j] # t
               /\ \E k \in 1..Len(timers) : timers'[j] = timers[k]
          /\ Distinct'
          /\ \A u : Listed(u) /\ u # t => Listed(u)'
      <4>1. /\ \A j \in 1..Len(timers') :
                 /\ j < i => j \in 1..Len(timers) /\ timers'[j] = timers[j]
                 /\ j >= i => j + 1 \in 1..Len(timers) /\ timers'[j] = timers[j + 1]
                 /\ timers'[j] # timers[i]
            /\ Distinct'
            /\ \A u : Listed(u) /\ u # timers[i] => Listed(u)'
        BY <3>1, RemovedLemma DEF ListInv
      <4>2. \A j \in 1..Len(timers') : j < i \/ j >= i
        OBVIOUS
      <4> QED
        BY <3>1, <4>1, <4>2
    <3>3. ASSUME NEW j \in 1..Len(timers')
          PROVE  timers'[j] \in alive' /\ (m_enabled'[timers'[j]] \/ m_timerStopped')
      <4>1. PICK k \in 1..Len(timers) : timers'[j] = timers[k] /\ timers[k] # t
        BY <3>2
      <4>2. timers[k] \in Timers
        BY LenProperties, ElementOfSeq DEF ListTypes
      <4> QED
        BY <2>1, <4>1, <4>2 DEF ListInv, ListedAlive
    <3>4. EnabledListed'
      BY <2>1, <3>2 DEF ListInv, EnabledListed
    <3> QED
      BY <1>0, <3>2, <3>3, <3>4 DEF ListInv, ListedAlive
  <2> QED
    BY <1>3, <2>2, <2>3 DEF Destructor
<1>4. ASSUME NEW timeout, NEW once, Start(t, timeout, once) PROVE ListInv'
  <2>1. /\ t \in alive /\ UNCHANGED <<alive, m_timerStopped>>
        /\ m_enabled'[t]
        /\ \A u \in Timers : u # t => m_enabled'[u] = m_enabled[u]
    BY <1>4 DEF Start, FlagTypes
  <2>2. CASE Listed(t) /\ timers' = timers
    <3>1. Distinct' /\ EnabledListed'
      BY <2>1, <2>2 DEF ListInv, Distinct, EnabledListed, Listed
    <3>2. ASSUME NEW i \in 1..Len(timers)
          PROVE  timers[i] \in alive' /\ (m_enabled'[timers[i]] \/ m_timerStopped')
      <4>1. timers[i] \in Timers
        BY LenProperties, ElementOfSeq DEF ListTypes
      <4> QED
        BY <2>1, <4>1 DEF ListInv, ListedAlive
    <3> QED
      BY <1>0, <2>2, <3>1, <3>2 DEF ListInv, ListedAlive
  <2>3. CASE ~Listed(t) /\ timers' = <<t>> \o timers
    <3>1. /\ timers'[1] = t
          /\ \A j \in 2..Len(timers') :
               j - 1 \in 1..Len(timers) /\ timers'[j] = timers[j - 1]
          /\ Distinct'
          /\ \A u : Listed(u) \/ u = t => Listed(u)'
      BY <2>3, PushedLemma DEF ListInv
    <3>2. ASSUME NEW j \in 1..Len(timers')
          PROVE  timers'[j] \in alive' /\ (m_enabled'[timers'[j]] \/ m_timerStopped')
      <4>1. CASE j = 1
        BY <2>1, <3>1, <4>1
      <4>2. CASE j # 1
        <5>1. j \in 2..Len(timers')
          BY <4>2
        <5>2. PICK k \in 1..Len(timers) : timers'[j] = timers[k]
          BY <3>1, <5>1
        <5>3. timers[k] \in Timers
          BY LenProperties, ElementOfSeq DEF ListTypes
        <5> QED
          BY <2>1, <5>2, <5>3 DEF ListInv, ListedAlive
      <4> QED
        BY <4>1, <4>2
    <3>3. EnabledListed'
      BY <2>1, <3>1 DEF ListInv, EnabledListed
    <3> QED
      BY <1>0, <3>1, <3>2, <3>3 DEF ListInv, ListedAlive
  <2> QED
    BY <1>4, <2>2, <2>3 DEF Start
<1> QED
  BY <1>1, <1>2, <1>3, <1>4
\* A step of ProcessTimers(): no other pass is under way.
LEMMA PassListInv ==
  ASSUME ListTypes, FlagTypes, ListInv, NEW p \in Processors, ProcessTimers(p)
  PROVE  ListInv'
<1> USE DEF timerVars, passVars, historyVars
<1>1. CASE BeginPass(p)
  <2>1. /\ UNCHANGED <<alive, timers, m_enabled, m_timerStopped>> /\ cursor' = 1
        /\ \A q \in Processors : pc'[q] # "idle" => q = p
    BY <1>1 DEF BeginPass, LockIsFree, FlagTypes
  <2>2. Distinct' /\ ListedAlive' /\ EnabledListed' /\ OnePass'
    BY <2>1 DEF ListInv, Distinct, ListedAlive, EnabledListed, Listed, OnePass
  <2>3. PassedEnabled'
    <3>1. \A i \in 1..Len(timers') : ~(i < cursor')
      BY <2>1
    <3> QED
      BY <3>1 DEF PassedEnabled
  <2> QED
    BY <2>2, <2>3 DEF ListInv
<1>2. CASE Unlink(p)
  <2>1. UNCHANGED <<alive, m_enabled, m_timerStopped, pc>> /\ pc[p] = "unlinking"
    BY <1>2 DEF Unlink
  <2>2. cursor \in 1..Len(timers) /\ Len(timers) \in Nat
    BY <1>2, LenProperties DEF Unlink, ListTypes
  <2>3. OnePass'
    BY <2>1 DEF ListInv, OnePass
  <2>4. \A i \in 1..Len(timers) : i < cursor => m_enabled[timers[i]]
    BY <2>1 DEF ListInv, PassedEnabled
  <2>5. CASE m_enabled[timers[cursor]] /\ cursor' = cursor + 1 /\ UNCHANGED timers
    <3>1. Distinct' /\ ListedAlive' /\ EnabledListed'
      BY <2>1, <2>5 DEF ListInv, Distinct, ListedAlive, EnabledListed, Listed
    <3>2. ASSUME NEW i \in 1..Len(timers), i < cursor' PROVE m_enabled[timers[i]]
      <4>1. i < cursor \/ i = cursor
        BY <2>2, <2>5, <3>2
      <4> QED
        BY <2>4, <2>5, <4>1
    <3>3. PassedEnabled'
      BY <2>1, <2>5, <3>2 DEF PassedEnabled
    <3> QED
      BY <2>3, <3>1, <3>3 DEF ListInv
  <2>6. CASE /\ ~m_enabled[timers[cursor]]
             /\ timers' = RemoveAt(timers, cursor)
             /\ UNCHANGED cursor
    <3>1. /\ \A j \in 1..Len(timers') :
               /\ j < cursor => j \in 1..Len(timers) /\ timers'[j] = timers[j]
               /\ j >= cursor => j + 1 \in 1..Len(timers) /\ timers'[j] = timers[j + 1]
          /\ Distinct'
          /\ \A u : Listed(u) /\ u # timers[cursor] => Listed(u)'
      BY <2>2, <2>6, RemovedLemma DEF ListInv
    <3>2. \A j \in 1..Len(timers') : \E k \in 1..Len(timers) : timers'[j] = timers[k]
      <4>1. \A j \in 1..Len(timers') : j < cursor \/ j >= cursor
        BY <2>2
      <4> QED
        BY <3>1, <4>1
    <3>3. ListedAlive'
      BY <2>1, <3>2 DEF ListInv, ListedAlive
    <3>4. EnabledListed'
      BY <2>1, <2>6, <3>1 DEF ListInv, EnabledListed
    <3>5. PassedEnabled'
      BY <2>1, <2>4, <2>6, <3>1 DEF PassedEnabled
    <3> QED
      BY <2>3, <3>1, <3>3, <3>4, <3>5 DEF ListInv
  <2> QED
    BY <1>2, <2>5, <2>6 DEF Unlink
<1>3. CASE Unlinked(p)
  <2>1. UNCHANGED <<alive, timers, m_enabled>> /\ cursor > Len(timers) /\ pc[p] = "unlinking"
    BY <1>3 DEF Unlinked
  <2>2. \A i \in 1..Len(timers) : m_enabled[timers[i]]
    <3>1. \A i \in 1..Len(timers) : i < cursor
      BY <2>1, LenProperties DEF ListTypes
    <3> QED
      BY <2>1, <3>1 DEF ListInv, PassedEnabled
  <2>3. Distinct' /\ ListedAlive' /\ EnabledListed'
    BY <2>1, <2>2 DEF ListInv, Distinct, ListedAlive, EnabledListed, Listed
  <2>4. pc' = [pc EXCEPT ![p] = "checking"]
    BY <1>3 DEF Unlinked
  <2>5. \A q \in Processors : pc'[q] # "idle" => q = p
    BY <2>1, <2>4 DEF FlagTypes, ListInv, OnePass
  <2>6. OnePass' /\ PassedEnabled'
    BY <2>4, <2>5 DEF FlagTypes, OnePass, PassedEnabled
  <2> QED
    BY <2>3, <2>6 DEF ListInv
<1>4. CASE CheckExpired(p)
  <2>1. UNCHANGED <<alive, timers, pc>> /\ pc[p] = "checking"
    BY <1>4 DEF CheckExpired
  <2>2. \/ UNCHANGED <<m_enabled, m_timerStopped>>
        \/ m_timerStopped' /\ \E t \in Timers : m_enabled' = [m_enabled EXCEPT ![t] = FALSE]
    <3>1. PICK t \in Timers :
            \/ UNCHANGED <<timerVars, m_timerStopped>>
            \/ ExpireOnce(t) \/ ExpirePeriodic(t)
      BY <1>4, CheckExpiredLemma
    <3> QED
      BY <3>1 DEF ExpireOnce, ExpirePeriodic
  <2>3. \A t \in Timers : m_enabled'[t] => m_enabled[t]
    BY <2>2 DEF FlagTypes
  <2>4. ListedAlive'
    BY <2>1, <2>2 DEF ListInv, ListedAlive
  <2>5. Distinct' /\ EnabledListed'
    BY <2>1, <2>3 DEF ListInv, Distinct, EnabledListed, Listed
  <2>6. OnePass' /\ PassedEnabled'
    BY <2>1 DEF ListInv, OnePass, PassedEnabled
  <2> QED
    BY <2>4, <2>5, <2>6 DEF ListInv
<1>5. CASE MaxTimerExpired(p) \/ InvokeSnapshot(p)
  <2>1. UNCHANGED <<alive, timers, m_enabled, m_timerStopped, pc, cursor>>
    BY <1>5 DEF MaxTimerExpired, InvokeSnapshot
  <2> QED
    BY <2>1 DEF ListInv, Distinct, ListedAlive, EnabledListed, Listed, OnePass, PassedEnabled
<1>6. CASE Checked(p)
  <2>1. UNCHANGED <<alive, timers, m_enabled, m_timerStopped>> /\ pc[p] = "checking"
    BY <1>6 DEF Checked
  <2>2. \A q \in Processors : pc'[q] = "idle"
    BY <1>6 DEF Checked, FlagTypes, ListInv, OnePass
  <2>3. Distinct' /\ ListedAlive' /\ EnabledListed'
    BY <2>1 DEF ListInv, Distinct, ListedAlive, EnabledListed, Listed
  <2>4. OnePass' /\ PassedEnabled'
    BY <2>2 DEF OnePass, PassedEnabled
  <2> QED
    BY <2>3, <2>4 DEF ListInv
<1> QED
  BY <1>1, <1>2, <1>3, <1>4, <1>5, <1>6 DEF ProcessTimers

LEMMA ListInvKept == TypeOK /\ ListInv /\ [Next]_vars => ListInv'
<1> SUFFICES ASSUME TypeOK, ListInv, [Next]_vars PROVE ListInv'
  OBVIOUS
<1>1. ListTypes /\ FlagTypes
  BY TypeParts
<1>2. CASE ClientStep
  <2>1. PICK t \in Timers :
          \/ Construct(t) \/ Destructor(t) \/ Stop(t)
          \/ \E timeout \in Timeouts, once \in BOOLEAN : Start(t, timeout, once)
    BY <1>2 DEF ClientStep
  <2> QED
    BY <1>1, <2>1, ClientListInv
<1>3. ASSUME NEW p \in Processors, ProcessTimers(p) PROVE ListInv'
  BY <1>1, <1>3, PassListInv
<1>4. CASE Tick \/ UNCHANGED vars
  <2>1. UNCHANGED <<alive, timers, m_enabled, m_timerStopped, pc, cursor>>
    BY <1>4 DEF Tick, vars, timerVars, passVars
  <2> QED
    BY <2>1 DEF ListInv, Distinct, ListedAlive, EnabledListed, Listed, OnePass, PassedEnabled
<1> QED
  BY <1>2, <1>3, <1>4 DEF Next

\* Whatever threads start, stop, destroy and process the timers, the list is never a
\* loop, never has a destroyed timer in it, never misses an enabled one, and a
\* disabled timer in it is always due to be unlinked.
THEOREM ListIsConsistent == Spec => []ListConsistent
<1>1. Init => ListInv
  BY InitListInv
<1>2. TypeOK /\ ListInv /\ [Next]_vars => ListInv'
  BY ListInvKept
<1>3. ListInv => ListConsistent
  BY ListParts DEF ListInv
<1> QED
  BY <1>1, <1>2, <1>3, TypeCorrect, PTL DEF Spec

-----------------------------------------------------------------------------
(***************************************************************************)
(* The callbacks that begin after Stop().                                  *)
(***************************************************************************)
Snapped(p, t) == \E i \in 1..Len(snapshots[p]) : snapshots[p][i] = t

\* The threads that have a snapshot of the timer still to invoke.
Owed(t) == {p \in Processors : Snapped(p, t)}

\* A pass takes a timer once: what it has taken lies before its place in the list.
OnceEach ==
  \A p \in Processors :
    /\ \A i, j \in 1..Len(snapshots[p]) : snapshots[p][i] = snapshots[p][j] => i = j
    /\ pc[p] = "unlinking" => snapshots[p] = <<>>
    /\ pc[p] = "checking" => \A t \in Timers : Snapped(p, t) =>
                              \E j \in 1..Len(timers) : j < cursor /\ timers[j] = t

\* What has begun and what is still owed is one callback for each thread.
LateOf(t) ==
  /\ m_enabled[t] => t \notin stopped
  /\ t \notin stopped => late[t] = 0
  /\ late[t] + Cardinality(Owed(t)) <= Cardinality(Processors)

LateInv == OnceEach /\ \A t \in Timers : LateOf(t)

LEMMA OwedIsFinite ==
  \A x : /\ IsFiniteSet(Owed(x)) /\ Cardinality(Owed(x)) \in Nat
         /\ Cardinality(Owed(x)) <= Cardinality(Processors)
         /\ Cardinality(Processors) \in Nat
BY TimerAssumption, FS_Subset, FS_CardinalityType DEF Owed

LEMMA InitLateInv == Init => LateInv
<1> SUFFICES ASSUME Init PROVE LateInv
  OBVIOUS
<1>1. \A p \in Processors : snapshots[p] = <<>> /\ pc[p] = "idle" /\ Len(snapshots[p]) = 0
  BY DEF Init
<1>2. OnceEach
  BY <1>1 DEF OnceEach, Snapped
<1>3. ASSUME NEW t \in Timers PROVE LateOf(t)
  <2>1. late[t] = 0 /\ ~m_enabled[t]
    BY DEF Init
  <2> QED
    BY <2>1, OwedIsFinite DEF LateOf
<1> QED
  BY <1>2, <1>3 DEF LateInv

\* A client's critical section changes no snapshot.
LEMMA ClientLateInv ==
  ASSUME TypeOK, LateInv, NEW t \in Timers,
         \/ Construct(t) \/ Destructor(t) \/ Stop(t)
         \/ \E timeout \in Timeouts, once \in BOOLEAN : Start(t, timeout, once)
  PROVE  LateInv'
<1> USE DEF timerVars, passVars, historyVars
<1>1. LockIsFree /\ UNCHANGED <<pc, snapshots>>
  BY DEF Construct, Destructor, Stop, Start
<1>2. OnceEach'
  BY <1>1 DEF LateInv, OnceEach, LockIsFree, Snapped
<1>3. ASSUME NEW u \in Timers PROVE LateOf(u)'
  <2>1. Owed(u)' = Owed(u)
    BY <1>1 DEF Owed, Snapped
  <2>2. \/ late'[u] = 0 /\ u \notin stopped'
        \/ /\ late'[u] = late[u] /\ u \in stopped' /\ ~m_enabled'[u]
        \/ /\ late'[u] = late[u] /\ m_enabled'[u] = m_enabled[u]
           /\ u \in stopped' <=> u \in stopped
    <3>1. CASE Construct(t)
      BY <3>1 DEF Construct
    <3>2. CASE Destructor(t) \/ Stop(t)
      BY <3>2 DEF Destructor, ResetFields, Stop, TypeOK
    <3>3. CASE \E timeout \in Timeouts, once \in BOOLEAN : Start(t, timeout, once)
      BY <3>3 DEF Start, TypeOK
    <3> QED
      BY <3>1, <3>2, <3>3
  <2>3. LateOf(u)
    BY DEF LateInv
  <2> QED
    BY <2>1, <2>2, <2>3, OwedIsFinite DEF LateOf
<1> QED
  BY <1>2, <1>3 DEF LateInv

\* The steps of a pass that take no snapshot.
LEMMA PassLateInv ==
  ASSUME TypeOK, ListInv, LateInv, NEW p \in Processors,
         BeginPass(p) \/ Unlink(p) \/ Unlinked(p) \/ MaxTimerExpired(p) \/ Checked(p)
  PROVE  LateInv'
<1> USE DEF timerVars, passVars, historyVars
<1>1. UNCHANGED <<m_enabled, stopped, late, snapshots>>
  BY DEF BeginPass, Unlink, Unlinked, MaxTimerExpired, Checked
<1>2. \A q \in Processors, t \in Timers : Snapped(q, t)' = Snapped(q, t)
  BY <1>1 DEF Snapped
<1>3. OnceEach'
  <2>1. ASSUME NEW q \in Processors
        PROVE  /\ pc'[q] = "unlinking" => snapshots[q] = <<>>
               /\ pc'[q] = "checking" => \A t \in Timers : Snapped(q, t) =>
                                        \E j \in 1..Len(timers') : j < cursor' /\ timers'[j] = t
    <3>1. CASE BeginPass(p) \/ Unlinked(p)
      <4>1. \A t \in Timers : ~Snapped(p, t)
        BY <3>1 DEF BeginPass, Unlinked, LateInv, OnceEach, Snapped
      <4>2. snapshots[p] = <<>>
        BY <3>1 DEF BeginPass, Unlinked, LateInv, OnceEach
      <4>3. q # p => pc'[q] = pc[q] /\ pc[q] = "idle"
        BY <3>1 DEF BeginPass, Unlinked, LockIsFree, TypeOK, ListInv, OnePass
      <4> QED
        BY <4>1, <4>2, <4>3
    <3>2. CASE Unlink(p)
      <4>1. pc' = pc /\ pc[p] = "unlinking" /\ (q # p => pc[q] = "idle")
        BY <3>2 DEF Unlink, ListInv, OnePass
      <4> QED
        BY <4>1 DEF LateInv, OnceEach
    <3>3. CASE MaxTimerExpired(p)
      BY <3>3 DEF MaxTimerExpired, LateInv, OnceEach
    <3>4. CASE Checked(p)
      <4>1. pc'[p] = "idle" /\ (q # p => pc'[q] = pc[q] /\ pc[q] = "idle")
        BY <3>4 DEF Checked, ListInv, OnePass, TypeOK
      <4> QED
        BY <4>1
    <3> QED
      BY <3>1, <3>2, <3>3, <3>4
  <2> QED
    BY <1>1, <1>2, <2>1 DEF LateInv, OnceEach
<1>4. ASSUME NEW t \in Timers PROVE LateOf(t)'
  <2>1. Owed(t)' = Owed(t)
    BY <1>2 DEF Owed
  <2> QED
    BY <1>1, <2>1 DEF LateInv, LateOf
<1> QED
  BY <1>3, <1>4 DEF LateInv

\* The step that takes one: of an enabled timer, which no stop is behind.
LEMMA CheckLateInv ==
  ASSUME TypeOK, ListInv, LateInv, NEW p \in Processors, CheckExpired(p)
  PROVE  LateInv'
<1>1. /\ timers \in Seq(Timers) /\ cursor \in Nat /\ cursor # 0 /\ cursor \in 1..Len(timers)
      /\ snapshots \in [Processors -> Seq(Timers)] /\ m_enabled \in [Timers -> BOOLEAN]
  <2>1. /\ timers \in Seq(Timers) /\ cursor \in Nat \ {0} /\ cursor <= Len(timers)
        /\ snapshots \in [Processors -> Seq(Timers)] /\ m_enabled \in [Timers -> BOOLEAN]
    BY DEF TypeOK, CheckExpired
  <2> QED
    BY <2>1, LenProperties
<1>2. PICK c \in 1..Len(timers) : c = cursor
  BY <1>1
<1>3. PICK t \in Timers : t = timers[c]
  BY <1>1, <1>2, ElementOfSeq
<1>4. /\ pc[p] = "checking" /\ cursor' = c + 1 /\ UNCHANGED <<timers, pc, stopped, late>>
      /\ \/ UNCHANGED <<m_enabled, snapshots>>
         \/ /\ m_enabled[t] /\ snapshots' = [snapshots EXCEPT ![p] = Append(@, t)]
            /\ m_enabled' = m_enabled \/ m_enabled' = [m_enabled EXCEPT ![t] = FALSE]
  BY <1>2, <1>3 DEF CheckExpired, HasExpired, ExpireOnce, ExpirePeriodic
<1>5. \A q \in Processors : q # p => pc[q] = "idle"
  BY <1>4 DEF ListInv, OnePass
<1>6. CASE UNCHANGED <<m_enabled, snapshots>>
  <2>1. \A q \in Processors, u \in Timers : Snapped(q, u)' = Snapped(q, u)
    BY <1>6 DEF Snapped
  <2>2. OnceEach'
    BY <1>1, <1>2, <1>4, <1>5, <1>6, <2>1 DEF LateInv, OnceEach
  <2>3. ASSUME NEW u \in Timers PROVE LateOf(u)'
    <3>1. Owed(u)' = Owed(u)
      BY <2>1 DEF Owed
    <3> QED
      BY <1>4, <1>6, <3>1 DEF LateInv, LateOf
  <2> QED
    BY <2>2, <2>3 DEF LateInv
<1>7. CASE /\ m_enabled[t] /\ snapshots' = [snapshots EXCEPT ![p] = Append(@, t)]
           /\ m_enabled' = m_enabled \/ m_enabled' = [m_enabled EXCEPT ![t] = FALSE]
  <2>1. PICK s \in Seq(Timers) : s = snapshots[p]
    BY <1>1
  <2>2. /\ snapshots'[p] = Append(s, t)
        /\ \A q \in Processors : q # p => snapshots'[q] = snapshots[q]
    BY <1>1, <1>7, <2>1
  <2>3. /\ Len(s) \in Nat /\ Len(Append(s, t)) = Len(s) + 1 /\ Append(s, t)[Len(s) + 1] = t
        /\ \A i \in 1..Len(s) : Append(s, t)[i] = s[i]
    BY <2>1, AppendProperties, LenProperties
  <2>4. ASSUME NEW i \in 1..Len(s) PROVE s[i] # t
    <3>1. SUFFICES ASSUME s[i] = t PROVE FALSE
      OBVIOUS
    <3>2. Snapped(p, t)
      BY <2>1, <3>1 DEF Snapped
    <3>3. PICK j \in 1..Len(timers) : j < cursor /\ timers[j] = t
      BY <1>4, <3>2 DEF LateInv, OnceEach
    <3> QED
      BY <1>1, <1>2, <1>3, <3>3 DEF ListInv, Distinct
  <2>5. /\ \A u \in Timers : Snapped(p, u)' <=> Snapped(p, u) \/ u = t
        /\ \A q \in Processors, u \in Timers : q # p => Snapped(q, u)' = Snapped(q, u)
    <3>1. ASSUME NEW u \in Timers PROVE Snapped(p, u)' <=> Snapped(p, u) \/ u = t
      <4>1. Snapped(p, u)' <=> \E i \in 1..(Len(s) + 1) : Append(s, t)[i] = u
        BY <2>2, <2>3 DEF Snapped
      <4>2. Snapped(p, u) <=> \E i \in 1..Len(s) : s[i] = u
        BY <2>1 DEF Snapped
      <4>3. \A i \in 1..(Len(s) + 1) : i \in 1..Len(s) \/ i = Len(s) + 1
        BY <2>3
      <4>4. Len(s) + 1 \in 1..(Len(s) + 1) /\ 1..Len(s) \subseteq 1..(Len(s) + 1)
        BY <2>3
      <4> QED
        BY <2>3, <4>1, <4>2, <4>3, <4>4
    <3>2. ASSUME NEW q \in Processors, NEW u \in Timers, q # p PROVE Snapped(q, u)' = Snapped(q, u)
      BY <2>2, <3>2 DEF Snapped
    <3> QED
      BY <3>1, <3>2
  <2>6. OnceEach'
    <3>1. \A i, j \in 1..Len(snapshots'[p]) : snapshots'[p][i] = snapshots'[p][j] => i = j
      <4>1. SUFFICES ASSUME NEW i \in 1..(Len(s) + 1), NEW j \in 1..(Len(s) + 1),
                            Append(s, t)[i] = Append(s, t)[j]
                     PROVE  i = j
        BY <2>2, <2>3
      <4>2. \A k, l \in 1..Len(s) : s[k] = s[l] => k = l
        BY <2>1 DEF LateInv, OnceEach
      <4>3. CASE i = Len(s) + 1 \/ j = Len(s) + 1
        BY <2>3, <2>4, <4>1, <4>3
      <4>4. CASE i # Len(s) + 1 /\ j # Len(s) + 1
        <5>1. i \in 1..Len(s) /\ j \in 1..Len(s)
          BY <2>3, <4>4
        <5> QED
          BY <2>3, <4>1, <4>2, <5>1
      <4> QED
        BY <4>3, <4>4
    <3>2. \A u \in Timers : Snapped(p, u)' =>
            \E j \in 1..Len(timers') : j < cursor' /\ timers'[j] = u
      <4>1. SUFFICES ASSUME NEW u \in Timers, Snapped(p, u) \/ u = t
                     PROVE  \E j \in 1..Len(timers) : j < c + 1 /\ timers[j] = u
        BY <1>4, <2>5
      <4>2. CASE u = t
        BY <1>2, <1>3, <4>2
      <4>3. CASE Snapped(p, u)
        <5>1. PICK j \in 1..Len(timers) : j < cursor /\ timers[j] = u
          BY <1>4, <4>3 DEF LateInv, OnceEach
        <5> QED
          BY <1>1, <1>2, <5>1
      <4> QED
        BY <4>1, <4>2, <4>3
    <3>3. \A q \in Processors : q # p =>
            /\ \A i, j \in 1..Len(snapshots'[q]) : snapshots'[q][i] = snapshots'[q][j] => i = j
            /\ pc'[q] = "idle"
      BY <1>4, <1>5, <2>2 DEF LateInv, OnceEach
    <3> QED
      BY <1>4, <3>1, <3>2, <3>3 DEF OnceEach
  <2>7. ASSUME NEW u \in Timers PROVE LateOf(u)'
    <3>1. CASE u = t
      <4>1. late'[u] = 0 /\ u \notin stopped'
        BY <1>4, <1>7, <3>1 DEF LateInv, LateOf
      <4>2. /\ Cardinality(Owed(u)') <= Cardinality(Processors)
            /\ Cardinality(Owed(u)') \in Nat /\ Cardinality(Processors) \in Nat
        <5>1. Owed(u)' \subseteq Processors
          BY DEF Owed
        <5> QED
          BY <5>1, TimerAssumption, FS_Subset, FS_CardinalityType
      <4> QED
        BY <4>1, <4>2 DEF LateOf
    <3>2. CASE u # t
      <4>1. Owed(u)' = Owed(u)
        BY <2>5, <3>2 DEF Owed
      <4>2. m_enabled'[u] = m_enabled[u]
        BY <1>1, <1>7, <3>2
      <4> QED
        BY <1>4, <4>1, <4>2 DEF LateInv, LateOf
    <3> QED
      BY <3>1, <3>2
  <2> QED
    BY <2>6, <2>7 DEF LateInv
<1> QED
  BY <1>4, <1>6, <1>7

\* The step that invokes one: the thread owes this timer nothing more.
LEMMA InvokeLateInv ==
  ASSUME TypeOK, LateInv, NEW p \in Processors, InvokeSnapshot(p)
  PROVE  LateInv'
<1> USE DEF timerVars
<1>1. PICK s \in Seq(Timers) : s = snapshots[p] /\ s # <<>>
  BY DEF TypeOK, InvokeSnapshot
<1>2. PICK t \in Timers : t = Head(s)
  BY <1>1, HeadTailProperties
<1>3. /\ pc[p] = "idle" /\ snapshots'[p] = Tail(s)
      /\ \A q \in Processors : q # p => snapshots'[q] = snapshots[q]
      /\ late' = IF t \in stopped THEN [late EXCEPT ![t] = @ + 1] ELSE late
      /\ UNCHANGED <<m_enabled, stopped, timers, cursor, pc>>
  BY <1>1, <1>2 DEF InvokeSnapshot, TypeOK
<1>4. /\ Len(s) \in Nat /\ Len(s) >= 1 /\ Len(Tail(s)) = Len(s) - 1 /\ s[1] = t
      /\ \A i \in 1..(Len(s) - 1) : Tail(s)[i] = s[i + 1]
  BY <1>1, <1>2, HeadTailProperties, LenProperties, EmptySeq
<1>5. \A i, j \in 1..Len(s) : s[i] = s[j] => i = j
  BY <1>1 DEF LateInv, OnceEach
<1>6. /\ \A u \in Timers : Snapped(p, u)' => Snapped(p, u) /\ u # t
      /\ \A q \in Processors, u \in Timers : q # p => Snapped(q, u)' = Snapped(q, u)
      /\ Snapped(p, t)
  <2>1. ASSUME NEW u \in Timers, Snapped(p, u)' PROVE Snapped(p, u) /\ u # t
    <3>1. PICK i \in 1..(Len(s) - 1) : Tail(s)[i] = u
      BY <1>3, <1>4, <2>1 DEF Snapped
    <3>2. i + 1 \in 1..Len(s) /\ s[i + 1] = u /\ i + 1 # 1 /\ 1 \in 1..Len(s)
      BY <1>4, <3>1
    <3> QED
      BY <1>1, <1>4, <1>5, <3>2 DEF Snapped
  <2>2. ASSUME NEW q \in Processors, NEW u \in Timers, q # p PROVE Snapped(q, u)' = Snapped(q, u)
    BY <1>3, <2>2 DEF Snapped
  <2>3. Snapped(p, t)
    BY <1>1, <1>4 DEF Snapped
  <2> QED
    BY <2>1, <2>2, <2>3
<1>7. OnceEach'
  <2>1. \A i, j \in 1..Len(snapshots'[p]) : snapshots'[p][i] = snapshots'[p][j] => i = j
    <3>1. SUFFICES ASSUME NEW i \in 1..(Len(s) - 1), NEW j \in 1..(Len(s) - 1),
                          Tail(s)[i] = Tail(s)[j]
                   PROVE  i = j
      BY <1>3, <1>4
    <3>2. i + 1 \in 1..Len(s) /\ j + 1 \in 1..Len(s) /\ s[i + 1] = s[j + 1]
      BY <1>4, <3>1
    <3>3. i + 1 = j + 1
      BY <1>5, <3>2
    <3> QED
      BY <3>3
  <2>2. ASSUME NEW q \in Processors, q # p
        PROVE  /\ \A i, j \in 1..Len(snapshots'[q]) : snapshots'[q][i] = snapshots'[q][j] => i = j
               /\ pc'[q] = "unlinking" => snapshots'[q] = <<>>
               /\ pc'[q] = "checking" => \A u \in Timers : Snapped(q, u)' =>
                                        \E j \in 1..Len(timers') : j < cursor' /\ timers'[j] = u
    BY <1>3, <1>6, <2>2 DEF LateInv, OnceEach
  <2> QED
    BY <1>3, <2>1, <2>2 DEF OnceEach
<1>8. ASSUME NEW u \in Timers PROVE LateOf(u)'
  <2>1. LateOf(u) /\ late[u] \in Nat
    BY DEF LateInv, TypeOK
  <2>2. CASE u = t
    <3>1. Owed(u)' \subseteq Owed(u) \ {p} /\ p \in Owed(u)
      BY <1>6, <2>2 DEF Owed
    <3>2. /\ IsFiniteSet(Owed(u) \ {p})
          /\ Cardinality(Owed(u) \ {p}) = Cardinality(Owed(u)) - 1
      BY <3>1, OwedIsFinite, FS_RemoveElement
    <3>3. Cardinality(Owed(u)') <= Cardinality(Owed(u)) - 1 /\ Cardinality(Owed(u)') \in Nat
      BY <3>1, <3>2, FS_Subset, FS_CardinalityType
    <3>4. late'[u] = late[u] \/ (u \in stopped /\ late'[u] = late[u] + 1)
      BY <1>3, <2>2 DEF TypeOK
    <3>5. (t \notin stopped => late'[u] = late[u])
      BY <1>3, <2>2
    <3> QED
      BY <1>3, <2>1, <2>2, <3>3, <3>4, <3>5, OwedIsFinite DEF LateOf
  <2>3. CASE u # t
    <3>1. Owed(u)' \subseteq Owed(u)
      BY <1>6 DEF Owed
    <3>2. Cardinality(Owed(u)') <= Cardinality(Owed(u)) /\ Cardinality(Owed(u)') \in Nat
      BY <3>1, OwedIsFinite, FS_Subset, FS_CardinalityType
    <3>3. late'[u] = late[u]
      BY <1>3, <2>3 DEF TypeOK
    <3> QED
      BY <1>3, <2>1, <3>2, <3>3, OwedIsFinite DEF LateOf
  <2> QED
    BY <2>2, <2>3
<1> QED
  BY <1>7, <1>8 DEF LateInv

LEMMA LateInvKept == TypeOK /\ ListInv /\ LateInv /\ [Next]_vars => LateInv'
<1> SUFFICES ASSUME TypeOK, ListInv, LateInv, [Next]_vars PROVE LateInv'
  OBVIOUS
<1>1. CASE Tick \/ UNCHANGED vars
  <2>1. UNCHANGED <<timers, m_enabled, pc, cursor, snapshots, stopped, late>>
    BY <1>1 DEF Tick, vars, timerVars, passVars, historyVars
  <2>2. \A q \in Processors, u \in Timers : Snapped(q, u)' = Snapped(q, u)
    BY <2>1 DEF Snapped
  <2>3. OnceEach'
    BY <2>1, <2>2 DEF LateInv, OnceEach
  <2>4. \A u \in Timers : Owed(u)' = Owed(u)
    BY <2>2 DEF Owed
  <2> QED
    BY <2>1, <2>3, <2>4 DEF LateInv, LateOf
<1> QED
  BY <1>1, ClientLateInv, PassLateInv, CheckLateInv, InvokeLateInv DEF Next, ClientStep, ProcessTimers

\* After Stop() or the destructor, each thread that runs ProcessTimers() begins the
\* callbacks of the timer at most once more, for any number of threads and timers.
THEOREM LateCallsAreBounded == Spec => []LateCallsBounded
<1>1. TypeOK /\ LateInv => LateCallsBounded
  <2> SUFFICES ASSUME TypeOK, LateInv, NEW t \in Timers
               PROVE  late[t] <= Cardinality(Processors)
    BY DEF LateCallsBounded
  <2>1. LateOf(t) /\ late[t] \in Nat
    BY DEF LateInv, TypeOK
  <2> QED
    BY <2>1, OwedIsFinite DEF LateOf
<1>2. TypeOK /\ ListInv /\ [Next]_vars => ListInv'
  BY ListInvKept
<1> QED
  BY <1>1, <1>2, TypeCorrect, InitListInv, InitLateInv, LateInvKept, PTL DEF Spec

-----------------------------------------------------------------------------
(***************************************************************************)
(* Containers: types.                                                      *)
(***************************************************************************)
BoundDelegate == UNION {UNION {Gated(d) : d \in c.samples} : c \in Setups}

Slot == Slots \cup {Empty}
Frame == [over : {"list", "copy", "message"}, snapshot : Seq(Slot), pos : Nat \ {0}, at : Slot,
          runs : BoundDelegate \cup {Null}, waits : BOOLEAN]
QueueMessage == [d : BoundDelegate, from : Threads \cup {"async", "gone"}, timer : Slot]

ContainersTypeOK ==
  /\ setup \in Setups
  /\ stored \in [Slots -> BoundDelegate \cup {Null}]
  /\ m_delegates \in Seq(Slot) /\ other \in Seq(Slots)
  /\ broadcastCount \in Nat /\ cleanup \in BOOLEAN
  /\ connections \subseteq Slots
  /\ stack \in [Threads -> Seq(Frame)]
  /\ queue \in Seq(QueueMessage)
  /\ released \subseteq Objects /\ dead \subseteq released

(***************************************************************************)
(* Containers: the inductive invariant.                                    *)
(***************************************************************************)
\* A delegate that is one of an object's owners is bound to an object that lives.
Sound(d) == d.class \in Strong => d.object \notin dead
SameTarget(d, e) == d.class = e.class /\ d.object = e.object

HeapInv ==
  /\ \A s \in Referenced : stored[s] \in BoundDelegate /\ Sound(stored[s])
  /\ \A s \in Slots \ Referenced : stored[s] = Null

\* Which invocations there are, by container and thread, and what they run.
FrameOK(t, f) ==
  /\ f.over = "list" => Container = "MulticastDelegate"
  /\ f.over = "copy" => Container # "MulticastDelegate"
  /\ f.over = "message" => t = "worker" /\ ~f.waits
  /\ f.over # "message" => t = "main" \/ Container \notin {"MulticastDelegate", "UnicastDelegate"}
  /\ f.waits => f.runs = Null
  /\ f.runs # Null => /\ f.runs.class \in Weak => f.runs.object \notin dead
                      /\ IF f.over = "message" /\ f.at = Empty THEN Sound(f.runs)
                         ELSE /\ f.at # Empty
                              /\ f.at \in Referenced => SameTarget(stored[f.at], f.runs)
StackInv == \A t \in Threads : \A i \in 1 .. Len(stack[t]) : FrameOK(t, stack[t][i])

\* What a message is bound to: its clone, or the TimerDelegate in its slot while it is there.
MessageOK(m) == IF m.timer = Empty THEN Sound(m.d)
                ELSE m.timer \in Referenced => SameTarget(stored[m.timer], m.d)

\* A caller that waits has at most one message queued.
QueueInv ==
  /\ \A i \in 1 .. Len(queue) :
       LET m == queue[i]
       IN  /\ MessageOK(m) /\ m.d.class # "MemberSp"
           /\ m.timer # Empty => m.from = "async"
           /\ m.from \in Threads => stack[m.from] # <<>> /\ Head(stack[m.from]).waits
  /\ \A i, j \in 1 .. Len(queue) :
       queue[i].from \in Threads /\ queue[i].from = queue[j].from => i = j

\* The walks over the live list are the frames of the thread that it is confined to.
WalkInv ==
  /\ IF Container = "MulticastDelegate" THEN broadcastCount = Len(stack["main"])
     ELSE broadcastCount = 0
  /\ \A i \in 1 .. Len(stack["main"]) :
       stack["main"][i].over = "list" => stack["main"][i].pos <= Len(m_delegates) + 1
  /\ Empty \in Range(m_delegates) => cleanup /\ broadcastCount > 0

\* A UnicastDelegate's operator() has no copy of the delegate, and reads it before
\* anything can replace it.
UnicastInv ==
  /\ Container \in Unicast => Len(m_delegates) <= 1
  /\ Container = "UnicastDelegate" =>
       \A i \in 1 .. Len(stack["main"]) :
         LET f == stack["main"][i]
         IN  f.pos <= Len(f.snapshot) =>
               i = 1 /\ f.runs = Null /\ ~f.waits /\ f.snapshot = m_delegates

ContainersInv ==
  ContainersTypeOK /\ HeapInv /\ StackInv /\ QueueInv /\ WalkInv /\ UnicastInv /\ GateOpens

(***************************************************************************)
(* Containers: what Without() keeps of a list.                             *)
(***************************************************************************)
\* Induction on the numbers up to n, for a set.
LEMMA UpTo ==
  ASSUME NEW n \in Nat, NEW T, 0 \in T, \A k \in 0 .. n - 1 : k \in T => k + 1 \in T
  PROVE  n \in T
<1> DEFINE R == OpToRel(<, Nat)
           Out == {k \in 0 .. n : k \notin T}
<1>1. IsWellFoundedOn(R, Nat)
  BY NatLessThanWellFounded
<1>2. \A x, y \in Nat : <<y, x>> \in R <=> y < x
  BY DEF OpToRel
<1>3. Out \subseteq Nat
  OBVIOUS
<1> SUFFICES ASSUME Out # {} PROVE FALSE
  OBVIOUS
<1> HIDE DEF R
<1>4. PICK x \in Out : \A y \in Out : ~ (<<y, x>> \in R)
  BY <1>1, <1>3, WFMin
<1>5. /\ x - 1 \in 0 .. n - 1 /\ (x - 1) + 1 = x /\ x - 1 < x /\ x - 1 \in 0 .. n
      /\ x - 1 \in Nat /\ x \in Nat
  OBVIOUS
<1>6. x - 1 \in Out
  BY <1>5
<1>7. <<x - 1, x>> \in R
  BY <1>2, <1>5, Zenon
<1> QED
  BY <1>4, <1>6, <1>7

\* The recursion of Without, on the first n entries.
Keeps(list, s, n, f) ==
  f = [k \in 0 .. n |-> IF k = 0 THEN <<>>
                        ELSE IF list[k] = s THEN f[k - 1] ELSE Append(f[k - 1], list[k])]
KeptOf(list, s) == CHOOSE f : Keeps(list, s, Len(list), f)

LEMMA KeptExists ==
  ASSUME NEW list, NEW s, NEW n \in Nat
  PROVE  \E f : Keeps(list, s, n, f)
<1> DEFINE T == {k \in Nat : \E f : Keeps(list, s, k, f)}
<1>1. 0 \in T
  <2> DEFINE f == [k \in 0 .. 0 |-> <<>>]
  <2>1. Keeps(list, s, 0, f)
    BY DEF Keeps
  <2> QED
    BY <2>1
<1>2. ASSUME NEW k \in 0 .. n - 1, k \in T
      PROVE  k + 1 \in T
  <2>1. PICK f : Keeps(list, s, k, f)
    BY <1>2
  <2>2. k \in Nat /\ k + 1 \in Nat /\ (k + 1) - 1 = k
    OBVIOUS
  <2>3. f = [j \in 0 .. k |-> IF j = 0 THEN <<>>
                        ELSE IF list[j] = s THEN f[j - 1] ELSE Append(f[j - 1], list[j])]
    BY <2>1 DEF Keeps
  <2> DEFINE new == IF list[k + 1] = s THEN f[k] ELSE Append(f[k], list[k + 1])
             g   == [j \in 0 .. k + 1 |-> IF j = k + 1 THEN new ELSE f[j]]
  <2>4. ASSUME NEW j \in 0 .. k + 1
        PROVE  g[j] = IF j = 0 THEN <<>>
                      ELSE IF list[j] = s THEN g[j - 1] ELSE Append(g[j - 1], list[j])
    <3>1. CASE j = k + 1
      <4>1. j # 0 /\ j - 1 = k /\ k \in 0 .. k + 1 /\ k # k + 1
        BY <2>2, <3>1
      <4>2. g[j - 1] = f[k]
        BY <4>1
      <4>3. g[j] = new
        BY <3>1
      <4> HIDE DEF g
      <4> QED
        BY <3>1, <4>1, <4>2, <4>3
    <3>2. CASE j # k + 1
      <4>1. j \in 0 .. k
        BY <2>2, <3>2
      <4>2. g[j] = f[j]
        BY <3>2
      <4>3. j # 0 => j - 1 \in 0 .. k /\ g[j - 1] = f[j - 1]
        BY <2>2, <4>1
      <4>4. f[j] = IF j = 0 THEN <<>>
                   ELSE IF list[j] = s THEN f[j - 1] ELSE Append(f[j - 1], list[j])
        BY <2>3, <4>1
      <4> HIDE DEF g
      <4> QED
        BY <4>2, <4>3, <4>4
    <3> QED
      BY <3>1, <3>2
  <2>5. Keeps(list, s, k + 1, g)
    <3>1. g = [j \in 0 .. k + 1 |-> g[j]]
      OBVIOUS
    <3> HIDE DEF g
    <3> QED
      BY <2>4, <3>1 DEF Keeps
  <2> QED
    BY <2>2, <2>5
<1> HIDE DEF T
<1>3. n \in T
  BY <1>1, <1>2, UpTo
<1> QED
  BY <1>3 DEF T

LEMMA KeptIs ==
  ASSUME NEW list, NEW s, Len(list) \in Nat
  PROVE  /\ Without(list, s) = KeptOf(list, s)[Len(list)]
         /\ KeptOf(list, s)[0] = <<>>
         /\ \A k \in 0 .. Len(list) - 1 :
              KeptOf(list, s)[k + 1] = IF list[k + 1] = s THEN KeptOf(list, s)[k]
                                       ELSE Append(KeptOf(list, s)[k], list[k + 1])
<1>1. Keeps(list, s, Len(list), KeptOf(list, s))
  BY KeptExists DEF KeptOf
<1>2. Without(list, s) = KeptOf(list, s)[Len(list)]
  BY DEF Without, KeptOf, Keeps
<1> DEFINE f == KeptOf(list, s)
<1> HIDE DEF f
<1>3. f = [k \in 0 .. Len(list) |->
             IF k = 0 THEN <<>>
             ELSE IF list[k] = s THEN f[k - 1] ELSE Append(f[k - 1], list[k])]
  BY <1>1 DEF Keeps, f
<1>4. \A k \in 0 .. Len(list) :
        f[k] = IF k = 0 THEN <<>>
               ELSE IF list[k] = s THEN f[k - 1] ELSE Append(f[k - 1], list[k])
  BY <1>3
<1>5. f[0] = <<>>
  BY <1>4
<1>6. ASSUME NEW k \in 0 .. Len(list) - 1
      PROVE  f[k + 1] = IF list[k + 1] = s THEN f[k] ELSE Append(f[k], list[k + 1])
  <2>1. k + 1 \in 0 .. Len(list) /\ k + 1 # 0 /\ (k + 1) - 1 = k
    OBVIOUS
  <2> QED
    BY <1>4, <2>1
<1> QED
  BY <1>2, <1>5, <1>6 DEF f

LEMMA RangeAppend ==
  ASSUME NEW S, NEW t \in Seq(S), NEW m \in S
  PROVE  Append(t, m) \in Seq(S) /\ Range(Append(t, m)) \subseteq Range(t) \cup {m}
<1>1. /\ Append(t, m) \in Seq(S) /\ Len(Append(t, m)) = Len(t) + 1 /\ Len(t) \in Nat
      /\ Append(t, m)[Len(t) + 1] = m /\ \A i \in 1 .. Len(t) : Append(t, m)[i] = t[i]
  BY AppendProperties, LenProperties
<1>2. DOMAIN t = 1 .. Len(t) /\ DOMAIN Append(t, m) = 1 .. Len(t) + 1
  BY <1>1, LenProperties
<1> HIDE DEF Range
<1>3. ASSUME NEW i \in 1 .. Len(t) + 1 PROVE Append(t, m)[i] \in Range(t) \cup {m}
  <2>1. i = Len(t) + 1 \/ i \in 1 .. Len(t)
    BY <1>1
  <2> QED
    BY <1>1, <1>2, <2>1 DEF Range
<1> QED
  BY <1>1, <1>2, <1>3 DEF Range

\* What is left of a list are its other entries.
LEMMA WithoutLemma ==
  ASSUME NEW S, NEW list \in Seq(S), NEW s
  PROVE  Without(list, s) \in Seq(S) /\ Range(Without(list, s)) \subseteq Range(list) \ {s}
<1> DEFINE K == KeptOf(list, s)
           T == {k \in Nat : k <= Len(list) =>
                   K[k] \in Seq(S) /\ Range(K[k]) \subseteq Range(list) \ {s}}
<1>1. Len(list) \in Nat /\ DOMAIN list = 1 .. Len(list)
  BY LenProperties
<1>2. \A i \in 1 .. Len(list) : list[i] \in S /\ list[i] \in Range(list)
  BY <1>1, ElementOfSeq DEF Range
<1>3. 0 \in T
  <2>1. K[0] = <<>> /\ Range(<<>>) = {}
    BY <1>1, KeptIs DEF Range
  <2>2. <<>> \in Seq(S)
    BY EmptySeq
  <2> QED
    BY <2>1, <2>2
<1>4. ASSUME NEW k \in 0 .. Len(list) - 1, k \in T
      PROVE  k + 1 \in T
  <2>1. k + 1 \in Nat /\ k + 1 \in 1 .. Len(list) /\ k <= Len(list)
    BY <1>1
  <2>2. K[k + 1] = IF list[k + 1] = s THEN K[k] ELSE Append(K[k], list[k + 1])
    BY <1>1, KeptIs
  <2>3. K[k] \in Seq(S) /\ Range(K[k]) \subseteq Range(list) \ {s}
    BY <1>4, <2>1
  <2>4. list[k + 1] \in S /\ list[k + 1] \in Range(list)
    BY <1>2, <2>1
  <2> HIDE DEF K
  <2>5. K[k + 1] \in Seq(S) /\ Range(K[k + 1]) \subseteq Range(list) \ {s}
    <3>1. CASE list[k + 1] = s
      BY <2>2, <2>3, <3>1
    <3>2. CASE list[k + 1] # s
      <4>1. /\ Append(K[k], list[k + 1]) \in Seq(S)
            /\ Range(Append(K[k], list[k + 1])) \subseteq Range(K[k]) \cup {list[k + 1]}
        BY <2>3, <2>4, RangeAppend
      <4> QED
        BY <2>2, <2>3, <2>4, <3>2, <4>1
    <3> QED
      BY <3>1, <3>2
  <2> QED
    BY <2>1, <2>5
<1> HIDE DEF T
<1>5. Len(list) \in T
  BY <1>1, <1>3, <1>4, UpTo
<1>6. Without(list, s) = K[Len(list)]
  BY <1>1, KeptIs
<1> QED
  BY <1>1, <1>5, <1>6 DEF T

-----------------------------------------------------------------------------
(***************************************************************************)
(* Containers: the operations of the delegate classes.                     *)
(***************************************************************************)
LEMMA DelegateParts ==
  ASSUME NEW d \in BoundDelegate
  PROVE  \E e : /\ Fresh(e) /\ Null \notin Gated(e) /\ Gated(e) \subseteq BoundDelegate
                 /\ \E b \in BOOLEAN : d = [e EXCEPT !.gate = b]
<1>1. PICK c \in Setups : d \in UNION {Gated(e) : e \in c.samples}
  BY DEF BoundDelegate
<1>2. PICK e \in c.samples : d \in Gated(e)
  BY <1>1
<1>3. Fresh(e) /\ Null \notin Gated(e) /\ Gated(e) \subseteq BoundDelegate
  BY SetupsAssumption DEF BoundDelegate
<1> QED
  BY <1>2, <1>3 DEF Gated

LEMMA GatedParts ==
  ASSUME NEW e, Fresh(e), NEW b \in BOOLEAN
  PROVE  LET d == [e EXCEPT !.gate = b]
         IN  /\ d.class = e.class /\ d.func = e.func /\ d.object = e.object
             /\ d.how = e.how /\ d.gate = b /\ DOMAIN d = DOMAIN e
             /\ Blank(d) = Blank(e) /\ TimerClone(d) = e
<1> DEFINE D == DOMAIN e
           d == [e EXCEPT !.gate = b]
<1>1. {"class", "func", "object", "how", "gate"} \subseteq D
  BY DEF Fresh
<1>2. e = [x \in D |-> e[x]] /\ e.gate = FALSE
  BY DEF Fresh
<1>3. d = [x \in D |-> IF x = "gate" THEN b ELSE e[x]]
  BY <1>1, <1>2
<1> HIDE DEF D
<1>4. /\ d.class = e.class /\ d.func = e.func /\ d.object = e.object
      /\ d.how = e.how /\ d.gate = b /\ DOMAIN d = D
  BY <1>1, <1>3
<1> DEFINE B == [x \in D |-> IF x \in {"func", "object", "how"} THEN Null
                             ELSE IF x = "gate" THEN FALSE ELSE e[x]]
<1>5. Blank(e) = B
  BY <1>1, <1>2 DEF Blank
<1>6. Blank(d) = B
  BY <1>1, <1>3 DEF Blank
<1>7. [d EXCEPT !.gate = FALSE] = e
  BY <1>1, <1>2, <1>3
<1> QED
  BY <1>4, <1>5, <1>6, <1>7 DEF D, TimerClone

LEMMA CloneLemma ==
  ASSUME NEW d \in BoundDelegate
  PROVE  /\ AnyClone(d) \in BoundDelegate
         /\ SameTarget(AnyClone(d), d) /\ AnyClone(d).gate = FALSE
<1>1. PICK e : /\ Fresh(e) /\ Gated(e) \subseteq BoundDelegate
               /\ \E b \in BOOLEAN : d = [e EXCEPT !.gate = b]
  BY DelegateParts
<1>2. PICK b \in BOOLEAN : d = [e EXCEPT !.gate = b]
  BY <1>1
<1>3. /\ d.class = e.class /\ d.func = e.func /\ d.object = e.object /\ d.how = e.how
      /\ Blank(d) = Blank(e) /\ TimerClone(d) = e
  BY <1>1, <1>2, GatedParts
<1>4. AnyClone(e) = e /\ e.gate = FALSE /\ e.class \in Classes \cup RemoteClasses
  BY <1>1 DEF Fresh
<1>5. /\ FreeClone(d) = FreeClone(e) /\ FunctionClone(d) = FunctionClone(e)
      /\ MemberClone(d) = MemberClone(e) /\ MemberSpClone(d) = MemberSpClone(e)
  BY <1>3 DEF FreeClone, FunctionClone, MemberClone, MemberSpClone
<1>6. AnyClone(d) = e
  <2>1. CASE d.class \in TimerClasses
    BY <1>3, <2>1 DEF AnyClone, Clone, TimerClasses
  <2>2. CASE d.class \in RemoteClasses
    BY <1>3, <1>4, <1>5, <2>2 DEF AnyClone, FreeRemoteClone, MemberRemoteClone,
                                  FunctionRemoteClone, RemoteClasses
  <2>3. CASE d.class \in {"Free", "Member", "MemberSp", "Function"}
    BY <1>3, <1>4, <1>5, <2>3 DEF AnyClone, Clone
  <2>4. CASE d.class \in {"FreeAsync", "MemberAsync", "MemberAsyncSp", "FunctionAsync"}
    BY <1>3, <1>4, <1>5, <2>4 DEF AnyClone, Clone, FreeAsyncClone, MemberAsyncClone,
                                  MemberAsyncSpClone, FunctionAsyncClone
  <2>5. CASE d.class \in {"FreeAsyncWait", "MemberAsyncWait", "MemberAsyncWaitSp",
                          "FunctionAsyncWait"}
    BY <1>3, <1>4, <1>5, <2>5 DEF AnyClone, Clone, FreeAsyncWaitClone, MemberAsyncWaitClone,
                                  MemberAsyncWaitSpClone, FunctionAsyncWaitClone
  <2> QED
    BY <1>3, <1>4, <2>1, <2>2, <2>3, <2>4, <2>5 DEF Classes, TimerClasses
<1>7. e \in Gated(e)
  <2>1. e = [e EXCEPT !.gate = FALSE]
    BY <1>1 DEF Fresh
  <2> QED
    BY <2>1 DEF Gated
<1> QED
  BY <1>1, <1>3, <1>4, <1>6, <1>7 DEF SameTarget

\* Clone() as CallNext uses it, of the classes that have messages.
LEMMA LocalClone ==
  ASSUME NEW d \in BoundDelegate, d.class \notin RemoteClasses
  PROVE  Clone(d) = AnyClone(d)
BY DEF AnyClone, RemoteClasses

LEMMA GateLemma ==
  ASSUME NEW d \in BoundDelegate, NEW b \in BOOLEAN
  PROVE  /\ [d EXCEPT !.gate = b] \in BoundDelegate
         /\ SameTarget([d EXCEPT !.gate = b], d) /\ [d EXCEPT !.gate = b].gate = b
<1>1. PICK e : /\ Fresh(e) /\ Gated(e) \subseteq BoundDelegate
               /\ \E c \in BOOLEAN : d = [e EXCEPT !.gate = c]
  BY DelegateParts
<1>2. PICK c \in BOOLEAN : d = [e EXCEPT !.gate = c]
  BY <1>1
<1>3. [d EXCEPT !.gate = b] = [e EXCEPT !.gate = b]
  BY <1>1, <1>2 DEF Fresh
<1>4. [d EXCEPT !.gate = b] \in BoundDelegate
  BY <1>1, <1>3 DEF Gated
<1> QED
  BY <1>1, <1>2, <1>3, <1>4, GatedParts DEF SameTarget

LEMMA ClassLemma ==
  ASSUME NEW d \in BoundDelegate
  PROVE  /\ d.class \in Classes \cup RemoteClasses
         /\ d.object # Null => d.object \in Objects /\ d.class \in Strong \cup Weak
<1>1. PICK e : Fresh(e) /\ \E b \in BOOLEAN : d = [e EXCEPT !.gate = b]
  BY DelegateParts
<1>2. d.class = e.class /\ d.object = e.object
  BY <1>1, GatedParts
<1> QED
  BY <1>1, <1>2 DEF Fresh

\* What operator() and Invoke() decide to run is not bound to a weak pointer that has expired.
LEMMA CallLemma ==
  ASSUME NEW d \in BoundDelegate
  PROVE  /\ AnyCall(d, dead) = "run" /\ d.class \in Weak => d.object \notin dead
         /\ AnyCall(d, dead) \in {"dispatch", "wait", "fire"} =>
              d.class \notin RemoteClasses \cup {"MemberSp"}
         /\ AnyCall(d, dead) \in {"run", "dispatch", "wait", "fire", "skip", "send"}
<1>1. d.class \in Classes \cup RemoteClasses
  BY ClassLemma
<1>2. CASE d.class \in RemoteClasses
  BY <1>2 DEF AnyCall, RemoteClasses, Weak
<1>3. CASE d.class \in {"Free", "Member", "Function"}
  BY <1>3 DEF AnyCall, Call, FreeCall, MemberCall, FunctionCall, RemoteClasses, Weak
<1>4. CASE d.class = "MemberSp"
  BY <1>4 DEF AnyCall, Call, MemberSpCall, Locked, RemoteClasses
<1>5. CASE d.class \in {"FreeAsync", "MemberAsync", "MemberAsyncSp", "FunctionAsync"}
  BY <1>5 DEF AnyCall, Call, FreeAsyncCall, MemberAsyncCall, MemberAsyncSpCall,
              FunctionAsyncCall, Unless, RemoteClasses
<1>6. CASE d.class \in {"FreeAsyncWait", "MemberAsyncWait", "MemberAsyncWaitSp",
                        "FunctionAsyncWait"}
  BY <1>6 DEF AnyCall, Call, FreeAsyncWaitCall, MemberAsyncWaitCall, MemberAsyncWaitSpCall,
              FunctionAsyncWaitCall, Unless, RemoteClasses
<1>7. CASE d.class \in TimerClasses
  BY <1>7 DEF AnyCall, Call, TimerCall, TimerClasses, Unless, RemoteClasses, Weak
<1> QED
  BY <1>1, <1>2, <1>3, <1>4, <1>5, <1>6, <1>7 DEF Classes, TimerClasses

LEMMA InvokeLemma ==
  ASSUME NEW d \in BoundDelegate, Invoke(d, dead) = "run", d.class \in Weak, d.class # "MemberSp"
  PROVE  d.object \notin dead
BY DEF Invoke, Weak, MemberAsyncSpInvoke, MemberAsyncWaitSpInvoke, TimerInvoke, MemberSpCall,
       Locked

LEMMA SampleLemma ==
  ASSUME setup \in Setups, NEW d \in Samples
  PROVE  d \in BoundDelegate /\ d.gate = FALSE
<1>1. Fresh(d)
  BY SetupsAssumption DEF Samples
<1>2. d = [d EXCEPT !.gate = FALSE] /\ d.gate = FALSE
  BY <1>1 DEF Fresh
<1>3. d \in Gated(d)
  BY <1>2 DEF Gated
<1> QED
  BY <1>2, <1>3 DEF BoundDelegate, Samples

LEMMA NullLemma == Null \notin BoundDelegate
BY SetupsAssumption DEF BoundDelegate

LEMMA ContainerLemma == ASSUME setup \in Setups
                        PROVE Container \in Multicast \cup Unicast \cup {"Signal"}
BY SetupsAssumption DEF Container

-----------------------------------------------------------------------------
(***************************************************************************)
(* Containers: sequences, references and slots.                            *)
(***************************************************************************)
LEMMA ConsLemma ==
  ASSUME NEW S, NEW q \in Seq(S), NEW f \in S
  PROVE  /\ <<f>> \o q \in Seq(S) /\ Len(<<f>> \o q) = Len(q) + 1 /\ <<f>> \o q # <<>>
         /\ (<<f>> \o q)[1] = f /\ Head(<<f>> \o q) = f
         /\ \A i \in 1 .. Len(q) : (<<f>> \o q)[i + 1] = q[i]
         /\ \A i \in 1 .. Len(q) + 1 : i # 1 => i - 1 \in 1 .. Len(q) /\ (<<f>> \o q)[i] = q[i - 1]
<1>1. <<f>> \in Seq(S) /\ Len(<<f>>) = 1 /\ <<f>>[1] = f /\ Len(q) \in Nat
  BY LenProperties
<1> DEFINE r == <<f>> \o q
<1>2. /\ r \in Seq(S) /\ Len(r) = 1 + Len(q)
      /\ \A i \in 1 .. 1 + Len(q) : r[i] = IF i <= 1 THEN <<f>>[i] ELSE q[i - 1]
  BY <1>1, ConcatProperties
<1> HIDE DEF r
<1>3. r[1] = f /\ Len(r) = Len(q) + 1
  BY <1>1, <1>2
<1>4. r # <<>>
  BY <1>1, <1>2, EmptySeq
<1>5. Head(r) = r[1]
  BY <1>2, <1>4
<1>6. ASSUME NEW i \in 1 .. Len(q) PROVE r[i + 1] = q[i]
  <2>1. i + 1 \in 1 .. 1 + Len(q) /\ ~ (i + 1 <= 1) /\ (i + 1) - 1 = i
    BY <1>1
  <2> QED
    BY <1>2, <2>1
<1>7. ASSUME NEW i \in 1 .. Len(q) + 1, i # 1 PROVE i - 1 \in 1 .. Len(q) /\ r[i] = q[i - 1]
  <2>1. i \in 1 .. 1 + Len(q) /\ ~ (i <= 1) /\ i - 1 \in 1 .. Len(q)
    BY <1>1, <1>7
  <2> QED
    BY <1>2, <2>1
<1> QED
  BY <1>2, <1>3, <1>4, <1>5, <1>6, <1>7 DEF r

LEMMA UnconsLemma ==
  ASSUME NEW S, NEW q \in Seq(S), q # <<>>
  PROVE  /\ Head(q) = q[1] /\ Head(q) \in S /\ 1 \in 1 .. Len(q) /\ Len(q) \in Nat \ {0}
         /\ Tail(q) \in Seq(S) /\ Len(Tail(q)) = Len(q) - 1
         /\ \A i \in 1 .. Len(q) - 1 : i + 1 \in 1 .. Len(q) /\ Tail(q)[i] = q[i + 1]
<1>1. Len(q) \in Nat \ {0}
  BY EmptySeq
<1>2. Head(q) = q[1]
  OBVIOUS
<1> QED
  BY <1>1, <1>2, HeadTailProperties

LEMMA RangeIs ==
  ASSUME NEW S, NEW q \in Seq(S)
  PROVE  /\ Range(q) = {q[i] : i \in 1 .. Len(q)} /\ Range(q) \subseteq S
         /\ DOMAIN q = 1 .. Len(q) /\ Len(q) \in Nat
<1>1. DOMAIN q = 1 .. Len(q) /\ Len(q) \in Nat
  BY LenProperties
<1>2. Range(q) = {q[i] : i \in 1 .. Len(q)}
  BY <1>1 DEF Range
<1>3. \A i \in 1 .. Len(q) : q[i] \in S
  BY ElementOfSeq
<1> QED
  BY <1>1, <1>2, <1>3

LEMMA RangeConcat ==
  ASSUME NEW S, NEW q \in Seq(S), NEW r \in Seq(S)
  PROVE  q \o r \in Seq(S) /\ Range(q \o r) = Range(q) \cup Range(r) /\ Len(q \o r) = Len(q) + Len(r)
<1>1. /\ Range(q) = {q[i] : i \in 1 .. Len(q)} /\ Range(r) = {r[i] : i \in 1 .. Len(r)}
      /\ Len(q) \in Nat /\ Len(r) \in Nat
  BY RangeIs
<1>2. /\ q \o r \in Seq(S) /\ Len(q \o r) = Len(q) + Len(r)
      /\ \A i \in 1 .. Len(q) + Len(r) : (q \o r)[i] = IF i <= Len(q) THEN q[i] ELSE r[i - Len(q)]
  BY ConcatProperties
<1> DEFINE z == q \o r
<1>3. Range(z) = {z[i] : i \in 1 .. Len(z)}
  BY <1>2, RangeIs
<1> HIDE DEF z
<1>4. ASSUME NEW i \in 1 .. Len(q) + Len(r)
      PROVE  z[i] \in Range(q) \cup Range(r)
  <2>1. CASE i <= Len(q)
    <3>1. i \in 1 .. Len(q)
      BY <1>1, <2>1
    <3> QED
      BY <1>1, <1>2, <2>1, <3>1 DEF z
  <2>2. CASE ~ (i <= Len(q))
    <3>1. i - Len(q) \in 1 .. Len(r)
      BY <1>1, <2>2
    <3> QED
      BY <1>1, <1>2, <2>2, <3>1 DEF z
  <2> QED
    BY <2>1, <2>2
<1>5. ASSUME NEW i \in 1 .. Len(q) PROVE q[i] \in Range(z)
  <2>1. i \in 1 .. Len(q) + Len(r) /\ i <= Len(q)
    BY <1>1
  <2> QED
    BY <1>2, <1>3, <2>1 DEF z
<1>6. ASSUME NEW i \in 1 .. Len(r) PROVE r[i] \in Range(z)
  <2>1. i + Len(q) \in 1 .. Len(q) + Len(r) /\ ~ (i + Len(q) <= Len(q)) /\ (i + Len(q)) - Len(q) = i
    BY <1>1
  <2>2. z[i + Len(q)] = r[i]
    BY <1>2, <2>1 DEF z
  <2> QED
    BY <1>2, <1>3, <2>1, <2>2 DEF z
<1>7. Range(z) = Range(q) \cup Range(r)
  BY <1>1, <1>2, <1>3, <1>4, <1>5, <1>6 DEF z
<1> QED
  BY <1>2, <1>7 DEF z

LEMMA InFrames ==
  ASSUME NEW stk \in [Threads -> Seq(Frame)]
  PROVE  /\ \A t \in Threads : \A i \in 1 .. Len(stk[t]) :
              stk[t][i] \in UNION {Range(stk[x]) : x \in Threads} /\ stk[t][i] \in Frame
         /\ \A f \in UNION {Range(stk[x]) : x \in Threads} :
              f \in Frame /\ \E t \in Threads : \E i \in 1 .. Len(stk[t]) : f = stk[t][i]
<1>1. \A t \in Threads : stk[t] \in Seq(Frame)
  OBVIOUS
<1>2. \A t \in Threads : Range(stk[t]) = {stk[t][i] : i \in 1 .. Len(stk[t])}
  BY <1>1, RangeIs
<1>3. \A t \in Threads : \A i \in 1 .. Len(stk[t]) : stk[t][i] \in Frame
  BY <1>1, ElementOfSeq
<1> QED
  BY <1>2, <1>3

LEMMA FramesLemma ==
  ASSUME ContainersTypeOK
  PROVE  /\ \A t \in Threads : \A i \in 1 .. Len(stack[t]) :
              stack[t][i] \in Frames /\ stack[t][i] \in Frame
         /\ \A f \in Frames : /\ f \in Frame
                              /\ \E t \in Threads : \E i \in 1 .. Len(stack[t]) : f = stack[t][i]
<1>1. stack \in [Threads -> Seq(Frame)]
  BY DEF ContainersTypeOK
<1> QED
  BY <1>1, InFrames DEF Frames

\* What an invocation holds are entries.
LEMMA HeldSlots ==
  ASSUME NEW f \in Frame
  PROVE  Held(f) \subseteq Slot
<1>1. f.at \in Slot /\ f.snapshot \in Seq(Slot)
  BY DEF Frame
<1>2. \A i \in DOMAIN f.snapshot : f.snapshot[i] \in Slot
  BY <1>1, LenProperties, ElementOfSeq
<1> QED
  BY <1>1, <1>2 DEF Held

LEMMA ReferencedSlots ==
  ASSUME ContainersTypeOK
  PROVE  Referenced \subseteq Slots /\ Entries \subseteq Slots
<1>1. Range(m_delegates) \subseteq Slot /\ Range(other) \subseteq Slots
  BY RangeIs DEF ContainersTypeOK
<1>2. Entries \subseteq Slots
  BY <1>1 DEF Entries, Slot
<1>3. \A f \in Frames : Held(f) \subseteq Slot
  BY FramesLemma, HeldSlots
<1> QED
  BY <1>2, <1>3 DEF Referenced, ContainersTypeOK, Slot

LEMMA NewSlots ==
  ASSUME NEW n \in Nat, NEW s \in FreeSlots(n)
  PROVE  /\ s \in Seq(Slots) /\ Len(s) = n /\ DOMAIN s = 1 .. n
         /\ Range(s) \subseteq Slots /\ Range(s) \cap (Referenced \cup Bare) = {}
         /\ \A i, j \in 1 .. n : s[i] = s[j] => i = j
<1>1. /\ s \in [1 .. n -> Slots \ (Referenced \cup Bare)]
      /\ \A i, j \in 1 .. n : s[i] = s[j] => i = j
  BY DEF FreeSlots
<1>2. s \in Seq(Slots) /\ Len(s) = n
  BY <1>1
<1> QED
  BY <1>1, <1>2 DEF Range

\* The new slots hold clones of what is put into them, and the others what they held.
LEMMA FilledLemma ==
  ASSUME NEW n \in Nat, NEW s \in FreeSlots(n), NEW ds,
         \A i \in 1 .. n : ds[i] \in BoundDelegate /\ Sound(ds[i])
  PROVE  /\ \A x \in Range(s) :
              LET d == Filled(s, ds)[x]
              IN  d \in BoundDelegate /\ Sound(d) /\ d.gate = FALSE
         /\ \A x \in Slots \ Range(s) : Filled(s, ds)[x] = stored[x]
<1>1. DOMAIN s = 1 .. n /\ Range(s) \subseteq Slots
  BY NewSlots
<1>2. ASSUME NEW x \in Range(s)
      PROVE  LET d == Filled(s, ds)[x]
             IN  d \in BoundDelegate /\ Sound(d) /\ d.gate = FALSE
  <2> DEFINE i == CHOOSE k \in DOMAIN s : s[k] = x
  <2>1. \E k \in DOMAIN s : s[k] = x
    BY DEF Range
  <2>2. i \in 1 .. n
    BY <1>1, <2>1
  <2>3. Filled(s, ds)[x] = AnyClone(ds[i])
    BY <1>1 DEF Filled
  <2> HIDE DEF i
  <2>4. /\ AnyClone(ds[i]) \in BoundDelegate /\ SameTarget(AnyClone(ds[i]), ds[i])
        /\ AnyClone(ds[i]).gate = FALSE /\ Sound(ds[i])
    BY <2>2, CloneLemma
  <2> QED
    BY <2>3, <2>4 DEF SameTarget, Sound
<1>3. \A x \in Slots \ Range(s) : Filled(s, ds)[x] = stored[x]
  BY DEF Filled
<1> QED
  BY <1>2, <1>3

-----------------------------------------------------------------------------
(***************************************************************************)
(* Containers: what every step leaves behind.                              *)
(***************************************************************************)
\* The object of an owner does not die.
LEMMA OwnedLives ==
  ASSUME NEW heap, Settle(heap), NEW d, d # Null, d.object \notin dead,
         \/ /\ d.class \in Strong
            /\ \/ \E s \in Referenced' : stored'[s] = d
               \/ \E m \in Range(queue') : m.timer = Empty /\ m.d = d
               \/ \E f \in Frames' : f.over = "message" /\ f.at = Empty /\ f.runs = d
         \/ d.class \in Weak /\ \E f \in Frames' : f.runs = d
  PROVE  d.object \notin dead'
<1>1. d \in Owners(d.object)'
  BY DEF Owners
<1> QED
  BY <1>1 DEF Settle

\* The invariant after a step, from what the step does to the references, the heap, the
\* invocations and the messages.  N are the slots of the new clones.
LEMMA SettleStep ==
  ASSUME ContainersInv, NEW heap, NEW N \in SUBSET Slots, Settle(heap),
         m_delegates' \in Seq(Slot), other' \in Seq(Slots), connections' \subseteq Slots,
         stack' \in [Threads -> Seq(Frame)], queue' \in Seq(QueueMessage),
         released \subseteq released', released' \subseteq Objects,
         N \cap (Referenced \cup Bare) = {},
         Entries' \cup connections' \subseteq Referenced \cup N,
         \A t \in Threads : \A i \in 1 .. Len(stack'[t]) :
           LET f == stack'[t][i]
           IN  FrameOK(t, f) /\ f.at \notin N /\ Held(f) \subseteq Referenced \cup {Empty},
         \A i \in 1 .. Len(queue') : MessageOK(queue'[i]) /\ queue'[i].timer \notin N,
         \A s \in Referenced : heap[s] \in BoundDelegate /\ SameTarget(heap[s], stored[s]),
         \A s \in N : heap[s] \in BoundDelegate /\ Sound(heap[s]),
         \A s \in Referenced \cup N :
           heap[s].gate => \/ \E i \in 1 .. Len(queue') : queue'[i].timer = s
                           \/ \E f \in Frames' : f.over = "message" /\ f.at = s
  PROVE  /\ setup' \in Setups /\ stored' \in [Slots -> BoundDelegate \cup {Null}]
         /\ dead' \subseteq released' /\ HeapInv' /\ StackInv' /\ GateOpens'
         /\ \A i \in 1 .. Len(queue') : MessageOK(queue[i])'
<1>1. ContainersTypeOK /\ HeapInv /\ StackInv
  BY DEF ContainersInv
<1>2. /\ setup' = setup /\ setup \in Setups /\ dead' = dead \cup {o \in released' : Owners(o)' = {}}
      /\ stored' = [s \in Slots |-> IF s \in Referenced' THEN heap[s] ELSE Null]
      /\ dead \subseteq released /\ dead' \subseteq released'
  BY <1>1 DEF Settle, ContainersTypeOK
<1>3. /\ \A t \in Threads : \A i \in 1 .. Len(stack'[t]) : stack'[t][i] \in Frames'
      /\ \A f \in Frames' : /\ f \in Frame
                            /\ \E t \in Threads : \E i \in 1 .. Len(stack'[t]) : f = stack'[t][i]
  BY InFrames DEF Frames
<1>4. Referenced' \subseteq Referenced \cup N
  <2>1. ASSUME NEW f \in Frames' PROVE Held(f) \subseteq Referenced \cup {Empty}
    <3>1. PICK t \in Threads : \E i \in 1 .. Len(stack'[t]) : f = stack'[t][i]
      BY <1>3
    <3>2. PICK i \in 1 .. Len(stack'[t]) : f = stack'[t][i]
      BY <3>1
    <3>3. Held(stack'[t][i]) \subseteq Referenced \cup {Empty}
      OBVIOUS
    <3> QED
      BY <3>2, <3>3
  <2>2. \A f : Held(f)' = Held(f)
    BY <1>2 DEF Held, Container
  <2>3. Referenced' = (Entries' \cup connections' \cup UNION {Held(f) : f \in Frames'}) \ {Empty}
    BY <2>2 DEF Referenced
  <2> HIDE DEF Entries, Frames
  <2> QED
    BY <2>1, <2>3
<1>5. Referenced \subseteq Slots
  BY <1>1, ReferencedSlots
<1>6. Null \notin BoundDelegate
  BY NullLemma
<1>7. \A s \in Referenced \cup N : heap[s] \in BoundDelegate /\ Sound(heap[s])
  BY <1>1 DEF HeapInv, SameTarget, Sound
<1>8. \A s \in Referenced' : s \in Slots /\ stored'[s] = heap[s]
  BY <1>2, <1>4, <1>5
<1>9. \A s \in Slots \ Referenced' : stored'[s] = Null
  BY <1>2
<1>10. stored' \in [Slots -> BoundDelegate \cup {Null}]
  BY <1>2, <1>4, <1>7
<1>11. ASSUME NEW s \in Referenced'
       PROVE  stored'[s] \in BoundDelegate /\ Sound(stored[s])'
  <2>1. stored'[s] = heap[s] /\ heap[s] \in BoundDelegate /\ Sound(heap[s])
    BY <1>4, <1>7, <1>8
  <2>2. heap[s].class \in Strong => heap[s].object \notin dead'
    BY <1>6, <2>1, OwnedLives DEF Sound
  <2> QED
    BY <2>1, <2>2 DEF Sound
<1>12. HeapInv'
  BY <1>9, <1>11 DEF HeapInv
<1>13. ASSUME NEW i \in 1 .. Len(queue')
       PROVE  MessageOK(queue[i])'
  <2>0. PICK m : m = queue'[i]
    OBVIOUS
  <2>1. m \in QueueMessage /\ m \in Range(queue') /\ MessageOK(m) /\ m.timer \notin N
    BY <2>0, RangeIs
  <2>2. ASSUME m.timer = Empty PROVE Sound(m.d)'
    <3>1. m.d # Null /\ Sound(m.d)
      BY <1>6, <2>1, <2>2 DEF QueueMessage, MessageOK
    <3>2. m.d.class \in Strong => m.d.object \notin dead'
      BY <2>1, <2>2, <3>1, OwnedLives DEF Sound
    <3> QED
      BY <3>2 DEF Sound
  <2>3. ASSUME m.timer # Empty, m.timer \in Referenced'
        PROVE  SameTarget(stored'[m.timer], m.d)
    <3>1. m.timer \in Referenced
      BY <1>4, <2>1, <2>3
    <3>2. SameTarget(stored[m.timer], m.d)
      BY <2>1, <2>3, <3>1 DEF MessageOK
    <3>3. stored'[m.timer] = heap[m.timer] /\ SameTarget(heap[m.timer], stored[m.timer])
      BY <1>8, <2>3, <3>1
    <3> QED
      BY <3>2, <3>3 DEF SameTarget
  <2>4. MessageOK(m)'
    BY <2>2, <2>3 DEF MessageOK, SameTarget
  <2>5. MessageOK(m)' <=> MessageOK(queue[i])'
    BY <2>0
  <2> QED
    BY <2>4, <2>5
<1>14. ASSUME NEW t \in Threads, NEW i \in 1 .. Len(stack'[t])
       PROVE  FrameOK(t, stack[t][i])'
  <2>0. PICK f : f = stack'[t][i]
    OBVIOUS
  <2>1. FrameOK(t, f) /\ f.at \notin N /\ f \in Frames'
    BY <1>3, <2>0
  <2>2. Container' = Container
    BY <1>2 DEF Container
  <2>3. f.runs # Null => /\ f.runs.class \in Weak => f.runs.object \notin dead'
                         /\ f.over = "message" /\ f.at = Empty => Sound(f.runs)'
    <3>1. f.runs # Null /\ f.runs.class \in Weak => f.runs.object \notin dead'
      BY <2>1, OwnedLives DEF FrameOK
    <3>2. f.runs # Null /\ f.over = "message" /\ f.at = Empty /\ f.runs.class \in Strong
            => f.runs.object \notin dead'
      BY <2>1, OwnedLives DEF FrameOK, Sound
    <3> QED
      BY <3>1, <3>2 DEF Sound
  <2>4. ASSUME f.runs # Null, f.over # "message" \/ f.at # Empty, f.at \in Referenced'
        PROVE  SameTarget(stored'[f.at], f.runs)
    <3>1. f.at \in Referenced
      BY <1>4, <2>1, <2>4
    <3>2. SameTarget(stored[f.at], f.runs)
      BY <2>1, <2>4, <3>1 DEF FrameOK
    <3>3. stored'[f.at] = heap[f.at] /\ SameTarget(heap[f.at], stored[f.at])
      BY <1>8, <2>4, <3>1
    <3> QED
      BY <3>2, <3>3 DEF SameTarget
  <2> QED
    <3>1. FrameOK(t, f)'
      BY <2>1, <2>2, <2>3, <2>4 DEF FrameOK, SameTarget
    <3>2. FrameOK(t, f)' <=> FrameOK(t, stack[t][i])'
      BY <2>0
    <3> QED
      BY <3>1, <3>2
<1>15. StackInv'
  BY <1>14 DEF StackInv
<1>16. GateOpens'
  <2>1. ASSUME NEW s \in Slots, stored'[s] # Null, stored'[s].gate
        PROVE  \/ \E i \in DOMAIN queue' : queue'[i].timer = s
               \/ \E f \in Frames' : f.over = "message" /\ f.at = s
    <3>1. s \in Referenced'
      BY <1>9, <2>1
    <3>2. heap[s].gate /\ s \in Referenced \cup N
      BY <1>4, <1>8, <2>1, <3>1
    <3>3. DOMAIN queue' = 1 .. Len(queue')
      BY LenProperties
    <3> QED
      BY <3>2, <3>3
  <2> QED
    BY <2>1 DEF GateOpens
<1> QED
  BY <1>2, <1>10, <1>12, <1>13, <1>15, <1>16

LEMMA OldFrames ==
  ASSUME ContainersInv, NEW t \in Threads, NEW i \in 1 .. Len(stack[t])
  PROVE  /\ stack[t][i] \in Frames /\ stack[t][i] \in Frame /\ FrameOK(t, stack[t][i])
         /\ stack[t][i].at \in Bare /\ Held(stack[t][i]) \subseteq Referenced \cup {Empty}
<1>1. stack[t][i] \in Frames /\ stack[t][i] \in Frame
  BY FramesLemma DEF ContainersInv
<1>2. FrameOK(t, stack[t][i])
  BY DEF ContainersInv, StackInv
<1> QED
  BY <1>1, <1>2 DEF Bare, Referenced

LEMMA OldGates ==
  ASSUME ContainersInv, NEW s \in Referenced
  PROVE  /\ s \in Slots /\ stored[s] \in BoundDelegate /\ stored[s] # Null /\ Sound(stored[s])
         /\ stored[s].gate => \/ \E i \in 1 .. Len(queue) : queue[i].timer = s
                              \/ \E f \in Frames : f.over = "message" /\ f.at = s
<1>1. s \in Slots
  BY ReferencedSlots DEF ContainersInv
<1>2. stored[s] \in BoundDelegate /\ stored[s] # Null /\ Sound(stored[s])
  BY NullLemma DEF ContainersInv, HeapInv
<1>3. DOMAIN queue = 1 .. Len(queue)
  BY LenProperties DEF ContainersInv, ContainersTypeOK
<1> QED
  BY <1>1, <1>2, <1>3 DEF ContainersInv, GateOpens

\* No walk of a UnicastDelegate is about to call its delegate.
NonePending == Container = "UnicastDelegate" =>
                 \A i \in 1 .. Len(stack["main"]) :
                   ~ (stack["main"][i].pos <= Len(stack["main"][i].snapshot))

\* A step that changes the containers, or lets go of an object.
LEMMA ModifyStep ==
  ASSUME ContainersInv, NEW heap, NEW N \in SUBSET Slots, Settle(heap),
         UNCHANGED <<stack, queue, broadcastCount>>,
         m_delegates' \in Seq(Slot), other' \in Seq(Slots), connections' \subseteq Slots,
         cleanup' \in BOOLEAN, released \subseteq released', released' \subseteq Objects,
         N \cap (Referenced \cup Bare) = {},
         Entries' \cup connections' \subseteq Referenced \cup N,
         \A s \in Referenced : heap[s] = stored[s],
         \A s \in N : heap[s] \in BoundDelegate /\ Sound(heap[s]) /\ heap[s].gate = FALSE,
         broadcastCount > 0 => Len(m_delegates') >= Len(m_delegates),
         Empty \in Range(m_delegates') => cleanup' /\ broadcastCount > 0,
         Container \in Unicast => Len(m_delegates') <= 1,
         m_delegates' = m_delegates \/ NonePending
  PROVE  ContainersInv'
<1>1. ContainersTypeOK /\ StackInv /\ QueueInv /\ WalkInv /\ UnicastInv
  BY DEF ContainersInv
<1>2. stack' = stack /\ queue' = queue /\ broadcastCount' = broadcastCount /\ Frames' = Frames
  BY DEF Frames
<1>3. stack' \in [Threads -> Seq(Frame)] /\ queue' \in Seq(QueueMessage)
  BY <1>1, <1>2 DEF ContainersTypeOK
<1>4. \A t \in Threads : \A i \in 1 .. Len(stack'[t]) :
        LET f == stack'[t][i]
        IN  FrameOK(t, f) /\ f.at \notin N /\ Held(f) \subseteq Referenced \cup {Empty}
  BY <1>2, OldFrames
<1>5. \A i \in 1 .. Len(queue') : MessageOK(queue'[i]) /\ queue'[i].timer \notin N
  <2>1. \A i \in 1 .. Len(queue) : queue[i] \in Range(queue)
    BY <1>2, <1>3, RangeIs
  <2>2. \A i \in 1 .. Len(queue) : queue[i].timer \in Bare
    BY <2>1 DEF Bare
  <2> QED
    BY <1>1, <1>2, <2>2 DEF QueueInv
<1>6. \A s \in Referenced : heap[s] \in BoundDelegate /\ SameTarget(heap[s], stored[s])
  BY OldGates DEF SameTarget
<1>7. \A s \in Referenced \cup N :
        heap[s].gate => \/ \E i \in 1 .. Len(queue') : queue'[i].timer = s
                        \/ \E f \in Frames' : f.over = "message" /\ f.at = s
  BY <1>2, OldGates
<1>8. /\ setup' \in Setups /\ stored' \in [Slots -> BoundDelegate \cup {Null}]
      /\ dead' \subseteq released' /\ HeapInv' /\ StackInv' /\ GateOpens'
      /\ \A i \in 1 .. Len(queue') : MessageOK(queue[i])'
  BY <1>3, <1>4, <1>5, <1>6, <1>7, SettleStep
<1>9. setup' = setup /\ Container' = Container
  BY DEF Settle, Container
<1>10. ContainersTypeOK'
  BY <1>1, <1>2, <1>3, <1>8 DEF ContainersTypeOK
<1>11. QueueInv'
  BY <1>1, <1>2, <1>8 DEF QueueInv
<1>12. WalkInv'
  <2>1. ASSUME NEW i \in 1 .. Len(stack["main"]), stack["main"][i].over = "list"
        PROVE  stack["main"][i].pos <= Len(m_delegates') + 1
    <3>1. "main" \in Threads
      BY DEF Threads
    <3>2. /\ Container = "MulticastDelegate" /\ broadcastCount = Len(stack["main"])
          /\ stack["main"][i].pos <= Len(m_delegates) + 1 /\ stack["main"][i].pos \in Nat
      BY <1>1, <2>1, <3>1, OldFrames DEF WalkInv, FrameOK, Frame
    <3>3. Len(stack["main"]) \in Nat /\ Len(m_delegates) \in Nat /\ Len(m_delegates') \in Nat
      BY <1>1, <3>1, LenProperties DEF ContainersTypeOK
    <3>4. broadcastCount > 0
      BY <3>2, <3>3
    <3> QED
      BY <3>2, <3>3, <3>4
  <2>2. IF Container' = "MulticastDelegate" THEN broadcastCount' = Len(stack'["main"])
        ELSE broadcastCount' = 0
    BY <1>1, <1>2, <1>9 DEF WalkInv
  <2>3. Empty \in Range(m_delegates') => cleanup' /\ broadcastCount' > 0
    BY <1>2
  <2> QED
    BY <1>2, <2>1, <2>2, <2>3 DEF WalkInv
<1>13. UnicastInv'
  <2>1. Container' \in Unicast => Len(m_delegates') <= 1
    BY <1>9
  <2>2. ASSUME Container = "UnicastDelegate", NEW i \in 1 .. Len(stack["main"]),
               stack["main"][i].pos <= Len(stack["main"][i].snapshot)
        PROVE  /\ i = 1 /\ stack["main"][i].runs = Null /\ ~stack["main"][i].waits
               /\ stack["main"][i].snapshot = m_delegates'
    <3>1. m_delegates' = m_delegates
      BY <2>2 DEF NonePending
    <3> QED
      BY <1>1, <2>2, <3>1 DEF UnicastInv
  <2> QED
    BY <1>2, <1>9, <2>1, <2>2 DEF UnicastInv
<1> QED
  BY <1>8, <1>10, <1>11, <1>12, <1>13 DEF ContainersInv

LEMMA MayUseNone ==
  ASSUME ContainersInv, NEW t \in Threads, MayUse(t)
  PROVE  NonePending
<1> SUFFICES ASSUME Container = "UnicastDelegate", NEW i \in 1 .. Len(stack["main"]),
                    stack["main"][i].pos <= Len(stack["main"][i].snapshot)
             PROVE  FALSE
  BY DEF NonePending
<1>1. t = "main" /\ "main" \in Threads /\ Idle("main")
  BY DEF MayUse, Threads
<1>2. i = 1 /\ stack["main"][1].runs = Null
  BY DEF ContainersInv, UnicastInv
<1>3. stack["main"] \in Seq(Frame)
  BY <1>1 DEF ContainersInv, ContainersTypeOK
<1>4. stack["main"] # <<>>
  BY EmptySeq
<1>5. Head(stack["main"]) = stack["main"][1]
  BY <1>3, <1>4, UnconsLemma
<1> QED
  BY <1>1, <1>2, <1>4, <1>5 DEF Idle

-----------------------------------------------------------------------------
(***************************************************************************)
(* Containers: the operations on the lists.                                *)
(***************************************************************************)
LEMMA LeastOf ==
  ASSUME NEW S \in SUBSET Nat, S # {}
  PROVE  \E x \in S : \A y \in S : x <= y
<1> DEFINE R == OpToRel(<, Nat)
<1>1. IsWellFoundedOn(R, Nat)
  BY NatLessThanWellFounded
<1>2. \A x, y \in Nat : <<y, x>> \in R <=> y < x
  BY DEF OpToRel
<1> HIDE DEF R
<1>3. PICK x \in S : \A y \in S : ~ (<<y, x>> \in R)
  BY <1>1, WFMin
<1>4. ASSUME NEW y \in S PROVE x <= y
  <2>1. x \in Nat /\ y \in Nat /\ ~ (y < x)
    BY <1>2, <1>3
  <2> QED
    BY <2>1
<1> QED
  BY <1>4

LEMMA EntriesKept ==
  ASSUME ContainersInv
  PROVE  /\ m_delegates \in Seq(Slot) /\ other \in Seq(Slots) /\ connections \subseteq Slots
         /\ cleanup \in BOOLEAN /\ broadcastCount \in Nat
         /\ Len(m_delegates) \in Nat /\ Empty \notin Slots /\ Slots \subseteq Slot
         /\ Range(m_delegates) \subseteq Referenced \cup {Empty}
         /\ Range(other) \subseteq Referenced /\ connections \subseteq Referenced
         /\ released \subseteq Objects
<1>1. /\ m_delegates \in Seq(Slot) /\ other \in Seq(Slots) /\ connections \subseteq Slots
      /\ cleanup \in BOOLEAN /\ broadcastCount \in Nat /\ released \subseteq Objects
  BY DEF ContainersInv, ContainersTypeOK
<1>2. Range(other) \subseteq Slots /\ Empty \notin Slots
  BY <1>1, RangeIs, BoundsAssumption
<1> QED
  BY <1>1, <1>2, LenProperties DEF Referenced, Entries, Slot

\* The entries and handles after a step, from its parts.
LEMMA EntriesIn ==
  ASSUME NEW R, Range(m_delegates') \subseteq R \cup {Empty}, Range(other') \subseteq R,
         connections' \subseteq R
  PROVE  Entries' \cup connections' \subseteq R
BY DEF Entries

\* A clone of d in a new slot.
LEMMA PutLemma ==
  ASSUME ContainersInv, NEW d \in Samples, Usable(d), NEW s \in FreeSlots(1)
  PROVE  LET heap == Filled(s, <<d>>)
         IN  /\ s \in Seq(Slots) /\ s \in Seq(Slot) /\ Len(s) = 1
             /\ Range(s) \in SUBSET Slots /\ Empty \notin Range(s)
             /\ Range(s) \cap (Referenced \cup Bare) = {}
             /\ \A x \in Referenced : heap[x] = stored[x]
             /\ \A x \in Range(s) : heap[x] \in BoundDelegate /\ Sound(heap[x])
                                    /\ heap[x].gate = FALSE
<1>1. /\ s \in Seq(Slots) /\ Len(s) = 1
      /\ Range(s) \subseteq Slots /\ Range(s) \cap (Referenced \cup Bare) = {}
  BY NewSlots
<1>2. setup \in Setups /\ dead \subseteq released
  BY DEF ContainersInv, ContainersTypeOK
<1>3. d \in BoundDelegate /\ Sound(d)
  BY <1>2, SampleLemma DEF Sound, Usable
<1>4. \A i \in 1 .. 1 : <<d>>[i] \in BoundDelegate /\ Sound(<<d>>[i])
  BY <1>3
<1> DEFINE heap == Filled(s, <<d>>)
<1> HIDE DEF heap
<1>5. /\ \A x \in Range(s) : heap[x] \in BoundDelegate /\ Sound(heap[x]) /\ heap[x].gate = FALSE
      /\ \A x \in Slots \ Range(s) : heap[x] = stored[x]
  BY <1>4, FilledLemma DEF heap
<1>6. Referenced \subseteq Slots
  BY ReferencedSlots DEF ContainersInv
<1>7. \A x \in Referenced : heap[x] = stored[x]
  BY <1>1, <1>5, <1>6
<1>8. s \in Seq(Slot)
  BY <1>1, SeqMonotonic DEF Slot
<1> QED
  BY <1>1, <1>5, <1>7, <1>8, BoundsAssumption DEF heap

LEMMA ClearLemma ==
  ASSUME ContainersInv
  PROVE  /\ MulticastClear \in Seq(Slot) /\ Len(MulticastClear) \in Nat
         /\ Range(MulticastClear) \subseteq {Empty}
         /\ ClearMarks \in BOOLEAN
         /\ broadcastCount > 0 => Len(MulticastClear) = Len(m_delegates)
         /\ Empty \in Range(MulticastClear) => ClearMarks /\ broadcastCount > 0
<1>1. /\ Len(m_delegates) \in Nat /\ DOMAIN m_delegates = 1 .. Len(m_delegates)
      /\ broadcastCount \in Nat /\ cleanup \in BOOLEAN
  BY EntriesKept, LenProperties
<1>2. CASE broadcastCount > 0
  <2> DEFINE r == [i \in 1 .. Len(m_delegates) |-> Empty]
  <2>1. MulticastClear = r
    BY <1>1, <1>2 DEF MulticastClear
  <2>2. r \in Seq(Slot) /\ Len(r) = Len(m_delegates) /\ Range(r) \subseteq {Empty}
    BY <1>1 DEF Slot, Range
  <2> QED
    BY <1>1, <1>2, <2>1, <2>2 DEF ClearMarks
<1>3. CASE ~ (broadcastCount > 0)
  <2>1. MulticastClear = <<>>
    BY <1>3 DEF MulticastClear
  <2>2. <<>> \in Seq(Slot) /\ Len(<<>>) = 0 /\ Range(<<>>) = {}
    BY EmptySeq DEF Range
  <2> QED
    BY <1>1, <1>3, <2>1, <2>2 DEF ClearMarks
<1> QED
  BY <1>2, <1>3

\* A step that puts a clone of d into a list, and keeps or drops the others.
LEMMA AddStep ==
  ASSUME ContainersInv, NEW d \in Samples, Usable(d), NEW s \in FreeSlots(1),
         Settle(Filled(s, <<d>>)), NonePending,
         UNCHANGED <<other, broadcastCount, stack, queue, released>>,
         m_delegates' \in Seq(Slot), Range(m_delegates') \subseteq Range(m_delegates) \cup Range(s) \cup {Empty},
         connections' \subseteq connections \cup Range(s), cleanup' \in BOOLEAN,
         broadcastCount > 0 => Len(m_delegates') >= Len(m_delegates),
         Empty \in Range(m_delegates') => cleanup' /\ broadcastCount > 0,
         Container \in Unicast => Len(m_delegates') <= 1
  PROVE  ContainersInv'
<1>1. /\ Range(s) \in SUBSET Slots /\ Range(s) \cap (Referenced \cup Bare) = {}
      /\ \A x \in Referenced : Filled(s, <<d>>)[x] = stored[x]
      /\ \A x \in Range(s) : /\ Filled(s, <<d>>)[x] \in BoundDelegate
                             /\ Sound(Filled(s, <<d>>)[x]) /\ Filled(s, <<d>>)[x].gate = FALSE
  BY PutLemma
<1>2. /\ Range(m_delegates) \subseteq Referenced \cup {Empty}
      /\ Range(other) \subseteq Referenced /\ connections \subseteq Referenced
      /\ other \in Seq(Slots) /\ connections \subseteq Slots /\ released \subseteq Objects
  BY EntriesKept
<1>3. Entries' \cup connections' \subseteq Referenced \cup Range(s)
  <2>1. /\ Range(m_delegates') \subseteq (Referenced \cup Range(s)) \cup {Empty}
        /\ Range(other') \subseteq Referenced \cup Range(s)
        /\ connections' \subseteq Referenced \cup Range(s)
    BY <1>2
  <2> QED
    BY <2>1, EntriesIn
<1>4. other' \in Seq(Slots) /\ connections' \subseteq Slots
  BY <1>1, <1>2
<1>5. released \subseteq released' /\ released' \subseteq Objects
  BY <1>2
<1> QED
  BY <1>1, <1>3, <1>4, <1>5, ModifyStep

\* A step without a new clone.
LEMMA DropStep ==
  ASSUME ContainersInv, Settle(stored), NonePending \/ UNCHANGED m_delegates,
         UNCHANGED <<broadcastCount, stack, queue>>,
         released \subseteq released', released' \subseteq Objects,
         m_delegates' \in Seq(Slot), Range(m_delegates') \subseteq Referenced \cup {Empty},
         other' \in Seq(Slots), Range(other') \subseteq Referenced,
         connections' \subseteq connections, cleanup' \in BOOLEAN,
         broadcastCount > 0 => Len(m_delegates') >= Len(m_delegates),
         Empty \in Range(m_delegates') => cleanup' /\ broadcastCount > 0,
         Container \in Unicast => Len(m_delegates') <= 1
  PROVE  ContainersInv'
<1>1. connections \subseteq Referenced /\ connections \subseteq Slots
  BY EntriesKept
<1>2. Entries' \cup connections' \subseteq Referenced \cup {}
  BY <1>1, EntriesIn
<1>3. connections' \subseteq Slots /\ {} \in SUBSET Slots /\ {} \cap (Referenced \cup Bare) = {}
  BY <1>1
<1> QED
  BY <1>2, <1>3, ModifyStep

LEMMA ConcatSlots ==
  ASSUME NEW q \in Seq(Slot), NEW r \in Seq(Slots)
  PROVE  /\ q \o r \in Seq(Slot) /\ Range(q \o r) = Range(q) \cup Range(r)
         /\ Len(q \o r) = Len(q) + Len(r) /\ Len(q) \in Nat /\ Len(r) \in Nat
         /\ Empty \notin Range(r)
<1>1. r \in Seq(Slot)
  BY SeqMonotonic DEF Slot
<1>2. Range(r) \subseteq Slots
  BY RangeIs
<1> QED
  BY <1>1, <1>2, RangeConcat, LenProperties, BoundsAssumption

LEMMA PushBackInv ==
  ASSUME ContainersInv, NEW t \in Threads, NEW d \in Samples, PushBack(t, d)
  PROVE  ContainersInv'
<1>1. /\ Container \in Multicast /\ MayUse(t) /\ Usable(d)
      /\ UNCHANGED <<other, broadcastCount, cleanup, connections, stack, queue, released>>
  BY DEF PushBack, MulticastPushBack
<1>2. PICK s \in FreeSlots(1) : m_delegates' = m_delegates \o s /\ Settle(Filled(s, <<d>>))
  BY DEF PushBack, MulticastPushBack
<1>3. s \in Seq(Slots) /\ Len(s) = 1
  BY NewSlots
<1>4. m_delegates \in Seq(Slot) /\ cleanup \in BOOLEAN
  BY EntriesKept
<1>5. /\ m_delegates' \in Seq(Slot) /\ Range(m_delegates') = Range(m_delegates) \cup Range(s)
      /\ Len(m_delegates') >= Len(m_delegates) /\ Empty \notin Range(s)
  BY <1>2, <1>3, <1>4, ConcatSlots
<1>6. Empty \in Range(m_delegates') => cleanup' /\ broadcastCount > 0
  BY <1>1, <1>5 DEF ContainersInv, WalkInv
<1>7. Container \notin Unicast /\ NonePending
  BY <1>1, MayUseNone DEF Multicast, Unicast
<1> QED
  BY <1>1, <1>2, <1>4, <1>5, <1>6, <1>7, AddStep

LEMMA RemoveInv ==
  ASSUME ContainersInv, NEW t \in Threads, NEW d, RemoveDelegate(t, d)
  PROVE  ContainersInv'
<1> DEFINE same == {i \in DOMAIN m_delegates :
                      m_delegates[i] # Empty /\ AnyEqual(stored[m_delegates[i]], d, dead)}
           it   == CHOOSE i \in same : \A j \in same : i <= j
<1>1. /\ Container \in Multicast /\ MayUse(t) /\ same # {}
      /\ m_delegates' = Erased(it) /\ cleanup' = ClearMarks
      /\ UNCHANGED <<other, broadcastCount, connections, stack, queue, released>>
      /\ Settle(stored)
  BY DEF RemoveDelegate, MulticastRemove
<1>2. /\ DOMAIN m_delegates = 1 .. Len(m_delegates) /\ Len(m_delegates) \in Nat
      /\ m_delegates \in Seq(Slot)
  BY EntriesKept, LenProperties
<1>3. it \in 1 .. Len(m_delegates)
  <2>1. same \subseteq 1 .. Len(m_delegates) /\ same \in SUBSET Nat
    BY <1>2
  <2>2. \E i \in same : \A j \in same : i <= j
    <3> HIDE DEF same
    <3> QED
      BY <1>1, <2>1, LeastOf
  <2> QED
    BY <2>1, <2>2
<1> HIDE DEF it, same
<1>4. /\ m_delegates' \in Seq(Slot)
      /\ Range(m_delegates') \subseteq Range(m_delegates) \cup {Empty}
      /\ broadcastCount > 0 => Len(m_delegates') >= Len(m_delegates)
      /\ cleanup' \in BOOLEAN
      /\ Empty \in Range(m_delegates') => cleanup' /\ broadcastCount > 0
  <2>1. CASE broadcastCount > 0
    <3> DEFINE r == [m_delegates EXCEPT ![it] = Empty]
    <3>1. /\ r \in Seq(Slot) /\ Len(r) = Len(m_delegates)
          /\ \A j \in 1 .. Len(m_delegates) : r[j] = IF j = it THEN Empty ELSE m_delegates[j]
      BY <1>2, <1>3, ExceptSeq DEF Slot
    <3>2. m_delegates' = r /\ cleanup' = TRUE
      BY <1>1, <2>1, EntriesKept DEF Erased, ClearMarks
    <3> HIDE DEF r
    <3>3. Range(r) \subseteq Range(m_delegates) \cup {Empty}
      BY <1>2, <3>1, RangeIs
    <3> QED
      BY <1>2, <2>1, <3>1, <3>2, <3>3
  <2>2. CASE ~ (broadcastCount > 0)
    <3> DEFINE r == RemoveAt(m_delegates, it)
    <3>1. /\ r \in Seq(Slot) /\ Len(r) = Len(m_delegates) - 1
          /\ \A j \in 1 .. Len(m_delegates) - 1 :
               r[j] = IF j < it THEN m_delegates[j] ELSE m_delegates[j + 1]
      BY <1>2, <1>3, RemoveAtIsSeq
    <3>2. m_delegates' = r /\ cleanup' = cleanup
      BY <1>1, <2>2, EntriesKept DEF Erased, ClearMarks
    <3> HIDE DEF r
    <3>3. \A j \in 1 .. Len(r) : r[j] \in Range(m_delegates)
      <4>1. \A j \in 1 .. Len(m_delegates) - 1 : j \in 1 .. Len(m_delegates)
                                                 /\ j + 1 \in 1 .. Len(m_delegates)
        BY <1>2
      <4> QED
        BY <1>2, <3>1, <4>1, RangeIs
    <3>4. Range(r) \subseteq Range(m_delegates)
      BY <3>1, <3>3, RangeIs
    <3>5. Empty \notin Range(m_delegates)
      BY <2>2 DEF ContainersInv, WalkInv
    <3> QED
      BY <2>2, <3>1, <3>2, <3>4, <3>5, EntriesKept
  <2> QED
    BY <2>1, <2>2
<1>5. /\ Range(m_delegates) \subseteq Referenced \cup {Empty} /\ other \in Seq(Slots)
      /\ Range(other) \subseteq Referenced /\ released \subseteq Objects
  BY EntriesKept
<1>6. Container \notin Unicast /\ NonePending
  BY <1>1, MayUseNone DEF Multicast, Unicast
<1> QED
  BY <1>1, <1>4, <1>5, <1>6, DropStep

LEMMA ClearInv ==
  ASSUME ContainersInv, NEW t \in Threads, ClearContainer(t)
  PROVE  ContainersInv'
<1>1. /\ Container \in Multicast /\ MayUse(t)
      /\ m_delegates' = MulticastClear /\ cleanup' = ClearMarks
      /\ UNCHANGED <<other, broadcastCount, connections, stack, queue, released>>
      /\ Settle(stored)
  BY DEF ClearContainer
<1>2. /\ other \in Seq(Slots) /\ Range(other) \subseteq Referenced /\ released \subseteq Objects
      /\ Len(m_delegates) \in Nat
  BY EntriesKept
<1>3. /\ m_delegates' \in Seq(Slot) /\ Range(m_delegates') \subseteq {Empty}
      /\ cleanup' \in BOOLEAN
      /\ broadcastCount > 0 => Len(m_delegates') >= Len(m_delegates)
      /\ Empty \in Range(m_delegates') => cleanup' /\ broadcastCount > 0
  BY <1>1, <1>2, ClearLemma
<1>4. Container \notin Unicast /\ NonePending
  BY <1>1, MayUseNone DEF Multicast, Unicast
<1> QED
  BY <1>1, <1>2, <1>3, <1>4, DropStep

LEMMA CopyFromInv ==
  ASSUME ContainersInv, NEW t \in Threads, CopyFrom(t)
  PROVE  ContainersInv'
<1> DEFINE src == Present(m_delegates)
           ds  == [i \in DOMAIN src |-> stored[src[i]]]
<1>1. /\ MayUse(t) /\ Container \in Multicast
      /\ UNCHANGED <<m_delegates, broadcastCount, cleanup, connections, stack, queue, released>>
  BY DEF CopyFrom
<1>2. PICK s \in FreeSlots(Len(src)) : other' = s /\ Settle(Filled(s, ds))
  BY DEF CopyFrom
<1>3. /\ m_delegates \in Seq(Slot) /\ cleanup \in BOOLEAN /\ connections \subseteq Slots
      /\ Range(m_delegates) \subseteq Referenced \cup {Empty} /\ connections \subseteq Referenced
      /\ released \subseteq Objects /\ Len(m_delegates) \in Nat
  BY EntriesKept
<1>4. src \in Seq(Slot) /\ Range(src) \subseteq Range(m_delegates) \ {Empty}
  BY <1>3, WithoutLemma DEF Present
<1>5. Len(src) \in Nat /\ DOMAIN src = 1 .. Len(src) /\ \A i \in 1 .. Len(src) : src[i] \in Referenced
  BY <1>3, <1>4, RangeIs
<1> HIDE DEF src
<1>6. \A i \in 1 .. Len(src) : ds[i] \in BoundDelegate /\ Sound(ds[i])
  BY <1>5, OldGates
<1> HIDE DEF ds
<1>7. /\ s \in Seq(Slots) /\ Range(s) \in SUBSET Slots
      /\ Range(s) \cap (Referenced \cup Bare) = {}
  BY <1>5, NewSlots
<1>8. /\ \A x \in Range(s) : LET d == Filled(s, ds)[x]
                             IN  d \in BoundDelegate /\ Sound(d) /\ d.gate = FALSE
      /\ \A x \in Slots \ Range(s) : Filled(s, ds)[x] = stored[x]
  BY <1>5, <1>6, FilledLemma
<1>9. \A x \in Referenced : Filled(s, ds)[x] = stored[x]
  BY <1>7, <1>8, OldGates
<1>10. Entries' \cup connections' \subseteq Referenced \cup Range(s)
  <2>1. /\ Range(m_delegates') \subseteq (Referenced \cup Range(s)) \cup {Empty}
        /\ Range(other') \subseteq Referenced \cup Range(s)
        /\ connections' \subseteq Referenced \cup Range(s)
    BY <1>1, <1>2, <1>3
  <2> QED
    BY <2>1, EntriesIn
<1>11. /\ broadcastCount > 0 => Len(m_delegates') >= Len(m_delegates)
       /\ Empty \in Range(m_delegates') => cleanup' /\ broadcastCount > 0
       /\ Container \notin Unicast
  BY <1>1, <1>3 DEF ContainersInv, WalkInv, Multicast, Unicast
<1>12. /\ m_delegates' \in Seq(Slot) /\ other' \in Seq(Slots) /\ connections' \subseteq Slots
       /\ cleanup' \in BOOLEAN /\ released \subseteq released' /\ released' \subseteq Objects
  BY <1>1, <1>2, <1>3, <1>7
<1> DEFINE heap == Filled(s, ds)
<1>13. /\ Settle(heap) /\ \A x \in Referenced : heap[x] = stored[x]
       /\ \A x \in Range(s) : heap[x] \in BoundDelegate /\ Sound(heap[x]) /\ heap[x].gate = FALSE
  BY <1>2, <1>8, <1>9
<1> HIDE DEF heap
<1> QED
  BY <1>1, <1>7, <1>10, <1>11, <1>12, <1>13, ModifyStep

LEMMA MoveFromInv ==
  ASSUME ContainersInv, NEW t \in Threads, MoveFrom(t)
  PROVE  ContainersInv'
<1>1. /\ Container \in Multicast /\ MayUse(t)
      /\ m_delegates' = MulticastClear \o other /\ cleanup' = ClearMarks /\ other' = <<>>
      /\ UNCHANGED <<broadcastCount, connections, stack, queue, released>>
      /\ Settle(stored)
  BY DEF MoveFrom
<1>2. /\ other \in Seq(Slots) /\ Range(other) \subseteq Referenced /\ released \subseteq Objects
      /\ Len(m_delegates) \in Nat
  BY EntriesKept
<1>3. /\ MulticastClear \in Seq(Slot) /\ Range(MulticastClear) \subseteq {Empty}
      /\ ClearMarks \in BOOLEAN
      /\ broadcastCount > 0 => Len(MulticastClear) = Len(m_delegates)
      /\ Empty \in Range(MulticastClear) => ClearMarks /\ broadcastCount > 0
  BY ClearLemma
<1>4. /\ m_delegates' \in Seq(Slot)
      /\ Range(m_delegates') = Range(MulticastClear) \cup Range(other)
      /\ Len(m_delegates') = Len(MulticastClear) + Len(other)
      /\ Len(other) \in Nat /\ Empty \notin Range(other)
  BY <1>1, <1>2, <1>3, ConcatSlots
<1>5. other' \in Seq(Slots) /\ Range(other') \subseteq Referenced
  BY <1>1, EmptySeq DEF Range
<1>6. Container \notin Unicast /\ NonePending
  BY <1>1, MayUseNone DEF Multicast, Unicast
<1> HIDE DEF MulticastClear, ClearMarks
<1>7. /\ Range(m_delegates') \subseteq Referenced \cup {Empty} /\ cleanup' \in BOOLEAN
      /\ broadcastCount > 0 => Len(m_delegates') >= Len(m_delegates)
      /\ Empty \in Range(m_delegates') => cleanup' /\ broadcastCount > 0
  BY <1>1, <1>2, <1>3, <1>4
<1> QED
  BY <1>1, <1>2, <1>4, <1>5, <1>6, <1>7, DropStep

LEMMA CopyAssignInv ==
  ASSUME ContainersInv, NEW t \in Threads, NEW d \in Samples, CopyAssign(t, d)
  PROVE  ContainersInv'
<1>1. Container \in Multicast /\ MayUse(t) /\ Usable(d)
  BY DEF CopyAssign
<1>2. PICK s \in FreeSlots(1) :
        /\ m_delegates' = MulticastClear \o s /\ cleanup' = ClearMarks
        /\ UNCHANGED <<other, broadcastCount, connections, stack, queue, released>>
        /\ Settle(Filled(s, <<d>>))
  BY DEF CopyAssign
<1>3. /\ MulticastClear \in Seq(Slot) /\ Range(MulticastClear) \subseteq {Empty}
      /\ ClearMarks \in BOOLEAN
      /\ broadcastCount > 0 => Len(MulticastClear) = Len(m_delegates)
      /\ Empty \in Range(MulticastClear) => ClearMarks /\ broadcastCount > 0
  BY ClearLemma
<1>4. s \in Seq(Slots) /\ Len(s) = 1 /\ Len(m_delegates) \in Nat
  BY NewSlots, EntriesKept
<1>5. /\ m_delegates' \in Seq(Slot)
      /\ Range(m_delegates') = Range(MulticastClear) \cup Range(s)
      /\ Len(m_delegates') = Len(MulticastClear) + 1 /\ Empty \notin Range(s)
  BY <1>2, <1>3, <1>4, ConcatSlots
<1>6. Container \notin Unicast /\ NonePending
  BY <1>1, MayUseNone DEF Multicast, Unicast
<1>7. /\ Range(m_delegates') \subseteq Range(m_delegates) \cup Range(s) \cup {Empty}
      /\ cleanup' \in BOOLEAN
      /\ broadcastCount > 0 => Len(m_delegates') >= Len(m_delegates)
      /\ Empty \in Range(m_delegates') => cleanup' /\ broadcastCount > 0
  BY <1>2, <1>3, <1>4, <1>5
<1> QED
  BY <1>1, <1>2, <1>5, <1>6, <1>7, AddStep

LEMMA NotWalked ==
  ASSUME ContainersInv, Container # "MulticastDelegate"
  PROVE  broadcastCount = 0 /\ Empty \notin Range(m_delegates)
BY DEF ContainersInv, WalkInv

LEMMA UnicastAssignInv ==
  ASSUME ContainersInv, NEW t \in Threads, NEW d \in Samples, UnicastAssign(t, d)
  PROVE  ContainersInv'
<1>1. Container \in Unicast /\ MayUse(t) /\ Usable(d)
  BY DEF UnicastAssign
<1>2. PICK s \in FreeSlots(1) :
        /\ m_delegates' = s
        /\ UNCHANGED <<other, broadcastCount, cleanup, connections, stack, queue, released>>
        /\ Settle(Filled(s, <<d>>))
  BY DEF UnicastAssign
<1>3. s \in Seq(Slots) /\ s \in Seq(Slot) /\ Len(s) = 1 /\ Range(s) \in SUBSET Slots
  BY <1>1, PutLemma
<1>4. broadcastCount = 0 /\ NonePending /\ cleanup \in BOOLEAN
  BY <1>1, NotWalked, MayUseNone, EntriesKept DEF Unicast
<1>5. Empty \notin Range(m_delegates') /\ Len(m_delegates') <= 1
  BY <1>2, <1>3, BoundsAssumption
<1> QED
  BY <1>1, <1>2, <1>3, <1>4, <1>5, AddStep

\* The list is left empty.
LEMMA EmptiedInv ==
  ASSUME ContainersInv, NEW t \in Threads, UnicastClear(t) \/ SignalClear(t)
  PROVE  ContainersInv'
<1>1. /\ MayUse(t) /\ m_delegates' = <<>> /\ Settle(stored)
      /\ UNCHANGED <<other, broadcastCount, cleanup, connections, stack, queue, released>>
      /\ Container # "MulticastDelegate"
  BY DEF UnicastClear, SignalClear, Unicast
<1>2. broadcastCount = 0 /\ NonePending
  BY <1>1, NotWalked, MayUseNone
<1>3. /\ other \in Seq(Slots) /\ Range(other) \subseteq Referenced /\ released \subseteq Objects
      /\ cleanup \in BOOLEAN
  BY EntriesKept
<1>4. <<>> \in Seq(Slot) /\ Len(<<>>) = 0 /\ Range(<<>>) = {}
  BY EmptySeq DEF Range
<1> QED
  BY <1>1, <1>2, <1>3, <1>4, DropStep

LEMMA SignalConnectInv ==
  ASSUME ContainersInv, NEW t \in Threads, NEW d \in Samples, SignalConnect(t, d)
  PROVE  ContainersInv'
<1>1. Container = "Signal" /\ MayUse(t) /\ Usable(d)
  BY DEF SignalConnect
<1>2. PICK s \in FreeSlots(1) :
        /\ m_delegates' = m_delegates \o s /\ connections' = connections \cup Range(s)
        /\ UNCHANGED <<other, broadcastCount, cleanup, stack, queue, released>>
        /\ Settle(Filled(s, <<d>>))
  BY DEF SignalConnect
<1>3. s \in Seq(Slots) /\ m_delegates \in Seq(Slot) /\ cleanup \in BOOLEAN
  BY NewSlots, EntriesKept
<1>4. /\ m_delegates' \in Seq(Slot) /\ Range(m_delegates') = Range(m_delegates) \cup Range(s)
      /\ Empty \notin Range(s)
  BY <1>2, <1>3, ConcatSlots
<1>5. broadcastCount = 0 /\ Empty \notin Range(m_delegates) /\ NonePending
  BY <1>1, NotWalked, MayUseNone
<1>6. Container \notin Unicast
  BY <1>1 DEF Unicast
<1> QED
  BY <1>1, <1>2, <1>3, <1>4, <1>5, <1>6, AddStep

LEMMA DisconnectInv ==
  ASSUME ContainersInv, NEW t \in Threads, Disconnect(t)
  PROVE  ContainersInv'
<1>1. /\ Container = "Signal" /\ MayUse(t) /\ Settle(stored)
      /\ UNCHANGED <<other, broadcastCount, cleanup, stack, queue, released>>
  BY DEF Disconnect
<1>2. PICK s \in connections : /\ connections' = connections \ {s}
                              /\ m_delegates' = Without(m_delegates, s)
  BY DEF Disconnect
<1>3. /\ m_delegates \in Seq(Slot) /\ Range(m_delegates) \subseteq Referenced \cup {Empty}
      /\ other \in Seq(Slots) /\ Range(other) \subseteq Referenced /\ released \subseteq Objects
      /\ cleanup \in BOOLEAN
  BY EntriesKept
<1>4. m_delegates' \in Seq(Slot) /\ Range(m_delegates') \subseteq Range(m_delegates)
  BY <1>2, <1>3, WithoutLemma
<1>5. broadcastCount = 0 /\ Empty \notin Range(m_delegates) /\ NonePending
  BY <1>1, NotWalked, MayUseNone
<1>6. Container \notin Unicast
  BY <1>1 DEF Unicast
<1> QED
  BY <1>1, <1>2, <1>3, <1>4, <1>5, <1>6, DropStep

LEMMA ReleaseInv ==
  ASSUME ContainersInv, NEW o \in Objects, Release(o)
  PROVE  ContainersInv'
<1>1. /\ released' = released \cup {o} /\ Settle(stored)
      /\ UNCHANGED <<m_delegates, other, broadcastCount, cleanup, connections, stack, queue>>
  BY DEF Release, lists
<1>2. /\ m_delegates \in Seq(Slot) /\ Range(m_delegates) \subseteq Referenced \cup {Empty}
      /\ other \in Seq(Slots) /\ Range(other) \subseteq Referenced /\ released \subseteq Objects
      /\ cleanup \in BOOLEAN /\ Len(m_delegates) \in Nat
  BY EntriesKept
<1>3. /\ Empty \in Range(m_delegates) => cleanup /\ broadcastCount > 0
      /\ Container \in Unicast => Len(m_delegates) <= 1
  BY DEF ContainersInv, WalkInv, UnicastInv
<1>4. Len(m_delegates') >= Len(m_delegates)
  BY <1>1, <1>2
<1> QED
  BY <1>1, <1>2, <1>3, <1>4, DropStep

LEMMA ModifyInv ==
  ASSUME ContainersInv, NEW t \in Threads, Modify(t)
  PROVE  ContainersInv'
BY PushBackInv, RemoveInv, ClearInv, CopyFromInv, MoveFromInv, CopyAssignInv, UnicastAssignInv,
   EmptiedInv, SignalConnectInv, DisconnectInv
   DEF Modify

-----------------------------------------------------------------------------
(***************************************************************************)
(* Containers: the invocations.                                            *)
(***************************************************************************)
StackType == stack \in [Threads -> Seq(Frame)]

LEMMA PushLemma ==
  ASSUME StackType, NEW t \in Threads, NEW f \in Frame, Push(t, f)
  PROVE  /\ StackType' /\ Len(stack[t]) \in Nat /\ Len(stack'[t]) = Len(stack[t]) + 1
         /\ stack'[t][1] = f
         /\ \A i \in 1 .. Len(stack'[t]) :
              i # 1 => i - 1 \in 1 .. Len(stack[t]) /\ stack'[t][i] = stack[t][i - 1]
         /\ \A x \in Threads \ {t} : stack'[x] = stack[x]
         /\ Frames' = Frames \cup {f}
<1>1. stack[t] \in Seq(Frame)
  BY DEF StackType
<1>2. stack' = [stack EXCEPT ![t] = <<f>> \o stack[t]]
  BY DEF Push
<1> DEFINE q == <<f>> \o stack[t]
<1>3. /\ q \in Seq(Frame) /\ Len(q) = Len(stack[t]) + 1 /\ q[1] = f
      /\ \A i \in 1 .. Len(stack[t]) : q[i + 1] = stack[t][i]
      /\ \A i \in 1 .. Len(stack[t]) + 1 :
           i # 1 => i - 1 \in 1 .. Len(stack[t]) /\ q[i] = stack[t][i - 1]
      /\ Len(stack[t]) \in Nat
  BY <1>1, ConsLemma, LenProperties
<1> HIDE DEF q
<1>4. stack'[t] = q /\ \A x \in Threads \ {t} : stack'[x] = stack[x]
  BY <1>2 DEF StackType, q
<1>5. StackType'
  BY <1>2, <1>3 DEF StackType, q
<1>6. Range(q) = Range(stack[t]) \cup {f}
  <2>1. Range(q) = {q[i] : i \in 1 .. Len(q)} /\ Range(stack[t]) = {stack[t][i] : i \in 1 .. Len(stack[t])}
    BY <1>1, <1>3, RangeIs
  <2>2. ASSUME NEW i \in 1 .. Len(stack[t]) PROVE stack[t][i] \in Range(q)
    <3>1. i + 1 \in 1 .. Len(q) /\ q[i + 1] = stack[t][i]
      BY <1>3
    <3> QED
      BY <2>1, <3>1
  <2>3. 1 \in 1 .. Len(q)
    BY <1>3
  <2>4. \A i \in 1 .. Len(q) : q[i] \in Range(stack[t]) \cup {f}
    BY <1>3, <2>1
  <2>5. f \in Range(q)
    BY <1>3, <2>1, <2>3
  <2>6. \A x \in Range(q) : x \in Range(stack[t]) \cup {f}
    BY <2>1, <2>4
  <2>7. \A x \in Range(stack[t]) : x \in Range(q)
    BY <2>1, <2>2
  <2> QED
    BY <2>5, <2>6, <2>7
<1>7. Frames' = Frames \cup {f}
  <2>1. \A x \in Threads : Range(stack'[x]) = IF x = t THEN Range(stack[t]) \cup {f} ELSE Range(stack[x])
    BY <1>4, <1>6
  <2> QED
    BY <2>1 DEF Frames
<1> QED
  BY <1>3, <1>4, <1>5, <1>7

LEMMA PopLemma ==
  ASSUME StackType, NEW t \in Threads, stack[t] # <<>>, Pop(t)
  PROVE  /\ StackType' /\ Len(stack[t]) \in Nat \ {0} /\ Len(stack'[t]) = Len(stack[t]) - 1
         /\ Head(stack[t]) = stack[t][1]
         /\ \A i \in 1 .. Len(stack'[t]) :
              i + 1 \in 1 .. Len(stack[t]) /\ stack'[t][i] = stack[t][i + 1]
         /\ \A x \in Threads \ {t} : stack'[x] = stack[x]
         /\ \A f \in Frames : f \in Frames' \/ f = stack[t][1]
<1>1. stack[t] \in Seq(Frame)
  BY DEF StackType
<1>2. stack' = [stack EXCEPT ![t] = Tail(stack[t])]
  BY DEF Pop
<1> DEFINE q == Tail(stack[t])
<1>3. /\ Head(stack[t]) = stack[t][1] /\ Len(stack[t]) \in Nat \ {0}
      /\ q \in Seq(Frame) /\ Len(q) = Len(stack[t]) - 1
      /\ \A i \in 1 .. Len(stack[t]) - 1 : i + 1 \in 1 .. Len(stack[t]) /\ q[i] = stack[t][i + 1]
  BY <1>1, UnconsLemma
<1> HIDE DEF q
<1>4. stack'[t] = q /\ \A x \in Threads \ {t} : stack'[x] = stack[x]
  BY <1>2 DEF StackType, q
<1>5. StackType'
  BY <1>2, <1>3 DEF StackType, q
<1>6. ASSUME NEW f \in Frames PROVE f \in Frames' \/ f = stack[t][1]
  <2>1. PICK x \in Threads : \E i \in 1 .. Len(stack[x]) : f = stack[x][i]
    BY InFrames DEF Frames, StackType
  <2>2. PICK i \in 1 .. Len(stack[x]) : f = stack[x][i]
    BY <2>1
  <2>3. \A y \in Threads : \A j \in 1 .. Len(stack'[y]) : stack'[y][j] \in Frames'
    BY <1>5, InFrames DEF Frames, StackType
  <2>4. CASE x # t
    BY <1>4, <2>2, <2>3, <2>4
  <2>5. CASE x = t /\ i # 1
    <3>1. i - 1 \in 1 .. Len(stack[t]) - 1 /\ (i - 1) + 1 = i
      BY <1>3, <2>5
    <3>2. stack'[t][i - 1] = f /\ i - 1 \in 1 .. Len(stack'[t])
      BY <1>3, <1>4, <2>2, <2>5, <3>1
    <3> QED
      BY <2>3, <3>2
  <2>6. CASE x = t /\ i = 1
    BY <2>2, <2>6
  <2> QED
    BY <2>4, <2>5, <2>6
<1> QED
  BY <1>3, <1>4, <1>5, <1>6

LEMMA ReplaceLemma ==
  ASSUME StackType, NEW t \in Threads, stack[t] # <<>>, NEW f \in Frame, Replace(t, f)
  PROVE  /\ StackType' /\ Len(stack[t]) \in Nat \ {0} /\ Len(stack'[t]) = Len(stack[t])
         /\ Head(stack[t]) = stack[t][1] /\ Head(stack'[t]) = f /\ stack'[t][1] = f
         /\ stack'[t] # <<>>
         /\ \A i \in 1 .. Len(stack'[t]) : i # 1 => stack'[t][i] = stack[t][i]
         /\ \A x \in Threads \ {t} : stack'[x] = stack[x]
         /\ \A g \in Frames : g \in Frames' \/ g = stack[t][1]
<1>1. stack[t] \in Seq(Frame)
  BY DEF StackType
<1>2. stack' = [stack EXCEPT ![t] = <<f>> \o Tail(stack[t])]
  BY DEF Replace
<1> DEFINE p == Tail(stack[t])
           q == <<f>> \o p
<1>3. /\ Head(stack[t]) = stack[t][1] /\ Len(stack[t]) \in Nat \ {0}
      /\ p \in Seq(Frame) /\ Len(p) = Len(stack[t]) - 1
      /\ \A i \in 1 .. Len(stack[t]) - 1 : i + 1 \in 1 .. Len(stack[t]) /\ p[i] = stack[t][i + 1]
  BY <1>1, UnconsLemma
<1> HIDE DEF p
<1>4. /\ q \in Seq(Frame) /\ Len(q) = Len(p) + 1 /\ q[1] = f /\ Head(q) = f /\ q # <<>>
      /\ \A i \in 1 .. Len(p) + 1 : i # 1 => i - 1 \in 1 .. Len(p) /\ q[i] = p[i - 1]
  BY <1>3, ConsLemma
<1> HIDE DEF q
<1>5. Len(q) = Len(stack[t])
  BY <1>3, <1>4
<1>6. ASSUME NEW i \in 1 .. Len(q), i # 1 PROVE q[i] = stack[t][i]
  <2>1. i - 1 \in 1 .. Len(p) /\ q[i] = p[i - 1] /\ i - 1 \in 1 .. Len(stack[t]) - 1 /\ (i - 1) + 1 = i
    BY <1>3, <1>4, <1>6
  <2> QED
    BY <1>3, <2>1
<1>7. stack'[t] = q /\ \A x \in Threads \ {t} : stack'[x] = stack[x]
  BY <1>2 DEF StackType, q, p
<1>8. StackType'
  BY <1>2, <1>4 DEF StackType, q, p
<1>9. ASSUME NEW g \in Frames PROVE g \in Frames' \/ g = stack[t][1]
  <2>1. PICK x \in Threads : \E i \in 1 .. Len(stack[x]) : g = stack[x][i]
    BY InFrames DEF Frames, StackType
  <2>2. PICK i \in 1 .. Len(stack[x]) : g = stack[x][i]
    BY <2>1
  <2>3. \A y \in Threads : \A j \in 1 .. Len(stack'[y]) : stack'[y][j] \in Frames'
    BY <1>8, InFrames DEF Frames, StackType
  <2>4. CASE x # t
    BY <1>7, <2>2, <2>3, <2>4
  <2>5. CASE x = t /\ i # 1
    BY <1>5, <1>6, <1>7, <2>2, <2>3, <2>5
  <2>6. CASE x = t /\ i = 1
    BY <2>2, <2>6
  <2> QED
    BY <2>4, <2>5, <2>6
<1> QED
  BY <1>3, <1>4, <1>5, <1>6, <1>7, <1>8, <1>9

\* An invocation that goes on without running anything.
LEMMA QuietFrame ==
  ASSUME NEW t \in Threads, NEW f \in Frame, FrameOK(t, f), NEW g \in Frame, g.over = f.over,
         g.snapshot = f.snapshot, f.pos <= g.pos, g.at \in {f.at, Empty}, g.runs = Null,
         g.over = "message" => ~g.waits
  PROVE  FrameOK(t, g) /\ Held(g) \subseteq Held(f) \cup {Empty}
<1>1. FrameOK(t, g)
  BY DEF FrameOK
<1>2. f.pos \in Nat /\ g.pos \in Nat /\ DOMAIN f.snapshot = 1 .. Len(f.snapshot)
      /\ Len(f.snapshot) \in Nat
  BY LenProperties DEF Frame
<1>3. Held(g) \subseteq Held(f) \cup {Empty}
  BY <1>2 DEF Held
<1> QED
  BY <1>1, <1>3

\* A step of an invocation, or of the worker: no new clone, and no new reference.
LEMMA StackStep ==
  ASSUME ContainersInv, NEW heap, Settle(heap), StackType', queue' \in Seq(QueueMessage),
         UNCHANGED <<other, connections, released>>,
         m_delegates' \in Seq(Slot), Range(m_delegates') \subseteq Range(m_delegates),
         cleanup' \in BOOLEAN, broadcastCount' \in Nat,
         \A t \in Threads : \A i \in 1 .. Len(stack'[t]) :
           \/ \E j \in 1 .. Len(stack[t]) : stack'[t][i] = stack[t][j]
           \/ FrameOK(t, stack'[t][i]) /\ Held(stack'[t][i]) \subseteq Referenced \cup {Empty},
         \A i \in 1 .. Len(queue') : MessageOK(queue'[i]),
         \A s \in Referenced : heap[s] \in BoundDelegate /\ SameTarget(heap[s], stored[s]),
         \A s \in Referenced :
           heap[s].gate => \/ \E i \in 1 .. Len(queue') : queue'[i].timer = s
                           \/ \E f \in Frames' : f.over = "message" /\ f.at = s
  PROVE  /\ ContainersTypeOK' /\ HeapInv' /\ StackInv' /\ GateOpens'
         /\ \A i \in 1 .. Len(queue') : MessageOK(queue[i])'
         /\ setup' = setup /\ Container' = Container
<1>1. /\ Range(m_delegates) \subseteq Referenced \cup {Empty} /\ other \in Seq(Slots)
      /\ Range(other) \subseteq Referenced /\ released \subseteq Objects
      /\ connections \subseteq Slots /\ connections \subseteq Referenced
  BY EntriesKept
<1>2. Entries' \cup connections' \subseteq Referenced \cup {}
  BY <1>1, EntriesIn
<1>3. \A t \in Threads : \A i \in 1 .. Len(stack'[t]) :
        LET f == stack'[t][i]
        IN  FrameOK(t, f) /\ f.at \notin {} /\ Held(f) \subseteq Referenced \cup {Empty}
  BY OldFrames
<1>4. /\ other' \in Seq(Slots) /\ connections' \subseteq Slots
      /\ released \subseteq released' /\ released' \subseteq Objects
      /\ {} \in SUBSET Slots /\ {} \cap (Referenced \cup Bare) = {}
  BY <1>1
<1>5. /\ setup' \in Setups /\ stored' \in [Slots -> BoundDelegate \cup {Null}]
      /\ dead' \subseteq released' /\ HeapInv' /\ StackInv' /\ GateOpens'
      /\ \A i \in 1 .. Len(queue') : MessageOK(queue[i])'
  <2>1. \A i \in 1 .. Len(queue') : MessageOK(queue'[i]) /\ queue'[i].timer \notin {}
    OBVIOUS
  <2> QED
    BY <1>2, <1>3, <1>4, <2>1, SettleStep DEF StackType
<1>6. ContainersTypeOK'
  BY <1>4, <1>5 DEF ContainersTypeOK, StackType
<1> QED
  BY <1>5, <1>6 DEF Settle, Container

\* The messages after a step of a thread that does not wait.
LEMMA QueueKept ==
  ASSUME ContainersInv, NEW t \in Threads, UNCHANGED queue,
         \A x \in Threads \ {t} : stack'[x] = stack[x],
         stack[t] # <<>> => ~Head(stack[t]).waits,
         \A i \in 1 .. Len(queue') : MessageOK(queue[i])'
  PROVE  QueueInv'
BY DEF ContainersInv, QueueInv

LEMMA HeadFrame ==
  ASSUME ContainersInv, NEW t \in Threads, stack[t] # <<>>
  PROVE  /\ Head(stack[t]) = stack[t][1] /\ 1 \in 1 .. Len(stack[t])
         /\ Head(stack[t]) \in Frame /\ FrameOK(t, Head(stack[t])) /\ Head(stack[t]) \in Frames
         /\ Held(Head(stack[t])) \subseteq Referenced \cup {Empty}
<1>1. stack[t] \in Seq(Frame)
  BY DEF ContainersInv, ContainersTypeOK
<1>2. Head(stack[t]) = stack[t][1] /\ 1 \in 1 .. Len(stack[t])
  BY <1>1, UnconsLemma
<1> QED
  BY <1>2, OldFrames

\* A UnicastDelegate's walk is over once its target runs, or its message is out.
LEMMA BusyHead ==
  ASSUME ContainersInv, NEW t \in Threads, stack[t] # <<>>,
         Head(stack[t]).over # "message", Head(stack[t]).runs # Null \/ Head(stack[t]).waits,
         Container = "UnicastDelegate"
  PROVE  ~ (Head(stack[t]).pos <= Len(Head(stack[t]).snapshot))
<1>1. /\ Head(stack[t]) = stack[t][1] /\ 1 \in 1 .. Len(stack[t])
      /\ FrameOK(t, Head(stack[t]))
  BY HeadFrame
<1>2. t = "main"
  BY <1>1 DEF FrameOK
<1> QED
  BY <1>1, <1>2 DEF ContainersInv, UnicastInv

\* The walks that go on.
LEMMA WalksKept ==
  ASSUME ContainersInv, UNCHANGED <<m_delegates, broadcastCount, cleanup>>, Container' = Container,
         Len(stack'["main"]) = Len(stack["main"]),
         \A i \in 1 .. Len(stack'["main"]) :
           \/ stack'["main"][i] = stack["main"][i]
           \/ /\ stack'["main"][i].over = "list" => stack'["main"][i].pos <= Len(m_delegates) + 1
              /\ Container = "UnicastDelegate" =>
                   ~ (stack'["main"][i].pos <= Len(stack'["main"][i].snapshot))
  PROVE  WalkInv' /\ UnicastInv'
<1>1. WalkInv /\ UnicastInv
  BY DEF ContainersInv
<1>2. WalkInv'
  <2>1. \A i \in 1 .. Len(stack'["main"]) :
          stack'["main"][i].over = "list" => stack'["main"][i].pos <= Len(m_delegates') + 1
    BY <1>1 DEF WalkInv
  <2> QED
    BY <1>1, <2>1 DEF WalkInv
<1>3. UnicastInv'
  <2>1. ASSUME Container = "UnicastDelegate", NEW i \in 1 .. Len(stack'["main"]),
               stack'["main"][i].pos <= Len(stack'["main"][i].snapshot)
        PROVE  /\ i = 1 /\ stack'["main"][i].runs = Null /\ ~stack'["main"][i].waits
               /\ stack'["main"][i].snapshot = m_delegates
    <3>1. stack'["main"][i] = stack["main"][i]
      BY <2>1
    <3> QED
      BY <1>1, <2>1, <3>1 DEF UnicastInv
  <2>2. Container' \in Unicast => Len(m_delegates') <= 1
    BY <1>1 DEF UnicastInv
  <2> QED
    BY <2>1, <2>2 DEF UnicastInv
<1> QED
  BY <1>2, <1>3

\* A step that changes the innermost invocation of a thread, and sends messages.
LEMMA ReplaceStep ==
  ASSUME ContainersInv, NEW heap, Settle(heap), NEW t \in Threads, NEW g \in Frame,
         stack[t] # <<>>, Head(stack[t]).over # "message", g.over = Head(stack[t]).over,
         Replace(t, g), UNCHANGED <<m_delegates, other, broadcastCount, cleanup, connections, released>>,
         queue' \in Seq(QueueMessage),
         FrameOK(t, g), Held(g) \subseteq Referenced \cup {Empty},
         g.over = "list" => g.pos <= Len(m_delegates) + 1,
         Container = "UnicastDelegate" => ~ (g.pos <= Len(g.snapshot)),
         \A i \in 1 .. Len(queue') : MessageOK(queue'[i]),
         \A i \in 1 .. Len(queue) :
           queue[i].timer # Empty => \E j \in 1 .. Len(queue') : queue'[j].timer = queue[i].timer,
         \A s \in Referenced : heap[s] \in BoundDelegate /\ SameTarget(heap[s], stored[s]),
         \A s \in Referenced :
           heap[s].gate => stored[s].gate \/ \E i \in 1 .. Len(queue') : queue'[i].timer = s
  PROVE  /\ ContainersTypeOK' /\ HeapInv' /\ StackInv' /\ GateOpens' /\ WalkInv' /\ UnicastInv'
         /\ \A i \in 1 .. Len(queue') : MessageOK(queue[i])'
<1>1. StackType /\ ContainersTypeOK /\ WalkInv /\ UnicastInv
  BY DEF ContainersInv, ContainersTypeOK, StackType
<1>2. /\ StackType' /\ Len(stack[t]) \in Nat \ {0} /\ Len(stack'[t]) = Len(stack[t])
      /\ Head(stack[t]) = stack[t][1] /\ stack'[t][1] = g
      /\ \A i \in 1 .. Len(stack'[t]) : i # 1 => stack'[t][i] = stack[t][i]
      /\ \A x \in Threads \ {t} : stack'[x] = stack[x]
      /\ \A f \in Frames : f \in Frames' \/ f = stack[t][1]
  BY <1>1, ReplaceLemma
<1>3. \A x \in Threads : \A i \in 1 .. Len(stack'[x]) :
        \/ \E j \in 1 .. Len(stack[x]) : stack'[x][i] = stack[x][j]
        \/ FrameOK(x, stack'[x][i]) /\ Held(stack'[x][i]) \subseteq Referenced \cup {Empty}
  <2> TAKE x \in Threads
  <2> TAKE i \in 1 .. Len(stack'[x])
  <2>1. CASE x = t /\ i = 1
    BY <1>2, <2>1
  <2>2. CASE x = t /\ i # 1
    BY <1>2, <2>2
  <2>3. CASE x # t
    BY <1>2, <2>3
  <2> QED
    BY <2>1, <2>2, <2>3
<1>4. \A s \in Referenced :
        heap[s].gate => \/ \E i \in 1 .. Len(queue') : queue'[i].timer = s
                        \/ \E f \in Frames' : f.over = "message" /\ f.at = s
  <2> TAKE s \in Referenced
  <2>1. s # Empty
    BY OldGates, BoundsAssumption
  <2> QED
    BY <1>2, <2>1, OldGates
<1>5. /\ m_delegates' \in Seq(Slot) /\ Range(m_delegates') \subseteq Range(m_delegates)
      /\ cleanup' \in BOOLEAN /\ broadcastCount' \in Nat
  BY <1>1 DEF ContainersTypeOK
<1>6. /\ ContainersTypeOK' /\ HeapInv' /\ StackInv' /\ GateOpens'
      /\ \A i \in 1 .. Len(queue') : MessageOK(queue[i])'
      /\ Container' = Container
  BY <1>2, <1>3, <1>4, <1>5, StackStep
<1>7. Len(stack'["main"]) = Len(stack["main"])
  BY <1>2 DEF Threads
<1>8. ASSUME NEW i \in 1 .. Len(stack'["main"])
      PROVE  stack'["main"][i] = stack["main"][i] \/ (i = 1 /\ t = "main" /\ stack'["main"][i] = g)
  BY <1>2, <1>8 DEF Threads
<1>9. WalkInv' /\ UnicastInv'
  <2>1. \A i \in 1 .. Len(stack'["main"]) :
          \/ stack'["main"][i] = stack["main"][i]
          \/ /\ stack'["main"][i].over = "list" => stack'["main"][i].pos <= Len(m_delegates) + 1
             /\ Container = "UnicastDelegate" =>
                  ~ (stack'["main"][i].pos <= Len(stack'["main"][i].snapshot))
    BY <1>8
  <2> QED
    BY <1>6, <1>7, <2>1, WalksKept
<1> QED
  BY <1>6, <1>9

LEMMA TargetReturnsInv ==
  ASSUME ContainersInv, NEW t \in Threads, TargetReturns(t)
  PROVE  ContainersInv'
<1> DEFINE f == Head(stack[t])
           g == [f EXCEPT !.runs = Null, !.at = Empty]
<1>1. /\ stack[t] # <<>> /\ f.over # "message" /\ f.runs # Null /\ Replace(t, g)
      /\ UNCHANGED <<m_delegates, other, broadcastCount, cleanup, connections, queue, released>>
      /\ Settle(stored)
  BY DEF TargetReturns, lists
<1>2. /\ f \in Frame /\ FrameOK(t, f) /\ Held(f) \subseteq Referenced \cup {Empty}
      /\ f = stack[t][1] /\ 1 \in 1 .. Len(stack[t])
  BY <1>1, HeadFrame
<1>3. Container = "UnicastDelegate" => ~ (f.pos <= Len(f.snapshot))
  BY <1>1, BusyHead
<1> HIDE DEF f
<1>4. /\ g \in Frame /\ g.over = f.over /\ g.snapshot = f.snapshot /\ g.pos = f.pos
      /\ g.at = Empty /\ g.runs = Null
  BY <1>2 DEF Frame, Slot
<1> HIDE DEF g
<1>5. FrameOK(t, g) /\ Held(g) \subseteq Referenced \cup {Empty}
  <2>1. f.pos <= g.pos
    BY <1>2, <1>4 DEF Frame
  <2> QED
    BY <1>1, <1>2, <1>4, <2>1, QuietFrame
<1>6. g.over = "list" => g.pos <= Len(m_delegates) + 1
  BY <1>1, <1>2, <1>4 DEF ContainersInv, WalkInv, Threads, FrameOK
<1>7. /\ queue \in Seq(QueueMessage) /\ \A i \in 1 .. Len(queue) : MessageOK(queue[i])
  BY DEF ContainersInv, ContainersTypeOK, QueueInv
<1>8. \A s \in Referenced : stored[s] \in BoundDelegate /\ SameTarget(stored[s], stored[s])
  BY OldGates DEF SameTarget
<1>9. queue' \in Seq(QueueMessage) /\ \A i \in 1 .. Len(queue') : MessageOK(queue'[i])
  BY <1>1, <1>7
<1>10. \A i \in 1 .. Len(queue) :
         queue[i].timer # Empty => \E j \in 1 .. Len(queue') : queue'[j].timer = queue[i].timer
  BY <1>1
<1>11. g.over = Head(stack[t]).over /\ Head(stack[t]).over # "message"
  BY <1>1, <1>4 DEF f
<1>12. Container = "UnicastDelegate" => ~ (g.pos <= Len(g.snapshot))
  BY <1>3, <1>4
<1>13. /\ ContainersTypeOK' /\ HeapInv' /\ StackInv' /\ GateOpens' /\ WalkInv' /\ UnicastInv'
       /\ \A i \in 1 .. Len(queue') : MessageOK(queue[i])'
  BY <1>1, <1>4, <1>5, <1>6, <1>8, <1>9, <1>10, <1>11, <1>12, ReplaceStep
<1>14. ~Head(stack[t]).waits
  BY <1>1, <1>2 DEF FrameOK, f
<1>15. \A x \in Threads \ {t} : stack'[x] = stack[x]
  BY <1>1, <1>4, ReplaceLemma DEF ContainersInv, ContainersTypeOK, StackType
<1>16. QueueInv'
  BY <1>1, <1>13, <1>14, <1>15, QueueKept
<1> QED
  BY <1>13, <1>16 DEF ContainersInv

LEMMA BroadcastInv ==
  ASSUME ContainersInv, NEW t \in Threads, Broadcast(t)
  PROVE  ContainersInv'
<1> DEFINE f == IF Container = "MulticastDelegate" THEN LiveFrame ELSE CopyFrame(m_delegates)
<1>1. /\ MayUse(t) /\ Push(t, f) /\ Settle(stored)
      /\ broadcastCount' = IF Container = "MulticastDelegate" THEN broadcastCount + 1
                           ELSE broadcastCount
      /\ UNCHANGED <<m_delegates, other, cleanup, connections, queue, released>>
  BY DEF Broadcast
<1>2. /\ m_delegates \in Seq(Slot) /\ Range(m_delegates) \subseteq Referenced \cup {Empty}
      /\ cleanup \in BOOLEAN /\ broadcastCount \in Nat /\ Len(m_delegates) \in Nat
      /\ DOMAIN m_delegates = 1 .. Len(m_delegates)
  BY EntriesKept, LenProperties
<1>3. <<>> \in Seq(Slot) /\ DOMAIN <<>> = {}
  BY EmptySeq
<1>4. LiveFrame \in Frame /\ CopyFrame(m_delegates) \in Frame
  <2>1. Null \in BoundDelegate \cup {Null} /\ Empty \in Slot /\ 1 \in Nat \ {0}
    BY DEF Slot
  <2>2. LiveFrame \in Frame
    BY <1>3, <2>1 DEF Frame, LiveFrame
  <2>3. \A l \in Frame : [l EXCEPT !.over = "copy", !.snapshot = m_delegates] \in Frame
    BY <1>2 DEF Frame
  <2> QED
    BY <2>2, <2>3 DEF CopyFrame
<1>5. /\ f \in Frame /\ f.runs = Null /\ f.waits = FALSE /\ f.pos = 1 /\ f.at = Empty
      /\ f.snapshot = IF Container = "MulticastDelegate" THEN <<>> ELSE m_delegates
      /\ f.over = IF Container = "MulticastDelegate" THEN "list" ELSE "copy"
  BY <1>4 DEF LiveFrame, CopyFrame
<1>6. FrameOK(t, f)
  <2>1. Container \in {"MulticastDelegate", "UnicastDelegate"} => t = "main"
    BY <1>1 DEF MayUse
  <2> HIDE DEF f
  <2> QED
    BY <1>5, <2>1 DEF FrameOK
<1> HIDE DEF f
<1>7. Held(f) \subseteq Referenced \cup {Empty}
  <2>1. \A i \in DOMAIN f.snapshot : f.snapshot[i] \in Referenced \cup {Empty}
    BY <1>2, <1>3, <1>5 DEF Range
  <2> QED
    BY <1>5, <2>1 DEF Held
<1>8. StackType
  BY DEF ContainersInv, ContainersTypeOK, StackType
<1>9. /\ StackType' /\ Len(stack[t]) \in Nat /\ Len(stack'[t]) = Len(stack[t]) + 1
      /\ stack'[t][1] = f
      /\ \A i \in 1 .. Len(stack'[t]) :
           i # 1 => i - 1 \in 1 .. Len(stack[t]) /\ stack'[t][i] = stack[t][i - 1]
      /\ \A x \in Threads \ {t} : stack'[x] = stack[x]
      /\ Frames' = Frames \cup {f}
  BY <1>1, <1>5, <1>8, PushLemma
<1>10. \A x \in Threads : \A i \in 1 .. Len(stack'[x]) :
         \/ \E j \in 1 .. Len(stack[x]) : stack'[x][i] = stack[x][j]
         \/ FrameOK(x, stack'[x][i]) /\ Held(stack'[x][i]) \subseteq Referenced \cup {Empty}
  <2> TAKE x \in Threads
  <2> TAKE i \in 1 .. Len(stack'[x])
  <2>1. CASE x = t /\ i = 1
    BY <1>6, <1>7, <1>9, <2>1
  <2>2. CASE x = t /\ i # 1
    BY <1>9, <2>2
  <2>3. CASE x # t
    BY <1>9, <2>3
  <2> QED
    BY <2>1, <2>2, <2>3
<1>11. /\ queue' \in Seq(QueueMessage) /\ \A i \in 1 .. Len(queue') : MessageOK(queue'[i])
  BY <1>1 DEF ContainersInv, ContainersTypeOK, QueueInv
<1>12. \A s \in Referenced : stored[s] \in BoundDelegate /\ SameTarget(stored[s], stored[s])
  BY OldGates DEF SameTarget
<1>13. \A s \in Referenced :
         stored[s].gate => \/ \E i \in 1 .. Len(queue') : queue'[i].timer = s
                           \/ \E g \in Frames' : g.over = "message" /\ g.at = s
  BY <1>1, <1>9, OldGates
<1>14. /\ m_delegates' \in Seq(Slot) /\ Range(m_delegates') \subseteq Range(m_delegates)
       /\ cleanup' \in BOOLEAN /\ broadcastCount' \in Nat
  BY <1>1, <1>2
<1>15. /\ ContainersTypeOK' /\ HeapInv' /\ StackInv' /\ GateOpens'
       /\ \A i \in 1 .. Len(queue') : MessageOK(queue[i])'
       /\ Container' = Container
  BY <1>1, <1>9, <1>10, <1>11, <1>12, <1>13, <1>14, StackStep
<1>16. QueueInv'
  <2>1. stack[t] # <<>> => ~Head(stack[t]).waits
    BY <1>1 DEF MayUse, Idle
  <2> QED
    BY <1>1, <1>9, <1>15, <2>1, QueueKept
<1>17. WalkInv'
  <2>1. WalkInv
    BY DEF ContainersInv
  <2>2. ASSUME NEW i \in 1 .. Len(stack'["main"]), stack'["main"][i].over = "list"
        PROVE  stack'["main"][i].pos <= Len(m_delegates') + 1
    <3>1. CASE t = "main" /\ i = 1
      BY <1>1, <1>2, <1>5, <1>9, <3>1
    <3>2. CASE t = "main" /\ i # 1
      BY <1>1, <1>9, <2>1, <2>2, <3>2 DEF WalkInv
    <3>3. CASE t # "main"
      BY <1>1, <1>9, <2>1, <2>2, <3>3 DEF WalkInv, Threads
    <3> QED
      BY <3>1, <3>2, <3>3
  <2>3. Container = "MulticastDelegate" => broadcastCount' = Len(stack'["main"])
    BY <1>1, <1>2, <1>9, <2>1 DEF WalkInv, MayUse
  <2>4. Container # "MulticastDelegate" => broadcastCount' = 0
    BY <1>1, <2>1 DEF WalkInv
  <2>5. Empty \in Range(m_delegates') => cleanup' /\ broadcastCount' > 0
    BY <1>1, <1>2, <2>1 DEF WalkInv
  <2> QED
    BY <1>15, <2>2, <2>3, <2>4, <2>5 DEF WalkInv
<1>18. UnicastInv'
  <2>1. ASSUME Container = "UnicastDelegate", NEW i \in 1 .. Len(stack'["main"]),
               stack'["main"][i].pos <= Len(stack'["main"][i].snapshot)
        PROVE  /\ i = 1 /\ stack'["main"][i].runs = Null /\ ~stack'["main"][i].waits
               /\ stack'["main"][i].snapshot = m_delegates
    <3>1. t = "main"
      BY <1>1, <2>1 DEF MayUse
    <3>2. i = 1
      <4>1. NonePending
        BY <1>1, MayUseNone
      <4> QED
        BY <1>9, <2>1, <3>1, <4>1 DEF NonePending
    <3> QED
      BY <1>5, <1>9, <2>1, <3>1, <3>2
  <2>2. Container \in Unicast => Len(m_delegates) <= 1
    BY DEF ContainersInv, UnicastInv
  <2> QED
    BY <1>1, <1>15, <2>1, <2>2 DEF UnicastInv
<1> QED
  BY <1>15, <1>16, <1>17, <1>18 DEF ContainersInv

LEMMA LeaveInv ==
  ASSUME ContainersInv, NEW t \in Threads, Leave(t)
  PROVE  ContainersInv'
<1> DEFINE f == Head(stack[t])
<1>1. /\ stack[t] # <<>> /\ f.over # "message" /\ f.runs = Null /\ ~f.waits /\ AtEnd(f)
      /\ Pop(t) /\ Settle(stored)
      /\ IF f.over # "list" THEN UNCHANGED <<m_delegates, broadcastCount, cleanup>>
         ELSE /\ broadcastCount' = broadcastCount - 1
              /\ IF broadcastCount' = 0 /\ cleanup
                 THEN m_delegates' = Present(m_delegates) /\ cleanup' = FALSE
                 ELSE UNCHANGED <<m_delegates, cleanup>>
      /\ UNCHANGED <<other, connections, queue, released>>
  BY DEF Leave, Between
<1>2. /\ f = stack[t][1] /\ 1 \in 1 .. Len(stack[t]) /\ f \in Frame /\ FrameOK(t, f)
  BY <1>1, HeadFrame
<1> HIDE DEF f
<1>3. StackType /\ WalkInv /\ UnicastInv
  BY DEF ContainersInv, ContainersTypeOK, StackType
<1>4. /\ StackType' /\ Len(stack[t]) \in Nat \ {0} /\ Len(stack'[t]) = Len(stack[t]) - 1
      /\ \A i \in 1 .. Len(stack'[t]) :
           i + 1 \in 1 .. Len(stack[t]) /\ stack'[t][i] = stack[t][i + 1]
      /\ \A x \in Threads \ {t} : stack'[x] = stack[x]
      /\ \A g \in Frames : g \in Frames' \/ g = f
  BY <1>1, <1>2, <1>3, PopLemma
<1>5. /\ m_delegates \in Seq(Slot) /\ cleanup \in BOOLEAN /\ broadcastCount \in Nat
      /\ Len(m_delegates) \in Nat
  BY EntriesKept
<1>6. Present(m_delegates) \in Seq(Slot) /\ Range(Present(m_delegates)) \subseteq Range(m_delegates) \ {Empty}
  BY <1>5, WithoutLemma DEF Present
<1>7. f.over = "list" <=> Container = "MulticastDelegate"
  BY <1>1, <1>2 DEF FrameOK, Frame
<1>8. Container = "MulticastDelegate" => t = "main" /\ broadcastCount = Len(stack[t])
  BY <1>1, <1>2, <1>3 DEF FrameOK, WalkInv
<1>9. Container # "MulticastDelegate" => broadcastCount = 0
  BY <1>3 DEF WalkInv
<1>10. /\ m_delegates' \in Seq(Slot) /\ Range(m_delegates') \subseteq Range(m_delegates)
       /\ cleanup' \in BOOLEAN /\ broadcastCount' \in Nat
  <2>1. CASE Container # "MulticastDelegate"
    BY <1>1, <1>5, <1>7, <2>1
  <2>2. CASE Container = "MulticastDelegate"
    <3>1. broadcastCount' = broadcastCount - 1 /\ broadcastCount \in Nat \ {0}
      BY <1>1, <1>4, <1>7, <1>8, <2>2
    <3>2. \/ m_delegates' = Present(m_delegates) /\ cleanup' = FALSE
          \/ m_delegates' = m_delegates /\ cleanup' = cleanup
      BY <1>1, <1>7, <2>2
    <3>3. broadcastCount' \in Nat
      BY <3>1
    <3>4. /\ m_delegates' \in Seq(Slot) /\ Range(m_delegates') \subseteq Range(m_delegates)
          /\ cleanup' \in BOOLEAN
      BY <1>5, <1>6, <3>2
    <3> QED
      BY <3>3, <3>4
  <2> QED
    BY <2>1, <2>2
<1>11. \A x \in Threads : \A i \in 1 .. Len(stack'[x]) :
         \/ \E j \in 1 .. Len(stack[x]) : stack'[x][i] = stack[x][j]
         \/ FrameOK(x, stack'[x][i]) /\ Held(stack'[x][i]) \subseteq Referenced \cup {Empty}
  <2> TAKE x \in Threads
  <2> TAKE i \in 1 .. Len(stack'[x])
  <2>1. CASE x = t
    BY <1>4, <2>1
  <2>2. CASE x # t
    BY <1>4, <2>2
  <2> QED
    BY <2>1, <2>2
<1>12. /\ queue' \in Seq(QueueMessage) /\ \A i \in 1 .. Len(queue') : MessageOK(queue'[i])
  BY <1>1 DEF ContainersInv, ContainersTypeOK, QueueInv
<1>13. \A s \in Referenced : stored[s] \in BoundDelegate /\ SameTarget(stored[s], stored[s])
  BY OldGates DEF SameTarget
<1>14. \A s \in Referenced :
         stored[s].gate => \/ \E i \in 1 .. Len(queue') : queue'[i].timer = s
                           \/ \E g \in Frames' : g.over = "message" /\ g.at = s
  BY <1>1, <1>4, OldGates
<1>15. /\ ContainersTypeOK' /\ HeapInv' /\ StackInv' /\ GateOpens'
       /\ \A i \in 1 .. Len(queue') : MessageOK(queue[i])'
       /\ Container' = Container
  BY <1>1, <1>4, <1>10, <1>11, <1>12, <1>13, <1>14, StackStep
<1>16. QueueInv'
  <2>1. ~Head(stack[t]).waits
    BY <1>1 DEF f
  <2> QED
    BY <1>1, <1>4, <1>15, <2>1, QueueKept
<1>17. WalkInv'
  <2>1. CASE Container = "MulticastDelegate"
    <3>1. t = "main" /\ broadcastCount' = Len(stack'["main"])
      BY <1>1, <1>4, <1>7, <1>8, <2>1
    <3>2. ASSUME NEW i \in 1 .. Len(stack'["main"]), stack'["main"][i].over = "list"
          PROVE  stack'["main"][i].pos <= Len(m_delegates') + 1
      <4>1. broadcastCount' # 0
        BY <1>4, <3>1
      <4>2. m_delegates' = m_delegates
        BY <1>1, <1>7, <2>1, <4>1
      <4> QED
        BY <1>3, <1>4, <3>1, <3>2, <4>2 DEF WalkInv
    <3>3. Empty \in Range(m_delegates') => cleanup' /\ broadcastCount' > 0
      <4>1. CASE broadcastCount' = 0 /\ cleanup
        BY <1>1, <1>6, <1>7, <2>1, <4>1
      <4>2. CASE ~ (broadcastCount' = 0 /\ cleanup)
        BY <1>1, <1>3, <1>7, <1>10, <2>1, <4>2 DEF WalkInv
      <4> QED
        BY <4>1, <4>2
    <3> QED
      BY <1>15, <2>1, <3>1, <3>2, <3>3 DEF WalkInv
  <2>2. CASE Container # "MulticastDelegate"
    <3>1. UNCHANGED <<m_delegates, broadcastCount, cleanup>>
      BY <1>1, <1>7, <2>2
    <3>2. ASSUME NEW i \in 1 .. Len(stack'["main"]), stack'["main"][i].over = "list"
          PROVE  FALSE
      <4>1. "main" \in Threads /\ FrameOK("main", stack["main"][i])'
        BY <1>15, <3>2 DEF StackInv, Threads
      <4> QED
        BY <1>15, <2>2, <3>2, <4>1 DEF FrameOK
    <3> QED
      BY <1>3, <1>9, <1>15, <2>2, <3>1, <3>2 DEF WalkInv
  <2> QED
    BY <2>1, <2>2
<1>18. UnicastInv'
  <2>1. Container \in Unicast => m_delegates' = m_delegates /\ Len(m_delegates) <= 1
    BY <1>1, <1>3, <1>7 DEF UnicastInv, Unicast
  <2>2. ASSUME Container = "UnicastDelegate", NEW i \in 1 .. Len(stack'["main"]),
               stack'["main"][i].pos <= Len(stack'["main"][i].snapshot)
        PROVE  FALSE
    <3>1. t = "main"
      BY <1>1, <1>2, <2>2 DEF FrameOK
    <3>2. i + 1 \in 1 .. Len(stack["main"]) /\ stack'["main"][i] = stack["main"][i + 1] /\ i + 1 # 1
      BY <1>4, <2>2, <3>1
    <3> QED
      BY <1>3, <2>2, <3>2 DEF UnicastInv
  <2> QED
    BY <1>15, <2>1, <2>2 DEF UnicastInv
<1> QED
  BY <1>15, <1>16, <1>17, <1>18 DEF ContainersInv

LEMMA OldMessages ==
  ASSUME ContainersInv, NEW i \in 1 .. Len(queue)
  PROVE  LET m == queue[i]
         IN  /\ m \in QueueMessage /\ m.d \in BoundDelegate /\ MessageOK(m) /\ m.d.class # "MemberSp"
             /\ m.timer # Empty => m.from = "async"
             /\ m.from \in Threads => stack[m.from] # <<>> /\ Head(stack[m.from]).waits
<1>1. queue[i] \in QueueMessage
  BY ElementOfSeq DEF ContainersInv, ContainersTypeOK
<1> QED
  BY <1>1 DEF ContainersInv, QueueInv, QueueMessage

LEMMA WaitTimesOutInv ==
  ASSUME ContainersInv, NEW t \in Threads, WaitTimesOut(t)
  PROVE  ContainersInv'
<1> DEFINE f == Head(stack[t])
           g == [f EXCEPT !.waits = FALSE, !.at = Empty]
<1>1. /\ stack[t] # <<>> /\ f.waits /\ queue' = Abandoned(t) /\ Replace(t, g)
      /\ UNCHANGED <<m_delegates, other, broadcastCount, cleanup, connections, released>>
      /\ Settle(stored)
  BY DEF WaitTimesOut, lists
<1>2. /\ f \in Frame /\ FrameOK(t, f) /\ Held(f) \subseteq Referenced \cup {Empty}
      /\ f = stack[t][1] /\ 1 \in 1 .. Len(stack[t])
  BY <1>1, HeadFrame
<1>3. f.over # "message" /\ f.runs = Null
  BY <1>1, <1>2 DEF FrameOK
<1>4. Container = "UnicastDelegate" => ~ (f.pos <= Len(f.snapshot))
  BY <1>1, <1>3, BusyHead
<1> HIDE DEF f
<1>5. /\ g \in Frame /\ g.over = f.over /\ g.snapshot = f.snapshot /\ g.pos = f.pos
      /\ g.at = Empty /\ g.runs = Null /\ g.waits = FALSE
  BY <1>2, <1>3 DEF Frame, Slot
<1> HIDE DEF g
<1>6. FrameOK(t, g) /\ Held(g) \subseteq Referenced \cup {Empty}
  <2>1. f.pos <= g.pos
    BY <1>2, <1>5 DEF Frame
  <2> QED
    BY <1>2, <1>3, <1>5, <2>1, QuietFrame
<1>7. g.over = "list" => g.pos <= Len(m_delegates) + 1
  BY <1>2, <1>5 DEF ContainersInv, WalkInv, Threads, FrameOK
<1>8. /\ queue \in Seq(QueueMessage) /\ Len(queue) \in Nat /\ DOMAIN queue = 1 .. Len(queue)
  BY LenProperties DEF ContainersInv, ContainersTypeOK
<1>9. /\ queue' \in Seq(QueueMessage) /\ Len(queue') = Len(queue)
      /\ \A i \in 1 .. Len(queue) :
           /\ queue'[i].d = queue[i].d /\ queue'[i].timer = queue[i].timer
           /\ queue'[i].from = IF queue[i].from = t THEN "gone" ELSE queue[i].from
  <2> DEFINE e(i) == IF queue[i].from = t THEN [queue[i] EXCEPT !.from = "gone"] ELSE queue[i]
  <2>1. \A i \in 1 .. Len(queue) :
          /\ e(i) \in QueueMessage /\ e(i).d = queue[i].d /\ e(i).timer = queue[i].timer
          /\ e(i).from = IF queue[i].from = t THEN "gone" ELSE queue[i].from
    <3> TAKE i \in 1 .. Len(queue)
    <3>1. queue[i] \in QueueMessage
      BY OldMessages
    <3> QED
      BY <3>1 DEF QueueMessage
  <2>2. queue' = [i \in 1 .. Len(queue) |-> e(i)]
    BY <1>1, <1>8 DEF Abandoned
  <2> HIDE DEF e
  <2> QED
    BY <1>8, <2>1, <2>2
<1>10. \A i \in 1 .. Len(queue') : MessageOK(queue'[i])
  BY <1>9, OldMessages DEF MessageOK
<1>11. \A i \in 1 .. Len(queue) :
         queue[i].timer # Empty => \E j \in 1 .. Len(queue') : queue'[j].timer = queue[i].timer
  BY <1>9
<1>12. \A s \in Referenced : stored[s] \in BoundDelegate /\ SameTarget(stored[s], stored[s])
  BY OldGates DEF SameTarget
<1>13. g.over = Head(stack[t]).over /\ Head(stack[t]).over # "message"
  BY <1>3, <1>5 DEF f
<1>14. Container = "UnicastDelegate" => ~ (g.pos <= Len(g.snapshot))
  BY <1>4, <1>5
<1>15. /\ ContainersTypeOK' /\ HeapInv' /\ StackInv' /\ GateOpens' /\ WalkInv' /\ UnicastInv'
       /\ \A i \in 1 .. Len(queue') : MessageOK(queue[i])'
  BY <1>1, <1>5, <1>6, <1>7, <1>9, <1>10, <1>11, <1>12, <1>13, <1>14, ReplaceStep
<1>16. \A x \in Threads \ {t} : stack'[x] = stack[x]
  BY <1>1, <1>5, ReplaceLemma DEF ContainersInv, ContainersTypeOK, StackType
<1>17. QueueInv'
  <2>1. "gone" \notin Threads /\ "async" \notin Threads
    BY DEF Threads
  <2>2. ASSUME NEW i \in 1 .. Len(queue')
        PROVE  /\ queue'[i].d.class # "MemberSp"
               /\ queue'[i].timer # Empty => queue'[i].from = "async"
               /\ queue'[i].from \in Threads =>
                    stack'[queue'[i].from] # <<>> /\ Head(stack'[queue'[i].from]).waits
    <3>1. /\ queue[i].d.class # "MemberSp" /\ (queue[i].timer # Empty => queue[i].from = "async")
          /\ queue[i].from \in Threads =>
               stack[queue[i].from] # <<>> /\ Head(stack[queue[i].from]).waits
      BY <1>9, OldMessages
    <3> QED
      BY <1>9, <1>16, <2>1, <3>1
  <2>3. \A i, j \in 1 .. Len(queue') :
          queue'[i].from \in Threads /\ queue'[i].from = queue'[j].from => i = j
    BY <1>9, <2>1 DEF ContainersInv, QueueInv
  <2> QED
    BY <1>15, <2>2, <2>3 DEF QueueInv
<1> QED
  BY <1>15, <1>17 DEF ContainersInv

\* The entry that a walk comes to.
LEMMA NextEntry ==
  ASSUME ContainersInv, NEW t \in Threads, Between(t), ~AtEnd(Head(stack[t]))
  PROVE  LET f == Head(stack[t])
             s == Walked(f)[f.pos]
         IN  /\ s \in Slot /\ (s # Empty => s \in Referenced)
             /\ f.over = "list" => f.pos + 1 <= Len(m_delegates) + 1
             /\ Container = "UnicastDelegate" => ~ (f.pos + 1 <= Len(f.snapshot))
<1> DEFINE f == Head(stack[t])
           s == Walked(f)[f.pos]
<1>1. /\ stack[t] # <<>> /\ f.over # "message" /\ f.runs = Null /\ ~f.waits
      /\ ~ (f.pos > Len(Walked(f)))
  BY DEF Between, AtEnd
<1>2. /\ f = stack[t][1] /\ 1 \in 1 .. Len(stack[t]) /\ f \in Frame /\ FrameOK(t, f)
      /\ Held(f) \subseteq Referenced \cup {Empty}
  BY <1>1, HeadFrame
<1> HIDE DEF f
<1>3. /\ m_delegates \in Seq(Slot) /\ Range(m_delegates) \subseteq Referenced \cup {Empty}
      /\ Len(m_delegates) \in Nat
  BY EntriesKept
<1>4. f.pos \in Nat \ {0} /\ f.snapshot \in Seq(Slot) /\ f.over \in {"list", "copy", "message"}
  BY <1>2 DEF Frame
<1>5. Len(f.snapshot) \in Nat /\ DOMAIN f.snapshot = 1 .. Len(f.snapshot)
  BY <1>4, LenProperties
<1>6. Walked(f) \in Seq(Slot) /\ Len(Walked(f)) \in Nat
  BY <1>3, <1>4, <1>5 DEF Walked
<1>7. f.pos \in 1 .. Len(Walked(f))
  BY <1>1, <1>4, <1>6
<1>8. s \in Slot
  BY <1>6, <1>7, ElementOfSeq
<1>9. s \in Range(Walked(f))
  BY <1>6, <1>7, RangeIs
<1>10. CASE f.over = "list"
  <2>1. Walked(f) = m_delegates /\ Container = "MulticastDelegate"
    BY <1>2, <1>10 DEF Walked, FrameOK
  <2>2. s # Empty => s \in Referenced
    BY <1>3, <1>9, <2>1
  <2>3. f.pos + 1 <= Len(m_delegates) + 1
    BY <1>3, <1>4, <1>7, <2>1
  <2> QED
    BY <1>8, <2>1, <2>2, <2>3 DEF f
<1>11. CASE f.over = "copy"
  <2>1. Walked(f) = f.snapshot
    BY <1>11 DEF Walked
  <2>2. CASE Container = "UnicastDelegate"
    <3>1. t = "main"
      BY <1>1, <1>2, <2>2 DEF FrameOK
    <3>2. f.snapshot = m_delegates /\ Len(m_delegates) <= 1
      BY <1>2, <1>7, <2>1, <2>2, <3>1 DEF ContainersInv, UnicastInv, Unicast
    <3>3. ~ (f.pos + 1 <= Len(f.snapshot))
      BY <1>3, <1>4, <3>2
    <3>4. s # Empty => s \in Referenced
      BY <1>3, <1>9, <2>1, <3>2
    <3> QED
      BY <1>8, <1>11, <3>3, <3>4 DEF f
  <2>3. CASE Container # "UnicastDelegate"
    <3>1. f.pos \in DOMAIN f.snapshot /\ f.pos >= f.pos
      BY <1>4, <1>5, <1>7, <2>1
    <3>2. f.snapshot[f.pos] \in Held(f)
      BY <1>1, <2>3, <3>1 DEF Held
    <3>3. s # Empty => s \in Referenced
      BY <1>2, <2>1, <3>2
    <3> QED
      BY <1>8, <1>11, <2>3, <3>3 DEF f
  <2> QED
    BY <2>2, <2>3
<1> QED
  BY <1>1, <1>4, <1>10, <1>11

LEMMA CallNextInv ==
  ASSUME ContainersInv, NEW t \in Threads, CallNext(t)
  PROVE  ContainersInv'
<1> DEFINE f == Head(stack[t])
           s == Walked(f)[f.pos]
           g == [f EXCEPT !.pos = @ + 1, !.at = s]
           d == stored[s]
           what == IF s = Empty THEN "skip" ELSE AnyCall(d, dead)
           m == CASE what = "fire" -> Message(d, "async", s)
                  [] what = "wait" -> Message(Clone(d), t, Empty)
                  [] OTHER -> Message(Clone(d), "async", Empty)
           sent == queue' # queue
           h == CASE what = "run" -> [g EXCEPT !.runs = d]
                  [] what = "wait" /\ sent -> [g EXCEPT !.waits = TRUE]
                  [] OTHER -> [g EXCEPT !.at = Empty]
           heap == IF what = "fire" /\ sent THEN [stored EXCEPT ![s].gate = TRUE] ELSE stored
<1>1. /\ Between(t) /\ ~AtEnd(f)
      /\ queue' = IF what \in {"dispatch", "wait", "fire"} THEN Dispatched(m) ELSE queue
      /\ Replace(t, h)
      /\ UNCHANGED <<m_delegates, other, broadcastCount, cleanup, connections, released>>
      /\ Settle(heap)
  BY DEF CallNext, lists
<1>2. /\ stack[t] # <<>> /\ f.over # "message" /\ f.runs = Null /\ f.waits = FALSE
      /\ f \in Frame /\ FrameOK(t, f) /\ Held(f) \subseteq Referenced \cup {Empty}
  <2>1. stack[t] # <<>> /\ f.over # "message" /\ f.runs = Null /\ ~f.waits
    BY <1>1 DEF Between
  <2>2. f \in Frame /\ FrameOK(t, f) /\ Held(f) \subseteq Referenced \cup {Empty}
    BY <2>1, HeadFrame
  <2>3. f.waits \in BOOLEAN
    BY <2>2 DEF Frame
  <2> QED
    BY <2>1, <2>2, <2>3
<1>3. /\ s \in Slot /\ (s # Empty => s \in Referenced)
      /\ f.over = "list" => f.pos + 1 <= Len(m_delegates) + 1
      /\ Container = "UnicastDelegate" => ~ (f.pos + 1 <= Len(f.snapshot))
  BY <1>1, NextEntry
<1>4. s # Empty => s \in Slots /\ d \in BoundDelegate /\ Sound(d)
  BY <1>3, OldGates
<1> HIDE DEF s, f
<1>5. /\ g \in Frame /\ g.over = f.over /\ g.snapshot = f.snapshot /\ g.pos = f.pos + 1
      /\ g.at = s /\ g.runs = Null /\ g.waits = FALSE
  <2>1. f.pos \in Nat \ {0} /\ f.pos + 1 \in Nat \ {0}
    BY <1>2 DEF Frame
  <2>2. PICK p : p = f.pos + 1
    OBVIOUS
  <2>3. g = [f EXCEPT !.pos = p, !.at = s]
    BY <2>2
  <2> HIDE DEF g
  <2>4. p \in Nat \ {0} /\ s \in Slot
    BY <1>3, <2>1, <2>2
  <2>5. g \in Frame
    BY <1>2, <2>3, <2>4 DEF Frame
  <2>6. /\ g.over = f.over /\ g.snapshot = f.snapshot /\ g.pos = p
        /\ g.at = s /\ g.runs = f.runs /\ g.waits = f.waits
    BY <1>2, <2>3 DEF Frame
  <2> QED
    BY <1>2, <2>2, <2>5, <2>6
<1> HIDE DEF g, d
<1>6. what \in {"run", "dispatch", "wait", "fire", "skip", "send"} /\ (s = Empty => what = "skip")
  BY <1>4, CallLemma
<1>7. what \in {"dispatch", "wait", "fire"} =>
        /\ s # Empty /\ d \in BoundDelegate /\ Sound(d)
        /\ d.class \notin RemoteClasses \cup {"MemberSp"}
  BY <1>4, CallLemma
<1>8. what = "run" => /\ s # Empty /\ d \in BoundDelegate
                      /\ d.class \in Weak => d.object \notin dead
  BY <1>4, CallLemma
<1> HIDE DEF what
<1>9. /\ h \in Frame /\ h.over = f.over /\ h.snapshot = f.snapshot /\ h.pos = f.pos + 1
      /\ h.at \in {s, Empty} /\ h.runs = (IF what = "run" THEN d ELSE Null)
      /\ what = "run" => h.at = s /\ h.waits = FALSE
      /\ h.waits = (what = "wait" /\ sent)
  <2>1. Empty \in Slot
    BY DEF Slot
  <2> HIDE DEF sent
  <2>2. CASE what = "run"
    <3>1. h = [g EXCEPT !.runs = d] /\ d \in BoundDelegate
      BY <1>8, <2>2
    <3>2. h \in Frame /\ h.over = g.over /\ h.snapshot = g.snapshot /\ h.pos = g.pos
          /\ h.at = g.at /\ h.runs = d /\ h.waits = g.waits
      BY <1>5, <3>1 DEF Frame
    <3> QED
      BY <1>5, <2>2, <3>2
  <2>3. CASE what = "wait" /\ sent
    <3>1. h = [g EXCEPT !.waits = TRUE]
      BY <2>3
    <3>2. h \in Frame /\ h.over = g.over /\ h.snapshot = g.snapshot /\ h.pos = g.pos
          /\ h.at = g.at /\ h.runs = g.runs /\ h.waits = TRUE
      BY <1>5, <3>1 DEF Frame
    <3> QED
      BY <1>5, <2>3, <3>2
  <2>4. CASE what # "run" /\ ~ (what = "wait" /\ sent)
    <3>1. h = [g EXCEPT !.at = Empty]
      BY <2>4
    <3>2. h \in Frame /\ h.over = g.over /\ h.snapshot = g.snapshot /\ h.pos = g.pos
          /\ h.at = Empty /\ h.runs = g.runs /\ h.waits = g.waits
      BY <1>5, <2>1, <3>1 DEF Frame
    <3> QED
      BY <1>5, <2>4, <3>2
  <2> QED
    BY <2>2, <2>3, <2>4
<1> HIDE DEF h
<1>10. FrameOK(t, h)
  BY <1>2, <1>8, <1>9 DEF FrameOK, SameTarget, d
<1>11. Held(h) \subseteq Referenced \cup {Empty}
  <2>1. f.pos \in Nat /\ f.snapshot \in Seq(Slot)
    BY <1>2 DEF Frame
  <2>2. DOMAIN f.snapshot = 1 .. Len(f.snapshot) /\ Len(f.snapshot) \in Nat
    BY <2>1, LenProperties
  <2>3. \A i \in DOMAIN f.snapshot : i >= f.pos + 1 => i >= f.pos
    BY <2>1, <2>2
  <2>4. Held(h) \subseteq Held(f) \cup {h.at}
    BY <1>2, <1>9, <2>3 DEF Held
  <2> QED
    BY <1>2, <1>3, <1>9, <2>4
<1>12. /\ queue \in Seq(QueueMessage) /\ Len(queue) \in Nat
  BY LenProperties DEF ContainersInv, ContainersTypeOK
<1>13. what \in {"dispatch", "wait", "fire"} =>
         /\ m \in QueueMessage /\ MessageOK(m) /\ m.d.class # "MemberSp"
         /\ m.timer = (IF what = "fire" THEN s ELSE Empty)
         /\ m.from = (IF what = "wait" THEN t ELSE "async")
  <2> SUFFICES ASSUME what \in {"dispatch", "wait", "fire"}
               PROVE  /\ m \in QueueMessage /\ MessageOK(m) /\ m.d.class # "MemberSp"
                      /\ m.timer = (IF what = "fire" THEN s ELSE Empty)
                      /\ m.from = (IF what = "wait" THEN t ELSE "async")
    OBVIOUS
  <2>1. d \in BoundDelegate /\ Sound(d) /\ d.class \notin RemoteClasses /\ d.class # "MemberSp"
    BY <1>7
  <2>2. Clone(d) = AnyClone(d)
    BY <2>1, LocalClone
  <2>3. Clone(d) \in BoundDelegate /\ Sound(Clone(d)) /\ Clone(d).class # "MemberSp"
    BY <2>1, <2>2, CloneLemma DEF SameTarget, Sound
  <2>4. Empty \in Slot
    BY DEF Slot
  <2>5. CASE what = "fire"
    <3>1. m = [d |-> d, from |-> "async", timer |-> s]
      BY <2>5 DEF Message
    <3>2. s # Empty /\ SameTarget(stored[s], d)
      BY <1>7, <2>5 DEF SameTarget, d
    <3> QED
      BY <1>3, <2>1, <2>5, <3>1, <3>2 DEF QueueMessage, MessageOK
  <2>6. CASE what = "wait"
    <3>1. m = [d |-> Clone(d), from |-> t, timer |-> Empty]
      BY <2>6 DEF Message
    <3> QED
      BY <2>3, <2>4, <2>6, <3>1 DEF QueueMessage, MessageOK
  <2>7. CASE what = "dispatch"
    <3>1. m = [d |-> Clone(d), from |-> "async", timer |-> Empty]
      BY <2>7 DEF Message
    <3> QED
      BY <2>3, <2>4, <2>7, <3>1 DEF QueueMessage, MessageOK
  <2> QED
    BY <2>5, <2>6, <2>7
<1> HIDE DEF m
<1>14. \/ queue' = queue /\ ~sent
       \/ /\ what \in {"dispatch", "wait", "fire"} /\ queue' = Append(queue, m) /\ sent
          /\ queue' \in Seq(QueueMessage) /\ Len(queue') = Len(queue) + 1
          /\ queue'[Len(queue) + 1] = m
          /\ \A i \in 1 .. Len(queue) : queue'[i] = queue[i]
  <2>1. CASE queue' = queue
    BY <2>1
  <2>2. CASE queue' # queue
    <3>1. what \in {"dispatch", "wait", "fire"} /\ queue' = Append(queue, m)
      BY <1>1, <2>2 DEF Dispatched
    <3> QED
      BY <1>12, <1>13, <2>2, <3>1, AppendProperties
  <2> QED
    BY <2>1, <2>2
<1>15. queue' \in Seq(QueueMessage) /\ \A i \in 1 .. Len(queue') : MessageOK(queue'[i])
  <2>1. CASE queue' = queue
    BY <1>12, <2>1, OldMessages
  <2>2. CASE queue' # queue
    <3>1. ASSUME NEW i \in 1 .. Len(queue') PROVE MessageOK(queue'[i])
      <4>1. i \in 1 .. Len(queue) \/ i = Len(queue) + 1
        BY <1>12, <1>14, <2>2
      <4> QED
        BY <1>13, <1>14, <2>2, <4>1, OldMessages
    <3> QED
      BY <1>14, <2>2, <3>1
  <2> QED
    BY <2>1, <2>2
<1>16. \A i \in 1 .. Len(queue) :
         queue[i].timer # Empty => \E j \in 1 .. Len(queue') : queue'[j].timer = queue[i].timer
  <2> TAKE i \in 1 .. Len(queue)
  <2>1. i \in 1 .. Len(queue') /\ queue'[i] = queue[i]
    BY <1>12, <1>14
  <2> QED
    BY <2>1
<1>17. \A x \in Referenced :
         /\ heap[x] \in BoundDelegate /\ SameTarget(heap[x], stored[x])
         /\ heap[x].gate => stored[x].gate \/ \E i \in 1 .. Len(queue') : queue'[i].timer = x
  <2> TAKE x \in Referenced
  <2>1. x \in Slots /\ stored[x] \in BoundDelegate
    BY OldGates
  <2>2. CASE ~ (what = "fire" /\ sent)
    BY <2>1, <2>2 DEF SameTarget
  <2>3. CASE what = "fire" /\ sent
    <3>1. /\ s \in Slots /\ d \in BoundDelegate
          /\ Len(queue) + 1 \in 1 .. Len(queue') /\ queue'[Len(queue) + 1].timer = s
      BY <1>4, <1>7, <1>12, <1>13, <1>14, <2>3
    <3>2. stored \in [Slots -> BoundDelegate \cup {Null}]
      BY DEF ContainersInv, ContainersTypeOK
    <3>3. heap[x] = IF x = s THEN [d EXCEPT !.gate = TRUE] ELSE stored[x]
      BY <2>1, <2>3, <3>1, <3>2 DEF d
    <3>4. [d EXCEPT !.gate = TRUE] \in BoundDelegate /\ SameTarget([d EXCEPT !.gate = TRUE], d)
      BY <3>1, GateLemma
    <3> HIDE DEF heap
    <3>5. CASE x = s
      BY <3>1, <3>3, <3>4, <3>5 DEF d
    <3>6. CASE x # s
      BY <2>1, <3>3, <3>6 DEF SameTarget
    <3> QED
      BY <3>5, <3>6
  <2> QED
    BY <2>2, <2>3
<1> HIDE DEF heap
<1>18. /\ h.over = Head(stack[t]).over /\ Head(stack[t]).over # "message"
       /\ h.over = "list" => h.pos <= Len(m_delegates) + 1
       /\ Container = "UnicastDelegate" => ~ (h.pos <= Len(h.snapshot))
  BY <1>2, <1>3, <1>9 DEF f
<1>19. /\ ContainersTypeOK' /\ HeapInv' /\ StackInv' /\ GateOpens' /\ WalkInv' /\ UnicastInv'
       /\ \A i \in 1 .. Len(queue') : MessageOK(queue[i])'
  BY <1>1, <1>2, <1>9, <1>10, <1>11, <1>15, <1>16, <1>17, <1>18, ReplaceStep
<1>20. /\ \A x \in Threads \ {t} : stack'[x] = stack[x]
       /\ Head(stack'[t]) = h /\ stack'[t] # <<>>
  BY <1>1, <1>2, <1>9, ReplaceLemma DEF ContainersInv, ContainersTypeOK, StackType
<1>21. QueueInv'
  <2>1. CASE queue' = queue
    BY <1>2, <1>19, <1>20, <2>1, QueueKept DEF f
  <2>2. CASE queue' # queue
    <3>1. "async" \notin Threads
      BY DEF Threads
    <3>2. \A i \in 1 .. Len(queue) : queue[i].from \in Threads => queue[i].from # t
      BY <1>2, OldMessages DEF f
    <3>3. m.from \in Threads => what = "wait" /\ m.from = t /\ h.waits = TRUE
      BY <1>9, <1>13, <1>14, <2>2, <3>1
    <3>4. \A i \in 1 .. Len(queue') : i \in 1 .. Len(queue) \/ i = Len(queue) + 1
      BY <1>12, <1>14, <2>2
    <3>5. ASSUME NEW i \in 1 .. Len(queue')
          PROVE  /\ queue'[i].d.class # "MemberSp"
                 /\ queue'[i].timer # Empty => queue'[i].from = "async"
                 /\ queue'[i].from \in Threads =>
                      stack'[queue'[i].from] # <<>> /\ Head(stack'[queue'[i].from]).waits
      <4>1. CASE i \in 1 .. Len(queue)
        <5>1. queue'[i] = queue[i]
          BY <1>14, <2>2, <4>1
        <5>2. /\ queue[i].d.class # "MemberSp" /\ (queue[i].timer # Empty => queue[i].from = "async")
              /\ queue[i].from \in Threads =>
                   stack[queue[i].from] # <<>> /\ Head(stack[queue[i].from]).waits
          BY <4>1, OldMessages
        <5> QED
          BY <1>20, <3>2, <4>1, <5>1, <5>2
      <4>2. CASE i = Len(queue) + 1
        BY <1>13, <1>14, <1>20, <2>2, <3>3, <4>2
      <4> QED
        BY <3>4, <4>1, <4>2
    <3>6. ASSUME NEW i \in 1 .. Len(queue'), NEW j \in 1 .. Len(queue'),
                 queue'[i].from \in Threads, queue'[i].from = queue'[j].from
          PROVE  i = j
      <4>1. CASE i \in 1 .. Len(queue) /\ j \in 1 .. Len(queue)
        BY <1>14, <2>2, <3>6, <4>1 DEF ContainersInv, QueueInv
      <4>2. CASE i = Len(queue) + 1 /\ j \in 1 .. Len(queue)
        BY <1>14, <2>2, <3>2, <3>3, <3>6, <4>2
      <4>3. CASE j = Len(queue) + 1 /\ i \in 1 .. Len(queue)
        BY <1>14, <2>2, <3>2, <3>3, <3>6, <4>3
      <4> QED
        BY <3>4, <4>1, <4>2, <4>3
    <3> QED
      BY <1>19, <3>5, <3>6 DEF QueueInv
  <2> QED
    BY <2>1, <2>2
<1> QED
  BY <1>19, <1>21 DEF ContainersInv

\* What is left in the queue when its first message is taken out.
LEMMA TakenQueue ==
  ASSUME ContainersInv, queue # <<>>, queue' = Tail(queue)
  PROVE  /\ Head(queue) = queue[1] /\ 1 \in 1 .. Len(queue) /\ Len(queue) \in Nat \ {0}
         /\ queue' \in Seq(QueueMessage) /\ Len(queue') = Len(queue) - 1
         /\ \A i \in 1 .. Len(queue') :
              i + 1 \in 1 .. Len(queue) /\ i + 1 # 1 /\ queue'[i] = queue[i + 1]
         /\ \A i \in 1 .. Len(queue) :
              i # 1 => i - 1 \in 1 .. Len(queue') /\ queue'[i - 1] = queue[i]
         /\ \A i \in 1 .. Len(queue') : MessageOK(queue'[i])
<1>1. queue \in Seq(QueueMessage)
  BY DEF ContainersInv, ContainersTypeOK
<1>2. /\ Head(queue) = queue[1] /\ 1 \in 1 .. Len(queue) /\ Len(queue) \in Nat \ {0}
      /\ queue' \in Seq(QueueMessage) /\ Len(queue') = Len(queue) - 1
      /\ \A i \in 1 .. Len(queue) - 1 : i + 1 \in 1 .. Len(queue) /\ queue'[i] = queue[i + 1]
  BY <1>1, UnconsLemma
<1>3. ASSUME NEW i \in 1 .. Len(queue), i # 1
      PROVE  i - 1 \in 1 .. Len(queue') /\ queue'[i - 1] = queue[i]
  <2>1. i - 1 \in 1 .. Len(queue) - 1 /\ (i - 1) + 1 = i
    BY <1>2, <1>3
  <2> QED
    BY <1>2, <2>1
<1>4. ASSUME NEW i \in 1 .. Len(queue')
      PROVE  i + 1 \in 1 .. Len(queue) /\ i + 1 # 1 /\ queue'[i] = queue[i + 1]
  BY <1>2
<1>5. \A i \in 1 .. Len(queue') : MessageOK(queue'[i])
  BY <1>4, OldMessages
<1> QED
  BY <1>2, <1>3, <1>4, <1>5

\* The messages that are left wait for the callers they waited for.
LEMMA TakenMessages ==
  ASSUME ContainersInv, queue # <<>>, queue' = Tail(queue),
         \A i \in 1 .. Len(queue') : MessageOK(queue[i])',
         \A x \in Threads : x # queue[1].from /\ stack[x] # <<>> => stack'[x] = stack[x]
  PROVE  QueueInv'
<1>1. /\ 1 \in 1 .. Len(queue)
      /\ \A i \in 1 .. Len(queue') :
           i + 1 \in 1 .. Len(queue) /\ i + 1 # 1 /\ queue'[i] = queue[i + 1]
  BY TakenQueue
<1>2. QueueInv
  BY DEF ContainersInv
<1>3. ASSUME NEW i \in 1 .. Len(queue')
      PROVE  /\ queue'[i].d.class # "MemberSp"
             /\ queue'[i].timer # Empty => queue'[i].from = "async"
             /\ queue'[i].from \in Threads =>
                  stack'[queue'[i].from] # <<>> /\ Head(stack'[queue'[i].from]).waits
  <2>1. /\ i + 1 \in 1 .. Len(queue) /\ i + 1 # 1 /\ queue'[i] = queue[i + 1]
    BY <1>1
  <2>2. PICK m : m = queue'[i]
    OBVIOUS
  <2>3. /\ m.d.class # "MemberSp" /\ (m.timer # Empty => m.from = "async")
        /\ m.from \in Threads => stack[m.from] # <<>> /\ Head(stack[m.from]).waits
    BY <2>1, <2>2, OldMessages
  <2>4. m.from \in Threads => m.from # queue[1].from
    BY <1>1, <1>2, <2>1, <2>2 DEF QueueInv
  <2> QED
    BY <2>2, <2>3, <2>4
<1>4. ASSUME NEW i \in 1 .. Len(queue'), NEW j \in 1 .. Len(queue'),
             queue'[i].from \in Threads, queue'[i].from = queue'[j].from
      PROVE  i = j
  <2>1. /\ i + 1 \in 1 .. Len(queue) /\ queue'[i] = queue[i + 1]
        /\ j + 1 \in 1 .. Len(queue) /\ queue'[j] = queue[j + 1]
    BY <1>1
  <2>2. i + 1 = j + 1
    BY <1>2, <1>4, <2>1 DEF QueueInv
  <2> QED
    BY <2>2
<1> QED
  BY <1>3, <1>4 DEF QueueInv

LEMMA TakeInv ==
  ASSUME ContainersInv, Take
  PROVE  ContainersInv'
<1> DEFINE m == Head(queue)
           runs == Invoke(m.d, dead) = "run"
<1>1. /\ stack["worker"] = <<>> /\ queue # <<>> /\ queue' = Tail(queue)
      /\ UNCHANGED <<m_delegates, other, broadcastCount, cleanup, connections, released>>
      /\ IF m.from # "gone" /\ (runs \/ m.timer # Empty)
         THEN Push("worker", MessageFrame(m, IF runs THEN m.d ELSE Null))
         ELSE stack' = Wakes(m.from)
      /\ Settle(stored)
  BY DEF Take, lists
<1>2. /\ m = queue[1] /\ 1 \in 1 .. Len(queue) /\ Len(queue) \in Nat \ {0}
      /\ queue' \in Seq(QueueMessage) /\ Len(queue') = Len(queue) - 1
      /\ \A i \in 1 .. Len(queue) :
           i # 1 => i - 1 \in 1 .. Len(queue') /\ queue'[i - 1] = queue[i]
      /\ \A i \in 1 .. Len(queue') : MessageOK(queue'[i])
  BY <1>1, TakenQueue
<1>3. /\ m \in QueueMessage /\ m.d \in BoundDelegate /\ MessageOK(m) /\ m.d.class # "MemberSp"
      /\ m.timer # Empty => m.from = "async"
      /\ m.from \in Threads => stack[m.from] # <<>> /\ Head(stack[m.from]).waits
  BY <1>2, OldMessages
<1>4. runs /\ m.d.class \in Weak => m.d.object \notin dead
  BY <1>3, InvokeLemma
<1> HIDE DEF m, runs
<1>5. "worker" \in Threads /\ "async" \notin Threads /\ "gone" \notin Threads
  BY DEF Threads
<1>6. StackType /\ WalkInv /\ UnicastInv
  BY DEF ContainersInv, ContainersTypeOK, StackType
<1>7. /\ m_delegates' \in Seq(Slot) /\ Range(m_delegates') \subseteq Range(m_delegates)
      /\ cleanup' \in BOOLEAN /\ broadcastCount' \in Nat
  BY <1>1, EntriesKept
<1>8. \A s \in Referenced : stored[s] \in BoundDelegate /\ SameTarget(stored[s], stored[s])
  BY OldGates DEF SameTarget
<1>9. \A i \in 1 .. Len(queue) :
        queue[i].timer # Empty => \/ \E j \in 1 .. Len(queue') : queue'[j].timer = queue[i].timer
                                  \/ m.timer # Empty /\ m.timer = queue[i].timer
  BY <1>2
<1>10. CASE m.from # "gone" /\ (runs \/ m.timer # Empty)
  <2> DEFINE d == IF runs THEN m.d ELSE Null
             f == MessageFrame(m, d)
  <2>1. Push("worker", f)
    BY <1>1, <1>10
  <2>2. d \in BoundDelegate \cup {Null}
    BY <1>3
  <2> HIDE DEF d
  <2>3. /\ f \in Frame /\ f.over = "message" /\ f.at = m.timer /\ f.runs = d /\ f.waits = FALSE
    <3>1. /\ <<>> \in Seq(Slot) /\ 1 \in Nat \ {0} /\ m.timer \in Slot
          /\ Empty \in Slot /\ Null \in BoundDelegate \cup {Null}
      BY <1>3, EmptySeq DEF QueueMessage, Slot
    <3>2. LiveFrame \in Frame /\ LiveFrame.waits = FALSE
      BY <3>1 DEF Frame, LiveFrame
    <3>3. \A l \in Frame :
            LET k == [l EXCEPT !.over = "message", !.at = m.timer, !.runs = d]
            IN  /\ k \in Frame /\ k.over = "message" /\ k.at = m.timer /\ k.runs = d
                /\ k.waits = l.waits
      BY <2>2, <3>1 DEF Frame
    <3> QED
      BY <3>2, <3>3 DEF MessageFrame
  <2> HIDE DEF f
  <2>4. FrameOK("worker", f) /\ Held(f) = {}
    BY <1>3, <1>4, <2>3 DEF FrameOK, Held, MessageOK, d
  <2>5. /\ StackType' /\ Len(stack'["worker"]) = Len(stack["worker"]) + 1
        /\ stack'["worker"][1] = f
        /\ \A i \in 1 .. Len(stack'["worker"]) :
             i # 1 => i - 1 \in 1 .. Len(stack["worker"])
                      /\ stack'["worker"][i] = stack["worker"][i - 1]
        /\ \A x \in Threads \ {"worker"} : stack'[x] = stack[x]
        /\ Frames' = Frames \cup {f}
    BY <1>5, <1>6, <2>1, <2>3, PushLemma
  <2>6. \A x \in Threads : \A i \in 1 .. Len(stack'[x]) :
          \/ \E j \in 1 .. Len(stack[x]) : stack'[x][i] = stack[x][j]
          \/ FrameOK(x, stack'[x][i]) /\ Held(stack'[x][i]) \subseteq Referenced \cup {Empty}
    <3> TAKE x \in Threads
    <3> TAKE i \in 1 .. Len(stack'[x])
    <3>1. CASE x = "worker" /\ i = 1
      BY <2>4, <2>5, <3>1
    <3>2. CASE x = "worker" /\ i # 1
      BY <2>5, <3>2
    <3>3. CASE x # "worker"
      BY <2>5, <3>3
    <3> QED
      BY <3>1, <3>2, <3>3
  <2>7. \A s \in Referenced :
          stored[s].gate => \/ \E i \in 1 .. Len(queue') : queue'[i].timer = s
                            \/ \E g \in Frames' : g.over = "message" /\ g.at = s
    <3> TAKE s \in Referenced
    <3>1. s # Empty
      BY OldGates, BoundsAssumption
    <3>2. f \in Frames' /\ f.over = "message" /\ f.at = m.timer
      BY <2>3, <2>5
    <3>3. ASSUME NEW i \in 1 .. Len(queue), queue[i].timer = s
          PROVE  \/ \E j \in 1 .. Len(queue') : queue'[j].timer = s
                 \/ \E g \in Frames' : g.over = "message" /\ g.at = s
      BY <1>9, <3>1, <3>2, <3>3
    <3>4. \A g \in Frames : g \in Frames'
      BY <2>5
    <3> QED
      BY <3>3, <3>4, OldGates
  <2>8. /\ ContainersTypeOK' /\ HeapInv' /\ StackInv' /\ GateOpens'
        /\ \A i \in 1 .. Len(queue') : MessageOK(queue[i])'
        /\ Container' = Container
    BY <1>1, <1>2, <1>7, <1>8, <2>5, <2>6, <2>7, StackStep
  <2>9. \A x \in Threads : stack[x] # <<>> => stack'[x] = stack[x]
    BY <1>1, <2>5
  <2>10. QueueInv'
    BY <1>1, <2>8, <2>9, TakenMessages
  <2>11. stack'["main"] = stack["main"]
    BY <2>5 DEF Threads
  <2>12. WalkInv' /\ UnicastInv'
    BY <1>1, <2>8, <2>11, WalksKept
  <2> QED
    BY <2>8, <2>10, <2>12 DEF ContainersInv
<1>11. CASE ~ (m.from # "gone" /\ (runs \/ m.timer # Empty))
  <2>1. stack' = Wakes(m.from) /\ m.timer = Empty
    BY <1>1, <1>3, <1>11
  <2>2. \A i \in 1 .. Len(queue) :
          queue[i].timer # Empty => \E j \in 1 .. Len(queue') : queue'[j].timer = queue[i].timer
    BY <1>9, <2>1
  <2>3. CASE m.from \in Threads
    <3> DEFINE t == m.from
               f == Head(stack[t])
               g == [f EXCEPT !.waits = FALSE, !.at = Empty]
    <3>1. stack[t] # <<>> /\ f.waits /\ t \in Threads
      BY <1>3, <2>3
    <3>2. Replace(t, g)
      BY <2>1, <3>1 DEF Wakes, Replace
    <3>3. /\ f \in Frame /\ FrameOK(t, f) /\ Held(f) \subseteq Referenced \cup {Empty}
          /\ f = stack[t][1] /\ 1 \in 1 .. Len(stack[t])
      BY <3>1, HeadFrame
    <3>4. f.over # "message" /\ f.runs = Null
      BY <3>1, <3>3 DEF FrameOK
    <3>5. Container = "UnicastDelegate" => ~ (f.pos <= Len(f.snapshot))
      BY <3>1, <3>4, BusyHead
    <3>6. f.over = "list" => f.pos <= Len(m_delegates) + 1
      BY <1>6, <3>1, <3>3 DEF WalkInv, Threads, FrameOK
    <3> HIDE DEF f, t
    <3>7. /\ g \in Frame /\ g.over = f.over /\ g.snapshot = f.snapshot /\ g.pos = f.pos
          /\ g.at = Empty /\ g.runs = Null /\ g.waits = FALSE
      BY <3>3, <3>4 DEF Frame, Slot
    <3> HIDE DEF g
    <3>8. FrameOK(t, g) /\ Held(g) \subseteq Referenced \cup {Empty}
      <4>1. f.pos <= g.pos
        BY <3>3, <3>7 DEF Frame
      <4> QED
        BY <3>1, <3>3, <3>4, <3>7, <4>1, QuietFrame
    <3>9. /\ g.over = Head(stack[t]).over /\ Head(stack[t]).over # "message"
          /\ g.over = "list" => g.pos <= Len(m_delegates) + 1
          /\ Container = "UnicastDelegate" => ~ (g.pos <= Len(g.snapshot))
      BY <3>4, <3>5, <3>6, <3>7 DEF f
    <3>10. /\ ContainersTypeOK' /\ HeapInv' /\ StackInv' /\ GateOpens' /\ WalkInv' /\ UnicastInv'
           /\ \A i \in 1 .. Len(queue') : MessageOK(queue[i])'
      BY <1>1, <1>2, <1>8, <2>2, <3>1, <3>2, <3>7, <3>8, <3>9, ReplaceStep
    <3>11. \A x \in Threads : x # queue[1].from /\ stack[x] # <<>> => stack'[x] = stack[x]
      BY <1>2, <1>6, <3>1, <3>2, <3>7, ReplaceLemma DEF t
    <3>12. QueueInv'
      BY <1>1, <3>10, <3>11, TakenMessages
    <3> QED
      BY <3>10, <3>12 DEF ContainersInv
  <2>4. CASE m.from \notin Threads
    <3>1. stack' = stack /\ Frames' = Frames
      BY <2>1, <2>4 DEF Wakes, Frames
    <3>2. StackType'
      BY <1>6, <3>1 DEF StackType
    <3>3. \A x \in Threads : \A i \in 1 .. Len(stack'[x]) :
            \/ \E j \in 1 .. Len(stack[x]) : stack'[x][i] = stack[x][j]
            \/ FrameOK(x, stack'[x][i]) /\ Held(stack'[x][i]) \subseteq Referenced \cup {Empty}
      BY <3>1
    <3>4. \A s \in Referenced :
            stored[s].gate => \/ \E i \in 1 .. Len(queue') : queue'[i].timer = s
                              \/ \E g \in Frames' : g.over = "message" /\ g.at = s
      <4> TAKE s \in Referenced
      <4>1. s # Empty
        BY OldGates, BoundsAssumption
      <4> QED
        BY <2>2, <3>1, <4>1, OldGates
    <3>5. /\ ContainersTypeOK' /\ HeapInv' /\ StackInv' /\ GateOpens'
          /\ \A i \in 1 .. Len(queue') : MessageOK(queue[i])'
          /\ Container' = Container
      BY <1>1, <1>2, <1>7, <1>8, <3>2, <3>3, <3>4, StackStep
    <3>6. QueueInv'
      BY <1>1, <3>1, <3>5, TakenMessages
    <3>7. WalkInv' /\ UnicastInv'
      BY <1>1, <3>1, <3>5, WalksKept
    <3> QED
      BY <3>5, <3>6, <3>7 DEF ContainersInv
  <2> QED
    BY <2>3, <2>4
<1> QED
  BY <1>10, <1>11

\* The stack of the thread that the message's caller may be on, when the message is done.
LEMMA WokenLemma ==
  ASSUME ContainersInv, InvokeReturns
  PROVE  /\ stack'["main"] \in Seq(Frame) /\ Len(stack'["main"]) = Len(stack["main"])
         /\ \A i \in 1 .. Len(stack'["main"]) :
              \/ stack'["main"][i] = stack["main"][i]
              \/ LET g == stack'["main"][i]
                 IN  /\ FrameOK("main", g) /\ Held(g) \subseteq Referenced \cup {Empty}
                     /\ g.over = "list" => g.pos <= Len(m_delegates) + 1
                     /\ Container = "UnicastDelegate" => ~ (g.pos <= Len(g.snapshot))
         /\ (\E m \in Range(queue) : m.from = "main") => stack'["main"] = stack["main"]
<1> DEFINE q == stack["main"]
           h == Head(q)
           g == [h EXCEPT !.waits = FALSE, !.at = Empty]
           wakes == q # <<>> /\ h.waits /\ ~ \E m \in Range(queue) : m.from = "main"
<1>1. "main" \in Threads /\ "main" # "worker" /\ q \in Seq(Frame)
  BY DEF Threads, ContainersInv, ContainersTypeOK
<1>2. stack'["main"] = IF wakes THEN <<g>> \o Tail(q) ELSE q
  BY <1>1 DEF InvokeReturns
<1>3. CASE ~wakes
  BY <1>1, <1>2, <1>3
<1>4. CASE wakes
  <2>1. q # <<>> /\ h.waits
    BY <1>4
  <2>2. /\ h \in Frame /\ FrameOK("main", h) /\ Held(h) \subseteq Referenced \cup {Empty}
        /\ h = q[1] /\ 1 \in 1 .. Len(q)
    BY <1>1, <2>1, HeadFrame
  <2>3. h.over # "message" /\ h.runs = Null
    BY <2>1, <2>2 DEF FrameOK
  <2>4. Container = "UnicastDelegate" => ~ (h.pos <= Len(h.snapshot))
    BY <1>1, <2>1, <2>3, BusyHead
  <2>5. h.over = "list" => h.pos <= Len(m_delegates) + 1
    BY <2>2 DEF ContainersInv, WalkInv
  <2>6. stack'["main"] = <<g>> \o Tail(q) /\ ~ \E m \in Range(queue) : m.from = "main"
    BY <1>2, <1>4
  <2> HIDE DEF h
  <2>7. /\ g \in Frame /\ g.over = h.over /\ g.snapshot = h.snapshot /\ g.pos = h.pos
        /\ g.at = Empty /\ g.runs = Null /\ g.waits = FALSE
    BY <2>2, <2>3 DEF Frame, Slot
  <2> HIDE DEF g
  <2>8. FrameOK("main", g) /\ Held(g) \subseteq Referenced \cup {Empty}
    <3>1. h.pos <= g.pos
      BY <2>2, <2>7 DEF Frame
    <3> QED
      BY <1>1, <2>2, <2>3, <2>7, <3>1, QuietFrame
  <2> DEFINE p == Tail(q)
             r == <<g>> \o p
  <2>9. /\ Len(q) \in Nat \ {0} /\ p \in Seq(Frame) /\ Len(p) = Len(q) - 1
        /\ \A i \in 1 .. Len(q) - 1 : i + 1 \in 1 .. Len(q) /\ p[i] = q[i + 1]
    BY <1>1, <2>1, UnconsLemma
  <2>10. stack'["main"] = r
    BY <2>6
  <2> HIDE DEF p, q
  <2>11. /\ r \in Seq(Frame) /\ Len(r) = Len(p) + 1 /\ r[1] = g
         /\ \A i \in 1 .. Len(p) + 1 : i # 1 => i - 1 \in 1 .. Len(p) /\ r[i] = p[i - 1]
    BY <2>7, <2>9, ConsLemma
  <2> HIDE DEF r
  <2>12. Len(r) = Len(q)
    BY <2>9, <2>11
  <2>13. ASSUME NEW i \in 1 .. Len(r), i # 1 PROVE r[i] = q[i]
    <3>1. i - 1 \in 1 .. Len(p) /\ r[i] = p[i - 1] /\ i - 1 \in 1 .. Len(q) - 1 /\ (i - 1) + 1 = i
      BY <2>9, <2>11, <2>13
    <3> QED
      BY <2>9, <3>1
  <2>14. ASSUME NEW i \in 1 .. Len(r) PROVE r[i] = q[i] \/ r[i] = g
    BY <2>11, <2>13
  <2>15. /\ g.over = "list" => g.pos <= Len(m_delegates) + 1
         /\ Container = "UnicastDelegate" => ~ (g.pos <= Len(g.snapshot))
    BY <2>4, <2>5, <2>7
  <2>16. /\ stack'["main"] \in Seq(Frame) /\ Len(stack'["main"]) = Len(q)
         /\ \A i \in 1 .. Len(stack'["main"]) : stack'["main"][i] = q[i] \/ stack'["main"][i] = g
    BY <2>10, <2>11, <2>12, <2>14
  <2> QED
    BY <2>6, <2>8, <2>15, <2>16 DEF q
<1> QED
  BY <1>3, <1>4

LEMMA InvokeReturnsInv ==
  ASSUME ContainersInv, InvokeReturns
  PROVE  ContainersInv'
<1> DEFINE f == stack["worker"][1]
           a == f.at
           heap == IF a = Empty THEN stored ELSE [stored EXCEPT ![a].gate = FALSE]
<1>1. /\ ~Dangling /\ Len(stack["worker"]) = 1 /\ f.over = "message"
      /\ UNCHANGED <<m_delegates, other, broadcastCount, cleanup, connections, queue, released>>
      /\ Settle(heap)
  BY DEF InvokeReturns, lists
<1>2. /\ stack' = [t \in Threads |-> stack'[t]]
      /\ stack'["worker"] = <<>> /\ "worker" \in Threads /\ "main" \in Threads
      /\ \A t \in Threads : t = "main" \/ t = "worker"
  BY DEF InvokeReturns, Threads
<1>3. /\ stack'["main"] \in Seq(Frame) /\ Len(stack'["main"]) = Len(stack["main"])
      /\ \A i \in 1 .. Len(stack'["main"]) :
           \/ stack'["main"][i] = stack["main"][i]
           \/ LET g == stack'["main"][i]
              IN  /\ FrameOK("main", g) /\ Held(g) \subseteq Referenced \cup {Empty}
                  /\ g.over = "list" => g.pos <= Len(m_delegates) + 1
                  /\ Container = "UnicastDelegate" => ~ (g.pos <= Len(g.snapshot))
      /\ (\E m \in Range(queue) : m.from = "main") => stack'["main"] = stack["main"]
  BY WokenLemma
<1>4. 1 \in 1 .. Len(stack["worker"]) /\ \A i \in 1 .. Len(stack["worker"]) : i = 1
  BY <1>1
<1>5. f \in Frames /\ f \in Frame /\ FrameOK("worker", f)
  BY <1>2, <1>4, OldFrames
<1> HIDE DEF f
<1>6. a \in Slot /\ (a # Empty => stored[a] # Null /\ a \in Slots /\ a \in Referenced)
  <2>1. a \in Slot
    BY <1>5 DEF Frame
  <2>2. a # Empty => stored[a] # Null /\ a \in Slots
    BY <1>1, <1>5, <2>1 DEF Dangling, Slot
  <2> QED
    BY <2>1, <2>2 DEF ContainersInv, HeapInv
<1> HIDE DEF a
<1>7. ASSUME NEW s \in Referenced
      PROVE  /\ heap[s] \in BoundDelegate /\ SameTarget(heap[s], stored[s])
             /\ heap[s].gate => s # a /\ stored[s].gate
  <2>1. /\ s \in Slots /\ stored[s] \in BoundDelegate
        /\ stored \in [Slots -> BoundDelegate \cup {Null}] /\ Empty \notin Slots
    BY OldGates, BoundsAssumption DEF ContainersInv, ContainersTypeOK
  <2>2. CASE s = a
    <3>1. heap[s] = [stored[s] EXCEPT !.gate = FALSE]
      BY <2>1, <2>2
    <3>2. /\ [stored[s] EXCEPT !.gate = FALSE] \in BoundDelegate
          /\ SameTarget([stored[s] EXCEPT !.gate = FALSE], stored[s])
          /\ [stored[s] EXCEPT !.gate = FALSE].gate = FALSE
      BY <2>1, GateLemma
    <3> HIDE DEF heap
    <3> QED
      BY <3>1, <3>2
  <2>3. CASE s # a
    <3>1. heap[s] = stored[s]
      BY <2>1, <2>3
    <3> HIDE DEF heap
    <3> QED
      BY <2>1, <2>3, <3>1 DEF SameTarget
  <2> QED
    BY <2>2, <2>3
<1> HIDE DEF heap
<1>8. StackType'
  BY <1>2, <1>3, EmptySeq DEF StackType
<1>9. \A t \in Threads : \A i \in 1 .. Len(stack'[t]) :
        \/ \E j \in 1 .. Len(stack[t]) : stack'[t][i] = stack[t][j]
        \/ FrameOK(t, stack'[t][i]) /\ Held(stack'[t][i]) \subseteq Referenced \cup {Empty}
  <2> TAKE t \in Threads
  <2> TAKE i \in 1 .. Len(stack'[t])
  <2>1. CASE t = "main"
    BY <1>3, <2>1
  <2>2. CASE t = "worker"
    BY <1>2, <2>2, EmptySeq
  <2> QED
    BY <1>2, <2>1, <2>2
<1>10. /\ queue' \in Seq(QueueMessage) /\ \A i \in 1 .. Len(queue') : MessageOK(queue'[i])
  BY <1>1 DEF ContainersInv, ContainersTypeOK, QueueInv
<1>11. ASSUME NEW s \in Referenced, heap[s].gate
       PROVE  \/ \E i \in 1 .. Len(queue') : queue'[i].timer = s
              \/ \E g \in Frames' : g.over = "message" /\ g.at = s
  <2>1. s # a /\ stored[s].gate
    BY <1>7, <1>11
  <2>2. ASSUME NEW g \in Frames, g.over = "message", g.at = s
        PROVE  FALSE
    <3>1. PICK t \in Threads : \E i \in 1 .. Len(stack[t]) : g = stack[t][i]
      BY FramesLemma DEF ContainersInv
    <3>2. PICK i \in 1 .. Len(stack[t]) : g = stack[t][i]
      BY <3>1
    <3>3. t = "worker"
      BY <2>2, <3>2, OldFrames DEF FrameOK
    <3>4. g = f
      BY <1>4, <3>2, <3>3 DEF f
    <3> QED
      BY <2>1, <2>2, <3>4 DEF a
  <2> QED
    BY <1>1, <2>1, <2>2, OldGates
<1>12. /\ m_delegates' \in Seq(Slot) /\ Range(m_delegates') \subseteq Range(m_delegates)
       /\ cleanup' \in BOOLEAN /\ broadcastCount' \in Nat
  BY <1>1, EntriesKept
<1>13. /\ ContainersTypeOK' /\ HeapInv' /\ StackInv' /\ GateOpens'
       /\ \A i \in 1 .. Len(queue') : MessageOK(queue[i])'
       /\ Container' = Container
  BY <1>1, <1>7, <1>8, <1>9, <1>10, <1>11, <1>12, StackStep
<1>14. QueueInv'
  <2>1. ASSUME NEW i \in 1 .. Len(queue')
        PROVE  /\ queue'[i].d.class # "MemberSp"
               /\ queue'[i].timer # Empty => queue'[i].from = "async"
               /\ queue'[i].from \in Threads =>
                    stack'[queue'[i].from] # <<>> /\ Head(stack'[queue'[i].from]).waits
    <3>1. queue'[i] = queue[i] /\ i \in 1 .. Len(queue)
      BY <1>1
    <3>2. /\ queue[i].d.class # "MemberSp" /\ (queue[i].timer # Empty => queue[i].from = "async")
          /\ queue[i].from \in Threads =>
               stack[queue[i].from] # <<>> /\ Head(stack[queue[i].from]).waits
      BY <3>1, OldMessages
    <3>3. queue[i].from # "worker"
      <4>1. Len(stack["worker"]) # 0 /\ stack["worker"] # <<>>
        BY <1>1, EmptySeq
      <4>2. Head(stack["worker"]) = f
        BY <1>2, <4>1, HeadFrame DEF f
      <4>3. ~f.waits
        BY <1>1, <1>5 DEF FrameOK
      <4> QED
        BY <1>2, <3>2, <4>2, <4>3
    <3>4. queue[i] \in Range(queue)
      BY <3>1, RangeIs DEF ContainersInv, ContainersTypeOK
    <3>5. queue[i].from = "main" => stack'["main"] = stack["main"]
      BY <1>3, <3>4
    <3> QED
      BY <1>2, <3>1, <3>2, <3>3, <3>5
  <2>2. \A i, j \in 1 .. Len(queue') :
          queue'[i].from \in Threads /\ queue'[i].from = queue'[j].from => i = j
    BY <1>1 DEF ContainersInv, QueueInv
  <2> QED
    BY <1>13, <2>1, <2>2 DEF QueueInv
<1>15. WalkInv' /\ UnicastInv'
  <2>1. \A i \in 1 .. Len(stack'["main"]) :
          \/ stack'["main"][i] = stack["main"][i]
          \/ /\ stack'["main"][i].over = "list" => stack'["main"][i].pos <= Len(m_delegates) + 1
             /\ Container = "UnicastDelegate" =>
                  ~ (stack'["main"][i].pos <= Len(stack'["main"][i].snapshot))
    BY <1>3
  <2> QED
    BY <1>1, <1>3, <1>13, <2>1, WalksKept
<1> QED
  BY <1>13, <1>14, <1>15 DEF ContainersInv

-----------------------------------------------------------------------------
(***************************************************************************)
(* Containers: the theorems.                                               *)
(***************************************************************************)
LEMMA ContainersStarts == ContainersInit => ContainersInv
<1> SUFFICES ASSUME ContainersInit PROVE ContainersInv
  OBVIOUS
<1>1. /\ setup \in Setups /\ stored = [s \in Slots |-> Null]
      /\ m_delegates = <<>> /\ other = <<>> /\ broadcastCount = 0 /\ cleanup = FALSE
      /\ connections = {} /\ stack = [t \in Threads |-> <<>>] /\ queue = <<>>
      /\ released = {} /\ dead = {}
  BY DEF ContainersInit
<1>2. /\ <<>> \in Seq(Slot) /\ <<>> \in Seq(Slots) /\ <<>> \in Seq(Frame)
      /\ <<>> \in Seq(QueueMessage) /\ Len(<<>>) = 0 /\ Range(<<>>) = {} /\ DOMAIN <<>> = {}
  BY EmptySeq DEF Range
<1>3. ContainersTypeOK
  BY <1>1, <1>2 DEF ContainersTypeOK
<1>4. Frames = {} /\ Entries = {}
  BY <1>1, <1>2 DEF Frames, Entries
<1>5. Referenced = {}
  BY <1>1, <1>4 DEF Referenced
<1>6. HeapInv
  BY <1>1, <1>5 DEF HeapInv
<1>7. /\ \A t \in Threads : stack[t] = <<>> /\ Len(stack[t]) = 0
      /\ stack["main"] = <<>> /\ Len(stack["main"]) = 0
  BY <1>1, <1>2 DEF Threads
<1>8. StackInv
  BY <1>7 DEF StackInv
<1>9. QueueInv
  BY <1>1, <1>2 DEF QueueInv
<1>10. WalkInv
  BY <1>1, <1>2, <1>7 DEF WalkInv
<1>11. UnicastInv
  BY <1>1, <1>2, <1>7 DEF UnicastInv
<1>12. GateOpens
  BY <1>1 DEF GateOpens
<1> QED
  BY <1>3, <1>6, <1>8, <1>9, <1>10, <1>11, <1>12 DEF ContainersInv

LEMMA ContainersStutter ==
  ASSUME ContainersInv, UNCHANGED containersVars
  PROVE  ContainersInv'
<1>1. UNCHANGED <<setup, stored, m_delegates, other, broadcastCount, cleanup, connections,
                  stack, queue, released, dead>>
  BY DEF containersVars, lists
<1>2. ContainersTypeOK' /\ WalkInv' /\ UnicastInv'
  BY <1>1 DEF ContainersInv, ContainersTypeOK, WalkInv, UnicastInv, Container
<1>3. Frames' = Frames /\ Entries' = Entries /\ Container' = Container
  BY <1>1 DEF Frames, Entries, Container
<1>4. \A f : Held(f)' = Held(f)
  BY <1>3 DEF Held
<1>5. Referenced' = Referenced
  BY <1>1, <1>3, <1>4 DEF Referenced
<1>6. HeapInv' /\ GateOpens'
  BY <1>1, <1>3, <1>5 DEF ContainersInv, HeapInv, GateOpens, Sound
<1>7. StackInv'
  BY <1>1, <1>3, <1>5 DEF ContainersInv, StackInv, FrameOK, Sound
<1>8. QueueInv'
  BY <1>1, <1>5 DEF ContainersInv, QueueInv, MessageOK, SameTarget, Sound
<1> QED
  BY <1>2, <1>6, <1>7, <1>8 DEF ContainersInv

LEMMA ContainersInvKept ==
  ContainersInv /\ [ContainersNext]_containersVars => ContainersInv'
<1> SUFFICES ASSUME ContainersInv, [ContainersNext]_containersVars PROVE ContainersInv'
  OBVIOUS
<1>1. ASSUME NEW t \in Threads, Modify(t) PROVE ContainersInv'
  BY <1>1, ModifyInv
<1>2. ASSUME NEW t \in Threads, Invocation(t) PROVE ContainersInv'
  <2>1. CASE Broadcast(t)
    BY <2>1, BroadcastInv
  <2>2. CASE CallNext(t)
    BY <2>2, CallNextInv
  <2>3. CASE TargetReturns(t)
    BY <2>3, TargetReturnsInv
  <2>4. CASE WaitTimesOut(t)
    BY <2>4, WaitTimesOutInv
  <2>5. CASE Leave(t)
    BY <2>5, LeaveInv
  <2> QED
    BY <1>2, <2>1, <2>2, <2>3, <2>4, <2>5 DEF Invocation
<1>3. ASSUME NEW o \in Objects, Release(o) PROVE ContainersInv'
  BY <1>3, ReleaseInv
<1>4. CASE Take
  BY <1>4, TakeInv
<1>5. CASE InvokeReturns
  BY <1>5, InvokeReturnsInv
<1>6. CASE UNCHANGED containersVars
  BY <1>6, ContainersStutter
<1> QED
  BY <1>1, <1>2, <1>3, <1>4, <1>5, <1>6 DEF ContainersNext

\* The inductive invariant holds in every reachable state: the heap, the lists, the two
\* threads' invocations and the worker's queue agree on which clones are owned, which
\* objects live and which gates are closed.
THEOREM ContainersInvariant == ContainersSpec => []ContainersInv
<1>1. ContainersInit => ContainersInv
  BY ContainersStarts
<1>2. ContainersInv /\ [ContainersNext]_containersVars => ContainersInv'
  BY ContainersInvKept
<1> QED
  BY <1>1, <1>2, PTL DEF ContainersSpec

LEMMA WalksFit == ContainersInv => ListFitsBroadcasts
<1> SUFFICES ASSUME ContainersInv PROVE ListFitsBroadcasts
  OBVIOUS
<1>1. /\ stack \in [Threads -> Seq(Frame)] /\ broadcastCount \in Nat /\ WalkInv
  BY DEF ContainersInv, ContainersTypeOK
<1>2. ASSUME NEW t \in Threads, NEW i \in DOMAIN stack[t], stack[t][i].over = "list"
      PROVE  stack[t][i].pos <= Len(m_delegates) + 1
  <2>1. i \in 1 .. Len(stack[t])
    BY <1>1, LenProperties
  <2>2. FrameOK(t, stack[t][i])
    BY <2>1, OldFrames
  <2>3. t = "main"
    BY <1>2, <2>2 DEF FrameOK
  <2> QED
    BY <1>1, <1>2, <2>1, <2>3 DEF WalkInv
<1>3. broadcastCount = 0 => Empty \notin Range(m_delegates)
  BY <1>1 DEF WalkInv
<1> QED
  BY <1>2, <1>3 DEF ListFitsBroadcasts

\* While targets change the list of a MulticastDelegate under any number of nested
\* broadcasts, no iterator leaves it, and the end of the outermost broadcast takes every
\* reset entry out.
THEOREM WalksStayInTheList == ContainersSpec => []ListFitsBroadcasts
BY ContainersInvariant, WalksFit, PTL

(***************************************************************************)
(* Containers: the entries of a list that is walked keep their places.     *)
(***************************************************************************)
PlacesKept ==
  \A i \in DOMAIN m_delegates : /\ i \in DOMAIN m_delegates'
                                /\ m_delegates'[i] \in {m_delegates[i], Empty}

LEMMA SamePlaces ==
  ASSUME UNCHANGED m_delegates
  PROVE  PlacesKept
BY DEF PlacesKept

\* Entries are only put behind a list whose entries are all there, or all reset.
LEMMA PlacesBefore ==
  ASSUME ContainersInv, NEW q \in Seq(Slot), NEW r \in Seq(Slots), m_delegates' = q \o r,
         Len(q) = Len(m_delegates),
         \A i \in 1 .. Len(q) : q[i] \in {m_delegates[i], Empty}
  PROVE  PlacesKept
<1>1. m_delegates \in Seq(Slot) /\ DOMAIN m_delegates = 1 .. Len(m_delegates)
  BY EntriesKept, LenProperties
<1>2. r \in Seq(Slot)
  BY SeqMonotonic DEF Slot
<1>3. Len(q) \in Nat /\ Len(r) \in Nat /\ q \o r \in Seq(Slot)
  BY <1>2, ConcatProperties, LenProperties
<1>4. /\ Len(q \o r) = Len(q) + Len(r)
      /\ \A i \in 1 .. Len(q) + Len(r) :
           (q \o r)[i] = IF i <= Len(q) THEN q[i] ELSE r[i - Len(q)]
  BY <1>2, ConcatProperties
<1>5. DOMAIN (q \o r) = 1 .. (Len(q) + Len(r))
  BY <1>3, <1>4, LenProperties
<1>6. ASSUME NEW i \in DOMAIN m_delegates
      PROVE  i \in DOMAIN m_delegates' /\ m_delegates'[i] \in {m_delegates[i], Empty}
  <2>1. i \in 1 .. Len(q) /\ i \in 1 .. (Len(q) + Len(r))
    BY <1>1, <1>3
  <2>2. i <= Len(q)
    BY <2>1
  <2> QED
    BY <1>4, <1>5, <2>1, <2>2
<1> QED
  BY <1>6 DEF PlacesKept

LEMMA ClearedPlaces ==
  ASSUME ContainersInv, broadcastCount > 0
  PROVE  /\ MulticastClear \in Seq(Slot) /\ Len(MulticastClear) = Len(m_delegates)
         /\ DOMAIN MulticastClear = DOMAIN m_delegates
         /\ \A i \in DOMAIN m_delegates : MulticastClear[i] = Empty
<1>1. MulticastClear = [i \in DOMAIN m_delegates |-> Empty]
  BY DEF MulticastClear
<1> QED
  BY <1>1, ClearLemma

LEMMA RemovePlaces ==
  ASSUME ContainersInv, NEW d, MulticastRemove(d), broadcastCount > 0
  PROVE  PlacesKept
<1>1. PICK it : m_delegates' = Erased(it)
  BY DEF MulticastRemove
<1>2. m_delegates' = [m_delegates EXCEPT ![it] = Empty]
  BY <1>1 DEF Erased
<1> QED
  BY <1>2 DEF PlacesKept

LEMMA ModifyPlaces ==
  ASSUME ContainersInv, NEW t \in Threads, Modify(t), broadcastCount > 0
  PROVE  PlacesKept
<1>1. /\ m_delegates \in Seq(Slot) /\ other \in Seq(Slots)
      /\ DOMAIN m_delegates = 1 .. Len(m_delegates)
  BY EntriesKept, LenProperties
<1>2. Container = "MulticastDelegate"
  BY NotWalked
<1>3. ASSUME NEW d \in Samples, PushBack(t, d) PROVE PlacesKept
  <2>1. PICK s \in FreeSlots(1) : m_delegates' = m_delegates \o s
    BY <1>3 DEF PushBack, MulticastPushBack
  <2> QED
    BY <1>1, <2>1, NewSlots, PlacesBefore
<1>4. ASSUME NEW d \in Samples, RemoveDelegate(t, d) PROVE PlacesKept
  BY <1>4, RemovePlaces DEF RemoveDelegate
<1>5. ASSUME NEW d \in Samples, CopyAssign(t, d) PROVE PlacesKept
  <2>1. PICK s \in FreeSlots(1) : m_delegates' = MulticastClear \o s
    BY <1>5 DEF CopyAssign
  <2> HIDE DEF MulticastClear
  <2> QED
    BY <1>1, <2>1, NewSlots, ClearedPlaces, PlacesBefore
<1>6. CASE ClearContainer(t)
  BY <1>6, ClearedPlaces DEF ClearContainer, PlacesKept
<1>7. CASE CopyFrom(t)
  BY <1>7, SamePlaces DEF CopyFrom
<1>8. CASE MoveFrom(t)
  <2>1. m_delegates' = MulticastClear \o other
    BY <1>8 DEF MoveFrom
  <2> HIDE DEF MulticastClear
  <2> QED
    BY <1>1, <2>1, ClearedPlaces, PlacesBefore
\* The other containers are not walked.
<1>9. CASE UnicastClear(t) \/ Disconnect(t) \/ SignalClear(t)
  BY <1>2, <1>9 DEF UnicastClear, Disconnect, SignalClear, Unicast
<1>10. ASSUME NEW d, UnicastAssign(t, d) \/ SignalConnect(t, d) PROVE FALSE
  BY <1>2, <1>10 DEF UnicastAssign, SignalConnect, Unicast
<1> QED
  BY <1>3, <1>4, <1>5, <1>6, <1>7, <1>8, <1>9, <1>10 DEF Modify

LEMMA PlacesStep ==
  ASSUME ContainersInv, [ContainersNext]_containersVars, broadcastCount > 0, broadcastCount' > 0
  PROVE  PlacesKept
<1>1. ASSUME NEW t \in Threads, Modify(t) PROVE PlacesKept
  BY <1>1, ModifyPlaces
\* An invocation leaves the list alone until the outermost walk ends.
<1>2. ASSUME NEW t \in Threads, Leave(t) PROVE PlacesKept
  <2>1. UNCHANGED m_delegates
    BY <1>2, EntriesKept DEF Leave
  <2> QED
    BY <2>1, SamePlaces
<1>3. ASSUME NEW t \in Threads, Broadcast(t) \/ CallNext(t) \/ TargetReturns(t) \/ WaitTimesOut(t)
      PROVE  PlacesKept
  <2>1. UNCHANGED m_delegates
    BY <1>3, Zenon DEF Broadcast, CallNext, TargetReturns, WaitTimesOut, lists
  <2> QED
    BY <2>1, SamePlaces
<1>4. ASSUME NEW o \in Objects, Release(o) PROVE PlacesKept
  BY <1>4, SamePlaces DEF Release, lists
<1>5. CASE Take \/ InvokeReturns
  <2>1. UNCHANGED m_delegates
    BY <1>5, Zenon DEF Take, InvokeReturns, lists
  <2> QED
    BY <2>1, SamePlaces
<1>6. CASE UNCHANGED containersVars
  BY <1>6, SamePlaces DEF containersVars, lists
<1> QED
  BY <1>1, <1>2, <1>3, <1>4, <1>5, <1>6 DEF ContainersNext, Invocation

\* No change that a target makes to a MulticastDelegate under any number of nested
\* broadcasts moves an entry, so that none of the walks misses a target or calls it again.
THEOREM BroadcastsMissNoTarget == ContainersSpec => EntriesKeepTheirPlace
<1>1. ASSUME ContainersInv, [ContainersNext]_containersVars, broadcastCount > 0,
             broadcastCount' > 0
      PROVE  \A i \in DOMAIN m_delegates : /\ i \in DOMAIN m_delegates'
                                           /\ m_delegates'[i] \in {m_delegates[i], Empty}
  BY <1>1, PlacesStep DEF PlacesKept
<1> QED
  BY <1>1, ContainersInvariant, PTL DEF ContainersSpec, EntriesKeepTheirPlace

LEMMA TargetsLive == ContainersInv => NoCallOnDeadObject
<1> SUFFICES ASSUME ContainersInv, ~Dangling, NEW t \in Threads, NEW i \in DOMAIN stack[t],
                    stack[t][i].runs # Null
             PROVE  stack[t][i].runs.object \notin dead
  BY DEF NoCallOnDeadObject
<1>1. /\ stack \in [Threads -> Seq(Frame)] /\ dead \subseteq Objects
  BY DEF ContainersInv, ContainersTypeOK
<1>2. i \in 1 .. Len(stack[t])
  BY <1>1, LenProperties
<1>3. PICK f : f = stack[t][i]
  OBVIOUS
<1>4. f \in Frame /\ f \in Frames /\ FrameOK(t, f) /\ f.runs # Null
  BY <1>2, <1>3, OldFrames
<1>5. f.runs \in BoundDelegate /\ f.at \in Slot
  BY <1>4 DEF Frame
<1>6. CASE f.runs.class \in Weak
  BY <1>3, <1>4, <1>6 DEF FrameOK
<1>7. CASE f.runs.class \in Strong /\ f.over = "message" /\ f.at = Empty
  BY <1>3, <1>4, <1>7 DEF FrameOK, Sound
<1>8. CASE f.runs.class \in Strong /\ (f.over # "message" \/ f.at # Empty)
  <2>1. f.at # Empty /\ stored[f.at] # Null /\ f.at \in Slots
    BY <1>4, <1>5, <1>8 DEF FrameOK, Dangling, Slot
  <2>2. f.at \in Referenced
    BY <2>1 DEF ContainersInv, HeapInv
  <2>3. SameTarget(stored[f.at], f.runs) /\ Sound(stored[f.at])
    BY <1>4, <1>8, <2>2, OldGates DEF FrameOK
  <2> QED
    BY <1>3, <1>8, <2>3 DEF SameTarget, Sound
<1>9. CASE f.runs.class \notin Strong \cup Weak
  BY <1>1, <1>3, <1>5, <1>9, ClassLemma, SetupsAssumption
<1> QED
  BY <1>6, <1>7, <1>8, <1>9

\* Whenever the program lets go of an object - before or during a broadcast, with a message
\* of it queued, or while the target runs - the delegate that runs on it keeps it: by its
\* own pointer, by its message, or by the lock on its weak pointer.
THEOREM TargetsOutliveTheirCalls == ContainersSpec => []NoCallOnDeadObject
BY ContainersInvariant, TargetsLive, PTL

\* The gate of a TimerDelegate that is stored anywhere is closed only while a message that
\* will open it is queued or runs.
THEOREM ClosedGatesOpen == ContainersSpec => []GateOpens
<1>1. ContainersInv => GateOpens
  BY DEF ContainersInv
<1> QED
  BY <1>1, ContainersInvariant, PTL
=============================================================================
