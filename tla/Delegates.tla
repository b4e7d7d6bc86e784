------------------------------ MODULE Delegates ------------------------------
(***************************************************************************)
(* The delegate classes, each as what its Clone, Equal and                 *)
(* operator() do to the members that decide whether a target is called:    *)
(*   class   the C++ class, its name without "Delegate"; of a              *)
(*           TimerDelegate, after "Timer" that of the delegate in it, m_fn *)
(*   func    the bound function, or Null                                   *)
(*   object  the bound object of the member classes, or Null               *)
(*   how     thread, priority and timeout of the asynchronous classes      *)
(*   gate    a TimerDelegate's message is in flight (m_inFlight is live)   *)
(* "dead" is the set of objects that have been destroyed.  The arguments   *)
(* of a call are left out (the blocking calls' are in AsyncWait), and so   *)
(* is m_sync, which is set only in a clone, for the rest of its life.      *)
(***************************************************************************)
EXTENDS TLC

CONSTANTS Null,
          SameType  \* functions that are closures of one type, for target_type()

Classes == {"Free", "Member", "MemberSp", "Function",
            "FreeAsync", "MemberAsync", "MemberAsyncSp", "FunctionAsync",
            "FreeAsyncWait", "MemberAsyncWait", "MemberAsyncWaitSp", "FunctionAsyncWait",
            "TimerFree", "TimerMember", "TimerMemberSp", "TimerFunction"}

\* These are one class, which MakeTimerDelegate() makes: of a function or a closure, of a
\* bare pointer and of a shared_ptr, that it keeps as a weak one.
TimerClasses == {"TimerFree", "TimerMember", "TimerMemberSp", "TimerFunction"}

\* A default-constructed delegate of the class of d.
Blank(d) == [d EXCEPT !.func = Null, !.object = Null, !.how = Null, !.gate = FALSE]

-----------------------------------------------------------------------------
(* Clone: the copy constructors.                                           *)

FreeClone(d)     == [Blank(d) EXCEPT !.func = d.func]
MemberClone(d)   == [Blank(d) EXCEPT !.func = d.func, !.object = d.object]
MemberSpClone(d) == [Blank(d) EXCEPT !.func = d.func, !.object = d.object]
FunctionClone(d) == [Blank(d) EXCEPT !.func = d.func]

FreeAsyncClone(d)         == [FreeClone(d) EXCEPT !.how = d.how]
MemberAsyncClone(d)       == [MemberClone(d) EXCEPT !.how = d.how]
MemberAsyncSpClone(d)     == [MemberSpClone(d) EXCEPT !.how = d.how]
FunctionAsyncClone(d)     == [FunctionClone(d) EXCEPT !.how = d.how]
FreeAsyncWaitClone(d)     == [FreeClone(d) EXCEPT !.how = d.how]
MemberAsyncWaitClone(d)   == [MemberClone(d) EXCEPT !.how = d.how]
MemberAsyncWaitSpClone(d) == [MemberSpClone(d) EXCEPT !.how = d.how]
FunctionAsyncWaitClone(d) == [FunctionClone(d) EXCEPT !.how = d.how]

\* Mutant: m_inFlight is copied.
TimerCloneAll(d) == d
\* m_fn is cloned, and the gate of the copy starts open.
TimerClone(d) == [d EXCEPT !.gate = FALSE]

Clone(d) ==
  [Free |-> FreeClone(d), Member |-> MemberClone(d), MemberSp |-> MemberSpClone(d),
   Function |-> FunctionClone(d), FreeAsync |-> FreeAsyncClone(d),
   MemberAsync |-> MemberAsyncClone(d), MemberAsyncSp |-> MemberAsyncSpClone(d),
   FunctionAsync |-> FunctionAsyncClone(d), FreeAsyncWait |-> FreeAsyncWaitClone(d),
   MemberAsyncWait |-> MemberAsyncWaitClone(d), MemberAsyncWaitSp |-> MemberAsyncWaitSpClone(d),
   FunctionAsyncWait |-> FunctionAsyncWaitClone(d),
   TimerFree |-> TimerClone(d), TimerMember |-> TimerClone(d), TimerMemberSp |-> TimerClone(d),
   TimerFunction |-> TimerClone(d)][d.class]

-----------------------------------------------------------------------------
(* Equal, after the dynamic_cast to the delegate's own class.              *)

\* lock() of the weak pointer.
Locked(d, dead) == IF d.object \in dead THEN Null ELSE d.object

TypeOf(f) == IF f \in SameType THEN SameType ELSE {f}

FreeEqual(a, b)           == a.func = b.func
MemberEqual(a, b)         == a.func = b.func /\ a.object = b.object
\* All destroyed objects are the same one.
MemberSpEqual(a, b, dead) == Locked(a, dead) = Locked(b, dead) /\ a.func = b.func
\* A std::function is compared by the type of its target.
FunctionEqual(a, b)       == TypeOf(a.func) = TypeOf(b.func)

FreeAsyncEqual(a, b)               == a.how = b.how /\ FreeEqual(a, b)
MemberAsyncEqual(a, b)             == a.how = b.how /\ MemberEqual(a, b)
MemberAsyncSpEqual(a, b, dead)     == a.how = b.how /\ MemberSpEqual(a, b, dead)
FunctionAsyncEqual(a, b)           == a.how = b.how /\ FunctionEqual(a, b)
FreeAsyncWaitEqual(a, b)           == a.how = b.how /\ FreeEqual(a, b)
MemberAsyncWaitEqual(a, b)         == a.how = b.how /\ MemberEqual(a, b)
MemberAsyncWaitSpEqual(a, b, dead) == a.how = b.how /\ MemberSpEqual(a, b, dead)
FunctionAsyncWaitEqual(a, b)       == a.how = b.how /\ FunctionEqual(a, b)
\* The thread is lost with m_fn, and two that have lost it are equal.
TimerEqual(a, b, dead) ==
  /\ a.how = b.how
  /\ a.how # Null =>
       /\ a.class = b.class
       /\ CASE a.class = "TimerFree"     -> FreeEqual(a, b)
            [] a.class = "TimerMember"   -> MemberEqual(a, b)
            [] a.class = "TimerMemberSp" -> MemberSpEqual(a, b, dead)
            [] OTHER                     -> FunctionEqual(a, b)

Equal(a, b, dead) ==
  /\ a.class = b.class \/ {a.class, b.class} \subseteq TimerClasses
  /\ [Free |-> FreeEqual(a, b), Member |-> MemberEqual(a, b),
      MemberSp |-> MemberSpEqual(a, b, dead), Function |-> FunctionEqual(a, b),
      FreeAsync |-> FreeAsyncEqual(a, b), MemberAsync |-> MemberAsyncEqual(a, b),
      MemberAsyncSp |-> MemberAsyncSpEqual(a, b, dead),
      FunctionAsync |-> FunctionAsyncEqual(a, b), FreeAsyncWait |-> FreeAsyncWaitEqual(a, b),
      MemberAsyncWait |-> MemberAsyncWaitEqual(a, b),
      MemberAsyncWaitSp |-> MemberAsyncWaitSpEqual(a, b, dead),
      FunctionAsyncWait |-> FunctionAsyncWaitEqual(a, b),
      TimerFree |-> TimerEqual(a, b, dead), TimerMember |-> TimerEqual(a, b, dead),
      TimerMemberSp |-> TimerEqual(a, b, dead),
      TimerFunction |-> TimerEqual(a, b, dead)][a.class]

-----------------------------------------------------------------------------
(* operator(): "run" the target, "dispatch" a clone, dispatch it and       *)
(* "wait", or "skip".                                                      *)

FreeCall(d)           == IF d.func = Null THEN "skip" ELSE "run"
MemberCall(d)         == IF Null \in {d.object, d.func} THEN "skip" ELSE "run"
\* Mutant: the weak pointer is not checked.
MemberSpCallAny(d, dead) == IF d.object = Null THEN "skip" ELSE "run"
\* The object is locked for the call.
MemberSpCall(d, dead) == IF Locked(d, dead) = Null THEN "skip" ELSE "run"
FunctionCall(d)       == IF d.func = Null THEN "skip" ELSE "run"

\* Empty() decides on the caller's thread.
Unless(empty, what) == IF empty THEN "skip" ELSE what

FreeAsyncCall(d)                 == Unless(d.func = Null, "dispatch")
MemberAsyncCall(d)               == Unless(Null \in {d.object, d.func}, "dispatch")
MemberAsyncSpCall(d, dead)       == Unless(Null \in {Locked(d, dead), d.func}, "dispatch")
FunctionAsyncCall(d)             == Unless(d.func = Null, "dispatch")
FreeAsyncWaitCall(d)             == Unless(d.func = Null, "wait")
MemberAsyncWaitCall(d)           == Unless(Null \in {d.object, d.func}, "wait")
MemberAsyncWaitSpCall(d, dead)   == Unless(Null \in {Locked(d, dead), d.func}, "wait")
FunctionAsyncWaitCall(d)         == Unless(d.func = Null, "wait")
\* PacedDispatch::TryFire(): one message at a time.
TimerCall(d)                     == Unless(d.gate, "fire")

Call(d, dead) ==
  [Free |-> FreeCall(d), Member |-> MemberCall(d), MemberSp |-> MemberSpCall(d, dead),
   Function |-> FunctionCall(d), FreeAsync |-> FreeAsyncCall(d),
   MemberAsync |-> MemberAsyncCall(d), MemberAsyncSp |-> MemberAsyncSpCall(d, dead),
   FunctionAsync |-> FunctionAsyncCall(d), FreeAsyncWait |-> FreeAsyncWaitCall(d),
   MemberAsyncWait |-> MemberAsyncWaitCall(d),
   MemberAsyncWaitSp |-> MemberAsyncWaitSpCall(d, dead),
   FunctionAsyncWait |-> FunctionAsyncWaitCall(d),
   TimerFree |-> TimerCall(d), TimerMember |-> TimerCall(d), TimerMemberSp |-> TimerCall(d),
   TimerFunction |-> TimerCall(d)][d.class]

-----------------------------------------------------------------------------
(* Invoke: the clone calls its base class on the destination thread.       *)

FreeAsyncInvoke(d)               == FreeCall(d)
MemberAsyncInvoke(d)             == MemberCall(d)
MemberAsyncSpInvoke(d, dead)     == MemberSpCall(d, dead)
FunctionAsyncInvoke(d)           == FunctionCall(d)
FreeAsyncWaitInvoke(d)           == FreeCall(d)
MemberAsyncWaitInvoke(d)         == MemberCall(d)
MemberAsyncWaitSpInvoke(d, dead) == MemberSpCall(d, dead)
FunctionAsyncWaitInvoke(d)       == FunctionCall(d)
\* InvokeTarget() calls m_fn.
TimerInvoke(d, dead) ==
  CASE d.class = "TimerFree"     -> FreeCall(d)
    [] d.class = "TimerMember"   -> MemberCall(d)
    [] d.class = "TimerMemberSp" -> MemberSpCall(d, dead)
    [] OTHER                     -> FunctionCall(d)

Invoke(d, dead) ==
  [FreeAsync |-> FreeAsyncInvoke(d), MemberAsync |-> MemberAsyncInvoke(d),
   MemberAsyncSp |-> MemberAsyncSpInvoke(d, dead), FunctionAsync |-> FunctionAsyncInvoke(d),
   FreeAsyncWait |-> FreeAsyncWaitInvoke(d), MemberAsyncWait |-> MemberAsyncWaitInvoke(d),
   MemberAsyncWaitSp |-> MemberAsyncWaitSpInvoke(d, dead),
   FunctionAsyncWait |-> FunctionAsyncWaitInvoke(d),
   TimerFree |-> TimerInvoke(d, dead), TimerMember |-> TimerInvoke(d, dead),
   TimerMemberSp |-> TimerInvoke(d, dead), TimerFunction |-> TimerInvoke(d, dead)][d.class]
=============================================================================
