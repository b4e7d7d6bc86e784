----------------------------- MODULE MCContainers -----------------------------
EXTENDS Containers

Delegate(class, func, object, how) ==
  [class |-> class, func |-> func, object |-> object, how |-> how, gate |-> FALSE]

MCFree       == Delegate("Free", "f", Null, Null)
MCMember     == Delegate("Member", "f", "o", Null)
MCMemberSp   == Delegate("MemberSp", "f", "o", Null)
MCClosure(f) == Delegate("Function", f, Null, Null)
MCTimer      == Delegate("TimerFunction", "f", Null, "worker")
MCTimerUnbound  == Delegate("TimerFree", Null, Null, "worker")
MCTimerMember   == Delegate("TimerMember", "f", "o", "worker")
MCTimerMemberSp == Delegate("TimerMemberSp", "f", "o", "worker")
MCAsync(c)   == Delegate(c, "f", IF c \in {"FreeAsync", "FunctionAsync", "FreeAsyncWait",
                                           "FunctionAsyncWait"} THEN Null ELSE "o", "worker")
MCRemote(c, id) ==
  Wired(RemoteDelegate(c, "f", IF c = "MemberRemote" THEN "o" ELSE Null, id))

MCSetup(c, ds) == [container |-> c, samples |-> ds]

MCSetups ==
  {MCSetup("MulticastDelegate", {MCFree, MCMemberSp}),
   MCSetup("MulticastDelegate", {MCTimer}),
   MCSetup("MulticastDelegateSafe", {MCAsync("MemberAsyncSp")}),
   MCSetup("MulticastDelegateSafe", {MCAsync("FunctionAsync")}),
   MCSetup("MulticastDelegate", {MCClosure("f"), MCClosure("g")}),
   MCSetup("UnicastDelegate", {MCAsync("FreeAsyncWait"), MCMember}),
   MCSetup("UnicastDelegateSafe", {MCAsync("MemberAsyncWaitSp"), MCMember}),
   MCSetup("UnicastDelegateSafe", {MCAsync("MemberAsyncWait"), MCTimer}),
   MCSetup("UnicastDelegateSafe", {MCAsync("FunctionAsyncWait"), MCAsync("FreeAsync")}),
   MCSetup("MulticastDelegateSafe", {MCRemote("FreeRemote", 1), MCRemote("MemberRemote", 1)}),
   MCSetup("Signal", {MCTimer, MCMemberSp}),
   MCSetup("MulticastDelegateSafe", {MCTimerUnbound, MCTimerMember}),
   MCSetup("Signal", {MCTimerMember}), MCSetup("MulticastDelegateSafe", {MCTimerMemberSp}),
   MCSetup("Signal", {MCAsync("MemberAsync")})}

\* A slot is an address.
MCSymmetry == Permutations(Slots)
=============================================================================
