--------------------------- MODULE RemoteDelegates ---------------------------
(***************************************************************************)
(* The remote delegates, DelegateFreeRemote, DelegateMemberRemote and      *)
(* DelegateFunctionRemote, each the local class of Delegates with          *)
(*   id          the remote identifier                                     *)
(*   serializer  a serializer is set                                       *)
(*   stream      a stream is set                                           *)
(*   dispatcher  a dispatcher with a transport is set                      *)
(*   handler     an error handler is set                                   *)
(*   error       m_error, the last error that was raised                   *)
(* A stream belongs to a channel and is "good" or "failed".  write and     *)
(* read are what the serializer does to a stream: "ok", "fails" (it sets   *)
(* the failbit), or "throws"; a stream that a flag of is set when it comes *)
(* to be read is "bad".  dispatch is the transport's error code.           *)
(***************************************************************************)
EXTENDS Integers, Delegates

\* The constructors, and Bind().
RemoteDelegate(class, func, object, id) ==
  [class |-> class, func |-> func, object |-> object, how |-> Null, gate |-> FALSE, id |-> id,
   serializer |-> FALSE, stream |-> FALSE, dispatcher |-> FALSE, handler |-> FALSE,
   error |-> "SUCCESS"]

\* What RemoteChannel's constructor and MakeDelegate(function, id, channel) set.
Wired(d) == [d EXCEPT !.serializer = TRUE, !.stream = TRUE, !.dispatcher = TRUE]

\* A copy takes all but the last error.
RemoteCopy(d) == [d EXCEPT !.error = "SUCCESS"]

FreeRemoteClone(d)     == RemoteCopy(FreeClone(d))
MemberRemoteClone(d)   == RemoteCopy(MemberClone(d))
FunctionRemoteClone(d) == RemoteCopy(FunctionClone(d))

FreeRemoteEqual(a, b)     == a.id = b.id /\ FreeEqual(a, b)
MemberRemoteEqual(a, b)   == a.id = b.id /\ MemberEqual(a, b)
FunctionRemoteEqual(a, b) == a.id = b.id /\ FunctionEqual(a, b)

RemoteClasses == {"FreeRemote", "MemberRemote", "FunctionRemote"}

\* Clone(), Equal() and operator() of any delegate.  A remote one calls nothing here.
AnyClone(d) ==
  CASE d.class = "FreeRemote"     -> FreeRemoteClone(d)
    [] d.class = "MemberRemote"   -> MemberRemoteClone(d)
    [] d.class = "FunctionRemote" -> FunctionRemoteClone(d)
    [] OTHER -> Clone(d)

AnyEqual(a, b, dead) ==
  CASE a.class \notin RemoteClasses -> Equal(a, b, dead)
    [] a.class # b.class            -> FALSE
    [] a.class = "FreeRemote"       -> FreeRemoteEqual(a, b)
    [] a.class = "MemberRemote"     -> MemberRemoteEqual(a, b)
    [] OTHER                        -> FunctionRemoteEqual(a, b)

AnyCall(d, dead) == IF d.class \in RemoteClasses THEN "send" ELSE Call(d, dead)

-----------------------------------------------------------------------------
(* Sending: the error that is raised, the stream afterwards, and whether   *)
(* the transport took the message.                                         *)

Result(error, stream, sent) == [error |-> error, stream |-> stream, sent |-> sent]

\* Dispatcher::Dispatch() resets the stream, whatever the transport says.
Dispatch(stream, dispatch) == Result(IF dispatch = 0 THEN "SUCCESS" ELSE "ERR_DISPATCH",
                                     "good", dispatch = 0)

\* What is left of the stream after the serializer: it empties it first, but clears no flag.
Written(stream, write) == IF write = "fails" THEN "failed" ELSE stream

SendSerialized(d, stream, dispatch) ==
  IF stream # "good" THEN Result("ERR_STREAM_NOT_GOOD", stream, FALSE)
  ELSE IF ~d.dispatcher THEN Result("ERR_NO_DISPATCHER", stream, FALSE)
  ELSE Dispatch(stream, dispatch)

\* operator(), the same in the three classes.
RemoteSend(d, stream, write, dispatch) ==
  IF ~(d.serializer /\ d.stream) THEN Result("ERR_NO_SERIALIZER", stream, FALSE)
  ELSE IF write = "throws" THEN Result("ERR_SERIALIZE", stream, FALSE)
  ELSE SendSerialized(d, Written(stream, write), dispatch)

FreeRemoteSend(d, stream, write, dispatch)     == RemoteSend(d, stream, write, dispatch)
MemberRemoteSend(d, stream, write, dispatch)   == RemoteSend(d, stream, write, dispatch)
FunctionRemoteSend(d, stream, write, dispatch) == RemoteSend(d, stream, write, dispatch)

Send(d, stream, write, dispatch) ==
  [FreeRemote |-> FreeRemoteSend(d, stream, write, dispatch),
   MemberRemote |-> MemberRemoteSend(d, stream, write, dispatch),
   FunctionRemote |-> FunctionRemoteSend(d, stream, write, dispatch)][d.class]

-----------------------------------------------------------------------------
(* Invoke() of a received message: "run" or "skip" the target, or an error.*)

RemoteInvoke(d, call, read) ==
  IF ~d.serializer THEN "ERR_NO_SERIALIZER"
  ELSE IF read = "bad" THEN "ERR_STREAM_NOT_GOOD"
  ELSE IF read = "throws" THEN "ERR_DESERIALIZE_EXCEPTION"
  ELSE IF read = "fails" THEN "ERR_DESERIALIZE"
  ELSE call

FreeRemoteInvoke(d, read)     == RemoteInvoke(d, FreeCall(d), read)
MemberRemoteInvoke(d, read)   == RemoteInvoke(d, MemberCall(d), read)
FunctionRemoteInvoke(d, read) == RemoteInvoke(d, FunctionCall(d), read)

InvokeRemote(d, read) ==
  [FreeRemote |-> FreeRemoteInvoke(d, read), MemberRemote |-> MemberRemoteInvoke(d, read),
   FunctionRemote |-> FunctionRemoteInvoke(d, read)][d.class]

-----------------------------------------------------------------------------
\* RaiseError(): without a handler it throws, after the error was recorded.
\* RaiseSuccess() records nothing.
RaiseError(d, error) == IF error = "SUCCESS" THEN d ELSE [d EXCEPT !.error = error]
Throws(d, error)     == error # "SUCCESS" /\ ~d.handler
=============================================================================
