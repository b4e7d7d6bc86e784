----------------------------- MODULE Transports -----------------------------
(***************************************************************************)
(* The transports of port/transport, each as what its Create, Send,        *)
(* Receive and Close decide: whether a message is handed to the medium,    *)
(* whether the object may be read at all, whether a received message is    *)
(* answered with an ACK, and over which object.  The packet's layout, its  *)
(* byte order, its CRC and the length of a payload are left out: a message *)
(* that the medium damages is one that it loses, and a Send may always     *)
(* fail in the medium.                                                     *)
(*                                                                         *)
(* A transport object is a record                                          *)
(*   kind     the class                                                    *)
(*   type     the role given to Create                                     *)
(*   socket   "none", "open", or "deaf": a descriptor that a failed Create *)
(*            left behind, which can send but which no message reaches     *)
(*   monitor  m_transportMonitor is set                                    *)
(*   sendT    m_sendTransport: the object itself or another one            *)
(*   recvT    m_recvTransport: the object itself or another one            *)
(***************************************************************************)

Sending   == {"PUB", "CLIENT", "PAIR_CLIENT"}
Listening == {"SUB", "SERVER", "PAIR_SERVER"}

Kinds == {"LinuxUdp", "Win32Udp", "ZephyrUdp", "NetconnUdp", "ArmLwipUdp", "NetXUdp",
          "LinuxMulticast", "Win32Multicast", "LinuxTcp", "Win32Tcp",
          "ZeroMq", "Nng", "Mqtt", "Serial", "Stm32Uart", "Win32Pipe"}

Transport == [kind : Kinds, type : Sending \cup Listening, socket : {"none", "open", "deaf"},
              monitor : BOOLEAN, sendT : {"self", "other"}, recvT : {"self", "other"}]

\* The constructors: a closed object that sends and receives for itself.
NewTransport(k, role) == [kind |-> k, type |-> role, socket |-> "none", monitor |-> FALSE,
                          sendT |-> "self", recvT |-> "self"]

SetTransportMonitor(t) == [t EXCEPT !.monitor = TRUE]
SetSendTransport(t, o) == [t EXCEPT !.sendT = o]
SetRecvTransport(t, o) == [t EXCEPT !.recvT = o]

-----------------------------------------------------------------------------
(* Create: the objects it can leave.  A failure is reported in each case;  *)
(* what differs is whether the descriptor is given back.                   *)

Opened(t) == [t EXCEPT !.socket = "open"]
Closed(t) == [t EXCEPT !.socket = "none"]
Deaf(t)   == [t EXCEPT !.socket = "deaf"]

OpenUnless(t, closing) == IF t.type \in closing THEN {Opened(t), Closed(t)}
                                                ELSE {Opened(t), Closed(t), Deaf(t)}

LinuxUdpCreate(t)       == {Opened(t), Closed(t), Deaf(t)}
Win32UdpCreate(t)       == {Opened(t), Closed(t), Deaf(t)}
ZephyrUdpCreate(t)      == {Opened(t), Closed(t)}
NetconnUdpCreate(t)     == {Opened(t), Closed(t)}
ArmLwipUdpCreate(t)     == {Opened(t), Closed(t)}
NetXUdpCreate(t)        == {Opened(t), Closed(t)}
LinuxMulticastCreate(t) == {Opened(t), Closed(t)}
Win32MulticastCreate(t) == {Opened(t), Closed(t)}
\* The descriptor that sends, m_connFd, is set only after connect() succeeded.
LinuxTcpCreate(t)       == {Opened(t), Closed(t)}
Win32TcpCreate(t)       == {Opened(t), Closed(t)}
\* Only a socket that could not connect is closed.
ZeroMqCreate(t)         == OpenUnless(t, {"PAIR_CLIENT", "SUB"})
\* Likewise; a subscriber may also fail to set its filter.
NngCreate(t)            == OpenUnless(t, {"PAIR_CLIENT"})
\* A subscriber that could not subscribe stays connected.
MqttCreate(t)           == OpenUnless(t, {"PUB"})
SerialCreate(t)         == {Opened(t), Closed(t)}
\* The UART is remembered before its reception is armed.
Stm32UartCreate(t)      == {Opened(t), Closed(t), Deaf(t)}
Win32PipeCreate(t)      == {Opened(t), Closed(t)}

Create(t) ==
  [LinuxUdp |-> LinuxUdpCreate(t), Win32Udp |-> Win32UdpCreate(t),
   ZephyrUdp |-> ZephyrUdpCreate(t), NetconnUdp |-> NetconnUdpCreate(t),
   ArmLwipUdp |-> ArmLwipUdpCreate(t), NetXUdp |-> NetXUdpCreate(t),
   LinuxMulticast |-> LinuxMulticastCreate(t), Win32Multicast |-> Win32MulticastCreate(t),
   LinuxTcp |-> LinuxTcpCreate(t), Win32Tcp |-> Win32TcpCreate(t),
   ZeroMq |-> ZeroMqCreate(t), Nng |-> NngCreate(t),
   Mqtt |-> MqttCreate(t), Serial |-> SerialCreate(t),
   Stm32Uart |-> Stm32UartCreate(t), Win32Pipe |-> Win32PipeCreate(t)][t.kind]

-----------------------------------------------------------------------------
(* Close.                                                                  *)

LinuxUdpClose(t)       == Closed(t)
Win32UdpClose(t)       == Closed(t)
ZephyrUdpClose(t)      == Closed(t)
NetconnUdpClose(t)     == Closed(t)
ArmLwipUdpClose(t)     == Closed(t)
NetXUdpClose(t)        == Closed(t)
LinuxMulticastClose(t) == Closed(t)
Win32MulticastClose(t) == Closed(t)
LinuxTcpClose(t)       == Closed(t)
Win32TcpClose(t)       == Closed(t)
ZeroMqClose(t)         == Closed(t)
NngClose(t)            == Closed(t)
MqttClose(t)           == Closed(t)
SerialClose(t)         == Closed(t)
\* Close does nothing.
Stm32UartClose(t)      == t
Win32PipeClose(t)      == Closed(t)

Close(t) ==
  [LinuxUdp |-> LinuxUdpClose(t), Win32Udp |-> Win32UdpClose(t),
   ZephyrUdp |-> ZephyrUdpClose(t), NetconnUdp |-> NetconnUdpClose(t),
   ArmLwipUdp |-> ArmLwipUdpClose(t), NetXUdp |-> NetXUdpClose(t),
   LinuxMulticast |-> LinuxMulticastClose(t), Win32Multicast |-> Win32MulticastClose(t),
   LinuxTcp |-> LinuxTcpClose(t), Win32Tcp |-> Win32TcpClose(t),
   ZeroMq |-> ZeroMqClose(t), Nng |-> NngClose(t),
   Mqtt |-> MqttClose(t), Serial |-> SerialClose(t),
   Stm32Uart |-> Stm32UartClose(t), Win32Pipe |-> Win32PipeClose(t)][t.kind]

-----------------------------------------------------------------------------
(* Send: whether a message (an ACK, when ack holds) passes the checks and  *)
(* is handed to the medium.                                                *)

\* The checks that the UDP classes share.
Datagram(t, ack) == /\ t.socket # "none"
                    /\ t.type = "SUB" => ack
                    /\ t.sendT = "self"

LinuxUdpSend(t, ack)       == Datagram(t, ack)
Win32UdpSend(t, ack)       == Datagram(t, ack)
ZephyrUdpSend(t, ack)      == Datagram(t, ack)
NetconnUdpSend(t, ack)     == Datagram(t, ack)
ArmLwipUdpSend(t, ack)     == Datagram(t, ack)
NetXUdpSend(t, ack)        == Datagram(t, ack)
\* What sendto() answers is not looked at.
LinuxMulticastSend(t, ack) == t.type = "PUB"
Win32MulticastSend(t, ack) == t.socket = "open" /\ t.type = "PUB"
\* A client writes to its connection; m_sendTransport is not asked.
LinuxTcpSend(t, ack)       == t.socket = "open"
Win32TcpSend(t, ack)       == t.socket = "open"
ZeroMqSend(t, ack)         == t.socket # "none" /\ t.type # "SUB" /\ t.sendT = "self"
NngSend(t, ack)            == t.socket # "none" /\ t.type # "SUB" /\ t.sendT = "self"
MqttSend(t, ack)           == t.socket # "none"
SerialSend(t, ack)         == t.socket = "open"
Stm32UartSend(t, ack)      == t.socket # "none"
Win32PipeSend(t, ack)      == t.socket = "open"

MaySend(t, ack) ==
  [LinuxUdp |-> LinuxUdpSend(t, ack), Win32Udp |-> Win32UdpSend(t, ack),
   ZephyrUdp |-> ZephyrUdpSend(t, ack), NetconnUdp |-> NetconnUdpSend(t, ack),
   ArmLwipUdp |-> ArmLwipUdpSend(t, ack), NetXUdp |-> NetXUdpSend(t, ack),
   LinuxMulticast |-> LinuxMulticastSend(t, ack), Win32Multicast |-> Win32MulticastSend(t, ack),
   LinuxTcp |-> LinuxTcpSend(t, ack), Win32Tcp |-> Win32TcpSend(t, ack),
   ZeroMq |-> ZeroMqSend(t, ack), Nng |-> NngSend(t, ack),
   Mqtt |-> MqttSend(t, ack), Serial |-> SerialSend(t, ack),
   Stm32Uart |-> Stm32UartSend(t, ack), Win32Pipe |-> Win32PipeSend(t, ack)][t.kind]

-----------------------------------------------------------------------------
(* Receive: whether the object reads the medium, and how it answers a      *)
(* message that is not itself an ACK: "reply" writes the ACK to where the  *)
(* message came from, "send" is m_sendTransport->Send(ack).                *)

LinuxUdpReceive(t)       == t.socket = "open" /\ t.recvT = "self"
Win32UdpReceive(t)       == t.socket = "open" /\ t.recvT = "self"
ZephyrUdpReceive(t)      == t.socket = "open" /\ t.recvT = "self"
NetconnUdpReceive(t)     == t.socket = "open" /\ t.recvT = "self"
ArmLwipUdpReceive(t)     == t.socket = "open" /\ t.recvT = "self"
NetXUdpReceive(t)        == t.socket = "open" /\ t.recvT = "self"
LinuxMulticastReceive(t) == t.socket = "open" /\ t.type = "SUB"
Win32MulticastReceive(t) == t.socket = "open" /\ t.type = "SUB"
\* m_recvTransport is not asked.
LinuxTcpReceive(t)       == t.socket = "open"
Win32TcpReceive(t)       == t.socket = "open"
ZeroMqReceive(t)         == t.socket = "open" /\ t.recvT = "self" /\ t.type # "PUB"
NngReceive(t)            == t.socket = "open" /\ t.recvT = "self" /\ t.type # "PUB"
\* Only a subscriber's callback fills m_rxQueue.
MqttReceive(t)           == t.socket = "open" /\ t.type = "SUB"
SerialReceive(t)         == t.socket = "open" /\ t.recvT = "self"
Stm32UartReceive(t)      == t.socket = "open" /\ t.recvT = "self"
Win32PipeReceive(t)      == t.socket = "open"

MayReceive(t) ==
  [LinuxUdp |-> LinuxUdpReceive(t), Win32Udp |-> Win32UdpReceive(t),
   ZephyrUdp |-> ZephyrUdpReceive(t), NetconnUdp |-> NetconnUdpReceive(t),
   ArmLwipUdp |-> ArmLwipUdpReceive(t), NetXUdp |-> NetXUdpReceive(t),
   LinuxMulticast |-> LinuxMulticastReceive(t), Win32Multicast |-> Win32MulticastReceive(t),
   LinuxTcp |-> LinuxTcpReceive(t), Win32Tcp |-> Win32TcpReceive(t),
   ZeroMq |-> ZeroMqReceive(t), Nng |-> NngReceive(t),
   Mqtt |-> MqttReceive(t), Serial |-> SerialReceive(t),
   Stm32Uart |-> Stm32UartReceive(t), Win32Pipe |-> Win32PipeReceive(t)][t.kind]

\* A datagram is answered from the receiving socket, monitor or not.
LinuxUdpAnswer(t)       == IF t.type = "SUB" THEN "reply" ELSE "none"
Win32UdpAnswer(t)       == IF t.type = "SUB" THEN "reply" ELSE "none"
\* These answer through m_sendTransport->Send(), and only with a monitor.
ZephyrUdpAnswer(t)      == IF t.monitor THEN "send" ELSE "none"
NetconnUdpAnswer(t)     == IF t.monitor THEN "send" ELSE "none"
ArmLwipUdpAnswer(t)     == IF t.monitor THEN "send" ELSE "none"
NetXUdpAnswer(t)        == IF t.monitor THEN "send" ELSE "none"
LinuxMulticastAnswer(t) == "none"
Win32MulticastAnswer(t) == "none"
\* On the connection that the message came from.
LinuxTcpAnswer(t)       == "reply"
Win32TcpAnswer(t)       == IF t.monitor THEN "reply" ELSE "none"
ZeroMqAnswer(t)         == IF t.monitor THEN "send" ELSE "none"
NngAnswer(t)            == IF t.monitor THEN "send" ELSE "none"
MqttAnswer(t)           == IF t.monitor THEN "send" ELSE "none"
SerialAnswer(t)         == "send"
Stm32UartAnswer(t)      == IF t.monitor THEN "send" ELSE "none"
\* The pipe knows no ACK at all.
Win32PipeAnswer(t)      == "none"

Answer(t) ==
  [LinuxUdp |-> LinuxUdpAnswer(t), Win32Udp |-> Win32UdpAnswer(t),
   ZephyrUdp |-> ZephyrUdpAnswer(t), NetconnUdp |-> NetconnUdpAnswer(t),
   ArmLwipUdp |-> ArmLwipUdpAnswer(t), NetXUdp |-> NetXUdpAnswer(t),
   LinuxMulticast |-> LinuxMulticastAnswer(t), Win32Multicast |-> Win32MulticastAnswer(t),
   LinuxTcp |-> LinuxTcpAnswer(t), Win32Tcp |-> Win32TcpAnswer(t),
   ZeroMq |-> ZeroMqAnswer(t), Nng |-> NngAnswer(t),
   Mqtt |-> MqttAnswer(t), Serial |-> SerialAnswer(t),
   Stm32Uart |-> Stm32UartAnswer(t), Win32Pipe |-> Win32PipeAnswer(t)][t.kind]

\* An ACK, on the other hand, ends in m_transportMonitor->Remove(seqNum).
TakesAck(t) == t.monitor /\ t.kind \notin {"LinuxMulticast", "Win32Multicast", "Win32Pipe"}

\* ReadByteBlocked() waits for a byte with portMAX_DELAY; every other Receive
\* has a time limit.
ReceiveMayHang(t) == t.kind = "Stm32Uart"
=============================================================================
