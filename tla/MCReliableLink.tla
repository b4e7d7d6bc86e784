---------------------------- MODULE MCReliableLink --------------------------
EXTENDS ReliableLink

\* Every class under every wiring that the code, or a program, gives it.
MCSetups ==
  ({"LinuxUdp", "Win32Udp", "ZephyrUdp", "NetconnUdp"} \X {"node"})
  \cup ({"ZeroMq", "LinuxUdp", "Win32Udp", "Serial", "Stm32Uart"} \X {"engine"})
  \cup ({"ArmLwipUdp", "NetXUdp", "LinuxMulticast", "Win32Multicast", "LinuxTcp", "Win32Tcp",
         "Nng", "Mqtt", "Win32Pipe"} \X {"direct"})

\* With three messages the number of the first is used again.
MCLongSetups == {<<"LinuxUdp", "node">>}
=============================================================================
