-------------------------- MODULE TunTunnelProofs ---------------------------
(***************************************************************************)
(* Proofs about TunTunnel, for any set of connections, any packets and any *)
(* faults: the server serves one client at a time.                         *)
(***************************************************************************)
EXTENDS TunTunnel, TLAPS

\* OneClient says what the session that relays has; for a step that wins the mutex one must
\* also know that a device always has such a session.
DeviceHasSession == dev # None => server[dev] \in {"relay", "drop"}

\* The end of the server's process ends the sessions of the clients that have connected:
\* these are all there are.
OnlyConnected == \A c \in Conns : client[c] = "off" => server[c] = "none"

IInv == TypeOK /\ OneClient /\ DeviceHasSession /\ OnlyConnected

\* Nobody is connected at first.
LEMMA InitIInv == Init => IInv
  BY TunTunnelAssumption DEF Init, IInv, TypeOK, OneClient, DeviceHasSession, OnlyConnected,
     ClientStates, ServerStates

\* Every variable keeps its type, whichever client or session takes the step.
LEMMA NextTypeOK == TypeOK /\ [Next]_vars => TypeOK'
<1> SUFFICES ASSUME TypeOK, [Next]_vars PROVE TypeOK'
  OBVIOUS
<1> USE TunTunnelAssumption DEF TypeOK, ClientStates, ServerStates
<1>1. CASE UNCHANGED vars
  BY <1>1 DEF vars
<1>2. ASSUME NEW c \in Conns, Client(c) PROVE TypeOK'
  <2>1. CASE Activate(c) BY <2>1 DEF Activate
  <2>2. CASE Download(c) BY <2>2 DEF Download
  <2>3. CASE ClientFails(c) BY <2>3 DEF ClientFails, ClientReturns
  <2>4. QED BY <1>2, <2>1, <2>2, <2>3 DEF Client
<1>3. ASSUME NEW c \in Conns, Server(c) PROVE TypeOK'
  <2>1. CASE TryLock(c) BY <2>1 DEF TryLock
  <2>2. CASE Refuse(c) BY <2>2 DEF Refuse, ServerCloses
  <2>3. CASE CreateDevice(c) BY <2>3 DEF CreateDevice
  <2>4. CASE DeviceFails(c) BY <2>4 DEF DeviceFails
  <2>5. CASE Inbound(c) BY <2>5 DEF Inbound
  <2>6. CASE InboundFails(c) BY <2>6 DEF InboundFails, RelayEnds, ServerCloses
  <2>7. CASE DropDevice(c) BY <2>7 DEF DropDevice
  <2>8. CASE Unlock(c) BY <2>8 DEF Unlock, ServerCloses
  <2>9. QED
    BY <1>3, <2>1, <2>2, <2>3, <2>4, <2>5, <2>6, <2>7, <2>8 DEF Server
<1>4. ASSUME NEW c \in Conns, Environment(c) PROVE TypeOK'
  <2>1. CASE Connect(c) BY <2>1 DEF Connect
  <2>2. CASE InstallFails(c) \/ Stop(c) BY <2>2 DEF InstallFails, Stop, ClientReturns
  <2>3. CASE Vanish(c) \/ Expire(c) BY <2>3 DEF Vanish, Expire
  <2>4. CASE Reuse(c) BY <2>4 DEF Reuse
  <2>5. QED BY <1>4, <2>1, <2>2, <2>3, <2>4 DEF Environment
<1>5. ASSUME NEW c \in Conns, Traffic(c) PROVE TypeOK'
  <2>1. ASSUME NEW p \in ClientSent, Upload(c, p) PROVE TypeOK'
    BY <2>1 DEF Upload, Room
  <2>2. CASE Outbound(c)
    BY <2>2 DEF Outbound, Room
  <2>3. CASE OutboundFails(c)
    BY <2>3 DEF OutboundFails, RelayEnds, ServerCloses
  <2>4. ASSUME NEW p \in ServerSent, Arrives(c, p) PROVE TypeOK'
    BY <2>4 DEF Arrives
  <2>5. CASE DeviceBreaks(c)
    BY <2>5 DEF DeviceBreaks
  <2>6. QED BY <1>5, <2>1, <2>2, <2>3, <2>4, <2>5 DEF Traffic
<1>6. CASE ServerExits
  BY <1>6 DEF ServerExits, Connected
<1>7. QED
  BY <1>1, <1>2, <1>3, <1>4, <1>5, <1>6 DEF Next

\* The steps that touch neither a session, the mutex nor the device.
LEMMA ClientSteps ==
    ASSUME IInv, UNCHANGED <<server, lock, dev>>
    PROVE  OneClient' /\ DeviceHasSession'
  BY DEF IInv, OneClient, DeviceHasSession

\* Each step of a session keeps mutex, device and session together.
LEMMA ServerSteps ==
    ASSUME IInv, NEW c \in Conns,
           Server(c) \/ RelayEnds(c)
    PROVE  OneClient' /\ DeviceHasSession'
<1> USE TunTunnelAssumption DEF IInv, TypeOK, OneClient, DeviceHasSession, ServerStates
<1>1. CASE TryLock(c) BY <1>1 DEF TryLock, Asks
<1>2. CASE Refuse(c) BY <1>2 DEF Refuse, Asks
<1>3. CASE CreateDevice(c) BY <1>3 DEF CreateDevice
<1>4. CASE DeviceFails(c) BY <1>4 DEF DeviceFails
<1>5. CASE Inbound(c) BY <1>5 DEF Inbound
<1>6. CASE RelayEnds(c) BY <1>6 DEF RelayEnds
<1>7. CASE DropDevice(c) BY <1>7 DEF DropDevice
<1>8. CASE Unlock(c) BY <1>8 DEF Unlock
<1>9. InboundFails(c) => RelayEnds(c)
  BY DEF InboundFails
<1>10. QED
  BY <1>1, <1>2, <1>3, <1>4, <1>5, <1>6, <1>7, <1>8, <1>9 DEF Server

\* The end of the process leaves no session behind: who holds mutex or device has asked for
\* TUN mode, and so has connected.
LEMMA ExitStep ==
    ASSUME IInv, ServerExits
    PROVE  OneClient' /\ DeviceHasSession'
<1> USE TunTunnelAssumption DEF IInv, TypeOK, OneClient, DeviceHasSession, ServerStates
<1>1. \A c \in Conns : server'[c] \in {"none", "ended"}
  BY DEF ServerExits, Connected, OnlyConnected
<1>2. lock' = None /\ dev' = None
  BY DEF ServerExits
<1>3. QED
  BY <1>1, <1>2

\* A connection that is over holds neither mutex nor device.
LEMMA ReuseStep ==
    ASSUME IInv, NEW c \in Conns, Reuse(c)
    PROVE  OneClient' /\ DeviceHasSession'
  BY TunTunnelAssumption
     DEF Reuse, IInv, TypeOK, OneClient, DeviceHasSession, ServerStates

\* A session has a client that has connected, and keeps it until its name is used again.
LEMMA NextOnlyConnected ==
    ASSUME IInv, [Next]_vars
    PROVE  OnlyConnected'
<1> USE DEF IInv, TypeOK, ClientStates, ServerStates, OnlyConnected
<1>1. CASE UNCHANGED vars
  BY <1>1 DEF vars
<1>2. ASSUME NEW c \in Conns, Client(c) PROVE OnlyConnected'
  BY <1>2 DEF Client, Activate, Download, ClientFails, ClientReturns
<1>3. ASSUME NEW c \in Conns, Server(c) PROVE OnlyConnected'
  BY <1>3 DEF Server, TryLock, Refuse, CreateDevice, DeviceFails, Inbound, InboundFails,
              RelayEnds, DropDevice, Unlock, Asks
<1>4. ASSUME NEW c \in Conns, Environment(c) PROVE OnlyConnected'
  BY <1>4 DEF Environment, Connect, InstallFails, Stop, Vanish, Expire, Reuse, ClientReturns
<1>5. ASSUME NEW c \in Conns, Traffic(c) PROVE OnlyConnected'
  BY <1>5 DEF Traffic, Upload, Arrives, DeviceBreaks, Outbound, OutboundFails, RelayEnds
<1>6. CASE ServerExits
  BY <1>6 DEF ServerExits, Connected
<1>7. QED
  BY <1>1, <1>2, <1>3, <1>4, <1>5, <1>6 DEF Next

\* Every step keeps the invariant.
LEMMA NextIInv == IInv /\ [Next]_vars => IInv'
<1> SUFFICES ASSUME IInv, [Next]_vars PROVE IInv'
  OBVIOUS
<1>1. TypeOK' /\ OnlyConnected'
  BY NextTypeOK, NextOnlyConnected DEF IInv
<1>2. CASE UNCHANGED <<server, lock, dev>>
  BY <1>1, <1>2, ClientSteps DEF IInv
<1>3. ASSUME NEW c \in Conns, Server(c) \/ RelayEnds(c) PROVE IInv'
  BY <1>1, <1>3, ServerSteps DEF IInv
<1>4. ASSUME NEW c \in Conns, Client(c) PROVE UNCHANGED <<server, lock, dev>>
  BY <1>4 DEF Client, Activate, Download, ClientFails, ClientReturns
<1>5. ASSUME NEW c \in Conns, Environment(c)
      PROVE UNCHANGED <<server, lock, dev>> \/ Reuse(c)
  BY <1>5 DEF Environment, Connect, InstallFails, Stop, Vanish, Expire, ClientReturns
<1>6. ASSUME NEW c \in Conns, Traffic(c)
      PROVE UNCHANGED <<server, lock, dev>> \/ RelayEnds(c)
  BY <1>6 DEF Traffic, Upload, Arrives, DeviceBreaks, Outbound, OutboundFails
<1>7. CASE UNCHANGED vars
  BY <1>2, <1>7 DEF vars
<1>8. ASSUME NEW c \in Conns, Reuse(c) PROVE IInv'
  BY <1>1, <1>8, ReuseStep DEF IInv
<1>9. CASE ServerExits
  BY <1>1, <1>9, ExitStep DEF IInv
<1>10. QED
  BY <1>2, <1>3, <1>4, <1>5, <1>6, <1>7, <1>8, <1>9 DEF Next

\* The inductive invariant.
THEOREM TunInvariant == Spec => []IInv
<1>1. Init => IInv BY InitIInv
<1>2. IInv /\ [Next]_vars => IInv' BY NextIInv
<1>3. QED BY <1>1, <1>2, PTL DEF Spec

\* Every variable keeps its type; above all no direction of a connection holds more frames
\* than its sockets do, as the packet loops wait for room (run_windows, handle_tun).
THEOREM TypeCorrect == Spec => []TypeOK
<1>1. IInv => TypeOK BY DEF IInv
<1>2. QED BY <1>1, TunInvariant, PTL

\* The device ss-tun0 always belongs to the one session that relays, and the session that
\* wins tun_lock never meets it (handle_tun).
THEOREM OneClientAtATime == Spec => []OneClient
<1>1. IInv => OneClient BY DEF IInv
<1>2. QED BY <1>1, TunInvariant, PTL

-----------------------------------------------------------------------------
(* What ends a session.                                                    *)

\* Until a session ends, only its client can have closed the connection.
CutByClient ==
    \A c \in Conns :
        server[c] \in {"none", "device", "relay"} /\ c \in cut =>
            client[c] \in {"ended", "vanished"}

\* What is not IPv4 stays on the client's machine.
OnlyForwarded == \A c \in Conns : up[c] \in Seq({p \in ClientSent : Forwarded(p)})

FlowInv == IInv /\ CutByClient /\ OnlyForwarded

\* Nothing is sent or closed at first.
LEMMA InitFlow == Init => FlowInv
  BY InitIInv DEF Init, FlowInv, CutByClient, OnlyForwarded

\* The server closes a connection together with its session.
LEMMA NextCut ==
    ASSUME IInv, CutByClient, [Next]_vars
    PROVE  CutByClient'
<1> USE DEF IInv, TypeOK, ClientStates, ServerStates, OnlyConnected, CutByClient
<1>1. CASE UNCHANGED vars
  BY <1>1 DEF vars
<1>2. ASSUME NEW c \in Conns, Client(c) PROVE CutByClient'
  BY <1>2 DEF Client, Activate, Download, ClientFails, ClientReturns
<1>3. ASSUME NEW c \in Conns, RelayEnds(c) PROVE CutByClient'
  BY <1>3 DEF RelayEnds, ServerCloses
<1>4. ASSUME NEW c \in Conns, Server(c) PROVE CutByClient'
  <2>1. CASE TryLock(c) BY <2>1 DEF TryLock, Asks
  <2>2. CASE Refuse(c) BY <2>2 DEF Refuse, ServerCloses
  <2>3. CASE CreateDevice(c) \/ DeviceFails(c) BY <2>3 DEF CreateDevice, DeviceFails
  <2>4. CASE Inbound(c) BY <2>4 DEF Inbound
  <2>5. CASE InboundFails(c) BY <1>3, <2>5 DEF InboundFails
  <2>6. CASE DropDevice(c) BY <2>6 DEF DropDevice
  <2>7. CASE Unlock(c) BY <2>7 DEF Unlock, ServerCloses
  <2>8. QED BY <1>4, <2>1, <2>2, <2>3, <2>4, <2>5, <2>6, <2>7 DEF Server
<1>5. ASSUME NEW c \in Conns, Environment(c) PROVE CutByClient'
  <2>1. CASE Connect(c) BY <2>1 DEF Connect
  <2>2. CASE InstallFails(c) \/ Stop(c) BY <2>2 DEF InstallFails, Stop, ClientReturns
  <2>3. CASE Vanish(c) \/ Expire(c) BY <2>3 DEF Vanish, Expire
  <2>4. CASE Reuse(c) BY <2>4 DEF Reuse
  <2>5. QED BY <1>5, <2>1, <2>2, <2>3, <2>4 DEF Environment
<1>6. ASSUME NEW c \in Conns, Traffic(c) PROVE CutByClient'
  BY <1>3, <1>6 DEF Traffic, Upload, Arrives, DeviceBreaks, Outbound, OutboundFails
<1>7. CASE ServerExits
  BY <1>7 DEF ServerExits, Connected
<1>8. QED
  BY <1>1, <1>2, <1>4, <1>5, <1>6, <1>7 DEF Next

\* Only Upload adds to what is on its way to the server.
LEMMA NextForwarded ==
    ASSUME TypeOK, OnlyForwarded, [Next]_vars
    PROVE  OnlyForwarded'
<1> DEFINE V4 == {p \in ClientSent : Forwarded(p)}
<1>1. SUFFICES \A c \in Conns : up'[c] \in Seq(V4)
  BY DEF OnlyForwarded
<1>2. \A c \in Conns : up[c] \in Seq(V4) /\ <<>> \in Seq(V4)
  BY DEF OnlyForwarded
<1>3. TypeOK'
  BY NextTypeOK
<1>4. CASE UNCHANGED up
  BY <1>2, <1>4
<1>5. ASSUME NEW c \in Conns, NEW p \in ClientSent, Upload(c, p)
      PROVE  \A d \in Conns : up'[d] \in Seq(V4)
  <2>1. p \in V4 /\ up' = [up EXCEPT ![c] = Append(@, p)]
    BY <1>5 DEF Upload
  <2>2. QED BY <1>2, <2>1
<1>6. ASSUME NEW c \in Conns, Inbound(c)
      PROVE  \A d \in Conns : up'[d] \in Seq(V4)
  <2>1. up[c] # <<>> /\ up' = [up EXCEPT ![c] = Tail(@)]
    BY <1>6 DEF Inbound
  <2>2. QED BY <1>2, <2>1
<1>7. ASSUME NEW c \in Conns, ServerCloses(c)
      PROVE  \A d \in Conns : up'[d] \in Seq(V4)
  BY <1>2, <1>7 DEF ServerCloses
<1>8. CASE ServerExits
  BY <1>2, <1>8 DEF ServerExits
<1>9. ASSUME NEW c \in Conns, Client(c) \/ Environment(c) PROVE UNCHANGED up
  BY <1>9 DEF Client, Activate, Download, ClientFails, ClientReturns, Environment, Connect,
              InstallFails, Stop, Vanish, Expire, Reuse
<1>10. ASSUME NEW c \in Conns, Server(c)
       PROVE  UNCHANGED up \/ Inbound(c) \/ ServerCloses(c)
  BY <1>10 DEF Server, TryLock, Refuse, CreateDevice, DeviceFails, InboundFails, RelayEnds,
               DropDevice, Unlock
<1>11. ASSUME NEW c \in Conns, Traffic(c)
       PROVE  UNCHANGED up \/ (\E p \in ClientSent : Upload(c, p)) \/ ServerCloses(c)
  BY <1>11 DEF Traffic, Arrives, DeviceBreaks, Outbound, OutboundFails, RelayEnds
<1>12. UNCHANGED vars => UNCHANGED up
  BY DEF vars
<1>13. QED
  BY <1>4, <1>5, <1>6, <1>7, <1>8, <1>9, <1>10, <1>11, <1>12 DEF Next

\* A session that relays ends by RelayEnds alone, or with the process.
LEMMA OnlyRelayEnds ==
    ASSUME TypeOK, [Next]_vars, NEW c \in Conns, server[c] = "relay", server'[c] = "drop"
    PROVE  InboundFails(c) \/ OutboundFails(c)
<1> USE DEF TypeOK
<1>1. ASSUME NEW d \in Conns, Client(d) \/ Environment(d) PROVE FALSE
  BY <1>1 DEF Client, Activate, Download, ClientFails, ClientReturns, Environment, Connect,
              InstallFails, Stop, Vanish, Expire, Reuse
<1>2. ASSUME NEW d \in Conns, Server(d) PROVE InboundFails(c)
  <2>1. CASE InboundFails(d)
    BY <2>1 DEF InboundFails, RelayEnds
  <2>2. CASE ~InboundFails(d)
    BY <1>2, <2>2 DEF Server, TryLock, Refuse, CreateDevice, DeviceFails, Inbound, DropDevice,
                      Unlock
  <2>3. QED BY <2>1, <2>2
<1>3. ASSUME NEW d \in Conns, Traffic(d)
      PROVE  OutboundFails(c)
  <2>1. CASE OutboundFails(d)
    BY <2>1 DEF OutboundFails, RelayEnds
  <2>2. CASE ~OutboundFails(d)
    BY <1>3, <2>2 DEF Traffic, Upload, Arrives, DeviceBreaks, Outbound
  <2>3. QED BY <2>1, <2>2
<1>4. ~ServerExits /\ ~UNCHANGED vars
  BY DEF ServerExits, vars
<1>5. QED
  BY <1>1, <1>2, <1>3, <1>4 DEF Next

\* The checks accept what is well-formed and fits the MTU.
LEMMA WellFormedIsValid ==
    ASSUME NEW p \in Packets, WellFormed(p)
    PROVE  ValidIpv4(p)
<1>1. p.len \in 1..TunMtu
  BY DEF Packets
<1>2. p.ihl \in 0..15
  BY DEF Packets
<1>3. QED
  BY ONLY <1>1, <1>2, WellFormed(p) DEF WellFormed, ValidIpv4, TunMtu

\* Whatever the machines send and whatever fails: while a session relays it ends only because
\* its client is gone, because the device failed, or because of a packet that is not a
\* well-formed one from or for the client (run_windows, handle_tun, validate_tun_packet,
\* validate_tun_response).
THEOREM ProperTrafficGoesOn == Spec => TrafficEndsNoSession
<1> DEFINE Excused(c) ==
              \/ client[c] \in {"ended", "vanished"}
              \/ tap = Broken
              \/ up[c] # <<>> /\ Head(up[c]).version = 4
                  /\ ~(WellFormed(Head(up[c])) /\ Head(up[c]).source = "client")
              \/ tap # None /\ ~(WellFormed(tap) /\ tap.destination = "client")
           Step == \A c \in Conns : server[c] = "relay" /\ server'[c] = "drop" => Excused(c)
<1>1. FlowInv /\ [Next]_vars => FlowInv'
  BY NextIInv, NextCut, NextForwarded DEF FlowInv, IInv
<1>2. FlowInv /\ [Next]_vars => Step
  <2> SUFFICES ASSUME FlowInv, [Next]_vars, NEW c \in Conns,
                      server[c] = "relay", server'[c] = "drop"
               PROVE  Excused(c)
    OBVIOUS
  <2>1. c \in cut => client[c] \in {"ended", "vanished"}
    BY DEF FlowInv, CutByClient
  <2>2. CASE InboundFails(c)
    <3>1. CASE EndRead(c)
      BY <2>1, <3>1 DEF EndRead
    <3>2. CASE up[c] # <<>> /\ ~ValidPacket(Head(up[c]))
      <4> DEFINE V4 == {p \in ClientSent : Forwarded(p)}
      <4>0. up[c] \in Seq(V4) /\ up[c] # <<>>
        BY <3>2 DEF FlowInv, OnlyForwarded
      <4> HIDE DEF V4
      <4>1. Head(up[c]) \in V4
        BY ONLY <4>0
      <4>2. Head(up[c]) \in Packets /\ Head(up[c]).version = 4
        BY <4>1, TunTunnelAssumption DEF V4, Forwarded
      <4>3. WellFormed(Head(up[c])) => Head(up[c]).source # "client"
        BY <3>2, <4>2, WellFormedIsValid DEF ValidPacket
      <4>4. QED BY <3>2, <4>2, <4>3
    <3>3. QED BY <2>2, <3>1, <3>2 DEF InboundFails
  <2>3. CASE OutboundFails(c)
    <3>1. CASE tap \in ServerSent /\ ~ValidResponse(tap)
      <4>1. tap \in Packets /\ tap # None
        BY <3>1, TunTunnelAssumption
      <4>2. WellFormed(tap) => tap.destination # "client"
        BY <3>1, <4>1, WellFormedIsValid DEF ValidResponse
      <4>3. QED BY <4>1, <4>2
    <3>2. QED BY <2>1, <2>3, <3>1 DEF OutboundFails
  <2>4. QED BY <2>2, <2>3, OnlyRelayEnds DEF FlowInv, IInv
<1>3. QED
  BY <1>1, <1>2, InitFlow, PTL DEF Spec, TrafficEndsNoSession

=============================================================================
