-------------------------- MODULE TunSystemProofs ----------------------------
(***************************************************************************)
(* Proofs about TunSystem: each of its steps is one of TunTunnel's or      *)
(* leaves it alone, and the same holds for RouteGuard.  So the system      *)
(* implements both, and what is proved about either holds of the whole.    *)
(***************************************************************************)
EXTENDS TunSystem, TunTunnelProofs, RouteGuardProofs

\* How far the client is with its settings fits what TunTunnel says of it.
InStep ==
    /\ pc = "off" => client[Here] # "active"
    /\ pc \in {"query", "readDns", "install", "rollback"} => client[Here] = "setup"
    /\ pc = "active" => client[Here] = "active"
    /\ pc = "removing" => client[Here] = "ended"

SystemInv == TypeOK /\ RouteTypeOK /\ InStep

\* Every step of the system is one of RouteGuard or leaves the settings alone.
LEMMA RouteStep == [SystemNext]_systemVars => [RouteNext]_routeVars
<1> SUFFICES ASSUME [SystemNext]_systemVars PROVE [RouteNext]_routeVars
  OBVIOUS
<1>1. CASE UNCHANGED systemVars
  BY <1>1 DEF systemVars
<1>2. CASE ClientHere
  BY <1>2 DEF ClientHere, AdapterHere, Installing, ActivateHere, GiveUp, DownloadHere, FailHere,
              RemovedHere, RouteNext, RouteClient
<1>3. CASE EnvironmentHere
  BY <1>3 DEF EnvironmentHere, ConnectHere, NoAdapter, StopHere, KilledHere, PowerLossHere,
              RouteNext, RouteClient
<1>4. CASE PowerShell
  BY <1>4 DEF RouteNext
<1>5. CASE UNCHANGED routeVars
  BY <1>5
<1>6. QED
  BY <1>1, <1>2, <1>3, <1>4, <1>5 DEF SystemNext, ClientElsewhere, ServerStep

\* The same for the sessions; when the machine loses its power, its client has connected.
LEMMA TunnelStep == SystemInv /\ [SystemNext]_systemVars => [Next]_vars
<1> SUFFICES ASSUME SystemInv, [SystemNext]_systemVars PROVE [Next]_vars
  OBVIOUS
<1> USE HereAssumption
<1>1. CASE UNCHANGED systemVars
  BY <1>1 DEF systemVars
<1>2. ASSUME NEW c \in Conns, Client(c) \/ Server(c) \/ Environment(c) \/ Traffic(c)
      PROVE  Next
  BY <1>2 DEF Next
<1>3. CASE ClientHere
  <2>1. CASE AdapterHere \/ Installing \/ RemovedHere
    BY <2>1 DEF AdapterHere, Installing, RemovedHere
  <2>2. CASE ActivateHere \/ DownloadHere \/ FailHere
    BY <1>2, <2>2 DEF ActivateHere, DownloadHere, FailHere, Client
  <2>3. CASE GiveUp
    <3>1. client[Here] = "setup"
      BY <2>3 DEF GiveUp, QueryFails, SystemInv, InStep
    <3>2. QED BY <1>2, <2>3, <3>1 DEF GiveUp, InstallFails, Environment
  <2>4. QED BY <1>3, <2>1, <2>2, <2>3 DEF ClientHere
<1>4. CASE EnvironmentHere
  <2>1. CASE KilledHere
    <3>1. client[Here] \in {"setup", "active", "ended"}
      BY <2>1 DEF KilledHere, Kill, SystemInv, InStep, RouteTypeOK
    <3>2. QED BY <1>2, <2>1, <3>1 DEF KilledHere, InstallFails, Stop, Environment
  <2>2. CASE PowerLossHere
    BY <1>2, <2>2 DEF PowerLossHere, Environment
  <2>3. QED
    BY <1>2, <1>4, <2>1, <2>2
       DEF EnvironmentHere, ConnectHere, NoAdapter, StopHere, Environment
<1>5. CASE PowerShell /\ UNCHANGED vars
  BY <1>5
<1>6. CASE ServerExits
  BY <1>6 DEF Next
<1>7. QED
  BY <1>1, <1>2, <1>3, <1>4, <1>5, <1>6 DEF SystemNext, ClientElsewhere, ServerStep

\* Nobody but its own steps moves the client on the machine.
LEMMA StaysInStep == SystemInv /\ [SystemNext]_systemVars => InStep'
<1> SUFFICES ASSUME SystemInv, [SystemNext]_systemVars PROVE InStep'
  OBVIOUS
<1> USE HereAssumption DEF SystemInv, TypeOK, InStep
<1>1. CASE UNCHANGED <<pc, client>>
  BY <1>1
<1>2. CASE ClientHere
  <2>1. CASE AdapterHere
    BY <2>1 DEF AdapterHere, Start, vars
  <2>2. CASE Installing
    BY <2>2 DEF Installing, ReadRoute, ReadDns, NotInstalled, vars
  <2>3. CASE ActivateHere
    BY <2>3 DEF ActivateHere, Installed, Activate
  <2>4. CASE GiveUp
    BY <2>4 DEF GiveUp, QueryFails, Removed, ClientReturns
  <2>5. CASE DownloadHere
    BY <1>1, <2>5 DEF DownloadHere, Download, routeVars
  <2>6. CASE FailHere
    BY <2>6 DEF FailHere, SessionEnds, ClientFails, ClientReturns
  <2>7. CASE RemovedHere
    BY <2>7 DEF RemovedHere, Removed, vars
  <2>8. QED
    BY <1>2, <2>1, <2>2, <2>3, <2>4, <2>5, <2>6, <2>7 DEF ClientHere
<1>3. CASE EnvironmentHere
  <2>1. CASE ConnectHere
    BY <2>1 DEF ConnectHere, Connect, routeVars
  <2>2. CASE NoAdapter
    BY <2>2 DEF NoAdapter, InstallFails, ClientReturns, routeVars
  <2>3. CASE StopHere
    BY <2>3 DEF StopHere, Stop, ClientReturns, SessionEnds
  <2>4. CASE KilledHere
    BY <2>4 DEF KilledHere, Kill, ClientReturns, vars
  <2>5. CASE PowerLossHere
    BY <2>5 DEF PowerLossHere, PowerLoss, Vanish, vars
  <2>6. CASE (Expire(Here) \/ (pc = "off" /\ Reuse(Here))) /\ UNCHANGED routeVars
    BY <2>6 DEF Expire, Reuse, routeVars
  <2>7. QED
    BY <1>3, <2>1, <2>2, <2>3, <2>4, <2>5, <2>6 DEF EnvironmentHere
<1>4. CASE PowerShell /\ UNCHANGED vars
  BY <1>1, <1>4 DEF PowerShell, RunCommand, CommandFails, CommandIgnored, vars
<1>5. ASSUME NEW c \in Conns, c # Here, Client(c) \/ Environment(c), UNCHANGED routeVars
      PROVE  InStep'
  <2>1. client'[Here] = client[Here]
    BY <1>5 DEF Client, Activate, Download, ClientFails, ClientReturns, Environment, Connect,
                InstallFails, Stop, Vanish, Expire, Reuse
  <2>2. QED BY <1>5, <2>1 DEF routeVars
<1>6. ASSUME NEW c \in Conns, ServerStep(c) \/ (Traffic(c) /\ UNCHANGED routeVars)
      PROVE  InStep'
  BY <1>1, <1>6
     DEF ServerStep, Server, TryLock, Refuse, CreateDevice, DeviceFails, Inbound, InboundFails,
         RelayEnds, DropDevice, Unlock, Traffic, Upload, Arrives, DeviceBreaks, Outbound, OutboundFails,
         routeVars
<1>7. CASE ServerExits /\ UNCHANGED routeVars
  BY <1>1, <1>7 DEF ServerExits, routeVars
<1>8. CASE UNCHANGED systemVars
  BY <1>1, <1>8 DEF systemVars, vars, routeVars
<1>9. QED
  BY <1>2, <1>3, <1>4, <1>5, <1>6, <1>7, <1>8 DEF SystemNext, ClientElsewhere

\* Types are a part of RouteGuard's invariant.
LEMMA RouteTypesKept == RouteInv => RouteTypeOK
  BY DEF RouteInv

\* TunSystem adds no behaviour to its two parts: a run of it is a run of TunTunnel and a run
\* of RouteGuard (run_windows, which drives both).
THEOREM SystemImplementsParts == SystemSpec => Spec /\ RouteSpec
<1>1. SystemInit => Init /\ RouteInit
  BY DEF SystemInit
<1>2. SystemSpec => RouteSpec
  BY <1>1, RouteStep, PTL DEF SystemSpec, RouteSpec
<1>3. SystemInit => TypeOK /\ InStep
  BY InitIInv, HereAssumption DEF SystemInit, IInv, InStep, Init, RouteInit
<1>4. SystemInv /\ [SystemNext]_systemVars => TypeOK' /\ InStep'
  BY TunnelStep, NextTypeOK, StaysInStep DEF SystemInv
<1>5. RouteTypeOK /\ TypeOK /\ InStep <=> SystemInv
  BY DEF SystemInv
<1>6. SystemSpec => []SystemInv
  BY <1>2, <1>3, <1>4, <1>5, RouteTypes, PTL DEF SystemSpec
<1>7. SystemSpec => Spec
  BY <1>1, <1>6, TunnelStep, PTL DEF SystemSpec, Spec
<1>8. QED
  BY <1>2, <1>7

\* Every variable of the system keeps its type.
THEOREM SystemTypes == SystemSpec => []SystemTypeOK
<1>1. TypeOK /\ RouteTypeOK => SystemTypeOK BY DEF SystemTypeOK
<1>2. QED BY <1>1, SystemImplementsParts, TypeCorrect, RouteTypes, PTL

\* Whatever server, network, scripts and machines do at whatever time: the server serves one
\* client at a time, and the routes of a client never loop, are complete while it is active
\* and are gone when it has ended in order (handle_tun, run_windows, RouteGuard).
THEOREM SystemSafe ==
    SystemSpec => [](OneClient /\ NoRoutingLoop /\ FullTunnel /\ RoutesRemoved)
<1>1. QED
  BY SystemImplementsParts, OneClientAtATime, NeverLoops, TunnelIsFull, RoutesGone, PTL

\* In the composition, too, where the client of the machine works on its network settings
\* between connection and tunnel, no well-formed packet from or for the client ends a
\* session (run_windows, handle_tun).
THEOREM SystemKeepsSessions == SystemSpec => TrafficEndsNoSession
<1>1. QED
  BY SystemImplementsParts, ProperTrafficGoesOn, PTL

\* When the client of the machine has ended in order, however its sessions ended, the machine
\* has the settings it had before, unless its name servers came from DHCP (run_windows, Drop).
THEOREM SystemRestores ==
    "dhcp" \notin InitialDns => (SystemSpec => []NetworkRestored)
<1>1. QED
  BY SystemImplementsParts, Restored, PTL

=============================================================================
