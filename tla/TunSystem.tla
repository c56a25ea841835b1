----------------------------- MODULE TunSystem ------------------------------
(***************************************************************************)
(* TUN mode as a whole: the sessions of TunTunnel and, on the machine of   *)
(* one client at a time, the network settings of RouteGuard.  run_windows  *)
(* (crates/client/src/tun_mode.rs) owns both the connection and the guard; *)
(* the steps that concern the two are taken together, in the order of its  *)
(* statements and of the drops at its end.                                 *)
(*                                                                         *)
(* One connection belongs to the machine: its client runs there, again and *)
(* again.  The clients of the other connections run elsewhere.             *)
(***************************************************************************)
EXTENDS TunTunnel, RouteGuard

CONSTANT Here  \* the connection of the machine

ASSUME HereAssumption == Here \in Conns

systemVars == <<vars, routeVars>>

SystemInit == Init /\ RouteInit

SystemTypeOK == TypeOK /\ RouteTypeOK

-----------------------------------------------------------------------------
(* The client on the machine.                                              *)

\* run_windows begins with the connection.
ConnectHere ==
    /\ script = <<>>
    /\ Connect(Here)
    /\ UNCHANGED routeVars

\* Then the adapter, which may fail: no administrator, no wintun.dll.
AdapterHere ==
    /\ client[Here] = "setup"
    /\ Start
    /\ UNCHANGED vars
NoAdapter ==
    /\ pc = "off"
    /\ InstallFails(Here)
    /\ UNCHANGED routeVars

\* install and drop await nothing: meanwhile the client notices neither the end of its
\* connection nor Ctrl-C.
Installing == (ReadRoute \/ ReadDns \/ NotInstalled) /\ UNCHANGED vars

ActivateHere == Installed /\ Activate(Here)

\* An error of install leaves run_windows; the connection was declared first and goes last.
GiveUp ==
    /\ QueryFails \/ (pc = "rollback" /\ Removed)
    /\ ClientReturns(Here)

DownloadHere == Download(Here) /\ UNCHANGED routeVars

\* select! ends: the halves of connection and device are dropped, then the guard.
StopHere == Stop(Here) /\ SessionEnds
FailHere == ClientFails(Here) /\ SessionEnds

RemovedHere == pc = "removing" /\ Removed /\ UNCHANGED vars

ClientHere ==
    \/ AdapterHere \/ Installing \/ ActivateHere \/ GiveUp \/ DownloadHere \/ FailHere
    \/ RemovedHere

\* The end of the process closes its connection, the end of the machine does not.
KilledHere ==
    /\ Kill
    /\ IF client[Here] = "ended" THEN UNCHANGED vars ELSE ClientReturns(Here)
PowerLossHere ==
    /\ PowerLoss
    /\ IF client[Here] = "ended" THEN UNCHANGED vars ELSE Vanish(Here)

EnvironmentHere ==
    \/ ConnectHere \/ NoAdapter \/ StopHere \/ KilledHere \/ PowerLossHere
    \/ (Expire(Here) \/ (pc = "off" /\ Reuse(Here))) /\ UNCHANGED routeVars

-----------------------------------------------------------------------------
(* The server, the traffic and the clients elsewhere.                      *)

ServerStep(c) == Server(c) /\ UNCHANGED routeVars
ClientElsewhere(c) == c # Here /\ Client(c) /\ UNCHANGED routeVars

SystemNext ==
    \/ ClientHere \/ EnvironmentHere
    \/ PowerShell /\ UNCHANGED vars
    \/ \E c \in Conns :
        \/ ClientElsewhere(c)
        \/ c # Here /\ Environment(c) /\ UNCHANGED routeVars
        \/ ServerStep(c)
        \/ Traffic(c) /\ UNCHANGED routeVars
    \/ ServerExits /\ UNCHANGED routeVars

SystemSpec == SystemInit /\ [][SystemNext]_systemVars

\* Both programs go on when they can, and so do the scripts.  Nobody need start a client,
\* stop one or send a packet.
SystemFairSpec ==
    /\ SystemSpec
    /\ WF_systemVars(ClientHere)
    /\ WF_systemVars((RunCommand \/ CommandFails) /\ UNCHANGED vars)
    /\ \A c \in Conns : WF_systemVars(ClientElsewhere(c)) /\ WF_systemVars(ServerStep(c))

-----------------------------------------------------------------------------
(* Properties.                                                             *)

\* The machine is not cut off for ever: when the server does not relay for its client, be
\* it that it refused it, lost its device or went away, the client takes the routes back
\* (run_windows, RouteGuard, handle_tun).
NotStranded ==
    pc = "active" /\ server[Here] # "relay" ~>
        server[Here] = "relay" \/ routes \cap TunRoutes = {}

=============================================================================
