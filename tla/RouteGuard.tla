----------------------------- MODULE RouteGuard -----------------------------
(***************************************************************************)
(* The network settings of a Windows machine under the TUN client          *)
(* (crates/client/src/tun_mode.rs): run_windows creates an adapter,        *)
(* RouteGuard::install reads the settings and changes them in one          *)
(* PowerShell script, and RouteGuard::drop changes them back in another.   *)
(*                                                                         *)
(* A script is a process of its own that runs its commands one by one.  It *)
(* goes on when the client is killed; the adapter and the routes on it do  *)
(* not survive the client.                                                 *)
(***************************************************************************)
EXTENDS Sequences

CONSTANTS
    InitialDns,  \* how the physical adapter may get its name servers at first
    RouteFaults  \* subset of {"query", "command", "cleanup", "kill", "power"}

DnsSettings == {"static", "dhcp", "unset"}

ASSUME RouteGuardAssumption ==
    /\ InitialDns \subseteq DnsSettings
    /\ RouteFaults \subseteq {"query", "command", "cleanup", "kill", "power"}

\* The host route leads to the server by the physical adapter, the others cover all
\* other addresses by the tunnel.
TunRoutes == {"0.0.0.0/1", "128.0.0.0/1", "::/1", "8000::/1"}
Routes == {"host"} \cup TunRoutes

\* The server list of an adapter and whether it was set by hand or by DHCP.
Dns == [source : {"static", "dhcp"}, servers : {"own", "tunnel", "none"}]

OwnDns(setting) ==
    [source  |-> IF setting = "static" THEN "static" ELSE "dhcp",
     servers |-> IF setting = "unset" THEN "none" ELSE "own"]

\* Between the routes the script gives the adapter an IPv6 address; that command's errors
\* are ignored and nothing below depends on it.
InstallScript == <<"host", "0.0.0.0/1", "128.0.0.0/1", "::/1", "8000::/1", "setDns">>
RemoveScript_HostFirst == <<"removeHost", "removeTun", "restoreDns">>
RemoveScript == <<"removeTun", "removeHost", "restoreDns">>
RollbackScript_NoGuard == <<>>
RollbackScript == RemoveScript

Commands == Routes \cup {"setDns", "removeTun", "removeHost", "restoreDns"}

VARIABLES
    pc,       \* the client: off, query, readDns, install, rollback, active, removing
    adapter,  \* the Wintun adapter exists
    script,   \* commands the current PowerShell script has yet to run
    failed,   \* the script has ended with an error
    oldDns,   \* RouteGuard.old_dns
    routes,   \* the routes of InstallScript that exist
    dns,      \* the name servers of the physical adapter
    ownDns,   \* history: dns before the client first ran
    ignored,  \* history: a clean-up command of the last client has failed
    spoilt    \* history: a client was killed or a clean-up failed since the settings
              \* were last as found

historyVars == <<ownDns, ignored, spoilt>>
routeVars == <<pc, adapter, script, failed, oldDns, routes, dns, historyVars>>

RouteTypeOK ==
    /\ pc \in {"off", "query", "readDns", "install", "rollback", "active", "removing"}
    /\ adapter \in BOOLEAN
    /\ script \in Seq(Commands)
    /\ failed \in BOOLEAN
    /\ oldDns \in {"own", "tunnel", "none"}
    /\ routes \subseteq Routes
    /\ dns \in Dns
    /\ ownDns \in Dns
    /\ ignored \in BOOLEAN
    /\ spoilt \in BOOLEAN

RouteInit ==
    /\ pc = "off"
    /\ adapter = FALSE
    /\ script = <<>>
    /\ failed = FALSE
    /\ oldDns = "none"
    /\ routes = {}
    /\ dns \in {OwnDns(setting) : setting \in InitialDns}
    /\ ownDns = dns
    /\ ignored = FALSE
    /\ spoilt = FALSE

-----------------------------------------------------------------------------
(* The client.                                                             *)

AsFound == routes = {} /\ dns = ownDns

\* run_windows up to the adapter.  Bound: nobody starts a client while a script of a
\* killed one is still running.
Start ==
    /\ pc = "off"
    /\ script = <<>>
    /\ pc' = "query"
    /\ adapter' = TRUE
    /\ ignored' = FALSE
    /\ spoilt' = (spoilt /\ ~AsFound)
    /\ UNCHANGED <<script, failed, oldDns, routes, dns, ownDns>>

\* Without the client its adapter is gone, and the routes that use it.
AdapterGone ==
    /\ adapter' = FALSE
    /\ routes' = routes \ TunRoutes

\* A query of install fails before there is a guard.
QueryFails ==
    /\ "query" \in RouteFaults
    /\ pc \in {"query", "readDns"}
    /\ pc' = "off"
    /\ AdapterGone
    /\ UNCHANGED <<script, failed, oldDns, dns, historyVars>>

ReadRoute ==
    /\ pc = "query"
    /\ pc' = "readDns"
    /\ UNCHANGED <<adapter, script, failed, oldDns, routes, dns, historyVars>>

\* The query returns the servers and not where they come from; the guard exists before
\* the script that changes the settings starts.
ReadDns ==
    /\ pc = "readDns"
    /\ oldDns' = dns.servers
    /\ script' = InstallScript
    /\ failed' = FALSE
    /\ pc' = "install"
    /\ UNCHANGED <<adapter, routes, dns, historyVars>>

ScriptEnded == script = <<>> \/ failed

Installed ==
    /\ pc = "install"
    /\ ScriptEnded
    /\ ~failed
    /\ pc' = "active"
    /\ UNCHANGED <<adapter, script, failed, oldDns, routes, dns, historyVars>>

\* The ? after the script drops the guard while the adapter still exists.
NotInstalled ==
    /\ pc = "install"
    /\ failed
    /\ pc' = "rollback"
    /\ script' = RollbackScript
    /\ failed' = FALSE
    /\ ignored' = FALSE
    /\ UNCHANGED <<adapter, oldDns, routes, dns, ownDns, spoilt>>

\* One branch of select! ends: a relay fails, Ctrl-C, or the GUI's stop.  The device
\* halves are dropped before the guard.
SessionEnds ==
    /\ pc = "active"
    /\ pc' = "removing"
    /\ AdapterGone
    /\ script' = RemoveScript
    /\ failed' = FALSE
    /\ ignored' = FALSE
    /\ UNCHANGED <<oldDns, dns, ownDns, spoilt>>

Removed ==
    /\ pc \in {"rollback", "removing"}
    /\ ScriptEnded
    /\ pc' = "off"
    /\ oldDns' = "none"
    /\ AdapterGone
    /\ UNCHANGED <<script, failed, dns, historyVars>>

\* The process is killed, or Ctrl-C meets it before it listens for that.
Kill ==
    /\ "kill" \in RouteFaults
    /\ pc # "off"
    /\ pc' = "off"
    /\ spoilt' = TRUE
    /\ AdapterGone
    /\ UNCHANGED <<script, failed, oldDns, dns, ownDns, ignored>>

\* The machine loses its power: routes are in the ActiveStore only, name servers are not.
PowerLoss ==
    /\ "power" \in RouteFaults
    /\ pc # "off"
    /\ pc' = "off"
    /\ adapter' = FALSE
    /\ script' = <<>>
    /\ failed' = FALSE
    /\ routes' = {}
    /\ spoilt' = TRUE
    /\ UNCHANGED <<oldDns, dns, ownDns, ignored>>

-----------------------------------------------------------------------------
(* PowerShell.                                                             *)

\* -ErrorAction Stop ends the script with the first command that fails: a route that
\* exists already, an adapter that is gone, or any other reason.
MayFail(command) ==
    \/ command = "host" /\ "host" \in routes
    \/ command \in TunRoutes /\ ~adapter
    \/ "command" \in RouteFaults

MaySucceed(command) ==
    /\ command = "host" => "host" \notin routes
    /\ command \in TunRoutes => adapter

\* Set-DnsClientServerAddress, with the old servers or -ResetServerAddresses.
RestoredDns_AlwaysStatic ==
    [source |-> "static", servers |-> oldDns]
RestoredDns ==
    [source |-> IF oldDns = "none" THEN "dhcp" ELSE "static", servers |-> oldDns]

Effect(command) ==
    /\ routes' = CASE command \in Routes        -> routes \cup {command}
                   [] command = "removeTun"     -> routes \ TunRoutes
                   [] command = "removeHost"    -> routes \ {"host"}
                   [] OTHER                     -> routes
    /\ dns' = CASE command = "setDns"     -> [source |-> "static", servers |-> "tunnel"]
                [] command = "restoreDns" -> RestoredDns
                [] OTHER                  -> dns

RunCommand ==
    /\ ~ScriptEnded
    /\ MaySucceed(Head(script))
    /\ Effect(Head(script))
    /\ script' = Tail(script)
    /\ UNCHANGED <<pc, adapter, failed, oldDns, historyVars>>

\* Only the commands of InstallScript that say so stop the script.
StopsScript_RoutesOnly(command) == command \in Routes
StopsScript(command) == command \in Routes \cup {"setDns"}

CommandFails ==
    /\ ~ScriptEnded
    /\ StopsScript(Head(script))
    /\ MayFail(Head(script))
    /\ script' = <<>>
    /\ failed' = TRUE
    /\ UNCHANGED <<pc, adapter, oldDns, routes, dns, historyVars>>

\* The others go on silently.
CommandIgnored ==
    /\ ~ScriptEnded
    /\ ~StopsScript(Head(script))
    /\ "cleanup" \in RouteFaults
    /\ script' = Tail(script)
    /\ ignored' = TRUE
    /\ spoilt' = TRUE
    /\ UNCHANGED <<pc, adapter, failed, oldDns, routes, dns, ownDns>>

RouteClient ==
    \/ Start \/ QueryFails \/ ReadRoute \/ ReadDns \/ Installed \/ NotInstalled
    \/ SessionEnds \/ Removed

PowerShell == RunCommand \/ CommandFails \/ CommandIgnored

RouteNext == RouteClient \/ Kill \/ PowerLoss \/ PowerShell

RouteSpec == RouteInit /\ [][RouteNext]_routeVars

-----------------------------------------------------------------------------
(* Properties.                                                             *)

\* Unless a client was killed or a command of the clean-up failed, the machine is left as
\* it was found, at whichever command the installation failed (RouteGuard::install, Drop).
NetworkRestored ==
    pc = "off" /\ ~spoilt => AsFound

\* The tunnel's own packets never go into the tunnel: wherever a script stops and whenever
\* the client dies, a route on the tunnel adapter comes with the route to the server.
NoRoutingLoop ==
    routes \cap TunRoutes # {} /\ ~ignored => "host" \in routes /\ adapter

\* A client that ends in order takes all the routes with it, those of a killed
\* predecessor included, so the next installation does not meet them (Drop).
RoutesRemoved ==
    pc \in {"rollback", "removing"} /\ ScriptEnded /\ ~ignored => routes = {}

\* The client says "TUN active" only when all addresses are routed and name queries go to
\* the tunnel's server, whatever killed clients and failed clean-ups left behind
\* (RouteGuard::install, run_windows).
FullTunnel ==
    pc = "active" => routes = Routes /\ dns.servers = "tunnel"

\* What the design notes promise and the code does not do.

\* "The normal exit path deletes the global routes and restores DNS."
DnsRestored == pc = "off" /\ ~spoilt => dns = ownDns

=============================================================================
