-------------------------- MODULE RouteGuardProofs ---------------------------
(***************************************************************************)
(* Proofs about RouteGuard, for whatever the machine's settings are at     *)
(* first and whatever fails: the four things that its safety properties    *)
(* promise follow from one invariant that says how far the script of the   *)
(* current phase has come and what it has achieved by then.                *)
(***************************************************************************)
EXTENDS RouteGuard, Integers, TLAPS

\* What is left of a script, by how many commands that is.
Rest(s, whole) ==
    /\ s \in Seq(Commands)
    /\ Len(s) <= Len(whole)
    /\ \A i \in 1..Len(s) : s[i] = whole[i + Len(whole) - Len(s)]

\* Where the client is, its adapter is, and routes by the adapter need it.
AdapterInv ==
    /\ adapter <=> pc \in {"query", "readDns", "install", "rollback", "active"}
    /\ ~adapter => routes \cap TunRoutes = {}

\* Nothing runs before the installation and after it.
QuietInv ==
    pc \in {"query", "readDns", "active"} => script = <<>>

\* Up to the installation there is no route by the adapter; from then on each command that
\* is no longer in the script has done its work.
Achieved ==
    /\ Len(script) = 6 => routes \cap TunRoutes = {}
    /\ Len(script) <= 5 => "host" \in routes
    /\ Len(script) <= 4 => "0.0.0.0/1" \in routes
    /\ Len(script) <= 3 => "128.0.0.0/1" \in routes
    /\ Len(script) <= 2 => "::/1" \in routes
    /\ Len(script) <= 1 => "8000::/1" \in routes
    /\ Len(script) = 0 => dns.servers = "tunnel"
HostFirst == routes \cap TunRoutes = {} \/ "host" \in routes
InstallInv ==
    /\ pc \in {"query", "readDns"} => routes \cap TunRoutes = {}
    /\ pc = "install" /\ failed => script = <<>> /\ HostFirst
    /\ pc = "install" /\ ~failed => Rest(script, InstallScript) /\ Achieved
    /\ pc = "active" => routes = Routes /\ dns.servers = "tunnel"

\* The same for the clean-up, unless one of its commands has failed.
RemoveInv ==
    pc \in {"rollback", "removing"} =>
        /\ ~failed
        /\ Rest(script, RemoveScript)
        /\ ~ignored => /\ Len(script) = 3 /\ routes \cap TunRoutes # {} => "host" \in routes
                       /\ Len(script) <= 2 => routes \cap TunRoutes = {}
                       /\ Len(script) <= 1 => "host" \notin routes

RouteInv == RouteTypeOK /\ AdapterInv /\ QuietInv /\ InstallInv /\ RemoveInv

\* The command at the head is done, the rest follows.
LEMMA TailRest ==
    ASSUME NEW whole \in Seq(Commands), NEW s, Rest(s, whole), s # <<>>
    PROVE  /\ Rest(Tail(s), whole)
           /\ Len(Tail(s)) = Len(s) - 1
           /\ Len(s) \in 1..Len(whole)
           /\ Head(s) = whole[1 + Len(whole) - Len(s)]
<1>1. s \in Seq(Commands) /\ Len(s) \in 1..Len(whole) /\ Len(whole) \in Nat
  BY DEF Rest
<1>2. Tail(s) \in Seq(Commands) /\ Len(Tail(s)) = Len(s) - 1
  BY <1>1
<1>3. \A i \in 1..Len(Tail(s)) : Tail(s)[i] = s[i + 1]
  BY <1>1
<1>4. \A i \in 1..Len(Tail(s)) : s[i + 1] = whole[i + Len(whole) - Len(Tail(s))]
  <2>1. TAKE i \in 1..Len(Tail(s))
  <2>2. i + 1 \in 1..Len(s) /\ (i + 1) + Len(whole) - Len(s) = i + Len(whole) - Len(Tail(s))
    BY <1>1, <1>2
  <2>3. s[i + 1] = whole[(i + 1) + Len(whole) - Len(s)]
    BY <2>2 DEF Rest
  <2>4. QED BY <2>2, <2>3
<1>5. Head(s) = s[1] /\ s[1] = whole[1 + Len(whole) - Len(s)]
  BY <1>1 DEF Rest
<1>6. QED
  BY <1>1, <1>2, <1>3, <1>4, <1>5 DEF Rest

\* Lengths and commands of the two scripts.
LEMMA Scripts ==
    /\ InstallScript \in Seq(Commands) /\ Len(InstallScript) = 6
    /\ RemoveScript \in Seq(Commands) /\ Len(RemoveScript) = 3
    /\ Rest(InstallScript, InstallScript)
    /\ Rest(RemoveScript, RemoveScript)
    /\ RollbackScript = RemoveScript
    /\ InstallScript # <<>> /\ RemoveScript # <<>>
<1>1. InstallScript \in Seq(Commands) /\ Len(InstallScript) = 6
  BY DEF InstallScript, Commands, Routes, TunRoutes
<1>2. RemoveScript \in Seq(Commands) /\ Len(RemoveScript) = 3
  BY DEF RemoveScript, Commands
<1>3. \A whole \in Seq(Commands) : Rest(whole, whole)
  BY DEF Rest
<1>4. QED
  BY <1>1, <1>2, <1>3 DEF RollbackScript

\* Which command is next, by how many there are left.
LEMMA InstallNext ==
    ASSUME NEW s, Rest(s, InstallScript), s # <<>>
    PROVE  /\ Rest(Tail(s), InstallScript)
           /\ Len(s) \in 1..6
           /\ Len(s) = 6 \/ Len(s) <= 5
           /\ Len(Tail(s)) = Len(s) - 1
           /\ Len(s) = 6 => Head(s) = "host"
           /\ Len(s) = 5 => Head(s) = "0.0.0.0/1"
           /\ Len(s) = 4 => Head(s) = "128.0.0.0/1"
           /\ Len(s) = 3 => Head(s) = "::/1"
           /\ Len(s) = 2 => Head(s) = "8000::/1"
           /\ Len(s) = 1 => Head(s) = "setDns"
<1>1. /\ Rest(Tail(s), InstallScript)
      /\ Len(Tail(s)) = Len(s) - 1
      /\ Len(s) \in 1..6
      /\ Head(s) = InstallScript[1 + Len(InstallScript) - Len(s)]
  BY TailRest, Scripts
<1>2. /\ InstallScript[1] = "host"
      /\ InstallScript[2] = "0.0.0.0/1"
      /\ InstallScript[3] = "128.0.0.0/1"
      /\ InstallScript[4] = "::/1"
      /\ InstallScript[5] = "8000::/1"
      /\ InstallScript[6] = "setDns"
  BY DEF InstallScript
<1>3. ASSUME NEW k \in 1..6, Len(s) = k PROVE Head(s) = InstallScript[7 - k]
  <2>1. 1 + Len(InstallScript) - Len(s) = 7 - k
    BY <1>3, Scripts
  <2>2. QED BY <1>1, <2>1
<1>4. QED
  BY <1>1, <1>2, <1>3

\* The same for the clean-up.
LEMMA RemoveNext ==
    ASSUME NEW s, Rest(s, RemoveScript), s # <<>>
    PROVE  /\ Rest(Tail(s), RemoveScript)
           /\ Len(s) \in 1..3
           /\ Len(Tail(s)) = Len(s) - 1
           /\ Len(s) = 3 => Head(s) = "removeTun"
           /\ Len(s) = 2 => Head(s) = "removeHost"
           /\ Len(s) = 1 => Head(s) = "restoreDns"
<1>1. /\ Rest(Tail(s), RemoveScript)
      /\ Len(Tail(s)) = Len(s) - 1
      /\ Len(s) \in 1..3
      /\ Head(s) = RemoveScript[1 + Len(RemoveScript) - Len(s)]
  BY TailRest, Scripts
<1>2. /\ RemoveScript[1] = "removeTun"
      /\ RemoveScript[2] = "removeHost"
      /\ RemoveScript[3] = "restoreDns"
  BY DEF RemoveScript
<1>3. ASSUME NEW k \in 1..3, Len(s) = k PROVE Head(s) = RemoveScript[4 - k]
  <2>1. 1 + Len(RemoveScript) - Len(s) = 4 - k
    BY <1>3, Scripts
  <2>2. QED BY <1>1, <2>1
<1>4. QED
  BY <1>1, <1>2, <1>3

\* Whatever the settings are at first, they are name servers.
LEMMA DnsType == \A setting \in DnsSettings : OwnDns(setting) \in Dns
  BY DEF OwnDns, Dns, DnsSettings

\* Nothing is installed at first.
LEMMA InitRoute == RouteInit => RouteInv
<1> SUFFICES ASSUME RouteInit PROVE RouteInv
  OBVIOUS
<1>1. dns \in Dns /\ ownDns \in Dns
  BY RouteGuardAssumption, DnsType DEF RouteInit
<1>2. script \in Seq(Commands)
  BY DEF RouteInit
<1>3. QED
  BY <1>1, <1>2
     DEF RouteInit, RouteInv, RouteTypeOK, AdapterInv, QuietInv, InstallInv, RemoveInv

\* A step of PowerShell moves the script on by one command.
LEMMA ShellStep ==
    ASSUME RouteInv, PowerShell
    PROVE  RouteInv'
<1> USE DEF RouteInv, ScriptEnded
<1>1. script # <<>> /\ ~failed /\ pc \notin {"query", "readDns", "active"}
  BY DEF PowerShell, RunCommand, CommandFails, CommandIgnored, QuietInv, RouteTypeOK
<1>2. UNCHANGED <<pc, adapter, oldDns>>
  BY DEF PowerShell, RunCommand, CommandFails, CommandIgnored
<1>3. RouteTypeOK'
  <2>1. script' \in Seq(Commands)
    <3>1. script \in Seq(Commands) /\ script # <<>>
      BY <1>1 DEF RouteTypeOK
    <3>2. script' \in {Tail(script), <<>>}
      BY DEF PowerShell, RunCommand, CommandFails, CommandIgnored
    <3>3. Tail(script) \in Seq(Commands) /\ <<>> \in Seq(Commands)
      BY <3>1
    <3>4. QED BY <3>2, <3>3
  <2>2. failed' \in BOOLEAN /\ ignored' \in BOOLEAN /\ spoilt' \in BOOLEAN /\ ownDns' \in Dns
    BY DEF PowerShell, RunCommand, CommandFails, CommandIgnored, RouteTypeOK, historyVars
  <2>3. RestoredDns \in Dns /\ [source |-> "static", servers |-> "tunnel"] \in Dns
    BY DEF RouteTypeOK, RestoredDns, Dns
  <2>4. dns' \in Dns /\ routes' \subseteq Routes
    BY <2>3
       DEF PowerShell, RunCommand, CommandFails, CommandIgnored, RouteTypeOK, Effect, Routes
  <2>5. QED
    BY <1>2, <2>1, <2>2, <2>4 DEF RouteTypeOK
<1>4. AdapterInv'
  BY <1>1, <1>2 DEF PowerShell, RunCommand, CommandFails, CommandIgnored, AdapterInv, Effect,
     MaySucceed
<1>5. QuietInv'
  BY <1>1, <1>2 DEF QuietInv
<1>6. ASSUME pc = "install" PROVE InstallInv' /\ RemoveInv'
  <2>1. Rest(script, InstallScript)
    BY <1>1, <1>6 DEF InstallInv
  <2>3. StopsScript(Head(script))
    BY <1>1, <2>1, InstallNext DEF StopsScript, Routes, TunRoutes
  <2>4. CASE RunCommand
    <3>1. /\ UNCHANGED <<pc, failed>>
          /\ Effect(Head(script))
          /\ script' = Tail(script)
      BY <2>4 DEF RunCommand
    <3>2. /\ Head(script) \in Routes => routes' = routes \cup {Head(script)}
          /\ Head(script) = "setDns" => routes' = routes /\ dns'.servers = "tunnel"
      BY <3>1 DEF Effect, Routes, TunRoutes
    <3>3. routes \subseteq routes'
      BY <1>1, <2>1, <3>2, InstallNext DEF Routes, TunRoutes
    <3>4. Len(script') = 5 => "host" \in routes'
      BY <1>1, <2>1, <3>1, <3>2, InstallNext DEF Routes, TunRoutes
    <3>5. /\ Rest(script', InstallScript)
          /\ Len(script) \in 1..6
          /\ Len(script') = Len(script) - 1
      BY <1>1, <2>1, <3>1, InstallNext
    <3>6. /\ Len(script) = 5 => "0.0.0.0/1" \in routes'
          /\ Len(script) = 4 => "128.0.0.0/1" \in routes'
          /\ Len(script) = 3 => "::/1" \in routes'
          /\ Len(script) = 2 => "8000::/1" \in routes'
          /\ Len(script) = 1 => dns'.servers = "tunnel"
      BY <1>1, <2>1, <3>2, InstallNext DEF Routes, TunRoutes
    <3>7. InstallInv'
      <4>1. Achieved
        BY <1>1, <1>6 DEF InstallInv
      <4>2. Achieved'
        BY <3>3, <3>4, <3>5, <3>6, <4>1 DEF Achieved
      <4>3. QED BY <1>1, <1>6, <3>1, <3>5, <4>2 DEF InstallInv
    <3>8. QED BY <1>6, <3>1, <3>7 DEF RemoveInv
  <2>5. CASE CommandFails
    <3>1. pc' = "install" /\ failed' /\ script' = <<>> /\ routes' = routes
      BY <1>2, <1>6, <2>5 DEF CommandFails
    <3>2. HostFirst'
      <4>1. Len(script) = 6 \/ Len(script) <= 5
        BY <1>1, <2>1, InstallNext
      <4>2. Achieved
        BY <1>1, <1>6 DEF InstallInv
      <4>3. HostFirst
        BY <4>1, <4>2 DEF Achieved, HostFirst
      <4>4. QED BY <3>1, <4>3 DEF HostFirst
    <3>3. QED BY <3>1, <3>2 DEF InstallInv, RemoveInv
  <2>6. QED BY <2>3, <2>4, <2>5 DEF PowerShell, CommandIgnored
<1>7. ASSUME pc \in {"rollback", "removing"} PROVE InstallInv' /\ RemoveInv'
  <2>1. Rest(script, RemoveScript)
    BY <1>1, <1>7 DEF RemoveInv
  <2>3. ~StopsScript(Head(script))
    BY <1>1, <2>1, RemoveNext DEF StopsScript, Routes, TunRoutes
  <2>4. CASE RunCommand
    <3>1. /\ UNCHANGED <<pc, failed, ignored>>
          /\ Effect(Head(script))
          /\ script' = Tail(script)
      BY <2>4 DEF RunCommand, historyVars
    <3>2. /\ Head(script) = "removeTun" => routes' = routes \ TunRoutes
          /\ Head(script) = "removeHost" => routes' = routes \ {"host"}
          /\ Head(script) = "restoreDns" => routes' = routes
      BY <3>1 DEF Effect, Routes, TunRoutes
    <3>3. /\ Rest(script', RemoveScript)
          /\ Len(script) \in 1..3
          /\ Len(script') = Len(script) - 1
      BY <1>1, <2>1, <3>1, RemoveNext
    <3>4. /\ Len(script) = 3 => routes' = routes \ TunRoutes
          /\ Len(script) = 2 => routes' = routes \ {"host"}
          /\ Len(script) = 1 => routes' = routes
      BY <1>1, <2>1, <3>2, RemoveNext
    <3>5. RemoveInv'
      BY <1>1, <1>7, <3>1, <3>3, <3>4 DEF RemoveInv
    <3>6. QED BY <1>7, <3>1, <3>5 DEF InstallInv
  <2>5. CASE CommandIgnored
    BY <1>1, <1>2, <1>7, <2>1, <2>5, RemoveNext DEF CommandIgnored, RemoveInv, InstallInv
  <2>6. QED BY <2>3, <2>4, <2>5 DEF PowerShell, CommandFails
<1>8. ASSUME pc = "off" PROVE InstallInv' /\ RemoveInv'
  BY <1>2, <1>8 DEF InstallInv, RemoveInv
<1>9. QED
  BY <1>1, <1>3, <1>4, <1>5, <1>6, <1>7, <1>8 DEF RouteTypeOK

\* Each step of the client, which changes no name server.
LEMMA ClientStep ==
    ASSUME RouteInv, RouteClient
    PROVE  RouteInv'
<1>1. RouteTypeOK /\ AdapterInv /\ QuietInv /\ InstallInv /\ RemoveInv
  BY DEF RouteInv
<1>2. RouteTypeOK'
  <2>1. RollbackScript \in Seq(Commands) /\ RemoveScript \in Seq(Commands)
        /\ InstallScript \in Seq(Commands)
    BY Scripts
  <2>2. dns.servers \in {"own", "tunnel", "none"}
    BY <1>1 DEF RouteTypeOK, Dns
  <2>3. QED
    BY <1>1, <2>1, <2>2
       DEF RouteClient, Start, QueryFails, ReadRoute, ReadDns, Installed, NotInstalled,
           SessionEnds, Removed, AdapterGone, RouteTypeOK, historyVars
<1>3. CASE Start
  BY <1>1, <1>2, <1>3
     DEF Start, RouteInv, AdapterInv, QuietInv, InstallInv, RemoveInv
<1>4. CASE QueryFails \/ Removed
  BY <1>2, <1>4
     DEF QueryFails, Removed, AdapterGone, RouteInv, AdapterInv, QuietInv, InstallInv, RemoveInv
<1>5. CASE ReadRoute
  BY <1>1, <1>2, <1>5
     DEF ReadRoute, RouteInv, AdapterInv, QuietInv, InstallInv, RemoveInv
<1>6. CASE ReadDns
  <2>1. Len(script') = 6 /\ Rest(script', InstallScript)
    BY <1>6, Scripts DEF ReadDns
  <2>2. Achieved'
    BY <1>1, <1>6, <2>1 DEF ReadDns, Achieved, InstallInv
  <2>3. QED
    BY <1>1, <1>2, <1>6, <2>1, <2>2
       DEF ReadDns, RouteInv, AdapterInv, QuietInv, InstallInv, RemoveInv
<1>7. CASE Installed
  <2>1. script = <<>> /\ pc = "install" /\ ~failed
    BY <1>7 DEF Installed, ScriptEnded
  <2>2. Achieved /\ Len(script) = 0
    BY <1>1, <2>1 DEF InstallInv
  <2>3. routes = Routes /\ dns.servers = "tunnel"
    <3>1. dns.servers = "tunnel"
      BY <2>2 DEF Achieved
    <3>2. {"host", "0.0.0.0/1", "128.0.0.0/1", "::/1", "8000::/1"} \subseteq routes
      BY <2>2 DEF Achieved
    <3>3. routes \subseteq Routes
      BY <1>1 DEF RouteTypeOK
    <3>4. QED BY <3>1, <3>2, <3>3 DEF Routes, TunRoutes
  <2>4. QED
    BY <1>1, <1>2, <1>7, <2>1, <2>3
       DEF Installed, RouteInv, AdapterInv, QuietInv, InstallInv, RemoveInv
<1>8. CASE NotInstalled
  <2>1. HostFirst
    BY <1>1, <1>8 DEF NotInstalled, InstallInv
  <2>2. Len(script') = 3 /\ Rest(script', RemoveScript)
    BY <1>8, Scripts DEF NotInstalled
  <2>3. RemoveInv'
    BY <1>8, <2>1, <2>2 DEF NotInstalled, RemoveInv, HostFirst
  <2>4. QED
    BY <1>1, <1>2, <1>8, <2>3
       DEF NotInstalled, RouteInv, AdapterInv, QuietInv, InstallInv
<1>9. CASE SessionEnds
  <2>1. Len(script') = 3 /\ Rest(script', RemoveScript)
    BY <1>9, Scripts DEF SessionEnds
  <2>2. routes' \cap TunRoutes = {} /\ ~adapter' /\ pc' = "removing" /\ ~failed'
    BY <1>9 DEF SessionEnds, AdapterGone
  <2>3. RemoveInv'
    BY <2>1, <2>2 DEF RemoveInv
  <2>4. QED
    BY <1>2, <2>2, <2>3 DEF RouteInv, AdapterInv, QuietInv, InstallInv
<1>10. QED
  BY <1>3, <1>4, <1>5, <1>6, <1>7, <1>8, <1>9 DEF RouteClient

\* A client that dies takes its adapter along, whatever its script goes on to do.
LEMMA DeathStep ==
    ASSUME RouteInv, Kill \/ PowerLoss
    PROVE  RouteInv'
<1>1. RouteTypeOK'
  <2>1. CASE Kill
    BY <2>1 DEF RouteInv, RouteTypeOK, Kill, AdapterGone
  <2>2. CASE PowerLoss
    <3>1. script' \in Seq(Commands)
      BY <2>2 DEF PowerLoss
    <3>2. pc' = "off" /\ adapter' = FALSE /\ failed' = FALSE /\ routes' = {} /\ spoilt' = TRUE
          /\ UNCHANGED <<oldDns, dns, ownDns, ignored>>
      BY <2>2 DEF PowerLoss
    <3>3. QED BY <3>1, <3>2 DEF RouteInv, RouteTypeOK
  <2>3. QED BY <2>1, <2>2
<1>2. pc' = "off" /\ ~adapter' /\ routes' \cap TunRoutes = {}
  BY DEF Kill, PowerLoss, AdapterGone
<1>3. QED
  BY <1>1, <1>2 DEF RouteInv, AdapterInv, QuietInv, InstallInv, RemoveInv

\* Every step keeps the invariant.
LEMMA NextRoute == RouteInv /\ [RouteNext]_routeVars => RouteInv'
<1> SUFFICES ASSUME RouteInv, [RouteNext]_routeVars PROVE RouteInv'
  OBVIOUS
<1>1. CASE UNCHANGED routeVars
  BY <1>1
     DEF routeVars, historyVars, RouteInv, RouteTypeOK, AdapterInv, QuietInv, InstallInv,
         RemoveInv, Achieved, HostFirst, Rest
<1>2. QED
  BY <1>1, ShellStep, ClientStep, DeathStep DEF RouteNext

\* The inductive invariant.
THEOREM RouteInvariant == RouteSpec => []RouteInv
<1>1. QED BY InitRoute, NextRoute, PTL DEF RouteSpec

-----------------------------------------------------------------------------
(* What it implies.                                                        *)

\* The host route is the first to come and the last to go.
LEMMA InvNoLoop == RouteInv => NoRoutingLoop
<1> SUFFICES ASSUME RouteInv, routes \cap TunRoutes # {}, ~ignored
             PROVE  "host" \in routes /\ adapter
  BY DEF NoRoutingLoop
<1>1. adapter /\ pc \in {"query", "readDns", "install", "rollback", "active"}
  BY DEF RouteInv, AdapterInv
<1>2. CASE pc \in {"query", "readDns"}
  BY <1>2 DEF RouteInv, InstallInv
<1>3. CASE pc = "install" /\ failed
  BY <1>1, <1>3 DEF RouteInv, InstallInv, HostFirst
<1>4. CASE pc = "install" /\ ~failed
  <2>1. Rest(script, InstallScript) /\ Achieved
    BY <1>4 DEF RouteInv, InstallInv
  <2>2. script = <<>> \/ Len(script) = 6 \/ Len(script) <= 5
    BY <2>1, InstallNext
  <2>3. script = <<>> => Len(script) = 0 /\ Len(script) <= 5
    OBVIOUS
  <2>4. QED BY <1>1, <2>1, <2>2, <2>3 DEF Achieved
<1>5. CASE pc = "rollback"
  <2>1. /\ Rest(script, RemoveScript)
        /\ Len(script) = 3 => "host" \in routes
        /\ ~(Len(script) <= 2)
    BY <1>5 DEF RouteInv, RemoveInv
  <2>2. Len(script) = 3
    BY <2>1, Scripts DEF Rest
  <2>3. QED BY <1>1, <2>1, <2>2
<1>6. CASE pc = "active"
  BY <1>1, <1>6 DEF RouteInv, InstallInv, Routes
<1>7. QED
  BY <1>1, <1>2, <1>3, <1>4, <1>5, <1>6

\* An empty script of the clean-up has done everything.
LEMMA InvRemoved == RouteInv => RoutesRemoved
<1> SUFFICES ASSUME RouteInv, pc \in {"rollback", "removing"}, ScriptEnded, ~ignored
             PROVE  routes = {}
  BY DEF RoutesRemoved
<1>1. script = <<>>
  BY DEF RouteInv, RemoveInv, ScriptEnded
<1>2. Len(script) = 0 /\ Len(script) <= 1 /\ Len(script) <= 2
  BY <1>1
<1>3. routes \cap TunRoutes = {} /\ "host" \notin routes
  BY <1>2 DEF RouteInv, RemoveInv
<1>4. routes \subseteq Routes
  BY DEF RouteInv, RouteTypeOK
<1>5. QED
  BY <1>3, <1>4 DEF Routes

\* Every variable keeps its type, and above all a script holds commands that one of the two
\* scripts has.
THEOREM RouteTypes == RouteSpec => []RouteTypeOK
<1>1. RouteInv => RouteTypeOK BY DEF RouteInv
<1>2. QED BY <1>1, RouteInvariant, PTL

\* The tunnel's own packets never go into the tunnel (RouteGuard::install, Drop).
THEOREM NeverLoops == RouteSpec => []NoRoutingLoop
<1>1. QED BY InvNoLoop, RouteInvariant, PTL

\* A client that ends in order leaves no route behind, not even those of a killed one (Drop).
THEOREM RoutesGone == RouteSpec => []RoutesRemoved
<1>1. QED BY InvRemoved, RouteInvariant, PTL

\* An active client has all addresses and name queries in the tunnel, whatever killed clients
\* and failed clean-ups left behind (RouteGuard::install).
THEOREM TunnelIsFull == RouteSpec => []FullTunnel
<1>1. RouteInv => FullTunnel BY DEF RouteInv, InstallInv, FullTunnel
<1>2. QED BY <1>1, RouteInvariant, PTL

-----------------------------------------------------------------------------
(* The settings are as they were found: name servers do not come from      *)
(* DHCP, as those that do are not restored.                                *)

\* Up to the installation nothing has changed; from then on the guard knows the old name
\* servers, and has restored them when its script is through.
RestoreInv ==
    /\ RouteInv
    /\ ownDns \in {OwnDns("static"), OwnDns("unset")}
    /\ ignored => spoilt
    /\ ~spoilt =>
        /\ pc \in {"off", "query", "readDns"} => AsFound /\ script = <<>>
        /\ pc \in {"install", "active", "rollback", "removing"} => oldDns = ownDns.servers
        /\ pc \in {"rollback", "removing"} /\ script = <<>> => dns = ownDns

\* The first settings are the user's own.
LEMMA InitRestore == ASSUME "dhcp" \notin InitialDns PROVE RouteInit => RestoreInv
<1>1. InitialDns \subseteq {"static", "unset"}
  BY RouteGuardAssumption DEF DnsSettings
<1>2. QED
  BY <1>1, InitRoute DEF RouteInit, RestoreInv, AsFound

\* The remembered servers tell how they were set, unless DHCP gave them.
LEMMA RestoresOwn ==
    ASSUME ownDns \in {OwnDns("static"), OwnDns("unset")}, oldDns = ownDns.servers
    PROVE  RestoredDns = ownDns
<1>1. CASE ownDns = OwnDns("static")
  BY <1>1 DEF OwnDns, RestoredDns
<1>2. CASE ownDns = OwnDns("unset")
  BY <1>2 DEF OwnDns, RestoredDns
<1>3. QED BY <1>1, <1>2

\* Commands change the name servers only from the user's to the tunnel's and back.
LEMMA RestoreShell ==
    ASSUME RestoreInv, PowerShell, RouteInv'
    PROVE  RestoreInv'
<1>1. script # <<>> /\ ~failed
  BY DEF PowerShell, RunCommand, CommandFails, CommandIgnored, ScriptEnded
<1>2. UNCHANGED <<pc, oldDns, ownDns>>
  BY DEF PowerShell, RunCommand, CommandFails, CommandIgnored, historyVars
<1>3. ignored' => spoilt'
  BY DEF PowerShell, RunCommand, CommandFails, CommandIgnored, historyVars, RestoreInv
<1>4. spoilt => spoilt'
  BY DEF PowerShell, RunCommand, CommandFails, CommandIgnored, historyVars
<1>5. ASSUME ~spoilt', pc \in {"rollback", "removing"}, script' = <<>>
      PROVE  dns' = ownDns
  <2>1. Rest(script, RemoveScript)
    BY <1>5 DEF RestoreInv, RouteInv, RemoveInv
  <2>2. ~StopsScript(Head(script))
    BY <1>1, <2>1, RemoveNext DEF StopsScript, Routes, TunRoutes
  <2>3. RunCommand
    BY <1>5, <2>2 DEF PowerShell, CommandFails, CommandIgnored
  <2>4. script' = Tail(script) /\ Effect(Head(script))
    BY <2>3 DEF RunCommand
  <2>5. Len(script) = 1
    <3>1. Len(Tail(script)) = 0
      <4>1. Tail(script) = <<>>
        BY <1>5, <2>4
      <4>2. Len(<<>>) = 0
        OBVIOUS
      <4>3. QED BY ONLY <4>1, <4>2
    <3>2. Len(script) \in 1..3 /\ Len(Tail(script)) = Len(script) - 1
      BY <1>1, <2>1, RemoveNext
    <3>3. QED BY <3>1, <3>2
  <2>6. Head(script) = "restoreDns"
    BY <1>1, <2>1, <2>5, RemoveNext
  <2>7. dns' = RestoredDns
    BY <2>4, <2>6 DEF Effect
  <2>8. QED
    BY <1>4, <1>5, <2>7, RestoresOwn DEF RestoreInv
<1>6. ~spoilt' => pc \notin {"off", "query", "readDns"}
  BY <1>1, <1>4 DEF RestoreInv
<1>7. QED
  BY <1>2, <1>3, <1>4, <1>5, <1>6 DEF RestoreInv

\* The client remembers the user's servers before it changes them.
LEMMA RestoreClient ==
    ASSUME RestoreInv, RouteClient, RouteInv'
    PROVE  RestoreInv'
<1>1. UNCHANGED <<dns, ownDns>>
  BY DEF RouteClient, Start, QueryFails, ReadRoute, ReadDns, Installed, NotInstalled,
         SessionEnds, Removed, historyVars
<1>2. CASE Start
  BY <1>1, <1>2 DEF Start, RestoreInv, AsFound
<1>3. CASE QueryFails
  BY <1>1, <1>3 DEF QueryFails, AdapterGone, RestoreInv, AsFound, historyVars
<1>4. CASE ReadRoute
  BY <1>1, <1>4 DEF ReadRoute, RestoreInv, AsFound, historyVars
<1>5. CASE ReadDns
  BY <1>1, <1>5 DEF ReadDns, RestoreInv, AsFound, historyVars
<1>6. CASE Installed
  BY <1>1, <1>6 DEF Installed, RestoreInv, historyVars
<1>7. CASE NotInstalled \/ SessionEnds
  BY <1>1, <1>7, Scripts DEF NotInstalled, SessionEnds, RestoreInv
<1>8. CASE Removed
  <2>1. pc \in {"rollback", "removing"} /\ script = <<>> /\ ScriptEnded
    BY <1>8 DEF Removed, ScriptEnded, RestoreInv, RouteInv, RemoveInv
  <2>2. ~spoilt => routes = {} /\ dns = ownDns
    BY <2>1, InvRemoved DEF RestoreInv, RoutesRemoved
  <2>3. QED
    BY <1>1, <1>8, <2>1, <2>2 DEF Removed, AdapterGone, RestoreInv, AsFound, historyVars
<1>9. QED
  BY <1>2, <1>3, <1>4, <1>5, <1>6, <1>7, <1>8 DEF RouteClient

\* A killed client is excepted, every other step keeps the way back.
LEMMA NextRestore == RestoreInv /\ [RouteNext]_routeVars => RestoreInv'
<1> SUFFICES ASSUME RestoreInv, [RouteNext]_routeVars PROVE RestoreInv'
  OBVIOUS
<1>1. RouteInv'
  BY NextRoute DEF RestoreInv
<1>2. CASE Kill \/ PowerLoss
  BY <1>1, <1>2 DEF Kill, PowerLoss, RestoreInv
<1>3. CASE UNCHANGED routeVars
  BY <1>1, <1>3 DEF routeVars, historyVars, RestoreInv, AsFound
<1>4. QED
  BY <1>1, <1>2, <1>3, RestoreShell, RestoreClient DEF RouteNext

\* Whatever command fails to install, the machine is left as it was found, unless its name
\* servers came from DHCP, a client was killed or the clean-up failed (RouteGuard::install,
\* Drop).
THEOREM Restored == "dhcp" \notin InitialDns => (RouteSpec => []NetworkRestored)
<1> SUFFICES ASSUME "dhcp" \notin InitialDns PROVE RouteSpec => []NetworkRestored
  OBVIOUS
<1>1. RestoreInv => NetworkRestored
  BY DEF RestoreInv, NetworkRestored
<1>2. QED
  BY <1>1, InitRestore, NextRestore, PTL DEF RouteSpec

=============================================================================
