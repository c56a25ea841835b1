----------------------------- MODULE TunTunnel ------------------------------
(***************************************************************************)
(* TUN mode between ss-client (crates/client/src/tun_mode.rs) and          *)
(* ss-server (crates/server/src/main.rs, handle_tun).  The server has one  *)
(* device, ss-tun0, and one mutex, tun_lock, that a connection in TUN mode *)
(* must win to use it.  The protocol has no answer to the request for TUN  *)
(* mode: a client installs its routes and is active whether or not the     *)
(* server lets it in.                                                      *)
(*                                                                         *)
(* What installing the routes does to the client's machine is RouteGuard's *)
(* matter; here it is one step, and TunSystem composes the two.            *)
(***************************************************************************)
EXTENDS Naturals, Sequences, FiniteSets

CONSTANTS
    Conns,       \* TUN connections, each from one run of ss-client
    None,        \* no connection, no packet
    Broken,      \* a device that fails
    ClientSent,  \* packets a client's machine routes into the tunnel
    ServerSent,  \* packets the server's machine routes to its device or sends there itself
    Capacity,    \* frames that fit into one direction of a connection
    Faults       \* subset of {"device", "io", "vanish", "exit"}

TunMtu == 1400

\* What the code reads of a packet: how many bytes there are, version and header length
\* (in words) from the first byte, the total length it states, and whether source and
\* destination are 10.8.0.2.
Packets == [len : 1..TunMtu, version : 0..15, ihl : 0..15, total : 0..65535,
            source : {"client", "other"}, destination : {"client", "other"}]

ASSUME TunTunnelAssumption ==
    /\ None \notin Conns
    /\ ClientSent \cup ServerSent \subseteq Packets
    /\ None \notin ServerSent /\ Broken \notin ServerSent \cup {None}
    /\ Capacity \in Nat \ {0}
    /\ Faults \subseteq {"device", "io", "vanish", "exit"}

VARIABLES
    client,  \* per connection: off, setup, active, ended, or vanished without a FIN
    server,  \* per connection: none, device, relay, drop, unlock, ended
    up,      \* frames on their way to the server
    down,    \* frames on their way to the client
    cut,     \* connections one of whose sockets is closed
    lock,    \* who holds tun_lock
    dev,     \* whose ss-tun0 exists
    tap      \* what ss-tun0 has for its reader: a packet, None, or Broken

vars == <<client, server, up, down, cut, lock, dev, tap>>

ClientStates == {"off", "setup", "active", "ended", "vanished"}
ServerStates == {"none", "device", "relay", "drop", "unlock", "ended"}

Init ==
    /\ client = [c \in Conns |-> "off"]
    /\ server = [c \in Conns |-> "none"]
    /\ up = [c \in Conns |-> <<>>]
    /\ down = [c \in Conns |-> <<>>]
    /\ cut = {}
    /\ lock = None
    /\ dev = None
    /\ tap = None

\* validate_ipv4_packet, and on top of it the check of either direction.
ValidIpv4_LengthAsIndex(p) ==
    /\ p.len >= 20 /\ p.len < TunMtu
    /\ p.version = 4
    /\ 4 * p.ihl \in 20..p.len
    /\ p.total = p.len
ValidIpv4(p) ==
    /\ p.len >= 20 /\ p.len <= TunMtu
    /\ p.version = 4
    /\ 4 * p.ihl \in 20..p.len
    /\ p.total = p.len

ValidPacket(p) == ValidIpv4(p) /\ p.source = "client"
ValidResponse(p) == ValidIpv4(p) /\ p.destination = "client"

\* write_all waits while the socket is full.
Room_Always(frames) == TRUE
Room(frames) == Len(frames) < Capacity

-----------------------------------------------------------------------------
(* The client.                                                             *)

\* connect_tun: connection, salt and the frame that asks for TUN mode.
Connect(c) ==
    /\ client[c] = "off"
    /\ client' = [client EXCEPT ![c] = "setup"]
    /\ UNCHANGED <<server, up, down, cut, lock, dev, tap>>

\* The adapter and the routes are there.
Activate(c) ==
    /\ client[c] = "setup"
    /\ client' = [client EXCEPT ![c] = "active"]
    /\ UNCHANGED <<server, up, down, cut, lock, dev, tap>>

\* run_windows returns and drops the connection.
ClientReturns(c) ==
    /\ client' = [client EXCEPT ![c] = "ended"]
    /\ cut' = cut \cup {c}
    /\ UNCHANGED <<server, up, down, lock, dev, tap>>

InstallFails(c) == client[c] = "setup" /\ ClientReturns(c)

\* Ctrl-C or the stop command, or the adapter fails at whatever time: an error of reading or
\* writing, or no bytes.
Stop(c) == client[c] = "active" /\ ClientReturns(c)

\* The machine loses power or its network: the server is not told.
Vanish(c) ==
    /\ "vanish" \in Faults
    /\ client[c] \in {"setup", "active"}
    /\ client' = [client EXCEPT ![c] = "vanished"]
    /\ UNCHANGED <<server, up, down, cut, lock, dev, tap>>

\* What the server has sent to a machine that is gone is never acknowledged, and its
\* kernel gives the connection up.
Expire(c) ==
    /\ client[c] = "vanished"
    /\ down[c] # <<>>
    /\ cut' = cut \cup {c}
    /\ UNCHANGED <<client, server, up, down, lock, dev, tap>>

\* upload: packets that are not IPv4 stay behind, the rest goes out unchecked.
Forwarded(p) == p.version = 4
Upload(c, p) ==
    /\ client[c] = "active"
    /\ c \notin cut
    /\ Forwarded(p)
    /\ Room(up[c])
    /\ up' = [up EXCEPT ![c] = Append(@, p)]
    /\ UNCHANGED <<client, server, down, cut, lock, dev, tap>>

\* download: the next frame goes to the adapter if it is a valid response.
Download(c) ==
    /\ client[c] = "active"
    /\ down[c] # <<>>
    /\ ValidResponse(Head(down[c]))
    /\ down' = [down EXCEPT ![c] = Tail(@)]
    /\ UNCHANGED <<client, server, up, cut, lock, dev, tap>>

\* The server has closed the connection, or sent what is no valid response.
Closed_Ignored(c) == FALSE
Closed(c) == c \in cut
ClientFails(c) ==
    /\ client[c] = "active"
    /\ \/ Closed(c)
       \/ down[c] # <<>> /\ ~ValidResponse(Head(down[c]))
    /\ ClientReturns(c)

Client(c) == Activate(c) \/ Download(c) \/ ClientFails(c)

-----------------------------------------------------------------------------
(* The server.                                                             *)

\* handle_connection reads salt and first frame, finds TUN mode and asks for the mutex:
\* try_lock_owned does not wait.
Asks(c) == client[c] # "off" /\ server[c] = "none"

TryLock(c) ==
    /\ Asks(c)
    /\ lock = None
    /\ lock' = c
    /\ server' = [server EXCEPT ![c] = "device"]
    /\ UNCHANGED <<client, up, down, cut, dev, tap>>

\* The server drops its socket, and what it has not read is lost.
ServerCloses(c) ==
    /\ cut' = cut \cup {c}
    /\ up' = [up EXCEPT ![c] = <<>>]

Refuse(c) ==
    /\ Asks(c)
    /\ lock # None
    /\ server' = [server EXCEPT ![c] = "ended"]
    /\ ServerCloses(c)
    /\ UNCHANGED <<client, down, lock, dev, tap>>

CreateDevice(c) ==
    /\ server[c] = "device"
    /\ dev = None
    /\ dev' = c
    /\ server' = [server EXCEPT ![c] = "relay"]
    /\ UNCHANGED <<client, up, down, cut, lock, tap>>

\* A device of that name exists, or the capability is missing.
DeviceFails(c) ==
    /\ server[c] = "device"
    /\ dev # None \/ "device" \in Faults
    /\ server' = [server EXCEPT ![c] = "unlock"]
    /\ UNCHANGED <<client, up, down, cut, lock, dev, tap>>

\* inbound: what the client sent goes to the device, with its source checked.
Inbound(c) ==
    /\ server[c] = "relay"
    /\ up[c] # <<>>
    /\ ValidPacket(Head(up[c]))
    /\ tap # Broken
    /\ up' = [up EXCEPT ![c] = Tail(@)]
    /\ UNCHANGED <<client, server, down, cut, lock, dev, tap>>

\* The server's machine sends a packet through the device.  When the session no longer
\* relays, nobody reads it.
Arrives(c, p) ==
    /\ server[c] = "relay"
    /\ tap = None
    /\ tap' = p
    /\ UNCHANGED <<client, server, up, down, cut, lock, dev>>

\* Somebody takes the interface down or away.
DeviceBreaks(c) ==
    /\ "io" \in Faults
    /\ server[c] = "relay"
    /\ tap' = Broken
    /\ UNCHANGED <<client, server, up, down, cut, lock, dev>>

\* outbound: a packet from the device goes to the client, with its destination checked.
Outbound(c) ==
    /\ server[c] = "relay"
    /\ c \notin cut
    /\ tap \in ServerSent
    /\ ValidResponse(tap)
    /\ Room(down[c])
    /\ down' = [down EXCEPT ![c] = Append(@, tap)]
    /\ tap' = None
    /\ UNCHANGED <<client, server, up, cut, lock, dev>>

\* One branch of select! ends, which cancels the other; the halves of the connection are
\* dropped first.
RelayEnds_GuardFirst(c) ==
    /\ server[c] = "relay"
    /\ server' = [server EXCEPT ![c] = "drop"]
    /\ ServerCloses(c)
    /\ lock' = None
    /\ UNCHANGED <<client, down, dev, tap>>
RelayEnds(c) ==
    /\ server[c] = "relay"
    /\ server' = [server EXCEPT ![c] = "drop"]
    /\ ServerCloses(c)
    /\ UNCHANGED <<client, down, lock, dev, tap>>

\* The end of the connection is behind what was sent before it, but a client that closes
\* with frames unread resets the connection.
EndRead_Ignored(c) == FALSE
EndRead(c) == c \in cut /\ (up[c] = <<>> \/ down[c] # <<>>)

\* A frame that is no valid packet or that the device does not take, or the end of the
\* connection.
InboundFails(c) ==
    /\ \/ up[c] # <<>> /\ (ValidPacket(Head(up[c])) => tap = Broken)
       \/ EndRead(c)
    /\ RelayEnds(c)

\* A packet from the device that is not valid, or that is for a closed connection; or the
\* device returns an error or no bytes.
OutboundFails(c) ==
    /\ \/ tap \in ServerSent /\ (ValidResponse(tap) => c \in cut)
       \/ tap = Broken
    /\ RelayEnds(c)

\* The rest of handle_tun's scope is dropped in the reverse order of its declaration: the
\* device, and last the guard of tun_lock.
DropDevice(c) ==
    /\ server[c] = "drop"
    /\ dev' = None
    /\ tap' = None
    /\ server' = [server EXCEPT ![c] = "unlock"]
    /\ UNCHANGED <<client, up, down, cut, lock>>

Unlock(c) ==
    /\ server[c] = "unlock"
    /\ lock' = None
    /\ ServerCloses(c)
    /\ server' = [server EXCEPT ![c] = "ended"]
    /\ UNCHANGED <<client, down, dev, tap>>

Server(c) ==
    \/ TryLock(c) \/ Refuse(c) \/ CreateDevice(c) \/ DeviceFails(c)
    \/ Inbound(c) \/ InboundFails(c) \/ DropDevice(c) \/ Unlock(c)

\* One failing accept, or a signal, ends the server's process with all its sessions; it is
\* started again at once.
Connected == {c \in Conns : client[c] # "off"}
ServerExits ==
    /\ "exit" \in Faults
    /\ server' = [c \in Conns |-> IF c \in Connected THEN "ended" ELSE server[c]]
    /\ cut' = cut \cup Connected
    /\ up' = [c \in Conns |-> <<>>]
    /\ lock' = None
    /\ dev' = None
    /\ tap' = None
    /\ UNCHANGED <<client, down>>

-----------------------------------------------------------------------------
\* Bound: the name of a connection that is over on both sides is used again, so that runs
\* of clients follow each other without end.
Reuse(c) ==
    /\ client[c] \in {"ended", "vanished"}
    /\ server[c] = "ended"
    /\ client' = [client EXCEPT ![c] = "off"]
    /\ server' = [server EXCEPT ![c] = "none"]
    /\ down' = [down EXCEPT ![c] = <<>>]
    /\ cut' = cut \ {c}
    /\ UNCHANGED <<up, lock, dev, tap>>

\* What nobody can count on.
Environment(c) == Connect(c) \/ InstallFails(c) \/ Stop(c) \/ Vanish(c) \/ Expire(c) \/ Reuse(c)

\* The packets of the two machines, and what the server's device does with them.
Traffic(c) ==
    \/ \E p \in ClientSent : Upload(c, p)
    \/ \E p \in ServerSent : Arrives(c, p)
    \/ DeviceBreaks(c) \/ Outbound(c) \/ OutboundFails(c)

Next ==
    \/ \E c \in Conns : Client(c) \/ Server(c) \/ Environment(c) \/ Traffic(c)
    \/ ServerExits

Spec == Init /\ [][Next]_vars

-----------------------------------------------------------------------------
(* Properties.                                                             *)

TypeOK ==
    /\ client \in [Conns -> ClientStates]
    /\ server \in [Conns -> ServerStates]
    /\ \A c \in Conns : /\ up[c] \in Seq(ClientSent) /\ Len(up[c]) <= Capacity
                       /\ down[c] \in Seq(ServerSent) /\ Len(down[c]) <= Capacity
    /\ cut \subseteq Conns
    /\ lock \in Conns \cup {None}
    /\ dev \in Conns \cup {None}
    /\ tap \in ServerSent \cup {None, Broken}

\* The server serves one TUN client: ss-tun0 belongs to the session that relays until that
\* session has removed it, and whoever wins the mutex does not meet the device of the
\* session before (handle_tun, and the order in which its scope is dropped).
OneClient ==
    \A c \in Conns :
        /\ server[c] = "device" => dev = None
        /\ server[c] \in {"relay", "drop"} => dev = c
        /\ server[c] \in {"device", "relay", "drop", "unlock"} <=> lock = c

\* When a client has ended, its session gives the device and the mutex back, whatever it
\* was doing (handle_tun).
ServerReleases ==
    \A c \in Conns : client[c] = "ended" ~> server[c] = "ended" /\ lock # c /\ dev # c

\* An IPv4 packet as RFC 791 has it: its header fits and it states its own length.
WellFormed(p) ==
    /\ p.version = 4
    /\ 20 <= 4 * p.ihl /\ 4 * p.ihl <= p.total
    /\ p.total = p.len

\* A session is not ended by what it is for: while it relays it ends only because its client
\* is gone, because the device failed, or because one of the two machines had sent what is
\* no IPv4 packet from or for the client.  IPv6, which every machine sends by itself, does
\* no harm in the client's machine but does in the server's.  A packet of any size up to
\* the MTU passes (run_windows, handle_tun, validate_tun_packet, validate_tun_response).
TrafficEndsNoSession ==
    [][\A c \in Conns :
          server[c] = "relay" /\ server'[c] = "drop" =>
              \/ client[c] \in {"ended", "vanished"}
              \/ tap = Broken
              \/ up[c] # <<>> /\ Head(up[c]).version = 4
                  /\ ~(WellFormed(Head(up[c])) /\ Head(up[c]).source = "client")
              \/ tap # None /\ ~(WellFormed(tap) /\ tap.destination = "client")]_vars

=============================================================================
