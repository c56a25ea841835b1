---------------------------- MODULE ProxyRequest ----------------------------
(***************************************************************************)
(* What becomes of the target that an application names: the client reads  *)
(* it from a SOCKS5 request or an HTTP header (crates/client/src/main.rs), *)
(* packs it into the first frame, and the server unpacks the frame, writes *)
(* the target as text and connects to what that text says                  *)
(* (crates/server/src/main.rs, handle_connection).                         *)
(*                                                                         *)
(* ProxySession follows the same request through sockets and tasks and     *)
(* takes the address for one item; here the bytes count and nothing else   *)
(* happens.                                                                *)
(***************************************************************************)
EXTENDS AddressCodec

CONSTANTS
    Hosts,      \* what applications name as host, in bytes
    Ports,      \* records [text, port]: digits and the number they write
    FirstData   \* what the buffer of handle_http_connect holds of a plain request

ASSUME ProxyRequestAssumption ==
    /\ \A h \in Hosts : h \in Seq(Byte)
    /\ \A p \in Ports : p.text \in Seq(48..57) /\ p.text # <<>> /\ p.port \in Nat
    /\ FirstData \in Seq(Byte)

\* The port of an authority without one is that of the scheme.
SchemePorts == [text : {<<>>}, port : {80, 443}]

\* A SOCKS5 request has a field for the host, whose length is one byte, and two bytes for
\* the port.  An HTTP request has host and port in one text.
Binary == {p \in Ports : p.port \in Port}
Requests ==
    [kind : {"IPv4"}, host : {h \in Hosts : Len(h) = 4}, port : Binary]
    \cup [kind : {"IPv6"}, host : {h \in Hosts : Len(h) = 16}, port : Binary]
    \cup [kind : {"Domain"}, host : {h \in Hosts : Len(h) < LenModulus}, port : Binary]
    \cup [kind : {"connect", "plain"}, host : Hosts, port : Ports \cup SchemePorts]

VARIABLES
    request,
    stage,    \* client, server, dial, dialled, refused, tun
    target,   \* the client's Socks5Addr, then the server's
    plain,    \* content of the first frame
    payload   \* what the server writes to the target before it relays

vars == <<request, stage, target, plain, payload>>

Init ==
    /\ request \in Requests
    /\ stage = "client"
    /\ target = Bad
    /\ plain = <<>>
    /\ payload = <<>>

-----------------------------------------------------------------------------
(* The client.                                                             *)

Colon == 58

\* What the splits of the request line at whitespace, :// and / leave of it; the splits
\* themselves are left out, and a host of HTTP is a text that has none of these in it.
Authority(r) == Lossy(r.host \o (IF r.port.text = <<>> THEN <<>> ELSE <<Colon>> \o r.port.text))

\* rsplit_once(':'), at the last colon.
SplitAt(text) == SelectLastInSeq(text, LAMBDA b : b = Colon)

\* parse::<u16>, whose optional + sign is left out.
Digits(text) == text # <<>> /\ \A i \in DOMAIN text : text[i] \in 48..57
Number(text) == FoldLeft(LAMBDA n, b : 10 * n + b - 48, 0, text)

ASSUME PortsAssumption == \A p \in Ports : Number(p.text) = p.port

HttpTarget(r) ==
    LET text == Authority(r)
        cut  == SplitAt(text)
        host == SubSeq(text, 1, cut - 1)
        port == SubSeq(text, cut + 1, Len(text))
    IN CASE cut = 0 /\ r.kind = "plain" -> [type |-> "Domain", host |-> text, port |-> r.port.port]
         [] cut > 0 /\ Digits(port) /\ Number(port) \in Port ->
                [type |-> "Domain", host |-> host, port |-> Number(port)]
         [] OTHER -> Bad

\* socks5_read_request, and the second half of handle_http_connect.
RequestedTarget(r) ==
    CASE r.kind \in {"IPv4", "IPv6"} -> [type |-> r.kind, host |-> r.host, port |-> r.port.port]
      [] r.kind = "Domain"           -> [type |-> "Domain", host |-> Lossy(r.host), port |-> r.port.port]
      [] OTHER                       -> HttpTarget(r)

\* Only a plain HTTP request is passed on with the address.
ClientData(r) == IF r.kind = "plain" THEN FirstData ELSE <<>>

Client ==
    /\ stage = "client"
    /\ target' = RequestedTarget(request)
    /\ IF target' = Bad
          THEN stage' = "refused" /\ UNCHANGED plain
          ELSE stage' = "server" /\ plain' = Pack(target', ClientData(request))
    /\ UNCHANGED <<request, payload>>

-----------------------------------------------------------------------------
(* The server.                                                             *)

TunMode == 0

Server ==
    /\ stage = "server"
    /\ LET first == Unpack(plain) IN
        CASE plain = <<TunMode>> -> stage' = "tun" /\ UNCHANGED <<target, payload>>
          [] plain # <<TunMode>> /\ first = Bad -> stage' = "refused" /\ UNCHANGED <<target, payload>>
          [] OTHER -> /\ stage' = "dial"
                      /\ target' = first.address
                      /\ payload' = first.data
    /\ UNCHANGED <<request, plain>>

\* The text of an IPv4 address or a name is that host and port again; sixteen groups of
\* two digits are no IPv6 address, and no name either.
Resolvable(a) == a.type # "IPv6"

Dial ==
    /\ stage = "dial"
    /\ stage' = IF Resolvable(target) THEN "dialled" ELSE "refused"
    /\ UNCHANGED <<request, target, plain, payload>>

Next == Client \/ Server \/ Dial

Spec == Init /\ [][Next]_vars

-----------------------------------------------------------------------------
(* Properties.                                                             *)

\* The host in UTF-8 fits the length byte of the first frame.
Fits(r) == r.kind \in {"IPv4", "IPv6"} \/ Len(Lossy(r.host)) < LenModulus

\* What the request means.
NamedHost(r) == IF r.kind \in {"IPv4", "IPv6"} THEN r.host ELSE Lossy(r.host)

\* A literal IPv6 address without a port: its last colon is taken for that of a port.
Ambiguous(r) == r.port.text = <<>> /\ Colon \in ToSet(r.host)

\* The server connects to the host and port that the application named, and to no other,
\* if the name fits the length byte (socks5_read_request, handle_http_connect, Socks5Addr).
TargetAsNamed ==
    stage = "dialled" /\ Fits(request) /\ ~Ambiguous(request) =>
        target.host = NamedHost(request) /\ target.port = request.port.port

\* The target's first bytes are those that came with the request: none of them is taken
\* for a part of the address, nor a part of the address for data (pack_addr_payload,
\* unpack_addr_payload).
FirstDataKept ==
    stage = "dialled" /\ Fits(request) => payload = ClientData(request)

\* A request is refused, or mistaken for TUN mode, only if its name does not fit, its port
\* is none, or it is a SOCKS5 request for an IPv6 address (handle_http_connect, from_bytes,
\* handle_connection).
GoodRequestDialled ==
    stage \in {"refused", "tun"} =>
        \/ ~Fits(request)
        \/ request.port.port \notin Port
        \/ request.kind = "connect" /\ request.port.text = <<>>
        \/ Ambiguous(request)
        \/ request.kind = "IPv6"

=============================================================================
