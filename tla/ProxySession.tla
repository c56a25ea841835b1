---------------------------- MODULE ProxySession ----------------------------
(***************************************************************************)
(* One proxied connection from end to end: an application, ss-client       *)
(* (crates/client/src/main.rs), ss-server (crates/server/src/main.rs) and  *)
(* the target server, with a TCP connection between each two neighbours.   *)
(*                                                                         *)
(*    application --local-- client --tunnel-- server --remote-- target     *)
(*                                                                         *)
(* The module follows the bytes through the handshake, the first frame and *)
(* the relays.  What a relay does inside one direction is FrameRelay's     *)
(* matter: here the tunnel carries whole frames, each the sequence of      *)
(* items it holds.                                                         *)
(***************************************************************************)
EXTENDS Naturals, Sequences, SequencesExt

CONSTANTS
    Protos,      \* subset of {"socks", "connect", "eager", "plain"}
    HeaderLens,  \* lengths an HTTP request header may have, in items
    BufLen,      \* the request buffer of handle_http_connect, in items
    UpLen,       \* items the application sends after its request
    DownLen,     \* items the target sends
    Capacity,    \* a socket with this many unread items takes no more
    MaxFaults,   \* bound: so many things go wrong in one behaviour
    Faults       \* subset of {"badRequest", "refused", "corrupt", "reset", "leave", "kill"}

ASSUME ProxySessionAssumption ==
    /\ Protos \subseteq {"socks", "connect", "eager", "plain"}
    /\ HeaderLens \subseteq Nat \ {0, 1}
    /\ {BufLen, Capacity} \subseteq Nat \ {0}
    /\ {UpLen, DownLen, MaxFaults} \subseteq Nat
    /\ Faults \subseteq {"badRequest", "refused", "corrupt", "reset", "leave", "kill"}

Conns == {"local", "tunnel", "remote"}
Up(c) == <<c, "up">>
Down(c) == <<c, "down">>
Streams == Conns \X {"up", "down"}

Items(name, n) == [i \in 1..n |-> <<name, i>>]
UpData == Items("up", UpLen)
DownData == Items("down", DownLen)

\* What the client answers during the handshake.
Replies == {<<"method">>, <<"success">>, <<"established">>}

Header(n) == Append(Items("line", n - 1), <<"blank">>)

\* The application's side of the conversation: it waits for each reply in turn, except that
\* an eager one sends behind its CONNECT what is for the target.
Script(proto, n) ==
    CASE proto = "socks"   -> << <<"greeting">>, <<"method">>, <<"request">>, <<"success">> >> \o UpData
      [] proto = "connect" -> Header(n) \o << <<"established">> >> \o UpData
      [] proto = "eager"   -> Header(n) \o UpData \o << <<"established">> >>
      [] proto = "plain"   -> Header(n) \o UpData

VARIABLES
    proto,      \* what the application speaks
    headerLen,
    opened,     \* TCP connections that have been established
    net,        \* per stream: unread items, whether its writer has shut it down,
                \* whether the socket of its reader is closed
    reset,      \* connections that were reset
    toSend,     \* what is left of the application's script
    appGot,     \* what the application has received
    buf,        \* the HTTP request read so far
    cpc,        \* handle_socks5 and handle_http_connect
    spc,        \* handle_connection
    payload,    \* the data of the first frame
    running,    \* relay tasks that have not ended
    targetGot,  \* what the target has received
    targetSent, \* how many items of DownData the target has sent
    faults      \* history: how many things have gone wrong

appVars == <<proto, headerLen, toSend, appGot>>
clientVars == <<buf, cpc>>
serverVars == <<spc, payload>>
targetVars == <<targetGot, targetSent>>
vars == <<opened, net, reset, appVars, clientVars, serverVars, running, targetVars, faults>>

Client == {"clientUp", "clientDown"}
Server == {"serverUp", "serverDown"}
Tasks == Client \cup Server

In == [clientUp |-> Up("local"), clientDown |-> Down("tunnel"),
       serverUp |-> Up("tunnel"), serverDown |-> Down("remote")]
Out == [clientUp |-> Up("tunnel"), clientDown |-> Down("local"),
        serverUp |-> Up("remote"), serverDown |-> Down("tunnel")]

Init ==
    /\ proto \in Protos
    /\ headerLen \in IF proto = "socks" THEN {2} ELSE HeaderLens
    /\ opened = {"local"}
    /\ net = [s \in Streams |-> [data |-> <<>>, fin |-> FALSE, gone |-> FALSE]]
    /\ reset = {}
    /\ toSend = Script(proto, headerLen)
    /\ appGot = <<>>
    /\ buf = <<>>
    /\ cpc = IF proto = "socks" THEN "greeting" ELSE "header"
    /\ spc = "idle"
    /\ payload = <<>>
    /\ running = {}
    /\ targetGot = <<>>
    /\ targetSent = 0
    /\ faults = 0

-----------------------------------------------------------------------------
(* TCP.                                                                    *)

Unread(s) == net[s].data
AtEof(s) == Unread(s) = <<>> /\ net[s].fin
Broken(s) == s[1] \in reset
Writable(s) == ~Broken(s) /\ ~net[s].fin /\ Len(Unread(s)) < Capacity

Put(n, s, items) == [n EXCEPT ![s].data = @ \o items]
Took(n, s, k) == [n EXCEPT ![s].data = SubSeq(@, k + 1, Len(@))]
Shut(n, s) == [n EXCEPT ![s].fin = TRUE]

\* The owner of a socket drops it: the peer reads the end, and nobody reads what it sends.
Closed(n, reads, writes) ==
    [s \in Streams |-> [data |-> n[s].data,
                        fin  |-> n[s].fin \/ s \in writes,
                        gone |-> n[s].gone \/ s \in reads]]

\* Data for a closed socket is answered with a reset.
Refuse(s) ==
    /\ net[s].gone
    /\ Unread(s) # <<>>
    /\ ~Broken(s)
    /\ reset' = reset \cup {s[1]}
    /\ UNCHANGED <<opened, net, appVars, clientVars, serverVars, running, targetVars>>

\* The network breaks a connection.
Break(c) ==
    /\ "reset" \in Faults
    /\ c \in opened \ reset
    /\ reset' = reset \cup {c}
    /\ UNCHANGED <<opened, net, appVars, clientVars, serverVars, running, targetVars>>

-----------------------------------------------------------------------------
(* The application.                                                        *)

AppClosed == net[Down("local")].gone

CanSend == toSend # <<>> /\ Head(toSend) \notin Replies

AppSend ==
    /\ ~AppClosed
    /\ CanSend
    /\ Writable(Up("local"))
    /\ net' = Put(net, Up("local"), <<Head(toSend)>>)
    /\ toSend' = Tail(toSend)
    /\ UNCHANGED <<proto, headerLen, appGot, opened, reset, clientVars, serverVars, running, targetVars>>

AppReceive ==
    /\ ~AppClosed
    /\ Unread(Down("local")) # <<>>
    /\ LET item == Head(Unread(Down("local"))) IN
        /\ appGot' = Append(appGot, item)
        /\ toSend' = RemoveFirst(toSend, item)
    /\ net' = Took(net, Down("local"), 1)
    /\ UNCHANGED <<proto, headerLen, opened, reset, clientVars, serverVars, running, targetVars>>

\* The application has no more to send and says so, and goes on reading.
AppShutdown ==
    /\ toSend = <<>>
    /\ ~net[Up("local")].fin
    /\ net' = Shut(net, Up("local"))
    /\ UNCHANGED <<opened, reset, appVars, clientVars, serverVars, running, targetVars>>

AppDrops ==
    /\ net' = Closed(net, {Down("local")}, {Up("local")})
    /\ UNCHANGED <<opened, reset, appVars, clientVars, serverVars, running, targetVars>>

\* It closes when the answer has ended and it has nothing it could send, or when the
\* connection breaks.
AppClose ==
    /\ ~AppClosed
    /\ \/ AtEof(Down("local")) /\ ~CanSend
       \/ Broken(Down("local"))
    /\ AppDrops
AppLeaves == "leave" \in Faults /\ ~AppClosed /\ AppDrops

App == AppSend \/ AppReceive \/ AppShutdown \/ AppClose

-----------------------------------------------------------------------------
(* The target.                                                             *)

TargetClosed == net[Up("remote")].gone

TargetReceive ==
    /\ ~TargetClosed
    /\ Unread(Up("remote")) # <<>>
    /\ targetGot' = Append(targetGot, Head(Unread(Up("remote"))))
    /\ net' = Took(net, Up("remote"), 1)
    /\ UNCHANGED <<opened, reset, appVars, clientVars, serverVars, running, targetSent>>

TargetSend ==
    /\ "remote" \in opened
    /\ ~TargetClosed
    /\ targetSent < DownLen
    /\ Writable(Down("remote"))
    /\ net' = Put(net, Down("remote"), <<DownData[targetSent + 1]>>)
    /\ targetSent' = targetSent + 1
    /\ UNCHANGED <<opened, reset, appVars, clientVars, serverVars, running, targetGot>>

\* The answer is complete; the target goes on reading.
TargetShutdown ==
    /\ "remote" \in opened
    /\ targetSent = DownLen
    /\ ~net[Down("remote")].fin
    /\ net' = Shut(net, Down("remote"))
    /\ UNCHANGED <<opened, reset, appVars, clientVars, serverVars, running, targetVars>>

TargetDrops ==
    /\ "remote" \in opened
    /\ ~TargetClosed
    /\ net' = Closed(net, {Up("remote")}, {Down("remote")})
    /\ UNCHANGED <<opened, reset, appVars, clientVars, serverVars, running, targetVars>>

\* It has answered and its peer has nothing more to say, or the connection breaks.
TargetClose ==
    /\ \/ AtEof(Up("remote")) /\ targetSent = DownLen
       \/ Broken(Up("remote"))
    /\ TargetDrops
TargetLeaves == "leave" \in Faults /\ TargetDrops

Target == TargetReceive \/ TargetSend \/ TargetShutdown \/ TargetClose

-----------------------------------------------------------------------------
(* The client's handler up to the relay.                                   *)

\* The handler returns, or its process ends: its two sockets are dropped.
ClientReturns ==
    /\ cpc' = "done"
    /\ running' = running \ Client
    /\ net' = Closed(net, {Up("local"), Down("tunnel")}, {Down("local"), Up("tunnel")})
    /\ UNCHANGED <<opened, reset, appVars, buf, serverVars, targetVars>>

\* read_exact of one message of the SOCKS5 handshake.
SocksReads(message, next) ==
    /\ cpc = message
    /\ Unread(Up("local")) # <<>>
    /\ Head(Unread(Up("local"))) = <<message>>
    /\ net' = Took(net, Up("local"), 1)
    /\ cpc' = next
    /\ UNCHANGED <<opened, reset, appVars, buf, serverVars, running, targetVars>>

SocksWrites(reply, next) ==
    /\ cpc = reply
    /\ Writable(Down("local"))
    /\ net' = Put(net, Down("local"), << <<reply>> >>)
    /\ cpc' = next
    /\ UNCHANGED <<opened, reset, appVars, buf, serverVars, running, targetVars>>

Handshake ==
    \/ SocksReads("greeting", "method")
    \/ SocksWrites("method", "request")
    \/ SocksReads("request", "success")
    \/ SocksWrites("success", "dial")

Fits_Always(k) == TRUE
Fits(k) == Len(buf) + k <= BufLen

\* One read into what is left of the buffer; the header is complete with its blank line.
HttpReads ==
    /\ cpc = "header"
    /\ \E k \in 1..Len(Unread(Up("local"))) :
        /\ Fits(k)
        /\ buf' = buf \o SubSeq(Unread(Up("local")), 1, k)
        /\ net' = Took(net, Up("local"), k)
    /\ cpc' = IF <<"blank">> \in ToSet(buf') THEN "dial" ELSE "header"
    /\ UNCHANGED <<opened, reset, appVars, serverVars, running, targetVars>>

TooLong_Early == Len(buf) + 1 >= BufLen
TooLong == Len(buf) >= BufLen

\* A read meets the end or an error, a write an error, or the request does not fit.
SetupFails ==
    /\ \/ cpc \in {"greeting", "request", "header"} /\ (AtEof(Up("local")) \/ Broken(Up("local")))
       \/ cpc = "header" /\ TooLong
       \/ cpc \in {"method", "success", "established"} /\ Broken(Down("local"))
       \/ cpc \in {"salt", "first"} /\ Broken(Up("tunnel"))
    /\ ClientReturns

\* What the application said is not SOCKS5, not HTTP, or has a bad address.
BadRequest ==
    /\ "badRequest" \in Faults
    /\ \/ cpc \in {"method", "success"}
       \/ cpc = "dial" /\ proto # "socks"
    /\ ClientReturns

Dial ==
    /\ cpc = "dial"
    /\ opened' = opened \cup {"tunnel"}
    /\ cpc' = "salt"
    /\ UNCHANGED <<net, reset, appVars, buf, serverVars, running, targetVars>>

ServerUnreachable == "refused" \in Faults /\ cpc = "dial" /\ ClientReturns

SendSalt ==
    /\ cpc = "salt"
    /\ Writable(Up("tunnel"))
    /\ net' = Put(net, Up("tunnel"), << << <<"salt">> >> >>)
    /\ cpc' = "first"
    /\ UNCHANGED <<opened, reset, appVars, buf, serverVars, running, targetVars>>

\* Only a plain HTTP request is passed on; bytes that came with a CONNECT are dropped.
FirstData_Forgotten == <<>>
FirstData == IF proto = "plain" THEN buf ELSE <<>>

\* The relay starts at once, except that a CONNECT is answered first.
Answered == proto \in {"connect", "eager"}
Starts_AtOnce == Client
Starts == IF Answered THEN {} ELSE Client

SendFirst ==
    /\ cpc = "first"
    /\ Writable(Up("tunnel"))
    /\ net' = Put(net, Up("tunnel"), << << <<"address">> >> \o FirstData >>)
    /\ cpc' = IF Answered THEN "established" ELSE "relay"
    /\ running' = running \cup Starts
    /\ UNCHANGED <<opened, reset, appVars, buf, serverVars, targetVars>>

Establish ==
    /\ cpc = "established"
    /\ Writable(Down("local"))
    /\ net' = Put(net, Down("local"), << <<"established">> >>)
    /\ cpc' = "relay"
    /\ running' = running \cup Client
    /\ UNCHANGED <<opened, reset, appVars, buf, serverVars, targetVars>>

ClientSetup == Handshake \/ HttpReads \/ SetupFails \/ Dial \/ SendSalt \/ SendFirst \/ Establish

ClientKilled == "kill" \in Faults /\ cpc # "done" /\ ClientReturns

-----------------------------------------------------------------------------
(* The server's handler up to the relay.                                   *)

ServerReturns ==
    /\ spc' = "done"
    /\ running' = running \ Server
    /\ net' = Closed(net, {Up("tunnel"), Down("remote")}, {Down("tunnel"), Up("remote")})
    /\ UNCHANGED <<opened, reset, appVars, clientVars, payload, targetVars>>

Accept ==
    /\ spc = "idle"
    /\ "tunnel" \in opened
    /\ spc' = "salt"
    /\ UNCHANGED <<opened, net, reset, appVars, clientVars, payload, running, targetVars>>

ReadSalt ==
    /\ spc = "salt"
    /\ Unread(Up("tunnel")) # <<>>
    /\ net' = Took(net, Up("tunnel"), 1)
    /\ spc' = "first"
    /\ UNCHANGED <<opened, reset, appVars, clientVars, payload, running, targetVars>>

ReadFirst ==
    /\ spc = "first"
    /\ Unread(Up("tunnel")) # <<>>
    /\ payload' = Tail(Head(Unread(Up("tunnel"))))
    /\ net' = Took(net, Up("tunnel"), 1)
    /\ spc' = "dial"
    /\ UNCHANGED <<opened, reset, appVars, clientVars, running, targetVars>>

DialTarget ==
    /\ spc = "dial"
    /\ opened' = opened \cup {"remote"}
    /\ IF payload = <<>>
          THEN spc' = "relay" /\ running' = running \cup Server
          ELSE spc' = "payload" /\ UNCHANGED running
    /\ UNCHANGED <<net, reset, appVars, clientVars, payload, targetVars>>

SendPayload ==
    /\ spc = "payload"
    /\ Writable(Up("remote"))
    /\ net' = Put(net, Up("remote"), payload)
    /\ spc' = "relay"
    /\ running' = running \cup Server
    /\ UNCHANGED <<opened, reset, appVars, clientVars, payload, targetVars>>

FirstFails ==
    /\ \/ spc \in {"salt", "first"} /\ (AtEof(Up("tunnel")) \/ Broken(Up("tunnel")))
       \/ spc = "payload" /\ Broken(Up("remote"))
    /\ ServerReturns

\* The first frame does not decode, or its address does not.
BadFirst == "badRequest" \in Faults /\ spc = "dial" /\ ServerReturns

TargetUnreachable == "refused" \in Faults /\ spc = "dial" /\ ServerReturns

ServerSetup == Accept \/ ReadSalt \/ ReadFirst \/ DialTarget \/ SendPayload \/ FirstFails

ServerKilled == "kill" \in Faults /\ spc \notin {"idle", "done"} /\ ServerReturns

-----------------------------------------------------------------------------
(* The four relay tasks.                                                   *)

\* An encoder makes one frame of what it reads, a decoder writes what one frame holds.
Copy(t) ==
    /\ t \in running
    /\ Writable(Out[t])
    /\ \E k \in 1..Len(Unread(In[t])) :
        /\ t \in {"clientDown", "serverUp"} => k = 1
        /\ LET items == IF t \in {"clientUp", "serverDown"}
                          THEN <<SubSeq(Unread(In[t]), 1, k)>>
                          ELSE Head(Unread(In[t]))
           IN net' = Put(Took(net, In[t], k), Out[t], items)
    /\ UNCHANGED <<opened, reset, appVars, clientVars, serverVars, running, targetVars>>

Side(t) == IF t \in Client THEN Client ELSE Server

\* join! waits for both tasks.
LastTask_Any(t) == TRUE
LastTask(t) == running \cap Side(t) = {t}

HalfClosed_WriterKept(n, s) == n
HalfClosed(n, s) == Shut(n, s)

\* A task that ends, in order or not, drops its writing half and with it shuts that
\* direction down; the sockets close when the other task has dropped its halves too.
TaskEnds(t) ==
    /\ running' = running \ (IF LastTask(t) THEN Side(t) ELSE {t})
    /\ IF LastTask(t)
          THEN /\ net' = Closed(net, {In[u] : u \in Side(t)}, {Out[u] : u \in Side(t)})
               /\ cpc' = IF t \in Client THEN "done" ELSE cpc
               /\ spc' = IF t \in Server THEN "done" ELSE spc
          ELSE net' = HalfClosed(net, Out[t]) /\ UNCHANGED <<cpc, spc>>
    /\ UNCHANGED <<opened, reset, appVars, buf, payload, targetVars>>

\* The end of what it reads or an error there, or an error when it writes what it has
\* read: a task that waits for input does not notice that its output is broken.
TaskStops(t) ==
    /\ t \in running
    /\ AtEof(In[t]) \/ Broken(In[t]) \/ (Broken(Out[t]) /\ Unread(In[t]) # <<>>)
    /\ TaskEnds(t)

\* A frame was changed on its way and does not decode: this task alone fails.
Undecodable(t) ==
    /\ "corrupt" \in Faults
    /\ t \in running \cap {"clientDown", "serverUp"}
    /\ Unread(In[t]) # <<>>
    /\ TaskEnds(t)

Task(t) == Copy(t) \/ TaskStops(t)

-----------------------------------------------------------------------------
Orderly ==
    \/ App \/ Target \/ ClientSetup \/ ServerSetup
    \/ \E t \in Tasks : Task(t)
    \/ \E s \in Streams : Refuse(s)

Fault ==
    \/ AppLeaves \/ TargetLeaves \/ BadRequest \/ ServerUnreachable \/ BadFirst
    \/ TargetUnreachable \/ ClientKilled \/ ServerKilled
    \/ \E c \in Conns : Break(c)
    \/ \E t \in Tasks : Undecodable(t)

Next ==
    \/ Orderly /\ UNCHANGED faults
    \/ Fault /\ faults < MaxFaults /\ faults' = faults + 1

Spec == Init /\ [][Next]_vars

\* The runtime runs every task that can go on, TCP delivers, and both ends of the
\* conversation read what they get and close at the end.
FairSpec ==
    /\ Spec
    /\ WF_vars(App /\ UNCHANGED faults) /\ WF_vars(Target /\ UNCHANGED faults)
    /\ WF_vars(ClientSetup /\ UNCHANGED faults) /\ WF_vars(ServerSetup /\ UNCHANGED faults)
    /\ \A t \in Tasks : WF_vars(Task(t) /\ UNCHANGED faults)
    /\ \A s \in Streams : WF_vars(Refuse(s) /\ UNCHANGED faults)

-----------------------------------------------------------------------------
(* Properties.                                                             *)

ClientStates ==
    {"greeting", "method", "request", "success", "header", "dial", "salt", "first",
     "established", "relay", "done"}
ServerStates == {"idle", "salt", "first", "dial", "payload", "relay", "done"}

\* The most that one write adds to what is unread: a frame, or the payload of the first.
Longest == IF BufLen > Capacity THEN BufLen ELSE Capacity

TypeOK ==
    /\ proto \in Protos
    /\ headerLen \in HeaderLens \cup {2}
    /\ opened \subseteq Conns
    /\ reset \subseteq opened
    /\ \A s \in Streams : /\ net[s].fin \in BOOLEAN /\ net[s].gone \in BOOLEAN
                          /\ Len(Unread(s)) < Capacity + Longest
    /\ ToSet(toSend) \subseteq ToSet(Script(proto, headerLen))
    /\ Len(buf) <= BufLen
    /\ cpc \in ClientStates
    /\ spc \in ServerStates
    /\ running \subseteq Tasks
    /\ cpc # "relay" => running \cap Client = {}
    /\ spc # "relay" => running \cap Server = {}
    /\ targetSent \in 0..DownLen
    /\ faults \in 0..MaxFaults

\* What comes to the client in one read with the end of a CONNECT header is lost.
Lost == IF Answered /\ Len(buf) > headerLen THEN Len(buf) - headerLen ELSE 0

\* What the application means for the target.
Meant ==
    IF proto = "plain" THEN Script(proto, headerLen) ELSE SubSeq(UpData, Lost + 1, UpLen)

\* From the first byte after the handshake on, the target receives what the application
\* sent, in order and once, across buffer, first frame and relay; only an application that
\* does not wait for the answer to its CONNECT loses what one read took with the header,
\* and nothing behind that (handle_http_connect, connect_to_server, handle_connection).
UploadFaithful == IsPrefix(targetGot, Meant)

\* The replies that belong to what the application speaks, in their order.
Answers ==
    CASE proto = "socks" -> << <<"method">>, <<"success">> >>
      [] Answered        -> << <<"established">> >>
      [] OTHER           -> <<>>

\* What the application receives is the client's replies and then the target's data: no
\* byte of the target overtakes a reply (handle_http_connect, relay).
DownloadFaithful == IsPrefix(appGot, Answers \o DownData)

Ended ==
    /\ AppClosed
    /\ cpc = "done"
    /\ "tunnel" \in opened => spc = "done"
    /\ "remote" \in opened => TargetClosed

\* However one of the four parties ends, by an end of file, an error, a refusal or its
\* death, the others end too: no task, socket or application is left waiting (relay,
\* handle_connection).
SessionEnds ==
    (AppClosed \/ TargetClosed \/ cpc = "done" \/ spc = "done") ~> Ended

HeaderFits == proto = "socks" \/ headerLen <= BufLen

\* Without faults the whole request arrives, whichever way TCP cuts it, and a header that
\* just fits the buffer is not refused (handle_http_connect).
RequestArrives == <>(targetGot = Meant \/ faults > 0 \/ ~HeaderFits)

\* Without faults the whole answer arrives, although either end may shut its own
\* direction down first (relay, handle_connection).
ResponseArrives == <>(IsSuffix(DownData, appGot) \/ faults > 0 \/ ~HeaderFits)

=============================================================================
