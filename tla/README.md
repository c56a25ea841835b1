# SamsT4vless in TLA+

A TLA+ project kept beside the SamsT4vless workspace: a desktop client for Windows
(`crates/gui`), a command line client with SOCKS5, HTTP and TUN modes (`crates/client`), its
server (`crates/server`) and the protocol both share (`crates/core`). TLC checks the modules on
small instances; TLAPS proves every safety invariant that the passing runs check, and most of their
action properties, for every value of the constants. `PROJECT.json` maps every definition to the lines it stands for.

## 1. The system

| Component | State | Operations | Talks to |
|---|---|---|---|
| GUI connection lifecycle (`gui/src/main.rs`) | `TunnelApp`: screen state, error, worker channel ends, retry counter and timer, `ProxyBackup`; one worker thread and one core process per connection | connect, disconnect, `poll_worker`, `logic`, the button, `on_exit`; `run_worker`, `supervise_child`, `read_logs` | worker thread over two mpsc channels; the core by kill, `try_wait` and HTTP; the registry value `ProxyEnable` |
| GUI traffic counters (same file) | `TrafficStore`, `last_totals`, `last_save`, `traffic.txt` | load, `roll_periods`, add, save, `record_traffic` | totals that the worker fetched from the core; local clock; the disk |
| Frames and relay tasks (`core/src/lib.rs`, `crypto.rs`; `relay_*` of client and server) | one read buffer, one leftover buffer, the sockets | encode, decode, read, `write_all`, shutdown | TCP |
| SOCKS5/HTTP sessions (`client/src/main.rs`, `handle_connection` of the server) | request buffer, stage of the handshake, first frame, four relay tasks | the handshakes, `connect_to_server`, `relay`, `handle_connection` | application, client, server and target over three TCP connections |
| Target addresses (`address.rs`, `pack`/`unpack_addr_payload`, the request parsers of the client) | none | parse a request, pack, unpack, dial | first frame of a session |
| TUN sessions (`tun_mode.rs`, `handle_tun`) | `tun_lock`, the device `ss-tun0`, two packet loops on either side | `connect_tun`, `run_windows`, `handle_tun` | one TCP connection per client |
| Network settings of the TUN client (`RouteGuard` in `tun_mode.rs`) | the machine's routes and name servers, the remembered ones | `install` (two queries and a script), `drop` (another script) | PowerShell processes |
| Packet checks (`validate_*` in `core/src/lib.rs`) | none | three checks | the packet loops of TUN mode |
| Accept loops, cryptography, Mihomo configuration, drawing, autostart and latency, launchers | | | see section 7 |

What makes them hard:

- *GUI.* Three kinds of threads and a process interleave. Any event may stand in the channel when
  the user clicks or closes the window; a worker whose channel is closed does not stop; one slot
  remembers the user's proxy setting; every operation on processes and registry may fail.
- *Counters.* The core counts from its own start, the client over its restarts. Cores restart or
  survive their client, snapshots wait in a channel, the clock moves in both directions, a crash may
  fall between the two steps of `fs::write`, and nobody looks at the result of a save.
- *Relays and sessions.* TCP cuts frames anywhere. Bytes of one request travel in the request
  buffer, in the first frame and through the relay. Each direction ends by itself; there are no
  timeouts, so an end must travel through four tasks.
- *Addresses.* One name passes four representations (request, `Socks5Addr`, first frame, the text the
  server dials), with a length cut to eight bits and lossy conversions between them.
- *TUN.* The protocol has no answer to a request for TUN mode, the server has one device and one
  lock, and one invalid packet from either machine ends a session.
- *Routes.* Seven commands change the machine one after the other; each may fail, for six of them that
  ends the script, and the client may be killed while a script goes on without it.
- *Both together.* While the client installs or removes its routes it awaits nothing and so does not
  notice that the server has refused it or ended; all the machine's traffic depends on what it does then.

What makes each component correct is stated by the properties of section 3; the hazards they are
for are listed in `PROJECT.json`, each at its line.

## 2. The modules

| Module | Models | Builds on |
|---|---|---|
| `TunnelGui` | GUI thread, worker threads, core, `ProxyEnable`, kill and restart | |
| `RetryHistory` | `TunnelGui` with a counter of automatic reconnects | extends `TunnelGui` |
| `MCTunnelGui` | symmetry for TLC | extends `TunnelGui` |
| `TunnelGuiProofs` | proofs | extends `TunnelGui` |
| `TrafficMeter` | the counters, their file, clock, crash and restart | |
| `TrafficMeterProofs` | proofs | extends `TrafficMeter` |
| `ByteStream` | abstract specification: a stream of bytes with an end | |
| `FrameRelay` | one direction of a relay, byte by byte | refines `ByteStream` |
| `FrameRelayProofs` | proofs, the refinement among them | extends `FrameRelay` |
| `ProxySession` | one proxied connection, four parties, both directions | uses frames as units, as `FrameRelay` justifies |
| `ProxySessionProofs` | proofs | extends `ProxySession` |
| `AddressCodec` | `Socks5Addr` on the wire, byte by byte; `pack` and `unpack` | |
| `ProxyRequest` | what becomes of the target that an application names | extends `AddressCodec` |
| `MCProxyRequest` | hosts and ports of its run | extends `ProxyRequest` |
| `ProxyRequestProofs` | the round trip, and the fate of a request | extends `ProxyRequest` |
| `TunTunnel` | several TUN clients and the server, packets and their checks | |
| `RouteGuard` | routes and name servers, command by command | |
| `TunSystem` | both, with the machine of one client | extends `TunTunnel` and `RouteGuard` |
| `MCTunSystem` | the packets of its run | extends `TunSystem` |
| `TunTunnelProofs`, `RouteGuardProofs` | proofs about either part | extend their part |
| `TunSystemProofs` | the composition implements both parts | extends `TunSystem` and their proofs |

An operator whose name ends in `_Something` (`SendStop_Forgotten`) is a deliberately wrong variant
of the operator that follows it. It belongs to no specification; `PROJECT.json` names the property
that breaks when the variant takes the operator's place, and so shows that each property can tell
the code from a plausible mistake.

### How state and actions correspond to the code

**TunnelGui.** `gui` is the place of the GUI thread inside one frame: `poll` collects the pending
events into `batch` (main.rs:248), `logic` handles them one by one (`Handle*`) and then looks at the
retry timer (340), `input` lets the user click or close. Each of these is one action, because the
GUI thread holds all of `TunnelApp`; other threads run between any two. `wpc[w]` is the place of a
worker thread in `run_worker` and the loop of `supervise_child`: one action per call that can be
observed from outside (spawn, `try_recv`, kill, `try_wait`, `fetch_totals`, a send). The `read_logs`
threads send `Log` at any time until the core's pipes close. `Connect` is the whole of `connect()`,
`DisableProxy` and `RestoreProxy` are the registry calls in it, with their outcomes chosen by
`Faults`. Retry is a timer with the values none, waiting and due. Log and status texts, latency and
counters are left out.

**TrafficMeter.** `store` is `TunnelApp.traffic`, `file` what `load` would read; a save is two steps,
`BeginSave`, in which the file may have been emptied, and `FinishSave` or, because the result of
`fs::write` is ignored (main.rs:147), `SaveFails`. `RecordTraffic` is `record_traffic` with its
`roll_periods`, saturating deltas, baseline and five-second throttle, which counts a save that failed.
`inHour`, `inMonth` and `inAll`, what was ever added in each period, `carried`, and `intact`, that
there was no crash, no failed last save and no clock set back, are history variables.

**FrameRelay.** `enc` and `dec` are the two tasks; `out` is what `write_all` has yet to hand over,
`wire` what TCP holds, `leftover` the decoder's buffer. The decoder reads any number of bytes that
are there, up to its buffer. A cell of a frame knows whether it is header, body or tag, and decode
accepts a frame exactly when its cells are those of one encoded frame.

**ProxySession.** `net` holds for each of three connections and two directions the unread items, the
FIN of its writer and whether its reader's socket is gone. `cpc` and `spc` are the places in
`handle_socks5`/`handle_http_connect` with `connect_to_server`, and in `handle_connection`;
`running` are the four relay tasks. `TaskEnds` is the end of one: its writing half is shut down, and
with the second task the function returns and both sockets close. The `eager` application of CONNECT
sends data without waiting for the 200; what one read takes with the header is dropped with the buffer
(client main.rs:198), and `Meant` says that this and nothing else is lost. A writer that finds room
writes a whole frame or the whole first payload, so what is unread stays below `Capacity + Longest`,
where `Longest` is the greater of frame and request buffer.

**AddressCodec and ProxyRequest.** Bytes are numbers and a `String` is its UTF-8 bytes. `Prefix`,
`Parsed` and `FromBytes` follow `to_bytes` and `from_bytes`; the length byte wraps at `LenModulus`, 256
in the code. `Lossy` is `from_utf8_lossy` for bytes below 128, the replacement character and stray
bytes, each of which grows to three. `HttpTarget` splits at the last colon as `rsplit_once` does and
reads the port as `u16`; the splits at whitespace, `://` and `/` before it are left out, so a host of HTTP is
a text without these. The three actions are the client's parsing and packing, the server's
unpacking, and the dial, which fails for the text the server writes for an IPv6 address.

**TunTunnel.** `client[c]` and `server[c]` are the places in `run_windows` and `handle_tun`. A packet
is what the checks of ss-core read of it: number of bytes, version, header length, stated length, and
whether source and destination are the client's; `ValidIpv4`, `ValidPacket` and `ValidResponse` are
the checks. `tap` is what `ss-tun0` has for its reader: a packet that the server's machine routed there or
sends by itself (`Arrives`), or an error, or the end of the device (`DeviceBreaks`). `Inbound` and
`Outbound` are one round of the two loops, `InboundFails` and `OutboundFails` everything that ends one:
the checks, the connection, and reading and writing the device. The client's adapter may fail at any
time, in `Stop`. `RelayEnds`, `DropDevice` and `Unlock` are three steps because the scope of `handle_tun` is
dropped in the reverse order of its declarations. A connection is cut when one of its sockets is
closed; a client that closes with frames unread resets it, so that the server need not read the rest.
`ServerExits` is the end of the server's process (one failing accept is enough, main.rs:36) with all
its sessions. `Reuse` lets a new run of a client take the name of one that is over.

**RouteGuard.** `script` is the rest of the PowerShell script that is running, and each of its commands
a step. The seventh command of `install`, the adapter's IPv6 address, is left out of `InstallScript`: its errors
are ignored and nothing here depends on it. `-ErrorAction Stop` decides which failing commands end it. Killing the client removes the
adapter and its routes and leaves the script; a loss of power removes everything but the name servers.

**TunSystem.** The client of one connection, `Here`, runs on the machine of `RouteGuard`; the others run
elsewhere and keep `TunTunnel`'s one-step installation. A statement of `run_windows` that concerns
connection and settings is one joint action: `ActivateHere` is `Installed` and `Activate`, `FailHere` the
end of `select!` with the drop of the guard, `GiveUp` an error of `install` with the drop of the
connection. `ClientFails` waits for `active`: `install` and `drop` run on the one task and await nothing.

## 3. The runs

Seven runs pass:

| Run | Question | States |
|---|---|---|
| `gui_orderly` | With a registry that obeys and no kill: is the user's proxy setting ever lost (`ProxyRecoverable`), does a supervisor leave a running core behind (`CoreKeepsSupervisor`), do disconnect and close complete, is a dead core noticed? | 35,738 |
| `gui_faults` | With every fault: do screen, worker, retry timer and registry still fit together (`ActiveStateHasDriver`, `IdleStateHasNoSupervisor`, `SupervisorStoppable`, `ProxyOffWhileTunnelled`)? Is `IInv`, which also says that the error line is shown exactly in the failed state, an invariant? | 46,872 |
| `meter_counts` | Is a byte ever counted twice (`NoDoubleCounting`), the hour more than the month, a counter smaller within its period, an added byte forgotten although saves failed and the client was restarted (`NothingForgotten`); does the period follow the clock? | 462,110 |
| `relay` | Do encoding, cutting and reassembly implement `ByteStream`, with every kind of break; does everything arrive when nothing breaks; does no task fail by itself (`NoSpuriousFailure`)? | 75,762 |
| `session` | SOCKS5, CONNECT (by applications that wait for the answer and that do not) and plain HTTP: do target and application receive a prefix of what was meant, and all of it without faults; does the end of one party end all (`SessionEnds`)? | 165,219 |
| `request` | Does the server dial what the application named (`TargetAsNamed`) and pass on the first bytes (`FirstDataKept`), and which requests are refused (`GoodRequestDialled`)? The exceptions in these properties are the cases the code gets wrong: names longer than the length byte, SOCKS5 requests for IPv6 addresses, literal IPv6 addresses without a port | 944 |
| `tun` | The whole of TUN mode with two clients, one of them on a machine with routes and name servers, and every fault. One device: `OneClient` ("TUN 服务端首版仅支持一个客户端", README.md:52), `ServerReleases`, and nothing ends a session but the end of its client, a failing device, or a packet of either machine that is no IPv4 packet from or for the client (`TrafficEndsNoSession`). The machine: never a routing loop, never "active" without all routes, everything restored by a client that was not killed and whose clean-up worked. Both: a client that the server does not serve takes its routes back (`NotStranded`) | 488,567 |

Five runs show where the code does not do what its documents or messages say; TLC finds the
behaviour:

| Run | What the code does |
|---|---|
| `gui_disconnect_final` | A core that dies between the click on disconnect and the worker's next look at its channel is reported as an unexpected exit, and the client reconnects (main.rs:269). The GUI design's state machine ends in "未连接". |
| `gui_close_leaves_core` | `stop_and_wait` takes any queued event for the end of the core, so the process may end with the core running (main.rs:331). |
| `gui_retries_bounded` | `connect()` resets `retry_count` (main.rs:202), also when the retry timer calls it; the limit of five is never reached. |
| `meter_crash_loss` | A crash can lose the bytes of several polls, and during `fs::write` the whole file (main.rs:147, 298). |
| `route_dns_source` | Name servers that came from DHCP are set by hand after one orderly run (tun_mode.rs:193). |

### Bounds, and why they are enough

- *TunnelGui*: two workers, so an old thread can live beside a new one; a worker's identity is
  used again once the thread has ended and its channel is dropped, so the number of connections in
  a behaviour is not bounded. `MaxPending = 1` limits how many events a worker may leave unread
  before it polls the core again; logs and final events are not limited by it. `RetryLimit` is the
  code's 5.
- *TrafficMeter*: three hours in two months, so an hour can end with and without its month; counters
  saturate at 1 and two bytes are carried, so both saturate; one snapshot waits.
- *FrameRelay*: header 2, tag 1, payload at most 2, read buffer 5, five bytes: frames of one and two
  bytes, several frames in one read, and cuts inside header and body and before the tag.
- *ProxySession*: a request buffer of three items and headers of two (fits with body behind it),
  three (just fits) and four (does not fit); sockets that hold two items, so writers wait; one fault
  at any point. A second fault only cuts a session that is ending already.
- *ProxyRequest*: `LenModulus = 8`, so names of seven bytes just fit and names of eight do not; names at
  those limits, of stray bytes that grow past them, empty, with one and several colons, with brackets;
  the ports 0, 80, 443, 65535 and 65536.
- *TunSystem*: two clients, as the lock has two sides; one frame in flight in each direction, so
  writers wait; upward a packet of the full MTU, one with a foreign source and one of IPv6. Downward
  the smallest packet for the client and one of IPv6, such as the router solicitation that the server's
  kernel sends on a new interface: it ends the session. Names of connections are used again, so
  the number of runs is not bounded; what a killed client leaves behind meets its successor. No client
  is started on the machine while the script of a killed one still runs.

### Fairness

Liveness is checked under weak fairness of what the operating system and the runtimes schedule: the
threads of the GUI (a frame comes at least every 200 ms, main.rs:356), each worker thread, each tokio
task and TCP's delivery. No fairness is assumed of users, of cores that exit, of packets or of
faults. `ProxySession` also lets application and target read what they get and close in the end: a
peer that neither reads nor closes keeps a session for ever, because no read has a timeout. In
`TunSystem` the programs and the scripts go on when they can, and nobody need start a client, stop one
or send a packet. Runs with `CHECK_DEADLOCK FALSE` are those that may come to rest.

## 4. What is proved

`TunnelGuiProofs` (for any set of workers, any limits and any faults unless stated):

- `InvariantHolds`: `Spec => []IInv`. The properties about screen and worker are not inductive: they
  do not say what is in the event channel. `IInv` adds that: while the program runs it is in one of
  three phases. *Running*: the held worker supervises, no unread event is final, the proxy is off and
  its old value kept. *Ending*: the worker has returned, and exactly one final event is unread, in the
  batch or in the channel, with only log lines behind it. *Resting*: no supervisor, only log lines
  unread, no proxy backup, and the screen is idle or waits for the retry timer. *Ownership* says who
  may be alive at each place of the GUI thread. The proof has one step per action and a lemma for each group of steps.
- From it `TypeCorrect`, `SupervisorsStoppable`, `ActiveStatesDriven`, `IdleStatesQuiet`,
  `ErrorShown` and `ProxyOff`, without assumptions on faults.
- `ProxyRecovered`, assuming that registry operations succeed and the process is not killed; both are
  needed, the backup is only in memory.
- `CoresSupervised` (an action property), assuming that `try_wait` does not fail: when it does, the
  worker returns and leaves the core (main.rs:656).

`TrafficMeterProofs` (any month length, any value at which the counters saturate, any faults):

- `MeterInvariant`: types, `HourWithinMonth` and what makes it inductive: the hour of a store, in memory
  and on disk, lies in the month of that store, or an hour could go on in a month that starts again. A
  core has counted no more than was carried.
- From it `MeterTypes`, `HourCounted` and the action property `NeverShrinks`.
- `AllKept`: `NothingForgotten`. The invariant `KeptInv` adds that a closed program's file holds its store if
  the last save succeeded, and that nothing has been added yet in an hour or month after the store's, so a roll starts at
  what history has. No assumption on the saves before the last: the next one makes up for them.
- `CountedOnce`: `NoDoubleCounting`. A second invariant relates the baseline to what the core has counted
  and to every snapshot that waits: they only grow, in their order, and what was added plus what lies
  between baseline and core is covered by what was carried; a closed program has no snapshot left.

`TunTunnelProofs` (any clients, packets, capacities and faults):

- `TunInvariant`: types, `OneClient`, and that a device always has a session that relays or is
  dropping it. Without the last part the step that wins the lock could meet a device of nobody.
- From it `TypeCorrect` and `OneClientAtATime`: `Spec => []OneClient`.
- `ProperTrafficGoesOn`: `TrafficEndsNoSession`, for any packets that the two machines send. `WellFormed` is
  RFC 791's view of a packet, and a lemma shows that the code's check accepts all of them up to the MTU. The
  invariant adds that until a session ends only its client can have closed the
  connection (`CutByClient`), and that nothing but IPv4 is on its way (`OnlyForwarded`).

`RouteGuardProofs` (any initial settings, any faults):

- `RouteInvariant`: the invariant says of each phase what the commands that are no longer in the script
  have achieved, and what holds when one of them has failed. The properties say nothing of a script
  half way; without that no step of it preserves them.
- From it `NeverLoops`, `RoutesGone`, `TunnelIsFull` and `RouteTypes`.
- `Restored`: `NetworkRestored`, assuming that the name servers do not come from DHCP at first; with DHCP
  it is false, which is what the run `route_dns_source` shows.

`TunSystemProofs` (any number of clients, any packets):

- `SystemImplementsParts`: `SystemSpec => Spec /\ RouteSpec`, by one step lemma for each part. That for
  `TunTunnel` needs an invariant (`InStep`) that relates the places of the two parts.
- `SystemTypes`, and `SystemSafe`, `SystemKeepsSessions` and `SystemRestores`, which carry the safety of the parts
  over to the composition; only `SystemRestores` assumes something, that the name servers do not come from DHCP at first.

`FrameRelayProofs` (any header, tag, payload and buffer sizes the code's assumption allows, any data):

- `RelayInvariant`: the cells on their way, from the decoder's buffer over the wire to what `write_all`
  still holds, are cut into frames that follow one another without a gap; the first one continues what
  the decoder has delivered, and only a reset may have cut off the end. `TypeOK` and `ImplementsByteStream`
  say nothing of cells on their way, so neither is inductive.
- From it `RelayTypes`, `NoTaskFailsByItself`, and `RelayImplementsStream`: each step of the tasks, of TCP
  or of a fault is a step of `ByteStream` or leaves its variables alone.

`ProxyRequestProofs` (every `LenModulus` up to 256, any requests):

- `LossyTwice`, `LossyAppend` and their lemmas say what `from_utf8_lossy` does to texts of any length: what it
  returns it leaves alone, and it treats a port behind a name as if it stood alone. They are inductions
  over the bytes. The library's induction theorems take a predicate, which the provers cannot instantiate;
  `SetInduction` takes a set of numbers instead and follows from `WFMin`.
- `RoundTrip`: the server unpacks what the client packed, for every address whose host has the length of
  its kind or is a text that fits the length byte, and any data. The server reads past data of any content.
- `RequestInvariant`, and from it `TargetIsNamed`, `FirstDataIsKept` and `GoodRequestsDialled`: the three
  properties of the run `request` for hosts, ports and data of any length. `PortsAssumption` says of the
  constant `Ports` that the digits of a port are those of its number.

`ProxySessionProofs` (any lengths of header, request buffer, sockets and data, any faults):

- `SessionInvariant`. The two properties speak of what has arrived; the invariant follows every item from
  where it starts. `Wire` is all that the application says, `Answer` all that it will hear. Each queue,
  the request buffer, the first frame and each later frame is the part of one of them between two
  places (`Part`, `Chain`), and the place where one reader stands is where the next queue ends. When a
  handler is gone its places are gone with it, so each conjunct names the states in which it holds:
  `TunnelUp` as long as the server lives, `TunnelDown` as long as the client does, `Delivered` for ever.
  `Sending` and `Replying` keep script and handshake in step: no reply is heard before its request
  was sent. One lemma shows for each action what it does to the places.
- From it `SessionTypes`, `UploadDelivers` and `DownloadDelivers`.
- The bound on unread items in `TypeOK` was found by this proof: the smaller bound `Capacity + BufLen` holds in
  the run, whose buffer is longer than its sockets, and fails for a buffer shorter than `Capacity`.
- `AppReceive` takes a reply from the script with `RemoveFirst`. The items of a script are all different, so
  this is `Remove`; but `SelectSeq`, by which `Remove` is defined, is opaque to the prover.

The assumptions on constants (`GuiAssumption`, `MeterAssumption`, `TunTunnelAssumption`, `RouteGuardAssumption`,
`HereAssumption`, `RelayAssumption`, `ProxySessionAssumption`, `LenModulusAssumption`, `PortsAssumption`) are evaluated by TLC in the runs.

## 5. What is only model-checked

Liveness, which is out of the prover's reach: `DisconnectCompletes`, `CloseCompletes`, `DeadCoreNoticed`,
`PeriodFollowsClock`, `BytesArrive`, `CloseArrives`, `SessionEnds`, `RequestArrives`, `ResponseArrives`,
`ServerReleases` and `NotStranded`. `RetryHistory` and the other four disagreements are counterexamples.
The inductive invariants of `FrameRelay`, `ProxySession` and `TrafficMeter` are not part of a run: a chain of
frames is stated by a function that TLC cannot enumerate. Their consequences are what the runs check.

## 6. Plan

1. Proofs: of `FrameRelay`, that at the end of a stream without faults all bytes are there.
2. A second GUI instance on the same registry value and `traffic.txt`.
3. The client's `select!` of proxy loops and TUN mode, as a composition of `ProxySession` and `TunSystem`.

## 7. What is not modelled

- Argument parsing, binding of sockets and logging of client and server. Of the accept loops only that
  the end of one ends its process; each connection is a task that shares only the address, the
  password and the lock, and the session modules start at the accept.
- A traffic file that is written in part: a save writes its one short text whole, or the file stays empty or
  as it was. What a failed last save loses is outside `NothingForgotten`; nothing in the code reports it.
- The splits of an HTTP request at whitespace, `://` and `/`, as above.
- A peer that falls silent without closing: no read has a timeout, so nothing can be promised.
- Characters that `from_utf8_lossy` keeps and that are longer than one byte, other than the replacement
  character: none of the code tells them from shorter ones.
- Cryptography beyond what `FrameRelay` needs (16 bytes longer; decodes whole or not at all). Keys,
  nonces and their uniqueness are not the matter of these models.
- The text of the Mihomo configuration and embedded files: `prepare_runtime` is a step that may fail.
- Drawing, styling, number formatting; the autostart entry and the latency probe, which nothing else
  reads; launch and packaging scripts.
- Real time: timeouts may expire at any moment and threads may take any time.
