----------------------------- MODULE TunnelGui -----------------------------
(***************************************************************************)
(* The desktop client (crates/gui/src/main.rs): the egui thread that owns  *)
(* TunnelApp, the worker thread run_worker/supervise_child it spawns for   *)
(* each connection, the Mihomo core process that thread supervises, and    *)
(* the Windows ProxyEnable registry value the client switches off while a  *)
(* tunnel runs.  The byte counters of the same program are the subject of  *)
(* module TrafficMeter.                                                    *)
(*                                                                         *)
(* Threads talk over two mpsc channels per worker: commands[w] towards the *)
(* worker (only Stop exists) and events[w] towards the GUI.  A frame of    *)
(* the GUI thread is: collect the pending events, handle them one by one,  *)
(* look at the retry timer, then let the user click.  Every other thread   *)
(* and process may run between any two of these steps.                     *)
(***************************************************************************)
EXTENDS Naturals, Sequences

CONSTANTS
    Workers,     \* identities for worker threads; one is reused once it is spent
    None,        \* Option::None
    RetryLimit,  \* the 5 of "retry_count < 5"
    MaxPending,  \* bound: a worker polls the core only below this many unread events
    Faults       \* which operations may fail in this instance

FaultKinds == {"prepare", "regQuery", "regAdd", "regRestore", "spawn",
               "tryWait", "closeTimeout", "crash"}

ASSUME GuiAssumption ==
    /\ None \notin Workers \cup {0, 1}
    /\ RetryLimit \in Nat \ {0}
    /\ MaxPending \in Nat \ {0}
    /\ Faults \subseteq FaultKinds

ConnectionState == {"Disconnected", "Connecting", "Connected", "Disconnecting", "Failed"}

\* WorkerEvent; Exited {expected: true} is written "Stopped".
Terminal == {"Exited", "Stopped", "Failed"}
WorkerEvent == {"Log", "Connected", "Traffic"} \cup Terminal

\* ProxyEnable: 1 when the user runs with a system proxy, 0 otherwise.
ProxyEnable == {0, 1}

VARIABLES
    gui,         \* the GUI thread's place: poll, logic, input, closing, exiting, down
    state,       \* TunnelApp.state
    error,       \* TunnelApp.error.is_some()
    worker,      \* TunnelApp.worker: the worker whose channel ends the GUI holds
    batch,       \* events collected by this frame's poll_worker, not yet handled
    retryCount,  \* TunnelApp.retry_count
    retryAt,     \* TunnelApp.retry_at: none, waiting (in the future) or due
    backup,      \* TunnelApp.proxy_backup
    proxy,       \* the registry's ProxyEnable
    userProxy,   \* what ProxyEnable was before the client first touched it
    wpc,         \* worker thread's place; none when there is no such thread
    connected,   \* supervise_child's local flag
    stop,        \* a Stop has been sent to the worker
    events,      \* unread events of the worker's channel
    child,       \* the core process: none, running, exited
    logs         \* the worker's read_logs threads have not finished

guiVars    == <<gui, state, error, worker, batch, retryCount, retryAt, backup>>
proxyVars  == <<proxy, userProxy>>
threadVars == <<wpc, connected, stop, events, logs>>
vars       == <<guiVars, proxyVars, threadVars, child>>

WorkerPc == {"none", "spawn", "commands", "killed", "check", "fetch",
             "announce", "report", "sleep"}

GuiTypeOK ==
    /\ gui \in {"poll", "logic", "input", "closing", "exiting", "down"}
    /\ state \in ConnectionState
    /\ error \in BOOLEAN
    /\ worker \in Workers \cup {None}
    /\ batch \in Seq(WorkerEvent)
    /\ retryCount \in 0..RetryLimit
    /\ retryAt \in {"none", "waiting", "due"}
    /\ backup \in ProxyEnable \cup {None}
    /\ proxy \in ProxyEnable
    /\ userProxy \in ProxyEnable

ThreadTypeOK ==
    /\ wpc \in [Workers -> WorkerPc]
    /\ connected \in [Workers -> BOOLEAN]
    /\ stop \in [Workers -> BOOLEAN]
    /\ events \in [Workers -> Seq(WorkerEvent)]
    /\ child \in [Workers -> {"none", "running", "exited"}]
    /\ logs \in [Workers -> BOOLEAN]

TypeOK == GuiTypeOK /\ ThreadTypeOK

Init ==
    /\ gui = "poll"
    /\ state = "Disconnected"
    /\ error = FALSE
    /\ worker = None
    /\ batch = <<>>
    /\ retryCount = 0
    /\ retryAt = "none"
    /\ backup = None
    /\ proxy \in ProxyEnable
    /\ userProxy = proxy
    /\ wpc = [w \in Workers |-> "none"]
    /\ connected = [w \in Workers |-> FALSE]
    /\ stop = [w \in Workers |-> FALSE]
    /\ events = [w \in Workers |-> <<>>]
    /\ child = [w \in Workers |-> "none"]
    /\ logs = [w \in Workers |-> FALSE]

-----------------------------------------------------------------------------
(* Steps shared by several handlers.                                       *)

\* A send succeeds only while the GUI still holds the receiver.
Send(w, e) ==
    events' = IF worker = w THEN [events EXCEPT ![w] = Append(@, e)] ELSE events

\* Stop travels on the channel whose sender TunnelApp.worker holds.
SendStop_Forgotten == UNCHANGED stop
SendStop == stop' = [stop EXCEPT ![worker] = TRUE]

\* The worker thread returns.
Return_Missing(w) == wpc' = [wpc EXCEPT ![w] = "sleep"]
Return(w) == wpc' = [wpc EXCEPT ![w] = "none"]

Fail ==
    /\ state' = "Failed"
    /\ error' = TRUE

\* restore_system_proxy: reg writes the old value; its exit status is ignored.
RestoreSystemProxy ==
    \/ proxy' = backup
    \/ "regRestore" \in Faults /\ UNCHANGED proxy

\* restore_proxy: take the backup, if there is one, and write it back.
RestoreProxy_Unchecked ==
    /\ backup' = None
    /\ RestoreSystemProxy
RestoreProxy_Skipped == UNCHANGED <<backup, proxy>>
RestoreProxy ==
    /\ backup' = None
    /\ IF backup = None THEN UNCHANGED proxy ELSE RestoreSystemProxy

\* Dropping TunnelApp.worker drops the receiver and what is queued in it.
DropWorker ==
    /\ worker' = None
    /\ events' = IF worker = None THEN events ELSE [events EXCEPT ![worker] = <<>>]

\* query_proxy_enable().unwrap_or(0): a failed query counts as "no proxy".
QueriedEnable == {proxy} \cup {enabled \in {0} : "regQuery" \in Faults}

\* disable_system_proxy: switch the proxy off and remember the old value.
DisableProxy_NoBackup ==
    /\ backup' = 0
    /\ proxy' = 0
DisableProxy_NotDone ==
    /\ backup' = proxy
    /\ UNCHANGED proxy
DisableProxy ==
    /\ backup' \in QueriedEnable
    /\ proxy' = 0

\* A worker identity whose thread is gone and whose core does not run.
Free(w) == wpc[w] = "none" /\ child[w] # "running"

\* connect: a failure before the thread is spawned leaves worker and backup alone.
Connect ==
    /\ retryCount' = 0
    /\ retryAt' = "none"
    /\ \/ /\ Faults \cap {"prepare", "regAdd"} # {}
          /\ Fail
          /\ UNCHANGED <<worker, backup, proxy, threadVars, child>>
       \/ \E w \in Workers :
          /\ Free(w)
          /\ DisableProxy
          /\ worker' = w
          /\ state' = "Connecting"
          /\ error' = FALSE
          /\ wpc' = [wpc EXCEPT ![w] = "spawn"]
          /\ connected' = [connected EXCEPT ![w] = FALSE]
          /\ stop' = [stop EXCEPT ![w] = FALSE]
          /\ events' = [v \in Workers |-> IF v \in {w, worker} THEN <<>> ELSE events[v]]
          /\ child' = [child EXCEPT ![w] = "none"]
          /\ logs' = [logs EXCEPT ![w] = FALSE]

-----------------------------------------------------------------------------
(* The GUI thread: TunnelApp::logic, ui and on_exit.                       *)

\* poll_worker collects what is pending before it handles any of it.
Poll ==
    /\ gui = "poll"
    /\ gui' = "logic"
    /\ IF worker = None
       THEN UNCHANGED <<batch, events>>
       ELSE /\ batch' = events[worker]
            /\ events' = [events EXCEPT ![worker] = <<>>]
    /\ UNCHANGED <<state, error, worker, retryCount, retryAt, backup, proxyVars,
                   wpc, connected, stop, logs, child>>

\* The next event of the frame's batch.
Take(e) ==
    /\ gui = "logic"
    /\ batch # <<>>
    /\ Head(batch) = e
    /\ batch' = Tail(batch)
    /\ UNCHANGED gui

\* Log lines and byte totals do not touch the connection's state.
HandleInfo ==
    /\ Take("Log") \/ Take("Traffic")
    /\ UNCHANGED <<state, error, worker, retryCount, retryAt, backup, proxyVars,
                   threadVars, child>>

HandleConnected ==
    /\ Take("Connected")
    /\ state' = "Connected"
    /\ error' = FALSE
    /\ UNCHANGED <<worker, retryCount, retryAt, backup, proxyVars, threadVars, child>>

HandleStopped ==
    /\ Take("Stopped")
    /\ DropWorker
    /\ RestoreProxy
    /\ state' = "Disconnected"
    /\ retryCount' = 0
    /\ retryAt' = "none"
    /\ UNCHANGED <<error, userProxy, wpc, connected, stop, logs, child>>

\* The delay of 1 << (retry_count - 1) seconds starts.
ScheduleRetry_NoTimer ==
    /\ retryCount' = retryCount + 1
    /\ state' = "Connecting"
    /\ UNCHANGED <<retryAt, error>>
ScheduleRetry ==
    /\ retryCount' = retryCount + 1
    /\ retryAt' = "waiting"
    /\ state' = "Connecting"
    /\ UNCHANGED error

HandleExited ==
    /\ Take("Exited")
    /\ DropWorker
    /\ RestoreProxy
    /\ IF retryCount < RetryLimit
       THEN ScheduleRetry
       ELSE /\ retryCount' = 0
            /\ retryAt' = "none"
            /\ Fail
    /\ UNCHANGED <<userProxy, wpc, connected, stop, logs, child>>

\* The Failed arm keeps TunnelApp.worker although its thread has returned.
HandleFailed ==
    /\ Take("Failed")
    /\ RestoreProxy
    /\ Fail
    /\ UNCHANGED <<worker, retryCount, retryAt, userProxy, threadVars, child>>

\* The rest of logic(): reconnect when the retry timer has expired.
RetryDue ==
    /\ gui = "logic"
    /\ batch = <<>>
    /\ retryAt = "due"
    /\ gui' = "input"
    /\ Connect
    /\ UNCHANGED <<batch, userProxy>>

NoRetry ==
    /\ gui = "logic"
    /\ batch = <<>>
    /\ retryAt # "due"
    /\ gui' = "input"
    /\ UNCHANGED <<state, error, worker, batch, retryCount, retryAt, backup,
                   proxyVars, threadVars, child>>

\* The button is disabled while a connection is being set up or torn down.
Busy_OnlyTeardown == state = "Disconnecting"
Busy == state \in {"Connecting", "Disconnecting"}

ClickConnect ==
    /\ gui = "input"
    /\ ~Busy
    /\ state # "Connected"
    /\ gui' = "poll"
    /\ Connect
    /\ UNCHANGED <<batch, userProxy>>

\* disconnect: send Stop and wait for the worker's answer, if there is a worker.
ClickDisconnect ==
    /\ gui = "input"
    /\ state = "Connected"
    /\ gui' = "poll"
    /\ retryAt' = "none"
    /\ retryCount' = 0
    /\ IF worker # None
       THEN /\ SendStop
            /\ state' = "Disconnecting"
            /\ UNCHANGED <<backup, proxy>>
       ELSE /\ state' = "Disconnected"
            /\ RestoreProxy
            /\ UNCHANGED stop
    /\ UNCHANGED <<error, worker, batch, userProxy, wpc, connected, events, logs, child>>

NoInput ==
    /\ gui = "input"
    /\ gui' = "poll"
    /\ UNCHANGED <<state, error, worker, batch, retryCount, retryAt, backup,
                   proxyVars, threadVars, child>>

\* on_exit calls stop_and_wait: Stop first ...
Close ==
    /\ gui = "input"
    /\ gui' = "closing"
    /\ IF worker # None THEN SendStop ELSE UNCHANGED stop
    /\ UNCHANGED <<state, error, worker, batch, retryCount, retryAt, backup,
                   proxyVars, wpc, connected, events, logs, child>>

\* ... then recv_timeout returns with the first event of any kind, with an error
\* once no sender is left, or after four seconds; then the proxy is restored.
WaitOver ==
    worker # None => \/ events[worker] # <<>>
                     \/ wpc[worker] = "none" /\ ~logs[worker]
                     \/ "closeTimeout" \in Faults

StopAndWaitReturns ==
    /\ gui = "closing"
    /\ WaitOver
    /\ gui' = "exiting"
    /\ DropWorker
    /\ RestoreProxy
    /\ UNCHANGED <<state, error, batch, retryCount, retryAt, userProxy,
                   wpc, connected, stop, logs, child>>

\* The end of the process takes its threads and memory; the core is no thread.
ProcessEnds ==
    /\ gui' = "down"
    /\ state' = "Disconnected"
    /\ error' = FALSE
    /\ worker' = None
    /\ batch' = <<>>
    /\ retryCount' = 0
    /\ retryAt' = "none"
    /\ backup' = None
    /\ wpc' = [w \in Workers |-> "none"]
    /\ connected' = [w \in Workers |-> FALSE]
    /\ stop' = [w \in Workers |-> FALSE]
    /\ events' = [w \in Workers |-> <<>>]
    /\ logs' = [w \in Workers |-> FALSE]
    /\ UNCHANGED <<proxyVars, child>>

Exit ==
    /\ gui = "exiting"
    /\ ProcessEnds

Crash ==
    /\ "crash" \in Faults
    /\ gui # "down"
    /\ ProcessEnds

\* The user starts the program again: TunnelApp::new.
Launch ==
    /\ gui = "down"
    /\ \E w \in Workers : Free(w)
    /\ gui' = "poll"
    /\ UNCHANGED <<state, error, worker, batch, retryCount, retryAt, backup,
                   proxyVars, threadVars, child>>

GuiThread ==
    \/ Poll \/ HandleInfo \/ HandleConnected \/ HandleStopped \/ HandleExited
    \/ HandleFailed \/ RetryDue \/ NoRetry \/ ClickConnect \/ ClickDisconnect
    \/ NoInput \/ Close \/ StopAndWaitReturns \/ Exit

\* The delay of one to sixteen seconds passes.
TimerExpires ==
    /\ retryAt = "waiting"
    /\ retryAt' = "due"
    /\ UNCHANGED <<gui, state, error, worker, batch, retryCount, backup,
                   proxyVars, threadVars, child>>

-----------------------------------------------------------------------------
(* The worker thread: run_worker and supervise_child.                      *)

SpawnCore(w) ==
    /\ wpc[w] = "spawn"
    /\ \/ /\ child' = [child EXCEPT ![w] = "running"]
          /\ logs' = [logs EXCEPT ![w] = TRUE]
          /\ wpc' = [wpc EXCEPT ![w] = "commands"]
          /\ UNCHANGED events
       \/ /\ "spawn" \in Faults
          /\ Send(w, "Failed")
          /\ Return(w)
          /\ UNCHANGED <<child, logs>>
    /\ UNCHANGED <<guiVars, proxyVars, connected, stop>>

\* child.kill() and child.wait().
KillCore_Forgotten(w) == UNCHANGED child
KillCore(w) == child' = [child EXCEPT ![w] = "exited"]

\* The top of the loop: kill and wait on a Stop, otherwise go on.
ReadCommand(w) ==
    /\ wpc[w] = "commands"
    /\ IF stop[w]
       THEN /\ KillCore(w)
            /\ wpc' = [wpc EXCEPT ![w] = "killed"]
       ELSE /\ wpc' = [wpc EXCEPT ![w] = "check"]
            /\ UNCHANGED child
    /\ UNCHANGED <<guiVars, proxyVars, connected, stop, events, logs>>

ReportStopped(w) ==
    /\ wpc[w] = "killed"
    /\ Send(w, "Stopped")
    /\ Return(w)
    /\ UNCHANGED <<guiVars, proxyVars, connected, stop, logs, child>>

\* try_wait: the core has exited, its status cannot be read, or it runs.
CheckCore_Silent(w) ==
    /\ wpc[w] = "check"
    /\ IF child[w] = "exited"
       THEN Return(w)
       ELSE wpc' = [wpc EXCEPT ![w] = "fetch"]
    /\ UNCHANGED <<guiVars, proxyVars, connected, stop, events, logs, child>>
CheckCore(w) ==
    /\ wpc[w] = "check"
    /\ \/ /\ child[w] = "exited"
          /\ Send(w, "Exited")
          /\ Return(w)
       \/ /\ "tryWait" \in Faults
          /\ Send(w, "Failed")
          /\ Return(w)
       \/ /\ child[w] = "running"
          /\ wpc' = [wpc EXCEPT ![w] = "fetch"]
          /\ UNCHANGED events
    /\ UNCHANGED <<guiVars, proxyVars, connected, stop, logs, child>>

\* fetch_totals asks whichever core holds the controller port.
FetchTotals(w) ==
    /\ wpc[w] = "fetch"
    /\ Len(events[w]) < MaxPending
    /\ \/ /\ \E v \in Workers : child[v] = "running"
          /\ wpc' = [wpc EXCEPT ![w] = IF connected[w] THEN "report" ELSE "announce"]
       \/ wpc' = [wpc EXCEPT ![w] = "sleep"]
    /\ UNCHANGED <<guiVars, proxyVars, connected, stop, events, logs, child>>

Announce(w) ==
    /\ wpc[w] = "announce"
    /\ connected' = [connected EXCEPT ![w] = TRUE]
    /\ Send(w, "Connected")
    /\ wpc' = [wpc EXCEPT ![w] = "report"]
    /\ UNCHANGED <<guiVars, proxyVars, stop, logs, child>>

ReportTraffic(w) ==
    /\ wpc[w] = "report"
    /\ Send(w, "Traffic")
    /\ wpc' = [wpc EXCEPT ![w] = "sleep"]
    /\ UNCHANGED <<guiVars, proxyVars, connected, stop, logs, child>>

Sleep(w) ==
    /\ wpc[w] = "sleep"
    /\ wpc' = [wpc EXCEPT ![w] = "commands"]
    /\ UNCHANGED <<guiVars, proxyVars, connected, stop, events, logs, child>>

WorkerThread(w) ==
    \/ SpawnCore(w) \/ ReadCommand(w) \/ ReportStopped(w) \/ CheckCore(w)
    \/ FetchTotals(w) \/ Announce(w) \/ ReportTraffic(w) \/ Sleep(w)

\* read_logs reads to the end of the core's output, so it speaks after the exit.
ReadLogs(w) ==
    /\ logs[w]
    /\ child[w] = "exited"
    /\ logs' = [logs EXCEPT ![w] = FALSE]
    /\ Send(w, "Log") \/ UNCHANGED events
    /\ UNCHANGED <<guiVars, proxyVars, wpc, connected, stop, child>>

\* The core may end at any time, supervised or not.
CoreExits(w) ==
    /\ child[w] = "running"
    /\ child' = [child EXCEPT ![w] = "exited"]
    /\ UNCHANGED <<guiVars, proxyVars, threadVars>>

Next ==
    \/ GuiThread
    \/ TimerExpires
    \/ Crash
    \/ Launch
    \/ \E w \in Workers : WorkerThread(w) \/ ReadLogs(w) \/ CoreExits(w)

Spec == Init /\ [][Next]_vars

\* The schedulers run the GUI thread, the workers and the clock; nothing obliges
\* the user to click, the core to die or to answer.
Fairness ==
    /\ WF_vars(GuiThread)
    /\ WF_vars(TimerExpires)
    /\ \A w \in Workers : WF_vars(WorkerThread(w)) /\ WF_vars(ReadLogs(w))

FairSpec == Spec /\ Fairness

-----------------------------------------------------------------------------
(* Properties.                                                             *)

\* The program runs and no window close is in progress.
Up == gui \in {"poll", "logic", "input"}

Live(w) == wpc[w] # "none"

\* A terminal event that the GUI has yet to handle.
EndPending ==
    \/ \E i \in DOMAIN batch : batch[i] \in Terminal
    \/ worker # None /\ \E i \in DOMAIN events[worker] : events[worker][i] \in Terminal

\* The user's ProxyEnable is never lost: it is in the registry, or it is in the
\* backup that restore_proxy will write back, through every order of connects,
\* exits, failures and retries (restore_proxy, connect).
ProxyRecoverable ==
    IF backup = None THEN proxy = userProxy ELSE backup = userProxy

\* While the client shows or prepares a tunnel the system proxy is off and the old
\* value is at hand; the retry pause is the one time it is back (connect, poll_worker).
ProxyOffWhileTunnelled ==
    /\ Up
    /\ \/ state \in {"Connected", "Disconnecting"}
       \/ state = "Connecting" /\ retryAt = "none"
    => proxy = 0 /\ backup # None

\* Every live supervisor can still be told to stop: the GUI holds its channel or has
\* already sent Stop.  Dropping the sender would not end the thread, because
\* supervise_child's try_recv().is_ok() is false on a closed channel.
SupervisorStoppable ==
    \A w \in Workers : Live(w) => worker = w \/ stop[w]

\* A screen that says connecting, connected or disconnecting always has something
\* that will move it on: a retry timer, a live supervisor or its last event.  With
\* the button disabled nobody else could (poll_worker, logic).
ActiveStateHasDriver ==
    Up /\ state \in {"Connecting", "Connected", "Disconnecting"} =>
        \/ retryAt # "none"
        \/ worker # None /\ Live(worker)
        \/ EndPending

\* A screen that offers to connect has no supervisor behind it, so a click cannot
\* start a second core beside a supervised one (ui, connect).
IdleStateHasNoSupervisor ==
    Up /\ state \in {"Disconnected", "Failed"} => \A w \in Workers : ~Live(w)

\* The error line is shown exactly in the failed state (fail, connect, poll_worker).
ErrorIffFailed == error <=> state = "Failed"

\* A running core loses its supervisor only when the whole client ends: the worker
\* returns only after kill and wait, or after it saw the exit (supervise_child).
CoreKeepsSupervisor ==
    [][\A w \in Workers :
        Live(w) /\ ~Live(w)' /\ gui' # "down" => child'[w] # "running"]_vars

\* A disconnect comes to an end: the worker reads Stop, kills the core and reports.
DisconnectCompletes == state = "Disconnecting" ~> state # "Disconnecting"

\* Closing the window comes to an end without the four-second timeout.
CloseCompletes == gui = "closing" ~> gui = "down"

\* A core that dies under a connected screen does not stay unnoticed.
DeadCoreNoticed ==
    state = "Connected" /\ worker # None /\ child[worker] = "exited"
        ~> state # "Connected"

-----------------------------------------------------------------------------
(* The inductive invariant behind the safety properties.                   *)

NoTerminal(s) == \A i \in DOMAIN s : s[i] \notin Terminal
OnlyLogs(s)   == \A i \in DOMAIN s : s[i] = "Log"

\* One terminal event, and nothing but log lines after it.
EndsOnce(s) ==
    \E i \in DOMAIN s :
        /\ s[i] \in Terminal
        /\ \A j \in DOMAIN s : /\ j < i => s[j] \notin Terminal
                               /\ j > i => s[j] = "Log"

Active == state \in {"Connecting", "Connected", "Disconnecting"}

\* The GUI's worker supervises and has not said anything final.
Running ==
    /\ worker # None
    /\ Live(worker)
    /\ NoTerminal(batch) /\ NoTerminal(events[worker])
    /\ Active /\ retryAt = "none"
    /\ backup # None /\ proxy = 0

\* The worker has returned and its last event is under way.
Ending ==
    /\ worker # None
    /\ ~Live(worker)
    /\ \/ EndsOnce(batch) /\ OnlyLogs(events[worker])
       \/ NoTerminal(batch) /\ EndsOnce(events[worker])
    /\ Active /\ retryAt = "none"
    /\ backup # None /\ proxy = 0

\* There is no supervisor, only log lines are left, and the proxy is the user's.
Resting ==
    /\ worker # None => ~Live(worker) /\ OnlyLogs(events[worker])
    /\ OnlyLogs(batch)
    /\ \/ state \in {"Disconnected", "Failed"} /\ retryAt = "none"
       \/ state = "Connecting" /\ retryAt # "none" /\ worker = None
    /\ backup = None

\* Who may be alive at each place of the GUI thread.
Ownership ==
    /\ gui # "logic" => batch = <<>>
    /\ \A w \in Workers : events[w] # <<>> => w = worker
    /\ gui \notin {"exiting", "down"} => \A w \in Workers : Live(w) => w = worker
    /\ gui = "closing" /\ worker # None => stop[worker]
    /\ gui \in {"exiting", "down"} => worker = None /\ backup = None
    /\ gui = "exiting" => \A w \in Workers : Live(w) => stop[w]
    /\ gui = "down" => /\ state = "Disconnected"
                       /\ retryAt = "none"
                       /\ \A w \in Workers : ~Live(w)

Phases == Up => Running \/ Ending \/ Resting

\* The whole of it: at every place of the GUI thread the worker, its unread events, the
\* screen, the retry timer and the registry fit one of three phases.
IInv == TypeOK /\ Ownership /\ Phases /\ ErrorIffFailed

-----------------------------------------------------------------------------
\* What the design notes promise and the code does not do.

\* "connected -> disconnecting -> disconnected": a disconnect the user asked for is
\* never turned into a new connection.
DisconnectIsFinal ==
    [][state = "Disconnecting" => state' # "Connecting"]_vars

\* No process is left once the window is closed.
NoCoreAfterClose ==
    gui = "down" => \A w \in Workers : child[w] # "running"

=============================================================================
