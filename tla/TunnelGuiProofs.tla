-------------------------- MODULE TunnelGuiProofs --------------------------
(***************************************************************************)
(* Theorems about TunnelGui, for every set of workers, every retry limit   *)
(* and every choice of operations that may fail.                           *)
(***************************************************************************)
EXTENDS TunnelGui, TLAPS

-----------------------------------------------------------------------------
(* Sequences of worker events.                                             *)

LEMMA TerminalEvents ==
    /\ Terminal \subseteq WorkerEvent
    /\ {"Log", "Connected", "Traffic"} \subseteq WorkerEvent
    /\ {"Log", "Connected", "Traffic"} \cap Terminal = {}
BY DEF Terminal, WorkerEvent

LEMMA EmptyEvents ==
    /\ NoTerminal(<<>>)
    /\ OnlyLogs(<<>>)
    /\ ~EndsOnce(<<>>)
BY DEF NoTerminal, OnlyLogs, EndsOnce

LEMMA TakeFromNoTerminal ==
    ASSUME NEW s \in Seq(WorkerEvent), s # <<>>, NoTerminal(s)
    PROVE  Head(s) \notin Terminal /\ NoTerminal(Tail(s))
BY DEF NoTerminal

LEMMA TakeFromOnlyLogs ==
    ASSUME NEW s \in Seq(WorkerEvent), s # <<>>, OnlyLogs(s)
    PROVE  Head(s) = "Log" /\ OnlyLogs(Tail(s))
BY DEF OnlyLogs

LEMMA TakeFromEndsOnce ==
    ASSUME NEW s \in Seq(WorkerEvent), s # <<>>, EndsOnce(s)
    PROVE  IF Head(s) \in Terminal THEN OnlyLogs(Tail(s)) ELSE EndsOnce(Tail(s))
<1>1. PICK i \in DOMAIN s : /\ s[i] \in Terminal
                            /\ \A j \in DOMAIN s : /\ j < i => s[j] \notin Terminal
                                                   /\ j > i => s[j] = "Log"
  BY DEF EndsOnce
<1>2. CASE i = 1
  BY <1>1, <1>2 DEF OnlyLogs
<1>3. CASE i # 1
  <2>1. Head(s) \notin Terminal
    BY <1>1, <1>3
  <2>2. /\ i - 1 \in DOMAIN Tail(s)
        /\ Tail(s)[i - 1] = s[i]
    BY <1>1, <1>3
  <2>3. ASSUME NEW j \in DOMAIN Tail(s)
        PROVE  /\ j < i - 1 => Tail(s)[j] \notin Terminal
               /\ j > i - 1 => Tail(s)[j] = "Log"
    BY <1>1
  <2>4. EndsOnce(Tail(s))
    BY <1>1, <2>2, <2>3 DEF EndsOnce
  <2> QED
    BY <2>1, <2>4
<1> QED
  BY <1>2, <1>3

LEMMA AppendToNoTerminal ==
    ASSUME NEW s \in Seq(WorkerEvent), NoTerminal(s), NEW e \in WorkerEvent
    PROVE  IF e \in Terminal THEN EndsOnce(Append(s, e)) ELSE NoTerminal(Append(s, e))
<1>1. CASE e \in Terminal
  <2>1. /\ Len(s) + 1 \in DOMAIN Append(s, e)
        /\ Append(s, e)[Len(s) + 1] = e
    OBVIOUS
  <2>2. ASSUME NEW j \in DOMAIN Append(s, e)
        PROVE  /\ j < Len(s) + 1 => Append(s, e)[j] \notin Terminal
               /\ j > Len(s) + 1 => Append(s, e)[j] = "Log"
    BY DEF NoTerminal
  <2> QED
    BY <1>1, <2>1, <2>2 DEF EndsOnce
<1>2. CASE e \notin Terminal
  BY <1>2 DEF NoTerminal
<1> QED
  BY <1>1, <1>2

LEMMA AppendLog ==
    ASSUME NEW s \in Seq(WorkerEvent)
    PROVE  /\ NoTerminal(s) => NoTerminal(Append(s, "Log"))
           /\ OnlyLogs(s) => OnlyLogs(Append(s, "Log"))
           /\ EndsOnce(s) => EndsOnce(Append(s, "Log"))
<1>1. NoTerminal(s) => NoTerminal(Append(s, "Log"))
  BY TerminalEvents DEF NoTerminal
<1>2. OnlyLogs(s) => OnlyLogs(Append(s, "Log"))
  BY DEF OnlyLogs
<1>3. ASSUME EndsOnce(s)
      PROVE  EndsOnce(Append(s, "Log"))
  <2>1. PICK i \in DOMAIN s : /\ s[i] \in Terminal
                              /\ \A j \in DOMAIN s : /\ j < i => s[j] \notin Terminal
                                                     /\ j > i => s[j] = "Log"
    BY <1>3 DEF EndsOnce
  <2>2. /\ i \in DOMAIN Append(s, "Log")
        /\ Append(s, "Log")[i] = s[i]
    BY <2>1
  <2>3. ASSUME NEW j \in DOMAIN Append(s, "Log")
        PROVE  /\ j < i => Append(s, "Log")[j] \notin Terminal
               /\ j > i => Append(s, "Log")[j] = "Log"
    BY <2>1
  <2> QED
    BY <2>1, <2>2, <2>3 DEF EndsOnce
<1> QED
  BY <1>1, <1>2, <1>3

\* An event other than a log line keeps the logs-only batch from existing, and a batch
\* of logs has no terminal event.
LEMMA OnlyLogsNoTerminal ==
    ASSUME NEW s, OnlyLogs(s)
    PROVE  NoTerminal(s)
BY TerminalEvents DEF OnlyLogs, NoTerminal

-----------------------------------------------------------------------------
(* Types.                                                                  *)

LEMMA TypeInit == Init => TypeOK
<1> SUFFICES ASSUME Init PROVE TypeOK
  OBVIOUS
<1>1. /\ connected \in [Workers -> BOOLEAN]
      /\ stop \in [Workers -> BOOLEAN]
      /\ logs \in [Workers -> BOOLEAN]
  BY DEF Init
<1>2. events \in [Workers -> Seq(WorkerEvent)] /\ batch \in Seq(WorkerEvent)
  BY DEF Init
<1>3. wpc \in [Workers -> WorkerPc] /\ child \in [Workers -> {"none", "running", "exited"}]
  BY DEF Init, WorkerPc
<1>4. ThreadTypeOK
  BY <1>1, <1>2, <1>3 DEF ThreadTypeOK
<1>5. GuiTypeOK
  <2>1. retryCount \in 0..RetryLimit
    BY GuiAssumption DEF Init, GuiAssumption
  <2>2. state \in ConnectionState /\ error \in BOOLEAN
    BY DEF Init, ConnectionState
  <2> QED
    BY <1>2, <2>1, <2>2 DEF Init, GuiTypeOK
<1> QED
  BY <1>4, <1>5 DEF TypeOK

\* What the helpers of several actions keep.
LEMMA SendTypes ==
    ASSUME TypeOK, NEW w \in Workers, NEW e \in WorkerEvent, Send(w, e)
    PROVE  events' \in [Workers -> Seq(WorkerEvent)]
<1>1. events \in [Workers -> Seq(WorkerEvent)] /\ Append(events[w], e) \in Seq(WorkerEvent)
  BY DEF TypeOK, ThreadTypeOK
<1> QED
  BY <1>1 DEF Send

LEMMA EmptiedTypes ==
    ASSUME TypeOK, NEW w \in Workers
    PROVE  [events EXCEPT ![w] = <<>>] \in [Workers -> Seq(WorkerEvent)]
BY DEF TypeOK, ThreadTypeOK

LEMMA DropWorkerTypes ==
    ASSUME TypeOK, DropWorker
    PROVE  worker' \in Workers \cup {None} /\ events' \in [Workers -> Seq(WorkerEvent)]
<1>1. worker \in Workers \cup {None} /\ events \in [Workers -> Seq(WorkerEvent)]
  BY DEF TypeOK, GuiTypeOK, ThreadTypeOK
<1> QED
  BY <1>1, EmptiedTypes DEF DropWorker

LEMMA RestoreProxyTypes ==
    ASSUME TypeOK, RestoreProxy
    PROVE  backup' \in ProxyEnable \cup {None} /\ proxy' \in ProxyEnable
BY DEF RestoreProxy, RestoreSystemProxy, TypeOK, GuiTypeOK

LEMMA TakeTypes ==
    ASSUME TypeOK, NEW e, Take(e)
    PROVE  batch' \in Seq(WorkerEvent) /\ gui' = gui
BY DEF Take, TypeOK, GuiTypeOK

LEMMA ThreadsUnchanged ==
    ASSUME TypeOK, UNCHANGED <<wpc, connected, stop, logs, child>>,
           events' \in [Workers -> Seq(WorkerEvent)]
    PROVE  ThreadTypeOK'
BY DEF TypeOK, ThreadTypeOK

LEMMA SendStopTypes ==
    ASSUME TypeOK, worker # None, SendStop
    PROVE  stop' \in [Workers -> BOOLEAN]
<1>1. worker \in Workers /\ stop \in [Workers -> BOOLEAN]
  BY DEF TypeOK, GuiTypeOK, ThreadTypeOK
<1> QED
  BY <1>1 DEF SendStop

\* connect() for a worker identity w that gets through.
ConnectWith(w) ==
    /\ retryCount' = 0
    /\ retryAt' = "none"
    /\ Free(w)
    /\ DisableProxy
    /\ worker' = w
    /\ state' = "Connecting"
    /\ error' = FALSE
    /\ wpc' = [wpc EXCEPT ![w] = "spawn"]
    /\ connected' = [connected EXCEPT ![w] = FALSE]
    /\ stop' = [stop EXCEPT ![w] = FALSE]
    /\ events' = [v \in Workers |-> IF v \in {w, worker} THEN <<>> ELSE events[v]]
    /\ child' = [child EXCEPT ![w] = "none"]
    /\ logs' = [logs EXCEPT ![w] = FALSE]

\* connect() that gives up before it spawns the thread.
ConnectFails ==
    /\ retryCount' = 0
    /\ retryAt' = "none"
    /\ Fail
    /\ UNCHANGED <<worker, backup, proxy, threadVars, child>>

LEMMA ConnectCases ==
    ASSUME Connect
    PROVE  ConnectFails \/ \E w \in Workers : ConnectWith(w)
BY DEF Connect, ConnectFails, ConnectWith

LEMMA ConnectTypes ==
    ASSUME TypeOK, Connect,
           gui' \in {"input", "poll"}, UNCHANGED <<batch, userProxy>>
    PROVE  TypeOK'
<1>1. retryCount' \in 0..RetryLimit /\ retryAt' \in {"none", "waiting", "due"}
  BY GuiAssumption DEF Connect, GuiAssumption
<1>2. CASE ConnectFails
  <2>1. ThreadTypeOK'
    BY <1>2 DEF ConnectFails, threadVars, TypeOK, ThreadTypeOK
  <2>2. state' \in ConnectionState /\ error' \in BOOLEAN
    BY <1>2 DEF ConnectFails, Fail, ConnectionState
  <2> QED
    BY <1>1, <1>2, <2>1, <2>2 DEF ConnectFails, TypeOK, GuiTypeOK
<1>3. ASSUME NEW w \in Workers, ConnectWith(w)
      PROVE  TypeOK'
  <2>1. /\ connected' \in [Workers -> BOOLEAN]
        /\ stop' \in [Workers -> BOOLEAN]
        /\ logs' \in [Workers -> BOOLEAN]
    BY <1>3 DEF ConnectWith, TypeOK, ThreadTypeOK
  <2>2. events' \in [Workers -> Seq(WorkerEvent)]
    <3>1. ASSUME NEW v \in Workers
          PROVE  (IF v \in {w, worker} THEN <<>> ELSE events[v]) \in Seq(WorkerEvent)
      BY DEF TypeOK, ThreadTypeOK
    <3> QED
      BY <1>3, <3>1 DEF ConnectWith
  <2>3. wpc' \in [Workers -> WorkerPc]
    BY <1>3 DEF ConnectWith, TypeOK, ThreadTypeOK, WorkerPc
  <2>4. child' \in [Workers -> {"none", "running", "exited"}]
    BY <1>3 DEF ConnectWith, TypeOK, ThreadTypeOK
  <2>5. ThreadTypeOK'
    BY <2>1, <2>2, <2>3, <2>4 DEF ThreadTypeOK
  <2>6. backup' \in ProxyEnable \cup {None} /\ proxy' \in ProxyEnable
    BY <1>3 DEF ConnectWith, DisableProxy, QueriedEnable, TypeOK, GuiTypeOK, ProxyEnable
  <2>7. state' \in ConnectionState /\ error' \in BOOLEAN /\ worker' \in Workers \cup {None}
    BY <1>3 DEF ConnectWith, ConnectionState
  <2>8. GuiTypeOK'
    BY <1>1, <2>6, <2>7 DEF TypeOK, GuiTypeOK
  <2> QED
    BY <2>5, <2>8 DEF TypeOK
<1> QED
  BY <1>2, <1>3, ConnectCases

\* The worker thread's program counter and its other steps.
LEMMA WorkerTypes ==
    ASSUME TypeOK, NEW w \in Workers, WorkerThread(w) \/ ReadLogs(w) \/ CoreExits(w)
    PROVE  TypeOK'
<1> USE DEF ThreadTypeOK
<1>1. {"Failed", "Stopped", "Exited", "Connected", "Traffic", "Log"} \subseteq WorkerEvent
  BY DEF WorkerEvent, Terminal
<1>2. UNCHANGED guiVars /\ UNCHANGED proxyVars
  BY DEF WorkerThread, SpawnCore, ReadCommand, ReportStopped, CheckCore, FetchTotals,
         Announce, ReportTraffic, Sleep, ReadLogs, CoreExits
<1>3. GuiTypeOK'
  BY <1>2 DEF guiVars, proxyVars, TypeOK, GuiTypeOK
<1>4. events' \in [Workers -> Seq(WorkerEvent)]
  BY <1>1, SendTypes
     DEF WorkerThread, SpawnCore, ReadCommand, ReportStopped, CheckCore, FetchTotals,
         Announce, ReportTraffic, Sleep, ReadLogs, CoreExits, TypeOK, threadVars
<1>5. wpc' \in [Workers -> WorkerPc]
  BY DEF WorkerThread, SpawnCore, ReadCommand, ReportStopped, CheckCore, FetchTotals,
         Announce, ReportTraffic, Sleep, ReadLogs, CoreExits, TypeOK, threadVars,
         Return, WorkerPc
<1>6. /\ connected' \in [Workers -> BOOLEAN]
      /\ stop' \in [Workers -> BOOLEAN]
      /\ logs' \in [Workers -> BOOLEAN]
  BY DEF WorkerThread, SpawnCore, ReadCommand, ReportStopped, CheckCore, FetchTotals,
         Announce, ReportTraffic, Sleep, ReadLogs, CoreExits, TypeOK, threadVars
<1>7. child' \in [Workers -> {"none", "running", "exited"}]
  BY DEF WorkerThread, SpawnCore, ReadCommand, ReportStopped, CheckCore, FetchTotals,
         Announce, ReportTraffic, Sleep, ReadLogs, CoreExits, TypeOK, threadVars, KillCore
<1> QED
  BY <1>3, <1>4, <1>5, <1>6, <1>7 DEF TypeOK

\* Every step keeps the types.
LEMMA TypeStep ==
    ASSUME TypeOK, [Next]_vars
    PROVE  TypeOK'
<1>1. CASE Poll
  <2>1. batch' \in Seq(WorkerEvent)
    BY <1>1 DEF Poll, TypeOK, GuiTypeOK, ThreadTypeOK
  <2>2. events' \in [Workers -> Seq(WorkerEvent)]
    <3>1. worker # None => worker \in Workers
      BY DEF TypeOK, GuiTypeOK
    <3>2. events \in [Workers -> Seq(WorkerEvent)]
      BY DEF TypeOK, ThreadTypeOK
    <3> QED
      BY <1>1, <3>1, <3>2, EmptiedTypes DEF Poll
  <2>3. ThreadTypeOK'
    BY <1>1, <2>2, ThreadsUnchanged DEF Poll
  <2> QED
    BY <1>1, <2>1, <2>3 DEF Poll, proxyVars, TypeOK, GuiTypeOK
<1>2. CASE HandleInfo \/ HandleConnected
  <2>1. batch' \in Seq(WorkerEvent) /\ gui' = gui
    BY <1>2, TakeTypes DEF HandleInfo, HandleConnected
  <2>2. UNCHANGED <<wpc, connected, stop, events, logs, child>>
    BY <1>2 DEF HandleInfo, HandleConnected, threadVars
  <2>3. ThreadTypeOK'
    BY <2>2 DEF TypeOK, ThreadTypeOK
  <2>4. state' \in ConnectionState /\ error' \in BOOLEAN
    BY <1>2 DEF HandleInfo, HandleConnected, TypeOK, GuiTypeOK, ConnectionState
  <2> QED
    BY <1>2, <2>1, <2>3, <2>4 DEF HandleInfo, HandleConnected, proxyVars, TypeOK, GuiTypeOK
<1>3. CASE HandleStopped \/ HandleExited
  <2>1. batch' \in Seq(WorkerEvent) /\ gui' = gui
    BY <1>3, TakeTypes DEF HandleStopped, HandleExited
  <2>2. /\ worker' \in Workers \cup {None}
        /\ events' \in [Workers -> Seq(WorkerEvent)]
        /\ backup' \in ProxyEnable \cup {None}
        /\ proxy' \in ProxyEnable
    BY <1>3, DropWorkerTypes, RestoreProxyTypes DEF HandleStopped, HandleExited
  <2>3. ThreadTypeOK'
    BY <1>3, <2>2, ThreadsUnchanged DEF HandleStopped, HandleExited
  <2>4. state' \in ConnectionState /\ error' \in BOOLEAN
    BY <1>3 DEF HandleStopped, HandleExited, ScheduleRetry, Fail, TypeOK, GuiTypeOK,
                ConnectionState
  <2>5. retryCount' \in 0..RetryLimit /\ retryAt' \in {"none", "waiting", "due"}
    BY <1>3, GuiAssumption
       DEF HandleStopped, HandleExited, ScheduleRetry, Fail, TypeOK, GuiTypeOK, GuiAssumption
  <2> QED
    BY <1>3, <2>1, <2>2, <2>3, <2>4, <2>5 DEF HandleStopped, HandleExited, TypeOK, GuiTypeOK
<1>4. CASE HandleFailed
  <2>1. batch' \in Seq(WorkerEvent) /\ gui' = gui
    BY <1>4, TakeTypes DEF HandleFailed
  <2>2. backup' \in ProxyEnable \cup {None} /\ proxy' \in ProxyEnable
    BY <1>4, RestoreProxyTypes DEF HandleFailed
  <2>3. ThreadTypeOK'
    BY <1>4 DEF HandleFailed, threadVars, TypeOK, ThreadTypeOK
  <2>4. state' \in ConnectionState /\ error' \in BOOLEAN
    BY <1>4 DEF HandleFailed, Fail, ConnectionState
  <2> QED
    BY <1>4, <2>1, <2>2, <2>3, <2>4 DEF HandleFailed, TypeOK, GuiTypeOK
<1>5. CASE RetryDue \/ ClickConnect
  BY <1>5, ConnectTypes DEF RetryDue, ClickConnect
<1>6. CASE ClickDisconnect
  <2>1. stop' \in [Workers -> BOOLEAN]
    BY <1>6, SendStopTypes DEF ClickDisconnect, TypeOK, ThreadTypeOK
  <2>2. backup' \in ProxyEnable \cup {None} /\ proxy' \in ProxyEnable
    BY <1>6, RestoreProxyTypes DEF ClickDisconnect, TypeOK, GuiTypeOK
  <2>3. state' \in ConnectionState
    BY <1>6 DEF ClickDisconnect, ConnectionState
  <2>4. retryCount' \in 0..RetryLimit
    BY <1>6, GuiAssumption DEF ClickDisconnect, GuiAssumption
  <2>5. ThreadTypeOK'
    BY <1>6, <2>1 DEF ClickDisconnect, TypeOK, ThreadTypeOK
  <2> QED
    BY <1>6, <2>2, <2>3, <2>4, <2>5 DEF ClickDisconnect, TypeOK, GuiTypeOK
<1>7. CASE NoRetry \/ NoInput \/ Launch \/ TimerExpires
  <2>1. ThreadTypeOK'
    BY <1>7 DEF NoRetry, NoInput, Launch, TimerExpires, threadVars, TypeOK, ThreadTypeOK
  <2> QED
    BY <1>7, <2>1 DEF NoRetry, NoInput, Launch, TimerExpires, proxyVars, TypeOK, GuiTypeOK
<1>8. CASE Close
  <2>1. stop' \in [Workers -> BOOLEAN]
    BY <1>8, SendStopTypes DEF Close, TypeOK, ThreadTypeOK
  <2>2. ThreadTypeOK'
    BY <1>8, <2>1 DEF Close, TypeOK, ThreadTypeOK
  <2> QED
    BY <1>8, <2>2 DEF Close, proxyVars, TypeOK, GuiTypeOK
<1>9. CASE StopAndWaitReturns
  <2>1. /\ worker' \in Workers \cup {None}
        /\ events' \in [Workers -> Seq(WorkerEvent)]
        /\ backup' \in ProxyEnable \cup {None}
        /\ proxy' \in ProxyEnable
    BY <1>9, DropWorkerTypes, RestoreProxyTypes DEF StopAndWaitReturns
  <2>2. ThreadTypeOK'
    BY <1>9, <2>1, ThreadsUnchanged DEF StopAndWaitReturns
  <2> QED
    BY <1>9, <2>1, <2>2 DEF StopAndWaitReturns, TypeOK, GuiTypeOK
<1>10. CASE Exit \/ Crash
  <2>1. ProcessEnds
    BY <1>10 DEF Exit, Crash
  <2>2. /\ connected' \in [Workers -> BOOLEAN]
        /\ stop' \in [Workers -> BOOLEAN]
        /\ logs' \in [Workers -> BOOLEAN]
    BY <2>1 DEF ProcessEnds
  <2>3. wpc' \in [Workers -> WorkerPc] /\ events' \in [Workers -> Seq(WorkerEvent)]
    BY <2>1 DEF ProcessEnds, WorkerPc
  <2>4. ThreadTypeOK'
    BY <2>1, <2>2, <2>3 DEF ProcessEnds, TypeOK, ThreadTypeOK
  <2>5. retryCount' \in 0..RetryLimit
    BY <2>1, GuiAssumption DEF ProcessEnds, GuiAssumption
  <2>6. state' \in ConnectionState /\ batch' \in Seq(WorkerEvent)
    BY <2>1 DEF ProcessEnds, ConnectionState
  <2>7. error' \in BOOLEAN
    BY <2>1 DEF ProcessEnds
  <2> QED
    BY <2>1, <2>4, <2>5, <2>6, <2>7 DEF ProcessEnds, proxyVars, TypeOK, GuiTypeOK
<1>11. ASSUME NEW w \in Workers, WorkerThread(w) \/ ReadLogs(w) \/ CoreExits(w)
       PROVE  TypeOK'
  BY <1>11, WorkerTypes
<1>12. CASE UNCHANGED vars
  <2>1. UNCHANGED <<guiVars, proxyVars, threadVars, child>>
    BY <1>12 DEF vars
  <2>2. ThreadTypeOK'
    BY <2>1 DEF threadVars, TypeOK, ThreadTypeOK
  <2> QED
    BY <2>1, <2>2 DEF guiVars, proxyVars, TypeOK, GuiTypeOK
<1> QED
  BY <1>1, <1>2, <1>3, <1>4, <1>5, <1>6, <1>7, <1>8, <1>9, <1>10, <1>11, <1>12
     DEF Next, GuiThread

-----------------------------------------------------------------------------
(* The inductive invariant.                                                *)

Rest == Ownership /\ Phases /\ ErrorIffFailed

LEMMA InvInit == Init => IInv
<1> SUFFICES ASSUME Init PROVE IInv
  OBVIOUS
<1>1. Resting /\ ErrorIffFailed
  BY EmptyEvents DEF Init, Resting, ErrorIffFailed
<1>2. Ownership
  BY DEF Init, Ownership, Live
<1> QED
  BY <1>1, <1>2, TypeInit DEF IInv, Phases

\* Nothing that the invariant speaks of changes.
LEMMA InvStutter ==
    ASSUME IInv, UNCHANGED <<gui, state, error, worker, batch, retryAt, backup, proxy,
                             wpc, stop, events>>
    PROVE  Rest'
BY DEF IInv, Rest, Ownership, Phases, Up, Running, Ending, Resting, Active, Live,
       ErrorIffFailed, NoTerminal, OnlyLogs, EndsOnce

LEMMA PollKeeps ==
    ASSUME IInv, Poll
    PROVE  Rest'
<1>1. /\ gui = "poll" /\ gui' = "logic" /\ batch = <<>>
      /\ Running \/ Ending \/ Resting
      /\ UNCHANGED <<state, error, worker, retryAt, backup, proxy, wpc, stop>>
  BY DEF Poll, IInv, Ownership, Phases, Up, proxyVars
<1>2. events \in [Workers -> Seq(WorkerEvent)] /\ worker \in Workers \cup {None}
  BY DEF IInv, TypeOK, GuiTypeOK, ThreadTypeOK
<1>3. Ownership'
  <2>1. ASSUME NEW w \in Workers
        PROVE  events'[w] # <<>> => events[w] # <<>>
    BY <1>2 DEF Poll
  <2> QED
    BY <1>1, <2>1 DEF IInv, Ownership, Live
<1>4. CASE worker = None
  <2>1. Resting /\ batch' = <<>>
    BY <1>1, <1>4 DEF Running, Ending, Poll
  <2>2. Resting'
    BY <1>1, <1>4, <2>1, EmptyEvents DEF Resting
  <2> QED
    BY <1>1, <1>3, <2>2 DEF IInv, Rest, Phases, ErrorIffFailed
<1>5. CASE worker # None
  <2>1. batch' = events[worker] /\ events'[worker] = <<>>
    BY <1>2, <1>5 DEF Poll
  <2>2. Running => Running'
    BY <1>1, <2>1, EmptyEvents DEF Running, Live, Active
  <2>3. Ending => Ending'
    BY <1>1, <2>1, EmptyEvents DEF Ending, Live, Active
  <2>4. Resting => Resting'
    BY <1>1, <1>5, <2>1, EmptyEvents DEF Resting, Live
  <2> QED
    BY <1>1, <1>3, <2>2, <2>3, <2>4 DEF IInv, Rest, Phases, ErrorIffFailed
<1> QED
  BY <1>4, <1>5

\* Handling the first event of the batch, whatever it is.
LEMMA TakeFacts ==
    ASSUME IInv, NEW e, Take(e)
    PROVE  /\ gui = "logic" /\ gui' = "logic"
           /\ batch \in Seq(WorkerEvent) /\ batch # <<>>
           /\ e = Head(batch) /\ batch' = Tail(batch)
           /\ Running \/ Ending \/ Resting
           /\ worker # None => worker \in Workers
BY DEF Take, IInv, TypeOK, GuiTypeOK, Phases, Up

LEMMA TakePlain ==
    ASSUME IInv, NEW e, e \notin Terminal, Take(e)
    PROVE  /\ NoTerminal(batch) => NoTerminal(batch')
           /\ EndsOnce(batch) => EndsOnce(batch')
<1>1. /\ batch \in Seq(WorkerEvent) /\ batch # <<>>
      /\ Head(batch) \notin Terminal /\ batch' = Tail(batch)
  BY TakeFacts
<1> QED
  BY <1>1, TakeFromNoTerminal, TakeFromEndsOnce

LEMMA HandleInfoKeeps ==
    ASSUME IInv, HandleInfo
    PROVE  Rest'
<1>1. PICK e \in {"Log", "Traffic"} : Take(e)
  BY DEF HandleInfo
<1>2. UNCHANGED <<state, error, worker, retryAt, backup, proxy, wpc, stop, events>>
  BY DEF HandleInfo, proxyVars, threadVars
<1>3. e \notin Terminal
  BY TerminalEvents
<1>4. Ownership'
  BY <1>1, <1>2, TakeFacts DEF IInv, Ownership, Live
<1>5. Running => Running'
  BY <1>1, <1>2, TakeFacts, TakeFromNoTerminal DEF Running, Live, Active
<1>6. Ending => Ending'
  BY <1>1, <1>2, <1>3, TakePlain DEF Ending, Live, Active
<1>7. Resting => Resting'
  BY <1>1, <1>2, TakeFacts, TakeFromOnlyLogs DEF Resting, Live
<1> QED
  BY <1>1, <1>2, <1>4, <1>5, <1>6, <1>7, TakeFacts DEF IInv, Rest, Phases, ErrorIffFailed

LEMMA HandleConnectedKeeps ==
    ASSUME IInv, HandleConnected
    PROVE  Rest'
<1>1. /\ Take("Connected")
      /\ state' = "Connected" /\ error' = FALSE
      /\ UNCHANGED <<worker, retryAt, backup, proxy, wpc, stop, events>>
  BY DEF HandleConnected, proxyVars, threadVars
<1>2. "Connected" \notin Terminal
  BY TerminalEvents
<1>3. Ownership'
  BY <1>1, TakeFacts DEF IInv, Ownership, Live
<1>4. Running => Running'
  BY <1>1, TakeFacts, TakeFromNoTerminal DEF Running, Live, Active
<1>5. Ending => Ending'
  BY <1>1, <1>2, TakePlain DEF Ending, Live, Active
<1>6. ~Resting
  BY <1>1, TakeFacts, TakeFromOnlyLogs DEF Resting
<1> QED
  BY <1>1, <1>3, <1>4, <1>5, <1>6, TakeFacts DEF IInv, Rest, Phases, ErrorIffFailed

\* A terminal event is only handled when its worker has returned, and only log lines
\* are left behind it.
LEMMA TerminalFacts ==
    ASSUME IInv, NEW e \in Terminal, Take(e)
    PROVE  /\ Ending
           /\ OnlyLogs(batch') /\ OnlyLogs(events[worker])
<1>1. e = Head(batch) /\ "Log" \notin Terminal
  BY TakeFacts, TerminalEvents
<1>2. ~Running
  BY <1>1, TakeFacts, TakeFromNoTerminal DEF Running
<1>3. ~Resting
  BY <1>1, TakeFacts, TakeFromOnlyLogs DEF Resting
<1>4. Ending
  BY <1>2, <1>3, TakeFacts
<1>5. ~NoTerminal(batch)
  BY <1>1, TakeFacts, TakeFromNoTerminal
<1>6. EndsOnce(batch) /\ OnlyLogs(events[worker])
  BY <1>4, <1>5 DEF Ending
<1> QED
  BY <1>1, <1>4, <1>6, TakeFacts, TakeFromEndsOnce

LEMMA RestoreProxyClears == RestoreProxy => backup' = None
BY DEF RestoreProxy

LEMMA HandleStoppedKeeps ==
    ASSUME IInv, HandleStopped
    PROVE  Rest'
<1>1. /\ Take("Stopped") /\ "Stopped" \in Terminal
      /\ worker' = None /\ backup' = None
      /\ state' = "Disconnected" /\ retryAt' = "none"
      /\ UNCHANGED <<error, wpc, stop>>
  BY RestoreProxyClears DEF HandleStopped, DropWorker, Terminal
<1>2. Ending /\ OnlyLogs(batch') /\ gui = "logic" /\ gui' = "logic"
  BY <1>1, TerminalFacts, TakeFacts
<1>3. ASSUME NEW w \in Workers PROVE events'[w] = <<>> /\ ~Live(w)'
  BY <1>1, <1>2 DEF HandleStopped, DropWorker, IInv, Ownership, Ending, Live,
                    TypeOK, ThreadTypeOK
<1>4. Ownership'
  BY <1>1, <1>2, <1>3 DEF Ownership
<1>5. Resting'
  BY <1>1, <1>2 DEF Resting
<1>6. ErrorIffFailed'
  BY <1>1, <1>2 DEF IInv, ErrorIffFailed, Ending, Active
<1> QED
  BY <1>4, <1>5, <1>6 DEF Rest, Phases

LEMMA HandleExitedKeeps ==
    ASSUME IInv, HandleExited
    PROVE  Rest'
<1>1. /\ Take("Exited") /\ "Exited" \in Terminal
      /\ worker' = None /\ backup' = None
      /\ UNCHANGED <<wpc, stop>>
  BY RestoreProxyClears DEF HandleExited, DropWorker, Terminal
<1>2. Ending /\ OnlyLogs(batch') /\ gui = "logic" /\ gui' = "logic"
  BY <1>1, TerminalFacts, TakeFacts
<1>3. ASSUME NEW w \in Workers PROVE events'[w] = <<>> /\ ~Live(w)'
  BY <1>1, <1>2 DEF HandleExited, DropWorker, IInv, Ownership, Ending, Live,
                    TypeOK, ThreadTypeOK
<1>4. Ownership'
  BY <1>1, <1>2, <1>3 DEF Ownership
<1>5. \/ state' = "Connecting" /\ retryAt' = "waiting" /\ error' = error
      \/ state' = "Failed" /\ retryAt' = "none" /\ error' = TRUE
  BY DEF HandleExited, ScheduleRetry, Fail
<1>6. Resting'
  BY <1>1, <1>2, <1>5 DEF Resting
<1>7. ErrorIffFailed'
  BY <1>2, <1>5 DEF IInv, ErrorIffFailed, Ending, Active
<1> QED
  BY <1>4, <1>6, <1>7 DEF Rest, Phases

LEMMA HandleFailedKeeps ==
    ASSUME IInv, HandleFailed
    PROVE  Rest'
<1>1. /\ Take("Failed") /\ "Failed" \in Terminal
      /\ backup' = None
      /\ state' = "Failed" /\ error' = TRUE
      /\ UNCHANGED <<worker, retryAt, wpc, stop, events>>
  BY RestoreProxyClears DEF HandleFailed, Fail, Terminal, threadVars
<1>2. /\ Ending /\ OnlyLogs(batch') /\ OnlyLogs(events[worker])
      /\ gui = "logic" /\ gui' = "logic"
  BY <1>1, TerminalFacts, TakeFacts
<1>3. Ownership'
  BY <1>1, <1>2 DEF IInv, Ownership, Live
<1>4. Resting'
  BY <1>1, <1>2 DEF Resting, Ending, Live
<1>5. ErrorIffFailed'
  BY <1>1 DEF ErrorIffFailed
<1> QED
  BY <1>3, <1>4, <1>5 DEF Rest, Phases


\* connect() only runs when nobody supervises and the proxy has been put back.
LEMMA ConnectKeeps ==
    ASSUME IInv, Resting, Up, batch = <<>>, Connect, TypeOK',
           gui' \in {"input", "poll"}, batch' = batch
    PROVE  Rest'
<1>1. \A v \in Workers : ~Live(v)
  BY GuiAssumption DEF GuiAssumption, IInv, Ownership, Resting, Up
<1>2. CASE ConnectFails
  <2>1. /\ UNCHANGED <<worker, backup, wpc, stop, events>>
        /\ state' = "Failed" /\ error' = TRUE /\ retryAt' = "none"
    BY <1>2 DEF ConnectFails, Fail, threadVars
  <2>2. Ownership'
    BY <1>1, <2>1 DEF IInv, Ownership, Live
  <2>3. Resting'
    BY <2>1 DEF Resting, Live
  <2>4. ErrorIffFailed'
    BY <2>1 DEF ErrorIffFailed
  <2> QED
    BY <2>2, <2>3, <2>4 DEF Rest, Phases
<1>3. ASSUME NEW w \in Workers, ConnectWith(w)
      PROVE  Rest'
  <2>1. /\ worker' = w /\ w # None
        /\ state' = "Connecting" /\ error' = FALSE /\ retryAt' = "none"
        /\ proxy' = 0
    BY <1>3, GuiAssumption DEF ConnectWith, DisableProxy, QueriedEnable, GuiAssumption
  <2>2. backup' # None
    BY <1>3, GuiAssumption
       DEF ConnectWith, DisableProxy, QueriedEnable, GuiAssumption, IInv, TypeOK, GuiTypeOK, ProxyEnable
  <2>3. ASSUME NEW v \in Workers
        PROVE  /\ events'[v] = <<>>
               /\ Live(v)' <=> v = w
    <3>1. events'[v] = <<>>
      BY <1>3 DEF ConnectWith, IInv, Ownership
    <3>2. wpc' = [wpc EXCEPT ![w] = "spawn"] /\ wpc \in [Workers -> WorkerPc]
      BY <1>3 DEF ConnectWith, IInv, TypeOK, ThreadTypeOK
    <3> QED
      BY <1>1, <3>1, <3>2 DEF Live
  <2>4. Ownership'
    BY <2>1, <2>3 DEF Ownership
  <2>5. Running'
    BY <2>1, <2>2, <2>3, EmptyEvents DEF Running, Active
  <2>6. ErrorIffFailed'
    BY <2>1 DEF ErrorIffFailed
  <2> QED
    BY <2>4, <2>5, <2>6 DEF Rest, Phases
<1> QED
  BY <1>2, <1>3, ConnectCases

LEMMA RetryDueKeeps ==
    ASSUME IInv, RetryDue, TypeOK'
    PROVE  Rest'
<1>1. Up /\ batch = <<>> /\ retryAt = "due" /\ gui' = "input" /\ batch' = batch /\ Connect
  BY DEF RetryDue, Up
<1>2. Resting
  BY <1>1 DEF IInv, Phases, Running, Ending
<1> QED
  BY <1>1, <1>2, ConnectKeeps

LEMMA ClickConnectKeeps ==
    ASSUME IInv, ClickConnect, TypeOK'
    PROVE  Rest'
<1>1. /\ Up /\ gui' = "poll" /\ batch' = batch /\ Connect
      /\ state \notin {"Connecting", "Connected", "Disconnecting"}
      /\ batch = <<>>
  BY DEF ClickConnect, Busy, Up, IInv, Ownership
<1>2. Resting
  BY <1>1 DEF IInv, Phases, Running, Ending, Active
<1> QED
  BY <1>1, <1>2, ConnectKeeps

LEMMA ClickDisconnectKeeps ==
    ASSUME IInv, ClickDisconnect
    PROVE  Rest'
<1>1. /\ gui = "input" /\ gui' = "poll" /\ Up
      /\ state = "Connected" /\ retryAt' = "none"
      /\ UNCHANGED <<error, worker, batch, wpc, events>>
  BY DEF ClickDisconnect, Up
<1>2. Running \/ Ending
  BY <1>1 DEF IInv, Phases, Resting
<1>3. /\ state' = "Disconnecting"
      /\ UNCHANGED <<backup, proxy>>
  BY <1>2 DEF ClickDisconnect, Running, Ending
<1>4. Ownership'
  BY <1>1 DEF IInv, Ownership, Live
<1>5. Running => Running'
  BY <1>1, <1>3 DEF Running, Live, Active
<1>6. Ending => Ending'
  BY <1>1, <1>3 DEF Ending, Live, Active
<1>7. ErrorIffFailed'
  BY <1>1, <1>3 DEF IInv, ErrorIffFailed
<1> QED
  BY <1>2, <1>4, <1>5, <1>6, <1>7 DEF Rest, Phases

\* Steps that only move the GUI thread or the retry timer on.
LEMMA MoveOnKeeps ==
    ASSUME IInv, NoRetry \/ NoInput \/ TimerExpires
    PROVE  Rest'
<1>1. UNCHANGED <<state, error, worker, batch, backup, proxy, wpc, stop, events>>
  BY DEF NoRetry, NoInput, TimerExpires, proxyVars, threadVars
<1>2. /\ gui' # "logic" => batch = <<>>
      /\ gui \notin {"exiting", "down", "closing"} /\ gui' \notin {"exiting", "down", "closing"}
      \/ gui' = gui
  BY DEF NoRetry, NoInput, TimerExpires, IInv, Ownership
<1>3. /\ retryAt' = "none" <=> retryAt = "none"
      /\ gui = "down" => retryAt' = retryAt
  BY DEF NoRetry, NoInput, TimerExpires, IInv, Ownership
<1>4. Ownership'
  BY <1>1, <1>2, <1>3 DEF IInv, Ownership, Live
<1>5. Up' => Up
  BY DEF NoRetry, NoInput, TimerExpires, Up
<1>6. Phases'
  BY <1>1, <1>3, <1>5 DEF IInv, Phases, Running, Ending, Resting, Live, Active,
                          NoTerminal, OnlyLogs, EndsOnce
<1> QED
  BY <1>1, <1>4, <1>6 DEF IInv, Rest, ErrorIffFailed

LEMMA CloseKeeps ==
    ASSUME IInv, Close
    PROVE  Rest'
<1>1. /\ gui = "input" /\ gui' = "closing"
      /\ UNCHANGED <<state, error, worker, batch, wpc, events>>
      /\ worker # None => worker \in Workers /\ SendStop
  BY DEF Close, IInv, TypeOK, GuiTypeOK
<1>2. worker # None => stop'[worker]
  BY <1>1 DEF SendStop, IInv, TypeOK, ThreadTypeOK
<1>3. Ownership'
  BY <1>1, <1>2 DEF IInv, Ownership, Live
<1>4. Phases' /\ ErrorIffFailed'
  BY <1>1 DEF IInv, Phases, Up, ErrorIffFailed
<1> QED
  BY <1>3, <1>4 DEF Rest

LEMMA StopAndWaitKeeps ==
    ASSUME IInv, StopAndWaitReturns
    PROVE  Rest'
<1>1. /\ gui = "closing" /\ gui' = "exiting"
      /\ worker' = None /\ backup' = None
      /\ UNCHANGED <<state, error, batch, wpc, stop>>
  BY RestoreProxyClears DEF StopAndWaitReturns, DropWorker
<1>2. ASSUME NEW w \in Workers PROVE events'[w] = <<>> /\ (Live(w)' => stop'[w])
  <2>1. events'[w] = <<>>
    BY <1>1, GuiAssumption
       DEF GuiAssumption, StopAndWaitReturns, DropWorker, IInv, Ownership, TypeOK, ThreadTypeOK
  <2>2. Live(w)' => stop'[w]
    BY <1>1, GuiAssumption DEF GuiAssumption, IInv, Ownership, Live
  <2> QED
    BY <2>1, <2>2
<1>3. Ownership'
  BY <1>1, <1>2 DEF IInv, Ownership
<1>4. Phases' /\ ErrorIffFailed'
  BY <1>1 DEF IInv, Phases, Up, ErrorIffFailed
<1> QED
  BY <1>3, <1>4 DEF Rest

LEMMA EndKeeps ==
    ASSUME IInv, Exit \/ Crash
    PROVE  Rest'
<1>1. ProcessEnds
  BY DEF Exit, Crash
<1>2. Ownership'
  BY <1>1 DEF ProcessEnds, Ownership, Live
<1>3. Phases' /\ ErrorIffFailed'
  BY <1>1 DEF ProcessEnds, Phases, Up, ErrorIffFailed
<1> QED
  BY <1>2, <1>3 DEF Rest

LEMMA LaunchKeeps ==
    ASSUME IInv, Launch
    PROVE  Rest'
<1>1. /\ gui = "down" /\ gui' = "poll"
      /\ UNCHANGED <<state, error, worker, batch, retryAt, backup, wpc, stop, events>>
  BY DEF Launch, threadVars
<1>2. /\ worker = None /\ backup = None /\ state = "Disconnected" /\ retryAt = "none"
      /\ batch = <<>>
      /\ \A w \in Workers : ~Live(w)
  BY <1>1 DEF IInv, Ownership
<1>3. Ownership'
  BY <1>1, <1>2 DEF IInv, Ownership, Live
<1>4. Resting'
  BY <1>1, <1>2, EmptyEvents DEF Resting
<1> QED
  BY <1>1, <1>3, <1>4 DEF IInv, Rest, Phases, ErrorIffFailed


-----------------------------------------------------------------------------
(* The worker's steps.                                                     *)

\* Sending on w's channel touches only that channel, and only while the GUI holds it.
LEMMA SendFacts ==
    ASSUME IInv, NEW w \in Workers, NEW e \in WorkerEvent, Send(w, e)
    PROVE  /\ \A v \in Workers : events'[v] # <<>> => v = worker
           /\ worker = w => events'[w] = Append(events[w], e)
           /\ worker # w => events' = events
           /\ events[w] \in Seq(WorkerEvent)
BY DEF Send, IInv, Ownership, TypeOK, ThreadTypeOK

\* A step in which the supervisor w goes on: it stays alive and sends nothing final.
LEMMA WorkerGoesOn ==
    ASSUME IInv, NEW w \in Workers, Live(w), UNCHANGED <<guiVars, proxyVars, stop>>,
           \E pc \in WorkerPc \ {"none"} : wpc' = [wpc EXCEPT ![w] = pc],
           \/ UNCHANGED events
           \/ \E e \in WorkerEvent \ Terminal : Send(w, e)
    PROVE  Rest'
<1>1. UNCHANGED <<gui, state, error, worker, batch, retryAt, backup, proxy, stop>>
  BY DEF guiVars, proxyVars
<1>2. \A v \in Workers : Live(v)' <=> Live(v)
  BY DEF Live, IInv, TypeOK, ThreadTypeOK
<1>3. /\ \A v \in Workers : events'[v] # <<>> => v = worker
      /\ worker = w => /\ NoTerminal(events[w]) => NoTerminal(events'[w])
      /\ worker # w => events' = events
  BY SendFacts, AppendToNoTerminal DEF IInv, Ownership
<1>4. Ownership'
  BY <1>1, <1>2, <1>3 DEF IInv, Ownership
<1>5. ASSUME Up
      PROVE  Running /\ Running'
  <2>1. worker = w
    BY <1>5 DEF IInv, Ownership, Up
  <2>2. Running
    BY <1>5, <2>1, GuiAssumption DEF GuiAssumption, IInv, Phases, Ending, Resting
  <2> QED
    BY <1>1, <1>2, <1>3, <2>1, <2>2 DEF Running, Active
<1> QED
  BY <1>1, <1>4, <1>5 DEF IInv, Rest, Phases, Up, ErrorIffFailed

\* A step in which the supervisor w returns and sends its last event.
LEMMA WorkerReturns ==
    ASSUME IInv, NEW w \in Workers, Live(w), UNCHANGED <<guiVars, proxyVars, stop>>,
           Return(w), \E e \in Terminal : Send(w, e)
    PROVE  Rest'
<1>1. UNCHANGED <<gui, state, error, worker, batch, retryAt, backup, proxy, stop>>
  BY DEF guiVars, proxyVars
<1>2. /\ ~Live(w)'
      /\ \A v \in Workers : v # w => (Live(v)' <=> Live(v))
  BY DEF Return, Live, IInv, TypeOK, ThreadTypeOK
<1>3. /\ \A v \in Workers : events'[v] # <<>> => v = worker
      /\ worker = w => /\ NoTerminal(events[w]) => EndsOnce(events'[w])
  BY SendFacts, AppendToNoTerminal, TerminalEvents
<1>4. Ownership'
  BY <1>1, <1>2, <1>3 DEF IInv, Ownership
<1>5. ASSUME Up
      PROVE  Ending'
  <2>1. worker = w
    BY <1>5 DEF IInv, Ownership, Up
  <2>2. Running
    BY <1>5, <2>1, GuiAssumption DEF GuiAssumption, IInv, Phases, Ending, Resting
  <2> QED
    BY <1>1, <1>2, <1>3, <2>1, <2>2 DEF Running, Ending, Active
<1> QED
  BY <1>1, <1>4, <1>5 DEF IInv, Rest, Phases, Up, ErrorIffFailed

LEMMA WorkerThreadKeeps ==
    ASSUME IInv, NEW w \in Workers, WorkerThread(w)
    PROVE  Rest'
<1>1. /\ {"Connected", "Traffic"} \subseteq WorkerEvent \ Terminal
      /\ {"Failed", "Stopped", "Exited"} \subseteq Terminal
  BY TerminalEvents DEF Terminal
<1>2. /\ Live(w)
      /\ UNCHANGED <<guiVars, proxyVars, stop>>
  BY DEF WorkerThread, SpawnCore, ReadCommand, ReportStopped, CheckCore, FetchTotals,
         Announce, ReportTraffic, Sleep, Live
<1>3. CASE SpawnCore(w)
  BY <1>1, <1>2, <1>3, WorkerGoesOn, WorkerReturns DEF SpawnCore, WorkerPc
<1>4. CASE ReadCommand(w)
  BY <1>1, <1>2, <1>4, WorkerGoesOn DEF ReadCommand, WorkerPc
<1>5. CASE ReportStopped(w)
  BY <1>1, <1>2, <1>5, WorkerReturns DEF ReportStopped
<1>6. CASE CheckCore(w)
  BY <1>1, <1>2, <1>6, WorkerGoesOn, WorkerReturns DEF CheckCore, WorkerPc
<1>7. CASE FetchTotals(w)
  BY <1>1, <1>2, <1>7, WorkerGoesOn DEF FetchTotals, WorkerPc
<1>8. CASE Announce(w) \/ ReportTraffic(w) \/ Sleep(w)
  BY <1>1, <1>2, <1>8, WorkerGoesOn DEF Announce, ReportTraffic, Sleep, WorkerPc
<1> QED
  BY <1>3, <1>4, <1>5, <1>6, <1>7, <1>8 DEF WorkerThread

LEMMA ReadLogsKeeps ==
    ASSUME IInv, NEW w \in Workers, ReadLogs(w)
    PROVE  Rest'
<1>1. UNCHANGED <<gui, state, error, worker, batch, retryAt, backup, proxy, wpc, stop>>
  BY DEF ReadLogs, guiVars, proxyVars
<1>2. "Log" \in WorkerEvent
  BY TerminalEvents
<1>3. /\ \A v \in Workers : events'[v] # <<>> => v = worker
      /\ worker \in Workers =>
           /\ NoTerminal(events[worker]) => NoTerminal(events'[worker])
           /\ OnlyLogs(events[worker]) => OnlyLogs(events'[worker])
           /\ EndsOnce(events[worker]) => EndsOnce(events'[worker])
  <2>1. CASE UNCHANGED events
    BY <2>1 DEF IInv, Ownership
  <2>2. CASE Send(w, "Log")
    BY <1>2, <2>2, SendFacts, AppendLog
  <2> QED
    BY <2>1, <2>2 DEF ReadLogs
<1>4. Ownership'
  BY <1>1, <1>3 DEF IInv, Ownership, Live
<1>5. worker # None => worker \in Workers
  BY DEF IInv, TypeOK, GuiTypeOK
<1>6. /\ Running => Running'
      /\ Ending => Ending'
      /\ Resting => Resting'
  BY <1>1, <1>3, <1>5 DEF Running, Ending, Resting, Active, Live
<1> QED
  BY <1>1, <1>4, <1>6 DEF IInv, Rest, Phases, Up, ErrorIffFailed

LEMMA InvStep ==
    ASSUME IInv, [Next]_vars
    PROVE  IInv'
<1>1. TypeOK'
  BY TypeStep DEF IInv
<1>2. CASE GuiThread
  BY <1>1, <1>2, PollKeeps, HandleInfoKeeps, HandleConnectedKeeps, HandleStoppedKeeps,
     HandleExitedKeeps, HandleFailedKeeps, RetryDueKeeps, MoveOnKeeps, ClickConnectKeeps,
     ClickDisconnectKeeps, CloseKeeps, StopAndWaitKeeps, EndKeeps
     DEF GuiThread, IInv, Rest
<1>3. CASE TimerExpires \/ Crash \/ Launch
  BY <1>1, <1>3, MoveOnKeeps, EndKeeps, LaunchKeeps DEF IInv, Rest
<1>4. ASSUME NEW w \in Workers, WorkerThread(w) \/ ReadLogs(w) \/ CoreExits(w)
      PROVE  IInv'
  <2>1. CASE CoreExits(w)
    BY <1>1, <2>1, InvStutter DEF CoreExits, guiVars, proxyVars, threadVars, IInv, Rest
  <2> QED
    BY <1>1, <1>4, <2>1, WorkerThreadKeeps, ReadLogsKeeps DEF IInv, Rest
<1>5. CASE UNCHANGED vars
  BY <1>1, <1>5, InvStutter DEF vars, guiVars, proxyVars, threadVars, IInv, Rest
<1> QED
  BY <1>2, <1>3, <1>4, <1>5 DEF Next

\* The phases of a connection hold in every reachable state (TunnelApp and run_worker).
THEOREM InvariantHolds == Spec => []IInv
<1>1. IInv /\ [Next]_vars => IInv'
  BY InvStep
<1> QED
  BY InvInit, <1>1, PTL DEF Spec

\* Every variable keeps its type (TypeOK).
THEOREM TypeCorrect == Spec => []TypeOK
<1>1. IInv => TypeOK
  BY DEF IInv
<1> QED
  BY InvariantHolds, <1>1, PTL

\* No supervisor is ever out of reach: TunnelApp holds the channel of every live worker
\* thread or has sent Stop on it (connect, poll_worker, stop_and_wait).
THEOREM SupervisorsStoppable == Spec => []SupervisorStoppable
<1>1. IInv => SupervisorStoppable
  <2> SUFFICES ASSUME IInv, NEW w \in Workers, Live(w)
               PROVE  worker = w \/ stop[w]
    BY DEF SupervisorStoppable
  <2>1. CASE gui \in {"exiting", "down"}
    BY <2>1 DEF IInv, Ownership
  <2>2. CASE gui \notin {"exiting", "down"}
    BY <2>2 DEF IInv, Ownership
  <2> QED
    BY <2>1, <2>2
<1> QED
  BY InvariantHolds, <1>1, PTL

\* A screen in an active state never waits for nothing (poll_worker, logic).
THEOREM ActiveStatesDriven == Spec => []ActiveStateHasDriver
<1>1. IInv => ActiveStateHasDriver
  <2> SUFFICES ASSUME IInv, Up, Active
               PROVE  \/ retryAt # "none"
                      \/ worker # None /\ Live(worker)
                      \/ EndPending
    BY DEF ActiveStateHasDriver, Active
  <2>1. CASE Running
    BY <2>1 DEF Running
  <2>2. CASE Ending
    BY <2>2 DEF Ending, EndsOnce, EndPending
  <2>3. CASE Resting
    BY <2>3 DEF Resting, Active
  <2> QED
    BY <2>1, <2>2, <2>3 DEF IInv, Phases
<1> QED
  BY InvariantHolds, <1>1, PTL

\* A screen that offers to connect has no supervisor behind it (ui, connect).
THEOREM IdleStatesQuiet == Spec => []IdleStateHasNoSupervisor
<1>1. IInv => IdleStateHasNoSupervisor
  <2> SUFFICES ASSUME IInv, Up, state \in {"Disconnected", "Failed"}, NEW w \in Workers
               PROVE  ~Live(w)
    BY DEF IdleStateHasNoSupervisor
  <2>1. Resting
    BY DEF IInv, Phases, Running, Ending, Active
  <2>2. Live(w) => w = worker
    BY DEF IInv, Ownership, Up
  <2> QED
    BY <2>1, <2>2, GuiAssumption DEF Resting, GuiAssumption
<1> QED
  BY InvariantHolds, <1>1, PTL

\* The error line and the failed state come and go together (fail, connect, poll_worker).
THEOREM ErrorShown == Spec => []ErrorIffFailed
<1>1. IInv => ErrorIffFailed
  BY DEF IInv
<1> QED
  BY InvariantHolds, <1>1, PTL

\* While a tunnel is up or being set up or torn down the system proxy is off and its old
\* value is kept, whatever operations fail (disable_system_proxy, restore_proxy).
THEOREM ProxyOff == Spec => []ProxyOffWhileTunnelled
<1>1. IInv => ProxyOffWhileTunnelled
  <2> SUFFICES ASSUME IInv, Up,
                      \/ state \in {"Connected", "Disconnecting"}
                      \/ state = "Connecting" /\ retryAt = "none"
               PROVE  proxy = 0 /\ backup # None
    BY DEF ProxyOffWhileTunnelled
  <2>1. Running \/ Ending
    BY DEF IInv, Phases, Resting
  <2> QED
    BY <2>1 DEF Running, Ending
<1> QED
  BY InvariantHolds, <1>1, PTL

-----------------------------------------------------------------------------
(* The user's proxy setting.                                               *)

RegistryObeys == Faults \cap {"regQuery", "regRestore", "crash"} = {}

LEMMA RestoreKeepsProxy ==
    ASSUME RegistryObeys, ProxyRecoverable, RestoreProxy, UNCHANGED userProxy
    PROVE  ProxyRecoverable'
BY DEF RegistryObeys, ProxyRecoverable, RestoreProxy, RestoreSystemProxy

\* connect() runs only while no backup is held, so the value it remembers is the user's.
LEMMA ConnectKeepsProxy ==
    ASSUME RegistryObeys, ProxyRecoverable, backup = None, TypeOK, Connect,
           UNCHANGED userProxy
    PROVE  ProxyRecoverable'
<1>1. CASE ConnectFails
  BY <1>1 DEF ConnectFails, ProxyRecoverable
<1>2. ASSUME NEW w \in Workers, ConnectWith(w)
      PROVE  ProxyRecoverable'
  <2>1. backup' = proxy /\ proxy # None
    BY <1>2, GuiAssumption DEF ConnectWith, DisableProxy, QueriedEnable, RegistryObeys, TypeOK, GuiTypeOK,
                               ProxyEnable, GuiAssumption
  <2> QED
    BY <2>1 DEF ProxyRecoverable
<1> QED
  BY <1>1, <1>2, ConnectCases

LEMMA ProxyStep ==
    ASSUME RegistryObeys, IInv, ProxyRecoverable, [Next]_vars
    PROVE  ProxyRecoverable'
<1>1. CASE HandleStopped \/ HandleExited \/ HandleFailed \/ StopAndWaitReturns
  BY <1>1, RestoreKeepsProxy DEF HandleStopped, HandleExited, HandleFailed, StopAndWaitReturns
<1>2. CASE RetryDue \/ ClickConnect
  <2>1. Resting
    BY <1>2 DEF RetryDue, ClickConnect, Busy, IInv, Phases, Running, Ending, Active, Up
  <2> QED
    BY <1>2, <2>1, ConnectKeepsProxy DEF RetryDue, ClickConnect, Resting, IInv
<1>3. CASE ClickDisconnect
  BY <1>3, RestoreKeepsProxy DEF ClickDisconnect, ProxyRecoverable
<1>4. CASE Exit
  BY <1>4 DEF Exit, ProcessEnds, proxyVars, IInv, Ownership, ProxyRecoverable
<1>5. CASE Crash
  BY <1>5 DEF Crash, RegistryObeys
<1>6. CASE \/ Poll \/ HandleInfo \/ HandleConnected \/ NoRetry \/ NoInput \/ Close
           \/ TimerExpires \/ Launch
  BY <1>6 DEF Poll, HandleInfo, HandleConnected, NoRetry, NoInput, Close, TimerExpires,
              Launch, proxyVars, ProxyRecoverable
<1>7. ASSUME NEW w \in Workers, WorkerThread(w) \/ ReadLogs(w) \/ CoreExits(w)
      PROVE  ProxyRecoverable'
  <2>1. UNCHANGED guiVars /\ UNCHANGED proxyVars
    BY <1>7 DEF WorkerThread, SpawnCore, ReadCommand, ReportStopped, CheckCore, FetchTotals,
                Announce, ReportTraffic, Sleep, ReadLogs, CoreExits
  <2> QED
    BY <2>1 DEF guiVars, proxyVars, ProxyRecoverable
<1>8. CASE UNCHANGED vars
  BY <1>8 DEF vars, guiVars, proxyVars, ProxyRecoverable
<1> QED
  BY <1>1, <1>2, <1>3, <1>4, <1>5, <1>6, <1>7, <1>8 DEF Next, GuiThread

\* If the registry queries and writes succeed and the process is not killed, the user's
\* proxy setting survives every history of connections (connect, restore_proxy).
THEOREM ProxyRecovered ==
    ASSUME RegistryObeys
    PROVE  Spec => []ProxyRecoverable
<1>1. Init => ProxyRecoverable
  BY DEF Init, ProxyRecoverable
<1>2. IInv /\ ProxyRecoverable /\ [Next]_vars => ProxyRecoverable'
  BY ProxyStep
<1> QED
  BY <1>1, <1>2, InvariantHolds, PTL DEF Spec

-----------------------------------------------------------------------------
(* The core and its supervisor.                                            *)

\* Before it is spawned there is no core, and after kill and wait it has exited.
CoreMatchesPc ==
    \A w \in Workers : /\ wpc[w] = "spawn" => child[w] = "none"
                       /\ wpc[w] = "killed" => child[w] = "exited"

LEMMA CoreStep ==
    ASSUME TypeOK, CoreMatchesPc, [Next]_vars
    PROVE  CoreMatchesPc'
<1>1. ASSUME RetryDue \/ ClickConnect
      PROVE  CoreMatchesPc'
  <2>1. CASE ConnectFails
    BY <2>1 DEF ConnectFails, threadVars, CoreMatchesPc
  <2>2. ASSUME NEW w \in Workers, ConnectWith(w)
        PROVE  CoreMatchesPc'
    BY <2>2 DEF ConnectWith, CoreMatchesPc, TypeOK, ThreadTypeOK
  <2> QED
    BY <1>1, <2>1, <2>2, ConnectCases DEF RetryDue, ClickConnect
<1>2. CASE Exit \/ Crash
  BY <1>2 DEF Exit, Crash, ProcessEnds, CoreMatchesPc
<1>3. ASSUME NEW w \in Workers, WorkerThread(w)
      PROVE  CoreMatchesPc'
  BY <1>3 DEF WorkerThread, SpawnCore, ReadCommand, ReportStopped, CheckCore, FetchTotals,
              Announce, ReportTraffic, Sleep, Return, KillCore, CoreMatchesPc,
              TypeOK, ThreadTypeOK
<1>4. ASSUME NEW w \in Workers, ReadLogs(w) \/ CoreExits(w)
      PROVE  CoreMatchesPc'
  BY <1>4 DEF ReadLogs, CoreExits, threadVars, CoreMatchesPc, TypeOK, ThreadTypeOK
<1>5. CASE UNCHANGED <<wpc, child>>
  BY <1>5 DEF CoreMatchesPc
<1>6. \/ RetryDue \/ ClickConnect
      \/ Exit \/ Crash
      \/ UNCHANGED <<wpc, child>>
      \/ \E w \in Workers : WorkerThread(w) \/ ReadLogs(w) \/ CoreExits(w)
  BY DEF Next, GuiThread, Poll, HandleInfo, HandleConnected, HandleStopped, HandleExited,
         HandleFailed, NoRetry, ClickDisconnect, NoInput, Close, StopAndWaitReturns,
         TimerExpires, Launch, threadVars, vars
<1> QED
  BY <1>1, <1>2, <1>3, <1>4, <1>5, <1>6

\* As long as try_wait succeeds, no supervisor leaves a running core behind while the
\* client itself goes on (supervise_child).
THEOREM CoresSupervised ==
    ASSUME "tryWait" \notin Faults
    PROVE  Spec => CoreKeepsSupervisor
<1>1. Init => CoreMatchesPc
  BY DEF Init, CoreMatchesPc
<1>2. TypeOK /\ CoreMatchesPc /\ [Next]_vars => CoreMatchesPc'
  BY CoreStep
<1>3. ASSUME TypeOK, CoreMatchesPc, [Next]_vars, NEW w \in Workers,
             Live(w), ~Live(w)', gui' # "down"
      PROVE  child'[w] # "running"
  <2>1. CASE Next
    <3>1. UNCHANGED wpc => FALSE
      BY <1>3 DEF Live
    <3>2. ~ (RetryDue \/ ClickConnect)
      <4>1. ~ ConnectFails
        BY <3>1 DEF ConnectFails, threadVars
      <4>2. ~ \E v \in Workers : ConnectWith(v)
        BY <1>3 DEF ConnectWith, Live, TypeOK, ThreadTypeOK
      <4> QED
        BY <4>1, <4>2, ConnectCases DEF RetryDue, ClickConnect
    <3>3. PICK v \in Workers : WorkerThread(v)
      BY <1>3, <2>1, <3>1, <3>2
         DEF Next, GuiThread, Poll, HandleInfo, HandleConnected, HandleStopped, HandleExited,
             HandleFailed, NoRetry, ClickDisconnect, NoInput, Close, StopAndWaitReturns,
             Exit, Crash, ProcessEnds, TimerExpires, Launch, ReadLogs, CoreExits, threadVars
    <3>4. v = w
      BY <1>3, <3>3
         DEF WorkerThread, SpawnCore, ReadCommand, ReportStopped, CheckCore, FetchTotals,
             Announce, ReportTraffic, Sleep, Return, Live, TypeOK, ThreadTypeOK
    <3>5. \/ SpawnCore(w) /\ child' = child
          \/ ReportStopped(w)
          \/ CheckCore(w) /\ child[w] = "exited"
      BY <1>3, <3>3, <3>4
         DEF WorkerThread, SpawnCore, ReadCommand, ReportStopped, CheckCore, FetchTotals,
             Announce, ReportTraffic, Sleep, Return, Live, TypeOK, ThreadTypeOK
    <3> QED
      BY <1>3, <3>5 DEF SpawnCore, ReportStopped, CheckCore, CoreMatchesPc
  <2>2. CASE UNCHANGED vars
    BY <1>3, <2>2 DEF vars, threadVars, Live
  <2> QED
    BY <1>3, <2>1, <2>2
<1>4. TypeOK /\ CoreMatchesPc /\ [Next]_vars =>
        [\A w \in Workers : Live(w) /\ ~Live(w)' /\ gui' # "down" => child'[w] # "running"]_vars
  BY <1>3
<1> QED
  BY <1>1, <1>2, <1>4, TypeCorrect, PTL DEF Spec, CoreKeepsSupervisor

=============================================================================
