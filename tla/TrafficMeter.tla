---------------------------- MODULE TrafficMeter ----------------------------
(***************************************************************************)
(* The byte counters of the desktop client (crates/gui/src/main.rs):       *)
(* TrafficStore, record_traffic and the traffic.txt file.  The Mihomo core *)
(* counts what it carries since its own start, the worker thread sends     *)
(* snapshots of that count, and the GUI thread adds the differences to an  *)
(* hourly and a monthly counter that survive a restart of the program.     *)
(*                                                                         *)
(* Hours are numbered; Month(h) is the month of hour h.  The file holds    *)
(* either a whole store or nothing (fs::write empties it first).  A save   *)
(* that fails is not reported.                                             *)
(***************************************************************************)
EXTENDS Naturals, Sequences

CONSTANTS
    None,          \* Option::None, and the empty or missing file
    MaxHour,       \* bound: the clock stops at this hour
    HoursPerMonth,
    MaxCount,      \* u64::MAX, where the counters saturate
    MaxCarried,    \* bound: bytes the cores ever carry
    MaxPending,    \* bound: snapshots waiting for the GUI thread
    Faults         \* subset of {"crash", "clockBack", "write"}

Hours == 0..MaxHour
Month(h) == h \div HoursPerMonth
Months == 0..Month(MaxHour)

Store == [hourKey : Hours, monthKey : Months,
          hourBytes : 0..MaxCount, monthBytes : 0..MaxCount]
Totals == [upload : 0..MaxCarried, download : 0..MaxCarried]

ASSUME MeterAssumption ==
    /\ MaxHour \in Nat
    /\ HoursPerMonth \in Nat \ {0}
    /\ MaxCount \in Nat
    /\ MaxCarried \in Nat
    /\ MaxPending \in Nat \ {0}
    /\ None \notin Store \cup Totals
    /\ Faults \subseteq {"crash", "clockBack", "write"}

VARIABLES
    app,         \* up, saving, closing (the last save), down (closed), crashed
    store,       \* TunnelApp.traffic; what it was at the end once the program is gone
    lastTotals,  \* TunnelApp.last_totals
    saveAge,     \* recent, or old when five seconds have passed since last_save
    file,        \* traffic.txt
    clock,       \* the local hour
    tunnel,      \* TunnelApp.worker is there and supervises
    core,        \* what the core at the controller port has counted; None without one
    pending,     \* Traffic events not yet handled
    carried,     \* history: bytes all cores have carried
    inHour,      \* history: the bytes that were added to the store in each hour,
    inMonth,     \* in each month,
    inAll,       \* and ever
    intact       \* history: no crash, no failed save at the end and no clock set back so far

handled     == <<inHour, inMonth, inAll>>
history     == <<handled, intact>>
guiVars     == <<app, store, lastTotals, saveAge, file, tunnel, history>>
outsideVars == <<clock, core, carried>>
vars        == <<guiVars, outsideVars, pending>>

ZeroTotals == [upload |-> 0, download |-> 0]

\* A store as load starts with: the current keys and no bytes.
Fresh(now) == [hourKey |-> now, monthKey |-> Month(now), hourBytes |-> 0, monthBytes |-> 0]

TypeOK ==
    /\ app \in {"up", "saving", "closing", "down", "crashed"}
    /\ store \in Store
    /\ lastTotals \in Totals \cup {None}
    /\ saveAge \in {"recent", "old"}
    /\ file \in Store \cup {None}
    /\ clock \in Hours
    /\ tunnel \in BOOLEAN
    /\ core \in Totals \cup {None}
    /\ pending \in Seq(Totals)
    /\ carried \in 0..MaxCarried
    /\ inHour \in [Hours -> Nat]
    /\ inMonth \in [Months -> Nat]
    /\ inAll \in Nat
    /\ intact \in BOOLEAN

Init ==
    /\ app = "up"
    /\ store = Fresh(0)
    /\ lastTotals = None
    /\ saveAge = "recent"
    /\ file = None
    /\ clock = 0
    /\ tunnel = FALSE
    /\ core = None
    /\ pending = <<>>
    /\ carried = 0
    /\ inHour = [h \in Hours |-> 0]
    /\ inMonth = [m \in Months |-> 0]
    /\ inAll = 0
    /\ intact = TRUE

-----------------------------------------------------------------------------
(* TrafficStore.                                                           *)

SatAdd_Wraps(a, b) == (a + b) % (MaxCount + 1)
SatAdd_Plain(a, b) == a + b
SatAdd(a, b) == IF a + b > MaxCount THEN MaxCount ELSE a + b

SatSub(a, b) == IF a < b THEN 0 ELSE a - b

\* roll_periods: a counter whose key is no longer current starts again at zero.
Rolled_HourKept(s, now) ==
    [hourKey |-> now, monthKey |-> Month(now), hourBytes |-> s.hourBytes,
     monthBytes |-> IF s.monthKey = Month(now) THEN s.monthBytes ELSE 0]
Rolled(s, now) ==
    [hourKey |-> now, monthKey |-> Month(now),
     hourBytes |-> IF s.hourKey = now THEN s.hourBytes ELSE 0,
     monthBytes |-> IF s.monthKey = Month(now) THEN s.monthBytes ELSE 0]

\* add: roll, then both counters grow.
Added(s, bytes, now) ==
    LET r == Rolled(s, now)
    IN  [r EXCEPT !.hourBytes = SatAdd(@, bytes), !.monthBytes = SatAdd(@, bytes)]

\* load: what the file holds, rolled to the current periods.
Loaded(now) == IF file = None THEN Fresh(now) ELSE Rolled(file, now)

\* save: fs::write opens the file, which empties it, and then writes the text.  Once it has
\* begun, the file may be open or not yet.
BeginSave == file' \in {None, file}
FinishSave == file' = store

\* The file cannot be opened or written, and nobody looks at the result.
SaveFails == "write" \in Faults /\ UNCHANGED file

-----------------------------------------------------------------------------
(* The GUI thread.                                                         *)

\* What a snapshot adds to the previous one.
Delta(t) ==
    SatAdd(SatSub(t.upload, lastTotals.upload), SatSub(t.download, lastTotals.download))

\* The first snapshot after connect() is only a baseline.
NoTotals_Zero == ZeroTotals
NoTotals == None

\* record_traffic; it saves when bytes came in and the last save is five seconds old.
RecordTraffic ==
    /\ app = "up"
    /\ pending # <<>>
    /\ pending' = Tail(pending)
    /\ lastTotals' = Head(pending)
    /\ IF lastTotals = None
       THEN UNCHANGED <<app, store, saveAge, file, history>>
       ELSE LET delta == Delta(Head(pending))
            IN  /\ store' = Added(store, delta, clock)
                /\ inHour' = [inHour EXCEPT ![clock] = @ + delta]
                /\ inMonth' = [inMonth EXCEPT ![Month(clock)] = @ + delta]
                /\ inAll' = inAll + delta
                /\ UNCHANGED intact
                /\ IF delta > 0 /\ saveAge = "old"
                   THEN /\ BeginSave
                        /\ app' = "saving"
                        /\ saveAge' = "recent"
                   ELSE UNCHANGED <<app, saveAge, file>>
    /\ UNCHANGED <<tunnel, outsideVars>>

\* The rest of fs::write; last_save counts a save that failed, too.
Saved ==
    /\ app = "saving"
    /\ app' = "up"
    /\ FinishSave \/ SaveFails
    /\ UNCHANGED <<store, lastTotals, saveAge, tunnel, history, outsideVars, pending>>

\* logic() rolls the periods once per frame.
RollPeriods_Never ==
    /\ app = "up"
    /\ UNCHANGED vars
RollPeriods ==
    /\ app = "up"
    /\ store' = Rolled(store, clock)
    /\ UNCHANGED <<app, lastTotals, saveAge, file, tunnel, history, outsideVars, pending>>

\* connect: a new worker, no baseline.  The core it starts cannot have the controller
\* port while another one still holds it.
Connect ==
    /\ app = "up"
    /\ ~tunnel
    /\ tunnel' = TRUE
    /\ lastTotals' = NoTotals
    /\ core' = IF core = None THEN ZeroTotals ELSE core
    /\ pending' = <<>>
    /\ UNCHANGED <<app, store, saveAge, file, history, clock, carried>>

\* The worker's last event, handled after its Traffic events: restore_proxy saves.
\* The core is gone, or its status could not be read and it goes on.
TunnelEnds ==
    /\ app = "up"
    /\ tunnel
    /\ pending = <<>>
    /\ tunnel' = FALSE
    /\ app' = "saving"
    /\ BeginSave
    /\ core' \in {None, core}
    /\ UNCHANGED <<store, lastTotals, saveAge, history, clock, carried, pending>>

\* Closing the window drops the worker with its unread events and saves; the core may
\* survive (see NoCoreAfterClose of module TunnelGui).
Close_Unsaved ==
    /\ app = "up"
    /\ app' = "down"
    /\ tunnel' = FALSE
    /\ core' \in {None, core}
    /\ pending' = <<>>
    /\ UNCHANGED <<store, lastTotals, saveAge, file, history, clock, carried>>
Close ==
    /\ app = "up"
    /\ app' = "closing"
    /\ tunnel' = FALSE
    /\ core' \in {None, core}
    /\ pending' = <<>>
    /\ BeginSave
    /\ UNCHANGED <<store, lastTotals, saveAge, history, clock, carried>>

Closed ==
    /\ app = "closing"
    /\ app' = "down"
    /\ \/ FinishSave /\ UNCHANGED intact
       \/ SaveFails /\ intact' = FALSE
    /\ UNCHANGED <<store, lastTotals, saveAge, tunnel, handled, outsideVars, pending>>

\* The process dies; its core may live on.
Crash ==
    /\ "crash" \in Faults
    /\ app \in {"up", "saving", "closing"}
    /\ app' = "crashed"
    /\ tunnel' = FALSE
    /\ pending' = <<>>
    /\ intact' = FALSE
    /\ UNCHANGED <<store, lastTotals, saveAge, file, handled, outsideVars>>

\* TunnelApp::new.
Launch ==
    /\ app \in {"down", "crashed"}
    /\ app' = "up"
    /\ store' = Loaded(clock)
    /\ lastTotals' = NoTotals
    /\ saveAge' = "recent"
    /\ UNCHANGED <<file, tunnel, history, outsideVars, pending>>

-----------------------------------------------------------------------------
(* The core, the worker thread and the clock.                              *)

Carry ==
    /\ core # None
    /\ carried < MaxCarried
    /\ carried' = carried + 1
    /\ core' \in {[core EXCEPT !.upload = @ + 1], [core EXCEPT !.download = @ + 1]}
    /\ UNCHANGED <<guiVars, clock, pending>>

\* A core that nobody supervises ends at last; so may one whose end is not noticed yet.
CoreEnds ==
    /\ core # None
    /\ core' = None
    /\ UNCHANGED <<guiVars, clock, carried, pending>>

\* fetch_totals answered; the worker sends a Traffic event.
FetchTotals ==
    /\ tunnel
    /\ core # None
    /\ Len(pending) < MaxPending
    /\ pending' = Append(pending, core)
    /\ UNCHANGED <<guiVars, outsideVars>>

\* Five seconds have passed since last_save.
SaveAges ==
    /\ saveAge = "recent"
    /\ saveAge' = "old"
    /\ UNCHANGED <<app, store, lastTotals, file, tunnel, history, outsideVars, pending>>

Tick ==
    /\ clock < MaxHour
    /\ clock' = clock + 1
    /\ UNCHANGED <<guiVars, core, carried, pending>>

\* The end of summer time, or a user who corrects the clock.
ClockSetBack ==
    /\ "clockBack" \in Faults
    /\ clock > 0
    /\ clock' = clock - 1
    /\ intact' = FALSE
    /\ UNCHANGED <<app, store, lastTotals, saveAge, file, tunnel, handled, core, carried, pending>>

GuiThread == RecordTraffic \/ Saved \/ RollPeriods \/ TunnelEnds \/ Connect \/ Close \/ Closed

Next ==
    \/ GuiThread \/ Crash \/ Launch
    \/ Carry \/ CoreEnds \/ FetchTotals \/ SaveAges \/ Tick \/ ClockSetBack

Spec == Init /\ [][Next]_vars

\* The GUI thread repaints every 200 ms: each frame rolls, and a write completes.
FairSpec == Spec /\ WF_vars(RollPeriods) /\ WF_vars(Saved) /\ WF_vars(Closed)

-----------------------------------------------------------------------------
(* Properties.                                                             *)

\* This hour is part of this month: in memory and on disk the hourly counter never
\* exceeds the monthly one, over rollovers, restarts, saturation and a clock set back
\* (roll_periods, add, load).
HourWithinMonth ==
    /\ store.hourBytes <= store.monthBytes
    /\ file # None => file.hourBytes <= file.monthBytes

\* No byte is counted twice, whatever the order of reconnects, crashes, restarts and
\* orphaned cores: what was added is covered by what cores carried, each counter by
\* what was added in its period (record_traffic's baseline, load, roll_periods).
NoDoubleCounting ==
    /\ inAll <= carried
    /\ store.hourBytes <= inHour[store.hourKey]
    /\ store.monthBytes <= inMonth[store.monthKey]

\* While the program runs a counter shrinks only when its period changes.
CountsNeverShrink ==
    [][app \notin {"down", "crashed"} =>
        /\ store'.hourKey = store.hourKey => store'.hourBytes >= store.hourBytes
        /\ store'.monthKey = store.monthKey => store'.monthBytes >= store.monthBytes]_vars

\* Nothing that was added is forgotten, over rollovers, reconnects, restarts and saves that
\* fail while the program goes on: each counter has all of its period up to the limit,
\* unless the program crashed, the save it ended with failed or the clock was set back
\* (roll_periods, add, restore_proxy at the end, load).
NothingForgotten ==
    intact =>
        /\ store.hourBytes = SatAdd(0, inHour[store.hourKey])
        /\ store.monthBytes = SatAdd(0, inMonth[store.monthKey])

\* The hour on screen follows the clock although no traffic comes (logic).
PeriodFollowsClock ==
    app = "up" /\ store.hourKey # clock ~> store.hourKey = clock \/ app # "up"

\* What the design notes promise and the code does not do.

\* A crash loses at most what came after the last poll: all that was polled is on disk.
CrashLosesOnlyUnpolled ==
    app = "crashed" /\ store.monthBytes > 0
        => file # None /\ file.monthBytes = store.monthBytes

=============================================================================
