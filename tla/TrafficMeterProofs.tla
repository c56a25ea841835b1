------------------------- MODULE TrafficMeterProofs --------------------------
(***************************************************************************)
(* Proofs about TrafficMeter, for every length of a month, every value at  *)
(* which the counters saturate, and whatever clock, cores and crashes do.  *)
(***************************************************************************)
EXTENDS TrafficMeter, Integers, TLAPS

\* A store's hour lies in its month; without that, an hour could go on counting while its
\* month starts again.
KeysAgree(s) == s.monthKey = Month(s.hourKey)
HourInMonth(s) == s.hourBytes <= s.monthBytes
Sound(s) == s \in Store /\ KeysAgree(s) /\ HourInMonth(s)

\* A core has counted no more than all cores have carried.
CoreInv == core # None => core.upload + core.download <= carried

MeterInv ==
    /\ TypeOK
    /\ Sound(store)
    /\ file # None => Sound(file)
    /\ CoreInv

-----------------------------------------------------------------------------
(* The operators on stores.                                                *)

\* A later hour is in no earlier month.
LEMMA MonthGrows ==
    ASSUME NEW n \in Nat \ {0}, NEW a \in Nat, NEW b \in Nat, a <= b
    PROVE  a \div n \in Nat /\ a \div n <= b \div n
<1>1. PICK p \in Int : p = a \div n
  OBVIOUS
<1>2. PICK q \in Int : q = b \div n
  OBVIOUS
<1>3. n * p <= a /\ a < n * p + n
  BY <1>1, Z3
<1>4. n * q <= b /\ b < n * q + n
  BY <1>2, Z3
<1>5. p >= 0
  <2>1. SUFFICES ASSUME p <= -1 PROVE FALSE
    BY Z3
  <2>2. n * p <= n * (-1)
    BY <2>1, Z3
  <2>3. QED BY <1>3, <2>2, Z3
<1>6. p <= q
  <2>1. SUFFICES ASSUME q + 1 <= p PROVE FALSE
    BY Z3
  <2>2. n * (q + 1) <= n * p
    BY <2>1, Z3
  <2>3. n * (q + 1) = n * q + n
    BY Z3
  <2>4. QED BY <1>3, <1>4, <2>2, <2>3, Z3
<1>7. QED
  BY <1>1, <1>2, <1>5, <1>6

\* Every hour of the clock lies in a month.
LEMMA MonthType == \A h \in Hours : Month(h) \in Months
<1> SUFFICES ASSUME NEW h \in Hours PROVE Month(h) \in Months
  OBVIOUS
<1>1. h \in Nat /\ MaxHour \in Nat /\ h <= MaxHour /\ HoursPerMonth \in Nat \ {0}
  BY MeterAssumption DEF Hours
<1>2. h \div HoursPerMonth \in Nat /\ h \div HoursPerMonth <= MaxHour \div HoursPerMonth
  BY <1>1, MonthGrows
<1>3. MaxHour \div HoursPerMonth \in Nat
  BY <1>1, MonthGrows
<1>4. QED
  BY <1>2, <1>3 DEF Month, Months

\* u64::saturating_add and saturating_sub.
LEMMA Saturates ==
    ASSUME NEW a \in 0..MaxCount, NEW b \in Nat
    PROVE  SatAdd(a, b) \in 0..MaxCount /\ SatAdd(a, b) >= a
  BY MeterAssumption DEF SatAdd

\* The smaller counter saturates no higher than the larger one.
LEMMA SaturatesBelow ==
    ASSUME NEW a \in 0..MaxCount, NEW c \in 0..MaxCount, NEW b \in Nat, a <= c
    PROVE  SatAdd(a, b) <= SatAdd(c, b)
  BY MeterAssumption DEF SatAdd

\* What a snapshot adds is a number of bytes.
LEMMA DeltaType ==
    ASSUME NEW t \in Totals, lastTotals \in Totals
    PROVE  Delta(t) \in Nat
<1>1. SatSub(t.upload, lastTotals.upload) \in Nat /\ SatSub(t.download, lastTotals.download) \in Nat
  BY MeterAssumption DEF Totals, SatSub
<1>2. QED
  BY <1>1, MeterAssumption DEF Delta, SatAdd

\* A new store, and one that is rolled or added to, counts its hour within its month.
LEMMA FreshSound == ASSUME NEW now \in Hours PROVE Sound(Fresh(now))
  BY MonthType, MeterAssumption DEF Fresh, Sound, Store, KeysAgree, HourInMonth

\* An hour that goes on does so in a month that goes on.
LEMMA RolledSound ==
    ASSUME NEW s, Sound(s), NEW now \in Hours
    PROVE  Sound(Rolled(s, now))
<1>1. Month(now) \in Months /\ 0 \in 0..MaxCount
  BY MonthType, MeterAssumption
<1>2. s.hourKey = now => s.monthKey = Month(now)
  BY DEF Sound, KeysAgree
<1>3. QED
  BY <1>1, <1>2 DEF Rolled, Sound, Store, KeysAgree, HourInMonth

\* Both counters grow by the same bytes.
LEMMA AddedSound ==
    ASSUME NEW s, Sound(s), NEW now \in Hours, NEW bytes \in Nat
    PROVE  Sound(Added(s, bytes, now))
<1> DEFINE r == Rolled(s, now)
<1>1. Sound(r)
  BY RolledSound
<1> HIDE DEF r
<1>2. Added(s, bytes, now) =
        [r EXCEPT !.hourBytes = SatAdd(@, bytes), !.monthBytes = SatAdd(@, bytes)]
  BY DEF Added, r
<1>3. /\ SatAdd(r.hourBytes, bytes) \in 0..MaxCount
      /\ SatAdd(r.monthBytes, bytes) \in 0..MaxCount
      /\ SatAdd(r.hourBytes, bytes) <= SatAdd(r.monthBytes, bytes)
  BY <1>1, Saturates, SaturatesBelow DEF Sound, Store, HourInMonth
<1>4. QED
  BY <1>1, <1>2, <1>3 DEF Sound, Store, KeysAgree, HourInMonth

-----------------------------------------------------------------------------
(* The invariant.                                                          *)

\* Nothing is counted at first.
LEMMA InitMeter == Init => MeterInv
<1> SUFFICES ASSUME Init PROVE MeterInv
  OBVIOUS
<1>1. 0 \in Hours /\ 0 \in 0..MaxCarried
  BY MeterAssumption DEF Hours
<1>2. Sound(store)
  BY <1>1, FreshSound DEF Init
<1>3. QED
  BY <1>1, <1>2 DEF Init, MeterInv, TypeOK, Sound, CoreInv

\* record_traffic.
LEMMA RecordStep == ASSUME MeterInv, RecordTraffic PROVE MeterInv'
<1> USE DEF MeterInv, TypeOK, CoreInv, outsideVars, handled, history
<1>1. pending' \in Seq(Totals) /\ lastTotals' \in Totals
  BY DEF RecordTraffic
<1>2. CASE lastTotals = None
  BY <1>1, <1>2 DEF RecordTraffic
<1>3. CASE lastTotals # None
  <2> DEFINE delta == Delta(Head(pending))
  <2>1. delta \in Nat
    BY <1>3, DeltaType DEF RecordTraffic
  <2> HIDE DEF delta
  <2>2. /\ store' = Added(store, delta, clock)
        /\ inHour' = [inHour EXCEPT ![clock] = @ + delta]
        /\ inMonth' = [inMonth EXCEPT ![Month(clock)] = @ + delta]
        /\ inAll' = inAll + delta
        /\ file' \in {file, None}
        /\ app' \in {"up", "saving"}
        /\ saveAge' \in {"recent", "old"}
    BY <1>3 DEF RecordTraffic, BeginSave, delta
  <2>3. Sound(store')
    BY <2>1, <2>2, AddedSound
  <2>4. inHour' \in [Hours -> Nat] /\ inMonth' \in [Months -> Nat] /\ inAll' \in Nat
    BY <2>1, <2>2, MonthType
  <2>5. QED
    BY <1>1, <2>2, <2>3, <2>4 DEF RecordTraffic, Sound
<1>4. QED
  BY <1>2, <1>3

\* The other steps of the GUI thread, the end of the process and its start.
LEMMA ProgramStep ==
    ASSUME MeterInv,
           Saved \/ RollPeriods \/ TunnelEnds \/ Connect \/ Close \/ Closed \/ Crash \/ Launch
    PROVE  MeterInv'
<1> USE DEF MeterInv, TypeOK, CoreInv, outsideVars, handled, history
<1>0. <<>> \in Seq(Totals)
  OBVIOUS
<1>1. CASE Saved
  BY <1>1 DEF Saved, FinishSave, SaveFails, Sound
<1>2. CASE RollPeriods
  <2>1. Sound(store')
    BY <1>2, RolledSound DEF RollPeriods
  <2>2. QED BY <1>2, <2>1 DEF RollPeriods, Sound
<1>3. CASE TunnelEnds
  BY <1>3 DEF TunnelEnds, BeginSave
<1>4. CASE Connect
  <2>1. ZeroTotals \in Totals /\ ZeroTotals.upload + ZeroTotals.download = 0
    BY MeterAssumption DEF ZeroTotals, Totals
  <2>2. QED BY <1>4, <2>1 DEF Connect, NoTotals
<1>5. CASE Close
  <2>1. store' = store /\ file' \in {None, file} /\ app' = "closing" /\ core' \in {None, core}
    BY <1>5 DEF Close, BeginSave
  <2>2. TypeOK'
    BY <1>0, <1>5, <2>1 DEF Close
  <2>3. QED BY <1>5, <2>1, <2>2 DEF Close
<1>6. CASE Closed
  BY <1>6 DEF Closed, FinishSave, SaveFails, Sound
<1>7. CASE Crash
  <2>1. TypeOK'
    BY <1>0, <1>7 DEF Crash
  <2>2. QED BY <1>7, <2>1 DEF Crash
<1>8. CASE Launch
  <2>1. Sound(store')
    BY <1>8, RolledSound, FreshSound DEF Launch, Loaded
  <2>2. QED BY <1>8, <2>1 DEF Launch, NoTotals, Sound
<1>9. QED
  BY <1>1, <1>2, <1>3, <1>4, <1>5, <1>6, <1>7, <1>8

\* The core, the worker thread and the clock.
LEMMA OutsideStep ==
    ASSUME MeterInv, Carry \/ CoreEnds \/ FetchTotals \/ SaveAges \/ Tick \/ ClockSetBack
    PROVE  MeterInv'
<1> USE DEF MeterInv, TypeOK, CoreInv, guiVars, outsideVars, handled, history
<1>1. CASE Carry
  <2>1. /\ core \in Totals /\ core.upload \in Nat /\ core.download \in Nat
        /\ core.upload + core.download <= carried /\ carried + 1 <= MaxCarried /\ carried \in Nat
    BY <1>1, MeterAssumption DEF Carry, Totals
  <2>2. core.upload + 1 \in 0..MaxCarried /\ core.download + 1 \in 0..MaxCarried
    BY <2>1, MeterAssumption
  <2>3. core' \in Totals /\ core'.upload + core'.download = core.upload + core.download + 1
    <3>1. core = [upload |-> core.upload, download |-> core.download]
      BY <2>1 DEF Totals
    <3>2. \/ core' = [upload |-> core.upload + 1, download |-> core.download]
          \/ core' = [upload |-> core.upload, download |-> core.download + 1]
      BY <1>1, <3>1 DEF Carry
    <3>3. core.upload \in 0..MaxCarried /\ core.download \in 0..MaxCarried
      BY <2>1 DEF Totals
    <3>4. core' \in Totals
      BY <2>2, <3>2, <3>3 DEF Totals
    <3>5. QED BY <3>2, <3>3, <3>4, MeterAssumption
  <2>4. carried' = carried + 1 /\ carried' \in 0..MaxCarried
    BY <1>1, <2>1, MeterAssumption DEF Carry
  <2>5. QED BY <1>1, <2>1, <2>3, <2>4 DEF Carry
<1>2. CASE CoreEnds
  BY <1>2 DEF CoreEnds
<1>3. CASE FetchTotals
  BY <1>3 DEF FetchTotals
<1>4. CASE SaveAges
  BY <1>4 DEF SaveAges
<1>5. CASE Tick
  BY <1>5, MeterAssumption DEF Tick, Hours
<1>6. CASE ClockSetBack
  <2>1. clock' \in Hours
    BY <1>6, MeterAssumption DEF ClockSetBack, Hours
  <2>2. QED BY <1>6, <2>1 DEF ClockSetBack
<1>7. QED
  BY <1>1, <1>2, <1>3, <1>4, <1>5, <1>6

\* Every step keeps the invariant.
LEMMA NextMeter == MeterInv /\ [Next]_vars => MeterInv'
<1> SUFFICES ASSUME MeterInv, [Next]_vars PROVE MeterInv'
  OBVIOUS
<1>1. CASE UNCHANGED vars
  BY <1>1 DEF vars, guiVars, outsideVars, handled, history, MeterInv, TypeOK, CoreInv
<1>2. QED
  BY <1>1, RecordStep, ProgramStep, OutsideStep DEF Next, GuiThread

-----------------------------------------------------------------------------
(* No byte is counted twice.                                               *)

\* Each snapshot is one of a core's counters at some time: later ones are no smaller.
Later(t, u) == t.upload <= u.upload /\ t.download <= u.download
Bytes(t) == t.upload + t.download

\* What a coming difference may be taken from, and what it may be taken to.
Unread == {pending[i] : i \in DOMAIN pending}
Baselines == IF lastTotals = None THEN Unread ELSE {lastTotals}
Counted == Unread \cup ({core} \ {None})

\* The baseline is never ahead of what is still to come, and the snapshots stand in the
\* channel in the order in which they were taken.
InOrder ==
    /\ \A i, j \in DOMAIN pending : i <= j => Later(pending[i], pending[j])
    /\ \A t \in Unread, u \in {core} \ {None} : Later(t, u)
    /\ \A t \in {lastTotals} \ {None}, u \in Counted : Later(t, u)

\* What was added, and what the next differences can add, was carried.
WithinCarried ==
    /\ inAll <= carried
    /\ \A t \in Baselines, u \in Counted : inAll + Bytes(u) <= carried + Bytes(t)

\* Each counter of a store is covered by what was added in its period.
Covered(s) == s.hourBytes <= inHour[s.hourKey] /\ s.monthBytes <= inMonth[s.monthKey]

\* Nobody sends snapshots to a program without a tunnel.
NoTunnelNoSnapshots ==
    /\ ~tunnel => pending = <<>>
    /\ app \in {"closing", "down", "crashed"} => ~tunnel

CountInv ==
    /\ NoTunnelNoSnapshots
    /\ InOrder
    /\ WithinCarried
    /\ Covered(store)
    /\ file # None => Covered(file)

\* What is known of the values in the channel, and of those behind a baseline.
LEMMA SnapshotTypes ==
    ASSUME MeterInv
    PROVE  /\ Unread \subseteq Totals /\ Baselines \subseteq Totals /\ Counted \subseteq Totals
           /\ \A t \in Totals : t.upload \in Nat /\ t.download \in Nat /\ Bytes(t) \in Nat
           /\ carried \in Nat /\ inAll \in Nat
<1>1. Unread \subseteq Totals
  BY DEF MeterInv, TypeOK, Unread
<1>2. \A t \in Totals : t.upload \in Nat /\ t.download \in Nat /\ Bytes(t) \in Nat
  BY MeterAssumption DEF Totals, Bytes
<1>3. QED
  BY <1>1, <1>2, MeterAssumption DEF MeterInv, TypeOK, Baselines, Counted

\* saturating_sub and saturating_add never make more of a difference than it is.
LEMMA DeltaBound ==
    ASSUME NEW t \in Totals, lastTotals \in Totals, Later(lastTotals, t)
    PROVE  Delta(t) \in Nat /\ Bytes(lastTotals) + Delta(t) <= Bytes(t)
<1>1. /\ t.upload \in Nat /\ t.download \in Nat
      /\ lastTotals.upload \in Nat /\ lastTotals.download \in Nat
  BY MeterAssumption DEF Totals
<1>2. /\ SatSub(t.upload, lastTotals.upload) = t.upload - lastTotals.upload
      /\ SatSub(t.download, lastTotals.download) = t.download - lastTotals.download
  BY <1>1 DEF SatSub, Later
<1>3. QED
  BY <1>1, <1>2, MeterAssumption DEF Delta, SatAdd, Bytes, Later

\* A period that starts again has counted nothing, one that goes on what it had.
LEMMA RolledCovered ==
    ASSUME MeterInv, NEW s, Sound(s), Covered(s), NEW now \in Hours
    PROVE  Covered(Rolled(s, now))
<1>1. inHour[now] \in Nat /\ inMonth[Month(now)] \in Nat
  BY MonthType DEF MeterInv, TypeOK
<1>2. QED
  BY <1>1 DEF Rolled, Covered

\* Both counters grow by no more than what is added in their periods.
LEMMA AddedCovered ==
    ASSUME MeterInv, NEW s, Sound(s), Covered(s), NEW delta \in Nat,
           inHour' = [inHour EXCEPT ![clock] = @ + delta],
           inMonth' = [inMonth EXCEPT ![Month(clock)] = @ + delta],
           NEW t, t = Added(s, delta, clock)
    PROVE  /\ t.hourBytes <= inHour'[t.hourKey]
           /\ t.monthBytes <= inMonth'[t.monthKey]
<1> DEFINE r == Rolled(s, clock)
<1>1. clock \in Hours /\ Month(clock) \in Months
  BY MonthType DEF MeterInv, TypeOK
<1>2. Sound(r) /\ Covered(r) /\ r.hourKey = clock /\ r.monthKey = Month(clock)
  BY <1>1, RolledSound, RolledCovered DEF Rolled
<1>3. t = [r EXCEPT !.hourBytes = SatAdd(@, delta), !.monthBytes = SatAdd(@, delta)]
  BY DEF Added
<1> HIDE DEF r
<1>4. r.hourBytes \in Nat /\ r.monthBytes \in Nat
  BY <1>2, MeterAssumption DEF Sound, Store
<1>5. /\ t.hourKey = clock /\ t.monthKey = Month(clock)
      /\ t.hourBytes = SatAdd(r.hourBytes, delta) /\ t.monthBytes = SatAdd(r.monthBytes, delta)
  BY <1>2, <1>3 DEF Sound, Store
<1>6. /\ t.hourBytes \in Nat /\ t.hourBytes <= r.hourBytes + delta
      /\ t.monthBytes \in Nat /\ t.monthBytes <= r.monthBytes + delta
  BY <1>4, <1>5, MeterAssumption DEF SatAdd
<1>7. /\ inHour'[clock] = inHour[clock] + delta /\ inHour[clock] \in Nat
      /\ inMonth'[Month(clock)] = inMonth[Month(clock)] + delta /\ inMonth[Month(clock)] \in Nat
  BY <1>1 DEF MeterInv, TypeOK
<1>8. r.hourBytes <= inHour[clock] /\ r.monthBytes <= inMonth[Month(clock)]
  BY <1>2 DEF Covered
<1>9. t.hourBytes <= inHour'[clock] /\ t.monthBytes <= inMonth'[Month(clock)]
  BY <1>4, <1>6, <1>7, <1>8
<1>10. QED
  BY <1>5, <1>9

\* A store that is covered stays so while more is added.
LEMMA CoveredStays ==
    ASSUME MeterInv, NEW s, Sound(s), Covered(s), NEW delta \in Nat,
           inHour' = [inHour EXCEPT ![clock] = @ + delta],
           inMonth' = [inMonth EXCEPT ![Month(clock)] = @ + delta]
    PROVE  s.hourBytes <= inHour'[s.hourKey] /\ s.monthBytes <= inMonth'[s.monthKey]
<1>1. /\ s.hourKey \in Hours /\ s.monthKey \in Months
      /\ s.hourBytes \in Nat /\ s.monthBytes \in Nat
  BY MeterAssumption DEF Sound, Store
<1>2. inHour[s.hourKey] \in Nat /\ inMonth[s.monthKey] \in Nat
  BY <1>1 DEF MeterInv, TypeOK
<1>3. inHour'[s.hourKey] >= inHour[s.hourKey] /\ inMonth'[s.monthKey] >= inMonth[s.monthKey]
  BY <1>1, <1>2 DEF MeterInv, TypeOK
<1>4. QED
  BY <1>1, <1>2, <1>3 DEF Covered

\* The channel without its first snapshot holds no other than before, in the same order.
LEMMA AfterHead ==
    ASSUME MeterInv, InOrder, pending # <<>>, pending' = Tail(pending)
    PROVE  /\ Head(pending) \in Unread
           /\ Unread' \subseteq Unread
           /\ \A i, j \in DOMAIN pending' : i <= j => Later(pending'[i], pending'[j])
           /\ \A t \in Unread' : Later(Head(pending), t)
<1>1. pending \in Seq(Totals)
  BY DEF MeterInv, TypeOK
<1>2. 1 \in DOMAIN pending /\ Head(pending) = pending[1]
  BY <1>1
<1>3. \A i \in DOMAIN pending' :
         i \in Nat /\ i + 1 \in DOMAIN pending /\ pending'[i] = pending[i + 1] /\ 1 <= i + 1
  BY <1>1
<1>4. Unread' \subseteq Unread /\ \A t \in Unread' : Later(Head(pending), t)
  BY <1>2, <1>3 DEF Unread, InOrder
<1>5. ASSUME NEW i \in DOMAIN pending', NEW j \in DOMAIN pending', i <= j
      PROVE  Later(pending'[i], pending'[j])
  BY <1>3, <1>5 DEF InOrder
<1>6. QED
  BY <1>2, <1>4, <1>5 DEF Unread

\* Nothing is waiting and nothing was added at first.
LEMMA InitCount == Init => CountInv
<1> SUFFICES ASSUME Init PROVE CountInv
  OBVIOUS
<1>1. Unread = {} /\ DOMAIN pending = {} /\ Baselines = {} /\ Counted = {}
  BY DEF Init, Unread, Baselines, Counted
<1>2. 0 \in Hours /\ Month(0) \in Months
  BY MonthType, MeterAssumption DEF Hours
<1>3. Covered(store)
  BY <1>2 DEF Init, Fresh, Covered
<1>4. NoTunnelNoSnapshots /\ InOrder /\ WithinCarried
  BY <1>1 DEF Init, NoTunnelNoSnapshots, InOrder, WithinCarried
<1>5. QED
  BY <1>3, <1>4 DEF Init, CountInv

\* record_traffic: the difference was carried between the two snapshots, and the later one
\* is the new baseline.
LEMMA RecordCounts == ASSUME MeterInv, CountInv, RecordTraffic PROVE CountInv'
<1> DEFINE head == Head(pending)
<1>1. /\ pending' = Tail(pending) /\ pending # <<>> /\ lastTotals' = head /\ core' = core
      /\ carried' = carried /\ tunnel' = tunnel /\ clock' = clock /\ app = "up"
      /\ app' \in {"up", "saving"} /\ file' \in {file, None}
  BY DEF RecordTraffic, outsideVars, BeginSave, MeterInv, TypeOK
<1>2. /\ head \in Unread /\ Unread' \subseteq Unread
      /\ \A i, j \in DOMAIN pending' : i <= j => Later(pending'[i], pending'[j])
      /\ \A t \in Unread' : Later(head, t)
  BY <1>1, AfterHead DEF CountInv
<1>3. head \in Totals /\ head \in Counted /\ head # None
  BY <1>2, SnapshotTypes, MeterAssumption DEF Counted
<1>4. Baselines' = {head} /\ Counted' \subseteq Counted
  BY <1>1, <1>2, <1>3 DEF Baselines, Counted
<1>5. NoTunnelNoSnapshots'
  BY <1>1 DEF CountInv, NoTunnelNoSnapshots
<1>6. InOrder'
  <2>1. \A t \in Unread', u \in {core'} \ {None} : Later(t, u)
    BY <1>1, <1>2 DEF CountInv, InOrder
  <2>2. \A u \in Counted' : Later(head, u)
    BY <1>1, <1>2 DEF CountInv, InOrder, Counted
  <2>3. QED
    BY <1>1, <1>2, <2>1, <2>2 DEF InOrder
<1>7. CASE lastTotals = None
  <2>1. UNCHANGED <<store, file, inHour, inMonth, inAll>>
    BY <1>7 DEF RecordTraffic, handled, history
  <2>2. head \in Baselines
    BY <1>2, <1>7 DEF Baselines
  <2>3. WithinCarried'
    BY <1>1, <1>4, <2>1, <2>2 DEF CountInv, WithinCarried, Bytes
  <2>4. QED
    BY <1>5, <1>6, <2>1, <2>3 DEF CountInv, Covered
<1>8. CASE lastTotals # None
  <2> DEFINE delta == Delta(head)
  <2>1. lastTotals \in Totals /\ Later(lastTotals, head)
    BY <1>3, <1>8 DEF MeterInv, TypeOK, CountInv, InOrder
  <2>2. delta \in Nat /\ Bytes(lastTotals) + delta <= Bytes(head)
    BY <1>3, <2>1, DeltaBound
  <2>3. /\ store' = Added(store, delta, clock)
        /\ inHour' = [inHour EXCEPT ![clock] = @ + delta]
        /\ inMonth' = [inMonth EXCEPT ![Month(clock)] = @ + delta]
        /\ inAll' = inAll + delta
    BY <1>8 DEF RecordTraffic
  <2> HIDE DEF delta
  <2>4. Covered(store)' /\ (file' # None => Covered(file)')
    <3>1. store'.hourBytes <= inHour'[store'.hourKey] /\ store'.monthBytes <= inMonth'[store'.monthKey]
      BY <2>2, <2>3, AddedCovered DEF CountInv, MeterInv
    <3>2. CASE file' = None
      BY <3>1, <3>2 DEF Covered
    <3>3. CASE file' # None
      <4>1. file' = file /\ file # None
        BY <1>1, <3>3
      <4>2. file.hourBytes <= inHour'[file.hourKey] /\ file.monthBytes <= inMonth'[file.monthKey]
        BY <2>2, <2>3, <4>1, CoveredStays DEF CountInv, MeterInv
      <4>3. QED BY <3>1, <4>1, <4>2 DEF Covered
    <3>4. QED BY <3>2, <3>3
  <2>5. WithinCarried'
    <3>1. lastTotals \in Baselines
      BY <1>8 DEF Baselines
    <3>2. \A u \in Counted : inAll + Bytes(u) <= carried + Bytes(lastTotals)
      BY <3>1 DEF CountInv, WithinCarried
    <3>3. /\ Bytes(lastTotals) \in Nat /\ Bytes(head) \in Nat
          /\ \A u \in Counted : Bytes(u) \in Nat
          /\ carried \in Nat /\ inAll \in Nat
      BY <1>3, <2>1, SnapshotTypes
    <3>4. inAll + Bytes(head) <= carried + Bytes(lastTotals)
      BY <1>3, <3>2
    <3>5. inAll + delta <= carried
      BY <2>2, <3>3, <3>4
    <3>6. \A u \in Counted : (inAll + delta) + Bytes(u) <= carried + Bytes(head)
      BY <2>2, <3>2, <3>3
    <3>7. QED
      BY <1>1, <1>4, <2>3, <3>5, <3>6 DEF WithinCarried, Bytes
  <2>6. QED
    BY <1>5, <1>6, <2>4, <2>5 DEF CountInv
<1>9. QED
  BY <1>7, <1>8

\* A step that adds nothing, and after which the channel and what can still be counted are
\* what they were or less, counts nothing twice.
Forgets ==
    /\ handled' = handled /\ carried' = carried
    /\ pending' \in {pending, <<>>}
    /\ core' \in {core, None}
    /\ lastTotals' = lastTotals \/ (lastTotals' = None /\ pending' = <<>>)

LEMMA ForgetCounts ==
    ASSUME MeterInv, InOrder, WithinCarried, Forgets
    PROVE  InOrder' /\ WithinCarried'
<1>1. Unread' \in {Unread, {}} /\ (pending' = <<>> => Unread' = {})
  BY DEF Forgets, Unread
<1>2. \A i, j \in DOMAIN pending' : i <= j => Later(pending'[i], pending'[j])
  BY DEF Forgets, InOrder
<1>3. Counted' \subseteq Counted /\ {core'} \ {None} \subseteq {core} \ {None}
  BY <1>1 DEF Counted, Forgets
<1>4. Baselines' \subseteq Baselines /\ {lastTotals'} \ {None} \subseteq {lastTotals} \ {None}
  BY <1>1 DEF Baselines, Forgets
<1>5. inAll' = inAll /\ carried' = carried
  BY DEF Forgets, handled
<1>6. InOrder'
  BY <1>1, <1>2, <1>3, <1>4 DEF InOrder
<1>7. WithinCarried'
  BY <1>3, <1>4, <1>5 DEF WithinCarried, Bytes
<1>8. QED BY <1>6, <1>7

\* The other steps of the program.
LEMMA ProgramCounts ==
    ASSUME MeterInv, CountInv,
           Saved \/ RollPeriods \/ TunnelEnds \/ Close \/ Closed \/ Crash \/ Launch
    PROVE  CountInv'
<1> USE DEF handled, history, outsideVars
<1>1. NoTunnelNoSnapshots'
  BY DEF CountInv, NoTunnelNoSnapshots, Saved, RollPeriods, TunnelEnds, Close, Closed, Crash, Launch
<1>2. Forgets
  BY DEF Forgets, CountInv, NoTunnelNoSnapshots, NoTotals, Saved, RollPeriods, TunnelEnds, Close,
         Closed, Crash, Launch
<1>3. InOrder' /\ WithinCarried'
  BY <1>2, ForgetCounts DEF CountInv
<1>4. clock \in Hours /\ Sound(store) /\ (file # None => Sound(file))
  BY DEF MeterInv, TypeOK
<1>5. Covered(Fresh(clock))
  BY <1>4, MonthType DEF Fresh, Covered, MeterInv, TypeOK
<1>6. \A s : Sound(s) /\ Covered(s) => Covered(Rolled(s, clock))
  BY <1>4, RolledCovered
<1>7. \/ store' \in {store, Rolled(store, clock), Fresh(clock)}
      \/ file # None /\ store' = Rolled(file, clock)
  BY DEF Saved, RollPeriods, TunnelEnds, Close, Closed, Crash, Launch, Loaded
<1>8. Covered(store')
  BY <1>4, <1>5, <1>6, <1>7 DEF CountInv
<1>9. file' \in {file, None, store}
  BY DEF Saved, RollPeriods, TunnelEnds, Close, Closed, Crash, Launch, BeginSave, FinishSave, SaveFails
<1>10. inHour' = inHour /\ inMonth' = inMonth
  BY <1>2 DEF Forgets
<1>11. Covered(store)' /\ (file' # None => Covered(file)')
  BY <1>8, <1>9, <1>10 DEF CountInv, Covered
<1>12. QED
  BY <1>1, <1>3, <1>11 DEF CountInv

\* connect: no baseline, so the core that is there may have counted before.
LEMMA ConnectCounts == ASSUME MeterInv, CountInv, Connect PROVE CountInv'
<1>1. /\ pending' = <<>> /\ lastTotals' = None
      /\ UNCHANGED <<store, file, inHour, inMonth, inAll, carried>>
      /\ app' = "up" /\ tunnel'
  BY DEF Connect, NoTotals, handled, history
<1>2. Unread' = {} /\ DOMAIN pending' = {} /\ Baselines' = {}
  BY <1>1 DEF Unread, Baselines
<1>3. InOrder' /\ WithinCarried'
  BY <1>1, <1>2 DEF CountInv, InOrder, WithinCarried
<1>4. QED
  BY <1>1, <1>3 DEF CountInv, NoTunnelNoSnapshots, Covered

\* The core carries a byte.
LEMMA CarryCounts == ASSUME MeterInv, CountInv, Carry PROVE CountInv'
<1>1. /\ carried' = carried + 1 /\ core # None /\ core \in Totals
      /\ core' \in {[core EXCEPT !.upload = @ + 1], [core EXCEPT !.download = @ + 1]}
      /\ UNCHANGED <<app, store, lastTotals, file, tunnel, pending, inHour, inMonth, inAll>>
  BY DEF Carry, MeterInv, TypeOK, guiVars, handled, history
<1>2. core.upload \in Nat /\ core.download \in Nat
  BY <1>1, SnapshotTypes
<1>3. /\ Later(core, core') /\ Bytes(core') = Bytes(core) + 1
      /\ core'.upload \in Nat /\ core'.download \in Nat
  <2>1. core = [upload |-> core.upload, download |-> core.download]
    BY <1>1 DEF Totals
  <2>2. \/ core' = [upload |-> core.upload + 1, download |-> core.download]
        \/ core' = [upload |-> core.upload, download |-> core.download + 1]
    BY <1>1, <2>1
  <2>3. QED BY <1>2, <2>2 DEF Later, Bytes
<1>4. \A t \in Totals : Later(t, core) => Later(t, core')
  BY <1>2, <1>3, SnapshotTypes DEF Later
<1>5. Unread' = Unread /\ Baselines' = Baselines /\ Counted' \subseteq Unread \cup {core'}
  BY <1>1 DEF Unread, Baselines, Counted
<1>6. core \in Counted /\ Unread \subseteq Counted
  BY <1>1 DEF Counted
<1>7. InOrder'
  <2>1. \A t \in Unread : Later(t, core')
    BY <1>1, <1>4, SnapshotTypes DEF CountInv, InOrder
  <2>2. \A t \in {lastTotals} \ {None} : Later(t, core')
    BY <1>1, <1>4, <1>6 DEF CountInv, InOrder, MeterInv, TypeOK
  <2>3. QED BY <1>1, <1>5, <1>6, <2>1, <2>2 DEF CountInv, InOrder
<1>8. WithinCarried'
  <2>1. /\ \A t \in Baselines \cup Counted : Bytes(t) \in Nat
        /\ carried \in Nat /\ inAll \in Nat
    BY SnapshotTypes
  <2>2. \A t \in Baselines : inAll + Bytes(core') <= carried + 1 + Bytes(t)
    BY <1>3, <1>6, <2>1 DEF CountInv, WithinCarried
  <2>3. \A t \in Baselines, u \in Unread : inAll + Bytes(u) <= carried + 1 + Bytes(t)
    BY <1>6, <2>1 DEF CountInv, WithinCarried
  <2>4. inAll <= carried + 1
    BY <2>1 DEF CountInv, WithinCarried
  <2>5. QED BY <1>1, <1>5, <2>2, <2>3, <2>4 DEF WithinCarried, Bytes
<1>9. QED
  BY <1>1, <1>7, <1>8 DEF CountInv, NoTunnelNoSnapshots, Covered

\* The worker sends what the core has counted.
LEMMA FetchCounts == ASSUME MeterInv, CountInv, FetchTotals PROVE CountInv'
<1>1. /\ pending' = Append(pending, core) /\ core # None /\ core \in Totals /\ tunnel
      /\ UNCHANGED <<app, store, lastTotals, file, tunnel, core, carried, inHour, inMonth, inAll>>
  BY DEF FetchTotals, MeterInv, TypeOK, guiVars, handled, history, outsideVars
<1>2. pending \in Seq(Totals)
  BY DEF MeterInv, TypeOK
<1>3. /\ DOMAIN pending' = 1..Len(pending) + 1 /\ DOMAIN pending = 1..Len(pending)
      /\ Len(pending) \in Nat
      /\ \A i \in DOMAIN pending : pending'[i] = pending[i]
      /\ pending'[Len(pending) + 1] = core
  BY <1>1, <1>2
<1>4. Unread' = Unread \cup {core}
  BY <1>3 DEF Unread
<1>5. Counted' = Counted /\ core \in Counted /\ Baselines' \subseteq Baselines \cup {core}
  BY <1>1, <1>4 DEF Counted, Baselines
<1>6. Later(core, core)
  BY <1>1, SnapshotTypes DEF Later
<1>7. InOrder'
  <2>1. \A t \in Unread' : Later(t, core)
    BY <1>1, <1>4, <1>6 DEF CountInv, InOrder
  <2>2. ASSUME NEW i \in DOMAIN pending', NEW j \in DOMAIN pending', i <= j
        PROVE  Later(pending'[i], pending'[j])
    <3>1. CASE j = Len(pending) + 1
      BY <1>3, <2>1, <3>1 DEF Unread
    <3>2. CASE j # Len(pending) + 1
      <4>1. i \in DOMAIN pending /\ j \in DOMAIN pending
        BY <1>3, <2>2, <3>2
      <4>2. QED BY <1>3, <2>2, <4>1 DEF CountInv, InOrder
    <3>3. QED BY <3>1, <3>2
  <2>3. \A t \in {lastTotals'} \ {None}, u \in Counted' : Later(t, u)
    BY <1>1, <1>5 DEF CountInv, InOrder
  <2>4. QED BY <1>1, <2>1, <2>2, <2>3 DEF InOrder
<1>8. WithinCarried'
  <2>1. /\ \A t \in Counted : Bytes(t) \in Nat /\ t.upload \in Nat /\ t.download \in Nat
        /\ carried \in Nat /\ inAll \in Nat
    BY SnapshotTypes
  <2>2. \A u \in Counted : Bytes(u) <= Bytes(core)
    <3>1. \A u \in Counted : Later(u, core)
      BY <1>1, <1>6 DEF CountInv, InOrder, Counted
    <3>2. QED BY <1>5, <2>1, <3>1 DEF Later, Bytes
  <2>3. \A u \in Counted : inAll + Bytes(u) <= carried + Bytes(core)
    BY <1>5, <2>1, <2>2 DEF CountInv, WithinCarried
  <2>4. QED BY <1>1, <1>5, <2>3 DEF CountInv, WithinCarried, Bytes
<1>9. QED
  BY <1>1, <1>7, <1>8 DEF CountInv, NoTunnelNoSnapshots, Covered

\* The core ends, time passes, the clock moves.
LEMMA TimeCounts ==
    ASSUME MeterInv, CountInv, CoreEnds \/ SaveAges \/ Tick \/ ClockSetBack
    PROVE  CountInv'
<1>1. /\ Forgets
      /\ UNCHANGED <<app, store, file, tunnel, pending, inHour, inMonth>>
  BY DEF Forgets, CoreEnds, SaveAges, Tick, ClockSetBack, guiVars, outsideVars, handled, history
<1>2. InOrder' /\ WithinCarried'
  BY <1>1, ForgetCounts DEF CountInv
<1>3. QED
  BY <1>1, <1>2 DEF CountInv, NoTunnelNoSnapshots, Covered

\* Every step keeps the invariant.
LEMMA NextCount == MeterInv /\ CountInv /\ [Next]_vars => CountInv'
<1> SUFFICES ASSUME MeterInv, CountInv, [Next]_vars PROVE CountInv'
  OBVIOUS
<1>1. CASE UNCHANGED vars
  BY <1>1 DEF vars, guiVars, outsideVars, handled, history, CountInv, NoTunnelNoSnapshots, InOrder,
              WithinCarried, Covered, Unread, Baselines, Counted
<1>2. QED
  BY <1>1, RecordCounts, ProgramCounts, ConnectCounts, CarryCounts, FetchCounts, TimeCounts
     DEF Next, GuiThread

-----------------------------------------------------------------------------
(* Nothing is forgotten.                                                   *)

\* While the clock has never been set back, nothing was added behind the store's periods, and
\* the store of a closed program is in the file.
KeptInv ==
    intact =>
        /\ app # "crashed"
        /\ app = "down" => file = store
        /\ store.hourKey <= clock
        /\ \A h \in Hours : h > store.hourKey => inHour[h] = 0
        /\ \A m \in Months : m > store.monthKey => inMonth[m] = 0
        /\ NothingForgotten

\* Two additions saturate as one does.
LEMMA SaturatesOnce ==
    ASSUME NEW a \in Nat, NEW b \in Nat
    PROVE  SatAdd(SatAdd(0, a), b) = SatAdd(0, a + b)
  BY MeterAssumption DEF SatAdd

\* A period that starts again has nothing added to it yet.
LEMMA RolledKept ==
    ASSUME MeterInv, KeptInv, intact
    PROVE  LET r == Rolled(store, clock)
           IN  /\ r.hourKey = clock /\ r.monthKey = Month(clock)
               /\ \A h \in Hours : h > clock => inHour[h] = 0
               /\ \A m \in Months : m > Month(clock) => inMonth[m] = 0
               /\ r.hourBytes = SatAdd(0, inHour[clock])
               /\ r.monthBytes = SatAdd(0, inMonth[Month(clock)])
<1> DEFINE r == Rolled(store, clock)
<1>1. /\ clock \in Hours /\ store.hourKey \in Hours /\ store.hourKey <= clock
      /\ Month(clock) \in Months /\ store.monthKey \in Months
  BY MonthType DEF MeterInv, TypeOK, Sound, Store, KeptInv
<1>2. store.monthKey <= Month(clock)
  <2>1. HoursPerMonth \in Nat \ {0} /\ clock \in Nat /\ store.hourKey \in Nat
    BY <1>1, MeterAssumption DEF Hours
  <2>2. Month(store.hourKey) <= Month(clock)
    BY <1>1, <2>1, MonthGrows DEF Month
  <2>3. QED BY <2>2 DEF MeterInv, Sound, KeysAgree
<1>3. clock \in Nat /\ store.hourKey \in Nat /\ Hours \subseteq Nat
  BY <1>1, MeterAssumption DEF Hours
<1>4. Months \subseteq Int /\ Month(clock) \in Int /\ store.monthKey \in Int
  BY <1>1 DEF Months
<1>5. SatAdd(0, 0) = 0
  BY MeterAssumption DEF SatAdd
<1>6. /\ \A h \in Hours : h > store.hourKey => inHour[h] = 0
      /\ \A m \in Months : m > store.monthKey => inMonth[m] = 0
      /\ store.hourBytes = SatAdd(0, inHour[store.hourKey])
      /\ store.monthBytes = SatAdd(0, inMonth[store.monthKey])
  BY DEF KeptInv, NothingForgotten
<1>7. /\ r.hourKey = clock /\ r.monthKey = Month(clock)
      /\ r.hourBytes = IF store.hourKey = clock THEN store.hourBytes ELSE 0
      /\ r.monthBytes = IF store.monthKey = Month(clock) THEN store.monthBytes ELSE 0
  BY DEF Rolled
<1> HIDE DEF r
<1>8. r.hourBytes = SatAdd(0, inHour[clock])
  <2>1. store.hourKey # clock => inHour[clock] = 0
    BY <1>1, <1>3, <1>6
  <2>2. QED BY <1>5, <1>6, <1>7, <2>1
<1>9. r.monthBytes = SatAdd(0, inMonth[Month(clock)])
  <2>1. store.monthKey # Month(clock) => inMonth[Month(clock)] = 0
    BY <1>1, <1>2, <1>4, <1>6
  <2>2. QED BY <1>5, <1>6, <1>7, <2>1
<1>10. \A h \in Hours : h > clock => inHour[h] = 0
  BY <1>1, <1>3, <1>6
<1>11. \A m \in Months : m > Month(clock) => inMonth[m] = 0
  BY <1>2, <1>4, <1>6
<1>12. QED
  BY <1>7, <1>8, <1>9, <1>10, <1>11 DEF r

\* Nothing was added at first.
LEMMA InitKept == Init => KeptInv
<1> SUFFICES ASSUME Init PROVE KeptInv
  OBVIOUS
<1>1. 0 \in Hours /\ Month(0) \in Months /\ SatAdd(0, 0) = 0
  BY MonthType, MeterAssumption DEF Hours, SatAdd
<1>2. /\ store.hourKey = 0 /\ store.monthKey = Month(0)
      /\ store.hourBytes = 0 /\ store.monthBytes = 0
  BY DEF Init, Fresh
<1>3. QED
  BY <1>1, <1>2 DEF Init, KeptInv, NothingForgotten

\* What is added to the store is added to the history of its periods.
LEMMA RecordKept == ASSUME MeterInv, KeptInv, RecordTraffic PROVE KeptInv'
<1> SUFFICES ASSUME intact' PROVE KeptInv'
  BY DEF KeptInv
<1>1. intact /\ clock' = clock /\ app' \in {"up", "saving"}
  BY DEF RecordTraffic, history, outsideVars
<1>2. CASE lastTotals = None
  BY <1>1, <1>2 DEF RecordTraffic, history, handled, KeptInv, NothingForgotten
<1>3. CASE lastTotals # None
  <2> DEFINE delta == Delta(Head(pending))
             r == Rolled(store, clock)
  <2>1. delta \in Nat
    BY <1>3, DeltaType DEF RecordTraffic, MeterInv, TypeOK
  <2>2. /\ store' = Added(store, delta, clock)
        /\ inHour' = [inHour EXCEPT ![clock] = @ + delta]
        /\ inMonth' = [inMonth EXCEPT ![Month(clock)] = @ + delta]
    BY <1>3 DEF RecordTraffic
  <2>3. clock \in Hours /\ Month(clock) \in Months
    BY MonthType DEF MeterInv, TypeOK
  <2>4. /\ r \in Store
        /\ r.hourKey = clock /\ r.monthKey = Month(clock)
        /\ \A h \in Hours : h > clock => inHour[h] = 0
        /\ \A m \in Months : m > Month(clock) => inMonth[m] = 0
        /\ r.hourBytes = SatAdd(0, inHour[clock])
        /\ r.monthBytes = SatAdd(0, inMonth[Month(clock)])
    BY <1>1, <2>3, RolledKept, RolledSound DEF MeterInv, Sound
  <2>5. store' = [r EXCEPT !.hourBytes = SatAdd(@, delta), !.monthBytes = SatAdd(@, delta)]
    BY <2>2 DEF Added
  <2> HIDE DEF delta, r
  <2>6. /\ store'.hourKey = clock /\ store'.monthKey = Month(clock)
        /\ store'.hourBytes = SatAdd(r.hourBytes, delta)
        /\ store'.monthBytes = SatAdd(r.monthBytes, delta)
    BY <2>4, <2>5 DEF Store
  <2>7. /\ inHour \in [Hours -> Nat] /\ inMonth \in [Months -> Nat]
    BY DEF MeterInv, TypeOK
  <2>8. /\ inHour'[clock] = inHour[clock] + delta
        /\ inMonth'[Month(clock)] = inMonth[Month(clock)] + delta
    BY <2>2, <2>3, <2>7
  <2>9. /\ store'.hourBytes = SatAdd(0, inHour'[clock])
        /\ store'.monthBytes = SatAdd(0, inMonth'[Month(clock)])
    <3>1. inHour[clock] \in Nat /\ inMonth[Month(clock)] \in Nat
      BY <2>3, <2>7
    <3>2. QED BY <2>1, <2>4, <2>6, <2>8, <3>1, SaturatesOnce
  <2>10. /\ \A h \in Hours : h > clock => inHour'[h] = 0
         /\ \A m \in Months : m > Month(clock) => inMonth'[m] = 0
    <3>1. Hours \subseteq Int /\ Months \subseteq Int
      BY DEF Hours, Months
    <3>2. QED BY <2>2, <2>3, <2>4, <2>7, <3>1
  <2>11. clock <= clock
    BY <2>3 DEF Hours
  <2>12. QED
    BY <1>1, <2>6, <2>9, <2>10, <2>11 DEF KeptInv, NothingForgotten
<1>4. QED
  BY <1>2, <1>3

\* The periods roll in every frame, and when a program reads back what the last one left.
LEMMA RollKept ==
    ASSUME MeterInv, KeptInv, RollPeriods \/ Launch
    PROVE  KeptInv'
<1> SUFFICES ASSUME intact' PROVE KeptInv'
  BY DEF KeptInv
<1>1. /\ intact /\ clock' = clock /\ app' = "up" /\ file' = file
      /\ inHour' = inHour /\ inMonth' = inMonth
  BY DEF RollPeriods, Launch, history, handled, outsideVars
<1>2. store' = Rolled(store, clock)
  <2>1. CASE RollPeriods
    BY <2>1 DEF RollPeriods
  <2>2. CASE Launch
    <3>1. app = "down" /\ file = store /\ file # None
      BY <1>1, <2>2, MeterAssumption DEF Launch, KeptInv, MeterInv, TypeOK
    <3>2. QED BY <2>2, <3>1 DEF Launch, Loaded
  <2>3. QED BY <2>1, <2>2
<1>3. clock <= clock
  BY DEF MeterInv, TypeOK, Hours
<1>4. QED
  BY <1>1, <1>2, <1>3, RolledKept DEF KeptInv, NothingForgotten

\* The other steps leave store and history alone; the last save writes all of it, or fails.
LEMMA OtherKept ==
    ASSUME MeterInv, KeptInv, [Next]_vars, ~RecordTraffic, ~RollPeriods, ~Launch
    PROVE  KeptInv'
<1> SUFFICES ASSUME intact' PROVE KeptInv'
  BY DEF KeptInv
<1>1. UNCHANGED <<store, inHour, inMonth>>
  BY DEF Next, GuiThread, Saved, TunnelEnds, Connect, Close, Closed, Crash, Carry, CoreEnds,
         FetchTotals, SaveAges, Tick, ClockSetBack, vars, guiVars, history, handled
<1>2. ~Crash /\ ~ClockSetBack
  BY DEF Crash, ClockSetBack
<1>3. intact /\ clock' \in {clock, clock + 1}
  BY <1>2 DEF Next, GuiThread, Saved, TunnelEnds, Connect, Close, Closed, Carry, CoreEnds,
         FetchTotals, SaveAges, Tick, vars, guiVars, outsideVars, history
<1>4. store.hourKey <= clock'
  <2>1. store.hourKey \in Int /\ clock \in Int
    BY DEF MeterInv, TypeOK, Sound, Store, Hours
  <2>2. QED BY <1>3, <2>1 DEF KeptInv
<1>5. app' # "crashed" /\ (app' = "down" => file' = store')
  <2>1. CASE UNCHANGED <<app, file>>
    BY <1>1, <1>3, <2>1 DEF KeptInv
  <2>2. CASE Saved \/ TunnelEnds \/ Connect \/ Close
    BY <2>2 DEF Saved, TunnelEnds, Connect, Close
  <2>3. CASE Closed
    BY <1>1, <2>3 DEF Closed, FinishSave
  <2>4. QED
    BY <1>2, <2>1, <2>2, <2>3 DEF Next, GuiThread, Carry, CoreEnds, FetchTotals, SaveAges, Tick,
                                  vars, guiVars
<1>6. QED
  BY <1>1, <1>3, <1>4, <1>5 DEF KeptInv, NothingForgotten

\* Every step keeps the invariant.
LEMMA NextKept == MeterInv /\ KeptInv /\ [Next]_vars => KeptInv'
  BY RecordKept, RollKept, OtherKept

-----------------------------------------------------------------------------
(* The theorems.                                                           *)

\* The inductive invariant of counters, file and cores (TrafficStore, record_traffic).
THEOREM MeterInvariant == Spec => []MeterInv
<1>1. QED BY InitMeter, NextMeter, PTL DEF Spec

\* Every variable keeps its type; above all the counters stay within 64 bits (add).
THEOREM MeterTypes == Spec => []TypeOK
<1>1. MeterInv => TypeOK BY DEF MeterInv
<1>2. QED BY <1>1, MeterInvariant, PTL

\* In memory and on disk the hour never counts more than its month, whatever the clock and
\* the crashes do (roll_periods, add, load).
THEOREM HourCounted == Spec => []HourWithinMonth
<1>1. MeterInv => HourWithinMonth
  BY DEF MeterInv, Sound, HourInMonth, HourWithinMonth
<1>2. QED BY <1>1, MeterInvariant, PTL

\* A running program never counts a period down (add, roll_periods).
THEOREM NeverShrinks == Spec => CountsNeverShrink
<1> DEFINE Kept == /\ store'.hourKey = store.hourKey => store'.hourBytes >= store.hourBytes
                   /\ store'.monthKey = store.monthKey => store'.monthBytes >= store.monthBytes
<1>1. ASSUME MeterInv, store' = store PROVE Kept
  BY <1>1, MeterAssumption DEF MeterInv, TypeOK, Store
<1>2. ASSUME MeterInv, NEW now \in Hours, store' = Rolled(store, now) PROVE Kept
  BY <1>2, MeterAssumption DEF MeterInv, TypeOK, Store, Rolled
<1>3. ASSUME MeterInv, RecordTraffic PROVE Kept
  <2>1. CASE lastTotals = None
    BY <1>1, <1>3, <2>1 DEF RecordTraffic
  <2>2. CASE lastTotals # None
    <3> DEFINE delta == Delta(Head(pending))
               r == Rolled(store, clock)
    <3>1. delta \in Nat
      BY <1>3, <2>2, DeltaType DEF RecordTraffic, MeterInv, TypeOK
    <3>2. Sound(r) /\ Sound(store)
      BY <1>3, RolledSound DEF MeterInv, TypeOK
    <3>3. store' = [r EXCEPT !.hourBytes = SatAdd(@, delta), !.monthBytes = SatAdd(@, delta)]
      BY <1>3, <2>2 DEF RecordTraffic, Added
    <3>4. /\ r.hourKey = store.hourKey => r.hourBytes = store.hourBytes
          /\ r.monthKey = store.monthKey => r.monthBytes = store.monthBytes
      BY DEF Rolled
    <3> HIDE DEF delta, r
    <3>5. /\ r.hourBytes \in 0..MaxCount /\ r.monthBytes \in 0..MaxCount /\ r \in Store
      BY <3>2 DEF Sound, Store
    <3>6. SatAdd(r.hourBytes, delta) >= r.hourBytes /\ SatAdd(r.monthBytes, delta) >= r.monthBytes
      BY <3>1, <3>5, Saturates
    <3>7. /\ store'.hourKey = r.hourKey /\ store'.monthKey = r.monthKey
          /\ store'.hourBytes = SatAdd(r.hourBytes, delta)
          /\ store'.monthBytes = SatAdd(r.monthBytes, delta)
      BY <3>3, <3>5 DEF Store
    <3>8. QED BY <3>4, <3>6, <3>7
  <2>3. QED BY <2>1, <2>2
<1>4. ASSUME MeterInv, [Next]_vars, app \notin {"down", "crashed"} PROVE Kept
  <2>1. clock \in Hours
    BY <1>4 DEF MeterInv, TypeOK
  <2>2. CASE RollPeriods
    BY <1>2, <1>4, <2>1, <2>2 DEF RollPeriods
  <2>3. CASE RecordTraffic
    BY <1>3, <1>4, <2>3
  <2>4. CASE ~RollPeriods /\ ~RecordTraffic
    <3>1. store' = store
      BY <1>4, <2>4
         DEF Next, GuiThread, Saved, TunnelEnds, Connect, Close, Closed, Crash, Launch, Carry,
             CoreEnds, FetchTotals, SaveAges, Tick, ClockSetBack, vars, guiVars, handled, history
    <3>2. QED BY <1>1, <1>4, <3>1
  <2>5. QED BY <2>2, <2>3, <2>4
<1>5. MeterInv /\ [Next]_vars => [app \notin {"down", "crashed"} => Kept]_vars
  BY <1>4
<1>6. QED
  BY <1>5, MeterInvariant, PTL DEF Spec, CountsNeverShrink

\* As long as no crash, no failed last save and no clock set back has intervened, each counter
\* has all that was added in its period, whatever saves failed before and however often the
\* program was closed and started (roll_periods, add, restore_proxy, load).
THEOREM AllKept == Spec => []NothingForgotten
<1>1. KeptInv => NothingForgotten
  BY DEF KeptInv, NothingForgotten
<1>2. QED BY <1>1, InitKept, NextKept, MeterInvariant, PTL DEF Spec

\* No byte is counted twice: all that was ever added was carried by a core, and each counter
\* holds no more than what was added in its period (record_traffic, load, roll_periods).
THEOREM CountedOnce == Spec => []NoDoubleCounting
<1>1. CountInv => NoDoubleCounting
  BY DEF CountInv, WithinCarried, Covered, NoDoubleCounting
<1>2. QED BY <1>1, InitCount, NextCount, MeterInvariant, PTL DEF Spec

=============================================================================
