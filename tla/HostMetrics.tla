------------------------------ MODULE HostMetrics ------------------------------
(***************************************************************************)
(* infra.Manager: CPU and network readings are differences from the last   *)
(* sample, which every subscription, request and alert evaluation shares.  *)
(*                                                                         *)
(* A sampler reads the kernel's counters first and takes the lock          *)
(* afterwards, so that a later reading may be committed before it.         *)
(***************************************************************************)
EXTENDS Naturals

CONSTANTS
  Samplers,
  Word,         \* counters are unsigned words: 2^64 in the code
  MaxClock      \* bound: ticks of the kernel's clock

VARIABLES
  clock,
  busy,         \* the kernel's busy time; the rest of the clock was idle
  rx,           \* the interface's byte counter
  received,     \* history: bytes received by each tick
  active,       \* the interface is up
  last,         \* lastCPU, lastNet and lastTime; rxTime is history: when lastNet was
  sampler,      \* each sampler: what it read
  report,       \* the last sample reported, and what it was measured from
  overtaken     \* history: a sample was committed after a later one

metricsVars == <<clock, busy, rx, received, active, last, sampler, report, overtaken>>

NoNet == Word        \* not a counter: the interface is not in the map
NoReading == [at |-> "idle", time |-> 0, busy |-> 0, idle |-> 0, rx |-> NoNet]
NoReport == [cpu |-> 0, share |-> 0, rate |-> 0, span |-> 0, since |-> 0, from |-> 0]

\* Unsigned subtraction.
Minus(a, b) == (a + Word - b) % Word

\* cpuPercent, between two readings.
CpuPercent(prev, next) ==
  LET total == Minus(next.busy + next.idle, prev.busy + prev.idle)
      idle  == Minus(next.idle, prev.idle)
  IN IF total = 0 THEN 0 ELSE (Minus(total, idle) * 100) \div total

\* The share of busy time between two moments, whichever comes first.
Apart(a, b) == IF a > b THEN a - b ELSE b - a
BusyShare(prev, next) ==
  LET total == Apart(next.busy + next.idle, prev.busy + prev.idle)
  IN IF total = 0 THEN 0 ELSE (Apart(next.busy, prev.busy) * 100) \div total

\* Mutant: the difference, whatever its sign.
NetDeltaUnchecked(prev, next) ==
  IF prev.rx = NoNet \/ next.rx = NoNet THEN 0 ELSE Minus(next.rx, prev.rx)

\* An interface that is new, or whose counter is behind, counts for nothing.
NetDelta(prev, next) ==
  IF prev.rx = NoNet \/ next.rx = NoNet \/ next.rx < prev.rx THEN 0 ELSE next.rx - prev.rx

(* The host *)

HostTick(spent, bytes) ==
  /\ clock < MaxClock
  /\ clock' = clock + 1
  /\ busy' = busy + spent
  /\ rx' = IF active THEN rx + bytes ELSE rx
  /\ received' = [received EXCEPT ![clock'] = received[clock] + (IF active THEN bytes ELSE 0)]
  /\ UNCHANGED <<active, last, sampler, report, overtaken>>

\* The interface goes down, or comes up with the counter it had.
LinkFlips ==
  /\ active' = ~active
  /\ UNCHANGED <<clock, busy, rx, received, last, sampler, report, overtaken>>

(* collect *)

\* The ticker's time is taken first.
SampleBegins(s) ==
  /\ sampler[s].at = "idle"
  /\ sampler' = [sampler EXCEPT ![s].at = "reading", ![s].time = clock]
  /\ UNCHANGED <<clock, busy, rx, received, active, last, report, overtaken>>

\* /proc/stat and /proc/net/dev; interfaces that are down are filtered out.
SampleReads(s) ==
  /\ sampler[s].at = "reading"
  /\ sampler' = [sampler EXCEPT ![s].at = "commit", ![s].busy = busy, ![s].idle = clock - busy,
                                ![s].rx = IF active THEN rx ELSE NoNet]
  /\ UNCHANGED <<clock, busy, rx, received, active, last, report, overtaken>>

\* Under mu: the differences are taken and this sample becomes the last one.
SampleCommits(s) ==
  LET mine == sampler[s]
      span == IF mine.time > last.time THEN mine.time - last.time ELSE 0
  IN
  /\ mine.at = "commit"
  /\ sampler' = [sampler EXCEPT ![s] = NoReading]
  /\ report' = [cpu |-> IF last.busy + last.idle = 0 THEN 0 ELSE CpuPercent(last, mine),
                share |-> IF last.busy + last.idle = 0 THEN 0 ELSE BusyShare(last, mine),
                rate |-> IF span = 0 THEN 0 ELSE NetDelta(last, mine) \div span,
                span |-> span, since |-> last.time, from |-> last.rxTime]
  /\ last' = [time |-> mine.time, busy |-> mine.busy, idle |-> mine.idle,
              rx |-> IF mine.rx = NoNet THEN last.rx ELSE mine.rx,
              rxTime |-> IF mine.rx = NoNet THEN last.rxTime ELSE mine.time]
  /\ overtaken' = (overtaken \/ mine.busy + mine.idle < last.busy + last.idle)
  /\ UNCHANGED <<clock, busy, rx, received, active>>

MetricsInit ==
  /\ clock = 0 /\ busy = 0 /\ rx = 0
  /\ received = [t \in 0..MaxClock |-> 0]
  /\ active = TRUE
  /\ last = [time |-> 0, busy |-> 0, idle |-> 0, rx |-> NoNet, rxTime |-> 0]
  /\ sampler = [s \in Samplers |-> NoReading]
  /\ report = NoReport
  /\ overtaken = FALSE

MetricsNext ==
  \/ \E spent, bytes \in 0..1 : HostTick(spent, bytes)
  \/ LinkFlips
  \/ \E s \in Samplers : SampleBegins(s) \/ SampleReads(s) \/ SampleCommits(s)

MetricsSpec == MetricsInit /\ [][MetricsNext]_metricsVars

-----------------------------------------------------------------------------
Reading == [at : {"idle", "reading", "commit"}, time : 0..MaxClock, busy : 0..MaxClock,
            idle : 0..MaxClock, rx : 0..NoNet]

MetricsTypeOK ==
  /\ clock \in 0..MaxClock /\ busy \in 0..clock /\ rx \in 0..clock
  /\ received \in [0..MaxClock -> Nat]
  /\ active \in BOOLEAN /\ overtaken \in BOOLEAN
  /\ last \in [time : 0..MaxClock, busy : 0..MaxClock, idle : 0..MaxClock, rx : 0..NoNet,
              rxTime : 0..MaxClock]
  /\ sampler \in [Samplers -> Reading]
  /\ report \in [cpu : Nat, share : Nat, rate : Nat, span : Nat, since : 0..MaxClock,
                from : 0..MaxClock]

\* No reading reports more traffic than the host received since the sample its
\* counters are compared with: neither across an outage of the interface, nor
\* between samplers that overtake one another.
NoInventedTraffic ==
  report.rate * report.span <= received[clock] - received[report.from]

\* The rate is of the time it was divided by.  Not so after a sample that saw
\* no interface, which advances lastTime and keeps lastNet.
RateIsOfItsSpan ==
  report.rate * report.span <= received[clock] - received[report.since]

\* A reading of the CPU is the share of busy time between two samples.  Not so
\* for a sample that was overtaken: the unsigned differences make it 100 %.
CpuIsAShare == report.cpu = report.share

\* Samples that come in order are right.
CpuIsRightInOrder == ~overtaken => CpuIsAShare

\* The inductive invariant.  The host only ever receives more; a reading was made
\* after its sample began, so that its counter is not behind what had come by then;
\* and of two readings the one of the longer uptime is not behind in either part.
ReceivedRises ==
  /\ rx = received[clock]
  /\ \A i, j \in 0..clock : i <= j => received[i] <= received[j]

Ordered(a, b) == a.busy + a.idle <= b.busy + b.idle => a.busy <= b.busy /\ a.idle <= b.idle

IsPast(a) == a.busy <= busy /\ a.idle <= clock - busy

CounterIsOf(counter, time) == counter # NoNet => counter <= rx /\ counter >= received[time]

ReadingIsSound(s) ==
  LET mine == sampler[s] IN
  /\ mine.at # "idle" => mine.time <= clock
  /\ mine.at = "commit" =>
       /\ CounterIsOf(mine.rx, mine.time) /\ IsPast(mine)
       /\ Ordered(mine, last) /\ Ordered(last, mine)
       /\ \A other \in Samplers :
            sampler[other].at = "commit" => Ordered(mine, sampler[other])

LastIsSound ==
  /\ last.time <= clock /\ last.rxTime <= clock /\ report.from <= clock
  /\ CounterIsOf(last.rx, last.rxTime) /\ IsPast(last)

MetricsInv ==
  /\ MetricsTypeOK
  /\ NoInventedTraffic /\ CpuIsRightInOrder
  /\ ReceivedRises /\ LastIsSound
  /\ \A s \in Samplers : ReadingIsSound(s)
=============================================================================
