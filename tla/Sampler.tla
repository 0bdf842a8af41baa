------------------------------- MODULE Sampler -------------------------------
(***************************************************************************)
(* The resource sampler of web/observe.rs: every two seconds it reads the  *)
(* counters of /proc, turns the difference to the reading before into      *)
(* rates, and publishes the result to /api/metrics/summary and the         *)
(* Prometheus gauges.  The machine underneath goes on counting; a reading  *)
(* may fail, and the wall clock may be set.                                *)
(***************************************************************************)
EXTENDS Integers

CONSTANTS
  Work,          \* what may happen between two passes: ticks and bytes
  Steps,         \* what a pass of the wall clock may come to, in milliseconds
  MaxPasses      \* bound: passes of the sampler

Wrap == 2 ^ 16          \* stands for the 2^64 of the counters

\* Counters count up, and by less than a wrap between two passes.
ASSUME SamplerAssumption ==
  /\ Work \subseteq [user : 0 .. Wrap - 1, idle : Nat, iowait : Nat, lo : Nat,
                     eth : Nat, own : Nat]
  /\ Steps \subseteq Int /\ MaxPasses \in Nat

VARIABLES box, prevSample, shot, gauges, passes, before

samplerVars == <<box, prevSample, shot, gauges, passes, before>>

(***************************************************************************)
(* The kernel's side: what /proc/stat, /proc/self/stat, /proc/net/dev and  *)
(* /proc/meminfo would say.  The loopback interface is listed with the     *)
(* others.                                                                 *)
(***************************************************************************)
Idle(p) == p.idle + p.iowait
AllTicks(p) == p.user + p.idle + p.iowait

NoCounters == [user |-> 0, idle |-> 0, iowait |-> 0, lo |-> 0, eth |-> 0,
               own |-> 0]

Counted(p, w) == [user |-> p.user + w.user, idle |-> p.idle + w.idle,
                  iowait |-> p.iowait + w.iowait, lo |-> p.lo + w.lo,
                  eth |-> p.eth + w.eth, own |-> p.own + w.own]

(***************************************************************************)
(* read_sample: every file is read on its own, and one that cannot be read *)
(* counts as zero.                                                         *)
(***************************************************************************)
ParseCpuStat(p) == [idle |-> Idle(p), total |-> AllTicks(p)]

\* as the time waiting for a disk taken for work
ParseCpuStat_BusyWait(p) == [idle |-> p.idle, total |-> AllTicks(p)]

ParseNetDev(p) == p.eth

ReadSample(m, readable) ==
  [ts    |-> m.ts,
   cpu   |-> IF "stat" \in readable THEN ParseCpuStat(m.proc)
             ELSE [idle |-> 0, total |-> 0],
   ticks |-> IF "self" \in readable THEN m.proc.own ELSE 0,
   net   |-> IF "net" \in readable THEN ParseNetDev(m.proc) ELSE 0]

NeverRead == [ts |-> -1, cpu |-> [idle |-> 0, total |-> 0], ticks |-> 0,
              net |-> 0]

(***************************************************************************)
(* record_sample.  The difference of all ticks and idle ticks is computed  *)
(* without a check and wraps; the clamp makes a percentage of it.  Rates   *)
(* are kept as quotients of bytes (or ticks) and milliseconds.             *)
(***************************************************************************)
SaturatingSub(a, b) == IF a >= b THEN a - b ELSE 0

Percent(x) == IF x > 100 THEN 100 ELSE x

CpuPercentBetween(b, n) ==
  LET dTotal == SaturatingSub(n.total, b.total)
      dIdle  == SaturatingSub(n.idle, b.idle)
  IN IF dTotal = 0 THEN 0
     ELSE Percent((((dTotal - dIdle) % Wrap) * 100) \div dTotal)

Elapsed(b, n) ==
  IF SaturatingSub(n.ts, b.ts) >= 1 THEN SaturatingSub(n.ts, b.ts) ELSE 1

\* as the interval without its floor of a millisecond
Elapsed_Bare(b, n) == SaturatingSub(n.ts, b.ts)

Rendered(b, n) ==
  IF b = NeverRead
    THEN [shot EXCEPT !.ms = 0, !.net = n.net]
    ELSE [ms   |-> Elapsed(b, n),
          cpu  |-> CpuPercentBetween(b.cpu, n.cpu),
          own  |-> SaturatingSub(n.ticks, b.ticks),
          rx   |-> SaturatingSub(n.net, b.net),
          net  |-> n.net]

\* as the first reading kept as the one every later reading is compared with
Kept_First(b, n) == IF b = NeverRead THEN n ELSE b

Kept(b, n) == n

(***************************************************************************)
(* A pass: the machine worked, the clock went on or was set back, the      *)
(* reading is recorded, and the gauges take what was rendered.  A counter  *)
(* published absolutely never goes back.                                   *)
(***************************************************************************)
Pass ==
  /\ passes < MaxPasses /\ passes' = passes + 1
  /\ \E w \in Work, dt \in Steps,
        readable \in {{"stat", "self", "net"}, {"stat", "self"}, {}} :
       LET m   == [ts |-> IF box.ts + dt < 0 THEN 0 ELSE box.ts + dt,
                   proc |-> Counted(box.proc, w)]
           now == ReadSample(m, readable)
       IN /\ box' = m
          /\ prevSample' = Kept(prevSample, now)
          /\ shot' = Rendered(prevSample, now)
          /\ gauges' = [cpu |-> shot'.cpu,
                        net |-> IF shot'.net > gauges.net THEN shot'.net
                                ELSE gauges.net]
          /\ before' = [at |-> box, all |-> before.full,
                        full |-> readable = {"stat", "self", "net"}]

SamplerInit ==
  /\ box = [ts |-> 0, proc |-> NoCounters]
  /\ prevSample = NeverRead
  /\ shot = [ms |-> 0, cpu |-> 0, own |-> 0, rx |-> 0, net |-> 0]
  /\ gauges = [cpu |-> 0, net |-> 0]
  /\ passes = 0
  /\ before = [at |-> box, all |-> FALSE, full |-> FALSE]

SamplerNext == Pass

SamplerSpec == SamplerInit /\ [][SamplerNext]_samplerVars

-----------------------------------------------------------------------------
SamplerTypeOK ==
  /\ passes \in 0 .. MaxPasses /\ gauges.cpu \in 0 .. 100
  /\ prevSample.ts >= -1 /\ shot.cpu \in 0 .. 100

\* When two readings in a row were whole, the summary says what happened
\* between exactly these two: the share of the ticks that were neither idle
\* nor waiting, the bytes that left loopback out, over the time the clock
\* showed.  And whatever happens - a clock set back, a reading that fails, a
\* counter that starts over - no rate is a quotient by nothing.
RatesTellTheMachine ==
  /\ passes > 1 => shot.ms >= 1
  /\ (passes > 1 /\ before.all /\ before.full) =>
       LET p == before.at.proc  n == box.proc
           all == AllTicks(n) - AllTicks(p)
       IN /\ shot.rx = n.eth - p.eth /\ shot.own = n.own - p.own
          /\ shot.cpu = IF all = 0 THEN 0
                        ELSE ((n.user - p.user) * 100) \div all
          /\ box.ts > before.at.ts =>
               shot.ms = box.ts - before.at.ts
=============================================================================
