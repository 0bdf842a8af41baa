-------------------------------- MODULE Thermal --------------------------------
(***************************************************************************)
(* The thermal side sensor (src/src/thermal/mod.rs, scan.rs,               *)
(* src/src/web/thermal_api.rs): the poll loop with its cached calibration  *)
(* block, the live target the web interface sets, the discovery sweep that *)
(* competes for the pins, and the overlay file a restart reads back.       *)
(*                                                                         *)
(* Sensors answer at addresses on one pair of pins.  The pins belong to    *)
(* the board's TWI controller until something unbinds it; then only        *)
(* bit-banging reaches them.  A sensor is named by the address it was      *)
(* first mounted at.  Temperatures are abstracted to two facts: the sensor *)
(* a frame was read from and the sensor whose calibration was applied.     *)
(***************************************************************************)
EXTENDS Naturals, FiniteSets

CONSTANTS
  Addr,           \* addresses in use (numbers), hence the sensors
  Buses,          \* bus settings a PUT may ask for: "twi", "gpio", "auto"
  PutReq,         \* PUT /api/hardware/config requests, each used once
  Remount,        \* whether a sensor may be mounted at another's address
  MaxMoves,       \* bound: sensors unplugged or plugged
  MaxScans,       \* bound: scans posted
  MaxBoots        \* bound: restarts of the process

ASSUME ThermalAssumption ==
  /\ Addr \subseteq Nat \ {0} /\ Addr # {} /\ Buses \subseteq {"twi", "gpio", "auto"}
  /\ MaxScans \in Nat /\ Remount \in BOOLEAN

Nobody == 0                          \* no sensor, no calibration
Target == [bus : Buses \cup {"twi"}, addr : Addr]

VARIABLES
  plugged,        \* plugged[a]: the sensor answering at address a
  twiBound,       \* the TWI driver holds the pins
  target,         \* HardwareCtl.target
  overlay,        \* thermal-hardware.toml, which starts as the configuration
  passLock,       \* who holds HardwareCtl.pass: "free" | "poll" | "scan"
  poll,           \* poll_loop: where it is, target, last_target, eeprom,
                  \* and the sensor open_bus addresses
  reading,        \* ReadingState: trusted, sensor read, calibration used;
                  \* over: the bus asked for (history)
  scan,           \* ScanState: running, hits, and where the sweep is
  posted,         \* sweep threads spawned and not yet begun
  put,            \* put[p]: what the request asks and where it is
  moves, scans, boots

thermalVars == <<plugged, twiBound, target, overlay, passLock, poll, reading,
                 scan, posted, put, moves, scans, boots>>

Boot == [bus |-> "twi", addr |-> CHOOSE a \in Addr : \A b \in Addr : a <= b]
Warmup == [trusted |-> FALSE, from |-> Nobody, cal |-> Nobody, over |-> "twi"]
Rest(t) == [at |-> "sleep", target |-> t, last |-> t, eeprom |-> Nobody, spot |-> Nobody]
NoScan == [at |-> "off", running |-> FALSE, hits |-> {}]

(* Type invariant; the pass lock is held exactly by a pass or a sweep in   *)
(* progress.                                                               *)
ThermalTypeOK ==
  /\ plugged \in [Addr -> Addr \cup {Nobody}] /\ twiBound \in BOOLEAN
  /\ target \in Target /\ overlay \in Target
  /\ passLock = IF poll.at \in {"open", "read"} THEN "poll"
                ELSE IF scan.at = "sweep" THEN "scan" ELSE "free"
  /\ poll.at \in {"sleep", "open", "read"} /\ {poll.target, poll.last} \subseteq Target
  /\ {poll.eeprom, poll.spot, reading.from, reading.cal} \subseteq Addr \cup {Nobody}
  /\ scan.at \in {"off", "wait", "sweep"} /\ (scan.running <=> scan.at # "off")
  /\ posted \in 0..MaxScans /\ put \in [PutReq -> {"none", "applied", "done"} \X Target]

ThermalInit ==
  /\ plugged = [a \in Addr |-> a] /\ twiBound = TRUE
  /\ target = Boot /\ overlay = Boot /\ passLock = "free"
  /\ poll = Rest(Boot) /\ reading = Warmup /\ scan = NoScan /\ posted = 0
  /\ put = [p \in PutReq |-> <<"none", Boot>>] /\ moves = 0 /\ scans = 0 /\ boots = 0

-----------------------------------------------------------------------------
(* poll_loop                                                               *)

\* Mutant: the calibration block survives a new target.
TakePass_KeepsEeprom ==
  /\ poll.at = "sleep" /\ passLock = "free" /\ passLock' = "poll"
  /\ poll' = [poll EXCEPT !.at = "open", !.target = target, !.last = target]
  /\ UNCHANGED <<plugged, twiBound, target, overlay, reading, scan, posted, put,
                 moves, scans, boots>>

\* Mutant: the loop goes on with the target it was started with.
TakePass_BootTarget ==
  /\ poll.at = "sleep" /\ passLock = "free" /\ passLock' = "poll"
  /\ poll' = [poll EXCEPT !.at = "open"]
  /\ UNCHANGED <<plugged, twiBound, target, overlay, reading, scan, posted, put,
                 moves, scans, boots>>

\* try_lock succeeds; the target is read once, for the whole pass.
TakePass ==
  /\ poll.at = "sleep" /\ passLock = "free" /\ passLock' = "poll"
  /\ poll' = [poll EXCEPT !.at = "open", !.target = target, !.last = target,
                          !.eeprom = IF target # poll.last THEN Nobody ELSE @]
  /\ UNCHANGED <<plugged, twiBound, target, overlay, reading, scan, posted, put,
                 moves, scans, boots>>

\* Addresses that answer an identity read over the pins.
Answering == {a \in Addr : plugged[a] # Nobody}
First(S) == CHOOSE a \in S : \A b \in S : a <= b

\* open_bus: TWI needs its driver, bit-banging takes the pins from it, and
\* auto-detection tries TWI before it does.
OpenBus ==
  /\ poll.at = "open"
  /\ \/ /\ poll.target.bus = "twi" /\ twiBound
        /\ poll' = [poll EXCEPT !.at = "read", !.spot = poll.target.addr]
        /\ UNCHANGED twiBound
     \/ /\ poll.target.bus = "gpio" /\ twiBound' = FALSE
        /\ poll' = [poll EXCEPT !.at = "read", !.spot = poll.target.addr]
     \/ /\ poll.target.bus = "auto" /\ Answering # {}
        /\ poll' = [poll EXCEPT !.at = "read", !.spot = First(Answering)]
        /\ UNCHANGED twiBound
  /\ UNCHANGED <<plugged, target, overlay, passLock, reading, scan, posted, put,
                 moves, scans, boots>>

\* A failed pass: the reading is no longer trusted, the last one stays.
Lost ==
  /\ reading' = [reading EXCEPT !.trusted = FALSE]
  /\ passLock' = "free"

OpenFails ==
  /\ poll.at = "open"
  /\ \/ poll.target.bus = "twi" /\ ~twiBound /\ UNCHANGED twiBound
     \/ poll.target.bus = "auto" /\ Answering = {} /\ twiBound' = FALSE
  /\ Lost /\ poll' = [poll EXCEPT !.at = "sleep"]
  /\ UNCHANGED <<plugged, target, overlay, scan, posted, put, moves, scans, boots>>

\* EEPROM, auxiliary words and frame; the block is read once and kept.
ReadSensor ==
  /\ poll.at = "read" /\ plugged[poll.spot] # Nobody
  /\ LET cal == IF poll.eeprom # Nobody THEN poll.eeprom ELSE plugged[poll.spot]
     IN /\ poll' = [poll EXCEPT !.at = "sleep", !.eeprom = cal]
        /\ reading' = [trusted |-> TRUE, from |-> plugged[poll.spot], cal |-> cal,
                       over |-> poll.target.bus]
  /\ passLock' = "free"
  /\ UNCHANGED <<plugged, twiBound, target, overlay, scan, posted, put, moves, scans, boots>>

\* Nothing answers; the EEPROM may have been read before it stopped to.
ReadFails ==
  /\ poll.at = "read" /\ plugged[poll.spot] = Nobody
  /\ Lost /\ poll' = [poll EXCEPT !.at = "sleep"]
  /\ UNCHANGED <<plugged, twiBound, target, overlay, scan, posted, put, moves, scans, boots>>

-----------------------------------------------------------------------------
(* Discovery sweep                                                         *)

\* hardware_scan_post: the check, then a thread
PostScan ==
  /\ scans < MaxScans /\ ~scan.running /\ posted' = posted + 1 /\ scans' = scans + 1
  /\ UNCHANGED <<plugged, twiBound, target, overlay, passLock, poll, reading, scan,
                 put, moves, boots>>

\* run_scan, under the scan lock: refused while another runs
BeginScan ==
  /\ posted > 0 /\ posted' = posted - 1
  /\ scan' = IF scan.running THEN scan ELSE [at |-> "wait", running |-> TRUE, hits |-> {}]
  /\ UNCHANGED <<plugged, twiBound, target, overlay, passLock, poll, reading, put,
                 moves, scans, boots>>

SweepStarts ==
  /\ scan.at = "wait" /\ passLock = "free"
  /\ passLock' = "scan" /\ scan' = [scan EXCEPT !.at = "sweep"]
  /\ UNCHANGED <<plugged, twiBound, target, overlay, poll, reading, posted, put,
                 moves, scans, boots>>

\* 90 s without the bus
SweepGivesUp ==
  /\ scan.at = "wait" /\ passLock = "poll" /\ scan' = NoScan
  /\ UNCHANGED <<plugged, twiBound, target, overlay, passLock, poll, reading, posted,
                 put, moves, scans, boots>>

\* scan_twi, then the pin pairs only if it found nothing
Sweep ==
  /\ scan.at = "sweep" /\ passLock' = "free"
  /\ scan' = [NoScan EXCEPT !.hits = Answering]
  /\ twiBound' = (twiBound /\ Answering # {})
  /\ UNCHANGED <<plugged, target, overlay, poll, reading, posted, put, moves, scans, boots>>

-----------------------------------------------------------------------------
(* PUT /api/hardware/config, the mounting, restarts                        *)

PutTarget(p) ==
  /\ put[p][1] = "none"
  /\ \E b \in Buses, a \in Addr :
       /\ target' = [bus |-> b, addr |-> a]
       /\ put' = [put EXCEPT ![p] = <<"applied", target'>>]
  /\ UNCHANGED <<plugged, twiBound, overlay, passLock, poll, reading, scan, posted,
                 moves, scans, boots>>

\* Best-effort persistence; the write may fail.
PutOverlay(p) ==
  /\ put[p][1] = "applied" /\ put' = [put EXCEPT ![p][1] = "done"]
  /\ overlay' \in {overlay, put[p][2]}
  /\ UNCHANGED <<plugged, twiBound, target, passLock, poll, reading, scan, posted,
                 moves, scans, boots>>

Unplug(a) ==
  /\ moves < MaxMoves /\ moves' = moves + 1
  /\ plugged[a] # Nobody /\ plugged' = [plugged EXCEPT ![a] = Nobody]
  /\ UNCHANGED <<twiBound, target, overlay, passLock, poll, reading, scan, posted,
                 put, scans, boots>>

Plug(a, s) ==
  /\ moves < MaxMoves /\ moves' = moves + 1
  /\ plugged[a] = Nobody /\ \A b \in Addr : plugged[b] # s
  /\ s # a => Remount /\ poll.at = "sleep"      \* a swap outlasts a pass
  /\ plugged' = [plugged EXCEPT ![a] = s]
  /\ UNCHANGED <<twiBound, target, overlay, passLock, poll, reading, scan, posted,
                 put, scans, boots>>

\* The process ends anywhere and comes back with what the overlay says; the
\* driver stays as it is, requests under way are lost.
ThermalRestart ==
  /\ boots < MaxBoots /\ boots' = boots + 1
  /\ target' = overlay /\ poll' = Rest(overlay) /\ reading' = Warmup
  /\ scan' = NoScan /\ posted' = 0 /\ passLock' = "free"
  /\ put' = [p \in PutReq |-> IF put[p][1] = "applied" THEN <<"done", put[p][2]>> ELSE put[p]]
  /\ UNCHANGED <<plugged, twiBound, overlay, moves, scans>>

PollStep == TakePass \/ OpenBus \/ OpenFails \/ ReadSensor \/ ReadFails
ScanStep == BeginScan \/ SweepStarts \/ Sweep

ThermalNext ==
  \/ PollStep \/ ScanStep \/ PostScan \/ SweepGivesUp \/ ThermalRestart
  \/ \E p \in PutReq : PutTarget(p) \/ PutOverlay(p)
  \/ \E a \in Addr : Unplug(a) \/ \E s \in Addr : Plug(a, s)

(* Each thread keeps running; the poll loop sleeps at least a second       *)
(* without the lock after every pass and a waiting sweep tries it every    *)
(* 150 ms, so the sweep gets it (strong fairness); a sweep in turn ends,   *)
(* and only MaxScans are posted.                                           *)
ThermalFairness ==
  /\ WF_thermalVars(PollStep) /\ WF_thermalVars(BeginScan)
  /\ SF_thermalVars(SweepStarts) /\ WF_thermalVars(Sweep)

ThermalSpec == ThermalInit /\ [][ThermalNext]_thermalVars /\ ThermalFairness

-----------------------------------------------------------------------------
(* Properties                                                              *)

(* A trusted temperature was computed with the calibration of the very     *)
(* sensor the frame came from, through retargeting, scans and restarts,    *)
(* while the bus is named and a swapped sensor comes with a new target.    *)
(* The documentation of PUT /api/hardware/config says without these two    *)
(* conditions that "a swapped module re-reads its EEPROM".                 *)
CalibrationFits ==
  reading.trusted /\ reading.over # "auto" /\ ~Remount
    => reading.from = reading.cal

\* The sensor the live target reaches, if any.
Reached ==
  CASE target.bus = "twi" -> IF twiBound THEN plugged[target.addr] ELSE Nobody
    [] target.bus = "gpio" -> plugged[target.addr]
    [] OTHER -> IF Answering = {} THEN Nobody ELSE plugged[First(Answering)]

(* A sensor that stays within reach is read again, whatever failed, was    *)
(* scanned, unplugged or retargeted before; a reading of a sensor that     *)
(* stays away is not trusted for ever.                                     *)
SensorComesBack ==
  /\ <>[](Reached # Nobody) => <>[](reading.trusted)
  /\ <>[](Reached = Nobody) => <>[](~reading.trusted)
=============================================================================
