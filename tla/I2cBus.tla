-------------------------------- MODULE I2cBus --------------------------------
(***************************************************************************)
(* The bit-banged bus to the thermal sensor (src/src/thermal/i2c.rs): the  *)
(* master's line operations against a sensor that follows the lines.  The  *)
(* process may die between any two of them; the next one finds the sensor  *)
(* parked in the middle of a transfer.  A byte has Bits bits, and one      *)
(* register byte stands for the two the code sends.                        *)
(***************************************************************************)
EXTENDS Naturals, Sequences

CONSTANTS
  Bits,           \* bits of a byte: 8 in the code
  Sensor,         \* the sensor's address: a byte without its last bit
  Clocks,         \* recovery clocks: 32 in the code
  Count,          \* bytes of a block read
  MaxDeaths       \* bound: deaths of the process

\* The powers of two up to one byte.
Power[n \in 0..Bits] == IF n = 0 THEN 1 ELSE 2 * Power[n - 1]

ASSUME I2cAssumption ==
  /\ {Bits, Clocks, Count} \subseteq Nat \ {0} /\ MaxDeaths \in Nat
  /\ Sensor \in 0..Power[Bits - 1] - 1

Bytes == 0..Power[Bits] - 1
Addresses == {Sensor, (Sensor + 1) % Power[Bits - 1]}
\* The sensor's memory, from any register on, the same every time around.
Memory(r) == (r * r + r + 1) % Power[Bits]
BitOf(v, n) == (v \div Power[Bits - n]) % 2        \* bit n, the highest first

VARIABLES
  scl,            \* the clock line: the sensor never holds it
  pull,           \* what the master does to SDA: 0 low, 1 released
  hold,           \* what the sensor does to SDA, likewise
  script,         \* line operations the master has yet to do
  step,           \* and where it goes then
  seen,           \* the level its last read of SDA gave
  clocks,          \* recovery clocks used
  address,          \* the address it reads at: set_addr
  register, got,      \* the register it reads from; the bytes it has
  sensor,         \* the sensor: state, bits shifted, register pointer
  deaths

i2cVars == <<scl, pull, hold, script, step, seen, clocks, address, register, got,
             sensor, deaths>>

Parked == [st |-> "idle", n |-> 0, sh |-> 0, next |-> "idle", ptr |-> 0]

(* Type invariant; the sensor pulls SDA low only to acknowledge or to send.*)
I2cTypeOK ==
  /\ {scl, pull, hold, seen} \subseteq 0..1 /\ clocks \in 0..Clocks
  /\ script \in Seq({"D0", "D1", "C0", "C1", "R"}) /\ register \in Bytes /\ address \in Addresses
  /\ Len(got) <= Count /\ \A i \in 1..Len(got) : got[i] \in Bytes
  /\ sensor.st \in {"idle", "addr", "reg", "ack", "send", "mack"}
  /\ sensor.n \in 0..Bits /\ sensor.ptr \in Bytes
  /\ (hold = 0 => sensor.st \in {"ack", "send"})

-----------------------------------------------------------------------------
(* The sensor follows the lines: SCL from c to c2, SDA from d to d2.       *)

Sending(s) == [s EXCEPT !.st = "send", !.n = 1]

\* Sampling on the rising clock.
Rise(s, d) ==
  CASE s.st \in {"addr", "reg"} /\ s.n < Bits ->
         [s EXCEPT !.sh = (2 * @ + d) % Power[Bits], !.n = @ + 1]
    [] s.st = "mack" -> [s EXCEPT !.sh = d]
    [] OTHER -> s

\* Changing on the falling clock.
Fall(s) ==
  CASE s.st = "addr" /\ s.n = Bits ->
         IF s.sh \div 2 = Sensor
         THEN [s EXCEPT !.st = "ack", !.next = IF s.sh % 2 = 1 THEN "send" ELSE "reg"]
         ELSE Parked
    [] s.st = "reg" /\ s.n = Bits ->
         [s EXCEPT !.st = "ack", !.next = "reg", !.ptr = s.sh]
    [] s.st = "ack" ->
         IF s.next = "send" THEN Sending(s) ELSE [s EXCEPT !.st = s.next, !.n = 0, !.sh = 0]
    [] s.st = "send" -> IF s.n = Bits THEN [s EXCEPT !.st = "mack"] ELSE [s EXCEPT !.n = @ + 1]
    [] s.st = "mack" ->
         IF s.sh = 0 THEN Sending([s EXCEPT !.ptr = (@ + 1) % Power[Bits]]) ELSE Parked
    [] OTHER -> s

\* START and STOP are SDA changing while SCL is high.
Follows(s, c, c2, d, d2) ==
  CASE c = 1 /\ c2 = 1 /\ d = 1 /\ d2 = 0 -> [Parked EXCEPT !.st = "addr", !.ptr = s.ptr]
    [] c = 1 /\ c2 = 1 /\ d = 0 /\ d2 = 1 -> [Parked EXCEPT !.ptr = s.ptr]
    [] c = 0 /\ c2 = 1 -> Rise(s, d2)
    [] c = 1 /\ c2 = 0 -> Fall(s)
    [] OTHER -> s

Holds(s) == IF s.st = "ack" THEN 0
            ELSE IF s.st = "send" THEN BitOf(Memory(s.ptr), s.n) ELSE 1

Sda == IF pull = 1 /\ hold = 1 THEN 1 ELSE 0

-----------------------------------------------------------------------------
(* Line operations: D0 D1 drive or release SDA, C0 C1 SCL, R reads SDA.    *)

I2cStart == <<"D1", "C1", "D0", "C0">>                    \* also rstart
Stop == <<"D0", "C1", "D1">>
WriteBit(b) == <<IF b = 1 THEN "D1" ELSE "D0", "C1", "C0">>
ReadBit == <<"D1", "C1", "R", "C0">>
Ack == <<"D0", "C1", "C0", "D1">>
Nak == <<"D1", "C1", "C0">>

\* A step: what it is, the byte it is about, the bit it is at.
StepAt(what, byte, bit) == [what |-> what, byte |-> byte, bit |-> bit]
Opening == StepAt("open", 0, 0)
OpenScript == <<"D1", "C1", "R">>                      \* Gpio::new twice, rd

I2cInit ==
  /\ scl = 1 /\ pull = 1 /\ hold = 1 /\ script = OpenScript /\ step = Opening
  /\ seen = 1 /\ clocks = 0 /\ register \in Bytes /\ address \in Addresses /\ got = <<>> /\ sensor = Parked
  /\ deaths = 0

\* The next line operation.
Line ==
  /\ script # <<>> /\ script' = Tail(script)
  /\ LET op == Head(script)
         c == IF op = "C0" THEN 0 ELSE IF op = "C1" THEN 1 ELSE scl
         p == IF op = "D0" THEN 0 ELSE IF op = "D1" THEN 1 ELSE pull
         d == IF p = 1 /\ hold = 1 THEN 1 ELSE 0
         s == Follows(sensor, scl, c, Sda, d)
     IN /\ scl' = c /\ pull' = p /\ sensor' = s
        /\ hold' = Holds(s)
        /\ seen' = IF op = "R" THEN Sda ELSE seen
  /\ UNCHANGED <<step, clocks, address, register, got, deaths>>

Lines == <<scl, pull, hold, sensor, seen>>
Go(to, ops) == script = <<>> /\ step' = to /\ script' = ops /\ UNCHANGED <<Lines, deaths>>

\* BitBang::new finds SDA high, at once or after a recovery: read_block_at
\* starts.
OpenedHigh ==
  /\ step.what \in {"open", "check"} /\ seen = 1
  /\ Go(StepAt("addrW", 2 * address, 1), I2cStart)
  /\ clocks' = 0 /\ got' = <<>> /\ UNCHANGED <<address, register>>

\* Mutant: SDA low is not worth a clock.
RecoverClock_Never ==
  /\ step.what = "open" /\ seen = 0 /\ Go(StepAt("check", 0, 0), <<"R">>)
  /\ UNCHANGED <<clocks, address, register, got>>

\* recover_bus: one clock with SDA released
RecoverClock ==
  /\ \/ step.what = "open" /\ seen = 0
     \/ step.what = "recover" /\ seen = 0 /\ clocks < Clocks
  /\ clocks' = clocks + 1 /\ Go(StepAt("recover", 0, 0), <<"C0", "C1", "R">>)
  /\ UNCHANGED <<address, register, got>>

\* SDA came up: finish with a STOP.  Then, or out of clocks, new looks again.
RecoverEnds ==
  /\ step.what = "recover" /\ (seen = 1 \/ clocks = Clocks)
  /\ Go(StepAt("check", 0, 0),
        IF seen = 1 THEN <<"C0", "D0", "C1", "D1", "R">> ELSE <<"R">>)
  /\ UNCHANGED <<clocks, address, register, got>>

\* "SDA stuck low": the open fails, the next pass opens again.
CheckedLow ==
  /\ step.what = "check" /\ seen = 0 /\ Go(Opening, OpenScript)
  /\ clocks' = 0 /\ UNCHANGED <<address, register, got>>

\* send_byte: the bits of a byte, then the acknowledgement is read
SendBit ==
  /\ step.what \in {"addrW", "reg", "addrR"} /\ step.bit <= Bits
  /\ Go([step EXCEPT !.bit = @ + 1], WriteBit(BitOf(step.byte, step.bit)))
  /\ UNCHANGED <<clocks, address, register, got>>

ReadAck ==
  /\ step.what \in {"addrW", "reg", "addrR"} /\ step.bit = Bits + 1
  /\ Go([step EXCEPT !.bit = @ + 1], ReadBit) /\ UNCHANGED <<clocks, address, register, got>>

\* Mutant: no repeated START before the read address.
Acked_NoRestart ==
  /\ step.bit = Bits + 2 /\ seen = 0
  /\ \/ step.what = "addrW" /\ Go(StepAt("reg", register, 1), <<>>)
     \/ step.what = "reg" /\ Go(StepAt("addrR", 2 * address + 1, 1), <<>>)
     \/ step.what = "addrR" /\ Go(StepAt("data", 0, 0), ReadBit)
  /\ UNCHANGED <<clocks, address, register, got>>

\* read_block_at goes on with the next byte ...
Acked ==
  /\ step.bit = Bits + 2 /\ seen = 0
  /\ \/ step.what = "addrW" /\ Go(StepAt("reg", register, 1), <<>>)
     \/ step.what = "reg" /\ Go(StepAt("addrR", 2 * address + 1, 1), I2cStart)
     \/ step.what = "addrR" /\ Go(StepAt("data", 0, 0), ReadBit)
  /\ UNCHANGED <<clocks, address, register, got>>

\* ... or stops: the read fails; the sweep asks at the next address.
Naked ==
  /\ step.what \in {"addrW", "reg", "addrR"} /\ step.bit = Bits + 2 /\ seen = 1
  /\ Go(Opening, Stop \o OpenScript) /\ address' \in Addresses \ {address}
  /\ UNCHANGED <<clocks, register, got>>

\* A data bit is in; after the last one the byte is kept and acknowledged,
\* the last byte is not.
DataBit ==
  /\ step.what = "data" /\ step.bit < Bits
  /\ LET byte == 2 * step.byte + seen IN
       IF step.bit + 1 < Bits
       THEN /\ Go(StepAt("data", byte, step.bit + 1), ReadBit) /\ UNCHANGED got
       ELSE /\ got' = Append(got, byte)
            /\ IF Len(got) + 1 < Count
               THEN Go(StepAt("data", 0, 0), Ack \o ReadBit)
               ELSE Go(StepAt("done", 0, 0), Nak \o Stop)
  /\ UNCHANGED <<clocks, address, register>>

\* The bus is dropped and the next pass reads another register.
NextRead ==
  /\ step.what = "done" /\ Go(Opening, OpenScript)
  /\ register' \in Bytes /\ address' \in Addresses /\ clocks' = 0 /\ UNCHANGED got

\* The process dies; its lines stay as they are until the next opens them.
Die ==
  /\ deaths < MaxDeaths /\ deaths' = deaths + 1
  /\ script' = OpenScript /\ step' = Opening /\ clocks' = 0
  /\ UNCHANGED <<Lines, address, register, got>>

Master ==
  \/ Line \/ OpenedHigh \/ RecoverClock \/ RecoverEnds \/ CheckedLow
  \/ SendBit \/ ReadAck \/ Acked \/ Naked \/ DataBit \/ NextRead

I2cNext == Master \/ Die

\* The poll loop opens the bus again after every failed pass.
I2cFairness == WF_i2cVars(Master)
I2cSpec == I2cInit /\ [][I2cNext]_i2cVars /\ I2cFairness

-----------------------------------------------------------------------------
(* Properties                                                              *)

(* A block read that reports success has the sensor's bytes from the       *)
(* register asked for, wherever in a transfer an earlier process died; a   *)
(* sensor is found at its address and at no other.                         *)
ReadsRight ==
  /\ step.what = "done" => got = [i \in 1..Count |-> Memory((register + i - 1) % Power[Bits])]
  /\ step.bit = Bits + 2 /\ step.what # "data" /\ script = <<>> => (seen = 0 <=> address = Sensor)

(* Whatever state a dead process left the sensor in, reads succeed again.  *)
BusRecovers == []<>(step.what = "done")

=============================================================================
