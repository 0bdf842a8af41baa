------------------------------ MODULE MseClock ------------------------------
(***************************************************************************)
(* The fMP4 media clock shared by all MSE connections: MSE_FLOOR_TICKS and *)
(* MseTimeline in src/src/web/video_stream.rs (90 kHz ticks).  Connections *)
(* overlap freely; each has a timeline of its own and hands the floor to   *)
(* the next one.                                                           *)
(***************************************************************************)
EXTENDS Integers, FiniteSets

CONSTANTS
  Conn,        \* connections, each with one timeline
  Elapsed,     \* wall-clock intervals between frames, in ticks
  MaxFrames    \* bound: frames stamped per connection

ASSUME ConnAssumption == IsFiniteSet(Conn)
ASSUME ElapsedAssumption == Elapsed \subseteq Nat
ASSUME MaxFramesAssumption == MaxFrames \in Nat

VARIABLES
  floor,       \* MSE_FLOOR_TICKS
  open,        \* connections whose generator built its MseTimeline
  clock,       \* clock[c]: MseTimeline.clock
  frames,      \* frames[c]: frames stamped (0: prev is None)
  emitted,     \* highest timestamp emitted by anybody (history)
  inherited    \* inherited[c]: emitted when c was seeded (history)

clockVars == <<floor, open, clock, frames, emitted, inherited>>

(* Type invariant: no tick count is negative.                              *)
ClockTypeOK ==
  /\ floor \in Nat /\ emitted \in Nat
  /\ open \subseteq Conn
  /\ clock \in [Conn -> Nat]
  /\ frames \in [Conn -> 0..MaxFrames]
  /\ inherited \in [Conn -> Nat]

ClockInit ==
  /\ floor = 0 /\ emitted = 0 /\ open = {}
  /\ clock = [c \in Conn |-> 0]
  /\ frames = [c \in Conn |-> 0]
  /\ inherited = [c \in Conn |-> 0]

\* MseTimeline::new with seed_mse_clock
Seed(c) ==
  /\ c \notin open /\ open' = open \cup {c}
  /\ floor' = floor + 90
  /\ clock' = [clock EXCEPT ![c] = floor']
  /\ inherited' = [inherited EXCEPT ![c] = emitted]
  /\ UNCHANGED <<frames, emitted>>

\* us.clamp(90, 18_000), 6_000 for the first frame
Ticks(c, e) == IF frames[c] = 0 THEN 6000
               ELSE IF e < 90 THEN 90 ELSE IF e > 18000 THEN 18000 ELSE e

\* Mutant: the floor is overwritten, not raised.
Raised_Stores(ticks) == ticks

\* publish_mse_clock
Raised(ticks) == IF ticks > floor THEN ticks ELSE floor

\* MseTimeline::next; nobody sees the timestamp before it is published.
Stamp(c, e) ==
  /\ c \in open /\ frames[c] < MaxFrames
  /\ LET t == Ticks(c, e) IN
       /\ clock' = [clock EXCEPT ![c] = @ + t]
       /\ floor' = Raised(clock[c] + t)
       /\ emitted' = IF clock[c] + t > emitted THEN clock[c] + t ELSE emitted
  /\ frames' = [frames EXCEPT ![c] = @ + 1]
  /\ UNCHANGED <<open, inherited>>

ClockNext == \E c \in Conn : Seed(c) \/ \E e \in Elapsed : Stamp(c, e)

ClockSpec == ClockInit /\ [][ClockNext]_clockVars

(* The seamless-reconnect contract: every timestamp of a connection lies   *)
(* strictly past every timestamp any connection had emitted when this one  *)
(* was seeded, whatever other connections have done in between.            *)
Handoff == \A c \in Conn : frames[c] > 0 => clock[c] > inherited[c]
=============================================================================
