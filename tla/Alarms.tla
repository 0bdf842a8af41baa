-------------------------------- MODULE Alarms --------------------------------
(***************************************************************************)
(* The two alarm sources.  AlarmBridge (src/src/gb28181_alarm.rs) turns    *)
(* detection batches into alarms on the rising edge, behind the platform's *)
(* switch and a cooldown; its sinks (NOTIFY, SSE, ONVIF) take what it      *)
(* accepts and change no state of the program.  TempAlarmEngine            *)
(* (src/src/thermal/alarm.rs) turns the thermal sensor's hottest pixel     *)
(* into one.  Both read the wall clock, which may be set back.             *)
(***************************************************************************)
EXTENDS Integers

CONSTANTS
  Cooldown,       \* the bridge's cooldown, in ticks
  TempCooldown, Sustain,
  MaxBack,        \* bound: a clock reading is at most this far behind
  MaxSteps        \* bound: clock steps back

ASSUME AlarmAssumption == {Cooldown, TempCooldown, Sustain, MaxBack, MaxSteps} \subseteq Nat

VARIABLES
  prevTarget,     \* AlarmBridge.prev_target
  motionReporting,\* AlarmBridge.motion_reporting
  sentAgo,        \* now - last_sent_ms, up to Cooldown (Cooldown: never, too)
  state,          \* TempAlarmEngine.state: "idle" | "sustaining" | "active"
  since,          \* now - since_ms while sustaining, up to Sustain, else 0
  firedAgo,       \* now - last_fired_ms, up to TempCooldown (or never)
  picture,        \* the hottest pixel: "cool" | "band" | "hot"; "none": untrusted
  raised,         \* flips with every edge accepted (history)
  stepsBack

alarmVars == <<prevTarget, motionReporting, sentAgo, raised, state, since, firedAgo,
               picture, stepsBack>>
bridgeVars == <<prevTarget, motionReporting, sentAgo, raised>>
engineVars == <<state, since, firedAgo>>

(* Type invariant: every lapse is within its bounds, and a lapse of the    *)
(* sustain window is kept only while the engine is sustaining.             *)
AlarmTypeOK ==
  /\ prevTarget \in BOOLEAN /\ motionReporting \in BOOLEAN
  /\ sentAgo \in -MaxBack..Cooldown /\ firedAgo \in -MaxBack..TempCooldown
  /\ since \in -MaxBack..Sustain /\ (state # "sustaining" => since = 0)
  /\ state \in {"idle", "sustaining", "active"}
  /\ picture \in {"cool", "band", "hot", "none"} /\ stepsBack \in 0..MaxSteps
  /\ raised \in BOOLEAN

AlarmInit ==
  /\ prevTarget = FALSE /\ motionReporting \in BOOLEAN /\ sentAgo = Cooldown
  /\ state = "idle" /\ since = 0 /\ firedAgo = TempCooldown
  /\ picture = "none"
  /\ stepsBack = 0 /\ raised = FALSE

Upto(n, cap) == IF n > cap THEN cap ELSE n

-----------------------------------------------------------------------------
(* AlarmBridge                                                             *)

Rising(target) == target /\ ~prevTarget

\* on_detections, take_edge: the edge is accepted and booked
Accept ==
  /\ Rising(TRUE) /\ motionReporting /\ sentAgo >= Cooldown
  /\ prevTarget' = TRUE /\ sentAgo' = 0 /\ raised' = ~raised
  /\ UNCHANGED <<motionReporting, engineVars, picture, stepsBack>>

\* Mutant: an edge refused in the cooldown starts it again.
Ignore_Rebooks(target) ==
  /\ ~(Rising(target) /\ motionReporting /\ sentAgo >= Cooldown)
  /\ prevTarget' = target
  /\ sentAgo' = IF Rising(target) /\ motionReporting THEN 0 ELSE sentAgo
  /\ UNCHANGED <<motionReporting, raised, engineVars, picture, stepsBack>>

\* take_edge refuses: no edge, the switch is off, or too soon.  The swap of
\* prev_target comes first, so a refused edge is spent.
Ignore(target) ==
  /\ ~(Rising(target) /\ motionReporting /\ sentAgo >= Cooldown)
  /\ prevTarget' = target
  /\ UNCHANGED <<motionReporting, sentAgo, raised, engineVars, picture, stepsBack>>

\* DeviceConfigGlue::on_alarm_report
AlarmReport(on) ==
  /\ motionReporting' = on
  /\ UNCHANGED <<prevTarget, sentAgo, raised, engineVars, picture, stepsBack>>

-----------------------------------------------------------------------------
(* TempAlarmEngine, fed once a second with a trusted reading               *)

Read(newState, newSince) ==
  /\ picture # "none" /\ state' = newState /\ since' = newSince
  /\ UNCHANGED <<bridgeVars, picture, stepsBack>>
Unfired == UNCHANGED firedAgo

Crosses ==
  /\ state = "idle" /\ picture = "hot" /\ Read("sustaining", 0) /\ Unfired

\* Below the clear line, which is lower than the threshold.
Clears == state # "idle" /\ picture = "cool" /\ Read("idle", 0) /\ Unfired

\* In the band between the lines, or hot but too early to fire: no change.
StateHolds ==
  /\ picture = "band" \/ (picture = "hot" /\ state # "idle")
  /\ ~(state = "sustaining" /\ picture = "hot" /\ since >= Sustain /\ firedAgo >= TempCooldown)
  /\ Read(state, since) /\ Unfired

\* Mutant: a fire refused in the cooldown is booked as one.
Fires_BooksRefused ==
  /\ state = "sustaining" /\ picture = "hot" /\ since >= Sustain
  /\ firedAgo' = 0
  /\ IF firedAgo >= TempCooldown THEN Read("active", 0) ELSE Read(state, since)

Fires ==
  /\ state = "sustaining" /\ picture = "hot" /\ since >= Sustain
  /\ firedAgo >= TempCooldown /\ firedAgo' = 0 /\ Read("active", 0)

Evaluate == Crosses \/ Clears \/ Fires

-----------------------------------------------------------------------------
(* The scene and the clock                                                 *)

Scene(p) ==
  /\ picture' = p /\ UNCHANGED <<bridgeVars, engineVars, stepsBack>>

Tick ==
  /\ sentAgo' = Upto(sentAgo + 1, Cooldown)
  /\ firedAgo' = Upto(firedAgo + 1, TempCooldown)
  /\ since' = IF state = "sustaining" THEN Upto(since + 1, Sustain) ELSE 0
  /\ UNCHANGED <<prevTarget, motionReporting, raised, state, picture, stepsBack>>

\* The wall clock is set back by one; the lapse of an alarm never raised is
\* not one and stays.
StepBack ==
  /\ stepsBack < MaxSteps /\ stepsBack' = stepsBack + 1
  /\ sentAgo > -MaxBack /\ firedAgo > -MaxBack /\ since > -MaxBack
  /\ sentAgo' \in {sentAgo - 1} \cup (IF sentAgo = Cooldown THEN {Cooldown} ELSE {})
  /\ firedAgo' \in {firedAgo - 1} \cup (IF firedAgo = TempCooldown THEN {TempCooldown} ELSE {})
  /\ since' = IF state = "sustaining" THEN since - 1 ELSE 0
  /\ UNCHANGED <<prevTarget, motionReporting, raised, state, picture>>

AlarmNext ==
  \/ Accept \/ Evaluate \/ StateHolds \/ Tick \/ StepBack
  \/ \E b \in BOOLEAN : Ignore(b) \/ AlarmReport(b)
  \/ \E p \in {"cool", "band", "hot", "none"} : Scene(p)

\* Time passes and the one-second evaluation runs.
AlarmFairness == WF_alarmVars(Evaluate) /\ WF_alarmVars(Tick)
AlarmSpec == AlarmInit /\ [][AlarmNext]_alarmVars /\ AlarmFairness

-----------------------------------------------------------------------------
(* Properties                                                              *)

(* While the platform's switch stays on and targets keep appearing and     *)
(* leaving, alarms keep being raised: a refused edge delays the next alarm *)
(* by no more than the cooldown, also after the clock was set back.  And a *)
(* picture that stays too hot raises the temperature alarm, whatever       *)
(* alarms, lost readings or clock changes came before.                     *)
AlarmsKeepComing ==
  /\ <>[]motionReporting /\ []<>prevTarget /\ []<>(~prevTarget)
       => []<>raised /\ []<>(~raised)
  /\ <>[](picture = "hot") => <>[](state = "active")
=============================================================================
