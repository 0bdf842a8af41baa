----------------------------- MODULE MCControl -----------------------------
(***************************************************************************)
(* The machines around the media path, side by side in one run: machine    *)
(* says which one runs, the others rest where they began.  No step of one  *)
(* is combined with a step of another.                                     *)
(***************************************************************************)
EXTENDS WebConfig, WebSessions, AiModels, EventFanout, Alarms, GracefulExit,
        Thermal, I2cBus

CONSTANTS main, thermal

VARIABLE machine

BothSups == <<main, thermal>>
\* One field that does not matter otherwise is set by the environment.
MiscSet == [f \in {"misc"} |-> "in range"]

controlVars == <<machine, confVars, sessVars, aiVars, fanoutVars, alarmVars,
                 exitVars, thermalVars, i2cVars>>

MCInit ==
  /\ machine \in {"config", "sessions", "ai", "fanout", "alarms", "exit",
                  "thermal", "i2c"}
  /\ ConfInit /\ SessInit /\ (machine # "sessions" => configured)
  /\ AiInit /\ FanoutInit
  /\ AlarmInit /\ (machine # "alarms" => motionReporting)
  /\ ExitInit /\ ThermalInit
  /\ I2cInit /\ (machine # "i2c" => register = 0 /\ address = Sensor)

MCNext ==
  \/ /\ machine = "config" /\ ConfNext
     /\ UNCHANGED <<machine, sessVars, aiVars, fanoutVars, alarmVars, exitVars,
                    thermalVars, i2cVars>>
  \/ /\ machine = "sessions" /\ SessNext
     /\ UNCHANGED <<machine, confVars, aiVars, fanoutVars, alarmVars, exitVars,
                    thermalVars, i2cVars>>
  \/ /\ machine = "ai" /\ AiNext
     /\ UNCHANGED <<machine, confVars, sessVars, fanoutVars, alarmVars,
                    exitVars, thermalVars, i2cVars>>
  \/ /\ machine = "fanout" /\ FanoutNext
     /\ UNCHANGED <<machine, confVars, sessVars, aiVars, alarmVars, exitVars,
                    thermalVars, i2cVars>>
  \/ /\ machine = "alarms" /\ AlarmNext
     /\ UNCHANGED <<machine, confVars, sessVars, aiVars, fanoutVars, exitVars,
                    thermalVars, i2cVars>>
  \/ /\ machine = "exit" /\ ExitNext
     /\ UNCHANGED <<machine, confVars, sessVars, aiVars, fanoutVars, alarmVars,
                    thermalVars, i2cVars>>
  \/ /\ machine = "thermal" /\ ThermalNext
     /\ UNCHANGED <<machine, confVars, sessVars, aiVars, fanoutVars, alarmVars,
                    exitVars, i2cVars>>
  \/ /\ machine = "i2c" /\ I2cNext
     /\ UNCHANGED <<machine, confVars, sessVars, aiVars, fanoutVars, alarmVars,
                    exitVars, thermalVars>>

MCSpec == MCInit /\ [][MCNext]_controlVars

(* The type invariant of every machine.                                    *)
MCTypeOK ==
  /\ ConfTypeOK /\ SessTypeOK /\ AiTypeOK /\ FanoutTypeOK /\ AlarmTypeOK
  /\ ExitTypeOK /\ ThermalTypeOK /\ I2cTypeOK

(* A temperature is computed from the calibration of the sensor it was read*)
(* from (Thermal), and from the bytes that sensor sent (I2cBus).           *)
SensorsTrusted == CalibrationFits /\ ReadsRight

(* The liveness properties of the machines, each under the fairness its    *)
(* module states: the detections settle on the running model (AiModels),   *)
(* alarms go on being raised (Alarms), an exit ends the process            *)
(* (GracefulExit), a sensor within reach is read again (Thermal), and so   *)
(* are reads over a bus a dead process left halfway (I2cBus).              *)
FairControl ==
  /\ machine = "ai" /\ AiFairness => DetectionsSettle
  /\ machine = "alarms" /\ AlarmFairness => AlarmsKeepComing
  /\ machine = "exit" /\ ExitFairness => ExitWins
  /\ machine = "thermal" /\ ThermalFairness => SensorComesBack
  /\ machine = "i2c" /\ I2cFairness => BusRecovers
=============================================================================
