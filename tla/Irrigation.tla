----------------------------- MODULE Irrigation -----------------------------
(***************************************************************************)
(* The irrigation application (app/irrigation_system_app/                  *)
(* display_sensor_data/ui_control.c): a sampling task reads the soil       *)
(* moisture, the light and the temperature, drives the pump and draws; the *)
(* task of display_test runs LVGL, whose events drive the pump as well.    *)
(*                                                                         *)
(* The tasks preempt each other, so a task that is at a label is somewhere *)
(* inside what the label names.  Nothing in the code excludes one task     *)
(* while the other is busy.  Texts, bars and the printing are left out.    *)
(***************************************************************************)
EXTENDS Integers

CONSTANTS Readings,     \* raw values that AdcRead returns
          MaxHumidity,  \* MAX_HUMIDITY and MAX_LIGHT, the raw value of dry soil
          HumidityRef,  \* HUMIDITY_REF, per cent
          Word,         \* one more than the largest uint32_t
          History       \* length of temperature_arry

ASSUME IrrigationAssumption ==
  /\ Readings \subseteq Nat
  /\ MaxHumidity \in Nat \ {0} /\ HumidityRef \in Nat /\ History \in Nat \ {0}
  /\ Word \in Nat /\ Word > 100 * MaxHumidity /\ \A v \in Readings : Word > v

VARIABLES sampler,      \* where Irrigation_system is
          display,      \* where display_test is
          readVal,      \* g_readVal
          humidity, light,
          temperature,  \* its source: nothing yet, the sensor, the source code
          tempIndex,    \* g_temp_index
          checked,      \* the state of ui_SwitchWater
          pumpStatus,   \* MyIrrigationSys.pump_status is PUMP_ON
          decision,     \* the branch of the sampling task's if
          pump          \* the level of the pump's pin

irrigationVars ==
  <<sampler, display, readVal, humidity, light, temperature, tempIndex,
    checked, pumpStatus, decision, pump>>

\* (MAX - v), times 100, over MAX, all of it in uint32_t.
Percent(v) == ((100 * ((MaxHumidity - v) % Word)) % Word) \div MaxHumidity

\* Humidity and light are percentages, for readings up to MAX_HUMIDITY: the
\* subtraction wraps round beyond.
IrrigationTypeOK ==
  /\ sampler \in {"start", "humidity", "showHumidity", "decide", "drive", "light",
                  "showLight", "request", "temperature", "draw", "sleep", "ended"}
  /\ display \in {"sleep", "handler", "drive"}
  /\ readVal \in Readings \cup {0}
  /\ humidity \in 0 .. 100 /\ light \in 0 .. 100
  /\ temperature \in {"none", "sensor", "source"}
  /\ tempIndex \in -1 .. History - 1
  /\ {checked, pumpStatus, decision, pump} \subseteq BOOLEAN

IrrigationInit ==
  /\ sampler = "start" /\ display = "sleep"
  /\ readVal = 0 /\ humidity = 0 /\ light = 0
  /\ temperature = "none" /\ tempIndex = -1
  /\ checked = FALSE /\ pumpStatus = FALSE /\ decision = FALSE /\ pump = FALSE

-----------------------------------------------------------------------------
(* Irrigation_system                                                       *)

Step(from, to) == sampler = from /\ sampler' = to

\* The pump is switched off; without a converter the task ends.
Start(opened) ==
  /\ Step("start", IF opened THEN "humidity" ELSE "ended")
  /\ pump' = FALSE
  /\ UNCHANGED <<display, readVal, humidity, light, temperature, tempIndex, checked,
                 pumpStatus, decision>>

\* A read that fails closes the converter and leaves the old value; the closed
\* handle is used again in the next round.
adc_humidity(v, ok) ==
  /\ Step("humidity", "showHumidity")
  /\ IF ok THEN readVal' = v /\ humidity' = Percent(v) ELSE UNCHANGED <<readVal, humidity>>
  /\ UNCHANGED <<display, light, temperature, tempIndex, checked, pumpStatus, decision, pump>>

\* LVGL calls and sleeps, which change nothing here.
SetHumiData == Step("showHumidity", "decide")
SetLightData == Step("showLight", "request")
Awake == Step("sleep", "humidity")

Pass ==
  /\ SetHumiData \/ SetLightData \/ Awake
  /\ UNCHANGED <<display, readVal, humidity, light, temperature, tempIndex, checked,
                 pumpStatus, decision, pump>>

\* Mutant: the switch is not looked at.
OnlyHumidity == humidity < HumidityRef

Wanted == humidity < HumidityRef \/ pumpStatus

Decide ==
  /\ Step("decide", "drive")
  /\ decision' = Wanted
  /\ UNCHANGED <<display, readVal, humidity, light, temperature, tempIndex, checked,
                 pumpStatus, pump>>

Drive ==
  /\ Step("drive", "light")
  /\ pump' = decision
  /\ UNCHANGED <<display, readVal, humidity, light, temperature, tempIndex, checked,
                 pumpStatus, decision>>

\* It reads the channel that adc_humidity reads.
adc_light(v, ok) ==
  /\ Step("light", "showLight")
  /\ IF ok THEN readVal' = v /\ light' = Percent(v) ELSE UNCHANGED <<readVal, light>>
  /\ UNCHANGED <<display, humidity, temperature, tempIndex, checked, pumpStatus, decision, pump>>

\* i2c_temperature opens the bus, asks for a measurement and sleeps; if the bus
\* cannot be opened it is over.
Request(opened) ==
  /\ Step("request", IF opened THEN "temperature" ELSE "draw")
  /\ UNCHANGED <<display, readVal, humidity, light, temperature, tempIndex, checked,
                 pumpStatus, decision, pump>>

NextIndex(i) == IF i + 1 >= History THEN 0 ELSE i + 1

\* The rest of i2c_temperature.
i2c_temperature(ok) ==
  /\ Step("temperature", "draw")
  /\ IF ok THEN temperature' = "sensor" /\ tempIndex' = NextIndex(tempIndex)
     ELSE UNCHANGED <<temperature, tempIndex>>
  /\ UNCHANGED <<display, readVal, humidity, light, checked, pumpStatus, decision, pump>>

\* SetTepmData and the chart, with one more series in every round.
Draw ==
  /\ Step("draw", "sleep")
  /\ UNCHANGED <<display, readVal, humidity, light, temperature, tempIndex, checked,
                 pumpStatus, decision, pump>>

Sampler ==
  \/ \E opened \in BOOLEAN : Start(opened)
  \/ \E v \in Readings, ok \in BOOLEAN : adc_humidity(v, ok)
  \/ Pass
  \/ Decide
  \/ Drive
  \/ \E v \in Readings, ok \in BOOLEAN : adc_light(v, ok)
  \/ \E opened \in BOOLEAN : Request(opened)
  \/ \E ok \in BOOLEAN : i2c_temperature(ok)
  \/ Draw

-----------------------------------------------------------------------------
(* display_test, and the events of lv_task_handler                         *)

HandlerStarts ==
  /\ display = "sleep" /\ display' = "handler"
  /\ UNCHANGED <<sampler, readVal, humidity, light, temperature, tempIndex, checked,
                 pumpStatus, decision, pump>>

HandlerEnds ==
  /\ display = "handler" /\ display' = "sleep"
  /\ UNCHANGED <<sampler, readVal, humidity, light, temperature, tempIndex, checked,
                 pumpStatus, decision, pump>>

\* The user flips the switch; WateringCtrl up to GpioWrite.
WateringCtrl ==
  /\ display = "handler" /\ display' = "drive"
  /\ checked' = ~checked
  /\ pumpStatus' = checked'
  /\ UNCHANGED <<sampler, readVal, humidity, light, temperature, tempIndex, decision, pump>>

\* Mutant: the pin is not written when the switch goes off.
DrivesOnlyOn ==
  /\ display = "drive" /\ display' = "handler"
  /\ pump' = (pump \/ pumpStatus)
  /\ UNCHANGED <<sampler, readVal, humidity, light, temperature, tempIndex, checked,
                 pumpStatus, decision>>

WateringCtrlDrives ==
  /\ display = "drive" /\ display' = "handler"
  /\ pump' = pumpStatus
  /\ UNCHANGED <<sampler, readVal, humidity, light, temperature, tempIndex, checked,
                 pumpStatus, decision>>

\* The button's handler sets the temperature to a number of its own.
GetTepmData ==
  /\ display = "handler"
  /\ temperature' = "source"
  /\ UNCHANGED <<sampler, display, readVal, humidity, light, tempIndex, checked, pumpStatus,
                 decision, pump>>

Ui == HandlerStarts \/ HandlerEnds \/ WateringCtrl \/ WateringCtrlDrives \/ GetTepmData

IrrigationNext == Sampler \/ Ui

\* Both tasks go on for ever, and an event's handler comes to its end.
IrrigationSpec ==
  /\ IrrigationInit /\ [][IrrigationNext]_irrigationVars
  /\ WF_irrigationVars(Sampler) /\ WF_irrigationVars(Ui)
  /\ WF_irrigationVars(WateringCtrlDrives)

-----------------------------------------------------------------------------
\* Whatever the order in which the two tasks write the pin, the pump ends up as
\* the soil and the switch ask for, once neither changes its mind: a write that
\* comes too late is made good by the next round.
PumpSettles ==
  \A wet, on \in BOOLEAN :
    <>[](sampler # "ended" /\ wet = (humidity >= HumidityRef) /\ on = pumpStatus)
      => <>[](pump = (on \/ ~wet))

\* The pump runs for a reason, however the tasks' writes fall: the sampling task
\* asked for it last, or the switch is on, or a write is under way; and what the
\* decision is taken from is a percentage.
PumpHasReason ==
  /\ IrrigationTypeOK
  /\ pump => decision \/ pumpStatus \/ display = "drive" \/ sampler = "drive"
=============================================================================
